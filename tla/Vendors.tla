------------------------------- MODULE Vendors -------------------------------
(***************************************************************************)
(* The manufacturers of MAC addresses (src/resolve/oui.rs): the registry   *)
(* read line by line, and the search for the block of an address.          *)
(*                                                                         *)
(* An address is cut where a block can end, after 24, 28, 32 and 36 bits:  *)
(* oui is its first three bytes, hi and lo the halves of the fourth, next  *)
(* the high half of the fifth.  Nothing else of it is looked at.           *)
(***************************************************************************)
EXTENDS Integers, Sequences, FiniteSets

CONSTANTS
    Ouis,           \* first three bytes
    Local,          \* those of locally administered addresses
    Nibbles,        \* halves of a byte, 0 among them
    Vendors,        \* short names
    NoVendor,       \* None, or an empty column
    Lines,          \* the lines a registry may have
    MaxLines        \* bound: lines of the registry

Addresses == [oui : Ouis, hi : Nibbles, lo : Nibbles, next : Nibbles]
Sizes == {24, 28, 36}

(* bits is what follows the slash, 24 with no slash, 0 if it is no number; *)
(* bytes is the number of bytes that are written; short is NoVendor if the *)
(* column is empty; parsed is FALSE for a comment or a malformed prefix.   *)
ASSUME VendorsAssumption ==
    /\ Local \subseteq Ouis /\ NoVendor \notin Vendors
    /\ MaxLines \in Nat
    /\ Lines \subseteq [parsed : BOOLEAN, bits : 0 .. 255, bytes : 1 .. 6,
                        prefix : Addresses, short : Vendors \cup {NoVendor}]

VARIABLES
    read,   \* the lines read so far
    db      \* h24, h28 and h36, by size of block

vvars == <<read, db>>

(* The key of an address among the blocks of a size. *)
BlockOf(bits, a) ==
    CASE bits = 24 -> <<a.oui>>
      [] bits = 28 -> <<a.oui, a.hi>>
      [] bits = 36 -> <<a.oui, a.hi, a.lo, a.next>>

EnoughBytes == [bits \in Sizes |-> CASE bits = 24 -> 3 [] bits = 28 -> 4 [] bits = 36 -> 5]

Usable(line) ==
    /\ line.parsed
    /\ line.short \in Vendors
    /\ line.bits \in Sizes
    /\ line.bytes >= EnoughBytes[line.bits]

VInit ==
    /\ read = <<>>
    /\ db = [bits \in Sizes |-> <<>>]

(* Mutation of Inserted: the first line of a block is kept. *)
InsertedOnce(blocks, block, short) ==
    [b \in DOMAIN blocks \cup {block} |-> IF b \in DOMAIN blocks THEN blocks[b] ELSE short]

(* HashMap::insert *)
Inserted(blocks, block, short) ==
    [b \in DOMAIN blocks \cup {block} |-> IF b = block THEN short ELSE blocks[b]]

(* One turn of build_db. *)
ReadLine(line) ==
    /\ Len(read) < MaxLines
    /\ read' = Append(read, line)
    /\ db' = IF Usable(line)
             THEN [db EXCEPT ![line.bits] =
                      Inserted(@, BlockOf(line.bits, line.prefix), line.short)]
             ELSE db

VNext == \E line \in Lines : ReadLine(line)

VSpec == VInit /\ [][VNext]_vvars
-----------------------------------------------------------------------------
Known(bits, a) == BlockOf(bits, a) \in DOMAIN db[bits]
Found(bits, a) == db[bits][BlockOf(bits, a)]

(* Mutation of Vendor: the shortest block wins. *)
VendorShortest(a) ==
    CASE a.oui \in Local -> NoVendor
      [] a.oui \notin Local /\ Known(24, a) -> Found(24, a)
      [] a.oui \notin Local /\ ~Known(24, a) /\ Known(28, a) -> Found(28, a)
      [] a.oui \notin Local /\ ~Known(24, a) /\ ~Known(28, a) /\ Known(36, a) -> Found(36, a)
      [] OTHER -> NoVendor

(* vendor *)
Vendor(a) ==
    IF a.oui \in Local THEN NoVendor
    ELSE IF Known(36, a) THEN Found(36, a)
    ELSE IF Known(28, a) THEN Found(28, a)
    ELSE IF Known(24, a) THEN Found(24, a)
    ELSE NoVendor
-----------------------------------------------------------------------------
(* The line is about a block that holds the address. *)
Holds(line, a) ==
    Usable(line) /\ BlockOf(line.bits, line.prefix) = BlockOf(line.bits, a)

(* An address is named after the smallest block that holds it, and after   *)
(* the last line of that block; after none if it is local or if no block   *)
(* holds it (oui.rs:36-66, 79-90).                                         *)
SmallestBlockNamed ==
    \A a \in Addresses :
        IF a.oui \in Local \/ \A i \in DOMAIN read : ~Holds(read[i], a)
        THEN Vendor(a) = NoVendor
        ELSE \E i \in DOMAIN read :
                /\ Holds(read[i], a)
                /\ Vendor(a) = read[i].short
                /\ \A j \in DOMAIN read \ {i} :
                      Holds(read[j], a) =>
                          \/ read[j].bits < read[i].bits
                          \/ read[j].bits = read[i].bits /\ j < i
=============================================================================
