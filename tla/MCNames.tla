------------------------------- MODULE MCNames -------------------------------
(* Small instances of Protocols and Vendors for TLC. *)
EXTENDS Protocols, Vendors

CONSTANTS global, local, v1, v2, nobody

Line(bits, bytes, oui, lo, short) ==
    [parsed |-> TRUE, bits |-> bits, bytes |-> bytes, short |-> short,
     prefix |-> [oui |-> oui, hi |-> 0, lo |-> lo, next |-> 1]]

(* Blocks of every size within each other, a block said twice, a block of  *)
(* local addresses, and lines that are not kept: a prefix too short for    *)
(* its size, an unknown size, an empty column, a comment.                  *)
SomeLines ==
    { Line(24, 3, global, 0, v1), Line(24, 3, global, 0, v2),
      Line(28, 4, global, 0, v1), Line(28, 6, global, 1, v2),
      Line(36, 5, global, 1, v1), Line(36, 5, local, 1, v2),
      Line(36, 4, global, 0, v2), Line(32, 6, global, 0, v2),
      Line(24, 3, global, 0, nobody),
      [Line(24, 3, global, 0, v2) EXCEPT !.parsed = FALSE] }

(* With and without a transport header, a name of their own, or no name;   *)
(* ports known for TCP only, UDP only, both, under two names, or unknown.  *)
SomeNumbers == {1, 2, 6, 17, 58, 89}
SomePorts == {53, 80, 123, 443, 51234}
=============================================================================
