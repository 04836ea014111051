----------------------------- MODULE Names_proofs ------------------------------
(***************************************************************************)
(* The names put on a picture.  The registry of Vendors, for any lines in  *)
(* any order: the blocks are those of the lines that can be used, each     *)
(* named by the last of them, and an address is named after the smallest   *)
(* block that holds it.  Then the names of Protocols, for any flow and any *)
(* number of its frames among others.                                      *)
(***************************************************************************)
EXTENDS Protocols, Vendors, Induction, TLAPS


(* Of the lines q, the i-th is about that block. *)
About(q, i, bits, block) ==
    /\ Usable(q[i])
    /\ q[i].bits = bits
    /\ BlockOf(bits, q[i].prefix) = block

(* The line that names a block: the last one about it. *)
Naming(q, i, bits, block) ==
    /\ About(q, i, bits, block)
    /\ \A j \in DOMAIN q : About(q, j, bits, block) => j <= i

Registered ==
    \A bits \in Sizes : \A block :
        IF block \in DOMAIN db[bits]
        THEN \E i \in DOMAIN read :
                Naming(read, i, bits, block) /\ db[bits][block] = read[i].short
        ELSE \A i \in DOMAIN read : ~About(read, i, bits, block)

RegistryInv ==
    /\ read \in Seq(Lines)
    /\ DOMAIN db = Sizes
    /\ Registered
-----------------------------------------------------------------------------
LEMMA InitInv == VInit => RegistryInv
<1> SUFFICES ASSUME VInit PROVE RegistryInv
  OBVIOUS
<1>1. read \in Seq(Lines) /\ DOMAIN db = Sizes
  BY DEF VInit
<1>2. \A bits \in Sizes : DOMAIN db[bits] = {}
  BY DEF VInit
<1>3. DOMAIN read = {}
  BY DEF VInit
<1> QED BY <1>1, <1>2, <1>3 DEF RegistryInv, Registered

LEMMA ReadLineKeeps ==
    ASSUME RegistryInv, NEW line \in Lines, ReadLine(line)
    PROVE  RegistryInv'
<1>0. PICK n \in Nat : n = Len(read)
  BY DEF RegistryInv
<1>1. /\ DOMAIN read = 1 .. n /\ DOMAIN read' = 1 .. n + 1
      /\ read' \in Seq(Lines)
      /\ read'[n + 1] = line /\ \A i \in 1 .. n : read'[i] = read[i]
  BY <1>0 DEF RegistryInv, ReadLine
<1> DEFINE block_of == BlockOf(line.bits, line.prefix)
<1>2. DOMAIN db' = Sizes
  BY DEF RegistryInv, ReadLine
<1>3. ASSUME NEW bits \in Sizes, NEW block
      PROVE  /\ About(read', n + 1, bits, block) <=>
                   Usable(line) /\ line.bits = bits /\ block_of = block
             /\ \A i \in 1 .. n : About(read', i, bits, block) <=> About(read, i, bits, block)
  BY <1>1 DEF About
<1>4. ASSUME NEW bits \in Sizes, NEW block,
             Usable(line), line.bits = bits, block_of = block
      PROVE  /\ block \in DOMAIN db'[bits]
             /\ Naming(read', n + 1, bits, block) /\ db'[bits][block] = read'[n + 1].short
  <2>1. db'[bits] = Inserted(db[bits], block, line.short)
    BY <1>4 DEF ReadLine, RegistryInv
  <2>2. block \in DOMAIN db'[bits] /\ db'[bits][block] = line.short
    BY <2>1 DEF Inserted
  <2>3. About(read', n + 1, bits, block)
    BY <1>3, <1>4
  <2>4. Naming(read', n + 1, bits, block)
    BY <1>1, <2>3 DEF Naming
  <2> QED BY <1>1, <2>2, <2>4
<1>5. ASSUME NEW bits \in Sizes, NEW block,
             ~(Usable(line) /\ line.bits = bits /\ block_of = block)
      PROVE  /\ block \in DOMAIN db'[bits] <=> block \in DOMAIN db[bits]
             /\ block \in DOMAIN db[bits] => db'[bits][block] = db[bits][block]
             /\ ~About(read', n + 1, bits, block)
  <2>1. ~About(read', n + 1, bits, block)
    BY <1>3, <1>5
  <2>2. CASE ~Usable(line) \/ line.bits # bits
    <3>1. db'[bits] = db[bits]
      BY <2>2 DEF ReadLine, RegistryInv
    <3> QED BY <2>1, <3>1
  <2>3. CASE Usable(line) /\ line.bits = bits /\ block_of # block
    <3>1. db'[bits] = Inserted(db[bits], block_of, line.short)
      BY <2>3 DEF ReadLine, RegistryInv
    <3> QED BY <2>1, <2>3, <3>1 DEF Inserted
  <2> QED BY <1>5, <2>2, <2>3
<1>6. ASSUME NEW bits \in Sizes, NEW block
      PROVE  IF block \in DOMAIN db'[bits]
             THEN \E i \in DOMAIN read' :
                     Naming(read', i, bits, block) /\ db'[bits][block] = read'[i].short
             ELSE \A i \in DOMAIN read' : ~About(read', i, bits, block)
  <2>1. CASE Usable(line) /\ line.bits = bits /\ block_of = block
    BY <1>1, <1>4, <2>1
  <2>2. CASE ~(Usable(line) /\ line.bits = bits /\ block_of = block)
    <3>1. CASE block \in DOMAIN db[bits]
      <4>1. PICK i \in 1 .. n : Naming(read, i, bits, block) /\ db[bits][block] = read[i].short
        BY <1>1, <3>1 DEF RegistryInv, Registered
      <4>2. Naming(read', i, bits, block)
        BY <1>1, <1>3, <1>5, <2>2, <4>1 DEF Naming
      <4> QED BY <1>1, <1>5, <2>2, <3>1, <4>1, <4>2
    <3>2. CASE block \notin DOMAIN db[bits]
      <4>1. \A i \in 1 .. n : ~About(read, i, bits, block)
        BY <1>1, <3>2 DEF RegistryInv, Registered
      <4> QED BY <1>1, <1>3, <1>5, <2>2, <3>2, <4>1
    <3> QED BY <3>1, <3>2
  <2> QED BY <2>1, <2>2
<1>7. Registered'
  BY <1>6 DEF Registered
<1> QED BY <1>1, <1>2, <1>7 DEF RegistryInv

LEMMA RegistryInvAlways == VSpec => []RegistryInv
<1>1. RegistryInv /\ [VNext]_vvars => RegistryInv'
  <2> SUFFICES ASSUME RegistryInv, [VNext]_vvars PROVE RegistryInv'
    OBVIOUS
  <2>1. CASE VNext
    BY <2>1, ReadLineKeeps DEF VNext
  <2>2. CASE UNCHANGED vvars
    BY <2>2 DEF vvars, RegistryInv, Registered, Naming, About
  <2> QED BY <2>1, <2>2
<1> QED BY <1>1, InitInv, PTL DEF VSpec
-----------------------------------------------------------------------------
(* A block of a size that names an address. *)
LEMMA Names ==
    ASSUME RegistryInv, NEW a \in Addresses, NEW bits \in Sizes
    PROVE  IF Known(bits, a)
           THEN \E i \in DOMAIN read :
                   /\ Holds(read[i], a) /\ read[i].bits = bits
                   /\ Found(bits, a) = read[i].short
                   /\ \A j \in DOMAIN read :
                         Holds(read[j], a) /\ read[j].bits = bits => j <= i
           ELSE \A i \in DOMAIN read : Holds(read[i], a) => read[i].bits # bits
<1> DEFINE block == BlockOf(bits, a)
<1>1. \A i \in DOMAIN read :
         About(read, i, bits, block) <=> Holds(read[i], a) /\ read[i].bits = bits
  BY DEF About, Holds
<1>2. CASE Known(bits, a)
  <2>1. PICK i \in DOMAIN read : Naming(read, i, bits, block) /\ db[bits][block] = read[i].short
    BY <1>2 DEF Known, RegistryInv, Registered
  <2> QED BY <1>1, <1>2, <2>1 DEF Naming, Found
<1>3. CASE ~Known(bits, a)
  BY <1>1, <1>3 DEF Known, RegistryInv, Registered
<1> QED BY <1>2, <1>3

(* Whatever the registry, the smallest block wins, and the last line that  *)
(* says it.                                                                *)
THEOREM SmallestAlwaysNamed == VSpec => []SmallestBlockNamed
<1>1. ASSUME RegistryInv, NEW a \in Addresses
      PROVE  IF a.oui \in Local \/ \A i \in DOMAIN read : ~Holds(read[i], a)
             THEN Vendor(a) = NoVendor
             ELSE \E i \in DOMAIN read :
                     /\ Holds(read[i], a)
                     /\ Vendor(a) = read[i].short
                     /\ \A j \in DOMAIN read \ {i} :
                           Holds(read[j], a) =>
                               \/ read[j].bits < read[i].bits
                               \/ read[j].bits = read[i].bits /\ j < i
  <2>1. CASE a.oui \in Local
    BY <2>1 DEF Vendor
  <2>2. /\ DOMAIN read \subseteq Nat
        /\ \A i \in DOMAIN read : Holds(read[i], a) => read[i].bits \in {24, 28, 36}
    BY <1>1 DEF RegistryInv, Holds, Usable, Sizes
  <2>3. 24 \in Sizes /\ 28 \in Sizes /\ 36 \in Sizes
    BY DEF Sizes
  <2>4. ASSUME a.oui \notin Local, NEW bits \in Sizes, Known(bits, a),
               Vendor(a) = Found(bits, a),
               \A b \in Sizes : Known(b, a) => b <= bits
        PROVE  \E i \in DOMAIN read :
                  /\ Holds(read[i], a)
                  /\ Vendor(a) = read[i].short
                  /\ \A j \in DOMAIN read \ {i} :
                        Holds(read[j], a) =>
                            \/ read[j].bits < read[i].bits
                            \/ read[j].bits = read[i].bits /\ j < i
    <3>1. PICK i \in DOMAIN read :
             /\ Holds(read[i], a) /\ read[i].bits = bits
             /\ Found(bits, a) = read[i].short
             /\ \A j \in DOMAIN read :
                   Holds(read[j], a) /\ read[j].bits = bits => j <= i
      BY <1>1, <2>4, Names
    <3>2. ASSUME NEW j \in DOMAIN read \ {i}, Holds(read[j], a)
          PROVE  \/ read[j].bits < read[i].bits
                 \/ read[j].bits = read[i].bits /\ j < i
      <4>1. Known(read[j].bits, a) /\ read[j].bits \in Sizes
        BY <1>1, <2>2, <3>2, Names DEF Sizes
      <4>2. read[j].bits <= bits
        BY <4>1, <2>4
      <4> QED BY <2>2, <3>1, <3>2, <4>2
    <3> QED BY <2>4, <3>1, <3>2
  <2>5. CASE a.oui \notin Local /\ Known(36, a)
    <3>1. Vendor(a) = Found(36, a)
      BY <2>5 DEF Vendor
    <3>2. \A b \in Sizes : b <= 36
      BY DEF Sizes
    <3>3. \E i \in DOMAIN read : Holds(read[i], a)
      BY <1>1, <2>3, <2>5, Names
    <3> QED BY <2>3, <2>4, <2>5, <3>1, <3>2, <3>3
  <2>6. CASE a.oui \notin Local /\ ~Known(36, a) /\ Known(28, a)
    <3>1. Vendor(a) = Found(28, a)
      BY <2>6 DEF Vendor
    <3>2. \A b \in Sizes : Known(b, a) => b <= 28
      BY <2>6 DEF Sizes
    <3>3. \E i \in DOMAIN read : Holds(read[i], a)
      BY <1>1, <2>3, <2>6, Names
    <3> QED BY <2>3, <2>4, <2>6, <3>1, <3>2, <3>3
  <2>7. CASE a.oui \notin Local /\ ~Known(36, a) /\ ~Known(28, a) /\ Known(24, a)
    <3>1. Vendor(a) = Found(24, a)
      BY <2>7 DEF Vendor
    <3>2. \A b \in Sizes : Known(b, a) => b <= 24
      BY <2>7 DEF Sizes
    <3>3. \E i \in DOMAIN read : Holds(read[i], a)
      BY <1>1, <2>3, <2>7, Names
    <3> QED BY <2>3, <2>4, <2>7, <3>1, <3>2, <3>3
  <2>8. CASE a.oui \notin Local /\ ~Known(36, a) /\ ~Known(28, a) /\ ~Known(24, a)
    <3>1. Vendor(a) = NoVendor
      BY <2>8 DEF Vendor
    <3>2. ASSUME NEW i \in DOMAIN read, Holds(read[i], a)
          PROVE  FALSE
      BY <1>1, <2>2, <2>3, <2>8, <3>2, Names
    <3> QED BY <3>1, <3>2
  <2> QED BY <2>1, <2>5, <2>6, <2>7, <2>8
<1>2. RegistryInv => SmallestBlockNamed
  BY <1>1 DEF SmallestBlockNamed
<1> QED BY <1>2, RegistryInvAlways, PTL
-----------------------------------------------------------------------------
(* The counts of the protocols of a conversation. *)

IsCount(proto_bytes) ==
    /\ IsFiniteSet(DOMAIN proto_bytes)
    /\ \A p \in DOMAIN proto_bytes : proto_bytes[p] \in Nat

(* A frame is counted under its name only. *)
LEMMA AddProtoIsCount ==
    ASSUME NEW pb, IsCount(pb), NEW p
    PROVE  /\ IsCount(AddProto(pb, p))
           /\ DOMAIN AddProto(pb, p) = DOMAIN pb \cup {p}
           /\ AddProto(pb, p)[p] = (IF p \in DOMAIN pb THEN pb[p] ELSE 0) + 1
           /\ \A x \in DOMAIN pb : x # p => AddProto(pb, p)[x] = pb[x]
<1> DEFINE q == AddProto(pb, p)
<1>1. /\ DOMAIN q = DOMAIN pb \cup {p}
      /\ \A x \in DOMAIN pb : x # p => q[x] = pb[x]
      /\ q[p] = (IF p \in DOMAIN pb THEN pb[p] ELSE 0) + 1
  BY DEF AddProto, IsCount
<1> HIDE DEF q
<1>2. IsFiniteSet(DOMAIN q)
  BY <1>1, FS_AddElement DEF IsCount
<1>3. IsCount(q)
  BY <1>1, <1>2 DEF IsCount
<1> QED
  BY <1>1, <1>3 DEF q

(* It adds nothing to what is counted under other names.                   *)
LEMMA AddProtoElsewhere ==
    ASSUME NEW pb, IsCount(pb), NEW p, NEW S, S \in SUBSET DOMAIN pb, p \notin S
    PROVE  SumFunctionOnSet(AddProto(pb, p), S) = SumFunctionOnSet(pb, S)
<1>1. IsFiniteSet(S)
  BY FS_Subset DEF IsCount
<1>2. \A x \in S : AddProto(pb, p)[x] = pb[x]
  BY AddProtoIsCount, ZenonT(30)
<1> QED
  BY <1>1, <1>2, SumOfSame

(* It adds one to what is counted under its name, if it has one, and others*)
LEMMA AddProtoThere ==
    ASSUME NEW pb, IsCount(pb), NEW p, NEW S, S \in SUBSET DOMAIN pb,
           p \in DOMAIN pb => p \in S
    PROVE  SumFunctionOnSet(AddProto(pb, p), S \cup {p}) = SumFunctionOnSet(pb, S) + 1
<1> DEFINE q == AddProto(pb, p)
           before == IF p \in S THEN pb[p] ELSE 0
<1>1. IsFiniteSet(S) /\ \A x \in S : pb[x] \in Nat
  BY FS_Subset DEF IsCount
<1>2. \A x \in S : x # p => q[x] = pb[x]
  BY AddProtoIsCount
<1>3. q[p] = before + 1 /\ before \in Nat
  BY AddProtoIsCount DEF IsCount
<1>4. q[p] \in Nat
  BY <1>3
<1> HIDE DEF q
<1>5. SumFunctionOnSet(q, S \cup {p}) = SumFunctionOnSet(pb, S) + q[p] - before
  BY ONLY <1>1, <1>2, <1>4, SumOfChange
<1>6. SumFunctionOnSet(pb, S) \in Nat
  BY <1>1, SumOfPart
<1> HIDE DEF before
<1>7. SumFunctionOnSet(q, S \cup {p}) = SumFunctionOnSet(pb, S) + 1
  BY <1>3, <1>5, <1>6
<1> QED
  BY <1>7 DEF q

IpNames == {Named("IPv4"), Named("IPv6")}

(* The invariant that makes the two views agree, and names a flow.         *)
CountsInv ==
    /\ flow \in Flows
    /\ IsCount(ether) /\ IsCount(inter)
    /\ ViewsAgree
    /\ DOMAIN inter \subseteq {L4Proto(f) : f \in FlowFrames}

(* The protocol of an IP packet is never none. *)
LEMMA L4ProtoIsOne == ASSUME NEW f PROVE L4Proto(f) # NoProto
BY DEF L4Proto, ByNumber, AppProto, Named, Ip, NoProto

(* A frame counts once in the first view, and once in the second if it is  *)
(* IP: under the name of one of the frames of the flow.                    *)
LEMMA FrameKeeps ==
    ASSUME CountsInv, NEW f \in FlowFrames \cup OtherFrames, Frame(f)
    PROVE  CountsInv'
<1> DEFINE E == DOMAIN ether \cap IpNames
           meta == ParseFrame(f)
<1>0. flow' = flow /\ flow \in Flows /\ FlowFrames' = FlowFrames
  BY DEF CountsInv, Frame, FlowFrames, FlowFrame, Transports
<1>1. IsCount(ether) /\ IsCount(inter) /\ E \subseteq DOMAIN ether
  BY DEF CountsInv
<1>2. /\ Total(inter) = SumFunctionOnSet(ether, E)
      /\ ViewsAgree' <=> Total(inter') = SumFunctionOnSet(ether', DOMAIN ether' \cap IpNames)
  BY DEF CountsInv, ViewsAgree, IpNames
<1>3. ether' = AddProto(ether, meta.l2_proto)
  BY DEF Frame
<1>4. /\ IsCount(ether') /\ DOMAIN ether' = DOMAIN ether \cup {meta.l2_proto}
      /\ meta.l2_proto \notin E =>
            SumFunctionOnSet(ether', E) = SumFunctionOnSet(ether, E)
      /\ (meta.l2_proto \in DOMAIN ether => meta.l2_proto \in E) =>
            SumFunctionOnSet(ether', E \cup {meta.l2_proto}) = SumFunctionOnSet(ether, E) + 1
  <2>1. E \in SUBSET DOMAIN ether
    BY <1>1
  <2> HIDE DEF E, meta
  <2>2. IsCount(ether') /\ DOMAIN ether' = DOMAIN ether \cup {meta.l2_proto}
    BY <1>1, <1>3, AddProtoIsCount
  <2>3. meta.l2_proto \notin E =>
            SumFunctionOnSet(ether', E) = SumFunctionOnSet(ether, E)
    BY <1>1, <1>3, <2>1, AddProtoElsewhere
  <2>4. (meta.l2_proto \in DOMAIN ether => meta.l2_proto \in E) =>
            SumFunctionOnSet(ether', E \cup {meta.l2_proto}) = SumFunctionOnSet(ether, E) + 1
    BY <1>1, <1>3, <2>1, AddProtoThere
  <2> QED BY <2>2, <2>3, <2>4
<1>5. CASE f \in FlowFrames
  <2>1. f.net \in {"IPv4", "IPv6"}
    <3>1. flow.net \in {"IPv4", "IPv6"}
      BY <1>0 DEF Flows
    <3>2. PICK way \in {1, 2}, transport \in Transports :
             f = FlowFrame(way, transport)
      BY <1>5 DEF FlowFrames
    <3>3. f.net = flow.net
      BY <3>2 DEF FlowFrame
    <3> QED BY <3>1, <3>3
  <2>2. meta.l2_proto = Named(f.net) /\ meta.l2_proto \in IpNames
        /\ meta.l3_proto = L4Proto(f)
    BY <2>1 DEF ParseFrame, IpNames, Named
  <2>3. inter' = AddProto(inter, L4Proto(f))
    BY <2>2, L4ProtoIsOne DEF Frame
  <2>4. /\ IsCount(inter') /\ DOMAIN inter' = DOMAIN inter \cup {L4Proto(f)}
        /\ Total(inter') = Total(inter) + 1
    <3>1. IsCount(inter') /\ DOMAIN inter' = DOMAIN inter \cup {L4Proto(f)}
      BY <1>1, <2>3, AddProtoIsCount
    <3>2. SumFunctionOnSet(inter', DOMAIN inter \cup {L4Proto(f)})
            = SumFunctionOnSet(inter, DOMAIN inter) + 1
      BY <1>1, <2>3, AddProtoThere
    <3> QED BY <3>1, <3>2 DEF Total
  <2>5. SumFunctionOnSet(ether', DOMAIN ether' \cap IpNames) = SumFunctionOnSet(ether, E) + 1
    <3>1. DOMAIN ether' \cap IpNames = E \cup {meta.l2_proto}
      BY <1>4, <2>2
    <3>2. meta.l2_proto \in DOMAIN ether => meta.l2_proto \in E
      BY <2>2
    <3> QED BY <1>4, <3>1, <3>2
  <2>6. DOMAIN inter' \subseteq {L4Proto(g) : g \in FlowFrames}
    BY <1>5, <2>4 DEF CountsInv
  <2> HIDE DEF E, meta
  <2>7. ViewsAgree'
    BY <1>2, <2>4, <2>5
  <2> QED BY <1>0, <1>4, <2>4, <2>6, <2>7 DEF CountsInv
<1>6. CASE f \in OtherFrames
  <2>1. f.net \in {"ARP", "none"}
    BY <1>6 DEF OtherFrames
  <2>2. meta.l3_proto = NoProto /\ meta.l2_proto \notin IpNames
    BY <2>1 DEF ParseFrame, IpNames, Named, Ether
  <2>3. inter' = inter
    BY <2>2 DEF Frame
  <2>4. DOMAIN ether' \cap IpNames = E /\ meta.l2_proto \notin E
    BY <1>4, <2>2
  <2>5. ViewsAgree'
    BY <1>2, <1>4, <2>3, <2>4
  <2> QED BY <1>0, <1>1, <1>4, <2>3, <2>5 DEF CountsInv
<1> QED
  BY <1>5, <1>6

LEMMA CountsInvAlways == CSpec => []CountsInv
<1>1. CInit => CountsInv
  <2> SUFFICES ASSUME CInit PROVE CountsInv
    OBVIOUS
  <2>1. DOMAIN ether = {} /\ DOMAIN inter = {} /\ flow \in Flows
    BY DEF CInit
  <2>2. ViewsAgree
    BY <2>1, SumOfNone DEF ViewsAgree, Total
  <2> QED BY <2>1, <2>2, FS_EmptySet DEF CountsInv, IsCount
<1>2. CountsInv /\ [CNext]_cvars => CountsInv'
  <2> SUFFICES ASSUME CountsInv, [CNext]_cvars PROVE CountsInv'
    OBVIOUS
  <2>1. ASSUME flow' = flow, ether' = ether, inter' = inter PROVE CountsInv'
    BY <2>1 DEF CountsInv, IsCount, ViewsAgree, Total, FlowFrames, FlowFrame, Transports
  <2>2. CASE Garbled
    BY <2>1, <2>2 DEF Garbled
  <2>3. CASE UNCHANGED cvars
    BY <2>1, <2>3 DEF cvars
  <2> QED BY <2>2, <2>3, FrameKeeps DEF CNext
<1> QED
  BY <1>1, <1>2, PTL DEF CSpec

(* What the first table counts as IP is what the second table counts.      *)
THEOREM ViewsAlwaysAgree == CSpec => []ViewsAgree
<1>1. CountsInv => ViewsAgree
  BY DEF CountsInv
<1> QED
  BY <1>1, CountsInvAlways, PTL

(* The lines of the port tables do not overlap. *)
LEMMA OneLine ==
    ASSUME NEW w \in WellKnown, NEW x \in WellKnown, NEW transport, NEW port,
           transport \in w[2], transport \in x[2], port \in w[3], port \in x[3]
    PROVE  w[1] = x[1]
BY DEF WellKnown

LEMMA OnePortName ==
    ASSUME NEW transport, NEW port,
           NEW x \in WellKnownPort(transport, port), NEW y \in WellKnownPort(transport, port)
    PROVE  x = y
BY OneLine DEF WellKnownPort

LEMMA NoPortName ==
    ASSUME NEW transport, transport \notin {"tcp", "udp"}, NEW port
    PROVE  WellKnownPort(transport, port) = {}
BY DEF WellKnownPort, WellKnown

(* The arm of a protocol number is the only one of that number.            *)
LEMMA NumberName ==
    ASSUME NEW n \in NumberNames
    PROVE  (CHOOSE m \in NumberNames : m[1] = n[1]) = n
<1>1. \A m \in NumberNames : m[1] = n[1] => m = n
  BY DEF NumberNames
<1> QED
  BY <1>1

(* The arms of l4_proto. *)
LEMMA L4ProtoArms ==
    ASSUME NEW f
    PROVE  /\ f.transport \in {"tcp", "udp"} =>
                 L4Proto(f) = AppProto(f.transport, f.sport, f.dport)
           /\ f.transport = "icmpv6" => L4Proto(f) = Named("ICMPv6")
           /\ f.transport = "none" =>
                 \A n \in NumberNames : f.number = n[1] => L4Proto(f) = Named(n[2])
<1>1. \A n \in NumberNames : f.number = n[1] => ByNumber(f.number) = Named(n[2])
  <2>1. ASSUME NEW n \in NumberNames PROVE ByNumber(n[1]) = Named(n[2])
    <3>1. \E m \in NumberNames : m[1] = n[1]
      OBVIOUS
    <3> QED BY <3>1, NumberName DEF ByNumber
  <2> QED BY <2>1
<1>2. f.transport = "none" => L4Proto(f) = ByNumber(f.number)
  BY DEF L4Proto
<1> QED
  BY <1>1, <1>2 DEF L4Proto

(* The names of the flow's two ports. *)
FlowNames == UNION {PortNames(flow.ports[way]) : way \in {1, 2}}

(* If the ports do not have two names, they have one or none.              *)
LEMMA FlowNamesOne ==
    ASSUME Cardinality(FlowNames) # 2, NEW x \in FlowNames, NEW y \in FlowNames
    PROVE  x = y
<1> SUFFICES ASSUME x # y PROVE FALSE
  OBVIOUS
<1>1. PICK i \in {1, 2} : x \in PortNames(flow.ports[i])
  BY DEF FlowNames
<1>2. PICK j \in {1, 2} : y \in PortNames(flow.ports[j])
  BY DEF FlowNames
<1>3. i # j
  BY <1>1, <1>2, OnePortName DEF PortNames
<1>4. FlowNames = {x, y}
  <2>1. \A z \in FlowNames : z \in PortNames(flow.ports[i]) \/ z \in PortNames(flow.ports[j])
    BY <1>3 DEF FlowNames
  <2> QED BY <1>1, <1>2, <2>1, OnePortName DEF PortNames
<1>5. Cardinality({x, y}) = 2
  <2>1. IsFiniteSet({x}) /\ Cardinality({x}) = 1
    BY FS_Singleton
  <2>2. Cardinality({x} \cup {y}) = Cardinality({x}) + 1
    BY <2>1, FS_AddElement
  <2>3. {x} \cup {y} = {x, y}
    OBVIOUS
  <2> QED BY <2>1, <2>2, <2>3
<1> QED
  BY <1>4, <1>5

(* Then a whole datagram has one name, whichever way it goes.              *)
LEMMA OneWayNames ==
    ASSUME Cardinality(FlowNames) # 2, NEW way \in {1, 2}
    PROVE  AppProto(Transport(flow.number), flow.ports[way], flow.ports[3 - way])
             = Named(IF FlowNames # {} THEN CHOOSE n \in FlowNames : TRUE
                     ELSE Fallback[Transport(flow.number)])
<1> DEFINE t == Transport(flow.number)
           S == WellKnownPort(t, flow.ports[way])
           D == WellKnownPort(t, flow.ports[3 - way])
           names == IF D # {} THEN D ELSE S
<1>1. FlowNames = S \cup D
  <2>1. {way, 3 - way} = {1, 2}
    OBVIOUS
  <2> QED BY <2>1 DEF FlowNames, PortNames
<1>2. names \subseteq FlowNames /\ (FlowNames # {} <=> names # {})
  BY <1>1
<1>3. FlowNames # {} => (CHOOSE n \in names : TRUE) = (CHOOSE n \in FlowNames : TRUE)
  BY <1>2, FlowNamesOne
<1>4. AppProto(t, flow.ports[way], flow.ports[3 - way])
        = Named(IF names # {} THEN CHOOSE n \in names : TRUE ELSE Fallback[t])
  BY DEF AppProto
<1> HIDE DEF names, t
<1> QED
  BY <1>2, <1>3, <1>4 DEF t

(* And unless its datagrams come in fragments that ports would name, or    *)
(* that are ICMP, each of its frames has the name of any other.            *)
LEMMA OneL4Proto ==
    ASSUME CountsInv, Cardinality(FlowNames) # 2,
           ~(flow.fragmented /\ (FlowNames # {} \/ flow.number = 1)),
           NEW f \in FlowFrames
    PROVE  L4Proto(f) = L4Proto(FlowFrame(1, Transport(flow.number)))
<1> DEFINE t == Transport(flow.number)
           whole == L4Proto(FlowFrame(1, t))
<1>1. PICK way \in {1, 2}, transport \in Transports : f = FlowFrame(way, transport)
  BY DEF FlowFrames
<1>2. f.number = flow.number /\ f.transport = transport
      /\ f.sport = flow.ports[way] /\ f.dport = flow.ports[3 - way]
  BY <1>1 DEF FlowFrame
<1>3. CASE transport = t
  <2>1. CASE t \in {"tcp", "udp"}
    <3>1. L4Proto(f) = AppProto(t, flow.ports[way], flow.ports[3 - way])
      BY <1>2, <1>3, <2>1, L4ProtoArms
    <3>2. whole = AppProto(t, flow.ports[1], flow.ports[3 - 1])
      BY <2>1, L4ProtoArms DEF FlowFrame
    <3>3. /\ AppProto(t, flow.ports[way], flow.ports[3 - way])
               = Named(IF FlowNames # {} THEN CHOOSE n \in FlowNames : TRUE ELSE Fallback[t])
          /\ AppProto(t, flow.ports[1], flow.ports[3 - 1])
               = Named(IF FlowNames # {} THEN CHOOSE n \in FlowNames : TRUE ELSE Fallback[t])
      BY OneWayNames
    <3> QED BY <3>1, <3>2, <3>3
  <2>2. CASE t \notin {"tcp", "udp"}
    BY <1>2, <1>3, <2>2 DEF L4Proto, FlowFrame
  <2> QED BY <2>1, <2>2
<1>4. CASE transport # t
  <2>1. transport = "none" /\ flow.fragmented
    BY <1>1, <1>4 DEF Transports
  <2>2. FlowNames = {} /\ flow.number # 1
    BY <2>1
  <2>3. \A n \in NumberNames : f.number = n[1] => L4Proto(f) = Named(n[2])
    BY <1>2, <2>1, L4ProtoArms
  <2>4. t \in {"tcp", "udp"} => whole = Named(Fallback[t])
    <3> SUFFICES ASSUME t \in {"tcp", "udp"} PROVE whole = Named(Fallback[t])
      OBVIOUS
    <3>1. whole = AppProto(t, flow.ports[1], flow.ports[3 - 1])
      BY L4ProtoArms DEF FlowFrame
    <3> QED BY <2>2, <3>1, OneWayNames
  <2>5. CASE flow.number = 6
    <3>1. t = "tcp" /\ <<6, "TCP">> \in NumberNames /\ Fallback[t] = "TCP"
      BY <2>5 DEF Transport, NumberNames, Fallback
    <3> QED BY <1>2, <2>3, <2>4, <2>5, <3>1
  <2>6. CASE flow.number = 17
    <3>1. t = "udp" /\ <<17, "UDP">> \in NumberNames /\ Fallback[t] = "UDP"
      BY <2>6 DEF Transport, NumberNames, Fallback
    <3> QED BY <1>2, <2>3, <2>4, <2>6, <3>1
  <2>7. CASE flow.number = 58
    <3>1. t = "icmpv6" /\ <<58, "ICMPv6">> \in NumberNames
      BY <2>7 DEF Transport, NumberNames
    <3>2. whole = Named("ICMPv6")
      BY <3>1, L4ProtoArms DEF FlowFrame
    <3> QED BY <1>2, <2>3, <2>7, <3>1, <3>2
  <2>8. CASE flow.number \notin {6, 17, 58}
    BY <1>4, <2>1, <2>2, <2>8 DEF Transport
  <2> QED BY <2>5, <2>6, <2>7, <2>8
<1> QED
  BY <1>3, <1>4

(* A flow has one name in the second view, with the exceptions of OneName. *)
THEOREM OneNameAlways == CSpec => []OneName
<1>1. ASSUME CountsInv PROVE OneName
  <2> SUFFICES ASSUME Cardinality(FlowNames) # 2,
                      ~(flow.fragmented /\ (FlowNames # {} \/ flow.number = 1))
               PROVE  Cardinality(DOMAIN inter) <= 1
    BY DEF OneName, FlowNames
  <2> DEFINE whole == L4Proto(FlowFrame(1, Transport(flow.number)))
  <2>1. DOMAIN inter \subseteq {whole}
    BY <1>1, OneL4Proto DEF CountsInv
  <2>2. IsFiniteSet({whole}) /\ Cardinality({whole}) = 1
    BY FS_Singleton
  <2> HIDE DEF whole
  <2> QED BY <2>1, <2>2, FS_Subset
<1> QED
  BY <1>1, CountsInvAlways, PTL
=============================================================================
