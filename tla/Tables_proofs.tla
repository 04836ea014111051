--------------------------- MODULE Tables_proofs ----------------------------
(***************************************************************************)
(* The invariants of Tables, for every value of its constants.  First what *)
(* each operator on one map or one table does, said by a predicate on its  *)
(* argument and its result; then what that preserves; then the theorems.   *)
(***************************************************************************)
EXTENDS Tables, Induction, TLAPS

(* g is f with k bound to s. *)
Binds(f, g, K, S, k, s) ==
    /\ IsMap(g, K, S)
    /\ DOMAIN g = DOMAIN f \cup {k}
    /\ g[k] = s
    /\ \A x \in DOMAIN f : x # k => g[x] = f[x]

(* g is f with the entry of a, new or not, seen just now. *)
Sees(f, g, K, a) ==
    /\ IsMap(g, K, Stats)
    /\ DOMAIN g = DOMAIN f \cup {a}
    /\ g[a].idle = 0
    /\ \A x \in DOMAIN f : x # a => g[x] = f[x]

(* p is t after a frame between src and dst: its conversation and its ends *)
(* are seen now and marked dirty, the rest is as it was.                   *)
Projects(t, p, v, src, dst) ==
    /\ IsTable(p, v)
    /\ Sees(t.conv, p.conv, Keys(v), Key(src, dst))
    /\ IsMap(p.nodes, Addr(v), Stats)
    /\ DOMAIN p.nodes = DOMAIN t.nodes \cup {src, dst}
    /\ p.nodes[src].idle = 0
    /\ p.nodes[dst].idle = 0
    /\ \A a \in DOMAIN t.nodes : a \notin {src, dst} => p.nodes[a] = t.nodes[a]
    /\ p.dirty_conv = t.dirty_conv \cup {Key(src, dst)}
    /\ p.dirty_nodes = t.dirty_nodes \cup {src, dst}

(* HashMap::insert binds one key and leaves the others alone.             *)
LEMMA PutBinds ==
    ASSUME NEW K, NEW S, NEW f, IsMap(f, K, S), NEW k \in K, NEW s \in S
    PROVE  Binds(f, Put(f, k, s), K, S, k, s)
BY DEF Put, IsMap, Binds

(* Counting a frame in an entry gives statistics seen just now. *)
LEMMA AddIsStats ==
    ASSUME NEW K, NEW f, IsMap(f, K, Stats), NEW k,
           NEW len \in Nat, NEW tx \in Nat, NEW rx \in Nat
    PROVE  /\ Add(Entry(f, k), len, tx, rx) \in Stats
           /\ Add(Entry(f, k), len, tx, rx).idle = 0
<1>1. Entry(f, k) \in Stats
  BY TablesAssumption DEF Entry, NewStats, Stats, IsMap
<1> QED
  BY <1>1, TablesAssumption DEF Add, Stats

(* A frame counted in the entry of k, be it a node or a conversation. *)
LEMMA CountSees ==
    ASSUME NEW K, NEW f, IsMap(f, K, Stats), NEW a \in K,
           NEW len \in Nat, NEW tx \in Nat, NEW rx \in Nat
    PROVE  Sees(f, Put(f, a, Add(Entry(f, a), len, tx, rx)), K, a)
<1> DEFINE s == Add(Entry(f, a), len, tx, rx)
           g == Put(f, a, s)
<1>1. s \in Stats /\ s.idle = 0
  BY AddIsStats
<1> HIDE DEF s
<1>2. Binds(f, g, K, Stats, a, s)
  BY <1>1, PutBinds
<1> HIDE DEF g
<1>3. Sees(f, g, K, a)
  BY <1>1, <1>2 DEF Binds, Sees
<1> QED
  BY <1>3 DEF g, s

(* What ingest does to one view, said entry by entry.                      *)
LEMMA ProjectProjects ==
    ASSUME NEW v \in Views, NEW t, IsTable(t, v),
           NEW src \in Addr(v), NEW dst \in Addr(v), NEW len \in Nat
    PROVE  Projects(t, Project(t, src, dst, len), v, src, dst)
<1> DEFINE k == Key(src, dst)
           c == Put(t.conv, k, Add(Entry(t.conv, k), len, 0, 0))
           n1 == TouchNode(t.nodes, src, len, len, 0)
           n2 == TouchNode(n1, dst, len, 0, len)
           p == Project(t, src, dst, len)
<1>1. k \in Keys(v)
  BY DEF Keys
<1>2. IsMap(t.conv, Keys(v), Stats) /\ IsMap(t.nodes, Addr(v), Stats)
  BY DEF IsTable
<1>3. Sees(t.conv, c, Keys(v), k)
  BY <1>1, <1>2, CountSees
<1>4. Sees(t.nodes, n1, Addr(v), src)
  BY <1>2, CountSees DEF TouchNode
<1>5. Sees(n1, n2, Addr(v), dst)
  <2>1. IsMap(n1, Addr(v), Stats)
    BY <1>4 DEF Sees
  <2> HIDE DEF n1
  <2> QED BY <2>1, CountSees DEF TouchNode
<1>6. p = [conv |-> c, nodes |-> n2, dirty_conv |-> t.dirty_conv \cup {k},
           dirty_nodes |-> t.dirty_nodes \cup {src, dst}]
  BY DEF Project
<1> HIDE DEF k, c, n1, n2, p
<1>7. IsTable(p, v)
  BY <1>1, <1>3, <1>5, <1>6 DEF IsTable, Sees
<1>8. Projects(t, p, v, src, dst)
  <2>1. /\ DOMAIN n2 = DOMAIN t.nodes \cup {src, dst}
        /\ IsMap(n2, Addr(v), Stats)
    BY <1>4, <1>5 DEF Sees
  <2>2. n2[src].idle = 0 /\ n2[dst].idle = 0
    BY <1>4, <1>5 DEF Sees
  <2>3. \A a \in DOMAIN t.nodes : a \notin {src, dst} => n2[a] = t.nodes[a]
    BY <1>4, <1>5 DEF Sees
  <2>4. p.conv = c /\ p.nodes = n2 /\ k = Key(src, dst)
        /\ p.dirty_conv = t.dirty_conv \cup {k}
        /\ p.dirty_nodes = t.dirty_nodes \cup {src, dst}
    BY <1>6 DEF k
  <2> QED BY <1>3, <1>7, <2>1, <2>2, <2>3, <2>4 DEF Projects
<1> QED
  BY <1>8 DEF p
-----------------------------------------------------------------------------
(* What the operators on a table keep true of it: its type, that only its  *)
(* own entries are dirty, and that ends are as fresh as conversations.     *)

Marks(t) == /\ t.dirty_conv \subseteq DOMAIN t.conv
            /\ t.dirty_nodes \subseteq DOMAIN t.nodes

Sound(t, v) == IsTable(t, v) /\ Marks(t) /\ EndsFresher(t)

(* Tables::reset leaves tables that are sound.                             *)
LEMMA EmptySound ==
    ASSUME NEW v \in Views
    PROVE  Sound(EmptyTable, v)
BY DEF Sound, EmptyTable, EmptyMap, IsTable, IsMap, Marks, EndsFresher

(* A frame makes its conversation and both its ends as fresh as can be.    *)
LEMMA ProjectSound ==
    ASSUME NEW v \in Views, NEW t, Sound(t, v),
           NEW src \in Addr(v), NEW dst \in Addr(v), NEW len \in Nat
    PROVE  Sound(Project(t, src, dst, len), v)
<1> DEFINE p == Project(t, src, dst, len)
<1>1. Projects(t, p, v, src, dst)
  BY ProjectProjects DEF Sound
<1> HIDE DEF p
<1>2. IsTable(p, v) /\ Marks(p)
  BY <1>1 DEF Projects, Sees, Marks, Sound
<1>3. ASSUME NEW k \in DOMAIN p.conv, NEW a \in k
      PROVE  a \in DOMAIN p.nodes /\ p.nodes[a].idle <= p.conv[k].idle
  <2>1. p.conv[k].idle \in 0 .. IdleCap
    BY <1>2 DEF IsTable, IsMap, Stats
  <2>2. CASE k = Key(src, dst)
    BY <1>1, <2>2 DEF Projects, Sees, Key
  <2>3. CASE k # Key(src, dst)
    <3>1. k \in DOMAIN t.conv /\ p.conv[k] = t.conv[k]
      BY <1>1, <2>3 DEF Projects, Sees
    <3>2. a \in DOMAIN t.nodes /\ t.nodes[a].idle <= t.conv[k].idle
      BY <3>1 DEF Sound, EndsFresher
    <3>3. CASE a \in {src, dst}
      BY <1>1, <2>1, <3>3, TablesAssumption DEF Projects
    <3>4. CASE a \notin {src, dst}
      BY <1>1, <3>1, <3>2, <3>4 DEF Projects
    <3> QED BY <3>3, <3>4
  <2> QED BY <2>2, <2>3
<1>4. EndsFresher(p)
  BY <1>3 DEF EndsFresher
<1> QED
  BY <1>2, <1>4 DEF Sound, p

(* drain_deltas empties the dirty sets and touches no entry.               *)
LEMMA DrainedSound ==
    ASSUME NEW v \in Views, NEW t, Sound(t, v)
    PROVE  /\ Sound(Drained(t), v)
           /\ Drained(t).conv = t.conv /\ Drained(t).nodes = t.nodes
BY DEF Drained, Sound, IsTable, Marks, EndsFresher

(* set_l3_label may mark a node that is there.                             *)
LEMMA MarkedSound ==
    ASSUME NEW v \in Views, NEW t, Sound(t, v), NEW a \in Addr(v),
           a \in DOMAIN t.nodes
    PROVE  Sound(Marked(t, a), v)
BY DEF Marked, Sound, IsTable, Marks, EndsFresher

(* HashMap::retain keeps the types.                                        *)
LEMMA RetainIsMap ==
    ASSUME NEW K, NEW f, IsMap(f, K, Stats), NEW D
    PROVE  IsMap(Retain(f, D), K, Stats)
BY DEF Retain, Restrict, IsMap

(* A stale node has only stale conversations, so sweeping both leaves each *)
(* remaining conversation with its two ends.                               *)
LEMMA SweptSound ==
    ASSUME NEW v \in Views, NEW t, Sound(t, v), NEW max_age \in Nat
    PROVE  Sound(Swept(t, max_age), v)
<1> DEFINE sc == Stale(t.conv, max_age)
           sn == Stale(t.nodes, max_age)
           w == Swept(t, max_age)
<1>1. w = [conv |-> Retain(t.conv, sc), nodes |-> Retain(t.nodes, sn),
           dirty_conv |-> t.dirty_conv \ sc, dirty_nodes |-> t.dirty_nodes \ sn]
  BY DEF Swept
<1>2. IsTable(w, v)
  BY <1>1, RetainIsMap DEF Sound, IsTable
<1>3. Marks(w)
  BY <1>1 DEF Marks, Sound, Retain, Restrict
<1>4. ASSUME NEW k \in DOMAIN w.conv, NEW a \in k
      PROVE  a \in DOMAIN w.nodes /\ w.nodes[a].idle <= w.conv[k].idle
  <2>1. k \in DOMAIN t.conv /\ k \notin sc /\ w.conv[k] = t.conv[k]
    BY <1>1, <1>4 DEF Retain, Restrict
  <2>2. a \in DOMAIN t.nodes /\ t.nodes[a].idle <= t.conv[k].idle
    BY <2>1, <1>4 DEF Sound, EndsFresher
  <2>3. t.nodes[a].idle \in Int /\ t.conv[k].idle \in Int
    BY <2>1, <2>2, TablesAssumption DEF Sound, IsTable, IsMap, Stats
  <2>4. a \notin sn
    BY <2>1, <2>2, <2>3 DEF Stale
  <2>5. a \in DOMAIN w.nodes /\ w.nodes[a] = t.nodes[a]
    BY <1>1, <2>2, <2>4 DEF Retain, Restrict
  <2> QED BY <2>1, <2>2, <2>5
<1> HIDE DEF w
<1>5. EndsFresher(w)
  BY <1>4 DEF EndsFresher
<1> QED
  BY <1>2, <1>3, <1>5 DEF Sound, w

(* Time passes alike for all entries. *)
LEMMA OlderIdle ==
    ASSUME NEW s \in Stats
    PROVE  /\ Older(s) \in Stats
           /\ Older(s).idle = IF s.idle < IdleCap THEN s.idle + 1 ELSE s.idle
BY TablesAssumption DEF Older, Stats

(* The passage of time keeps the order between the ages of two entries, up *)
(* to the bound.                                                           *)
LEMMA AgedSound ==
    ASSUME NEW v \in Views, NEW t, Sound(t, v)
    PROVE  Sound(Aged(t), v)
<1> DEFINE w == Aged(t)
<1>1. w = [conv |-> [k \in DOMAIN t.conv |-> Older(t.conv[k])],
           nodes |-> [a \in DOMAIN t.nodes |-> Older(t.nodes[a])],
           dirty_conv |-> t.dirty_conv, dirty_nodes |-> t.dirty_nodes]
  BY DEF Aged
<1>3. IsMap(t.conv, Keys(v), Stats) /\ IsMap(t.nodes, Addr(v), Stats)
  BY DEF Sound, IsTable
<1>4. /\ \A k \in DOMAIN t.conv : Older(t.conv[k]) \in Stats
      /\ \A a \in DOMAIN t.nodes : Older(t.nodes[a]) \in Stats
  BY <1>3, OlderIdle DEF IsMap
<1>5. IsTable(w, v)
  BY <1>1, <1>3, <1>4 DEF Sound, IsTable, IsMap
<1>6. Marks(w)
  BY <1>1 DEF Marks, Sound
<1>7. ASSUME NEW k \in DOMAIN w.conv, NEW a \in k
      PROVE  a \in DOMAIN w.nodes /\ w.nodes[a].idle <= w.conv[k].idle
  <2>1. k \in DOMAIN t.conv /\ w.conv[k] = Older(t.conv[k])
    BY <1>1, <1>7
  <2>2. a \in DOMAIN t.nodes /\ t.nodes[a].idle <= t.conv[k].idle
    BY <2>1, <1>7 DEF Sound, EndsFresher
  <2>3. t.nodes[a] \in Stats /\ t.conv[k] \in Stats
    BY <1>3, <2>1, <2>2 DEF IsMap
  <2>4. t.nodes[a].idle \in 0 .. IdleCap /\ t.conv[k].idle \in 0 .. IdleCap
    BY <2>3 DEF Stats
  <2>5. a \in DOMAIN w.nodes /\ w.nodes[a] = Older(t.nodes[a])
    BY <1>1, <2>2
  <2> HIDE DEF w
  <2> QED
    BY <2>1, <2>2, <2>3, <2>4, <2>5, OlderIdle, TablesAssumption
<1> HIDE DEF w
<1>8. EndsFresher(w)
  BY <1>7 DEF EndsFresher
<1> QED
  BY <1>5, <1>6, <1>8 DEF Sound, w
-----------------------------------------------------------------------------
(* The inductive invariant: types, dirty marks and fresh ends of each view.*)
TablesInv ==
    /\ tables = [v \in Views |-> tables[v]]
    /\ \A v \in Views : Sound(tables[v], v)
    /\ IsMap(labels, Ips, Names)

(* What parse_frame yields is addresses and a length.                      *)
LEMMA PacketParts ==
    ASSUME NEW p \in Packets
    PROVE  /\ p.src_mac \in Addr("ether") /\ p.dst_mac \in Addr("ether")
           /\ p.wire_len \in Nat
           /\ p.l3 # NoL3 => /\ p.l3 \in L3Flow
                             /\ p.l3.src \in Addr("inter")
                             /\ p.l3.dst \in Addr("inter")
<1>1. p \in [src_mac : Macs, dst_mac : Macs, wire_len : Nat, l3 : L3Flow \cup {NoL3}]
  BY TablesAssumption
<1>2. p.src_mac \in Macs /\ p.dst_mac \in Macs /\ p.wire_len \in Nat
      /\ p.l3 \in L3Flow \cup {NoL3}
  BY <1>1
<1>3. p.l3 # NoL3 => p.l3.src \in Ips /\ p.l3.dst \in Ips
  BY <1>2 DEF L3Flow
<1> QED
  BY <1>2, <1>3 DEF Addr

(* The tables of a new process satisfy the invariant.                      *)
LEMMA TablesInvInit == Init => TablesInv
<1> SUFFICES ASSUME Init PROVE TablesInv
  OBVIOUS
<1>1. \A v \in Views : Sound(tables[v], v)
  BY EmptySound DEF Init
<1>2. IsMap(labels, Ips, Names)
  BY DEF Init, EmptyMap, IsMap
<1> QED
  BY <1>1, <1>2 DEF Init, TablesInv

(* Every operation of the tables keeps it, one case per operation.         *)
LEMMA TablesInvStep == TablesInv /\ [Next]_tvars => TablesInv'
<1> SUFFICES ASSUME TablesInv, [Next]_tvars PROVE TablesInv'
  OBVIOUS
<1> USE DEF TablesInv
<1>1. ASSUME NEW p \in Packets, Ingest(p) PROVE TablesInv'
  <2>1. Sound(tables["ether"], "ether") /\ Sound(tables["inter"], "inter")
    BY DEF Views
  <2>2. Sound(Project(tables["ether"], p.src_mac, p.dst_mac, p.wire_len), "ether")
    BY <2>1, PacketParts, ProjectSound DEF Views
  <2>3. p.l3 # NoL3 =>
        Sound(Project(tables["inter"], p.l3.src, p.l3.dst, p.wire_len), "inter")
    BY <2>1, PacketParts, ProjectSound DEF Views
  <2>4. \A v \in Views : Sound(tables'[v], v)
    BY <1>1, <2>1, <2>2, <2>3 DEF Ingest, Views
  <2>5. tables' = [v \in Views |-> tables'[v]] /\ labels' = labels
    BY <1>1 DEF Ingest
  <2> QED BY <2>4, <2>5
<1>2. ASSUME NEW ip \in Ips, NEW name \in Names, SetL3Label(ip, name)
      PROVE TablesInv'
  <2>1. IsMap(labels', Ips, Names)
    BY <1>2, PutBinds DEF SetL3Label, Binds
  <2>2. CASE ip \in DOMAIN tables["inter"].nodes
    <3> DEFINE w == Marked(tables["inter"], ip)
    <3>1. Sound(tables["inter"], "inter") /\ ip \in Addr("inter")
      BY DEF Views, Addr
    <3>2. Sound(w, "inter")
      BY <2>2, <3>1, MarkedSound DEF Views
    <3>3. tables' = [tables EXCEPT !["inter"] = w]
      BY <1>2, <2>2 DEF SetL3Label
    <3> HIDE DEF w
    <3> QED BY <2>1, <3>2, <3>3
  <2>3. CASE ip \notin DOMAIN tables["inter"].nodes
    BY <1>2, <2>1, <2>3 DEF SetL3Label
  <2> QED BY <2>2, <2>3
<1>3. ASSUME NEW max_age \in Fades, DrainAndSweep(max_age) PROVE TablesInv'
  <2>1. max_age \in Nat
    BY TablesAssumption
  <2>2. \A v \in Views : Sound(Swept(Drained(tables[v]), max_age), v)
    BY <2>1, DrainedSound, SweptSound
  <2> QED BY <1>3, <2>2 DEF DrainAndSweep
<1>4. CASE Reset
  BY <1>4, EmptySound DEF Reset
<1>5. CASE Elapse
  BY <1>5, AgedSound DEF Elapse
<1>6. CASE UNCHANGED tvars
  BY <1>6 DEF tvars
<1> QED
  BY <1>1, <1>2, <1>3, <1>4, <1>5, <1>6 DEF Next

(* The tables keep their types. *)
THEOREM TypeCorrect == Spec => []TypeOK
<1>1. TablesInv => TypeOK
  BY DEF TablesInv, TypeOK, Sound
<1> QED
  BY <1>1, TablesInvInit, TablesInvStep, PTL DEF Spec

(* No conversation is ever left without its ends, or with an end that      *)
(* fade_sweep could remove before it.                                      *)
THEOREM EndpointsAlwaysCovered == Spec => []EndpointsCovered
<1>1. TablesInv => EndpointsCovered
  BY DEF TablesInv, EndpointsCovered, Sound
<1> QED
  BY <1>1, TablesInvInit, TablesInvStep, PTL DEF Spec

(* drain_deltas never meets a dirty mark without its entry. *)
THEOREM DirtyAlwaysPresent == Spec => []DirtyPresent
<1>1. TablesInv => DirtyPresent
  BY DEF TablesInv, DirtyPresent, Sound, Marks
<1> QED
  BY <1>1, TablesInvInit, TablesInvStep, PTL DEF Spec

(* e in the L2 table answers for k in the L3 table. *)
Carries(T, e, k) ==
    /\ e \in DOMAIN T["ether"].conv
    /\ T["ether"].conv[e].idle <= T["inter"].conv[k].idle

(* The age of a conversation is a number that can be compared.             *)
LEMMA ConvIdle ==
    ASSUME TablesInv, NEW v \in Views, NEW k \in DOMAIN tables[v].conv
    PROVE  /\ tables[v].conv[k] \in Stats
           /\ tables[v].conv[k].idle \in 0 .. IdleCap
BY DEF TablesInv, Sound, IsTable, IsMap, Stats

(* The two projections stay together through every operation: a frame and  *)
(* the fade treat them alike.                                              *)
LEMMA OneFlowStep == TablesInv /\ OneFlow /\ [Next]_tvars => OneFlow'
<1> SUFFICES ASSUME TablesInv, OneFlow, [Next]_tvars PROVE OneFlow'
  OBVIOUS
<1> USE DEF Views
<1>1. ASSUME NEW p \in Packets, Ingest(p) PROVE OneFlow'
  <2> DEFINE E == tables["ether"]
             N == tables["inter"]
             e0 == Key(p.src_mac, p.dst_mac)
  <2>1. Projects(E, tables'["ether"], "ether", p.src_mac, p.dst_mac)
    BY <1>1, PacketParts, ProjectProjects DEF Ingest, TablesInv, Sound
  <2>2. /\ e0 \in DOMAIN tables'["ether"].conv
        /\ tables'["ether"].conv[e0].idle = 0
        /\ \A e \in DOMAIN E.conv : e # e0 =>
              e \in DOMAIN tables'["ether"].conv /\ tables'["ether"].conv[e] = E.conv[e]
    BY <2>1 DEF Projects, Sees
  <2>3. ASSUME NEW k \in DOMAIN tables'["inter"].conv
        PROVE  \E e : Carries(tables', e, k)
    <3>1. CASE tables'["inter"] = N
      <4>1. PICK e \in DOMAIN E.conv : E.conv[e].idle <= N.conv[k].idle
        BY <2>3, <3>1 DEF OneFlow
      <4>2. N.conv[k].idle \in 0 .. IdleCap
        BY <2>3, <3>1, ConvIdle
      <4>3. CASE e = e0
        BY <2>2, <3>1, <4>2, <4>3, TablesAssumption DEF Carries
      <4>4. CASE e # e0
        BY <2>2, <3>1, <4>1, <4>4 DEF Carries
      <4> QED BY <4>3, <4>4
    <3>2. CASE p.l3 # NoL3
      <4>1. Projects(N, tables'["inter"], "inter", p.l3.src, p.l3.dst)
        BY <1>1, <3>2, PacketParts, ProjectProjects DEF Ingest, TablesInv, Sound
      <4>2. tables'["inter"].conv[k].idle \in 0 .. IdleCap
        BY <2>3, <4>1 DEF Projects, IsTable, IsMap, Stats
      <4> QED BY <2>2, <4>2, TablesAssumption DEF Carries
    <3> QED BY <1>1, <3>1, <3>2 DEF Ingest
  <2> QED BY <2>3 DEF OneFlow, Carries
<1>2. ASSUME NEW ip \in Ips, NEW name \in Names, SetL3Label(ip, name)
      PROVE OneFlow'
  <2>1. \A v \in Views : tables'[v].conv = tables[v].conv
    BY <1>2 DEF SetL3Label, Marked, TablesInv
  <2> QED BY <2>1 DEF OneFlow
<1>3. ASSUME NEW max_age \in Fades, DrainAndSweep(max_age) PROVE OneFlow'
  <2>1. \A v \in Views :
          tables'[v].conv = Retain(tables[v].conv, Stale(tables[v].conv, max_age))
    BY <1>3 DEF DrainAndSweep, Swept, Drained
  <2>2. ASSUME NEW k \in DOMAIN tables'["inter"].conv
        PROVE  \E e : Carries(tables', e, k)
    <3>1. /\ k \in DOMAIN tables["inter"].conv
          /\ k \notin Stale(tables["inter"].conv, max_age)
          /\ tables'["inter"].conv[k] = tables["inter"].conv[k]
      BY <2>1, <2>2 DEF Retain, Restrict
    <3>2. PICK e \in DOMAIN tables["ether"].conv :
             tables["ether"].conv[e].idle <= tables["inter"].conv[k].idle
      BY <3>1 DEF OneFlow
    <3>3. /\ tables["ether"].conv[e].idle \in Int
          /\ tables["inter"].conv[k].idle \in Int
          /\ max_age \in Int
      BY <3>1, <3>2, ConvIdle, TablesAssumption
    <3>4. e \notin Stale(tables["ether"].conv, max_age)
      BY <3>1, <3>2, <3>3 DEF Stale
    <3> QED BY <2>1, <3>1, <3>2, <3>4 DEF Retain, Restrict, Carries
  <2> QED BY <2>2 DEF OneFlow, Carries
<1>4. CASE Reset
  BY <1>4 DEF Reset, OneFlow, EmptyTable, EmptyMap
<1>5. CASE Elapse
  <2>1. \A v \in Views : tables'[v].conv =
          [k \in DOMAIN tables[v].conv |-> Older(tables[v].conv[k])]
    BY <1>5 DEF Elapse, Aged
  <2>2. ASSUME NEW k \in DOMAIN tables'["inter"].conv
        PROVE  \E e : Carries(tables', e, k)
    <3>1. k \in DOMAIN tables["inter"].conv
      BY <2>1, <2>2
    <3>2. PICK e \in DOMAIN tables["ether"].conv :
             tables["ether"].conv[e].idle <= tables["inter"].conv[k].idle
      BY <3>1 DEF OneFlow
    <3> DEFINE se == tables["ether"].conv[e]
               sk == tables["inter"].conv[k]
    <3>3. /\ se \in Stats /\ sk \in Stats
          /\ se.idle \in 0 .. IdleCap /\ sk.idle \in 0 .. IdleCap
      BY <3>1, <3>2, ConvIdle
    <3>4. tables'["ether"].conv[e] = Older(se) /\ tables'["inter"].conv[k] = Older(sk)
          /\ e \in DOMAIN tables'["ether"].conv
      BY <2>1, <3>1, <3>2
    <3>5. se.idle <= sk.idle
      BY <3>2
    <3> HIDE DEF se, sk
    <3>6. Older(se).idle <= Older(sk).idle
      BY <3>3, <3>5, OlderIdle, TablesAssumption
    <3> QED BY <3>4, <3>6 DEF Carries
  <2> QED BY <2>2 DEF OneFlow, Carries
<1>6. CASE UNCHANGED tvars
  BY <1>6 DEF tvars, OneFlow
<1> QED
  BY <1>1, <1>2, <1>3, <1>4, <1>5, <1>6 DEF Next

(* The L3 table never shows a flow that the L2 table no longer carries. *)
THEOREM OneFlowAlways == Spec => []OneFlow
<1>1. Init => OneFlow
  BY DEF Init, OneFlow, Views, EmptyTable, EmptyMap
<1> QED
  BY <1>1, TablesInvInit, TablesInvStep, OneFlowStep, PTL DEF Spec

(* The bytes of a node, there or not, and those of its conversations.      *)
Charged(t, a) ==
    LET s == Entry(t.nodes, a) IN
    /\ s \in Stats
    /\ s.bytes = s.tx_bytes + s.rx_bytes
    /\ SumFunctionOnSet(Shares(t, a), Incident(t, a)) <= s.bytes

(* The conversations are finitely many, and the nodes account for them.    *)
Balanced(t) == IsFiniteSet(DOMAIN t.conv) /\ Accounted(t)

(* What the conversations count for are natural numbers.                   *)
LEMMA SharesAreNumbers ==
    ASSUME NEW v \in Views, NEW t, IsTable(t, v), IsFiniteSet(DOMAIN t.conv), NEW a
    PROVE  /\ IsFiniteSet(Incident(t, a))
           /\ \A k \in Incident(t, a) : Shares(t, a)[k] \in Nat
           /\ SumFunctionOnSet(Shares(t, a), Incident(t, a)) \in Nat
<1>1. Incident(t, a) \subseteq DOMAIN t.conv
  BY DEF Incident
<1>2. IsFiniteSet(Incident(t, a))
  BY <1>1, FS_Subset
<1>3. \A k \in Incident(t, a) : Shares(t, a)[k] \in Nat
  BY <1>1 DEF Shares, IsTable, IsMap, Stats
<1> QED
  BY <1>2, <1>3, SumOfPart

(* A node that is not there has no conversation, and owes nothing.         *)
LEMMA AllCharged ==
    ASSUME NEW v \in Views, NEW t, Sound(t, v), Balanced(t), NEW a
    PROVE  Charged(t, a)
<1>1. CASE a \in DOMAIN t.nodes
  <2>1. Entry(t.nodes, a) = t.nodes[a] /\ t.nodes[a] \in Stats
    BY <1>1 DEF Entry, Sound, IsTable, IsMap
  <2> QED BY <1>1, <2>1 DEF Balanced, Accounted, Charged
<1>2. CASE a \notin DOMAIN t.nodes
  <2>1. Incident(t, a) = {}
    BY <1>2 DEF Incident, Sound, EndsFresher
  <2>2. SumFunctionOnSet(Shares(t, a), Incident(t, a)) = 0
    BY <2>1, SumOfNone
  <2>3. NewStats \in Stats
    BY TablesAssumption DEF NewStats, Stats
  <2> QED BY <1>2, <2>2, <2>3 DEF Entry, NewStats, Charged
<1> QED
  BY <1>1, <1>2

(* What a frame counts for at one end, in the bytes of a.                  *)
Part(a, end, len) == IF a = end THEN len ELSE 0

(* What a frame adds to the statistics of a node: its length for each end  *)
(* of the frame that the node is.                                          *)
LEMMA NodeAdds ==
    ASSUME NEW v \in Views, NEW t, IsTable(t, v),
           NEW src \in Addr(v), NEW dst \in Addr(v), NEW len \in Nat, NEW a
    PROVE  LET n == Entry(Project(t, src, dst, len).nodes, a)
               s == Entry(t.nodes, a)
           IN /\ n.bytes = s.bytes + Part(a, src, len) + Part(a, dst, len)
              /\ n.tx_bytes = s.tx_bytes + Part(a, src, len)
              /\ n.rx_bytes = s.rx_bytes + Part(a, dst, len)
<1> USE DEF Part
<1> DEFINE n1 == TouchNode(t.nodes, src, len, len, 0)
           n2 == TouchNode(n1, dst, len, 0, len)
<1>1. Project(t, src, dst, len).nodes = n2
  BY DEF Project
<1>2. Entry(t.nodes, a) \in Stats
  BY TablesAssumption DEF Entry, NewStats, Stats, IsTable, IsMap
<1>3. /\ Entry(t.nodes, a).bytes \in Nat /\ Entry(t.nodes, a).tx_bytes \in Nat
      /\ Entry(t.nodes, a).rx_bytes \in Nat
  BY <1>2 DEF Stats
<1>4. /\ Entry(n1, src).bytes = Entry(t.nodes, src).bytes + len
      /\ Entry(n1, src).tx_bytes = Entry(t.nodes, src).tx_bytes + len
      /\ Entry(n1, src).rx_bytes = Entry(t.nodes, src).rx_bytes + 0
      /\ \A b : b # src => Entry(n1, b) = Entry(t.nodes, b)
  <2>1. n1 = Put(t.nodes, src, Add(Entry(t.nodes, src), len, len, 0))
    BY DEF TouchNode
  <2> HIDE DEF n1
  <2> QED BY ONLY <2>1 DEF Put, Entry, Add
<1>5. /\ Entry(n2, dst).bytes = Entry(n1, dst).bytes + len
      /\ Entry(n2, dst).tx_bytes = Entry(n1, dst).tx_bytes + 0
      /\ Entry(n2, dst).rx_bytes = Entry(n1, dst).rx_bytes + len
      /\ \A b : b # dst => Entry(n2, b) = Entry(n1, b)
  <2>1. n2 = Put(n1, dst, Add(Entry(n1, dst), len, 0, len))
    BY DEF TouchNode
  <2> HIDE DEF n1, n2
  <2> QED BY ONLY <2>1 DEF Put, Entry, Add
<1> HIDE DEF n1, n2
<1> QED
  BY <1>1, <1>3, <1>4, <1>5

(* What a frame adds to the bytes of the conversations of a node.          *)
LEMMA SharesAdd ==
    ASSUME NEW v \in Views, NEW t, IsTable(t, v), IsFiniteSet(DOMAIN t.conv),
           NEW src \in Addr(v), NEW dst \in Addr(v), NEW len \in Nat, NEW a
    PROVE  LET p == Project(t, src, dst, len)
           IN SumFunctionOnSet(Shares(p, a), Incident(p, a))
                = SumFunctionOnSet(Shares(t, a), Incident(t, a))
                    + Part(a, src, len) + Part(a, dst, len)
<1> USE DEF Part
<1> DEFINE p == Project(t, src, dst, len)
           k == Key(src, dst)
           S == Incident(t, a)
           f == Shares(t, a)
           e == Shares(p, a)
<1>1. p.conv = Put(t.conv, k, Add(Entry(t.conv, k), len, 0, 0))
  BY DEF Project
<1> HIDE DEF p
<1>2. /\ DOMAIN p.conv = DOMAIN t.conv \cup {k}
      /\ p.conv[k].bytes = Entry(t.conv, k).bytes + len
      /\ \A x \in DOMAIN t.conv : x # k => p.conv[x] = t.conv[x]
  BY <1>1 DEF Put, Add
<1>3. IsFiniteSet(S) /\ (\A x \in S : f[x] \in Nat) /\ SumFunctionOnSet(f, S) \in Nat
  BY SharesAreNumbers
<1>4. \A x \in S : x # k => e[x] = f[x]
  BY <1>2 DEF Shares, Incident
<1>5. CASE a \in {src, dst}
  <2>1. a \in k /\ Incident(p, a) = S \cup {k}
    BY <1>2, <1>5 DEF Incident, Key
  <2>2. k \in S <=> k \in DOMAIN t.conv
    BY <2>1 DEF Incident
  <2> DEFINE b == Entry(t.conv, k).bytes
             part == IF src = dst THEN 2 ELSE 1
  <2>3. k = Key(a, a) <=> src = dst
    BY <1>5 DEF Key
  <2>4. b \in Nat /\ (k \notin S => b = 0)
    BY <2>2 DEF Entry, IsTable, IsMap, Stats, NewStats
  <2>5. e[k] = part * (b + len) /\ (k \in S => f[k] = part * b)
    <3>1. e[k] = IF k = Key(a, a) THEN 2 * p.conv[k].bytes ELSE p.conv[k].bytes
      BY <2>1 DEF Shares
    <3>2. k \in S => f[k] = IF k = Key(a, a) THEN 2 * b ELSE b
      BY <2>2 DEF Shares, Entry
    <3> HIDE DEF k, S, f, e, b
    <3> QED BY <1>2, <2>3, <2>4, <3>1, <3>2 DEF b
  <2>6. e[k] \in Nat
    <3> HIDE DEF k, e, b
    <3> QED BY <2>4, <2>5
  <2>7. SumFunctionOnSet(e, S \cup {k})
          = SumFunctionOnSet(f, S) + e[k] - (IF k \in S THEN f[k] ELSE 0)
    <3> HIDE DEF k, S, f, e, b
    <3> QED BY ONLY <1>3, <1>4, <2>6, SumOfChange
  <2>8. e[k] - (IF k \in S THEN f[k] ELSE 0) = part * len
    <3> HIDE DEF k, S, f, e, b
    <3> QED BY <2>4, <2>5
  <2>9. part * len = (IF a = src THEN len ELSE 0) + (IF a = dst THEN len ELSE 0)
    BY <1>5
  <2> HIDE DEF k, S, f, e, b, part
  <2>10. SumFunctionOnSet(e, S \cup {k}) = SumFunctionOnSet(f, S)
           + (IF a = src THEN len ELSE 0) + (IF a = dst THEN len ELSE 0)
    <3>1. SumFunctionOnSet(f, S) \in Nat /\ e[k] \in Nat
          /\ (IF k \in S THEN f[k] ELSE 0) \in Nat
      BY <1>3, <2>6
    <3> QED BY <2>7, <2>8, <2>9, <3>1
  <2> QED BY <2>1, <2>10 DEF e, f, S, p
<1>6. CASE a \notin {src, dst}
  <2>1. Incident(p, a) = S
    BY <1>2, <1>6 DEF Incident, Key
  <2>2. k \notin S
    BY <1>6 DEF Incident, Key
  <2>3. SumFunctionOnSet(e, S) = SumFunctionOnSet(f, S)
    BY <1>3, <1>4, <2>2, SumOfSame
  <2> HIDE DEF k, S, f, e
  <2> QED BY <1>3, <1>6, <2>1, <2>3 DEF e, f, S, p
<1> QED
  BY <1>5, <1>6

(* A frame counts as much for its ends as for its conversation.            *)
LEMMA ProjectBalanced ==
    ASSUME NEW v \in Views, NEW t, Sound(t, v), Balanced(t),
           NEW src \in Addr(v), NEW dst \in Addr(v), NEW len \in Nat
    PROVE  Balanced(Project(t, src, dst, len))
<1> DEFINE p == Project(t, src, dst, len)
<1>1. Projects(t, p, v, src, dst)
  BY ProjectProjects DEF Sound
<1>2. IsFiniteSet(DOMAIN p.conv)
  <2>1. DOMAIN p.conv = DOMAIN t.conv \cup {Key(src, dst)}
    BY <1>1 DEF Projects, Sees
  <2> QED BY <2>1, FS_AddElement DEF Balanced
<1>3. ASSUME NEW a \in DOMAIN p.nodes
      PROVE  /\ p.nodes[a].bytes = p.nodes[a].tx_bytes + p.nodes[a].rx_bytes
             /\ SumFunctionOnSet(Shares(p, a), Incident(p, a)) <= p.nodes[a].bytes
  <2> DEFINE s == Entry(t.nodes, a)
             sum == SumFunctionOnSet(Shares(t, a), Incident(t, a))
             sent == Part(a, src, len)
             received == Part(a, dst, len)
  <2>1. s \in Stats /\ s.bytes = s.tx_bytes + s.rx_bytes /\ sum <= s.bytes
    BY AllCharged DEF Charged
  <2>2. s.bytes \in Nat /\ s.tx_bytes \in Nat /\ s.rx_bytes \in Nat
    BY <2>1 DEF Stats
  <2>3. sum \in Nat
    BY SharesAreNumbers DEF Sound, Balanced
  <2>4. /\ Entry(p.nodes, a).bytes = s.bytes + sent + received
        /\ Entry(p.nodes, a).tx_bytes = s.tx_bytes + sent
        /\ Entry(p.nodes, a).rx_bytes = s.rx_bytes + received
    <3>1. IsTable(t, v)
      BY DEF Sound
    <3> QED BY <3>1, NodeAdds
  <2>5. SumFunctionOnSet(Shares(p, a), Incident(p, a)) = sum + sent + received
    BY SharesAdd DEF Sound, Balanced
  <2>6. Entry(p.nodes, a) = p.nodes[a]
    BY <1>3 DEF Entry
  <2>7. sent \in Nat /\ received \in Nat
    BY DEF Part
  <2> HIDE DEF p, s, sum, sent, received
  <2> QED BY <2>1, <2>2, <2>3, <2>4, <2>5, <2>6, <2>7
<1> QED
  BY <1>2, <1>3 DEF Balanced, Accounted

(* The sweep takes whole conversations, and no node that keeps one.        *)
LEMMA SweptBalanced ==
    ASSUME NEW v \in Views, NEW t, Sound(t, v), Balanced(t), NEW max_age \in Nat
    PROVE  Balanced(Swept(t, max_age))
<1> DEFINE w == Swept(t, max_age)
<1>1. /\ DOMAIN w.conv \subseteq DOMAIN t.conv
      /\ \A k \in DOMAIN w.conv : w.conv[k] = t.conv[k]
      /\ DOMAIN w.nodes \subseteq DOMAIN t.nodes
      /\ \A a \in DOMAIN w.nodes : w.nodes[a] = t.nodes[a]
  BY DEF Swept, Retain, Restrict
<1> HIDE DEF w
<1>2. IsFiniteSet(DOMAIN w.conv)
  BY <1>1, FS_Subset DEF Balanced
<1>3. ASSUME NEW a \in DOMAIN w.nodes
      PROVE  SumFunctionOnSet(Shares(w, a), Incident(w, a)) <= w.nodes[a].bytes
  <2>1. IsTable(t, v) /\ IsFiniteSet(DOMAIN t.conv)
    BY DEF Sound, Balanced
  <2>2. /\ IsFiniteSet(Incident(t, a))
        /\ \A k \in Incident(t, a) : Shares(t, a)[k] \in Nat
    BY <2>1, SharesAreNumbers
  <2>3. Incident(w, a) \subseteq Incident(t, a) /\ IsFiniteSet(Incident(w, a))
    BY <1>1, <2>2, FS_Subset DEF Incident
  <2>4. \A k \in Incident(w, a) : Shares(w, a)[k] = Shares(t, a)[k]
    BY <1>1, <2>3 DEF Shares, Incident
  <2>5. SumFunctionOnSet(Shares(w, a), Incident(w, a))
          = SumFunctionOnSet(Shares(t, a), Incident(w, a))
    BY <2>3, <2>4, SumOfSame
  <2>6. /\ SumFunctionOnSet(Shares(t, a), Incident(w, a)) \in Nat
        /\ SumFunctionOnSet(Shares(t, a), Incident(t, a)) \in Nat
        /\ SumFunctionOnSet(Shares(t, a), Incident(w, a))
              <= SumFunctionOnSet(Shares(t, a), Incident(t, a))
    BY <2>2, <2>3, SumOfPart, Zenon
  <2>7. a \in DOMAIN t.nodes /\ w.nodes[a] = t.nodes[a] /\ t.nodes[a].bytes \in Nat
    BY <1>1, <2>1 DEF IsTable, IsMap, Stats
  <2>8. SumFunctionOnSet(Shares(t, a), Incident(t, a)) <= t.nodes[a].bytes
    BY <2>7 DEF Balanced, Accounted
  <2> QED BY <2>5, <2>6, <2>7, <2>8
<1>4. Accounted(w)
  BY <1>1, <1>3 DEF Balanced, Accounted
<1> QED
  BY <1>2, <1>4 DEF Balanced, w

(* The bytes are all that the accounts depend on.                          *)
LEMMA SameBytesBalanced ==
    ASSUME NEW v \in Views, NEW t, IsTable(t, v), Balanced(t), NEW w,
           DOMAIN w.conv = DOMAIN t.conv, DOMAIN w.nodes = DOMAIN t.nodes,
           \A k \in DOMAIN t.conv : w.conv[k].bytes = t.conv[k].bytes,
           \A a \in DOMAIN t.nodes :
              /\ w.nodes[a].bytes = t.nodes[a].bytes
              /\ w.nodes[a].tx_bytes = t.nodes[a].tx_bytes
              /\ w.nodes[a].rx_bytes = t.nodes[a].rx_bytes
    PROVE  Balanced(w)
<1>1. ASSUME NEW a \in DOMAIN t.nodes
      PROVE  SumFunctionOnSet(Shares(w, a), Incident(w, a))
               = SumFunctionOnSet(Shares(t, a), Incident(t, a))
  <2>1. Incident(w, a) = Incident(t, a)
    BY DEF Incident
  <2>2. \A k \in Incident(t, a) : Shares(w, a)[k] = Shares(t, a)[k]
    BY <2>1 DEF Shares, Incident
  <2>3. IsFiniteSet(Incident(t, a))
    BY SharesAreNumbers DEF Balanced
  <2> QED BY <2>1, <2>2, <2>3, SumOfSame
<1> QED
  BY <1>1 DEF Balanced, Accounted

LEMMA EmptyBalanced == Balanced(EmptyTable)
BY FS_EmptySet DEF Balanced, Accounted, EmptyTable, EmptyMap

(* Every operation keeps the accounts, one case per operation.             *)
LEMMA BalancedStep ==
    TablesInv /\ (\A v \in Views : Balanced(tables[v])) /\ [Next]_tvars
        => (\A v \in Views : Balanced(tables[v]))'
<1> SUFFICES ASSUME TablesInv, \A v \in Views : Balanced(tables[v]), [Next]_tvars
             PROVE  \A v \in Views : Balanced(tables'[v])
  OBVIOUS
<1>0. \A v \in Views : Sound(tables[v], v) /\ IsTable(tables[v], v)
  BY DEF TablesInv, Sound
<1>1. ASSUME NEW p \in Packets, Ingest(p)
      PROVE  \A v \in Views : Balanced(tables'[v])
  <2>1. Balanced(tables'["ether"])
    <3>1. tables'["ether"] = Project(tables["ether"], p.src_mac, p.dst_mac, p.wire_len)
      BY <1>1 DEF Ingest, Views
    <3> QED BY <1>0, <3>1, PacketParts, ProjectBalanced DEF Views
  <2>2. CASE p.l3 = NoL3
    BY <1>1, <2>1, <2>2 DEF Ingest, Views
  <2>3. CASE p.l3 # NoL3
    <3>1. tables'["inter"] = Project(tables["inter"], p.l3.src, p.l3.dst, p.wire_len)
      BY <1>1, <2>3 DEF Ingest, Views
    <3>2. Balanced(tables'["inter"])
      BY <1>0, <2>3, <3>1, PacketParts, ProjectBalanced DEF Views
    <3> QED BY <2>1, <3>2 DEF Views
  <2> QED BY <2>2, <2>3
<1>2. ASSUME NEW ip \in Ips, NEW name \in Names, SetL3Label(ip, name)
      PROVE  \A v \in Views : Balanced(tables'[v])
  <2>1. \A v \in Views : /\ tables'[v].conv = tables[v].conv
                         /\ tables'[v].nodes = tables[v].nodes
    BY <1>2 DEF SetL3Label, Marked, TablesInv
  <2> QED BY <1>0, <2>1, SameBytesBalanced
<1>3. ASSUME NEW max_age \in Fades, DrainAndSweep(max_age)
      PROVE  \A v \in Views : Balanced(tables'[v])
  <2>1. max_age \in Nat
    BY TablesAssumption
  <2> SUFFICES ASSUME NEW v \in Views PROVE Balanced(tables'[v])
    OBVIOUS
  <2>2. Sound(Drained(tables[v]), v)
    BY <1>0, DrainedSound
  <2>3. Balanced(Drained(tables[v]))
    BY <1>0, SameBytesBalanced DEF Drained
  <2> QED BY <1>3, <2>1, <2>2, <2>3, SweptBalanced DEF DrainAndSweep
<1>4. CASE Reset
  BY <1>4, EmptyBalanced DEF Reset
<1>5. CASE Elapse
  <2>1. \A v \in Views : tables'[v] = Aged(tables[v])
    BY <1>5 DEF Elapse
  <2> SUFFICES ASSUME NEW v \in Views PROVE Balanced(Aged(tables[v]))
    BY <2>1
  <2>2. /\ \A k \in DOMAIN tables[v].conv : tables[v].conv[k] \in Stats
        /\ \A a \in DOMAIN tables[v].nodes : tables[v].nodes[a] \in Stats
    BY <1>0 DEF IsTable, IsMap
  <2>3. \A s \in Stats : /\ Older(s).bytes = s.bytes
                         /\ Older(s).tx_bytes = s.tx_bytes
                         /\ Older(s).rx_bytes = s.rx_bytes
    BY DEF Older, Stats
  <2> DEFINE w == Aged(tables[v])
  <2>4. /\ DOMAIN w.conv = DOMAIN tables[v].conv
        /\ DOMAIN w.nodes = DOMAIN tables[v].nodes
        /\ \A k \in DOMAIN tables[v].conv : w.conv[k] = Older(tables[v].conv[k])
        /\ \A a \in DOMAIN tables[v].nodes : w.nodes[a] = Older(tables[v].nodes[a])
    BY DEF Aged
  <2> HIDE DEF w
  <2>5. Balanced(w)
    BY <1>0, <2>2, <2>3, <2>4, SameBytesBalanced
  <2> QED BY <2>5 DEF w
<1>6. CASE UNCHANGED tvars
  BY <1>6 DEF tvars
<1> QED
  BY <1>1, <1>2, <1>3, <1>4, <1>5, <1>6 DEF Next

(* The bytes of a node account for all the conversations it shows.         *)
THEOREM NodesAlwaysAccounted == Spec => []NodeAccounting
<1> DEFINE AllBalanced == \A v \in Views : Balanced(tables[v])
<1>1. Init => AllBalanced
  BY EmptyBalanced DEF Init
<1>2. TablesInv /\ AllBalanced /\ [Next]_tvars => AllBalanced'
  BY BalancedStep
<1>3. AllBalanced => NodeAccounting
  BY DEF Balanced, NodeAccounting
<1> QED
  BY <1>1, <1>2, <1>3, TablesInvInit, TablesInvStep, PTL DEF Spec

(* One step of the tables is one step of ShownIps, or none: a frame without *)
(* L3 and the passage of time do not show, the fade takes some addresses.  *)
LEMMA ShownStep == TablesInv /\ [Next]_tvars => [Shown!SNext]_(Shown!svars)
<1> SUFFICES ASSUME TablesInv, [Next]_tvars
             PROVE  Shown!SNext \/ UNCHANGED Shown!svars
  BY DEF Shown!SNext, Shown!svars
<1> DEFINE N == tables["inter"]
<1>0. Sound(N, "inter") /\ "inter" \in Views
  BY DEF TablesInv, Views
<1>1. ASSUME NEW p \in Packets, Ingest(p)
      PROVE  Shown!SNext \/ UNCHANGED Shown!svars
  <2>1. CASE p.l3 = NoL3
    BY <1>0, <1>1, <2>1 DEF Ingest, Shown!svars
  <2>2. CASE p.l3 # NoL3
    <3>1. Projects(N, tables'["inter"], "inter", p.l3.src, p.l3.dst)
      BY <1>0, <1>1, <2>2, PacketParts, ProjectProjects DEF Ingest, Sound
    <3>2. Shown!Hear({p.l3.src, p.l3.dst})
      BY <1>1, <3>1 DEF Projects, Ingest, Shown!Hear
    <3> QED BY <2>2, <3>2, PacketParts DEF Shown!SNext, Addr
  <2> QED BY <2>1, <2>2
<1>2. ASSUME NEW ip \in Ips, NEW name \in Names, SetL3Label(ip, name)
      PROVE  Shown!SNext
  <2>1. /\ tables'["inter"].nodes = N.nodes
        /\ tables'["inter"].dirty_nodes = N.dirty_nodes \cup ({ip} \cap DOMAIN N.nodes)
    BY <1>0, <1>2 DEF SetL3Label, Marked, TablesInv
  <2>2. Shown!Name(ip, name)
    BY <1>2, <2>1 DEF SetL3Label, Put, Shown!Name
  <2> QED BY <2>2 DEF Shown!SNext
<1>3. ASSUME NEW max_age \in Fades, DrainAndSweep(max_age)
      PROVE  Shown!SNext
  <2> DEFINE gone == Stale(N.nodes, max_age)
  <2>1. /\ DOMAIN tables'["inter"].nodes = DOMAIN N.nodes \ gone
        /\ tables'["inter"].dirty_nodes = {}
        /\ labels' = labels
    BY <1>0, <1>3 DEF DrainAndSweep, Swept, Drained, Retain, Restrict
  <2>2. gone \subseteq DOMAIN N.nodes /\ gone \in SUBSET Ips
    BY <1>0 DEF Stale, Sound, IsTable, IsMap, Addr
  <2> HIDE DEF gone
  <2>3. Shown!Sweep(gone)
    BY <2>1, <2>2 DEF Shown!Sweep
  <2> QED BY <2>2, <2>3 DEF Shown!SNext
<1>4. CASE Reset
  BY <1>0, <1>4 DEF Reset, EmptyTable, EmptyMap, Shown!Forget, Shown!SNext
<1>5. CASE Elapse
  BY <1>0, <1>5 DEF Elapse, Aged, Shown!svars
<1>6. CASE UNCHANGED tvars
  BY <1>6 DEF tvars, Shown!svars
<1> QED
  BY <1>1, <1>2, <1>3, <1>4, <1>5, <1>6 DEF Next

(* The tables implement ShownIps, all that the resolver relies on.         *)
THEOREM TablesImplementShown == Spec => IpsImplemented
<1>1. Init => Shown!SInit
  BY DEF Init, Shown!SInit, Views, EmptyTable, EmptyMap
<1> QED
  BY <1>1, TablesInvInit, TablesInvStep, ShownStep, PTL
     DEF Spec, IpsImplemented, Shown!SSpec
=============================================================================
