--------------------------- MODULE Frontend_proofs ----------------------------
(***************************************************************************)
(* The session of a tab, for any entries, any number of sockets and any    *)
(* stream: one attempt at being connected, a resumed tab that gets back to *)
(* the tables, a paused one that stays as it is, a status line that is     *)
(* true.                                                                   *)
(***************************************************************************)
EXTENDS Frontend, FiniteSetTheorems, TLAPS

(* One attempt, and which: the last socket, or the timer. *)
OneWay ==
    \/ timers = 0 /\ Existing = {socket}
    \/ timers = 1 /\ Existing = {}

(* Nothing comes before the snapshot, and nothing on a socket that ended. *)
Served ==
    \A s \in Sockets :
        /\ served[s] => s \in Existing
        /\ ~served[s] => stream[s] = <<>>

(* The view a connection that is being made will start from is empty. *)
Starting ==
    \A s \in Sockets :
        (ready[s] = "connecting" /\ served[s]) => Future({}, stream[s]) = world

FrontendInv ==
    /\ TypeOK
    /\ OneWay
    /\ Served
    /\ Starting
    /\ UnpausedConverges
    /\ StatusHonest
-----------------------------------------------------------------------------
(* What a view will show. *)

LEMMA MessageKinds ==
    ASSUME NEW m \in Messages
    PROVE  \/ m = ResetMsg
           \/ \E i \in Items : m = Upsert(i)
           \/ \E i \in Items : m = Removal(i)
BY DEF Messages

(* A message put at the end of a stream is applied last. *)
LEMMA FutureAppend ==
    ASSUME NEW view \in SUBSET Items, NEW q \in Seq(Messages), NEW m \in Messages
    PROVE  Future(view, Append(q, m)) = Apply(Future(view, q), m)
<1> DEFINE r == Append(q, m)
           n == Len(q)
<1>1. /\ n \in Nat /\ DOMAIN q = 1 .. n /\ DOMAIN r = 1 .. n + 1
      /\ r[n + 1] = m /\ \A k \in 1 .. n : r[k] = q[k]
  OBVIOUS
<1> HIDE DEF r, n
<1>2. SUFFICES ASSUME NEW i \in Items
               PROVE  i \in Future(view, r) <=> i \in Apply(Future(view, q), m)
  <2>1. Future(view, r) \subseteq Items /\ Future(view, q) \subseteq Items
    BY DEF Future
  <2>2. Apply(Future(view, q), m) \subseteq Items
    <3>1. CASE m = ResetMsg
      BY <3>1 DEF Apply, ResetMsg
    <3>2. ASSUME NEW j \in Items, m = Upsert(j)
          PROVE  Apply(Future(view, q), m) \subseteq Items
      BY <2>1, <3>2 DEF Apply, Upsert
    <3>3. ASSUME NEW j \in Items, m = Removal(j)
          PROVE  Apply(Future(view, q), m) \subseteq Items
      BY <2>1, <3>3 DEF Apply, Removal
    <3> QED BY <3>1, <3>2, <3>3, MessageKinds
  <2> QED BY <2>1, <2>2 DEF r
<1>3. CASE ~About(m, i)
  <2>1. i \in Future(view, r) <=> i \in Future(view, q)
    <3>1. m # Upsert(i)
      BY <1>3 DEF About, Upsert
    <3>2. (\A k \in DOMAIN r : ~About(r[k], i)) <=> (\A k \in DOMAIN q : ~About(q[k], i))
      BY <1>1, <1>3
    <3>3. ASSUME NEW k \in DOMAIN q
          PROVE  (\A j \in DOMAIN r : About(r[j], i) => j <= k)
                     <=> (\A j \in DOMAIN q : About(q[j], i) => j <= k)
      BY <1>1, <1>3
    <3>4. (\E k \in DOMAIN r : r[k] = Upsert(i)
                               /\ \A j \in DOMAIN r : About(r[j], i) => j <= k)
             <=> (\E k \in DOMAIN q : q[k] = Upsert(i)
                               /\ \A j \in DOMAIN q : About(q[j], i) => j <= k)
      BY <1>1, <3>1, <3>3
    <3> QED BY <3>2, <3>4 DEF Future
  <2>2. i \in Apply(Future(view, q), m) <=> i \in Future(view, q)
    <3>1. m # ResetMsg /\ m.id # i
      BY <1>3 DEF About
    <3>2. ASSUME NEW j \in Items, m = Upsert(j) \/ m = Removal(j)
          PROVE  <2>2!1 <=> <2>2!2
      BY <3>1, <3>2 DEF Apply, Upsert, Removal
    <3> QED BY <3>1, <3>2, MessageKinds
  <2> QED BY <2>1, <2>2
<1>4. CASE About(m, i)
  <2>1. i \in Future(view, r) <=> m = Upsert(i)
    <3>1. n + 1 \in DOMAIN r /\ About(r[n + 1], i)
      BY <1>1, <1>4
    <3>2. \A k \in DOMAIN r : k <= n + 1 /\ (n + 1 <= k => k = n + 1)
      BY <1>1
    <3>3. (\E k \in DOMAIN r : r[k] = Upsert(i)
                               /\ \A j \in DOMAIN r : About(r[j], i) => j <= k)
             <=> m = Upsert(i)
      BY <1>1, <3>1, <3>2
    <3> QED BY <3>1, <3>3 DEF Future
  <2>2. i \in Apply(Future(view, q), m) <=> m = Upsert(i)
    <3>1. CASE m = ResetMsg
      BY <3>1 DEF Apply, ResetMsg, Upsert
    <3>2. ASSUME NEW j \in Items, m = Upsert(j)
          PROVE  <2>2!1 <=> <2>2!2
      BY <1>4, <3>2 DEF Apply, Upsert, About, ResetMsg
    <3>3. ASSUME NEW j \in Items, m = Removal(j)
          PROVE  <2>2!1 <=> <2>2!2
      BY <1>4, <3>3 DEF Apply, Upsert, Removal, About, ResetMsg
    <3> QED BY <3>1, <3>2, <3>3, MessageKinds
  <2> QED BY <2>1, <2>2
<1> QED BY <1>3, <1>4

(* Reading the first message and then the rest is reading the whole. *)
LEMMA FutureTail ==
    ASSUME NEW view \in SUBSET Items, NEW q \in Seq(Messages), q # <<>>
    PROVE  Future(Apply(view, Head(q)), Tail(q)) = Future(view, q)
<1> DEFINE r == Tail(q)
           n == Len(q) - 1
           m == Head(q)
           seen == Apply(view, m)
<1>1. /\ n \in Nat /\ DOMAIN q = 1 .. n + 1 /\ DOMAIN r = 1 .. n
      /\ m \in Messages /\ q[1] = m /\ \A k \in 1 .. n : r[k] = q[k + 1]
  OBVIOUS
<1> HIDE DEF r, n, m
<1>2. ASSUME NEW i \in Items
      PROVE  i \in Future(seen, r) <=> i \in Future(view, q)
  <2> DEFINE Latest(p, k) == p[k] = Upsert(i) /\ \A j \in DOMAIN p : About(p[j], i) => j <= k
             Silent(p) == \A k \in DOMAIN p : ~About(p[k], i)
  <2>1. /\ i \in Future(seen, r) <=> (i \in seen /\ Silent(r)) \/ \E k \in DOMAIN r : Latest(r, k)
        /\ i \in Future(view, q) <=> (i \in view /\ Silent(q)) \/ \E k \in DOMAIN q : Latest(q, k)
    BY DEF Future
  <2>2. ASSUME NEW k \in DOMAIN r
        PROVE  Latest(r, k) <=> Latest(q, k + 1)
    <3>1. k \in 1 .. n /\ k + 1 \in DOMAIN q /\ r[k] = q[k + 1]
      BY <1>1
    <3>2. ASSUME \A j \in DOMAIN r : About(r[j], i) => j <= k,
                 NEW j \in DOMAIN q, About(q[j], i)
          PROVE  j <= k + 1
      <4>1. CASE j = 1
        BY <3>1, <4>1, <1>1
      <4>2. CASE j # 1
        <5>1. j - 1 \in 1 .. n /\ r[j - 1] = q[j]
          BY <1>1, <4>2
        <5> QED BY <5>1, <3>1, <3>2, <1>1
      <4> QED BY <4>1, <4>2
    <3>3. ASSUME \A j \in DOMAIN q : About(q[j], i) => j <= k + 1,
                 NEW j \in DOMAIN r, About(r[j], i)
          PROVE  j <= k
      <4>1. j + 1 \in DOMAIN q /\ q[j + 1] = r[j] /\ j \in Nat
        BY <1>1
      <4> QED BY <4>1, <3>1, <3>3, <1>1
    <3> QED BY <3>1, <3>2, <3>3
  <2>3. Silent(q) <=> Silent(r) /\ ~About(m, i)
    <3>1. \A k \in 2 .. n + 1 : k - 1 \in 1 .. n /\ r[k - 1] = q[k]
      BY <1>1
    <3>2. \A k \in 1 .. n : k + 1 \in DOMAIN q /\ q[k + 1] = r[k]
      BY <1>1
    <3>3. 1 \in DOMAIN q /\ \A k \in DOMAIN q : k = 1 \/ k \in 2 .. n + 1
      BY <1>1
    <3> QED BY <1>1, <3>1, <3>2, <3>3
  <2>4. Latest(q, 1) <=> m = Upsert(i) /\ Silent(r)
    <3>1. ASSUME Latest(q, 1), NEW k \in DOMAIN r, About(r[k], i)
          PROVE  FALSE
      <4>1. k + 1 \in DOMAIN q /\ q[k + 1] = r[k] /\ k \in 1 .. n
        BY <1>1
      <4> QED BY <4>1, <3>1
    <3>2. ASSUME m = Upsert(i), Silent(r), NEW j \in DOMAIN q, About(q[j], i)
          PROVE  j <= 1
      <4>1. CASE j = 1
        BY <4>1
      <4>2. CASE j # 1
        <5>1. j - 1 \in DOMAIN r /\ r[j - 1] = q[j]
          BY <1>1, <4>2
        <5> QED BY <5>1, <3>2
      <4> QED BY <4>1, <4>2
    <3> QED BY <1>1, <3>1, <3>2
  <2>5. (\E k \in DOMAIN q : Latest(q, k))
            <=> Latest(q, 1) \/ \E k \in DOMAIN r : Latest(r, k)
    <3>1. ASSUME NEW k \in DOMAIN q, Latest(q, k), k # 1
          PROVE  \E l \in DOMAIN r : Latest(r, l)
      <4>1. k - 1 \in DOMAIN r /\ (k - 1) + 1 = k
        BY <1>1, <3>1
      <4>2. Latest(r, k - 1)
        BY <4>1, <2>2, <3>1
      <4> QED BY <4>1, <4>2
    <3>2. ASSUME NEW k \in DOMAIN r, Latest(r, k)
          PROVE  \E l \in DOMAIN q : Latest(q, l)
      <4>1. k + 1 \in DOMAIN q
        BY <1>1
      <4>2. Latest(q, k + 1)
        BY <2>2, <3>2
      <4> QED BY <4>1, <4>2
    <3>3. 1 \in DOMAIN q
      BY <1>1
    <3> HIDE DEF Latest
    <3> QED BY <3>1, <3>2, <3>3
  <2>6. i \in seen <=> (i \in view /\ ~About(m, i)) \/ m = Upsert(i)
    <3>1. CASE m = ResetMsg
      BY <3>1 DEF Apply, ResetMsg, Upsert, About
    <3>2. ASSUME NEW j \in Items, m = Upsert(j)
          PROVE  <2>6
      BY <3>2 DEF Apply, Upsert, About, ResetMsg
    <3>3. ASSUME NEW j \in Items, m = Removal(j)
          PROVE  <2>6
      BY <3>3 DEF Apply, Upsert, Removal, About, ResetMsg
    <3> QED BY <1>1, <3>1, <3>2, <3>3, MessageKinds
  <2> HIDE DEF Latest, Silent, seen
  <2> QED BY <2>1, <2>3, <2>4, <2>5, <2>6
<1>3. Future(seen, r) \subseteq Items /\ Future(view, q) \subseteq Items
  BY DEF Future
<1> HIDE DEF seen
<1>4. Future(seen, r) = Future(view, q)
  BY <1>2, <1>3
<1> QED BY <1>4 DEF seen, r, m

LEMMA FutureOfNothing ==
    ASSUME NEW view \in SUBSET Items
    PROVE  Future(view, <<>>) = view
BY DEF Future

(* The snapshot a connection begins with brings the tables to a view that  *)
(* is empty.                                                               *)
LEMMA SnapshotShowsAll ==
    ASSUME NEW w \in SUBSET Items
    PROVE  LET q == [k \in 1 .. Cardinality(w) |-> Upsert(SetToSeq(w)[k])]
           IN  q \in Seq(Messages) /\ Future({}, q) = w
<1> DEFINE n == Cardinality(w)
           f == SetToSeq(w)
           q == [k \in 1 .. n |-> Upsert(f[k])]
<1>1. IsFiniteSet(w)
  BY FS_Subset, FrontendAssumption
<1>2. n \in Nat /\ ExistsBijection(1 .. n, w)
  BY <1>1, FS_CardinalityType
<1>3. \E g \in [1 .. n -> w] : IsInjective(g)
  BY <1>2 DEF ExistsBijection, Bijection, Injection, IsInjective
<1>4. f \in [1 .. n -> w] /\ IsInjective(f)
  BY <1>3 DEF SetToSeq
<1>5. \A i \in w : \E k \in 1 .. n : f[k] = i
  <2>1. IsFiniteSet(1 .. n) /\ Cardinality(1 .. n) = n
    BY <1>2, FS_Interval
  <2>2. f \in Injection(1 .. n, w)
    BY <1>4 DEF Injection, IsInjective
  <2>3. f \in Surjection(1 .. n, w)
    BY <2>1, <2>2, <1>1, FS_Injection
  <2> QED BY <2>3 DEF Surjection
<1> HIDE DEF n, f
<1>6. q \in Seq(Messages)
  <2>1. \A k \in 1 .. n : Upsert(f[k]) \in Messages
    BY <1>4 DEF Messages
  <2> QED BY <2>1, <1>2
<1>7. DOMAIN q = 1 .. n /\ \A k \in 1 .. n : q[k] = Upsert(f[k])
  OBVIOUS
<1>8. \A k \in 1 .. n, i \in Items : About(q[k], i) <=> f[k] = i
  BY <1>7 DEF About, Upsert, ResetMsg
<1>9. \A k \in 1 .. n, i \in Items : q[k] = Upsert(i) <=> f[k] = i
  BY <1>7 DEF Upsert
<1> HIDE DEF q
<1>10. ASSUME NEW i \in Items
       PROVE  i \in Future({}, q) <=> i \in w
  <2>1. i \in Future({}, q) <=>
          \E k \in 1 .. n : f[k] = i /\ \A j \in 1 .. n : f[j] = i => j <= k
    BY <1>7, <1>8, <1>9 DEF Future
  <2>2. \A j, k \in 1 .. n : f[j] = f[k] => j = k
    BY <1>4 DEF IsInjective
  <2>3. \A k \in 1 .. n : f[k] \in w /\ k <= k
    BY <1>4, <1>2
  <2> QED BY <2>1, <2>2, <2>3, <1>5
<1>11. Future({}, q) \subseteq Items
  BY DEF Future
<1>12. Future({}, q) = w
  BY <1>10, <1>11
<1> QED BY <1>6, <1>12 DEF q, n, f
-----------------------------------------------------------------------------
(* The steps. *)

LEMMA Typed ==
    ASSUME FrontendInv, NEW s \in Sockets
    PROVE  /\ stream[s] \in Seq(Messages)
           /\ ready[s] \in {"connecting", "open", "closing", "closed"}
           /\ served[s] \in BOOLEAN
           /\ world \in SUBSET Items /\ shown \in SUBSET Items
           /\ s \in Existing <=> ready[s] # "closed"
           /\ s \in Existing => s = socket /\ timers = 0
BY DEF FrontendInv, TypeOK, OneWay, Existing

LEMMA InitInv == Init => FrontendInv
<1> SUFFICES ASSUME Init PROVE FrontendInv
  OBVIOUS
<1>1. <<>> \in Seq(Messages)
  OBVIOUS
<1>2. TypeOK
  BY <1>1 DEF Init, TypeOK
<1>3. OneWay
  BY DEF Init, OneWay, Existing
<1> QED
  BY <1>2, <1>3
     DEF Init, FrontendInv, Served, Starting, UnpausedConverges, StatusHonest

(* Whatever the server changes it sends to each socket it serves. *)
LEMMA BroadcastKeeps ==
    ASSUME FrontendInv, NEW m \in Messages,
           Broadcast(m), world' = Apply(world, m), world' \subseteq Items,
           asked' \in [Sockets -> BOOLEAN],
           UNCHANGED <<ready, served, socket, timers, paused, status, shown>>
    PROVE  FrontendInv'
<1>1. ASSUME NEW s \in Sockets
      PROVE  /\ stream'[s] = IF served[s] THEN Append(stream[s], m) ELSE stream[s]
             /\ stream'[s] \in Seq(Messages)
  BY Typed DEF Broadcast
<1>2. stream' \in [Sockets -> Seq(Messages)]
  BY <1>1 DEF Broadcast
<1>3. TypeOK'
  BY <1>2 DEF FrontendInv, TypeOK
<1>4. OneWay' /\ StatusHonest'
  BY DEF FrontendInv, OneWay, StatusHonest, Existing
<1>5. Served'
  BY <1>1 DEF FrontendInv, Served, Existing
<1>6. ASSUME NEW s \in Sockets, NEW view \in SUBSET Items,
             served[s], Future(view, stream[s]) = world
      PROVE  Future(view, stream'[s]) = world'
  <2>1. Future(view, Append(stream[s], m)) = Apply(Future(view, stream[s]), m)
    BY Typed, FutureAppend
  <2> QED BY <2>1, <1>1, <1>6
<1>7. Starting'
  BY <1>6 DEF FrontendInv, Starting
<1>8. UnpausedConverges'
  BY <1>6, Typed DEF FrontendInv, UnpausedConverges
<1> QED BY <1>3, <1>4, <1>5, <1>7, <1>8 DEF FrontendInv

LEMMA ResetKeeps ==
    ASSUME FrontendInv, Broadcast(ResetMsg), world' = {},
           asked' \in [Sockets -> BOOLEAN],
           UNCHANGED <<ready, served, socket, timers, paused, status, shown>>
    PROVE  FrontendInv'
<1>1. ResetMsg \in Messages
  BY DEF Messages
<1>2. Apply(world, ResetMsg) = {}
  BY DEF Apply, ResetMsg
<1> QED BY <1>1, <1>2, BroadcastKeeps

LEMMA ChangeKeeps ==
    ASSUME FrontendInv, Change
    PROVE  FrontendInv'
<1>1. asked' \in [Sockets -> BOOLEAN] /\ world \subseteq Items
  BY DEF FrontendInv, TypeOK, Change
<1>2. CASE \E i \in Items \ world : world' = world \cup {i} /\ Broadcast(Upsert(i))
  <2>1. PICK i \in Items : world' = world \cup {i} /\ Broadcast(Upsert(i))
    BY <1>2
  <2>2. Upsert(i) \in Messages /\ Apply(world, Upsert(i)) = world \cup {i}
    BY DEF Messages, Upsert, Apply
  <2> QED BY <1>1, <2>1, <2>2, BroadcastKeeps DEF Change
<1>3. CASE \E i \in world : world' = world \ {i} /\ Broadcast(Removal(i))
  <2>1. PICK i \in Items : world' = world \ {i} /\ Broadcast(Removal(i))
    BY <1>1, <1>3
  <2>2. Removal(i) \in Messages /\ Apply(world, Removal(i)) = world \ {i}
    BY DEF Messages, Removal, Apply
  <2> QED BY <1>1, <2>1, <2>2, BroadcastKeeps DEF Change
<1> QED BY <1>2, <1>3 DEF Change

LEMMA ServeKeeps ==
    ASSUME FrontendInv, NEW s \in Sockets, Serve(s)
    PROVE  FrontendInv'
<1> DEFINE q == [k \in 1 .. Cardinality(world) |-> Upsert(SetToSeq(world)[k])]
<1>1. q \in Seq(Messages) /\ Future({}, q) = world
  BY Typed, SnapshotShowsAll
<1>2. /\ ready[s] \in {"connecting", "open"} /\ ~served[s]
      /\ served' = [served EXCEPT ![s] = TRUE]
      /\ stream' = [stream EXCEPT ![s] = q]
      /\ UNCHANGED <<world, ready, asked, socket, timers, paused, status, shown>>
  BY DEF Serve
<1> HIDE DEF q
<1>3. TypeOK'
  BY <1>1, <1>2 DEF FrontendInv, TypeOK
<1>4. OneWay' /\ StatusHonest'
  BY <1>2 DEF FrontendInv, OneWay, StatusHonest, Existing
<1>5. Served'
  BY <1>2 DEF FrontendInv, TypeOK, Served, Existing
<1>6. Starting'
  BY <1>1, <1>2 DEF FrontendInv, TypeOK, Starting
<1>7. UnpausedConverges'
  BY <1>1, <1>2 DEF FrontendInv, TypeOK, UnpausedConverges
<1> QED BY <1>3, <1>4, <1>5, <1>6, <1>7 DEF FrontendInv

LEMMA ConnectKeeps ==
    ASSUME FrontendInv, NEW s \in Sockets, Connect(s)
    PROVE  FrontendInv'
<1>1. /\ timers = 1 /\ Existing = {} /\ timers' = 0
      /\ ready' = [ready EXCEPT ![s] = "connecting"] /\ socket' = s
      /\ UNCHANGED <<world, served, stream, asked, paused, status, shown>>
  BY DEF Connect, FrontendInv, OneWay, TypeOK
<1>2. \A x \in Sockets : ready[x] = "closed" /\ ~served[x]
  BY <1>1 DEF Existing, FrontendInv, Served
<1>3. TypeOK'
  BY <1>1 DEF FrontendInv, TypeOK
<1>4. OneWay'
  BY <1>1, <1>2 DEF FrontendInv, TypeOK, OneWay, Existing
<1>5. Served' /\ Starting' /\ UnpausedConverges'
  BY <1>1, <1>2 DEF FrontendInv, TypeOK, Served, Starting, UnpausedConverges, Existing
<1>6. StatusHonest'
  BY <1>1, <1>2 DEF FrontendInv, TypeOK, StatusHonest
<1> QED BY <1>3, <1>4, <1>5, <1>6 DEF FrontendInv

LEMMA OnOpenKeeps ==
    ASSUME FrontendInv, NEW s \in Sockets, OnOpen(s)
    PROVE  FrontendInv'
<1>1. /\ ready[s] = "connecting" /\ ready' = [ready EXCEPT ![s] = "open"]
      /\ status' = IF paused THEN "paused" ELSE "live"
      /\ shown' = IF paused THEN shown ELSE {}
      /\ UNCHANGED <<world, served, stream, asked, socket, timers, paused>>
  BY DEF OnOpen, ClearedOnOpen
<1>2. s = socket /\ Existing = {s}
  BY <1>1, Typed DEF FrontendInv, OneWay
<1>3. TypeOK'
  BY <1>1 DEF FrontendInv, TypeOK
<1>4. Existing' = Existing
  BY <1>1 DEF FrontendInv, TypeOK, Existing
<1>5. OneWay' /\ Served'
  BY <1>1, <1>4 DEF FrontendInv, OneWay, Served
<1>6. StatusHonest'
  BY <1>1, <1>2 DEF FrontendInv, TypeOK, StatusHonest
<1>7. Starting'
  BY <1>1 DEF FrontendInv, TypeOK, Starting
<1>8. \A x \in Sockets : x # s => ready[x] = "closed"
  BY <1>2 DEF Existing
<1>9. UnpausedConverges'
  BY <1>1, <1>8 DEF FrontendInv, TypeOK, Starting, UnpausedConverges
<1> QED BY <1>3, <1>5, <1>6, <1>7, <1>9 DEF FrontendInv

LEMMA OnMessageKeeps ==
    ASSUME FrontendInv, NEW s \in Sockets, OnMessage(s)
    PROVE  FrontendInv'
<1> DEFINE m == Head(stream[s])
           read == IF m.type = "reset" \/ ~paused THEN Apply(shown, m) ELSE shown
<1>1. /\ ready[s] = "open" /\ stream[s] # <<>> /\ shown' = read
      /\ stream' = [stream EXCEPT ![s] = Tail(stream[s])]
      /\ UNCHANGED <<world, ready, served, asked, socket, timers, paused, status>>
  BY DEF OnMessage
<1>2. /\ stream[s] \in Seq(Messages) /\ m \in Messages /\ Tail(stream[s]) \in Seq(Messages)
      /\ shown \in SUBSET Items
  BY <1>1, Typed
<1>3. \A x \in Sockets : x # s => ready[x] = "closed"
  BY <1>1, Typed
<1>4. read \subseteq Items
  <2>1. CASE m = ResetMsg
    BY <1>2, <2>1 DEF Apply, ResetMsg
  <2>2. ASSUME NEW j \in Items, m = Upsert(j)
        PROVE  read \subseteq Items
    BY <1>2, <2>2 DEF Apply, Upsert
  <2>3. ASSUME NEW j \in Items, m = Removal(j)
        PROVE  read \subseteq Items
    BY <1>2, <2>3 DEF Apply, Removal
  <2> QED BY <1>2, <2>1, <2>2, <2>3, MessageKinds
<1>5. Future(Apply(shown, m), Tail(stream[s])) = Future(shown, stream[s])
  BY <1>1, <1>2, FutureTail
<1>6. ~paused => read = Apply(shown, m)
  OBVIOUS
<1>7. served[s]
  BY <1>1 DEF FrontendInv, Served
<1> HIDE DEF m, read
<1>8. TypeOK'
  BY <1>1, <1>2, <1>4 DEF FrontendInv, TypeOK
<1>9. OneWay' /\ StatusHonest'
  BY <1>1 DEF FrontendInv, OneWay, StatusHonest, Existing
<1>10. Served'
  BY <1>1, <1>7 DEF FrontendInv, TypeOK, Served, Existing
<1>11. Starting'
  BY <1>1, <1>3 DEF FrontendInv, TypeOK, Starting
<1>12. UnpausedConverges'
  BY <1>1, <1>3, <1>5, <1>6, <1>7 DEF FrontendInv, TypeOK, UnpausedConverges
<1> QED BY <1>8, <1>9, <1>10, <1>11, <1>12 DEF FrontendInv

LEMMA OnCloseKeeps ==
    ASSUME FrontendInv, NEW s \in Sockets, ready[s] # "closed", OnClose(s)
    PROVE  FrontendInv'
<1>1. /\ ready' = [ready EXCEPT ![s] = "closed"]
      /\ served' = [served EXCEPT ![s] = FALSE]
      /\ stream' = [stream EXCEPT ![s] = <<>>]
      /\ asked' = [asked EXCEPT ![s] = FALSE]
      /\ timers' = timers + 1
      /\ status' = IF paused THEN "paused" ELSE "disconnected"
      /\ UNCHANGED <<world, socket, paused, shown>>
  BY DEF OnClose, RetryTimers
<1>2. s = socket /\ Existing = {s} /\ timers' = 1
  BY <1>1, Typed DEF FrontendInv, OneWay
<1>3. \A x \in Sockets : x # s => ready[x] = "closed"
  BY <1>2 DEF Existing
<1>4. <<>> \in Seq(Messages)
  OBVIOUS
<1>5. TypeOK'
  BY <1>1, <1>2, <1>4 DEF FrontendInv, TypeOK
<1>6. \A x \in Sockets : ready'[x] = "closed"
  BY <1>1, <1>3 DEF FrontendInv, TypeOK
<1>7. Existing' = {}
  BY <1>6 DEF Existing
<1>8. OneWay'
  BY <1>2, <1>7 DEF OneWay
<1>9. Served'
  <2>1. \A x \in Sockets : ~served'[x] /\ stream'[x] = <<>>
    BY <1>1, <1>2 DEF FrontendInv, TypeOK, Served
  <2> QED BY <2>1 DEF Served
<1>10. Starting' /\ UnpausedConverges'
  BY <1>6 DEF Starting, UnpausedConverges
<1>11. socket' \in Sockets
  BY <1>5 DEF TypeOK
<1>12. StatusHonest'
  BY <1>1, <1>6, <1>11 DEF StatusHonest
<1> QED BY <1>5, <1>8, <1>9, <1>10, <1>12 DEF FrontendInv

LEMMA PauseKeeps ==
    ASSUME FrontendInv, Pause
    PROVE  FrontendInv'
BY DEF FrontendInv, Pause, wsvars, TypeOK, OneWay, Served, Starting,
       UnpausedConverges, StatusHonest, Existing

LEMMA ResumeKeeps ==
    ASSUME FrontendInv, Resume
    PROVE  FrontendInv'
<1>1. /\ paused' = FALSE /\ timers' = timers
      /\ ready' = IF socket \in Existing THEN [ready EXCEPT ![socket] = "closing"] ELSE ready
      /\ UNCHANGED <<world, served, stream, asked, socket, status, shown>>
  BY DEF Resume, ClosedByResume, TimersAfterResume
<1>2. socket \in Sockets
  BY DEF FrontendInv, TypeOK
<1>3. TypeOK'
  BY <1>1 DEF FrontendInv, TypeOK
<1>4. Existing' = Existing
  BY <1>1, <1>2 DEF FrontendInv, TypeOK, Existing
<1>5. OneWay' /\ Served'
  BY <1>1, <1>4 DEF FrontendInv, OneWay, Served
<1>6. \A s \in Sockets : ready'[s] \in {"closing", "closed"}
  BY <1>1, <1>2, Typed DEF FrontendInv, TypeOK
<1>7. Starting' /\ UnpausedConverges'
  BY <1>6 DEF Starting, UnpausedConverges
<1>8. status' = "live" => ready'[socket] = "closing"
  BY <1>1, <1>2 DEF FrontendInv, TypeOK, StatusHonest, Existing
<1>9. StatusHonest'
  BY <1>1, <1>2, <1>6, <1>8 DEF StatusHonest
<1> QED BY <1>3, <1>5, <1>7, <1>9 DEF FrontendInv

LEMMA ClickResetKeeps ==
    ASSUME FrontendInv, ClickReset
    PROVE  FrontendInv'
BY DEF FrontendInv, ClickReset, TypeOK, OneWay, Served, Starting,
       UnpausedConverges, StatusHonest, Existing

LEMMA HandleResetKeeps ==
    ASSUME FrontendInv, NEW s \in Sockets, HandleReset(s)
    PROVE  FrontendInv'
<1>1. asked' \in [Sockets -> BOOLEAN]
  BY DEF FrontendInv, TypeOK, HandleReset
<1> QED BY <1>1, ResetKeeps DEF HandleReset

LEMMA NextKeeps == FrontendInv /\ [Next]_vars => FrontendInv'
<1> SUFFICES ASSUME FrontendInv, [Next]_vars PROVE FrontendInv'
  OBVIOUS
<1>1. CASE Change
  BY <1>1, ChangeKeeps
<1>2. CASE ResetElsewhere
  BY <1>2, ResetKeeps DEF ResetElsewhere, FrontendInv, TypeOK
<1>3. CASE \E s \in Sockets : Serve(s) \/ HandleReset(s)
  BY <1>3, ServeKeeps, HandleResetKeeps
<1>4. CASE Browser
  BY <1>4, ConnectKeeps, OnOpenKeeps, OnMessageKeeps, OnCloseKeeps DEF Browser, Closed
<1>5. CASE Failure
  BY <1>5, OnCloseKeeps DEF Failure, Fail
<1>6. CASE Pause \/ Resume \/ ClickReset
  BY <1>6, PauseKeeps, ResumeKeeps, ClickResetKeeps
<1>7. CASE UNCHANGED vars
  BY <1>7 DEF FrontendInv, vars, wsvars, TypeOK, OneWay, Served, Starting,
             UnpausedConverges, StatusHonest, Existing
<1> QED
  BY <1>1, <1>2, <1>3, <1>4, <1>5, <1>6, <1>7 DEF Next

LEMMA FrontendInvAlways == Spec => []FrontendInv
BY InitInv, NextKeeps, PTL DEF Spec
-----------------------------------------------------------------------------
(* The types of Frontend are kept. *)
THEOREM TypeCorrect == Spec => []TypeOK
<1>1. FrontendInv => TypeOK
  BY DEF FrontendInv
<1> QED BY <1>1, FrontendInvAlways, PTL

(* connect is never on its way twice, and a tab is never dead: onclose,    *)
(* which follows each close once, is the only one to schedule it, and      *)
(* Resume leaves it to it (app.js:555-560, 766-773).                       *)
THEOREM OneAttemptAlways == Spec => []OneAttempt
<1>1. FrontendInv => OneAttempt
  BY FS_EmptySet, FS_Singleton DEF FrontendInv, OneWay, OneAttempt
<1> QED BY <1>1, FrontendInvAlways, PTL

(* A resumed tab gets back to the tables: Resume closes the socket, the    *)
(* next one opens on an empty view, and all that it is sent brings it to   *)
(* the tables, whenever the server serves it.                              *)
THEOREM UnpausedAlwaysConverges == Spec => []UnpausedConverges
<1>1. FrontendInv => UnpausedConverges
  BY DEF FrontendInv
<1> QED BY <1>1, FrontendInvAlways, PTL

(* The status line is honest (app.js:556-557, 740, 772).                   *)
THEOREM StatusAlwaysHonest == Spec => []StatusHonest
<1>1. FrontendInv => StatusHonest
  BY DEF FrontendInv
<1> QED BY <1>1, FrontendInvAlways, PTL

(* Nothing but a reset changes what a paused tab shows (app.js:741-757).   *)
THEOREM FrozenAlways == Spec => FrozenUntilReset
<1> DEFINE Frozen ==
      (paused /\ shown' # shown) =>
          \E s \in Sockets : /\ ready[s] = "open"
                             /\ stream[s] # <<>>
                             /\ Head(stream[s]) = ResetMsg
                             /\ shown' = {}
<1>1. ASSUME FrontendInv, [Next]_vars, paused, shown' # shown
      PROVE  \E s \in Sockets : OnMessage(s)
  BY <1>1 DEF Next, vars, Change, ResetElsewhere, Serve, HandleReset, Browser,
              Failure, Pause, Resume, ClickReset, Connect, OnOpen, ClearedOnOpen,
              Closed, Fail, OnClose
<1>2. ASSUME FrontendInv, NEW s \in Sockets, OnMessage(s), paused, shown' # shown
      PROVE  Head(stream[s]) = ResetMsg /\ shown' = {}
  <2>1. stream[s] # <<>> /\ Head(stream[s]).type = "reset"
        /\ shown' = Apply(shown, Head(stream[s]))
    BY <1>2 DEF OnMessage
  <2>2. Head(stream[s]) \in Messages
    BY <1>2, <2>1, Typed
  <2>3. Head(stream[s]) = ResetMsg
    BY <2>1, <2>2 DEF Messages, Upsert, Removal
  <2> QED BY <2>1, <2>3 DEF Apply, ResetMsg
<1>3. FrontendInv /\ [Next]_vars => [Frozen]_vars
  BY <1>1, <1>2 DEF OnMessage
<1> HIDE DEF Frozen
<1>4. Spec => [][Frozen]_vars
  BY <1>3, FrontendInvAlways, PTL DEF Spec
<1> QED BY <1>4 DEF Frozen, FrozenUntilReset
===============================================================================
