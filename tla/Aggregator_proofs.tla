-------------------------- MODULE Aggregator_proofs --------------------------
(***************************************************************************)
(* The invariants of Resolver, for every number of addresses, permits and  *)
(* places in the queues.  Each needs the others: an address is looked up   *)
(* once because it is queued once and taken once, and its answer is the    *)
(* only one because its lookup was.                                        *)
(*                                                                         *)
(* Then the loop as select! schedules it: it does only what Resolver       *)
(* allows, so that what is proved of Resolver holds of it, for any frames, *)
(* any sizes of the channels and of a batch, and wherever it returns.      *)
(***************************************************************************)
EXTENDS Aggregator, FiniteSetTheorems, SequenceTheorems, TLAPS

Pending == answers \cup Range(results)

(* The resolver task holds one address at most; the lookups can be counted.*)
TaskShape ==
    /\ \A x, y \in held : x = y
    /\ IsFiniteSet(lookups)

(* There is one answer for an address, and it is at one place.             *)
OneAnswer ==
    /\ IsInjective(results)
    /\ answers \cap Range(results) = {}
    /\ \A x, y \in Pending : x.ip = y.ip => x = y

(* OneLookup, stage by stage. *)
Apart ==
    /\ held \cap lookups = {} /\ held \cap Answering = {}
    /\ held \cap DOMAIN labels = {} /\ lookups \cap Answering = {}
    /\ lookups \cap DOMAIN labels = {} /\ Answering \cap DOMAIN labels = {}
    /\ held \cup lookups \cup Answering \cup DOMAIN labels \subseteq attempted

ResolverInv ==
    /\ TypeOK
    /\ RequestsAccounted
    /\ PermitsAccounted
    /\ TaskShape
    /\ OneAnswer
    /\ Apart
-----------------------------------------------------------------------------
(* The elements of a queue. *)

LEMMA AppendElements ==
    ASSUME NEW S, NEW q \in Seq(S), NEW e \in S
    PROVE  /\ Append(q, e) \in Seq(S) /\ Len(Append(q, e)) = Len(q) + 1
           /\ Range(Append(q, e)) = Range(q) \cup {e}
           /\ IsInjective(q) /\ e \notin Range(q) => IsInjective(Append(q, e))
<1> DEFINE r == Append(q, e)
<1>1. /\ r \in Seq(S) /\ Len(r) = Len(q) + 1 /\ Len(q) \in Nat
      /\ DOMAIN q = 1 .. Len(q) /\ DOMAIN r = 1 .. Len(q) + 1
      /\ r[Len(q) + 1] = e
      /\ \A i \in 1 .. Len(q) : r[i] = q[i]
  OBVIOUS
<1> HIDE DEF r
<1>2. Range(r) = Range(q) \cup {e}
  BY <1>1 DEF Range
<1>3. ASSUME IsInjective(q), e \notin Range(q)
      PROVE  IsInjective(r)
  BY <1>1, <1>3 DEF IsInjective, Range
<1> QED
  BY <1>1, <1>2, <1>3 DEF r

LEMMA TailElements ==
    ASSUME NEW S, NEW q \in Seq(S), q # <<>>, IsInjective(q)
    PROVE  /\ Tail(q) \in Seq(S) /\ Len(Tail(q)) = Len(q) - 1
           /\ Head(q) \in S /\ Head(q) \in Range(q)
           /\ Range(Tail(q)) = Range(q) \ {Head(q)}
           /\ IsInjective(Tail(q))
<1> DEFINE r == Tail(q)
<1>1. /\ r \in Seq(S) /\ Len(r) = Len(q) - 1 /\ Len(q) \in Nat \ {0}
      /\ DOMAIN q = 1 .. Len(q) /\ DOMAIN r = 1 .. Len(q) - 1
      /\ Head(q) = q[1] /\ q[1] \in S
      /\ \A i \in 1 .. Len(q) - 1 : r[i] = q[i + 1]
  OBVIOUS
<1> HIDE DEF r
<1>2. IsInjective(r)
  BY <1>1, SMTT(30) DEF IsInjective
<1>3. Range(r) = {q[i] : i \in 2 .. Len(q)}
  <2>1. ASSUME NEW x \in Range(r) PROVE x \in {q[i] : i \in 2 .. Len(q)}
    BY <1>1, <2>1 DEF Range
  <2>2. ASSUME NEW i \in 2 .. Len(q) PROVE q[i] \in Range(r)
    <3>1. i - 1 \in 1 .. Len(q) - 1 /\ r[i - 1] = q[i]
      BY <1>1, <2>2
    <3> QED BY <1>1, <3>1 DEF Range
  <2> QED BY <2>1, <2>2
<1>4. Range(q) = {q[i] : i \in 2 .. Len(q)} \cup {q[1]}
  BY <1>1 DEF Range
<1>5. \A i \in 2 .. Len(q) : q[i] # q[1]
  BY <1>1 DEF IsInjective
<1> QED
  BY <1>1, <1>2, <1>3, <1>4, <1>5 DEF r

LEMMA EmptyElements == Range(<<>>) = {} /\ IsInjective(<<>>)
BY DEF Range, IsInjective
-----------------------------------------------------------------------------
LEMMA ApartIsOneLookup == Apart => OneLookup
<1> SUFFICES ASSUME Apart PROVE OneLookup
  OBVIOUS
<1> DEFINE stages == <<held, lookups, Answering, DOMAIN labels>>
<1>1. stages[1] = held /\ stages[2] = lookups /\ stages[3] = Answering /\ stages[4] = DOMAIN labels
  OBVIOUS
<1>2. DOMAIN stages = 1 .. 4
  OBVIOUS
<1>3. ASSUME NEW i \in 1 .. 4, NEW j \in 1 .. 4, i # j
      PROVE  stages[i] \cap stages[j] = {}
  <2>1. i \in {1, 2, 3, 4} /\ j \in {1, 2, 3, 4}
    OBVIOUS
  <2> QED BY <1>1, <1>3, <2>1 DEF Apart
<1>4. UNION Range(stages) \subseteq attempted
  <2>1. \A i \in 1 .. 4 : i \in {1, 2, 3, 4}
    OBVIOUS
  <2> QED BY <1>1, <1>2, <2>1 DEF Apart, Range
<1> QED
  BY <1>3, <1>4 DEF OneLookup

LEMMA ResolverInvInit == Init => ResolverInv
<1> SUFFICES ASSUME Init PROVE ResolverInv
  OBVIOUS
<1>1. Waiting = {} /\ Pending = {} /\ Answering = {} /\ DOMAIN labels = {}
  BY EmptyElements DEF Init, SInit, Waiting, Pending, Answering
<1>2. TypeOK
  BY <1>1, ResolverAssumption DEF Init, SInit, TypeOK, Answers
<1>3. PermitsAccounted /\ TaskShape
  BY FS_EmptySet, ResolverAssumption DEF Init, PermitsAccounted, TaskShape
<1>4. RequestsAccounted /\ OneAnswer /\ Apart
  BY <1>1, EmptyElements DEF Init, RequestsAccounted, OneAnswer, Apart
<1> QED
  BY <1>2, <1>3, <1>4 DEF ResolverInv
-----------------------------------------------------------------------------
(* The loop. *)

(* What a step of the tables alone leaves as it was. *)
LEMMA TablesStep ==
    ASSUME ResolverInv, UNCHANGED <<labels, requested, queue, results, taskvars>>,
           up' \in BOOLEAN, todo' \subseteq Ips,
           nodes' \subseteq Ips, dirty' \subseteq nodes'
    PROVE  ResolverInv'
BY DEF ResolverInv, TypeOK, RequestsAccounted, PermitsAccounted, TaskShape,
       OneAnswer, Apart, Waiting, Pending, Answering, taskvars

LEMMA AskStep ==
    ASSUME ResolverInv, NEW ip \in Ips, Ask(ip)
    PROVE  ResolverInv'
<1>1. CASE UNCHANGED <<queue, requested>>
  BY <1>1, TablesStep DEF Ask, svars, taskvars, ResolverInv, TypeOK
<1>2. CASE ip \in Resolvable \ requested /\ Len(queue) < Queue
  <2>1. queue' = Append(queue, ip) /\ requested' = requested \cup {ip}
    BY <1>2 DEF Ask, Recorded
  <2>2. queue \in Seq(Ips) /\ Len(queue) \in Nat /\ IsInjective(queue)
    BY DEF ResolverInv, TypeOK, RequestsAccounted
  <2>3. /\ queue' \in Seq(Ips) /\ Len(queue') <= Queue
        /\ Waiting' = Waiting \cup {ip}
    BY <1>2, <2>1, <2>2, AppendElements, ResolverAssumption DEF Waiting
  <2>4. ip \notin Waiting /\ ip \notin attempted
    BY <1>2 DEF ResolverInv, RequestsAccounted
  <2>5. IsInjective(queue')
    BY <2>1, <2>2, <2>4, AppendElements DEF Waiting
  <2>6. RequestsAccounted'
    BY <2>1, <2>3, <2>4, <2>5 DEF ResolverInv, RequestsAccounted, Ask, taskvars
  <2>7. TypeOK'
    BY <2>1, <2>3 DEF ResolverInv, TypeOK, Ask, svars, taskvars
  <2>8. PermitsAccounted' /\ TaskShape' /\ OneAnswer' /\ Apart'
    BY DEF ResolverInv, Ask, svars, taskvars, PermitsAccounted, TaskShape, OneAnswer,
           Apart, Pending, Answering
  <2> QED BY <2>6, <2>7, <2>8 DEF ResolverInv
<1> QED
  BY <1>1, <1>2 DEF Ask, Recorded

LEMMA TakeResultStep ==
    ASSUME ResolverInv, TakeResult
    PROVE  ResolverInv'
<1> DEFINE a == Head(results)
<1>1. /\ results \in Seq(Answers) /\ results # <<>> /\ IsInjective(results)
      /\ results' = Tail(results) /\ Len(results) \in Nat
  BY DEF ResolverInv, TypeOK, OneAnswer, TakeResult
<1>2. /\ results' \in Seq(Answers) /\ Len(results') <= Queue
      /\ a \in Answers /\ a \in Range(results)
      /\ Range(results') = Range(results) \ {a}
      /\ IsInjective(results')
  BY <1>1, TailElements, ResolverAssumption DEF ResolverInv, TypeOK
<1>3. /\ labels' = [x \in DOMAIN labels \cup {a.ip} |-> IF x = a.ip THEN a.name ELSE labels[x]]
      /\ dirty' = dirty \cup ({a.ip} \cap nodes) /\ nodes' = nodes
      /\ UNCHANGED <<up, todo, requested, queue, attempted, held, lookups, permits, answers>>
  BY DEF TakeResult, Name, loopvars, taskvars
<1>4. Pending' = Pending \ {a} /\ a \in Pending
  BY <1>2, <1>3 DEF Pending, ResolverInv, OneAnswer
<1>5. Answering = {x.ip : x \in Pending} /\ Answering' = {x.ip : x \in Pending'}
  BY DEF Answering, Pending
<1>6. /\ Answering' = Answering \ {a.ip} /\ a.ip \in Answering
      /\ DOMAIN labels' = DOMAIN labels \cup {a.ip}
  BY <1>3, <1>4, <1>5 DEF ResolverInv, OneAnswer
<1>7. TypeOK'
  BY <1>2, <1>3 DEF ResolverInv, TypeOK, Answers
<1>8. RequestsAccounted' /\ PermitsAccounted' /\ TaskShape'
  BY <1>3 DEF ResolverInv, RequestsAccounted, PermitsAccounted, TaskShape, Waiting
<1>9. OneAnswer'
  BY <1>2, <1>3, <1>4 DEF ResolverInv, OneAnswer
<1>10. Apart'
  BY <1>3, <1>6 DEF ResolverInv, Apart
<1> QED
  BY <1>7, <1>8, <1>9, <1>10 DEF ResolverInv

LEMMA ReturnStep ==
    ASSUME ResolverInv, Return
    PROVE  ResolverInv'
<1>1. /\ results' = <<>> /\ up' = FALSE
      /\ UNCHANGED <<nodes, dirty, labels, todo, requested, queue, attempted, held,
                     lookups, permits, answers>>
  BY DEF Return, svars, taskvars
<1>2. Pending' \subseteq Pending /\ Answering' \subseteq Answering
  BY <1>1, EmptyElements DEF Pending, Answering
<1>3. TypeOK'
  <2>1. results' \in Seq(Answers) /\ Len(results') <= Queue
    BY <1>1, ResolverAssumption
  <2>2. /\ labels' \in [DOMAIN labels' -> Names] /\ DOMAIN labels' \subseteq Ips
        /\ nodes' \subseteq Ips /\ dirty' \subseteq nodes'
    BY <1>1 DEF ResolverInv, TypeOK
  <2> QED BY <1>1, <2>1, <2>2 DEF ResolverInv, TypeOK
<1>4. RequestsAccounted' /\ PermitsAccounted' /\ TaskShape'
  BY <1>1 DEF ResolverInv, RequestsAccounted, PermitsAccounted, TaskShape, Waiting
<1>5. OneAnswer'
  BY <1>1, <1>2, EmptyElements DEF ResolverInv, OneAnswer
<1>6. Apart'
  BY <1>1, <1>2 DEF ResolverInv, Apart
<1> QED
  BY <1>3, <1>4, <1>5, <1>6 DEF ResolverInv
-----------------------------------------------------------------------------
(* The resolver task. *)

LEMMA TakeRequestStep ==
    ASSUME ResolverInv, TakeRequest
    PROVE  ResolverInv'
<1> DEFINE ip == Head(queue)
<1>1. /\ queue \in Seq(Ips) /\ queue # <<>> /\ IsInjective(queue) /\ Len(queue) \in Nat
      /\ queue' = Tail(queue) /\ held = {} /\ held' = {ip} \ attempted
      /\ attempted' = attempted \cup {ip}
      /\ UNCHANGED <<nodes, dirty, labels, up, todo, requested, results, lookups,
                     permits, answers>>
  BY DEF ResolverInv, TypeOK, RequestsAccounted, TakeRequest, Attempted, svars, loopvars
<1>2. /\ queue' \in Seq(Ips) /\ Len(queue') <= Queue
      /\ ip \in Ips /\ ip \in Waiting
      /\ Waiting' = Waiting \ {ip}
      /\ IsInjective(queue')
  BY <1>1, TailElements, ResolverAssumption DEF ResolverInv, TypeOK, Waiting
<1>3. ip \notin attempted
  BY <1>2 DEF ResolverInv, RequestsAccounted
<1>4. TypeOK'
  BY <1>1, <1>2 DEF ResolverInv, TypeOK
<1>5. RequestsAccounted'
  BY <1>1, <1>2, <1>3 DEF ResolverInv, RequestsAccounted
<1>6. PermitsAccounted' /\ TaskShape' /\ OneAnswer'
  BY <1>1 DEF ResolverInv, PermitsAccounted, TaskShape, OneAnswer, Pending
<1>7. Apart'
  BY <1>1, <1>3 DEF ResolverInv, Apart, Answering
<1> QED
  BY <1>4, <1>5, <1>6, <1>7 DEF ResolverInv

LEMMA StartLookupStep ==
    ASSUME ResolverInv, StartLookup
    PROVE  ResolverInv'
<1>1. PICK ip \in Ips : held = {ip}
  BY DEF StartLookup, ResolverInv, TypeOK, TaskShape
<1>2. /\ permits' = permits - 1 /\ permits > 0 /\ permits \in 0 .. Permits
      /\ lookups' = lookups \cup {ip} /\ held' = {}
      /\ UNCHANGED <<nodes, dirty, labels, up, todo, requested, queue, results,
                     attempted, answers>>
  BY <1>1 DEF StartLookup, Acquired, ResolverInv, TypeOK, svars, loopvars
<1>3. /\ IsFiniteSet(lookups') /\ Cardinality(lookups') = Cardinality(lookups) + 1
      /\ Cardinality(lookups) \in Nat
  BY <1>1, <1>2, FS_AddElement, FS_CardinalityType DEF ResolverInv, TaskShape, Apart
<1>4. TypeOK'
  BY <1>1, <1>2, ResolverAssumption DEF ResolverInv, TypeOK
<1>5. RequestsAccounted' /\ OneAnswer'
  BY <1>2 DEF ResolverInv, RequestsAccounted, OneAnswer, Waiting, Pending
<1>6. PermitsAccounted' /\ TaskShape'
  BY <1>2, <1>3, ResolverAssumption DEF ResolverInv, PermitsAccounted, TaskShape
<1>7. Apart'
  BY <1>1, <1>2 DEF ResolverInv, Apart, Answering
<1> QED
  BY <1>4, <1>5, <1>6, <1>7 DEF ResolverInv

LEMMA LookupEndsStep ==
    ASSUME ResolverInv, NEW ip \in Ips, LookupEnds(ip)
    PROVE  ResolverInv'
<1>1. PICK found \in {{}} \cup {{[ip |-> ip, name |-> name]} : name \in Names} :
        answers' = answers \cup found /\ permits' = permits + 1
  BY DEF LookupEnds, Released
<1>2. /\ ip \in lookups /\ lookups' = lookups \ {ip}
      /\ UNCHANGED <<nodes, dirty, labels, up, todo, requested, queue, results,
                     attempted, held>>
  BY DEF LookupEnds, svars, loopvars
<1>3. /\ found \subseteq Answers
      /\ \A x \in found : x.ip = ip
      /\ \A x, y \in found : x = y
  BY DEF Answers
<1>4. Pending' = Pending \cup found
  BY <1>1, <1>2 DEF Pending
<1>5. Answering = {x.ip : x \in Pending} /\ Answering' = {x.ip : x \in Pending'}
  BY DEF Answering, Pending
<1>6. Answering' \subseteq Answering \cup {ip} /\ ip \notin Answering
  BY <1>2, <1>3, <1>4, <1>5 DEF ResolverInv, Apart
<1>7. /\ IsFiniteSet(lookups') /\ Cardinality(lookups') = Cardinality(lookups) - 1
      /\ Cardinality(lookups) \in Nat /\ Cardinality(lookups') \in Nat
  BY <1>2, FS_RemoveElement, FS_CardinalityType DEF ResolverInv, TaskShape
<1>8. TypeOK'
  <2>1. permits' \in 0 .. Permits
    BY <1>1, <1>7, ResolverAssumption DEF ResolverInv, TypeOK, PermitsAccounted
  <2> QED BY <1>1, <1>2, <1>3, <2>1 DEF ResolverInv, TypeOK
<1>9. RequestsAccounted' /\ TaskShape'
  BY <1>2, <1>7 DEF ResolverInv, RequestsAccounted, TaskShape, Waiting
<1>10. PermitsAccounted'
  BY <1>1, <1>7, ResolverAssumption DEF ResolverInv, PermitsAccounted, TypeOK
<1>11. OneAnswer'
  <2>1. \A x \in found : x.ip \notin Answering
    BY <1>3, <1>6
  <2>2. \A x \in Pending : x.ip \in Answering
    BY <1>5
  <2>3. answers' \cap Range(results') = {}
    BY <1>1, <1>2, <2>1, <2>2 DEF ResolverInv, OneAnswer, Pending
  <2>4. \A x, y \in Pending' : x.ip = y.ip => x = y
    BY <1>3, <1>4, <2>1, <2>2 DEF ResolverInv, OneAnswer
  <2> QED BY <1>2, <2>3, <2>4 DEF ResolverInv, OneAnswer
<1>12. Apart'
  BY <1>2, <1>6 DEF ResolverInv, Apart
<1> QED
  BY <1>8, <1>9, <1>10, <1>11, <1>12 DEF ResolverInv

LEMMA SendAnswerStep ==
    ASSUME ResolverInv, NEW a \in answers, SendAnswer(a)
    PROVE  ResolverInv'
<1>1. /\ answers' = answers \ {a} /\ a \in Answers /\ a \notin Range(results)
      /\ UNCHANGED <<nodes, dirty, labels, up, todo, requested, queue, attempted,
                     held, lookups, permits>>
  BY DEF SendAnswer, ResolverInv, TypeOK, OneAnswer, svars, loopvars
<1>2. /\ results' \in Seq(Answers) /\ Len(results') <= Queue
      /\ Range(results') \subseteq Range(results) \cup {a}
      /\ IsInjective(results')
  <2>1. results \in Seq(Answers) /\ Len(results) \in Nat /\ Len(results) <= Queue
        /\ IsInjective(results)
    BY DEF ResolverInv, TypeOK, OneAnswer
  <2>2. CASE results' = results
    BY <2>1, <2>2
  <2>3. CASE Len(results) < Queue /\ results' = Append(results, a)
    BY <1>1, <2>1, <2>3, AppendElements, ResolverAssumption
  <2> QED BY <2>2, <2>3 DEF SendAnswer
<1>3. Pending' \subseteq Pending /\ answers' \cap Range(results') = {}
  BY <1>1, <1>2 DEF Pending, ResolverInv, OneAnswer
<1>4. Answering' \subseteq Answering
  BY <1>3 DEF Answering, Pending
<1>5. TypeOK'
  BY <1>1, <1>2 DEF ResolverInv, TypeOK
<1>6. RequestsAccounted' /\ PermitsAccounted' /\ TaskShape'
  BY <1>1 DEF ResolverInv, RequestsAccounted, PermitsAccounted, TaskShape, Waiting
<1>7. OneAnswer'
  BY <1>2, <1>3 DEF ResolverInv, OneAnswer
<1>8. Apart'
  BY <1>1, <1>4 DEF ResolverInv, Apart
<1> QED
  BY <1>5, <1>6, <1>7, <1>8 DEF ResolverInv
-----------------------------------------------------------------------------
LEMMA ResolverInvStep == ResolverInv /\ [Next]_vars => ResolverInv'
<1> SUFFICES ASSUME ResolverInv, [Next]_vars PROVE ResolverInv'
  OBVIOUS
<1>1. ASSUME NEW heard \in SUBSET Ips, Ingest(heard) PROVE ResolverInv'
  <2>1. /\ nodes' = nodes \cup heard /\ dirty' = dirty \cup heard
        /\ UNCHANGED <<labels, up, todo, requested, queue, results, taskvars>>
    BY <1>1 DEF Ingest, Hear, loopvars
  <2> QED BY <2>1, TablesStep DEF ResolverInv, TypeOK
<1>2. ASSUME NEW gone \in SUBSET nodes, Tick(gone) PROVE ResolverInv'
  <2>1. /\ nodes' = nodes \ gone /\ dirty' = {} /\ todo' = dirty
        /\ UNCHANGED <<labels, up, requested, queue, results, taskvars>>
    BY <1>2 DEF Tick, Sweep
  <2> QED BY <2>1, TablesStep DEF ResolverInv, TypeOK
<1>3. CASE ResetHistory
  <2>1. /\ nodes' = {} /\ dirty' = {}
        /\ UNCHANGED <<labels, up, todo, requested, queue, results, taskvars>>
    BY <1>3 DEF ResetHistory, Forget, loopvars
  <2> QED BY <2>1, TablesStep DEF ResolverInv, TypeOK
<1>4. CASE UNCHANGED vars
  BY <1>4, TablesStep DEF vars, svars, loopvars, ResolverInv, TypeOK
<1>5. ASSUME TaskStep PROVE ResolverInv'
  BY <1>5, TakeRequestStep, StartLookupStep, LookupEndsStep, SendAnswerStep DEF TaskStep
<1> QED
  BY <1>1, <1>2, <1>3, <1>4, <1>5, AskStep, TakeResultStep, ReturnStep DEF Next

LEMMA ResolverInvAlways == Spec => []ResolverInv
BY ResolverInvInit, ResolverInvStep, PTL DEF Spec

(* The queues never hold more than they can, nor the task more permits.    *)
THEOREM TypeCorrect == Spec => []TypeOK
<1>1. ResolverInv => TypeOK
  BY DEF ResolverInv
<1> QED BY <1>1, ResolverInvAlways, PTL

(* Whatever the loop, the resets and the resolver do in whatever order,    *)
(* an address is asked for once, and never marked without being asked for. *)
THEOREM RequestsAlwaysAccounted == Spec => []RequestsAccounted
<1>1. ResolverInv => RequestsAccounted
  BY DEF ResolverInv
<1> QED BY <1>1, ResolverInvAlways, PTL

(* No permit is lost or given back twice, so no more lookups run than the  *)
(* semaphore allows.                                                       *)
THEOREM PermitsAlwaysAccounted == Spec => []PermitsAccounted
<1>1. ResolverInv => PermitsAccounted
  BY DEF ResolverInv
<1> QED BY <1>1, ResolverInvAlways, PTL

(* An address has one lookup, one answer and one label in a session.       *)
THEOREM OneLookupAlways == Spec => []OneLookup
<1>1. ResolverInv => OneLookup
  BY ApartIsOneLookup DEF ResolverInv
<1> QED BY <1>1, ResolverInvAlways, PTL
-----------------------------------------------------------------------------

(* capture_done is set only when nothing can be in the channel any more.   *)
NothingLeft == done => sender = "gone" /\ chan = <<>>

ChanShape ==
    /\ chan \in Seq(Frames) /\ Len(chan) <= Channel
    /\ sender \in {"live", "file", "gone"}
    /\ {done, due, poisoned} \subseteq BOOLEAN
    /\ NothingLeft

(* What a batch takes from the channel, and what it leaves.                *)
LEMMA BatchParts ==
    ASSUME ChanShape, Batch
    PROVE  /\ \E heard \in SUBSET Ips : Ingest(heard)
           /\ chan' \in Seq(Frames) /\ Len(chan') <= Channel
<1> DEFINE n == IF Len(chan) < BatchMax THEN Len(chan) ELSE BatchMax
           heard == UNION {chan[i] : i \in 1 .. n}
<1>1. chan \in Seq(Frames) /\ Len(chan) \in Nat /\ Len(chan) <= Channel
  BY DEF ChanShape
<1>2. Ingest(heard) /\ chan' = SubSeq(chan, n + 1, Len(chan))
  BY DEF Batch
<1>3. n \in Nat /\ n <= Len(chan)
  BY <1>1, AggregatorAssumption
<1>4. \A i \in 1 .. n : chan[i] \in Frames
  BY <1>1, <1>3, ElementOfSeq
<1>5. heard \in SUBSET Ips
  BY <1>4, AggregatorAssumption
<1> HIDE DEF n, heard
<1>6. \A i \in n + 1 .. Len(chan) : chan[i] \in Frames
  BY <1>1, <1>3, ElementOfSeq
<1>7. /\ SubSeq(chan, n + 1, Len(chan)) \in Seq(Frames)
      /\ Len(SubSeq(chan, n + 1, Len(chan))) =
            IF n + 1 <= Len(chan) THEN Len(chan) - (n + 1) + 1 ELSE 0
  BY <1>1, <1>3, <1>6, SubSeqProperties
<1>8. Len(SubSeq(chan, n + 1, Len(chan))) <= Channel
  BY <1>1, <1>3, <1>7, AggregatorAssumption
<1> QED
  BY <1>2, <1>5, <1>7, <1>8

LEMMA ChanShapeInit == AInit => ChanShape
<1> SUFFICES ASSUME AInit PROVE ChanShape
  OBVIOUS
<1>1. chan \in Seq(Frames) /\ Len(chan) <= Channel
  BY AggregatorAssumption DEF AInit
<1>2. done \in BOOLEAN /\ due \in BOOLEAN /\ poisoned \in BOOLEAN /\ ~done
  BY DEF AInit
<1>3. sender \in {"live", "file", "gone"}
  BY DEF AInit
<1> QED
  BY <1>1, <1>2, <1>3 DEF ChanShape, NothingLeft

LEMMA ChanShapeStep == ChanShape /\ [ANext]_avars => ChanShape'
<1> SUFFICES ASSUME ChanShape, [ANext]_avars PROVE ChanShape'
  OBVIOUS
<1> USE DEF ChanShape, NothingLeft
<1>1. CASE Batch
  BY <1>1, BatchParts DEF Batch, FramesReady
<1>2. CASE EndOfCapture
  BY <1>2 DEF EndOfCapture, FramesReady
<1>3. CASE TakeName
  BY <1>3 DEF TakeName, schedvars
<1>4. ASSUME NEW gone \in SUBSET nodes, TakeTick(gone) PROVE ChanShape'
  BY <1>4 DEF TakeTick
<1>5. ASSUME NEW ip \in Ips, AAsk(ip) PROVE ChanShape'
  BY <1>5 DEF AAsk, schedvars
<1>6. CASE ReturnPoisoned
  <2>1. chan' = <<>> /\ UNCHANGED <<sender, done, due, poisoned>>
    BY <1>6 DEF ReturnPoisoned
  <2>2. chan' \in Seq(Frames) /\ Len(chan') <= Channel
    BY <2>1, AggregatorAssumption
  <2> QED BY <2>1, <2>2
<1>7. ASSUME NEW heard \in Frames, Push(heard) PROVE ChanShape'
  BY <1>7, AggregatorAssumption DEF Push
<1>8. CASE EndOfFile \/ TimePasses \/ Panic
  <2>1. /\ UNCHANGED <<chan, done>>
        /\ sender' = sender \/ sender' = "gone"
        /\ due' \in BOOLEAN /\ poisoned' \in BOOLEAN
    BY <1>8 DEF EndOfFile, TimePasses, Panic
  <2> QED BY <2>1
<1>9. CASE AReset \/ ATaskStep \/ UNCHANGED avars
  BY <1>9 DEF AReset, ATaskStep, avars, schedvars
<1> QED
  BY <1>1, <1>2, <1>3, <1>4, <1>5, <1>6, <1>7, <1>8, <1>9 DEF ANext, LoopStep

(* One step of the loop, the network or the clock is one step of Resolver, *)
(* or none.                                                                *)
LEMMA LoopStepRefines == ChanShape /\ [ANext]_avars => [Next]_vars
<1> SUFFICES ASSUME ChanShape, [ANext]_avars PROVE Next \/ UNCHANGED vars
  OBVIOUS
<1>1. CASE Batch
  BY <1>1, BatchParts DEF Next
<1>2. CASE TakeName
  BY <1>2 DEF TakeName, Next
<1>3. ASSUME NEW gone \in SUBSET nodes, TakeTick(gone) PROVE Next
  BY <1>3 DEF TakeTick, Next
<1>4. ASSUME NEW ip \in Ips, AAsk(ip) PROVE Next
  BY <1>4 DEF AAsk, Next
<1>5. CASE ReturnPoisoned
  BY <1>5 DEF ReturnPoisoned, Next
<1>6. CASE AReset \/ ATaskStep
  BY <1>6 DEF AReset, ATaskStep, Next
<1>7. ASSUME NEW heard \in Frames, Push(heard) PROVE UNCHANGED vars
  BY <1>7 DEF Push
<1>8. CASE EndOfCapture \/ EndOfFile \/ TimePasses \/ Panic \/ UNCHANGED avars
  BY <1>8 DEF EndOfCapture, EndOfFile, TimePasses, Panic, avars
<1> QED
  BY <1>1, <1>2, <1>3, <1>4, <1>5, <1>6, <1>7, <1>8 DEF ANext, LoopStep

LEMMA ChanShapeAlways == ASpec => []ChanShape
BY ChanShapeInit, ChanShapeStep, PTL DEF ASpec

(* Under the order of the branches, batches, the end of a file and a       *)
(* return at any branch, the loop implements Resolver.                     *)
THEOREM LoopImplementsResolver == ASpec => ResolverImplemented
<1>1. AInit => Init
  BY DEF AInit
<1> QED
  BY <1>1, ChanShapeAlways, LoopStepRefines, PTL DEF ASpec, Spec, ResolverImplemented

(* So the addresses asked for are accounted for, permits are not lost, and *)
(* there is one lookup for an address, in the loop as it is scheduled.     *)
THEOREM LoopIsSafe == ASpec => [](RequestsAccounted /\ PermitsAccounted /\ OneLookup)
<1>1. ASpec => Spec
  BY LoopImplementsResolver DEF ResolverImplemented
<1> QED
  BY <1>1, RequestsAlwaysAccounted, PermitsAlwaysAccounted, OneLookupAlways, PTL

(* The end of the capture is noticed only when every frame has been        *)
(* ingested: none is left behind in the channel for good.                  *)
THEOREM NothingIsLeft == ASpec => []NothingLeft
<1>1. ChanShape => NothingLeft
  BY DEF ChanShape
<1> QED BY <1>1, ChanShapeAlways, PTL
=============================================================================
