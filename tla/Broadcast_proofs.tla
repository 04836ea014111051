--------------------------- MODULE Broadcast_proofs --------------------------
(***************************************************************************)
(* The delta protocol keeps a viewer that misses nothing in agreement with *)
(* the tables (Mirror), and the broadcast does as much for every browser   *)
(* that has lost nothing since its last snapshot or reset (Broadcast),     *)
(* whatever the addresses, the frames, the fade delays, the browsers and   *)
(* the size of the ring.                                                   *)
(***************************************************************************)
EXTENDS Broadcast, Mirror, Tables_proofs

Picture(v) == [nodes |-> SnapshotNodes(v), edges |-> SnapshotEdges(v)]
-----------------------------------------------------------------------------
(* What a group of messages makes of a graph.                              *)

(* The graphs a browser can hold: no edge without its ends. *)
IsGraph(g) ==
    /\ g = [nodes |-> [a \in DOMAIN g.nodes |-> g.nodes[a]],
            edges |-> [k \in DOMAIN g.edges |-> g.edges[k]]]
    /\ \A k \in DOMAIN g.edges : k \subseteq DOMAIN g.nodes

(* g and h differ on the nodes of N and the edges of E at most. *)
Like(g, h, N, E) ==
    /\ \A a : a \notin N => /\ a \in DOMAIN g.nodes <=> a \in DOMAIN h.nodes
                            /\ a \in DOMAIN g.nodes => g.nodes[a] = h.nodes[a]
    /\ \A k : k \notin E => /\ k \in DOMAIN g.edges <=> k \in DOMAIN h.edges
                            /\ k \in DOMAIN g.edges => g.edges[k] = h.edges[k]

NodesAfter(g, d) ==
    (DOMAIN g.nodes \cup DOMAIN d.upsert_node \cup UNION DOMAIN d.upsert_edge)
        \ DOMAIN d.remove_node
EdgesAfter(g, d) ==
    {k \in (DOMAIN g.edges \cup DOMAIN d.upsert_edge) \ DOMAIN d.remove_edge :
        k \cap DOMAIN d.remove_node = {}}
NodeAfter(g, d, a) ==
    IF a \in DOMAIN d.upsert_node THEN d.upsert_node[a]
    ELSE IF a \in DOMAIN g.nodes THEN g.nodes[a] ELSE Placeholder(a)
EdgeAfter(g, d, k) ==
    IF k \in DOMAIN d.upsert_edge THEN d.upsert_edge[k] ELSE g.edges[k]

(* The four groups in one go. *)
LEMMA DeltasInOneGo ==
    ASSUME NEW g, NEW d
    PROVE  ApplyDeltas(g, d) =
             [nodes |-> [a \in NodesAfter(g, d) |-> NodeAfter(g, d, a)],
              edges |-> [k \in EdgesAfter(g, d) |-> EdgeAfter(g, d, k)]]
<1> DEFINE g1 == UpsertNodes(g, d.upsert_node)
           g2 == UpsertEdges(g1, d.upsert_edge)
           g3 == RemoveEdges(g2, DOMAIN d.remove_edge)
           rn == DOMAIN d.remove_node
<1>1. /\ g2.nodes = Merge([a \in UNION DOMAIN d.upsert_edge |-> Placeholder(a)],
                          Merge(g.nodes, d.upsert_node))
      /\ g2.edges = Merge(g.edges, d.upsert_edge)
  BY DEF UpsertNodes, UpsertEdges
<1>2. /\ g3.nodes = g2.nodes
      /\ g3.edges = Restrict(g2.edges, DOMAIN g2.edges \ DOMAIN d.remove_edge)
  BY DEF RemoveEdges, UpsertEdges
<1>3. ApplyDeltas(g, d) =
        [nodes |-> Restrict(g3.nodes, DOMAIN g3.nodes \ rn),
         edges |-> Restrict(g3.edges, {k \in DOMAIN g3.edges : k \cap rn = {}})]
  BY DEF ApplyDeltas, RemoveNodes
<1> HIDE DEF g1, g2, g3
<1>4. Restrict(g3.nodes, DOMAIN g3.nodes \ rn)
        = [a \in NodesAfter(g, d) |-> NodeAfter(g, d, a)]
  BY <1>1, <1>2 DEF Merge, Restrict, NodesAfter, NodeAfter
<1>5. Restrict(g3.edges, {k \in DOMAIN g3.edges : k \cap rn = {}})
        = [k \in EdgesAfter(g, d) |-> EdgeAfter(g, d, k)]
  BY <1>1, <1>2 DEF Merge, Restrict, EdgesAfter, EdgeAfter
<1> QED
  BY <1>3, <1>4, <1>5

LEMMA DeltasParts ==
    ASSUME NEW g, NEW d
    PROVE  /\ DOMAIN ApplyDeltas(g, d).nodes = NodesAfter(g, d)
           /\ DOMAIN ApplyDeltas(g, d).edges = EdgesAfter(g, d)
           /\ \A a \in NodesAfter(g, d) : ApplyDeltas(g, d).nodes[a] = NodeAfter(g, d, a)
           /\ \A k \in EdgesAfter(g, d) : ApplyDeltas(g, d).edges[k] = EdgeAfter(g, d, k)
BY DeltasInOneGo

(* Two graphs with the same parts are the same. *)
LEMMA SameGraph ==
    ASSUME NEW g, IsGraph(g), NEW h, IsGraph(h), Like(g, h, {}, {})
    PROVE  g = h
<1>1. DOMAIN g.nodes = DOMAIN h.nodes /\ \A a \in DOMAIN g.nodes : g.nodes[a] = h.nodes[a]
  BY DEF Like
<1>2. DOMAIN g.edges = DOMAIN h.edges /\ \A k \in DOMAIN g.edges : g.edges[k] = h.edges[k]
  BY DEF Like
<1>3. [a \in DOMAIN g.nodes |-> g.nodes[a]] = [a \in DOMAIN h.nodes |-> h.nodes[a]]
  BY <1>1
<1>4. [k \in DOMAIN g.edges |-> g.edges[k]] = [k \in DOMAIN h.edges |-> h.edges[k]]
  BY <1>2
<1> QED
  BY <1>3, <1>4 DEF IsGraph

(* Removing a node takes its edges with it, and an edge brings its ends.   *)
LEMMA DeltasGraph ==
    ASSUME NEW g, IsGraph(g), NEW d
    PROVE  IsGraph(ApplyDeltas(g, d))
<1> DEFINE h == ApplyDeltas(g, d)
<1>1. h = [nodes |-> [a \in DOMAIN h.nodes |-> h.nodes[a]],
           edges |-> [k \in DOMAIN h.edges |-> h.edges[k]]]
  BY DeltasInOneGo
<1>2. \A k \in EdgesAfter(g, d) : k \subseteq NodesAfter(g, d)
  BY DEF IsGraph, EdgesAfter, NodesAfter
<1> QED
  BY <1>1, <1>2, DeltasParts DEF IsGraph

(* Whatever differs is the same once it is removed, and nothing else ever  *)
(* becomes different.                                                      *)
LEMMA DeltasLike ==
    ASSUME NEW g, NEW h, NEW d, NEW N, NEW E, Like(g, h, N, E)
    PROVE  Like(ApplyDeltas(g, d), ApplyDeltas(h, d),
                N \ DOMAIN d.remove_node, E \ DOMAIN d.remove_edge)
<1>1. ASSUME NEW a, a \notin N \ DOMAIN d.remove_node
      PROVE  /\ a \in NodesAfter(g, d) <=> a \in NodesAfter(h, d)
             /\ a \in NodesAfter(g, d) => NodeAfter(g, d, a) = NodeAfter(h, d, a)
  BY <1>1 DEF Like, NodesAfter, NodeAfter
<1>2. ASSUME NEW k, k \notin E \ DOMAIN d.remove_edge
      PROVE  /\ k \in EdgesAfter(g, d) <=> k \in EdgesAfter(h, d)
             /\ k \in EdgesAfter(g, d) => EdgeAfter(g, d, k) = EdgeAfter(h, d, k)
  BY <1>2 DEF Like, EdgesAfter, EdgeAfter
<1> QED
  BY <1>1, <1>2, DeltasParts DEF Like

(* The batch without one of its messages. *)
Without(d, type, id) == [d EXCEPT ![type] = Restrict(@, DOMAIN @ \ {id})]

(* A message of the first group not sent yet and the rest of the batch do  *)
(* what the batch does.                                                    *)
LEMMA BatchInPieces ==
    ASSUME NEW g, IsGraph(g), NEW d, NEW type \in Types, NEW id \in DOMAIN d[type],
           NEW v,
           \A earlier \in Types : Place[earlier] < Place[type] => d[earlier] = EmptyMap,
           DOMAIN d = Types
    PROVE  ApplyDeltas(ApplyDeltas(g, Alone(Delta(type, v, id, d[type][id]))),
                       Without(d, type, id)) = ApplyDeltas(g, d)
<1> DEFINE one == Alone(Delta(type, v, id, d[type][id]))
           rest == Without(d, type, id)
<1>1. /\ Types = {"upsert_node", "upsert_edge", "remove_edge", "remove_node"}
      /\ Place["upsert_node"] = 0 /\ Place["upsert_edge"] = 2
      /\ Place["remove_edge"] = 4 /\ Place["remove_node"] = 6
  BY DEF Types, Place
<1>2. \A other \in Types :
         IF other = type THEN /\ DOMAIN one[other] = {id} /\ one[other][id] = d[type][id]
                              /\ DOMAIN rest[other] = DOMAIN d[other] \ {id}
                              /\ \A x \in DOMAIN rest[other] : rest[other][x] = d[other][x]
         ELSE one[other] = EmptyMap /\ rest[other] = d[other]
  BY DEF Alone, Delta, Restrict, Without
<1>3. DOMAIN EmptyMap = {}
  BY DEF EmptyMap
<1> DEFINE h == ApplyDeltas(g, one)
<1>4. /\ DOMAIN h.nodes = NodesAfter(g, one) /\ DOMAIN h.edges = EdgesAfter(g, one)
      /\ \A a \in NodesAfter(g, one) : h.nodes[a] = NodeAfter(g, one, a)
      /\ \A k \in EdgesAfter(g, one) : h.edges[k] = EdgeAfter(g, one, k)
  BY DeltasParts
<1> HIDE DEF h, one, rest
<1> SUFFICES /\ NodesAfter(h, rest) = NodesAfter(g, d)
             /\ EdgesAfter(h, rest) = EdgesAfter(g, d)
             /\ \A a \in NodesAfter(g, d) : NodeAfter(h, rest, a) = NodeAfter(g, d, a)
             /\ \A k \in EdgesAfter(g, d) : EdgeAfter(h, rest, k) = EdgeAfter(g, d, k)
  BY DeltasInOneGo DEF h, one, rest
<1>5. CASE type = "upsert_node"
  <2>1. /\ NodesAfter(g, one) = DOMAIN g.nodes \cup {id}
        /\ EdgesAfter(g, one) = DOMAIN g.edges
        /\ h.nodes[id] = d.upsert_node[id]
        /\ \A a \in DOMAIN g.nodes \ {id} : h.nodes[a] = g.nodes[a]
        /\ \A k \in DOMAIN g.edges : h.edges[k] = g.edges[k]
    BY <1>1, <1>2, <1>3, <1>4, <1>5 DEF NodesAfter, EdgesAfter, NodeAfter, EdgeAfter
  <2>2. /\ DOMAIN rest.upsert_node = DOMAIN d.upsert_node \ {id}
        /\ \A x \in DOMAIN rest.upsert_node : rest.upsert_node[x] = d.upsert_node[x]
        /\ rest.upsert_edge = d.upsert_edge
        /\ rest.remove_edge = d.remove_edge /\ rest.remove_node = d.remove_node
        /\ id \in DOMAIN d.upsert_node
    BY <1>1, <1>2, <1>5
  <2>3. NodesAfter(h, rest) = NodesAfter(g, d)
    BY <1>4, <2>1, <2>2 DEF NodesAfter
  <2>4. EdgesAfter(h, rest) = EdgesAfter(g, d)
    BY <1>4, <2>1, <2>2 DEF EdgesAfter
  <2>5. \A a \in NodesAfter(g, d) : NodeAfter(h, rest, a) = NodeAfter(g, d, a)
    BY <1>4, <2>1, <2>2 DEF NodesAfter, NodeAfter
  <2>6. \A k \in EdgesAfter(g, d) : EdgeAfter(h, rest, k) = EdgeAfter(g, d, k)
    BY <1>4, <2>1, <2>2 DEF EdgesAfter, EdgeAfter
  <2> QED BY <2>3, <2>4, <2>5, <2>6
<1>6. CASE type = "upsert_edge"
  <2>1. /\ NodesAfter(g, one) = DOMAIN g.nodes \cup id
        /\ EdgesAfter(g, one) = DOMAIN g.edges \cup {id}
        /\ h.edges[id] = d.upsert_edge[id]
        /\ \A a \in DOMAIN g.nodes : h.nodes[a] = g.nodes[a]
        /\ \A a \in id : a \notin DOMAIN g.nodes => h.nodes[a] = Placeholder(a)
        /\ \A k \in DOMAIN g.edges \ {id} : h.edges[k] = g.edges[k]
    BY <1>1, <1>2, <1>3, <1>4, <1>6 DEF NodesAfter, EdgesAfter, NodeAfter, EdgeAfter
  <2>2. /\ DOMAIN rest.upsert_edge = DOMAIN d.upsert_edge \ {id}
        /\ \A x \in DOMAIN rest.upsert_edge : rest.upsert_edge[x] = d.upsert_edge[x]
        /\ rest.upsert_node = EmptyMap /\ d.upsert_node = EmptyMap
        /\ rest.remove_edge = d.remove_edge /\ rest.remove_node = d.remove_node
        /\ id \in DOMAIN d.upsert_edge
    BY <1>1, <1>2, <1>6
  <2>3. NodesAfter(h, rest) = NodesAfter(g, d)
    BY <1>3, <1>4, <2>1, <2>2 DEF NodesAfter
  <2>4. EdgesAfter(h, rest) = EdgesAfter(g, d)
    BY <1>3, <1>4, <2>1, <2>2 DEF EdgesAfter
  <2>5. \A a \in NodesAfter(g, d) : NodeAfter(h, rest, a) = NodeAfter(g, d, a)
    BY <1>3, <1>4, <2>1, <2>2 DEF NodesAfter, NodeAfter
  <2>6. \A k \in EdgesAfter(g, d) : EdgeAfter(h, rest, k) = EdgeAfter(g, d, k)
    BY <1>3, <1>4, <2>1, <2>2 DEF EdgesAfter, EdgeAfter
  <2> QED BY <2>3, <2>4, <2>5, <2>6
<1>7. CASE type = "remove_edge"
  <2>1. /\ NodesAfter(g, one) = DOMAIN g.nodes
        /\ EdgesAfter(g, one) = DOMAIN g.edges \ {id}
        /\ \A a \in DOMAIN g.nodes : h.nodes[a] = g.nodes[a]
        /\ \A k \in DOMAIN g.edges \ {id} : h.edges[k] = g.edges[k]
    BY <1>1, <1>2, <1>3, <1>4, <1>7 DEF NodesAfter, EdgesAfter, NodeAfter, EdgeAfter
  <2>2. /\ DOMAIN rest.remove_edge = DOMAIN d.remove_edge \ {id}
        /\ rest.upsert_node = EmptyMap /\ d.upsert_node = EmptyMap
        /\ rest.upsert_edge = EmptyMap /\ d.upsert_edge = EmptyMap
        /\ rest.remove_node = d.remove_node
        /\ id \in DOMAIN d.remove_edge
    BY <1>1, <1>2, <1>7
  <2>3. NodesAfter(h, rest) = NodesAfter(g, d)
    BY <1>3, <1>4, <2>1, <2>2 DEF NodesAfter
  <2>4. EdgesAfter(h, rest) = EdgesAfter(g, d)
    BY <1>3, <1>4, <2>1, <2>2 DEF EdgesAfter
  <2>5. \A a \in NodesAfter(g, d) : NodeAfter(h, rest, a) = NodeAfter(g, d, a)
    BY <1>3, <1>4, <2>1, <2>2 DEF NodesAfter, NodeAfter
  <2>6. \A k \in EdgesAfter(g, d) : EdgeAfter(h, rest, k) = EdgeAfter(g, d, k)
    BY <1>3, <1>4, <2>1, <2>2 DEF EdgesAfter, EdgeAfter
  <2> QED BY <2>3, <2>4, <2>5, <2>6
<1>8. CASE type = "remove_node"
  <2>1. /\ NodesAfter(g, one) = DOMAIN g.nodes \ {id}
        /\ EdgesAfter(g, one) = {k \in DOMAIN g.edges : id \notin k}
        /\ \A a \in DOMAIN g.nodes \ {id} : h.nodes[a] = g.nodes[a]
        /\ \A k \in DOMAIN g.edges : id \notin k => h.edges[k] = g.edges[k]
    BY <1>1, <1>2, <1>3, <1>4, <1>8 DEF NodesAfter, EdgesAfter, NodeAfter, EdgeAfter
  <2>2. /\ DOMAIN rest.remove_node = DOMAIN d.remove_node \ {id}
        /\ rest.upsert_node = EmptyMap /\ d.upsert_node = EmptyMap
        /\ rest.upsert_edge = EmptyMap /\ d.upsert_edge = EmptyMap
        /\ rest.remove_edge = EmptyMap /\ d.remove_edge = EmptyMap
        /\ id \in DOMAIN d.remove_node
    BY <1>1, <1>2, <1>8
  <2>3. NodesAfter(h, rest) = NodesAfter(g, d)
    BY <1>3, <1>4, <2>1, <2>2 DEF NodesAfter
  <2>4. EdgesAfter(h, rest) = EdgesAfter(g, d)
    BY <1>3, <1>4, <2>1, <2>2 DEF EdgesAfter
  <2>5. \A a \in NodesAfter(g, d) : NodeAfter(h, rest, a) = NodeAfter(g, d, a)
    BY <1>3, <1>4, <2>1, <2>2 DEF NodesAfter, NodeAfter
  <2>6. \A k \in EdgesAfter(g, d) : EdgeAfter(h, rest, k) = EdgeAfter(g, d, k)
    BY <1>3, <1>4, <2>1, <2>2 DEF EdgesAfter, EdgeAfter
  <2> QED BY <2>3, <2>4, <2>5, <2>6
<1> QED
  BY <1>1, <1>5, <1>6, <1>7, <1>8
-----------------------------------------------------------------------------
(* What the messages of a sequence make of the graphs of a browser.        *)

IsGraphs(G) ==
    /\ G = [v \in Views |-> G[v]]
    /\ \A v \in Views : IsGraph(G[v])

(* The graphs after each message. *)
Runs(G, s, f) ==
    f = [i \in 0 .. Len(s) |-> IF i = 0 THEN G ELSE Apply(f[i - 1], s[i])]

LEMMA BlankIsGraphs == IsGraphs(Blank) /\ IsGraph(EmptyGraph)
BY DEF IsGraphs, Blank, IsGraph, EmptyGraph

LEMMA ApplyView ==
    ASSUME NEW G, IsGraphs(G), NEW m, NEW v \in Views
    PROVE  Apply(G, m)[v] = IF m.type = "reset" THEN EmptyGraph
                            ELSE IF v = m.view THEN ApplyDeltas(G[v], Alone(m))
                            ELSE G[v]
BY DEF Apply, IsGraphs, Blank

LEMMA ApplyGraphs ==
    ASSUME NEW G, IsGraphs(G), NEW m
    PROVE  IsGraphs(Apply(G, m))
<1>1. \A v \in Views : IsGraph(ApplyDeltas(G[v], Alone(m))) /\ IsGraph(G[v])
  BY DeltasGraph DEF IsGraphs
<1>2. \A v \in Views : IsGraph(Apply(G, m)[v])
  BY <1>1, ApplyView, BlankIsGraphs
<1>3. Apply(G, m) = [v \in Views |-> Apply(G, m)[v]]
  BY DEF Apply, IsGraphs, Blank
<1> QED
  BY <1>2, <1>3 DEF IsGraphs

(* The definition of After has a value. *)
LEMMA AfterRuns ==
    ASSUME NEW G, NEW s, Len(s) \in Nat
    PROVE  \E f : Runs(G, s, f) /\ After(G, s) = f[Len(s)]
<1> DEFINE RunsTo(n, f) == f = [i \in 0 .. n |-> IF i = 0 THEN G ELSE Apply(f[i - 1], s[i])]
           T == {n \in Nat : \E f : RunsTo(n, f)}
<1>1. 0 \in T
  <2> DEFINE f == [i \in 0 .. 0 |-> G]
  <2>1. RunsTo(0, f)
    OBVIOUS
  <2> QED BY <2>1
<1>2. ASSUME NEW n \in Nat, n \in T
      PROVE  n + 1 \in T
  <2>1. PICK f : RunsTo(n, f)
    BY <1>2
  <2> DEFINE h == [i \in 0 .. n + 1 |-> IF i = 0 THEN G ELSE Apply(f[i - 1], s[i])]
  <2>2. \A i \in 0 .. n : h[i] = f[i]
    BY <2>1
  <2>3. RunsTo(n + 1, h)
    <3>1. ASSUME NEW i \in 0 .. n + 1, i # 0 PROVE h[i - 1] = f[i - 1]
      <4>1. i - 1 \in 0 .. n
        BY <3>1
      <4> HIDE DEF h
      <4> QED BY <2>2, <4>1
    <3> QED BY <3>1
  <2> HIDE DEF h, RunsTo
  <2> QED BY <2>3
<1> HIDE DEF T
<1>3. Len(s) \in T
  BY <1>1, <1>2, NumberInduction
<1>4. \E f : Runs(G, s, f)
  BY <1>3 DEF T, Runs
<1>5. After(G, s) = (CHOOSE f : Runs(G, s, f))[Len(s)]
  BY DEF After, Runs
<1> QED
  BY <1>4, <1>5

LEMMA RunSteps ==
    ASSUME NEW G, NEW s, Len(s) \in Nat, NEW f, Runs(G, s, f)
    PROVE  /\ f[0] = G
           /\ \A i \in 1 .. Len(s) : f[i] = Apply(f[i - 1], s[i])
<1>1. \A i \in 0 .. Len(s) : f[i] = IF i = 0 THEN G ELSE Apply(f[i - 1], s[i])
  BY DEF Runs
<1> QED
  BY <1>1

LEMMA RunGraphs ==
    ASSUME NEW G, IsGraphs(G), NEW s, Len(s) \in Nat, NEW f, Runs(G, s, f)
    PROVE  \A i \in 0 .. Len(s) : IsGraphs(f[i])
<1> DEFINE T == {i \in Nat : i <= Len(s) => IsGraphs(f[i])}
<1>1. 0 \in T
  BY RunSteps
<1>2. ASSUME NEW i \in Nat, i \in T
      PROVE  i + 1 \in T
  <2> SUFFICES ASSUME i + 1 <= Len(s) PROVE IsGraphs(f[i + 1])
    OBVIOUS
  <2>1. IsGraphs(f[i])
    BY <1>2
  <2>2. f[i + 1] = Apply(f[i], s[i + 1])
    <3>1. i + 1 \in 1 .. Len(s) /\ (i + 1) - 1 = i
      OBVIOUS
    <3> QED BY <3>1, RunSteps
  <2> QED BY <2>1, <2>2, ApplyGraphs
<1> HIDE DEF T
<1>3. Nat \subseteq T
  BY <1>1, <1>2, NumberInduction
<1> QED
  BY <1>3 DEF T

LEMMA AfterGraphs ==
    ASSUME NEW G, IsGraphs(G), NEW s, Len(s) \in Nat
    PROVE  IsGraphs(After(G, s))
BY AfterRuns, RunGraphs

LEMMA AfterNothing ==
    ASSUME NEW G
    PROVE  After(G, <<>>) = G
<1>1. Len(<<>>) = 0 /\ 0 \in Nat
  OBVIOUS
<1>2. PICK f : Runs(G, <<>>, f) /\ After(G, <<>>) = f[Len(<<>>)]
  BY <1>1, AfterRuns
<1>3. f[0] = G
  BY <1>1, <1>2, RunSteps
<1> QED
  BY <1>1, <1>2, <1>3

(* Two runs over the same messages, the second k messages ahead, that are  *)
(* the same at some point are the same ever after.                         *)
Aligned(f, s, h, u, k, from, to) ==
    /\ k \in Nat /\ from \in Nat /\ to \in Nat
    /\ from <= to /\ to <= Len(s) /\ to + k <= Len(u)
    /\ \A i \in 1 .. to : u[i + k] = s[i]
    /\ f[from] = h[from + k]

LEMMA RunsMeet ==
    ASSUME NEW G, NEW s, Len(s) \in Nat, NEW f, Runs(G, s, f),
           NEW H, NEW u, Len(u) \in Nat, NEW h, Runs(H, u, h),
           NEW k, NEW from, NEW to, Aligned(f, s, h, u, k, from, to)
    PROVE  f[to] = h[to + k]
<1> USE DEF Aligned
<1> DEFINE T == {i \in Nat : from + i <= to => f[from + i] = h[from + i + k]}
<1>1. 0 \in T
  OBVIOUS
<1>2. ASSUME NEW i \in Nat, i \in T
      PROVE  i + 1 \in T
  <2> SUFFICES ASSUME from + (i + 1) <= to
               PROVE  f[from + (i + 1)] = h[from + (i + 1) + k]
    OBVIOUS
  <2> DEFINE n == from + (i + 1)
  <2>1. f[n - 1] = h[n + k - 1]
    <3>1. f[from + i] = h[from + i + k]
      BY <1>2
    <3>2. n - 1 = from + i /\ n + k - 1 = from + i + k
      OBVIOUS
    <3> QED BY <3>1, <3>2
  <2>2. n \in 1 .. Len(s) /\ n + k \in 1 .. Len(u) /\ u[n + k] = s[n]
    OBVIOUS
  <2> HIDE DEF n
  <2>3. f[n] = Apply(f[n - 1], s[n])
    BY <2>2, RunSteps
  <2>4. h[n + k] = Apply(h[n + k - 1], u[n + k])
    BY <2>2, RunSteps
  <2> QED BY <2>1, <2>2, <2>3, <2>4 DEF n
<1> HIDE DEF T
<1>3. Nat \subseteq T
  BY ONLY <1>1, <1>2, NumberInduction
<1>4. to - from \in T
  BY <1>3
<1>5. f[from + (to - from)] = h[from + (to - from) + k]
  BY <1>4 DEF T
<1> QED
  BY <1>5

LEMMA AfterAppend ==
    ASSUME NEW G, NEW S, NEW s \in Seq(S), NEW m \in S
    PROVE  After(G, Append(s, m)) = Apply(After(G, s), m)
<1> DEFINE u == Append(s, m)
<1>1. Len(s) \in Nat /\ Len(u) = Len(s) + 1 /\ Len(u) \in Nat
  OBVIOUS
<1>2. u[Len(s) + 1] = m /\ \A i \in 1 .. Len(s) : u[i + 0] = s[i]
  OBVIOUS
<1> HIDE DEF u
<1>3. PICK f : Runs(G, s, f) /\ After(G, s) = f[Len(s)]
  BY <1>1, AfterRuns
<1>4. PICK h : Runs(G, u, h) /\ After(G, u) = h[Len(u)]
  BY <1>1, AfterRuns
<1>5. f[0] = G /\ h[0] = G
  BY <1>1, <1>3, <1>4, RunSteps
<1>6. f[Len(s)] = h[Len(s) + 0]
  <2>1. Aligned(f, s, h, u, 0, 0, Len(s))
    BY <1>1, <1>2, <1>5 DEF Aligned
  <2> QED
    BY ONLY <1>1, <1>3, <1>4, <2>1, RunsMeet
<1>7. h[Len(s) + 1] = Apply(h[Len(s)], u[Len(s) + 1])
  <2>1. Len(s) + 1 \in 1 .. Len(u) /\ (Len(s) + 1) - 1 = Len(s)
    BY <1>1
  <2> QED BY <1>1, <1>4, <2>1, RunSteps
<1> QED
  BY <1>1, <1>2, <1>3, <1>4, <1>6, <1>7 DEF u

LEMMA AfterTail ==
    ASSUME NEW G, NEW S, NEW s \in Seq(S), s # <<>>
    PROVE  After(Apply(G, Head(s)), Tail(s)) = After(G, s)
<1> DEFINE u == Tail(s)
           H == Apply(G, Head(s))
<1>1. /\ Len(s) \in Nat /\ Len(u) \in Nat /\ Len(s) = Len(u) + 1
      /\ Head(s) = s[1]
  OBVIOUS
<1>2. \A i \in 1 .. Len(u) : u[i] = s[i + 1]
  OBVIOUS
<1> HIDE DEF u, H
<1>3. PICK f : Runs(H, u, f) /\ After(H, u) = f[Len(u)]
  BY <1>1, AfterRuns
<1>4. PICK h : Runs(G, s, h) /\ After(G, s) = h[Len(s)]
  BY <1>1, AfterRuns
<1>5. f[0] = h[0 + 1]
  <2>1. f[0] = H /\ h[0] = G
    BY <1>1, <1>3, <1>4, RunSteps
  <2>2. 1 \in 1 .. Len(s)
    BY <1>1
  <2>3. h[1] = Apply(h[1 - 1], s[1])
    BY <1>1, <1>4, <2>2, RunSteps
  <2> QED BY <1>1, <2>1, <2>3 DEF H
<1>6. f[Len(u)] = h[Len(u) + 1]
  <2>1. Aligned(f, u, h, s, 1, 0, Len(u))
    BY <1>1, <1>2, <1>5 DEF Aligned
  <2> QED
    BY ONLY <1>1, <1>3, <1>4, <2>1, RunsMeet
<1> QED
  BY <1>1, <1>3, <1>4, <1>6 DEF u, H

(* After a reset nothing remains of what was shown before. *)
LEMMA AfterReset ==
    ASSUME NEW G, NEW H, NEW s, Len(s) \in Nat, NEW j \in 1 .. Len(s), s[j] = ResetMsg
    PROVE  After(G, s) = After(H, s)
<1>1. PICK f : Runs(G, s, f) /\ After(G, s) = f[Len(s)]
  BY AfterRuns
<1>2. PICK h : Runs(H, s, h) /\ After(H, s) = h[Len(s)]
  BY AfterRuns
<1>3. \A X : Apply(X, s[j]) = Blank
  BY DEF Apply, ResetMsg
<1>4. f[j] = Blank /\ h[j] = Blank
  <2>1. f[j] = Apply(f[j - 1], s[j]) /\ h[j] = Apply(h[j - 1], s[j])
    BY <1>1, <1>2, RunSteps
  <2> QED BY <1>3, <2>1
<1>5. f[Len(s)] = h[Len(s) + 0]
  <2>1. Aligned(f, s, h, s, 0, j, Len(s))
    BY <1>4 DEF Aligned
  <2> QED
    BY ONLY <1>1, <1>2, <2>1, RunsMeet, Len(s) \in Nat
<1> QED
  BY <1>1, <1>2, <1>5

(* Messages never make two browsers differ where they agree. *)
LEMMA AfterLike ==
    ASSUME NEW G, IsGraphs(G), NEW H, IsGraphs(H), NEW s, Len(s) \in Nat,
           NEW v \in Views, NEW N, NEW E, Like(G[v], H[v], N, E)
    PROVE  Like(After(G, s)[v], After(H, s)[v], N, E)
<1>1. PICK f : Runs(G, s, f) /\ After(G, s) = f[Len(s)]
  BY AfterRuns
<1>2. PICK h : Runs(H, s, h) /\ After(H, s) = h[Len(s)]
  BY AfterRuns
<1> DEFINE T == {i \in Nat : i <= Len(s) => Like(f[i][v], h[i][v], N, E)}
<1>3. 0 \in T
  BY <1>1, <1>2, RunSteps
<1>4. ASSUME NEW i \in Nat, i \in T
      PROVE  i + 1 \in T
  <2> SUFFICES ASSUME i + 1 <= Len(s) PROVE Like(f[i + 1][v], h[i + 1][v], N, E)
    OBVIOUS
  <2>1. Like(f[i][v], h[i][v], N, E)
    BY <1>4
  <2>2. /\ f[i + 1] = Apply(f[i], s[i + 1]) /\ h[i + 1] = Apply(h[i], s[i + 1])
        /\ IsGraphs(f[i]) /\ IsGraphs(h[i])
    <3>1. i + 1 \in 1 .. Len(s) /\ (i + 1) - 1 = i
      OBVIOUS
    <3> QED BY <1>1, <1>2, <3>1, RunSteps, RunGraphs
  <2> DEFINE m == s[i + 1]
             d == Alone(m)
  <2>3. /\ f[i + 1][v] = IF m.type = "reset" THEN EmptyGraph
                         ELSE IF v = m.view THEN ApplyDeltas(f[i][v], d) ELSE f[i][v]
        /\ h[i + 1][v] = IF m.type = "reset" THEN EmptyGraph
                         ELSE IF v = m.view THEN ApplyDeltas(h[i][v], d) ELSE h[i][v]
    BY <2>2, ApplyView
  <2> HIDE DEF m, d
  <2>4. CASE m.type = "reset"
    BY <2>3, <2>4 DEF Like
  <2>5. CASE m.type # "reset" /\ v # m.view
    BY <2>1, <2>3, <2>5
  <2>6. CASE m.type # "reset" /\ v = m.view
    <3>1. Like(f[i + 1][v], h[i + 1][v], N \ DOMAIN d.remove_node, E \ DOMAIN d.remove_edge)
      BY <2>1, <2>3, <2>6, DeltasLike
    <3> QED BY <3>1 DEF Like
  <2> QED BY <2>4, <2>5, <2>6
<1> HIDE DEF T
<1>5. Len(s) \in T
  BY <1>3, <1>4, NumberInduction
<1> QED
  BY <1>1, <1>2, <1>5 DEF T
-----------------------------------------------------------------------------
(* What an operation on the tables means for a graph that agrees with them.*)

(* Agrees(g, v) after the step, for the graph g that is there then. *)
AgreesThen(g, v) ==
    LET u == tables'[v] IN
    /\ DOMAIN g.nodes \subseteq DOMAIN u.nodes
    /\ DOMAIN g.edges \subseteq DOMAIN u.conv
    /\ \A a \in DOMAIN u.nodes \ u.dirty_nodes :
          a \in DOMAIN g.nodes /\ g.nodes[a] = NodePayload(v, a)'
    /\ \A k \in DOMAIN u.conv \ u.dirty_conv :
          k \in DOMAIN g.edges /\ g.edges[k] = EdgePayload(v, k)'
    /\ \A k \in DOMAIN g.edges : k \subseteq DOMAIN g.nodes

(* The step changes the entries N and E of view v, which it leaves marked, *)
(* and nothing else that is shown.                                         *)
Touches(v, N, E) ==
    LET t == tables[v]
        u == tables'[v]
    IN
    /\ DOMAIN u.nodes = DOMAIN t.nodes \cup N
    /\ DOMAIN u.conv = DOMAIN t.conv \cup E
    /\ t.dirty_nodes \cup N \subseteq u.dirty_nodes
    /\ t.dirty_conv \cup E \subseteq u.dirty_conv
    /\ \A a \in DOMAIN t.nodes \ N : NodePayload(v, a)' = NodePayload(v, a)
    /\ \A k \in DOMAIN t.conv \ E : EdgePayload(v, k)' = EdgePayload(v, k)

(* A graph that agrees still does, whatever it shows of what was touched.  *)
LEMMA TouchedAgrees ==
    ASSUME NEW v \in Views, NEW N, NEW E, Touches(v, N, E),
           NEW g, Agrees(g, v), NEW h, IsGraph(h), Like(g, h, N, E)
    PROVE  AgreesThen(h, v)
<1> DEFINE t == tables[v]
           u == tables'[v]
<1>1. DOMAIN h.nodes \subseteq DOMAIN u.nodes /\ DOMAIN h.edges \subseteq DOMAIN u.conv
  BY DEF Like, Agrees, Touches
<1>2. ASSUME NEW a \in DOMAIN u.nodes \ u.dirty_nodes
      PROVE  a \in DOMAIN h.nodes /\ h.nodes[a] = NodePayload(v, a)'
  <2>1. a \notin N /\ a \in DOMAIN t.nodes \ t.dirty_nodes
    BY DEF Touches
  <2>2. NodePayload(v, a)' = NodePayload(v, a)
    BY <2>1 DEF Touches
  <2>3. a \in DOMAIN g.nodes /\ g.nodes[a] = NodePayload(v, a)
    BY <2>1 DEF Agrees
  <2> QED BY <2>1, <2>2, <2>3 DEF Like
<1>3. ASSUME NEW k \in DOMAIN u.conv \ u.dirty_conv
      PROVE  k \in DOMAIN h.edges /\ h.edges[k] = EdgePayload(v, k)'
  <2>1. k \notin E /\ k \in DOMAIN t.conv \ t.dirty_conv
    BY DEF Touches
  <2>2. EdgePayload(v, k)' = EdgePayload(v, k)
    BY <2>1 DEF Touches
  <2>3. k \in DOMAIN g.edges /\ g.edges[k] = EdgePayload(v, k)
    BY <2>1 DEF Agrees
  <2> QED BY <2>1, <2>2, <2>3 DEF Like
<1> QED
  BY <1>1, <1>2, <1>3 DEF AgreesThen, IsGraph

LEMMA TouchedPicture ==
    ASSUME NEW v \in Views, NEW N, NEW E, Touches(v, N, E)
    PROVE  Like(Picture(v), Picture(v)', N, E)
<1>1. ASSUME NEW a, a \notin N
      PROVE  /\ a \in DOMAIN SnapshotNodes(v) <=> a \in DOMAIN SnapshotNodes(v)'
             /\ a \in DOMAIN SnapshotNodes(v) => SnapshotNodes(v)[a] = SnapshotNodes(v)'[a]
  BY <1>1 DEF Touches, SnapshotNodes
<1>2. ASSUME NEW k, k \notin E
      PROVE  /\ k \in DOMAIN SnapshotEdges(v) <=> k \in DOMAIN SnapshotEdges(v)'
             /\ k \in DOMAIN SnapshotEdges(v) => SnapshotEdges(v)[k] = SnapshotEdges(v)'[k]
  BY <1>2 DEF Touches, SnapshotEdges
<1> QED
  BY <1>1, <1>2 DEF Like, Picture

(* A frame, a name and the passage of time: what is touched is marked.     *)
LEMMA FrameTouches ==
    ASSUME NEW v \in Views, NEW src, NEW dst, labels' = labels,
           Projects(tables[v], tables'[v], v, src, dst)
    PROVE  Touches(v, {src, dst}, {Key(src, dst)})
<1> DEFINE t == tables[v]
           u == tables'[v]
<1>1. ASSUME NEW a \in DOMAIN t.nodes \ {src, dst}
      PROVE  NodePayload(v, a)' = NodePayload(v, a)
  BY DEF Projects, NodePayload, Label
<1>2. ASSUME NEW k \in DOMAIN t.conv \ {Key(src, dst)}
      PROVE  EdgePayload(v, k)' = EdgePayload(v, k)
  BY DEF Projects, Sees, EdgePayload
<1>3. /\ DOMAIN u.nodes = DOMAIN t.nodes \cup {src, dst}
      /\ DOMAIN u.conv = DOMAIN t.conv \cup {Key(src, dst)}
      /\ t.dirty_nodes \cup {src, dst} \subseteq u.dirty_nodes
      /\ t.dirty_conv \cup {Key(src, dst)} \subseteq u.dirty_conv
  BY DEF Projects, Sees
<1> QED
  BY <1>1, <1>2, <1>3 DEF Touches

LEMMA NothingTouched ==
    ASSUME NEW v \in Views, tables'[v] = tables[v], labels' = labels
    PROVE  Touches(v, {}, {})
BY DEF Touches, NodePayload, EdgePayload, Label

LEMMA IngestTouches ==
    ASSUME TablesInv, NEW p \in Packets, Ingest(p), NEW v \in Views
    PROVE  \E N, E : Touches(v, N, E)
<1>1. labels' = labels /\ Sound(tables[v], v)
  BY DEF Ingest, TablesInv
<1>2. CASE v = "ether"
  <2>1. Projects(tables[v], tables'[v], v, p.src_mac, p.dst_mac)
    BY <1>1, <1>2, PacketParts, ProjectProjects DEF Ingest, Views, Sound
  <2> QED BY <1>1, <2>1, FrameTouches
<1>3. CASE v = "inter" /\ p.l3 # NoL3
  <2>1. Projects(tables[v], tables'[v], v, p.l3.src, p.l3.dst)
    BY <1>1, <1>3, PacketParts, ProjectProjects DEF Ingest, Views, Sound
  <2> QED BY <1>1, <2>1, FrameTouches
<1>4. CASE v = "inter" /\ p.l3 = NoL3
  <2>1. tables'[v] = tables[v]
    BY <1>4 DEF Ingest
  <2> QED BY <1>1, <2>1, NothingTouched
<1> QED
  BY <1>2, <1>3, <1>4 DEF Views

LEMMA NameTouches ==
    ASSUME TablesInv, NEW ip \in Ips, NEW name \in Names, SetL3Label(ip, name),
           NEW v \in Views
    PROVE  \E N, E : Touches(v, N, E)
<1> DEFINE N == {ip} \cap DOMAIN tables["inter"].nodes
<1>1. CASE v = "ether"
  <2>1. tables'[v] = tables[v]
    BY <1>1 DEF SetL3Label, TablesInv, Views
  <2>2. Touches(v, {}, {})
    BY <1>1, <2>1 DEF Touches, NodePayload, EdgePayload, Label
  <2> QED BY <2>2
<1>2. CASE v = "inter"
  <2>1. /\ tables'[v].nodes = tables[v].nodes
        /\ tables'[v].conv = tables[v].conv
        /\ tables'[v].dirty_conv = tables[v].dirty_conv
        /\ tables[v].dirty_nodes \cup N \subseteq tables'[v].dirty_nodes
    BY <1>2 DEF SetL3Label, Marked, TablesInv, Views
  <2>2. ASSUME NEW a \in DOMAIN tables[v].nodes \ N
        PROVE  NodePayload(v, a)' = NodePayload(v, a)
    <3>1. a # ip
      BY <1>2
    <3>2. /\ a \in DOMAIN labels' <=> a \in DOMAIN labels
          /\ a \in DOMAIN labels => labels'[a] = labels[a]
      BY <3>1 DEF SetL3Label, Put
    <3>3. Label(v, a)' = Label(v, a)
      BY <3>2 DEF Label
    <3> QED BY <2>1, <3>3 DEF NodePayload
  <2>3. \A k : EdgePayload(v, k)' = EdgePayload(v, k)
    BY <2>1 DEF EdgePayload
  <2>4. Touches(v, N, {})
    BY <1>2, <2>1, <2>2, <2>3 DEF Touches
  <2> QED BY <2>4
<1> QED
  BY <1>1, <1>2 DEF Views

LEMMA ElapseTouches ==
    ASSUME TablesInv, Elapse, NEW v \in Views
    PROVE  /\ Touches(v, {}, {})
           /\ DOMAIN tables'[v].nodes = DOMAIN tables[v].nodes
           /\ DOMAIN tables'[v].conv = DOMAIN tables[v].conv
<1>1. /\ DOMAIN tables'[v].nodes = DOMAIN tables[v].nodes
      /\ DOMAIN tables'[v].conv = DOMAIN tables[v].conv
      /\ tables'[v].dirty_nodes = tables[v].dirty_nodes
      /\ tables'[v].dirty_conv = tables[v].dirty_conv
      /\ \A a \in DOMAIN tables[v].nodes :
            tables'[v].nodes[a] = Older(tables[v].nodes[a])
      /\ \A k \in DOMAIN tables[v].conv :
            tables'[v].conv[k] = Older(tables[v].conv[k])
  BY DEF Elapse, Aged
<1>2. ASSUME NEW s \in Stats
      PROVE  /\ Older(s).bytes = s.bytes
             /\ Older(s).tx_bytes = s.tx_bytes
             /\ Older(s).rx_bytes = s.rx_bytes
  BY DEF Older, Stats
<1>3. ASSUME NEW a \in DOMAIN tables[v].nodes
      PROVE  NodePayload(v, a)' = NodePayload(v, a)
  <2>1. tables[v].nodes[a] \in Stats
    BY DEF TablesInv, Sound, IsTable, IsMap
  <2>2. labels' = labels
    BY DEF Elapse
  <2> QED BY <1>1, <1>2, <2>1, <2>2 DEF NodePayload, Label
<1>4. ASSUME NEW k \in DOMAIN tables[v].conv
      PROVE  EdgePayload(v, k)' = EdgePayload(v, k)
  <2>1. tables[v].conv[k] \in Stats
    BY DEF TablesInv, Sound, IsTable, IsMap
  <2> QED BY <1>1, <1>2, <2>1 DEF EdgePayload
<1> QED
  BY <1>1, <1>3, <1>4 DEF Touches

(* Tables just cleared: the empty graph agrees with them. *)
LEMMA BlankAgrees ==
    ASSUME NEW v \in Views, tables'[v] = EmptyTable
    PROVE  AgreesThen(EmptyGraph, v)
BY DEF AgreesThen, EmptyTable, EmptyMap, EmptyGraph

(* The whole picture agrees with the tables. *)
LEMMA PictureAgrees ==
    ASSUME TablesInv, NEW v \in Views
    PROVE  Agrees(Picture(v), v) /\ IsGraph(Picture(v))
<1>1. Agrees(Picture(v), v)
  BY DEF TablesInv, Agrees, Picture, SnapshotNodes, SnapshotEdges, Sound, EndsFresher
<1> QED
  BY <1>1 DEF IsGraph, Agrees, Picture, SnapshotNodes, SnapshotEdges

LEMMA PictureAgreesThen ==
    ASSUME TablesInv', NEW v \in Views, NEW g, g = Picture(v)'
    PROVE  AgreesThen(g, v)
<1>1. Sound(tables'[v], v)
  BY DEF TablesInv
<1> QED
  BY <1>1 DEF AgreesThen, Picture, SnapshotNodes, SnapshotEdges, Sound, EndsFresher
-----------------------------------------------------------------------------
(* The four groups of a tick, one after the other.  The upserts complete   *)
(* the graph: unmarked entries were right, marked ones are now.            *)
LEMMA UpsertsComplete ==
    ASSUME NEW v \in Views, Sound(tables[v], v), NEW g, Agrees(g, v)
    PROVE  UpsertEdges(UpsertNodes(g, DrainedNodes(v)), DrainedEdges(v)) = Picture(v)
<1> DEFINE t == tables[v]
           g1 == UpsertNodes(g, DrainedNodes(v))
           ends == UNION DOMAIN DrainedEdges(v)
           P == [a \in ends |-> Placeholder(a)]
<1>1. Merge(g.nodes, DrainedNodes(v)) = SnapshotNodes(v)
  BY DEF Merge, DrainedNodes, SnapshotNodes, Agrees, Sound, Marks
<1>2. Merge(g.edges, DrainedEdges(v)) = SnapshotEdges(v)
  BY DEF Merge, DrainedEdges, SnapshotEdges, Agrees, Sound, Marks
<1>3. ends \subseteq DOMAIN SnapshotNodes(v)
  BY DEF DrainedEdges, SnapshotNodes, Sound, EndsFresher
<1>4. Merge(P, SnapshotNodes(v)) = SnapshotNodes(v)
  BY <1>3 DEF Merge, SnapshotNodes
<1>5. g1.nodes = SnapshotNodes(v) /\ g1.edges = g.edges
  BY <1>1 DEF UpsertNodes
<1> HIDE DEF g1, P
<1>6. UpsertEdges(g1, DrainedEdges(v)) =
         [nodes |-> Merge(P, g1.nodes), edges |-> Merge(g1.edges, DrainedEdges(v))]
  BY DEF UpsertEdges, P
<1> QED
  BY <1>2, <1>4, <1>5, <1>6 DEF Picture, g1

(* The removals take away exactly what the sweep took from the tables: an  *)
(* edge that stays has no stale end, so dropNode takes no edge by itself.  *)
LEMMA RemovalsExact ==
    ASSUME TablesInv, NEW v \in Views, NEW max_age \in Fades, DrainAndSweep(max_age)
    PROVE  RemoveNodes(RemoveEdges(Picture(v), Stale(tables[v].conv, max_age)),
                       Stale(tables[v].nodes, max_age)) = Picture(v)'
<1> DEFINE t == tables[v]
           sc == Stale(t.conv, max_age)
           sn == Stale(t.nodes, max_age)
           g3 == RemoveEdges(Picture(v), sc)
<1>1. Sound(t, v) /\ max_age \in Int
  BY TablesAssumption DEF TablesInv
<1>2. /\ tables'[v].nodes = Retain(t.nodes, sn)
      /\ tables'[v].conv = Retain(t.conv, sc)
      /\ labels' = labels
  BY DEF DrainAndSweep, Swept, Drained
<1>3. /\ g3.nodes = SnapshotNodes(v)
      /\ g3.edges = [k \in DOMAIN t.conv \ sc |-> EdgePayload(v, k)]
  BY DEF RemoveEdges, Picture, SnapshotEdges, Restrict
<1>4. ASSUME NEW k \in DOMAIN t.conv \ sc
      PROVE  k \cap sn = {}
  <2> SUFFICES ASSUME NEW a \in k, a \in sn PROVE FALSE
    OBVIOUS
  <2>1. a \in DOMAIN t.nodes /\ t.nodes[a].idle <= t.conv[k].idle
    BY <1>1 DEF Sound, EndsFresher
  <2>2. t.nodes[a].idle \in Int /\ t.conv[k].idle \in Int
    BY <1>1, <2>1, TablesAssumption DEF Sound, IsTable, IsMap, Stats
  <2> QED BY <1>1, <2>1, <2>2 DEF Stale
<1> HIDE DEF g3, sn, sc
<1>5. DOMAIN g3.edges = DOMAIN t.conv \ sc
  BY <1>3
<1>6. RemoveNodes(g3, sn) =
        [nodes |-> [a \in DOMAIN t.nodes \ sn |-> NodePayload(v, a)],
         edges |-> [k \in DOMAIN t.conv \ sc |-> EdgePayload(v, k)]]
  <2>1. {k \in DOMAIN g3.edges : k \cap sn = {}} = DOMAIN t.conv \ sc
    BY <1>4, <1>5
  <2>2. Restrict(g3.edges, {k \in DOMAIN g3.edges : k \cap sn = {}})
          = [k \in DOMAIN t.conv \ sc |-> EdgePayload(v, k)]
    BY <1>3, <2>1 DEF Restrict
  <2>3. Restrict(g3.nodes, DOMAIN g3.nodes \ sn)
          = [a \in DOMAIN t.nodes \ sn |-> NodePayload(v, a)]
    BY <1>3 DEF Restrict, SnapshotNodes
  <2> QED BY <2>2, <2>3 DEF RemoveNodes
<1>7. SnapshotNodes(v)' = [a \in DOMAIN t.nodes \ sn |-> NodePayload(v, a)]
  BY <1>2 DEF SnapshotNodes, NodePayload, Label, Retain, Restrict
<1>8. SnapshotEdges(v)' = [k \in DOMAIN t.conv \ sc |-> EdgePayload(v, k)]
  BY <1>2 DEF SnapshotEdges, EdgePayload, Retain, Restrict
<1>9. Picture(v)' = [nodes |-> SnapshotNodes(v)', edges |-> SnapshotEdges(v)']
  BY DEF Picture
<1> QED
  BY <1>6, <1>7, <1>8, <1>9 DEF g3, sn, sc

(* A tick's messages turn a graph that agrees into the picture of the      *)
(* tables that are left.                                                   *)
LEMMA TickPicture ==
    ASSUME TablesInv, NEW max_age \in Fades, DrainAndSweep(max_age),
           NEW v \in Views, NEW g, Agrees(g, v)
    PROVE  ApplyDeltas(g, TickDeltas(v, max_age)) = Picture(v)'
<1> DEFINE d == TickDeltas(v, max_age)
<1>1. Sound(tables[v], v)
  BY DEF TablesInv
<1>2. /\ d.upsert_node = DrainedNodes(v) /\ d.upsert_edge = DrainedEdges(v)
      /\ DOMAIN d.remove_edge = Stale(tables[v].conv, max_age)
      /\ DOMAIN d.remove_node = Stale(tables[v].nodes, max_age)
  BY DEF TickDeltas, Removed
<1> HIDE DEF d
<1>3. ApplyDeltas(g, d)
        = RemoveNodes(RemoveEdges(Picture(v), Stale(tables[v].conv, max_age)),
                      Stale(tables[v].nodes, max_age))
  BY <1>1, <1>2, UpsertsComplete DEF ApplyDeltas
<1> QED
  BY <1>3, RemovalsExact DEF d
-----------------------------------------------------------------------------
(* The mirror: a viewer that misses nothing.                               *)

MirrorInv ==
    /\ TablesInv
    /\ graph = [v \in Views |-> graph[v]]
    /\ \A v \in Views : IsGraph(graph[v])
    /\ MirrorAgrees

(* A step of MNext is a step of Next or leaves the tables alone. *)
LEMMA MStepIsStep == [MNext]_mvars => [Next]_tvars
BY DEF MNext, MIngest, MSetL3Label, MTick, MReset, MElapse, mvars, Next, tvars

LEMMA SameAgrees ==
    ASSUME MirrorInv, graph' = graph, NEW v \in Views, \E N, E : Touches(v, N, E)
    PROVE  AgreesThen(graph'[v], v) /\ IsGraph(graph'[v])
<1>1. PICK N, E : Touches(v, N, E)
  OBVIOUS
<1>2. Agrees(graph[v], v) /\ IsGraph(graph[v]) /\ Like(graph[v], graph[v], N, E)
  BY DEF MirrorInv, MirrorAgrees, Like
<1> QED
  BY <1>1, <1>2, TouchedAgrees

LEMMA MTickPicture ==
    ASSUME MirrorInv, NEW max_age \in Fades, MTick(max_age), NEW v \in Views
    PROVE  graph'[v] = Picture(v)'
<1>1. Agrees(graph[v], v) /\ TablesInv /\ DrainAndSweep(max_age)
  BY DEF MirrorInv, MirrorAgrees, MTick
<1>2. graph'[v] = ApplyDeltas(graph[v], TickDeltas(v, max_age))
  BY DEF MTick, ApplyTick
<1> QED
  BY <1>1, <1>2, TickPicture

(* Every step of the system keeps the agreement, one case per operation.   *)
LEMMA MirrorInvStep == MirrorInv /\ [MNext]_mvars => MirrorInv'
<1> SUFFICES ASSUME MirrorInv, [MNext]_mvars PROVE MirrorInv'
  OBVIOUS
<1>1. TablesInv'
  BY MStepIsStep, TablesInvStep DEF MirrorInv
<1> SUFFICES /\ graph' = [v \in Views |-> graph'[v]]
             /\ \A v \in Views : AgreesThen(graph'[v], v) /\ IsGraph(graph'[v])
  BY <1>1 DEF MirrorInv, MirrorAgrees, Agrees, AgreesThen, IsGraph
<1>2. ASSUME graph' = graph, \A v \in Views : \E N, E : Touches(v, N, E)
      PROVE  /\ graph' = [v \in Views |-> graph'[v]]
             /\ \A v \in Views : AgreesThen(graph'[v], v) /\ IsGraph(graph'[v])
  BY <1>2, SameAgrees DEF MirrorInv
<1>3. ASSUME NEW p \in Packets, MIngest(p)
      PROVE  graph' = graph /\ \A v \in Views : \E N, E : Touches(v, N, E)
  BY <1>3, IngestTouches DEF MIngest, MirrorInv
<1>4. ASSUME NEW ip \in Ips, NEW name \in Names, MSetL3Label(ip, name)
      PROVE  graph' = graph /\ \A v \in Views : \E N, E : Touches(v, N, E)
  BY <1>4, NameTouches DEF MSetL3Label, MirrorInv
<1>5. ASSUME NEW max_age \in Fades, MTick(max_age)
      PROVE  /\ graph' = [v \in Views |-> graph'[v]]
             /\ \A v \in Views : AgreesThen(graph'[v], v) /\ IsGraph(graph'[v])
  <2>1. ASSUME NEW v \in Views PROVE IsGraph(graph'[v])
    BY <1>5, DeltasGraph DEF MTick, ApplyTick, MirrorInv
  <2>2. ASSUME NEW v \in Views PROVE AgreesThen(graph'[v], v)
    BY <1>1, <1>5, MTickPicture, PictureAgreesThen
  <2> QED BY <1>5, <2>1, <2>2 DEF MTick
<1>6. CASE MReset
  BY <1>6, BlankAgrees, BlankIsGraphs DEF MReset, Reset
<1>7. CASE MElapse
  BY <1>2, <1>7, ElapseTouches DEF MElapse, MirrorInv
<1>8. CASE UNCHANGED mvars
  BY <1>2, <1>8, NothingTouched DEF mvars
<1> QED
  BY <1>2, <1>3, <1>4, <1>5, <1>6, <1>7, <1>8 DEF MNext

(* An empty graph agrees with empty tables.                                *)
LEMMA MirrorInvInit == MInit => MirrorInv
<1>1. MInit => TablesInv
  BY TablesInvInit DEF MInit
<1> QED
  BY <1>1, BlankIsGraphs DEF MInit, Init, MirrorInv, MirrorAgrees, Agrees,
              EmptyTable, EmptyMap, EmptyGraph

(* A viewer that misses no delta agrees with the tables at every moment.   *)
THEOREM MirrorAlwaysAgrees == MSpec => []MirrorAgrees
<1>1. MirrorInv => MirrorAgrees
  BY DEF MirrorInv
<1> QED
  BY <1>1, MirrorInvInit, MirrorInvStep, PTL DEF MSpec

(* After a tick it is the snapshot a client that connects would be sent.   *)
THEOREM TickAlwaysShowsSnapshot == MSpec => TickShowsSnapshot
<1>1. MirrorInv /\ [MNext]_mvars =>
        [\A max_age \in Fades : MTick(max_age) =>
           \A v \in Views : graph'[v] = [nodes |-> SnapshotNodes(v)',
                                         edges |-> SnapshotEdges(v)']]_mvars
  BY MTickPicture DEF Picture
<1> QED
  BY <1>1, MirrorInvInit, MirrorInvStep, PTL DEF MSpec, TickShowsSnapshot
-----------------------------------------------------------------------------
(* The broadcast.                                                          *)

(* What a client shows, or is about to: one that has not read the tables   *)
(* yet will be sent what they hold now, up to what is marked.              *)
Screen(c) == IF conn[c] = "subscribed" THEN Snapshot
             ELSE IF conn[c] = "snapshot" THEN snap[c] ELSE graphs[c]

(* The graph of view v once what is in the ring and the rest of the tick   *)
(* are read.                                                               *)
Ahead(c, v) == ApplyDeltas(After(Screen(c), inbox[c])[v], pending[v])

ResetAhead(c) == \E i \in 1 .. Len(inbox[c]) : inbox[c][i] = ResetMsg

(* A client of which agreement is claimed: a reset still to come will make *)
(* up for what was lost.                                                   *)
Follows(c) == Subscribed(c) /\ (Whole(c) \/ ResetAhead(c)) /\ Uncrossed(c)

Queues ==
    /\ DOMAIN inbox = Clients
    /\ \E S : \A c \in Clients : inbox[c] \in Seq(S)
    /\ \A c \in Clients : Len(inbox[c]) <= Capacity

ClientOrderly(c) ==
    /\ conn[c] = "off" => inbox[c] = <<>> /\ lost[c] = "nothing" /\ c \notin raced
    /\ conn[c] \in {"subscribed", "snapshot"} => graphs[c] = Blank
    /\ conn[c] = "snapshot" => IsGraphs(snap[c])
    /\ conn[c] = "live" => IsGraphs(graphs[c])

Clocked ==
    /\ DOMAIN pending = Views /\ \A v \in Views : DOMAIN pending[v] = Types
    /\ resetting \subseteq Callers
    /\ early \subseteq resetting
    /\ overtaken \subseteq early

Connected ==
    /\ conn \in [Clients -> {"off", "subscribed", "snapshot", "live"}]
    /\ DOMAIN graphs = Clients /\ DOMAIN snap = Clients /\ DOMAIN lost = Clients
    /\ \A c \in Clients : ClientOrderly(c)

(* What is left of the batch d says nothing of view v that the tables do   *)
(* not, except of entries it removes.                                      *)
Settled(d, v) ==
    LET t == tables[v] IN
    /\ \A a \in DOMAIN d.upsert_node :
          \/ a \in DOMAIN d.remove_node
          \/ a \in DOMAIN t.nodes /\ d.upsert_node[a] = NodePayload(v, a)
    /\ \A k \in DOMAIN d.upsert_edge :
          \/ k \in DOMAIN d.remove_edge
          \/ k \in DOMAIN t.conv /\ d.upsert_edge[k] = EdgePayload(v, k)
    /\ \A k \in DOMAIN d.upsert_edge : \A a \in k :
          a \in DOMAIN d.remove_node \/ a \in DOMAIN t.nodes
    /\ DOMAIN d.remove_edge \cap DOMAIN t.conv = {}
    /\ DOMAIN d.remove_node \cap DOMAIN t.nodes = {}

(* No table has been cleared since the batch was drained. *)
Fresh == ~Idle => ~late /\ resetting \subseteq early

BatchSettled == Fresh => \A v \in Views : Settled(pending[v], v)

(* A reset still to be sent will leave every browser in agreement: the     *)
(* tables were cleared before it, and what came since is marked, or in the *)
(* batch that will follow.                                                 *)
ResetsWait ==
    \A r \in resetting \ overtaken : \A v \in Views :
        /\ r \notin early => Agrees(EmptyGraph, v)
        /\ r \in early /\ Fresh => Agrees(ApplyDeltas(EmptyGraph, pending[v]), v)

Following ==
    \A c \in Clients : Follows(c) => \A v \in Views : Agrees(Ahead(c, v), v)

BInv ==
    /\ TablesInv
    /\ Clocked
    /\ Queues
    /\ Connected
    /\ BatchSettled
    /\ ResetsWait
    /\ Following
-----------------------------------------------------------------------------
(* Small facts about batches, snapshots and the ring. *)

LEMMA NoDeltasParts ==
    ASSUME Idle, NEW v \in Views
    PROVE  /\ pending[v] = NoDeltas[v]
           /\ DOMAIN NoDeltas[v].upsert_node = {} /\ DOMAIN NoDeltas[v].upsert_edge = {}
           /\ DOMAIN NoDeltas[v].remove_edge = {} /\ DOMAIN NoDeltas[v].remove_node = {}
BY DEF Idle, NoDeltas, Types, Place, EmptyMap

(* Nothing to apply, nothing changed. *)
LEMMA IdleChangesNothing ==
    ASSUME Idle, NEW v \in Views, NEW g, IsGraph(g)
    PROVE  ApplyDeltas(g, pending[v]) = g
<1> DEFINE d == pending[v]
<1>1. /\ DOMAIN d.upsert_node = {} /\ DOMAIN d.upsert_edge = {}
      /\ DOMAIN d.remove_edge = {} /\ DOMAIN d.remove_node = {}
  BY NoDeltasParts
<1> HIDE DEF d
<1>2. NodesAfter(g, d) = DOMAIN g.nodes /\ EdgesAfter(g, d) = DOMAIN g.edges
  BY <1>1 DEF NodesAfter, EdgesAfter
<1>3. \A a \in DOMAIN g.nodes : NodeAfter(g, d, a) = g.nodes[a]
  BY <1>1 DEF NodeAfter
<1>4. \A k \in DOMAIN g.edges : EdgeAfter(g, d, k) = g.edges[k]
  BY <1>1 DEF EdgeAfter
<1>5. Like(ApplyDeltas(g, d), g, {}, {})
  BY <1>2, <1>3, <1>4, DeltasParts DEF Like
<1>6. IsGraph(ApplyDeltas(g, d))
  BY DeltasGraph
<1> QED
  BY <1>5, <1>6, SameGraph DEF d

(* The same removals make the same of graphs that differ in nothing else.  *)
LEMMA RemovedAlike ==
    ASSUME NEW g, IsGraph(g), NEW h, IsGraph(h), NEW d, NEW N, NEW E, Like(g, h, N, E),
           N \subseteq DOMAIN d.remove_node, E \subseteq DOMAIN d.remove_edge
    PROVE  ApplyDeltas(g, d) = ApplyDeltas(h, d)
<1>1. N \ DOMAIN d.remove_node = {} /\ E \ DOMAIN d.remove_edge = {}
  OBVIOUS
<1>2. Like(ApplyDeltas(g, d), ApplyDeltas(h, d),
           N \ DOMAIN d.remove_node, E \ DOMAIN d.remove_edge)
  BY DeltasLike
<1>3. Like(ApplyDeltas(g, d), ApplyDeltas(h, d), {}, {})
  BY <1>1, <1>2
<1>4. IsGraph(ApplyDeltas(g, d)) /\ IsGraph(ApplyDeltas(h, d))
  BY DeltasGraph
<1> QED
  BY <1>3, <1>4, SameGraph

(* A batch that is settled adds nothing to the picture of the tables. *)
LEMMA SettledPicture ==
    ASSUME TablesInv, NEW v \in Views, NEW d, Settled(d, v)
    PROVE  ApplyDeltas(Picture(v), d) = Picture(v)
<1> DEFINE t == tables[v]
           g == Picture(v)
<1>1. /\ DOMAIN g.nodes = DOMAIN t.nodes /\ DOMAIN g.edges = DOMAIN t.conv
      /\ \A a \in DOMAIN t.nodes : g.nodes[a] = NodePayload(v, a)
      /\ \A k \in DOMAIN t.conv : g.edges[k] = EdgePayload(v, k)
  BY DEF Picture, SnapshotNodes, SnapshotEdges
<1>2. \A k \in DOMAIN t.conv : k \subseteq DOMAIN t.nodes
  BY DEF TablesInv, Sound, EndsFresher
<1>3. IsGraph(g)
  BY PictureAgrees
<1> HIDE DEF g
<1>4. NodesAfter(g, d) = DOMAIN t.nodes
  BY <1>1 DEF Settled, NodesAfter
<1>5. EdgesAfter(g, d) = DOMAIN t.conv
  BY <1>1, <1>2 DEF Settled, EdgesAfter
<1>6. \A a \in DOMAIN t.nodes : NodeAfter(g, d, a) = g.nodes[a]
  BY <1>1 DEF Settled, NodeAfter
<1>7. \A k \in DOMAIN t.conv : EdgeAfter(g, d, k) = g.edges[k]
  BY <1>1 DEF Settled, EdgeAfter
<1>8. Like(ApplyDeltas(g, d), g, {}, {})
  BY <1>1, <1>4, <1>5, <1>6, <1>7, DeltasParts DEF Like
<1>9. IsGraph(ApplyDeltas(g, d))
  BY <1>3, DeltasGraph
<1> QED
  BY <1>3, <1>8, <1>9, SameGraph DEF g

(* What a batch is when it is drained, and after. *)
LEMMA DrainedSettled ==
    ASSUME TablesInv, NEW max_age \in Fades, DrainAndSweep(max_age), NEW v \in Views,
           pending'[v] = TickDeltas(v, max_age)
    PROVE  Settled(pending[v], v)'
<1> DEFINE t == tables[v]
           u == tables'[v]
           d == pending'[v]
           sn == Stale(t.nodes, max_age)
           sc == Stale(t.conv, max_age)
<1>1. /\ d.upsert_node = DrainedNodes(v) /\ d.upsert_edge = DrainedEdges(v)
      /\ DOMAIN d.remove_edge = sc /\ DOMAIN d.remove_node = sn
  BY DEF TickDeltas, Removed
<1>2. /\ DOMAIN u.nodes = DOMAIN t.nodes \ sn
      /\ DOMAIN u.conv = DOMAIN t.conv \ sc
      /\ \A a \in DOMAIN u.nodes : u.nodes[a] = t.nodes[a]
      /\ \A k \in DOMAIN u.conv : u.conv[k] = t.conv[k]
      /\ labels' = labels
  BY DEF DrainAndSweep, Swept, Drained, Retain, Restrict
<1>3. \A a \in DOMAIN u.nodes : NodePayload(v, a)' = NodePayload(v, a)
  BY <1>2 DEF NodePayload, Label
<1>4. \A k \in DOMAIN u.conv : EdgePayload(v, k)' = EdgePayload(v, k)
  BY <1>2 DEF EdgePayload
<1>5. \A k \in DOMAIN t.conv : k \subseteq DOMAIN t.nodes
  BY DEF TablesInv, Sound, EndsFresher
<1>6. /\ DOMAIN d.upsert_node \subseteq DOMAIN t.nodes
      /\ \A a \in DOMAIN d.upsert_node : d.upsert_node[a] = NodePayload(v, a)
      /\ DOMAIN d.upsert_edge \subseteq DOMAIN t.conv
      /\ \A k \in DOMAIN d.upsert_edge : d.upsert_edge[k] = EdgePayload(v, k)
  BY <1>1 DEF DrainedNodes, DrainedEdges
<1> HIDE DEF d, sn, sc
<1>7. ASSUME NEW a \in DOMAIN d.upsert_node, a \notin DOMAIN d.remove_node
      PROVE  a \in DOMAIN u.nodes /\ d.upsert_node[a] = NodePayload(v, a)'
  <2>1. a \in DOMAIN u.nodes /\ d.upsert_node[a] = NodePayload(v, a)
    BY <1>1, <1>2, <1>6, <1>7
  <2> QED BY <1>3, <2>1
<1>8. ASSUME NEW k \in DOMAIN d.upsert_edge, k \notin DOMAIN d.remove_edge
      PROVE  k \in DOMAIN u.conv /\ d.upsert_edge[k] = EdgePayload(v, k)'
  <2>1. k \in DOMAIN u.conv /\ d.upsert_edge[k] = EdgePayload(v, k)
    BY <1>1, <1>2, <1>6, <1>8
  <2> QED BY <1>4, <2>1
<1>9. \A k \in DOMAIN d.upsert_edge : \A a \in k :
         a \in DOMAIN d.remove_node \/ a \in DOMAIN u.nodes
  BY <1>1, <1>2, <1>5, <1>6
<1>10. DOMAIN d.remove_edge \cap DOMAIN u.conv = {} /\ DOMAIN d.remove_node \cap DOMAIN u.nodes = {}
  BY <1>1, <1>2
<1> QED
  BY <1>7, <1>8, <1>9, <1>10 DEF Settled, d

(* A client that reads the tables shows what they hold. *)
LEMMA SnapshotShown ==
    ASSUME NEW s, IsGraphs(s)
    PROVE  ApplySnapshot(Blank, s) = s
<1>1. ASSUME NEW v \in Views
      PROVE  UpsertEdges(UpsertNodes(Blank[v], s[v].nodes), s[v].edges) = s[v]
  <2> DEFINE g == s[v]
             P == [a \in UNION DOMAIN g.edges |-> Placeholder(a)]
  <2>1. Blank[v].nodes = EmptyMap /\ Blank[v].edges = EmptyMap
    BY DEF Blank, EmptyGraph, EmptyMap
  <2>2. IsGraph(g)
    BY DEF IsGraphs
  <2>3. /\ UpsertNodes(Blank[v], g.nodes).nodes = Merge(EmptyMap, g.nodes)
        /\ UpsertNodes(Blank[v], g.nodes).edges = EmptyMap
    BY <2>1 DEF UpsertNodes, Blank, EmptyGraph
  <2>4. UpsertEdges(UpsertNodes(Blank[v], g.nodes), g.edges)
          = [nodes |-> Merge(P, Merge(EmptyMap, g.nodes)), edges |-> Merge(EmptyMap, g.edges)]
    BY <2>3 DEF UpsertEdges
  <2> HIDE DEF g
  <2>5. /\ Merge(EmptyMap, g.nodes) = [a \in DOMAIN g.nodes |-> g.nodes[a]]
        /\ Merge(EmptyMap, g.edges) = [k \in DOMAIN g.edges |-> g.edges[k]]
    BY DEF Merge, EmptyMap
  <2>6. Merge(P, [a \in DOMAIN g.nodes |-> g.nodes[a]]) = [a \in DOMAIN g.nodes |-> g.nodes[a]]
    BY <2>2 DEF Merge, IsGraph
  <2> QED BY <2>2, <2>4, <2>5, <2>6 DEF IsGraph, g
<1> QED
  BY <1>1 DEF ApplySnapshot, IsGraphs

LEMMA SnapshotGraphs ==
    TablesInv => IsGraphs(Snapshot) /\ \A v \in Views : Snapshot[v] = Picture(v)
<1> SUFFICES ASSUME TablesInv
             PROVE  IsGraphs(Snapshot) /\ \A v \in Views : Snapshot[v] = Picture(v)
  OBVIOUS
<1>1. \A v \in Views : Snapshot[v] = Picture(v)
  BY DEF Snapshot, Picture
<1>2. Snapshot = [v \in Views |-> Snapshot[v]]
  BY DEF Snapshot
<1> QED
  BY <1>1, <1>2, PictureAgrees DEF IsGraphs

LEMMA SnapshotGraphsThen ==
    ASSUME TablesInv'
    PROVE  (IsGraphs(Snapshot) /\ \A v \in Views : Snapshot[v] = Picture(v))'
<1>1. TablesInv'
  OBVIOUS
<1> QED
  BY <1>1, SnapshotGraphs, PTL

LEMMA ScreenGraphs ==
    ASSUME TablesInv, Connected, NEW c \in Clients, Subscribed(c)
    PROVE  IsGraphs(Screen(c))
BY SnapshotGraphs DEF Connected, ClientOrderly, Subscribed, Screen

(* deltas_tx.send, seen by one client. *)
LEMMA SendOne ==
    ASSUME Queues, NEW m, Send(m), NEW c \in Clients
    PROVE  /\ ~Subscribed(c) => inbox'[c] = inbox[c] /\ lost'[c] = lost[c]
           /\ Subscribed(c) /\ ~Overrun(c) =>
                inbox'[c] = Append(inbox[c], m) /\ lost'[c] = lost[c]
           /\ Overrun(c) => /\ inbox'[c] = Append(Tail(inbox[c]), m)
                            /\ lost'[c] # "nothing"
                            /\ inbox[c] # <<>>
<1>1. inbox'[c] = IF Overrun(c) THEN Append(Tail(inbox[c]), m)
                  ELSE IF Subscribed(c) THEN Append(inbox[c], m) ELSE inbox[c]
  BY DEF Send
<1>2. lost'[c] = IF ~Overrun(c) \/ lost[c] = "removal" THEN lost[c]
                 ELSE IF Head(inbox[c]).type \in {"remove_node", "remove_edge"}
                      THEN "removal" ELSE "other"
  BY DEF Send
<1>3. Overrun(c) => Subscribed(c) /\ inbox[c] # <<>>
  BY BroadcastAssumption DEF Overrun
<1> QED
  BY <1>1, <1>2, <1>3

LEMMA SendQueues ==
    ASSUME Queues, NEW m, Send(m)
    PROVE  Queues'
<1>1. PICK S : \A c \in Clients : inbox[c] \in Seq(S)
  BY DEF Queues
<1> DEFINE R == S \cup {m}
<1>2. ASSUME NEW c \in Clients
      PROVE  inbox'[c] \in Seq(R) /\ Len(inbox'[c]) <= Capacity
  <2>1. inbox[c] \in Seq(R) /\ m \in R /\ Len(inbox[c]) <= Capacity
    <3>1. Seq(S) \subseteq Seq(R)
      OBVIOUS
    <3> QED BY <1>1, <3>1 DEF Queues
  <2>2. CASE ~Subscribed(c)
    BY <2>1, <2>2, SendOne DEF Overrun
  <2>3. CASE Subscribed(c) /\ ~Overrun(c)
    <3>1. inbox'[c] = Append(inbox[c], m)
      BY <2>3, SendOne
    <3>2. Len(inbox[c]) # Capacity
      BY <2>3 DEF Overrun
    <3> QED BY <2>1, <3>1, <3>2, BroadcastAssumption
  <2>4. CASE Overrun(c)
    <3>1. inbox'[c] = Append(Tail(inbox[c]), m) /\ inbox[c] # <<>>
      BY <2>4, SendOne
    <3> QED BY <2>1, <3>1, BroadcastAssumption
  <2> QED BY <2>2, <2>3, <2>4
<1>3. DOMAIN inbox' = Clients
  BY DEF Send
<1> QED
  BY <1>2, <1>3 DEF Queues
-----------------------------------------------------------------------------
(* The steps, by what they leave alone.                                    *)

LEMMA BStepIsStep == [BNext]_vars => [Next]_tvars
BY DEF BNext, BIngest, BSetL3Label, TickLocked, TickSend, ResetLocked, ResetSend, BElapse,
       Subscribe, TakeSnapshot, SendSnapshot, Receive, SkipMissed, Disconnect,
       vars, bvars, hvars, Next, tvars

(* A frame, a name, time passing, or nothing at all. *)
TablesMove ==
    /\ UNCHANGED <<pending, resetting, clientvars, hvars>>
    /\ \A v \in Views : \E N, E : Touches(v, N, E)
    /\ Idle \/ \A v \in Views : Touches(v, {}, {})

ClientMove(c) ==
    \/ Subscribe(c) \/ TakeSnapshot(c) \/ SendSnapshot(c)
    \/ Receive(c) \/ SkipMissed(c) \/ Disconnect(c)

LEMMA Moves ==
    ASSUME TablesInv, [BNext]_vars
    PROVE  \/ TablesMove
           \/ \E max_age \in Fades : TickLocked(max_age)
           \/ \E v \in Views, type \in Types :
                 \E id \in DOMAIN pending[v][type] : TickSend(v, type, id)
           \/ \E r \in Callers : ResetLocked(r)
           \/ \E r \in Callers : ResetSend(r)
           \/ \E c \in Clients : ClientMove(c)
<1>1. ASSUME NEW p \in Packets, BIngest(p) PROVE TablesMove
  BY <1>1, IngestTouches DEF BIngest, TablesMove
<1>2. ASSUME NEW ip \in Ips, NEW name \in Names, BSetL3Label(ip, name) PROVE TablesMove
  BY <1>2, NameTouches DEF BSetL3Label, TablesMove
<1>3. ASSUME BElapse PROVE TablesMove
  BY <1>3, ElapseTouches DEF BElapse, TablesMove
<1>4. ASSUME UNCHANGED vars PROVE TablesMove
  <2>1. \A v \in Views : Touches(v, {}, {})
    BY <1>4, NothingTouched DEF vars, bvars
  <2> QED BY <1>4, <2>1 DEF TablesMove, vars, bvars, hvars, clientvars
<1> QED
  BY <1>1, <1>2, <1>3, <1>4 DEF BNext, ClientMove

LEMMA ClientMoveKeeps ==
    ASSUME NEW c \in Clients, ClientMove(c)
    PROVE  /\ tables' = tables /\ labels' = labels /\ pending' = pending
           /\ resetting' = resetting /\ early' = early /\ overtaken' = overtaken
           /\ late' = late
           /\ \A d \in Clients \ {c} :
                 /\ conn'[d] = conn[d] /\ inbox'[d] = inbox[d] /\ snap'[d] = snap[d]
                 /\ graphs'[d] = graphs[d] /\ lost'[d] = lost[d]
                 /\ d \in raced' <=> d \in raced
<1> USE DEF hvars
<1>1. CASE Subscribe(c)
  BY <1>1 DEF Subscribe
<1>2. CASE TakeSnapshot(c)
  BY <1>2 DEF TakeSnapshot
<1>3. CASE SendSnapshot(c)
  BY <1>3 DEF SendSnapshot
<1>4. CASE Receive(c)
  BY <1>4 DEF Receive
<1>5. CASE SkipMissed(c)
  BY <1>5 DEF SkipMissed
<1>6. CASE Disconnect(c)
  BY <1>6 DEF Disconnect
<1> QED
  BY <1>1, <1>2, <1>3, <1>4, <1>5, <1>6 DEF ClientMove

LEMMA ClockedStep ==
    ASSUME TablesInv, Clocked, [BNext]_vars
    PROVE  Clocked'
<1>1. CASE TablesMove
  BY <1>1 DEF TablesMove, Clocked, hvars
<1>2. ASSUME NEW max_age \in Fades, TickLocked(max_age) PROVE Clocked'
  BY <1>2 DEF TickLocked, Clocked, TickDeltas, Types, Place
<1>3. ASSUME NEW v \in Views, NEW type \in Types,
             NEW id \in DOMAIN pending[v][type], TickSend(v, type, id)
      PROVE  Clocked'
  <2>1. DOMAIN pending' = Views /\ \A w \in Views : DOMAIN pending'[w] = Types
    BY <1>3 DEF TickSend, Clocked
  <2> QED BY <1>3, <2>1 DEF TickSend, Clocked
<1>4. ASSUME NEW r \in Callers, ResetLocked(r) PROVE Clocked'
  BY <1>4 DEF ResetLocked, Clocked, hvars
<1>5. ASSUME NEW r \in Callers, ResetSend(r) PROVE Clocked'
  BY <1>5 DEF ResetSend, Clocked
<1>6. ASSUME NEW c \in Clients, ClientMove(c) PROVE Clocked'
  BY <1>6, ClientMoveKeeps DEF Clocked
<1> QED
  BY <1>1, <1>2, <1>3, <1>4, <1>5, <1>6, Moves

LEMMA QueuesStep ==
    ASSUME TablesInv, Queues, [BNext]_vars
    PROVE  Queues'
<1>1. CASE TablesMove
  BY <1>1 DEF TablesMove, Queues, clientvars
<1>2. ASSUME NEW max_age \in Fades, TickLocked(max_age) PROVE Queues'
  BY <1>2 DEF TickLocked, Queues, clientvars
<1>3. ASSUME NEW v \in Views, NEW type \in Types,
             NEW id \in DOMAIN pending[v][type], TickSend(v, type, id)
      PROVE  Queues'
  BY <1>3, SendQueues DEF TickSend
<1>4. ASSUME NEW r \in Callers, ResetLocked(r) PROVE Queues'
  BY <1>4 DEF ResetLocked, Queues, clientvars
<1>5. ASSUME NEW r \in Callers, ResetSend(r) PROVE Queues'
  BY <1>5, SendQueues DEF ResetSend
<1>6. ASSUME NEW c \in Clients, ClientMove(c) PROVE Queues'
  <2>1. CASE Subscribe(c) \/ TakeSnapshot(c) \/ SendSnapshot(c) \/ SkipMissed(c)
    BY <2>1 DEF Subscribe, TakeSnapshot, SendSnapshot, SkipMissed, Queues
  <2>2. CASE Receive(c) \/ Disconnect(c)
    <3>1. PICK S : \A d \in Clients : inbox[d] \in Seq(S)
      BY DEF Queues
    <3>2. inbox' = [inbox EXCEPT ![c] = inbox'[c]]
      BY <2>2 DEF Receive, Disconnect, Queues
    <3>3. inbox'[c] \in Seq(S) /\ Len(inbox'[c]) <= Capacity
      <4>1. CASE Receive(c)
        BY <3>1, <4>1, BroadcastAssumption DEF Receive, Queues
      <4>2. CASE Disconnect(c)
        BY <4>2, BroadcastAssumption DEF Disconnect, Queues
      <4> QED BY <2>2, <4>1, <4>2
    <3>4. \A d \in Clients : inbox'[d] \in Seq(S) /\ Len(inbox'[d]) <= Capacity
      BY <3>1, <3>2, <3>3 DEF Queues
    <3> QED BY <3>2, <3>4 DEF Queues
  <2> QED BY <1>6, <2>1, <2>2 DEF ClientMove
<1> QED
  BY <1>1, <1>2, <1>3, <1>4, <1>5, <1>6, Moves

LEMMA ConnectedStep ==
    ASSUME TablesInv, Queues, Connected, [BNext]_vars
    PROVE  Connected'
<1>1. ASSUME UNCHANGED clientvars, lost' = lost, raced' = raced PROVE Connected'
  BY <1>1 DEF clientvars, Connected, ClientOrderly
<1>2. ASSUME NEW m, Send(m), UNCHANGED <<conn, snap, graphs>>,
             \A c \in Clients : ~Subscribed(c) /\ c \in raced' => c \in raced
      PROVE  Connected'
  <2>1. ASSUME NEW c \in Clients PROVE ClientOrderly(c)'
    <3>1. conn'[c] = "off" => inbox'[c] = inbox[c] /\ lost'[c] = lost[c]
      BY <1>2, SendOne DEF Subscribed
    <3> QED BY <1>2, <3>1 DEF Connected, ClientOrderly, Subscribed
  <2>2. DOMAIN lost' = Clients
    BY <1>2 DEF Send
  <2> QED BY <1>2, <2>1, <2>2 DEF Connected
<1>3. ASSUME NEW v \in Views, NEW type \in Types,
             NEW id \in DOMAIN pending[v][type], TickSend(v, type, id)
      PROVE  Connected'
  BY <1>2, <1>3 DEF TickSend
<1>4. ASSUME NEW r \in Callers, ResetSend(r) PROVE Connected'
  BY <1>2, <1>4 DEF ResetSend
<1>5. ASSUME NEW c \in Clients, ClientMove(c) PROVE Connected'
  <2>1. /\ conn' \in [Clients -> {"off", "subscribed", "snapshot", "live"}]
        /\ DOMAIN graphs' = Clients /\ DOMAIN snap' = Clients /\ DOMAIN lost' = Clients
    BY <1>5 DEF ClientMove, Subscribe, TakeSnapshot, SendSnapshot, Receive, SkipMissed,
                Disconnect, Connected, hvars
  <2>2. \A d \in Clients \ {c} : ClientOrderly(d)'
    BY <1>5, ClientMoveKeeps DEF Connected, ClientOrderly
  <2>3. ClientOrderly(c)
    BY DEF Connected
  <2>4. ClientOrderly(c)'
    <3>1. CASE Subscribe(c)
      BY <2>3, <3>1 DEF Subscribe, Connected, ClientOrderly
    <3>2. CASE TakeSnapshot(c)
      BY <2>3, <3>2, SnapshotGraphs DEF TakeSnapshot, Connected, ClientOrderly
    <3>3. CASE SendSnapshot(c)
      BY <2>3, <3>3, SnapshotShown DEF SendSnapshot, Connected, ClientOrderly
    <3>4. CASE Receive(c)
      BY <2>3, <3>4, ApplyGraphs DEF Receive, Connected, ClientOrderly
    <3>5. CASE SkipMissed(c)
      BY <2>3, <3>5 DEF SkipMissed, ClientOrderly, hvars
    <3>6. CASE Disconnect(c)
      BY <3>6 DEF Disconnect, Connected, Queues, ClientOrderly
    <3> QED BY <1>5, <3>1, <3>2, <3>3, <3>4, <3>5, <3>6 DEF ClientMove
  <2> QED BY <2>1, <2>2, <2>4 DEF Connected
<1>6. TablesMove \/ (\E max_age \in Fades : TickLocked(max_age))
        \/ (\E r \in Callers : ResetLocked(r)) => Connected'
  BY <1>1 DEF TablesMove, TickLocked, ResetLocked, hvars
<1> QED
  BY <1>3, <1>4, <1>5, <1>6, Moves

(* The batch stays settled until the tables are cleared. *)
LEMMA SettledStep ==
    ASSUME TablesInv, Clocked, BatchSettled, [BNext]_vars
    PROVE  BatchSettled'
<1>1. ASSUME Idle' PROVE BatchSettled'
  <2>1. ASSUME NEW v \in Views
        PROVE  /\ DOMAIN pending'[v].upsert_node = {} /\ DOMAIN pending'[v].upsert_edge = {}
               /\ DOMAIN pending'[v].remove_edge = {} /\ DOMAIN pending'[v].remove_node = {}
    BY <1>1 DEF Idle, NoDeltas, Types, Place, EmptyMap
  <2> QED BY <2>1 DEF BatchSettled, Settled
<1>2. ASSUME NEW v \in Views, Touches(v, {}, {}), pending'[v] = pending[v],
             Settled(pending[v], v)
      PROVE  Settled(pending[v], v)'
  BY <1>2 DEF Settled, Touches
<1>3. ASSUME UNCHANGED <<tables, labels>>
      PROVE  \A v \in Views : Touches(v, {}, {})
  BY <1>3, NothingTouched
<1>4. ASSUME UNCHANGED <<pending, resetting, early, late>>,
             Idle \/ \A v \in Views : Touches(v, {}, {})
      PROVE  BatchSettled'
  <2>1. CASE Idle
    BY <1>1, <1>4, <2>1 DEF Idle
  <2>2. CASE \A v \in Views : Touches(v, {}, {})
    BY <1>2, <1>4, <2>2 DEF BatchSettled, Fresh, Idle
  <2> QED BY <1>4, <2>1, <2>2
<1>5. ASSUME NEW max_age \in Fades, TickLocked(max_age) PROVE BatchSettled'
  BY <1>5, DrainedSettled DEF TickLocked, BatchSettled
<1>6. ASSUME NEW v \in Views, NEW type \in Types,
             NEW id \in DOMAIN pending[v][type], TickSend(v, type, id)
      PROVE  BatchSettled'
  <2> SUFFICES ASSUME Fresh', ~Idle' PROVE \A w \in Views : Settled(pending[w], w)'
    BY <1>1 DEF BatchSettled
  <2>1. Fresh /\ UNCHANGED <<tables, labels>>
    BY <1>6 DEF Fresh, TickSend
  <2>2. \A w \in Views : Settled(pending[w], w) /\ Touches(w, {}, {})
    BY <1>3, <2>1 DEF BatchSettled
  <2>3. ASSUME NEW w \in Views, w # v PROVE Settled(pending[w], w)'
    BY <1>2, <1>6, <2>2, <2>3 DEF TickSend, Clocked
  <2>4. Settled(pending[v], v)'
    <3>1. /\ pending'[v] = Without(pending[v], type, id)
          /\ \A earlier \in Types : Place[earlier] < Place[type] =>
                pending[v][earlier] = EmptyMap
      BY <1>6 DEF TickSend, Clocked, Without, Rank, Place, Types
    <3> DEFINE d == pending[v]
               e == pending'[v]
    <3>2. /\ Types = {"upsert_node", "upsert_edge", "remove_edge", "remove_node"}
          /\ Place["upsert_node"] = 0 /\ Place["upsert_edge"] = 2
          /\ Place["remove_edge"] = 4 /\ Place["remove_node"] = 6
          /\ DOMAIN d = Types /\ DOMAIN EmptyMap = {}
      BY DEF Types, Place, Clocked, EmptyMap
    <3>3. \A other \in Types :
             /\ DOMAIN e[other] \subseteq DOMAIN d[other]
             /\ \A x \in DOMAIN e[other] : e[other][x] = d[other][x]
             /\ other # type => DOMAIN e[other] = DOMAIN d[other]
      BY <3>1, <3>2 DEF Without, Restrict
    <3>4. type \in {"remove_edge", "remove_node"} =>
             DOMAIN e.upsert_node = {} /\ DOMAIN e.upsert_edge = {}
      BY <3>1, <3>2, <3>3
    <3>5. Settled(d, v) /\ Touches(v, {}, {})
      BY <2>2
    <3> HIDE DEF d, e
    <3>6. Settled(e, v)
      BY <3>2, <3>3, <3>4, <3>5 DEF Settled
    <3>7. UNCHANGED <<tables, labels>>
      BY <2>1
    <3> QED BY <3>6, <3>7 DEF Settled, NodePayload, EdgePayload, Label, e
  <2> QED BY <2>3, <2>4
<1>7. ASSUME NEW r \in Callers, ResetLocked(r) PROVE BatchSettled'
  <2>1. ~Fresh' \/ Idle'
    BY <1>7 DEF ResetLocked, Fresh, Idle, Clocked, hvars
  <2> QED BY <1>1, <2>1 DEF BatchSettled
<1>8. ASSUME NEW r \in Callers, ResetSend(r) PROVE BatchSettled'
  <2>1. /\ \A v \in Views : Touches(v, {}, {})
        /\ pending' = pending
    BY <1>3, <1>8 DEF ResetSend
  <2>2. Fresh' => Fresh
    BY <1>8 DEF ResetSend, Fresh, Idle
  <2> QED BY <1>2, <2>1, <2>2 DEF BatchSettled
<1>9. ASSUME NEW c \in Clients, ClientMove(c) PROVE BatchSettled'
  BY <1>3, <1>4, <1>9, ClientMoveKeeps
<1>10. CASE TablesMove
  BY <1>4, <1>10 DEF TablesMove, hvars
<1> QED
  BY <1>5, <1>6, <1>7, <1>8, <1>9, <1>10, Moves

LEMMA StillAgrees ==
    ASSUME NEW v \in Views, \E N, E : Touches(v, N, E),
           NEW g, IsGraph(g), Agrees(g, v)
    PROVE  AgreesThen(g, v)
<1>1. PICK N, E : Touches(v, N, E)
  OBVIOUS
<1>2. Like(g, g, N, E)
  BY DEF Like
<1> QED
  BY <1>1, <1>2, TouchedAgrees

LEMMA SameAgreesThen ==
    ASSUME UNCHANGED <<tables, labels>>, NEW v \in Views, NEW g, Agrees(g, v)
    PROVE  AgreesThen(g, v)
BY DEF Agrees, AgreesThen, NodePayload, EdgePayload, Label

(* While the aggregator is idle a reset to be sent finds cleared tables,   *)
(* but for what is marked.                                                 *)
LEMMA IdleResetWaits ==
    ASSUME ResetsWait, Idle, NEW r \in resetting \ overtaken, NEW v \in Views
    PROVE  Agrees(EmptyGraph, v)
<1>1. ApplyDeltas(EmptyGraph, pending[v]) = EmptyGraph
  BY IdleChangesNothing, BlankIsGraphs
<1>2. r \in early => Agrees(ApplyDeltas(EmptyGraph, pending[v]), v)
  BY DEF ResetsWait, Fresh
<1> QED
  BY <1>1, <1>2 DEF ResetsWait

LEMMA ResetsWaitStep ==
    ASSUME TablesInv, Clocked, ResetsWait, [BNext]_vars, TablesInv'
    PROVE  ResetsWait'
<1> DEFINE D(v) == ApplyDeltas(EmptyGraph, pending[v])
<1> SUFFICES ASSUME NEW q \in resetting' \ overtaken', NEW v \in Views
             PROVE  /\ q \notin early' => AgreesThen(EmptyGraph, v)
                    /\ q \in early' /\ Fresh' =>
                         AgreesThen(ApplyDeltas(EmptyGraph, pending'[v]), v)
  BY DEF ResetsWait, Agrees, AgreesThen
<1> DEFINE Waits == /\ q \notin early' => AgreesThen(EmptyGraph, v)
                    /\ q \in early' /\ Fresh' =>
                         AgreesThen(ApplyDeltas(EmptyGraph, pending'[v]), v)
<1>1. IsGraph(EmptyGraph) /\ IsGraph(D(v))
  BY BlankIsGraphs, DeltasGraph
<1>2. q \in resetting \ overtaken =>
         /\ q \notin early => Agrees(EmptyGraph, v)
         /\ q \in early /\ Fresh => Agrees(D(v), v)
  BY DEF ResetsWait
<1>3. CASE TablesMove
  <2>1. /\ q \in resetting \ overtaken /\ early' = early /\ pending' = pending
        /\ Fresh' <=> Fresh
        /\ \E N, E : Touches(v, N, E)
    BY <1>3 DEF TablesMove, hvars, Fresh, Idle
  <2> HIDE DEF D
  <2>2. q \notin early => AgreesThen(EmptyGraph, v)
    BY <1>1, <1>2, <2>1, StillAgrees
  <2>3. q \in early /\ Fresh => AgreesThen(D(v), v)
    BY <1>1, <1>2, <2>1, StillAgrees
  <2> QED BY <2>1, <2>2, <2>3 DEF D
<1>4. ASSUME NEW max_age \in Fades, TickLocked(max_age) PROVE Waits
  <2>1. /\ q \in resetting \ overtaken /\ q \in early' /\ Idle
        /\ DrainAndSweep(max_age) /\ pending'[v] = TickDeltas(v, max_age)
    BY <1>4 DEF TickLocked
  <2>2. ApplyDeltas(EmptyGraph, pending'[v]) = Picture(v)'
    BY <2>1, IdleResetWaits, TickPicture
  <2> QED BY <2>1, <2>2, PictureAgreesThen
<1>5. ASSUME NEW w \in Views, NEW type \in Types,
             NEW id \in DOMAIN pending[w][type], TickSend(w, type, id)
      PROVE  Waits
  <2>1. /\ q \in resetting \ overtaken /\ q \notin early /\ early' = early
        /\ UNCHANGED <<tables, labels>>
    BY <1>5 DEF TickSend
  <2> QED BY <1>2, <2>1, SameAgreesThen
<1>6. ASSUME NEW r \in Callers, ResetLocked(r) PROVE Waits
  <2>1. AgreesThen(EmptyGraph, v) /\ pending' = pending
    BY <1>6, BlankAgrees DEF ResetLocked, Reset
  <2>2. Fresh' => Idle
    BY <1>6 DEF ResetLocked, Fresh, Idle, Clocked, hvars
  <2>3. Fresh' => ApplyDeltas(EmptyGraph, pending'[v]) = EmptyGraph
    BY <2>1, <2>2, IdleChangesNothing, BlankIsGraphs
  <2> QED BY <2>1, <2>3
<1>7. ASSUME NEW r \in Callers, ResetSend(r) PROVE Waits
  <2>1. /\ q \in resetting \ overtaken
        /\ q \in early' <=> q \in early
        /\ UNCHANGED <<tables, labels, pending>>
        /\ Fresh' => Fresh
    BY <1>7 DEF ResetSend, Fresh, Idle
  <2> HIDE DEF D
  <2>2. q \notin early => AgreesThen(EmptyGraph, v)
    BY <1>2, <2>1, SameAgreesThen
  <2>3. q \in early /\ Fresh => AgreesThen(D(v), v)
    BY <1>2, <2>1, SameAgreesThen
  <2> QED BY <2>1, <2>2, <2>3 DEF D
<1>8. ASSUME NEW c \in Clients, ClientMove(c) PROVE Waits
  <2>1. /\ q \in resetting \ overtaken /\ early' = early
        /\ UNCHANGED <<tables, labels, pending>>
        /\ Fresh' => Fresh
    BY <1>8, ClientMoveKeeps DEF Fresh, Idle
  <2> HIDE DEF D
  <2>2. q \notin early => AgreesThen(EmptyGraph, v)
    BY <1>2, <2>1, SameAgreesThen
  <2>3. q \in early /\ Fresh => AgreesThen(D(v), v)
    BY <1>2, <2>1, SameAgreesThen
  <2> QED BY <2>1, <2>2, <2>3 DEF D
<1> QED
  BY <1>3, <1>4, <1>5, <1>6, <1>7, <1>8, Moves

(* What is known of a client that follows. *)
LEMMA FollowsAgrees ==
    ASSUME BInv, NEW c \in Clients, NEW v \in Views
    PROVE  /\ Len(inbox[c]) \in Nat
           /\ Subscribed(c) => /\ IsGraphs(Screen(c))
                               /\ IsGraphs(After(Screen(c), inbox[c]))
                               /\ IsGraph(Ahead(c, v))
           /\ Follows(c) => Agrees(Ahead(c, v), v)
<1>1. PICK S : inbox[c] \in Seq(S)
  BY DEF BInv, Queues
<1>2. Len(inbox[c]) \in Nat
  BY <1>1
<1>3. ASSUME Subscribed(c)
      PROVE  /\ IsGraphs(Screen(c))
             /\ IsGraphs(After(Screen(c), inbox[c]))
             /\ IsGraph(Ahead(c, v))
  <2>1. IsGraphs(Screen(c))
    BY <1>3, ScreenGraphs DEF BInv
  <2>2. IsGraphs(After(Screen(c), inbox[c]))
    BY <1>2, <2>1, AfterGraphs
  <2> QED BY <2>1, <2>2, DeltasGraph DEF Ahead, IsGraphs
<1> QED
  BY <1>2, <1>3 DEF BInv, Following

(* A client that is sent a reset will show nothing but the rest of the     *)
(* batch.                                                                  *)
LEMMA ResetSent ==
    ASSUME Queues, NEW c \in Clients, Subscribed(c), Send(ResetMsg), NEW G
    PROVE  After(G, inbox'[c]) = Blank
<1>1. PICK S : inbox[c] \in Seq(S)
  BY DEF Queues
<1> DEFINE R == S \cup {ResetMsg}
<1>2. PICK s \in Seq(R) : inbox'[c] = Append(s, ResetMsg)
  <2>1. inbox[c] \in Seq(R)
    BY <1>1
  <2>2. CASE ~Overrun(c)
    BY <2>1, <2>2, SendOne
  <2>3. CASE Overrun(c)
    <3>1. inbox[c] # <<>> /\ inbox'[c] = Append(Tail(inbox[c]), ResetMsg)
      BY <2>3, SendOne
    <3>2. Tail(inbox[c]) \in Seq(R)
      BY <2>1, <3>1
    <3> QED BY <3>1, <3>2
  <2> QED BY <2>2, <2>3
<1>3. After(G, Append(s, ResetMsg)) = Apply(After(G, s), ResetMsg)
  BY AfterAppend
<1> QED
  BY <1>2, <1>3 DEF Apply, ResetMsg

(* A client that is sent a message of the batch, and still follows, will   *)
(* show it: if the ring lost one for it, a reset is still ahead.           *)
LEMMA DeltaSent ==
    ASSUME Queues, NEW c \in Clients, Subscribed(c), NEW m, m.type # "reset", Send(m),
           lost'[c] = "nothing" \/ ResetAhead(c)', NEW G
    PROVE  /\ After(G, inbox'[c]) = Apply(After(G, inbox[c]), m)
           /\ lost[c] = "nothing" \/ ResetAhead(c)
<1>1. PICK S : inbox[c] \in Seq(S)
  BY DEF Queues
<1> DEFINE R == S \cup {m}
           s == inbox[c]
<1>2. s \in Seq(R) /\ m \in R
  BY <1>1
<1>3. m # ResetMsg
  BY DEF ResetMsg
<1>4. CASE ~Overrun(c)
  <2>1. inbox'[c] = Append(s, m) /\ lost'[c] = lost[c]
    BY <1>4, SendOne
  <2>2. ResetAhead(c)' => ResetAhead(c)
    BY <1>2, <1>3, <2>1 DEF ResetAhead
  <2> QED BY <1>2, <2>1, <2>2, AfterAppend
<1>5. CASE Overrun(c)
  <2>1. s # <<>> /\ inbox'[c] = Append(Tail(s), m) /\ ResetAhead(c)'
    BY <1>5, SendOne
  <2>2. Tail(s) \in Seq(R) /\ Len(Tail(s)) \in Nat
    BY <1>2, <2>1
  <2>3. PICK i \in 1 .. Len(Append(Tail(s), m)) : Append(Tail(s), m)[i] = ResetMsg
    BY <2>1 DEF ResetAhead
  <2>4. i \in 1 .. Len(Tail(s)) /\ Tail(s)[i] = ResetMsg
    BY <1>2, <1>3, <2>2, <2>3
  <2>5. i + 1 \in 1 .. Len(s) /\ s[i + 1] = ResetMsg
    BY <1>2, <2>1, <2>4
  <2>6. After(G, Tail(s)) = After(Apply(G, Head(s)), Tail(s))
    BY <2>2, <2>4, AfterReset
  <2>7. After(Apply(G, Head(s)), Tail(s)) = After(G, s)
    BY <1>2, <2>1, AfterTail
  <2>8. After(G, Append(Tail(s), m)) = Apply(After(G, Tail(s)), m)
    BY <1>2, <2>2, AfterAppend
  <2> QED BY <2>1, <2>5, <2>6, <2>7, <2>8 DEF ResetAhead
<1> QED
  BY <1>4, <1>5

(* A message sent leaves what will be shown as it was: it is in the ring   *)
(* instead of in the batch.                                                *)
LEMMA BatchShown ==
    ASSUME Clocked, NEW w \in Views, NEW type \in Types,
           NEW id \in DOMAIN pending[w][type], TickSend(w, type, id),
           NEW G, IsGraphs(G), NEW v \in Views
    PROVE  ApplyDeltas(Apply(G, Delta(type, w, id, pending[w][type][id]))[v], pending'[v])
             = ApplyDeltas(G[v], pending[v])
<1> DEFINE m == Delta(type, w, id, pending[w][type][id])
<1>1. Apply(G, m)[v] = IF v = w THEN ApplyDeltas(G[v], Alone(m)) ELSE G[v]
  <2>1. m.type # "reset" /\ m.view = w
    BY DEF Delta, Types, Place
  <2> HIDE DEF m
  <2> QED BY <2>1, ApplyView
<1>2. CASE v # w
  <2>1. pending'[v] = pending[v]
    BY <1>2 DEF TickSend, Clocked
  <2> QED BY <1>1, <1>2, <2>1
<1>3. CASE v = w
  <2>1. /\ pending'[w] = Without(pending[w], type, id)
        /\ \A earlier \in Types : Place[earlier] < Place[type] =>
              pending[w][earlier] = EmptyMap
    BY DEF TickSend, Clocked, Without, Rank, Place, Types
  <2>2. IsGraph(G[w]) /\ DOMAIN pending[w] = Types
    BY DEF IsGraphs, Clocked
  <2>3. ApplyDeltas(ApplyDeltas(G[w], Alone(m)), Without(pending[w], type, id))
          = ApplyDeltas(G[w], pending[w])
    BY ONLY <2>1, <2>2, BatchInPieces, type \in Types, id \in DOMAIN pending[w][type], ZenonT(30)
  <2> HIDE DEF m
  <2>4. Apply(G, m)[w] = ApplyDeltas(G[w], Alone(m))
    BY <1>1, <1>3
  <2>5. ApplyDeltas(Apply(G, m)[w], pending'[w]) = ApplyDeltas(G[w], pending[w])
    BY <2>1, <2>3, <2>4
  <2> QED BY <1>3, <2>5 DEF m
<1> QED
  BY <1>2, <1>3

(* The sweep takes the same from every browser, the ones that have still   *)
(* to read the tables included: those will not be shown what it removes.   *)
LEMMA SweptPicture ==
    ASSUME TablesInv, NEW max_age \in Fades, DrainAndSweep(max_age), NEW v \in Views,
           NEW h, h = Picture(v)'
    PROVE  Like(Picture(v), h, DOMAIN TickDeltas(v, max_age).remove_node,
                               DOMAIN TickDeltas(v, max_age).remove_edge)
<1> DEFINE t == tables[v]
           u == tables'[v]
           sn == Stale(t.nodes, max_age)
           sc == Stale(t.conv, max_age)
<1>1. /\ DOMAIN TickDeltas(v, max_age).remove_edge = sc
      /\ DOMAIN TickDeltas(v, max_age).remove_node = sn
  BY DEF TickDeltas, Removed
<1>2. /\ DOMAIN u.nodes = DOMAIN t.nodes \ sn
      /\ DOMAIN u.conv = DOMAIN t.conv \ sc
      /\ \A a \in DOMAIN u.nodes : u.nodes[a] = t.nodes[a]
      /\ \A k \in DOMAIN u.conv : u.conv[k] = t.conv[k]
      /\ labels' = labels
  BY DEF DrainAndSweep, Swept, Drained, Retain, Restrict
<1>3. \A a \in DOMAIN u.nodes : NodePayload(v, a)' = NodePayload(v, a)
  BY <1>2 DEF NodePayload, Label
<1>4. \A k \in DOMAIN u.conv : EdgePayload(v, k)' = EdgePayload(v, k)
  BY <1>2 DEF EdgePayload
<1>5. /\ DOMAIN h.nodes = DOMAIN u.nodes
      /\ \A a \in DOMAIN u.nodes : h.nodes[a] = NodePayload(v, a)'
      /\ DOMAIN h.edges = DOMAIN u.conv
      /\ \A k \in DOMAIN u.conv : h.edges[k] = EdgePayload(v, k)'
  BY DEF Picture, SnapshotNodes, SnapshotEdges
<1>6. /\ DOMAIN Picture(v).nodes = DOMAIN t.nodes
      /\ \A a \in DOMAIN t.nodes : Picture(v).nodes[a] = NodePayload(v, a)
      /\ DOMAIN Picture(v).edges = DOMAIN t.conv
      /\ \A k \in DOMAIN t.conv : Picture(v).edges[k] = EdgePayload(v, k)
  BY DEF Picture, SnapshotNodes, SnapshotEdges
<1> HIDE DEF sn, sc
<1>7. ASSUME NEW a, a \notin sn
      PROVE  /\ a \in DOMAIN Picture(v).nodes <=> a \in DOMAIN h.nodes
             /\ a \in DOMAIN Picture(v).nodes => Picture(v).nodes[a] = h.nodes[a]
  BY <1>2, <1>3, <1>5, <1>6, <1>7
<1>8. ASSUME NEW k, k \notin sc
      PROVE  /\ k \in DOMAIN Picture(v).edges <=> k \in DOMAIN h.edges
             /\ k \in DOMAIN Picture(v).edges => Picture(v).edges[k] = h.edges[k]
  BY <1>2, <1>4, <1>5, <1>6, <1>8
<1> QED
  BY <1>1, <1>7, <1>8 DEF Like

LEMMA FollowingStep ==
    ASSUME BInv, [BNext]_vars, TablesInv'
    PROVE  Following'
<1> SUFFICES ASSUME NEW c \in Clients, Follows(c)', NEW v \in Views,
                    NEW H, H = Screen(c)'
             PROVE  AgreesThen(ApplyDeltas(After(H, inbox'[c])[v], pending'[v]), v)
  BY DEF Following, Ahead, Agrees, AgreesThen
<1> DEFINE Ends == AgreesThen(ApplyDeltas(After(H, inbox'[c])[v], pending'[v]), v)
           G == Screen(c)
           s == inbox[c]
<1>1. /\ Len(s) \in Nat
      /\ Subscribed(c) => IsGraphs(G) /\ IsGraphs(After(G, s)) /\ IsGraph(Ahead(c, v))
      /\ Follows(c) => Agrees(Ahead(c, v), v)
  BY FollowsAgrees
<1>2. /\ TablesInv /\ Clocked /\ Queues /\ Connected
      /\ BatchSettled /\ ResetsWait
  BY DEF BInv
<1>3. IsGraphs(Snapshot) /\ Snapshot[v] = Picture(v)
  BY <1>2, SnapshotGraphs
<1>4. PICK Then : Then = Snapshot'
  OBVIOUS
<1>5. IsGraphs(Then) /\ Then[v] = Picture(v)'
  BY <1>4, SnapshotGraphsThen
<1>6. ASSUME UNCHANGED <<tables, labels>> PROVE Then = Snapshot
  BY <1>4, <1>6 DEF Snapshot, SnapshotNodes, SnapshotEdges, NodePayload, EdgePayload, Label
<1>7. conn'[c] = conn[c] /\ snap'[c] = snap[c] /\ graphs'[c] = graphs[c] =>
         H = IF conn[c] = "subscribed" THEN Then ELSE G
  BY <1>4 DEF Screen
<1> HIDE DEF G, s
<1>8. CASE TablesMove
  <2>1. /\ Follows(c) /\ Subscribed(c)
        /\ H = IF conn[c] = "subscribed" THEN Then ELSE G
        /\ inbox'[c] = s /\ pending' = pending
    BY <1>7, <1>8 DEF TablesMove, clientvars, hvars, Follows, Subscribed, Whole, ResetAhead,
                      Uncrossed, Idle, s
  <2>2. PICK N, E : Touches(v, N, E)
    BY <1>8 DEF TablesMove
  <2>3. IsGraphs(H) /\ Like(G[v], H[v], N, E)
    <3>1. CASE conn[c] = "subscribed"
      BY <1>3, <1>5, <2>1, <2>2, <3>1, TouchedPicture DEF Screen, G
    <3>2. CASE conn[c] # "subscribed"
      BY <1>1, <2>1, <3>2 DEF Like
    <3> QED BY <3>1, <3>2
  <2>4. IsGraphs(After(H, s)) /\ Like(After(G, s)[v], After(H, s)[v], N, E)
    BY <1>1, <2>1, <2>3, AfterLike, AfterGraphs
  <2> DEFINE d == pending[v]
             h == ApplyDeltas(After(H, s)[v], d)
  <2>5. IsGraph(h)
    BY <2>4, DeltasGraph DEF IsGraphs
  <2>6. Like(Ahead(c, v), h, N \ DOMAIN d.remove_node, E \ DOMAIN d.remove_edge)
    BY <2>4, DeltasLike DEF Ahead, G, s
  <2> HIDE DEF h, d
  <2>7. Like(Ahead(c, v), h, N, E)
    BY <2>6 DEF Like
  <2>8. AgreesThen(h, v)
    BY <1>1, <2>1, <2>2, <2>5, <2>7, TouchedAgrees
  <2> QED BY <2>1, <2>8 DEF h, d
<1>9. ASSUME NEW max_age \in Fades, TickLocked(max_age) PROVE Ends
  <2>1. /\ Idle /\ DrainAndSweep(max_age)
        /\ UNCHANGED <<conn, inbox, snap, graphs, lost, raced, resetting>>
        /\ pending'[v] = TickDeltas(v, max_age)
    BY <1>9 DEF TickLocked, clientvars
  <2>2. Follows(c) /\ Subscribed(c)
    BY <2>1 DEF Follows, Subscribed, Whole, ResetAhead, Uncrossed
  <2>3. H = IF conn[c] = "subscribed" THEN Then ELSE G
    BY <1>7, <2>1
  <2> DEFINE d == TickDeltas(v, max_age)
             g == After(G, s)[v]
             h == After(H, s)[v]
  <2>4. IsGraphs(H) /\ Like(G[v], H[v], DOMAIN d.remove_node, DOMAIN d.remove_edge)
    <3>1. CASE conn[c] = "subscribed"
      BY <1>2, <1>3, <1>5, <2>1, <2>3, <3>1, SweptPicture DEF Screen, G
    <3>2. CASE conn[c] # "subscribed"
      BY <1>1, <2>2, <2>3, <3>2 DEF Like
    <3> QED BY <3>1, <3>2
  <2>5. /\ IsGraph(g) /\ IsGraph(h)
        /\ Like(g, h, DOMAIN d.remove_node, DOMAIN d.remove_edge)
    BY <1>1, <2>2, <2>4, AfterLike, AfterGraphs DEF IsGraphs
  <2>6. Agrees(g, v)
    BY <1>1, <2>1, <2>2, <2>5, IdleChangesNothing DEF Ahead, G, s
  <2> HIDE DEF g, h, d
  <2>7. ApplyDeltas(h, d) = ApplyDeltas(g, d)
    BY <2>5, RemovedAlike
  <2>8. ApplyDeltas(g, d) = Picture(v)'
    BY <1>2, <2>1, <2>6, TickPicture DEF d
  <2>9. AgreesThen(ApplyDeltas(h, d), v)
    BY <2>7, <2>8, PictureAgreesThen
  <2> QED BY <2>1, <2>9 DEF h, d, s
<1>10. ASSUME NEW w \in Views, NEW type \in Types,
              NEW id \in DOMAIN pending[w][type], TickSend(w, type, id)
       PROVE  Ends
  <2> DEFINE m == Delta(type, w, id, pending[w][type][id])
  <2>1. /\ ~Idle /\ Send(m)
        /\ UNCHANGED <<tables, labels, conn, snap, graphs, resetting, late>>
        /\ raced' = IF late THEN raced \cup {b \in Clients : Subscribed(b)} ELSE raced
    <3>1. ~Idle
      BY DEF Idle, NoDeltas, EmptyMap
    <3> QED BY <1>10, <3>1 DEF TickSend
  <2>2. m.type # "reset"
    BY DEF Delta, Types, Place
  <2>3. Subscribed(c) /\ c \notin raced' /\ resetting = {}
        /\ (lost'[c] = "nothing" \/ ResetAhead(c)')
    BY <2>1 DEF Follows, Subscribed, Whole, Uncrossed
  <2>4. ~late /\ c \notin raced
    BY <2>1, <2>3
  <2> HIDE DEF m
  <2>5. /\ After(G, inbox'[c]) = Apply(After(G, s), m)
        /\ lost[c] = "nothing" \/ ResetAhead(c)
    BY <1>2, <2>1, <2>2, <2>3, DeltaSent DEF s
  <2>6. Follows(c)
    BY <2>3, <2>4, <2>5 DEF Follows, Whole, Uncrossed
  <2>7. H = G
    BY <1>6, <1>7, <2>1 DEF G, Screen
  <2>8. ApplyDeltas(Apply(After(G, s), m)[v], pending'[v]) = Ahead(c, v)
    BY <1>1, <1>2, <1>10, <2>3, BatchShown DEF Ahead, G, s, m
  <2>9. AgreesThen(Ahead(c, v), v)
    BY <1>1, <2>1, <2>6, SameAgreesThen
  <2> QED BY <2>5, <2>7, <2>8, <2>9
<1>11. ASSUME NEW r \in Callers, ResetLocked(r) PROVE Ends
  BY <1>11 DEF ResetLocked, Follows, Uncrossed
<1>12. ASSUME NEW r \in Callers, ResetSend(r) PROVE Ends
  <2>1. /\ Send(ResetMsg) /\ r \in resetting
        /\ UNCHANGED <<tables, labels, pending, conn>>
        /\ resetting' = resetting \ {r}
        /\ late' = (late \/ (~Idle /\ r \notin early))
        /\ raced' = IF r \in overtaken THEN {b \in Clients : Subscribed(b)} ELSE {}
    BY <1>12 DEF ResetSend
  <2>2. Subscribed(c) /\ c \notin raced' /\ resetting \subseteq {r} /\ (~Idle => ~late')
    BY <2>1 DEF Follows, Subscribed, Uncrossed, Idle
  <2>3. r \notin overtaken
    BY <2>1, <2>2
  <2>4. ~Idle => ~late /\ r \in early
    BY <2>1, <2>2
  <2>5. Fresh
    BY <2>2, <2>4 DEF Fresh
  <2>6. Agrees(ApplyDeltas(EmptyGraph, pending[v]), v)
    <3>1. CASE r \in early
      BY <1>2, <2>1, <2>3, <2>5, <3>1 DEF ResetsWait
    <3>2. CASE r \notin early
      <4>1. Agrees(EmptyGraph, v) /\ Idle
        BY <1>2, <2>1, <2>3, <2>4, <3>2 DEF ResetsWait
      <4> QED BY <4>1, IdleChangesNothing, BlankIsGraphs
    <3> QED BY <3>1, <3>2
  <2>7. After(H, inbox'[c])[v] = EmptyGraph
    BY <1>2, <2>1, <2>2, ResetSent DEF Blank
  <2>8. AgreesThen(ApplyDeltas(EmptyGraph, pending[v]), v)
    BY <2>1, <2>6, SameAgreesThen
  <2> QED BY <2>1, <2>7, <2>8
<1>13. ASSUME NEW b \in Clients, ClientMove(b) PROVE Ends
  <2>1. /\ UNCHANGED <<tables, labels, pending, resetting, late>>
        /\ \A d \in Clients \ {b} :
              /\ conn'[d] = conn[d] /\ inbox'[d] = inbox[d] /\ snap'[d] = snap[d]
              /\ graphs'[d] = graphs[d] /\ lost'[d] = lost[d]
              /\ d \in raced' <=> d \in raced
    BY <1>13, ClientMoveKeeps
  <2>2. ASSUME Follows(c), After(H, inbox'[c]) = After(G, s) PROVE Ends
    <3>1. AgreesThen(Ahead(c, v), v)
      BY <1>1, <2>1, <2>2, SameAgreesThen
    <3> QED BY <2>1, <2>2, <3>1 DEF Ahead, G, s
  <2>3. Then = Snapshot
    BY <1>6, <2>1
  <2>4. resetting = {} /\ (~Idle => ~late)
    BY <2>1 DEF Follows, Uncrossed, Idle
  <2>5. CASE b # c \/ SkipMissed(c)
    <3>1. /\ conn'[c] = conn[c] /\ inbox'[c] = s /\ snap'[c] = snap[c]
          /\ graphs'[c] = graphs[c] /\ lost'[c] = lost[c]
          /\ c \in raced' <=> c \in raced
      BY <2>1, <2>5 DEF SkipMissed, hvars, s
    <3>2. Follows(c)
      BY <2>4, <3>1 DEF Follows, Subscribed, Whole, ResetAhead, Uncrossed, s
    <3>3. H = G
      BY <1>7, <2>3, <3>1 DEF G, Screen
    <3> QED BY <2>2, <3>1, <3>2, <3>3
  <2>6. CASE Subscribe(c)
    <3>1. /\ conn[c] = "off" /\ conn'[c] = "subscribed" /\ inbox'[c] = <<>>
      BY <1>2, <2>6 DEF Subscribe, Connected, ClientOrderly
    <3>2. H = Snapshot
      BY <1>4, <2>3, <3>1 DEF Screen
    <3>3. After(H, inbox'[c]) = Snapshot
      BY <3>1, <3>2, AfterNothing
    <3>4. Settled(pending[v], v)
      BY <1>2, <2>4 DEF BatchSettled, Fresh
    <3>5. ApplyDeltas(Snapshot[v], pending[v]) = Picture(v) /\ Agrees(Picture(v), v)
      BY <1>2, <1>3, <3>4, SettledPicture, PictureAgrees
    <3>6. AgreesThen(Picture(v), v)
      BY <2>1, <3>5, SameAgreesThen
    <3> QED BY <2>1, <3>3, <3>5, <3>6
  <2>7. CASE TakeSnapshot(c) \/ SendSnapshot(c)
    <3>1. /\ inbox'[c] = s /\ lost' = lost /\ raced' = raced /\ Subscribed(c)
      BY <2>7 DEF TakeSnapshot, SendSnapshot, hvars, s, Subscribed
    <3>2. Follows(c)
      BY <2>4, <3>1 DEF Follows, Whole, ResetAhead, Uncrossed, s
    <3>3. CASE TakeSnapshot(c)
      <4>1. conn[c] = "subscribed" /\ conn'[c] = "snapshot" /\ snap'[c] = Snapshot
        BY <1>2, <3>3 DEF TakeSnapshot, Connected
      <4>2. H = G
        BY <4>1 DEF Screen, G
      <4> QED BY <2>2, <3>1, <3>2, <4>2
    <3>4. CASE SendSnapshot(c)
      <4>1. /\ conn[c] = "snapshot" /\ conn'[c] = "live"
            /\ graphs'[c] = ApplySnapshot(Blank, snap[c]) /\ IsGraphs(snap[c])
        BY <1>2, <3>4 DEF SendSnapshot, Connected, ClientOrderly
      <4>2. H = G
        BY <4>1, SnapshotShown DEF Screen, G
      <4> QED BY <2>2, <3>1, <3>2, <4>2
    <3> QED BY <2>7, <3>3, <3>4
  <2>8. CASE Receive(c)
    <3>1. /\ conn[c] = "live" /\ conn' = conn /\ s # <<>> /\ raced' = raced
          /\ graphs'[c] = Apply(graphs[c], Head(s)) /\ inbox'[c] = Tail(s)
          /\ lost' = IF Head(s) = ResetMsg THEN [lost EXCEPT ![c] = "nothing"] ELSE lost
      BY <1>2, <2>8 DEF Receive, Connected, Queues, s
    <3>2. PICK S : s \in Seq(S)
      BY <1>2 DEF Queues, s
    <3>3. After(H, inbox'[c]) = After(G, s)
      <4>1. G = graphs[c] /\ H = Apply(G, Head(s))
        BY <3>1 DEF Screen, G
      <4> QED BY <3>1, <3>2, <4>1, AfterTail
    <3>4. Whole(c) \/ ResetAhead(c)
      <4>1. CASE Head(s) = ResetMsg
        <5>1. 1 \in 1 .. Len(s) /\ s[1] = ResetMsg
          BY <3>1, <3>2, <4>1
        <5> QED BY <5>1 DEF ResetAhead, s
      <4>2. CASE Head(s) # ResetMsg /\ lost'[c] = "nothing"
        BY <3>1, <4>2 DEF Whole
      <4>3. CASE ResetAhead(c)'
        <5>1. PICK i \in 1 .. Len(Tail(s)) : Tail(s)[i] = ResetMsg
          BY <3>1, <4>3 DEF ResetAhead
        <5>2. i + 1 \in 1 .. Len(s) /\ s[i + 1] = ResetMsg
          BY <3>1, <3>2, <5>1
        <5> QED BY <5>2 DEF ResetAhead, s
      <4> QED BY <4>1, <4>2, <4>3 DEF Follows, Whole
    <3>5. Follows(c)
      BY <2>4, <3>1, <3>4 DEF Follows, Subscribed, Uncrossed
    <3> QED BY <2>2, <3>3, <3>5
  <2>9. CASE Disconnect(c)
    BY <1>2, <2>9 DEF Disconnect, Follows, Subscribed, Connected
  <2> QED BY <1>13, <2>5, <2>6, <2>7, <2>8, <2>9 DEF ClientMove
<1> QED
  BY <1>2, <1>8, <1>9, <1>10, <1>11, <1>12, <1>13, Moves

LEMMA BInvInit == BInit => BInv
<1> SUFFICES ASSUME BInit PROVE BInv
  OBVIOUS
<1>1. TablesInv
  BY TablesInvInit DEF BInit
<1>2. Clocked /\ Connected
  BY DEF BInit, Clocked, Connected, ClientOrderly, Idle, NoDeltas
<1>3. Queues
  <2>1. \A c \in Clients : inbox[c] \in Seq({}) /\ Len(inbox[c]) = 0
    BY DEF BInit
  <2> QED BY <2>1, BroadcastAssumption DEF Queues, BInit
<1>4. BatchSettled
  BY NoDeltasParts DEF BInit, BatchSettled, Settled
<1>5. ResetsWait /\ Following
  BY DEF BInit, ResetsWait, Following, Follows, Subscribed
<1> QED
  BY <1>1, <1>2, <1>3, <1>4, <1>5 DEF BInv

LEMMA BInvStep == BInv /\ [BNext]_vars => BInv'
<1> SUFFICES ASSUME BInv, [BNext]_vars PROVE BInv'
  OBVIOUS
<1>1. TablesInv'
  BY BStepIsStep, TablesInvStep DEF BInv
<1>2. Clocked' /\ Queues' /\ Connected'
  BY ClockedStep, QueuesStep, ConnectedStep DEF BInv
<1>3. BatchSettled' /\ ResetsWait'
  BY <1>1, SettledStep, ResetsWaitStep DEF BInv
<1>4. Following'
  BY <1>1, FollowingStep
<1> QED
  BY <1>1, <1>2, <1>3, <1>4 DEF BInv

(* What client c shows once it has sent its snapshot is Screen(c). *)
LEMMA BInvConverges == BInv => ClientsConverge
<1> SUFFICES ASSUME BInv, NEW c \in Clients, Served(c), Whole(c), Uncrossed(c),
                    NEW v \in Views
             PROVE  Agrees(Future(c)[v], v)
  BY DEF ClientsConverge
<1>1. OnScreen(c) = Screen(c)
  BY SnapshotShown DEF BInv, Connected, ClientOrderly, OnScreen, Screen, Served
<1>2. Future(c)[v] = Ahead(c, v)
  BY <1>1 DEF Future, Ahead
<1>3. Follows(c)
  BY DEF Follows, Served, Subscribed
<1> QED
  BY <1>2, <1>3 DEF BInv, Following

(* The marks of a connection are one of those the code has. *)
LEMMA MissedStep ==
    missed \in [Clients -> BOOLEAN] /\ [BNext]_vars => (missed \in [Clients -> BOOLEAN])'
<1> SUFFICES ASSUME missed \in [Clients -> BOOLEAN], [BNext]_vars
             PROVE  missed' \in [Clients -> BOOLEAN]
  OBVIOUS
<1>1. \A m : Send(m) => missed' \in [Clients -> BOOLEAN]
  BY DEF Send
<1> QED
  BY <1>1 DEF BNext, BIngest, BSetL3Label, TickLocked, TickSend, ResetLocked, ResetSend,
              BElapse, Subscribe, TakeSnapshot, SendSnapshot, Receive, SkipMissed, Disconnect,
              clientvars, vars, bvars

(* Whatever the addresses and the number of browsers, the tables, the ring *)
(* and the connections keep their shape: no client has more left to read   *)
(* than the ring can hold.                                                 *)
THEOREM BroadcastTypeCorrect == BSpec => []BTypeOK
<1>1. BInv /\ missed \in [Clients -> BOOLEAN] => BTypeOK
  BY DEF BInv, TablesInv, Sound, TypeOK, Clocked, Queues, Connected, BTypeOK
<1>2. BInit => missed \in [Clients -> BOOLEAN]
  BY DEF BInit
<1> QED
  BY <1>1, <1>2, BInvInit, BInvStep, MissedStep, PTL DEF BSpec

(* A client that has missed nothing since its snapshot or the last reset   *)
(* is always on its way to the tables, whatever the batches in flight, the *)
(* snapshots taken between two messages, the resets that have not crossed  *)
(* them, and the other clients.                                            *)
THEOREM ClientsAlwaysConverge == BSpec => []ClientsConverge
BY BInvInit, BInvStep, BInvConverges, PTL DEF BSpec
=============================================================================
