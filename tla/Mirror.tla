------------------------------- MODULE Mirror -------------------------------
(***************************************************************************)
(* The delta protocol by itself: the tables, and a graph that receives the *)
(* deltas of every tick and every reset in order, as soon as they happen.  *)
(* It asks whether the deltas are enough: whether sending only the entries *)
(* marked dirty, and a removal for each entry that fades, keeps a viewer   *)
(* equal to the tables.  How the messages travel is the matter of          *)
(* Broadcast.                                                              *)
(***************************************************************************)
EXTENDS Tables, GraphView

VARIABLE graph      \* the viewer's graph, by view

mvars == <<tables, labels, graph>>

(* Mutation of ApplyTick: the removals come first. *)
ApplyTickRemovalsFirst(g, v, max_age) ==
    LET g1 == RemoveEdges(g, Stale(tables[v].conv, max_age))
        g2 == RemoveNodes(g1, Stale(tables[v].nodes, max_age))
    IN UpsertEdges(UpsertNodes(g2, DrainedNodes(v)), DrainedEdges(v))

(* One tick's deltas, in the order aggregate_loop sends them. *)
ApplyTick(g, v, max_age) == ApplyDeltas(g, TickDeltas(v, max_age))

MInit == Init /\ graph = [v \in Views |-> EmptyGraph]

MIngest(p) == Ingest(p) /\ UNCHANGED graph
MSetL3Label(ip, name) == SetL3Label(ip, name) /\ UNCHANGED graph
MElapse == Elapse /\ UNCHANGED graph

MTick(max_age) ==
    /\ DrainAndSweep(max_age)
    /\ graph' = [v \in Views |-> ApplyTick(graph[v], v, max_age)]

MReset ==
    /\ Reset
    /\ graph' = [v \in Views |-> EmptyGraph]

MNext ==
    \/ \E p \in Packets : MIngest(p)
    \/ \E ip \in Ips, name \in Names : MSetL3Label(ip, name)
    \/ \E max_age \in Fades : MTick(max_age)
    \/ MReset
    \/ MElapse

MSpec == MInit /\ [][MNext]_mvars
-----------------------------------------------------------------------------
(* A viewer that misses nothing shows the tables up to what changed since  *)
(* the last tick: an entry that is new, updated, renamed, faded or reset   *)
(* is never forgotten by the dirty marks and the removals.                 *)
MirrorAgrees == \A v \in Views : Agrees(graph[v], v)

(* The graph holds exactly what a client that connects now would be sent,  *)
(* right after each tick (snapshot_deltas and drain_deltas are two ways to *)
(* the same picture).                                                      *)
TickShowsSnapshot ==
    [][\A max_age \in Fades : MTick(max_age) =>
         \A v \in Views : graph'[v] = [nodes |-> SnapshotNodes(v)',
                                       edges |-> SnapshotEdges(v)']]_mvars
=============================================================================
