----------------------------- MODULE GraphView ------------------------------
(***************************************************************************)
(* The graph a browser tab keeps for one view (class GraphView and         *)
(* applyDelta in src/static/app.js), as operators on a graph value: a      *)
(* record of two maps, nodes by id and edges by key (the endpoints).       *)
(*                                                                         *)
(* Each operator applies a whole group of messages of one kind.  Messages  *)
(* of one kind have different ids and commute, so a group stands for its   *)
(* messages in any order, and a single message is a group of one.  Layout, *)
(* colours and rates are left out.                                         *)
(***************************************************************************)
EXTENDS Functions

EmptyGraph == [nodes |-> [x \in {} |-> x], edges |-> [x \in {} |-> x]]

(* f with the entries of g added or replaced. *)
Merge(f, g) ==
    [x \in DOMAIN f \cup DOMAIN g |-> IF x \in DOMAIN g THEN g[x] ELSE f[x]]

(* ensureEndpoint: an end not known yet is shown with no traffic. *)
Placeholder(a) == [label |-> a, bytes |-> 0, bytes_in |-> 0, bytes_out |-> 0]

UpsertNodes(g, ups) == [g EXCEPT !.nodes = Merge(@, ups)]

UpsertEdges(g, ups) ==
    LET ends == UNION DOMAIN ups IN
    [nodes |-> Merge([a \in ends |-> Placeholder(a)], g.nodes),
     edges |-> Merge(g.edges, ups)]

RemoveEdges(g, keys) ==
    [g EXCEPT !.edges = Restrict(@, DOMAIN @ \ keys)]

(* dropNode takes the node's edges with it. *)
RemoveNodes(g, ids) ==
    [nodes |-> Restrict(g.nodes, DOMAIN g.nodes \ ids),
     edges |-> Restrict(g.edges, {k \in DOMAIN g.edges : k \cap ids = {}})]

(* applyDelta on messages of the four types, by type, in the order of a    *)
(* tick.                                                                   *)
ApplyDeltas(g, d) ==
    LET g1 == UpsertNodes(g, d.upsert_node)
        g2 == UpsertEdges(g1, d.upsert_edge)
        g3 == RemoveEdges(g2, DOMAIN d.remove_edge)
    IN RemoveNodes(g3, DOMAIN d.remove_node)
=============================================================================
