------------------------------ MODULE ShownIps ------------------------------
(***************************************************************************)
(* What the rest of the program may assume of the L3 nodes of the tables   *)
(* (src/model/tables.rs): which addresses are shown, which of them the     *)
(* next tick will send, and the names resolved so far.  Tables implements  *)
(* it (IpsImplemented there); Resolver is built on it.                     *)
(***************************************************************************)
CONSTANTS
    Ips,        \* IP addresses on the wire
    Names       \* names a reverse lookup can return

VARIABLES
    nodes,      \* keys of l3_nodes
    dirty,      \* dirty_l3_nodes
    labels      \* l3_labels

svars == <<nodes, dirty, labels>>

SInit == nodes = {} /\ dirty = {} /\ labels = [x \in {} |-> x]

(* Frames from and to the addresses heard, under one lock. *)
Hear(heard) ==
    /\ nodes' = nodes \cup heard
    /\ dirty' = dirty \cup heard
    /\ UNCHANGED labels

(* set_l3_label: an address that is not shown keeps its name for later. *)
Name(ip, name) ==
    /\ labels' = [x \in DOMAIN labels \cup {ip} |-> IF x = ip THEN name ELSE labels[x]]
    /\ dirty' = dirty \cup ({ip} \cap nodes)
    /\ UNCHANGED nodes

(* drain_deltas, then fade_sweep: nothing stays marked. *)
Sweep(gone) ==
    /\ gone \subseteq nodes
    /\ nodes' = nodes \ gone
    /\ dirty' = {}
    /\ UNCHANGED labels

Forget ==
    /\ nodes' = {}
    /\ dirty' = {}
    /\ UNCHANGED labels

SNext ==
    \/ \E heard \in SUBSET Ips : Hear(heard)
    \/ \E ip \in Ips, name \in Names : Name(ip, name)
    \/ \E gone \in SUBSET Ips : Sweep(gone)
    \/ Forget

SSpec == SInit /\ [][SNext]_svars
=============================================================================
