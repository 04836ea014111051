------------------------------- MODULE Tables -------------------------------
(***************************************************************************)
(* The two aggregation tables (src/model/tables.rs) and the operations     *)
(* that change them.  Each is called with the tables' mutex held, so each  *)
(* is one action.                                                          *)
(*                                                                         *)
(* The struct's eight collections are grouped by view: for a view v,       *)
(* tables[v].conv is l2 or l3, tables[v].nodes is l2_nodes or l3_nodes and *)
(* tables[v].dirty_conv, tables[v].dirty_nodes are the matching dirty sets.*)
(* A HashMap is a function on the set of its keys.                         *)
(*                                                                         *)
(* ConvStats.last_seen is kept as `idle', the time since last_seen: code   *)
(* only ever compares now - last_seen with max_age.  ConvStats.packets and *)
(* proto_bytes are left out: they are set together with bytes, in the same *)
(* way, and nothing here depends on their values.                          *)
(***************************************************************************)
EXTENDS Integers, FiniteSets, Functions

CONSTANTS
    Macs,       \* MAC addresses on the wire
    Ips,        \* IP addresses on the wire
    Names,      \* names a reverse DNS lookup can return
    Packets,    \* the PacketMeta values parse_frame can produce
    NoL3,       \* PacketMeta.l3 = None: ARP, LLDP, ...
    Fades,      \* the values of fade_secs, in units of the model's clock
    IdleCap,    \* bound: idle times are not told apart beyond this one
    MaxBytes    \* bound: no entry counts more bytes than this

L3Flow == [src : Ips, dst : Ips]

ASSUME TablesAssumption ==
    /\ NoL3 \notin L3Flow
    /\ Packets \subseteq [src_mac : Macs, dst_mac : Macs, wire_len : Nat,
                          l3 : L3Flow \cup {NoL3}]
    /\ IdleCap \in Nat
    /\ MaxBytes \in Nat
    /\ Fades \subseteq {f \in Nat : f < IdleCap}

VARIABLES
    tables,     \* the two projections of the one capture, by view
    labels      \* l3_labels, the names resolved so far

tvars == <<tables, labels>>

Views == {"ether", "inter"}
Addr(v) == IF v = "ether" THEN Macs ELSE Ips

(* L2Key::new, L3Key::new: both directions of a conversation have one key. *)
Key(a, b) == {a, b}
Keys(v) == {Key(a, b) : a, b \in Addr(v)}

Stats == [bytes : Nat, tx_bytes : Nat, rx_bytes : Nat, idle : 0 .. IdleCap]

(* f is the value of a HashMap from K to S: a function on a part of K. *)
IsMap(f, K, S) == DOMAIN f \subseteq K /\ f \in [DOMAIN f -> S]

IsTable(t, v) ==
    /\ t = [conv |-> t.conv, nodes |-> t.nodes,
            dirty_conv |-> t.dirty_conv, dirty_nodes |-> t.dirty_nodes]
    /\ IsMap(t.conv, Keys(v), Stats)
    /\ IsMap(t.nodes, Addr(v), Stats)
    /\ t.dirty_conv \subseteq Keys(v)
    /\ t.dirty_nodes \subseteq Addr(v)

EmptyMap == [x \in {} |-> x]
EmptyTable == [conv |-> EmptyMap, nodes |-> EmptyMap,
               dirty_conv |-> {}, dirty_nodes |-> {}]
-----------------------------------------------------------------------------
(* Operators on one map or one table. *)

NewStats == [bytes |-> 0, tx_bytes |-> 0, rx_bytes |-> 0, idle |-> 0]

(* f.entry(k).or_insert_with(ConvStats::new) *)
Entry(f, k) == IF k \in DOMAIN f THEN f[k] ELSE NewStats

Put(f, k, s) == [x \in DOMAIN f \cup {k} |-> IF x = k THEN s ELSE f[x]]

(* Mutation of Add: rx_bytes is never counted. *)
AddSentOnly(s, len, tx, rx) ==
    [bytes |-> s.bytes + len, tx_bytes |-> s.tx_bytes + tx,
     rx_bytes |-> s.rx_bytes, idle |-> 0]

(* ConvStats::add, then the tx_bytes and rx_bytes of a node. *)
Add(s, len, tx, rx) ==
    [bytes |-> s.bytes + len, tx_bytes |-> s.tx_bytes + tx,
     rx_bytes |-> s.rx_bytes + rx, idle |-> 0]

(* One address of a frame; a frame from a to a touches a twice. *)
TouchNode(f, a, len, tx, rx) == Put(f, a, Add(Entry(f, a), len, tx, rx))

(* The half of Tables::ingest that concerns one view. *)
Project(t, src, dst, len) ==
    LET k == Key(src, dst) IN
    [conv |-> Put(t.conv, k, Add(Entry(t.conv, k), len, 0, 0)),
     nodes |-> TouchNode(TouchNode(t.nodes, src, len, len, 0), dst, len, 0, len),
     dirty_conv |-> t.dirty_conv \cup {k},
     dirty_nodes |-> t.dirty_nodes \cup {src, dst}]

(* Mutation of Marked: a renamed node is not marked. *)
Unmarked(t, a) == t

(* dirty_nodes.insert(a) *)
Marked(t, a) == [conv |-> t.conv, nodes |-> t.nodes,
                 dirty_conv |-> t.dirty_conv, dirty_nodes |-> t.dirty_nodes \cup {a}]

(* The dirty sets as drain_deltas leaves them. *)
Drained(t) == [conv |-> t.conv, nodes |-> t.nodes,
               dirty_conv |-> {}, dirty_nodes |-> {}]

Stale(f, max_age) == {k \in DOMAIN f : f[k].idle > max_age}
Retain(f, K) == Restrict(f, DOMAIN f \ K)

(* Mutation of Swept: the conversations are forgotten. *)
SweptNodesOnly(t, max_age) ==
    [t EXCEPT !.nodes = Retain(@, Stale(@, max_age)),
              !.dirty_nodes = @ \ Stale(t.nodes, max_age)]

(* Tables::fade_sweep on one view. *)
Swept(t, max_age) ==
    LET stale_conv == Stale(t.conv, max_age)
        stale_nodes == Stale(t.nodes, max_age)
    IN [conv |-> Retain(t.conv, stale_conv),
        nodes |-> Retain(t.nodes, stale_nodes),
        dirty_conv |-> t.dirty_conv \ stale_conv,
        dirty_nodes |-> t.dirty_nodes \ stale_nodes]

(* The passage of time, seen by every entry. *)
Older(s) == [s EXCEPT !.idle = IF @ < IdleCap THEN @ + 1 ELSE @]
Aged(t) == [conv |-> [k \in DOMAIN t.conv |-> Older(t.conv[k])],
            nodes |-> [a \in DOMAIN t.nodes |-> Older(t.nodes[a])],
            dirty_conv |-> t.dirty_conv, dirty_nodes |-> t.dirty_nodes]
-----------------------------------------------------------------------------
(* What the deltas carry. *)

(* Tables::l3_label; on the L2 side, oui::label is a function of the MAC.  *)
Label(v, a) == IF v = "inter" /\ a \in DOMAIN labels THEN labels[a] ELSE a

NodePayload(v, a) ==
    [label |-> Label(v, a), bytes |-> tables[v].nodes[a].bytes,
     bytes_in |-> tables[v].nodes[a].rx_bytes,
     bytes_out |-> tables[v].nodes[a].tx_bytes]

EdgePayload(v, k) == [bytes |-> tables[v].conv[k].bytes]

(* The entries drain_deltas sends: those marked and still present. *)
DrainedNodes(v) ==
    [a \in tables[v].dirty_nodes \cap DOMAIN tables[v].nodes |-> NodePayload(v, a)]
DrainedEdges(v) ==
    [k \in tables[v].dirty_conv \cap DOMAIN tables[v].conv |-> EdgePayload(v, k)]

(* The removals drain_deltas and fade_sweep return have no payload. *)
Removed(ids) == [x \in ids |-> "none"]

(* What a tick sends of a view, by type of message: what drain_deltas      *)
(* returns, then what fade_sweep returns.                                  *)
TickDeltas(v, max_age) ==
    [upsert_node |-> DrainedNodes(v), upsert_edge |-> DrainedEdges(v),
     remove_edge |-> Removed(Stale(tables[v].conv, max_age)),
     remove_node |-> Removed(Stale(tables[v].nodes, max_age))]

(* Tables::snapshot_deltas. *)
SnapshotNodes(v) == [a \in DOMAIN tables[v].nodes |-> NodePayload(v, a)]
SnapshotEdges(v) == [k \in DOMAIN tables[v].conv |-> EdgePayload(v, k)]
-----------------------------------------------------------------------------
Init ==
    /\ tables = [v \in Views |-> EmptyTable]
    /\ labels = EmptyMap

(* Tables::ingest.  The bound keeps every counter at MaxBytes or below. *)
Ingest(p) ==
    LET Fits(s) == s.bytes + 2 * p.wire_len <= MaxBytes IN
    /\ \A a \in {p.src_mac, p.dst_mac} : Fits(Entry(tables["ether"].nodes, a))
    /\ p.l3 # NoL3 =>
          \A a \in {p.l3.src, p.l3.dst} : Fits(Entry(tables["inter"].nodes, a))
    /\ tables' =
          [v \in Views |->
             IF v = "ether"
             THEN Project(tables[v], p.src_mac, p.dst_mac, p.wire_len)
             ELSE IF p.l3 = NoL3
                  THEN tables[v]
                  ELSE Project(tables[v], p.l3.src, p.l3.dst, p.wire_len)]
    /\ UNCHANGED labels

(* Mutation of SetL3Label: the node is marked even when it has faded. *)
SetL3LabelAlways(ip, name) ==
    /\ labels' = Put(labels, ip, name)
    /\ tables' = [tables EXCEPT !["inter"] = Marked(@, ip)]

(* Tables::set_l3_label, on the answer of a reverse lookup: the node is    *)
(* sent again if it is shown, and the name is kept in any case.            *)
SetL3Label(ip, name) ==
    /\ labels' = Put(labels, ip, name)
    /\ tables' = IF ip \in DOMAIN tables["inter"].nodes
                 THEN [tables EXCEPT !["inter"] = Marked(@, ip)]
                 ELSE tables

(* Mutation of DrainAndSweep: the L3 table is not swept. *)
DrainAndSweepL2(max_age) ==
    /\ tables' = [v \in Views |-> IF v = "ether" THEN Swept(Drained(tables[v]), max_age)
                                  ELSE Drained(tables[v])]
    /\ UNCHANGED labels

(* The critical section of a tick: drain_deltas, then fade_sweep. *)
DrainAndSweep(max_age) ==
    /\ tables' = [v \in Views |-> Swept(Drained(tables[v]), max_age)]
    /\ UNCHANGED labels

(* Mutation of Reset: the dirty marks survive. *)
ResetMapsOnly ==
    /\ tables' = [v \in Views |-> [tables[v] EXCEPT !.conv = EmptyMap, !.nodes = EmptyMap]]
    /\ UNCHANGED labels

(* Tables::reset: everything but the names. *)
Reset ==
    /\ tables' = [v \in Views |-> EmptyTable]
    /\ UNCHANGED labels

Elapse ==
    /\ tables' = [v \in Views |-> Aged(tables[v])]
    /\ UNCHANGED labels

Next ==
    \/ \E p \in Packets : Ingest(p)
    \/ \E ip \in Ips, name \in Names : SetL3Label(ip, name)
    \/ \E max_age \in Fades : DrainAndSweep(max_age)
    \/ Reset
    \/ Elapse

Spec == Init /\ [][Next]_tvars
-----------------------------------------------------------------------------
TypeOK ==
    /\ tables = [v \in Views |-> tables[v]]
    /\ \A v \in Views : IsTable(tables[v], v)
    /\ IsMap(labels, Ips, Names)

(* What graph g of view v may say of the tables: nothing that is not there,*)
(* everything not marked dirty, with its value, and no edge without ends.  *)
Agrees(g, v) ==
    LET t == tables[v] IN
    /\ DOMAIN g.nodes \subseteq DOMAIN t.nodes
    /\ DOMAIN g.edges \subseteq DOMAIN t.conv
    /\ \A a \in DOMAIN t.nodes \ t.dirty_nodes :
          a \in DOMAIN g.nodes /\ g.nodes[a] = NodePayload(v, a)
    /\ \A k \in DOMAIN t.conv \ t.dirty_conv :
          k \in DOMAIN g.edges /\ g.edges[k] = EdgePayload(v, k)
    /\ \A k \in DOMAIN g.edges : k \subseteq DOMAIN g.nodes

(* Both ends of a conversation are nodes of its view, each heard at least  *)
(* as recently as the conversation: what fade_sweep relies on to remove    *)
(* stale edges first and then stale nodes, and never leave an edge without *)
(* its ends (tables.rs:248-249).                                           *)
EndsFresher(t) ==
    \A k \in DOMAIN t.conv : \A a \in k :
        a \in DOMAIN t.nodes /\ t.nodes[a].idle <= t.conv[k].idle

EndpointsCovered == \A v \in Views : EndsFresher(tables[v])

(* Only entries that exist are marked dirty, so drain_deltas never meets a *)
(* marked entry it has to skip, whatever fades, is reset or is renamed.    *)
DirtyPresent ==
    \A v \in Views : /\ tables[v].dirty_conv \subseteq DOMAIN tables[v].conv
                     /\ tables[v].dirty_nodes \subseteq DOMAIN tables[v].nodes

(* A conversation between IPs always has a conversation between MACs that  *)
(* was heard at least as recently: the two tables are projections of one   *)
(* flow of frames, and the fade never parts them (tables.rs:1-2).          *)
OneFlow ==
    \A k \in DOMAIN tables["inter"].conv :
        \E e \in DOMAIN tables["ether"].conv :
            tables["ether"].conv[e].idle <= tables["inter"].conv[k].idle

(* Seen from the resolver, the tables are no more than the addresses they  *)
(* show, their marks and the names: every operation is one of ShownIps or  *)
(* leaves all three alone, whatever the fade removes.                      *)
Shown == INSTANCE ShownIps WITH nodes <- DOMAIN tables["inter"].nodes,
                                dirty <- tables["inter"].dirty_nodes
IpsImplemented == Shown!SSpec

(* The conversations of a, and what each counts for in the bytes of a. *)
Incident(t, a) == {k \in DOMAIN t.conv : a \in k}
Shares(t, a) ==
    [k \in Incident(t, a) |->
        IF k = Key(a, a) THEN 2 * t.conv[k].bytes ELSE t.conv[k].bytes]

(* A node's bytes are those it sent and those it received, and at least    *)
(* those of the conversations it still shows; a frame from a node to       *)
(* itself is counted in both directions.  A node that faded before one of  *)
(* its conversations, or was re-created beside it, would show less.        *)
Accounted(t) ==
    \A a \in DOMAIN t.nodes :
        /\ t.nodes[a].bytes = t.nodes[a].tx_bytes + t.nodes[a].rx_bytes
        /\ SumFunctionOnSet(Shares(t, a), Incident(t, a)) <= t.nodes[a].bytes

NodeAccounting == \A v \in Views : Accounted(tables[v])
=============================================================================
