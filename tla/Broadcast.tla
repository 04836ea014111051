----------------------------- MODULE Broadcast ------------------------------
(***************************************************************************)
(* From the tables to the browsers: the tick of aggregate_loop             *)
(* (src/main.rs), reset_history and client_loop (src/server/mod.rs), the   *)
(* tokio broadcast ring between them, and each browser's graphs.           *)
(*                                                                         *)
(* The tables' mutex makes DrainAndSweep, Reset and the snapshot atomic,   *)
(* but the messages that follow them are sent after the mutex is released, *)
(* one by one, while other tasks run.  A tab's socket is FIFO, so what the *)
(* server task sends and what the browser applies is one step.             *)
(***************************************************************************)
EXTENDS Tables, GraphView, Sequences

CONSTANTS
    Clients,    \* browser tabs, each served by one client_loop
    Callers,    \* tasks that call reset_history: another tab, the switch loop
    Capacity    \* size of the broadcast ring

ASSUME BroadcastAssumption == Capacity \in Nat \ {0}

VARIABLES
    pending,    \* what the current tick has still to send, by view and type
    resetting,  \* callers that have cleared the tables and not sent Reset yet
    conn,       \* where each client_loop is
    inbox,      \* what is left to a client in the ring
    missed,     \* the ring has overwritten messages of that client
    snap,       \* the snapshot a client has still to send
    graphs      \* what each browser shows, by view

bvars == <<tables, labels, pending, resetting, conn, inbox, missed, snap, graphs>>

(* History, for the properties: no guard of the system reads it. *)
VARIABLES
    lost,       \* the worst message a client has lost, until a reset makes up
    early,      \* callers that were in resetting when the batch was drained
    overtaken,  \* callers in resetting that a later batch's message overtook
    late,       \* a reset made after the batch was drained is already sent
    raced       \* clients to which messages and a reset went in the wrong order

hvars == <<lost, early, overtaken, late, raced>>
vars == <<bvars, hvars>>

ResetMsg == [type |-> "reset"]
Delta(type, v, id, payload) ==
    [type |-> type, view |-> v, id |-> id, payload |-> payload]

(* The deltas of a tick in the order of the code: nodes before edges, then *)
(* removed edges before removed nodes, the L2 view first each time.  The   *)
(* order within a group is that of a HashMap or a HashSet: any.            *)
Place == [upsert_node |-> 0, upsert_edge |-> 2, remove_edge |-> 4, remove_node |-> 6]
Types == DOMAIN Place
Rank(v, type) == Place[type] + (IF v = "ether" THEN 0 ELSE 1)

NoDeltas == [v \in Views |-> [type \in Types |-> EmptyMap]]
Idle == pending = NoDeltas

Snapshot == [v \in Views |-> [nodes |-> SnapshotNodes(v), edges |-> SnapshotEdges(v)]]
Blank == [v \in Views |-> EmptyGraph]

(* A message by itself, as a group. *)
Alone(m) == [type \in Types |-> IF type = m.type THEN [x \in {m.id} |-> m.payload]
                                ELSE EmptyMap]

(* applyDelta and the reset branch of onmessage. *)
Apply(G, m) ==
    IF m.type = "reset" THEN Blank
    ELSE [G EXCEPT ![m.view] = ApplyDeltas(@, Alone(m))]

ApplySnapshot(G, s) ==
    [v \in Views |-> UpsertEdges(UpsertNodes(G[v], s[v].nodes), s[v].edges)]

(* Mutations of Subscribed and Overrun: a client subscribes only once its  *)
(* snapshot is sent; the ring has no limit.                                *)
SubscribedLate(c) == conn[c] = "live"
NeverOverrun(c) == FALSE

(* deltas_tx.send: every subscriber gets m; one whose share of the ring is *)
(* full loses its oldest message and will be told Lagged.                  *)
Subscribed(c) == conn[c] # "off"
Overrun(c) == Subscribed(c) /\ Len(inbox[c]) = Capacity
Send(m) ==
    /\ inbox' = [c \in Clients |->
                   IF Overrun(c) THEN Append(Tail(inbox[c]), m)
                   ELSE IF Subscribed(c) THEN Append(inbox[c], m) ELSE inbox[c]]
    /\ missed' = [c \in Clients |-> missed[c] \/ Overrun(c)]
    /\ lost' = [c \in Clients |->
                  IF ~Overrun(c) \/ lost[c] = "removal" THEN lost[c]
                  ELSE IF Head(inbox[c]).type \in {"remove_node", "remove_edge"}
                       THEN "removal" ELSE "other"]
-----------------------------------------------------------------------------
BInit ==
    /\ Init
    /\ Idle
    /\ resetting = {}
    /\ conn = [c \in Clients |-> "off"]
    /\ inbox = [c \in Clients |-> <<>>]
    /\ missed = [c \in Clients |-> FALSE]
    /\ snap = [c \in Clients |-> Blank]
    /\ graphs = [c \in Clients |-> Blank]
    /\ lost = [c \in Clients |-> "nothing"]
    /\ early = {} /\ overtaken = {} /\ late = FALSE /\ raced = {}

clientvars == <<conn, inbox, missed, snap, graphs>>

(* aggregate_loop is one task: it takes frames and lookup answers only     *)
(* once the messages of the last tick are sent.                            *)
BIngest(p) ==
    /\ Idle
    /\ Ingest(p)
    /\ UNCHANGED <<pending, resetting, clientvars, hvars>>

BSetL3Label(ip, name) ==
    /\ Idle
    /\ SetL3Label(ip, name)
    /\ UNCHANGED <<pending, resetting, clientvars, hvars>>

TickLocked(max_age) ==
    /\ Idle
    /\ DrainAndSweep(max_age)
    /\ pending' = [v \in Views |-> TickDeltas(v, max_age)]
    /\ early' = resetting
    /\ late' = FALSE
    /\ UNCHANGED <<resetting, clientvars, lost, overtaken, raced>>

TickSend(v, type, id) ==
    /\ id \in DOMAIN pending[v][type]
    /\ \A w \in Views, earlier \in Types :
          Rank(w, earlier) < Rank(v, type) => pending[w][earlier] = EmptyMap
    /\ Send(Delta(type, v, id, pending[v][type][id]))
    /\ pending' = [pending EXCEPT ![v][type] = Restrict(@, DOMAIN @ \ {id})]
    /\ overtaken' = overtaken \cup early
    /\ raced' = IF late THEN raced \cup {c \in Clients : Subscribed(c)} ELSE raced
    /\ UNCHANGED <<tables, labels, resetting, conn, snap, graphs, early, late>>

(* reset_history: the tables first, the message once the mutex is released.*)
ResetLocked(r) ==
    /\ r \notin resetting
    /\ Reset
    /\ resetting' = resetting \cup {r}
    /\ UNCHANGED <<pending, clientvars, hvars>>

ResetSend(r) ==
    /\ r \in resetting
    /\ Send(ResetMsg)
    /\ resetting' = resetting \ {r}
    /\ early' = early \ {r}
    /\ overtaken' = overtaken \ {r}
    /\ late' = (late \/ (~Idle /\ r \notin early))
    /\ raced' = IF r \in overtaken THEN {c \in Clients : Subscribed(c)} ELSE {}
    /\ UNCHANGED <<tables, labels, pending, conn, snap, graphs>>

BElapse ==
    /\ Elapse
    /\ UNCHANGED <<pending, resetting, clientvars, hvars>>

(* client_loop subscribes before it reads the tables; the browser clears   *)
(* its graphs when the socket opens.                                       *)
Subscribe(c) ==
    /\ conn[c] = "off"
    /\ conn' = [conn EXCEPT ![c] = "subscribed"]
    /\ graphs' = [graphs EXCEPT ![c] = Blank]
    /\ UNCHANGED <<tables, labels, pending, resetting, inbox, missed, snap, hvars>>

TakeSnapshot(c) ==
    /\ conn[c] = "subscribed"
    /\ conn' = [conn EXCEPT ![c] = "snapshot"]
    /\ snap' = [snap EXCEPT ![c] = Snapshot]
    /\ UNCHANGED <<tables, labels, pending, resetting, inbox, missed, graphs, hvars>>

SendSnapshot(c) ==
    /\ conn[c] = "snapshot"
    /\ conn' = [conn EXCEPT ![c] = "live"]
    /\ graphs' = [graphs EXCEPT ![c] = ApplySnapshot(@, snap[c])]
    /\ snap' = [snap EXCEPT ![c] = Blank]
    /\ UNCHANGED <<tables, labels, pending, resetting, inbox, missed, hvars>>

Receive(c) ==
    /\ conn[c] = "live"
    /\ ~missed[c]
    /\ inbox[c] # <<>>
    /\ graphs' = [graphs EXCEPT ![c] = Apply(@, Head(inbox[c]))]
    /\ inbox' = [inbox EXCEPT ![c] = Tail(@)]
    /\ lost' = IF Head(inbox[c]) = ResetMsg THEN [lost EXCEPT ![c] = "nothing"] ELSE lost
    /\ UNCHANGED <<tables, labels, pending, resetting, conn, missed, snap,
                   early, overtaken, late, raced>>

(* recv() returns Lagged once, then goes on with the oldest message left.  *)
SkipMissed(c) ==
    /\ conn[c] = "live"
    /\ missed[c]
    /\ missed' = [missed EXCEPT ![c] = FALSE]
    /\ UNCHANGED <<tables, labels, pending, resetting, conn, inbox, snap, graphs, hvars>>

(* The socket fails or closes at any point; the graphs stay on the screen. *)
Disconnect(c) ==
    /\ Subscribed(c)
    /\ conn' = [conn EXCEPT ![c] = "off"]
    /\ inbox' = [inbox EXCEPT ![c] = <<>>]
    /\ missed' = [missed EXCEPT ![c] = FALSE]
    /\ snap' = [snap EXCEPT ![c] = Blank]
    /\ lost' = [lost EXCEPT ![c] = "nothing"]
    /\ raced' = raced \ {c}
    /\ UNCHANGED <<tables, labels, pending, resetting, graphs, early, overtaken, late>>

BNext ==
    \/ \E p \in Packets : BIngest(p)
    \/ \E ip \in Ips, name \in Names : BSetL3Label(ip, name)
    \/ \E max_age \in Fades : TickLocked(max_age)
    \/ \E v \in Views, type \in Types :
          \E id \in DOMAIN pending[v][type] : TickSend(v, type, id)
    \/ \E r \in Callers : ResetLocked(r) \/ ResetSend(r)
    \/ BElapse
    \/ \E c \in Clients :
          \/ Subscribe(c) \/ TakeSnapshot(c) \/ SendSnapshot(c)
          \/ Receive(c) \/ SkipMissed(c) \/ Disconnect(c)

BSpec == BInit /\ [][BNext]_vars
-----------------------------------------------------------------------------
BTypeOK ==
    /\ TypeOK
    /\ resetting \subseteq Callers
    /\ conn \in [Clients -> {"off", "subscribed", "snapshot", "live"}]
    /\ missed \in [Clients -> BOOLEAN]
    /\ \A c \in Clients : Len(inbox[c]) <= Capacity

(* What graphs G are after the messages of s. *)
After(G, s) ==
    LET g[i \in 0 .. Len(s)] == IF i = 0 THEN G ELSE Apply(g[i - 1], s[i])
    IN g[Len(s)]

(* What client c will show once it has sent its snapshot, read what is in  *)
(* the ring and received the rest of the current tick.                     *)
OnScreen(c) == IF conn[c] = "snapshot" THEN ApplySnapshot(graphs[c], snap[c])
               ELSE graphs[c]
Future(c) ==
    LET G == After(OnScreen(c), inbox[c])
    IN [v \in Views |-> ApplyDeltas(G[v], pending[v])]

Served(c) == conn[c] \in {"snapshot", "live"}
Whole(c) == lost[c] = "nothing"

(* No reset has crossed the messages of a tick on the way to client c, nor *)
(* is one crossing them now.                                               *)
Uncrossed(c) == c \notin raced /\ resetting = {} /\ (~Idle => ~late)

(* A client that has missed nothing, or nothing since a reset, is always   *)
(* on its way to the tables: a snapshot taken between two messages,        *)
(* messages older than the snapshot, a tick sent in pieces, entries that   *)
(* fade and come back, and resets whose message did not cross a tick's all *)
(* leave it, once it has read what was sent, in agreement with every entry *)
(* not marked dirty (server/mod.rs:134-135).                               *)
ClientsConverge ==
    \A c \in Clients :
        (Served(c) /\ Whole(c) /\ Uncrossed(c)) =>
            \A v \in Views : Agrees(Future(c)[v], v)

(* Nothing is left to send, to receive or to drain. *)
Quiet(c) ==
    /\ conn[c] = "live"
    /\ inbox[c] = <<>>
    /\ ~missed[c]
    /\ Idle
    /\ resetting = {}
    /\ \A v \in Views : tables[v].dirty_nodes = {} /\ tables[v].dirty_conv = {}

(* A client that skipped no message shows the tables when all is quiet,    *)
(* whatever resets there were.                                             *)
QuietShowsTables == \A c \in Clients : (Quiet(c) /\ Whole(c)) => graphs[c] = Snapshot

(* A client that fell behind shows nothing the tables do not hold, when    *)
(* all is quiet and no removal was among what it lost: "le flux d'upserts  *)
(* se repare au tick suivant" (RESEARCH.md:92-93).                         *)
SkippedIsRepaired ==
    \A c \in Clients :
        (Quiet(c) /\ Uncrossed(c) /\ lost[c] # "removal") =>
            \A v \in Views : DOMAIN graphs[c][v].nodes \subseteq DOMAIN tables[v].nodes
=============================================================================
