------------------------------ MODULE Frontend ------------------------------
(***************************************************************************)
(* The session of one browser tab (static/app.js): the socket, the timer   *)
(* that reconnects it, Pause and Resume, Reset, and what the two views     *)
(* show.  The views are one set of entries; the messages are those of the  *)
(* server as a client that never lags receives them (module Broadcast has  *)
(* the ring, and the steps of a tick, a reset and a snapshot).             *)
(*                                                                         *)
(* Each socket has handlers of its own, so that the model does not suppose *)
(* that there is one socket.  Times are left out, and with them the length *)
(* of the reconnection delay: a timer fires at any time.                   *)
(***************************************************************************)
EXTENDS Integers, Sequences, FiniteSets, SequencesExt

CONSTANTS
    Items,      \* nodes and edges
    Sockets,    \* identities of WebSocket objects, reused once they are closed
    StreamCap   \* bound on the messages on their way to the tab

ASSUME FrontendAssumption ==
    /\ IsFiniteSet(Items)
    /\ Sockets # {} /\ StreamCap \in Nat \ {0}

VARIABLES
    world,      \* the entries of the server's tables
    ready,      \* readyState of each socket
    served,     \* the server has sent its snapshot on that socket
    stream,     \* what is on its way to the tab on that socket
    asked,      \* a reset command is on its way to the server on that socket
    socket,     \* the socket of the last connect
    timers,     \* calls of connect that setTimeout has scheduled
    paused,
    status,     \* the text of the status line
    shown       \* what the views show

wsvars == <<ready, served, stream, asked>>
vars == <<world, wsvars, socket, timers, paused, status, shown>>

Upsert(i) == [type |-> "upsert", id |-> i]
Removal(i) == [type |-> "remove", id |-> i]
ResetMsg == [type |-> "reset", id |-> "none"]

Apply(view, m) ==
    CASE m.type = "upsert" -> view \cup {m.id}
      [] m.type = "remove" -> view \ {m.id}
      [] m.type = "reset" -> {}

Existing == {s \in Sockets : ready[s] # "closed"}

(* Every socket that is served has room; then each of them gets m. *)
Broadcast(m) ==
    /\ \A s \in Sockets : served[s] => Len(stream[s]) < StreamCap
    /\ stream' = [s \in Sockets |-> IF served[s] THEN Append(stream[s], m) ELSE stream[s]]
-----------------------------------------------------------------------------
(* The page has been loaded and has called connect(). *)
Init ==
    /\ world \in SUBSET Items
    /\ \E s \in Sockets :
          /\ socket = s
          /\ ready = [x \in Sockets |-> IF x = s THEN "connecting" ELSE "closed"]
    /\ served = [s \in Sockets |-> FALSE]
    /\ stream = [s \in Sockets |-> <<>>]
    /\ asked = [s \in Sockets |-> FALSE]
    /\ timers = 0
    /\ paused = FALSE
    /\ status = "connecting"
    /\ shown = {}

(* The server: its tables change, it serves a connection, it resets. *)
Change ==
    /\ \/ \E i \in Items \ world : world' = world \cup {i} /\ Broadcast(Upsert(i))
       \/ \E i \in world : world' = world \ {i} /\ Broadcast(Removal(i))
    /\ UNCHANGED <<ready, served, asked, socket, timers, paused, status, shown>>

Serve(s) ==
    /\ ready[s] \in {"connecting", "open"}
    /\ ~served[s]
    /\ served' = [served EXCEPT ![s] = TRUE]
    /\ stream' = [stream EXCEPT ![s] = [k \in 1 .. Cardinality(world) |->
                                          Upsert(SetToSeq(world)[k])]]
    /\ UNCHANGED <<world, ready, asked, socket, timers, paused, status, shown>>

HandleReset(s) ==
    /\ asked[s]
    /\ served[s]
    /\ world' = {}
    /\ Broadcast(ResetMsg)
    /\ asked' = [asked EXCEPT ![s] = FALSE]
    /\ UNCHANGED <<ready, served, socket, timers, paused, status, shown>>

(* A switch of interface or another tab resets. *)
ResetElsewhere ==
    /\ world' = {}
    /\ Broadcast(ResetMsg)
    /\ UNCHANGED <<ready, served, asked, socket, timers, paused, status, shown>>
-----------------------------------------------------------------------------
(* connect(), called by the timer. *)
Connect(s) ==
    /\ timers > 0
    /\ s \notin Existing
    /\ timers' = timers - 1
    /\ ready' = [ready EXCEPT ![s] = "connecting"]
    /\ socket' = s
    /\ UNCHANGED <<world, served, stream, asked, paused, status, shown>>

(* Mutation of ClearedOnOpen: a paused tab is cleared too. *)
ClearedAlways == {}

(* Mutation of ClearedOnOpen: the views are never cleared. *)
NeverCleared == shown

(* onopen: the views of a paused tab stay as they are. *)
ClearedOnOpen == IF paused THEN shown ELSE {}

OnOpen(s) ==
    /\ ready[s] = "connecting"
    /\ ready' = [ready EXCEPT ![s] = "open"]
    /\ status' = IF paused THEN "paused" ELSE "live"
    /\ shown' = ClearedOnOpen
    /\ UNCHANGED <<world, served, stream, asked, socket, timers, paused>>

(* onmessage: a paused tab applies resets only.                            *)
OnMessage(s) ==
    /\ ready[s] = "open"
    /\ stream[s] # <<>>
    /\ LET m == Head(stream[s]) IN
       shown' = IF m.type = "reset" \/ ~paused THEN Apply(shown, m) ELSE shown
    /\ stream' = [stream EXCEPT ![s] = Tail(@)]
    /\ UNCHANGED <<world, ready, served, asked, socket, timers, paused, status>>

(* Mutation of RetryTimers: a socket the tab closed itself is not retried. *)
RetryOnFailure(s) == IF ready[s] = "closing" THEN timers ELSE timers + 1

RetryTimers(s) == timers + 1

(* A socket's end is told once, by onclose, which schedules connect;       *)
(* onerror only closes a socket that is about to end.                      *)
OnClose(s) ==
    /\ ready' = [ready EXCEPT ![s] = "closed"]
    /\ served' = [served EXCEPT ![s] = FALSE]
    /\ stream' = [stream EXCEPT ![s] = <<>>]
    /\ asked' = [asked EXCEPT ![s] = FALSE]
    /\ timers' = RetryTimers(s)
    /\ status' = IF paused THEN "paused" ELSE "disconnected"
    /\ UNCHANGED <<world, socket, paused, shown>>

Fail(s) == ready[s] \in {"connecting", "open"} /\ OnClose(s)
Closed(s) == ready[s] = "closing" /\ OnClose(s)

(* The Pause button. *)
Pause ==
    /\ ~paused
    /\ paused' = TRUE
    /\ UNCHANGED <<world, wsvars, socket, timers, status, shown>>

(* Mutation of ClosedByResume: the socket is kept. *)
KeptByResume == ready

(* Mutation of TimersAfterResume: Resume connects at once, and onclose too.*)
TwoConnects == timers + 1

(* socket.close() does nothing to a socket that is closed or closing. *)
ClosedByResume ==
    IF socket \in Existing THEN [ready EXCEPT ![socket] = "closing"] ELSE ready
TimersAfterResume == timers

Resume ==
    /\ paused
    /\ paused' = FALSE
    /\ ready' = ClosedByResume
    /\ timers' = TimersAfterResume
    /\ UNCHANGED <<world, served, stream, asked, socket, status, shown>>

(* The Reset button. *)
ClickReset ==
    /\ ready[socket] = "open"
    /\ asked' = [asked EXCEPT ![socket] = TRUE]
    /\ UNCHANGED <<world, ready, served, stream, socket, timers, paused, status, shown>>

Browser == \E s \in Sockets : Connect(s) \/ OnOpen(s) \/ OnMessage(s) \/ Closed(s)
Failure == \E s \in Sockets : Fail(s)

Next ==
    \/ Change \/ ResetElsewhere
    \/ \E s \in Sockets : Serve(s) \/ HandleReset(s)
    \/ Browser \/ Failure
    \/ Pause \/ Resume \/ ClickReset

(* The browser runs its timers and delivers what arrives, the end of a     *)
(* socket it closes included; the server serves each connection that is    *)
(* made.  Nothing is assumed of the user, the traffic or the network.      *)
Fairness ==
    /\ WF_vars(\E s \in Sockets : Connect(s))
    /\ \A s \in Sockets :
          /\ WF_vars(OnOpen(s)) /\ WF_vars(OnMessage(s)) /\ WF_vars(Closed(s))
          /\ WF_vars(Serve(s))

Spec == Init /\ [][Next]_vars /\ Fairness
-----------------------------------------------------------------------------
Messages ==
    {Upsert(i) : i \in Items} \cup {Removal(i) : i \in Items} \cup {ResetMsg}

TypeOK ==
    /\ world \subseteq Items /\ shown \subseteq Items
    /\ ready \in [Sockets -> {"connecting", "open", "closing", "closed"}]
    /\ served \in [Sockets -> BOOLEAN] /\ asked \in [Sockets -> BOOLEAN]
    /\ stream \in [Sockets -> Seq(Messages)]
    /\ socket \in Sockets
    /\ timers \in {0, 1}
    /\ paused \in BOOLEAN
    /\ status \in {"connecting", "live", "paused", "disconnected"}

(* There is always one attempt at being connected: a socket that has not   *)
(* ended, or a timer that will call connect.  A second one would apply     *)
(* every message twice and clear what the first shows, none would leave    *)
(* the tab dead (app.js:731-778).                                          *)
OneAttempt == Cardinality(Existing) + timers = 1

(* What a view will show once it has applied the messages of q: of those   *)
(* about an item the last one decides, and a reset is about every item.    *)
About(m, i) == m = ResetMsg \/ m.id = i
Future(view, q) ==
    {i \in Items :
        \/ i \in view /\ \A k \in DOMAIN q : ~About(q[k], i)
        \/ \E k \in DOMAIN q :
              q[k] = Upsert(i) /\ \A j \in DOMAIN q : About(q[j], i) => j <= k}

(* A tab that is not paused and whose socket is open will show the tables  *)
(* once it has read what is on its way, whatever it skipped while it was   *)
(* paused and whenever it was paused and resumed during the connection:    *)
(* "La reprise force une reconnexion -> le snapshot serveur remet les vues *)
(* exactement a jour" (app.js:553-554).                                    *)
UnpausedConverges ==
    \A s \in Sockets :
        (ready[s] = "open" /\ ~paused) =>
            IF served[s] THEN Future(shown, stream[s]) = world ELSE shown = {}

(* The status line is honest: an open socket of a tab that is not paused   *)
(* says "live", and the line says "live" only if the tab's socket is open, *)
(* or on its way to be closed and reconnected.  Of a paused tab it says no *)
(* more: Pause leaves the line as it is.                                   *)
StatusHonest ==
    /\ (ready[socket] = "open" /\ ~paused) => status = "live"
    /\ status = "live" => ready[socket] \in {"open", "closing"}

(* A paused tab shows what it showed when it was paused, through any loss  *)
(* and return of the connection, until the server resets the history       *)
(* (app.js:739-745, 755-757).                                              *)
FrozenUntilReset ==
    [][(paused /\ shown' # shown) =>
          \E s \in Sockets : /\ ready[s] = "open"
                             /\ stream[s] # <<>>
                             /\ Head(stream[s]) = ResetMsg
                             /\ shown' = {}]_vars

(* If the network stops failing and the user stops pausing and resuming,   *)
(* a tab that is not paused ends up served and stays so.                   *)
Calm == <>[][~(Failure \/ Pause \/ Resume)]_vars
ComesBack ==
    (Calm /\ <>[]~paused) => <>[](ready[socket] = "open" /\ served[socket])
=============================================================================
