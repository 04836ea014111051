------------------------------ MODULE Capture -------------------------------
(***************************************************************************)
(* Capture: the Controller and its capture thread, or the thread that      *)
(* replays a file (src/capture/mod.rs), the channel to the aggregator, the *)
(* task that serves interface requests, iface_switch_loop, and the end of  *)
(* main (src/main.rs).                                                     *)
(*                                                                         *)
(* A frame is the interface it was captured on, None in a file.  switch_to *)
(* and stop take one step per lock, join or spawn: the capture thread, the *)
(* aggregator and main run in between.                                     *)
(***************************************************************************)
EXTENDS Integers, Sequences, FiniteSets

CONSTANTS
    Ifaces,         \* capture interfaces
    First,          \* the interface chosen on the command line
    Matches,        \* the interfaces whose name or description contains the
                    \* name of a given one
    Slots,          \* identities of capture threads; reused once ended
    None,           \* no interface, no thread
    ChanCapacity,   \* CHANNEL_CAPACITY
    BatchMax,       \* the limit given to recv_many
    QueueCapacity,  \* capacity of the channel of interface requests
    MaxFrames       \* bound: frames captured in a behaviour

ASSUME CaptureAssumption ==
    /\ First \in Ifaces
    /\ Matches \in [Ifaces -> SUBSET Ifaces]
    /\ None \notin Ifaces \cup Slots
    /\ ChanCapacity \in Nat \ {0} /\ QueueCapacity \in Nat \ {0}
    /\ BatchMax \in Nat \ {0}
    /\ MaxFrames \in Nat
    /\ IsFiniteSet(Slots) /\ Slots # {}

VARIABLES
    threads,    \* capture threads: interface, progress, shutdown flag
    running,    \* Controller.running: the thread it knows of, or None
    offline,    \* offline_thread: the thread that replays a file, or None
    chan,       \* meta_tx -> meta_rx
    buf,        \* frames aggregate_loop has received and not ingested yet
    receiving,  \* aggregate_loop is there, and with it meta_rx
    poisoned,   \* a task has panicked with the tables locked
    stats,      \* CaptureStats; the frames the aggregator has ingested, and those
                \* it held, in hand or in the channel, when it went
    shown,      \* interfaces whose frames are in the tables
    requests,   \* iface_tx -> iface_rx
    loop,       \* progress of iface_switch_loop, through switch_to
    job,        \* its request: the interface, the new thread, whether it is Ok
    current,    \* IfaceState.current
    announced,  \* the interface of the last Interfaces message
    main        \* progress of the end of main

ctlvars == <<threads, running, offline, requests, loop, job, current, announced>>
chanvars == <<chan, buf, receiving, poisoned>>
datavars == <<chanvars, stats, shown>>
vars == <<ctlvars, datavars, main>>

NoJob == [wanted |-> None, slot |-> None, ok |-> FALSE]
Idle == [iface |-> None, at |-> "ended", shutdown |-> FALSE]
Opening(i) == [iface |-> i, at |-> "opening", shutdown |-> FALSE]
Alive == {s \in Slots : threads[s].at # "ended"}

(* An identity that is free: which one makes no difference. *)
FreshIn(S) == CHOOSE s \in S : TRUE

(* Controller::current *)
CtlCurrent == IF running = None THEN None ELSE threads[running].iface

(* The thread s has been spawned before the runtime starts, and may not    *)
(* have opened anything yet: main has called switch_to and                 *)
(* refresh_iface_state, or has been given a file and needs no controller.  *)
StartLive(s) ==
    /\ threads = [x \in Slots |-> IF x = s THEN Opening(First) ELSE Idle]
    /\ running = s /\ offline = None
    /\ loop = "idle"
    /\ current = First /\ announced = First

StartReplay(s) ==
    /\ threads = [x \in Slots |-> IF x = s THEN Opening(None) ELSE Idle]
    /\ running = None /\ offline = s
    /\ loop = "gone"
    /\ current = None /\ announced = None

Init ==
    /\ LET s == FreshIn(Slots) IN StartLive(s) \/ StartReplay(s)
    /\ chan = <<>>
    /\ buf = <<>> /\ receiving = TRUE /\ poisoned = FALSE
    /\ stats = [frames |-> 0, parse_errors |-> 0, chan_drops |-> 0,
                ingested |-> 0, lost |-> 0]
    /\ shown = {}
    /\ requests = <<>>
    /\ job = NoJob
    /\ main = "serving"
-----------------------------------------------------------------------------
(* The capture thread: run_live or run_file. *)

SetAt(s, at) == threads' = [threads EXCEPT ![s].at = at]

Open(s) ==
    /\ threads[s].at = "opening"
    /\ SetAt(s, "checking") \/ SetAt(s, "ended")
    /\ UNCHANGED <<running, requests, loop, job, current, announced, datavars, offline, main>>

(* Mutation of CheckFlag: the flag is not read. *)
CheckFlagIgnored(s) ==
    /\ threads[s].at = "checking"
    /\ SetAt(s, "reading")
    /\ UNCHANGED <<running, requests, loop, job, current, announced, datavars, offline, main>>

(* The shutdown flag is read before each call of next_packet. *)
CheckFlag(s) ==
    /\ threads[s].at = "checking"
    /\ SetAt(s, IF threads[s].shutdown THEN "ended" ELSE "reading")
    /\ UNCHANGED <<running, requests, loop, job, current, announced, datavars, offline, main>>

(* next_packet fails or is at the end of the file, and the loop ends; in a *)
(* live capture it also times out.                                         *)
NoPacket(s) ==
    /\ threads[s].at = "reading"
    /\ \/ SetAt(s, "ended")
       \/ s # offline /\ SetAt(s, "checking")
    /\ UNCHANGED <<running, requests, loop, job, current, announced, datavars, offline, main>>

(* try_send fails: meta_rx is gone, or there is no room. *)
Refused == ~receiving \/ Len(chan) = ChanCapacity

(* Mutation of OnPacket: only a full channel is counted, not a closed one. *)
OnPacketFullOnly(i, parsed) ==
    /\ stats' = [stats EXCEPT !.frames = @ + 1,
                              !.parse_errors = IF parsed THEN @ ELSE @ + 1,
                              !.chan_drops = IF parsed /\ Len(chan) = ChanCapacity
                                             THEN @ + 1 ELSE @]
    /\ chan' = IF parsed /\ ~Refused THEN Append(chan, i) ELSE chan

(* The callback of make_on_packet: parse, then try_send, never blocking.   *)
OnPacket(i, parsed) ==
    IF ~parsed
    THEN /\ stats' = [stats EXCEPT !.frames = @ + 1, !.parse_errors = @ + 1]
         /\ UNCHANGED chan
    ELSE IF Refused
    THEN /\ stats' = [stats EXCEPT !.frames = @ + 1, !.chan_drops = @ + 1]
         /\ UNCHANGED chan
    ELSE /\ stats' = [stats EXCEPT !.frames = @ + 1]
         /\ chan' = Append(chan, i)

Packet(s) ==
    /\ threads[s].at = "reading"
    /\ stats.frames < MaxFrames
    /\ \E parsed \in BOOLEAN : OnPacket(threads[s].iface, parsed)
    /\ SetAt(s, "checking")
    /\ UNCHANGED <<running, requests, loop, job, current, announced,
                   buf, receiving, poisoned, shown, offline, main>>

(* aggregate_loop: recv_many takes what there is, up to its limit.         *)
Receive ==
    /\ receiving
    /\ buf = <<>> /\ chan # <<>>
    /\ LET n == IF Len(chan) < BatchMax THEN Len(chan) ELSE BatchMax
       IN /\ buf' = SubSeq(chan, 1, n)
          /\ chan' = SubSeq(chan, n + 1, Len(chan))
    /\ UNCHANGED <<ctlvars, receiving, poisoned, stats, shown, main>>

(* The batch is put in the tables, under their lock. *)
Ingest ==
    /\ buf # <<>> /\ ~poisoned
    /\ buf' = <<>>
    /\ stats' = [stats EXCEPT !.ingested = @ + Len(buf)]
    /\ shown' = shown \cup {buf[k] : k \in 1 .. Len(buf)}
    /\ UNCHANGED <<ctlvars, chan, receiving, poisoned, main>>

(* aggregate_loop ends, and meta_rx with it: the frames it had in hand and *)
(* those in the channel go, and no counter says so.                        *)
AggregatorGone ==
    /\ receiving' = FALSE
    /\ chan' = <<>> /\ buf' = <<>>
    /\ stats' = [stats EXCEPT !.lost = @ + Len(chan) + Len(buf)]
    /\ UNCHANGED <<ctlvars, poisoned, shown, main>>

(* A task of a client panics with the tables locked. *)
Panic ==
    /\ main \in {"serving", "dropping"}
    /\ ~poisoned
    /\ poisoned' = TRUE
    /\ UNCHANGED <<ctlvars, chan, buf, receiving, stats, shown, main>>

(* Each branch of the loop returns when it finds the lock poisoned. *)
ReturnPoisoned == receiving /\ poisoned /\ AggregatorGone
-----------------------------------------------------------------------------
(* iface_switch_loop. *)

(* Mutation of Request: the queue has no limit. *)
RequestUnbounded(i) ==
    /\ main = "serving" /\ offline = None
    /\ requests' = Append(requests, i)
    /\ UNCHANGED <<threads, running, loop, job, current, announced, datavars, offline, main>>

(* A tab asks for an interface: try_send, refused when the queue is full,  *)
(* ignored when a file is replayed.                                        *)
Request(i) ==
    /\ main = "serving" /\ offline = None
    /\ Len(requests) < QueueCapacity
    /\ requests' = Append(requests, i)
    /\ UNCHANGED <<threads, running, loop, job, current, announced, datavars, offline, main>>

TakeRequest ==
    /\ loop = "idle"
    /\ requests # <<>>
    /\ requests' = Tail(requests)
    /\ job' = [NoJob EXCEPT !.wanted = Head(requests)]
    /\ loop' = "finding"
    /\ UNCHANGED <<threads, running, current, announced, datavars, offline, main>>

(* list_devices and find_device: the first interface of the list with that *)
(* name in its own, which is not always the one asked for.  It may be gone.*)
Find ==
    /\ loop = "finding"
    /\ \/ \E found \in Matches[job.wanted] :
             job' = [job EXCEPT !.wanted = found] /\ loop' = "stopping"
       \/ loop' = "switched" /\ UNCHANGED job
    /\ UNCHANGED <<threads, running, requests, current, announced, datavars, offline, main>>

Flagged(slot) ==
    [s \in Slots |-> IF s = slot THEN [threads[s] EXCEPT !.shutdown = TRUE] ELSE threads[s]]

(* Mutation of TakeAndFlag: the flag is not raised. *)
TakeOnly == UNCHANGED threads /\ running' = None

(* Controller::stop: take the running capture and raise its flag. *)
TakeAndFlag == threads' = Flagged(running) /\ running' = None

(* Mutation of Joined: the thread is not waited for. *)
NotJoined(slot) == TRUE

(* Controller::stop, the join: until the thread has ended. *)
Joined(slot) == \A s \in Slots : s = slot => threads[s].at = "ended"

Stop ==
    /\ loop = "stopping"
    /\ TakeAndFlag
    /\ job' = [job EXCEPT !.slot = running]
    /\ loop' = "joining"
    /\ UNCHANGED <<requests, current, announced, datavars, offline, main>>

Join ==
    /\ loop = "joining"
    /\ Joined(job.slot)
    /\ loop' = "spawning"
    /\ UNCHANGED <<threads, running, requests, job, current, announced, datavars, offline, main>>

SpawnThread ==
    /\ loop = "spawning"
    /\ Slots \ Alive # {}
    /\ LET s == FreshIn(Slots \ Alive)
       IN /\ threads' = [threads EXCEPT ![s] = Opening(job.wanted)]
          /\ job' = [job EXCEPT !.slot = s]
    /\ loop' = "storing"
    /\ UNCHANGED <<running, requests, current, announced, datavars, offline, main>>

SpawnFails ==
    /\ loop = "spawning"
    /\ loop' = "switched"
    /\ UNCHANGED <<threads, running, requests, job, current, announced, datavars, offline, main>>

(* Mutation of Store: the new thread is not kept. *)
StoreForgets ==
    /\ loop = "storing"
    /\ job' = [job EXCEPT !.ok = TRUE]
    /\ loop' = "switched"
    /\ UNCHANGED <<threads, running, requests, current, announced, datavars, offline, main>>

Store ==
    /\ loop = "storing"
    /\ running' = job.slot
    /\ job' = [job EXCEPT !.ok = TRUE]
    /\ loop' = "switched"
    /\ UNCHANGED <<threads, requests, current, announced, datavars, offline, main>>

(* Mutation of ResetHistory: a failed switch is not announced. *)
ResetOrReturn ==
    /\ loop = "switched"
    /\ shown' = IF job.ok /\ ~poisoned THEN {} ELSE shown
    /\ loop' = IF job.ok THEN "refreshing" ELSE "idle"
    /\ UNCHANGED <<threads, running, requests, job, current, announced, chanvars, stats,
                   offline, main>>

(* Back on the runtime: reset_history, only if switch_to was Ok; it leaves *)
(* tables whose lock is poisoned alone.                                    *)
ResetHistory ==
    /\ loop = "switched"
    /\ shown' = IF job.ok /\ ~poisoned THEN {} ELSE shown
    /\ loop' = "refreshing"
    /\ UNCHANGED <<threads, running, requests, job, current, announced, chanvars, stats,
                   offline, main>>

(* refresh_iface_state *)
Refresh ==
    /\ loop = "refreshing"
    /\ current' = CtlCurrent
    /\ loop' = "announcing"
    /\ UNCHANGED <<threads, running, requests, job, announced, datavars, offline, main>>

Announce ==
    /\ loop = "announcing"
    /\ announced' = current
    /\ job' = NoJob
    /\ loop' = "idle"
    /\ UNCHANGED <<threads, running, requests, current, datavars, offline, main>>
-----------------------------------------------------------------------------
(* The end of main. *)

(* block_on returns after Ctrl-C, or because the server failed; the flag   *)
(* of a replay is raised.                                                  *)
ServerEnds ==
    /\ main = "serving"
    /\ main' = "dropping"
    /\ threads' = Flagged(offline)
    /\ UNCHANGED <<running, offline, requests, loop, job, current, announced, datavars>>

(* Dropping the runtime drops each task where it awaits, and waits for the *)
(* blocking calls that have begun: iface_switch_loop goes away before it   *)
(* takes a request, or with its switch_to not begun or already over.       *)
DropLoop ==
    /\ main = "dropping"
    /\ loop \in {"idle", "finding", "switched"}
    /\ loop' = "gone"
    /\ UNCHANGED <<threads, running, requests, job, current, announced, datavars, offline, main>>

(* aggregate_loop goes while it waits in select!, with nothing in hand. *)
DropAggregator ==
    /\ main = "dropping"
    /\ receiving /\ buf = <<>>
    /\ AggregatorGone

(* Mutation of RuntimeDropped: a switch_to that has begun is abandoned. *)
RuntimeDroppedEarly ==
    /\ main = "dropping" /\ ~receiving
    /\ main' = "stopping"
    /\ loop' = "gone"
    /\ UNCHANGED <<threads, running, requests, job, current, announced, datavars, offline>>

RuntimeDropped ==
    /\ main = "dropping"
    /\ loop = "gone" /\ ~receiving
    /\ main' = "stopping"
    /\ UNCHANGED <<ctlvars, datavars>>

(* The controller's stop if there is one, or the join of the replay. *)
MainStop ==
    /\ main = "stopping"
    /\ TakeAndFlag
    /\ job' = [NoJob EXCEPT !.slot = IF offline = None THEN running ELSE offline]
    /\ main' = "joining"
    /\ UNCHANGED <<offline, requests, loop, current, announced, datavars>>

MainJoin ==
    /\ main = "joining"
    /\ Joined(job.slot)
    /\ main' = "exited"
    /\ UNCHANGED <<ctlvars, datavars>>

ThreadStep(s) == Open(s) \/ CheckFlag(s) \/ NoPacket(s) \/ Packet(s)

LoopStep ==
    \/ TakeRequest \/ Find \/ Stop \/ Join \/ SpawnThread \/ SpawnFails \/ Store
    \/ ResetHistory \/ Refresh \/ Announce

BatchStep == Ingest \/ ReturnPoisoned

EndStep == DropLoop \/ DropAggregator \/ RuntimeDropped \/ MainStop \/ MainJoin

(* The process is gone, and whatever it still did with it. *)
Exited == main = "exited" /\ UNCHANGED vars

Next ==
    \/ \E s \in Slots : ThreadStep(s)
    \/ Receive \/ BatchStep \/ Panic
    \/ \E i \in Ifaces : Request(i)
    \/ LoopStep
    \/ ServerEnds
    \/ EndStep
    \/ Exited

(* The capture thread, the blocking call and the tasks of the runtime are  *)
(* scheduled by the OS and by tokio: each goes on when it can.  next_packet*)
(* returns within its 500 ms timeout, and switch_to and open_live return.  *)
(* The aggregator gets the tables' lock, which no task keeps while it      *)
(* waits for something else.                                               *)
Fairness ==
    /\ \A s \in Slots : WF_vars(ThreadStep(s))
    /\ WF_vars(LoopStep)
    /\ WF_vars(BatchStep)
    /\ WF_vars(EndStep)

Spec == Init /\ [][Next]_vars /\ Fairness
-----------------------------------------------------------------------------
CaptureTypeOK ==
    /\ threads \in [Slots -> [iface : Ifaces \cup {None},
                              at : {"opening", "checking", "reading", "ended"},
                              shutdown : BOOLEAN]]
    /\ {running, offline} \subseteq Slots \cup {None}
    /\ chan \in Seq(Ifaces \cup {None}) /\ Len(chan) <= ChanCapacity
    /\ buf \in Seq(Ifaces \cup {None}) /\ Len(buf) <= BatchMax
    /\ receiving \in BOOLEAN /\ poisoned \in BOOLEAN
    /\ stats \in [{"frames", "parse_errors", "chan_drops", "ingested", "lost"}
                    -> 0 .. MaxFrames]
    /\ shown \subseteq Ifaces \cup {None}
    /\ requests \in Seq(Ifaces) /\ Len(requests) <= QueueCapacity
    /\ loop \in {"idle", "finding", "stopping", "joining", "spawning", "storing",
                 "switched", "refreshing", "announcing", "gone"}
    /\ job \in [wanted : Ifaces \cup {None}, slot : Slots \cup {None}, ok : BOOLEAN]
    /\ {current, announced} \subseteq Ifaces \cup {None}
    /\ main \in {"serving", "dropping", "stopping", "joining", "exited"}

(* There is never more than one capture at a time, through any number of   *)
(* switches, failures and the shutdown (capture/mod.rs:168-172).           *)
OneCapture == Cardinality(Alive) <= 1

(* A capture thread that is alive is known to someone who will stop it: the*)
(* controller, whoever is joining or storing it, or main when it replays a *)
(* file.  None is ever leaked.                                             *)
NoOrphan ==
    \A s \in Alive :
        \/ s \in {running, offline}
        \/ job.slot = s /\ (loop \in {"joining", "storing"} \/ main = "joining")

(* No capture outlives main, even when it ends in the middle of a switch.  *)
NothingOutlivesMain == main = "exited" => Alive = {}

(* Each frame captured is counted as unreadable or dropped, or is on its   *)
(* way to the tables, or is there: while there is an aggregator nothing is *)
(* lost silently.  It takes what it holds with it when it ends, no more    *)
(* than a batch and a full channel; from then on each frame is counted as  *)
(* dropped, and none waits in a channel that nobody reads                  *)
(* (capture/mod.rs:152, main.rs:124, main.rs:291).                         *)
FramesAccounted ==
    /\ stats.frames = stats.parse_errors + stats.chan_drops + stats.ingested
                          + Len(chan) + Len(buf) + stats.lost
    /\ IF receiving THEN stats.lost = 0
       ELSE stats.lost <= ChanCapacity + BatchMax /\ chan = <<>> /\ buf = <<>>

(* When no switch is in progress, new and connected clients are told the   *)
(* interface the controller has, be the last switch a success, a refusal   *)
(* that left the old capture alone or a failure that left none.            *)
AnnouncedIsCurrent ==
    loop = "idle" => current = CtlCurrent /\ announced = CtlCurrent

(* A switch always ends: no join waits for a thread that does not end.     *)
SwitchEnds == loop = "joining" ~> loop \in {"idle", "gone"}

(* Once the server ends, the process does. *)
MainEnds == main = "dropping" ~> main = "exited"

(* A switch that succeeded leaves no trace of another interface: "nouvelle *)
(* interface, historique vierge" (main.rs:240).                            *)
BlankHistory ==
    (loop = "idle" /\ running # None) => shown \subseteq {CtlCurrent}

(* The interface announced is being captured or opened: what is broadcast  *)
(* reflects reality (main.rs:246).                                         *)
AnnouncedIsReal ==
    (loop = "idle" /\ main = "serving" /\ announced \notin {None, First}) =>
        \E s \in Alive : threads[s].iface = announced
=============================================================================
