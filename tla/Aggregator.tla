----------------------------- MODULE Aggregator ------------------------------
(***************************************************************************)
(* The scheduling of aggregate_loop (src/main.rs): its biased select! over *)
(* the capture channel, the results of the resolver and the tick, the end  *)
(* of a replayed file, and its return when the tables' lock is poisoned.   *)
(*                                                                         *)
(* What each branch does to the tables and the requests is an action of    *)
(* Resolver; this module says when the branch is taken.  A frame is the    *)
(* set of its IP addresses, empty for a frame that is not IP.              *)
(***************************************************************************)
EXTENDS Resolver

CONSTANTS
    Frames,     \* the frames on the network, each the set of its addresses
    Channel,    \* CHANNEL_CAPACITY
    BatchMax    \* the limit given to recv_many

ASSUME AggregatorAssumption ==
    /\ Frames \subseteq SUBSET Ips
    /\ Channel \in Nat \ {0} /\ BatchMax \in Nat \ {0}

VARIABLES
    chan,       \* meta_tx -> meta_rx
    sender,     \* who holds meta_tx: the controller ("live"), run_file
                \* ("file") or nobody ("gone")
    done,       \* capture_done
    due,        \* the interval has a tick to give; missed ones are skipped
    poisoned    \* a task has panicked with the tables locked

schedvars == <<chan, sender, done, due, poisoned>>
avars == <<vars, schedvars>>

AInit ==
    /\ Init
    /\ chan = <<>>
    /\ sender \in {"live", "file"}
    /\ done = FALSE
    /\ due = TRUE
    /\ poisoned = FALSE
-----------------------------------------------------------------------------
(* The capture thread, the clock, the other tasks. *)

(* try_send of a frame that is read; one that finds no room, or no         *)
(* receiver, is dropped.                                                   *)
Push(heard) ==
    /\ up /\ sender # "gone"
    /\ Len(chan) < Channel
    /\ chan' = Append(chan, heard)
    /\ UNCHANGED <<vars, sender, done, due, poisoned>>

(* run_file has read its file, and drops the last sender. *)
EndOfFile ==
    /\ sender = "file"
    /\ sender' = "gone"
    /\ UNCHANGED <<vars, chan, done, due, poisoned>>

TimePasses ==
    /\ ~due
    /\ due' = TRUE
    /\ UNCHANGED <<vars, chan, sender, done, poisoned>>

(* A client's task panics while it makes its snapshot, or a reset does. *)
Panic ==
    /\ ~poisoned
    /\ poisoned' = TRUE
    /\ UNCHANGED <<vars, chan, sender, done, due>>

AReset == ~poisoned /\ ResetHistory /\ UNCHANGED schedvars

ATaskStep == TaskStep /\ UNCHANGED schedvars
-----------------------------------------------------------------------------
(* aggregate_loop, branch by branch. *)

(* Mutation of FramesReady: the branch is not disabled at the end. *)
FramesReadyForEver == chan # <<>> \/ sender = "gone"

(* recv_many is ready: it returns frames, or none at the end of capture. *)
FramesReady == ~done /\ (chan # <<>> \/ sender = "gone")

Batch ==
    /\ FramesReady /\ chan # <<>> /\ ~poisoned
    /\ LET n == IF Len(chan) < BatchMax THEN Len(chan) ELSE BatchMax
       IN /\ Ingest(UNION {chan[i] : i \in 1 .. n})
          /\ chan' = SubSeq(chan, n + 1, Len(chan))
    /\ UNCHANGED <<sender, done, due, poisoned>>

(* Mutation of EndOfCapture: the loop ends with the capture. *)
EndOfLoop ==
    /\ FramesReady /\ chan = <<>>
    /\ Return
    /\ UNCHANGED schedvars

EndOfCapture ==
    /\ AtSelect
    /\ FramesReady /\ chan = <<>>
    /\ done' = TRUE
    /\ UNCHANGED <<vars, chan, sender, due, poisoned>>

(* Mutation of TakeName: a name that comes too late is not kept. *)
TakeNameIfShown ==
    /\ ~FramesReady /\ ~poisoned
    /\ AtSelect /\ results # <<>>
    /\ IF Head(results).ip \in nodes
       THEN TakeResult
       ELSE /\ results' = Tail(results)
            /\ UNCHANGED <<svars, loopvars, queue, taskvars>>
    /\ UNCHANGED schedvars

TakeName ==
    /\ ~FramesReady /\ ~poisoned
    /\ TakeResult
    /\ UNCHANGED schedvars

TakeTick(gone) ==
    /\ ~FramesReady /\ results = <<>> /\ due /\ ~poisoned
    /\ Tick(gone)
    /\ due' = FALSE
    /\ UNCHANGED <<chan, sender, done, poisoned>>

AAsk(ip) == Ask(ip) /\ UNCHANGED schedvars

(* The branch that is taken finds the lock poisoned. *)
ReturnPoisoned ==
    /\ poisoned
    /\ IF FramesReady THEN chan # <<>> ELSE results # <<>> \/ due
    /\ Return
    /\ chan' = <<>>
    /\ UNCHANGED <<sender, done, due, poisoned>>

LoopStep ==
    \/ Batch
    \/ EndOfCapture
    \/ TakeName
    \/ \E gone \in SUBSET nodes : TakeTick(gone)
    \/ \E ip \in Ips : AAsk(ip)
    \/ ReturnPoisoned

ANext ==
    \/ LoopStep
    \/ \E heard \in Frames : Push(heard)
    \/ EndOfFile
    \/ TimePasses
    \/ Panic
    \/ AReset
    \/ ATaskStep

(* tokio runs every task that is ready and fires its timers; a lookup      *)
(* returns or times out; senders that wait for room are served in turn     *)
(* (SF: another one may come first, but not for ever); a file has an end.  *)
(* Nothing is assumed of the order of the branches of select!: the loop is *)
(* one task, and only one of its steps is enabled at a time.               *)
Fairness ==
    /\ WF_avars(LoopStep)
    /\ WF_avars(EndOfFile)
    /\ WF_avars(TimePasses)
    /\ WF_avars(TakeRequest /\ UNCHANGED schedvars)
    /\ WF_avars(StartLookup /\ UNCHANGED schedvars)
    /\ \A ip \in Ips :
          /\ WF_avars(LookupEnds(ip) /\ UNCHANGED schedvars)
          /\ SF_avars(\E a \in answers : a.ip = ip /\ SendAnswer(a) /\ UNCHANGED schedvars)

ASpec == AInit /\ [][ANext]_avars /\ Fairness
-----------------------------------------------------------------------------
ATypeOK ==
    /\ TypeOK
    /\ chan \in Seq(Frames) /\ Len(chan) <= Channel
    /\ sender \in {"live", "file", "gone"}
    /\ {done, due, poisoned} \subseteq BOOLEAN

(* The premise under which the two other branches are served: the network  *)
(* falls silent at last.  A file does so by itself; frames that come as    *)
(* fast as they are ingested, for ever, starve them.                       *)
Silence == <>[][\A heard \in Frames : ~Push(heard)]_avars

(* Ticks go on after the end of a file, after names and whatever the       *)
(* resolver does, unless the lock is poisoned (main.rs:286).               *)
TicksGoOn == Silence => (due ~> ~due \/ poisoned)

(* Every frame of a replayed file that found room is ingested and drained  *)
(* for the browsers by a tick, with no premise on the network: nothing is  *)
(* left in the channel when capture_done is set, and a tick follows.  Only *)
(* a poisoned lock excuses the loop, which it ends.                        *)
ReplayIsShown ==
    sender = "file" ~> (done /\ chan = <<>> /\ dirty = {}) \/ poisoned

(* Every request is settled, even if the loop returns meanwhile: no lookup *)
(* waits for ever for a permit, for room in a channel or for a reader.     *)
RequestsSettle == Silence => \A ip \in Ips : (ip \in requested ~> ~InFlight(ip))

(* An address that is shown and has not been asked for is looked at again  *)
(* at each tick: "les echecs d'envoi - file pleine - seront retentes au    *)
(* tick suivant" (main.rs:273-274).                                        *)
RetriedAtNextTick ==
    [][\A gone \in SUBSET nodes :
          TakeTick(gone) => (Resolvable \cap nodes) \ requested \subseteq todo']_avars

(* The loop as it is scheduled does nothing Resolver does not allow. *)
ResolverImplemented == Spec
=============================================================================
