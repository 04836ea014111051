------------------------------ MODULE Resolver ------------------------------
(***************************************************************************)
(* Reverse DNS: the requests aggregate_loop makes at each tick             *)
(* (src/main.rs), the resolver task and its lookups                        *)
(* (src/resolve/dns.rs), and the names on their way back.                  *)
(*                                                                         *)
(* The tables are those of ShownIps.  A lookup runs on the blocking pool   *)
(* while everything else goes on; its answer waits for room in the results *)
(* channel after its permit is given back.  Here the branches of           *)
(* aggregate_loop come in any order, and it may return at any of them;     *)
(* Aggregator says when.                                                   *)
(***************************************************************************)
EXTENDS ShownIps, Integers, Sequences, FiniteSets, Functions

CONSTANTS
    Resolvable,         \* the addresses is_resolvable keeps
    Queue,              \* REQUEST_QUEUE, capacity of both channels
    Permits             \* CONCURRENT_LOOKUPS

ASSUME ResolverAssumption ==
    /\ Resolvable \subseteq Ips
    /\ Queue \in Nat \ {0} /\ Permits \in Nat \ {0}

VARIABLES
    up,         \* aggregate_loop has not returned
    todo,       \* dirty_ips still to be looked at in the current tick
    requested,  \* ptr_requested
    queue,      \* ptr_req_tx -> req_rx
    attempted,  \* the resolver task's set
    held,       \* the address the resolver task has, waiting for a permit
    lookups,    \* addresses being looked up, each with a permit
    permits,    \* permits the semaphore has left
    answers,    \* answers waiting for room in the results channel
    results     \* results_tx -> ptr_results_rx

loopvars == <<up, todo, requested>>
taskvars == <<attempted, held, lookups, permits, answers>>
vars == <<svars, loopvars, queue, results, taskvars>>

Init ==
    /\ SInit
    /\ up = TRUE
    /\ todo = {} /\ requested = {}
    /\ queue = <<>> /\ results = <<>>
    /\ attempted = {} /\ held = {} /\ lookups = {} /\ answers = {}
    /\ permits = Permits
-----------------------------------------------------------------------------
(* aggregate_loop: one task, at its select! unless it is busy with a tick. *)
AtSelect == up /\ todo = {}

Ingest(heard) ==
    /\ AtSelect
    /\ Hear(heard)
    /\ UNCHANGED <<loopvars, queue, results, taskvars>>

Tick(gone) ==
    /\ AtSelect
    /\ Sweep(gone)
    /\ todo' = dirty
    /\ UNCHANGED <<up, requested, queue, results, taskvars>>

(* Mutation of Recorded: the address is recorded even if it is refused. *)
RecordedAnyway(ip, sent) == requested \cup {ip}

Recorded(ip, sent) == IF sent THEN requested \cup {ip} ELSE requested

(* One turn of the loop over dirty_ips: try_send never waits. *)
Ask(ip) ==
    /\ ip \in todo
    /\ todo' = todo \ {ip}
    /\ IF ip \in Resolvable \ requested
       THEN LET sent == Len(queue) < Queue
            IN /\ queue' = IF sent THEN Append(queue, ip) ELSE queue
               /\ requested' = Recorded(ip, sent)
       ELSE UNCHANGED <<queue, requested>>
    /\ UNCHANGED <<svars, up, results, taskvars>>

TakeResult ==
    /\ AtSelect
    /\ results # <<>>
    /\ Name(Head(results).ip, Head(results).name)
    /\ results' = Tail(results)
    /\ UNCHANGED <<loopvars, queue, taskvars>>

(* The loop returns, and drops its ends of the channels. *)
Return ==
    /\ AtSelect
    /\ up' = FALSE
    /\ results' = <<>>
    /\ UNCHANGED <<svars, todo, requested, queue, taskvars>>

(* reset_history, from another task. *)
ResetHistory ==
    /\ Forget
    /\ UNCHANGED <<loopvars, queue, results, taskvars>>
-----------------------------------------------------------------------------
(* The resolver task. *)

(* Mutation of Attempted: attempted is read and not written. *)
AttemptedUnwritten(ip) == attempted

Attempted(ip) == attempted \cup {ip}

TakeRequest ==
    /\ held = {}
    /\ queue # <<>>
    /\ queue' = Tail(queue)
    /\ held' = {Head(queue)} \ attempted
    /\ attempted' = Attempted(Head(queue))
    /\ UNCHANGED <<svars, loopvars, results, lookups, permits, answers>>

(* Mutation of Acquired: the permit is not held during the lookup. *)
AcquiredAndDropped == permits

Acquired == permits - 1

StartLookup ==
    /\ held # {}
    /\ permits > 0
    /\ permits' = Acquired
    /\ lookups' = lookups \cup held
    /\ held' = {}
    /\ UNCHANGED <<svars, loopvars, queue, results, attempted, answers>>

(* Mutation of Released: the permit is given back only with an answer. *)
ReleasedWith(found) == IF found = {} THEN permits ELSE permits + 1

Released(found) == permits + 1

(* The permit is given back before the answer is sent.  No name is found,  *)
(* or only the numeric form of the address: nothing is sent.               *)
LookupEnds(ip) ==
    /\ ip \in lookups
    /\ lookups' = lookups \ {ip}
    /\ \E found \in {{}} \cup {{[ip |-> ip, name |-> name]} : name \in Names} :
          /\ answers' = answers \cup found
          /\ permits' = Released(found)
    /\ UNCHANGED <<svars, loopvars, queue, results, attempted, held>>

(* The answer waits for room, or is refused by a closed channel. *)
SendAnswer(a) ==
    /\ a \in answers
    /\ \/ up /\ Len(results) < Queue /\ results' = Append(results, a)
       \/ ~up /\ UNCHANGED results
    /\ answers' = answers \ {a}
    /\ UNCHANGED <<svars, loopvars, queue, attempted, held, lookups, permits>>

TaskStep ==
    \/ TakeRequest
    \/ StartLookup
    \/ \E ip \in Ips : LookupEnds(ip)
    \/ \E a \in answers : SendAnswer(a)

Next ==
    \/ \E heard \in SUBSET Ips : Ingest(heard)
    \/ \E gone \in SUBSET nodes : Tick(gone)
    \/ \E ip \in Ips : Ask(ip)
    \/ TakeResult
    \/ Return
    \/ ResetHistory
    \/ TaskStep

Spec == Init /\ [][Next]_vars
-----------------------------------------------------------------------------
Answers == [ip : Ips, name : Names]

TypeOK ==
    /\ nodes \subseteq Ips /\ dirty \subseteq nodes
    /\ labels \in [DOMAIN labels -> Names] /\ DOMAIN labels \subseteq Ips
    /\ up \in BOOLEAN
    /\ todo \subseteq Ips /\ requested \subseteq Ips /\ attempted \subseteq Ips
    /\ held \subseteq Ips /\ lookups \subseteq Ips
    /\ queue \in Seq(Ips) /\ Len(queue) <= Queue
    /\ answers \subseteq Answers
    /\ results \in Seq(Answers) /\ Len(results) <= Queue
    /\ permits \in 0 .. Permits

Waiting == Range(queue)
Answering == {a.ip : a \in answers \cup Range(results)}

(* Every address asked for is in the queue, or has been taken from it, and *)
(* is there once: none is asked for twice, none is marked as asked for     *)
(* without being in the queue and then never resolved (main.rs:311-317).   *)
RequestsAccounted ==
    /\ requested = Waiting \cup attempted
    /\ Waiting \cap attempted = {}
    /\ IsInjective(queue)

(* Each permit is with the semaphore or with one lookup, and no more       *)
(* lookups run than there are permits (dns.rs:18-19).                      *)
PermitsAccounted == permits + Cardinality(lookups) = Permits

(* An address is at one place of its way at a time: one lookup in a        *)
(* session, one answer, one label (dns.rs:9).                              *)
OneLookup ==
    LET stages == <<held, lookups, Answering, DOMAIN labels>> IN
    /\ \A i, j \in 1 .. 4 : i # j => stages[i] \cap stages[j] = {}
    /\ UNION Range(stages) \subseteq attempted

InFlight(ip) == ip \in Waiting \cup held \cup lookups \cup Answering
=============================================================================
