# netman-reborn in TLA+

netman-reborn captures frames on one interface, aggregates them in two tables
(conversations between MAC addresses and between IP addresses), and shows both
as live graphs in the browsers connected to it. This directory holds TLA+
models of the program in `src/`, the TLC configurations that check them, and
proofs checked by TLAPS. Paths below are relative to the repository.

## 1. The system

| part | where | state it keeps | operations |
|---|---|---|---|
| capture thread | `src/capture/mod.rs` run_live | shutdown flag, counters | open, read a packet, parse, try_send |
| replay thread | `src/capture/mod.rs` run_file | the last sender of the channel | read a file, push its frames, end |
| frame decoding | `src/model/packet.rs` | none | parse_frame, l4_proto, the port tables |
| vendor names | `src/resolve/oui.rs` | the blocks of the registry, by size | build_db, vendor |
| capture controller | `src/capture/mod.rs` Controller | `running`: device, flag, thread | switch_to, stop, current |
| interface switch task | `src/main.rs` iface_switch_loop | queue of 8 requests, IfaceState | switch, reset, refresh, announce |
| aggregator task | `src/main.rs` aggregate_loop | capture channel, `ptr_requested` | ingest, take a name, tick (250 ms) |
| tables | `src/model/tables.rs` | 4 maps, 4 dirty sets, names | ingest, drain_deltas, fade_sweep, set_l3_label, reset, snapshot_deltas |
| resolver task | `src/resolve/dns.rs` | `attempted`, 8 permits, two queues of 1024 | take a request, look up, answer |
| server, one task per client | `src/server/mod.rs` | subscription to the ring of 4096 messages | preamble, snapshot, relay, commands |
| browser | `static/app.js` | two graphs, paused, socket, reconnection timer | applyDelta, clear, pause, reset, selectors |
| end of main | `src/main.rs` main | runtime, controller | drop the runtime, stop, join |

How they interact:

    capture or replay thread --parse_frame, try_send--> channel --> aggregator --lock--> tables
    aggregator --try_send--> resolver task --> lookups (blocking pool) --> names --> aggregator
    aggregator, reset_history, iface_switch_loop --> broadcast ring --> client tasks --> browsers
    browsers --commands--> client tasks --> fade_secs, reset_history, iface_switch_loop
    iface_switch_loop --spawn_blocking--> Controller.switch_to --flag, join, spawn--> capture thread

What is hard, and what makes each part correct:

* **Tables.** Eight collections change together under one mutex. An entry may be
  new, dirty, renamed, stale or reset in any order; the fade removes edges and
  nodes separately and relies on nodes being at least as fresh as their edges.
  Correct: no edge without ends, no mark without entry, counters that add up.
* **Delta protocol.** Only dirty entries are sent, then the removals. Correct: a
  viewer that misses nothing shows the tables after each tick.
* **Broadcast.** What is computed under the mutex is sent after it is released,
  message by message, while other tasks reset, connect and lag. Correct: a
  client that lost nothing converges.
* **Capture and switch.** The old thread must have ended before the new one
  starts; each step of a switch may fail; Ctrl-C comes at any point. Correct:
  one capture at most, none forgotten, the clients are told the truth.
* **Aggregator.** One task serves frames, names and ticks through a biased
  `select!`, one branch of which closes for good at the end of a file, and
  returns without a word when the tables' lock is poisoned. Correct: ticks go on
  whenever frames pause, nothing of a file is left behind, nobody waits for a
  task that has gone.
* **Resolver.** Three bounded resources in a row, one of which refuses. Correct:
  one lookup for each address, none lost, nothing stuck.
* **Browser session.** Pause, resume, reset and reconnection interleave.
  Correct: one connection at a time, the view on its way to the tables unless
  paused, a status line that is true.
* **Settings.** The fade is stored in one step and broadcast in another, the
  interface is refreshed and then announced, and a tab moves its own controls.
  Correct: every tab ends on what the server has.
* **Names.** Frames of both directions, fragments, and blocks within blocks.
  Correct: one name for a flow, the two tables in agreement on what is IP, and
  the vendor of the smallest block.

`PROJECT.json` lists every component with what is left out of it, and each
hazard with its line and the properties that would catch it.

## 2. The modules

    Tables ---- INSTANCE ShownIps      ShownIps          Capture
      |  \                                |              Settings
      |   Mirror (+ GraphView)        Resolver           Frontend
      |                                   |              Protocols
    Broadcast (+ GraphView)          Aggregator          Vendors

A line is an EXTENDS. The theorems are in modules of their own:

| proofs | about | on top of |
|---|---|---|
| `Induction` | induction over numbers, finite sums | the library |
| `Tables_proofs` | `Tables`, and that it implements `ShownIps` | `Induction` |
| `Broadcast_proofs` | `GraphView`, `Mirror`, `Broadcast` | `Tables_proofs` |
| `Aggregator_proofs` | `Resolver`, `Aggregator` | the library |
| `Capture_proofs`, `Settings_proofs`, `Frontend_proofs` | the module of that name | the library |
| `Names_proofs` | `Protocols`, `Vendors` | `Induction` |

`Mirror`, `Broadcast` and `Aggregator` compose other modules; what the tables
promise to the rest is `ShownIps`.

* **`Tables`** models `struct Tables`, one action per method (`Ingest`,
  `SetL3Label`, `DrainAndSweep` for the two calls a tick makes under one lock,
  `Reset`) and `Elapse` for the clock. The eight collections are grouped by
  view: `tables["ether"].conv` is `l2`, `tables["inter"].nodes` is `l3_nodes`,
  and so on. `last_seen` is kept as an age, `idle`, as the code only compares
  `now - last_seen` with the fade; ages beyond `IdleCap` are not told apart,
  which is sound because every fade is below it. `proto_bytes` is in
  `Protocols`; `packets` and `dominant_proto` are left out.
* **`GraphView`** models the graph operations of class GraphView in `app.js`, as
  operators: upserts, the placeholder an edge creates for an unknown end,
  removals, and graphology's dropNode, which takes a node's edges with it.
  `ApplyDeltas` applies messages of the four types in the order of a tick; what
  a tick sends of a view, by type, is `TickDeltas` of `Tables`.
* **`Mirror`** composes the two: a viewer that applies each tick's deltas in the
  order aggregate_loop sends them, and each reset, as soon as they happen.
* **`Broadcast`** composes them through the network: `TickLocked` computes the
  messages under the mutex (`pending`, by view and type) and `TickSend` sends
  them one by one, a view and a type at a time in the order of the code (`Rank`);
  within one of these the order is that of a HashMap: any. `ResetLocked` and `ResetSend` are
  the two halves of reset_history, each client has its share of the ring
  (`inbox`, `missed`), its connection goes through subscribe, snapshot, send,
  live, and each browser has its graphs. The history variables (`lost`,
  `early`, `overtaken`, `late`, `raced`) only say when a reset and a batch
  crossed and what a client lost; no guard reads them.
* **`Capture`** models the controller, the capture threads, the channel to the
  aggregator, iface_switch_loop and the end of main. A frame is the interface
  it came from. The aggregator is there as the reader of the channel: `Receive`
  is recv_many (`buf` is what it has in hand), `Ingest` puts the batch in the
  tables. It ends when it finds their lock poisoned (`ReturnPoisoned`) or with
  the runtime (`DropAggregator`), and then the frames it holds are gone, uncounted
  (`AggregatorGone`; `stats.lost` is history), and the try_send of a capture
  thread that goes on fails whatever the room (`Refused`). switch_to takes one step per lock, join and spawn. `Find` is
  list_devices and find_device, which looks for a name within names: `Matches`
  says which interfaces an asked one may be taken for. A behaviour starts
  either live or with the thread of run_file (`offline`), which has no
  controller, no requests and no switches, and ends with its file or with the
  flag main raises.
* **`ShownIps`** is an abstract specification of the tables: the addresses
  shown, those marked, and the names. `Tables` implements it
  (`IpsImplemented`, checked and proved).
* **`Resolver`** models the requests of a tick, one address at a time, the
  resolver task, the lookups with their permits, the answers that wait for room,
  and what becomes of all that when aggregate_loop returns; its tables are those
  of `ShownIps`. The branches of aggregate_loop come in any order: it is the
  abstract specification of `Aggregator`.
* **`Aggregator`** says when each branch is taken. `FramesReady` is the first
  branch of the biased `select!`, which the guards of `TakeName` and `TakeTick`
  deny; `Batch` is what recv_many returns; `EndOfCapture` is the branch that
  ends when the last sender has gone (`capture_done`); `due` is the interval,
  whose missed ticks are skipped; `Panic` poisons the lock, and `ReturnPoisoned`
  is the return of whichever branch finds it so. `ResolverImplemented` states
  that the loop does nothing `Resolver` does not allow.
* **`Protocols`** models parse_frame from what etherparse makes of a frame,
  l4_proto with both port tables in full, and the bytes each name adds to the
  conversation of each table, for the frames two machines exchange.
* **`Vendors`** models build_db one line at a time, later lines over earlier
  ones, and vendor, on addresses cut where a block can end.
* **`Settings`** models what all tabs share besides the graphs: the fade, which
  handle_client_command stores in one step (`StoreFade`) and announces in
  another (`SendConfig`), and the interface, which iface_switch_loop refreshes
  and announces. A connection subscribes, reads the fade, reads the interfaces,
  sends both, and is live; the controls of the page move when the user moves
  them and when a message says so. `Others` are the tasks of other tabs, of
  which only the stores and sends matter. `missing` (the types of which a tab
  that lags has lost the last message), `newest` and `stale` are history.
* **`Frontend`** models one tab: sockets, each with its own handlers and its
  `readyState`, the timers of setTimeout, Pause, Resume, Reset, the status line,
  and the views as one set of entries. The server is what a client that never
  lags sees of `Broadcast`.

`MC*` modules hold the values of the constants. `MCMirror` puts `Mirror`,
`Protocols` and `Vendors` side by side: they share no variable, so a behaviour
takes the steps of one of them (`part`), and the states of the three add up.
Operators described as a mutation of another are faulty variants of it: the
model behaves as they say, and a named property fails, when they stand in for
the original. `PROJECT.json` pairs each property with one of them.

## 3. What the runs check

| run | instance | result |
|---|---|---|
| `mirror` | 3 MACs, 2 IPs, 5 frames (both directions, a frame without L3, a frame of an address to itself, one IP behind two MACs), 1 name, fades 1 and 2; 3 frames of any flow over 6 IP protocols and 5 ports; registries of up to 4 of 10 lines | 10 properties hold, 276 308 states |
| `broadcast` | 2 MACs, 1 IP, 1 name, one client, one resetting task, ring of 3 | 2 properties hold, about 1.25 million states |
| `broadcast_crossed` | 2 MACs, ring of 4 | `QuietShowsTables` fails |
| `broadcast_lagged` | 2 MACs, two frames, ring of 2 | `SkippedIsRepaired` fails |
| `capture` | live with 2 interfaces, one whose name holds the other's, or the replay of a file; 2 threads, channel, batch and queue of 1, 3 frames; the lock may be poisoned at any point | 8 properties hold, 654 642 states |
| `capture_blank`, `capture_real` | the same | `BlankHistory`, `AnnouncedIsReal` fail |
| `aggregator` | 2 addresses, 2 frames, channel of 2, batches of 1, queues of 1, 1 permit; live or a file; the lock may be poisoned at any point | 7 properties hold, 103 265 states |
| `resolver_retry` | the same | `RetriedAtNextTick` fails |
| `settings` | 1 tab, 1 other task, 2 values (one out of range), 2 interfaces, ring of 2, queue of 1 | 3 properties hold, about 3.5 million states |
| `settings_race` | the same | `TabsSynchronised` fails |
| `frontend` | 2 entries, 2 sockets, 3 messages on the way | 6 properties hold, 13 184 states |

The properties, by hazard:

* `EndpointsCovered`, `DirtyPresent`, `OneFlow`, `NodeAccounting`: the tables
  stay consistent through any sequence of operations.
* `MirrorAgrees`, `TickShowsSnapshot`: the deltas are enough.
* `ClientsConverge`: for each client that is served, apply to its graphs all
  that is in the ring for it and all that the tick has still to send: the
  result agrees with the tables, if it has lost nothing (or nothing since a
  Reset) and no reset has crossed a batch. It covers the snapshot taken between
  two messages, messages older than the snapshot, and lag healed by a reset.
* `OneCapture`, `NoOrphan`, `NothingOutlivesMain`, `AnnouncedIsCurrent`, and,
  under fairness, `SwitchEnds` and `MainEnds`: a switch and the shutdown.
* `FramesAccounted`: while there is an aggregator, each frame captured is counted
  as unreadable or dropped, or is on its way to the tables, or there. The program
  does lose frames uncounted when the aggregator ends, by Ctrl-C or by a poisoned
  lock: the property bounds them by a full channel and a batch, and says that each
  later frame is counted as dropped and none waits for a reader that has gone.
* `RequestsAccounted`, `PermitsAccounted`, `OneLookup`: an address asked for is
  at one place of its way, and nothing is asked for twice or forgotten, through
  refusals, resets, fades and the return of the aggregator.
* `TicksGoOn`, `ReplayIsShown`, `RequestsSettle`, under fairness: once the
  network is silent the ticks go on, whatever the resolver does; a replayed file
  is ingested to its last frame and drained for the browsers, with no premise on
  the network (only a poisoned lock, which ends the loop, is an excuse); the
  sends themselves are in `Broadcast`; no request waits for ever, even for a task that has returned.
  `ResolverImplemented` is the refinement.
* `OneName`: a flow is counted under one name whichever way its frames go, or
  its two ports are known under two names, or it is fragmented. `ViewsAgree`:
  what the Ethernet view counts as IP is what the IP view counts.
* `SmallestBlockNamed`: the last line of the smallest block that holds an
  address names it.
* `FadeSynchronised`, `SelectorSynchronised`: what a control will show once its
  tab has read its inbox is what the server has, wherever the preamble fell
  between the messages, whatever the user moved meanwhile, whatever a lag cost
  but the last message itself, and whether a request succeeded, failed or was
  dropped by the full queue (the requests that fill the
  queue each end in an announcement, which sets the control back).
  `SelectorSynchronised` takes what applyInterfaces makes of the state as its
  reference: with no current interface that is the first of the list.
* `OneAttempt`, `UnpausedConverges`, `FrozenUntilReset`, `StatusHonest` and,
  under fairness, `ComesBack`: the session of a tab. `StatusHonest` asks nothing
  of a paused tab but an open socket: its line goes on saying "live" over a
  frozen graph, as Pause does not touch it.
* `BTypeOK` includes the types of the tables and each client's share of the ring;
  what the messages in it say is the matter of `ClientsConverge`. The other type
  invariants bound the queues: `CaptureTypeOK` those of frames and of interface
  requests, `TypeOK` of `Settings` the ring, the queue and the range of the fade.

Six runs end in a counterexample: what the code does is not what a comment or
a document of the repository says. `PROJECT.json` quotes each under "findings":

1. a reset that crosses a tick's messages leaves a browser that differs from
   the tables with nothing left to repair it;
2. a client that lags past a Reset keeps what was reset: the known limit is
   stated for removals only;
3. after a switch, frames of the old interface that waited in the channel enter
   the blank history;
4. a switch to an interface that cannot be opened succeeds, and is announced;
5. an address refused by the full request queue is not looked at at the next
   tick unless it has had traffic;
6. two tabs that set the fade at once leave every tab with one value and the
   server with the other.

### Bounds

`MaxBytes` caps each counter (4: up to three more frames for an entry, 3 in
`broadcast`), so entries can be new, updated and updated again within a tick
and across ticks; `Reset` and the fade bring counters back to nothing, so
behaviours are unbounded in length. `IdleCap` is one above the largest fade.
The ring of 3 is smaller than one tick of that instance (5 messages), so a
client lags within a batch unless it reads in between, and does not lag if it
does. Channels and queues of 1 are full as soon as they are used, and with two
or three items every wait and every refusal happens. In `aggregator` a channel
of 2 with batches of 1 leaves frames behind a batch, and the frame of both
addresses makes a tick that must ask twice of a queue that holds one. `MaxFrames`
of `Capture` is 3: with `BatchMax` and a channel of 1, one frame in hand, one in
the channel and one refused, or captured when the aggregator has gone with the
other two. A thread takes the first free identity (`FreshIn`): they differ in
nothing. Two thread identities
are enough to see two captures alive if the code allowed it. `MaxFrames` of
`Protocols` is 3: both directions of a flow and one frame besides, or a fragment.
`MaxLines` is 4: three nested blocks and one of them said again; its ten lines
include those that are not kept. In `settings` one
tab is watched and one other task races it: tabs meet only in the ring, the
queue and the stored values, so a second watched tab adds nothing. `CommandCap`
(1) bounds the commands under way in a socket. In `frontend` a second socket
identity is what a faulty Resume would need to connect twice, and `StreamCap`
(3) lets a reset, an upsert and a removal wait together.

### Fairness

`Mirror`, `Tables`, `ShownIps`, `Resolver`, `Broadcast`, `Settings`, `Protocols`
and `Vendors` have only safety properties.
`Capture` assumes that the OS schedules a capture thread and that tokio
schedules a task or a blocking call that can go on (next_packet returns within
its 500 ms time-out, open_live returns), and that the aggregator with a batch gets the
tables' lock (`BatchStep`), which no task keeps across an await and without which
dropping the runtime could wait for it: nothing is assumed of frames, requests,
panics, the moment of a recv_many or Ctrl-C. `Aggregator` assumes that tokio runs its
task (`WF(LoopStep)`, without a word on which branch: at most one is enabled)
and the resolver's, that timers fire, that a lookup returns, that a file has an
end, and that a sender waiting for room is served in turn, which is strong
fairness as others may take the room first; tokio's channels queue their
waiters. It does not assume that the network leaves the other branches a chance,
which the code does not ensure: that is the premise `Silence` of `TicksGoOn` and
`RequestsSettle`. Deadlock is not checked there: when the lock is poisoned the
loop returns, and the model may then rightly stop. `Frontend` assumes that the
browser fires its timers and delivers events, and that the server serves a
connection that is made: `ComesBack` assumes in its premise, not as fairness,
that the network stops failing and the user stops pressing Pause.

## 4. What is proved

Every theorem holds for every value of the constants that satisfies the
assumption of its module (frames are made of addresses and a length; fades are
below `IdleCap`; capacities are not zero; `None` is not an interface...). TLC
evaluates these assumptions in each run.

* `Tables_proofs`: `TypeCorrect`, `EndpointsAlwaysCovered`,
  `DirtyAlwaysPresent`, `OneFlowAlways`, `NodesAlwaysAccounted`,
  `TablesImplementShown`.
* `Broadcast_proofs`: `MirrorAlwaysAgrees`, `TickAlwaysShowsSnapshot`,
  `BroadcastTypeCorrect`, `ClientsAlwaysConverge`.
* `Aggregator_proofs`: `TypeCorrect`, `RequestsAlwaysAccounted`,
  `PermitsAlwaysAccounted`, `OneLookupAlways`, `LoopImplementsResolver`,
  `LoopIsSafe`, `NothingIsLeft`.
* `Capture_proofs`: `TypeCorrect`, `NeverOrphan`, `AlwaysOneCapture`,
  `NothingEverOutlivesMain`, `FramesAlwaysAccounted`,
  `AnnouncedIsAlwaysCurrent`.
* `Settings_proofs`: `TypeCorrect`, `FadeAlwaysSynchronised`,
  `SelectorAlwaysSynchronised`.
* `Frontend_proofs`: `TypeCorrect`, `OneAttemptAlways`,
  `UnpausedAlwaysConverges`, `StatusAlwaysHonest`, `FrozenAlways`.
* `Names_proofs`: `SmallestAlwaysNamed`, `ViewsAlwaysAgree`, `OneNameAlways`.

So every invariant and every action property that a passing run checks is a
theorem too.

**Data.** The library states induction with an operator for the formula, which
no prover at hand can instantiate. `NumberInduction` gives the formula as a set
of numbers instead, and suffices for the recursive functions of these models:
the fold `After`, and the sums of `NodeAccounting`, which the community modules
define element by element in an order that CHOOSE makes. `SumOfAny` shows that
the order does not matter, `SumOfPart` that a part sums to less, `SumOfChange`
what a sum becomes when one element changes.

**Tables.** The inductive invariant is `TablesInv`: each view is `Sound`, that
is typed, with marks only on its own entries (`Marks`) and ends at least as
fresh as their conversations (`EndsFresher`). Freshness is what makes a sweep
safe: a stale node has only stale edges, so sweeping both maps leaves each
remaining edge its ends. The proof first says what each operator does, entry by
entry (`PutBinds`, `CountSees`, `ProjectProjects`), then that it keeps `Sound`
(`ProjectSound`, `SweptSound`, `AgedSound`, ...), then takes the actions one by
one. `OneFlow` is inductive relative to it: a frame refreshes both views, and a
sweep with one age removes an L3 conversation whenever it removes the L2 one
that carries it. `NodeAccounting` compares a node with the conversations it
still shows; its invariant (`Balanced`) is that each endpoint is charged at
least their sum and exactly what it sent and received. A frame adds to one
conversation what it adds to its two ends, twice for a frame of an address to
itself; a sweep only takes terms from the sum, and as a stale node has no
fresh conversation, a node that fades and comes back starts with an empty sum.
`TablesImplementShown` maps each step of the tables to one step
of `ShownIps` or none: what is shown of `Resolver` holds of the tables.

**Mirror.** `MirrorInv` adds that the graph agrees with the tables. For a tick,
`UpsertsComplete` shows that after the upserts the graph is the whole picture
(unmarked entries were right, marked ones are now), and `RemovalsExact` that
the removals take exactly what the sweep took: as no remaining edge has a stale
end, dropNode removes no edge of its own.

**Broadcast.** `ClientsConverge` compares what a client will show with the
tables while both move. Its inductive invariant `BInv`, which TLC finds true of
the instance of `broadcast`, has these parts:

* `Clocked`, `Queues`, `Connected`: shapes, and the order of the history
  variables (`overtaken` is part of `early`, which is part of `resetting`). No
  graph ever has an edge without its ends (`IsGraph`); a client that is off has
  nothing waiting.
* `BatchSettled`: unless a reset came since the batch was drained, what is left
  of it says of an entry what the tables say, or removes it later. The batch
  thus adds nothing wrong to a snapshot taken between two of its messages.
* `ResetsWait`: when a reset's message is still to be sent, an empty screen
  agrees with the tables already, or will once the rest of the batch is read:
  what has come since is marked dirty. `overtaken` leaves out the resets for
  which this fails.
* `Following`: the property, for more clients than it names. A client that has
  only subscribed is treated as if its screen were the tables (`Screen`): what
  came into the ring before its snapshot is repeated or undone by it. And a
  client that has lost messages, but has a Reset ahead in its ring, already
  agrees: `AfterReset` shows that nothing before a Reset matters.

The lemmas say what happens to what a client will show. Reading moves a message
from the ring to the screen and changes nothing (`AfterTail`); a send adds one
at the end (`AfterAppend`); the messages of a batch one by one, in any order
within their group, make what they make together (`BatchInPieces`: this is where
upserts before removals, and edges removed before nodes, are needed). An
overwritten message changes what is lost only; `RunsMeet` makes two runs over
the same messages equal from where they first meet. On the side of the tables, a
frame, a name or the passing of time only touches entries it leaves marked
(`Touches`, `TouchedAgrees`), on which agreement asks nothing. `BTypeOK`
follows from the same invariant.

**Resolver and Aggregator.** `ResolverInv` joins the three invariants to
`OneAnswer` (an address has one answer, at one place) and `TaskShape` (the task
holds one address): an address is looked up once because it is queued once and
taken once. `LoopImplementsResolver` maps the loop's steps to Resolver's or to
none; it rests on `ChanShape`, which says what a batch is made of, and on
`NothingLeft`: once `done` is set the channel is empty and has no sender.

**Capture.** The argument is one of ownership: `Ownership` says, by the places
the switch and the end of main have reached, who alone may name a live thread.
A spawn therefore finds none alive, and main joins the last. `Told` carries the
interface read by the refresh to the message that announces it. `FramesAccounted`
is inductive with the types: `Accounted` states it of numbers, `AccountedNext`
reduces a step to what it does to the counters and to two lengths, and the
aggregator's end is the step that moves both lengths, at most `ChanCapacity` and
`BatchMax`, to `lost`.

**Settings.** `FadeSafe` follows a tab through its connection: after the last
store is announced, and if it was the last announced, the server's fade is the
last `Config` of its inbox, or there is none and its preamble, or its control,
already says so. A message the ring overwrites matters only if it was the last
of its type (`SendAnother`), which is then `missing` until the next one, or until
the preamble reads what it said. `SelectorSafe` is the same for the interface, except between a
refresh and its announcement. A control its user has moved is corrected by an
answer to come: its command is on its way, or a request is queued, or the switch
task is at work; a request the full queue drops is behind others. `NewestStored`
is what makes a store and its announcement speak of one value.

**Frontend.** `OneWay` says there is one attempt at being connected, the last
socket or one timer. `FutureAppend` and `FutureTail` show that what a view will
be once its stream is read is not changed by reading, and changes by one message
when one is sent: with `Starting`, for a connection that is being made, this
makes `UnpausedConverges` inductive.

**Names.** `CountsInv` relates the counts of the two views: each frame counts
once in the first and, if it is IP, once in the second, under the name of one of
the flow's frames. `ViewsAgree` is its sum. For `OneName`, `OnePortName` reads
the port table line by line: no port has two names; `OneWayNames` then takes the
two directions of a datagram, `OneL4Proto` the fragments and ICMP.
`RegistryInv`: after each line, what the registry has for a block is
the last usable line about it (`Naming`), and it has nothing for a block no line
is about. What vendor answers then follows from the order in which it looks.

Only model-checked: the liveness properties (`SwitchEnds`, `MainEnds`,
`TicksGoOn`, `ReplayIsShown`, `RequestsSettle`, `ComesBack`), which are, with
ENABLED, out of TLAPS's reach; and the six runs that end in a counterexample,
which is no matter for a proof. Nothing is proved of what Rust's collections,
tokio, etherparse, libpcap and graphology do: the models take them as they are
used, and the map marks them external.

## 5. What is not modelled

Slicing a frame (etherparse's work: `Protocols` starts from its result), the
ARP pair of a frame, which nothing reads, splitting a line of the registry in
columns, layout and drawing, rates, logging, HTTP, JSON, the command line, the
Npcap specifics, and the start of main. A poisoned lock of the tables is modelled where
the aggregator and a switch's reset meet it; the poisoning of IfaceState and of
the controller, a panic of the aggregator itself in the middle of a batch, and
the panic of the capture thread, are not. A browser applies a message in the
step in which its server task sends it: the socket between them is FIFO and
loses nothing but its tail, when it closes. The length of the reconnection
delay is left out, as times are. Of the controls, the protocol filter, the
widths, Rates and the tooltip are left out; so is the rounding of the fade
slider (5 to 600 by 5, while the server accepts 5 to 3600).

## 6. Plan

The modules were written in the order `Tables`, `GraphView`, `Mirror`, their
proofs, `Broadcast`, `Capture`, `ShownIps`, `Resolver`, `Settings`, `Frontend`,
`Aggregator`, `Protocols`, `Vendors`, and then the proofs about the last eight.
Next:

1. That the part of `Broadcast` a client sees, when it reads in time and meets
   no crossing, implements `Mirror` for that client, and that what `Frontend`
   takes for its server is what `Broadcast` offers: today both are related by
   their invariants and by prose.
2. What the interface control should show when a failed switch has left no
   capture (a hazard without a property: no document says).
3. The protocol filter of the page, composed with the two views.
