--------------------------- MODULE Capture_proofs ----------------------------
(***************************************************************************)
(* The safety of Capture, for any interfaces, any number of identities for *)
(* threads and any sizes of the channels.                                  *)
(*                                                                         *)
(* The argument is one of ownership: whoever is between two steps of a     *)
(* switch, of the shutdown or of a replay, exactly one of the controller,  *)
(* the job and offline_thread may name a thread that is alive.             *)
(***************************************************************************)
EXTENDS Capture, FiniteSetTheorems, TLAPS

Threads == [Slots -> [iface : Ifaces \cup {None},
                      at : {"opening", "checking", "reading", "ended"},
                      shutdown : BOOLEAN]]

Owners ==
    {running, offline} \cup
        (IF loop \in {"joining", "storing"} \/ main = "joining" THEN {job.slot} ELSE {})

(* Who may name a live thread, by the place the two programs have reached. *)
Ownership ==
    /\ Alive \subseteq Owners
    /\ offline # None => running = None /\ loop = "gone"
    /\ loop \in {"joining", "spawning", "storing"} => running = None
    /\ main \in {"stopping", "joining", "exited"} => loop = "gone"
    /\ main \in {"joining", "exited"} => running = None
    /\ main = "joining" /\ offline # None => job.slot = offline
    /\ main = "exited" \/ loop = "spawning" => Alive = {}
    /\ loop = "finding" => job.wanted \in Ifaces

(* What refresh_iface_state has read is still so when it is announced.     *)
Told ==
    /\ AnnouncedIsCurrent
    /\ loop = "announcing" => current = CtlCurrent

CaptureInv == CaptureTypeOK /\ FramesAccounted /\ Ownership /\ Told

(* No thread appears, none changes its interface. *)
ThreadsKept ==
    /\ threads' \in Threads
    /\ Alive' \subseteq Alive
    /\ \A s \in Slots : threads'[s].iface = threads[s].iface

ControlKept == UNCHANGED <<running, offline, requests, loop, job, current, announced, main>>
-----------------------------------------------------------------------------
(* The threads. *)

LEMMA SetAtKeeps ==
    ASSUME CaptureTypeOK, NEW s \in Slots, threads[s].at # "ended",
           NEW at \in {"opening", "checking", "reading", "ended"}, SetAt(s, at)
    PROVE  ThreadsKept
<1>1. threads \in Threads
  BY DEF CaptureTypeOK, Threads
<1>2. threads' = [threads EXCEPT ![s].at = at]
  BY DEF SetAt
<1>3. threads' \in Threads
  BY <1>1, <1>2 DEF Threads
<1>4. \A x \in Slots : /\ threads'[x].iface = threads[x].iface
                       /\ x # s => threads'[x] = threads[x]
  BY <1>1, <1>2 DEF Threads
<1> QED
  BY <1>3, <1>4 DEF ThreadsKept, Alive

LEMMA FlaggedKeeps ==
    ASSUME CaptureTypeOK, NEW slot, threads' = Flagged(slot)
    PROVE  ThreadsKept
<1>1. threads \in Threads
  BY DEF CaptureTypeOK, Threads
<1>2. threads' \in Threads
  BY <1>1 DEF Threads, Flagged
<1>3. \A x \in Slots : /\ threads'[x].iface = threads[x].iface
                       /\ threads'[x].at = threads[x].at
  BY <1>1 DEF Threads, Flagged
<1> QED
  BY <1>2, <1>3 DEF ThreadsKept, Alive

LEMMA UnchangedKeeps ==
    ASSUME CaptureTypeOK, UNCHANGED threads
    PROVE  ThreadsKept
BY DEF CaptureTypeOK, Threads, ThreadsKept, Alive

LEMMA ThreadStepKeeps ==
    ASSUME CaptureTypeOK, NEW s \in Slots, ThreadStep(s)
    PROVE  ThreadsKept /\ ControlKept
<1>1. CASE Open(s)
  BY <1>1, SetAtKeeps DEF Open, ControlKept
<1>2. CASE CheckFlag(s)
  <2>1. SetAt(s, "ended") \/ SetAt(s, "reading")
    BY <1>2 DEF CheckFlag
  <2> QED BY <1>2, <2>1, SetAtKeeps DEF CheckFlag, ControlKept
<1>3. CASE NoPacket(s)
  BY <1>3, SetAtKeeps DEF NoPacket, ControlKept
<1>4. CASE Packet(s)
  BY <1>4, SetAtKeeps DEF Packet, ControlKept
<1> QED
  BY <1>1, <1>2, <1>3, <1>4 DEF ThreadStep

LEMMA OwnershipKept ==
    ASSUME CaptureInv, ThreadsKept, ControlKept
    PROVE  Ownership' /\ Told'
<1>1. CtlCurrent' = CtlCurrent
  BY DEF CtlCurrent, ThreadsKept, ControlKept, CaptureInv, CaptureTypeOK
<1>2. Told'
  BY <1>1 DEF CaptureInv, Told, AnnouncedIsCurrent, ControlKept
<1>3. Ownership'
  BY DEF CaptureInv, Ownership, Owners, ThreadsKept, ControlKept
<1> QED BY <1>2, <1>3
-----------------------------------------------------------------------------
(* The frames. *)

Counts == [{"frames", "parse_errors", "chan_drops", "ingested", "lost"} -> 0 .. MaxFrames]
Frames == Seq(Ifaces \cup {None})

(* What is known of the frames before a step. *)
LEMMA FramesKnown ==
    ASSUME CaptureInv
    PROVE  /\ MaxFrames \in Nat /\ ChanCapacity \in Nat /\ BatchMax \in Nat \ {0}
           /\ stats \in Counts
           /\ stats.frames \in Nat /\ stats.parse_errors \in Nat /\ stats.chan_drops \in Nat
           /\ stats.ingested \in Nat /\ stats.lost \in Nat
           /\ stats.frames <= MaxFrames
           /\ chan \in Frames /\ Len(chan) \in Nat /\ Len(chan) <= ChanCapacity
           /\ buf \in Frames /\ Len(buf) \in Nat /\ Len(buf) <= BatchMax
           /\ receiving \in BOOLEAN /\ poisoned \in BOOLEAN
           /\ shown \subseteq Ifaces \cup {None}
<1>1. stats \in Counts /\ MaxFrames \in Nat
  BY CaptureAssumption DEF CaptureInv, CaptureTypeOK, Counts
<1>2. /\ stats.frames \in 0 .. MaxFrames /\ stats.parse_errors \in 0 .. MaxFrames
      /\ stats.chan_drops \in 0 .. MaxFrames /\ stats.ingested \in 0 .. MaxFrames
      /\ stats.lost \in 0 .. MaxFrames
  BY <1>1 DEF Counts
<1>3. /\ chan \in Frames /\ Len(chan) <= ChanCapacity
      /\ buf \in Frames /\ Len(buf) <= BatchMax
      /\ receiving \in BOOLEAN /\ poisoned \in BOOLEAN
      /\ shown \subseteq Ifaces \cup {None}
  BY DEF CaptureInv, CaptureTypeOK, Frames
<1>4. Len(chan) \in Nat /\ Len(buf) \in Nat
  BY <1>3 DEF Frames
<1> QED
  BY <1>1, <1>2, <1>3, <1>4, CaptureAssumption

(* The part of the invariant that is about frames. *)
FramesType ==
    /\ chan \in Frames /\ Len(chan) <= ChanCapacity
    /\ buf \in Frames /\ Len(buf) <= BatchMax
    /\ receiving \in BOOLEAN /\ poisoned \in BOOLEAN
    /\ stats \in Counts
    /\ shown \subseteq Ifaces \cup {None}

(* Counters that account for all frames are in range if they are numbers.  *)
LEMMA CountsInRange ==
    ASSUME NEW frames, NEW errors, NEW drops, NEW ingested, NEW lost, NEW way,
           frames \in Nat, frames <= MaxFrames, MaxFrames \in Nat,
           errors \in Nat, drops \in Nat, ingested \in Nat, lost \in Nat, way \in Nat,
           frames = errors + drops + ingested + way + lost
    PROVE  /\ frames \in 0 .. MaxFrames /\ errors \in 0 .. MaxFrames
           /\ drops \in 0 .. MaxFrames /\ ingested \in 0 .. MaxFrames
           /\ lost \in 0 .. MaxFrames
OBVIOUS

(* FramesAccounted is about numbers, and about sequences through their     *)
(* lengths.                                                                *)
Accounted(frames, errors, drops, ingested, lost, inChan, inBuf, there) ==
    /\ frames = errors + drops + ingested + inChan + inBuf + lost
    /\ IF there THEN lost = 0
       ELSE lost <= ChanCapacity + BatchMax /\ inChan = 0 /\ inBuf = 0

LEMMA AccountedNow ==
    ASSUME CaptureInv
    PROVE  Accounted(stats.frames, stats.parse_errors, stats.chan_drops, stats.ingested,
                     stats.lost, Len(chan), Len(buf), receiving)
BY DEF CaptureInv, FramesAccounted, Accounted

(* The same with a name for each number.                                   *)
Numbers(f, e, d, g, l, c, b) ==
    /\ stats.frames = f /\ stats.parse_errors = e /\ stats.chan_drops = d
    /\ stats.ingested = g /\ stats.lost = l
    /\ Len(chan) = c /\ Len(buf) = b
    /\ f <= MaxFrames /\ c <= ChanCapacity /\ b <= BatchMax

LEMMA NumbersKnown ==
    ASSUME CaptureInv
    PROVE  \E f, e, d, g, l, c, b \in Nat :
               Numbers(f, e, d, g, l, c, b) /\ Accounted(f, e, d, g, l, c, b, receiving)
<1>1. /\ stats.frames \in Nat /\ stats.parse_errors \in Nat /\ stats.chan_drops \in Nat
      /\ stats.ingested \in Nat /\ stats.lost \in Nat
      /\ Len(chan) \in Nat /\ Len(buf) \in Nat
  BY FramesKnown
<1>2. Numbers(stats.frames, stats.parse_errors, stats.chan_drops, stats.ingested, stats.lost,
              Len(chan), Len(buf))
  BY FramesKnown DEF Numbers
<1> QED BY <1>1, <1>2, AccountedNow, Zenon

(* What a step does to the counters and the lengths is enough.             *)
LEMMA AccountedNext ==
    ASSUME CaptureInv,
           NEW frames \in Nat, NEW errors \in Nat, NEW drops \in Nat, NEW ingested \in Nat,
           NEW lost \in Nat, frames <= MaxFrames,
           stats' = [stats EXCEPT !.frames = frames, !.parse_errors = errors,
                                  !.chan_drops = drops, !.ingested = ingested, !.lost = lost],
           chan' \in Frames, Len(chan') <= ChanCapacity,
           buf' \in Frames, Len(buf') <= BatchMax,
           receiving' \in BOOLEAN, poisoned' \in BOOLEAN, shown' \subseteq Ifaces \cup {None},
           Accounted(frames, errors, drops, ingested, lost, Len(chan'), Len(buf'), receiving')
    PROVE  FramesType' /\ FramesAccounted'
<1>1. stats \in Counts /\ MaxFrames \in Nat
  BY FramesKnown
<1>2. Len(chan') \in Nat /\ Len(buf') \in Nat
  BY DEF Frames
<1>3. frames = errors + drops + ingested + (Len(chan') + Len(buf')) + lost
  BY <1>2 DEF Accounted
<1>4. /\ frames \in 0 .. MaxFrames /\ errors \in 0 .. MaxFrames /\ drops \in 0 .. MaxFrames
      /\ ingested \in 0 .. MaxFrames /\ lost \in 0 .. MaxFrames
  <2> DEFINE way == Len(chan') + Len(buf')
  <2>1. way \in Nat
    BY <1>2
  <2> HIDE DEF way
  <2>2. frames = errors + drops + ingested + way + lost
    BY <1>3 DEF way
  <2> QED BY <1>1, <2>1, <2>2, CountsInRange
<1>5. /\ stats'.frames = frames /\ stats'.parse_errors = errors /\ stats'.chan_drops = drops
      /\ stats'.ingested = ingested /\ stats'.lost = lost
  BY <1>1 DEF Counts
<1>6. stats' \in Counts
  BY <1>1, <1>4 DEF Counts
<1>7. FramesType'
  BY <1>6 DEF FramesType
<1>8. ~receiving' => chan' = <<>> /\ buf' = <<>>
  BY DEF Accounted, Frames
<1>9. FramesAccounted'
  BY <1>5, <1>8 DEF FramesAccounted, Accounted
<1> QED BY <1>7, <1>9

LEMMA PacketStep ==
    ASSUME CaptureInv, NEW s \in Slots, Packet(s)
    PROVE  FramesType' /\ FramesAccounted'
<1>1. MaxFrames \in Nat /\ ChanCapacity \in Nat /\ BatchMax \in Nat \ {0}
  BY CaptureAssumption
<1>2. /\ stats \in Counts /\ chan \in Frames /\ buf \in Frames
      /\ receiving \in BOOLEAN /\ poisoned \in BOOLEAN /\ shown \subseteq Ifaces \cup {None}
  BY FramesKnown
<1>3. PICK f \in Nat, e \in Nat, d \in Nat, g \in Nat, l \in Nat, c \in Nat, b \in Nat :
          Numbers(f, e, d, g, l, c, b) /\ Accounted(f, e, d, g, l, c, b, receiving)
  BY NumbersKnown
<1> DEFINE i == threads[s].iface
<1>4. /\ i \in Ifaces \cup {None}
      /\ UNCHANGED <<buf, receiving, poisoned, shown>>
  BY DEF CaptureInv, CaptureTypeOK, Packet
<1>5. PICK frames \in Nat, errors \in Nat, drops \in Nat :
          frames = f + 1 /\ errors = e + 1 /\ drops = d + 1 /\ frames <= MaxFrames
  BY <1>1, <1>3 DEF Packet, Numbers
<1>6. PICK parsed \in BOOLEAN : OnPacket(i, parsed)
  BY DEF Packet
<1> HIDE DEF i
<1>7. CASE ~parsed
  <2>1. stats' = [stats EXCEPT !.frames = @ + 1, !.parse_errors = @ + 1] /\ chan' = chan
    BY <1>6, <1>7 DEF OnPacket
  <2>2. stats' = [stats EXCEPT !.frames = frames, !.parse_errors = errors, !.chan_drops = d,
                               !.ingested = g, !.lost = l]
    BY <1>2, <1>3, <1>5, <2>1 DEF Counts, Numbers
  <2>3. Accounted(frames, errors, d, g, l, c, b, receiving)
    BY <1>3, <1>5 DEF Accounted
  <2>4. Accounted(frames, errors, d, g, l, Len(chan'), Len(buf'), receiving')
    BY <1>3, <1>4, <2>1, <2>3 DEF Numbers
  <2>5. Len(chan') <= ChanCapacity /\ Len(buf') <= BatchMax
    BY <1>3, <1>4, <2>1 DEF Numbers
  <2> QED BY <1>2, <1>4, <1>5, <2>1, <2>2, <2>4, <2>5, AccountedNext
<1>8. CASE parsed /\ Refused
  <2>1. stats' = [stats EXCEPT !.frames = @ + 1, !.chan_drops = @ + 1] /\ chan' = chan
    BY <1>6, <1>8 DEF OnPacket
  <2>2. stats' = [stats EXCEPT !.frames = frames, !.parse_errors = e, !.chan_drops = d + 1,
                               !.ingested = g, !.lost = l]
    BY <1>2, <1>3, <1>5, <2>1 DEF Counts, Numbers
  <2>3. Accounted(frames, e, drops, g, l, c, b, receiving)
    BY <1>3, <1>5 DEF Accounted
  <2>4. Accounted(frames, e, drops, g, l, Len(chan'), Len(buf'), receiving')
    BY <1>3, <1>4, <2>1, <2>3 DEF Numbers
  <2>5. Len(chan') <= ChanCapacity /\ Len(buf') <= BatchMax
    BY <1>3, <1>4, <2>1 DEF Numbers
  <2> QED BY <1>2, <1>4, <1>5, <2>1, <2>2, <2>4, <2>5, AccountedNext
<1>9. CASE parsed /\ ~Refused
  <2>1. stats' = [stats EXCEPT !.frames = @ + 1] /\ chan' = Append(chan, i)
    BY <1>6, <1>9 DEF OnPacket
  <2>2. stats' = [stats EXCEPT !.frames = frames, !.parse_errors = e, !.chan_drops = d,
                               !.ingested = g, !.lost = l]
    BY <1>2, <1>3, <1>5, <2>1 DEF Counts, Numbers
  <2>3. receiving /\ c # ChanCapacity
    BY <1>3, <1>9 DEF Refused, Numbers
  <2>4. chan' \in Frames /\ Len(chan') = c + 1
    BY <1>2, <1>3, <1>4, <2>1 DEF Frames, Numbers
  <2>5. Accounted(frames, e, d, g, l, c + 1, b, receiving)
    BY <1>3, <1>5, <2>3 DEF Accounted
  <2>6. Accounted(frames, e, d, g, l, Len(chan'), Len(buf'), receiving')
    BY <1>3, <1>4, <2>4, <2>5 DEF Numbers
  <2>7. c + 1 <= ChanCapacity
    BY <1>1, <1>3, <2>3 DEF Numbers
  <2>8. Len(chan') <= ChanCapacity /\ Len(buf') <= BatchMax
    BY <1>3, <1>4, <2>4, <2>7 DEF Numbers
  <2> QED BY <1>2, <1>4, <1>5, <2>2, <2>4, <2>6, <2>8, AccountedNext
<1> QED
  BY <1>7, <1>8, <1>9

(* A batch is a part of the channel. *)
LEMMA ReceiveStep ==
    ASSUME CaptureInv, Receive
    PROVE  FramesType' /\ FramesAccounted'
<1>1. MaxFrames \in Nat /\ ChanCapacity \in Nat /\ BatchMax \in Nat \ {0}
  BY CaptureAssumption
<1>2. /\ stats \in Counts /\ chan \in Frames /\ buf \in Frames
      /\ receiving \in BOOLEAN /\ poisoned \in BOOLEAN /\ shown \subseteq Ifaces \cup {None}
  BY FramesKnown
<1>3. PICK f \in Nat, e \in Nat, d \in Nat, g \in Nat, l \in Nat, c \in Nat, b \in Nat :
          Numbers(f, e, d, g, l, c, b) /\ Accounted(f, e, d, g, l, c, b, receiving)
  BY NumbersKnown
<1>4. receiving /\ buf = <<>> /\ UNCHANGED <<receiving, poisoned, stats, shown>>
  BY DEF Receive
<1>5. b = 0
  BY <1>3, <1>4 DEF Numbers
<1>6. PICK n \in Nat : /\ n <= c /\ n <= BatchMax
                       /\ buf' = SubSeq(chan, 1, n)
                       /\ chan' = SubSeq(chan, n + 1, c)
  <2>1. CASE c < BatchMax
    <3>1. buf' = SubSeq(chan, 1, c) /\ chan' = SubSeq(chan, c + 1, c)
      BY <1>3, <2>1 DEF Receive, Numbers
    <3>2. c <= BatchMax
      BY <1>1, <2>1
    <3> QED BY <3>1, <3>2
  <2>2. CASE ~(c < BatchMax)
    <3>1. buf' = SubSeq(chan, 1, BatchMax) /\ chan' = SubSeq(chan, BatchMax + 1, c)
      BY <1>3, <2>2 DEF Receive, Numbers
    <3> QED BY <1>1, <2>2, <3>1
  <2> QED BY <2>1, <2>2
<1>7. /\ buf' \in Frames /\ Len(buf') = n
      /\ chan' \in Frames /\ Len(chan') = c - n
  BY <1>2, <1>3, <1>6 DEF Frames, Numbers
<1>8. Accounted(f, e, d, g, l, c - n, n, receiving)
  BY <1>3, <1>4, <1>5, <1>6 DEF Accounted
<1>9. Accounted(f, e, d, g, l, Len(chan'), Len(buf'), receiving')
  BY <1>4, <1>7, <1>8
<1>10. c - n <= ChanCapacity
  BY <1>1, <1>3, <1>6 DEF Numbers
<1>11. /\ Len(chan') <= ChanCapacity /\ Len(buf') <= BatchMax
       /\ f <= MaxFrames
  BY <1>3, <1>6, <1>7, <1>10 DEF Numbers
<1>12. stats' = [stats EXCEPT !.frames = f, !.parse_errors = e, !.chan_drops = d,
                              !.ingested = g, !.lost = l]
  BY <1>2, <1>3, <1>4 DEF Counts, Numbers
<1> QED
  BY <1>2, <1>4, <1>7, <1>9, <1>11, <1>12, AccountedNext

LEMMA IngestStep ==
    ASSUME CaptureInv, Ingest
    PROVE  FramesType' /\ FramesAccounted'
<1>1. MaxFrames \in Nat /\ ChanCapacity \in Nat /\ BatchMax \in Nat \ {0}
  BY CaptureAssumption
<1>2. /\ stats \in Counts /\ chan \in Frames /\ buf \in Frames
      /\ receiving \in BOOLEAN /\ poisoned \in BOOLEAN /\ shown \subseteq Ifaces \cup {None}
  BY FramesKnown
<1>3. PICK f \in Nat, e \in Nat, d \in Nat, g \in Nat, l \in Nat, c \in Nat, b \in Nat :
          Numbers(f, e, d, g, l, c, b) /\ Accounted(f, e, d, g, l, c, b, receiving)
  BY NumbersKnown
<1>4. /\ buf # <<>> /\ buf' = <<>>
      /\ stats' = [stats EXCEPT !.ingested = @ + Len(buf)]
      /\ shown' = shown \cup {buf[k] : k \in 1 .. Len(buf)}
      /\ UNCHANGED <<chan, receiving, poisoned>>
  BY DEF Ingest
<1>5. buf' \in Frames /\ Len(buf') = 0
  BY <1>4 DEF Frames
<1>6. b # 0
  BY <1>2, <1>3, <1>4 DEF Frames, Numbers
<1>7. receiving
  BY <1>3, <1>6 DEF Accounted
<1>8. PICK ingested \in Nat : /\ ingested = g + b
                              /\ Accounted(f, e, d, ingested, l, c, 0, receiving)
  BY <1>3, <1>7 DEF Accounted
<1>9. Accounted(f, e, d, ingested, l, Len(chan'), Len(buf'), receiving')
  BY <1>3, <1>4, <1>5, <1>8 DEF Numbers
<1>10. /\ Len(chan') <= ChanCapacity /\ Len(buf') <= BatchMax
       /\ f <= MaxFrames
  BY <1>1, <1>3, <1>4, <1>5 DEF Numbers
<1>11. stats' = [stats EXCEPT !.frames = f, !.parse_errors = e, !.chan_drops = d,
                              !.ingested = ingested, !.lost = l]
  BY <1>2, <1>3, <1>4, <1>8 DEF Counts, Numbers
<1>12. shown' \subseteq Ifaces \cup {None}
  <2>1. \A k \in 1 .. Len(buf) : buf[k] \in Ifaces \cup {None}
    BY <1>2 DEF Frames
  <2> QED BY <1>2, <1>4, <2>1
<1> QED
  BY <1>2, <1>4, <1>5, <1>9, <1>10, <1>11, <1>12, AccountedNext

(* What the aggregator held is lost, and it held no more than it could.    *)
LEMMA GoneStep ==
    ASSUME CaptureInv, receiving, AggregatorGone
    PROVE  FramesType' /\ FramesAccounted'
<1>1. MaxFrames \in Nat /\ ChanCapacity \in Nat /\ BatchMax \in Nat \ {0}
  BY CaptureAssumption
<1>2. /\ stats \in Counts /\ chan \in Frames /\ buf \in Frames
      /\ receiving \in BOOLEAN /\ poisoned \in BOOLEAN /\ shown \subseteq Ifaces \cup {None}
  BY FramesKnown
<1>3. PICK f \in Nat, e \in Nat, d \in Nat, g \in Nat, l \in Nat, c \in Nat, b \in Nat :
          Numbers(f, e, d, g, l, c, b) /\ Accounted(f, e, d, g, l, c, b, receiving)
  BY NumbersKnown
<1>4. /\ receiving' = FALSE /\ chan' = <<>> /\ buf' = <<>>
      /\ stats' = [stats EXCEPT !.lost = @ + Len(chan) + Len(buf)]
      /\ UNCHANGED <<poisoned, shown>>
  BY DEF AggregatorGone
<1>5. /\ chan' \in Frames /\ Len(chan') = 0
      /\ buf' \in Frames /\ Len(buf') = 0
  BY <1>4 DEF Frames
<1>6. c <= ChanCapacity /\ b <= BatchMax
  BY <1>3 DEF Numbers
<1>7. PICK lost \in Nat : /\ lost = l + c + b
                          /\ Accounted(f, e, d, g, lost, 0, 0, FALSE)
  BY <1>1, <1>3, <1>6 DEF Accounted
<1>8. Accounted(f, e, d, g, lost, Len(chan'), Len(buf'), receiving')
  BY <1>4, <1>5, <1>7
<1>9. /\ Len(chan') <= ChanCapacity /\ Len(buf') <= BatchMax
      /\ f <= MaxFrames
  BY <1>1, <1>3, <1>5 DEF Numbers
<1>10. stats' = [stats EXCEPT !.frames = f, !.parse_errors = e, !.chan_drops = d,
                              !.ingested = g, !.lost = lost]
  BY <1>2, <1>3, <1>4, <1>7 DEF Counts, Numbers
<1>11. receiving' \in BOOLEAN /\ poisoned' \in BOOLEAN /\ shown' \subseteq Ifaces \cup {None}
  BY <1>2, <1>4
<1> QED
  BY <1>5, <1>8, <1>9, <1>10, <1>11, AccountedNext

(* The steps of the aggregator, and the panic that will end it.            *)
LEMMA AggregatorStep ==
    ASSUME CaptureInv, Receive \/ BatchStep \/ Panic \/ DropAggregator
    PROVE  FramesType' /\ FramesAccounted' /\ UNCHANGED <<ctlvars, main>>
<1>1. CASE Receive
  BY <1>1, ReceiveStep DEF Receive
<1>2. CASE Ingest
  BY <1>2, IngestStep DEF Ingest
<1>3. CASE ReturnPoisoned
  BY <1>3, GoneStep DEF ReturnPoisoned, AggregatorGone
<1>4. CASE DropAggregator
  BY <1>4, GoneStep DEF DropAggregator, AggregatorGone
<1>5. CASE Panic
  BY <1>5 DEF Panic, CaptureTypeOK, Counts, Frames, FramesType, FramesAccounted, CaptureInv
<1> QED
  BY <1>1, <1>2, <1>3, <1>4, <1>5 DEF BatchStep
-----------------------------------------------------------------------------
LEMMA CaptureInvInit == Init => CaptureInv
<1> SUFFICES ASSUME Init PROVE CaptureInv
  OBVIOUS
<1>1. PICK s \in Slots : StartLive(s) \/ StartReplay(s)
  BY CaptureAssumption DEF Init, FreshIn
<1>2. /\ chan = <<>> /\ shown = {} /\ requests = <<>> /\ main = "serving"
      /\ job = [wanted |-> None, slot |-> None, ok |-> FALSE]
      /\ buf = <<>> /\ receiving = TRUE /\ poisoned = FALSE
      /\ stats = [frames |-> 0, parse_errors |-> 0, chan_drops |-> 0,
                  ingested |-> 0, lost |-> 0]
  BY DEF Init, NoJob
<1>3. First \in Ifaces /\ None \notin Slots /\ None \notin Ifaces
  BY CaptureAssumption
<1>4. /\ threads \in Threads
      /\ \A x \in Slots : x # s => threads[x].at = "ended"
      /\ running = s => threads[s].iface = First
  <2>1. CASE StartLive(s)
    BY <1>3, <2>1 DEF Threads, StartLive, Opening, Idle
  <2>2. CASE StartReplay(s)
    BY <1>3, <2>2 DEF Threads, StartReplay, Opening, Idle
  <2> QED BY <1>1, <2>1, <2>2
<1>5. \/ running = s /\ offline = None /\ loop = "idle" /\ current = First /\ announced = First
      \/ running = None /\ offline = s /\ loop = "gone" /\ current = None /\ announced = None
  BY <1>1 DEF StartLive, StartReplay
<1>6. CaptureTypeOK
  <2>1. /\ chan \in Seq(Ifaces \cup {None}) /\ Len(chan) <= ChanCapacity
        /\ buf \in Seq(Ifaces \cup {None}) /\ Len(buf) <= BatchMax
        /\ requests \in Seq(Ifaces) /\ Len(requests) <= QueueCapacity
    <3>1. ChanCapacity \in Nat /\ QueueCapacity \in Nat /\ BatchMax \in Nat
      BY CaptureAssumption
    <3>2. Len(chan) = 0 /\ Len(buf) = 0 /\ Len(requests) = 0
      BY <1>2
    <3>3. /\ chan \in Seq(Ifaces \cup {None}) /\ buf \in Seq(Ifaces \cup {None})
          /\ requests \in Seq(Ifaces)
      BY <1>2
    <3> QED BY <3>1, <3>2, <3>3
  <2>2. stats \in Counts
    BY <1>2, CaptureAssumption DEF Counts
  <2>3. job \in [wanted : Ifaces \cup {None}, slot : Slots \cup {None}, ok : BOOLEAN]
    BY <1>2
  <2>4. loop \in {"idle", "gone"} /\ {running, offline, current, announced} \subseteq Slots \cup Ifaces \cup {None}
    BY <1>3, <1>5
  <2> QED BY <1>2, <1>3, <1>4, <1>5, <2>1, <2>2, <2>3 DEF CaptureTypeOK, Threads, Counts
<1>7. FramesAccounted
  BY <1>2 DEF FramesAccounted
<1>8. Ownership
  <2>1. Alive \subseteq {s}
    BY <1>4 DEF Alive
  <2> QED BY <1>2, <1>3, <1>5, <2>1 DEF Ownership, Owners
<1>9. Told
  BY <1>3, <1>4, <1>5 DEF Told, AnnouncedIsCurrent, CtlCurrent
<1> QED
  BY <1>6, <1>7, <1>8, <1>9 DEF CaptureInv
-----------------------------------------------------------------------------
(* The job of iface_switch_loop. *)

Jobs == [wanted : Ifaces \cup {None}, slot : Slots \cup {None}, ok : BOOLEAN]

(* CaptureTypeOK without the data, which the steps of the programs leave alone.   *)
ControlType ==
    /\ threads \in Threads
    /\ {running, offline} \subseteq Slots \cup {None}
    /\ requests \in Seq(Ifaces) /\ Len(requests) <= QueueCapacity
    /\ loop \in {"idle", "finding", "stopping", "joining", "spawning", "storing",
                 "switched", "refreshing", "announcing", "gone"}
    /\ job \in Jobs
    /\ {current, announced} \subseteq Ifaces \cup {None}
    /\ main \in {"serving", "dropping", "stopping", "joining", "exited"}

(* A step of a program preserves everything if it preserves its own part.  *)
LEMMA ProgramStep ==
    ASSUME CaptureInv, UNCHANGED <<chan, buf, receiving, poisoned, stats>>,
           shown' \subseteq Ifaces \cup {None}, ControlType', Ownership', Told'
    PROVE  CaptureInv'
BY DEF CaptureInv, CaptureTypeOK, ControlType, Threads, Jobs, FramesAccounted

LEMMA ControlTypeHolds ==
    ASSUME CaptureInv
    PROVE  ControlType /\ shown \subseteq Ifaces \cup {None} /\ Ownership /\ Told
BY DEF CaptureInv, CaptureTypeOK, ControlType, Threads, Jobs

LEMMA RequestStep ==
    ASSUME CaptureInv, NEW i \in Ifaces, Request(i)
    PROVE  CaptureInv'
<1>1. ThreadsKept /\ UNCHANGED <<running, offline, loop, job, current, announced, main, threads>>
  BY UnchangedKeeps DEF Request, CaptureInv
<1>2. requests' \in Seq(Ifaces) /\ Len(requests') <= QueueCapacity
  BY CaptureAssumption DEF Request, CaptureInv, CaptureTypeOK
<1>3. ControlType'
  BY <1>1, <1>2, ControlTypeHolds DEF ControlType
<1>4. Ownership' /\ Told'
  BY <1>1, ControlTypeHolds DEF Ownership, Owners, Told, AnnouncedIsCurrent, CtlCurrent, Alive
<1> QED
  BY <1>3, <1>4, ProgramStep, ControlTypeHolds DEF Request, datavars, chanvars

LEMMA TakeRequestStep ==
    ASSUME CaptureInv, TakeRequest
    PROVE  CaptureInv'
<1>1. /\ UNCHANGED <<threads, running, offline, current, announced, main, chan, buf, receiving, poisoned, stats, shown>>
      /\ loop = "idle" /\ loop' = "finding" /\ requests # <<>> /\ requests' = Tail(requests)
      /\ job' = [wanted |-> Head(requests), slot |-> None, ok |-> FALSE]
  BY DEF TakeRequest, datavars, chanvars, NoJob
<1>2. /\ requests' \in Seq(Ifaces) /\ Len(requests') <= QueueCapacity
      /\ Head(requests) \in Ifaces
  BY <1>1, CaptureAssumption DEF CaptureInv, CaptureTypeOK
<1>3. job' \in Jobs /\ job'.wanted \in Ifaces
  BY <1>1, <1>2 DEF Jobs
<1>4. ControlType'
  BY <1>1, <1>2, <1>3, ControlTypeHolds DEF ControlType
<1>5. Ownership' /\ Told'
  BY <1>1, <1>3, ControlTypeHolds DEF Ownership, Owners, Told, AnnouncedIsCurrent, Alive
<1> QED
  BY <1>1, <1>4, <1>5, ProgramStep, ControlTypeHolds

LEMMA FindStep ==
    ASSUME CaptureInv, Find
    PROVE  CaptureInv'
<1>1. /\ UNCHANGED <<threads, running, offline, requests, current, announced, main,
                     chan, buf, receiving, poisoned, stats, shown>>
      /\ loop = "finding" /\ loop' \in {"stopping", "switched"}
  BY DEF Find, datavars, chanvars
<1>2. job \in Jobs /\ job.wanted \in Ifaces
  BY <1>1, ControlTypeHolds DEF ControlType, Ownership
<1>3. job' \in Jobs
  <2>1. ASSUME NEW found \in Matches[job.wanted], job' = [job EXCEPT !.wanted = found]
        PROVE  job' \in Jobs
    <3>1. found \in Ifaces
      BY <1>2, CaptureAssumption
    <3> QED BY <1>2, <2>1, <3>1 DEF Jobs
  <2> QED BY <1>2, <2>1 DEF Find
<1>4. ControlType'
  BY <1>1, <1>3, ControlTypeHolds DEF ControlType
<1>5. Ownership' /\ Told'
  BY <1>1, ControlTypeHolds DEF Ownership, Owners, Told, AnnouncedIsCurrent, Alive
<1> QED
  BY <1>1, <1>4, <1>5, ProgramStep, ControlTypeHolds

(* The controller's thread becomes the job's, with its flag raised.        *)
LEMMA StopStep ==
    ASSUME CaptureInv, Stop
    PROVE  CaptureInv'
<1>1. /\ UNCHANGED <<offline, requests, current, announced, main, chan, buf, receiving, poisoned, stats, shown>>
      /\ loop = "stopping" /\ loop' = "joining"
      /\ threads' = Flagged(running) /\ running' = None
      /\ job' = [job EXCEPT !.slot = running]
  BY DEF Stop, TakeAndFlag, datavars, chanvars
<1>2. ThreadsKept
  BY <1>1, FlaggedKeeps DEF CaptureInv
<1>3. job' \in Jobs /\ job'.slot = running
  BY <1>1, ControlTypeHolds DEF ControlType, Jobs
<1>4. ControlType'
  BY <1>1, <1>2, <1>3, ControlTypeHolds DEF ControlType, ThreadsKept
<1>5. Ownership' /\ Told'
  BY <1>1, <1>2, <1>3, ControlTypeHolds DEF Ownership, Owners, Told, AnnouncedIsCurrent, ThreadsKept
<1> QED
  BY <1>1, <1>4, <1>5, ProgramStep, ControlTypeHolds

(* Nothing is alive when it has been joined: it was the only one.          *)
LEMMA JoinStep ==
    ASSUME CaptureInv, Join
    PROVE  CaptureInv'
<1>1. /\ UNCHANGED <<threads, running, offline, requests, job, current, announced, main,
                     chan, buf, receiving, poisoned, stats, shown>>
      /\ loop = "joining" /\ loop' = "spawning" /\ Joined(job.slot)
  BY DEF Join, datavars, chanvars
<1>2. Alive = {}
  BY <1>1, ControlTypeHolds, CaptureAssumption DEF Ownership, Owners, Joined, Alive
<1>3. ControlType'
  BY <1>1, ControlTypeHolds DEF ControlType
<1>4. Ownership' /\ Told'
  BY <1>1, <1>2, ControlTypeHolds DEF Ownership, Owners, Told, AnnouncedIsCurrent, Alive
<1> QED
  BY <1>1, <1>3, <1>4, ProgramStep, ControlTypeHolds

LEMMA SpawnThreadStep ==
    ASSUME CaptureInv, SpawnThread
    PROVE  CaptureInv'
<1>1. PICK s \in Slots : /\ threads' = [threads EXCEPT ![s] = Opening(job.wanted)]
                         /\ job' = [job EXCEPT !.slot = s]
  BY DEF SpawnThread, FreshIn
<1>2. /\ UNCHANGED <<running, offline, requests, current, announced, main, chan, buf, receiving, poisoned, stats, shown>>
      /\ loop = "spawning" /\ loop' = "storing"
  BY DEF SpawnThread, datavars, chanvars
<1>3. job' \in Jobs /\ job'.slot = s
  BY <1>1, ControlTypeHolds DEF ControlType, Jobs
<1>4. threads' \in Threads /\ \A x \in Slots : x # s => threads'[x] = threads[x]
  BY <1>1, ControlTypeHolds DEF ControlType, Jobs, Threads, Opening
<1>5. Alive' \subseteq {s}
  BY <1>2, <1>4, ControlTypeHolds DEF Ownership, Alive
<1>6. ControlType'
  BY <1>2, <1>3, <1>4, ControlTypeHolds DEF ControlType
<1>7. Ownership' /\ Told'
  BY <1>2, <1>3, <1>5, ControlTypeHolds DEF Ownership, Owners, Told, AnnouncedIsCurrent
<1> QED
  BY <1>2, <1>6, <1>7, ProgramStep, ControlTypeHolds

LEMMA SpawnFailsStep ==
    ASSUME CaptureInv, SpawnFails
    PROVE  CaptureInv'
<1>1. /\ UNCHANGED <<threads, running, offline, requests, job, current, announced, main,
                     chan, buf, receiving, poisoned, stats, shown>>
      /\ loop = "spawning" /\ loop' = "switched"
  BY DEF SpawnFails, datavars, chanvars
<1>2. ControlType'
  BY <1>1, ControlTypeHolds DEF ControlType
<1>3. Ownership' /\ Told'
  BY <1>1, ControlTypeHolds DEF Ownership, Owners, Told, AnnouncedIsCurrent, Alive
<1> QED
  BY <1>1, <1>2, <1>3, ProgramStep, ControlTypeHolds

LEMMA StoreStep ==
    ASSUME CaptureInv, Store
    PROVE  CaptureInv'
<1>1. /\ UNCHANGED <<threads, offline, requests, current, announced, main, chan, buf, receiving, poisoned, stats, shown>>
      /\ loop = "storing" /\ loop' = "switched" /\ running' = job.slot
      /\ job' = [job EXCEPT !.ok = TRUE]
  BY DEF Store, datavars, chanvars
<1>2. job' \in Jobs /\ job.slot \in Slots \cup {None}
  BY <1>1, ControlTypeHolds DEF ControlType, Jobs
<1>3. ControlType'
  BY <1>1, <1>2, ControlTypeHolds DEF ControlType
<1>4. Ownership' /\ Told'
  BY <1>1, ControlTypeHolds DEF Ownership, Owners, Told, AnnouncedIsCurrent, Alive
<1> QED
  BY <1>1, <1>3, <1>4, ProgramStep, ControlTypeHolds

LEMMA ResetHistoryStep ==
    ASSUME CaptureInv, ResetHistory
    PROVE  CaptureInv'
<1>1. /\ UNCHANGED <<threads, running, offline, requests, job, current, announced, main, chan, buf, receiving, poisoned, stats>>
      /\ loop = "switched" /\ loop' = "refreshing" /\ shown' \subseteq shown
  BY DEF ResetHistory, chanvars
<1>2. ControlType'
  BY <1>1, ControlTypeHolds DEF ControlType
<1>3. Ownership' /\ Told'
  BY <1>1, ControlTypeHolds DEF Ownership, Owners, Told, AnnouncedIsCurrent, Alive
<1> QED
  BY <1>1, <1>2, <1>3, ProgramStep, ControlTypeHolds

(* What the controller has is read, then announced, and does not change.   *)
LEMMA RefreshStep ==
    ASSUME CaptureInv, Refresh
    PROVE  CaptureInv'
<1>1. /\ UNCHANGED <<threads, running, offline, requests, job, announced, main, chan, buf, receiving, poisoned, stats, shown>>
      /\ loop = "refreshing" /\ loop' = "announcing" /\ current' = CtlCurrent
  BY DEF Refresh, datavars, chanvars
<1>2. CtlCurrent' = CtlCurrent /\ CtlCurrent \in Ifaces \cup {None}
  BY <1>1, ControlTypeHolds DEF CtlCurrent, ControlType, Threads
<1>3. ControlType'
  BY <1>1, <1>2, ControlTypeHolds DEF ControlType
<1>4. Ownership' /\ Told'
  BY <1>1, <1>2, ControlTypeHolds DEF Ownership, Owners, Told, AnnouncedIsCurrent, Alive
<1> QED
  BY <1>1, <1>3, <1>4, ProgramStep, ControlTypeHolds

LEMMA AnnounceStep ==
    ASSUME CaptureInv, Announce
    PROVE  CaptureInv'
<1>1. /\ UNCHANGED <<threads, running, offline, requests, current, main, chan, buf, receiving, poisoned, stats, shown>>
      /\ loop = "announcing" /\ loop' = "idle" /\ announced' = current
      /\ job' = [wanted |-> None, slot |-> None, ok |-> FALSE]
  BY DEF Announce, NoJob, datavars, chanvars
<1>2. CtlCurrent' = CtlCurrent
  BY <1>1 DEF CtlCurrent
<1>3. ControlType'
  BY <1>1, ControlTypeHolds DEF ControlType, Jobs
<1>4. Ownership' /\ Told'
  BY <1>1, <1>2, ControlTypeHolds DEF Ownership, Owners, Told, AnnouncedIsCurrent, Alive
<1> QED
  BY <1>1, <1>3, <1>4, ProgramStep, ControlTypeHolds
-----------------------------------------------------------------------------
(* The end of main. *)

LEMMA ServerEndsStep ==
    ASSUME CaptureInv, ServerEnds
    PROVE  CaptureInv'
<1>1. /\ UNCHANGED <<running, offline, requests, loop, job, current, announced, chan, buf, receiving, poisoned, stats, shown>>
      /\ threads' = Flagged(offline) /\ main = "serving" /\ main' = "dropping"
  BY DEF ServerEnds, datavars, chanvars
<1>2. ThreadsKept
  BY <1>1, FlaggedKeeps DEF CaptureInv
<1>3. CtlCurrent' = CtlCurrent
  BY <1>1, <1>2, ControlTypeHolds DEF CtlCurrent, ThreadsKept, ControlType
<1>4. ControlType'
  BY <1>1, <1>2, ControlTypeHolds DEF ControlType, ThreadsKept
<1>5. Ownership' /\ Told'
  BY <1>1, <1>2, <1>3, ControlTypeHolds DEF Ownership, Owners, Told, AnnouncedIsCurrent, ThreadsKept
<1> QED
  BY <1>1, <1>4, <1>5, ProgramStep, ControlTypeHolds

LEMMA DropLoopStep ==
    ASSUME CaptureInv, DropLoop
    PROVE  CaptureInv'
<1>1. /\ UNCHANGED <<threads, running, offline, requests, job, current, announced, main,
                     chan, buf, receiving, poisoned, stats, shown>>
      /\ loop \in {"idle", "finding", "switched"} /\ loop' = "gone"
  BY DEF DropLoop, datavars, chanvars
<1>2. ControlType'
  BY <1>1, ControlTypeHolds DEF ControlType
<1>3. Ownership' /\ Told'
  BY <1>1, ControlTypeHolds DEF Ownership, Owners, Told, AnnouncedIsCurrent, Alive
<1> QED
  BY <1>1, <1>2, <1>3, ProgramStep, ControlTypeHolds

LEMMA RuntimeDroppedStep ==
    ASSUME CaptureInv, RuntimeDropped
    PROVE  CaptureInv'
<1>1. /\ UNCHANGED <<threads, running, offline, requests, loop, job, current, announced,
                     chan, buf, receiving, poisoned, stats, shown>>
      /\ main = "dropping" /\ main' = "stopping" /\ loop = "gone"
  BY DEF RuntimeDropped, ctlvars, datavars, chanvars
<1>2. ControlType'
  BY <1>1, ControlTypeHolds DEF ControlType
<1>3. Ownership' /\ Told'
  BY <1>1, ControlTypeHolds DEF Ownership, Owners, Told, AnnouncedIsCurrent, Alive
<1> QED
  BY <1>1, <1>2, <1>3, ProgramStep, ControlTypeHolds

LEMMA MainStopStep ==
    ASSUME CaptureInv, MainStop
    PROVE  CaptureInv'
<1> DEFINE slot == IF offline = None THEN running ELSE offline
<1>1. /\ UNCHANGED <<offline, requests, loop, current, announced, chan, buf, receiving, poisoned, stats, shown>>
      /\ main = "stopping" /\ main' = "joining"
      /\ threads' = Flagged(running) /\ running' = None
      /\ job' = [wanted |-> None, slot |-> slot, ok |-> FALSE]
  BY DEF MainStop, TakeAndFlag, NoJob, datavars, chanvars
<1>2. ThreadsKept
  BY <1>1, FlaggedKeeps DEF CaptureInv
<1>3. loop = "gone" /\ Alive \subseteq {running, offline}
  BY <1>1, ControlTypeHolds DEF Ownership, Owners
<1>4. job' \in Jobs /\ job'.slot = slot
  BY <1>1, ControlTypeHolds DEF ControlType, Jobs
<1>5. Alive' \subseteq {slot}
  BY <1>2, <1>3, ControlTypeHolds, CaptureAssumption DEF Ownership, ThreadsKept, Alive
<1>6. ControlType'
  BY <1>1, <1>2, <1>4, ControlTypeHolds DEF ControlType, ThreadsKept
<1>7. Ownership' /\ Told'
  BY <1>1, <1>3, <1>4, <1>5, ControlTypeHolds DEF Ownership, Owners, Told, AnnouncedIsCurrent
<1> QED
  BY <1>1, <1>6, <1>7, ProgramStep, ControlTypeHolds

LEMMA MainJoinStep ==
    ASSUME CaptureInv, MainJoin
    PROVE  CaptureInv'
<1>1. /\ UNCHANGED <<threads, running, offline, requests, loop, job, current, announced,
                     chan, buf, receiving, poisoned, stats, shown>>
      /\ main = "joining" /\ main' = "exited" /\ Joined(job.slot)
  BY DEF MainJoin, ctlvars, datavars, chanvars
<1>2. Alive = {}
  BY <1>1, ControlTypeHolds, CaptureAssumption DEF Ownership, Owners, Joined, Alive
<1>3. ControlType'
  BY <1>1, ControlTypeHolds DEF ControlType
<1>4. Ownership' /\ Told'
  BY <1>1, <1>2, ControlTypeHolds DEF Ownership, Owners, Told, AnnouncedIsCurrent, Alive
<1> QED
  BY <1>1, <1>3, <1>4, ProgramStep, ControlTypeHolds
-----------------------------------------------------------------------------
LEMMA CaptureInvStep == CaptureInv /\ [Next]_vars => CaptureInv'
<1> SUFFICES ASSUME CaptureInv, [Next]_vars PROVE CaptureInv'
  OBVIOUS
<1>1. ASSUME NEW s \in Slots, ThreadStep(s) PROVE CaptureInv'
  <2>1. ThreadsKept /\ ControlKept
    BY <1>1, ThreadStepKeeps DEF CaptureInv
  <2>2. Ownership' /\ Told'
    BY <2>1, OwnershipKept
  <2>3. ControlType'
    BY <2>1, ControlTypeHolds DEF ControlType, ThreadsKept, ControlKept
  <2>4. CASE Packet(s)
    <3> QED
      BY <2>2, <2>3, <2>4, PacketStep
         DEF CaptureInv, CaptureTypeOK, ControlType, Threads, Jobs, Counts, FramesType, Frames
  <2>5. CASE ~Packet(s)
    <3>1. UNCHANGED <<chan, buf, receiving, poisoned, stats, shown>>
      BY <1>1, <2>5 DEF ThreadStep, Open, CheckFlag, NoPacket, datavars, chanvars
    <3> QED BY <2>2, <2>3, <3>1, ProgramStep, ControlTypeHolds
  <2> QED BY <2>4, <2>5
<1>2. CASE Receive \/ BatchStep \/ Panic \/ DropAggregator
  <2>1. FramesType' /\ FramesAccounted' /\ ThreadsKept /\ ControlKept
    BY <1>2, AggregatorStep, UnchangedKeeps DEF ctlvars, ControlKept, CaptureInv
  <2>2. ControlType'
    BY <2>1, ControlTypeHolds DEF ControlType, ThreadsKept, ControlKept
  <2> QED
    BY <2>1, <2>2, OwnershipKept
       DEF CaptureInv, CaptureTypeOK, ControlType, Threads, Jobs, Counts, FramesType, Frames
<1>3. CASE UNCHANGED vars
  <2>1. ThreadsKept /\ ControlKept /\ UNCHANGED <<chan, buf, receiving, poisoned, stats, shown>>
    BY <1>3, UnchangedKeeps DEF vars, ctlvars, datavars, chanvars, ControlKept, CaptureInv
  <2>2. ControlType'
    BY <2>1, ControlTypeHolds DEF ControlType, ThreadsKept, ControlKept
  <2> QED BY <2>1, <2>2, OwnershipKept, ProgramStep, ControlTypeHolds
<1>4. CASE LoopStep
  BY <1>4, TakeRequestStep, FindStep, StopStep, JoinStep, SpawnThreadStep,
     SpawnFailsStep, StoreStep, ResetHistoryStep, RefreshStep, AnnounceStep DEF LoopStep
<1>5. CASE EndStep
  BY <1>2, <1>5, DropLoopStep, RuntimeDroppedStep, MainStopStep, MainJoinStep DEF EndStep
<1> QED
  BY <1>1, <1>2, <1>3, <1>4, <1>5, RequestStep, ServerEndsStep DEF Next, Exited

LEMMA CaptureInvAlways == Spec => []CaptureInv
BY CaptureInvInit, CaptureInvStep, PTL DEF Spec

(* The channels keep within their capacities and the counters within the   *)
(* frames captured.                                                        *)
THEOREM TypeCorrect == Spec => []CaptureTypeOK
<1>1. CaptureInv => CaptureTypeOK
  BY DEF CaptureInv
<1> QED BY <1>1, CaptureInvAlways, PTL

(* A live thread is always known to one who will stop it.                  *)
THEOREM NeverOrphan == Spec => []NoOrphan
<1>1. CaptureInv => NoOrphan
  BY CaptureAssumption DEF CaptureInv, Ownership, Owners, NoOrphan, Alive
<1> QED BY <1>1, CaptureInvAlways, PTL

(* No two threads capture at once: the owners name one thread at most.     *)
THEOREM AlwaysOneCapture == Spec => []OneCapture
<1>1. CaptureInv => OneCapture
  <2> SUFFICES ASSUME CaptureInv PROVE OneCapture
    OBVIOUS
  <2>1. IsFiniteSet(Alive)
    BY CaptureAssumption, FS_Subset DEF Alive
  <2>2. ASSUME NEW s \in Alive, NEW t \in Alive PROVE s = t
    BY CaptureAssumption DEF CaptureInv, Ownership, Owners, Alive
  <2>3. CASE Alive = {}
    BY <2>3, FS_EmptySet DEF OneCapture
  <2>4. CASE Alive # {}
    <3>1. PICK s : Alive = {s}
      BY <2>2, <2>4
    <3> QED BY <3>1, FS_Singleton DEF OneCapture
  <2> QED BY <2>3, <2>4
<1> QED BY <1>1, CaptureInvAlways, PTL

(* Wherever Ctrl-C finds a switch or a replay, main leaves no thread.      *)
THEOREM NothingEverOutlivesMain == Spec => []NothingOutlivesMain
<1>1. CaptureInv => NothingOutlivesMain
  BY DEF CaptureInv, Ownership, NothingOutlivesMain
<1> QED BY <1>1, CaptureInvAlways, PTL

(* Every frame captured is in one count or on its way while there is an    *)
(* aggregator; no more than a batch and a full channel go with it, and     *)
(* each frame captured after it is counted.                                *)
THEOREM FramesAlwaysAccounted == Spec => []FramesAccounted
<1>1. CaptureInv => FramesAccounted
  BY DEF CaptureInv
<1> QED BY <1>1, CaptureInvAlways, PTL

(* Between two switches, what is announced is what the controller has.     *)
THEOREM AnnouncedIsAlwaysCurrent == Spec => []AnnouncedIsCurrent
<1>1. CaptureInv => AnnouncedIsCurrent
  BY DEF CaptureInv, Told
<1> QED BY <1>1, CaptureInvAlways, PTL
=============================================================================
