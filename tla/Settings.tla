------------------------------ MODULE Settings ------------------------------
(***************************************************************************)
(* The settings shared by every browser tab: the fade time-out and the     *)
(* capture interface.  A tab sends a command on its socket; its            *)
(* client_loop (src/server/mod.rs) stores the fade and then sends Config   *)
(* to all, or queues a request for iface_switch_loop (src/main.rs), which  *)
(* refreshes IfaceState and then sends Interfaces to all.  A new           *)
(* connection reads both for its preamble once it has subscribed.          *)
(*                                                                         *)
(* The other messages of the ring are left out: they only make a tab lag   *)
(* sooner.  A socket that closes takes its task with it: a task that       *)
(* outlives its socket sets the fade as another tab would.  Live mode: the *)
(* replay of a file has neither interfaces nor a queue.                    *)
(***************************************************************************)
EXTENDS Integers, Sequences, FiniteSets

CONSTANTS
    Tabs,           \* browser tabs, each with its client_loop
    Others,         \* client_loops of other tabs, which set the fade
    Values,         \* values of set_fade: those of the slider, and others
    FadeMin, FadeMax,
    Ifaces, None,
    Lists,          \* what list_devices may return
    RingCapacity,   \* size of the ring
    QueueCapacity,  \* size of the queue of iface_switch_loop
    CommandCap      \* bound on the commands on their way in one socket

ASSUME SettingsAssumption ==
    /\ Tabs \cap Others = {} /\ None \notin Tabs \cup Others
    /\ FadeMin \in Nat /\ FadeMax \in Nat /\ FadeMin <= FadeMax
    /\ Values \subseteq Nat
    /\ Ifaces # {} /\ None \notin Ifaces \cup Nat
    /\ Lists \subseteq SUBSET Ifaces /\ Ifaces \in Lists
    /\ RingCapacity \in Nat \ {0} /\ QueueCapacity \in Nat \ {0}

VARIABLES
    fade_secs,  \* the atomic that aggregate_loop reads at each tick
    storing,    \* by task: the value it has stored and not yet announced
    iface,      \* IfaceState
    requests,   \* iface_tx -> iface_rx
    loop,       \* progress of iface_switch_loop
    conn,       \* progress of each tab's connection
    preamble,   \* what client_loop has read for its preamble
    commands,   \* by tab: on their way to the server
    inbox,      \* by tab: what is left to it of the ring
    fade_shown, \* by tab: the fade control
    selector    \* by tab: the interface control, its options and its value

(* History, for the properties: no guard of the system reads it. *)
VARIABLES
    missing,    \* by tab: the types of which it will not know the last message
    newest,     \* the task of the last store, until its Config is sent
    stale       \* the last Config sent is not of the last store

hvars == <<newest, stale>>
servervars == <<fade_secs, storing, iface, requests, loop>>
tabvars == <<conn, preamble, commands, inbox, missing, fade_shown, selector>>
vars == <<servervars, tabvars, hvars>>

Tasks == Tabs \cup Others

Config(v) == [type |-> "config", value |-> v]
Interfaces(s) == [type |-> "interfaces", value |-> s]
SetFade(v) == [type |-> "set_fade", value |-> v]
SetInterface(i) == [type |-> "set_interface", value |-> i]

(* Mutation of Clamp: no lower bound. *)
ClampAbove(v) == IF v > FadeMax THEN FadeMax ELSE v

(* u64::clamp. *)
Clamp(v) == IF v < FadeMin THEN FadeMin ELSE IF v > FadeMax THEN FadeMax ELSE v

(* applyInterfaces: the options are replaced, which selects the first one; *)
(* then the current interface, if any: a value that is not an option       *)
(* selects nothing.                                                        *)
Selected(s) ==
    [options |-> s.interfaces,
     value |-> IF s.current \in s.interfaces THEN s.current
               ELSE IF s.current = None /\ s.interfaces # {}
                    THEN CHOOSE i \in s.interfaces : TRUE
               ELSE None]

Unset == [options |-> {}, value |-> None]
NoPreamble == [fade |-> None, iface |-> None]

(* Mutation of Subscribed: a client subscribes once its preamble is sent.  *)
SubscribedLate(t) == conn[t] = "live"

Subscribed(t) == conn[t] \notin {"off", "open"}

Types(q) == {q[k].type : k \in DOMAIN q}

(* deltas_tx.send: a subscriber whose share is full loses its oldest.  If  *)
(* another of its type is left, that one would have come after it anyway.  *)
Send(m) ==
    LET full(t) == Subscribed(t) /\ Len(inbox[t]) = RingCapacity
        dropped(t) == IF full(t) THEN {Head(inbox[t]).type} ELSE {} IN
    /\ inbox' = [t \in Tabs |-> IF full(t) THEN Append(Tail(inbox[t]), m)
                                ELSE IF Subscribed(t) THEN Append(inbox[t], m)
                                ELSE inbox[t]]
    /\ missing' = [t \in Tabs |-> (missing[t] \cup dropped(t)) \ Types(inbox'[t])]
-----------------------------------------------------------------------------
(* main: the fade of the command line is clamped, the capture has started  *)
(* and IfaceState is refreshed before the server listens.                  *)
Init ==
    /\ \E v \in Values : fade_secs = Clamp(v)
    /\ storing = [k \in Tasks |-> None]
    /\ \E i \in Ifaces : iface = [current |-> i, interfaces |-> Ifaces]
    /\ requests = <<>>
    /\ loop = [at |-> "idle", wanted |-> None]
    /\ conn = [t \in Tabs |-> "off"]
    /\ preamble = [t \in Tabs |-> NoPreamble]
    /\ commands = [t \in Tabs |-> <<>>]
    /\ inbox = [t \in Tabs |-> <<>>]
    /\ missing = [t \in Tabs |-> {}]
    /\ fade_shown = [t \in Tabs |-> None]
    /\ selector = [t \in Tabs |-> Unset]
    /\ newest = None /\ stale = FALSE

(* A connection: the socket opens, its client_loop subscribes, reads the   *)
(* fade, then the interfaces, sends both and enters its loop.              *)
Advance(t, from, to) == conn[t] = from /\ conn' = [conn EXCEPT ![t] = to]

Open(t) ==
    /\ Advance(t, "off", "open")
    /\ UNCHANGED <<servervars, preamble, commands, inbox, missing, fade_shown, selector, hvars>>

Subscribe(t) ==
    /\ Advance(t, "open", "subscribed")
    /\ UNCHANGED <<servervars, preamble, commands, inbox, missing, fade_shown, selector, hvars>>

ReadConfig(t) ==
    /\ Advance(t, "subscribed", "configured")
    /\ preamble' = [preamble EXCEPT ![t].fade = fade_secs]
    /\ missing' = [missing EXCEPT ![t] = @ \ {"config"}]
    /\ UNCHANGED <<servervars, commands, inbox, fade_shown, selector, hvars>>

ReadInterfaces(t) ==
    /\ Advance(t, "configured", "prepared")
    /\ preamble' = [preamble EXCEPT ![t].iface = iface]
    /\ missing' = [missing EXCEPT ![t] = @ \ {"interfaces"}]
    /\ UNCHANGED <<servervars, commands, inbox, fade_shown, selector, hvars>>

SendPreamble(t) ==
    /\ Advance(t, "prepared", "live")
    /\ fade_shown' = [fade_shown EXCEPT ![t] = preamble[t].fade]
    /\ selector' = [selector EXCEPT ![t] = Selected(preamble[t].iface)]
    /\ preamble' = [preamble EXCEPT ![t] = NoPreamble]
    /\ UNCHANGED <<servervars, commands, inbox, missing, hvars>>

(* The socket closes at any point: what was on its way either way is lost, *)
(* the controls stay.                                                      *)
Close(t) ==
    /\ conn[t] # "off"
    /\ storing[t] = None
    /\ conn' = [conn EXCEPT ![t] = "off"]
    /\ preamble' = [preamble EXCEPT ![t] = NoPreamble]
    /\ commands' = [commands EXCEPT ![t] = <<>>]
    /\ inbox' = [inbox EXCEPT ![t] = <<>>]
    /\ missing' = [missing EXCEPT ![t] = {}]
    /\ UNCHANGED <<servervars, fade_shown, selector, hvars>>

Receive(t) ==
    /\ conn[t] = "live"
    /\ storing[t] = None
    /\ inbox[t] # <<>>
    /\ LET m == Head(inbox[t]) IN
       \/ /\ m.type = "config"
          /\ fade_shown' = [fade_shown EXCEPT ![t] = m.value]
          /\ UNCHANGED selector
       \/ /\ m.type = "interfaces"
          /\ selector' = [selector EXCEPT ![t] = Selected(m.value)]
          /\ UNCHANGED fade_shown
    /\ inbox' = [inbox EXCEPT ![t] = Tail(@)]
    /\ UNCHANGED <<servervars, conn, preamble, commands, missing, hvars>>
-----------------------------------------------------------------------------
(* The user changes a control; a command leaves only if the socket is      *)
(* open, which it may be before its client_loop runs.                      *)
Command(t, m) ==
    \/ /\ conn[t] # "off"
       /\ Len(commands[t]) < CommandCap
       /\ commands' = [commands EXCEPT ![t] = Append(@, m)]
    \/ /\ conn[t] = "off"
       /\ UNCHANGED commands

MoveSlider(t, v) ==
    /\ v # fade_shown[t]
    /\ fade_shown' = [fade_shown EXCEPT ![t] = v]
    /\ Command(t, SetFade(v))
    /\ UNCHANGED <<servervars, conn, preamble, inbox, missing, selector, hvars>>

Choose(t, i) ==
    /\ i \in selector[t].options \ {selector[t].value}
    /\ selector' = [selector EXCEPT ![t].value = i]
    /\ Command(t, SetInterface(i))
    /\ UNCHANGED <<servervars, conn, preamble, inbox, missing, fade_shown, hvars>>

(* handle_client_command, by the task of tab t. *)
Handles(t, type) ==
    /\ conn[t] = "live"
    /\ storing[t] = None
    /\ commands[t] # <<>>
    /\ Head(commands[t]).type = type
    /\ commands' = [commands EXCEPT ![t] = Tail(@)]

Store(k, v) ==
    /\ fade_secs' = Clamp(v)
    /\ storing' = [storing EXCEPT ![k] = Clamp(v)]
    /\ newest' = k

StoreFade(t) ==
    /\ Handles(t, "set_fade")
    /\ Store(t, Head(commands[t]).value)
    /\ UNCHANGED <<iface, requests, loop,
                   conn, preamble, inbox, missing, fade_shown, selector, stale>>

StoreFadeOther(k, v) ==
    /\ storing[k] = None
    /\ Store(k, v)
    /\ UNCHANGED <<iface, requests, loop, tabvars, stale>>

SendConfig(k) ==
    /\ storing[k] # None
    /\ Send(Config(storing[k]))
    /\ storing' = [storing EXCEPT ![k] = None]
    /\ stale' = (newest # k)
    /\ newest' = IF newest = k THEN None ELSE newest
    /\ UNCHANGED <<fade_secs, iface, requests, loop,
                   conn, preamble, commands, fade_shown, selector>>

(* try_send: a request that finds the queue full is dropped. *)
AskInterface(t) ==
    /\ Handles(t, "set_interface")
    /\ requests' = IF Len(requests) = QueueCapacity THEN requests
                   ELSE Append(requests, Head(commands[t]).value)
    /\ UNCHANGED <<fade_secs, storing, iface, loop,
                   conn, preamble, inbox, missing, fade_shown, selector, hvars>>
-----------------------------------------------------------------------------
(* iface_switch_loop.  Module Capture has the steps of switch_to.          *)
Take ==
    /\ loop.at = "idle"
    /\ requests # <<>>
    /\ loop' = [at |-> "switching", wanted |-> Head(requests)]
    /\ requests' = Tail(requests)
    /\ UNCHANGED <<fade_secs, storing, iface, tabvars, hvars>>

(* switch_to succeeds, on the interface asked for or on another with its   *)
(* name in its own, or finds none and leaves the capture as it was, or has *)
(* stopped the old capture and cannot start the new one.                   *)
Outcomes == Ifaces \cup {None}

(* Mutation of Switched: a switch that fails is not announced. *)
SwitchedQuietly(current) == IF current = loop.wanted THEN "refreshed" ELSE "idle"

(* refresh_iface_state follows a failure as it follows a success. *)
Switched(current) == "refreshed"

Switch ==
    /\ loop.at = "switching"
    /\ \E current \in Outcomes, list \in Lists :
          /\ iface' = [current |-> current, interfaces |-> list]
          /\ loop' = [at |-> Switched(current), wanted |-> None]
    /\ UNCHANGED <<fade_secs, storing, requests, tabvars, hvars>>

(* IfaceState has one writer, this task: what it reads under the second    *)
(* lock is what it has just written.                                       *)
Announce ==
    /\ loop.at = "refreshed"
    /\ Send(Interfaces(iface))
    /\ loop' = [at |-> "idle", wanted |-> None]
    /\ UNCHANGED <<fade_secs, storing, iface, requests,
                   conn, preamble, commands, fade_shown, selector, hvars>>

Next ==
    \/ \E t \in Tabs :
          \/ Open(t) \/ Subscribe(t) \/ ReadConfig(t) \/ ReadInterfaces(t)
          \/ SendPreamble(t) \/ Close(t) \/ Receive(t)
          \/ \E v \in Values : MoveSlider(t, v)
          \/ \E i \in Ifaces : Choose(t, i)
          \/ StoreFade(t) \/ AskInterface(t)
    \/ \E k \in Others, v \in Values : StoreFadeOther(k, v)
    \/ \E k \in Tasks : SendConfig(k)
    \/ Take \/ Switch \/ Announce

Spec == Init /\ [][Next]_vars
-----------------------------------------------------------------------------
Fades == FadeMin .. FadeMax
IfaceStates == [current : Ifaces \cup {None}, interfaces : SUBSET Ifaces]
Messages == {Config(v) : v \in Fades} \cup {Interfaces(s) : s \in IfaceStates}
Commands == {SetFade(v) : v \in Values} \cup {SetInterface(i) : i \in Ifaces}

(* Types, and the bounds of the fade, whatever the tabs ask for.           *)
TypeOK ==
    /\ fade_secs \in Fades
    /\ storing \in [Tasks -> Fades \cup {None}]
    /\ iface \in IfaceStates
    /\ requests \in Seq(Ifaces) /\ Len(requests) <= QueueCapacity
    /\ loop \in [at : {"idle", "switching", "refreshed"}, wanted : Ifaces \cup {None}]
    /\ conn \in [Tabs -> {"off", "open", "subscribed", "configured", "prepared", "live"}]
    /\ preamble \in [Tabs -> [fade : Fades \cup {None}, iface : IfaceStates \cup {None}]]
    /\ commands \in [Tabs -> Seq(Commands)]
    /\ inbox \in [Tabs -> Seq(Messages)]
    /\ \A t \in Tabs : Len(inbox[t]) <= RingCapacity
    /\ fade_shown \in [Tabs -> Fades \cup Values \cup {None}]
    /\ selector \in [Tabs -> [options : SUBSET Ifaces, value : Ifaces \cup {None}]]
    /\ missing \in [Tabs -> SUBSET {"config", "interfaces"}]
    /\ newest \in Tasks \cup {None} /\ stale \in BOOLEAN

(* A tab whose task is in its loop, which has no command of its own on the *)
(* way and can know the last message of the type.                          *)
Attentive(t, type) ==
    conn[t] = "live" /\ commands[t] = <<>> /\ type \notin missing[t]

(* Of the messages of its type, m is the last in q; or there is none, and  *)
(* what it would do is done.                                               *)
EndsWith(q, m, already) ==
    \/ already /\ \A k \in DOMAIN q : q[k].type # m.type
    \/ \E k \in DOMAIN q :
          q[k] = m /\ \A j \in DOMAIN q : q[j].type = m.type => j <= k

(* Once it has read its inbox, the fade control of t shows the server's    *)
(* fade, and its interface control the server's interface.                 *)
FadeArrives(t) ==
    EndsWith(inbox[t], Config(fade_secs), fade_shown[t] = fade_secs)
SelectorArrives(t) ==
    EndsWith(inbox[t], Interfaces(iface), selector[t] = Selected(iface))

(* Once no task is between the store of a fade and its Config, every tab   *)
(* is on its way to the server's value, wherever its preamble fell and     *)
(* whatever its user had moved, if two tasks did not send in the opposite  *)
(* order to their stores.  A tab that lags is no exception unless it has   *)
(* lost the last Config, and the next one or a new connection makes up for *)
(* that (server/mod.rs:96-104, 154, 184).                                  *)
NoneStoring == \A k \in Tasks : storing[k] = None
FadeSynchronised ==
    (NoneStoring /\ ~stale) => \A t \in Tabs : Attentive(t, "config") => FadeArrives(t)

(* The same without the proviso: "le serveur fait foi, tous les onglets se *)
(* synchronisent" (RESEARCH.md:169).                                       *)
TabsSynchronised ==
    NoneStoring => \A t \in Tabs : Attentive(t, "config") => FadeArrives(t)

(* Once every request is answered, every tab that has not lost the last    *)
(* Interfaces is on its way to what IfaceState says, whether its own       *)
(* request succeeded, failed, or was dropped by a full queue: "le          *)
(* selecteur se recale" (main.rs:246).                                     *)
SelectorSynchronised ==
    (loop.at = "idle" /\ requests = <<>>) =>
        \A t \in Tabs : Attentive(t, "interfaces") => SelectorArrives(t)
=============================================================================
