--------------------------- MODULE Settings_proofs ----------------------------
(***************************************************************************)
(* The controls of the tabs, for any tabs, values, interfaces and queue:   *)
(* the fade stays within its bounds, and the fade and interface controls   *)
(* of a tab end on what the server says, unless the ring has overwritten   *)
(* the very message that said it.                                          *)
(***************************************************************************)
EXTENDS Settings, TLAPS

(* The task of the last store holds the value that aggregate_loop reads.   *)
NewestStored ==
    newest # None => newest \in Tasks /\ storing[newest] = fade_secs

(* Nothing is sent to a tab before it subscribes; nothing it can know is   *)
(* missing; and what a preamble will say of the interfaces is known once   *)
(* it is prepared.                                                         *)
Fresh(t) ==
    /\ conn[t] \in {"off", "open"} => inbox[t] = <<>>
    /\ missing[t] \cap Types(inbox[t]) = {}
    /\ conn[t] = "prepared" => preamble[t].iface \in IfaceStates

Pending(t, type) == \E k \in DOMAIN commands[t] : commands[t][k].type = type

(* At each point of its connection, the server's fade is on its way to t,  *)
(* or is what its preamble or its control says.                            *)
FadeSafe(t) ==
    (newest = None /\ ~stale) =>
        /\ conn[t] = "subscribed" => EndsWith(inbox[t], Config(fade_secs), TRUE)
        /\ (conn[t] \in {"configured", "prepared"} /\ "config" \notin missing[t]) =>
               EndsWith(inbox[t], Config(fade_secs), preamble[t].fade = fade_secs)
        /\ (conn[t] = "live" /\ "config" \notin missing[t] /\ ~Pending(t, "set_fade"))
               => FadeArrives(t)

(* The same of the interfaces, except between a refresh and its message. A *)
(* control that its user has moved is corrected by an answer to come.      *)
SelectorSafe(t) ==
    loop.at # "refreshed" =>
        /\ conn[t] \in {"subscribed", "configured"} =>
               EndsWith(inbox[t], Interfaces(iface), TRUE)
        /\ (conn[t] = "prepared" /\ "interfaces" \notin missing[t]) =>
               EndsWith(inbox[t], Interfaces(iface), preamble[t].iface = iface)
        /\ (/\ conn[t] = "live" /\ "interfaces" \notin missing[t]
            /\ ~Pending(t, "set_interface")
            /\ loop.at = "idle" /\ requests = <<>>) => SelectorArrives(t)

TabSafe(t) == Fresh(t) /\ FadeSafe(t) /\ SelectorSafe(t)

SettingsInv == TypeOK /\ NewestStored /\ \A t \in Tabs : TabSafe(t)
-----------------------------------------------------------------------------
(* The last message of a type in a queue. *)

LEMMA EndsWithMore ==
    ASSUME NEW q, NEW m, NEW b \in BOOLEAN, NEW c \in BOOLEAN,
           EndsWith(q, m, b), b => c
    PROVE  EndsWith(q, m, c)
BY DEF EndsWith

LEMMA EndsWithItself ==
    ASSUME NEW q \in Seq(Messages), NEW m \in Messages, NEW b \in BOOLEAN
    PROVE  EndsWith(Append(q, m), m, b)
<1> DEFINE r == Append(q, m)
<1>1. r[Len(q) + 1] = m /\ Len(q) + 1 \in DOMAIN r
      /\ \A j \in DOMAIN r : j <= Len(q) + 1
  OBVIOUS
<1> QED BY <1>1 DEF EndsWith

LEMMA EndsWithAnother ==
    ASSUME NEW q \in Seq(Messages), NEW m \in Messages, NEW x \in Messages,
           NEW b \in BOOLEAN, x.type # m.type, EndsWith(q, m, b)
    PROVE  EndsWith(Append(q, x), m, b)
<1> DEFINE r == Append(q, x)
           n == Len(q)
<1>1. /\ n \in Nat /\ DOMAIN q = 1 .. n /\ DOMAIN r = 1 .. n + 1
      /\ r[n + 1] = x /\ \A k \in 1 .. n : r[k] = q[k]
  OBVIOUS
<1> HIDE DEF r, n
<1>2. CASE b /\ \A k \in DOMAIN q : q[k].type # m.type
  <2>1. \A k \in DOMAIN r : r[k].type # m.type
    BY <1>1, <1>2
  <2> QED BY <2>1, <1>2 DEF EndsWith, r
<1>3. ASSUME NEW k \in DOMAIN q,
             q[k] = m, \A j \in DOMAIN q : q[j].type = m.type => j <= k
      PROVE  EndsWith(r, m, b)
  <2>1. k \in DOMAIN r /\ r[k] = m
    BY <1>1, <1>3
  <2>2. \A j \in DOMAIN r : r[j].type = m.type => j <= k
    BY <1>1, <1>3
  <2> QED BY <2>1, <2>2 DEF EndsWith
<1> QED BY <1>2, <1>3 DEF EndsWith, r

LEMMA TailElements ==
    ASSUME NEW q \in Seq(Messages), q # <<>>
    PROVE  \E n \in Nat :
               /\ DOMAIN q = 1 .. n + 1 /\ DOMAIN Tail(q) = 1 .. n
               /\ \A k \in 1 .. n : Tail(q)[k] = q[k + 1]
               /\ Head(q) = q[1] /\ Head(q) \in Messages /\ Tail(q) \in Seq(Messages)
<1>1. Len(q) - 1 \in Nat /\ Len(q) = (Len(q) - 1) + 1
  OBVIOUS
<1>2. /\ DOMAIN q = 1 .. (Len(q) - 1) + 1 /\ DOMAIN Tail(q) = 1 .. Len(q) - 1
      /\ \A k \in 1 .. Len(q) - 1 : Tail(q)[k] = q[k + 1]
      /\ Head(q) = q[1] /\ Head(q) \in Messages /\ Tail(q) \in Seq(Messages)
  OBVIOUS
<1> QED BY <1>1, <1>2

(* Reading a message of another type changes nothing for m; reading one of *)
(* its type, what that message does replaces what was done.                *)
LEMMA EndsWithTail ==
    ASSUME NEW q \in Seq(Messages), q # <<>>, NEW m \in Messages,
           NEW b \in BOOLEAN, NEW c \in BOOLEAN, EndsWith(q, m, b),
           Head(q).type # m.type => (b => c), Head(q) = m => c
    PROVE  EndsWith(Tail(q), m, c)
<1> DEFINE r == Tail(q)
           h == Head(q)
<1>1. PICK n \in Nat : /\ DOMAIN q = 1 .. n + 1 /\ DOMAIN r = 1 .. n
                       /\ \A k \in 1 .. n : r[k] = q[k + 1]
                       /\ h = q[1]
  BY TailElements
<1> HIDE DEF r, h
<1>2. CASE b /\ \A k \in DOMAIN q : q[k].type # m.type
  <2>1. h.type # m.type
    BY <1>1, <1>2
  <2>2. \A k \in DOMAIN r : r[k].type # m.type
    BY <1>1, <1>2
  <2> QED BY <2>1, <2>2, <1>2 DEF EndsWith, r, h
<1>3. ASSUME NEW k \in DOMAIN q,
             q[k] = m, \A j \in DOMAIN q : q[j].type = m.type => j <= k
      PROVE  EndsWith(r, m, c)
  <2>1. CASE k = 1
    <3>1. c
      BY <1>1, <1>3, <2>1 DEF h
    <3>2. ASSUME NEW j \in DOMAIN r, r[j].type = m.type
          PROVE  FALSE
      <4>1. j \in Nat \ {0} /\ j + 1 \in DOMAIN q /\ q[j + 1].type = m.type
        BY <1>1, <3>2
      <4>2. j + 1 <= 1
        BY <4>1, <1>3, <2>1
      <4> QED BY <4>1, <4>2
    <3> QED BY <3>1, <3>2 DEF EndsWith
  <2>2. CASE k # 1
    <3>1. k - 1 \in DOMAIN r /\ r[k - 1] = m
      BY <1>1, <1>3, <2>2
    <3>2. ASSUME NEW j \in DOMAIN r, r[j].type = m.type
          PROVE  j <= k - 1
      <4>1. j \in Nat /\ j + 1 \in DOMAIN q /\ q[j + 1].type = m.type
        BY <1>1, <3>2
      <4>2. j + 1 <= k
        BY <4>1, <1>3
      <4> QED BY <4>1, <4>2, <1>1
    <3> QED BY <3>1, <3>2 DEF EndsWith
  <2> QED BY <2>1, <2>2
<1> QED BY <1>2, <1>3 DEF EndsWith, r

(* A message that is overwritten matters only if it was the last one.      *)
LEMMA EndsWithDropped ==
    ASSUME NEW q \in Seq(Messages), q # <<>>, NEW m \in Messages,
           NEW b \in BOOLEAN, EndsWith(q, m, b),
           b \/ Head(q).type # m.type \/ m.type \in Types(Tail(q))
    PROVE  EndsWith(Tail(q), m, b)
<1>1. CASE b \/ Head(q).type # m.type
  BY <1>1, EndsWithTail
<1>2. ASSUME ~b, m.type \in Types(Tail(q))
      PROVE  EndsWith(Tail(q), m, b)
  <2> DEFINE r == Tail(q)
  <2>1. PICK n \in Nat : /\ DOMAIN q = 1 .. n + 1 /\ DOMAIN r = 1 .. n
                         /\ \A k \in 1 .. n : r[k] = q[k + 1]
    BY TailElements
  <2>2. PICK l \in DOMAIN r : r[l].type = m.type
    BY <1>2 DEF Types
  <2>3. PICK k \in DOMAIN q :
            q[k] = m /\ \A j \in DOMAIN q : q[j].type = m.type => j <= k
    BY <1>2 DEF EndsWith
  <2> HIDE DEF r
  <2>4. k - 1 \in DOMAIN r /\ r[k - 1] = m
    <3>1. l + 1 \in DOMAIN q /\ q[l + 1].type = m.type /\ l \in Nat \ {0}
      BY <2>1, <2>2
    <3>2. l + 1 <= k
      BY <3>1, <2>3
    <3> QED BY <3>1, <3>2, <2>1, <2>3
  <2>5. ASSUME NEW j \in DOMAIN r, r[j].type = m.type
        PROVE  j <= k - 1
    <3>1. j \in Nat /\ j + 1 \in DOMAIN q /\ q[j + 1].type = m.type
      BY <2>1, <2>5
    <3>2. j + 1 <= k
      BY <3>1, <2>3
    <3> QED BY <3>1, <3>2, <2>1
  <2> QED BY <2>4, <2>5 DEF EndsWith, r
<1> QED BY <1>1, <1>2

LEMMA TypesAppend ==
    ASSUME NEW q \in Seq(Messages), NEW m \in Messages
    PROVE  Types(Append(q, m)) = Types(q) \cup {m.type}
<1> DEFINE r == Append(q, m)
<1>1. /\ Len(q) \in Nat /\ DOMAIN q = 1 .. Len(q) /\ DOMAIN r = 1 .. Len(q) + 1
      /\ r[Len(q) + 1] = m /\ \A k \in 1 .. Len(q) : r[k] = q[k]
  OBVIOUS
<1> HIDE DEF r
<1> QED BY <1>1 DEF Types, r

LEMMA TypesTail ==
    ASSUME NEW q \in Seq(Messages), q # <<>>
    PROVE  Types(q) = Types(Tail(q)) \cup {Head(q).type}
<1> DEFINE r == Tail(q)
<1>1. PICK n \in Nat : /\ DOMAIN q = 1 .. n + 1 /\ DOMAIN r = 1 .. n
                       /\ \A k \in 1 .. n : r[k] = q[k + 1]
                       /\ Head(q) = q[1]
  BY TailElements
<1> HIDE DEF r
<1>2. \A k \in 1 .. n : k + 1 \in 1 .. n + 1
  OBVIOUS
<1>3. \A k \in 1 .. n + 1 : k = 1 \/ (k - 1 \in 1 .. n /\ q[k] = r[k - 1])
  BY <1>1
<1>4. 1 \in DOMAIN q
  BY <1>1
<1>5. ASSUME NEW x \in Types(q) PROVE x \in Types(r) \cup {Head(q).type}
  <2>1. PICK k \in DOMAIN q : x = q[k].type
    BY <1>5 DEF Types
  <2>2. CASE k = 1
    BY <1>1, <2>1, <2>2
  <2>3. CASE k # 1
    <3>1. k - 1 \in DOMAIN r /\ x = r[k - 1].type
      BY <1>1, <1>3, <2>1, <2>3
    <3> QED BY <3>1 DEF Types
  <2> QED BY <2>2, <2>3
<1>6. ASSUME NEW x \in Types(r) PROVE x \in Types(q)
  <2>1. PICK k \in DOMAIN r : x = r[k].type
    BY <1>6 DEF Types
  <2>2. k + 1 \in DOMAIN q /\ x = q[k + 1].type
    BY <1>1, <1>2, <2>1
  <2> QED BY <2>2 DEF Types
<1>7. Head(q).type \in Types(q)
  BY <1>1, <1>4 DEF Types
<1> QED BY <1>5, <1>6, <1>7 DEF r

LEMMA CommandAppended ==
    ASSUME NEW q \in Seq(Commands), NEW m \in Commands
    PROVE  \E k \in DOMAIN Append(q, m) : Append(q, m)[k].type = m.type
<1>1. Append(q, m)[Len(q) + 1] = m /\ Len(q) + 1 \in DOMAIN Append(q, m)
  OBVIOUS
<1> QED BY <1>1

LEMMA CommandKept ==
    ASSUME NEW q \in Seq(Commands), NEW m \in Commands, NEW k \in DOMAIN q
    PROVE  k \in DOMAIN Append(q, m) /\ Append(q, m)[k] = q[k]
OBVIOUS

(* Handling a command of one type removes none of another. *)
LEMMA CommandLeft ==
    ASSUME NEW q \in Seq(Commands), q # <<>>, NEW k \in DOMAIN q,
           NEW type, Head(q).type # type, q[k].type = type
    PROVE  \E j \in DOMAIN Tail(q) : Tail(q)[j].type = type
<1>1. Head(q) = q[1] /\ k # 1
  OBVIOUS
<1>2. k - 1 \in DOMAIN Tail(q) /\ Tail(q)[k - 1] = q[k]
  BY <1>1
<1> QED BY <1>2
-----------------------------------------------------------------------------
(* What is typed as it should. *)

LEMMA ClampBounds ==
    ASSUME NEW v \in Values
    PROVE  Clamp(v) \in Fades /\ Clamp(v) # None
BY SettingsAssumption DEF Clamp, Fades

LEMMA FadesValid == Fades \subseteq Nat /\ None \notin Fades
BY SettingsAssumption DEF Fades

LEMMA MessageTypes ==
    /\ \A v \in Fades : Config(v) \in Messages /\ Config(v).type = "config"
    /\ \A s \in IfaceStates : Interfaces(s) \in Messages /\ Interfaces(s).type = "interfaces"
    /\ \A m \in Messages : \/ m.type = "config" /\ m.value \in Fades /\ m = Config(m.value)
                           \/ m.type = "interfaces" /\ m.value \in IfaceStates
                              /\ m = Interfaces(m.value)
<1>1. \A v \in Fades : Config(v) \in Messages /\ Config(v).type = "config"
                        /\ Config(v).value = v
  BY DEF Messages, Config
<1>2. \A s \in IfaceStates : Interfaces(s) \in Messages
          /\ Interfaces(s).type = "interfaces" /\ Interfaces(s).value = s
  BY DEF Messages, Interfaces
<1>3. \A m \in Messages : \/ \E v \in Fades : m = Config(v)
                          \/ \E s \in IfaceStates : m = Interfaces(s)
  BY DEF Messages
<1> QED BY <1>1, <1>2, <1>3

LEMMA CommandTypes ==
    /\ \A v \in Values : SetFade(v) \in Commands /\ SetFade(v).type = "set_fade"
    /\ \A i \in Ifaces : SetInterface(i) \in Commands /\ SetInterface(i).type = "set_interface"
    /\ \A m \in Commands : /\ m.type = "set_fade" => m.value \in Values
                           /\ m.type = "set_interface" => m.value \in Ifaces
<1>1. \A v \in Values : SetFade(v) \in Commands /\ SetFade(v).type = "set_fade"
                        /\ SetFade(v).value = v
  BY DEF Commands, SetFade
<1>2. \A i \in Ifaces : SetInterface(i) \in Commands
          /\ SetInterface(i).type = "set_interface" /\ SetInterface(i).value = i
  BY DEF Commands, SetInterface
<1>3. \A m \in Commands : \/ \E v \in Values : m = SetFade(v)
                          \/ \E i \in Ifaces : m = SetInterface(i)
  BY DEF Commands
<1> QED BY <1>1, <1>2, <1>3

LEMMA SelectedType ==
    ASSUME NEW s \in IfaceStates
    PROVE  Selected(s) \in [options : SUBSET Ifaces, value : Ifaces \cup {None}]
<1>1. s.interfaces \subseteq Ifaces
  BY DEF IfaceStates
<1>2. s.interfaces # {} => (CHOOSE i \in s.interfaces : TRUE) \in s.interfaces
  OBVIOUS
<1> QED BY <1>1, <1>2 DEF Selected

(* What a message does to the inbox of a tab. *)
LEMMA SendEffect ==
    ASSUME TypeOK, NEW m \in Messages, Send(m)
    PROVE  /\ inbox' \in [Tabs -> Seq(Messages)]
           /\ missing' \in [Tabs -> SUBSET {"config", "interfaces"}]
           /\ \A t \in Tabs :
                /\ Len(inbox'[t]) <= RingCapacity
                /\ missing'[t] \cap Types(inbox'[t]) = {}
                /\ ~Subscribed(t) => inbox'[t] = inbox[t]
                /\ Subscribed(t) =>
                       \/ /\ inbox'[t] = Append(inbox[t], m)
                          /\ missing'[t] = missing[t] \ Types(inbox'[t])
                       \/ /\ inbox[t] # <<>> /\ inbox'[t] = Append(Tail(inbox[t]), m)
                          /\ missing'[t] = (missing[t] \cup {Head(inbox[t]).type})
                                               \ Types(inbox'[t])
<1> SUFFICES ASSUME NEW t \in Tabs
    PROVE  /\ inbox'[t] \in Seq(Messages)
           /\ missing'[t] \in SUBSET {"config", "interfaces"}
           /\ Len(inbox'[t]) <= RingCapacity
           /\ missing'[t] \cap Types(inbox'[t]) = {}
           /\ ~Subscribed(t) => inbox'[t] = inbox[t]
           /\ Subscribed(t) =>
                  \/ /\ inbox'[t] = Append(inbox[t], m)
                     /\ missing'[t] = missing[t] \ Types(inbox'[t])
                  \/ /\ inbox[t] # <<>> /\ inbox'[t] = Append(Tail(inbox[t]), m)
                     /\ missing'[t] = (missing[t] \cup {Head(inbox[t]).type})
                                          \ Types(inbox'[t])
  BY DEF Send
<1> DEFINE full == Subscribed(t) /\ Len(inbox[t]) = RingCapacity
           dropped == IF full THEN {Head(inbox[t]).type} ELSE {}
<1>1. /\ inbox[t] \in Seq(Messages) /\ missing[t] \in SUBSET {"config", "interfaces"}
      /\ Len(inbox[t]) <= RingCapacity /\ RingCapacity \in Nat \ {0}
  BY SettingsAssumption DEF TypeOK
<1>2. /\ inbox'[t] = IF full THEN Append(Tail(inbox[t]), m)
                     ELSE IF Subscribed(t) THEN Append(inbox[t], m) ELSE inbox[t]
      /\ missing'[t] = (missing[t] \cup dropped) \ Types(inbox'[t])
  BY DEF Send
<1> HIDE DEF full
<1>3. CASE full
  <2>1. Len(inbox[t]) = RingCapacity /\ Subscribed(t)
    BY <1>3 DEF full
  <2>2. inbox'[t] = Append(Tail(inbox[t]), m) /\ dropped = {Head(inbox[t]).type}
    BY <1>2, <1>3
  <2>3. /\ inbox[t] # <<>> /\ Head(inbox[t]) \in Messages
        /\ Tail(inbox[t]) \in Seq(Messages) /\ Len(Tail(inbox[t])) = RingCapacity - 1
    BY <2>1, <1>1
  <2>4. Append(Tail(inbox[t]), m) \in Seq(Messages)
        /\ Len(Append(Tail(inbox[t]), m)) = RingCapacity
    BY <2>3, <1>1
  <2>5. Head(inbox[t]).type \in {"config", "interfaces"}
    BY <2>3, MessageTypes
  <2> HIDE DEF dropped
  <2>6. missing'[t] = (missing[t] \cup {Head(inbox[t]).type}) \ Types(inbox'[t])
    BY <1>2, <2>2
  <2>7. missing'[t] \subseteq {"config", "interfaces"}
        /\ missing'[t] \cap Types(inbox'[t]) = {}
    BY <2>5, <2>6, <1>1
  <2> QED BY <2>1, <2>2, <2>3, <2>4, <2>6, <2>7, <1>1
<1>4. CASE ~full
  <2>1. missing'[t] = missing[t] \ Types(inbox'[t])
    BY <1>2, <1>4
  <2>2. CASE Subscribed(t)
    <3>1. Len(inbox[t]) # RingCapacity
      BY <1>4, <2>2 DEF full
    <3>2. inbox'[t] = Append(inbox[t], m)
      BY <1>2, <1>4, <2>2
    <3>3. Append(inbox[t], m) \in Seq(Messages)
          /\ Len(Append(inbox[t], m)) <= RingCapacity
      BY <3>1, <1>1
    <3> QED BY <2>1, <2>2, <3>2, <3>3, <1>1
  <2>3. CASE ~Subscribed(t)
    BY <1>1, <1>2, <1>4, <2>1, <2>3
  <2> QED BY <2>2, <2>3
<1> QED BY <1>3, <1>4

(* What follows the messages of another type stays what it was, unless the *)
(* last of its own is lost.                                                *)
LEMMA SendAnother ==
    ASSUME TypeOK, NEW x \in Messages, Send(x), NEW t \in Tabs, Fresh(t), Subscribed(t),
           NEW m \in Messages, x.type # m.type,
           NEW b \in BOOLEAN, b \/ m.type \notin missing'[t],
           m.type \notin missing[t] => EndsWith(inbox[t], m, b)
    PROVE  EndsWith(inbox'[t], m, b)
<1> DEFINE q == inbox[t]
<1>1. q \in Seq(Messages)
  BY DEF TypeOK
<1>2. missing[t] \cap Types(q) = {}
  BY DEF Fresh
<1>a. ASSUME b, m.type \notin Types(q)
      PROVE  EndsWith(q, m, b)
  BY <1>a DEF EndsWith, Types
<1>3. CASE inbox'[t] = Append(q, x) /\ missing'[t] = missing[t] \ Types(inbox'[t])
  <2>1. Types(inbox'[t]) = Types(q) \cup {x.type}
    BY <1>1, <1>3, TypesAppend
  <2>2. EndsWith(q, m, b)
    BY <1>2, <1>3, <1>a, <2>1
  <2> QED BY <1>1, <1>3, <2>2, EndsWithAnother
<1>4. CASE /\ q # <<>> /\ inbox'[t] = Append(Tail(q), x)
           /\ missing'[t] = (missing[t] \cup {Head(q).type}) \ Types(inbox'[t])
  <2>1. Tail(q) \in Seq(Messages)
    BY <1>1, <1>4
  <2>2. Types(inbox'[t]) = Types(Tail(q)) \cup {x.type}
    BY <1>4, <2>1, TypesAppend
  <2>3. Types(q) = Types(Tail(q)) \cup {Head(q).type}
    BY <1>1, <1>4, TypesTail
  <2>4. b \/ Head(q).type # m.type \/ m.type \in Types(Tail(q))
    BY <1>4, <2>2
  <2>5. EndsWith(q, m, b)
    BY <1>2, <1>4, <1>a, <2>2, <2>3
  <2>6. EndsWith(Tail(q), m, b)
    BY <1>1, <1>4, <2>4, <2>5, EndsWithDropped
  <2> QED BY <1>4, <2>1, <2>6, EndsWithAnother, ZenonT(30)
<1> QED BY <1>3, <1>4, SendEffect

(* What is sent is the last message of its type, whoever lags.             *)
LEMMA SendItself ==
    ASSUME TypeOK, NEW m \in Messages, Send(m), NEW t \in Tabs, Subscribed(t),
           NEW b \in BOOLEAN
    PROVE  EndsWith(inbox'[t], m, b)
<1> DEFINE q == inbox[t]
<1>1. q \in Seq(Messages)
  BY DEF TypeOK
<1>2. CASE inbox'[t] = Append(q, m)
  BY <1>1, <1>2, EndsWithItself
<1>3. CASE q # <<>> /\ inbox'[t] = Append(Tail(q), m)
  <2>1. Tail(q) \in Seq(Messages)
    BY <1>1, <1>3
  <2> QED BY <1>3, <2>1, EndsWithItself
<1> QED BY <1>2, <1>3, SendEffect
-----------------------------------------------------------------------------
(* Types. *)

LEMMA InitTyped == Init => TypeOK
<1> SUFFICES ASSUME Init PROVE TypeOK
  OBVIOUS
<1>1. fade_secs \in Fades
  BY ClampBounds DEF Init
<1>2. iface \in IfaceStates
  BY DEF Init, IfaceStates
<1>3. /\ requests \in Seq(Ifaces) /\ Len(requests) <= QueueCapacity
      /\ inbox \in [Tabs -> Seq(Messages)] /\ commands \in [Tabs -> Seq(Commands)]
      /\ \A t \in Tabs : Len(inbox[t]) <= RingCapacity
  BY SettingsAssumption DEF Init
<1> QED BY <1>1, <1>2, <1>3 DEF Init, TypeOK, NoPreamble, Unset

LEMMA ConnectionTyped ==
    ASSUME TypeOK, NEW t \in Tabs, Fresh(t),
           Open(t) \/ Subscribe(t) \/ ReadConfig(t) \/ ReadInterfaces(t)
               \/ SendPreamble(t) \/ Close(t)
    PROVE  TypeOK'
<1>1. CASE Open(t) \/ Subscribe(t)
  BY <1>1 DEF Open, Subscribe, Advance, TypeOK, servervars, hvars
<1>2. CASE ReadConfig(t)
  BY <1>2, ZenonT(30) DEF ReadConfig, Advance, TypeOK, servervars, hvars
<1>3. CASE ReadInterfaces(t)
  BY <1>3, ZenonT(30) DEF ReadInterfaces, Advance, TypeOK, servervars, hvars
<1>4. CASE SendPreamble(t)
  <2>1. Selected(preamble[t].iface) \in [options : SUBSET Ifaces, value : Ifaces \cup {None}]
    BY <1>4, SelectedType DEF SendPreamble, Advance, Fresh
  <2>2. preamble[t].fade \in Fades \cup {None}
    BY DEF TypeOK
  <2>3. selector' \in [Tabs -> [options : SUBSET Ifaces, value : Ifaces \cup {None}]]
    BY <1>4, <2>1 DEF SendPreamble, TypeOK
  <2>4. fade_shown' \in [Tabs -> Fades \cup Values \cup {None}]
    BY <1>4, <2>2 DEF SendPreamble, TypeOK
  <2>5. /\ preamble' \in [Tabs -> [fade : Fades \cup {None}, iface : IfaceStates \cup {None}]]
        /\ conn' \in [Tabs -> {"off", "open", "subscribed", "configured", "prepared", "live"}]
    BY <1>4 DEF SendPreamble, Advance, TypeOK, NoPreamble
  <2> QED BY <1>4, <2>3, <2>4, <2>5 DEF SendPreamble, TypeOK, servervars, hvars
<1>5. CASE Close(t)
  <2>1. /\ <<>> \in Seq(Messages) /\ <<>> \in Seq(Commands) /\ Len(<<>>) <= RingCapacity
    BY SettingsAssumption
  <2>2. /\ inbox' \in [Tabs -> Seq(Messages)] /\ commands' \in [Tabs -> Seq(Commands)]
        /\ \A u \in Tabs : Len(inbox'[u]) <= RingCapacity
    BY <1>5, <2>1 DEF Close, TypeOK
  <2> QED BY <1>5, <2>2 DEF Close, TypeOK, servervars, hvars, NoPreamble
<1> QED BY <1>1, <1>2, <1>3, <1>4, <1>5

LEMMA ReceiveTyped ==
    ASSUME TypeOK, NEW t \in Tabs, Receive(t)
    PROVE  TypeOK'
<1> DEFINE m == Head(inbox[t])
<1>1. inbox[t] \in Seq(Messages) /\ inbox[t] # <<>> /\ Len(inbox[t]) <= RingCapacity
  BY DEF Receive, TypeOK
<1>2. m \in Messages /\ Tail(inbox[t]) \in Seq(Messages)
      /\ Len(Tail(inbox[t])) <= RingCapacity
  BY <1>1, SettingsAssumption
<1>3. /\ m.type = "config" => m.value \in Fades
      /\ m.type = "interfaces" => m.value \in IfaceStates
  BY <1>2, MessageTypes
<1>4. fade_shown' \in [Tabs -> Fades \cup Values \cup {None}]
  BY <1>3 DEF Receive, TypeOK
<1>5. selector' \in [Tabs -> [options : SUBSET Ifaces, value : Ifaces \cup {None}]]
  <2>1. \/ selector' = selector
        \/ m.type = "interfaces" /\ selector' = [selector EXCEPT ![t] = Selected(m.value)]
    BY DEF Receive
  <2>2. m.type = "interfaces" =>
            Selected(m.value) \in [options : SUBSET Ifaces, value : Ifaces \cup {None}]
    BY <1>3, SelectedType
  <2> QED BY <2>1, <2>2 DEF TypeOK
<1>6. inbox' \in [Tabs -> Seq(Messages)] /\ \A u \in Tabs : Len(inbox'[u]) <= RingCapacity
  BY <1>2 DEF Receive, TypeOK
<1> QED BY <1>4, <1>5, <1>6 DEF Receive, TypeOK, servervars, hvars

LEMMA CommandTyped ==
    ASSUME TypeOK, NEW t \in Tabs, NEW m \in Commands, Command(t, m)
    PROVE  commands' \in [Tabs -> Seq(Commands)]
<1>1. commands[t] \in Seq(Commands) /\ commands \in [Tabs -> Seq(Commands)]
  BY DEF TypeOK
<1>2. Append(commands[t], m) \in Seq(Commands)
  BY <1>1
<1> QED BY <1>1, <1>2 DEF Command

LEMMA ControlTyped ==
    ASSUME TypeOK, NEW t \in Tabs,
           \/ \E v \in Values : MoveSlider(t, v)
           \/ \E i \in Ifaces : Choose(t, i)
    PROVE  TypeOK'
<1>1. ASSUME NEW v \in Values, MoveSlider(t, v)
      PROVE  TypeOK'
  <2>1. commands' \in [Tabs -> Seq(Commands)]
    BY <1>1, CommandTypes, CommandTyped DEF MoveSlider
  <2> QED BY <1>1, <2>1 DEF MoveSlider, TypeOK, servervars, hvars
<1>2. ASSUME NEW i \in Ifaces, Choose(t, i)
      PROVE  TypeOK'
  <2>1. commands' \in [Tabs -> Seq(Commands)]
    BY <1>2, CommandTypes, CommandTyped DEF Choose
  <2>2. selector' \in [Tabs -> [options : SUBSET Ifaces, value : Ifaces \cup {None}]]
    <3>1. selector' = [selector EXCEPT ![t] = [selector[t] EXCEPT !.value = i]]
      BY <1>2 DEF Choose
    <3>2. [selector[t] EXCEPT !.value = i]
              \in [options : SUBSET Ifaces, value : Ifaces \cup {None}]
      <4>1. selector[t] \in [options : SUBSET Ifaces, value : Ifaces \cup {None}]
        BY DEF TypeOK
      <4> QED BY <4>1
    <3> QED BY <3>1, <3>2 DEF TypeOK
  <2> QED BY <1>2, <2>1, <2>2 DEF Choose, TypeOK, servervars, hvars
<1> QED BY <1>1, <1>2

(* The command at the head of the socket of t, and those left behind it. *)
LEMMA HandledTyped ==
    ASSUME TypeOK, NEW t \in Tabs, NEW type, Handles(t, type)
    PROVE  /\ commands' \in [Tabs -> Seq(Commands)]
           /\ commands[t] \in Seq(Commands) /\ commands[t] # <<>>
           /\ Head(commands[t]) \in Commands /\ Head(commands[t]).type = type
<1>1. commands[t] \in Seq(Commands) /\ commands[t] # <<>>
  BY DEF Handles, TypeOK
<1>2. Head(commands[t]) \in Commands /\ Tail(commands[t]) \in Seq(Commands)
  BY <1>1
<1>3. commands' \in [Tabs -> Seq(Commands)]
  BY <1>2 DEF Handles, TypeOK
<1> QED BY <1>1, <1>2, <1>3 DEF Handles

LEMMA StoreTyped ==
    ASSUME TypeOK, NEW k \in Tasks, NEW v \in Values, Store(k, v)
    PROVE  /\ fade_secs' \in Fades /\ storing' \in [Tasks -> Fades \cup {None}]
           /\ newest' \in Tasks
BY ClampBounds DEF Store, TypeOK

LEMMA ServerTyped ==
    ASSUME TypeOK,
           \/ \E t \in Tabs : StoreFade(t) \/ AskInterface(t)
           \/ \E k \in Others, v \in Values : StoreFadeOther(k, v)
           \/ \E k \in Tasks : SendConfig(k)
           \/ Take \/ Switch \/ Announce
    PROVE  TypeOK'
<1>1. ASSUME NEW t \in Tabs, StoreFade(t) PROVE TypeOK'
  <2>1. commands' \in [Tabs -> Seq(Commands)] /\ Head(commands[t]).value \in Values
    BY <1>1, HandledTyped, CommandTypes DEF StoreFade
  <2>2. fade_secs' \in Fades /\ storing' \in [Tasks -> Fades \cup {None}] /\ newest' \in Tasks
    BY <1>1, <2>1, StoreTyped DEF StoreFade, Tasks
  <2> QED BY <1>1, <2>1, <2>2 DEF StoreFade, TypeOK
<1>2. ASSUME NEW t \in Tabs, AskInterface(t) PROVE TypeOK'
  <2>1. commands' \in [Tabs -> Seq(Commands)] /\ Head(commands[t]).value \in Ifaces
    BY <1>2, HandledTyped, CommandTypes DEF AskInterface
  <2>2. requests' \in Seq(Ifaces) /\ Len(requests') <= QueueCapacity
    BY <1>2, <2>1, SettingsAssumption DEF AskInterface, TypeOK
  <2> QED BY <1>2, <2>1, <2>2 DEF AskInterface, TypeOK, hvars
<1>3. ASSUME NEW k \in Others, NEW v \in Values, StoreFadeOther(k, v) PROVE TypeOK'
  <2>1. fade_secs' \in Fades /\ storing' \in [Tasks -> Fades \cup {None}] /\ newest' \in Tasks
    BY <1>3, StoreTyped DEF StoreFadeOther, Tasks
  <2> QED BY <1>3, <2>1 DEF StoreFadeOther, TypeOK, tabvars
<1>4. ASSUME NEW k \in Tasks, SendConfig(k) PROVE TypeOK'
  <2>1. Config(storing[k]) \in Messages
    BY <1>4, MessageTypes DEF SendConfig, TypeOK
  <2>2. /\ inbox' \in [Tabs -> Seq(Messages)] /\ missing' \in [Tabs -> SUBSET {"config", "interfaces"}]
        /\ \A u \in Tabs : Len(inbox'[u]) <= RingCapacity
    BY <1>4, <2>1, SendEffect DEF SendConfig
  <2>3. /\ storing' \in [Tasks -> Fades \cup {None}]
        /\ newest' \in Tasks \cup {None} /\ stale' \in BOOLEAN
    BY <1>4 DEF SendConfig, TypeOK
  <2> QED BY <1>4, <2>2, <2>3 DEF SendConfig, TypeOK
<1>5. CASE Take
  <2>1. requests \in Seq(Ifaces) /\ requests # <<>> /\ Len(requests) <= QueueCapacity
    BY <1>5 DEF Take, TypeOK
  <2>2. /\ Head(requests) \in Ifaces /\ Tail(requests) \in Seq(Ifaces)
        /\ Len(Tail(requests)) <= QueueCapacity
    BY <2>1, SettingsAssumption
  <2> QED BY <1>5, <2>2 DEF Take, TypeOK, tabvars, hvars
<1>6. CASE Switch
  <2>1. iface' \in IfaceStates
    BY <1>6, SettingsAssumption DEF Switch, IfaceStates, Outcomes
  <2>2. loop' \in [at : {"idle", "switching", "refreshed"}, wanted : Ifaces \cup {None}]
    BY <1>6 DEF Switch, Switched
  <2> QED BY <1>6, <2>1, <2>2 DEF Switch, TypeOK, tabvars, hvars
<1>7. CASE Announce
  <2>1. Interfaces(iface) \in Messages
    BY MessageTypes DEF TypeOK
  <2>2. /\ inbox' \in [Tabs -> Seq(Messages)] /\ missing' \in [Tabs -> SUBSET {"config", "interfaces"}]
        /\ \A u \in Tabs : Len(inbox'[u]) <= RingCapacity
    BY <1>7, <2>1, SendEffect DEF Announce
  <2> QED BY <1>7, <2>2 DEF Announce, TypeOK, hvars
<1> QED BY <1>1, <1>2, <1>3, <1>4, <1>5, <1>6, <1>7
-----------------------------------------------------------------------------
(* What is safe stays safe. *)

LEMMA FreshKept ==
    ASSUME NEW t \in Tabs, Fresh(t),
           conn'[t] = conn[t], preamble'[t] = preamble[t],
           inbox'[t] = inbox[t], missing'[t] = missing[t]
    PROVE  Fresh(t)'
BY DEF Fresh

LEMMA FadeKept ==
    ASSUME NEW t \in Tabs, FadeSafe(t),
           conn'[t] = conn[t], preamble'[t] = preamble[t], inbox'[t] = inbox[t],
           missing'[t] = missing[t], fade_shown'[t] = fade_shown[t],
           fade_secs' = fade_secs, newest' = newest, stale' = stale,
           Pending(t, "set_fade") => Pending(t, "set_fade")'
    PROVE  FadeSafe(t)'
BY DEF FadeSafe, FadeArrives

LEMMA SelectorKept ==
    ASSUME NEW t \in Tabs, SelectorSafe(t),
           conn'[t] = conn[t], preamble'[t] = preamble[t], inbox'[t] = inbox[t],
           missing'[t] = missing[t], selector'[t] = selector[t], iface' = iface,
           loop'.at # "refreshed" => loop.at # "refreshed",
           (Pending(t, "set_interface") \/ loop.at # "idle" \/ requests # <<>>) =>
               (Pending(t, "set_interface")' \/ loop'.at # "idle" \/ requests' # <<>>)
    PROVE  SelectorSafe(t)'
BY DEF SelectorSafe, SelectorArrives

(* A tab that a step does not concern. *)
Untouched(t) ==
    /\ UNCHANGED <<fade_secs, iface, newest, stale, loop, requests>>
    /\ conn'[t] = conn[t] /\ preamble'[t] = preamble[t] /\ commands'[t] = commands[t]
    /\ inbox'[t] = inbox[t] /\ missing'[t] = missing[t]
    /\ fade_shown'[t] = fade_shown[t] /\ selector'[t] = selector[t]

LEMMA UntouchedSafe ==
    ASSUME NEW t \in Tabs, TabSafe(t), Untouched(t)
    PROVE  TabSafe(t)'
<1>1. /\ Pending(t, "set_fade")' <=> Pending(t, "set_fade")
      /\ Pending(t, "set_interface")' <=> Pending(t, "set_interface")
  BY DEF Pending, Untouched
<1>2. Fresh(t)'
  BY FreshKept DEF TabSafe, Untouched
<1>3. FadeSafe(t)'
  BY <1>1, FadeKept DEF TabSafe, Untouched
<1>4. SelectorSafe(t)'
  BY <1>1, SelectorKept DEF TabSafe, Untouched
<1> QED BY <1>2, <1>3, <1>4 DEF TabSafe

(* The connection: what is read after the subscription is either current   *)
(* or followed, in the inbox, by what is.                                  *)
LEMMA ConnectionSafe ==
    ASSUME TypeOK, NEW t \in Tabs, TabSafe(t),
           Open(t) \/ Subscribe(t) \/ ReadConfig(t) \/ ReadInterfaces(t)
               \/ SendPreamble(t) \/ Close(t)
    PROVE  TabSafe(t)'
<1> USE DEF TabSafe
<1>a. /\ conn \in [Tabs -> {"off", "open", "subscribed", "configured", "prepared", "live"}]
      /\ preamble \in [Tabs -> [fade : Fades \cup {None}, iface : IfaceStates \cup {None}]]
      /\ iface \in IfaceStates
      /\ inbox \in [Tabs -> Seq(Messages)] /\ fade_shown \in [Tabs -> Fades \cup Values \cup {None}]
      /\ missing \in [Tabs -> SUBSET {"config", "interfaces"}]
      /\ selector \in [Tabs -> [options : SUBSET Ifaces, value : Ifaces \cup {None}]]
      /\ missing[t] \cap Types(inbox[t]) = {}
  BY DEF TypeOK, Fresh
<1>b. \A m : EndsWith(<<>>, m, TRUE)
  BY DEF EndsWith
<1>1. CASE Open(t)
  <2>1. conn[t] = "off" /\ conn'[t] = "open" /\ inbox' = inbox /\ missing' = missing
    BY <1>1, <1>a DEF Open, Advance
  <2> QED BY <2>1 DEF Fresh, FadeSafe, SelectorSafe
<1>2. CASE Subscribe(t)
  <2>1. /\ conn[t] = "open" /\ conn'[t] = "subscribed" /\ inbox'[t] = <<>>
        /\ inbox' = inbox /\ missing' = missing
    BY <1>2, <1>a DEF Subscribe, Advance, Fresh
  <2> QED BY <2>1, <1>b DEF Fresh, FadeSafe, SelectorSafe
<1>3. CASE ReadConfig(t)
  <2>1. /\ conn[t] = "subscribed" /\ conn'[t] = "configured" /\ inbox' = inbox
        /\ preamble'[t].fade = fade_secs /\ missing'[t] = missing[t] \ {"config"}
        /\ UNCHANGED <<newest, stale, fade_secs, iface, loop>>
    BY <1>3, <1>a DEF ReadConfig, Advance, servervars, hvars
  <2>2. FadeSafe(t)'
    BY <2>1 DEF FadeSafe
  <2>3. SelectorSafe(t)'
    BY <2>1 DEF SelectorSafe
  <2> QED BY <2>1, <2>2, <2>3 DEF Fresh
<1>4. CASE ReadInterfaces(t)
  <2>1. /\ conn[t] = "configured" /\ conn'[t] = "prepared" /\ inbox' = inbox
        /\ preamble'[t].fade = preamble[t].fade /\ preamble'[t].iface = iface
        /\ missing'[t] = missing[t] \ {"interfaces"}
        /\ UNCHANGED <<newest, stale, fade_secs, iface, loop>>
    BY <1>4, <1>a DEF ReadInterfaces, Advance, servervars, hvars
  <2>2. FadeSafe(t)'
    BY <2>1 DEF FadeSafe
  <2>3. SelectorSafe(t)'
    BY <2>1 DEF SelectorSafe
  <2> QED BY <2>1, <2>2, <2>3, <1>a DEF Fresh
<1>5. CASE SendPreamble(t)
  <2>1. /\ conn[t] = "prepared" /\ conn'[t] = "live" /\ inbox' = inbox
        /\ fade_shown'[t] = preamble[t].fade /\ selector'[t] = Selected(preamble[t].iface)
        /\ UNCHANGED <<missing, newest, stale, fade_secs, iface, loop>>
    BY <1>5, <1>a DEF SendPreamble, Advance, servervars, hvars
  <2>2. FadeSafe(t)'
    BY <2>1 DEF FadeSafe, FadeArrives
  <2>3. (preamble[t].iface = iface) => (selector'[t] = Selected(iface))
    BY <2>1
  <2>4. EndsWith(inbox[t], Interfaces(iface), preamble[t].iface = iface)
            => EndsWith(inbox[t], Interfaces(iface), selector'[t] = Selected(iface))
    BY <2>3, EndsWithMore
  <2>5. SelectorArrives(t)' <=> EndsWith(inbox[t], Interfaces(iface), selector'[t] = Selected(iface))
    BY <2>1 DEF SelectorArrives, Selected
  <2>6. SelectorSafe(t)'
    BY <2>1, <2>4, <2>5 DEF SelectorSafe
  <2> QED BY <2>1, <2>2, <2>6 DEF Fresh
<1>6. CASE Close(t)
  <2>1. conn'[t] = "off" /\ inbox'[t] = <<>> /\ missing'[t] = {}
    BY <1>6, <1>a DEF Close
  <2> QED BY <2>1 DEF Fresh, FadeSafe, SelectorSafe
<1> QED BY <1>1, <1>2, <1>3, <1>4, <1>5, <1>6

LEMMA ReceiveSafe ==
    ASSUME TypeOK, NEW t \in Tabs, TabSafe(t), Receive(t)
    PROVE  TabSafe(t)'
<1> DEFINE m == Head(inbox[t])
<1>1. /\ inbox[t] \in Seq(Messages) /\ inbox[t] # <<>> /\ m \in Messages
      /\ fade_secs \in Fades /\ iface \in IfaceStates
  BY DEF Receive, TypeOK
<1>2. /\ conn[t] = "live" /\ inbox'[t] = Tail(inbox[t])
      /\ UNCHANGED <<fade_secs, iface, requests, loop, conn, commands, missing, newest, stale>>
  BY DEF Receive, TypeOK, servervars, hvars
<1>3. \/ m.type = "config" /\ fade_shown'[t] = m.value /\ selector' = selector
      \/ m.type = "interfaces" /\ selector'[t] = Selected(m.value) /\ fade_shown' = fade_shown
  BY DEF Receive, TypeOK
<1>4. FadeArrives(t) => FadeArrives(t)'
  <2>1. Config(fade_secs) \in Messages /\ Config(fade_secs).type = "config"
        /\ Config(fade_secs).value = fade_secs
    BY <1>1, MessageTypes DEF Config
  <2>2. /\ m.type # "config" => fade_shown'[t] = fade_shown[t]
        /\ m = Config(fade_secs) => fade_shown'[t] = fade_secs
    BY <1>3, <2>1
  <2>3. EndsWith(inbox[t], Config(fade_secs), fade_shown[t] = fade_secs)
            => EndsWith(Tail(inbox[t]), Config(fade_secs), fade_shown'[t] = fade_secs)
    BY <1>1, <2>1, <2>2, EndsWithTail
  <2> QED BY <1>2, <2>3 DEF FadeArrives
<1>5. SelectorArrives(t) => SelectorArrives(t)'
  <2>1. Interfaces(iface) \in Messages /\ Interfaces(iface).type = "interfaces"
        /\ Interfaces(iface).value = iface
    BY <1>1, MessageTypes DEF Interfaces
  <2>2. /\ m.type # "interfaces" => selector'[t] = selector[t]
        /\ m = Interfaces(iface) => selector'[t] = Selected(iface)
    BY <1>3, <2>1
  <2>3. EndsWith(inbox[t], Interfaces(iface), selector[t] = Selected(iface))
            => EndsWith(Tail(inbox[t]), Interfaces(iface), selector'[t] = Selected(iface))
    BY <1>1, <2>1, <2>2, EndsWithTail
  <2>4. SelectorArrives(t)' <=>
            EndsWith(Tail(inbox[t]), Interfaces(iface), selector'[t] = Selected(iface))
    BY <1>2 DEF SelectorArrives, Selected
  <2> QED BY <2>3, <2>4 DEF SelectorArrives
<1>6. FadeSafe(t)'
  BY <1>2, <1>4 DEF TabSafe, FadeSafe, Pending
<1>7. SelectorSafe(t)'
  BY <1>2, <1>5 DEF TabSafe, SelectorSafe, Pending
<1>8. Fresh(t)'
  <2>1. Types(inbox'[t]) \subseteq Types(inbox[t])
    BY <1>1, <1>2, TypesTail
  <2> QED BY <1>2, <2>1 DEF TabSafe, Fresh
<1> QED BY <1>6, <1>7, <1>8 DEF TabSafe

(* A control that its user moves waits for the answer to its command. *)
LEMMA CommandPending ==
    ASSUME TypeOK, NEW t \in Tabs, NEW m \in Commands, Command(t, m), conn[t] # "off"
    PROVE  /\ Pending(t, m.type)'
           /\ \A type : Pending(t, type) => Pending(t, type)'
<1>1. commands'[t] = Append(commands[t], m) /\ commands[t] \in Seq(Commands)
  BY DEF Command, TypeOK
<1>2. Pending(t, m.type)'
  BY <1>1, CommandAppended DEF Pending
<1>3. ASSUME NEW type, Pending(t, type)
      PROVE  Pending(t, type)'
  <2>1. PICK k \in DOMAIN commands[t] : commands[t][k].type = type
    BY <1>3 DEF Pending
  <2>2. k \in DOMAIN commands'[t] /\ commands'[t][k] = commands[t][k]
    BY <1>1, CommandKept
  <2> QED BY <2>1, <2>2 DEF Pending
<1> QED BY <1>2, <1>3

LEMMA ControlSafe ==
    ASSUME TypeOK, NEW t \in Tabs, TabSafe(t),
           \/ \E v \in Values : MoveSlider(t, v)
           \/ \E i \in Ifaces : Choose(t, i)
    PROVE  TabSafe(t)'
<1>1. /\ UNCHANGED <<fade_secs, iface, requests, loop, newest, stale, conn, preamble, inbox, missing>>
  BY DEF MoveSlider, Choose, servervars, hvars
<1>2. Fresh(t)'
  BY <1>1, FreshKept DEF TabSafe
<1>3. CASE conn[t] # "live"
  BY <1>1, <1>2, <1>3 DEF TabSafe, FadeSafe, SelectorSafe
<1>4. ASSUME NEW v \in Values, MoveSlider(t, v), conn[t] = "live"
      PROVE  TabSafe(t)'
  <2>1. Pending(t, "set_fade")' /\ (Pending(t, "set_interface") => Pending(t, "set_interface")')
    BY <1>4, CommandTypes, CommandPending DEF MoveSlider
  <2>2. FadeSafe(t)'
    BY <1>1, <1>4, <2>1 DEF FadeSafe
  <2>3. SelectorSafe(t)'
    BY <1>1, <1>4, <2>1, SelectorKept DEF TabSafe, MoveSlider
  <2> QED BY <1>2, <2>2, <2>3 DEF TabSafe
<1>5. ASSUME NEW i \in Ifaces, Choose(t, i), conn[t] = "live"
      PROVE  TabSafe(t)'
  <2>1. Pending(t, "set_interface")' /\ (Pending(t, "set_fade") => Pending(t, "set_fade")')
    BY <1>5, CommandTypes, CommandPending DEF Choose
  <2>2. SelectorSafe(t)'
    BY <1>1, <1>5, <2>1 DEF SelectorSafe
  <2>3. FadeSafe(t)'
    BY <1>1, <1>5, <2>1, FadeKept DEF TabSafe, Choose
  <2> QED BY <1>2, <2>2, <2>3 DEF TabSafe
<1> QED BY <1>3, <1>4, <1>5

(* Handling a command of one type leaves those of another. *)
LEMMA HandledPending ==
    ASSUME TypeOK, NEW t \in Tabs, NEW type, Handles(t, type),
           NEW other, other # type, Pending(t, other)
    PROVE  Pending(t, other)'
<1>1. /\ commands[t] \in Seq(Commands) /\ commands[t] # <<>>
      /\ Head(commands[t]).type = type /\ commands'[t] = Tail(commands[t])
  BY DEF Handles, TypeOK
<1>2. PICK k \in DOMAIN commands[t] : commands[t][k].type = other
  BY DEF Pending
<1>3. \E j \in DOMAIN Tail(commands[t]) : Tail(commands[t])[j].type = other
  BY <1>1, <1>2, CommandLeft
<1> QED BY <1>1, <1>3 DEF Pending

(* A store is answered by the Config of its task. *)
LEMMA StoreSafe ==
    ASSUME TypeOK,
           \/ \E t \in Tabs : StoreFade(t)
           \/ \E k \in Others, v \in Values : StoreFadeOther(k, v),
           NEW u \in Tabs, TabSafe(u)
    PROVE  TabSafe(u)'
<1>1. UNCHANGED <<iface, requests, loop, conn, preamble, inbox, missing, selector>>
  BY DEF StoreFade, StoreFadeOther, tabvars
<1>2. newest' # None
  BY SettingsAssumption DEF StoreFade, StoreFadeOther, Store
<1>3. Pending(u, "set_interface") => Pending(u, "set_interface")'
  <2>1. ASSUME NEW t \in Tabs, StoreFade(t), u = t PROVE <1>3
    BY <2>1, HandledPending DEF StoreFade
  <2>2. ASSUME NEW t \in Tabs, StoreFade(t), u # t PROVE <1>3
    <3>1. commands'[u] = commands[u]
      BY <2>2 DEF StoreFade, Handles, TypeOK
    <3> QED BY <3>1 DEF Pending
  <2>3. ASSUME NEW k \in Others, NEW v \in Values, StoreFadeOther(k, v) PROVE <1>3
    BY <2>3 DEF StoreFadeOther, tabvars, Pending
  <2> QED BY <2>1, <2>2, <2>3
<1>4. Fresh(u)'
  BY <1>1, FreshKept DEF TabSafe
<1>5. FadeSafe(u)'
  BY <1>2 DEF FadeSafe
<1>6. SelectorSafe(u)'
  BY <1>1, <1>3, SelectorKept DEF TabSafe
<1> QED BY <1>4, <1>5, <1>6 DEF TabSafe

(* A request is dropped only behind others, which will be answered. *)
LEMMA AskSafe ==
    ASSUME TypeOK, NEW t \in Tabs, AskInterface(t), NEW u \in Tabs, TabSafe(u)
    PROVE  TabSafe(u)'
<1>1. UNCHANGED <<fade_secs, iface, loop, newest, stale, conn, preamble, inbox,
                  missing, fade_shown, selector>>
  BY DEF AskInterface, hvars
<1>2. requests' # <<>>
  <2>1. requests \in Seq(Ifaces) /\ QueueCapacity # 0
    BY SettingsAssumption DEF TypeOK
  <2> QED BY <2>1 DEF AskInterface
<1>3. Pending(u, "set_fade") => Pending(u, "set_fade")'
  <2>1. CASE u = t
    BY <2>1, HandledPending DEF AskInterface
  <2>2. CASE u # t
    <3>1. commands'[u] = commands[u]
      BY <2>2 DEF AskInterface, Handles, TypeOK
    <3> QED BY <3>1 DEF Pending
  <2> QED BY <2>1, <2>2
<1>4. Fresh(u)'
  BY <1>1, FreshKept DEF TabSafe
<1>5. FadeSafe(u)'
  BY <1>1, <1>3, FadeKept DEF TabSafe
<1>6. SelectorSafe(u)'
  BY <1>1, <1>2, SelectorKept DEF TabSafe
<1> QED BY <1>4, <1>5, <1>6 DEF TabSafe

(* The Config of the last store reaches every subscriber; that of another  *)
(* is stale.                                                               *)
LEMMA ConfigSafe ==
    ASSUME TypeOK, NewestStored, NEW k \in Tasks, SendConfig(k),
           NEW u \in Tabs, TabSafe(u)
    PROVE  TabSafe(u)'
<1> DEFINE m == Config(storing[k])
<1>1. /\ storing[k] \in Fades /\ fade_secs \in Fades /\ iface \in IfaceStates
      /\ inbox[u] \in Seq(Messages)
      /\ conn[u] \in {"off", "open", "subscribed", "configured", "prepared", "live"}
  BY DEF TypeOK, SendConfig
<1>2. m \in Messages /\ m.type = "config"
  BY <1>1, MessageTypes
<1>3. /\ missing'[u] \cap Types(inbox'[u]) = {}
      /\ ~Subscribed(u) => inbox'[u] = inbox[u]
  BY <1>2, SendEffect DEF SendConfig
<1>4. UNCHANGED <<fade_secs, iface, requests, loop, conn, preamble, commands, fade_shown, selector>>
      /\ stale' = (newest # k)
  BY DEF SendConfig
<1>5. Fresh(u)'
  BY <1>3, <1>4 DEF TabSafe, Fresh, Subscribed
<1>6. FadeSafe(u)'
  <2>1. SUFFICES ASSUME ~stale', Subscribed(u)
                 PROVE  FadeSafe(u)'
    BY <1>1, <1>4 DEF FadeSafe, Subscribed
  <2>2. m = Config(fade_secs)
    BY <2>1, <1>4, <1>1, SettingsAssumption DEF NewestStored, Tasks
  <2>3. \A b \in BOOLEAN : EndsWith(inbox'[u], Config(fade_secs), b)
    BY <1>2, <2>1, <2>2, SendItself DEF SendConfig
  <2> QED BY <1>4, <2>3 DEF FadeSafe, FadeArrives
<1>7. SelectorSafe(u)'
  <2>1. SUFFICES ASSUME Subscribed(u)
                 PROVE  SelectorSafe(u)'
    BY <1>1, <1>4 DEF SelectorSafe, Subscribed
  <2>2. Interfaces(iface) \in Messages /\ Interfaces(iface).type = "interfaces"
    BY <1>1, MessageTypes
  <2>3. ASSUME NEW b \in BOOLEAN, b \/ "interfaces" \notin missing'[u],
               "interfaces" \notin missing[u] => EndsWith(inbox[u], Interfaces(iface), b)
        PROVE  EndsWith(inbox'[u], Interfaces(iface), b)
    BY <1>2, <2>1, <2>2, <2>3, SendAnother DEF SendConfig, TabSafe
  <2>4. ASSUME "interfaces" \notin missing'[u],
               "interfaces" \notin missing[u] => SelectorArrives(u)
        PROVE  SelectorArrives(u)'
    BY <1>4, <2>3, <2>4 DEF SelectorArrives
  <2>5. Pending(u, "set_interface")' <=> Pending(u, "set_interface")
    BY <1>4 DEF Pending
  <2>6. conn[u] \in {"subscribed", "configured"} /\ loop.at # "refreshed"
            => EndsWith(inbox'[u], Interfaces(iface), TRUE)
    BY <2>3 DEF TabSafe, SelectorSafe
  <2>7. conn[u] = "prepared" /\ loop.at # "refreshed" /\ "interfaces" \notin missing'[u]
            => EndsWith(inbox'[u], Interfaces(iface), preamble[u].iface = iface)
    BY <2>3 DEF TabSafe, SelectorSafe
  <2>8. SelectorSafe(u)
    BY DEF TabSafe
  <2> QED BY <1>4, <2>4, <2>5, <2>6, <2>7, <2>8 DEF SelectorSafe
<1> QED BY <1>5, <1>6, <1>7 DEF TabSafe

(* A request is taken, then answered: between the two nothing is promised. *)
LEMMA SwitchSafe ==
    ASSUME TypeOK, Take \/ Switch, NEW u \in Tabs, TabSafe(u)
    PROVE  TabSafe(u)'
<1>1. /\ UNCHANGED <<fade_secs, newest, stale, conn, preamble, commands, inbox, missing, fade_shown, selector>>
  BY DEF Take, Switch, tabvars, hvars
<1>2. Pending(u, "set_fade")' <=> Pending(u, "set_fade")
  BY <1>1 DEF Pending
<1>3. Fresh(u)'
  BY <1>1, FreshKept DEF TabSafe
<1>4. FadeSafe(u)'
  BY <1>1, <1>2, FadeKept DEF TabSafe
<1>5. SelectorSafe(u)'
  <2>1. CASE Take
    <3>1. loop'.at = "switching" /\ loop.at = "idle" /\ iface' = iface
      BY <2>1 DEF Take
    <3> QED BY <1>1, <3>1, SelectorKept DEF TabSafe
  <2>2. CASE Switch
    <3>1. loop'.at = "refreshed"
      BY <2>2 DEF Switch, Switched
    <3> QED BY <3>1 DEF SelectorSafe
  <2> QED BY <2>1, <2>2
<1> QED BY <1>3, <1>4, <1>5 DEF TabSafe

LEMMA AnnounceSafe ==
    ASSUME TypeOK, Announce, NEW u \in Tabs, TabSafe(u)
    PROVE  TabSafe(u)'
<1> DEFINE m == Interfaces(iface)
<1>1. /\ fade_secs \in Fades /\ iface \in IfaceStates /\ inbox[u] \in Seq(Messages)
      /\ conn[u] \in {"off", "open", "subscribed", "configured", "prepared", "live"}
  BY DEF TypeOK
<1>2. m \in Messages /\ m.type = "interfaces"
  BY <1>1, MessageTypes
<1>3. /\ missing'[u] \cap Types(inbox'[u]) = {}
      /\ ~Subscribed(u) => inbox'[u] = inbox[u]
  BY <1>2, SendEffect DEF Announce
<1>4. UNCHANGED <<fade_secs, iface, newest, stale, requests, conn, preamble, commands,
                  fade_shown, selector>>
  BY DEF Announce, hvars
<1>5. Fresh(u)'
  BY <1>3, <1>4 DEF TabSafe, Fresh, Subscribed
<1>6. SelectorSafe(u)'
  <2>1. SUFFICES ASSUME Subscribed(u)
                 PROVE  SelectorSafe(u)'
    BY <1>1, <1>4 DEF SelectorSafe, Subscribed
  <2>2. \A b \in BOOLEAN : EndsWith(inbox'[u], m, b)
    BY <1>2, <2>1, SendItself DEF Announce
  <2> QED BY <1>4, <2>2 DEF SelectorSafe, SelectorArrives
<1>7. FadeSafe(u)'
  <2>1. SUFFICES ASSUME Subscribed(u)
                 PROVE  FadeSafe(u)'
    BY <1>1, <1>4 DEF FadeSafe, Subscribed
  <2>2. Config(fade_secs) \in Messages /\ Config(fade_secs).type = "config"
    BY <1>1, MessageTypes
  <2>3. ASSUME NEW b \in BOOLEAN, b \/ "config" \notin missing'[u],
               "config" \notin missing[u] => EndsWith(inbox[u], Config(fade_secs), b)
        PROVE  EndsWith(inbox'[u], Config(fade_secs), b)
    BY <1>2, <2>1, <2>2, <2>3, SendAnother DEF Announce, TabSafe
  <2>4. ASSUME "config" \notin missing'[u], "config" \notin missing[u] => FadeArrives(u)
        PROVE  FadeArrives(u)'
    BY <1>4, <2>3, <2>4 DEF FadeArrives
  <2>5. Pending(u, "set_fade")' <=> Pending(u, "set_fade")
    BY <1>4 DEF Pending
  <2>6. conn[u] = "subscribed" /\ newest = None /\ ~stale
            => EndsWith(inbox'[u], Config(fade_secs), TRUE)
    BY <2>3 DEF TabSafe, FadeSafe
  <2>7. conn[u] \in {"configured", "prepared"} /\ newest = None /\ ~stale
            /\ "config" \notin missing'[u]
            => EndsWith(inbox'[u], Config(fade_secs), preamble[u].fade = fade_secs)
    BY <2>3 DEF TabSafe, FadeSafe
  <2>8. FadeSafe(u)
    BY DEF TabSafe
  <2> QED BY <1>4, <2>4, <2>5, <2>6, <2>7, <2>8 DEF FadeSafe
<1> QED BY <1>5, <1>6, <1>7 DEF TabSafe
-----------------------------------------------------------------------------
(* Only a store and a Config move what is announced. *)
LEMMA NewestKept ==
    ASSUME TypeOK, NewestStored, [Next]_vars
    PROVE  NewestStored'
<1>1. ASSUME NEW t \in Tabs, StoreFade(t) PROVE NewestStored'
  <2>1. newest' = t /\ storing'[t] = fade_secs' /\ t \in Tasks
    BY <1>1 DEF StoreFade, Store, TypeOK, Tasks
  <2> QED BY <2>1 DEF NewestStored
<1>2. ASSUME NEW k \in Others, NEW v \in Values, StoreFadeOther(k, v) PROVE NewestStored'
  <2>1. newest' = k /\ storing'[k] = fade_secs' /\ k \in Tasks
    BY <1>2 DEF StoreFadeOther, Store, TypeOK, Tasks
  <2> QED BY <2>1 DEF NewestStored
<1>3. ASSUME NEW k \in Tasks, SendConfig(k) PROVE NewestStored'
  BY <1>3 DEF SendConfig, TypeOK, NewestStored
<1>4. CASE UNCHANGED <<fade_secs, storing, newest>>
  BY <1>4 DEF NewestStored
<1>5. [Next]_vars => \/ UNCHANGED <<fade_secs, storing, newest>>
                     \/ \E t \in Tabs : StoreFade(t)
                     \/ \E k \in Others, v \in Values : StoreFadeOther(k, v)
                     \/ \E k \in Tasks : SendConfig(k)
  BY DEF Next, vars, servervars, hvars, Open, Subscribe, ReadConfig, ReadInterfaces,
         SendPreamble, Close, Receive, MoveSlider, Choose, AskInterface, Take, Switch, Announce
<1> QED BY <1>1, <1>2, <1>3, <1>4, <1>5

(* A step of one tab does not concern the others. *)
LEMMA OthersUntouched ==
    ASSUME TypeOK, NEW t \in Tabs, NEW u \in Tabs, u # t,
           \/ Open(t) \/ Subscribe(t) \/ ReadConfig(t) \/ ReadInterfaces(t)
           \/ SendPreamble(t) \/ Close(t) \/ Receive(t)
           \/ \E v \in Values : MoveSlider(t, v)
           \/ \E i \in Ifaces : Choose(t, i)
    PROVE  Untouched(u)
<1> USE DEF TypeOK, Untouched, servervars, hvars, Advance
<1>1. CASE Open(t) \/ Subscribe(t)
  BY <1>1 DEF Open, Subscribe
<1>2. CASE ReadConfig(t) \/ ReadInterfaces(t)
  BY <1>2 DEF ReadConfig, ReadInterfaces
<1>3. CASE SendPreamble(t)
  BY <1>3 DEF SendPreamble
<1>4. CASE Close(t)
  BY <1>4 DEF Close
<1>5. CASE Receive(t)
  BY <1>5 DEF Receive
<1>6. CASE \E v \in Values : MoveSlider(t, v)
  BY <1>6 DEF MoveSlider, Command
<1>7. CASE \E i \in Ifaces : Choose(t, i)
  BY <1>7 DEF Choose, Command
<1> QED BY <1>1, <1>2, <1>3, <1>4, <1>5, <1>6, <1>7

LEMMA InitSafe == Init => SettingsInv
<1> SUFFICES ASSUME Init PROVE SettingsInv
  OBVIOUS
<1>1. NewestStored /\ \A t \in Tabs : TabSafe(t)
  BY DEF Init, NewestStored, TabSafe, Fresh, FadeSafe, SelectorSafe
<1> QED BY <1>1, InitTyped DEF SettingsInv

LEMMA NextSafe == SettingsInv /\ [Next]_vars => SettingsInv'
<1> SUFFICES ASSUME SettingsInv, [Next]_vars
             PROVE  SettingsInv'
  OBVIOUS
<1>1. TypeOK /\ NewestStored /\ \A u \in Tabs : TabSafe(u)
  BY DEF SettingsInv
<1>2. NewestStored'
  BY <1>1, NewestKept
<1>3. ASSUME NEW t \in Tabs,
             Open(t) \/ Subscribe(t) \/ ReadConfig(t) \/ ReadInterfaces(t)
                 \/ SendPreamble(t) \/ Close(t)
      PROVE  TypeOK' /\ \A u \in Tabs : TabSafe(u)'
  <2>1. Fresh(t)
    BY <1>1 DEF TabSafe
  <2>2. TypeOK' /\ TabSafe(t)'
    BY <1>1, <1>3, <2>1, ConnectionTyped, ConnectionSafe
  <2>3. ASSUME NEW u \in Tabs, u # t PROVE TabSafe(u)'
    BY <1>1, <1>3, <2>3, OthersUntouched, UntouchedSafe
  <2> QED BY <2>2, <2>3
<1>4. ASSUME NEW t \in Tabs,
             \/ Receive(t)
             \/ \E v \in Values : MoveSlider(t, v)
             \/ \E i \in Ifaces : Choose(t, i)
      PROVE  TypeOK' /\ \A u \in Tabs : TabSafe(u)'
  <2>1. TypeOK' /\ TabSafe(t)'
    BY <1>1, <1>4, ReceiveTyped, ControlTyped, ReceiveSafe, ControlSafe
  <2>2. ASSUME NEW u \in Tabs, u # t PROVE TabSafe(u)'
    BY <1>1, <1>4, <2>2, OthersUntouched, UntouchedSafe
  <2> QED BY <2>1, <2>2
<1>5. ASSUME \/ \E t \in Tabs : StoreFade(t) \/ AskInterface(t)
             \/ \E k \in Others, v \in Values : StoreFadeOther(k, v)
             \/ \E k \in Tasks : SendConfig(k)
             \/ Take \/ Switch \/ Announce
      PROVE  TypeOK' /\ \A u \in Tabs : TabSafe(u)'
  <2>1. TypeOK'
    BY <1>1, <1>5, ServerTyped
  <2>2. ASSUME NEW u \in Tabs PROVE TabSafe(u)'
    BY <1>1, <1>5, StoreSafe, AskSafe, ConfigSafe, SwitchSafe, AnnounceSafe
  <2> QED BY <2>1, <2>2
<1>6. ASSUME UNCHANGED vars
      PROVE  TypeOK' /\ \A u \in Tabs : TabSafe(u)'
  <2>1. TypeOK'
    BY <1>1, <1>6 DEF TypeOK, vars, servervars, tabvars, hvars
  <2>2. \A u \in Tabs : Untouched(u)
    BY <1>6 DEF Untouched, vars, servervars, tabvars, hvars
  <2> QED BY <1>1, <2>1, <2>2, UntouchedSafe
<1>7. TypeOK' /\ \A u \in Tabs : TabSafe(u)'
  <2>1. CASE \E t \in Tabs : \/ Open(t) \/ Subscribe(t) \/ ReadConfig(t)
                             \/ ReadInterfaces(t) \/ SendPreamble(t) \/ Close(t)
    BY <1>3, <2>1
  <2>2. CASE \E t \in Tabs : \/ Receive(t)
                             \/ \E v \in Values : MoveSlider(t, v)
                             \/ \E i \in Ifaces : Choose(t, i)
    BY <1>4, <2>2
  <2>3. CASE \/ \E t \in Tabs : StoreFade(t) \/ AskInterface(t)
             \/ \E k \in Others, v \in Values : StoreFadeOther(k, v)
             \/ \E k \in Tasks : SendConfig(k)
             \/ Take \/ Switch \/ Announce
    BY <1>5, <2>3
  <2>4. CASE UNCHANGED vars
    BY <1>6, <2>4
  <2> QED BY <2>1, <2>2, <2>3, <2>4 DEF Next
<1> QED BY <1>2, <1>7 DEF SettingsInv

LEMMA SettingsInvAlways == Spec => []SettingsInv
BY InitSafe, NextSafe, PTL DEF Spec
-----------------------------------------------------------------------------
(* Types; and whatever value the tabs send, the fade that aggregate_loop   *)
(* reads and every announced one are within the bounds                     *)
(* (server/mod.rs:154).                                                    *)
THEOREM TypeCorrect == Spec => []TypeOK
<1>1. SettingsInv => TypeOK
  BY DEF SettingsInv
<1> QED BY <1>1, SettingsInvAlways, PTL

(* Wherever the preamble of a tab fell among the stores, and whatever      *)
(* else it has lost, a tab that has not lost the last Config ends on the   *)
(* server's fade, unless two tasks sent in the opposite order to their     *)
(* stores (server/mod.rs:96-104, 154, 184).                                *)
THEOREM FadeAlwaysSynchronised == Spec => []FadeSynchronised
<1>1. ASSUME SettingsInv PROVE FadeSynchronised
  <2>1. SUFFICES ASSUME NoneStoring, ~stale, NEW t \in Tabs, Attentive(t, "config")
                 PROVE  FadeArrives(t)
    BY DEF FadeSynchronised
  <2>2. newest = None
    BY <1>1, <2>1, FadesValid DEF SettingsInv, NewestStored, NoneStoring, TypeOK
  <2>3. ~Pending(t, "set_fade")
    BY <2>1 DEF Attentive, Pending
  <2> QED BY <1>1, <2>1, <2>2, <2>3 DEF SettingsInv, TabSafe, FadeSafe, Attentive
<1> QED BY <1>1, SettingsInvAlways, PTL

(* Once iface_switch_loop has nothing to do, every tab that has not lost   *)
(* the last Interfaces ends on what IfaceState says, were its request      *)
(* granted, refused or dropped by a full queue (main.rs:233-251).          *)
THEOREM SelectorAlwaysSynchronised == Spec => []SelectorSynchronised
<1>1. ASSUME SettingsInv PROVE SelectorSynchronised
  <2>1. SUFFICES ASSUME loop.at = "idle", requests = <<>>, NEW t \in Tabs, Attentive(t, "interfaces")
                 PROVE  SelectorArrives(t)
    BY DEF SelectorSynchronised
  <2>2. ~Pending(t, "set_interface")
    BY <2>1 DEF Attentive, Pending
  <2> QED BY <1>1, <2>1, <2>2 DEF SettingsInv, TabSafe, SelectorSafe, Attentive
<1> QED BY <1>1, SettingsInvAlways, PTL
=============================================================================
