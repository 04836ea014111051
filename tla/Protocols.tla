------------------------------ MODULE Protocols ------------------------------
(***************************************************************************)
(* What a conversation is said to carry: parse_frame and the port tables   *)
(* (src/model/packet.rs), and the bytes each protocol adds to it in the    *)
(* two tables (src/model/tables.rs).                                       *)
(*                                                                         *)
(* Two machines exchange the frames of one flow, among others.  A frame is *)
(* what etherparse makes of it; a flow whose datagrams are fragmented has  *)
(* frames with no transport header.  A frame counts for one byte.  The     *)
(* ARP pair a frame teaches (arp_pair) is read by nobody and left out.     *)
(***************************************************************************)
EXTENDS Integers, FiniteSets, Functions

CONSTANTS
    IpNumbers,  \* the IP protocol numbers that can be met
    Ports,      \* the ports that can be met
    MaxFrames   \* bound: frames the flow's machines exchange

ASSUME ProtocolsAssumption ==
    /\ IpNumbers \subseteq 0 .. 255 /\ Ports \subseteq 0 .. 65535
    /\ MaxFrames \in Nat

VARIABLES
    flow,       \* the flow: it does not change
    ether,      \* proto_bytes of the conversation of the MAC addresses
    inter,      \* proto_bytes of the conversation of the IP addresses
    errors      \* parse_errors

cvars == <<flow, ether, inter, errors>>

Flows == [net : {"IPv4", "IPv6"}, number : IpNumbers, ports : Ports \X Ports,
          fragmented : BOOLEAN]

(* enum Proto: of two of its values, the first components differ or the    *)
(* second ones can be compared.                                            *)
Named(name) == <<"Named", name>>
Ether(ether_type) == <<"Ether", ether_type>>
Ip(number) == <<"Ip", number>>
NoProto == <<"None">>
-----------------------------------------------------------------------------
(* The protocol of a frame. *)

(* well_known_port: name, transports and ports of each line. *)
WellKnown ==
    LET tcp == {"tcp"} udp == {"udp"} IN
    { <<"DNS", tcp \cup udp, {53}>>, <<"HTTP", tcp, {80, 8080, 8000}>>,
      <<"HTTPS", tcp, {443, 8443}>>, <<"QUIC", udp, {443}>>,
      <<"SSH", tcp, {22}>>, <<"FTP", tcp, {21}>>, <<"Telnet", tcp, {23}>>,
      <<"SMTP", tcp, {25, 465, 587}>>, <<"POP3", tcp, {110, 995}>>,
      <<"IMAP", tcp, {143, 993}>>, <<"DHCP", udp, {67, 68}>>,
      <<"DHCPv6", udp, {546, 547}>>, <<"NTP", udp, {123}>>,
      <<"mDNS", udp, {5353}>>, <<"LLMNR", udp, {5355}>>,
      <<"SSDP", udp, {1900}>>, <<"NetBIOS", udp, {137, 138}>>,
      <<"SMB", tcp, {139, 445}>>, <<"RDP", tcp, {3389}>>,
      <<"Syslog", udp, {514}>>, <<"SNMP", udp, {161, 162}>>,
      <<"IPsec-IKE", udp, {500, 4500}>>, <<"WireGuard", udp, {51820}>> }

(* The names of a port: none, or one. *)
WellKnownPort(transport, port) ==
    {k[1] : k \in {w \in WellKnown : transport \in w[2] /\ port \in w[3]}}

Fallback == [tcp |-> "TCP", udp |-> "UDP"]

(* Mutation of AppProto: the source port is not looked at. *)
AppProtoDestination(transport, sport, dport) ==
    LET names == WellKnownPort(transport, dport)
    IN Named(IF names # {} THEN CHOOSE n \in names : TRUE ELSE Fallback[transport])

(* The destination port wins, then the source port. *)
AppProto(transport, sport, dport) ==
    LET at_dport == WellKnownPort(transport, dport)
        at_sport == WellKnownPort(transport, sport)
        names == IF at_dport # {} THEN at_dport ELSE at_sport
    IN Named(IF names # {} THEN CHOOSE n \in names : TRUE ELSE Fallback[transport])

(* The arms of l4_proto for a packet with no transport header. *)
NumberNames ==
    { <<2, "IGMP">>, <<6, "TCP">>, <<17, "UDP">>, <<50, "ESP">>,
      <<58, "ICMPv6">>, <<132, "SCTP">> }

ByNumber(number) ==
    IF \E n \in NumberNames : n[1] = number
    THEN Named((CHOOSE n \in NumberNames : n[1] = number)[2])
    ELSE Ip(number)

L4Proto(f) ==
    CASE f.transport \in {"tcp", "udp"} -> AppProto(f.transport, f.sport, f.dport)
      [] f.transport = "icmpv4" -> Named("ICMP")
      [] f.transport = "icmpv6" -> Named("ICMPv6")
      [] OTHER -> ByNumber(f.number)

(* Mutation of ParseFrame: the l3 of an IPv6 packet is forgotten. *)
ParseFrameV4(f) ==
    [l2_proto |-> IF f.net = "none" THEN Ether(f.ether_type) ELSE Named(f.net),
     l3_proto |-> IF f.net = "IPv4" THEN L4Proto(f) ELSE NoProto]

ParseFrame(f) ==
    [l2_proto |-> IF f.net = "none" THEN Ether(f.ether_type) ELSE Named(f.net),
     l3_proto |-> IF f.net \in {"IPv4", "IPv6"} THEN L4Proto(f) ELSE NoProto]
-----------------------------------------------------------------------------
(* What is on the wire, as etherparse slices it. *)

Transport(number) ==
    CASE number = 1 -> "icmpv4" [] number = 6 -> "tcp" [] number = 17 -> "udp"
      [] number = 58 -> "icmpv6" [] OTHER -> "none"

(* A fragment has no transport header. *)
Transports == {Transport(flow.number)} \cup (IF flow.fragmented THEN {"none"} ELSE {})

(* A frame of the flow, one way or the other, in one piece or a fragment. *)
FlowFrame(way, transport) ==
    [net |-> flow.net, number |-> flow.number, transport |-> transport,
     sport |-> flow.ports[way], dport |-> flow.ports[3 - way]]

FlowFrames == {FlowFrame(way, transport) : way \in {1, 2}, transport \in Transports}

(* ARP, LLDP. *)
OtherFrames == {[net |-> "ARP"], [net |-> "none", ether_type |-> 35020]}
-----------------------------------------------------------------------------
(* ConvStats::add on proto_bytes. *)
AddProto(proto_bytes, proto) ==
    [p \in DOMAIN proto_bytes \cup {proto} |->
        (IF p \in DOMAIN proto_bytes THEN proto_bytes[p] ELSE 0)
            + (IF p = proto THEN 1 ELSE 0)]

Total(proto_bytes) == SumFunctionOnSet(proto_bytes, DOMAIN proto_bytes)

CInit ==
    /\ flow \in Flows
    /\ ether = <<>> /\ inter = <<>>
    /\ errors = 0

(* make_on_packet and Tables::ingest, for one frame. *)
Frame(f) ==
    /\ Total(ether) + errors < MaxFrames
    /\ LET meta == ParseFrame(f)
       IN /\ ether' = AddProto(ether, meta.l2_proto)
          /\ inter' = IF meta.l3_proto = NoProto THEN inter
                      ELSE AddProto(inter, meta.l3_proto)
    /\ UNCHANGED <<flow, errors>>

(* Not Ethernet II, or cut short in one of its headers. *)
Garbled ==
    /\ Total(ether) + errors < MaxFrames
    /\ errors' = errors + 1
    /\ UNCHANGED <<flow, ether, inter>>

CNext ==
    \/ \E f \in FlowFrames \cup OtherFrames : Frame(f)
    \/ Garbled

CSpec == CInit /\ [][CNext]_cvars
-----------------------------------------------------------------------------
PortNames(port) ==
    WellKnownPort(Transport(flow.number), port)

(* A flow has one name, and so one colour, whichever way its frames go:    *)
(* unless its two ports are known under two names (packet.rs:159).  If its *)
(* datagrams are fragmented, that is so only if no port names it; an ICMP  *)
(* datagram is then said to be of protocol 1 (packet.rs:144).              *)
OneName ==
    LET names == UNION {PortNames(flow.ports[way]) : way \in {1, 2}} IN
    \/ Cardinality(names) = 2
    \/ flow.fragmented /\ (names # {} \/ flow.number = 1)
    \/ Cardinality(DOMAIN inter) <= 1

(* The two tables are projections of one capture: what the first counts as *)
(* IP is what the second counts, under whatever names (packet.rs:57).      *)
ViewsAgree ==
    Total(inter) =
        SumFunctionOnSet(ether, DOMAIN ether \cap {Named("IPv4"), Named("IPv6")})
=============================================================================
