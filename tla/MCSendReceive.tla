--------------------------- MODULE MCSendReceive ----------------------------
(***************************************************************************)
(* Packet objects for SendReceive, of every class that can be sent, and    *)
(* the frames they make, beside those of MCPacketDecode.                   *)
(***************************************************************************)
EXTENDS SendReceive, MCPacketDecode

EtherOf(type) ==
  [by |-> "EthernetPacket", dst_mac |-> <<2, 4, 6, 8, 10, 12>>, src_mac |-> <<1, 3, 5, 7, 9, 11>>,
   frametype |-> ToShort(type)]

\* n octets of data, none of them 0, which a sum would not miss.
Data(n) == [i \in 1..n |-> (16 * i) % 251]

IPv4(tos, flag, offset) ==
  [version |-> 4, priority |-> tos, rsv_tos |-> tos % 4, d_flag |-> tos = 1, t_flag |-> tos = 2,
   r_flag |-> tos = 4, rsv_frag |-> flag = "rsv_frag", dont_frag |-> flag = "dont_frag",
   more_frag |-> flag = "more_frag", offset |-> offset, ident |-> IF flag = "dont_frag" THEN 43981 ELSE 4660,
   hop_limit |-> 64, protocol |-> 89, src_ip |-> <<10, 200, 0, 1>>, dst_ip |-> <<192, 168, 255, 7>>]

Plain == IPv4(0, "dont_frag", 0)

IPv6(priority) ==
  [version |-> 6, priority |-> priority, flow_label |-> <<0, 10, 187, 204>>, protocol |-> 89,
   hop_limit |-> 64, src_ip |-> [i \in 1..16 |-> i], dst_ip |-> [i \in 1..16 |-> 255 - i]]

Tcp(flags) ==
  [src_port |-> 40000, dst_port |-> 80, sequence |-> <<222, 173, 190, 239>>,
   ack_num |-> <<0, 0, 0, 1>>, rsv1 |-> "rsv1" \in flags, rsv2 |-> "rsv2" \in flags,
   urg |-> "urg" \in flags, ack |-> "ack" \in flags, psh |-> "psh" \in flags,
   rst |-> "rst" \in flags, syn |-> "syn" \in flags, fin |-> "fin" \in flags,
   window |-> 65535, urgent_pointer |-> 258, option |-> <<>>]

Udp(port) == [src_port |-> port, dst_port |-> 53]

Icmp(type) ==
  [type |-> type, code |-> 1, id |-> 4660, seq |-> 255, redir_ip |-> <<10, 0, 0, 254>>,
   ippacket |-> IF type = ICMP_TIMXCEED THEN NotSet ELSE Plain,
   timestamps |-> <<<<0, 1, 2, 3>>, <<4, 5, 6, 7>>, <<8, 9, 10, 11>>>>,
   subnetmask |-> <<255, 255, 255, 0>>]

Object(class, type, network, transport, octets) ==
  [class |-> class, datalink |-> EtherOf(type), network |-> network, transport |-> transport, data |-> octets]

IPObject(class, network, transport, n) ==
  Object(class, IF network.version = 4 THEN ETHERTYPE_IP ELSE ETHERTYPE_IPV6, network, transport, Data(n))

FlagSets == {{}, {"rsv1"}, {"rsv2"}, {"urg"}, {"ack"}, {"psh"}, {"rst"}, {"syn"}, {"fin"},
             {"syn", "ack"}, {"psh", "ack"}}

Networks == {IPv4(tos, flag, 0) : tos \in {0, 1, 2, 4, 7}, flag \in {"none", "dont_frag", "more_frag", "rsv_frag"}}

IPv4Objects ==
  {IPObject("TCPPacket", Plain, Tcp(flags), n) : flags \in FlagSets, n \in {0, 1, 7, 8}}
    \cup {IPObject("UDPPacket", Plain, Udp(port), n) : port \in {7, 65535}, n \in {0, 1, 2, 15}}
    \cup {IPObject("ICMPPacket", Plain, Icmp(type), n) : type \in {ICMP_ECHO, ICMP_ECHOREPLY}, n \in {0, 2, 14}}
    \cup {IPObject("ICMPPacket", Plain, Icmp(type), 0) :
            type \in {ICMP_REDIRECT, ICMP_UNREACH, ICMP_TIMXCEED} \cup Timed \cup Masked}
    \cup {IPObject("IPPacket", network, NotSet, n) : network \in Networks, n \in {0, 9}}

Arp == [hardtype |-> 1, prototype |-> ETHERTYPE_IP, hlen |-> 6, plen |-> 4, operation |-> 2,
        sender_hardaddr |-> <<1, 3, 5, 7, 9, 11>>, sender_protoaddr |-> <<10, 0, 0, 1>>,
        target_hardaddr |-> <<2, 4, 6, 8, 10, 12>>, target_protoaddr |-> <<10, 0, 0, 2>>]

IPv6Objects ==
  {IPObject("IPPacket", IPv6(priority), NotSet, n) : priority \in {0, 90}, n \in {6, 20}}
    \cup {IPObject("IPPacket", [IPv6(0) EXCEPT !.protocol = 200], NotSet, 6)}
    \cup {IPObject("TCPPacket", IPv6(0), Tcp({"ack"}), n) : n \in {0, 5}}
    \cup {IPObject("UDPPacket", IPv6(0), Udp(7), n) : n \in {0, 4}}

OtherObjects ==
  {Object("ARPPacket", ETHERTYPE_ARP, Arp, NotSet, <<>>),
   Object("Packet", 35020, NotSet, NotSet, Data(10)), Object("Packet", 35020, NotSet, NotSet, Data(60))}

SentFrames ==
  {OnEthernet(p) : p \in IPv4Objects \cup IPv6Objects \cup OtherObjects}
    \cup {OnRawLink(p) : p \in IPv4Objects}

\* The theorems about frames that were sent speak of these.
ASSUME SentAssumed == \A f \in SentFrames : AsSent(f) /\ SummedWhole(f.sent)

FragmentSent == {OnRawLink(IPObject("IPPacket", IPv4(0, "more_frag", 185), NotSet, 9))}

OddEcho == {OnEthernet(IPObject("ICMPPacket", Plain, Icmp(ICMP_ECHO), 3))}

\* A segment with a maximum segment size of 1460.
OptionSent ==
  {OnEthernet(IPObject("TCPPacket", Plain, [Tcp({"syn"}) EXCEPT !.option = <<2, 4, 5, 180>>], 0))}

IPv6Sent == {OnEthernet(p) : p \in {q \in IPv6Objects : q.class = "TCPPacket"}}

WireFrames == AllFrames \cup SentFrames
=============================================================================
