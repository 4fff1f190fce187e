---------------------------- MODULE SendReceive -----------------------------
(***************************************************************************)
(* What jpcap sends, jpcap receives: the frames that PacketBuild makes of  *)
(* packet objects are decoded by PacketDecode, and the object that comes   *)
(* out is compared with the one that went in.  A frame that was sent has   *)
(* one more field,                                                         *)
(*   sent   the packet object it was made of                               *)
(* and where the decoder is known to misread a field (fragment flags, ICMP *)
(* numbers, times and masks, IPv6 class and flow label), the octets sent   *)
(* are compared.                                                           *)
(***************************************************************************)
EXTENDS FrameLayout, PacketBuild

\* The headers behind the link header, for the frame of an object, and the octets
\* that are no padding.
NetworkOctets(p) == IF IsIP(p) THEN IF p.network.version = 4 THEN IPv4HDRLEN ELSE 40
                    ELSE IF p.class = "ARPPacket" THEN sizeof_ether_arp ELSE 0

HeaderOctets(p) ==
  NetworkOctets(p) + CASE p.class = "TCPPacket" -> TCPHDRLEN [] p.class = "UDPPacket" -> UDPHDRLEN
                       [] p.class = "ICMPPacket" -> ICMPHDRLEN [] OTHER -> 0

PacketOctets(p, captured) ==
  CASE IsIP(p) -> Len(set_packet(p)) [] p.class = "ARPPacket" -> sizeof_ether_arp [] OTHER -> captured

\* The frame that "octets", made of p, are on a link.
OnLink(link, octets, p) ==
  LET start == offset_data(link)
  IN [link |-> link, octets |-> octets, beyond |-> Stale, caplen |-> Len(octets),
      carries |-> p.class, extensions |-> <<>>, places |-> <<start + 40>>, headers |-> TRUE,
      payload |-> [at |-> start + HeaderOctets(p),
                   len |-> PacketOctets(p, Len(octets) - start) - HeaderOctets(p)],
      sent |-> p]

\* The frame on an Ethernet, and on a link without a header.
OnEthernet(p) == OnLink(DLT_EN10MB, SendPacket(p), p)

OnRawLink(p) == OnLink(DLT_RAW, SendPacketViaRawSocket(p), p)

-----------------------------------------------------------------------------
(***************************************************************************)
(* Packet objects that jpcap can send: their fields have the ranges of     *)
(* their headers.                                                          *)
(***************************************************************************)
OctetSeq(n) == [1..n -> Octet]

IsEthernet(d) ==
  /\ d.by = "EthernetPacket"
  /\ d.dst_mac \in OctetSeq(6) /\ d.src_mac \in OctetSeq(6) /\ d.frametype \in Short

IsIPv4(n) ==
  /\ n.priority \in 0..7 /\ n.rsv_tos \in 0..3
  /\ n.d_flag \in BOOLEAN /\ n.t_flag \in BOOLEAN /\ n.r_flag \in BOOLEAN
  /\ n.rsv_frag \in BOOLEAN /\ n.dont_frag \in BOOLEAN /\ n.more_frag \in BOOLEAN
  /\ n.offset \in Short /\ n.ident \in Int
  /\ n.hop_limit \in Octet /\ n.protocol \in Octet
  /\ n.src_ip \in OctetSeq(4) /\ n.dst_ip \in OctetSeq(4)

IsIPv6(n) ==
  /\ n.priority \in Octet /\ n.flow_label \in OctetSeq(4) /\ n.flow_label[2] < 16
  /\ n.hop_limit \in Octet /\ n.protocol \in Octet
  /\ n.src_ip \in OctetSeq(16) /\ n.dst_ip \in OctetSeq(16)

\* The addresses are those of IPv4 over Ethernet, for which set_arp has room.
IsARP(n) ==
  /\ n.hardtype \in Short /\ n.prototype \in Short /\ n.operation \in Short
  /\ n.hlen = 6 /\ n.sender_hardaddr \in OctetSeq(6) /\ n.target_hardaddr \in OctetSeq(6)
  /\ n.plen = 4 /\ n.sender_protoaddr \in OctetSeq(4) /\ n.target_protoaddr \in OctetSeq(4)

IsTCP(t) ==
  /\ t.src_port \in UShort /\ t.dst_port \in UShort /\ t.window \in UShort
  /\ t.sequence \in OctetSeq(4) /\ t.ack_num \in OctetSeq(4) /\ t.urgent_pointer \in Short
  /\ t.rsv1 \in BOOLEAN /\ t.rsv2 \in BOOLEAN /\ t.urg \in BOOLEAN /\ t.ack \in BOOLEAN
  /\ t.psh \in BOOLEAN /\ t.rst \in BOOLEAN /\ t.syn \in BOOLEAN /\ t.fin \in BOOLEAN

IsUDP(t) == t.src_port \in UShort /\ t.dst_port \in UShort

\* A type for which set_icmp has a case.
IsICMP(t) ==
  /\ t.type \in {ICMP_ECHOREPLY, ICMP_UNREACH, ICMP_SOURCEQUENCH, ICMP_REDIRECT, ICMP_ECHO, ICMP_TIMXCEED,
                  ICMP_PARAMPROB, ICMP_TSTAMP, ICMP_TSTAMPREPLY, ICMP_MASKREQ, ICMP_MASKREPLY}
  /\ t.code \in 0..127 /\ t.id \in UShort /\ t.seq \in UShort
  /\ t.redir_ip \in OctetSeq(4) /\ t.subnetmask \in OctetSeq(4)
  /\ \A i \in 1..3 : t.timestamps[i] \in OctetSeq(4)
  /\ t.ippacket = NotSet \/ IsIPv4(t.ippacket)

\* An IPPacket has none of the protocols that have a class.
IsTransport(p) ==
  CASE p.class = "TCPPacket" -> IsTCP(p.transport)
    [] p.class = "UDPPacket" -> IsUDP(p.transport)
    [] p.class = "ICMPPacket" -> IsICMP(p.transport)
    [] OTHER -> p.network.protocol \notin {IPPROTO_TCP, IPPROTO_UDP, IPPROTO_ICMP}

\* Offsets do not arrive (OffsetOnWire).  The length of an IPv6 header does not
\* either (PayloadLengthRight): what it is taken for must be a short and more than
\* was captured, and the frame one that is not padded.
IsNetwork(p) ==
  CASE IsIP(p) /\ p.network.version = 4 ->
         IsIPv4(p.network) /\ p.network.offset = 0 /\ IsTransport(p)
    [] IsIP(p) /\ p.network.version = 6 ->
         /\ IsIPv6(p.network) /\ IsTransport(p) /\ ~IsExtension(p.network.protocol)
         /\ LET total == Len(set_packet(p))
            IN total >= 46 /\ total <= NetShort(total) + 40 /\ NetShort(total) + 40 <= MaxShort
    [] p.class = "ARPPacket" -> IsARP(p.network)
    [] OTHER -> p.class = "Packet"

\* The type in the Ethernet header is that of the packet.
TypeFits(p) ==
  LET type == ToUShort(p.datalink.frametype)
  IN CASE IsIP(p) -> type = IF p.network.version = 4 THEN ETHERTYPE_IP ELSE ETHERTYPE_IPV6
       [] p.class = "ARPPacket" -> type = ETHERTYPE_ARP
       [] OTHER -> type \notin {ETHERTYPE_IP, ETHERTYPE_IPV6, ETHERTYPE_ARP, ETHERTYPE_REVARP,
                               IPPROTO_TCP, IPPROTO_UDP, IPPROTO_ICMP, UNKNOWN_PROTO}

Sendable(p) == p.data \in Seq(Octet) /\ Len(p.data) <= MAX_PACKET_SIZE /\ IsNetwork(p)

\* The frame is that of its object, on one of the links, and fits the buffer.
AsSent(f) ==
  LET p == f.sent
  IN /\ Sendable(p) /\ f.caplen <= MAX_PACKET_SIZE
     /\ \/ f = OnEthernet(p) /\ IsEthernet(p.datalink) /\ TypeFits(p)
        \/ f = OnRawLink(p) /\ IsIP(p) /\ p.network.version = 4

\* What is summed has no odd octet, or one that is added in the right half of its
\* word: in_cksum2 does so on a little-endian host, in_cksum on one of the other order.
SummedWhole(p) ==
  LET even == Len(p.data) % 2 = 0
  IN /\ p.class \in {"TCPPacket", "UDPPacket"} => even \/ LittleEndian
     /\ p.class = "ICMPPacket" /\ p.transport.type \in {ICMP_ECHO, ICMP_ECHOREPLY} => even \/ ~LittleEndian

WasSent(f) == "sent" \in DOMAIN f

\* Frames are sent by jpcap, or as the standards allow, or cut.
FramesAreKnown ==
  \A f \in Frames : IF WasSent(f) THEN AsSent(f) ELSE f.headers => WellFormed(f)

FramesAreSummed == \A f \in Frames : WasSent(f) => SummedWhole(f.sent)

-----------------------------------------------------------------------------
sent == frame.sent

\* A frame that was sent has been decoded.
Arrived == Done /\ WasSent(frame)

Received(class) == Arrived /\ sent.class = class

ReceivedIP(version) == Arrived /\ IsIP(sent) /\ sent.network.version = version

\* Where the header of the network is, and what is behind it.
network_at == datalink_hlen
transport_at == network_at + NetworkOctets(sent)

Same(r, s, fields) == \A field \in fields : r[field] = s[field]

DatalinkFields == {"dst_mac", "src_mac", "frametype"}
IPFields == {"version", "hop_limit", "src_ip", "dst_ip"}
TosFields == {"priority", "d_flag", "t_flag", "r_flag", "rsv_tos"}
ARPFields == {"hardtype", "prototype", "hlen", "plen", "operation", "sender_hardaddr",
              "sender_protoaddr", "target_hardaddr", "target_protoaddr"}
PortFields == {"src_port", "dst_port"}
TCPFields == {"sequence", "ack_num", "rsv1", "rsv2", "urg", "ack", "psh", "rst", "syn", "fin",
              "window", "urgent_pointer"}

Timed == {ICMP_TSTAMP, ICMP_TSTAMPREPLY}
Masked == {ICMP_MASKREQ, ICMP_MASKREPLY}
Numbered == {ICMP_ECHO, ICMP_ECHOREPLY} \cup Timed \cup Masked

\* The object received has the class of the object sent, and these of its fields:
\* what set_packet writes is what the analyze functions read.  Other fields arrive
\* changed, each because the code reads it otherwise than it writes it: an IPv4
\* identification above 32767 (IdentArrives), the fragment flags (FragmentFlags) and
\* the offset (OffsetOnWire); class, flow label (Ip6Fields) and length
\* (PayloadLengthRight) of IPv6, and a protocol above 127, which is read as a jbyte;
\* TCP options (OptionsArrive); ICMP identifiers and numbers (EchoIdentifier), times
\* and masks (TimesArrive), and the header that an ICMP error quotes, which is left
\* unread, as the message ends before the 16 octets behind it (packet_icmp.c:59).
FieldsArrive ==
  Arrived =>
    /\ packet.class = sent.class
    /\ frame.link = DLT_EN10MB => Same(packet.datalink, sent.datalink, DatalinkFields)
    /\ IsIP(sent) => Same(packet.network, sent.network, IPFields)
    /\ ReceivedIP(4) => Same(packet.network, sent.network, TosFields)
    /\ ReceivedIP(4) /\ sent.network.ident \in Short => packet.network.ident = sent.network.ident
    /\ Received("IPPacket") =>
         LET protocol == sent.network.protocol
         IN packet.network.protocol = IF sent.network.version = 4 THEN protocol ELSE ToByte(protocol)
    /\ Received("ARPPacket") => Same(packet.network, sent.network, ARPFields)
    /\ Received("TCPPacket") => Same(packet.transport, sent.transport, PortFields \cup TCPFields)
    /\ Received("UDPPacket") => Same(packet.transport, sent.transport, PortFields)
    /\ Received("ICMPPacket") =>
         Same(packet.transport, sent.transport,
              {"type", "code"} \cup IF sent.transport.type = ICMP_REDIRECT THEN {"redir_ip"} ELSE {})

\* "ident", "IDENTIFICATION (v4)" (IPPacket.java:145), arrives as it was sent.
IdentArrives ==
  ReceivedIP(4) /\ sent.network.ident \in UShort => packet.network.ident = sent.network.ident

\* "Originate timestamp" (ICMPPacket.java:243), its siblings and the subnet mask
\* arrive as they were sent.
TimesArrive ==
  Received("ICMPPacket") =>
    /\ sent.transport.type \in Timed => packet.transport.timestamps = sent.transport.timestamps
    /\ sent.transport.type \in Masked => packet.transport.subnetmask = sent.transport.subnetmask

\* What an ICMP message at "at" has behind its checksum, in the order of the network.
ICMPOctets(f, at, t) ==
  /\ t.type \in Numbered => WordAt(f, at + 4) = t.id /\ WordAt(f, at + 6) = t.seq
  /\ t.type = ICMP_REDIRECT => LongAt(f, at + 4) = t.redir_ip
  /\ t.type \in Timed =>
       /\ LongAt(f, at + 8) = t.timestamps[1] /\ LongAt(f, at + 12) = t.timestamps[2]
       /\ LongAt(f, at + 16) = t.timestamps[3]
  /\ t.type \in Masked => LongAt(f, at + 8) = t.subnetmask

\* Fields the decoder misreads are right on the wire: identification and fragment
\* flags of IPv4, class and flow label of IPv6, identifier and sequence number,
\* times and mask of ICMP.
OctetsOnWire ==
  /\ ReceivedIP(4) =>
       LET n == sent.network
       IN /\ WordAt(frame, network_at + 4) = ToUShort(n.ident)
          /\ WordAt(frame, network_at + 6) \div 8192
               = Flag(n.rsv_frag, 2) + Flag(n.dont_frag, 1) + Flag(n.more_frag, 0)
  /\ ReceivedIP(6) =>
       /\ WordAt(frame, network_at) \div 16 = 6 * 256 + sent.network.priority
       /\ OctetAt(frame, network_at + 1) % 16 = sent.network.flow_label[2]
       /\ OctetsAt(frame, network_at + 2, 2) = SubSeq(sent.network.flow_label, 3, 4)
  /\ Received("ICMPPacket") => ICMPOctets(frame, transport_at, sent.transport)

\* "offset": "Fragment offset (v4)" (IPPacket.java:70) is that of the header.
OffsetOnWire == ReceivedIP(4) => WordAt(frame, network_at + 6) % 8192 = sent.network.offset

\* A packet without a length of its own keeps the trailer that nativeSendPacket
\* adds to a short frame, and an ICMP error has no data.
HasData ==
  \/ sent.class \in {"IPPacket", "TCPPacket", "UDPPacket"}
  \/ sent.class = "ICMPPacket" /\ sent.transport.type \in {ICMP_ECHO, ICMP_ECHOREPLY}
  \/ sent.class = "Packet" /\ frame.caplen > 60

LengthsRight ==
  /\ ReceivedIP(4) /\ HasData =>
       WordAt(frame, network_at + 2) = packet.header - network_at + Len(sent.data)
  /\ Received("UDPPacket") => packet.transport.length = UDPHDRLEN + Len(sent.data)

\* The lengths in the headers of IPv4 and UDP are those of what follows them, and
\* the object received has the data of the object sent, without the trailer.  The
\* length of IPv6 is wrong (PayloadLengthRight); data behind it arrives where it is
\* of a size for which that does no harm (IsNetwork).
DataArrives ==
  /\ LengthsRight
  /\ Arrived /\ HasData => OctetsAt(frame, packet.header, packet.data) = sent.data

\* "Able to capture/send TCP options" (ChangeLog:24): the options of a TCPPacket
\* are sent with it.
OptionsArrive == Received("TCPPacket") => packet.transport.option = sent.transport.option

\* The payload length of an IPv6 header is the length of what follows it:
\* "JpcapSender can now send IPv6 packet." (ChangeLog:6)
PayloadLengthRight ==
  ReceivedIP(6) => ip6_plen(frame, network_at) = packet.header - transport_at + Len(sent.data)

\* The octets as words in the order of the network, the last one filled up with 0.
NetWords(octets) ==
  [i \in 1..((Len(octets) + 1) \div 2) |->
     octets[2 * i - 1] * 256 + IF 2 * i <= Len(octets) THEN octets[2 * i] ELSE 0]

\* They add up to nothing in ones' complement, as they do when the checksum among
\* them is right (RFC 1071).
SumsUp(octets) == SumOf(NetWords(octets))[(Len(octets) + 1) \div 2] % 65535 = 0

Segment(len) == SubSeq(frame.octets, transport_at + 1, transport_at + len)

TransportLen == packet.header - transport_at + Len(sent.data)

\* The checksums of an IPv4 header and of the TCP, UDP or ICMP message behind it
\* are right: TCP and UDP are summed with their pseudo header.
ChecksumsRight ==
  ReceivedIP(4) =>
    /\ SumsUp(OctetsAt(frame, network_at, IPv4HDRLEN))
    /\ sent.class \in {"TCPPacket", "UDPPacket"} =>
         SumsUp(sent.network.src_ip \o sent.network.dst_ip \o <<0, ProtocolOf(sent)>>
                  \o WordOctets(TransportLen) \o Segment(TransportLen))
    /\ sent.class = "ICMPPacket" =>
         SumsUp(Segment(ToUShort(packet.network.length) - IPv4HDRLEN))

\* The same for TCP and UDP in IPv6, whose pseudo header has the IPv6 addresses.
IPv6ChecksumsRight ==
  ReceivedIP(6) /\ sent.class \in {"TCPPacket", "UDPPacket"} =>
    SumsUp(sent.network.src_ip \o sent.network.dst_ip \o <<0, 0>> \o WordOctets(TransportLen)
             \o <<0, 0, 0, ProtocolOf(sent)>> \o Segment(TransportLen))
=============================================================================
