----------------------------- MODULE FrameLayout -----------------------------
(***************************************************************************)
(* What a frame of a captor's link is by the standards of its protocols:   *)
(* where its headers are, what it carries and where its payload is, told   *)
(* from its octets.  A frame with "headers" is one of which all headers    *)
(* were captured; PacketDecode is right about those that are WellFormed.   *)
(***************************************************************************)
EXTENDS PacketDecode

Least(a, b) == IF a < b THEN a ELSE b

Start(f) == offset_data(f.link)
Captured(f) == f.caplen - Start(f)

\* The type of the frame; a link that is not known has none.
EtherType(f) ==
  IF f.link = DLT_RAW THEN ETHERTYPE_IP
  ELSE IF f.link \in {DLT_EN10MB, DLT_IEEE802} THEN WordAt(f, offset_type(f.link))
  ELSE UNKNOWN_PROTO

\* The IPv6 extension headers: the i-th starts at places[i], and what they carry
\* at the last of the places.
Extensions(f) == Len(f.places) - 1
NextHeader(f, i) == IF i = 1 THEN ip6_nxt(f, Start(f)) ELSE ip6e_nxt(f, f.places[i - 1])

ChainOf(f, k) == [i \in 1..k |-> <<NextHeader(f, i), ip6e_len(f, f.places[i])>>]

\* An authentication header counts 4 octets and leaves out two of them, the others
\* count 8 and leave out one; a fragment header has no length field.
ExtensionOctets(f, at, type) ==
  IF type = IPPROTO_FRAGMENT THEN 8
  ELSE IF type = IPPROTO_AH THEN 4 * ip6e_len(f, at) + 8 ELSE 8 * ip6e_len(f, at) + 8

\* The length of the packet, by its header, and that of its network header.
PacketLength(f) ==
  CASE EtherType(f) = ETHERTYPE_IP -> WordAt(f, Start(f) + 2)
    [] EtherType(f) = ETHERTYPE_IPV6 -> 40 + ip6_plen(f, Start(f))
    [] EtherType(f) = ETHERTYPE_ARP -> ArpLength(f, Start(f))
    [] OTHER -> Captured(f)

NetworkHeader(f) ==
  CASE EtherType(f) = ETHERTYPE_IP -> ip_hl(f, Start(f)) * 4
    [] EtherType(f) = ETHERTYPE_IPV6 -> f.places[Extensions(f) + 1] - Start(f)
    [] EtherType(f) = ETHERTYPE_ARP -> ArpLength(f, Start(f))
    [] OTHER -> 0

\* The protocol behind the network header.  In a fragment that is not the first
\* there is none.
CarriedProtocol(f) ==
  CASE EtherType(f) = ETHERTYPE_IP ->
         IF ip_off(f, Start(f)) % 8192 = 0 THEN ip_p(f, Start(f)) ELSE IPPROTO_NONE
    [] EtherType(f) = ETHERTYPE_IPV6 -> NextHeader(f, Extensions(f) + 1)
    [] OTHER -> IPPROTO_NONE

CarriedHeader(f) ==
  CASE CarriedProtocol(f) = IPPROTO_TCP -> th_off(f, Start(f) + NetworkHeader(f)) * 4
    [] CarriedProtocol(f) = IPPROTO_UDP -> UDPHDRLEN
    [] CarriedProtocol(f) = IPPROTO_ICMP -> ICMPHDRLEN
    [] OTHER -> 0

-----------------------------------------------------------------------------
(* All headers are within the packet and were captured; lengths are those that the
   shorts of get_packet hold.  The payload is what is behind the headers, without
   the padding. *)
HeadersFit(f) ==
  LET headers == NetworkHeader(f) + CarriedHeader(f)
  IN /\ f.caplen <= MaxShort /\ PacketLength(f) <= MaxShort
     /\ headers <= PacketLength(f) /\ headers <= Captured(f)
     /\ CarriedProtocol(f) = IPPROTO_TCP => CarriedHeader(f) >= TCPHDRLEN
     /\ f.payload = [at |-> Start(f) + headers,
                     len |-> Least(PacketLength(f), Captured(f)) - headers]

IPv4Layout(f) == NetworkHeader(f) >= IPv4HDRLEN /\ f.extensions = <<>>

\* The headers follow each other.  Three kinds of frames get_packet misreads, and
\* they are left out: those with a routing header, or with TCP, UDP or ICMP behind
\* an extension header, and those cut right behind the IPv6 header.
IPv6Layout(f) ==
  /\ OctetAt(f, Start(f)) \div 16 = 6
  /\ f.places \in Seq(Nat) /\ f.places # <<>> /\ f.places[1] = Start(f) + 40
  /\ \A i \in 1..Len(f.places) : Start(f) + 40 <= f.places[i] /\ f.places[i] <= f.caplen
  /\ \A i \in 1..Extensions(f) :
       /\ IsExtension(NextHeader(f, i)) /\ NextHeader(f, i) # IPPROTO_ROUTING
       /\ ip6e_len(f, f.places[i]) <= 127
       /\ f.places[i + 1] = f.places[i] + ExtensionOctets(f, f.places[i], NextHeader(f, i))
  /\ f.extensions = ChainOf(f, Extensions(f))
  /\ ~IsExtension(CarriedProtocol(f))
  /\ Extensions(f) > 0 => CarriedProtocol(f) \notin {IPPROTO_TCP, IPPROTO_UDP, IPPROTO_ICMP}
  /\ Captured(f) > 40 \/ ip6_plen(f, Start(f)) = 0

\* A frame that is neither IP nor ARP: its type is none of the numbers that
\* get_packet mistakes for a protocol, nor RARP.
OtherLayout(f) ==
  /\ EtherType(f) \notin {ETHERTYPE_REVARP, IPPROTO_TCP, IPPROTO_UDP, IPPROTO_ICMP}
  /\ EtherType(f) = UNKNOWN_PROTO => Start(f) = 0
  /\ f.extensions = <<>>

ClassCarried(f) ==
  CASE EtherType(f) \in {ETHERTYPE_IP, ETHERTYPE_IPV6} ->
         (CASE CarriedProtocol(f) = IPPROTO_TCP -> "TCPPacket"
            [] CarriedProtocol(f) = IPPROTO_UDP -> "UDPPacket"
            [] CarriedProtocol(f) = IPPROTO_ICMP -> "ICMPPacket"
            [] OTHER -> "IPPacket")
    [] EtherType(f) = ETHERTYPE_ARP -> "ARPPacket"
    [] OTHER -> "Packet"

WellFormed(f) ==
  /\ HeadersFit(f)
  /\ f.carries = ClassCarried(f)
  /\ EtherType(f) = ETHERTYPE_IP => IPv4Layout(f)
  /\ EtherType(f) = ETHERTYPE_IPV6 => IPv6Layout(f)
  /\ EtherType(f) = ETHERTYPE_ARP => f.extensions = <<>>
  /\ EtherType(f) \notin {ETHERTYPE_IP, ETHERTYPE_IPV6, ETHERTYPE_ARP} => OtherLayout(f)

\* Every frame that has all its headers is one that the standards allow, and is
\* what it says it is.
FramesAreWellFormed == \A f \in Frames : f.headers => WellFormed(f)

-----------------------------------------------------------------------------
(***************************************************************************)
(* What makes get_packet right about them: what it knows at each place.    *)
(***************************************************************************)
\* The transport protocol it has come to is the one that is there.
Found(f, t) ==
  /\ \A p \in {IPPROTO_TCP, IPPROTO_UDP, IPPROTO_ICMP} : t = p <=> CarriedProtocol(f) = p
  /\ t = UNKNOWN_PROTO => PacketLength(f) <= Captured(f)

FirstPassRight ==
  /\ pc = "link" => clen = frame.caplen
  /\ pc = "network" => clen = Captured(frame)
  /\ pc \notin {"frame", "link"} => nproto = EtherType(frame)
  /\ pc = "walk" =>
       \/ /\ tproto = ip6_nxt(frame, Start(frame)) /\ dp = Start(frame)
          /\ clen = Captured(frame) - 40 /\ clen > 0
       \/ Extensions(frame) > 0 /\ tproto \in 96..111
  /\ pc = "create" => Found(frame, IF Truncated THEN UNKNOWN_PROTO ELSE tproto)
  /\ pc \in {"analyze", "options", "clamp", "transport", "done"} => Found(frame, tproto)

\* The options are those of the extension headers up to the k-th.
OptionsMade(f, options, k) ==
  /\ options \in Seq({IPv6Option(f, f.places[i], p) : i \in 1..Len(f.places), p \in Octet})
  /\ Len(options) = k
  /\ \A i \in 1..k : <<options[i].type, options[i].hlen>> = ChainOf(f, k)[i]

AllOptionsMade(f, options) ==
  OptionsMade(f, options, IF EtherType(f) = ETHERTYPE_IPV6 THEN Extensions(f) ELSE 0)

SecondPassRight ==
  /\ pc = "analyze" => packet.options = <<>>
  /\ pc = "options" =>
       \E k \in 0..Extensions(frame) :
         /\ OptionsMade(frame, packet.options, k)
         /\ ext = frame.places[k + 1] /\ proto = NextHeader(frame, k + 1)
         /\ hlen = ext - Start(frame) /\ clen = PacketLength(frame)
  /\ pc \in {"clamp", "transport", "done"} => AllOptionsMade(frame, packet.options)
  /\ pc = "clamp" => clen = PacketLength(frame) /\ hlen = NetworkHeader(frame)
  /\ pc = "transport" =>
       /\ clen = Least(PacketLength(frame), Captured(frame)) - NetworkHeader(frame)
       /\ data = Start(frame) + NetworkHeader(frame)
  /\ pc = "done" =>
       packet.header = frame.payload.at /\ packet.data = frame.payload.len

LayoutInv == frame.headers => FirstPassRight /\ SecondPassRight

(* The object has what was read of the link header and of the network header, and
   in the end of the transport header: each read where the header is. *)
NetworkRead ==
  CASE nproto = ETHERTYPE_IP -> packet.network = analyze_ip(frame, Start(frame))
    [] nproto = ETHERTYPE_IPV6 -> packet.network = Ip6Fields(frame, Start(frame))
    [] nproto = ETHERTYPE_ARP -> packet.network = analyze_arp(frame, Start(frame))
    [] OTHER -> TRUE

TransportRead ==
  LET at == Start(frame) + NetworkHeader(frame)
  IN CASE tproto = IPPROTO_TCP -> packet.transport = analyze_tcp(frame, at)
       [] tproto = IPPROTO_UDP -> packet.transport = analyze_udp(frame, at)
       [] tproto = IPPROTO_ICMP ->
            /\ packet.transport.type = ToByte(OctetAt(frame, at))
            /\ packet.transport.code = ToByte(OctetAt(frame, at + 1))
            /\ OctetAt(frame, at) = ICMP_REDIRECT => packet.transport.redir_ip = LongAt(frame, at + 4)
       [] OTHER -> TRUE

ObjectRead ==
  /\ pc \in {"analyze", "options", "clamp", "transport", "done"} =>
       packet.datalink = analyze_datalink(frame, frame.link)
  /\ pc \in {"options", "clamp", "transport", "done"} => NetworkRead
  /\ pc = "done" /\ frame.headers => TransportRead
=============================================================================
