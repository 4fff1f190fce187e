--------------------------- MODULE MCPacketDecode ---------------------------
(***************************************************************************)
(* Frames for PacketDecode, put together layer by layer, so that it is     *)
(* known what each carries and where its payload is.                       *)
(***************************************************************************)
EXTENDS FrameLayout

Zeros(n) == [i \in 1..n |-> 0]
Most(a, b) == IF a > b THEN a ELSE b

\* Payload is told from padding and from headers by its octets.
Payload(n) == [i \in 1..n |-> 170]

LinkHeader(link, type) ==
  CASE link = DLT_EN10MB -> Zeros(12) \o WordOctets(type)
    [] link = DLT_IEEE802 -> Zeros(20) \o WordOctets(type)
    [] OTHER -> <<>>

Ip4(words, total, off, p) ==
  <<64 + words, 0>> \o WordOctets(total) \o <<0, 1>> \o WordOctets(off)
    \o <<64, p, 0, 0, 10, 0, 0, 1, 10, 0, 0, 2>> \o Zeros(words * 4 - 20)

Ip6(nxt, plen) == <<96, 0, 0, 0>> \o WordOctets(plen) \o <<nxt, 64>> \o Zeros(32)

TcpHeader(words) == <<4, 1, 0, 80>> \o Zeros(8) \o <<words * 16, 18>> \o Zeros(6) \o Zeros(words * 4 - 20)
UdpHeader(n) == <<4, 1, 0, 53>> \o WordOctets(8 + n) \o <<0, 0>>
EchoHeader == <<ICMP_ECHO, 0, 0, 0, 3, 7, 0, 1>>

Extension(type, nxt, len) ==
  <<nxt, len>> \o Zeros(CASE type = IPPROTO_AH -> (len + 2) * 4 - 2
                          [] type = IPPROTO_FRAGMENT -> 6
                          [] OTHER -> (len + 1) * 8 - 2)

\* Where extension headers start behind an IPv6 header, and what is behind them.
Places(start, chain) ==
  LET extensions(k) == FlattenSeq([i \in 1..k |-> Extension(chain[i][1], 0, chain[i][2])])
  IN [k \in 1..(Len(chain) + 1) |-> start + 40 + Len(extensions(k - 1))]

\* The frame of the headers and n octets of payload, the first "captured" octets
\* of it, or all.
Frame(link, class, extensions, headers, n, padding, captured) ==
  LET whole == headers \o Payload(n) \o Zeros(padding)
      caplen == Least(Len(whole), captured)
      at == Len(headers)
  IN [link |-> link, caplen |-> caplen, octets |-> SubSeq(whole, 1, caplen), beyond |-> 255,
      carries |-> class, extensions |-> extensions, places |-> Places(offset_data(link), extensions),
      headers |-> caplen >= at,
      payload |-> [at |-> at, len |-> Most(0, Least(n, caplen - at))]]

\* Ethernet pads a frame it receives to 60 octets; one that is sent is captured
\* before.
Padding(len) == {0, Most(0, 60 - len)}

\* What an IPv4 packet may carry: the class, the protocol, the offset and the
\* header.
Contents(n) ==
  {<<"TCPPacket", IPPROTO_TCP, 0, TcpHeader(words)>> : words \in {5, 8}}
    \cup {<<"UDPPacket", IPPROTO_UDP, 0, UdpHeader(n)>>, <<"ICMPPacket", IPPROTO_ICMP, 0, EchoHeader>>,
          <<"IPPacket", 47, 0, <<>>>>, <<"IPPacket", IPPROTO_TCP, 185, <<>>>>}

Everything == 65535

IPv4Frames(links, sizes, cuts) ==
  UNION {UNION {
    LET headers == LinkHeader(link, ETHERTYPE_IP)
                     \o Ip4(words, words * 4 + Len(c[4]) + n, c[3], c[2]) \o c[4]
    IN {Frame(link, c[1], <<>>, headers, n, padding, Most(offset_data(link), cut)) :
          padding \in IF link = DLT_EN10MB THEN Padding(Len(headers) + n) ELSE {0},
          cut \in cuts}
    : link \in links, words \in {5, 6}, c \in Contents(n)} : n \in sizes}

IPv6Frame(chain, class, nxt, header, n) ==
  LET kind == [i \in 1..Len(chain) |-> chain[i][1]]
      follows == [i \in 1..Len(chain) |-> IF i < Len(chain) THEN kind[i + 1] ELSE nxt]
      extensions == FlattenSeq([i \in 1..Len(chain) |-> Extension(kind[i], follows[i], chain[i][2])])
      headers == LinkHeader(DLT_EN10MB, ETHERTYPE_IPV6)
                   \o Ip6(IF chain = <<>> THEN nxt ELSE kind[1], Len(extensions) + Len(header) + n)
                   \o extensions \o header
  IN Frame(DLT_EN10MB, class, chain, headers, n, 0, Everything)

ArpHeader == <<0, 1, 8, 0, 6, 4, 0, 1>> \o Zeros(20)

ArpFrame(type, padding) ==
  Frame(DLT_EN10MB, "ARPPacket", <<>>, LinkHeader(DLT_EN10MB, type) \o ArpHeader, 0, padding, Everything)

\* Chains of extension headers, without a routing header.
Chains ==
  {<<>>, <<<<IPPROTO_HOPOPTS, 0>>>>, <<<<IPPROTO_FRAGMENT, 0>>>>, <<<<IPPROTO_DSTOPTS, 1>>>>,
   <<<<IPPROTO_HOPOPTS, 1>>, <<IPPROTO_DSTOPTS, 0>>>>,
   <<<<IPPROTO_HOPOPTS, 0>>, <<IPPROTO_AH, 4>>, <<IPPROTO_FRAGMENT, 0>>>>}

\* Every protocol as it is usual on a network.
UsualFrames ==
  IPv4Frames({DLT_EN10MB}, {0, 1, 30}, {54, 60, Everything})
    \cup IPv4Frames({DLT_IEEE802, DLT_RAW}, {1}, {Everything})
    \cup {IPv6Frame(<<>>, "TCPPacket", IPPROTO_TCP, TcpHeader(5), n) : n \in {0, 3}}
    \cup {IPv6Frame(<<>>, "UDPPacket", IPPROTO_UDP, UdpHeader(n), n) : n \in {0, 3}}
    \cup {IPv6Frame(chain, "IPPacket", 58, <<>>, 24) : chain \in Chains}
    \cup {IPv6Frame(<<>>, "IPPacket", IPPROTO_NONE, <<>>, 0)}
    \cup {ArpFrame(ETHERTYPE_ARP, padding) : padding \in {0, 18}}
    \cup {Frame(DLT_EN10MB, "Packet", <<>>, LinkHeader(DLT_EN10MB, 35020), n, 0, Everything) : n \in {46, 60}}
    \cup {Frame(105, "Packet", <<>>, <<>>, 40, 0, Everything)}

\* Frames cut anywhere after the link header, and frames whose lengths are past
\* what a short holds.
OddFrames ==
  IPv4Frames({DLT_EN10MB}, {8}, {14, 20, 34, 40, 41, 42, 50})
    \cup {[Frame(DLT_EN10MB, "IPPacket", <<>>,
                 LinkHeader(DLT_EN10MB, ETHERTYPE_IP) \o Ip4(15, total, 0, p) \o TcpHeader(words), 4, 0, Everything)
             EXCEPT !.headers = FALSE] :
             total \in {0, 20, 70, 32767, 32768, 65535}, p \in {IPPROTO_TCP, IPPROTO_UDP, 47}, words \in {0, 5, 15}}
    \cup {[f EXCEPT !.caplen = caplen, !.headers = FALSE] :
            f \in {IPv6Frame(<<>>, "TCPPacket", IPPROTO_TCP, TcpHeader(5), 3),
                   IPv6Frame(<<<<IPPROTO_HOPOPTS, 255>>>>, "IPPacket", 58, <<>>, 3)},
            caplen \in {54, 32767, 32768, 65535}}

AllFrames == UsualFrames \cup OddFrames

\* The theorems about well-formed frames speak of these.
ASSUME FramesAssumed == \A f \in AllFrames : f.headers => WellFormed(f)

ReverseARP == {ArpFrame(ETHERTYPE_REVARP, 18)}

PaddedARP == {ArpFrame(ETHERTYPE_ARP, 18)}

\* A frame that has its length in the place of the type.
LengthFrames ==
  {Frame(DLT_EN10MB, "Packet", <<>>, LinkHeader(DLT_EN10MB, IPPROTO_TCP), 6, 40, Everything)}

ExtendedTCP == {IPv6Frame(<<<<IPPROTO_DSTOPTS, 0>>>>, "TCPPacket", IPPROTO_TCP, TcpHeader(5), 3)}

RoutedFrames ==
  {IPv6Frame(<<<<IPPROTO_ROUTING, 4>>, <<IPPROTO_DSTOPTS, 0>>>>, "IPPacket", 58, <<>>, 64)}

\* 8 octets of payload behind a TCP header of which 16 octets were captured.
CutTCP ==
  {Frame(DLT_EN10MB, "TCPPacket", <<>>,
         LinkHeader(DLT_EN10MB, ETHERTYPE_IP) \o Ip4(5, 48, 0, IPPROTO_TCP) \o TcpHeader(5), 8, 0, 50)}

UnfragmentedFrames ==
  {Frame(DLT_EN10MB, "TCPPacket", <<>>,
         LinkHeader(DLT_EN10MB, ETHERTYPE_IP) \o Ip4(5, 48, 16384, IPPROTO_TCP) \o TcpHeader(5), 8, 0, Everything)}

\* A TCP packet of 40000 octets, of which those past the headers do not matter.
BigFrames ==
  {[Frame(DLT_EN10MB, "TCPPacket", <<>>,
          LinkHeader(DLT_EN10MB, ETHERTYPE_IP) \o Ip4(5, 39986, 0, IPPROTO_TCP) \o TcpHeader(5), 6, 0, Everything)
      EXCEPT !.caplen = 40000, !.payload.len = 39946]}

EchoFrames == IPv4Frames({DLT_EN10MB}, {8}, {Everything})

Unset == {0, IPPROTO_TCP, ETHERTYPE_IP}
=============================================================================
