---------------------------- MODULE PacketDecode ----------------------------
(***************************************************************************)
(* How jpcap makes a packet object of a captured frame: get_packet of      *)
(* JpcapCaptor.c, for one captor, one frame after the other.  Two passes   *)
(* go over the headers: the first decides the class of the object from     *)
(* what is left of the frame ("clen", a short), the second reads the       *)
(* headers into the object and cuts the frame into header and data.  The   *)
(* second must come to the same layout as the first.                       *)
(*                                                                         *)
(* A frame has, besides octets and beyond (see Octets):                    *)
(*   link       the link type of the captor                                *)
(*   caplen     the octets captured, of pcap_pkthdr                        *)
(* and what the frame was made of, which the code does not see:            *)
(*   carries    the class of packet                                        *)
(*   extensions type and length field of its IPv6 extension headers        *)
(*   places     where they start, and where what they carry starts          *)
(*   payload    where its payload starts, and the octets of it captured    *)
(*   headers    whether all headers were captured                          *)
(***************************************************************************)
EXTENDS HeaderFields

CONSTANTS
  Frames,   \* the frames that arrive
  Garbage   \* what a variable may hold that was never set

ASSUME DecodeAssumption == Garbage \subseteq UShort /\ Garbage # {}

UNKNOWN_PROTO == 65535

VARIABLES
  frame,    \* the frame being decoded
  pc,       \* how far get_packet is
  nproto,   \* the network protocol, an ETHERTYPE
  tproto,   \* the transport protocol, an IPPROTO or something else
  clen,     \* what is left of the frame, or of the packet
  hlen,     \* the length of the last header
  dp,       \* where the first pass is in the IPv6 extension headers
  data,     \* where the second pass is
  ext,      \* where analyze_ipv6 is
  proto,    \* the type of the header there
  packet    \* the object

vars == <<frame, pc, nproto, tproto, clen, hlen, dp, data, ext, proto, packet>>

offset_type(link) == IF link = DLT_EN10MB THEN 12 ELSE 20
offset_data(link) ==
  CASE link = DLT_EN10MB -> 14 [] link = DLT_IEEE802 -> 22 [] OTHER -> 0

\* No frame is shorter than its link header, or longer than the snapshot length
\* that Scanner opens its captors with (Controller.java:187).
ASSUME FramesAssumption ==
  \A f \in Frames :
    /\ f.octets \in Seq(Octet) /\ f.beyond \in Octet
    /\ f.caplen \in UShort /\ f.caplen >= offset_data(f.link)

datalink_hlen == offset_data(frame.link)

NoPacket ==
  [class |-> "none", datalink |-> NotSet, network |-> NotSet, options |-> <<>>,
   transport |-> NotSet, header |-> 0, data |-> 0]

Init ==
  /\ frame \in Frames
  /\ pc = "frame" /\ packet = NoPacket
  /\ nproto = 0 /\ tproto = 0 /\ clen = 0 /\ hlen = 0
  /\ dp = 0 /\ data = 0 /\ ext = 0 /\ proto = 0

(* pcap hands over a frame: clen is a short, caplen is not, and tproto is not
   set. *)
NextFrame ==
  /\ pc \in {"frame", "done"}
  /\ frame' \in Frames
  /\ pc' = "link" /\ packet' = NoPacket
  /\ clen' = ToShort(frame'.caplen)
  /\ nproto' = 0 /\ tproto' \in Garbage /\ hlen' = 0
  /\ dp' = 0 /\ data' = 0 /\ ext' = 0 /\ proto' = 0

(* The link type tells where the network protocol is, if anywhere. *)
Link ==
  /\ pc = "link"
  /\ IF frame.link \in {DLT_RAW, DLT_IEEE802, DLT_EN10MB}
       THEN /\ nproto' = IF frame.link = DLT_RAW THEN ETHERTYPE_IP
                         ELSE WordAt(frame, offset_type(frame.link))
            /\ clen' = ToShort(clen - datalink_hlen)
       ELSE nproto' = UNKNOWN_PROTO /\ UNCHANGED clen
  /\ pc' = "network"
  /\ UNCHANGED <<frame, tproto, hlen, dp, data, ext, proto, packet>>

(* Nothing is left: tproto stays as it was found. *)
NothingLeft ==
  /\ pc = "network" /\ clen <= 0
  /\ pc' = "create"
  /\ UNCHANGED <<frame, nproto, tproto, clen, hlen, dp, data, ext, proto, packet>>

\* Mutation: a fragment is taken for the start of a packet.
FirstPassFragment ==
  /\ pc = "network" /\ clen > 0 /\ nproto = ETHERTYPE_IP
  /\ clen' = ToShort(clen - ip_hl(frame, datalink_hlen) * 4)
  /\ tproto' = IF clen' > 0 THEN ip_p(frame, datalink_hlen) ELSE ETHERTYPE_IP
  /\ pc' = "create"
  /\ UNCHANGED <<frame, nproto, hlen, dp, data, ext, proto, packet>>

FirstPassIP ==
  /\ pc = "network" /\ clen > 0 /\ nproto = ETHERTYPE_IP
  /\ clen' = ToShort(clen - ip_hl(frame, datalink_hlen) * 4)
  /\ tproto' = IF clen' > 0 /\ ip_off(frame, datalink_hlen) % 8192 = 0
                 THEN ip_p(frame, datalink_hlen) ELSE ETHERTYPE_IP
  /\ pc' = "create"
  /\ UNCHANGED <<frame, nproto, hlen, dp, data, ext, proto, packet>>

(* The pass over the extension headers starts at the IPv6 header itself. *)
FirstPassIPv6 ==
  /\ pc = "network" /\ clen > 0 /\ nproto = ETHERTYPE_IPV6
  /\ clen' = ToShort(clen - 40)
  /\ IF clen' > 0
       THEN /\ dp' = datalink_hlen
            /\ tproto' = ip6_nxt(frame, dp')
            /\ pc' = "walk"
       ELSE pc' = "create" /\ UNCHANGED <<tproto, dp>>
  /\ UNCHANGED <<frame, nproto, hlen, data, ext, proto, packet>>

WalkExtension ==
  /\ pc = "walk" /\ IsExtension(tproto) /\ clen > 0
  /\ LET next == ip6e_nxt(frame, dp)
         length == ExtensionLength(frame, dp, tproto)
     IN /\ tproto' = IF next \in {IPPROTO_ESP, IPPROTO_NONE} THEN UNKNOWN_PROTO ELSE next
        /\ dp' = dp + length
        /\ clen' = ToShort(clen - length)
  /\ UNCHANGED <<frame, pc, nproto, hlen, data, ext, proto, packet>>

EndWalk ==
  /\ pc = "walk" /\ (~IsExtension(tproto) \/ clen <= 0)
  /\ pc' = "create"
  /\ UNCHANGED <<frame, nproto, tproto, clen, hlen, dp, data, ext, proto, packet>>

(* 28 octets of ARP, but only with something after them, make tproto ARP. *)
FirstPassARP ==
  /\ pc = "network" /\ clen > 0 /\ nproto = ETHERTYPE_ARP
  /\ clen' = ToShort(clen - 28)
  /\ IF clen' > 0 THEN tproto' = ETHERTYPE_ARP ELSE UNCHANGED tproto
  /\ pc' = "create"
  /\ UNCHANGED <<frame, nproto, hlen, dp, data, ext, proto, packet>>

(* UNKNOWN_PROTO, and everything else: the type of the frame is used as the
   transport protocol. *)
FirstPassOther ==
  /\ pc = "network" /\ clen > 0
  /\ nproto \notin {ETHERTYPE_IP, ETHERTYPE_IPV6, ETHERTYPE_ARP}
  /\ tproto' = nproto
  /\ pc' = "create"
  /\ UNCHANGED <<frame, nproto, clen, hlen, dp, data, ext, proto, packet>>

\* Mutation: TCP headers are not looked at.
TruncatedNotTCP ==
  \/ tproto = IPPROTO_UDP /\ clen < UDPHDRLEN
  \/ tproto = IPPROTO_ICMP /\ clen < ICMPHDRLEN

Truncated ==
  \/ tproto = IPPROTO_TCP /\ clen < TCPHDRLEN
  \/ tproto = IPPROTO_UDP /\ clen < UDPHDRLEN
  \/ tproto = IPPROTO_ICMP /\ clen < ICMPHDRLEN

ClassOf(t, n) ==
  CASE t = IPPROTO_TCP -> "TCPPacket"
    [] t = IPPROTO_UDP -> "UDPPacket"
    [] t = IPPROTO_ICMP -> "ICMPPacket"
    [] OTHER -> IF n \in {ETHERTYPE_IP, ETHERTYPE_IPV6} THEN "IPPacket"
                ELSE IF n \in {ETHERTYPE_ARP, ETHERTYPE_REVARP} THEN "ARPPacket" ELSE "Packet"

(* The object is made, and the link header read into it. *)
Create ==
  /\ pc = "create"
  /\ tproto' = IF Truncated THEN UNKNOWN_PROTO ELSE tproto
  /\ packet' = [packet EXCEPT !.class = ClassOf(tproto', nproto),
                              !.datalink = analyze_datalink(frame, frame.link)]
  /\ data' = IF nproto # UNKNOWN_PROTO THEN datalink_hlen ELSE 0
  /\ pc' = "analyze"
  /\ UNCHANGED <<frame, nproto, clen, hlen, dp, ext, proto>>

\* Mutation: the length of the packet is that of the frame.
AnalyzeIPInFrame ==
  /\ pc = "analyze" /\ nproto = ETHERTYPE_IP
  /\ clen' = ToShort(frame.caplen - datalink_hlen)
  /\ hlen' = ip_hl(frame, data) * 4
  /\ packet' = [packet EXCEPT !.network = analyze_ip(frame, data)]
  /\ pc' = "clamp"
  /\ UNCHANGED <<frame, nproto, tproto, dp, data, ext, proto>>

\* Mutation: the length is not brought back to a short.
AnalyzeIPUnsigned ==
  /\ pc = "analyze" /\ nproto = ETHERTYPE_IP
  /\ clen' = WordAt(frame, data + 2)
  /\ hlen' = ip_hl(frame, data) * 4
  /\ packet' = [packet EXCEPT !.network = analyze_ip(frame, data)]
  /\ pc' = "clamp"
  /\ UNCHANGED <<frame, nproto, tproto, dp, data, ext, proto>>

AnalyzeIP ==
  /\ pc = "analyze" /\ nproto = ETHERTYPE_IP
  /\ clen' = ToShort(WordAt(frame, data + 2))
  /\ hlen' = ip_hl(frame, data) * 4
  /\ packet' = [packet EXCEPT !.network = analyze_ip(frame, data)]
  /\ pc' = "clamp"
  /\ UNCHANGED <<frame, nproto, tproto, dp, data, ext, proto>>

(* The header, and then one IPv6Option for each extension header. *)
AnalyzeIPv6 ==
  /\ pc = "analyze" /\ nproto = ETHERTYPE_IPV6
  /\ clen' = ToShort(ToShort(ip6_plen(frame, data)) + 40)
  /\ hlen' = 40
  /\ packet' = [packet EXCEPT !.network = Ip6Fields(frame, data)]
  /\ ext' = data + 40 /\ proto' = ip6_nxt(frame, data)
  /\ pc' = "options"
  /\ UNCHANGED <<frame, nproto, tproto, dp, data>>

(* Next header and length are read where the header starts; the loop over the
   addresses of a routing header has moved the pointer by then. *)
OptionHeader ==
  /\ pc = "options" /\ IsExtension(proto)
  /\ LET length == ExtensionLength(frame, ext, proto)
     IN /\ packet' = [packet EXCEPT !.options = Append(@, IPv6Option(frame, ext, proto))]
        /\ hlen' = ToShort(hlen + length)
        /\ ext' = ext + RoutingAdvance(frame, ext, proto) + length
        /\ proto' = ip6e_nxt(frame, ext)
  /\ UNCHANGED <<frame, pc, nproto, tproto, clen, dp, data>>

EndOptions ==
  /\ pc = "options" /\ ~IsExtension(proto)
  /\ pc' = "clamp"
  /\ UNCHANGED <<frame, nproto, tproto, clen, hlen, dp, data, ext, proto, packet>>

AnalyzeARP ==
  /\ pc = "analyze" /\ nproto = ETHERTYPE_ARP
  /\ clen' = ArpLength(frame, data) /\ hlen' = clen'
  /\ packet' = [packet EXCEPT !.network = analyze_arp(frame, data)]
  /\ pc' = "clamp"
  /\ UNCHANGED <<frame, nproto, tproto, dp, data, ext, proto>>

AnalyzeOther ==
  /\ pc = "analyze" /\ nproto \notin {ETHERTYPE_IP, ETHERTYPE_IPV6, ETHERTYPE_ARP}
  /\ clen' = ToShort(IF nproto = UNKNOWN_PROTO THEN frame.caplen ELSE frame.caplen - datalink_hlen)
  /\ hlen' = 0
  /\ pc' = "clamp"
  /\ UNCHANGED <<frame, nproto, tproto, dp, data, ext, proto, packet>>

\* Mutation: what the header says is believed.
Unclamped ==
  /\ pc = "clamp"
  /\ clen' = ToShort(clen - hlen) /\ data' = data + hlen
  /\ pc' = "transport"
  /\ UNCHANGED <<frame, nproto, tproto, hlen, dp, ext, proto, packet>>

(* What the header says is cut to what was captured, unless tproto is unknown. *)
Clamp ==
  /\ pc = "clamp"
  /\ LET captured == frame.caplen - datalink_hlen
         cut == nproto # UNKNOWN_PROTO /\ tproto # UNKNOWN_PROTO /\ UnsignedGreater(clen, captured)
     IN clen' = ToShort((IF cut THEN ToShort(captured) ELSE clen) - hlen)
  /\ data' = data + hlen
  /\ pc' = "transport"
  /\ UNCHANGED <<frame, nproto, tproto, hlen, dp, ext, proto, packet>>

TransportHeader(left, left2) ==
  CASE tproto = IPPROTO_TCP -> analyze_tcp(frame, data)
    [] tproto = IPPROTO_UDP -> analyze_udp(frame, data)
    [] tproto = IPPROTO_ICMP -> analyze_icmp(frame, data, clen, left, left2)
    [] OTHER -> NotSet

TransportLength ==
  CASE tproto = IPPROTO_TCP -> th_off(frame, data) * 4
    [] tproto = IPPROTO_UDP -> UDPHDRLEN
    [] tproto = IPPROTO_ICMP -> ICMPHDRLEN
    [] OTHER -> 0

(* The last header, and then header and data of the object: all that was passed
   over, and what is left. *)
Transport ==
  /\ pc = "transport"
  /\ hlen' = IF TransportLength > clen THEN clen ELSE TransportLength
  /\ clen' = clen - hlen'
  /\ data' = data + hlen'
  /\ \E left, left2 \in {ToShort(g) : g \in Garbage} :
       packet' = [packet EXCEPT !.transport = TransportHeader(left, left2),
                                !.header = ToShort(data'), !.data = clen']
  /\ pc' = "done"
  /\ UNCHANGED <<frame, nproto, tproto, dp, ext, proto>>

Next ==
  \/ NextFrame \/ Link
  \/ NothingLeft \/ FirstPassIP \/ FirstPassIPv6 \/ FirstPassARP \/ FirstPassOther
  \/ WalkExtension \/ EndWalk \/ Create
  \/ AnalyzeIP \/ AnalyzeIPv6 \/ AnalyzeARP \/ AnalyzeOther
  \/ OptionHeader \/ EndOptions
  \/ Clamp \/ Transport

Spec == Init /\ [][Next]_vars

-----------------------------------------------------------------------------
(***************************************************************************)
(* Properties                                                              *)
(***************************************************************************)
Done == pc = "done"

IPClasses == {"IPPacket", "TCPPacket", "UDPPacket", "ICMPPacket"}

\* Types: the shorts and u_shorts of get_packet keep their range, and the object
\* has one of the classes of jpcap.packet.
TypeOK ==
  /\ frame \in Frames
  /\ pc \in {"frame", "link", "network", "walk", "create", "analyze", "options",
             "clamp", "transport", "done"}
  /\ nproto \in UShort /\ tproto \in UShort
  /\ clen \in Short /\ hlen \in Short
  /\ dp \in Nat /\ data \in Int /\ ext \in Int /\ proto \in Octet
  /\ packet.class \in IPClasses \cup {"none", "ARPPacket", "Packet"}
  /\ packet.header \in Short /\ packet.data \in Short

\* The object has the class of what the frame carries, if all headers of the
\* frame were captured: the first pass found its way to the transport protocol.
ClassFits == Done /\ frame.headers => packet.class = frame.carries

\* Setters are called on objects that have them, whatever the frame: the two
\* passes, which decide class and setters, agree.  JNI does not check it.
MethodsFitClass ==
  /\ packet.network.by \in {"setIPv4Value", "setIPv6Value"} => packet.class \in IPClasses
  /\ packet.network.by = "ARPPacket" => packet.class = "ARPPacket"
  /\ packet.options # <<>> => packet.class \in IPClasses
  /\ packet.transport # NotSet => packet.class = packet.transport.by

\* The data of the object is the payload of the frame: it starts after the last
\* header, has no octet of the padding of a short frame, and all that were
\* captured.
PayloadExact ==
  Done /\ frame.headers => packet.header = frame.payload.at /\ packet.data = frame.payload.len

\* Header and data together are no more than was captured, and the length that
\* data is copied with is not negative: what the headers say is cut.  Where
\* tproto is unknown it is not: see TruncatedWithinCapture.
WithinCapture ==
  Done /\ tproto # UNKNOWN_PROTO =>
    /\ packet.data >= 0
    /\ packet.header + packet.data <= frame.caplen

\* The same for every frame: "Check for truncated packet" (JpcapCaptor.c:788).
TruncatedWithinCapture == Done => packet.header + packet.data <= frame.caplen

\* The IPv6 options of the object are the extension headers of the frame, in
\* their order, with the lengths they have there.
OptionsInOrder ==
  Done /\ frame.headers =>
    frame.extensions =
      [i \in 1..Len(packet.options) |-> <<packet.options[i].type, packet.options[i].hlen>>]

\* The flags of an IPv4 header are those that were sent.
FragmentFlags ==
  Done /\ packet.network.by = "setIPv4Value" =>
    LET off == ip_off(frame, datalink_hlen)
    IN <<packet.network.rsv_frag, packet.network.dont_frag, packet.network.more_frag>>
         = <<Bit(off, 15), Bit(off, 14), Bit(off, 13)>>

\* The identifier of an ICMP echo is the one that was sent.
EchoIdentifier ==
  (/\ Done /\ frame.headers /\ packet.transport.by = "ICMPPacket"
   /\ packet.transport.type \in {ICMP_ECHO, ICMP_ECHOREPLY})
    => packet.transport.id = ToShort(WordAt(frame, packet.header - 4))

\* An ARP or RARP packet has the fields of its header.
ARPFieldsSet == Done /\ packet.class = "ARPPacket" => packet.network.by = "ARPPacket"

\* writePacket of JpcapWriter.c puts header and data into a buffer, of which pcap
\* saves as many octets as were captured: -1 is one that nothing wrote.
writePacket(f, p) ==
  [k \in 1..f.caplen |-> IF k <= p.header + p.data THEN OctetAt(f, k - 1) ELSE -1]

\* "Saves a packet into the file." (JpcapWriter.java:37): the file gets the octets
\* that were captured.
SavedAsCaptured == Done => writePacket(frame, packet) = OctetsAt(frame, 0, frame.caplen)
=============================================================================
