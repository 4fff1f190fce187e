------------------------ MODULE SendReceive_proofs ------------------------
(***************************************************************************)
(* PacketDecode and SendReceive, proved for every set of frames.           *)
(*                                                                         *)
(* First, of all frames: the types, that setters fit the class of their    *)
(* object, and that header and data stay within what was captured.  Then,  *)
(* of frames that are as the standards have them, where all headers were   *)
(* captured: the class of the object, its data and its IPv6 options are    *)
(* what the frame carries.  Last, of frames that jpcap sends: they are as  *)
(* the standards have them, their fields and data arrive, what the decoder *)
(* misreads is right on the wire, and the checksums are right.             *)
(***************************************************************************)
EXTENDS SendReceive, SequenceTheorems, WellFoundedInduction, TLAPS

-----------------------------------------------------------------------------
(* Numbers *)

\* The provers do not get the better of a range between numbers this large: its
\* ends stay names, whose values are known.
LEMMA Ends == MaxUShort = 65535 /\ MinShort = -32768 /\ MaxShort = 32767
  BY DEF MaxUShort, MinShort, MaxShort

LEMMA EndsAreInt == MaxUShort \in Int /\ MinShort \in Int /\ MaxShort \in Int
  BY DEF MaxUShort, MinShort, MaxShort

LEMMA ShortBounds == ASSUME NEW n \in Int PROVE n \in Short <=> -32768 <= n /\ n <= 32767
  <1>1. n \in Short <=> MinShort <= n /\ n <= MaxShort
    BY EndsAreInt DEF Short
  <1> QED
    BY <1>1, Ends

LEMMA UShortBounds == ASSUME NEW n \in Int PROVE n \in UShort <=> 0 <= n /\ n <= 65535
  <1>1. n \in UShort <=> 0 <= n /\ n <= MaxUShort
    BY EndsAreInt DEF UShort
  <1> QED
    BY <1>1, Ends

LEMMA ShortsAreInt == \A n : n \in Short \cup UShort => n \in Int
  BY EndsAreInt DEF Short, UShort

LEMMA ToShortRange == ASSUME NEW n \in Int PROVE ToShort(n) \in Short
  <1>1. ToShort(n) \in Int /\ -32768 <= ToShort(n) /\ ToShort(n) <= 32767
    BY DEF ToShort
  <1> QED
    BY <1>1, ShortBounds

\* A number that fits is kept, and one that does not is taken round once.
LEMMA ToShortKeeps ==
  ASSUME NEW n \in Int, -32768 <= n, n <= 32767 PROVE ToShort(n) = n
  BY DEF ToShort

LEMMA ToShortAbove ==
  ASSUME NEW n \in Int, 32768 <= n, n <= 98303 PROVE ToShort(n) = n - 65536
  BY DEF ToShort

LEMMA ToShortBelow ==
  ASSUME NEW n \in Int, -98304 <= n, n <= -32769 PROVE ToShort(n) = n + 65536
  BY DEF ToShort

LEMMA ToShortAtMost ==
  ASSUME NEW n \in Int, -32768 <= n, n <= 65535 PROVE ToShort(n) \in Int /\ ToShort(n) <= n
  BY DEF ToShort

-----------------------------------------------------------------------------
(* What is read from a frame *)

LEMMA FrameFacts ==
  ASSUME NEW f \in Frames
  PROVE  /\ f.octets \in Seq(Octet) /\ f.beyond \in Octet
         /\ f.caplen \in Int /\ 0 <= f.caplen /\ f.caplen <= 65535
         /\ f.caplen >= offset_data(f.link)
  <1>1. /\ f.octets \in Seq(Octet) /\ f.beyond \in Octet
        /\ f.caplen \in UShort /\ f.caplen >= offset_data(f.link)
    BY FramesAssumption
  <1>2. f.caplen \in Int
    BY <1>1, ShortsAreInt
  <1> QED
    BY <1>1, <1>2, UShortBounds

LEMMA CaplenType == \A f \in Frames : f.caplen \in Int
  BY FrameFacts

LEMMA OctetAtType == ASSUME NEW f \in Frames, NEW at \in Int PROVE OctetAt(f, at) \in Octet
  <1>1. f.octets \in Seq(Octet) /\ f.beyond \in Octet
    BY FrameFacts
  <1>2. CASE at + 1 \in 1..Len(f.octets)
    <2>1. f.octets[at + 1] \in Octet
      BY <1>1, <1>2
    <2> QED
      BY <1>2, <2>1 DEF OctetAt
  <1>3. CASE at + 1 \notin 1..Len(f.octets)
    BY <1>1, <1>3 DEF OctetAt
  <1> QED
    BY <1>2, <1>3

LEMMA WordAtType == ASSUME NEW f \in Frames, NEW at \in Int PROVE WordAt(f, at) \in UShort
  <1>1. OctetAt(f, at) \in Octet /\ OctetAt(f, at + 1) \in Octet
    BY OctetAtType
  <1>2. /\ OctetAt(f, at) \in Int /\ 0 <= OctetAt(f, at) /\ OctetAt(f, at) <= 255
        /\ OctetAt(f, at + 1) \in Int /\ 0 <= OctetAt(f, at + 1) /\ OctetAt(f, at + 1) <= 255
    BY <1>1 DEF Octet
  <1>3. WordAt(f, at) \in Int /\ 0 <= WordAt(f, at) /\ WordAt(f, at) <= 65535
    BY <1>2 DEF WordAt
  <1> QED
    BY <1>3, UShortBounds

LEMMA OffsetType == \A link : offset_data(link) \in {0, 14, 22}
  BY DEF offset_data, DLT_EN10MB, DLT_IEEE802

LEMMA ExtensionLengthType ==
  ASSUME NEW f \in Frames, NEW at \in Int, NEW p
  PROVE  ExtensionLength(f, at, p) \in Nat /\ RoutingAdvance(f, at, p) \in Nat
  <1>1. ip6e_len(f, at) \in Octet
    BY OctetAtType DEF ip6e_len
  <1> QED
    BY <1>1 DEF ExtensionLength, RoutingAdvance, Octet, IPPROTO_HOPOPTS, IPPROTO_DSTOPTS,
                IPPROTO_ROUTING, IPPROTO_AH

HeaderNumbers(f, at) ==
  /\ ip_hl(f, at) \in 0..15 /\ ip_p(f, at) \in Octet /\ ip6_nxt(f, at) \in Octet
  /\ th_off(f, at) \in 0..15 /\ ip6e_nxt(f, at) \in Octet
  /\ ArpLength(f, at) \in 8..1028

LEMMA HeaderLengths ==
  ASSUME NEW f \in Frames, NEW at \in Int PROVE HeaderNumbers(f, at)
  <1>1. \A k \in 0..12 : OctetAt(f, at + k) \in Octet
    BY OctetAtType
  <1>2. OctetAt(f, at) \in Octet
    BY OctetAtType
  <1>3. ip_hl(f, at) \in 0..15 /\ ip_p(f, at) \in Octet /\ ip6_nxt(f, at) \in Octet
    BY <1>1, <1>2 DEF ip_hl, ip_p, ip6_nxt, Octet
  <1>4. th_off(f, at) \in 0..15 /\ ip6e_nxt(f, at) \in Octet
    BY <1>1, <1>2 DEF th_off, ip6e_nxt, Octet
  <1>5. ArpLength(f, at) \in 8..1028
    <2>1. arp_hln(f, at) \in Octet /\ arp_pln(f, at) \in Octet
      BY <1>1 DEF arp_hln, arp_pln
    <2>2. \A m, n \in Octet : sizeof_arphdr + m * 2 + n * 2 \in 8..1028
      BY DEF Octet, sizeof_arphdr
    <2> QED
      BY <2>1, <2>2 DEF ArpLength
  <1> QED
    BY <1>3, <1>4, <1>5, Zenon DEF HeaderNumbers

\* The setter that each of the analyze functions calls.
LEMMA Setters ==
  ASSUME NEW f, NEW at, NEW c, NEW l, NEW r
  PROVE  /\ analyze_ip(f, at).by = "setIPv4Value" /\ Ip6Fields(f, at).by = "setIPv6Value"
         /\ analyze_arp(f, at).by = "ARPPacket" /\ analyze_tcp(f, at).by = "TCPPacket"
         /\ analyze_udp(f, at).by = "UDPPacket" /\ analyze_icmp(f, at, c, l, r).by = "ICMPPacket"
  BY DEF analyze_ip, Ip6Fields, analyze_arp, analyze_tcp, analyze_udp, analyze_icmp

LEMMA ClassOfFacts ==
  ASSUME NEW t, NEW n
  PROVE  /\ t = IPPROTO_TCP => ClassOf(t, n) = "TCPPacket"
         /\ t = IPPROTO_UDP => ClassOf(t, n) = "UDPPacket"
         /\ t = IPPROTO_ICMP => ClassOf(t, n) = "ICMPPacket"
         /\ n \in {ETHERTYPE_IP, ETHERTYPE_IPV6} => ClassOf(t, n) \in IPClasses
         /\ n = ETHERTYPE_ARP /\ t \notin {IPPROTO_TCP, IPPROTO_UDP, IPPROTO_ICMP}
              => ClassOf(t, n) = "ARPPacket"
         /\ ClassOf(t, n) \in IPClasses \cup {"ARPPacket", "Packet"}
  BY DEF ClassOf, IPClasses, IPPROTO_TCP, IPPROTO_UDP, IPPROTO_ICMP, ETHERTYPE_IP, ETHERTYPE_IPV6,
         ETHERTYPE_ARP, ETHERTYPE_REVARP
-----------------------------------------------------------------------------
(* The inductive invariant *)

\* The object is a record with all its fields.
PacketShape ==
  packet = [class |-> packet.class, datalink |-> packet.datalink, network |-> packet.network,
            options |-> packet.options, transport |-> packet.transport,
            header |-> packet.header, data |-> packet.data]

Transports == {IPPROTO_TCP, IPPROTO_UDP, IPPROTO_ICMP}

\* What is known of the protocols at each place: an ARP packet does not get to
\* the analysis with a transport protocol, set or not, for nothing is left of
\* the frame when it was not set.
ProtocolsInv ==
  /\ pc = "create" /\ nproto = ETHERTYPE_ARP => tproto = ETHERTYPE_ARP \/ clen <= 0
  /\ pc \in {"analyze", "clamp", "transport", "done"} /\ nproto = ETHERTYPE_ARP => tproto \notin Transports
  /\ pc = "walk" => nproto = ETHERTYPE_IPV6
  /\ pc = "options" => nproto = ETHERTYPE_IPV6

\* The object so far is the work of the setters of its two protocols.
ObjectInv ==
  /\ pc \in {"analyze", "options", "clamp", "transport", "done"} => packet.class = ClassOf(tproto, nproto)
  /\ pc \in {"frame", "link", "network", "walk", "create"} =>
       packet.network = NotSet /\ packet.options = <<>>
  /\ pc \notin {"done"} => packet.transport = NotSet
  /\ \/ packet.network = NotSet
     \/ packet.network.by = "setIPv4Value" /\ nproto = ETHERTYPE_IP
     \/ packet.network.by = "setIPv6Value" /\ nproto = ETHERTYPE_IPV6
     \/ packet.network.by = "ARPPacket" /\ nproto = ETHERTYPE_ARP
  /\ packet.options # <<>> => nproto = ETHERTYPE_IPV6
  /\ \/ packet.transport = NotSet
     \/ packet.transport.by = "TCPPacket" /\ tproto = IPPROTO_TCP
     \/ packet.transport.by = "UDPPacket" /\ tproto = IPPROTO_UDP
     \/ packet.transport.by = "ICMPPacket" /\ tproto = IPPROTO_ICMP

\* Where the second pass is: what is passed over and what is left make up no more
\* than the frame, also when the sum has been taken round.
PlaceInv ==
  /\ pc \in {"analyze", "options", "clamp"} => data = (IF nproto # UNKNOWN_PROTO THEN datalink_hlen ELSE 0)
  /\ pc = "clamp" /\ nproto = UNKNOWN_PROTO => hlen = 0 /\ clen = ToShort(frame.caplen)
  /\ pc = "transport" => data >= -32768
  /\ pc = "transport" /\ tproto # UNKNOWN_PROTO =>
       /\ data + clen <= frame.caplen
       /\ data + clen < -32768 => data + clen + 65536 <= frame.caplen

Inv ==
  /\ TypeOK /\ PacketShape
  /\ ProtocolsInv /\ ObjectInv /\ PlaceInv
  /\ WithinCapture

\* What the updates of the object leave it as.
LEMMA ClassFields ==
  ASSUME NEW x, NEW y, PacketShape
  PROVE  [packet EXCEPT !.class = x, !.datalink = y]
           = [class |-> x, datalink |-> y, network |-> packet.network, options |-> packet.options,
              transport |-> packet.transport, header |-> packet.header, data |-> packet.data]
  <1>1. PICK p1 : p1 = [packet EXCEPT !.class = x]
    OBVIOUS
  <1>2. p1 = [class |-> x, datalink |-> packet.datalink, network |-> packet.network, options |-> packet.options,
             transport |-> packet.transport, header |-> packet.header, data |-> packet.data]
    BY <1>1 DEF PacketShape
  <1>3. [p1 EXCEPT !.datalink = y]
         = [class |-> x, datalink |-> y, network |-> packet.network, options |-> packet.options,
            transport |-> packet.transport, header |-> packet.header, data |-> packet.data]
    BY <1>2
  <1>4. [packet EXCEPT !.class = x, !.datalink = y] = [p1 EXCEPT !.datalink = y]
    BY <1>1, Zenon
  <1> QED
    BY <1>3, <1>4

LEMMA OptionFields ==
  ASSUME NEW x, PacketShape
  PROVE  [packet EXCEPT !.options = x]
           = [class |-> packet.class, datalink |-> packet.datalink, network |-> packet.network, options |-> x,
              transport |-> packet.transport, header |-> packet.header, data |-> packet.data]
  BY DEF PacketShape

LEMMA TransportFields ==
  ASSUME NEW x, NEW y, NEW z, PacketShape
  PROVE  [packet EXCEPT !.transport = x, !.header = y, !.data = z]
           = [class |-> packet.class, datalink |-> packet.datalink, network |-> packet.network, options |-> packet.options,
              transport |-> x, header |-> y, data |-> z]
  <1>1. PICK p1 : p1 = [packet EXCEPT !.transport = x]
    OBVIOUS
  <1>2. p1 = [class |-> packet.class, datalink |-> packet.datalink, network |-> packet.network, options |-> packet.options,
             transport |-> x, header |-> packet.header, data |-> packet.data]
    BY <1>1 DEF PacketShape
  <1>3. PICK p2 : p2 = [p1 EXCEPT !.header = y]
    OBVIOUS
  <1>4. p2 = [class |-> packet.class, datalink |-> packet.datalink, network |-> packet.network, options |-> packet.options,
             transport |-> x, header |-> y, data |-> packet.data]
    BY <1>3, <1>2
  <1>5. [p2 EXCEPT !.data = z]
         = [class |-> packet.class, datalink |-> packet.datalink, network |-> packet.network, options |-> packet.options,
            transport |-> x, header |-> y, data |-> z]
    BY <1>4
  <1>6. [packet EXCEPT !.transport = x, !.header = y, !.data = z] = [p2 EXCEPT !.data = z]
    BY <1>1, <1>3, Zenon
  <1> QED
    BY <1>5, <1>6

\* What the steps that write several fields, or one of them out of its old
\* value, make of it.
LEMMA CreateObject ==
  ASSUME PacketShape, Create
  PROVE  packet' = [class |-> ClassOf(tproto', nproto),
                    datalink |-> analyze_datalink(frame, frame.link),
                    network |-> packet.network, options |-> packet.options,
                    transport |-> packet.transport, header |-> packet.header, data |-> packet.data]
  <1>1. packet' = [packet EXCEPT !.class = ClassOf(tproto', nproto),
                                 !.datalink = analyze_datalink(frame, frame.link)]
    BY Zenon DEF Create
  <1> QED
    BY <1>1, ClassFields

LEMMA OptionObject ==
  ASSUME PacketShape, OptionHeader
  PROVE  packet' = [class |-> packet.class, datalink |-> packet.datalink, network |-> packet.network,
                    options |-> Append(packet.options, IPv6Option(frame, ext, proto)),
                    transport |-> packet.transport, header |-> packet.header, data |-> packet.data]
  <1>1. packet' = [packet EXCEPT !.options = Append(packet.options, IPv6Option(frame, ext, proto))]
    BY Zenon DEF OptionHeader
  <1> QED
    BY <1>1, OptionFields

\* The rest of the step over an IPv6 option.
LEMMA OptionStep ==
  ASSUME OptionHeader
  PROVE  /\ hlen' = ToShort(hlen + ExtensionLength(frame, ext, proto))
         /\ ext' = ext + RoutingAdvance(frame, ext, proto) + ExtensionLength(frame, ext, proto)
         /\ proto' = ip6e_nxt(frame, ext)
         /\ UNCHANGED <<frame, pc, nproto, tproto, clen, dp, data>>
  BY Zenon DEF OptionHeader

LEMMA TransportObject ==
  ASSUME PacketShape, Transport
  PROVE  \E left, left2 :
           packet' = [class |-> packet.class, datalink |-> packet.datalink, network |-> packet.network,
                      options |-> packet.options, transport |-> TransportHeader(left, left2),
                      header |-> ToShort(data'), data |-> clen']
  <1>1. PICK left, left2 \in {ToShort(g) : g \in Garbage} :
          packet' = [packet EXCEPT !.transport = TransportHeader(left, left2),
                                   !.header = ToShort(data'), !.data = clen']
    BY Zenon DEF Transport
  <1>2. packet' = [class |-> packet.class, datalink |-> packet.datalink, network |-> packet.network,
                   options |-> packet.options, transport |-> TransportHeader(left, left2),
                   header |-> ToShort(data'), data |-> clen']
    BY <1>1, TransportFields
  <1> QED
    BY <1>2, Zenon

LEMMA Numbers ==
  ASSUME TypeOK
  PROVE  /\ frame \in Frames /\ datalink_hlen \in {0, 14, 22}
         /\ frame.caplen \in Int /\ 0 <= frame.caplen /\ frame.caplen <= 65535
         /\ frame.caplen >= datalink_hlen
         /\ clen \in Int /\ -32768 <= clen /\ clen <= 32767
         /\ hlen \in Int /\ -32768 <= hlen /\ hlen <= 32767
         /\ nproto \in Int /\ tproto \in Int /\ data \in Int /\ dp \in Nat /\ ext \in Int
  <1>1. frame \in Frames /\ nproto \in UShort /\ tproto \in UShort /\ clen \in Short /\ hlen \in Short
    BY DEF TypeOK
  <1>2. clen \in Int /\ hlen \in Int /\ nproto \in Int /\ tproto \in Int
    BY <1>1, ShortsAreInt
  <1>3. -32768 <= clen /\ clen <= 32767 /\ -32768 <= hlen /\ hlen <= 32767
    BY <1>1, <1>2, ShortBounds
  <1>4. data \in Int /\ dp \in Nat /\ ext \in Int
    BY DEF TypeOK
  <1> QED
    BY <1>1, <1>2, <1>3, <1>4, FrameFacts, OffsetType DEF datalink_hlen

\* Numbers that are constants of the code fit their variables.
LEMMA SmallNumbers ==
  /\ \A n \in 0..255 : n \in UShort
  /\ \A n \in 0..1028 : n \in Short
  /\ ETHERTYPE_IP \in UShort /\ ETHERTYPE_ARP \in UShort /\ UNKNOWN_PROTO \in UShort
  <1>1. \A n \in 0..255 : n \in Int /\ 0 <= n /\ n <= 65535
    OBVIOUS
  <1>2. \A n \in 0..1028 : n \in Int /\ -32768 <= n /\ n <= 32767
    OBVIOUS
  <1>3. /\ ETHERTYPE_IP \in Int /\ 0 <= ETHERTYPE_IP /\ ETHERTYPE_IP <= 65535
        /\ ETHERTYPE_ARP \in Int /\ 0 <= ETHERTYPE_ARP /\ ETHERTYPE_ARP <= 65535
        /\ UNKNOWN_PROTO \in Int /\ 0 <= UNKNOWN_PROTO /\ UNKNOWN_PROTO <= 65535
    BY DEF ETHERTYPE_IP, ETHERTYPE_ARP, UNKNOWN_PROTO
  <1> QED
    BY <1>1, <1>2, <1>3, ShortBounds, UShortBounds

\* The protocols that get_packet tells apart are different numbers.
LEMMA Distinct ==
  /\ ETHERTYPE_IP # ETHERTYPE_IPV6 /\ ETHERTYPE_IP # ETHERTYPE_ARP /\ ETHERTYPE_IPV6 # ETHERTYPE_ARP
  /\ UNKNOWN_PROTO \notin {ETHERTYPE_IP, ETHERTYPE_IPV6, ETHERTYPE_ARP}
  /\ UNKNOWN_PROTO \notin Transports /\ ETHERTYPE_ARP \notin Transports
  /\ IPPROTO_TCP # IPPROTO_UDP /\ IPPROTO_TCP # IPPROTO_ICMP /\ IPPROTO_UDP # IPPROTO_ICMP
  BY DEF ETHERTYPE_IP, ETHERTYPE_IPV6, ETHERTYPE_ARP, UNKNOWN_PROTO, Transports,
         IPPROTO_TCP, IPPROTO_UDP, IPPROTO_ICMP

\* The numbers of the headers that get_packet may read.
LEMMA LengthsRead ==
  ASSUME TypeOK
  PROVE  /\ HeaderNumbers(frame, datalink_hlen) /\ HeaderNumbers(frame, dp)
         /\ HeaderNumbers(frame, data) /\ HeaderNumbers(frame, ext)
  <1>1. frame \in Frames /\ datalink_hlen \in Int /\ dp \in Int /\ data \in Int /\ ext \in Int
    BY Numbers
  <1> QED
    BY <1>1, HeaderLengths, Zenon

LEMMA OptionNext == ASSUME TypeOK, OptionHeader PROVE proto' \in Octet
  <1>1. frame \in Frames /\ ext \in Int
    BY Numbers
  <1>2. ip6e_nxt(frame, ext) \in Octet
    BY <1>1, OctetAtType DEF ip6e_nxt
  <1> QED
    BY <1>2, OptionStep, Zenon

LEMMA InvInit == Init => Inv
  <1> SUFFICES ASSUME Init PROVE Inv
    OBVIOUS
  <1>1. 0 \in UShort /\ 0 \in Short /\ 0 \in Octet
    BY SmallNumbers DEF Octet
  <1>2. TypeOK
    BY <1>1 DEF Init, TypeOK, NoPacket
  <1>3. PacketShape /\ ObjectInv
    BY DEF Init, PacketShape, ObjectInv, NoPacket, NotSet
  <1>4. ProtocolsInv /\ PlaceInv /\ WithinCapture
    BY DEF Init, ProtocolsInv, PlaceInv, WithinCapture, Done
  <1> QED
    BY <1>2, <1>3, <1>4 DEF Inv

-----------------------------------------------------------------------------
(* Types: one step per action *)

LEMMA TypeStep == TypeOK /\ PacketShape /\ [Next]_vars => TypeOK' /\ PacketShape'
  <1> SUFFICES ASSUME TypeOK, PacketShape, [Next]_vars PROVE TypeOK' /\ PacketShape'
    OBVIOUS
  <1> USE Numbers, SmallNumbers
  <1>1. CASE NextFrame
    <2>1. frame' \in Frames
      BY <1>1 DEF NextFrame
    <2>a. frame'.caplen \in Int
      BY <2>1, CaplenType
    <2>2. clen' \in Short /\ tproto' \in UShort
      BY <1>1, <2>a, ToShortRange, DecodeAssumption DEF NextFrame
    <2>3. nproto' \in UShort /\ hlen' \in Short /\ proto' \in Octet
      BY <1>1 DEF NextFrame, Octet
    <2> QED
      BY <1>1, <2>1, <2>2, <2>3 DEF NextFrame, TypeOK, PacketShape, NoPacket
  <1>2. CASE Link
    <2>1. clen' \in Short
      BY <1>2, ToShortRange DEF Link, TypeOK
    <2>2. nproto' \in UShort
      <3>1. offset_type(frame.link) \in Int
        BY DEF offset_type
      <3>2. WordAt(frame, offset_type(frame.link)) \in UShort
        BY <3>1, WordAtType
      <3> QED
        BY <1>2, <3>2 DEF Link
    <2> QED
      BY <1>2, <2>1, <2>2 DEF Link, TypeOK, PacketShape
  <1>3. CASE NothingLeft
    BY <1>3 DEF NothingLeft, TypeOK, PacketShape
  <1>4. CASE FirstPassIP
    <2>1. ip_hl(frame, datalink_hlen) \in 0..15 /\ ip_p(frame, datalink_hlen) \in Octet
      BY ONLY TypeOK, LengthsRead, SMT DEF HeaderNumbers
    <2>2. clen' \in Short
      BY <1>4, <2>1, ToShortRange DEF FirstPassIP
    <2>3. tproto' \in UShort
      BY <1>4, <2>1 DEF FirstPassIP, Octet
    <2> QED
      BY <1>4, <2>2, <2>3 DEF FirstPassIP, TypeOK, PacketShape
  <1>5. CASE FirstPassIPv6
    <2>1. clen' \in Short
      BY <1>5, ToShortRange DEF FirstPassIPv6
    <2>2. ip6_nxt(frame, datalink_hlen) \in Octet
      BY ONLY TypeOK, LengthsRead, SMT DEF HeaderNumbers
    <2>3. tproto' \in UShort /\ dp' \in Nat
      BY <1>5, <2>2 DEF FirstPassIPv6, Octet, TypeOK
    <2> QED
      BY <1>5, <2>1, <2>3 DEF FirstPassIPv6, TypeOK, PacketShape
  <1>6. CASE WalkExtension
    <2>a. ip6e_nxt(frame, dp) \in Octet
      BY ONLY TypeOK, LengthsRead, SMT DEF HeaderNumbers
    <2>1. ExtensionLength(frame, dp, tproto) \in Nat /\ ip6e_nxt(frame, dp) \in Octet
      BY <2>a, ExtensionLengthType
    <2>2. clen' \in Short /\ dp' \in Nat
      BY <1>6, <2>1, ToShortRange DEF WalkExtension
    <2>3. tproto' \in UShort
      BY <1>6, <2>1 DEF WalkExtension, Octet
    <2> QED
      BY <1>6, <2>2, <2>3 DEF WalkExtension, TypeOK, PacketShape
  <1>7. CASE EndWalk
    BY <1>7 DEF EndWalk, TypeOK, PacketShape
  <1>8. CASE FirstPassARP
    <2>1. clen' \in Short
      BY <1>8, ToShortRange DEF FirstPassARP
    <2>2. tproto' \in UShort
      BY <1>8 DEF FirstPassARP, TypeOK
    <2> QED
      BY <1>8, <2>1, <2>2 DEF FirstPassARP, TypeOK, PacketShape
  <1>9. CASE FirstPassOther
    BY <1>9 DEF FirstPassOther, TypeOK, PacketShape
  <1>10. CASE Create
    <2>1. tproto' \in UShort /\ data' \in Int
      BY <1>10 DEF Create, TypeOK
    <2>3. /\ packet'.class = ClassOf(tproto', nproto)
          /\ packet'.header = packet.header /\ packet'.data = packet.data /\ PacketShape'
      BY <1>10, CreateObject DEF PacketShape
    <2> QED
      BY <1>10, <2>1, <2>3, ClassOfFacts DEF Create, TypeOK
  <1>11. CASE AnalyzeIP
    <2>1. WordAt(frame, data + 2) \in Int
      BY WordAtType, ShortsAreInt
    <2>2. clen' \in Short
      BY <1>11, <2>1, ToShortRange DEF AnalyzeIP
    <2>a. ip_hl(frame, data) \in 0..15
      BY ONLY TypeOK, LengthsRead, SMT DEF HeaderNumbers
    <2>3. hlen' \in Short
      BY <1>11, <2>a DEF AnalyzeIP
    <2>4. /\ packet'.class = packet.class /\ packet'.header = packet.header
          /\ packet'.data = packet.data /\ PacketShape'
      BY <1>11 DEF AnalyzeIP, PacketShape
    <2> QED
      BY <1>11, <2>2, <2>3, <2>4 DEF AnalyzeIP, TypeOK
  <1>12. CASE AnalyzeIPv6
    <2>1. ip6_plen(frame, data) \in Int
      BY WordAtType, ShortsAreInt DEF ip6_plen
    <2>2. ToShort(ip6_plen(frame, data)) + 40 \in Int
      BY <2>1, ToShortRange, ShortsAreInt
    <2>3. clen' \in Short
      BY <1>12, <2>2, ToShortRange DEF AnalyzeIPv6
    <2>4. hlen' \in Short
      BY <1>12 DEF AnalyzeIPv6
    <2>a. ip6_nxt(frame, data) \in Octet
      BY ONLY TypeOK, LengthsRead, SMT DEF HeaderNumbers
    <2>5. proto' \in Octet
      BY <1>12, <2>a DEF AnalyzeIPv6
    <2>6. ext' \in Int
      BY <1>12 DEF AnalyzeIPv6
    <2>7. /\ packet'.class = packet.class /\ packet'.header = packet.header
          /\ packet'.data = packet.data /\ PacketShape'
      BY <1>12 DEF AnalyzeIPv6, PacketShape
    <2> QED
      BY <1>12, <2>3, <2>4, <2>5, <2>6, <2>7 DEF AnalyzeIPv6, TypeOK
  <1>13. CASE OptionHeader
    <2>1. ExtensionLength(frame, ext, proto) \in Nat /\ RoutingAdvance(frame, ext, proto) \in Nat
      BY ExtensionLengthType
    <2>2. hlen' \in Short /\ ext' \in Int
      BY <1>13, <2>1, OptionStep, ToShortRange
    <2>3. proto' \in Octet
      BY <1>13, OptionNext
    <2>4. UNCHANGED <<frame, pc, nproto, tproto, clen, dp, data>>
      BY <1>13, OptionStep
    <2>5. /\ packet'.class = packet.class /\ packet'.header = packet.header
          /\ packet'.data = packet.data /\ PacketShape'
      BY <1>13, OptionObject DEF PacketShape
    <2> QED
      BY <2>2, <2>3, <2>4, <2>5 DEF TypeOK
  <1>14. CASE EndOptions
    BY <1>14 DEF EndOptions, TypeOK, PacketShape
  <1>15. CASE AnalyzeARP
    <2>1. ArpLength(frame, data) \in 8..1028
      BY ONLY TypeOK, LengthsRead, SMT DEF HeaderNumbers
    <2>2. clen' \in Short /\ hlen' \in Short
      BY <1>15, <2>1 DEF AnalyzeARP
    <2>3. /\ packet'.class = packet.class /\ packet'.header = packet.header
          /\ packet'.data = packet.data /\ PacketShape'
      BY <1>15 DEF AnalyzeARP, PacketShape
    <2> QED
      BY <1>15, <2>2, <2>3 DEF AnalyzeARP, TypeOK
  <1>16. CASE AnalyzeOther
    <2>1. clen' \in Short
      BY <1>16, ToShortRange DEF AnalyzeOther
    <2>2. hlen' \in Short
      BY <1>16 DEF AnalyzeOther
    <2> QED
      BY <1>16, <2>1, <2>2 DEF AnalyzeOther, TypeOK, PacketShape
  <1>17. CASE Clamp
    <2>1. ToShort(frame.caplen - datalink_hlen) \in Int
      BY ToShortRange, ShortsAreInt
    <2>2. clen' \in Short
      BY <1>17, <2>1, ToShortRange DEF Clamp
    <2>3. data' \in Int
      BY <1>17 DEF Clamp
    <2> QED
      BY <1>17, <2>2, <2>3 DEF Clamp, TypeOK, PacketShape
  <1>18. CASE Transport
    <2>a. th_off(frame, data) \in 0..15
      BY ONLY TypeOK, LengthsRead, SMT DEF HeaderNumbers
    <2>1. TransportLength \in 0..60
      BY <2>a DEF TransportLength, UDPHDRLEN, ICMPHDRLEN
    <2>2. /\ hlen' \in Int /\ -32768 <= hlen' /\ hlen' <= 32767
          /\ clen' \in Int /\ -32768 <= clen' /\ clen' <= 32767 /\ data' \in Int
      BY <1>18, <2>1 DEF Transport
    <2>3. hlen' \in Short /\ clen' \in Short
      BY <2>2, ShortBounds
    <2>4. /\ packet'.class = packet.class /\ packet'.header = ToShort(data')
          /\ packet'.data = clen' /\ PacketShape'
      BY <1>18, TransportObject DEF PacketShape
    <2>5. ToShort(data') \in Short
      BY <2>2, ToShortRange
    <2> QED
      BY <1>18, <2>2, <2>3, <2>4, <2>5 DEF Transport, TypeOK
  <1>19. CASE UNCHANGED vars
    BY <1>19 DEF vars, TypeOK, PacketShape
  <1> QED
    BY <1>1, <1>2, <1>3, <1>4, <1>5, <1>6, <1>7, <1>8, <1>9, <1>10, <1>11, <1>12, <1>13, <1>14,
       <1>15, <1>16, <1>17, <1>18, <1>19 DEF Next

-----------------------------------------------------------------------------
(* The two passes agree: one step per action that the part is about *)

\* The steps of the second pass after Create, which leave the protocols alone.
SecondPass ==
  \/ AnalyzeIP \/ AnalyzeIPv6 \/ AnalyzeARP \/ AnalyzeOther
  \/ OptionHeader \/ EndOptions \/ Clamp \/ Transport

LEMMA SecondPassFacts ==
  ASSUME SecondPass
  PROVE  /\ UNCHANGED <<frame, nproto, tproto>>
         /\ pc \in {"analyze", "options", "clamp", "transport"}
         /\ pc' \in {"options", "clamp", "transport", "done"}
         /\ pc' = "options" => nproto = ETHERTYPE_IPV6 \/ pc = "options"
         /\ pc' = "done" => Transport
  <1>1. CASE AnalyzeIP
    BY <1>1 DEF AnalyzeIP
  <1>2. CASE AnalyzeIPv6
    BY <1>2 DEF AnalyzeIPv6
  <1>3. CASE AnalyzeARP
    BY <1>3 DEF AnalyzeARP
  <1>4. CASE AnalyzeOther
    BY <1>4 DEF AnalyzeOther
  <1>5. CASE OptionHeader
    BY <1>5, OptionStep DEF OptionHeader
  <1>6. CASE EndOptions
    BY <1>6 DEF EndOptions
  <1>7. CASE Clamp
    BY <1>7 DEF Clamp
  <1>8. CASE Transport
    BY <1>8 DEF Transport
  <1> QED
    BY <1>1, <1>2, <1>3, <1>4, <1>5, <1>6, <1>7, <1>8 DEF SecondPass

LEMMA ProtocolsStep == TypeOK /\ ProtocolsInv /\ [Next]_vars => ProtocolsInv'
  <1> SUFFICES ASSUME TypeOK, ProtocolsInv, [Next]_vars PROVE ProtocolsInv'
    OBVIOUS
  <1>1. CASE NextFrame
    BY <1>1 DEF NextFrame, ProtocolsInv
  <1>2. CASE Link
    BY <1>2 DEF Link, ProtocolsInv
  <1>3. CASE NothingLeft
    BY <1>3 DEF NothingLeft, ProtocolsInv
  <1>4. CASE FirstPassIP
    BY <1>4, Distinct DEF FirstPassIP, ProtocolsInv
  <1>5. CASE FirstPassIPv6
    BY <1>5, Distinct DEF FirstPassIPv6, ProtocolsInv
  <1>6. CASE WalkExtension
    <2>1. pc = "walk" /\ pc' = "walk" /\ nproto' = nproto
      BY <1>6 DEF WalkExtension
    <2> QED
      BY <2>1 DEF ProtocolsInv
  <1>7. CASE EndWalk
    BY <1>7, Distinct DEF EndWalk, ProtocolsInv
  <1>8. CASE FirstPassARP
    <2>1. clen' > 0 \/ clen' <= 0
      <3>1. clen' \in Int
        BY <1>8, Numbers, ToShortRange, ShortsAreInt DEF FirstPassARP
      <3> QED
        BY <3>1
    <2> QED
      BY <1>8, <2>1 DEF FirstPassARP, ProtocolsInv
  <1>9. CASE FirstPassOther
    BY <1>9 DEF FirstPassOther, ProtocolsInv
  <1>10. CASE Create
    <2>1. pc = "create" /\ pc' = "analyze" /\ nproto' = nproto
          /\ tproto' = IF Truncated THEN UNKNOWN_PROTO ELSE tproto
      BY <1>10 DEF Create
    <2>2. tproto \in Transports /\ clen <= 0 => Truncated
      BY Numbers DEF Truncated, Transports, TCPHDRLEN, UDPHDRLEN, ICMPHDRLEN
    <2> QED
      BY <2>1, <2>2, Distinct DEF ProtocolsInv
  <1>11. CASE SecondPass
    <2>1. /\ nproto' = nproto /\ tproto' = tproto
          /\ pc \in {"analyze", "options", "clamp", "transport"}
          /\ pc' \in {"options", "clamp", "transport", "done"}
          /\ pc' = "options" => nproto = ETHERTYPE_IPV6 \/ pc = "options"
      BY <1>11, SecondPassFacts
    <2>2. /\ nproto = ETHERTYPE_ARP => tproto \notin Transports
          /\ pc = "options" => nproto = ETHERTYPE_IPV6
      BY <2>1, Distinct DEF ProtocolsInv
    <2> QED
      BY <2>1, <2>2, Zenon DEF ProtocolsInv
  <1>12. CASE UNCHANGED vars
    BY <1>12 DEF vars, ProtocolsInv
  <1> QED
    BY <1>1, <1>2, <1>3, <1>4, <1>5, <1>6, <1>7, <1>8, <1>9, <1>10, <1>11, <1>12 DEF Next, SecondPass

\* What an earlier step left of the object stays, but for the part of it that
\* its step is to set.
LEMMA ObjectStep == Inv /\ [Next]_vars => ObjectInv'
  <1> SUFFICES ASSUME Inv, [Next]_vars PROVE ObjectInv'
    OBVIOUS
  <1> USE DEF Inv
  <1>1. CASE NextFrame
    BY <1>1 DEF NextFrame, ObjectInv, NoPacket, NotSet
  <1>2. CASE Link
    BY <1>2 DEF Link, ObjectInv
  <1>3. CASE NothingLeft
    BY <1>3 DEF NothingLeft, ObjectInv
  <1>4. CASE FirstPassIP
    BY <1>4 DEF FirstPassIP, ObjectInv
  <1>5. CASE FirstPassIPv6
    BY <1>5 DEF FirstPassIPv6, ObjectInv
  <1>6. CASE WalkExtension
    <2>1. pc = "walk" /\ pc' = "walk" /\ nproto' = nproto /\ packet' = packet
      BY <1>6 DEF WalkExtension
    <2> QED
      BY <2>1 DEF ObjectInv
  <1>7. CASE EndWalk
    BY <1>7 DEF EndWalk, ObjectInv
  <1>8. CASE FirstPassARP
    BY <1>8 DEF FirstPassARP, ObjectInv
  <1>9. CASE FirstPassOther
    BY <1>9 DEF FirstPassOther, ObjectInv
  <1>10. CASE Create
    <2>1. /\ packet'.class = ClassOf(tproto', nproto') /\ packet'.network = packet.network
          /\ packet'.options = packet.options /\ packet'.transport = packet.transport
      BY <1>10, CreateObject DEF Create
    <2>2. pc = "create" /\ pc' = "analyze"
      BY <1>10 DEF Create
    <2> QED
      BY <2>1, <2>2 DEF ObjectInv
  <1>11. CASE AnalyzeIP
    <2>1. /\ packet'.class = packet.class /\ packet'.network = analyze_ip(frame, data)
          /\ packet'.options = packet.options /\ packet'.transport = packet.transport
      BY <1>11 DEF AnalyzeIP, PacketShape
    <2> QED
      BY <1>11, <2>1, Setters DEF AnalyzeIP, ObjectInv
  <1>12. CASE AnalyzeIPv6
    <2>1. /\ packet'.class = packet.class /\ packet'.network = Ip6Fields(frame, data)
          /\ packet'.options = packet.options /\ packet'.transport = packet.transport
      BY <1>12 DEF AnalyzeIPv6, PacketShape
    <2> QED
      BY <1>12, <2>1, Setters DEF AnalyzeIPv6, ObjectInv
  <1>13. CASE OptionHeader
    <2>1. /\ packet'.class = packet.class /\ packet'.network = packet.network
          /\ packet'.transport = packet.transport
      BY <1>13, OptionObject
    <2>2. pc = "options" /\ pc' = "options" /\ nproto' = nproto /\ tproto' = tproto
      BY <1>13, OptionStep DEF OptionHeader
    <2> QED
      BY <2>1, <2>2 DEF ObjectInv, ProtocolsInv
  <1>14. CASE EndOptions
    BY <1>14 DEF EndOptions, ObjectInv
  <1>15. CASE AnalyzeARP
    <2>1. /\ packet'.class = packet.class /\ packet'.network = analyze_arp(frame, data)
          /\ packet'.options = packet.options /\ packet'.transport = packet.transport
      BY <1>15 DEF AnalyzeARP, PacketShape
    <2> QED
      BY <1>15, <2>1, Setters DEF AnalyzeARP, ObjectInv
  <1>16. CASE AnalyzeOther
    BY <1>16 DEF AnalyzeOther, ObjectInv
  <1>17. CASE Clamp
    BY <1>17 DEF Clamp, ObjectInv
  <1>18. CASE Transport
    <2>1. PICK left, left2 :
            /\ packet'.class = packet.class /\ packet'.network = packet.network
            /\ packet'.options = packet.options
            /\ packet'.transport = TransportHeader(left, left2)
      BY <1>18, TransportObject
    <2>2. pc = "transport" /\ pc' = "done" /\ nproto' = nproto /\ tproto' = tproto
      BY <1>18 DEF Transport
    <2>3. \/ packet'.transport = NotSet
          \/ packet'.transport.by = "TCPPacket" /\ tproto = IPPROTO_TCP
          \/ packet'.transport.by = "UDPPacket" /\ tproto = IPPROTO_UDP
          \/ packet'.transport.by = "ICMPPacket" /\ tproto = IPPROTO_ICMP
      <3>1. CASE tproto = IPPROTO_TCP
        BY <2>1, <3>1, Setters DEF TransportHeader
      <3>2. CASE tproto = IPPROTO_UDP
        BY <2>1, <3>2, Setters, Distinct DEF TransportHeader
      <3>3. CASE tproto = IPPROTO_ICMP
        BY <2>1, <3>3, Setters, Distinct DEF TransportHeader
      <3>4. CASE tproto \notin Transports
        BY <2>1, <3>4 DEF TransportHeader, Transports
      <3> QED
        BY <3>1, <3>2, <3>3, <3>4 DEF Transports
    <2> QED
      BY <2>1, <2>2, <2>3 DEF ObjectInv
  <1>19. CASE UNCHANGED vars
    BY <1>19 DEF vars, ObjectInv
  <1> QED
    BY <1>1, <1>2, <1>3, <1>4, <1>5, <1>6, <1>7, <1>8, <1>9, <1>10, <1>11, <1>12, <1>13, <1>14,
       <1>15, <1>16, <1>17, <1>18, <1>19 DEF Next

-----------------------------------------------------------------------------
(* Header and data stay within the frame *)

\* What is left of a length c after a header of length h: both together are the
\* length, or it has been taken round.
LEMMA LengthLeft ==
  ASSUME NEW c \in Int, NEW h \in Int,
         -32768 <= c, c <= 32767, -32768 <= h, h <= 32767
  PROVE  \/ ToShort(c - h) = c - h
         \/ ToShort(c - h) = c - h - 65536
         \/ ToShort(c - h) = c - h + 65536 /\ c < 0
  <1>1. CASE -32768 <= c - h /\ c - h <= 32767
    BY <1>1, ToShortKeeps
  <1>2. CASE 32768 <= c - h
    BY <1>2, ToShortAbove
  <1>3. CASE c - h <= -32769
    BY <1>3, ToShortBelow
  <1> QED
    BY <1>1, <1>2, <1>3

\* A short of what was captured is what was captured, or it has been taken round.
LEMMA ShortOfCaptured ==
  ASSUME NEW m \in Int, 0 <= m, m <= 65535
  PROVE  /\ ToShort(m) \in Int /\ -32768 <= ToShort(m) /\ ToShort(m) <= 32767
         /\ ToShort(m) <= m
         /\ ToShort(m) < 0 => ToShort(m) + 65536 = m
  <1>1. CASE m <= 32767
    <2>1. ToShort(m) = m
      BY <1>1, ToShortKeeps
    <2> QED
      BY <1>1, <2>1
  <1>2. CASE 32768 <= m
    <2>1. ToShort(m) = m - 65536
      BY <1>2, ToShortAbove
    <2> QED
      BY <1>2, <2>1
  <1> QED
    BY <1>1, <1>2

LEMMA ClampPlace ==
  ASSUME TypeOK, PlaceInv, Clamp
  PROVE  /\ data' >= -32768
         /\ tproto # UNKNOWN_PROTO =>
              /\ data' + clen' <= frame.caplen
              /\ data' + clen' < -32768 => data' + clen' + 65536 <= frame.caplen
  <1> DEFINE captured == frame.caplen - datalink_hlen
             cut == nproto # UNKNOWN_PROTO /\ tproto # UNKNOWN_PROTO /\ UnsignedGreater(clen, captured)
             c == IF cut THEN ToShort(captured) ELSE clen
  <1>1. /\ pc = "clamp" /\ data' = data + hlen
        /\ clen' = ToShort(c - hlen)
    BY DEF Clamp
  <1>2. /\ datalink_hlen \in Int /\ 0 <= datalink_hlen /\ datalink_hlen <= 22
        /\ frame.caplen \in Int /\ 0 <= frame.caplen /\ frame.caplen <= 65535
        /\ datalink_hlen <= frame.caplen
        /\ clen \in Int /\ -32768 <= clen /\ clen <= 32767
        /\ hlen \in Int /\ -32768 <= hlen /\ hlen <= 32767
    BY Numbers
  <1>3. data = IF nproto # UNKNOWN_PROTO THEN datalink_hlen ELSE 0
    BY <1>1 DEF PlaceInv
  <1>4. data' >= -32768
    BY <1>1, <1>2, <1>3
  <1>5. captured \in Int /\ 0 <= captured /\ captured <= 65535 /\ captured + datalink_hlen = frame.caplen
    BY <1>2
  <1>6. ASSUME tproto # UNKNOWN_PROTO, nproto # UNKNOWN_PROTO
        PROVE  /\ c \in Int /\ -32768 <= c /\ c <= 32767
               /\ c <= captured /\ (c < 0 => c + 65536 = captured)
    <2>1. CASE cut
      <3>1. c = ToShort(captured)
        BY <2>1
      <3> HIDE DEF captured, cut, c
      <3> QED
        BY <1>5, <3>1, ShortOfCaptured
    <2>2. CASE ~cut
      <3>1. c = clen
        BY <2>2
      <3>2. ~UnsignedGreater(clen, captured)
        BY <1>6, <2>2
      <3> HIDE DEF captured, cut, c
      <3>3. 0 <= clen /\ clen <= captured
        BY <1>2, <1>5, <3>2 DEF UnsignedGreater
      <3> QED
        BY <1>2, <3>1, <3>3
    <2> QED
      BY <2>1, <2>2
  <1>7. ASSUME tproto # UNKNOWN_PROTO, nproto # UNKNOWN_PROTO
        PROVE  /\ data' + clen' <= frame.caplen
               /\ data' + clen' < -32768 => data' + clen' + 65536 <= frame.caplen
    <2>1. data' = datalink_hlen + hlen /\ clen' = ToShort(c - hlen)
      BY <1>1, <1>3, <1>7
    <2>2. /\ c \in Int /\ -32768 <= c /\ c <= 32767
          /\ c <= captured /\ (c < 0 => c + 65536 = captured)
      BY <1>6, <1>7
    <2> HIDE DEF captured, cut, c
    <2>3. \/ clen' = c - hlen
          \/ clen' = c - hlen - 65536
          \/ clen' = c - hlen + 65536 /\ c < 0
      BY <1>2, <2>1, <2>2, LengthLeft
    <2> QED
      BY <1>2, <1>5, <2>1, <2>2, <2>3
  <1>8. ASSUME nproto = UNKNOWN_PROTO
        PROVE  /\ data' + clen' <= frame.caplen
               /\ data' + clen' < -32768 => data' + clen' + 65536 <= frame.caplen
    <2>1. hlen = 0 /\ clen = ToShort(frame.caplen) /\ data = 0
      BY <1>1, <1>3, <1>8 DEF PlaceInv
    <2>2. c = clen
      BY <1>8
    <2> HIDE DEF captured, cut, c
    <2>3. clen' = clen
      BY <1>1, <1>2, <2>1, <2>2, ToShortKeeps
    <2>4. clen <= frame.caplen
      BY <1>2, <2>1, ShortOfCaptured
    <2> QED
      BY <1>1, <1>2, <2>1, <2>3, <2>4
  <1> QED
    BY <1>4, <1>7, <1>8

LEMMA TransportWithin ==
  ASSUME TypeOK, PacketShape, PlaceInv, Transport, tproto # UNKNOWN_PROTO
  PROVE  packet'.data >= 0 /\ packet'.header + packet'.data <= frame.caplen
  <1>1. /\ pc = "transport"
        /\ hlen' = IF TransportLength > clen THEN clen ELSE TransportLength
        /\ clen' = clen - hlen' /\ data' = data + hlen'
    BY Zenon DEF Transport
  <1>2. packet'.header = ToShort(data') /\ packet'.data = clen'
    BY TransportObject
  <1>a. th_off(frame, data) \in 0..15
    BY ONLY TypeOK, LengthsRead, SMT DEF HeaderNumbers
  <1>3. TransportLength \in Int /\ 0 <= TransportLength
    BY <1>a DEF TransportLength, UDPHDRLEN, ICMPHDRLEN
  <1>4. /\ frame.caplen \in Int /\ 0 <= frame.caplen /\ frame.caplen <= 65535
        /\ clen \in Int /\ -32768 <= clen /\ clen <= 32767 /\ data \in Int
    BY Numbers
  <1>5. /\ data >= -32768 /\ data + clen <= frame.caplen
        /\ data + clen < -32768 => data + clen + 65536 <= frame.caplen
    BY <1>1 DEF PlaceInv
  <1>6. CASE TransportLength > clen
    <2>1. clen' = 0 /\ data' = data + clen
      BY <1>1, <1>3, <1>4, <1>6
    <2>2. ToShort(data + clen) <= frame.caplen
      <3>1. CASE data + clen < -32768
        <4>1. ToShort(data + clen) = data + clen + 65536
          BY <1>4, <1>5, <3>1, ToShortBelow
        <4> QED
          BY <1>5, <3>1, <4>1
      <3>2. CASE -32768 <= data + clen /\ data + clen <= 32767
        BY <1>4, <1>5, <3>2, ToShortKeeps
      <3>3. CASE 32768 <= data + clen
        <4>1. ToShort(data + clen) = data + clen - 65536
          BY <1>4, <1>5, <3>3, ToShortAbove
        <4> QED
          BY <1>4, <1>5, <4>1
      <3> QED
        BY <1>4, <3>1, <3>2, <3>3
    <2>3. ToShort(data + clen) \in Int
      BY <1>4, ToShortRange, ShortsAreInt
    <2> QED
      BY <1>2, <2>1, <2>2, <2>3
  <1>7. CASE ~(TransportLength > clen)
    <2>1. clen' = clen - TransportLength /\ data' = data + TransportLength
      BY <1>1, <1>3, <1>4, <1>7
    <2>2. /\ clen' \in Int /\ 0 <= clen' /\ data' \in Int /\ -32768 <= data'
          /\ data' + clen' <= frame.caplen
      BY <1>3, <1>4, <1>5, <1>7, <2>1
    <2>3. data' <= 65535
      BY <1>4, <2>2
    <2>4. ToShort(data') \in Int /\ ToShort(data') <= data'
      BY <2>2, <2>3, ToShortAtMost
    <2> QED
      BY <1>2, <1>4, <2>2, <2>4
  <1> QED
    BY <1>3, <1>4, <1>6, <1>7

LEMMA PlaceStep == Inv /\ [Next]_vars => PlaceInv'
  <1> SUFFICES ASSUME Inv, [Next]_vars PROVE PlaceInv'
    OBVIOUS
  <1>0. TypeOK /\ PlaceInv /\ ProtocolsInv
    BY DEF Inv
  <1>1. CASE pc' \notin {"analyze", "options", "clamp", "transport"}
    BY <1>1 DEF PlaceInv
  <1>2. CASE Create
    <2>1. /\ pc' = "analyze" /\ nproto' = nproto /\ frame' = frame
          /\ data' = IF nproto # UNKNOWN_PROTO THEN datalink_hlen ELSE 0
      BY <1>2 DEF Create
    <2> QED
      BY <2>1 DEF PlaceInv, datalink_hlen
  <1>3. CASE AnalyzeIP \/ AnalyzeIPv6 \/ AnalyzeARP
    <2>1. /\ pc = "analyze" /\ pc' \in {"options", "clamp"} /\ nproto # UNKNOWN_PROTO
          /\ UNCHANGED <<frame, nproto, data>>
      BY <1>3, Distinct DEF AnalyzeIP, AnalyzeIPv6, AnalyzeARP
    <2> QED
      BY <1>0, <2>1 DEF PlaceInv, datalink_hlen
  <1>4. CASE AnalyzeOther
    <2>1. /\ pc = "analyze" /\ pc' = "clamp" /\ hlen' = 0
          /\ nproto = UNKNOWN_PROTO => clen' = ToShort(frame.caplen)
          /\ UNCHANGED <<frame, nproto, data>>
      BY <1>4 DEF AnalyzeOther
    <2> QED
      BY <1>0, <2>1 DEF PlaceInv, datalink_hlen
  <1>5. CASE OptionHeader
    <2>1. pc = "options" /\ pc' = "options" /\ UNCHANGED <<frame, nproto, data>>
      BY <1>5, OptionStep DEF OptionHeader
    <2> QED
      BY <1>0, <2>1 DEF PlaceInv, datalink_hlen
  <1>6. CASE EndOptions
    <2>1. pc = "options" /\ pc' = "clamp" /\ UNCHANGED <<frame, nproto, data>>
      BY <1>6 DEF EndOptions
    <2> QED
      BY <1>0, <2>1, Distinct DEF PlaceInv, ProtocolsInv, datalink_hlen
  <1>7. CASE Clamp
    <2>1. pc' = "transport" /\ frame' = frame /\ tproto' = tproto
      BY <1>7 DEF Clamp
    <2> QED
      BY <1>0, <1>7, <2>1, ClampPlace DEF PlaceInv
  <1>8. CASE UNCHANGED vars
    BY <1>0, <1>8 DEF vars, PlaceInv, datalink_hlen
  <1>9. CASE ~SecondPass /\ ~Create /\ ~UNCHANGED vars
    <2>1. NextFrame \/ Link \/ NothingLeft \/ FirstPassIP \/ FirstPassIPv6 \/ FirstPassARP
          \/ FirstPassOther \/ WalkExtension \/ EndWalk
      BY <1>9 DEF Next, SecondPass
    <2>2. pc' \in {"link", "network", "create", "walk"}
      BY <2>1 DEF NextFrame, Link, NothingLeft, FirstPassIP, FirstPassIPv6, FirstPassARP,
                  FirstPassOther, WalkExtension, EndWalk
    <2> QED
      BY <1>1, <2>2
  <1>10. CASE Transport
    <2>1. pc' = "done"
      BY <1>10 DEF Transport
    <2> QED
      BY <1>1, <2>1
  <1> QED
    BY <1>2, <1>3, <1>4, <1>5, <1>6, <1>7, <1>8, <1>9, <1>10 DEF SecondPass

LEMMA WithinStep == Inv /\ [Next]_vars => WithinCapture'
  <1> SUFFICES ASSUME Inv, [Next]_vars PROVE WithinCapture'
    OBVIOUS
  <1>0. TypeOK /\ PacketShape /\ PlaceInv /\ WithinCapture
    BY DEF Inv
  <1>1. CASE Transport
    <2>1. frame' = frame /\ tproto' = tproto
      BY <1>1 DEF Transport
    <2> QED
      BY <1>0, <1>1, <2>1, TransportWithin DEF WithinCapture
  <1>2. CASE UNCHANGED vars
    BY <1>0, <1>2 DEF vars, WithinCapture, Done
  <1>3. CASE ~Transport /\ ~UNCHANGED vars
    <2>1. CASE SecondPass
      BY <1>3, <2>1, SecondPassFacts DEF WithinCapture, Done
    <2>2. CASE ~SecondPass
      <3>1. NextFrame \/ Link \/ NothingLeft \/ FirstPassIP \/ FirstPassIPv6 \/ FirstPassARP
            \/ FirstPassOther \/ WalkExtension \/ EndWalk \/ Create
        BY <1>3, <2>2 DEF Next, SecondPass
      <3>2. pc' \in {"link", "network", "create", "walk", "analyze"}
        BY <3>1 DEF NextFrame, Link, NothingLeft, FirstPassIP, FirstPassIPv6, FirstPassARP,
                    FirstPassOther, WalkExtension, EndWalk, Create
      <3> QED
        BY <3>2 DEF WithinCapture, Done
    <2> QED
      BY <2>1, <2>2
  <1> QED
    BY <1>1, <1>2, <1>3

-----------------------------------------------------------------------------
(* The theorems *)

LEMMA InvNext == Inv /\ [Next]_vars => Inv'
  BY TypeStep, ProtocolsStep, ObjectStep, PlaceStep, WithinStep DEF Inv

LEMMA InvAlways == Spec => []Inv
  BY InvInit, InvNext, PTL DEF Spec

\* The shorts of get_packet keep their range, and the object has one of the
\* classes of jpcap.packet, whatever the frames hold.
THEOREM Types == Spec => []TypeOK
  <1>1. Inv => TypeOK
    BY DEF Inv
  <1> QED
    BY <1>1, InvAlways, PTL

LEMMA InvFits == Inv => MethodsFitClass
  <1> SUFFICES ASSUME Inv PROVE MethodsFitClass
    OBVIOUS
  <1>1. ObjectInv /\ ProtocolsInv /\ TypeOK
    BY DEF Inv
  <1>2. CASE pc \in {"frame", "link", "network", "walk", "create"}
    BY <1>1, <1>2 DEF ObjectInv, MethodsFitClass, NotSet
  <1>3. CASE pc \in {"analyze", "options", "clamp", "transport", "done"}
    <2>1. packet.class = ClassOf(tproto, nproto)
      BY <1>1, <1>3 DEF ObjectInv
    <2>2. packet.network.by \in {"setIPv4Value", "setIPv6Value"} => packet.class \in IPClasses
      BY <1>1, <2>1, ClassOfFacts DEF ObjectInv, NotSet
    <2>3. packet.network.by = "ARPPacket" => packet.class = "ARPPacket"
      <3>1. nproto = ETHERTYPE_ARP => tproto \notin Transports
        BY <1>1, <1>3, Distinct DEF ProtocolsInv
      <3> QED
        BY <1>1, <2>1, <3>1, ClassOfFacts DEF ObjectInv, NotSet, Transports
    <2>4. packet.options # <<>> => packet.class \in IPClasses
      BY <1>1, <2>1, ClassOfFacts DEF ObjectInv
    <2>5. packet.transport # NotSet => packet.class = packet.transport.by
      BY <1>1, <2>1, ClassOfFacts DEF ObjectInv
    <2> QED
      BY <2>2, <2>3, <2>4, <2>5 DEF MethodsFitClass
  <1> QED
    BY <1>1, <1>2, <1>3 DEF TypeOK

\* Setters are only called on objects that have them: the pass that chose the
\* class and the pass that reads the headers agree on every frame.
THEOREM SettersFit == Spec => []MethodsFitClass
  BY InvAlways, InvFits, PTL

\* An object whose transport protocol is known has no more header and data than
\* was captured, for every frame of up to 65535 octets.
THEOREM StaysWithin == Spec => []WithinCapture
  <1>1. Inv => WithinCapture
    BY DEF Inv
  <1> QED
    BY <1>1, InvAlways, PTL

-----------------------------------------------------------------------------
(* Numbers of a well-formed frame *)

LEMMA ToByteKeeps == ASSUME NEW n \in Int, 0 <= n, n <= 127 PROVE ToByte(n) = n
  BY DEF ToByte

\* An option has the type and the length of its header, which are not among the
\* fields that depend on the type.
LEMMA OptionRecord ==
  ASSUME NEW f, NEW at, NEW p,
         IsExtension(p), p # IPPROTO_ROUTING
  PROVE  /\ IPv6Option(f, at, p).type = p
         /\ IPv6Option(f, at, p).hlen = ToByte(ip6e_len(f, at))
  BY DEF IPv6Option, IsExtension, IPPROTO_HOPOPTS, IPPROTO_DSTOPTS, IPPROTO_ROUTING, IPPROTO_AH,
         IPPROTO_FRAGMENT

\* The lengths of a well-formed frame are those of a short, and its headers are
\* no longer than what there is of it.
LEMMA LayoutNumbers ==
  ASSUME NEW f \in Frames, WellFormed(f)
  PROVE  /\ Start(f) \in {0, 14, 22}
         /\ f.caplen \in Int /\ 0 <= f.caplen /\ f.caplen <= 32767
         /\ Captured(f) \in Int /\ Captured(f) = f.caplen - Start(f) /\ 0 <= Captured(f)
         /\ PacketLength(f) \in Int /\ PacketLength(f) <= 32767
         /\ NetworkHeader(f) \in Int /\ 0 <= NetworkHeader(f)
         /\ CarriedHeader(f) \in Int /\ 0 <= CarriedHeader(f)
         /\ NetworkHeader(f) + CarriedHeader(f) <= PacketLength(f)
         /\ NetworkHeader(f) + CarriedHeader(f) <= Captured(f)
  <1>1. /\ Start(f) \in {0, 14, 22} /\ f.caplen \in Int /\ 0 <= f.caplen
        /\ f.caplen >= Start(f)
    BY FrameFacts, OffsetType DEF Start
  <1>2. HeadersFit(f)
    BY DEF WellFormed
  <1>3. f.caplen <= 32767 /\ PacketLength(f) <= 32767
    BY <1>2, Ends DEF HeadersFit
  <1>4. Captured(f) \in Int /\ Captured(f) = f.caplen - Start(f) /\ 0 <= Captured(f)
    BY <1>1 DEF Captured
  <1>5. /\ NetworkHeader(f) + CarriedHeader(f) <= PacketLength(f)
        /\ NetworkHeader(f) + CarriedHeader(f) <= Captured(f)
    BY <1>2 DEF HeadersFit
  <1>6. Start(f) \in Int
    BY <1>1
  <1>7. WordAt(f, Start(f) + 2) \in Int /\ ip6_plen(f, Start(f)) \in Int
    BY <1>6, WordAtType, ShortsAreInt DEF ip6_plen
  <1>8. ip_hl(f, Start(f)) \in 0..15 /\ ArpLength(f, Start(f)) \in 8..1028
    <2>n. HeaderNumbers(f, Start(f))
      BY <1>6, HeaderLengths, Zenon
    <2> QED
      BY ONLY <2>n, SMT DEF HeaderNumbers
  <1>9. PacketLength(f) \in Int
    BY <1>4, <1>7, <1>8 DEF PacketLength
  <1>10. EtherType(f) = ETHERTYPE_IPV6 =>
           /\ f.places[Extensions(f) + 1] \in Int
           /\ f.places[Extensions(f) + 1] >= Start(f) + 40
    <2>1. SUFFICES ASSUME EtherType(f) = ETHERTYPE_IPV6
                   PROVE  /\ f.places[Extensions(f) + 1] \in Int
                          /\ f.places[Extensions(f) + 1] >= Start(f) + 40
      OBVIOUS
    <2>2. /\ f.places \in Seq(Nat) /\ f.places # <<>>
          /\ \A i \in 1..Len(f.places) : Start(f) + 40 <= f.places[i]
      BY <2>1 DEF WellFormed, IPv6Layout
    <2>3. Len(f.places) \in Nat /\ Len(f.places) >= 1 /\ Extensions(f) + 1 = Len(f.places)
      BY <2>2, EmptySeq DEF Extensions
    <2>4. Extensions(f) + 1 \in 1..Len(f.places)
      BY <2>3
    <2> QED
      BY <2>2, <2>4
  <1>11. NetworkHeader(f) \in Int /\ 0 <= NetworkHeader(f)
    BY <1>6, <1>8, <1>10 DEF NetworkHeader
  <1>12. CarriedHeader(f) \in Int /\ 0 <= CarriedHeader(f)
    <2>1. th_off(f, Start(f) + NetworkHeader(f)) \in 0..15
      <3>1. Start(f) + NetworkHeader(f) \in Int
        BY <1>6, <1>11
      <3>2. HeaderNumbers(f, Start(f) + NetworkHeader(f))
        BY <3>1, HeaderLengths, Zenon
      <3> QED
        BY ONLY <3>2, SMT DEF HeaderNumbers
    <2> QED
      BY <2>1 DEF CarriedHeader, UDPHDRLEN, ICMPHDRLEN
  <1> QED
    BY <1>1, <1>3, <1>4, <1>5, <1>9, <1>11, <1>12

\* What is behind the headers.
LEMMA LayoutPayload ==
  ASSUME NEW f \in Frames, WellFormed(f)
  PROVE  /\ f.payload.at = Start(f) + (NetworkHeader(f) + CarriedHeader(f))
         /\ f.payload.len = Least(PacketLength(f), Captured(f)) - (NetworkHeader(f) + CarriedHeader(f))
  BY DEF WellFormed, HeadersFit

\* A protocol is carried whole.
LEMMA LayoutCarried ==
  ASSUME NEW f \in Frames, WellFormed(f)
  PROVE  /\ CarriedProtocol(f) = IPPROTO_TCP => CarriedHeader(f) >= TCPHDRLEN
         /\ CarriedProtocol(f) = IPPROTO_UDP => CarriedHeader(f) = UDPHDRLEN
         /\ CarriedProtocol(f) = IPPROTO_ICMP => CarriedHeader(f) = ICMPHDRLEN
         /\ CarriedProtocol(f) \notin Transports => CarriedHeader(f) = 0
  <1>1. CarriedProtocol(f) = IPPROTO_TCP => CarriedHeader(f) >= TCPHDRLEN
    BY DEF WellFormed, HeadersFit
  <1> QED
    BY <1>1, Distinct DEF CarriedHeader, Transports

LEMMA LayoutOfIP ==
  ASSUME NEW f \in Frames, WellFormed(f), EtherType(f) = ETHERTYPE_IP
  PROVE  /\ NetworkHeader(f) = ip_hl(f, Start(f)) * 4 /\ NetworkHeader(f) >= 20
         /\ PacketLength(f) = WordAt(f, Start(f) + 2)
         /\ CarriedProtocol(f) = IF ip_off(f, Start(f)) % 8192 = 0
                                   THEN ip_p(f, Start(f)) ELSE IPPROTO_NONE
         /\ f.extensions = <<>>
  <1>1. IPv4Layout(f)
    BY DEF WellFormed
  <1>2. NetworkHeader(f) >= 20 /\ f.extensions = <<>>
    BY <1>1 DEF IPv4Layout, IPv4HDRLEN
  <1>3. NetworkHeader(f) = ip_hl(f, Start(f)) * 4
    BY Distinct DEF NetworkHeader
  <1>4. PacketLength(f) = WordAt(f, Start(f) + 2)
    BY Distinct DEF PacketLength
  <1>5. CarriedProtocol(f) = IF ip_off(f, Start(f)) % 8192 = 0
                               THEN ip_p(f, Start(f)) ELSE IPPROTO_NONE
    BY Distinct DEF CarriedProtocol
  <1> QED
    BY <1>2, <1>3, <1>4, <1>5

LEMMA LayoutOfIPv6 ==
  ASSUME NEW f \in Frames, WellFormed(f), EtherType(f) = ETHERTYPE_IPV6
  PROVE  /\ Extensions(f) \in Nat /\ f.places \in Seq(Nat) /\ Len(f.places) = Extensions(f) + 1
         /\ f.places[1] = Start(f) + 40
         /\ \A i \in 1..Len(f.places) :
              f.places[i] \in Int /\ Start(f) + 40 <= f.places[i] /\ f.places[i] <= f.caplen
         /\ NetworkHeader(f) = f.places[Extensions(f) + 1] - Start(f) /\ NetworkHeader(f) >= 40
         /\ PacketLength(f) = 40 + ip6_plen(f, Start(f))
         /\ CarriedProtocol(f) = NextHeader(f, Extensions(f) + 1)
         /\ ~IsExtension(NextHeader(f, Extensions(f) + 1))
         /\ Extensions(f) > 0 => CarriedProtocol(f) \notin Transports
         /\ \A i \in 1..Extensions(f) : IsExtension(NextHeader(f, i))
         /\ f.extensions = ChainOf(f, Extensions(f))
  <1>1. IPv6Layout(f)
    BY DEF WellFormed
  <1>2. f.places \in Seq(Nat) /\ f.places # <<>>
    BY <1>1 DEF IPv6Layout
  <1>3. Extensions(f) \in Nat /\ Len(f.places) = Extensions(f) + 1
    BY <1>2, EmptySeq DEF Extensions
  <1>4. \A i \in 1..Len(f.places) :
          f.places[i] \in Int /\ Start(f) + 40 <= f.places[i] /\ f.places[i] <= f.caplen
    BY <1>1, <1>2 DEF IPv6Layout
  <1>5. /\ NetworkHeader(f) = f.places[Extensions(f) + 1] - Start(f)
        /\ PacketLength(f) = 40 + ip6_plen(f, Start(f))
        /\ CarriedProtocol(f) = NextHeader(f, Extensions(f) + 1)
    BY Distinct DEF NetworkHeader, PacketLength, CarriedProtocol
  <1>6. NetworkHeader(f) >= 40
    <2>1. Extensions(f) + 1 \in 1..Len(f.places)
      BY <1>3
    <2>2. /\ f.places[Extensions(f) + 1] \in Int
          /\ Start(f) + 40 <= f.places[Extensions(f) + 1]
      BY <1>4, <2>1
    <2>3. Start(f) \in Int
      BY LayoutNumbers
    <2> QED
      BY <1>5, <2>2, <2>3
  <1>7. /\ f.places[1] = Start(f) + 40 /\ ~IsExtension(CarriedProtocol(f))
        /\ Extensions(f) > 0 => CarriedProtocol(f) \notin Transports
        /\ \A i \in 1..Extensions(f) : IsExtension(NextHeader(f, i))
        /\ f.extensions = ChainOf(f, Extensions(f))
    BY <1>1, Zenon DEF IPv6Layout, Transports
  <1> QED
    BY <1>2, <1>3, <1>4, <1>5, <1>6, <1>7

LEMMA LayoutOfARP ==
  ASSUME NEW f \in Frames, WellFormed(f), EtherType(f) = ETHERTYPE_ARP
  PROVE  /\ NetworkHeader(f) = ArpLength(f, Start(f)) /\ NetworkHeader(f) >= 8
         /\ PacketLength(f) = NetworkHeader(f) /\ PacketLength(f) <= Captured(f)
         /\ CarriedProtocol(f) = IPPROTO_NONE /\ f.extensions = <<>>
  <1>1. /\ NetworkHeader(f) = ArpLength(f, Start(f)) /\ PacketLength(f) = NetworkHeader(f)
        /\ CarriedProtocol(f) = IPPROTO_NONE /\ f.extensions = <<>>
    BY Distinct DEF NetworkHeader, PacketLength, CarriedProtocol, WellFormed
  <1>2. Start(f) \in Int
    BY LayoutNumbers
  <1>3. ArpLength(f, Start(f)) >= 8
    <2>1. ArpLength(f, Start(f)) \in 8..1028
      <3>n. HeaderNumbers(f, Start(f))
        BY <1>2, HeaderLengths, Zenon
      <3> QED
        BY ONLY <3>n, SMT DEF HeaderNumbers
    <2> QED
      BY <2>1
  <1>4. NetworkHeader(f) >= 8
    BY <1>1, <1>3
  <1>5. /\ NetworkHeader(f) \in Int /\ CarriedHeader(f) \in Int /\ 0 <= CarriedHeader(f)
        /\ Captured(f) \in Int /\ NetworkHeader(f) + CarriedHeader(f) <= Captured(f)
    BY LayoutNumbers
  <1>6. PacketLength(f) <= Captured(f)
    BY <1>1, <1>5
  <1> QED
    BY <1>1, <1>4, <1>6

Others(n) == n \notin {ETHERTYPE_IP, ETHERTYPE_IPV6, ETHERTYPE_ARP}

LEMMA LayoutOfOthers ==
  ASSUME NEW f \in Frames, WellFormed(f), Others(EtherType(f))
  PROVE  /\ NetworkHeader(f) = 0 /\ PacketLength(f) = Captured(f)
         /\ CarriedProtocol(f) = IPPROTO_NONE /\ f.extensions = <<>>
         /\ EtherType(f) \notin Transports /\ EtherType(f) # ETHERTYPE_REVARP
         /\ EtherType(f) = UNKNOWN_PROTO => Start(f) = 0
  BY DEF Others, NetworkHeader, PacketLength, CarriedProtocol, WellFormed, OtherLayout, Transports

-----------------------------------------------------------------------------
(* The first pass *)

LEMMA ExtensionNumbers ==
  /\ \A p \in 96..111 : ~IsExtension(p) /\ p \notin Transports /\ p # UNKNOWN_PROTO
  /\ \A p \in Octet : p # UNKNOWN_PROTO
  /\ IPPROTO_NONE \notin Transports /\ ETHERTYPE_IP \notin Transports /\ ETHERTYPE_IP # UNKNOWN_PROTO
  /\ UNKNOWN_PROTO \notin Transports
  BY DEF IsExtension, IPPROTO_HOPOPTS, IPPROTO_DSTOPTS, IPPROTO_ROUTING, IPPROTO_AH, IPPROTO_FRAGMENT,
         Transports, IPPROTO_TCP, IPPROTO_UDP, IPPROTO_ICMP, IPPROTO_NONE, ETHERTYPE_IP, UNKNOWN_PROTO, Octet

\* A protocol is found when it is the one that is there, or when none is there
\* and none is found.
LEMMA FoundSame ==
  ASSUME NEW f, NEW t, t = CarriedProtocol(f), t # UNKNOWN_PROTO
  PROVE  Found(f, t)
  BY DEF Found

LEMMA FoundNone ==
  ASSUME NEW f, NEW t, t \notin Transports, CarriedProtocol(f) \notin Transports,
         t = UNKNOWN_PROTO => PacketLength(f) <= Captured(f)
  PROVE  Found(f, t)
  BY DEF Found, Transports

\* What is whole is not truncated.
LEMMA NotTruncated ==
  ASSUME NEW f \in Frames, WellFormed(f), NEW c \in Int, NEW t,
         t = CarriedProtocol(f) \/ t \notin Transports, c >= CarriedHeader(f)
  PROVE  /\ ~(t = IPPROTO_TCP /\ c < TCPHDRLEN)
         /\ ~(t = IPPROTO_UDP /\ c < UDPHDRLEN)
         /\ ~(t = IPPROTO_ICMP /\ c < ICMPHDRLEN)
  <1>1. CarriedHeader(f) \in Int
    BY LayoutNumbers
  <1>2. /\ CarriedProtocol(f) = IPPROTO_TCP => CarriedHeader(f) >= TCPHDRLEN
        /\ CarriedProtocol(f) = IPPROTO_UDP => CarriedHeader(f) = UDPHDRLEN
        /\ CarriedProtocol(f) = IPPROTO_ICMP => CarriedHeader(f) = ICMPHDRLEN
    BY LayoutCarried
  <1>3. TCPHDRLEN \in Int /\ UDPHDRLEN \in Int /\ ICMPHDRLEN \in Int
    BY DEF TCPHDRLEN, UDPHDRLEN, ICMPHDRLEN
  <1>4. CASE t \notin Transports
    BY <1>4 DEF Transports
  <1>5. CASE t = CarriedProtocol(f)
    BY <1>1, <1>2, <1>3, <1>5
  <1> QED
    BY <1>4, <1>5

LEMMA NothingTruncated ==
  ASSUME NEW c \in Int, c <= 0, NEW t \in Transports
  PROVE  \/ t = IPPROTO_TCP /\ c < TCPHDRLEN
         \/ t = IPPROTO_UDP /\ c < UDPHDRLEN
         \/ t = IPPROTO_ICMP /\ c < ICMPHDRLEN
  BY DEF Transports, TCPHDRLEN, UDPHDRLEN, ICMPHDRLEN

\* Of what is left after a header, nothing is taken round.
LEMMA LeftOfShort ==
  ASSUME NEW c \in Int, NEW h \in Int, 0 <= c, c <= 32767, 0 <= h, h <= 32767
  PROVE  ToShort(c - h) = c - h
  <1>1. c - h \in Int /\ -32768 <= c - h /\ c - h <= 32767
    OBVIOUS
  <1> QED
    BY <1>1, ToShortKeeps

\* What Create makes of a transport protocol t, with c octets left.
Cut(t, c) ==
  \/ t = IPPROTO_TCP /\ c < TCPHDRLEN
  \/ t = IPPROTO_UDP /\ c < UDPHDRLEN
  \/ t = IPPROTO_ICMP /\ c < ICMPHDRLEN

Decides(f, t, c) == Found(f, IF Cut(t, c) THEN UNKNOWN_PROTO ELSE t)

LEMMA DecidesCarried ==
  ASSUME NEW f \in Frames, WellFormed(f), NEW c \in Int, c >= CarriedHeader(f), NEW t, t # UNKNOWN_PROTO,
         t = CarriedProtocol(f) \/ (t \notin Transports /\ CarriedProtocol(f) \notin Transports)
  PROVE  Decides(f, t, c)
  <1>1. ~Cut(t, c)
    BY NotTruncated DEF Cut
  <1>2. Found(f, t)
    BY FoundSame, FoundNone
  <1> QED
    BY <1>1, <1>2 DEF Decides

LEMMA DecidesNone ==
  ASSUME NEW f, NEW c \in Int, NEW t, c <= 0 \/ t \notin Transports,
         CarriedProtocol(f) \notin Transports, PacketLength(f) <= Captured(f)
  PROVE  Decides(f, t, c)
  <1> DEFINE u == IF Cut(t, c) THEN UNKNOWN_PROTO ELSE t
  <1>1. u \notin Transports
    <2>1. CASE t \notin Transports
      BY <2>1, ExtensionNumbers
    <2>2. CASE c <= 0 /\ t \in Transports
      <3>1. Cut(t, c)
        BY <2>2, NothingTruncated DEF Cut
      <3> QED
        BY <3>1, ExtensionNumbers
    <2> QED
      BY <2>1, <2>2
  <1> HIDE DEF u
  <1>2. Found(f, u)
    BY <1>1, FoundNone
  <1> QED
    BY <1>2 DEF Decides, u

LEMMA NothingLeftDecides ==
  ASSUME TypeOK, WellFormed(frame), clen = Captured(frame), clen <= 0
  PROVE  Decides(frame, tproto, clen)
  <1>1. /\ frame \in Frames /\ clen \in Int
    BY Numbers
  <1>2. NetworkHeader(frame) <= 0
    <2>1. /\ NetworkHeader(frame) \in Int /\ CarriedHeader(frame) \in Int /\ 0 <= CarriedHeader(frame)
          /\ NetworkHeader(frame) + CarriedHeader(frame) <= Captured(frame)
      BY <1>1, LayoutNumbers
    <2> QED
      BY <1>1, <2>1
  <1>3. EtherType(frame) # ETHERTYPE_IP
    <2>1. EtherType(frame) = ETHERTYPE_IP => NetworkHeader(frame) >= 20
      BY <1>1, LayoutOfIP
    <2>2. NetworkHeader(frame) \in Int
      BY <1>1, LayoutNumbers
    <2> QED
      BY <1>2, <2>1, <2>2
  <1>4. EtherType(frame) # ETHERTYPE_IPV6
    <2>1. EtherType(frame) = ETHERTYPE_IPV6 => NetworkHeader(frame) >= 40
      BY <1>1, LayoutOfIPv6
    <2>2. NetworkHeader(frame) \in Int
      BY <1>1, LayoutNumbers
    <2> QED
      BY <1>2, <2>1, <2>2
  <1>5. EtherType(frame) # ETHERTYPE_ARP
    <2>1. EtherType(frame) = ETHERTYPE_ARP => NetworkHeader(frame) >= 8
      BY <1>1, LayoutOfARP
    <2>2. NetworkHeader(frame) \in Int
      BY <1>1, LayoutNumbers
    <2> QED
      BY <1>2, <2>1, <2>2
  <1>6. Others(EtherType(frame))
    BY <1>3, <1>4, <1>5 DEF Others
  <1>7. CarriedProtocol(frame) = IPPROTO_NONE /\ PacketLength(frame) = Captured(frame)
    BY <1>1, <1>6, LayoutOfOthers
  <1>8. CarriedProtocol(frame) \notin Transports
    BY <1>7, ExtensionNumbers
  <1>9. PacketLength(frame) <= Captured(frame)
    BY <1>1, <1>7
  <1> QED
    BY <1>1, <1>8, <1>9, DecidesNone

LEMMA FirstPassIPDecides ==
  ASSUME TypeOK, WellFormed(frame), clen = Captured(frame), EtherType(frame) = ETHERTYPE_IP,
         nproto = EtherType(frame), FirstPassIP
  PROVE  Decides(frame, tproto', clen')
  <1>1. frame \in Frames /\ datalink_hlen = Start(frame) /\ Start(frame) \in Int
    BY Numbers DEF datalink_hlen, Start
  <1>2. /\ NetworkHeader(frame) = ip_hl(frame, Start(frame)) * 4
        /\ CarriedProtocol(frame) = IF ip_off(frame, Start(frame)) % 8192 = 0
                                      THEN ip_p(frame, Start(frame)) ELSE IPPROTO_NONE
    BY <1>1, LayoutOfIP
  <1>3. /\ clen' = ToShort(clen - NetworkHeader(frame))
        /\ tproto' = IF clen' > 0 /\ ip_off(frame, Start(frame)) % 8192 = 0
                       THEN ip_p(frame, Start(frame)) ELSE ETHERTYPE_IP
    BY <1>1, <1>2 DEF FirstPassIP
  <1>4. /\ NetworkHeader(frame) \in Int /\ 0 <= NetworkHeader(frame)
        /\ CarriedHeader(frame) \in Int /\ 0 <= CarriedHeader(frame)
        /\ Captured(frame) \in Int /\ 0 <= Captured(frame) /\ Captured(frame) <= 32767
        /\ NetworkHeader(frame) + CarriedHeader(frame) <= Captured(frame)
    BY <1>1, LayoutNumbers
  <1>5. clen' = Captured(frame) - NetworkHeader(frame)
    BY <1>3, <1>4, LeftOfShort
  <1>6. clen' \in Int /\ clen' >= CarriedHeader(frame)
    BY <1>4, <1>5
  <1>a. frame \in Frames /\ Start(frame) \in Int
    BY <1>1, <1>4
  <1>b. ip_p(frame, Start(frame)) \in Octet
    <2>n. HeaderNumbers(frame, Start(frame))
      BY <1>a, HeaderLengths, Zenon
    <2> QED
      BY ONLY <2>n, SMT DEF HeaderNumbers
  <1>7. ip_p(frame, Start(frame)) # UNKNOWN_PROTO
    BY <1>b, ExtensionNumbers
  <1>8. tproto' # UNKNOWN_PROTO
    BY <1>3, <1>7, ExtensionNumbers
  <1>9. tproto' = CarriedProtocol(frame) \/ (tproto' \notin Transports /\ CarriedProtocol(frame) \notin Transports)
    <2>1. CASE clen' > 0 /\ ip_off(frame, Start(frame)) % 8192 = 0
      BY <1>2, <1>3, <2>1
    <2>2. CASE ip_off(frame, Start(frame)) % 8192 # 0
      BY <1>2, <1>3, <2>2, ExtensionNumbers
    <2>3. CASE ~(clen' > 0)
      <3>1. CarriedHeader(frame) = 0
        BY <1>4, <1>6, <2>3
      <3>2. CarriedProtocol(frame) \notin Transports
        BY <1>1, <3>1, LayoutCarried DEF Transports, TCPHDRLEN, UDPHDRLEN, ICMPHDRLEN
      <3> QED
        BY <1>3, <2>3, <3>2, ExtensionNumbers
    <2> QED
      BY <2>1, <2>2, <2>3
  <1> QED
    BY <1>1, <1>6, <1>8, <1>9, DecidesCarried

\* With no extension header the protocol behind the IPv6 header is the one carried,
\* and with one it is an extension.
LEMMA FirstNext ==
  ASSUME NEW f \in Frames, WellFormed(f), EtherType(f) = ETHERTYPE_IPV6
  PROVE  /\ ~IsExtension(ip6_nxt(f, Start(f))) =>
              /\ CarriedProtocol(f) = ip6_nxt(f, Start(f)) /\ NetworkHeader(f) = 40
         /\ IsExtension(ip6_nxt(f, Start(f))) => Extensions(f) > 0
  <1>1. /\ Extensions(f) \in Nat /\ f.places[1] = Start(f) + 40 /\ Start(f) \in Int
        /\ NetworkHeader(f) = f.places[Extensions(f) + 1] - Start(f)
        /\ CarriedProtocol(f) = NextHeader(f, Extensions(f) + 1)
        /\ ~IsExtension(NextHeader(f, Extensions(f) + 1))
        /\ \A i \in 1..Extensions(f) : IsExtension(NextHeader(f, i))
    BY LayoutOfIPv6, LayoutNumbers, SMTT(40)
  <1>2. NextHeader(f, 1) = ip6_nxt(f, Start(f))
    BY DEF NextHeader
  <1>3. CASE Extensions(f) = 0
    BY <1>1, <1>2, <1>3
  <1>4. CASE Extensions(f) > 0
    <2>1. 1 \in 1..Extensions(f)
      BY <1>1, <1>4
    <2>2. IsExtension(NextHeader(f, 1))
      BY <1>1, <2>1
    <2> QED
      BY <1>2, <1>4, <2>2
  <1> QED
    BY <1>1, <1>3, <1>4

LEMMA FirstPassIPv6Decides ==
  ASSUME TypeOK, WellFormed(frame), clen = Captured(frame), EtherType(frame) = ETHERTYPE_IPV6,
         FirstPassIPv6
  PROVE  \/ /\ pc' = "walk" /\ tproto' = ip6_nxt(frame, Start(frame)) /\ dp' = Start(frame)
            /\ clen' = Captured(frame) - 40 /\ clen' > 0
         \/ pc' = "create" /\ Decides(frame, tproto', clen')
  <1>1. frame \in Frames /\ datalink_hlen = Start(frame) /\ tproto \in Int
    BY Numbers DEF datalink_hlen, Start
  <1>2. /\ Captured(frame) \in Int /\ 0 <= Captured(frame) /\ Captured(frame) <= 32767
        /\ NetworkHeader(frame) \in Int /\ CarriedHeader(frame) \in Int /\ 0 <= CarriedHeader(frame)
        /\ PacketLength(frame) \in Int
        /\ NetworkHeader(frame) + CarriedHeader(frame) <= Captured(frame)
        /\ NetworkHeader(frame) + CarriedHeader(frame) <= PacketLength(frame)
    BY <1>1, LayoutNumbers
  <1>3. NetworkHeader(frame) >= 40
    BY <1>1, LayoutOfIPv6
  <1>4. clen' = Captured(frame) - 40
    <2>1. clen' = ToShort(Captured(frame) - 40)
      BY DEF FirstPassIPv6
    <2>2. /\ Captured(frame) - 40 \in Int
          /\ -32768 <= Captured(frame) - 40 /\ Captured(frame) - 40 <= 32767
      BY <1>2
    <2>3. ToShort(Captured(frame) - 40) = Captured(frame) - 40
      BY <2>2, ToShortKeeps
    <2> QED
      BY <2>1, <2>3
  <1>5. CASE clen' > 0
    <2>1. pc' = "walk" /\ dp' = datalink_hlen /\ tproto' = ip6_nxt(frame, dp')
      BY <1>5, Zenon DEF FirstPassIPv6
    <2> QED
      BY <1>1, <1>4, <1>5, <2>1
  <1>6. CASE ~(clen' > 0)
    <2>1. pc' = "create" /\ tproto' = tproto
      BY <1>6 DEF FirstPassIPv6
    <2>2. CarriedHeader(frame) = 0 /\ Captured(frame) = 40
      BY <1>2, <1>3, <1>4, <1>6
    <2>3. CarriedProtocol(frame) \notin Transports
      BY <1>1, <2>2, LayoutCarried DEF Transports, TCPHDRLEN, UDPHDRLEN, ICMPHDRLEN
    <2>4. PacketLength(frame) <= Captured(frame)
      <3>1. Captured(frame) > 40 \/ ip6_plen(frame, Start(frame)) = 0
        BY DEF WellFormed, IPv6Layout
      <3>2. PacketLength(frame) = 40 + ip6_plen(frame, Start(frame))
        BY <1>1, LayoutOfIPv6
      <3> QED
        BY <2>2, <3>1, <3>2
    <2>5. clen' \in Int /\ clen' <= 0
      BY <1>2, <1>4, <1>6
    <2>6. Decides(frame, tproto', clen')
      BY <2>3, <2>4, <2>5, DecidesNone
    <2> QED
      BY <2>1, <2>6
  <1> QED
    BY <1>5, <1>6

\* The walk starts at the IPv6 header, whose first octet has the version, and
\* ends there.
LEMMA WalkStops ==
  ASSUME TypeOK, WellFormed(frame), EtherType(frame) = ETHERTYPE_IPV6, WalkExtension,
         tproto = ip6_nxt(frame, Start(frame)), dp = Start(frame)
  PROVE  Extensions(frame) > 0 /\ tproto' \in 96..111
  <1>1. frame \in Frames /\ Start(frame) \in Int
    BY Numbers, LayoutNumbers
  <1>2. ip6e_nxt(frame, dp) \in 96..111
    <2>1. OctetAt(frame, Start(frame)) \div 16 = 6
      BY DEF WellFormed, IPv6Layout
    <2>2. OctetAt(frame, Start(frame)) \in Octet
      BY <1>1, OctetAtType
    <2>3. OctetAt(frame, Start(frame)) \in 96..111
      BY <2>1, <2>2 DEF Octet
    <2> QED
      BY <2>3 DEF ip6e_nxt
  <1>3. /\ IsExtension(tproto)
        /\ tproto' = IF ip6e_nxt(frame, dp) \in {IPPROTO_ESP, IPPROTO_NONE}
                       THEN UNKNOWN_PROTO ELSE ip6e_nxt(frame, dp)
    BY Zenon DEF WalkExtension
  <1>4. \A n \in 96..111 : n \notin {IPPROTO_ESP, IPPROTO_NONE}
    BY DEF IPPROTO_ESP, IPPROTO_NONE
  <1>5. Extensions(frame) > 0
    BY <1>1, <1>3, FirstNext
  <1> QED
    BY <1>2, <1>3, <1>4, <1>5

LEMMA WalkedDecides ==
  ASSUME TypeOK, WellFormed(frame), EtherType(frame) = ETHERTYPE_IPV6, EndWalk,
         \/ /\ tproto = ip6_nxt(frame, Start(frame)) /\ dp = Start(frame)
            /\ clen = Captured(frame) - 40 /\ clen > 0
         \/ Extensions(frame) > 0 /\ tproto \in 96..111
  PROVE  Decides(frame, tproto, clen)
  <1>1. frame \in Frames /\ clen \in Int /\ tproto \in Int /\ Start(frame) \in Int
    BY Numbers, LayoutNumbers
  <1>2. /\ Captured(frame) \in Int /\ NetworkHeader(frame) \in Int
        /\ CarriedHeader(frame) \in Int
        /\ NetworkHeader(frame) + CarriedHeader(frame) <= Captured(frame)
    BY <1>1, LayoutNumbers
  <1>3. CASE /\ tproto = ip6_nxt(frame, Start(frame)) /\ dp = Start(frame)
             /\ clen = Captured(frame) - 40 /\ clen > 0
    <2>1. ~IsExtension(tproto)
      BY <1>1, <1>3 DEF EndWalk
    <2>2. CarriedProtocol(frame) = tproto /\ NetworkHeader(frame) = 40
      BY <1>1, <1>3, <2>1, FirstNext
    <2>3. clen >= CarriedHeader(frame)
      BY <1>2, <1>3, <2>2
    <2>4. tproto # UNKNOWN_PROTO
      <3>1. ip6_nxt(frame, Start(frame)) \in Octet
        <4>1. frame \in Frames /\ Start(frame) \in Int
          BY <1>1, <1>2
        <4>2. HeaderNumbers(frame, Start(frame))
          BY <4>1, HeaderLengths, Zenon
        <4> QED
          BY ONLY <4>2, SMT DEF HeaderNumbers
      <3> QED
        BY <1>3, <3>1, ExtensionNumbers
    <2> QED
      BY <1>1, <2>2, <2>3, <2>4, DecidesCarried
  <1>4. CASE Extensions(frame) > 0 /\ tproto \in 96..111
    <2>1. tproto \notin Transports /\ tproto # UNKNOWN_PROTO
      BY <1>4, ExtensionNumbers
    <2>2. CarriedProtocol(frame) \notin Transports
      BY <1>1, <1>4, LayoutOfIPv6
    <2>3. Found(frame, tproto)
      BY <2>1, <2>2, FoundNone
    <2>4. ~Cut(tproto, clen)
      BY <2>1 DEF Cut, Transports
    <2> QED
      BY <2>3, <2>4 DEF Decides
  <1> QED
    BY <1>3, <1>4

LEMMA FirstPassARPDecides ==
  ASSUME TypeOK, WellFormed(frame), EtherType(frame) = ETHERTYPE_ARP, FirstPassARP
  PROVE  Decides(frame, tproto', clen')
  <1>1. frame \in Frames /\ clen \in Int
    BY Numbers
  <1>2. CarriedProtocol(frame) \notin Transports /\ PacketLength(frame) <= Captured(frame)
    BY <1>1, LayoutOfARP, ExtensionNumbers
  <1>3. clen' \in Int
    <2>1. clen' = ToShort(clen - 28)
      BY DEF FirstPassARP
    <2> QED
      BY <1>1, <2>1, ToShortRange, ShortsAreInt
  <1>4. clen' <= 0 \/ tproto' \notin Transports
    BY <1>3, Distinct DEF FirstPassARP
  <1> QED
    BY <1>2, <1>3, <1>4, DecidesNone

LEMMA FirstPassOtherDecides ==
  ASSUME TypeOK, WellFormed(frame), Others(EtherType(frame)), nproto = EtherType(frame), FirstPassOther
  PROVE  Decides(frame, tproto', clen')
  <1>1. frame \in Frames /\ clen \in Int /\ clen' = clen /\ tproto' = EtherType(frame)
    BY Numbers DEF FirstPassOther
  <1>2. /\ CarriedProtocol(frame) \notin Transports /\ PacketLength(frame) = Captured(frame)
        /\ EtherType(frame) \notin Transports
    BY <1>1, LayoutOfOthers, ExtensionNumbers
  <1>3. Captured(frame) \in Int
    BY <1>1, LayoutNumbers
  <1>4. PacketLength(frame) <= Captured(frame)
    BY <1>2, <1>3
  <1> QED
    BY <1>1, <1>2, <1>4, DecidesNone

-----------------------------------------------------------------------------
LEMMA NewFrame ==
  ASSUME FramesAreWellFormed, NextFrame, frame'.headers
  PROVE  clen' = frame'.caplen
  <1>1. frame' \in Frames /\ clen' = ToShort(frame'.caplen)
    BY DEF NextFrame
  <1>2. WellFormed(frame')
    BY <1>1 DEF FramesAreWellFormed
  <1>3. frame'.caplen \in Int /\ 0 <= frame'.caplen /\ frame'.caplen <= 32767
    BY <1>1, <1>2, LayoutNumbers
  <1>4. -32768 <= frame'.caplen
    BY <1>3
  <1> QED
    BY <1>1, <1>3, <1>4, ToShortKeeps

LEMMA LinkDone ==
  ASSUME TypeOK, WellFormed(frame), clen = frame.caplen, Link
  PROVE  nproto' = EtherType(frame) /\ clen' = Captured(frame)
  <1>1. frame \in Frames /\ datalink_hlen = Start(frame)
    BY Numbers DEF datalink_hlen, Start
  <1>2. /\ Start(frame) \in {0, 14, 22}
        /\ frame.caplen \in Int /\ 0 <= frame.caplen /\ frame.caplen <= 32767
        /\ Captured(frame) = frame.caplen - Start(frame)
    BY <1>1, LayoutNumbers
  <1>3. CASE frame.link \in {DLT_RAW, DLT_IEEE802, DLT_EN10MB}
    <2>1. nproto' = EtherType(frame)
      BY <1>3 DEF Link, EtherType
    <2>2. clen' = ToShort(frame.caplen - Start(frame))
      BY <1>1, <1>3 DEF Link
    <2>3. Start(frame) \in Int /\ 0 <= Start(frame) /\ Start(frame) <= 32767
      BY <1>2
    <2>4. ToShort(frame.caplen - Start(frame)) = frame.caplen - Start(frame)
      BY <1>2, <2>3, LeftOfShort
    <2>5. clen' = Captured(frame)
      BY <1>2, <2>2, <2>4
    <2> QED
      BY <2>1, <2>5
  <1>4. CASE frame.link \notin {DLT_RAW, DLT_IEEE802, DLT_EN10MB}
    <2>1. nproto' = EtherType(frame) /\ clen' = clen
      BY <1>4 DEF Link, EtherType
    <2>2. Start(frame) = 0
      BY <1>4 DEF Start, offset_data, DLT_EN10MB, DLT_IEEE802
    <2> QED
      BY <1>2, <2>1, <2>2
  <1> QED
    BY <1>3, <1>4

\* What the first pass leaves to Create.
LEMMA CreateNext ==
  ASSUME pc' = "create", UNCHANGED <<frame, nproto>>, nproto = EtherType(frame),
         Decides(frame, tproto', clen')
  PROVE  FirstPassRight'
  BY DEF FirstPassRight, Decides, Cut, Truncated

LEMMA FirstPassStep ==
  ASSUME FramesAreWellFormed, TypeOK, ProtocolsInv, frame.headers => FirstPassRight, [Next]_vars, frame'.headers
  PROVE  FirstPassRight'
  <1>1. CASE NextFrame
    <2>1. pc' = "link"
      BY <1>1 DEF NextFrame
    <2>2. clen' = frame'.caplen
      BY <1>1, NewFrame
    <2> QED
      BY <2>1, <2>2 DEF FirstPassRight
  <1>2. ASSUME UNCHANGED frame
        PROVE  FirstPassRight /\ WellFormed(frame) /\ frame \in Frames
    BY <1>2 DEF FramesAreWellFormed, TypeOK
  <1>3. CASE Link
    <2>1. pc = "link" /\ pc' = "network" /\ UNCHANGED frame
      BY <1>3 DEF Link
    <2>2. WellFormed(frame) /\ clen = frame.caplen
      BY <1>2, <2>1 DEF FirstPassRight
    <2>3. nproto' = EtherType(frame) /\ clen' = Captured(frame)
      BY <1>3, <2>2, LinkDone
    <2> QED
      BY <2>1, <2>3 DEF FirstPassRight
  <1>4. CASE NothingLeft
    <2>1. pc = "network" /\ pc' = "create" /\ UNCHANGED <<frame, nproto, tproto, clen>> /\ clen <= 0
      BY <1>4 DEF NothingLeft
    <2>2. WellFormed(frame) /\ clen = Captured(frame) /\ nproto = EtherType(frame)
      BY <1>2, <2>1 DEF FirstPassRight
    <2>3. Decides(frame, tproto, clen)
      BY <2>1, <2>2, NothingLeftDecides
    <2> QED
      BY <2>1, <2>2, <2>3, CreateNext
  <1>5. CASE FirstPassIP
    <2>1. pc = "network" /\ pc' = "create" /\ UNCHANGED <<frame, nproto>> /\ nproto = ETHERTYPE_IP
      BY <1>5 DEF FirstPassIP
    <2>2. WellFormed(frame) /\ clen = Captured(frame) /\ nproto = EtherType(frame)
      BY <1>2, <2>1 DEF FirstPassRight
    <2>3. EtherType(frame) = ETHERTYPE_IP
      BY <2>1, <2>2
    <2>4. Decides(frame, tproto', clen')
      BY <1>5, <2>2, <2>3, FirstPassIPDecides
    <2> QED
      BY <2>1, <2>2, <2>4, CreateNext
  <1>6. CASE FirstPassIPv6
    <2>1. pc = "network" /\ UNCHANGED <<frame, nproto>> /\ nproto = ETHERTYPE_IPV6
      BY <1>6 DEF FirstPassIPv6
    <2>2. WellFormed(frame) /\ clen = Captured(frame) /\ nproto = EtherType(frame)
      BY <1>2, <2>1 DEF FirstPassRight
    <2>3. EtherType(frame) = ETHERTYPE_IPV6
      BY <2>1, <2>2
    <2>4. \/ /\ pc' = "walk" /\ tproto' = ip6_nxt(frame, Start(frame)) /\ dp' = Start(frame)
             /\ clen' = Captured(frame) - 40 /\ clen' > 0
          \/ pc' = "create" /\ Decides(frame, tproto', clen')
      BY <1>6, <2>2, <2>3, FirstPassIPv6Decides
    <2>5. CASE pc' = "create" /\ Decides(frame, tproto', clen')
      BY <2>1, <2>2, <2>5, CreateNext
    <2>6. CASE /\ pc' = "walk" /\ tproto' = ip6_nxt(frame, Start(frame)) /\ dp' = Start(frame)
               /\ clen' = Captured(frame) - 40 /\ clen' > 0
      BY <2>1, <2>2, <2>6 DEF FirstPassRight
    <2> QED
      BY <2>4, <2>5, <2>6
  <1>7. CASE FirstPassARP
    <2>1. pc = "network" /\ pc' = "create" /\ UNCHANGED <<frame, nproto>> /\ nproto = ETHERTYPE_ARP
      BY <1>7 DEF FirstPassARP
    <2>2. WellFormed(frame) /\ nproto = EtherType(frame)
      BY <1>2, <2>1 DEF FirstPassRight
    <2>3. EtherType(frame) = ETHERTYPE_ARP
      BY <2>1, <2>2
    <2>4. Decides(frame, tproto', clen')
      BY <1>7, <2>2, <2>3, FirstPassARPDecides
    <2> QED
      BY <2>1, <2>2, <2>4, CreateNext
  <1>8. CASE FirstPassOther
    <2>1. /\ pc = "network" /\ pc' = "create" /\ UNCHANGED <<frame, nproto>>
          /\ nproto \notin {ETHERTYPE_IP, ETHERTYPE_IPV6, ETHERTYPE_ARP}
      BY <1>8 DEF FirstPassOther
    <2>2. WellFormed(frame) /\ nproto = EtherType(frame)
      BY <1>2, <2>1 DEF FirstPassRight
    <2>3. Others(EtherType(frame))
      BY <2>1, <2>2 DEF Others
    <2>4. Decides(frame, tproto', clen')
      BY <1>8, <2>2, <2>3, FirstPassOtherDecides
    <2> QED
      BY <2>1, <2>2, <2>4, CreateNext
  <1>9. CASE WalkExtension
    <2>1. pc = "walk" /\ pc' = "walk" /\ UNCHANGED <<frame, nproto>> /\ IsExtension(tproto)
      BY <1>9, Zenon DEF WalkExtension
    <2>2. /\ WellFormed(frame) /\ nproto = EtherType(frame)
          /\ \/ tproto = ip6_nxt(frame, Start(frame)) /\ dp = Start(frame)
             \/ Extensions(frame) > 0 /\ tproto \in 96..111
      BY <1>2, <2>1 DEF FirstPassRight
    <2>3. tproto \notin 96..111
      BY <2>1, ExtensionNumbers
    <2>4. EtherType(frame) = ETHERTYPE_IPV6
      BY <2>1, <2>2 DEF ProtocolsInv
    <2>5. Extensions(frame) > 0 /\ tproto' \in 96..111
      BY <1>9, <2>2, <2>3, <2>4, WalkStops
    <2> QED
      BY <2>1, <2>2, <2>5 DEF FirstPassRight
  <1>10. CASE EndWalk
    <2>1. pc = "walk" /\ pc' = "create" /\ UNCHANGED <<frame, nproto, tproto, clen>>
      BY <1>10 DEF EndWalk
    <2>2. /\ WellFormed(frame) /\ nproto = EtherType(frame)
          /\ \/ /\ tproto = ip6_nxt(frame, Start(frame)) /\ dp = Start(frame)
                /\ clen = Captured(frame) - 40 /\ clen > 0
             \/ Extensions(frame) > 0 /\ tproto \in 96..111
      BY <1>2, <2>1 DEF FirstPassRight
    <2>3. EtherType(frame) = ETHERTYPE_IPV6
      BY <2>1, <2>2 DEF ProtocolsInv
    <2>4. Decides(frame, tproto, clen)
      BY <1>10, <2>2, <2>3, WalkedDecides
    <2> QED
      BY <2>1, <2>2, <2>4, CreateNext
  <1>11. CASE Create
    <2>1. /\ pc = "create" /\ pc' = "analyze" /\ UNCHANGED <<frame, nproto>>
          /\ tproto' = IF Truncated THEN UNKNOWN_PROTO ELSE tproto
      BY <1>11 DEF Create
    <2>2. nproto = EtherType(frame) /\ Found(frame, tproto')
      BY <1>2, <2>1 DEF FirstPassRight
    <2> QED
      BY <2>1, <2>2 DEF FirstPassRight
  <1>12. CASE SecondPass
    <2>1. /\ UNCHANGED <<frame, nproto, tproto>>
          /\ pc \in {"analyze", "options", "clamp", "transport"}
          /\ pc' \in {"options", "clamp", "transport", "done"}
      BY <1>12, SecondPassFacts
    <2>2. nproto = EtherType(frame) /\ Found(frame, tproto)
      BY <1>2, <2>1 DEF FirstPassRight
    <2> QED
      BY <2>1, <2>2 DEF FirstPassRight
  <1>13. CASE UNCHANGED vars
    <2>1. UNCHANGED <<frame, pc, nproto, tproto, clen, dp>>
      BY <1>13 DEF vars
    <2> QED
      BY <1>2, <2>1 DEF FirstPassRight, Truncated
  <1> QED
    BY <1>1, <1>3, <1>4, <1>5, <1>6, <1>7, <1>8, <1>9, <1>10, <1>11, <1>12, <1>13 DEF Next, SecondPass

-----------------------------------------------------------------------------
(* The second pass *)

LEMMA NoOptions == ASSUME NEW f PROVE OptionsMade(f, <<>>, 0)
  <1>1. <<>> \in Seq({IPv6Option(f, f.places[i], p) : i \in 1..Len(f.places), p \in Octet})
    BY EmptySeq
  <1>2. Len(<<>>) = 0
    BY EmptySeq
  <1>3. \A i \in 1..0 : FALSE
    OBVIOUS
  <1> QED
    BY <1>1, <1>2, <1>3 DEF OptionsMade

LEMMA NoOptionsAtAll ==
  ASSUME NEW f, EtherType(f) # ETHERTYPE_IPV6 PROVE AllOptionsMade(f, <<>>)
  BY NoOptions DEF AllOptionsMade

\* The length that the code takes for an extension header is the one it has.
LEMMA ExtensionOctetsTaken ==
  ASSUME NEW f \in Frames, NEW at \in Int, NEW p, IsExtension(p)
  PROVE  ExtensionOctets(f, at, p) = ExtensionLength(f, at, p)
  <1>1. ip6e_len(f, at) \in Octet
    BY OctetAtType DEF ip6e_len
  <1>2. ip6e_len(f, at) \in Int
    BY <1>1 DEF Octet
  <1>3. /\ 4 * ip6e_len(f, at) + 8 = (ip6e_len(f, at) + 2) * 4
        /\ 8 * ip6e_len(f, at) + 8 = (ip6e_len(f, at) + 1) * 8
    BY <1>2
  <1>4. CASE p \in {IPPROTO_HOPOPTS, IPPROTO_DSTOPTS, IPPROTO_ROUTING}
    BY <1>3, <1>4 DEF ExtensionOctets, ExtensionLength, IPPROTO_HOPOPTS, IPPROTO_DSTOPTS,
                      IPPROTO_ROUTING, IPPROTO_AH, IPPROTO_FRAGMENT
  <1>5. CASE p = IPPROTO_AH
    BY <1>3, <1>5 DEF ExtensionOctets, ExtensionLength, IPPROTO_HOPOPTS, IPPROTO_DSTOPTS,
                      IPPROTO_ROUTING, IPPROTO_AH, IPPROTO_FRAGMENT
  <1>6. CASE p = IPPROTO_FRAGMENT
    BY <1>6 DEF ExtensionOctets, ExtensionLength, IPPROTO_HOPOPTS, IPPROTO_DSTOPTS,
                IPPROTO_ROUTING, IPPROTO_AH, IPPROTO_FRAGMENT
  <1> QED
    BY <1>4, <1>5, <1>6 DEF IsExtension

\* One extension header, and what is behind it.
LEMMA LayoutOfExtension ==
  ASSUME NEW f \in Frames, WellFormed(f), EtherType(f) = ETHERTYPE_IPV6,
         NEW i \in 1..Extensions(f)
  PROVE  /\ IsExtension(NextHeader(f, i)) /\ NextHeader(f, i) # IPPROTO_ROUTING
         /\ ToByte(ip6e_len(f, f.places[i])) = ip6e_len(f, f.places[i])
         /\ f.places[i + 1] = f.places[i] + ExtensionLength(f, f.places[i], NextHeader(f, i))
         /\ NextHeader(f, i + 1) = ip6e_nxt(f, f.places[i])
         /\ NextHeader(f, i) \in Octet
  <1>1. IPv6Layout(f)
    BY DEF WellFormed
  <1>2. /\ IsExtension(NextHeader(f, i)) /\ NextHeader(f, i) # IPPROTO_ROUTING
        /\ ip6e_len(f, f.places[i]) <= 127
        /\ f.places[i + 1] = f.places[i] + ExtensionOctets(f, f.places[i], NextHeader(f, i))
    BY <1>1 DEF IPv6Layout
  <1>3. Extensions(f) \in Nat /\ Len(f.places) = Extensions(f) + 1 /\ f.places \in Seq(Nat)
    BY LayoutOfIPv6
  <1>4. f.places[i] \in Int
    BY <1>3
  <1>5. ip6e_len(f, f.places[i]) \in Octet
    BY <1>4, OctetAtType DEF ip6e_len
  <1>6. ToByte(ip6e_len(f, f.places[i])) = ip6e_len(f, f.places[i])
    BY <1>2, <1>5, ToByteKeeps DEF Octet
  <1>7. NextHeader(f, i + 1) = ip6e_nxt(f, f.places[i])
    BY DEF NextHeader
  <1>8. NextHeader(f, i) \in Octet
    BY <1>2 DEF IsExtension, IPPROTO_HOPOPTS, IPPROTO_DSTOPTS, IPPROTO_ROUTING, IPPROTO_AH,
                IPPROTO_FRAGMENT, Octet
  <1>9. f.places[i + 1] = f.places[i] + ExtensionLength(f, f.places[i], NextHeader(f, i))
    BY <1>2, <1>4, ExtensionOctetsTaken
  <1> QED
    BY <1>2, <1>6, <1>7, <1>8, <1>9

LEMMA NoAdvance == ASSUME NEW f, NEW at, NEW p, p # IPPROTO_ROUTING PROVE RoutingAdvance(f, at, p) = 0
  BY DEF RoutingAdvance

LEMMA OptionAppended ==
  ASSUME NEW f \in Frames, WellFormed(f), EtherType(f) = ETHERTYPE_IPV6,
         NEW k \in Nat, k + 1 \in 1..Extensions(f), NEW options, OptionsMade(f, options, k)
  PROVE  OptionsMade(f, Append(options, IPv6Option(f, f.places[k + 1], NextHeader(f, k + 1))), k + 1)
  <1> DEFINE S == {IPv6Option(f, f.places[i], p) : i \in 1..Len(f.places), p \in Octet}
             e == IPv6Option(f, f.places[k + 1], NextHeader(f, k + 1))
  <1>1. /\ IsExtension(NextHeader(f, k + 1)) /\ NextHeader(f, k + 1) # IPPROTO_ROUTING
        /\ ToByte(ip6e_len(f, f.places[k + 1])) = ip6e_len(f, f.places[k + 1])
        /\ NextHeader(f, k + 1) \in Octet
    BY LayoutOfExtension
  <1>2. Extensions(f) \in Nat /\ Len(f.places) = Extensions(f) + 1
    BY LayoutOfIPv6
  <1>3. k + 1 \in 1..Len(f.places)
    BY <1>2
  <1>4. e \in S
    BY <1>1, <1>3
  <1>5. e.type = NextHeader(f, k + 1) /\ e.hlen = ip6e_len(f, f.places[k + 1])
    BY <1>1, OptionRecord
  <1>6. /\ options \in Seq(S) /\ Len(options) = k
        /\ \A i \in 1..k : <<options[i].type, options[i].hlen>> = ChainOf(f, k)[i]
    BY DEF OptionsMade
  <1> HIDE DEF S, e
  <1>7. /\ Append(options, e) \in Seq(S) /\ Len(Append(options, e)) = k + 1
        /\ \A i \in 1..k : Append(options, e)[i] = options[i]
        /\ Append(options, e)[k + 1] = e
    BY <1>4, <1>6
  <1>8. ASSUME NEW i \in 1..k + 1
        PROVE  <<Append(options, e)[i].type, Append(options, e)[i].hlen>> = ChainOf(f, k + 1)[i]
    <2>1. ChainOf(f, k + 1)[i] = <<NextHeader(f, i), ip6e_len(f, f.places[i])>>
      BY DEF ChainOf
    <2>2. CASE i = k + 1
      BY <1>5, <1>7, <2>1, <2>2
    <2>3. CASE i # k + 1
      <3>1. i \in 1..k
        BY <2>3
      <3>2. <<options[i].type, options[i].hlen>> = <<NextHeader(f, i), ip6e_len(f, f.places[i])>>
        BY <1>6, <3>1 DEF ChainOf
      <3> QED
        BY <1>7, <2>1, <3>1, <3>2
    <2> QED
      BY <2>2, <2>3
  <1>9. OptionsMade(f, Append(options, e), k + 1)
    BY <1>7, <1>8 DEF OptionsMade, S
  <1> QED
    BY <1>9 DEF e

LEMMA IPAnalyzed ==
  ASSUME TypeOK, WellFormed(frame), EtherType(frame) = ETHERTYPE_IP, data = Start(frame), AnalyzeIP
  PROVE  clen' = PacketLength(frame) /\ hlen' = NetworkHeader(frame)
  <1>1. frame \in Frames
    BY DEF TypeOK
  <1>2. /\ NetworkHeader(frame) = ip_hl(frame, Start(frame)) * 4
        /\ PacketLength(frame) = WordAt(frame, Start(frame) + 2)
    BY <1>1, LayoutOfIP
  <1>3. clen' = ToShort(PacketLength(frame)) /\ hlen' = NetworkHeader(frame)
    BY <1>2 DEF AnalyzeIP
  <1>4. /\ NetworkHeader(frame) \in Int /\ 0 <= NetworkHeader(frame)
        /\ CarriedHeader(frame) \in Int /\ 0 <= CarriedHeader(frame)
        /\ NetworkHeader(frame) + CarriedHeader(frame) <= PacketLength(frame)
        /\ PacketLength(frame) \in Int /\ PacketLength(frame) <= 32767
    BY <1>1, LayoutNumbers
  <1>5. -32768 <= PacketLength(frame) /\ PacketLength(frame) \in Int /\ PacketLength(frame) <= 32767
    BY <1>4
  <1>6. ToShort(PacketLength(frame)) = PacketLength(frame)
    BY <1>5, ToShortKeeps
  <1> QED
    BY <1>3, <1>6

LEMMA IPv6Analyzed ==
  ASSUME TypeOK, WellFormed(frame), EtherType(frame) = ETHERTYPE_IPV6, data = Start(frame), AnalyzeIPv6
  PROVE  /\ clen' = PacketLength(frame) /\ hlen' = 40
         /\ ext' = frame.places[1] /\ ext' = Start(frame) + 40 /\ proto' = NextHeader(frame, 1)
  <1>1. frame \in Frames
    BY DEF TypeOK
  <1>2. /\ PacketLength(frame) = 40 + ip6_plen(frame, Start(frame))
        /\ frame.places[1] = Start(frame) + 40
    BY <1>1, LayoutOfIPv6
  <1>3. /\ clen' = ToShort(ToShort(ip6_plen(frame, Start(frame))) + 40) /\ hlen' = 40
        /\ ext' = Start(frame) + 40 /\ proto' = ip6_nxt(frame, Start(frame))
    BY DEF AnalyzeIPv6
  <1>4. PacketLength(frame) \in Int /\ PacketLength(frame) <= 32767
    BY <1>1, LayoutNumbers
  <1>5. ip6_plen(frame, Start(frame)) \in Int /\ 0 <= ip6_plen(frame, Start(frame))
    <2>1. Start(frame) \in Int
      BY <1>1, LayoutNumbers
    <2>2. ip6_plen(frame, Start(frame)) \in UShort
      BY <1>1, <2>1, WordAtType DEF ip6_plen
    <2>3. ip6_plen(frame, Start(frame)) \in Int
      BY <2>2, ShortsAreInt
    <2> QED
      BY <2>2, <2>3, UShortBounds
  <1>6. /\ -32768 <= ip6_plen(frame, Start(frame)) /\ ip6_plen(frame, Start(frame)) <= 32767
        /\ ip6_plen(frame, Start(frame)) + 40 = PacketLength(frame) /\ -32768 <= PacketLength(frame)
    BY <1>2, <1>4, <1>5
  <1>7. ToShort(ip6_plen(frame, Start(frame))) = ip6_plen(frame, Start(frame))
    BY <1>5, <1>6, ToShortKeeps
  <1>8. ToShort(PacketLength(frame)) = PacketLength(frame)
    BY <1>4, <1>6, ToShortKeeps
  <1> QED
    BY <1>2, <1>3, <1>6, <1>7, <1>8 DEF NextHeader

LEMMA ARPAnalyzed ==
  ASSUME TypeOK, WellFormed(frame), EtherType(frame) = ETHERTYPE_ARP, data = Start(frame), AnalyzeARP
  PROVE  clen' = PacketLength(frame) /\ hlen' = NetworkHeader(frame)
  <1>1. frame \in Frames
    BY DEF TypeOK
  <1> QED
    BY <1>1, LayoutOfARP DEF AnalyzeARP

LEMMA OtherAnalyzed ==
  ASSUME TypeOK, WellFormed(frame), Others(EtherType(frame)), nproto = EtherType(frame), AnalyzeOther
  PROVE  clen' = PacketLength(frame) /\ hlen' = NetworkHeader(frame)
  <1>1. frame \in Frames /\ datalink_hlen = Start(frame)
    BY DEF TypeOK, datalink_hlen, Start
  <1>2. /\ NetworkHeader(frame) = 0 /\ PacketLength(frame) = Captured(frame)
        /\ EtherType(frame) = UNKNOWN_PROTO => Start(frame) = 0
    BY <1>1, LayoutOfOthers
  <1>3. /\ Captured(frame) = frame.caplen - Start(frame) /\ frame.caplen \in Int
        /\ Captured(frame) \in Int /\ 0 <= Captured(frame)
        /\ PacketLength(frame) <= 32767
    BY <1>1, LayoutNumbers
  <1>4. clen' = ToShort(Captured(frame)) /\ hlen' = 0
    <2>1. CASE nproto = UNKNOWN_PROTO
      <3>1. clen' = ToShort(frame.caplen) /\ hlen' = 0
        BY <2>1 DEF AnalyzeOther
      <3>2. frame.caplen = Captured(frame)
        BY <1>2, <1>3, <2>1
      <3> QED
        BY <3>1, <3>2
    <2>2. CASE nproto # UNKNOWN_PROTO
      <3>1. clen' = ToShort(frame.caplen - datalink_hlen) /\ hlen' = 0
        BY <2>2 DEF AnalyzeOther
      <3> QED
        BY <1>1, <1>3, <3>1
    <2> QED
      BY <2>1, <2>2
  <1>5. -32768 <= Captured(frame) /\ Captured(frame) <= 32767 /\ Captured(frame) \in Int
    BY <1>2, <1>3
  <1>6. ToShort(Captured(frame)) = Captured(frame)
    BY <1>5, ToShortKeeps
  <1> QED
    BY <1>2, <1>4, <1>6

\* The second pass starts behind the link header.
LEMMA DataAtStart ==
  ASSUME TypeOK, PlaceInv, WellFormed(frame), nproto = EtherType(frame),
         pc \in {"analyze", "options", "clamp"}
  PROVE  data = Start(frame)
  <1>1. frame \in Frames /\ datalink_hlen = Start(frame)
    BY DEF TypeOK, datalink_hlen, Start
  <1>2. data = IF nproto # UNKNOWN_PROTO THEN datalink_hlen ELSE 0
    BY DEF PlaceInv
  <1>3. CASE nproto = UNKNOWN_PROTO
    <2>1. Others(EtherType(frame))
      BY <1>3, Distinct DEF Others
    <2>2. Start(frame) = 0
      BY <1>1, <1>3, <2>1, LayoutOfOthers
    <2> QED
      BY <1>2, <1>3, <2>2
  <1> QED
    BY <1>1, <1>2, <1>3

LEMMA Clamped ==
  ASSUME TypeOK, WellFormed(frame), Found(frame, tproto), nproto = EtherType(frame),
         data = Start(frame), clen = PacketLength(frame), hlen = NetworkHeader(frame), Clamp
  PROVE  /\ clen' = Least(PacketLength(frame), Captured(frame)) - NetworkHeader(frame)
         /\ data' = Start(frame) + NetworkHeader(frame)
  <1> DEFINE cut == nproto # UNKNOWN_PROTO /\ tproto # UNKNOWN_PROTO
                      /\ UnsignedGreater(clen, frame.caplen - datalink_hlen)
             c == IF cut THEN ToShort(frame.caplen - datalink_hlen) ELSE clen
  <1>1. clen' = ToShort(c - hlen) /\ data' = data + hlen
    BY DEF Clamp
  <1>2. frame \in Frames /\ datalink_hlen = Start(frame)
    BY DEF TypeOK, datalink_hlen, Start
  <1>3. /\ Captured(frame) = frame.caplen - Start(frame)
        /\ Captured(frame) \in Int /\ 0 <= Captured(frame)
        /\ Start(frame) \in {0, 14, 22} /\ frame.caplen <= 32767 /\ frame.caplen \in Int
        /\ PacketLength(frame) \in Int /\ PacketLength(frame) <= 32767
        /\ NetworkHeader(frame) \in Int /\ 0 <= NetworkHeader(frame)
        /\ CarriedHeader(frame) \in Int /\ 0 <= CarriedHeader(frame)
        /\ NetworkHeader(frame) + CarriedHeader(frame) <= PacketLength(frame)
    BY <1>2, LayoutNumbers
  <1>4. /\ 0 <= PacketLength(frame) /\ Captured(frame) <= 32767 /\ NetworkHeader(frame) <= 32767
        /\ -32768 <= Captured(frame)
    BY <1>3
  <1>5. cut <=> nproto # UNKNOWN_PROTO /\ tproto # UNKNOWN_PROTO
                  /\ UnsignedGreater(PacketLength(frame), Captured(frame))
    BY <1>2, <1>3
  <1>6. UnsignedGreater(PacketLength(frame), Captured(frame)) <=> PacketLength(frame) > Captured(frame)
    BY <1>3, <1>4 DEF UnsignedGreater
  <1>7. ToShort(Captured(frame)) = Captured(frame)
    BY <1>3, <1>4, ToShortKeeps
  <1>8. c = IF cut THEN Captured(frame) ELSE PacketLength(frame)
    BY <1>2, <1>3, <1>7
  <1> HIDE DEF cut, c
  <1>9. PacketLength(frame) > Captured(frame) => nproto # UNKNOWN_PROTO /\ tproto # UNKNOWN_PROTO
    <2>1. tproto = UNKNOWN_PROTO => PacketLength(frame) <= Captured(frame)
      BY DEF Found
    <2>2. nproto = UNKNOWN_PROTO => PacketLength(frame) = Captured(frame)
      BY <1>2, LayoutOfOthers, Distinct DEF Others
    <2> QED
      BY <1>3, <2>1, <2>2
  <1>10. c = Least(PacketLength(frame), Captured(frame))
    <2>1. CASE PacketLength(frame) > Captured(frame)
      <3>1. c = Captured(frame)
        BY <1>5, <1>6, <1>8, <1>9, <2>1
      <3>2. ~(PacketLength(frame) < Captured(frame))
        BY <1>3, <2>1
      <3> QED
        BY <3>1, <3>2 DEF Least
    <2>2. CASE PacketLength(frame) <= Captured(frame)
      <3>1. ~(PacketLength(frame) > Captured(frame))
        BY <1>3, <2>2
      <3>2. c = PacketLength(frame)
        BY <1>5, <1>6, <1>8, <3>1
      <3>3. \A a, b \in Int : ~(a > b) => a < b \/ a = b
        OBVIOUS
      <3>4. PacketLength(frame) < Captured(frame) \/ PacketLength(frame) = Captured(frame)
        BY <1>3, <3>1, <3>3
      <3> QED
        BY <3>2, <3>4 DEF Least
    <2> QED
      BY <1>3, <2>1, <2>2
  <1>11. c \in Int /\ 0 <= c /\ c <= 32767
    BY <1>3, <1>4, <1>8
  <1>12. c - hlen \in Int /\ -32768 <= c - hlen /\ c - hlen <= 32767
    BY <1>3, <1>4, <1>11
  <1>13. ToShort(c - hlen) = c - hlen
    BY <1>12, ToShortKeeps
  <1> QED
    BY <1>1, <1>10, <1>13

\* The header that the second pass reads is the one carried.
LEMMA FoundHeader ==
  ASSUME Found(frame, tproto), data = Start(frame) + NetworkHeader(frame)
  PROVE  TransportLength = CarriedHeader(frame)
  <1>1. CASE tproto = IPPROTO_TCP
    BY <1>1 DEF TransportLength, CarriedHeader, Found
  <1>2. CASE tproto = IPPROTO_UDP
    BY <1>2, Distinct DEF TransportLength, CarriedHeader, Found
  <1>3. CASE tproto = IPPROTO_ICMP
    BY <1>3, Distinct DEF TransportLength, CarriedHeader, Found
  <1>4. CASE tproto \notin Transports
    BY <1>4 DEF TransportLength, CarriedHeader, Found, Transports
  <1> QED
    BY <1>1, <1>2, <1>3, <1>4 DEF Transports

LEMMA Transported ==
  ASSUME TypeOK, PacketShape, WellFormed(frame), Found(frame, tproto), Transport,
         clen = Least(PacketLength(frame), Captured(frame)) - NetworkHeader(frame),
         data = Start(frame) + NetworkHeader(frame)
  PROVE  packet'.header = frame.payload.at /\ packet'.data = frame.payload.len
  <1>1. frame \in Frames
    BY DEF TypeOK
  <1>2. TransportLength = CarriedHeader(frame)
    BY FoundHeader
  <1>3. /\ hlen' = IF CarriedHeader(frame) > clen THEN clen ELSE CarriedHeader(frame)
        /\ clen' = clen - hlen' /\ data' = data + hlen'
    BY <1>2, Zenon DEF Transport
  <1>4. packet'.header = ToShort(data') /\ packet'.data = clen'
    BY TransportObject
  <1>5. /\ Captured(frame) = frame.caplen - Start(frame)
        /\ Captured(frame) \in Int
        /\ Start(frame) \in {0, 14, 22} /\ frame.caplen <= 32767 /\ frame.caplen \in Int
        /\ PacketLength(frame) \in Int
        /\ NetworkHeader(frame) \in Int /\ 0 <= NetworkHeader(frame)
        /\ CarriedHeader(frame) \in Int /\ 0 <= CarriedHeader(frame)
        /\ NetworkHeader(frame) + CarriedHeader(frame) <= PacketLength(frame)
        /\ NetworkHeader(frame) + CarriedHeader(frame) <= Captured(frame)
    BY <1>1, LayoutNumbers
  <1>6. /\ Least(PacketLength(frame), Captured(frame)) \in Int
        /\ NetworkHeader(frame) + CarriedHeader(frame) <= Least(PacketLength(frame), Captured(frame))
    BY <1>5 DEF Least
  <1>7. hlen' = CarriedHeader(frame)
    BY <1>3, <1>5, <1>6
  <1>8. /\ data' = Start(frame) + (NetworkHeader(frame) + CarriedHeader(frame))
        /\ clen' = Least(PacketLength(frame), Captured(frame))
                     - (NetworkHeader(frame) + CarriedHeader(frame))
    BY <1>3, <1>5, <1>6, <1>7
  <1>9. data' = frame.payload.at /\ clen' = frame.payload.len
    BY <1>1, <1>8, LayoutPayload
  <1>10. data' \in Int /\ -32768 <= data' /\ data' <= 32767
    BY <1>5, <1>8
  <1>11. ToShort(data') = data'
    BY <1>10, ToShortKeeps
  <1> QED
    BY <1>4, <1>9, <1>11

LEMMA OptionTaken ==
  ASSUME TypeOK, PacketShape, WellFormed(frame), EtherType(frame) = ETHERTYPE_IPV6, OptionHeader,
         NEW k \in 0..Extensions(frame), OptionsMade(frame, packet.options, k),
         ext = frame.places[k + 1], proto = NextHeader(frame, k + 1), hlen = ext - Start(frame)
  PROVE  /\ k + 1 \in 0..Extensions(frame) /\ OptionsMade(frame, packet'.options, k + 1)
         /\ ext' = frame.places[(k + 1) + 1] /\ proto' = NextHeader(frame, (k + 1) + 1)
         /\ hlen' = ext' - Start(frame)
  <1>1. frame \in Frames
    BY DEF TypeOK
  <1>2. /\ Extensions(frame) \in Nat /\ Len(frame.places) = Extensions(frame) + 1
        /\ ~IsExtension(NextHeader(frame, Extensions(frame) + 1))
        /\ \A i \in 1..Len(frame.places) :
             /\ frame.places[i] \in Int /\ Start(frame) + 40 <= frame.places[i]
             /\ frame.places[i] <= frame.caplen
    BY <1>1, LayoutOfIPv6
  <1>3. IsExtension(proto)
    BY DEF OptionHeader
  <1>4. k # Extensions(frame)
    BY <1>2, <1>3
  <1>5. k \in Nat /\ k + 1 \in 1..Extensions(frame) /\ k + 1 \in 0..Extensions(frame)
    BY <1>2, <1>4
  <1>6. /\ NextHeader(frame, k + 1) # IPPROTO_ROUTING
        /\ frame.places[(k + 1) + 1]
             = frame.places[k + 1] + ExtensionLength(frame, frame.places[k + 1], NextHeader(frame, k + 1))
        /\ NextHeader(frame, (k + 1) + 1) = ip6e_nxt(frame, frame.places[k + 1])
    BY <1>1, <1>5, LayoutOfExtension
  <1>7. OptionsMade(frame, Append(packet.options, IPv6Option(frame, ext, proto)), k + 1)
    BY <1>1, <1>5, OptionAppended
  <1>8. OptionsMade(frame, packet'.options, k + 1)
    <2>1. packet'.options = Append(packet.options, IPv6Option(frame, ext, proto))
      BY OptionObject
    <2> QED
      BY <1>7, <2>1
  <1>9. RoutingAdvance(frame, ext, proto) = 0
    BY <1>6, NoAdvance
  <1>10. /\ ext \in Int /\ Start(frame) \in Int /\ frame.caplen \in Int
         /\ 0 <= Start(frame) /\ frame.caplen <= 32767
         /\ ExtensionLength(frame, ext, proto) \in Nat
    <2>1. ext \in Int
      BY DEF TypeOK
    <2> QED
      BY <1>1, <2>1, LayoutNumbers, ExtensionLengthType
  <1>11. /\ hlen' = ToShort(hlen + ExtensionLength(frame, ext, proto))
         /\ ext' = ext + 0 + ExtensionLength(frame, ext, proto)
         /\ proto' = ip6e_nxt(frame, ext)
    BY <1>9, OptionStep
  <1>12. ext' = frame.places[(k + 1) + 1] /\ proto' = NextHeader(frame, (k + 1) + 1)
    BY <1>6, <1>10, <1>11
  <1>13. /\ ext' \in Int /\ Start(frame) + 40 <= ext' /\ ext' <= frame.caplen
    <2>1. (k + 1) + 1 \in 1..Len(frame.places)
      BY <1>2, <1>5
    <2> QED
      BY <1>2, <1>12, <2>1
  <1>14. hlen + ExtensionLength(frame, ext, proto) = ext' - Start(frame)
    BY <1>10, <1>11
  <1>15. ext' - Start(frame) \in Int /\ -32768 <= ext' - Start(frame) /\ ext' - Start(frame) <= 32767
    BY <1>10, <1>13
  <1>16. hlen' = ext' - Start(frame)
    BY <1>11, <1>14, <1>15, ToShortKeeps
  <1> QED
    BY <1>5, <1>8, <1>12, <1>16

LEMMA OptionsTaken ==
  ASSUME TypeOK, WellFormed(frame), EtherType(frame) = ETHERTYPE_IPV6, EndOptions,
         NEW k \in 0..Extensions(frame), OptionsMade(frame, packet.options, k),
         ext = frame.places[k + 1], proto = NextHeader(frame, k + 1), hlen = ext - Start(frame)
  PROVE  AllOptionsMade(frame, packet.options) /\ hlen = NetworkHeader(frame)
  <1>1. frame \in Frames
    BY DEF TypeOK
  <1>2. /\ Extensions(frame) \in Nat
        /\ \A i \in 1..Extensions(frame) : IsExtension(NextHeader(frame, i))
        /\ NetworkHeader(frame) = frame.places[Extensions(frame) + 1] - Start(frame)
    BY <1>1, LayoutOfIPv6
  <1>3. ~IsExtension(proto)
    BY DEF EndOptions
  <1>4. k + 1 \notin 1..Extensions(frame)
    BY <1>2, <1>3
  <1>5. k = Extensions(frame)
    BY <1>2, <1>4
  <1> QED
    BY <1>2, <1>5 DEF AllOptionsMade

\* Where the network header is read whole in one step.
LEMMA ClampNext ==
  ASSUME pc' = "clamp", frame' = frame, clen' = PacketLength(frame), hlen' = NetworkHeader(frame),
         AllOptionsMade(frame, packet'.options)
  PROVE  SecondPassRight'
  BY DEF SecondPassRight

LEMMA SecondPassStep ==
  ASSUME FramesAreWellFormed, TypeOK, PacketShape, ProtocolsInv, ObjectInv, PlaceInv,
         frame.headers => FirstPassRight /\ SecondPassRight, [Next]_vars, frame'.headers
  PROVE  SecondPassRight'
  <1>1. CASE pc' \in {"frame", "link", "network", "walk", "create"}
    BY <1>1 DEF SecondPassRight
  <1>2. ASSUME UNCHANGED frame
        PROVE  FirstPassRight /\ SecondPassRight /\ WellFormed(frame) /\ frame \in Frames
    BY <1>2 DEF FramesAreWellFormed, TypeOK
  <1>3. ASSUME UNCHANGED frame, pc \in {"analyze", "options", "clamp", "transport", "done"}
        PROVE  nproto = EtherType(frame) /\ Found(frame, tproto)
    BY <1>2, <1>3 DEF FirstPassRight
  <1>4. ASSUME UNCHANGED frame, pc \in {"analyze", "options", "clamp"}
        PROVE  data = Start(frame)
    BY <1>2, <1>3, <1>4, DataAtStart
  <1>5. CASE Create
    <2>1. pc = "create" /\ pc' = "analyze"
      BY <1>5 DEF Create
    <2>2. packet'.options = packet.options
      BY <1>5, CreateObject
    <2>3. packet.options = <<>>
      BY <2>1 DEF ObjectInv
    <2> QED
      BY <2>1, <2>2, <2>3 DEF SecondPassRight
  <1>6. ASSUME UNCHANGED frame, pc = "analyze", EtherType(frame) # ETHERTYPE_IPV6
        PROVE  AllOptionsMade(frame, packet.options)
    <2>1. packet.options = <<>>
      BY <1>2, <1>6 DEF SecondPassRight
    <2> QED
      BY <1>6, <2>1, NoOptionsAtAll
  <1>7. CASE AnalyzeIP
    <2>1. /\ pc = "analyze" /\ pc' = "clamp" /\ UNCHANGED frame /\ nproto = ETHERTYPE_IP
          /\ packet' = [packet EXCEPT !.network = analyze_ip(frame, data)]
      BY <1>7 DEF AnalyzeIP
    <2>2. EtherType(frame) = ETHERTYPE_IP /\ data = Start(frame) /\ WellFormed(frame)
      BY <1>2, <1>3, <1>4, <2>1
    <2>3. clen' = PacketLength(frame) /\ hlen' = NetworkHeader(frame)
      BY <1>7, <2>2, IPAnalyzed
    <2>4. packet'.options = packet.options
      BY <2>1 DEF PacketShape
    <2>5. AllOptionsMade(frame, packet.options)
      BY <1>6, <2>1, <2>2, Distinct
    <2>6. AllOptionsMade(frame, packet'.options)
      BY <2>4, <2>5
    <2> QED
      BY <2>1, <2>3, <2>6, ClampNext
  <1>8. CASE AnalyzeARP
    <2>1. /\ pc = "analyze" /\ pc' = "clamp" /\ UNCHANGED frame /\ nproto = ETHERTYPE_ARP
          /\ packet' = [packet EXCEPT !.network = analyze_arp(frame, data)]
      BY <1>8 DEF AnalyzeARP
    <2>2. EtherType(frame) = ETHERTYPE_ARP /\ data = Start(frame) /\ WellFormed(frame)
      BY <1>2, <1>3, <1>4, <2>1
    <2>3. clen' = PacketLength(frame) /\ hlen' = NetworkHeader(frame)
      BY <1>8, <2>2, ARPAnalyzed
    <2>4. packet'.options = packet.options
      BY <2>1 DEF PacketShape
    <2>5. AllOptionsMade(frame, packet.options)
      BY <1>6, <2>1, <2>2, Distinct
    <2>6. AllOptionsMade(frame, packet'.options)
      BY <2>4, <2>5
    <2> QED
      BY <2>1, <2>3, <2>6, ClampNext
  <1>9. CASE AnalyzeOther
    <2>1. /\ pc = "analyze" /\ pc' = "clamp" /\ UNCHANGED <<frame, packet>>
          /\ nproto \notin {ETHERTYPE_IP, ETHERTYPE_IPV6, ETHERTYPE_ARP}
      BY <1>9 DEF AnalyzeOther
    <2>2. nproto = EtherType(frame) /\ WellFormed(frame)
      BY <1>2, <1>3, <2>1
    <2>3. Others(EtherType(frame)) /\ EtherType(frame) # ETHERTYPE_IPV6
      BY <2>1, <2>2 DEF Others
    <2>4. clen' = PacketLength(frame) /\ hlen' = NetworkHeader(frame)
      BY <1>9, <2>2, <2>3, OtherAnalyzed
    <2>5. AllOptionsMade(frame, packet.options)
      BY <1>6, <2>1, <2>3
    <2>6. AllOptionsMade(frame, packet'.options)
      BY <2>1, <2>5
    <2> QED
      BY <2>1, <2>4, <2>6, ClampNext
  <1>10. CASE AnalyzeIPv6
    <2>1. /\ pc = "analyze" /\ pc' = "options" /\ UNCHANGED frame /\ nproto = ETHERTYPE_IPV6
          /\ packet' = [packet EXCEPT !.network = Ip6Fields(frame, data)]
      BY <1>10 DEF AnalyzeIPv6
    <2>2. EtherType(frame) = ETHERTYPE_IPV6 /\ data = Start(frame) /\ WellFormed(frame)
          /\ frame \in Frames
      BY <1>2, <1>3, <1>4, <2>1
    <2>3. /\ clen' = PacketLength(frame) /\ hlen' = 40
          /\ ext' = frame.places[1] /\ ext' = Start(frame) + 40 /\ proto' = NextHeader(frame, 1)
      BY <1>10, <2>2, IPv6Analyzed
    <2>4. packet'.options = <<>>
      <3>1. packet'.options = packet.options
        BY <2>1 DEF PacketShape
      <3>2. packet.options = <<>>
        BY <1>2, <2>1 DEF SecondPassRight
      <3> QED
        BY <3>1, <3>2
    <2>5. Start(frame) \in Int /\ Extensions(frame) \in Nat
      BY <2>2, LayoutNumbers, LayoutOfIPv6
    <2>6. hlen' = ext' - Start(frame) /\ 0 \in 0..Extensions(frame)
      BY <2>3, <2>5
    <2>7. OptionsMade(frame, packet'.options, 0)
      BY <2>4, NoOptions
    <2>8. ext' = frame.places[0 + 1] /\ proto' = NextHeader(frame, 0 + 1)
      <3>1. 0 + 1 = 1
        OBVIOUS
      <3> QED
        BY <2>3, <3>1, Zenon
    <2>9. \E k \in 0..Extensions(frame) :
            /\ OptionsMade(frame, packet'.options, k)
            /\ ext' = frame.places[k + 1] /\ proto' = NextHeader(frame, k + 1)
            /\ hlen' = ext' - Start(frame) /\ clen' = PacketLength(frame)
      BY <2>3, <2>6, <2>7, <2>8, Zenon
    <2> QED
      BY <2>1, <2>9 DEF SecondPassRight
  <1>11. ASSUME UNCHANGED frame, pc = "options"
         PROVE  \E k \in 0..Extensions(frame) :
                  /\ OptionsMade(frame, packet.options, k)
                  /\ ext = frame.places[k + 1] /\ proto = NextHeader(frame, k + 1)
                  /\ hlen = ext - Start(frame) /\ clen = PacketLength(frame)
    BY <1>2, <1>11 DEF SecondPassRight
  <1>12. CASE OptionHeader
    <2>1. pc = "options" /\ pc' = "options" /\ UNCHANGED <<frame, clen>>
      BY <1>12, OptionStep DEF OptionHeader
    <2>2. EtherType(frame) = ETHERTYPE_IPV6 /\ WellFormed(frame)
      BY <1>2, <1>3, <2>1 DEF ProtocolsInv
    <2>3. PICK k \in 0..Extensions(frame) :
            /\ OptionsMade(frame, packet.options, k)
            /\ ext = frame.places[k + 1] /\ proto = NextHeader(frame, k + 1)
            /\ hlen = ext - Start(frame) /\ clen = PacketLength(frame)
      BY <1>11, <2>1
    <2>4. /\ k + 1 \in 0..Extensions(frame) /\ OptionsMade(frame, packet'.options, k + 1)
          /\ ext' = frame.places[(k + 1) + 1] /\ proto' = NextHeader(frame, (k + 1) + 1)
          /\ hlen' = ext' - Start(frame)
      BY <1>12, <2>2, <2>3, OptionTaken
    <2>5. \E j \in 0..Extensions(frame) :
            /\ OptionsMade(frame, packet'.options, j)
            /\ ext' = frame.places[j + 1] /\ proto' = NextHeader(frame, j + 1)
            /\ hlen' = ext' - Start(frame) /\ clen' = PacketLength(frame)
      BY <2>1, <2>3, <2>4
    <2> QED
      BY <2>1, <2>5 DEF SecondPassRight
  <1>13. CASE EndOptions
    <2>1. pc = "options" /\ pc' = "clamp" /\ UNCHANGED <<frame, clen, hlen, packet>>
      BY <1>13 DEF EndOptions
    <2>2. EtherType(frame) = ETHERTYPE_IPV6 /\ WellFormed(frame)
      BY <1>2, <1>3, <2>1 DEF ProtocolsInv
    <2>3. PICK k \in 0..Extensions(frame) :
            /\ OptionsMade(frame, packet.options, k)
            /\ ext = frame.places[k + 1] /\ proto = NextHeader(frame, k + 1)
            /\ hlen = ext - Start(frame) /\ clen = PacketLength(frame)
      BY <1>11, <2>1
    <2>4. AllOptionsMade(frame, packet.options) /\ hlen = NetworkHeader(frame)
      BY <1>13, <2>2, <2>3, OptionsTaken
    <2>5. /\ AllOptionsMade(frame, packet'.options) /\ hlen' = NetworkHeader(frame)
          /\ clen' = PacketLength(frame)
      BY <2>1, <2>3, <2>4
    <2> QED
      BY <2>1, <2>5, ClampNext
  <1>14. CASE Clamp
    <2>1. pc = "clamp" /\ pc' = "transport" /\ UNCHANGED <<frame, packet>>
      BY <1>14 DEF Clamp
    <2>2. /\ nproto = EtherType(frame) /\ Found(frame, tproto) /\ data = Start(frame)
          /\ WellFormed(frame)
      BY <1>2, <1>3, <1>4, <2>1
    <2>3. /\ clen = PacketLength(frame) /\ hlen = NetworkHeader(frame)
          /\ AllOptionsMade(frame, packet.options)
      BY <1>2, <2>1 DEF SecondPassRight
    <2>4. /\ clen' = Least(PacketLength(frame), Captured(frame)) - NetworkHeader(frame)
          /\ data' = Start(frame) + NetworkHeader(frame)
      BY <1>14, <2>2, <2>3, Clamped
    <2>5. AllOptionsMade(frame, packet'.options)
      BY <2>1, <2>3
    <2> QED
      BY <2>1, <2>4, <2>5 DEF SecondPassRight
  <1>15. CASE Transport
    <2>1. pc = "transport" /\ pc' = "done" /\ UNCHANGED frame
      BY <1>15 DEF Transport
    <2>2. Found(frame, tproto) /\ WellFormed(frame)
      BY <1>2, <1>3, <2>1
    <2>3. /\ clen = Least(PacketLength(frame), Captured(frame)) - NetworkHeader(frame)
          /\ data = Start(frame) + NetworkHeader(frame)
          /\ AllOptionsMade(frame, packet.options)
      BY <1>2, <2>1 DEF SecondPassRight
    <2>4. packet'.header = frame.payload.at /\ packet'.data = frame.payload.len
      BY <1>15, <2>2, <2>3, Transported
    <2>5. packet'.options = packet.options
      BY <1>15, TransportObject
    <2>6. AllOptionsMade(frame, packet'.options)
      BY <2>3, <2>5
    <2> QED
      BY <2>1, <2>4, <2>6 DEF SecondPassRight
  <1>16. CASE UNCHANGED vars
    <2>1. UNCHANGED <<frame, pc, clen, hlen, data, ext, proto, packet>>
      BY <1>16 DEF vars
    <2> QED
      BY <1>2, <2>1 DEF SecondPassRight
  <1>17. CASE NextFrame \/ Link \/ NothingLeft \/ FirstPassIP \/ FirstPassIPv6 \/ FirstPassARP
              \/ FirstPassOther \/ WalkExtension \/ EndWalk
    <2>1. pc' \in {"link", "network", "create", "walk"}
      BY <1>17 DEF NextFrame, Link, NothingLeft, FirstPassIP, FirstPassIPv6, FirstPassARP,
                  FirstPassOther, WalkExtension, EndWalk
    <2> QED
      BY <1>1, <2>1
  <1> QED
    BY <1>5, <1>7, <1>8, <1>9, <1>10, <1>12, <1>13, <1>14, <1>15, <1>16, <1>17 DEF Next

-----------------------------------------------------------------------------
(* Frames that are as the standards have them *)

LEMMA LayoutInit == Init => LayoutInv
  BY DEF Init, LayoutInv, FirstPassRight, SecondPassRight

LEMMA LayoutNext ==
  ASSUME FramesAreWellFormed PROVE Inv /\ LayoutInv /\ [Next]_vars => LayoutInv'
  <1> SUFFICES ASSUME Inv, LayoutInv, [Next]_vars, frame'.headers
               PROVE  FirstPassRight' /\ SecondPassRight'
    BY DEF LayoutInv
  <1>1. TypeOK /\ PacketShape /\ ProtocolsInv /\ ObjectInv /\ PlaceInv
    BY DEF Inv
  <1>2. /\ frame.headers => FirstPassRight
        /\ frame.headers => FirstPassRight /\ SecondPassRight
    BY DEF LayoutInv
  <1>3. FirstPassRight'
    BY <1>1, <1>2, FirstPassStep
  <1>4. SecondPassRight'
    BY <1>1, <1>2, SecondPassStep
  <1> QED
    BY <1>3, <1>4

LEMMA LayoutAlways ==
  ASSUME FramesAreWellFormed PROVE Spec => [](Inv /\ LayoutInv)
  <1>1. Inv /\ LayoutInv /\ [Next]_vars => LayoutInv'
    BY LayoutNext
  <1> QED
    BY <1>1, LayoutInit, InvInit, InvNext, PTL DEF Spec

LEMMA LayoutDone ==
  ASSUME FramesAreWellFormed, Inv, LayoutInv, Done, frame.headers
  PROVE  /\ frame \in Frames /\ WellFormed(frame)
         /\ nproto = EtherType(frame) /\ Found(frame, tproto)
         /\ packet.class = ClassOf(tproto, nproto)
         /\ AllOptionsMade(frame, packet.options)
         /\ packet.header = frame.payload.at /\ packet.data = frame.payload.len
  <1>1. frame \in Frames /\ WellFormed(frame)
    BY DEF Inv, TypeOK, FramesAreWellFormed
  <1>2. FirstPassRight /\ SecondPassRight
    BY DEF LayoutInv
  <1>3. nproto = EtherType(frame) /\ Found(frame, tproto)
    BY <1>2 DEF FirstPassRight, Done
  <1>4. /\ AllOptionsMade(frame, packet.options)
        /\ packet.header = frame.payload.at /\ packet.data = frame.payload.len
    BY <1>2 DEF SecondPassRight, Done
  <1>5. packet.class = ClassOf(tproto, nproto)
    BY DEF Inv, ObjectInv, Done
  <1> QED
    BY <1>1, <1>3, <1>4, <1>5

\* The class that the protocols found make is the one of what is carried.
LEMMA ClassFound ==
  ASSUME NEW f \in Frames, WellFormed(f), NEW t, Found(f, t)
  PROVE  ClassOf(t, EtherType(f)) = f.carries
  <1>1. f.carries = ClassCarried(f)
    BY DEF WellFormed
  <1>2. CASE EtherType(f) \in {ETHERTYPE_IP, ETHERTYPE_IPV6}
    <2>1. ClassCarried(f) = CASE CarriedProtocol(f) = IPPROTO_TCP -> "TCPPacket"
                              [] CarriedProtocol(f) = IPPROTO_UDP -> "UDPPacket"
                              [] CarriedProtocol(f) = IPPROTO_ICMP -> "ICMPPacket"
                              [] OTHER -> "IPPacket"
      BY <1>2, Distinct DEF ClassCarried
    <2>2. CASE t = IPPROTO_TCP
      BY <1>1, <2>1, <2>2, ClassOfFacts, Distinct DEF Found
    <2>3. CASE t = IPPROTO_UDP
      BY <1>1, <2>1, <2>3, ClassOfFacts, Distinct DEF Found
    <2>4. CASE t = IPPROTO_ICMP
      BY <1>1, <2>1, <2>4, ClassOfFacts, Distinct DEF Found
    <2>5. CASE t \notin Transports
      <3>1. ClassCarried(f) = "IPPacket"
        BY <2>1, <2>5 DEF Found, Transports
      <3>2. ClassOf(t, EtherType(f)) = "IPPacket"
        BY <1>2, <2>5 DEF ClassOf, Transports
      <3> QED
        BY <1>1, <3>1, <3>2
    <2> QED
      BY <2>2, <2>3, <2>4, <2>5 DEF Transports
  <1>3. CASE EtherType(f) = ETHERTYPE_ARP
    <2>1. CarriedProtocol(f) \notin Transports
      BY <1>3, LayoutOfARP, ExtensionNumbers
    <2>2. t \notin Transports
      BY <2>1 DEF Found, Transports
    <2>3. ClassOf(t, EtherType(f)) = "ARPPacket"
      BY <1>3, <2>2, ClassOfFacts DEF Transports
    <2>4. ClassCarried(f) = "ARPPacket"
      BY <1>3, Distinct DEF ClassCarried
    <2> QED
      BY <1>1, <2>3, <2>4
  <1>4. CASE Others(EtherType(f))
    <2>1. CarriedProtocol(f) \notin Transports /\ EtherType(f) # ETHERTYPE_REVARP
      BY <1>4, LayoutOfOthers, ExtensionNumbers
    <2>2. t \notin Transports
      BY <2>1 DEF Found, Transports
    <2>3. ClassOf(t, EtherType(f)) = "Packet"
      BY <1>4, <2>1, <2>2 DEF ClassOf, Others, Transports
    <2>4. ClassCarried(f) = "Packet"
      BY <1>4 DEF ClassCarried, Others
    <2> QED
      BY <1>1, <2>3, <2>4
  <1> QED
    BY <1>2, <1>3, <1>4 DEF Others

\* A frame whose headers are all there becomes an object of the class of what it
\* carries.
THEOREM ClassFitsHolds == ASSUME FramesAreWellFormed PROVE Spec => []ClassFits
  <1>1. Inv /\ LayoutInv => ClassFits
    <2> SUFFICES ASSUME Inv, LayoutInv, Done, frame.headers PROVE packet.class = frame.carries
      BY DEF ClassFits
    <2>1. /\ frame \in Frames /\ WellFormed(frame) /\ nproto = EtherType(frame)
          /\ Found(frame, tproto) /\ packet.class = ClassOf(tproto, nproto)
      BY LayoutDone
    <2> QED
      BY <2>1, ClassFound
  <1> QED
    BY <1>1, LayoutAlways, PTL

\* The data of the object is the payload of such a frame, all of it and nothing
\* else.
THEOREM PayloadExactHolds == ASSUME FramesAreWellFormed PROVE Spec => []PayloadExact
  <1>1. Inv /\ LayoutInv => PayloadExact
    BY LayoutDone DEF PayloadExact
  <1> QED
    BY <1>1, LayoutAlways, PTL

LEMMA OptionsOfLayout ==
  ASSUME NEW f \in Frames, WellFormed(f), NEW options, AllOptionsMade(f, options)
  PROVE  f.extensions = [i \in 1..Len(options) |-> <<options[i].type, options[i].hlen>>]
  <1>1. CASE EtherType(f) = ETHERTYPE_IPV6
    <2>1. OptionsMade(f, options, Extensions(f))
      BY <1>1 DEF AllOptionsMade
    <2>2. f.extensions = ChainOf(f, Extensions(f))
      BY <1>1, LayoutOfIPv6
    <2>3. /\ Len(options) = Extensions(f)
          /\ \A i \in 1..Extensions(f) :
               <<options[i].type, options[i].hlen>> = ChainOf(f, Extensions(f))[i]
      BY <2>1 DEF OptionsMade
    <2>4. \A i \in 1..Extensions(f) :
            <<options[i].type, options[i].hlen>>
              = <<NextHeader(f, i), ip6e_len(f, f.places[i])>>
      BY <2>3 DEF ChainOf
    <2>5. ChainOf(f, Extensions(f))
            = [i \in 1..Len(options) |-> <<options[i].type, options[i].hlen>>]
      BY <2>3, <2>4 DEF ChainOf
    <2> QED
      BY <2>2, <2>5
  <1>2. CASE EtherType(f) # ETHERTYPE_IPV6
    <2>1. OptionsMade(f, options, 0)
      BY <1>2 DEF AllOptionsMade
    <2>2. Len(options) = 0
      BY <2>1 DEF OptionsMade
    <2>3. f.extensions = <<>>
      BY <1>2, LayoutOfIP, LayoutOfARP, LayoutOfOthers DEF Others
    <2>4. [i \in 1..0 |-> <<options[i].type, options[i].hlen>>] = <<>>
      OBVIOUS
    <2> QED
      BY <2>2, <2>3, <2>4
  <1> QED
    BY <1>1, <1>2

\* The IPv6 options of the object are the extension headers of such a frame.
THEOREM OptionsInOrderHolds == ASSUME FramesAreWellFormed PROVE Spec => []OptionsInOrder
  <1>1. Inv /\ LayoutInv => OptionsInOrder
    <2> SUFFICES ASSUME Inv, LayoutInv, Done, frame.headers
                 PROVE  frame.extensions =
                          [i \in 1..Len(packet.options) |->
                             <<packet.options[i].type, packet.options[i].hlen>>]
      BY DEF OptionsInOrder
    <2>1. frame \in Frames /\ WellFormed(frame) /\ AllOptionsMade(frame, packet.options)
      BY LayoutDone
    <2> QED
      BY <2>1, OptionsOfLayout
  <1> QED
    BY <1>1, LayoutAlways, PTL

-----------------------------------------------------------------------------
(* Octets in a frame *)

\* The octets s lie in o, from "at" on.
Lies(o, at, s) ==
  /\ at \in Nat /\ s \in Seq(Int) /\ o \in Seq(Int)
  /\ at + Len(s) <= Len(o)
  /\ \A i \in 1..Len(s) : o[at + i] = s[i]

\* Octets lie in themselves.
LEMMA LiesWhole == ASSUME NEW s \in Seq(Int) PROVE Lies(s, 0, s)
  BY DEF Lies

\* What lies in octets lies in them when more are put behind them,
LEMMA LiesFirst ==
  ASSUME NEW o, NEW t \in Seq(Int), NEW at, NEW s, Lies(o, at, s)
  PROVE  Lies(o \o t, at, s)
  <1>1. o \in Seq(Int)
    BY DEF Lies
  <1>2. /\ o \o t \in Seq(Int) /\ Len(o \o t) = Len(o) + Len(t)
        /\ \A i \in 1..Len(o) : (o \o t)[i] = o[i]
    BY <1>1, ConcatProperties
  <1> QED
    BY <1>1, <1>2 DEF Lies

\* and further on when more are put in front of them.
LEMMA LiesBehind ==
  ASSUME NEW o, NEW t \in Seq(Int), NEW at, NEW s, Lies(o, at, s)
  PROVE  Lies(t \o o, Len(t) + at, s)
  <1>1. o \in Seq(Int)
    BY DEF Lies
  <1>2. /\ t \o o \in Seq(Int) /\ Len(t \o o) = Len(o) + Len(t)
        /\ \A i \in 1..Len(o) : (t \o o)[Len(t) + i] = o[i]
    BY <1>1, ConcatProperties
  <1>3. \A i \in 1..Len(s) : (t \o o)[(Len(t) + at) + i] = s[i]
    <2> TAKE i \in 1..Len(s)
    <2>1. at + i \in 1..Len(o) /\ o[at + i] = s[i]
      BY DEF Lies
    <2>2. (Len(t) + at) + i = Len(t) + (at + i)
      BY DEF Lies
    <2> QED
      BY <1>2, <2>1, <2>2
  <1>4. Len(t) \in Nat /\ at \in Nat /\ Len(s) \in Nat /\ Len(o) \in Nat /\ at + Len(s) <= Len(o)
    BY <1>1 DEF Lies
  <1>5. Len(t) + at \in Nat /\ (Len(t) + at) + Len(s) <= Len(t \o o)
    BY <1>2, <1>4
  <1>6. s \in Seq(Int)
    BY DEF Lies
  <1> QED
    BY ONLY <1>2, <1>3, <1>5, <1>6 DEF Lies

\* What lies in octets that lie in others lies in those.
LEMMA LiesWithin ==
  ASSUME NEW o, NEW m, NEW a, NEW s, NEW b, Lies(o, a, m), Lies(m, b, s)
  PROVE  Lies(o, a + b, s)
  <1>1. \A i \in 1..Len(s) : o[(a + b) + i] = s[i]
    <2> TAKE i \in 1..Len(s)
    <2>1. b + i \in 1..Len(m) /\ m[b + i] = s[i]
      BY DEF Lies
    <2>2. (a + b) + i = a + (b + i)
      BY DEF Lies
    <2> QED
      BY <2>1, <2>2 DEF Lies
  <1> QED
    BY <1>1 DEF Lies

\* An octet of a frame is that of the octets that lie there.
LEMMA OctetLies ==
  ASSUME NEW f, NEW at, NEW s, Lies(f.octets, at, s), NEW i \in 1..Len(s)
  PROVE  OctetAt(f, at + i - 1) = s[i]
  <1>1. /\ at \in Nat /\ i \in 1..Len(s) /\ Len(s) \in Nat /\ Len(f.octets) \in Nat
        /\ at + Len(s) <= Len(f.octets)
    BY DEF Lies
  <1>2. at + i \in 1..Len(f.octets) /\ (at + i - 1) + 1 = at + i
    BY <1>1
  <1>3. f.octets[at + i] = s[i]
    BY DEF Lies
  <1> QED
    BY <1>2, <1>3 DEF OctetAt

\* OctetsAt reads the octets that lie there.
LEMMA OctetsLie ==
  ASSUME NEW f, NEW at, NEW s, Lies(f.octets, at, s)
  PROVE  OctetsAt(f, at, Len(s)) = s
  <1>1. s \in Seq(Int)
    BY DEF Lies
  <1>2. s = [i \in 1..Len(s) |-> s[i]]
    BY <1>1
  <1>3. \A i \in 1..Len(s) : OctetAt(f, at + i - 1) = s[i]
    BY OctetLies
  <1> QED
    BY <1>2, <1>3 DEF OctetsAt

\* So it is with the first octet
LEMMA OctetAtFirst ==
  ASSUME NEW f, NEW at, NEW s, Lies(f.octets, at, s), Len(s) > 0
  PROVE  OctetAt(f, at) = s[1]
  <1>1. /\ at \in Nat /\ Len(s) \in Nat /\ Len(f.octets) \in Nat /\ at + Len(s) <= Len(f.octets)
        /\ \A i \in 1..Len(s) : f.octets[at + i] = s[i]
    BY DEF Lies
  <1>2. 1 \in 1..Len(s) /\ at + 1 \in 1..Len(f.octets) /\ at + 1 = at + 1
    BY <1>1
  <1>3. f.octets[at + 1] = s[1]
    BY <1>1, <1>2
  <1> QED
    BY <1>2, <1>3 DEF OctetAt

\* and the second.
LEMMA OctetAtSecond ==
  ASSUME NEW f, NEW at, NEW s, Lies(f.octets, at, s), Len(s) > 1
  PROVE  OctetAt(f, at + 1) = s[2]
  <1>1. /\ at \in Nat /\ Len(s) \in Nat /\ Len(f.octets) \in Nat /\ at + Len(s) <= Len(f.octets)
        /\ \A i \in 1..Len(s) : f.octets[at + i] = s[i]
    BY DEF Lies
  <1>2. 2 \in 1..Len(s) /\ at + 2 \in 1..Len(f.octets) /\ (at + 1) + 1 = at + 2
    BY <1>1
  <1>3. f.octets[at + 2] = s[2]
    BY <1>1, <1>2
  <1> QED
    BY <1>2, <1>3 DEF OctetAt

\* Two numbers as a sequence.
LEMMA PairType ==
  ASSUME NEW a \in Int, NEW b \in Int
  PROVE  <<a, b>> \in Seq(Int) /\ Len(<<a, b>>) = 2 /\ <<a, b>>[1] = a /\ <<a, b>>[2] = b
  OBVIOUS

\* A word is two octets.
LEMMA WordOctetsType == ASSUME NEW n \in Int PROVE WordOctets(n) \in Seq(Int) /\ Len(WordOctets(n)) = 2
  BY PairType DEF WordOctets

\* WordAt reads the word whose octets lie there.
LEMMA WordLies ==
  ASSUME NEW f, NEW at, NEW n \in Int, Lies(f.octets, at, WordOctets(n))
  PROVE  WordAt(f, at) = n
  <1>1. Len(WordOctets(n)) = 2
    BY WordOctetsType
  <1>2. OctetAt(f, at) = WordOctets(n)[1] /\ OctetAt(f, at + 1) = WordOctets(n)[2]
    BY <1>1, OctetAtFirst, OctetAtSecond
  <1>3. WordOctets(n)[1] = n \div 256 /\ WordOctets(n)[2] = n % 256
    BY DEF WordOctets
  <1>4. (n \div 256) * 256 + (n % 256) = n
    OBVIOUS
  <1> QED
    BY <1>2, <1>3, <1>4 DEF WordAt

-----------------------------------------------------------------------------
(* Bits *)

\* A flag is a power of two or 0.
LEMMA FlagValue ==
  ASSUME NEW set \in BOOLEAN, NEW k \in 0..15
  PROVE  Flag(set, k) = IF set THEN 2^k ELSE 0
  BY DEF Flag

\* The powers of two that the flags of the headers are.
LEMMA Powers ==
  /\ 2^0 = 1 /\ 2^1 = 2 /\ 2^2 = 4 /\ 2^3 = 8 /\ 2^4 = 16 /\ 2^5 = 32 /\ 2^6 = 64 /\ 2^7 = 128
  /\ 2^13 = 8192 /\ 2^14 = 16384 /\ 2^15 = 32768
  OBVIOUS

Binary(set) == IF set THEN 1 ELSE 0

\* The bits of an octet that is made of eight.
LEMMA EightBits ==
  ASSUME NEW a \in 0..1, NEW b \in 0..1, NEW c \in 0..1, NEW d \in 0..1,
         NEW e \in 0..1, NEW g \in 0..1, NEW h \in 0..1, NEW i \in 0..1, NEW n \in Int,
         n = 128 * a + 64 * b + 32 * c + 16 * d + 8 * e + 4 * g + 2 * h + i
  PROVE  /\ 0 <= n /\ n <= 255
         /\ (n \div 128) % 2 = a /\ (n \div 64) % 2 = b /\ (n \div 32) % 2 = c /\ (n \div 16) % 2 = d
         /\ (n \div 8) % 2 = e /\ (n \div 4) % 2 = g /\ (n \div 2) % 2 = h /\ (n \div 1) % 2 = i
  OBVIOUS

-----------------------------------------------------------------------------
(* What the object has been given *)

\* The places at which nothing has been read into the object yet.
Unread == {"frame", "link", "network", "walk", "create"}

\* Nothing is said of an object before its headers are read.
LEMMA UnreadObject ==
  pc \in Unread => ObjectRead
  BY DEF Unread, ObjectRead

\* The types of the network protocols differ.
LEMMA NotOthers ==
  /\ ETHERTYPE_IP # UNKNOWN_PROTO /\ ETHERTYPE_IPV6 # UNKNOWN_PROTO /\ ETHERTYPE_ARP # UNKNOWN_PROTO
  /\ ETHERTYPE_IP # ETHERTYPE_IPV6 /\ ETHERTYPE_IP # ETHERTYPE_ARP /\ ETHERTYPE_IPV6 # ETHERTYPE_ARP
  BY DEF ETHERTYPE_IP, ETHERTYPE_IPV6, ETHERTYPE_ARP, UNKNOWN_PROTO

\* A step that leaves frame, network protocol and these parts of the object alone,
\* before the end.
LEMMA ReadKept ==
  ASSUME ObjectRead, pc \in {"options", "clamp", "transport"},
         pc' \in {"options", "clamp", "transport"}, frame' = frame, nproto' = nproto,
         packet'.datalink = packet.datalink, packet'.network = packet.network
  PROVE  ObjectRead'
  BY DEF ObjectRead, NetworkRead, Start

\* TransportHeader reads the header of the protocol that has been found.
LEMMA TransportFound ==
  ASSUME NEW left, NEW left2
  PROVE  LET t == TransportHeader(left, left2)
         IN CASE tproto = IPPROTO_TCP -> t = analyze_tcp(frame, data)
              [] tproto = IPPROTO_UDP -> t = analyze_udp(frame, data)
              [] tproto = IPPROTO_ICMP ->
                   /\ t.type = ToByte(OctetAt(frame, data)) /\ t.code = ToByte(OctetAt(frame, data + 1))
                   /\ OctetAt(frame, data) = ICMP_REDIRECT => t.redir_ip = LongAt(frame, data + 4)
              [] OTHER -> TRUE
  <1>1. CASE tproto = IPPROTO_TCP
    BY <1>1, Distinct DEF TransportHeader
  <1>2. CASE tproto = IPPROTO_UDP
    BY <1>2, Distinct DEF TransportHeader
  <1>3. CASE tproto = IPPROTO_ICMP
    <2>1. TransportHeader(left, left2) = analyze_icmp(frame, data, clen, left, left2)
      BY <1>3, Distinct DEF TransportHeader
    <2>2. /\ analyze_icmp(frame, data, clen, left, left2).type = ToByte(OctetAt(frame, data))
          /\ analyze_icmp(frame, data, clen, left, left2).code = ToByte(OctetAt(frame, data + 1))
          /\ OctetAt(frame, data) = ICMP_REDIRECT =>
               analyze_icmp(frame, data, clen, left, left2).redir_ip = LongAt(frame, data + 4)
      BY DEF analyze_icmp
    <2> QED
      BY <1>3, <2>1, <2>2, Distinct
  <1>4. CASE tproto \notin Transports
    BY <1>4 DEF Transports
  <1> QED
    BY <1>1, <1>2, <1>3, <1>4 DEF Transports

\* The last step reads the transport header where it is.
LEMMA TransportStep ==
  ASSUME PacketShape, ObjectRead, LayoutInv, Transport
  PROVE  ObjectRead'
  <1>1. PICK left, left2 :
          packet' = [class |-> packet.class, datalink |-> packet.datalink, network |-> packet.network,
                     options |-> packet.options, transport |-> TransportHeader(left, left2),
                     header |-> ToShort(data'), data |-> clen']
    BY TransportObject
  <1>2. /\ packet'.datalink = packet.datalink /\ packet'.network = packet.network
        /\ packet'.transport = TransportHeader(left, left2)
    BY <1>1
  <1>3. pc = "transport" /\ pc' = "done" /\ UNCHANGED <<frame, nproto, tproto>>
    BY DEF Transport
  <1>4. packet'.datalink = analyze_datalink(frame', frame'.link) /\ NetworkRead'
    BY <1>2, <1>3 DEF ObjectRead, NetworkRead, Start
  <1>5. ASSUME frame'.headers PROVE TransportRead'
    <2>1. data = Start(frame) + NetworkHeader(frame)
      BY <1>3, <1>5 DEF LayoutInv, SecondPassRight
    <2>2. data = Start(frame') + NetworkHeader(frame')
      BY <1>3, <2>1
    <2>3. CASE tproto = IPPROTO_TCP
      BY <1>2, <1>3, <2>2, <2>3, TransportFound, Distinct DEF TransportRead
    <2>4. CASE tproto = IPPROTO_UDP
      BY <1>2, <1>3, <2>2, <2>4, TransportFound, Distinct DEF TransportRead
    <2>5. CASE tproto = IPPROTO_ICMP
      BY <1>2, <1>3, <2>2, <2>5, TransportFound, Distinct DEF TransportRead
    <2>6. CASE tproto \notin Transports
      BY <1>3, <2>6 DEF TransportRead, Transports
    <2> QED
      BY <2>3, <2>4, <2>5, <2>6 DEF Transports
  <1> QED
    BY <1>3, <1>4, <1>5 DEF ObjectRead

\* Every step of the decoder keeps what is known of the object.
LEMMA ReadStep == Inv /\ LayoutInv /\ ObjectRead /\ [Next]_vars => ObjectRead'
  <1> SUFFICES ASSUME Inv, LayoutInv, ObjectRead, [Next]_vars PROVE ObjectRead'
    OBVIOUS
  <1>1. PacketShape /\ PlaceInv
    BY DEF Inv
  <1>2. pc' \in Unread => ObjectRead'
    BY DEF Unread, ObjectRead
  <1>3. ASSUME pc = "analyze", nproto # UNKNOWN_PROTO PROVE data = Start(frame)
    BY <1>1, <1>3 DEF PlaceInv, Start, datalink_hlen
  <1>4. CASE NextFrame \/ Link \/ NothingLeft \/ FirstPassIP \/ FirstPassARP \/ FirstPassOther \/ EndWalk
    BY <1>4, <1>2 DEF NextFrame, Link, NothingLeft, FirstPassIP, FirstPassARP, FirstPassOther,
                      EndWalk, Unread
  <1>5. CASE FirstPassIPv6
    BY <1>5, <1>2 DEF FirstPassIPv6, Unread
  <1>6. CASE WalkExtension
    <2>1. pc' = "walk"
      BY <1>6 DEF WalkExtension
    <2> QED
      BY <1>2, <2>1 DEF Unread
  <1>7. CASE Create
    <2>1. packet'.datalink = analyze_datalink(frame, frame.link)
      BY <1>1, <1>7, CreateObject
    <2>2. pc' = "analyze" /\ frame' = frame
      BY <1>7 DEF Create
    <2> QED
      BY <2>1, <2>2 DEF ObjectRead
  <1>8. CASE AnalyzeIP
    <2>1. packet'.datalink = packet.datalink /\ packet'.network = analyze_ip(frame, data)
      BY <1>1, <1>8 DEF AnalyzeIP, PacketShape
    <2>2. /\ pc = "analyze" /\ pc' = "clamp" /\ nproto = ETHERTYPE_IP
          /\ frame' = frame /\ nproto' = nproto
      BY <1>8 DEF AnalyzeIP
    <2>3. data = Start(frame)
      BY <1>3, <2>2, NotOthers
    <2> QED
      BY <2>1, <2>2, <2>3, NotOthers DEF ObjectRead, NetworkRead
  <1>9. CASE AnalyzeIPv6
    <2>1. packet'.datalink = packet.datalink /\ packet'.network = Ip6Fields(frame, data)
      BY <1>1, <1>9 DEF AnalyzeIPv6, PacketShape
    <2>2. /\ pc = "analyze" /\ pc' = "options" /\ nproto = ETHERTYPE_IPV6
          /\ frame' = frame /\ nproto' = nproto
      BY <1>9 DEF AnalyzeIPv6
    <2>3. data = Start(frame)
      BY <1>3, <2>2, NotOthers
    <2> QED
      BY <2>1, <2>2, <2>3, NotOthers DEF ObjectRead, NetworkRead
  <1>10. CASE AnalyzeARP
    <2>1. packet'.datalink = packet.datalink /\ packet'.network = analyze_arp(frame, data)
      BY <1>1, <1>10 DEF AnalyzeARP, PacketShape
    <2>2. /\ pc = "analyze" /\ pc' = "clamp" /\ nproto = ETHERTYPE_ARP
          /\ frame' = frame /\ nproto' = nproto
      BY <1>10 DEF AnalyzeARP
    <2>3. data = Start(frame)
      BY <1>3, <2>2, NotOthers
    <2> QED
      BY <2>1, <2>2, <2>3, NotOthers DEF ObjectRead, NetworkRead
  <1>11. CASE AnalyzeOther
    <2>1. /\ pc = "analyze" /\ pc' = "clamp" /\ nproto \notin {ETHERTYPE_IP, ETHERTYPE_IPV6, ETHERTYPE_ARP}
          /\ frame' = frame /\ nproto' = nproto /\ packet' = packet
      BY <1>11 DEF AnalyzeOther
    <2> QED
      BY <2>1 DEF ObjectRead, NetworkRead
  <1>12. CASE OptionHeader
    <2>1. packet'.datalink = packet.datalink /\ packet'.network = packet.network
      BY <1>1, <1>12, OptionObject
    <2>2. pc = "options" /\ pc' = "options" /\ frame' = frame /\ nproto' = nproto
      BY <1>12, OptionStep DEF OptionHeader
    <2> QED
      BY <2>1, <2>2, ReadKept
  <1>13. CASE EndOptions
    BY <1>13, ReadKept DEF EndOptions
  <1>14. CASE Clamp
    BY <1>14, ReadKept DEF Clamp
  <1>15. CASE Transport
    BY <1>1, <1>15, TransportStep
  <1>16. CASE UNCHANGED vars
    BY <1>16 DEF vars, ObjectRead, NetworkRead, TransportRead
  <1> QED
    BY <1>4, <1>5, <1>6, <1>7, <1>8, <1>9, <1>10, <1>11, <1>12, <1>13, <1>14, <1>15, <1>16 DEF Next

\* It holds of the first state.
LEMMA ReadInit == Init => ObjectRead
  BY UnreadObject DEF Init, Unread

\* It is an invariant, of frames that are well-formed.
LEMMA ReadAlways == ASSUME FramesAreWellFormed PROVE Spec => [](Inv /\ LayoutInv /\ ObjectRead)
  <1>1. Inv /\ LayoutInv /\ ObjectRead /\ [Next]_vars => ObjectRead'
    BY ReadStep
  <1> QED
    BY <1>1, LayoutAlways, ReadInit, PTL DEF Spec

-----------------------------------------------------------------------------
(* Sums *)

\* Induction is by the least number that something does not hold of.
LEMMA LeastNumber ==
  ASSUME NEW S \in SUBSET Nat, S # {}
  PROVE  \E n \in S : \A m \in S : n <= m
  <1> DEFINE R == OpToRel(<, Nat)
  <1>1. IsWellFoundedOn(R, Nat)
    BY NatLessThanWellFounded
  <1>2. \A x, y \in Nat : <<y, x>> \in R <=> y < x
    BY DEF OpToRel
  <1> HIDE DEF R
  <1>3. \E x \in S : \A y \in S : ~(<<y, x>> \in R)
    BY <1>1, WFMin
  <1>4. PICK x \in S : \A y \in S : ~(<<y, x>> \in R)
    BY <1>3
  <1>5. \A y \in S : ~(y < x)
    BY <1>2, <1>4
  <1> QED
    BY <1>5

\* Induction over the numbers, as sets.
LEMMA Induction ==
  ASSUME NEW S, 0 \in S, \A n \in Nat : n \in S => n + 1 \in S
  PROVE  Nat \subseteq S
  <1> DEFINE T == Nat \ S
  <1>1. SUFFICES ASSUME T # {} PROVE FALSE
    OBVIOUS
  <1>2. PICK n \in T : \A m \in T : n <= m
    BY <1>1, LeastNumber
  <1>3. n \in Nat /\ n # 0
    OBVIOUS
  <1>4. n - 1 \in Nat /\ n - 1 \notin T /\ (n - 1) + 1 = n
    BY <1>2, <1>3
  <1> QED
    BY <1>4

\* The sums up to N.
AreSums(g, w, N) == g = [n \in 0..N |-> IF n = 0 THEN 0 ELSE g[n - 1] + w[n]]

\* There is a function of the sums of any words.
LEMMA SumsExist == ASSUME NEW w PROVE \A N \in Nat : \E g : AreSums(g, w, N)
  <1> DEFINE S == {n \in Nat : \E g : AreSums(g, w, n)}
  <1>1. 0 \in S
    <2> DEFINE g == [n \in 0..0 |-> 0]
    <2>1. g = [n \in 0..0 |-> IF n = 0 THEN 0 ELSE g[n - 1] + w[n]]
      OBVIOUS
    <2> QED
      BY <2>1 DEF AreSums
  <1>2. \A n \in Nat : n \in S => n + 1 \in S
    <2> SUFFICES ASSUME NEW n \in Nat, n \in S PROVE n + 1 \in S
      OBVIOUS
    <2>1. PICK g : AreSums(g, w, n)
      OBVIOUS
    <2> DEFINE h == [k \in 0..(n + 1) |-> IF k = n + 1 THEN g[n] + w[n + 1] ELSE g[k]]
    <2>2. ASSUME NEW k \in 0..(n + 1) PROVE h[k] = IF k = 0 THEN 0 ELSE h[k - 1] + w[k]
      <3>1. CASE k = 0
        <4>1. g[0] = 0
          BY <2>1 DEF AreSums
        <4> QED
          BY <3>1, <4>1
      <3>2. CASE k \in 1..n
        <4>1. g[k] = g[k - 1] + w[k]
          BY <2>1, <3>2 DEF AreSums
        <4>2. h[k] = g[k] /\ h[k - 1] = g[k - 1]
          BY <3>2
        <4> QED
          BY <3>2, <4>1, <4>2
      <3>3. CASE k = n + 1
        <4>1. h[k] = g[n] + w[n + 1] /\ k - 1 = n /\ h[n] = g[n]
          BY <3>3
        <4> QED
          BY <3>3, <4>1
      <3> QED
        BY <3>1, <3>2, <3>3
    <2>3. h = [k \in 0..(n + 1) |-> IF k = 0 THEN 0 ELSE h[k - 1] + w[k]]
      BY <2>2
    <2>4. AreSums(h, w, n + 1)
      BY <2>3 DEF AreSums
    <2> QED
      BY <2>4
  <1> HIDE DEF S
  <1>3. Nat \subseteq S
    BY <1>1, <1>2, Induction
  <1> QED
    BY <1>3 DEF S

\* Two lists of sums agree as far as both go.
LEMMA SumsUnique ==
  ASSUME NEW w, NEW M \in Nat, NEW N \in Nat, M <= N, NEW g, NEW h, AreSums(g, w, M), AreSums(h, w, N)
  PROVE  \A n \in 0..M : g[n] = h[n]
  <1> DEFINE S == {n \in Nat : n <= M => g[n] = h[n]}
  <1>1. 0 \in S
    BY DEF AreSums
  <1>2. \A n \in Nat : n \in S => n + 1 \in S
    <2> SUFFICES ASSUME NEW n \in Nat, n \in S, n + 1 <= M PROVE g[n + 1] = h[n + 1]
      OBVIOUS
    <2>1. g[n] = h[n]
      OBVIOUS
    <2>2. n + 1 \in 0..M /\ n + 1 \in 0..N /\ n + 1 # 0 /\ (n + 1) - 1 = n
      OBVIOUS
    <2>3. g[n + 1] = g[n] + w[n + 1] /\ h[n + 1] = h[n] + w[n + 1]
      BY <2>2 DEF AreSums
    <2> QED
      BY <2>1, <2>3
  <1> HIDE DEF S
  <1>3. Nat \subseteq S
    BY <1>1, <1>2, Induction
  <1> QED
    BY <1>3 DEF S

\* So SumOf is what its recursive definition says,
LEMMA SumDefined ==
  ASSUME NEW w
  PROVE  SumOf(w) = [n \in Nat |-> IF n = 0 THEN 0 ELSE SumOf(w)[n - 1] + w[n]]
  <1> DEFINE Chosen(N) == CHOOSE g : AreSums(g, w, N)
             s == [n \in Nat |-> Chosen(n)[n]]
  <1>1. \A N \in Nat : AreSums(Chosen(N), w, N)
    BY SumsExist
  <1> HIDE DEF Chosen
  <1>2. ASSUME NEW n \in Nat PROVE s[n] = IF n = 0 THEN 0 ELSE s[n - 1] + w[n]
    <2>1. CASE n = 0
      BY <1>1, <2>1 DEF AreSums
    <2>2. CASE n # 0
      <3>1. n - 1 \in Nat /\ n \in 0..n /\ n - 1 <= n /\ n - 1 \in 0..(n - 1)
        BY <2>2
      <3>2. Chosen(n)[n] = Chosen(n)[n - 1] + w[n]
        BY <1>1, <2>2, <3>1 DEF AreSums
      <3>3. Chosen(n - 1)[n - 1] = Chosen(n)[n - 1]
        BY <1>1, <3>1, SumsUnique
      <3> QED
        BY <2>2, <3>1, <3>2, <3>3
    <2> QED
      BY <2>1, <2>2
  <1>3. s = [n \in Nat |-> IF n = 0 THEN 0 ELSE s[n - 1] + w[n]]
    BY <1>2
  <1>4. SumOf(w) = CHOOSE g : g = [n \in Nat |-> IF n = 0 THEN 0 ELSE g[n - 1] + w[n]]
    BY DEF SumOf
  <1> HIDE DEF s
  <1> QED
    BY <1>3, <1>4

\* which is, for each number of words:
LEMMA SumFacts ==
  ASSUME NEW w
  PROVE  /\ SumOf(w)[0] = 0
         /\ \A n \in Nat : SumOf(w)[n + 1] = SumOf(w)[n] + w[n + 1]
  <1>1. SumOf(w)[0] = 0
    BY SumDefined
  <1>2. ASSUME NEW n \in Nat PROVE SumOf(w)[n + 1] = SumOf(w)[n] + w[n + 1]
    <2>1. n + 1 \in Nat /\ n + 1 # 0 /\ (n + 1) - 1 = n
      OBVIOUS
    <2>2. SumOf(w)[n + 1] = SumOf(w)[(n + 1) - 1] + w[n + 1]
      BY <2>1, SumDefined
    <2> QED
      BY <2>1, <2>2
  <1> QED
    BY <1>1, <1>2

\* w has N numbers, each of 16 bits.
AreWords(w, N) == \A i \in 1..N : w[i] \in Int /\ 0 <= w[i] /\ w[i] <= 65535

\* The sum of N words of 16 bits needs no more than 16 bits for each.
LEMMA SumType ==
  ASSUME NEW w, NEW N \in Nat, AreWords(w, N)
  PROVE  SumOf(w)[N] \in Int /\ 0 <= SumOf(w)[N] /\ SumOf(w)[N] <= 65535 * N
  <1> DEFINE T(n) == SumOf(w)[n] \in Int /\ 0 <= SumOf(w)[n] /\ SumOf(w)[n] <= 65535 * n
             S == {n \in Nat : n <= N => T(n)}
  <1>1. 0 \in S
    BY SumFacts
  <1>2. \A n \in Nat : n \in S => n + 1 \in S
    <2> SUFFICES ASSUME NEW n \in Nat, n \in S, n + 1 <= N PROVE T(n + 1)
      OBVIOUS
    <2>1. T(n)
      OBVIOUS
    <2>2. SumOf(w)[n + 1] = SumOf(w)[n] + w[n + 1]
      BY SumFacts
    <2>3. n + 1 \in 1..N
      OBVIOUS
    <2>4. w[n + 1] \in Int /\ 0 <= w[n + 1] /\ w[n + 1] <= 65535
      BY <2>3 DEF AreWords
    <2> QED
      BY <2>1, <2>2, <2>4
  <1> HIDE DEF S
  <1>3. Nat \subseteq S
    BY <1>1, <1>2, Induction
  <1> QED
    BY <1>3 DEF S

\* The same of the first words.
LEMMA SumTypes ==
  ASSUME NEW w, NEW N \in Nat, AreWords(w, N)
  PROVE  \A n \in 0..N : SumOf(w)[n] \in Int
  <1> TAKE n \in 0..N
  <1>1. n \in Nat /\ AreWords(w, n)
    BY DEF AreWords
  <1> QED
    BY <1>1, SumType

\* Sums of the same words are the same.
LEMMA SumSame ==
  ASSUME NEW w, NEW v, NEW N \in Nat, \A i \in 1..N : w[i] = v[i]
  PROVE  SumOf(w)[N] = SumOf(v)[N]
  <1> DEFINE S == {n \in Nat : n <= N => SumOf(w)[n] = SumOf(v)[n]}
  <1>1. 0 \in S
    BY SumFacts
  <1>2. \A n \in Nat : n \in S => n + 1 \in S
    <2> SUFFICES ASSUME NEW n \in Nat, n \in S, n + 1 <= N PROVE SumOf(w)[n + 1] = SumOf(v)[n + 1]
      OBVIOUS
    <2>1. SumOf(w)[n] = SumOf(v)[n] /\ n + 1 \in 1..N
      OBVIOUS
    <2> QED
      BY <2>1, SumFacts
  <1> HIDE DEF S
  <1>3. Nat \subseteq S
    BY <1>1, <1>2, Induction
  <1> QED
    BY <1>3 DEF S

\* The sum of two parts, where v are the words of the second.
IsSecondPart(u, v, N, M) == \A i \in 1..M : u[N + i] = v[i]

\* The words of two parts add up to the sums of the parts.
LEMMA SumOfParts ==
  ASSUME NEW u, NEW v, NEW N \in Nat, NEW M \in Nat, AreWords(u, N + M), IsSecondPart(u, v, N, M)
  PROVE  SumOf(u)[N + M] = SumOf(u)[N] + SumOf(v)[M]
  <1> DEFINE S == {m \in Nat : m <= M => SumOf(u)[N + m] = SumOf(u)[N] + SumOf(v)[m]}
  <1>1. \A i \in 1..M : u[N + i] = v[i]
    BY DEF IsSecondPart
  <1>2. \A n \in 0..(N + M) : SumOf(u)[n] \in Int
    BY SumTypes
  <1>3. AreWords(v, M)
    <2> SUFFICES ASSUME NEW i \in 1..M PROVE v[i] \in Int /\ 0 <= v[i] /\ v[i] <= 65535
      BY DEF AreWords
    <2>1. N + i \in 1..(N + M) /\ v[i] = u[N + i]
      BY <1>1
    <2> QED
      BY <2>1 DEF AreWords
  <1>4. \A n \in 0..M : SumOf(v)[n] \in Int
    BY <1>3, SumTypes
  <1>5. 0 \in S
    <2>1. SumOf(v)[0] = 0 /\ N + 0 = N /\ SumOf(u)[N] \in Int
      BY <1>2, SumFacts
    <2> QED
      BY <2>1
  <1>6. \A m \in Nat : m \in S => m + 1 \in S
    <2> SUFFICES ASSUME NEW m \in Nat, m \in S, m + 1 <= M
                 PROVE  SumOf(u)[N + (m + 1)] = SumOf(u)[N] + SumOf(v)[m + 1]
      OBVIOUS
    <2>1. SumOf(u)[N + m] = SumOf(u)[N] + SumOf(v)[m] /\ m + 1 \in 1..M
      OBVIOUS
    <2>2. SumOf(u)[(N + m) + 1] = SumOf(u)[N + m] + u[(N + m) + 1] /\ N + m \in Nat
      BY SumFacts
    <2>3. SumOf(v)[m + 1] = SumOf(v)[m] + v[m + 1]
      BY SumFacts
    <2>4. u[(N + m) + 1] = v[m + 1] /\ v[m + 1] \in Int
      <3>1. u[N + (m + 1)] = v[m + 1] /\ N + (m + 1) = (N + m) + 1
        BY <1>1, <2>1
      <3> QED
        BY <2>1, <3>1, <1>3 DEF AreWords
    <2>5. SumOf(u)[N] \in Int /\ SumOf(v)[m] \in Int
      BY <1>2, <1>4
    <2>6. N + (m + 1) = (N + m) + 1
      OBVIOUS
    <2> QED
      BY <2>1, <2>2, <2>3, <2>4, <2>5, <2>6
  <1> HIDE DEF S
  <1>7. Nat \subseteq S
    BY <1>5, <1>6, Induction
  <1> QED
    BY <1>7 DEF S

\* The sum of words of which the one at j has been changed.
LEMMA SumChanged ==
  ASSUME NEW w, NEW v, NEW N \in Nat, NEW j \in 1..N, AreWords(w, N), AreWords(v, N),
         \A i \in 1..N : i # j => w[i] = v[i]
  PROVE  SumOf(w)[N] = SumOf(v)[N] + w[j] - v[j]
  <1>1. j - 1 \in Nat /\ (j - 1) + 1 = j /\ N - j \in Nat /\ j + (N - j) = N
    OBVIOUS
  <1>2. SumOf(w)[j - 1] = SumOf(v)[j - 1]
    <2>1. \A i \in 1..(j - 1) : w[i] = v[i]
      OBVIOUS
    <2> QED
      BY <1>1, <2>1, SumSame
  <1>3. SumOf(w)[j] = SumOf(w)[j - 1] + w[j] /\ SumOf(v)[j] = SumOf(v)[j - 1] + v[j]
    BY <1>1, SumFacts
  <1> DEFINE x == [i \in 1..(N - j) |-> w[j + i]]
  <1>4. \A i \in 1..(N - j) : w[j + i] = x[i] /\ v[j + i] = x[i]
    OBVIOUS
  <1>5. j \in Nat /\ AreWords(w, j + (N - j)) /\ AreWords(v, j + (N - j))
    BY <1>1
  <1> HIDE DEF x
  <1>6. IsSecondPart(w, x, j, N - j) /\ IsSecondPart(v, x, j, N - j)
    BY <1>4 DEF IsSecondPart
  <1>7. SumOf(w)[j + (N - j)] = SumOf(w)[j] + SumOf(x)[N - j]
    BY <1>1, <1>6, <1>5, SumOfParts
  <1>8. SumOf(v)[j + (N - j)] = SumOf(v)[j] + SumOf(x)[N - j]
    BY <1>1, <1>6, <1>5, SumOfParts
  <1>9. /\ SumOf(w)[j - 1] \in Int /\ w[j] \in Int /\ v[j] \in Int
        /\ SumOf(w)[N] \in Int /\ SumOf(w)[j] \in Int
    BY SumTypes DEF AreWords
  <1>10. AreWords(x, N - j)
    <2> SUFFICES ASSUME NEW i \in 1..(N - j) PROVE x[i] \in Int /\ 0 <= x[i] /\ x[i] <= 65535
      BY DEF AreWords
    <2>1. j + i \in 1..N /\ x[i] = w[j + i]
      BY <1>4
    <2> QED
      BY <2>1 DEF AreWords
  <1>11. SumOf(x)[N - j] \in Int
    BY <1>1, <1>10, SumType
  <1> QED
    BY <1>1, <1>2, <1>3, <1>7, <1>8, <1>9, <1>11

-----------------------------------------------------------------------------
(* Ones' complement *)

\* Numbers that are the same in ones' complement.
Alike(m, n) == (m - n) % 65535 = 0

\* Sums of numbers that are alike are alike,
LEMMA AlikeSum ==
  ASSUME NEW m \in Int, NEW n \in Int, NEW p \in Int, NEW q \in Int, Alike(m, n), Alike(p, q)
  PROVE  Alike(m + p, n + q)
  BY DEF Alike

\* and so are they shifted by an octet.
LEMMA AlikeTimes ==
  ASSUME NEW m \in Int, NEW n \in Int, Alike(m, n)
  PROVE  Alike(256 * m, 256 * n)
  BY DEF Alike

\* To be alike is transitive,
LEMMA AlikeTransitive ==
  ASSUME NEW m \in Int, NEW n \in Int, NEW p \in Int, Alike(m, n), Alike(n, p)
  PROVE  Alike(m, p)
  BY DEF Alike

\* symmetric
LEMMA AlikeSymmetric == ASSUME NEW m \in Int, NEW n \in Int, Alike(m, n) PROVE Alike(n, m)
  BY DEF Alike

\* and reflexive.
LEMMA AlikeItself == ASSUME NEW m \in Int PROVE Alike(m, m)
  BY DEF Alike

\* What is alike with 0 is a multiple of 65535.
LEMMA AlikeNothing == ASSUME NEW m \in Int PROVE Alike(m, 0) <=> m % 65535 = 0
  BY DEF Alike

\* A number with its octets swapped is 256 times as much, in ones' complement.
LEMMA SwapType ==
  ASSUME NEW n \in Int, 0 <= n, n <= 65535
  PROVE  Swap(n) \in Int /\ 0 <= Swap(n) /\ Swap(n) <= 65535 /\ Swap(Swap(n)) = n
  BY DEF Swap

\* To shift a word by an octet is to swap its octets.
LEMMA SwapAlike ==
  ASSUME NEW n \in Int, 0 <= n, n <= 65535
  PROVE  Alike(256 * n, Swap(n))
  <1>1. 256 * n = Swap(n) + 65535 * (n \div 256) /\ n \div 256 \in Int
    BY DEF Swap
  <1>2. Swap(n) \in Int
    BY DEF Swap
  <1> QED
    BY <1>1, <1>2 DEF Alike

\* So a sum may be taken in either order of octets (RFC 1071).
LEMMA SumSwapped ==
  ASSUME NEW w, NEW v, NEW N \in Nat, AreWords(w, N), AreWords(v, N), \A i \in 1..N : v[i] = Swap(w[i])
  PROVE  Alike(256 * SumOf(w)[N], SumOf(v)[N])
  <1> DEFINE S == {n \in Nat : n <= N => Alike(256 * SumOf(w)[n], SumOf(v)[n])}
  <1>1. 0 \in S
    <2>1. 256 * SumOf(w)[0] = 0 /\ SumOf(v)[0] = 0
      BY SumFacts
    <2> QED
      BY <2>1, AlikeItself
  <1>2. \A n \in Nat : n \in S => n + 1 \in S
    <2> SUFFICES ASSUME NEW n \in Nat, n \in S, n + 1 <= N
                 PROVE  Alike(256 * SumOf(w)[n + 1], SumOf(v)[n + 1])
      OBVIOUS
    <2>1. Alike(256 * SumOf(w)[n], SumOf(v)[n])
      OBVIOUS
    <2>2. /\ SumOf(w)[n + 1] = SumOf(w)[n] + w[n + 1]
          /\ SumOf(v)[n + 1] = SumOf(v)[n] + v[n + 1]
      BY SumFacts
    <2>3. n + 1 \in 1..N /\ n \in 0..N
      OBVIOUS
    <2>4. /\ w[n + 1] \in Int /\ 0 <= w[n + 1] /\ w[n + 1] <= 65535 /\ v[n + 1] = Swap(w[n + 1])
          /\ v[n + 1] \in Int /\ SumOf(w)[n] \in Int /\ SumOf(v)[n] \in Int
      BY <2>3, SumTypes DEF AreWords
    <2>5. Alike(256 * w[n + 1], v[n + 1])
      BY <2>4, SwapAlike
    <2>6. 256 * SumOf(w)[n] \in Int /\ 256 * w[n + 1] \in Int
      BY <2>4
    <2>7. Alike(256 * SumOf(w)[n] + 256 * w[n + 1], SumOf(v)[n] + v[n + 1])
      <3>1. PICK a : a = 256 * SumOf(w)[n]
        OBVIOUS
      <3>2. PICK b : b = 256 * w[n + 1]
        OBVIOUS
      <3>3. PICK c, d : c = SumOf(v)[n] /\ d = v[n + 1]
        OBVIOUS
      <3>4. a \in Int /\ b \in Int /\ c \in Int /\ d \in Int /\ Alike(a, c) /\ Alike(b, d)
        BY <2>1, <2>4, <2>5, <2>6, <3>1, <3>2, <3>3
      <3>5. Alike(a + b, c + d)
        BY ONLY <3>4, AlikeSum
      <3> QED
        BY ONLY <3>1, <3>2, <3>3, <3>5
    <2>8. 256 * SumOf(w)[n] + 256 * w[n + 1] = 256 * SumOf(w)[n + 1]
      BY <2>2, <2>4
    <2> QED
      BY <2>2, <2>7, <2>8
  <1> HIDE DEF S
  <1>3. Nat \subseteq S
    BY <1>1, <1>2, Induction
  <1> QED
    BY <1>3 DEF S

\* The complement of a sum, its carries folded back, makes it alike with 0.
LEMMA ComplementAdds ==
  ASSUME NEW n \in Int, 0 <= n, n <= 2147483647
  PROVE  /\ Complement(n) \in Int /\ 0 <= Complement(n) /\ Complement(n) <= 65535
         /\ Alike(n + Complement(n), 0)
  <1> DEFINE once == (n % 65536) + (n \div 65536)
             twice == (once \div 65536) + (once % 65536)
  <1>1. once \in Int /\ 0 <= once /\ once <= 131070 /\ n = once + 65535 * (n \div 65536)
    OBVIOUS
  <1> HIDE DEF once
  <1>2. twice \in Int /\ 0 <= twice /\ twice <= 65535 /\ once = twice + 65535 * (once \div 65536)
    BY <1>1
  <1>3. Complement(n) = 65535 - (twice % 65536)
    BY DEF Complement, once
  <1> HIDE DEF twice
  <1>4. Complement(n) = 65535 - twice
    BY <1>2, <1>3
  <1>5. n + Complement(n) = 0 + 65535 * (1 + (n \div 65536) + (once \div 65536))
    BY <1>1, <1>2, <1>4
  <1>6. 1 + (n \div 65536) + (once \div 65536) \in Int
    BY <1>1
  <1> QED
    BY <1>2, <1>4, <1>5, <1>6 DEF Alike

-----------------------------------------------------------------------------
(* Octets put together *)

\* Octets are numbers
LEMMA OctetIsInt == \A n \in Octet : n \in Int /\ 0 <= n /\ n <= 255
  BY DEF Octet

\* Names for what the provers need not look into.
IsOctets(s) == s \in Seq(Octet)
IsWord(n) == n \in Int /\ 0 <= n /\ n <= 65535

\* and sequences of them are sequences of numbers.
LEMMA OctetsAreInts == ASSUME NEW s, IsOctets(s) PROVE s \in Seq(Int)
  <1>1. \A i \in 1..Len(s) : s[i] \in Int
    BY OctetIsInt DEF IsOctets
  <1> QED
    BY <1>1 DEF IsOctets

\* Octets behind others: both lie in the whole.
LEMMA Appended ==
  ASSUME NEW o, IsOctets(o), NEW t, IsOctets(t)
  PROVE  /\ IsOctets(o \o t) /\ Len(o \o t) = Len(o) + Len(t)
         /\ Lies(o \o t, Len(o), t)
         /\ \A at, s : Lies(o, at, s) => Lies(o \o t, at, s)
  <1>1. o \in Seq(Int) /\ t \in Seq(Int)
    BY OctetsAreInts
  <1>2. IsOctets(o \o t) /\ Len(o \o t) = Len(o) + Len(t)
    BY ConcatProperties DEF IsOctets
  <1>3. Lies(t, 0, t)
    BY <1>1, LiesWhole
  <1>4. Lies(o \o t, Len(o) + 0, t)
    BY <1>1, <1>3, LiesBehind
  <1>5. Len(o) + 0 = Len(o)
    OBVIOUS
  <1>6. \A at, s : Lies(o, at, s) => Lies(o \o t, at, s)
    BY <1>1, LiesFirst
  <1> QED
    BY <1>2, <1>4, <1>5, <1>6

\* Where the parts of a header lie, for each number of parts that one is made of.
LEMMA TwoParts ==
  ASSUME NEW a, IsOctets(a), NEW b, IsOctets(b)
  PROVE  LET o == a \o b
         IN /\ IsOctets(o) /\ Len(o) = Len(a) + Len(b)
            /\ Lies(o, 0, a) /\ Lies(o, Len(a), b)
  <1>1. Lies(a, 0, a)
    BY OctetsAreInts, LiesWhole
  <1> QED
    BY <1>1, Appended

\* These are sequences of octets.
AreThree(a, b, c) == IsOctets(a) /\ IsOctets(b) /\ IsOctets(c)

\* The same of three
LEMMA ThreeParts ==
  ASSUME NEW a, NEW b, NEW c, AreThree(a, b, c)
  PROVE  LET o == a \o b \o c
         IN /\ IsOctets(o) /\ Len(o) = Len(a) + Len(b) + Len(c)
            /\ Lies(o, 0, a) /\ Lies(o, Len(a), b) /\ Lies(o, Len(a) + Len(b), c)
  <1> DEFINE m == a \o b
  <1>1. IsOctets(a) /\ IsOctets(b) /\ IsOctets(c)
    BY DEF AreThree
  <1>2. IsOctets(m) /\ Len(m) = Len(a) + Len(b) /\ Lies(m, 0, a) /\ Lies(m, Len(a), b)
    BY <1>1, TwoParts
  <1> HIDE DEF m
  <1>3. /\ IsOctets(m \o c) /\ Len(m \o c) = Len(m) + Len(c) /\ Lies(m \o c, Len(m), c)
        /\ \A at, s : Lies(m, at, s) => Lies(m \o c, at, s)
    BY <1>1, <1>2, Appended
  <1> QED
    BY <1>2, <1>3 DEF m

AreFive(a, b, c, d, e) ==
  /\ IsOctets(a) /\ IsOctets(b) /\ IsOctets(c) /\ IsOctets(d) /\ IsOctets(e)

\* five
LEMMA FiveParts ==
  ASSUME NEW a, NEW b, NEW c, NEW d, NEW e, AreFive(a, b, c, d, e)
  PROVE  LET o == a \o b \o c \o d \o e
         IN /\ IsOctets(o) /\ Len(o) = Len(a) + Len(b) + Len(c) + Len(d) + Len(e)
            /\ Lies(o, 0, a) /\ Lies(o, Len(a), b) /\ Lies(o, Len(a) + Len(b), c)
            /\ Lies(o, Len(a) + Len(b) + Len(c), d)
            /\ Lies(o, Len(a) + Len(b) + Len(c) + Len(d), e)
  <1> DEFINE m == a \o b \o c
             r == m \o d
  <1>1. IsOctets(a) /\ IsOctets(b) /\ IsOctets(c) /\ IsOctets(d) /\ IsOctets(e)
    BY DEF AreFive
  <1>2. /\ IsOctets(m) /\ Len(m) = Len(a) + Len(b) + Len(c)
        /\ Lies(m, 0, a) /\ Lies(m, Len(a), b) /\ Lies(m, Len(a) + Len(b), c)
    <2>1. AreThree(a, b, c)
      BY <1>1 DEF AreThree
    <2> QED
      BY ONLY <2>1, ThreeParts
  <1> HIDE DEF m
  <1>3. /\ IsOctets(r) /\ Len(r) = Len(m) + Len(d) /\ Lies(r, Len(m), d)
        /\ \A at, s : Lies(m, at, s) => Lies(r, at, s)
    BY <1>2, <1>1, Appended
  <1> HIDE DEF r
  <1>4. /\ IsOctets(r \o e) /\ Len(r \o e) = Len(r) + Len(e) /\ Lies(r \o e, Len(r), e)
        /\ \A at, s : Lies(r, at, s) => Lies(r \o e, at, s)
    BY <1>3, <1>1, Appended
  <1> QED
    BY <1>2, <1>3, <1>4 DEF m, r

AreEight(a, b, c, d, e, g, h, i) ==
  /\ IsOctets(a) /\ IsOctets(b) /\ IsOctets(c) /\ IsOctets(d) /\ IsOctets(e)
  /\ IsOctets(g) /\ IsOctets(h) /\ IsOctets(i)

\* eight
LEMMA EightParts ==
  ASSUME NEW a, NEW b, NEW c, NEW d, NEW e, NEW g, NEW h, NEW i, AreEight(a, b, c, d, e, g, h, i)
  PROVE  LET o == a \o b \o c \o d \o e \o g \o h \o i
         IN /\ IsOctets(o)
            /\ Len(o) = Len(a) + Len(b) + Len(c) + Len(d) + Len(e) + Len(g) + Len(h) + Len(i)
            /\ Lies(o, 0, a) /\ Lies(o, Len(a), b) /\ Lies(o, Len(a) + Len(b), c)
            /\ Lies(o, Len(a) + Len(b) + Len(c), d)
            /\ Lies(o, Len(a) + Len(b) + Len(c) + Len(d), e)
            /\ Lies(o, Len(a) + Len(b) + Len(c) + Len(d) + Len(e), g)
            /\ Lies(o, Len(a) + Len(b) + Len(c) + Len(d) + Len(e) + Len(g), h)
            /\ Lies(o, Len(a) + Len(b) + Len(c) + Len(d) + Len(e) + Len(g) + Len(h), i)
  <1> DEFINE m == a \o b \o c \o d \o e
             r == m \o g
             s == r \o h
  <1>1. AreFive(a, b, c, d, e)
    BY DEF AreFive, AreEight
  <1>2. IsOctets(g) /\ IsOctets(h) /\ IsOctets(i)
    BY DEF AreEight
  <1>3. /\ IsOctets(m) /\ Len(m) = Len(a) + Len(b) + Len(c) + Len(d) + Len(e)
        /\ Lies(m, 0, a) /\ Lies(m, Len(a), b) /\ Lies(m, Len(a) + Len(b), c)
        /\ Lies(m, Len(a) + Len(b) + Len(c), d)
        /\ Lies(m, Len(a) + Len(b) + Len(c) + Len(d), e)
    BY ONLY <1>1, FiveParts
  <1> HIDE DEF m
  <1>4. /\ IsOctets(r) /\ Len(r) = Len(m) + Len(g) /\ Lies(r, Len(m), g)
        /\ \A at, x : Lies(m, at, x) => Lies(r, at, x)
    BY <1>3, <1>2, Appended
  <1> HIDE DEF r
  <1>5. /\ IsOctets(s) /\ Len(s) = Len(r) + Len(h) /\ Lies(s, Len(r), h)
        /\ \A at, x : Lies(r, at, x) => Lies(s, at, x)
    BY <1>4, <1>2, Appended
  <1> HIDE DEF s
  <1>6. /\ IsOctets(s \o i) /\ Len(s \o i) = Len(s) + Len(i) /\ Lies(s \o i, Len(s), i)
        /\ \A at, x : Lies(s, at, x) => Lies(s \o i, at, x)
    BY <1>5, <1>2, Appended
  <1> QED
    BY <1>3, <1>4, <1>5, <1>6 DEF m, r, s

AreNine(a, b, c, d, e, g, h, i, j) ==
  /\ IsOctets(a) /\ IsOctets(b) /\ IsOctets(c) /\ IsOctets(d) /\ IsOctets(e)
  /\ IsOctets(g) /\ IsOctets(h) /\ IsOctets(i) /\ IsOctets(j)

\* and nine parts.
LEMMA NineParts ==
  ASSUME NEW a, NEW b, NEW c, NEW d, NEW e, NEW g, NEW h, NEW i, NEW j, AreNine(a, b, c, d, e, g, h, i, j)
  PROVE  LET o == a \o b \o c \o d \o e \o g \o h \o i \o j
         IN /\ IsOctets(o)
            /\ Len(o) = Len(a) + Len(b) + Len(c) + Len(d) + Len(e) + Len(g) + Len(h) + Len(i) + Len(j)
            /\ Lies(o, 0, a) /\ Lies(o, Len(a), b) /\ Lies(o, Len(a) + Len(b), c)
            /\ Lies(o, Len(a) + Len(b) + Len(c), d)
            /\ Lies(o, Len(a) + Len(b) + Len(c) + Len(d), e)
            /\ Lies(o, Len(a) + Len(b) + Len(c) + Len(d) + Len(e), g)
            /\ Lies(o, Len(a) + Len(b) + Len(c) + Len(d) + Len(e) + Len(g), h)
            /\ Lies(o, Len(a) + Len(b) + Len(c) + Len(d) + Len(e) + Len(g) + Len(h), i)
            /\ Lies(o, Len(a) + Len(b) + Len(c) + Len(d) + Len(e) + Len(g) + Len(h) + Len(i), j)
  <1> DEFINE m == a \o b \o c \o d \o e
             r == m \o g
             s == r \o h
             t == s \o i
  <1>1. AreFive(a, b, c, d, e)
    BY DEF AreFive, AreNine
  <1>2. IsOctets(g) /\ IsOctets(h) /\ IsOctets(i) /\ IsOctets(j)
    BY DEF AreNine
  <1>3. /\ IsOctets(m) /\ Len(m) = Len(a) + Len(b) + Len(c) + Len(d) + Len(e)
        /\ Lies(m, 0, a) /\ Lies(m, Len(a), b) /\ Lies(m, Len(a) + Len(b), c)
        /\ Lies(m, Len(a) + Len(b) + Len(c), d)
        /\ Lies(m, Len(a) + Len(b) + Len(c) + Len(d), e)
    BY ONLY <1>1, FiveParts
  <1> HIDE DEF m
  <1>4. /\ IsOctets(r) /\ Len(r) = Len(m) + Len(g) /\ Lies(r, Len(m), g)
        /\ \A at, x : Lies(m, at, x) => Lies(r, at, x)
    BY <1>3, <1>2, Appended
  <1> HIDE DEF r
  <1>5. /\ IsOctets(s) /\ Len(s) = Len(r) + Len(h) /\ Lies(s, Len(r), h)
        /\ \A at, x : Lies(r, at, x) => Lies(s, at, x)
    BY <1>4, <1>2, Appended
  <1> HIDE DEF s
  <1>6. /\ IsOctets(t) /\ Len(t) = Len(s) + Len(i) /\ Lies(t, Len(s), i)
        /\ \A at, x : Lies(s, at, x) => Lies(t, at, x)
    BY <1>5, <1>2, Appended
  <1> HIDE DEF t
  <1>7. /\ IsOctets(t \o j) /\ Len(t \o j) = Len(t) + Len(j) /\ Lies(t \o j, Len(t), j)
        /\ \A at, x : Lies(t, at, x) => Lies(t \o j, at, x)
    BY <1>6, <1>2, Appended
  <1> QED
    BY <1>3, <1>4, <1>5, <1>6, <1>7 DEF m, r, s, t

-----------------------------------------------------------------------------
(* What is written into headers *)

\* Two octets.
LEMMA Pair == ASSUME NEW a \in Octet, NEW b \in Octet PROVE IsOctets(<<a, b>>) /\ Len(<<a, b>>) = 2
  BY DEF IsOctets

\* htons gives a word, and gives back the word that it was given.
LEMMA NetShortType ==
  ASSUME NEW n, IsWord(n)
  PROVE  IsWord(NetShort(n)) /\ NetShort(NetShort(n)) = n
  BY SwapType DEF NetShort, IsWord

\* A u_short is a word,
LEMMA ToUShortType == ASSUME NEW n \in Int PROVE IsWord(ToUShort(n))
  BY DEF ToUShort, IsWord

\* and a word is itself as a u_short.
LEMMA ToUShortKeeps == ASSUME NEW n, IsWord(n) PROVE ToUShort(n) = n
  BY DEF ToUShort, IsWord

\* The numbers of 16 bits are words
LEMMA UShortIsWord == ASSUME NEW k \in UShort PROVE IsWord(k)
  BY ShortsAreInt, UShortBounds DEF IsWord

\* and so are octets.
LEMMA OctetIsWord == ASSUME NEW k \in Octet PROVE IsWord(k)
  BY DEF Octet, IsWord

\* Words are numbers.
LEMMA WordIsInt == ASSUME NEW n, IsWord(n) PROVE n \in Int
  BY DEF IsWord

\* A word is put as two octets, in the order of the network
LEMMA TwoOctets ==
  ASSUME NEW n, IsWord(n)
  PROVE  IsOctets(WordOctets(n)) /\ Len(WordOctets(n)) = 2
  <1>1. n \div 256 \in Octet /\ n % 256 \in Octet
    BY DEF Octet, IsWord
  <1> QED
    BY <1>1, Pair DEF WordOctets

\* and in that of the host.
LEMMA TwoHostOctets ==
  ASSUME NEW n, IsWord(n)
  PROVE  IsOctets(HostWordOctets(n)) /\ Len(HostWordOctets(n)) = 2
  BY TwoOctets, NetShortType DEF HostWordOctets

\* A sequence of n octets.
LEMMA OctetSeqs == ASSUME NEW n \in Nat, NEW s \in OctetSeq(n) PROVE IsOctets(s) /\ Len(s) = n
  BY DEF OctetSeq, IsOctets

\* What is behind a message in its buffer is an octet,
LEMMA StaleOctet == Stale \in Octet
  BY BuildAssumption

\* and more of them are octets.
LEMMA StaleOctetsType == ASSUME NEW n \in Nat PROVE IsOctets(StaleOctets(n)) /\ Len(StaleOctets(n)) = n
  BY StaleOctet DEF StaleOctets, IsOctets

\* Two octets that are 0.
LEMMA ZeroOctets == IsOctets(<<0, 0>>) /\ Len(<<0, 0>>) = 2
  <1>1. 0 \in Octet
    BY DEF Octet
  <1> QED
    BY <1>1, Pair

\* n octets that are already there stay as they are.
LEMMA SizedFits ==
  ASSUME NEW n \in Nat, NEW s, IsOctets(s)
  PROVE  /\ IsOctets(Sized(s, n)) /\ Len(Sized(s, n)) = n
         /\ n = Len(s) => Sized(s, n) = s
         /\ n >= Len(s) => Lies(Sized(s, n), 0, s)
  <1> DEFINE t == StaleOctets(n)
             o == s \o t
  <1>1. IsOctets(t) /\ Len(t) = n
    BY StaleOctetsType
  <1> HIDE DEF t
  <1>2. /\ IsOctets(o) /\ Len(o) = Len(s) + n
        /\ \A i \in 1..Len(s) : o[i] = s[i]
    <2>1. IsOctets(o) /\ Len(o) = Len(s) + Len(t)
      BY <1>1, ConcatProperties DEF IsOctets
    <2>2. \A i \in 1..Len(s) : o[i] = s[i]
      BY <1>1 DEF IsOctets
    <2> QED
      BY <1>1, <2>1, <2>2
  <1> HIDE DEF o
  <1>3. /\ IsOctets(SubSeq(o, 1, n)) /\ Len(SubSeq(o, 1, n)) = n
        /\ \A i \in 1..n : SubSeq(o, 1, n)[i] = o[i]
    BY <1>2 DEF IsOctets
  <1>4. Sized(s, n) = SubSeq(o, 1, n)
    BY DEF Sized, o, t
  <1>5. n = Len(s) => SubSeq(o, 1, n) = s
    BY <1>2, <1>3 DEF IsOctets
  <1>6. n >= Len(s) => Lies(SubSeq(o, 1, n), 0, s)
    BY <1>2, <1>3, OctetsAreInts DEF Lies, IsOctets
  <1> QED
    BY <1>3, <1>4, <1>5, <1>6

\* The bit of a flag, and its value at each place.
LEMMA FlagBits ==
  ASSUME NEW set \in BOOLEAN
  PROVE  /\ Binary(set) \in 0..1 /\ (Binary(set) = 1) = set
         /\ Flag(set, 0) = Binary(set) /\ Flag(set, 1) = 2 * Binary(set) /\ Flag(set, 2) = 4 * Binary(set)
         /\ Flag(set, 3) = 8 * Binary(set) /\ Flag(set, 4) = 16 * Binary(set)
         /\ Flag(set, 5) = 32 * Binary(set) /\ Flag(set, 6) = 64 * Binary(set)
         /\ Flag(set, 7) = 128 * Binary(set) /\ Flag(set, 13) = 8192 * Binary(set)
         /\ Flag(set, 14) = 16384 * Binary(set) /\ Flag(set, 15) = 32768 * Binary(set)
  BY Powers DEF Flag, Binary

\* What each bit of an octet is.
LEMMA BitsOf ==
  ASSUME NEW n \in Int
  PROVE  /\ Bit(n, 7) <=> (n \div 128) % 2 = 1
         /\ Bit(n, 6) <=> (n \div 64) % 2 = 1
         /\ Bit(n, 5) <=> (n \div 32) % 2 = 1
         /\ Bit(n, 4) <=> (n \div 16) % 2 = 1
         /\ Bit(n, 3) <=> (n \div 8) % 2 = 1
         /\ Bit(n, 2) <=> (n \div 4) % 2 = 1
         /\ Bit(n, 1) <=> (n \div 2) % 2 = 1
         /\ Bit(n, 0) <=> (n \div 1) % 2 = 1
  BY Powers DEF Bit

-----------------------------------------------------------------------------
(* The IPv4 header *)

\* The fields of an IPv4 header have the ranges that set_ip expects.
LEMMA IPv4Fields ==
  ASSUME NEW n, IsIPv4(n)
  PROVE  /\ n.priority \in 0..7 /\ n.rsv_tos \in 0..3 /\ n.ident \in Int
         /\ n.hop_limit \in Octet /\ n.protocol \in Octet
         /\ n.src_ip \in OctetSeq(4) /\ n.dst_ip \in OctetSeq(4)
  BY DEF IsIPv4

\* Its offset is a number.
LEMMA IPv4Offset == ASSUME NEW n, IsIPv4(n) PROVE n.offset \in Int
  <1>1. n.offset \in Short
    BY DEF IsIPv4
  <1> QED
    BY <1>1, ShortsAreInt

\* A jshort is put as two octets.
LEMMA UShortOctets ==
  ASSUME NEW k \in Int
  PROVE  IsOctets(WordOctets(ToUShort(k))) /\ Len(WordOctets(ToUShort(k))) = 2
  BY ToUShortType, TwoOctets

\* The service type, put together and taken apart.
TosOf(d, t, r, p, s, tos) ==
  /\ d \in 0..1 /\ t \in 0..1 /\ r \in 0..1 /\ p \in 0..7 /\ s \in 0..3
  /\ tos = (p * 32 + s + 16 * d + 8 * t + 4 * r) % 256

\* The fields of the type of service can be told apart.
LEMMA TosApart ==
  ASSUME NEW d, NEW t, NEW r, NEW p, NEW s, NEW tos, TosOf(d, t, r, p, s, tos)
  PROVE  /\ tos \in Int /\ 0 <= tos /\ tos <= 255 /\ tos \div 32 = p /\ tos % 4 = s
         /\ (tos \div 16) % 2 = d /\ (tos \div 8) % 2 = t /\ (tos \div 4) % 2 = r
  <1>1. d \in 0..1 /\ t \in 0..1 /\ r \in 0..1 /\ p \in 0..7 /\ s \in 0..3
    BY DEF TosOf
  <1>2. tos \in Int /\ tos = 32 * p + 16 * d + 8 * t + 4 * r + s
    BY <1>1 DEF TosOf
  <1> QED
    BY ONLY <1>1, <1>2

\* An octet is itself in eight bits.
LEMMA OctetKeeps == ASSUME NEW k \in Octet PROVE k % 256 = k
  BY DEF Octet

\* The flags of an IPv4 header are booleans.
LEMMA FlagsOfIPv4 ==
  ASSUME NEW n, IsIPv4(n)
  PROVE  /\ n.d_flag \in BOOLEAN /\ n.t_flag \in BOOLEAN /\ n.r_flag \in BOOLEAN
         /\ n.rsv_frag \in BOOLEAN /\ n.dont_frag \in BOOLEAN /\ n.more_frag \in BOOLEAN
  BY DEF IsIPv4

\* The type of service that set_ip writes has all its fields.
LEMMA TosValue ==
  ASSUME NEW n, IsIPv4(n)
  PROVE  LET tos == ip_tos_value(n)
         IN /\ tos \in Octet /\ tos \div 32 = n.priority /\ tos % 4 = n.rsv_tos
            /\ Bit(tos, 4) = n.d_flag /\ Bit(tos, 3) = n.t_flag /\ Bit(tos, 2) = n.r_flag
  <1> DEFINE tos == ip_tos_value(n)
  <1>1. PICK d, t, r \in 0..1 :
          /\ d = Binary(n.d_flag) /\ t = Binary(n.t_flag) /\ r = Binary(n.r_flag)
          /\ Flag(n.d_flag, 4) = 16 * d /\ Flag(n.t_flag, 3) = 8 * t /\ Flag(n.r_flag, 2) = 4 * r
          /\ (d = 1) = n.d_flag /\ (t = 1) = n.t_flag /\ (r = 1) = n.r_flag
    BY FlagsOfIPv4, FlagBits
  <1>2. PICK p, s : p = n.priority /\ s = n.rsv_tos /\ p \in 0..7 /\ s \in 0..3
    BY IPv4Fields
  <1>3. tos = (p * 32 + s + 16 * d + 8 * t + 4 * r) % 256
    BY <1>1, <1>2 DEF ip_tos_value
  <1> HIDE DEF tos
  <1>4. d \in 0..1 /\ t \in 0..1 /\ r \in 0..1
    BY <1>1
  <1>5. TosOf(d, t, r, p, s, tos)
    BY <1>2, <1>3, <1>4 DEF TosOf
  <1>6. /\ tos \in Int /\ 0 <= tos /\ tos <= 255 /\ tos \div 32 = p /\ tos % 4 = s
        /\ (tos \div 16) % 2 = d /\ (tos \div 8) % 2 = t /\ (tos \div 4) % 2 = r
    BY ONLY <1>5, TosApart
  <1>7. /\ Bit(tos, 4) <=> (tos \div 16) % 2 = 1
        /\ Bit(tos, 3) <=> (tos \div 8) % 2 = 1
        /\ Bit(tos, 2) <=> (tos \div 4) % 2 = 1
    BY <1>6, BitsOf
  <1>8. Bit(tos, 4) = n.d_flag /\ Bit(tos, 3) = n.t_flag /\ Bit(tos, 2) = n.r_flag
    BY <1>1, <1>6, <1>7, FlagsOfIPv4 DEF Bit
  <1>9. tos \in Octet
    BY <1>6 DEF Octet
  <1> QED
    BY <1>2, <1>6, <1>8, <1>9 DEF tos

\* The word of the flags and the offset has the flags, when the offset is 0.
LEMMA OffValue ==
  ASSUME NEW n, IsIPv4(n)
  PROVE  LET off == ip_off_value(n)
         IN /\ IsWord(off)
            /\ n.offset = 0 =>
                 /\ off % 8192 = 0
                 /\ off \div 8192 = Flag(n.rsv_frag, 2) + Flag(n.dont_frag, 1) + Flag(n.more_frag, 0)
  <1> DEFINE off == ip_off_value(n)
  <1>1. PICK a, b, c \in 0..1 :
          /\ Flag(n.rsv_frag, 15) = 32768 * a /\ Flag(n.rsv_frag, 2) = 4 * a
          /\ Flag(n.dont_frag, 14) = 16384 * b /\ Flag(n.dont_frag, 1) = 2 * b
          /\ Flag(n.more_frag, 13) = 8192 * c /\ Flag(n.more_frag, 0) = c
    BY FlagsOfIPv4, FlagBits
  <1>2. n.offset \in Int
    BY IPv4Offset
  <1>3. PICK k : /\ k = NetShort(ToUShort(n.offset)) /\ k \in Int
                 /\ (n.offset = 0 => k = 0)
    <2>1. NetShort(ToUShort(n.offset)) \in Int
      BY <1>2, ToUShortType, NetShortType, WordIsInt
    <2>2. NetShort(ToUShort(0)) = 0
      BY DEF NetShort, ToUShort, Swap
    <2> QED
      BY <2>1, <2>2
  <1>4. off = (32768 * a + 16384 * b + 8192 * c + k) % 65536
    BY <1>1, <1>3 DEF ip_off_value, ToUShort
  <1> HIDE DEF off
  <1>5. off \in Int /\ IsWord(off)
    BY <1>3, <1>4 DEF IsWord
  <1>6. ASSUME n.offset = 0 PROVE off % 8192 = 0 /\ off \div 8192 = 4 * a + 2 * b + c
    <2>1. off = (32768 * a + 16384 * b + 8192 * c + 0) % 65536
      BY <1>3, <1>4, <1>6
    <2>2. off = 8192 * (4 * a + 2 * b + c)
      BY ONLY <2>1
    <2>3. PICK m \in Int : m = 4 * a + 2 * b + c
      OBVIOUS
    <2>4. off = 8192 * m
      BY <2>2, <2>3
    <2>5. off % 8192 = 0 /\ off \div 8192 = m
      BY ONLY <2>4
    <2> QED
      BY <2>3, <2>5
  <1> QED
    BY <1>1, <1>5, <1>6 DEF off

\* Where set_ip puts each field.
LEMMA IPv4Header ==
  ASSUME NEW n, IsIPv4(n), NEW length, IsOctets(length), Len(length) = 2, NEW off, IsOctets(off), Len(off) = 2,
         NEW protocol \in Octet, NEW sum, IsOctets(sum), Len(sum) = 2
  PROVE  LET o == set_ip(n, length, off, protocol, sum)
         IN /\ IsOctets(o) /\ Len(o) = 20
            /\ Lies(o, 0, <<69, ip_tos_value(n)>>) /\ Lies(o, 2, length)
            /\ Lies(o, 4, WordOctets(ToUShort(n.ident))) /\ Lies(o, 6, off)
            /\ Lies(o, 8, <<n.hop_limit, protocol>>) /\ Lies(o, 10, sum)
            /\ Lies(o, 12, n.src_ip) /\ Lies(o, 16, n.dst_ip)
  <1> DEFINE a == <<69, ip_tos_value(n)>>
             c == WordOctets(ToUShort(n.ident))
             e == <<n.hop_limit, protocol>>
             h == n.src_ip
             i == n.dst_ip
  <1>1. IsOctets(a) /\ Len(a) = 2
    <2>1. 69 \in Octet /\ ip_tos_value(n) \in Octet
      BY TosValue DEF Octet
    <2> QED
      BY <2>1, Pair
  <1>2. IsOctets(c) /\ Len(c) = 2
    <2>1. n.ident \in Int
      BY IPv4Fields
    <2> QED
      BY <2>1, UShortOctets
  <1>3. n.hop_limit \in Octet /\ n.hop_limit % 256 = n.hop_limit
    <2>1. n.hop_limit \in Octet
      BY IPv4Fields
    <2> QED
      BY <2>1, OctetKeeps
  <1>4. IsOctets(e) /\ Len(e) = 2
    BY <1>3, Pair
  <1>5. IsOctets(h) /\ Len(h) = 4 /\ IsOctets(i) /\ Len(i) = 4
    BY IPv4Fields, OctetSeqs
  <1>6. set_ip(n, length, off, protocol, sum) = a \o length \o c \o off \o e \o sum \o h \o i
    BY <1>3 DEF set_ip
  <1> HIDE DEF a, c, e, h, i
  <1> DEFINE o == a \o length \o c \o off \o e \o sum \o h \o i
  <1>7. /\ IsOctets(o) /\ Len(o) = 20
        /\ Lies(o, 0, a) /\ Lies(o, 2, length) /\ Lies(o, 4, c) /\ Lies(o, 6, off)
        /\ Lies(o, 8, e) /\ Lies(o, 10, sum) /\ Lies(o, 12, h) /\ Lies(o, 16, i)
    <2>1. /\ IsOctets(o)
          /\ Len(o) = Len(a) + Len(length) + Len(c) + Len(off) + Len(e) + Len(sum) + Len(h) + Len(i)
          /\ Lies(o, 0, a) /\ Lies(o, Len(a), length) /\ Lies(o, Len(a) + Len(length), c)
          /\ Lies(o, Len(a) + Len(length) + Len(c), off)
          /\ Lies(o, Len(a) + Len(length) + Len(c) + Len(off), e)
          /\ Lies(o, Len(a) + Len(length) + Len(c) + Len(off) + Len(e), sum)
          /\ Lies(o, Len(a) + Len(length) + Len(c) + Len(off) + Len(e) + Len(sum), h)
          /\ Lies(o, Len(a) + Len(length) + Len(c) + Len(off) + Len(e) + Len(sum) + Len(h), i)
      <3>1. AreEight(a, length, c, off, e, sum, h, i)
        BY <1>1, <1>2, <1>4, <1>5 DEF AreEight
      <3> QED
        BY ONLY <3>1, EightParts
    <2> HIDE DEF o
    <2> QED
      BY <1>1, <1>2, <1>4, <1>5, <2>1
  <1> QED
    BY <1>6, <1>7 DEF a, c, e, h, i

-----------------------------------------------------------------------------
(* The IPv6 header *)

\* The fields of an IPv6 header have the ranges that set_ipv6 expects.
LEMMA IPv6Fields ==
  ASSUME NEW n, IsIPv6(n)
  PROVE  /\ n.priority \in Octet /\ n.hop_limit \in Octet /\ n.protocol \in Octet
         /\ n.flow_label \in OctetSeq(4) /\ n.flow_label[2] < 16
         /\ n.src_ip \in OctetSeq(16) /\ n.dst_ip \in OctetSeq(16)
  BY DEF IsIPv6

\* The four octets that an IPv6 header starts with.
FirstLong(n) ==
  <<96 + ((n.priority \div 16) % 16), ((n.priority % 16) * 16) + (n.flow_label[2] % 16),
    n.flow_label[3], n.flow_label[4]>>

\* Where set_ipv6 puts each field.
LEMMA IPv6Header ==
  ASSUME NEW n, IsIPv6(n), NEW length, IsWord(length), NEW protocol \in Octet
  PROVE  LET o == set_ipv6(n, length, protocol)
         IN /\ IsOctets(o) /\ Len(o) = 40
            /\ Lies(o, 0, FirstLong(n)) /\ Lies(o, 4, WordOctets(NetShort(length)))
            /\ Lies(o, 6, <<protocol, n.hop_limit>>)
            /\ Lies(o, 8, n.src_ip) /\ Lies(o, 24, n.dst_ip)
  <1> DEFINE a == FirstLong(n)
             b == WordOctets(NetShort(length))
             c == <<protocol, n.hop_limit>>
             d == n.src_ip
             e == n.dst_ip
  <1>1. IsOctets(a) /\ Len(a) = 4
    <2>1. /\ n.flow_label[2] \in Octet /\ n.flow_label[3] \in Octet /\ n.flow_label[4] \in Octet
          /\ n.priority \in Octet
      BY IPv6Fields DEF OctetSeq
    <2>a. \A x, y \in 0..255 :
            96 + ((x \div 16) % 16) \in 0..255 /\ ((x % 16) * 16) + (y % 16) \in 0..255
      OBVIOUS
    <2>2. /\ 96 + ((n.priority \div 16) % 16) \in Octet
          /\ ((n.priority % 16) * 16) + (n.flow_label[2] % 16) \in Octet
      BY <2>1, <2>a, Zenon DEF Octet
    <2>3. \A w, x, y, z \in Octet : IsOctets(<<w, x, y, z>>) /\ Len(<<w, x, y, z>>) = 4
      BY DEF IsOctets
    <2> QED
      BY <2>1, <2>2, <2>3 DEF FirstLong
  <1>2. IsOctets(b) /\ Len(b) = 2 /\ HostWordOctets(length) = b
    BY TwoOctets, NetShortType DEF HostWordOctets
  <1>3. n.hop_limit \in Octet /\ n.hop_limit % 256 = n.hop_limit
    <2>1. n.hop_limit \in Octet
      BY IPv6Fields
    <2> QED
      BY <2>1, OctetKeeps
  <1>4. IsOctets(c) /\ Len(c) = 2
    BY <1>3, Pair
  <1>5. IsOctets(d) /\ Len(d) = 16 /\ IsOctets(e) /\ Len(e) = 16
    <2>1. n.src_ip \in OctetSeq(16) /\ n.dst_ip \in OctetSeq(16)
      BY IPv6Fields
    <2> QED
      BY ONLY <2>1, OctetSeqs
  <1>6. set_ipv6(n, length, protocol) = a \o b \o c \o d \o e
    <2>1. set_ipv6(n, length, protocol) = a \o HostWordOctets(length) \o <<protocol, n.hop_limit % 256>> \o d \o e
      BY DEF set_ipv6, FirstLong
    <2> HIDE DEF a, b, d, e
    <2> QED
      BY <1>2, <1>3, <2>1
  <1> HIDE DEF a, b, c, d, e
  <1> DEFINE o == a \o b \o c \o d \o e
  <1>7. /\ IsOctets(o) /\ Len(o) = 40
        /\ Lies(o, 0, a) /\ Lies(o, 4, b) /\ Lies(o, 6, c) /\ Lies(o, 8, d) /\ Lies(o, 24, e)
    <2>1. /\ IsOctets(o) /\ Len(o) = Len(a) + Len(b) + Len(c) + Len(d) + Len(e)
          /\ Lies(o, 0, a) /\ Lies(o, Len(a), b) /\ Lies(o, Len(a) + Len(b), c)
          /\ Lies(o, Len(a) + Len(b) + Len(c), d)
          /\ Lies(o, Len(a) + Len(b) + Len(c) + Len(d), e)
      <3>1. AreFive(a, b, c, d, e)
        BY <1>1, <1>2, <1>4, <1>5 DEF AreFive
      <3> QED
        BY ONLY <3>1, FiveParts
    <2> HIDE DEF o
    <2> QED
      BY <1>1, <1>2, <1>4, <1>5, <2>1
  <1> DEFINE q == set_ipv6(n, length, protocol)
  <1>8. /\ IsOctets(q) /\ Len(q) = 40
        /\ Lies(q, 0, a) /\ Lies(q, 4, b) /\ Lies(q, 6, c) /\ Lies(q, 8, d) /\ Lies(q, 24, e)
    BY <1>6, <1>7, SMTT(40)
  <1> QED
    BY <1>8 DEF a, b, c, d, e

-----------------------------------------------------------------------------
(* ARP *)

\* Where set_arp puts each field.
LEMMA ARPHeader ==
  ASSUME NEW n, IsARP(n)
  PROVE  LET o == set_arp(n)
         IN /\ IsOctets(o) /\ Len(o) = 28
            /\ Lies(o, 0, WordOctets(ToUShort(n.hardtype))) /\ Lies(o, 2, WordOctets(ToUShort(n.prototype)))
            /\ Lies(o, 4, <<6, 4>>) /\ Lies(o, 6, WordOctets(ToUShort(n.operation)))
            /\ Lies(o, 8, n.sender_hardaddr) /\ Lies(o, 14, n.sender_protoaddr)
            /\ Lies(o, 18, n.target_hardaddr) /\ Lies(o, 24, n.target_protoaddr)
  <1> DEFINE placed(octets, len, size) == Sized(SubSeq(octets, 1, len), size)
  <1>1. ASSUME NEW k \in Nat, NEW s \in OctetSeq(k)
        PROVE  IsOctets(s) /\ Len(s) = k /\ placed(s, k, k) = s
    <2>1. IsOctets(s) /\ Len(s) = k
      BY <1>1, OctetSeqs
    <2>2. SubSeq(s, 1, k) = s
      BY <2>1 DEF IsOctets
    <2> QED
      BY <2>1, <2>2, SizedFits
  <1> DEFINE a == WordOctets(ToUShort(n.hardtype))
             b == WordOctets(ToUShort(n.prototype))
             c == <<6, 4>>
             d == WordOctets(ToUShort(n.operation))
             e == n.sender_hardaddr
             g == n.sender_protoaddr
             h == n.target_hardaddr
             i == n.target_protoaddr
  <1>2. /\ IsOctets(e) /\ Len(e) = 6 /\ placed(e, 6, 6) = e
        /\ IsOctets(g) /\ Len(g) = 4 /\ placed(g, 4, 4) = g
        /\ IsOctets(h) /\ Len(h) = 6 /\ placed(h, 6, 6) = h
        /\ IsOctets(i) /\ Len(i) = 4 /\ placed(i, 4, 4) = i
    BY <1>1 DEF IsARP
  <1>3. n.hardtype \in Int /\ n.prototype \in Int /\ n.operation \in Int
    BY ShortsAreInt DEF IsARP
  <1>4. /\ IsOctets(a) /\ Len(a) = 2 /\ IsOctets(b) /\ Len(b) = 2
        /\ IsOctets(d) /\ Len(d) = 2
    BY <1>3, UShortOctets
  <1>5. IsOctets(c) /\ Len(c) = 2
    <2>1. 6 \in Octet /\ 4 \in Octet
      BY SMTT(40) DEF Octet
    <2> QED
      BY <2>1, Pair
  <1>6. set_arp(n) = a \o b \o c \o d \o e \o g \o h \o i
    <2>1. n.hlen = 6 /\ n.plen = 4
      BY DEF IsARP
    <2>2. set_arp(n) = a \o b \o c \o d \o placed(e, 6, 6) \o placed(g, 4, 4) \o placed(h, 6, 6) \o placed(i, 4, 4)
      BY <2>1 DEF set_arp
    <2> HIDE DEF placed
    <2> QED
      BY <1>2, <2>2
  <1> HIDE DEF a, b, c, d, e, g, h, i, placed
  <1> DEFINE o == a \o b \o c \o d \o e \o g \o h \o i
  <1>7. /\ IsOctets(o) /\ Len(o) = 28
        /\ Lies(o, 0, a) /\ Lies(o, 2, b) /\ Lies(o, 4, c) /\ Lies(o, 6, d)
        /\ Lies(o, 8, e) /\ Lies(o, 14, g) /\ Lies(o, 18, h) /\ Lies(o, 24, i)
    <2>1. /\ IsOctets(o)
          /\ Len(o) = Len(a) + Len(b) + Len(c) + Len(d) + Len(e) + Len(g) + Len(h) + Len(i)
          /\ Lies(o, 0, a) /\ Lies(o, Len(a), b) /\ Lies(o, Len(a) + Len(b), c)
          /\ Lies(o, Len(a) + Len(b) + Len(c), d)
          /\ Lies(o, Len(a) + Len(b) + Len(c) + Len(d), e)
          /\ Lies(o, Len(a) + Len(b) + Len(c) + Len(d) + Len(e), g)
          /\ Lies(o, Len(a) + Len(b) + Len(c) + Len(d) + Len(e) + Len(g), h)
          /\ Lies(o, Len(a) + Len(b) + Len(c) + Len(d) + Len(e) + Len(g) + Len(h), i)
      <3>1. AreEight(a, b, c, d, e, g, h, i)
        BY <1>2, <1>4, <1>5 DEF AreEight
      <3> QED
        BY ONLY <3>1, EightParts
    <2> HIDE DEF o
    <2> QED
      BY <1>2, <1>4, <1>5, <2>1
  <1> QED
    BY <1>6, <1>7 DEF a, b, c, d, e, g, h, i

-----------------------------------------------------------------------------
(* Checksums are numbers of 16 bits *)

\* A buffer has octets, those behind its message included,
LEMMA BufferOctet == ASSUME NEW o, IsOctets(o), NEW at \in Int PROVE OctetAt(Buffer(o), at) \in Octet
  <1>1. Buffer(o).octets = o /\ Buffer(o).beyond = Stale
    BY DEF Buffer
  <1>2. OctetAt(Buffer(o), at) = IF at + 1 \in 1..Len(o) THEN o[at + 1] ELSE Stale
    BY <1>1 DEF OctetAt
  <1>3. at + 1 \in 1..Len(o) => o[at + 1] \in Octet
    BY DEF IsOctets
  <1> QED
    BY <1>2, <1>3, StaleOctet

\* and words.
LEMMA BufferWord ==
  ASSUME NEW o, IsOctets(o), NEW at \in Int
  PROVE  IsWord(WordAt(Buffer(o), at)) /\ IsWord(HostWordAt(Buffer(o), at))
  <1>1. OctetAt(Buffer(o), at) \in Octet /\ OctetAt(Buffer(o), at + 1) \in Octet
    BY BufferOctet
  <1>2. PICK a, b : a = OctetAt(Buffer(o), at) /\ b = OctetAt(Buffer(o), at + 1)
    OBVIOUS
  <1>3. a \in Int /\ 0 <= a /\ a <= 255 /\ b \in Int /\ 0 <= b /\ b <= 255
    BY <1>1, <1>2, OctetIsInt
  <1>4. WordAt(Buffer(o), at) = a * 256 + b
    BY <1>2 DEF WordAt
  <1>5. IsWord(WordAt(Buffer(o), at))
    BY <1>3, <1>4 DEF IsWord
  <1> QED
    BY <1>5, NetShortType DEF HostWordAt, IsWord

\* A sum of n words.
IsSum(sum, n) == sum \in Int /\ 0 <= sum /\ sum <= 65535 * n

\* The sum of n words in a buffer needs no more than 16 bits for each.
LEMMA WordSumType ==
  ASSUME NEW o, IsOctets(o), NEW at \in Int, NEW n \in Nat
  PROVE  IsSum(WordSum(Buffer(o), at, n), n)
  <1> DEFINE w == [i \in 1..n |-> HostWordAt(Buffer(o), at + 2 * (i - 1))]
  <1>1. AreWords(w, n)
    <2> SUFFICES ASSUME NEW i \in 1..n PROVE w[i] \in Int /\ 0 <= w[i] /\ w[i] <= 65535
      BY DEF AreWords
    <2>1. at + 2 * (i - 1) \in Int /\ w[i] = HostWordAt(Buffer(o), at + 2 * (i - 1))
      OBVIOUS
    <2>2. PICK p \in Int : p = at + 2 * (i - 1)
      BY <2>1
    <2>3. IsWord(HostWordAt(Buffer(o), p))
      BY BufferWord
    <2>4. IsWord(w[i])
      BY <2>1, <2>2, <2>3
    <2> QED
      BY ONLY <2>4 DEF IsWord
  <1>2. WordSum(Buffer(o), at, n) = SumOf(w)[n]
    BY DEF WordSum
  <1> HIDE DEF w
  <1> QED
    BY <1>1, <1>2, SumType DEF IsSum

\* The complement of a sum is a word.
LEMMA ComplementType == ASSUME NEW n \in Int PROVE IsWord(Complement(n))
  BY DEF Complement, IsWord

\* in_cksum gives a word,
LEMMA CksumType ==
  ASSUME NEW o, IsOctets(o), NEW size \in Nat
  PROVE  IsWord(in_cksum(Buffer(o), 0, size))
  <1>1. PICK a : a = WordSum(Buffer(o), 0, size \div 2)
    OBVIOUS
  <1>2. PICK b : b = HostWordAt(Buffer(o), 0 + size - 1)
    OBVIOUS
  <1>3. a \in Int
    <2>1. size \div 2 \in Nat /\ 0 \in Int
      OBVIOUS
    <2> QED
      BY <1>1, <2>1, WordSumType DEF IsSum
  <1>4. b \in Int
    <2>1. 0 + size - 1 \in Int
      OBVIOUS
    <2> QED
      BY <1>2, <2>1, BufferWord DEF IsWord
  <1>5. a + (IF size % 2 = 1 THEN (b \div 256) * 256 ELSE 0) \in Int
    BY <1>3, <1>4
  <1>6. in_cksum(Buffer(o), 0, size) = Complement(a + (IF size % 2 = 1 THEN (b \div 256) * 256 ELSE 0))
    BY <1>1, <1>2 DEF in_cksum
  <1> QED
    BY <1>5, <1>6, ComplementType

\* and so does in_cksum2.
LEMMA Cksum2Type ==
  ASSUME NEW ip, IsOctets(ip), NEW len, IsWord(len), NEW o, IsOctets(o)
  PROVE  IsWord(in_cksum2(Buffer(ip), len, Buffer(o)))
  <1>1. Buffer(o).octets = o /\ Len(o) \in Nat /\ Len(o) \div 2 \in Nat
    <2>1. Len(o) \in Nat
      BY DEF IsOctets
    <2> QED
      BY <2>1 DEF Buffer
  <1>2. PICK a, b, c, d, e :
          /\ a = WordSum(Buffer(ip), 12, 4) /\ b = NetShort(OctetAt(Buffer(ip), 9)) /\ c = NetShort(len)
          /\ d = WordSum(Buffer(o), 0, Len(o) \div 2) /\ e = (IF Len(o) % 2 = 1 THEN o[Len(o)] ELSE 0)
    OBVIOUS
  <1>3. a \in Int
    <2>1. 12 \in Int /\ 4 \in Nat
      OBVIOUS
    <2>2. IsSum(WordSum(Buffer(ip), 12, 4), 4)
      BY <2>1, WordSumType
    <2> QED
      BY <1>2, <2>2 DEF IsSum
  <1>4. b \in Int
    <2>1. PICK k : k = OctetAt(Buffer(ip), 9)
      OBVIOUS
    <2>2. k \in Octet
      BY <2>1, BufferOctet
    <2>3. IsWord(NetShort(k))
      BY <2>2, OctetIsWord, NetShortType
    <2> QED
      BY <1>2, <2>1, <2>3, WordIsInt
  <1>5. c \in Int
    BY <1>2, NetShortType, WordIsInt
  <1>6. d \in Int
    <2>1. PICK m \in Nat : m = Len(o) \div 2
      BY <1>1
    <2>2. IsSum(WordSum(Buffer(o), 0, m), m)
      BY WordSumType
    <2> QED
      BY <1>2, <2>1, <2>2 DEF IsSum
  <1>7. e \in Int
    <2>1. Len(o) % 2 = 1 => Len(o) \in 1..Len(o)
      BY <1>1
    <2>2. \A k \in 1..Len(o) : o[k] \in Octet
      BY ONLY IsOctets(o) DEF IsOctets
    <2>3. Len(o) % 2 = 1 => o[Len(o)] \in Int
      BY ONLY <2>1, <2>2, OctetIsInt
    <2> QED
      BY <1>2, <2>3
  <1>8. in_cksum2(Buffer(ip), len, Buffer(o)) = Complement(a + b + c + d + e)
    BY <1>1, <1>2 DEF in_cksum2
  <1>9. a + b + c + d + e \in Int
    BY <1>3, <1>4, <1>5, <1>6, <1>7
  <1> QED
    BY <1>8, <1>9, ComplementType

-----------------------------------------------------------------------------
(* TCP, UDP and ICMP *)

\* The parts of set_tcp, set_udp and set_icmp that have a name there.
TCPSegment(t, payload, sum) ==
  WordOctets(ToUShort(t.src_port)) \o WordOctets(ToUShort(t.dst_port))
    \o t.sequence \o t.ack_num \o <<(5 * 16) + (Stale % 16), tcp_flags(t)>>
    \o WordOctets(ToUShort(t.window)) \o HostWordOctets(sum)
    \o WordOctets(ToUShort(t.urgent_pointer)) \o payload

TCPSum(t, payload, ip) == in_cksum2(ip, TCPHDRLEN + Len(payload), Buffer(TCPSegment(t, payload, 0)))

\* set_tcp gives a segment with its checksum in it,
LEMMA SetTCP ==
  ASSUME NEW t, NEW payload, NEW ip
  PROVE  set_tcp(t, payload, ip) = TCPSegment(t, payload, TCPSum(t, payload, ip))
  BY DEF set_tcp, TCPSegment, TCPSum

UDPDatagram(t, payload, sum) ==
  WordOctets(ToUShort(t.src_port)) \o WordOctets(ToUShort(t.dst_port))
    \o WordOctets(UDPHDRLEN + Len(payload)) \o HostWordOctets(sum) \o payload

UDPSum(t, payload, ip) == in_cksum2(ip, UDPHDRLEN + Len(payload), Buffer(UDPDatagram(t, payload, 0)))

\* set_udp a datagram, with 65535 for a checksum that is 0.
LEMMA SetUDP ==
  ASSUME NEW t, NEW payload, NEW ip
  PROVE  LET sum == UDPSum(t, payload, ip)
         IN set_udp(t, payload, ip) = UDPDatagram(t, payload, IF sum = 0 THEN 65535 ELSE sum)
  BY DEF set_udp, UDPDatagram, UDPSum

\* The ports of a TCP header are words.
LEMMA TCPPorts ==
  ASSUME NEW t, IsTCP(t)
  PROVE  IsWord(t.src_port) /\ IsWord(t.dst_port)
  <1>1. t.src_port \in UShort
    BY DEF IsTCP
  <1>2. t.dst_port \in UShort
    BY DEF IsTCP
  <1> QED
    BY <1>1, <1>2, UShortIsWord

\* So is its window, and its urgent pointer a jshort.
LEMMA TCPWindow ==
  ASSUME NEW t, IsTCP(t)
  PROVE  IsWord(t.window) /\ t.urgent_pointer \in Short
  <1>1. t.window \in UShort
    BY DEF IsTCP
  <1>2. t.urgent_pointer \in Short
    BY DEF IsTCP
  <1> QED
    BY <1>1, <1>2, UShortIsWord

\* Its numbers are four octets.
LEMMA TCPNumbers ==
  ASSUME NEW t, IsTCP(t)
  PROVE  t.sequence \in OctetSeq(4) /\ t.ack_num \in OctetSeq(4)
  BY DEF IsTCP

FlagsOf(a, b, c, d, e, g, h, i, n) ==
  /\ a \in 0..1 /\ b \in 0..1 /\ c \in 0..1 /\ d \in 0..1
  /\ e \in 0..1 /\ g \in 0..1 /\ h \in 0..1 /\ i \in 0..1
  /\ n = 128 * a + 64 * b + 32 * c + 16 * d + 8 * e + 4 * g + 2 * h + i

\* Eight flags in an octet can be told apart.
LEMMA FlagsApart ==
  ASSUME NEW a, NEW b, NEW c, NEW d, NEW e, NEW g, NEW h, NEW i, NEW n,
         FlagsOf(a, b, c, d, e, g, h, i, n)
  PROVE  /\ n \in Octet
         /\ (n \div 128) % 2 = a /\ (n \div 64) % 2 = b /\ (n \div 32) % 2 = c /\ (n \div 16) % 2 = d
         /\ (n \div 8) % 2 = e /\ (n \div 4) % 2 = g /\ (n \div 2) % 2 = h /\ (n \div 1) % 2 = i
  <1>1. /\ a \in 0..1 /\ b \in 0..1 /\ c \in 0..1 /\ d \in 0..1
        /\ e \in 0..1 /\ g \in 0..1 /\ h \in 0..1 /\ i \in 0..1
    BY DEF FlagsOf
  <1>2. n \in Int /\ n = 128 * a + 64 * b + 32 * c + 16 * d + 8 * e + 4 * g + 2 * h + i
    BY <1>1 DEF FlagsOf
  <1>3. 0 <= n /\ n <= 255
    BY <1>1, <1>2
  <1>4. n \in Octet
    BY <1>2, <1>3 DEF Octet
  <1>5. /\ (n \div 128) % 2 = a /\ (n \div 64) % 2 = b /\ (n \div 32) % 2 = c /\ (n \div 16) % 2 = d
        /\ (n \div 8) % 2 = e /\ (n \div 4) % 2 = g /\ (n \div 2) % 2 = h /\ (n \div 1) % 2 = i
    BY ONLY <1>1, <1>2
  <1> QED
    BY <1>4, <1>5

\* A bit that is 1 when a flag is set is that flag.
LEMMA OneFlag ==
  ASSUME NEW set \in BOOLEAN, NEW bit \in BOOLEAN, bit <=> Binary(set) = 1
  PROVE  bit = set
  BY DEF Binary

AreFlags(a, b, c, d, e, g, h, i) ==
  /\ a \in BOOLEAN /\ b \in BOOLEAN /\ c \in BOOLEAN /\ d \in BOOLEAN
  /\ e \in BOOLEAN /\ g \in BOOLEAN /\ h \in BOOLEAN /\ i \in BOOLEAN

\* Eight flags, put together and taken apart.
LEMMA FlagsTogether ==
  ASSUME NEW a, NEW b, NEW c, NEW d, NEW e, NEW g, NEW h, NEW i, AreFlags(a, b, c, d, e, g, h, i), NEW n,
         n = Flag(a, 7) + Flag(b, 6) + Flag(c, 5) + Flag(d, 4) + Flag(e, 3) + Flag(g, 2) + Flag(h, 1) + Flag(i, 0)
  PROVE  /\ n \in Octet
         /\ Bit(n, 7) = a /\ Bit(n, 6) = b /\ Bit(n, 5) = c /\ Bit(n, 4) = d
         /\ Bit(n, 3) = e /\ Bit(n, 2) = g /\ Bit(n, 1) = h /\ Bit(n, 0) = i
  <1>1. PICK bina \in 0..1 : Flag(a, 7) = 128 * bina /\ bina = Binary(a) /\ a \in BOOLEAN
    <2>1. a \in BOOLEAN
      BY DEF AreFlags
    <2> QED
      BY <2>1, FlagBits
  <1>2. PICK binb \in 0..1 : Flag(b, 6) = 64 * binb /\ binb = Binary(b) /\ b \in BOOLEAN
    <2>1. b \in BOOLEAN
      BY DEF AreFlags
    <2> QED
      BY <2>1, FlagBits
  <1>3. PICK binc \in 0..1 : Flag(c, 5) = 32 * binc /\ binc = Binary(c) /\ c \in BOOLEAN
    <2>1. c \in BOOLEAN
      BY DEF AreFlags
    <2> QED
      BY <2>1, FlagBits
  <1>4. PICK bind \in 0..1 : Flag(d, 4) = 16 * bind /\ bind = Binary(d) /\ d \in BOOLEAN
    <2>1. d \in BOOLEAN
      BY DEF AreFlags
    <2> QED
      BY <2>1, FlagBits
  <1>5. PICK bine \in 0..1 : Flag(e, 3) = 8 * bine /\ bine = Binary(e) /\ e \in BOOLEAN
    <2>1. e \in BOOLEAN
      BY DEF AreFlags
    <2> QED
      BY <2>1, FlagBits
  <1>6. PICK bing \in 0..1 : Flag(g, 2) = 4 * bing /\ bing = Binary(g) /\ g \in BOOLEAN
    <2>1. g \in BOOLEAN
      BY DEF AreFlags
    <2> QED
      BY <2>1, FlagBits
  <1>7. PICK binh \in 0..1 : Flag(h, 1) = 2 * binh /\ binh = Binary(h) /\ h \in BOOLEAN
    <2>1. h \in BOOLEAN
      BY DEF AreFlags
    <2> QED
      BY <2>1, FlagBits
  <1>8. PICK bini \in 0..1 : Flag(i, 0) = bini /\ bini = Binary(i) /\ i \in BOOLEAN
    <2>1. i \in BOOLEAN
      BY DEF AreFlags
    <2> QED
      BY <2>1, FlagBits
  <1>9. FlagsOf(bina, binb, binc, bind, bine, bing, binh, bini, n)
    <2>1. n = 128 * bina + 64 * binb + 32 * binc + 16 * bind + 8 * bine + 4 * bing + 2 * binh + bini
      BY <1>1, <1>2, <1>3, <1>4, <1>5, <1>6, <1>7, <1>8
    <2> QED
      BY <2>1 DEF FlagsOf
  <1>10. /\ n \in Octet
        /\ (n \div 128) % 2 = bina /\ (n \div 64) % 2 = binb /\ (n \div 32) % 2 = binc
        /\ (n \div 16) % 2 = bind /\ (n \div 8) % 2 = bine /\ (n \div 4) % 2 = bing
        /\ (n \div 2) % 2 = binh /\ (n \div 1) % 2 = bini
    BY ONLY <1>9, FlagsApart
  <1>11. n \in Int
    BY <1>10, OctetIsInt
  <1>12. Bit(n, 7) = a
    <2>1. Bit(n, 7) <=> bina = 1
      BY <1>10, <1>11, BitsOf
    <2>2. Bit(n, 7) \in BOOLEAN
      BY DEF Bit
    <2> QED
      BY <1>1, <2>1, <2>2, OneFlag
  <1>13. Bit(n, 6) = b
    <2>1. Bit(n, 6) <=> binb = 1
      BY <1>10, <1>11, BitsOf
    <2>2. Bit(n, 6) \in BOOLEAN
      BY DEF Bit
    <2> QED
      BY <1>2, <2>1, <2>2, OneFlag
  <1>14. Bit(n, 5) = c
    <2>1. Bit(n, 5) <=> binc = 1
      BY <1>10, <1>11, BitsOf
    <2>2. Bit(n, 5) \in BOOLEAN
      BY DEF Bit
    <2> QED
      BY <1>3, <2>1, <2>2, OneFlag
  <1>15. Bit(n, 4) = d
    <2>1. Bit(n, 4) <=> bind = 1
      BY <1>10, <1>11, BitsOf
    <2>2. Bit(n, 4) \in BOOLEAN
      BY DEF Bit
    <2> QED
      BY <1>4, <2>1, <2>2, OneFlag
  <1>16. Bit(n, 3) = e
    <2>1. Bit(n, 3) <=> bine = 1
      BY <1>10, <1>11, BitsOf
    <2>2. Bit(n, 3) \in BOOLEAN
      BY DEF Bit
    <2> QED
      BY <1>5, <2>1, <2>2, OneFlag
  <1>17. Bit(n, 2) = g
    <2>1. Bit(n, 2) <=> bing = 1
      BY <1>10, <1>11, BitsOf
    <2>2. Bit(n, 2) \in BOOLEAN
      BY DEF Bit
    <2> QED
      BY <1>6, <2>1, <2>2, OneFlag
  <1>18. Bit(n, 1) = h
    <2>1. Bit(n, 1) <=> binh = 1
      BY <1>10, <1>11, BitsOf
    <2>2. Bit(n, 1) \in BOOLEAN
      BY DEF Bit
    <2> QED
      BY <1>7, <2>1, <2>2, OneFlag
  <1>19. Bit(n, 0) = i
    <2>1. Bit(n, 0) <=> bini = 1
      BY <1>10, <1>11, BitsOf
    <2>2. Bit(n, 0) \in BOOLEAN
      BY DEF Bit
    <2> QED
      BY <1>8, <2>1, <2>2, OneFlag
  <1> QED
    BY <1>10, <1>12, <1>13, <1>14, <1>15, <1>16, <1>17, <1>18, <1>19

\* The octet of flags that set_tcp writes has all of them.
LEMMA FlagsValue ==
  ASSUME NEW t, IsTCP(t)
  PROVE  LET flags == tcp_flags(t)
         IN /\ flags \in Octet
            /\ Bit(flags, 7) = t.rsv1 /\ Bit(flags, 6) = t.rsv2 /\ Bit(flags, 5) = t.urg
            /\ Bit(flags, 4) = t.ack /\ Bit(flags, 3) = t.psh /\ Bit(flags, 2) = t.rst
            /\ Bit(flags, 1) = t.syn /\ Bit(flags, 0) = t.fin
  <1> DEFINE a == t.rsv1
             b == t.rsv2
             c == t.urg
             d == t.ack
             e == t.psh
             g == t.rst
             h == t.syn
             i == t.fin
             n == tcp_flags(t)
  <1>1. AreFlags(a, b, c, d, e, g, h, i)
    <2>1. a \in BOOLEAN
      BY DEF IsTCP
    <2>2. b \in BOOLEAN
      BY DEF IsTCP
    <2>3. c \in BOOLEAN
      BY DEF IsTCP
    <2>4. d \in BOOLEAN
      BY DEF IsTCP
    <2>5. e \in BOOLEAN
      BY DEF IsTCP
    <2>6. g \in BOOLEAN
      BY DEF IsTCP
    <2>7. h \in BOOLEAN
      BY DEF IsTCP
    <2>8. i \in BOOLEAN
      BY DEF IsTCP
    <2> QED
      BY <2>1, <2>2, <2>3, <2>4, <2>5, <2>6, <2>7, <2>8 DEF AreFlags
  <1>2. n = Flag(a, 7) + Flag(b, 6) + Flag(c, 5) + Flag(d, 4) + Flag(e, 3) + Flag(g, 2) + Flag(h, 1) + Flag(i, 0)
    BY DEF tcp_flags
  <1> HIDE DEF a, b, c, d, e, g, h, i, n
  <1>3. /\ n \in Octet
        /\ Bit(n, 7) = a /\ Bit(n, 6) = b /\ Bit(n, 5) = c /\ Bit(n, 4) = d
        /\ Bit(n, 3) = e /\ Bit(n, 2) = g /\ Bit(n, 1) = h /\ Bit(n, 0) = i
    BY ONLY <1>1, <1>2, FlagsTogether
  <1> QED
    BY <1>3, Zenon DEF a, b, c, d, e, g, h, i, n

-----------------------------------------------------------------------------
(* TCP segments *)

\* The octet of th_off, next to four bits that are not written.
OffOctet == (5 * 16) + (Stale % 16)

\* The offset of the data of a TCP segment is five words.
LEMMA OffOctetValue == OffOctet \in Octet /\ OffOctet \div 16 = 5
  <1>1. Stale \in Int /\ 0 <= Stale /\ Stale <= 255
    BY StaleOctet, OctetIsInt
  <1>2. Stale % 16 \in 0..15
    BY <1>1
  <1>3. PICK k \in 0..15 : k = Stale % 16
    BY <1>2
  <1>4. OffOctet = 80 + k
    BY <1>3 DEF OffOctet
  <1>5. OffOctet \in Int /\ 80 <= OffOctet /\ OffOctet <= 95
    BY <1>4
  <1> QED
    BY <1>5 DEF Octet

\* Where set_tcp puts each field.
LEMMA TCPParts ==
  ASSUME NEW t, IsTCP(t), NEW payload, IsOctets(payload), NEW sum, IsWord(sum)
  PROVE  LET o == TCPSegment(t, payload, sum)
         IN /\ IsOctets(o) /\ Len(o) = 20 + Len(payload)
            /\ Lies(o, 0, WordOctets(t.src_port)) /\ Lies(o, 2, WordOctets(t.dst_port))
            /\ Lies(o, 4, t.sequence) /\ Lies(o, 8, t.ack_num)
            /\ Lies(o, 12, <<OffOctet, tcp_flags(t)>>) /\ Lies(o, 14, WordOctets(t.window))
            /\ Lies(o, 16, HostWordOctets(sum))
            /\ Lies(o, 18, WordOctets(ToUShort(t.urgent_pointer))) /\ Lies(o, 20, payload)
  <1> DEFINE a == WordOctets(t.src_port)
             b == WordOctets(t.dst_port)
             c == t.sequence
             d == t.ack_num
             e == <<OffOctet, tcp_flags(t)>>
             g == WordOctets(t.window)
             h == HostWordOctets(sum)
             i == WordOctets(ToUShort(t.urgent_pointer))
             o == TCPSegment(t, payload, sum)
  <1>1. IsOctets(a) /\ Len(a) = 2 /\ IsOctets(b) /\ Len(b) = 2
    BY TCPPorts, TwoOctets
  <1>2. IsOctets(c) /\ Len(c) = 4 /\ IsOctets(d) /\ Len(d) = 4
    BY TCPNumbers, OctetSeqs
  <1>3. IsOctets(e) /\ Len(e) = 2
    <2>1. OffOctet \in Octet /\ tcp_flags(t) \in Octet
      BY OffOctetValue, FlagsValue
    <2> QED
      BY <2>1, Pair
  <1>4. IsOctets(g) /\ Len(g) = 2
    BY TCPWindow, TwoOctets
  <1>5. IsOctets(h) /\ Len(h) = 2
    BY TwoHostOctets
  <1>6. IsOctets(i) /\ Len(i) = 2
    <2>1. t.urgent_pointer \in Int
      BY TCPWindow, ShortsAreInt
    <2> QED
      BY <2>1, UShortOctets
  <1>7. o = a \o b \o c \o d \o e \o g \o h \o i \o payload
    <2>1. ToUShort(t.src_port) = t.src_port /\ ToUShort(t.dst_port) = t.dst_port /\ ToUShort(t.window) = t.window
      BY TCPPorts, TCPWindow, ToUShortKeeps
    <2> QED
      BY <2>1 DEF TCPSegment, OffOctet
  <1>8. AreNine(a, b, c, d, e, g, h, i, payload)
    BY <1>1, <1>2, <1>3, <1>4, <1>5, <1>6 DEF AreNine
  <1> HIDE DEF a, b, c, d, e, g, h, i, o
  <1>9. /\ IsOctets(o)
        /\ Len(o) = Len(a) + Len(b) + Len(c) + Len(d) + Len(e) + Len(g) + Len(h) + Len(i) + Len(payload)
        /\ Lies(o, 0, a) /\ Lies(o, Len(a), b) /\ Lies(o, Len(a) + Len(b), c)
        /\ Lies(o, Len(a) + Len(b) + Len(c), d)
        /\ Lies(o, Len(a) + Len(b) + Len(c) + Len(d), e)
        /\ Lies(o, Len(a) + Len(b) + Len(c) + Len(d) + Len(e), g)
        /\ Lies(o, Len(a) + Len(b) + Len(c) + Len(d) + Len(e) + Len(g), h)
        /\ Lies(o, Len(a) + Len(b) + Len(c) + Len(d) + Len(e) + Len(g) + Len(h), i)
        /\ Lies(o, Len(a) + Len(b) + Len(c) + Len(d) + Len(e) + Len(g) + Len(h) + Len(i), payload)
    BY ONLY <1>7, <1>8, NineParts
  <1>10. /\ IsOctets(o) /\ Len(o) = 20 + Len(payload)
         /\ Lies(o, 0, a) /\ Lies(o, 2, b) /\ Lies(o, 4, c) /\ Lies(o, 8, d) /\ Lies(o, 12, e)
         /\ Lies(o, 14, g) /\ Lies(o, 16, h) /\ Lies(o, 18, i) /\ Lies(o, 20, payload)
    BY <1>1, <1>2, <1>3, <1>4, <1>5, <1>6, <1>9
  <1> QED
    BY <1>10, Zenon DEF a, b, c, d, e, g, h, i, o

\* Where the checksum and the data of a segment are.
LEMMA TCPShape ==
  ASSUME NEW t, IsTCP(t), NEW payload, IsOctets(payload), NEW sum, IsWord(sum)
  PROVE  LET o == TCPSegment(t, payload, sum)
         IN /\ IsOctets(o) /\ Len(o) = 20 + Len(payload)
            /\ Lies(o, 16, HostWordOctets(sum)) /\ Lies(o, 20, payload)
  BY TCPParts, Zenon

-----------------------------------------------------------------------------
(* UDP datagrams *)

\* Where set_udp puts each field.
LEMMA UDPParts ==
  ASSUME NEW t, IsUDP(t), NEW payload, IsOctets(payload), IsWord(UDPHDRLEN + Len(payload)),
         NEW sum, IsWord(sum)
  PROVE  LET o == UDPDatagram(t, payload, sum)
         IN /\ IsOctets(o) /\ Len(o) = 8 + Len(payload)
            /\ Lies(o, 0, WordOctets(t.src_port)) /\ Lies(o, 2, WordOctets(t.dst_port))
            /\ Lies(o, 4, WordOctets(UDPHDRLEN + Len(payload))) /\ Lies(o, 6, HostWordOctets(sum))
            /\ Lies(o, 8, payload)
  <1> DEFINE a == WordOctets(t.src_port)
             b == WordOctets(t.dst_port)
             c == WordOctets(UDPHDRLEN + Len(payload))
             d == HostWordOctets(sum)
             o == UDPDatagram(t, payload, sum)
  <1>1. IsWord(t.src_port) /\ IsWord(t.dst_port)
    BY UShortIsWord DEF IsUDP
  <1>2. /\ IsOctets(a) /\ Len(a) = 2 /\ IsOctets(b) /\ Len(b) = 2
        /\ IsOctets(c) /\ Len(c) = 2
    BY <1>1, TwoOctets
  <1>3. IsOctets(d) /\ Len(d) = 2
    BY TwoHostOctets
  <1>4. o = a \o b \o c \o d \o payload
    BY <1>1, ToUShortKeeps DEF UDPDatagram
  <1>5. AreFive(a, b, c, d, payload)
    BY <1>2, <1>3 DEF AreFive
  <1> HIDE DEF a, b, c, d, o
  <1>6. /\ IsOctets(o) /\ Len(o) = Len(a) + Len(b) + Len(c) + Len(d) + Len(payload)
        /\ Lies(o, 0, a) /\ Lies(o, Len(a), b) /\ Lies(o, Len(a) + Len(b), c)
        /\ Lies(o, Len(a) + Len(b) + Len(c), d)
        /\ Lies(o, Len(a) + Len(b) + Len(c) + Len(d), payload)
    BY ONLY <1>4, <1>5, FiveParts
  <1>7. /\ IsOctets(o) /\ Len(o) = 8 + Len(payload)
        /\ Lies(o, 0, a) /\ Lies(o, 2, b) /\ Lies(o, 4, c) /\ Lies(o, 6, d) /\ Lies(o, 8, payload)
    BY <1>2, <1>3, <1>6
  <1> QED
    BY <1>7, Zenon DEF a, b, c, d, o

-----------------------------------------------------------------------------
(* ICMP messages *)

\* What set_icmp writes behind the checksum.
ICMPQuoted(n) ==
  IF n = NotSet THEN <<>>
  ELSE set_ip(n, StaleOctets(2), HostWordOctets(ip_off_value(n)), Stale, StaleOctets(2))

ICMPRest(t, payload) ==
  LET idseq == WordOctets(ToUShort(t.id)) \o WordOctets(ToUShort(t.seq))
  IN CASE t.type \in {ICMP_ECHOREPLY, ICMP_ECHO} -> idseq \o payload
       [] t.type = ICMP_REDIRECT -> t.redir_ip \o ICMPQuoted(t.ippacket) \o StaleOctets(4)
       [] t.type \in {ICMP_UNREACH, ICMP_SOURCEQUENCH, ICMP_TIMXCEED, ICMP_PARAMPROB} ->
            StaleOctets(4) \o ICMPQuoted(t.ippacket) \o StaleOctets(4)
       [] t.type \in {ICMP_TSTAMP, ICMP_TSTAMPREPLY} ->
            idseq \o t.timestamps[1] \o t.timestamps[2] \o t.timestamps[3]
       [] t.type \in {ICMP_MASKREQ, ICMP_MASKREPLY} -> idseq \o t.subnetmask
       [] OTHER -> <<>>

ICMPMessage(t, sum, rest) == <<t.type, t.code>> \o sum \o rest

\* set_icmp gives a message with its checksum in it.
LEMMA SetICMP ==
  ASSUME NEW t, NEW payload, ICMPRest(t, payload) # <<>>
  PROVE  LET rest == ICMPRest(t, payload)
             sum == in_cksum(Buffer(ICMPMessage(t, <<0, 0>>, rest)), 0, 4 + Len(rest))
         IN set_icmp(t, payload) = ICMPMessage(t, HostWordOctets(sum), rest)
  BY Zenon DEF set_icmp, ICMPRest, ICMPQuoted, ICMPMessage

\* The header that an ICMP error quotes is an IPv4 header, or there is none.
LEMMA QuotedType ==
  ASSUME NEW n, n = NotSet \/ IsIPv4(n)
  PROVE  IsOctets(ICMPQuoted(n)) /\ Len(ICMPQuoted(n)) \in {0, 20}
  <1>1. CASE n = NotSet
    BY <1>1 DEF ICMPQuoted, IsOctets
  <1>2. CASE n # NotSet
    <2>1. PICK a : a = StaleOctets(2) /\ IsOctets(a) /\ Len(a) = 2
      BY StaleOctetsType
    <2>2. PICK b : b = HostWordOctets(ip_off_value(n)) /\ IsOctets(b) /\ Len(b) = 2
      BY <1>2, OffValue, TwoHostOctets
    <2>3. IsOctets(set_ip(n, a, b, Stale, a)) /\ Len(set_ip(n, a, b, Stale, a)) = 20
      BY <1>2, <2>1, <2>2, StaleOctet, IPv4Header
    <2>4. ICMPQuoted(n) = set_ip(n, a, b, Stale, a)
      BY <1>2, <2>1, <2>2 DEF ICMPQuoted
    <2> QED
      BY <2>3, <2>4
  <1> QED
    BY <1>1, <1>2

ICMPTypes ==
  {ICMP_ECHOREPLY, ICMP_UNREACH, ICMP_SOURCEQUENCH, ICMP_REDIRECT, ICMP_ECHO, ICMP_TIMXCEED,
   ICMP_PARAMPROB, ICMP_TSTAMP, ICMP_TSTAMPREPLY, ICMP_MASKREQ, ICMP_MASKREPLY}
Echoes == {ICMP_ECHOREPLY, ICMP_ECHO}
Errors == {ICMP_UNREACH, ICMP_SOURCEQUENCH, ICMP_TIMXCEED, ICMP_PARAMPROB}

\* The types that set_icmp has cases for, and that they differ.
LEMMA TypesApart ==
  /\ ICMPTypes \subseteq 0..127
  /\ \A k \in ICMPTypes : \/ k \in Echoes
                          \/ k = ICMP_REDIRECT
                          \/ k \in Errors
                          \/ k \in {ICMP_TSTAMP, ICMP_TSTAMPREPLY}
                          \/ k \in {ICMP_MASKREQ, ICMP_MASKREPLY}
  /\ ICMP_REDIRECT \notin Echoes
  /\ \A k \in Errors : k \notin Echoes /\ k # ICMP_REDIRECT
  /\ \A k \in {ICMP_TSTAMP, ICMP_TSTAMPREPLY} : k \notin Echoes /\ k # ICMP_REDIRECT /\ k \notin Errors
  /\ \A k \in {ICMP_MASKREQ, ICMP_MASKREPLY} :
       k \notin Echoes /\ k # ICMP_REDIRECT /\ k \notin Errors /\ k \notin {ICMP_TSTAMP, ICMP_TSTAMPREPLY}
  BY DEF ICMPTypes, Echoes, Errors, ICMP_ECHOREPLY, ICMP_UNREACH, ICMP_SOURCEQUENCH, ICMP_REDIRECT,
         ICMP_ECHO, ICMP_TIMXCEED, ICMP_PARAMPROB, ICMP_TSTAMP, ICMP_TSTAMPREPLY, ICMP_MASKREQ, ICMP_MASKREPLY

\* An ICMP message has one of them.
LEMMA ICMPKind == ASSUME NEW t, IsICMP(t) PROVE t.type \in ICMPTypes /\ t.code \in 0..127
  BY DEF IsICMP, ICMPTypes

\* Its identifier and number are words.
LEMMA ICMPWords == ASSUME NEW t, IsICMP(t) PROVE IsWord(t.id) /\ IsWord(t.seq)
  <1>1. t.id \in UShort /\ t.seq \in UShort
    BY DEF IsICMP
  <1> QED
    BY <1>1, UShortIsWord

\* Its addresses and its times are four octets.
LEMMA ICMPAddresses ==
  ASSUME NEW t, IsICMP(t)
  PROVE  /\ IsOctets(t.redir_ip) /\ Len(t.redir_ip) = 4
         /\ IsOctets(t.subnetmask) /\ Len(t.subnetmask) = 4
         /\ \A i \in 1..3 : IsOctets(t.timestamps[i]) /\ Len(t.timestamps[i]) = 4
  <1>1. t.redir_ip \in OctetSeq(4)
    BY DEF IsICMP
  <1>2. t.subnetmask \in OctetSeq(4)
    BY DEF IsICMP
  <1>3. \A i \in 1..3 : t.timestamps[i] \in OctetSeq(4)
    BY DEF IsICMP
  <1> QED
    BY <1>1, <1>2, <1>3, OctetSeqs

\* What it quotes is an IPv4 packet, or nothing.
LEMMA ICMPQuote == ASSUME NEW t, IsICMP(t) PROVE t.ippacket = NotSet \/ IsIPv4(t.ippacket)
  BY DEF IsICMP

\* A type is the same as an octet and as a jbyte.
LEMMA TypeOctet == ASSUME NEW k \in 0..127 PROVE k \in Octet /\ ToByte(k) = k
  BY DEF Octet, ToByte

\* Identifier and sequence number.
IdSeq(t) == WordOctets(ToUShort(t.id)) \o WordOctets(ToUShort(t.seq))

\* The identifier and the number are put as words.
LEMMA IdSeqParts ==
  ASSUME NEW t, IsICMP(t)
  PROVE  /\ IsOctets(IdSeq(t)) /\ Len(IdSeq(t)) = 4
         /\ Lies(IdSeq(t), 0, WordOctets(t.id)) /\ Lies(IdSeq(t), 2, WordOctets(t.seq))
  <1> DEFINE a == WordOctets(t.id)
             b == WordOctets(t.seq)
  <1>1. IsOctets(a) /\ Len(a) = 2 /\ IsOctets(b) /\ Len(b) = 2
    BY ICMPWords, TwoOctets
  <1>2. IdSeq(t) = a \o b
    BY ICMPWords, ToUShortKeeps DEF IdSeq
  <1> HIDE DEF a, b
  <1>3. /\ IsOctets(a \o b) /\ Len(a \o b) = Len(a) + Len(b)
        /\ Lies(a \o b, 0, a) /\ Lies(a \o b, Len(a), b)
    BY <1>1, TwoParts
  <1>4. /\ IsOctets(IdSeq(t)) /\ Len(IdSeq(t)) = 4
        /\ Lies(IdSeq(t), 0, a) /\ Lies(IdSeq(t), 2, b)
    BY <1>1, <1>2, <1>3
  <1> QED
    BY <1>4 DEF a, b

\* What is behind the checksum, by type.
LEMMA RestOfType ==
  ASSUME NEW t, NEW payload
  PROVE  LET rest == ICMPRest(t, payload)
             quoted == ICMPQuoted(t.ippacket)
         IN /\ t.type \in Echoes => rest = IdSeq(t) \o payload
            /\ t.type = ICMP_REDIRECT => rest = t.redir_ip \o quoted \o StaleOctets(4)
            /\ t.type \in Errors => rest = StaleOctets(4) \o quoted \o StaleOctets(4)
            /\ t.type \in {ICMP_TSTAMP, ICMP_TSTAMPREPLY} =>
                 rest = IdSeq(t) \o t.timestamps[1] \o t.timestamps[2] \o t.timestamps[3]
            /\ t.type \in {ICMP_MASKREQ, ICMP_MASKREPLY} => rest = IdSeq(t) \o t.subnetmask
  <1> DEFINE k == t.type
             a == IdSeq(t) \o payload
             b == t.redir_ip \o ICMPQuoted(t.ippacket) \o StaleOctets(4)
             c == StaleOctets(4) \o ICMPQuoted(t.ippacket) \o StaleOctets(4)
             d == IdSeq(t) \o t.timestamps[1] \o t.timestamps[2] \o t.timestamps[3]
             e == IdSeq(t) \o t.subnetmask
  <1>1. ICMPRest(t, payload) =
          CASE k \in {ICMP_ECHOREPLY, ICMP_ECHO} -> a
            [] k = ICMP_REDIRECT -> b
            [] k \in {ICMP_UNREACH, ICMP_SOURCEQUENCH, ICMP_TIMXCEED, ICMP_PARAMPROB} -> c
            [] k \in {ICMP_TSTAMP, ICMP_TSTAMPREPLY} -> d
            [] k \in {ICMP_MASKREQ, ICMP_MASKREPLY} -> e
            [] OTHER -> <<>>
    BY DEF ICMPRest, IdSeq
  <1> HIDE DEF k, a, b, c, d, e
  <1>2. k \in Echoes => ICMPRest(t, payload) = a
    BY <1>1, TypesApart DEF Echoes, Errors
  <1>3. k = ICMP_REDIRECT => ICMPRest(t, payload) = b
    BY <1>1, TypesApart DEF Echoes, Errors
  <1>4. k \in Errors => ICMPRest(t, payload) = c
    BY <1>1, TypesApart DEF Echoes, Errors
  <1>5. k \in {ICMP_TSTAMP, ICMP_TSTAMPREPLY} => ICMPRest(t, payload) = d
    BY <1>1, TypesApart DEF Echoes, Errors
  <1>6. k \in {ICMP_MASKREQ, ICMP_MASKREPLY} => ICMPRest(t, payload) = e
    BY <1>1, TypesApart DEF Echoes, Errors
  <1> QED
    BY <1>2, <1>3, <1>4, <1>5, <1>6, Zenon DEF k, a, b, c, d, e

\* What is behind the checksum of an echo: identifier, number and data.
LEMMA EchoRest ==
  ASSUME NEW t, IsICMP(t), t.type \in Echoes, NEW payload, IsOctets(payload)
  PROVE  LET rest == ICMPRest(t, payload)
         IN /\ IsOctets(rest) /\ Len(rest) = 4 + Len(payload)
            /\ Lies(rest, 0, WordOctets(t.id)) /\ Lies(rest, 2, WordOctets(t.seq)) /\ Lies(rest, 4, payload)
  <1>1. PICK i : /\ i = IdSeq(t) /\ IsOctets(i) /\ Len(i) = 4
                 /\ Lies(i, 0, WordOctets(t.id)) /\ Lies(i, 2, WordOctets(t.seq))
    BY IdSeqParts
  <1>2. ICMPRest(t, payload) = i \o payload
    BY <1>1, RestOfType
  <1>3. /\ IsOctets(i \o payload) /\ Len(i \o payload) = Len(i) + Len(payload)
        /\ Lies(i \o payload, Len(i), payload)
        /\ \A at, s : Lies(i, at, s) => Lies(i \o payload, at, s)
    BY <1>1, Appended
  <1> QED
    BY <1>1, <1>2, <1>3

\* Any other message has an even number of octets, and no data.
LEMMA OtherRest ==
  ASSUME NEW t, IsICMP(t), t.type \notin Echoes, NEW payload
  PROVE  LET rest == ICMPRest(t, payload)
         IN IsOctets(rest) /\ Len(rest) >= 4 /\ Len(rest) <= 28 /\ Len(rest) % 2 = 0
  <1>1. PICK i : i = IdSeq(t) /\ IsOctets(i) /\ Len(i) = 4
    BY IdSeqParts
  <1>2. PICK q : q = ICMPQuoted(t.ippacket) /\ IsOctets(q) /\ Len(q) \in {0, 20}
    BY ICMPQuote, QuotedType
  <1>3. PICK s : s = StaleOctets(4) /\ IsOctets(s) /\ Len(s) = 4
    BY StaleOctetsType
  <1>4. PICK k \in Int : Len(q) = k /\ (k = 0 \/ k = 20)
    <2>1. Len(q) \in Int /\ (Len(q) = 0 \/ Len(q) = 20)
      BY <1>2
    <2> QED
      BY ONLY <2>1, Zenon
  <1>5. Len(s) = 4
    BY <1>3
  <1>6. CASE t.type = ICMP_REDIRECT
    <2>1. PICK r : r = t.redir_ip /\ IsOctets(r) /\ Len(r) = 4
      BY ICMPAddresses
    <2>2. ICMPRest(t, payload) = r \o q \o s
      BY <1>2, <1>3, <1>6, <2>1, RestOfType
    <2>3. IsOctets(r \o q \o s) /\ Len(r \o q \o s) = Len(r) + Len(q) + Len(s)
      <3>1. AreThree(r, q, s)
        BY <1>2, <1>3, <2>1 DEF AreThree
      <3> QED
        BY ONLY <3>1, ThreeParts
    <2>4. /\ IsOctets(ICMPRest(t, payload))
          /\ Len(ICMPRest(t, payload)) = Len(r) + Len(q) + Len(s)
      BY <2>2, <2>3
    <2>5. Len(ICMPRest(t, payload)) = 4 + k + 4
      <3>1. Len(r) = 4
        BY <2>1
      <3> QED
        BY <1>4, <1>5, <2>4, <3>1
    <2> QED
      BY <1>4, <2>4, <2>5
  <1>7. CASE t.type \in Errors
    <2>1. ICMPRest(t, payload) = s \o q \o s
      BY <1>2, <1>3, <1>7, RestOfType
    <2>2. IsOctets(s \o q \o s) /\ Len(s \o q \o s) = Len(s) + Len(q) + Len(s)
      <3>1. AreThree(s, q, s)
        BY <1>2, <1>3 DEF AreThree
      <3> QED
        BY ONLY <3>1, ThreeParts
    <2>3. /\ IsOctets(ICMPRest(t, payload))
          /\ Len(ICMPRest(t, payload)) = Len(s) + Len(q) + Len(s)
      BY <2>1, <2>2
    <2>4. Len(ICMPRest(t, payload)) = 4 + k + 4
      BY <1>4, <1>5, <2>3
    <2> QED
      BY <1>4, <2>3, <2>4
  <1>8. CASE t.type \in {ICMP_TSTAMP, ICMP_TSTAMPREPLY}
    <2>1. PICK a, b, c : /\ a = t.timestamps[1] /\ b = t.timestamps[2] /\ c = t.timestamps[3]
                         /\ IsOctets(a) /\ Len(a) = 4 /\ IsOctets(b) /\ Len(b) = 4
                         /\ IsOctets(c) /\ Len(c) = 4
      BY ICMPAddresses
    <2>2. ICMPRest(t, payload) = i \o a \o b \o c
      BY <1>1, <1>8, <2>1, RestOfType
    <2>3. PICK m : m = i \o a \o b /\ IsOctets(m) /\ Len(m) = Len(i) + Len(a) + Len(b)
      <3>1. AreThree(i, a, b)
        BY <1>1, <2>1 DEF AreThree
      <3>2. IsOctets(i \o a \o b) /\ Len(i \o a \o b) = Len(i) + Len(a) + Len(b)
        BY ONLY <3>1, ThreeParts
      <3> QED
        BY <3>2
    <2>4. IsOctets(m \o c) /\ Len(m \o c) = Len(m) + Len(c)
      BY <2>1, <2>3, Appended
    <2>5. ICMPRest(t, payload) = m \o c
      BY <2>2, <2>3
    <2>6. /\ IsOctets(ICMPRest(t, payload))
          /\ Len(ICMPRest(t, payload)) = Len(i) + Len(a) + Len(b) + Len(c)
      BY <2>3, <2>4, <2>5
    <2> QED
      BY ONLY <1>1, <2>1, <2>6
  <1>9. CASE t.type \in {ICMP_MASKREQ, ICMP_MASKREPLY}
    <2>1. PICK m : m = t.subnetmask /\ IsOctets(m) /\ Len(m) = 4
      BY ICMPAddresses
    <2>2. ICMPRest(t, payload) = i \o m
      BY <1>1, <1>9, <2>1, RestOfType
    <2>3. IsOctets(i \o m) /\ Len(i \o m) = Len(i) + Len(m)
      BY <1>1, <2>1, Appended
    <2> QED
      BY <1>1, <2>1, <2>2, <2>3
  <1> QED
    BY <1>6, <1>7, <1>8, <1>9, ICMPKind, TypesApart

\* Where the fields behind the checksum are.
LEMMA RestParts ==
  ASSUME NEW t, IsICMP(t), NEW payload, IsOctets(payload)
  PROVE  LET rest == ICMPRest(t, payload)
         IN /\ t.type \in Numbered => Lies(rest, 0, WordOctets(t.id)) /\ Lies(rest, 2, WordOctets(t.seq))
            /\ t.type = ICMP_REDIRECT => Lies(rest, 0, t.redir_ip)
            /\ t.type \in Timed =>
                 /\ Lies(rest, 4, t.timestamps[1]) /\ Lies(rest, 8, t.timestamps[2])
                 /\ Lies(rest, 12, t.timestamps[3])
            /\ t.type \in Masked => Lies(rest, 4, t.subnetmask)
  <1> DEFINE rest == ICMPRest(t, payload)
             HasNumbers == Lies(rest, 0, WordOctets(t.id)) /\ Lies(rest, 2, WordOctets(t.seq))
  <1>1. PICK i : /\ i = IdSeq(t) /\ IsOctets(i) /\ Len(i) = 4
                 /\ Lies(i, 0, WordOctets(t.id)) /\ Lies(i, 2, WordOctets(t.seq))
    BY IdSeqParts
  <1>2. t.type \in Echoes => HasNumbers
    BY EchoRest
  <1>3. t.type = ICMP_REDIRECT => Lies(rest, 0, t.redir_ip)
    <2> SUFFICES ASSUME t.type = ICMP_REDIRECT PROVE Lies(rest, 0, t.redir_ip)
      OBVIOUS
    <2>1. PICK r, q, s : /\ r = t.redir_ip /\ q = ICMPQuoted(t.ippacket) /\ s = StaleOctets(4)
                         /\ AreThree(r, q, s)
      BY ICMPAddresses, ICMPQuote, QuotedType, StaleOctetsType DEF AreThree
    <2>2. rest = r \o q \o s
      BY <2>1, RestOfType
    <2> QED
      BY <2>1, <2>2, ThreeParts
  <1>4. t.type \in Timed =>
          /\ HasNumbers /\ Lies(rest, 4, t.timestamps[1]) /\ Lies(rest, 8, t.timestamps[2])
          /\ Lies(rest, 12, t.timestamps[3])
    <2> SUFFICES ASSUME t.type \in Timed
                 PROVE  /\ HasNumbers /\ Lies(rest, 4, t.timestamps[1]) /\ Lies(rest, 8, t.timestamps[2])
                        /\ Lies(rest, 12, t.timestamps[3])
      OBVIOUS
    <2>1. PICK a, b, c : /\ a = t.timestamps[1] /\ b = t.timestamps[2] /\ c = t.timestamps[3]
                         /\ IsOctets(a) /\ Len(a) = 4 /\ IsOctets(b) /\ Len(b) = 4 /\ IsOctets(c)
      BY ICMPAddresses
    <2>2. PICK m : /\ m = i \o a \o b /\ IsOctets(m) /\ Len(m) = 12
                   /\ Lies(m, 0, i) /\ Lies(m, 4, a) /\ Lies(m, 8, b)
      <3>1. PICK m : m = i \o a \o b
        OBVIOUS
      <3>2. AreThree(i, a, b)
        BY <1>1, <2>1 DEF AreThree
      <3>3. /\ IsOctets(m) /\ Len(m) = Len(i) + Len(a) + Len(b)
            /\ Lies(m, 0, i) /\ Lies(m, Len(i), a) /\ Lies(m, Len(i) + Len(a), b)
        BY ONLY <3>1, <3>2, ThreeParts
      <3>4. Len(i) = 4 /\ Len(a) = 4 /\ Len(b) = 4
        BY <1>1, <2>1
      <3>5. IsOctets(m) /\ Len(m) = 12 /\ Lies(m, 0, i) /\ Lies(m, 4, a) /\ Lies(m, 8, b)
        BY ONLY <3>3, <3>4, SMTT(40)
      <3> QED
        BY <3>1, <3>5
    <2>3. rest = m \o c
      BY <1>1, <2>1, <2>2, RestOfType DEF Timed
    <2> HIDE DEF rest
    <2>4. Lies(rest, 12, c) /\ \A at, s : Lies(m, at, s) => Lies(rest, at, s)
      BY <2>1, <2>2, <2>3, Appended
    <2>5. Lies(rest, 0 + 0, WordOctets(t.id)) /\ Lies(rest, 0 + 2, WordOctets(t.seq))
      BY <1>1, <2>2, <2>4, LiesWithin
    <2> QED
      BY <2>1, <2>2, <2>4, <2>5
  <1>5. t.type \in Masked => HasNumbers /\ Lies(rest, 4, t.subnetmask)
    <2> SUFFICES ASSUME t.type \in Masked PROVE HasNumbers /\ Lies(rest, 4, t.subnetmask)
      OBVIOUS
    <2>1. PICK m : m = t.subnetmask /\ IsOctets(m)
      BY ICMPAddresses
    <2>2. rest = i \o m
      BY <1>1, <2>1, RestOfType DEF Masked
    <2> HIDE DEF rest
    <2>3. Lies(rest, 4, m) /\ \A at, s : Lies(i, at, s) => Lies(rest, at, s)
      BY <1>1, <2>1, <2>2, Appended
    <2> QED
      BY <1>1, <2>1, <2>3
  <1>6. t.type \in Numbered => t.type \in Echoes \/ t.type \in Timed \/ t.type \in Masked
    BY DEF Numbered, Echoes
  <1> HIDE DEF HasNumbers
  <1>7. t.type \in Numbered => HasNumbers
    BY <1>2, <1>4, <1>5, <1>6
  <1> QED
    BY <1>3, <1>4, <1>5, <1>7, Zenon DEF HasNumbers

\* Where set_icmp puts each part.
LEMMA ICMPParts ==
  ASSUME NEW t, IsICMP(t), NEW rest, IsOctets(rest), NEW sum, IsOctets(sum), Len(sum) = 2
  PROVE  LET o == ICMPMessage(t, sum, rest)
         IN /\ IsOctets(o) /\ Len(o) = 4 + Len(rest)
            /\ Lies(o, 0, <<t.type, t.code>>) /\ Lies(o, 2, sum) /\ Lies(o, 4, rest)
  <1>1. PICK a : a = <<t.type, t.code>> /\ IsOctets(a) /\ Len(a) = 2
    <2>1. t.type \in Octet /\ t.code \in Octet
      BY ICMPKind, TypesApart, TypeOctet
    <2> QED
      BY <2>1, Pair
  <1>2. ICMPMessage(t, sum, rest) = a \o sum \o rest
    BY <1>1 DEF ICMPMessage
  <1>3. /\ IsOctets(a \o sum \o rest) /\ Len(a \o sum \o rest) = Len(a) + Len(sum) + Len(rest)
        /\ Lies(a \o sum \o rest, 0, a) /\ Lies(a \o sum \o rest, Len(a), sum)
        /\ Lies(a \o sum \o rest, Len(a) + Len(sum), rest)
    <2>1. AreThree(a, sum, rest)
      BY <1>1 DEF AreThree
    <2> QED
      BY ONLY <2>1, ThreeParts
  <1>4. /\ IsOctets(a \o sum \o rest) /\ Len(a \o sum \o rest) = 4 + Len(rest)
        /\ Lies(a \o sum \o rest, 0, a) /\ Lies(a \o sum \o rest, 2, sum)
        /\ Lies(a \o sum \o rest, 4, rest)
    BY <1>1, <1>3
  <1> QED
    BY <1>1, <1>2, <1>4

-----------------------------------------------------------------------------
(* What an IP header carries *)

\* Data that a packet object may have.
IsPayload(s) == IsOctets(s) /\ Len(s) <= 1600

\* What is sent fits the buffer, with its headers.
LEMMA PayloadLength ==
  ASSUME NEW s, IsPayload(s)
  PROVE  IsOctets(s) /\ Len(s) \in Nat /\ IsWord(Len(s)) /\ IsWord(8 + Len(s)) /\ IsWord(20 + Len(s))
  BY DEF IsPayload, IsOctets, IsWord

\* The message of a TCP packet and its checksum.
LEMMA TCPCarried ==
  ASSUME NEW t, IsTCP(t), NEW payload, IsPayload(payload), NEW ip, IsOctets(ip)
  PROVE  LET sum == TCPSum(t, payload, Buffer(ip))
         IN set_tcp(t, payload, Buffer(ip)) = TCPSegment(t, payload, sum) /\ IsWord(sum)
  <1>1. IsOctets(payload) /\ IsWord(20 + Len(payload))
    BY PayloadLength
  <1>2. IsWord(0)
    BY DEF IsWord
  <1>3. IsOctets(TCPSegment(t, payload, 0))
    BY <1>1, <1>2, TCPParts
  <1>4. IsWord(in_cksum2(Buffer(ip), 20 + Len(payload), Buffer(TCPSegment(t, payload, 0))))
    BY <1>1, <1>3, Cksum2Type
  <1>5. IsWord(TCPSum(t, payload, Buffer(ip)))
    BY <1>4 DEF TCPSum, TCPHDRLEN
  <1> QED
    BY <1>5, SetTCP

\* The sum that is sent: 0 is sent as its other form.
UDPSent(sum) == IF sum = 0 THEN 65535 ELSE sum

\* The message of a UDP packet and its checksum.
LEMMA UDPCarried ==
  ASSUME NEW t, IsUDP(t), NEW payload, IsPayload(payload), NEW ip, IsOctets(ip)
  PROVE  LET sum == UDPSum(t, payload, Buffer(ip))
         IN /\ set_udp(t, payload, Buffer(ip)) = UDPDatagram(t, payload, UDPSent(sum))
            /\ IsWord(sum) /\ IsWord(UDPSent(sum))
  <1>1. IsOctets(payload) /\ IsWord(UDPHDRLEN + Len(payload))
    BY PayloadLength DEF UDPHDRLEN
  <1>2. IsWord(0) /\ IsWord(65535)
    BY DEF IsWord
  <1>3. IsOctets(UDPDatagram(t, payload, 0))
    BY <1>1, <1>2, UDPParts
  <1>4. IsWord(in_cksum2(Buffer(ip), UDPHDRLEN + Len(payload), Buffer(UDPDatagram(t, payload, 0))))
    BY <1>1, <1>3, Cksum2Type
  <1>5. IsWord(UDPSum(t, payload, Buffer(ip)))
    BY <1>4 DEF UDPSum
  <1> QED
    BY <1>2, <1>5, SetUDP DEF UDPSent

ICMPSum(t, payload) ==
  LET rest == ICMPRest(t, payload)
  IN in_cksum(Buffer(ICMPMessage(t, <<0, 0>>, rest)), 0, 4 + Len(rest))

\* The octets behind the checksum of an ICMP message: an echo has its data there,
\* and those of the other types are even.
LEMMA ICMPRestType ==
  ASSUME NEW t, IsICMP(t), NEW payload, IsOctets(payload)
  PROVE  LET rest == ICMPRest(t, payload)
         IN /\ IsOctets(rest) /\ Len(rest) >= 4 /\ rest # <<>>
            /\ t.type \in Echoes => Len(rest) = 4 + Len(payload)
            /\ t.type \notin Echoes => Len(rest) <= 28 /\ Len(rest) % 2 = 0
  <1>1. PICK rest : rest = ICMPRest(t, payload)
    OBVIOUS
  <1>2. CASE t.type \in Echoes
    <2>1. IsOctets(rest) /\ Len(rest) = 4 + Len(payload)
      BY <1>1, <1>2, EchoRest
    <2>2. Len(payload) \in Nat
      BY DEF IsOctets
    <2>3. Len(rest) >= 4
      BY <2>1, <2>2
    <2>4. rest # <<>>
      BY <2>3
    <2> QED
      BY <1>1, <1>2, <2>1, <2>3, <2>4
  <1>3. CASE t.type \notin Echoes
    <2>1. IsOctets(rest) /\ Len(rest) >= 4 /\ Len(rest) <= 28 /\ Len(rest) % 2 = 0
      BY <1>1, <1>3, OtherRest
    <2>2. rest # <<>>
      BY <2>1
    <2> QED
      BY <1>1, <1>3, <2>1, <2>2
  <1> QED
    BY <1>2, <1>3

\* The message of an ICMP packet and its checksum.
LEMMA ICMPCarried ==
  ASSUME NEW t, IsICMP(t), NEW payload, IsOctets(payload)
  PROVE  LET sum == ICMPSum(t, payload)
         IN /\ set_icmp(t, payload) = ICMPMessage(t, HostWordOctets(sum), ICMPRest(t, payload))
            /\ IsWord(sum)
  <1>1. PICK rest : /\ rest = ICMPRest(t, payload) /\ IsOctets(rest) /\ Len(rest) >= 4 /\ rest # <<>>
    BY ICMPRestType
  <1>2. IsOctets(ICMPMessage(t, <<0, 0>>, rest))
    BY <1>1, ZeroOctets, ICMPParts
  <1>3. 4 + Len(rest) \in Nat
    BY <1>1 DEF IsOctets
  <1>4. IsWord(in_cksum(Buffer(ICMPMessage(t, <<0, 0>>, rest)), 0, 4 + Len(rest)))
    BY <1>2, <1>3, CksumType
  <1>5. IsWord(ICMPSum(t, payload))
    BY <1>1, <1>4 DEF ICMPSum
  <1>6. set_icmp(t, payload) = ICMPMessage(t, HostWordOctets(ICMPSum(t, payload)), ICMPRest(t, payload))
    BY <1>1, SetICMP DEF ICMPSum
  <1> QED
    BY <1>5, <1>6

\* The octets of the transport header.
TransportOctets(p) ==
  CASE p.class = "TCPPacket" -> TCPHDRLEN [] p.class = "UDPPacket" -> UDPHDRLEN
    [] p.class = "ICMPPacket" -> ICMPHDRLEN [] OTHER -> 0

\* Objects of which the data is sent behind all headers.
KeepsData(p) ==
  \/ p.class \in {"IPPacket", "TCPPacket", "UDPPacket"}
  \/ p.class = "ICMPPacket" /\ p.transport.type \in Echoes

\* The transport header of a packet has the ranges of its class.
LEMMA SentTransport ==
  ASSUME NEW p, IsTransport(p)
  PROVE  /\ p.class = "TCPPacket" => IsTCP(p.transport)
         /\ p.class = "UDPPacket" => IsUDP(p.transport)
         /\ p.class = "ICMPPacket" => IsICMP(p.transport)
         /\ p.class = "IPPacket" => p.network.protocol \notin {IPPROTO_TCP, IPPROTO_UDP, IPPROTO_ICMP}
  <1> DEFINE k == p.class
             a == IsTCP(p.transport)
             b == IsUDP(p.transport)
             c == IsICMP(p.transport)
             d == p.network.protocol \notin {IPPROTO_TCP, IPPROTO_UDP, IPPROTO_ICMP}
  <1>1. (CASE k = "TCPPacket" -> a [] k = "UDPPacket" -> b [] k = "ICMPPacket" -> c [] OTHER -> d)
    BY Zenon DEF IsTransport
  <1> HIDE DEF k, a, b, c, d
  <1>2. /\ k = "TCPPacket" => a
        /\ k = "UDPPacket" => b
        /\ k = "ICMPPacket" => c
        /\ k = "IPPacket" => d
    BY <1>1
  <1> QED
    BY <1>2, Zenon DEF k, a, b, c, d

\* What is carried is what the set function of the class gives.
LEMMA CarriedOfClass ==
  ASSUME NEW p, NEW ip
  PROVE  /\ p.class = "TCPPacket" => Carried(p, ip) = set_tcp(p.transport, p.data, ip)
         /\ p.class = "UDPPacket" => Carried(p, ip) = set_udp(p.transport, p.data, ip)
         /\ p.class = "ICMPPacket" => Carried(p, ip) = set_icmp(p.transport, p.data)
         /\ p.class = "IPPacket" => Carried(p, ip) = p.data
  BY DEF Carried

\* The octets of a transport header.
LEMMA TransportOfClass ==
  ASSUME NEW p
  PROVE  /\ p.class = "TCPPacket" => TransportOctets(p) = 20
         /\ p.class \in {"UDPPacket", "ICMPPacket"} => TransportOctets(p) = 8
         /\ p.class \notin {"TCPPacket", "UDPPacket", "ICMPPacket"} => TransportOctets(p) = 0
  BY DEF TransportOctets, TCPHDRLEN, UDPHDRLEN, ICMPHDRLEN

\* A carried message c of an object: its header of k octets and the data d.
HoldsData(c, k, d) == Len(c) = k + Len(d) /\ Lies(c, k, d)

\* What is carried is octets, which fit the buffer and end with the data.
LEMMA CarriedType ==
  ASSUME NEW p, IsIP(p), IsTransport(p), IsPayload(p.data), NEW ip, IsOctets(ip)
  PROVE  LET c == Carried(p, Buffer(ip))
         IN /\ IsOctets(c) /\ Len(c) \in Nat /\ Len(c) >= TransportOctets(p) /\ Len(c) <= 1700
            /\ KeepsData(p) => HoldsData(c, TransportOctets(p), p.data)
  <1> DEFINE c == Carried(p, Buffer(ip))
             d == p.data
             t == p.transport
             k == TransportOctets(p)
  <1>1. IsPayload(d) /\ IsOctets(d) /\ Len(d) \in Nat /\ Len(d) <= 1600
    BY PayloadLength DEF IsPayload
  <1>2. CASE p.class = "TCPPacket"
    <2>1. PICK sum : IsWord(sum) /\ c = TCPSegment(t, d, sum) /\ IsTCP(t) /\ k = 20
      BY <1>1, <1>2, TCPCarried, CarriedOfClass, TransportOfClass, SentTransport
    <2> HIDE DEF c, d, t, k
    <2>2. IsOctets(c) /\ Len(c) = 20 + Len(d) /\ Lies(c, 20, d)
      BY <1>1, <2>1, TCPShape
    <2>3. k = 20
      BY <2>1
    <2>4. IsOctets(c) /\ Len(c) \in Nat /\ Len(c) >= k /\ Len(c) <= 1700 /\ HoldsData(c, k, d)
      BY ONLY <1>1, <2>2, <2>3 DEF HoldsData
    <2> QED
      BY <2>4 DEF c, d, t, k
  <1>3. CASE p.class = "UDPPacket"
    <2>1. PICK sum : IsWord(sum) /\ c = UDPDatagram(t, d, sum) /\ IsUDP(t) /\ k = 8
      BY <1>1, <1>3, UDPCarried, CarriedOfClass, TransportOfClass, SentTransport
    <2> HIDE DEF c, d, t, k
    <2>2. IsOctets(c) /\ Len(c) = 8 + Len(d) /\ Lies(c, 8, d)
      BY <1>1, <2>1, UDPParts, PayloadLength DEF UDPHDRLEN
    <2>3. k = 8
      BY <2>1
    <2>4. IsOctets(c) /\ Len(c) \in Nat /\ Len(c) >= k /\ Len(c) <= 1700 /\ HoldsData(c, k, d)
      BY ONLY <1>1, <2>2, <2>3 DEF HoldsData
    <2> QED
      BY <2>4 DEF c, d, t, k
  <1>4. CASE p.class = "ICMPPacket"
    <2>1. PICK s : IsOctets(s) /\ Len(s) = 2 /\ c = ICMPMessage(t, s, ICMPRest(t, d)) /\ IsICMP(t) /\ k = 8
      BY <1>1, <1>4, ICMPCarried, CarriedOfClass, TransportOfClass, SentTransport, TwoHostOctets
    <2> DEFINE rest == ICMPRest(t, d)
    <2> HIDE DEF c, d, t, k
    <2>2. /\ IsOctets(rest) /\ Len(rest) >= 4
          /\ t.type \in Echoes => Len(rest) = 4 + Len(d) /\ Lies(rest, 4, d)
          /\ t.type \notin Echoes => Len(rest) <= 28
      BY <1>1, <2>1, ICMPRestType, EchoRest
    <2> HIDE DEF rest
    <2>3. IsOctets(c) /\ Len(c) = 4 + Len(rest) /\ Lies(c, 4, rest)
      BY <2>1, <2>2, ICMPParts DEF rest
    <2>4. Len(rest) \in Nat /\ k = 8
      BY <2>1, <2>2 DEF IsOctets
    <2>5. Len(rest) <= 1604
      BY <1>1, <2>2, <2>4
    <2>6. IsOctets(c) /\ Len(c) \in Nat /\ Len(c) >= k /\ Len(c) <= 1700
      BY <2>2, <2>3, <2>4, <2>5
    <2>7. ASSUME t.type \in Echoes PROVE HoldsData(c, k, d)
      <3>1. Lies(c, 4 + 4, d)
        BY <2>2, <2>3, <2>7, LiesWithin
      <3>2. Lies(c, 8, d) /\ Len(c) = 8 + Len(d)
        BY <1>1, <2>2, <2>3, <2>7, <3>1
      <3> QED
        BY <2>4, <3>2 DEF HoldsData
    <2>8. KeepsData(p) => t.type \in Echoes
      BY <1>4 DEF KeepsData, t
    <2> QED
      BY <2>6, <2>7, <2>8 DEF c, d, k
  <1>5. CASE p.class = "IPPacket"
    <2>1. c = d /\ k = 0
      BY <1>5, CarriedOfClass, TransportOfClass
    <2> HIDE DEF c, d, t, k
    <2>2. Lies(d, 0, d)
      BY <1>1, OctetsAreInts, LiesWhole
    <2>3. IsOctets(c) /\ Len(c) \in Nat /\ Len(c) >= k /\ Len(c) <= 1700 /\ HoldsData(c, k, d)
      BY <1>1, <2>1, <2>2 DEF HoldsData
    <2> QED
      BY <2>3 DEF c, d, t, k
  <1> QED
    BY <1>2, <1>3, <1>4, <1>5 DEF IsIP

-----------------------------------------------------------------------------
(* Packets that are sent *)

\* Packets of IP are not of the other classes.
LEMMA ClassesApart ==
  ASSUME NEW p
  PROVE  /\ IsIP(p) <=> p.class \in IPClasses
         /\ p.class = "ARPPacket" => ~IsIP(p)
         /\ p.class = "Packet" => ~IsIP(p)
  BY DEF IsIP, IPClasses

FitsIPv6(p) ==
  LET total == Len(set_packet(p))
  IN total >= 46 /\ total <= NetShort(total) + 40 /\ NetShort(total) + 40 <= MaxShort

\* The network header of a packet has the ranges of its version.
LEMMA SentNetwork ==
  ASSUME NEW p, IsNetwork(p)
  PROVE  /\ IsIP(p) /\ p.network.version = 4 =>
              IsIPv4(p.network) /\ p.network.offset = 0 /\ IsTransport(p)
         /\ IsIP(p) /\ p.network.version # 4 =>
              /\ p.network.version = 6 /\ IsIPv6(p.network) /\ IsTransport(p)
              /\ ~IsExtension(p.network.protocol) /\ FitsIPv6(p)
         /\ p.class = "ARPPacket" => IsARP(p.network)
         /\ IsIP(p) \/ p.class = "ARPPacket" \/ p.class = "Packet"
  <1> DEFINE i == IsIP(p)
             v == p.network.version
             k == p.class
             a == IsIPv4(p.network) /\ p.network.offset = 0 /\ IsTransport(p)
             b == /\ IsIPv6(p.network) /\ IsTransport(p) /\ ~IsExtension(p.network.protocol)
                  /\ FitsIPv6(p)
             c == IsARP(p.network)
  <1>1. (CASE i /\ v = 4 -> a [] i /\ v = 6 -> b [] k = "ARPPacket" -> c [] OTHER -> k = "Packet")
    BY Zenon DEF IsNetwork, FitsIPv6
  <1>2. (k = "ARPPacket" => ~i) /\ (k = "Packet" => ~i)
    BY ClassesApart
  <1> HIDE DEF i, v, k, a, b, c
  <1>3. /\ i /\ v = 4 => a
        /\ i /\ v # 4 => v = 6 /\ b
        /\ k = "ARPPacket" => c
        /\ i \/ k = "ARPPacket" \/ k = "Packet"
    BY <1>1, <1>2
  <1> QED
    BY <1>3, Zenon DEF i, v, k, a, b, c

\* The protocol of a class.
LEMMA ProtocolOfClass ==
  ASSUME NEW p
  PROVE  /\ p.class = "TCPPacket" => ProtocolOf(p) = IPPROTO_TCP
         /\ p.class = "UDPPacket" => ProtocolOf(p) = IPPROTO_UDP
         /\ p.class = "ICMPPacket" => ProtocolOf(p) = IPPROTO_ICMP
         /\ p.class = "IPPacket" => ProtocolOf(p) = p.network.protocol % 256
  BY DEF ProtocolOf

\* The transport protocols are octets.
LEMMA ProtocolNumbers ==
  IPPROTO_TCP \in Octet /\ IPPROTO_UDP \in Octet /\ IPPROTO_ICMP \in Octet
  BY DEF Octet, IPPROTO_TCP, IPPROTO_UDP, IPPROTO_ICMP

\* The protocol of an IPPacket is that of the object.
LEMMA ProtocolSent ==
  ASSUME NEW p, IsIP(p), IsIPv4(p.network) \/ IsIPv6(p.network)
  PROVE  ProtocolOf(p) \in Octet /\ (p.class = "IPPacket" => ProtocolOf(p) = p.network.protocol)
  <1>1. p.network.protocol \in Octet
    BY IPv4Fields, IPv6Fields
  <1>2. p.network.protocol % 256 = p.network.protocol
    BY <1>1, OctetKeeps
  <1> QED
    BY <1>1, <1>2, ProtocolOfClass, ProtocolNumbers DEF IsIP

-----------------------------------------------------------------------------
(* IPv4 packets *)

IPv4Head(p, length, sum) ==
  set_ip(p.network, length, WordOctets(ip_off_value(p.network)), ProtocolOf(p), sum)

IPv4Carried(p) == Carried(p, Buffer(IPv4Head(p, <<0, 0>>, <<0, 0>>)))

IPv4Total(p) == WordOctets(IPv4HDRLEN + Len(IPv4Carried(p)))

IPv4Sum(p) == in_cksum(Buffer(IPv4Head(p, IPv4Total(p), <<0, 0>>)), 0, IPv4HDRLEN)

\* The octets of an IPv4 packet: its header and what it carries.
LEMMA IPv4Is ==
  ASSUME NEW p
  PROVE  IPv4Octets(p) = IPv4Head(p, IPv4Total(p), HostWordOctets(IPv4Sum(p))) \o IPv4Carried(p)
  BY Zenon DEF IPv4Octets, IPv4Head, IPv4Carried, IPv4Total, IPv4Sum, TotalLength

\* An IP packet that can be sent, in a header of version 4.
InIPv4(p) == IsIP(p) /\ IsIPv4(p.network) /\ IsTransport(p) /\ IsPayload(p.data)

\* What is known of the object of an IPv4 packet.
LEMMA InIPv4Facts ==
  ASSUME NEW p, InIPv4(p)
  PROVE  IsIP(p) /\ IsIPv4(p.network) /\ IsTransport(p) /\ IsPayload(p.data) /\ ProtocolOf(p) \in Octet
  BY ProtocolSent DEF InIPv4

\* Where its header has each field.
LEMMA IPv4HeadParts ==
  ASSUME NEW p, InIPv4(p), NEW length, IsOctets(length), Len(length) = 2,
         NEW sum, IsOctets(sum), Len(sum) = 2
  PROVE  LET o == IPv4Head(p, length, sum)
             n == p.network
         IN /\ IsOctets(o) /\ Len(o) = 20
            /\ Lies(o, 0, <<69, ip_tos_value(n)>>) /\ Lies(o, 2, length)
            /\ Lies(o, 4, WordOctets(ToUShort(n.ident))) /\ Lies(o, 6, WordOctets(ip_off_value(n)))
            /\ Lies(o, 8, <<n.hop_limit, ProtocolOf(p)>>) /\ Lies(o, 10, sum)
            /\ Lies(o, 12, n.src_ip) /\ Lies(o, 16, n.dst_ip)
  <1> DEFINE n == p.network
             k == ProtocolOf(p)
             off == WordOctets(ip_off_value(n))
  <1>1. IsIPv4(n) /\ k \in Octet
    BY InIPv4Facts
  <1>2. IsOctets(off) /\ Len(off) = 2
    BY <1>1, OffValue, TwoOctets
  <1>3. IPv4Head(p, length, sum) = set_ip(n, length, off, k, sum)
    BY DEF IPv4Head
  <1> HIDE DEF n, k, off
  <1>4. LET o == set_ip(n, length, off, k, sum)
        IN /\ IsOctets(o) /\ Len(o) = 20
           /\ Lies(o, 0, <<69, ip_tos_value(n)>>) /\ Lies(o, 2, length)
           /\ Lies(o, 4, WordOctets(ToUShort(n.ident))) /\ Lies(o, 6, off)
           /\ Lies(o, 8, <<n.hop_limit, k>>) /\ Lies(o, 10, sum)
           /\ Lies(o, 12, n.src_ip) /\ Lies(o, 16, n.dst_ip)
    BY <1>1, <1>2, IPv4Header, Zenon
  <1> QED
    BY <1>3, <1>4, Zenon DEF n, k, off

\* Where its header and what it carries are, and that its length is that of both.
LEMMA IPv4Layers ==
  ASSUME NEW p, InIPv4(p)
  PROVE  LET o == IPv4Octets(p)
             h == IPv4Head(p, IPv4Total(p), HostWordOctets(IPv4Sum(p)))
             c == IPv4Carried(p)
         IN /\ IsOctets(o) /\ Len(o) = 20 + Len(c) /\ IsWord(Len(o))
            /\ IsOctets(h) /\ Len(h) = 20 /\ IsOctets(c) /\ Len(c) \in Nat
            /\ Lies(o, 0, h) /\ Lies(o, 20, c)
            /\ IPv4Total(p) = WordOctets(Len(o)) /\ IsWord(IPv4Sum(p))
            /\ Len(c) >= TransportOctets(p)
            /\ KeepsData(p) => HoldsData(c, TransportOctets(p), p.data)
  <1> DEFINE z == <<0, 0>>
             c == IPv4Carried(p)
             l == IPv4Total(p)
             s == IPv4Sum(p)
             h == IPv4Head(p, l, HostWordOctets(s))
             o == IPv4Octets(p)
  <1>1. IsOctets(z) /\ Len(z) = 2
    BY ZeroOctets
  <1>2. IsOctets(IPv4Head(p, z, z))
    BY <1>1, IPv4HeadParts
  <1>3. /\ IsOctets(c) /\ Len(c) \in Nat /\ Len(c) >= TransportOctets(p) /\ Len(c) <= 1700
        /\ KeepsData(p) => HoldsData(c, TransportOctets(p), p.data)
    BY <1>2, InIPv4Facts, CarriedType DEF IPv4Carried
  <1>4. IsWord(20 + Len(c)) /\ l = WordOctets(20 + Len(c))
    BY <1>3 DEF IsWord, IPv4Total, IPv4HDRLEN
  <1>5. IsOctets(l) /\ Len(l) = 2
    BY <1>4, TwoOctets
  <1> HIDE DEF l, c
  <1>6. IsOctets(IPv4Head(p, l, z))
    BY <1>1, <1>5, IPv4HeadParts
  <1>7. IsWord(s)
    <2>1. s = in_cksum(Buffer(IPv4Head(p, l, z)), 0, 20) /\ 20 \in Nat
      BY DEF IPv4Sum, l, IPv4HDRLEN
    <2> QED
      BY <1>6, <2>1, CksumType
  <1>8. IsOctets(HostWordOctets(s)) /\ Len(HostWordOctets(s)) = 2
    BY <1>7, TwoHostOctets
  <1> HIDE DEF s
  <1>9. IsOctets(h) /\ Len(h) = 20
    BY <1>5, <1>8, IPv4HeadParts
  <1>10. o = h \o c
    BY IPv4Is DEF c, l, s
  <1> HIDE DEF h, o
  <1>11. /\ IsOctets(h \o c) /\ Len(h \o c) = Len(h) + Len(c)
         /\ Lies(h \o c, 0, h) /\ Lies(h \o c, Len(h), c)
    <2>1. IsOctets(h) /\ IsOctets(c)
      BY <1>3, <1>9
    <2> QED
      BY ONLY <2>1, TwoParts
  <1>12. IsOctets(o) /\ Len(o) = 20 + Len(c) /\ Lies(o, 0, h) /\ Lies(o, 20, c)
    BY <1>9, <1>10, <1>11
  <1>13. IsWord(Len(o)) /\ l = WordOctets(Len(o))
    BY <1>4, <1>12
  <1>14. /\ IsOctets(o) /\ Len(o) = 20 + Len(c) /\ IsWord(Len(o))
         /\ IsOctets(h) /\ Len(h) = 20 /\ IsOctets(c) /\ Len(c) \in Nat
         /\ Lies(o, 0, h) /\ Lies(o, 20, c)
         /\ l = WordOctets(Len(o)) /\ IsWord(s)
         /\ Len(c) >= TransportOctets(p)
         /\ KeepsData(p) => HoldsData(c, TransportOctets(p), p.data)
    BY <1>3, <1>7, <1>9, <1>12, <1>13
  <1> QED
    BY ONLY <1>14 DEF c, h, l, o, s

-----------------------------------------------------------------------------
(* IPv6 packets *)

IPv6Head(p, length) == set_ipv6(p.network, length, ProtocolOf(p))

IPv6Carried(p) == Carried(p, Buffer(IPv6Head(p, 0)))

\* The octets of an IPv6 packet: its header and what it carries.
LEMMA IPv6Is ==
  ASSUME NEW p
  PROVE  IPv6Octets(p) = IPv6Head(p, 40 + Len(IPv6Carried(p))) \o IPv6Carried(p)
  BY Zenon DEF IPv6Octets, IPv6Head, IPv6Carried, TotalLength

\* An IP packet that can be sent, in a header of version 6.
InIPv6(p) == IsIP(p) /\ IsIPv6(p.network) /\ IsTransport(p) /\ IsPayload(p.data)

\* What is known of the object of an IPv6 packet.
LEMMA InIPv6Facts ==
  ASSUME NEW p, InIPv6(p)
  PROVE  IsIP(p) /\ IsIPv6(p.network) /\ IsTransport(p) /\ IsPayload(p.data) /\ ProtocolOf(p) \in Octet
  BY ProtocolSent DEF InIPv6

\* Where its header has each field.
LEMMA IPv6HeadParts ==
  ASSUME NEW p, InIPv6(p), NEW length, IsWord(length)
  PROVE  LET o == IPv6Head(p, length)
             n == p.network
         IN /\ IsOctets(o) /\ Len(o) = 40
            /\ Lies(o, 0, FirstLong(n)) /\ Lies(o, 4, WordOctets(NetShort(length)))
            /\ Lies(o, 6, <<ProtocolOf(p), n.hop_limit>>)
            /\ Lies(o, 8, n.src_ip) /\ Lies(o, 24, n.dst_ip)
  <1> DEFINE n == p.network
             k == ProtocolOf(p)
  <1>1. IsIPv6(n) /\ k \in Octet
    BY InIPv6Facts
  <1>2. IPv6Head(p, length) = set_ipv6(n, length, k)
    BY DEF IPv6Head
  <1> HIDE DEF n, k
  <1>3. LET o == set_ipv6(n, length, k)
        IN /\ IsOctets(o) /\ Len(o) = 40
           /\ Lies(o, 0, FirstLong(n)) /\ Lies(o, 4, WordOctets(NetShort(length)))
           /\ Lies(o, 6, <<k, n.hop_limit>>)
           /\ Lies(o, 8, n.src_ip) /\ Lies(o, 24, n.dst_ip)
    BY <1>1, IPv6Header, Zenon
  <1> QED
    BY <1>2, <1>3, Zenon DEF n, k

\* Where its header and what it carries are.
LEMMA IPv6Layers ==
  ASSUME NEW p, InIPv6(p)
  PROVE  LET o == IPv6Octets(p)
             h == IPv6Head(p, Len(o))
             c == IPv6Carried(p)
         IN /\ IsOctets(o) /\ Len(o) = 40 + Len(c) /\ IsWord(Len(o))
            /\ IsOctets(h) /\ Len(h) = 40 /\ IsOctets(c) /\ Len(c) \in Nat
            /\ Lies(o, 0, h) /\ Lies(o, 40, c)
            /\ Len(c) >= TransportOctets(p)
            /\ KeepsData(p) => HoldsData(c, TransportOctets(p), p.data)
  <1> DEFINE c == IPv6Carried(p)
             l == 40 + Len(c)
             h == IPv6Head(p, l)
             o == IPv6Octets(p)
  <1>1. IsOctets(IPv6Head(p, 0))
    <2>1. IsWord(0)
      BY DEF IsWord
    <2> QED
      BY <2>1, IPv6HeadParts
  <1>2. /\ IsOctets(c) /\ Len(c) \in Nat /\ Len(c) >= TransportOctets(p) /\ Len(c) <= 1700
        /\ KeepsData(p) => HoldsData(c, TransportOctets(p), p.data)
    BY <1>1, InIPv6Facts, CarriedType DEF IPv6Carried
  <1>3. IsWord(l)
    BY <1>2 DEF IsWord
  <1>4. IsOctets(h) /\ Len(h) = 40
    BY <1>3, IPv6HeadParts
  <1>5. o = h \o c
    BY IPv6Is
  <1> HIDE DEF c, l, h, o
  <1>6. /\ IsOctets(h \o c) /\ Len(h \o c) = Len(h) + Len(c)
        /\ Lies(h \o c, 0, h) /\ Lies(h \o c, Len(h), c)
    <2>1. IsOctets(h) /\ IsOctets(c)
      BY <1>2, <1>4
    <2> QED
      BY ONLY <2>1, TwoParts
  <1>7. IsOctets(o) /\ Len(o) = 40 + Len(c) /\ Lies(o, 0, h) /\ Lies(o, 40, c)
    BY <1>4, <1>5, <1>6
  <1>8. l = Len(o) /\ h = IPv6Head(p, Len(o))
    BY <1>7 DEF l, h
  <1>9. /\ IsOctets(o) /\ Len(o) = 40 + Len(c) /\ IsWord(Len(o))
        /\ IsOctets(h) /\ Len(h) = 40 /\ IsOctets(c) /\ Len(c) \in Nat
        /\ Lies(o, 0, h) /\ Lies(o, 40, c)
        /\ Len(c) >= TransportOctets(p)
        /\ KeepsData(p) => HoldsData(c, TransportOctets(p), p.data)
    BY <1>2, <1>3, <1>4, <1>7, <1>8
  <1> QED
    BY ONLY <1>8, <1>9 DEF c, o

-----------------------------------------------------------------------------
(* Any packet *)

\* What is known of an object that can be sent.
LEMMA SendableFacts ==
  ASSUME NEW p, Sendable(p)
  PROVE  IsPayload(p.data) /\ IsNetwork(p)
  BY DEF Sendable, IsPayload, IsOctets, MAX_PACKET_SIZE

\* What is known of one of IP.
LEMMA SendableIP ==
  ASSUME NEW p, Sendable(p), IsIP(p)
  PROVE  /\ p.network.version = 4 => InIPv4(p) /\ p.network.offset = 0
         /\ p.network.version # 4 =>
              p.network.version = 6 /\ InIPv6(p) /\ FitsIPv6(p) /\ ~IsExtension(p.network.protocol)
  BY SendableFacts, SentNetwork DEF InIPv4, InIPv6

\* The octets of an object of each class.
LEMMA SetPacket ==
  ASSUME NEW p
  PROVE  /\ IsIP(p) /\ p.network.version = 4 => set_packet(p) = IPv4Octets(p)
         /\ IsIP(p) /\ p.network.version # 4 => set_packet(p) = IPv6Octets(p)
         /\ p.class = "ARPPacket" => set_packet(p) = Sized(set_arp(p.network), 28 + Len(p.data))
         /\ p.class = "Packet" => set_packet(p) = p.data
  BY ClassesApart, Zenon DEF set_packet, sizeof_ether_arp

\* Where the header of an ARP packet is.
LEMMA ARPLayers ==
  ASSUME NEW p, Sendable(p), p.class = "ARPPacket"
  PROVE  /\ IsARP(p.network)
         /\ IsOctets(set_packet(p)) /\ Len(set_packet(p)) = 28 + Len(p.data)
         /\ Lies(set_packet(p), 0, set_arp(p.network))
  <1>1. IsARP(p.network)
    BY SendableFacts, SentNetwork
  <1>2. IsOctets(set_arp(p.network)) /\ Len(set_arp(p.network)) = 28
    BY <1>1, ARPHeader
  <1>3. Len(p.data) \in Nat
    BY SendableFacts, PayloadLength
  <1>4. 28 + Len(p.data) \in Nat /\ 28 + Len(p.data) >= 28
    BY <1>3
  <1>5. PICK k : k = 28 + Len(p.data)
    OBVIOUS
  <1>6. PICK s : s = set_arp(p.network)
    OBVIOUS
  <1>7. IsOctets(Sized(s, k)) /\ Len(Sized(s, k)) = k /\ Lies(Sized(s, k), 0, s)
    BY <1>2, <1>4, <1>5, <1>6, SizedFits
  <1> QED
    BY <1>1, <1>5, <1>6, <1>7, SetPacket

\* An object becomes octets, however it is sent.
LEMMA PacketType ==
  ASSUME NEW p, Sendable(p)
  PROVE  IsOctets(set_packet(p)) /\ Len(set_packet(p)) \in Nat
  <1>1. CASE IsIP(p) /\ p.network.version = 4
    BY <1>1, SendableIP, SetPacket, IPv4Layers
  <1>2. CASE IsIP(p) /\ p.network.version # 4
    BY <1>2, SendableIP, SetPacket, IPv6Layers
  <1>3. CASE p.class = "ARPPacket"
    <2>1. IsOctets(set_packet(p))
      BY <1>3, ARPLayers
    <2> QED
      BY <2>1 DEF IsOctets
  <1>4. CASE p.class = "Packet"
    BY <1>4, SendableFacts, PayloadLength, SetPacket
  <1> QED
    BY <1>1, <1>2, <1>3, <1>4, SendableFacts, SentNetwork

-----------------------------------------------------------------------------
(* Frames that are sent *)

\* Where packets start on each link.
LEMMA LinkStart ==
  /\ offset_data(DLT_EN10MB) = 14 /\ offset_data(DLT_RAW) = 0 /\ DLT_RAW # DLT_EN10MB
  /\ offset_type(DLT_EN10MB) = 12
  BY DEF offset_data, offset_type, DLT_EN10MB, DLT_RAW, DLT_IEEE802

\* Where the Ethernet header has each field.
LEMMA EtherParts ==
  ASSUME NEW p, IsEthernet(p.datalink)
  PROVE  LET o == set_ether(p)
             d == p.datalink
         IN /\ IsOctets(o) /\ Len(o) = 14
            /\ Lies(o, 0, d.dst_mac) /\ Lies(o, 6, d.src_mac) /\ Lies(o, 12, WordOctets(ToUShort(d.frametype)))
  <1> DEFINE d == p.datalink
             a == d.dst_mac
             b == d.src_mac
             c == WordOctets(ToUShort(d.frametype))
             o == set_ether(p)
  <1>1. d.by = "EthernetPacket" /\ a \in OctetSeq(6) /\ b \in OctetSeq(6) /\ d.frametype \in Short
    BY DEF IsEthernet
  <1>2. IsOctets(a) /\ Len(a) = 6 /\ IsOctets(b) /\ Len(b) = 6
    BY <1>1, OctetSeqs
  <1>3. IsOctets(c) /\ Len(c) = 2
    BY <1>1, ShortsAreInt, UShortOctets
  <1>4. o = a \o b \o c
    BY <1>1 DEF set_ether
  <1>5. AreThree(a, b, c)
    BY <1>2, <1>3 DEF AreThree
  <1> HIDE DEF d, a, b, c, o
  <1>6. /\ IsOctets(o) /\ Len(o) = Len(a) + Len(b) + Len(c)
        /\ Lies(o, 0, a) /\ Lies(o, Len(a), b) /\ Lies(o, Len(a) + Len(b), c)
    BY ONLY <1>4, <1>5, ThreeParts
  <1>7. IsOctets(o) /\ Len(o) = 14 /\ Lies(o, 0, a) /\ Lies(o, 6, b) /\ Lies(o, 12, c)
    BY <1>2, <1>3, <1>6
  <1> QED
    BY <1>7, Zenon DEF d, a, b, c, o

\* The trailer of n octets.
Trailer(n) == [i \in 1..n |-> 0]

\* The trailer is octets.
LEMMA TrailerType ==
  ASSUME NEW n \in Int
  PROVE  /\ IsOctets(Trailer(n)) /\ Len(Trailer(n)) \in Nat
         /\ n >= 0 => Len(Trailer(n)) = n
         /\ n <= 0 => Len(Trailer(n)) = 0
  <1>1. 0 \in Octet
    BY DEF Octet
  <1>2. CASE n >= 0
    BY <1>1, <1>2 DEF Trailer, IsOctets
  <1>3. CASE n < 0
    <2>1. Trailer(n) = <<>>
      BY <1>3 DEF Trailer
    <2> QED
      BY <1>3, <2>1 DEF IsOctets
  <1> QED
    BY <1>2, <1>3

\* It fills a short frame up to 60 octets.
LEMMA TrailerLength ==
  ASSUME NEW m \in Nat, NEW s \in Nat, NEW t \in Nat, m = 14 + s, m <= 60 => t = 60 - m, m >= 60 => t = 0
  PROVE  m + t = 14 + s \/ (m + t = 60 /\ 14 + s < 60)
  <1>1. CASE m >= 60
    <2>1. t = 0
      BY <1>1
    <2>2. m + t = 14 + s
      BY <2>1
    <2> QED
      BY ONLY <2>2, Zenon
  <1>2. CASE m < 60
    <2>1. t = 60 - m
      BY <1>2
    <2>2. m + (60 - m) = 60 /\ 14 + s < 60
      BY <1>2
    <2> QED
      BY <2>1, <2>2
  <1> QED
    BY <1>1, <1>2

\* The octets of a frame o with the packet s behind a link header of n octets.
IsCarrying(o, n, s) ==
  /\ IsOctets(o) /\ Lies(o, n, s)
  /\ Len(o) = n + Len(s) \/ (Len(o) = 60 /\ n + Len(s) < 60)

\* A frame on Ethernet is its header, the packet and the trailer.
LEMMA SentByPcap ==
  ASSUME NEW p, IsEthernet(p.datalink), IsOctets(set_packet(p))
  PROVE  LET o == SendPacket(p)
             d == p.datalink
         IN /\ IsCarrying(o, 14, set_packet(p))
            /\ Lies(o, 0, d.dst_mac) /\ Lies(o, 6, d.src_mac) /\ Lies(o, 12, WordOctets(ToUShort(d.frametype)))
  <1> DEFINE d == p.datalink
             a == d.dst_mac
             b == d.src_mac
             c == WordOctets(ToUShort(d.frametype))
             e == set_ether(p)
             s == set_packet(p)
             m == e \o s
             t == Trailer(60 - Len(m))
             o == SendPacket(p)
  <1>1. IsOctets(e) /\ Len(e) = 14 /\ Lies(e, 0, a) /\ Lies(e, 6, b) /\ Lies(e, 12, c)
    BY EtherParts
  <1>2. o = m \o t
    BY DEF SendPacket, Trailer
  <1>3. IsOctets(s)
    OBVIOUS
  <1> HIDE DEF d, a, b, c, e, s, o
  <1>4. /\ IsOctets(m) /\ Len(m) = Len(e) + Len(s) /\ Lies(m, Len(e), s)
        /\ \A at, x : Lies(e, at, x) => Lies(m, at, x)
    BY <1>1, <1>3, Appended
  <1> HIDE DEF m
  <1>5. Len(m) \in Nat /\ Len(s) \in Nat
    BY <1>3, <1>4 DEF IsOctets
  <1>6. /\ IsOctets(t) /\ Len(t) \in Nat
        /\ Len(m) <= 60 => Len(t) = 60 - Len(m)
        /\ Len(m) >= 60 => Len(t) = 0
    <2>1. PICK n \in Int : n = 60 - Len(m)
      BY <1>5
    <2>2. /\ IsOctets(Trailer(n)) /\ Len(Trailer(n)) \in Nat
          /\ n >= 0 => Len(Trailer(n)) = n
          /\ n <= 0 => Len(Trailer(n)) = 0
      BY TrailerType
    <2> QED
      BY <1>5, <2>1, <2>2
  <1> HIDE DEF t
  <1>7. /\ IsOctets(o) /\ Len(o) = Len(m) + Len(t)
        /\ \A at, x : Lies(m, at, x) => Lies(o, at, x)
    BY <1>2, <1>4, <1>6, Appended
  <1>8. Lies(o, 14, s) /\ Lies(o, 0, a) /\ Lies(o, 6, b) /\ Lies(o, 12, c)
    BY <1>1, <1>4, <1>7
  <1>9. Len(o) = 14 + Len(s) \/ (Len(o) = 60 /\ 14 + Len(s) < 60)
    <2>1. Len(e) = 14
      BY <1>1
    <2>2. Len(m) = 14 + Len(s) /\ Len(o) = Len(m) + Len(t)
      BY <1>4, <1>7, <2>1
    <2>3. PICK k, l, n \in Nat : k = Len(m) /\ l = Len(s) /\ n = Len(t)
      BY <1>5, <1>6
    <2>4. k + n = 14 + l \/ (k + n = 60 /\ 14 + l < 60)
      BY <1>6, <2>2, <2>3, TrailerLength
    <2> QED
      BY <2>2, <2>3, <2>4
  <1>10. IsCarrying(o, 14, s)
    BY <1>7, <1>8, <1>9 DEF IsCarrying
  <1> QED
    BY <1>8, <1>10, Zenon DEF d, a, b, c, s, o

\* One on the raw link is the packet.
LEMMA SentRaw ==
  ASSUME NEW p, IsOctets(set_packet(p))
  PROVE  IsCarrying(SendPacketViaRawSocket(p), 0, set_packet(p))
  <1>1. Lies(set_packet(p), 0, set_packet(p))
    BY OctetsAreInts, LiesWhole
  <1>2. Len(set_packet(p)) \in Nat
    BY DEF IsOctets
  <1>3. Len(set_packet(p)) = 0 + Len(set_packet(p))
    BY <1>2
  <1>4. SendPacketViaRawSocket(p) = set_packet(p)
    BY DEF SendPacketViaRawSocket
  <1>5. IsCarrying(set_packet(p), 0, set_packet(p))
    BY <1>1, <1>3, Zenon DEF IsCarrying
  <1> QED
    BY <1>4, <1>5

\* What a frame is besides its octets.
LEMMA LinkFields ==
  ASSUME NEW link, NEW octets, NEW p, NEW f, f = OnLink(link, octets, p)
  PROVE  /\ f.link = link /\ f.octets = octets /\ f.caplen = Len(octets) /\ f.carries = p.class
         /\ f.extensions = <<>> /\ f.places = <<offset_data(link) + 40>> /\ f.headers /\ f.sent = p
         /\ f.payload = [at |-> offset_data(link) + HeaderOctets(p),
                         len |-> PacketOctets(p, Len(octets) - offset_data(link)) - HeaderOctets(p)]
  BY DEF OnLink

-----------------------------------------------------------------------------
(* Reading what lies in a frame *)

\* Octets lie at a natural number.
LEMMA LiesAt == ASSUME NEW o, NEW at, NEW s, Lies(o, at, s) PROVE at \in Nat
  BY DEF Lies

\* A word in a part of a frame is read there,
LEMMA WordIn ==
  ASSUME NEW f, NEW at, NEW o, NEW k, NEW n, IsWord(n),
         Lies(f.octets, at, o), Lies(o, k, WordOctets(n))
  PROVE  WordAt(f, at + k) = n
  <1>1. Lies(f.octets, at + k, WordOctets(n))
    BY LiesWithin
  <1>2. n \in Int
    BY WordIsInt
  <1> QED
    BY <1>1, <1>2, WordLies

\* and two octets.
LEMMA PairIn ==
  ASSUME NEW f, NEW at, NEW o, NEW k, NEW a, NEW b,
         Lies(f.octets, at, o), Lies(o, k, <<a, b>>)
  PROVE  OctetAt(f, at + k) = a /\ OctetAt(f, at + (k + 1)) = b
  <1>1. PICK s : s = <<a, b>> /\ s[1] = a /\ s[2] = b /\ Len(s) > 0 /\ Len(s) > 1
    OBVIOUS
  <1>2. Lies(f.octets, at + k, s)
    BY <1>1, LiesWithin
  <1>3. OctetAt(f, at + k) = a /\ OctetAt(f, (at + k) + 1) = b
    <2>1. s[1] = a /\ s[2] = b /\ Len(s) > 0 /\ Len(s) > 1
      BY <1>1
    <2> QED
      BY ONLY <1>2, <2>1, OctetAtFirst, OctetAtSecond
  <1>4. at \in Nat /\ k \in Nat
    BY LiesAt
  <1>5. (at + k) + 1 = at + (k + 1)
    BY <1>4
  <1> QED
    BY <1>3, <1>5

HasLen(s, n) == Len(s) = n

\* Any number of octets in a part of a frame is read there.
LEMMA OctetsIn ==
  ASSUME NEW f, NEW at, NEW o, NEW k, NEW s, NEW m, HasLen(s, m), Lies(f.octets, at, o), Lies(o, k, s)
  PROVE  OctetsAt(f, at + k, m) = s
  <1>1. Lies(f.octets, at + k, s)
    BY LiesWithin
  <1>2. OctetsAt(f, at + k, Len(s)) = s
    BY <1>1, OctetsLie
  <1>3. Len(s) = m
    BY DEF HasLen
  <1> QED
    BY <1>2, <1>3, Zenon

\* The packet at the start is an IPv4 packet of p.
IPv4At(f, at, p) == Lies(f.octets, at, IPv4Octets(p))

\* Where the header of an IPv4 packet lies in a frame,
LEMMA IPv4HeadAt ==
  ASSUME NEW f, NEW at, NEW p, InIPv4(p), IPv4At(f, at, p)
  PROVE  \E h : /\ h = IPv4Head(p, WordOctets(Len(IPv4Octets(p))), HostWordOctets(IPv4Sum(p)))
                /\ Lies(f.octets, at, h)
  <1> DEFINE h == IPv4Head(p, WordOctets(Len(IPv4Octets(p))), HostWordOctets(IPv4Sum(p)))
  <1>1. Lies(IPv4Octets(p), 0, h)
    BY IPv4Layers
  <1> HIDE DEF h
  <1>2. Lies(f.octets, at + 0, h)
    BY <1>1, LiesWithin DEF IPv4At
  <1>3. at + 0 = at
    BY LiesAt DEF IPv4At
  <1> QED
    BY <1>2, <1>3 DEF h

\* and what is read of its fields.
LEMMA IPv4Read ==
  ASSUME NEW f, NEW at, NEW p, InIPv4(p), IPv4At(f, at, p)
  PROVE  LET n == p.network
         IN /\ OctetAt(f, at + 0) = 69 /\ OctetAt(f, at + 1) = ip_tos_value(n)
            /\ WordAt(f, at + 2) = Len(IPv4Octets(p)) /\ WordAt(f, at + 4) = ToUShort(n.ident)
            /\ WordAt(f, at + 6) = ip_off_value(n)
            /\ OctetAt(f, at + 8) = n.hop_limit /\ OctetAt(f, at + 9) = ProtocolOf(p)
            /\ OctetsAt(f, at + 12, 4) = n.src_ip /\ OctetsAt(f, at + 16, 4) = n.dst_ip
  <1> DEFINE n == p.network
             l == WordOctets(Len(IPv4Octets(p)))
             s == HostWordOctets(IPv4Sum(p))
  <1>1. PICK h : h = IPv4Head(p, l, s) /\ Lies(f.octets, at, h)
    BY IPv4HeadAt
  <1>2. IsWord(Len(IPv4Octets(p))) /\ IsWord(IPv4Sum(p))
    BY IPv4Layers
  <1>3. IsOctets(l) /\ Len(l) = 2 /\ IsOctets(s) /\ Len(s) = 2
    BY <1>2, TwoOctets, TwoHostOctets
  <1>4. /\ Lies(h, 0, <<69, ip_tos_value(n)>>) /\ Lies(h, 2, l)
        /\ Lies(h, 4, WordOctets(ToUShort(n.ident))) /\ Lies(h, 6, WordOctets(ip_off_value(n)))
        /\ Lies(h, 8, <<n.hop_limit, ProtocolOf(p)>>)
        /\ Lies(h, 12, n.src_ip) /\ Lies(h, 16, n.dst_ip)
    BY <1>1, <1>3, IPv4HeadParts, Zenon
  <1>5. IsIPv4(n)
    BY InIPv4Facts
  <1>6. IsWord(ToUShort(n.ident)) /\ IsWord(ip_off_value(n))
    BY <1>5, IPv4Fields, ToUShortType, OffValue
  <1>7. Len(n.src_ip) = 4 /\ Len(n.dst_ip) = 4
    BY <1>5, IPv4Fields, OctetSeqs
  <1> HIDE DEF n
  <1>8. OctetAt(f, at + 0) = 69 /\ OctetAt(f, at + (0 + 1)) = ip_tos_value(n)
    BY <1>1, <1>4, PairIn
  <1>9. OctetAt(f, at + 8) = n.hop_limit /\ OctetAt(f, at + (8 + 1)) = ProtocolOf(p)
    BY <1>1, <1>4, PairIn
  <1>10. WordAt(f, at + 2) = Len(IPv4Octets(p))
    BY <1>1, <1>2, <1>4, WordIn
  <1>11. WordAt(f, at + 4) = ToUShort(n.ident) /\ WordAt(f, at + 6) = ip_off_value(n)
    BY <1>1, <1>4, <1>6, WordIn
  <1>12. OctetsAt(f, at + 12, 4) = n.src_ip /\ OctetsAt(f, at + 16, 4) = n.dst_ip
    <2>1. HasLen(n.src_ip, 4) /\ HasLen(n.dst_ip, 4)
      BY <1>7 DEF HasLen
    <2> QED
      BY <1>1, <1>4, <2>1, OctetsIn
  <1>13. 0 + 1 = 1 /\ 8 + 1 = 9
    OBVIOUS
  <1> QED
    BY <1>8, <1>9, <1>10, <1>11, <1>12, <1>13 DEF n

\* A field at the start.
LEMMA AtStart == ASSUME NEW o, NEW at, NEW s, Lies(o, at, s) PROVE at + 0 = at
  BY LiesAt

\* Four octets in a part of a frame are read there.
LEMMA FourIn ==
  ASSUME NEW f, NEW at, NEW o, NEW k, NEW a, NEW b, NEW c, NEW d,
         Lies(f.octets, at, o), Lies(o, k, <<a, b, c, d>>)
  PROVE  /\ OctetAt(f, at + k) = a /\ OctetAt(f, at + (k + 1)) = b
         /\ OctetAt(f, at + (k + 2)) = c /\ OctetAt(f, at + (k + 3)) = d
  <1>1. PICK s : s = <<a, b, c, d>> /\ s[1] = a /\ s[2] = b /\ s[3] = c /\ s[4] = d /\ Len(s) = 4
    OBVIOUS
  <1>2. Lies(f.octets, at + k, s)
    BY <1>1, LiesWithin
  <1>3. \A i \in 1..Len(s) : OctetAt(f, (at + k) + i - 1) = s[i]
    BY <1>2, OctetLies
  <1>4. at \in Nat /\ k \in Nat
    BY LiesAt
  <1>5. /\ (at + k) + 1 - 1 = at + k /\ (at + k) + 2 - 1 = at + (k + 1)
        /\ (at + k) + 3 - 1 = at + (k + 2) /\ (at + k) + 4 - 1 = at + (k + 3)
    BY <1>4
  <1>6. Len(s) = 4 /\ s[1] = a /\ s[2] = b /\ s[3] = c /\ s[4] = d
    BY <1>1
  <1>7. 1 \in 1..4 /\ 2 \in 1..4 /\ 3 \in 1..4 /\ 4 \in 1..4
    OBVIOUS
  <1>8. \A i \in 1..4 : OctetAt(f, (at + k) + i - 1) = s[i]
    BY <1>3, <1>6
  <1>9. /\ OctetAt(f, (at + k) + 1 - 1) = s[1] /\ OctetAt(f, (at + k) + 2 - 1) = s[2]
        /\ OctetAt(f, (at + k) + 3 - 1) = s[3] /\ OctetAt(f, (at + k) + 4 - 1) = s[4]
    BY <1>7, <1>8, Zenon
  <1> QED
    BY <1>5, <1>6, <1>9, Zenon

\* The packet at the start is an IPv6 packet of p.
IPv6At(f, at, p) == Lies(f.octets, at, IPv6Octets(p))

\* What is read of the header of an IPv6 packet in a frame.
LEMMA IPv6Read ==
  ASSUME NEW f, NEW at, NEW p, InIPv6(p), IPv6At(f, at, p)
  PROVE  LET n == p.network
         IN /\ OctetAt(f, at + 0) = 96 + ((n.priority \div 16) % 16)
            /\ OctetAt(f, at + 1) = ((n.priority % 16) * 16) + (n.flow_label[2] % 16)
            /\ OctetAt(f, at + 2) = n.flow_label[3] /\ OctetAt(f, at + 3) = n.flow_label[4]
            /\ WordAt(f, at + 4) = NetShort(Len(IPv6Octets(p)))
            /\ OctetAt(f, at + 6) = ProtocolOf(p) /\ OctetAt(f, at + 7) = n.hop_limit
            /\ OctetsAt(f, at + 8, 16) = n.src_ip /\ OctetsAt(f, at + 24, 16) = n.dst_ip
  <1> DEFINE n == p.network
             o == IPv6Octets(p)
             h == IPv6Head(p, Len(o))
             first == 96 + ((n.priority \div 16) % 16)
             second == ((n.priority % 16) * 16) + (n.flow_label[2] % 16)
  <1>1. Lies(o, 0, h) /\ IsWord(Len(o))
    BY IPv6Layers
  <1>2. /\ Lies(h, 0, FirstLong(n)) /\ Lies(h, 4, WordOctets(NetShort(Len(o))))
        /\ Lies(h, 6, <<ProtocolOf(p), n.hop_limit>>)
        /\ Lies(h, 8, n.src_ip) /\ Lies(h, 24, n.dst_ip)
    BY <1>1, IPv6HeadParts
  <1>3. Lies(f.octets, at, o)
    BY DEF IPv6At
  <1>4. FirstLong(n) = <<first, second, n.flow_label[3], n.flow_label[4]>>
    BY DEF FirstLong
  <1>5. IsIPv6(n)
    BY InIPv6Facts
  <1>6. Len(n.src_ip) = 16 /\ Len(n.dst_ip) = 16
    BY <1>5, IPv6Fields, OctetSeqs
  <1> HIDE DEF o, h, n, first, second
  <1>7. Lies(f.octets, at + 0, h) /\ at + 0 = at
    BY <1>1, <1>3, LiesWithin, LiesAt, AtStart
  <1>8. Lies(f.octets, at, h)
    BY <1>7
  <1>9. /\ OctetAt(f, at + 0) = first /\ OctetAt(f, at + (0 + 1)) = second
        /\ OctetAt(f, at + (0 + 2)) = n.flow_label[3] /\ OctetAt(f, at + (0 + 3)) = n.flow_label[4]
    <2>1. Lies(h, 0, <<first, second, n.flow_label[3], n.flow_label[4]>>)
      BY <1>2, <1>4
    <2> QED
      BY <1>8, <2>1, FourIn
  <1>10. OctetAt(f, at + 6) = ProtocolOf(p) /\ OctetAt(f, at + (6 + 1)) = n.hop_limit
    BY <1>2, <1>8, PairIn
  <1>11. WordAt(f, at + 4) = NetShort(Len(o))
    BY <1>1, <1>2, <1>8, NetShortType, WordIn
  <1>12. OctetsAt(f, at + 8, 16) = n.src_ip /\ OctetsAt(f, at + 24, 16) = n.dst_ip
    <2>1. HasLen(n.src_ip, 16) /\ HasLen(n.dst_ip, 16)
      BY <1>6 DEF HasLen
    <2> QED
      BY <1>2, <1>8, <2>1, OctetsIn
  <1>13. 0 + 1 = 1 /\ 0 + 2 = 2 /\ 0 + 3 = 3 /\ 6 + 1 = 7
    OBVIOUS
  <1> QED
    BY <1>9, <1>10, <1>11, <1>12, <1>13 DEF o, n, first, second

\* What an ARP packet of p has.
LEMMA ARPRead ==
  ASSUME NEW f, NEW at, NEW n, IsARP(n), Lies(f.octets, at, set_arp(n))
  PROVE  /\ WordAt(f, at + 0) = ToUShort(n.hardtype) /\ WordAt(f, at + 2) = ToUShort(n.prototype)
         /\ OctetAt(f, at + 4) = 6 /\ OctetAt(f, at + 5) = 4
         /\ WordAt(f, at + 6) = ToUShort(n.operation)
         /\ OctetsAt(f, at + 8, 6) = n.sender_hardaddr /\ OctetsAt(f, at + 14, 4) = n.sender_protoaddr
         /\ OctetsAt(f, at + 18, 6) = n.target_hardaddr /\ OctetsAt(f, at + 24, 4) = n.target_protoaddr
  <1> DEFINE o == set_arp(n)
  <1>1. /\ Lies(o, 0, WordOctets(ToUShort(n.hardtype))) /\ Lies(o, 2, WordOctets(ToUShort(n.prototype)))
        /\ Lies(o, 4, <<6, 4>>) /\ Lies(o, 6, WordOctets(ToUShort(n.operation)))
        /\ Lies(o, 8, n.sender_hardaddr) /\ Lies(o, 14, n.sender_protoaddr)
        /\ Lies(o, 18, n.target_hardaddr) /\ Lies(o, 24, n.target_protoaddr)
    BY ARPHeader
  <1>2. IsWord(ToUShort(n.hardtype)) /\ IsWord(ToUShort(n.prototype)) /\ IsWord(ToUShort(n.operation))
    BY ShortsAreInt, ToUShortType DEF IsARP
  <1>3. /\ HasLen(n.sender_hardaddr, 6) /\ HasLen(n.target_hardaddr, 6)
        /\ HasLen(n.sender_protoaddr, 4) /\ HasLen(n.target_protoaddr, 4)
    BY OctetSeqs DEF HasLen, IsARP
  <1> HIDE DEF o
  <1>4. Lies(f.octets, at, o)
    BY DEF o
  <1>5. /\ WordAt(f, at + 0) = ToUShort(n.hardtype) /\ WordAt(f, at + 2) = ToUShort(n.prototype)
        /\ WordAt(f, at + 6) = ToUShort(n.operation)
    BY <1>1, <1>2, <1>4, WordIn
  <1>6. OctetAt(f, at + 4) = 6 /\ OctetAt(f, at + (4 + 1)) = 4
    BY <1>1, <1>4, PairIn
  <1>7. /\ OctetsAt(f, at + 8, 6) = n.sender_hardaddr /\ OctetsAt(f, at + 14, 4) = n.sender_protoaddr
        /\ OctetsAt(f, at + 18, 6) = n.target_hardaddr /\ OctetsAt(f, at + 24, 4) = n.target_protoaddr
    BY <1>1, <1>3, <1>4, OctetsIn
  <1>8. 4 + 1 = 5
    OBVIOUS
  <1> QED
    BY <1>5, <1>6, <1>7, <1>8

\* What is read of the segment of a TCP packet,
LEMMA TCPRead ==
  ASSUME NEW f, NEW at, NEW t, IsTCP(t), NEW payload, IsOctets(payload), NEW sum, IsWord(sum),
         Lies(f.octets, at, TCPSegment(t, payload, sum))
  PROVE  /\ WordAt(f, at + 0) = t.src_port /\ WordAt(f, at + 2) = t.dst_port
         /\ OctetsAt(f, at + 4, 4) = t.sequence /\ OctetsAt(f, at + 8, 4) = t.ack_num
         /\ OctetAt(f, at + 12) = OffOctet /\ OctetAt(f, at + 13) = tcp_flags(t)
         /\ WordAt(f, at + 14) = t.window /\ WordAt(f, at + 18) = ToUShort(t.urgent_pointer)
  <1> DEFINE o == TCPSegment(t, payload, sum)
  <1>1. /\ Lies(o, 0, WordOctets(t.src_port)) /\ Lies(o, 2, WordOctets(t.dst_port))
        /\ Lies(o, 4, t.sequence) /\ Lies(o, 8, t.ack_num)
        /\ Lies(o, 12, <<OffOctet, tcp_flags(t)>>) /\ Lies(o, 14, WordOctets(t.window))
        /\ Lies(o, 18, WordOctets(ToUShort(t.urgent_pointer)))
    BY TCPParts
  <1>2. /\ IsWord(t.src_port) /\ IsWord(t.dst_port) /\ IsWord(t.window)
        /\ IsWord(ToUShort(t.urgent_pointer))
    BY TCPPorts, TCPWindow, ShortsAreInt, ToUShortType
  <1>3. HasLen(t.sequence, 4) /\ HasLen(t.ack_num, 4)
    BY TCPNumbers, OctetSeqs DEF HasLen
  <1> HIDE DEF o
  <1>4. Lies(f.octets, at, o)
    BY DEF o
  <1>5. /\ WordAt(f, at + 0) = t.src_port /\ WordAt(f, at + 2) = t.dst_port
        /\ WordAt(f, at + 14) = t.window /\ WordAt(f, at + 18) = ToUShort(t.urgent_pointer)
    BY <1>1, <1>2, <1>4, WordIn
  <1>6. OctetAt(f, at + 12) = OffOctet /\ OctetAt(f, at + (12 + 1)) = tcp_flags(t)
    BY <1>1, <1>4, PairIn
  <1>7. OctetsAt(f, at + 4, 4) = t.sequence /\ OctetsAt(f, at + 8, 4) = t.ack_num
    BY <1>1, <1>3, <1>4, OctetsIn
  <1>8. 12 + 1 = 13
    OBVIOUS
  <1> QED
    BY <1>5, <1>6, <1>7, <1>8

\* of a UDP datagram
LEMMA UDPRead ==
  ASSUME NEW f, NEW at, NEW t, IsUDP(t), NEW payload, IsPayload(payload), NEW sum, IsWord(sum),
         Lies(f.octets, at, UDPDatagram(t, payload, sum))
  PROVE  /\ WordAt(f, at + 0) = t.src_port /\ WordAt(f, at + 2) = t.dst_port
         /\ WordAt(f, at + 4) = UDPHDRLEN + Len(payload)
  <1> DEFINE o == UDPDatagram(t, payload, sum)
             n == UDPHDRLEN + Len(payload)
  <1>1. IsOctets(payload) /\ IsWord(n)
    BY PayloadLength DEF UDPHDRLEN
  <1>2. /\ Lies(o, 0, WordOctets(t.src_port)) /\ Lies(o, 2, WordOctets(t.dst_port))
        /\ Lies(o, 4, WordOctets(n))
    BY <1>1, UDPParts
  <1>3. IsWord(t.src_port) /\ IsWord(t.dst_port)
    BY UShortIsWord DEF IsUDP
  <1> HIDE DEF o, n
  <1>4. Lies(f.octets, at, o)
    BY DEF o
  <1>5. WordAt(f, at + 0) = t.src_port /\ WordAt(f, at + 2) = t.dst_port /\ WordAt(f, at + 4) = n
    BY <1>1, <1>2, <1>3, <1>4, WordIn
  <1> QED
    BY <1>5 DEF n

\* and of an ICMP message.
LEMMA ICMPRead ==
  ASSUME NEW f, NEW at, NEW t, IsICMP(t), NEW payload, IsOctets(payload), NEW sum, IsWord(sum),
         Lies(f.octets, at, ICMPMessage(t, HostWordOctets(sum), ICMPRest(t, payload)))
  PROVE  OctetAt(f, at + 0) = t.type /\ OctetAt(f, at + 1) = t.code /\ ICMPOctets(f, at, t)
  <1> DEFINE rest == ICMPRest(t, payload)
             s == HostWordOctets(sum)
             o == ICMPMessage(t, s, rest)
  <1>1. IsOctets(rest) /\ IsOctets(s) /\ Len(s) = 2
    BY ICMPRestType, TwoHostOctets
  <1>2. Lies(o, 0, <<t.type, t.code>>) /\ Lies(o, 4, rest)
    BY <1>1, ICMPParts
  <1>3. /\ t.type \in Numbered => Lies(rest, 0, WordOctets(t.id)) /\ Lies(rest, 2, WordOctets(t.seq))
        /\ t.type = ICMP_REDIRECT => Lies(rest, 0, t.redir_ip)
        /\ t.type \in Timed =>
             /\ Lies(rest, 4, t.timestamps[1]) /\ Lies(rest, 8, t.timestamps[2])
             /\ Lies(rest, 12, t.timestamps[3])
        /\ t.type \in Masked => Lies(rest, 4, t.subnetmask)
    BY RestParts
  <1>4. /\ IsWord(t.id) /\ IsWord(t.seq) /\ HasLen(t.redir_ip, 4) /\ HasLen(t.subnetmask, 4)
        /\ \A i \in 1..3 : HasLen(t.timestamps[i], 4)
    BY ICMPWords, ICMPAddresses DEF HasLen
  <1> HIDE DEF rest, s, o
  <1>5. Lies(f.octets, at, o)
    BY DEF rest, s, o
  <1>6. OctetAt(f, at + 0) = t.type /\ OctetAt(f, at + (0 + 1)) = t.code
    BY <1>2, <1>5, PairIn
  <1>7. t.type \in Numbered => WordAt(f, at + 4) = t.id /\ WordAt(f, at + 6) = t.seq
    <2> SUFFICES ASSUME t.type \in Numbered PROVE WordAt(f, at + 4) = t.id /\ WordAt(f, at + 6) = t.seq
      OBVIOUS
    <2>1. Lies(o, 4 + 0, WordOctets(t.id)) /\ Lies(o, 4 + 2, WordOctets(t.seq))
      BY <1>2, <1>3, LiesWithin
    <2>2. Lies(o, 4, WordOctets(t.id)) /\ Lies(o, 6, WordOctets(t.seq))
      BY <2>1
    <2> QED
      BY <1>4, <1>5, <2>2, WordIn
  <1>8. ASSUME NEW k \in {0, 4, 8, 12}, NEW a, Lies(rest, k, a), HasLen(a, 4)
        PROVE  OctetsAt(f, at + (4 + k), 4) = a
    <2>1. Lies(o, 4 + k, a)
      BY <1>2, <1>8, LiesWithin
    <2> QED
      BY <1>5, <1>8, <2>1, OctetsIn
  <1>9. 0 + 1 = 1 /\ 4 + 0 = 4 /\ 4 + 4 = 8 /\ 4 + 8 = 12 /\ 4 + 12 = 16
    OBVIOUS
  <1>10. /\ t.type = ICMP_REDIRECT => LongAt(f, at + 4) = t.redir_ip
         /\ t.type \in Masked => LongAt(f, at + 8) = t.subnetmask
    BY <1>3, <1>4, <1>8, <1>9 DEF LongAt
  <1>11. t.type \in Timed =>
           /\ LongAt(f, at + 8) = t.timestamps[1] /\ LongAt(f, at + 12) = t.timestamps[2]
           /\ LongAt(f, at + 16) = t.timestamps[3]
    BY <1>3, <1>4, <1>8, <1>9 DEF LongAt
  <1> QED
    BY <1>6, <1>7, <1>9, <1>10, <1>11, Zenon DEF ICMPOctets

-----------------------------------------------------------------------------
(* What the analyze functions read of the headers that were sent *)

\* analyze_tcp reads the fields
LEMMA ReadTCP ==
  ASSUME NEW f, NEW at
  PROVE  LET r == analyze_tcp(f, at)
         IN /\ r.src_port = WordAt(f, at) /\ r.dst_port = WordAt(f, at + 2)
            /\ r.sequence = OctetsAt(f, at + 4, 4) /\ r.ack_num = OctetsAt(f, at + 8, 4)
            /\ r.window = WordAt(f, at + 14) /\ r.urgent_pointer = ToShort(WordAt(f, at + 18))
  BY Zenon DEF analyze_tcp, LongAt

\* and the flags.
LEMMA ReadTCPFlags ==
  ASSUME NEW f, NEW at
  PROVE  LET r == analyze_tcp(f, at)
             flags == OctetAt(f, at + 13)
         IN /\ r.rsv1 = Bit(flags, 7) /\ r.rsv2 = Bit(flags, 6) /\ r.urg = Bit(flags, 5)
            /\ r.ack = Bit(flags, 4) /\ r.psh = Bit(flags, 3) /\ r.rst = Bit(flags, 2)
            /\ r.syn = Bit(flags, 1) /\ r.fin = Bit(flags, 0)
  BY Zenon DEF analyze_tcp

\* analyze_udp reads the fields.
LEMMA ReadUDP ==
  ASSUME NEW f, NEW at
  PROVE  LET r == analyze_udp(f, at)
         IN r.src_port = WordAt(f, at) /\ r.dst_port = WordAt(f, at + 2) /\ r.length = WordAt(f, at + 4)
  BY Zenon DEF analyze_udp

\* A short comes back from what it is written as.
LEMMA ShortBack == ASSUME NEW n \in Short PROVE ToShort(ToUShort(n)) = n
  <1>1. n \in Int /\ -32768 <= n /\ n <= 32767
    BY ShortsAreInt, ShortBounds
  <1> QED
    BY ONLY <1>1 DEF ToShort, ToUShort

\* A number is the same jshort as it is when it was a u_short.
LEMMA ShortOf == ASSUME NEW n \in Int PROVE ToShort(ToUShort(n)) = ToShort(n)
  BY DEF ToShort, ToUShort

\* The fields of a TCP header that was sent are read,
LEMMA TCPFieldsRead ==
  ASSUME NEW f, NEW at, NEW t, IsTCP(t), NEW payload, IsOctets(payload), NEW sum, IsWord(sum),
         Lies(f.octets, at, TCPSegment(t, payload, sum))
  PROVE  /\ Same(analyze_tcp(f, at), t, PortFields \cup TCPFields)
         /\ th_off(f, at) = 5
  <1>1. at + 0 = at
    BY AtStart
  <1>2. /\ WordAt(f, at) = t.src_port /\ WordAt(f, at + 2) = t.dst_port
        /\ OctetsAt(f, at + 4, 4) = t.sequence /\ OctetsAt(f, at + 8, 4) = t.ack_num
        /\ OctetAt(f, at + 12) = OffOctet /\ OctetAt(f, at + 13) = tcp_flags(t)
        /\ WordAt(f, at + 14) = t.window /\ WordAt(f, at + 18) = ToUShort(t.urgent_pointer)
    BY <1>1, TCPRead
  <1>3. th_off(f, at) = 5
    BY <1>2, OffOctetValue DEF th_off
  <1>4. LET flags == tcp_flags(t)
        IN /\ Bit(flags, 7) = t.rsv1 /\ Bit(flags, 6) = t.rsv2 /\ Bit(flags, 5) = t.urg
           /\ Bit(flags, 4) = t.ack /\ Bit(flags, 3) = t.psh /\ Bit(flags, 2) = t.rst
           /\ Bit(flags, 1) = t.syn /\ Bit(flags, 0) = t.fin
    BY FlagsValue, Zenon
  <1>5. ToShort(ToUShort(t.urgent_pointer)) = t.urgent_pointer
    BY TCPWindow, ShortBack
  <1> DEFINE r == analyze_tcp(f, at)
  <1>6. /\ r.src_port = t.src_port /\ r.dst_port = t.dst_port
        /\ r.sequence = t.sequence /\ r.ack_num = t.ack_num
        /\ r.rsv1 = t.rsv1 /\ r.rsv2 = t.rsv2 /\ r.urg = t.urg /\ r.ack = t.ack
        /\ r.psh = t.psh /\ r.rst = t.rst /\ r.syn = t.syn /\ r.fin = t.fin
        /\ r.window = t.window /\ r.urgent_pointer = t.urgent_pointer
    <2>1. LET flags == OctetAt(f, at + 13)
          IN /\ r.rsv1 = Bit(flags, 7) /\ r.rsv2 = Bit(flags, 6) /\ r.urg = Bit(flags, 5)
             /\ r.ack = Bit(flags, 4) /\ r.psh = Bit(flags, 3) /\ r.rst = Bit(flags, 2)
             /\ r.syn = Bit(flags, 1) /\ r.fin = Bit(flags, 0)
      BY ReadTCPFlags, Zenon
    <2>2. /\ r.src_port = WordAt(f, at) /\ r.dst_port = WordAt(f, at + 2)
          /\ r.sequence = OctetsAt(f, at + 4, 4) /\ r.ack_num = OctetsAt(f, at + 8, 4)
          /\ r.window = WordAt(f, at + 14) /\ r.urgent_pointer = ToShort(WordAt(f, at + 18))
      BY ReadTCP, Zenon
    <2> HIDE DEF r
    <2>3. /\ r.rsv1 = t.rsv1 /\ r.rsv2 = t.rsv2 /\ r.urg = t.urg /\ r.ack = t.ack
          /\ r.psh = t.psh /\ r.rst = t.rst /\ r.syn = t.syn /\ r.fin = t.fin
      BY <1>2, <1>4, <2>1, Zenon
    <2>4. /\ r.src_port = t.src_port /\ r.dst_port = t.dst_port
          /\ r.sequence = t.sequence /\ r.ack_num = t.ack_num
          /\ r.window = t.window /\ r.urgent_pointer = t.urgent_pointer
      BY <1>2, <1>5, <2>2, Zenon
    <2> QED
      BY <2>3, <2>4, Zenon
  <1> HIDE DEF r
  <1>7. Same(r, t, PortFields \cup TCPFields)
    BY <1>6, Zenon DEF Same, PortFields, TCPFields
  <1> QED
    BY <1>3, <1>7 DEF r

\* those of a UDP header
LEMMA UDPFieldsRead ==
  ASSUME NEW f, NEW at, NEW t, IsUDP(t), NEW payload, IsPayload(payload), NEW sum, IsWord(sum),
         Lies(f.octets, at, UDPDatagram(t, payload, sum))
  PROVE  /\ Same(analyze_udp(f, at), t, PortFields)
         /\ analyze_udp(f, at).length = UDPHDRLEN + Len(payload)
  <1>1. at + 0 = at
    BY AtStart
  <1>2. /\ WordAt(f, at) = t.src_port /\ WordAt(f, at + 2) = t.dst_port
        /\ WordAt(f, at + 4) = UDPHDRLEN + Len(payload)
    BY <1>1, UDPRead
  <1> DEFINE r == analyze_udp(f, at)
  <1>3. r.src_port = t.src_port /\ r.dst_port = t.dst_port /\ r.length = UDPHDRLEN + Len(payload)
    BY <1>2, ReadUDP, Zenon
  <1> HIDE DEF r
  <1>4. Same(r, t, PortFields)
    BY <1>3, Zenon DEF Same, PortFields
  <1> QED
    BY <1>3, <1>4 DEF r

\* and those of an ICMP header.
LEMMA ICMPFieldsRead ==
  ASSUME NEW f, NEW at, NEW t, IsICMP(t), NEW payload, IsOctets(payload), NEW sum, IsWord(sum),
         Lies(f.octets, at, ICMPMessage(t, HostWordOctets(sum), ICMPRest(t, payload)))
  PROVE  /\ OctetAt(f, at) = t.type /\ ToByte(OctetAt(f, at)) = t.type
         /\ ToByte(OctetAt(f, at + 1)) = t.code /\ ICMPOctets(f, at, t)
  <1>1. at + 0 = at
    BY AtStart
  <1>2. OctetAt(f, at) = t.type /\ OctetAt(f, at + 1) = t.code /\ ICMPOctets(f, at, t)
    BY <1>1, ICMPRead
  <1>3. t.type \in 0..127 /\ t.code \in 0..127
    BY ICMPKind, TypesApart
  <1>4. ToByte(t.type) = t.type /\ ToByte(t.code) = t.code
    BY <1>3, TypeOctet
  <1> QED
    BY <1>2, <1>4

\* What the object has in front of its data, at the start of what carries it.
CarriedAt(f, at, p) == \E ip : IsOctets(ip) /\ Lies(f.octets, at, Carried(p, Buffer(ip)))

TransportSeen(f, at, p) ==
  /\ p.class = "TCPPacket" =>
       Same(analyze_tcp(f, at), p.transport, PortFields \cup TCPFields) /\ th_off(f, at) = 5
  /\ p.class = "UDPPacket" =>
       /\ Same(analyze_udp(f, at), p.transport, PortFields)
       /\ analyze_udp(f, at).length = UDPHDRLEN + Len(p.data)
  /\ p.class = "ICMPPacket" =>
       /\ OctetAt(f, at) = p.transport.type /\ ToByte(OctetAt(f, at)) = p.transport.type
       /\ ToByte(OctetAt(f, at + 1)) = p.transport.code /\ ICMPOctets(f, at, p.transport)

\* So it is in an IP packet, for each class.
LEMMA TransportIsSeen ==
  ASSUME NEW f, NEW at, NEW p, IsIP(p), IsTransport(p), IsPayload(p.data), CarriedAt(f, at, p)
  PROVE  TransportSeen(f, at, p)
  <1>1. PICK ip : IsOctets(ip) /\ Lies(f.octets, at, Carried(p, Buffer(ip)))
    BY DEF CarriedAt
  <1> DEFINE d == p.data
             t == p.transport
  <1>2. IsOctets(d) /\ IsPayload(d)
    BY DEF IsPayload
  <1>3. p.class = "TCPPacket" => Same(analyze_tcp(f, at), t, PortFields \cup TCPFields) /\ th_off(f, at) = 5
    <2>1. SUFFICES ASSUME p.class = "TCPPacket"
                   PROVE  Same(analyze_tcp(f, at), t, PortFields \cup TCPFields) /\ th_off(f, at) = 5
      OBVIOUS
    <2>2. IsTCP(t) /\ Carried(p, Buffer(ip)) = set_tcp(t, d, Buffer(ip))
      BY <2>1, SentTransport, CarriedOfClass
    <2> HIDE DEF d, t
    <2>3. PICK sum : IsWord(sum) /\ set_tcp(t, d, Buffer(ip)) = TCPSegment(t, d, sum)
      BY <1>1, <1>2, <2>2, TCPCarried
    <2>4. Lies(f.octets, at, TCPSegment(t, d, sum)) /\ IsWord(sum)
      BY <1>1, <2>2, <2>3
    <2> QED
      BY <1>2, <2>2, <2>4, TCPFieldsRead
  <1>4. p.class = "UDPPacket" =>
          /\ Same(analyze_udp(f, at), t, PortFields)
          /\ analyze_udp(f, at).length = UDPHDRLEN + Len(d)
    <2>1. SUFFICES ASSUME p.class = "UDPPacket"
                   PROVE  /\ Same(analyze_udp(f, at), t, PortFields)
                          /\ analyze_udp(f, at).length = UDPHDRLEN + Len(d)
      OBVIOUS
    <2>2. IsUDP(t) /\ Carried(p, Buffer(ip)) = set_udp(t, d, Buffer(ip))
      BY <2>1, SentTransport, CarriedOfClass
    <2> HIDE DEF d, t
    <2>3. PICK sum : IsWord(sum) /\ set_udp(t, d, Buffer(ip)) = UDPDatagram(t, d, sum)
      BY <1>1, <1>2, <2>2, UDPCarried
    <2>4. Lies(f.octets, at, UDPDatagram(t, d, sum)) /\ IsWord(sum)
      BY <1>1, <2>2, <2>3
    <2> QED
      BY <1>2, <2>2, <2>4, UDPFieldsRead
  <1>5. p.class = "ICMPPacket" =>
          /\ OctetAt(f, at) = t.type /\ ToByte(OctetAt(f, at)) = t.type
          /\ ToByte(OctetAt(f, at + 1)) = t.code /\ ICMPOctets(f, at, t)
    <2>1. SUFFICES ASSUME p.class = "ICMPPacket"
                   PROVE  /\ OctetAt(f, at) = t.type /\ ToByte(OctetAt(f, at)) = t.type
                          /\ ToByte(OctetAt(f, at + 1)) = t.code /\ ICMPOctets(f, at, t)
      OBVIOUS
    <2>2. IsICMP(t) /\ Carried(p, Buffer(ip)) = set_icmp(t, d)
      BY <2>1, SentTransport, CarriedOfClass
    <2> HIDE DEF d, t
    <2>3. PICK sum : IsWord(sum) /\ set_icmp(t, d) = ICMPMessage(t, HostWordOctets(sum), ICMPRest(t, d))
      BY <1>1, <1>2, <2>2, ICMPCarried
    <2>4. Lies(f.octets, at, ICMPMessage(t, HostWordOctets(sum), ICMPRest(t, d))) /\ IsWord(sum)
      BY <1>1, <2>2, <2>3
    <2> QED
      BY <1>2, <2>2, <2>4, ICMPFieldsRead
  <1> QED
    BY <1>3, <1>4, <1>5, Zenon DEF TransportSeen, d, t

-----------------------------------------------------------------------------
\* The fields of the network headers.
LEMMA ReadService ==
  ASSUME NEW f, NEW at
  PROVE  LET r == analyze_ip(f, at)
             tos == OctetAt(f, at + 1)
         IN /\ r.version = 4 /\ r.priority = tos \div 32 /\ r.rsv_tos = tos % 4
            /\ r.d_flag = Bit(tos, 4) /\ r.t_flag = Bit(tos, 3) /\ r.r_flag = Bit(tos, 2)
  <1> DEFINE r == analyze_ip(f, at)
             tos == OctetAt(f, at + 1)
  <1>1. r.version = 4 /\ r.priority = tos \div 32 /\ r.rsv_tos = tos % 4
    BY ZenonT(40) DEF analyze_ip
  <1>2. r.d_flag = Bit(tos, 4) /\ r.t_flag = Bit(tos, 3) /\ r.r_flag = Bit(tos, 2)
    BY Zenon DEF analyze_ip
  <1> QED
    BY <1>1, <1>2, ZenonT(40)

\* analyze_ip reads the fields.
LEMMA ReadIP ==
  ASSUME NEW f, NEW at
  PROVE  LET r == analyze_ip(f, at)
         IN /\ r.ident = ToShort(WordAt(f, at + 4)) /\ r.length = ToShort(WordAt(f, at + 2))
            /\ r.hop_limit = OctetAt(f, at + 8) /\ r.protocol = OctetAt(f, at + 9)
            /\ r.src_ip = OctetsAt(f, at + 12, 4) /\ r.dst_ip = OctetsAt(f, at + 16, 4)
  <1> DEFINE r == analyze_ip(f, at)
  <1>1. r.ident = ToShort(WordAt(f, at + 4)) /\ r.length = ToShort(WordAt(f, at + 2))
    BY ZenonT(40) DEF analyze_ip
  <1>2. r.hop_limit = OctetAt(f, at + 8) /\ r.protocol = OctetAt(f, at + 9)
    BY ZenonT(40) DEF analyze_ip, ip_p
  <1>3. r.src_ip = OctetsAt(f, at + 12, 4) /\ r.dst_ip = OctetsAt(f, at + 16, 4)
    BY Zenon DEF analyze_ip
  <1> QED
    BY <1>1, <1>2, <1>3, ZenonT(40)

\* analyze_ipv6 reads the fields.
LEMMA ReadIPv6 ==
  ASSUME NEW f, NEW at
  PROVE  LET r == Ip6Fields(f, at)
         IN /\ r.version = 6 /\ r.protocol = ToByte(OctetAt(f, at + 6))
            /\ r.hop_limit = OctetAt(f, at + 7)
            /\ r.src_ip = OctetsAt(f, at + 8, 16) /\ r.dst_ip = OctetsAt(f, at + 24, 16)
  BY Zenon DEF Ip6Fields, ip6_nxt

\* analyze_arp reads the fields.
LEMMA ReadARP ==
  ASSUME NEW f, NEW at \in Nat, OctetAt(f, at + 4) = 6, OctetAt(f, at + 5) = 4
  PROVE  LET r == analyze_arp(f, at)
         IN /\ r.hardtype = ToShort(WordAt(f, at)) /\ r.prototype = ToShort(WordAt(f, at + 2))
            /\ r.hlen = 6 /\ r.plen = 4 /\ r.operation = ToShort(WordAt(f, at + 6))
            /\ r.sender_hardaddr = OctetsAt(f, at + 8, 6) /\ r.sender_protoaddr = OctetsAt(f, at + 14, 4)
            /\ r.target_hardaddr = OctetsAt(f, at + 18, 6) /\ r.target_protoaddr = OctetsAt(f, at + 24, 4)
  <1>1. arp_hln(f, at) = 6 /\ arp_pln(f, at) = 4
    BY DEF arp_hln, arp_pln
  <1>2. /\ at + sizeof_arphdr = at + 8 /\ at + sizeof_arphdr + 6 = at + 14
        /\ at + sizeof_arphdr + 6 + 4 = at + 18 /\ at + sizeof_arphdr + 2 * 6 + 4 = at + 24
    BY DEF sizeof_arphdr
  <1> DEFINE r == analyze_arp(f, at)
  <1>3. /\ r.hardtype = ToShort(WordAt(f, at)) /\ r.prototype = ToShort(WordAt(f, at + 2))
        /\ r.hlen = arp_hln(f, at) /\ r.plen = arp_pln(f, at) /\ r.operation = ToShort(WordAt(f, at + 6))
        /\ r.sender_hardaddr = OctetsAt(f, at + sizeof_arphdr, arp_hln(f, at))
        /\ r.sender_protoaddr = OctetsAt(f, at + sizeof_arphdr + arp_hln(f, at), arp_pln(f, at))
        /\ r.target_hardaddr = OctetsAt(f, at + sizeof_arphdr + arp_hln(f, at) + arp_pln(f, at), arp_hln(f, at))
        /\ r.target_protoaddr = OctetsAt(f, at + sizeof_arphdr + 2 * arp_hln(f, at) + arp_pln(f, at), arp_pln(f, at))
    BY Zenon DEF analyze_arp
  <1> HIDE DEF r
  <1>4. /\ r.hlen = 6 /\ r.plen = 4
        /\ r.sender_hardaddr = OctetsAt(f, at + 8, 6) /\ r.sender_protoaddr = OctetsAt(f, at + 14, 4)
        /\ r.target_hardaddr = OctetsAt(f, at + 18, 6) /\ r.target_protoaddr = OctetsAt(f, at + 24, 4)
    BY <1>1, <1>2, <1>3, Zenon
  <1>5. /\ r.hardtype = ToShort(WordAt(f, at)) /\ r.prototype = ToShort(WordAt(f, at + 2))
        /\ r.operation = ToShort(WordAt(f, at + 6))
    BY <1>3
  <1> QED
    BY <1>4, <1>5, Zenon DEF r

\* The fields of an ARP header that was sent are read.
LEMMA ARPFieldsRead ==
  ASSUME NEW f, NEW at, NEW n, IsARP(n), Lies(f.octets, at, set_arp(n))
  PROVE  Same(analyze_arp(f, at), n, ARPFields) /\ ArpLength(f, at) = 28
  <1>1. at + 0 = at /\ at \in Nat
    BY AtStart, LiesAt
  <1>2. /\ WordAt(f, at) = ToUShort(n.hardtype) /\ WordAt(f, at + 2) = ToUShort(n.prototype)
        /\ OctetAt(f, at + 4) = 6 /\ OctetAt(f, at + 5) = 4
        /\ WordAt(f, at + 6) = ToUShort(n.operation)
        /\ OctetsAt(f, at + 8, 6) = n.sender_hardaddr /\ OctetsAt(f, at + 14, 4) = n.sender_protoaddr
        /\ OctetsAt(f, at + 18, 6) = n.target_hardaddr /\ OctetsAt(f, at + 24, 4) = n.target_protoaddr
    BY <1>1, ARPRead
  <1>3. n.hlen = 6 /\ n.plen = 4
    BY DEF IsARP
  <1>4. /\ ToShort(ToUShort(n.hardtype)) = n.hardtype /\ ToShort(ToUShort(n.prototype)) = n.prototype
        /\ ToShort(ToUShort(n.operation)) = n.operation
    BY ShortBack DEF IsARP
  <1> DEFINE r == analyze_arp(f, at)
  <1>5. /\ r.hardtype = n.hardtype /\ r.prototype = n.prototype /\ r.hlen = n.hlen /\ r.plen = n.plen
        /\ r.operation = n.operation
        /\ r.sender_hardaddr = n.sender_hardaddr /\ r.sender_protoaddr = n.sender_protoaddr
        /\ r.target_hardaddr = n.target_hardaddr /\ r.target_protoaddr = n.target_protoaddr
    <2>1. /\ r.hardtype = ToShort(WordAt(f, at)) /\ r.prototype = ToShort(WordAt(f, at + 2))
          /\ r.hlen = 6 /\ r.plen = 4 /\ r.operation = ToShort(WordAt(f, at + 6))
          /\ r.sender_hardaddr = OctetsAt(f, at + 8, 6) /\ r.sender_protoaddr = OctetsAt(f, at + 14, 4)
          /\ r.target_hardaddr = OctetsAt(f, at + 18, 6) /\ r.target_protoaddr = OctetsAt(f, at + 24, 4)
      BY <1>1, <1>2, ReadARP, Zenon
    <2> HIDE DEF r
    <2>2. /\ r.hardtype = n.hardtype /\ r.prototype = n.prototype /\ r.operation = n.operation
          /\ r.hlen = n.hlen /\ r.plen = n.plen
      BY <1>2, <1>3, <1>4, <2>1, Zenon
    <2>3. /\ r.sender_hardaddr = n.sender_hardaddr /\ r.sender_protoaddr = n.sender_protoaddr
          /\ r.target_hardaddr = n.target_hardaddr /\ r.target_protoaddr = n.target_protoaddr
      BY <1>2, <2>1, Zenon
    <2> QED
      BY <2>2, <2>3, Zenon
  <1> HIDE DEF r
  <1>6. Same(r, n, ARPFields)
    BY <1>5, Zenon DEF Same, ARPFields
  <1>7. ArpLength(f, at) = 28
    BY <1>2 DEF ArpLength, arp_hln, arp_pln, sizeof_arphdr
  <1> QED
    BY <1>6, <1>7 DEF r

\* analyze_datalink reads the fields.
LEMMA ReadEthernet ==
  ASSUME NEW f
  PROVE  LET r == analyze_datalink(f, DLT_EN10MB)
         IN /\ r.dst_mac = OctetsAt(f, 0, 6) /\ r.src_mac = OctetsAt(f, 6, 6)
            /\ r.frametype = ToShort(WordAt(f, 12))
  BY Zenon DEF analyze_datalink, Ethernet

\* The fields of an Ethernet header that was sent are read.
LEMMA EthernetFieldsRead ==
  ASSUME NEW f, NEW p, IsEthernet(p.datalink),
         LET d == p.datalink
         IN /\ Lies(f.octets, 0, d.dst_mac) /\ Lies(f.octets, 6, d.src_mac)
            /\ Lies(f.octets, 12, WordOctets(ToUShort(d.frametype)))
  PROVE  /\ Same(analyze_datalink(f, DLT_EN10MB), p.datalink, DatalinkFields)
         /\ WordAt(f, 12) = ToUShort(p.datalink.frametype)
  <1> DEFINE d == p.datalink
             r == analyze_datalink(f, DLT_EN10MB)
  <1>1. d.dst_mac \in OctetSeq(6) /\ d.src_mac \in OctetSeq(6) /\ d.frametype \in Short
    BY DEF IsEthernet
  <1>2. Len(d.dst_mac) = 6 /\ Len(d.src_mac) = 6
    BY <1>1, OctetSeqs
  <1>3. ToUShort(d.frametype) \in Int
    BY <1>1, ShortsAreInt, ToUShortType, WordIsInt
  <1>4. ToShort(ToUShort(d.frametype)) = d.frametype
    BY <1>1, ShortBack
  <1>5. OctetsAt(f, 0, Len(d.dst_mac)) = d.dst_mac /\ OctetsAt(f, 6, Len(d.src_mac)) = d.src_mac
    BY OctetsLie
  <1>6. WordAt(f, 12) = ToUShort(d.frametype)
    BY <1>3, WordLies
  <1>7. r.dst_mac = d.dst_mac /\ r.src_mac = d.src_mac /\ r.frametype = d.frametype
    <2>1. OctetsAt(f, 0, 6) = d.dst_mac /\ OctetsAt(f, 6, 6) = d.src_mac
      BY <1>2, <1>5, Zenon
    <2> QED
      BY <1>4, <1>6, <2>1, ReadEthernet, Zenon
  <1> HIDE DEF r, d
  <1>8. Same(r, d, DatalinkFields)
    BY <1>7, Zenon DEF Same, DatalinkFields
  <1> QED
    BY <1>6, <1>8 DEF r, d

-----------------------------------------------------------------------------
(* Frames of packet objects *)

\* The frame f is made of the object p.
Made(f, p) ==
  /\ Sendable(p) /\ IsCarrying(f.octets, Start(f), set_packet(p))
  /\ f.caplen = Len(f.octets) /\ f.caplen <= 1600 /\ f.carries = p.class
  /\ f.extensions = <<>> /\ f.places = <<Start(f) + 40>> /\ f.headers
  /\ f.payload = [at |-> Start(f) + HeaderOctets(p),
                  len |-> PacketOctets(p, f.caplen - Start(f)) - HeaderOctets(p)]

\* What a frame that was sent has, on each link.
LEMMA SentByLink ==
  ASSUME NEW f, AsSent(f)
  PROVE  LET p == f.sent
             d == p.datalink
         IN /\ Made(f, p)
            /\ \/ /\ f.link = DLT_EN10MB /\ IsEthernet(d) /\ TypeFits(p)
                  /\ Lies(f.octets, 0, d.dst_mac) /\ Lies(f.octets, 6, d.src_mac)
                  /\ Lies(f.octets, 12, WordOctets(ToUShort(d.frametype)))
               \/ f.link = DLT_RAW /\ IsIP(p) /\ p.network.version = 4
  <1> DEFINE p == f.sent
             d == p.datalink
             s == set_packet(p)
  <1>1. /\ Sendable(p) /\ f.caplen <= 1600
        /\ \/ f = OnEthernet(p) /\ IsEthernet(d) /\ TypeFits(p)
           \/ f = OnRawLink(p) /\ IsIP(p) /\ p.network.version = 4
    BY DEF AsSent, MAX_PACKET_SIZE
  <1>2. IsOctets(s)
    BY <1>1, PacketType
  <1>3. ASSUME f = OnEthernet(p), IsEthernet(d), TypeFits(p)
        PROVE  /\ Made(f, p) /\ f.link = DLT_EN10MB
               /\ Lies(f.octets, 0, d.dst_mac) /\ Lies(f.octets, 6, d.src_mac)
               /\ Lies(f.octets, 12, WordOctets(ToUShort(d.frametype)))
    <2> DEFINE o == SendPacket(p)
    <2>1. /\ IsCarrying(o, 14, s)
          /\ Lies(o, 0, d.dst_mac) /\ Lies(o, 6, d.src_mac) /\ Lies(o, 12, WordOctets(ToUShort(d.frametype)))
      BY <1>2, <1>3, SentByPcap
    <2> HIDE DEF o
    <2>2. f = OnLink(DLT_EN10MB, o, p)
      BY <1>3 DEF OnEthernet, o
    <2> HIDE DEF p
    <2>3. /\ f.link = DLT_EN10MB /\ f.octets = o /\ f.caplen = Len(o) /\ f.carries = p.class
          /\ f.extensions = <<>> /\ f.places = <<offset_data(DLT_EN10MB) + 40>> /\ f.headers
          /\ f.payload = [at |-> offset_data(DLT_EN10MB) + HeaderOctets(p),
                          len |-> PacketOctets(p, Len(o) - offset_data(DLT_EN10MB)) - HeaderOctets(p)]
      BY <2>2, LinkFields
    <2>4. Start(f) = offset_data(DLT_EN10MB) /\ Start(f) = 14
      BY <2>3, LinkStart DEF Start
    <2>5. Made(f, p)
      <3>1. IsCarrying(f.octets, Start(f), s)
        BY <2>1, <2>3, <2>4
      <3>2. /\ f.caplen = Len(f.octets) /\ f.places = <<Start(f) + 40>>
            /\ f.payload = [at |-> Start(f) + HeaderOctets(p),
                            len |-> PacketOctets(p, f.caplen - Start(f)) - HeaderOctets(p)]
        BY <2>3, <2>4, Zenon
      <3>3. Sendable(p) /\ f.caplen <= 1600
        BY <1>1
      <3>4. f.carries = p.class /\ f.extensions = <<>> /\ f.headers
        BY <2>3
      <3> QED
        BY ONLY <3>1, <3>2, <3>3, <3>4 DEF Made, s
    <2> QED
      BY <2>1, <2>3, <2>5
  <1>4. ASSUME f = OnRawLink(p) PROVE Made(f, p) /\ f.link = DLT_RAW
    <2> DEFINE o == SendPacketViaRawSocket(p)
    <2>1. IsCarrying(o, 0, s)
      BY <1>2, SentRaw
    <2> HIDE DEF o
    <2>2. f = OnLink(DLT_RAW, o, p)
      BY <1>4 DEF OnRawLink, o
    <2> HIDE DEF p
    <2>3. /\ f.link = DLT_RAW /\ f.octets = o /\ f.caplen = Len(o) /\ f.carries = p.class
          /\ f.extensions = <<>> /\ f.places = <<offset_data(DLT_RAW) + 40>> /\ f.headers
          /\ f.payload = [at |-> offset_data(DLT_RAW) + HeaderOctets(p),
                          len |-> PacketOctets(p, Len(o) - offset_data(DLT_RAW)) - HeaderOctets(p)]
      BY <2>2, LinkFields
    <2>4. Start(f) = offset_data(DLT_RAW) /\ Start(f) = 0
      BY <2>3, LinkStart DEF Start
    <2>5. Made(f, p)
      <3>1. IsCarrying(f.octets, Start(f), s)
        BY <2>1, <2>3, <2>4
      <3>2. /\ f.caplen = Len(f.octets) /\ f.places = <<Start(f) + 40>>
            /\ f.payload = [at |-> Start(f) + HeaderOctets(p),
                            len |-> PacketOctets(p, f.caplen - Start(f)) - HeaderOctets(p)]
        BY <2>3, <2>4, Zenon
      <3>3. Sendable(p) /\ f.caplen <= 1600
        BY <1>1
      <3>4. f.carries = p.class /\ f.extensions = <<>> /\ f.headers
        BY <2>3
      <3> QED
        BY ONLY <3>1, <3>2, <3>3, <3>4 DEF Made, s
    <2> QED
      BY <2>3, <2>5
  <1> HIDE DEF p, d, s
  <1>5. /\ Made(f, p)
        /\ \/ /\ f.link = DLT_EN10MB /\ IsEthernet(d) /\ TypeFits(p)
              /\ Lies(f.octets, 0, d.dst_mac) /\ Lies(f.octets, 6, d.src_mac)
              /\ Lies(f.octets, 12, WordOctets(ToUShort(d.frametype)))
           \/ f.link = DLT_RAW /\ IsIP(p) /\ p.network.version = 4
    BY <1>1, <1>3, <1>4
  <1> QED
    BY <1>5, Zenon DEF p, d

\* Its packet is at the start of the frame or behind the Ethernet header.
LEMMA StartOfSent == ASSUME NEW f, AsSent(f) PROVE Start(f) \in {0, 14}
  BY SentByLink, LinkStart DEF Start

\* The type in the Ethernet header is that of the packet,
LEMMA TypeOfSent ==
  ASSUME NEW p, TypeFits(p)
  PROVE  LET type == ToUShort(p.datalink.frametype)
         IN /\ IsIP(p) /\ p.network.version = 4 => type = ETHERTYPE_IP
            /\ IsIP(p) /\ p.network.version # 4 => type = ETHERTYPE_IPV6
            /\ p.class = "ARPPacket" => type = ETHERTYPE_ARP
            /\ p.class = "Packet" =>
                 type \notin {ETHERTYPE_IP, ETHERTYPE_IPV6, ETHERTYPE_ARP, ETHERTYPE_REVARP,
                              IPPROTO_TCP, IPPROTO_UDP, IPPROTO_ICMP, UNKNOWN_PROTO}
  <1> DEFINE type == ToUShort(p.datalink.frametype)
             i == IsIP(p)
             v == p.network.version
             k == p.class
             others == {ETHERTYPE_IP, ETHERTYPE_IPV6, ETHERTYPE_ARP, ETHERTYPE_REVARP,
                        IPPROTO_TCP, IPPROTO_UDP, IPPROTO_ICMP, UNKNOWN_PROTO}
  <1>1. (CASE i -> type = IF v = 4 THEN ETHERTYPE_IP ELSE ETHERTYPE_IPV6
           [] k = "ARPPacket" -> type = ETHERTYPE_ARP
           [] OTHER -> type \notin others)
    BY Zenon DEF TypeFits
  <1>2. (k = "ARPPacket" => ~i) /\ (k = "Packet" => ~i)
    BY ClassesApart
  <1> HIDE DEF type, i, v, k, others
  <1>3. /\ i /\ v = 4 => type = ETHERTYPE_IP
        /\ i /\ v # 4 => type = ETHERTYPE_IPV6
        /\ k = "ARPPacket" => type = ETHERTYPE_ARP
        /\ k = "Packet" => type \notin others
    BY <1>1, <1>2
  <1> QED
    BY <1>3, Zenon DEF type, i, v, k, others

\* and so is the one that the decoder finds.
LEMMA EtherTypeOfSent ==
  ASSUME NEW f, AsSent(f)
  PROVE  LET p == f.sent
         IN /\ IsIP(p) /\ p.network.version = 4 => EtherType(f) = ETHERTYPE_IP
            /\ IsIP(p) /\ p.network.version # 4 => EtherType(f) = ETHERTYPE_IPV6
            /\ p.class = "ARPPacket" => EtherType(f) = ETHERTYPE_ARP
            /\ p.class = "Packet" =>
                 EtherType(f) \notin {ETHERTYPE_IP, ETHERTYPE_IPV6, ETHERTYPE_ARP, ETHERTYPE_REVARP,
                                      IPPROTO_TCP, IPPROTO_UDP, IPPROTO_ICMP, UNKNOWN_PROTO}
            /\ f.link = DLT_EN10MB =>
                 Same(analyze_datalink(f, f.link), p.datalink, DatalinkFields)
  <1> DEFINE p == f.sent
  <1>1. CASE f.link = DLT_EN10MB
    <2>1. IsEthernet(p.datalink) /\ TypeFits(p)
      BY <1>1, SentByLink, LinkStart
    <2>2. /\ Same(analyze_datalink(f, DLT_EN10MB), p.datalink, DatalinkFields)
          /\ WordAt(f, 12) = ToUShort(p.datalink.frametype)
      BY <1>1, <2>1, SentByLink, LinkStart, EthernetFieldsRead
    <2>3. EtherType(f) = ToUShort(p.datalink.frametype)
      BY <1>1, <2>2, LinkStart DEF EtherType
    <2>4. Same(analyze_datalink(f, f.link), p.datalink, DatalinkFields)
      BY <1>1, <2>2
    <2> QED
      BY <2>1, <2>3, <2>4, TypeOfSent, Zenon
  <1>2. CASE f.link # DLT_EN10MB
    <2>1. f.link = DLT_RAW /\ IsIP(p) /\ p.network.version = 4
      BY <1>2, SentByLink
    <2>2. EtherType(f) = ETHERTYPE_IP
      BY <2>1 DEF EtherType
    <2> QED
      BY <1>2, <2>1, <2>2, ClassesApart
  <1> QED
    BY <1>1, <1>2

-----------------------------------------------------------------------------
(* A frame that is sent is well-formed *)

\* The lengths of a frame that was sent: that of its packet, or of a padded frame.
LEMMA MadeFacts ==
  ASSUME NEW f, NEW p, Made(f, p), Start(f) \in {0, 14}
  PROVE  /\ Start(f) \in Int /\ 0 <= Start(f) /\ Start(f) <= 14
         /\ Len(set_packet(p)) \in Nat /\ f.caplen \in Int
         /\ Captured(f) = f.caplen - Start(f) /\ Captured(f) \in Int
         /\ Len(set_packet(p)) <= Captured(f) /\ f.caplen <= 1600
         /\ Captured(f) = Len(set_packet(p)) \/ (Captured(f) <= 60 /\ Start(f) + Len(set_packet(p)) < 60)
         /\ Captured(f) = Len(set_packet(p)) \/ (f.caplen = 60 /\ Start(f) + Len(set_packet(p)) < 60)
  <1> DEFINE s == set_packet(p)
             n == Start(f)
  <1>1. /\ Sendable(p) /\ IsCarrying(f.octets, n, s) /\ f.caplen = Len(f.octets) /\ f.caplen <= 1600
    BY DEF Made
  <1>2. Len(s) \in Nat
    BY <1>1, PacketType
  <1>3. Len(f.octets) = n + Len(s) \/ (Len(f.octets) = 60 /\ n + Len(s) < 60)
    BY <1>1 DEF IsCarrying
  <1>4. n \in Int /\ 0 <= n /\ n <= 14
    OBVIOUS
  <1>5. Captured(f) = f.caplen - n
    BY DEF Captured
  <1>6. PICK k \in Int : k = Len(s) /\ k >= 0
    BY <1>2
  <1>7. f.caplen = n + k \/ (f.caplen = 60 /\ n + k < 60)
    BY <1>1, <1>3, <1>6
  <1>8. f.caplen <= 1600 /\ k \in Nat /\ k = Len(s)
    BY <1>1, <1>6
  <1> HIDE DEF n, s
  <1>9. /\ n \in Int /\ 0 <= n /\ n <= 14 /\ Len(s) \in Nat /\ f.caplen \in Int
        /\ Captured(f) = f.caplen - n /\ Captured(f) \in Int
        /\ Len(s) <= Captured(f) /\ f.caplen <= 1600
        /\ Captured(f) = Len(s) \/ (Captured(f) <= 60 /\ n + Len(s) < 60)
        /\ Captured(f) = Len(s) \/ (f.caplen = 60 /\ n + Len(s) < 60)
    BY ONLY <1>4, <1>5, <1>6, <1>7, <1>8
  <1> QED
    BY ONLY <1>9 DEF n, s

\* The packet lies in the frame.
LEMMA PacketLies ==
  ASSUME NEW f, NEW p, Made(f, p)
  PROVE  Sendable(p) /\ Lies(f.octets, Start(f), set_packet(p))
  BY DEF Made, IsCarrying

\* The octets of the headers of each class.
LEMMA HeaderOctetsOf ==
  ASSUME NEW p
  PROVE  /\ HeaderOctets(p) = NetworkOctets(p) + TransportOctets(p)
         /\ IsIP(p) /\ p.network.version = 4 => NetworkOctets(p) = 20
         /\ IsIP(p) /\ p.network.version # 4 => NetworkOctets(p) = 40
         /\ p.class = "ARPPacket" => NetworkOctets(p) = 28 /\ TransportOctets(p) = 0
         /\ p.class = "Packet" => NetworkOctets(p) = 0 /\ TransportOctets(p) = 0
  <1>1. HeaderOctets(p) = NetworkOctets(p) + TransportOctets(p)
    BY Zenon DEF HeaderOctets, TransportOctets
  <1>2. TransportOctets(p) = 0 \/ (p.class # "ARPPacket" /\ p.class # "Packet")
    BY TransportOfClass
  <1>3. /\ IsIP(p) /\ p.network.version = 4 => NetworkOctets(p) = 20
        /\ IsIP(p) /\ p.network.version # 4 => NetworkOctets(p) = 40
        /\ p.class = "ARPPacket" => NetworkOctets(p) = 28
        /\ p.class = "Packet" => NetworkOctets(p) = 0
    BY ClassesApart DEF NetworkOctets, IPv4HDRLEN, sizeof_ether_arp
  <1> QED
    BY <1>1, <1>2, <1>3

\* The octets of a packet of each class.
LEMMA PacketOctetsOf ==
  ASSUME NEW p, NEW captured
  PROVE  /\ IsIP(p) => PacketOctets(p, captured) = Len(set_packet(p))
         /\ p.class = "ARPPacket" => PacketOctets(p, captured) = 28
         /\ p.class = "Packet" => PacketOctets(p, captured) = captured
  BY ClassesApart, Zenon DEF PacketOctets, sizeof_ether_arp

TransportProtocols == {IPPROTO_TCP, IPPROTO_UDP, IPPROTO_ICMP}

\* The transport protocols differ, and none is an extension header of IPv6.
LEMMA ProtocolsApart ==
  /\ IPPROTO_TCP # IPPROTO_UDP /\ IPPROTO_TCP # IPPROTO_ICMP /\ IPPROTO_UDP # IPPROTO_ICMP
  /\ IPPROTO_NONE # IPPROTO_TCP /\ IPPROTO_NONE # IPPROTO_UDP /\ IPPROTO_NONE # IPPROTO_ICMP
  /\ \A p \in TransportProtocols : ~IsExtension(p)
  BY DEF TransportProtocols, IsExtension, IPPROTO_TCP, IPPROTO_UDP, IPPROTO_ICMP, IPPROTO_NONE,
         IPPROTO_HOPOPTS, IPPROTO_DSTOPTS, IPPROTO_ROUTING, IPPROTO_AH, IPPROTO_FRAGMENT

\* The protocol number that an object is sent with tells its class.
LEMMA ClassOfProtocol ==
  ASSUME NEW p, IsIP(p), IsTransport(p), IsIPv4(p.network) \/ IsIPv6(p.network)
  PROVE  /\ p.class = "TCPPacket" <=> ProtocolOf(p) = IPPROTO_TCP
         /\ p.class = "UDPPacket" <=> ProtocolOf(p) = IPPROTO_UDP
         /\ p.class = "ICMPPacket" <=> ProtocolOf(p) = IPPROTO_ICMP
         /\ p.class = "IPPacket" <=> ProtocolOf(p) \notin TransportProtocols
  <1>1. p.class = "IPPacket" => ProtocolOf(p) \notin TransportProtocols
    BY ProtocolSent, SentTransport DEF TransportProtocols
  <1> QED
    BY <1>1, ProtocolOfClass, ProtocolsApart DEF IsIP, TransportProtocols

\* The transport header behind the network header.
LEMMA CarriedOfSent ==
  ASSUME NEW f, NEW p, IsIP(p), IsTransport(p), IsIPv4(p.network) \/ IsIPv6(p.network),
         CarriedProtocol(f) = ProtocolOf(p),
         TransportSeen(f, Start(f) + NetworkHeader(f), p)
  PROVE  /\ CarriedHeader(f) = TransportOctets(p)
         /\ CarriedProtocol(f) = IPPROTO_TCP => CarriedHeader(f) >= TCPHDRLEN
         /\ EtherType(f) \in {ETHERTYPE_IP, ETHERTYPE_IPV6} => ClassCarried(f) = p.class
  <1> DEFINE k == p.class
             c == CarriedProtocol(f)
             e == EtherType(f)
  <1>1. /\ k = "TCPPacket" <=> c = IPPROTO_TCP
        /\ k = "UDPPacket" <=> c = IPPROTO_UDP
        /\ k = "ICMPPacket" <=> c = IPPROTO_ICMP
        /\ k = "IPPacket" <=> c \notin TransportProtocols
    BY ClassOfProtocol
  <1>2. k \in {"TCPPacket", "UDPPacket", "ICMPPacket", "IPPacket"}
    BY DEF IsIP
  <1>3. c = IPPROTO_TCP => CarriedHeader(f) = 20
    <2>1. c = IPPROTO_TCP => th_off(f, Start(f) + NetworkHeader(f)) = 5
      BY <1>1 DEF TransportSeen
    <2>2. c = IPPROTO_TCP => CarriedHeader(f) = th_off(f, Start(f) + NetworkHeader(f)) * 4
      BY ProtocolsApart DEF CarriedHeader
    <2> HIDE DEF c
    <2> QED
      BY <2>1, <2>2
  <1>4. c = IPPROTO_UDP \/ c = IPPROTO_ICMP => CarriedHeader(f) = 8
    BY ProtocolsApart DEF CarriedHeader, UDPHDRLEN, ICMPHDRLEN
  <1>5. c \notin TransportProtocols => CarriedHeader(f) = 0
    BY Zenon DEF CarriedHeader, TransportProtocols
  <1>6. e \in {ETHERTYPE_IP, ETHERTYPE_IPV6} =>
          /\ c = IPPROTO_TCP => ClassCarried(f) = "TCPPacket"
          /\ c = IPPROTO_UDP => ClassCarried(f) = "UDPPacket"
          /\ c = IPPROTO_ICMP => ClassCarried(f) = "ICMPPacket"
          /\ c \notin TransportProtocols => ClassCarried(f) = "IPPacket"
    <2> HIDE DEF c
    <2>1. e \in {ETHERTYPE_IP, ETHERTYPE_IPV6} =>
            ClassCarried(f) = CASE c = IPPROTO_TCP -> "TCPPacket" [] c = IPPROTO_UDP -> "UDPPacket"
                                [] c = IPPROTO_ICMP -> "ICMPPacket" [] OTHER -> "IPPacket"
      BY NotOthers DEF ClassCarried, c
    <2> QED
      BY <2>1, ProtocolsApart DEF TransportProtocols
  <1> HIDE DEF k, c, e
  <1>7. /\ k = "TCPPacket" => TransportOctets(p) = 20
        /\ k \in {"UDPPacket", "ICMPPacket"} => TransportOctets(p) = 8
        /\ k \notin {"TCPPacket", "UDPPacket", "ICMPPacket"} => TransportOctets(p) = 0
    BY TransportOfClass DEF k
  <1>8. /\ CarriedHeader(f) = TransportOctets(p)
        /\ c = IPPROTO_TCP => CarriedHeader(f) >= TCPHDRLEN
        /\ e \in {ETHERTYPE_IP, ETHERTYPE_IPV6} => ClassCarried(f) = k
    BY <1>1, <1>2, <1>3, <1>4, <1>5, <1>6, <1>7 DEF TransportProtocols, TCPHDRLEN
  <1> QED
    BY <1>8, Zenon DEF k, c, e

\* What makes the headers fit.
LEMMA HeadersOfSent ==
  ASSUME NEW f, NEW p, Made(f, p), Start(f) \in {0, 14}, NEW n \in Int, NEW h \in Int,
         PacketLength(f) = n, h = NetworkHeader(f) + CarriedHeader(f), h = HeaderOctets(p),
         h <= n, n <= 32767, h <= Captured(f), Least(n, Captured(f)) = PacketOctets(p, Captured(f)),
         CarriedProtocol(f) = IPPROTO_TCP => CarriedHeader(f) >= TCPHDRLEN
  PROVE  HeadersFit(f)
  <1>1. f.caplen <= 1600 /\ f.caplen \in Int /\ Captured(f) = f.caplen - Start(f)
    BY MadeFacts
  <1>2. f.caplen <= MaxShort /\ n <= MaxShort
    BY <1>1, Ends
  <1>3. f.payload = [at |-> Start(f) + HeaderOctets(p),
                     len |-> PacketOctets(p, f.caplen - Start(f)) - HeaderOctets(p)]
    BY DEF Made
  <1>4. PICK m, q : m = Captured(f) /\ q = PacketOctets(p, m)
    OBVIOUS
  <1>5. m = f.caplen - Start(f) /\ q = Least(n, m) /\ h = HeaderOctets(p)
    BY <1>1, <1>4
  <1>6. f.payload = [at |-> Start(f) + h, len |-> q - h]
    <2>1. f.payload = [at |-> Start(f) + h, len |-> PacketOctets(p, m) - h]
      BY ONLY <1>3, <1>5
    <2> QED
      BY ONLY <2>1, <1>4
  <1>7. f.payload = [at |-> Start(f) + h, len |-> Least(PacketLength(f), Captured(f)) - h]
    <2>1. q = Least(PacketLength(f), Captured(f))
      BY <1>4, <1>5
    <2> QED
      BY ONLY <1>6, <2>1
  <1>8. /\ f.caplen <= MaxShort /\ PacketLength(f) <= MaxShort
        /\ h <= PacketLength(f) /\ h <= Captured(f)
        /\ CarriedProtocol(f) = IPPROTO_TCP => CarriedHeader(f) >= TCPHDRLEN
        /\ h = NetworkHeader(f) + CarriedHeader(f)
    BY <1>2
  <1> QED
    BY ONLY <1>7, <1>8 DEF HeadersFit

-----------------------------------------------------------------------------
(* What is seen of the network headers *)

IPv4Seen(f, at, p) ==
  LET n == p.network
      r == analyze_ip(f, at)
  IN /\ ip_hl(f, at) = 5 /\ WordAt(f, at + 2) = Len(IPv4Octets(p))
     /\ ip_off(f, at) % 8192 = 0 /\ ip_p(f, at) = ProtocolOf(p)
     /\ WordAt(f, at + 6) \div 8192 = Flag(n.rsv_frag, 2) + Flag(n.dont_frag, 1) + Flag(n.more_frag, 0)
     /\ WordAt(f, at + 4) = ToUShort(n.ident)
     /\ Same(r, n, IPFields) /\ Same(r, n, TosFields)
     /\ r.ident = ToShort(n.ident) /\ r.protocol = ProtocolOf(p)
     /\ r.length = ToShort(Len(IPv4Octets(p)))
     /\ CarriedAt(f, at + 20, p)

\* The fields of an IPv4 header that was sent are seen.
LEMMA IPv4IsSeen ==
  ASSUME NEW f, NEW at, NEW p, InIPv4(p), p.network.version = 4, p.network.offset = 0, IPv4At(f, at, p)
  PROVE  IPv4Seen(f, at, p)
  <1> DEFINE n == p.network
             o == IPv4Octets(p)
             r == analyze_ip(f, at)
  <1>1. IsIPv4(n) /\ n.version = 4 /\ n.offset = 0
    BY InIPv4Facts
  <1>2. at + 0 = at /\ at \in Nat
    BY AtStart, LiesAt DEF IPv4At
  <1>3. /\ OctetAt(f, at) = 69 /\ OctetAt(f, at + 1) = ip_tos_value(n)
        /\ WordAt(f, at + 2) = Len(o) /\ WordAt(f, at + 4) = ToUShort(n.ident)
        /\ WordAt(f, at + 6) = ip_off_value(n)
        /\ OctetAt(f, at + 8) = n.hop_limit /\ OctetAt(f, at + 9) = ProtocolOf(p)
        /\ OctetsAt(f, at + 12, 4) = n.src_ip /\ OctetsAt(f, at + 16, 4) = n.dst_ip
    <2>1. /\ OctetAt(f, at + 0) = 69 /\ OctetAt(f, at + 1) = ip_tos_value(n)
          /\ WordAt(f, at + 2) = Len(o) /\ WordAt(f, at + 4) = ToUShort(n.ident)
          /\ WordAt(f, at + 6) = ip_off_value(n)
          /\ OctetAt(f, at + 8) = n.hop_limit /\ OctetAt(f, at + 9) = ProtocolOf(p)
          /\ OctetsAt(f, at + 12, 4) = n.src_ip /\ OctetsAt(f, at + 16, 4) = n.dst_ip
      BY IPv4Read
    <2> HIDE DEF n, o
    <2> QED
      BY ONLY <1>2, <2>1
  <1>4. ip_hl(f, at) = 5
    BY <1>3 DEF ip_hl
  <1>5. /\ ip_off(f, at) % 8192 = 0
        /\ WordAt(f, at + 6) \div 8192 = Flag(n.rsv_frag, 2) + Flag(n.dont_frag, 1) + Flag(n.more_frag, 0)
    BY <1>1, <1>3, OffValue DEF ip_off
  <1>6. ip_p(f, at) = ProtocolOf(p)
    BY <1>3 DEF ip_p
  <1>7. LET tos == ip_tos_value(n)
        IN /\ tos \div 32 = n.priority /\ tos % 4 = n.rsv_tos
           /\ Bit(tos, 4) = n.d_flag /\ Bit(tos, 3) = n.t_flag /\ Bit(tos, 2) = n.r_flag
    BY <1>1, TosValue, Zenon
  <1>8. ToShort(ToUShort(n.ident)) = ToShort(n.ident)
    BY <1>1, IPv4Fields, ShortOf
  <1>9. LET tos == OctetAt(f, at + 1)
        IN /\ r.version = 4 /\ r.priority = tos \div 32 /\ r.rsv_tos = tos % 4
           /\ r.d_flag = Bit(tos, 4) /\ r.t_flag = Bit(tos, 3) /\ r.r_flag = Bit(tos, 2)
    BY ReadService, ZenonT(40)
  <1>10. /\ r.ident = ToShort(WordAt(f, at + 4)) /\ r.length = ToShort(WordAt(f, at + 2))
         /\ r.hop_limit = OctetAt(f, at + 8) /\ r.protocol = OctetAt(f, at + 9)
         /\ r.src_ip = OctetsAt(f, at + 12, 4) /\ r.dst_ip = OctetsAt(f, at + 16, 4)
    BY ReadIP, ZenonT(40)
  <1> HIDE DEF n, o, r
  <1>11. /\ r.priority = n.priority /\ r.rsv_tos = n.rsv_tos
         /\ r.d_flag = n.d_flag /\ r.t_flag = n.t_flag /\ r.r_flag = n.r_flag
    BY <1>3, <1>7, <1>9, ZenonT(40)
  <1>12. /\ r.version = n.version /\ r.hop_limit = n.hop_limit
         /\ r.src_ip = n.src_ip /\ r.dst_ip = n.dst_ip
    BY <1>1, <1>3, <1>9, <1>10, Zenon
  <1>13. Same(r, n, IPFields) /\ Same(r, n, TosFields)
    BY <1>11, <1>12, Zenon DEF Same, IPFields, TosFields
  <1>14. r.ident = ToShort(n.ident) /\ r.protocol = ProtocolOf(p) /\ r.length = ToShort(Len(o))
    BY <1>3, <1>8, <1>10, Zenon
  <1>15. CarriedAt(f, at + 20, p)
    <2>1. Lies(o, 20, IPv4Carried(p))
      BY IPv4Layers DEF o
    <2>2. Lies(f.octets, at, o)
      BY DEF IPv4At, o
    <2>3. Lies(f.octets, at + 20, IPv4Carried(p))
      BY <2>1, <2>2, LiesWithin
    <2>4. IsOctets(IPv4Head(p, <<0, 0>>, <<0, 0>>))
      BY ZeroOctets, IPv4HeadParts
    <2> QED
      BY <2>3, <2>4 DEF CarriedAt, IPv4Carried
  <1>16. WordAt(f, at + 2) = Len(o) /\ WordAt(f, at + 4) = ToUShort(n.ident)
    BY <1>3
  <1> QED
    BY ONLY <1>4, <1>5, <1>6, <1>13, <1>14, <1>15, <1>16 DEF IPv4Seen, n, o, r

IPv6Seen(f, at, p) ==
  LET n == p.network
      r == Ip6Fields(f, at)
  IN /\ OctetAt(f, at) \div 16 = 6
     /\ WordAt(f, at) \div 16 = 6 * 256 + n.priority
     /\ OctetAt(f, at + 1) % 16 = n.flow_label[2]
     /\ OctetsAt(f, at + 2, 2) = SubSeq(n.flow_label, 3, 4)
     /\ ip6_plen(f, at) = NetShort(Len(IPv6Octets(p))) /\ ip6_nxt(f, at) = ProtocolOf(p)
     /\ Same(r, n, IPFields) /\ r.protocol = ToByte(ProtocolOf(p))
     /\ CarriedAt(f, at + 40, p)

\* The class and the flow label, put together and taken apart.
FirstsOf(a, b, c, d) ==
  /\ a \in 0..255 /\ b \in 0..15
  /\ c = 96 + ((a \div 16) % 16) /\ d = ((a % 16) * 16) + (b % 16)

\* The version, the class and the flow label can be told apart.
LEMMA FirstOctets ==
  ASSUME NEW a, NEW b, NEW c, NEW d, FirstsOf(a, b, c, d)
  PROVE  c \div 16 = 6 /\ (c * 256 + d) \div 16 = 6 * 256 + a /\ d % 16 = b
  BY DEF FirstsOf

\* Two octets of four.
LEMMA TwoLast ==
  ASSUME NEW f, NEW at \in Nat, NEW s \in OctetSeq(4),
         OctetAt(f, at + 2) = s[3], OctetAt(f, at + 3) = s[4]
  PROVE  OctetsAt(f, at + 2, 2) = SubSeq(s, 3, 4)
  <1>1. OctetsAt(f, at + 2, 2) = [i \in 1..2 |-> OctetAt(f, (at + 2) + i - 1)]
    BY DEF OctetsAt
  <1>2. (at + 2) + 1 - 1 = at + 2 /\ (at + 2) + 2 - 1 = at + 3
    OBVIOUS
  <1>3. \A i \in 1..2 : i = 1 \/ i = 2
    OBVIOUS
  <1>4. \A i \in 1..2 : OctetAt(f, (at + 2) + i - 1) = s[i + 2]
    <2>1. TAKE i \in 1..2
    <2>2. CASE i = 1
      BY <1>2, <2>2
    <2>3. CASE i = 2
      BY <1>2, <2>3
    <2> QED
      BY <1>3, <2>2, <2>3
  <1>5. s \in Seq(Octet) /\ Len(s) = 4
    BY OctetSeqs DEF IsOctets
  <1>6. SubSeq(s, 3, 4) = [i \in 1..2 |-> s[i + 2]]
    BY <1>5
  <1> QED
    BY <1>1, <1>4, <1>6

\* The fields of an IPv6 header that was sent are seen.
LEMMA IPv6IsSeen ==
  ASSUME NEW f, NEW at, NEW p, InIPv6(p), p.network.version = 6, IPv6At(f, at, p)
  PROVE  IPv6Seen(f, at, p)
  <1> DEFINE n == p.network
             o == IPv6Octets(p)
             r == Ip6Fields(f, at)
             first == 96 + ((n.priority \div 16) % 16)
             second == ((n.priority % 16) * 16) + (n.flow_label[2] % 16)
  <1>1. IsIPv6(n) /\ n.version = 6
    BY InIPv6Facts
  <1>2. at + 0 = at /\ at \in Nat
    BY AtStart, LiesAt DEF IPv6At
  <1>3. /\ OctetAt(f, at) = first /\ OctetAt(f, at + 1) = second
        /\ OctetAt(f, at + 2) = n.flow_label[3] /\ OctetAt(f, at + 3) = n.flow_label[4]
        /\ WordAt(f, at + 4) = NetShort(Len(o))
        /\ OctetAt(f, at + 6) = ProtocolOf(p) /\ OctetAt(f, at + 7) = n.hop_limit
        /\ OctetsAt(f, at + 8, 16) = n.src_ip /\ OctetsAt(f, at + 24, 16) = n.dst_ip
    <2>1. /\ OctetAt(f, at + 0) = first /\ OctetAt(f, at + 1) = second
          /\ OctetAt(f, at + 2) = n.flow_label[3] /\ OctetAt(f, at + 3) = n.flow_label[4]
          /\ WordAt(f, at + 4) = NetShort(Len(o))
          /\ OctetAt(f, at + 6) = ProtocolOf(p) /\ OctetAt(f, at + 7) = n.hop_limit
          /\ OctetsAt(f, at + 8, 16) = n.src_ip /\ OctetsAt(f, at + 24, 16) = n.dst_ip
      BY IPv6Read
    <2> HIDE DEF n, o, first, second
    <2> QED
      BY ONLY <1>2, <2>1
  <1>4. n.priority \in 0..255 /\ n.flow_label \in OctetSeq(4) /\ n.flow_label[2] < 16
    BY <1>1, IPv6Fields DEF Octet
  <1>5. n.flow_label[2] \in 0..15
    <2>1. n.flow_label[2] \in Octet
      BY <1>4 DEF OctetSeq
    <2>2. n.flow_label[2] \in Int /\ 0 <= n.flow_label[2]
      BY <2>1, OctetIsInt
    <2> QED
      BY <1>4, <2>2
  <1>6. first \div 16 = 6 /\ (first * 256 + second) \div 16 = 6 * 256 + n.priority /\ second % 16 = n.flow_label[2]
    <2>1. FirstsOf(n.priority, n.flow_label[2], first, second)
      BY <1>4, <1>5 DEF FirstsOf
    <2> HIDE DEF n, first, second
    <2> QED
      BY ONLY <2>1, FirstOctets
  <1>7. /\ r.version = 6 /\ r.protocol = ToByte(OctetAt(f, at + 6))
        /\ r.hop_limit = OctetAt(f, at + 7)
        /\ r.src_ip = OctetsAt(f, at + 8, 16) /\ r.dst_ip = OctetsAt(f, at + 24, 16)
    BY ReadIPv6, Zenon
  <1> HIDE DEF n, o, r, first, second
  <1>8. OctetsAt(f, at + 2, 2) = SubSeq(n.flow_label, 3, 4)
    BY <1>2, <1>3, <1>4, TwoLast
  <1>9. OctetAt(f, at) \div 16 = 6 /\ OctetAt(f, at + 1) % 16 = n.flow_label[2]
    BY <1>3, <1>6, Zenon
  <1>10. WordAt(f, at) \div 16 = 6 * 256 + n.priority
    BY <1>3, <1>6, Zenon DEF WordAt
  <1>11. ip6_plen(f, at) = NetShort(Len(o)) /\ ip6_nxt(f, at) = ProtocolOf(p)
    BY <1>3, Zenon DEF ip6_plen, ip6_nxt
  <1>12. /\ r.version = n.version /\ r.hop_limit = n.hop_limit
         /\ r.src_ip = n.src_ip /\ r.dst_ip = n.dst_ip
    BY <1>1, <1>3, <1>7, Zenon
  <1>13. Same(r, n, IPFields) /\ r.protocol = ToByte(ProtocolOf(p))
    BY <1>3, <1>7, <1>12, Zenon DEF Same, IPFields
  <1>14. CarriedAt(f, at + 40, p)
    <2>1. Lies(o, 40, IPv6Carried(p))
      BY IPv6Layers DEF o
    <2>2. Lies(f.octets, at, o)
      BY DEF IPv6At, o
    <2>3. Lies(f.octets, at + 40, IPv6Carried(p))
      BY <2>1, <2>2, LiesWithin
    <2>4. IsOctets(IPv6Head(p, 0))
      <3>1. IsWord(0)
        BY DEF IsWord
      <3> QED
        BY <3>1, IPv6HeadParts
    <2> QED
      BY <2>3, <2>4 DEF CarriedAt, IPv6Carried
  <1> QED
    BY <1>8, <1>9, <1>10, <1>11, <1>13, <1>14, Zenon DEF IPv6Seen, n, o, r

\* A frame that was sent is made of its object.
LEMMA MadeOf ==
  ASSUME NEW f, AsSent(f)
  PROVE  Made(f, f.sent) /\ Start(f) \in {0, 14} /\ Sendable(f.sent)
  BY SentByLink, StartOfSent DEF Made

\* Which gives its fields.
LEMMA MadeFields ==
  ASSUME NEW f, NEW p, Made(f, p)
  PROVE  /\ f.carries = p.class /\ f.extensions = <<>> /\ f.places = <<Start(f) + 40>> /\ f.headers
         /\ f.caplen <= 1600
  BY DEF Made

\* The lesser of two numbers.
LEMMA Leasts ==
  ASSUME NEW a \in Int, NEW b \in Int
  PROVE  (a <= b => Least(a, b) = a) /\ (b <= a => Least(a, b) = b)
  BY DEF Least

\* What an IPv4 packet is sent as.
SentIPv4(f, p) ==
  /\ EtherType(f) = ETHERTYPE_IP /\ NetworkHeader(f) = 20
  /\ InIPv4(p) /\ IPv4Seen(f, Start(f), p) /\ TransportSeen(f, Start(f) + 20, p)
  /\ CarriedProtocol(f) = ProtocolOf(p) /\ set_packet(p) = IPv4Octets(p)

\* A frame of an IPv4 packet is well-formed, and its headers are those sent.
LEMMA IPv4IsSent ==
  ASSUME NEW f, NEW p, p = f.sent, AsSent(f), IsIP(p), p.network.version = 4
  PROVE  SentIPv4(f, p) /\ WellFormed(f)
  <1> DEFINE at == Start(f)
             o == IPv4Octets(p)
             n == Len(o)
  <1>1. Made(f, p) /\ at \in {0, 14} /\ Sendable(p)
    BY MadeOf
  <1>2. InIPv4(p) /\ p.network.offset = 0 /\ set_packet(p) = o
    BY <1>1, SendableIP, SetPacket
  <1>3. IPv4At(f, at, p)
    BY <1>1, <1>2, PacketLies DEF IPv4At
  <1>4. IPv4Seen(f, at, p)
    BY <1>2, <1>3, IPv4IsSeen
  <1>5. /\ ip_hl(f, at) = 5 /\ WordAt(f, at + 2) = n /\ ip_off(f, at) % 8192 = 0
        /\ ip_p(f, at) = ProtocolOf(p) /\ CarriedAt(f, at + 20, p)
    BY ONLY <1>4 DEF IPv4Seen
  <1>6. IsIP(p) /\ IsTransport(p) /\ IsIPv4(p.network) /\ IsPayload(p.data)
    BY <1>2, InIPv4Facts
  <1>7. TransportSeen(f, at + 20, p)
    BY <1>5, <1>6, TransportIsSeen
  <1>8. EtherType(f) = ETHERTYPE_IP
    BY EtherTypeOfSent
  <1>9. NetworkHeader(f) = 20 /\ PacketLength(f) = n /\ CarriedProtocol(f) = ProtocolOf(p)
    <2> HIDE DEF n
    <2>1. NetworkHeader(f) = 20
      BY <1>5, <1>8, NotOthers DEF NetworkHeader
    <2>2. PacketLength(f) = n
      BY <1>5, <1>8, NotOthers DEF PacketLength
    <2>3. CarriedProtocol(f) = ProtocolOf(p)
      BY <1>5, <1>8, NotOthers DEF CarriedProtocol
    <2> QED
      BY <2>1, <2>2, <2>3
  <1>10. SentIPv4(f, p)
    BY <1>2, <1>4, <1>7, <1>8, <1>9 DEF SentIPv4
  <1>11. /\ CarriedHeader(f) = TransportOctets(p)
         /\ CarriedProtocol(f) = IPPROTO_TCP => CarriedHeader(f) >= TCPHDRLEN
         /\ ClassCarried(f) = p.class
    BY <1>6, <1>7, <1>8, <1>9, CarriedOfSent
  <1>12. HeadersFit(f)
    <2>1. PICK k \in Int : k = TransportOctets(p) /\ 0 <= k
      BY TransportOfClass
    <2>2. NetworkHeader(f) + CarriedHeader(f) = 20 + k /\ HeaderOctets(p) = 20 + k
      BY <1>6, <1>9, <1>11, <2>1, HeaderOctetsOf
    <2>3. n \in Int /\ 20 + k <= n
      <3>1. PICK l : n = 20 + l /\ l \in Nat /\ l >= k
        BY <1>2, <2>1, IPv4Layers
      <3> HIDE DEF n
      <3> QED
        BY <2>1, <3>1
    <2>4. Captured(f) \in Int /\ n <= Captured(f) /\ Captured(f) <= 1600
      BY <1>1, <1>2, MadeFacts
    <2>5. PacketOctets(p, Captured(f)) = n
      BY <1>2, <1>6, PacketOctetsOf
    <2> HIDE DEF n
    <2>6. Least(n, Captured(f)) = n
      BY <2>3, <2>4, Leasts
    <2>7. 20 + k \in Int /\ 20 + k <= Captured(f) /\ n <= 32767
      BY <2>1, <2>3, <2>4
    <2> QED
      BY <1>1, <1>9, <1>11, <2>2, <2>3, <2>5, <2>6, <2>7, HeadersOfSent
  <1>13. f.carries = ClassCarried(f) /\ f.extensions = <<>>
    BY <1>1, <1>11, MadeFields
  <1>14. NetworkHeader(f) >= IPv4HDRLEN
    BY <1>9 DEF IPv4HDRLEN
  <1>15. WellFormed(f)
    BY ONLY <1>8, <1>12, <1>13, <1>14, NotOthers DEF WellFormed, IPv4Layout
  <1> QED
    BY <1>10, <1>15

\* What an IPv6 packet is sent as.
SentIPv6(f, p) ==
  /\ EtherType(f) = ETHERTYPE_IPV6 /\ NetworkHeader(f) = 40
  /\ InIPv6(p) /\ IPv6Seen(f, Start(f), p) /\ TransportSeen(f, Start(f) + 40, p)
  /\ CarriedProtocol(f) = ProtocolOf(p) /\ set_packet(p) = IPv6Octets(p)
  /\ Captured(f) = Len(IPv6Octets(p))

\* A frame without extension headers has one place for a transport header.
LEMMA OnePlace ==
  ASSUME NEW f, NEW at \in Nat, f.places = <<at + 40>>
  PROVE  /\ Len(f.places) = 1 /\ f.places[1] = at + 40 /\ f.places \in Seq(Nat) /\ f.places # <<>>
         /\ Extensions(f) = 0
  <1>1. PICK k \in Nat : k = at + 40
    OBVIOUS
  <1>2. f.places = <<k>>
    BY <1>1
  <1>3. Len(f.places) = 1 /\ f.places[1] = k /\ f.places \in Seq(Nat) /\ f.places # <<>>
    BY <1>2
  <1> QED
    BY <1>1, <1>3 DEF Extensions

\* The layout of an IPv6 packet without extension headers.
LEMMA PlainIPv6 ==
  ASSUME NEW f, Start(f) \in Nat, f.caplen \in Int, OctetAt(f, Start(f)) \div 16 = 6,
         f.places = <<Start(f) + 40>>, f.extensions = <<>>, Captured(f) > 40,
         Captured(f) = f.caplen - Start(f), ~IsExtension(CarriedProtocol(f))
  PROVE  IPv6Layout(f)
  <1>1. /\ Len(f.places) = 1 /\ f.places[1] = Start(f) + 40 /\ f.places \in Seq(Nat) /\ f.places # <<>>
        /\ Extensions(f) = 0
    BY OnePlace
  <1>2. \A i \in 1..Len(f.places) : Start(f) + 40 <= f.places[i] /\ f.places[i] <= f.caplen
    <2>1. Start(f) + 40 <= Start(f) + 40 /\ Start(f) + 40 <= f.caplen
      OBVIOUS
    <2>2. \A i \in 1..1 : i = 1
      OBVIOUS
    <2> QED
      BY <1>1, <2>1, <2>2, Zenon
  <1>3. \A i : i \notin 1..Extensions(f)
    BY <1>1
  <1>4. f.extensions = ChainOf(f, Extensions(f))
    <2>1. ChainOf(f, Extensions(f)) = [i \in 1..Extensions(f) |-> <<NextHeader(f, i), ip6e_len(f, f.places[i])>>]
      BY DEF ChainOf
    <2>2. PICK g : g = [i \in 1..0 |-> <<NextHeader(f, i), ip6e_len(f, f.places[i])>>]
      OBVIOUS
    <2>3. g = <<>>
      BY <2>2
    <2>4. ChainOf(f, Extensions(f)) = g
      BY <1>1, <2>1, <2>2, Zenon
    <2> QED
      BY <2>3, <2>4
  <1>5. ~(Extensions(f) > 0)
    BY <1>1
  <1>6. Captured(f) > 40
    OBVIOUS
  <1>7. \A i \in 1..Extensions(f) :
       /\ IsExtension(NextHeader(f, i)) /\ NextHeader(f, i) # IPPROTO_ROUTING
       /\ ip6e_len(f, f.places[i]) <= 127
       /\ f.places[i + 1] = f.places[i] + ExtensionOctets(f, f.places[i], NextHeader(f, i))
    BY <1>3, Zenon
  <1> QED
    BY <1>1, <1>2, <1>4, <1>5, <1>6, <1>7, Zenon DEF IPv6Layout

\* The same of IPv6,
LEMMA IPv6IsSent ==
  ASSUME NEW f, NEW p, p = f.sent, AsSent(f), IsIP(p), p.network.version # 4
  PROVE  SentIPv6(f, p) /\ WellFormed(f)
  <1> DEFINE at == Start(f)
             o == IPv6Octets(p)
             n == Len(o)
  <1>1. Made(f, p) /\ at \in {0, 14} /\ Sendable(p)
    BY MadeOf
  <1>2. /\ InIPv6(p) /\ p.network.version = 6 /\ set_packet(p) = o
        /\ FitsIPv6(p) /\ ~IsExtension(p.network.protocol)
    BY <1>1, SendableIP, SetPacket
  <1>3. IPv6At(f, at, p)
    BY <1>1, <1>2, PacketLies DEF IPv6At
  <1>4. IPv6Seen(f, at, p)
    BY <1>2, <1>3, IPv6IsSeen
  <1>5. /\ OctetAt(f, at) \div 16 = 6 /\ ip6_plen(f, at) = NetShort(n)
        /\ ip6_nxt(f, at) = ProtocolOf(p) /\ CarriedAt(f, at + 40, p)
    BY ONLY <1>4 DEF IPv6Seen
  <1>6. IsIP(p) /\ IsTransport(p) /\ IsIPv6(p.network) /\ IsPayload(p.data)
    BY <1>2, InIPv6Facts
  <1>7. TransportSeen(f, at + 40, p)
    BY <1>5, <1>6, TransportIsSeen
  <1>8. EtherType(f) = ETHERTYPE_IPV6
    BY EtherTypeOfSent, SMTT(40)
  <1>9. n >= 46 /\ n <= NetShort(n) + 40 /\ NetShort(n) + 40 <= 32767
    BY <1>2, Ends DEF FitsIPv6
  <1>10. IsWord(n) /\ n \in Int /\ NetShort(n) \in Int
    BY <1>2, IPv6Layers, NetShortType, WordIsInt
  <1>11. f.places = <<at + 40>> /\ f.extensions = <<>> /\ f.carries = p.class
    BY <1>1, MadeFields
  <1>12. at \in Nat
    BY <1>1
  <1>13. Extensions(f) = 0 /\ f.places[1] = at + 40
    BY <1>11, <1>12, OnePlace
  <1>14. Captured(f) = n /\ Captured(f) = f.caplen - at /\ f.caplen \in Int
    <2>1. /\ at \in Int /\ 0 <= at /\ f.caplen \in Int /\ Captured(f) = f.caplen - at
          /\ Captured(f) = n \/ (f.caplen = 60 /\ at + n < 60)
          /\ at \in {0, 14}
      BY <1>1, <1>2, MadeFacts
    <2>2. CASE at = 14
      <3> HIDE DEF at, n
      <3> QED
        BY <1>9, <1>10, <2>1, <2>2
    <2>3. CASE at = 0
      <3>1. f.link # DLT_EN10MB
        BY <2>3, LinkStart DEF Start
      <3>2. p.network.version = 4
        BY <3>1, SentByLink
      <3> QED
        BY <3>2
    <2> QED
      BY <2>1, <2>2, <2>3
  <1>15. NetworkHeader(f) = 40 /\ PacketLength(f) = 40 + NetShort(n) /\ CarriedProtocol(f) = ProtocolOf(p)
    <2>1. CarriedProtocol(f) = NextHeader(f, Extensions(f) + 1)
      BY <1>8, NotOthers DEF CarriedProtocol
    <2>2. Extensions(f) + 1 = 1
      BY <1>13
    <2>3. NextHeader(f, 1) = ip6_nxt(f, at)
      BY DEF NextHeader
    <2>4. PacketLength(f) = 40 + ip6_plen(f, at)
      BY <1>8, NotOthers DEF PacketLength
    <2>5. NetworkHeader(f) = f.places[Extensions(f) + 1] - at
      BY <1>8, NotOthers DEF NetworkHeader
    <2>6. NetworkHeader(f) = f.places[1] - at
      BY <2>2, <2>5, Zenon
    <2> HIDE DEF at, n
    <2>7. NetworkHeader(f) = 40
      <3>1. PICK x : x = f.places[1]
        OBVIOUS
      <3>2. x = at + 40 /\ NetworkHeader(f) = x - at
        BY <1>13, <2>6, <3>1
      <3> QED
        BY ONLY <1>12, <3>2
    <2> QED
      BY <1>5, <2>1, <2>2, <2>3, <2>4, <2>7
  <1>16. SentIPv6(f, p)
    BY <1>2, <1>4, <1>7, <1>8, <1>14, <1>15 DEF SentIPv6
  <1>17. /\ CarriedHeader(f) = TransportOctets(p)
         /\ CarriedProtocol(f) = IPPROTO_TCP => CarriedHeader(f) >= TCPHDRLEN
         /\ ClassCarried(f) = p.class
    BY <1>6, <1>7, <1>8, <1>15, CarriedOfSent
  <1>18. ~IsExtension(CarriedProtocol(f))
    <2>1. ProtocolOf(p) = p.network.protocol \/ ProtocolOf(p) \in TransportProtocols
      BY <1>6, ProtocolSent, ProtocolOfClass DEF IsIP, TransportProtocols
    <2> QED
      BY <1>2, <1>15, <2>1, ProtocolsApart
  <1>19. HeadersFit(f)
    <2> DEFINE m == 40 + NetShort(n)
    <2>1. PICK k \in Int : k = TransportOctets(p) /\ 0 <= k
      BY TransportOfClass
    <2>2. NetworkHeader(f) + CarriedHeader(f) = 40 + k /\ HeaderOctets(p) = 40 + k
      BY <1>2, <1>6, <1>15, <1>17, <2>1, HeaderOctetsOf
    <2>3. 40 + k <= n
      <3>1. PICK l : n = 40 + l /\ l \in Nat /\ l >= k
        BY <1>2, <2>1, IPv6Layers
      <3> HIDE DEF n
      <3> QED
        BY <2>1, <3>1
    <2>4. PacketOctets(p, Captured(f)) = n
      BY <1>2, <1>6, PacketOctetsOf
    <2>5. m \in Int /\ n <= m /\ m <= 32767 /\ Captured(f) = n /\ Captured(f) \in Int
      BY <1>9, <1>10, <1>14
    <2> HIDE DEF m, n
    <2>6. Least(m, Captured(f)) = PacketOctets(p, Captured(f))
      BY <1>10, <2>4, <2>5, Leasts
    <2>7. 40 + k \in Int /\ 40 + k <= m /\ 40 + k <= Captured(f)
      BY <1>10, <2>1, <2>3, <2>5
    <2>8. PacketLength(f) = m
      BY <1>15 DEF m, n
    <2> QED
      BY <1>1, <1>17, <2>2, <2>5, <2>6, <2>7, <2>8, HeadersOfSent
  <1>20. IPv6Layout(f)
    <2>1. Captured(f) > 40
      BY <1>9, <1>10, <1>14
    <2> QED
      BY <1>5, <1>11, <1>12, <1>14, <1>18, <2>1, PlainIPv6
  <1>21. f.carries = ClassCarried(f)
    BY <1>11, <1>17
  <1>22. WellFormed(f)
    BY ONLY <1>8, <1>19, <1>20, <1>21, NotOthers DEF WellFormed
  <1> QED
    BY <1>16, <1>22

SentARP(f, p) ==
  /\ EtherType(f) = ETHERTYPE_ARP /\ Same(analyze_arp(f, Start(f)), p.network, ARPFields)

\* of ARP
LEMMA ARPIsSent ==
  ASSUME NEW f, NEW p, p = f.sent, AsSent(f), p.class = "ARPPacket"
  PROVE  SentARP(f, p) /\ WellFormed(f)
  <1> DEFINE at == Start(f)
             s == set_packet(p)
             d == Len(p.data)
  <1>1. Made(f, p) /\ at \in {0, 14} /\ Sendable(p)
    BY MadeOf
  <1>2. IsARP(p.network) /\ Len(s) = 28 + d /\ Lies(s, 0, set_arp(p.network))
    BY <1>1, ARPLayers
  <1>3. Lies(f.octets, at + 0, set_arp(p.network))
    BY <1>1, <1>2, PacketLies, LiesWithin
  <1>4. at + 0 = at
    BY <1>1
  <1>5. Lies(f.octets, at, set_arp(p.network))
    BY <1>3, <1>4
  <1>6. Same(analyze_arp(f, at), p.network, ARPFields) /\ ArpLength(f, at) = 28
    BY <1>2, <1>5, ARPFieldsRead
  <1>7. EtherType(f) = ETHERTYPE_ARP
    BY EtherTypeOfSent
  <1>8. PacketLength(f) = 28 /\ NetworkHeader(f) = 28 /\ CarriedProtocol(f) = IPPROTO_NONE
    BY <1>6, <1>7, NotOthers DEF PacketLength, NetworkHeader, CarriedProtocol
  <1>9. CarriedHeader(f) = 0
    BY <1>8, ProtocolsApart DEF CarriedHeader
  <1>10. ClassCarried(f) = "ARPPacket"
    BY <1>7, NotOthers DEF ClassCarried
  <1>11. HeadersFit(f)
    <2>1. HeaderOctets(p) = 28 + 0 /\ PacketOctets(p, Captured(f)) = 28
      BY HeaderOctetsOf, PacketOctetsOf
    <2>2. Captured(f) \in Int /\ 28 <= Captured(f)
      <3>1. Len(s) <= Captured(f) /\ Captured(f) \in Int
        BY <1>1, MadeFacts
      <3>2. d \in Nat
        BY <1>1, SendableFacts, PayloadLength
      <3>3. Len(s) = 28 + d
        BY <1>2
      <3> HIDE DEF s, d
      <3> QED
        BY <3>1, <3>2, <3>3
    <2>3. Least(28, Captured(f)) = 28
      BY <2>2, Leasts
    <2>4. NetworkHeader(f) + CarriedHeader(f) = 28 /\ HeaderOctets(p) = 28
      BY <1>8, <1>9, <2>1
    <2>5. CarriedProtocol(f) # IPPROTO_TCP
      BY <1>8, ProtocolsApart
    <2>6. 28 <= 28 /\ 28 <= 32767
      OBVIOUS
    <2> QED
      BY <1>1, <1>8, <2>1, <2>2, <2>3, <2>4, <2>5, <2>6, HeadersOfSent
  <1>12. f.carries = ClassCarried(f) /\ f.extensions = <<>>
    BY <1>1, <1>10, MadeFields
  <1>13. WellFormed(f)
    BY ONLY <1>7, <1>11, <1>12, NotOthers DEF WellFormed
  <1>14. SentARP(f, p)
    BY <1>6, <1>7 DEF SentARP
  <1> QED
    BY <1>13, <1>14

SentOther(f, p) ==
  /\ EtherType(f) \notin {ETHERTYPE_IP, ETHERTYPE_IPV6, ETHERTYPE_ARP}
  /\ CarriedProtocol(f) = IPPROTO_NONE /\ Captured(f) >= Len(p.data)

\* and of a packet of no protocol.
LEMMA OtherIsSent ==
  ASSUME NEW f, NEW p, p = f.sent, AsSent(f), p.class = "Packet"
  PROVE  SentOther(f, p) /\ WellFormed(f)
  <1> DEFINE at == Start(f)
             e == EtherType(f)
  <1>1. Made(f, p) /\ at \in {0, 14} /\ Sendable(p)
    BY MadeOf
  <1>2. e \notin {ETHERTYPE_IP, ETHERTYPE_IPV6, ETHERTYPE_ARP, ETHERTYPE_REVARP,
                  IPPROTO_TCP, IPPROTO_UDP, IPPROTO_ICMP, UNKNOWN_PROTO}
    BY EtherTypeOfSent
  <1>3. /\ PacketLength(f) = Captured(f) /\ NetworkHeader(f) = 0
        /\ CarriedProtocol(f) = IPPROTO_NONE /\ ClassCarried(f) = "Packet"
    BY <1>2 DEF PacketLength, NetworkHeader, CarriedProtocol, ClassCarried
  <1>4. CarriedHeader(f) = 0
    BY <1>3, ProtocolsApart DEF CarriedHeader
  <1>5. /\ Captured(f) \in Int /\ 0 <= Captured(f) /\ Captured(f) <= 1600
        /\ Captured(f) >= Len(p.data)
    <2>1. set_packet(p) = p.data
      BY SetPacket
    <2>2. /\ Start(f) \in Int /\ 0 <= Start(f) /\ Len(p.data) \in Nat /\ f.caplen \in Int
          /\ Captured(f) = f.caplen - Start(f) /\ Captured(f) \in Int
          /\ Len(p.data) <= Captured(f) /\ f.caplen <= 1600
      BY <1>1, <2>1, MadeFacts
    <2>3. PICK k \in Nat : k = Len(p.data) /\ k <= Captured(f)
      BY <2>2
    <2> QED
      BY <2>2, <2>3
  <1>6. HeadersFit(f)
    <2>1. HeaderOctets(p) = 0 + 0 /\ PacketOctets(p, Captured(f)) = Captured(f)
      BY HeaderOctetsOf, PacketOctetsOf
    <2>2. NetworkHeader(f) + CarriedHeader(f) = 0 /\ HeaderOctets(p) = 0
      BY <1>3, <1>4, <2>1
    <2>3. Least(Captured(f), Captured(f)) = Captured(f) /\ Captured(f) <= 32767
      BY <1>5, Leasts
    <2>4. CarriedProtocol(f) # IPPROTO_TCP
      BY <1>3, ProtocolsApart
    <2> QED
      BY <1>1, <1>3, <1>5, <2>1, <2>2, <2>3, <2>4, HeadersOfSent
  <1>7. f.carries = ClassCarried(f) /\ f.extensions = <<>>
    BY <1>1, <1>3, MadeFields
  <1>8. WellFormed(f)
    BY ONLY <1>2, <1>6, <1>7 DEF WellFormed, OtherLayout
  <1>9. SentOther(f, p)
    BY <1>2, <1>3, <1>5 DEF SentOther
  <1> QED
    BY <1>8, <1>9

\* Any frame that jpcap sends is as the standards have it.
LEMMA SentIsWellFormed == ASSUME NEW f, AsSent(f) PROVE WellFormed(f) /\ f.headers
  <1>1. Made(f, f.sent) /\ Sendable(f.sent)
    BY MadeOf
  <1>2. f.headers
    BY <1>1, MadeFields
  <1>3. IsIP(f.sent) \/ f.sent.class = "ARPPacket" \/ f.sent.class = "Packet"
    BY <1>1, SendableFacts, SentNetwork
  <1> QED
    BY <1>2, <1>3, IPv4IsSent, IPv6IsSent, ARPIsSent, OtherIsSent

\* Frames that jpcap sends are as the standards allow: whatever the fields of the
\* object, set_packet, the checksums and the padding of nativeSendPacket make a frame
\* that the layout of FrameLayout fits.
THEOREM KnownAreWellFormed == FramesAreKnown => FramesAreWellFormed
  <1> SUFFICES ASSUME FramesAreKnown, NEW f \in Frames, f.headers PROVE WellFormed(f)
    BY DEF FramesAreWellFormed
  <1>1. CASE WasSent(f)
    BY <1>1, SentIsWellFormed DEF FramesAreKnown
  <1>2. CASE ~WasSent(f)
    BY <1>2 DEF FramesAreKnown
  <1> QED
    BY <1>1, <1>2

-----------------------------------------------------------------------------
(* What has arrived *)

ReadInv == Inv /\ LayoutInv /\ ObjectRead

\* What is known once a frame that was sent has been decoded.
LEMMA ArrivedFacts ==
  ASSUME FramesAreKnown, ReadInv, Arrived
  PROVE  /\ AsSent(frame) /\ sent = frame.sent /\ packet.class = sent.class
         /\ nproto = EtherType(frame) /\ Found(frame, tproto)
         /\ packet.datalink = analyze_datalink(frame, frame.link) /\ NetworkRead /\ TransportRead
         /\ packet.header = frame.payload.at /\ packet.data = frame.payload.len
  <1>1. FramesAreWellFormed /\ Inv /\ LayoutInv /\ ObjectRead /\ Done /\ WasSent(frame)
    BY KnownAreWellFormed DEF ReadInv, Arrived
  <1>2. frame \in Frames
    BY <1>1 DEF Inv, TypeOK
  <1>3. AsSent(frame)
    BY <1>1, <1>2 DEF FramesAreKnown
  <1>4. frame.headers /\ frame.carries = frame.sent.class
    BY <1>3, SentIsWellFormed, MadeOf, MadeFields
  <1>5. /\ WellFormed(frame) /\ nproto = EtherType(frame) /\ Found(frame, tproto)
        /\ packet.class = ClassOf(tproto, nproto)
        /\ packet.header = frame.payload.at /\ packet.data = frame.payload.len
    BY <1>1, <1>4, LayoutDone
  <1>6. packet.class = frame.carries
    BY <1>2, <1>5, ClassFound
  <1>7. packet.datalink = analyze_datalink(frame, frame.link) /\ NetworkRead /\ TransportRead
    BY <1>1, <1>4 DEF ObjectRead, Done
  <1> QED
    BY <1>3, <1>4, <1>5, <1>6, <1>7 DEF sent

\* The network header of an IPv4 packet is read where it was put,
LEMMA IPv4Arrives ==
  ASSUME FramesAreKnown, ReadInv, ReceivedIP(4)
  PROVE  /\ SentIPv4(frame, sent) /\ packet.network = analyze_ip(frame, Start(frame))
         /\ NetworkOctets(sent) = 20 /\ IPv4Seen(frame, Start(frame), sent)
  <1>1. Arrived /\ IsIP(sent) /\ sent.network.version = 4
    BY DEF ReceivedIP
  <1>2. AsSent(frame) /\ sent = frame.sent /\ nproto = EtherType(frame) /\ NetworkRead
    BY <1>1, ArrivedFacts
  <1>3. SentIPv4(frame, sent)
    BY <1>1, <1>2, IPv4IsSent
  <1>4. EtherType(frame) = ETHERTYPE_IP /\ IPv4Seen(frame, Start(frame), sent)
    BY <1>3 DEF SentIPv4
  <1>5. packet.network = analyze_ip(frame, Start(frame))
    BY <1>2, <1>4, NotOthers DEF NetworkRead
  <1> QED
    BY <1>1, <1>3, <1>4, <1>5, HeaderOctetsOf

\* and that of an IPv6 packet.
LEMMA IPv6Arrives ==
  ASSUME FramesAreKnown, ReadInv, Arrived, IsIP(sent), sent.network.version # 4
  PROVE  /\ SentIPv6(frame, sent) /\ packet.network = Ip6Fields(frame, Start(frame))
         /\ NetworkOctets(sent) = 40 /\ IPv6Seen(frame, Start(frame), sent)
  <1>1. Arrived /\ IsIP(sent) /\ sent.network.version # 4
    OBVIOUS
  <1>2. AsSent(frame) /\ sent = frame.sent /\ nproto = EtherType(frame) /\ NetworkRead
    BY <1>1, ArrivedFacts
  <1>3. SentIPv6(frame, sent)
    BY <1>1, <1>2, IPv6IsSent
  <1>4. EtherType(frame) = ETHERTYPE_IPV6 /\ IPv6Seen(frame, Start(frame), sent)
    BY <1>3 DEF SentIPv6
  <1>5. packet.network = Ip6Fields(frame, Start(frame))
    BY <1>2, <1>4, NotOthers DEF NetworkRead
  <1> QED
    BY <1>1, <1>3, <1>4, <1>5, HeaderOctetsOf

\* The transport header of an IP packet is read where it is.
LEMMA TransportArrives ==
  ASSUME FramesAreKnown, ReadInv, Arrived, IsIP(sent)
  PROVE  /\ sent.class = "TCPPacket" => Same(packet.transport, sent.transport, PortFields \cup TCPFields)
         /\ sent.class = "UDPPacket" =>
              /\ Same(packet.transport, sent.transport, PortFields)
              /\ packet.transport.length = UDPHDRLEN + Len(sent.data)
         /\ sent.class = "ICMPPacket" =>
              /\ Same(packet.transport, sent.transport, {"type", "code"})
              /\ sent.transport.type = ICMP_REDIRECT => packet.transport.redir_ip = sent.transport.redir_ip
              /\ ICMPOctets(frame, network_at + NetworkOctets(sent), sent.transport)
  <1> DEFINE h == NetworkOctets(sent)
             at == Start(frame) + h
             t == sent.transport
             r == packet.transport
  <1>1. /\ NetworkHeader(frame) = h /\ TransportSeen(frame, at, sent)
        /\ CarriedProtocol(frame) = ProtocolOf(sent)
        /\ InIPv4(sent) \/ InIPv6(sent)
    <2>1. CASE sent.network.version = 4
      <3>1. ReceivedIP(4)
        BY <2>1 DEF ReceivedIP
      <3>2. SentIPv4(frame, sent) /\ h = 20
        BY <3>1, IPv4Arrives
      <3> HIDE DEF h
      <3> QED
        BY <3>2 DEF SentIPv4
    <2>2. CASE sent.network.version # 4
      <3>1. SentIPv6(frame, sent) /\ h = 40
        BY <2>2, IPv6Arrives
      <3> HIDE DEF h
      <3> QED
        BY <3>1 DEF SentIPv6
    <2> QED
      BY <2>1, <2>2
  <1>2. Found(frame, tproto) /\ TransportRead
    BY ArrivedFacts
  <1>3. \A p \in TransportProtocols : ProtocolOf(sent) = p => tproto = p
    BY <1>1, <1>2 DEF Found, TransportProtocols
  <1>4. /\ sent.class = "TCPPacket" => tproto = IPPROTO_TCP
        /\ sent.class = "UDPPacket" => tproto = IPPROTO_UDP
        /\ sent.class = "ICMPPacket" => tproto = IPPROTO_ICMP
    BY <1>3, ProtocolOfClass DEF TransportProtocols
  <1>5. /\ tproto = IPPROTO_TCP => r = analyze_tcp(frame, at)
        /\ tproto = IPPROTO_UDP => r = analyze_udp(frame, at)
        /\ tproto = IPPROTO_ICMP =>
             /\ r.type = ToByte(OctetAt(frame, at)) /\ r.code = ToByte(OctetAt(frame, at + 1))
             /\ OctetAt(frame, at) = ICMP_REDIRECT => r.redir_ip = LongAt(frame, at + 4)
    <2>1. PICK x : x = Start(frame) + NetworkHeader(frame)
      OBVIOUS
    <2>2. /\ tproto = IPPROTO_TCP => r = analyze_tcp(frame, x)
          /\ tproto = IPPROTO_UDP => r = analyze_udp(frame, x)
          /\ tproto = IPPROTO_ICMP =>
               /\ r.type = ToByte(OctetAt(frame, x)) /\ r.code = ToByte(OctetAt(frame, x + 1))
               /\ OctetAt(frame, x) = ICMP_REDIRECT => r.redir_ip = LongAt(frame, x + 4)
      BY <1>2, <2>1, ProtocolsApart DEF TransportRead
    <2>3. x = at
      BY <1>1, <2>1
    <2> HIDE DEF at, r
    <2> QED
      BY ONLY <2>2, <2>3
  <1> HIDE DEF h, at, t, r
  <1>6. sent.class = "TCPPacket" => Same(r, t, PortFields \cup TCPFields)
    BY <1>1, <1>4, <1>5 DEF TransportSeen, t
  <1>7. sent.class = "UDPPacket" => Same(r, t, PortFields) /\ r.length = UDPHDRLEN + Len(sent.data)
    BY <1>1, <1>4, <1>5 DEF TransportSeen, t
  <1>8. sent.class = "ICMPPacket" =>
          /\ Same(r, t, {"type", "code"})
          /\ t.type = ICMP_REDIRECT => r.redir_ip = t.redir_ip
    <2>1. sent.class = "ICMPPacket" =>
            /\ r.type = t.type /\ r.code = t.code /\ OctetAt(frame, at) = t.type
            /\ OctetAt(frame, at) = ICMP_REDIRECT => r.redir_ip = LongAt(frame, at + 4)
            /\ t.type = ICMP_REDIRECT => LongAt(frame, at + 4) = t.redir_ip
      BY <1>1, <1>4, <1>5 DEF TransportSeen, ICMPOctets, t
    <2> QED
      BY <2>1, Zenon DEF Same
  <1>9. sent.class = "ICMPPacket" => ICMPOctets(frame, at, t)
    BY <1>1 DEF TransportSeen, t
  <1>10. network_at = Start(frame)
    BY DEF network_at, datalink_hlen, Start
  <1>11. /\ sent.class = "TCPPacket" => Same(r, t, PortFields \cup TCPFields)
         /\ sent.class = "UDPPacket" =>
              /\ Same(r, t, PortFields)
              /\ r.length = UDPHDRLEN + Len(sent.data)
         /\ sent.class = "ICMPPacket" =>
              /\ Same(r, t, {"type", "code"})
              /\ t.type = ICMP_REDIRECT => r.redir_ip = t.redir_ip
              /\ ICMPOctets(frame, network_at + h, t)
    <2>1. network_at + h = at
      BY <1>10 DEF at
    <2> QED
      BY <1>6, <1>7, <1>8, <1>9, <2>1
  <1> QED
    BY <1>11, Zenon DEF h, t, r

\* So the fields arrive.
LEMMA FieldsRight ==
  ASSUME FramesAreKnown, ReadInv PROVE FieldsArrive
  <1> SUFFICES ASSUME Arrived PROVE FieldsArrive
    BY Zenon DEF FieldsArrive
  <1>1. /\ AsSent(frame) /\ sent = frame.sent /\ packet.class = sent.class
        /\ nproto = EtherType(frame) /\ packet.datalink = analyze_datalink(frame, frame.link) /\ NetworkRead
    BY ArrivedFacts
  <1>2. frame.link = DLT_EN10MB => Same(packet.datalink, sent.datalink, DatalinkFields)
    BY <1>1, EtherTypeOfSent
  <1>3. ReceivedIP(4) =>
          /\ Same(packet.network, sent.network, IPFields) /\ Same(packet.network, sent.network, TosFields)
          /\ sent.network.ident \in Short => packet.network.ident = sent.network.ident
          /\ packet.network.protocol = ProtocolOf(sent) /\ IsIPv4(sent.network)
    <2> SUFFICES ASSUME ReceivedIP(4)
                 PROVE  /\ Same(packet.network, sent.network, IPFields) /\ Same(packet.network, sent.network, TosFields)
                        /\ sent.network.ident \in Short => packet.network.ident = sent.network.ident
                        /\ packet.network.protocol = ProtocolOf(sent) /\ IsIPv4(sent.network)
      OBVIOUS
    <2>1. packet.network = analyze_ip(frame, Start(frame)) /\ IPv4Seen(frame, Start(frame), sent)
      BY IPv4Arrives
    <2>2. IsIPv4(sent.network)
      BY IPv4Arrives, InIPv4Facts DEF SentIPv4
    <2>3. /\ Same(analyze_ip(frame, Start(frame)), sent.network, IPFields)
          /\ Same(analyze_ip(frame, Start(frame)), sent.network, TosFields)
          /\ analyze_ip(frame, Start(frame)).ident = ToShort(sent.network.ident)
          /\ analyze_ip(frame, Start(frame)).protocol = ProtocolOf(sent)
      BY <2>1 DEF IPv4Seen
    <2>4. sent.network.ident \in Short => ToShort(sent.network.ident) = sent.network.ident
      BY ShortsAreInt, ShortOf, ShortBack
    <2> QED
      BY <2>1, <2>2, <2>3, <2>4
  <1>4. IsIP(sent) /\ sent.network.version # 4 =>
          /\ Same(packet.network, sent.network, IPFields)
          /\ packet.network.protocol = ToByte(ProtocolOf(sent)) /\ IsIPv6(sent.network)
    <2> SUFFICES ASSUME IsIP(sent), sent.network.version # 4
                 PROVE  /\ Same(packet.network, sent.network, IPFields)
                        /\ packet.network.protocol = ToByte(ProtocolOf(sent)) /\ IsIPv6(sent.network)
      OBVIOUS
    <2>1. packet.network = Ip6Fields(frame, Start(frame)) /\ IPv6Seen(frame, Start(frame), sent)
      BY IPv6Arrives
    <2>2. IsIPv6(sent.network)
      BY IPv6Arrives, InIPv6Facts DEF SentIPv6
    <2>3. /\ Same(Ip6Fields(frame, Start(frame)), sent.network, IPFields)
          /\ Ip6Fields(frame, Start(frame)).protocol = ToByte(ProtocolOf(sent))
      BY <2>1 DEF IPv6Seen
    <2> QED
      BY <2>1, <2>2, <2>3
  <1>5. IsIP(sent) => Same(packet.network, sent.network, IPFields)
    BY <1>3, <1>4 DEF ReceivedIP
  <1>6. /\ ReceivedIP(4) => Same(packet.network, sent.network, TosFields)
        /\ ReceivedIP(4) /\ sent.network.ident \in Short => packet.network.ident = sent.network.ident
    BY <1>3
  <1>7. Received("IPPacket") =>
          packet.network.protocol =
            IF sent.network.version = 4 THEN sent.network.protocol ELSE ToByte(sent.network.protocol)
    <2> SUFFICES ASSUME sent.class = "IPPacket"
                 PROVE  packet.network.protocol =
                          IF sent.network.version = 4 THEN sent.network.protocol
                          ELSE ToByte(sent.network.protocol)
      BY DEF Received
    <2>1. IsIP(sent)
      BY DEF IsIP
    <2>2. CASE sent.network.version = 4
      <3>1. packet.network.protocol = ProtocolOf(sent) /\ IsIPv4(sent.network)
        BY <1>3, <2>1, <2>2 DEF ReceivedIP
      <3> QED
        BY <2>1, <2>2, <3>1, ProtocolSent
    <2>3. CASE sent.network.version # 4
      <3>1. packet.network.protocol = ToByte(ProtocolOf(sent)) /\ IsIPv6(sent.network)
        BY <1>4, <2>1, <2>3
      <3> QED
        BY <2>1, <2>3, <3>1, ProtocolSent
    <2> QED
      BY <2>2, <2>3
  <1>8. Received("ARPPacket") => Same(packet.network, sent.network, ARPFields)
    <2> SUFFICES ASSUME sent.class = "ARPPacket"
                 PROVE  Same(packet.network, sent.network, ARPFields)
      BY DEF Received
    <2>1. SentARP(frame, sent)
      BY <1>1, ARPIsSent
    <2>2. packet.network = analyze_arp(frame, Start(frame))
      BY <1>1, <2>1, NotOthers DEF NetworkRead, SentARP
    <2> QED
      BY <2>1, <2>2 DEF SentARP
  <1>9. /\ Received("TCPPacket") => Same(packet.transport, sent.transport, PortFields \cup TCPFields)
        /\ Received("UDPPacket") => Same(packet.transport, sent.transport, PortFields)
        /\ Received("ICMPPacket") =>
             Same(packet.transport, sent.transport,
                  {"type", "code"} \cup IF sent.transport.type = ICMP_REDIRECT THEN {"redir_ip"} ELSE {})
    <2>1. sent.class \in {"TCPPacket", "UDPPacket", "ICMPPacket"} => IsIP(sent)
      BY DEF IsIP
    <2>2. Received("ICMPPacket") =>
            /\ Same(packet.transport, sent.transport, {"type", "code"})
            /\ sent.transport.type = ICMP_REDIRECT => packet.transport.redir_ip = sent.transport.redir_ip
      BY <2>1, TransportArrives DEF Received
    <2>3. Received("ICMPPacket") =>
            Same(packet.transport, sent.transport,
                 {"type", "code"} \cup IF sent.transport.type = ICMP_REDIRECT THEN {"redir_ip"} ELSE {})
      BY <2>2 DEF Same
    <2> QED
      BY <2>1, <2>3, TransportArrives DEF Received
  <1> HIDE DEF Arrived
  <1>10. packet.class = sent.class
    BY <1>1
  <1> QED
    BY ONLY <1>2, <1>5, <1>6, <1>7, <1>8, <1>9, <1>10 DEF FieldsArrive

\* For every set of frames whose packets were sent by jpcap, and any others: a packet
\* object that was sent arrives with its class and with the fields that FieldsArrive
\* names, which are those of every layer but the ones the code reads otherwise than
\* it writes them.
THEOREM FieldsArriveHolds == ASSUME FramesAreKnown PROVE Spec => []FieldsArrive
  <1>1. ReadInv => FieldsArrive
    BY FieldsRight
  <1>2. Spec => []ReadInv
    BY KnownAreWellFormed, ReadAlways DEF ReadInv
  <1> QED
    BY <1>1, <1>2, PTL

\* Where SendReceive has the network header, and the decoder.
LEMMA NetworkAt == network_at = Start(frame)
  BY DEF network_at, datalink_hlen, Start

\* The fields that the decoder misreads are on the wire all the same.
LEMMA OctetsRight ==
  ASSUME FramesAreKnown, ReadInv PROVE OctetsOnWire
  <1>1. ReceivedIP(4) => IPv4Seen(frame, network_at, sent)
    BY IPv4Arrives, NetworkAt
  <1>2. ReceivedIP(6) => IPv6Seen(frame, network_at, sent)
    BY IPv6Arrives, NetworkAt DEF ReceivedIP
  <1>3. Received("ICMPPacket") => ICMPOctets(frame, transport_at, sent.transport)
    <2> SUFFICES ASSUME Arrived, sent.class = "ICMPPacket"
                 PROVE  ICMPOctets(frame, transport_at, sent.transport)
      BY DEF Received
    <2>1. IsIP(sent)
      BY DEF IsIP
    <2>2. ICMPOctets(frame, network_at + NetworkOctets(sent), sent.transport)
      BY <2>1, TransportArrives
    <2> QED
      BY <2>2, Zenon DEF transport_at
  <1>4. ReceivedIP(4) =>
          /\ WordAt(frame, network_at + 4) = ToUShort(sent.network.ident)
          /\ WordAt(frame, network_at + 6) \div 8192
               = Flag(sent.network.rsv_frag, 2) + Flag(sent.network.dont_frag, 1) + Flag(sent.network.more_frag, 0)
    BY <1>1 DEF IPv4Seen
  <1>5. ReceivedIP(6) =>
          /\ WordAt(frame, network_at) \div 16 = 6 * 256 + sent.network.priority
          /\ OctetAt(frame, network_at + 1) % 16 = sent.network.flow_label[2]
          /\ OctetsAt(frame, network_at + 2, 2) = SubSeq(sent.network.flow_label, 3, 4)
    BY <1>2 DEF IPv6Seen
  <1> QED
    BY ONLY <1>3, <1>4, <1>5 DEF OctetsOnWire

\* For every set of frames sent by jpcap: identification and fragment flags of IPv4,
\* class and flow label of IPv6, and the numbers, times and mask of an ICMP message are
\* on the wire as the standards have them, though the object received may not have them.
THEOREM OctetsOnWireHolds == ASSUME FramesAreKnown PROVE Spec => []OctetsOnWire
  <1>1. ReadInv => OctetsOnWire
    BY OctetsRight
  <1>2. Spec => []ReadInv
    BY KnownAreWellFormed, ReadAlways DEF ReadInv
  <1> QED
    BY <1>1, <1>2, PTL

-----------------------------------------------------------------------------
(* Data *)

\* Where the data of an object lies in its frame.
DataAt(f, p) == Lies(f.octets, Start(f) + HeaderOctets(p), p.data)

\* The data of an IP packet is behind its headers, at the end of the packet.
LEMMA DataOfIP ==
  ASSUME NEW f, NEW p, p = f.sent, AsSent(f), IsIP(p), KeepsData(p)
  PROVE  /\ DataAt(f, p) /\ Len(set_packet(p)) = HeaderOctets(p) + Len(p.data)
         /\ HeaderOctets(p) \in Nat
  <1> DEFINE s == set_packet(p)
             k == TransportOctets(p)
  <1>1. Sendable(p) /\ Lies(f.octets, Start(f), s)
    BY MadeOf, PacketLies
  <1>2. \E c : LET n == NetworkOctets(p)
               IN n \in {20, 40} /\ Len(s) = n + Len(c) /\ Lies(s, n, c) /\ HoldsData(c, k, p.data)
    <2>1. CASE p.network.version = 4
      <3>1. InIPv4(p) /\ s = IPv4Octets(p) /\ NetworkOctets(p) = 20
        BY <1>1, <2>1, SendableIP, SetPacket, HeaderOctetsOf
      <3>2. /\ Len(IPv4Octets(p)) = 20 + Len(IPv4Carried(p)) /\ Lies(IPv4Octets(p), 20, IPv4Carried(p))
            /\ HoldsData(IPv4Carried(p), k, p.data)
        BY <3>1, IPv4Layers
      <3> HIDE DEF s, k
      <3> WITNESS IPv4Carried(p)
      <3> QED
        BY <3>1, <3>2
    <2>2. CASE p.network.version # 4
      <3>1. InIPv6(p) /\ s = IPv6Octets(p) /\ NetworkOctets(p) = 40
        BY <1>1, <2>2, SendableIP, SetPacket, HeaderOctetsOf
      <3>2. /\ Len(IPv6Octets(p)) = 40 + Len(IPv6Carried(p)) /\ Lies(IPv6Octets(p), 40, IPv6Carried(p))
            /\ HoldsData(IPv6Carried(p), k, p.data)
        BY <3>1, IPv6Layers
      <3> HIDE DEF s, k
      <3> WITNESS IPv6Carried(p)
      <3> QED
        BY <3>1, <3>2
    <2> QED
      BY <2>1, <2>2
  <1> DEFINE n == NetworkOctets(p)
  <1>3. PICK c : n \in {20, 40} /\ Len(s) = n + Len(c) /\ Lies(s, n, c) /\ HoldsData(c, k, p.data)
    BY <1>2
  <1>4. HeaderOctets(p) = n + k
    BY HeaderOctetsOf
  <1>5. k \in {0, 8, 20}
    BY TransportOfClass
  <1>6. Start(f) \in {0, 14}
    BY MadeOf
  <1>7. Len(c) = k + Len(p.data) /\ Lies(c, k, p.data)
    BY <1>3 DEF HoldsData
  <1>8. Lies(f.octets, Start(f) + n, c)
    BY <1>1, <1>3, LiesWithin
  <1>9. Lies(f.octets, (Start(f) + n) + k, p.data)
    BY <1>7, <1>8, LiesWithin
  <1>10. Len(p.data) \in Nat
    BY <1>1, SendableFacts, PayloadLength
  <1> HIDE DEF s, k, n
  <1>11. (Start(f) + n) + k = Start(f) + HeaderOctets(p) /\ HeaderOctets(p) \in Nat
    BY <1>3, <1>4, <1>5, <1>6
  <1>12. n + Len(c) = HeaderOctets(p) + Len(p.data)
    <2>1. PICK l \in Int : l = Len(p.data)
      BY <1>10
    <2>2. n \in Int /\ k \in Int
      BY <1>3, <1>5
    <2>3. Len(c) = k + l
      BY <1>7, <2>1
    <2>4. HeaderOctets(p) = n + k
      BY <1>4
    <2>5. n \in Int
      BY <2>2
    <2>6. k \in Int
      BY <2>2
    <2>7. l \in Int
      BY <2>1
    <2>8. \A x : x = k + l => n + x = (n + k) + l
      BY <2>5, <2>6, <2>7
    <2>9. n + Len(c) = HeaderOctets(p) + l
      BY <2>3, <2>4, <2>8
    <2> QED
      BY <2>1, <2>9
  <1> QED
    BY <1>3, <1>9, <1>11, <1>12 DEF DataAt, s

\* The payload of a frame of an object that keeps its data is that data.
LEMMA PayloadOfSent ==
  ASSUME NEW f, NEW p, p = f.sent, AsSent(f), KeepsData(p) \/ (p.class = "Packet" /\ f.caplen > 60)
  PROVE  OctetsAt(f, f.payload.at, f.payload.len) = p.data
  <1> DEFINE h == HeaderOctets(p)
  <1>1. Made(f, p) /\ Start(f) \in {0, 14} /\ Sendable(p)
    BY MadeOf
  <1>2. f.payload.at = Start(f) + h /\ f.payload.len = PacketOctets(p, Captured(f)) - h
    BY <1>1 DEF Made, Captured
  <1>3. Len(p.data) \in Nat
    BY <1>1, SendableFacts, PayloadLength
  <1>4. DataAt(f, p) /\ PacketOctets(p, Captured(f)) = h + Len(p.data) /\ h \in Nat
    <2>1. CASE IsIP(p)
      <3>1. KeepsData(p)
        BY <2>1, ClassesApart
      <3>2. PacketOctets(p, Captured(f)) = Len(set_packet(p))
        BY <2>1, PacketOctetsOf
      <3> QED
        BY <2>1, <3>1, <3>2, DataOfIP
    <2>2. CASE ~IsIP(p)
      <3>1. p.class = "Packet" /\ f.caplen > 60
        BY <2>2 DEF KeepsData, IsIP
      <3>2. set_packet(p) = p.data /\ PacketOctets(p, Captured(f)) = Captured(f) /\ h = 0
        BY <3>1, SetPacket, PacketOctetsOf, HeaderOctetsOf
      <3>3. Captured(f) = Len(set_packet(p))
        BY <1>1, <3>1, MadeFacts
      <3>4. Lies(f.octets, Start(f), p.data)
        BY <1>1, <3>2, PacketLies
      <3>5. Start(f) = Start(f) + h
        BY <1>1, <3>2
      <3> HIDE DEF h
      <3>6. Lies(f.octets, Start(f) + h, p.data)
        BY <3>4, <3>5
      <3>7. Captured(f) = h + Len(p.data)
        BY <1>3, <3>2, <3>3
      <3> QED
        BY <3>2, <3>6, <3>7 DEF DataAt, h
    <2> QED
      BY <2>1, <2>2
  <1> HIDE DEF h
  <1>5. f.payload.len = Len(p.data)
    BY <1>2, <1>3, <1>4
  <1>6. Lies(f.octets, Start(f) + h, p.data)
    BY <1>4 DEF DataAt, h
  <1> QED
    BY <1>2, <1>5, <1>6, OctetsLie

\* So the data and the lengths arrive.
LEMMA DataRight ==
  ASSUME FramesAreKnown, ReadInv PROVE DataArrives
  <1> SUFFICES ASSUME Arrived PROVE DataArrives
    BY Zenon DEF DataArrives, LengthsRight, ReceivedIP, Received
  <1>1. /\ AsSent(frame) /\ sent = frame.sent
        /\ packet.header = frame.payload.at /\ packet.data = frame.payload.len
    BY ArrivedFacts
  <1>2. HasData <=> KeepsData(sent) \/ (sent.class = "Packet" /\ frame.caplen > 60)
    BY DEF HasData, KeepsData, Echoes
  <1>3. HasData => OctetsAt(frame, packet.header, packet.data) = sent.data
    BY <1>1, <1>2, PayloadOfSent
  <1>4. ReceivedIP(4) /\ HasData =>
          WordAt(frame, network_at + 2) = packet.header - network_at + Len(sent.data)
    <2> SUFFICES ASSUME ReceivedIP(4), HasData
                 PROVE  WordAt(frame, network_at + 2) = packet.header - network_at + Len(sent.data)
      OBVIOUS
    <2>1. IsIP(sent) /\ sent.network.version = 4
      BY DEF ReceivedIP
    <2>2. KeepsData(sent)
      BY <1>2, <2>1, ClassesApart
    <2>3. SentIPv4(frame, sent) /\ IPv4Seen(frame, Start(frame), sent)
      BY IPv4Arrives
    <2>4. WordAt(frame, Start(frame) + 2) = Len(set_packet(sent))
      BY <2>3 DEF SentIPv4, IPv4Seen
    <2>5. Len(set_packet(sent)) = HeaderOctets(sent) + Len(sent.data) /\ HeaderOctets(sent) \in Nat
      BY <1>1, <2>1, <2>2, DataOfIP
    <2>6. packet.header = Start(frame) + HeaderOctets(sent) /\ Start(frame) \in {0, 14}
      <3>1. Made(frame, sent) /\ Start(frame) \in {0, 14}
        BY <1>1, MadeOf
      <3>2. frame.payload.at = Start(frame) + HeaderOctets(sent)
        BY <3>1 DEF Made
      <3> QED
        BY <1>1, <3>1, <3>2
    <2> QED
      BY <2>4, <2>5, <2>6, NetworkAt
  <1>5. Received("UDPPacket") => packet.transport.length = UDPHDRLEN + Len(sent.data)
    <2>1. sent.class = "UDPPacket" => IsIP(sent)
      BY DEF IsIP
    <2> QED
      BY <2>1, TransportArrives DEF Received
  <1> QED
    BY <1>3, <1>4, <1>5, Zenon DEF DataArrives, LengthsRight

\* For every set of frames sent by jpcap: the lengths in the headers are right, and the
\* data of the object received is that of the object sent, without the trailer.
THEOREM DataArrivesHolds == ASSUME FramesAreKnown PROVE Spec => []DataArrives
  <1>1. ReadInv => DataArrives
    BY DataRight
  <1>2. Spec => []ReadInv
    BY KnownAreWellFormed, ReadAlways DEF ReadInv
  <1> QED
    BY <1>1, <1>2, PTL

-----------------------------------------------------------------------------
(* Sums of octets *)

\* The words of octets as they lie in memory, the last one filled up with 0, and
\* their sum.
WordsIn(o) == (Len(o) + 1) \div 2
HostWords(o) == [i \in 1..WordsIn(o) |-> NetShort(NetWords(o)[i])]
Total(o) == SumOf(HostWords(o))[WordsIn(o)]

\* How many words there are in octets, an odd one included.
LEMMA WordCount ==
  ASSUME NEW o, IsOctets(o)
  PROVE  /\ Len(o) \in Nat /\ WordsIn(o) \in Nat /\ Len(o) \div 2 \in Nat
         /\ Len(o) % 2 = 0 => Len(o) = 2 * WordsIn(o) /\ Len(o) \div 2 = WordsIn(o)
         /\ Len(o) % 2 # 0 => Len(o) = 2 * WordsIn(o) - 1 /\ Len(o) \div 2 + 1 = WordsIn(o) /\ Len(o) % 2 = 1
  <1>1. Len(o) \in Nat
    BY DEF IsOctets
  <1>2. PICK n \in Nat : n = Len(o)
    BY <1>1
  <1>3. /\ (n + 1) \div 2 \in Nat /\ n \div 2 \in Nat
        /\ n % 2 = 0 => n = 2 * ((n + 1) \div 2) /\ n \div 2 = (n + 1) \div 2
        /\ n % 2 # 0 => n = 2 * ((n + 1) \div 2) - 1 /\ n \div 2 + 1 = (n + 1) \div 2 /\ n % 2 = 1
    OBVIOUS
  <1> QED
    BY <1>2, <1>3 DEF WordsIn

\* The words of octets, in the order of the network and of the host.
LEMMA NetWordIs ==
  ASSUME NEW o, IsOctets(o), NEW i \in 1..WordsIn(o)
  PROVE  /\ 2 * i - 1 \in 1..Len(o)
         /\ NetWords(o)[i] = o[2 * i - 1] * 256 + (IF 2 * i <= Len(o) THEN o[2 * i] ELSE 0)
         /\ HostWords(o)[i] = NetShort(NetWords(o)[i])
         /\ IsWord(NetWords(o)[i]) /\ IsWord(HostWords(o)[i])
  <1>1. PICK n \in Nat : n = Len(o)
    BY WordCount
  <1>2. i \in 1..((n + 1) \div 2)
    BY <1>1 DEF WordsIn
  <1>3. 2 * i - 1 \in 1..n /\ (2 * i <= n => 2 * i \in 1..n)
    BY <1>2
  <1>4. o[2 * i - 1] \in Octet /\ (2 * i <= Len(o) => o[2 * i] \in Octet)
    BY <1>1, <1>3 DEF IsOctets
  <1>5. NetWords(o)[i] = o[2 * i - 1] * 256 + (IF 2 * i <= Len(o) THEN o[2 * i] ELSE 0)
    BY DEF NetWords, WordsIn
  <1>6. PICK a, b : a = o[2 * i - 1] /\ b = (IF 2 * i <= Len(o) THEN o[2 * i] ELSE 0)
    OBVIOUS
  <1>7. a \in Int /\ 0 <= a /\ a <= 255 /\ b \in Int /\ 0 <= b /\ b <= 255
    BY <1>4, <1>6, OctetIsInt
  <1>8. IsWord(NetWords(o)[i])
    <2>1. NetWords(o)[i] = a * 256 + b
      BY <1>5, <1>6, Zenon
    <2> QED
      BY ONLY <2>1, <1>7 DEF IsWord
  <1>9. HostWords(o)[i] = NetShort(NetWords(o)[i])
    BY DEF HostWords
  <1>10. IsWord(HostWords(o)[i])
    BY <1>8, <1>9, NetShortType
  <1> QED
    BY <1>1, <1>3, <1>5, <1>8, <1>9, <1>10

\* They are words of 16 bits.
LEMMA AreAllWords ==
  ASSUME NEW o, IsOctets(o)
  PROVE  AreWords(NetWords(o), WordsIn(o)) /\ AreWords(HostWords(o), WordsIn(o))
  <1>1. \A i \in 1..WordsIn(o) : IsWord(NetWords(o)[i]) /\ IsWord(HostWords(o)[i])
    BY NetWordIs
  <1> QED
    BY ONLY <1>1 DEF AreWords, IsWord

\* Their sum needs no more than 16 bits for each.
LEMMA TotalType ==
  ASSUME NEW o, IsOctets(o)
  PROVE  Total(o) \in Int /\ 0 <= Total(o) /\ Total(o) <= 65535 * WordsIn(o)
  BY AreAllWords, WordCount, SumType DEF Total

\* A sum that is nothing in one order of octets is nothing in the other.
LEMMA TotalSumsUp ==
  ASSUME NEW o, IsOctets(o), Alike(Total(o), 0)
  PROVE  SumsUp(o)
  <1> DEFINE w == HostWords(o)
             v == NetWords(o)
  <1>1. PICK n \in Nat : n = WordsIn(o)
    BY WordCount
  <1>2. AreWords(w, n) /\ AreWords(v, n)
    BY <1>1, AreAllWords
  <1>3. \A i \in 1..n : w[i] = NetShort(v[i]) /\ NetShort(w[i]) = v[i]
    BY <1>1, NetWordIs, NetShortType
  <1>4. Total(o) = SumOf(w)[n] /\ Total(o) \in Int
    BY <1>1, TotalType DEF Total
  <1>5. SumsUp(o) <=> SumOf(v)[n] % 65535 = 0
    BY <1>1 DEF SumsUp, WordsIn
  <1> HIDE DEF w, v
  <1>6. SumOf(v)[n] \in Int /\ SumOf(w)[n] \in Int
    BY <1>2, SumType
  <1>7. Alike(SumOf(v)[n], 0)
    <2>1. CASE LittleEndian
      <3>1. \A i \in 1..n : v[i] = Swap(w[i])
        BY <1>3, <2>1 DEF NetShort
      <3>2. Alike(256 * SumOf(w)[n], SumOf(v)[n])
        BY <1>2, <3>1, SumSwapped
      <3>3. Alike(256 * SumOf(w)[n], 256 * 0)
        BY <1>4, <1>6, AlikeTimes
      <3>4. PICK k \in Int : k = 256 * SumOf(w)[n]
        BY <1>6
      <3>5. Alike(SumOf(v)[n], k)
        BY <1>6, <3>2, <3>4, AlikeSymmetric
      <3>6. Alike(k, 0)
        BY <3>3, <3>4
      <3> QED
        BY <1>6, <3>4, <3>5, <3>6, AlikeTransitive
    <2>2. CASE ~LittleEndian
      <3>1. \A i \in 1..n : v[i] = w[i]
        BY <1>3, <2>2 DEF NetShort
      <3>2. SumOf(v)[n] = SumOf(w)[n]
        BY <3>1, SumSame
      <3> QED
        BY <1>4, <3>2
    <2> QED
      BY <2>1, <2>2
  <1> QED
    BY <1>5, <1>6, <1>7, AlikeNothing

-----------------------------------------------------------------------------
\* A word that lies in memory, and the sum of such words.
LEMMA WordInMemory ==
  ASSUME NEW h, NEW at, NEW o, Lies(h, at, o), IsOctets(o), NEW i \in 1..WordsIn(o), 2 * i <= Len(o)
  PROVE  HostWords(o)[i] = HostWordAt(Buffer(h), at + 2 * (i - 1))
  <1> DEFINE pos == at + 2 * (i - 1)
  <1>1. Len(o) \in Nat /\ WordsIn(o) \in Nat /\ at \in Nat
    BY WordCount, LiesAt
  <1>2. 2 * i - 1 \in 1..Len(o) /\ 2 * i \in 1..Len(o)
    BY <1>1
  <1>3. pos = at + (2 * i - 1) - 1 /\ pos + 1 = at + 2 * i - 1
    BY <1>1
  <1>4. Lies(Buffer(h).octets, at, o)
    BY DEF Buffer
  <1> HIDE DEF pos
  <1>5. OctetAt(Buffer(h), pos) = o[2 * i - 1] /\ OctetAt(Buffer(h), pos + 1) = o[2 * i]
    BY <1>2, <1>3, <1>4, OctetLies
  <1>6. NetWords(o)[i] = o[2 * i - 1] * 256 + o[2 * i] /\ HostWords(o)[i] = NetShort(NetWords(o)[i])
    BY NetWordIs
  <1>7. HostWordAt(Buffer(h), pos) = NetShort(o[2 * i - 1] * 256 + o[2 * i])
    BY <1>5 DEF HostWordAt, WordAt
  <1> QED
    BY <1>6, <1>7 DEF pos

\* WordSum adds the words of the octets that lie in a buffer,
LEMMA SumInMemory ==
  ASSUME NEW h, NEW at, NEW o, Lies(h, at, o), IsOctets(o), NEW m \in Nat, m = Len(o) \div 2
  PROVE  WordSum(Buffer(h), at, m) = SumOf(HostWords(o))[m]
  <1> DEFINE w == HostWords(o)
             v == [i \in 1..m |-> HostWordAt(Buffer(h), at + 2 * (i - 1))]
  <1>1. Len(o) \in Nat /\ WordsIn(o) \in Nat
    BY WordCount
  <1>2. \A i \in 1..m : i \in 1..WordsIn(o) /\ 2 * i <= Len(o)
    BY <1>1 DEF WordsIn
  <1>3. \A i \in 1..m : v[i] = w[i]
    BY <1>2, WordInMemory
  <1>4. WordSum(Buffer(h), at, m) = SumOf(v)[m]
    BY DEF WordSum
  <1> HIDE DEF w, v
  <1>5. SumOf(v)[m] = SumOf(w)[m]
    BY <1>3, SumSame
  <1> QED
    BY <1>4, <1>5 DEF w

\* What is added for an odd last octet.
OddOctet(o) == IF Len(o) % 2 = 1 THEN NetShort(o[Len(o)] * 256) ELSE 0

\* which with the odd one is their sum.
LEMMA TotalInMemory ==
  ASSUME NEW o, IsOctets(o)
  PROVE  Total(o) = WordSum(Buffer(o), 0, Len(o) \div 2) + OddOctet(o)
  <1> DEFINE w == HostWords(o)
             m == Len(o) \div 2
  <1>1. Len(o) \in Nat /\ WordsIn(o) \in Nat /\ m \in Nat
    BY WordCount
  <1>2. o \in Seq(Int)
    BY OctetsAreInts
  <1>3. Lies(o, 0, o)
    BY <1>2, LiesWhole
  <1>4. WordSum(Buffer(o), 0, m) = SumOf(w)[m]
    BY <1>1, <1>3, SumInMemory
  <1>5. AreWords(w, WordsIn(o)) /\ Total(o) = SumOf(w)[WordsIn(o)]
    BY AreAllWords DEF Total
  <1>6. Len(o) % 2 # 0 => w[WordsIn(o)] = OddOctet(o)
    <2> SUFFICES ASSUME Len(o) % 2 # 0 PROVE w[WordsIn(o)] = OddOctet(o)
      OBVIOUS
    <2>1. Len(o) = 2 * WordsIn(o) - 1 /\ Len(o) % 2 = 1
      BY WordCount
    <2>2. PICK i \in 1..WordsIn(o) : i = WordsIn(o)
      BY <1>1, <2>1
    <2>3. 2 * i - 1 = Len(o) /\ ~(2 * i <= Len(o))
      BY <1>1, <2>1, <2>2
    <2>4. NetWords(o)[i] = o[Len(o)] * 256 + 0 /\ w[i] = NetShort(NetWords(o)[i]) /\ 2 * i - 1 \in 1..Len(o)
      BY <2>3, NetWordIs
    <2>5. o[Len(o)] \in Int
      BY <2>3, <2>4, OctetIsInt DEF IsOctets
    <2>6. o[Len(o)] * 256 + 0 = o[Len(o)] * 256
      BY <2>5
    <2> HIDE DEF w
    <2> QED
      BY <2>1, <2>2, <2>4, <2>6 DEF OddOctet
  <1> HIDE DEF w
  <1>7. CASE Len(o) % 2 = 0
    <2>1. WordsIn(o) = m
      BY <1>7, WordCount
    <2>2. OddOctet(o) = 0
      BY <1>7 DEF OddOctet
    <2>3. Total(o) \in Int
      BY TotalType
    <2> QED
      BY <1>4, <1>5, <2>1, <2>2, <2>3
  <1>8. CASE Len(o) % 2 # 0
    <2>1. WordsIn(o) = m + 1
      BY <1>8, WordCount
    <2>2. SumOf(w)[m + 1] = SumOf(w)[m] + w[m + 1]
      BY <1>1, SumFacts
    <2>3. w[m + 1] = OddOctet(o)
      BY <1>6, <1>8, <2>1
    <2>4. Total(o) = SumOf(w)[m + 1]
      BY <1>5, <2>1
    <2> QED
      BY ONLY <1>4, <2>2, <2>3, <2>4
  <1> QED
    BY <1>7, <1>8

\* No checksum is two octets that are 0.
LEMMA ZeroShort == NetShort(0) = 0 /\ HostWordOctets(0) = <<0, 0>>
  <1>1. NetShort(0) = 0
    BY DEF NetShort, Swap
  <1>2. 0 \div 256 = 0 /\ 0 % 256 = 0
    OBVIOUS
  <1> QED
    BY <1>1, <1>2 DEF HostWordOctets, WordOctets

\* The two octets of a word make the word.
LEMMA WordPut ==
  ASSUME NEW n, IsWord(n)
  PROVE  WordOctets(n)[1] * 256 + WordOctets(n)[2] = n
  <1>1. n \in Int /\ (n \div 256) * 256 + (n % 256) = n
    BY DEF IsWord
  <1>2. WordOctets(n)[1] = n \div 256 /\ WordOctets(n)[2] = n % 256
    BY DEF WordOctets
  <1> QED
    BY ONLY <1>1, <1>2

\* The word at a place where a word has been written.
LEMMA WordWritten ==
  ASSUME NEW o, IsOctets(o), NEW j \in Nat, NEW n, IsWord(n), Lies(o, 2 * j, WordOctets(n))
  PROVE  j + 1 \in 1..WordsIn(o) /\ NetWords(o)[j + 1] = n
  <1>1. Len(WordOctets(n)) = 2
    BY TwoOctets
  <1>2. 2 * j + 2 <= Len(o) /\ o[2 * j + 1] = WordOctets(n)[1] /\ o[2 * j + 2] = WordOctets(n)[2]
    BY <1>1 DEF Lies
  <1>3. Len(o) \in Nat
    BY WordCount
  <1>4. j + 1 \in 1..WordsIn(o)
    BY <1>2, <1>3 DEF WordsIn
  <1>5. PICK i \in 1..WordsIn(o) : i = j + 1
    BY <1>4
  <1>6. 2 * i - 1 = 2 * j + 1 /\ 2 * i = 2 * j + 2 /\ 2 * i <= Len(o)
    BY <1>2, <1>5
  <1>7. NetWords(o)[i] = o[2 * i - 1] * 256 + o[2 * i]
    BY <1>6, NetWordIs
  <1>8. NetWords(o)[i] = WordOctets(n)[1] * 256 + WordOctets(n)[2]
    BY <1>2, <1>6, <1>7
  <1> QED
    BY <1>4, <1>5, <1>8, WordPut

\* z is o with nothing where its checksum is, after 2 j octets.
IsBlank(z, o, j) ==
  /\ IsOctets(z) /\ Len(z) = Len(o) /\ j \in Nat /\ Lies(z, 2 * j, HostWordOctets(0))
  /\ \A i \in 1..Len(o) : i <= 2 * j \/ i > 2 * j + 2 => o[i] = z[i]

\* The checksum is one more word of the sum.
LEMMA SumFilled ==
  ASSUME NEW o, IsOctets(o), NEW z, NEW j, IsBlank(z, o, j), NEW sum, IsWord(sum),
         Lies(o, 2 * j, HostWordOctets(sum))
  PROVE  Total(o) = Total(z) + sum
  <1> DEFINE w == HostWords(o)
             v == HostWords(z)
  <1>1. IsOctets(z) /\ j \in Nat /\ Len(z) = Len(o) /\ Len(o) \in Nat
    BY WordCount DEF IsBlank
  <1>2. PICK n \in Nat : n = WordsIn(o)
    BY WordCount
  <1>3. WordsIn(z) = n
    BY <1>1, <1>2 DEF WordsIn
  <1>4. AreWords(w, n) /\ AreWords(v, n)
    BY <1>1, <1>2, <1>3, AreAllWords
  <1>5. \A i \in 1..n : i # j + 1 => w[i] = v[i]
    <2> SUFFICES ASSUME NEW i \in 1..n, i # j + 1 PROVE w[i] = v[i]
      OBVIOUS
    <2>1. 2 * i - 1 \in 1..Len(o)
      BY <1>2, NetWordIs
    <2>2. 2 * i - 1 <= 2 * j \/ 2 * i - 1 > 2 * j + 2
      BY <1>1
    <2>3. o[2 * i - 1] = z[2 * i - 1]
      BY <2>1, <2>2 DEF IsBlank
    <2>4. 2 * i <= Len(o) => o[2 * i] = z[2 * i]
      <3> SUFFICES ASSUME 2 * i <= Len(o) PROVE o[2 * i] = z[2 * i]
        OBVIOUS
      <3>1. 2 * i \in 1..Len(o) /\ (2 * i <= 2 * j \/ 2 * i > 2 * j + 2)
        BY <1>1
      <3> QED
        BY <3>1 DEF IsBlank
    <2>5. NetWords(o)[i] = o[2 * i - 1] * 256 + (IF 2 * i <= Len(o) THEN o[2 * i] ELSE 0)
      BY <1>2, NetWordIs
    <2>6. NetWords(z)[i] = z[2 * i - 1] * 256 + (IF 2 * i <= Len(z) THEN z[2 * i] ELSE 0)
      BY <1>1, <1>3, NetWordIs
    <2>7. w[i] = NetShort(NetWords(o)[i]) /\ v[i] = NetShort(NetWords(z)[i])
      BY <1>1, <1>2, <1>3, NetWordIs
    <2>8. NetWords(o)[i] = NetWords(z)[i]
      <3>1. Len(o) = Len(z)
        BY <1>1
      <3> QED
        BY ONLY <3>1, <2>3, <2>4, <2>5, <2>6, ZenonT(40)
    <2> QED
      BY <2>7, <2>8
  <1>6. j + 1 \in 1..n /\ w[j + 1] = sum
    <2>1. IsWord(NetShort(sum)) /\ NetShort(NetShort(sum)) = sum
      BY NetShortType
    <2>2. Lies(o, 2 * j, WordOctets(NetShort(sum)))
      BY DEF HostWordOctets
    <2>3. j + 1 \in 1..n /\ NetWords(o)[j + 1] = NetShort(sum)
      BY <1>1, <1>2, <2>1, <2>2, WordWritten
    <2> QED
      BY <1>2, <2>1, <2>3, NetWordIs
  <1>7. v[j + 1] = 0
    <2>1. Lies(z, 2 * j, WordOctets(0)) /\ IsWord(0)
      BY ZeroShort DEF IsBlank, HostWordOctets, IsWord
    <2>2. j + 1 \in 1..WordsIn(z) /\ NetWords(z)[j + 1] = 0
      BY <1>1, <2>1, WordWritten
    <2> QED
      BY <1>1, <2>2, NetWordIs, ZeroShort
  <1>8. Total(o) = SumOf(w)[n] /\ Total(z) = SumOf(v)[n]
    BY <1>2, <1>3 DEF Total
  <1>9. Total(z) \in Int /\ sum \in Int
    BY <1>1, TotalType DEF IsWord
  <1> HIDE DEF w, v
  <1>10. SumOf(w)[n] = SumOf(v)[n] + w[j + 1] - v[j + 1]
    BY <1>4, <1>5, <1>6, SumChanged
  <1> QED
    BY <1>6, <1>7, <1>8, <1>9, <1>10

-----------------------------------------------------------------------------
\* Sums of parts, the first of which is of whole words.
LEMMA TotalOfParts ==
  ASSUME NEW a, IsOctets(a), Len(a) % 2 = 0, NEW s, IsOctets(s)
  PROVE  Total(a \o s) = Total(a) + Total(s)
  <1> DEFINE o == a \o s
             u == HostWords(o)
  <1>1. IsOctets(o) /\ Len(o) = Len(a) + Len(s) /\ Lies(o, 0, a) /\ Lies(o, Len(a), s)
    BY TwoParts
  <1>2. PICK m \in Nat : m = WordsIn(a) /\ Len(a) = 2 * m
    BY WordCount
  <1>3. PICK k \in Nat : k = WordsIn(s)
    BY WordCount
  <1>4. Len(s) \in Nat
    BY WordCount
  <1> HIDE DEF o
  <1>5. WordsIn(o) = m + k
    <2>1. PICK l \in Nat : l = Len(s)
      BY <1>4
    <2>2. (2 * m + l + 1) \div 2 = m + ((l + 1) \div 2)
      OBVIOUS
    <2> QED
      BY <1>1, <1>2, <1>3, <2>1, <2>2 DEF WordsIn
  <1>6. \A i \in 1..Len(a) : o[i] = a[i]
    BY <1>1 DEF Lies
  <1>7. \A i \in 1..Len(s) : o[2 * m + i] = s[i]
    BY <1>1, <1>2 DEF Lies
  <1>8. \A i \in 1..m : u[i] = HostWords(a)[i]
    <2> SUFFICES ASSUME NEW i \in 1..m PROVE u[i] = HostWords(a)[i]
      OBVIOUS
    <2>1. 2 * i - 1 \in 1..Len(a) /\ 2 * i \in 1..Len(a) /\ 2 * i <= Len(a) /\ 2 * i <= Len(o)
      BY <1>1, <1>2, <1>4
    <2>2. i \in 1..WordsIn(o) /\ i \in 1..WordsIn(a)
      BY <1>2, <1>3, <1>5
    <2>3. NetWords(o)[i] = o[2 * i - 1] * 256 + o[2 * i] /\ u[i] = NetShort(NetWords(o)[i])
      BY <1>1, <2>1, <2>2, NetWordIs
    <2>4. NetWords(a)[i] = a[2 * i - 1] * 256 + a[2 * i] /\ HostWords(a)[i] = NetShort(NetWords(a)[i])
      BY <1>1, <2>1, <2>2, NetWordIs
    <2>5. o[2 * i - 1] = a[2 * i - 1] /\ o[2 * i] = a[2 * i]
      BY <1>6, <2>1
    <2> QED
      BY ONLY <2>3, <2>4, <2>5
  <1>9. \A i \in 1..k : u[m + i] = HostWords(s)[i]
    <2> SUFFICES ASSUME NEW i \in 1..k PROVE u[m + i] = HostWords(s)[i]
      OBVIOUS
    <2>1. 2 * i - 1 \in 1..Len(s)
      BY <1>3, NetWordIs
    <2>2. PICK j \in 1..WordsIn(o) : j = m + i
      BY <1>2, <1>3, <1>5
    <2>3. 2 * j - 1 = 2 * m + (2 * i - 1) /\ 2 * j = 2 * m + 2 * i
      BY <2>2
    <2>4. NetWords(o)[j] = o[2 * j - 1] * 256 + (IF 2 * j <= Len(o) THEN o[2 * j] ELSE 0)
      BY <1>1, NetWordIs
    <2>5. NetWords(s)[i] = s[2 * i - 1] * 256 + (IF 2 * i <= Len(s) THEN s[2 * i] ELSE 0)
      BY <1>3, NetWordIs
    <2>6. u[j] = NetShort(NetWords(o)[j]) /\ HostWords(s)[i] = NetShort(NetWords(s)[i])
      BY <1>1, <1>3, NetWordIs
    <2>7. o[2 * j - 1] = s[2 * i - 1]
      BY <1>7, <2>1, <2>3
    <2>8. 2 * j <= Len(o) <=> 2 * i <= Len(s)
      <3>1. PICK l \in Nat : l = Len(s)
        BY <1>4
      <3>2. Len(o) = 2 * m + l
        BY <1>1, <1>2, <3>1
      <3>3. 2 * m + 2 * i <= 2 * m + l <=> 2 * i <= l
        OBVIOUS
      <3> QED
        BY <2>3, <3>1, <3>2, <3>3
    <2>9. 2 * i <= Len(s) => o[2 * j] = s[2 * i]
      <3> SUFFICES ASSUME 2 * i <= Len(s) PROVE o[2 * j] = s[2 * i]
        OBVIOUS
      <3>1. 2 * i \in 1..Len(s)
        BY <1>4
      <3> QED
        BY <1>7, <2>3, <3>1
    <2>10. NetWords(o)[j] = NetWords(s)[i]
      BY ONLY <2>4, <2>5, <2>7, <2>8, <2>9, ZenonT(40)
    <2> QED
      BY <2>2, <2>6, <2>10
  <1>10. AreWords(u, m + k) /\ Total(o) = SumOf(u)[m + k]
    BY <1>1, <1>5, AreAllWords DEF Total
  <1> HIDE DEF u
  <1>11. SumOf(u)[m + k] = SumOf(u)[m] + SumOf(HostWords(s))[k]
    <2> DEFINE v == HostWords(s)
    <2>1. IsSecondPart(u, v, m, k)
      BY <1>9 DEF IsSecondPart
    <2> HIDE DEF v
    <2>2. m \in Nat /\ k \in Nat
      BY <1>2, <1>3
    <2>3. AreWords(u, m + k)
      BY <1>10
    <2>4. SumOf(u)[m + k] = SumOf(u)[m] + SumOf(v)[k]
      BY ONLY <2>1, <2>2, <2>3, SumOfParts
    <2> QED
      BY <2>4 DEF v
  <1>12. SumOf(u)[m] = SumOf(HostWords(a))[m]
    BY <1>8, SumSame
  <1> QED
    BY <1>2, <1>3, <1>10, <1>11, <1>12 DEF Total, o

\* The sum of a word.
LEMMA TotalOfWord ==
  ASSUME NEW n, IsWord(n)
  PROVE  Total(WordOctets(n)) = NetShort(n)
  <1> DEFINE o == WordOctets(n)
  <1>1. IsOctets(o) /\ Len(o) = 2
    BY TwoOctets
  <1>2. WordsIn(o) = 1
    BY <1>1 DEF WordsIn
  <1>3. o \in Seq(Int)
    BY <1>1, OctetsAreInts
  <1>4. Lies(o, 2 * 0, WordOctets(n))
    BY <1>3, LiesWhole
  <1> HIDE DEF o
  <1>5. NetWords(o)[0 + 1] = n /\ 0 + 1 \in 1..WordsIn(o)
    BY <1>1, <1>4, WordWritten
  <1>6. HostWords(o)[1] = NetShort(n)
    BY <1>1, <1>5, NetWordIs
  <1>7. SumOf(HostWords(o))[0 + 1] = SumOf(HostWords(o))[0] + HostWords(o)[0 + 1] /\ SumOf(HostWords(o))[0] = 0
    BY SumFacts
  <1>8. NetShort(n) \in Int
    BY NetShortType DEF IsWord
  <1> QED
    BY <1>2, <1>6, <1>7, <1>8 DEF Total, o

-----------------------------------------------------------------------------
(* The checksums are the complements of these sums *)

\* Octets that lie one behind the other lie there together.
LEMMA LiesJoined ==
  ASSUME NEW o, NEW at, NEW s, NEW t, Lies(o, at, s), Lies(o, at + Len(s), t)
  PROVE  Lies(o, at, s \o t)
  <1>1. s \in Seq(Int) /\ t \in Seq(Int) /\ o \in Seq(Int) /\ at \in Nat
    BY DEF Lies
  <1>2. /\ s \o t \in Seq(Int) /\ Len(s \o t) = Len(s) + Len(t)
        /\ \A i \in 1..(Len(s) + Len(t)) : (s \o t)[i] = IF i <= Len(s) THEN s[i] ELSE t[i - Len(s)]
    BY <1>1
  <1>3. PICK m \in Nat, n \in Nat : m = Len(s) /\ n = Len(t)
    BY <1>1
  <1>4. at + m + n <= Len(o) /\ (\A i \in 1..m : o[at + i] = s[i]) /\ (\A i \in 1..n : o[at + m + i] = t[i])
    BY <1>3 DEF Lies
  <1>5. ASSUME NEW i \in 1..(m + n) PROVE o[at + i] = (s \o t)[i]
    <2>1. CASE i <= m
      BY <1>2, <1>3, <1>4, <2>1
    <2>2. CASE i > m
      <3>1. i - m \in 1..n /\ at + m + (i - m) = at + i /\ ~(i <= m)
        BY <1>1, <1>3, <2>2
      <3> QED
        BY <1>2, <1>3, <1>4, <3>1
    <2> QED
      BY <1>3, <2>1, <2>2
  <1>6. at + (m + n) <= Len(o)
    BY <1>1, <1>3, <1>4
  <1> QED
    BY <1>1, <1>2, <1>3, <1>5, <1>6 DEF Lies

\* The pseudo header of a segment of len octets, and its sum.
Pseudo(src, dst, protocol, len) == src \o dst \o <<0, protocol>> \o WordOctets(len)

\* An octet as a word.
LEMMA OctetAsWord ==
  ASSUME NEW k \in Octet
  PROVE  WordOctets(k) = <<0, k>> /\ IsWord(k)
  <1>1. k \div 256 = 0 /\ k % 256 = k
    BY DEF Octet
  <1> QED
    BY <1>1, OctetIsWord DEF WordOctets

\* What in_cksum2 adds for the pseudo header is its sum.
LEMMA PseudoTotal ==
  ASSUME NEW src \in OctetSeq(4), NEW dst \in OctetSeq(4), NEW protocol \in Octet, NEW len, IsWord(len),
         NEW h, Lies(h, 12, src), Lies(h, 16, dst)
  PROVE  LET q == Pseudo(src, dst, protocol, len)
         IN /\ IsOctets(q) /\ Len(q) = 12
            /\ Total(q) = WordSum(Buffer(h), 12, 4) + NetShort(protocol) + NetShort(len)
  <1> DEFINE a == src \o dst
             b == a \o <<0, protocol>>
             q == b \o WordOctets(len)
  <1>1. IsOctets(src) /\ Len(src) = 4 /\ IsOctets(dst) /\ Len(dst) = 4
    BY OctetSeqs
  <1>2. IsOctets(a) /\ Len(a) = 8
    <2>1. IsOctets(a) /\ Len(a) = Len(src) + Len(dst)
      BY <1>1, TwoParts
    <2> QED
      BY <1>1, <2>1
  <1>3. Lies(h, 12, a)
    <2>1. Lies(h, 12 + Len(src), dst)
      BY <1>1
    <2> QED
      BY <2>1, LiesJoined
  <1>4. Total(a) = WordSum(Buffer(h), 12, 4)
    <2>1. WordsIn(a) = 4 /\ 4 = Len(a) \div 2
      BY <1>2 DEF WordsIn
    <2> HIDE DEF a
    <2>2. WordSum(Buffer(h), 12, 4) = SumOf(HostWords(a))[4]
      <3>1. PICK m \in Nat : m = 4
        OBVIOUS
      <3>2. WordSum(Buffer(h), 12, m) = SumOf(HostWords(a))[m]
        BY <1>2, <1>3, <2>1, <3>1, SumInMemory
      <3> QED
        BY <3>1, <3>2
    <2> QED
      BY <2>1, <2>2 DEF Total
  <1> HIDE DEF a
  <1>5. /\ WordOctets(protocol) = <<0, protocol>> /\ IsWord(protocol)
        /\ IsOctets(<<0, protocol>>) /\ Len(<<0, protocol>>) = 2
    <2>1. WordOctets(protocol) = <<0, protocol>> /\ IsWord(protocol)
      BY OctetAsWord
    <2> QED
      BY <2>1, TwoOctets
  <1>6. IsOctets(b) /\ Len(b) = 10 /\ Total(b) = Total(a) + NetShort(protocol)
    <2>1. Total(<<0, protocol>>) = NetShort(protocol)
      BY <1>5, TotalOfWord
    <2>2. Len(a) % 2 = 0
      BY <1>2
    <2>3. PICK s : s = <<0, protocol>>
      OBVIOUS
    <2>4. IsOctets(s) /\ Len(s) = 2 /\ b = a \o s
      BY <1>5, <2>3
    <2>5. IsOctets(a \o s) /\ Len(a \o s) = Len(a) + Len(s) /\ Total(a \o s) = Total(a) + Total(s)
      BY <1>2, <2>2, <2>4, TwoParts, TotalOfParts
    <2> QED
      BY <1>2, <2>1, <2>3, <2>4, <2>5
  <1> HIDE DEF b
  <1>7. IsOctets(q) /\ Len(q) = 12 /\ Total(q) = Total(b) + NetShort(len)
    <2>1. Total(WordOctets(len)) = NetShort(len)
      BY TotalOfWord
    <2>2. Len(b) % 2 = 0
      BY <1>6
    <2>3. PICK s : s = WordOctets(len)
      OBVIOUS
    <2>4. IsOctets(s) /\ Len(s) = 2 /\ q = b \o s
      BY <2>3, TwoOctets
    <2>5. IsOctets(b \o s) /\ Len(b \o s) = Len(b) + Len(s) /\ Total(b \o s) = Total(b) + Total(s)
      BY <1>6, <2>2, <2>4, TwoParts, TotalOfParts
    <2> QED
      BY <1>6, <2>1, <2>3, <2>4, <2>5
  <1>8. q = Pseudo(src, dst, protocol, len)
    BY DEF a, b, Pseudo
  <1> HIDE DEF q
  <1>9. Total(q) = WordSum(Buffer(h), 12, 4) + NetShort(protocol) + NetShort(len)
    BY <1>4, <1>6, <1>7
  <1> QED
    BY <1>7, <1>8, <1>9

\* The half of an odd last word that is added.
LEMMA HalfWords ==
  ASSUME NEW k \in Octet
  PROVE  /\ LittleEndian => NetShort(k * 256) = k
         /\ ~LittleEndian => NetShort(k * 256) = k * 256
  <1>1. k \in Int /\ 0 <= k /\ k <= 255
    BY OctetIsInt
  <1>2. (k * 256) % 256 = 0 /\ (k * 256) \div 256 = k
    BY <1>1
  <1> QED
    BY <1>1, <1>2 DEF NetShort, Swap

\* The last of an odd number of octets.
LEMMA LastOctet ==
  ASSUME NEW z, IsOctets(z), Len(z) % 2 = 1
  PROVE  z[Len(z)] \in Octet
  <1>1. Len(z) \in 1..Len(z)
    BY WordCount
  <1> QED
    BY <1>1 DEF IsOctets

\* TCP and UDP: an odd octet is added as a host of the byte order of x86 has it.
LEMMA Cksum2Is ==
  ASSUME NEW h, NEW len, NEW z, IsOctets(z), Len(z) % 2 = 0 \/ LittleEndian, NEW total,
         total = WordSum(Buffer(h), 12, 4) + NetShort(OctetAt(Buffer(h), 9)) + NetShort(len), total \in Int
  PROVE  in_cksum2(Buffer(h), len, Buffer(z)) = Complement(total + Total(z))
  <1>1. Buffer(z).octets = z
    BY DEF Buffer
  <1>2. PICK m, e : m = WordSum(Buffer(z), 0, Len(z) \div 2) /\ e = (IF Len(z) % 2 = 1 THEN z[Len(z)] ELSE 0)
    OBVIOUS
  <1>3. in_cksum2(Buffer(h), len, Buffer(z)) = Complement(total + m + e)
    BY <1>1, <1>2 DEF in_cksum2
  <1>4. e = OddOctet(z) /\ e \in Int
    <2>1. CASE Len(z) % 2 = 1
      <3>1. LittleEndian
        BY <2>1
      <3>2. z[Len(z)] \in Octet
        BY <2>1, LastOctet
      <3>3. NetShort(z[Len(z)] * 256) = z[Len(z)]
        BY <3>1, <3>2, HalfWords
      <3> QED
        BY <1>2, <2>1, <3>2, <3>3, OctetIsInt DEF OddOctet
    <2>2. CASE Len(z) % 2 # 1
      BY <1>2, <2>2 DEF OddOctet
    <2> QED
      BY <2>1, <2>2
  <1>5. m \in Int
    <2>1. PICK k \in Nat : k = Len(z) \div 2
      BY WordCount
    <2>2. IsSum(WordSum(Buffer(z), 0, k), k)
      <3>1. 0 \in Int
        OBVIOUS
      <3> QED
        BY <2>1, <3>1, WordSumType, Zenon
    <2> QED
      BY <1>2, <2>1, <2>2 DEF IsSum
  <1>6. Total(z) = m + e
    BY <1>2, <1>4, TotalInMemory
  <1>7. total + m + e = total + (m + e)
    BY <1>4, <1>5
  <1> QED
    BY <1>3, <1>6, <1>7

\* ICMP and IPv4: it is added as a host of the other byte order has it.
LEMMA CksumIs ==
  ASSUME NEW z, IsOctets(z), Len(z) % 2 = 0 \/ ~LittleEndian
  PROVE  in_cksum(Buffer(z), 0, Len(z)) = Complement(Total(z))
  <1>1. PICK m, e : /\ m = WordSum(Buffer(z), 0, Len(z) \div 2)
                    /\ e = (IF Len(z) % 2 = 1 THEN (HostWordAt(Buffer(z), 0 + Len(z) - 1) \div 256) * 256 ELSE 0)
    OBVIOUS
  <1>2. in_cksum(Buffer(z), 0, Len(z)) = Complement(m + e)
    BY <1>1 DEF in_cksum
  <1>3. e = OddOctet(z)
    <2>1. CASE Len(z) % 2 = 1
      <3>1. ~LittleEndian
        BY <2>1
      <3>2. z[Len(z)] \in Octet
        BY <2>1, LastOctet
      <3>3. NetShort(z[Len(z)] * 256) = z[Len(z)] * 256
        BY <3>1, <3>2, HalfWords
      <3>4. PICK n \in Nat : n = Len(z)
        BY WordCount
      <3>5. n \in 1..Len(z) /\ (0 + n - 1) + 1 = n /\ ((0 + n - 1) + 1) + 1 \notin 1..Len(z)
        BY <2>1, <3>4
      <3>6. OctetAt(Buffer(z), 0 + n - 1) = z[n] /\ OctetAt(Buffer(z), (0 + n - 1) + 1) = Stale
        <4>1. Buffer(z).octets = z /\ Buffer(z).beyond = Stale
          BY DEF Buffer
        <4> QED
          BY <3>5, <4>1 DEF OctetAt
      <3>7. HostWordAt(Buffer(z), 0 + n - 1) = z[n] * 256 + Stale
        BY <3>1, <3>6 DEF HostWordAt, WordAt, NetShort
      <3>8. Stale \in Int /\ 0 <= Stale /\ Stale <= 255 /\ z[n] \in Int
        BY <3>2, <3>4, StaleOctet, OctetIsInt
      <3>9. (z[n] * 256 + Stale) \div 256 = z[n]
        BY <3>8
      <3> QED
        BY <1>1, <2>1, <3>3, <3>4, <3>7, <3>9 DEF OddOctet
    <2>2. CASE Len(z) % 2 # 1
      BY <1>1, <2>2 DEF OddOctet
    <2> QED
      BY <2>1, <2>2
  <1>4. Total(z) = m + e
    BY <1>1, <1>3, TotalInMemory
  <1> QED
    BY <1>2, <1>4

-----------------------------------------------------------------------------
(* A sum with the right checksum in it *)

\* The sum c that completes n, or what is sent for it in UDP.
Completes(sum, n) == sum = Complement(n) \/ (Complement(n) = 0 /\ sum = 65535)

\* A sum is alike with 0 once its complement is added.
LEMMA CompleteSum ==
  ASSUME NEW n \in Int, 0 <= n, n <= 2147483647, NEW sum, Completes(sum, n)
  PROVE  sum \in Int /\ Alike(n + sum, 0)
  <1>1. Complement(n) \in Int /\ Alike(n + Complement(n), 0)
    BY ComplementAdds
  <1>2. CASE sum = Complement(n)
    BY <1>1, <1>2
  <1>3. CASE Complement(n) = 0 /\ sum = 65535
    <2>1. (n + 0 - 0) % 65535 = 0
      BY <1>1, <1>3 DEF Alike
    <2>2. (n + 65535 - 0) % 65535 = 0
      BY <2>1
    <2> QED
      BY <1>3, <2>2 DEF Alike
  <1> QED
    BY <1>2, <1>3 DEF Completes

\* Octets o that have been given the sum that completes q in front of them and z,
\* which are o without it.
LEMMA CompletedSumsUp ==
  ASSUME NEW q, IsOctets(q), Len(q) = 12, NEW o, IsOctets(o), Len(o) <= 2000, NEW z, NEW j, IsBlank(z, o, j),
         NEW sum, IsWord(sum), Lies(o, 2 * j, HostWordOctets(sum)), Completes(sum, Total(q) + Total(z))
  PROVE  SumsUp(q \o o)
  <1>1. Total(o) = Total(z) + sum
    BY SumFilled
  <1>2. IsOctets(z) /\ Len(z) = Len(o) /\ Len(o) \in Nat
    BY WordCount DEF IsBlank
  <1>3. WordsIn(q) <= 1001 /\ WordsIn(z) <= 1001 /\ WordsIn(q) \in Nat /\ WordsIn(z) \in Nat
    BY <1>2 DEF WordsIn
  <1>4. PICK a \in Int, b \in Int : a = Total(q) /\ b = Total(z) /\ 0 <= a /\ 0 <= b
                                    /\ a <= 65535 * 1001 /\ b <= 65535 * 1001
    BY <1>2, <1>3, TotalType
  <1>5. sum \in Int /\ Alike(a + b + sum, 0)
    BY <1>4, CompleteSum
  <1>6. a + b + sum = a + (b + sum)
    BY <1>5
  <1>7. Total(q \o o) = a + (b + sum)
    <2>1. Len(q) % 2 = 0
      OBVIOUS
    <2>2. IsOctets(q) /\ IsOctets(o)
      OBVIOUS
    <2>3. Total(q \o o) = Total(q) + Total(o)
      BY ONLY <2>1, <2>2, TotalOfParts
    <2> QED
      BY <1>1, <1>4, <2>3
  <1>8. IsOctets(q \o o)
    BY TwoParts
  <1> QED
    BY <1>5, <1>6, <1>7, <1>8, TotalSumsUp

\* The same of octets that are summed alone.
LEMMA CompletedAlone ==
  ASSUME NEW o, IsOctets(o), Len(o) <= 2000, NEW z, NEW j, IsBlank(z, o, j),
         NEW sum, IsWord(sum), Lies(o, 2 * j, HostWordOctets(sum)), sum = Complement(Total(z))
  PROVE  SumsUp(o)
  <1>1. Total(o) = Total(z) + sum
    BY SumFilled
  <1>2. IsOctets(z) /\ Len(z) = Len(o) /\ Len(o) \in Nat
    BY WordCount DEF IsBlank
  <1>3. WordsIn(z) <= 1001 /\ WordsIn(z) \in Nat
    BY <1>2 DEF WordsIn
  <1>4. PICK b \in Int : b = Total(z) /\ 0 <= b /\ b <= 65535 * 1001
    BY <1>2, <1>3, TotalType
  <1>5. Alike(b + sum, 0)
    BY <1>4, CompleteSum DEF Completes
  <1> QED
    BY <1>1, <1>4, <1>5, TotalSumsUp

-----------------------------------------------------------------------------
(* What is summed is what is sent, but for the checksum *)

\* o and z are the same behind b octets, up to k octets.
Agree(o, z, b, k) == \A i \in (b + 1)..k : o[i] = z[i]

Both(o, z, k, s) == Lies(o, k, s) /\ Lies(z, k, s)

\* Octets that agree up to k do so behind a part that both have there.
LEMMA AgreeStep ==
  ASSUME NEW o, NEW z, NEW b \in Nat, NEW k \in Nat, NEW l \in Nat, NEW s,
         Agree(o, z, b, k), Both(o, z, k, s), HasLen(s, l), NEW m, m = k + l
  PROVE  Agree(o, z, b, m)
  <1> SUFFICES ASSUME NEW i \in (b + 1)..m PROVE o[i] = z[i]
    BY DEF Agree
  <1>1. CASE i <= k
    BY <1>1 DEF Agree
  <1>2. CASE i > k
    <2>1. Len(s) = l
      BY DEF HasLen
    <2>2. PICK j \in 1..Len(s) : i = k + j
      <3>1. i - k \in 1..Len(s) /\ i = k + (i - k)
        BY <1>2, <2>1
      <3> QED
        BY <3>1
    <2> QED
      BY <2>2 DEF Both, Lies
  <1> QED
    BY <1>1, <1>2

\* They do behind the first such part.
LEMMA AgreeFirst ==
  ASSUME NEW o, NEW z, NEW b \in Nat, NEW l \in Nat, NEW s, Both(o, z, b, s), HasLen(s, l),
         NEW m, m = b + l
  PROVE  Agree(o, z, b, m)
  <1>1. Agree(o, z, b, b)
    BY DEF Agree
  <1> QED
    BY <1>1, AgreeStep

\* Octets that agree but for one word, which is 0 in one of them.
LEMMA BlankIs ==
  ASSUME NEW o, NEW z, IsOctets(z), NEW n \in Nat, Len(o) = n, Len(z) = n, NEW j \in Nat,
         Lies(z, 2 * j, HostWordOctets(0)), Agree(o, z, 0, 2 * j), Agree(o, z, 2 * j + 2, n)
  PROVE  IsBlank(z, o, j)
  <1> SUFFICES ASSUME NEW i \in 1..n, i <= 2 * j \/ i > 2 * j + 2 PROVE o[i] = z[i]
    BY DEF IsBlank
  <1>1. CASE i <= 2 * j
    BY <1>1 DEF Agree
  <1>2. CASE i > 2 * j + 2
    BY <1>2 DEF Agree
  <1> QED
    BY <1>1, <1>2

\* A word has two octets,
LEMMA WordHasLen == ASSUME NEW n, IsWord(n) PROVE HasLen(WordOctets(n), 2)
  BY TwoOctets DEF HasLen

\* a pair two
LEMMA PairHasLen == ASSUME NEW a, NEW b PROVE HasLen(<<a, b>>, 2)
  BY DEF HasLen

\* and a sequence of n octets n.
LEMMA SeqHasLen == ASSUME NEW n \in Nat, NEW s \in OctetSeq(n) PROVE HasLen(s, n)
  BY OctetSeqs DEF HasLen

\* 0 is a word.
LEMMA ZeroIsWord == IsWord(0)
  BY DEF IsWord

\* The datagram that set_udp sums is the one sent, without the checksum.
LEMMA UDPBlank ==
  ASSUME NEW t, IsUDP(t), NEW payload, IsPayload(payload), NEW sum, IsWord(sum)
  PROVE  LET o == UDPDatagram(t, payload, sum)
             z == UDPDatagram(t, payload, 0)
         IN /\ IsBlank(z, o, 3) /\ Lies(o, 2 * 3, HostWordOctets(sum))
            /\ IsOctets(o) /\ Len(o) = 8 + Len(payload)
  <1> DEFINE o == UDPDatagram(t, payload, sum)
             z == UDPDatagram(t, payload, 0)
             length == UDPHDRLEN + Len(payload)
  <1>1. IsOctets(payload) /\ IsWord(length) /\ IsWord(0) /\ Len(payload) \in Nat
    BY PayloadLength, ZeroIsWord DEF UDPHDRLEN
  <1> HIDE DEF length
  <1>2. /\ IsOctets(o) /\ Len(o) = 8 + Len(payload)
        /\ Lies(o, 0, WordOctets(t.src_port)) /\ Lies(o, 2, WordOctets(t.dst_port))
        /\ Lies(o, 4, WordOctets(length)) /\ Lies(o, 6, HostWordOctets(sum)) /\ Lies(o, 8, payload)
    BY <1>1, UDPParts DEF length
  <1>3. /\ IsOctets(z) /\ Len(z) = 8 + Len(payload)
        /\ Lies(z, 0, WordOctets(t.src_port)) /\ Lies(z, 2, WordOctets(t.dst_port))
        /\ Lies(z, 4, WordOctets(length)) /\ Lies(z, 6, HostWordOctets(0)) /\ Lies(z, 8, payload)
    BY <1>1, UDPParts DEF length
  <1> HIDE DEF o, z
  <1>4. /\ Both(o, z, 0, WordOctets(t.src_port)) /\ Both(o, z, 2, WordOctets(t.dst_port))
        /\ Both(o, z, 4, WordOctets(length)) /\ Both(o, z, 8, payload)
    BY <1>2, <1>3, Zenon DEF Both
  <1>5. IsWord(t.src_port) /\ IsWord(t.dst_port)
    BY UShortIsWord DEF IsUDP
  <1>6. /\ HasLen(WordOctets(t.src_port), 2) /\ HasLen(WordOctets(t.dst_port), 2) /\ HasLen(WordOctets(length), 2)
        /\ HasLen(payload, Len(payload))
    BY <1>1, <1>5, WordHasLen DEF HasLen
  <1>7. Agree(o, z, 0, 2)
    <2>1. 0 \in Nat /\ 2 \in Nat /\ 2 = 0 + 2
      OBVIOUS
    <2> QED
      BY <1>4, <1>6, <2>1, AgreeFirst, Zenon
  <1>8. Agree(o, z, 0, 4)
    <2>1. 0 \in Nat /\ 2 \in Nat /\ 4 = 2 + 2
      OBVIOUS
    <2> QED
      BY <1>4, <1>6, <1>7, <2>1, AgreeStep, Zenon
  <1>9. Agree(o, z, 0, 6)
    BY <1>4, <1>6, <1>8, AgreeStep
  <1>10. Agree(o, z, 8, 8 + Len(payload))
    BY <1>1, <1>4, <1>6, AgreeFirst
  <1>11. IsBlank(z, o, 3)
    BY <1>1, <1>2, <1>3, <1>9, <1>10, BlankIs
  <1> QED
    BY <1>2, <1>11 DEF o, z

\* The same of the ICMP message,
LEMMA ICMPBlank ==
  ASSUME NEW t, IsICMP(t), NEW rest, IsOctets(rest), NEW sum, IsWord(sum)
  PROVE  LET o == ICMPMessage(t, HostWordOctets(sum), rest)
             z == ICMPMessage(t, <<0, 0>>, rest)
         IN /\ IsBlank(z, o, 1) /\ Lies(o, 2 * 1, HostWordOctets(sum))
            /\ IsOctets(o) /\ Len(o) = 4 + Len(rest) /\ Len(z) = 4 + Len(rest)
  <1> DEFINE o == ICMPMessage(t, HostWordOctets(sum), rest)
             z == ICMPMessage(t, <<0, 0>>, rest)
             kind == <<t.type, t.code>>
  <1>1. /\ IsOctets(o) /\ Len(o) = 4 + Len(rest)
        /\ Lies(o, 0, kind) /\ Lies(o, 2, HostWordOctets(sum)) /\ Lies(o, 4, rest)
    BY ICMPParts, TwoHostOctets
  <1>2. /\ IsOctets(z) /\ Len(z) = 4 + Len(rest)
        /\ Lies(z, 0, kind) /\ Lies(z, 2, <<0, 0>>) /\ Lies(z, 4, rest)
    BY ICMPParts, ZeroOctets
  <1>3. Lies(z, 2, HostWordOctets(0)) /\ Len(rest) \in Nat
    BY <1>2, ZeroShort, WordCount
  <1>4. HasLen(kind, 2) /\ HasLen(rest, Len(rest))
    BY PairHasLen DEF HasLen
  <1> HIDE DEF o, z, kind
  <1>5. Both(o, z, 0, kind) /\ Both(o, z, 4, rest)
    BY <1>1, <1>2 DEF Both
  <1>6. Agree(o, z, 0, 2)
    <2>1. 0 \in Nat /\ 2 \in Nat /\ 2 = 0 + 2
      OBVIOUS
    <2> QED
      BY <1>5, <1>4, <2>1, AgreeFirst, Zenon
  <1>7. Agree(o, z, 4, 4 + Len(rest))
    BY <1>3, <1>5, <1>4, AgreeFirst
  <1>8. IsBlank(z, o, 1)
    BY <1>1, <1>2, <1>3, <1>6, <1>7, BlankIs
  <1> QED
    BY <1>1, <1>2, <1>8 DEF o, z

\* of the TCP segment
LEMMA TCPBlank ==
  ASSUME NEW t, IsTCP(t), NEW payload, IsOctets(payload), NEW sum, IsWord(sum)
  PROVE  LET o == TCPSegment(t, payload, sum)
             z == TCPSegment(t, payload, 0)
         IN /\ IsBlank(z, o, 8) /\ Lies(o, 2 * 8, HostWordOctets(sum))
            /\ IsOctets(o) /\ Len(o) = 20 + Len(payload)
  <1> DEFINE o == TCPSegment(t, payload, sum)
             z == TCPSegment(t, payload, 0)
             bits == <<OffOctet, tcp_flags(t)>>
             urgent == WordOctets(ToUShort(t.urgent_pointer))
  <1>1. /\ IsOctets(o) /\ Len(o) = 20 + Len(payload)
        /\ Lies(o, 0, WordOctets(t.src_port)) /\ Lies(o, 2, WordOctets(t.dst_port))
        /\ Lies(o, 4, t.sequence) /\ Lies(o, 8, t.ack_num)
        /\ Lies(o, 12, bits) /\ Lies(o, 14, WordOctets(t.window))
        /\ Lies(o, 16, HostWordOctets(sum)) /\ Lies(o, 18, urgent) /\ Lies(o, 20, payload)
    BY TCPParts
  <1>2. /\ IsOctets(z) /\ Len(z) = 20 + Len(payload)
        /\ Lies(z, 0, WordOctets(t.src_port)) /\ Lies(z, 2, WordOctets(t.dst_port))
        /\ Lies(z, 4, t.sequence) /\ Lies(z, 8, t.ack_num)
        /\ Lies(z, 12, bits) /\ Lies(z, 14, WordOctets(t.window))
        /\ Lies(z, 16, HostWordOctets(0)) /\ Lies(z, 18, urgent) /\ Lies(z, 20, payload)
    BY ZeroIsWord, TCPParts
  <1>3. HasLen(bits, 2)
    BY PairHasLen
  <1>4. HasLen(urgent, 2)
    <2>1. t.urgent_pointer \in Int
      BY TCPWindow, ShortsAreInt
    <2> QED
      BY <2>1, UShortOctets DEF HasLen
  <1> HIDE DEF o, z, bits, urgent
  <1>5. /\ Both(o, z, 0, WordOctets(t.src_port)) /\ Both(o, z, 2, WordOctets(t.dst_port))
        /\ Both(o, z, 4, t.sequence) /\ Both(o, z, 8, t.ack_num)
        /\ Both(o, z, 12, bits) /\ Both(o, z, 14, WordOctets(t.window))
        /\ Both(o, z, 18, urgent) /\ Both(o, z, 20, payload)
    BY <1>1, <1>2 DEF Both
  <1>6. /\ HasLen(WordOctets(t.src_port), 2) /\ HasLen(WordOctets(t.dst_port), 2)
        /\ HasLen(WordOctets(t.window), 2)
    BY TCPPorts, TCPWindow, WordHasLen
  <1>7. HasLen(t.sequence, 4) /\ HasLen(t.ack_num, 4)
    <2>1. 4 \in Nat
      OBVIOUS
    <2> QED
      BY <2>1, TCPNumbers, SeqHasLen
  <1>8. HasLen(payload, Len(payload)) /\ Len(payload) \in Nat
    BY WordCount DEF HasLen
  <1>9. Agree(o, z, 0, 2)
    <2>1. 0 \in Nat /\ 2 \in Nat /\ 2 = 0 + 2
      OBVIOUS
    <2> QED
      BY <1>5, <1>6, <2>1, AgreeFirst, Zenon
  <1>10. Agree(o, z, 0, 4)
    BY <1>5, <1>6, <1>9, AgreeStep
  <1>11. Agree(o, z, 0, 8)
    BY <1>5, <1>7, <1>10, AgreeStep
  <1>12. Agree(o, z, 0, 12)
    BY <1>5, <1>7, <1>11, AgreeStep
  <1>13. Agree(o, z, 0, 14)
    BY <1>5, <1>3, <1>12, AgreeStep
  <1>14. Agree(o, z, 0, 16)
    BY <1>5, <1>6, <1>13, AgreeStep
  <1>15. Agree(o, z, 18, 20)
    <2>1. 18 \in Nat /\ 2 \in Nat /\ 20 = 18 + 2
      OBVIOUS
    <2> QED
      BY <1>4, <1>5, <2>1, AgreeFirst, Zenon
  <1>16. Agree(o, z, 18, 20 + Len(payload))
    BY <1>5, <1>8, <1>15, AgreeStep
  <1>17. IsBlank(z, o, 8)
    BY <1>1, <1>2, <1>8, <1>14, <1>16, BlankIs
  <1> QED
    BY <1>1, <1>17 DEF o, z

\* and of the IPv4 header.
LEMMA IPv4Blank ==
  ASSUME NEW p, InIPv4(p), NEW length, IsOctets(length), Len(length) = 2, NEW sum, IsWord(sum)
  PROVE  LET o == IPv4Head(p, length, HostWordOctets(sum))
             z == IPv4Head(p, length, <<0, 0>>)
         IN /\ IsBlank(z, o, 5) /\ Lies(o, 2 * 5, HostWordOctets(sum))
            /\ IsOctets(o) /\ Len(o) = 20 /\ Len(z) = 20
  <1> DEFINE n == p.network
             o == IPv4Head(p, length, HostWordOctets(sum))
             z == IPv4Head(p, length, <<0, 0>>)
             first == <<69, ip_tos_value(n)>>
             ident == WordOctets(ToUShort(n.ident))
             off == WordOctets(ip_off_value(n))
             last == <<n.hop_limit, ProtocolOf(p)>>
  <1>1. /\ IsOctets(o) /\ Len(o) = 20 /\ Lies(o, 0, first) /\ Lies(o, 2, length) /\ Lies(o, 4, ident)
        /\ Lies(o, 6, off) /\ Lies(o, 8, last) /\ Lies(o, 10, HostWordOctets(sum))
        /\ Lies(o, 12, n.src_ip) /\ Lies(o, 16, n.dst_ip)
    BY TwoHostOctets, IPv4HeadParts
  <1>2. /\ IsOctets(z) /\ Len(z) = 20 /\ Lies(z, 0, first) /\ Lies(z, 2, length) /\ Lies(z, 4, ident)
        /\ Lies(z, 6, off) /\ Lies(z, 8, last) /\ Lies(z, 10, <<0, 0>>)
        /\ Lies(z, 12, n.src_ip) /\ Lies(z, 16, n.dst_ip)
    BY ZeroOctets, IPv4HeadParts
  <1>3. IsIPv4(n) /\ n.ident \in Int /\ n.src_ip \in OctetSeq(4) /\ n.dst_ip \in OctetSeq(4)
    BY InIPv4Facts, IPv4Fields
  <1>4. HasLen(ident, 2) /\ HasLen(off, 2)
    BY <1>3, UShortOctets, OffValue, WordHasLen DEF HasLen
  <1>5. HasLen(first, 2) /\ HasLen(last, 2) /\ HasLen(length, 2)
    BY PairHasLen DEF HasLen
  <1>6. HasLen(n.src_ip, 4) /\ HasLen(n.dst_ip, 4)
    <2>1. 4 \in Nat
      OBVIOUS
    <2> QED
      BY <1>3, <2>1, SeqHasLen
  <1> HIDE DEF n, o, z, first, ident, off, last
  <1>7. /\ Both(o, z, 0, first) /\ Both(o, z, 2, length) /\ Both(o, z, 4, ident) /\ Both(o, z, 6, off)
        /\ Both(o, z, 8, last) /\ Both(o, z, 12, n.src_ip) /\ Both(o, z, 16, n.dst_ip)
    BY <1>1, <1>2 DEF Both
  <1>8. Agree(o, z, 0, 2)
    <2>1. 0 \in Nat /\ 2 \in Nat /\ 2 = 0 + 2
      OBVIOUS
    <2> QED
      BY <1>5, <1>7, <2>1, AgreeFirst, Zenon
  <1>9. Agree(o, z, 0, 4)
    BY <1>5, <1>7, <1>8, AgreeStep
  <1>10. Agree(o, z, 0, 6)
    BY <1>4, <1>7, <1>9, AgreeStep
  <1>11. Agree(o, z, 0, 8)
    BY <1>4, <1>7, <1>10, AgreeStep
  <1>12. Agree(o, z, 0, 10)
    BY <1>5, <1>7, <1>11, AgreeStep
  <1>13. Agree(o, z, 12, 16)
    <2>1. 12 \in Nat /\ 4 \in Nat /\ 16 = 12 + 4
      OBVIOUS
    <2> QED
      BY <1>6, <1>7, <2>1, AgreeFirst, Zenon
  <1>14. Agree(o, z, 12, 20)
    BY <1>6, <1>7, <1>13, AgreeStep
  <1>15. Lies(z, 10, HostWordOctets(0))
    BY <1>2, ZeroShort
  <1>16. IsBlank(z, o, 5)
    <2>1. PICK k \in Nat : k = 20
      OBVIOUS
    <2>2. Agree(o, z, 12, k) /\ Len(o) = k /\ Len(z) = k
      BY <1>1, <1>2, <1>14, <2>1
    <2> QED
      BY <1>2, <1>12, <1>15, <2>2, BlankIs
  <1> QED
    BY <1>1, <1>2, <1>16 DEF o, z

-----------------------------------------------------------------------------
(* The checksums of a packet *)

\* o is z with the sum in its word j.
Filled(z, o, j, sum) == /\ IsBlank(z, o, j) /\ Lies(o, 2 * j, HostWordOctets(sum))
                        /\ IsOctets(o) /\ Len(o) <= 2000 /\ IsWord(sum)

\* What is summed alone and given the complement sums up.
LEMMA FilledAlone ==
  ASSUME NEW o, NEW z, NEW j, NEW sum, Filled(z, o, j, sum), sum = Complement(Total(z))
  PROVE  SumsUp(o)
  BY CompletedAlone DEF Filled

\* So does what is summed with a pseudo header q.
LEMMA FilledSumsUp ==
  ASSUME NEW o, NEW z, NEW j, NEW sum, Filled(z, o, j, sum), NEW q, IsOctets(q), HasLen(q, 12),
         NEW n, n = Total(q) + Total(z), Completes(sum, n)
  PROVE  SumsUp(q \o o)
  BY CompletedSumsUp DEF Filled, HasLen

\* The checksum of an IPv4 header is right.
LEMMA HeadSumsUp ==
  ASSUME NEW p, InIPv4(p)
  PROVE  SumsUp(IPv4Head(p, IPv4Total(p), HostWordOctets(IPv4Sum(p))))
  <1> DEFINE length == IPv4Total(p)
             sum == IPv4Sum(p)
             o == IPv4Head(p, length, HostWordOctets(sum))
             z == IPv4Head(p, length, <<0, 0>>)
  <1>1. IsOctets(length) /\ Len(length) = 2 /\ IsWord(sum)
    BY IPv4Layers, TwoOctets
  <1>2. sum = in_cksum(Buffer(z), 0, 20)
    BY DEF IPv4Sum, IPv4HDRLEN
  <1> HIDE DEF length, sum
  <1>3. /\ IsBlank(z, o, 5) /\ Lies(o, 2 * 5, HostWordOctets(sum))
        /\ IsOctets(o) /\ Len(o) = 20 /\ Len(z) = 20
    BY <1>1, IPv4Blank
  <1>4. IsOctets(z)
    BY <1>3 DEF IsBlank
  <1> HIDE DEF o, z
  <1>5. sum = Complement(Total(z))
    <2>1. Len(z) % 2 = 0
      BY <1>3
    <2>2. in_cksum(Buffer(z), 0, Len(z)) = Complement(Total(z))
      BY <1>4, <2>1, CksumIs
    <2> QED
      BY <1>2, <1>3, <2>2
  <1>6. SumsUp(o)
    <2>1. Filled(z, o, 5, sum)
      BY <1>1, <1>3 DEF Filled
    <2> QED
      BY ONLY <1>5, <2>1, FilledAlone
  <1> QED
    BY <1>6 DEF o, length, sum

\* The header that is there when the checksum of what it carries is calculated.
EarlyHead(p) == IPv4Head(p, <<0, 0>>, <<0, 0>>)

\* It has the addresses and the protocol, which the pseudo header is made of.
LEMMA EarlyHeadHas ==
  ASSUME NEW p, InIPv4(p)
  PROVE  LET h == EarlyHead(p)
             n == p.network
         IN /\ IsOctets(h) /\ Lies(h, 12, n.src_ip) /\ Lies(h, 16, n.dst_ip)
            /\ OctetAt(Buffer(h), 9) = ProtocolOf(p) /\ ProtocolOf(p) \in Octet
            /\ n.src_ip \in OctetSeq(4) /\ n.dst_ip \in OctetSeq(4)
  <1> DEFINE h == EarlyHead(p)
             n == p.network
             last == <<n.hop_limit, ProtocolOf(p)>>
  <1>1. IsOctets(h) /\ Lies(h, 8, last) /\ Lies(h, 12, n.src_ip) /\ Lies(h, 16, n.dst_ip)
    BY ZeroOctets, IPv4HeadParts DEF EarlyHead
  <1>2. n.src_ip \in OctetSeq(4) /\ n.dst_ip \in OctetSeq(4) /\ ProtocolOf(p) \in Octet
    BY InIPv4Facts, IPv4Fields
  <1>3. Len(last) = 2 /\ last[2] = ProtocolOf(p)
    OBVIOUS
  <1>4. Lies(Buffer(h).octets, 8, last)
    BY <1>1 DEF Buffer
  <1> HIDE DEF h, n, last
  <1>5. OctetAt(Buffer(h), 9) = last[2]
    <2>1. PICK f : f = Buffer(h)
      OBVIOUS
    <2>2. PICK k \in Nat : k = 8
      OBVIOUS
    <2>3. f = Buffer(h) /\ k = 8
      BY <2>1, <2>2
    <2>4. Lies(f.octets, k, last) /\ Len(last) > 1
      BY <1>3, <1>4, <2>3
    <2>5. OctetAt(f, k + 1) = last[2]
      BY ONLY <2>4, OctetAtSecond
    <2> QED
      BY <2>3, <2>5
  <1> QED
    BY <1>1, <1>2, <1>3, <1>5 DEF h, n

\* The sum over the pseudo header of a packet and z, where len is its length.
LEMMA Cksum2OfPacket ==
  ASSUME NEW p, InIPv4(p), NEW len, IsWord(len), NEW z, IsOctets(z), Len(z) % 2 = 0 \/ LittleEndian
  PROVE  LET q == Pseudo(p.network.src_ip, p.network.dst_ip, ProtocolOf(p), len)
         IN /\ IsOctets(q) /\ Len(q) = 12
            /\ in_cksum2(Buffer(EarlyHead(p)), len, Buffer(z)) = Complement(Total(q) + Total(z))
  <1> DEFINE h == EarlyHead(p)
             q == Pseudo(p.network.src_ip, p.network.dst_ip, ProtocolOf(p), len)
  <1>1. /\ IsOctets(h) /\ Lies(h, 12, p.network.src_ip) /\ Lies(h, 16, p.network.dst_ip)
        /\ OctetAt(Buffer(h), 9) = ProtocolOf(p) /\ ProtocolOf(p) \in Octet
        /\ p.network.src_ip \in OctetSeq(4) /\ p.network.dst_ip \in OctetSeq(4)
    BY EarlyHeadHas
  <1> HIDE DEF h
  <1>2. /\ IsOctets(q) /\ Len(q) = 12
        /\ Total(q) = WordSum(Buffer(h), 12, 4) + NetShort(ProtocolOf(p)) + NetShort(len)
    BY <1>1, PseudoTotal
  <1> HIDE DEF q
  <1>3. Total(q) = WordSum(Buffer(h), 12, 4) + NetShort(OctetAt(Buffer(h), 9)) + NetShort(len)
    BY <1>1, <1>2
  <1>4. Total(q) \in Int
    BY <1>2, TotalType
  <1>5. in_cksum2(Buffer(h), len, Buffer(z)) = Complement(Total(q) + Total(z))
    BY <1>3, <1>4, Cksum2Is
  <1> QED
    BY <1>2, <1>5 DEF h, q

\* The pseudo header and the message of a TCP or UDP packet.
LEMMA TCPSumsUp ==
  ASSUME NEW p, InIPv4(p), p.class = "TCPPacket", Len(p.data) % 2 = 0 \/ LittleEndian
  PROVE  LET c == IPv4Carried(p)
         IN /\ Len(c) = 20 + Len(p.data)
            /\ SumsUp(Pseudo(p.network.src_ip, p.network.dst_ip, ProtocolOf(p), 20 + Len(p.data)) \o c)
  <1> DEFINE c == IPv4Carried(p)
             t == p.transport
             len == 20 + Len(p.data)
             sum == TCPSum(t, p.data, Buffer(EarlyHead(p)))
             o == TCPSegment(t, p.data, sum)
             z == TCPSegment(t, p.data, 0)
             q == Pseudo(p.network.src_ip, p.network.dst_ip, ProtocolOf(p), len)
  <1>1. IsTCP(t) /\ IsPayload(p.data) /\ IsOctets(EarlyHead(p))
    BY InIPv4Facts, SentTransport, EarlyHeadHas
  <1>2. IsOctets(p.data) /\ Len(p.data) \in Nat /\ IsWord(len) /\ Len(p.data) <= 1600
    BY <1>1, PayloadLength DEF IsPayload
  <1>3. c = o /\ IsWord(sum)
    <2>1. c = set_tcp(t, p.data, Buffer(EarlyHead(p)))
      BY CarriedOfClass DEF IPv4Carried, EarlyHead
    <2> QED
      BY <1>1, <2>1, TCPCarried
  <1>4. sum = in_cksum2(Buffer(EarlyHead(p)), len, Buffer(z))
    BY DEF TCPSum, TCPHDRLEN
  <1> HIDE DEF c, t, sum
  <1>5. /\ IsBlank(z, o, 8) /\ Lies(o, 2 * 8, HostWordOctets(sum)) /\ IsOctets(o) /\ Len(o) = len
    BY <1>1, <1>2, <1>3, TCPBlank, SMTT(40)
  <1> HIDE DEF o, z
  <1>6. IsOctets(z) /\ Len(z) = len
    BY <1>5 DEF IsBlank
  <1>7. Len(z) % 2 = 0 \/ LittleEndian
    <2>1. PICK n \in Nat : n = Len(p.data)
      BY <1>2
    <2>2. n % 2 = 0 \/ LittleEndian
      BY <2>1
    <2>3. Len(z) = 20 + n
      BY <1>6, <2>1
    <2>4. CASE n % 2 = 0
      BY <2>3, <2>4
    <2>5. CASE LittleEndian
      BY <2>5
    <2> QED
      BY <2>2, <2>4, <2>5
  <1> HIDE DEF len
  <1>8. IsOctets(q) /\ Len(q) = 12 /\ sum = Complement(Total(q) + Total(z))
    BY <1>2, <1>4, <1>6, <1>7, Cksum2OfPacket
  <1> HIDE DEF q
  <1>9. Len(o) <= 2000
    BY <1>2, <1>5 DEF len
  <1>10. Completes(sum, Total(q) + Total(z))
    BY <1>8 DEF Completes
  <1>11. SumsUp(q \o o)
    <2>1. Filled(z, o, 8, sum) /\ HasLen(q, 12) /\ IsOctets(q)
      BY <1>3, <1>5, <1>8, <1>9 DEF Filled, HasLen
    <2> QED
      BY ONLY <1>10, <2>1, FilledSumsUp
  <1> QED
    BY <1>3, <1>5, <1>11 DEF q, c, len

\* The checksum of a UDP packet is right, of an odd length on a host like x86 only.
LEMMA UDPSumsUp ==
  ASSUME NEW p, InIPv4(p), p.class = "UDPPacket", Len(p.data) % 2 = 0 \/ LittleEndian
  PROVE  LET c == IPv4Carried(p)
         IN /\ Len(c) = 8 + Len(p.data)
            /\ SumsUp(Pseudo(p.network.src_ip, p.network.dst_ip, ProtocolOf(p), 8 + Len(p.data)) \o c)
  <1> DEFINE c == IPv4Carried(p)
             t == p.transport
             len == 8 + Len(p.data)
             zero == UDPSum(t, p.data, Buffer(EarlyHead(p)))
             sum == UDPSent(zero)
             o == UDPDatagram(t, p.data, sum)
             z == UDPDatagram(t, p.data, 0)
             q == Pseudo(p.network.src_ip, p.network.dst_ip, ProtocolOf(p), len)
  <1>1. IsUDP(t) /\ IsPayload(p.data) /\ IsOctets(EarlyHead(p))
    BY InIPv4Facts, SentTransport, EarlyHeadHas
  <1>2. IsOctets(p.data) /\ Len(p.data) \in Nat /\ IsWord(len) /\ Len(p.data) <= 1600
    BY <1>1, PayloadLength DEF IsPayload
  <1>3. c = o /\ IsWord(sum)
    <2>1. c = set_udp(t, p.data, Buffer(EarlyHead(p)))
      BY CarriedOfClass DEF IPv4Carried, EarlyHead
    <2> QED
      BY <1>1, <2>1, UDPCarried
  <1>4. zero = in_cksum2(Buffer(EarlyHead(p)), len, Buffer(z))
    BY DEF UDPSum, UDPHDRLEN
  <1>5. sum = zero \/ (zero = 0 /\ sum = 65535)
    BY DEF UDPSent
  <1> HIDE DEF c, t, zero, sum
  <1>6. /\ IsBlank(z, o, 3) /\ Lies(o, 2 * 3, HostWordOctets(sum)) /\ IsOctets(o) /\ Len(o) = len
    BY <1>1, <1>2, <1>3, UDPBlank
  <1> HIDE DEF o, z
  <1>7. IsOctets(z) /\ Len(z) = len
    BY <1>6 DEF IsBlank
  <1>8. Len(z) % 2 = 0 \/ LittleEndian
    <2>1. PICK n \in Nat : n = Len(p.data)
      BY <1>2
    <2>2. n % 2 = 0 \/ LittleEndian
      BY <2>1
    <2>3. Len(z) = 8 + n
      BY <1>7, <2>1
    <2>4. CASE n % 2 = 0
      BY <2>3, <2>4
    <2>5. CASE LittleEndian
      BY <2>5
    <2> QED
      BY <2>2, <2>4, <2>5
  <1> HIDE DEF len
  <1>9. IsOctets(q) /\ Len(q) = 12 /\ zero = Complement(Total(q) + Total(z))
    BY <1>2, <1>4, <1>7, <1>8, Cksum2OfPacket
  <1> HIDE DEF q
  <1>10. Len(o) <= 2000
    BY <1>2, <1>6 DEF len
  <1>11. Completes(sum, Total(q) + Total(z))
    BY <1>9, <1>5 DEF Completes
  <1>12. SumsUp(q \o o)
    <2>1. Filled(z, o, 3, sum) /\ HasLen(q, 12) /\ IsOctets(q)
      BY <1>3, <1>6, <1>9, <1>10 DEF Filled, HasLen
    <2> QED
      BY ONLY <1>11, <2>1, FilledSumsUp
  <1> QED
    BY <1>3, <1>6, <1>12 DEF q, c, len

\* That of an ICMP message is, of an odd length on the other hosts only.
LEMMA ICMPSumsUp ==
  ASSUME NEW p, InIPv4(p), p.class = "ICMPPacket",
         p.transport.type \in Echoes => Len(p.data) % 2 = 0 \/ ~LittleEndian
  PROVE  SumsUp(IPv4Carried(p))
  <1> DEFINE t == p.transport
             rest == ICMPRest(t, p.data)
             sum == ICMPSum(t, p.data)
             o == ICMPMessage(t, HostWordOctets(sum), rest)
             z == ICMPMessage(t, <<0, 0>>, rest)
  <1>1. IsICMP(t) /\ IsPayload(p.data)
    BY InIPv4Facts, SentTransport
  <1>2. IsOctets(p.data) /\ Len(p.data) \in Nat /\ Len(p.data) <= 1600
    BY <1>1, PayloadLength DEF IsPayload
  <1>3. /\ IsOctets(rest)
        /\ (t.type \in Echoes => Len(rest) = 4 + Len(p.data))
        /\ (t.type \notin Echoes => Len(rest) <= 28 /\ Len(rest) % 2 = 0)
    BY <1>1, <1>2, ICMPRestType
  <1>4. IPv4Carried(p) = o /\ IsWord(sum)
    <2>1. IPv4Carried(p) = set_icmp(t, p.data)
      BY CarriedOfClass DEF IPv4Carried
    <2> QED
      BY <1>1, <1>2, <2>1, ICMPCarried
  <1>5. sum = in_cksum(Buffer(z), 0, 4 + Len(rest))
    BY DEF ICMPSum
  <1>6. t.type \in Echoes => Len(p.data) % 2 = 0 \/ ~LittleEndian
    OBVIOUS
  <1> HIDE DEF t, rest, sum
  <1>7. /\ IsBlank(z, o, 1) /\ Lies(o, 2 * 1, HostWordOctets(sum))
        /\ IsOctets(o) /\ Len(o) = 4 + Len(rest) /\ Len(z) = 4 + Len(rest)
    BY <1>1, <1>3, <1>4, ICMPBlank
  <1> HIDE DEF o, z
  <1>8. IsOctets(z)
    BY <1>7 DEF IsBlank
  <1>9. PICK n \in Nat : n = Len(rest)
    BY <1>3, WordCount
  <1>10. n <= 1604 /\ ((4 + n) % 2 = 0 \/ ~LittleEndian)
    <2>1. CASE t.type \in Echoes
      <3>1. PICK d \in Nat : d = Len(p.data)
        BY <1>2
      <3>2. n = 4 + d /\ d <= 1600
        BY <1>2, <1>3, <1>9, <2>1, <3>1
      <3>3. d % 2 = 0 \/ ~LittleEndian
        BY <1>6, <2>1, <3>1
      <3>4. CASE d % 2 = 0
        BY <3>2, <3>4
      <3>5. CASE ~LittleEndian
        BY <3>2, <3>5
      <3> QED
        BY <3>3, <3>4, <3>5
    <2>2. CASE t.type \notin Echoes
      <3>1. n <= 28 /\ n % 2 = 0
        BY <1>3, <1>9, <2>2
      <3> QED
        BY <1>9, <3>1
    <2> QED
      BY <2>1, <2>2
  <1>11. Len(o) <= 2000 /\ (Len(z) % 2 = 0 \/ ~LittleEndian)
    BY <1>7, <1>9, <1>10
  <1>12. sum = Complement(Total(z))
    <2>1. in_cksum(Buffer(z), 0, Len(z)) = Complement(Total(z))
      BY <1>8, <1>11, CksumIs
    <2> QED
      BY <1>5, <1>7, <2>1
  <1>13. SumsUp(o)
    <2>1. Filled(z, o, 1, sum)
      BY <1>4, <1>7, <1>11 DEF Filled
    <2> QED
      BY ONLY <1>12, <2>1, FilledAlone
  <1> QED
    BY <1>4, <1>13

\* Octets that lie in others are a part of them.
LEMMA LiesSub ==
  ASSUME NEW o, NEW at, NEW s, NEW m, Lies(o, at, s), HasLen(s, m)
  PROVE  SubSeq(o, at + 1, at + m) = s
  <1>1. /\ at \in Nat /\ s \in Seq(Int) /\ o \in Seq(Int) /\ at + Len(s) <= Len(o)
        /\ \A i \in 1..Len(s) : o[at + i] = s[i]
    BY DEF Lies
  <1>2. m \in Nat /\ Len(s) = m
    BY <1>1 DEF HasLen
  <1>3. PICK t : t = SubSeq(o, at + 1, at + m)
    OBVIOUS
  <1>4. /\ t \in Seq(Int) /\ Len(t) = m
        /\ \A i \in 1..m : t[i] = o[at + i]
    BY <1>1, <1>2, <1>3, SMTT(40)
  <1>5. s = t
    <2>1. s = [i \in 1..m |-> s[i]] /\ t = [i \in 1..m |-> t[i]]
      BY <1>1, <1>2, <1>4
    <2>2. \A i \in 1..m : s[i] = t[i]
      BY <1>1, <1>2, <1>4
    <2> QED
      BY ONLY <2>1, <2>2
  <1> QED
    BY <1>3, <1>5

\* A word read as a jshort is the word again as a u_short.
LEMMA UShortBack == ASSUME NEW n, IsWord(n) PROVE ToUShort(ToShort(n)) = n
  BY DEF IsWord, ToUShort, ToShort

\* Where an IPv4 packet that was sent lies: its header and what it carries.
LEMMA SentLayers ==
  ASSUME FramesAreKnown, ReadInv, ReceivedIP(4)
  PROVE  /\ InIPv4(sent) /\ transport_at = network_at + 20
         /\ OctetsAt(frame, network_at, 20)
              = IPv4Head(sent, IPv4Total(sent), HostWordOctets(IPv4Sum(sent)))
         /\ \A m : HasLen(IPv4Carried(sent), m) => Segment(m) = IPv4Carried(sent)
         /\ Len(IPv4Carried(sent)) \in Nat
         /\ ToUShort(packet.network.length) = 20 + Len(IPv4Carried(sent))
  <1> DEFINE p == sent
             o == IPv4Octets(p)
             h == IPv4Head(p, IPv4Total(p), HostWordOctets(IPv4Sum(p)))
             c == IPv4Carried(p)
  <1>1. Arrived
    BY DEF ReceivedIP
  <1>2. AsSent(frame) /\ sent = frame.sent
    BY <1>1, ArrivedFacts
  <1>3. /\ SentIPv4(frame, sent) /\ packet.network = analyze_ip(frame, Start(frame))
        /\ NetworkOctets(sent) = 20 /\ IPv4Seen(frame, Start(frame), sent)
    BY IPv4Arrives
  <1>4. InIPv4(sent) /\ set_packet(sent) = o
    BY <1>3 DEF SentIPv4
  <1>5. Lies(frame.octets, Start(frame), o) /\ Start(frame) \in {0, 14}
    BY <1>2, <1>4, MadeOf, PacketLies
  <1>6. /\ Len(o) = 20 + Len(c) /\ IsWord(Len(o)) /\ Len(h) = 20 /\ Len(c) \in Nat
        /\ Lies(o, 0, h) /\ Lies(o, 20, c)
    BY <1>4, IPv4Layers
  <1>7. packet.network.length = ToShort(Len(o))
    BY <1>3 DEF IPv4Seen
  <1>8. network_at = Start(frame)
    BY NetworkAt
  <1>9. transport_at = network_at + 20
    BY <1>3 DEF transport_at
  <1> HIDE DEF p, o, h, c
  <1>10. OctetsAt(frame, network_at, 20) = h
    <2>1. PICK k \in Nat : k = 0
      OBVIOUS
    <2>2. Lies(o, k, h) /\ HasLen(h, 20) /\ Start(frame) + k = network_at
      BY <1>5, <1>6, <1>8, <2>1 DEF HasLen
    <2>3. OctetsAt(frame, Start(frame) + k, 20) = h
      BY <1>5, <2>2, OctetsIn
    <2> QED
      BY <2>2, <2>3
  <1>11. \A m : HasLen(c, m) => Segment(m) = c
    <2> TAKE m
    <2> HAVE HasLen(c, m)
    <2>1. Lies(frame.octets, Start(frame) + 20, c)
      BY <1>5, <1>6, LiesWithin
    <2>2. Lies(frame.octets, transport_at, c)
      BY <1>8, <1>9, <2>1
    <2> QED
      BY <2>2, LiesSub DEF Segment
  <1>12. ToUShort(packet.network.length) = 20 + Len(c)
    BY <1>6, <1>7, UShortBack
  <1> QED
    BY <1>4, <1>6, <1>9, <1>10, <1>11, <1>12 DEF p, o, h, c

\* The length of a segment, as the object received and its data have it.
LEMMA SegmentLength ==
  ASSUME FramesAreKnown, ReadInv, ReceivedIP(4)
  PROVE  TransportLen = TransportOctets(sent) + Len(sent.data)
  <1>1. Arrived
    BY DEF ReceivedIP
  <1>2. AsSent(frame) /\ sent = frame.sent /\ packet.header = frame.payload.at
    BY <1>1, ArrivedFacts
  <1>3. Made(frame, sent) /\ Start(frame) \in {0, 14} /\ Sendable(sent)
    BY <1>2, MadeOf
  <1>4. frame.payload.at = Start(frame) + HeaderOctets(sent)
    BY <1>3 DEF Made
  <1>5. HeaderOctets(sent) = 20 + TransportOctets(sent)
    BY HeaderOctetsOf DEF ReceivedIP
  <1>6. TransportOctets(sent) \in {0, 8, 20}
    BY TransportOfClass
  <1>7. transport_at = Start(frame) + 20
    BY SentLayers, NetworkAt
  <1>8. Len(sent.data) \in Nat
    BY <1>3, SendableFacts, PayloadLength
  <1>9. packet.header - transport_at = TransportOctets(sent)
    BY <1>2, <1>3, <1>4, <1>5, <1>6, <1>7
  <1> QED
    BY <1>9 DEF TransportLen

\* So the checksums of a frame that was sent are right.
LEMMA ChecksumsAreRight ==
  ASSUME FramesAreKnown, FramesAreSummed, ReadInv PROVE ChecksumsRight
  <1> SUFFICES ASSUME ReceivedIP(4) PROVE ChecksumsRight
    BY Zenon DEF ChecksumsRight
  <1> DEFINE c == IPv4Carried(sent)
             q(len) == Pseudo(sent.network.src_ip, sent.network.dst_ip, ProtocolOf(sent), len)
  <1>1. Arrived /\ IsIP(sent) /\ sent.network.version = 4
    BY DEF ReceivedIP
  <1>2. SummedWhole(sent)
    <2>1. WasSent(frame) /\ Inv
      BY <1>1 DEF Arrived, ReadInv
    <2>2. frame \in Frames
      BY <2>1 DEF Inv, TypeOK
    <2> QED
      BY <2>1, <2>2 DEF FramesAreSummed, sent
  <1>3. /\ InIPv4(sent)
        /\ OctetsAt(frame, network_at, 20) = IPv4Head(sent, IPv4Total(sent), HostWordOctets(IPv4Sum(sent)))
        /\ \A m : HasLen(c, m) => Segment(m) = c
        /\ Len(c) \in Nat /\ ToUShort(packet.network.length) = 20 + Len(c)
    BY SentLayers
  <1>4. SumsUp(OctetsAt(frame, network_at, IPv4HDRLEN))
    BY <1>3, HeadSumsUp DEF IPv4HDRLEN
  <1>5. sent.class \in {"TCPPacket", "UDPPacket"} => SumsUp(q(TransportLen) \o Segment(TransportLen))
    <2> SUFFICES ASSUME sent.class \in {"TCPPacket", "UDPPacket"}
                 PROVE  SumsUp(q(TransportLen) \o Segment(TransportLen))
      OBVIOUS
    <2>1. Len(sent.data) % 2 = 0 \/ LittleEndian
      BY <1>2 DEF SummedWhole
    <2>2. TransportLen = TransportOctets(sent) + Len(sent.data)
      BY SegmentLength
    <2>3. HasLen(c, TransportLen) /\ SumsUp(q(TransportLen) \o c)
      <3>1. CASE sent.class = "TCPPacket"
        <4>1. Len(c) = 20 + Len(sent.data) /\ SumsUp(q(20 + Len(sent.data)) \o c)
          BY <1>3, <2>1, <3>1, TCPSumsUp
        <4>2. TransportLen = 20 + Len(sent.data)
          BY <2>2, <3>1, TransportOfClass
        <4> HIDE DEF c, q
        <4> QED
          BY <4>1, <4>2 DEF HasLen
      <3>2. CASE sent.class = "UDPPacket"
        <4>1. Len(c) = 8 + Len(sent.data) /\ SumsUp(q(8 + Len(sent.data)) \o c)
          BY <1>3, <2>1, <3>2, UDPSumsUp
        <4>2. TransportLen = 8 + Len(sent.data)
          BY <2>2, <3>2, TransportOfClass
        <4> HIDE DEF c, q
        <4> QED
          BY <4>1, <4>2 DEF HasLen
      <3> QED
        BY <3>1, <3>2
    <2>4. Segment(TransportLen) = c
      BY <1>3, <2>3
    <2> HIDE DEF c, q
    <2> QED
      BY <2>3, <2>4
  <1>6. sent.class = "ICMPPacket" => SumsUp(Segment(ToUShort(packet.network.length) - IPv4HDRLEN))
    <2> SUFFICES ASSUME sent.class = "ICMPPacket"
                 PROVE  SumsUp(Segment(ToUShort(packet.network.length) - IPv4HDRLEN))
      OBVIOUS
    <2>1. sent.transport.type \in Echoes => Len(sent.data) % 2 = 0 \/ ~LittleEndian
      BY <1>2 DEF SummedWhole, Echoes
    <2>2. SumsUp(c)
      BY <1>3, <2>1, ICMPSumsUp
    <2> HIDE DEF c
    <2>3. PICK m : m = ToUShort(packet.network.length) - IPv4HDRLEN
      OBVIOUS
    <2>4. HasLen(c, m)
      BY <1>3, <2>3 DEF HasLen, IPv4HDRLEN
    <2> QED
      BY <1>3, <2>2, <2>3, <2>4
  <1>7. q(TransportLen) = sent.network.src_ip \o sent.network.dst_ip \o <<0, ProtocolOf(sent)>>
                            \o WordOctets(TransportLen)
    BY DEF Pseudo
  <1> HIDE DEF q
  <1>8. sent.class \in {"TCPPacket", "UDPPacket"} =>
          SumsUp(sent.network.src_ip \o sent.network.dst_ip \o <<0, ProtocolOf(sent)>>
                   \o WordOctets(TransportLen) \o Segment(TransportLen))
    BY <1>5, <1>7
  <1> QED
    BY ONLY <1>4, <1>6, <1>8 DEF ChecksumsRight

\* For every set of frames sent by jpcap, each summed without an odd octet or with one
\* that the host's byte order puts in the right half: the checksums of the IPv4 header
\* and of the TCP, UDP or ICMP message are those of RFC 1071.
THEOREM ChecksumsRightHolds ==
  ASSUME FramesAreKnown, FramesAreSummed PROVE Spec => []ChecksumsRight
  <1>1. ReadInv => ChecksumsRight
    BY ChecksumsAreRight
  <1>2. Spec => []ReadInv
    BY KnownAreWellFormed, ReadAlways DEF ReadInv
  <1> QED
    BY <1>1, <1>2, PTL
=============================================================================
