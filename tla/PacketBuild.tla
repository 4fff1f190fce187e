----------------------------- MODULE PacketBuild -----------------------------
(***************************************************************************)
(* How jpcap makes octets of a packet object to send them: set_packet of   *)
(* JpcapSender.c and the set functions of packet_datalink.c, packet_ip.c,  *)
(* packet_ipv6.c, packet_arp.c, packet_tcp.c, packet_udp.c and             *)
(* packet_icmp.c.  The buffer is not cleared, so an octet that no function *)
(* writes holds what was there before.                                     *)
(*                                                                         *)
(* A packet object has                                                     *)
(*   class     its class                                                   *)
(*   datalink  the fields of its EthernetPacket, or NotSet                 *)
(*   network   its fields as an IPPacket or an ARPPacket                   *)
(*   transport its fields as a TCPPacket, UDPPacket or ICMPPacket          *)
(*   data      its octets of data                                          *)
(* with the names of HeaderFields.  Header fields have the ranges of their *)
(* headers.  Left out is that set_tcp and set_udp cut a message of more    *)
(* than MAX_PACKET_SIZE octets (packet_tcp.c:95, packet_udp.c:47), which   *)
(* no frame has that fits the buffer.                                      *)
(***************************************************************************)
EXTENDS HeaderFields

CONSTANT Stale  \* what the buffer holds before

ASSUME BuildAssumption == Stale \in Octet

sizeof_ether_arp == 28
MAX_PACKET_SIZE == 1600

StaleOctets(n) == [i \in 1..n |-> Stale]
Buffer(octets) == [octets |-> octets, beyond |-> Stale]

\* The first n octets of what was written.
Sized(octets, n) == SubSeq(octets \o StaleOctets(n), 1, n)

Flag(set, k) == IF set THEN 2^k ELSE 0

-----------------------------------------------------------------------------
(* Checksums *)

\* The sums of the first n words, for each n.
SumOf(words) == LET sum[n \in Nat] == IF n = 0 THEN 0 ELSE sum[n - 1] + words[n] IN sum

\* The sum of the u_shorts from "at" on, as they lie in memory.
WordSum(b, at, n) == SumOf([i \in 1..n |-> HostWordAt(b, at + 2 * (i - 1))])[n]

\* Carries are added back twice, and the complement taken.
Complement(sum) ==
  LET once == (sum % 65536) + (sum \div 65536)
  IN 65535 - (((once \div 65536) + (once % 65536)) % 65536)

\* Of an odd last octet the word is read that it starts, and the half of it that
\* is the more significant on this host is added.
in_cksum(b, at, size) ==
  Complement(WordSum(b, at, size \div 2)
             + IF size % 2 = 1 THEN (HostWordAt(b, at + size - 1) \div 256) * 256 ELSE 0)

\* Mutation: the protocol is left out of the pseudo header.
SumWithoutProtocol(ip, len, b) ==
  LET size == Len(b.octets)
  IN Complement(WordSum(ip, 12, 4) + NetShort(len) + WordSum(b, 0, size \div 2)
                + IF size % 2 = 1 THEN b.octets[size] ELSE 0)

\* The pseudo header is addresses and protocol of "ip", read as an IPv4 header,
\* and the length in the order of the network.
in_cksum2(ip, len, b) ==
  LET size == Len(b.octets)
  IN Complement(WordSum(ip, 12, 4) + NetShort(OctetAt(ip, 9)) + NetShort(len)
                + WordSum(b, 0, size \div 2)
                + IF size % 2 = 1 THEN b.octets[size] ELSE 0)

-----------------------------------------------------------------------------
(* Headers *)

set_ether(p) ==
  IF p.datalink.by = "EthernetPacket"
    THEN p.datalink.dst_mac \o p.datalink.src_mac \o WordOctets(ToUShort(p.datalink.frametype))
    ELSE <<>>

ip_tos_value(n) ==
  (n.priority * 32 + n.rsv_tos + Flag(n.d_flag, 4) + Flag(n.t_flag, 3) + Flag(n.r_flag, 2)) % 256

\* Mutation: the whole field is brought into the order of the network.
ip_off_swapped(n) ==
  NetShort(Flag(n.rsv_frag, 15) + Flag(n.dont_frag, 14) + Flag(n.more_frag, 13) + n.offset)

\* The flags and, in the order of the network, the offset.
ip_off_value(n) ==
  ToUShort(Flag(n.rsv_frag, 15) + Flag(n.dont_frag, 14) + Flag(n.more_frag, 13)
           + NetShort(ToUShort(n.offset)))

\* set_ip leaves length, protocol and checksum to its caller, and the order of
\* "off" as well.
set_ip(n, length, off, protocol, sum) ==
  <<69, ip_tos_value(n)>> \o length \o WordOctets(ToUShort(n.ident)) \o off
    \o <<n.hop_limit % 256, protocol>> \o sum \o n.src_ip \o n.dst_ip

\* The payload length is stored in the order of the host, and counts the header.
set_ipv6(n, length, protocol) ==
  LET flow == n.flow_label
  IN <<96 + ((n.priority \div 16) % 16), ((n.priority % 16) * 16) + (flow[2] % 16), flow[3], flow[4]>>
       \o HostWordOctets(length) \o <<protocol, n.hop_limit % 256>> \o n.src_ip \o n.dst_ip

set_arp(n) ==
  LET placed(octets, len, size) == Sized(SubSeq(octets, 1, len), size)
  IN WordOctets(ToUShort(n.hardtype)) \o WordOctets(ToUShort(n.prototype))
       \o <<n.hlen, n.plen>> \o WordOctets(ToUShort(n.operation))
       \o placed(n.sender_hardaddr, n.hlen, 6) \o placed(n.sender_protoaddr, n.plen, 4)
       \o placed(n.target_hardaddr, n.hlen, 6) \o placed(n.target_protoaddr, n.plen, 4)

\* Mutation: two flags change places.
tcp_flags_swapped(t) ==
  Flag(t.rsv1, 7) + Flag(t.rsv2, 6) + Flag(t.urg, 5) + Flag(t.ack, 4)
    + Flag(t.rst, 3) + Flag(t.psh, 2) + Flag(t.syn, 1) + Flag(t.fin, 0)

tcp_flags(t) ==
  Flag(t.rsv1, 7) + Flag(t.rsv2, 6) + Flag(t.urg, 5) + Flag(t.ack, 4)
    + Flag(t.psh, 3) + Flag(t.rst, 2) + Flag(t.syn, 1) + Flag(t.fin, 0)

\* The four bits next to th_off are not written.
set_tcp(t, payload, ip) ==
  LET segment(sum) ==
        WordOctets(ToUShort(t.src_port)) \o WordOctets(ToUShort(t.dst_port))
          \o t.sequence \o t.ack_num \o <<(5 * 16) + (Stale % 16), tcp_flags(t)>>
          \o WordOctets(ToUShort(t.window)) \o HostWordOctets(sum)
          \o WordOctets(ToUShort(t.urgent_pointer)) \o payload
  IN segment(in_cksum2(ip, TCPHDRLEN + Len(payload), Buffer(segment(0))))

set_udp(t, payload, ip) ==
  LET uh_ulen == UDPHDRLEN + Len(payload)
      datagram(sum) ==
        WordOctets(ToUShort(t.src_port)) \o WordOctets(ToUShort(t.dst_port))
          \o WordOctets(uh_ulen) \o HostWordOctets(sum) \o payload
      sum == in_cksum2(ip, uh_ulen, Buffer(datagram(0)))
  IN datagram(IF sum = 0 THEN 65535 ELSE sum)

\* The message of an error has the header that set_ip makes of the packet in
\* error, and four octets that nothing writes.  A type without a case gets its
\* type and code, and no length.
set_icmp(t, payload) ==
  LET idseq == WordOctets(ToUShort(t.id)) \o WordOctets(ToUShort(t.seq))
      n == t.ippacket
      quoted == IF n = NotSet THEN <<>>
                ELSE set_ip(n, StaleOctets(2), HostWordOctets(ip_off_value(n)), Stale, StaleOctets(2))
      rest == CASE t.type \in {ICMP_ECHOREPLY, ICMP_ECHO} -> idseq \o payload
                [] t.type = ICMP_REDIRECT -> t.redir_ip \o quoted \o StaleOctets(4)
                [] t.type \in {ICMP_UNREACH, ICMP_SOURCEQUENCH, ICMP_TIMXCEED, ICMP_PARAMPROB} ->
                     StaleOctets(4) \o quoted \o StaleOctets(4)
                [] t.type \in {ICMP_TSTAMP, ICMP_TSTAMPREPLY} -> idseq \o t.timestamps[1] \o t.timestamps[2] \o t.timestamps[3]
                [] t.type \in {ICMP_MASKREQ, ICMP_MASKREPLY} -> idseq \o t.subnetmask
                [] OTHER -> <<>>
      message(sum) == <<t.type, t.code>> \o sum \o rest
  IN IF rest = <<>> THEN Sized(message(<<>>), Len(payload))
     ELSE message(HostWordOctets(in_cksum(Buffer(message(<<0, 0>>)), 0, 4 + Len(rest))))

-----------------------------------------------------------------------------
(* Packets *)

\* The protocol that the header is given.
ProtocolOf(p) ==
  CASE p.class = "TCPPacket" -> IPPROTO_TCP [] p.class = "UDPPacket" -> IPPROTO_UDP
    [] p.class = "ICMPPacket" -> IPPROTO_ICMP [] OTHER -> p.network.protocol % 256

Carried(p, ip) ==
  CASE p.class = "TCPPacket" -> set_tcp(p.transport, p.data, ip)
    [] p.class = "UDPPacket" -> set_udp(p.transport, p.data, ip)
    [] p.class = "ICMPPacket" -> set_icmp(p.transport, p.data)
    [] OTHER -> p.data

\* Mutation: the length is that of what the header carries.
TotalWithoutHeader(hdrlen, carried) == Len(carried)

TotalLength(hdrlen, carried) == hdrlen + Len(carried)

\* The IPv4 header is there, but for length and checksum, when the checksum of
\* what it carries is calculated; its two swapped fields follow at the end.
IPv4Octets(p) ==
  LET n == p.network
      header(length, sum) ==
        set_ip(n, length, WordOctets(ip_off_value(n)), ProtocolOf(p), sum)
      carried == Carried(p, Buffer(header(<<0, 0>>, <<0, 0>>)))
      total == WordOctets(TotalLength(IPv4HDRLEN, carried))
  IN header(total, HostWordOctets(in_cksum(Buffer(header(total, <<0, 0>>)), 0, IPv4HDRLEN))) \o carried

IPv6Octets(p) ==
  LET header(length) == set_ipv6(p.network, length, ProtocolOf(p))
      carried == Carried(p, Buffer(header(0)))
  IN header(TotalLength(40, carried)) \o carried

IsIP(p) == p.class \in {"IPPacket", "TCPPacket", "UDPPacket", "ICMPPacket"}

\* Data behind an ARP packet is counted and not copied.
set_packet(p) ==
  CASE IsIP(p) -> IF p.network.version = 4 THEN IPv4Octets(p) ELSE IPv6Octets(p)
    [] p.class = "ARPPacket" -> Sized(set_arp(p.network), sizeof_ether_arp + Len(p.data))
    [] OTHER -> p.data

\* Through pcap, with the link header and padded to 60 octets; and an IP packet
\* through a raw socket.
SendPacket(p) ==
  LET octets == set_ether(p) \o set_packet(p)
  IN octets \o [i \in 1..(60 - Len(octets)) |-> 0]

SendPacketViaRawSocket(p) == set_packet(p)
=============================================================================
