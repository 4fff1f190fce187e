---------------------------- MODULE HeaderFields ----------------------------
(***************************************************************************)
(* What the analyze functions of jpcap read from the headers of a frame    *)
(* and hand to the setters of a packet object: packet_datalink.c,          *)
(* packet_ip.c, packet_ipv6.c, packet_arp.c, packet_tcp.c, packet_udp.c    *)
(* and packet_icmp.c, with the headers laid out as in include/.  Each is a *)
(* record of fields, "by" the setter that stores them; "at" is where the   *)
(* header starts.                                                          *)
(*                                                                         *)
(* The C code reads some fields as they lie in memory and some through     *)
(* ntohs, so what it stores depends on the byte order of the host.         *)
(***************************************************************************)
EXTENDS Octets

DLT_EN10MB == 1
DLT_IEEE802 == 6
DLT_RAW == 12

ETHERTYPE_IP == 2048
ETHERTYPE_ARP == 2054
ETHERTYPE_REVARP == 32821
ETHERTYPE_IPV6 == 34525

IPPROTO_HOPOPTS == 0
IPPROTO_ICMP == 1
IPPROTO_TCP == 6
IPPROTO_UDP == 17
IPPROTO_ROUTING == 43
IPPROTO_FRAGMENT == 44
IPPROTO_ESP == 50
IPPROTO_AH == 51
IPPROTO_NONE == 59
IPPROTO_DSTOPTS == 60

IPv4HDRLEN == 20
TCPHDRLEN == 20
UDPHDRLEN == 8
ICMPHDRLEN == 8
sizeof_arphdr == 8

ICMP_ECHOREPLY == 0
ICMP_UNREACH == 3
ICMP_SOURCEQUENCH == 4
ICMP_REDIRECT == 5
ICMP_ECHO == 8
ICMP_TIMXCEED == 11
ICMP_PARAMPROB == 12
ICMP_TSTAMP == 13
ICMP_TSTAMPREPLY == 14
ICMP_MASKREQ == 17
ICMP_MASKREPLY == 18

\* Nothing was stored.
NotSet == [by |-> "none"]

Ethernet(f) ==
  [by |-> "EthernetPacket", dst_mac |-> OctetsAt(f, 0, 6),
   src_mac |-> OctetsAt(f, 6, 6), frametype |-> ToShort(WordAt(f, 12))]

analyze_datalink(f, link) ==
  IF link = DLT_EN10MB THEN Ethernet(f) ELSE [by |-> "DatalinkPacket"]

ip_hl(f, at) == OctetAt(f, at) % 16
ip_off(f, at) == WordAt(f, at + 6)
ip_p(f, at) == OctetAt(f, at + 9)

\* The option is what the header has after its first 20 octets.  The three flags
\* are tested on the field as it lies in memory.
analyze_ip(f, at) ==
  LET tos == OctetAt(f, at + 1)
      off == HostWordAt(f, at + 6)
      hdrlen == ip_hl(f, at) * 4
  IN [by |-> "setIPv4Value", version |-> 4, priority |-> tos \div 32,
      d_flag |-> Bit(tos, 4), t_flag |-> Bit(tos, 3), r_flag |-> Bit(tos, 2),
      rsv_tos |-> tos % 4,
      rsv_frag |-> Bit(off, 15), dont_frag |-> Bit(off, 14), more_frag |-> Bit(off, 13),
      offset |-> ip_off(f, at) % 8192,
      length |-> ToShort(WordAt(f, at + 2)), ident |-> ToShort(WordAt(f, at + 4)),
      hop_limit |-> OctetAt(f, at + 8), protocol |-> ip_p(f, at),
      src_ip |-> OctetsAt(f, at + 12, 4), dst_ip |-> OctetsAt(f, at + 16, 4),
      option |-> IF hdrlen > IPv4HDRLEN
                   THEN OctetsAt(f, at + IPv4HDRLEN, hdrlen - IPv4HDRLEN) ELSE <<>>]

ip6_plen(f, at) == WordAt(f, at + 4)
ip6_nxt(f, at) == OctetAt(f, at + 6)

\* The class is converted to a jbyte before it is shifted, and is 0 whatever it
\* was; the flow label is masked before its octets are put in order.
Ip6Fields(f, at) ==
  [by |-> "setIPv6Value", version |-> 6, priority |-> 0,
   flow_label |->
     IF LittleEndian
       THEN <<OctetAt(f, at), OctetAt(f, at + 1), OctetAt(f, at + 2) % 16, 0>>
       ELSE <<0, OctetAt(f, at + 1) % 16, OctetAt(f, at + 2), OctetAt(f, at + 3)>>,
   length |-> ToShort(ip6_plen(f, at)), protocol |-> ToByte(ip6_nxt(f, at)),
   hop_limit |-> OctetAt(f, at + 7),
   src_ip |-> OctetsAt(f, at + 8, 16), dst_ip |-> OctetsAt(f, at + 24, 16)]

\* The headers between the IPv6 header and what it carries.
IsExtension(proto) ==
  proto \in {IPPROTO_HOPOPTS, IPPROTO_DSTOPTS, IPPROTO_ROUTING, IPPROTO_AH, IPPROTO_FRAGMENT}

ip6e_nxt(f, at) == OctetAt(f, at)
ip6e_len(f, at) == OctetAt(f, at + 1)

\* Mutation: the length of every extension header counts 8 octets.
LengthInWords(f, at, proto) == (ip6e_len(f, at) + 1) * 8

ExtensionLength(f, at, proto) ==
  CASE proto \in {IPPROTO_HOPOPTS, IPPROTO_DSTOPTS, IPPROTO_ROUTING} ->
         (ip6e_len(f, at) + 1) * 8
    [] proto = IPPROTO_AH -> (ip6e_len(f, at) + 2) * 4
    [] OTHER -> 8

\* How far the loop over the addresses of a routing header moves "data".
RoutingAdvance(f, at, proto) ==
  IF proto = IPPROTO_ROUTING THEN (ip6e_len(f, at) \div 2) * 16 ELSE 0

\* The IPv6Option of the extension at "at".  Every address of a routing header
\* is read at the same place, and the two pointers that are added to are not
\* pointers to octets: the options are read 4, and 96, octets into the header.
IPv6Option(f, at, proto) ==
  LET next == ToByte(ip6e_nxt(f, at))
      len == ip6e_len(f, at)
  IN CASE proto \in {IPPROTO_HOPOPTS, IPPROTO_DSTOPTS} ->
            [type |-> proto, next_header |-> next, hlen |-> ToByte(len),
             option |-> OctetsAt(f, at + 4, len)]
       [] proto = IPPROTO_ROUTING ->
            [type |-> proto, next_header |-> next, hlen |-> ToByte(len),
             routing_type |-> ToByte(OctetAt(f, at + 2)), hop_left |-> ToByte(OctetAt(f, at + 3)),
             addrs |-> [i \in 1..(len \div 2) |-> OctetsAt(f, at + 8, 16)]]
       [] proto = IPPROTO_FRAGMENT ->
            [type |-> proto, next_header |-> next, hlen |-> ToByte(len),
             offset |-> ToShort((WordAt(f, at + 2) \div 8) * 8), m_flag |-> Bit(WordAt(f, at + 2), 0),
             identification |-> LongAt(f, at + 4)]
       [] OTHER ->
            [type |-> proto, next_header |-> next, hlen |-> ToByte(len),
             spi |-> LongAt(f, at + 4), sequence |-> LongAt(f, at + 8),
             option |-> OctetsAt(f, at + 96, len)]

arp_hln(f, at) == OctetAt(f, at + 4)
arp_pln(f, at) == OctetAt(f, at + 5)
ArpLength(f, at) == sizeof_arphdr + arp_hln(f, at) * 2 + arp_pln(f, at) * 2

analyze_arp(f, at) ==
  LET hl == arp_hln(f, at)
      pl == arp_pln(f, at)
      addresses == at + sizeof_arphdr
  IN [by |-> "ARPPacket", hardtype |-> ToShort(WordAt(f, at)),
      prototype |-> ToShort(WordAt(f, at + 2)), hlen |-> hl, plen |-> pl,
      operation |-> ToShort(WordAt(f, at + 6)),
      sender_hardaddr |-> OctetsAt(f, addresses, hl),
      sender_protoaddr |-> OctetsAt(f, addresses + hl, pl),
      target_hardaddr |-> OctetsAt(f, addresses + hl + pl, hl),
      target_protoaddr |-> OctetsAt(f, addresses + 2 * hl + pl, pl)]

th_off(f, at) == OctetAt(f, at + 12) \div 16

analyze_tcp(f, at) ==
  LET flags == OctetAt(f, at + 13)
      hdrlen == th_off(f, at) * 4
  IN [by |-> "TCPPacket", src_port |-> WordAt(f, at), dst_port |-> WordAt(f, at + 2),
      sequence |-> LongAt(f, at + 4), ack_num |-> LongAt(f, at + 8),
      rsv1 |-> Bit(flags, 7), rsv2 |-> Bit(flags, 6), urg |-> Bit(flags, 5),
      ack |-> Bit(flags, 4), psh |-> Bit(flags, 3), rst |-> Bit(flags, 2),
      syn |-> Bit(flags, 1), fin |-> Bit(flags, 0),
      window |-> WordAt(f, at + 14), urgent_pointer |-> ToShort(WordAt(f, at + 18)),
      option |-> IF hdrlen > TCPHDRLEN
                   THEN OctetsAt(f, at + TCPHDRLEN, hdrlen - TCPHDRLEN) ELSE <<>>]

analyze_udp(f, at) ==
  [by |-> "UDPPacket", src_port |-> WordAt(f, at), dst_port |-> WordAt(f, at + 2),
   length |-> WordAt(f, at + 4)]

\* analyze_icmp as the headers of include/ build it, which do not define
\* icmp_num_addrs: a router advertisement has no case of its own.  setICMPValue
\* takes five arguments and gets three: left and left2 are found in the places of
\* the others.  Of id and sequence number one octet is kept.
analyze_icmp(f, at, clen, left, left2) ==
  LET type == OctetAt(f, at)
      hasID == type \in {ICMP_ECHOREPLY, ICMP_ECHO} \/ type > ICMP_PARAMPROB
      quotes == type \in {ICMP_REDIRECT, ICMP_UNREACH, ICMP_SOURCEQUENCH, ICMP_TIMXCEED, ICMP_PARAMPROB}
  IN [by |-> "ICMPPacket", type |-> ToByte(type), code |-> ToByte(OctetAt(f, at + 1)),
      checksum |-> ToShort(HostWordAt(f, at + 2)),
      id |-> IF hasID THEN ToShort(HostWordAt(f, at + 4)) \div 256 ELSE left,
      seq |-> IF hasID THEN ToShort(HostWordAt(f, at + 6)) \div 256 ELSE left2,
      redir_ip |-> IF type = ICMP_REDIRECT THEN LongAt(f, at + 4) ELSE <<>>,
      mtu |-> IF type \in {ICMP_REDIRECT, ICMP_UNREACH} THEN ToShort(HostWordAt(f, at + 6)) ELSE 0,
      ippacket |-> IF quotes /\ ToUShort(clen) >= IPv4HDRLEN + 16
                     THEN analyze_ip(f, at + 8) ELSE NotSet,
      timestamps |-> IF type \in {ICMP_TSTAMP, ICMP_TSTAMPREPLY}
                       THEN [i \in 1..3 |-> HostLongAt(f, at + 4 + 4 * i)] ELSE <<>>,
      subnetmask |-> IF type \in {ICMP_MASKREQ, ICMP_MASKREPLY}
                       THEN HostLongAt(f, at + 8) ELSE <<>>]
=============================================================================
