------------------------------ MODULE Packets ------------------------------
(***************************************************************************)
(* The packets that travel from the jpcap library to the Scanner window.   *)
(* A packet is a value of the constant set Packet; all that a capture      *)
(* session can tell of it is its Java class, given by Class.               *)
(*                                                                         *)
(*   "TCP" "UDP" "ICMP" "ARP"  an object of the subclass of that name      *)
(*   "IP"        an IPPacket of no finer class (IGMP, ICMPv6, ...)         *)
(*   "fragment"  an IPPacket of no finer class whose protocol field says   *)
(*               TCP, UDP or ICMP: get_packet makes one of every fragment  *)
(*               but the first, and of a truncated header                  *)
(*   "raw"       an object of class Packet itself: neither IP nor ARP      *)
(***************************************************************************)
CONSTANTS Packet, Class

Classes == {"TCP", "UDP", "ICMP", "ARP", "IP", "fragment", "raw"}

ASSUME PacketAssumption == Class \in [Packet -> Classes]

Protocols == {"TCP", "UDP", "ICMP", "ARP"}

\* The statistics of PacketManager: one number per protocol and the total.
Counters == Protocols \cup {"total"}

\* The protocol statistic a packet belongs to.  An IP packet of no finer class
\* is put with ICMP.  Only packets for which Displayable holds are counted.
CounterOf(p) == IF Class[p] \in Protocols THEN Class[p] ELSE "ICMP"

\* toString() of a plain Packet is a time stamp of at most 17 characters; that
\* of every subclass is longer than the 20 characters the capture loop asks for.
Displayable(p) == Class[p] # "raw"

\* formatPacketInfo casts an IPPacket to the class its protocol field names; the
\* cast of a fragment throws a ClassCastException.
Formattable(p) == Class[p] # "fragment"
=============================================================================
