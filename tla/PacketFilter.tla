---------------------------- MODULE PacketFilter ----------------------------
(***************************************************************************)
(* The packet filter of PacketManager: which packets of a capture pass a   *)
(* filter (populateFilteredPackets, filterProtocolCheck, filterIPCheck).   *)
(* An address, in a packet or in a filter, is a value of Address.          *)
(***************************************************************************)
EXTENDS Integers, Sequences, Packets

CONSTANTS
  Protocol,          \* the protocol field of each packet
  Address, NoAddress,
  SrcIP, DstIP,      \* addresses of each packet, NoAddress when it is ARP
  SrcPort, DstPort   \* ports of each packet, 0 when it is neither TCP nor UDP

IPProtocols == {"TCP", "UDP", "ICMP", "IGMP", "ICMPv6", "none"}

PortNumber == 0..65535

ASSUME FilterAssumption ==
  /\ NoAddress \notin Address
  /\ Protocol \in [Packet -> IPProtocols]
  /\ \A p \in Packet : /\ Class[p] = "fragment" => Protocol[p] \in {"TCP", "UDP", "ICMP"}
                       /\ Class[p] \in {"TCP", "UDP", "ICMP"} => Protocol[p] = Class[p]
  /\ SrcIP \in [Packet -> Address \cup {NoAddress}]
  /\ DstIP \in [Packet -> Address \cup {NoAddress}]
  /\ SrcPort \in [Packet -> PortNumber] /\ DstPort \in [Packet -> PortNumber]

HasPorts(p) == Class[p] \in {"TCP", "UDP"}

\* The ends of a packet that a filter may name.
Ends == {"source", "destination"}

Filter == [protocols : SUBSET Protocols, ip : Address \cup {NoAddress},
           port : Int, ends : SUBSET Ends]

NoFilter == [protocols |-> {}, ip |-> NoAddress, port |-> -1, ends |-> {}]

NamesEnd(f) == f.port > 0 \/ f.ip # NoAddress

FilterProtocolCheck(f, p) ==
  \/ /\ Class[p] # "ARP"
     /\ \/ "ICMP" \in f.protocols /\ Protocol[p] \in {"ICMPv6", "ICMP", "IGMP"}
        \/ "TCP" \in f.protocols /\ Protocol[p] = "TCP"
        \/ "UDP" \in f.protocols /\ Protocol[p] = "UDP"
  \/ "ARP" \in f.protocols /\ Class[p] = "ARP"

\* Mutation: the port or the address is enough.
EitherFits(f, ports, ips) ==
  \/ f.port > 0 /\ f.port \in ports
  \/ f.ip # NoAddress /\ f.ip \in ips

\* The port and the address the filter asks for, if any, are among these.
EndFits(f, ports, ips) ==
  /\ f.port > 0 => f.port \in ports
  /\ f.ip # NoAddress => f.ip \in ips

FilterIPCheck(f, p) ==
  /\ HasPorts(p)
  /\ f.ends = {} => EndFits(f, {SrcPort[p], DstPort[p]}, {SrcIP[p], DstIP[p]})
  /\ "source" \in f.ends => EndFits(f, {SrcPort[p]}, {SrcIP[p]})
  /\ "destination" \in f.ends => EndFits(f, {DstPort[p]}, {DstIP[p]})

\* ARP packets pass whatever the address.
Passes(f, p) ==
  /\ f.protocols # {} => FilterProtocolCheck(f, p)
  /\ NamesEnd(f) /\ Class[p] # "ARP" => FilterIPCheck(f, p)

\* What a loop over the list s makes that adds what is in K.
Kept(s, K) ==
  LET upTo[n \in 0..Len(s)] ==
        IF n = 0 THEN <<>>
        ELSE IF s[n] \in K THEN Append(upTo[n - 1], s[n]) ELSE upTo[n - 1]
  IN  upTo[Len(s)]

FilteredPackets(f, s) == Kept(s, {p \in Packet : Passes(f, p)})
=============================================================================
