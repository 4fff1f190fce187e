----------------------------- MODULE MCTraffic -----------------------------
(* The packets of the runs of FilterPanel and PacketViewer: a request and   *)
(* its reply over TCP, a stranger who asks the same server port elsewhere,  *)
(* and packets without ports.                                               *)
EXTENDS PacketFilter

CONSTANTS request, reply, stranger, query, arp, part, a, b, c

MCClass ==
  [p \in Packet |-> CASE p \in {request, reply, stranger} -> "TCP"
                      [] p = query -> "UDP"
                      [] p = arp   -> "ARP"
                      [] p = part  -> "fragment"]

MCProtocol ==
  [p \in Packet |-> CASE p \in {request, reply, stranger, part} -> "TCP"
                      [] p = query -> "UDP"
                      [] p = arp   -> "none"]

MCSrcIP == [p \in Packet |-> CASE p = arp   -> NoAddress
                               [] p = reply -> b
                               [] OTHER     -> a]
MCDstIP == [p \in Packet |-> CASE p = arp      -> NoAddress
                               [] p = reply    -> a
                               [] p = stranger -> c
                               [] OTHER        -> b]

MCSrcPort == [p \in Packet |-> CASE p = reply    -> 80
                                 [] p = stranger -> 5001
                                 [] p \in {request, query} -> 5000
                                 [] OTHER        -> 0]
MCDstPort == [p \in Packet |-> CASE p = reply -> 5000
                                 [] p \in {request, stranger} -> 80
                                 [] p = query -> 53
                                 [] OTHER     -> 0]

\* Text, octets that are none, a line feed; a payload of one octet, and none.
MCData == [p \in Packet |-> CASE p = request  -> <<71, 7, 10, 33>>
                              [] p = reply    -> <<72>>
                              [] p = stranger -> <<-1, 126, 65>>
                              [] OTHER        -> <<>>]

Addresses == {a, b, c}
=============================================================================
