--------------------------- MODULE MCPacketViewer ---------------------------
(* PacketViewer with the constants that its TLC runs use. *)
EXTENDS PacketViewer, MCTraffic

ViewPackets == {request, reply, stranger, query, arp, part}
ViewFiles   == {<<request, arp, reply>>, <<part, query, stranger>>}
OneOrBad    == {a, BadText}
PortOrBad   == {80, BadText}
=============================================================================
