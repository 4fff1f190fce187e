-------------------------- MODULE MCCaptureSession --------------------------
(* CaptureSession with the constants that its TLC runs use. *)
EXTENDS CaptureSession, TLC

CONSTANTS t1, t2, tcp, udp, arp, part

OneThread  == {t1}
TwoThreads == {t1, t2}

OnePacket   == {tcp}
\* One that a filter passes, and one that cannot be formatted.
MixedPackets == {tcp, part}

MCClass ==
  [p \in Packet |-> CASE p = tcp  -> "TCP"
                      [] p = udp  -> "UDP"
                      [] p = arp  -> "ARP"
                      [] p = part -> "fragment"]

TCPFilter == {{p \in Packet : Class[p] = "TCP"}}
SavedPart == {<<part>>}

ThreadSymmetry == Permutations(Thread)
=============================================================================
