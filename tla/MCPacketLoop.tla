---------------------------- MODULE MCPacketLoop ----------------------------
EXTENDS PacketLoop, TLC

Symmetry == Permutations(Captors) \cup Permutations(Threads)

OneAndEndless == {1, -1}
=============================================================================
