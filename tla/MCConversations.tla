--------------------------- MODULE MCConversations --------------------------
EXTENDS Conversations, TLC

Symmetry == Permutations(Address)
=============================================================================
