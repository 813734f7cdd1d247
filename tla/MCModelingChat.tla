--------------------------- MODULE MCModelingChat ---------------------------
EXTENDS ModelingChat, TLC

Symmetry == Permutations(Clients)
=============================================================================
