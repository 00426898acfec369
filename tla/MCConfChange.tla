---------------------------- MODULE MCConfChange ----------------------------
EXTENDS ConfChange, TLC

CONSTANTS n1, n2, n3

MCIds == {n1, n2, n3}
Symmetry == Permutations(MCIds)
=============================================================================
