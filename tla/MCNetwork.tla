----------------------------- MODULE MCNetwork -----------------------------
EXTENDS Network, TLC
Symmetry == Permutations(Instances)
=============================================================================
