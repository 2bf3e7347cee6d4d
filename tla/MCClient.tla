------------------------------ MODULE MCClient ------------------------------
EXTENDS CasambiClient, TLC
Symmetry == Permutations(Callers)

\* Bound of the run that fails: links made, links lost and calls cancelled.
MaxTrouble == 3
FewTroubles == links + drops + cancels <= MaxTrouble
=============================================================================
