--------------------------- MODULE MCCoordinator ---------------------------
EXTENDS Coordinator, TLC
Symmetry == Permutations(Commands)
=============================================================================
