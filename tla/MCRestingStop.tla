--------------------------- MODULE MCRestingStop ---------------------------
EXTENDS RestingStop, TLC
Symmetry == Permutations(Threads)
=============================================================================
