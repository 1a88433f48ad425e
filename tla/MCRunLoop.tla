----------------------------- MODULE MCRunLoop ------------------------------
EXTENDS RunLoop, TLC
Symmetry == Permutations(Contents)
=============================================================================
