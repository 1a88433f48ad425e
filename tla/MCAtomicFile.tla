---------------------------- MODULE MCAtomicFile ----------------------------
(* Writers are interchangeable. *)
EXTENDS AtomicFile, TLC
Symmetry == Permutations(Writers)
=============================================================================
