--------------------------- MODULE MCIntegration ----------------------------
(* The entries of a manifest, the sessions and the commits of others are   *)
(* interchangeable.                                                        *)
EXTENDS Integration, TLC
Symmetry ==
  Permutations(Files) \cup Permutations(Sessions) \cup Permutations(Foreign)
=============================================================================
