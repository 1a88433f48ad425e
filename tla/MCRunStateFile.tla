--------------------------- MODULE MCRunStateFile ---------------------------
(***************************************************************************)
(* Three inodes: state.json, a temporary file, and the old file a reader   *)
(* has open or the file a killed writer left, so that inodes are reused as *)
(* soon as they are free, and a full directory makes a write fail.         *)
(* The theorems of RunStateFileProofs hold for any number.  Which inode is *)
(* which does not matter.                                                  *)
(***************************************************************************)
EXTENDS RunStateFile, TLC
InodeSymmetry == Permutations(Inodes)
=============================================================================
