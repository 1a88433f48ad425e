------------------------------ MODULE MCOutbox ------------------------------
(***************************************************************************)
(* Every report of at most four lines, of the lengths at which a line or a *)
(* chunk is just full or just too long, that has one or two parts.  The    *)
(* bridges of a bot are interchangeable.                                   *)
(***************************************************************************)
EXTENDS Outbox, TLC

Lengths == {1, 1737, 1738, 3427, 3474, 3475, 3476, 3477}
MCReports ==
  {report \in UNION {[1..n -> Lengths] : n \in 1..4} :
     Len(Split(report)) <= 2}

Symmetry == Permutations(Bridges)
=============================================================================
