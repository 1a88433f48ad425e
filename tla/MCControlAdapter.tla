-------------------------- MODULE MCControlAdapter --------------------------
(***************************************************************************)
(* Every command of at most two arguments with clusters of two letters     *)
(* (of three arguments with single letters) is configured as a gate, the   *)
(* options with an attached value aside: Attached adds them.               *)
(***************************************************************************)
EXTENDS ControlAdapter

CONSTANT Attached

Alone(a) == Occurs(a, {"W"}) => a.letters = <<"W">>

Lists(kind, length, most) ==
  UNION {[1..n -> Arguments(kind, most)] : n \in 0..length}

MCCommands ==
  {c \in Interpreters \X UNION {Lists(k, 3, 1) \cup Lists(k, 2, 2) :
                                  k \in Interpreters} :
     /\ c[2] \in Lists(c[1], 3, 1) \cup Lists(c[1], 2, 2)
     /\ Attached \/ \A i \in DOMAIN c[2] : Alone(c[2][i])}
=============================================================================
