---------------------------- MODULE MCHumanGate -----------------------------
(***************************************************************************)
(* One runner and two bot processes race at one gate, with two deaths, one *)
(* edit of the worktree, two failures and an extended budget.  A run that  *)
(* is decided may be at rest: deadlock is not checked.                     *)
(***************************************************************************)
EXTENDS HumanGate
=============================================================================
