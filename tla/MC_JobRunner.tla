---------------------------- MODULE MC_JobRunner ----------------------------
(***************************************************************************)
(* JobRunner on small instances.                                           *)
(***************************************************************************)
EXTENDS JobRunner, TLC

CallerSymmetry == Permutations(Callers)
=============================================================================
