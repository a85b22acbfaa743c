-------------------------------- MODULE MCGuard --------------------------------
(***************************************************************************)
(* ConcurrencyGuard for TLC.  The tasks are interchangeable.               *)
(***************************************************************************)
EXTENDS ConcurrencyGuard, TLC

TaskSymmetry == Permutations(Tasks)
================================================================================
