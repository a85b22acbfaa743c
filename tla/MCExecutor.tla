------------------------------ MODULE MCExecutor ------------------------------
(***************************************************************************)
(* SubprocessExecutor for TLC.                                             *)
(***************************************************************************)
EXTENDS SubprocessExecutor
================================================================================
