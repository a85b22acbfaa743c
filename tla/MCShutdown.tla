------------------------------ MODULE MCShutdown ------------------------------
(***************************************************************************)
(* Shutdown for TLC.                                                       *)
(***************************************************************************)
EXTENDS Shutdown

\* The configured model is one of those that the code falls back on.
ThreeFallbacks == <<"a", "b", "c">>
================================================================================
