------------------------------- MODULE MCListener -------------------------------
(* Instances of the listener for TLC. *)
EXTENDS Listener

Words    == <<"one", "two", "three">>
Contents == <<"file1", "file2", "file3">>
================================================================================
