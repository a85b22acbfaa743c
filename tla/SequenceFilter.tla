----------------------------- MODULE SequenceFilter -----------------------------
(***************************************************************************)
(* Filtering a sequence by a set.  SelectSeq does the same by an operator, *)
(* which the proofs could not expand.                                      *)
(***************************************************************************)
EXTENDS Integers, Sequences, SequencesExt

\* The elements of s that are in S, in their order.
Keep(s, S) == FlattenSeq([i \in DOMAIN s |-> IF s[i] \in S THEN <<s[i]>> ELSE <<>>])
================================================================================
