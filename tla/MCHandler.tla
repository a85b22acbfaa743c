------------------------------- MODULE MCHandler -------------------------------
(***************************************************************************)
(* MessageHandler for TLC.  The requests are interchangeable.              *)
(***************************************************************************)
EXTENDS MessageHandler, TLC

RequestSymmetry == Permutations(Requests)

Configured(mode, webhook, llm) == [mode |-> mode, webhook |-> webhook, llm |-> llm]

\* Results in the channel, descriptions on the webhook.
Describing == {Configured("bot", TRUE, TRUE)}
================================================================================
