------------------------------ MODULE MCLimiter ------------------------------
(***************************************************************************)
(* RateLimiterHistory for TLC.  The users are interchangeable.             *)
(***************************************************************************)
EXTENDS RateLimiterHistory, TLC

UserSymmetry == Permutations(Users)
================================================================================
