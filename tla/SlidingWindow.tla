----------------------------- MODULE SlidingWindow -----------------------------
(***************************************************************************)
(* What app/services/rate_limiter promises: "a fixed-size sliding window   *)
(* of timestamps per user plus a global window".  The specification keeps  *)
(* every grant ever given and never forgets one; a call is granted when    *)
(* fewer than the limit of them fall in the window that ends now.          *)
(***************************************************************************)
EXTENDS Integers, Sequences, FiniteSets

CONSTANTS Users, PerUser, GlobalLimit, Window, MaxTime

VARIABLES
    now,
    granted,        \* the times of all grants, in order
    grantedTo,      \* the same, per user
    verdict         \* what the last caller was told

windowVars == <<now, granted, grantedTo, verdict>>

\* The grants of a log that are younger than one window at time t.
InWindow(log, t) == {i \in DOMAIN log : log[i] > t - Window}

Room(log, limit) == Cardinality(InWindow(log, now)) < limit

Verdict(u, allowed, scope) == [user |-> u, allowed |-> allowed, scope |-> scope]

Init ==
    /\ now = 0
    /\ granted = <<>>
    /\ grantedTo = [u \in Users |-> <<>>]
    /\ verdict \in {Verdict(u, TRUE, "none") : u \in Users}

Admit(u) ==
    /\ Room(granted, GlobalLimit)
    /\ Room(grantedTo[u], PerUser)
    /\ granted' = Append(granted, now)
    /\ grantedTo' = [grantedTo EXCEPT ![u] = Append(@, now)]
    /\ verdict' = Verdict(u, TRUE, "none")
    /\ UNCHANGED now

\* The global limit is the one reported when both are reached.
Refuse(u) ==
    /\ \/ ~Room(granted, GlobalLimit) /\ verdict' = Verdict(u, FALSE, "global")
       \/ /\ Room(granted, GlobalLimit)
          /\ ~Room(grantedTo[u], PerUser)
          /\ verdict' = Verdict(u, FALSE, "user")
    /\ UNCHANGED <<now, granted, grantedTo>>

Tick ==
    /\ now < MaxTime
    /\ now' = now + 1
    /\ UNCHANGED <<granted, grantedTo, verdict>>

Next ==
    \/ \E u \in Users : Admit(u) \/ Refuse(u)
    \/ Tick

Spec == Init /\ [][Next]_windowVars
================================================================================
