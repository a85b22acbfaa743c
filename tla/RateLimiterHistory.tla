-------------------------- MODULE RateLimiterHistory --------------------------
(***************************************************************************)
(* RateLimiter with the history of its grants.  The program forgets grants *)
(* (it prunes deques, sweeps users and never looks back further than a     *)
(* deque); the two history variables remember them all, so that what the   *)
(* limiter promises can be stated about every stretch of time.             *)
(***************************************************************************)
EXTENDS RateLimiter

VARIABLES
    granted,        \* the times of all grants, in order
    grantedTo       \* the same, per user

historyVars == <<now, user_hits, global_hits, last_sweep, result, granted, grantedTo>>

HInit ==
    /\ Init
    /\ granted = <<>>
    /\ grantedTo = [u \in Users |-> <<>>]

HTryAcquire(u) ==
    /\ TryAcquire(u)
    /\ granted' = IF result'.allowed THEN Append(granted, now) ELSE granted
    /\ grantedTo' = IF result'.allowed
                    THEN [grantedTo EXCEPT ![u] = Append(@, now)]
                    ELSE grantedTo

HOther == (GlobalCount \/ Tick) /\ UNCHANGED <<granted, grantedTo>>

HNext == (\E u \in Users : HTryAcquire(u)) \/ HOther

HSpec == HInit /\ [][HNext]_historyVars

--------------------------------------------------------------------------------
\* Any limit + 1 consecutive grants of the log span at least one window.
Spaced(log, limit) ==
    \A i \in DOMAIN log : i + limit \in DOMAIN log => log[i + limit] - log[i] >= Window

\* The guarantee of the limiter: in no window of time, wherever it starts, are there
\* more than global_limit grants, nor more than per_user to one user - although the
\* deques it decides by are pruned by whoever calls, swept and deleted.
GrantsSpaced ==
    /\ Spaced(granted, GlobalLimit)
    /\ \A u \in Users : Spaced(grantedTo[u], PerUser)

\* The inductive form: a deque is what is left of its log once a prefix that has
\* expired is dropped, and a log is in time order.
Remembers(hits, log, t) ==
    \E d \in 0..Len(log) :
        /\ Len(hits) = Len(log) - d
        /\ \A i \in 1..Len(hits) : hits[i] = log[d + i]
        /\ \A i \in 1..d : log[i] <= t - Window

Ordered(log, t) ==
    /\ \A i \in DOMAIN log : log[i] <= t
    /\ \A i, j \in DOMAIN log : i <= j => log[i] <= log[j]

\* What the deques hold is exactly what the decisions need: nothing younger than a
\* window is ever forgotten, by a call, by the sweep or by global_count.
NothingForgotten ==
    /\ Ordered(granted, now)
    /\ Remembers(global_hits, granted, now)
    /\ \A u \in Users :
          /\ Ordered(grantedTo[u], now)
          /\ Remembers(HitsOf(user_hits, u), grantedTo[u], now)

\* The limiter implements the sliding window that forgets nothing: same grants, and
\* the same answer (allowed, or which limit refused) to every call.
Abstract == INSTANCE SlidingWindow WITH
    verdict <- [user |-> result.user, allowed |-> result.allowed, scope |-> result.scope]

ImplementsSlidingWindow == Abstract!Spec
================================================================================
