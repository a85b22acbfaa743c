------------------------------ MODULE RateLimiter ------------------------------
(***************************************************************************)
(* The in-memory sliding-window rate limiter of app/services/rate_limiter. *)
(*                                                                         *)
(* One deque of timestamps per user, one for everybody, and a periodic     *)
(* sweep of the per-user dictionary.  A deque is a sequence whose head is  *)
(* its left end; the defaultdict is a function whose DOMAIN is the set of  *)
(* keys that are present.  try_acquire has no await, so a call is one      *)
(* step.  Time is an integer: the code only compares and subtracts it.     *)
(***************************************************************************)
EXTENDS Integers, Sequences, FiniteSets

CONSTANTS
    Users,          \* the ids that may appear as message.author.id
    PerUser,        \* per_user, after max(1, int(...))
    GlobalLimit,    \* global_limit, after max(1, int(...))
    Window,         \* window: unvalidated, so any integer
    MaxTime         \* bound on the clock

ASSUME LimiterAssumption ==
    /\ PerUser \in Nat \ {0}
    /\ GlobalLimit \in Nat \ {0}
    /\ Window \in Int
    /\ MaxTime \in Nat

VARIABLES
    now,            \* time.monotonic()
    user_hits,      \* _user_hits: present users -> timestamps, oldest first
    global_hits,    \* _global_hits
    last_sweep,     \* _last_sweep
    result          \* the last call: who asked, and the RateLimitResult

limiterVars == <<now, user_hits, global_hits, last_sweep, result>>

Scopes == {"none", "user", "global"}

--------------------------------------------------------------------------------
\* Mutants of Expired: the comparison with the cutoff made strict, and a cutoff one
\* second too late.
ExpiredStrict(hits, t) ==
    CHOOSE k \in 0..Len(hits) :
        /\ \A i \in 1..k : hits[i] < t - Window
        /\ k < Len(hits) => hits[k + 1] >= t - Window

ExpiredEarly(hits, t) ==
    CHOOSE k \in 0..Len(hits) :
        /\ \A i \in 1..k : hits[i] <= t - Window + 1
        /\ k < Len(hits) => hits[k + 1] > t - Window + 1

\* _prune: the number of hits popped from the left before one is inside the
\* window, and what is left of the deque.
Expired(hits, t) ==
    CHOOSE k \in 0..Len(hits) :
        /\ \A i \in 1..k : hits[i] <= t - Window
        /\ k < Len(hits) => hits[k + 1] > t - Window

Prune(hits, t) == SubSeq(hits, Expired(hits, t) + 1, Len(hits))

\* Mutant of SweepDue: the operands of the subtraction swapped.
SweepDueSwapped(t) == last_sweep - t >= Window

\* _maybe_sweep: once per window every deque is pruned and the users whose
\* deque became empty are deleted from the dictionary.
SweepDue(t) == t - last_sweep >= Window

\* Mutant of AfterSweep: a user is deleted as soon as the oldest timestamp has expired.
AfterSweepByOldest(t) ==
    IF SweepDue(t)
    THEN [u \in {v \in DOMAIN user_hits : Expired(user_hits[v], t) = 0} |-> user_hits[u]]
    ELSE user_hits

AfterSweep(t) ==
    IF SweepDue(t)
    THEN [u \in {v \in DOMAIN user_hits : Prune(user_hits[v], t) # <<>>} |->
             Prune(user_hits[u], t)]
    ELSE user_hits

\* defaultdict(deque): reading an absent key yields (and stores) an empty deque.
HitsOf(dict, u) == IF u \in DOMAIN dict THEN dict[u] ELSE <<>>

Store(dict, u, hits) ==
    [v \in DOMAIN dict \cup {u} |-> IF v = u THEN hits ELSE dict[v]]

\* Mutant of RetryAfter: the newest timestamp instead of the oldest.
RetryAfterNewest(hits, t) == Window - (t - hits[Len(hits)])

\* max(0.0, window - (now - hits[0]))
RetryAfter(hits, t) ==
    LET left == Window - (t - hits[1]) IN IF left > 0 THEN left ELSE 0

Answer(u, allowed, scope, retry) ==
    [user |-> u, allowed |-> allowed, scope |-> scope, retry_after |-> retry]

--------------------------------------------------------------------------------
Init ==
    /\ now = 0
    /\ user_hits = [u \in {} |-> <<>>]
    /\ global_hits = <<>>
    /\ last_sweep = 0
    /\ result \in {Answer(u, TRUE, "none", 0) : u \in Users}

\* The three outcomes of try_acquire, after the sweep: `swept` is the dictionary,
\* `all` the pruned global deque and `mine` the caller's pruned deque.
DenyGlobal(u, swept, all) ==
    /\ Len(all) >= GlobalLimit
    /\ user_hits' = swept
    /\ global_hits' = all
    /\ result' = Answer(u, FALSE, "global", RetryAfter(all, now))

\* per_user >= 1, so a denied user's deque is never the empty one that the code
\* would delete at this point.
DenyUser(u, swept, all, mine) ==
    /\ Len(all) < GlobalLimit
    /\ Len(mine) >= PerUser
    /\ user_hits' = Store(swept, u, mine)
    /\ global_hits' = all
    /\ result' = Answer(u, FALSE, "user", RetryAfter(mine, now))

\* Mutant of Grant: `>` for `>=` in the global test.
GrantOneMore(u, swept, all, mine) ==
    /\ Len(all) <= GlobalLimit
    /\ Len(mine) < PerUser
    /\ user_hits' = Store(swept, u, Append(mine, now))
    /\ global_hits' = Append(all, now)
    /\ result' = Answer(u, TRUE, "none", 0)

Grant(u, swept, all, mine) ==
    /\ Len(all) < GlobalLimit
    /\ Len(mine) < PerUser
    /\ user_hits' = Store(swept, u, Append(mine, now))
    /\ global_hits' = Append(all, now)
    /\ result' = Answer(u, TRUE, "none", 0)

TryAcquire(u) ==
    LET swept == AfterSweep(now)
        all   == Prune(global_hits, now)
        mine  == Prune(HitsOf(swept, u), now)
    IN  /\ \/ DenyGlobal(u, swept, all)
           \/ DenyUser(u, swept, all, mine)
           \/ Grant(u, swept, all, mine)
        /\ last_sweep' = IF SweepDue(now) THEN now ELSE last_sweep
        /\ UNCHANGED now

\* global_count(): an introspection call, but one that prunes.
GlobalCount ==
    /\ global_hits' = Prune(global_hits, now)
    /\ UNCHANGED <<now, user_hits, last_sweep, result>>

\* The monotonic clock.
Tick ==
    /\ now < MaxTime
    /\ now' = now + 1
    /\ UNCHANGED <<user_hits, global_hits, last_sweep, result>>

Next ==
    \/ \E u \in Users : TryAcquire(u)
    \/ GlobalCount
    \/ Tick

Spec == Init /\ [][Next]_limiterVars

--------------------------------------------------------------------------------
\* Type invariant of the limiter's state.
TypeOK ==
    /\ now \in Nat
    /\ last_sweep \in Nat
    /\ DOMAIN user_hits \subseteq Users
    /\ user_hits \in [DOMAIN user_hits -> Seq(Nat)]
    /\ global_hits \in Seq(Nat)
    /\ result \in [user : Users, allowed : BOOLEAN, scope : Scopes, retry_after : Nat]

\* Memory is bounded (module docstring): the global deque and every user's deque
\* stay within their limits, whatever is left unpruned between two calls.
HitsBounded ==
    /\ Len(global_hits) <= GlobalLimit
    /\ \A u \in DOMAIN user_hits : Len(user_hits[u]) <= PerUser

\* "The dict does not grow unbounded with one-off users": a user who does not come
\* back is deleted by the calls of others.  Whoever is present after any call was
\* granted something within the last two windows.
UsersSwept ==
    [][Window > 0 =>
         \A u \in Users : TryAcquire(u) =>
           \A v \in DOMAIN user_hits' :
             \E i \in DOMAIN user_hits'[v] : user_hits'[v][i] > now - 2 * Window
      ]_limiterVars

\* No key is present without a timestamp: no path of try_acquire leaves behind the
\* empty deque that reading the defaultdict creates.
NoEmptyDeque == \A u \in DOMAIN user_hits : user_hits[u] # <<>>

\* retry_after is exact: a denied caller who asks again that many seconds later finds
\* room in the window that denied it (nobody else being granted), and not a second
\* sooner.
LiveAt(hits, t) == Cardinality({i \in DOMAIN hits : hits[i] > t - Window})

RetryAfterExact ==
    [][\A u \in Users : TryAcquire(u) /\ ~result'.allowed =>
          LET hits  == IF result'.scope = "global" THEN global_hits' ELSE user_hits'[u]
              limit == IF result'.scope = "global" THEN GlobalLimit ELSE PerUser
              again == now + result'.retry_after
          IN  LiveAt(hits, again) < limit /\ LiveAt(hits, again - 1) >= limit
      ]_limiterVars
================================================================================
