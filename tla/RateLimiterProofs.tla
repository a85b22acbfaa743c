--------------------------- MODULE RateLimiterProofs ---------------------------
(***************************************************************************)
(* Proofs about RateLimiter and RateLimiterHistory, for every number of    *)
(* users, every limit, window and clock bound.                             *)
(***************************************************************************)
EXTENDS RateLimiterHistory, SequenceLemmas

--------------------------------------------------------------------------------
(* Pruning *)

\* Where _prune stops: everything before has expired and the next, if any, has not.
LEMMA ExpiredProperties ==
    ASSUME NEW hits \in Seq(Nat), NEW t \in Nat
    PROVE  /\ Expired(hits, t) \in 0..Len(hits)
           /\ \A i \in 1..Expired(hits, t) : hits[i] <= t - Window
           /\ Expired(hits, t) < Len(hits) => hits[Expired(hits, t) + 1] > t - Window
<1> DEFINE Stop(k) == /\ \A i \in 1..k : hits[i] <= t - Window
                      /\ k < Len(hits) => hits[k + 1] > t - Window
           Young == {i \in 1..Len(hits) : hits[i] > t - Window}
<1>0. Len(hits) \in Nat /\ \A i \in 1..Len(hits) : hits[i] \in Nat
    BY LenProperties, ElementOfSeq
<1>1. \E k \in 0..Len(hits) : Stop(k)
    <2>1. CASE Young = {}
        <3>1. Stop(Len(hits))
            BY <1>0, <2>1, LimiterAssumption
        <3> QED BY <1>0, <3>1
    <2>2. CASE Young # {}
        <3>0. Young \in SUBSET Nat
            BY <1>0
        <3>1. PICK m \in Young : \A y \in Young : m <= y
            BY <2>2, <3>0, LeastNat
        <3>2. m - 1 \in 0..Len(hits) /\ Stop(m - 1)
            BY <1>0, <3>1, LimiterAssumption
        <3> QED BY <3>2
    <2> QED BY <2>1, <2>2
<1> QED BY <1>1 DEF Expired

\* What _prune leaves.
LEMMA PruneProperties ==
    ASSUME NEW hits \in Seq(Nat), NEW t \in Nat
    PROVE  /\ Prune(hits, t) \in Seq(Nat)
           /\ Len(Prune(hits, t)) = Len(hits) - Expired(hits, t)
           /\ \A i \in 1..Len(Prune(hits, t)) :
                 Prune(hits, t)[i] = hits[Expired(hits, t) + i]
<1>0. Len(hits) \in Nat /\ \A i \in 1..Len(hits) : hits[i] \in Nat
    BY LenProperties, ElementOfSeq
<1> DEFINE k == Expired(hits, t)
<1>1. k \in 0..Len(hits)
    BY ExpiredProperties
<1> HIDE DEF k
<1>2. \A i \in (k + 1)..Len(hits) : hits[i] \in Nat
    BY <1>0, <1>1
<1>3. /\ SubSeq(hits, k + 1, Len(hits)) \in Seq(Nat)
      /\ Len(SubSeq(hits, k + 1, Len(hits))) =
             IF k + 1 <= Len(hits) THEN Len(hits) - (k + 1) + 1 ELSE 0
      /\ \A i \in 1..(Len(hits) - (k + 1) + 1) :
             SubSeq(hits, k + 1, Len(hits))[i] = hits[k + 1 + i - 1]
    BY <1>0, <1>1, <1>2, SubSeqProperties
<1>4. Prune(hits, t) = SubSeq(hits, k + 1, Len(hits))
    BY DEF Prune, k
<1>5. Len(Prune(hits, t)) = Len(hits) - k
    BY <1>0, <1>1, <1>3, <1>4
<1>6. ASSUME NEW i \in 1..Len(Prune(hits, t))
      PROVE  Prune(hits, t)[i] = hits[k + i]
    <2>1. i \in 1..(Len(hits) - (k + 1) + 1) /\ k + 1 + i - 1 = k + i
        BY <1>0, <1>1, <1>5
    <2> QED BY <1>3, <1>4, <2>1
<1>7. Prune(hits, t) \in Seq(Nat)
    BY <1>3, <1>4
<1> QED BY <1>5, <1>6, <1>7 DEF k

\* There is nothing to prune in an empty deque.
LEMMA PruneEmpty ==
    ASSUME NEW hits \in Seq(Nat), Len(hits) = 0, NEW t \in Nat
    PROVE  Prune(hits, t) = <<>>
<1>1. Expired(hits, t) \in 0..Len(hits)
    BY ExpiredProperties
<1>2. Prune(hits, t) \in Seq(Nat) /\ Len(Prune(hits, t)) = Len(hits) - Expired(hits, t)
    BY PruneProperties
<1>3. Len(Prune(hits, t)) = 0
    BY <1>1, <1>2
<1> QED BY <1>2, <1>3, EmptySeq

\* Reading the defaultdict gives a sequence of times, whoever asks.
LEMMA HitsOfType ==
    ASSUME NEW dict, dict \in [DOMAIN dict -> Seq(Nat)], NEW u
    PROVE  HitsOf(dict, u) \in Seq(Nat)
<1>1. CASE u \in DOMAIN dict
    BY <1>1 DEF HitsOf
<1>2. CASE u \notin DOMAIN dict
    BY <1>2, EmptySeq DEF HitsOf
<1> QED BY <1>1, <1>2

\* The sweep prunes a deque or leaves it alone, deletes no user who still has a
\* timestamp and adds nobody.
LEMMA SweepProperties ==
    ASSUME TypeOK, NEW t \in Nat
    PROVE  /\ DOMAIN AfterSweep(t) \subseteq DOMAIN user_hits
           /\ AfterSweep(t) \in [DOMAIN AfterSweep(t) -> Seq(Nat)]
           /\ NoEmptyDeque => \A u \in DOMAIN AfterSweep(t) : AfterSweep(t)[u] # <<>>
           /\ \A u : \/ HitsOf(AfterSweep(t), u) = HitsOf(user_hits, u)
                     \/ HitsOf(AfterSweep(t), u) = Prune(HitsOf(user_hits, u), t)
<1>0. user_hits \in [DOMAIN user_hits -> Seq(Nat)]
    BY DEF TypeOK
<1>1. CASE ~SweepDue(t)
    <2>1. AfterSweep(t) = user_hits
        BY <1>1 DEF AfterSweep
    <2> QED BY <1>0, <2>1 DEF NoEmptyDeque
<1>2. CASE SweepDue(t)
    <2> DEFINE Kept == {v \in DOMAIN user_hits : Prune(user_hits[v], t) # <<>>}
    <2>1. AfterSweep(t) = [u \in Kept |-> Prune(user_hits[u], t)]
        BY <1>2 DEF AfterSweep
    <2>2. \A u \in Kept : Prune(user_hits[u], t) \in Seq(Nat)
        BY <1>0, PruneProperties
    <2>3. ASSUME NEW u
          PROVE  HitsOf(AfterSweep(t), u) = Prune(HitsOf(user_hits, u), t)
        <3>1. CASE u \in Kept
            BY <2>1, <3>1 DEF HitsOf
        <3>2. CASE u \in DOMAIN user_hits /\ u \notin Kept
            BY <2>1, <3>2 DEF HitsOf
        <3>3. CASE u \notin DOMAIN user_hits
            <4>2. Prune(<<>>, t) = <<>>
                BY EmptySeq, PruneEmpty
            <4> QED BY <2>1, <3>3, <4>2 DEF HitsOf
        <3> QED BY <3>1, <3>2, <3>3
    <2>4. DOMAIN AfterSweep(t) = Kept /\ Kept \subseteq DOMAIN user_hits
        BY <2>1
    <2>5. AfterSweep(t) \in [Kept -> Seq(Nat)]
        BY <2>1, <2>2
    <2>6. \A u \in Kept : AfterSweep(t)[u] # <<>>
        BY <2>1
    <2> QED BY <2>3, <2>4, <2>5, <2>6
<1> QED BY <1>1, <1>2

\* Writing one entry of the dictionary.
LEMMA StoreProperties ==
    ASSUME NEW dict, dict \in [DOMAIN dict -> Seq(Nat)],
           NEW u, NEW hits \in Seq(Nat)
    PROVE  /\ DOMAIN Store(dict, u, hits) = DOMAIN dict \cup {u}
           /\ Store(dict, u, hits) \in [DOMAIN dict \cup {u} -> Seq(Nat)]
           /\ \A v \in DOMAIN dict \cup {u} :
                 Store(dict, u, hits)[v] = IF v = u THEN hits ELSE dict[v]
           /\ \A v : HitsOf(Store(dict, u, hits), v) =
                 IF v = u THEN hits ELSE HitsOf(dict, v)
BY DEF Store, HitsOf

--------------------------------------------------------------------------------
(* The invariant of the limiter *)

LimiterInv == TypeOK /\ HitsBounded /\ NoEmptyDeque

\* The size of every user's deque, as what reading the dictionary gives.
LEMMA BoundedReads ==
    ASSUME LimiterInv, NEW u
    PROVE  /\ HitsOf(user_hits, u) \in Seq(Nat)
           /\ Len(HitsOf(user_hits, u)) <= PerUser
<1>1. HitsOf(user_hits, u) \in Seq(Nat)
    BY HitsOfType DEF LimiterInv, TypeOK
<1>2. CASE u \in DOMAIN user_hits
    BY <1>1, <1>2 DEF LimiterInv, HitsBounded, HitsOf
<1>3. CASE u \notin DOMAIN user_hits
    <2>1. HitsOf(user_hits, u) = <<>>
        BY <1>3 DEF HitsOf
    <2>2. Len(<<>>) = 0
        BY EmptySeq
    <2> QED BY <1>1, <2>1, <2>2, LimiterAssumption
<1> QED BY <1>1, <1>2, <1>3

\* Pruning never makes a deque longer.
LEMMA PruneShortens ==
    ASSUME NEW hits \in Seq(Nat), NEW t \in Nat, NEW n \in Nat, Len(hits) <= n
    PROVE  /\ Prune(hits, t) \in Seq(Nat)
           /\ Len(Prune(hits, t)) \in Nat
           /\ Len(Prune(hits, t)) <= n
<1>1. Expired(hits, t) \in 0..Len(hits) /\ Len(hits) \in Nat
    BY ExpiredProperties, LenProperties
<1>2. Prune(hits, t) \in Seq(Nat) /\ Len(Prune(hits, t)) = Len(hits) - Expired(hits, t)
    BY PruneProperties
<1> QED BY <1>1, <1>2

\* What try_acquire looks at once the sweep is done and the deques are pruned.
LEMMA CallContext ==
    ASSUME LimiterInv, NEW u \in Users
    PROVE  LET swept == AfterSweep(now)
               all   == Prune(global_hits, now)
               mine  == Prune(HitsOf(swept, u), now)
           IN  /\ DOMAIN swept \subseteq Users
               /\ swept \in [DOMAIN swept -> Seq(Nat)]
               /\ \A v \in DOMAIN swept : swept[v] # <<>> /\ Len(swept[v]) <= PerUser
               /\ all \in Seq(Nat) /\ Len(all) \in Nat /\ Len(all) <= GlobalLimit
               /\ mine \in Seq(Nat) /\ Len(mine) \in Nat /\ Len(mine) <= PerUser
<1> DEFINE swept == AfterSweep(now)
<1>0. now \in Nat /\ PerUser \in Nat /\ GlobalLimit \in Nat
    BY LimiterAssumption DEF LimiterInv, TypeOK
<1>1. /\ DOMAIN swept \subseteq Users
      /\ swept \in [DOMAIN swept -> Seq(Nat)]
      /\ \A v \in DOMAIN swept : swept[v] # <<>>
    BY <1>0, SweepProperties DEF LimiterInv, TypeOK
<1>2. ASSUME NEW v
      PROVE  HitsOf(swept, v) \in Seq(Nat) /\ Len(HitsOf(swept, v)) <= PerUser
    <2>1. HitsOf(user_hits, v) \in Seq(Nat) /\ Len(HitsOf(user_hits, v)) <= PerUser
        BY BoundedReads
    <2>2. Prune(HitsOf(user_hits, v), now) \in Seq(Nat)
          /\ Len(Prune(HitsOf(user_hits, v), now)) <= PerUser
        BY <1>0, <2>1, PruneShortens
    <2> QED BY <1>0, <2>1, <2>2, SweepProperties DEF LimiterInv
<1>3. \A v \in DOMAIN swept : Len(swept[v]) <= PerUser
    BY <1>2 DEF HitsOf
<1>4. LET all == Prune(global_hits, now)
      IN  all \in Seq(Nat) /\ Len(all) \in Nat /\ Len(all) <= GlobalLimit
    BY <1>0, PruneShortens DEF LimiterInv, TypeOK, HitsBounded
<1>5. LET mine == Prune(HitsOf(swept, u), now)
      IN  mine \in Seq(Nat) /\ Len(mine) \in Nat /\ Len(mine) <= PerUser
    BY <1>0, <1>2, PruneShortens
<1> QED BY <1>1, <1>3, <1>4, <1>5

\* The wait that a denial reports is a natural number of seconds.
LEMMA RetryAfterType ==
    ASSUME NEW hits \in Seq(Nat), Len(hits) >= 1, NEW t \in Nat
    PROVE  RetryAfter(hits, t) \in Nat
<1>1. Len(hits) \in Nat
    BY LenProperties
<1>2. hits[1] \in Nat
    BY <1>1, ElementOfSeq
<1> QED BY <1>2, LimiterAssumption DEF RetryAfter

\* A recorded answer has its type.
LEMMA AnswerType ==
    ASSUME NEW u \in Users, NEW allowed \in BOOLEAN, NEW scope \in Scopes, NEW retry \in Nat
    PROVE  Answer(u, allowed, scope, retry) \in
               [user : Users, allowed : BOOLEAN, scope : Scopes, retry_after : Nat]
BY DEF Answer

LEMMA InitInv == Init => LimiterInv
<1> SUFFICES ASSUME Init
             PROVE  LimiterInv
    OBVIOUS
<1>1. <<>> \in Seq(Nat) /\ Len(<<>>) = 0
    BY EmptySeq
<1>2. DOMAIN user_hits = {} /\ user_hits \in [{} -> Seq(Nat)]
    BY DEF Init
<1>3. result \in [user : Users, allowed : BOOLEAN, scope : Scopes, retry_after : Nat]
    <2>1. PICK u \in Users : result = Answer(u, TRUE, "none", 0)
        BY DEF Init
    <2> QED BY <2>1, AnswerType DEF Scopes
<1>4. Len(global_hits) <= GlobalLimit
    BY <1>1, LimiterAssumption DEF Init
<1> QED BY <1>1, <1>2, <1>3, <1>4 DEF Init, LimiterInv, TypeOK, HitsBounded, NoEmptyDeque

LEMMA TryAcquireInv ==
    ASSUME LimiterInv, NEW u \in Users, TryAcquire(u)
    PROVE  LimiterInv'
<1> DEFINE swept == AfterSweep(now)
           all   == Prune(global_hits, now)
           mine  == Prune(HitsOf(swept, u), now)
<1>1. /\ DOMAIN swept \subseteq Users
      /\ swept \in [DOMAIN swept -> Seq(Nat)]
      /\ \A v \in DOMAIN swept : swept[v] # <<>> /\ Len(swept[v]) <= PerUser
    BY CallContext
<1>2. /\ all \in Seq(Nat) /\ Len(all) \in Nat /\ Len(all) <= GlobalLimit
      /\ mine \in Seq(Nat) /\ Len(mine) \in Nat /\ Len(mine) <= PerUser
    BY CallContext
<1>3. now \in Nat /\ last_sweep \in Nat /\ now' = now /\ last_sweep' \in Nat
    BY DEF LimiterInv, TypeOK, TryAcquire
<1>4. \/ DenyGlobal(u, swept, all)
      \/ DenyUser(u, swept, all, mine)
      \/ Grant(u, swept, all, mine)
    BY DEF TryAcquire
<1> HIDE DEF swept, all, mine
<1>5. CASE DenyGlobal(u, swept, all)
    <2>1. user_hits' = swept /\ global_hits' = all
          /\ result' = Answer(u, FALSE, "global", RetryAfter(all, now))
          /\ Len(all) >= GlobalLimit
        BY <1>5 DEF DenyGlobal
    <2>2. RetryAfter(all, now) \in Nat
        <3>1. Len(all) >= 1
            BY <1>2, <2>1, LimiterAssumption
        <3> QED BY <1>2, <1>3, <3>1, RetryAfterType
    <2>3. result' \in [user : Users, allowed : BOOLEAN, scope : Scopes, retry_after : Nat]
        BY <2>1, <2>2, AnswerType DEF Scopes
    <2> QED BY <1>1, <1>2, <1>3, <2>1, <2>3 DEF LimiterInv, TypeOK, HitsBounded, NoEmptyDeque
<1>6. CASE DenyUser(u, swept, all, mine)
    <2>1. user_hits' = Store(swept, u, mine) /\ global_hits' = all
          /\ result' = Answer(u, FALSE, "user", RetryAfter(mine, now))
          /\ Len(mine) >= PerUser
        BY <1>6 DEF DenyUser
    <2>2. Len(mine) >= 1 /\ Len(mine) # 0
        BY <1>2, <2>1, LimiterAssumption
    <2>3. RetryAfter(mine, now) \in Nat
        BY <1>2, <1>3, <2>2, RetryAfterType
    <2>4. result' \in [user : Users, allowed : BOOLEAN, scope : Scopes, retry_after : Nat]
        BY <2>1, <2>3, AnswerType DEF Scopes
    <2>5. mine # <<>>
        BY <2>2, EmptySeq
    <2>6. /\ DOMAIN user_hits' = DOMAIN swept \cup {u}
          /\ user_hits' \in [DOMAIN user_hits' -> Seq(Nat)]
          /\ \A v \in DOMAIN user_hits' : user_hits'[v] = IF v = u THEN mine ELSE swept[v]
        <3> DEFINE d == Store(swept, u, mine)
        <3>1. /\ DOMAIN d = DOMAIN swept \cup {u}
              /\ d \in [DOMAIN swept \cup {u} -> Seq(Nat)]
              /\ \A v \in DOMAIN swept \cup {u} : d[v] = IF v = u THEN mine ELSE swept[v]
            BY <1>1, <1>2 DEF Store
        <3>2. user_hits' = d
            BY <2>1
        <3> HIDE DEF d
        <3> QED BY <3>1, <3>2
    <2>7. \A v \in DOMAIN user_hits' : user_hits'[v] # <<>> /\ Len(user_hits'[v]) <= PerUser
        BY <1>1, <1>2, <2>5, <2>6
    <2>8. DOMAIN user_hits' \subseteq Users
        BY <1>1, <2>6
    <2> QED BY <1>2, <1>3, <2>1, <2>4, <2>6, <2>7, <2>8
            DEF LimiterInv, TypeOK, HitsBounded, NoEmptyDeque
<1>7. CASE Grant(u, swept, all, mine)
    <2>1. user_hits' = Store(swept, u, Append(mine, now)) /\ global_hits' = Append(all, now)
          /\ result' = Answer(u, TRUE, "none", 0)
          /\ Len(all) < GlobalLimit /\ Len(mine) < PerUser
        BY <1>7 DEF Grant
    <2>2. /\ Append(mine, now) \in Seq(Nat) /\ Append(mine, now) # <<>>
          /\ Len(Append(mine, now)) = Len(mine) + 1
        BY <1>2, <1>3, AppendProperties
    <2>3. /\ Append(all, now) \in Seq(Nat)
          /\ Len(Append(all, now)) = Len(all) + 1
        BY <1>2, <1>3, AppendProperties
    <2>4. Len(Append(mine, now)) <= PerUser /\ Len(Append(all, now)) <= GlobalLimit
        BY <1>2, <2>1, <2>2, <2>3, LimiterAssumption
    <2>5. result' \in [user : Users, allowed : BOOLEAN, scope : Scopes, retry_after : Nat]
        BY <2>1, AnswerType DEF Scopes
    <2>6. /\ DOMAIN user_hits' = DOMAIN swept \cup {u}
          /\ user_hits' \in [DOMAIN user_hits' -> Seq(Nat)]
          /\ \A v \in DOMAIN user_hits' :
                user_hits'[v] = IF v = u THEN Append(mine, now) ELSE swept[v]
        <3> DEFINE d == Store(swept, u, Append(mine, now))
        <3>1. /\ DOMAIN d = DOMAIN swept \cup {u}
              /\ d \in [DOMAIN swept \cup {u} -> Seq(Nat)]
              /\ \A v \in DOMAIN swept \cup {u} :
                    d[v] = IF v = u THEN Append(mine, now) ELSE swept[v]
            BY <1>1, <2>2 DEF Store
        <3>2. user_hits' = d
            BY <2>1
        <3> HIDE DEF d
        <3> QED BY <3>1, <3>2
    <2>7. \A v \in DOMAIN user_hits' : user_hits'[v] # <<>> /\ Len(user_hits'[v]) <= PerUser
        BY <1>1, <2>2, <2>4, <2>6
    <2>8. DOMAIN user_hits' \subseteq Users
        BY <1>1, <2>6
    <2> QED BY <1>3, <2>1, <2>3, <2>4, <2>5, <2>6, <2>7, <2>8
            DEF LimiterInv, TypeOK, HitsBounded, NoEmptyDeque
<1> QED BY <1>4, <1>5, <1>6, <1>7

LEMMA GlobalCountInv ==
    ASSUME LimiterInv, GlobalCount
    PROVE  LimiterInv'
<1>1. /\ Prune(global_hits, now) \in Seq(Nat)
      /\ Len(Prune(global_hits, now)) <= GlobalLimit
    BY PruneShortens, LimiterAssumption DEF LimiterInv, TypeOK, HitsBounded
<1> QED BY <1>1 DEF GlobalCount, LimiterInv, TypeOK, HitsBounded, NoEmptyDeque

LEMMA TickInv ==
    ASSUME LimiterInv, Tick
    PROVE  LimiterInv'
BY DEF Tick, LimiterInv, TypeOK, HitsBounded, NoEmptyDeque

LEMMA NextInv ==
    ASSUME LimiterInv, [Next]_limiterVars
    PROVE  LimiterInv'
<1>1. CASE UNCHANGED limiterVars
    BY <1>1 DEF limiterVars, LimiterInv, TypeOK, HitsBounded, NoEmptyDeque
<1> QED BY <1>1, TryAcquireInv, GlobalCountInv, TickInv DEF Next

\* The state of the limiter keeps its type, in every execution of try_acquire, of
\* global_count and of the clock.
THEOREM TypeCorrect == Spec => []TypeOK
<1>1. Init => LimiterInv
    BY InitInv
<1>2. LimiterInv /\ [Next]_limiterVars => LimiterInv'
    BY NextInv
<1>3. LimiterInv => TypeOK
    BY DEF LimiterInv
<1> QED BY <1>1, <1>2, <1>3, PTL DEF Spec

\* Memory per user is bounded: no deque outgrows its limit, pruned or not.
THEOREM MemoryBounded == Spec => []HitsBounded
<1>1. Init => LimiterInv
    BY InitInv
<1>2. LimiterInv /\ [Next]_limiterVars => LimiterInv'
    BY NextInv
<1>3. LimiterInv => HitsBounded
    BY DEF LimiterInv
<1> QED BY <1>1, <1>2, <1>3, PTL DEF Spec

\* No user is left in the dictionary with an empty deque.
THEOREM NoEmptyDequeLeft == Spec => []NoEmptyDeque
<1>1. Init => LimiterInv
    BY InitInv
<1>2. LimiterInv /\ [Next]_limiterVars => LimiterInv'
    BY NextInv
<1>3. LimiterInv => NoEmptyDeque
    BY DEF LimiterInv
<1> QED BY <1>1, <1>2, <1>3, PTL DEF Spec

--------------------------------------------------------------------------------
(* The sweep: who may still be in the dictionary *)

\* A timestamp later than t in a deque.
Since(hits, t) == \E i \in DOMAIN hits : hits[i] > t

\* The dictionary holds only users who were granted something later than a window
\* before the last sweep.
SweptInv ==
    /\ LimiterInv
    /\ last_sweep <= now
    /\ Window > 0 => \A v \in DOMAIN user_hits : Since(user_hits[v], last_sweep - Window)

\* What survives pruning at t and is not empty has a timestamp inside the window.
LEMMA PruneRecent ==
    ASSUME NEW hits \in Seq(Nat), NEW t \in Nat, Len(Prune(hits, t)) # 0
    PROVE  Since(Prune(hits, t), t - Window)
<1> DEFINE left == Prune(hits, t)
           k == Expired(hits, t)
<1>1. /\ left \in Seq(Nat) /\ Len(left) = Len(hits) - k
      /\ \A i \in 1..Len(left) : left[i] = hits[k + i]
    BY PruneProperties
<1>2. /\ k \in 0..Len(hits)
      /\ k < Len(hits) => hits[k + 1] > t - Window
    BY ExpiredProperties
<1>3. Len(left) \in Nat /\ Len(hits) \in Nat /\ DOMAIN left = 1..Len(left)
    BY <1>1, LenProperties
<1> HIDE DEF k, left
<1>4. Len(left) # 0
    BY DEF left
<1>5. 1 \in 1..Len(left) /\ k < Len(hits)
    <2>1. ASSUME NEW m \in Nat, NEW n \in Nat, NEW j \in 0..m, n = m - j, n # 0
          PROVE  1 \in 1..n /\ j < m
        BY <2>1
    <2> QED BY <1>1, <1>2, <1>3, <1>4, <2>1
<1>6. left[1] > t - Window
    BY <1>1, <1>2, <1>5
<1> QED BY <1>3, <1>5, <1>6 DEF Since, left

\* So has a deque that a grant at t was just appended to.
LEMMA AppendRecent ==
    ASSUME NEW hits \in Seq(Nat), NEW t \in Nat, Window > 0
    PROVE  Since(Append(hits, t), t - Window)
<1>1. /\ Append(hits, t) \in Seq(Nat) /\ Len(Append(hits, t)) = Len(hits) + 1
      /\ Append(hits, t)[Len(hits) + 1] = t
    BY AppendProperties
<1>2. Len(hits) \in Nat /\ DOMAIN Append(hits, t) = 1..Len(Append(hits, t))
    BY <1>1, LenProperties
<1>3. Len(hits) + 1 \in DOMAIN Append(hits, t)
    BY <1>1, <1>2
<1>4. t > t - Window
    BY LimiterAssumption
<1> QED BY <1>1, <1>3, <1>4 DEF Since

\* Being recent is relative: an earlier moment asks for less.
LEMMA SinceEarlier ==
    ASSUME NEW hits \in Seq(Nat), NEW s \in Int, NEW t \in Int, s <= t, Since(hits, t)
    PROVE  Since(hits, s)
<1>1. PICK i \in DOMAIN hits : hits[i] > t
    BY DEF Since
<1>2. hits[i] \in Nat
    BY ElementOfSeq, LenProperties
<1>3. hits[i] > s
    BY <1>1, <1>2
<1> QED BY <1>3 DEF Since

\* The arithmetic of windows: a moment less than a window after s is less than two
\* windows after anything that is within one of s.
LEMMA WindowArithmetic ==
    ASSUME NEW s \in Nat, NEW t \in Nat, s <= t
    PROVE  /\ s - Window \in Int /\ t - Window \in Int /\ t - 2 * Window \in Int
           /\ s - Window <= t - Window
           /\ t < s + Window => t - 2 * Window <= s - Window
BY LimiterAssumption

\* After the sweep a call may do, everybody left was granted something later than a
\* window before the sweep that is then the last.
LEMMA SweepRecent ==
    ASSUME SweptInv, Window > 0, NEW s, s = IF SweepDue(now) THEN now ELSE last_sweep
    PROVE  /\ s \in Nat /\ s <= now /\ now < s + Window
           /\ \A v \in DOMAIN AfterSweep(now) : Since(AfterSweep(now)[v], s - Window)
<1>1. now \in Nat /\ last_sweep \in Nat /\ last_sweep <= now /\ Window \in Int
    BY LimiterAssumption DEF SweptInv, LimiterInv, TypeOK
<1>2. user_hits \in [DOMAIN user_hits -> Seq(Nat)]
    BY DEF SweptInv, LimiterInv, TypeOK
<1>3. s \in Nat /\ s <= now /\ now < s + Window
    BY <1>1 DEF SweepDue
<1>4. CASE ~SweepDue(now)
    <2>1. AfterSweep(now) = user_hits /\ s = last_sweep
        BY <1>4 DEF AfterSweep
    <2> QED BY <1>3, <2>1 DEF SweptInv
<1>5. CASE SweepDue(now)
    <2> DEFINE Kept == {v \in DOMAIN user_hits : Prune(user_hits[v], now) # <<>>}
    <2>1. AfterSweep(now) = [v \in Kept |-> Prune(user_hits[v], now)] /\ s = now
        BY <1>5 DEF AfterSweep
    <2>2. ASSUME NEW v \in Kept
          PROVE  Since(Prune(user_hits[v], now), now - Window)
        <3>1. user_hits[v] \in Seq(Nat) /\ Prune(user_hits[v], now) # <<>>
            BY <1>2
        <3>2. Prune(user_hits[v], now) \in Seq(Nat)
            BY <1>1, <3>1, PruneProperties
        <3>3. Len(Prune(user_hits[v], now)) # 0
            BY <3>1, <3>2, EmptySeq
        <3> QED BY <1>1, <3>1, <3>3, PruneRecent
    <2> QED BY <1>3, <2>1, <2>2
<1> QED BY <1>4, <1>5

LEMMA TryAcquireSwept ==
    ASSUME SweptInv, NEW u \in Users, TryAcquire(u)
    PROVE  /\ SweptInv'
           /\ Window > 0 => now < last_sweep' + Window
<1> DEFINE swept == AfterSweep(now)
           all   == Prune(global_hits, now)
           old   == HitsOf(swept, u)
           mine  == Prune(old, now)
<1>1. LimiterInv' /\ now' = now /\ now \in Nat /\ last_sweep \in Nat /\ last_sweep <= now
    BY TryAcquireInv DEF SweptInv, LimiterInv, TypeOK, TryAcquire
<1>2. last_sweep' = IF SweepDue(now) THEN now ELSE last_sweep
    BY DEF TryAcquire
<1>3. last_sweep' <= now'
    BY <1>1, <1>2
<1>4. ASSUME Window > 0
      PROVE  /\ now < last_sweep' + Window
             /\ \A v \in DOMAIN user_hits' : Since(user_hits'[v], last_sweep' - Window)
    <2>1. /\ last_sweep' \in Nat /\ last_sweep' <= now /\ now < last_sweep' + Window
          /\ \A v \in DOMAIN swept : Since(swept[v], last_sweep' - Window)
        BY <1>2, <1>4, SweepRecent
    <2>2. /\ swept \in [DOMAIN swept -> Seq(Nat)]
          /\ mine \in Seq(Nat) /\ Len(mine) \in Nat
        BY CallContext DEF SweptInv
    <2>3. old \in Seq(Nat)
        BY <2>2, HitsOfType
    <2>4. last_sweep' - Window \in Int /\ now - Window \in Int
          /\ last_sweep' - Window <= now - Window
        BY <1>1, <2>1, WindowArithmetic
    <2>5. \/ DenyGlobal(u, swept, all)
          \/ DenyUser(u, swept, all, mine)
          \/ Grant(u, swept, all, mine)
        BY DEF TryAcquire
    <2>6. Len(mine) # 0 => Since(mine, now - Window)
        BY <1>1, <2>3, PruneRecent
    <2>7. Since(Append(mine, now), now - Window) /\ Append(mine, now) \in Seq(Nat)
        BY <1>1, <1>4, <2>2, AppendRecent, AppendProperties
    <2> HIDE DEF swept, all, old, mine
    <2>8. CASE DenyGlobal(u, swept, all)
        BY <2>1, <2>8 DEF DenyGlobal
    <2>9. ASSUME NEW hits \in Seq(Nat), Since(hits, now - Window),
                 user_hits' = Store(swept, u, hits)
          PROVE  \A v \in DOMAIN user_hits' : Since(user_hits'[v], last_sweep' - Window)
        <3>1. Since(hits, last_sweep' - Window)
            BY <2>4, <2>9, SinceEarlier
        <3>2. /\ DOMAIN Store(swept, u, hits) = DOMAIN swept \cup {u}
              /\ \A v \in DOMAIN swept \cup {u} :
                    Store(swept, u, hits)[v] = IF v = u THEN hits ELSE swept[v]
            BY <2>2 DEF Store
        <3> QED BY <2>1, <2>9, <3>1, <3>2
    <2>10. CASE DenyUser(u, swept, all, mine)
        <3>1. user_hits' = Store(swept, u, mine) /\ Len(mine) >= PerUser
            BY <2>10 DEF DenyUser
        <3>2. Len(mine) # 0
            BY <2>2, <3>1, LimiterAssumption
        <3> QED BY <2>1, <2>2, <2>6, <2>9, <3>1, <3>2
    <2>11. CASE Grant(u, swept, all, mine)
        <3>1. user_hits' = Store(swept, u, Append(mine, now))
            BY <2>11 DEF Grant
        <3> QED BY <2>1, <2>7, <2>9, <3>1
    <2> QED BY <2>1, <2>5, <2>8, <2>10, <2>11
<1> QED BY <1>1, <1>3, <1>4 DEF SweptInv

LEMMA SweptInit == Init => SweptInv
<1> SUFFICES ASSUME Init PROVE SweptInv
    OBVIOUS
<1>1. LimiterInv
    BY InitInv
<1>2. last_sweep <= now /\ DOMAIN user_hits = {}
    BY DEF Init
<1> QED BY <1>1, <1>2 DEF SweptInv

LEMMA SweptNext ==
    ASSUME SweptInv, [Next]_limiterVars
    PROVE  SweptInv'
<1>1. LimiterInv'
    BY NextInv DEF SweptInv
<1>2. ASSUME last_sweep' = last_sweep, user_hits' = user_hits,
             now' = now \/ now' = now + 1
      PROVE  SweptInv'
    <2>1. last_sweep' <= now'
        BY <1>2 DEF SweptInv, LimiterInv, TypeOK
    <2> QED BY <1>1, <1>2, <2>1 DEF SweptInv
<1>3. CASE UNCHANGED limiterVars
    BY <1>2, <1>3 DEF limiterVars
<1>4. CASE GlobalCount
    BY <1>2, <1>4 DEF GlobalCount
<1>5. CASE Tick
    BY <1>2, <1>5 DEF Tick
<1> QED BY <1>3, <1>4, <1>5, TryAcquireSwept DEF Next

\* One-off users are forgotten: after any call everybody in the dictionary was
\* granted something within the last two windows.
THEOREM OneOffUsersSwept == Spec => UsersSwept
<1>1. Init => SweptInv
    BY SweptInit
<1>2. SweptInv /\ [Next]_limiterVars => SweptInv'
    BY SweptNext
<1>3. SweptInv /\ [Next]_limiterVars =>
        [Window > 0 =>
           \A u \in Users : TryAcquire(u) =>
             \A v \in DOMAIN user_hits' :
               \E i \in DOMAIN user_hits'[v] : user_hits'[v][i] > now - 2 * Window
        ]_limiterVars
    <2> SUFFICES ASSUME SweptInv, Window > 0, NEW u \in Users, TryAcquire(u),
                        NEW v \in DOMAIN user_hits'
                 PROVE  Since(user_hits'[v], now - 2 * Window)
        BY DEF Since
    <2>1. SweptInv' /\ now < last_sweep' + Window
        BY TryAcquireSwept
    <2>2. Since(user_hits'[v], last_sweep' - Window) /\ user_hits'[v] \in Seq(Nat)
        BY <2>1 DEF SweptInv, LimiterInv, TypeOK
    <2>3. now \in Nat /\ last_sweep' \in Nat /\ now' = now /\ last_sweep' <= now'
        BY <2>1 DEF SweptInv, LimiterInv, TypeOK, TryAcquire
    <2>4. /\ now - 2 * Window \in Int /\ last_sweep' - Window \in Int
          /\ now - 2 * Window <= last_sweep' - Window
        BY <2>1, <2>3, WindowArithmetic
    <2> QED BY <2>2, <2>4, SinceEarlier
<1> QED BY <1>1, <1>2, <1>3, PTL DEF Spec, UsersSwept

--------------------------------------------------------------------------------
(* The history: what a deque still knows of its log *)

\* Pruning loses only what has expired.
LEMMA RemembersPrune ==
    ASSUME NEW hits \in Seq(Nat), NEW log \in Seq(Nat), NEW t \in Nat,
           Remembers(hits, log, t)
    PROVE  Remembers(Prune(hits, t), log, t)
<1>1. PICK d \in 0..Len(log) : /\ Len(hits) = Len(log) - d
                               /\ \A i \in 1..Len(hits) : hits[i] = log[d + i]
                               /\ \A i \in 1..d : log[i] <= t - Window
    BY DEF Remembers
<1> DEFINE k == Expired(hits, t)
           left == Prune(hits, t)
<1>2. /\ Len(log) \in Nat /\ Len(hits) \in Nat
      /\ \A i \in 1..Len(log) : log[i] \in Nat
    BY LenProperties, ElementOfSeq
<1>3. k \in 0..Len(hits) /\ \A i \in 1..k : hits[i] <= t - Window
    BY ExpiredProperties
<1>4. Len(left) = Len(hits) - k /\ \A i \in 1..Len(left) : left[i] = hits[k + i]
    BY PruneProperties
<1> HIDE DEF k, left
<1>5. d + k \in 0..Len(log) /\ Len(left) = Len(log) - (d + k)
    BY <1>1, <1>2, <1>3, <1>4
<1>6. ASSUME NEW i \in 1..Len(left)
      PROVE  left[i] = log[(d + k) + i]
    <2>1. k + i \in 1..Len(hits) /\ d + (k + i) = (d + k) + i
        BY <1>1, <1>2, <1>3, <1>4
    <2> QED BY <1>1, <1>4, <2>1
<1>7. ASSUME NEW i \in 1..(d + k)
      PROVE  log[i] <= t - Window
    <2>1. CASE i <= d
        <3>1. i \in 1..d
            BY <1>1, <1>3, <2>1
        <3>2. i \in 1..Len(log)
            BY <1>1, <1>2, <3>1
        <3> QED BY <1>1, <1>2, <3>1, <3>2, LimiterAssumption
    <2>2. CASE i > d
        <3>1. i - d \in 1..k /\ i - d \in 1..Len(hits) /\ d + (i - d) = i
            BY <1>1, <1>2, <1>3, <2>2
        <3> QED BY <1>1, <1>3, <3>1
    <2> QED BY <1>1, <1>3, <2>1, <2>2
<1> QED BY <1>5, <1>6, <1>7 DEF Remembers, left

\* A grant recorded in both the deque and the log.
LEMMA RemembersAppend ==
    ASSUME NEW hits \in Seq(Nat), NEW log \in Seq(Nat), NEW t \in Nat,
           Remembers(hits, log, t)
    PROVE  Remembers(Append(hits, t), Append(log, t), t)
<1>1. PICK d \in 0..Len(log) : /\ Len(hits) = Len(log) - d
                               /\ \A i \in 1..Len(hits) : hits[i] = log[d + i]
                               /\ \A i \in 1..d : log[i] <= t - Window
    BY DEF Remembers
<1>2. /\ Len(log) \in Nat /\ Len(hits) \in Nat
      /\ \A i \in 1..Len(log) : log[i] \in Nat
    BY LenProperties, ElementOfSeq
<1> DEFINE hits2 == Append(hits, t)
           log2  == Append(log, t)
<1>3. /\ Len(hits2) = Len(hits) + 1
      /\ \A i \in 1..Len(hits) : hits2[i] = hits[i]
      /\ hits2[Len(hits) + 1] = t
    BY AppendProperties
<1>4. /\ Len(log2) = Len(log) + 1
      /\ \A i \in 1..Len(log) : log2[i] = log[i]
      /\ log2[Len(log) + 1] = t
    BY AppendProperties
<1> HIDE DEF hits2, log2
<1>5. d \in 0..Len(log2) /\ Len(hits2) = Len(log2) - d
    BY <1>1, <1>2, <1>3, <1>4
<1>6. ASSUME NEW i \in 1..Len(hits2)
      PROVE  hits2[i] = log2[d + i]
    <2>1. CASE i = Len(hits) + 1
        <3>1. d + i = Len(log) + 1
            BY <1>1, <1>2, <2>1
        <3> QED BY <1>3, <1>4, <2>1, <3>1
    <2>2. CASE i # Len(hits) + 1
        <3>1. i \in 1..Len(hits) /\ d + i \in 1..Len(log)
            BY <1>1, <1>2, <1>3, <2>2
        <3> QED BY <1>1, <1>3, <1>4, <3>1
    <2> QED BY <2>1, <2>2
<1>7. ASSUME NEW i \in 1..d
      PROVE  log2[i] <= t - Window
    <2>1. i \in 1..Len(log)
        BY <1>1, <1>2
    <2>2. log2[i] = log[i]
        BY <1>4, <2>1
    <2> QED BY <1>1, <1>2, <2>1, <2>2, LimiterAssumption
<1> QED BY <1>5, <1>6, <1>7 DEF Remembers, hits2, log2

\* Time passes: what has expired stays expired.
LEMMA RemembersLater ==
    ASSUME NEW hits \in Seq(Nat), NEW log \in Seq(Nat), NEW t \in Nat,
           Remembers(hits, log, t)
    PROVE  Remembers(hits, log, t + 1)
<1>1. PICK d \in 0..Len(log) : /\ Len(hits) = Len(log) - d
                               /\ \A i \in 1..Len(hits) : hits[i] = log[d + i]
                               /\ \A i \in 1..d : log[i] <= t - Window
    BY DEF Remembers
<1>2. Len(log) \in Nat /\ \A i \in 1..Len(log) : log[i] \in Nat
    BY LenProperties, ElementOfSeq
<1>3. ASSUME NEW i \in 1..d
      PROVE  log[i] <= (t + 1) - Window
    <2>1. i \in 1..Len(log)
        BY <1>1, <1>2
    <2> QED BY <1>1, <1>2, <2>1, LimiterAssumption
<1> QED BY <1>1, <1>3 DEF Remembers

LEMMA OrderedAppend ==
    ASSUME NEW log \in Seq(Nat), NEW t \in Nat, Ordered(log, t)
    PROVE  Ordered(Append(log, t), t)
<1>1. Len(log) \in Nat /\ DOMAIN log = 1..Len(log) /\ \A i \in 1..Len(log) : log[i] \in Nat
    BY LenProperties, ElementOfSeq
<1> DEFINE log2 == Append(log, t)
<1>2. /\ log2 \in Seq(Nat)
      /\ Len(log2) = Len(log) + 1
      /\ \A i \in 1..Len(log) : log2[i] = log[i]
      /\ log2[Len(log) + 1] = t
    BY AppendProperties
<1>3. DOMAIN log2 = 1..(Len(log) + 1)
    BY <1>2, LenProperties
<1> HIDE DEF log2
<1>4. \A i \in 1..(Len(log) + 1) : i \in 1..Len(log) \/ i = Len(log) + 1
    BY <1>1
<1>5. \A i \in DOMAIN log2 : log2[i] <= t
    BY <1>1, <1>2, <1>3, <1>4 DEF Ordered
<1>6. ASSUME NEW i \in DOMAIN log2, NEW j \in DOMAIN log2, i <= j
      PROVE  log2[i] <= log2[j]
    <2>1. CASE j = Len(log) + 1
        BY <1>2, <1>5, <2>1
    <2>2. CASE j # Len(log) + 1
        <3>1. i \in 1..Len(log) /\ j \in 1..Len(log)
            BY <1>1, <1>3, <1>6, <2>2
        <3> QED BY <1>1, <1>2, <1>6, <3>1 DEF Ordered
    <2> QED BY <2>1, <2>2
<1> QED BY <1>5, <1>6 DEF Ordered, log2

LEMMA OrderedLater ==
    ASSUME NEW log \in Seq(Nat), NEW t \in Nat, Ordered(log, t)
    PROVE  Ordered(log, t + 1)
<1>1. DOMAIN log = 1..Len(log) /\ \A i \in 1..Len(log) : log[i] \in Nat
    BY LenProperties, ElementOfSeq
<1> QED BY <1>1 DEF Ordered

\* The step the guarantee rests on: if the deque has room, the grant `limit` places
\* back has been dropped from it, and so is at least one window old.
LEMMA SpacedAppend ==
    ASSUME NEW hits \in Seq(Nat), NEW log \in Seq(Nat), NEW t \in Nat,
           NEW limit \in Nat \ {0},
           Remembers(hits, log, t), Spaced(log, limit), Len(hits) < limit
    PROVE  Spaced(Append(log, t), limit)
<1>1. PICK d \in 0..Len(log) : /\ Len(hits) = Len(log) - d
                               /\ \A i \in 1..Len(hits) : hits[i] = log[d + i]
                               /\ \A i \in 1..d : log[i] <= t - Window
    BY DEF Remembers
<1>2. /\ Len(log) \in Nat /\ Len(hits) \in Nat
      /\ DOMAIN log = 1..Len(log) /\ \A i \in 1..Len(log) : log[i] \in Nat
    BY LenProperties, ElementOfSeq
<1> DEFINE log2 == Append(log, t)
<1>3. /\ log2 \in Seq(Nat)
      /\ Len(log2) = Len(log) + 1
      /\ \A i \in 1..Len(log) : log2[i] = log[i]
      /\ log2[Len(log) + 1] = t
    BY AppendProperties
<1>4. DOMAIN log2 = 1..(Len(log) + 1)
    BY <1>3, LenProperties
<1> HIDE DEF log2
<1>5. ASSUME NEW i \in DOMAIN log2, i + limit \in DOMAIN log2
      PROVE  log2[i + limit] - log2[i] >= Window
    <2>1. i \in 1..Len(log)
        BY <1>2, <1>4, <1>5
    <2>2. CASE i + limit = Len(log) + 1
        <3>1. i \in 1..d
            BY <1>1, <1>2, <2>1, <2>2
        <3>2. log[i] <= t - Window
            BY <1>1, <1>2, <2>1, <3>1, LimiterAssumption
        <3>3. log[i] \in Nat
            BY <1>2, <2>1
        <3>4. log2[i + limit] = t /\ log2[i] = log[i]
            BY <1>3, <2>1, <2>2
        <3> QED BY <3>2, <3>3, <3>4, LimiterAssumption
    <2>3. CASE i + limit # Len(log) + 1
        <3>1. i + limit \in 1..Len(log)
            BY <1>2, <1>4, <1>5, <2>3
        <3> QED BY <1>2, <1>3, <2>1, <3>1 DEF Spaced
    <2> QED BY <2>2, <2>3
<1> QED BY <1>5 DEF Spaced, log2

--------------------------------------------------------------------------------
(* The history: the invariant of RateLimiterHistory *)

HistoryType ==
    /\ granted \in Seq(Nat)
    /\ grantedTo \in [Users -> Seq(Nat)]

HistoryInv == LimiterInv /\ HistoryType /\ NothingForgotten /\ GrantsSpaced

\* One deque and its log, when the call neither prunes nor grants: `t` is the time of
\* the step.
Tracked(hits, log, limit, t) ==
    Ordered(log, t) /\ Remembers(hits, log, t) /\ Spaced(log, limit)

LEMMA TrackedGrant ==
    ASSUME NEW hits \in Seq(Nat), NEW log \in Seq(Nat), NEW t \in Nat,
           NEW limit \in Nat \ {0}, Tracked(hits, log, limit, t), Len(hits) < limit
    PROVE  Tracked(Append(hits, t), Append(log, t), limit, t)
BY OrderedAppend, RemembersAppend, SpacedAppend DEF Tracked

LEMMA TrackedLater ==
    ASSUME NEW hits \in Seq(Nat), NEW log \in Seq(Nat), NEW t \in Nat,
           NEW limit, Tracked(hits, log, limit, t)
    PROVE  Tracked(hits, log, limit, t + 1)
BY OrderedLater, RemembersLater DEF Tracked

LEMMA TrackedPrune ==
    ASSUME NEW hits \in Seq(Nat), NEW log \in Seq(Nat), NEW t \in Nat,
           NEW limit, Tracked(hits, log, limit, t)
    PROVE  Tracked(Prune(hits, t), log, limit, t)
BY RemembersPrune DEF Tracked

\* The history invariant, deque by deque.
LEMMA HistoryParts ==
    NothingForgotten /\ GrantsSpaced
        <=> /\ Tracked(global_hits, granted, GlobalLimit, now)
            /\ \A u \in Users : Tracked(HitsOf(user_hits, u), grantedTo[u], PerUser, now)
BY DEF NothingForgotten, GrantsSpaced, Tracked

LEMMA HistoryInit == HInit => HistoryInv
<1> SUFFICES ASSUME HInit
             PROVE  HistoryInv
    OBVIOUS
<1>1. LimiterInv
    BY InitInv DEF HInit
<1>2. HistoryType
    BY EmptySeq DEF HInit, HistoryType
<1>3. ASSUME NEW log, log \in Seq(Nat), Len(log) = 0, NEW limit, NEW t \in Nat
      PROVE  Tracked(log, log, limit, t)
    <2>1. DOMAIN log = {}
        BY <1>3, LenProperties
    <2>2. Ordered(log, t) /\ Spaced(log, limit)
        BY <2>1 DEF Ordered, Spaced
    <2>3. /\ 0 \in 0..Len(log) /\ Len(log) = Len(log) - 0
          /\ \A i \in 1..Len(log) : log[i] = log[0 + i]
          /\ \A i \in 1..0 : log[i] <= t - Window
        BY <1>3
    <2> QED BY <2>2, <2>3 DEF Tracked, Remembers
<1>4. now \in Nat
    BY DEF HInit, Init
<1>5. /\ global_hits = <<>> /\ granted = <<>>
      /\ \A u \in Users : HitsOf(user_hits, u) = <<>> /\ grantedTo[u] = <<>>
    BY DEF HInit, Init, HitsOf
<1>6. \A limit : Tracked(<<>>, <<>>, limit, now)
    BY <1>3, <1>4, EmptySeq
<1> QED BY <1>1, <1>2, <1>5, <1>6, HistoryParts DEF HistoryInv

\* The caller's deque, and everybody else's, after the sweep and the prunes of a call.
LEMMA SweptTracked ==
    ASSUME HistoryInv, NEW u \in Users
    PROVE  LET swept == AfterSweep(now)
           IN  /\ Tracked(Prune(global_hits, now), granted, GlobalLimit, now)
               /\ HitsOf(swept, u) \in Seq(Nat)
               /\ Tracked(HitsOf(swept, u), grantedTo[u], PerUser, now)
               /\ Tracked(Prune(HitsOf(swept, u), now), grantedTo[u], PerUser, now)
<1> DEFINE swept == AfterSweep(now)
<1>1. now \in Nat /\ global_hits \in Seq(Nat)
    BY DEF HistoryInv, LimiterInv, TypeOK
<1>2. granted \in Seq(Nat) /\ grantedTo[u] \in Seq(Nat)
    BY DEF HistoryInv, HistoryType
<1>3. /\ Tracked(global_hits, granted, GlobalLimit, now)
      /\ Tracked(HitsOf(user_hits, u), grantedTo[u], PerUser, now)
    BY HistoryParts DEF HistoryInv
<1>4. HitsOf(user_hits, u) \in Seq(Nat)
    BY HitsOfType DEF HistoryInv, LimiterInv, TypeOK
<1>5. \/ HitsOf(swept, u) = HitsOf(user_hits, u)
      \/ HitsOf(swept, u) = Prune(HitsOf(user_hits, u), now)
    BY <1>1, SweepProperties DEF HistoryInv, LimiterInv
<1>6. Prune(HitsOf(user_hits, u), now) \in Seq(Nat)
      /\ Tracked(Prune(HitsOf(user_hits, u), now), grantedTo[u], PerUser, now)
    BY <1>1, <1>2, <1>3, <1>4, PruneProperties, TrackedPrune
<1> HIDE DEF swept
<1>7. HitsOf(swept, u) \in Seq(Nat) /\ Tracked(HitsOf(swept, u), grantedTo[u], PerUser, now)
    BY <1>3, <1>4, <1>5, <1>6
<1>8. Tracked(Prune(global_hits, now), granted, GlobalLimit, now)
    BY <1>1, <1>2, <1>3, TrackedPrune
<1>9. Tracked(Prune(HitsOf(swept, u), now), grantedTo[u], PerUser, now)
    BY <1>1, <1>2, <1>7, TrackedPrune
<1> QED BY <1>7, <1>8, <1>9 DEF swept

LEMMA HTryAcquireInv ==
    ASSUME HistoryInv, NEW u \in Users, HTryAcquire(u)
    PROVE  HistoryInv'
<1> DEFINE swept == AfterSweep(now)
           all   == Prune(global_hits, now)
           mine  == Prune(HitsOf(swept, u), now)
<1>1. LimiterInv'
    BY TryAcquireInv DEF HistoryInv, HTryAcquire
<1>2. now \in Nat /\ now' = now /\ PerUser \in Nat \ {0} /\ GlobalLimit \in Nat \ {0}
    BY LimiterAssumption DEF HistoryInv, LimiterInv, TypeOK, HTryAcquire, TryAcquire
<1>3. granted \in Seq(Nat) /\ grantedTo \in [Users -> Seq(Nat)]
    BY DEF HistoryInv, HistoryType
<1>4. /\ Tracked(all, granted, GlobalLimit, now)
      /\ Tracked(mine, grantedTo[u], PerUser, now)
      /\ \A v \in Users : Tracked(HitsOf(swept, v), grantedTo[v], PerUser, now)
    BY SweptTracked
<1>5. all \in Seq(Nat) /\ mine \in Seq(Nat)
    BY CallContext DEF HistoryInv
<1>6. swept \in [DOMAIN swept -> Seq(Nat)]
    BY CallContext DEF HistoryInv
<1>7. \/ DenyGlobal(u, swept, all)
      \/ DenyUser(u, swept, all, mine)
      \/ Grant(u, swept, all, mine)
    BY DEF HTryAcquire, TryAcquire
<1> HIDE DEF swept, all, mine
<1>8. CASE ~result'.allowed
    <2>1. granted' = granted /\ grantedTo' = grantedTo
        BY <1>8 DEF HTryAcquire
    <2>2. CASE DenyGlobal(u, swept, all)
        <3>1. user_hits' = swept /\ global_hits' = all
            BY <2>2 DEF DenyGlobal
        <3>2. /\ Tracked(global_hits', granted', GlobalLimit, now')
              /\ \A v \in Users : Tracked(HitsOf(user_hits', v), grantedTo'[v], PerUser, now')
            BY <1>2, <1>4, <2>1, <3>1
        <3>3. (NothingForgotten /\ GrantsSpaced)'
            BY <3>2 DEF NothingForgotten, GrantsSpaced, Tracked
        <3> QED BY <1>1, <1>3, <2>1, <3>3 DEF HistoryInv, HistoryType
    <2>3. CASE DenyUser(u, swept, all, mine)
        <3>1. user_hits' = Store(swept, u, mine) /\ global_hits' = all
            BY <2>3 DEF DenyUser
        <3>2. \A v : HitsOf(Store(swept, u, mine), v) =
                        IF v = u THEN mine ELSE HitsOf(swept, v)
            BY DEF Store, HitsOf
        <3>3. /\ Tracked(global_hits', granted', GlobalLimit, now')
              /\ \A v \in Users : Tracked(HitsOf(user_hits', v), grantedTo'[v], PerUser, now')
            BY <1>2, <1>4, <2>1, <3>1, <3>2
        <3>4. (NothingForgotten /\ GrantsSpaced)'
            BY <3>3 DEF NothingForgotten, GrantsSpaced, Tracked
        <3> QED BY <1>1, <1>3, <2>1, <3>4 DEF HistoryInv, HistoryType
    <2>4. ~Grant(u, swept, all, mine)
        BY <1>8 DEF Grant, Answer
    <2> QED BY <1>7, <2>2, <2>3, <2>4
<1>9. CASE result'.allowed
    <2>1. ~DenyGlobal(u, swept, all) /\ ~DenyUser(u, swept, all, mine)
        BY <1>9 DEF DenyGlobal, DenyUser, Answer
    <2>2. Grant(u, swept, all, mine)
        BY <1>7, <2>1
    <2>3. /\ user_hits' = Store(swept, u, Append(mine, now))
          /\ global_hits' = Append(all, now)
          /\ Len(all) < GlobalLimit /\ Len(mine) < PerUser
        BY <2>2 DEF Grant
    <2>4. /\ granted' = Append(granted, now)
          /\ grantedTo' = [grantedTo EXCEPT ![u] = Append(@, now)]
        BY <1>9 DEF HTryAcquire
    <2>5. HistoryType'
        <3>1. Append(granted, now) \in Seq(Nat) /\ Append(grantedTo[u], now) \in Seq(Nat)
            BY <1>2, <1>3, AppendProperties
        <3> QED BY <1>3, <2>4, <3>1 DEF HistoryType
    <2>6. \A v : HitsOf(Store(swept, u, Append(mine, now)), v) =
                    IF v = u THEN Append(mine, now) ELSE HitsOf(swept, v)
        BY DEF Store, HitsOf
    <2>7. Tracked(Append(all, now), Append(granted, now), GlobalLimit, now)
        BY <1>2, <1>3, <1>4, <1>5, <2>3, TrackedGrant
    <2>8. Tracked(Append(mine, now), Append(grantedTo[u], now), PerUser, now)
        BY <1>2, <1>3, <1>4, <1>5, <2>3, TrackedGrant
    <2>9. ASSUME NEW v \in Users
          PROVE  Tracked(HitsOf(user_hits', v), grantedTo'[v], PerUser, now')
        <3>1. CASE v = u
            <4>1. HitsOf(user_hits', v) = Append(mine, now)
                BY <2>3, <2>6, <3>1
            <4>2. grantedTo'[v] = Append(grantedTo[u], now)
                BY <1>3, <2>4, <3>1
            <4> QED BY <1>2, <2>8, <4>1, <4>2
        <3>2. CASE v # u
            <4>1. HitsOf(user_hits', v) = HitsOf(swept, v)
                BY <2>3, <2>6, <3>2
            <4>2. grantedTo'[v] = grantedTo[v]
                BY <1>3, <2>4, <3>2
            <4> QED BY <1>2, <1>4, <4>1, <4>2
        <3> QED BY <3>1, <3>2
    <2>10. Tracked(global_hits', granted', GlobalLimit, now')
        BY <1>2, <2>3, <2>4, <2>7
    <2>11. (NothingForgotten /\ GrantsSpaced)'
        BY <2>9, <2>10 DEF NothingForgotten, GrantsSpaced, Tracked
    <2> QED BY <1>1, <2>5, <2>11 DEF HistoryInv
<1> QED BY <1>8, <1>9

LEMMA HOtherInv ==
    ASSUME HistoryInv, HOther
    PROVE  HistoryInv'
<1>0. now \in Nat /\ global_hits \in Seq(Nat)
    BY DEF HistoryInv, LimiterInv, TypeOK
<1>1. /\ granted \in Seq(Nat) /\ grantedTo \in [Users -> Seq(Nat)]
      /\ granted' = granted /\ grantedTo' = grantedTo
    BY DEF HistoryInv, HistoryType, HOther
<1>2. /\ Tracked(global_hits, granted, GlobalLimit, now)
      /\ \A u \in Users : Tracked(HitsOf(user_hits, u), grantedTo[u], PerUser, now)
    BY HistoryParts DEF HistoryInv
<1>3. \A u \in Users : HitsOf(user_hits, u) \in Seq(Nat)
    BY HitsOfType DEF HistoryInv, LimiterInv, TypeOK
<1>4. CASE GlobalCount
    <2>1. LimiterInv'
        BY <1>4, GlobalCountInv DEF HistoryInv
    <2>2. global_hits' = Prune(global_hits, now) /\ user_hits' = user_hits /\ now' = now
        BY <1>4 DEF GlobalCount
    <2>3. Tracked(Prune(global_hits, now), granted, GlobalLimit, now)
        BY <1>0, <1>1, <1>2, TrackedPrune
    <2>4. /\ Tracked(global_hits', granted', GlobalLimit, now')
          /\ \A u \in Users : Tracked(HitsOf(user_hits', u), grantedTo'[u], PerUser, now')
        BY <1>1, <1>2, <2>2, <2>3
    <2>5. (NothingForgotten /\ GrantsSpaced)'
        BY <2>4 DEF NothingForgotten, GrantsSpaced, Tracked
    <2> QED BY <1>1, <2>1, <2>5 DEF HistoryInv, HistoryType
<1>5. CASE Tick
    <2>1. LimiterInv'
        BY <1>5, TickInv DEF HistoryInv
    <2>2. global_hits' = global_hits /\ user_hits' = user_hits /\ now' = now + 1
        BY <1>5 DEF Tick
    <2>3. Tracked(global_hits, granted, GlobalLimit, now + 1)
        BY <1>0, <1>1, <1>2, TrackedLater
    <2>4. \A u \in Users : Tracked(HitsOf(user_hits, u), grantedTo[u], PerUser, now + 1)
        BY <1>0, <1>1, <1>2, <1>3, TrackedLater
    <2>5. /\ Tracked(global_hits', granted', GlobalLimit, now')
          /\ \A u \in Users : Tracked(HitsOf(user_hits', u), grantedTo'[u], PerUser, now')
        BY <1>1, <2>2, <2>3, <2>4
    <2>6. (NothingForgotten /\ GrantsSpaced)'
        BY <2>5 DEF NothingForgotten, GrantsSpaced, Tracked
    <2> QED BY <1>1, <2>1, <2>6 DEF HistoryInv, HistoryType
<1> QED BY <1>4, <1>5 DEF HOther

LEMMA HNextInv ==
    ASSUME HistoryInv, [HNext]_historyVars
    PROVE  HistoryInv'
<1>1. CASE UNCHANGED historyVars
    BY <1>1 DEF historyVars, HistoryInv, HistoryType, LimiterInv, TypeOK, HitsBounded,
                NoEmptyDeque, NothingForgotten, GrantsSpaced
<1> QED BY <1>1, HTryAcquireInv, HOtherInv DEF HNext

\* The guarantee: in every execution, any limit + 1 consecutive grants, of everybody
\* or of one user, span at least a window.
THEOREM SlidingWindowKept == HSpec => []GrantsSpaced
<1>1. HInit => HistoryInv
    BY HistoryInit
<1>2. HistoryInv /\ [HNext]_historyVars => HistoryInv'
    BY HNextInv
<1>3. HistoryInv => GrantsSpaced
    BY DEF HistoryInv
<1> QED BY <1>1, <1>2, <1>3, PTL DEF HSpec

\* Nothing younger than a window is ever dropped from a deque.
THEOREM HistoryKept == HSpec => []NothingForgotten
<1>1. HInit => HistoryInv
    BY HistoryInit
<1>2. HistoryInv /\ [HNext]_historyVars => HistoryInv'
    BY HNextInv
<1>3. HistoryInv => NothingForgotten
    BY DEF HistoryInv
<1> QED BY <1>1, <1>2, <1>3, PTL DEF HSpec

--------------------------------------------------------------------------------
(* The refinement: what a deque holds is what the window that forgets nothing counts *)

LEMMA HistoryInvariant == HSpec => []HistoryInv
<1>1. HInit => HistoryInv
    BY HistoryInit
<1>2. HistoryInv /\ [HNext]_historyVars => HistoryInv'
    BY HNextInv
<1> QED BY <1>1, <1>2, PTL DEF HSpec

\* The length of a pruned deque is the number of the log's grants inside the window.
LEMMA LengthIsCount ==
    ASSUME NEW hits \in Seq(Nat), NEW log \in Seq(Nat), NEW t \in Nat,
           Remembers(hits, log, t), Ordered(log, t)
    PROVE  Cardinality({i \in DOMAIN log : log[i] > t - Window}) = Len(Prune(hits, t))
<1>1. PICK d \in 0..Len(log) : /\ Len(hits) = Len(log) - d
                               /\ \A i \in 1..Len(hits) : hits[i] = log[d + i]
                               /\ \A i \in 1..d : log[i] <= t - Window
    BY DEF Remembers
<1> DEFINE k == Expired(hits, t)
           n == Len(log)
<1>2. /\ n \in Nat /\ Len(hits) \in Nat /\ DOMAIN log = 1..n
      /\ \A i \in 1..n : log[i] \in Nat
    BY LenProperties, ElementOfSeq
<1>3. /\ k \in 0..Len(hits)
      /\ \A i \in 1..k : hits[i] <= t - Window
      /\ k < Len(hits) => hits[k + 1] > t - Window
    BY ExpiredProperties
<1>4. Len(Prune(hits, t)) = Len(hits) - k
    BY PruneProperties
<1> HIDE DEF k, n
<1>5. d \in 0..n /\ Len(hits) = n - d /\ d + k \in 0..n
    BY <1>1, <1>2, <1>3 DEF n
<1>6. ASSUME NEW i \in 1..n
      PROVE  log[i] > t - Window <=> i \in (d + k + 1)..n
    <2>1. CASE i <= d
        <3>1. i \in 1..d
            BY <1>5, <2>1
        <3>2. log[i] <= t - Window
            BY <1>1, <3>1
        <3> QED BY <1>2, <1>3, <1>5, <2>1, <3>2, LimiterAssumption
    <2>2. CASE i > d /\ i <= d + k
        <3>1. i - d \in 1..k /\ i - d \in 1..Len(hits) /\ d + (i - d) = i
            BY <1>2, <1>3, <1>5, <2>2
        <3>2. log[i] <= t - Window
            BY <1>1, <1>3, <3>1
        <3> QED BY <1>2, <1>3, <1>5, <2>2, <3>2, LimiterAssumption
    <2>3. CASE i > d + k
        <3>1. k < Len(hits) /\ k + 1 \in 1..Len(hits) /\ d + (k + 1) \in 1..n /\ d + (k + 1) <= i
            BY <1>2, <1>3, <1>5, <2>3
        <3>2. log[d + (k + 1)] > t - Window
            BY <1>1, <1>3, <3>1
        <3>3. log[d + (k + 1)] <= log[i]
            BY <1>2, <3>1 DEF Ordered
        <3>4. log[i] > t - Window
            BY <1>2, <3>1, <3>2, <3>3, LimiterAssumption
        <3>5. i \in (d + k + 1)..n
            BY <1>3, <1>5, <2>3
        <3> QED BY <3>4, <3>5
    <2> QED BY <1>3, <1>5, <2>1, <2>2, <2>3
<1>7. {i \in DOMAIN log : log[i] > t - Window} = (d + k + 1)..n
    <2>1. (d + k + 1)..n \subseteq 1..n
        BY <1>3, <1>5
    <2> QED BY <1>2, <1>6, <2>1
<1>8. d + k + 1 \in Int /\ n \in Int /\ n - (d + k + 1) + 1 = Len(hits) - k
    BY <1>2, <1>3, <1>5
<1>9. Cardinality((d + k + 1)..n) = IF d + k + 1 > n THEN 0 ELSE n - (d + k + 1) + 1
    BY <1>8, FS_Interval
<1>10. d + k + 1 > n => Len(hits) - k = 0
    BY <1>2, <1>3, <1>5
<1> QED BY <1>4, <1>7, <1>8, <1>9, <1>10

\* So the limiter's test on a pruned deque is the abstract test on the whole log.
LEMMA RoomIsLength ==
    ASSUME HistoryInv, NEW u \in Users
    PROVE  /\ Abstract!Room(granted, GlobalLimit) <=> Len(Prune(global_hits, now)) < GlobalLimit
           /\ Abstract!Room(grantedTo[u], PerUser)
                 <=> Len(Prune(HitsOf(AfterSweep(now), u), now)) < PerUser
<1>1. /\ now \in Nat /\ global_hits \in Seq(Nat)
      /\ granted \in Seq(Nat) /\ grantedTo[u] \in Seq(Nat)
    BY DEF HistoryInv, HistoryType, LimiterInv, TypeOK
<1>2. /\ Tracked(global_hits, granted, GlobalLimit, now)
      /\ HitsOf(AfterSweep(now), u) \in Seq(Nat)
      /\ Tracked(HitsOf(AfterSweep(now), u), grantedTo[u], PerUser, now)
    BY SweptTracked, HistoryParts DEF HistoryInv
<1>3. /\ Cardinality({i \in DOMAIN granted : granted[i] > now - Window})
             = Len(Prune(global_hits, now))
      /\ Cardinality({i \in DOMAIN grantedTo[u] : grantedTo[u][i] > now - Window})
             = Len(Prune(HitsOf(AfterSweep(now), u), now))
    BY <1>1, <1>2, LengthIsCount DEF Tracked
<1> QED BY <1>3 DEF Abstract!Room, Abstract!InWindow, Abstract!Cardinality, Cardinality

LEMMA CallRefines ==
    ASSUME HistoryInv, NEW u \in Users, HTryAcquire(u)
    PROVE  Abstract!Admit(u) \/ Abstract!Refuse(u)
<1> DEFINE swept == AfterSweep(now)
           all   == Prune(global_hits, now)
           mine  == Prune(HitsOf(swept, u), now)
<1>1. /\ Abstract!Room(granted, GlobalLimit) <=> Len(all) < GlobalLimit
      /\ Abstract!Room(grantedTo[u], PerUser) <=> Len(mine) < PerUser
    BY RoomIsLength
<1>2. Len(all) \in Nat /\ Len(mine) \in Nat /\ GlobalLimit \in Nat /\ PerUser \in Nat
    BY CallContext, LimiterAssumption DEF HistoryInv
<1>3. now' = now
    BY DEF HTryAcquire, TryAcquire
<1>4. \/ DenyGlobal(u, swept, all)
      \/ DenyUser(u, swept, all, mine)
      \/ Grant(u, swept, all, mine)
    BY DEF HTryAcquire, TryAcquire
<1> HIDE DEF swept, all, mine
<1>5. CASE DenyGlobal(u, swept, all)
    <2>1. Len(all) >= GlobalLimit /\ result' = Answer(u, FALSE, "global", RetryAfter(all, now))
        BY <1>5 DEF DenyGlobal
    <2>2. /\ result'.user = u /\ result'.allowed = FALSE /\ result'.scope = "global"
          /\ granted' = granted /\ grantedTo' = grantedTo
        BY <2>1 DEF Answer, HTryAcquire
    <2>3. ~Abstract!Room(granted, GlobalLimit)
        BY <1>1, <1>2, <2>1
    <2> QED BY <1>3, <2>2, <2>3 DEF Abstract!Refuse, Abstract!Verdict
<1>6. CASE DenyUser(u, swept, all, mine)
    <2>1. /\ Len(all) < GlobalLimit /\ Len(mine) >= PerUser
          /\ result' = Answer(u, FALSE, "user", RetryAfter(mine, now))
        BY <1>6 DEF DenyUser
    <2>2. /\ result'.user = u /\ result'.allowed = FALSE /\ result'.scope = "user"
          /\ granted' = granted /\ grantedTo' = grantedTo
        BY <2>1 DEF Answer, HTryAcquire
    <2>3. Abstract!Room(granted, GlobalLimit) /\ ~Abstract!Room(grantedTo[u], PerUser)
        BY <1>1, <1>2, <2>1
    <2> QED BY <1>3, <2>2, <2>3 DEF Abstract!Refuse, Abstract!Verdict
<1>7. CASE Grant(u, swept, all, mine)
    <2>1. /\ Len(all) < GlobalLimit /\ Len(mine) < PerUser
          /\ result' = Answer(u, TRUE, "none", 0)
        BY <1>7 DEF Grant
    <2>2. result'.user = u /\ result'.allowed = TRUE /\ result'.scope = "none"
        BY <2>1 DEF Answer
    <2>3. /\ granted' = Append(granted, now)
          /\ grantedTo' = [grantedTo EXCEPT ![u] = Append(@, now)]
        BY <2>2 DEF HTryAcquire
    <2>4. Abstract!Room(granted, GlobalLimit) /\ Abstract!Room(grantedTo[u], PerUser)
        BY <1>1, <2>1
    <2> QED BY <1>3, <2>2, <2>3, <2>4 DEF Abstract!Admit, Abstract!Verdict
<1> QED BY <1>4, <1>5, <1>6, <1>7

\* The limiter, with deques that are pruned, swept and deleted, gives every caller the
\* answer that the sliding window over the whole history gives.
THEOREM LimiterIsSlidingWindow == HSpec => ImplementsSlidingWindow
<1>1. HInit => Abstract!Init
    <2> SUFFICES ASSUME HInit PROVE Abstract!Init
        OBVIOUS
    <2>1. PICK u \in Users : result = Answer(u, TRUE, "none", 0)
        BY DEF HInit, Init
    <2>2. result.user = u /\ result.allowed = TRUE /\ result.scope = "none"
        BY <2>1 DEF Answer
    <2> QED BY <2>2 DEF HInit, Init, Abstract!Init, Abstract!Verdict
<1>2. HistoryInv /\ [HNext]_historyVars => [Abstract!Next]_(Abstract!windowVars)
    <2> SUFFICES ASSUME HistoryInv, [HNext]_historyVars
                 PROVE  [Abstract!Next]_(Abstract!windowVars)
        OBVIOUS
    <2>1. ASSUME NEW u \in Users, HTryAcquire(u) PROVE Abstract!Next
        BY <2>1, CallRefines DEF Abstract!Next
    <2>2. CASE HOther /\ GlobalCount
        BY <2>2 DEF HOther, GlobalCount, Abstract!windowVars
    <2>3. CASE HOther /\ Tick
        BY <2>3 DEF HOther, Tick, Abstract!Next, Abstract!Tick
    <2>4. CASE UNCHANGED historyVars
        BY <2>4 DEF historyVars, Abstract!windowVars
    <2> QED BY <2>1, <2>2, <2>3, <2>4 DEF HNext, HOther
<1> QED BY <1>1, <1>2, HistoryInvariant, PTL DEF HSpec, ImplementsSlidingWindow, Abstract!Spec

--------------------------------------------------------------------------------
(* retry_after *)

\* A deque is in time order, as its log is.
LEMMA DequeOrdered ==
    ASSUME NEW hits \in Seq(Nat), NEW log \in Seq(Nat), NEW t \in Nat,
           Remembers(hits, log, t), Ordered(log, t)
    PROVE  \A i, j \in 1..Len(hits) : i <= j => hits[i] <= hits[j]
<1>1. PICK d \in 0..Len(log) : /\ Len(hits) = Len(log) - d
                               /\ \A i \in 1..Len(hits) : hits[i] = log[d + i]
    BY DEF Remembers
<1>2. Len(log) \in Nat /\ Len(hits) \in Nat /\ DOMAIN log = 1..Len(log)
    BY LenProperties
<1>3. ASSUME NEW i \in 1..Len(hits), NEW j \in 1..Len(hits), i <= j
      PROVE  hits[i] <= hits[j]
    <2>1. d + i \in 1..Len(log) /\ d + j \in 1..Len(log) /\ d + i <= d + j
        BY <1>1, <1>2, <1>3
    <2>2. log[d + i] <= log[d + j]
        BY <1>2, <2>1 DEF Ordered
    <2> QED BY <1>1, <2>2
<1> QED BY <1>3

\* What is left at the head of a pruned deque is younger than a window.
LEMMA PrunedHead ==
    ASSUME NEW hits \in Seq(Nat), NEW t \in Nat, Len(Prune(hits, t)) >= 1
    PROVE  Prune(hits, t)[1] > t - Window
<1> DEFINE left == Prune(hits, t)
           k == Expired(hits, t)
<1>1. /\ Len(left) = Len(hits) - k
      /\ \A i \in 1..Len(left) : left[i] = hits[k + i]
    BY PruneProperties
<1>2. /\ k \in 0..Len(hits)
      /\ k < Len(hits) => hits[k + 1] > t - Window
    BY ExpiredProperties
<1>3. Len(hits) \in Nat /\ Len(left) >= 1
    BY LenProperties
<1> HIDE DEF k, left
<1>4. k < Len(hits) /\ 1 \in 1..Len(left)
    BY <1>1, <1>2, <1>3
<1>5. left[1] > t - Window
    BY <1>1, <1>2, <1>4
<1> QED BY <1>5 DEF left

\* Once the head of a full deque expires there is room, and there is none before.
LEMMA HeadFreesRoom ==
    ASSUME NEW hits \in Seq(Nat), NEW t \in Nat, NEW limit \in Nat \ {0}, Len(hits) = limit,
           hits[1] > t - Window, \A i, j \in 1..Len(hits) : i <= j => hits[i] <= hits[j],
           NEW again, again = t + RetryAfter(hits, t)
    PROVE  LiveAt(hits, again) < limit /\ LiveAt(hits, again - 1) >= limit
<1>1. DOMAIN hits = 1..limit /\ \A i \in 1..limit : hits[i] \in Nat
    BY LenProperties, ElementOfSeq
<1>2. 1 \in 1..limit /\ hits[1] \in Nat
    BY <1>1
<1>3. again = hits[1] + Window
    BY <1>2, LimiterAssumption DEF RetryAfter
<1>4. LiveAt(hits, again) < limit
    <2> DEFINE live == {i \in DOMAIN hits : hits[i] > again - Window}
    <2>1. live \subseteq 2..limit
        <3>1. ASSUME NEW i \in 1..limit, hits[i] > hits[1] PROVE i \in 2..limit
            BY <1>1, <1>2, <3>1
        <3>2. again - Window = hits[1]
            BY <1>2, <1>3, LimiterAssumption
        <3> QED BY <1>1, <3>1, <3>2
    <2>2. IsFiniteSet(2..limit) /\ Cardinality(2..limit) = limit - 1
        BY FS_Interval
    <2>3. Cardinality(live) <= Cardinality(2..limit) /\ IsFiniteSet(live)
        BY <2>1, <2>2, FS_Subset
    <2>4. Cardinality(live) \in Nat
        BY <2>3, FS_CardinalityType
    <2> HIDE DEF live
    <2>5. Cardinality(live) < limit
        BY <2>2, <2>3, <2>4
    <2> QED BY <2>5 DEF live, LiveAt
<1>5. LiveAt(hits, again - 1) >= limit
    <2> DEFINE live == {i \in DOMAIN hits : hits[i] > (again - 1) - Window}
    <2>1. live = 1..limit
        <3>1. (again - 1) - Window = hits[1] - 1
            BY <1>2, <1>3, LimiterAssumption
        <3>2. ASSUME NEW i \in 1..limit PROVE hits[i] > hits[1] - 1
            <4>1. hits[1] <= hits[i] /\ hits[i] \in Nat
                BY <1>1, <1>2
            <4> QED BY <1>2, <4>1
        <3> QED BY <1>1, <3>1, <3>2
    <2>2. Cardinality(1..limit) = limit
        BY FS_Interval
    <2> HIDE DEF live
    <2>3. Cardinality(live) >= limit
        BY <2>1, <2>2
    <2> QED BY <2>3 DEF live, LiveAt
<1> QED BY <1>4, <1>5

\* A refused caller is told the exact moment from which on the limit that refused it has
\* room again.
THEOREM RetryIsExact == HSpec => RetryAfterExact
<1>1. HistoryInv /\ [HNext]_historyVars =>
        [\A u \in Users : TryAcquire(u) /\ ~result'.allowed =>
          LET hits  == IF result'.scope = "global" THEN global_hits' ELSE user_hits'[u]
              limit == IF result'.scope = "global" THEN GlobalLimit ELSE PerUser
              again == now + result'.retry_after
          IN  LiveAt(hits, again) < limit /\ LiveAt(hits, again - 1) >= limit
        ]_limiterVars
    <2> SUFFICES ASSUME HistoryInv, NEW u \in Users, TryAcquire(u), ~result'.allowed
                 PROVE  LET hits  == IF result'.scope = "global" THEN global_hits' ELSE user_hits'[u]
                            limit == IF result'.scope = "global" THEN GlobalLimit ELSE PerUser
                            later == now + result'.retry_after
                        IN  LiveAt(hits, later) < limit /\ LiveAt(hits, later - 1) >= limit
        OBVIOUS
    <2> DEFINE again == now + result'.retry_after
               swept == AfterSweep(now)
               all   == Prune(global_hits, now)
               own   == HitsOf(swept, u)
               mine  == Prune(own, now)
    <2>1. /\ now \in Nat /\ global_hits \in Seq(Nat)
          /\ granted \in Seq(Nat) /\ grantedTo[u] \in Seq(Nat)
          /\ PerUser \in Nat \ {0} /\ GlobalLimit \in Nat \ {0}
        BY LimiterAssumption DEF HistoryInv, HistoryType, LimiterInv, TypeOK
    <2>2. /\ all \in Seq(Nat) /\ Len(all) \in Nat /\ Len(all) <= GlobalLimit
          /\ mine \in Seq(Nat) /\ Len(mine) \in Nat /\ Len(mine) <= PerUser
        BY CallContext DEF HistoryInv
    <2>3. /\ Tracked(all, granted, GlobalLimit, now)
          /\ own \in Seq(Nat)
          /\ Tracked(mine, grantedTo[u], PerUser, now)
        BY SweptTracked
    <2>4. /\ \A i, j \in 1..Len(all) : i <= j => all[i] <= all[j]
          /\ \A i, j \in 1..Len(mine) : i <= j => mine[i] <= mine[j]
        BY <2>1, <2>2, <2>3, DequeOrdered DEF Tracked
    <2>5. /\ Len(all) >= 1 => all[1] > now - Window
          /\ Len(mine) >= 1 => mine[1] > now - Window
        BY <2>1, <2>3, PrunedHead
    <2>6. \/ DenyGlobal(u, swept, all)
          \/ DenyUser(u, swept, all, mine)
        BY DEF TryAcquire, Grant, Answer
    <2> HIDE DEF swept, all, own, mine
    <2>7. CASE DenyGlobal(u, swept, all)
        <3>1. /\ Len(all) = GlobalLimit
              /\ result'.scope = "global" /\ result'.retry_after = RetryAfter(all, now)
              /\ global_hits' = all
            BY <2>1, <2>2, <2>7 DEF DenyGlobal, Answer
        <3>2. all[1] > now - Window
            BY <2>1, <2>5, <3>1
        <3>3. again = now + RetryAfter(all, now)
            BY <3>1
        <3> HIDE DEF again
        <3>4. LiveAt(all, again) < GlobalLimit /\ LiveAt(all, again - 1) >= GlobalLimit
            BY <2>1, <2>2, <2>4, <3>1, <3>2, <3>3, HeadFreesRoom
        <3> QED BY <3>1, <3>4 DEF again
    <2>8. CASE DenyUser(u, swept, all, mine)
        <3>1. /\ Len(mine) = PerUser
              /\ result'.scope = "user" /\ result'.retry_after = RetryAfter(mine, now)
              /\ user_hits' = Store(swept, u, mine)
            BY <2>1, <2>2, <2>8 DEF DenyUser, Answer
        <3>2. user_hits'[u] = mine
            BY <3>1 DEF Store
        <3>3. mine[1] > now - Window
            BY <2>1, <2>5, <3>1
        <3>4. again = now + RetryAfter(mine, now)
            BY <3>1
        <3> HIDE DEF again
        <3>5. LiveAt(mine, again) < PerUser /\ LiveAt(mine, again - 1) >= PerUser
            BY <2>1, <2>2, <2>4, <3>1, <3>3, <3>4, HeadFreesRoom
        <3> QED BY <3>1, <3>2, <3>5 DEF again
    <2> QED BY <2>6, <2>7, <2>8
<1> QED BY <1>1, HistoryInvariant, PTL DEF HSpec, RetryAfterExact
================================================================================
