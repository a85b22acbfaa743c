------------------------- MODULE ConcurrencyGuardProofs -------------------------
(***************************************************************************)
(* Proofs about ConcurrencyGuard, for every finite set of tasks, every     *)
(* number of slots and every length of the queue.                          *)
(***************************************************************************)
EXTENDS ConcurrencyGuard, SequenceLemmas

\* The deque lists exactly the waiting tasks, each once, and they are the ones that
\* have a future.
DequeExact ==
    /\ \A t \in Tasks : fut[t] # "none" <=> pc[t] = "waiting"
    /\ \A t \in Tasks : pc[t] = "waiting" => \E i \in 1..Len(waiters) : waiters[i] = t
    /\ \A i \in 1..Len(waiters) : pc[waiters[i]] = "waiting"
    /\ \A i, j \in 1..Len(waiters) : waiters[i] = waiters[j] => i = j

\* value is only assumed to be a natural number: that it is at most MaxConcurrent
\* follows from SlotConservation.
BaseType ==
    /\ pc \in [Tasks -> Places]
    /\ value \in Nat
    /\ waiters \in Seq(Tasks)
    /\ fut \in [Tasks -> Futures]

WithinCapacity == in_flight <= Capacity

GuardInv ==
    BaseType /\ DequeExact /\ SlotConservation /\ InFlightExact /\ NoLostWakeup
    /\ WithinCapacity

--------------------------------------------------------------------------------
(* Counting tasks *)

\* A slot that changes hands keeps the sum: what one kind of holder gains, d, the
\* others lose.
LEMMA SumKept ==
    ASSUME NEW free \in Int, NEW held \in Int, NEW given \in Int,
           NEW free2 \in Int, NEW held2 \in Int, NEW given2 \in Int,
           NEW d \in Int, NEW total \in Int,
           free + held + given = total,
           free2 + given2 = (free + given) + d,
           held2 = held - d
    PROVE  free2 + held2 + given2 = total
BY SMT

LEMMA CardTasks ==
    ASSUME NEW S \in SUBSET Tasks
    PROVE  IsFiniteSet(S) /\ Cardinality(S) \in Nat
BY FS_Subset, FS_CardinalityType, GuardAssumption

LEMMA CardAdd ==
    ASSUME NEW S \in SUBSET Tasks, NEW t \in Tasks, t \notin S
    PROVE  Cardinality(S \cup {t}) = Cardinality(S) + 1
BY CardTasks, FS_AddElement

LEMMA CardDrop ==
    ASSUME NEW S \in SUBSET Tasks, NEW t \in S
    PROVE  Cardinality(S \ {t}) = Cardinality(S) - 1
BY CardTasks, FS_RemoveElement

--------------------------------------------------------------------------------
(* The deque *)

\* What is left of the deque when t's future is removed from it.
LEMMA RestProperties ==
    ASSUME BaseType, DequeExact, NEW t \in Tasks, pc[t] = "waiting"
    PROVE  /\ Rest(t) \in Seq(Tasks)
           /\ \A i \in 1..Len(Rest(t)) :
                 Rest(t)[i] # t /\ \E k \in 1..Len(waiters) : Rest(t)[i] = waiters[k]
           /\ \A k \in 1..Len(waiters) :
                 waiters[k] # t => \E i \in 1..Len(Rest(t)) : Rest(t)[i] = waiters[k]
           /\ \A i, j \in 1..Len(Rest(t)) : Rest(t)[i] = Rest(t)[j] => i = j
<1> DEFINE n == Len(waiters)
           p == Position(t)
           left == SubSeq(waiters, 1, p - 1)
           right == SubSeq(waiters, p + 1, n)
           rest == Rest(t)
<1>1. n \in Nat /\ DOMAIN waiters = 1..n /\ \A i \in 1..n : waiters[i] \in Tasks
    BY LenProperties, ElementOfSeq DEF BaseType
<1>2. p \in 1..n /\ waiters[p] = t
    BY <1>1 DEF DequeExact, Position
<1>3. rest = left \o right
    BY DEF Rest, RemoveAt
<1> HIDE DEF n, p, rest
<1>4. /\ left \in Seq(Tasks)
      /\ Len(left) = IF 1 <= p - 1 THEN p - 1 - 1 + 1 ELSE 0
      /\ \A i \in 1..(p - 1 - 1 + 1) : left[i] = waiters[1 + i - 1]
    BY <1>1, <1>2, SubSeqProperties
<1>5. /\ right \in Seq(Tasks)
      /\ Len(right) = IF p + 1 <= n THEN n - (p + 1) + 1 ELSE 0
      /\ \A i \in 1..(n - (p + 1) + 1) : right[i] = waiters[p + 1 + i - 1]
    BY <1>1, <1>2, SubSeqProperties
<1>6. Len(left) = p - 1 /\ Len(right) = n - p
    BY <1>1, <1>2, <1>4, <1>5
<1> HIDE DEF left, right
<1>7. /\ rest \in Seq(Tasks)
      /\ Len(rest) = Len(left) + Len(right)
      /\ \A i \in 1..(Len(left) + Len(right)) :
            rest[i] = IF i <= Len(left) THEN left[i] ELSE right[i - Len(left)]
    BY <1>3, <1>4, <1>5, ConcatProperties
<1>8. Len(rest) = n - 1
    BY <1>1, <1>2, <1>6, <1>7
<1>9. ASSUME NEW i \in 1..(n - 1)
      PROVE  rest[i] = waiters[IF i < p THEN i ELSE i + 1]
    <2>1. CASE i < p
        <3>1. rest[i] = left[i]
            BY <1>1, <1>2, <1>6, <1>7, <2>1
        <3>2. i \in 1..(p - 1 - 1 + 1) /\ 1 + i - 1 = i
            BY <1>1, <1>2, <2>1
        <3> QED BY <1>4, <2>1, <3>1, <3>2
    <2>2. CASE ~(i < p)
        <3>1. rest[i] = right[i - Len(left)]
            BY <1>1, <1>2, <1>6, <1>7, <2>2
        <3>2. i - Len(left) \in 1..(n - (p + 1) + 1) /\ p + 1 + (i - Len(left)) - 1 = i + 1
            BY <1>1, <1>2, <1>6, <2>2
        <3> QED BY <1>5, <2>2, <3>1, <3>2
    <2> QED BY <2>1, <2>2
<1>10. \A i, j \in 1..n : waiters[i] = waiters[j] => i = j
    BY DEF DequeExact, n
<1>11. ASSUME NEW i \in 1..(n - 1)
       PROVE  rest[i] # t /\ \E k \in 1..n : rest[i] = waiters[k]
    <2> DEFINE k == IF i < p THEN i ELSE i + 1
    <2>1. k \in 1..n /\ k # p
        BY <1>1, <1>2
    <2> QED BY <1>2, <1>9, <1>10, <2>1
<1>12. ASSUME NEW k \in 1..n, waiters[k] # t
       PROVE  \E i \in 1..(n - 1) : rest[i] = waiters[k]
    <2> DEFINE i == IF k < p THEN k ELSE k - 1
    <2>1. k # p
        BY <1>2, <1>12
    <2>2. i \in 1..(n - 1) /\ (IF i < p THEN i ELSE i + 1) = k
        BY <1>1, <1>2, <2>1
    <2> QED BY <1>9, <2>2
<1>13. ASSUME NEW i \in 1..(n - 1), NEW j \in 1..(n - 1), rest[i] = rest[j]
       PROVE  i = j
    <2> DEFINE ki == IF i < p THEN i ELSE i + 1
               kj == IF j < p THEN j ELSE j + 1
    <2>1. ki \in 1..n /\ kj \in 1..n
        BY <1>1, <1>2
    <2>2. waiters[ki] = waiters[kj]
        BY <1>9, <1>13
    <2>3. ki = kj
        BY <1>10, <2>1, <2>2
    <2> QED BY <1>1, <1>2, <2>3
<1> QED BY <1>7, <1>8, <1>11, <1>12, <1>13 DEF n, rest

\* _wake_up_next either finds nobody pending or hands one free slot to one of them.
LEMMA WakeUpProperties ==
    ASSUME NEW v \in Nat, NEW w \in Seq(Tasks), NEW f \in [Tasks -> Futures],
           \A u \in Tasks : f[u] = "pending" => \E i \in 1..Len(w) : w[i] = u,
           WakeUpNext(v, w, f)
    PROVE  /\ waiters' = w
           /\ \/ /\ \A u \in Tasks : f[u] # "pending"
                 /\ value' = v /\ fut' = f
              \/ \E u \in Tasks :
                    /\ f[u] = "pending"
                    /\ value' = v - 1 /\ fut' = [f EXCEPT ![u] = "granted"]
<1>1. DOMAIN w = 1..Len(w) /\ \A i \in 1..Len(w) : w[i] \in Tasks
    BY LenProperties, ElementOfSeq
<1>2. waiters' = w
    BY DEF WakeUpNext
<1>3. CASE \A i \in DOMAIN w : f[w[i]] # "pending"
    <2>1. value' = v /\ fut' = f
        BY <1>3 DEF WakeUpNext, FirstPending
    <2>2. \A u \in Tasks : f[u] # "pending"
        BY <1>1, <1>3
    <2> QED BY <1>2, <2>1, <2>2
<1>4. CASE ~\A i \in DOMAIN w : f[w[i]] # "pending"
    <2>1. PICK i \in DOMAIN w : /\ f[w[i]] = "pending"
                                /\ value' = v - 1
                                /\ fut' = [f EXCEPT ![w[i]] = "granted"]
        BY <1>4 DEF WakeUpNext, FirstPending
    <2>2. w[i] \in Tasks
        BY <1>1
    <2> QED BY <1>2, <2>1, <2>2
<1> QED BY <1>3, <1>4

GrantedIn(f) == {u \in Tasks : f[u] \in {"granted", "doomed"}}

\* Waking the next waiter moves a slot from the free ones to the granted ones, if at
\* all, and leaves no pending waiter beside a free slot unless one was just granted.
LEMMA WakeConserves ==
    ASSUME NEW v \in Nat \ {0}, NEW w \in Seq(Tasks), NEW f \in [Tasks -> Futures],
           \A u \in Tasks : f[u] = "pending" => \E i \in 1..Len(w) : w[i] = u,
           WakeUpNext(v, w, f)
    PROVE  /\ waiters' = w
           /\ value' \in Nat
           /\ fut' \in [Tasks -> Futures]
           /\ \A u \in Tasks : fut'[u] = "none" <=> f[u] = "none"
           /\ value' + Cardinality(Granted') = v + Cardinality(GrantedIn(f))
           /\ NoLostWakeup'
<1>1. CASE (\A u \in Tasks : f[u] # "pending") /\ value' = v /\ fut' = f
    <2>1. waiters' = w
        BY DEF WakeUpNext
    <2>2. Granted' = GrantedIn(f)
        BY <1>1 DEF Granted, GrantedIn
    <2>3. NoLostWakeup'
        BY <1>1 DEF NoLostWakeup, Pending
    <2>4. value' + Cardinality(Granted') = v + Cardinality(GrantedIn(f))
        BY <1>1, <2>2
    <2> QED BY <1>1, <2>1, <2>3, <2>4
<1>2. ASSUME NEW u \in Tasks, f[u] = "pending", value' = v - 1,
             fut' = [f EXCEPT ![u] = "granted"]
      PROVE  /\ value' \in Nat
             /\ fut' \in [Tasks -> Futures]
             /\ \A x \in Tasks : fut'[x] = "none" <=> f[x] = "none"
             /\ value' + Cardinality(Granted') = v + Cardinality(GrantedIn(f))
             /\ NoLostWakeup'
    <2>1. Granted' = GrantedIn(f) \cup {u}
        BY <1>2 DEF Granted, GrantedIn
    <2>2. u \notin GrantedIn(f) /\ GrantedIn(f) \in SUBSET Tasks
        BY <1>2 DEF GrantedIn
    <2>3. Cardinality(Granted') = Cardinality(GrantedIn(f)) + 1
        BY <2>1, <2>2, CardAdd
    <2>4. Cardinality(GrantedIn(f)) \in Nat
        BY <2>2, CardTasks
    <2>5. value' \in Nat /\ value' + Cardinality(Granted') = v + Cardinality(GrantedIn(f))
        BY <1>2, <2>3, <2>4
    <2>6. NoLostWakeup'
        BY <2>1 DEF NoLostWakeup
    <2>7. fut' \in [Tasks -> Futures] /\ \A x \in Tasks : fut'[x] = "none" <=> f[x] = "none"
        BY <1>2 DEF Futures
    <2> QED BY <2>5, <2>6, <2>7
<1>3. waiters' = w
    BY DEF WakeUpNext
<1>4. \/ (\A u \in Tasks : f[u] # "pending") /\ value' = v /\ fut' = f
      \/ \E u \in Tasks : /\ f[u] = "pending"
                          /\ value' = v - 1 /\ fut' = [f EXCEPT ![u] = "granted"]
    BY WakeUpProperties
<1> QED BY <1>1, <1>2, <1>3, <1>4

\* The deque invariant, once waiters' is known to be what is left without t.
LEMMA DequeAfterRest ==
    ASSUME BaseType, DequeExact, NEW t \in Tasks, pc[t] = "waiting",
           waiters' = Rest(t),
           NEW q \in {"idle", "holding"}, pc' = [pc EXCEPT ![t] = q],
           \A u \in Tasks : fut'[u] = "none" <=> (u = t \/ fut[u] = "none")
    PROVE  DequeExact'
<1>1. /\ Rest(t) \in Seq(Tasks)
      /\ \A i \in 1..Len(Rest(t)) :
            Rest(t)[i] # t /\ \E k \in 1..Len(waiters) : Rest(t)[i] = waiters[k]
      /\ \A k \in 1..Len(waiters) :
            waiters[k] # t => \E i \in 1..Len(Rest(t)) : Rest(t)[i] = waiters[k]
      /\ \A i, j \in 1..Len(Rest(t)) : Rest(t)[i] = Rest(t)[j] => i = j
    BY RestProperties
<1>2. pc \in [Tasks -> Places] /\ pc'[t] # "waiting" /\ \A u \in Tasks \ {t} : pc'[u] = pc[u]
    BY DEF BaseType
<1>3. \A i \in 1..Len(waiters) : waiters[i] \in Tasks
    BY ElementOfSeq DEF BaseType
<1>4. \A u \in Tasks : fut'[u] # "none" <=> pc'[u] = "waiting"
    BY <1>2 DEF DequeExact
<1>5. ASSUME NEW u \in Tasks, pc'[u] = "waiting"
      PROVE  \E i \in 1..Len(waiters') : waiters'[i] = u
    <2>1. u # t /\ pc[u] = "waiting"
        BY <1>2, <1>5
    <2>2. PICK k \in 1..Len(waiters) : waiters[k] = u
        BY <2>1 DEF DequeExact
    <2> QED BY <1>1, <2>1, <2>2
<1>6. ASSUME NEW i \in 1..Len(waiters')
      PROVE  pc'[waiters'[i]] = "waiting"
    <2>1. PICK k \in 1..Len(waiters) : waiters'[i] = waiters[k]
        BY <1>1
    <2>2. waiters'[i] # t
        BY <1>1
    <2> QED BY <1>2, <1>3, <2>1, <2>2 DEF DequeExact
<1>7. \A i, j \in 1..Len(waiters') : waiters'[i] = waiters'[j] => i = j
    BY <1>1
<1> QED BY <1>4, <1>5, <1>6, <1>7 DEF DequeExact

--------------------------------------------------------------------------------
(* One lemma per action *)

LEMMA GuardInit == Init => GuardInv
<1> SUFFICES ASSUME Init
             PROVE  GuardInv
    OBVIOUS
<1>1. Len(<<>>) = 0 /\ <<>> \in Seq(Tasks)
    BY EmptySeq
<1>2. BaseType
    BY <1>1, GuardAssumption DEF Init, BaseType, Places, Futures
<1>3. DequeExact
    BY <1>1 DEF Init, DequeExact
<1>4. Holding = {} /\ Waiting = {} /\ Granted = {} /\ Pending = {}
    BY DEF Init, Holding, Waiting, Granted, Pending
<1>5. Cardinality({}) = 0
    BY FS_EmptySet
<1>6. SlotConservation /\ InFlightExact
    BY <1>4, <1>5, GuardAssumption DEF Init, SlotConservation, InFlightExact
<1>7. WithinCapacity
    BY GuardAssumption DEF Init, WithinCapacity, Capacity
<1> QED BY <1>2, <1>3, <1>4, <1>6, <1>7 DEF GuardInv, NoLostWakeup

LEMMA AcquireRefusedInv ==
    ASSUME GuardInv, NEW t \in Tasks, AcquireRefused(t)
    PROVE  GuardInv'
<1>1. Holding' = Holding /\ Waiting' = Waiting /\ Granted' = Granted /\ Pending' = Pending
    BY DEF AcquireRefused, Outside, GuardInv, BaseType, Holding, Waiting, Granted, Pending,
           semVars
<1>2. BaseType'
    BY DEF AcquireRefused, GuardInv, BaseType, semVars, Places
<1>3. \A u \in Tasks : pc'[u] = "waiting" <=> pc[u] = "waiting"
    BY DEF AcquireRefused, Outside, GuardInv, BaseType
<1>4. \A i \in 1..Len(waiters) : waiters[i] \in Tasks
    BY ElementOfSeq DEF GuardInv, BaseType
<1>5. DequeExact'
    BY <1>3, <1>4 DEF AcquireRefused, GuardInv, DequeExact, semVars
<1> QED BY <1>1, <1>2, <1>5 DEF AcquireRefused, GuardInv, SlotConservation, InFlightExact,
                                NoLostWakeup, WithinCapacity, semVars

LEMMA AcquireNowInv ==
    ASSUME GuardInv, NEW t \in Tasks, AcquireNow(t)
    PROVE  GuardInv'
<1>1. /\ pc[t] \in {"idle", "refused"} /\ pc' = [pc EXCEPT ![t] = "holding"]
      /\ value # 0 /\ value' = value - 1 /\ in_flight' = in_flight + 1
      /\ waiters' = waiters /\ fut' = fut
    BY DEF AcquireNow, Outside, Locked
<1>2. Holding' = Holding \cup {t} /\ t \notin Holding
    BY <1>1 DEF GuardInv, BaseType, Holding
<1>3. Waiting' = Waiting /\ Granted' = Granted /\ Pending' = Pending
    BY <1>1 DEF GuardInv, BaseType, Waiting, Granted, Pending
<1>4. BaseType'
    BY <1>1 DEF GuardInv, BaseType, Places
<1>5. \A u \in Tasks : pc'[u] = "waiting" <=> pc[u] = "waiting"
    BY <1>1 DEF GuardInv, BaseType
<1>6. \A i \in 1..Len(waiters) : waiters[i] \in Tasks
    BY ElementOfSeq DEF GuardInv, BaseType
<1>7. DequeExact'
    BY <1>1, <1>5, <1>6 DEF GuardInv, DequeExact
<1>8. /\ Cardinality(Holding') = Cardinality(Holding) + 1
      /\ Cardinality(Holding) \in Nat /\ Cardinality(Granted) \in Nat
      /\ Cardinality(Waiting) \in Nat /\ value \in Nat
    BY <1>2, CardAdd, CardTasks DEF Holding, Granted, Waiting, GuardInv, BaseType
<1>9. SlotConservation'
    BY <1>1, <1>3, <1>8 DEF GuardInv, SlotConservation
<1>10. InFlightExact'
    BY <1>1, <1>3, <1>8 DEF GuardInv, InFlightExact
<1>11. NoLostWakeup'
    BY <1>1, <1>3, <1>8 DEF GuardInv, NoLostWakeup
<1>12. in_flight \in Nat /\ WithinCapacity'
    BY <1>1, <1>8, GuardAssumption
       DEF AcquireNow, IsFull, GuardInv, InFlightExact, WithinCapacity, Capacity
<1> QED BY <1>4, <1>7, <1>9, <1>10, <1>11, <1>12 DEF GuardInv

LEMMA AcquireWaitInv ==
    ASSUME GuardInv, NEW t \in Tasks, AcquireWait(t)
    PROVE  GuardInv'
<1>1. /\ pc[t] \in {"idle", "refused"} /\ pc' = [pc EXCEPT ![t] = "waiting"]
      /\ value' = value /\ in_flight' = in_flight + 1
      /\ waiters' = Append(waiters, t) /\ fut' = [fut EXCEPT ![t] = "pending"]
      /\ Locked
    BY DEF AcquireWait, Outside
<1>2. /\ pc \in [Tasks -> Places] /\ fut \in [Tasks -> Futures] /\ fut[t] = "none"
      /\ waiters \in Seq(Tasks) /\ value \in Nat /\ Len(waiters) \in Nat
      /\ DOMAIN waiters = 1..Len(waiters)
    BY <1>1, LenProperties DEF GuardInv, BaseType, DequeExact
<1>3. Waiting' = Waiting \cup {t} /\ t \notin Waiting /\ Holding' = Holding
    BY <1>1, <1>2 DEF Waiting, Holding
<1>4. Granted' = Granted
    BY <1>1, <1>2 DEF Granted
<1>5. /\ waiters' \in Seq(Tasks) /\ Len(waiters') = Len(waiters) + 1
      /\ \A i \in 1..Len(waiters) : waiters'[i] = waiters[i]
      /\ waiters'[Len(waiters) + 1] = t
    BY <1>1, <1>2, AppendProperties
<1>6. BaseType'
    BY <1>1, <1>2, <1>5 DEF BaseType, Places, Futures
<1>7. \A i \in 1..Len(waiters) : waiters[i] \in Tasks /\ waiters[i] # t
                                 /\ pc[waiters[i]] = "waiting"
    BY <1>1, <1>2, ElementOfSeq DEF GuardInv, DequeExact
<1>8. DequeExact'
    <2>1. \A u \in Tasks : fut'[u] # "none" <=> pc'[u] = "waiting"
        BY <1>1, <1>2 DEF GuardInv, DequeExact
    <2>2. ASSUME NEW u \in Tasks, pc'[u] = "waiting"
          PROVE  \E i \in 1..Len(waiters') : waiters'[i] = u
        <3>1. CASE u = t
            BY <1>2, <1>5, <3>1
        <3>2. CASE u # t
            <4>1. PICK i \in 1..Len(waiters) : waiters[i] = u
                BY <1>1, <1>2, <2>2, <3>2 DEF GuardInv, DequeExact
            <4>2. i \in 1..Len(waiters')
                BY <1>2, <1>5, <4>1
            <4> QED BY <1>5, <4>1, <4>2
        <3> QED BY <3>1, <3>2
    <2>3. \A i \in 1..Len(waiters') : i \in 1..Len(waiters) \/ i = Len(waiters) + 1
        BY <1>2, <1>5
    <2>4. ASSUME NEW i \in 1..Len(waiters')
          PROVE  pc'[waiters'[i]] = "waiting"
        BY <1>1, <1>2, <1>5, <1>7, <2>3
    <2>5. ASSUME NEW i \in 1..Len(waiters'), NEW j \in 1..Len(waiters'),
                 waiters'[i] = waiters'[j]
          PROVE  i = j
        BY <1>5, <1>7, <2>3, <2>5 DEF GuardInv, DequeExact
    <2> QED BY <2>1, <2>2, <2>4, <2>5 DEF DequeExact
<1>9. /\ Cardinality(Waiting') = Cardinality(Waiting) + 1
      /\ Cardinality(Holding) \in Nat /\ Cardinality(Waiting) \in Nat
    BY <1>3, CardAdd, CardTasks DEF Holding, Waiting
<1>10. SlotConservation'
    BY <1>1, <1>3, <1>4 DEF GuardInv, SlotConservation
<1>11. InFlightExact'
    BY <1>1, <1>3, <1>9 DEF GuardInv, InFlightExact
<1>12. NoLostWakeup'
    <2>1. CASE value = 0
        BY <1>1, <2>1 DEF NoLostWakeup
    <2>2. CASE value # 0
        <3>1. PICK i \in DOMAIN waiters : fut[waiters[i]] # "cancelled"
            BY <1>1, <2>2 DEF Locked
        <3>2. waiters[i] \in Tasks /\ fut[waiters[i]] \in {"pending", "granted", "doomed"}
            BY <1>2, <1>7, <3>1 DEF GuardInv, DequeExact, Futures
        <3>3. Granted # {}
            BY <1>2, <2>2, <3>2 DEF GuardInv, NoLostWakeup, Granted, Pending
        <3> QED BY <1>4, <3>3 DEF NoLostWakeup
    <2> QED BY <2>1, <2>2
<1>13. WithinCapacity'
    BY <1>1, <1>9, GuardAssumption
       DEF AcquireWait, IsFull, GuardInv, InFlightExact, WithinCapacity, Capacity
<1> QED BY <1>6, <1>8, <1>10, <1>11, <1>12, <1>13 DEF GuardInv

\* What the deque without t and the futures without t's satisfy.
LEMMA ForgottenProperties ==
    ASSUME GuardInv, NEW t \in Tasks, pc[t] = "waiting"
    PROVE  /\ Forgotten(t) \in [Tasks -> Futures]
           /\ Rest(t) \in Seq(Tasks)
           /\ \A u \in Tasks : Forgotten(t)[u] = "none" <=> (u = t \/ fut[u] = "none")
           /\ \A u \in Tasks :
                 Forgotten(t)[u] = "pending" => \E i \in 1..Len(Rest(t)) : Rest(t)[i] = u
           /\ GrantedIn(Forgotten(t)) = Granted \ {t}
<1>1. fut \in [Tasks -> Futures] /\ BaseType /\ DequeExact
    BY DEF GuardInv, BaseType
<1>2. /\ Rest(t) \in Seq(Tasks)
      /\ \A k \in 1..Len(waiters) :
            waiters[k] # t => \E i \in 1..Len(Rest(t)) : Rest(t)[i] = waiters[k]
    BY <1>1, RestProperties
<1>3. Forgotten(t) \in [Tasks -> Futures] /\ Forgotten(t)[t] = "none"
      /\ \A u \in Tasks \ {t} : Forgotten(t)[u] = fut[u]
    BY <1>1 DEF Forgotten, Futures
<1>4. ASSUME NEW u \in Tasks, Forgotten(t)[u] = "pending"
      PROVE  \E i \in 1..Len(Rest(t)) : Rest(t)[i] = u
    <2>1. u # t /\ fut[u] = "pending"
        BY <1>3, <1>4
    <2>2. PICK k \in 1..Len(waiters) : waiters[k] = u
        BY <1>1, <2>1 DEF DequeExact
    <2> QED BY <1>2, <2>1, <2>2
<1>5. GrantedIn(Forgotten(t)) = Granted \ {t}
    BY <1>3 DEF GrantedIn, Granted
<1> QED BY <1>2, <1>3, <1>4, <1>5

LEMMA ResumeInv ==
    ASSUME GuardInv, NEW t \in Tasks, Resume(t)
    PROVE  GuardInv'
<1> DEFINE rest == Rest(t)
           left == Forgotten(t)
<1>1. /\ pc[t] = "waiting" /\ fut[t] = "granted" /\ pc' = [pc EXCEPT ![t] = "holding"]
      /\ in_flight' = in_flight
    BY DEF Resume
<1>2. /\ left \in [Tasks -> Futures] /\ rest \in Seq(Tasks)
      /\ \A u \in Tasks : left[u] = "none" <=> (u = t \/ fut[u] = "none")
      /\ \A u \in Tasks : left[u] = "pending" => \E i \in 1..Len(rest) : rest[i] = u
      /\ GrantedIn(left) = Granted \ {t}
    BY <1>1, ForgottenProperties
<1>3. value \in Nat /\ pc \in [Tasks -> Places]
    BY DEF GuardInv, BaseType
<1>4. IF value > 0 THEN WakeUpNext(value, rest, left)
                   ELSE waiters' = rest /\ fut' = left /\ value' = value
    BY DEF Resume
<1> HIDE DEF rest, left
<1>5. /\ waiters' = rest
      /\ value' \in Nat
      /\ fut' \in [Tasks -> Futures]
      /\ \A u \in Tasks : fut'[u] = "none" <=> left[u] = "none"
      /\ value' + Cardinality(Granted') = value + Cardinality(GrantedIn(left))
      /\ NoLostWakeup'
    <2>1. CASE value > 0
        <3>1. WakeUpNext(value, rest, left) /\ value \in Nat \ {0}
            BY <1>3, <1>4, <2>1
        <3> QED BY <1>2, <3>1, WakeConserves
    <2>2. CASE ~(value > 0)
        <3>1. waiters' = rest /\ fut' = left /\ value' = value
            BY <1>4, <2>2
        <3>2. Granted' = GrantedIn(left)
            BY <3>1 DEF Granted, GrantedIn
        <3>3. NoLostWakeup'
            BY <2>2, <3>1 DEF NoLostWakeup
        <3> QED BY <1>2, <1>3, <3>1, <3>2, <3>3
    <2> QED BY <2>1, <2>2
<1>6. BaseType'
    BY <1>1, <1>2, <1>3, <1>5 DEF BaseType, Places
<1>7. DequeExact'
    BY <1>1, <1>2, <1>5, DequeAfterRest DEF GuardInv, rest
<1>8. /\ Holding' = Holding \cup {t} /\ t \notin Holding
      /\ Waiting' = Waiting \ {t} /\ t \in Waiting
      /\ t \in Granted
    BY <1>1, <1>3 DEF Holding, Waiting, Granted
<1>9. /\ Cardinality(Holding') = Cardinality(Holding) + 1
      /\ Cardinality(Waiting') = Cardinality(Waiting) - 1
      /\ Cardinality(Granted \ {t}) = Cardinality(Granted) - 1
    BY <1>8, CardAdd, CardDrop DEF Holding, Waiting, Granted
<1>10. /\ Cardinality(Holding) \in Nat /\ Cardinality(Waiting) \in Nat
       /\ Cardinality(Granted) \in Nat /\ Cardinality(Granted') \in Nat
    <2>1. Granted' \in SUBSET Tasks
        BY DEF Granted
    <2> QED BY <2>1, CardTasks DEF Holding, Waiting, Granted
<1>11. SlotConservation'
    <2>1. value + Cardinality(Holding) + Cardinality(Granted) = MaxConcurrent
        BY DEF GuardInv, SlotConservation
    <2>2. value' + Cardinality(Granted') = value + (Cardinality(Granted) - 1)
        BY <1>2, <1>5, <1>9
    <2>3. value \in Int /\ value' \in Int /\ MaxConcurrent \in Int
        BY <1>3, <1>5, GuardAssumption
    <2>4. Cardinality(Holding') = Cardinality(Holding) + 1
        BY <1>9
    <2>5. /\ value' + Cardinality(Granted') = (value + Cardinality(Granted)) + (-1)
          /\ Cardinality(Holding') = Cardinality(Holding) - (-1)
        BY <1>10, <2>2, <2>3, <2>4
    <2>6. Cardinality(Holding') \in Int
        BY <1>10, <2>4
    <2>7. value' + Cardinality(Holding') + Cardinality(Granted') = MaxConcurrent
        BY <1>10, <2>1, <2>3, <2>5, <2>6, SumKept
    <2> QED BY <2>7 DEF SlotConservation
<1>12. InFlightExact'
    BY <1>1, <1>9, <1>10 DEF GuardInv, InFlightExact
<1>13. WithinCapacity'
    BY <1>1 DEF GuardInv, WithinCapacity, Capacity
<1> QED BY <1>5, <1>6, <1>7, <1>11, <1>12, <1>13 DEF GuardInv

LEMMA CancelInv ==
    ASSUME GuardInv, NEW t \in Tasks, Cancel(t)
    PROVE  GuardInv'
<1>1. /\ fut \in [Tasks -> Futures] /\ fut[t] \in {"pending", "granted"}
      /\ fut' = [fut EXCEPT ![t] = IF @ = "pending" THEN "cancelled" ELSE "doomed"]
      /\ pc' = pc /\ in_flight' = in_flight /\ value' = value /\ waiters' = waiters
    BY DEF Cancel, GuardInv, BaseType
<1>2. /\ fut' \in [Tasks -> Futures]
      /\ \A u \in Tasks : fut'[u] = "none" <=> fut[u] = "none"
    BY <1>1 DEF Futures
<1>3. Holding' = Holding /\ Waiting' = Waiting
    BY <1>1 DEF Holding, Waiting
<1>4. Granted' = Granted /\ Pending' \subseteq Pending
    BY <1>1 DEF Granted, Pending
<1>5. BaseType' /\ DequeExact'
    BY <1>1, <1>2 DEF GuardInv, BaseType, DequeExact
<1>6. NoLostWakeup'
    BY <1>1, <1>4 DEF GuardInv, NoLostWakeup
<1> QED BY <1>1, <1>3, <1>4, <1>5, <1>6
       DEF GuardInv, SlotConservation, InFlightExact, WithinCapacity, Capacity

LEMMA ResumeCancelledInv ==
    ASSUME GuardInv, NEW t \in Tasks, ResumeCancelled(t)
    PROVE  GuardInv'
<1> DEFINE rest == Rest(t)
           left == Forgotten(t)
<1>1. /\ pc[t] = "waiting" /\ fut[t] \in {"cancelled", "doomed"}
      /\ pc' = [pc EXCEPT ![t] = "idle"]
      /\ in_flight' = in_flight - 1
    BY DEF ResumeCancelled
<1>2. /\ left \in [Tasks -> Futures] /\ rest \in Seq(Tasks)
      /\ \A u \in Tasks : left[u] = "none" <=> (u = t \/ fut[u] = "none")
      /\ \A u \in Tasks : left[u] = "pending" => \E i \in 1..Len(rest) : rest[i] = u
      /\ GrantedIn(left) = Granted \ {t}
    BY <1>1, ForgottenProperties
<1>3. value \in Nat /\ pc \in [Tasks -> Places] /\ fut \in [Tasks -> Futures]
    BY DEF GuardInv, BaseType
<1>4. IF fut[t] = "doomed" THEN WakeUpNext(value + 1, rest, left)
                           ELSE waiters' = rest /\ fut' = left /\ value' = value
    BY DEF ResumeCancelled
<1>5. \A u \in Tasks : u # t => left[u] = fut[u]
    BY <1>3 DEF Forgotten
<1> HIDE DEF rest, left
<1>6. Cardinality(Granted) \in Nat /\ Cardinality(Holding) \in Nat /\ Cardinality(Waiting) \in Nat
    BY CardTasks DEF Granted, Holding, Waiting
<1>7. /\ waiters' = rest
      /\ value' \in Nat
      /\ fut' \in [Tasks -> Futures]
      /\ \A u \in Tasks : fut'[u] = "none" <=> left[u] = "none"
      /\ value' + Cardinality(Granted') = value + Cardinality(Granted)
      /\ NoLostWakeup'
    <2>1. CASE fut[t] = "doomed"
        <3>1. WakeUpNext(value + 1, rest, left) /\ value + 1 \in Nat \ {0}
            BY <1>3, <1>4, <2>1
        <3>2. /\ waiters' = rest
              /\ value' \in Nat
              /\ fut' \in [Tasks -> Futures]
              /\ \A u \in Tasks : fut'[u] = "none" <=> left[u] = "none"
              /\ value' + Cardinality(Granted') = (value + 1) + Cardinality(GrantedIn(left))
              /\ NoLostWakeup'
            BY <1>2, <3>1, WakeConserves
        <3>3. Cardinality(GrantedIn(left)) = Cardinality(Granted) - 1
            <4>1. t \in Granted
                BY <2>1 DEF Granted
            <4> QED BY <1>2, <4>1, CardDrop DEF Granted
        <3> QED BY <1>3, <1>6, <3>2, <3>3
    <2>2. CASE fut[t] # "doomed"
        <3>1. waiters' = rest /\ fut' = left /\ value' = value
            BY <1>4, <2>2
        <3>2. Granted' = Granted
            BY <1>1, <1>2, <2>2, <3>1 DEF Granted, GrantedIn
        <3>3. Pending' \subseteq Pending
            <4>1. \A u \in Tasks : left[u] = "pending" => fut[u] = "pending"
                BY <1>1, <1>2, <1>5
            <4> QED BY <3>1, <4>1 DEF Pending
        <3>4. NoLostWakeup'
            BY <3>1, <3>2, <3>3 DEF GuardInv, NoLostWakeup
        <3> QED BY <1>2, <1>3, <3>1, <3>2, <3>4
    <2> QED BY <2>1, <2>2
<1>8. BaseType'
    BY <1>1, <1>2, <1>3, <1>7 DEF BaseType, Places
<1>9. DequeExact'
    BY <1>1, <1>2, <1>7, DequeAfterRest DEF GuardInv, rest
<1>10. Holding' = Holding /\ Waiting' = Waiting \ {t} /\ t \in Waiting
    BY <1>1, <1>3 DEF Holding, Waiting
<1>11. Cardinality(Waiting') = Cardinality(Waiting) - 1
    BY <1>10, CardDrop DEF Waiting
<1>12. SlotConservation'
    <2>1. Granted' \in SUBSET Tasks
        BY DEF Granted
    <2>2. Cardinality(Granted') \in Nat
        BY <2>1, CardTasks
    <2> QED BY <1>3, <1>6, <1>7, <1>10, <2>2, GuardAssumption DEF GuardInv, SlotConservation
<1>13. InFlightExact'
    BY <1>1, <1>6, <1>10, <1>11 DEF GuardInv, InFlightExact
<1>14. WithinCapacity'
    BY <1>1, <1>6, GuardAssumption DEF GuardInv, InFlightExact, WithinCapacity, Capacity
<1> QED BY <1>7, <1>8, <1>9, <1>12, <1>13, <1>14 DEF GuardInv

LEMMA ReleaseInv ==
    ASSUME GuardInv, NEW t \in Tasks, Release(t)
    PROVE  GuardInv'
<1>1. /\ pc[t] = "holding" /\ pc' = [pc EXCEPT ![t] = "idle"]
      /\ WakeUpNext(value + 1, waiters, fut)
      /\ in_flight' = IF in_flight - 1 < 0 THEN 0 ELSE in_flight - 1
    BY DEF Release
<1>2. /\ value \in Nat /\ value + 1 \in Nat \ {0} /\ pc \in [Tasks -> Places]
      /\ fut \in [Tasks -> Futures] /\ waiters \in Seq(Tasks)
    BY DEF GuardInv, BaseType
<1>3. \A u \in Tasks : fut[u] = "pending" => \E i \in 1..Len(waiters) : waiters[i] = u
    BY DEF GuardInv, DequeExact
<1>4. /\ waiters' = waiters
      /\ value' \in Nat
      /\ fut' \in [Tasks -> Futures]
      /\ \A u \in Tasks : fut'[u] = "none" <=> fut[u] = "none"
      /\ value' + Cardinality(Granted') = (value + 1) + Cardinality(GrantedIn(fut))
      /\ NoLostWakeup'
    BY <1>1, <1>2, <1>3, WakeConserves
<1>5. GrantedIn(fut) = Granted
    BY DEF GrantedIn, Granted
<1>6. BaseType'
    BY <1>1, <1>2, <1>4 DEF BaseType, Places
<1>7. DequeExact'
    <2>1. \A u \in Tasks : pc'[u] = "waiting" <=> pc[u] = "waiting"
        BY <1>1, <1>2
    <2>2. \A i \in 1..Len(waiters) : waiters[i] \in Tasks
        BY <1>2, ElementOfSeq
    <2> QED BY <1>4, <2>1, <2>2 DEF GuardInv, DequeExact
<1>8. Holding' = Holding \ {t} /\ t \in Holding /\ Waiting' = Waiting
    BY <1>1, <1>2 DEF Holding, Waiting
<1>9. Cardinality(Holding') = Cardinality(Holding) - 1
    BY <1>8, CardDrop DEF Holding
<1>10. /\ Cardinality(Holding) \in Nat /\ Cardinality(Waiting) \in Nat
       /\ Cardinality(Granted) \in Nat /\ Cardinality(Granted') \in Nat
       /\ Cardinality(Holding') \in Nat
    <2>1. Granted' \in SUBSET Tasks /\ Holding' \in SUBSET Tasks
        BY DEF Granted, Holding
    <2> QED BY <2>1, CardTasks DEF Holding, Waiting, Granted
<1>11. SlotConservation'
    <2>1. value + Cardinality(Holding) + Cardinality(Granted) = MaxConcurrent
        BY DEF GuardInv, SlotConservation
    <2>2. value' + Cardinality(Granted') = (value + 1) + Cardinality(Granted)
        BY <1>4, <1>5
    <2>3. value \in Int /\ value' \in Int /\ MaxConcurrent \in Int
        BY <1>2, <1>4, GuardAssumption
    <2>4. value' + Cardinality(Granted') = (value + Cardinality(Granted)) + 1
        BY <1>10, <2>2, <2>3
    <2>5. value' + Cardinality(Holding') + Cardinality(Granted') = MaxConcurrent
        BY <1>9, <1>10, <2>1, <2>3, <2>4, SumKept
    <2> QED BY <2>5 DEF SlotConservation
<1>12. InFlightExact'
    BY <1>1, <1>8, <1>9, <1>10 DEF GuardInv, InFlightExact
<1>13. WithinCapacity'
    BY <1>1, <1>10, GuardAssumption DEF GuardInv, InFlightExact, WithinCapacity, Capacity
<1> QED BY <1>4, <1>6, <1>7, <1>11, <1>12, <1>13 DEF GuardInv

LEMMA GuardNext ==
    ASSUME GuardInv, [Next]_guardVars
    PROVE  GuardInv'
<1>1. CASE UNCHANGED guardVars
    BY <1>1 DEF guardVars, GuardInv, BaseType, DequeExact, SlotConservation, InFlightExact,
                NoLostWakeup, WithinCapacity, Capacity, Holding, Waiting, Granted, Pending
<1> QED BY <1>1, AcquireRefusedInv, AcquireNowInv, AcquireWaitInv, ResumeInv, CancelInv,
           ResumeCancelledInv, ReleaseInv DEF Next

--------------------------------------------------------------------------------
LEMMA GuardInvariant == Spec => []GuardInv
BY GuardInit, GuardNext, PTL DEF Spec

\* Free, held and handed-over slots add up to max_concurrent at every await.
THEOREM SlotsConserved == Spec => []SlotConservation
<1>1. GuardInv => SlotConservation
    BY DEF GuardInv
<1> QED BY <1>1, GuardInvariant, PTL

\* _in_flight counts running and waiting tasks exactly at every await.
THEOREM CounterExact == Spec => []InFlightExact
<1>1. GuardInv => InFlightExact
    BY DEF GuardInv
<1> QED BY <1>1, GuardInvariant, PTL

\* No slot stays free beside a pending waiter unless a wakeup is already under way.
THEOREM WakeupsNotLost == Spec => []NoLostWakeup
<1>1. GuardInv => NoLostWakeup
    BY DEF GuardInv
<1> QED BY <1>1, GuardInvariant, PTL

\* The types, with value bounded by max_concurrent.
THEOREM GuardTypeCorrect == Spec => []TypeOK
<1>1. ASSUME GuardInv
      PROVE  TypeOK
    <2>1. Cardinality(Holding) \in Nat /\ Cardinality(Granted) \in Nat
          /\ Cardinality(Waiting) \in Nat
        BY CardTasks DEF Holding, Granted, Waiting
    <2>2. value \in Nat
        BY <1>1 DEF GuardInv, BaseType
    <2>3. value \in 0..MaxConcurrent
        BY <1>1, <2>1, <2>2, GuardAssumption DEF GuardInv, SlotConservation
    <2>4. in_flight \in Nat
        BY <1>1, <2>1 DEF GuardInv, InFlightExact
    <2> QED BY <1>1, <2>3, <2>4 DEF GuardInv, BaseType, TypeOK
<1> QED BY <1>1, GuardInvariant, PTL

\* A refusal means that every slot and every place in the queue is taken.
THEOREM RefusalsJustified == Spec => RefusedOnlyWhenFull
<1>1. ASSUME GuardInv, [Next]_guardVars
      PROVE  [\A t \in Tasks :
                 pc[t] # "refused" /\ pc'[t] = "refused"
                     => Cardinality(Holding) + Cardinality(Waiting) = Capacity]_guardVars
    <2>1. CASE UNCHANGED guardVars
        BY <2>1
    <2>2. ASSUME Next, NEW t \in Tasks, pc[t] # "refused", pc'[t] = "refused"
          PROVE  Cardinality(Holding) + Cardinality(Waiting) = Capacity
        <3>1. pc \in [Tasks -> Places]
            BY <1>1 DEF GuardInv, BaseType
        <3>2. in_flight >= Capacity
            BY <2>2, <3>1 DEF Next, AcquireRefused, AcquireNow, AcquireWait, Resume, Cancel,
                              ResumeCancelled, Release, IsFull
        <3>3. in_flight = Cardinality(Holding) + Cardinality(Waiting)
              /\ in_flight <= Capacity
            BY <1>1 DEF GuardInv, InFlightExact, WithinCapacity
        <3>4. Cardinality(Holding) \in Nat /\ Cardinality(Waiting) \in Nat /\ Capacity \in Nat
            BY CardTasks, GuardAssumption DEF Holding, Waiting, Capacity
        <3> QED BY <3>2, <3>3, <3>4
    <2> QED BY <1>1, <2>1, <2>2
<1> QED BY <1>1, GuardInvariant, PTL DEF Spec, RefusedOnlyWhenFull

--------------------------------------------------------------------------------
(* The refinement *)

PendingIn(f) == {u \in Tasks : f[u] = "pending"}

\* The deque holds no task twice, and all that are pending.
LEMMA DequeElems ==
    ASSUME BaseType, DequeExact
    PROVE  /\ waiters \in Seq(Tasks) /\ Once(waiters)
           /\ Pending \subseteq Elems(waiters) /\ Pending \subseteq Waiting
BY DEF BaseType, DequeExact, Once, Elems, Pending, Waiting

\* Removing a task that is not pending leaves the line as it is.
LEMMA RestKeeps ==
    ASSUME BaseType, DequeExact, NEW t \in Tasks, pc[t] = "waiting", NEW S, t \notin S
    PROVE  Keep(Rest(t), S) = Keep(waiters, S)
<1> DEFINE p == Position(t)
           l == Before(waiters, p)
           r == Behind(waiters, p)
<1>1. waiters \in Seq(Tasks) /\ p \in 1..Len(waiters) /\ waiters[p] = t
    <2>1. waiters \in Seq(Tasks) /\ DOMAIN waiters = 1..Len(waiters)
        BY LenProperties DEF BaseType
    <2> QED BY <2>1 DEF DequeExact, Position
<1>2. Rest(t) = l \o r
    BY DEF Rest, RemoveAt, Before, Behind
<1> HIDE DEF p
<1>3. l \in Seq(Tasks) /\ r \in Seq(Tasks)
    BY <1>1, SplitAt
<1>4. Keep(waiters, S) = Keep(l, S) \o Keep(r, S)
    BY <1>1, KeepSplit
<1> HIDE DEF l, r
<1>5. Keep(l \o r, S) = Keep(l, S) \o Keep(r, S)
    BY <1>3, KeepConcat
<1> QED BY <1>2, <1>4, <1>5, Zenon

\* What _wake_up_next does to the line: nothing, if it is empty; otherwise its head is
\* granted the slot and leaves it.
LEMMA WakeLine ==
    ASSUME NEW v \in Nat, NEW w \in Seq(Tasks), NEW f \in [Tasks -> Futures], Once(w),
           PendingIn(f) \subseteq Elems(w), WakeUpNext(v, w, f),
           NEW q, q = Keep(w, PendingIn(f))
    PROVE  /\ waiters' = w
           /\ q = <<>> => fut' = f
           /\ q # <<>> => /\ Head(q) \in Tasks /\ f[Head(q)] = "pending"
                          /\ fut' = [f EXCEPT ![Head(q)] = "granted"]
                          /\ Keep(w, PendingIn(fut')) = Tail(q)
<1> DEFINE P == PendingIn(f)
<1>1. DOMAIN w = 1..Len(w) /\ Len(w) \in Nat /\ \A i \in 1..Len(w) : w[i] \in Tasks
    BY LenProperties, ElementOfSeq
<1>2. waiters' = w
    BY DEF WakeUpNext
<1>3. q \in Seq(Tasks) /\ Elems(q) = Elems(w) \cap P
    BY KeepType, KeepElems
<1>4. CASE \A i \in DOMAIN w : f[w[i]] # "pending"
    <2>1. fut' = f
        BY <1>4 DEF WakeUpNext, FirstPending
    <2>2. Elems(w) \cap P = {}
        BY <1>1, <1>4 DEF Elems, PendingIn
    <2>3. q = <<>>
        BY <2>2, KeepNone
    <2> QED BY <1>2, <2>1, <2>3
<1>5. CASE ~\A i \in DOMAIN w : f[w[i]] # "pending"
    <2>1. PICK i \in 1..Len(w) : /\ FirstPending(w, f, i)
                                 /\ fut' = [f EXCEPT ![w[i]] = "granted"]
        BY <1>1, <1>5 DEF WakeUpNext, FirstPending
    <2> DEFINE u == w[i]
               l == Before(w, i)
               r == Behind(w, i)
               P2 == PendingIn(fut')
    <2>2. u \in Tasks /\ u \in P /\ \A j \in 1..(i - 1) : w[j] \notin P
        BY <1>1, <2>1 DEF FirstPending, PendingIn
    <2>3. P2 = P \ {u}
        BY <2>1, <2>2 DEF PendingIn
    <2>4. /\ l \in Seq(Tasks) /\ r \in Seq(Tasks)
          /\ \A x \in Elems(l) : \E k \in 1..(i - 1) : x = w[k]
          /\ \A x \in Elems(r) : \E k \in (i + 1)..Len(w) : x = w[k]
        BY SplitAt
    <2>5. /\ u \in P => Keep(w, P) = Keep(l, P) \o (<<u>> \o Keep(r, P))
          /\ u \notin P2 => Keep(w, P2) = Keep(l, P2) \o Keep(r, P2)
        <3> HIDE DEF P, P2
        <3> QED BY KeepSplit
    <2> HIDE DEF l, r, P2, P
    <2>6. Elems(l) \cap P = {} /\ Elems(l) \cap P2 = {}
        BY <2>2, <2>3, <2>4
    <2>7. Keep(l, P) = <<>> /\ Keep(l, P2) = <<>>
        BY <2>4, <2>6, KeepNone
    <2>8. u \notin Elems(r)
        BY <1>1, <2>4 DEF Once
    <2>9. Keep(r, P) = Keep(r, P2)
        <3>1. Elems(r) \cap P = Elems(r) \cap P2
            BY <2>3, <2>8
        <3> QED BY <2>4, <3>1, KeepSame
    <2> DEFINE k == Keep(r, P)
    <2>10. k \in Seq(Tasks)
        BY <2>4, KeepType
    <2>11. q = <<u>> \o k
        <3>1. q = <<>> \o (<<u>> \o k)
            BY <2>2, <2>5, <2>7 DEF P
        <3> HIDE DEF k, u
        <3>2. <<u>> \o k \in Seq(Tasks)
            BY <2>2, <2>10, ConcatProperties
        <3> QED BY <3>1, <3>2, ConcatEmptySeq
    <2>12. Keep(w, P2) = k
        <3>1. Keep(w, P2) = <<>> \o k
            BY <2>3, <2>5, <2>7, <2>9
        <3> HIDE DEF k
        <3> QED BY <2>10, <3>1, ConcatEmptySeq
    <2> HIDE DEF k
    <2>13. q # <<>> /\ Head(q) = u /\ Tail(q) = k
        <3> HIDE DEF u
        <3> QED BY <2>2, <2>10, <2>11
    <2>14. Keep(w, PendingIn(fut')) = Tail(q)
        BY <2>12, <2>13 DEF P2
    <2>15. f[u] = "pending"
        BY <2>1 DEF FirstPending
    <2> QED BY <1>2, <2>1, <2>2, <2>13, <2>14, <2>15
<1> QED BY <1>4, <1>5

\* What the abstract queue is made of.
Running == Holding \cup Granted
Line    == Keep(waiters, Pending)

\* The steps of the abstract queue, in these terms.
LineStep(t) ==
    \/ Line # <<>> /\ Cardinality(Running) < MaxConcurrent
       /\ Running' = Running \cup {Head(Line)} /\ Line' = Tail(Line)
    \/ Line = <<>> /\ Cardinality(Running) < MaxConcurrent
       /\ Running' = Running \cup {t} /\ Line' = Line
    \/ t \notin Running /\ t \notin Elems(Line)
       /\ Cardinality(Running) + Len(Line) < Capacity
       /\ Line' = Append(Line, t) /\ Running' = Running
    \/ t \in Running /\ Line = <<>> /\ Running' = Running \ {t} /\ Line' = Line
    \/ t \in Running /\ Line # <<>>
       /\ Running' = (Running \ {t}) \cup {Head(Line)} /\ Line' = Tail(Line)
    \/ t \in Elems(Line) /\ Line' = Keep(Line, Tasks \ {t}) /\ Running' = Running
    \/ Running' = Running /\ Line' = Line

LEMMA SameKeep == ASSUME NEW s, NEW S PROVE Abstract!Keep(s, S) = Keep(s, S)
BY DEF Abstract!Keep, Keep, Abstract!FlattenSeq, FlattenSeq

LEMMA LineStepAbstract ==
    ASSUME NEW t \in Tasks, Line \in Seq(Tasks), LineStep(t)
    PROVE  [Abstract!Next]_(Abstract!queueVars)
<1>1. DOMAIN Line = 1..Len(Line)
    BY LenProperties
<1>2. Abstract!InLine(t) <=> t \in Elems(Line)
    BY <1>1 DEF Abstract!InLine, Elems, Line
<1>3. Abstract!Present = Cardinality(Running) + Len(Line)
    BY DEF Abstract!Present, Running, Line, Abstract!Cardinality, Cardinality
<1>4. CASE Line # <<>> /\ Cardinality(Running) < MaxConcurrent
           /\ Running' = Running \cup {Head(Line)} /\ Line' = Tail(Line)
    BY <1>4 DEF Abstract!Next, Abstract!Promote, Running, Line, Abstract!Cardinality, Cardinality
<1>5. CASE Line = <<>> /\ Cardinality(Running) < MaxConcurrent
           /\ Running' = Running \cup {t} /\ Line' = Line
    BY <1>5 DEF Abstract!Next, Abstract!Start, Running, Line, Abstract!Cardinality, Cardinality
<1>6. CASE t \notin Running /\ t \notin Elems(Line)
           /\ Cardinality(Running) + Len(Line) < Capacity
           /\ Line' = Append(Line, t) /\ Running' = Running
    <2>1. Abstract!Join(t)
        BY <1>2, <1>3, <1>6 DEF Abstract!Join, Running, Line, Capacity
    <2> QED BY <2>1 DEF Abstract!Next
<1>7. CASE t \in Running /\ Line = <<>> /\ Running' = Running \ {t} /\ Line' = Line
    BY <1>7 DEF Abstract!Next, Abstract!Leave, Running, Line
<1>8. CASE t \in Running /\ Line # <<>>
           /\ Running' = (Running \ {t}) \cup {Head(Line)} /\ Line' = Tail(Line)
    BY <1>8 DEF Abstract!Next, Abstract!Leave, Running, Line
<1>9. CASE t \in Elems(Line) /\ Line' = Keep(Line, Tasks \ {t}) /\ Running' = Running
    <2>1. Line' = Abstract!Keep(Line, Tasks \ {t})
        BY <1>9, SameKeep, Zenon
    <2>2. Abstract!Abandon(t)
        BY <1>2, <1>9, <2>1 DEF Abstract!Abandon, Running, Line
    <2> QED BY <2>2 DEF Abstract!Next
<1>10. CASE Running' = Running /\ Line' = Line
    BY <1>10 DEF Abstract!queueVars, Running, Line
<1> QED BY <1>4, <1>5, <1>6, <1>7, <1>8, <1>9, <1>10 DEF LineStep

LEMMA LineProperties ==
    ASSUME GuardInv
    PROVE  /\ Line \in Seq(Tasks) /\ Elems(Line) = Pending /\ Once(Line)
           /\ Line = <<>> <=> Pending = {}
           /\ Cardinality(Running) = Cardinality(Holding) + Cardinality(Granted)
           /\ Cardinality(Running) = MaxConcurrent - value
           /\ Cardinality(Running) + Len(Line) <= in_flight
<1>1. waiters \in Seq(Tasks) /\ Once(waiters) /\ Pending \subseteq Elems(waiters)
    BY DequeElems DEF GuardInv
<1>2. Line \in Seq(Tasks) /\ Elems(Line) = Elems(waiters) \cap Pending /\ Once(Line)
    BY <1>1, KeepType, KeepElems, KeepOnce DEF Line
<1>3. Elems(Line) = Pending
    BY <1>1, <1>2
<1>4. Line = <<>> <=> Pending = {}
    <2>1. Line = <<>> => Pending = {}
        BY <1>3, ElemsEmpty
    <2>2. Pending = {} => Line = <<>>
        <3>1. Elems(waiters) \cap {} = {}
            OBVIOUS
        <3> QED BY <1>1, <1>2, <1>3, KeepNone DEF Line
    <2> QED BY <2>1, <2>2
<1>5. Len(Line) = Cardinality(Pending)
    BY <1>2, <1>3, OnceLen
<1>6. /\ Holding \in SUBSET Tasks /\ Granted \in SUBSET Tasks /\ Pending \in SUBSET Tasks
      /\ Waiting \in SUBSET Tasks
      /\ Holding \cap Granted = {} /\ Granted \cap Pending = {}
      /\ Granted \cup Pending \subseteq Waiting
    <2>1. \A t \in Tasks : fut[t] # "none" <=> pc[t] = "waiting"
        BY DEF GuardInv, DequeExact
    <2> QED BY <2>1 DEF Holding, Granted, Pending, Waiting
<1>7. /\ IsFiniteSet(Holding) /\ IsFiniteSet(Granted) /\ IsFiniteSet(Pending)
      /\ IsFiniteSet(Waiting) /\ Cardinality(Holding) \in Nat /\ Cardinality(Granted) \in Nat
      /\ Cardinality(Pending) \in Nat /\ Cardinality(Waiting) \in Nat
    BY <1>6, CardTasks
<1>8. Cardinality(Running) = Cardinality(Holding) + Cardinality(Granted)
    <2>1. Cardinality(Holding \cap Granted) = 0
        BY <1>6, FS_EmptySet
    <2>2. Cardinality(Holding \cup Granted) =
            Cardinality(Holding) + Cardinality(Granted) - Cardinality(Holding \cap Granted)
        BY <1>7, FS_Union
    <2> QED BY <1>7, <2>1, <2>2 DEF Running
<1>9. Cardinality(Granted) + Cardinality(Pending) <= Cardinality(Waiting)
    <2>1. Cardinality(Granted \cap Pending) = 0
        BY <1>6, FS_EmptySet
    <2>2. Cardinality(Granted \cup Pending) =
            Cardinality(Granted) + Cardinality(Pending) - Cardinality(Granted \cap Pending)
        BY <1>7, FS_Union
    <2>3. Cardinality(Granted \cup Pending) <= Cardinality(Waiting)
        BY <1>6, <1>7, FS_Subset
    <2> QED BY <1>7, <2>1, <2>2, <2>3
<1>10. /\ value + Cardinality(Holding) + Cardinality(Granted) = MaxConcurrent
       /\ in_flight = Cardinality(Holding) + Cardinality(Waiting)
       /\ value \in Nat /\ MaxConcurrent \in Nat
    BY GuardAssumption DEF GuardInv, BaseType, SlotConservation, InFlightExact
<1>11. Cardinality(Running) = MaxConcurrent - value
    BY <1>7, <1>8, <1>10
<1>12. Cardinality(Running) + Len(Line) <= in_flight
    BY <1>5, <1>7, <1>8, <1>9, <1>10
<1> QED BY <1>2, <1>3, <1>4, <1>8, <1>11, <1>12

\* A wakeup, in terms of the line.
LEMMA WakeStep ==
    ASSUME NEW v \in Nat, NEW w \in Seq(Tasks), NEW f \in [Tasks -> Futures], Once(w),
           PendingIn(f) = Pending, Pending \subseteq Elems(w), Keep(w, Pending) = Line,
           WakeUpNext(v, w, f)
    PROVE  /\ Line = <<>> => Line' = Line /\ Granted' = GrantedIn(f)
           /\ Line # <<>> => /\ Line' = Tail(Line)
                             /\ Granted' = GrantedIn(f) \cup {Head(Line)}
<1>1. Line = Keep(w, PendingIn(f))
    OBVIOUS
<1>2. /\ waiters' = w
      /\ Line = <<>> => fut' = f
      /\ Line # <<>> => /\ Head(Line) \in Tasks /\ f[Head(Line)] = "pending"
                        /\ fut' = [f EXCEPT ![Head(Line)] = "granted"]
                        /\ Keep(w, PendingIn(fut')) = Tail(Line)
    <2>1. PendingIn(f) \subseteq Elems(w)
        OBVIOUS
    <2> QED BY <1>1, <2>1, WakeLine
<1>3. Pending' = PendingIn(fut') /\ Granted' = GrantedIn(fut')
    BY DEF Pending, PendingIn, Granted, GrantedIn
<1>4. Line' = Keep(w, PendingIn(fut'))
    BY <1>2, <1>3, Zenon DEF Line
<1>5. CASE Line = <<>>
    <2>1. fut' = f
        BY <1>2, <1>5
    <2>2. Line' = Line
        BY <1>1, <1>4, <2>1, Zenon
    <2> QED BY <1>3, <1>5, <2>1, <2>2
<1>6. CASE Line # <<>>
    <2>1. GrantedIn(fut') = GrantedIn(f) \cup {Head(Line)}
        BY <1>2, <1>6 DEF GrantedIn
    <2> QED BY <1>2, <1>3, <1>4, <1>6, <2>1
<1> QED BY <1>5, <1>6

LEMMA AcquireNowSteps ==
    ASSUME GuardInv, NEW t \in Tasks, AcquireNow(t)
    PROVE  LineStep(t)
<1>1. /\ pc' = [pc EXCEPT ![t] = "holding"] /\ fut' = fut /\ waiters' = waiters
      /\ value # 0 /\ pc \in [Tasks -> Places]
      /\ \A i \in DOMAIN waiters : fut[waiters[i]] = "cancelled"
    BY DEF AcquireNow, Locked, GuardInv, BaseType
<1>2. Pending = {}
    <2>1. DOMAIN waiters = 1..Len(waiters) /\ Pending \subseteq Elems(waiters)
        BY DequeElems, LenProperties DEF GuardInv
    <2> QED BY <1>1, <2>1 DEF Pending, Elems
<1>3. Line = <<>> /\ Cardinality(Running) < MaxConcurrent
    BY <1>1, <1>2, LineProperties, GuardAssumption DEF GuardInv, BaseType
<1>4. Line' = Line
    BY <1>1 DEF Line, Pending
<1>5. Running' = Running \cup {t}
    BY <1>1 DEF Running, Holding, Granted
<1> QED BY <1>3, <1>4, <1>5 DEF LineStep

LEMMA AcquireWaitSteps ==
    ASSUME GuardInv, NEW t \in Tasks, AcquireWait(t)
    PROVE  LineStep(t)
<1>1. /\ pc[t] \in {"idle", "refused"} /\ pc' = [pc EXCEPT ![t] = "waiting"]
      /\ waiters' = Append(waiters, t) /\ fut' = [fut EXCEPT ![t] = "pending"]
      /\ in_flight < Capacity
      /\ pc \in [Tasks -> Places] /\ fut \in [Tasks -> Futures] /\ waiters \in Seq(Tasks)
    <2>1. ~(in_flight >= Capacity) /\ in_flight \in Nat /\ Capacity \in Nat
        <3>1. Cardinality(Holding) \in Nat /\ Cardinality(Waiting) \in Nat
            BY CardTasks DEF Holding, Waiting
        <3> QED BY <3>1, GuardAssumption DEF AcquireWait, IsFull, Capacity, GuardInv, InFlightExact
    <2> QED BY <2>1 DEF AcquireWait, Outside, GuardInv, BaseType
<1>2. fut[t] = "none"
    BY <1>1 DEF GuardInv, DequeExact
<1>3. t \notin Running /\ t \notin Pending
    BY <1>1, <1>2 DEF Running, Holding, Granted, Pending
<1>4. Pending' = Pending \cup {t} /\ Running' = Running
    BY <1>1, <1>2 DEF Pending, Running, Holding, Granted
<1>5. t \notin Elems(waiters)
    <2>1. \A i \in 1..Len(waiters) : pc[waiters[i]] = "waiting"
        BY DEF GuardInv, DequeExact
    <2> QED BY <1>1, <2>1 DEF Elems
<1>6. Keep(waiters, Pending') = Line
    <2>1. Elems(waiters) \cap Pending' = Elems(waiters) \cap Pending
        BY <1>4, <1>5
    <2> HIDE DEF Pending
    <2>2. \A P : Elems(waiters) \cap P = Elems(waiters) \cap Pending => Keep(waiters, P) = Keep(waiters, Pending)
        BY <1>1, KeepSame
    <2> QED BY <2>1, <2>2 DEF Line
<1>7. Line' = Append(Line, t)
    <2>1. \A P : t \in P => Keep(Append(waiters, t), P) = Append(Keep(waiters, P), t)
        BY <1>1, KeepAppend
    <2>2. Line' = Keep(Append(waiters, t), Pending')
        BY <1>1, Zenon DEF Line
    <2>3. Line' = Append(Keep(waiters, Pending'), t)
        BY <1>4, <2>1, <2>2
    <2> QED BY <1>6, <2>3
<1>8. Cardinality(Running) + Len(Line) < Capacity /\ Elems(Line) = Pending
    <2>1. /\ Cardinality(Running) + Len(Line) <= in_flight /\ Elems(Line) = Pending
          /\ Line \in Seq(Tasks)
        BY LineProperties
    <2>2. Running \in SUBSET Tasks
        BY DEF Running, Holding, Granted
    <2>3. Cardinality(Running) \in Nat /\ Len(Line) \in Nat /\ in_flight \in Nat /\ Capacity \in Nat
        <3>1. Cardinality(Holding) \in Nat /\ Cardinality(Waiting) \in Nat
            BY CardTasks DEF Holding, Waiting
        <3> QED BY <2>1, <2>2, <3>1, CardTasks, LenProperties, GuardAssumption
                DEF Capacity, GuardInv, InFlightExact
    <2> QED BY <1>1, <2>1, <2>3
<1> QED BY <1>3, <1>4, <1>7, <1>8 DEF LineStep

LEMMA ResumeSteps ==
    ASSUME GuardInv, NEW t \in Tasks, Resume(t)
    PROVE  LineStep(t)
<1> DEFINE rest == Rest(t)
           left == Forgotten(t)
<1>1. /\ pc[t] = "waiting" /\ fut[t] = "granted" /\ pc' = [pc EXCEPT ![t] = "holding"]
      /\ pc \in [Tasks -> Places] /\ fut \in [Tasks -> Futures] /\ value \in Nat
    BY DEF Resume, GuardInv, BaseType
<1>2. IF value > 0 THEN WakeUpNext(value, rest, left)
                   ELSE waiters' = rest /\ fut' = left /\ value' = value
    BY DEF Resume
<1>3. /\ left \in [Tasks -> Futures] /\ rest \in Seq(Tasks)
      /\ \A u \in Tasks : left[u] = "pending" => \E i \in 1..Len(rest) : rest[i] = u
      /\ GrantedIn(left) = Granted \ {t}
    BY <1>1, ForgottenProperties
<1>4. PendingIn(left) = Pending
    BY <1>1 DEF PendingIn, Pending, Forgotten
<1>5. t \notin Pending
    BY <1>1 DEF Pending
<1>6. Once(rest)
    BY <1>1, RestProperties DEF Once, GuardInv
<1>7. Keep(rest, Pending) = Line
    BY <1>1, <1>5, RestKeeps DEF Line, GuardInv
<1> HIDE DEF rest, left
<1>8. Pending \subseteq Elems(rest)
    BY <1>3, <1>4 DEF PendingIn, Elems
<1>9. Holding' = Holding \cup {t}
    BY <1>1 DEF Holding
<1>10. t \in Granted
    BY <1>1 DEF Granted
<1>11. CASE value > 0
    <2>1. WakeUpNext(value, rest, left)
        BY <1>2, <1>11
    <2>2. /\ Line = <<>> => Line' = Line /\ Granted' = GrantedIn(left)
          /\ Line # <<>> => /\ Line' = Tail(Line)
                            /\ Granted' = GrantedIn(left) \cup {Head(Line)}
        BY <1>1, <1>3, <1>4, <1>6, <1>7, <1>8, <2>1, WakeStep
    <2>3. Cardinality(Running) < MaxConcurrent
        BY <1>1, <1>11, LineProperties, GuardAssumption
    <2>4. CASE Line = <<>>
        <3>1. Running' = Running
            BY <1>3, <1>9, <1>10, <2>2, <2>4 DEF Running
        <3> QED BY <2>2, <2>4, <3>1 DEF LineStep
    <2>5. CASE Line # <<>>
        <3>1. Running' = Running \cup {Head(Line)}
            BY <1>3, <1>9, <1>10, <2>2, <2>5 DEF Running
        <3> QED BY <2>2, <2>3, <2>5, <3>1 DEF LineStep
    <2> QED BY <2>4, <2>5
<1>12. CASE ~(value > 0)
    <2>1. waiters' = rest /\ fut' = left
        BY <1>2, <1>12
    <2>2. Pending' = Pending /\ Granted' = Granted \ {t}
        BY <1>3, <1>4, <2>1 DEF Pending, PendingIn, Granted, GrantedIn
    <2>3. Line' = Line
        BY <1>7, <2>1, <2>2, Zenon DEF Line
    <2>4. Running' = Running
        BY <1>9, <1>10, <2>2 DEF Running
    <2> QED BY <2>3, <2>4 DEF LineStep
<1> QED BY <1>11, <1>12

LEMMA CancelSteps ==
    ASSUME GuardInv, NEW t \in Tasks, Cancel(t)
    PROVE  LineStep(t)
<1>1. /\ fut \in [Tasks -> Futures] /\ fut[t] \in {"pending", "granted"}
      /\ fut' = [fut EXCEPT ![t] = IF @ = "pending" THEN "cancelled" ELSE "doomed"]
      /\ pc' = pc /\ waiters' = waiters
    BY DEF Cancel, GuardInv, BaseType
<1>2. Running' = Running
    BY <1>1 DEF Running, Holding, Granted
<1>3. Pending' = Pending \ {t}
    BY <1>1 DEF Pending
<1>4. Line' = Keep(waiters, Pending')
    BY <1>1, Zenon DEF Line
<1>5. CASE t \in Pending
    <2>1. Pending' = Pending \cap (Tasks \ {t})
        BY <1>3 DEF Pending
    <2>2. waiters \in Seq(Tasks)
        BY DEF GuardInv, BaseType
    <2>3. Line' = Keep(Line, Tasks \ {t})
        <3> DEFINE R == Tasks \ {t}
                   Q == Pending'
        <3>1. Q = Pending \cap R
            BY <2>1
        <3> HIDE DEF Q, R
        <3>2. Keep(Keep(waiters, Pending), R) = Keep(waiters, Q)
            BY <2>2, <3>1, KeepKeep
        <3> QED BY <1>4, <3>2, Zenon DEF Line, Q, R
    <2>4. t \in Elems(Line)
        BY <1>5, LineProperties
    <2> QED BY <1>2, <2>3, <2>4 DEF LineStep
<1>6. CASE t \notin Pending
    <2>1. Pending' = Pending
        BY <1>3, <1>6
    <2>2. Line' = Line
        BY <1>4, <2>1, Zenon DEF Line
    <2> QED BY <1>2, <2>2 DEF LineStep
<1> QED BY <1>5, <1>6

\* A slot given up by t, in terms of the line: the head of the line gets it.
LEMMA LeaveSteps ==
    ASSUME NEW t \in Tasks, t \in Running, NEW G,
           Running \ {t} = Holding' \cup G,
           Line = <<>> => Line' = Line /\ Granted' = G,
           Line # <<>> => Line' = Tail(Line) /\ Granted' = G \cup {Head(Line)}
    PROVE  LineStep(t)
<1>1. CASE Line = <<>>
    <2>1. Running' = Running \ {t}
        BY <1>1 DEF Running
    <2> QED BY <1>1, <2>1 DEF LineStep
<1>2. CASE Line # <<>>
    <2>1. Running' = (Running \ {t}) \cup {Head(Line)}
        BY <1>2 DEF Running
    <2> QED BY <1>2, <2>1 DEF LineStep
<1> QED BY <1>1, <1>2

LEMMA ResumeCancelledSteps ==
    ASSUME GuardInv, NEW t \in Tasks, ResumeCancelled(t)
    PROVE  LineStep(t)
<1> DEFINE rest == Rest(t)
           left == Forgotten(t)
<1>1. /\ pc[t] = "waiting" /\ fut[t] \in {"cancelled", "doomed"} /\ pc' = [pc EXCEPT ![t] = "idle"]
      /\ pc \in [Tasks -> Places] /\ fut \in [Tasks -> Futures] /\ value \in Nat
    BY DEF ResumeCancelled, GuardInv, BaseType
<1>2. IF fut[t] = "doomed" THEN WakeUpNext(value + 1, rest, left)
                           ELSE waiters' = rest /\ fut' = left /\ value' = value
    BY DEF ResumeCancelled
<1>3. /\ left \in [Tasks -> Futures] /\ rest \in Seq(Tasks)
      /\ \A u \in Tasks : left[u] = "pending" => \E i \in 1..Len(rest) : rest[i] = u
      /\ GrantedIn(left) = Granted \ {t}
    BY <1>1, ForgottenProperties
<1>4. PendingIn(left) = Pending
    BY <1>1 DEF PendingIn, Pending, Forgotten
<1>5. t \notin Pending
    BY <1>1 DEF Pending
<1>6. Once(rest)
    BY <1>1, RestProperties DEF Once, GuardInv
<1>7. Keep(rest, Pending) = Line
    BY <1>1, <1>5, RestKeeps DEF Line, GuardInv
<1> HIDE DEF rest, left
<1>8. Pending \subseteq Elems(rest)
    BY <1>3, <1>4 DEF PendingIn, Elems
<1>9. Holding' = Holding /\ t \notin Holding
    BY <1>1 DEF Holding
<1>10. CASE fut[t] = "doomed"
    <2>1. WakeUpNext(value + 1, rest, left) /\ value + 1 \in Nat
        BY <1>1, <1>2, <1>10
    <2>2. /\ Line = <<>> => Line' = Line /\ Granted' = GrantedIn(left)
          /\ Line # <<>> => Line' = Tail(Line) /\ Granted' = GrantedIn(left) \cup {Head(Line)}
        BY <1>3, <1>4, <1>6, <1>7, <1>8, <2>1, WakeStep
    <2>3. t \in Running /\ Running \ {t} = Holding' \cup GrantedIn(left)
        BY <1>3, <1>9, <1>10 DEF Running, Granted
    <2> QED BY <2>2, <2>3, LeaveSteps
<1>11. CASE fut[t] # "doomed"
    <2>1. waiters' = rest /\ fut' = left
        BY <1>2, <1>11
    <2>2. Pending' = Pending /\ Granted' = Granted
        BY <1>1, <1>3, <1>4, <1>11, <2>1 DEF Pending, PendingIn, Granted, GrantedIn
    <2>3. Line' = Line
        BY <1>7, <2>1, <2>2, Zenon DEF Line
    <2>4. Running' = Running
        BY <1>9, <2>2 DEF Running
    <2> QED BY <2>3, <2>4 DEF LineStep
<1> QED BY <1>10, <1>11

LEMMA ReleaseSteps ==
    ASSUME GuardInv, NEW t \in Tasks, Release(t)
    PROVE  LineStep(t)
<1>1. /\ pc[t] = "holding" /\ pc' = [pc EXCEPT ![t] = "idle"]
      /\ WakeUpNext(value + 1, waiters, fut)
      /\ value + 1 \in Nat /\ pc \in [Tasks -> Places] /\ fut \in [Tasks -> Futures]
    BY DEF Release, GuardInv, BaseType
<1>2. waiters \in Seq(Tasks) /\ Once(waiters) /\ Pending \subseteq Elems(waiters)
    BY DequeElems DEF GuardInv
<1>3. PendingIn(fut) = Pending /\ GrantedIn(fut) = Granted /\ Keep(waiters, Pending) = Line
    BY DEF PendingIn, Pending, GrantedIn, Granted, Line
<1>4. /\ Line = <<>> => Line' = Line /\ Granted' = Granted
      /\ Line # <<>> => Line' = Tail(Line) /\ Granted' = Granted \cup {Head(Line)}
    BY <1>1, <1>2, <1>3, WakeStep
<1>5. Holding' = Holding \ {t} /\ t \in Holding /\ t \notin Granted
    BY <1>1 DEF Holding, Granted, GuardInv, DequeExact
<1>6. t \in Running /\ Running \ {t} = Holding' \cup Granted
    BY <1>5 DEF Running
<1> QED BY <1>4, <1>6, LeaveSteps

\* Of all that goes on in the semaphore, with waiters cancelled before and after they were
\* handed a slot, the tasks see a first-come first-served queue for MaxConcurrent slots in
\* which a slot given up goes to the head of the line at once.
THEOREM GuardIsSlotQueue == Spec => ImplementsSlotQueue
<1>1. Init => Abstract!Init
    <2> SUFFICES ASSUME Init PROVE Abstract!Init
        OBVIOUS
    <2>1. Holding \cup Granted = {}
        BY DEF Init, Holding, Granted
    <2>2. Keep(waiters, Pending) = <<>>
        BY KeepEmpty DEF Init
    <2> QED BY <2>1, <2>2 DEF Abstract!Init
<1>2. GuardInv /\ [Next]_guardVars => [Abstract!Next]_(Abstract!queueVars)
    <2> SUFFICES ASSUME GuardInv, [Next]_guardVars
                 PROVE  [Abstract!Next]_(Abstract!queueVars)
        OBVIOUS
    <2>1. CASE UNCHANGED guardVars
        BY <2>1 DEF guardVars, Abstract!queueVars, Holding, Granted, Pending
    <2>2. ASSUME NEW t \in Tasks, AcquireRefused(t) PROVE LineStep(t)
        <3>1. /\ pc[t] # "holding" /\ pc' = [pc EXCEPT ![t] = "refused"]
              /\ waiters' = waiters /\ fut' = fut /\ pc \in [Tasks -> Places]
            BY <2>2 DEF AcquireRefused, Outside, semVars, GuardInv, BaseType
        <3>2. Running' = Running /\ Line' = Line
            BY <3>1 DEF Running, Line, Holding, Granted, Pending
        <3> QED BY <3>2 DEF LineStep
    <2>3. ASSUME Next PROVE \E t \in Tasks : LineStep(t)
        BY <2>2, <2>3, AcquireNowSteps, AcquireWaitSteps, ResumeSteps, CancelSteps,
           ResumeCancelledSteps, ReleaseSteps DEF Next
    <2>4. Line \in Seq(Tasks)
        BY LineProperties
    <2> QED BY <2>1, <2>3, <2>4, LineStepAbstract
<1> QED BY <1>1, <1>2, GuardInvariant, PTL DEF Spec, ImplementsSlotQueue, Abstract!Spec
================================================================================
