---------------------------- MODULE ConcurrencyGuard ----------------------------
(***************************************************************************)
(* app/services/concurrency: at most max_concurrent executions, a bounded  *)
(* wait queue, and a counter that rejects what does not fit.               *)
(*                                                                         *)
(* The guard is a counter around asyncio.Semaphore, so both are modelled.  *)
(* The semaphore (CPython's, external to the repository) hands a slot to   *)
(* the first live waiter by resolving its future; the waiter only resumes  *)
(* on a later turn of the loop, and in between other tasks acquire,        *)
(* release and are cancelled.  A step is what one task does between two    *)
(* awaits.                                                                 *)
(***************************************************************************)
EXTENDS Integers, FiniteSets, SequenceFilter

CONSTANTS
    Tasks,          \* the tasks that may call acquire; a task may call it again
    MaxConcurrent,  \* max_concurrent, after max(1, int(...))
    MaxQueue        \* max_queue, after max(0, int(...))

ASSUME GuardAssumption ==
    /\ IsFiniteSet(Tasks)
    /\ MaxConcurrent \in Nat \ {0}
    /\ MaxQueue \in Nat

VARIABLES
    pc,             \* where a task is with respect to the guard
    in_flight,      \* _in_flight
    value,          \* _sem._value
    waiters,        \* _sem._waiters: the tasks whose futures are in the deque
    fut             \* the future a waiting task awaits

guardVars == <<pc, in_flight, value, waiters, fut>>
semVars   == <<value, waiters, fut>>

Waiting == {t \in Tasks : pc[t] = "waiting"}
Holding == {t \in Tasks : pc[t] = "holding"}

--------------------------------------------------------------------------------
(* asyncio.Semaphore *)

\* locked(): no slot is free, or somebody is in line for one.
Locked == value = 0 \/ \E i \in DOMAIN waiters : fut[waiters[i]] # "cancelled"

\* Mutant of WakeUpNext: the last future in line is woken.
WakeUpLast(v, w, f) ==
    /\ waiters' = w
    /\ \/ /\ \A i \in DOMAIN w : f[w[i]] # "pending"
          /\ value' = v
          /\ fut' = f
       \/ \E i \in DOMAIN w :
             /\ f[w[i]] = "pending"
             /\ \A j \in (i + 1)..Len(w) : f[w[j]] # "pending"
             /\ value' = v - 1
             /\ fut' = [f EXCEPT ![w[i]] = "granted"]

\* _wake_up_next() on a semaphore with v free slots, the deque w and the futures f: the
\* first future that is not done takes a slot.
FirstPending(w, f, i) ==
    /\ f[w[i]] = "pending"
    /\ \A j \in 1..(i - 1) : f[w[j]] # "pending"

WakeUpNext(v, w, f) ==
    /\ waiters' = w
    /\ \/ /\ \A i \in DOMAIN w : f[w[i]] # "pending"
          /\ value' = v
          /\ fut' = f
       \/ \E i \in DOMAIN w :
             /\ FirstPending(w, f, i)
             /\ value' = v - 1
             /\ fut' = [f EXCEPT ![w[i]] = "granted"]

\* The finally clause of acquire: the task's future leaves the deque.
Position(t) == CHOOSE i \in DOMAIN waiters : waiters[i] = t
Rest(t) == RemoveAt(waiters, Position(t))
Forgotten(t) == [fut EXCEPT ![t] = "none"]

--------------------------------------------------------------------------------
Init ==
    /\ pc = [t \in Tasks |-> "idle"]
    /\ in_flight = 0
    /\ value = MaxConcurrent
    /\ waiters = <<>>
    /\ fut = [t \in Tasks |-> "none"]

Capacity == MaxConcurrent + MaxQueue

\* is_full(), and the check in acquire.
IsFull == in_flight >= Capacity

Outside(t) == pc[t] \in {"idle", "refused"}

\* acquire() returns False at once.
AcquireRefused(t) ==
    /\ Outside(t)
    /\ IsFull
    /\ pc' = [pc EXCEPT ![t] = "refused"]
    /\ UNCHANGED <<in_flight, semVars>>

\* acquire() takes a free slot without suspending.
AcquireNow(t) ==
    /\ Outside(t)
    /\ ~IsFull
    /\ ~Locked
    /\ in_flight' = in_flight + 1
    /\ value' = value - 1
    /\ pc' = [pc EXCEPT ![t] = "holding"]
    /\ UNCHANGED <<waiters, fut>>

\* acquire() joins the line and suspends.
AcquireWait(t) ==
    /\ Outside(t)
    /\ ~IsFull
    /\ Locked
    /\ in_flight' = in_flight + 1
    /\ waiters' = Append(waiters, t)
    /\ fut' = [fut EXCEPT ![t] = "pending"]
    /\ pc' = [pc EXCEPT ![t] = "waiting"]
    /\ UNCHANGED value

\* Mutant of Resume: the resumed waiter does not look for further free slots.
ResumeAlone(t) ==
    /\ pc[t] = "waiting"
    /\ fut[t] = "granted"
    /\ pc' = [pc EXCEPT ![t] = "holding"]
    /\ waiters' = Rest(t)
    /\ fut' = Forgotten(t)
    /\ UNCHANGED <<value, in_flight>>

\* A waiter whose future was resolved returns from the semaphore and, if slots are
\* still free, wakes the next one.
Resume(t) ==
    /\ pc[t] = "waiting"
    /\ fut[t] = "granted"
    /\ pc' = [pc EXCEPT ![t] = "holding"]
    /\ IF value > 0
       THEN WakeUpNext(value, Rest(t), Forgotten(t))
       ELSE waiters' = Rest(t) /\ fut' = Forgotten(t) /\ UNCHANGED value
    /\ UNCHANGED in_flight

\* task.cancel() while it waits: a pending future is cancelled; a resolved one stays
\* resolved and the CancelledError is raised when the task runs.
Cancel(t) ==
    /\ pc[t] = "waiting"
    /\ fut[t] \in {"pending", "granted"}
    /\ fut' = [fut EXCEPT ![t] = IF @ = "pending" THEN "cancelled" ELSE "doomed"]
    /\ UNCHANGED <<pc, in_flight, value, waiters>>

\* Mutants of ResumeCancelled: no `except BaseException`; `except BaseException` calls
\* release(), of a slot that was never held.
ResumeCancelledUncounted(t) ==
    /\ pc[t] = "waiting"
    /\ fut[t] \in {"cancelled", "doomed"}
    /\ pc' = [pc EXCEPT ![t] = "idle"]
    /\ IF fut[t] = "doomed"
       THEN WakeUpNext(value + 1, Rest(t), Forgotten(t))
       ELSE waiters' = Rest(t) /\ fut' = Forgotten(t) /\ UNCHANGED value
    /\ UNCHANGED in_flight

ResumeCancelledReleases(t) ==
    /\ pc[t] = "waiting"
    /\ fut[t] \in {"cancelled", "doomed"}
    /\ pc' = [pc EXCEPT ![t] = "idle"]
    /\ WakeUpNext(value + 1, Rest(t), Forgotten(t))
    /\ in_flight' = in_flight - 1

\* The CancelledError passes through the semaphore, which gives back a slot it had
\* handed over, and through acquire's `except BaseException`.
ResumeCancelled(t) ==
    /\ pc[t] = "waiting"
    /\ fut[t] \in {"cancelled", "doomed"}
    /\ pc' = [pc EXCEPT ![t] = "idle"]
    /\ IF fut[t] = "doomed"
       THEN WakeUpNext(value + 1, Rest(t), Forgotten(t))
       ELSE waiters' = Rest(t) /\ fut' = Forgotten(t) /\ UNCHANGED value
    /\ in_flight' = in_flight - 1

\* Mutants of Release: the slot is freed but nobody is woken; the counter is forgotten.
ReleaseSilently(t) ==
    /\ pc[t] = "holding"
    /\ pc' = [pc EXCEPT ![t] = "idle"]
    /\ value' = value + 1
    /\ in_flight' = IF in_flight - 1 < 0 THEN 0 ELSE in_flight - 1
    /\ UNCHANGED <<waiters, fut>>

ReleaseUncounted(t) ==
    /\ pc[t] = "holding"
    /\ pc' = [pc EXCEPT ![t] = "idle"]
    /\ WakeUpNext(value + 1, waiters, fut)
    /\ UNCHANGED in_flight

\* release(): the semaphore first, then the counter, never below zero.
Release(t) ==
    /\ pc[t] = "holding"
    /\ pc' = [pc EXCEPT ![t] = "idle"]
    /\ WakeUpNext(value + 1, waiters, fut)
    /\ in_flight' = IF in_flight - 1 < 0 THEN 0 ELSE in_flight - 1

Next ==
    \E t \in Tasks :
        \/ AcquireRefused(t)
        \/ AcquireNow(t)
        \/ AcquireWait(t)
        \/ Resume(t)
        \/ Cancel(t)
        \/ ResumeCancelled(t)
        \/ Release(t)

Spec == Init /\ [][Next]_guardVars

\* The event loop runs every task that is ready, and every holder releases: an
\* execution is bounded by the executor's timeout and `finally` releases the slot.
Fairness ==
    \A t \in Tasks :
        /\ WF_guardVars(Resume(t) \/ ResumeCancelled(t))
        /\ WF_guardVars(Release(t))

FairSpec == Spec /\ Fairness

--------------------------------------------------------------------------------
\* Type invariant: a future exists exactly while its task waits, and the deque lists
\* the waiting tasks, each once.
Places  == {"idle", "refused", "waiting", "holding"}
Futures == {"none", "pending", "granted", "cancelled", "doomed"}

TypeOK ==
    /\ pc \in [Tasks -> Places]
    /\ in_flight \in Nat
    /\ value \in 0..MaxConcurrent
    /\ waiters \in Seq(Tasks)
    /\ fut \in [Tasks -> Futures]

\* Slots that were handed to a waiter that has not run yet.
Granted == {t \in Tasks : fut[t] \in {"granted", "doomed"}}
Pending == {t \in Tasks : fut[t] = "pending"}

\* No slot is lost or made up, by any order of acquires, releases and cancellations:
\* "exactly one execution at a time", and never fewer than the service can run.
SlotConservation ==
    value + Cardinality(Holding) + Cardinality(Granted) = MaxConcurrent

\* The counter is what its comment says, "running + waiting", at every await: a waiter
\* cancelled in the queue is counted until it runs and not longer.
InFlightExact == in_flight = Cardinality(Holding) + Cardinality(Waiting)

\* No lost wakeup: a free slot and a waiter are there together only while another
\* waiter that was handed a slot is about to run and wake the next.
NoLostWakeup == value > 0 /\ Pending # {} => Granted # {}

\* A caller is told that the queue is full only when it is: no slot and no place in the
\* queue is left unused.
RefusedOnlyWhenFull ==
    [][\A t \in Tasks :
          pc[t] # "refused" /\ pc'[t] = "refused"
              => Cardinality(Holding) + Cardinality(Waiting) = Capacity]_guardVars

\* Whoever is in line gets a slot, unless it is cancelled there.
WaiterServed ==
    \A t \in Tasks :
        fut[t] = "pending" ~> (pc[t] = "holding" \/ fut[t] \in {"cancelled", "doomed"})

\* The guard implements a bounded first-come first-served queue for MaxConcurrent slots.
Abstract == INSTANCE SlotQueue WITH
    running <- Holding \cup Granted,
    queue   <- Keep(waiters, Pending)

ImplementsSlotQueue == Abstract!Spec
================================================================================
