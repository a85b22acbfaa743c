------------------------------- MODULE SlotQueue -------------------------------
(***************************************************************************)
(* What app/services/concurrency promises: MaxConcurrent slots and a line  *)
(* for them, served in the order of arrival, that holds MaxQueue tasks     *)
(* when all slots are taken.  A slot that is given up goes to the head of  *)
(* the line in the same step.                                              *)
(***************************************************************************)
EXTENDS Integers, FiniteSets, SequenceFilter

CONSTANTS Tasks, MaxConcurrent, MaxQueue

VARIABLES
    running,        \* the tasks that have a slot
    queue           \* the tasks in line

queueVars == <<running, queue>>

InLine(t) == \E i \in DOMAIN queue : queue[i] = t
Present   == Cardinality(running) + Len(queue)

Init ==
    /\ running = {}
    /\ queue = <<>>

\* A slot is free and nobody is in line.
Start(t) ==
    /\ queue = <<>>
    /\ Cardinality(running) < MaxConcurrent
    /\ running' = running \cup {t}
    /\ UNCHANGED queue

Join(t) ==
    /\ t \notin running /\ ~InLine(t)
    /\ Present < MaxConcurrent + MaxQueue
    /\ queue' = Append(queue, t)
    /\ UNCHANGED running

\* The head of the line takes a free slot.
Promote ==
    /\ queue # <<>>
    /\ Cardinality(running) < MaxConcurrent
    /\ running' = running \cup {Head(queue)}
    /\ queue' = Tail(queue)

Leave(t) ==
    /\ t \in running
    /\ IF queue = <<>>
       THEN running' = running \ {t} /\ UNCHANGED queue
       ELSE running' = (running \ {t}) \cup {Head(queue)} /\ queue' = Tail(queue)

\* A task in line is cancelled.
Abandon(t) ==
    /\ InLine(t)
    /\ queue' = Keep(queue, Tasks \ {t})
    /\ UNCHANGED running

Next ==
    \/ Promote
    \/ \E t \in Tasks : Start(t) \/ Join(t) \/ Leave(t) \/ Abandon(t)

Spec == Init /\ [][Next]_queueVars
================================================================================
