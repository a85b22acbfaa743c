---------------------------- MODULE ExecutorProofs ----------------------------
(***************************************************************************)
(* Theorems about one execution, for every timeout, cap and read size, and *)
(* whatever the child and its helper do.                                   *)
(***************************************************************************)
EXTENDS SubprocessExecutor, TLAPS

--------------------------------------------------------------------------------
(* Types and processes *)

Causes      == {"ok", "error", "memory_error", "cpu_limit", "crash", "sigxcpu",
                "other_signal", "our_kill"}
ReturnCodes == {"0", "positive", "SIGKILL", "SIGSEGV", "SIGXCPU", "SIGTERM"}

LEMMA CodesOfCauses ==
    /\ DOMAIN Codes = Causes
    /\ \A c \in Causes : Codes[c] \in ReturnCodes
    /\ {Codes[c] : c \in DOMAIN Codes} \subseteq ReturnCodes
BY DEF Codes, Causes, ReturnCodes

Types ==
    /\ now \in Nat /\ deadline \in Nat
    /\ phase \in Phases
    /\ leader \in {"none", "alive", "dead"}
    /\ cause \in {"none"} \cup Causes
    /\ helper \in {"none", "grouped", "detached", "dead"}
    /\ holders \subseteq Processes /\ signalled \subseteq Processes
    /\ named \in Nat /\ image \in {"none", "fifo", "read"}
    /\ written \in [Streams -> Nat]
    /\ consumed \in [Streams -> Nat]
    /\ buffer \in [Streams -> 0..MaxOutput]
    /\ truncated \in BOOLEAN /\ timed_out \in BOOLEAN /\ killed_by_us \in BOOLEAN
    /\ status \in {"none"} \cup Statuses

\* What the flags and the returncode say of the leader.
LeaderInv ==
    /\ phase = "start" => leader = "none"
    /\ leader = "dead" <=> cause # "none"
    /\ returncode = "none" \/ (cause # "none" /\ returncode = Codes[cause])
    /\ cause = "our_kill" => signalled # {}
    /\ signalled # {} => killed_by_us

\* Once both streams have ended nobody holds a pipe: nothing can be written any more.  The
\* word that _classify looks for lies in what was written.
OutputInv ==
    /\ \A s \in Streams : buffer[s] = Smaller(consumed[s], MaxOutput)
    /\ truncated <=> \E s \in Streams : consumed[s] > MaxOutput
    /\ \/ phase = "exitwait"
       \/ phase \in {"killwait", "collect", "reading"} /\ ~timed_out
       \/ status \in {"success", "error", "memory"}
       => holders = {} /\ consumed = written
    /\ named <= written["stderr"]

\* The deadlines of the waits add up.
TimeInv ==
    /\ phase = "start" => now = 0
    /\ phase \in {"draining", "exitwait", "killwait", "harness"} => now <= deadline
    /\ phase = "draining" => deadline = Timeout
    /\ phase = "exitwait" => deadline <= Timeout + ExitWait
    /\ phase = "killwait" => deadline <= Timeout + ExitWait + KillWait
    /\ phase = "harness" => deadline <= Timeout + ExitWait + 2 * KillWait
    /\ image # "read" =>
          /\ phase = "collect" => now <= Timeout + ExitWait + KillWait
          /\ phase \in {"done", "raised", "cancelled"} => now <= Timeout + ExitWait + 2 * KillWait
          /\ status \notin {"none", "internal"} => now <= Timeout + ExitWait + KillWait

\* A verdict about the program rests on a returncode, which fixes the cause, and on the
\* part of stderr that is kept.
VerdictInv ==
    /\ phase # "done" => status = "none"
    /\ status = "success" => returncode = "0"
    /\ status = "error" =>
          returncode = "SIGTERM" \/ (returncode = "positive" /\ named \notin 1..MaxOutput)
    /\ status = "memory" =>
          \/ returncode \in {"SIGKILL", "SIGSEGV"} /\ cause # "our_kill"
          \/ returncode = "positive" /\ named \in 1..MaxOutput

ExecutorInv == Types /\ LeaderInv /\ OutputInv /\ TimeInv /\ VerdictInv /\ GroupKilled

LEMMA ExecutorInit == Init => ExecutorInv
<1> USE ExecutorAssumption DEF Init, Types, LeaderInv, OutputInv, TimeInv, VerdictInv, Phases,
            Processes, Statuses, Smaller, Causes, ExitWait, KillWait
<1>0. Init => GroupKilled
    BY DEF GroupKilled
<1>1. Init => Types
    <2> SUFFICES ASSUME Init PROVE Types
        OBVIOUS
    <2>1. 0 \in 0..MaxOutput
        OBVIOUS
    <2>2. written \in [Streams -> Nat] /\ consumed \in [Streams -> Nat]
        OBVIOUS
    <2>3. buffer \in [Streams -> 0..MaxOutput]
        BY <2>1
    <2>4. truncated \in BOOLEAN /\ timed_out \in BOOLEAN /\ killed_by_us \in BOOLEAN
        OBVIOUS
    <2>5. /\ now \in Nat /\ deadline \in Nat
          /\ phase \in Phases
          /\ leader \in {"none", "alive", "dead"}
          /\ cause \in {"none"} \cup Causes
          /\ helper \in {"none", "grouped", "detached", "dead"}
          /\ holders \subseteq Processes /\ signalled \subseteq Processes
          /\ named \in Nat /\ image \in {"none", "fifo", "read"}
          /\ status \in {"none"} \cup Statuses
        OBVIOUS
    <2> HIDE DEF Init
    <2> QED BY <2>2, <2>3, <2>4, <2>5
<1>2. Init => LeaderInv
    OBVIOUS
<1>3. Init => OutputInv
    BY DEF Streams
<1>4. Init => TimeInv /\ VerdictInv
    OBVIOUS
<1> QED BY <1>0, <1>1, <1>2, <1>3, <1>4 DEF ExecutorInv

--------------------------------------------------------------------------------
(* Steps *)

\* A step of the child or of its helper.
LEMMA ChildStepInv == ExecutorInv /\ ChildStep => ExecutorInv'
<1> SUFFICES ASSUME ExecutorInv, ChildStep PROVE ExecutorInv'
    OBVIOUS
<1> USE ExecutorAssumption DEF ExecutorInv, Types, LeaderInv, OutputInv, TimeInv, VerdictInv,
            Phases, Processes, Statuses, Causes, ExitWait, KillWait, drainVars, flagVars, Suspended, Blocked
<1>0. UNCHANGED <<now, phase, deadline, returncode, drainVars, flagVars, status>> /\ phase # "start"
    BY DEF ChildStep, Ended
<1>1. ASSUME NEW why \in Causes, LeaderEnds(why), why = "our_kill" => signalled # {}
      PROVE  ExecutorInv'
    <2>1. returncode = "none" /\ leader = "alive" /\ cause = "none"
        BY <1>1 DEF LeaderEnds
    <2>2. Types' /\ LeaderInv'
        BY <1>1, <1>0, <2>1 DEF LeaderEnds
    <2>3. OutputInv'
        BY <1>1, <1>0 DEF LeaderEnds
    <2>4. TimeInv' /\ VerdictInv'
        BY <1>0, <1>1, <2>1 DEF LeaderEnds
    <2>5. GroupKilled'
        BY <1>1, <1>0 DEF LeaderEnds, GroupKilled
    <2> QED BY <2>2, <2>3, <2>4, <2>5
<1>2. CASE StartHelper
    <2>1. Types' /\ LeaderInv'
        BY <1>2, <1>0 DEF StartHelper
    <2>2. OutputInv'
        BY <1>2, <1>0 DEF StartHelper
    <2>3. TimeInv' /\ VerdictInv'
        BY <1>2, <1>0 DEF StartHelper
    <2>4. GroupKilled'
        BY <1>2, <1>0 DEF StartHelper, GroupKilled
    <2> QED BY <2>1, <2>2, <2>3, <2>4
<1>3. CASE HelperEnds
    <2>1. Types' /\ LeaderInv'
        BY <1>3, <1>0 DEF HelperEnds
    <2>2. OutputInv'
        BY <1>3, <1>0 DEF HelperEnds
    <2>3. TimeInv' /\ VerdictInv'
        BY <1>3, <1>0 DEF HelperEnds
    <2>4. GroupKilled'
        BY <1>3, <1>0 DEF HelperEnds, GroupKilled
    <2> QED BY <2>1, <2>2, <2>3, <2>4
<1>4. ASSUME NEW p \in holders, CloseOutput(p) PROVE ExecutorInv'
    <2>1. Types' /\ LeaderInv'
        BY <1>4, <1>0 DEF CloseOutput
    <2>2. OutputInv'
        BY <1>4, <1>0 DEF CloseOutput
    <2>3. TimeInv' /\ VerdictInv'
        BY <1>4, <1>0 DEF CloseOutput
    <2>4. GroupKilled'
        BY <1>4, <1>0 DEF CloseOutput, GroupKilled
    <2> QED BY <2>1, <2>2, <2>3, <2>4
<1>5. ASSUME NEW s \in Streams, Write(s) PROVE ExecutorInv'
    <2>1. Types' /\ LeaderInv'
        BY <1>5, <1>0 DEF Write
    <2>5. named' <= written'["stderr"]
        <3>1. written'["stderr"] \in {written["stderr"], written["stderr"] + 1} /\ written["stderr"] \in Nat
            BY <1>5 DEF Write, Streams
        <3>2. named' = named \/ named' = written'["stderr"]
            BY <1>5 DEF Write
        <3> QED BY <3>1, <3>2
    <2>2. OutputInv'
        BY <1>5, <1>0, <2>5 DEF Write
    <2>3. TimeInv' /\ VerdictInv'
        BY <1>5, <1>0 DEF Write
    <2>4. GroupKilled'
        BY <1>5, <1>0 DEF Write, GroupKilled
    <2> QED BY <2>1, <2>2, <2>3, <2>4
<1>8. CASE Suspended /\ LeaveImage
    BY <1>8, <1>0 DEF LeaveImage, GroupKilled
<1>6. CASE Killed
    BY <1>6, <1>1, <1>3 DEF Killed
<1>7. OwnEnds \subseteq Causes \ {"our_kill"}
    BY DEF OwnEnds
<1> QED BY <1>1, <1>2, <1>3, <1>4, <1>5, <1>6, <1>7, <1>8 DEF ChildStep

\* One turn of _drain: whatever the size of the read, the buffer and the flag follow what
\* was consumed.
LEMMA DrainInv == ASSUME NEW s \in Streams, ExecutorInv, Drain(s) PROVE ExecutorInv'
<1> USE ExecutorAssumption
<1>1. PICK n \in 1..Smaller(Chunk, written[s] - consumed[s]) :
          /\ consumed' = [consumed EXCEPT ![s] = @ + n]
          /\ buffer' = IF MaxOutput - buffer[s] > 0
                       THEN [buffer EXCEPT ![s] = @ + Smaller(n, MaxOutput - buffer[s])]
                       ELSE buffer
          /\ truncated' = (truncated \/ n > MaxOutput - buffer[s])
    BY DEF Drain
<1>2. phase = "draining" /\ UNCHANGED <<now, phase, deadline, returncode, childVars, flagVars, status>>
    BY DEF Drain
<1>3. n \in Nat \ {0} /\ written[s] \in Nat /\ consumed[s] \in Nat /\ buffer[s] \in 0..MaxOutput
    BY DEF Smaller, ExecutorInv, Types
<1>4. consumed'[s] = consumed[s] + n /\ \A x \in Streams \ {s} : consumed'[x] = consumed[x]
    BY <1>1 DEF ExecutorInv, Types
<1>5. \A x \in Streams : buffer[x] = Smaller(consumed[x], MaxOutput) /\ consumed[x] \in Nat
    BY DEF ExecutorInv, Types, OutputInv
<1>6. buffer'[s] = Smaller(consumed'[s], MaxOutput) /\ \A x \in Streams \ {s} : buffer'[x] = buffer[x]
    <2>1. CASE MaxOutput - buffer[s] > 0
        BY <2>1, <1>1, <1>3, <1>4, <1>5 DEF Smaller, ExecutorInv, Types
    <2>2. CASE ~(MaxOutput - buffer[s] > 0)
        BY <2>2, <1>1, <1>3, <1>4, <1>5 DEF Smaller
    <2> QED BY <2>1, <2>2
<1>7. consumed' \in [Streams -> Nat] /\ buffer' \in [Streams -> 0..MaxOutput]
    <2>1. consumed' \in [Streams -> Nat]
        BY <1>1, <1>3 DEF ExecutorInv, Types
    <2>2. Smaller(consumed'[s], MaxOutput) \in 0..MaxOutput
        BY <1>3, <1>4 DEF Smaller
    <2>3. DOMAIN buffer' = Streams /\ \A x \in Streams : buffer'[x] \in 0..MaxOutput
        BY <1>1, <1>6, <2>2 DEF ExecutorInv, Types
    <2>4. buffer' = [x \in Streams |-> buffer'[x]]
        BY <1>1, <2>3 DEF ExecutorInv, Types
    <2> QED BY <2>1, <2>3, <2>4
<1>8. \A x \in Streams : buffer'[x] = Smaller(consumed'[x], MaxOutput)
    BY <1>4, <1>5, <1>6
<1>9. (n > MaxOutput - buffer[s]) <=> (consumed'[s] > MaxOutput)
    BY <1>3, <1>4, <1>5 DEF Smaller
<1>10. (consumed[s] > MaxOutput) => (consumed'[s] > MaxOutput)
    BY <1>3, <1>4
<1>11. truncated' \in BOOLEAN /\ (truncated' <=> truncated \/ consumed'[s] > MaxOutput)
    BY <1>1, <1>9
<1>12. truncated' <=> \E x \in Streams : consumed'[x] > MaxOutput
    BY <1>4, <1>10, <1>11 DEF ExecutorInv, OutputInv
<1>13. Types' /\ LeaderInv'
    BY <1>2, <1>7, <1>11 DEF ExecutorInv, Types, LeaderInv, childVars, flagVars
<1>14. OutputInv'
    BY <1>2, <1>8, <1>12 DEF ExecutorInv, OutputInv, VerdictInv, childVars, flagVars
<1>15. TimeInv' /\ VerdictInv' /\ GroupKilled'
    BY <1>2 DEF ExecutorInv, TimeInv, VerdictInv, GroupKilled, childVars, flagVars
<1> QED BY <1>13, <1>14, <1>15 DEF ExecutorInv

\* The verdict: what _classify returns is what the returncode, and so the cause, allows.
LEMMA CollectInv == ExecutorInv /\ Collect => ExecutorInv'
<1> SUFFICES ASSUME ExecutorInv, Collect PROVE ExecutorInv'
    OBVIOUS
<1> USE DEF ExecutorInv, Collect, childVars, drainVars, flagVars
<1>1. returncode = "none" \/ returncode \in ReturnCodes
    BY CodesOfCauses DEF Types, LeaderInv
<1>2. status' \in Statuses
    BY <1>1 DEF Classify, Statuses, ReturnCodes
<1>3. ~timed_out => (NamesMemoryError <=> named \in 1..MaxOutput)
    <2>2. SUFFICES ASSUME ~timed_out PROVE NamesMemoryError <=> named \in 1..MaxOutput
        OBVIOUS
    <2>3. consumed["stderr"] = written["stderr"] /\ named <= written["stderr"]
        BY <2>2 DEF OutputInv
    <2>4. buffer["stderr"] = Smaller(written["stderr"], MaxOutput)
        BY <2>3 DEF OutputInv, Streams
    <2> QED BY <2>3, <2>4, ExecutorAssumption DEF NamesMemoryError, Smaller, Types, Streams
<1>8. /\ status' = "success" => returncode = "0"
      /\ status' = "error" =>
            returncode = "SIGTERM" \/ (returncode = "positive" /\ named \notin 1..MaxOutput)
      /\ status' = "memory" =>
            \/ returncode \in {"SIGKILL", "SIGSEGV"} /\ cause # "our_kill"
            \/ returncode = "positive" /\ named \in 1..MaxOutput
      /\ status' \in {"success", "error", "memory"} => ~timed_out
    <2>1. cause = "our_kill" => killed_by_us
        BY DEF LeaderInv
    <2> QED BY <1>1, <1>3, <2>1 DEF Classify, ReturnCodes
<1>4. Types' /\ LeaderInv'
    BY <1>2 DEF Types, LeaderInv, Phases
<1>5. OutputInv'
    BY <1>8 DEF OutputInv
<1>6. TimeInv' /\ VerdictInv'
    BY <1>8, ExecutorAssumption DEF TimeInv, VerdictInv, Types, ExitWait, KillWait
<1>7. GroupKilled'
    BY DEF GroupKilled
<1> QED BY <1>4, <1>5, <1>6, <1>7

LEMMA ExecutorNext == ExecutorInv /\ [Next]_vars => ExecutorInv'
<1> SUFFICES ASSUME ExecutorInv, [Next]_vars PROVE ExecutorInv'
    OBVIOUS
<1> USE ExecutorAssumption DEF ExecutorInv, Types, LeaderInv, OutputInv, TimeInv,
            VerdictInv, GroupKilled, Phases, Processes, Statuses, Causes, ExitWait, KillWait,
            childVars, drainVars, flagVars, Suspended, Blocked, SafeWait, KillAndWait, KillTargets
<1>1. CASE NoDirectory
    BY <1>1 DEF NoDirectory
<1>2. CASE SpawnFails
    BY <1>2 DEF SpawnFails
<1>3. CASE Spawn
    <2>1. Types' /\ LeaderInv'
        BY <1>3 DEF Spawn
    <2>2. OutputInv'
        BY <1>3 DEF Spawn
    <2>3. TimeInv' /\ VerdictInv'
        BY <1>3 DEF Spawn
    <2>4. GroupKilled'
        BY <1>3 DEF Spawn
    <2> QED BY <2>1, <2>2, <2>3, <2>4
<1>4. CASE DrainDone
    BY <1>4 DEF DrainDone, AtEOF
<1>5. CASE DrainTimeout
    BY <1>5 DEF DrainTimeout
<1>6. CASE ExitTimeout
    BY <1>6 DEF ExitTimeout
<1>7. CASE HarnessError
    BY <1>7 DEF HarnessError
<1>8. CASE Exited
    BY <1>8 DEF Exited
<1>9. CASE WaitTimeout
    BY <1>9 DEF WaitTimeout
<1>10. CASE HarnessReturn
    BY <1>10 DEF HarnessReturn
<1>11. CASE CleanupFails
    BY <1>11 DEF CleanupFails
<1>12. CASE Cancelled
    BY <1>12 DEF Cancelled
<1>13. CASE Tick
    BY <1>13 DEF Tick
<1>14. CASE Reap
    BY <1>14 DEF Reap
<1>15. CASE UNCHANGED vars
    BY <1>15 DEF vars
<1>16. ASSUME NEW s \in Streams, Drain(s) PROVE ExecutorInv'
    BY ONLY ExecutorInv, <1>16, DrainInv
<1>18. CASE ReadBlocks
    BY <1>18 DEF ReadBlocks
<1>19. CASE ReadEnds
    BY <1>19 DEF ReadEnds
<1>20. CASE Stall
    BY <1>20 DEF Stall
<1> HIDE DEF ExecutorInv
<1>17. Collect \/ ChildStep => ExecutorInv'
    BY CollectInv, ChildStepInv
<1> QED BY <1>1, <1>2, <1>3, <1>4, <1>5, <1>6, <1>7, <1>8, <1>9, <1>10, <1>11, <1>12, <1>13, <1>14, <1>15, <1>16, <1>17, <1>18, <1>19, <1>20 DEF Next, Begin, Loop

LEMMA ExecutorInvariant == Spec => []ExecutorInv
<1>1. Init => ExecutorInv
    BY ExecutorInit
<1>2. ExecutorInv /\ [Next]_vars => ExecutorInv'
    BY ExecutorNext
<1> QED BY <1>1, <1>2, PTL DEF Spec

--------------------------------------------------------------------------------
(* Theorems *)

\* Every variable of the call stays in its type.
THEOREM ExecutorTypeCorrect == Spec => []TypeOK
<1>1. ExecutorInv => TypeOK
    BY CodesOfCauses DEF ExecutorInv, Types, LeaderInv, TypeOK
<1> QED BY <1>1, ExecutorInvariant, PTL

\* All that execute() awaits is over within the timeout, one second for the exit and three
\* for each kill, whatever its child does; and so is the call, unless it came upon an image
\* that blocks.
THEOREM ExecutionBounded == Spec => []TimeBounded
<1>1. ExecutorInv => TimeBounded
    BY ExecutorAssumption DEF ExecutorInv, Types, Phases, TimeInv, TimeBounded, Suspended, Blocked,
            ExitWait, KillWait
<1> QED BY <1>1, ExecutorInvariant, PTL

\* What is kept is the capped prefix of what was read, the mark says exactly whether it
\* was capped, and a verdict about the program comes with all of its output.
THEOREM OutputKept == Spec => []OutputExact
<1>1. ExecutorInv => OutputExact
    BY DEF ExecutorInv, OutputInv, OutputExact
<1> QED BY <1>1, ExecutorInvariant, PTL

\* The verdict follows the end that the program came to on its own, and of stderr its first
\* MaxOutput bytes.
THEOREM VerdictHonest == Spec => []HonestVerdict
<1>1. ExecutorInv => HonestVerdict
    <2> SUFFICES ASSUME ExecutorInv PROVE HonestVerdict
        OBVIOUS
    <2>1. returncode # "none" => returncode = Codes[cause] /\ cause \in Causes
        BY DEF ExecutorInv, Types, LeaderInv
    <2>2. /\ returncode = "0" => cause = "ok"
          /\ returncode = "SIGTERM" => cause = "other_signal"
          /\ returncode = "positive" => cause \in {"error", "memory_error"}
          /\ returncode = "SIGKILL" => cause \in {"cpu_limit", "our_kill"}
          /\ returncode = "SIGSEGV" => cause = "crash"
        BY <2>1 DEF Codes, Causes
    <2> QED BY <2>2 DEF ExecutorInv, Types, Statuses, VerdictInv, HonestVerdict
<1> QED BY <1>1, ExecutorInvariant, PTL

\* Whichever wait runs out, the kill reaches the whole group, and no leader is left that is
\* neither killed nor reaped.
THEOREM GroupsDieTogether == Spec => []GroupKilled
<1>1. ExecutorInv => GroupKilled
    BY DEF ExecutorInv
<1> QED BY <1>1, ExecutorInvariant, PTL
================================================================================
