--------------------------- MODULE SubprocessExecutor ---------------------------
(***************************************************************************)
(* One call of SubprocessExecutor.execute (app/executor/executor), with    *)
(* the process it starts.                                                  *)
(*                                                                         *)
(* The call drains the child's two output streams under a wall-clock       *)
(* timeout, kills the child's process group when it must, waits for the    *)
(* exit for a bounded time and classifies the outcome.  The child - the    *)
(* leader of a new process group, running app/executor/runner - and one    *)
(* helper process that it may start are the environment: they write, close *)
(* their output, exit and are terminated at any moment.  now counts        *)
(* seconds from the moment the draining starts.                            *)
(***************************************************************************)
EXTENDS Integers, FiniteSets

CONSTANTS
    Timeout,        \* self.timeout, after max(1, int(...))
    MaxOutput,      \* self.max_output: what is kept of each stream
    Chunk,          \* the most that one read returns (4096)
    MaxWrites,      \* bound on what the child writes to each stream
    MaxStall        \* bound on the seconds counted while an image is being read

ASSUME ExecutorAssumption ==
    /\ Timeout \in Nat \ {0}
    /\ MaxOutput \in Nat \ {0}
    /\ Chunk \in Nat \ {0}
    /\ MaxWrites \in Nat /\ MaxStall \in Nat

VARIABLES
    now,
    phase,          \* where execute() is suspended, or how it ended
    deadline,       \* when the running wait_for gives up
    leader,         \* the child: "alive" or "dead"
    cause,          \* what ended the leader
    returncode,     \* proc.returncode: "none" until the child watcher sets it
    helper,         \* a process started by the leader: in its group, or detached
    holders,        \* the processes that hold the write ends of the pipes
    signalled,      \* the processes a SIGKILL was sent to
    named,          \* where the first "MemoryError" in stderr ends, 0 if there is none
    image,          \* the *.png or *.jpg in the directory whose reading blocks
    written,        \* per stream: what was written,
    consumed,       \* what _drain has read,
    buffer,         \* and what it keeps
    truncated,      \* the _Flag
    timed_out,
    killed_by_us,
    status          \* result.status, "none" before there is a result

childVars == <<leader, cause, helper, holders, signalled, written, named, image>>
drainVars == <<consumed, buffer, truncated>>
flagVars  == <<timed_out, killed_by_us>>
vars == <<now, phase, deadline, returncode, childVars, drainVars, flagVars, status>>

Streams == {"stdout", "stderr"}
Smaller(a, b) == IF a < b THEN a ELSE b

ExitWait == 1       \* _safe_wait(proc, 1.0) after the output ended
KillWait == 3       \* _safe_wait(proc, 3.0) after a kill

Suspended == phase \in {"draining", "exitwait", "killwait", "harness"}
Ended     == phase \in {"done", "raised", "cancelled"}

\* execute() sits in a file operation, and the event loop with it.
Blocked   == phase = "reading"

--------------------------------------------------------------------------------
(* The child *)

\* How the leader can end, and the returncode asyncio reports for it.  runner.py
\* exits with 0, or with 1..255 (after a traceback on stderr, or on what the
\* program has put in its place); RLIMIT_CPU is set with its hard
\* limit equal to its soft limit, so the kernel enforces it with SIGKILL; a program may
\* raise SIGXCPU on itself, or be ended by any other signal.
Codes == [ok |-> "0", error |-> "positive", memory_error |-> "positive",
          cpu_limit |-> "SIGKILL", crash |-> "SIGSEGV", sigxcpu |-> "SIGXCPU",
          other_signal |-> "SIGTERM", our_kill |-> "SIGKILL"]

OwnEnds == {"ok", "error", "memory_error", "cpu_limit", "crash", "sigxcpu", "other_signal"}

LeaderEnds(why) ==
    /\ leader = "alive"
    /\ leader' = "dead"
    /\ cause' = why
    /\ holders' = holders \ {"leader"}
    /\ UNCHANGED <<helper, signalled, written, named, image>>

\* The leader starts a helper, which inherits the pipes unless it is redirected, and
\* which may have a session of its own.
StartHelper ==
    /\ leader = "alive" /\ "leader" \notin signalled
    /\ helper = "none"
    /\ helper' \in {"grouped", "detached"}
    /\ \/ "leader" \in holders /\ holders' = holders \cup {"helper"}
       \/ UNCHANGED holders
    /\ UNCHANGED <<leader, cause, signalled, written, named, image>>

HelperEnds ==
    /\ helper \in {"grouped", "detached"}
    /\ helper' = "dead"
    /\ holders' = holders \ {"helper"}
    /\ UNCHANGED <<leader, cause, signalled, written, named, image>>

CloseOutput(p) ==
    /\ p \in holders
    /\ holders' = holders \ {p}
    /\ UNCHANGED <<leader, cause, helper, signalled, written, named, image>>

Write(s) ==
    /\ holders # {}
    /\ written[s] < MaxWrites
    /\ written' = [written EXCEPT ![s] = @ + 1]
    /\ \/ UNCHANGED named
       \/ s = "stderr" /\ named = 0 /\ named' = written'[s]
    /\ UNCHANGED <<leader, cause, helper, holders, signalled, image>>

\* Somebody alive puts a FIFO, or a link to a device without end, into the directory under
\* the name of an image: its open() or read() will block, which an ordinary file's does not.
LeaveImage ==
    /\ leader = "alive" \/ helper \in {"grouped", "detached"}
    /\ image = "none"
    /\ image' = "fifo"
    /\ UNCHANGED <<leader, cause, helper, holders, signalled, written, named>>

\* A SIGKILL takes effect, possibly late (uninterruptible sleep).
Killed ==
    \/ "leader" \in signalled /\ LeaderEnds("our_kill")
    \/ "helper" \in signalled /\ HelperEnds

ChildStep ==
    /\ Suspended \/ Blocked \/ Ended
    /\ \/ \E why \in OwnEnds : LeaderEnds(why)
       \/ Suspended /\ LeaveImage
       \/ StartHelper
       \/ HelperEnds
       \/ \E p \in holders : CloseOutput(p)
       \/ \E s \in Streams : Write(s)
       \/ Killed
    /\ UNCHANGED <<now, phase, deadline, returncode, drainVars, flagVars, status>>

\* The child watcher reaps the leader, when the loop gets to run it.
Reap ==
    /\ ~Blocked
    /\ leader = "dead"
    /\ returncode = "none"
    /\ returncode' = Codes[cause]
    /\ UNCHANGED <<now, phase, deadline, childVars, drainVars, flagVars, status>>

--------------------------------------------------------------------------------
(* execute() *)

Init ==
    /\ now = 0
    /\ phase = "start"
    /\ deadline = 0
    /\ leader = "none"
    /\ cause = "none"
    /\ returncode = "none"
    /\ helper = "none"
    /\ holders = {}
    /\ signalled = {}
    /\ named = 0
    /\ image = "none"
    /\ written = [s \in Streams |-> 0]
    /\ consumed = [s \in Streams |-> 0]
    /\ buffer = [s \in Streams |-> 0]
    /\ truncated = FALSE
    /\ timed_out = FALSE
    /\ killed_by_us = FALSE
    /\ status = "none"

\* The temporary directory cannot be created: the exception leaves execute().
NoDirectory ==
    /\ phase = "start"
    /\ phase' = "raised"
    /\ UNCHANGED <<now, deadline, returncode, childVars, drainVars, flagVars, status>>

SpawnFails ==
    /\ phase = "start"
    /\ phase' = "done"
    /\ status' = "internal"
    /\ UNCHANGED <<now, deadline, returncode, childVars, drainVars, flagVars>>

\* The child starts (with stdin written: the input is smaller than the pipe) and the
\* two _drain coroutines run under wait_for(..., self.timeout).
Spawn ==
    /\ phase = "start"
    /\ phase' = "draining"
    /\ deadline' = now + Timeout
    /\ leader' = "alive"
    /\ holders' = {"leader"}
    /\ UNCHANGED <<now, cause, returncode, helper, signalled, written, named, image, drainVars,
                   flagVars, status>>

\* Mutant of Drain: the chunk is kept whole.
DrainUncapped(s) ==
    /\ phase = "draining"
    /\ \E n \in 1..Smaller(Chunk, written[s] - consumed[s]) :
          LET remaining == MaxOutput - buffer[s]
          IN  /\ consumed' = [consumed EXCEPT ![s] = @ + n]
              /\ buffer' = IF remaining > 0 THEN [buffer EXCEPT ![s] = @ + n] ELSE buffer
              /\ truncated' = (truncated \/ n > remaining)
    /\ UNCHANGED <<now, phase, deadline, returncode, childVars, flagVars, status>>

\* One turn of _drain's loop on stream s.
Drain(s) ==
    /\ phase = "draining"
    /\ \E n \in 1..Smaller(Chunk, written[s] - consumed[s]) :
          LET remaining == MaxOutput - buffer[s]
          IN  /\ consumed' = [consumed EXCEPT ![s] = @ + n]
              /\ buffer' = IF remaining > 0
                           THEN [buffer EXCEPT ![s] = @ + Smaller(n, remaining)]
                           ELSE buffer
              /\ truncated' = (truncated \/ n > remaining)
    /\ UNCHANGED <<now, phase, deadline, returncode, childVars, flagVars, status>>

\* Mutant of AtEOF: only stdout is waited for.
AtEOFStdout == holders = {} /\ consumed["stdout"] = written["stdout"]

\* Both streams are at their end.
AtEOF == holders = {} /\ consumed = written

\* Mutant of KillTargets: proc.kill() for os.killpg().
KillTargetsLeader == IF returncode # "none" THEN {} ELSE {"leader"}

\* _kill(): nothing once the returncode is known; otherwise SIGKILL to the group of the
\* leader.
KillTargets ==
    IF returncode # "none" THEN {}
    ELSE {"leader"} \cup (IF helper = "grouped" THEN {"helper"} ELSE {})

\* _safe_wait(proc, timeout), entered in phase p: it returns at once if the returncode
\* is known.
SafeWait(p, timeout) ==
    /\ phase' = IF returncode # "none" THEN "collect" ELSE p
    /\ deadline' = now + timeout

KillAndWait(p) ==
    /\ signalled' = signalled \cup KillTargets
    /\ SafeWait(p, KillWait)
    /\ UNCHANGED <<now, returncode, leader, cause, helper, holders, written, named, image,
                   drainVars, status>>

DrainDone ==
    /\ phase = "draining"
    /\ AtEOF
    /\ SafeWait("exitwait", ExitWait)
    /\ UNCHANGED <<now, returncode, childVars, drainVars, flagVars, status>>

DrainTimeout ==
    /\ phase = "draining"
    /\ now = deadline
    /\ timed_out' = TRUE
    /\ killed_by_us' = TRUE
    /\ KillAndWait("killwait")

\* Mutant of ExitTimeout: it kills again and again until the leader is gone.
ExitTimeoutRetries ==
    /\ phase = "exitwait"
    /\ now = deadline
    /\ killed_by_us' = TRUE
    /\ UNCHANGED timed_out
    /\ KillAndWait("exitwait")

\* The leader has closed its output but is still running a second later.
ExitTimeout ==
    /\ phase = "exitwait"
    /\ now = deadline
    /\ killed_by_us' = TRUE
    /\ UNCHANGED timed_out
    /\ KillAndWait("killwait")

\* Any other exception of the harness.
HarnessError ==
    /\ phase \in {"draining", "exitwait", "killwait"}
    /\ killed_by_us' = TRUE
    /\ UNCHANGED timed_out
    /\ signalled' = signalled \cup KillTargets
    /\ phase' = "harness"
    /\ deadline' = now + KillWait
    /\ UNCHANGED <<now, returncode, leader, cause, helper, holders, written, named, image,
                   drainVars, status>>

\* proc.wait() returns: the leader is reaped and the pipes are disconnected.  After a
\* cancelled drain a paused pipe may never disconnect: then the timeout ends the wait.
Exited ==
    /\ phase \in {"exitwait", "killwait"}
    /\ returncode # "none"
    /\ holders = {}
    /\ phase' = "collect"
    /\ UNCHANGED <<now, deadline, returncode, childVars, drainVars, flagVars, status>>

\* Mutant of WaitTimeout: proc.wait() without a timeout.
WaitForExit ==
    /\ phase = "killwait"
    /\ now = deadline
    /\ returncode # "none"
    /\ phase' = "collect"
    /\ UNCHANGED <<now, deadline, returncode, childVars, drainVars, flagVars, status>>

WaitTimeout ==
    /\ phase = "killwait"
    /\ now = deadline
    /\ phase' = "collect"
    /\ UNCHANGED <<now, deadline, returncode, childVars, drainVars, flagVars, status>>

HarnessReturn ==
    /\ phase = "harness"
    /\ now = deadline \/ returncode # "none"
    /\ phase' = "done"
    /\ status' = "internal"
    /\ UNCHANGED <<now, deadline, returncode, childVars, drainVars, flagVars>>

\* Mutant of NamesMemoryError: the word is looked for in all of stderr.
NamesMemoryErrorUncapped == named > 0

\* "MemoryError" in stderr_text: in what is kept of stderr, whoever wrote it.
NamesMemoryError == named \in 1..buffer["stderr"]

\* _classify.
Classify ==
    CASE timed_out -> "timeout"
      [] ~timed_out /\ returncode = "none" -> "internal"
      [] ~timed_out /\ returncode = "0" -> "success"
      [] ~timed_out /\ returncode = "positive" -> IF NamesMemoryError THEN "memory" ELSE "error"
      [] ~timed_out /\ returncode \notin {"none", "0", "positive"} ->
             IF killed_by_us \/ returncode = "SIGXCPU" THEN "timeout"
             ELSE IF returncode \in {"SIGKILL", "SIGSEGV"} THEN "memory" ELSE "error"

\* The images are read, or skipped because they cannot be, or because five came first;
\* the temporary directory is removed and the result built.
Collect ==
    /\ phase = "collect"
    /\ phase' = "done"
    /\ status' = Classify
    /\ UNCHANGED <<now, deadline, returncode, childVars, drainVars, flagVars>>

\* Among the first five there is one that blocks: no await, so no timeout covers it.
ReadBlocks ==
    /\ phase = "collect"
    /\ image = "fifo"
    /\ phase' = "reading"
    /\ UNCHANGED <<now, deadline, returncode, childVars, drainVars, flagVars, status>>

\* A surviving process opens the other end, and closes it; the directory was listed
\* before, so nothing put there since is read.
ReadEnds ==
    /\ Blocked
    /\ leader = "alive" \/ helper \in {"grouped", "detached"}
    /\ phase' = "collect"
    /\ image' = "read"
    /\ UNCHANGED <<now, deadline, returncode, leader, cause, helper, holders, signalled, written,
                   named, drainVars, flagVars, status>>

\* The directory cannot be removed because a surviving process still writes to it.
CleanupFails ==
    /\ phase = "collect"
    /\ leader = "alive" \/ helper \in {"grouped", "detached"}
    /\ phase' = "raised"
    /\ UNCHANGED <<now, deadline, returncode, childVars, drainVars, flagVars, status>>

\* The task is cancelled (shutdown): CancelledError is no Exception, nothing is killed.
Cancelled ==
    /\ Suspended
    /\ phase' = "cancelled"
    /\ UNCHANGED <<now, deadline, returncode, childVars, drainVars, flagVars, status>>

\* Time passes when the event loop has nothing to do and no timer is due.
Idle ==
    /\ phase = "draining" => consumed = written /\ ~AtEOF
    /\ phase = "exitwait" => returncode = "none"
    /\ ~(leader = "dead" /\ returncode = "none")

Tick ==
    /\ Suspended
    /\ now < deadline
    /\ Idle
    /\ now' = now + 1
    /\ UNCHANGED <<phase, deadline, returncode, childVars, drainVars, flagVars, status>>

Stall ==
    /\ Blocked
    /\ now < deadline + MaxStall
    /\ now' = now + 1
    /\ UNCHANGED <<phase, deadline, returncode, childVars, drainVars, flagVars, status>>

Begin == NoDirectory \/ SpawnFails \/ Spawn

Loop ==
    \/ \E s \in Streams : Drain(s)
    \/ DrainDone
    \/ DrainTimeout
    \/ ExitTimeout
    \/ Exited
    \/ WaitTimeout
    \/ HarnessReturn
    \/ Collect
    \/ ReadBlocks
    \/ CleanupFails

Next == Begin \/ Loop \/ HarnessError \/ Cancelled \/ ChildStep \/ Reap \/ Tick \/ ReadEnds \/ Stall

Spec == Init /\ [][Next]_vars

\* The event loop runs what is ready, the child watcher reaps, time passes.  Nothing is
\* assumed of the child.
FairSpec == Spec /\ WF_vars(Begin) /\ WF_vars(Loop) /\ WF_vars(Reap) /\ WF_vars(Tick)

--------------------------------------------------------------------------------
\* Type invariant of the call and of the processes.
Processes == {"leader", "helper"}
Phases    == {"start", "draining", "exitwait", "killwait", "harness", "collect", "reading",
              "done", "raised", "cancelled"}
Statuses  == {"success", "error", "timeout", "memory", "internal"}

TypeOK ==
    /\ now \in Nat /\ deadline \in Nat
    /\ phase \in Phases
    /\ leader \in {"none", "alive", "dead"}
    /\ cause \in {"none"} \cup DOMAIN Codes
    /\ returncode \in {"none"} \cup {Codes[c] : c \in DOMAIN Codes}
    /\ helper \in {"none", "grouped", "detached", "dead"}
    /\ holders \subseteq Processes /\ signalled \subseteq Processes
    /\ named \in Nat /\ image \in {"none", "fifo", "read"}
    /\ written \in [Streams -> Nat]
    /\ consumed \in [Streams -> Nat]
    /\ buffer \in [Streams -> 0..MaxOutput]
    /\ truncated \in BOOLEAN /\ timed_out \in BOOLEAN /\ killed_by_us \in BOOLEAN
    /\ status \in {"none"} \cup Statuses

\* "Only kept up to max_output bytes per stream", and nothing less: the buffer holds the
\* first max_output bytes of what was read, and `truncated` is set exactly when some
\* byte of either stream was dropped, whatever the sizes of the reads.  A result that
\* neither timed out nor failed carries everything the child and its helper wrote: the
\* drain ended at the end of both streams.
OutputExact ==
    /\ \A s \in Streams : buffer[s] = Smaller(consumed[s], MaxOutput)
    /\ truncated <=> \E s \in Streams : consumed[s] > MaxOutput
    /\ status \in {"success", "error", "memory"} => consumed = written

\* However the child behaves, and whoever holds its pipes, the call spends no more than a
\* fixed time: the drain, the wait for the exit and the wait after the kill - and one more
\* such wait when the harness itself fails.  The exception is an image that blocks, which
\* nothing bounds.  It comes after the waits, which keep their bound in any case.
TimeBounded ==
    /\ ~Blocked /\ image # "read" =>
          /\ now <= Timeout + ExitWait + 2 * KillWait
          /\ status \notin {"none", "internal"} => now <= Timeout + ExitWait + KillWait
    /\ Suspended => now <= Timeout + ExitWait + 2 * KillWait

\* "success" is said only of an exit with 0, "error" of an exit with another code or by a
\* signal that is not the kernel's or ours; one that was killed by the executor is never
\* blamed for its memory.  An exit with another code is put down to memory exactly when
\* "MemoryError" is among the first max_output bytes that were written to stderr: also
\* when the program only printed it, and not when the cap cut a traceback off before it.
HonestVerdict ==
    /\ status = "success" => cause = "ok"
    /\ status = "error" => cause \in {"error", "memory_error", "other_signal"}
    /\ cause = "our_kill" => status \in {"none", "timeout", "internal"}
    /\ status = "memory" => cause \in {"error", "memory_error", "cpu_limit", "crash"}
    /\ cause \in {"error", "memory_error"} /\ status \in {"error", "memory"}
          => (status = "memory" <=> named \in 1..MaxOutput)

\* The group is killed as a whole: none of its processes survives a kill of the leader
\* unsignalled, not even one that was started meanwhile.  And execute() does not return,
\* nor wait for what it believes to have killed, while the leader is neither killed nor
\* reaped.
GroupKilled ==
    /\ "leader" \in signalled /\ helper = "grouped" => "helper" \in signalled
    /\ phase \in {"killwait", "harness", "collect", "reading", "done", "raised"} /\ leader # "none"
          => returncode # "none" \/ "leader" \in signalled

\* The executor's docstring: "A wall-clock timeout kills the whole process group
\* (SIGKILL)".  The group outlives its leader: what it started is in it still.
TimeoutKillsGroup ==
    timed_out /\ Ended => (helper = "grouped" => "helper" \in signalled)

\* ExecutionStatus.TIMEOUT: "wall-clock or CPU limit exceeded", so a program that used up
\* its CPU limit is reported as a timeout.
CpuLimitIsTimeout == cause = "cpu_limit" /\ status # "none" => status \in {"timeout", "internal"}

\* execute() returns whatever the child does - it may never exit, ignore its pipes, print
\* for ever or keep a helper that holds them - unless it leaves an image that blocks and
\* nobody alive lets go.
Returns == <>Ended \/ <>[](Blocked /\ image = "fifo")
================================================================================
