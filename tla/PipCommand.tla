------------------------------- MODULE PipCommand -------------------------------
(***************************************************************************)
(* handle_command of app/bot/message_handler: `!pip install ...`, run as a *)
(* process of its own with 60 seconds to finish.  No limit and no slot     *)
(* applies to it, and nobody kills it.                                     *)
(***************************************************************************)
VARIABLES
    cmd,            \* the await that the command is suspended in, or how it ended
    cmd_status,     \* the status message, as the channel shows it
    status_msg,     \* _reply returned it
    pip,            \* the process
    timed_out,      \* the 60 seconds are over
    cmd_faulty      \* a Discord call failed

cmdVars == <<cmd, cmd_status, status_msg, pip, timed_out, cmd_faulty>>

CommandOver == {"ended", "crashed"}
Verdicts    == {"finished", "timed_out", "failed"}

Outcomes     == {"ok", "http", "error", "lost"}
Reaches(out) == out \in {"ok", "lost"}
Raises(out)  == out \in {"error", "lost"}

Finish(raised) == cmd' = IF raised THEN "crashed" ELSE "ended"

CommandInit ==
    /\ cmd = "idle"
    /\ cmd_status = "none"
    /\ status_msg = FALSE
    /\ pip = "none"
    /\ timed_out = FALSE
    /\ cmd_faulty = FALSE

\* Only `pip install ` is a command.
CommandBegins(is_pip) ==
    /\ cmd = "idle"
    /\ cmd' = IF is_pip THEN "replying" ELSE "ended"
    /\ UNCHANGED <<cmd_status, status_msg, pip, timed_out, cmd_faulty>>

\* "Running ...", outside the try block.
CommandReplied ==
    /\ cmd = "replying"
    /\ \E out \in Outcomes :
          /\ cmd' = IF Raises(out) THEN "crashed" ELSE "spawning"
          /\ cmd_status' = IF Reaches(out) THEN "running" ELSE cmd_status
          /\ status_msg' = (out = "ok")
          /\ cmd_faulty' = (out # "ok")
    /\ UNCHANGED <<pip, timed_out>>

Spawned ==
    /\ cmd = "spawning"
    /\ \/ cmd' = "communicating" /\ pip' = "running"
       \/ cmd' = "failed" /\ UNCHANGED pip
    /\ UNCHANGED <<cmd_status, status_msg, timed_out, cmd_faulty>>

PipExits ==
    /\ pip = "running"
    /\ pip' = "exited"
    /\ UNCHANGED <<cmd, cmd_status, status_msg, timed_out, cmd_faulty>>

\* communicate() returns.
Communicated ==
    /\ cmd = "communicating" /\ pip = "exited"
    /\ cmd' = "finished"
    /\ UNCHANGED <<cmd_status, status_msg, pip, timed_out, cmd_faulty>>

\* Mutant of CommandTimesOut: communicate() is awaited without wait_for.
CommandWaits == FALSE /\ UNCHANGED cmdVars

\* TimeoutError after 60 seconds; the process is left alone.
CommandTimesOut ==
    /\ cmd = "communicating"
    /\ cmd' = "timed_out"
    /\ timed_out' = TRUE
    /\ UNCHANGED <<cmd_status, status_msg, pip, cmd_faulty>>

Show(verdict, out) ==
    /\ cmd_status' = IF Reaches(out) THEN verdict ELSE cmd_status
    /\ cmd_faulty' = (cmd_faulty \/ out # "ok")

\* The result is shown inside the try block: a failed edit, or a reply that raises, is
\* itself a failure of the command - a timeout, if that is what was raised.
ShowFinished ==
    /\ cmd = "finished"
    /\ \E out \in Outcomes :
          /\ Show("finished", out)
          /\ IF Raises(out) \/ (status_msg /\ out = "http")
             THEN cmd' = "failed" \/ (Raises(out) /\ cmd' = "timed_out")
             ELSE Finish(FALSE)
    /\ UNCHANGED <<status_msg, pip, timed_out>>

\* Mutant of ShowProblem: TimeoutError and Exception are told apart the wrong way round.
ShowProblemSwapped ==
    /\ cmd \in {"timed_out", "failed"}
    /\ IF status_msg
       THEN \E out \in Outcomes :
               /\ Show(IF cmd = "failed" THEN "timed_out" ELSE "failed", out)
               /\ Finish(out # "ok")
       ELSE Finish(FALSE) /\ UNCHANGED <<cmd_status, cmd_faulty>>
    /\ UNCHANGED <<status_msg, pip, timed_out>>

\* The except clauses: without a status message nothing is said; what edit() raises
\* leaves on_message.
ShowProblem ==
    /\ cmd \in {"timed_out", "failed"}
    /\ IF status_msg
       THEN \E out \in Outcomes : Show(cmd, out) /\ Finish(out # "ok")
       ELSE Finish(FALSE) /\ UNCHANGED <<cmd_status, cmd_faulty>>
    /\ UNCHANGED <<status_msg, pip, timed_out>>

CommandStep ==
    \/ CommandReplied
    \/ Spawned
    \/ Communicated
    \/ CommandTimesOut
    \/ ShowFinished
    \/ ShowProblem

CommandNext == CommandStep \/ PipExits

--------------------------------------------------------------------------------
\* Type invariant of a command.
CommandTypeOK ==
    /\ cmd \in {"idle", "replying", "spawning", "communicating"} \cup Verdicts \cup CommandOver
    /\ cmd_status \in {"none", "running"} \cup Verdicts
    /\ status_msg \in BOOLEAN
    /\ pip \in {"none", "running", "exited"}
    /\ timed_out \in BOOLEAN
    /\ cmd_faulty \in BOOLEAN

\* What the user is told of the command is true, unless a Discord call failed, and
\* something is told; pip outlives the command only when it was given up after its time.
CommandHonest ==
    /\ cmd_status = "finished" => pip = "exited"
    /\ ~cmd_faulty =>
          /\ cmd_status = "failed" => pip = "none"
          /\ cmd_status = "timed_out" => timed_out
          /\ cmd \in CommandOver /\ cmd_status # "none" => cmd_status \in Verdicts
    /\ cmd \in CommandOver /\ pip = "running" => timed_out
================================================================================
