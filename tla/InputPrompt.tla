------------------------------ MODULE InputPrompt ------------------------------
(***************************************************************************)
(* _process, step 3.2 of app/bot/message_handler: code that calls input()  *)
(* is run only once its author has typed the input - in the channel or in  *)
(* a modal behind a button - and 20 seconds are the limit.                 *)
(*                                                                         *)
(* Three tasks race for one future: the request, which awaits it with a    *)
(* timeout; a listener task, which waits for the author's next message;    *)
(* and the modal's on_submit.  A step is what one of them does between two *)
(* awaits.  All of it happens in one channel; what an input says is        *)
(* abstracted to who gave it.  In MessageHandler the whole is one await.   *)
(***************************************************************************)
CONSTANTS Requests, Users, NoUser

ASSUME PromptAssumption == NoUser \notin Users

VARIABLES
    at,             \* the await that a request is suspended in, or how it ended
    author,         \* message.author
    prompt,         \* the prompt, as the channel shows it
    prompt_msg,     \* _reply returned the message: its button works and it can be edited
    future,         \* the future that is raced for
    stdin_input,    \* its result: who gave the input
    expired,        \* the timer of wait_for(future) has fired
    msg_task,       \* the listener task, and the future that it awaits
    modal,          \* who has an InputModal open
    submitted,      \* who has submitted one that is not acknowledged yet
    faulty          \* a Discord call of this request failed

mine  == <<author, prompt, prompt_msg, faulty>>
race  == <<future, stdin_input, expired, msg_task, modal, submitted>>
vars  == <<at, mine, race>>

\* handle() logs an exception and returns: a request ends with or without one.
Over == {"proceeding", "ended"}

Outcomes     == {"ok", "http", "error", "lost"}
Reaches(out) == out \in {"ok", "lost"}
Raises(out)  == out \in {"error", "lost"}

Go(r, place)    == at' = [at EXCEPT ![r] = place]
Fault(r, fails) == faulty' = [faulty EXCEPT ![r] = @ \/ fails]

--------------------------------------------------------------------------------
Init ==
    /\ at = [r \in Requests |-> "idle"]
    /\ author \in [Requests -> Users]
    /\ prompt = [r \in Requests |-> "none"]
    /\ prompt_msg = [r \in Requests |-> FALSE]
    /\ future = [r \in Requests |-> "pending"]
    /\ stdin_input = [r \in Requests |-> NoUser]
    /\ expired = [r \in Requests |-> FALSE]
    /\ msg_task = [r \in Requests |-> "none"]
    /\ modal = [r \in Requests |-> {}]
    /\ submitted = [r \in Requests |-> {}]
    /\ faulty = [r \in Requests |-> FALSE]

\* set_result of the future, for those who looked first whether it is done.
SetResult(r, u) ==
    /\ future' = [future EXCEPT ![r] = "set"]
    /\ stdin_input' = [stdin_input EXCEPT ![r] = u]

SetUnlessDone(r, u) ==
    IF future[r] = "pending" THEN SetResult(r, u) ELSE UNCHANGED <<future, stdin_input>>

(* The channel *)

\* A message of u goes to every listener task whose check accepts it - all those of u's
\* own prompts - and it may itself be code that asks for input.
Chat(u) ==
    /\ msg_task' = [r \in Requests |->
                       IF msg_task[r] = "listening" /\ author[r] = u THEN "matched"
                       ELSE msg_task[r]]
    /\ \/ \E r \in Requests : at[r] = "idle" /\ author[r] = u /\ Go(r, "prompting")
       \/ msg_task' # msg_task /\ UNCHANGED at
    /\ UNCHANGED <<mine, future, stdin_input, expired, modal, submitted>>

\* The prompt reaches the channel before the call returns: whoever answers at once is
\* not heard yet.
Shown(r) ==
    /\ at[r] = "prompting" /\ prompt[r] = "none"
    /\ prompt' = [prompt EXCEPT ![r] = "asking"]
    /\ UNCHANGED <<at, author, prompt_msg, faulty, race>>

\* _reply returns (None after an HTTPException), the listener task is created, and the
\* future is awaited for 20 seconds.
Prompted(r) ==
    /\ at[r] = "prompting"
    /\ \E out \in Outcomes :
          /\ Reaches(out) <=> prompt[r] = "asking"
          /\ Fault(r, out # "ok")
          /\ IF Raises(out)
             THEN Go(r, "ended") /\ UNCHANGED <<prompt_msg, msg_task>>
             ELSE /\ Go(r, "waiting")
                  /\ prompt_msg' = [prompt_msg EXCEPT ![r] = out = "ok"]
                  /\ msg_task' = [msg_task EXCEPT ![r] = "created"]
    /\ UNCHANGED <<author, prompt, future, stdin_input, expired, modal, submitted>>

--------------------------------------------------------------------------------
(* wait_for_message *)

ListenerStarts(r) ==
    /\ msg_task[r] = "created"
    /\ msg_task' = [msg_task EXCEPT ![r] = "listening"]
    /\ UNCHANGED <<at, mine, future, stdin_input, expired, modal, submitted>>

\* A turn of the loop after the message, in which the future may have been settled.
ListenerWakes(r) ==
    /\ msg_task[r] = "matched"
    /\ msg_task' = [msg_task EXCEPT ![r] = "done"]
    /\ SetUnlessDone(r, author[r])
    /\ UNCHANGED <<at, mine, expired, modal, submitted>>

\* Its 20 seconds began after those of the request.
ListenerTimesOut(r) ==
    /\ msg_task[r] \in {"listening", "matched"}
    /\ expired[r]
    /\ msg_task' = [msg_task EXCEPT ![r] = "done"]
    /\ UNCHANGED <<at, mine, future, stdin_input, expired, modal, submitted>>

(* The button and the modal *)

\* Mutant of Press: anybody gets the modal.
PressByAnybody(r, u) ==
    /\ prompt_msg[r] /\ prompt[r] = "asking"
    /\ modal' = [modal EXCEPT ![r] = @ \cup {u}]
    /\ UNCHANGED <<at, mine, future, stdin_input, expired, msg_task, submitted>>

\* provide_input: only the author gets the modal.
Press(r, u) ==
    /\ prompt_msg[r] /\ prompt[r] = "asking"
    /\ u = author[r]
    /\ modal' = [modal EXCEPT ![r] = @ \cup {u}]
    /\ UNCHANGED <<at, mine, future, stdin_input, expired, msg_task, submitted>>

\* on_submit, whenever the user gets to it - also when the prompt is long gone.
Submit(r, u) ==
    /\ u \in modal[r]
    /\ modal' = [modal EXCEPT ![r] = @ \ {u}]
    /\ submitted' = [submitted EXCEPT ![r] = @ \cup {u}]
    /\ UNCHANGED <<at, mine, future, stdin_input, expired, msg_task>>

\* "Input received! Executing..." is awaited first; then the future is set if nobody has
\* settled it meanwhile.  If the call raises, it is not.
Acknowledged(r, u) ==
    /\ u \in submitted[r]
    /\ submitted' = [submitted EXCEPT ![r] = @ \ {u}]
    /\ \/ SetUnlessDone(r, u) /\ UNCHANGED faulty
       \/ Fault(r, TRUE) /\ UNCHANGED <<future, stdin_input>>
    /\ UNCHANGED <<at, author, prompt, prompt_msg, expired, msg_task, modal>>

--------------------------------------------------------------------------------
(* wait_for(future) and what follows it *)

\* Mutant of Timeout: only the listener has a timeout.
TimeoutNever(r) == FALSE /\ r \in Requests /\ UNCHANGED vars

\* The timer cancels the future.  An answer set in the same turn of the loop, before the
\* request has run, is lost: the request finds the timeout, not the answer.
Timeout(r) ==
    /\ at[r] = "waiting" /\ ~expired[r]
    /\ expired' = [expired EXCEPT ![r] = TRUE]
    /\ future' = [future EXCEPT ![r] = IF @ = "pending" THEN "cancelled" ELSE @]
    /\ UNCHANGED <<at, mine, stdin_input, msg_task, modal, submitted>>

\* Mutant of Finally: the listener task is left to its own timeout.
FinallyLeavesListener(r) ==
    /\ Go(r, IF prompt_msg[r] /\ future[r] = "set" THEN "cleaning"
             ELSE IF expired[r] THEN "ended" ELSE "proceeding")
    /\ UNCHANGED msg_task

\* The finally clause up to its await: the listener task is cancelled; an answered
\* prompt is deleted.
Finally(r) ==
    /\ Go(r, IF prompt_msg[r] /\ future[r] = "set" THEN "cleaning"
             ELSE IF expired[r] THEN "ended" ELSE "proceeding")
    /\ msg_task' = [msg_task EXCEPT ![r] = IF @ = "done" THEN @ ELSE "cancelled"]

Answered(r) ==
    /\ at[r] = "waiting"
    /\ future[r] = "set" /\ ~expired[r]
    /\ Finally(r)
    /\ UNCHANGED <<mine, future, stdin_input, expired, modal, submitted>>

\* TimeoutError: the prompt, if there is one, is edited to say so.
TimedOut(r) ==
    /\ at[r] = "waiting" /\ expired[r]
    /\ IF prompt_msg[r] THEN Go(r, "editing") /\ UNCHANGED msg_task ELSE Finally(r)
    /\ UNCHANGED <<mine, future, stdin_input, expired, modal, submitted>>

\* "Input not provided."  Whether or not the edit raises, the finally clause runs.
Edited(r) ==
    /\ at[r] = "editing"
    /\ \E out \in Outcomes :
          /\ prompt' = IF Reaches(out) THEN [prompt EXCEPT ![r] = "not_provided"] ELSE prompt
          /\ Fault(r, out # "ok")
    /\ Finally(r)
    /\ UNCHANGED <<author, prompt_msg, future, stdin_input, expired, modal, submitted>>

\* The deletion of the prompt; exceptions are suppressed.
Cleaned(r) ==
    /\ at[r] = "cleaning"
    /\ \E out \in Outcomes :
          /\ prompt' = IF Reaches(out) THEN [prompt EXCEPT ![r] = "deleted"] ELSE prompt
          /\ Fault(r, out # "ok")
    /\ Go(r, IF expired[r] THEN "ended" ELSE "proceeding")
    /\ UNCHANGED <<author, prompt_msg, race>>

--------------------------------------------------------------------------------
\* The request's own task.
Step(r) ==
    \/ Prompted(r)
    \/ Answered(r)
    \/ TimedOut(r)
    \/ Edited(r)
    \/ Cleaned(r)

Listener(r) == ListenerStarts(r) \/ ListenerWakes(r) \/ ListenerTimesOut(r)

Interaction(r, u) == Press(r, u) \/ Submit(r, u) \/ Acknowledged(r, u)

Next ==
    \/ \E u \in Users : Chat(u)
    \/ \E r \in Requests, u \in Users : Interaction(r, u)
    \/ \E r \in Requests : Shown(r) \/ Step(r) \/ Listener(r) \/ Timeout(r)

Spec == Init /\ [][Next]_vars

\* The loop runs what is ready, Discord's calls return or raise, timers fire.  Nobody has
\* to answer.
FairSpec ==
    /\ Spec
    /\ \A r \in Requests : WF_vars(Step(r)) /\ WF_vars(Timeout(r))

--------------------------------------------------------------------------------
\* Type invariant of the prompts.
TypeOK ==
    /\ at \in [Requests -> {"idle", "prompting", "waiting", "editing", "cleaning"} \cup Over]
    /\ author \in [Requests -> Users]
    /\ prompt \in [Requests -> {"none", "asking", "not_provided", "deleted"}]
    /\ prompt_msg \in [Requests -> BOOLEAN]
    /\ future \in [Requests -> {"pending", "set", "cancelled"}]
    /\ stdin_input \in [Requests -> Users \cup {NoUser}]
    /\ expired \in [Requests -> BOOLEAN]
    /\ msg_task \in [Requests -> {"none", "created", "listening", "matched", "done", "cancelled"}]
    /\ modal \in [Requests -> SUBSET Users]
    /\ submitted \in [Requests -> SUBSET Users]
    /\ faulty \in [Requests -> BOOLEAN]

\* Code goes on to be run on input that its own author gave in time, and then only; a
\* user who is told "Execution cancelled" does not find it executed.
RunsOnItsInput ==
    \A r \in Requests :
        /\ at[r] = "proceeding" =>
              stdin_input[r] = author[r] /\ ~expired[r] /\ prompt[r] # "not_provided"
        /\ at[r] = "ended" /\ ~faulty[r] => expired[r]

\* When the request is over, nobody listens to the author any more and no prompt is left
\* asking, unless a call failed.
LeavesNothing ==
    \A r \in Requests : at[r] \in Over =>
        /\ msg_task[r] \in {"none", "done", "cancelled"}
        /\ ~faulty[r] => prompt[r] = IF future[r] = "set" THEN "deleted" ELSE "not_provided"

\* Every prompt ends, whether or not anybody answers.
PromptEnds == \A r \in Requests : at[r] # "idle" ~> at[r] \in Over
================================================================================
