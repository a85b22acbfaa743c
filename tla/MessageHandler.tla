----------------------------- MODULE MessageHandler -----------------------------
(***************************************************************************)
(* app/bot/message_handler: the pipeline that a code message or a /code    *)
(* command runs through, several requests at a time, composed with the     *)
(* concurrency guard that they share.                                      *)
(*                                                                         *)
(* A step is what one request's task does between two awaits.  Every call  *)
(* of Discord, of the webhook, of pip and of the executor is an await that *)
(* can fail; the limiter's answer, the executor's result and the time that *)
(* anything takes are left open (RateLimiter and SubprocessExecutor are    *)
(* modules of their own).                                                  *)
(***************************************************************************)
EXTENDS Integers, FiniteSets, Sequences

CONSTANTS
    Requests,                   \* the requests; each is handled once
    MaxConcurrent, MaxQueue,    \* the guard's
    Configurations              \* the configurations that the bot may be started with

\* Those that Settings.validate accepts.
Settings ==
    {s \in [mode : {"bot", "webhook", "both"}, webhook : BOOLEAN, llm : BOOLEAN] :
        s.mode \in {"webhook", "both"} => s.webhook}

ASSUME HandlerAssumption ==
    /\ IsFiniteSet(Requests)
    /\ MaxConcurrent \in Nat \ {0}
    /\ MaxQueue \in Nat
    /\ Configurations \subseteq Settings

VARIABLES
    settings,       \* OUTPUT_MODE and which services have a URL or a key; fixed
    at,             \* the await that a request is suspended in, or how it ended
    slash,          \* it came from /code: the message is a MockMessage
    msg,            \* the notice or result to deliver
    status,         \* the status message, as the channel shows it
    told,           \* the answers that reached the channel
    posted,         \* what reached the webhook
    runs,           \* how often its code was executed
    description,    \* the background task that describes the code
    faulty,         \* a Discord call or the executor failed
    slot, in_flight, value, waiters, fut        \* the guard's

Guard == INSTANCE ConcurrencyGuard WITH Tasks <- Requests, pc <- slot

slotVars    == <<slot, in_flight, value, waiters, fut>>
channelVars == <<status, told, faulty>>
workVars    == <<runs, description>>
vars == <<settings, at, slash, msg, channelVars, posted, workVars, slotVars>>

Over == {"ended", "crashed", "cancelled"}

\* The results of an execution, by what _send_channel does with them: a long one never
\* carries a file_text.  A syntax error's does.
Results == {"text", "images", "long"}
Syntax  == {"syntax", "long_syntax"}
Notices == {"too_long", "rate_limited"}

\* How a Discord call ends: HTTPException, another exception before or after Discord
\* acted on the call.
Outcomes     == {"ok", "http", "error", "lost"}
Reaches(out) == out \in {"ok", "lost"}
Raises(out)  == out \in {"error", "lost"}

Tell(r, what, out) ==
    /\ told' = IF Reaches(out) THEN [told EXCEPT ![r] = @ \cup {what}] ELSE told
    /\ faulty' = [faulty EXCEPT ![r] = @ \/ out # "ok"]

Go(r, place) == at' = [at EXCEPT ![r] = place]

\* handle() logs an exception and returns.
Finish(r, raised) == Go(r, IF raised THEN "crashed" ELSE "ended")

--------------------------------------------------------------------------------
(* _deliver_result *)

WantBot     == settings.mode \in {"bot", "both"}
WantWebhook == settings.mode \in {"webhook", "both"}

\* Mutant of Route: the LLM is not asked about.
RouteIgnoringLLM == IF WantWebhook /\ settings.webhook THEN "posting" ELSE "sending"

\* Where a delivery starts.
Route == IF ~settings.llm /\ WantWebhook /\ settings.webhook THEN "posting" ELSE "sending"

\* Mutant of Post: no fallback to the channel.
PostOnly(r) ==
    /\ at[r] = "posting"
    /\ \E delivered \in BOOLEAN :
          /\ Go(r, IF WantBot THEN "sending" ELSE "ended")
          /\ \/ posted' = [posted EXCEPT ![r] = @ \cup {"result"}]
             \/ ~delivered /\ UNCHANGED posted
    /\ UNCHANGED <<settings, slash, msg, channelVars, workVars, slotVars>>

\* webhook.send never raises; a failed one may have been delivered.
Post(r) ==
    /\ at[r] = "posting"
    /\ \E delivered \in BOOLEAN :
          /\ Go(r, IF WantBot \/ ~delivered THEN "sending" ELSE "ended")
          /\ \/ posted' = [posted EXCEPT ![r] = @ \cup {"result"}]
             \/ ~delivered /\ UNCHANGED posted
    /\ UNCHANGED <<settings, slash, msg, channelVars, workVars, slotVars>>

\* With images the status message makes room for a reply; a failure is suppressed.
DeleteStatus(r) ==
    /\ at[r] = "sending"
    /\ msg[r] = "images" /\ status[r] = "thinking"
    /\ \/ status' = [status EXCEPT ![r] = "deleted"] /\ UNCHANGED faulty
       \/ faulty' = [faulty EXCEPT ![r] = TRUE] /\ UNCHANGED status
    /\ Go(r, "attaching")
    /\ UNCHANGED <<settings, slash, msg, told, posted, workVars, slotVars>>

\* Mutant of Send: always a reply.
SendReplies(r) ==
    /\ \/ at[r] = "sending" /\ ~(msg[r] = "images" /\ status[r] = "thinking")
       \/ at[r] = "attaching"
    /\ \E out \in Outcomes :
          /\ Tell(r, CASE msg[r] = "long" -> "no_file"
                       [] msg[r] = "long_syntax" -> "file"
                       [] OTHER -> msg[r], out)
          /\ Finish(r, Raises(out))
    /\ UNCHANGED <<settings, slash, msg, status, posted, workVars, slotVars>>

\* _send_channel: the status message is edited, or the message is replied to.
Send(r) ==
    /\ \/ at[r] = "sending" /\ ~(msg[r] = "images" /\ status[r] = "thinking")
       \/ at[r] = "attaching"
    /\ \E out \in Outcomes :
          /\ Tell(r, CASE msg[r] = "long" -> "no_file"
                       [] msg[r] = "long_syntax" -> "file"
                       [] OTHER -> msg[r], out)
          /\ Finish(r, Raises(out))
          /\ status' = IF at[r] = "sending" /\ status[r] = "thinking" /\ Reaches(out)
                       THEN [status EXCEPT ![r] = "edited"] ELSE status
    /\ UNCHANGED <<settings, slash, msg, posted, workVars, slotVars>>

--------------------------------------------------------------------------------
(* _process *)

Init ==
    /\ settings \in Configurations
    /\ at = [r \in Requests |-> "idle"]
    /\ slash = [r \in Requests |-> FALSE]
    /\ msg = [r \in Requests |-> "none"]
    /\ status = [r \in Requests |-> "none"]
    /\ told = [r \in Requests |-> {}]
    /\ posted = [r \in Requests |-> {}]
    /\ runs = [r \in Requests |-> 0]
    /\ description = [r \in Requests |-> "none"]
    /\ faulty = [r \in Requests |-> FALSE]
    /\ Guard!Init

\* The part before the status message is done.  A MockMessage has no attribute `guild`,
\* so a slash command ends here with an AttributeError.
Proceed(r, mock) == Go(r, IF mock THEN "crashed" ELSE "announcing")

\* What the gates may say: length, rate limit, syntax.  Their blocklists are empty, so
\* nothing is blocked.  "unanalysable" is code on which one of the three analyses raises
\* (RecursionError on a deeply nested expression, say): they catch SyntaxError only.
Verdicts == {"empty", "ok", "unanalysable"} \cup Notices \cup Syntax

\* The gates, then what the code needs before it runs.  Only empty code is ignored.  Two of
\* the analyses come before pip's await, requires_input after it.
Begin(r) ==
    /\ at[r] = "idle"
    /\ \E mock \in BOOLEAN, verdict \in Verdicts :
          /\ slash' = [slash EXCEPT ![r] = mock]
          /\ msg' = [msg EXCEPT ![r] = verdict]
          /\ \/ verdict = "empty" /\ Go(r, "ended")
             \/ verdict \in Notices /\ Go(r, "notice")
             \/ verdict \in Syntax /\ Go(r, Route)
             \/ verdict = "unanalysable" /\ (Go(r, "crashed") \/ Go(r, "installing"))
             \/ verdict = "ok" /\ (Go(r, "installing") \/ Go(r, "prompting") \/ Proceed(r, mock))
    /\ UNCHANGED <<settings, channelVars, posted, workVars, slotVars>>

\* A control notice: a reply in the channel, whatever OUTPUT_MODE is.
Notice(r) ==
    /\ at[r] = "notice"
    /\ \E out \in Outcomes : Tell(r, msg[r], out) /\ Finish(r, Raises(out))
    /\ UNCHANGED <<settings, slash, msg, status, posted, workVars, slotVars>>

\* pip is done, has failed, or has had 60 seconds: the request goes on in any case, unless
\* requires_input raises.
Installed(r) ==
    /\ at[r] = "installing"
    /\ \/ msg[r] = "ok" /\ (Go(r, "prompting") \/ Proceed(r, slash[r]))
       \/ msg[r] = "unanalysable" /\ Go(r, "crashed")
    /\ UNCHANGED <<settings, slash, msg, channelVars, posted, workVars, slotVars>>

Prompt(r) ==
    /\ at[r] = "prompting"
    /\ \E out \in Outcomes :
          /\ IF Raises(out) THEN Go(r, "crashed") ELSE Go(r, "awaiting_input")
          /\ faulty' = [faulty EXCEPT ![r] = out # "ok"]
    /\ UNCHANGED <<settings, slash, msg, status, told, posted, workVars, slotVars>>

InputGiven(r) ==
    /\ at[r] = "awaiting_input"
    /\ Proceed(r, slash[r])
    /\ UNCHANGED <<settings, slash, msg, channelVars, posted, workVars, slotVars>>

\* 20 seconds without input: the prompt is edited.  A prompt that could not be sent (the
\* only call that can have failed so far) is None, and nothing is said.
InputMissing(r) ==
    /\ at[r] = "awaiting_input"
    /\ IF faulty[r]
       THEN Go(r, "ended") /\ UNCHANGED <<told, faulty>>
       ELSE \E out \in Outcomes : Tell(r, "input_missing", out) /\ Finish(r, out # "ok")
    /\ UNCHANGED <<settings, slash, msg, status, posted, workVars, slotVars>>

\* A slot is there: the description is started in the background, execute() begins.
StartRun(r) ==
    /\ Go(r, "executing")
    /\ runs' = [runs EXCEPT ![r] = @ + 1]
    /\ description' = IF settings.llm /\ settings.webhook
                      THEN [description EXCEPT ![r] = "pending"] ELSE description

\* Mutant of Announce: the description is started before the slot is there.
AnnounceAndDescribe(r) ==
    /\ at[r] = "announcing"
    /\ \E out \in Outcomes :
          /\ status' = IF Reaches(out) THEN [status EXCEPT ![r] = "thinking"] ELSE status
          /\ faulty' = [faulty EXCEPT ![r] = @ \/ out # "ok"]
          /\ \/ Raises(out) /\ Go(r, "crashed") /\ UNCHANGED <<workVars, slotVars>>
             \/ ~Raises(out) /\ Guard!AcquireNow(r) /\ StartRun(r)
             \/ /\ ~Raises(out)
                /\ \/ Guard!AcquireWait(r) /\ Go(r, "queued")
                   \/ Guard!AcquireRefused(r) /\ Go(r, "busy")
                /\ description' = [description EXCEPT ![r] = "pending"]
                /\ UNCHANGED runs
    /\ UNCHANGED <<settings, slash, msg, told, posted>>

\* The status message and, in the same turn of the loop, guard.acquire().
Announce(r) ==
    /\ at[r] = "announcing"
    /\ \E out \in Outcomes :
          /\ status' = IF Reaches(out) THEN [status EXCEPT ![r] = "thinking"] ELSE status
          /\ faulty' = [faulty EXCEPT ![r] = @ \/ out # "ok"]
          /\ \/ Raises(out) /\ Go(r, "crashed") /\ UNCHANGED <<workVars, slotVars>>
             \/ ~Raises(out) /\ Guard!AcquireNow(r) /\ StartRun(r)
             \/ ~Raises(out) /\ Guard!AcquireWait(r) /\ Go(r, "queued") /\ UNCHANGED workVars
             \/ ~Raises(out) /\ Guard!AcquireRefused(r) /\ Go(r, "busy") /\ UNCHANGED workVars
    /\ UNCHANGED <<settings, slash, msg, told, posted>>

Dequeue(r) ==
    /\ at[r] = "queued"
    /\ Guard!Resume(r)
    /\ StartRun(r)
    /\ UNCHANGED <<settings, slash, msg, channelVars, posted>>

\* Mutant of Busy: always a reply.
BusyReplies(r) ==
    /\ at[r] = "busy"
    /\ \E out \in Outcomes : Tell(r, "busy", out) /\ Finish(r, Raises(out))
    /\ UNCHANGED <<settings, slash, msg, status, posted, workVars, slotVars>>

\* "Busy": edit() raises what _reply would have caught.
Busy(r) ==
    /\ at[r] = "busy"
    /\ \E out \in Outcomes :
          /\ Tell(r, "busy", out)
          /\ Finish(r, Raises(out) \/ (status[r] = "thinking" /\ out # "ok"))
          /\ status' = IF status[r] = "thinking" /\ Reaches(out)
                       THEN [status EXCEPT ![r] = "edited"] ELSE status
    /\ UNCHANGED <<settings, slash, msg, posted, workVars, slotVars>>

\* Mutant of ExecuteReturns: the slot is kept.
ExecuteReturnsHolding(r) ==
    /\ at[r] = "executing"
    /\ \E result \in Results : msg' = [msg EXCEPT ![r] = result]
    /\ Go(r, Route)
    /\ UNCHANGED <<settings, slash, channelVars, posted, workVars, slotVars>>

\* execute() returns, the slot is released, the result is formatted and routed.
ExecuteReturns(r) ==
    /\ at[r] = "executing"
    /\ Guard!Release(r)
    /\ \E result \in Results : msg' = [msg EXCEPT ![r] = result]
    /\ Go(r, Route)
    /\ UNCHANGED <<settings, slash, channelVars, posted, workVars>>

\* Mutant of ExecuteRaises: release() after the call, not in a finally clause.
ExecuteRaisesHolding(r) ==
    /\ at[r] = "executing"
    /\ Go(r, "crashed")
    /\ faulty' = [faulty EXCEPT ![r] = TRUE]
    /\ UNCHANGED <<settings, slash, msg, status, told, posted, workVars, slotVars>>

ExecuteRaises(r) ==
    /\ at[r] = "executing"
    /\ Guard!Release(r)
    /\ Go(r, "crashed")
    /\ faulty' = [faulty EXCEPT ![r] = TRUE]
    /\ UNCHANGED <<settings, slash, msg, status, told, posted, workVars>>

\* fetch_and_send_description: to the webhook, if it gets through.
Describe(r) ==
    /\ description[r] = "pending"
    /\ description' = [description EXCEPT ![r] = "done"]
    /\ posted' \in {posted, [posted EXCEPT ![r] = @ \cup {"description"}]}
    /\ UNCHANGED <<settings, at, slash, msg, channelVars, runs, slotVars>>

\* Shutdown cancels a task in whatever await it is; a queued one unwinds when it runs.
Cancel(r) ==
    /\ at[r] \notin {"idle"} \cup Over
    /\ \/ at[r] = "executing" /\ Guard!Release(r) /\ Go(r, "cancelled")
       \/ at[r] = "queued" /\ Guard!Cancel(r) /\ UNCHANGED at
       \/ at[r] \notin {"executing", "queued"} /\ Go(r, "cancelled") /\ UNCHANGED slotVars
    /\ UNCHANGED <<settings, slash, msg, channelVars, posted, workVars>>

Unwind(r) ==
    /\ at[r] = "queued"
    /\ Guard!ResumeCancelled(r)
    /\ Go(r, "cancelled")
    /\ UNCHANGED <<settings, slash, msg, channelVars, posted, workVars>>

\* What the request's task does when the await it is suspended in completes.
Step(r) ==
    \/ Notice(r)
    \/ Installed(r)
    \/ Prompt(r)
    \/ InputGiven(r)
    \/ InputMissing(r)
    \/ Announce(r)
    \/ Dequeue(r)
    \/ Unwind(r)
    \/ Busy(r)
    \/ ExecuteReturns(r)
    \/ ExecuteRaises(r)
    \/ Post(r)
    \/ DeleteStatus(r)
    \/ Send(r)

Next == \E r \in Requests : Begin(r) \/ Step(r) \/ Describe(r) \/ Cancel(r)

Spec == Init /\ [][Next]_vars

\* Every await completes: Discord calls return or raise, pip, the prompt and the webhook
\* have timeouts, and execute() returns (SubprocessExecutor, Returns: unless the program left
\* an image whose reading blocks, which is assumed not to happen here).
FairSpec == Spec /\ \A r \in Requests : WF_vars(Step(r))

--------------------------------------------------------------------------------
\* Type invariant of the requests (the guard has its own).
Places == {"idle", "notice", "installing", "prompting", "awaiting_input", "announcing",
           "queued", "busy", "executing", "posting", "sending", "attaching"} \cup Over
Answers == Notices \cup {"input_missing", "busy", "text", "images", "no_file", "syntax", "file"}

TypeOK ==
    /\ settings \in Settings
    /\ at \in [Requests -> Places]
    /\ slash \in [Requests -> BOOLEAN]
    /\ msg \in [Requests -> {"none"} \cup Verdicts \cup Results]
    /\ status \in [Requests -> {"none", "thinking", "edited", "deleted"}]
    /\ told \in [Requests -> SUBSET Answers]
    /\ posted \in [Requests -> SUBSET {"result", "description"}]
    /\ runs \in [Requests -> Nat]
    /\ description \in [Requests -> {"none", "pending", "done"}]
    /\ faulty \in [Requests -> BOOLEAN]
    /\ Guard!TypeOK

\* "Releasing the slot no matter what happens": a request owns a slot exactly while its
\* code is executed and a place in line exactly while it is queued, on every path - return,
\* exception, cancellation - and so in_flight counts the requests that are in there.
SlotsFollowRequests ==
    /\ \A r \in Requests :
          /\ slot[r] = "holding" <=> at[r] = "executing"
          /\ slot[r] = "waiting" <=> at[r] = "queued"
    /\ in_flight = Cardinality({r \in Requests : at[r] \in {"executing", "queued"}})

\* An answer is given once and is true: "busy" only to a request that never ran or will,
\* a result only for a run that returned, an execution and a description once.
AnswersHonest ==
    \A r \in Requests :
        /\ Cardinality(told[r]) <= 1
        /\ runs[r] <= 1
        /\ told[r] \cap {"busy", "rate_limited", "input_missing"} # {}
              => runs[r] = 0 /\ description[r] = "none"
        /\ told[r] \cap {"text", "images", "no_file"} # {} => runs[r] = 1

HasResult(r) == msg[r] \in Results \cup Syntax

\* Code for which nobody gets a reply: the parser's leftovers, and what no analysis gets
\* through, where handle() logs the exception and returns.
Unanswerable == {"empty", "unanalysable"}

\* "The user is never left without a reply", as far as it is so: the author of a message is
\* answered in the channel or, in webhook-only mode, on the webhook, unless a Discord call or
\* the executor failed, the code was unanswerable or it came from /code.
AnsweredUnlessFault ==
    \A r \in Requests :
        at[r] \in {"ended", "crashed"} /\ ~faulty[r] /\ msg[r] \notin Unanswerable /\ ~slash[r]
            => \/ told[r] # {}
               \/ HasResult(r) /\ settings.mode = "webhook" /\ "result" \in posted[r]

\* Where results go.  Without the LLM that is where OUTPUT_MODE says: none on the webhook in
\* bot mode, none missing from the channel in bot mode, and a failed webhook-only delivery
\* falls back to the channel.  With the LLM, OUTPUT_MODE is not looked at: no result is
\* posted, all are told in the channel, and the webhook gets descriptions of what ran.
ResultsRouted ==
    \A r \in Requests :
        /\ "result" \in posted[r] => WantWebhook /\ ~settings.llm
        /\ "description" \in posted[r] => settings.llm /\ runs[r] = 1
        /\ at[r] = "ended" /\ HasResult(r) /\ ~faulty[r] =>
              /\ WantBot \/ settings.llm => told[r] # {}
              /\ told[r] = {} => "result" \in posted[r]

\* No request ends with "... is thinking" still in the channel, unless a call failed or
\* its result went to the webhook alone, which leaves the message as it is.
ThinkingResolved ==
    \A r \in Requests :
        at[r] \in {"ended", "crashed"} /\ status[r] = "thinking" /\ ~faulty[r]
            => settings.mode = "webhook" /\ ~settings.llm /\ "result" \in posted[r]

\* Every request ends, whoever is queued before it and whatever fails.
Finishes == \A r \in Requests : at[r] # "idle" ~> at[r] \in Over

\* The pipeline uses the guard as the guard assumes: whoever gets a slot releases it.
UsesGuardFairly == Guard!FairSpec

\* The handler's docstring: "the user is never left without a reply" - here of code that
\* got through the analyses.
NeverWithoutReply ==
    \A r \in Requests :
        at[r] \in {"ended", "crashed"} /\ ~faulty[r] /\ msg[r] \notin Unanswerable
            => told[r] # {} \/ posted[r] # {}

\* README: "Results longer than Discord's 2000-character message limit are delivered as a
\* .txt attachment automatically."
LongOutputAttached ==
    \A r \in Requests :
        msg[r] = "long" /\ at[r] = "ended" /\ ~faulty[r] /\ told[r] # {} => "file" \in told[r]
================================================================================
