-------------------------- MODULE MessageHandlerProofs --------------------------
(***************************************************************************)
(* Theorems about the pipeline, for every set of requests, every size of   *)
(* the guard and every configuration.                                      *)
(***************************************************************************)
EXTENDS MessageHandler, FiniteSetTheorems, TLAPS

\* The guard again, with its theorems.
GuardFacts == INSTANCE ConcurrencyGuardProofs WITH Tasks <- Requests, pc <- slot

--------------------------------------------------------------------------------
(* The pipeline and the guard *)

\* A step of the pipeline is one operation of the guard by one request, or none.
GuardStep ==
    \E r \in Requests :
        \/ Guard!AcquireRefused(r)
        \/ Guard!AcquireNow(r)
        \/ Guard!AcquireWait(r)
        \/ Guard!Resume(r)
        \/ Guard!Cancel(r)
        \/ Guard!ResumeCancelled(r)
        \/ Guard!Release(r)

LEMMA StepsOfTheGuard == [Next]_vars => GuardStep \/ UNCHANGED slotVars
<1> SUFFICES ASSUME [Next]_vars, ~UNCHANGED slotVars PROVE GuardStep
    OBVIOUS
<1>1. PICK r \in Requests : Begin(r) \/ Step(r) \/ Describe(r) \/ Cancel(r)
    BY DEF Next, vars, slotVars
<1>2. Announce(r) \/ Dequeue(r) \/ Unwind(r) \/ ExecuteReturns(r) \/ ExecuteRaises(r) \/ Cancel(r)
    BY <1>1 DEF Step, Begin, Describe, Notice, Installed, Prompt, InputGiven, InputMissing, Busy,
                Post, DeleteStatus, Send, slotVars
<1>3. CASE Announce(r)
    BY <1>3 DEF Announce, GuardStep, slotVars
<1>4. CASE Dequeue(r) \/ Unwind(r) \/ ExecuteReturns(r) \/ ExecuteRaises(r)
    BY <1>4 DEF Dequeue, Unwind, ExecuteReturns, ExecuteRaises, GuardStep
<1>5. CASE Cancel(r)
    BY <1>5 DEF Cancel, GuardStep, slotVars
<1> QED BY <1>2, <1>3, <1>4, <1>5

\* The pipeline makes no other use of the guard than the guard's own specification
\* allows, so what is proved of the guard holds of the guard in the pipeline.
THEOREM PipelineUsesGuard == Spec => Guard!Spec
<1>1. Init => Guard!Init
    BY DEF Init
<1>2. [Next]_vars => [Guard!Next]_(Guard!guardVars)
    BY StepsOfTheGuard DEF GuardStep, Guard!Next, Guard!guardVars, slotVars
<1> QED BY <1>1, <1>2, PTL DEF Spec, Guard!Spec

LEMMA SameGuard == Guard!Spec => GuardFacts!Spec
<1>1. Guard!Init => GuardFacts!Init
    BY DEF Guard!Init, GuardFacts!Init
<1>2. [Guard!Next]_(Guard!guardVars) => [GuardFacts!Next]_(GuardFacts!guardVars)
    <2> USE DEF Guard!Outside, Guard!IsFull, Guard!Capacity, Guard!Locked, Guard!semVars, Guard!WakeUpNext,
                Guard!FirstPending, Guard!Rest, Guard!RemoveAt, Guard!Position, Guard!Forgotten,
                GuardFacts!Outside, GuardFacts!IsFull, GuardFacts!Capacity, GuardFacts!Locked,
                GuardFacts!semVars, GuardFacts!WakeUpNext, GuardFacts!FirstPending, GuardFacts!Rest,
                GuardFacts!RemoveAt, GuardFacts!Position, GuardFacts!Forgotten
    <2>1. ASSUME NEW r \in Requests
          PROVE  /\ Guard!AcquireRefused(r) => GuardFacts!AcquireRefused(r)
                 /\ Guard!AcquireNow(r) => GuardFacts!AcquireNow(r)
                 /\ Guard!AcquireWait(r) => GuardFacts!AcquireWait(r)
                 /\ Guard!Resume(r) => GuardFacts!Resume(r)
                 /\ Guard!Cancel(r) => GuardFacts!Cancel(r)
                 /\ Guard!ResumeCancelled(r) => GuardFacts!ResumeCancelled(r)
                 /\ Guard!Release(r) => GuardFacts!Release(r)
        <3>1. Guard!AcquireRefused(r) => GuardFacts!AcquireRefused(r)
            BY DEF Guard!AcquireRefused, GuardFacts!AcquireRefused
        <3>2. Guard!AcquireNow(r) => GuardFacts!AcquireNow(r)
            BY DEF Guard!AcquireNow, GuardFacts!AcquireNow
        <3>3. Guard!AcquireWait(r) => GuardFacts!AcquireWait(r)
            BY DEF Guard!AcquireWait, GuardFacts!AcquireWait
        <3>4. Guard!Resume(r) => GuardFacts!Resume(r)
            BY DEF Guard!Resume, GuardFacts!Resume
        <3>5. Guard!Cancel(r) => GuardFacts!Cancel(r)
            BY DEF Guard!Cancel, GuardFacts!Cancel
        <3>6. Guard!ResumeCancelled(r) => GuardFacts!ResumeCancelled(r)
            BY DEF Guard!ResumeCancelled, GuardFacts!ResumeCancelled
        <3>7. Guard!Release(r) => GuardFacts!Release(r)
            BY DEF Guard!Release, GuardFacts!Release
        <3> QED BY <3>1, <3>2, <3>3, <3>4, <3>5, <3>6, <3>7
    <2> QED BY <2>1 DEF Guard!Next, GuardFacts!Next, Guard!guardVars, GuardFacts!guardVars
<1> QED BY <1>1, <1>2, PTL DEF Guard!Spec, GuardFacts!Spec

\* The guard's assumption about its constants follows from the pipeline's.
LEMMA GuardAssumed == GuardFacts!GuardAssumption
BY HandlerAssumption DEF GuardFacts!GuardAssumption, GuardFacts!IsFiniteSet, IsFiniteSet

LEMMA GuardHolds == Spec => [](Guard!TypeOK /\ Guard!SlotConservation /\ Guard!InFlightExact)
<1>1. Spec => GuardFacts!Spec
    BY PipelineUsesGuard, SameGuard
<1>2. GuardFacts!TypeOK /\ GuardFacts!SlotConservation /\ GuardFacts!InFlightExact =>
          Guard!TypeOK /\ Guard!SlotConservation /\ Guard!InFlightExact
    BY DEF GuardFacts!TypeOK, GuardFacts!SlotConservation, GuardFacts!InFlightExact,
           Guard!TypeOK, Guard!SlotConservation, Guard!InFlightExact,
           GuardFacts!Holding, GuardFacts!Waiting, GuardFacts!Granted,
           Guard!Holding, Guard!Waiting, Guard!Granted,
           GuardFacts!Places, GuardFacts!Futures, Guard!Places, Guard!Futures,
           Guard!Cardinality, GuardFacts!Cardinality
<1>3. GuardFacts!Spec => []GuardFacts!TypeOK
    BY GuardFacts!GuardTypeCorrect, GuardAssumed, PTL
<1>4. GuardFacts!Spec => []GuardFacts!SlotConservation
    BY GuardFacts!SlotsConserved, GuardAssumed, PTL
<1>5. GuardFacts!Spec => []GuardFacts!InFlightExact
    BY GuardFacts!CounterExact, GuardAssumed, PTL
<1> QED BY <1>1, <1>2, <1>3, <1>4, <1>5, PTL

--------------------------------------------------------------------------------
(* One request *)

Types ==
    /\ settings \in Settings
    /\ at \in [Requests -> Places]
    /\ slash \in [Requests -> BOOLEAN]
    /\ msg \in [Requests -> {"none"} \cup Verdicts \cup Results]
    /\ status \in [Requests -> {"none", "thinking", "edited", "deleted"}]
    /\ told \in [Requests -> SUBSET Answers]
    /\ posted \in [Requests -> SUBSET {"result", "description"}]
    /\ runs \in [Requests -> Nat]
    /\ description \in [Requests -> {"none", "pending", "done"}]
    /\ faulty \in [Requests -> BOOLEAN]

\* The awaits before the code runs, the first of them before the status message.
Early      == {"idle", "notice", "installing", "prompting", "awaiting_input", "announcing"}
Before     == Early \cup {"queued", "busy"}
Delivering == {"posting", "sending", "attaching"}

\* The place of a request tells what has been run for it, and what there is to deliver.
RunInv(r) ==
    /\ runs[r] \in {0, 1}
    /\ at[r] \in Before => runs[r] = 0 /\ description[r] = "none"
    /\ at[r] = "executing" => runs[r] = 1
    /\ at[r] = "notice" => msg[r] \in Notices
    /\ at[r] = "installing" => msg[r] \in {"ok", "unanalysable"}
    /\ at[r] \in (Before \ {"idle", "notice", "installing"}) \cup {"executing"} => msg[r] = "ok"
    /\ at[r] \in Delivering => msg[r] \in Results \cup Syntax
    /\ msg[r] \in Results => runs[r] = 1
    /\ description[r] = "pending" => settings.llm /\ runs[r] = 1

\* Nothing is told before the end, and then one thing.
ToldInv(r) ==
    /\ at[r] \notin {"ended", "crashed"} => told[r] = {}
    /\ \/ told[r] = {}
       \/ \E answer \in Answers :
             /\ told[r] = {answer}
             /\ answer \in {"busy", "rate_limited", "input_missing"}
                   => runs[r] = 0 /\ description[r] = "none"
             /\ answer \in {"text", "images", "no_file"} => runs[r] = 1

\* What is posted, and when the status message stays.
PostedInv(r) ==
    /\ "result" \in posted[r] \/ at[r] = "posting" => WantWebhook /\ ~settings.llm
    /\ "description" \in posted[r] => settings.llm /\ runs[r] = 1
    /\ at[r] \in Early => status[r] = "none"
    /\ at[r] = "attaching" /\ ~faulty[r] => status[r] # "thinking"

\* How it ends.
EndInv(r) ==
    at[r] \in {"ended", "crashed"} /\ ~faulty[r] =>
        /\ msg[r] \notin Unanswerable /\ ~slash[r] =>
              told[r] # {} \/ (HasResult(r) /\ settings.mode = "webhook" /\ "result" \in posted[r])
        /\ at[r] = "ended" /\ HasResult(r) =>
              /\ WantBot \/ settings.llm => told[r] # {}
              /\ told[r] = {} => "result" \in posted[r]
        /\ status[r] = "thinking" =>
              settings.mode = "webhook" /\ ~settings.llm /\ "result" \in posted[r]

\* It waits for a slot, and owns one, just where it should.
SlotInv(r) ==
    /\ slot[r] = "holding" <=> at[r] = "executing"
    /\ slot[r] = "waiting" <=> at[r] = "queued"

RequestInv(r) == RunInv(r) /\ ToldInv(r) /\ PostedInv(r) /\ EndInv(r) /\ SlotInv(r)

HandlerInv == Types /\ \A r \in Requests : RequestInv(r)

\* What a step leaves alone of another request.
Same(q) ==
    /\ settings' = settings
    /\ at'[q] = at[q] /\ slash'[q] = slash[q] /\ msg'[q] = msg[q]
    /\ status'[q] = status[q] /\ told'[q] = told[q] /\ posted'[q] = posted[q]
    /\ runs'[q] = runs[q] /\ description'[q] = description[q] /\ faulty'[q] = faulty[q]
    /\ slot'[q] = slot[q]

LEMMA Frame ==
    ASSUME NEW q \in Requests, RequestInv(q), Same(q)
    PROVE  RequestInv(q)'
BY DEF RequestInv, Same, RunInv, ToldInv, PostedInv, EndInv, SlotInv, WantWebhook, WantBot, HasResult, Unanswerable

SlotTyped == slot \in [Requests -> Guard!Places]

LEMMA HandlerInit == Init => HandlerInv
<1> SUFFICES ASSUME Init PROVE HandlerInv
    OBVIOUS
<1>1. Types
    BY HandlerAssumption DEF Init, Types, Places
<1>2. ASSUME NEW r \in Requests PROVE RequestInv(r)
    BY <1>1, <1>2 DEF Init, Guard!Init, RequestInv, Types, Early, Before, Delivering, Syntax, WantBot, WantWebhook, HasResult, Unanswerable, RunInv, ToldInv, PostedInv, EndInv, SlotInv, Results
<1> QED BY <1>1, <1>2 DEF HandlerInv

--------------------------------------------------------------------------------
(* Steps of one request *)

\* What a call that tells the channel something leaves behind.
LEMMA Telling ==
    ASSUME NEW r \in Requests, Types, told[r] = {}, NEW what \in Answers, NEW out \in Outcomes,
           Tell(r, what, out)
    PROVE  /\ told' \in [Requests -> SUBSET Answers]
           /\ faulty' \in [Requests -> BOOLEAN]
           /\ told'[r] = IF Reaches(out) THEN {what} ELSE {}
           /\ faulty'[r] <=> (faulty[r] \/ out # "ok")
           /\ \A q \in Requests \ {r} : told'[q] = told[q] /\ faulty'[q] = faulty[q]
<1>1. told' \in [Requests -> SUBSET Answers] /\ told'[r] = (IF Reaches(out) THEN {what} ELSE {})
    BY DEF Types, Tell
<1>2. faulty[r] \in BOOLEAN /\ faulty' = [faulty EXCEPT ![r] = @ \/ out # "ok"]
    BY DEF Types, Tell
<1>3. (faulty[r] \/ out # "ok") \in BOOLEAN
    OBVIOUS
<1>4. faulty' \in [Requests -> BOOLEAN] /\ faulty'[r] = (faulty[r] \/ out # "ok")
    BY <1>2, <1>3, Zenon DEF Types
<1>5. \A q \in Requests \ {r} : told'[q] = told[q] /\ faulty'[q] = faulty[q]
    BY DEF Types, Tell
<1> QED BY <1>1, <1>4, <1>5

LEMMA BeginInv ==
    ASSUME NEW r \in Requests, Types, SlotTyped, RequestInv(r), Begin(r)
    PROVE  Types' /\ RequestInv(r)' /\ \A q \in Requests \ {r} : Same(q)
<1> USE DEF Begin, Proceed, Route, Go, Finish, Tell, Reaches, Raises, Outcomes,
            channelVars, workVars, slotVars
<1>1. \A q \in Requests \ {r} : Same(q)
    BY DEF Same, Types, SlotTyped
<1>2. Types'
    BY DEF Types, Places, Over, Verdicts, Notices, Syntax, Results, Answers
<1>3. RequestInv(r)'
    BY DEF Types, SlotTyped, RequestInv, RunInv, ToldInv, PostedInv, EndInv, SlotInv, Places, Over,
           Verdicts, Notices, Syntax, Results, Answers, Early, Before, Delivering, WantBot,
           WantWebhook, HasResult, Unanswerable, Guard!Places, Settings
<1> QED BY <1>1, <1>2, <1>3

LEMMA NoticeInv ==
    ASSUME NEW r \in Requests, Types, SlotTyped, RequestInv(r), Notice(r)
    PROVE  Types' /\ RequestInv(r)' /\ \A q \in Requests \ {r} : Same(q)
<1>1. PICK out \in Outcomes : Tell(r, msg[r], out) /\ Finish(r, Raises(out))
    BY DEF Notice
<1>2. /\ at[r] = "notice" /\ told[r] = {} /\ msg[r] \in Notices
      /\ UNCHANGED <<settings, slash, msg, status, posted, workVars, slotVars>>
    BY DEF Notice, RequestInv, RunInv, ToldInv
<1>3. /\ told' \in [Requests -> SUBSET Answers]
      /\ faulty' \in [Requests -> BOOLEAN]
      /\ told'[r] = IF Reaches(out) THEN {msg[r]} ELSE {}
      /\ faulty'[r] <=> (faulty[r] \/ out # "ok")
      /\ \A q \in Requests \ {r} : told'[q] = told[q] /\ faulty'[q] = faulty[q]
    <2>1. msg[r] \in Answers
        BY <1>2 DEF Answers, Notices
    <2> QED BY <1>1, <1>2, <2>1, Telling
<1> USE DEF Go, Finish, Reaches, Raises, Outcomes, channelVars, workVars, slotVars
<1>7. Types'
    BY <1>1, <1>2, <1>3 DEF Types, Places, Over
<1>8. RequestInv(r)'
    <2>1. RunInv(r)' /\ SlotInv(r)'
        BY <1>1, <1>2 DEF Types, SlotTyped, RequestInv, RunInv, ToldInv, PostedInv, EndInv, SlotInv, Places, Over,
               Verdicts, Notices, Syntax, Results, Answers, Early, Before, Delivering, WantBot,
               WantWebhook, HasResult, Unanswerable, Guard!Places, Settings
    <2>2. ToldInv(r)'
        BY <1>1, <1>2, <1>3 DEF Types, SlotTyped, RequestInv, RunInv, ToldInv, PostedInv, EndInv, SlotInv, Places, Over,
               Verdicts, Notices, Syntax, Results, Answers, Early, Before, Delivering, WantBot,
               WantWebhook, HasResult, Unanswerable, Guard!Places, Settings
    <2>3. PostedInv(r)'
        BY <1>1, <1>2, <1>3 DEF Types, SlotTyped, RequestInv, RunInv, ToldInv, PostedInv, EndInv, SlotInv, Places, Over,
               Verdicts, Notices, Syntax, Results, Answers, Early, Before, Delivering, WantBot,
               WantWebhook, HasResult, Unanswerable, Guard!Places, Settings
    <2>4. EndInv(r)'
        BY <1>1, <1>2, <1>3 DEF Types, SlotTyped, RequestInv, RunInv, ToldInv, PostedInv, EndInv, SlotInv, Places, Over,
               Verdicts, Notices, Syntax, Results, Answers, Early, Before, Delivering, WantBot,
               WantWebhook, HasResult, Unanswerable, Guard!Places, Settings
    <2> QED BY <2>1, <2>2, <2>3, <2>4 DEF RequestInv
<1>9. \A q \in Requests \ {r} : Same(q)
    BY <1>1, <1>2, <1>3 DEF Types, SlotTyped, Same
<1> QED BY <1>7, <1>8, <1>9

LEMMA InstalledInv ==
    ASSUME NEW r \in Requests, Types, SlotTyped, RequestInv(r), Installed(r)
    PROVE  Types' /\ RequestInv(r)' /\ \A q \in Requests \ {r} : Same(q)
<1> USE DEF Installed, Proceed, Go, Finish, Tell, Reaches, Raises, Outcomes,
            channelVars, workVars, slotVars
<1>1. \A q \in Requests \ {r} : Same(q)
    BY DEF Same, Types, SlotTyped
<1>2. Types'
    BY DEF Types, Places, Over, Verdicts, Notices, Syntax, Results, Answers
<1>3. RequestInv(r)'
    BY DEF Types, SlotTyped, RequestInv, RunInv, ToldInv, PostedInv, EndInv, SlotInv, Places, Over,
           Verdicts, Notices, Syntax, Results, Answers, Early, Before, Delivering, WantBot,
           WantWebhook, HasResult, Unanswerable, Guard!Places, Settings
<1> QED BY <1>1, <1>2, <1>3

LEMMA PromptInv ==
    ASSUME NEW r \in Requests, Types, SlotTyped, RequestInv(r), Prompt(r)
    PROVE  Types' /\ RequestInv(r)' /\ \A q \in Requests \ {r} : Same(q)
<1> USE DEF Prompt, Go, Finish, Tell, Reaches, Raises, Outcomes,
            channelVars, workVars, slotVars
<1>1. PICK out \in Outcomes :
          /\ IF Raises(out) THEN Go(r, "crashed") ELSE Go(r, "awaiting_input")
          /\ faulty' = [faulty EXCEPT ![r] = out # "ok"]
    BY DEF Prompt
<1>2. /\ faulty' \in [Requests -> BOOLEAN]
      /\ out # "ok" => faulty'[r]
    BY <1>1, Zenon DEF Types
<1>3. \A q \in Requests \ {r} : Same(q)
    BY DEF Same, Types, SlotTyped
<1>4. Types'
    BY <1>1, <1>2 DEF Types, Places, Over
<1>5. RequestInv(r)'
    BY <1>1, <1>2 DEF Types, SlotTyped, RequestInv, RunInv, ToldInv, PostedInv, EndInv, SlotInv, Places, Over,
               Verdicts, Notices, Syntax, Results, Answers, Early, Before, Delivering, WantBot,
               WantWebhook, HasResult, Unanswerable, Guard!Places, Settings
<1> QED BY <1>3, <1>4, <1>5

LEMMA InputGivenInv ==
    ASSUME NEW r \in Requests, Types, SlotTyped, RequestInv(r), InputGiven(r)
    PROVE  Types' /\ RequestInv(r)' /\ \A q \in Requests \ {r} : Same(q)
<1> USE DEF InputGiven, Proceed, Go, Finish, Tell, Reaches, Raises, Outcomes,
            channelVars, workVars, slotVars
<1>1. \A q \in Requests \ {r} : Same(q)
    BY DEF Same, Types, SlotTyped
<1>2. Types'
    BY DEF Types, Places, Over, Verdicts, Notices, Syntax, Results, Answers
<1>3. RequestInv(r)'
    BY DEF Types, SlotTyped, RequestInv, RunInv, ToldInv, PostedInv, EndInv, SlotInv, Places, Over,
           Verdicts, Notices, Syntax, Results, Answers, Early, Before, Delivering, WantBot,
           WantWebhook, HasResult, Unanswerable, Guard!Places, Settings
<1> QED BY <1>1, <1>2, <1>3

LEMMA InputMissingInv ==
    ASSUME NEW r \in Requests, Types, SlotTyped, RequestInv(r), InputMissing(r)
    PROVE  Types' /\ RequestInv(r)' /\ \A q \in Requests \ {r} : Same(q)
<1> USE DEF Go, Finish, Reaches, Raises, Outcomes, channelVars, workVars, slotVars
<1>1. /\ at[r] = "awaiting_input" /\ told[r] = {}
      /\ UNCHANGED <<settings, slash, msg, status, posted, workVars, slotVars>>
    BY DEF InputMissing, RequestInv, ToldInv
<1>2. PICK ended \in BOOLEAN : Finish(r, ended)
    BY DEF InputMissing
<1>3. /\ told' \in [Requests -> SUBSET Answers]
      /\ faulty' \in [Requests -> BOOLEAN]
      /\ told'[r] \in {{}, {"input_missing"}}
      /\ faulty'[r] \/ told'[r] = {"input_missing"}
      /\ \A q \in Requests \ {r} : told'[q] = told[q] /\ faulty'[q] = faulty[q]
    <2>1. CASE faulty[r]
        BY <2>1, <1>1 DEF InputMissing, Types
    <2>2. CASE ~faulty[r]
        <3>1. PICK out \in Outcomes : Tell(r, "input_missing", out)
            BY <2>2 DEF InputMissing
        <3> QED BY <3>1, <1>1, Telling DEF Answers
    <2> QED BY <2>1, <2>2
<1>7. Types'
    BY <1>1, <1>2, <1>3 DEF Types, Places, Over
<1>8. RequestInv(r)'
    <2>1. RunInv(r)' /\ SlotInv(r)'
        BY <1>1, <1>2 DEF Types, SlotTyped, RequestInv, RunInv, ToldInv, PostedInv, EndInv, SlotInv, Places, Over,
               Verdicts, Notices, Syntax, Results, Answers, Early, Before, Delivering, WantBot,
               WantWebhook, HasResult, Unanswerable, Guard!Places, Settings
    <2>2. ToldInv(r)'
        BY <1>1, <1>2, <1>3 DEF Types, SlotTyped, RequestInv, RunInv, ToldInv, PostedInv, EndInv, SlotInv, Places, Over,
               Verdicts, Notices, Syntax, Results, Answers, Early, Before, Delivering, WantBot,
               WantWebhook, HasResult, Unanswerable, Guard!Places, Settings
    <2>3. PostedInv(r)'
        BY <1>1, <1>2, <1>3 DEF Types, SlotTyped, RequestInv, RunInv, ToldInv, PostedInv, EndInv, SlotInv, Places, Over,
               Verdicts, Notices, Syntax, Results, Answers, Early, Before, Delivering, WantBot,
               WantWebhook, HasResult, Unanswerable, Guard!Places, Settings
    <2>4. EndInv(r)'
        BY <1>1, <1>2, <1>3 DEF Types, SlotTyped, RequestInv, RunInv, ToldInv, PostedInv, EndInv, SlotInv, Places, Over,
               Verdicts, Notices, Syntax, Results, Answers, Early, Before, Delivering, WantBot,
               WantWebhook, HasResult, Unanswerable, Guard!Places, Settings
    <2> QED BY <2>1, <2>2, <2>3, <2>4 DEF RequestInv
<1>9. \A q \in Requests \ {r} : Same(q)
    BY <1>1, <1>2, <1>3 DEF Types, SlotTyped, Same
<1> QED BY <1>7, <1>8, <1>9

LEMMA AnnounceInv ==
    ASSUME NEW r \in Requests, Types, SlotTyped, RequestInv(r), Announce(r)
    PROVE  Types' /\ RequestInv(r)' /\ \A q \in Requests \ {r} : Same(q)
<1> USE DEF Go, Reaches, Raises, Outcomes, channelVars, workVars, slotVars
<1>1. PICK out \in Outcomes :
          /\ status' = IF Reaches(out) THEN [status EXCEPT ![r] = "thinking"] ELSE status
          /\ faulty' = [faulty EXCEPT ![r] = @ \/ out # "ok"]
          /\ \/ Raises(out) /\ Go(r, "crashed") /\ UNCHANGED <<workVars, slotVars>>
             \/ ~Raises(out) /\ Guard!AcquireNow(r) /\ StartRun(r)
             \/ ~Raises(out) /\ Guard!AcquireWait(r) /\ Go(r, "queued") /\ UNCHANGED workVars
             \/ ~Raises(out) /\ Guard!AcquireRefused(r) /\ Go(r, "busy") /\ UNCHANGED workVars
    BY DEF Announce
<1>2. /\ at[r] = "announcing"
      /\ UNCHANGED <<settings, slash, msg, told, posted>>
    BY DEF Announce
<1>3. /\ faulty' \in [Requests -> BOOLEAN]
      /\ out # "ok" => faulty'[r]
      /\ \A q \in Requests \ {r} : faulty'[q] = faulty[q]
    BY <1>1, Zenon DEF Types
<1>4. /\ status' \in [Requests -> {"none", "thinking", "edited", "deleted"}]
      /\ \A q \in Requests \ {r} : status'[q] = status[q]
    BY <1>1 DEF Types
<1>5. /\ \/ at'[r] = "crashed" /\ out # "ok" /\ slot'[r] = slot[r]
            /\ UNCHANGED <<runs, description>>
         \/ at'[r] = "executing" /\ slot'[r] = "holding"
            /\ runs'[r] = runs[r] + 1 /\ (description'[r] = description[r] \/ settings.llm)
         \/ at'[r] = "queued" /\ slot'[r] = "waiting" /\ UNCHANGED <<runs, description>>
         \/ at'[r] = "busy" /\ slot'[r] = "refused" /\ UNCHANGED <<runs, description>>
      /\ at' \in [Requests -> Places] /\ runs' \in [Requests -> Nat]
      /\ description' \in [Requests -> {"none", "pending", "done"}]
      /\ \A q \in Requests \ {r} : /\ at'[q] = at[q] /\ runs'[q] = runs[q]
                                   /\ description'[q] = description[q] /\ slot'[q] = slot[q]
    <2>1. CASE Raises(out) /\ Go(r, "crashed") /\ UNCHANGED <<workVars, slotVars>>
        BY <2>1 DEF Types, SlotTyped, Places, Over
    <2>2. CASE ~Raises(out) /\ Guard!AcquireNow(r) /\ StartRun(r)
        <3>1. runs' \in [Requests -> Nat] /\ runs'[r] = runs[r] + 1
            BY <2>2 DEF StartRun, Types
        <3>2. /\ description' \in [Requests -> {"none", "pending", "done"}]
              /\ description'[r] = description[r] \/ settings.llm
              /\ \A q \in Requests \ {r} : description'[q] = description[q]
            BY <2>2 DEF StartRun, Types
        <3>3. at' \in [Requests -> Places] /\ at'[r] = "executing" /\ slot'[r] = "holding"
            BY <2>2 DEF StartRun, Types, SlotTyped, Places, Over, Guard!AcquireNow
        <3>4. \A q \in Requests \ {r} : at'[q] = at[q] /\ runs'[q] = runs[q] /\ slot'[q] = slot[q]
            BY <2>2 DEF StartRun, Types, SlotTyped, Guard!AcquireNow
        <3> QED BY <3>1, <3>2, <3>3, <3>4
    <2>3. CASE ~Raises(out) /\ Guard!AcquireWait(r) /\ Go(r, "queued") /\ UNCHANGED workVars
        BY <2>3 DEF Types, SlotTyped, Places, Over, Guard!AcquireWait
    <2>4. CASE ~Raises(out) /\ Guard!AcquireRefused(r) /\ Go(r, "busy") /\ UNCHANGED workVars
        BY <2>4 DEF Types, SlotTyped, Places, Over, Guard!AcquireRefused
    <2> QED BY <1>1, <2>1, <2>2, <2>3, <2>4
<1>7. Types'
    BY <1>2, <1>3, <1>4, <1>5 DEF Types, Places, Over
<1>8. RequestInv(r)'
    <2>1. RunInv(r)' /\ SlotInv(r)'
        BY <1>2, <1>5 DEF Types, SlotTyped, RequestInv, RunInv, ToldInv, PostedInv, EndInv, SlotInv, Places, Over,
               Verdicts, Notices, Syntax, Results, Answers, Early, Before, Delivering, WantBot,
               WantWebhook, HasResult, Unanswerable, Guard!Places, Settings
    <2>2. ToldInv(r)'
        BY <1>2, <1>3, <1>4, <1>5 DEF Types, SlotTyped, RequestInv, RunInv, ToldInv, PostedInv, EndInv, SlotInv, Places, Over,
               Verdicts, Notices, Syntax, Results, Answers, Early, Before, Delivering, WantBot,
               WantWebhook, HasResult, Unanswerable, Guard!Places, Settings
    <2>3. PostedInv(r)'
        BY <1>2, <1>3, <1>4, <1>5 DEF Types, SlotTyped, RequestInv, RunInv, ToldInv, PostedInv, EndInv, SlotInv, Places, Over,
               Verdicts, Notices, Syntax, Results, Answers, Early, Before, Delivering, WantBot,
               WantWebhook, HasResult, Unanswerable, Guard!Places, Settings
    <2>4. EndInv(r)'
        BY <1>2, <1>3, <1>4, <1>5 DEF Types, SlotTyped, RequestInv, RunInv, ToldInv, PostedInv, EndInv, SlotInv, Places, Over,
               Verdicts, Notices, Syntax, Results, Answers, Early, Before, Delivering, WantBot,
               WantWebhook, HasResult, Unanswerable, Guard!Places, Settings
    <2> QED BY <2>1, <2>2, <2>3, <2>4 DEF RequestInv
<1>9. \A q \in Requests \ {r} : Same(q)
    BY <1>2, <1>3, <1>4, <1>5 DEF Types, SlotTyped, Same
<1> QED BY <1>7, <1>8, <1>9

LEMMA DequeueInv ==
    ASSUME NEW r \in Requests, Types, SlotTyped, RequestInv(r), Dequeue(r)
    PROVE  Types' /\ RequestInv(r)' /\ \A q \in Requests \ {r} : Same(q)
<1> USE DEF Dequeue, StartRun, Guard!Resume, Go, Finish, Tell, Reaches, Raises, Outcomes,
            channelVars, workVars, slotVars
<1>1. \A q \in Requests \ {r} : Same(q)
    BY DEF Same, Types, SlotTyped
<1>2. Types'
    BY DEF Types, Places, Over, Verdicts, Notices, Syntax, Results, Answers
<1>3. RequestInv(r)'
    BY DEF Types, SlotTyped, RequestInv, RunInv, ToldInv, PostedInv, EndInv, SlotInv, Places, Over,
           Verdicts, Notices, Syntax, Results, Answers, Early, Before, Delivering, WantBot,
           WantWebhook, HasResult, Unanswerable, Guard!Places, Settings
<1> QED BY <1>1, <1>2, <1>3

LEMMA UnwindInv ==
    ASSUME NEW r \in Requests, Types, SlotTyped, RequestInv(r), Unwind(r)
    PROVE  Types' /\ RequestInv(r)' /\ \A q \in Requests \ {r} : Same(q)
<1> USE DEF Unwind, Guard!ResumeCancelled, Go, Finish, Tell, Reaches, Raises, Outcomes,
            channelVars, workVars, slotVars
<1>1. \A q \in Requests \ {r} : Same(q)
    BY DEF Same, Types, SlotTyped
<1>2. Types'
    BY DEF Types, Places, Over, Verdicts, Notices, Syntax, Results, Answers
<1>3. RequestInv(r)'
    BY DEF Types, SlotTyped, RequestInv, RunInv, ToldInv, PostedInv, EndInv, SlotInv, Places, Over,
           Verdicts, Notices, Syntax, Results, Answers, Early, Before, Delivering, WantBot,
           WantWebhook, HasResult, Unanswerable, Guard!Places, Settings
<1> QED BY <1>1, <1>2, <1>3

LEMMA BusyInv ==
    ASSUME NEW r \in Requests, Types, SlotTyped, RequestInv(r), Busy(r)
    PROVE  Types' /\ RequestInv(r)' /\ \A q \in Requests \ {r} : Same(q)
<1>1. PICK out \in Outcomes :
          /\ Tell(r, "busy", out)
          /\ Finish(r, Raises(out) \/ (status[r] = "thinking" /\ out # "ok"))
          /\ status' = IF status[r] = "thinking" /\ Reaches(out)
                       THEN [status EXCEPT ![r] = "edited"] ELSE status
    BY DEF Busy
<1>2. /\ at[r] = "busy" /\ told[r] = {}
      /\ UNCHANGED <<settings, slash, msg, posted, workVars, slotVars>>
    BY DEF Busy, RequestInv, ToldInv
<1>3. /\ told' \in [Requests -> SUBSET Answers]
      /\ faulty' \in [Requests -> BOOLEAN]
      /\ told'[r] = IF Reaches(out) THEN {"busy"} ELSE {}
      /\ faulty'[r] <=> (faulty[r] \/ out # "ok")
      /\ \A q \in Requests \ {r} : told'[q] = told[q] /\ faulty'[q] = faulty[q]
    <2>1. "busy" \in Answers
        BY <1>2 DEF Answers, Notices
    <2> QED BY <1>1, <1>2, <2>1, Telling
<1> USE DEF Go, Finish, Reaches, Raises, Outcomes, channelVars, workVars, slotVars
<1>7. Types'
    BY <1>1, <1>2, <1>3 DEF Types, Places, Over
<1>8. RequestInv(r)'
    <2>1. RunInv(r)' /\ SlotInv(r)'
        BY <1>1, <1>2 DEF Types, SlotTyped, RequestInv, RunInv, ToldInv, PostedInv, EndInv, SlotInv, Places, Over,
               Verdicts, Notices, Syntax, Results, Answers, Early, Before, Delivering, WantBot,
               WantWebhook, HasResult, Unanswerable, Guard!Places, Settings
    <2>2. ToldInv(r)'
        BY <1>1, <1>2, <1>3 DEF Types, SlotTyped, RequestInv, RunInv, ToldInv, PostedInv, EndInv, SlotInv, Places, Over,
               Verdicts, Notices, Syntax, Results, Answers, Early, Before, Delivering, WantBot,
               WantWebhook, HasResult, Unanswerable, Guard!Places, Settings
    <2>3. PostedInv(r)'
        BY <1>1, <1>2, <1>3 DEF Types, SlotTyped, RequestInv, RunInv, ToldInv, PostedInv, EndInv, SlotInv, Places, Over,
               Verdicts, Notices, Syntax, Results, Answers, Early, Before, Delivering, WantBot,
               WantWebhook, HasResult, Unanswerable, Guard!Places, Settings
    <2>4. EndInv(r)'
        BY <1>1, <1>2, <1>3 DEF Types, SlotTyped, RequestInv, RunInv, ToldInv, PostedInv, EndInv, SlotInv, Places, Over,
               Verdicts, Notices, Syntax, Results, Answers, Early, Before, Delivering, WantBot,
               WantWebhook, HasResult, Unanswerable, Guard!Places, Settings
    <2> QED BY <2>1, <2>2, <2>3, <2>4 DEF RequestInv
<1>9. \A q \in Requests \ {r} : Same(q)
    BY <1>1, <1>2, <1>3 DEF Types, SlotTyped, Same
<1> QED BY <1>7, <1>8, <1>9

LEMMA ExecuteReturnsInv ==
    ASSUME NEW r \in Requests, Types, SlotTyped, RequestInv(r), ExecuteReturns(r)
    PROVE  Types' /\ RequestInv(r)' /\ \A q \in Requests \ {r} : Same(q)
<1> USE DEF ExecuteReturns, Guard!Release, Route, Go, Finish, Tell, Reaches, Raises, Outcomes,
            channelVars, workVars, slotVars
<1>1. \A q \in Requests \ {r} : Same(q)
    BY DEF Same, Types, SlotTyped
<1>2. Types'
    BY DEF Types, Places, Over, Verdicts, Notices, Syntax, Results, Answers
<1>3. RequestInv(r)'
    BY DEF Types, SlotTyped, RequestInv, RunInv, ToldInv, PostedInv, EndInv, SlotInv, Places, Over,
           Verdicts, Notices, Syntax, Results, Answers, Early, Before, Delivering, WantBot,
           WantWebhook, HasResult, Unanswerable, Guard!Places, Settings
<1> QED BY <1>1, <1>2, <1>3

LEMMA ExecuteRaisesInv ==
    ASSUME NEW r \in Requests, Types, SlotTyped, RequestInv(r), ExecuteRaises(r)
    PROVE  Types' /\ RequestInv(r)' /\ \A q \in Requests \ {r} : Same(q)
<1> USE DEF ExecuteRaises, Guard!Release, Go, Finish, Tell, Reaches, Raises, Outcomes,
            channelVars, workVars, slotVars
<1>1. \A q \in Requests \ {r} : Same(q)
    BY DEF Same, Types, SlotTyped
<1>2. Types'
    BY DEF Types, Places, Over, Verdicts, Notices, Syntax, Results, Answers
<1>3. RequestInv(r)'
    BY DEF Types, SlotTyped, RequestInv, RunInv, ToldInv, PostedInv, EndInv, SlotInv, Places, Over,
           Verdicts, Notices, Syntax, Results, Answers, Early, Before, Delivering, WantBot,
           WantWebhook, HasResult, Unanswerable, Guard!Places, Settings
<1> QED BY <1>1, <1>2, <1>3

LEMMA PostInv ==
    ASSUME NEW r \in Requests, Types, SlotTyped, RequestInv(r), Post(r)
    PROVE  Types' /\ RequestInv(r)' /\ \A q \in Requests \ {r} : Same(q)
<1> USE DEF Post, Go, Finish, Tell, Reaches, Raises, Outcomes,
            channelVars, workVars, slotVars
<1>1. \A q \in Requests \ {r} : Same(q)
    BY DEF Same, Types, SlotTyped
<1>2. Types'
    BY DEF Types, Places, Over, Verdicts, Notices, Syntax, Results, Answers
<1>3. RequestInv(r)'
    BY DEF Types, SlotTyped, RequestInv, RunInv, ToldInv, PostedInv, EndInv, SlotInv, Places, Over,
           Verdicts, Notices, Syntax, Results, Answers, Early, Before, Delivering, WantBot,
           WantWebhook, HasResult, Unanswerable, Guard!Places, Settings
<1> QED BY <1>1, <1>2, <1>3

LEMMA DeleteStatusInv ==
    ASSUME NEW r \in Requests, Types, SlotTyped, RequestInv(r), DeleteStatus(r)
    PROVE  Types' /\ RequestInv(r)' /\ \A q \in Requests \ {r} : Same(q)
<1> USE DEF DeleteStatus, Go, Finish, Tell, Reaches, Raises, Outcomes,
            channelVars, workVars, slotVars
<1>1. \A q \in Requests \ {r} : Same(q)
    BY DEF Same, Types, SlotTyped
<1>2. Types'
    BY DEF Types, Places, Over, Verdicts, Notices, Syntax, Results, Answers
<1>3. RequestInv(r)'
    BY DEF Types, SlotTyped, RequestInv, RunInv, ToldInv, PostedInv, EndInv, SlotInv, Places, Over,
           Verdicts, Notices, Syntax, Results, Answers, Early, Before, Delivering, WantBot,
           WantWebhook, HasResult, Unanswerable, Guard!Places, Settings
<1> QED BY <1>1, <1>2, <1>3

LEMMA SendInv ==
    ASSUME NEW r \in Requests, Types, SlotTyped, RequestInv(r), Send(r)
    PROVE  Types' /\ RequestInv(r)' /\ \A q \in Requests \ {r} : Same(q)
<1> DEFINE answer == CASE msg[r] = "long" -> "no_file"
                       [] msg[r] = "long_syntax" -> "file"
                       [] OTHER -> msg[r]
<1>1. PICK out \in Outcomes :
          /\ Tell(r, answer, out)
          /\ Finish(r, Raises(out))
          /\ status' = IF at[r] = "sending" /\ status[r] = "thinking" /\ Reaches(out)
                       THEN [status EXCEPT ![r] = "edited"] ELSE status
    BY DEF Send
<1>2. /\ at[r] \in {"sending", "attaching"} /\ told[r] = {}
      /\ msg[r] \in Results \cup Syntax
      /\ answer \in {"text", "images", "no_file", "syntax", "file"}
      /\ answer \in {"text", "images", "no_file"} => runs[r] = 1
      /\ UNCHANGED <<settings, slash, msg, posted, workVars, slotVars>>
    BY DEF Send, RequestInv, RunInv, ToldInv, Delivering, Results, Syntax
<1> HIDE DEF answer
<1>3. /\ told' \in [Requests -> SUBSET Answers]
      /\ faulty' \in [Requests -> BOOLEAN]
      /\ told'[r] = IF Reaches(out) THEN {answer} ELSE {}
      /\ faulty'[r] <=> (faulty[r] \/ out # "ok")
      /\ \A q \in Requests \ {r} : told'[q] = told[q] /\ faulty'[q] = faulty[q]
    <2>1. answer \in Answers
        BY <1>2 DEF Answers, Notices
    <2> QED BY <1>1, <1>2, <2>1, Telling
<1> USE DEF Go, Finish, Reaches, Raises, Outcomes, channelVars, workVars, slotVars
<1>7. Types'
    BY <1>1, <1>2, <1>3 DEF Types, Places, Over
<1>8. RequestInv(r)'
    <2>1. RunInv(r)' /\ SlotInv(r)'
        BY <1>1, <1>2 DEF Types, SlotTyped, RequestInv, RunInv, ToldInv, PostedInv, EndInv, SlotInv, Places, Over,
               Verdicts, Notices, Syntax, Results, Answers, Early, Before, Delivering, WantBot,
               WantWebhook, HasResult, Unanswerable, Guard!Places, Settings
    <2>2. ToldInv(r)'
        BY <1>1, <1>2, <1>3 DEF Types, SlotTyped, RequestInv, RunInv, ToldInv, PostedInv, EndInv, SlotInv, Places, Over,
               Verdicts, Notices, Syntax, Results, Answers, Early, Before, Delivering, WantBot,
               WantWebhook, HasResult, Unanswerable, Guard!Places, Settings
    <2>3. PostedInv(r)'
        BY <1>1, <1>2, <1>3 DEF Types, SlotTyped, RequestInv, RunInv, ToldInv, PostedInv, EndInv, SlotInv, Places, Over,
               Verdicts, Notices, Syntax, Results, Answers, Early, Before, Delivering, WantBot,
               WantWebhook, HasResult, Unanswerable, Guard!Places, Settings
    <2>4. EndInv(r)'
        BY <1>1, <1>2, <1>3 DEF Types, SlotTyped, RequestInv, RunInv, ToldInv, PostedInv, EndInv, SlotInv, Places, Over,
               Verdicts, Notices, Syntax, Results, Answers, Early, Before, Delivering, WantBot,
               WantWebhook, HasResult, Unanswerable, Guard!Places, Settings
    <2> QED BY <2>1, <2>2, <2>3, <2>4 DEF RequestInv
<1>9. \A q \in Requests \ {r} : Same(q)
    BY <1>1, <1>2, <1>3 DEF Types, SlotTyped, Same
<1> QED BY <1>7, <1>8, <1>9

LEMMA DescribeInv ==
    ASSUME NEW r \in Requests, Types, SlotTyped, RequestInv(r), Describe(r)
    PROVE  Types' /\ RequestInv(r)' /\ \A q \in Requests \ {r} : Same(q)
<1> USE DEF Describe, Go, Finish, Tell, Reaches, Raises, Outcomes,
            channelVars, workVars, slotVars
<1>1. \A q \in Requests \ {r} : Same(q)
    BY DEF Same, Types, SlotTyped
<1>2. Types'
    BY DEF Types, Places, Over, Verdicts, Notices, Syntax, Results, Answers
<1>3. RequestInv(r)'
    BY DEF Types, SlotTyped, RequestInv, RunInv, ToldInv, PostedInv, EndInv, SlotInv, Places, Over,
           Verdicts, Notices, Syntax, Results, Answers, Early, Before, Delivering, WantBot,
           WantWebhook, HasResult, Unanswerable, Guard!Places, Settings
<1> QED BY <1>1, <1>2, <1>3

LEMMA CancelInv ==
    ASSUME NEW r \in Requests, Types, SlotTyped, RequestInv(r), Cancel(r)
    PROVE  Types' /\ RequestInv(r)' /\ \A q \in Requests \ {r} : Same(q)
<1> USE DEF Cancel, Guard!Release, Guard!Cancel, Go, Finish, Tell, Reaches, Raises, Outcomes,
            channelVars, workVars, slotVars
<1>1. \A q \in Requests \ {r} : Same(q)
    BY DEF Same, Types, SlotTyped
<1>2. Types'
    BY DEF Types, Places, Over, Verdicts, Notices, Syntax, Results, Answers
<1>3. RequestInv(r)'
    BY DEF Types, SlotTyped, RequestInv, RunInv, ToldInv, PostedInv, EndInv, SlotInv, Places, Over,
           Verdicts, Notices, Syntax, Results, Answers, Early, Before, Delivering, WantBot,
           WantWebhook, HasResult, Unanswerable, Guard!Places, Settings
<1> QED BY <1>1, <1>2, <1>3

--------------------------------------------------------------------------------
(* Theorems *)

LEMMA HandlerNext == HandlerInv /\ SlotTyped /\ [Next]_vars => HandlerInv'
<1> SUFFICES ASSUME HandlerInv, SlotTyped, [Next]_vars PROVE HandlerInv'
    OBVIOUS
<1>1. CASE UNCHANGED vars
    <2>1. \A r \in Requests : Same(r)
        BY <1>1 DEF vars, channelVars, workVars, slotVars, Same
    <2>2. Types'
        BY <1>1 DEF HandlerInv, Types, vars, channelVars, workVars
    <2> QED BY <2>1, <2>2, Frame DEF HandlerInv
<1>2. ASSUME NEW r \in Requests, Begin(r) \/ Step(r) \/ Describe(r) \/ Cancel(r)
      PROVE  HandlerInv'
    <2>1. Types /\ RequestInv(r)
        BY DEF HandlerInv
    <2>2. Types' /\ RequestInv(r)' /\ \A q \in Requests \ {r} : Same(q)
        BY <1>2, <2>1, BeginInv, NoticeInv, InstalledInv, PromptInv, InputGivenInv, InputMissingInv,
           AnnounceInv, DequeueInv, UnwindInv, BusyInv, ExecuteReturnsInv, ExecuteRaisesInv, PostInv,
           DeleteStatusInv, SendInv, DescribeInv, CancelInv DEF Step
    <2>3. \A q \in Requests \ {r} : RequestInv(q)'
        BY <2>2, Frame DEF HandlerInv
    <2> QED BY <2>2, <2>3 DEF HandlerInv
<1> QED BY <1>1, <1>2 DEF Next

LEMMA HandlerInvariant == Spec => [](HandlerInv /\ Guard!TypeOK /\ Guard!InFlightExact)
<1>1. Guard!TypeOK => SlotTyped
    BY DEF Guard!TypeOK, SlotTyped
<1> QED BY <1>1, GuardHolds, HandlerInit, HandlerNext, PTL DEF Spec

\* Every variable of the pipeline, and of the guard in it, stays in its type.
THEOREM HandlerTypeCorrect == Spec => []TypeOK
<1>1. HandlerInv /\ Guard!TypeOK => TypeOK
    BY DEF HandlerInv, Types, TypeOK
<1> QED BY <1>1, HandlerInvariant, PTL

\* Slots and places in the queue belong to the requests that execute and wait, on every
\* path out of them, and in_flight is their number.
THEOREM SlotsFollow == Spec => []SlotsFollowRequests
<1>1. ASSUME HandlerInv, Guard!InFlightExact PROVE SlotsFollowRequests
    <2> DEFINE running == {r \in Requests : at[r] = "executing"}
               queued  == {r \in Requests : at[r] = "queued"}
    <2>1. \A r \in Requests : SlotInv(r)
        BY <1>1 DEF HandlerInv, RequestInv
    <2>2. Guard!Holding = running /\ Guard!Waiting = queued
        BY <2>1 DEF SlotInv, Guard!Holding, Guard!Waiting
    <2>3. IsFiniteSet(running) /\ IsFiniteSet(queued) /\ running \cap queued = {}
        BY HandlerAssumption, FS_Subset
    <2>4. Cardinality(running \cup queued) = Cardinality(running) + Cardinality(queued)
        <3>1. Cardinality(running \cup queued)
                  = Cardinality(running) + Cardinality(queued) - Cardinality(running \cap queued)
            BY <2>3, FS_Union
        <3>2. Cardinality(running \cap queued) = 0
            BY <2>3, FS_EmptySet
        <3>3. Cardinality(running) \in Nat /\ Cardinality(queued) \in Nat
            BY <2>3, FS_CardinalityType
        <3> HIDE DEF running, queued
        <3> QED BY <3>1, <3>2, <3>3
    <2>5. running \cup queued = {r \in Requests : at[r] \in {"executing", "queued"}}
        OBVIOUS
    <2>6. in_flight = Cardinality(running) + Cardinality(queued)
        <3>1. \A S : Guard!Cardinality(S) = Cardinality(S)
            BY DEF Guard!Cardinality, Cardinality
        <3> QED BY <1>1, <2>2, <3>1 DEF Guard!InFlightExact
    <2> QED BY <2>1, <2>4, <2>5, <2>6 DEF SlotInv, SlotsFollowRequests
<1> QED BY <1>1, HandlerInvariant, PTL

\* Whatever fails and whoever is cancelled, a request is told one thing, and it is true.
THEOREM AnswersTrue == Spec => []AnswersHonest
<1>1. ASSUME HandlerInv, NEW r \in Requests
      PROVE  /\ Cardinality(told[r]) <= 1
             /\ runs[r] <= 1
             /\ told[r] \cap {"busy", "rate_limited", "input_missing"} # {}
                   => runs[r] = 0 /\ description[r] = "none"
             /\ told[r] \cap {"text", "images", "no_file"} # {} => runs[r] = 1
    <2>1. RunInv(r) /\ ToldInv(r)
        BY <1>1 DEF HandlerInv, RequestInv
    <2>2. runs[r] <= 1
        BY <2>1 DEF RunInv
    <2>3. CASE told[r] = {}
        BY <2>2, <2>3, FS_EmptySet
    <2>4. ASSUME NEW answer \in Answers, told[r] = {answer}
          PROVE  Cardinality(told[r]) <= 1
        <3>1. Cardinality({answer}) = 1
            BY FS_Singleton
        <3> QED BY <2>4, <3>1
    <2>5. Cardinality(told[r]) <= 1
        BY <2>1, <2>3, <2>4 DEF ToldInv
    <2>6. /\ told[r] \cap {"busy", "rate_limited", "input_missing"} # {}
                => runs[r] = 0 /\ description[r] = "none"
          /\ told[r] \cap {"text", "images", "no_file"} # {} => runs[r] = 1
        <3>1. CASE told[r] = {}
            BY <3>1
        <3>2. CASE told[r] # {}
            BY <2>1, <3>2 DEF ToldInv
        <3> QED BY <3>1, <3>2
    <2> QED BY <2>2, <2>5, <2>6
<1>2. HandlerInv => AnswersHonest
    BY <1>1 DEF AnswersHonest
<1> QED BY <1>2, HandlerInvariant, PTL

\* Whatever the order of the failures, a message gets its answer before the pipeline ends,
\* unless a Discord call or the executor failed, or its code is empty or beyond analysis.
THEOREM NobodyUnanswered == Spec => []AnsweredUnlessFault
<1>1. HandlerInv => AnsweredUnlessFault
    BY DEF HandlerInv, RequestInv, EndInv, AnsweredUnlessFault
<1> QED BY <1>1, HandlerInvariant, PTL

\* Results go where OUTPUT_MODE says while there is no LLM and to the channel when there is
\* one; descriptions are of code that ran.
THEOREM RoutingKept == Spec => []ResultsRouted
<1>1. HandlerInv => ResultsRouted
    BY DEF HandlerInv, RequestInv, PostedInv, EndInv, ResultsRouted
<1> QED BY <1>1, HandlerInvariant, PTL

\* The status message is resolved.
THEOREM StatusResolved == Spec => []ThinkingResolved
<1>1. HandlerInv => ThinkingResolved
    BY DEF HandlerInv, RequestInv, EndInv, ThinkingResolved
<1> QED BY <1>1, HandlerInvariant, PTL
================================================================================
