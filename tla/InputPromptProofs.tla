--------------------------- MODULE InputPromptProofs ---------------------------
(***************************************************************************)
(* Theorems about the input prompt, for any number of requests and users.  *)
(***************************************************************************)
EXTENDS InputPrompt, TLAPS

--------------------------------------------------------------------------------
(* Types *)

LEMMA PromptTypeInit == Init => TypeOK
BY DEF Init, TypeOK, Over

\* Every action, of a request r or a user u, keeps the types.
LEMMA PromptTypeNext == TypeOK /\ [Next]_vars => TypeOK'
<1> SUFFICES ASSUME TypeOK, [Next]_vars PROVE TypeOK'
    OBVIOUS
<1> USE DEF TypeOK, Over, Go, Fault, SetResult, SetUnlessDone, Finally, mine, race
<1>1. ASSUME NEW u \in Users, Chat(u) PROVE TypeOK'
    <2>1. msg_task' \in [Requests -> {"none", "created", "listening", "matched", "done",
                                      "cancelled"}]
        BY <1>1 DEF Chat
    <2>2. at' \in [Requests -> {"idle", "prompting", "waiting", "editing", "cleaning"} \cup Over]
        BY <1>1 DEF Chat
    <2> QED BY <1>1, <2>1, <2>2 DEF Chat
<1>2. ASSUME NEW r \in Requests, NEW u \in Users, Interaction(r, u) PROVE TypeOK'
    <2>1. CASE Press(r, u)
        BY <2>1 DEF Press
    <2>2. CASE Submit(r, u)
        BY <2>2 DEF Submit
    <2>3. CASE Acknowledged(r, u)
        BY <2>3 DEF Acknowledged
    <2> QED BY <1>2, <2>1, <2>2, <2>3 DEF Interaction
<1>3. ASSUME NEW r \in Requests, Shown(r) PROVE TypeOK'
    BY <1>3 DEF Shown
<1>4. ASSUME NEW r \in Requests, Listener(r) PROVE TypeOK'
    BY <1>4 DEF Listener, ListenerStarts, ListenerWakes, ListenerTimesOut
<1>5. ASSUME NEW r \in Requests, Timeout(r) PROVE TypeOK'
    BY <1>5 DEF Timeout
<1>6. ASSUME NEW r \in Requests, Step(r) PROVE TypeOK'
    <2>1. CASE Prompted(r)
        BY <2>1 DEF Prompted
    <2>2. CASE Answered(r)
        BY <2>2 DEF Answered
    <2>3. CASE TimedOut(r)
        BY <2>3 DEF TimedOut
    <2>4. CASE Edited(r)
        BY <2>4 DEF Edited
    <2>5. CASE Cleaned(r)
        BY <2>5 DEF Cleaned
    <2> QED BY <1>6, <2>1, <2>2, <2>3, <2>4, <2>5 DEF Step
<1>7. CASE UNCHANGED vars
    BY <1>7 DEF vars
<1> QED BY <1>1, <1>2, <1>3, <1>4, <1>5, <1>6, <1>7 DEF Next

\* The state of the prompts has its type, whatever races.
THEOREM PromptTypeCorrect == Spec => []TypeOK
<1> QED BY PromptTypeInit, PromptTypeNext, PTL DEF Spec

--------------------------------------------------------------------------------
(* What a request has got and left behind, by where it is *)

\* Only the author is offered a modal, and only behind a button that works; a future is
\* settled by its author's input or by the timer.
RaceInv(r) ==
    /\ modal[r] \subseteq {author[r]} /\ submitted[r] \subseteq {author[r]}
    /\ ~prompt_msg[r] => modal[r] = {} /\ submitted[r] = {}
    /\ future[r] = "set" => stdin_input[r] = author[r]
    /\ future[r] = "cancelled" => expired[r]
    /\ expired[r] => future[r] # "pending"

\* Before the prompt is out nothing can happen to the future; after it, a request without
\* a working prompt is one whose call failed.
PlaceInv(r) ==
    /\ at[r] \in {"idle", "prompting"} =>
          future[r] = "pending" /\ ~expired[r] /\ ~prompt_msg[r] /\ msg_task[r] = "none"
    /\ at[r] \in {"idle", "prompting", "waiting"} => prompt[r] # "not_provided"
    /\ at[r] \in {"waiting", "editing", "cleaning"} => prompt_msg[r] \/ faulty[r]
    /\ at[r] = "editing" => expired[r]
    /\ at[r] = "cleaning" =>
          /\ future[r] = "set" /\ msg_task[r] \in {"done", "cancelled"}
          /\ expired[r] \/ prompt[r] # "not_provided"
    /\ at[r] = "proceeding" => future[r] = "set" /\ ~expired[r] /\ prompt[r] # "not_provided"
    /\ at[r] = "ended" => expired[r] \/ faulty[r]

LeftInv(r) ==
    at[r] \in Over =>
        /\ msg_task[r] \in {"none", "done", "cancelled"}
        /\ ~faulty[r] => prompt[r] = IF future[r] = "set" THEN "deleted" ELSE "not_provided"

PromptInv == \A r \in Requests : RaceInv(r) /\ PlaceInv(r) /\ LeftInv(r)

LEMMA PromptInvInit == Init => PromptInv
BY DEF Init, PromptInv, RaceInv, PlaceInv, LeftInv, Over

\* An action of a request r, seen from any request q: the same one or one left alone.
LEMMA PromptInvNext == TypeOK /\ PromptInv /\ [Next]_vars => PromptInv'
<1> SUFFICES ASSUME TypeOK, PromptInv, [Next]_vars,
                    NEW q \in Requests
             PROVE  RaceInv(q)' /\ PlaceInv(q)' /\ LeftInv(q)'
    BY DEF PromptInv
<1>0. RaceInv(q) /\ PlaceInv(q) /\ LeftInv(q)
    BY DEF PromptInv
<1> USE <1>0 DEF TypeOK, Over, Go, Fault, SetResult, SetUnlessDone, Finally, mine, race,
                 RaceInv, PlaceInv, LeftInv
<1>1. ASSUME NEW u \in Users, Chat(u) PROVE RaceInv(q)' /\ PlaceInv(q)' /\ LeftInv(q)'
    BY <1>1 DEF Chat
<1>2. ASSUME NEW r \in Requests, NEW u \in Users, Interaction(r, u)
      PROVE  RaceInv(q)' /\ PlaceInv(q)' /\ LeftInv(q)'
    <2>1. CASE Press(r, u)
        BY <2>1 DEF Press
    <2>2. CASE Submit(r, u)
        BY <2>2 DEF Submit
    <2>3. CASE Acknowledged(r, u)
        BY <2>3 DEF Acknowledged
    <2> QED BY <1>2, <2>1, <2>2, <2>3 DEF Interaction
<1>3. ASSUME NEW r \in Requests, Shown(r) PROVE RaceInv(q)' /\ PlaceInv(q)' /\ LeftInv(q)'
    BY <1>3 DEF Shown
<1>4. ASSUME NEW r \in Requests, Listener(r) PROVE RaceInv(q)' /\ PlaceInv(q)' /\ LeftInv(q)'
    <2>1. CASE ListenerStarts(r)
        BY <2>1 DEF ListenerStarts
    <2>2. CASE ListenerWakes(r)
        BY <2>2 DEF ListenerWakes
    <2>3. CASE ListenerTimesOut(r)
        BY <2>3 DEF ListenerTimesOut
    <2> QED BY <1>4, <2>1, <2>2, <2>3 DEF Listener
<1>5. ASSUME NEW r \in Requests, Timeout(r) PROVE RaceInv(q)' /\ PlaceInv(q)' /\ LeftInv(q)'
    BY <1>5 DEF Timeout
<1>6. ASSUME NEW r \in Requests, Step(r) PROVE RaceInv(q)' /\ PlaceInv(q)' /\ LeftInv(q)'
    <2>1. CASE Prompted(r)
        <3>1. PICK out \in Outcomes :
                 /\ Fault(r, out # "ok")
                 /\ IF Raises(out)
                    THEN Go(r, "ended") /\ UNCHANGED <<prompt_msg, msg_task>>
                    ELSE /\ Go(r, "waiting")
                         /\ prompt_msg' = [prompt_msg EXCEPT ![r] = out = "ok"]
                         /\ msg_task' = [msg_task EXCEPT ![r] = "created"]
            BY <2>1 DEF Prompted
        <3>2. CASE Raises(out)
            <4>1. /\ at' = [at EXCEPT ![r] = "ended"]
                  /\ UNCHANGED <<author, prompt, prompt_msg, race>>
                BY <2>1, <3>1, <3>2 DEF Prompted
            <4>2. at[r] = "prompting"
                BY <2>1 DEF Prompted
            <4>3. faulty'[r] /\ (q # r => faulty'[q] = faulty[q])
                BY <3>1, <3>2 DEF Raises
            <4> QED BY <4>1, <4>2, <4>3
        <3>3. CASE ~Raises(out) /\ q # r
            BY <2>1, <3>1, <3>3 DEF Prompted
        <3>4. CASE ~Raises(out) /\ q = r
            <4>1. at'[q] = "waiting" /\ msg_task'[q] = "created"
                BY <3>1, <3>4
            <4>2. prompt_msg'[q] \/ faulty'[q]
                BY <3>1, <3>4
            <4> QED BY <2>1, <3>4, <4>1, <4>2 DEF Prompted
        <3> QED BY <3>2, <3>3, <3>4
    <2>2. CASE Answered(r)
        BY <2>2 DEF Answered
    <2>3. CASE TimedOut(r)
        BY <2>3 DEF TimedOut
    <2>4. CASE Edited(r)
        BY <2>4 DEF Edited, Outcomes, Reaches
    <2>5. CASE Cleaned(r)
        BY <2>5 DEF Cleaned, Outcomes, Reaches
    <2> QED BY <1>6, <2>1, <2>2, <2>3, <2>4, <2>5 DEF Step
<1>7. CASE UNCHANGED vars
    BY <1>7 DEF vars
<1> QED BY <1>1, <1>2, <1>3, <1>4, <1>5, <1>6, <1>7 DEF Next

--------------------------------------------------------------------------------
(* The theorems *)

\* Code is run only on the input of its own author, given in time, whoever else answers,
\* presses the button or is late.
THEOREM InputIsTheAuthors == Spec => []RunsOnItsInput
<1>1. Init => TypeOK /\ PromptInv
    BY PromptTypeInit, PromptInvInit
<1>2. (TypeOK /\ PromptInv) /\ [Next]_vars => (TypeOK /\ PromptInv)'
    BY PromptTypeNext, PromptInvNext
<1>3. PromptInv => RunsOnItsInput
    BY DEF PromptInv, RaceInv, PlaceInv, RunsOnItsInput
<1> QED BY <1>1, <1>2, <1>3, PTL DEF Spec

\* A request that is over has no listener task left and no prompt that still asks, unless
\* a call failed.
THEOREM NothingLeftBehind == Spec => []LeavesNothing
<1>1. Init => TypeOK /\ PromptInv
    BY PromptTypeInit, PromptInvInit
<1>2. (TypeOK /\ PromptInv) /\ [Next]_vars => (TypeOK /\ PromptInv)'
    BY PromptTypeNext, PromptInvNext
<1>3. PromptInv => LeavesNothing
    BY DEF PromptInv, LeftInv, LeavesNothing
<1> QED BY <1>1, <1>2, <1>3, PTL DEF Spec
================================================================================
