-------------------------------- MODULE Services --------------------------------
(***************************************************************************)
(* app/services/webhook and app/services/llm, as the requests use them:    *)
(* a result, or a description that a model is asked for, is posted through *)
(* a client that is created when it is first needed.  send() and           *)
(* describe_code() never raise; what a post says and whether it arrives is *)
(* left out (MessageHandler has the latter).                               *)
(***************************************************************************)
EXTENDS Integers, SequenceFilter

CONSTANTS
    Jobs,           \* the requests' posts, one each
    Model,          \* GROQ_MODEL
    Fallbacks       \* the models that describe_code falls back on

VARIABLES
    job,            \* the await that a post is suspended in, or how it ended
    asked,          \* the models that were asked for its description, and what came of it
    text,           \* what is posted
    _client,        \* WebhookNotifier._client: a client's number, or 0 for None
    clients,        \* all clients there ever were: open, closing or closed
    late            \* history: those created when the notifier had been closed

servicesVars == <<job, asked, text, _client, clients, late>>

Init ==
    /\ job = [j \in Jobs |-> "idle"]
    /\ asked = [j \in Jobs |-> <<>>]
    /\ text = [j \in Jobs |-> "none"]
    /\ _client = 0
    /\ clients = <<>>
    /\ late = {}

--------------------------------------------------------------------------------
(* describe_code *)

\* Mutant of ModelsToTry: the configured model comes after those it should come before.
ModelsWithModelLast == Keep(Fallbacks, STRING \ {Model}) \o <<Model>>

\* The configured model first, no model twice.
ModelsToTry == <<Model>> \o Keep(Fallbacks, STRING \ {Model})

\* A request of a message or command that arrived while the gateway was connected.
Arrive(j) ==
    /\ job[j] = "idle"
    /\ job' = [job EXCEPT ![j] = "handling"]
    /\ UNCHANGED <<asked, text, _client, clients, late>>

\* The request posts its result or, with the LLM enabled, has its code described.
Post(j) ==
    /\ job[j] = "handling"
    /\ job' = [job EXCEPT ![j] = "ready"]
    /\ text' = [text EXCEPT ![j] = "result"]
    /\ UNCHANGED <<asked, _client, clients, late>>

Describe(j) ==
    /\ job[j] = "handling"
    /\ job' = [job EXCEPT ![j] = "asking"]
    /\ UNCHANGED <<asked, text, _client, clients, late>>

\* One model's answer: a description, a status that makes the next model worth asking
\* (400, 404, 429), or any other failure.  Without a description the failure is posted.
Ask(j) ==
    /\ job[j] = "asking"
    /\ \E answer \in {"description", "next", "failure"} :
          LET now_asked == Append(asked[j], [model |-> ModelsToTry[Len(asked[j]) + 1],
                                             answer |-> answer])
              over      == answer # "next" \/ Len(now_asked) = Len(ModelsToTry)
          IN  /\ asked' = [asked EXCEPT ![j] = now_asked]
              /\ text' = IF ~over THEN text
                         ELSE [text EXCEPT ![j] = IF answer = "description" THEN answer
                                                  ELSE "failure"]
              /\ job' = IF over THEN [job EXCEPT ![j] = "ready"] ELSE job
    /\ UNCHANGED <<_client, clients, late>>

--------------------------------------------------------------------------------
(* WebhookNotifier *)

\* Mutant of Send: a client that is being closed is replaced.
SendReplacing(j, closed) ==
    /\ job[j] = "ready"
    /\ job' = [job EXCEPT ![j] = "posting"]
    /\ IF _client = 0 \/ clients[_client] = "closing"
       THEN /\ clients' = Append(clients, "open")
            /\ _client' = Len(clients')
            /\ late' = IF closed THEN late \cup {_client'} ELSE late
       ELSE UNCHANGED <<clients, _client, late>>
    /\ UNCHANGED <<asked, text>>

\* send(): the client is created if there is none.  One that is being closed is used and
\* refuses, which is logged; the post then fails at once.
Send(j, closed) ==
    /\ job[j] = "ready"
    /\ IF _client = 0
       THEN /\ clients' = Append(clients, "open")
            /\ _client' = Len(clients')
            /\ late' = IF closed THEN late \cup {_client'} ELSE late
            /\ job' = [job EXCEPT ![j] = "posting"]
       ELSE /\ job' = [job EXCEPT ![j] = IF clients[_client] = "open" THEN "posting" ELSE "done"]
            /\ UNCHANGED <<clients, _client, late>>
    /\ UNCHANGED <<asked, text>>

Sent(j) ==
    /\ job[j] = "posting"
    /\ job' = [job EXCEPT ![j] = "done"]
    /\ UNCHANGED <<asked, text, _client, clients, late>>

\* close(), up to its await: the client refuses from now on.
CloseBegins ==
    /\ clients' = IF _client = 0 THEN clients ELSE [clients EXCEPT ![_client] = "closing"]
    /\ UNCHANGED <<_client, late>>

\* aclose() has returned, raised or been cancelled.  Without a client there is nothing
\* to wait for, and one that is created next is no business of this call.
CloseEnds ==
    /\ clients' = [c \in DOMAIN clients |-> IF clients[c] = "closing" THEN "closed" ELSE clients[c]]
    /\ _client' = IF _client # 0 /\ clients[_client] = "closing" THEN 0 ELSE _client
    /\ UNCHANGED late

ClientsStay == UNCHANGED <<_client, clients, late>>

Cancel ==
    /\ job' = [j \in Jobs |-> IF job[j] \in {"idle", "done"} THEN job[j] ELSE "cancelled"]
    /\ UNCHANGED <<asked, text>>

JobsStay == UNCHANGED <<job, asked, text>>

--------------------------------------------------------------------------------
\* Type invariant of the services.
TypeOK ==
    /\ job \in [Jobs -> {"idle", "handling", "asking", "ready", "posting", "done", "cancelled"}]
    /\ \A j \in Jobs : asked[j] \in Seq([model : STRING, answer : {"description", "next", "failure"}])
    /\ text \in [Jobs -> {"none", "result", "description", "failure"}]
    /\ clients \in Seq({"open", "closing", "closed"})
    /\ _client \in 0..Len(clients)
    /\ late \subseteq DOMAIN clients

\* The models asked before the n-th.
AskedBefore(a, n) == {a[i].model : i \in 1..(n - 1)}

\* The configured model is asked first and then the fallbacks in their order, each when all
\* before it have been asked, no model twice, and only as long as the answers invite it;
\* the description posted is that of the last model asked, and a failure is posted only
\* when all have been asked or the last one's answer was to end it.
AskedInTurn ==
    \A j \in Jobs :
        LET a == asked[j]
        IN  /\ \A i \in DOMAIN a :
                  /\ a[i].model \notin AskedBefore(a, i)
                  /\ IF i = 1 THEN a[i].model = Model
                     ELSE \E f \in DOMAIN Fallbacks :
                             /\ a[i].model = Fallbacks[f]
                             /\ AskedBefore(a, i) = {Model} \cup {Fallbacks[g] : g \in 1..(f - 1)}
                  /\ i < Len(a) => a[i].answer = "next"
            /\ text[j] = "description" => a # <<>> /\ a[Len(a)].answer = "description"
            /\ text[j] = "failure" =>
                  /\ a # <<>>
                  /\ \/ a[Len(a)].answer = "failure"
                     \/ AskedBefore(a, Len(a) + 1) = {Model} \cup {Fallbacks[f] : f \in DOMAIN Fallbacks}

\* No client is lost: one that is not closed is the notifier's own, so that close() finds
\* it, whatever is posted before, while and after the notifier is closed.
NoOrphanClient == \A c \in DOMAIN clients : clients[c] # "closed" => c = _client
================================================================================
