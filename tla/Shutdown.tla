-------------------------------- MODULE Shutdown --------------------------------
(***************************************************************************)
(* Lifecycle composed with the requests that are still running when the    *)
(* bot is stopped, and with the webhook client that _run_bot closes.       *)
(***************************************************************************)
EXTENDS Lifecycle, Sequences

CONSTANTS Jobs, Model, Fallbacks

ASSUME ShutdownAssumption ==
    /\ Model \in STRING /\ Fallbacks \in Seq(STRING)
    /\ \A i, k \in DOMAIN Fallbacks : Fallbacks[i] = Fallbacks[k] => i = k

VARIABLES job, asked, text, _client, clients, late

S == INSTANCE Services

allVars == <<vars, S!servicesVars>>

SInit == Init /\ S!Init

\* A step of the lifecycle.  _run_bot closes the notifier in the turn in which it has
\* joined the bot's task; asyncio.run cancels the requests with all other tasks.
Life ==
    /\ Next
    /\ CASE bot' = "closing_webhook" /\ bot # "closing_webhook" -> S!CloseBegins
         [] bot = "closing_webhook" /\ bot' # "closing_webhook" -> S!CloseEnds
         [] OTHER -> S!ClientsStay
    /\ IF main' = "draining" /\ main # "draining" THEN S!Cancel ELSE S!JobsStay

\* Requests arrive while the gateway is connected and go on until they are cancelled.
Closed == bot \in {"closing_webhook", "done", "failed", "cancelled"}

Job(j) ==
    /\ LoopRuns
    /\ \/ S!Arrive(j) /\ gateway = "running"
       \/ S!Post(j)
       \/ S!Describe(j)
       \/ S!Ask(j)
       \/ S!Send(j, Closed)
       \/ S!Sent(j)
    /\ UNCHANGED vars

SNext == Life \/ \E j \in Jobs : Job(j)

\* The requests owe the shutdown nothing: it ends whether or not they do.
SSpec == SInit /\ [][SNext]_allVars /\ Fairness

--------------------------------------------------------------------------------
\* Type invariant.
ShutdownTypeOK == TypeOK /\ S!TypeOK

AskedInTurn == S!AskedInTurn

\* No client is lost while requests go on posting; and when the bot has unwound, none is
\* left open but one that a request still running opened after the notifier was closed.
ClientsClosed ==
    /\ S!NoOrphanClient
    /\ main = "exited" /\ bot \in {"done", "failed"} =>
          \A c \in DOMAIN clients : clients[c] = "closed" \/ c \in late
================================================================================
