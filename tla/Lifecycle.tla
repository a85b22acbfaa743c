------------------------------- MODULE Lifecycle -------------------------------
(***************************************************************************)
(* app/main: the Discord client and the health server in one event loop.   *)
(* Each runs in a task of its own (_run_bot, _run_health_server) under one *)
(* gather, and each stops the other through the `stop` event: on a signal, *)
(* when it ends by itself and when it fails.                               *)
(*                                                                         *)
(* External: client.start() (`gateway`), uvicorn's server.serve()          *)
(* (`server`), which exits the interpreter when it cannot bind its port,   *)
(* and asyncio.run, which cancels the tasks that are left when _amain is   *)
(* over or the interpreter exits.                                          *)
(***************************************************************************)
EXTENDS Integers

VARIABLES
    stop,           \* the event is set
    server,         \* serve_task
    should_exit,    \* server.should_exit
    health,         \* _run_health_server
    gateway,        \* bot_task
    bot,            \* _run_bot
    raising,        \* _run_bot has bot_task's exception to re-raise
    close_called,   \* client.close() was called
    main,           \* _amain, then asyncio.run
    exit_code,
    fatal           \* history: something failed that was not being stopped

vars == <<stop, server, should_exit, health, gateway, bot, raising, close_called, main,
          exit_code, fatal>>

serverVars == <<server, should_exit>>
botVars    == <<bot, raising, close_called>>
mainVars   == <<main, exit_code>>

ServerOver  == server \in {"exited", "raised", "aborted", "cancelled"}
GatewayOver == gateway \in {"returned", "raised", "cancelled"}
HealthOver  == health \in {"done", "failed", "cancelled"}
BotOver     == bot \in {"done", "failed", "cancelled"}
LoopRuns    == main \in {"gathering", "collecting", "draining"}

\* settings.validate() finds nothing - or something, and the program is over at once.
Init ==
    /\ stop = FALSE
    /\ server = "starting"
    /\ should_exit = FALSE
    /\ health = "waiting"
    /\ gateway = "running"
    /\ bot = "waiting"
    /\ raising = FALSE
    /\ close_called = FALSE
    /\ fatal = FALSE
    /\ \/ main = "gathering" /\ exit_code = 0
       \/ main = "refused" /\ exit_code = 1

--------------------------------------------------------------------------------
(* Signals, uvicorn and discord.py *)

\* SIGINT or SIGTERM: _request_stop, and uvicorn's own handler.
Signal ==
    /\ LoopRuns
    /\ stop' = TRUE
    /\ should_exit' = TRUE
    /\ UNCHANGED <<server, health, gateway, botVars, mainVars, fatal>>

ServerStarts ==
    /\ LoopRuns
    /\ server = "starting"
    /\ server' = IF should_exit THEN "exited" ELSE "serving"
    /\ UNCHANGED <<stop, should_exit, health, gateway, botVars, mainVars, fatal>>

ServerExits ==
    /\ LoopRuns
    /\ server = "serving" /\ should_exit
    /\ server' = "exited"
    /\ UNCHANGED <<stop, should_exit, health, gateway, botVars, mainVars, fatal>>

ServerRaises ==
    /\ LoopRuns
    /\ server \in {"starting", "serving"}
    /\ server' = "raised"
    /\ fatal' = TRUE
    /\ UNCHANGED <<stop, should_exit, health, gateway, botVars, mainVars>>

\* The port is in use: sys.exit(1) leaves the event loop through every task.
ServerAborts ==
    /\ LoopRuns
    /\ server = "starting"
    /\ server' = "aborted"
    /\ fatal' = TRUE
    /\ main' = "unwinding"
    /\ exit_code' = 1
    /\ UNCHANGED <<stop, should_exit, health, gateway, botVars>>

GatewayEnds ==
    /\ LoopRuns
    /\ gateway = "running"
    /\ \/ gateway' = "returned" /\ UNCHANGED fatal
       \/ gateway' = "raised" /\ fatal' = (fatal \/ ~stop)
    /\ UNCHANGED <<stop, serverVars, health, botVars, mainVars>>

--------------------------------------------------------------------------------
(* _run_health_server *)

\* Mutant of HealthWakes: the server is not told.
HealthWakesOnly ==
    /\ LoopRuns
    /\ health = "waiting"
    /\ stop \/ ServerOver
    /\ health' = "joining"
    /\ stop' = TRUE
    /\ UNCHANGED <<serverVars, gateway, botVars, mainVars, fatal>>

HealthWakes ==
    /\ LoopRuns
    /\ health = "waiting"
    /\ stop \/ ServerOver
    /\ health' = "joining"
    /\ stop' = TRUE
    /\ should_exit' = TRUE
    /\ UNCHANGED <<server, gateway, botVars, mainVars, fatal>>

\* Mutant of HealthJoined: the server's outcome is handed on as it is.
HealthJoinedAs ==
    /\ LoopRuns
    /\ health = "joining"
    /\ ServerOver
    /\ health' = server
    /\ UNCHANGED <<stop, serverVars, gateway, botVars, mainVars, fatal>>

HealthJoined ==
    /\ LoopRuns
    /\ health = "joining"
    /\ ServerOver
    /\ health' = IF server = "raised" THEN "failed" ELSE "done"
    /\ UNCHANGED <<stop, serverVars, gateway, botVars, mainVars, fatal>>

--------------------------------------------------------------------------------
(* _run_bot *)

\* Mutant of BotWakes: bot_task is not looked at once the stop is requested.
BotWakesByStop ==
    /\ LoopRuns
    /\ bot = "waiting"
    /\ stop \/ GatewayOver
    /\ raising' = (~stop /\ gateway = "raised")
    /\ stop' = TRUE
    /\ bot' = "closing"
    /\ UNCHANGED <<serverVars, health, gateway, close_called, mainVars, fatal>>

\* asyncio.wait returns, `finally` begins: stop_task is cancelled and awaited.
BotWakes ==
    /\ LoopRuns
    /\ bot = "waiting"
    /\ stop \/ GatewayOver
    /\ raising' = (gateway = "raised")
    /\ stop' = TRUE
    /\ bot' = "closing"
    /\ UNCHANGED <<serverVars, health, gateway, close_called, mainVars, fatal>>

BotCloses ==
    /\ LoopRuns
    /\ bot = "closing" /\ ~close_called
    /\ close_called' = TRUE
    /\ UNCHANGED <<stop, serverVars, health, gateway, bot, raising, mainVars, fatal>>

\* Mutant of BotClosed: bot_task is not awaited.
BotClosedAlone ==
    /\ LoopRuns
    /\ bot = "closing" /\ close_called
    /\ bot' = "closing_webhook"
    /\ UNCHANGED <<stop, serverVars, health, gateway, raising, close_called, mainVars, fatal>>

\* client.close() has returned, or failed, which is suppressed.
BotClosed ==
    /\ LoopRuns
    /\ bot = "closing" /\ close_called
    /\ bot' = IF GatewayOver THEN "closing_webhook" ELSE "joining"
    /\ UNCHANGED <<stop, serverVars, health, gateway, raising, close_called, mainVars, fatal>>

\* What bot_task raises now is suppressed.
BotJoined ==
    /\ LoopRuns
    /\ bot = "joining"
    /\ GatewayOver
    /\ bot' = "closing_webhook"
    /\ UNCHANGED <<stop, serverVars, health, gateway, raising, close_called, mainVars, fatal>>

BotEnds ==
    /\ LoopRuns
    /\ bot = "closing_webhook"
    /\ bot' = IF raising THEN "failed" ELSE "done"
    /\ UNCHANGED <<stop, serverVars, health, gateway, raising, close_called, mainVars, fatal>>

--------------------------------------------------------------------------------
(* _amain and asyncio.run *)

GatherReturns ==
    /\ main = "gathering"
    /\ bot = "done" /\ health = "done"
    /\ main' = "unwinding"
    /\ UNCHANGED <<stop, serverVars, health, gateway, botVars, exit_code, fatal>>

GatherRaises ==
    /\ main = "gathering"
    /\ bot = "failed" \/ health = "failed"
    /\ main' = "collecting"
    /\ stop' = TRUE
    /\ UNCHANGED <<serverVars, health, gateway, botVars, exit_code, fatal>>

\* The second gather: both services have ended, with or without an exception.
Collected ==
    /\ main = "collecting"
    /\ BotOver /\ HealthOver
    /\ main' = "unwinding"
    /\ exit_code' = 1
    /\ UNCHANGED <<stop, serverVars, health, gateway, botVars, fatal>>

\* asyncio.run cancels every task that is left, once.  _run_bot runs its `finally` when
\* that meets it in asyncio.wait, suppresses it while it awaits stop_task or bot_task,
\* and is left half-way while it closes the client or the webhook.
CancelAll ==
    /\ main = "unwinding"
    /\ main' = "draining"
    /\ health' = IF HealthOver THEN health ELSE "cancelled"
    /\ server' = IF ServerOver THEN server ELSE "cancelled"
    /\ gateway' = IF GatewayOver THEN gateway ELSE "cancelled"
    /\ bot' = CASE bot = "waiting" -> "closing"
                [] (bot = "closing" /\ close_called) \/ bot = "closing_webhook" -> "cancelled"
                [] OTHER -> bot
    /\ stop' = (stop \/ bot = "waiting")
    /\ UNCHANGED <<should_exit, raising, close_called, exit_code, fatal>>

Exit ==
    /\ main = "draining"
    /\ BotOver
    /\ main' = "exited"
    /\ UNCHANGED <<stop, serverVars, health, gateway, botVars, exit_code, fatal>>

Server   == ServerStarts \/ ServerExits
Services == HealthWakes \/ HealthJoined \/ BotWakes \/ BotCloses \/ BotClosed \/ BotJoined \/ BotEnds
Main     == GatherReturns \/ GatherRaises \/ Collected \/ CancelAll \/ Exit

Next ==
    \/ Signal
    \/ Server \/ ServerRaises \/ ServerAborts
    \/ GatewayEnds
    \/ Services
    \/ Main

Spec == Init /\ [][Next]_vars

\* The loop runs what is ready; the server starts, and ends when told; the gateway ends
\* when the client is closed.  Nothing has to fail, and no signal has to come.
Fairness ==
    /\ WF_vars(HealthWakes) /\ WF_vars(HealthJoined)
    /\ WF_vars(BotWakes) /\ WF_vars(BotCloses \/ BotClosed \/ BotJoined \/ BotEnds)
    /\ WF_vars(Main)
    /\ WF_vars(Server)
    /\ WF_vars(close_called /\ GatewayEnds)

FairSpec == Spec /\ Fairness

--------------------------------------------------------------------------------
\* Type invariant.
TypeOK ==
    /\ stop \in BOOLEAN /\ should_exit \in BOOLEAN /\ raising \in BOOLEAN
    /\ close_called \in BOOLEAN /\ fatal \in BOOLEAN
    /\ server \in {"starting", "serving", "exited", "raised", "aborted", "cancelled"}
    /\ gateway \in {"running", "returned", "raised", "cancelled"}
    /\ health \in {"waiting", "joining", "done", "failed", "cancelled"}
    /\ bot \in {"waiting", "closing", "joining", "closing_webhook", "done", "failed", "cancelled"}
    /\ main \in {"refused", "gathering", "collecting", "unwinding", "draining", "exited"}
    /\ exit_code \in {0, 1}

\* A failure is never mistaken for a requested stop, whatever arrives in between, nor a
\* stop for a failure: exit code 1 says that one of the two services failed.
ExitCodeHonest ==
    main = "exited" =>
        /\ fatal => exit_code = 1
        /\ exit_code = 1 => gateway = "raised" \/ server \in {"raised", "aborted"}

\* _amain returns only when both services have unwound: the client was closed, its task
\* and the server's are over, and asyncio.run finds neither of them to cancel.
UnwoundCleanly ==
    main \in {"unwinding", "draining", "exited"} /\ server # "aborted"
        => BotOver /\ HealthOver /\ GatewayOver /\ ServerOver /\ close_called

\* One stops all: after a signal, or when either service has ended for whatever reason,
\* the process exits.
OneStopsAll ==
    (stop \/ GatewayOver \/ ServerOver) /\ main # "refused" ~> main = "exited"
================================================================================
