---------------------------- MODULE ShutdownProofs ----------------------------
(***************************************************************************)
(* Theorems about the lifecycle, and about the shutdown with any number of *)
(* requests still running.                                                 *)
(***************************************************************************)
EXTENDS Shutdown, SequenceLemmas

--------------------------------------------------------------------------------
(* The lifecycle: the two services *)

\* What a service's place says of the task that it supervises.
ServicesInv ==
    /\ health = "done" => ServerOver /\ server # "raised"
    /\ health = "failed" => server = "raised"
    /\ bot # "waiting" => stop
    /\ bot = "waiting" => ~raising
    /\ raising => gateway = "raised"
    /\ bot \in {"joining", "closing_webhook", "done", "failed"} => close_called
    /\ bot \in {"closing_webhook", "done", "failed"} => GatewayOver
    /\ bot = "done" => ~raising
    /\ bot = "failed" => raising

\* A failure that nobody had asked for is the server's, or one of the gateway that
\* _run_bot has yet to look at or is about to re-raise.
FatalInv ==
    fatal => server \in {"raised", "aborted"} \/ (gateway = "raised" /\ (bot = "waiting" \/ raising))

\* How far _amain is: only asyncio.run cancels a service, and, unless the server aborted,
\* it comes when both have unwound and the exit code is right.
MainInv ==
    /\ main \in {"gathering", "collecting"} =>
          /\ exit_code = 0
          /\ server \notin {"aborted", "cancelled"} /\ gateway # "cancelled"
          /\ bot # "cancelled" /\ health # "cancelled"
    /\ main = "collecting" => bot = "failed" \/ health = "failed"
    /\ main \in {"unwinding", "draining", "exited"} =>
          \/ server = "aborted" /\ exit_code = 1
          \/ /\ BotOver /\ HealthOver /\ GatewayOver /\ ServerOver /\ close_called
             /\ server # "aborted"
             /\ fatal => exit_code = 1
             /\ exit_code = 1 => gateway = "raised" \/ server = "raised"

LifecycleInv == TypeOK /\ ServicesInv /\ FatalInv /\ MainInv

LEMMA LifecycleInit == Init => LifecycleInv
BY DEF Init, LifecycleInv, TypeOK, ServicesInv, FatalInv, MainInv, ServerOver, GatewayOver

\* One step per coroutine; the environment's steps first.
LEMMA LifecycleNext == LifecycleInv /\ [Next]_vars => LifecycleInv'
<1> SUFFICES ASSUME LifecycleInv, [Next]_vars PROVE LifecycleInv'
    OBVIOUS
<1> USE DEF LifecycleInv, TypeOK, ServicesInv, FatalInv, MainInv, ServerOver, GatewayOver,
            BotOver, HealthOver, LoopRuns, serverVars, botVars, mainVars
<1>1. CASE Signal
    BY <1>1 DEF Signal
<1>2. CASE Server
    BY <1>2 DEF Server, ServerStarts, ServerExits
<1>3. CASE ServerRaises
    BY <1>3 DEF ServerRaises
<1>4. CASE ServerAborts
    BY <1>4 DEF ServerAborts
<1>5. CASE GatewayEnds
    <2>1. CASE gateway' = "returned" /\ UNCHANGED fatal
        BY <1>5, <2>1 DEF GatewayEnds
    <2>2. CASE gateway' = "raised" /\ fatal' = (fatal \/ ~stop)
        <3>1. fatal' \in BOOLEAN /\ (fatal' => fatal \/ ~stop)
            BY <2>2
        <3> QED BY <1>5, <2>2, <3>1 DEF GatewayEnds
    <2> QED BY <1>5, <2>1, <2>2 DEF GatewayEnds
<1>6. CASE Services
    <2>1. CASE HealthWakes
        BY <2>1 DEF HealthWakes
    <2>2. CASE HealthJoined
        BY <2>2 DEF HealthJoined
    <2>3. CASE BotWakes
        BY <2>3 DEF BotWakes
    <2>4. CASE BotCloses
        BY <2>4 DEF BotCloses
    <2>5. CASE BotClosed
        BY <2>5 DEF BotClosed
    <2>6. CASE BotJoined
        BY <2>6 DEF BotJoined
    <2>7. CASE BotEnds
        BY <2>7 DEF BotEnds
    <2> QED BY <1>6, <2>1, <2>2, <2>3, <2>4, <2>5, <2>6, <2>7 DEF Services
<1>7. CASE Main
    <2>1. CASE GatherReturns
        BY <2>1 DEF GatherReturns
    <2>2. CASE GatherRaises
        BY <2>2 DEF GatherRaises
    <2>3. CASE Collected
        BY <2>3 DEF Collected
    <2>4. CASE CancelAll
        BY <2>4 DEF CancelAll
    <2>5. CASE Exit
        BY <2>5 DEF Exit
    <2> QED BY <1>7, <2>1, <2>2, <2>3, <2>4, <2>5 DEF Main
<1>8. CASE UNCHANGED vars
    BY <1>8 DEF vars
<1> QED BY <1>1, <1>2, <1>3, <1>4, <1>5, <1>6, <1>7, <1>8 DEF Next

--------------------------------------------------------------------------------
(* The exit code and the unwinding *)

\* The exit code tells a failure from a requested stop, in whatever order they come.
THEOREM ExitCodeRight == Spec => []ExitCodeHonest
<1>1. LifecycleInv => ExitCodeHonest
    BY DEF LifecycleInv, MainInv, ExitCodeHonest
<1> QED BY LifecycleInit, LifecycleNext, <1>1, PTL DEF Spec

\* _amain returns when both services have unwound.
THEOREM ServicesUnwound == Spec => []UnwoundCleanly
<1>1. LifecycleInv => UnwoundCleanly
    BY DEF LifecycleInv, MainInv, UnwoundCleanly
<1> QED BY LifecycleInit, LifecycleNext, <1>1, PTL DEF Spec

--------------------------------------------------------------------------------
(* The lifecycle, seen through the composition *)

LEMMA LifeStep == [SNext]_allVars => [Next]_vars
BY DEF SNext, Life, Job, allVars, vars

\* The requests neither spoil the exit code nor keep the services from unwinding.
THEOREM ShutdownUnwinds == SSpec => [](ExitCodeHonest /\ UnwoundCleanly)
<1>1. SInit => LifecycleInv
    BY LifecycleInit DEF SInit
<1>2. LifecycleInv /\ [SNext]_allVars => LifecycleInv'
    BY LifeStep, LifecycleNext
<1>3. LifecycleInv => ExitCodeHonest /\ UnwoundCleanly
    BY DEF LifecycleInv, MainInv, ExitCodeHonest, UnwoundCleanly
<1> QED BY <1>1, <1>2, <1>3, PTL DEF SSpec

\* _run_bot ends by itself only behind the closing of the webhook.
LEMMA BotEndsBehindWebhook ==
    ASSUME [Next]_vars, bot' \in {"done", "failed"}
    PROVE  bot \in {"closing_webhook", bot'}
<1>1. CASE UNCHANGED vars
    BY <1>1 DEF vars
<1>2. CASE Services
    BY <1>2 DEF Services, HealthWakes, HealthJoined, BotWakes, BotCloses, BotClosed, BotJoined,
                BotEnds, botVars
<1>3. CASE Main
    BY <1>3 DEF Main, GatherReturns, GatherRaises, Collected, CancelAll, Exit, botVars
<1>4. CASE Signal \/ Server \/ ServerRaises \/ ServerAborts \/ GatewayEnds
    BY <1>4 DEF Signal, Server, ServerStarts, ServerExits, ServerRaises, ServerAborts,
                GatewayEnds, botVars
<1> QED BY <1>1, <1>2, <1>3, <1>4 DEF Next

--------------------------------------------------------------------------------
(* The clients *)

\* Every client that is not closed is the notifier's own; one is being closed only while
\* _run_bot is at it, and once it has begun what is open was created later.
ClientInv ==
    /\ clients \in Seq({"open", "closing", "closed"})
    /\ _client \in 0..Len(clients)
    /\ late \subseteq 1..Len(clients)
    /\ \A c \in 1..Len(clients) : clients[c] # "closed" => c = _client
    /\ \A c \in 1..Len(clients) : clients[c] = "closing" => bot = "closing_webhook"
    /\ bot \in {"closing_webhook", "done", "failed"} =>
          \A c \in 1..Len(clients) : clients[c] = "open" => c \in late

LEMMA ClientInit == SInit => ClientInv
BY DEF SInit, Init, S!Init, ClientInv

LEMMA ClientLife == ClientInv /\ Life => ClientInv'
<1> SUFFICES ASSUME ClientInv, Life PROVE ClientInv'
    OBVIOUS
<1>0. bot' \in {"done", "failed"} => bot \in {"closing_webhook", bot'}
    BY BotEndsBehindWebhook DEF Life
<1>1. CASE bot' = "closing_webhook" /\ bot # "closing_webhook"
    <2>1. S!CloseBegins
        BY <1>1 DEF Life
    <2>2. CASE _client = 0
        BY <1>1, <2>1, <2>2 DEF S!CloseBegins, ClientInv
    <2>3. CASE _client # 0
        <3>1. clients' = [clients EXCEPT ![_client] = "closing"] /\ UNCHANGED <<_client, late>>
            BY <2>1, <2>3 DEF S!CloseBegins
        <3>2. /\ clients' \in Seq({"open", "closing", "closed"})
              /\ Len(clients') = Len(clients)
              /\ \A c \in 1..Len(clients) : clients'[c] = IF c = _client THEN "closing" ELSE clients[c]
            BY <3>1, <2>3 DEF ClientInv
        <3> QED BY <1>1, <3>1, <3>2 DEF ClientInv
    <2> QED BY <2>2, <2>3
<1>2. CASE bot = "closing_webhook" /\ bot' # "closing_webhook"
    <2>1. S!CloseEnds
        BY <1>2 DEF Life
    <2>2. /\ clients' \in Seq({"open", "closing", "closed"})
          /\ Len(clients') = Len(clients)
          /\ \A c \in 1..Len(clients) :
                clients'[c] = IF clients[c] = "closing" THEN "closed" ELSE clients[c]
        BY <2>1 DEF S!CloseEnds, ClientInv
    <2>3. /\ _client' = IF _client # 0 /\ clients[_client] = "closing" THEN 0 ELSE _client
          /\ UNCHANGED late
        BY <2>1 DEF S!CloseEnds
    <2> QED BY <1>2, <2>2, <2>3 DEF ClientInv
<1>3. CASE ~(bot' = "closing_webhook" /\ bot # "closing_webhook")
           /\ ~(bot = "closing_webhook" /\ bot' # "closing_webhook")
    <2>1. UNCHANGED <<_client, clients, late>>
        BY <1>3 DEF Life, S!ClientsStay
    <2> QED BY <1>0, <1>3, <2>1 DEF ClientInv
<1> QED BY <1>1, <1>2, <1>3

LEMMA ClientJob == \A j \in Jobs : ClientInv /\ Job(j) => ClientInv'
<1> SUFFICES ASSUME NEW j \in Jobs, ClientInv, Job(j) PROVE ClientInv'
    OBVIOUS
<1>0. UNCHANGED bot
    BY DEF Job, vars
<1>1. CASE UNCHANGED <<_client, clients, late>>
    BY <1>0, <1>1 DEF ClientInv
<1>2. CASE S!Send(j, Closed) /\ _client = 0
    <2>1. /\ clients' = Append(clients, "open")
          /\ _client' = Len(clients')
          /\ late' = IF Closed THEN late \cup {_client'} ELSE late
        BY <1>2 DEF S!Send
    <2>2. /\ clients' \in Seq({"open", "closing", "closed"})
          /\ Len(clients') = Len(clients) + 1
          /\ clients'[Len(clients) + 1] = "open"
          /\ \A c \in 1..Len(clients) : clients'[c] = clients[c] /\ clients[c] = "closed"
        BY <1>2, <2>1 DEF ClientInv
    <2>3. Len(clients) \in Nat /\ late \subseteq 1..Len(clients)
        BY <1>2 DEF ClientInv
    <2>4. late' \subseteq 1..Len(clients')
        <3>1. late' \subseteq late \cup {Len(clients) + 1}
            BY <2>1, <2>2
        <3> QED BY <2>2, <2>3, <3>1
    <2> QED BY <1>0, <1>2, <2>1, <2>2, <2>4 DEF ClientInv, Closed
<1>3. S!Send(j, Closed) /\ _client # 0 => UNCHANGED <<_client, clients, late>>
    BY DEF S!Send
<1>4. S!Arrive(j) \/ S!Post(j) \/ S!Describe(j) \/ S!Ask(j) \/ S!Sent(j)
        => UNCHANGED <<_client, clients, late>>
    BY DEF S!Arrive, S!Post, S!Describe, S!Ask, S!Sent
<1> QED BY <1>1, <1>2, <1>3, <1>4 DEF Job

LEMMA ClientNext == ClientInv /\ [SNext]_allVars => ClientInv'
<1>1. ClientInv /\ UNCHANGED allVars => ClientInv'
    BY DEF allVars, vars, S!servicesVars, ClientInv
<1> QED BY <1>1, ClientLife, ClientJob DEF SNext

\* However many requests post before, while and after the notifier is closed, no client is
\* lost, and only those of late posts are left open.
THEOREM NoClientLeaks == SSpec => []ClientsClosed
<1>1. ClientInv => ClientsClosed
    BY DEF ClientInv, ClientsClosed, S!NoOrphanClient
<1> QED BY ClientInit, ClientNext, <1>1, PTL DEF SSpec

--------------------------------------------------------------------------------
(* The requests *)

Answers == {"description", "next", "failure"}

\* The models are tried one by one, each once.
LEMMA ModelsProperties ==
    /\ S!ModelsToTry \in Seq(STRING)
    /\ Once(S!ModelsToTry)
    /\ Len(S!ModelsToTry) \in Nat \ {0}
<1> DEFINE others == STRING \ {Model}
           rest == Keep(Fallbacks, others)
<1>1. Model \in STRING /\ Fallbacks \in Seq(STRING) /\ Once(Fallbacks)
    <2>1. Fallbacks \in Seq(STRING) => DOMAIN Fallbacks = 1..Len(Fallbacks)
        BY LenProperties
    <2> QED BY <2>1, ShutdownAssumption DEF Once
<1>2. S!ModelsToTry = <<Model>> \o rest
    BY DEF S!ModelsToTry, S!Keep, Keep, S!FlattenSeq, FlattenSeq
<1>3. rest \in Seq(STRING) /\ Once(rest) /\ Elems(rest) = Elems(Fallbacks) \cap others
    <2> HIDE DEF others
    <2> QED BY <1>1, KeepType, KeepOnce, KeepElems
<1>4. Model \notin Elems(rest)
    BY <1>3
<1> HIDE DEF rest
<1>5. <<Model>> \in Seq(STRING) /\ Len(<<Model>>) = 1 /\ <<Model>>[1] = Model
    <2>1. <<>> \in Seq(STRING) /\ Len(<<>>) = 0 /\ <<Model>> = Append(<<>>, Model)
        BY EmptySeq
    <2> QED BY <1>1, <2>1, AppendProperties
<1>6. Len(rest) \in Nat
    BY <1>3, LenProperties
<1> DEFINE all == <<Model>> \o rest
<1>7. /\ all \in Seq(STRING) /\ Len(all) = 1 + Len(rest)
      /\ \A i \in 1..(1 + Len(rest)) : all[i] = IF i <= 1 THEN <<Model>>[i] ELSE rest[i - 1]
    <2>1. /\ all \in Seq(STRING) /\ Len(all) = Len(<<Model>>) + Len(rest)
          /\ \A i \in 1..(Len(<<Model>>) + Len(rest)) :
                all[i] = IF i <= Len(<<Model>>) THEN <<Model>>[i] ELSE rest[i - Len(<<Model>>)]
        BY <1>3, <1>5, ConcatProperties
    <2> QED BY <1>5, <2>1
<1> HIDE DEF all
<1>8. Once(all)
    <2>1. all[1] = Model /\ \A i \in 2..(1 + Len(rest)) : all[i] = rest[i - 1] /\ i - 1 \in 1..Len(rest)
        BY <1>5, <1>6, <1>7
    <2>2. \A i \in 2..(1 + Len(rest)) : all[i] # Model
        BY <1>4, <2>1 DEF Elems
    <2>3. ASSUME NEW i \in 2..(1 + Len(rest)), NEW k \in 2..(1 + Len(rest)), all[i] = all[k]
          PROVE  i = k
        <3>1. rest[i - 1] = rest[k - 1] /\ i - 1 \in 1..Len(rest) /\ k - 1 \in 1..Len(rest)
            BY <2>1, <2>3
        <3>2. i - 1 = k - 1
            BY <1>3, <3>1 DEF Once
        <3> QED BY <1>6, <3>2
    <2>4. \A i \in 1..(1 + Len(rest)) : i = 1 \/ i \in 2..(1 + Len(rest))
        BY <1>6
    <2> QED BY <1>7, <2>1, <2>2, <2>3, <2>4 DEF Once
<1> QED BY <1>2, <1>6, <1>7, <1>8 DEF all

\* The configured model is the first, the fallbacks follow in their order, and none is left out.
LEMMA ModelsOrder ==
    LET M == S!ModelsToTry
    IN  /\ M[1] = Model
        /\ \A i \in 2..Len(M) : \E f \in 1..Len(Fallbacks) :
              M[i] = Fallbacks[f] /\ ElemsBefore(M, i) = {Model} \cup ElemsBefore(Fallbacks, f)
        /\ Elems(M) = {Model} \cup Elems(Fallbacks)
<1> DEFINE others == STRING \ {Model}
           rest == Keep(Fallbacks, others)
           all == S!ModelsToTry
<1>1. Model \in STRING /\ Fallbacks \in Seq(STRING) /\ Len(Fallbacks) \in Nat
    BY ShutdownAssumption, LenProperties
<1>2. all = <<Model>> \o rest
    BY DEF S!ModelsToTry, S!Keep, Keep, S!FlattenSeq, FlattenSeq
<1>3. /\ rest \in Seq(STRING) /\ Elems(rest) = Elems(Fallbacks) \cap others
      /\ \A i \in 1..Len(rest) : \E f \in 1..Len(Fallbacks) :
            rest[i] = Fallbacks[f] /\ ElemsBefore(rest, i) = ElemsBefore(Fallbacks, f) \cap others
    <2> HIDE DEF others
    <2>1. rest \in Seq(STRING) /\ Elems(rest) = Elems(Fallbacks) \cap others
        BY <1>1, KeepType, KeepElems
    <2>2. \A i \in 1..Len(rest) : \E f \in 1..Len(Fallbacks) :
             rest[i] = Fallbacks[f] /\ ElemsBefore(rest, i) = ElemsBefore(Fallbacks, f) \cap others
        BY <1>1, KeepOrder
    <2> QED BY <2>1, <2>2
<1> HIDE DEF rest
<1>4. Elems(Fallbacks) \subseteq STRING /\ \A f \in 1..Len(Fallbacks) : ElemsBefore(Fallbacks, f) \subseteq STRING
    <2>1. \A f \in 1..Len(Fallbacks) : Fallbacks[f] \in STRING
        BY <1>1
    <2>2. \A f \in 1..Len(Fallbacks) : \A g \in 1..(f - 1) : Fallbacks[g] \in STRING
        BY <1>1, <2>1
    <2>3. Elems(Fallbacks) \subseteq STRING
        BY <2>1, Zenon DEF Elems
    <2> QED BY <2>2, <2>3, Zenon DEF ElemsBefore
<1>5. <<Model>> \in Seq(STRING) /\ Len(<<Model>>) = 1 /\ <<Model>>[1] = Model
    <2>1. <<>> \in Seq(STRING) /\ Len(<<>>) = 0 /\ <<Model>> = Append(<<>>, Model)
        BY EmptySeq
    <2> QED BY <1>1, <2>1, AppendProperties
<1> HIDE DEF all
<1>6. Len(rest) \in Nat /\ Len(all) = 1 + Len(rest)
      /\ \A i \in 1..(1 + Len(rest)) : all[i] = IF i <= 1 THEN <<Model>>[i] ELSE rest[i - 1]
    <2>1. /\ Len(<<Model>> \o rest) = Len(<<Model>>) + Len(rest)
          /\ \A i \in 1..(Len(<<Model>>) + Len(rest)) :
                (<<Model>> \o rest)[i] = IF i <= Len(<<Model>>) THEN <<Model>>[i] ELSE rest[i - Len(<<Model>>)]
        BY <1>3, <1>5, ConcatProperties
    <2> QED BY <1>2, <1>3, <1>5, <2>1, LenProperties
<1>7. all[1] = Model /\ \A i \in 1..Len(rest) : all[i + 1] = rest[i]
    BY <1>5, <1>6
<1>8. \A i \in 1..(Len(rest) + 1) : ElemsBefore(all, i + 1) = {Model} \cup ElemsBefore(rest, i)
    <2> SUFFICES ASSUME NEW i \in 1..(Len(rest) + 1)
                 PROVE  ElemsBefore(all, i + 1) = {Model} \cup ElemsBefore(rest, i)
        OBVIOUS
    <2>1. \A k \in 1..((i + 1) - 1) : k = 1 \/ (k - 1 \in 1..(i - 1) /\ all[k] = rest[k - 1])
        BY <1>6, <1>7
    <2>2. \A k \in 1..(i - 1) : k + 1 \in 1..((i + 1) - 1) /\ all[k + 1] = rest[k]
        BY <1>6, <1>7
    <2>3. 1 \in 1..((i + 1) - 1)
        BY <1>6
    <2>4. ASSUME NEW e \in ElemsBefore(all, i + 1) PROVE e \in {Model} \cup ElemsBefore(rest, i)
        BY <1>7, <2>1 DEF ElemsBefore
    <2>5. ASSUME NEW e \in ElemsBefore(rest, i) PROVE e \in ElemsBefore(all, i + 1)
        <3>1. PICK k \in 1..(i - 1) : e = rest[k]
            BY EarlierAt
        <3>2. k + 1 \in 1..((i + 1) - 1) /\ all[k + 1] = e
            BY <2>2, <3>1
        <3> QED BY <3>2, Zenon DEF ElemsBefore
    <2>6. Model \in ElemsBefore(all, i + 1)
        BY <1>7, <2>3, Zenon DEF ElemsBefore
    <2> QED BY <2>4, <2>5, <2>6
<1>9. Elems(all) = {Model} \cup Elems(rest)
    <2>1. Len(rest) + 1 \in 1..(Len(rest) + 1) /\ (Len(rest) + 1 + 1) - 1 = Len(all)
          /\ (Len(rest) + 1) - 1 = Len(rest)
        BY <1>6
    <2>2. ElemsBefore(all, Len(rest) + 1 + 1) = Elems(all) /\ ElemsBefore(rest, Len(rest) + 1) = Elems(rest)
        BY <2>1, Zenon DEF ElemsBefore, Elems
    <2> QED BY <1>8, <2>1, <2>2
<1>10. ASSUME NEW i \in 2..Len(all)
       PROVE  \E f \in 1..Len(Fallbacks) :
                 all[i] = Fallbacks[f] /\ ElemsBefore(all, i) = {Model} \cup ElemsBefore(Fallbacks, f)
    <2>1. i - 1 \in 1..Len(rest) /\ i - 1 \in 1..(Len(rest) + 1) /\ (i - 1) + 1 = i
        BY <1>6
    <2>2. PICK f \in 1..Len(Fallbacks) : rest[i - 1] = Fallbacks[f] /\ ElemsBefore(rest, i - 1) = ElemsBefore(Fallbacks, f) \cap others
        BY <1>3, <2>1
    <2>3. all[i] = rest[i - 1] /\ ElemsBefore(all, i) = {Model} \cup ElemsBefore(rest, i - 1)
        BY <1>7, <1>8, <2>1
    <2> QED BY <1>4, <2>2, <2>3
<1> QED BY <1>3, <1>4, <1>7, <1>9, <1>10 DEF all

\* How far a request has come with its description: what it asked so far are the first of
\* the models, and all but the last have told it to go on.
Asking(a, n) ==
    /\ a \in Seq([model : STRING, answer : Answers])
    /\ Len(a) <= n
    /\ \A i \in 1..Len(a) : a[i].model = S!ModelsToTry[i]
    /\ \A i \in 1..(Len(a) - 1) : a[i].answer = "next"

JobInv ==
    LET n == Len(S!ModelsToTry)
    IN  /\ job \in [Jobs -> {"idle", "handling", "asking", "ready", "posting", "done", "cancelled"}]
        /\ text \in [Jobs -> {"none", "result", "description", "failure"}]
        /\ asked = [j \in Jobs |-> asked[j]]
        /\ \A j \in Jobs :
              /\ Asking(asked[j], n)
              /\ job[j] \in {"idle", "handling"} => asked[j] = <<>> /\ text[j] = "none"
              /\ job[j] = "asking" => /\ Len(asked[j]) < n /\ text[j] = "none"
                                      /\ \A i \in 1..Len(asked[j]) : asked[j][i].answer = "next"
              /\ text[j] = "description" =>
                    Len(asked[j]) > 0 /\ asked[j][Len(asked[j])].answer = "description"
              /\ text[j] = "failure" =>
                    Len(asked[j]) > 0 /\ (asked[j][Len(asked[j])].answer = "failure" \/ Len(asked[j]) = n)

LEMMA JobInit == SInit => JobInv
<1>1. <<>> \in Seq([model : STRING, answer : Answers]) /\ Len(<<>>) = 0
    BY EmptySeq
<1>2. \A n \in Nat \ {0} : Asking(<<>>, n)
    BY <1>1 DEF Asking
<1> QED BY <1>1, <1>2, ModelsProperties DEF SInit, S!Init, JobInv

\* One answer more.
LEMMA AskStep ==
    ASSUME NEW a, NEW n \in Nat, Asking(a, n), Len(a) < n, n = Len(S!ModelsToTry),
           \A i \in 1..Len(a) : a[i].answer = "next",
           NEW answer \in Answers, NEW b,
           b = Append(a, [model |-> S!ModelsToTry[Len(a) + 1], answer |-> answer])
    PROVE  /\ Asking(b, n) /\ Len(b) = Len(a) + 1 /\ b[Len(b)].answer = answer
           /\ answer = "next" => \A i \in 1..Len(b) : b[i].answer = "next"
<1> DEFINE new == [model |-> S!ModelsToTry[Len(a) + 1], answer |-> answer]
<1>1. a \in Seq([model : STRING, answer : Answers]) /\ Len(a) \in Nat
    BY LenProperties DEF Asking
<1>2. S!ModelsToTry[Len(a) + 1] \in STRING
    <2>1. Len(a) + 1 \in 1..Len(S!ModelsToTry)
        BY <1>1
    <2> QED BY <2>1, ModelsProperties, ElementOfSeq
<1>3. new \in [model : STRING, answer : Answers]
    BY <1>2
<1> HIDE DEF new
<1>4. /\ b \in Seq([model : STRING, answer : Answers]) /\ Len(b) = Len(a) + 1
      /\ \A i \in 1..Len(a) : b[i] = a[i]
      /\ b[Len(a) + 1] = new
    BY <1>1, <1>3, AppendProperties DEF new
<1>5. new.model = S!ModelsToTry[Len(a) + 1] /\ new.answer = answer
    BY DEF new
<1>6. \A i \in 1..Len(b) : i \in 1..Len(a) \/ i = Len(a) + 1
    BY <1>1, <1>4
<1>7. Len(b) <= n /\ (\A i \in 1..(Len(b) - 1) : i \in 1..Len(a))
    BY <1>1, <1>4
<1> QED BY <1>4, <1>5, <1>6, <1>7 DEF Asking

LEMMA JobLife == JobInv /\ Life => JobInv'
<1> SUFFICES ASSUME JobInv, Life PROVE JobInv'
    OBVIOUS
<1>1. UNCHANGED <<asked, text>> /\ (UNCHANGED job \/ S!Cancel)
    BY DEF Life, S!Cancel, S!JobsStay
<1>2. CASE UNCHANGED job
    BY <1>1, <1>2 DEF JobInv
<1>3. CASE S!Cancel
    <2>1. job' = [j \in Jobs |-> IF job[j] \in {"idle", "done"} THEN job[j] ELSE "cancelled"]
        BY <1>3 DEF S!Cancel
    <2> QED BY <1>1, <2>1 DEF JobInv
<1> QED BY <1>1, <1>2, <1>3

LEMMA JobNext == \A j \in Jobs : JobInv /\ Job(j) => JobInv'
<1> SUFFICES ASSUME NEW j \in Jobs, JobInv, Job(j) PROVE JobInv'
    OBVIOUS
<1> DEFINE n == Len(S!ModelsToTry)
<1>0. n \in Nat \ {0}
    BY ModelsProperties
<1>1. CASE S!Arrive(j)
    BY <1>1 DEF S!Arrive, JobInv
<1>2. CASE S!Post(j)
    BY <1>2 DEF S!Post, JobInv
<1>3. CASE S!Describe(j)
    BY <1>0, <1>3, EmptySeq DEF S!Describe, JobInv
<1>4. CASE S!Ask(j)
    <2>1. PICK answer \in Answers :
            LET now_asked == Append(asked[j], [model |-> S!ModelsToTry[Len(asked[j]) + 1],
                                               answer |-> answer])
                over      == answer # "next" \/ Len(now_asked) = Len(S!ModelsToTry)
            IN  /\ asked' = [asked EXCEPT ![j] = now_asked]
                /\ text' = IF ~over THEN text
                           ELSE [text EXCEPT ![j] = IF answer = "description" THEN answer
                                                    ELSE "failure"]
                /\ job' = IF over THEN [job EXCEPT ![j] = "ready"] ELSE job
        BY <1>4 DEF S!Ask, Answers
    <2> DEFINE b == Append(asked[j], [model |-> S!ModelsToTry[Len(asked[j]) + 1], answer |-> answer])
               over == answer # "next" \/ Len(b) = n
    <2>2. /\ job[j] = "asking" /\ Asking(asked[j], n) /\ Len(asked[j]) < n /\ text[j] = "none"
          /\ \A i \in 1..Len(asked[j]) : asked[j][i].answer = "next"
        BY <1>4 DEF S!Ask, JobInv
    <2>3a. b = Append(asked[j], [model |-> S!ModelsToTry[Len(asked[j]) + 1], answer |-> answer])
           /\ n = Len(S!ModelsToTry) /\ n \in Nat
        BY <1>0
    <2> HIDE DEF b, n
    <2>3. /\ Asking(b, n) /\ Len(b) = Len(asked[j]) + 1 /\ b[Len(b)].answer = answer
          /\ answer = "next" => \A i \in 1..Len(b) : b[i].answer = "next"
        <3>1. ASSUME NEW a, a = asked[j]
              PROVE  /\ Asking(b, n) /\ Len(b) = Len(a) + 1 /\ b[Len(b)].answer = answer
                     /\ answer = "next" => \A i \in 1..Len(b) : b[i].answer = "next"
            <4>1. /\ Asking(a, n) /\ Len(a) < n /\ \A i \in 1..Len(a) : a[i].answer = "next"
                  /\ b = Append(a, [model |-> S!ModelsToTry[Len(a) + 1], answer |-> answer])
                BY <2>2, <2>3a, <3>1
            <4>2. n = Len(S!ModelsToTry) /\ n \in Nat
                BY <2>3a
            <4>3. Asking(b, n)
                BY <4>1, <4>2, AskStep
            <4>4. Len(b) = Len(a) + 1
                BY <4>1, <4>2, AskStep
            <4>5. b[Len(b)].answer = answer
                BY <4>1, <4>2, AskStep
            <4>6. answer = "next" => \A i \in 1..Len(b) : b[i].answer = "next"
                BY <4>1, <4>2, AskStep
            <4> QED BY <4>3, <4>4, <4>5, <4>6
        <3> QED BY <3>1
    <2>4. /\ asked' = [asked EXCEPT ![j] = b]
          /\ text' = IF ~over THEN text
                     ELSE [text EXCEPT ![j] = IF answer = "description" THEN answer ELSE "failure"]
          /\ job' = IF over THEN [job EXCEPT ![j] = "ready"] ELSE job
        BY <2>1 DEF b, n
    <2>5. Len(asked[j]) \in Nat
        BY <2>2, LenProperties DEF Asking
    <2>6. Len(b) <= n /\ Len(b) > 0
        BY <2>3, <2>5 DEF Asking
    <2>7. /\ asked'[j] = b /\ asked' = [k \in Jobs |-> asked'[k]]
          /\ \A k \in Jobs \ {j} : asked'[k] = asked[k]
        BY <2>4 DEF JobInv
    <2>8. CASE over
        <3>1. /\ job' = [job EXCEPT ![j] = "ready"]
              /\ text' = [text EXCEPT ![j] = IF answer = "description" THEN answer ELSE "failure"]
            BY <2>4, <2>8
        <3> QED BY <2>3, <2>6, <2>7, <2>8, <3>1 DEF JobInv, Answers, n
    <2>9. CASE ~over
        <3>1. job' = job /\ text' = text /\ answer = "next" /\ Len(b) < n
            BY <1>0, <2>4, <2>6, <2>9
        <3> QED BY <2>2, <2>3, <2>6, <2>7, <3>1 DEF JobInv, n
    <2> QED BY <2>8, <2>9
<1>5. CASE S!Send(j, Closed)
    BY <1>5 DEF S!Send, JobInv
<1>6. CASE S!Sent(j)
    BY <1>6 DEF S!Sent, JobInv
<1> QED BY <1>1, <1>2, <1>3, <1>4, <1>5, <1>6 DEF Job

LEMMA JobInvariant == SSpec => []JobInv
<1>1. JobInv /\ UNCHANGED allVars => JobInv'
    BY DEF allVars, S!servicesVars, JobInv
<1>2. JobInv /\ [SNext]_allVars => JobInv'
    BY <1>1, JobLife, JobNext DEF SNext
<1> QED BY JobInit, <1>2, PTL DEF SSpec

\* Types, with the sequences of what was asked and of all clients.
THEOREM ShutdownTypeCorrect == SSpec => []ShutdownTypeOK
<1>1. SInit => LifecycleInv
    BY LifecycleInit DEF SInit
<1>2. LifecycleInv /\ [SNext]_allVars => LifecycleInv'
    BY LifeStep, LifecycleNext
<1>3. LifecycleInv /\ ClientInv /\ JobInv => ShutdownTypeOK
    <2> SUFFICES ASSUME LifecycleInv, ClientInv, JobInv PROVE ShutdownTypeOK
        OBVIOUS
    <2>1. DOMAIN clients = 1..Len(clients)
        BY LenProperties DEF ClientInv
    <2> QED BY <2>1 DEF LifecycleInv, ClientInv, JobInv, Asking, Answers, ShutdownTypeOK, S!TypeOK
<1> QED BY <1>1, <1>2, <1>3, ClientInit, ClientNext, JobInvariant, PTL DEF SSpec

\* However long the list of models and whatever they answer, and wherever the shutdown
\* cuts a request off: the configured model is asked first, then the fallbacks in their
\* order, no model twice and none after an answer that ended the search; what is posted
\* is the last one's answer.
THEOREM ModelsAskedInTurn == SSpec => []AskedInTurn
<1>1. ASSUME JobInv PROVE AskedInTurn
    <2> DEFINE M == S!ModelsToTry
    <2>1. ASSUME NEW j \in Jobs, NEW a, a = asked[j]
          PROVE  /\ \A i \in DOMAIN a :
                       /\ a[i].model \notin S!AskedBefore(a, i)
                       /\ IF i = 1 THEN a[i].model = Model
                          ELSE \E f \in DOMAIN Fallbacks :
                                  /\ a[i].model = Fallbacks[f]
                                  /\ S!AskedBefore(a, i) = {Model} \cup {Fallbacks[g] : g \in 1..(f - 1)}
                       /\ i < Len(a) => a[i].answer = "next"
                 /\ text[j] = "description" => a # <<>> /\ a[Len(a)].answer = "description"
                 /\ text[j] = "failure" =>
                       /\ a # <<>>
                       /\ \/ a[Len(a)].answer = "failure"
                          \/ S!AskedBefore(a, Len(a) + 1) = {Model} \cup {Fallbacks[f] : f \in DOMAIN Fallbacks}
        <3>1. /\ a \in Seq([model : STRING, answer : Answers]) /\ Len(a) \in Nat
              /\ DOMAIN a = 1..Len(a) /\ Len(a) <= Len(M)
              /\ \A i \in 1..Len(a) : a[i].model = M[i]
              /\ \A i \in 1..(Len(a) - 1) : a[i].answer = "next"
            <4>1. Asking(a, Len(M))
                BY <1>1, <2>1 DEF JobInv
            <4> QED BY <4>1, LenProperties DEF Asking
        <3>2. Once(M) /\ Len(M) \in Nat
            BY ModelsProperties
        <3>3. /\ M[1] = Model
              /\ \A i \in 2..Len(M) : \E f \in 1..Len(Fallbacks) :
                    M[i] = Fallbacks[f] /\ ElemsBefore(M, i) = {Model} \cup ElemsBefore(Fallbacks, f)
              /\ Elems(M) = {Model} \cup Elems(Fallbacks)
            BY ModelsOrder
        <3>4. DOMAIN Fallbacks = 1..Len(Fallbacks)
            BY ShutdownAssumption, LenProperties
        <3> HIDE DEF M
        <3>5. \A i \in 1..(Len(a) + 1) : S!AskedBefore(a, i) = ElemsBefore(M, i)
            <4> SUFFICES ASSUME NEW i \in 1..(Len(a) + 1) PROVE S!AskedBefore(a, i) = ElemsBefore(M, i)
                OBVIOUS
            <4>1. \A k \in 1..(i - 1) : a[k].model = M[k]
                BY <3>1
            <4>2. S!AskedBefore(a, i) = {a[k].model : k \in 1..(i - 1)} /\ ElemsBefore(M, i) = {M[k] : k \in 1..(i - 1)}
                BY DEF S!AskedBefore, ElemsBefore
            <4> QED BY <4>1, <4>2
        <3>6. ASSUME NEW i \in DOMAIN a
              PROVE  /\ a[i].model \notin S!AskedBefore(a, i)
                     /\ IF i = 1 THEN a[i].model = Model
                        ELSE \E f \in DOMAIN Fallbacks :
                                /\ a[i].model = Fallbacks[f]
                                /\ S!AskedBefore(a, i) = {Model} \cup {Fallbacks[g] : g \in 1..(f - 1)}
                     /\ i < Len(a) => a[i].answer = "next"
            <4>1. i \in 1..(Len(a) + 1) /\ i \in 1..Len(M) /\ a[i].model = M[i]
                BY <3>1, <3>2
            <4>2. S!AskedBefore(a, i) = ElemsBefore(M, i)
                BY <3>5, <4>1
            <4>3. M[i] \notin ElemsBefore(M, i)
                <5>1. \A k \in 1..(i - 1) : k \in 1..Len(M) /\ k # i
                    BY <3>2, <4>1
                <5>2. \A k \in 1..(i - 1) : M[i] # M[k]
                    BY <3>2, <4>1, <5>1 DEF Once
                <5> QED BY <5>2, EarlierAt
            <4>4. i # 1 => i \in 2..Len(M)
                BY <3>2, <4>1
            <4>5. i # 1 => \E f \in DOMAIN Fallbacks :
                              M[i] = Fallbacks[f] /\ ElemsBefore(M, i) = {Model} \cup ElemsBefore(Fallbacks, f)
                BY <3>3, <3>4, <4>4
            <4>6. i < Len(a) => a[i].answer = "next"
                BY <3>1
            <4>7. \A f : ElemsBefore(Fallbacks, f) = {Fallbacks[g] : g \in 1..(f - 1)}
                BY DEF ElemsBefore
            <4> QED BY <3>3, <4>1, <4>2, <4>3, <4>5, <4>6, <4>7
        <3>7. Len(a) > 0 => a # <<>>
            BY EmptySeq
        <3>8. Len(a) = Len(M) => S!AskedBefore(a, Len(a) + 1) = {Model} \cup {Fallbacks[f] : f \in DOMAIN Fallbacks}
            <4>1. Len(a) + 1 \in 1..(Len(a) + 1) /\ (Len(a) + 1) - 1 = Len(a)
                BY <3>1
            <4>2. Len(a) = Len(M) => S!AskedBefore(a, Len(a) + 1) = Elems(M)
                <5>1. S!AskedBefore(a, Len(a) + 1) = ElemsBefore(M, Len(a) + 1)
                    BY <3>5, <4>1
                <5> QED BY <3>1, <5>1, EarlierAll
            <4> QED BY <3>3, <3>4, <4>2 DEF Elems
        <3>9. /\ text[j] = "description" => Len(a) > 0 /\ a[Len(a)].answer = "description"
              /\ text[j] = "failure" => Len(a) > 0 /\ (a[Len(a)].answer = "failure" \/ Len(a) = Len(M))
            BY <1>1, <2>1 DEF JobInv, M
        <3> QED BY <3>6, <3>7, <3>8, <3>9
    <2> QED BY <2>1, Zenon DEF AskedInTurn, S!AskedInTurn
<1> QED BY <1>1, JobInvariant, PTL
================================================================================
