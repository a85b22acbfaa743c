# RunnerUP: verification project

RunnerUP is a Discord bot that runs the Python code found in messages, in a
short-lived subprocess, under limits. This directory holds TLA+ modules that
model its parts, TLC configurations that check them on small instances, and
proofs that TLAPS checks for every instance. Paths below are relative to the
repository; `app/` stands for `src/app/`.

## 1. The system

One process, one asyncio event loop, no persistent state. The hard behaviour is
therefore not parallelism but *interleaving at awaits*: between two awaits a
task runs alone, at every await anything else may run, be cancelled or fail.

| Component | Code | State | Operations | Talks to |
|---|---|---|---|---|
| Discord listener | `app/bot/discord_bot.py` | none of its own | `on_message`, `/code` | code parser, pipeline |
| Code parser | `app/utils/code_parser.py` | none (pure) | `extract_python_code`, `extract_all_python_code` | - |
| Message pipeline | `app/bot/message_handler.py`, `app/utils/formatter.py` | one task per request: its status message, its replies, its prompt | `handle` (`_process`, `_deliver_result`, `_send_channel`), the input prompt, `handle_command` | everything below, by calls and awaits |
| Rate limiter | `app/services/rate_limiter.py` | deques of timestamps, time of the last sweep | `try_acquire`, `global_count`, `active_users` | clock |
| Static validation | `app/executor/validator.py` | none (pure) | `validate_length`, `validate_security`, `extract_dependencies`, `requires_input` | - |
| Concurrency guard | `app/services/concurrency.py` | counter, `asyncio.Semaphore` | `acquire`, `release`, `is_full` | event loop |
| Executor | `app/executor/executor.py`, `models.py` | one call: child process, two pipes, flags | `execute` | child process |
| Runner | `app/executor/runner.py` | the child: limits, the program | `main` | kernel |
| Webhook, LLM | `app/services/webhook.py`, `llm.py` | a lazily created HTTP client each | `send`, `describe_code`, `close` | HTTP services |
| Lifecycle | `app/main.py` | a `stop` event, four tasks | `_run_bot`, `_run_health_server`, `_amain`, signals | uvicorn, discord.py |
| Configuration | `app/config.py` | constants | `validate` | environment |

What makes each component correct, and what is hard about it:

* **Rate limiter.** Over *every* stretch of time the limits hold, although it
  decides by deques that are pruned by whoever calls, swept and deleted; nothing
  younger than a window is forgotten; memory stays bounded by the limits and by
  the users of the last two windows; `retry_after` is exact. Hard: off-by-one at
  the cutoff, a `defaultdict` that creates keys when it is read, long call
  sequences.
* **Guard.** No slot is lost or made up, no wakeup is lost, first come first
  served, refused only when full. Hard: cancellation of a waiter before, at and
  after the moment it is handed a slot; the gap between the handing over and the
  waiter's turn.
* **Executor.** The draining and the waits end in bounded time, the call keeps
  exactly the first `max_output` bytes of each stream, its verdict fits the
  outcome, and a kill reaches the whole group. Hard: the timeout against the end of
  the output, the exit and the reaping; processes that outlive the child and hold its
  pipes; files of the child that are read without a timeout; a verdict that rests on
  text which the cap may have cut.
* **Pipeline.** The slot is released on every path; every request is answered,
  once and in the right channel, or something it depended on failed; every
  request ends. Hard: each Discord call can fail in two ways, one caught and one
  not, and can have taken effect when it fails.
* **Input prompt.** Code runs on the input of its own author or not at all, and
  no listener or prompt is left. Hard: a chat message, a modal and two timers
  settle one future, from two tasks and a callback, one of which awaits before
  it looks; one user can have several prompts open.
* **Listener and parser.** The code handed on is what the listener's rules single
  out: supported blocks and no words between them, or one of the other sources. Hard:
  opening and closing fences look alike, and four sources of code and the commands
  exclude each other.
* **Lifecycle and services.** Whatever ends first - a signal, the bot, the
  server - ends all, in order, with an honest exit code, and no HTTP client is
  lost; the models are asked in their order. Hard: requests still post while the
  client is closed.

The full list of hazards, each at its line and with the properties that cover
it, is in `PROJECT.json`.

## 2. Modules

| Module | Models | Extends / instantiates |
|---|---|---|
| `RateLimiter` | the limiter; one call is one step, since `try_acquire` has no await | |
| `RateLimiterHistory` | the limiter with the history of its grants | `RateLimiter`, `SlidingWindow` |
| `SlidingWindow` | abstract: the window that never forgets a grant | |
| `ConcurrencyGuard` | the guard over CPython's semaphore | `SlotQueue`, `SequenceFilter` |
| `SlotQueue` | abstract: a bounded first-come first-served line for the slots | `SequenceFilter` |
| `SubprocessExecutor` | one call of `execute` with its child and a helper process | |
| `MessageHandler` | the pipeline for several requests, composed with the guard | `ConcurrencyGuard` |
| `InputPrompt` | the prompt: request, listener task, modal and timers of several requests | |
| `PipCommand` | `handle_command` and the pip process it starts | |
| `SequenceFilter` | the elements of a sequence that are in a set, in a form that can be proved about | |
| `CodeParser` | the parser, as operators on sequences of tokens | `SequenceFilter` |
| `Listener` | `on_message` and `/code`, composed with the parser and the command | `CodeParser`, `PipCommand` |
| `Lifecycle` | `main.py`: bot, health server, signals, exit | |
| `Services` | the webhook notifier's client and the LLM's fallback over models | `SequenceFilter` |
| `Shutdown` | the lifecycle composed with requests that still describe and post | `Lifecycle`, `Services` |
| `MC*` | instances for TLC | |
| `*Proofs` | theorems (section 4): `RateLimiterProofs` (both limiter modules), `ConcurrencyGuardProofs`, `ExecutorProofs`, `MessageHandlerProofs`, `InputPromptProofs`, `ListenerProofs` (listener, parser and command), `ShutdownProofs` (lifecycle and shutdown) | the module proved about |
| `SequenceLemmas` | lemmas about naturals, `FlattenSeq` and `Keep` (with the order it keeps) that several proofs need | `SequenceFilter` |

### Correspondence

* **RateLimiter.** `user_hits`, `global_hits`, `last_sweep` are the fields; a
  deque is a sequence with its left end first, the `defaultdict` a function
  whose domain is the set of present keys. `TryAcquire` is the whole of
  `try_acquire`, sweep included, with its three outcomes; `GlobalCount` is the
  introspection call that prunes. Time is an integer, since the code only
  compares and subtracts it.
* **ConcurrencyGuard.** `in_flight` is the counter; `value`, `waiters` and `fut`
  are the semaphore's. A waiter's future is `pending`, `granted` (resolved, the
  task has not run yet), `cancelled`, or `doomed` (resolved, then the task was
  cancelled). `AcquireRefused/Now/Wait` are what `acquire` does before its
  await, `Resume` and `ResumeCancelled` what it does after it.
* **SubprocessExecutor.** `phase` is the await that `execute` is in; the flags
  are its locals. The child (the group's leader) and one helper are the
  environment: they may write, close their output, end in every way `runner.py`
  and the kernel allow and survive a `SIGKILL` for any time. `now` counts
  seconds from the start of the draining; time passes when the loop is idle. POSIX
  only. `Reap` is the reaping and the arrival of the return code in one step, where
  asyncio takes one turn of the loop. The input written to stdin is smaller than the pipe.
  `named` is where the first "MemoryError" in stderr ends, whoever wrote it: `_classify`
  sees it only if that is within the part kept (`NamesMemoryError`). `image` says whether
  there is a `*.png` or `*.jpg` that blocks its reader. `Collect` reads the images, when
  none of the first five blocks; `ReadBlocks` is the open or read that does not return. It is no await, so
  while the call is `Blocked` the loop does nothing, not even reap; it goes on when a
  surviving process lets it (`ReadEnds`), and else never.
* **MessageHandler.** `at` is the await a request is suspended in. The guard's
  variables are the handler's too and its actions are conjuncts of the
  handler's, so a step like `Announce` is the status message *and*
  `guard.acquire()`, as in the code. A Discord call ends well, with
  `HTTPException`, or with another exception before or after it took effect.
  The limiter's answer, pip's, the prompt's and the executor's result are left
  open. So is whether an analysis of the code raises (the verdict `unanalysable`): the
  first two analyses are in `Begin`, the third is reached behind pip, in `Installed`. `status` is what the channel shows of the "is thinking" message.
* **InputPrompt.** What the pipeline sees as one await, in full. `future` is the
  future raced for, `msg_task` the listener task together with the future of
  `bot.wait_for`, `modal` and `submitted` the authors whose modal is open or
  submitted but not acknowledged. `ListenerWakes`, `Acknowledged` and `Timeout`
  are the three that settle the future; `Finally` is the `finally` clause up to
  its await. `Chat(u)` is one message of a user: all his listeners hear it, and it
  may start a request of its own, as in the code. A button is pressed only by the
  author (`Press`); a modal stays open after its prompt is gone.
* **PipCommand.** `cmd` is the await `handle_command` is in. `ShowFinished` lies
  inside the `try` block and `ShowProblem` in its `except` clauses, so a failed
  edit of the result becomes a failure of the command.
* **CodeParser, Listener.** A message is generated as it was *written* - a lead
  (`!pip`, another command, `/code`, a first line `python`), segments that are
  prose or blocks with a language, behind any of these, attachments, a line end - and the listener
  sees only the text that results. `Scan` is the search for the regular expression,
  token by token: outside a block, on the line of a fence that may open one, or inside;
  `Blocks` is what `finditer` yields, `Extract` and `ExtractAll` the two functions of
  the parser; `Receive`, `Read` and `Choose` are `on_message` between its awaits.
* **Lifecycle.** `health` and `bot` are the two service coroutines, `server` and
  `gateway` the external tasks they supervise, `main` is `_amain` followed by
  `asyncio.run`'s cancellation of what is left. A bind failure leaves uvicorn by
  `sys.exit`, which ends the loop through every task (`ServerAborts`).
* **Services, Shutdown.** `clients` is every client ever created and `_client` the
  notifier's field; `Send` creates one when there is none and `CloseBegins`,
  `CloseEnds` are `close` before and after its await. `Ask` is one turn of
  `describe_code`'s loop over the models. `Shutdown` ties them to the lifecycle:
  requests arrive while the gateway runs, the notifier is closed in the step in
  which `_run_bot` has joined the bot's task, and `asyncio.run` cancels the
  requests that are left.

Definitions named as mutants in a comment are plausible bugs placed next to the
definition they would replace; with one in place the property listed with it in
`PROJECT.json` is violated.

## 3. Runs

| Run | Instance | Shows |
|---|---|---|
| `limiter` | 3 users, 2 per user, 3 in all, window 2, 6 ticks | `HitsBounded`, `GrantsSpaced`, `NothingForgotten`, `UsersSwept`, `RetryAfterExact`, and the refinement `ImplementsSlidingWindow` |
| `guard` | 5 tasks, 2 slots, queue of 2 | `SlotConservation`, `InFlightExact`, `NoLostWakeup`, `RefusedOnlyWhenFull`, `WaiterServed`, and the refinement `ImplementsSlotQueue` |
| `executor` | timeout 2 s, 1 byte kept, reads of at most 2, 2 writes per stream, a blocked reader watched for 1 s | `TypeOK`, `OutputExact`, `TimeBounded`, `HonestVerdict`, `GroupKilled`, `Returns` |
| `handler` | 3 requests, 1 slot, queue of 1 | `TypeOK`, `SlotsFollowRequests`, `AnswersHonest` |
| `handler_modes` | 2 requests, 1 slot, queue of 1, all 8 configurations | `AnsweredUnlessFault`, `ResultsRouted`, `ThinkingResolved`, `Finishes`, `UsesGuardFairly` |
| `prompt` | 2 requests, 2 users, in one channel | `RunsOnItsInput`, `LeavesNothing`, `PromptEnds` |
| `listener` | every message of at most 3 segments and attachments, three words, three files | `TypeOK`, `CommandHonest`, `RightCode`, `CommandEnds` |
| `shutdown` | 2 posting requests; 3 fallback models, of which the second is also the configured one | `ShutdownTypeOK`, `ExitCodeHonest`, `UnwoundCleanly`, `AskedInTurn`, `ClientsClosed`, `OneStopsAll` |

**Why the bounds are enough.** *Limiter*: the clock covers three windows, so
that sweeps fall inside, between and after the timestamps that count; one user
can reach the per-user limit while the global one is open, and the reverse; a
third user is there to be swept by the calls of the others. *Guard*: five tasks
fill both slots and both places and leave one to be refused; with two slots a
resumed waiter may find another one free, the case in which a wakeup can be lost.
*Executor*: two writes against one kept byte and reads of two give chunks below,
at and across the cap; the helper is enough for every case of a process that
outlives the leader, in its group or not; the timeout of two seconds differs from
the waits of one and three; the word `MemoryError` may end with the byte that is kept or
with the one that is cut; a second more (`MaxStall`) shows that nothing bounds a blocked
read, which is all that is said of it. *Handler*: three requests are what it takes for one to
run, one to queue and one to be told "busy"; what a request is told depends on the
others through the guard only, so two suffice for the configurations. *Prompt*:
two prompts of one author hear the same message, two of different authors must
not; the prompts share nothing else. *Listener*: three segments are two blocks and
the prose between them, where a wrong scan goes wrong, or an unclosed last block
after two others; three attachments are one that is skipped, one that is taken and
one too many. *Shutdown*: two requests, of which one has created the client that
the other one finds closing, or closed; the configured model has a fallback before it and
one behind it in the list.

The requests, prompts, messages and the process are handled once each, and the
processes of an execution end, so these models stop: their configurations switch
the deadlock check off. The guard's and the limiter's do not stop, and theirs is
on (the limiter's clock stops, its calls do not).

**Fairness.** Weak fairness of what the event loop schedules: a ready task runs
(guard, handler, prompt, command, executor, lifecycle), the child watcher reaps,
time passes and timers fire. Nothing is assumed of the user's program: `Returns`
holds for a child that never exits and ignores `SIGKILL` for ever, and names its one
exception, an image that blocks for good. Nothing is assumed of pip
(`CommandEnds` by its 60 seconds), or of the author (`PromptEnds` by its 20).
`WaiterServed` assumes that whoever holds a slot releases it; `UsesGuardFairly`
shows that the pipeline does, given that its awaits complete - Discord calls
return or raise, pip, prompt and webhook have timeouts - and that `execute`
returns, which is `Returns`; a blocking image is assumed away there. `PromptEnds` is what justifies the single await of
the prompt in `MessageHandler`. `OneStopsAll` assumes nothing of the requests that
still run. No fairness is assumed of cancellations, signals and failures.

### Disagreements between the code and what is said of it

Each of these runs checks one property and TLC finds it violated.

* `timeout_kills_group`: "A wall-clock timeout kills the whole process group"
  (`executor.py:16`). `_kill` does nothing once the leader's return code is
  known, so a helper that outlives the leader and holds the pipes is what makes
  the call time out, and survives it.
* `cpu_limit_is_timeout`: `TIMEOUT` is "wall-clock or CPU limit exceeded"
  (`models.py:14`). `runner.py:68` sets the hard limit equal to the soft one; the
  kernel then sends `SIGKILL`, not `SIGXCPU`, which is classified as `MEMORY`.
  (It needs more CPU time than wall-clock time, as with several threads.)
* `never_without_reply`: "the user is never left without a reply"
  (`message_handler.py:20`). The `MockMessage` of `/code` has no `guild`, which
  `_process` reads before it says anything.
* `long_output_attached`: long results "are delivered as a `.txt` attachment
  automatically" (`README.md:520`). `format_execution` never sets `file_text`, and
  the channel gets "Output too long, but no file available".

Smaller ones, met while modelling, have no run of their own; the models follow the
code in each.

* `executor.py:16-17` says that the timeout keeps busy loops from hanging the service; it
  covers the draining and the waits only. An image that the program left is opened and read synchronously (`executor.py:292-297`), outside
  every timeout: a FIFO named `x.png`, or a link to a device without end, holds the call
  and with it the event loop. `TimeBounded` and `Returns` name it as their exception.
* `executor.py:197` takes the word "MemoryError" in what is kept of stderr for a lack of
  memory: a program that prints the word and fails is reported as out of memory, and a
  real one whose traceback the cap cut off before the word is not. `HonestVerdict`
  states exactly that.
* The analyses of the code catch `SyntaxError` only (`validator.py:125-136`), and
  `_process` calls them unguarded (`message_handler.py:161`, `:172`, `:192`): on code that
  makes them raise, such as a `RecursionError` on a very long sum, the user is left
  without the reply that `message_handler.py:20` promises. `AnsweredUnlessFault` names the
  exception (`unanalysable`).
* Results "honor `OUTPUT_MODE`" (`message_handler.py:19`, `:316`; likewise
  `README.md:272`, `webhook.py:3-5`), but with an LLM enabled the mode is not looked at
  (`message_handler.py:321-325`): no result is posted to the webhook, in any mode.
  `ResultsRouted` states what happens.
* A message that starts with `!` is a command, and is dropped when it is none that is
  known, Python blocks and all (`discord_bot.py:104-108`); `README.md:8-11` says that
  there is no command prefix and that blocks are run, and `discord_bot.py:13` that a real
  block is handed to the pipeline.
* A program that closes its output and works on is killed a second later and
  reported as timed out although neither limit was exceeded (`executor.py:275`).
* In webhook mode a syntax error is posted to the webhook only, where
  `README.md:276` says that validation errors always go to the originating
  channel; and after a webhook-only delivery "... is thinking" stays in the channel
  (the exception that `ThinkingResolved` names).
* An input typed in the loop turn in which the 20 seconds end is lost: the future
  is set, but `wait_for` raises the timeout, and the prompt is edited to "Input not
  provided" and then deleted (`InputPrompt`, the step after `Timeout` with a future
  that is set).
* "Input received! Executing..." is sent before the future is looked at, so also
  to a modal that is submitted after the timeout or after an answer in chat.
* A chat message that answers a prompt is code too, if it holds a code block, and
  it answers every open prompt of its author.
* `code_parser.py:9` says that "ordinary prose is NEVER interpreted as code"; a
  line of prose that ends in an inline fence opens an unmarked block, and these
  are accepted by default (`REQUIRE_PYTHON_CODE_BLOCK` is off, where the README's
  table says `true`).
* The README's "only python blocks" (`README.md:8`) leaves out messages whose first
  line is `python`, `.py` attachments and `!pip install`. Below a first line `python`
  everything is code, prose too, against `code_parser.py:9`; a first line that ends in
  `\r\n` is not recognised; an empty `.py` file hides the blocks of its message. These
  are rules that `RightCode` takes from the code.
* After pip has finished, a failed edit of the result is reported as a failure of
  the command (`message_handler.py:126`).
* `llm.py:34` promises an empty string on failure; a text that says so is returned
  and posted. The LLM service's own client is closed by nobody.
* README and tests speak of blocked imports and calls; both blocklists are empty.

## 4. Proofs

All proofs assume only the named `ASSUME`s of the modules: limits are positive, the
window is any integer, the sets of tasks and requests are finite, the cap and the
read size are sensible numbers, no user is `NoUser`, the list of fallbacks has no
repeats, the words of a message are neither fences, line ends nor `python`. An invariant `X` that is not inductive is proved from a stronger one: it
holds initially, every action preserves it, and it implies `X`.

**Rate limiter** (`RateLimiterProofs`). `TypeCorrect`, `MemoryBounded` and
`NoEmptyDequeLeft` come from `LimiterInv`, their conjunction: the deques that a
call stores are pruned ones, of which `PruneProperties` says what they hold - a
suffix, all of it inside the window - and a grant appends only below the limit.
`SlidingWindowKept` is the promise over all time, about the history variables. It
is not inductive: that a full deque refuses says something about the last `limit`
grants only if the deque *is* the end of the log. `HistoryInv` therefore adds
`NothingForgotten` (`HistoryKept`): a deque is its log without an expired prefix,
and logs are in time order. A grant then has either fewer than `limit` grants
before it or the one `limit` places earlier in the expired prefix.
`OneOffUsersSwept` needs to know that whoever is present was granted something
after the last sweep less a window, which every call, with or without a sweep,
keeps up. `LimiterIsSlidingWindow` is the refinement: by `LengthIsCount` the length
of a pruned deque is the number of grants of the log within the window, so the two
comparisons that decide a call are those of the abstract specification
(`CallRefines`). `RetryIsExact` reads the moment off the head of the full deque,
which is its oldest element (`DequeOrdered`) and within the window (`PrunedHead`).

**Guard** (`ConcurrencyGuardProofs`). `GuardInv` joins the types, the shape of the
deque (`DequeExact`: it lists exactly the waiting tasks, each once), conservation
of slots, exactness of the counter, `NoLostWakeup` and `in_flight <= Capacity`.
Each needs the others: that a release cannot exceed `MaxConcurrent` free slots is
conservation, conservation over a wakeup needs to know that the woken task is a
waiter, and that no wakeup is lost needs `DequeExact` (the pending waiter is in the
deque that `_wake_up_next` searches). `SlotsConserved`, `CounterExact`,
`WakeupsNotLost` and `GuardTypeCorrect` are its parts; `RefusalsJustified` is an
action property that follows from the counter's exactness.

`GuardIsSlotQueue` is the refinement of the abstract line, for any numbers of tasks,
slots and places. A task runs, abstractly, from the moment its future is resolved, and
the line is the deque without the futures that are done. `LineProperties` says how
that line changes with a state of a waiter, `WakeLine` that `_wake_up_next` resolves its
head. One lemma per operation (`AcquireNowSteps` to `ReleaseSteps`) then finds the
abstract step; a release, for one, is `Leave`, with the head moving up in the same step,
and a cancelled waiter that had been handed a slot gives it up the same way.

**Executor** (`ExecutorProofs`). `ExecutorInv` says what each phase knows: the flags
and the return code fix the leader's cause of death (`LeaderInv`); once both streams
have ended nobody holds a pipe, so nothing more can be written (`OutputInv`); the
deadlines of the waits add up, and a blocked read comes after them (`TimeInv`); a verdict
rests on a return code and on the part of stderr that was kept, which is all that decides
it (`VerdictInv`); a kill that reached the leader reached its group, which cannot grow
afterwards (`GroupKilled`). `ExecutionBounded`, `OutputKept`, `VerdictHonest`,
`GroupsDieTogether` and `ExecutorTypeCorrect` follow, for every timeout, cap and read
size and any child.

**Pipeline** (`MessageHandlerProofs`). `PipelineUsesGuard` shows that every step of
the pipeline is one operation of the guard or leaves it alone, so `Spec =>
Guard!Spec` and the guard's theorems carry over without a second proof:
`SlotsFollow` gets the exactness of `in_flight` from `CounterExact`. What remains is
about one request at a time, since a step changes the state of one request only:
`RequestInv` says what each place of the pipeline implies about runs, answers, posts,
status and slot. `AnswersTrue`, `NobodyUnanswered`, `RoutingKept`, `StatusResolved` and
`HandlerTypeCorrect` are read off it, for every number of requests, slots and places
and every configuration.

**Prompt** (`InputPromptProofs`). `PromptInv` holds of each request by itself: who may
have a modal or a message under way and what the future can then be (`RaceInv`), what
each await implies about future, timer and prompt (`PlaceInv`), and what is left at
the end (`LeftInv`). `InputIsTheAuthors` and `NothingLeftBehind` are parts of it. That
the future is settled once is asyncio's business, and no property here.

**Listener and parser** (`ListenerProofs`). `CodeIsRight` compares what the listener
picks from a text with what its rules single out of the message as it was written, for
messages of any number of segments and attachments, any words that are no fence, and
both settings. The proof follows the text from
left to right. `SegmentSeen`: a scan that is outside a block when a segment begins finds
exactly that segment's block, and is outside again unless the segment is a block left
open, which only the last one may be. Over all segments that is `BlocksFound`, that the
blocks found are those written. `Extracted`, that of these the supported ones with code
remain, in order; `TakenIs`, that the first and the join of all of them are what the rules ask for.
`LedFirstLine` and `UnledFirstLine` are about the one other source in the text, a first
line `python`: it is seen if and only if it was written, its line ends in a newline and
something follows, and then the code is the rest (`StripBehind`). With `CodeRight`, which
puts these together, what is left for the invariant `ListenerInv` is small: what each await
of `on_message` knows of the message, and that no attachment passed over could be read.
`ListenerTypeCorrect` and `CommandTruthful` - of a command in every run of the listener -
follow from it.

**Lifecycle, shutdown** (`ShutdownProofs`). `ExitCodeRight` and `ServicesUnwound` come from
`LifecycleInv`: what a service's place says of the task it supervises, where a failure
that nobody asked for still is, and how far `_amain` has got. `ShutdownUnwinds` carries
both over to the composition, whose steps are the lifecycle's or leave it alone;
`NoClientLeaks` rests on `ClientInv`: a client not closed is the notifier's own, one that
is closing has `_run_bot` at it, and what is open after that was created late.
`ShutdownTypeCorrect` and `ModelsAskedInTurn` come from `JobInv`: the models a description
has asked are a prefix of `ModelsToTry`, all but the last answered that the next is worth asking, and one that
still asks has one left to ask. `ModelsAskedInTurn` speaks of the configured model and the
fallbacks themselves, not of `ModelsToTry`, so it needs that this list has no repeats
(`ModelsProperties`), that it begins with the configured model, and that it keeps the order
of the fallbacks and leaves none out (`ModelsOrder`, by `KeepOrder`), for any list of
fallbacks without repeats.

**Induction.** The installed provers cannot instantiate the library's induction theorems,
which take an operator. `SequenceLemmas` has induction for sets instead (`AllNat`,
`AllSeq`: a set of numbers, or of sequences, that has the first and with each the next has
all), by a smallest counterexample, and with it what `FlattenSeq`, `Keep` and a prefix of
pieces (`Upto`) come to; `ScanAppend` in `ListenerProofs` does the same for the parser's
recursive scan.

**Only model-checked**: liveness (`WaiterServed`, `Returns`, `Finishes`,
`UsesGuardFairly`, `PromptEnds`, `CommandEnds`, `OneStopsAll`), since fairness and
`ENABLED` are beyond the prover. Every other property of the passing runs is a theorem;
the four properties of section 3 that are violated are TLC's alone.

## 5. Not modelled

* What user programs compute, and the text of messages: only what the control
  flow tells apart.
* Static validation, except for its verdicts: the visitors are pure functions of a
  Python syntax tree, and with their blocklists empty there is nothing they decide
  over several steps.
* The parser's texts are tokens: single backticks and blanks are left out, and
  fences inside prose (one of the disagreements above) are not among the messages
  that `Listener` generates: with one, words between two blocks can be run, and nothing in
  the source says what such a message means.
* Which images are collected: of those left by the program only whether one blocks.
* The prompt: one channel, and no cancellation while it is open (at shutdown); in
  `MessageHandler`, which has cancellations, it is a single await.
* The executions of a request granted by the limiter: the limiter and the pipeline
  meet in one call without an await, so the pipeline takes either answer.
* `close()` of the LLM service (nobody calls it) and whether a post arrives (that is
  in `MessageHandler`).
* What becomes of the child when `execute` is cancelled at shutdown: the step is
  modelled (`Cancelled`), but the source promises nothing about it.
* uvicorn, discord.py, httpx, pip, the kernel: external, modelled by their possible
  outcomes.
* Windows; parsing of the environment; the health endpoints (constant answers).

## 6. Plan

Done: all components above. What could follow:

1. The prompt inside the pipeline with its own steps instead of one await, with the
   cancellation at shutdown; its state space needs a reduction first.
2. Fences inside prose in `Listener`, once it is settled what they are meant to be.
