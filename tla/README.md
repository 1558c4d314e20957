# A verification model of WADE

WADE is a self-hosted assistant: one Python process (FastAPI, one asyncio event
loop) takes chat requests over HTTP, plans them, runs tools with a language
model in the loop, asks the user before anything dangerous, and acts on its own
when a monitor sees something. This directory holds TLA+ modules that model the
parts in which concurrency, failure and ordering decide whether it is correct,
TLC configurations that check them on small instances, and proofs, checked by
TLAPS, that what matters most holds for every value of the constants.

Paths below are relative to `src/`. Line numbers of every definition are in
`PROJECT.json` under `map`.

## Running it

    tlc -config Orchestrator.cfg MCOrchestrator     # one run
    tlapm OrchestratorProofs.tla                    # one module of proofs

`PROJECT.json` lists the runs, the mutants (a plausible bug for each property,
which TLC must find), the findings, the hazards and the theorems. A definition
with an underscore in its name (`Retry_Uncounted`) is such a mutant: it stands
before the definition it mutates and is used by no specification.

## 1. Inventory

| Part | Code | State | Operations | Module |
|---|---|---|---|---|
| Orchestrator, chat | `app/core/orchestrator.py` | rows of the task table, `_cancel_events` by session, retry counter | `process`, `cancel_session`, direct path of `_execute_task` | `Orchestrator` |
| Orchestrator, plans | same | plan, step rows, `results`, `step_counter`, wave | `_execute_task` from `decompose` to synthesis, `submit`, `_run_background`, `_wave_levels` | `PlanExecution` implements `Dag` |
| Planner, critic | `app/agents/planner.py`, `critic.py` | verdicts of repeated steps | `decompose`, the five checks of the critic | choices in `PlanExecution` |
| Executor | `app/agents/executor.py` | rounds, `call_counts`, `call_history`, messages, traces | `execute` (administrator), `_execute_tier_isolated` (everybody else) | `Executor`; embedded in `Orchestrator` |
| Task store | `app/core/task_store.py` | SQLite table | `save`, `update_status`, queries, `prune_old` | `TaskStore` (operators) |
| Approvals | `app/core/hitl.py`, `app/api/v1/tasks.py`, `sync.py`, `app/static/js/app.js` | `_pending` by task id; the modal's buttons, status and timer | `wait_for_decision`, `get_pending`, `resolve`, the endpoint, the modal | `Hitl` |
| Event bus | `app/core/events.py` | priority queue, `_handlers`, `_running`, `_recent` | `subscribe`, `emit`, `start`, `stop`, the dispatch loop | `EventBus` implements `Mailbox` |
| Monitor of the load | `app/agents/monitors/system.py` | histories, `_was_breached`, `_trend_warned` | one cycle | `SystemMonitor` |
| Monitors of files, build logs | `filesystem.py`, `build_logs.py` | queue, debounce tasks, observer | watchdog callbacks, `_schedule_debounced`, `_delayed_emit`, `change_watch_dir` | `FileMonitors` |
| Scheduled work | `schedule.py`, `app/skills/scheduling/scheduler.py` | jobs of an external scheduler | add, remove, fire, `schedule_task`, wake-up | no: see section 6 |
| Proactive engine | `app/services/proactive.py` | clients, stamps, counters, last message | main loop, welcome, settings, credit | `Proactive` |
| Runtime: ledger, reducer, FSM, policy, cognition, idempotency | `app/core/runtime/*.py` | hash-chained events; state and tasks by replay | append, reduce, transitions with guards, policy, execution with retries | `Runtime` implements `Effects` |
| Authorization resolver | `app/core/runtime/transport.py` | `_resolved`, `_in_flight` | `try_resolve`, `confirm_resolved`, `abort_resolution`, `rebuild_from_ledger` | `AuthResolver` |
| Sandbox, registry | `app/skills/sandbox.py`, `registry.py` | pool of workers, `_BWRAP_OK`, tool cache, `TOOL_INVENTORY` | `execute_tool`, `run_in_sandbox`, hot reload | `Sandbox` |
| System call filter | `app/skills/sandbox.py` | none | the compiled program | `Seccomp` |
| Python runner | `app/skills/python/runner.py` | worker process, pipe, lock | `execute`, restart | `PythonSandbox` |
| Ollama manager | `app/services/ollama_manager.py` | child process, `_we_started_it` | `ensure_running`, `restart`, `shutdown` | `Ollama` |
| Inference client | `app/services/inference_client.py`, `model_router.py` | shared session, buffer of a stream | dispatch, complete, chat, embed, close | `Inference` |
| Settings | `app/core/config.py`, `credentials.py` | file and a copy per process | get, edit, save | `Settings` |
| Daemon | `app/daemon.py`, `app/cli.py` | PID file, port, gateway process | start, stop, restart, status | `Daemon` |
| Conversation | `app/memory/manager.py`, `compactor.py` | one file per day and session | append, load, truncate, compact, prune, clear | `Conversation` |
| Episodes | `app/memory/episodes.py`, `app/agents/memory_agent.py` | SQLite table | record, forget, consolidation, `prune_old` | `Episodes` |
| Facts | `app/skills/memory/updater.py`, `app/api/v1/memory.py`, `passive_extractor.py` | `memory.json`, `MEMORY.md`, a lock per process | add, update, delete | `Facts` |
| Users and tiers | `app/core/user_registry.py`, `app/api/v1/admin.py` | `users.yaml`, its cache, the copy of the bridge's map of hidden ids, directories | resolve, sync, register, move, clear | `Users` |
| WhatsApp | `app/api/v1/whatsapp.py`, `deploy/docker/whatsapp-bridge.js` | sockets, timers, handlers, background jobs | upsert, post, reply, reconnect, logout by the user or by WhatsApp | `WhatsApp` |
| Indexer | `app/skills/indexing/indexer.py` | vector store, two tables, queue | bootstrap, workers, commit, purge | `Indexer` |
| Spotify | `app/api/v1/spotify_auth.py`, `app/skills/music/spotify.py` | tokens in the credentials, PKCE store | authorize, callback, refresh, disconnect | `Spotify` |
| HTTP and lifespan | `app/main.py` | wiring | start and shutdown, streaming | parts of several modules |
| Telemetry | `app/core/telemetry.py` | append-only tables | record, prune | the audit write as a suspension in `Hitl` |
| Wizard, desktop shell, discovery, voice, prompts, other skills | several | none that outlives a call | | no: input/output and text |

### How the parts interact

A chat request enters `process()`, which writes a task row, stores a
cancellation event under the session, and runs `_execute_task`. A simple goal
goes to the executor directly; a medium or complex one is decomposed, checked
by the critic, and run in waves of steps, each with an executor. The executor
alternates between the model (inference client, Ollama) and tools (registry,
sandbox); before a high-risk tool it yields an approval tag into the stream of
the answer, and suspends in `wait_for_decision`, which another HTTP request
(`/tasks/{id}/approve`) resumes. Monitors emit onto the event bus; the
orchestrator and the `ProactiveMonitor` are subscribed, and may submit
background tasks (`submit`, `_run_background`). WhatsApp messages arrive as
webhooks from a Node process and run as requests of a tier. What was said goes
into the session's file, into episodes and facts; a nightly job condenses them.
The runtime package (ledger, FSM, policy, authorization, idempotency) is a layer
of its own with its callers outlined in docstrings.

What is shared: the task table (by every request), `_cancel_events` (by the
requests of a session), `_pending` (executor, endpoint and clients), the
critic's verdict history (all tasks), the ledger (several processes), and the
files of configuration, credentials, users, facts and conversations, which
endpoints, background threads, worker processes and containers read and write.

### What is hard

asyncio is cooperative, so the interleavings inside the gateway are those
between awaits; but tools run in worker processes and containers with copies of
their own, watchdog and indexer run threads, the bridge is another process, and
the daemon, the model server and the ledger survive a gateway that dies.
`PROJECT.json` lists 40 hazards at their lines, with the properties that cover
them or the reason that none does.

### What makes each part correct

- Requests: every exit writes an outcome; a stop reaches the request it is for,
  and holds; every request ends.
- Plans: dependencies come first; a rejected plan does not run; the outcome
  agrees with the rows of the steps.
- Executor: each call of an answer gets one message and one trace before the
  model is asked again; nothing is run twice.
- Approvals: one consent, one run, of the call that was shown; silence is not
  consent.
- Bus and monitors: nothing lost or repeated, urgency before age; the last word
  on a file is reported; one alarm an overload.
- Runtime: nothing runs unauthorized; a request is resolved once; an effect on
  record is never repeated, and one that is not no more often than attempts and
  crashes allow; replay yields the state that was reached.
- Tools: a call's answer is its own and its tool ran once; the filter kills what
  it should and nothing else.
- Files: an acknowledged edit is not lost, a history has no hole, the index and
  the tokens are true, the tier is current - and where the code cannot promise
  that, the property names the conditions.

## 2. The modules

An action is what a coroutine does between two awaits (or a thread between two
points at which another one can see a difference), with every call it makes on
the way. The environment (the model, tools, the user, the network, the clock)
chooses among the outcomes the code distinguishes.

### Requests, plans, tools

**TaskStore**: operators on the status column: `Save`, `UpdateStatus`, `Closed`
(what `process()` writes after a normal return). Nothing in the table protects a
terminal status, so neither does the module.

**Orchestrator** (instance: `MCOrchestrator`): concurrent calls of `process()`,
on the direct path. `pc` says at which await or yield a call is suspended:
`preparing` the prompt, the request for tools (`thinking`), the second request,
whose answer is streamed (`answering`), the yield that announces a tool
(`announced`), an approval (`asking`), a tool, `backoff` between attempts, or that
it has `returned` or was abandoned (`gone`). The event is looked at where the
code looks: at the top of a round, before a call of the answer and at each chunk,
but not between the announcement of a tool and its start, nor between the two
requests; `MayFollowStop` lists the steps that a stop does not prevent. `registry` is `_cancel_events`,
`stop[c]` the event object of call `c`; that a call's own event and the
registry's are different things is the point of the model. `Return` is every
exit together with `finally`; `LoseConnection` is the `except
httpx.ConnectError` branch for the classes a lost connection can raise;
`Disconnect` closes the generator. `cause` and `shared` are history: why a call
ended, and whether it ever ran beside another call of its session.

**PlanExecution**: one planned task in either caller. `pc` walks through the
gates; `run[s]` is where the coroutine of step `s` is suspended, `res[s]` its
result, `row` and `step` the statuses in the table. Verdicts are reduced to what
the code does with them. `Plans` is every plan that `decompose` can return:
dependencies on earlier steps only. `Start` hands a whole wave to `gather`, so
steps of one wave interleave, and share `step_counter` (`counter`) between two
awaits as in the code. `gate` is history: the verdict that the pipeline itself
recorded.

**Dag** is what the execution of a plan promises, without waves, gates or
retries: ready steps begin together, end one by one, and a plan is replaced when
nothing of it runs, or abandoned. `Order` is the mapping: a subtask has begun
when its coroutine was handed to `gather`, and ended when that was over.

**Executor** (instance: `MCExecutor`): one execution of either loop. `rounds` is
`tool_calls_made`, `counts` and `seen` the two guards, `owed` and `untraced` the
calls of the current answer that have no tool message or no trace yet; `asked` is
how often the model was asked for tools. A call is `announced` by one yield and
its result is reported by another (`reporting`), so a stop may come in between;
both loops count their rounds. Where the loops differ the action says so by
`path`.

**Hitl**: the executor of one task (`pc`), `_pending[task_id]` (`entry`), the
approval tags in the stream (`wire`), the modal (`shown`, `buttons`, `status`,
`hiding`), a second client that finds the approval through `/api/sync/state`, and
each client's request to the endpoint (`post`): `Lookup` is the handler up to the
awaited audit write, `Resolve` what follows it. `decided`, `outcome`,
`consents`, `present` and `late` are history.

**Sandbox**: a tool call from the cache, in a container, or in a worker of the
pool; `StartContainer` to `ContainerEnds` is `_run_in_bwrap`, whose silent
failure falls back to the pool for good; `GiveUp` is the executor's sixty
seconds, after which the container or worker goes on. `loaded` is the gateway's
registry, which a reload inside a worker does not touch.

**Seccomp**: the program that `_build_blocklist_filter` compiles, instruction by
instruction with its hand-counted offsets, and the machine that runs it. An
offset above a byte cannot be packed, and then the worker runs unfiltered, as
the `except` there has it.

**PythonSandbox**: the interpreter process, its pipe, markers, lock, time limit
and replacement. Output of a call that timed out may still come.

### Bus and monitors

**EventBus**, and **Mailbox** which it implements: an event is its sequence
number, `log` gives its type. `queue` is a set, and `Take` takes the least by
`Before`, the order of `(priority, _seq)`. `loop` is the dispatch task,
`awaiting` the handlers that `gather` waits for; a handler may emit, and raising
or returning are alike because of `return_exceptions=True`. `Mailbox` is the
abstract promise: an event is addressed once, to whoever is subscribed at that
moment, and each addressee receives it at most once. `Box` is the mapping.

**SystemMonitor**: one action a cycle, `UpdateState`, with the two windows, the
trend, the alarm of the edge and the mark of the warning. **FileMonitors**: the
watchdog threads put into a queue; `ScheduleDebounced` replaces the task that
waits for a file; `DelayedEmit` is a task that has woken, and a build log is read
then, which may fail (`ReadFails`). **Proactive**: the main loop and the welcome,
each cut in two at the await of the model; time is ticks and ages. **Monitors**
instantiates these three.

### Runtime

**Runtime** is `app/core/runtime` as one loop that is driven by the ledger: what
it does next follows from the last event, so that a restart resumes it, as the
docstrings ask. `Apply` is the reducer's `_apply`, `Transition` the kernel's
order (validate, append, reduce, validate again), `EvaluatePolicy` the policy
over `CapabilityGraph`; `Execute` to `CompensationFails` is
`execute_with_idempotency`, one action per attempt: it succeeds, or raises with
its effect done (`AttemptRaises`) or not (`AttemptFails`), which the code cannot
tell apart; any exception is tried again, and the last one compensated for. A
second process answers
authorizations with a Lamport clock of its own, a second reader replays in
increments (`CatchUp`), and `Crash` may come between any two steps. `effects`
and `doubt` are history.

**Effects** is what the runtime promises about side effects, without ledger,
loop or retries: an effect takes place, is put on record, or is forgotten by a
death in between; or it takes place unnoticed, which is an attempt that raises
after its effect. One that is on record never takes place again. `Promise` is the
mapping; an attempt that fails without effect, a compensation and a no-op are no
steps of it.

**AuthResolver** (instance: `MCAuthResolver`): attempts, in processes that share
a ledger, follow the protocol that the docstrings ask for: `Begin` (reads the
tip), `TryResolve`, `Write` (which may fail), then `ConfirmResolved` or
`AbortResolution`. None of the three methods suspends inside its lock, so each
is one step. `Crash` forgets a process's sets and attempts, `Restart` is
`rebuild_from_ledger`. The callers do not exist in the repository.

### Services

Instance: `MCServices`, which writes the tags as sequences.

**Ollama**: the lifespan and requests interleave in `ensure_running`, `restart`
and `shutdown`; at most one server holds the port, the user may start one, and
servers die. (A request asks for `restart` after `httpx.ConnectError` only, which
today's client never raises: section 5.) **Inference**: the shared session and a call; for Ollama the stream
with its buffer. `Remainders` is the reference: what is left of a text when none,
some or all occurrences of tags are taken out, one after the other. **Settings**: either file, its copy in gateway and
worker; `Begin` takes the copy, `Save` changes memory, `Replace` the file;
`agreed` is what was acknowledged. **Daemon**: commands as processes of their
own, the PID file, ports, a gateway that turns deaf or dies.

### What is stored

**Conversation**: the files of the days as sequences of blocks with sizes;
`Condensed` is the compactor, `Oldest` what the clean-up deletes: by the time of
the last write, which is the order of the days, as only today's file is written.
A rewrite is `open("w")` and `write`: `Put` leaves the first blocks, perhaps none,
when it fails or is cut short, and `gaps` remembers what is missing since. **Episodes**: the table, the night job in its
three steps, deletions by the user. **Facts**: an edit reads, empties, writes,
and regenerates `MEMORY.md`, under a lock that each process has for itself.
**Users**: `users.yaml`, the cache and its age, hidden ids with the copy of the
bridge's map (`lidMap`) and its renewal in the background (`syncing`), requests
that write their question and later their answer, moves of directories; `left`
remembers where history stays behind. **WhatsApp**: sockets, timers and connects
of the bridge, connects that fail, logouts by either side, messages that are
delivered more than once, handlers with their retries, the gateway's background
jobs. **Indexer**: one file with its raw hash, which sees the ends and the size
of a large file only (`RawHash`), renames, which the watcher does not notice, the
bootstrap and worker threads, which may fail or die, and a commit in the steps
`Upsert`, `Record`, `Erase`. **Spotify**: the flow in the gateway, the token in gateway, worker and
container, which each have a copy of the file or none.

**Services** (with Monitors) and **Household** instantiate these modules for
TLC. The parts in one of them share no variable, so nothing is lost by exploring
each with the others at rest: `part` says which one moves. The properties there
are those of the part's module under their own names.

## 3. The runs

The runs disable the deadlock check because the systems stop: requests return,
executors end, the bus is switched off, the bounds are used up.
`RejectedPlanNotRun` of the plans is proved and not run, and so are the type
invariants: `TypeOK` where a module states one, in `Runtime` and the parts of
`Services` and `Household` as a part of the inductive invariant.

| Run | Instance | Distinct states | Shows |
|---|---|---|---|
| `Orchestrator` | 2 requests, 1 session, 3 attempts, 2 rounds of 2 calls | 109,981 | outcomes are recorded on every path, a request that was never overlapped can be stopped, a stop holds, requests end |
| `PlanExecution` | both callers, all plans of up to 3 steps, 2 attempts, drift check every 2 steps | 140,868 | refinement of `Dag`, outcome and steps agree, every task ends |
| `Executor` | both loops, 5 calls of 2 tools (3 distinct arguments, one broken, one high-risk), limits of 2 | 29,446 | calls answered, nothing repeated, the model asked a bounded number of times |
| `Hitl` | 3 calls, 3 answers, page and device, either or both present | 400,956 | one run per consent, one prompt client is always right |
| `EventBus` | 3 events of 3 priorities, deque of 2 | 44,442 | priority order, delivery, refinement of `Mailbox` |
| `AuthResolver` | 2 processes, 2 + 1 attempts, 1 request, 3 ledger events | 279,740 | resolved once per process, true cache, released slots |
| `Runtime` | 2 actions (low, medium risk), 2 tiers, 1 retry, 22 events, 2 crashes | 315,990 | authorized first, refinement of `Effects`, repetitions bounded, replay agrees |
| `Services` | 10 parts, instances in `Services` and `Monitors` | 1,092,567 | one property for each part, see below |
| `Household` | 7 parts, instances in `Household` | 2,119,061 | one property for each part, two for users |

The parts of `Services` and `Household`, the property of each, and what it says
beyond a single step of the code:

| Property | Part | Over which interleavings or failures |
|---|---|---|
| `ChangesNoticed` | files, build logs | postponed, cancelled and replaced debounce tasks, a change of the directory, the end of the monitor: the last word on a file is reported, and of a log unless its last reading failed |
| `AlarmsCounted` | load | one alarm an overload; never more than two warnings between two |
| `EngineHonest` | proactive engine | settings, pages and activity change during the wait for the model: the cooldown holds, no credit is given twice |
| `StreamKept` | inference client | every way to cut an answer into pieces: nothing but tags is lost, order and number stay |
| `SettingsKept` | configuration, credentials | restarts in the middle of a save, writers in two processes: acknowledged edits stay, unless edits overlapped, a save failed or a stale copy was saved |
| `ServerIsHeld` | Ollama | servers that die, are slow or belong to the user: the gateway's server is the one it holds, unless two callers overlapped or the gateway was killed |
| `FilterExact` | system call filter | every table of up to 3 calls, with one offset limit that is too small for some |
| `CallsSettled` | sandbox | fallback, broken pool and calls given up: an answered call runs nowhere, and no tool ran twice except after a silent container |
| `OwnAnswer` | Python runner | timeouts whose code prints later, exits, replaced processes: an answer is what the call's own code printed |
| `GatewayIsKnown` | daemon | deaths, taken ports and failed starts: at most one gateway, the one the PID file names |
| `HistoryHasNoHole` | conversation | appends, compaction, cuts, clean-up over days, restarts: what is kept and shown are the latest messages, or after a failed or cut write some of them, in order |
| `TierIsCurrent` | users | cache, edits by hand and by the admin, hidden ids and the copy of the bridge's map: the tier served is the one given last, or that of strangers |
| `HistoryTogether` | users | registrations, moves and requests in any order: history is in the tier of its user, but for what a named cause left behind |
| `FactsAgree` | facts | threads of the gateway at once: nothing acknowledged is lost while no two processes overlap |
| `OncePerDelivery` | WhatsApp | lost connections, failed connects, retries, restarts of either side, messages delivered again: one connection; each delivery is processed once at most and answered once at most |
| `IndexIsTrue` | indexer | workers, purges, restarts and offline changes: once settled, what the raw hash of the file stands for |
| `Remembered` | episodes | nights that fail, deletions during a consolidation: only age and the user make it forget |
| `TokensKept` | Spotify | rotated tokens, failed flows, restarts, three kinds of copies |

Several properties name conditions: history variables that are set at the step
that breaks the promise, or facts of the state. Each was found as a
counterexample. These are all of them:

| Property | Does not promise anything, or promises less, when |
|---|---|
| `AloneIsCancellable` | the request once ran beside another of its session |
| `PromptApprovalIsRight` | an answer came after its call's timeout, or two clients were there |
| `ChangesNoticed` | the last reading of a build log failed (that log only) |
| `SettingsKept` | edits overlapped, a save failed, or a copy older than the file was saved |
| `ServerIsHeld` | two callers overlapped in the manager, or the gateway was killed |
| `CallsSettled` | a container ended without a word (its tool may run twice) |
| `FilterExact` | an offset cannot be packed into a byte (the worker runs unfiltered) |
| `GatewayIsKnown` | commands overlapped, one was interrupted, or the gateway did not answer one that looked for it |
| `HistoryHasNoHole` | a write failed between `open("w")` and its end, or was cut off there (that day: order remains) |
| `HistoryTogether` | a registration, the end of one, or an edit by hand, which move nothing; a move of a stranger or onto a directory that is there; a write over a register that could not be read; a request that ran under another tier (each only for what it leaves behind, `left`) |
| `TierIsCurrent` | the file was edited by hand within the interval or cannot be read, or the host has just started; an unfetched hidden id is a stranger |
| `FactsAgree` | an edit met one of another process, or was cut off by the end of its process |
| `OncePerDelivery` | the phone was disconnected by `/logout` (its first half only) |
| `IndexIsTrue` | a change came before the previous one was dealt with, or was a rename while the gateway ran; a commit, the bootstrap or a worker failed or was cut off; the file once was empty; or the collection was made anew |
| `TokensKept` | flow, refresh and disconnection overlapped, a copy older than the file was used or saved (workers keep such copies without any overlap), or a replaced token was lost on its way or with its container |

Outside these conditions the promises hold for every behaviour of the model.

Violation runs: each checks one property that a text of the repository claims.

| Run | Claim | What happens |
|---|---|---|
| `HitlLate` | `app/api/v1/tasks.py:21`: approves a pending action | an approval that comes after its call's timeout approves the next call |
| `SandboxReload` | `app/skills/system/hot_reload.py:21`, `41`: changes take effect in the gateway | the reload happens in a container or worker process |
| `EpisodesNight` | `app/agents/memory_agent.py:156`: consolidates today's episodes | at five past midnight "today" is five minutes old |

### Why the bounds are enough

- Two requests are the least that overlap; a third in the same session meets the
  same single registry entry. Two sessions do not interact. Two rounds of two
  tool calls reach every check of the event: between calls, between rounds, and
  after the last round. Three attempts are the code's own number.
- Three steps are the least with a chain of dependencies of depth two, a wave of
  two beside or below another, and dependencies that skip a level. A drift check
  every 2 steps instead of 5 makes it happen within them.
- In `Executor` the limits of 2 stand for 5 and 10; three different arguments of
  one tool exceed the recursion limit within one execution, and the broken call
  and the high-risk tool take the remaining branches.
- Three calls and three answers let an answer be late by one call and by two, and
  two clients contradict one another.
- Three events with a deque of 2 overflow it, and an urgent event can be emitted
  while a routine one is queued and another is handled.
- Two attempts in one process race; one in another shows what the in-process
  guards do not cover. Time 0..1 with TTL 0 has a fresh and an expired request.
- `Runtime`: twenty-two events are two rounds of the loop with an authorization,
  or one and a second task; with two crashes the same step can be hit again after
  the first restart.
- `Services` and `Household`: the least that lets the hazard happen and then go
  on: three changes of two files; windows of three readings; two callers beside the lifespan and three servers; two cacheable calls
  and a reload on two workers; three calls on up to four processes; pieces of up
  to two characters in texts of five with two tags of which one begins like the
  other; two days, five messages and two sizes, one of which alone exceeds
  what is kept; three edits by three writers; a message delivered twice; two
  worker threads and two changes of the file; four days with an age limit of one;
  three issued tokens.

Every bound is a constant named in its module with the comment "bound", except
limits that the code itself has.

### Fairness

- `Orchestrator`, `PlanExecution`: weak fairness of the steps of a request. The
  event loop runs a coroutine that is ready, and every await ends: the inference
  client has a time limit, a tool 60 s, an approval 300 s, the backoff a fixed
  sleep. Stops, disconnects and new requests are not fair.
- `EventBus`: weak fairness of the dispatch loop and of each handler. Most put on
  an unbounded queue, create a task, or wait for a thread's database write; the
  handler of `USER_ARRIVAL` awaits the model, and it ends because the request of
  the client has a time limit or raises. While it waits no other event is
  dispatched.
  `EventuallyHandled` is vacuous after a stop, and the bound on the number of
  events hides that urgent events that keep coming starve routine ones: the code
  has nothing against that.
- `AuthResolver`: weak fairness of an attempt that has begun, and of the restart
  of a dead process. Without the restart a slot could not be held either, since
  it dies with its process; a crash loop is allowed.
- `Runtime`, `Services` and `Household` are about safety only and state no
  fairness: what their parts owe in the end depends on the model, the user or
  another program.

## 4. The proofs

Each component with theorems has a `...Proofs` module; the parts of `Services`
and of `Household` have one each, and `HouseholdProofs` holds the resolver's too.
None assumes anything but the named `ASSUME` of its component, which TLC
evaluates in the runs: types of the constants, and what the code fixes. Counts,
names, limits, numbers of processes, calls and events are arbitrary.

What the assumptions of `Services`, `Monitors` and `Household` say beyond types
was found by attempts to prove the properties without it, and is true of the
code: a deque has room for a reading (`Window` is not 0); the settings of the
proactive engine have some value; the indexer has a worker, a place in its queue
and a bootstrap thread that is none of its workers (without a worker "settled"
would be reached with a change unread); a day begins, and the clean-up leaves a
file; a file that is being written is no fact; threads of the gateway are not
those of tool processes; the names of users and devices differ; and no tag is
empty.

| Theorem | Module | Statement |
|---|---|---|
| `OrchestratorInvariant` | `OrchestratorProofs` | `TypeOK`, `OutcomeRecorded`, `RegistryLive` |
| `AloneCallsAreCancellable` | | `AloneIsCancellable` |
| `StopIsFinal` | | `StopHolds`, an action property |
| `ExecutorInvariant` | `ExecutorProofs` | `TypeOK`, `CallsAnswered`, `NoCallRepeated`, `DeniedStaysDenied` |
| `EveryCallAnswered` | | `CallsAnswered` alone |
| `AsksBounded`, `RecursionLimited` | | `ModelCallsBounded`, in either loop; `RunsLimited` |
| `RegistryOfWaiting`, `OneRunPerConsent` | `HitlProofs` | `TypeOK` and `EntryOfWaiting`; `ConsentUsedOnce` |
| `PromptAnswersAreRight` | | `PromptApprovalIsRight` |
| `BusTypes`, `NoEventLost`, `UrgentBeforeRoutine`, `RecentEvents` | `EventBusProofs` | `TypeOK`, `NoneLost`, `UrgentFirst`, `RecentIsLatest` |
| `BusIsMailbox` | | `ImplementsMailbox`: refinement |
| `PlanTypes` | `PlanExecutionProofs` | `TypeOK` |
| `LevelOrder`, `LevelsContiguous` | | the recursive `Level` is well defined, and no level below the deepest is empty |
| `Outcome`, `RejectedNotRun` | | `OutcomeMatchesSteps`, `RejectedPlanNotRun` |
| `PlanKeepsOrder` | | `ImplementsDag`: refinement |
| `DependenciesFirst` | | `StepsRunAfterDependencies`: what a step depends on has a result |
| `ReduceAppend`, `ReduceSplit` | `RuntimeProofs` | one more event is one more `Apply`; replay from any prefix gives the whole |
| `Authorized`, `Replay` | | `AuthorizedFirst`, `ReplayAgrees` |
| `RuntimeKeepsPromise` | | `ImplementsEffects`: refinement |
| `Once` | | `RepeatsBounded`: how often an effect may take place in all |
| `NoChangeMissed`, `OneAlarmPerOverload` | `ServicesProofs` | `ChangesNoticed`, `AlarmsCounted` |
| `EngineKeepsItsWord` | | `EngineHonest`, an action property |
| `AcknowledgedEditsStay`, `ManagerHoldsServer` | | `SettingsKept`, `ServerIsHeld` |
| `FilterIsExact`, `AnsweredCallsHaveEnded` | | `FilterExact`, `CallsSettled` |
| `RunnerAnswersOwn`, `GatewayStaysKnown` | | `OwnAnswer`, `GatewayIsKnown` |
| `StreamLosesOnlyTags` | | `StreamKept` |
| `HistoryWithoutHole` | `HouseholdProofs` | `HistoryHasNoHole` |
| `HistoryInOnePlace`, `TierServedIsCurrent` | | `HistoryTogether`; `TierIsCurrent`, an action property |
| `AcknowledgedFactsStay`, `AnsweredOncePerDelivery` | | `FactsAgree`, `OncePerDelivery` |
| `IndexStaysTrue`, `EpisodesRemembered`, `StoredTokensAccepted` | | `IndexIsTrue`, `Remembered`, `TokensKept` |
| `ResolverInvariant`, `ExactlyOnce` | | `TypeOK`, `CacheIsTrue`, `SlotHasOwner`; `ResolvedOnce` |

The arguments, by their strengthenings:

- **Orchestrator.** `OutcomeRecorded` needs to know that a request that is
  counted still has room (`RoundOpen`, `AttemptOpen`), or the types break.
  `AloneIsCancellable` is inductive only with the fact that a running call which
  never met another is the only running one of its session (`AloneInv`): then
  the entry it stored cannot have been replaced, and no `finally` but its own can
  delete it. `StopHolds` needs `FreshEvent`: an event is unset before its call
  begins. It is then a matter of the steps: those that a stopped call may take to
  go on running are the ones in `MayFollowStop`, since every other looks at the
  event first.
- **Executor.** `NoCallRepeated` follows because a started call is in `seen`,
  and the call announced or being approved is in `seen` but not yet started;
  `DeniedStaysDenied` because a denied one is in `seen` and not started.
  `AsksBounded` counts, in both loops: from a request until its round is over,
  requests exceed rounds by one (`AskedInRounds`). `RecursionLimited` relates the number of
  starts of a tool to its counter (`RunsCounted`), with the cardinality of
  positions in a sequence.
- **Hitl.** A consent is in one of three places: under way to the endpoint,
  stored in the registry, or used (`ConsentsCounted`). Storing takes it from the
  first to the second place or loses it, waking from the second to the third.
  That none is used for an earlier call than it was given for: nobody is shown a
  call before the executor is at it (`InOrder`), so the approvals up to the
  current call are all there are, and those up to a past call can only gain.
  `PromptApprovalIsRight` rests on a different reason for each client
  (`PromptInv`): the page's buttons come back only when the endpoint found
  nothing, so it resolves once, and that is the first call (`Fresh`, `Spent`);
  the device only shows a call that waits, and in time that call waits until its
  answer is there (`Pending`).
- **EventBus.** `NoneLost` says the queue is the complement of what was taken.
  `UrgentFirst` needs `WaitingTheirTurn`: an event still queued was, at each
  earlier take that it waited for, not before the one taken. `RecentIsLatest`
  relates the deque to the end of `taken` at each index (`RecentMatches`). For
  the refinement each step of the bus maps to one step of the mailbox or to a
  stutter; that a handler receives an event at most once needs to know that the
  handlers being awaited are addressees of the current event that have not
  finished it (`GatherOfCurrent`, `GatherIsFresh`).
- **PlanExecution.** `Level` is a recursive function over the plan; that it is a
  function from steps to naturals which lies above all dependencies is shown from
  a smallest step at which it is not, and that levels are contiguous from a
  smallest level above an empty one (`Smallest`, which is the library's
  `WFMin`). On that rests `InWaves`: in the waves all lower levels have ended and
  no higher one has begun. `NotRun` and `Quiet` say that nothing runs outside the
  waves, `Gated` that a recorded verdict stands until the caller reads it,
  `Through` that only completed steps lead on, `NoneActive` that rows are closed.
  The refinement follows from these: the start of a wave is `Begin`
  (`StartBegins`), since what its steps depend on lies in lower levels, a new
  decomposition is `Adopt` (`DecomposeAdopts`), since nothing is suspended then,
  a step's end is `End` and a disconnect is `Abandon` (`NextOrder`).
- **Runtime.** `ReduceIsChain` says that the reducer is the end of a chain of
  snapshots, `ChainsAgree` that two chains over one prefix are one, again by
  smallest counterexamples; the two theorems on the reducer follow. The invariant
  then only looks at the tail of the ledger: the last event determines state and
  proposal (`Current`), an open request is the last event or followed by nothing
  but a halt (`Waiting`), whatever stands on the way to an execution is legal and
  approved since the proposal (`Vetted`), a running execution belongs to the last
  registration and its key is not committed (`Executed`), clocks grow (`Ordered`),
  and a reader holds the snapshot of its prefix (`ReaderBehind`).
  For the refinement, a successful attempt is `TakePlace`, `Commit` is `Record`, a
  crash is `Die` and every other step a stutter (`NextImplementsPromise`), since
  nothing is written while an execution holds a receipt; an attempt that raises
  after its effect is `TakePlaceUnnoticed`. `RepeatsBounded` takes its first half
  from an invariant of `Effects` (`PromiseIsAccounted`), carried over by the
  mapping, and its second from `Tried`: what took place, with the attempts that
  the running execution has left, is within what its registrations and the
  crashes allow.

The parts of `Services` and of `Household` share no variable: `PartSteps` and
`RoomSteps` say that a step of the composition is a step of a part or leaves the
part alone, so that each part has an invariant of its own.

- **Files, logs.** The last change of a path is in one of three places (`FmInv`):
  the last of its entries in the queue (`FmOnWay`), the type its debounce task
  waits with while none is queued (`FmWaits`), or reported (`FmTold`). Each step
  moves it on to the next place or begins again at the first. The errors of a log
  are reported, or its last reading failed, or it is in the queue (`FmLogs`).
- **Load.** The mark of a warning accounts for all warnings since the last alarm
  but one (`SyInv`).
- **Settings, server.** Little is missing from the properties: types;
  that the one writer at work has the file with its change (`SeChange`); that
  unless callers met there is one at most in the manager (`SvAlone`), and none
  probes while a server of the gateway holds the port (`SvProbed`).
- **Proactive engine.** The latest message is no older than the loop's latest
  (`PrLoopIsOlder`), so a cooldown that was checked against the one
  (`PrDecided`) holds for the other. A credited message is not the latest any
  more (`PrCredits`).
- **Sandbox.** A call is in a container, in the queue or with a worker, never in
  two of them, and what it ran together with what is queued is within its bound
  (`SbCall`). That needs the queue to be a sequence without repetition.
- **Python runner.** One call reads at a time, and the pipes hold what it sent
  and has not read (`PyPipes`): its code, then its text and marker, then the
  marker. With nobody in the lock they are empty, since a run that is given up
  replaces the process and its pipes.
- **Filter.** At instruction `i` the accumulator holds what the last load put
  there, and the call's number differs from the entries before `i`; only an entry
  that is equal jumps to the end (`FiPlace`). The length of the table is
  arbitrary, so the hand-counted offsets are right for each.
- **Stream.** `Remainders` is a recursive function of sets, closed under taking
  out one more tag, since every tag shortens the text. That it holds the text
  with all tags taken out, in whatever order the code finds them, goes by way of
  `StLeft`, the least set with that closure: what is left of a part of a text,
  with what precedes and follows it, is left of the whole, and what is left of
  that is left too. `Replace` and `Suppressed` follow by their steps, and the
  invariant (`StInv`) says that the output with the buffer is left of the text.
- **Daemon.** Unless something muddles them, one command is on its way and one
  gateway alive at most (`WdOrder`), which is the one the PID file names, or the
  one that the command waits for and has the port of.
- **Conversation.** The blocks of a file are the latest of as many messages as
  were said and not taken back, with a summary before them perhaps
  (`AreLatest`), or, of a day in `gaps`, some of them in order (`AreSome`): the
  beginning that `Put` leaves of the former is the latter (`HcPut`). Any end of such a sequence is one (`HcLatest`), also what
  condensing leaves (`HcCondensed`) and what the model is shown (`HcRecent`),
  and any beginning is one for fewer messages (`HcCut`). Nothing is written ahead
  of the day, so that the clean-up spares today's file (`HcTodayStays`).
- **Users.** A copy that was loaded after the last edit, and is not older than
  the interval, is true (`UsCached`). What a user ever wrote is in a directory
  that exists, and in that of its tier or where something left it (`UsAtHome`);
  each way to change the register or a directory is one step of that argument.
- **Facts.** Whoever is at work in a process holds its lock (`FaLocked`); while
  no two processes overlap, hence no two edits, the one at work read what was
  acknowledged, and the file is that, or what it wrote (`FaApart`).
- **WhatsApp.** Unless the phone was disconnected there is one connection, or one
  to come (`WbNetwork`). Two accounts hold for each message however often it is
  delivered (`WbCount`): what was posted and the handlers still at work are no
  more than what was delivered, and what is answered or owed by a background job
  (`WbOwed`) no more than what was posted.
- **Episodes.** A record that was ever written is in the table, was deleted by a
  user, or is older than its kind may get (`EpLost`); days only advance.
- **Spotify.** A tool is at work only while Spotify is connected (`SpWorking`),
  or a refresh could store tokens after a disconnect.
- **Indexer.** An entry of the collection is in table `chunks` or on its way there
  (`IxTracked`), unless a commit was cut off. For the text it takes more: while
  every change waits for the one before, one thread at most is at work, and
  `IxBusy` says for each of its steps what the two stores, its batch and the
  file have in common; with none at work the queue is empty and the index is like the
  text (`IxAlike`: of one raw hash, and empty together), or its one entry says
  what changed (`IxNone`).
- **AuthResolver.** Two attempts of one process never hold one request
  (`OneHolder`), a holder that has not written yet sees no resolution by its own
  process (`GateKnows`), and so its write is the process's first.

Only model-checked:

- liveness (`RequestsEnd`, `TaskEnds`, `EventuallyHandled`, `SlotReleased`),
  which the prover does not reach;
- the runs that end in a violation, whose counterexamples are TLC's.

## 5. What was found

Three disagreements with a text of the repository are runs that end in a
violation: `HitlLate`, `SandboxReload` and `EpisodesNight` (section 3).

The following was met while modelling. For most of it no text promises the
opposite, so there is no run; where a property names a condition, this is the step
that breaks it. Two texts do promise more than the code keeps, and the properties
name the exceptions instead: the docstring of `app/core/config.py:85` ("atomic
save" to memory and disk: a save that fails has changed memory, and overlapping
saves lose one), and that of `app/api/v1/admin.py:295` ("moves their memory
files": not those of a stranger, and not onto a directory that is there).

Requests and plans:

- Of two overlapping requests of a session the first to finish deletes the
  cancellation event of the other (`orchestrator.py:215`), which can then not be
  stopped; `AloneIsCancellable` holds because it excludes exactly this.
- The retry in `process()` catches `httpx.ConnectError`, while the client raises
  the error of aiohttp: such a loss is a failure at once (`LostClass`), and the
  model server is not restarted for it.
- A stop that comes while the tools model is asked does not keep the second request
  from being sent (`executor.py:303`), and one that comes at the announcement of a
  tool does not keep the tool from starting (`:368`, `:404`): the tool is then
  cancelled, which may be too late. `MayFollowStop` lists these steps.
- An interrupted direct request is recorded as completed.
- `_run_background` writes its outcome over whatever status the row has.
- A blocked step does not stop those that depend on it; a plan revised after the
  critic's feedback is not validated again; a planned execution is given no
  cancellation event; the row of a plan with one step is never updated; the gate
  for irreversible tasks cannot be reached.
- Approval tags of a planned step reach the page only when the step is over.

Approvals and bus:

- `resolve` answers "resolved" although the entry may be gone by then.
- After the first answer of the page that succeeds nothing enables the buttons of
  its modal again (`app.js:843`): until it is reloaded, later calls can only be
  answered by another client, and `CanBeAnswered` fails. The page's part of
  `PromptApprovalIsRight` is true for this reason.
- Urgent events that keep coming starve routine ones.

- A build log that cannot be read when its debounce task wakes is dropped without a
  word (`build_logs.py:61`), and its errors are not reported until it is written
  again.

Runtime:

- Any exception of an effect counts as a failure (`idempotency.py:139`): the next
  attempt repeats an effect that took place before the exception, and after the
  last one the compensation runs as if it had not.
- A system that halts with a proposal not yet consumed violates an invariant: the
  event is in the ledger, and the loop dies of the error (`fsm.py:91`).
- The age of a request is computed from a tip that another process may have moved
  on; two processes may resolve one request, once each.

Tools and services:

- `run_python` promises state between calls, while the worker loads its module
  again. `queue_file_for_index` does nothing inside a tool's process, and a
  task scheduled there lands in that process's scheduler.
- In a container only `~/.wade/sandbox` is writable; a container that refreshed
  a Spotify token loses the rotated one.
- A second tag in one piece of the stream is not suppressed, a timeout is
  returned as if it were the answer (`inference_client.py:225`), and a session
  opened while another is being closed is never closed (`:55`).
- Two requests that both restarted the model server would leave one without an
  owner; today none asks for it, since `httpx.ConnectError` is never raised.
- Overlapping starts of the daemon leave the PID file of a dead process; a gateway
  that does not answer is orphaned by `stop`.
- A save of the configuration that fails stays in memory and goes out with the
  next one.

What is stored:

- A conversation is rewritten by `open("w")` and `write` (`compactor.py:89`,
  `manager.py:152`): an error in between, which is swallowed, or the end of the
  process loses what was not yet written, perhaps all of the day.
- The raw hash of a file over 128 KiB takes its first and last 64 KiB and its size
  (`indexer.py:292`): a change in its middle that keeps the size only renews the
  recorded time, and the index stays as it was. The watcher has no `on_moved`
  (`:635`): renames, and saves that rename a temporary file, are not noticed until
  the next start. An error of the state database ends a worker for good (`:669`).
  A purge deletes the entries that the row lists (`:515`), so that one a commit
  left without a row stays.
- After a collection was dropped, its files are not indexed again, because their
  rows say that nothing changed. Files that change during the bootstrap behind
  its walk are never queued (`indexer.py:631`), and a full queue drops.
- The rebuild endpoint deletes the state database (`main.py:474`), whose tables
  are made only when the indexer is imported (`indexer.py:250`): queries fail
  until the restart.
- WhatsApp answers are lost while the socket is down; of several messages in one
  upsert only the first is handled; one that is delivered again is answered again,
  since neither its id nor the kind of the upsert is looked at
  (`whatsapp-bridge.js:257`).
- In the first minute after the machine's boot `users.yaml` is not read, and
  everybody is a stranger (`user_registry.py:167`: the monotonic clock is below
  the interval); a file that cannot be parsed is erased by the next write.
- A request that comes by a hidden id is served as a stranger's until the bridge's
  map has been fetched; what it writes goes to the directory named by that id, and
  is not followed by `Users`. A registration leaves the messages of a former
  stranger where they are, as does a move of one (`admin.py:315`), and a move onto
  a directory that is there (`:319`).
- An edit of facts by another process in the middle of one loses the
  first; a reader may see the torn file as empty.
- Spotify tokens that arrive while the user disconnects come back.

## 6. What is abstracted, and not modelled

A verdict, an answer of the model, a tool's result, a time of day and a failure
are choices of the environment, reduced to what the code tells apart. Names,
messages, files and payloads are members of small sets; sizes are small numbers;
time is ticks or an age. Histories (`cause`, `doubt`, `agreed`, `consents` and
the like) are variables no action of the code reads.

Not modelled:

- Prompts, personality, classification, parsing of JSON and of manifests: text.
  Their results are choices.
- Scheduled work: the monitor is a dictionary of jobs beside an external scheduler
  that does all of the timing, and `schedule_task` runs in a worker process or a
  container, where its scheduler and loop end with the call. What the jobs set off
  is modelled as events and as the night of `Episodes`.
- Telemetry: append-only tables by which nothing decides. The audit write of an
  approval is there as the suspension it causes.
- Setup wizard, desktop shell, onboarding pages, discovery, voice, hardware: input
  and output without a protocol.
- God mode and camera endpoints: a flag of the session, and a login of a third
  party.
- Skills other than the ones named: calls of outside services. In the models a
  tool is a call that ends, fails or times out.
- The hash chain of the ledger and its verification: one class writes the file.
- The semantic store, the vector mirror of old memories and the vector search.
- The escalation of verdicts that repeat, whose history all tasks share: verdicts
  are free choices, so it adds no behaviour to `PlanExecution`.
- The rebuild endpoint of the index, the cooldowns of `ProactiveMonitor` and the
  contents of the preferences of the proactive engine.

`PROJECT.json` gives for each component whether it is modelled, partly or not,
and what is missing.

## 7. Plan

Done: all modules of section 2, their runs, and the proofs of section 4. The order
was: requests and executor, approvals, bus, resolver; then plans, the runtime,
services and stored state; then the proofs about plans and the runtime; then
those about the parts of `Services` and `Household`.

Next, by what they would add:

1. That a request of `Orchestrator` runs an execution of `Executor`, as a
   refinement, so that the loop embedded there is no second model of it.
2. The critic's escalation with its history, for two tasks at once.
3. `PlanExecution` composed with `Hitl`, so that the late tags of planned steps
   are a behaviour and not a remark.
