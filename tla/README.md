# A TLA+ model of LapWing's core

LapWing is a personal agent: one long-running Python process that talks to its
owner and to others over chat channels, thinks by itself from time to time,
keeps reminders, and runs background agents. All of it runs on one asyncio
event loop with a few SQLite tables underneath. What is hard about it is not
any single function but the awaits between them: a turn of the conversation is
preempted while a tool is writing, two starts of one task race, the process
dies between two statements, a future is cancelled under somebody who waits.

These modules model the parts of the core where that happens, check them with
TLC on small instances and prove the most important safety properties with TLAPS
for every instance. Paths below are relative to the repository; `bg/` stands for
`src/core/concurrent_bg_work/`.

## 1. Inventory

| Component | State | Operations | What is hard | What makes it correct |
|---|---|---|---|---|
| background task store (`bg/store.py`) | tables agent_tasks, agent_events, checkpoints, topic_generations, stopped_topics; a writer queue | create_task, append_event, update_status, checkpoints, generations, stop markers, startup_recovery | one writer task serves all callers in order; a cancelled caller's write still commits; writes overwrite the status they find; a crash between statements | one row per idempotency key; ended tasks stay ended; recovery can be interrupted and repeated |
| agent runtime (`bg/runtime.py`, end of `src/agents/base.py`) | one asyncio task per run, its cancellation token | run, checkpoint a question, report the end | a cancellation at any await; agent and runtime both report | every run whose agent comes back leaves a settled row; an end is reported once |
| supervisor and gate (`bg/supervisor.py`, `bg/policy.py`) | the runs by task id, calls in progress | start, cancel, answer | counts rows before the row exists; races between calls | idempotent start; a confirmed cancellation sticks; one answer per question |
| event bus (`bg/event_bus.py`) | none of its own | emit: store, then push to the main loop | a push lost between commit and queue | one report per end, two for an exhausted budget |
| main loop and queue (`src/core/main_loop.py`, `event_queue.py`, `events.py`) | priority queue, the turn in flight, the watcher | dispatch, coalesce, time out, preempt, interrupt, stop | dispatcher, watcher and stop() wait for the same task | one turn at a time; no message lost; the owner is always answered |
| inner tick scheduler (`inner_tick_scheduler.py`, `brain.py`) | urgency queue, wake event, conversation flag, intervals | push, tick, pause, resume, back off | wake-ups, pauses and delayed ends race with turns that are preempted | urgency has a tick that will take it; no tick falls into a conversation |
| durable scheduler (`durable_scheduler.py`) | reminders_v2 | schedule, cancel, check and fire | crash between marking and ringing; an agent reminder waits for the main loop | rings once; series go on; cancelled means quiet |
| commitments (`commitments.py`) | commitments table | create, fulfil, abandon, overdue | late updates | a closed commitment stays closed |
| kernel (`src/lapwing_kernel/`) | table of interrupts, futures of the waiting workers, event log, leases | challenge, approve, deny, resume | the interrupt is durable and the future is not; a statement may raise between the two | an action held back is retried only after a yes, once per question; a decision is recorded only if a worker hears it |
| capabilities (`src/capabilities/`) | a directory per scope and id, an index, quarantine with its records, repair queue, trust roots | create, promote, retire; import, audit, review, request, plan, apply | files written one by one, an index beside them, records that name each other and may be stale | nothing active that was not evaluated and approved; one activation per request; the index agrees with the files |
| agents (`src/agents/`) | registry slots, budget ledger | create, find, expire, charge | concurrent charges, limits | budgets are never exceeded |
| focus manager, identity, authentication, memory, skills | one store each | see PROJECT.json | one lock or one table each | local |
| tool loop (`task_runtime.py`, `task_types.py`, `utils/loop_detection.py`) | per iteration: rounds, budgets, counters of recoveries and errors, the calls made, the messages | ask the model, retry, compact, run a turn's calls, finish | five guards count different things and reset at different moments; a turn may be cut in the middle | the model is shown what happened; it always ends |
| circuit breaker (`utils/circuit_breaker.py`) | failures and cooldown per call | allow, record | it outlives the iteration, whose guards do not | a cooldown ends |
| gates (`infra_breaker.py`, `proactive_message_gate.py`) | counters and clocks | trip, allow, record | boundaries in time | a tripped breaker recovers |
| model routing, browser, channels, API, desktop | I/O | - | external behaviour at every step | - |

How they interact. A channel puts a MessageEvent into the queue; the main loop
turns it into one brain call, in which the tool loop asks the model and runs its
calls, some of them through the circuit breaker's refusal. Tools start, cancel and answer
background tasks and set reminders; when a turn is preempted, the tool call
inside it is cancelled at its await. The supervisor spawns runs; what a run
reports goes through the event bus into the store and as an event into the same
queue. The durable scheduler puts agent reminders into the queue and awaits
their `done_future`. A
browser tool run by a resident operator that meets a challenge page registers an
interrupt and waits for the owner, whose answer comes in through the API. The
inner tick scheduler puts ticks into the main loop's queue and is told by the
brain when a conversation begins and ends. The container starts everything,
after startup recovery, and stops it in a fixed order.

The hazards this gives, each at its line, are listed in PROJECT.json with the
properties that cover them.

## 2. Modules

| Module | Models | Extends / uses |
|---|---|---|
| `AgentTaskStore` | the tables and the writer queue of `bg/store.py`: one action per operation, executed in queue order | - |
| `AgentRuntime` | one run of an agent, await by await, with the event bus's emit | `AgentTaskStore` |
| `TaskSupervisor` | the calls of tools and of the main loop on background tasks, the gate, recovery, crashes | `AgentRuntime` |
| `IdempotentStart` | abstract: a key is claimed once, every start is handed the claimant | - |
| `EventQueue` | the priority queue and the events | - |
| `MainLoop` | dispatcher, brain tasks, owner watcher, shutdown | `EventQueue` |
| `DurableScheduler` | reminders, `run_loop`, crashes, composed with the main loop | `MainLoop` |
| `InnerTicks` | inner tick scheduler, urgency, the pause during a conversation, composed with the main loop | `MainLoop` |
| `KernelInterrupts` | workers of resident operators, interrupts, futures, approve and deny, crashes and failing statements | - |
| `OwnerConsent` | abstract: a question has one answer, a yes is used at most once | - |
| `CapabilityStore` | the copies of a capability, one per scope, and the index: create, disable, archive | - |
| `CapabilityLifecycle` | promotion and retirement, with evaluator and policy | `CapabilityStore` |
| `CapabilityQuarantine` | import, audit, review, request, plan, activation | `CapabilityStore` |
| `Capabilities` | life cycle and quarantine on one store | the two above |
| `CircuitBreaker` | failures and cooldowns of `utils/circuit_breaker.py` | - |
| `ToolLoop` | one iteration of the agent after the other: `complete_chat`, `_run_step`, the guards | `CircuitBreaker` |
| `TaskSupervisorMC`, `MainLoopMC`, `DurableSchedulerMC`, `InnerTicksMC`, `KernelInterruptsMC`, `CapabilitiesMC`, `ToolLoopMC` | instances for TLC | |
| `TaskSupervisorProofs`, `TaskAnswerProofs`, `MainLoopProofs`, `DurableSchedulerProofs`, `InnerTicksProofs`, `KernelInterruptsProofs`, `CapabilitiesProofs`, `ToolLoopProofs` | theorems (section 6) | the modules they are about; `TaskAnswerProofs` extends `TaskSupervisorProofs`, `InnerTicksProofs` extends `MainLoopProofs` |

### State and actions against the code

*Granularity.* asyncio switches only at awaits, so an action is what a coroutine
does from one suspension to the next. A coroutine is a control point (`pc` of a
client, `dpc`, `wpc`, `spc`, `fpc`) named for what it waits for. `Quiet` says
that nobody who is due to run directly (a callback already scheduled, a task
that has just ended) is still to come; it keeps the order in which asyncio wakes
the waiters of one future.

*The store.* A column of agent_tasks is a function of the task. A task id is
drawn by a start call, so a task stands for its start. `queue` holds the
submitted writes; `Disowned` is what the queue becomes when a caller that waits
for its result is cancelled: the write stays and nobody hears of it. Event ids
are kept because they are primary keys and a second insert raises. Payloads,
summaries and timestamps are left out.

*Runs.* `Run(t)` and `Resume(t)` are the first run and the one an answer spawns.
What an agent does is external: it may complete, fail, ask, return without an
event, raise, run out of its budget, be cancelled, or never come back. Building it
(`get_or_create_instance`) gives an instance, a failure that `run()` reports
(`InstantiateFails`), or an exception that nothing catches (`InstantiateRaises`, the
outcome `uncaught`): the run is then over and its row still says running. `reports`
is the list of the result events pushed to the main loop for a task, the notice of
an exhausted budget included.

*Calls.* `Start(t)`, cancellers, responders and stoppers make one call each.
The limits of the policy are constants with the code's comparison. A start may be
given a generation by its caller (`GivenOf`, 0 for none), which goes into the row
as it is; only without one the counter is asked (`GenerationOf`). The topic
stop is the one operation of the main loop on the store, at the place where
`_maybe_record_topic_stop` calls it.

*Main loop.* An event is its identity, with constant kind, chat and text class
(`_classify_owner_over_owner_text`). `stamp` ranks `Event.timestamp`, so putting
an event back keeps its place. `turn[e]` is the brain task made for `e`,
`future[m]` the `done_future` of a message. `current` is `_current_task`, which
the watcher may clear while the dispatcher owns another: it is modelled as the
assignments the code makes, never derived. Two tests in the code cannot be true
and are left out: the preemption inside `_dispatch` (the dispatcher that would
find a task in flight is itself the one awaiting it) and the self-yield of
`_handle_inner_tick` (an OWNER message has been served first).
`OperatorControlEvent` is constructed by nobody and left out.

*Reminders.* A reminder is a row; the next occurrence of a repeating one is
another reminder (`NextOf`). Statements of SQLite are atomic steps. `batch` is
what one SELECT returned and has not been fired yet. A crash keeps the table
and loses the queue and every coroutine.

*Inner ticks.* `tpc` is where `_run` waits: in its sleep, at the pause, or woken
from it (`resuming`); `conversing` is `_in_conversation`, `stage[m]` where the
turn of message `m` is in `think_conversational`, `ending` a `_delayed_end` that
sleeps. The intervals and the back-off are abstracted to a wait that may be over
at any time; this adds behaviours and removes none. `slip` is a history
variable: it tells a pause that an earlier turn's delayed end broke
(`overtaken`) and one that no end was ever scheduled for (`abandoned`); both are
behaviour of the code (section 5). The steps of the main loop are those of
`MainLoop`, beside steps that leave it alone: `LoopBeside` proves that every
behaviour of `InnerTicks` is one of `LoopSpec`.

*Kernel.* `row` is the durable status of an interrupt, `future` what the
registry holds in memory; `pc` is where a worker is suspended: in the browser, or
on the future `ref`. The API server runs on the same event loop, so `Approve`
and `Deny` are atomic. Each statement of SQLite either works or raises
(`Works`, `Raises`), and what a raise leaves behind is spelled out at every
place: `ApproveLost` is the approval nobody waits for. A crash forgets futures
and workers and keeps rows. The challenge detector and the browser are external.

*Capabilities.* A copy of a capability is the record of its manifest (status,
maturity, risk, content, the scope it names, and the plan and request it came
from); `Partial` is a directory without a readable manifest. Every call is one
step of the event loop: what can go wrong inside it is a file operation that
raises or a crash, and each operation says what is on disk after each of them.
Records of quarantine are numbered in the order they are written; those a package
ships come first, since the import copies its whole directory (`Packages`, `Bring`,
`brought`). They have the dates and ids the package gives them, so any of them may be
the latest (`Consulted`), and a brought request may be marked in another's file
(`FiledAs`); they need not give a content hash (`NoHash`). `NotFound` is
`store.get` without a scope, which parses the first copy that exists in the order of
`SCOPE_PRECEDENCE` (`Rank`) and raises when that one is torn, whatever other scopes
hold. The evaluator is external: `Passing` and `Ready` are what it says of a content.
`missed`, `consented`, `brought`, `spent`, `unmarked` and `torn` are history variables.

*Tool loop.* A call is its signature (tool and arguments), which is what the
guards and the breaker tell apart. A step asks the model (`Asks`, one round) and
meets one of the outcomes of a request, or handles one call of the turn
(`Handle`, with the breaker's `Record`). `messages` is what the iteration added to
the prompt, as kinds: the assistant's calls, results, results cleared by
compaction, and what the runtime injects. What the model says, whether a call
works and whether a request fails are external. `ran`, `quiet` and `counted` are
history variables. Iterations follow each other, since the main loop runs one turn at a
time (`OneTurnAtATime`), and the breaker is what they share. `surface` is what
an iteration serves: an inner tick has tighter limits than a chat.

## 3. Runs

| Run | Expect | Bounds | What it shows |
|---|---|---|---|
| `start` | pass | 4 starts (2 under one key, one of them with a generation given by its caller, one naming a replaced task), one topic, limit 3, 1 stop marker, 1 crash, callers preemptible; 785 thousand states | `RefinesIdempotentStart`: all starts of an intent are answered with one task. `StopSparesLaterStarts`: allotted generations are unique, a marker mutes no task started after it unless a given generation is as high |
| `cancel` | pass | 1 task, 2 cancellations, 2 answers, callers preemptible | `ConfirmedCancelSticks`, `ActiveRowHasRun`, `WaitingHasCheckpoint`, `OneAnswerAccepted`, `EndedStaysEnded` |
| `live` | pass | 2 tasks, limit 1, backlog 1, 2 crashes, fairness | `HandedOutTaskSettles`, `OneTerminalReport`, `OrphansStayFailed`, `LimitHoldsWithoutRaces` |
| `resume` | violation | 1 task, 1 answer | `AnsweredTaskSettles` (finding 1) |
| `loop` | pass | 2 owner messages (one a status probe), 1 tick, 1 status event, 1 shutdown event, fairness | `OneTurnAtATime`, `NoMessageLost`, `StopIsClean`, `ServedInOrder`, `OwnerIsAnswered`, `StopEnds` |
| `loop_race` | violation | 2 owner messages, 1 other | `CurrentTaskIsTheTurn` (finding 2) |
| `sched` | pass | a repeating reminder, an agent reminder, 1 owner message, clock up to 2, 1 crash, fairness | `RingsOnce`, `SeriesGoesOn`, `QuietAfterCancel`, `DueRemindersFire` |
| `sched_dies` | violation | the same without a crash | `SchedulerLives` (finding 3) |
| `ticks` | pass | an owner message, a message of another chat, 1 tick, 1 urgent item, shutdown, fairness | `UrgencyHasATick`, `SilentInConversation`, `UrgencyIsSeen`, `UserIsAnswered` |
| `kernel` | pass | 2 workers, 3 interrupts, 2 failing statements, 1 crash, fairness | `ConsentKept` (refines `OwnerConsent`), `ActiveFutureIsAwaited`, `AuditTrail`, `ResolvedOnlyIfAwaited`, `DecisionEndsWait` |
| `capabilities` | pass | 2 scopes, 3 contents (ready, passing, failing), low and high risk, 2 store calls, 1 fault, 1 audit, 1 review, 1 plan and 1 request, with those of the package, 1 edit; packages without records, with an approving review, with a request and its plan, with all three; 1.5 million states | `ActivationBacked`, `IndexAgrees`, `PromotionEarned`, `RequestSpentOnce` |
| `tools` | pass | 2 signatures, one delegating; 2 limits (3 and 2 rounds), turns of up to 2 calls, cooldowns 1 and 2, burst threshold 2, repetition threshold 3 with a history of 4, no-action budget 2, 1 recovery of each kind, 1 result kept, fairness | `RequestShape`, `EveryResultIsTold`, `BurstIsTold`, `NoEndlessRepeat`, `IdleAnswersBounded`, `CoolingEnds` |

Why the bounds are enough to be interesting. Two starts of one key are the race, and
since one of them is given generation 2, the row of that key has either an allotted
or a given one; the third start draws from the same counter before or after either,
and the fourth, which waits for a task to end, after a crash. The full gate is in
`live`, and there two crashes let the second fall into the recovery from the first.
Two cancellers and two answerers of one task give all pairs. In the main loop two messages per chat are
what coalescing, order and interruption need, and a second chat is what
preemption and putting back need (in `ticks` and `loop_race`; `loop` has the
inner turn and the status event instead, as its safety properties are proved for
every set of events); the second owner message is a status probe, so that the
watcher pops it, answers, and may cancel. For reminders, one that
repeats and one that waits for the main loop make batches of more than one, and
the owner's message is the preemption. For ticks, a message of each of
two chats gives a turn that is preempted, a second turn after a delayed end, and
a tick between them; there is one tick, so after it was served `UrgencyIsSeen`
says nothing more, which is why the safety properties are proved for any number.
In the kernel, three interrupts of two workers let one worker meet a second
challenge after its first was approved while the other waits. For capabilities,
two scopes are what copying and archiving relate and what an import can confuse:
two store calls and a fault leave a torn copy before a readable one. One edit makes
a record stale. A request made here beside one that was brought, and several of one
kind, are left to the proofs, which have no bound. In the tool loop three
turns of two calls let a turn be cut after its first call and followed by
another, let three equal calls, or two alternating three times, meet their
threshold across turns, let results be compacted with one kept, and let an
answer be dropped and the next one end the iteration; the next iteration begins
with the breaker the last one left. The runs `kernel` and
`capabilities` do not check for deadlock: with all interrupts decided, or all
bounds used up, the instance really stops. Every action and every alternative of the
next-state relations fires in some passing run.

The runs do not repeat the type invariants, which are proved for every instance
(section 6).

Every checked property has a mutant beside the definition it changes ("Mutant
of ..."): a plausible slip in that place of the code, under which TLC finds the
property violated.

### Fairness

The event loop serves every ready coroutine: weak fairness of the dispatcher,
the watcher, the writer, recovery, and of each call once it was made. A run of an
agent is served like any coroutine, except while it executes: nothing bounds
`execute()`, as a tool call has no timeout and a resident operator waits for its
owner, so an agent may never come back (`Proceeds`). `HandedOutTaskSettles` and
`AnsweredTaskSettles` therefore speak of tasks whose run does not stay there for ever;
a run that is cancelled there does end. No fairness for making a call, for a
cancellation, a crash, an arrival, the clock. In the main loop a brain call that was not cancelled gets no
fairness: `OwnerIsAnswered` holds though no brain call ever returns by itself,
because the 300 s deadline (`Expire`) and the watcher get the dispatcher out.
Only a *cancelled* brain call must end. `UserIsAnswered` adds that think_inner
ends by itself (it gives up after its `timeout_seconds`) since nobody preempts
an inner turn for a user who is not the owner. `UrgencyIsSeen` assumes the same,
and that the scheduler's waits and the delayed end of a conversation, which are
timers, run out; nobody has to push, to talk or to let a brain call return.
`DecisionEndsWait` assumes only that a worker that can move does (a navigation
has a timeout, and a worker whose future is set is woken): nobody has to
delegate, to decide or to cancel. `CoolingEnds` assumes that time passes,
nothing else.

## 4. Findings

1. **An answered task never resumes** (`resume`, `bg/runtime.py:55`). The resumed
   run emits AGENT_STARTED under the event id of the first run; the insert
   raises, nothing catches it, the row stays running and counts against the
   limits until a restart. The code's invariant list says
   "AGENT_NEEDS_INPUT checkpoints and resumes."
2. **The watcher clears a task that is not the one it cancelled** (`loop_race`,
   `src/core/main_loop.py:293`). The dispatcher is first to be woken by the end
   of the cancelled task and may be in the next turn when the watcher's `finally`
   sets `_current_task = None`. That turn can be neither preempted nor stopped.
   The watcher's docstring says it never races with the dispatcher's
   bookkeeping.
3. **A preempted agent reminder ends the scheduler** (`sched_dies`,
   `src/core/durable_scheduler.py:496`). Preemption cancels the `done_future`;
   awaiting it raises CancelledError, which no `except Exception` catches. The
   task ends, and no reminder fires until the program is restarted.

## 5. Behaviour worth knowing

The models contain all of this; the properties name it as their exceptions. What
a document or a docstring says otherwise is quoted; these have no run of their
own.

Tasks, loop and reminders:

- An answer that races a cancellation wins: RESUMING overwrites CANCELLED and a
  run is spawned on a cancelled task. `ConfirmedCancelSticks` and
  `EndedStaysEnded` therefore speak of tasks nobody answers.
- Of two answers to one question, the caller that loses marks the task FAILED
  although the other one is resuming it.
- A start whose turn is preempted between insert and spawn leaves a PENDING row
  without a run, which counts against the limits until a restart
  (`ActiveRowHasRun` names the exception).
- A start let through while another admission is in flight may exceed the limit;
  `LimitHoldsWithoutRaces` says that nothing else does.
- A start over the limit becomes WAITING_RESOURCE, and no code promotes it.
- The stop marker misses a start that was allotted a generation but has not
  inserted its row.
- A generation that the caller of `start_agent_task` gives is not compared with the
  counter (`bg/supervisor.py:143`): its row may share it with another row of the
  topic, and a stop marker set while that row is there suppresses every generation up
  to it, also those not allotted yet. `StopSparesLaterStarts` is about the others
  (`Draws`, `GivenAbove`).
- `run()` catches only `AgentSpawnError` around `get_or_create_instance`
  (`bg/runtime.py:63-68`). Another exception, for instance a corrupt catalog row or an
  `OSError`, ends the run without an event: the row says running, nobody works on
  it, and it counts against the limits until a restart. `ActiveRowHasRun`,
  `HandedOutTaskSettles` and `AnsweredTaskSettles` name the exception (`Uncaught`).
- An exhausted budget reaches the main loop twice: as AGENT_BUDGET_EXHAUSTED
  (`bg/event_bus.py:171-178`, `244-262`), which leaves the row open, and as the
  completion that the runtime then adds. `OneTerminalReport` allows this pair only.
- The docstring of `_dispatch` says that an OWNER handler is never preempted by
  another OWNER message; the watcher's interruption does cancel it. After its
  answer it cancels whatever turn is in flight by then.
- A dispatcher cancelled while it coalesces or sends leaves the futures it holds
  pending; shutdown answers nothing that is still in the queue.
- A reminder cancelled after it was selected, and before it is fired, is sent and
  repeats although `cancel()` returns True: `QuietAfterCancel` is about the
  others. A crash between marking and sending loses a reminder; between marking
  and scheduling it ends the series.

Inner ticks:

- `note_conversation_start` is called before `_prepare_think`, outside the `try`
  whose `finally` schedules the end (`src/core/brain.py:1211`, `1227`). A turn
  cancelled or failing in its preparation leaves the pause behind: no tick fires,
  urgent or not, until the next turn that is completed
  ("pause inner ticks until they finish"). `slip = "abandoned"`.
- The delayed end of a turn is not cancelled when a new turn starts. It fires in
  the middle of the new conversation and ticks resume; a comment in
  `tests/core/test_inner_tick_scheduler.py:106` says "While in conversation, the
  scheduler should not produce ticks." `slip = "overtaken"`.
- The end of a conversation sets the wake event, so a tick fires at once instead
  of after an interval, twice if the scheduler was at the pause. A scheduler that
  resumes does not look at the flag again.
- Urgent items drained for a tick that is preempted or fails are gone. What
  `note_tick_result` sets takes effect one tick later, as `_run` already waits.

Kernel:

- If the event log or `get` raises between `persist()` and the wait, the worker
  ends and its future stays live: a later approval marks the row resolved and
  wakes nobody (`executor.py:243`: "NEVER mark resolved without an awaiter to
  wake"). If the append raises in `resume()`, the row is resolved and the worker
  waits for ever. `ActiveFutureIsAwaited` and `DecisionEndsWait` name these.
- The `finally` sweep of `_run_with_resume` never finds a live future. `cleanup()`
  and `expire_overdue()` are called by nobody: interrupts never expire.

Tool loop:

- A burst of errors ends the turn at once; its other calls stay in the messages
  without a result (`src/core/task_runtime.py:1265`), although the comment there
  promises complete pairs. `RequestShape` excepts turns that were cut.
- Only the last call's payload is looked at for a pending background task
  (`src/core/task_runtime.py:1447`): any call after the delegation lets the
  model's text through as the reply, which the comment above says is suppressed.
  `has_pending_background` is written and read nowhere.
- A request to write a file is always reported as failed: success needs a
  verification by the shell, which no profile in use has, also when the request
  was handed over to `delegate_to_coder`, where `src/core/brain.py:659` routes it.
- The count of alternations is bounded by half the history plus one, and compared
  with a threshold that is by default as large as the history: with the defaults
  the guard against alternating calls cannot fire (`src/utils/loop_detection.py:165`).
  `NoEndlessRepeat` says from which history on it does.
- An answer in words that follows a tool call is dropped while the no-action
  budget lasts, and the model is asked again; it never sees what it had said.
- The warning of the burst guard says that the iteration will be ended if the
  same fails again (`src/core/task_runtime.py:1282`). It is not: the warning is
  repeated. The counter stays above the threshold, so each later failure cuts its
  turn. Calls that trip it are not recorded, so repeats of them are never counted.
- A call refused by the circuit breaker counts for the burst guard and not for the
  breaker: `CoolingEnds`. A cancelled call counts for neither.
- Repetition is blocked only if `loop_detection.blocking` is on, which it is by
  default and is not in the repository's `config.toml`.
- A cancelled iteration is recorded with the end_reason of a completed one
  (`src/core/task_runtime.py:608`).

Capabilities:

- Disabling and archiving a high-risk capability (and a medium-risk one) is
  always denied by the life cycle tool, since it passes no approval to the policy.
  The planner takes any approval dictionary for a yes, the policy asks for
  `approved`.
- No audit or review stores a content hash, so gate 6 of a request compares
  nothing (`docs/capability_phase7c_acceptance.md:141-142` says a mismatch is
  denied). A later rejection does not stop a request that names the earlier
  approval. A plan of another request is accepted, although the docstring of
  `apply` says "Must match plan/request if provided".
- The import copies the directory of a package as it is
  (`import_quarantine.py:348`), records included. Reviews, audits, requests and
  plans that come with it are read by the later gates like those made here; an
  empty hash in them is not compared. `ActivationBacked` says that the records are
  there and support what was activated, not who wrote them.
- An import is refused if `store.get` finds the id, and that looks at the first
  existing copy only (`import_quarantine.py:316-328`, `store.py:161-164`). If that
  copy is torn, a package may be imported beside a readable copy of another scope,
  whose index row then says quarantined although the copy is active. `missed` names
  the scope.
- A copy that fails or dies in `copytree` leaves a torn target
  (`docs/capability_phase7d_b_acceptance.md:245-246` says any failure rolls
  back); later applications meet it as a collision. A failed import is not
  cleaned up either and refuses the next one. Planning an id that is not in
  quarantine creates its directory ("PURE PLANNER", says the docstring) and so
  refuses its import for ever.
- A failing index write leaves the index stale, and `rebuild_index` is called by
  nobody. A request that could not be marked superseded may activate again, and so may a brought
  one whose id names another file.

## 6. Proofs

`TaskSupervisorProofs.TypeCorrect`: `Spec => []TypeOK`, for all sets of tasks,
topics and callers. TypeOK alone is not inductive: that a queued write which
allots a generation is for a task with a topic (`GenerationHasTopic`), and that a
call past its first step has a task to speak of (`SubjectKnown`), must be carried
along. The inductive invariant `TypeInv` adds both. One lemma per kind of client (writer, run,
start, cancellation, answer, stop, recovery, crash) shows that its steps keep it.

`TaskSupervisorProofs.StartIsIdempotent`: `Spec => RefinesIdempotentStart`, the
property of run `start`, for any number of starts, keys and callers and any
number of crashes. The inductive invariant `KeyInv` says

- a start that has a write in the queue waits for exactly that write
  (`StartWaits`), and has at most one (`OneWrite`): otherwise a cancelled
  caller's insert could answer somebody else;
- a start that was told its row was created has the row (`CreatedHasRow`), which
  is what makes its handle true;
- no two rows have one key (`OneRowPerKey`), which the UNIQUE column gives at
  each insert;
- a handle is given only by a start that has ended (`AnsweredAtEnd`), so it is
  given once.

From it: rows are never removed, so claims stay (`ClaimsStay`); only an insert
that succeeds makes a claim (`InsertClaims`); a start answers with the row its
key reads (`StartAnswers`); every other step is a stutter. `ClaimOf` chooses
among the rows of a key; `TheOnly` and `ClaimIs` show the choice is of one.

`TaskSupervisorProofs.LaterStartsAreHeard`: `Spec => []StopSparesLaterStarts`. Two
starts of a topic get different generations because the counter is only ever
raised by the write that hands it out, but between that write and the row there
are two awaits, a caller that may be cancelled and a crash that resets nothing.
`TopicInv` adds to `KeyInv`: an allotment or an insert in the queue is one its
start submitted (`SubmittedByStart`); a generation is settled before the insert that
carries it is submitted (`AllotsFirst`), before which there is no row
(`EarlyHasNoRow`); what a start was told, an insert carries or a row has, was
allotted to it or given by its caller (`ToldIsAllotted`, `InsertStamped`,
`RowStamped`), an allotted one to it alone (`AllottedOnce`); and markers stay below
the counter, or below a given generation (`StopsBelow`).

`TaskSupervisorProofs.RecoveryIsFinal`: `Spec => []OrphansStayFailed`. `OrphanInv`
adds to `TopicInv`

- nobody works on a task a crash left behind (`OrphanIsLeft`), and no queued
  write of others touches it or uses the event id of recovery
  (`OrphanUnwritten`);
- until the program serves, nobody else runs (`AloneAtBoot`), and recovery waits
  for the one write it has in the queue (`BootQueue`, `BootHears`);
- what is left to treat is active, what was treated is failed, and what is being
  treated has reached its place (`TodoLeft`, `OrphanFails`, `SubjectFailed`);
- the event of a recovered task is there only when its row has failed and
  recovery is done with it, or just told so (`LoggedOnce`): recovery is never
  stuck on a duplicate event, also when an earlier one was interrupted between
  the two writes.

The steps of every other client spare the orphans (`OrphansSpared`), which keeps
the invariant (`SparedKeeps`); the writer's steps, recovery's steps and a crash
are treated one by one.

`TaskAnswerProofs`: `WaitingIsAnswerable`, `AnswerIsAcceptedOnce` and
`EndedTasksStayEnded` prove `WaitingHasCheckpoint`, `OneAnswerAccepted` and the
action property `EndedStaysEnded`, for any tasks, callers, topics and crashes.
A question is three writes of the run (save, announce, end) and an answer two
more (delete, resume); any of them may be cut off from its client and still be
in the queue. So the invariant `AnswerInv` is about the queue first:

- `OpsOK` says of each queued write who still waits for it, and in which state of
  its task it can only be: a checkpoint is queued only by the task's first run,
  once, while none is saved and nobody answers (`Unsaved`); a question is
  announced only after it was saved; a write that makes an unanswered task
  active is queued only while its row is pending;
- `PairsOK` says what order two writes to one task can have: the announcement is
  never behind the delete of an answer (else the row would wait with no
  checkpoint), and what makes an unanswered task active is ahead of everything
  else written to it (else an end could be overwritten);
- `StartsLogged` and `ResumeRefused`: a run has logged its first event before it
  gets anywhere, and the run an answer spawns uses the id of that event again.
  It is refused there, so no task asks a second question. This is finding 1's
  mechanism, and the reason why one checkpoint per task is all there is;
- `QuestionPut`, `QuestionSaved`, `SpentOnce`: who answers has seen the question
  in the row, a checkpoint is saved by a run that is past its work, and a
  checkpoint that was deleted was deleted for one answerer;
- `RunsKnown`, `SubjectsSettled`: who is registered is live, and what a call
  speaks of is a row whose start no longer waits.

`TaskAnswerProofs.LimitIsKept` proves `LimitHoldsWithoutRaces`. `LimitInv` adds to
`AnswerInv` the set `Counted`: the active tasks the limit is about and the starts
that were let through alone and have not inserted their row. A start is counted from
the moment the gate lets it through, where there is room for it (`FewCounted`); a
queued write that makes a task active was foreseen there or resumes an answered task
(`MarksOK`, `MarksFirst`), so no other step adds to the set.
`PolicyAssumption` says that the limit is a natural number.

`TaskAnswerProofs.OneEndIsReported` proves `OneTerminalReport` for an instance in
which nobody cancels, which is what the property is about: a run that is
cancelled may report a second time. `ReportInv` adds to `AnswerInv` that the
writes queued for a task at work are its run's own (`OwnWrites`), and that who has
reported an end has put it into the row first (`Reported`): the runtime, which
reports after the agent, reads the row and is silent. The exception is followed
through: after the notice of an exhausted budget the row is open and the outcome is
"done" (`BudgetTold`), so what the runtime adds is one completion (`ToldOnce`).

`TaskAnswerProofs.CancellationSticks` proves `ConfirmedCancelSticks`. `QuellInv`
adds to `AnswerInv`:

- `SoleRun`: the run of a task nobody answers is the one a cancellation finds
  registered and interrupts;
- `Quell`: from the moment a cancellation has marked the row, that run writes
  nothing more but that it was cancelled (`QuelledActs`), and the start of the task
  will not spawn another;
- `WritesOK`, `AfterOK`: what the run had queued before stands ahead of the
  cancellation's own event, which sets the status to `cancelled` again; behind it
  nothing is queued that would change that;
- `RowsDown`: so once that event is logged the row says `cancelled` and stays so.
  A second cancellation finds the row ended, and recovery does not treat it.

`TaskAnswerProofs.ActiveRowsAreRun` proves `ActiveRowHasRun` under the hypothesis
`RuntimeEnabled`: with the flag off no run is ever spawned and a pending row waits
by design. What threatens the property is a run that gives up silently, so the
argument goes through the ways a run can end without looking at its row.

- `IdInv` (on top of `QuellInv`): the ids of a run's events are its own. The first
  event is written once, the last once, and what cancellations and recovery write
  has other ids (`IdsOK`, `IdPairs`, `IdsTaken`). Hence a run is never refused its
  own event as a duplicate (`Heard`): the `error` exits of the run are closed.
- `CreateTold`: a start that finds its row inserted has been told so and goes on to
  spawn.
- `Calmed`: a run that is interrupted, whose token is set or that has logged its
  last event has a row that is no longer active, and so has the target of a
  cancellation that marked it.
- `Kept`: an active row that nobody answered and that no crash orphaned is attended,
  or its run ended in an exception nobody catches (`Noted`, `UncaughtEnded`).

Rows orphaned by a crash are failed before the program serves, by the invariant
of `RecoveryIsFinal`.

Each client's step is first reduced to what the invariant can see of it
(`RunActs`, `StartActs`, `RespondActs`, `Effect` for the writer; `Aside` for the
steps of cancellations, stops, recovery and cancelled callers), and the invariant
is then shown to survive that.

`MainLoopProofs`: `LoopTypeCorrect`, `TurnsNeverOverlap` and `StopLeavesNothing`
prove `LoopTypeOK`, `OneTurnAtATime` and `StopIsClean` of `LoopSpec`, for any
finite set of events. The inductive invariant `LoopInv` adds to the type

- `ActiveIsHandled`: a brain task that runs or is being cancelled is the one the
  dispatcher awaits. Everything that starts a task does so from a place where the
  dispatcher awaits none (`NoneActive`), so there is never a second;
- `HandlesEvent`: where the dispatcher is inside a handler, there is an event;
- `NamesTask`: what `_current_task` names was created, although it need not be
  the task in flight (finding 2). Cancelling it can then revive nothing:
  `CancelKeepsTurns`;
- `WatcherEnds`: the watcher is off when `run()` has returned.

The one arithmetic fact is that an event put into the queue gets a rank within
the number of events (`PutTyped`, by the theorems on finite cardinalities).

`MainLoopProofs.MessagesKept` proves `NoMessageLost`. It is inductive beside
`LoopInv` with four facts about the places a message can be: a dispatcher that
awaits the queue holds nothing (`HandsEmpty`), one that thinks or delivers holds
no message (`HoldsNoMessage`), one that still coalesces has merged nothing
(`MergesLater`), and stop() has ended the loop before it awaits a task
(`StopClears`).

`MainLoopProofs.ChatsInOrder` proves the action property `ServedInOrder`:
`OrderInv` says that stamps count the arrivals (`StampsCounted`), that what is
queued or held was stamped (`QueuedConstructed`), and that what the dispatcher
holds came before what its chat still has in the queue (`HeldIsFirst`).

`InnerTicksProofs`: `LoopBeside` proves that `InnerTicks` implements `LoopSpec`,
so what is proved of the main loop holds beside the scheduler. `TickTypes`,
`UrgencyKeepsATick` and `PausedInConversation` prove the safety properties of run
`ticks` for any events and items. `TickInv` adds `TalksInTurn` (who is in
`think_conversational` is in a turn) and `PauseStands` (from the beginning of a
turn to its delayed end the flag is set, unless an earlier end overtook it). With
`OneTurnAtATime`, of which it needs the for-every-instance form, at most one turn
talks.

`KernelInterruptsProofs`: `KernelTypes`, `NoOrphanFuture`, `RetriesAreLogged`,
`ApprovalFindsItsWorker` and `KernelImplementsConsent` prove every safety
property of run `kernel` and the refinement of `OwnerConsent`, for any workers and
any bounds. `KernelInv` adds: an interrupt not yet registered has no trace
(`FreshUntouched`); a suspended worker awaits a future that was raised for it
(`AwaitsItsOwn`), so a yes wakes one worker; a future holds a result only of a
resolved row (`ResultIsYes`), so what lets an action through is a yes; and a
live future of a pending row is awaited by the worker it was raised for, unless
that worker ended in a failing statement (`PendingHeld`).

`CapabilitiesProofs`: `CapabilityTypes`, `ActivationsAreBacked`,
`IndexFollowsStore`, `PromotionIsEarned` and `RequestIsSpentOnce` prove every
property of run `capabilities`, for any scopes, contents and bounds. `StoreInv`
and `RecordInv` are the inductive parts; beside the properties they say that a
scope a torn copy speaks for is named (`TornSpeaks`), that what is in quarantine
stays a quarantined draft, whatever is edited (`Quarantined`), that there are no
records before there is a package (`RecordsOfPackage`), that what it brought stands
first and requests name records that exist (`RecordsNamed`), that what is made here
is made for a content, on an approval (`RecordsGiven`), and that a used request is
marked unless it could not be (`SpentMarked`). Nothing is assumed of the records a
package brings but that they are of their types and name each other. Records only
grow (`RecordsKept`), so a copy that was backed stays backed (`OldCopies`); which of
the brought records counted when a copy was activated is all that has to be
remembered of it (`Vouched`, `Backed`).

`DurableSchedulerProofs`: `SchedulerTypeCorrect`, `NeverRingsTwice`,
`SeriesContinues` and `CancelSilences` prove all the invariants of run `sched`, for
any reminders and bounds. Nothing is assumed about the main loop: the steps of
`LoopNext` leave the table alone, and what an agent reminder is answered with
never matters. The inductive invariant `TableInv` says of each row where it can be
on its way from `Fresh` (never inserted) over pending and selected to `Spent`
(marked, or deleted):

- what was not marked was not sent (`UnmarkedUnsent`), and what is being fired is
  marked, not sent, and no longer selected (`FiringMarked`): each ring is a first;
- a batch keeps only rows that are pending or were deleted under it
  (`BatchListed`);
- a next occurrence exists only when its predecessor is past `_calc_next`
  (`NextFollows`): so the insert never meets a row, which with the marking is
  why nothing comes back after it was fired or cancelled;
- the next occurrence exists before the text is sent (`NextFirst`);
- what was cancelled in time is out of reach, and so is its series
  (`UnlistedQuiet`).

`ToolLoopProofs`: `LoopTypes`, `IdleAnswers`, `ResultsAreTold`, `BurstsAreTold`,
`RequestsAreShaped` and `RepetitionIsStopped` prove every safety property of run
`tools`, for any signatures, budgets, thresholds and lengths of turns and history:

- the type invariant is inductive because nothing is collected outside a turn and
  an iteration that goes on has budget left;
- `IdleInv` weighs the answers without tool calls against what they used up: one
  unit of the budget, or one recovery;
- `ToldInv`: the results in the messages and those still collected are together
  the calls handled (`AddedResults`, `CompactedTyped` are its facts about messages);
- `BurstInv`: a row of k failures leaves the error count at k or more
  (`ErrorsCounted`), whatever it was before, so the failure that completes the row
  trips the guard (`TrippedInTime`); and since the last burst a warning stands
  behind all results (`BurstWarned`);
- `ShapeInv`: while a turn is run, the last message with calls is followed by
  reminders only (`Open`) and is as long as what is collected and left; every
  earlier one is answered, and what is appended behind later calls, or emptied by
  compaction, changes that no more (`ShapeAppend`, `ShapeBehind`,
  `ShapeCompacted`, `OpenDone`, `OpenCut`);
- `RepeatInv`: the window the detector keeps is the end of the calls it was told
  of (`HistoryIsEnd`), so a call that would complete a repetition is counted up to
  the threshold in it (`RepeatsCount`, `PairsCount`) and is stopped.

Assumptions: `StoreConstants`, `SupervisorConstants`, `PolicyAssumption`, `EventConstants`,
`ReminderConstants`, `KernelConstants`, `StoreAssumption`,
`QuarantineAssumption`, `CooldownsAssumption` and `LoopAssumption`, that is, the shape of the constants: what the set of
clients is, that the events are finitely many, that each occurrence of a
reminder is a row of its own with a later time, that what is ready is passing.
No bound of a run is an assumption of a theorem.

Only model-checked: all liveness (`HandedOutTaskSettles`, `OwnerIsAnswered`,
`UserIsAnswered`, `StopEnds`, `DueRemindersFire`, `UrgencyIsSeen`,
`DecisionEndsWait`, `CoolingEnds`), as liveness under fairness is outside what the
prover does here. Every invariant that a passing run checks is stated by a theorem.

## 7. What is not modelled, and why

The contents of messages, prompts and results; what a model or a tool decides
(external, any outcome); display queries, snapshots and the delivery policy of
the event bus; model routing, browser, channels and desktop,
which do I/O at every step. These, with scoring, prompts and formatting, are most
of the program's lines: the model covers the protocols between them, which is a
small share. Failing SQLite statements are modelled in the kernel and for
capabilities; elsewhere only the constraint violations the code relies on.

Of the kernel, the credential lease and the interrupt raised by a policy decision
are left out: nothing in the program issues the actions that would need them. Of
the capabilities, proposals, health reports, repair queue and trust roots, which
are status fields that change no capability, and the trust gate, which is off
unless configured. `cleanup`, `expire_overdue` and `rebuild_index` have no caller.
Of the tool loop, the shell session (consent, pending confirmations, verification)
is left out, as no profile the brain selects has a shell tool, and the fallback
for a missing tool infrastructure, which needs a program started without its
dispatcher. Display events and the observers after an iteration change nothing in
it. The compression of browser history and exceptions of a tool phase other than
broken JSON are left out as well.

A given generation of 0 or below is not modelled, nor are brought requests that name
a review or audit that does not exist: the gates refuse them. The hashes a brought
review or audit may give can only make gate 6 of a request refuse more.

Shutdown is modelled for the main loop and the inner tick scheduler; the container
cancels the durable scheduler before it.

## 8. Plan

Done: the tasks, the main loop, the durable scheduler, the inner ticks, the
kernel's interrupts, the capability life cycle, the tool loop with its circuit
breaker, and the proofs above. Left, in this order:

1. `FocusManager` (activation and archiving under two turns) and `Commitments`
   (late updates of a closed commitment).
2. `AgentBudget` (registry slots and the budget ledger under concurrent charges).
3. The proactive message gate over bounded clocks.
