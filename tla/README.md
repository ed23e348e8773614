# Verification of Chelix in TLA+

Chelix is a personal agent server: a Rust gateway that holds chat sessions, runs
an agent loop with tools for each of them, and takes prompts from a web UI,
channels, webhooks, cron and other agents. This directory models when an agent
turn runs in a session and what happens when it is stopped, queued, truncated,
dropped or restarted; one agent run with its tool calls, permissions and event
journal; the stored history of a session, from the journal to the browser's copy;
the terminals commands run in; and the cron and webhook services.
TLC checks small instances; for every instance TLAPS proves the safety properties
of all of them, and that a session implements its abstract ledger.

## 1. Inventory

Components that carry state, with their operations and what makes them right.
`PROJECT.json` lists every component, also those that are not modelled.

| Component | State | Operations | What makes it correct |
|---|---|---|---|
| Stop gate (`chat/src/service/stop_gate.rs`) | one mutex around `GateState`: stop depth, suppression, enqueue epoch, guards, permit holders, runs, current run, results under a stop; a `Notify` | `begin_send`, `attach_permit`, `begin_enqueue`, `confirm_start`, `publish_run`, `finish_run`, `arm_next_batch`, `choose_stop`, `snapshot_stop`, `end_stop`, drops of the guards, `stop_current_session`, `stop_run`, `finalize_dropped_run` | a stop that returns leaves nothing that can start; overlapping stops do not undo one another; no wakeup is lost |
| Mutation coordinator (`service-traits/src/session_mutations.rs`) | per session an `RwLock` gate and a one-permit semaphore | `try_acquire_turn`, `reserve_mutation`, `acquire`, drops | a turn and a mutation never overlap |
| Prompt queue (`sessions/src/prompt_queue.rs`) | rows in SQLite, one sequential receiver | enqueue, remove, drain, clear, status | every prompt at most once and in order |
| Session gate (`chat/src/service/session_gate.rs`) | last terminal per session, a version channel | `begin_turn`, `finish_turn`, `notify`, `wait_for_gate` | a waiter sees the final gate and does not sleep through it |
| Chat turns (`chat/src/service/chat_impl.rs`, `chat_impl/send.rs`) | `active_runs`, `active_runs_by_session`, the tasks themselves | `send`, the run, the drain, `send_sync`, `abort`, `clear`, `wait_for_session_gate` | one turn at a time; the model answers the stored conversation; calls return |
| Journal, store, UI history (`sessions/src`, `gateway/src/ui_history_subscription.rs`) | the canonical records and their tail; semantic snapshots in SQLite with a row of generation and revision, and in memory those that run ahead; a journal mutex, a flush mutex; registered runs | append, update, truncate, clear; stage, bind, flush; begin, copy and finish of a run; page and updates of a subscription; fork, import | records are never lost, repeated or cut under a turn; what is shown is what the journal has; a subscriber misses nothing; a finished run is stored |
| Session maintenance (`gateway/src/session`, `methods/services/sessions.rs`) | none of its own | truncate, fork, voice, patch, archive, delete | exclusive with turns |
| Agent runner (`agents/src/runner`) | the current batch of tool calls, budget, retries, nudges, one future per call | `run_agent_loop_streaming`, `ToolInvocationExecutor` | every announced call gets one terminal update, the last of it; a declined call never runs; retries end; a cancelled run ends |
| Tool permissions (`chat/src/tool_permission.rs`) | pending map by session, call and phase; the paused clock | register, recv, resolve, `drop_session`, pause, resume | no request outlives its run; the timeout counts work only |
| Events and compaction (`chat/src/agent_loop.rs`, `run_with_tools.rs`) | ordered queue, sent and processed counters, receipts, the forwarder's pending inputs and tool frames | emit, forward, barrier, checkpoint, cleanup | checkpoint and terminal frame follow all events |
| Terminals (`tools-service/src/terminal.rs`) | per terminal the run, the prompt state, error, closed; a `Notify`; a reader thread and feeders | `execute_command`, keys, kill, the shell's marks | completion belongs to the command's own last line; lines are fed in order; nobody sleeps through an end |
| Cron (`cron/src`) | job list behind an `RwLock`, one JSON file, rate window, wake notification | start, add, update, remove, run, timer, job tasks | one run of a job at a time; due jobs run; file and list agree; jobs survive a crash |
| Webhooks (`webhooks/src`, the ingress of `httpd`) | delivery table with a unique key, bounded channel, worker | ingress, insert, enqueue, list, process, delete | a key is run once; what is stored is finished |
| Sub-agents, A2UI (`gateway/src/server/.../sub_agent_tools.rs`, `gateway/src/a2ui.rs`) | child sessions, surfaces | run, send, result, attach, cancel | a blocking parent is answered |
| Vault, hooks, MCP | seal state, breaker counters, server table | seal, dispatch, restart | a tripped breaker recovers |

How they meet: `chat.send` goes through the stop gate, the coordinator and, when
the session is busy, the queue. The run it starts keeps the permit, drains the
queue after it ended and may start the drained batch as a further turn under the
same permit. Every record goes through the store's append, which stages it as a
snapshot, writes it and binds the two; a run shows its stream live, ahead of the
journal. `chat.send_sync` goes through the stop gate alone. `chat.abort` talks
to the stop gate, the run's token and the queue. A truncation reserves the
session with the coordinator, calls `chat.abort`, and only then acquires the
permit. Sub-agents wait on the session gate. The body of a run (`run_with_tools`)
drives the agent loop and the futures of its tool calls in one task and journals
their events in another; a tool call may wait for the operator and may type into
a terminal, which outlives the run. Runs of `send` and `send_sync` on one session
meet in the maps that are keyed by session: permissions, drafts. Cron and
webhooks start turns through `send_sync` and share nothing with each other.

What is hard: every `.await` lets other calls in; the gate's facts are read under
its mutex and used after it; futures are dropped when their caller goes away; a
run may panic; queue, journal, jobs and deliveries survive a restart and nothing
else does; a shell is observed only through the marks its prompt prints.
`PROJECT.json` lists these places as hazards, each at its line.

## 2. Modules

    SessionCalls          constants: the calls, the faults, the bounds
     |-- SessionMutations    session_mutations.rs
     |-- PromptQueue         prompt_queue.rs
     |-- StopGate            stop_gate.rs, the state behind the mutex
     |-- SessionGate         session_gate.rs
           ChatTurns         composes the four: the tasks and their steps
             ChatTurnsLedger           ChatTurns implements PromptLedger
               MCChatTurns             symmetry, for TLC
                 MCBeside              sends with a stop or a send_sync beside them
             ChatTurnsTypes_proofs     types and the permit
               ChatTurnsStop_proofs    the counters and the stop
                 ChatTurnsRuns_proofs    the way of a prompt; waiters, active runs,
                                         sleeping stops, the tail; the refinement
    PromptLedger          abstract: what a session promises about its prompts

    RunCalls              constants of one agent run
     |-- ToolPermissions     tool_permission.rs: pending map and paused clock
     |-- RunEvents           agent_loop.rs, the forwarder of run_with_tools.rs
           AgentLoop         streaming.rs, tool_execution.rs, compaction, cleanup
             MCAgentLoop               symmetry
             AgentLoop_proofs          every safety property of the run

    SessionHistory        store.rs, journal.rs, ui_history_engine.rs and its readers
      MCHistory                        stories, for TLC
      SessionHistory_proofs            bindings, subscribers, finished runs

    Terminals             terminal.rs, with bash as its environment
      Terminals_proofs               wakeups, completion, idleness, the order of lines

    CronFile              store_file.rs
      CronService         service.rs, schedule.rs
        MCCron                         schedules, for TLC
        CronService_proofs             runs, sleep, schedules, the file
    Webhooks              ingress, delivery table, worker
      Webhooks_proofs                keys and runs
    MCServices            cron, webhooks or terminals, for TLC

`MCServices` is a sum: a behaviour is one of cron, webhooks or terminals, chosen in
the initial state. The three share no state, so this checks all of them in one
run and misses no interleaving of theirs.

### Turns of a session

It is about one session key; every map in the code that is keyed by the
session is one value here, and sessions share nothing but the process.

* **Tasks.** A call is a task with a program counter (`pc` for sends and
  send_syncs, `spc` for stops, `mpc` for mutations, `wpc` for waits). A step is
  what the task does up to the next point where another task can run: the
  release of a mutex or an await whose outcome others can change. Reads and
  failures that change nothing are merged with a neighbour.
* **Data.** A prompt is the call that brought it. A run is named by the last
  prompt of its batch, which is as unique as the UUID of the code (proved on the
  way, `BatchesDisjoint`). A journal record is a user prompt or the output of a
  run; what a run writes is one record. A stored error is `"err"`.
* **Guards.** A call has at most one guard in `GateState.guards`, so the maps by
  guard id are functions of the call. `active_runs` changes only together with
  `GateState.runs`; both are `runs`.
* **Wakeups.** `woken[s]` says that `notify_waiters` was called since stop `s`
  created its `Notified` future, `bumped[w]` that the version moved since waiter
  `w` last looked: what tokio guarantees, no more.
* **Failures** are in the constant `Faults`: `"store"` (SQLite, settings or a
  broadcast fails), `"hook"` (the `MessageReceived` hook blocks), `"panic"` (the
  run task dies), `"dropped"` (the caller drops the future of a stop, a send or a
  send_sync at an await; a tool call of another session that is cancelled does that
  to the `chat.send` it awaits). A send can be dropped until its run is published:
  what follows is the task of the run. `Crash` restarts the process, at most `MaxCrashes` times.
* **User operations** of one step are in `UserOps`: removing a queued prompt,
  `chat.clear`, `stop_run`.

Left out: what a prompt contains, personas, models, settings, media, session
metadata, broadcasts, the outcome values that calls return, and the wait at the
end of `stop_run`. A refused enqueue abandons its guard twice in the code; the
second time only wakes the stops again and is not a step.

**The ledger.** `PromptLedger` says what a session promises without gates,
permits, guards or tasks: a prompt is taken at once or waits, what waits is taken
together and in order when no turn is under way, it is stored whole or lost
whole, and what a turn says is stored while it executes alone. `ChatTurnsLedger`
maps `waiting` to the queue, `hand` to the batch of the send that has not stored it
yet, `log` to the whole journal and `executing` to the batch of a send between its
append and the end of its run. A send_sync takes no permit, so the ledger knows
it only as one of `Others` whose prompt and answer are overheard; `chat.clear`
forgets the log at any time, a truncation cuts it when no turn of a send is under
way. The refinement is proved for all of these; TLC checks it in `queue`, with
sends and mutations.

### One agent run

`pc` is the place of the streaming loop, `at[c]` that of the future of tool call
`c`. Loop, watchdog and futures are polled by one task; the event forwarder is
another. A step is what one of them does between two awaits: in particular an
emitted update is a step, and its receipt lets the emitter go on. A queued event
is a lifecycle update or an opaque plain event. The two counters of the barrier
occur as their difference, `backlog`. The oneshot of a permission wait is the
function `reply`. Time is a counter of ticks; `worked` counts, as history, the
ticks without an open wait. `rival` is another run of the session (`chat.send_sync`
takes no permit): it puts its draft in the session's entry, may drop the
session's permission waits at any time, and removes both at its end. Its event
forwarder is in a map of its own. `Faults`: `"store"` (journal, metadata, result
store), `"provider"` (a malformed item), `"hook"` (a hook blocks), `"rival"`.
Ordinary provider errors and retries are always possible.

Left out: steering messages, loop interventions, what is said, the runner
without streaming and the outer timeout of stream-only runs. The copy into the UI
history is a module of its own; here a failure of it cancels the run, as `Cancel` does.

### The stored history of a session

A message is an identity with a kind: a user's message, a tool call, a segment of
an answer, an error. Its text is a version number: each stream update, each
lifecycle stage, the close of a segment and its final assistant record is one
more. `records` is the canonical journal, a sequence of (message, version); `rows`
are the stored snapshots and `row` the session's row with generation, revision and
next position; `ui` and `entries` are the same in memory, as far as memory runs ahead.
A snapshot has its version, position and revision, whether it is confirmed, and
its binding: first and last record, and the record that holds it whole. What a
reader is shown is memory over the rows (`Shown`).

The journal mutex is `job`, the operation that holds it and its place: an append is
staged, written, bound and perhaps flushed; an update is rewritten and replaced; a
truncation or clear flushes, cuts the journal, and erases rows and memory. The
flush mutex is `flushing`: it takes what changed, writes it in one transaction if
the row is still as expected, and settles, where memory lets go of what is stored
and idle. The timer, a run and the holder of the journal mutex call it. A run begins,
copies its stream into memory at once, journals it behind, and ends in three
steps: flush, check, unregister. A subscription reads rows without the lock and
merges memory over them under it, or starts over when something was stored in
between; its `shown` is the window of the browser, whose reducer (`Merged`) keeps the
newer revision. `Reload` is the drop of the last holder, and with `"crash"` a restart
at any point; `"dropped"` drops the future that holds the journal mutex or a run's
task. `torn` records, as history, that a cut journal was left with its old snapshots:
`truncate_from_user_message` returns early when the pruning of media fails
(`store.rs:376-380`), and then nothing marks the session failed.

Left out: several records in one append, presentation and tool owners (they change
a snapshot, not its version), errors outside a run, a flush in the middle of a run,
page limits and ranges (a window is the whole history), search and `read_run`, fork
and import.

### Terminals

A command is a number of lines; the first is typed by the call, the others by a
feeder task, one per continuation prompt. The reader thread turns the shell's
marks into the state of `TerminalOutput`: started, finished with a status, primary or
continuation prompt, first shown or redrawn. The shell is the environment: it
reads a typed line, starts or continues a command, lets a command read the line
as its input, finishes, or dies. The user types a line, interrupts or redraws at
most `MaxKeys` times. `disturbed` records that the user interfered while a command
was under way: the marks do not tell whose input they answer, and several
properties except it.

### Cron and webhooks

A job is its identity, schedule, enabled flag and the two times the code decides
on. Every public call and every job task is a task with a program counter; a
step ends where a lock is released or the store is awaited. A save of the file is
read, write of the temporary file, rename of the old file to the backup, rename of
the temporary file over the target; operations of several tasks overlap as
nothing in the code excludes them. `Crash` restarts the process with the file that
is left. A schedule is one-shot or periodic with an anchor.

A webhook delivery is a request; the answers before its insertion (not found,
unauthorised, filtered, too many) are one refusal. The row, the bounded channel,
the worker's start-up list and its statuses are kept; deleting the webhook
deletes its rows. A request lasts as long as its client: with `"dropped"` the server
drops the handler at any of its awaits, also when the row is stored and its
identifier not yet in the channel (`RequestDropped`). `interrupted`, `raced` and
`lost` are history and say what excuses a repetition or a delivery that stays
unfinished; a crash empties `lost`, since the next start lists every unfinished row.

## 3. Runs

Each passing run fixes the calls that exist, each made at most once at any time.
`p` are sends, `y` send_syncs, `s` stops, `m` mutations, `w` waiters.

| Run | Instance | Shows |
|---|---|---|
| `stop` | p1 p2 with s1 (stop_run, store, panic, dropped), or p1 p2 with y1 (hook, panic, dropped) | `TypeOK`, `CountersExact`, `StopQuiesces`, `StopNeverOversleeps`, `NoGhostActive`, also when a caller goes away or a run dies; `TurnSeesItsHistory` with a turn that takes no permit and a caller that goes away |
| `queue` | p1 p2 p3, m1, store, dropped, remove, one crash | `AtMostOnce`, `FifoOrder`, and the refinement `ImplementsLedger` |
| `mutation` | p1, s1, m1 a truncation, store, clear | `PermitExclusion`, `TruncationReturns`, `StopReturns` |
| `gates` | p1, y1, w1, store, clear | `WaiterNotStranded`, `CallsReturn` |
| `agent` | two parallel tool calls, one provider item, one auto-continue, timeout after 1 of 2 ticks | lifecycles: `LifecyclesClose`, `TerminalIsLast`, `DeclinedNeverRuns`; permissions: `TimeoutCountsWork`, `NoOrphanSlot` |
| `runlife` | one tool call, one retry, one compaction, all faults, a rival | `FramesFollowEvents`, `CancelledWhenAsked`, `CancelledRunEnds`, `RunEnds` |
| `services` | cron: one job, two calls, two job tasks, two schedules, one tick, one crash, store failures | `OneRunAtATime`, `NeverOversleeps`, `RecurringIsScheduled`, `FileFollowsList`, `DueIsRun` |
| | webhooks: two requests with one key or none, channel of one, one restart, store failures, dropped requests | `OneDeliveryPerKey`, `RunOnce`, `StoredIsFinished` |
| | terminals: two commands (two lines, one line) on one terminal, one key | `CompletedHasRun`, `LinesInOrder`, `IdleIsIdle`, `NoLostWakeup`, `RunNotStranded` |
| `history` | one run, one subscriber; up to three messages of the four kinds, three records, one cut, one update, one failure | `RecordsAreOwned`, `SubscriberIsCurrent`, `FinishedRunIsStored` |

Runs whose property the code violates, each the words of a document:

| Run | What happens |
|---|---|
| `stranded` | The holder of the permit has drained for the last time and not yet dropped the permit; a send finds it taken, enqueues, and nobody drains. The same happens behind a mutation. (`commands.md:104`) |
| `hang` | With two runs at once `active_runs_by_session` names only the later one; a stop cancels that one and waits for the guard of the other, which nothing cancels. (`commands.md:41`) |
| `ghost` | A `chat.send` or `send_sync` is dropped at the await (`send.rs:922`, `chat_impl.rs:378`) after `activate_session_turn` and before `RunFinishGuard::arm`: the entry stays, and a waiter sleeps for ever although nothing executes. (`interfaces.rs:421`) |
| `cronfile` | A save renames the jobs file to its backup, then the temporary file over the target; a crash in between leaves no jobs file and the next start sees no jobs. (`store_file.rs:44` "Atomic write") |

`send_sync` takes no session permit, which is behind `hang` and more: its run
executes beside a send's although `prompt-queue.md:3` says "A session executes one
agent turn at a time", so the ledger promises that of sends only; and it
can start between the stop of a truncation and its cut, although `session-message-deletion.md:23` says the coordinator "blocks new chat
turns while the truncation is reserved", so `TurnSeesItsHistory` is checked
without truncations beside send_syncs.

**Bounds.** Two sends are a holder and a competitor; the third of `queue` is
needed for a drained batch of two, and for order within it. One stop meets every
place of a send; in `mutation` the stop of the truncation overlaps another. That
`CountersExact` and `StopQuiesces` hold for overlapping stops, and the second for
send_syncs, is proved, not run. One crash separates two lifetimes, and a crash in the second reaches no new
durable state. One send_sync beside one send is already two turns at once.
What panicking runs do to the order of prompts and to the ledger is proved, not run
(`queue` has dropped sends, `stop` has both). Faults are unbounded in number, but each ends
its call. The proofs below have no
such bounds.

`stop` is told in two kinds of behaviour (`MCBeside`), a stop or a send_sync beside
two sends: all three together are beyond its time, and what they do to one
another is proved (`StopQuiesces`) or is `hang`. In the first kind the send_sync was refused
before, in the second the stop was for another run; both are states the session can
be in. Beside the send_sync (`FewFailures`) no store of the sends fails, which would
only end a send early, and a run of it dies between two sends.

A behaviour of `history` is a *story* (`MCHistory`): the one to three messages it is about,
at most three records, and what happens beside the run: updates, cuts, a
subscriber, or failures, of which it has at most one. The reasons are that
messages meet only in the positions, the cut and the counters, for which two are
enough, and that a second failure finds the session failed or reloaded. Two
generations are one cut; updates of a record are alike. The full product of these
was too large to finish; the proofs have none of the limits.

`gates` has no mutation: that mutations return is `TruncationReturns` of `mutation`,
and `CallsReturn` is about sends, send_syncs and waiters there. `agent` has no faults,
no rival and no retry, so what they do to the lives of tool calls rests on the theorem
`LifecyclesAreClosed`.

Two parallel tool calls are what overlapping waits, a batch that fails in part
and a decision that meets a cancellation need; `runlife` has one, so that faults,
retries, a compaction and the rival fit beside it, and its properties are about
the run and its events, not about two calls. Two commands are the one that runs
and the one that comes too early; two lines need the feeder once. One key meets
every state of the shell; with two the same properties hold (checked apart, too
long for the suite). One job is run by the timer, by hand and changed beside its
run at once; two calls and two tasks overlap in the file. The calls are alike and the
same one is always first. Two requests race for a key, for the only place in the
channel, and with the worker's start-up list; they are alike too, and
`StoredIsFinished` is checked of one of them.

**Exceptions** in these properties are behaviours the code has. A malformed provider
item or a lost update leaves announced calls open (`broken`). A run at the barrier
behind a failed forwarder waits until it is cancelled (`StuckAtBarrier`). A cancelled or
ended rival ends this run's waits. `run` by hand and a stuck mark may start a job twice
(`twice`); an update beside a run is overwritten by the run's stale copy (`stale`), a
refused or unsaved one stays in memory only (`dirty`), overlapping saves lose
one another (`clean`).

`StopNeverOversleeps` speaks of runs of sends: where send_syncs run beside them
its second part fails in the way `hang` shows. `NoGhostActive` speaks of runs that
were published: a call dropped after its activation and before that (`Orphaned`) leaves an
entry nobody owns, which `ghost` shows. `StoredIsFinished` excepts deliveries that
the running process gave up: the table failed, or the request was dropped with the row
stored. The latter stays `queued` beside an idle worker ("Waiting for worker",
`webhooks.md:355`) and a retry is answered as a duplicate of it. What one process gave up the next must finish. `RecordsAreOwned` excepts sessions that are
`torn` and the moments between the two halves of a cut. A restart between the
write of a record and its flush loses the snapshot of a journaled message, or the
update of one: the history then shows less than the journal has, never something
else, and no property demands more. `chat.clear` is in the runs with
liveness because it is always possible: a call that is stuck is then reported as
the violated property.

**Fairness.** `Fairness` is weak fairness of every step of a call that has begun:
tokio polls a woken task, mutexes and locks are held for a bounded time, SQLite
commands return. Making a call, a fault, a crash and a user's operation are never
fair. A run is only assumed to end once its token is cancelled
(`CancelledRunEnds`: the streaming loop and the tool loop select on the token);
`EndingSpec` adds that runs end by themselves, and only `gates`, `stranded` and
`ghost` use it. A call that may be dropped at any time is not thereby assumed to be
polled for ever: the drop is one more step, which may come at any await and never
has to. `RunEnds` of `ChatTurns` may take any terminal, also after a
cancellation.

`AgentLoop` is weakly fair to the run's task, to each tool future and to the
forwarder: tokio polls what is woken. `CancelledRunEnds` needs no more. `RunEnds`
takes as its premise (`Answers`) that the provider, the tools, the operator and the
checkpoint answer. Cron is fair to the timer loop and its tasks, webhooks to the
requests whose client stays, the worker and the start after a crash; neither to
clients, their disconnections, time, failures or crashes. The terminals have no fairness: a shell may hang for ever,
and `NoLostWakeup` and `RunNotStranded` say as invariants that no wakeup is
missed and that a quiet terminal has nothing left to do. The stored history has
none either: its properties are about what is there at any moment.

## 4. Proofs

The constants are arbitrary, but for the named assumptions: the sets of calls are
finite and disjoint (`ChatTurnsAssumption`), the limits of a run are numbers
(`RunAssumption`); those of the other parts are named with them. The theorems state `Spec => []Inv` for every invariant of the runs above,
`Spec => TerminalIsLast` and `Spec => ImplementsLedger`; the types of the services
and of the history are theorems only.

* **Types.** Each step of `ChatTurns` is shown to be a step of the component
  modules' own next-state relations (`GateSteps`, `MutationSteps`, `QueueSteps`,
  `SessionGateSteps`); the types of a component follow from the component.
* **Permit.** `PermitExclusion` is inductive with `TypeOK`: it relates who holds
  the semaphore to the places where the code believes it does.
* **Counters.** `HoldersCounted` and `StopsCounted` are inductive; a step adds or
  removes one member of a finite set, or leaves it alone.
* **Stop.** `StopQuiesces` is not inductive. That the gate is idle says something
  about turns only if each place of a call has its guard or its holder
  (`GuardOfPlace`, `HoldersCounted`), and about runs only if each run still has
  the guard it was published with (`RunsGuarded`). `finish_run` removes every
  guard with its run id, so these need that two calls never run under one name,
  which follows from where prompts can be (`BatchesDisjoint`). `IdleStays` then
  shows that under a positive depth an idle gate stays idle until the depth is
  taken back, and `QueueStaysEmpty` that nothing fills the queue meanwhile.

* **Queue** (`PromptsAtMostOnce`, `QueueIsFifo`). Only five kinds of step move a prompt
  (`PromptSteps`); `OnceInv` places every prompt with its call, in the queue, in one
  batch or in the journal, and `InOrder`, for two prompts that waited together, is
  preserved by each of the five.
* **Ledger** (`SessionImplementsLedger`). Permit and places make "the send in its turn"
  unique (`OneInTurn`), so the CHOOSE of the mapping is determined; then one lemma
  per kind of step names the ledger's step or the stutter.
* **Runs.** `WaitersNotStranded` rests on `WaitInv`, what a waiter may rely on between
  its two reads. `ActiveRunsAreOwned` holds for all calls and faults. The
  entry belongs to a call that is bound to take it out, or to one that was dropped
  before its run was published (`EntryOwned`). That no run has the name of a turn that
  is not published yet follows from where prompts can be (`RunsAreNew`); so the entry a
  dropped call leaves is that of a run that never was, and stays so (`LostStays`). `StopsNeverOversleep`, without
  send_syncs (where `hang` is), rests on `Named` and `Chased`: the run that executes is the
  one `active_runs_by_session` names, and a stop that has captured it is about to
  cancel it. `TurnsAnswerTheJournal` relates the length a turn was built from to the
  journal; it assumes no `chat.clear`, and no truncation beside a send_sync, because
  the code compares lengths only.
* **Agent run.** `RunTypes` joins the types to where each call may be while the loop is
  in a place. `ClockInv` says that the clock is paused exactly while waits are open and
  that the pauses of overlapping waits are counted once; with it `TimeoutsCountWork`.
  `FrameInv`, `CancelInv` and `BatchFresh`/`StageInv` (a batch holds calls of this
  attempt only, and a stage never leaves a terminal) give `FramesComeLast`,
  `CancelledRunsWereAsked` and `TerminalUpdatesAreLast`. `RefusedCallsNeverRun` relates each
  acknowledged decision to its wait, its reply and the place of its call
  (`VerdictInv`); `LifecyclesAreClosed` follows every announced call through loop,
  batch, queue and journal (`CloseInv`).
* **Webhooks** (`KeyDeliveredOnce`, `DeliveryRunOnce`, from `WebhookAssumption`:
  finitely many requests, a channel of at least one). `KeyInv` says that rows with
  one key are one row and that a delivery that was run has a row while the
  webhook exists, so the unique index decides about runs too. `RunOnce` needs to
  know how often a delivery can still be taken up: `Budget` adds to its runs one for
  each of the worker's start-up list, the request or channel that still brings it, and
  the worker that has taken it. `Recovers` bounds the runs of an unfinished row,
  because a crash empties all these places and the next start lists the row again;
  `ComingIsNew` is why the list and the channel can both bring it only once.
* **Terminals** (from `TerminalAssumption`: a command has at least one line, and the
  names "user" and "none" are nobody's). `TerminalInv` has six parts.
  `WakeInv` follows every change of an output to the notification that comes with it
  and gives `WakeupsAreNotLost`. `PlainInv` holds whoever types: the flags of an output
  agree (`Shape`), and an active run is its call's, which still has a feeder if lines
  are left (`Owned`). `ToldInv` speaks of the shells that are not `disturbed`:
  `InStep` says that at most one line is under way, be it typed, read or answered by
  markers that are not processed yet (`WellMarked` orders these, redrawn prompts
  apart), so that a prompt which counts is the answer to the last line; `Answered` and
  `Ended` carry the status of that line from the shell through the markers to the
  run. They give `CompletedRunsRan`, `IdleTerminalsAreIdle` and, with `Owned` and the
  wakeups, `RunsAreNotStranded`. `TypedInv` and `StreamInv` speak of the lines read
  and those still in the pty as one sequence: a read moves the border between
  the two, a typed line extends it (`StreamsWrites`), and whatever is lost leaves the rest in
  order (`Within`). A command is typed only when the one before was completed, hence
  read to its last line: `LinesAreInOrder`.

* **Cron** (from `CronAssumption`: finitely many jobs and slots for runs, numbers for
  the times, and a `Never` later than all of them, as `None` is). Every step is first
  described by what it does to its task, to the list and to the store (the lemmas
  `ShapeOf...`); the eleven parts of `CronInv` are proved against these descriptions.
  `AddInv` says that a job being added is known to nobody else, so the types know at
  most one job of an identifier (`CronTypes`). `RunInv` relates runs and claimed jobs to
  the mark in the list, but for the jobs in `twice`, and says that claimed jobs have
  slots; it gives `RunsAreSingle`. `SchedInv` says more than
  `RecurringStaysScheduled`: the next run is not later than the schedule asks now,
  and the copies held by runs have the list's schedule, so that a run which puts off
  its job puts it off by the right schedule. As time passes this stays true because
  next runs only grow (`NextRunGrows`); and `NextRunIsTheFirst` states, apart from the
  behaviour, that `compute_next_run` finds the first time to come. `SleepInv` gives
  `LoopNeverOversleeps`: a job that is due before the loop wakes is being
  updated right now, and its end will notify the loop. `FileKeepsUp` holds of
  quiet states only; `FollowInv` extends it to all others by comparing the list with what
  the file will be once the operation in flight has ended (`Target`), and by naming what
  is still to come (`Pending`). It needs to know what an operation in flight will write
  (`CleanInv`), that one which ended well left its job as asked until the task takes
  the result, and that nothing brings a removed job back (`EndInv`): a save puts back
  only what it read, and no two updates hold the lock (`LockInv`).

* **Stored history** (from `HistoryAssumption`: a user's message and an error have
  one version, a segment more than one). A property about what is shown has to
  survive a flush that is under way, so each part of `HistoryInv` says something
  about rows, memory and the flush's snapshot together. `StoreInv` orders the
  generations, revisions and positions (`Generations`, `Counted`), says that what
  memory has let go of is stored as it was (`InStep`), and that a snapshot in memory is
  the one being flushed or newer (`FlushSound`). `DataInv` relates snapshots, the
  operation on the journal and the runs to what was copied and appended: above all, that
  nothing is confirmed beyond what the journal got. With them `BoundInv` gives
  `SnapshotsAreOwned`: as long as a cut waits for its rows, it speaks of the records
  that stay. `ViewInv` says what a reader holds between its read and its merge, which is
  what was stored at its mark; with `InStep` this gives `SubscribersAreCurrent`.
  `StoredInv` follows a run through its last flush to the check, and what it left from
  memory through the flush to the rows: `FinishedRunsAreStored`. The steps are sorted by
  what they touch (`HistoryKinds`): quiet ones, writers of a snapshot, the steps of a
  flush, the begin and check of runs, cuts and reload, readers; each part of the
  invariant has one lemma per kind.

Only model-checked: liveness (under fairness, out of the prover's reach).
`SavedJobsSurvive`, `QueuedIsSubmitted`, `OverlappingStopReturns` and `WaitReturns` are
what documents say and the code violates.

## 5. Not modelled, and the plan

1. **The rest of the journal**: checkpoints, several records in one append, fork and
   import, metadata; the history a turn sees when `chat.clear` meets a send_sync; the
   joint model of `SessionHistory` with `ChatTurns`, in which a send's stored prompts are
   the records of the one and the tail of the other.
2. **SubAgents**: blocking and background children over the session gate.
3. **Hooks** (circuit breaker), **McpManager** (restart and back-off), **Vault** (seal and
   rotation), the A2UI broker, the SQLite store of cron: one module each.
4. Several terminals of a session and their resolution; bindings and web clients
   of a terminal.

Providers, protocol types, search and voice adapters, channels, the web UI,
authentication and the configuration schema are conversions, I/O or remote state;
they are a large part of the lines and have no control worth a model. The map
therefore covers a small share of the whole repository.

## 6. Running

    tlc -config stop.cfg MCBeside
    tlc -config history.cfg MCHistory
    tlc -config agent.cfg MCAgentLoop
    tlc -config runlife.cfg MCAgentLoop
    tlc -config services.cfg MCServices
    tlapm ChatTurnsStop_proofs.tla
    tlapm ChatTurnsRuns_proofs.tla
    tlapm SessionHistory_proofs.tla
    tlapm AgentLoop_proofs.tla
    tlapm Terminals_proofs.tla
    tlapm CronService_proofs.tla
    tlapm Webhooks_proofs.tla

`*Keeps`, `*Twice`, `*Silently` and the other operators marked "Mutant" are wrong
versions of the operator below them. They are not used by any specification; each
one, put in place of the right one, makes TLC report the property that
`PROJECT.json` pairs with it.
