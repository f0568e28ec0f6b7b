# A verification project for Codex

This directory holds TLA+ models of the concurrent core of Codex (`codex-rs`),
the TLC configurations that check them on small instances, and TLAPS proofs of
their central safety properties for every instance. `PROJECT.json` is the index:
which definition stands for which lines of the source, which run checks which
property, and which hazards of the code the properties are about.

All paths below are relative to `codex-rs/` unless they start with `src/`.

## 1. The system

Codex is a coding agent. A *thread* is a conversation with a model; its live
half is a `Session` in `core`. A front end (terminal, `exec`, the JSON-RPC app
server) submits operations to a session, the session runs *turns* (a model
request, the tool calls it asks for, the next request, ...) and sends events
back. A session may spawn other agents, each a thread of its own, that work in
parallel and mail each other.

| component | state | operations | interacts with |
|---|---|---|---|
| Turn lifecycle (`core/src/tasks`, `core/src/state/turn.rs`) | `Session::active_turn`, an `Option<ActiveTurn>` behind a mutex: a running task, and a shared `TurnState` | `spawn_task`, `start_task`, `abort_all_tasks`, `abort_turn_if_active`, `on_task_finished`, `maybe_start_turn_for_pending_work` | called by the submission loop, by finishing tasks, by the guardian, by API threads |
| Input queue (`core/src/session/input_queue.rs`, `inject.rs`) | pending input of each `TurnState`, its mailbox delivery phase, the session's mailbox | steer, inject, extend, drain, defer and accept mailbox delivery | read by `run_turn`, `start_task` and `on_task_finished` |
| Submission loop (`core/src/session/handlers.rs`) | none of its own; one operation at a time | one handler per `Op` | all of the above |
| Model turn (`core/src/session/turn.rs`, `tasks/regular.rs`) | the loop variables of `run_turn` | record input, run hooks, sample, follow up | input queue, model client, tool runtime |
| Goal continuation (`core/src/goals.rs`) | the goal in the state database, a semaphore, a reserved `ActiveTurn` | start a turn for an active goal when the session is idle | turn lifecycle |
| Guardian (`core/src/guardian`) | denial counters per turn | review an approval, interrupt the turn after too many denials | aborts turns from a background task |
| Agent registry and control (`core/src/agent`) | slot counter (atomic), agent tree (mutex), reservations | spawn, resume, send, close, release | thread manager; shared by all sessions of a tree |
| Thread manager (`core/src/thread_manager.rs`) | map of live threads | start, resume, remove | agent control, app server |
| Pending approvals (`core/src/session/mod.rs`) | one-shot senders by id in the `TurnState`, granted permissions | request, answer, grant, clear | tools wait, clients answer |
| Tool runtime (`core/src/tools`) | in-flight futures, a read/write lock, a terminal-outcome flag per call | run, cancel, report | model turn |
| Unified exec (`core/src/unified_exec`) | process store, reserved ids, head/tail output buffers | exec, write_stdin, prune, terminate | tools, shutdown |
| Rollout recorder (`rollout/src/recorder.rs`) | command channel, pending items, open file | record, persist, flush, shutdown | every session |
| Context manager and compaction (`core/src/context_manager`, `compact.rs`) | the model-visible history, the context baseline | record, normalise, roll back, replace | model turn |
| Resume and rollback (`core/src/session/rollout_reconstruction.rs`) | none; a function of the rollout | rebuild history, baseline and settings | rollout recorder, context manager |
| State database (`state`) | SQLite tables, job leases | goals, thread metadata, memory jobs | goals, memories, thread store |
| Memories (`memories/write`) | the memory workspace, a directory with a git baseline | extract, select, consolidate, forget, reset | state database; an agent it spawns |

The remaining parts (wire adapters, MCP, configuration, sandboxing, exec policy,
patches, login, app server, user interfaces, SDKs, ...) are listed in
`PROJECT.json` with the reason why they are left out: they are protocol
translation, parsing or I/O with little concurrent state of their own.

### What is hard about it

* **One `active_turn`, many writers.** Four kinds of processes start turns, three
  end them, and almost every handler takes the lock several times with awaits in
  between. What it read the first time may be gone the second time.
* **Ownership of input.** A prompt, a mail or an injected item must be in exactly
  one place at any time: a queue, a task's locals, the history, or an error the
  client was told of. Queues are dropped together with turns.
* **Aborts race completion.** An interrupt cancels, waits up to 100 ms, kills,
  and reports; meanwhile the task may be finishing.
* **Reservations across awaits.** Spawning an agent holds a slot and a path while
  a whole session is built; every early return and every cancellation must give
  them back exactly once.
* **Two copies of the history.** The session changes the history in memory and
  appends to the rollout; a resume and a rollback rebuild one from the other with
  code written apart from the code that made it.
* **Answers that come late.** A user answers a question when the call, or the turn,
  that asked may be gone, replaced or killed.
* **Things outside the process.** Operating-system processes, a file that tears, a
  database and a directory shared with other Codex processes that may crash.
* **Things that must eventually happen.** A started turn ends with one event;
  mail that asks for a turn gets one.

Section 7 of this file and `hazards` in `PROJECT.json` list these at their lines.

## 2. The modules

```
TurnLifecycle ------- MCTurnLifecycle        (4 configurations)
        \------------ TurnLifecycle_proofs
AgentControl -------- MCAgentControl         (1 configuration)
        \------------ AgentControl_proofs
RolloutWriter ------- MCRolloutWriter        (1 configuration)
   |    \------------ RolloutWriter_proofs
   \-- implements -- RolloutLog
ThreadHistory ------- MCThreadHistory        (2 configurations)
        \------------ ThreadHistory_proofs --- ThreadRollback_proofs
ToolCalls ----------- MCToolCalls            (1 configuration)
        \------------ ToolCalls_proofs
ProcessStore -------- MCProcessStore         (1 configuration)
        \------------ ProcessStore_proofs
MemoryConsolidation - MCMemoryConsolidation  (2 configurations)
        \------------ MemoryConsolidation_proofs
```

Each module stands for one part of the system; where parts meet, one of them
sees the other through what it does to it. `TurnLifecycle` decides when a turn
runs and ends, `ToolCalls` what happens inside it when it does, `ThreadHistory`
what the turn leaves in history and rollout, `RolloutWriter` how the rollout gets
to the file.

### `TurnLifecycle`: turns and input of one session

*Processes.* The submission loop (`Loop`), the tokio task of each turn (a turn's
task has the number of its turn), the guardian's background abort (`Guardian`)
and an API thread that asks for a goal continuation (`Api`). `pc[p]` is the
await at which `p` stands, `loc[p]` the locals it carries across it. Every
action is one critical section of `active_turn`, of a `TurnState` or of the
mailbox, with the assignments around it; everything between two actions is a
point where another task can run.

| state | code |
|---|---|
| `active = [some, task, slot]` | `Session::active_turn`; `slot` is the identity of the `Arc<Mutex<TurnState>>`, so `Arc::ptr_eq` is equality of slots |
| `turnState[s]` | `TurnState`: `pending_input.items` and `mailbox_delivery_phase` |
| `mailbox` | `InputQueue::mailbox_pending_mails` |
| `cancelled`, `kind`, `input` | `RunningTask::cancellation_token`, `TaskKind`, the `input` argument of the task |
| `contLock` | `goal_runtime.continuation_lock` |
| `started`, `completed`, `aborted` | the `TurnStarted`, `TurnComplete`, `TurnAborted` events sent |
| `recorded`, `refused`, `discarded` | what became of an item: in the history, reported as not taken, dropped by `clear_pending` |
| `sent`, `home`, `used` | history variables: items handed in, the `TurnState` a turn was installed with, the bounds consumed |

*Actions*, in the order of the source:

* `Collect`, `Attach`, `Install`: the three lock sections of `start_task`.
  `Install` over a registered task drops its `AbortOnDropHandle`, as the release
  build does (the `debug_assert!` is the property `InstallsIntoFreeTurn`).
* `CheckMail`, `Reserve`, `ReserveTooLate`: `maybe_start_turn_for_pending_work`.
* `AbortAll`, `AbortAllNoTask`, `AbortKill`, `AbortReport`, `GuardianAbort`,
  `GuardianTooLate`: `abort_all_tasks`, `handle_task_abort`,
  `abort_turn_if_active`. Waiting for `done` and the timeout are one action
  (`AbortKill`): it may fire before or after the task has ended.
* `UserInputSteered`, `UserInputSpawn`, `UserInputRefused`, `OtherTask`, `Mail`,
  `Interrupt`, `Shutdown`: the handlers of the submission loop. `ClientSteer`
  and `Inject` come from other threads.
* `Begin`, `Work`, `Record`, `RunTurnStopped`, `Drain`, `RecordPending`,
  `Sample...`, `Check...`, `Recheck`, `Flush`: `RegularTask::run`, `run_turn`,
  the other tasks, and the wrapper `start_task` spawns.
* `FinTake` ... `FinNotCleared`, `IdleEmit`: `on_task_finished`.
* `GoalCheck` ... `GoalConfirm`: `maybe_start_goal_continuation_turn`.

*Abstractions.* Items are atomic values and queues are sets: the properties ask
where an item is and how often, not in which order it came. A model request is
one step with four outcomes (answer, answer after a tool call, tool call,
error). `get_pending_input` reads the phase and drains the mailbox in one step,
and `start_task` clones the `TurnState` and extends it in one step. A prompt is
blocked by a hook, or submitted with invalid settings, according to a constant
set. The goal store answers nondeterministically. Token accounting, metrics,
extension callbacks and git enrichment change none of this state and are left
out. The history marker an interrupt records is not an item of anyone's.
`AbortKill` has the task dead as soon as `handle.abort()` is called; tokio drops
it at its next await and nobody joins it, so that a task may still do the
synchronous work before that await.

### `AgentControl`: the multi-agent control plane

*Processes.* `call[c]` is one tool call (spawn, resume, close, send) of some
session of the tree; all share one `AgentControl`.

| state | code |
|---|---|
| `total_count` | `AgentRegistry::total_count` |
| `agent_tree` | `ActiveAgents::agent_tree`; a key is a path or `thread:<id>`; `Reserved` is an entry without `agent_id` |
| `threads` | `ThreadManagerState::threads` and `CodexThread::is_running` |
| `parent`, `used` | `SubAgentSource::ThreadSpawn`, ids handed out |
| `resumed` | history variable: threads a resume was begun for |

*Actions.* `BeginSpawn` and `BeginResume` take a slot (`try_increment_spawned`;
at the limit the call fails and nothing changes). `PrepareThreadSpawn` and
`PathOccupied` reserve the path. `StartThread`, `LookupResumed`,
`FinalizeResumed`, `ResumeEffects` are the awaits of
`spawn_thread_with_source`. `Commit`, `AbandonReservation`, `DropPath`,
`DropCount` are the ends of a `SpawnReservation` (the two halves of `drop` are
separate steps: one is under the lock, the other an atomic). `BeginClose`,
`ShutdownAgent`, `ShutdownFlushFails`, `RemoveThread`, `ReleaseEntry`,
`ReleaseCount` are `close_agent`, `shutdown_agent_tree`, `shutdown_live_agent`
and `release_spawned_thread`; `SendToDead` and `FinishSpawn` enter the same code
from a failed send. `CancelCall` and `AbandonReservation` are the turn's
cancellation at an await, `ThreadDies` a session that ends by itself.

*Abstractions.* A spawned thread's id, path and parent are kept; roles, models,
forked history, nicknames, spawn edges in the database and the completion
watcher are not. A session without a limit (`agent_max_threads = None`) counts
all the same; it is one whose `MaxThreads` is never reached.

### `RolloutWriter`: the file a thread is resumed from

*Processes.* Clients that hold clones of one `RolloutRecorder`, and the writer
task that owns the file. `job` is the command the task works on and where in
`write_pending_once` it stands.

| state | code |
|---|---|
| `lines`, `glued`, `torn` | the file: its complete lines, which of them follow a fragment on the same line, whether it ends in one |
| `writer`, `metaLeft`, `pending` | `RolloutWriterState`: `writer` with `deferred_log_file_info`, `meta`, `pending_items` |
| `channel`, `waiting` | the bounded `mpsc` channel; clients that wait for a one-shot answer |
| `accepted`, `durable` | history variables: items whose send returned `Ok`, and how many of them an `Ok` acknowledged |

*Actions.* `Record` and `Barrier` (persist, flush, shutdown) send a command.
`Receive` takes one and either answers it at once (a deferred recorder) or
begins to write: `Open`, `OpenFails`, `WriteMeta`, `WriteItem`, `WriteFails`,
`Finish`. A failure closes the file and tries once more (`Fail`), the second one
answers with the error. `Resume` is the end of the process at any point and a
new recorder on the file it left.

*Abstractions.* An item is one line. A send that waits for room is a send that
happens later, and a client does not give up waiting for an answer. Each line is
flushed as it is written, so the flush that ends `write_pending_once` has nothing
left that could fail. A fragment and the line behind it do not parse together.

*Abstract specification.* `RolloutLog` is what callers may rely on: an append-only
log. Items are handed over (`Record`) and get their lines one by one in that order
(`Write`) behind a head line (`WriteHead`). A write that fails half way leaves a
fragment (`WriteFails`); the next line is appended to it, so that it is written but
no reader finds it. An acknowledgement vouches for a prefix of what is written
(`Acknowledge`), and the end of a process forgets what was not (`Restart`). The
refinement mapping takes `accepted` for what was handed over, the number of lines
behind the `SessionMeta` for what is written, and `Logged`, the lines
`load_rollout_items` can parse, by their position, for what a reader finds. Retries,
reopening, the channel and the buffer are stuttering steps. `ImplementsLog` is that
statement.

### `ThreadHistory`: the history and what a resume makes of it

*Processes.* One session, its crash and its resume; the steps of a turn come one
after the other, and a rollback is accepted only between turns.

| state | code |
|---|---|
| `items`, `baseline` | `ContextManager::items`, `reference_context_item` |
| `previous` | `SessionState::previous_turn_settings` |
| `rollout`, `durable` | the rollout file; the part a flush has covered |
| `phase`, `turn`, `setting` | where the running task is; its turn and `TurnContext` |

*Actions.* `StartTurn` and `StartCompactTask` begin a task. `PreTurnCompact`,
`ManualCompact`, `MidTurnCompact` are `run_compact_task_inner_impl` with
`replace_compacted_history` from its three callers, `CompactFails` the request or
hook that stops one. `RecordContextUpdates`, `RecordInput`, `BlockInput`,
`FinalAnswer`, `CallTool`, `ToolOutput`, `FollowUp`, `Steer` are what `run_turn`
records; `Complete` and `Abort` its two ends. `ThreadRollback` is the handler of
the same name. `RestartAndResume` loses any part of the file that was not flushed
and rebuilds the session from the rest.

*Algorithms.* `ReverseScan` and `ReplayRecord` are the two loops of
`reconstruct_history_from_rollout`, `DropLastNUserTurns`,
`TrimPreTurnContextUpdates`, `EnsureCallOutputsPresent`, `RemoveOrphanOutputs`,
`RemoveFirstItem`, `BuildCompactedHistory` and `InsertInitialContext` the
functions of those names. The loops are recursive functions: `Scan(r)[p]` is the
reverse scan having read the records from `p` on, `Replay(r, from, base)[p]` the
history having replayed those up to `p`, `WithoutOldest(h, n)` the compaction's loop
over `remove_first_item`. They are checked against the live session and against
`Chronicle`.

*Reference.* `Chronicle(r)[p]` says what the first `p` records mean without scanning,
cutting or trimming: it reads them forward, keeps what was spoken, and lists the turns
that were told something (`told`). `DropTurns` drops the last `n` of these, and their
items go with them by the turn each item carries. A drop is `odd` where a rollback by
turns and one by messages cannot agree: it takes a compaction along, reaches behind
one for turns that do not exist, or takes a turn that was steered, one with an
instruction behind other spoken items (a goal continuation that is steered counts,
although the steered message is its first).

*Abstractions.* An item is a kind, its turn and a payload (settings, call id,
number of the message). Function, custom, shell and search calls are paired by
the same rule and are one kind. The token budget of a compaction is a number of
messages, `CompactKeep`. Compaction by the remote endpoint, rollouts of older
versions and forks are not modelled. A change of the history and its record in the
rollout are one step: in the code an await lies between the two
(`session/mod.rs:2566`, `:2661`), where another task could record something, and an
append that fails is only logged (`:2954`).

### `ToolCalls`: the tool calls of a turn, and what they ask the user

*Processes.* A turn that streams calls and then drains their futures (`run`), its
abort (`stage`), the spawned task and the future of every call, the client that
answers.

| state | code |
|---|---|
| `active`, `stage` | `Session::active_turn`; `handle_task_abort`: taken, token cancelled, stopped, waiters cleared |
| `call[c].task`, `.fut`, `.flag` | the spawned task, `handle_tool_call_with_source`'s future, `terminal_outcome_reached` |
| `call[c].outcomes`, `.response` | what `notify_tool_finish` and `notify_tool_aborted` reported; what the model is told |
| `waiters[t]` | `pending_approvals`, `pending_request_permissions`, `pending_user_input` of a `TurnState`; a key is a call id, or the turn's for user input |
| `answering`, `grants` | a permission answer between removal and send; permissions granted to a turn or the session |

*Actions.* `AcquireLock` ... `Notified` are the task of a call, up to
`dispatch_any_with_terminal_outcome` and `notify_tool_finish_if_unclaimed`;
`SelectResult`, `SelectCancelled`, `ClaimAbort`, `AbortHandle`, `ReportAborted`
the branches of the `select!` in `parallel.rs`, one step per access to the shared
flag or handle. `Request`, `SenderDropped`, `ReceiveReply`, `PermissionCancelled`
are the requests of `session/mod.rs`; `NotifyAnswer`, `TakePermissionRequest`,
`GrantPermission` the answers. `TakeActiveTurn`, `CancelTask`, `TaskDone`,
`GraceTimeout`, `ClearPending` are an abort, in its order.

*Abstractions.* The kinds of tools differ in whether they run in parallel, wait
for their teardown, may or must ask, and under which key. What a tool does is one
step. An answer is yes, yes for the session, or no. Elicitations, dynamic tools,
requests routed to the guardian and calls nested in code mode are not modelled.

### `ProcessStore`: the processes of unified exec

| state | code |
|---|---|
| `processes`, `reserved` | `ProcessStore`: entries by id, `reserved_process_ids` |
| `used` | `last_used` of the entries and of the processes to be stored, as an order: which were used more recently |
| `pc`, `id`, `proc`, `reply` | a call of `exec_command`, its id, its process, the process its answer says is alive |
| `pruned`, `sweeping`, `writing` | what a prune, a sweep, a `write_stdin` holds outside the lock |
| `watch`, `ends` | exit watchers, `ExecCommandEnd` events |
| `unreserved`, `lost` | history variables: commands whose reservation a sweep or a pruning cleared while their call was under way; entries whose pruner was killed, and processes a killed call had not stored |

*Actions.* `AllocateProcessId` ... `EndShortLived` are `exec_command`, cut at the
awaits; `KillCommand` is the tool's abort at any of them. `PrepareWrite`,
`AnswerWrite`, `FailWrite` are `write_stdin`, which runs alone; `Sweep`,
`TerminateSwept` are `terminate_all_processes`; `Exit` and `WatcherEnds` the
process and `spawn_exit_watcher`. A process is external: it may exit at any time
and is `dying` after it was told to. A deferred network approval adds a task that
holds the process until it exits or is denied (`NetworkDenied`), beyond the end of
the call: `KillCommand` therefore terminates a process that is not stored yet, or
leaves it running with nobody to reach it (`lost`).

### `MemoryConsolidation`: phase 2 of the memory pipeline

*Processes.* Sessions of any number of Codex processes (`Workers`) that share two
databases and a directory; the clients that pollute, delete, set a mode, reconcile
or reset.

| state | code |
|---|---|
| `global` | the `jobs` row of kind `memory_consolidate_global`: status, ownership token, and whether lease, `retry_at` and cooldown are still in the future |
| `outputs`, `mode` | `stage1_outputs` (the snapshot and `selected_for_phase2`), `threads.memory_mode` |
| `rollout` | the memory mode the thread's rollout says; `polluted` is never written there |
| `inputs`, `memory` | the synced summaries; what `MEMORY.md` was consolidated from |
| `git`, `headInputs`, `headMemory` | the git baseline |
| `pc`, `selection` | a worker in `phase2::run` and the rows it selected |

*Actions.* `ClaimGlobal`, `SelectKeys`, `SelectRows`, `SyncAndDiff`, `Heartbeat`,
`AgentCompletes`, `ResetBaseline`, `Phase2Succeeded` follow `phase2::run` and
`agent::handle`; `Phase2Failed`, `LostOrNoGit` and `Crash` leave it at any point
with what was written so far (`Interrupted`). One transaction is one step; so
`mark_thread_memory_mode_polluted` is three and `delete_thread` two. `SetMemoryMode`
is the user's, with one of `UserModes`: the row and then the rollout.
`Reconcile` is `reconcile_rollout`, which a search of the threads, an update of their
metadata and the backfill call: the row, a polluted or deleted one too, gets the mode
of the rollout.

*Abstractions.* The consolidation agent is external: it turns the inputs it finds
into the memory, or a part of them when it fails. Rank, age and number of the
selected outputs are any subset. Time is what the queries ask of it. Job rows of
phase 1 and their leases are not modelled; an extraction lands at any time.

## 3. The runs

Sizes are distinct states; every passing run finishes within about two minutes
with two workers.

| run | instance | states | shows |
|---|---|---|---|
| `turn_user` | 2 prompts (one blocked by a hook), 1 interrupt, 1 compact/review/shell task, no follow-up request, 3 turns, with fairness | 109,996 | `TypeOK`; no turn is installed over another (`InstallsIntoFreeTurn`); no turn both completes and aborts (`OneTerminalEvent`); no input vanishes (`NothingLost`); every started turn ends (`EveryTurnEnds`) |
| `turn_wakeup` | 1 prompt with rejected settings, 2 mails (one triggers), 1 goal, 1 API continuation, 1 follow-up request, 4 turns | 1,068,486 | turns that start themselves: `InstallsIntoFreeTurn`, `NothingLost`, and mail that comes after the final answer waits (`MailWaitsForNextTurn`) |
| `turn_races` | 1 prompt, 1 trigger mail, 1 injection, 1 guardian abort, shutdown, 4 turns | 1,004,654 | whatever races: an aborted turn takes no further step (`AbortedTurnIsDead`), no item is recorded twice (`RecordedOnce`) |
| `agents` | 2 calls, 3 agents (one of them can be resumed), 1 path, limit 2 | 2,714,029 | the counter covers all agents and reservations (`TypeOK`, `SlotsCovered`), a reserved path has one owner (`PathHeldByOne`); until a resume is begun slots never leak (`SlotsExact`), running agents stay within the limit (`RunningWithinLimit`) and no running agent is unregistered (`NeverUnregisteredWhileRunning`) |
| `rollout_writer` | 2 clients, 3 items in batches of 1 or 2, channel of 2, 1 resume, with fairness | 220,806 | no item is lost, repeated or moved whatever fails (`WrittenInOrder`), an `Ok` means written (`AckedIsWritten`), everyone who waits is answered (`BarrierAnswered`), the recorder is an append-only log in which a failed write costs at most one readable line (`ImplementsLog`) |
| `thread_history` | 3 turns or compact tasks, 2 settings, 3 deviations from plain question and answer, 2 messages kept by a compaction | 401,616 | a resume yields the live history and forgets the baseline where the live session did (`ResumeYieldsLiveHistory`); a rollback drops whole turns (`RollbackDropsWholeTurns`); the baseline is what the model was told (`BaselineIsWhatWasTold`); every prompt, and every one shortened from the front, pairs calls and outputs (`PromptIsPaired`) |
| `tool_calls` | 5 pairs of calls in one turn, an interrupt, a following turn, with fairness | 612,568 | one outcome, the one the model is told (`ResponseMatchesOutcome`); an interrupt does not read as a refusal (`InterruptIsNoRejection`); consent and grants reach what they were given for (`ConsentIsToThisCall`, `GrantStaysInItsTurn`); only the user is ever waited for (`EverythingSettles`) |
| `process_store` | 3 commands, 2 ids, store of 1, 1 sweep, 1 write, 1 kill | 2,726,554 | the limit (`TypeOK`); no process is out of reach (`NoOrphanProcess`); an answer names the caller's process (`AnswerNamesOwnProcess`); the end of a command is reported once (`EndReportedOnce`) |
| `memory_consolidation` | 1 thread with 1 extraction, 2 workers, 1 fault, with fairness | 487,040 | the baseline is a consolidated workspace (`BaselineIsConsolidated`); what is marked as selected is in the memory (`MarkedIsConsolidated`); a thread that stays polluted, disabled or deleted is forgotten for good (`PollutedIsForgotten`) |

Three runs show where the code disagrees with what it says of itself; TLC finds a
counterexample and the finding in `PROJECT.json` quotes the line.

| run | property violated | what happens |
|---|---|---|
| `turn_install_over` | `InstallsIntoFreeTurn`, the `debug_assert!` at `tasks/mod.rs:366` | A finishing task reserves the session for deferred trigger mail; the submission loop takes the reservation away with `abort_all_tasks` and starts a user turn; both reach `start_task`. A release build overwrites the first task, which is killed without `TurnAborted`. |
| `thread_rollback` | `RollbackKeepsOlderTurns` | A turn compacts and is then rolled back. The reverse scan has cut the suffix to replay at the compaction, but the rollback drops its replacement history: nothing before it survives, in the running session and in every resume. |
| `memory_polluted` | `PollutionIsKept` | A thread meets external context and is marked `polluted`, in its row only. A search or an update of its metadata reconciles the row with the rollout, which still says `enabled`: the next consolidation takes the thread in again. |

### Where a property is claimed, and where the code does not keep it

The passing runs claim a property only where the code keeps it. The other side of
each border can be reproduced by changing one constant or one conjunct:

* `NothingLost` is claimed without injected items. With `InjectedItems = {i1}` in
  `TurnUser.cfg` an item injected while `on_task_finished` stands between taking
  the pending input (`tasks/mod.rs:590`) and clearing `active_turn` (`:795`) is
  dropped with the `TurnState`.
* `InstallsIntoFreeTurn` is claimed either without turns that start themselves or
  without user turns (`turn_install_over` has both), and `OneTerminalEvent`
  without turns that start themselves: such a turn can be taken by a task that
  passed its cancellation check just before an abort (`tasks/mod.rs:417`, `:580`).
* `MailWaitsForNextTurn` excepts a turn that is being aborted: during the grace
  period the session has no active turn, and `get_pending_input` then drains the
  mailbox whatever phase the turn was in (`input_queue.rs:189`). `TurnWakeup.cfg`
  has no aborts; with `MaxInterrupts = 1` and without the exception TLC finds it.
* Trigger mail may be left in the mailbox of an idle session: an interrupt that
  meets a finishing turn takes its task-less `active_turn`, and neither of the two
  then looks for mail (`tasks/mod.rs:516`).
* A prompt submitted while a standalone shell command runs is steered into that
  task, which calls itself a regular turn (`tasks/user_shell.rs:67`), and is
  recorded at its end without a model request.
* `SlotsExact`, `RunningWithinLimit` and `NeverUnregisteredWhileRunning` are claimed
  until a resume is begun; without `resumed = {} =>` TLC finds each violated in the
  same run. A second resume of an agent that is running again pays twice
  (`control.rs:665`); a resume cancelled between the insertion of the thread
  (`thread_manager.rs:1270`) and the commit leaves a running agent without a slot; and
  a close that has removed a thread from the map releases its entry although it was
  resumed meanwhile (`control.rs:773`).
* `WrittenInOrder` and `AckedIsWritten` are about lines, also one that follows a
  fragment (`glued`). A write that stops half way leaves a fragment; the retry
  appends the same item behind it and answers `Ok` (`recorder.rs:1656`), but the two
  share a line that `load_rollout_items` skips (`:830`), so a resume does without an
  item that was acknowledged. `ImplementsLog` says so: it vouches that an item
  acknowledged is written, and that a reader finds all lines but those. The invariant
  `1 .. durable \subseteq DOMAIN Logged` is violated in `rollout_writer`.
* `RollbackDropsWholeTurns` and `BaselineIsWhatWasTold` leave out rollbacks of
  compacted turns (`thread_rollback`) and of steered turns, whose messages the
  replay counts one by one while the scan counts the turn once. A turn that
  recorded context but was stopped before its input is no user turn: a resume
  takes its baseline from an older one.
* `InterruptIsNoRejection` leaves out parallel MCP approvals: they share the turn's
  id as key (`mcp_tool_call.rs:1314`), so the second replaces the first, which
  reads a closed channel as a refusal. `ResponseMatchesOutcome` allows a tool that
  is not torn down to report its result and then the abort; a shell call that was
  asking when the grace period ended reports neither.
* `ConsentIsToThisCall` leaves out `request_user_input` calls that share the turn's
  key with another request: an MCP approval checks that the answer has its
  question, `request_user_input` takes whatever answer comes under the key
  (`session/mod.rs:2319`), a late one to that approval included.
* `NoOrphanProcess` and `AnswerNamesOwnProcess` leave out commands whose
  reservation was cleared while their call was under way: by
  `terminate_all_processes` during their start (`process_manager.rs:1267`), or by
  another command's `store_process`, which at the limit prunes a process whose own
  call still yields and frees its id for a third command (`:1212`).
  `NoOrphanProcess` also leaves out an entry whose pruner was killed before it
  terminated it, and a process whose call was killed before it stored it while a
  deferred network approval was pending: the task waiting for a denial holds the
  process (`process_manager.rs:308`), so that dropping the call does not end it. The
  id a killed call reserved is never released.
* `PollutedIsForgotten` is claimed of threads that stay out of the enabled mode.
  `memory_polluted` is the other side: without `Reconcile` in `Next`,
  `PollutionIsKept` holds there.
* The memory properties hold while `clean`: the ownership of the job is checked at
  heartbeats and at the end, not before the workspace is written
  (`phase2.rs:115`), so a worker that lost its lease at work, or a reset under its
  hands, can mix two consolidations.

### Bounds, and why they suffice

Every bound is a named constant that guards the actions consuming it.

* `MaxTurns`, `MaxSlots` (`TurnLifecycle`): turns and `TurnState` objects created.
  Races involve an old turn, its successor and a turn that starts itself; 3 to 4
  turns leave room for one more. The bounds cut off operations not yet submitted
  and never a process in the middle of one: a process that could not get a turn or
  a `TurnState` would be stuck outside `AtRest`, which deadlock checking, on in
  all turn runs, would report.
* Items: one of each sort that a property tells apart, two where two of a sort can
  meet in one queue.
* `MaxInterrupts`, `MaxOtherTasks`, `MaxDenials`, `MaxContinues` = 1: an operation
  of the submission loop is over before the next begins, so two of them add
  sequences, not interleavings.
* `MaxSamples`: follow-up requests in a turn; 1 (`turn_wakeup`) reaches the
  loop's back edge. `turn_user` has none, which keeps the graph small enough for
  the liveness check.
* `ChannelCap` = 2, `MaxItems` = 3: the channel fills while the writer works, and a
  failure can fall before, between and after the items of a batch.
  `MaxResumes` = 1: what a resume leaves behind is a file, as the first one found.
* Two tool calls reach every pairwise race on the registry, two resumes of one agent
  included; 3 agents with a limit of 2 put them at the limit.
* `MaxTurns` = 3, `MaxDeviations` = 3 (`ThreadHistory`): a rollback or resume, with
  a compaction or interrupt before it and something behind it, over a first turn
  that must survive. Plain turns and steering are free; only steps off that path count.
  `CompactKeep` = 2 makes a compaction forget a message, 3 (`thread_rollback`) none.
  `BaselineIsWhatWasTold`, which no theorem states, also holds with `MaxDeviations` = 4
  (3.90 million states) and with `MaxTurns` = 4 (2.96 million).
* `MCScripts`: a pair of calls for each way two calls can meet: lock (shell and
  patch), key (two MCP calls, MCP and input), the turn's grants (perm and read), an
  unknown tool beside a known one. `CallTurns` = 1 of 2 turns: the second is there
  to be active when an answer comes late.
* `MaxProcesses` = 1, `Protected` = 0, 3 commands: the second one prunes the first
  while its call yields, and the third draws its id. With two ids one is always drawn
  again. Without the sweep the run also passes with three ids and two kills (374,441
  states), and so with `MaxProcesses` = 2 and `Protected` = 1 (144,823), where the
  protected set is neither empty nor everything; the theorems of section 4 are about
  any.
* `MaxFaults` = 1 (`MemoryConsolidation`): one failure, crash, late lease or reset at
  every step. `MaxSource` = 1: a second extraction changes what the memory holds of
  the thread, not whether it holds it. The invariants also hold with `MaxSource` = 2
  (967,776 states up to a permutation of the workers), and there with `MaxFaults` = 2
  (5.27 million). Threads do not interact except through the row and the
  whole-workspace steps, and the theorems of section 4 are about any number.

Symmetry is used in safety runs only, over callers (`AgentControl`), over items of
one sort that no constant tells apart (`TurnLifecycle`), over commands and ids
(`ProcessStore`) and over settings (`ThreadHistory`).

`CHECK_DEADLOCK FALSE` is set where the system really may stop: all thread ids are
used up and every agent is closed, a recorder was shut down, all turns, calls or
commands of the instance are over.

### Fairness

`LiveSpec` of `TurnLifecycle` assumes weak fairness of each process: the
submission loop finishes the operation it accepted, tokio polls every ready task,
a model request and the grace period end. Nothing is assumed of the environment:
no prompt, mail or interrupt need ever come. Weak fairness suffices as each
process waits at one place only for a resource another could hold,
`continuation_lock`, whose holder never waits for the waiting process.
`EveryTurnEnds` rests on the bound `MaxSamples`: a model may ask for follow-ups
forever. In `RolloutWriter` only the writer task is fair: tokio polls it and every
system call returns, with or without success. No disk need ever recover for
`BarrierAnswered`. In `ToolCalls` tasks and futures are polled and the grace timer
fires; the user need not answer, start or interrupt anything. In
`MemoryConsolidation` sessions keep being started, a client that began to
pollute or delete finishes (one that dies between the row and the enqueueing leaves the
forgetting to the next consolidation), a worker that has not failed
goes on, the lease of a dead one runs out and waits end; no heartbeat, extraction
or recovery from a fault is assumed.

### Mutants

For every property of a passing run `PROJECT.json` names a mutant: a definition
changed the way a plausible bug would (a dropped `take()`, a clone instead of
`split_off`, a reservation without a check, a forgotten decrement, a diff of half
the workspace, ...) under which TLC finds the property violated in that very run.

## 4. What is proved

Theorems hold for every value of the constants that satisfies the named
assumptions, with no bound on turns, items, calls or agents.

### `AgentControl_proofs`

`SlotsAlwaysCovered == Spec => [](TypeOK /\ SlotsCovered)`, with `AgentsTyped`
for the types alone: `total_count` stays
within `0..MaxThreads` and pays for every registered agent and every slot in
flight; hence no `fetch_sub` wraps and the registry never holds more than the
limit. Assumptions: `Root \in Threads`, `MaxThreads \in Nat`, finite sets of
callers, threads and paths, distinct special values.

The inductive invariant is `SlotInv == TypeOK /\ ThreadKnown /\ SlotsCovered`.
Types alone are not inductive: the counter stays a natural number only while
each later decrement is paid for. A call between the two halves of a release
(`releaseCount`) counts as a slot holder; that is what makes the accounting
close although the entry and the counter change at different times. Five lemmas
(`CoveredTake`, `CoveredGive`, `CoveredCommit`, `CoveredRelease`,
`CoveredUnchanged`) say how the two cardinalities move; every action is an
instance of one of them.

`PathsHeldByOne == Spec => []PathHeldByOne`, resumes included: the property is
inductive beside `SlotInv`, as a placeholder is only written into a vacant path and
only removed by the call that holds it.

`SlotsAlwaysExact` (`SlotsExact`: the counter *is* the number of registered agents and
slots in flight), `NoRunningAgentUnregistered` (`NeverUnregisteredWhileRunning`) and
`RunningAgentsLimited` (`RunningWithinLimit`) are about what happens until a resume is
begun, which is where the code stops keeping them: a second resume of an agent
commits a thread that is already counted (section 3). Their invariant, `UntilResumed`,
is `SpawnInv` under that condition. `SpawnInv` adds what excludes a double commit
otherwise: a started thread is fresh, unregistered and known to one call only
(`CallInv`, `StartedApart`, `UsedInv`), a thread about to be released does not run
any more, and every running agent is registered or about to be (`RunInv`). The
limit then follows by counting: each running agent has a registered key or a
slot holder of its own, and `total_count`, at most `MaxThreads`, is their number.

### `TurnLifecycle_proofs`

`TypeCorrect == Spec => []TypeOK` and `AbortIsFinal == Spec =>
[]AbortedTurnIsDead`. Assumption: `BoundsAssumption` (the bounds are naturals)
and `ItemsAssumption`.

`AbortedTurnIsDead` says that after `TurnAborted` no process runs the turn's task
again. It is not inductive, since a process inside `start_task` sets the task of
*some* turn to `begin`. `TurnInv` adds what excludes that:

* `StartsFreshTurn`, `StartsOwnTurn`, `LaterTurnsOff`: a process on its way through
  `start_task` holds a turn whose task was never spawned, and holds it alone;
* `ActiveSpawned`: the registered task was spawned, so what an abort takes is not
  a turn still to be started;
* `VictimKnown`: an abort that is about to report has seen its victim dead or gone;
* `GuardInterrupts`, `ReturnsKnown`, `SlotKnown`: bookkeeping of the locals.

The proof first types every update (one lemma per group of actions), then shows
`ProcInv` along a general lemma, `ProcStep`, for steps that move one process, its
special cases (`PlainStep`, `ReturnStep`, `MoveStep`, `StartingStep`,
`NewTurnStep`), and lemmas of their own for the actions that touch a second
process: `InstallProc`, `TakeTaskProc`, `AbortKillProc`, `AbortReportProc`.
`TurnInv` was model-checked on the instances of `turn_user`, `turn_wakeup` and
`turn_races` before it was proved.

#### What becomes of the input

The second half of the module. For all values of the constants, with trigger mail,
goals, injections and the guardian:

* `NothingRecordedTwice == Spec => []RecordedOnce`. The invariant `ItemInv` names
  every place an item can be in (mailbox, pending input of a `TurnState`, what a
  process carries, the input of a turn, the history) and says that no item is in
  two of them (`InOnePlace`), that whatever is kept was sent (`KeptIsSent`), so
  that a new item is in no place yet, and that the continuation lock admits one
  process to a goal's prompt (`GoalLocked`). A step is one of a few moves
  (`QuietStep` and the lemmas behind it): it takes an item out of one place and
  puts it into one other. `ItemsAssumption` therefore says that a goal's prompt is
  not also a mail, a prompt or an injected item.

The other four have the hypothesis `SubmittedOnly`: no mail asks for a turn, no goal
continues and the guardian never fires. It is the border of `turn_install_over`: with turns
that start themselves the code does not keep these properties (section 3). Prompts,
steering, plain mail, interrupts, replacement, review, compact and shell tasks and
shutdown remain, in any number.

* `SubmittedTurnsInstallFree` (`InstallsIntoFreeTurn`) and `SubmittedTurnsEndOnce`
  (`OneTerminalEvent`). `SubInv`: only the submission loop aborts and starts turns
  (`OnlyLoop`); from the abort to the attach the session is empty (`Taken`); a task
  that works is registered or the one being aborted (`Registered`); a turn that has
  begun to finish is out of an abort's reach (`Ended`).
* `SubmittedInputIsKept` (`NothingLost`), with `InjectedItems = {}` as well: an item
  injected into a turn that is finishing is in nobody's queue any more. `KeepInv`
  adds that only a cancelled turn dies (`DeadCancelled`), that processes carry items
  at certain points only (`EmptyHands`), that a `TurnState` without a task belongs to
  the loop or to a finishing turn that will still record what is in it (`SlotInv`),
  and that each item sent is in one of the places a turn will look at (`Safe`).
* `DeferredMailWaits == Spec => MailWaitsForNextTurn`, an action property: a turn
  that drains without being cancelled is the registered one and runs on its own
  `TurnState` (`MailInv`), so the phase `get_pending_input` reads is its own.

### `RolloutWriter_proofs`

`FileInOrder == Spec => []WrittenInOrder`, `AckIsKept == Spec =>
[]AckedIsWritten` and `RolloutTypes == Spec => []TypeOK`, for any clients, items,
batches, capacity and number of resumes. Assumptions: there is a client, batches
are sequences of items, the `SessionMeta` is not an item, the capacity is positive.

Neither is inductive. `WriterInv` adds that each command in the channel carries
the accepted items between its mark and the next one's (`ChannelInOrder`), that a
recorder without a file has written nothing (`FileFollowsJob`), and that the
barrier in work was sent before anything not yet received (`MarkReceived`). The
argument is about pieces of one sequence: receiving moves a piece from channel to
`pending`, writing moves its head to the file (`MoveHead`, `AdjacentPieces`), and
a failure moves nothing. An acknowledgement is safe because `pending` is empty
then, so the file is as long as what was received; a deferred recorder answers
without writing only when nothing was recorded. A resume needs the shape of the
file (`FileShape`): its first line is the `SessionMeta`, all others are items.

These three speak of complete lines; a fragment may precede one on its line.

`RecorderIsLog == Spec => ImplementsLog`: the recorder implements `RolloutLog`, for
all instances, and with it says what a reader finds: every item written but those
behind a fragment. `Init` maps to `Init`; a step that writes a line maps to
`WriteHead` or `Write` because `WriterInv` makes that line the next accepted item,
and because it is `glued` exactly when the file was torn; a failure that tears the
file maps to `WriteFails`, an answered barrier to `Acknowledge` because `pending` is
empty then, a resume to `Restart` because the new recorder goes on behind the lines
of the file, and all others leave the log as it is.

### `MemoryConsolidation_proofs`

`TypeCorrect`, `BaselineConsolidated == Spec => []BaselineIsConsolidated` and
`MarkedConsolidated == Spec => []MarkedIsConsolidated`, for any set of threads, any
number of workers, sources and faults, and whatever the modes of the threads are set
or reconciled to (`UserModesAssumption`: a user enables or disables). Neither of the
two is inductive. `Inv` adds, while `clean` holds:

* `AtWorkOwns`: a worker between claim and completion owns the job row, so there is
  one at most; this is where `clean` is needed;
* `AtWorkHasGit`, `WithoutGitConsolidated`: only a reset that was interrupted, or that
  of all memories, leaves no repository, and then the workspace itself is
  consolidated, so that the baseline `prepare_memory_workspace` makes of it is;
* `InputsAreSelection`: behind the sync the inputs are what the worker selected;
* `ResetAfterAgent`: a baseline is reset only behind an agent that has consolidated
  all inputs.

A crash or failure may leave half-synced inputs or a half-written memory; the
invariant survives as neither touches the baseline, and the next diff sees both.

### `ToolCalls_proofs`

`ToolCallsTyped`, `ResponsesMatchOutcomes == Spec => []ResponseMatchesOutcome` and
`GrantsStayInTheirTurn == Spec => []GrantStaysInItsTurn`, for any scripts of tool
calls and any number of turns. `Inv` is a statement about each call's record and one
about the requests:

* `StartInv`: a call asks once, and only after it was issued in a turn;
* `TaskInv`: up to `worked` no outcome is reported, and the flag is set only by a
  teardown; a task that notifies or returned without one has reported its own result;
* `FutureInv`: a future that tears down has claimed the flag before any outcome, only
  a tool without teardown is aborted, and a dropped or returned future has no live
  task;
* `AskInv`: a waiter, an answer on its way and a grant all name the turn that was
  active when their call asked.

Every transition of a record is a lemma (`...Succeeds`) about the record alone;
`OneCallKept` lifts it to the function of calls, and `FewerRequests` does away with
the requests for every step that only removes some. What is left are the three
steps that add a waiter, an answer or a grant.

The second half of the module proves `InterruptsAreNoRejections == Spec =>
[]InterruptIsNoRejection` and `ConsentIsToThatCall == Spec => []ConsentIsToThisCall`.
`AnswerInv`, beside `Inv`, follows a sender from the request to the answer:

* `SenderOnce`: the sender of a request is in one place, a turn's waiters or an
  answer on its way, and has not been used;
* `SaidInv`, `ReplyInv`: what a call received was said of a request under its key;
* `ConsentInv`: a tool that asked goes on only if it reads consent in what it
  received; where the keys differ, or the answer has to have its question, that
  answer was given to this call;
* `GoneInv`, `WaitsInv`, `RejectInv`: when an abort clears the waiters no future of
  the turn is left to read the closed channel, and a call that waits has a sender.

The first attempt at `ConsentIsToThatCall` failed at `request_user_input` under a
shared key, which is how the exception in section 3 was found.

### `ProcessStore_proofs`

`ProcessStoreTyped`, `NoProcessIsOrphaned == Spec => []NoOrphanProcess`,
`AnswersNameOwnProcess == Spec => []AnswerNamesOwnProcess` and `EndsReportedOnce ==
Spec => []EndReportedOnce`, for any commands, ids and limits (`LimitsAssumption`:
fewer are protected than fit). `Inv` adds:

* `EntryInv`, `ReservedInv`, `UniqueInv`: an entry is under the id its command drew;
  a call under way and a stored process have their id reserved, and to themselves,
  or it was lost. Proving this showed the second way to lose one, a pruning during
  the yield;
* `OrderInv`: `used` is a strict total order of what is or will be stored. The limit
  needs it: a full store has an unprotected process, and among those a least
  recently used one, so a store at its limit always prunes (`SizeInv`);
* `EndInv`: the call or the watcher sends the end event, never both;
* `WriteInv`: `write_stdin` runs alone, and the entry it found is replaced by none.

`NoProcessIsOrphaned` holds outside the windows that `lost` and `unreserved` mark;
section 3 says what the code does in them.

### `ThreadHistory_proofs`

`ThreadHistoryTyped`, `ResumesYieldLiveHistory == Spec => []ResumeYieldsLiveHistory`
and `PromptsArePaired == Spec => []PromptIsPaired`, for any settings, any number of
turns, steps, compactions, rollbacks and restarts. None is inductive: a resume reads
the rollout, so what holds of the history has to be traced back to the records. `Inv`
is

* `HistoryInv`: history and rollout are *in step*. Both are typed; every record of
  the rollout is well paired (an output is recorded right behind its call, and what a
  compaction recorded holds no calls); the history is well paired; and the history
  `reconstruct_history_from_rollout` would make of the rollout is the history there is;
* `TurnInv`: the rollout ends with the records of the running turn, and without a user
  message or context among them as long as the model was told none. The next record
  needs this: the reverse scan ascribes it to the turn it closes, and a turn without
  a user message is not counted by a rollback;
* `ToolInv`: a call that waits for its output is the last item and the last record;
* `BaselineInv`: where the session has no baseline, the rollout yields none, so that a
  resumed session injects its context again.

*Scan.* The scan runs from the newest record to the oldest, and a step of the session
appends a record at its front, so that the loop does not extend: every state of it
changes. `Alike` relates the scans of a rollout and of the rollout with a record
more: before the last turn they agree in all that decides the history until they
meet a base, which is then the same compaction in both (`AlikeAtStart`, `AlikeStep`,
`AlikeDown`, `AlikeAtEnd`). With it `RebuiltAppend` says that an item appended to the
rollout is appended to the rebuilt history, `RebuiltStarted` that a start leaves it,
and `RebuiltCompacted` that a compaction replaces it, whatever rollbacks lie before.
A rollback and a resume make the rebuilt history the live one.

*Pairing.* Every call has an id of its own (the number of its record), and in the
history an output stands directly behind its call (`WellPaired`). Prefixes, suffixes without the removed
item's twin, appends and replays keep that (`PairedPrefix`, `OldestRemoved`,
`PairedLater`, `ReplayRecordPaired`), and `EnsureCallOutputsPresent` then puts an
output directly behind every call that has none, which leaves no orphan
(`EnsuredAdjacent`, `AdjacentPaired`).

*Induction.* The loops have no bound, so what they compute needs induction over
their index. The library's induction rules take an operator as a parameter and cannot
be instantiated; `Induct` and `InductDown` state induction for a set of numbers
instead. They follow from `LeastNumber`, that a nonempty set of naturals has a least
element, which is the well-foundedness of `<`.

### `ThreadRollback_proofs`

`RollbacksDropWholeTurns == Spec => []RollbackDropsWholeTurns`, for any settings and any
number of turns, compactions, rollbacks and restarts: unless a rollback was odd, the
spoken items of the session, live or resumed, are those of the turns the chronicle
keeps. The invariant beside `Inv` is `RollInv`: the rollout is *fitting* (every record
may stand where it stands: turns start in order, a turn's records carry its number and
do not go on behind a rollback, and what a compaction recorded is in the order of the
turns) and the task that runs is that of the turn read last. The rest is about any
fitting rollout, in two halves.

*Forward.* `Matches(h, c)` relates a history and a chronicle: the same spoken items, in
the order of their turns; and, counted from the end, the k-th instruction of the
history opens the k-th told turn of the chronicle, for all turns behind the last
compaction and the last steering (`Aligned`). Every record keeps it (`MatchNext`) until
a rollback is odd; for the rollback this is `MatchDropTurns`: the message the code cuts
at is the first spoken item of the first turn to drop, so that the cut by position
(`DropLastNUserTurns`) and the drop by turn leave the same. `Forward` concludes that a
replay of the whole rollout gives what the chronicle says.

*Backward.* The code replays a suffix only. If no rollback was odd, the reverse scan
selects the suffix behind the last compaction (`LastIsFound`): going back, the turns
still to be skipped (`Due`: `pending_rollback_turns`, less one where the open segment
is a user turn whose instruction lies further back) are among the told turns behind
that compaction (`BehindLast`, kept by `StepsBack`), so that none is pending when the
compaction's own segment closes. As the compaction replaces the history, the
suffix gives what the whole rollout gives (`RebuiltIsFull`, `RebuiltMatches`).

That a compaction records a history in order follows from `Matches` for the history it
was built from (`RollCompact`), which is why the invariant needs both halves.

The first attempt failed, and TLC confirmed why on a larger instance: the exception for
steered turns used to count messages, and missed a goal continuation that is steered
and then rolled back. Its earlier items precede the only message the code can cut at,
and stay. The chronicle was rewritten for it.

### Only model-checked

All liveness (`EveryTurnEnds`, `BarrierAnswered`, `EverythingSettles`,
`PollutedIsForgotten`): fairness and `ENABLED` are out of the prover's reach.
`BaselineIsWhatWasTold` of `ThreadHistory`: which settings the reverse scan adopts, and
which context items a replay keeps, are decided by rules of their own (user turns only,
`trim_pre_turn_context_updates`), and `Matches` is about spoken items only. The
invariant would have to say that a rollback returns scan, chronicle and history to where
they stood before the first turn it drops, context items included.
The other side of the hypotheses above: `SlotsCovered` and `PathHeldByOne` are proved
with resumes, but `InstallsIntoFreeTurn`, `NothingLost` and `MailWaitsForNextTurn` for
turns that start themselves and meet no abort or user turn (`turn_wakeup`) are only
checked on that instance.

## 5. Running it

```
tlc -workers 2 -config TurnUser.cfg MCTurnLifecycle
tlc -workers 2 -config AgentControl.cfg MCAgentControl
tlc -workers 2 -config RolloutWriter.cfg MCRolloutWriter
tlc -workers 2 -config ThreadHistory.cfg MCThreadHistory
tlc -workers 2 -config ToolCalls.cfg MCToolCalls
tlc -workers 2 -config ProcessStore.cfg MCProcessStore
tlc -workers 2 -config MemoryConsolidation.cfg MCMemoryConsolidation
tlc -workers 2 -config MemoryPolluted.cfg MCMemoryConsolidation   # finds a violation
tlapm AgentControl_proofs.tla
tlapm TurnLifecycle_proofs.tla
tlapm RolloutWriter_proofs.tla
tlapm ThreadHistory_proofs.tla
tlapm ThreadRollback_proofs.tla
tlapm MemoryConsolidation_proofs.tla
tlapm ToolCalls_proofs.tla
tlapm ProcessStore_proofs.tla
```

## 6. Plan

1. **Proofs.** `InstallsIntoFreeTurn` and `NothingLost` of `TurnLifecycle` for turns
   that start themselves without user turns or aborts, the instance of `turn_wakeup`;
   `BaselineIsWhatWasTold` of `ThreadHistory`, as an extension of `Matches` to context
   items and of the backward half to the settings the scan adopts.
2. **`SpawnEdges`, `NicknamePool`**, the completion watcher: the rest of
   `core/src/agent`. The edges are written behind the commit (`control.rs:335`).
3. **Phase 1 of the memories**: job leases under crash, expiry and late completion
   (`try_claim_stage1_job`).
4. **`InputQueue` refinement**: an abstract specification of the session's promise
   to a client, and `TurnLifecycle` shown to implement it; the two lock sections of
   `get_pending_input` (`input_queue.rs:193`) split.
5. **Output of unified exec**: the head/tail buffer as a pure algorithm, and
   `collect_output_until_deadline`, which may return before the last chunk of an
   exited process has arrived.
6. Listener and connection state of the app server; start-up and refresh of MCP
   servers.

### Not modelled

Wire adapters and model clients (a request is one step), MCP clients and servers,
configuration, sandboxing, exec policy and shell parsing, patches, login, the app
server, the user interfaces and SDKs, together by far the largest part of the
repository. They translate, parse, render or do I/O; what concurrent state they
have is listed in the plan or in `PROJECT.json`. Within the parts that are
modelled, what is left out is named under *Abstractions* above.

## 7. Hazards

`hazards` in `PROJECT.json` lists, at its line, what in this code a test would
hardly reach, with the properties that watch over it. Two have no property yet: the
spawn edges (item 2 of the plan) and
`RegularTask::run`, which repeats `run_turn` while input is pending
(`regular.rs:80`) and is unbounded when `run_turn` keeps returning early; the bound
`MaxSamples` hides that here.
