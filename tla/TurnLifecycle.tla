--------------------------- MODULE TurnLifecycle ---------------------------
(***************************************************************************)
(* The turn lifecycle of one Codex session (codex-rs/core): who may start, *)
(* steer, interrupt and finish a turn, and where the input of a turn is    *)
(* kept meanwhile.                                                         *)
(*                                                                         *)
(* Shared state is Session::active_turn (a mutex around                    *)
(* Option<ActiveTurn>), the TurnState every ActiveTurn points to, and the  *)
(* session mailbox.  Each critical section of one of those locks is one    *)
(* step; between two of them an await lets every other process run.        *)
(*                                                                         *)
(* Processes: the submission loop (one operation at a time), the tokio     *)
(* task of each turn (it also runs on_task_finished, and from there may    *)
(* start the next turn), the guardian's background abort, an API caller    *)
(* that asks for a goal continuation.  Steering and injection from other   *)
(* threads are single critical sections and have no process of their own.  *)
(***************************************************************************)
EXTENDS Integers, FiniteSets

CONSTANTS
    MaxTurns,        \* bound: turns created in a behaviour
    MaxSlots,        \* bound: TurnState objects allocated in a behaviour
    UserItems,       \* user prompts
    Mails,           \* inter-agent communications
    TriggerMails,    \* those with trigger_turn set
    InjectedItems,   \* items injected by inject_no_new_turn
    RejectedPrompts, \* user prompts submitted with invalid settings overrides
    BlockedPrompts,  \* user prompts the UserPromptSubmit hook blocks
    GoalItems,       \* goal continuation prompts (one per continuation)
    MaxInterrupts,   \* bound: Op::Interrupt submissions
    MaxOtherTasks,   \* bound: compact, review and user-shell submissions
    MaxDenials,      \* bound: guardian circuit breaker firings
    MaxContinues,    \* bound: continue_active_goal_if_idle calls
    MaxSamples,      \* bound: follow-up requests within one turn
    AllowShutdown    \* whether Op::Shutdown is submitted

ASSUME BoundsAssumption ==
    /\ MaxTurns \in Nat \ {0} /\ MaxSlots \in Nat \ {0}
    /\ MaxInterrupts \in Nat /\ MaxOtherTasks \in Nat
    /\ MaxDenials \in Nat /\ MaxContinues \in Nat /\ MaxSamples \in Nat
    /\ AllowShutdown \in BOOLEAN

ASSUME ItemsAssumption ==
    /\ TriggerMails \subseteq Mails
    /\ RejectedPrompts \subseteq UserItems /\ BlockedPrompts \subseteq UserItems
    /\ GoalItems \cap (UserItems \cup Mails \cup InjectedItems) = {}

Turns == 1 .. MaxTurns
Slots == 1 .. MaxSlots
None  == 0                       \* no turn, no slot
Items == UserItems \cup Mails \cup InjectedItems \cup GoalItems

\* Processes.  A turn's tokio task has the number of its turn.
Loop     == 0
Guardian == MaxTurns + 1
Api      == MaxTurns + 2
Procs    == 0 .. MaxTurns + 2

\* Where a process stands.  "idle" waits for work, "off" is a task not yet
\* spawned, "gone" a task that returned and "dead" one whose handle was aborted.
PCs == {"idle", "stopped", "off", "gone", "dead",
        "abort", "guard", "wait", "report",
        "checkMail", "reserve", "collect", "attach", "install",
        "begin", "work", "record", "drain", "recordPending", "sample",
        "check", "recheck", "flush",
        "finTake", "finPending", "finComplete", "finClear",
        "goalCheck", "goalReserve", "goalReread", "goalConfirm", "idleEmit"}

VARIABLES
    active,      \* Session::active_turn: [some, task, slot]
    turnState,   \* the TurnState objects: [Slots -> [pending, phase]]
    mailbox,     \* InputQueue::mailbox_pending_mails
    pc,          \* [Procs -> PCs]
    loc,         \* the locals a process carries across an await
    kind,        \* TaskKind of each turn
    input,       \* the `input` argument each task was spawned with
    cancelled,   \* turns whose cancellation_token is cancelled
    contLock,    \* holder of goal_runtime.continuation_lock, or -1
    started, completed, aborted,   \* turns whose event the client was sent
    recorded,    \* items in the conversation history
    refused,     \* items a hook, an error event or an Err reported as not taken
    discarded,   \* items dropped by clear_pending
    sent,        \* items handed to the session so far
    home,        \* the TurnState each turn was installed with (history variable)
    used         \* how much of each bound is consumed

vars == <<active, turnState, mailbox, pc, loc, kind, input, cancelled, contLock,
          started, completed, aborted, recorded, refused, discarded,
          sent, home, used>>

NoTurn   == [some |-> FALSE, task |-> None, slot |-> None]
NoLocals == [turn |-> None, kind |-> "regular", input |-> {}, carried |-> {},
             slot |-> None, victim |-> None, interrupt |-> FALSE,
             follow |-> FALSE, ret |-> "idle"]

\* TurnState::default()
FreshState == [pending |-> {}, phase |-> "CurrentTurn"]

Init ==
    /\ active = NoTurn
    /\ turnState = [s \in Slots |-> FreshState]
    /\ mailbox = {}
    /\ pc = [p \in Procs |-> IF p \in Turns THEN "off" ELSE "idle"]
    /\ loc = [p \in Procs |-> NoLocals]
    /\ kind = [t \in Turns |-> "regular"]
    /\ input = [t \in Turns |-> {}]
    /\ cancelled = {} /\ contLock = -1
    /\ started = {} /\ completed = {} /\ aborted = {}
    /\ recorded = {} /\ refused = {} /\ discarded = {} /\ sent = {}
    /\ home = [t \in Turns |-> None]
    /\ used = [turns |-> 0, slots |-> 0, interrupts |-> 0, others |-> 0,
               denials |-> 0, continues |-> 0, samples |-> [t \in Turns |-> 0]]

-----------------------------------------------------------------------------
(* Queue operators: the parts of input_queue.rs every handler shares.       *)

Pending(s) == turnState[s].pending

HasTriggerMail == mailbox \cap TriggerMails # {}

\* Mutant: the delivery phase is ignored.
AcceptsMail_Always == TRUE

\* Some(active_turn) accepts mail unless its phase is NextTurn; None accepts.
AcceptsMail == active.some => turnState[active.slot].phase = "CurrentTurn"

\* get_pending_input: what the active turn holds, then the mailbox.
GetPendingInput ==
    (IF active.some THEN Pending(active.slot) ELSE {})
        \cup (IF AcceptsMail THEN mailbox ELSE {})

HasPendingInput ==
    \/ active.some /\ Pending(active.slot) # {}
    \/ AcceptsMail /\ mailbox # {}

\* Mutant: the pending items are cloned instead of split off.
TakePendingInput_Clone ==
    /\ turnState' = turnState
    /\ mailbox' = IF AcceptsMail THEN {} ELSE mailbox

\* split_off(0) of the active turn's items and drain(..) of the mailbox.
TakePendingInput ==
    /\ turnState' = IF active.some
                    THEN [turnState EXCEPT ![active.slot].pending = {}]
                    ELSE turnState
    /\ mailbox' = IF AcceptsMail THEN {} ELSE mailbox

Extend(s, items) ==
    turnState' = [turnState EXCEPT ![s].pending = @ \cup items]

\* Process p moves on, or returns from a handler and drops its locals.
Goto(p, label) == pc' = [pc EXCEPT ![p] = label]

Return(p, label) ==
    /\ Goto(p, label)
    /\ loc' = [loc EXCEPT ![p] = NoLocals]

\* The active turn has this task-less TurnState: it is a reservation.
ReservedWith(s) == active.some /\ active.task = None /\ active.slot = s

\* run_hooks_and_record_inputs: what the hook lets through joins the history.
RecordInputs(items) ==
    /\ recorded' = recorded \cup (items \ BlockedPrompts)
    /\ refused' = refused \cup (items \cap BlockedPrompts)

\* ... and whether run_turn stops: something blocked, no prompt accepted.
StopsTurn(items) ==
    items \cap BlockedPrompts # {} /\ (items \cap UserItems) \subseteq BlockedPrompts

queues  == <<turnState, mailbox>>
events  == <<started, completed, aborted>>
fates   == <<recorded, refused, discarded>>
tasks   == <<kind, input, cancelled, home>>

-----------------------------------------------------------------------------
(* start_task: three critical sections, run by whichever process starts the *)
(* turn.  loc[p].turn is the turn it starts, loc[p].ret where p goes next.  *)

\* get_pending_input at the head of start_task.
Collect(p) ==
    /\ pc[p] = "collect"
    /\ loc' = [loc EXCEPT ![p].carried = GetPendingInput]
    /\ TakePendingInput
    /\ Goto(p, "attach")
    /\ UNCHANGED <<active, tasks, contLock, events, fates, sent, used>>

\* active.get_or_insert_with(ActiveTurn::default)
ActiveOrNew ==
    IF active.some THEN active
    ELSE [some |-> TRUE, task |-> None, slot |-> used.slots + 1]

GetOrInsertActive ==
    /\ active.some \/ used.slots < MaxSlots
    /\ used' = [used EXCEPT !.slots = IF active.some THEN @ ELSE @ + 1]

\* Clone the active turn's TurnState and extend it with the carried items.
\* (Clone and extend are one step: a TurnState taken from the session in
\* between loses the items just as one taken right after does.)
Attach(p) ==
    /\ pc[p] = "attach"
    /\ GetOrInsertActive
    /\ active' = ActiveOrNew
    /\ Extend(ActiveOrNew.slot, loc[p].carried)
    /\ loc' = [loc EXCEPT ![p].carried = {}]
    /\ Goto(p, "install")
    /\ UNCHANGED <<mailbox, tasks, contLock, events, fates, sent>>

\* turn.task = Some(running_task).  A RunningTask already there is dropped, and
\* its AbortOnDropHandle aborts that tokio task.
Install(p) ==
    LET new == loc[p].turn
        old == ActiveOrNew.task
    IN  /\ pc[p] = "install"
        /\ GetOrInsertActive
        /\ active' = [ActiveOrNew EXCEPT !.task = new]
        /\ kind' = [kind EXCEPT ![new] = loc[p].kind]
        /\ input' = [input EXCEPT ![new] = loc[p].input]
        /\ home' = [home EXCEPT ![new] = ActiveOrNew.slot]
        /\ pc' = [pc EXCEPT ![p] = loc[p].ret,
                            ![old] = IF old = None \/ @ = "gone" THEN @ ELSE "dead",
                            ![new] = "begin"]
        /\ loc' = [loc EXCEPT ![p] = NoLocals]
        /\ contLock' = IF contLock \in {p} \cup ({old} \ {None}) THEN -1 ELSE contLock
        /\ UNCHANGED <<queues, cancelled, events, fates, sent>>

(* maybe_start_turn_for_pending_work: look for trigger mail, reserve the    *)
(* idle session, then start_task.                                           *)
CheckMail(p) ==
    /\ pc[p] = "checkMail"
    /\ \/ HasTriggerMail /\ Goto(p, "reserve") /\ UNCHANGED loc
       \/ ~HasTriggerMail /\ Return(p, loc[p].ret)
    /\ UNCHANGED <<active, queues, tasks, contLock, events, fates, sent, used>>

\* Mutant: the session is reserved without looking whether it is idle.
ReserveSlot_Unchecked ==
    /\ used.slots < MaxSlots
    /\ active' = [some |-> TRUE, task |-> None, slot |-> used.slots + 1]

\* *active_turn = Some(ActiveTurn::default()), with the turn it is meant for.
ReserveSlot ==
    /\ ~active.some /\ used.slots < MaxSlots
    /\ active' = [some |-> TRUE, task |-> None, slot |-> used.slots + 1]

Reserve(p) ==
    /\ pc[p] = "reserve"
    /\ ReserveSlot /\ used.turns < MaxTurns
    /\ used' = [used EXCEPT !.slots = @ + 1, !.turns = @ + 1]
    /\ loc' = [loc EXCEPT ![p].turn = used.turns + 1]
    /\ Goto(p, "collect")
    /\ UNCHANGED <<queues, tasks, contLock, events, fates, sent>>

ReserveTooLate(p) ==
    /\ pc[p] = "reserve"
    /\ active.some
    /\ Return(p, loc[p].ret)
    /\ UNCHANGED <<active, queues, tasks, contLock, events, fates, sent, used>>

-----------------------------------------------------------------------------
(* Aborting: abort_all_tasks (the submission loop) and abort_turn_if_active *)
(* (the guardian).                                                          *)

\* Where an abort goes once the old turn is out of the way: spawn_task starts
\* its turn; an interrupt that stopped a task looks for mail that wants one.
AfterAbort(p, stoppedTask) ==
    IF ~loc[p].interrupt THEN "collect"
    ELSE IF stoppedTask THEN "checkMail" ELSE loc[p].ret

\* Mutant: the task is cloned out of the session instead of taken.
TakeTask_Clone(p) ==
    /\ active.task # None
    /\ active' = active
    /\ cancelled' = cancelled \cup {active.task}
    /\ loc' = [loc EXCEPT ![p].victim = active.task, ![p].slot = active.slot]
    /\ Goto(p, "wait")
    /\ UNCHANGED <<queues, kind, input, home, contLock, events, fates, sent, used>>

\* take_active_turn and task.take(); handle_task_abort cancels the token.
TakeTask(p) ==
    /\ active.task # None
    /\ active' = NoTurn
    /\ cancelled' = cancelled \cup {active.task}
    /\ loc' = [loc EXCEPT ![p].victim = active.task, ![p].slot = active.slot]
    /\ Goto(p, "wait")
    /\ UNCHANGED <<queues, kind, input, home, contLock, events, fates, sent, used>>

AbortAll(p) ==
    /\ pc[p] = "abort"
    /\ TakeTask(p)

\* Mutant: an abort that finds no task is reported all the same, as a
\* TurnAborted without a turn_id.
AbortAllNoTask_Reports(p) ==
    /\ pc[p] = "abort"
    /\ active.task = None
    /\ active' = NoTurn
    /\ aborted' = aborted \cup {None}
    /\ IF AfterAbort(p, FALSE) = "collect" THEN Goto(p, "collect") /\ UNCHANGED loc
                                           ELSE Return(p, loc[p].ret)
    /\ UNCHANGED <<queues, tasks, contLock, started, completed, fates, sent, used>>

\* No task: a reserved turn is dropped together with what it had queued.
AbortAllNoTask(p) ==
    /\ pc[p] = "abort"
    /\ active.task = None
    /\ active' = NoTurn
    /\ IF AfterAbort(p, FALSE) = "collect" THEN Goto(p, "collect") /\ UNCHANGED loc
                                           ELSE Return(p, loc[p].ret)
    /\ UNCHANGED <<queues, tasks, contLock, events, fates, sent, used>>

GuardianAbort ==
    /\ pc[Guardian] = "guard"
    /\ active.task = loc[Guardian].victim
    /\ TakeTask(Guardian)

GuardianTooLate ==
    /\ pc[Guardian] = "guard"
    /\ active.task # loc[Guardian].victim
    /\ Return(Guardian, "idle")
    /\ UNCHANGED <<active, queues, tasks, contLock, events, fates, sent, used>>

\* Mutant: handle.abort() is forgotten after the grace period.
AbortKill_NoAbort(p) ==
    /\ pc[p] = "wait"
    /\ Goto(p, "report")
    /\ UNCHANGED <<active, queues, loc, tasks, contLock, events, fates, sent, used>>

\* done.notified() or the 100 ms grace period, then handle.abort().  An
\* idealisation has the task dead at once: tokio drops it at its next await and
\* nobody joins it, so what it does up to there may come after the report.
AbortKill(p) ==
    LET v == loc[p].victim
    IN  /\ pc[p] = "wait"
        /\ pc' = [pc EXCEPT ![p] = "report",
                            ![v] = IF @ = "gone" THEN @ ELSE "dead"]
        /\ contLock' = IF contLock = v THEN -1 ELSE contLock
        /\ UNCHANGED <<active, queues, loc, tasks, events, fates, sent, used>>

\* Mutant: a task that stopped within the grace period is not reported.
AbortReport_OnlyIfKilled(p) ==
    /\ pc[p] = "report"
    /\ aborted' = IF pc[loc[p].victim] = "gone" THEN aborted
                  ELSE aborted \cup {loc[p].victim}
    /\ discarded' = discarded \cup Pending(loc[p].slot)
    /\ turnState' = [turnState EXCEPT ![loc[p].slot].pending = {}]
    /\ loc' = [loc EXCEPT ![p].victim = None, ![p].slot = None]
    /\ Goto(p, AfterAbort(p, TRUE))
    /\ UNCHANGED <<active, mailbox, tasks, contLock, started, completed, recorded,
                   refused, sent, used>>

\* TurnAborted is sent, then clear_pending empties the taken TurnState.
AbortReport(p) ==
    /\ pc[p] = "report"
    /\ aborted' = aborted \cup {loc[p].victim}
    /\ discarded' = discarded \cup Pending(loc[p].slot)
    /\ turnState' = [turnState EXCEPT ![loc[p].slot].pending = {}]
    /\ loc' = [loc EXCEPT ![p].victim = None, ![p].slot = None]
    /\ Goto(p, AfterAbort(p, TRUE))
    /\ UNCHANGED <<active, mailbox, tasks, contLock, started, completed, recorded,
                   refused, sent, used>>

-----------------------------------------------------------------------------
(* Steering and injection.                                                  *)

\* Mutant: any ActiveTurn can be steered, also one whose task is finishing.
CanSteer_AnyTurn == active.some

\* TaskKind::Regular covers the model turn and the standalone user-shell task.
CanSteer == active.task # None /\ kind[active.task] \in {"regular", "shell"}

\* extend_pending_input_and_accept_mailbox_delivery_for_turn_state
Steer(u) ==
    turnState' = [turnState EXCEPT ![active.slot] =
                    [pending |-> @.pending \cup {u}, phase |-> "CurrentTurn"]]

\* steer_input called from another thread (turn/steer); without a steerable
\* task the caller gets an Err.
ClientSteer(u) ==
    /\ u \in UserItems \ sent
    /\ sent' = sent \cup {u}
    /\ \/ CanSteer /\ Steer(u) /\ UNCHANGED refused
       \/ ~CanSteer /\ refused' = refused \cup {u} /\ UNCHANGED turnState
    /\ UNCHANGED <<active, mailbox, pc, loc, tasks, contLock, events, recorded,
                   discarded, used>>

\* inject_no_new_turn: any ActiveTurn will do, even one without a task.
Inject(i) ==
    /\ i \in InjectedItems \ sent
    /\ sent' = sent \cup {i}
    /\ \/ active.some /\ Extend(active.slot, {i}) /\ UNCHANGED recorded
       \/ ~active.some /\ recorded' = recorded \cup {i} /\ UNCHANGED turnState
    /\ UNCHANGED <<active, mailbox, pc, loc, tasks, contLock, events, refused,
                   discarded, used>>

(* The submission loop: one operation at a time.                            *)

LoopIdle == pc[Loop] = "idle"

\* Op::UserInput with a steerable task.
UserInputSteered(u) ==
    /\ LoopIdle /\ u \in UserItems \ (sent \cup RejectedPrompts) /\ CanSteer
    /\ Steer(u)
    /\ sent' = sent \cup {u}
    /\ UNCHANGED <<active, mailbox, pc, loc, tasks, contLock, events, fates, used>>

\* Mutant: spawn_task forgets abort_all_tasks(Replaced).
SpawnTask_NoAbort(k, items) ==
    /\ used.turns < MaxTurns
    /\ loc' = [loc EXCEPT ![Loop] = [NoLocals EXCEPT !.turn = used.turns + 1,
                                        !.kind = k, !.input = items]]
    /\ Goto(Loop, "collect")

\* The loop is about to run spawn_task for a new turn.
SpawnTask(k, items) ==
    /\ used.turns < MaxTurns
    /\ loc' = [loc EXCEPT ![Loop] = [NoLocals EXCEPT !.turn = used.turns + 1,
                                        !.kind = k, !.input = items]]
    /\ Goto(Loop, "abort")

\* Op::UserInput while no task runs: SteerInputError::NoActiveTurn.
UserInputSpawn(u) ==
    /\ LoopIdle /\ u \in UserItems \ (sent \cup RejectedPrompts)
    /\ active.task = None
    /\ SpawnTask("regular", {u})
    /\ used' = [used EXCEPT !.turns = @ + 1]
    /\ sent' = sent \cup {u}
    /\ UNCHANGED <<active, queues, tasks, contLock, events, fates>>

\* Op::UserInput whose settings are rejected, or ActiveTurnNotSteerable: the
\* client is sent an Error event.
UserInputRefused(u) ==
    /\ LoopIdle /\ u \in UserItems \ sent
    /\ u \in RejectedPrompts \/ (active.task # None /\ ~CanSteer)
    /\ refused' = refused \cup {u}
    /\ sent' = sent \cup {u}
    /\ UNCHANGED <<active, queues, pc, loc, tasks, contLock, events, recorded,
                   discarded, used>>

\* Op::Compact and Op::Review replace whatever runs; Op::RunUserShellCommand
\* starts a turn only when no task runs (else it joins the running turn, and
\* its output arrives through Inject).
OtherTask(k) ==
    /\ LoopIdle /\ used.others < MaxOtherTasks
    /\ k = "shell" => active.task = None
    /\ SpawnTask(k, {})
    /\ used' = [used EXCEPT !.turns = @ + 1, !.others = @ + 1]
    /\ UNCHANGED <<active, queues, tasks, contLock, events, fates, sent>>

\* Op::InterAgentCommunication
Mail(m) ==
    /\ LoopIdle /\ m \in Mails \ sent
    /\ mailbox' = mailbox \cup {m}
    /\ sent' = sent \cup {m}
    /\ IF m \in TriggerMails THEN Goto(Loop, "checkMail") ELSE UNCHANGED pc
    /\ UNCHANGED <<active, turnState, loc, tasks, contLock, events, fates, used>>

StopWith(next) ==
    /\ loc' = [loc EXCEPT ![Loop].interrupt = TRUE, ![Loop].ret = next]
    /\ Goto(Loop, "abort")

\* Op::Interrupt
Interrupt ==
    /\ LoopIdle /\ used.interrupts < MaxInterrupts
    /\ StopWith("idle")
    /\ used' = [used EXCEPT !.interrupts = @ + 1]
    /\ UNCHANGED <<active, queues, tasks, contLock, events, fates, sent>>

\* Op::Shutdown: shutdown_session_runtime, then the loop ends.
Shutdown ==
    /\ LoopIdle /\ AllowShutdown
    /\ StopWith("stopped")
    /\ UNCHANGED <<active, queues, tasks, contLock, events, fates, sent, used>>

\* The guardian's circuit breaker spawns an abort of the turn it reviewed.
GuardianDenial(t) ==
    /\ pc[Guardian] = "idle" /\ used.denials < MaxDenials
    /\ pc[t] = "sample" /\ active.task = t
    /\ loc' = [loc EXCEPT ![Guardian].victim = t, ![Guardian].interrupt = TRUE]
    /\ Goto(Guardian, "guard")
    /\ used' = [used EXCEPT !.denials = @ + 1]
    /\ UNCHANGED <<active, queues, tasks, contLock, events, fates, sent>>

\* CodexThread::continue_active_goal_if_idle
ContinueGoal ==
    /\ pc[Api] = "idle" /\ used.continues < MaxContinues
    /\ loc' = [loc EXCEPT ![Api].ret = "goalCheck"]
    /\ Goto(Api, "checkMail")
    /\ used' = [used EXCEPT !.continues = @ + 1]
    /\ UNCHANGED <<active, queues, tasks, contLock, events, fates, sent>>

-----------------------------------------------------------------------------
(* The tokio task of turn t.                                                *)

\* TurnStarted; a cancelled prewarm returns at once.
Begin(t) ==
    /\ pc[t] = "begin"
    /\ started' = started \cup {t}
    /\ \/ kind[t] = "regular" /\ Goto(t, "record")
       \/ kind[t] # "regular" /\ Goto(t, "work")
       \/ kind[t] = "regular" /\ t \in cancelled /\ Goto(t, "flush")
    /\ UNCHANGED <<active, queues, loc, tasks, contLock, completed, aborted, fates,
                   sent, used>>

\* Compact, review and user-shell tasks never look at the input queue.
Work(t) ==
    /\ pc[t] = "work"
    /\ Goto(t, "flush")
    /\ UNCHANGED <<active, queues, loc, tasks, contLock, events, fates, sent, used>>

\* run_turn up to its loop: the spawn input is recorded and sampled before any
\* pending input is drained.
Record(t) ==
    /\ pc[t] = "record"
    /\ RecordInputs(input[t])
    /\ input' = [input EXCEPT ![t] = {}]
    /\ Goto(t, CASE StopsTurn(input[t]) -> "recheck"
                 [] input[t] = {}       -> "drain"
                 [] OTHER               -> "sample")
    /\ UNCHANGED <<active, queues, loc, kind, home, cancelled, contLock, events,
                   discarded, sent, used>>

\* The earlier returns of run_turn: pre-sampling compaction failed, cancelled
\* while listing tools, a session-start hook stopped the turn.
RunTurnStopped(t) ==
    /\ pc[t] = "record"
    /\ used.samples[t] < MaxSamples
    /\ used' = [used EXCEPT !.samples[t] = @ + 1]
    /\ refused' = refused \cup input[t]
    /\ input' = [input EXCEPT ![t] = {}]
    /\ Goto(t, "recheck")
    /\ UNCHANGED <<active, queues, loc, kind, home, cancelled, contLock, events,
                   recorded, discarded, sent>>

\* get_pending_input in run_turn's loop: it reads whatever turn is active.
Drain(t) ==
    /\ pc[t] = "drain"
    /\ loc' = [loc EXCEPT ![t].carried = GetPendingInput]
    /\ TakePendingInput
    /\ Goto(t, "recordPending")
    /\ UNCHANGED <<active, tasks, contLock, events, fates, sent, used>>

\* run_hooks_and_record_inputs; when a hook blocks the input the turn stops.
RecordPending(t) ==
    /\ pc[t] = "recordPending"
    /\ RecordInputs(loc[t].carried)
    /\ Goto(t, IF StopsTurn(loc[t].carried) THEN "recheck" ELSE "sample")
    /\ loc' = [loc EXCEPT ![t].carried = {}]
    /\ UNCHANGED <<active, queues, tasks, contLock, events, discarded, sent,
                   used>>

\* defer_mailbox_delivery_to_next_turn / accept_mailbox_delivery_for_current_turn
DeferMail(t) ==
    turnState' = IF active.task = t /\ Pending(active.slot) = {}
                 THEN [turnState EXCEPT ![active.slot].phase = "NextTurn"]
                 ELSE turnState
AcceptMail(t) ==
    turnState' = IF active.task = t
                 THEN [turnState EXCEPT ![active.slot].phase = "CurrentTurn"]
                 ELSE turnState

\* A sampling request whose last item is a final answer; it needs a follow-up
\* when a tool call came before.
SampleAnswer(t, follow) ==
    /\ pc[t] = "sample"
    /\ follow => used.samples[t] < MaxSamples
    /\ used' = [used EXCEPT !.samples[t] = IF follow THEN @ + 1 ELSE @]
    /\ DeferMail(t)
    /\ loc' = [loc EXCEPT ![t].follow = follow]
    /\ Goto(t, "check")
    /\ UNCHANGED <<active, mailbox, tasks, contLock, events, recorded, refused,
                   discarded, sent>>

\* A sampling request whose last item is a tool call.
SampleTool(t) ==
    /\ pc[t] = "sample"
    /\ used.samples[t] < MaxSamples
    /\ used' = [used EXCEPT !.samples[t] = @ + 1]
    /\ AcceptMail(t)
    /\ loc' = [loc EXCEPT ![t].follow = TRUE]
    /\ Goto(t, "check")
    /\ UNCHANGED <<active, mailbox, tasks, contLock, events, recorded, refused,
                   discarded, sent>>

\* TurnAborted (the token is cancelled) or a request error: leave the loop.
\* (An invalid image that could be replaced only repeats the request.)
SampleError(t) ==
    /\ pc[t] = "sample"
    /\ Goto(t, "recheck")
    /\ UNCHANGED <<active, queues, loc, tasks, contLock, events, recorded, refused,
                   discarded, sent, used>>

\* After a request: follow up while the model or the queue asks for it.
CheckFollowUp(t) ==
    /\ pc[t] = "check"
    /\ loc[t].follow \/ HasPendingInput
    /\ \/ Goto(t, "drain")
       \/ loc[t].follow /\ Goto(t, "sample")  \* resumes after auto-compaction
       \/ Goto(t, "recheck")                  \* compaction failed, loop broken
    /\ loc' = [loc EXCEPT ![t].follow = FALSE]
    /\ UNCHANGED <<active, queues, tasks, contLock, events, fates, sent, used>>

\* Nothing asks for more: the turn ends unless a stop hook continues it.
CheckDone(t) ==
    /\ pc[t] = "check"
    /\ ~loc[t].follow /\ ~HasPendingInput
    /\ \/ Goto(t, "recheck") /\ UNCHANGED used
       \/ /\ used.samples[t] < MaxSamples
          /\ used' = [used EXCEPT !.samples[t] = @ + 1]
          /\ Goto(t, "drain")
    /\ UNCHANGED <<active, queues, loc, tasks, contLock, events, fates, sent>>

\* RegularTask::run: run_turn again, with no input, while input is pending.
Recheck(t) ==
    /\ pc[t] = "recheck"
    /\ Goto(t, IF HasPendingInput THEN "record" ELSE "flush")
    /\ UNCHANGED <<active, queues, loc, tasks, contLock, events, fates, sent, used>>

\* After flush_rollout: a cancelled task returns, any other one finishes.
Flush(t) ==
    /\ pc[t] = "flush"
    /\ Goto(t, IF t \in cancelled THEN "gone" ELSE "finTake")
    /\ UNCHANGED <<active, queues, loc, tasks, contLock, events, fates, sent, used>>

-----------------------------------------------------------------------------
(* on_task_finished.                                                        *)

\* active_turn.task.take(): the session's task, whichever turn it belongs to.
FinTake(t) ==
    /\ pc[t] = "finTake"
    /\ active.task # None
    /\ active' = [active EXCEPT !.task = None]
    /\ loc' = [loc EXCEPT ![t].slot = active.slot]
    /\ Goto(t, "finPending")
    /\ UNCHANGED <<queues, tasks, contLock, events, fates, sent, used>>

FinTakeNothing(t) ==
    /\ pc[t] = "finTake"
    /\ active.task = None
    /\ Return(t, "gone")
    /\ UNCHANGED <<active, queues, tasks, contLock, events, fates, sent, used>>

\* Mutant: input left in the TurnState is dropped when the task finishes.
FinPending_Drops(t) ==
    /\ pc[t] = "finPending"
    /\ turnState' = [turnState EXCEPT ![loc[t].slot].pending = {}]
    /\ Goto(t, "finComplete")
    /\ UNCHANGED <<active, mailbox, loc, tasks, contLock, events, fates, sent, used>>

\* take_pending_input_for_turn_state; what hooks let through is recorded.
FinPending(t) ==
    /\ pc[t] = "finPending"
    /\ turnState' = [turnState EXCEPT ![loc[t].slot].pending = {}]
    /\ RecordInputs(Pending(loc[t].slot))
    /\ Goto(t, "finComplete")
    /\ UNCHANGED <<active, mailbox, loc, tasks, contLock, events, discarded,
                   sent, used>>

FinComplete(t) ==
    /\ pc[t] = "finComplete"
    /\ completed' = completed \cup {t}
    /\ Goto(t, "finClear")
    /\ UNCHANGED <<active, queues, loc, tasks, contLock, started, aborted, fates, sent,
                   used>>

\* *active = None if the session still points to this TurnState without a task;
\* only then MaybeContinueIfIdle looks for more work.
FinClear(t) ==
    /\ pc[t] = "finClear"
    /\ ReservedWith(loc[t].slot)
    /\ active' = NoTurn
    /\ loc' = [loc EXCEPT ![t] = [NoLocals EXCEPT !.ret = "goalCheck"]]
    /\ Goto(t, "checkMail")
    /\ UNCHANGED <<queues, tasks, contLock, events, fates, sent, used>>

FinNotCleared(t) ==
    /\ pc[t] = "finClear"
    /\ ~ReservedWith(loc[t].slot)
    /\ Return(t, "gone")
    /\ UNCHANGED <<active, queues, tasks, contLock, events, fates, sent, used>>

\* emit_thread_idle_lifecycle_if_idle, the last thing a finishing task does.
IdleEmit(t) ==
    /\ pc[t] = "idleEmit"
    /\ Return(t, "gone")
    /\ UNCHANGED <<active, queues, tasks, contLock, events, fates, sent, used>>

-----------------------------------------------------------------------------
(* maybe_start_goal_continuation_turn, by a finishing task or the API.  The *)
(* goal store is outside this module: it may answer either way.             *)

AfterGoal(p) == IF p \in Turns THEN "idleEmit" ELSE "idle"

\* continuation_lock.acquire(), goal_continuation_candidate_if_active
GoalCheck(p) ==
    /\ pc[p] = "goalCheck" /\ contLock = -1
    /\ ~active.some /\ ~HasTriggerMail
    /\ \E g \in GoalItems \ sent : loc' = [loc EXCEPT ![p].carried = {g}]
    /\ contLock' = p
    /\ Goto(p, "goalReserve")
    /\ UNCHANGED <<active, queues, tasks, events, fates, sent, used>>

GoalNoCandidate(p) ==
    /\ pc[p] = "goalCheck" /\ contLock = -1
    /\ Return(p, AfterGoal(p))
    /\ UNCHANGED <<active, queues, tasks, contLock, events, fates, sent, used>>

GoalReserve(p) ==
    /\ pc[p] = "goalReserve"
    /\ ReserveSlot
    /\ used' = [used EXCEPT !.slots = @ + 1]
    /\ loc' = [loc EXCEPT ![p].slot = used.slots + 1]
    /\ Goto(p, "goalReread")
    /\ UNCHANGED <<queues, tasks, contLock, events, fates, sent>>

\* The session is busy, the reservation was taken away, or the goal changed.
\* clear_reserved_goal_continuation_turn frees the reservation if it stands.
GoalGiveUp(p) ==
    /\ \/ pc[p] = "goalReserve" /\ active.some
       \/ pc[p] = "goalReread"
       \/ pc[p] = "goalConfirm" /\ ~ReservedWith(loc[p].slot)
    /\ active' = IF pc[p] # "goalReserve" /\ ReservedWith(loc[p].slot)
                 THEN NoTurn ELSE active
    /\ contLock' = -1
    /\ Return(p, AfterGoal(p))
    /\ UNCHANGED <<queues, tasks, events, fates, sent, used>>

\* The goal is still current: its prompt is queued in the reserved turn.
GoalReread(p) ==
    /\ pc[p] = "goalReread"
    /\ sent' = sent \cup loc[p].carried
    /\ Extend(loc[p].slot, loc[p].carried)
    /\ loc' = [loc EXCEPT ![p].carried = {}]
    /\ Goto(p, "goalConfirm")
    /\ UNCHANGED <<active, mailbox, tasks, contLock, events, fates, used>>

\* still_reserved: start_task
GoalConfirm(p) ==
    /\ pc[p] = "goalConfirm"
    /\ ReservedWith(loc[p].slot)
    /\ used.turns < MaxTurns
    /\ used' = [used EXCEPT !.turns = @ + 1]
    /\ loc' = [loc EXCEPT ![p] = [NoLocals EXCEPT !.turn = used.turns + 1,
                                                  !.ret = AfterGoal(p)]]
    /\ Goto(p, "collect")
    /\ UNCHANGED <<active, queues, tasks, contLock, events, fates, sent>>

-----------------------------------------------------------------------------
StartStep(p) ==
    \/ Collect(p) \/ Attach(p) \/ Install(p)
    \/ CheckMail(p) \/ Reserve(p) \/ ReserveTooLate(p)

GoalStep(p) ==
    \/ GoalCheck(p) \/ GoalNoCandidate(p) \/ GoalReserve(p) \/ GoalGiveUp(p)
    \/ GoalReread(p) \/ GoalConfirm(p)

AbortStep(p) == AbortKill(p) \/ AbortReport(p)

\* What the submission loop does once it has accepted an operation.
LoopStep == AbortAll(Loop) \/ AbortAllNoTask(Loop) \/ AbortStep(Loop) \/ StartStep(Loop)

GuardianStep ==
    GuardianAbort \/ GuardianTooLate \/ AbortStep(Guardian) \/ StartStep(Guardian)

ApiStep == StartStep(Api) \/ GoalStep(Api)

TaskStep(t) ==
    \/ Begin(t) \/ Work(t) \/ Record(t) \/ RunTurnStopped(t)
    \/ Drain(t) \/ RecordPending(t)
    \/ SampleTool(t) \/ SampleError(t)
    \/ \E follow \in BOOLEAN : SampleAnswer(t, follow)
    \/ CheckFollowUp(t) \/ CheckDone(t) \/ Recheck(t) \/ Flush(t)
    \/ FinTake(t) \/ FinTakeNothing(t) \/ FinPending(t) \/ FinComplete(t)
    \/ FinClear(t) \/ FinNotCleared(t) \/ IdleEmit(t)
    \/ StartStep(t) \/ GoalStep(t)

\* What a client, another agent or a timer hands to the session.
Environment ==
    \/ \E u \in UserItems : \/ UserInputSteered(u) \/ UserInputSpawn(u)
                            \/ UserInputRefused(u) \/ ClientSteer(u)
    \/ \E m \in Mails : Mail(m)
    \/ \E i \in InjectedItems : Inject(i)
    \/ \E k \in {"shell", "other"} : OtherTask(k)
    \/ \E t \in Turns : GuardianDenial(t)
    \/ Interrupt \/ Shutdown \/ ContinueGoal

\* Nothing runs and nothing is on its way: the session waits for a client.
AtRest == {"idle", "stopped", "off", "gone", "dead"}
Quiet == \A p \in Procs : pc[p] \in AtRest
Waiting == Quiet /\ UNCHANGED vars

Next ==
    \/ Environment \/ LoopStep \/ GuardianStep \/ ApiStep
    \/ \E t \in Turns : TaskStep(t)
    \/ Waiting

Spec == Init /\ [][Next]_vars

\* tokio polls every ready task; model requests, hooks and the grace period all
\* end; the submission loop finishes what it accepted.  Nothing is assumed of
\* the environment.
Fairness ==
    /\ WF_vars(LoopStep) /\ WF_vars(GuardianStep) /\ WF_vars(ApiStep)
    /\ \A t \in Turns : WF_vars(TaskStep(t))

LiveSpec == Spec /\ Fairness

-----------------------------------------------------------------------------
(* Properties.                                                              *)

ActiveTurns ==
    {NoTurn} \cup [some : {TRUE}, task : Turns \cup {None}, slot : Slots]
TurnStates == [pending : SUBSET Items, phase : {"CurrentTurn", "NextTurn"}]
Locals == [turn : Turns \cup {None}, kind : {"regular", "shell", "other"},
           input : SUBSET Items, carried : SUBSET Items,
           slot : Slots \cup {None}, victim : Turns \cup {None},
           interrupt : BOOLEAN, follow : BOOLEAN, ret : PCs]
Usage == [turns : 0 .. MaxTurns, slots : 0 .. MaxSlots,
          interrupts : 0 .. MaxInterrupts, others : 0 .. MaxOtherTasks,
          denials : 0 .. MaxDenials, continues : 0 .. MaxContinues,
          samples : [Turns -> 0 .. MaxSamples]]

\* Type correctness of the session's shared state and of every process; an
\* ActiveTurn that is None has neither a task nor a TurnState, and a turn event
\* names a turn, though the turn_id of TurnAborted is optional.
TypeOK ==
    /\ active \in ActiveTurns
    /\ turnState \in [Slots -> TurnStates]
    /\ mailbox \in SUBSET Mails
    /\ pc \in [Procs -> PCs]
    /\ loc \in [Procs -> Locals]
    /\ kind \in [Turns -> {"regular", "shell", "other"}]
    /\ input \in [Turns -> SUBSET Items]
    /\ cancelled \in SUBSET Turns
    /\ contLock \in Procs \cup {-1}
    /\ started \in SUBSET Turns /\ completed \in SUBSET Turns
    /\ aborted \in SUBSET Turns
    /\ recorded \in SUBSET Items
    /\ refused \in SUBSET Items /\ discarded \in SUBSET Items
    /\ sent \in SUBSET Items
    /\ home \in [Turns -> Slots \cup {None}]
    /\ used \in Usage

\* debug_assert!(turn.task.is_none()) in start_task: nobody installs a turn over
\* a task that is still registered.
InstallsIntoFreeTurn ==
    \A p \in Procs : pc[p] \in {"attach", "install"} => active.task = None

\* A turn is reported to the client as completed or as aborted, never as both,
\* whatever races between its own finish and an abort.
OneTerminalEvent == completed \cap aborted = {}

\* Once TurnAborted has been sent, the turn's task runs no further step.
AbortedTurnIsDead == \A t \in aborted : pc[t] \in {"dead", "gone"}

HeldSlots ==
    {s \in Slots : \/ active.some /\ active.slot = s
                   \/ \E p \in Procs : /\ pc[p] \in {"wait", "report", "finPending"}
                                       /\ loc[p].slot = s}

LiveProcs == {p \in Procs : pc[p] # "dead"}

\* Items some process or queue still owns.
InFlight ==
    mailbox \cup (UNION {Pending(s) : s \in HeldSlots})
            \cup (UNION {loc[p].carried \cup loc[p].input : p \in LiveProcs})
            \cup (UNION {input[t] : t \in Turns \cap LiveProcs})

\* Items that went down with a turn whose abort the client is told of.
GoneWithAbort ==
    discarded \cup UNION {input[t] \cup loc[t].carried : t \in cancelled}

\* Nothing handed to the session vanishes: it is in the history, refused with
\* an error, still queued, or part of a turn reported as aborted.
NothingLost == sent \subseteq recorded \cup refused \cup InFlight \cup GoneWithAbort

\* No item reaches the history twice: once recorded, no queue still holds it.
RecordedOnce ==
    recorded \cap (InFlight \cup UNION {Pending(s) : s \in Slots}) = {}

\* MailboxDeliveryPhase::NextTurn: a turn that showed its final answer leaves
\* the mailbox alone.  (A cancelled one may not: in the grace period of its abort
\* the session has no ActiveTurn, and get_pending_input then drains the mailbox.)
MailWaitsForNextTurn ==
    [][\A t \in Turns :
          /\ Drain(t) /\ home[t] # None /\ t \notin cancelled
          /\ turnState[home[t]].phase = "NextTurn"
          => mailbox' = mailbox]_vars

\* Every turn announced by TurnStarted ends with TurnComplete or TurnAborted.
EveryTurnEnds ==
    \A t \in Turns : (t \in started) ~> (t \in completed \cup aborted)
=============================================================================
