------------------------ MODULE MemoryConsolidation ------------------------
(***************************************************************************)
(* Phase 2 of the memory pipeline: at its start a session consolidates the *)
(* memories extracted from past threads in the memory workspace, a         *)
(* directory with a git baseline, through an agent it spawns there;        *)
(* memories/write/src/phase2.rs over state/src/runtime/memories.rs.        *)
(* Sessions of several processes share two databases and the directory and *)
(* exclude one another by one job row with an ownership token and a lease. *)
(*                                                                         *)
(* A transaction is one step, and so is a query outside one.  Time is      *)
(* abstracted to what the queries ask of it: whether the lease is live, a  *)
(* backoff waits, a cooldown lasts.  A memory is the source_updated_at of  *)
(* the thread it was extracted from, 0 for none.  A worker holds at most   *)
(* one claim, so its name stands for the token.  The job rows of phase 1   *)
(* are abstracted away: an extraction lands at any time.                   *)
(***************************************************************************)
EXTENDS Integers

CONSTANTS
    Threads,     \* threads of past sessions
    Workers,     \* sessions that run the startup pipeline
    UserModes,   \* modes the user sets
    MaxSource,   \* bound: values of source_updated_at
    MaxFaults    \* bound: failures, crashes, a lease lost at work, resets

ASSUME BoundsAssumption == MaxSource \in Nat /\ MaxFaults \in Nat
ASSUME UserModesAssumption == UserModes \subseteq {"enabled", "disabled"}
ASSUME NoWorkerIsNone == "none" \notin Workers

VARIABLES
    mode,       \* threads.memory_mode, or the row is gone
    rollout,    \* the memory mode in the thread's rollout; never "polluted"
    caller,     \* the pollution or deletion a thread is under
    extracted,  \* the newest source whose extraction landed
    outputs,    \* stage1_outputs: the source and selected_for_phase2
    global,     \* the jobs row of kind memory_consolidate_global
    pc,         \* where a worker is
    selection,  \* its phase-2 input
    inputs,     \* the workspace: the summaries of the threads
    memory,     \* the workspace: what MEMORY.md was consolidated from
    git,        \* the workspace has a baseline
    headInputs, headMemory,  \* the baseline
    resetting,  \* a reset of all memories has cleared the database only
    clean,      \* nobody claimed or reset phase 2 under a worker's hands (history variable)
    faults

threads == <<mode, rollout, caller, extracted>>
files == <<inputs, memory>>
head == <<git, headInputs, headMemory>>
misc == <<resetting, clean, faults>>
vars == <<threads, outputs, global, pc, selection, files, head, misc>>

Source == 0..MaxSource
Modes == {"enabled", "disabled"}  \* ThreadMemoryMode
Nothing == [t \in Threads |-> 0]
NoOutput == [source |-> 0, selected |-> FALSE]
NoGlobal == [status |-> "none", owner |-> "none", lease |-> FALSE, backoff |-> FALSE,
             cooldown |-> FALSE]

Init ==
    /\ rollout \in [Threads -> Modes] /\ mode = rollout
    /\ caller = [t \in Threads |-> "none"]
    /\ extracted = Nothing
    /\ outputs = [t \in Threads |-> NoOutput]
    /\ global = NoGlobal
    /\ pc = [w \in Workers |-> "idle"]
    /\ selection = [w \in Workers |-> Nothing]
    /\ inputs = Nothing /\ memory = Nothing
    /\ git = FALSE /\ headInputs = Nothing /\ headMemory = Nothing
    /\ resetting = FALSE /\ clean = TRUE /\ faults = 0

Goto(w, place) == pc' = [pc EXCEPT ![w] = place]
Leave(w) == Goto(w, "idle") /\ selection' = [selection EXCEPT ![w] = Nothing]
Fault == faults < MaxFaults /\ faults' = faults + 1

(***************************************************************************)
(* The job row.                                                            *)
(***************************************************************************)
OwnsGlobal(w) == global.status = "running" /\ global.owner = w

\* enqueue_global_consolidation_with_executor: a running row keeps its status
\* and its backoff; finished_at, and so the cooldown, stays.
Enqueued ==
    IF global.status = "running" THEN global
    ELSE [global EXCEPT !.status = "pending", !.backoff = FALSE]

\* Mutant: only a row that was enqueued is claimed.
GlobalClaimable_OnlyPending == global.status = "pending" /\ ~global.cooldown

\* try_claim_global_phase2_job: what was enqueued is not asked for, the
\* workspace diff tells whether there is anything to do.
GlobalClaimable ==
    /\ ~global.backoff
    /\ ~(global.status = "running" /\ global.lease)
    /\ ~global.cooldown

(***************************************************************************)
(* What happens to the memory of a thread outside phase 2: an extraction   *)
(* with or without a result, retention,                                    *)
(* mark_thread_memory_mode_polluted (a read, an update in the other        *)
(* database, then the enqueue), delete_thread (the row, then               *)
(* delete_thread_memory), the user's thread/memoryMode/set (the row, then  *)
(* the rollout and a reconciliation), and reconciliation with the rollout. *)
(***************************************************************************)
\* mark_stage1_job_succeeded; the mark of the last consolidation stays.
Extracted(t) ==
    /\ extracted[t] < MaxSource
    /\ extracted' = [extracted EXCEPT ![t] = @ + 1]
    /\ outputs' = [outputs EXCEPT ![t].source = extracted[t] + 1]
    /\ global' = Enqueued
    /\ UNCHANGED <<mode, rollout, caller, pc, selection, files, head, misc>>

\* mark_stage1_job_succeeded_no_output.
ExtractedNothing(t) ==
    /\ extracted[t] < MaxSource
    /\ extracted' = [extracted EXCEPT ![t] = @ + 1]
    /\ outputs' = [outputs EXCEPT ![t] = NoOutput]
    /\ global' = IF outputs[t].source # 0 THEN Enqueued ELSE global
    /\ UNCHANGED <<mode, rollout, caller, pc, selection, files, head, misc>>

\* prune_stage1_outputs_for_retention; the age is abstracted away.
Prune(t) ==
    /\ outputs[t].source # 0 /\ ~outputs[t].selected
    /\ outputs' = [outputs EXCEPT ![t] = NoOutput]
    /\ UNCHANGED <<threads, global, pc, selection, files, head, misc>>

ReadSelected(t) ==
    /\ caller[t] = "none"
    /\ caller' = [caller EXCEPT ![t] = IF outputs[t].selected THEN "selected" ELSE "unselected"]
    /\ UNCHANGED <<mode, rollout, extracted, outputs, global, pc, selection, files, head, misc>>

\* Only the row: the rollout is not told.
SetPolluted(t) ==
    /\ caller[t] \in {"selected", "unselected"}
    /\ mode' = [mode EXCEPT ![t] = IF @ = "deleted" THEN @ ELSE "polluted"]
    /\ caller' = [caller EXCEPT ![t] = IF @ = "selected" THEN "enqueue" ELSE "none"]
    /\ UNCHANGED <<rollout, extracted, outputs, global, pc, selection, files, head, misc>>

EnqueueForgetting(t) ==
    /\ caller[t] = "enqueue"
    /\ caller' = [caller EXCEPT ![t] = "none"]
    /\ global' = Enqueued
    /\ UNCHANGED <<mode, rollout, extracted, outputs, pc, selection, files, head, misc>>

DeleteThread(t) ==
    /\ caller[t] = "none"
    /\ mode' = [mode EXCEPT ![t] = "deleted"]
    /\ caller' = [caller EXCEPT ![t] = "deleting"]
    /\ UNCHANGED <<rollout, extracted, outputs, global, pc, selection, files, head, misc>>

DeleteThreadMemory(t) ==
    /\ caller[t] = "deleting"
    /\ caller' = [caller EXCEPT ![t] = "none"]
    /\ outputs' = [outputs EXCEPT ![t] = NoOutput]
    /\ global' = IF outputs[t].selected THEN Enqueued ELSE global
    /\ UNCHANGED <<mode, rollout, extracted, pc, selection, files, head, misc>>

\* The row, which a deleted thread gets again (apply_metadata_update), then a
\* SessionMeta in the rollout (apply_thread_memory_mode) and a reconciliation.
\* Stopped or failed before the append it has changed the row only; done again
\* from there it is the second half, so one step has both.
SetMemoryMode(t, m) ==
    /\ mode' = [mode EXCEPT ![t] = m]
    /\ rollout' \in {rollout, [rollout EXCEPT ![t] = m]}
    /\ UNCHANGED <<caller, extracted, outputs, global, pc, selection, files, head, misc>>

\* reconcile_rollout, by a search of the threads, an update of the metadata or
\* the backfill: the row, inserted if it is gone, gets the mode of the rollout.
\* Reading the file and writing the row are one step.
Reconcile(t) ==
    /\ mode' = [mode EXCEPT ![t] = rollout[t]]
    /\ UNCHANGED <<rollout, caller, extracted, outputs, global, pc, selection, files, head, misc>>

(***************************************************************************)
(* Phase 2.                                                                *)
(***************************************************************************)
AtWork == {"select", "rows", "sync", "agent", "reset", "succeed"}
Undisturbed == \A w \in Workers : pc[w] \notin AtWork

\* start_memories_startup_task, come to phase 2.
Startup(w) ==
    /\ pc[w] = "idle"
    /\ Goto(w, "phase2")
    /\ UNCHANGED <<threads, outputs, global, selection, files, head, misc>>

ClaimGlobal(w) ==
    /\ pc[w] = "phase2"
    /\ IF GlobalClaimable
       THEN /\ global' = [global EXCEPT !.status = "running", !.owner = w, !.lease = TRUE]
            /\ clean' = (clean /\ Undisturbed)
            /\ Goto(w, "select")
       ELSE Goto(w, "idle") /\ UNCHANGED <<global, clean>>
    /\ UNCHANGED <<threads, outputs, selection, files, head, resetting, faults>>

\* prepare_memory_workspace makes a missing repository from what is there; then
\* get_phase2_input_selection reads the keys of some enabled threads with an
\* output (rank, age and the limit n are abstracted away) ...
Consolidable(t) == mode[t] = "enabled" /\ outputs[t].source # 0

SelectKeys(w) ==
    /\ pc[w] = "select"
    /\ \E keys \in SUBSET {t \in Threads : Consolidable(t)} :
          selection' = [selection EXCEPT ![w] =
             [t \in Threads |-> IF t \in keys THEN outputs[t].source ELSE 0]]
    /\ git' = TRUE
    /\ headInputs' = IF git THEN headInputs ELSE inputs
    /\ headMemory' = IF git THEN headMemory ELSE memory
    /\ Goto(w, "rows")
    /\ UNCHANGED <<threads, outputs, global, files, misc>>

\* ... then the rows that still have that source and an enabled thread.
SelectRows(w) ==
    /\ pc[w] = "rows"
    /\ selection' = [selection EXCEPT ![w] = [t \in Threads |->
          IF Consolidable(t) /\ outputs[t].source = selection[w][t] THEN selection[w][t] ELSE 0]]
    /\ Goto(w, "sync")
    /\ UNCHANGED <<threads, outputs, global, files, head, misc>>

\* Mutant: the inputs are committed before the agent has seen them.
SyncAndDiff_CommitsInputs(w) ==
    /\ pc[w] = "sync" /\ git
    /\ inputs' = selection[w] /\ headInputs' = selection[w]
    /\ Goto(w, IF selection[w] = headInputs /\ memory = headMemory THEN "succeed" ELSE "agent")
    /\ UNCHANGED <<threads, outputs, global, selection, memory, git, headMemory, misc>>

\* Mutant: the diff is of the inputs only.
SyncAndDiff_InputsOnly(w) ==
    /\ pc[w] = "sync" /\ git
    /\ inputs' = selection[w]
    /\ Goto(w, IF selection[w] = headInputs THEN "succeed" ELSE "agent")
    /\ UNCHANGED <<threads, outputs, global, selection, memory, head, misc>>

\* sync_phase2_workspace_inputs; then memory_workspace_diff decides whether the
\* agent runs.  Without a repository it is an error, see LostOrNoGit.
SyncAndDiff(w) ==
    /\ pc[w] = "sync" /\ git
    /\ inputs' = selection[w]
    /\ Goto(w, IF selection[w] = headInputs /\ memory = headMemory THEN "succeed" ELSE "agent")
    /\ UNCHANGED <<threads, outputs, global, selection, memory, head, misc>>

Heartbeat(w) ==
    /\ pc[w] = "agent" /\ OwnsGlobal(w)
    /\ global' = [global EXCEPT !.lease = TRUE]
    /\ UNCHANGED <<threads, outputs, pc, selection, files, head, misc>>

\* "Do not reset the workspace baseline if we lost the lock."
AgentCompletes(w) ==
    /\ pc[w] = "agent"
    /\ memory' = inputs
    /\ IF OwnsGlobal(w)
       THEN global' = [global EXCEPT !.lease = TRUE] /\ Goto(w, "reset") /\ UNCHANGED selection
       ELSE Leave(w) /\ UNCHANGED global
    /\ UNCHANGED <<threads, outputs, inputs, head, misc>>

\* reset_memory_workspace_baseline: Interrupted has it stop half way.
ResetBaseline(w) ==
    /\ pc[w] = "reset"
    /\ git' = TRUE /\ headInputs' = inputs /\ headMemory' = memory
    /\ Goto(w, "succeed")
    /\ UNCHANGED <<threads, outputs, global, selection, files, misc>>

\* mark_global_phase2_job_succeeded marks exactly the snapshots it was given.
Phase2Succeeded(w) ==
    /\ pc[w] = "succeed"
    /\ IF OwnsGlobal(w)
       THEN /\ global' = [global EXCEPT !.status = "done", !.lease = FALSE, !.cooldown = TRUE]
            /\ outputs' = [t \in Threads |-> [outputs[t] EXCEPT !.selected =
                  outputs[t].source # 0 /\ outputs[t].source = selection[w][t]]]
       ELSE UNCHANGED <<global, outputs>>
    /\ Leave(w)
    /\ UNCHANGED <<threads, files, head, misc>>

\* Mutant: a status no query knows.
FailedGlobal_Status(w) ==
    IF OwnsGlobal(w)
    THEN [global EXCEPT !.status = "failed", !.lease = FALSE, !.backoff = TRUE]
    ELSE global

\* job::failed: the second, unowned attempt finds no running row without an owner.
FailedGlobal(w) ==
    IF OwnsGlobal(w)
    THEN [global EXCEPT !.status = "error", !.lease = FALSE, !.backoff = TRUE]
    ELSE global

\* What was being written when it stopped: a part of it.
Partly(old, new) ==
    {[t \in Threads |-> IF t \in part THEN new[t] ELSE old[t]] : part \in SUBSET Threads}

Interrupted(w) ==
    /\ inputs' \in IF pc[w] = "sync" THEN Partly(inputs, selection[w]) ELSE {inputs}
    /\ memory' \in IF pc[w] = "agent" THEN Partly(memory, inputs) ELSE {memory}
    /\ git' \in IF pc[w] = "reset" THEN {git, FALSE} ELSE {git}
    /\ UNCHANGED <<headInputs, headMemory>>

Phase2Fails(w) ==
    /\ global' = FailedGlobal(w)
    /\ Interrupted(w)
    /\ Leave(w)
    /\ UNCHANGED <<threads, outputs, resetting, clean>>

Phase2Failed(w) == pc[w] \in AtWork \ {"succeed"} /\ Fault /\ Phase2Fails(w)

\* A heartbeat that finds the claim lost, or a diff without a repository.
LostOrNoGit(w) ==
    /\ \/ pc[w] = "agent" /\ ~OwnsGlobal(w)
       \/ pc[w] = "sync" /\ ~git
    /\ Phase2Fails(w)
    /\ UNCHANGED faults

(***************************************************************************)
(* Time, crashes, and the reset of all memories: clear_memory_data, then   *)
(* clear_memory_roots_contents.                                            *)
(***************************************************************************)
\* A lease runs out when its owner is gone, and as a fault when it is late.
GlobalLeaseExpires ==
    /\ global.status = "running" /\ global.lease
    /\ global' = [global EXCEPT !.lease = FALSE]
    /\ IF pc[global.owner] \in AtWork THEN Fault ELSE UNCHANGED faults
    /\ UNCHANGED <<threads, outputs, pc, selection, files, head, resetting, clean>>

GlobalWaitEnds ==
    /\ global.backoff \/ global.cooldown
    /\ global' = [global EXCEPT !.backoff = FALSE, !.cooldown = FALSE]
    /\ UNCHANGED <<threads, outputs, pc, selection, files, head, misc>>

Crash(w) ==
    /\ pc[w] # "idle" /\ Fault
    /\ Interrupted(w)
    /\ Leave(w)
    /\ UNCHANGED <<threads, outputs, global, resetting, clean>>

ClearMemoryData ==
    /\ ~resetting /\ Fault
    /\ resetting' = TRUE
    /\ outputs' = [t \in Threads |-> NoOutput]
    /\ global' = NoGlobal
    /\ clean' = (clean /\ Undisturbed)
    /\ UNCHANGED <<threads, pc, selection, files, head>>

ClearMemoryRoot ==
    /\ resetting /\ resetting' = FALSE
    /\ inputs' = Nothing /\ memory' = Nothing /\ git' = FALSE
    /\ clean' = (clean /\ Undisturbed)
    /\ UNCHANGED <<threads, outputs, global, pc, selection, headInputs, headMemory, faults>>

Phase2Step(w) ==
    \/ ClaimGlobal(w) \/ SelectKeys(w) \/ SelectRows(w) \/ SyncAndDiff(w)
    \/ AgentCompletes(w) \/ ResetBaseline(w) \/ Phase2Succeeded(w)

ThreadStep(t) == SetPolluted(t) \/ EnqueueForgetting(t) \/ DeleteThreadMemory(t)

Next ==
    \/ \E t \in Threads :
          \/ Extracted(t) \/ ExtractedNothing(t) \/ Prune(t)
          \/ ReadSelected(t) \/ DeleteThread(t) \/ ThreadStep(t)
          \/ Reconcile(t) \/ \E m \in UserModes : SetMemoryMode(t, m)
    \/ \E w \in Workers :
          Startup(w) \/ Phase2Step(w) \/ Heartbeat(w) \/ Phase2Failed(w) \/ LostOrNoGit(w) \/ Crash(w)
    \/ GlobalLeaseExpires \/ GlobalWaitEnds \/ ClearMemoryData \/ ClearMemoryRoot

\* Sessions keep being started, a worker that has not failed goes on, and
\* time passes.
Fairness ==
    /\ \A w \in Workers :
          /\ WF_vars(Startup(w)) /\ WF_vars(Phase2Step(w))
          /\ WF_vars(LostOrNoGit(w))
    /\ \A t \in Threads : WF_vars(ThreadStep(t))
    /\ WF_vars(GlobalLeaseExpires) /\ WF_vars(GlobalWaitEnds)

Spec == Init /\ [][Next]_vars
FairSpec == Spec /\ Fairness

(***************************************************************************)
(* Properties.                                                             *)
(***************************************************************************)
\* The values the rows, the workers and the workspace can have.
TypeOK ==
    /\ mode \in [Threads -> Modes \union {"polluted", "deleted"}]
    /\ rollout \in [Threads -> Modes]
    /\ caller \in [Threads -> {"none", "selected", "unselected", "enqueue", "deleting"}]
    /\ extracted \in [Threads -> Source]
    /\ outputs \in [Threads -> [source : Source, selected : BOOLEAN]]
    /\ global \in [status : {"none", "pending", "running", "error", "done"},
                   owner : Workers \union {"none"}, lease : BOOLEAN, backoff : BOOLEAN,
                   cooldown : BOOLEAN]
    /\ pc \in [Workers -> {"idle", "phase2"} \union AtWork]
    /\ selection \in [Workers -> [Threads -> Source]]
    /\ {inputs, memory, headInputs, headMemory} \subseteq [Threads -> Source]
    /\ {git, resetting, clean} \subseteq BOOLEAN /\ faults \in 0..MaxFaults

\* The git baseline is a consolidated workspace: since phase 2 takes a clean
\* diff for "nothing to do", inputs committed before an agent has consolidated
\* them would never reach MEMORY.md.  Crashes and failures at every step of
\* phase2::run included, as long as nobody took the claim from a worker at work.
BaselineIsConsolidated == clean /\ git => headMemory = headInputs

\* What a run is about to mark as its selection is what MEMORY.md was
\* consolidated from, also when a clean diff let it skip the agent and an
\* earlier agent failed half way (mark_global_phase2_job_succeeded).
MarkedIsConsolidated ==
    \A w \in Workers : clean /\ pc[w] = "succeed" => memory = selection[w]

\* A thread that stays out of the enabled mode (polluted, disabled or deleted,
\* and no reconciliation or user brings it back) leaves the consolidated memory
\* for good (mark_thread_memory_mode_polluted, delete_thread_memory).
PollutedIsForgotten ==
    \A t \in Threads :
       <>[](mode[t] # "enabled") => (<>[](memory[t] = 0) \/ <>~clean)

\* A thread that met external context leaves the memory for good if the user
\* sets no mode (UserModes is empty), whatever else is done to its metadata
\* (disable_on_external_context).  The code violates it: the mark is only in
\* the row, and reconcile_rollout puts the rollout's mode over it.
PollutionIsKept ==
    \A t \in Threads : mode[t] = "polluted" ~> ([](memory[t] = 0) \/ ~clean)

=============================================================================
