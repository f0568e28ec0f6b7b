---------------------------- MODULE ProcessStore ----------------------------
(***************************************************************************)
(* The process store of unified exec, core/src/unified_exec: exec_command  *)
(* starts a process under an id it reserved, keeps it in the store when it *)
(* outlives the call, and write_stdin reaches it there by its id.  Calls   *)
(* of exec_command run side by side, write_stdin runs alone (the tool      *)
(* runtime's lock), terminate_all_processes comes from the submission loop *)
(* at any time, and an interrupted turn kills a call wherever it waits.    *)
(*                                                                         *)
(* A process belongs to the command that started it and has its name.      *)
(* Output, sandboxing and the texts of errors are abstracted away.         *)
(***************************************************************************)
EXTENDS Integers, FiniteSets

CONSTANTS
    Commands,      \* the calls of exec_command
    Ids,           \* process ids: 1_000..100_000 in the code, drawn at random
    MaxProcesses,  \* MAX_UNIFIED_EXEC_PROCESSES, 64 in the code
    Protected,     \* how many recently used processes are not pruned, 8 in the code
    MaxSweeps,     \* bound: calls of terminate_all_processes
    MaxWrites,     \* bound: calls of write_stdin
    MaxKills       \* bound: calls of exec_command killed

ASSUME LimitsAssumption ==
    /\ MaxProcesses \in Nat /\ Protected \in Nat /\ Protected < MaxProcesses
    /\ {MaxSweeps, MaxWrites, MaxKills} \subseteq Nat
ASSUME IdsAreNoMarks == "none" \notin Ids /\ "none" \notin Commands

VARIABLES
    pc,         \* where a call of exec_command is
    id,         \* the id it reserved
    proc,       \* its process
    watch,      \* commands whose exit watcher waits
    ends,       \* ExecCommandEnd events of a command
    reply,      \* whose process the answer of exec_command says is alive
    processes,  \* ProcessStore::processes: the commands stored under the ids
    reserved,   \* ProcessStore::reserved_process_ids
    used,       \* for stored commands and those to store, the ones used more recently
    pruned,     \* the entry a call has pruned and not yet terminated
    sweeping,   \* entries terminate_all_processes has drained and not yet terminated
    writing,    \* the id and the process write_stdin is at
    unreserved, \* commands whose reservation was cleared under them (history variable)
    lost,       \* processes a killed call had pruned or not yet stored (history variable)
    sweeps, writes, kills

vars == <<pc, id, proc, watch, ends, reply, processes, reserved, used, pruned, sweeping,
          writing, unreserved, lost, sweeps, writes, kills>>
store == <<processes, reserved>>
ghosts == <<unreserved, lost>>
bounds == <<sweeps, writes, kills>>

InFlight == {"allocated", "begun", "storing", "cleaning", "yielding", "short"}
Idle == <<"none", "none">>
Stored == {processes[i] : i \in Ids} \ {"none"}

Init ==
    /\ pc = [c \in Commands |-> "idle"]
    /\ id = [c \in Commands |-> "none"]
    /\ proc = [c \in Commands |-> "none"]
    /\ watch = {} /\ ends = [c \in Commands |-> 0]
    /\ reply = [c \in Commands |-> "none"]
    /\ processes = [i \in Ids |-> "none"] /\ reserved = {}
    /\ used = [c \in Commands |-> {}]
    /\ pruned = [c \in Commands |-> "none"]
    /\ sweeping = {} /\ writing = Idle
    /\ unreserved = {} /\ lost = {}
    /\ sweeps = 0 /\ writes = 0 /\ kills = 0
-----------------------------------------------------------------------------
(* The store *)

\* ProcessStore::remove
RemoveEntry(i) ==
    /\ processes' = [processes EXCEPT ![i] = "none"]
    /\ reserved' = reserved \ {i}

ToStore == {c \in Commands : pc[c] \in {"begun", "storing"}}

\* last_used of c is now, and of interest among S.
Use(c, S) == used' = [d \in Commands |-> IF d \in S \ {c} THEN (used[d] \cap S) \cup {c} ELSE {}]

LeastRecentlyUsed(S) == {c \in S : S \ {c} \subseteq used[c]}

\* process_id_to_prune_from_meta: the least recently used unprotected process,
\* an exited one before a live one.
ProcessIdToPrune(S) ==
    LET open == {c \in S : Cardinality(used[c] \cap S) >= Protected}
        exited == {c \in open : proc[c] = "exited"}
    IN LeastRecentlyUsed(IF exited # {} THEN exited ELSE open)

\* Mutant: the limit is checked against what the store held before.
ToPrune_OffByOne == IF Cardinality(Stored) <= MaxProcesses THEN {} ELSE ProcessIdToPrune(Stored)

\* prune_processes_if_needed: the processes to remove, at most one.
ToPrune == IF Cardinality(Stored) < MaxProcesses THEN {} ELSE ProcessIdToPrune(Stored)

\* UnifiedExecProcess::terminate
Terminated(S) == [c \in Commands |-> IF c \in S /\ proc[c] = "running" THEN "dying" ELSE proc[c]]
-----------------------------------------------------------------------------
(* exec_command *)

\* Mutant: only stored processes make an id taken.
FreeIds_NotStored == {i \in Ids : processes[i] = "none"}

FreeIds == Ids \ reserved

AllocateProcessId(c) ==
    /\ pc[c] = "idle" /\ writing = Idle
    /\ \E i \in FreeIds :
         /\ id' = [id EXCEPT ![c] = i]
         /\ reserved' = reserved \cup {i}
    /\ pc' = [pc EXCEPT ![c] = "allocated"]
    /\ UNCHANGED <<proc, watch, ends, reply, processes, used, pruned, sweeping, writing, ghosts,
                   bounds>>

\* open_session_with_sandbox failed or was refused: release_process_id.
OpenFails(c) ==
    /\ pc[c] = "allocated"
    /\ RemoveEntry(id[c])
    /\ pc' = [pc EXCEPT ![c] = "done"]
    /\ UNCHANGED <<id, proc, watch, ends, reply, used, pruned, sweeping, writing, ghosts, bounds>>

\* The process runs, ExecCommandBegin is sent and the clock started.
OpenSession(c) ==
    /\ pc[c] = "allocated"
    /\ pc' = [pc EXCEPT ![c] = "begun"]
    /\ proc' = [proc EXCEPT ![c] = "running"]
    /\ Use(c, Stored \cup ToStore)
    /\ UNCHANGED <<id, watch, ends, reply, store, pruned, sweeping, writing, ghosts, bounds>>

\* Mutant: the short-lived path leaves its end event to the watcher as well.
StartedAlive_AlwaysWatched(c) ==
    /\ pc[c] = "begun"
    /\ pc' = [pc EXCEPT ![c] = IF proc[c] = "exited" THEN "short" ELSE "storing"]
    /\ watch' = watch \cup {c}
    /\ UNCHANGED <<id, proc, ends, reply, store, used, pruned, sweeping, writing, ghosts, bounds>>

\* process_started_alive
StartedAlive(c) ==
    /\ pc[c] = "begun"
    /\ pc' = [pc EXCEPT ![c] = IF proc[c] = "exited" THEN "short" ELSE "storing"]
    /\ UNCHANGED <<id, proc, watch, ends, reply, store, used, pruned, sweeping, writing, ghosts,
                   bounds>>

\* Mutant: a stored process no longer needs its reservation.
StoreProcess_Releases(c) ==
    /\ pc[c] = "storing"
    /\ processes' = [[i \in Ids |-> IF processes[i] \in ToPrune THEN "none" ELSE processes[i]]
                        EXCEPT ![id[c]] = c]
    /\ reserved' = reserved \ {id[c]}
    /\ pc' = [pc EXCEPT ![c] = "yielding"] /\ watch' = watch \cup {c}
    /\ proc' = Terminated(ToPrune)
    /\ UNCHANGED <<id, pruned, ends, reply, used, sweeping, writing, ghosts, bounds>>

\* store_process, under the lock; what it pruned is terminated after the lock
\* and the unregistration of its network approval.
StoreProcess(c) ==
    /\ pc[c] = "storing"
    /\ processes' = [[i \in Ids |-> IF processes[i] \in ToPrune THEN "none" ELSE processes[i]]
                        EXCEPT ![id[c]] = c]
    /\ reserved' = reserved \ {i \in Ids : processes[i] \in ToPrune}
    /\ IF ToPrune = {}
       THEN /\ pc' = [pc EXCEPT ![c] = "yielding"] /\ watch' = watch \cup {c}
            /\ UNCHANGED pruned
       ELSE /\ pc' = [pc EXCEPT ![c] = "cleaning"] /\ UNCHANGED watch
            /\ \E p \in ToPrune : pruned' = [pruned EXCEPT ![c] = p]
    /\ unreserved' = unreserved \cup {p \in ToPrune : pc[p] \in InFlight}
    /\ UNCHANGED <<id, proc, ends, reply, used, sweeping, writing, lost, bounds>>

\* ... then spawn_exit_watcher
TerminatePruned(c) ==
    /\ pc[c] = "cleaning"
    /\ proc' = Terminated({pruned[c]})
    /\ pruned' = [pruned EXCEPT ![c] = "none"]
    /\ watch' = watch \cup {c}
    /\ pc' = [pc EXCEPT ![c] = "yielding"]
    /\ UNCHANGED <<id, ends, reply, store, used, sweeping, writing, ghosts, bounds>>

\* The yield time is over or the process ended: refresh_process_state looks the
\* id up, and removes the entry of a process that has exited.
Refresh(i) ==
    IF processes[i] # "none" /\ proc[processes[i]] = "exited"
    THEN RemoveEntry(i) ELSE UNCHANGED store

AnswerAfterYield(c) ==
    /\ pc[c] = "yielding"
    /\ Refresh(id[c])
    /\ reply' = [reply EXCEPT ![c] =
                   IF processes[id[c]] # "none" /\ proc[processes[id[c]]] # "exited"
                   THEN processes[id[c]] ELSE "none"]
    /\ pc' = [pc EXCEPT ![c] = "done"]
    /\ UNCHANGED <<id, proc, watch, ends, used, pruned, sweeping, writing, ghosts, bounds>>

\* The network was denied to the process, or it failed: the id is released and
\* the process terminated.
FailAfterYield(c) ==
    /\ pc[c] = "yielding"
    /\ RemoveEntry(id[c])
    /\ proc' = Terminated({c})
    /\ pc' = [pc EXCEPT ![c] = "done"]
    /\ UNCHANGED <<id, watch, ends, reply, used, pruned, sweeping, writing, ghosts, bounds>>

\* A command that ended before it could be stored sends its own end event.
EndShortLived(c) ==
    /\ pc[c] = "short"
    /\ ends' = [ends EXCEPT ![c] = @ + 1]
    /\ RemoveEntry(id[c])
    /\ pc' = [pc EXCEPT ![c] = "done"]
    /\ UNCHANGED <<id, proc, watch, reply, used, pruned, sweeping, writing, ghosts, bounds>>

\* The tool's task is aborted.  Its reservation stays.  A process that is not in
\* the store yet is dropped, which terminates it, unless the task that waits for
\* a network denial keeps it; a process it has pruned is kept by its own watcher.
\* "detached" is killed with the watcher in place.
KillCommand(c) ==
    /\ pc[c] \in InFlight /\ kills < MaxKills
    /\ pc' = [pc EXCEPT ![c] = IF @ = "yielding" THEN "detached" ELSE "killed"]
    /\ \E dropped \in SUBSET (ToStore \cap {c}) :
         /\ proc' = Terminated(dropped)
         /\ lost' = lost \cup ((ToStore \cap {c}) \ dropped) \cup ({pruned[c]} \ {"none"})
    /\ pruned' = [pruned EXCEPT ![c] = "none"]
    /\ kills' = kills + 1
    /\ UNCHANGED <<id, watch, ends, reply, store, used, sweeping, writing, unreserved, sweeps, writes>>
-----------------------------------------------------------------------------
(* write_stdin *)

NoCommandInFlight == \A c \in Commands : pc[c] \notin InFlight

\* prepare_process_handles
PrepareWrite(i) ==
    /\ writing = Idle /\ NoCommandInFlight /\ writes < MaxWrites
    /\ processes[i] # "none"
    /\ writing' = <<i, processes[i]>>
    /\ Use(processes[i], Stored)
    /\ writes' = writes + 1
    /\ UNCHANGED <<pc, id, proc, watch, ends, reply, store, pruned, sweeping, ghosts, sweeps, kills>>

AnswerWrite ==
    /\ writing # Idle
    /\ Refresh(writing[1])
    /\ writing' = Idle
    /\ UNCHANGED <<pc, id, proc, watch, ends, reply, used, pruned, sweeping, ghosts, bounds>>

\* The write failed, or the process has failed meanwhile.
FailWrite ==
    /\ writing # Idle
    /\ proc' = Terminated({writing[2]})
    /\ RemoveEntry(writing[1])
    /\ writing' = Idle
    /\ UNCHANGED <<pc, id, watch, ends, reply, used, pruned, sweeping, ghosts, bounds>>
-----------------------------------------------------------------------------
(* terminate_all_processes *)

Sweep ==
    /\ sweeping = {} /\ sweeps < MaxSweeps
    /\ sweeping' = Stored
    /\ processes' = [i \in Ids |-> "none"]
    /\ reserved' = {}
    /\ unreserved' = unreserved \cup {c \in Commands : pc[c] \in InFlight}
    /\ sweeps' = sweeps + 1
    /\ UNCHANGED <<pc, id, proc, watch, ends, reply, used, pruned, writing, lost, writes, kills>>

TerminateSwept(c) ==
    /\ c \in sweeping
    /\ sweeping' = sweeping \ {c}
    /\ proc' = Terminated({c})
    /\ UNCHANGED <<pc, id, watch, ends, reply, store, used, pruned, writing, ghosts, bounds>>
-----------------------------------------------------------------------------
(* Processes and their watchers *)

Exit(c) ==
    /\ proc[c] \in {"running", "dying"}
    /\ proc' = [proc EXCEPT ![c] = "exited"]
    /\ UNCHANGED <<pc, id, watch, ends, reply, store, used, pruned, sweeping, writing, ghosts,
                   bounds>>

\* terminate_process_on_network_denial: with a deferred approval a task waits
\* beside the call and outlives it.
NetworkDenied(c) ==
    /\ proc[c] = "running"
    /\ proc' = Terminated({c})
    /\ UNCHANGED <<pc, id, watch, ends, reply, store, used, pruned, sweeping, writing, ghosts,
                   bounds>>

\* spawn_exit_watcher: the token is cancelled by the exit and by terminate.
WatcherEnds(c) ==
    /\ c \in watch /\ proc[c] \in {"dying", "exited"}
    /\ watch' = watch \ {c}
    /\ ends' = [ends EXCEPT ![c] = @ + 1]
    /\ UNCHANGED <<pc, id, proc, reply, store, used, pruned, sweeping, writing, ghosts, bounds>>
-----------------------------------------------------------------------------
CommandStep(c) ==
    \/ OpenFails(c) \/ OpenSession(c) \/ StartedAlive(c) \/ StoreProcess(c)
    \/ TerminatePruned(c) \/ AnswerAfterYield(c) \/ FailAfterYield(c) \/ EndShortLived(c)

WriteStep == AnswerWrite \/ FailWrite

Next ==
    \/ \E c \in Commands : \/ AllocateProcessId(c) \/ CommandStep(c) \/ KillCommand(c)
                           \/ TerminateSwept(c) \/ Exit(c) \/ NetworkDenied(c) \/ WatcherEnds(c)
    \/ \E i \in Ids : PrepareWrite(i)
    \/ WriteStep \/ Sweep

Spec == Init /\ [][Next]_vars
-----------------------------------------------------------------------------
(* Properties *)

\* What the variables hold; prune_processes_if_needed keeps the store within
\* MAX_UNIFIED_EXEC_PROCESSES however many commands store at once.
TypeOK ==
    /\ pc \in [Commands -> InFlight \cup {"idle", "done", "killed", "detached"}]
    /\ id \in [Commands -> Ids \cup {"none"}]
    /\ proc \in [Commands -> {"none", "running", "dying", "exited"}]
    /\ watch \subseteq Commands /\ ends \in [Commands -> Nat]
    /\ reply \in [Commands -> Commands \cup {"none"}]
    /\ processes \in [Ids -> Commands \cup {"none"}] /\ reserved \subseteq Ids
    /\ Cardinality(Stored) <= MaxProcesses
    /\ pruned \in [Commands -> Commands \cup {"none"}] /\ sweeping \subseteq Commands

\* A command whose own reservation, or that of another command with its id, was
\* cleared while its call was under way: by terminate_all_processes, or by the
\* store that pruned its process while it yielded.
IdLost(c) == \E d \in unreserved : id[d] = id[c]

\* A process that runs can be reached and will be cleaned up: it is in the
\* store, or a call or a sweep that holds it will store or terminate it.  Only
\* the windows the history variables mark let one slip: a sweep during the start
\* of a command, an id drawn again while the call it was drawn for first still
\* yields, a call killed between pruning and terminating, and one killed before
\* it has stored a process that the task waiting for a network denial keeps.
NoOrphanProcess ==
    \A c \in Commands :
        proc[c] = "running" =>
            \/ c \in Stored \/ pc[c] \in {"begun", "storing"} \/ c \in sweeping
            \/ \E d \in Commands : pruned[d] = c
            \/ c \in lost \/ IdLost(c)

\* The id exec_command answers with reaches that command's own process.
AnswerNamesOwnProcess ==
    \A c \in Commands : reply[c] \in {c, "none"} \/ IdLost(c)

\* unified_exec_emits_one_begin_and_one_end_event: however a command ends,
\* early, in the background, pruned or swept, it never sends a second end event,
\* and one whose process has ended has sent it or has a watcher that will, also
\* when the call was interrupted, unless that was before the watcher was in place.
EndReportedOnce ==
    \A c \in Commands :
        /\ ends[c] <= 1
        /\ (proc[c] = "exited" /\ pc[c] \in {"yielding", "done", "detached"}) =>
               ends[c] = 1 \/ c \in watch
=============================================================================
