---------------------------- MODULE AgentControl ----------------------------
(***************************************************************************)
(* The multi-agent control plane: the AgentRegistry (spawn slots and the   *)
(* agent tree), the SpawnReservation guard objects that hold a slot while  *)
(* a thread is being created, and the ThreadManager's map of live threads. *)
(*                                                                         *)
(* One AgentControl is shared by every session of an agent tree, so tool   *)
(* calls of several sessions run against it at once.  A caller below is    *)
(* one such tool call (spawn_agent, resume_agent, close_agent, send_input) *)
(* and each action is the code between two points where another OS thread  *)
(* can get in: a lock section, an atomic, or an await.                     *)
(***************************************************************************)
EXTENDS Integers, FiniteSets

CONSTANTS
    Callers,     \* concurrent tool calls
    Threads,     \* thread ids, the root thread included
    Root,        \* the root session's thread
    Paths,       \* agent paths below the root
    RootPath,    \* the tree key of the root agent
    Resumable,   \* threads a resume_agent call may name
    MaxThreads,  \* config.agent_max_threads
    NoThread, NoPath, Vacant, Reserved

ASSUME RootAssumption == Root \in Threads
ASSUME ResumableAssumption == Resumable \subseteq Threads \ {Root}
ASSUME MaxThreadsAssumption == MaxThreads \in Nat
ASSUME FiniteAssumption == IsFiniteSet(Callers) /\ IsFiniteSet(Threads) /\ IsFiniteSet(Paths)
ASSUME DistinctAssumption ==
    /\ Threads \cap Paths = {}
    /\ RootPath \notin Threads \cup Paths
    /\ NoThread \notin Threads \cup {Vacant, Reserved}
    /\ NoPath \notin Paths \cup Threads \cup {RootPath}
    /\ Vacant \notin Threads /\ Reserved \notin Threads /\ Vacant # Reserved

VARIABLES
    total_count,  \* AgentRegistry::total_count
    agent_tree,   \* ActiveAgents::agent_tree, keyed by path or "thread:<id>"
    threads,      \* ThreadManagerState::threads and whether the session loop runs
    parent,       \* SubAgentSource::ThreadSpawn.parent_thread_id of each thread
    used,         \* thread ids ever handed out (a new thread gets a fresh id)
    resumed,      \* history: threads a resume was begun for
    call          \* the state of each tool call

vars == <<total_count, agent_tree, threads, parent, used, resumed, call>>

(***************************************************************************)
(* A tree key is a path, or the thread id itself for a path-less agent.    *)
(* "absent" is a thread the manager does not hold, "dead" one it holds     *)
(* whose submission channel is closed (CodexThread::is_running is false).  *)
(***************************************************************************)
Keys == Threads \cup Paths \cup {RootPath}
ThreadState == {"absent", "running", "dead"}

\* Program points at which the call owns an active SpawnReservation.
HoldsSlot == {"reserved", "prepared", "respawning", "resumed", "started",
              "dropPath", "dropCount"}
\* Program points at which the reservation has recorded a reserved path.
HoldsPath == {"prepared", "respawning", "resumed", "started", "dropPath"}
Pcs == HoldsSlot \cup {"idle", "post", "shutdown", "remove", "release", "releaseCount"}

Calls == [pc : Pcs, op : {"none", "spawn", "resume", "close", "send"},
          from : Threads \cup {NoThread}, path : Paths \cup {NoPath},
          thread : Threads \cup {NoThread}, todo : SUBSET Threads]
Idle == [pc |-> "idle", op |-> "none", from |-> NoThread, path |-> NoPath,
         thread |-> NoThread, todo |-> {}]

TypeOK ==
    /\ total_count \in 0..MaxThreads
    /\ agent_tree \in [Keys -> Threads \cup {Vacant, Reserved}]
    /\ threads \in [Threads -> ThreadState]
    /\ parent \in [Threads -> Threads \cup {NoThread}]
    /\ used \subseteq Threads /\ resumed \subseteq Threads
    /\ call \in [Callers -> Calls]

Init ==
    /\ total_count = 0
    /\ agent_tree = [k \in Keys |-> Vacant]
    /\ threads = [t \in Threads |-> IF t = Root THEN "running" ELSE "absent"]
    /\ parent = [t \in Threads |-> NoThread]
    /\ used = {Root} /\ resumed = {}
    /\ call = [c \in Callers |-> Idle]

Goto(c, pc) == call' = [call EXCEPT ![c].pc = pc]

ReserveSpawnSlot_NoLimit == total_count' = total_count + 1

(***************************************************************************)
(* SpawnReservation                                                        *)
(***************************************************************************)
\* reserve_spawn_slot: the compare-exchange loop succeeds only below the
\* limit; at the limit the tool call fails and nothing changes.  Without a limit
\* (agent_max_threads is None) it counts up all the same, which is what a
\* MaxThreads above the agents and reservations of a behaviour does.
ReserveSpawnSlot == total_count < MaxThreads /\ total_count' = total_count + 1

BeginSpawn(c, from, path) ==
    /\ call[c].pc = "idle" /\ threads[from] = "running"
    /\ ReserveSpawnSlot
    /\ call' = [call EXCEPT ![c] = [Idle EXCEPT !.pc = "reserved", !.op = "spawn",
                                                !.from = from, !.path = path]]
    /\ UNCHANGED <<agent_tree, threads, parent, used, resumed>>

\* resume_agent goes ahead only when get_status says NotFound; descendants are
\* resumed by the same routine.  A resumed agent never has a path.
BeginResume(c, from, t) ==
    /\ call[c].pc = "idle" /\ threads[from] = "running"
    /\ t \in used /\ threads[t] = "absent"
    /\ ReserveSpawnSlot
    /\ call' = [call EXCEPT ![c] = [Idle EXCEPT !.pc = "reserved", !.op = "resume",
                                                !.from = from, !.thread = t]]
    /\ resumed' = resumed \cup {t}
    /\ UNCHANGED <<agent_tree, threads, parent, used>>

\* register_root_thread on a depth-1 spawn: an or_insert, never counted.
RootRegistered(c) ==
    IF call[c].from = Root /\ agent_tree[RootPath] = Vacant
    THEN [agent_tree EXCEPT ![RootPath] = Root] ELSE agent_tree

PrepareThreadSpawn_Overwrite(c) ==
    LET path == call[c].path IN
    /\ call[c].pc = "reserved"
    /\ agent_tree' = IF path = NoPath THEN RootRegistered(c)
                     ELSE [RootRegistered(c) EXCEPT ![path] = Reserved]
    /\ Goto(c, "prepared")
    /\ UNCHANGED <<total_count, threads, parent, used, resumed>>

\* prepare_thread_spawn: reserve the path with a placeholder entry.
PrepareThreadSpawn(c) ==
    LET path == call[c].path IN
    /\ call[c].pc = "reserved"
    /\ path # NoPath => agent_tree[path] = Vacant
    /\ agent_tree' = IF path = NoPath THEN RootRegistered(c)
                     ELSE [RootRegistered(c) EXCEPT ![path] = Reserved]
    /\ Goto(c, "prepared")
    /\ UNCHANGED <<total_count, threads, parent, used, resumed>>

\* prepare_thread_spawn, "agent path already exists": the `?` drops the
\* reservation, which has recorded no path.
PathOccupied(c) ==
    /\ call[c].pc = "reserved" /\ call[c].path # NoPath
    /\ agent_tree[call[c].path] # Vacant
    /\ agent_tree' = RootRegistered(c)
    /\ Goto(c, "dropCount")
    /\ UNCHANGED <<total_count, threads, parent, used, resumed>>

(***************************************************************************)
(* ThreadManagerState::spawn_thread_with_source                            *)
(***************************************************************************)
StartThread(c, t) ==
    /\ call[c].pc = "prepared" /\ call[c].op = "spawn"
    /\ t \notin used
    /\ used' = used \cup {t}
    /\ threads' = [threads EXCEPT ![t] = "running"]
    /\ parent' = [parent EXCEPT ![t] = call[c].from]
    /\ call' = [call EXCEPT ![c].pc = "started", ![c].thread = t]
    /\ UNCHANGED <<total_count, agent_tree, resumed>>

\* Resuming a thread that is running already hands back that thread; a stopped
\* one is taken out of the map before a new session is built for the id.
LookupResumed(c) ==
    LET t == call[c].thread IN
    /\ call[c].pc = "prepared" /\ call[c].op = "resume"
    /\ Goto(c, IF threads[t] = "running" THEN "started" ELSE "respawning")
    /\ threads' = IF threads[t] = "dead" THEN [threads EXCEPT ![t] = "absent"] ELSE threads
    /\ UNCHANGED <<total_count, agent_tree, parent, used, resumed>>

\* finalize_thread_spawn: the second of two racing resumes finds the entry
\* occupied, shuts its own session down and fails.
FinalizeResumed(c) ==
    LET t == call[c].thread IN
    /\ call[c].pc = "respawning"
    /\ IF threads[t] = "absent"
       THEN /\ threads' = [threads EXCEPT ![t] = "running"]
            /\ parent' = [parent EXCEPT ![t] = call[c].from]
            /\ Goto(c, "resumed")
       ELSE Goto(c, "dropPath") /\ UNCHANGED <<threads, parent>>
    /\ UNCHANGED <<total_count, agent_tree, used, resumed>>

\* emit_thread_resume_lifecycle and apply_goal_resume_runtime_effects are awaited
\* between the insertion into the map and the commit.
ResumeEffects(c) ==
    /\ call[c].pc = "resumed"
    /\ Goto(c, "started")
    /\ UNCHANGED <<total_count, agent_tree, threads, parent, used, resumed>>

Commit_StillActive(c) ==
    LET key == IF call[c].path = NoPath THEN call[c].thread ELSE call[c].path IN
    /\ call[c].pc = "started"
    /\ agent_tree' = [agent_tree EXCEPT ![key] = call[c].thread]
    /\ Goto(c, "dropCount")
    /\ UNCHANGED <<total_count, threads, parent, used, resumed>>

\* SpawnReservation::commit -> register_spawned_thread.
CommitKey(c) == IF call[c].path = NoPath THEN call[c].thread ELSE call[c].path
Commit(c) ==
    /\ call[c].pc = "started"
    /\ agent_tree' = [agent_tree EXCEPT ![CommitKey(c)] = call[c].thread]
    /\ Goto(c, "post")
    /\ UNCHANGED <<total_count, threads, parent, used, resumed>>

\* Any failing step before the commit (nickname pool, history read, session
\* start), or the turn's cancellation dropping the future at an await.
AbandonReservation(c) ==
    /\ call[c].pc \in {"reserved", "prepared", "respawning", "resumed"}
    /\ Goto(c, IF call[c].pc = "reserved" THEN "dropCount" ELSE "dropPath")
    /\ UNCHANGED <<total_count, agent_tree, threads, parent, used, resumed>>

\* SpawnReservation::drop, first half: release_reserved_agent_path removes the
\* entry only while it is still a placeholder.
DropPath(c) ==
    LET path == call[c].path IN
    /\ call[c].pc = "dropPath"
    /\ agent_tree' = IF path # NoPath /\ agent_tree[path] = Reserved
                     THEN [agent_tree EXCEPT ![path] = Vacant] ELSE agent_tree
    /\ Goto(c, "dropCount")
    /\ UNCHANGED <<total_count, threads, parent, used, resumed>>

DropCount_Forgotten(c) ==
    /\ call[c].pc = "dropCount"
    /\ call' = [call EXCEPT ![c] = Idle]
    /\ UNCHANGED <<total_count, agent_tree, threads, parent, used, resumed>>

\* SpawnReservation::drop, second half.
DropCount(c) ==
    /\ call[c].pc = "dropCount"
    /\ total_count' = total_count - 1
    /\ call' = [call EXCEPT ![c] = Idle]
    /\ UNCHANGED <<agent_tree, threads, parent, used, resumed>>

(***************************************************************************)
(* send_input, shutdown_live_agent and release_spawned_thread              *)
(***************************************************************************)
\* The initial send_input of a spawn (a resume has none).  ThreadNotFound is
\* returned as it is; InternalAgentDied goes on to remove and release.
FinishSpawn(c) ==
    /\ call[c].pc = "post"
    /\ IF call[c].op = "spawn" /\ threads[call[c].thread] = "dead"
       THEN Goto(c, "remove") ELSE call' = [call EXCEPT ![c] = Idle]
    /\ UNCHANGED <<total_count, agent_tree, threads, parent, used, resumed>>

\* handle_thread_request_result for any later send to a thread that died.
SendToDead(c, t) ==
    /\ call[c].pc = "idle" /\ threads[t] = "dead"
    /\ call' = [call EXCEPT ![c] = [Idle EXCEPT !.pc = "remove", !.op = "send", !.thread = t]]
    /\ UNCHANGED <<total_count, agent_tree, threads, parent, used, resumed>>

\* live_thread_spawn_descendants: what is reached from t over the edges of the
\* threads the manager still holds.
LiveDescendants(t) ==
    {u \in Threads :
        /\ u # t
        /\ \A S \in SUBSET Threads :
             (/\ t \in S
              /\ \A v \in Threads : (threads[v] # "absent" /\ parent[v] \in S) => v \in S)
             => u \in S}

KeysOf(t) == {k \in Keys : agent_tree[k] = t}

\* close_agent / shutdown_agent_tree: the descendants are listed once, before
\* anything is shut down.  The tool refuses the root agent and an id that
\* neither the manager nor the registry knows.
BeginClose(c, t) ==
    /\ call[c].pc = "idle" /\ t # Root
    /\ threads[t] # "absent" \/ KeysOf(t) # {}
    /\ call' = [call EXCEPT ![c] = [Idle EXCEPT !.pc = "shutdown", !.op = "close",
                                                !.thread = t, !.todo = LiveDescendants(t)]]
    /\ UNCHANGED <<total_count, agent_tree, threads, parent, used, resumed>>

ShutdownAgent_ReleaseFirst(c) ==
    /\ call[c].pc = "shutdown"
    /\ Goto(c, "release")
    /\ UNCHANGED <<total_count, agent_tree, threads, parent, used, resumed>>

\* shutdown_live_agent up to wait_until_terminated.
ShutdownAgent(c) ==
    LET t == call[c].thread IN
    /\ call[c].pc = "shutdown"
    /\ threads' = IF threads[t] = "running" THEN [threads EXCEPT ![t] = "dead"] ELSE threads
    /\ Goto(c, "remove")
    /\ UNCHANGED <<total_count, agent_tree, parent, used, resumed>>

\* The next agent of shutdown_agent_tree, or the end of the call.
NextTarget(c) ==
    IF call[c].todo = {} THEN call' = [call EXCEPT ![c] = Idle]
    ELSE \E u \in call[c].todo :
            call' = [call EXCEPT ![c].pc = "shutdown", ![c].thread = u,
                                 ![c].todo = call[c].todo \ {u}]

\* flush_rollout failing returns before anything is removed.
ShutdownFlushFails(c) ==
    /\ call[c].pc = "shutdown" /\ threads[call[c].thread] # "absent"
    /\ NextTarget(c) \/ call' = [call EXCEPT ![c] = Idle]
    /\ UNCHANGED <<total_count, agent_tree, threads, parent, used, resumed>>

RemoveThread(c) ==
    /\ call[c].pc = "remove"
    /\ threads' = [threads EXCEPT ![call[c].thread] = "absent"]
    /\ Goto(c, "release")
    /\ UNCHANGED <<total_count, agent_tree, parent, used, resumed>>

ReleaseEntry_Unchecked(c) ==
    /\ call[c].pc = "release"
    /\ agent_tree' = [k \in Keys |-> IF k \in KeysOf(call[c].thread) THEN Vacant ELSE agent_tree[k]]
    /\ Goto(c, "releaseCount")
    /\ UNCHANGED <<total_count, threads, parent, used, resumed>>

\* release_spawned_thread under the lock: one entry whose agent_id matches, in
\* the hash map's order, is removed.  Only a non-root entry gives a slot back.
ReleaseEntry(c) ==
    /\ call[c].pc = "release"
    /\ IF KeysOf(call[c].thread) = {}
       THEN NextTarget(c) /\ UNCHANGED agent_tree
       ELSE \E k \in KeysOf(call[c].thread) :
              /\ agent_tree' = [agent_tree EXCEPT ![k] = Vacant]
              /\ IF k = RootPath THEN NextTarget(c) ELSE Goto(c, "releaseCount")
    /\ UNCHANGED <<total_count, threads, parent, used, resumed>>

\* release_spawned_thread after the lock: the atomic decrement.
ReleaseCount(c) ==
    /\ call[c].pc = "releaseCount"
    /\ total_count' = total_count - 1
    /\ NextTarget(c)
    /\ UNCHANGED <<agent_tree, threads, parent, used, resumed>>

\* The turn is interrupted while the call waits and holds no reservation.
CancelCall(c) ==
    /\ call[c].pc \in {"post", "shutdown", "remove"}
    /\ call' = [call EXCEPT ![c] = Idle]
    /\ UNCHANGED <<total_count, agent_tree, threads, parent, used, resumed>>

\* A session loop ends on its own (the user exits it, or it fails).
ThreadDies(t) ==
    /\ t # Root /\ threads[t] = "running"
    /\ threads' = [threads EXCEPT ![t] = "dead"]
    /\ UNCHANGED <<total_count, agent_tree, parent, used, resumed, call>>

CallStep(c) ==
    \/ \E from \in Threads, path \in Paths \cup {NoPath} : BeginSpawn(c, from, path)
    \/ \E from \in Threads, t \in Resumable : BeginResume(c, from, t)
    \/ PrepareThreadSpawn(c) \/ PathOccupied(c)
    \/ \E t \in Threads : StartThread(c, t)
    \/ LookupResumed(c) \/ FinalizeResumed(c) \/ ResumeEffects(c)
    \/ Commit(c)
    \/ AbandonReservation(c) \/ DropPath(c) \/ DropCount(c)
    \/ FinishSpawn(c)
    \/ \E t \in Threads : SendToDead(c, t)
    \/ \E t \in Threads : BeginClose(c, t)
    \/ ShutdownAgent(c) \/ ShutdownFlushFails(c)
    \/ RemoveThread(c) \/ ReleaseEntry(c) \/ ReleaseCount(c)
    \/ CancelCall(c)

Next == (\E c \in Callers : CallStep(c)) \/ (\E t \in Threads : ThreadDies(t))

Spec == Init /\ [][Next]_vars

-----------------------------------------------------------------------------
Counted == {k \in Keys \ {RootPath} : agent_tree[k] \in Threads}
SlotHolders == {c \in Callers : call[c].pc \in HoldsSlot \cup {"releaseCount"}}
RunningAgents == {t \in Threads \ {Root} : threads[t] = "running"}

\* Every registered agent and every reservation still held is paid for in
\* total_count, so the counter never underflows on a release (fetch_sub on an
\* AtomicUsize would wrap) and the registry never holds more agents than the
\* limit, whatever spawns, resumes, closes, failures and cancellations overlap.
SlotsCovered == Cardinality(Counted) + Cardinality(SlotHolders) <= total_count

\* No slot leaks: until a resume is begun the counter is exactly the registered
\* agents plus the slots in flight.  (A resume that finds the thread running
\* commits a second time over one entry and keeps both slots.)
SlotsExact ==
    resumed = {} => Cardinality(Counted) + Cardinality(SlotHolders) = total_count

\* A reserved path belongs to one reservation until that reservation commits or
\* is dropped: reserve_agent_path, commit and drop of different calls never take
\* or clear each other's placeholder.
PathHeldByOne ==
    \A c \in Callers : (call[c].pc \in HoldsPath /\ call[c].path # NoPath) =>
        /\ agent_tree[call[c].path] = Reserved
        /\ \A d \in Callers \ {c} : call[d].pc \in HoldsPath => call[d].path # call[c].path

\* The registry "limits the total number of sub-agents (i.e. threads) per user
\* session": until a resume is begun the threads that really run stay within
\* agent_max_threads.  (A resume cancelled between the insertion into the
\* manager's map and the commit leaves an agent that runs without a slot.)
RunningWithinLimit == resumed = {} => Cardinality(RunningAgents) <= MaxThreads

\* release_spawned_thread takes an agent out of the tree only once its session
\* has ended: until a resume is begun a running agent never becomes unreachable
\* by path or id.  (A close may release an agent that was resumed meanwhile.)
NeverUnregisteredWhileRunning ==
    [][resumed = {} =>
         \A k \in Keys : (agent_tree[k] \in Threads /\ agent_tree'[k] # agent_tree[k])
                             => threads[agent_tree[k]] # "running"]_vars
=============================================================================
