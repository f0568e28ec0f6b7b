------------------------ MODULE AgentControl_proofs ------------------------
(***************************************************************************)
(* The registry's slot accounting and its agent paths, for any number of   *)
(* tool calls, threads and paths and any limit; and, until an agent is     *)
(* resumed, that the count is exact and a running agent stays registered.  *)
(***************************************************************************)
EXTENDS AgentControl, FiniteSetTheorems, TLAPS

\* A call that will commit knows the thread it commits.
ThreadKnown ==
    \A c \in Callers :
        (call[c].op = "resume" \/ call[c].pc \in {"respawning", "resumed", "started"})
            => call[c].thread \in Threads

\* The inductive invariant: types alone are not inductive, because the counter
\* stays a natural number only while every later decrement is paid for.
SlotInv == TypeOK /\ ThreadKnown /\ SlotsCovered

\* Registered agents and slot holders are finite sets.
LEMMA SlotSetsFinite ==
    ASSUME TypeOK
    PROVE  /\ IsFiniteSet(Counted) /\ Cardinality(Counted) \in Nat
           /\ IsFiniteSet(SlotHolders) /\ Cardinality(SlotHolders) \in Nat
<1>1. IsFiniteSet(Keys)
  <2>1. IsFiniteSet(Threads \cup Paths)
    BY FS_Union, FiniteAssumption
  <2>2. QED
    BY <2>1, FS_AddElement DEF Keys
<1>2. IsFiniteSet(Counted)
  <2>1. Counted \in SUBSET Keys
    BY DEF Counted
  <2>2. QED
    BY <1>1, <2>1, FS_Subset
<1>3. IsFiniteSet(SlotHolders)
  <2>1. SlotHolders \in SUBSET Callers
    BY DEF SlotHolders
  <2>2. QED
    BY <2>1, FS_Subset, FiniteAssumption
<1>4. QED
  BY <1>2, <1>3, FS_CardinalityType

\* One more element makes a finite set at most one larger.
LEMMA AddAtMostOne ==
    ASSUME NEW S, NEW x, IsFiniteSet(S)
    PROVE  /\ Cardinality(S \cup {x}) <= Cardinality(S) + 1
           /\ Cardinality(S \cup {x}) \in Nat
<1>1. Cardinality(S) \in Nat /\ Cardinality(S \cup {x}) \in Nat
  BY FS_AddElement, FS_CardinalityType
<1>2. Cardinality(S \cup {x}) = IF x \in S THEN Cardinality(S) ELSE Cardinality(S) + 1
  BY FS_AddElement
<1>3. QED
  BY <1>1, <1>2

\* A step that leaves the counter, the registered agents and the slot holders
\* alone keeps the slots covered.
LEMMA CoveredUnchanged ==
    ASSUME SlotsCovered, Counted' = Counted, SlotHolders' = SlotHolders,
           total_count' = total_count
    PROVE  SlotsCovered'
BY DEF SlotsCovered

\* Taking a slot, and holding it, keeps the slots covered.
LEMMA CoveredTake ==
    ASSUME TypeOK, SlotsCovered, NEW c, Counted' = Counted,
           SlotHolders' = SlotHolders \cup {c}, total_count' = total_count + 1
    PROVE  SlotsCovered'
<1>1. /\ Cardinality(SlotHolders') <= Cardinality(SlotHolders) + 1
      /\ Cardinality(SlotHolders') \in Nat
  BY SlotSetsFinite, AddAtMostOne
<1>3. QED
  BY <1>1, SlotSetsFinite DEF SlotsCovered, TypeOK

\* Giving a slot back keeps the slots covered, and there is one to give back.
LEMMA CoveredGive ==
    ASSUME TypeOK, SlotsCovered, NEW c \in SlotHolders, Counted' = Counted,
           SlotHolders' = SlotHolders \ {c}, total_count' = total_count - 1
    PROVE  SlotsCovered' /\ total_count' \in 0..MaxThreads
<1>1. Cardinality(SlotHolders') = Cardinality(SlotHolders) - 1
  BY SlotSetsFinite, FS_RemoveElement
<1>2. Cardinality(SlotHolders') \in Nat
  BY SlotSetsFinite, FS_RemoveElement, FS_CardinalityType
<1>3. QED
  BY <1>1, <1>2, SlotSetsFinite, MaxThreadsAssumption DEF SlotsCovered, TypeOK

\* A commit turns the slot of a reservation into that of a registered agent.
LEMMA CoveredCommit ==
    ASSUME TypeOK, SlotsCovered, NEW c \in SlotHolders, NEW k,
           Counted' = Counted \cup {k} \/ Counted' = Counted,
           SlotHolders' = SlotHolders \ {c}, total_count' = total_count
    PROVE  SlotsCovered'
<1>1. /\ Cardinality(SlotHolders') = Cardinality(SlotHolders) - 1
      /\ Cardinality(SlotHolders') \in Nat
  BY SlotSetsFinite, FS_RemoveElement, FS_CardinalityType
<1>2. /\ Cardinality(Counted') <= Cardinality(Counted) + 1
      /\ Cardinality(Counted') \in Nat
  <2>1. CASE Counted' = Counted
    BY <2>1, SlotSetsFinite
  <2>2. CASE Counted' = Counted \cup {k}
    BY <2>2, SlotSetsFinite, AddAtMostOne
  <2>3. QED
    BY <2>1, <2>2
<1>3. QED
  BY <1>1, <1>2, SlotSetsFinite DEF SlotsCovered, TypeOK

\* A release turns the slot of a registered agent into a pending decrement.
LEMMA CoveredRelease ==
    ASSUME TypeOK, SlotsCovered, NEW c, NEW k \in Counted,
           Counted' = Counted \ {k},
           SlotHolders' = SlotHolders \cup {c}, total_count' = total_count
    PROVE  SlotsCovered'
<1>1. /\ Cardinality(SlotHolders') <= Cardinality(SlotHolders) + 1
      /\ Cardinality(SlotHolders') \in Nat
  BY SlotSetsFinite, AddAtMostOne
<1>2. /\ Cardinality(Counted') = Cardinality(Counted) - 1
      /\ Cardinality(Counted') \in Nat
  BY SlotSetsFinite, FS_RemoveElement, FS_CardinalityType
<1>3. QED
  BY <1>1, <1>2, SlotSetsFinite DEF SlotsCovered, TypeOK

\* No slot is taken at the start.
LEMMA InitSlotInv == Init => SlotInv
<1> SUFFICES ASSUME Init PROVE SlotInv
  OBVIOUS
<1>1. TypeOK
  BY RootAssumption, MaxThreadsAssumption
     DEF Init, TypeOK, Keys, ThreadState, Calls, Idle, Pcs, HoldsSlot
<1>2. ThreadKnown
  BY DEF Init, ThreadKnown, Idle
<1>3. Counted = {} /\ SlotHolders = {}
  BY DistinctAssumption DEF Init, Counted, SlotHolders, Idle, Keys, HoldsSlot
<1>4. SlotsCovered
  BY <1>3, FS_EmptySet DEF SlotsCovered, Init
<1>5. QED
  BY <1>1, <1>2, <1>4 DEF SlotInv

\* shutdown_agent_tree's loop step touches only its own call, which then holds
\* no slot.
LEMMA NextTargetCall ==
    ASSUME TypeOK, NEW c \in Callers, NextTarget(c)
    PROVE  /\ call' \in [Callers -> Calls]
           /\ call'[c].pc \in {"idle", "shutdown"}
           /\ call'[c].op = "resume" => call'[c].op = call[c].op /\ call'[c].thread \in Threads
           /\ \A d \in Callers \ {c} : call'[d] = call[d]
<1>1. CASE call' = [call EXCEPT ![c] = Idle]
  BY <1>1 DEF TypeOK, Idle, Calls, Pcs, HoldsSlot
<1>2. ASSUME NEW u \in call[c].todo,
             call' = [call EXCEPT ![c].pc = "shutdown", ![c].thread = u,
                                  ![c].todo = call[c].todo \ {u}]
      PROVE  /\ call' \in [Callers -> Calls]
             /\ call'[c].pc = "shutdown" /\ call'[c].thread \in Threads
             /\ call'[c].op = call[c].op
             /\ \A d \in Callers \ {c} : call'[d] = call[d]
  BY <1>2 DEF TypeOK, Calls, Pcs, HoldsSlot
<1>3. QED
  BY <1>1, <1>2 DEF NextTarget

\* What a step does to the slots: nothing, take one, give one back, turn the
\* slot of a reservation into that of an agent, or that into a pending decrement.
Leaves == Counted' = Counted /\ SlotHolders' = SlotHolders /\ total_count' = total_count
Takes(c) ==
    /\ c \notin SlotHolders /\ SlotHolders' = SlotHolders \cup {c} /\ Counted' = Counted
    /\ total_count < MaxThreads /\ total_count' = total_count + 1
Gives(c) ==
    /\ c \in SlotHolders /\ SlotHolders' = SlotHolders \ {c} /\ Counted' = Counted
    /\ total_count' = total_count - 1
Commits(c) ==
    /\ c \in SlotHolders /\ SlotHolders' = SlotHolders \ {c}
    /\ CommitKey(c) \in Keys \ {RootPath} /\ Counted' = Counted \cup {CommitKey(c)}
    /\ total_count' = total_count
Releases(c) ==
    /\ c \notin SlotHolders /\ SlotHolders' = SlotHolders \cup {c}
    /\ \E k \in Counted : Counted' = Counted \ {k}
    /\ total_count' = total_count

\* Every step of a call takes a slot, gives one back, releases one, or leaves the
\* counter and the tree alone.
LEMMA CallStepSlots ==
    ASSUME TypeOK, ThreadKnown, NEW c \in Callers, CallStep(c)
    PROVE  \/ Leaves \/ Takes(c) \/ Gives(c) \/ Releases(c)
           \/ Commit(c) /\ Commits(c)
<1>1. ASSUME NEW from \in Threads, NEW path \in Paths \cup {NoPath}, BeginSpawn(c, from, path)
      PROVE  Takes(c)
  BY <1>1 DEF BeginSpawn, ReserveSpawnSlot, Takes, Counted, SlotHolders, HoldsSlot, TypeOK, Calls, Idle
<1>2. ASSUME NEW from \in Threads, NEW t \in Threads, BeginResume(c, from, t)
      PROVE  Takes(c)
  BY <1>2 DEF BeginResume, ReserveSpawnSlot, Takes, Counted, SlotHolders, HoldsSlot, TypeOK, Calls, Idle
<1>3. CASE PrepareThreadSpawn(c) \/ PathOccupied(c)
  <2>1. SlotHolders' = SlotHolders /\ total_count' = total_count
    BY <1>3 DEF PrepareThreadSpawn, PathOccupied, Goto, SlotHolders, HoldsSlot, TypeOK, Calls
  <2>2. Counted' = Counted
    BY <1>3, DistinctAssumption
       DEF PrepareThreadSpawn, PathOccupied, RootRegistered, Counted, Keys, TypeOK, Calls
  <2> QED  BY <2>1, <2>2 DEF Leaves
<1>4. ASSUME NEW t \in Threads, StartThread(c, t)
      PROVE  Leaves
  BY <1>4 DEF StartThread, Leaves, Counted, SlotHolders, HoldsSlot, TypeOK, Calls
<1>5. CASE LookupResumed(c) \/ FinalizeResumed(c) \/ ResumeEffects(c) \/ AbandonReservation(c)
  BY <1>5 DEF LookupResumed, FinalizeResumed, ResumeEffects, AbandonReservation, Goto, Leaves,
              Counted, SlotHolders, HoldsSlot, TypeOK, Calls
<1>6. CASE Commit(c)
  <2>1. call[c].thread \in Threads /\ CommitKey(c) \in Keys \ {RootPath}
    BY <1>6, DistinctAssumption DEF Commit, CommitKey, ThreadKnown, TypeOK, Calls, Keys
  <2>2. Counted' = Counted \cup {CommitKey(c)}
    BY <1>6, <2>1 DEF Commit, Counted, TypeOK
  <2>3. /\ c \in SlotHolders /\ SlotHolders' = SlotHolders \ {c}
        /\ total_count' = total_count
    BY <1>6 DEF Commit, Goto, SlotHolders, HoldsSlot, TypeOK, Calls
  <2> QED  BY <1>6, <2>1, <2>2, <2>3 DEF Commits
<1>7. CASE DropPath(c)
  <2>1. SlotHolders' = SlotHolders /\ total_count' = total_count
    BY <1>7 DEF DropPath, Goto, SlotHolders, HoldsSlot, TypeOK, Calls
  <2>2. Counted' = Counted
    BY <1>7, DistinctAssumption DEF DropPath, Counted, Keys, TypeOK, Calls
  <2> QED  BY <2>1, <2>2 DEF Leaves
<1>8. CASE DropCount(c)
  BY <1>8 DEF DropCount, Gives, SlotHolders, Counted, HoldsSlot, TypeOK, Calls, Idle
<1>9. CASE FinishSpawn(c) \/ CancelCall(c)
  BY <1>9 DEF FinishSpawn, CancelCall, Goto, Leaves, Counted, SlotHolders, HoldsSlot, TypeOK,
              Calls, Idle
<1>10. ASSUME NEW t \in Threads, SendToDead(c, t) \/ BeginClose(c, t)
       PROVE  Leaves
  <2>1. /\ call[c].pc = "idle" /\ call'[c].pc \in {"remove", "shutdown"}
        /\ \A d \in Callers : d # c => call'[d] = call[d]
        /\ UNCHANGED <<total_count, agent_tree>>
    BY <1>10 DEF SendToDead, BeginClose, TypeOK, Idle
  <2> QED  BY <2>1 DEF Leaves, Counted, SlotHolders, HoldsSlot
<1>11. CASE ShutdownAgent(c) \/ RemoveThread(c)
  BY <1>11 DEF ShutdownAgent, RemoveThread, Goto, Leaves, Counted, SlotHolders, HoldsSlot, TypeOK,
               Calls
<1>12. CASE ShutdownFlushFails(c)
  <2>1. CASE NextTarget(c)
    BY <1>12, <2>1, NextTargetCall DEF ShutdownFlushFails, Leaves, Counted, SlotHolders, HoldsSlot
  <2>2. CASE call' = [call EXCEPT ![c] = Idle]
    BY <1>12, <2>2 DEF ShutdownFlushFails, Leaves, Counted, SlotHolders, HoldsSlot, TypeOK, Idle
  <2> QED  BY <1>12, <2>1, <2>2 DEF ShutdownFlushFails
<1>13. CASE ReleaseEntry(c) /\ KeysOf(call[c].thread) = {}
  BY <1>13, NextTargetCall DEF ReleaseEntry, Leaves, Counted, SlotHolders, HoldsSlot
<1>14. ASSUME ReleaseEntry(c), NEW k \in KeysOf(call[c].thread),
              agent_tree' = [agent_tree EXCEPT ![k] = Vacant],
              IF k = RootPath THEN NextTarget(c) ELSE Goto(c, "releaseCount")
       PROVE  Leaves \/ Releases(c)
  <2>1. total_count' = total_count /\ call[c].pc = "release"
    BY <1>14 DEF ReleaseEntry
  <2>2. CASE k = RootPath
    <3>1. Counted' = Counted
      BY <1>14, <2>2 DEF Counted, TypeOK
    <3>2. SlotHolders' = SlotHolders
      BY <1>14, <2>1, <2>2, NextTargetCall DEF SlotHolders, HoldsSlot
    <3> QED  BY <2>1, <3>1, <3>2 DEF Leaves
  <2>3. CASE k # RootPath
    <3>1. k \in Counted /\ Counted' = Counted \ {k}
      BY <1>14, <2>3, DistinctAssumption DEF Counted, KeysOf, TypeOK, Calls
    <3>2. c \notin SlotHolders /\ SlotHolders' = SlotHolders \cup {c}
      BY <1>14, <2>1, <2>3 DEF Goto, SlotHolders, HoldsSlot, TypeOK, Calls
    <3> QED  BY <2>1, <3>1, <3>2 DEF Releases
  <2> QED  BY <2>2, <2>3
<1>15. CASE ReleaseCount(c)
  BY <1>15, NextTargetCall DEF ReleaseCount, Gives, SlotHolders, Counted, HoldsSlot
<1>16. CASE ReleaseEntry(c)
  BY <1>13, <1>14, <1>16 DEF ReleaseEntry
<1> QED
  BY <1>1, <1>2, <1>3, <1>4, <1>5, <1>6, <1>7, <1>8, <1>9, <1>10, <1>11, <1>12, <1>15, <1>16,
     ResumableAssumption DEF CallStep

\* Every step of a tool call keeps the types, the counter's aside.
LEMMA CallStepTypes ==
    ASSUME TypeOK, ThreadKnown, NEW c \in Callers, CallStep(c), total_count' \in 0..MaxThreads
    PROVE  TypeOK' /\ ThreadKnown'
<1>1. ASSUME NEW from \in Threads, NEW path \in Paths \cup {NoPath}, BeginSpawn(c, from, path)
      PROVE  TypeOK' /\ ThreadKnown'
  <2>1. call' \in [Callers -> Calls]
    BY <1>1 DEF BeginSpawn, TypeOK, Calls, Idle, Pcs, HoldsSlot
  <2>2. ThreadKnown'
    BY <1>1 DEF BeginSpawn, TypeOK, ThreadKnown, Calls, Idle
  <2>3. QED
    BY <1>1, <2>1, <2>2 DEF BeginSpawn, TypeOK
<1>2. ASSUME NEW from \in Threads, NEW t \in Threads, BeginResume(c, from, t)
      PROVE  TypeOK' /\ ThreadKnown'
  <2>1. call' \in [Callers -> Calls]
    BY <1>2 DEF BeginResume, TypeOK, Calls, Idle, Pcs, HoldsSlot
  <2>2. ThreadKnown'
    BY <1>2 DEF BeginResume, TypeOK, ThreadKnown, Calls, Idle
  <2>3. QED
    BY <1>2, <2>1, <2>2 DEF BeginResume, TypeOK
<1>3. CASE PrepareThreadSpawn(c)
  <2>1. call' \in [Callers -> Calls] /\ ThreadKnown'
    BY <1>3 DEF PrepareThreadSpawn, Goto, TypeOK, ThreadKnown, Calls, Pcs, HoldsSlot
  <2>2. agent_tree' \in [Keys -> Threads \cup {Vacant, Reserved}]
    BY <1>3, RootAssumption DEF PrepareThreadSpawn, RootRegistered, TypeOK
  <2> QED  BY <1>3, <2>1, <2>2 DEF PrepareThreadSpawn, TypeOK
<1>4. CASE PathOccupied(c)
  BY <1>4, RootAssumption DEF PathOccupied, RootRegistered, Goto, TypeOK, ThreadKnown, Calls, Pcs, HoldsSlot, Keys
<1>5. ASSUME NEW t \in Threads, StartThread(c, t)
      PROVE  TypeOK' /\ ThreadKnown'
  <2>1. call' \in [Callers -> Calls]
    <3>0. call[c] \in Calls
      BY DEF TypeOK
    <3>1. [call[c] EXCEPT !.pc = "started", !.thread = t] \in Calls
      BY <3>0 DEF Calls, Pcs, HoldsSlot
    <3>2. call' = [call EXCEPT ![c] = [call[c] EXCEPT !.pc = "started", !.thread = t]]
      BY <1>5 DEF StartThread, TypeOK, Calls
    <3>3. QED
      BY <3>1, <3>2 DEF TypeOK
  <2>2. ThreadKnown'
    BY <1>5 DEF StartThread, TypeOK, ThreadKnown, Calls
  <2>3. QED
    <3>1. parent' \in [Threads -> Threads \cup {NoThread}]
      BY <1>5 DEF StartThread, TypeOK, Calls
    <3>2. QED
      BY <1>5, <2>1, <2>2, <3>1 DEF StartThread, TypeOK, ThreadState
<1>6. CASE LookupResumed(c)
  BY <1>6 DEF LookupResumed, Goto, TypeOK, ThreadKnown, Calls, Idle, Pcs, HoldsSlot, ThreadState
<1>7. CASE FinalizeResumed(c)
  BY <1>7 DEF FinalizeResumed, Goto, TypeOK, ThreadKnown, Calls, Idle, Pcs, HoldsSlot, ThreadState
<1>8. CASE ResumeEffects(c)
  BY <1>8 DEF ResumeEffects, Goto, TypeOK, ThreadKnown, Calls, Idle, Pcs, HoldsSlot, ThreadState
<1>9. CASE Commit(c)
  <2>1. call[c].thread \in Threads /\ CommitKey(c) \in Keys \ {RootPath}
    BY <1>9, DistinctAssumption DEF Commit, CommitKey, ThreadKnown, TypeOK, Calls, Keys
  <2> QED  BY <1>9, <2>1 DEF Commit, Goto, TypeOK, ThreadKnown, Calls, Pcs
<1>10. CASE AbandonReservation(c)
  BY <1>10 DEF AbandonReservation, Goto, TypeOK, ThreadKnown, Calls, Idle, Pcs, HoldsSlot, ThreadState
<1>11. CASE DropPath(c)
  <2>1. agent_tree' \in [Keys -> Threads \cup {Vacant, Reserved}]
    BY <1>11 DEF DropPath, TypeOK
  <2>2. call' \in [Callers -> Calls] /\ ThreadKnown'
    BY <1>11 DEF DropPath, Goto, TypeOK, ThreadKnown, Calls, Pcs, HoldsSlot
  <2> QED  BY <1>11, <2>1, <2>2 DEF DropPath, TypeOK
<1>12. CASE DropCount(c)
  BY <1>12 DEF DropCount, TypeOK, ThreadKnown, Calls, Idle, Pcs, HoldsSlot
<1>13. CASE FinishSpawn(c)
  BY <1>13 DEF FinishSpawn, Goto, TypeOK, ThreadKnown, Calls, Idle, Pcs, HoldsSlot, ThreadState
<1>14. ASSUME NEW t \in Threads, SendToDead(c, t)
      PROVE  TypeOK' /\ ThreadKnown'
  BY <1>14 DEF SendToDead, Goto, TypeOK, ThreadKnown, Calls, Idle, Pcs, HoldsSlot, ThreadState
<1>15. ASSUME NEW t \in Threads, BeginClose(c, t)
      PROVE  TypeOK' /\ ThreadKnown'
  BY <1>15 DEF BeginClose, LiveDescendants, TypeOK, ThreadKnown, Calls, Idle, Pcs, HoldsSlot, ThreadState
<1>16. CASE ShutdownAgent(c)
  <2>1. call' \in [Callers -> Calls]
    BY <1>16 DEF ShutdownAgent, Goto, TypeOK, Calls, Pcs
  <2>2. ThreadKnown'
    BY <1>16 DEF ShutdownAgent, Goto, TypeOK, ThreadKnown, Calls
  <2>3. threads' \in [Threads -> ThreadState]
    BY <1>16 DEF ShutdownAgent, TypeOK, ThreadState
  <2>4. QED
    BY <1>16, <2>1, <2>2, <2>3 DEF ShutdownAgent, TypeOK
<1>17. CASE ShutdownFlushFails(c)
  <2>1. CASE NextTarget(c)
    BY <1>17, <2>1, NextTargetCall DEF ShutdownFlushFails, TypeOK, ThreadKnown
  <2>2. CASE call' = [call EXCEPT ![c] = Idle]
    BY <1>17, <2>2 DEF ShutdownFlushFails, TypeOK, ThreadKnown, Calls, Idle, Pcs, HoldsSlot
  <2>3. QED
    BY <1>17, <2>1, <2>2 DEF ShutdownFlushFails
<1>18. CASE RemoveThread(c)
  <2>1. call' \in [Callers -> Calls]
    BY <1>18 DEF RemoveThread, Goto, TypeOK, Calls, Pcs
  <2>2. ThreadKnown'
    BY <1>18 DEF RemoveThread, Goto, TypeOK, ThreadKnown, Calls
  <2>3. threads' \in [Threads -> ThreadState]
    BY <1>18 DEF RemoveThread, TypeOK, ThreadState
  <2>4. QED
    BY <1>18, <2>1, <2>2, <2>3 DEF RemoveThread, TypeOK
<1>19. CASE ReleaseEntry(c)
  <2>1. NextTarget(c) \/ Goto(c, "releaseCount")
    BY <1>19 DEF ReleaseEntry
  <2>2. call' \in [Callers -> Calls] /\ ThreadKnown'
    <3>1. CASE NextTarget(c)
      BY <3>1, NextTargetCall DEF ThreadKnown
    <3>2. CASE Goto(c, "releaseCount")
      <4>1. call' \in [Callers -> Calls]
        BY <3>2 DEF Goto, TypeOK, Calls, Pcs
      <4>2. ThreadKnown'
        BY <3>2 DEF Goto, TypeOK, ThreadKnown, Calls
      <4>3. QED
        BY <4>1, <4>2
    <3>3. QED
      BY <2>1, <3>1, <3>2
  <2>3. agent_tree' \in [Keys -> Threads \cup {Vacant, Reserved}]
    BY <1>19 DEF ReleaseEntry, KeysOf, TypeOK
  <2>4. QED
    BY <1>19, <2>2, <2>3 DEF ReleaseEntry, TypeOK
<1>20. CASE ReleaseCount(c)
  BY <1>20, NextTargetCall DEF ReleaseCount, TypeOK, ThreadKnown
<1>21. CASE CancelCall(c)
  BY <1>21 DEF CancelCall, Goto, TypeOK, ThreadKnown, Calls, Idle, Pcs, HoldsSlot, ThreadState
<1>22. QED
  BY <1>1, <1>2, <1>3, <1>4, <1>5, <1>6, <1>7, <1>8, <1>9, <1>10, <1>11, <1>12, <1>13, <1>14, <1>15,
     <1>16, <1>17, <1>18, <1>19, <1>20, <1>21, ResumableAssumption DEF CallStep

\* Every step of a tool call keeps the slots covered.
LEMMA CallStepSlotInv ==
    ASSUME SlotInv, NEW c \in Callers, CallStep(c)
    PROVE  SlotInv'
<1>1. SlotsCovered' /\ total_count' \in 0..MaxThreads
  <2> USE DEF SlotInv
  <2>1. CASE Leaves
    BY <2>1, CoveredUnchanged DEF Leaves, TypeOK
  <2>2. CASE Takes(c)
    <3>1. total_count' \in 0..MaxThreads
      BY <2>2, MaxThreadsAssumption DEF Takes, TypeOK
    <3> QED  BY <2>2, <3>1, CoveredTake DEF Takes
  <2>3. CASE Gives(c)
    BY <2>3, CoveredGive DEF Gives
  <2>4. CASE Commits(c)
    BY <2>4, CoveredCommit DEF Commits, TypeOK
  <2>5. CASE Releases(c)
    BY <2>5, CoveredRelease DEF Releases, TypeOK
  <2> QED  BY <2>1, <2>2, <2>3, <2>4, <2>5, CallStepSlots
<1> QED  BY <1>1, CallStepTypes DEF SlotInv

\* Every step keeps the counter covering the tree and the reservations.
LEMMA NextSlotInv ==
    ASSUME SlotInv, [Next]_vars
    PROVE  SlotInv'
<1>1. ASSUME NEW c \in Callers, CallStep(c) PROVE SlotInv'
  BY <1>1, CallStepSlotInv
<1>2. ASSUME NEW t \in Threads, ThreadDies(t) PROVE SlotInv'
  <2>1. TypeOK' /\ ThreadKnown'
    BY <1>2 DEF SlotInv, ThreadDies, TypeOK, ThreadKnown, ThreadState
  <2>2. Counted' = Counted /\ SlotHolders' = SlotHolders /\ total_count' = total_count
    BY <1>2 DEF ThreadDies, Counted, SlotHolders
  <2>3. QED
    BY <2>1, <2>2, CoveredUnchanged DEF SlotInv
<1>3. CASE UNCHANGED vars
  <2>1. TypeOK' /\ ThreadKnown' /\ SlotsCovered'
    BY <1>3 DEF SlotInv, vars, TypeOK, ThreadKnown, SlotsCovered, Counted, SlotHolders
  <2>2. QED
    BY <2>1 DEF SlotInv
<1>4. QED
  BY <1>1, <1>2, <1>3 DEF Next

\* For every number of callers, threads and paths, total_count never exceeds the
\* limit, never underflows, and covers the registered agents and the reservations.
THEOREM SlotsAlwaysCovered == Spec => [](TypeOK /\ SlotsCovered)
<1>1. Init => SlotInv
  BY InitSlotInv
<1>2. SlotInv /\ [Next]_vars => SlotInv'
  BY NextSlotInv
<1>3. SlotInv => TypeOK /\ SlotsCovered
  BY DEF SlotInv
<1>4. QED
  BY <1>1, <1>2, <1>3, PTL DEF Spec
-----------------------------------------------------------------------------
(* Reserved paths *)

\* No call takes a path and no placeholder of a call that holds on goes.
LEMMA PathsKept ==
    ASSUME PathHeldByOne,
           \A d \in Callers : call'[d].pc \in HoldsPath =>
               call[d].pc \in HoldsPath /\ call'[d].path = call[d].path,
           \A d \in Callers : (call'[d].pc \in HoldsPath /\ call'[d].path # NoPath) =>
               agent_tree'[call'[d].path] = agent_tree[call'[d].path]
    PROVE  PathHeldByOne'
BY DEF PathHeldByOne

\* A step of a call keeps paths apart.
LEMMA CallStepPaths ==
    ASSUME SlotInv, PathHeldByOne, NEW c \in Callers, CallStep(c)
    PROVE  PathHeldByOne'
<1> USE DEF SlotInv
<1> DEFINE Same == \A d \in Callers : d # c => call'[d] = call[d]
           Keeps == call'[c].pc \in HoldsPath =>
                        call[c].pc \in HoldsPath /\ call'[c].path = call[c].path
<1>1. ASSUME Same, Keeps, agent_tree' = agent_tree
      PROVE  PathHeldByOne'
  BY <1>1, PathsKept
<1>2. ASSUME NextTarget(c) PROVE Same /\ Keeps
  BY <1>2, NextTargetCall DEF HoldsPath
<1>3. ASSUME call' = [call EXCEPT ![c] = Idle] PROVE Same /\ Keeps
  BY <1>3 DEF TypeOK, Idle, HoldsPath
<1>4. ASSUME NEW pc \in Pcs, Goto(c, pc), pc \in HoldsPath => call[c].pc \in HoldsPath
      PROVE  Same /\ Keeps
  BY <1>4 DEF Goto, TypeOK, Calls
<1>5. ASSUME NEW from \in Threads, NEW path \in Paths \cup {NoPath}, BeginSpawn(c, from, path)
      PROVE  PathHeldByOne'
  BY <1>1, <1>5 DEF BeginSpawn, TypeOK, Idle, HoldsPath
<1>6. ASSUME NEW from \in Threads, NEW t \in Threads, BeginResume(c, from, t)
      PROVE  PathHeldByOne'
  BY <1>1, <1>6 DEF BeginResume, TypeOK, Idle, HoldsPath
<1>7. ASSUME NEW t \in Threads, StartThread(c, t)
      PROVE  PathHeldByOne'
  <2>1. Same /\ Keeps
    BY <1>7 DEF StartThread, TypeOK, Calls, HoldsPath
  <2> QED  BY <1>1, <1>7, <2>1 DEF StartThread
<1>8. ASSUME NEW t \in Threads, SendToDead(c, t) \/ BeginClose(c, t)
      PROVE  PathHeldByOne'
  <2>1. Same /\ Keeps
    <3>1. CASE SendToDead(c, t)
      BY <3>1 DEF SendToDead, TypeOK, Idle, HoldsPath
    <3>2. CASE BeginClose(c, t)
      BY <3>2 DEF BeginClose, TypeOK, Idle, HoldsPath
    <3> QED  BY <1>8, <3>1, <3>2
  <2> QED  BY <1>1, <1>8, <2>1 DEF SendToDead, BeginClose
<1>9. CASE LookupResumed(c) \/ FinalizeResumed(c) \/ ResumeEffects(c) \/ AbandonReservation(c)
  <2>1. PICK pc \in Pcs : Goto(c, pc) /\ (pc \in HoldsPath => call[c].pc \in HoldsPath)
    BY <1>9 DEF LookupResumed, FinalizeResumed, ResumeEffects, AbandonReservation, HoldsPath,
                Pcs, HoldsSlot
  <2>2. agent_tree' = agent_tree
    BY <1>9 DEF LookupResumed, FinalizeResumed, ResumeEffects, AbandonReservation
  <2> QED  BY <1>1, <1>4, <2>1, <2>2
<1>10. CASE ShutdownAgent(c) \/ RemoveThread(c)
  BY <1>1, <1>4, <1>10 DEF ShutdownAgent, RemoveThread, Pcs, HoldsPath
<1>11. CASE FinishSpawn(c)
  BY <1>1, <1>3, <1>4, <1>11 DEF FinishSpawn, Pcs, HoldsPath
<1>12. CASE DropCount(c) \/ CancelCall(c)
  BY <1>1, <1>3, <1>12 DEF DropCount, CancelCall
<1>13. CASE ShutdownFlushFails(c) \/ ReleaseCount(c)
  BY <1>1, <1>2, <1>3, <1>13 DEF ShutdownFlushFails, ReleaseCount
<1>14. CASE PathOccupied(c)
  <2>1. Same /\ Keeps
    BY <1>4, <1>14 DEF PathOccupied, Pcs, HoldsSlot, HoldsPath
  <2>2. \A k \in Paths : agent_tree'[k] = agent_tree[k]
    BY <1>14, DistinctAssumption DEF PathOccupied, RootRegistered, TypeOK, Keys
  <2>3. \A d \in Callers : call'[d].pc \in HoldsPath => call[d].pc \in HoldsPath /\ call'[d].path = call[d].path
    BY <2>1
  <2>4. \A d \in Callers : (call'[d].pc \in HoldsPath /\ call'[d].path # NoPath) => call'[d].path \in Paths
    BY <2>3 DEF TypeOK, Calls
  <2> QED  BY <2>2, <2>3, <2>4, PathsKept
<1>15. CASE PrepareThreadSpawn(c)
  <2>1. /\ call[c].pc = "reserved" /\ call'[c].pc = "prepared" /\ call'[c].path = call[c].path
        /\ call[c].path \in Paths \cup {NoPath} /\ Same
    BY <1>15 DEF PrepareThreadSpawn, Goto, TypeOK, Calls
  <2>2. \A k \in Paths : agent_tree'[k] = IF k = call[c].path THEN Reserved ELSE agent_tree[k]
    BY <1>15, <2>1, DistinctAssumption DEF PrepareThreadSpawn, RootRegistered, TypeOK, Keys
  <2>3. \A d \in Callers : (call[d].pc \in HoldsPath /\ call[d].path # NoPath) =>
                               call[d].path \in Paths /\ call[d].path # call[c].path
    BY <1>15, <2>1, DistinctAssumption DEF PrepareThreadSpawn, PathHeldByOne, TypeOK, Calls
  <2> QED  BY <2>1, <2>2, <2>3 DEF PathHeldByOne
<1>16. ASSUME call[c].pc \in HoldsPath, call'[c].pc \notin HoldsPath, Same,
              \A k \in Paths : agent_tree'[k] = agent_tree[k] \/ k = call[c].path
       PROVE  PathHeldByOne'
  <2>1. \A d \in Callers : (call[d].pc \in HoldsPath /\ call[d].path # NoPath) => call[d].path \in Paths
    BY DEF TypeOK, Calls
  <2>2. \A d \in Callers : call'[d].pc \in HoldsPath => d # c /\ call'[d] = call[d]
    BY <1>16
  <2>3. \A d \in Callers : (d # c /\ call[d].pc \in HoldsPath /\ call[d].path # NoPath) =>
                               call[d].path # call[c].path
    BY <1>16 DEF PathHeldByOne
  <2> QED  BY <1>16, <2>1, <2>2, <2>3 DEF PathHeldByOne
<1>17. CASE Commit(c)
  <2>1. call[c].pc = "started" /\ call'[c].pc = "post" /\ Same
    BY <1>17 DEF Commit, Goto, TypeOK, Calls
  <2>2. call[c].thread \in Threads
    BY <2>1 DEF ThreadKnown
  <2>3. \A k \in Paths : agent_tree'[k] = agent_tree[k] \/ k = call[c].path
    BY <1>17, <2>2, DistinctAssumption DEF Commit, CommitKey, TypeOK, Keys
  <2> QED  BY <1>16, <2>1, <2>3 DEF HoldsPath
<1>18. CASE DropPath(c)
  <2>1. call[c].pc = "dropPath" /\ call'[c].pc = "dropCount" /\ Same
    BY <1>18 DEF DropPath, Goto, TypeOK, Calls
  <2>2. \A k \in Paths : agent_tree'[k] = agent_tree[k] \/ k = call[c].path
    BY <1>18 DEF DropPath, TypeOK, Keys
  <2> QED  BY <1>16, <2>1, <2>2 DEF HoldsPath
<1>19. CASE ReleaseEntry(c)
  <2>1. Same /\ Keeps
    BY <1>2, <1>4, <1>19 DEF ReleaseEntry, Pcs, HoldsPath
  <2>2. \A k \in Keys : agent_tree[k] = Reserved => agent_tree'[k] = Reserved
    BY <1>19, DistinctAssumption DEF ReleaseEntry, KeysOf, TypeOK, Calls
  <2>3. \A d \in Callers : call'[d].pc \in HoldsPath => call[d].pc \in HoldsPath /\ call'[d].path = call[d].path
    BY <2>1
  <2>4. \A d \in Callers : (call[d].pc \in HoldsPath /\ call[d].path # NoPath) => call[d].path \in Keys
    BY DEF TypeOK, Calls, Keys
  <2> QED  BY <2>2, <2>3, <2>4 DEF PathHeldByOne
<1> QED
  BY <1>5, <1>6, <1>7, <1>8, <1>9, <1>10, <1>11, <1>12, <1>13, <1>14, <1>15, <1>17, <1>18, <1>19,
     ResumableAssumption DEF CallStep

\* Both hold of every behaviour.
LEMMA SpecSlotInv == Spec => [](SlotInv /\ PathHeldByOne)
<1>1. Init => SlotInv /\ PathHeldByOne
  BY InitSlotInv DEF Init, PathHeldByOne, Idle, HoldsPath
<1>2. SlotInv /\ PathHeldByOne /\ [Next]_vars => (SlotInv /\ PathHeldByOne)'
  <2> SUFFICES ASSUME SlotInv, PathHeldByOne, [Next]_vars
               PROVE  PathHeldByOne'
    BY NextSlotInv
  <2>1. CASE UNCHANGED vars \/ \E t \in Threads : ThreadDies(t)
    BY <2>1 DEF vars, ThreadDies, PathHeldByOne
  <2> QED  BY <2>1, CallStepPaths DEF Next
<1> QED  BY <1>1, <1>2, PTL DEF Spec

\* For every number of callers, threads and paths, total_count stays within the
\* limit and the calls, the tree and the threads keep their types.
THEOREM AgentsTyped == Spec => []TypeOK
<1>1. SlotInv => TypeOK
  BY DEF SlotInv
<1> QED  BY <1>1, SpecSlotInv, PTL

\* reserve_agent_path: two calls never hold one path, and the placeholder of a
\* call stays in the tree until that call commits or drops it.
THEOREM PathsHeldByOne == Spec => []PathHeldByOne
BY SpecSlotInv, PTL
-----------------------------------------------------------------------------
(* Without resumes *)

\* What a call knows: its threads have been handed out, the one it will commit
\* is not registered yet, and the one it releases does not run.
CallInv(c) ==
    /\ call[c].op # "resume" /\ call[c].pc \notin {"respawning", "resumed"}
    /\ call[c].thread \in used \cup {NoThread} /\ call[c].todo \subseteq used
    /\ call[c].pc = "started" =>
           /\ call[c].thread \in Threads \ {Root}
           /\ \A k \in Keys : agent_tree[k] # call[c].thread
    /\ call[c].pc \in {"post", "shutdown", "remove", "release"} => call[c].thread \in Threads
    /\ call[c].pc = "release" => threads[call[c].thread] # "running"

StartedApart ==
    \A c, d \in Callers :
        (c # d /\ call[c].pc = "started" /\ call[d].pc = "started") =>
            call[c].thread # call[d].thread

\* Threads that live or are registered have been handed out, and a thread key
\* holds its own thread.
UsedInv ==
    /\ Root \in used
    /\ \A t \in Threads : threads[t] # "absent" => t \in used
    /\ \A k \in Keys : agent_tree[k] \in Threads => agent_tree[k] \in used
    /\ \A k \in Threads : agent_tree[k] \in {k, Vacant}

\* An agent that runs has a slot: it is registered, or about to be.
RunInv ==
    \A t \in RunningAgents : \/ \E k \in Counted : agent_tree[k] = t
                             \/ \E c \in Callers : call[c].pc = "started" /\ call[c].thread = t

\* The counter is the registered agents and the slots in flight.
Exact == Cardinality(Counted) + Cardinality(SlotHolders) = total_count

SpawnInv ==
    /\ SlotInv /\ PathHeldByOne /\ Exact
    /\ \A c \in Callers : CallInv(c)
    /\ StartedApart /\ UsedInv /\ RunInv

\* The counter stays exact unless a commit registers a thread that is already
\* counted.
LEMMA ExactKept ==
    ASSUME SlotInv, Exact, NEW c,
           \/ Leaves \/ Takes(c) \/ Gives(c) \/ Releases(c)
           \/ Commits(c) /\ CommitKey(c) \notin Counted
    PROVE  Exact'
<1>1. /\ IsFiniteSet(Counted) /\ Cardinality(Counted) \in Nat
      /\ IsFiniteSet(SlotHolders) /\ Cardinality(SlotHolders) \in Nat
  BY SlotSetsFinite DEF SlotInv
<1>2. /\ \A k \in Counted : Cardinality(Counted \ {k}) = Cardinality(Counted) - 1
      /\ \A k : k \notin Counted => Cardinality(Counted \cup {k}) = Cardinality(Counted) + 1
  BY <1>1, FS_AddElement, FS_RemoveElement
<1>3. /\ c \in SlotHolders => Cardinality(SlotHolders \ {c}) = Cardinality(SlotHolders) - 1
      /\ c \notin SlotHolders => Cardinality(SlotHolders \cup {c}) = Cardinality(SlotHolders) + 1
  BY <1>1, FS_AddElement, FS_RemoveElement
<1>4. CASE Leaves
  BY <1>4 DEF Leaves, Exact
<1>5. CASE Takes(c)
  BY <1>1, <1>3, <1>5 DEF Takes, Exact
<1>6. CASE Gives(c)
  BY <1>1, <1>3, <1>6 DEF Gives, Exact
<1>7. CASE Releases(c)
  <2>1. PICK k \in Counted : Counted' = Counted \ {k}
    BY <1>7 DEF Releases
  <2>2. Cardinality(Counted') = Cardinality(Counted) - 1
    BY <1>2, <2>1
  <2>3. Cardinality(SlotHolders') = Cardinality(SlotHolders) + 1 /\ total_count' = total_count
    BY <1>3, <1>7 DEF Releases
  <2> QED  BY <1>1, <2>2, <2>3 DEF Exact
<1>8. CASE Commits(c) /\ CommitKey(c) \notin Counted
  <2>1. Counted' = Counted \cup {CommitKey(c)}
    BY <1>8 DEF Commits
  <2>2. Cardinality(Counted') = Cardinality(Counted) + 1
    BY <1>2, <1>8, <2>1
  <2>3. Cardinality(SlotHolders') = Cardinality(SlotHolders) - 1 /\ total_count' = total_count
    BY <1>3, <1>8 DEF Commits
  <2> QED  BY <1>1, <2>2, <2>3 DEF Exact
<1> QED  BY <1>4, <1>5, <1>6, <1>7, <1>8

\* A commit overwrites no agent: its path is its own placeholder, and its thread
\* is registered nowhere.
LEMMA CommitKeyFree ==
    ASSUME SpawnInv, NEW c \in Callers, Commit(c)
    PROVE  /\ CommitKey(c) \in Keys \ {RootPath} /\ call[c].thread \in Threads \ {Root}
           /\ agent_tree[CommitKey(c)] \in {Vacant, Reserved}
           /\ CommitKey(c) \in Threads => CommitKey(c) = call[c].thread
<1>1. /\ TypeOK /\ call[c].pc = "started" /\ call[c].thread \in Threads \ {Root}
      /\ \A k \in Keys : agent_tree[k] # call[c].thread
  BY DEF SpawnInv, SlotInv, CallInv, Commit
<1>2. CASE call[c].path = NoPath
  BY <1>1, <1>2, DistinctAssumption DEF SpawnInv, UsedInv, CommitKey, Keys
<1>3. CASE call[c].path # NoPath
  <2>1. call[c].path \in Paths
    BY <1>1, <1>3 DEF TypeOK, Calls
  <2> QED  BY <1>1, <1>3, <2>1, DistinctAssumption
              DEF SpawnInv, PathHeldByOne, HoldsPath, CommitKey, Keys
<1> QED  BY <1>2, <1>3

\* What a call may do to the threads, the tree and the other calls.
Frame(c) ==
    /\ \A d \in Callers : d # c => call'[d] = call[d]
    /\ used \subseteq used'
    /\ \A t \in Threads : threads'[t] # "absent" => threads[t] # "absent" \/ t \in used'
    /\ \A t \in used : threads'[t] = "running" => threads[t] = "running"
    /\ \A k \in Keys : \/ agent_tree'[k] = agent_tree[k]
                       \/ k \notin Threads /\ agent_tree[k] = Vacant /\ agent_tree'[k] = Reserved
                       \/ k = RootPath /\ agent_tree[k] = Vacant /\ agent_tree'[k] = Root
                       \/ agent_tree[k] = Reserved /\ agent_tree'[k] = Vacant
                       \/ /\ call[c].pc = "release" /\ agent_tree[k] = call[c].thread
                          /\ agent_tree'[k] = Vacant
                       \/ Commit(c) /\ k = CommitKey(c) /\ agent_tree'[k] = call[c].thread

\* A step of a call stays within its frame.
LEMMA CallStepFrame ==
    ASSUME resumed' = {}, SpawnInv, NEW c \in Callers, CallStep(c)
    PROVE  Frame(c)
<1>1. TypeOK /\ CallInv(c) /\ used \subseteq Threads
  BY DEF SpawnInv, SlotInv, TypeOK
<1>2. ASSUME NEW from \in Threads, NEW path \in Paths \cup {NoPath}, BeginSpawn(c, from, path)
      PROVE  Frame(c)
  BY <1>1, <1>2 DEF BeginSpawn, Frame, TypeOK
<1>3. CASE PrepareThreadSpawn(c) \/ PathOccupied(c)
  <2>1. /\ \A d \in Callers : d # c => call'[d] = call[d]
        /\ UNCHANGED <<used, threads>>
    BY <1>1, <1>3 DEF PrepareThreadSpawn, PathOccupied, Goto, TypeOK
  <2>2. \A k \in Keys :
             \/ agent_tree'[k] = agent_tree[k]
             \/ k \notin Threads /\ agent_tree[k] = Vacant /\ agent_tree'[k] = Reserved
             \/ k = RootPath /\ agent_tree[k] = Vacant /\ agent_tree'[k] = Root
    <3>1. call[c].path \in Paths \cup {NoPath}
      BY <1>1 DEF TypeOK, Calls
    <3> QED  BY <1>1, <1>3, <3>1, DistinctAssumption
                DEF PrepareThreadSpawn, PathOccupied, RootRegistered, TypeOK, Keys
  <2> QED  BY <2>1, <2>2 DEF Frame
<1>4. ASSUME NEW t \in Threads, StartThread(c, t)
      PROVE  Frame(c)
  BY <1>1, <1>4 DEF StartThread, Frame, TypeOK
<1>5. CASE LookupResumed(c) \/ FinalizeResumed(c) \/ ResumeEffects(c)
  BY <1>1, <1>5 DEF LookupResumed, FinalizeResumed, ResumeEffects, CallInv
<1>6. CASE Commit(c)
  BY <1>1, <1>6 DEF Commit, Goto, Frame, TypeOK
<1>7. CASE AbandonReservation(c) \/ DropCount(c) \/ FinishSpawn(c) \/ CancelCall(c)
  BY <1>1, <1>7 DEF AbandonReservation, DropCount, FinishSpawn, CancelCall, Goto, Frame, TypeOK
<1>8. CASE DropPath(c)
  BY <1>1, <1>8 DEF DropPath, Goto, Frame, TypeOK
<1>9. ASSUME NEW t \in Threads, SendToDead(c, t) \/ BeginClose(c, t)
      PROVE  Frame(c)
  BY <1>1, <1>9 DEF SendToDead, BeginClose, Frame, TypeOK
<1>10. CASE ShutdownAgent(c) \/ RemoveThread(c)
  BY <1>1, <1>10 DEF ShutdownAgent, RemoveThread, Goto, Frame, TypeOK
<1>11. CASE ShutdownFlushFails(c) \/ ReleaseCount(c)
  <2>1. \A d \in Callers : d # c => call'[d] = call[d]
    BY <1>1, <1>11, NextTargetCall DEF ShutdownFlushFails, ReleaseCount, TypeOK
  <2> QED  BY <1>1, <1>11, <2>1 DEF ShutdownFlushFails, ReleaseCount, Frame
<1>12. CASE ReleaseEntry(c)
  <2>1. \A d \in Callers : d # c => call'[d] = call[d]
    BY <1>1, <1>12, NextTargetCall DEF ReleaseEntry, Goto, TypeOK
  <2>2. \A k \in Keys : agent_tree'[k] = agent_tree[k] \/ (agent_tree[k] = call[c].thread /\ agent_tree'[k] = Vacant)
    BY <1>1, <1>12 DEF ReleaseEntry, KeysOf, TypeOK
  <2> QED  BY <1>1, <1>12, <2>1, <2>2 DEF ReleaseEntry, Frame
<1>13. ~ \E from \in Threads, t \in Resumable : BeginResume(c, from, t)
  BY DEF BeginResume
<1> QED
  BY <1>2, <1>3, <1>4, <1>5, <1>6, <1>7, <1>8, <1>9, <1>10, <1>11, <1>12, <1>13 DEF CallStep

\* An agent that runs keeps its entry.
EntriesKept ==
    \A k \in Keys : (agent_tree[k] \in Threads /\ agent_tree'[k] # agent_tree[k])
                        => threads[agent_tree[k]] # "running"

\* Within its frame a call removes no running agent's entry.
LEMMA FrameEntries ==
    ASSUME SpawnInv, NEW c \in Callers, Frame(c)
    PROVE  EntriesKept
<1>1. call[c].pc = "release" => threads[call[c].thread] # "running"
  BY DEF SpawnInv, CallInv
<1>2. Commit(c) => agent_tree[CommitKey(c)] \in {Vacant, Reserved}
  BY CommitKeyFree
<1> QED  BY <1>1, <1>2, DistinctAssumption DEF Frame, EntriesKept

\* ... and what the other calls rely on still holds.
LEMMA FrameOthers ==
    ASSUME SpawnInv, NEW c \in Callers, Frame(c)
    PROVE  UsedInv' /\ \A d \in Callers : d # c => CallInv(d)'
<1>1. /\ TypeOK /\ UsedInv /\ StartedApart /\ used \subseteq Threads
      /\ \A d \in Callers : CallInv(d)
  BY DEF SpawnInv, SlotInv, TypeOK
<1>2. Commit(c) => /\ call[c].thread \in Threads \ {Root} /\ call[c].thread \in used
                   /\ CommitKey(c) \in Threads => CommitKey(c) = call[c].thread
  BY <1>1, CommitKeyFree, DistinctAssumption DEF CallInv
<1>3. UsedInv'
  <2>1. Root \in used' /\ \A t \in Threads : threads'[t] # "absent" => t \in used'
    BY <1>1 DEF UsedInv, Frame
  <2>2. \A k \in Keys : agent_tree'[k] \in Threads => agent_tree'[k] \in used'
    BY <1>1, <1>2, DistinctAssumption DEF UsedInv, Frame
  <2>3. \A k \in Threads : agent_tree'[k] \in {k, Vacant}
    BY <1>1, <1>2, DistinctAssumption DEF UsedInv, Frame, Keys
  <2> QED  BY <2>1, <2>2, <2>3 DEF UsedInv
<1>4. ASSUME NEW d \in Callers, d # c
      PROVE  CallInv(d)'
  <2>1. CallInv(d) /\ call'[d] = call[d]
    BY <1>1, <1>4 DEF Frame
  <2>2. ASSUME call[d].pc = "started", NEW k \in Keys
        PROVE  agent_tree'[k] # call[d].thread
    <3>1. call[d].thread \in Threads \ {Root} /\ agent_tree[k] # call[d].thread
      BY <2>1, <2>2 DEF CallInv
    <3>2. Commit(c) => call[c].thread # call[d].thread
      BY <1>1, <1>4, <2>2 DEF Commit, StartedApart
    <3> QED  BY <3>1, <3>2, DistinctAssumption DEF Frame
  <2>3. call[d].pc = "release" => threads'[call[d].thread] # "running"
    <3>1. call[d].pc = "release" => call[d].thread \in used
      BY <2>1, DistinctAssumption DEF CallInv
    <3> QED  BY <2>1, <3>1 DEF CallInv, Frame
  <2> QED  BY <2>1, <2>2, <2>3 DEF CallInv, Frame
<1> QED  BY <1>3, <1>4

\* live_thread_spawn_descendants lists threads the manager holds.
LEMMA DescendantsUsed ==
    ASSUME TypeOK, UsedInv, NEW t \in Threads
    PROVE  LiveDescendants(t) \subseteq used
<1> SUFFICES ASSUME NEW u \in LiveDescendants(t)
             PROVE  u \in used
  OBVIOUS
<1> DEFINE S == {v \in Threads : v = t \/ threads[v] # "absent"}
<1>1. /\ S \in SUBSET Threads /\ t \in S
      /\ \A v \in Threads : (threads[v] # "absent" /\ parent[v] \in S) => v \in S
  OBVIOUS
<1>2. u \in S /\ u # t
  <2> HIDE DEF S
  <2> QED  BY <1>1 DEF LiveDescendants
<1> QED  BY <1>2 DEF UsedInv

\* What a step does to its own call; a thread is handed out only with the call
\* that will commit it.
Own(c) ==
    /\ CallInv(c)'
    /\ call[c].pc = "started" => Commit(c)
    /\ call'[c].pc = "started" => call'[c].thread \notin used
    /\ \A t \in used' \ used : call'[c].pc = "started" /\ call'[c].thread = t

\* Going on to the next agent of a tree-wide operation keeps the call's own
\* invariant.
LEMMA NextTargetOwn ==
    ASSUME SpawnInv, NEW c \in Callers, NextTarget(c), call[c].pc # "started", used' = used
    PROVE  Own(c)
<1>1. TypeOK /\ CallInv(c) /\ used \subseteq Threads
  BY DEF SpawnInv, SlotInv, TypeOK
<1>2. CASE call' = [call EXCEPT ![c] = Idle]
  BY <1>1, <1>2 DEF TypeOK, Idle, Own, CallInv
<1>3. ASSUME NEW u \in call[c].todo,
             call' = [call EXCEPT ![c].pc = "shutdown", ![c].thread = u,
                                  ![c].todo = call[c].todo \ {u}]
      PROVE  Own(c)
  <2>1. /\ call'[c].pc = "shutdown" /\ call'[c].thread = u /\ call'[c].op = call[c].op
        /\ call'[c].todo \subseteq call[c].todo
    BY <1>1, <1>3 DEF TypeOK, Calls
  <2> QED  BY <1>1, <1>3, <2>1 DEF Own, CallInv
<1> QED  BY <1>2, <1>3 DEF NextTarget

\* A step of a call keeps its own invariant.
LEMMA CallStepOwn ==
    ASSUME resumed' = {}, SpawnInv, NEW c \in Callers, CallStep(c)
    PROVE  Own(c)
<1>1. TypeOK /\ CallInv(c) /\ UsedInv /\ used \subseteq Threads
  BY DEF SpawnInv, SlotInv, TypeOK
<1>2. ASSUME call' = [call EXCEPT ![c] = Idle], call[c].pc # "started", used' = used
      PROVE  Own(c)
  BY <1>1, <1>2 DEF TypeOK, Idle, Own, CallInv
<1>3. ASSUME NEW pc \in Pcs, Goto(c, pc), call[c].pc # "started", used' = used,
             pc \notin {"started", "respawning", "resumed"},
             pc \in {"post", "shutdown", "remove", "release"} => call[c].thread \in Threads,
             pc = "release" => threads'[call[c].thread] # "running"
      PROVE  Own(c)
  <2>1. /\ call'[c].pc = pc /\ call'[c].thread = call[c].thread /\ call'[c].op = call[c].op
        /\ call'[c].todo = call[c].todo
    BY <1>1, <1>3 DEF Goto, TypeOK, Calls
  <2> QED  BY <1>1, <1>3, <2>1 DEF Own, CallInv
<1>4. ASSUME NEW from \in Threads, NEW path \in Paths \cup {NoPath}, BeginSpawn(c, from, path)
      PROVE  Own(c)
  BY <1>1, <1>4 DEF BeginSpawn, TypeOK, Idle, Own, CallInv
<1>5. CASE PrepareThreadSpawn(c) \/ PathOccupied(c)
  BY <1>3, <1>5 DEF PrepareThreadSpawn, PathOccupied, Pcs, HoldsSlot
<1>6. ASSUME NEW t \in Threads, StartThread(c, t)
      PROVE  Own(c)
  <2>1. /\ call[c].pc = "prepared" /\ call'[c].pc = "started" /\ call'[c].thread = t
        /\ call'[c].op = call[c].op /\ call'[c].todo = call[c].todo
        /\ t \notin used /\ used' = used \cup {t} /\ agent_tree' = agent_tree
    BY <1>1, <1>6 DEF StartThread, TypeOK, Calls
  <2>2. t # Root /\ \A k \in Keys : agent_tree[k] # t
    BY <1>1, <2>1 DEF UsedInv
  <2> QED  BY <1>1, <2>1, <2>2 DEF Own, CallInv
<1>7. CASE LookupResumed(c) \/ FinalizeResumed(c) \/ ResumeEffects(c)
  BY <1>1, <1>7 DEF LookupResumed, FinalizeResumed, ResumeEffects, CallInv
<1>8. CASE Commit(c)
  <2>1. /\ call[c].pc = "started" /\ call'[c].pc = "post" /\ call'[c].thread = call[c].thread
        /\ call'[c].op = call[c].op /\ call'[c].todo = call[c].todo /\ used' = used
    BY <1>1, <1>8 DEF Commit, Goto, TypeOK, Calls
  <2> QED  BY <1>1, <1>8, <2>1 DEF Own, CallInv
<1>9. CASE AbandonReservation(c) \/ DropPath(c)
  <2>1. \E pc \in {"dropCount", "dropPath"} : Goto(c, pc)
    BY <1>9 DEF AbandonReservation, DropPath
  <2> QED  BY <1>3, <1>9, <2>1 DEF AbandonReservation, DropPath, Pcs, HoldsSlot
<1>10. CASE DropCount(c) \/ CancelCall(c)
  BY <1>2, <1>10 DEF DropCount, CancelCall
<1>11. CASE FinishSpawn(c)
  <2>1. call[c].thread \in Threads
    BY <1>1, <1>11 DEF FinishSpawn, CallInv
  <2> QED  BY <1>2, <1>3, <1>11, <2>1 DEF FinishSpawn, Pcs
<1>12. ASSUME NEW t \in Threads, SendToDead(c, t) \/ BeginClose(c, t)
       PROVE  Own(c)
  <2>1. t \in used
    BY <1>1, <1>12 DEF SendToDead, BeginClose, UsedInv, KeysOf
  <2>2. /\ call[c].pc = "idle" /\ used' = used /\ call'[c].pc \in {"remove", "shutdown"}
        /\ call'[c].op \in {"send", "close"} /\ call'[c].thread = t
        /\ call'[c].todo \in {{}, LiveDescendants(t)}
    <3>1. CASE SendToDead(c, t)
      BY <1>1, <3>1 DEF SendToDead, TypeOK, Idle
    <3>2. CASE BeginClose(c, t)
      <4>1. call'[c] = [Idle EXCEPT !.pc = "shutdown", !.op = "close", !.thread = t,
                                    !.todo = LiveDescendants(t)]
        BY <1>1, <3>2 DEF BeginClose, TypeOK
      <4> HIDE DEF LiveDescendants
      <4> QED  BY <3>2, <4>1 DEF BeginClose, Idle
    <3> QED  BY <1>12, <3>1, <3>2
  <2>3. LiveDescendants(t) \subseteq used
    BY <1>1, DescendantsUsed
  <2> QED  BY <2>1, <2>2, <2>3 DEF Own, CallInv
<1>13. CASE ShutdownAgent(c) \/ RemoveThread(c)
  <2>1. call[c].thread \in Threads
    BY <1>1, <1>13 DEF ShutdownAgent, RemoveThread, CallInv
  <2>2. RemoveThread(c) => threads'[call[c].thread] # "running"
    BY <1>1, <2>1 DEF RemoveThread, TypeOK
  <2> QED  BY <1>3, <1>13, <2>1, <2>2 DEF ShutdownAgent, RemoveThread, Pcs
<1>14. CASE ShutdownFlushFails(c) \/ ReleaseCount(c)
  BY <1>2, <1>14, NextTargetOwn DEF ShutdownFlushFails, ReleaseCount
<1>15. CASE ReleaseEntry(c)
  BY <1>3, <1>15, NextTargetOwn DEF ReleaseEntry, Pcs
<1>16. ~ \E from \in Threads, t \in Resumable : BeginResume(c, from, t)
  BY DEF BeginResume
<1> QED
  BY <1>4, <1>5, <1>6, <1>7, <1>8, <1>9, <1>10, <1>11, <1>12, <1>13, <1>14, <1>15, <1>16
     DEF CallStep

\* Both together: a step of a call keeps the invariant.
LEMMA CallStepSpawn ==
    ASSUME resumed' = {}, SpawnInv, NEW c \in Callers, CallStep(c)
    PROVE  SpawnInv'
<1>1. /\ TypeOK /\ UsedInv /\ StartedApart /\ RunInv /\ SlotInv /\ PathHeldByOne /\ ThreadKnown
      /\ Exact /\ \A d \in Callers : CallInv(d)
  BY DEF SpawnInv, SlotInv
<1>2. Frame(c) /\ Own(c)
  BY CallStepFrame, CallStepOwn
<1>3. SlotInv' /\ PathHeldByOne' /\ TypeOK'
  BY <1>1, CallStepSlotInv, CallStepPaths DEF SlotInv
<1>4. Exact'
  <2>1. Commit(c) => CommitKey(c) \notin Counted
    BY CommitKeyFree, DistinctAssumption DEF Counted
  <2>2. Leaves \/ Takes(c) \/ Gives(c) \/ Releases(c) \/ (Commits(c) /\ CommitKey(c) \notin Counted)
    BY <1>1, <2>1, CallStepSlots
  <2> QED  BY <1>1, <2>2, ExactKept
<1>5. UsedInv' /\ \A d \in Callers : CallInv(d)'
  BY <1>2, FrameOthers DEF Own
<1>6. StartedApart'
  <2>1. \A d \in Callers : (d # c /\ call'[d].pc = "started") => call'[d] = call[d] /\ call[d].thread \in used
    BY <1>1, <1>2, DistinctAssumption DEF Frame, CallInv
  <2> QED  BY <1>1, <1>2, <2>1 DEF Own, StartedApart
<1>7. RunInv'
  <2> SUFFICES ASSUME NEW t \in Threads \ {Root}, threads'[t] = "running"
               PROVE  \/ \E k \in Counted' : agent_tree'[k] = t
                      \/ \E d \in Callers : call'[d].pc = "started" /\ call'[d].thread = t
    BY DEF RunInv, RunningAgents
  <2>1. CASE t \notin used
    <3>1. t \in used' \ used
      BY <1>1, <1>2, <2>1 DEF UsedInv, Frame
    <3> QED  BY <1>2, <3>1 DEF Own
  <2>2. CASE t \in used
    <3>1. t \in RunningAgents
      BY <1>2, <2>2 DEF Frame, RunningAgents
    <3>2. ASSUME NEW k \in Counted, agent_tree[k] = t
          PROVE  k \in Counted' /\ agent_tree'[k] = t
      BY <1>2, <3>1, <3>2, FrameEntries DEF EntriesKept, Counted, RunningAgents
    <3>3. ASSUME NEW d \in Callers, d # c, call[d].pc = "started", call[d].thread = t
          PROVE  call'[d].pc = "started" /\ call'[d].thread = t
      BY <1>2, <3>3 DEF Frame
    <3>4. ASSUME call[c].pc = "started", call[c].thread = t
          PROVE  \E k \in Counted' : agent_tree'[k] = t
      <4>1. Commit(c)
        BY <1>2, <3>4 DEF Own
      <4>2. CommitKey(c) \in Keys \ {RootPath} /\ agent_tree'[CommitKey(c)] = t
        BY <1>1, <3>4, <4>1, CommitKeyFree DEF Commit, TypeOK
      <4> QED  BY <4>2 DEF Counted
    <3> QED  BY <1>1, <3>1, <3>2, <3>3, <3>4 DEF RunInv
  <2> QED  BY <2>1, <2>2
<1> QED  BY <1>3, <1>4, <1>5, <1>6, <1>7 DEF SpawnInv

\* The invariant holds at the start.
LEMMA InitSpawn == Init => SpawnInv
<1> SUFFICES ASSUME Init PROVE SpawnInv
  OBVIOUS
<1>1. SlotInv /\ PathHeldByOne
  BY InitSlotInv DEF Init, PathHeldByOne, Idle, HoldsPath
<1>2. Counted = {} /\ SlotHolders = {}
  BY DistinctAssumption DEF Init, Counted, SlotHolders, Idle, Keys, HoldsSlot
<1>3. Exact
  BY <1>2, FS_EmptySet DEF Exact, Init
<1>4. \A c \in Callers : CallInv(c)
  BY DEF Init, CallInv, Idle
<1>5. StartedApart
  BY DEF Init, StartedApart, Idle
<1>6. UsedInv
  BY DistinctAssumption DEF Init, UsedInv, Keys
<1>7. RunInv
  BY DEF Init, RunInv, RunningAgents
<1> QED  BY <1>1, <1>3, <1>4, <1>5, <1>6, <1>7 DEF SpawnInv

\* A step of no call lets at most one session end.
LEMMA OtherStepSpawn ==
    ASSUME SpawnInv, UNCHANGED vars \/ \E t \in Threads : ThreadDies(t)
    PROVE  SpawnInv'
<1>1. /\ UNCHANGED <<total_count, agent_tree, used, call>>
      /\ \A t \in Threads : \/ threads'[t] = threads[t]
                            \/ threads[t] = "running" /\ threads'[t] = "dead"
  BY DEF vars, ThreadDies, SpawnInv, SlotInv, TypeOK
<1>2. SlotInv'
  BY NextSlotInv DEF SpawnInv, Next
<1>3. PathHeldByOne' /\ Exact' /\ StartedApart'
  BY <1>1 DEF SpawnInv, PathHeldByOne, Exact, StartedApart, Counted, SlotHolders
<1>4. \A c \in Callers : CallInv(c)'
  BY <1>1 DEF SpawnInv, CallInv
<1>5. UsedInv'
  BY <1>1 DEF SpawnInv, UsedInv
<1>6. RunInv'
  BY <1>1 DEF SpawnInv, RunInv, RunningAgents, Counted
<1> QED  BY <1>2, <1>3, <1>4, <1>5, <1>6 DEF SpawnInv

\* It holds until a resume is begun.
UntilResumed == resumed = {} => SpawnInv

\* A resume that was begun is not forgotten.
LEMMA ResumedKept ==
    ASSUME Next \/ UNCHANGED vars, resumed' = {}
    PROVE  resumed = {}
<1>1. resumed' = resumed \/ \E t : resumed' = resumed \cup {t}
  <2>1. ASSUME NEW c \in Callers, CallStep(c)
        PROVE  resumed' = resumed \/ \E t : resumed' = resumed \cup {t}
    BY <2>1 DEF CallStep, BeginSpawn, BeginResume, PrepareThreadSpawn, PathOccupied, StartThread,
                LookupResumed, FinalizeResumed, ResumeEffects, Commit, AbandonReservation, DropPath,
                DropCount, FinishSpawn, SendToDead, BeginClose, ShutdownAgent, ShutdownFlushFails,
                RemoveThread, ReleaseEntry, ReleaseCount, CancelCall
  <2> QED  BY <2>1 DEF Next, ThreadDies, vars
<1> QED  BY <1>1

\* Every behaviour keeps it.
LEMMA SpecSpawn == Spec => []UntilResumed
<1>1. Init => UntilResumed
  BY InitSpawn DEF UntilResumed
<1>2. UntilResumed /\ [Next]_vars => UntilResumed'
  <2> SUFFICES ASSUME UntilResumed, Next \/ UNCHANGED vars, resumed' = {} PROVE SpawnInv'
    BY DEF UntilResumed
  <2>1. SpawnInv
    BY ResumedKept DEF UntilResumed
  <2> QED  BY <2>1, CallStepSpawn, OtherStepSpawn DEF Next
<1> QED  BY <1>1, <1>2, PTL DEF Spec

\* No slot leaks: until an agent is resumed, total_count is exactly the registered
\* agents and the slots in flight, whatever spawns, closes, failures and
\* cancellations overlap.
THEOREM SlotsAlwaysExact == Spec => []SlotsExact
<1>1. UntilResumed => SlotsExact
  BY DEF UntilResumed, SpawnInv, Exact, SlotsExact
<1> QED  BY <1>1, SpecSpawn, PTL

\* release_spawned_thread never unregisters a running agent, until one is resumed.
THEOREM NoRunningAgentUnregistered == Spec => NeverUnregisteredWhileRunning
<1>1. UntilResumed /\ [Next]_vars => [resumed = {} => EntriesKept]_vars
  <2> SUFFICES ASSUME UntilResumed, Next, resumed = {} PROVE EntriesKept
    OBVIOUS
  <2>1. SpawnInv
    BY DEF UntilResumed
  <2>2. ASSUME NEW c \in Callers, CallStep(c), resumed' = {} PROVE EntriesKept
    BY <2>1, <2>2, CallStepFrame, FrameEntries
  <2>3. ASSUME NEW c \in Callers, CallStep(c), resumed' # {} PROVE EntriesKept
    <3>1. agent_tree' = agent_tree
      BY <2>3 DEF CallStep, BeginSpawn, BeginResume, PrepareThreadSpawn, PathOccupied, StartThread,
                  LookupResumed, FinalizeResumed, ResumeEffects, Commit, AbandonReservation,
                  DropPath, DropCount, FinishSpawn, SendToDead, BeginClose, ShutdownAgent,
                  ShutdownFlushFails, RemoveThread, ReleaseEntry, ReleaseCount, CancelCall
    <3> QED  BY <3>1 DEF EntriesKept
  <2>4. ASSUME NEW t \in Threads, ThreadDies(t) PROVE EntriesKept
    BY <2>4 DEF ThreadDies, EntriesKept
  <2> QED  BY <2>2, <2>3, <2>4 DEF Next
<1> QED  BY <1>1, SpecSpawn, PTL DEF Spec, NeverUnregisteredWhileRunning, EntriesKept

\* The agents that run are named by the entries and the reservations.
LEMMA RunningCounted ==
    ASSUME SpawnInv
    PROVE  Cardinality(RunningAgents) <= MaxThreads
<1> DEFINE T1 == {agent_tree[k] : k \in Counted}
           T2 == {call[c].thread : c \in SlotHolders}
           f1 == [k \in Counted |-> agent_tree[k]]
           f2 == [c \in SlotHolders |-> call[c].thread]
<1>1. /\ IsFiniteSet(Counted) /\ Cardinality(Counted) \in Nat
      /\ IsFiniteSet(SlotHolders) /\ Cardinality(SlotHolders) \in Nat
  BY SlotSetsFinite DEF SpawnInv, SlotInv
<1>2. IsFiniteSet(T1) /\ Cardinality(T1) <= Cardinality(Counted)
  <2>1. f1 \in Surjection(Counted, T1)
    BY DEF Surjection
  <2> QED  BY <1>1, <2>1, FS_Surjection
<1>3. IsFiniteSet(T2) /\ Cardinality(T2) <= Cardinality(SlotHolders)
  <2>1. f2 \in Surjection(SlotHolders, T2)
    BY DEF Surjection
  <2> QED  BY <1>1, <2>1, FS_Surjection
<1>4. RunningAgents \in SUBSET (T1 \cup T2)
  BY DEF SpawnInv, RunInv, SlotHolders, HoldsSlot
<1> HIDE DEF T1, T2
<1>5. /\ IsFiniteSet(T1 \cup T2)
      /\ Cardinality(T1 \cup T2) = Cardinality(T1) + Cardinality(T2) - Cardinality(T1 \cap T2)
  BY <1>2, <1>3, FS_Union
<1>6. /\ Cardinality(T1) \in Nat /\ Cardinality(T2) \in Nat /\ Cardinality(T1 \cup T2) \in Nat
      /\ Cardinality(T1 \cap T2) \in Nat
  BY <1>2, <1>3, <1>5, FS_CardinalityType, FS_Intersection
<1>7. IsFiniteSet(RunningAgents) /\ Cardinality(RunningAgents) <= Cardinality(T1 \cup T2)
  BY <1>4, <1>5, FS_Subset
<1>8. Cardinality(RunningAgents) \in Nat
  BY <1>7, FS_CardinalityType
<1>9. total_count \in Nat /\ total_count <= MaxThreads
  BY MaxThreadsAssumption DEF SpawnInv, SlotInv, TypeOK
<1> QED  BY <1>1, <1>2, <1>3, <1>5, <1>6, <1>7, <1>8, <1>9, MaxThreadsAssumption
            DEF SpawnInv, Exact

\* agent_max_threads bounds the agents that run, and not only those registered,
\* until one is resumed: the inductive invariant ties each to an entry or a
\* reservation.
THEOREM RunningAgentsLimited == Spec => []RunningWithinLimit
<1>1. UntilResumed => RunningWithinLimit
  BY RunningCounted DEF UntilResumed, RunningWithinLimit
<1> QED  BY <1>1, SpecSpawn, PTL
=============================================================================
