--------------------- MODULE MemoryConsolidation_proofs ---------------------
(***************************************************************************)
(* Proofs about MemoryConsolidation: the types, and that a worker whose    *)
(* claim nobody took commits and marks only what an agent consolidated,    *)
(* for any threads, workers, sources and faults.                           *)
(***************************************************************************)
EXTENDS MemoryConsolidation, TLAPS

(***************************************************************************)
(* The inductive invariant: while clean, who is at work owns the row, so   *)
(* there is one of them, and the workspace follows its program counter.    *)
(***************************************************************************)
Memories == [Threads -> Source]
Row == [status : {"none", "pending", "running", "error", "done"},
        owner : Workers \union {"none"}, lease : BOOLEAN, backoff : BOOLEAN, cooldown : BOOLEAN]

AtWorkOwns == clean => \A w \in Workers : pc[w] \in AtWork => OwnsGlobal(w)
AtWorkHasGit ==
    clean => \A w \in Workers : pc[w] \in AtWork \ {"select"} => git
WithoutGitConsolidated == clean /\ ~git => memory = inputs
InputsAreSelection ==
    clean => \A w \in Workers : pc[w] \in {"agent", "reset"} => inputs = selection[w]
ResetAfterAgent == clean => \A w \in Workers : pc[w] = "reset" => memory = inputs

Inv ==
    /\ TypeOK /\ AtWorkOwns /\ AtWorkHasGit /\ BaselineIsConsolidated
    /\ WithoutGitConsolidated /\ InputsAreSelection /\ ResetAfterAgent /\ MarkedIsConsolidated

\* No memories at all is a function from the threads to sources.
LEMMA NothingType == Nothing \in Memories
  BY BoundsAssumption DEF Nothing, Memories, Source

\* While clean two workers at work are the same worker.
LEMMA OneAtWork ==
  ASSUME Inv, clean, NEW v \in Workers, NEW w \in Workers, pc[v] \in AtWork, pc[w] \in AtWork
  PROVE v = w
  BY DEF Inv, AtWorkOwns, OwnsGlobal

\* What is interrupted leaves functions from the threads to sources.
LEMMA PartlyType ==
  ASSUME NEW old \in Memories, NEW new \in Memories
  PROVE Partly(old, new) \subseteq Memories
  BY DEF Partly, Memories

\* enqueue_global_consolidation_with_executor keeps a row and a running owner.
LEMMA EnqueuedRow ==
  ASSUME global \in Row
  PROVE /\ Enqueued \in Row
        /\ \A w \in Workers : OwnsGlobal(w) => Enqueued = global
  BY DEF Enqueued, Row, OwnsGlobal

\* The types as separate facts.
LEMMA Types ==
  TypeOK <=>
    /\ mode \in [Threads -> Modes \union {"polluted", "deleted"}]
    /\ rollout \in [Threads -> Modes]
    /\ caller \in [Threads -> {"none", "selected", "unselected", "enqueue", "deleting"}]
    /\ extracted \in Memories
    /\ outputs \in [Threads -> [source : Source, selected : BOOLEAN]]
    /\ global \in Row
    /\ pc \in [Workers -> {"idle", "phase2"} \union AtWork]
    /\ selection \in [Workers -> Memories]
    /\ inputs \in Memories /\ memory \in Memories
    /\ headInputs \in Memories /\ headMemory \in Memories
    /\ git \in BOOLEAN /\ resetting \in BOOLEAN /\ clean \in BOOLEAN /\ faults \in 0..MaxFaults
  BY DEF TypeOK, Memories, Row

\* The row after a step is a row, and its running owner still owns it.
RowKept == global' \in Row /\ \A w \in Workers : OwnsGlobal(w) => OwnsGlobal(w)'

\* A step that leaves the workers and the workspace alone preserves the
\* invariant if it keeps the types and the owner.
LEMMA Frame ==
  ASSUME Inv, UNCHANGED <<pc, selection, files, head, clean>>, RowKept, TypeOK'
  PROVE Inv'
  BY DEF Inv, RowKept, AtWorkOwns, AtWorkHasGit, BaselineIsConsolidated, WithoutGitConsolidated,
         InputsAreSelection, ResetAfterAgent, MarkedIsConsolidated, files, head

\* The steps on the memory of one thread.
ThreadAction(t) ==
    \/ Extracted(t) \/ ExtractedNothing(t) \/ Prune(t)
    \/ ReadSelected(t) \/ DeleteThread(t) \/ ThreadStep(t)
    \/ Reconcile(t) \/ \E m \in UserModes : SetMemoryMode(t, m)

\* Extraction, removal and the mode of one thread's memories.
LEMMA ThreadActionInv ==
  ASSUME Inv, NEW t \in Threads, ThreadAction(t)
  PROVE Inv'
<1> USE BoundsAssumption
<1>1. TypeOK
  BY DEF Inv
<1>2. global \in Row
  BY <1>1, Types
<1>3. NoOutput \in [source : Source, selected : BOOLEAN]
  BY DEF NoOutput, Source
<1>4. ASSUME global' = global \/ global' = Enqueued
      PROVE RowKept
  BY <1>2, <1>4, EnqueuedRow DEF RowKept, OwnsGlobal
<1>5. CASE Extracted(t)
  <2>1. RowKept
    BY <1>4, <1>5 DEF Extracted
  <2>2. extracted[t] + 1 \in Source
    BY <1>1, <1>5, Types DEF Extracted, Memories, Source
  <2>3. outputs' \in [Threads -> [source : Source, selected : BOOLEAN]]
    BY <1>1, <1>5, <2>2, Types DEF Extracted
  <2>4. extracted' \in Memories
    BY <1>1, <1>5, <2>2, Types DEF Extracted, Memories
  <2>5. TypeOK'
    BY <1>1, <1>5, <2>1, <2>3, <2>4 DEF TypeOK, Extracted, Memories, RowKept, Row, files, head, misc
  <2>6. QED
    BY <1>5, <2>1, <2>5, Frame DEF Extracted, misc
<1>6. CASE ExtractedNothing(t)
  <2>1. RowKept
    BY <1>4, <1>6 DEF ExtractedNothing
  <2>2. extracted' \in Memories
    BY <1>1, <1>6, Types DEF ExtractedNothing, Memories, Source
  <2>3. outputs' \in [Threads -> [source : Source, selected : BOOLEAN]]
    BY <1>1, <1>3, <1>6, Types DEF ExtractedNothing
  <2>4. TypeOK'
    BY <1>1, <1>6, <2>1, <2>2, <2>3 DEF TypeOK, ExtractedNothing, Memories, RowKept, Row, files, head, misc
  <2>5. QED
    BY <1>6, <2>1, <2>4, Frame DEF ExtractedNothing, misc
<1>7. CASE Prune(t)
  <2>1. RowKept
    BY <1>4, <1>7 DEF Prune
  <2>2. outputs' \in [Threads -> [source : Source, selected : BOOLEAN]]
    BY <1>1, <1>3, <1>7, Types DEF Prune
  <2>3. TypeOK'
    BY <1>1, <1>7, <2>1, <2>2 DEF TypeOK, Prune, Memories, RowKept, Row, threads, files, head, misc
  <2>4. QED
    BY <1>7, <2>1, <2>3, Frame DEF Prune, misc
<1>8. CASE ReadSelected(t) \/ DeleteThread(t) \/ SetPolluted(t) \/ EnqueueForgetting(t)
  <2>1. RowKept
    BY <1>4, <1>8 DEF ReadSelected, DeleteThread, SetPolluted, EnqueueForgetting
  <2>2. caller' \in [Threads -> {"none", "selected", "unselected", "enqueue", "deleting"}]
    BY <1>1, <1>8, Types DEF ReadSelected, DeleteThread, SetPolluted, EnqueueForgetting
  <2>3. mode' \in [Threads -> Modes \union {"polluted", "deleted"}]
    BY <1>1, <1>8, Types DEF ReadSelected, DeleteThread, SetPolluted, EnqueueForgetting
  <2>4. UNCHANGED <<rollout, extracted, outputs, pc, selection, files, head, misc>>
    BY <1>8 DEF ReadSelected, DeleteThread, SetPolluted, EnqueueForgetting
  <2>5. TypeOK'
    BY <1>1, <2>1, <2>2, <2>3, <2>4 DEF TypeOK, RowKept, Row, files, head, misc
  <2>6. QED
    BY <2>1, <2>4, <2>5, Frame DEF misc
<1>9. CASE DeleteThreadMemory(t)
  <2>1. RowKept
    BY <1>4, <1>9 DEF DeleteThreadMemory
  <2>2. caller' \in [Threads -> {"none", "selected", "unselected", "enqueue", "deleting"}]
    BY <1>1, <1>9, Types DEF DeleteThreadMemory
  <2>3. outputs' \in [Threads -> [source : Source, selected : BOOLEAN]]
    BY <1>1, <1>3, <1>9, Types DEF DeleteThreadMemory
  <2>4. TypeOK'
    BY <1>1, <1>9, <2>1, <2>2, <2>3 DEF TypeOK, DeleteThreadMemory, RowKept, Row, files, head, misc
  <2>5. QED
    BY <1>9, <2>1, <2>4, Frame DEF DeleteThreadMemory, misc
<1>10. CASE Reconcile(t) \/ \E m \in UserModes : SetMemoryMode(t, m)
  <2>1. RowKept
    BY <1>4, <1>10 DEF Reconcile, SetMemoryMode
  <2>2. /\ mode' \in [Threads -> Modes \union {"polluted", "deleted"}]
        /\ rollout' \in [Threads -> Modes]
    <3>1. mode \in [Threads -> Modes \union {"polluted", "deleted"}] /\ rollout \in [Threads -> Modes]
      BY <1>1, Types
    <3>2. CASE Reconcile(t)
      BY <3>1, <3>2 DEF Reconcile
    <3>3. ASSUME NEW m \in UserModes, SetMemoryMode(t, m)
          PROVE /\ mode' \in [Threads -> Modes \union {"polluted", "deleted"}]
                /\ rollout' \in [Threads -> Modes]
      <4>1. m \in Modes
        BY UserModesAssumption DEF Modes
      <4>2. QED
        BY <3>1, <3>3, <4>1 DEF SetMemoryMode
    <3>4. QED
      BY <1>10, <3>2, <3>3
  <2>3. UNCHANGED <<caller, extracted, outputs, pc, selection, files, head, misc>>
    BY <1>10 DEF Reconcile, SetMemoryMode
  <2>4. TypeOK'
    BY <1>1, <2>1, <2>2, <2>3 DEF TypeOK, RowKept, Row, files, head, misc
  <2>5. QED
    BY <2>1, <2>3, <2>4, Frame DEF misc
<1>11. QED
  BY <1>5, <1>6, <1>7, <1>8, <1>9, <1>10 DEF ThreadAction, ThreadStep

\* A worker that starts, or tries for the claim of phase 2.
LEMMA StartupInv ==
  ASSUME Inv, NEW w \in Workers, Startup(w)
  PROVE Inv'
<1>1. TypeOK'
  BY DEF Inv, TypeOK, Startup, Goto, threads, files, head, misc
<1>2. QED
  BY <1>1 DEF Inv, TypeOK, Startup, Goto, AtWork, AtWorkOwns, OwnsGlobal, AtWorkHasGit,
     BaselineIsConsolidated, WithoutGitConsolidated, InputsAreSelection, ResetAfterAgent,
     MarkedIsConsolidated, files, head, misc

\* Claiming the global job.
LEMMA ClaimGlobalInv ==
  ASSUME Inv, NEW w \in Workers, ClaimGlobal(w)
  PROVE Inv'
<1>1. pc \in [Workers -> {"idle", "phase2"} \union AtWork] /\ global \in Row
  BY Types DEF Inv
<1>2. global' \in Row
  BY <1>1 DEF ClaimGlobal, Row
<1>3. TypeOK'
  <2>1. pc' \in [Workers -> {"idle", "phase2"} \union AtWork]
    BY <1>1 DEF ClaimGlobal, Goto, AtWork
  <2>2. clean' \in BOOLEAN
    BY DEF ClaimGlobal, Inv, TypeOK
  <2>3. QED
    BY <1>2, <2>1, <2>2 DEF Inv, TypeOK, ClaimGlobal, Row, threads, files, head
<1>4. CASE ~GlobalClaimable
  BY <1>1, <1>3, <1>4 DEF Inv, ClaimGlobal, Goto, AtWork, AtWorkOwns, OwnsGlobal, AtWorkHasGit,
     BaselineIsConsolidated, WithoutGitConsolidated, InputsAreSelection, ResetAfterAgent,
     MarkedIsConsolidated, files, head
<1>5. CASE GlobalClaimable
  <2>1. clean' => clean /\ \A v \in Workers : pc'[v] \in AtWork => v = w /\ pc'[v] = "select"
    BY <1>1, <1>5 DEF ClaimGlobal, Goto, Undisturbed
  <2>2. global'.status = "running" /\ global'.owner = w
    BY <1>1, <1>5 DEF ClaimGlobal, Row
  <2>3. AtWorkOwns'
    BY <2>1, <2>2 DEF AtWorkOwns, OwnsGlobal
  <2>4. AtWorkHasGit' /\ InputsAreSelection' /\ ResetAfterAgent' /\ MarkedIsConsolidated'
    BY <2>1 DEF AtWorkHasGit, InputsAreSelection, ResetAfterAgent, MarkedIsConsolidated, AtWork
  <2>5. BaselineIsConsolidated' /\ WithoutGitConsolidated'
    BY <2>1 DEF Inv, ClaimGlobal, BaselineIsConsolidated, WithoutGitConsolidated, files, head
  <2>6. QED
    BY <1>3, <2>3, <2>4, <2>5 DEF Inv
<1>6. QED
  BY <1>4, <1>5

\* The steps of a worker at work.
LEMMA SelectKeysInv ==
  ASSUME Inv, NEW w \in Workers, SelectKeys(w)
  PROVE Inv'
<1>1. /\ pc \in [Workers -> {"idle", "phase2"} \union AtWork] /\ pc[w] = "select"
      /\ selection \in [Workers -> Memories]
      /\ outputs \in [Threads -> [source : Source, selected : BOOLEAN]]
  BY Types DEF Inv, SelectKeys
<1>2. selection' \in [Workers -> Memories]
  BY <1>1, BoundsAssumption DEF SelectKeys, Memories, Source
<1>3. pc' = [pc EXCEPT ![w] = "rows"]
  BY DEF SelectKeys, Goto
<1>4. TypeOK'
  BY <1>1, <1>2, <1>3 DEF Inv, TypeOK, SelectKeys, Memories, AtWork, threads, files, misc
<1>5. ASSUME clean PROVE \A v \in Workers : pc[v] \in AtWork => v = w
  BY <1>1, <1>5, OneAtWork DEF AtWork
<1>6. clean' = clean /\ git' /\ UNCHANGED <<global, inputs, memory>>
  BY DEF SelectKeys, files, misc
<1>7. AtWorkOwns'
  BY <1>1, <1>3, <1>6 DEF Inv, AtWorkOwns, OwnsGlobal, AtWork
<1>8. AtWorkHasGit' /\ WithoutGitConsolidated'
  BY <1>6 DEF AtWorkHasGit, WithoutGitConsolidated
<1>9. BaselineIsConsolidated'
  BY <1>6 DEF Inv, SelectKeys, BaselineIsConsolidated, WithoutGitConsolidated
<1>10. InputsAreSelection' /\ ResetAfterAgent' /\ MarkedIsConsolidated'
  BY <1>1, <1>3, <1>5, <1>6 DEF InputsAreSelection, ResetAfterAgent, MarkedIsConsolidated, AtWork
<1>11. QED
  BY <1>4, <1>7, <1>8, <1>9, <1>10 DEF Inv

\* Selecting the rows to consolidate.
LEMMA SelectRowsInv ==
  ASSUME Inv, NEW w \in Workers, SelectRows(w)
  PROVE Inv'
<1>1. /\ pc \in [Workers -> {"idle", "phase2"} \union AtWork] /\ pc[w] = "rows"
      /\ selection \in [Workers -> Memories]
  BY Types DEF Inv, SelectRows
<1>2. selection' \in [Workers -> Memories]
  BY <1>1, BoundsAssumption DEF SelectRows, Memories, Source
<1>3. pc' = [pc EXCEPT ![w] = "sync"]
  BY DEF SelectRows, Goto
<1>4. TypeOK'
  BY <1>1, <1>2, <1>3 DEF Inv, TypeOK, SelectRows, Memories, AtWork, threads, files, head, misc
<1>5. ASSUME clean PROVE \A v \in Workers : pc[v] \in AtWork => v = w
  BY <1>1, <1>5, OneAtWork DEF AtWork
<1>6. UNCHANGED <<global, inputs, memory, git, headInputs, headMemory, clean>>
  BY DEF SelectRows, files, head, misc
<1>7. AtWorkOwns'
  BY <1>1, <1>3, <1>6 DEF Inv, AtWorkOwns, OwnsGlobal, AtWork
<1>8. AtWorkHasGit'
  BY <1>1, <1>3, <1>6 DEF Inv, AtWorkHasGit, AtWork
<1>9. BaselineIsConsolidated' /\ WithoutGitConsolidated'
  BY <1>6 DEF Inv, BaselineIsConsolidated, WithoutGitConsolidated
<1>10. InputsAreSelection' /\ ResetAfterAgent' /\ MarkedIsConsolidated'
  BY <1>1, <1>3, <1>5, <1>6 DEF InputsAreSelection, ResetAfterAgent, MarkedIsConsolidated, AtWork
<1>11. QED
  BY <1>4, <1>7, <1>8, <1>9, <1>10 DEF Inv

\* Writing the selected files and diffing them.
LEMMA SyncAndDiffInv ==
  ASSUME Inv, NEW w \in Workers, SyncAndDiff(w)
  PROVE Inv'
<1>1. /\ pc \in [Workers -> {"idle", "phase2"} \union AtWork] /\ pc[w] = "sync" /\ git
      /\ selection \in [Workers -> Memories]
  BY Types DEF Inv, SyncAndDiff
<1>2. inputs' = selection[w] /\ inputs' \in Memories
  BY <1>1 DEF SyncAndDiff
<1>3. /\ pc' = [pc EXCEPT ![w] = IF selection[w] = headInputs /\ memory = headMemory
                                 THEN "succeed" ELSE "agent"]
  BY DEF SyncAndDiff, Goto
<1>4. TypeOK'
  BY <1>1, <1>2, <1>3 DEF Inv, TypeOK, SyncAndDiff, Memories, AtWork, threads, head, misc
<1>5. ASSUME clean PROVE \A v \in Workers : pc[v] \in AtWork => v = w
  BY <1>1, <1>5, OneAtWork DEF AtWork
<1>6. UNCHANGED <<global, selection, memory, git, headInputs, headMemory, clean>>
  BY DEF SyncAndDiff, head, misc
<1>7. AtWorkOwns'
  BY <1>1, <1>3, <1>6 DEF Inv, AtWorkOwns, OwnsGlobal, AtWork
<1>8. AtWorkHasGit' /\ WithoutGitConsolidated' /\ BaselineIsConsolidated'
  BY <1>1, <1>6 DEF Inv, AtWorkHasGit, BaselineIsConsolidated, WithoutGitConsolidated
<1>9. InputsAreSelection' /\ ResetAfterAgent'
  BY <1>1, <1>2, <1>3, <1>5, <1>6 DEF InputsAreSelection, ResetAfterAgent, AtWork
<1>10. MarkedIsConsolidated'
  BY <1>1, <1>3, <1>5, <1>6 DEF Inv, MarkedIsConsolidated, BaselineIsConsolidated, AtWork
<1>11. QED
  BY <1>4, <1>7, <1>8, <1>9, <1>10 DEF Inv

\* The consolidation agent finishes.
LEMMA AgentCompletesInv ==
  ASSUME Inv, NEW w \in Workers, AgentCompletes(w)
  PROVE Inv'
<1>1. /\ pc \in [Workers -> {"idle", "phase2"} \union AtWork] /\ pc[w] = "agent"
      /\ selection \in [Workers -> Memories] /\ inputs \in Memories /\ global \in Row
  BY Types DEF Inv, AgentCompletes
<1>2. /\ UNCHANGED <<inputs, git, headInputs, headMemory, clean>> /\ memory' = inputs
  BY DEF AgentCompletes, head, misc
<1>3. ASSUME clean PROVE \A v \in Workers : pc[v] \in AtWork => v = w
  BY <1>1, <1>3, OneAtWork DEF AtWork
<1>4. CASE OwnsGlobal(w)
  <2>1. pc' = [pc EXCEPT ![w] = "reset"] /\ selection' = selection
    BY <1>4 DEF AgentCompletes, Goto
  <2>2. global' \in Row /\ global'.status = "running" /\ global'.owner = w
    BY <1>1, <1>4 DEF AgentCompletes, OwnsGlobal, Row
  <2>3. TypeOK'
    BY <1>1, <1>2, <2>1, <2>2
       DEF Inv, TypeOK, AgentCompletes, Memories, Row, AtWork, threads, head, misc
  <2>4. AtWorkOwns'
    BY <1>1, <1>2, <1>3, <2>1, <2>2 DEF AtWorkOwns, OwnsGlobal, AtWork
  <2>5. AtWorkHasGit' /\ BaselineIsConsolidated' /\ WithoutGitConsolidated'
    BY <1>1, <1>2, <2>1
       DEF Inv, AtWorkHasGit, BaselineIsConsolidated, WithoutGitConsolidated, AtWork
  <2>6. InputsAreSelection' /\ ResetAfterAgent' /\ MarkedIsConsolidated'
    BY <1>1, <1>2, <1>3, <2>1
       DEF Inv, InputsAreSelection, ResetAfterAgent, MarkedIsConsolidated, AtWork
  <2>7. QED
    BY <2>3, <2>4, <2>5, <2>6 DEF Inv
<1>5. CASE ~OwnsGlobal(w)
  <2>1. ~clean'
    BY <1>1, <1>2, <1>5 DEF Inv, AtWorkOwns, AtWork
  <2>2. /\ pc' = [pc EXCEPT ![w] = "idle"] /\ selection' = [selection EXCEPT ![w] = Nothing]
        /\ global' = global
    BY <1>5 DEF AgentCompletes, Leave, Goto
  <2>3. TypeOK'
    BY <1>1, <1>2, <2>2, NothingType
       DEF Inv, TypeOK, AgentCompletes, Memories, Row, threads, head, misc
  <2>4. QED
    BY <2>1, <2>3 DEF Inv, AtWorkOwns, AtWorkHasGit, BaselineIsConsolidated,
       WithoutGitConsolidated, InputsAreSelection, ResetAfterAgent, MarkedIsConsolidated
<1>6. QED
  BY <1>4, <1>5

\* The new baseline is committed.
LEMMA ResetBaselineInv ==
  ASSUME Inv, NEW w \in Workers, ResetBaseline(w)
  PROVE Inv'
<1>1. pc \in [Workers -> {"idle", "phase2"} \union AtWork] /\ pc[w] = "reset"
  BY Types DEF Inv, ResetBaseline
<1>2. /\ pc' = [pc EXCEPT ![w] = "succeed"]
      /\ git' = TRUE /\ headInputs' = inputs /\ headMemory' = memory
      /\ UNCHANGED <<global, selection, inputs, memory, clean>>
  BY DEF ResetBaseline, Goto, files, misc
<1>3. TypeOK'
  BY <1>1, <1>2 DEF Inv, TypeOK, ResetBaseline, AtWork, threads, files, misc
<1>4. ASSUME clean PROVE \A v \in Workers : pc[v] \in AtWork => v = w
  BY <1>1, <1>4, OneAtWork DEF AtWork
<1>5. AtWorkOwns' /\ AtWorkHasGit' /\ WithoutGitConsolidated'
  BY <1>1, <1>2 DEF Inv, AtWorkOwns, OwnsGlobal, AtWorkHasGit, WithoutGitConsolidated, AtWork
<1>6. BaselineIsConsolidated'
  BY <1>1, <1>2 DEF Inv, BaselineIsConsolidated, ResetAfterAgent
<1>7. InputsAreSelection' /\ ResetAfterAgent' /\ MarkedIsConsolidated'
  BY <1>1, <1>2, <1>4
     DEF Inv, InputsAreSelection, ResetAfterAgent, MarkedIsConsolidated, AtWork
<1>8. QED
  BY <1>3, <1>5, <1>6, <1>7 DEF Inv

\* The job is marked done with its watermark.
LEMMA Phase2SucceededInv ==
  ASSUME Inv, NEW w \in Workers, Phase2Succeeded(w)
  PROVE Inv'
<1>1. /\ pc \in [Workers -> {"idle", "phase2"} \union AtWork] /\ pc[w] = "succeed"
      /\ selection \in [Workers -> Memories] /\ global \in Row
      /\ outputs \in [Threads -> [source : Source, selected : BOOLEAN]]
  BY Types DEF Inv, Phase2Succeeded
<1>2. /\ pc' = [pc EXCEPT ![w] = "idle"] /\ selection' = [selection EXCEPT ![w] = Nothing]
      /\ UNCHANGED <<inputs, memory, git, headInputs, headMemory, clean>>
  BY DEF Phase2Succeeded, Leave, Goto, files, head, misc
<1>3. global' \in Row
  BY <1>1 DEF Phase2Succeeded, Row
<1>4. outputs' \in [Threads -> [source : Source, selected : BOOLEAN]]
  <2>1. ASSUME NEW t \in Threads, NEW m \in BOOLEAN
        PROVE [outputs[t] EXCEPT !.selected = m] \in [source : Source, selected : BOOLEAN]
    BY <1>1
  <2> DEFINE Mark(t) == outputs[t].source # 0 /\ outputs[t].source = selection[w][t]
             Marked(t) == [outputs[t] EXCEPT !.selected = Mark(t)]
  <2>2. outputs' = outputs \/ outputs' = [t \in Threads |-> Marked(t)]
    BY DEF Phase2Succeeded
  <2>3. \A t \in Threads : Mark(t) \in BOOLEAN
    OBVIOUS
  <2> HIDE DEF Mark
  <2>4. \A t \in Threads : Marked(t) \in [source : Source, selected : BOOLEAN]
    BY <2>1, <2>3
  <2> HIDE DEF Marked
  <2>5. QED
    BY <1>1, <2>2, <2>4
<1>5. TypeOK'
  BY <1>1, <1>2, <1>3, <1>4, NothingType
     DEF Inv, TypeOK, Phase2Succeeded, Memories, Row, threads, files, head, misc
<1>6. ASSUME clean PROVE \A v \in Workers : pc'[v] \notin AtWork
  BY <1>1, <1>2, <1>6, OneAtWork DEF AtWork
<1>7. QED
  BY <1>2, <1>5, <1>6 DEF Inv, AtWorkOwns, AtWorkHasGit, BaselineIsConsolidated,
     WithoutGitConsolidated, InputsAreSelection, ResetAfterAgent, MarkedIsConsolidated, AtWork

\* A worker that stops anywhere, by failing or by crashing: what it was
\* writing is half written, and the row is as it was or no longer its own.
LEMMA StopInv ==
  ASSUME Inv, NEW w \in Workers, Interrupted(w), Leave(w), clean' = clean,
         global' \in Row, \A v \in Workers \ {w} : OwnsGlobal(v) => OwnsGlobal(v)',
         UNCHANGED <<threads, outputs, resetting>>, faults' \in 0..MaxFaults
  PROVE Inv'
<1>1. /\ pc \in [Workers -> {"idle", "phase2"} \union AtWork]
      /\ selection \in [Workers -> Memories] /\ inputs \in Memories /\ memory \in Memories
      /\ git \in BOOLEAN
  BY Types DEF Inv
<1>2. /\ pc' = [pc EXCEPT ![w] = "idle"] /\ selection' = [selection EXCEPT ![w] = Nothing]
  BY DEF Leave, Goto
<1>3. inputs' \in Memories /\ memory' \in Memories
  BY <1>1, PartlyType DEF Interrupted
<1>4. (git' = git \/ git' = FALSE) /\ UNCHANGED <<headInputs, headMemory>>
  BY DEF Interrupted
<1>5. TypeOK'
  BY <1>1, <1>2, <1>3, <1>4, NothingType DEF Inv, TypeOK, Memories, Row, threads
<1>6. BaselineIsConsolidated'
  BY <1>4 DEF Inv, BaselineIsConsolidated
<1>7. CASE pc[w] \in AtWork
  <2>1. ASSUME clean PROVE \A v \in Workers : pc'[v] \notin AtWork
    BY <1>1, <1>2, <1>7, <2>1, OneAtWork DEF AtWork
  <2>2. ASSUME clean, ~git' PROVE memory' = inputs'
    <3>1. CASE pc[w] = "reset"
      BY <2>2, <3>1 DEF Inv, ResetAfterAgent, Interrupted
    <3>2. CASE pc[w] # "reset"
      <4>1. ~git
        BY <2>2, <3>2 DEF Interrupted
      <4>2. pc[w] = "select"
        BY <1>7, <2>2, <4>1 DEF Inv, AtWorkHasGit
      <4>3. QED
        BY <2>2, <4>1, <4>2 DEF Inv, WithoutGitConsolidated, Interrupted
    <3>3. QED
      BY <3>1, <3>2
  <2>3. QED
    BY <1>5, <1>6, <2>1, <2>2 DEF Inv, AtWorkOwns, AtWorkHasGit,
       WithoutGitConsolidated, InputsAreSelection, ResetAfterAgent, MarkedIsConsolidated, AtWork
<1>8. CASE pc[w] \notin AtWork
  <2>1. UNCHANGED <<inputs, memory, git>>
    BY <1>8 DEF Interrupted, AtWork
  <2>2. \A v \in Workers : pc'[v] \in AtWork => v # w /\ pc'[v] = pc[v] /\ selection'[v] = selection[v]
    BY <1>1, <1>2 DEF AtWork
  <2>3. AtWorkOwns'
    BY <2>2 DEF Inv, AtWorkOwns
  <2>4. AtWorkHasGit' /\ WithoutGitConsolidated'
    BY <2>1, <2>2 DEF Inv, AtWorkHasGit, WithoutGitConsolidated
  <2>5. InputsAreSelection' /\ ResetAfterAgent' /\ MarkedIsConsolidated'
    BY <2>1, <2>2 DEF Inv, InputsAreSelection, ResetAfterAgent, MarkedIsConsolidated, AtWork
  <2>6. QED
    BY <1>5, <1>6, <2>3, <2>4, <2>5 DEF Inv
<1>9. QED
  BY <1>7, <1>8

\* A worker fails, loses its claim or the repository, or crashes.
LEMMA FailureInv ==
  ASSUME Inv, NEW w \in Workers, Phase2Failed(w) \/ LostOrNoGit(w) \/ Crash(w)
  PROVE Inv'
<1>1. global \in Row /\ faults \in 0..MaxFaults
  BY Types DEF Inv
<1>2. faults' \in 0..MaxFaults
  BY <1>1, BoundsAssumption DEF Phase2Failed, LostOrNoGit, Crash, Fault
<1>3. Interrupted(w) /\ Leave(w) /\ UNCHANGED <<threads, outputs, resetting, clean>>
  BY DEF Phase2Failed, LostOrNoGit, Crash, Phase2Fails
<1>4. global' = global \/ global' = FailedGlobal(w)
  BY DEF Phase2Failed, LostOrNoGit, Crash, Phase2Fails
<1>5. global' \in Row
  BY <1>1, <1>4 DEF FailedGlobal, Row
<1>6. \A v \in Workers \ {w} : OwnsGlobal(v) => OwnsGlobal(v)'
  BY <1>1, <1>4 DEF FailedGlobal, OwnsGlobal, Row
<1>7. QED
  BY <1>2, <1>3, <1>5, <1>6, StopInv

\* Time only changes what the row waits for.
LEMMA TimeInv ==
  ASSUME Inv, GlobalLeaseExpires \/ GlobalWaitEnds \/ \E w \in Workers : Heartbeat(w)
  PROVE Inv'
<1>1. global \in Row /\ faults \in 0..MaxFaults
  BY Types DEF Inv
<1>2. faults' \in 0..MaxFaults
  BY <1>1, BoundsAssumption DEF GlobalLeaseExpires, GlobalWaitEnds, Heartbeat, Fault, misc
<1>3. global' \in Row /\ global'.status = global.status /\ global'.owner = global.owner
  BY <1>1 DEF GlobalLeaseExpires, GlobalWaitEnds, Heartbeat, Row
<1>4. UNCHANGED <<threads, outputs, pc, selection, files, head, resetting, clean>>
  BY DEF GlobalLeaseExpires, GlobalWaitEnds, Heartbeat, misc
<1>5. RowKept
  BY <1>3 DEF RowKept, OwnsGlobal
<1>6. TypeOK'
  BY <1>2, <1>3, <1>4 DEF Inv, TypeOK, Row, threads, files, head
<1>7. QED
  BY <1>4, <1>5, <1>6, Frame

\* The two halves of a memory reset.
LEMMA ResetInv ==
  ASSUME Inv, ClearMemoryData \/ ClearMemoryRoot
  PROVE Inv'
<1>1. faults \in 0..MaxFaults /\ global \in Row
  BY Types DEF Inv
<1>2. faults' \in 0..MaxFaults /\ resetting' \in BOOLEAN
  <2>1. CASE ClearMemoryData
    <3>1. resetting' = TRUE /\ faults < MaxFaults /\ faults' = faults + 1
      BY <2>1, Zenon DEF ClearMemoryData, Fault
    <3>2. faults' \in 0..MaxFaults
      BY <1>1, <3>1, BoundsAssumption
    <3>3. QED
      BY <3>1, <3>2
  <2>2. CASE ClearMemoryRoot
    BY <1>1, <2>2, Zenon DEF ClearMemoryRoot
  <2>3. QED
    BY <2>1, <2>2
<1>3. clean' \in BOOLEAN
  BY DEF ClearMemoryData, ClearMemoryRoot, Inv, TypeOK
<1>4. clean' => clean /\ \A w \in Workers : pc'[w] \notin AtWork
  BY DEF ClearMemoryData, ClearMemoryRoot, Undisturbed
<1>5. TypeOK'
  <2>1. CASE ClearMemoryData
    <3>1. NoOutput \in [source : Source, selected : BOOLEAN] /\ NoGlobal \in Row
      BY BoundsAssumption DEF NoOutput, NoGlobal, Source, Row
    <3>2. QED
      BY <1>2, <1>3, <2>1, <3>1 DEF Inv, TypeOK, ClearMemoryData, Row, threads, files, head
  <2>2. CASE ClearMemoryRoot
    BY <1>2, <1>3, <2>2, NothingType DEF Inv, TypeOK, ClearMemoryRoot, Memories, threads
  <2>3. QED
    BY <2>1, <2>2
<1>6. BaselineIsConsolidated' /\ WithoutGitConsolidated'
  BY <1>4 DEF ClearMemoryData, ClearMemoryRoot, Inv, BaselineIsConsolidated,
              WithoutGitConsolidated, files, head
<1>7. QED
  BY <1>4, <1>5, <1>6 DEF Inv, AtWorkOwns, AtWorkHasGit, InputsAreSelection, ResetAfterAgent,
                          MarkedIsConsolidated, AtWork

\* The invariant holds at the start and is preserved by every step.
LEMMA InitInv == Init => Inv
<1> SUFFICES ASSUME Init PROVE Inv
  OBVIOUS
<1>1. TypeOK
  <2>1. NoOutput \in [source : Source, selected : BOOLEAN] /\ NoGlobal \in Row
    BY BoundsAssumption DEF NoOutput, NoGlobal, Source, Row
  <2>2. faults \in 0..MaxFaults
    BY BoundsAssumption DEF Init
  <2>3. QED
    BY NothingType, <2>1, <2>2 DEF Init, TypeOK, Memories, Row
<1>2. QED
  BY <1>1 DEF Init, Inv, AtWorkOwns, AtWorkHasGit, BaselineIsConsolidated,
     WithoutGitConsolidated, InputsAreSelection, ResetAfterAgent, MarkedIsConsolidated, AtWork

\* Every step keeps the invariant.
LEMMA NextInv == Inv /\ [Next]_vars => Inv'
<1> SUFFICES ASSUME Inv, [Next]_vars PROVE Inv'
  OBVIOUS
<1>1. CASE UNCHANGED vars
  BY <1>1 DEF vars, threads, files, head, misc, Inv, TypeOK, AtWorkOwns, OwnsGlobal, AtWorkHasGit,
     BaselineIsConsolidated, WithoutGitConsolidated, InputsAreSelection, ResetAfterAgent,
     MarkedIsConsolidated
<1>2. ASSUME NEW t \in Threads, ThreadAction(t) PROVE Inv'
  BY <1>2, ThreadActionInv
<1>3. ASSUME NEW w \in Workers, Startup(w) \/ Phase2Step(w) PROVE Inv'
  BY <1>3, StartupInv, ClaimGlobalInv, SelectKeysInv, SelectRowsInv, SyncAndDiffInv,
     AgentCompletesInv, ResetBaselineInv, Phase2SucceededInv DEF Phase2Step
<1>4. ASSUME NEW w \in Workers, Phase2Failed(w) \/ LostOrNoGit(w) \/ Crash(w) PROVE Inv'
  BY <1>4, FailureInv
<1>5. CASE GlobalLeaseExpires \/ GlobalWaitEnds \/ \E w \in Workers : Heartbeat(w)
  BY <1>5, TimeInv
<1>6. CASE ClearMemoryData \/ ClearMemoryRoot
  BY <1>6, ResetInv
<1>7. QED
  BY <1>1, <1>2, <1>3, <1>4, <1>5, <1>6 DEF Next, ThreadAction

\* The inductive invariant holds throughout.
THEOREM Invariant == Spec => []Inv
  BY InitInv, NextInv, PTL DEF Spec

\* Rows, workers and workspace keep their types in every behaviour.
THEOREM TypeCorrect == Spec => []TypeOK
<1>1. Inv => TypeOK
  BY DEF Inv
<1>2. QED
  BY <1>1, Invariant, PTL

\* The git baseline of the memory workspace is a consolidated one, whatever
\* fails or crashes, as long as no worker loses its claim at work.
THEOREM BaselineConsolidated == Spec => []BaselineIsConsolidated
<1>1. Inv => BaselineIsConsolidated
  BY DEF Inv
<1>2. QED
  BY <1>1, Invariant, PTL

\* What mark_global_phase2_job_succeeded marks is what was consolidated.
THEOREM MarkedConsolidated == Spec => []MarkedIsConsolidated
<1>1. Inv => MarkedIsConsolidated
  BY DEF Inv
<1>2. QED
  BY <1>1, Invariant, PTL

=============================================================================
