----------------------- MODULE TurnLifecycle_proofs -----------------------
(***************************************************************************)
(* Turns and their tasks, for any number of turns, items and operations:   *)
(* types, and that a turn reported as aborted never runs again.  Then      *)
(* where the input of a session is kept: no item is in two places, so none *)
(* enters the history twice.  And where only submitted operations start    *)
(* turns: turns are installed into a free session, end once, lose no       *)
(* input, and leave mail that comes after their answer to the next turn.   *)
(***************************************************************************)
EXTENDS TurnLifecycle, TLAPS

\* p is inside start_task, or will be once it has aborted the old turn.
Starting(p) ==
    \/ pc[p] \in {"collect", "attach", "install"}
    \/ pc[p] \in {"abort", "wait", "report"} /\ ~loc[p].interrupt

\* A process that starts a turn holds a number no task has run under.
StartsFreshTurn ==
    \A p \in Procs : Starting(p) =>
        loc[p].turn \in 1 .. used.turns /\ pc[loc[p].turn] = "off"

\* ... and no other process starts the same turn.
StartsOwnTurn ==
    \A p, q \in Procs :
        Starting(p) /\ Starting(q) /\ loc[p].turn = loc[q].turn => p = q

\* A turn not yet numbered has no task.
LaterTurnsOff == \A t \in Turns : t > used.turns => pc[t] = "off"

\* The registered task was spawned.
ActiveSpawned == active.task # None => pc[active.task] # "off"

\* An abort under way knows its victim, whose handle it has aborted before it
\* reports TurnAborted.
VictimKnown ==
    \A p \in Procs : pc[p] \in {"wait", "report"} =>
        /\ loc[p].victim \in Turns /\ pc[loc[p].victim] # "off"
        /\ pc[p] = "report" => pc[loc[p].victim] \in {"dead", "gone"}

\* The guardian aborts, it does not replace.
GuardInterrupts == \A p \in Procs : pc[p] = "guard" => loc[p].interrupt

\* A handler returns to one of four places.
Returns == {"idle", "stopped", "goalCheck", "idleEmit"}
ReturnsKnown == \A p \in Procs : loc[p].ret \in Returns

\* A TurnState a process works on was allocated.
SlotKnown ==
    \A p \in Procs : pc[p] \in {"wait", "report", "finPending"} => loc[p].slot \in Slots

ProcInv ==
    /\ StartsFreshTurn /\ StartsOwnTurn /\ LaterTurnsOff /\ ActiveSpawned
    /\ VictimKnown /\ GuardInterrupts /\ ReturnsKnown /\ SlotKnown
    /\ AbortedTurnIsDead

TurnInv == TypeOK /\ ProcInv

-----------------------------------------------------------------------------
(* Types.                                                                   *)

\* Updates of a process's place and locals are typed.
LEMMA NoLocalsType == NoLocals \in Locals
BY DEF NoLocals, Locals, PCs, None

\* Moving to a label.
LEMMA GotoType ==
    ASSUME TypeOK, NEW p, NEW l \in PCs, Goto(p, l)
    PROVE  pc' \in [Procs -> PCs]
BY DEF TypeOK, Goto

\* Returning to a label with empty locals.
LEMMA ReturnType ==
    ASSUME TypeOK, NEW p, NEW l \in PCs, Return(p, l)
    PROVE  pc' \in [Procs -> PCs] /\ loc' \in [Procs -> Locals]
BY NoLocalsType DEF TypeOK, Return, Goto

\* Replacing the locals of one process.
LEMMA LocType ==
    ASSUME TypeOK, NEW p \in Procs, NEW r \in Locals
    PROVE  [loc EXCEPT ![p] = r] \in [Procs -> Locals]
BY DEF TypeOK

\* Updating one field of the locals.
LEMMA LocFieldType ==
    ASSUME TypeOK, NEW p \in Procs
    PROVE  /\ \A x \in SUBSET Items : [loc[p] EXCEPT !.carried = x] \in Locals
           /\ \A t \in Turns \cup {None} : [loc[p] EXCEPT !.turn = t] \in Locals
           /\ \A s \in Slots \cup {None} : [loc[p] EXCEPT !.slot = s] \in Locals
           /\ \A b \in BOOLEAN : [loc[p] EXCEPT !.follow = b] \in Locals
           /\ \A l \in PCs : [loc[p] EXCEPT !.ret = l] \in Locals
<1>1. loc[p] \in Locals
  BY DEF TypeOK
<1>2. QED
  BY <1>1 DEF Locals

\* Updating two fields of the locals.
LEMMA LocTwoFieldType ==
    ASSUME TypeOK, NEW p \in Procs
    PROVE  /\ \A t \in Turns \cup {None}, s \in Slots \cup {None} :
                  [loc EXCEPT ![p].victim = t, ![p].slot = s] \in [Procs -> Locals]
           /\ \A t \in Turns \cup {None} :
                  [loc EXCEPT ![p].victim = t, ![p].interrupt = TRUE]
                      \in [Procs -> Locals]
           /\ \A l \in PCs : [loc EXCEPT ![p].interrupt = TRUE, ![p].ret = l]
                      \in [Procs -> Locals]
<1>1. \A r \in Locals :
        /\ \A t \in Turns \cup {None} : [r EXCEPT !.victim = t] \in Locals
        /\ \A s \in Slots \cup {None} : [r EXCEPT !.slot = s] \in Locals
  BY DEF Locals
<1>2. \A r \in Locals :
        /\ [r EXCEPT !.interrupt = TRUE] \in Locals
        /\ \A l \in PCs : [r EXCEPT !.ret = l] \in Locals
  BY DEF Locals
<1>3. loc \in [Procs -> Locals]
  BY DEF TypeOK
<1>4. \A t \in Turns \cup {None}, s \in Slots \cup {None} :
          [loc EXCEPT ![p].victim = t, ![p].slot = s] \in [Procs -> Locals]
  BY <1>1, <1>3
<1>5. \A t \in Turns \cup {None} :
          [loc EXCEPT ![p].victim = t, ![p].interrupt = TRUE] \in [Procs -> Locals]
  BY <1>1, <1>2, <1>3
<1>6. \A l \in PCs : [loc EXCEPT ![p].interrupt = TRUE, ![p].ret = l] \in [Procs -> Locals]
  BY <1>2, <1>3
<1>7. QED
  BY <1>4, <1>5, <1>6

\* Updates of a TurnState are typed, also when its slot was never allocated.
LEMMA TurnStateType ==
    ASSUME TypeOK, NEW s
    PROVE  /\ \A x \in SUBSET Items :
                  [turnState EXCEPT ![s].pending = @ \cup x] \in [Slots -> TurnStates]
           /\ [turnState EXCEPT ![s].pending = {}] \in [Slots -> TurnStates]
           /\ \A f \in {"CurrentTurn", "NextTurn"} :
                  [turnState EXCEPT ![s].phase = f] \in [Slots -> TurnStates]
<1>1. \A x \in SUBSET Items :
          [turnState EXCEPT ![s].pending = @ \cup x] \in [Slots -> TurnStates]
  BY DEF TypeOK, TurnStates
<1>2. [turnState EXCEPT ![s].pending = {}] \in [Slots -> TurnStates]
  BY DEF TypeOK, TurnStates
<1>3. \A f \in {"CurrentTurn", "NextTurn"} :
          [turnState EXCEPT ![s].phase = f] \in [Slots -> TurnStates]
  BY DEF TypeOK, TurnStates
<1>4. QED
  BY <1>1, <1>2, <1>3

\* extend_pending_input_for_turn_state keeps TurnStates typed.
LEMMA ExtendType ==
    ASSUME TypeOK, NEW s, NEW x \in SUBSET Items, Extend(s, x)
    PROVE  turnState' \in [Slots -> TurnStates]
BY TurnStateType DEF Extend

\* So does steering a prompt.
LEMMA SteerType ==
    ASSUME TypeOK, NEW u \in Items, Steer(u)
    PROVE  turnState' \in [Slots -> TurnStates]
BY DEF Steer, TypeOK, TurnStates

\* The pending input of an allocated TurnState.
LEMMA PendingType ==
    ASSUME TypeOK, NEW s \in Slots
    PROVE  Pending(s) \in SUBSET Items
BY DEF TypeOK, TurnStates, Pending

\* An ActiveTurn has a TurnState; one with a task is Some.
LEMMA ActiveType ==
    ASSUME TypeOK
    PROVE  /\ active.some \in BOOLEAN /\ active.task \in Turns \cup {None}
           /\ active.some => active.slot \in Slots
           /\ active.task # None => active.some
           /\ active.slot \in Slots \cup {None}
<1>1. CASE active = NoTurn
  BY <1>1 DEF NoTurn, None
<1>2. CASE active \in [some : {TRUE}, task : Turns \cup {None}, slot : Slots]
  BY <1>2
<1>3. QED
  BY <1>1, <1>2 DEF TypeOK, ActiveTurns

\* What get_pending_input returns and leaves.
LEMMA QueueType ==
    ASSUME TypeOK
    PROVE  /\ GetPendingInput \in SUBSET Items
           /\ TakePendingInput => /\ turnState' \in [Slots -> TurnStates]
                                  /\ mailbox' \in SUBSET Mails
<1>1. GetPendingInput \in SUBSET Items
  BY ActiveType, PendingType DEF GetPendingInput, Items, TypeOK
<1>2. ASSUME TakePendingInput
      PROVE  turnState' \in [Slots -> TurnStates] /\ mailbox' \in SUBSET Mails
  BY <1>2, TurnStateType DEF TakePendingInput, TypeOK
<1>3. QED
  BY <1>1, <1>2

\* A bounded counter that is below its bound can count one more.
LEMMA UsageType ==
    ASSUME TypeOK
    PROVE  /\ used.turns < MaxTurns =>
                  /\ used.turns + 1 \in Turns
                  /\ [used EXCEPT !.turns = @ + 1] \in Usage
           /\ used.slots < MaxSlots =>
                  /\ used.slots + 1 \in Slots
                  /\ [used EXCEPT !.slots = @ + 1] \in Usage
           /\ used.turns < MaxTurns /\ used.slots < MaxSlots =>
                  [used EXCEPT !.slots = @ + 1, !.turns = @ + 1] \in Usage
           /\ used.turns < MaxTurns /\ used.others < MaxOtherTasks =>
                  [used EXCEPT !.turns = @ + 1, !.others = @ + 1] \in Usage
           /\ used.interrupts < MaxInterrupts =>
                  [used EXCEPT !.interrupts = @ + 1] \in Usage
           /\ used.denials < MaxDenials => [used EXCEPT !.denials = @ + 1] \in Usage
           /\ used.continues < MaxContinues =>
                  [used EXCEPT !.continues = @ + 1] \in Usage
<1>1. used \in Usage
  BY DEF TypeOK
<1>a. /\ used.turns \in 0 .. MaxTurns /\ used.slots \in 0 .. MaxSlots
      /\ MaxTurns \in Nat /\ MaxSlots \in Nat
  BY <1>1, BoundsAssumption DEF Usage
<1>2. used.turns < MaxTurns => used.turns + 1 \in Turns /\ used.turns + 1 \in 0 .. MaxTurns
  BY <1>a DEF Turns
<1>3. used.slots < MaxSlots => used.slots + 1 \in Slots /\ used.slots + 1 \in 0 .. MaxSlots
  BY <1>a DEF Slots
<1>4. /\ used.others < MaxOtherTasks => used.others + 1 \in 0 .. MaxOtherTasks
      /\ used.interrupts < MaxInterrupts => used.interrupts + 1 \in 0 .. MaxInterrupts
      /\ used.denials < MaxDenials => used.denials + 1 \in 0 .. MaxDenials
      /\ used.continues < MaxContinues => used.continues + 1 \in 0 .. MaxContinues
  BY <1>1, BoundsAssumption DEF Usage
<1>5. used.turns < MaxTurns => [used EXCEPT !.turns = @ + 1] \in Usage
  BY <1>1, <1>2 DEF Usage
<1>6. used.slots < MaxSlots => [used EXCEPT !.slots = @ + 1] \in Usage
  BY <1>1, <1>3 DEF Usage
<1>7. used.turns < MaxTurns /\ used.slots < MaxSlots =>
          [used EXCEPT !.slots = @ + 1, !.turns = @ + 1] \in Usage
  BY <1>1, <1>2, <1>3 DEF Usage
<1>8. used.turns < MaxTurns /\ used.others < MaxOtherTasks =>
          [used EXCEPT !.turns = @ + 1, !.others = @ + 1] \in Usage
  BY <1>1, <1>2, <1>4 DEF Usage
<1>9. /\ used.interrupts < MaxInterrupts => [used EXCEPT !.interrupts = @ + 1] \in Usage
      /\ used.denials < MaxDenials => [used EXCEPT !.denials = @ + 1] \in Usage
      /\ used.continues < MaxContinues => [used EXCEPT !.continues = @ + 1] \in Usage
  BY <1>1, <1>4 DEF Usage
<1>10. QED
  BY <1>2, <1>3, <1>5, <1>6, <1>7, <1>8, <1>9

\* The same for the follow-up requests of one turn.
LEMMA SamplesType ==
    ASSUME TypeOK, NEW t \in Turns, used.samples[t] < MaxSamples
    PROVE  [used EXCEPT !.samples[t] = @ + 1] \in Usage
<1>1. used.samples[t] + 1 \in 0 .. MaxSamples
  BY BoundsAssumption DEF TypeOK, Usage
<1>2. [used.samples EXCEPT ![t] = @ + 1] \in [Turns -> 0 .. MaxSamples]
  BY <1>1 DEF TypeOK, Usage
<1>3. QED
  BY <1>2 DEF TypeOK, Usage

\* Loop, Guardian and Api are processes, none of them a turn; a turn is one too.
LEMMA ProcKinds ==
    /\ Turns \subseteq Procs /\ None \notin Turns
    /\ Loop \in Procs \ Turns /\ Guardian \in Procs \ Turns /\ Api \in Procs \ Turns
    /\ Loop # Guardian
BY BoundsAssumption DEF Turns, Procs, Loop, Guardian, Api, None

\* The numbers given out so far are turns.
LEMMA NumberedTurns ==
    ASSUME TypeOK
    PROVE  1 .. used.turns \subseteq Turns /\ 1 .. used.turns \subseteq Procs
<1>1. used.turns \in 0 .. MaxTurns
  BY DEF TypeOK, Usage
<1>2. 1 .. used.turns \subseteq Turns
  BY <1>1, BoundsAssumption DEF Turns
<1>3. QED
  BY <1>2, ProcKinds

\* The values active_turn is set to.
LEMMA NewActiveType ==
    ASSUME TypeOK
    PROVE  /\ NoTurn \in ActiveTurns
           /\ used.slots < MaxSlots =>
                [some |-> TRUE, task |-> None, slot |-> used.slots + 1] \in ActiveTurns
           /\ active.some \/ used.slots < MaxSlots =>
                ActiveOrNew \in [some : {TRUE}, task : Turns \cup {None}, slot : Slots]
           /\ GetOrInsertActive => used' \in Usage
<1>1. used.slots < MaxSlots =>
        [some |-> TRUE, task |-> None, slot |-> used.slots + 1] \in ActiveTurns
  BY UsageType DEF ActiveTurns
<1>2. active.some \/ used.slots < MaxSlots =>
        ActiveOrNew \in [some : {TRUE}, task : Turns \cup {None}, slot : Slots]
  <2>1. active.some => active \in [some : {TRUE}, task : Turns \cup {None}, slot : Slots]
    <3>1. CASE active = NoTurn
      BY <3>1 DEF NoTurn
    <3>2. QED
      BY <3>1 DEF TypeOK, ActiveTurns
  <2>2. QED
    BY <2>1, UsageType DEF ActiveOrNew
<1>3. GetOrInsertActive => used' \in Usage
  BY UsageType DEF GetOrInsertActive, TypeOK, Usage
<1>4. QED
  BY <1>1, <1>2, <1>3 DEF ActiveTurns

\* start_task and the reservation before it keep the types.
LEMMA StartStepType ==
    ASSUME TurnInv, NEW p \in Procs, StartStep(p)
    PROVE  TypeOK'
<1> USE DEF TurnInv
<1>1. CASE Collect(p)
  <2>1. loc' \in [Procs -> Locals]
    BY <1>1, QueueType, LocFieldType, LocType DEF Collect
  <2>2. pc' \in [Procs -> PCs]
    BY <1>1, GotoType DEF Collect, PCs
  <2>3. QED
    BY <1>1, <2>1, <2>2, QueueType DEF TypeOK, Collect, tasks, events, fates
<1>2. CASE Attach(p)
  <2>1. loc' \in [Procs -> Locals]
    BY <1>2, LocFieldType, LocType DEF Attach
  <2>2. pc' \in [Procs -> PCs]
    BY <1>2, GotoType DEF Attach, PCs
  <2>3. active' \in ActiveTurns /\ used' \in Usage
    BY <1>2, NewActiveType DEF Attach, GetOrInsertActive, ActiveTurns
  <2>4. loc[p].carried \in SUBSET Items
    BY DEF TypeOK, Locals
  <2>5. turnState' \in [Slots -> TurnStates]
    BY <1>2, <2>4, ExtendType DEF Attach
  <2>6. QED
    BY <1>2, <2>1, <2>2, <2>3, <2>5 DEF TypeOK, Attach, tasks, events, fates
<1>3. CASE Install(p)
  <2>1. loc' \in [Procs -> Locals]
    BY <1>3, NoLocalsType, LocType DEF Install
  <2>2. /\ loc[p].turn \in Turns /\ loc[p].ret \in PCs
        /\ loc[p].kind \in {"regular", "shell", "other"} /\ loc[p].input \in SUBSET Items
    <3>1. loc[p].turn \in 1 .. used.turns
      BY <1>3 DEF ProcInv, StartsFreshTurn, Starting, Install
    <3>2. loc[p] \in Locals
      BY DEF TypeOK
    <3>3. loc[p].turn \in Turns
      BY <3>1, NumberedTurns
    <3>4. QED
      BY <3>2, <3>3 DEF Locals
  <2>3. pc' \in [Procs -> PCs]
    BY <1>3, <2>2 DEF Install, PCs, TypeOK
  <2>4. active' \in ActiveTurns /\ used' \in Usage /\ ActiveOrNew.slot \in Slots
    <3>1. ActiveOrNew \in [some : {TRUE}, task : Turns \cup {None}, slot : Slots]
      BY <1>3, NewActiveType DEF Install, GetOrInsertActive
    <3>2. [ActiveOrNew EXCEPT !.task = loc[p].turn] \in ActiveTurns
      BY <3>1, <2>2 DEF ActiveTurns
    <3>3. QED
      BY <1>3, <3>1, <3>2, NewActiveType DEF Install
  <2>5. /\ kind' \in [Turns -> {"regular", "shell", "other"}]
        /\ input' \in [Turns -> SUBSET Items]
        /\ home' \in [Turns -> Slots \cup {None}]
    BY <1>3, <2>2, <2>4 DEF Install, TypeOK
  <2>6. contLock' \in Procs \cup {-1}
    BY <1>3 DEF Install, TypeOK
  <2>7. QED
    BY <1>3, <2>1, <2>3, <2>4, <2>5, <2>6 DEF TypeOK, Install, queues, events, fates
<1>4. CASE CheckMail(p)
  <2>1. pc' \in [Procs -> PCs] /\ loc' \in [Procs -> Locals]
    <3>1. loc[p].ret \in PCs
      BY DEF TypeOK, Locals
    <3>2. QED
      BY <1>4, <3>1, GotoType, ReturnType DEF CheckMail, PCs, TypeOK
  <2>2. QED
    BY <1>4, <2>1 DEF TypeOK, CheckMail, queues, tasks, events, fates
<1>5. CASE Reserve(p)
  <2>1. active' \in ActiveTurns /\ used' \in Usage
    BY <1>5, NewActiveType, UsageType DEF Reserve, ReserveSlot
  <2>2. pc' \in [Procs -> PCs]
    BY <1>5, GotoType DEF Reserve, PCs
  <2>3. loc' \in [Procs -> Locals]
    BY <1>5, UsageType, LocFieldType, LocType DEF Reserve
  <2>4. QED
    BY <1>5, <2>1, <2>2, <2>3 DEF TypeOK, Reserve, queues, tasks, events, fates
<1>6. CASE ReserveTooLate(p)
  <2>1. pc' \in [Procs -> PCs] /\ loc' \in [Procs -> Locals]
    BY <1>6, ReturnType DEF ReserveTooLate, TypeOK, Locals
  <2>2. QED
    BY <1>6, <2>1 DEF TypeOK, ReserveTooLate, queues, tasks, events, fates
<1>7. QED
  BY <1>1, <1>2, <1>3, <1>4, <1>5, <1>6 DEF StartStep

\* Taking the active task keeps the types.
LEMMA TakeTaskType ==
    ASSUME TurnInv, NEW p \in Procs, TakeTask(p)
    PROVE  TypeOK'
<1> USE DEF TurnInv
<1>1. pc' \in [Procs -> PCs]
  BY GotoType DEF TakeTask, PCs
<1>2. loc' \in [Procs -> Locals]
  BY ActiveType, LocTwoFieldType DEF TakeTask
<1>3. cancelled' \in SUBSET Turns /\ active' \in ActiveTurns
  BY ActiveType, NewActiveType DEF TakeTask, TypeOK
<1>4. QED
  BY <1>1, <1>2, <1>3 DEF TypeOK, TakeTask, queues, events, fates

\* So does dropping a turn without a task.
LEMMA AbortAllNoTaskType ==
    ASSUME TurnInv, NEW p \in Procs, AbortAllNoTask(p)
    PROVE  TypeOK'
<1> USE DEF TurnInv
<1>1. pc' \in [Procs -> PCs] /\ loc' \in [Procs -> Locals]
  <2>1. loc[p].ret \in PCs
    BY DEF TypeOK, Locals
  <2>2. QED
    BY <2>1, GotoType, ReturnType DEF AbortAllNoTask, PCs, TypeOK
<1>2. QED
  BY <1>1, NewActiveType DEF TypeOK, AbortAllNoTask, queues, tasks, events, fates

\* Killing and reporting the victim keep the types.
LEMMA AbortStepType ==
    ASSUME TurnInv, NEW p \in Procs, AbortStep(p)
    PROVE  TypeOK'
<1> USE DEF TurnInv
<1>1. CASE AbortKill(p)
  <2>1. pc' \in [Procs -> PCs]
    BY <1>1 DEF AbortKill, PCs, TypeOK
  <2>2. contLock' \in Procs \cup {-1}
    BY <1>1 DEF AbortKill, TypeOK
  <2>3. QED
    BY <1>1, <2>1, <2>2 DEF TypeOK, AbortKill, queues, tasks, events, fates
<1>2. CASE AbortReport(p)
  <2>1. loc[p].victim \in Turns /\ loc[p].slot \in Slots /\ loc[p].ret \in PCs
    BY <1>2 DEF ProcInv, VictimKnown, SlotKnown, AbortReport, TypeOK, Locals
  <2>2. pc' \in [Procs -> PCs]
    BY <1>2, <2>1, GotoType DEF AbortReport, AfterAbort, PCs
  <2>3. loc' \in [Procs -> Locals]
    BY <1>2, LocTwoFieldType DEF AbortReport
  <2>4. turnState' \in [Slots -> TurnStates]
    BY <1>2, TurnStateType DEF AbortReport
  <2>5. discarded' \in SUBSET Items /\ aborted' \in SUBSET Turns
    BY <1>2, <2>1, PendingType DEF AbortReport, TypeOK
  <2>6. QED
    BY <1>2, <2>2, <2>3, <2>4, <2>5 DEF TypeOK, AbortReport, tasks
<1>3. QED
  BY <1>1, <1>2 DEF AbortStep

\* The goal continuation keeps the types.
LEMMA GoalStepType ==
    ASSUME TurnInv, NEW p \in Procs, GoalStep(p)
    PROVE  TypeOK'
<1> USE DEF TurnInv
<1>0. AfterGoal(p) \in PCs
  BY DEF AfterGoal, PCs
<1>1. CASE GoalCheck(p)
  <2>1. pc' \in [Procs -> PCs]
    BY <1>1, GotoType DEF GoalCheck, PCs
  <2>2. loc' \in [Procs -> Locals]
    BY <1>1, LocFieldType, LocType DEF GoalCheck, Items
  <2>3. QED
    BY <1>1, <2>1, <2>2 DEF TypeOK, GoalCheck, queues, tasks, events, fates
<1>2. CASE GoalNoCandidate(p)
  <2>1. pc' \in [Procs -> PCs] /\ loc' \in [Procs -> Locals]
    BY <1>0, <1>2, ReturnType DEF GoalNoCandidate
  <2>2. QED
    BY <1>2, <2>1 DEF TypeOK, GoalNoCandidate, queues, tasks, events, fates
<1>3. CASE GoalReserve(p)
  <2>1. active' \in ActiveTurns /\ used' \in Usage
    BY <1>3, NewActiveType, UsageType DEF GoalReserve, ReserveSlot
  <2>2. pc' \in [Procs -> PCs]
    BY <1>3, GotoType DEF GoalReserve, PCs
  <2>3. loc' \in [Procs -> Locals]
    BY <1>3, UsageType, LocFieldType, LocType DEF GoalReserve, ReserveSlot
  <2>4. QED
    BY <1>3, <2>1, <2>2, <2>3 DEF TypeOK, GoalReserve, queues, tasks, events, fates
<1>4. CASE GoalGiveUp(p)
  <2>1. pc' \in [Procs -> PCs] /\ loc' \in [Procs -> Locals]
    BY <1>0, <1>4, ReturnType DEF GoalGiveUp
  <2>2. active' \in ActiveTurns /\ contLock' \in Procs \cup {-1}
    BY <1>4, NewActiveType DEF GoalGiveUp, TypeOK
  <2>3. QED
    BY <1>4, <2>1, <2>2 DEF TypeOK, GoalGiveUp, queues, tasks, events, fates
<1>5. CASE GoalReread(p)
  <2>1. loc[p].carried \in SUBSET Items
    BY DEF TypeOK, Locals
  <2>2. pc' \in [Procs -> PCs]
    BY <1>5, GotoType DEF GoalReread, PCs
  <2>3. loc' \in [Procs -> Locals]
    BY <1>5, LocFieldType, LocType DEF GoalReread
  <2>4. turnState' \in [Slots -> TurnStates]
    BY <1>5, <2>1, ExtendType DEF GoalReread
  <2>5. QED
    BY <1>5, <2>1, <2>2, <2>3, <2>4 DEF TypeOK, GoalReread, tasks, events, fates
<1>6. CASE GoalConfirm(p)
  <2>1. pc' \in [Procs -> PCs]
    BY <1>6, GotoType DEF GoalConfirm, PCs
  <2>2. [NoLocals EXCEPT !.turn = used.turns + 1, !.ret = AfterGoal(p)] \in Locals
    BY <1>0, <1>6, UsageType, NoLocalsType DEF GoalConfirm, Locals
  <2>3. loc' \in [Procs -> Locals]
    BY <1>6, <2>2, LocType DEF GoalConfirm
  <2>4. used' \in Usage
    BY <1>6, UsageType DEF GoalConfirm
  <2>5. QED
    BY <1>6, <2>1, <2>3, <2>4 DEF TypeOK, GoalConfirm, queues, tasks, events, fates
<1>7. QED
  BY <1>1, <1>2, <1>3, <1>4, <1>5, <1>6 DEF GoalStep

\* A step of task t that moves on or returns, touching no other typed state.
LEMMA TaskMoveType ==
    ASSUME TurnInv, NEW t \in Turns,
           \/ Begin(t) \/ Work(t) \/ CheckFollowUp(t) \/ CheckDone(t) \/ Recheck(t)
           \/ Flush(t) \/ FinTakeNothing(t) \/ FinComplete(t) \/ FinNotCleared(t)
           \/ IdleEmit(t)
    PROVE  TypeOK'
<1> USE ProcKinds DEF TurnInv, queues, tasks, events, fates
<1>1. CASE Begin(t)
  <2>1. pc' \in [Procs -> PCs]
    BY <1>1, GotoType DEF Begin, PCs
  <2>3. QED
    BY <1>1, <2>1 DEF TypeOK, Begin
<1>2. CASE Work(t)
  <2>1. pc' \in [Procs -> PCs]
    BY <1>2, GotoType DEF Work, PCs
  <2>3. QED
    BY <1>2, <2>1 DEF TypeOK, Work
<1>3. CASE CheckFollowUp(t)
  <2>1. pc' \in [Procs -> PCs]
    BY <1>3, GotoType DEF CheckFollowUp, PCs
  <2>2. loc' \in [Procs -> Locals]
    BY <1>3, LocFieldType, LocType DEF CheckFollowUp
  <2>3. QED
    BY <1>3, <2>1, <2>2 DEF TypeOK, CheckFollowUp
<1>4. CASE CheckDone(t)
  <2>1. pc' \in [Procs -> PCs]
    BY <1>4, GotoType DEF CheckDone, PCs
  <2>2. used' \in Usage
    BY <1>4, SamplesType DEF CheckDone, TypeOK
  <2>3. QED
    BY <1>4, <2>1, <2>2 DEF TypeOK, CheckDone
<1>5. CASE Recheck(t)
  <2>1. pc' \in [Procs -> PCs]
    BY <1>5, GotoType DEF Recheck, PCs
  <2>3. QED
    BY <1>5, <2>1 DEF TypeOK, Recheck
<1>6. CASE Flush(t)
  <2>1. pc' \in [Procs -> PCs]
    BY <1>6, GotoType DEF Flush, PCs
  <2>3. QED
    BY <1>6, <2>1 DEF TypeOK, Flush
<1>7. CASE FinTakeNothing(t)
  <2>1. pc' \in [Procs -> PCs] /\ loc' \in [Procs -> Locals]
    BY <1>7, ReturnType DEF FinTakeNothing, PCs
  <2>2. QED
    BY <1>7, <2>1 DEF TypeOK, FinTakeNothing
<1>8. CASE FinComplete(t)
  <2>1. pc' \in [Procs -> PCs]
    BY <1>8, GotoType DEF FinComplete, PCs
  <2>3. QED
    BY <1>8, <2>1 DEF TypeOK, FinComplete
<1>9. CASE FinNotCleared(t)
  <2>1. pc' \in [Procs -> PCs] /\ loc' \in [Procs -> Locals]
    BY <1>9, ReturnType DEF FinNotCleared, PCs
  <2>2. QED
    BY <1>9, <2>1 DEF TypeOK, FinNotCleared
<1>10. CASE IdleEmit(t)
  <2>1. pc' \in [Procs -> PCs] /\ loc' \in [Procs -> Locals]
    BY <1>10, ReturnType DEF IdleEmit, PCs
  <2>2. QED
    BY <1>10, <2>1 DEF TypeOK, IdleEmit
<1>11. QED
  BY <1>1, <1>2, <1>3, <1>4, <1>5, <1>6, <1>7, <1>8, <1>9, <1>10

\* The steps of task t that record, sample or take input.
LEMMA TaskInputType ==
    ASSUME TurnInv, NEW t \in Turns,
           \/ Record(t) \/ RunTurnStopped(t) \/ Drain(t) \/ RecordPending(t)
           \/ SampleTool(t) \/ SampleError(t)
           \/ \E follow \in BOOLEAN : SampleAnswer(t, follow)
           \/ FinTake(t) \/ FinPending(t) \/ FinClear(t)
    PROVE  TypeOK'
<1> USE ProcKinds DEF TurnInv, queues, tasks, events, fates
<1>0. input[t] \in SUBSET Items /\ loc[t].carried \in SUBSET Items
  BY DEF TypeOK, Locals
<1>1. CASE Record(t)
  <2>1. pc' \in [Procs -> PCs]
    BY <1>1, GotoType DEF Record, PCs
  <2>2. recorded' \in SUBSET Items /\ refused' \in SUBSET Items
    BY <1>0, <1>1 DEF Record, RecordInputs, TypeOK
  <2>3. input' \in [Turns -> SUBSET Items]
    BY <1>1 DEF Record, TypeOK
  <2>4. QED
    BY <1>1, <2>1, <2>2, <2>3 DEF TypeOK, Record
<1>2. CASE RunTurnStopped(t)
  <2>1. pc' \in [Procs -> PCs]
    BY <1>2, GotoType DEF RunTurnStopped, PCs
  <2>2. used' \in Usage
    BY <1>2, SamplesType DEF RunTurnStopped
  <2>3. input' \in [Turns -> SUBSET Items] /\ refused' \in SUBSET Items
    BY <1>0, <1>2 DEF RunTurnStopped, TypeOK
  <2>4. QED
    BY <1>2, <2>1, <2>2, <2>3 DEF TypeOK, RunTurnStopped
<1>3. CASE Drain(t)
  <2>1. pc' \in [Procs -> PCs]
    BY <1>3, GotoType DEF Drain, PCs
  <2>2. loc' \in [Procs -> Locals]
    BY <1>3, QueueType, LocFieldType, LocType DEF Drain
  <2>3. QED
    BY <1>3, <2>1, <2>2, QueueType DEF TypeOK, Drain
<1>4. CASE RecordPending(t)
  <2>1. pc' \in [Procs -> PCs]
    BY <1>4, GotoType DEF RecordPending, PCs
  <2>2. loc' \in [Procs -> Locals]
    BY <1>4, LocFieldType, LocType DEF RecordPending
  <2>3. recorded' \in SUBSET Items /\ refused' \in SUBSET Items
    BY <1>0, <1>4 DEF RecordPending, RecordInputs, TypeOK
  <2>4. QED
    BY <1>4, <2>1, <2>2, <2>3 DEF TypeOK, RecordPending
<1>5. CASE SampleTool(t)
  <2>1. pc' \in [Procs -> PCs]
    BY <1>5, GotoType DEF SampleTool, PCs
  <2>2. loc' \in [Procs -> Locals]
    BY <1>5, LocFieldType, LocType DEF SampleTool
  <2>3. used' \in Usage
    BY <1>5, SamplesType DEF SampleTool
  <2>4. turnState' \in [Slots -> TurnStates]
    BY <1>5, TurnStateType DEF SampleTool, AcceptMail, TypeOK
  <2>5. QED
    BY <1>5, <2>1, <2>2, <2>3, <2>4 DEF TypeOK, SampleTool
<1>6. CASE SampleError(t)
  <2>1. pc' \in [Procs -> PCs]
    BY <1>6, GotoType DEF SampleError, PCs
  <2>2. QED
    BY <1>6, <2>1 DEF TypeOK, SampleError
<1>7. ASSUME NEW follow \in BOOLEAN, SampleAnswer(t, follow)
      PROVE  TypeOK'
  <2>1. pc' \in [Procs -> PCs]
    BY <1>7, GotoType DEF SampleAnswer, PCs
  <2>2. loc' \in [Procs -> Locals]
    BY <1>7, LocFieldType, LocType DEF SampleAnswer
  <2>3. used' \in Usage
    <3>1. CASE follow
      BY <1>7, <3>1, SamplesType DEF SampleAnswer
    <3>2. CASE ~follow
      BY <1>7, <3>2 DEF SampleAnswer, TypeOK, Usage
    <3>3. QED
      BY <3>1, <3>2
  <2>4. turnState' \in [Slots -> TurnStates]
    BY <1>7, TurnStateType DEF SampleAnswer, DeferMail, TypeOK
  <2>5. QED
    BY <1>7, <2>1, <2>2, <2>3, <2>4 DEF TypeOK, SampleAnswer
<1>8. CASE FinTake(t)
  <2>1. pc' \in [Procs -> PCs]
    BY <1>8, GotoType DEF FinTake, PCs
  <2>2. loc' \in [Procs -> Locals]
    BY <1>8, ActiveType, LocFieldType, LocType DEF FinTake
  <2>3. active' \in ActiveTurns
    <3>1. active # NoTurn
      BY <1>8 DEF FinTake, NoTurn
    <3>2. QED
      BY <1>8, <3>1 DEF FinTake, TypeOK, ActiveTurns
  <2>4. QED
    BY <1>8, <2>1, <2>2, <2>3 DEF TypeOK, FinTake
<1>9. CASE FinPending(t)
  <2>1. pc' \in [Procs -> PCs]
    BY <1>9, GotoType DEF FinPending, PCs
  <2>2. loc[t].slot \in Slots
    BY <1>9 DEF FinPending, ProcInv, SlotKnown
  <2>3. turnState' \in [Slots -> TurnStates]
    BY <1>9, TurnStateType DEF FinPending
  <2>4. recorded' \in SUBSET Items /\ refused' \in SUBSET Items
    BY <1>9, <2>2, PendingType DEF FinPending, RecordInputs, TypeOK
  <2>5. QED
    BY <1>9, <2>1, <2>3, <2>4 DEF TypeOK, FinPending
<1>10. CASE FinClear(t)
  <2>1. pc' \in [Procs -> PCs]
    BY <1>10, GotoType DEF FinClear, PCs
  <2>2. [NoLocals EXCEPT !.ret = "goalCheck"] \in Locals
    BY NoLocalsType DEF Locals, PCs
  <2>3. loc' \in [Procs -> Locals]
    BY <1>10, <2>2, LocType DEF FinClear
  <2>4. QED
    BY <1>10, <2>1, <2>3, NewActiveType DEF TypeOK, FinClear
<1>11. QED
  BY <1>1, <1>2, <1>3, <1>4, <1>5, <1>6, <1>7, <1>8, <1>9, <1>10

\* The operations a client, another agent or a timer submits.
LEMMA EnvironmentType ==
    ASSUME TurnInv, Environment
    PROVE  TypeOK'
<1> USE ProcKinds DEF TurnInv, queues, tasks, events, fates
<1>0. ASSUME NEW k \in {"regular", "shell", "other"}, NEW x \in SUBSET Items,
             SpawnTask(k, x)
      PROVE  pc' \in [Procs -> PCs] /\ loc' \in [Procs -> Locals]
  <2>1. [NoLocals EXCEPT !.turn = used.turns + 1, !.kind = k, !.input = x] \in Locals
    BY <1>0, UsageType, NoLocalsType DEF SpawnTask, Locals
  <2>2. pc' \in [Procs -> PCs]
    BY <1>0, GotoType DEF SpawnTask, PCs
  <2>3. QED
    BY <1>0, <2>1, <2>2, LocType DEF SpawnTask
<1>a. ASSUME NEW next \in {"idle", "stopped"}, StopWith(next)
      PROVE  pc' \in [Procs -> PCs] /\ loc' \in [Procs -> Locals]
  <2>1. pc' \in [Procs -> PCs]
    BY <1>a, GotoType DEF StopWith, PCs
  <2>2. QED
    BY <1>a, <2>1, LocTwoFieldType DEF StopWith, PCs
<1>b. UserItems \subseteq Items /\ InjectedItems \subseteq Items
  BY DEF Items
<1>1. ASSUME NEW u \in UserItems, UserInputSteered(u) \/ ClientSteer(u)
      PROVE  TypeOK'
  <2>1. turnState' \in [Slots -> TurnStates]
    <3>1. Steer(u) => turnState' \in [Slots -> TurnStates]
      <4>1. u \in Items
        BY <1>b
      <4>2. QED
        BY <4>1, SteerType
    <3>2. Steer(u) \/ turnState' = turnState
      BY <1>1 DEF UserInputSteered, ClientSteer
    <3>3. QED
      BY <3>1, <3>2 DEF TypeOK
  <2>2. sent' \in SUBSET Items /\ refused' \in SUBSET Items
    BY <1>1, <1>b DEF UserInputSteered, ClientSteer, TypeOK
  <2>3. QED
    BY <1>1, <2>1, <2>2 DEF TypeOK, UserInputSteered, ClientSteer
<1>2. ASSUME NEW u \in UserItems, UserInputSpawn(u)
      PROVE  TypeOK'
  <2>1. pc' \in [Procs -> PCs] /\ loc' \in [Procs -> Locals]
    BY <1>0, <1>2, <1>b DEF UserInputSpawn
  <2>2. used' \in Usage
    BY <1>2, UsageType DEF UserInputSpawn, SpawnTask
  <2>3. QED
    BY <1>2, <1>b, <2>1, <2>2 DEF TypeOK, UserInputSpawn
<1>3. ASSUME NEW u \in UserItems, UserInputRefused(u)
      PROVE  TypeOK'
  BY <1>3, <1>b DEF TypeOK, UserInputRefused
<1>4. ASSUME NEW m \in Mails, Mail(m)
      PROVE  TypeOK'
  <2>1. pc' \in [Procs -> PCs]
    BY <1>4, GotoType DEF Mail, PCs, TypeOK
  <2>2. mailbox' \in SUBSET Mails /\ sent' \in SUBSET Items
    BY <1>4 DEF Mail, TypeOK, Items
  <2>3. QED
    BY <1>4, <2>1, <2>2 DEF TypeOK, Mail
<1>5. ASSUME NEW i \in InjectedItems, Inject(i)
      PROVE  TypeOK'
  <2>1. turnState' \in [Slots -> TurnStates]
    <3>1. {i} \in SUBSET Items
      BY <1>b
    <3>2. Extend(active.slot, {i}) => turnState' \in [Slots -> TurnStates]
      BY <3>1, ExtendType
    <3>3. Extend(active.slot, {i}) \/ turnState' = turnState
      BY <1>5 DEF Inject
    <3>4. QED
      BY <3>2, <3>3 DEF TypeOK
  <2>2. recorded' \in SUBSET Items /\ sent' \in SUBSET Items
    BY <1>5, <1>b DEF Inject, TypeOK
  <2>3. QED
    BY <1>5, <2>1, <2>2 DEF TypeOK, Inject
<1>6. ASSUME NEW k \in {"shell", "other"}, OtherTask(k)
      PROVE  TypeOK'
  <2>1. pc' \in [Procs -> PCs] /\ loc' \in [Procs -> Locals]
    BY <1>0, <1>6 DEF OtherTask
  <2>2. used' \in Usage
    BY <1>6, UsageType DEF OtherTask, SpawnTask
  <2>3. QED
    BY <1>6, <2>1, <2>2 DEF TypeOK, OtherTask
<1>7. ASSUME NEW t \in Turns, GuardianDenial(t)
      PROVE  TypeOK'
  <2>1. pc' \in [Procs -> PCs]
    BY <1>7, GotoType DEF GuardianDenial, PCs
  <2>2. loc' \in [Procs -> Locals]
    BY <1>7, LocTwoFieldType DEF GuardianDenial
  <2>3. used' \in Usage
    BY <1>7, UsageType DEF GuardianDenial
  <2>4. QED
    BY <1>7, <2>1, <2>2, <2>3 DEF TypeOK, GuardianDenial
<1>8. CASE Interrupt
  <2>1. used' \in Usage
    BY <1>8, UsageType DEF Interrupt
  <2>2. QED
    BY <1>8, <1>a, <2>1 DEF TypeOK, Interrupt
<1>9. CASE Shutdown
  BY <1>9, <1>a DEF TypeOK, Shutdown
<1>10. CASE ContinueGoal
  <2>1. pc' \in [Procs -> PCs]
    BY <1>10, GotoType DEF ContinueGoal, PCs
  <2>2. loc' \in [Procs -> Locals]
    BY <1>10, LocFieldType, LocType DEF ContinueGoal, PCs
  <2>3. used' \in Usage
    BY <1>10, UsageType DEF ContinueGoal
  <2>4. QED
    BY <1>10, <2>1, <2>2, <2>3 DEF TypeOK, ContinueGoal
<1>11. QED
  BY <1>1, <1>2, <1>3, <1>4, <1>5, <1>6, <1>7, <1>8, <1>9, <1>10 DEF Environment

\* Every step keeps the types.
LEMMA NextType ==
    ASSUME TurnInv, [Next]_vars
    PROVE  TypeOK'
<1> USE ProcKinds
<1>1. CASE UNCHANGED vars
  BY <1>1 DEF TurnInv, TypeOK, vars
<1>2. CASE Environment
  BY <1>2, EnvironmentType
<1>3. CASE LoopStep
  BY <1>3, TakeTaskType, AbortAllNoTaskType, AbortStepType, StartStepType
     DEF LoopStep, AbortAll
<1>4. CASE GuardianStep
  <2>1. CASE GuardianTooLate
    <3>1. pc' \in [Procs -> PCs] /\ loc' \in [Procs -> Locals]
      BY <2>1, ReturnType DEF GuardianTooLate, TurnInv, PCs
    <3>2. QED
      BY <2>1, <3>1 DEF TurnInv, TypeOK, GuardianTooLate, queues, tasks, events, fates
  <2>2. QED
    BY <1>4, <2>1, TakeTaskType, AbortStepType, StartStepType
       DEF GuardianStep, GuardianAbort
<1>5. CASE ApiStep
  BY <1>5, StartStepType, GoalStepType DEF ApiStep
<1>6. ASSUME NEW t \in Turns, TaskStep(t)
      PROVE  TypeOK'
  BY <1>6, TaskMoveType, TaskInputType, StartStepType, GoalStepType DEF TaskStep
<1>7. QED
  BY <1>1, <1>2, <1>3, <1>4, <1>5, <1>6 DEF Next, Waiting

-----------------------------------------------------------------------------
(* Processes and the turns they start and abort.                            *)

\* Labels that promise nothing about the turn a process works for.
Plain == PCs \ {"off", "abort", "guard", "wait", "report", "collect", "attach",
                "install", "finPending"}

\* A live process p moves to label l: what it must know there.
LEMMA ProcStep ==
    ASSUME TurnInv, TypeOK', NEW p \in Procs, NEW l \in PCs \ {"off"},
           pc[p] \notin {"off", "dead", "gone"},
           pc' = [pc EXCEPT ![p] = l],
           \A q \in Procs \ {p} : loc'[q] = loc[q],
           loc'[p].ret \in Returns,
           used.turns <= used'.turns,
           active'.task \in {active.task, None},
           aborted' = aborted,
           Starting(p)' =>
              /\ loc'[p].turn \in 1 .. used'.turns /\ pc[loc'[p].turn] = "off"
              /\ \A q \in Procs \ {p} : Starting(q) => loc[q].turn # loc'[p].turn,
           l \in {"wait", "report"} =>
              /\ loc'[p].victim \in Turns /\ loc'[p].victim # p
              /\ pc[loc'[p].victim] # "off"
              /\ l = "report" => pc[loc'[p].victim] \in {"dead", "gone"},
           l = "guard" => loc'[p].interrupt,
           l \in {"wait", "report", "finPending"} => loc'[p].slot \in Slots
    PROVE  ProcInv'
<1> USE DEF TurnInv, ProcInv
<1>0. /\ pc \in [Procs -> PCs] /\ Turns \subseteq Procs /\ None \notin Turns
      /\ used.turns \in 0 .. MaxTurns /\ used'.turns \in 0 .. MaxTurns
      /\ aborted \in SUBSET Turns /\ active.task \in Turns \cup {None}
      /\ \A q \in Procs : loc[q].turn \in Turns \cup {None}
  BY ProcKinds, ActiveType DEF TypeOK, Usage, Locals
<1>1. /\ pc'[p] = l
      /\ \A q \in Procs \ {p} : pc'[q] = pc[q] /\ (Starting(q)' <=> Starting(q))
  BY <1>0 DEF Starting
<1>2. \A t \in Procs : pc[t] = "off" => pc'[t] = "off"
  BY <1>0
<1>a. \A n \in 1 .. used.turns : n \in 1 .. used'.turns /\ n \in Procs
  BY <1>0, BoundsAssumption DEF Procs
<1>b. \A n \in 1 .. used'.turns : n \in Procs
  BY <1>0, BoundsAssumption DEF Procs
<1>3. StartsFreshTurn'
  <2> SUFFICES ASSUME NEW q \in Procs, Starting(q)'
               PROVE  loc'[q].turn \in 1 .. used'.turns /\ pc'[loc'[q].turn] = "off"
    BY DEF StartsFreshTurn
  <2>1. CASE q = p
    BY <1>2, <1>b, <2>1
  <2>2. CASE q # p
    BY <1>1, <1>2, <1>a, <2>2 DEF StartsFreshTurn
  <2>3. QED
    BY <2>1, <2>2
<1>4. StartsOwnTurn'
  <2> SUFFICES ASSUME NEW q \in Procs, NEW r \in Procs, Starting(q)', Starting(r)',
                      loc'[q].turn = loc'[r].turn
               PROVE  q = r
    BY DEF StartsOwnTurn
  <2>1. CASE q # p /\ r # p
    BY <1>1, <2>1 DEF StartsOwnTurn
  <2>2. CASE q = p \/ r = p
    BY <1>1, <2>2
  <2>3. QED
    BY <2>1, <2>2
<1>5. LaterTurnsOff'
  BY <1>0, <1>2 DEF LaterTurnsOff, Turns
<1>6. ActiveSpawned'
  BY <1>0, <1>1 DEF ActiveSpawned
<1>7. VictimKnown'
  <2> SUFFICES ASSUME NEW q \in Procs, pc'[q] \in {"wait", "report"}
               PROVE  /\ loc'[q].victim \in Turns /\ pc'[loc'[q].victim] # "off"
                      /\ pc'[q] = "report" => pc'[loc'[q].victim] \in {"dead", "gone"}
    BY DEF VictimKnown
  <2>1. CASE q = p
    BY <1>0, <1>1, <2>1
  <2>2. CASE q # p
    BY <1>0, <1>1, <2>2 DEF VictimKnown
  <2>3. QED
    BY <2>1, <2>2
<1>8. GuardInterrupts' /\ ReturnsKnown' /\ SlotKnown'
  BY <1>1 DEF GuardInterrupts, ReturnsKnown, SlotKnown
<1>9. AbortedTurnIsDead'
  BY <1>0, <1>1 DEF AbortedTurnIsDead
<1>10. QED
  BY <1>3, <1>4, <1>5, <1>6, <1>7, <1>8, <1>9

\* A process that moves to a plain label has nothing to know there.
LEMMA PlainStep ==
    ASSUME TurnInv, TypeOK', NEW p \in Procs, NEW l \in Plain,
           pc[p] \notin {"off", "dead", "gone"},
           pc' = [pc EXCEPT ![p] = l],
           \A q \in Procs \ {p} : loc'[q] = loc[q],
           loc'[p].ret \in Returns,
           used.turns <= used'.turns,
           active'.task \in {active.task, None},
           aborted' = aborted
    PROVE  ProcInv'
<1>1. l \in PCs \ {"off"} /\ pc'[p] = l
  BY DEF Plain, TurnInv, TypeOK
<1>2. ~Starting(p)'
  BY <1>1 DEF Starting, Plain
<1>3. /\ l \notin {"wait", "report"} /\ l # "guard"
      /\ l \notin {"wait", "report", "finPending"}
  BY DEF Plain
<1>4. QED
  BY <1>1, <1>2, <1>3, ProcStep

\* A step that moves no process.
LEMMA StillStep ==
    ASSUME TurnInv, pc' = pc, loc' = loc, used' = used, active' = active,
           aborted' = aborted
    PROVE  ProcInv'
BY DEF TurnInv, ProcInv, Starting, StartsFreshTurn, StartsOwnTurn, LaterTurnsOff,
       ActiveSpawned, VictimKnown, GuardInterrupts, ReturnsKnown, SlotKnown,
       AbortedTurnIsDead

\* Returning from a handler.
LEMMA ReturnStep ==
    ASSUME TurnInv, TypeOK', NEW p \in Procs, NEW l \in Plain, Return(p, l),
           pc[p] \notin {"off", "dead", "gone"}, used' = used,
           active'.task \in {active.task, None}, aborted' = aborted
    PROVE  ProcInv'
<1>1. /\ \A q \in Procs \ {p} : loc'[q] = loc[q]
      /\ loc'[p].ret \in Returns
  BY DEF Return, TurnInv, TypeOK, NoLocals, Returns
<1>2. used.turns <= used'.turns
  BY DEF TurnInv, TypeOK, Usage
<1>3. QED
  BY <1>1, <1>2, PlainStep DEF Return, Goto

\* Moving on with the same return label.
LEMMA MoveStep ==
    ASSUME TurnInv, TypeOK', NEW p \in Procs, NEW l \in Plain, Goto(p, l),
           pc[p] \notin {"off", "dead", "gone"},
           \A q \in Procs \ {p} : loc'[q] = loc[q],
           loc'[p].ret = loc[p].ret, used'.turns = used.turns,
           active'.task \in {active.task, None}, aborted' = aborted
    PROVE  ProcInv'
<1>1. loc'[p].ret \in Returns
  BY DEF TurnInv, ProcInv, ReturnsKnown
<1>2. used.turns <= used'.turns
  BY DEF TurnInv, TypeOK, Usage
<1>3. QED
  BY <1>1, <1>2, PlainStep DEF Goto

\* An update of some locals of p keeps the others, and those of other processes.
LEMMA LocKeeps ==
    ASSUME TypeOK, NEW p \in Procs
    PROVE  /\ \A x : LET n == [loc EXCEPT ![p].carried = x]
                     IN  /\ \A q \in Procs \ {p} : n[q] = loc[q]
                         /\ n[p] = [loc[p] EXCEPT !.carried = x]
                         /\ n[p].ret = loc[p].ret /\ n[p].turn = loc[p].turn
           /\ \A x : LET n == [loc EXCEPT ![p].slot = x]
                     IN  /\ \A q \in Procs \ {p} : n[q] = loc[q]
                         /\ n[p].ret = loc[p].ret /\ n[p].slot = x
           /\ \A x : LET n == [loc EXCEPT ![p].follow = x]
                     IN  /\ \A q \in Procs \ {p} : n[q] = loc[q]
                         /\ n[p].ret = loc[p].ret
           /\ \A x : LET n == [loc EXCEPT ![p].turn = x]
                     IN  /\ \A q \in Procs \ {p} : n[q] = loc[q]
                         /\ n[p].ret = loc[p].ret /\ n[p].turn = x
<1>1. loc \in [Procs -> Locals] /\ loc[p] \in Locals
  BY DEF TypeOK
<1>2. QED
  BY <1>1 DEF Locals

\* What get_or_insert, a reservation or a taken task leaves in active_turn.
LEMMA ActiveTaskKept ==
    ASSUME TypeOK
    PROVE  /\ NoTurn.task = None
           /\ ActiveOrNew.task \in {active.task, None}
BY DEF NoTurn, ActiveOrNew

\* Steps of a task that only move it.
LEMMA TaskMoveProc ==
    ASSUME TurnInv, TypeOK', NEW t \in Turns,
           \/ Begin(t) \/ Work(t) \/ CheckFollowUp(t) \/ CheckDone(t) \/ Recheck(t)
           \/ Flush(t) \/ FinTakeNothing(t) \/ FinComplete(t) \/ FinNotCleared(t)
           \/ IdleEmit(t)
    PROVE  ProcInv'
<1> USE ProcKinds DEF queues, tasks, events, fates
<1>0. TypeOK
  BY DEF TurnInv
<1>1. CASE Begin(t)
  BY <1>1, MoveStep DEF Begin, Plain, PCs
<1>2. CASE Work(t)
  BY <1>2, MoveStep DEF Work, Plain, PCs
<1>3. CASE CheckFollowUp(t)
  <2>1. /\ \A q \in Procs \ {t} : loc'[q] = loc[q]
        /\ loc'[t].ret = loc[t].ret
    BY <1>0, <1>3, LocKeeps DEF CheckFollowUp
  <2>3. QED
    BY <1>3, <2>1, MoveStep DEF CheckFollowUp, Plain, PCs
<1>4. CASE CheckDone(t)
  <2>1. used'.turns = used.turns
    BY <1>0, <1>4 DEF CheckDone, TypeOK, Usage
  <2>2. QED
    BY <1>4, <2>1, MoveStep DEF CheckDone, Plain, PCs
<1>5. CASE Recheck(t)
  BY <1>5, MoveStep DEF Recheck, Plain, PCs
<1>6. CASE Flush(t)
  BY <1>6, MoveStep DEF Flush, Plain, PCs
<1>7. CASE FinTakeNothing(t)
  BY <1>7, ReturnStep DEF FinTakeNothing, Plain, PCs
<1>8. CASE FinComplete(t)
  BY <1>8, MoveStep DEF FinComplete, Plain, PCs
<1>9. CASE FinNotCleared(t)
  BY <1>9, ReturnStep DEF FinNotCleared, Plain, PCs
<1>10. CASE IdleEmit(t)
  BY <1>10, ReturnStep DEF IdleEmit, Plain, PCs
<1>11. QED
  BY <1>1, <1>2, <1>3, <1>4, <1>5, <1>6, <1>7, <1>8, <1>9, <1>10

\* Steps of a task that touch input, the session or the model.
LEMMA TaskInputProc ==
    ASSUME TurnInv, TypeOK', NEW t \in Turns,
           \/ Record(t) \/ RunTurnStopped(t) \/ Drain(t) \/ RecordPending(t)
           \/ SampleTool(t) \/ SampleError(t)
           \/ \E follow \in BOOLEAN : SampleAnswer(t, follow)
           \/ FinTake(t) \/ FinPending(t) \/ FinClear(t)
    PROVE  ProcInv'
<1> USE ProcKinds DEF queues, tasks, events, fates
<1>0. TypeOK
  BY DEF TurnInv
<1>1. CASE Record(t)
  BY <1>1, MoveStep DEF Record, Plain, PCs
<1>2. CASE RunTurnStopped(t)
  <2>1. used'.turns = used.turns
    BY <1>0, <1>2 DEF RunTurnStopped, TypeOK, Usage
  <2>2. QED
    BY <1>2, <2>1, MoveStep DEF RunTurnStopped, Plain, PCs
<1>3. CASE Drain(t)
  <2>1. /\ \A q \in Procs \ {t} : loc'[q] = loc[q]
        /\ loc'[t].ret = loc[t].ret
    BY <1>0, <1>3, LocKeeps DEF Drain
  <2>3. QED
    BY <1>3, <2>1, MoveStep DEF Drain, Plain, PCs
<1>4. CASE RecordPending(t)
  <2>1. /\ \A q \in Procs \ {t} : loc'[q] = loc[q]
        /\ loc'[t].ret = loc[t].ret
    BY <1>0, <1>4, LocKeeps DEF RecordPending
  <2>3. QED
    BY <1>4, <2>1, MoveStep DEF RecordPending, Plain, PCs
<1>5. CASE SampleTool(t)
  <2>1. /\ \A q \in Procs \ {t} : loc'[q] = loc[q]
        /\ loc'[t].ret = loc[t].ret
    BY <1>0, <1>5, LocKeeps DEF SampleTool
  <2>2. used'.turns = used.turns
    BY <1>0, <1>5 DEF SampleTool, TypeOK, Usage
  <2>3. QED
    BY <1>5, <2>1, <2>2, MoveStep DEF SampleTool, Plain, PCs
<1>6. CASE SampleError(t)
  BY <1>6, MoveStep DEF SampleError, Plain, PCs
<1>7. ASSUME NEW follow \in BOOLEAN, SampleAnswer(t, follow)
      PROVE  ProcInv'
  <2>1. /\ \A q \in Procs \ {t} : loc'[q] = loc[q]
        /\ loc'[t].ret = loc[t].ret
    BY <1>0, <1>7, LocKeeps DEF SampleAnswer
  <2>2. used'.turns = used.turns
    BY <1>0, <1>7 DEF SampleAnswer, TypeOK, Usage
  <2>3. QED
    BY <1>7, <2>1, <2>2, MoveStep DEF SampleAnswer, Plain, PCs
<1>8. CASE FinTake(t)
  <2>1. /\ \A q \in Procs \ {t} : loc'[q] = loc[q]
        /\ loc'[t].ret = loc[t].ret /\ loc'[t].slot = active.slot
    BY <1>0, <1>8, LocKeeps DEF FinTake
  <2>2. /\ active'.task = None /\ active.slot \in Slots
    <3>1. active # NoTurn
      BY <1>8 DEF FinTake, NoTurn
    <3>2. QED
      BY <1>0, <1>8, <3>1 DEF FinTake, TypeOK, ActiveTurns
  <2>3. pc' = [pc EXCEPT ![t] = "finPending"] /\ pc'[t] = "finPending" /\ ~Starting(t)'
    BY <1>0, <1>8 DEF FinTake, Goto, TypeOK, Starting
  <2>4. loc'[t].ret \in Returns /\ used.turns <= used'.turns
    BY <1>8, <2>1 DEF FinTake, TurnInv, ProcInv, ReturnsKnown, TypeOK, Usage
  <2>5. QED
    BY <1>8, <2>1, <2>2, <2>3, <2>4, ProcStep DEF FinTake, PCs
<1>9. CASE FinPending(t)
  BY <1>9, MoveStep DEF FinPending, Plain, PCs
<1>10. CASE FinClear(t)
  <2>1. /\ \A q \in Procs \ {t} : loc'[q] = loc[q]
        /\ loc'[t].ret \in Returns
    BY <1>0, <1>10 DEF FinClear, TypeOK, NoLocals, Returns
  <2>2. used.turns <= used'.turns
    BY <1>0, <1>10 DEF FinClear, TypeOK, Usage
  <2>3. QED
    BY <1>0, <1>10, <2>1, <2>2, PlainStep, ActiveTaskKept DEF FinClear, Goto, Plain, PCs
<1>11. QED
  BY <1>1, <1>2, <1>3, <1>4, <1>5, <1>6, <1>7, <1>8, <1>9, <1>10

\* The next turn number is fresh, and nobody starts that turn yet.
LEMMA NextTurnFresh ==
    ASSUME TurnInv, used.turns < MaxTurns, used'.turns = used.turns + 1
    PROVE  /\ used.turns + 1 \in 1 .. used'.turns /\ used.turns + 1 \in Turns
           /\ pc[used.turns + 1] = "off" /\ used.turns <= used'.turns
           /\ \A q \in Procs : Starting(q) => loc[q].turn # used.turns + 1
<1>1. used.turns \in 0 .. MaxTurns /\ MaxTurns \in Nat
  BY BoundsAssumption DEF TurnInv, TypeOK, Usage
<1>2. used.turns + 1 \in Turns
  BY <1>1 DEF Turns
<1>3. pc[used.turns + 1] = "off"
  BY <1>1, <1>2 DEF TurnInv, ProcInv, LaterTurnsOff
<1>4. \A q \in Procs : Starting(q) => loc[q].turn # used.turns + 1
  BY <1>1 DEF TurnInv, ProcInv, StartsFreshTurn
<1>5. QED
  BY <1>1, <1>2, <1>3, <1>4

\* A process already inside start_task goes on with the same turn.
LEMMA StartingStep ==
    ASSUME TurnInv, TypeOK', NEW p \in Procs, Starting(p),
           NEW l \in {"collect", "attach", "install"}, Goto(p, l),
           \A q \in Procs \ {p} : loc'[q] = loc[q],
           loc'[p].turn = loc[p].turn, loc'[p].ret = loc[p].ret,
           used'.turns = used.turns,
           active'.task \in {active.task, None}, aborted' = aborted
    PROVE  ProcInv'
<1>1. pc[p] \notin {"off", "dead", "gone"} /\ l \in PCs \ {"off"}
  BY DEF Starting, PCs
<1>2. loc'[p].ret \in Returns /\ used.turns <= used'.turns
  BY DEF TurnInv, ProcInv, ReturnsKnown, TypeOK, Usage
<1>3. /\ loc'[p].turn \in 1 .. used'.turns /\ pc[loc'[p].turn] = "off"
      /\ \A q \in Procs \ {p} : Starting(q) => loc[q].turn # loc'[p].turn
  BY DEF TurnInv, ProcInv, StartsFreshTurn, StartsOwnTurn
<1>4. QED
  BY <1>1, <1>2, <1>3, ProcStep DEF Goto

\* A process that has just numbered a new turn.
LEMMA NewTurnStep ==
    ASSUME TurnInv, TypeOK', NEW p \in Procs,
           pc[p] \notin {"off", "dead", "gone"},
           NEW l \in {"abort", "collect"}, Goto(p, l),
           \A q \in Procs \ {p} : loc'[q] = loc[q],
           used.turns < MaxTurns, used'.turns = used.turns + 1,
           loc'[p].turn = used.turns + 1, loc'[p].ret \in Returns,
           active'.task \in {active.task, None}, aborted' = aborted
    PROVE  ProcInv'
<1>1. l \in PCs \ {"off"}
  BY DEF PCs
<1>2. QED
  BY <1>1, NextTurnFresh, ProcStep DEF Goto

\* start_task up to the installation.
LEMMA StartStepProc ==
    ASSUME TurnInv, TypeOK', NEW p \in Procs, Collect(p) \/ Attach(p) \/ CheckMail(p)
                                              \/ Reserve(p) \/ ReserveTooLate(p)
    PROVE  ProcInv'
<1> USE DEF queues, tasks, events, fates
<1>0. TypeOK /\ loc[p].ret \in Returns /\ Returns \subseteq Plain
  BY DEF TurnInv, ProcInv, ReturnsKnown, Returns, Plain, PCs
<1>1. CASE Collect(p)
  <2>1. /\ \A q \in Procs \ {p} : loc'[q] = loc[q]
        /\ loc'[p].ret = loc[p].ret /\ loc'[p].turn = loc[p].turn
    BY <1>0, <1>1, LocKeeps DEF Collect
  <2>2. QED
    BY <1>1, <2>1, StartingStep DEF Collect, Starting
<1>2. CASE Attach(p)
  <2>1. /\ \A q \in Procs \ {p} : loc'[q] = loc[q]
        /\ loc'[p].ret = loc[p].ret /\ loc'[p].turn = loc[p].turn
    BY <1>0, <1>2, LocKeeps DEF Attach
  <2>2. used'.turns = used.turns
    BY <1>0, <1>2 DEF Attach, GetOrInsertActive, TypeOK, Usage
  <2>3. QED
    BY <1>0, <1>2, <2>1, <2>2, StartingStep, ActiveTaskKept DEF Attach, Starting
<1>3. CASE CheckMail(p)
  <2>1. CASE Goto(p, "reserve") /\ UNCHANGED loc
    BY <1>3, <2>1, MoveStep DEF CheckMail, Plain, PCs
  <2>2. CASE Return(p, loc[p].ret)
    BY <1>0, <1>3, <2>2, ReturnStep DEF CheckMail
  <2>3. QED
    BY <1>3, <2>1, <2>2 DEF CheckMail
<1>4. CASE Reserve(p)
  <2>1. /\ \A q \in Procs \ {p} : loc'[q] = loc[q]
        /\ loc'[p].ret = loc[p].ret /\ loc'[p].turn = used.turns + 1
    BY <1>0, <1>4, LocKeeps DEF Reserve
  <2>2. used'.turns = used.turns + 1
    BY <1>0, <1>4 DEF Reserve, TypeOK, Usage
  <2>3. active'.task = None
    BY <1>4 DEF Reserve, ReserveSlot
  <2>4. QED
    BY <1>0, <1>4, <2>1, <2>2, <2>3, NewTurnStep DEF Reserve
<1>5. CASE ReserveTooLate(p)
  BY <1>0, <1>5, ReturnStep DEF ReserveTooLate
<1>6. QED
  BY <1>1, <1>2, <1>3, <1>4, <1>5

\* The goal continuation.
LEMMA GoalStepProc ==
    ASSUME TurnInv, TypeOK', NEW p \in Procs, GoalStep(p)
    PROVE  ProcInv'
<1> USE DEF queues, tasks, events, fates
<1>0. TypeOK /\ AfterGoal(p) \in Plain /\ AfterGoal(p) \in Returns
  BY DEF TurnInv, AfterGoal, Returns, Plain, PCs
<1>1. CASE GoalCheck(p)
  <2>1. /\ \A q \in Procs \ {p} : loc'[q] = loc[q]
        /\ loc'[p].ret = loc[p].ret
    BY <1>0, <1>1, LocKeeps DEF GoalCheck
  <2>2. QED
    BY <1>1, <2>1, MoveStep DEF GoalCheck, Plain, PCs
<1>2. CASE GoalNoCandidate(p)
  BY <1>0, <1>2, ReturnStep DEF GoalNoCandidate
<1>3. CASE GoalReserve(p)
  <2>1. /\ \A q \in Procs \ {p} : loc'[q] = loc[q]
        /\ loc'[p].ret = loc[p].ret
    BY <1>0, <1>3, LocKeeps DEF GoalReserve
  <2>2. used'.turns = used.turns
    BY <1>0, <1>3 DEF GoalReserve, TypeOK, Usage
  <2>3. active'.task = None
    BY <1>3 DEF GoalReserve, ReserveSlot
  <2>4. QED
    BY <1>3, <2>1, <2>2, <2>3, MoveStep DEF GoalReserve, Plain, PCs
<1>4. CASE GoalGiveUp(p)
  <2>1. active'.task \in {active.task, None}
    BY <1>0, <1>4, ActiveTaskKept DEF GoalGiveUp
  <2>2. pc[p] \notin {"off", "dead", "gone"}
    BY <1>4 DEF GoalGiveUp
  <2>3. QED
    BY <1>0, <1>4, <2>1, <2>2, ReturnStep DEF GoalGiveUp
<1>5. CASE GoalReread(p)
  <2>1. /\ \A q \in Procs \ {p} : loc'[q] = loc[q]
        /\ loc'[p].ret = loc[p].ret
    BY <1>0, <1>5, LocKeeps DEF GoalReread
  <2>2. QED
    BY <1>5, <2>1, MoveStep DEF GoalReread, Plain, PCs
<1>6. CASE GoalConfirm(p)
  <2>1. /\ \A q \in Procs \ {p} : loc'[q] = loc[q]
        /\ loc'[p].ret = AfterGoal(p) /\ loc'[p].turn = used.turns + 1
    BY <1>0, <1>6 DEF GoalConfirm, TypeOK, NoLocals
  <2>2. used'.turns = used.turns + 1
    BY <1>0, <1>6 DEF GoalConfirm, TypeOK, Usage
  <2>3. QED
    BY <1>0, <1>6, <2>1, <2>2, NewTurnStep DEF GoalConfirm
<1>7. QED
  BY <1>1, <1>2, <1>3, <1>4, <1>5, <1>6 DEF GoalStep

\* turn.task = Some(running_task): the new task runs, the one it replaces dies.
LEMMA InstallProc ==
    ASSUME TurnInv, TypeOK', NEW p \in Procs, Install(p)
    PROVE  ProcInv'
<1> DEFINE new == loc[p].turn
           old == ActiveOrNew.task
<1> USE DEF TurnInv, ProcInv
<1>0. /\ pc \in [Procs -> PCs] /\ loc \in [Procs -> Locals]
      /\ Turns \subseteq Procs /\ None \notin Turns
      /\ aborted \in SUBSET Turns /\ active.task \in Turns \cup {None}
      /\ used.turns \in 0 .. MaxTurns /\ used'.turns = used.turns
  BY ProcKinds, ActiveType DEF TypeOK, Usage, Install, GetOrInsertActive
<1>1. /\ Starting(p) /\ new \in 1 .. used.turns /\ new \in Turns /\ pc[new] = "off"
      /\ loc[p].ret \in Returns
  <2>1. Starting(p)
    BY DEF Install, Starting
  <2>2. new \in 1 .. used.turns /\ pc[new] = "off" /\ loc[p].ret \in Returns
    BY <2>1 DEF StartsFreshTurn, ReturnsKnown
  <2>3. QED
    BY <1>0, <2>1, <2>2, BoundsAssumption DEF Turns
<1>2. old \in Turns \cup {None} /\ (old # None => pc[old] # "off")
  BY <1>0, ActiveTaskKept DEF ActiveSpawned
<1>3. /\ pc' = [pc EXCEPT ![p] = loc[p].ret,
                          ![old] = IF old = None \/ @ = "gone" THEN @ ELSE "dead",
                          ![new] = "begin"]
      /\ pc[p] = "install"
  BY DEF Install
<1> HIDE DEF new, old
<1>4. \A q \in Procs :
         /\ q = new => pc'[q] = "begin"
         /\ q = p => pc'[q] \in Returns \cup {"dead"}
         /\ q = old /\ q # p => pc'[q] \in {pc[q], "dead"}
         /\ q = old /\ q # p /\ pc[q] = "gone" => pc'[q] = "gone"
         /\ q \notin {new, old, p} => pc'[q] = pc[q]
         /\ old = None /\ q \notin {new, p} => pc'[q] = pc[q]
  <2>1. p # new /\ new # old /\ new \in Procs
    BY <1>0, <1>1, <1>2, <1>3
  <2>2. CASE old = None
    <3>1. pc'[new] = "begin"
      BY <1>0, <1>3, <2>1
    <3>2. pc'[p] = loc[p].ret
      BY <1>0, <1>3, <2>1, <2>2
    <3>3. \A q \in Procs \ {new, p} : pc'[q] = pc[q]
      BY <1>0, <1>3, <2>1, <2>2
    <3>4. QED
      BY <1>1, <2>1, <3>1, <3>2, <3>3
  <2>3. CASE old \in Turns
    BY <1>0, <1>1, <1>3, <2>1, <2>3
  <2>4. QED
    BY <1>2, <2>2, <2>3
<1>5. pc[p] = "install" /\ p # new
  BY <1>1 DEF Install
<1>6. \A q \in Procs \ {p} : loc'[q] = loc[q]
  BY <1>0 DEF Install
<1>7. loc'[p] = NoLocals
  BY <1>0 DEF Install
<1>8. \A q \in Procs : Starting(q)' => q # p /\ Starting(q) /\ pc'[q] = pc[q]
  <2> SUFFICES ASSUME NEW q \in Procs, Starting(q)'
               PROVE  q # p /\ Starting(q) /\ pc'[q] = pc[q]
    OBVIOUS
  <2>1. pc'[q] \in {"collect", "attach", "install", "abort", "wait", "report"}
    BY DEF Starting
  <2>2. q # p /\ pc'[q] = pc[q]
    BY <1>2, <1>4, <2>1 DEF Returns
  <2>3. QED
    BY <1>6, <2>2 DEF Starting
<1>9. \A t \in Procs : pc[t] = "off" /\ t # new => pc'[t] = "off"
  BY <1>2, <1>4, <1>5
<1>10. \A q \in Procs : Starting(q)' =>
          /\ loc'[q].turn = loc[q].turn /\ loc[q].turn # new
          /\ loc[q].turn \in 1 .. used.turns /\ pc[loc[q].turn] = "off"
  BY <1>1, <1>6, <1>8 DEF StartsFreshTurn, StartsOwnTurn, new
<1>a. 1 .. used.turns \subseteq Procs
  BY NumberedTurns
<1>11. StartsFreshTurn'
  BY <1>0, <1>9, <1>10, <1>a DEF StartsFreshTurn
<1>12. StartsOwnTurn'
  BY <1>8, <1>10 DEF StartsOwnTurn
<1>13. LaterTurnsOff'
  BY <1>0, <1>1, <1>9 DEF LaterTurnsOff, Turns
<1>14. ActiveSpawned'
  <2>1. ActiveOrNew \in [some : {TRUE}, task : Turns \cup {None}, slot : Slots]
    <3>1. TypeOK /\ (active.some \/ used.slots < MaxSlots)
      BY DEF Install, GetOrInsertActive
    <3>2. QED
      BY <3>1, NewActiveType
  <2>2. active'.task = new
    BY <2>1 DEF Install, new
  <2>3. pc'[new] = "begin"
    BY <1>0, <1>1, <1>4
  <2>4. QED
    BY <2>2, <2>3 DEF ActiveSpawned
<1>15. VictimKnown'
  <2> SUFFICES ASSUME NEW q \in Procs, pc'[q] \in {"wait", "report"}
               PROVE  /\ loc'[q].victim \in Turns /\ pc'[loc'[q].victim] # "off"
                      /\ pc'[q] = "report" => pc'[loc'[q].victim] \in {"dead", "gone"}
    BY DEF VictimKnown
  <2>1. q # p /\ pc'[q] = pc[q]
    BY <1>2, <1>4 DEF Returns
  <2>2. /\ loc'[q].victim = loc[q].victim /\ loc[q].victim \in Turns
        /\ pc[loc[q].victim] # "off"
        /\ pc[q] = "report" => pc[loc[q].victim] \in {"dead", "gone"}
    BY <1>6, <2>1 DEF VictimKnown
  <2>3. loc[q].victim \in Procs /\ loc[q].victim # new
    BY <1>0, <1>1, <2>2
  <2>4. QED
    BY <1>1, <1>2, <1>4, <1>5, <2>1, <2>2, <2>3 DEF Returns
<1>16. GuardInterrupts' /\ ReturnsKnown' /\ SlotKnown'
  <2>1. \A q \in Procs : pc'[q] \in {"guard", "wait", "report", "finPending"} =>
            q # p /\ pc'[q] = pc[q]
    BY <1>2, <1>4 DEF Returns
  <2>2. \A q \in Procs : loc'[q].ret \in Returns
    BY <1>6, <1>7 DEF ReturnsKnown, NoLocals, Returns
  <2>3. QED
    BY <1>6, <2>1, <2>2 DEF GuardInterrupts, ReturnsKnown, SlotKnown
<1>17. AbortedTurnIsDead'
  <2>1. aborted' = aborted
    BY DEF Install, events
  <2>2. \A t \in aborted : t \in Procs /\ t # new /\ t # p /\ pc[t] \in {"dead", "gone"}
    BY <1>0, <1>1, <1>5 DEF AbortedTurnIsDead
  <2>3. QED
    BY <1>2, <1>4, <2>1, <2>2 DEF AbortedTurnIsDead
<1>18. QED
  BY <1>11, <1>12, <1>13, <1>14, <1>15, <1>16, <1>17

\* take_active_turn, by abort_all_tasks or abort_turn_if_active.
LEMMA TakeTaskProc ==
    ASSUME TurnInv, TypeOK', NEW p \in Procs \ Turns, pc[p] \in {"abort", "guard"},
           TakeTask(p)
    PROVE  ProcInv'
<1>0. TypeOK
  BY DEF TurnInv
<1>1. /\ \A q \in Procs \ {p} : loc'[q] = loc[q]
      /\ loc'[p].ret = loc[p].ret /\ loc'[p].turn = loc[p].turn
      /\ loc'[p].interrupt = loc[p].interrupt
      /\ loc'[p].victim = active.task /\ loc'[p].slot = active.slot
  <2>1. loc' = [loc EXCEPT ![p].victim = active.task, ![p].slot = active.slot]
    BY DEF TakeTask
  <2>2. loc \in [Procs -> Locals]
    BY <1>0 DEF TypeOK
  <2>3. QED
    BY <2>1, <2>2 DEF Locals
<1>2. active.task \in Turns /\ active.slot \in Slots /\ pc[active.task] # "off"
  BY <1>0, ActiveType DEF TakeTask, TurnInv, ProcInv, ActiveSpawned
<1>3. Starting(p)' => Starting(p)
  BY <1>0, <1>1 DEF Starting, TakeTask, Goto, TypeOK, TurnInv, ProcInv, GuardInterrupts
<1>4. used.turns <= used'.turns /\ used'.turns = used.turns /\ loc'[p].ret \in Returns
  BY <1>1 DEF TakeTask, TurnInv, ProcInv, ReturnsKnown, TypeOK, Usage
<1>5. Starting(p)' =>
        /\ loc'[p].turn \in 1 .. used'.turns /\ pc[loc'[p].turn] = "off"
        /\ \A q \in Procs \ {p} : Starting(q) => loc[q].turn # loc'[p].turn
  BY <1>1, <1>3, <1>4 DEF TurnInv, ProcInv, StartsFreshTurn, StartsOwnTurn
<1>6. /\ pc' = [pc EXCEPT ![p] = "wait"] /\ aborted' = aborted
      /\ active'.task \in {active.task, None}
  BY <1>0, ActiveTaskKept DEF TakeTask, Goto, events
<1>7. "wait" \in PCs \ {"off"} /\ pc[p] \notin {"off", "dead", "gone"} /\ active.task # p
  BY <1>2 DEF PCs
<1>8. QED
  BY <1>1, <1>2, <1>4, <1>5, <1>6, <1>7, ProcStep

\* abort_all_tasks without a task.
LEMMA AbortAllNoTaskProc ==
    ASSUME TurnInv, TypeOK', NEW p \in Procs, AbortAllNoTask(p)
    PROVE  ProcInv'
<1> USE DEF queues, tasks, events, fates
<1>0. /\ TypeOK /\ loc[p].ret \in Returns /\ Returns \subseteq Plain
      /\ active'.task \in {active.task, None} /\ used' = used /\ aborted' = aborted
  BY ActiveTaskKept
     DEF AbortAllNoTask, TurnInv, ProcInv, ReturnsKnown, Returns, Plain, PCs
<1>1. CASE loc[p].interrupt
  <2>1. AfterAbort(p, FALSE) = loc[p].ret
    BY <1>1 DEF AfterAbort
  <2>2. AfterAbort(p, FALSE) # "collect"
    BY <1>0, <2>1 DEF Returns
  <2>3. Return(p, loc[p].ret) /\ pc[p] = "abort"
    BY <2>2 DEF AbortAllNoTask
  <2>4. QED
    BY <1>0, <2>3, ReturnStep
<1>2. CASE ~loc[p].interrupt
  <2>1. Goto(p, "collect") /\ loc' = loc /\ pc[p] = "abort"
    BY <1>2 DEF AfterAbort, AbortAllNoTask
  <2>2. Starting(p)
    BY <1>2, <2>1 DEF Starting
  <2>3. QED
    BY <1>0, <2>1, <2>2, StartingStep
<1>3. QED
  BY <1>1, <1>2

\* handle.abort(): the victim's task stops, the aborting process goes on.
LEMMA AbortKillProc ==
    ASSUME TurnInv, TypeOK', NEW p \in Procs \ Turns, AbortKill(p)
    PROVE  ProcInv'
<1> DEFINE v == loc[p].victim
<1> USE DEF TurnInv, ProcInv
<1>0. /\ pc \in [Procs -> PCs] /\ loc' = loc /\ active' = active /\ used' = used
      /\ aborted' = aborted /\ Turns \subseteq Procs /\ aborted \in SUBSET Turns
      /\ pc[p] = "wait"
  BY ProcKinds DEF TypeOK, AbortKill, events
<1>1. v \in Turns /\ pc[v] # "off" /\ v # p
  BY <1>0 DEF VictimKnown
<1>2. pc' = [pc EXCEPT ![p] = "report", ![v] = IF @ = "gone" THEN @ ELSE "dead"]
  BY DEF AbortKill
<1>3. loc[p].slot \in Slots
  BY <1>0 DEF SlotKnown
<1> HIDE DEF v
<1>4. /\ pc'[p] = "report" /\ pc'[v] \in {"dead", "gone"}
      /\ pc[v] = "gone" => pc'[v] = "gone"
      /\ \A q \in Procs \ {p, v} : pc'[q] = pc[q]
  BY <1>0, <1>1, <1>2
<1>5. \A q \in Procs : Starting(q)' => Starting(q)
  BY <1>0, <1>1, <1>4 DEF Starting
<1>6. \A t \in Procs : pc[t] = "off" => pc'[t] = "off"
  BY <1>0, <1>1, <1>4
<1>a. 1 .. used.turns \subseteq Procs
  BY NumberedTurns
<1>7. StartsFreshTurn' /\ StartsOwnTurn' /\ LaterTurnsOff'
  <2>1. StartsFreshTurn'
    BY <1>0, <1>5, <1>6, <1>a DEF StartsFreshTurn
  <2>2. StartsOwnTurn'
    BY <1>0, <1>5 DEF StartsOwnTurn
  <2>3. LaterTurnsOff'
    BY <1>0, <1>6 DEF LaterTurnsOff
  <2>4. QED
    BY <2>1, <2>2, <2>3
<1>8. ActiveSpawned'
  <2>1. active.task # None => active.task \in Procs
    BY <1>0, ActiveType
  <2>2. QED
    BY <1>0, <1>1, <1>4, <2>1 DEF ActiveSpawned
<1>9. VictimKnown'
  <2> SUFFICES ASSUME NEW q \in Procs, pc'[q] \in {"wait", "report"}
               PROVE  /\ loc[q].victim \in Turns /\ pc'[loc[q].victim] # "off"
                      /\ pc'[q] = "report" => pc'[loc[q].victim] \in {"dead", "gone"}
    BY <1>0 DEF VictimKnown
  <2>1. CASE q = p
    BY <1>1, <1>4, <2>1 DEF v
  <2>2. CASE q # p
    <3>1. pc'[q] = pc[q]
      BY <1>1, <1>4, <2>2
    <3>2. /\ loc[q].victim \in Turns /\ pc[loc[q].victim] # "off"
          /\ pc[q] = "report" => pc[loc[q].victim] \in {"dead", "gone"}
      BY <3>1 DEF VictimKnown
    <3>3. loc[q].victim # p /\ loc[q].victim \in Procs
      BY <1>0, <3>2
    <3>4. QED
      BY <1>4, <3>1, <3>2, <3>3
  <2>3. QED
    BY <2>1, <2>2
<1>10. GuardInterrupts' /\ ReturnsKnown' /\ SlotKnown'
  BY <1>0, <1>1, <1>3, <1>4 DEF GuardInterrupts, ReturnsKnown, SlotKnown
<1>11. AbortedTurnIsDead'
  BY <1>0, <1>1, <1>4 DEF AbortedTurnIsDead
<1>12. QED
  BY <1>7, <1>8, <1>9, <1>10, <1>11

\* TurnAborted is sent for a victim that is already dead or gone.
LEMMA AbortReportProc ==
    ASSUME TurnInv, TypeOK', NEW p \in Procs \ Turns, AbortReport(p)
    PROVE  ProcInv'
<1> DEFINE v == loc[p].victim
           l == AfterAbort(p, TRUE)
<1> USE DEF TurnInv, ProcInv
<1>0. /\ TypeOK /\ pc \in [Procs -> PCs] /\ active' = active /\ used' = used
      /\ aborted' = aborted \cup {v} /\ Turns \subseteq Procs /\ aborted \in SUBSET Turns
      /\ pc[p] = "report" /\ pc' = [pc EXCEPT ![p] = l]
  BY ProcKinds DEF TypeOK, AbortReport, Goto
<1>1. v \in Turns /\ v # p /\ pc[v] \in {"dead", "gone"}
  BY <1>0 DEF VictimKnown
<1>2. /\ \A q \in Procs \ {p} : loc'[q] = loc[q]
      /\ loc'[p].ret = loc[p].ret /\ loc'[p].turn = loc[p].turn
      /\ loc'[p].interrupt = loc[p].interrupt
  <2>1. loc' = [loc EXCEPT ![p].victim = None, ![p].slot = None]
    BY DEF AbortReport
  <2>2. loc \in [Procs -> Locals]
    BY <1>0 DEF TypeOK
  <2>3. QED
    BY <2>1, <2>2 DEF Locals
<1>3. /\ loc[p].interrupt => l = "checkMail"
      /\ ~loc[p].interrupt => l = "collect"
  BY DEF AfterAbort
<1> HIDE DEF v, l
<1>4. pc'[p] = l /\ l \in {"checkMail", "collect"} /\ \A q \in Procs \ {p} : pc'[q] = pc[q]
  BY <1>0, <1>3
<1>5. \A q \in Procs : /\ Starting(q)' => Starting(q)
                       /\ loc'[q].turn = loc[q].turn
                       /\ loc'[q].ret = loc[q].ret
  <2>1. Starting(p)' => Starting(p)
    BY <1>0, <1>2, <1>3, <1>4 DEF Starting
  <2>2. \A q \in Procs \ {p} : Starting(q)' <=> Starting(q)
    BY <1>2, <1>4 DEF Starting
  <2>3. QED
    BY <1>2, <2>1, <2>2
<1>6. \A t \in Procs : pc[t] = "off" => pc'[t] = "off"
  BY <1>0, <1>4
<1>a. 1 .. used.turns \subseteq Procs
  BY NumberedTurns
<1>7. StartsFreshTurn'
  BY <1>0, <1>5, <1>6, <1>a DEF StartsFreshTurn
<1>8. StartsOwnTurn'
  BY <1>5 DEF StartsOwnTurn
<1>9. LaterTurnsOff'
  BY <1>0, <1>6 DEF LaterTurnsOff
<1>10. ActiveSpawned'
  <2>1. active.task # None => active.task \in Procs
    BY <1>0, ActiveType
  <2>2. QED
    BY <1>0, <1>4, <2>1 DEF ActiveSpawned
<1>11. VictimKnown'
  <2> SUFFICES ASSUME NEW q \in Procs, pc'[q] \in {"wait", "report"}
               PROVE  /\ loc'[q].victim \in Turns /\ pc'[loc'[q].victim] # "off"
                      /\ pc'[q] = "report" => pc'[loc'[q].victim] \in {"dead", "gone"}
    BY DEF VictimKnown
  <2>1. q # p /\ pc'[q] = pc[q] /\ loc'[q] = loc[q]
    BY <1>2, <1>4
  <2>2. /\ loc[q].victim \in Turns /\ pc[loc[q].victim] # "off"
        /\ pc[q] = "report" => pc[loc[q].victim] \in {"dead", "gone"}
    BY <2>1 DEF VictimKnown
  <2>3. loc[q].victim # p /\ loc[q].victim \in Procs
    BY <1>0, <2>2
  <2>4. QED
    BY <1>4, <2>1, <2>2, <2>3
<1>12. GuardInterrupts' /\ ReturnsKnown' /\ SlotKnown'
  BY <1>2, <1>4, <1>5 DEF GuardInterrupts, ReturnsKnown, SlotKnown
<1>13. AbortedTurnIsDead'
  BY <1>0, <1>1, <1>4 DEF AbortedTurnIsDead
<1>14. QED
  BY <1>7, <1>8, <1>9, <1>10, <1>11, <1>12, <1>13

\* The operations submitted to the session.
LEMMA EnvironmentProc ==
    ASSUME TurnInv, TypeOK', Environment
    PROVE  ProcInv'
<1> USE ProcKinds DEF queues, tasks, events, fates
<1>0. TypeOK
  BY DEF TurnInv
<1>1. ASSUME NEW u \in UserItems,
             UserInputSteered(u) \/ UserInputRefused(u) \/ ClientSteer(u)
      PROVE  ProcInv'
  BY <1>1, StillStep DEF UserInputSteered, UserInputRefused, ClientSteer
<1>2. ASSUME NEW i \in InjectedItems, Inject(i)
      PROVE  ProcInv'
  BY <1>2, StillStep DEF Inject
<1>3. ASSUME NEW m \in Mails, Mail(m)
      PROVE  ProcInv'
  <2>1. CASE m \in TriggerMails
    BY <1>3, <2>1, MoveStep DEF Mail, LoopIdle, Plain, PCs
  <2>2. CASE m \notin TriggerMails
    BY <1>3, <2>2, StillStep DEF Mail
  <2>3. QED
    BY <2>1, <2>2
<1>4. ASSUME NEW k, NEW x, SpawnTask(k, x), LoopIdle, used'.turns = used.turns + 1,
             active' = active, aborted' = aborted
      PROVE  ProcInv'
  <2>1. /\ \A q \in Procs \ {Loop} : loc'[q] = loc[q]
        /\ loc'[Loop].ret \in Returns /\ loc'[Loop].turn = used.turns + 1
    BY <1>0, <1>4 DEF SpawnTask, TypeOK, NoLocals, Returns
  <2>2. QED
    BY <1>4, <2>1, NewTurnStep DEF SpawnTask, LoopIdle
<1>5. ASSUME NEW u \in UserItems, UserInputSpawn(u)
      PROVE  ProcInv'
  <2>1. used'.turns = used.turns + 1
    BY <1>0, <1>5 DEF UserInputSpawn, TypeOK, Usage
  <2>2. QED
    BY <1>4, <1>5, <2>1 DEF UserInputSpawn
<1>6. ASSUME NEW k \in {"shell", "other"}, OtherTask(k)
      PROVE  ProcInv'
  <2>1. used'.turns = used.turns + 1
    BY <1>0, <1>6 DEF OtherTask, TypeOK, Usage
  <2>2. QED
    BY <1>4, <1>6, <2>1 DEF OtherTask
<1>7. ASSUME NEW next \in {"idle", "stopped"}, StopWith(next), LoopIdle,
             used'.turns = used.turns, active' = active, aborted' = aborted
      PROVE  ProcInv'
  <2>1. /\ \A q \in Procs \ {Loop} : loc'[q] = loc[q]
        /\ loc'[Loop].ret = next /\ loc'[Loop].interrupt = TRUE
    BY <1>0, <1>7 DEF StopWith, TypeOK, Locals
  <2>2. pc' = [pc EXCEPT ![Loop] = "abort"] /\ pc'[Loop] = "abort"
    BY <1>0, <1>7 DEF StopWith, Goto, TypeOK
  <2>3. ~Starting(Loop)'
    BY <2>1, <2>2 DEF Starting
  <2>4. used.turns <= used'.turns /\ loc'[Loop].ret \in Returns
    BY <1>0, <1>7, <2>1 DEF TypeOK, Usage, Returns
  <2>5. QED
    BY <1>7, <2>1, <2>2, <2>3, <2>4, ProcStep DEF LoopIdle, PCs
<1>8. CASE Interrupt
  <2>1. used'.turns = used.turns
    BY <1>0, <1>8 DEF Interrupt, TypeOK, Usage
  <2>2. QED
    BY <1>7, <1>8, <2>1 DEF Interrupt
<1>9. CASE Shutdown
  BY <1>7, <1>9 DEF Shutdown
<1>10. ASSUME NEW t \in Turns, GuardianDenial(t)
       PROVE  ProcInv'
  <2>1. /\ \A q \in Procs \ {Guardian} : loc'[q] = loc[q]
        /\ loc'[Guardian].ret = loc[Guardian].ret /\ loc'[Guardian].interrupt = TRUE
    BY <1>0, <1>10 DEF GuardianDenial, TypeOK, Locals
  <2>2. pc' = [pc EXCEPT ![Guardian] = "guard"] /\ pc'[Guardian] = "guard"
    BY <1>0, <1>10 DEF GuardianDenial, Goto, TypeOK
  <2>3. ~Starting(Guardian)'
    BY <2>2 DEF Starting
  <2>4. used'.turns = used.turns
    BY <1>0, <1>10 DEF GuardianDenial, TypeOK, Usage
  <2>5. used.turns <= used'.turns /\ loc'[Guardian].ret \in Returns
    BY <1>0, <2>1, <2>4 DEF TypeOK, Usage, TurnInv, ProcInv, ReturnsKnown
  <2>6. QED
    BY <1>10, <2>1, <2>2, <2>3, <2>5, ProcStep DEF GuardianDenial, PCs
<1>11. CASE ContinueGoal
  <2>1. /\ \A q \in Procs \ {Api} : loc'[q] = loc[q]
        /\ loc'[Api].ret = "goalCheck"
    BY <1>0, <1>11 DEF ContinueGoal, TypeOK, Locals
  <2>2. used'.turns = used.turns
    BY <1>0, <1>11 DEF ContinueGoal, TypeOK, Usage
  <2>3. used.turns <= used'.turns /\ loc'[Api].ret \in Returns
    BY <1>0, <2>1, <2>2 DEF TypeOK, Usage, Returns
  <2>4. QED
    BY <1>11, <2>1, <2>3, PlainStep DEF ContinueGoal, Goto, Plain, PCs
<1>12. QED
  BY <1>1, <1>2, <1>3, <1>5, <1>6, <1>8, <1>9, <1>10, <1>11 DEF Environment

\* The inductive step.
LEMMA NextInv ==
    ASSUME TurnInv, [Next]_vars
    PROVE  TurnInv'
<1> USE ProcKinds
<1>0. TypeOK'
  BY NextType
<1> SUFFICES ProcInv'
  BY <1>0 DEF TurnInv
<1>a. ASSUME NEW p \in Procs, StartStep(p)
      PROVE  ProcInv'
  BY <1>0, <1>a, StartStepProc, InstallProc DEF StartStep
<1>b. ASSUME NEW p \in Procs \ Turns, AbortStep(p)
      PROVE  ProcInv'
  BY <1>0, <1>b, AbortKillProc, AbortReportProc DEF AbortStep
<1>1. CASE UNCHANGED vars
  BY <1>1, StillStep DEF vars
<1>2. CASE Environment
  BY <1>0, <1>2, EnvironmentProc
<1>3. CASE LoopStep
  BY <1>0, <1>3, <1>a, <1>b, TakeTaskProc, AbortAllNoTaskProc DEF LoopStep, AbortAll
<1>4. CASE GuardianStep
  <2>1. CASE GuardianTooLate
    BY <1>0, <2>1, ReturnStep DEF GuardianTooLate, Plain, PCs, events
  <2>2. CASE GuardianAbort
    BY <1>0, <2>2, TakeTaskProc DEF GuardianAbort
  <2>3. QED
    BY <1>4, <1>a, <1>b, <2>1, <2>2 DEF GuardianStep
<1>5. CASE ApiStep
  BY <1>0, <1>5, <1>a, GoalStepProc DEF ApiStep
<1>6. ASSUME NEW t \in Turns, TaskStep(t)
      PROVE  ProcInv'
  BY <1>0, <1>6, <1>a, TaskMoveProc, TaskInputProc, GoalStepProc DEF TaskStep
<1>7. QED
  BY <1>1, <1>2, <1>3, <1>4, <1>5, <1>6 DEF Next, Waiting

\* The initial state satisfies the invariant.
LEMMA InitInv == Init => TurnInv
<1> SUFFICES ASSUME Init PROVE TurnInv
  OBVIOUS
<1>1. TypeOK
  <2>1. active \in ActiveTurns
    BY DEF Init, ActiveTurns
  <2>2. turnState \in [Slots -> TurnStates]
    BY DEF Init, TurnStates, FreshState
  <2>3. pc \in [Procs -> PCs]
    BY DEF Init, PCs
  <2>4. loc \in [Procs -> Locals]
    BY NoLocalsType DEF Init
  <2>5. used \in Usage
    BY BoundsAssumption DEF Init, Usage
  <2>6. QED
    BY <2>1, <2>2, <2>3, <2>4, <2>5 DEF Init, TypeOK
<1>2. \A p \in Procs : pc[p] \in {"off", "idle"} /\ loc[p] = NoLocals
  BY DEF Init
<1>3. \A p \in Procs : ~Starting(p)
  BY <1>2 DEF Starting
<1>4. \A t \in Turns : pc[t] = "off"
  BY ProcKinds DEF Init
<1>5. ProcInv
  BY <1>2, <1>3, <1>4
     DEF ProcInv, StartsFreshTurn, StartsOwnTurn, LaterTurnsOff, ActiveSpawned,
         VictimKnown, GuardInterrupts, ReturnsKnown, SlotKnown, AbortedTurnIsDead,
         Init, NoTurn, NoLocals, Returns
<1>6. QED
  BY <1>1, <1>5 DEF TurnInv

\* The invariant holds of every behaviour.
LEMMA InductiveInv == Spec => []TurnInv
<1>1. Init => TurnInv
  BY InitInv
<1>2. TurnInv /\ [Next]_vars => TurnInv'
  BY NextInv
<1>3. QED
  BY <1>1, <1>2, PTL DEF Spec

\* Types hold of every behaviour, whatever the numbers of turns, TurnState
\* objects, items and operations.
THEOREM TypeCorrect == Spec => []TypeOK
<1>1. TurnInv => TypeOK
  BY DEF TurnInv
<1>2. QED
  BY <1>1, InductiveInv, PTL

\* Once the client has been sent TurnAborted for a turn, that turn's task never
\* runs again: nobody restarts it and nobody starts another task under its id,
\* however aborts, replacements, wake-ups and goal continuations interleave.
THEOREM AbortIsFinal == Spec => []AbortedTurnIsDead
<1>1. TurnInv => AbortedTurnIsDead
  BY DEF TurnInv, ProcInv
<1>2. QED
  BY <1>1, InductiveInv, PTL
-----------------------------------------------------------------------------
(* Where the input is kept *)

\* Item i is in the place of kind k that belongs to n.
In(i, k, n) ==
    \/ k = "mail" /\ n = 0 /\ i \in mailbox
    \/ k = "pending" /\ n \in Slots /\ i \in turnState[n].pending
    \/ k = "carried" /\ n \in LiveProcs /\ i \in loc[n].carried
    \/ k = "local" /\ n \in LiveProcs /\ i \in loc[n].input
    \/ k = "input" /\ n \in Turns \cap LiveProcs /\ i \in input[n]
    \/ k = "recorded" /\ n = 0 /\ i \in recorded

\* No item is in two places.
InOnePlace == \A i, k, l, m, n : In(i, k, m) /\ In(i, l, n) => k = l /\ m = n

\* p carries a goal prompt that has not been handed to the session yet.
Candidate(p) == pc[p] \in {"goalReserve", "goalReread"}

\* Whatever else is kept has been sent.
KeptIsSent == \A i, k, n : In(i, k, n) => i \in sent \/ (k = "carried" /\ Candidate(n))

\* The continuation lock admits one process at a time to the goal's prompt.
GoalPcs == {"goalReserve", "goalReread", "goalConfirm"}
GoalLocked ==
    \A p \in Procs : /\ pc[p] \in GoalPcs => contLock = p
                     /\ Candidate(p) => loc[p].carried \subseteq GoalItems \ sent

ItemInv == InOnePlace /\ KeptIsSent /\ GoalLocked

\* The invariant rules out a second recording.
LEMMA KeptOnce ==
    ASSUME TypeOK, ItemInv
    PROVE  RecordedOnce
<1> SUFFICES ASSUME NEW i \in recorded, i \in InFlight \cup UNION {Pending(s) : s \in Slots}
             PROVE  FALSE
  BY DEF RecordedOnce
<1>1. In(i, "recorded", 0)
  BY DEF In
<1>2. \A k, n : In(i, k, n) => k = "recorded"
  BY <1>1 DEF ItemInv, InOnePlace
<1>3. i \notin mailbox
  BY <1>2 DEF In
<1>4. \A s \in Slots : i \notin Pending(s)
  BY <1>2 DEF In, Pending
<1>5. \A p \in LiveProcs : i \notin loc[p].carried \cup loc[p].input
  BY <1>2 DEF In
<1>6. \A t \in Turns \cap LiveProcs : i \notin input[t]
  BY <1>2 DEF In
<1>7. i \notin UNION {Pending(s) : s \in HeldSlots} /\ i \notin UNION {Pending(s) : s \in Slots}
  BY <1>4 DEF HeldSlots
<1>8. i \notin UNION {loc[p].carried \cup loc[p].input : p \in LiveProcs}
  BY <1>5
<1>9. i \notin UNION {input[t] : t \in Turns \cap LiveProcs}
  BY <1>6
<1>10. i \notin InFlight
  BY <1>3, <1>7, <1>8, <1>9 DEF InFlight
<1> QED  BY <1>7, <1>10

\* A step that moves no item and hands out no goal prompt.
LEMMA QuietStep ==
    ASSUME ItemInv, mailbox' \subseteq mailbox, recorded' = recorded,
           \A s \in Slots : turnState'[s].pending \subseteq turnState[s].pending,
           sent \subseteq sent', sent' \cap GoalItems \subseteq sent,
           \A p \in Procs : pc'[p] # "dead" =>
               /\ pc[p] # "dead"
               /\ loc'[p].carried \subseteq loc[p].carried
               /\ loc'[p].input \subseteq loc[p].input
               /\ Candidate(p) => Candidate(p)' \/ loc'[p].carried = {}
               /\ Candidate(p)' => Candidate(p)
               /\ pc'[p] \in GoalPcs => contLock' = p,
           \A t \in Turns : input'[t] \subseteq input[t]
    PROVE  ItemInv'
<1>1. \A i, k, n : In(i, k, n)' => In(i, k, n)
  BY DEF In, LiveProcs
<1>2. InOnePlace'
  BY <1>1 DEF ItemInv, InOnePlace
<1>3. KeptIsSent'
  <2> SUFFICES ASSUME NEW i, NEW k, NEW n, In(i, k, n)', i \notin sent'
               PROVE  k = "carried" /\ Candidate(n)'
    BY DEF KeptIsSent
  <2>1. k = "carried" /\ Candidate(n)
    BY <1>1 DEF ItemInv, KeptIsSent
  <2>2. n \in Procs /\ pc'[n] # "dead" /\ i \in loc'[n].carried
    BY <2>1 DEF In, LiveProcs
  <2> QED  BY <2>1, <2>2
<1>4. GoalLocked'
  <2> SUFFICES ASSUME NEW p \in Procs
               PROVE  /\ pc'[p] \in GoalPcs => contLock' = p
                      /\ Candidate(p)' => loc'[p].carried \subseteq GoalItems \ sent'
    BY DEF GoalLocked
  <2>1. pc'[p] \in GoalPcs => contLock' = p
    BY DEF GoalPcs
  <2>2. Candidate(p)' => Candidate(p) /\ loc'[p].carried \subseteq loc[p].carried
    BY DEF Candidate
  <2> QED  BY <2>1, <2>2 DEF ItemInv, GoalLocked
<1> QED  BY <1>2, <1>3, <1>4 DEF ItemInv

\* p keeps the items it has at hand, or drops them.
KeepsLocals(p) ==
    /\ \A q \in Procs \ {p} : loc'[q] = loc[q]
    /\ loc'[p].carried \subseteq loc[p].carried /\ loc'[p].input \subseteq loc[p].input

\* The same when only process p moves.
LEMMA QuietProc ==
    ASSUME TypeOK, ItemInv, NEW p \in Procs, NEW l,
           pc[p] # "dead", pc' = [pc EXCEPT ![p] = l],
           l \notin GoalPcs, ~Candidate(p) \/ loc'[p].carried = {},
           KeepsLocals(p),
           contLock' = contLock \/ contLock = p,
           mailbox' \subseteq mailbox, recorded' = recorded,
           \A s \in Slots : turnState'[s].pending \subseteq turnState[s].pending,
           sent \subseteq sent', sent' \cap GoalItems \subseteq sent,
           \A t \in Turns : input'[t] \subseteq input[t]
    PROVE  ItemInv'
<1>1. /\ pc'[p] = l /\ ~Candidate(p)'
      /\ \A q \in Procs \ {p} : pc'[q] = pc[q] /\ (Candidate(q)' <=> Candidate(q))
  BY DEF TypeOK, Candidate, GoalPcs
<1>2. \A q \in Procs : pc'[q] \in GoalPcs => q # p /\ contLock' = q
  BY <1>1 DEF ItemInv, GoalLocked
<1>3. \A q \in Procs : pc'[q] # "dead" =>
          /\ pc[q] # "dead"
          /\ loc'[q].carried \subseteq loc[q].carried
          /\ loc'[q].input \subseteq loc[q].input
          /\ Candidate(q) => Candidate(q)' \/ loc'[q].carried = {}
          /\ Candidate(q)' => Candidate(q)
          /\ pc'[q] \in GoalPcs => contLock' = q
  BY <1>1, <1>2 DEF KeepsLocals
<1> QED  BY <1>3, QuietStep

\* Updates of the locals that leave the items at hand alone.
LEMMA LocalsKept ==
    ASSUME TypeOK, NEW p \in Procs,
           \/ loc' = loc
           \/ \E r \in Locals : r.carried = {} /\ r.input = {} /\ loc' = [loc EXCEPT ![p] = r]
           \/ \E x : loc' = [loc EXCEPT ![p].follow = x]
           \/ \E x : loc' = [loc EXCEPT ![p].slot = x]
           \/ \E x : loc' = [loc EXCEPT ![p].turn = x]
           \/ \E x : loc' = [loc EXCEPT ![p].ret = x]
           \/ \E x, y : loc' = [loc EXCEPT ![p].victim = x, ![p].slot = y]
           \/ \E x, y : loc' = [loc EXCEPT ![p].victim = x, ![p].interrupt = y]
           \/ \E x, y : loc' = [loc EXCEPT ![p].interrupt = x, ![p].ret = y]
    PROVE  KeepsLocals(p)
<1>1. loc \in [Procs -> Locals] /\ loc[p] \in Locals
  BY DEF TypeOK
<1>2. CASE loc' = loc \/ \E r \in Locals : r.carried = {} /\ r.input = {} /\ loc' = [loc EXCEPT ![p] = r]
  BY <1>1, <1>2 DEF KeepsLocals
<1>3. CASE (\E x : loc' = [loc EXCEPT ![p].follow = x]) \/ (\E x : loc' = [loc EXCEPT ![p].slot = x])
  BY <1>1, <1>3 DEF KeepsLocals, Locals
<1>4. CASE (\E x : loc' = [loc EXCEPT ![p].turn = x]) \/ (\E x : loc' = [loc EXCEPT ![p].ret = x])
  BY <1>1, <1>4 DEF KeepsLocals, Locals
<1>5. CASE \E x, y : loc' = [loc EXCEPT ![p].victim = x, ![p].slot = y]
  <2>1. PICK x, y : loc' = [loc EXCEPT ![p].victim = x, ![p].slot = y]
    BY <1>5
  <2>2. \A q \in Procs \ {p} : loc'[q] = loc[q]
    BY <1>1, <2>1
  <2>3. loc'[p].carried = loc[p].carried /\ loc'[p].input = loc[p].input
    BY <1>1, <2>1 DEF Locals
  <2> QED  BY <2>2, <2>3 DEF KeepsLocals
<1>6. CASE \E x, y : loc' = [loc EXCEPT ![p].victim = x, ![p].interrupt = y]
  <2>1. PICK x, y : loc' = [loc EXCEPT ![p].victim = x, ![p].interrupt = y]
    BY <1>6
  <2>2. \A q \in Procs \ {p} : loc'[q] = loc[q]
    BY <1>1, <2>1
  <2>3. loc'[p].carried = loc[p].carried /\ loc'[p].input = loc[p].input
    BY <1>1, <2>1 DEF Locals
  <2> QED  BY <2>2, <2>3 DEF KeepsLocals
<1>7. CASE \E x, y : loc' = [loc EXCEPT ![p].interrupt = x, ![p].ret = y]
  <2>1. PICK x, y : loc' = [loc EXCEPT ![p].interrupt = x, ![p].ret = y]
    BY <1>7
  <2>2. \A q \in Procs \ {p} : loc'[q] = loc[q]
    BY <1>1, <2>1
  <2>3. loc'[p].carried = loc[p].carried /\ loc'[p].input = loc[p].input
    BY <1>1, <2>1 DEF Locals
  <2> QED  BY <2>2, <2>3 DEF KeepsLocals
<1> QED  BY <1>2, <1>3, <1>4, <1>5, <1>6, <1>7

\* A return empties a process's hands.
LEMMA LocalsDropped ==
    ASSUME TypeOK, NEW p \in Procs, NEW l, Return(p, l)
    PROVE  KeepsLocals(p) /\ loc'[p].carried = {} /\ loc'[p].input = {}
BY DEF TypeOK, Return, KeepsLocals, NoLocals

-----------------------------------------------------------------------------
(* Steps that move no item.                                                 *)

\* Of a turn's task.
LEMMA TaskQuiet ==
    ASSUME TypeOK, ItemInv, NEW t \in Turns,
           \/ Begin(t) \/ Work(t) \/ RunTurnStopped(t) \/ SampleTool(t) \/ SampleError(t)
           \/ \E follow \in BOOLEAN : SampleAnswer(t, follow)
           \/ CheckFollowUp(t) \/ CheckDone(t) \/ Recheck(t) \/ Flush(t)
           \/ FinTake(t) \/ FinTakeNothing(t) \/ FinComplete(t)
           \/ FinClear(t) \/ FinNotCleared(t) \/ IdleEmit(t)
    PROVE  ItemInv'
<1> USE ProcKinds DEF queues, tasks, events, fates
<1>1. CASE Begin(t) \/ Work(t) \/ SampleError(t) \/ CheckDone(t) \/ Recheck(t) \/ Flush(t)
           \/ FinComplete(t)
  <2>1. /\ pc[t] \notin GoalPcs \cup {"dead"}
        /\ UNCHANGED <<loc, contLock, mailbox, recorded, turnState, sent, input>>
        /\ \E l \in PCs \ GoalPcs : pc' = [pc EXCEPT ![t] = l]
    BY <1>1 DEF Begin, Work, SampleError, CheckDone, Recheck, Flush, FinComplete, Goto, GoalPcs, PCs
  <2> QED  BY <2>1, LocalsKept, QuietProc DEF Candidate, GoalPcs
<1>2. CASE FinTakeNothing(t) \/ FinNotCleared(t) \/ IdleEmit(t)
  <2>1. /\ pc[t] \notin GoalPcs \cup {"dead"} /\ Return(t, "gone")
        /\ UNCHANGED <<contLock, mailbox, recorded, turnState, sent, input>>
    BY <1>2 DEF FinTakeNothing, FinNotCleared, IdleEmit, GoalPcs
  <2>2. KeepsLocals(t)
    BY <2>1, LocalsDropped
  <2> QED  BY <2>1, <2>2, QuietProc DEF Return, Goto, Candidate, GoalPcs
<1>3. CASE CheckFollowUp(t) \/ FinTake(t) \/ FinClear(t)
  <2>1. /\ pc[t] \notin GoalPcs \cup {"dead"}
        /\ UNCHANGED <<contLock, mailbox, recorded, turnState, sent, input>>
        /\ \E l \in PCs \ GoalPcs : pc' = [pc EXCEPT ![t] = l]
    BY <1>3 DEF CheckFollowUp, FinTake, FinClear, Goto, GoalPcs, PCs
  <2>2. KeepsLocals(t)
    <3>1. [NoLocals EXCEPT !.ret = "goalCheck"] \in Locals
      BY NoLocalsType DEF Locals, PCs
    <3> QED  BY <1>3, <3>1, LocalsKept DEF CheckFollowUp, FinTake, FinClear, NoLocals
  <2> QED  BY <2>1, <2>2, QuietProc DEF Candidate, GoalPcs
<1>4. CASE RunTurnStopped(t)
  <2>1. \A u \in Turns : input'[u] \subseteq input[u]
    BY <1>4 DEF RunTurnStopped, TypeOK
  <2>2. KeepsLocals(t)
    BY <1>4, LocalsKept DEF RunTurnStopped
  <2> QED  BY <1>4, <2>1, <2>2, QuietProc DEF RunTurnStopped, Goto, Candidate, GoalPcs
<1>5. CASE SampleTool(t) \/ \E follow \in BOOLEAN : SampleAnswer(t, follow)
  <2>1. /\ pc[t] \notin GoalPcs \cup {"dead"}
        /\ UNCHANGED <<contLock, mailbox, recorded, sent, input>>
        /\ pc' = [pc EXCEPT ![t] = "check"]
    BY <1>5 DEF SampleTool, SampleAnswer, Goto, GoalPcs
  <2>2. KeepsLocals(t)
    BY <1>5, LocalsKept DEF SampleTool, SampleAnswer
  <2>3. \A s \in Slots : turnState'[s].pending = turnState[s].pending
    BY <1>5 DEF SampleTool, SampleAnswer, AcceptMail, DeferMail, TypeOK, TurnStates
  <2> QED  BY <2>1, <2>2, <2>3, QuietProc DEF Candidate, GoalPcs
<1> QED  BY <1>1, <1>2, <1>3, <1>4, <1>5

\* Of the wake-up for mail.
LEMMA StartQuiet ==
    ASSUME TypeOK, ReturnsKnown, ItemInv, NEW p \in Procs, CheckMail(p) \/ Reserve(p) \/ ReserveTooLate(p)
    PROVE  ItemInv'
<1> USE DEF queues, tasks, events, fates
<1>1. /\ pc[p] \notin GoalPcs \cup {"dead"}
      /\ UNCHANGED <<contLock, mailbox, recorded, turnState, sent, input>>
  BY DEF CheckMail, Reserve, ReserveTooLate, GoalPcs
<1>2. \E l \in PCs \ GoalPcs : pc' = [pc EXCEPT ![p] = l]
  BY DEF CheckMail, Reserve, ReserveTooLate, Return, Goto, GoalPcs, PCs, ReturnsKnown, Returns
<1>3. KeepsLocals(p)
  BY LocalsKept, LocalsDropped DEF CheckMail, Reserve, ReserveTooLate
<1> QED  BY <1>1, <1>2, <1>3, QuietProc DEF Candidate, GoalPcs

\* Of an abort: it only drops items.
LEMMA AbortQuiet ==
    ASSUME TurnInv, ItemInv, NEW p \in Procs,
           \/ pc[p] \in {"abort", "guard"} /\ TakeTask(p)
           \/ AbortAllNoTask(p) \/ AbortStep(p)
    PROVE  ItemInv'
<1> USE DEF queues, tasks, events, fates
<1>1. TypeOK /\ ReturnsKnown
  BY DEF TurnInv, ProcInv
<1>2. CASE pc[p] \in {"abort", "guard"} /\ TakeTask(p)
  <2>1. KeepsLocals(p)
    BY <1>1, <1>2, LocalsKept DEF TakeTask
  <2> QED  BY <1>1, <1>2, <2>1, QuietProc DEF TakeTask, Goto, Candidate, GoalPcs
<1>3. CASE AbortAllNoTask(p)
  <2>1. \E l \in PCs \ GoalPcs : pc' = [pc EXCEPT ![p] = l]
    BY <1>1, <1>3 DEF AbortAllNoTask, Return, Goto, GoalPcs, PCs, ReturnsKnown, Returns
  <2>2. KeepsLocals(p)
    BY <1>1, <1>3, LocalsKept, LocalsDropped DEF AbortAllNoTask
  <2>3. /\ pc[p] \notin GoalPcs \cup {"dead"}
        /\ UNCHANGED <<contLock, mailbox, recorded, turnState, sent, input>>
    BY <1>3 DEF AbortAllNoTask, GoalPcs
  <2> QED  BY <1>1, <2>1, <2>2, <2>3, QuietProc DEF Candidate, GoalPcs
<1>4. CASE AbortReport(p)
  <2>1. \E l \in PCs \ GoalPcs : pc' = [pc EXCEPT ![p] = l]
    BY <1>1, <1>4 DEF AbortReport, AfterAbort, Goto, GoalPcs, PCs, ReturnsKnown, Returns
  <2>2. KeepsLocals(p)
    BY <1>1, <1>4, LocalsKept DEF AbortReport
  <2>3. /\ pc[p] \notin GoalPcs \cup {"dead"}
        /\ UNCHANGED <<contLock, mailbox, recorded, sent, input>>
    BY <1>4 DEF AbortReport, GoalPcs
  <2>4. \A s \in Slots : turnState'[s].pending \subseteq turnState[s].pending
    BY <1>1, <1>4 DEF AbortReport, TypeOK, TurnStates
  <2> QED  BY <1>1, <2>1, <2>2, <2>3, <2>4, QuietProc DEF Candidate, GoalPcs
<1>5. CASE AbortKill(p)
  <2>1. loc[p].victim \in Turns /\ loc[p].victim \in Procs
    BY <1>5, ProcKinds DEF AbortKill, TurnInv, ProcInv, VictimKnown
  <2>2. /\ UNCHANGED <<loc, mailbox, recorded, turnState, sent, input>>
        /\ contLock' = IF contLock = loc[p].victim THEN -1 ELSE contLock
    BY <1>5 DEF AbortKill
  <2>3. \A q \in Procs : pc'[q] # "dead" => pc'[q] = pc[q] \/ (pc[q] = "wait" /\ pc'[q] = "report")
    BY <1>1, <1>5, <2>1 DEF AbortKill, TypeOK
  <2>4. pc'[loc[p].victim] \in {"dead", "gone", "report"}
    BY <1>1, <1>5, <2>1 DEF AbortKill, TypeOK
  <2>5. \A q \in Procs : pc'[q] \in GoalPcs => pc[q] = pc'[q] /\ q # loc[p].victim /\ contLock = q
    BY <2>3, <2>4 DEF GoalPcs, ItemInv, GoalLocked
  <2>6. \A q \in Procs : pc'[q] # "dead" =>
          /\ pc[q] # "dead"
          /\ loc'[q].carried \subseteq loc[q].carried
          /\ loc'[q].input \subseteq loc[q].input
          /\ Candidate(q) => Candidate(q)' \/ loc'[q].carried = {}
          /\ Candidate(q)' => Candidate(q)
          /\ pc'[q] \in GoalPcs => contLock' = q
    BY <2>2, <2>3, <2>5 DEF Candidate
  <2> QED  BY <2>2, <2>6, QuietStep
<1> QED  BY <1>2, <1>3, <1>4, <1>5 DEF AbortStep

\* Of a goal continuation.
LEMMA GoalQuiet ==
    ASSUME TypeOK, ItemInv, NEW p \in Procs,
           GoalNoCandidate(p) \/ GoalReserve(p) \/ GoalGiveUp(p) \/ GoalConfirm(p)
    PROVE  ItemInv'
<1> USE DEF queues, tasks, events, fates
<1>1. AfterGoal(p) \in PCs \ GoalPcs
  BY DEF AfterGoal, PCs, GoalPcs
<1>2. CASE GoalNoCandidate(p) \/ GoalGiveUp(p)
  <2>1. Return(p, AfterGoal(p)) /\ pc[p] # "dead"
    BY <1>2 DEF GoalNoCandidate, GoalGiveUp
  <2>2. KeepsLocals(p) /\ loc'[p].carried = {}
    BY <2>1, LocalsDropped
  <2>3. /\ UNCHANGED <<mailbox, recorded, turnState, sent, input>>
        /\ contLock' = contLock \/ contLock = p
    BY <1>2 DEF GoalNoCandidate, GoalGiveUp, ItemInv, GoalLocked, GoalPcs
  <2> QED  BY <1>1, <2>1, <2>2, <2>3, QuietProc DEF Return, Goto
<1>3. CASE GoalConfirm(p)
  <2>1. KeepsLocals(p)
    <3>1. [NoLocals EXCEPT !.turn = used.turns + 1, !.ret = AfterGoal(p)] \in Locals
      BY <1>1, <1>3, NoLocalsType, UsageType DEF GoalConfirm, Locals
    <3> QED  BY <1>3, <3>1, LocalsKept DEF GoalConfirm, NoLocals
  <2>2. /\ UNCHANGED <<mailbox, recorded, turnState, sent, input, contLock>>
        /\ ~Candidate(p) /\ pc[p] # "dead" /\ pc' = [pc EXCEPT ![p] = "collect"]
    BY <1>3 DEF GoalConfirm, Candidate, Goto
  <2> QED  BY <2>1, <2>2, QuietProc DEF GoalPcs
<1>4. CASE GoalReserve(p)
  <2>1. KeepsLocals(p)
    BY <1>4, LocalsKept DEF GoalReserve
  <2>2. /\ UNCHANGED <<mailbox, recorded, turnState, sent, input, contLock>>
        /\ pc[p] = "goalReserve" /\ pc'[p] = "goalReread" /\ \A q \in Procs \ {p} : pc'[q] = pc[q]
    BY <1>4 DEF GoalReserve, Goto, TypeOK
  <2>3. \A q \in Procs : pc'[q] # "dead" =>
            /\ pc[q] # "dead"
            /\ loc'[q].carried \subseteq loc[q].carried
            /\ loc'[q].input \subseteq loc[q].input
            /\ Candidate(q) => Candidate(q)' \/ loc'[q].carried = {}
            /\ Candidate(q)' => Candidate(q)
            /\ pc'[q] \in GoalPcs => contLock' = q
    BY <2>1, <2>2 DEF KeepsLocals, Candidate, ItemInv, GoalLocked, GoalPcs
  <2> QED  BY <2>2, <2>3, QuietStep
<1> QED  BY <1>2, <1>3, <1>4

\* Of operations that bring no item.
LEMMA EnvironmentQuiet ==
    ASSUME TypeOK, ItemInv,
           \/ \E u \in UserItems : UserInputRefused(u)
           \/ \E k \in {"shell", "other"} : OtherTask(k)
           \/ \E t \in Turns : GuardianDenial(t)
           \/ Interrupt \/ Shutdown \/ ContinueGoal \/ GuardianTooLate
           \/ UNCHANGED vars
    PROVE  ItemInv'
<1> USE ProcKinds DEF queues, tasks, events, fates
<1>1. CASE (\E u \in UserItems : UserInputRefused(u)) \/ UNCHANGED vars
  <2>1. /\ UNCHANGED <<pc, loc, turnState, mailbox, recorded, contLock, input>>
        /\ sent \subseteq sent' /\ sent' \cap GoalItems \subseteq sent
    BY <1>1, ItemsAssumption DEF UserInputRefused, vars
  <2>2. \A q \in Procs : pc'[q] # "dead" =>
            /\ pc[q] # "dead"
            /\ loc'[q].carried \subseteq loc[q].carried
            /\ loc'[q].input \subseteq loc[q].input
            /\ Candidate(q) => Candidate(q)' \/ loc'[q].carried = {}
            /\ Candidate(q)' => Candidate(q)
            /\ pc'[q] \in GoalPcs => contLock' = q
    BY <2>1 DEF Candidate, ItemInv, GoalLocked
  <2> QED  BY <2>1, <2>2, QuietStep
<1>2. ASSUME NEW k \in {"shell", "other"}, OtherTask(k) PROVE ItemInv'
  <2>1. KeepsLocals(Loop)
    <3>1. [NoLocals EXCEPT !.turn = used.turns + 1, !.kind = k, !.input = {}] \in Locals
      BY <1>2, NoLocalsType, UsageType DEF OtherTask, SpawnTask, Locals
    <3> QED  BY <1>2, <3>1, LocalsKept DEF OtherTask, SpawnTask, NoLocals
  <2> QED  BY <1>2, <2>1, QuietProc DEF OtherTask, SpawnTask, LoopIdle, Goto, Candidate, GoalPcs
<1>3. ASSUME NEW t \in Turns, GuardianDenial(t) PROVE ItemInv'
  BY <1>3, LocalsKept, QuietProc DEF GuardianDenial, Goto, Candidate, GoalPcs
<1>4. CASE Interrupt \/ Shutdown
  <2>1. KeepsLocals(Loop)
    BY <1>4, LocalsKept DEF Interrupt, Shutdown, StopWith
  <2> QED  BY <1>4, <2>1, QuietProc DEF Interrupt, Shutdown, StopWith, LoopIdle, Goto, Candidate, GoalPcs
<1>5. CASE ContinueGoal
  BY <1>5, LocalsKept, QuietProc DEF ContinueGoal, Goto, Candidate, GoalPcs
<1>6. CASE GuardianTooLate
  BY <1>6, LocalsDropped, QuietProc DEF GuardianTooLate, Return, Goto, Candidate, GoalPcs
<1> QED  BY <1>1, <1>2, <1>3, <1>4, <1>5, <1>6

-----------------------------------------------------------------------------
(* Steps that move items.                                                   *)

\* A new item is nowhere.
LEMMA NewIsNowhere ==
    ASSUME ItemInv, NEW i, i \notin sent, i \notin GoalItems
    PROVE  \A k, n : ~In(i, k, n)
<1> SUFFICES ASSUME NEW k, NEW n, In(i, k, n)
             PROVE  FALSE
  OBVIOUS
<1>1. k = "carried" /\ Candidate(n)
  BY DEF ItemInv, KeptIsSent
<1>2. n \in Procs /\ i \in loc[n].carried
  BY <1>1 DEF In, LiveProcs
<1> QED  BY <1>1, <1>2 DEF ItemInv, GoalLocked

\* Every process with a goal at hand stays where it is.
GoalsStay ==
    /\ contLock' = contLock /\ sent' \cap GoalItems \subseteq sent
    /\ \A q \in Procs : \/ pc'[q] = pc[q] /\ loc'[q] = loc[q]
                        \/ pc[q] \notin GoalPcs /\ pc'[q] \notin GoalPcs

\* The items of M all end up in one place; the others stay where they are or go.
GoesTo(M, k0, n0) ==
    \A i, k, n : In(i, k, n)' => IF i \in M THEN k = k0 /\ n = n0 ELSE In(i, k, n)

\* Gathering items in one place.
LEMMA MoveItems ==
    ASSUME ItemInv, NEW M, NEW k0, NEW n0, GoalsStay, M \subseteq sent', sent \subseteq sent',
           GoesTo(M, k0, n0)
    PROVE  ItemInv'
<1> USE DEF GoesTo
<1>1. InOnePlace'
  BY DEF ItemInv, InOnePlace
<1>2. KeptIsSent'
  <2> SUFFICES ASSUME NEW i, NEW k, NEW n, In(i, k, n)', i \notin sent'
               PROVE  k = "carried" /\ Candidate(n)'
    BY DEF KeptIsSent
  <2>1. k = "carried" /\ Candidate(n) /\ In(i, k, n)
    BY DEF ItemInv, KeptIsSent
  <2>2. n \in Procs
    BY <2>1 DEF In, LiveProcs
  <2> QED  BY <2>1, <2>2 DEF GoalsStay, Candidate, GoalPcs
<1>3. GoalLocked'
  <2> SUFFICES ASSUME NEW q \in Procs, pc'[q] \in GoalPcs
               PROVE  /\ contLock' = q
                      /\ Candidate(q)' => loc'[q].carried \subseteq GoalItems \ sent'
    BY DEF GoalLocked, Candidate, GoalPcs
  <2>1. pc'[q] = pc[q] /\ loc'[q] = loc[q]
    BY DEF GoalsStay
  <2> QED  BY <2>1 DEF GoalsStay, ItemInv, GoalLocked, Candidate
<1> QED  BY <1>1, <1>2, <1>3 DEF ItemInv

\* get_pending_input: the pending items and the mail are taken in one step.
LEMMA GatherItems ==
    ASSUME TypeOK, ItemInv, NEW p \in Procs, Collect(p) \/ Drain(p)
    PROVE  ItemInv'
<1> USE DEF queues, tasks, events, fates
<1> DEFINE M == GetPendingInput
<1>1. /\ UNCHANGED <<active, input, contLock, recorded, sent>> /\ TakePendingInput
      /\ pc[p] \notin GoalPcs \cup {"dead"} /\ pc'[p] \notin GoalPcs \cup {"dead"}
      /\ \A q \in Procs \ {p} : pc'[q] = pc[q]
      /\ loc' = [loc EXCEPT ![p].carried = M]
  BY DEF Collect, Drain, Goto, TypeOK, GoalPcs
<1>2. /\ \A q \in Procs \ {p} : loc'[q] = loc[q]
      /\ loc'[p].carried = M /\ loc'[p].input = loc[p].input
  BY <1>1 DEF TypeOK, Locals
<1>3. active.some => active.slot \in Slots
  BY ActiveType
<1>4. \A i \in M : \/ i \in mailbox /\ In(i, "mail", 0)
                   \/ /\ active.some /\ i \in turnState[active.slot].pending
                      /\ In(i, "pending", active.slot)
  BY <1>3 DEF GetPendingInput, In, Pending
<1>5. M \subseteq sent
  BY <1>4 DEF ItemInv, KeptIsSent
<1>6. \A i \in M : \A k, n : In(i, k, n) =>
          \/ k = "mail" /\ n = 0
          \/ active.some /\ i \in turnState[active.slot].pending /\ k = "pending" /\ n = active.slot
  BY <1>4 DEF ItemInv, InOnePlace
<1>7. \A i \in mailbox' : i \in mailbox /\ i \notin M
  <2>1. \A i \in mailbox' : i \in mailbox /\ ~AcceptsMail
    BY <1>1 DEF TakePendingInput
  <2>2. \A i \in mailbox : In(i, "mail", 0)
    BY DEF In
  <2> QED  BY <2>1, <2>2, <1>6, <1>3 DEF GetPendingInput, In, Pending, ItemInv, InOnePlace
<1>8. \A s \in Slots : \A i \in turnState'[s].pending : i \in turnState[s].pending /\ i \notin M
  <2> SUFFICES ASSUME NEW s \in Slots, NEW i \in turnState'[s].pending
               PROVE  i \in turnState[s].pending /\ i \notin M
    OBVIOUS
  <2>1. i \in turnState[s].pending /\ ~(active.some /\ active.slot = s)
    BY <1>1, <1>3 DEF TakePendingInput, TypeOK, TurnStates
  <2>2. In(i, "pending", s)
    BY <2>1 DEF In
  <2> QED  BY <2>1, <2>2, <1>6
<1> HIDE DEF M
<1>9. \A i, k, n : In(i, k, n)' => IF i \in M THEN k = "carried" /\ n = p ELSE In(i, k, n)
  <2> SUFFICES ASSUME NEW i, NEW k, NEW n, In(i, k, n)'
               PROVE  IF i \in M THEN k = "carried" /\ n = p ELSE In(i, k, n)
    OBVIOUS
  <2>1. In(i, k, n) \/ (k = "carried" /\ n = p /\ i \in M)
    BY <1>1, <1>2, <1>7, <1>8 DEF In, LiveProcs
  <2>2. CASE i \in M /\ In(i, k, n)
    <3>1. k \in {"mail", "pending"}
      BY <1>6, <2>2
    <3> QED  BY <1>7, <1>8, <2>2, <3>1 DEF In
  <2> QED  BY <2>1, <2>2
<1>10. GoalsStay
  BY <1>1, <1>2 DEF GoalsStay
<1>11. GoesTo(M, "carried", p)
  BY <1>9 DEF GoesTo
<1> QED  BY <1>1, <1>5, <1>10, <1>11, MoveItems

\* ... and these leave the one place they were in.
Moves(M, k1, n1, k0, n0) ==
    /\ \A i \in M : In(i, k1, n1) /\ ~In(i, k1, n1)' /\ i \in sent
    /\ \A i, k, n : In(i, k, n)' => In(i, k, n) \/ (i \in M /\ k = k0 /\ n = n0)

\* Moving items from one place to another.
LEMMA EmptyInto ==
    ASSUME ItemInv, NEW M, NEW k1, NEW n1, NEW k0, NEW n0, GoalsStay, sent' = sent,
           Moves(M, k1, n1, k0, n0)
    PROVE  ItemInv'
<1>1. GoesTo(M, k0, n0)
  BY DEF ItemInv, InOnePlace, GoesTo, Moves
<1>2. M \subseteq sent'
  BY DEF Moves
<1> QED  BY <1>1, <1>2, MoveItems

\* The carried items go into the turn's TurnState.
LEMMA AttachItems ==
    ASSUME TypeOK, ItemInv, NEW p \in Procs, Attach(p)
    PROVE  ItemInv'
<1> USE DEF tasks, events, fates
<1> PICK M : M = loc[p].carried
  OBVIOUS
<1>0. PICK s0 \in Slots : s0 = ActiveOrNew.slot
  BY NewActiveType DEF Attach, GetOrInsertActive
<1>1. /\ UNCHANGED <<mailbox, input, contLock, recorded, sent>>
      /\ pc[p] = "attach" /\ pc'[p] = "install"
      /\ \A q \in Procs \ {p} : pc'[q] = pc[q]
      /\ loc' = [loc EXCEPT ![p].carried = {}]
      /\ turnState' = [turnState EXCEPT ![s0].pending = @ \cup M]
  BY <1>0 DEF Attach, Goto, TypeOK, Extend
<1>2. /\ \A q \in Procs \ {p} : loc'[q] = loc[q]
      /\ loc'[p].carried = {} /\ loc'[p].input = loc[p].input
  BY <1>1 DEF TypeOK, Locals
<1>3. \A s \in Slots : turnState'[s].pending = IF s = s0 THEN turnState[s].pending \cup M
                                                         ELSE turnState[s].pending
  BY <1>1 DEF TypeOK, TurnStates
<1>4. \A i \in M : In(i, "carried", p) /\ ~In(i, "carried", p)' /\ i \in sent
  BY <1>1, <1>2 DEF In, LiveProcs, ItemInv, KeptIsSent, Candidate
<1>5. \A i, k, n : In(i, k, n)' => In(i, k, n) \/ (i \in M /\ k = "pending" /\ n = s0)
  BY <1>1, <1>2, <1>3 DEF In, LiveProcs
<1>6. GoalsStay
  BY <1>1, <1>2 DEF GoalsStay, GoalPcs
<1>7. Moves(M, "carried", p, "pending", s0)
  BY <1>4, <1>5 DEF Moves
<1> QED  BY <1>1, <1>6, <1>7, EmptyInto

\* run_hooks_and_record_inputs, by a task that has the items at hand.
LEMMA RecordItems ==
    ASSUME TurnInv, ItemInv, NEW t \in Turns, Record(t) \/ RecordPending(t) \/ FinPending(t)
    PROVE  ItemInv'
<1> USE ProcKinds DEF queues, tasks, events
<1>0. TypeOK
  BY DEF TurnInv
<1>1. /\ UNCHANGED <<mailbox, contLock, sent>>
      /\ pc[t] \notin GoalPcs \cup {"dead"} /\ pc'[t] \notin GoalPcs \cup {"dead"}
      /\ \A q \in Procs \ {t} : pc'[q] = pc[q]
  BY <1>0 DEF Record, RecordPending, FinPending, Goto, TypeOK, GoalPcs
<1>2. CASE Record(t)
  <2> PICK M : M = input[t] \ BlockedPrompts
    OBVIOUS
  <2>1. /\ recorded' = recorded \cup M
        /\ input'[t] = {} /\ \A u \in Turns \ {t} : input'[u] = input[u]
        /\ UNCHANGED <<loc, turnState>>
    BY <1>0, <1>2 DEF Record, RecordInputs, TypeOK
  <2>2. \A i \in M : In(i, "input", t) /\ ~In(i, "input", t)' /\ i \in sent
    BY <1>1, <2>1 DEF In, LiveProcs, ItemInv, KeptIsSent
  <2>3. \A i, k, n : In(i, k, n)' => In(i, k, n) \/ (i \in M /\ k = "recorded" /\ n = 0)
    BY <1>1, <2>1 DEF In, LiveProcs
  <2>4. GoalsStay
    BY <1>1, <2>1 DEF GoalsStay
  <2>5. Moves(M, "input", t, "recorded", 0)
    BY <2>2, <2>3 DEF Moves
  <2> QED  BY <1>1, <2>4, <2>5, EmptyInto
<1>3. CASE RecordPending(t)
  <2> PICK M : M = loc[t].carried \ BlockedPrompts
    OBVIOUS
  <2>1. /\ recorded' = recorded \cup M
        /\ UNCHANGED <<input, turnState>>
        /\ loc' = [loc EXCEPT ![t].carried = {}]
    BY <1>3 DEF RecordPending, RecordInputs
  <2>2. /\ \A q \in Procs \ {t} : loc'[q] = loc[q]
        /\ loc'[t].carried = {} /\ loc'[t].input = loc[t].input
    BY <1>0, <2>1 DEF TypeOK, Locals
  <2>3. \A i \in M : In(i, "carried", t) /\ ~In(i, "carried", t)' /\ i \in sent
    BY <1>1, <2>2 DEF In, LiveProcs, ItemInv, KeptIsSent, Candidate, GoalPcs
  <2>4. \A i, k, n : In(i, k, n)' => In(i, k, n) \/ (i \in M /\ k = "recorded" /\ n = 0)
    BY <1>1, <2>1, <2>2 DEF In, LiveProcs
  <2>5. GoalsStay
    BY <1>1, <2>2 DEF GoalsStay
  <2>6. Moves(M, "carried", t, "recorded", 0)
    BY <2>3, <2>4 DEF Moves
  <2> QED  BY <1>1, <2>5, <2>6, EmptyInto
<1>4. CASE FinPending(t)
  <2>0. PICK s0 \in Slots : s0 = loc[t].slot
    BY <1>4 DEF FinPending, TurnInv, ProcInv, SlotKnown
  <2> PICK M : M = turnState[s0].pending \ BlockedPrompts
    OBVIOUS
  <2>1. /\ recorded' = recorded \cup M
        /\ UNCHANGED <<input, loc>>
        /\ turnState' = [turnState EXCEPT ![s0].pending = {}]
    BY <1>4, <2>0 DEF FinPending, RecordInputs, Pending
  <2>2. \A s \in Slots : turnState'[s].pending = IF s = s0 THEN {} ELSE turnState[s].pending
    BY <1>0, <2>1 DEF TypeOK, TurnStates
  <2>3. \A i \in M : In(i, "pending", s0) /\ ~In(i, "pending", s0)' /\ i \in sent
    <3>1. \A i \in M : In(i, "pending", s0)
      BY <2>0 DEF In
    <3>2. \A i : ~In(i, "pending", s0)'
      BY <2>0, <2>2 DEF In
    <3>3. \A i \in M : i \in sent
      BY <3>1 DEF ItemInv, KeptIsSent
    <3> QED  BY <3>1, <3>2, <3>3
  <2>4. \A i, k, n : In(i, k, n)' => In(i, k, n) \/ (i \in M /\ k = "recorded" /\ n = 0)
    BY <1>1, <2>1, <2>2 DEF In, LiveProcs
  <2>5. GoalsStay
    BY <1>1, <2>1 DEF GoalsStay
  <2>6. Moves(M, "pending", s0, "recorded", 0)
    BY <2>3, <2>4 DEF Moves
  <2> QED  BY <1>1, <2>5, <2>6, EmptyInto
<1> QED  BY <1>2, <1>3, <1>4

\* A new item is put into one place.
Arrives(i0, k0, n0) ==
    \A i, k, n : In(i, k, n)' => In(i, k, n) \/ (i = i0 /\ k = k0 /\ n = n0)

\* An item the session has not seen goes to one place.
LEMMA ArriveItem ==
    ASSUME ItemInv, GoalsStay, NEW i0, NEW k0, NEW n0, i0 \notin sent, i0 \notin GoalItems,
           sent' = sent \cup {i0}, Arrives(i0, k0, n0)
    PROVE  ItemInv'
<1>1. GoesTo({i0}, k0, n0)
  BY NewIsNowhere DEF GoesTo, Arrives
<1> QED  BY <1>1, MoveItems

\* Prompts, mail and injected items as they come in.
LEMMA EnvironmentItems ==
    ASSUME TypeOK, ItemInv,
           \/ \E u \in UserItems : UserInputSteered(u) \/ UserInputSpawn(u) \/ ClientSteer(u)
           \/ \E m \in Mails : Mail(m)
           \/ \E i \in InjectedItems : Inject(i)
    PROVE  ItemInv'
<1> USE ProcKinds DEF queues, tasks, events, fates
<1>1. active.task # None => active.some /\ active.slot \in Slots
  BY ActiveType
<1>2. active.some => active.slot \in Slots
  BY ActiveType
<1>3. ASSUME NEW i0 \in Items \ GoalItems, i0 \notin sent, sent' = sent \cup {i0},
             active.slot \in Slots,
             \A s \in Slots : turnState'[s].pending =
                 IF s = active.slot THEN turnState[s].pending \cup {i0} ELSE turnState[s].pending,
             UNCHANGED <<pc, loc, mailbox, recorded, input, contLock>>
      PROVE  ItemInv'
  <2> PICK s0 : s0 = active.slot
    OBVIOUS
  <2>0. \A s \in Slots : \A i \in turnState'[s].pending :
            i \in turnState[s].pending \/ (i = i0 /\ s = s0)
    BY <1>3
  <2>1. Arrives(i0, "pending", s0)
    BY <1>3, <2>0 DEF Arrives, In, LiveProcs
  <2>2. GoalsStay
    BY <1>3 DEF GoalsStay
  <2> QED  BY <1>3, <2>1, <2>2, ArriveItem
<1>4. ASSUME NEW u \in UserItems, u \notin sent, CanSteer, Steer(u), sent' = sent \cup {u},
             UNCHANGED <<pc, loc, mailbox, recorded, input, contLock>>
      PROVE  ItemInv'
  <2>1. \A s \in Slots : turnState'[s].pending =
            IF s = active.slot THEN turnState[s].pending \cup {u} ELSE turnState[s].pending
    BY <1>4 DEF Steer, TypeOK, TurnStates
  <2>2. active.slot \in Slots /\ u \in Items \ GoalItems
    BY <1>1, <1>4, ItemsAssumption DEF CanSteer, Items
  <2> QED  BY <1>3, <1>4, <2>1, <2>2
<1>5. ASSUME NEW u \in UserItems, UserInputSteered(u) PROVE ItemInv'
  BY <1>4, <1>5 DEF UserInputSteered
<1>6. ASSUME NEW u \in UserItems, ClientSteer(u) PROVE ItemInv'
  <2>1. CASE CanSteer /\ Steer(u)
    BY <1>4, <1>6, <2>1 DEF ClientSteer
  <2>2. CASE turnState' = turnState
    <3>1. /\ UNCHANGED <<pc, loc, turnState, mailbox, recorded, contLock, input>>
          /\ sent \subseteq sent' /\ sent' \cap GoalItems \subseteq sent
      BY <1>6, <2>2, ItemsAssumption DEF ClientSteer
    <3>2. \A q \in Procs : pc'[q] # "dead" =>
            /\ pc[q] # "dead"
            /\ loc'[q].carried \subseteq loc[q].carried
            /\ loc'[q].input \subseteq loc[q].input
            /\ Candidate(q) => Candidate(q)' \/ loc'[q].carried = {}
            /\ Candidate(q)' => Candidate(q)
            /\ pc'[q] \in GoalPcs => contLock' = q
      BY <3>1 DEF Candidate, ItemInv, GoalLocked
    <3> QED  BY <3>1, <3>2, QuietStep
  <2> QED  BY <1>6, <2>1, <2>2 DEF ClientSteer
<1>7. ASSUME NEW i \in InjectedItems, Inject(i) PROVE ItemInv'
  <2>1. i \in Items \ GoalItems /\ i \notin sent /\ sent' = sent \cup {i}
        /\ UNCHANGED <<pc, loc, mailbox, input, contLock>>
    BY <1>7, ItemsAssumption DEF Inject, Items
  <2>2. CASE active.some /\ Extend(active.slot, {i}) /\ UNCHANGED recorded
    <3>1. \A s \in Slots : turnState'[s].pending =
              IF s = active.slot THEN turnState[s].pending \cup {i} ELSE turnState[s].pending
      <4>1. turnState \in [Slots -> TurnStates]
        BY DEF TypeOK
      <4> QED  BY <1>2, <2>2, <4>1 DEF Extend, TurnStates
    <3> QED  BY <1>2, <1>3, <2>1, <2>2, <3>1
  <2>3. CASE recorded' = recorded \cup {i} /\ UNCHANGED turnState
    <3>1. Arrives(i, "recorded", 0)
      BY <2>1, <2>3 DEF Arrives, In, LiveProcs
    <3>2. GoalsStay
      BY <2>1 DEF GoalsStay
    <3> QED  BY <2>1, <3>1, <3>2, ArriveItem
  <2> QED  BY <1>7, <2>2, <2>3 DEF Inject
<1>8. ASSUME NEW m \in Mails, Mail(m) PROVE ItemInv'
  <2>1. /\ m \in Items \ GoalItems /\ m \notin sent /\ sent' = sent \cup {m}
        /\ mailbox' = mailbox \cup {m}
        /\ UNCHANGED <<loc, turnState, recorded, input, contLock>>
    BY <1>8, ItemsAssumption DEF Mail, Items
  <2>2. /\ pc[Loop] = "idle" /\ pc'[Loop] \in {"idle", "checkMail"}
        /\ \A q \in Procs \ {Loop} : pc'[q] = pc[q]
    BY <1>8 DEF Mail, LoopIdle, Goto, TypeOK
  <2>3. Arrives(m, "mail", 0)
    BY <2>1, <2>2 DEF Arrives, In, LiveProcs
  <2>4. GoalsStay
    BY <2>1, <2>2 DEF GoalsStay, GoalPcs
  <2> QED  BY <2>1, <2>3, <2>4, ArriveItem
<1>9. ASSUME NEW u \in UserItems, UserInputSpawn(u) PROVE ItemInv'
  <2>1. /\ u \in Items \ GoalItems /\ u \notin sent /\ sent' = sent \cup {u}
        /\ UNCHANGED <<mailbox, turnState, recorded, input, contLock>>
    BY <1>9, ItemsAssumption DEF UserInputSpawn, Items
  <2>2. /\ pc[Loop] = "idle" /\ pc'[Loop] = "abort"
        /\ \A q \in Procs \ {Loop} : pc'[q] = pc[q] /\ loc'[q] = loc[q]
    BY <1>9 DEF UserInputSpawn, SpawnTask, LoopIdle, Goto, TypeOK
  <2>3. loc'[Loop].carried = {} /\ loc'[Loop].input = {u}
    BY <1>9 DEF UserInputSpawn, SpawnTask, TypeOK, NoLocals
  <2> PICK n0 : n0 = Loop
    OBVIOUS
  <2>4. Arrives(u, "local", n0)
    BY <2>1, <2>2, <2>3 DEF Arrives, In, LiveProcs
  <2>5. GoalsStay
    BY <2>1, <2>2 DEF GoalsStay, GoalPcs
  <2> QED  BY <2>1, <2>4, <2>5, ArriveItem
<1> QED  BY <1>5, <1>6, <1>7, <1>8, <1>9

\* The goal's prompt: picked under the continuation lock, sent when it is queued.
LEMMA GoalItemsMove ==
    ASSUME TypeOK, ItemInv, NEW p \in Procs, GoalCheck(p) \/ GoalReread(p)
    PROVE  ItemInv'
<1> USE DEF queues, tasks, events, fates
<1>1. CASE GoalCheck(p)
  <2>1. PICK g \in GoalItems \ sent : loc' = [loc EXCEPT ![p].carried = {g}]
    BY <1>1 DEF GoalCheck
  <2>2. /\ contLock = -1 /\ contLock' = p
        /\ UNCHANGED <<mailbox, turnState, recorded, input, sent>>
        /\ pc[p] = "goalCheck" /\ pc'[p] = "goalReserve" /\ \A q \in Procs \ {p} : pc'[q] = pc[q]
    BY <1>1 DEF GoalCheck, Goto, TypeOK
  <2>3. /\ \A q \in Procs \ {p} : loc'[q] = loc[q]
        /\ loc'[p].carried = {g} /\ loc'[p].input = loc[p].input
    BY <2>1 DEF TypeOK, Locals
  <2>4. \A q \in Procs : pc[q] \notin GoalPcs
    BY <2>2 DEF ItemInv, GoalLocked, Procs
  <2>5. \A i, k, n : In(i, k, n) => i \in sent
    <3> SUFFICES ASSUME NEW i, NEW k, NEW n, In(i, k, n), i \notin sent PROVE FALSE
      OBVIOUS
    <3>1. k = "carried" /\ Candidate(n)
      BY DEF ItemInv, KeptIsSent
    <3>2. n \in Procs
      BY <3>1 DEF In, LiveProcs
    <3> QED  BY <2>4, <3>1, <3>2 DEF Candidate, GoalPcs
  <2>6. \A i, k, n : In(i, k, n)' => In(i, k, n) \/ (i = g /\ k = "carried" /\ n = p)
    BY <2>2, <2>3 DEF In, LiveProcs
  <2>7. InOnePlace'
    BY <2>5, <2>6 DEF ItemInv, InOnePlace
  <2>8. KeptIsSent'
    BY <2>2, <2>5, <2>6 DEF KeptIsSent, Candidate
  <2>9. GoalLocked'
    BY <2>2, <2>3, <2>4 DEF GoalLocked, Candidate, GoalPcs
  <2> QED  BY <2>7, <2>8, <2>9 DEF ItemInv
<1>2. CASE GoalReread(p)
  <2> PICK M : M = loc[p].carried
    OBVIOUS
  <2> PICK s0 : s0 = loc[p].slot
    OBVIOUS
  <2>1. /\ contLock = p /\ M \subseteq GoalItems \ sent /\ sent' = sent \cup M
        /\ UNCHANGED <<mailbox, recorded, input, contLock>>
        /\ pc[p] = "goalReread" /\ pc'[p] = "goalConfirm" /\ \A q \in Procs \ {p} : pc'[q] = pc[q]
    BY <1>2 DEF GoalReread, Goto, TypeOK, ItemInv, GoalLocked, GoalPcs, Candidate
  <2>2. /\ \A q \in Procs \ {p} : loc'[q] = loc[q]
        /\ loc'[p].carried = {} /\ loc'[p].input = loc[p].input
    BY <1>2 DEF GoalReread, TypeOK, Locals
  <2>3. \A s \in Slots : turnState'[s].pending \subseteq
            IF s = s0 THEN turnState[s].pending \cup M ELSE turnState[s].pending
    <3>1. loc[p].slot \in Slots \cup {None} /\ M \subseteq Items
      BY DEF TypeOK, Locals
    <3> QED  BY <1>2, <3>1 DEF GoalReread, Extend, TypeOK, TurnStates
  <2>4. \A q \in Procs : pc[q] \in GoalPcs => q = p
    BY <2>1 DEF ItemInv, GoalLocked
  <2>5. \A i \in M : In(i, "carried", p) /\ ~In(i, "carried", p)'
    BY <2>1, <2>2 DEF In, LiveProcs
  <2>6. \A i, k, n : In(i, k, n)' => In(i, k, n) \/ (i \in M /\ k = "pending" /\ n = s0)
    BY <2>1, <2>2, <2>3 DEF In, LiveProcs
  <2>7. InOnePlace'
    <3>1. \A i \in M : \A k, n : In(i, k, n) => k = "carried" /\ n = p
      BY <2>5 DEF ItemInv, InOnePlace
    <3>2. \A i \in M : \A k, n : In(i, k, n)' => k = "pending" /\ n = s0
      BY <2>5, <2>6, <3>1
    <3> QED  BY <2>6, <3>2 DEF ItemInv, InOnePlace
  <2>8. KeptIsSent'
    <3> SUFFICES ASSUME NEW i, NEW k, NEW n, In(i, k, n)', i \notin sent' PROVE FALSE
      BY DEF KeptIsSent
    <3>1. In(i, k, n) /\ i \notin sent /\ i \notin M
      BY <2>1, <2>6
    <3>2. k = "carried" /\ Candidate(n)
      BY <3>1 DEF ItemInv, KeptIsSent
    <3>3. n \in Procs /\ i \in loc[n].carried
      BY <3>1, <3>2 DEF In, LiveProcs
    <3> QED  BY <2>4, <3>1, <3>2, <3>3 DEF Candidate, GoalPcs
  <2>9. GoalLocked'
    BY <2>1, <2>2, <2>4 DEF GoalLocked, Candidate, GoalPcs
  <2> QED  BY <2>7, <2>8, <2>9 DEF ItemInv
<1> QED  BY <1>1, <1>2

\* start_task's last section: the input goes with the new task.
LEMMA InstallItems ==
    ASSUME TurnInv, ItemInv, NEW p \in Procs, Install(p)
    PROVE  ItemInv'
<1> USE DEF queues, events, fates
<1>0. TypeOK /\ ReturnsKnown
  BY DEF TurnInv, ProcInv
<1>1. PICK new \in Turns : new = loc[p].turn /\ pc[new] = "off" /\ new \in Procs
  <2>1. loc[p].turn \in 1 .. used.turns /\ pc[loc[p].turn] = "off"
    BY DEF Install, TurnInv, ProcInv, StartsFreshTurn, Starting
  <2> QED  BY <1>0, <2>1, NumberedTurns
<1>2. PICK old \in Turns \cup {None} : old = ActiveOrNew.task
  BY <1>0, ActiveType DEF ActiveOrNew
<1> PICK M : M = loc[p].input
  OBVIOUS
<1>3. /\ UNCHANGED <<mailbox, turnState, recorded, sent>>
      /\ input' = [input EXCEPT ![new] = M] /\ loc' = [loc EXCEPT ![p] = NoLocals]
      /\ pc[p] = "install"
      /\ pc' = [pc EXCEPT ![p] = loc[p].ret,
                          ![old] = IF old = None \/ @ = "gone" THEN @ ELSE "dead",
                          ![new] = "begin"]
      /\ contLock' = IF contLock \in {p} \cup ({old} \ {None}) THEN -1 ELSE contLock
  BY <1>1, <1>2 DEF Install
<1>4. /\ loc'[p].carried = {} /\ loc'[p].input = {} /\ \A q \in Procs \ {p} : loc'[q] = loc[q]
      /\ input'[new] = M /\ \A t \in Turns \ {new} : input'[t] = input[t]
  BY <1>0, <1>3 DEF TypeOK, NoLocals
<1>5. loc[p].ret \in Returns
  BY <1>0 DEF ReturnsKnown
<1>6. \A q \in Procs : /\ pc'[q] # "dead" => pc[q] # "dead"
                       /\ pc'[q] \in GoalPcs => pc'[q] = pc[q] /\ q # p /\ (q # old \/ q = None)
                       /\ Candidate(q) => Candidate(q)' \/ pc'[q] = "dead"
  <2>1. p # new
    BY <1>1, <1>3
  <2>2. pc \in [Procs -> PCs]
    BY <1>0 DEF TypeOK
  <2>3. \A q \in Procs : pc'[q] = IF q = new THEN "begin"
                                  ELSE IF q = old /\ old # None
                                       THEN IF (IF q = p THEN loc[p].ret ELSE pc[q]) = "gone" THEN "gone" ELSE "dead"
                                  ELSE IF q = p THEN loc[p].ret ELSE pc[q]
    BY <1>3, <2>1, <2>2
  <2> SUFFICES ASSUME NEW q \in Procs
               PROVE  /\ pc'[q] # "dead" => pc[q] # "dead"
                      /\ pc'[q] \in GoalPcs => pc'[q] = pc[q] /\ q # p /\ (q # old \/ q = None)
                      /\ Candidate(q) => Candidate(q)' \/ pc'[q] = "dead"
    OBVIOUS
  <2>4. CASE q = new
    BY <1>1, <2>3, <2>4 DEF GoalPcs, Candidate
  <2>5. CASE q = p
    <3>1. pc[q] = "install" /\ pc'[q] \in Returns \cup {"dead", "gone"}
      BY <1>3, <1>5, <2>1, <2>3, <2>5
    <3> QED  BY <3>1 DEF GoalPcs, Candidate, Returns
  <2>6. CASE q # new /\ q # p /\ q = old /\ old # None
    <3>1. pc'[q] = IF pc[q] = "gone" THEN "gone" ELSE "dead"
      BY <2>3, <2>6
    <3> QED  BY <3>1 DEF GoalPcs, Candidate
  <2>7. CASE q # new /\ q # p /\ (q # old \/ old = None)
    <3>1. pc'[q] = pc[q]
      BY <2>3, <2>7
    <3> QED  BY <2>7, <3>1 DEF Candidate
  <2> QED  BY <2>4, <2>5, <2>6, <2>7
<1>7. \A i \in M : In(i, "local", p) /\ i \in sent
  BY <1>3 DEF In, LiveProcs, ItemInv, KeptIsSent
<1>8. \A i, k, n : In(i, k, n)' => In(i, k, n) \/ (i \in M /\ k = "input" /\ n = new)
  BY <1>3, <1>4, <1>6 DEF In, LiveProcs
<1>9. \A i \in M : ~In(i, "local", p)'
  BY <1>4 DEF In
<1>10. InOnePlace'
  <2>1. \A i \in M : \A k, n : In(i, k, n) => k = "local" /\ n = p
    BY <1>7 DEF ItemInv, InOnePlace
  <2>2. \A i \in M : \A k, n : In(i, k, n)' => k = "input" /\ n = new
    BY <1>8, <1>9, <2>1
  <2> QED  BY <1>8, <2>2 DEF ItemInv, InOnePlace
<1>11. KeptIsSent'
  <2> SUFFICES ASSUME NEW i, NEW k, NEW n, In(i, k, n)', i \notin sent'
               PROVE  k = "carried" /\ Candidate(n)'
    BY DEF KeptIsSent
  <2>1. In(i, k, n) /\ i \notin sent
    BY <1>3, <1>7, <1>8
  <2>2. k = "carried" /\ Candidate(n)
    BY <2>1 DEF ItemInv, KeptIsSent
  <2>3. n \in Procs /\ pc'[n] # "dead"
    BY <2>2 DEF In, LiveProcs
  <2> QED  BY <1>6, <2>2, <2>3
<1>12. GoalLocked'
  <2> SUFFICES ASSUME NEW q \in Procs, pc'[q] \in GoalPcs
               PROVE  /\ contLock' = q
                      /\ Candidate(q)' => loc'[q].carried \subseteq GoalItems \ sent'
    BY DEF GoalLocked, Candidate, GoalPcs
  <2>1. pc'[q] = pc[q] /\ q # p /\ (q # old \/ q = None) /\ contLock = q
    BY <1>6 DEF ItemInv, GoalLocked
  <2> QED  BY <1>3, <1>4, <2>1 DEF ItemInv, GoalLocked, Candidate
<1> QED  BY <1>10, <1>11, <1>12 DEF ItemInv

\* All of start_task.
LEMMA StartStepItems ==
    ASSUME TurnInv, ItemInv, NEW p \in Procs, StartStep(p)
    PROVE  ItemInv'
<1>1. TypeOK /\ ReturnsKnown
  BY DEF TurnInv, ProcInv
<1> QED  BY <1>1, GatherItems, AttachItems, InstallItems, StartQuiet DEF StartStep

\* Every step keeps items in one place.
LEMMA NextItems ==
    ASSUME TurnInv, ItemInv, [Next]_vars
    PROVE  ItemInv'
<1> USE ProcKinds
<1>0. TypeOK
  BY DEF TurnInv
<1>1. CASE UNCHANGED vars \/ Waiting
  BY <1>0, <1>1, EnvironmentQuiet DEF Waiting
<1>2. CASE Environment
  BY <1>0, <1>2, EnvironmentQuiet, EnvironmentItems DEF Environment
<1>3. CASE LoopStep
  BY <1>3, AbortQuiet, StartStepItems DEF LoopStep, AbortAll
<1>4. CASE GuardianStep
  BY <1>0, <1>4, AbortQuiet, StartStepItems, EnvironmentQuiet DEF GuardianStep, GuardianAbort
<1>5. ASSUME NEW p \in Procs, GoalStep(p) PROVE ItemInv'
  BY <1>0, <1>5, GoalQuiet, GoalItemsMove DEF GoalStep
<1>6. CASE ApiStep
  BY <1>5, <1>6, StartStepItems DEF ApiStep
<1>7. ASSUME NEW t \in Turns, TaskStep(t) PROVE ItemInv'
  <2>1. t \in Procs
    OBVIOUS
  <2> QED  BY <1>0, <1>5, <1>7, <2>1, TaskQuiet, RecordItems, GatherItems, StartStepItems DEF TaskStep
<1> QED  BY <1>1, <1>2, <1>3, <1>4, <1>6, <1>7 DEF Next

\* Nothing is anywhere at the start.
LEMMA InitItems == Init => ItemInv
<1> SUFFICES ASSUME Init PROVE ItemInv
  OBVIOUS
<1>1. \A i, k, n : ~In(i, k, n)
  BY ProcKinds DEF Init, In, LiveProcs, NoLocals, FreshState
<1> QED  BY <1>1 DEF Init, ItemInv, InOnePlace, KeptIsSent, GoalLocked, GoalPcs, Candidate

\* No item enters the history twice, however prompts, mail, injections, goals,
\* aborts and self-started turns interleave: no queue, task or process still
\* holds what the history has.
THEOREM NothingRecordedTwice == Spec => []RecordedOnce
<1>1. TurnInv /\ ItemInv /\ [Next]_vars => (TurnInv /\ ItemInv)'
  BY NextInv, NextItems
<1>2. TurnInv /\ ItemInv => RecordedOnce
  BY KeptOnce DEF TurnInv
<1> QED  BY <1>1, <1>2, InitInv, InitItems, PTL DEF Spec
-----------------------------------------------------------------------------
(* Sessions in which only submitted operations start turns: no mail asks    *)
(* for a turn, no goal continues and the guardian never fires.              *)

SubmittedOnly == TriggerMails = {} /\ GoalItems = {} /\ MaxDenials = 0

\* The task of a turn from its start to the head of on_task_finished.
Working == {"begin", "work", "record", "drain", "recordPending", "sample", "check",
            "recheck", "flush", "finTake"}

\* Only the submission loop aborts and starts turns.
LoopPcs == {"abort", "wait", "report", "collect", "attach", "install"}
OnlyLoop ==
    /\ \A p \in Procs : pc[p] \notin GoalPcs \cup {"reserve", "guard"}
    /\ \A p \in Procs \ {Loop} : pc[p] \notin LoopPcs

\* Once it has taken the old turn, the session is empty until the new one is
\* attached.
Taken ==
    /\ pc[Loop] \in {"wait", "report", "collect", "attach"} => active = NoTurn
    /\ pc[Loop] = "install" => active.task = None

\* A task that works is the registered one, or the one being aborted.
Registered ==
    \A t \in Turns : pc[t] \in Working =>
        active.task = t \/ (pc[Loop] = "wait" /\ loc[Loop].victim = t)

\* A turn that has begun to finish is out of an abort's reach.
Ended ==
    \A t \in Turns : (t \in completed \/ pc[t] \in {"finPending", "finComplete"}) =>
        /\ active.task # t /\ pc[t] # "off" /\ t \notin aborted
        /\ ~(pc[Loop] \in {"wait", "report"} /\ loc[Loop].victim = t)

SubInv == OnlyLoop /\ Taken /\ Registered /\ Ended

\* A process other than the loop moves.
LEMMA OtherSub ==
    ASSUME TypeOK, SubInv, NEW p \in Procs \ {Loop},
           NEW l \in PCs \ (GoalPcs \cup LoopPcs \cup {"reserve", "guard", "off"}),
           pc' = [pc EXCEPT ![p] = l], loc'[Loop] = loc[Loop],
           active' = active \/ (active.task = None /\ active' = NoTurn),
           l \in Working => pc[p] \in Working,
           l \in {"finPending", "finComplete"} => pc[p] \in {"finPending", "finComplete"},
           completed' = completed \/ (completed' = completed \cup {p} /\ pc[p] = "finComplete"),
           aborted' = aborted
    PROVE  SubInv'
<1> USE ProcKinds
<1>1. /\ pc'[p] = l /\ \A q \in Procs \ {p} : pc'[q] = pc[q]
      /\ pc'[Loop] = pc[Loop]
  BY DEF TypeOK
<1>2. active'.task = active.task
  BY DEF NoTurn
<1>3. OnlyLoop'
  BY <1>1 DEF SubInv, OnlyLoop
<1>4. Taken'
  BY <1>1, <1>2 DEF SubInv, Taken
<1>5. Registered'
  BY <1>1, <1>2 DEF SubInv, Registered
<1>6. Ended'
  BY <1>1, <1>2 DEF SubInv, Ended
<1> QED  BY <1>3, <1>4, <1>5, <1>6 DEF SubInv

\* A turn's own task.
LEMMA TaskSub ==
    ASSUME TypeOK, SubInv, AbortedTurnIsDead, NEW t \in Turns,
           \/ Begin(t) \/ Work(t) \/ Record(t) \/ RunTurnStopped(t)
           \/ Drain(t) \/ RecordPending(t) \/ SampleTool(t) \/ SampleError(t)
           \/ \E follow \in BOOLEAN : SampleAnswer(t, follow)
           \/ CheckFollowUp(t) \/ CheckDone(t) \/ Recheck(t) \/ Flush(t)
           \/ FinTake(t) \/ FinTakeNothing(t) \/ FinPending(t) \/ FinComplete(t)
           \/ FinClear(t) \/ FinNotCleared(t) \/ IdleEmit(t)
    PROVE  SubInv'
<1> USE ProcKinds DEF queues, tasks, events, fates
<1>0. t # Loop /\ Loop \in Procs /\ t \in Procs /\ loc \in [Procs -> Locals]
  BY DEF TypeOK
<1>1. CASE Begin(t) \/ Work(t) \/ Record(t) \/ RunTurnStopped(t) \/ SampleError(t)
           \/ CheckDone(t) \/ Recheck(t) \/ Flush(t) \/ FinPending(t) \/ FinComplete(t)
  <2>1. /\ loc' = loc /\ active' = active /\ aborted' = aborted
        /\ completed' = completed \/ (completed' = completed \cup {t} /\ pc[t] = "finComplete")
    BY <1>1 DEF Begin, Work, Record, RunTurnStopped, SampleError, CheckDone, Recheck, Flush,
                FinPending, FinComplete
  <2>2. PICK l \in Working \cup {"gone", "finComplete", "finClear"} :
            /\ pc' = [pc EXCEPT ![t] = l]
            /\ l \in Working => pc[t] \in Working
            /\ l = "finComplete" => pc[t] = "finPending"
    BY <1>1 DEF Begin, Work, Record, RunTurnStopped, SampleError, CheckDone, Recheck, Flush,
                FinPending, FinComplete, Goto, Working
  <2>3. l \in PCs \ (GoalPcs \cup LoopPcs \cup {"reserve", "guard", "off", "finPending"})
    BY DEF Working, PCs, GoalPcs, LoopPcs
  <2> QED  BY <1>0, <2>1, <2>2, <2>3, OtherSub
<1>2. CASE Drain(t) \/ RecordPending(t) \/ SampleTool(t) \/ CheckFollowUp(t)
           \/ \E follow \in BOOLEAN : SampleAnswer(t, follow)
  <2>1. /\ loc'[Loop] = loc[Loop] /\ active' = active /\ aborted' = aborted /\ completed' = completed
    BY <1>0, <1>2 DEF Drain, RecordPending, SampleTool, CheckFollowUp, SampleAnswer
  <2>2. pc[t] \in Working /\ \E l \in Working : pc' = [pc EXCEPT ![t] = l]
    BY <1>2 DEF Drain, RecordPending, SampleTool, CheckFollowUp, SampleAnswer, Goto, Working
  <2> QED  BY <1>0, <2>1, <2>2, OtherSub DEF Working, PCs, GoalPcs, LoopPcs
<1>3. CASE FinTakeNothing(t) \/ FinNotCleared(t) \/ IdleEmit(t)
  <2>1. /\ loc'[Loop] = loc[Loop] /\ active' = active /\ aborted' = aborted /\ completed' = completed
        /\ pc' = [pc EXCEPT ![t] = "gone"]
    BY <1>0, <1>3 DEF FinTakeNothing, FinNotCleared, IdleEmit, Return, Goto
  <2> QED  BY <1>0, <2>1, OtherSub DEF Working, PCs, GoalPcs, LoopPcs
<1>4. CASE FinClear(t)
  <2>1. /\ loc'[Loop] = loc[Loop] /\ aborted' = aborted /\ completed' = completed
        /\ pc' = [pc EXCEPT ![t] = "checkMail"] /\ active.task = None /\ active' = NoTurn
    BY <1>0, <1>4 DEF FinClear, ReservedWith, Goto
  <2> QED  BY <1>0, <2>1, OtherSub DEF Working, PCs, GoalPcs, LoopPcs
<1>5. CASE FinTake(t)
  <2>1. /\ loc'[Loop] = loc[Loop] /\ UNCHANGED <<aborted, completed>>
        /\ pc[t] = "finTake" /\ pc'[t] = "finPending" /\ \A q \in Procs \ {t} : pc'[q] = pc[q]
        /\ active.task # None /\ active' = [active EXCEPT !.task = None]
    BY <1>0, <1>5 DEF FinTake, Goto, TypeOK
  <2>2. active'.task = None
    BY <2>1 DEF TypeOK, ActiveTurns, NoTurn
  <2>3. pc[Loop] \notin {"wait", "report", "collect", "attach", "install"}
    BY <2>1 DEF SubInv, Taken, NoTurn
  <2>4. active.task = t
    BY <2>1, <2>3 DEF SubInv, Registered, Working
  <2>5. OnlyLoop'
    BY <1>0, <2>1 DEF SubInv, OnlyLoop, GoalPcs, LoopPcs
  <2>6. Taken'
    BY <1>0, <2>1, <2>3 DEF Taken
  <2>7. Registered'
    BY <1>0, <2>1, <2>3, <2>4 DEF SubInv, Registered, Working
  <2>8. Ended'
    BY <1>0, <2>1, <2>2, <2>3 DEF SubInv, Ended, AbortedTurnIsDead
  <2> QED  BY <2>5, <2>6, <2>7, <2>8 DEF SubInv
<1> QED  BY <1>1, <1>2, <1>3, <1>4, <1>5

\* The loop moves and reports nothing.
LEMMA LoopSub ==
    ASSUME TypeOK, SubInv, NEW l \in PCs \ (GoalPcs \cup {"reserve", "guard", "wait", "report"}),
           pc' = [pc EXCEPT ![Loop] = l], pc[Loop] # "wait",
           active'.task = active.task, Taken',
           completed' = completed, aborted' = aborted
    PROVE  SubInv'
<1> USE ProcKinds
<1>1. pc'[Loop] = l /\ \A q \in Procs \ {Loop} : pc'[q] = pc[q]
  BY DEF TypeOK
<1>2. OnlyLoop'
  BY <1>1 DEF SubInv, OnlyLoop
<1>3. \A t \in Turns : pc'[t] = pc[t]
  BY <1>1
<1>4. Registered'
  BY <1>1, <1>3 DEF SubInv, Registered
<1>5. Ended'
  BY <1>1, <1>3 DEF SubInv, Ended
<1> QED  BY <1>2, <1>4, <1>5 DEF SubInv

\* The submission loop aborts.
LEMMA LoopAbortSub ==
    ASSUME TurnInv, SubInv, AbortAll(Loop) \/ AbortAllNoTask(Loop) \/ AbortStep(Loop)
    PROVE  SubInv'
<1> USE ProcKinds DEF queues, tasks, events, fates
<1>0. TypeOK /\ ReturnsKnown /\ VictimKnown /\ AbortedTurnIsDead /\ ActiveSpawned
  BY DEF TurnInv, ProcInv
<1>a. pc \in [Procs -> PCs] /\ loc \in [Procs -> Locals] /\ loc[Loop] \in Locals
  BY <1>0 DEF TypeOK
<1>1. CASE AbortAll(Loop)
  <2>1. /\ pc[Loop] = "abort" /\ pc'[Loop] = "wait" /\ \A q \in Procs \ {Loop} : pc'[q] = pc[q]
        /\ active' = NoTurn /\ active.task # None /\ UNCHANGED <<completed, aborted>>
    BY <1>a, <1>1 DEF AbortAll, TakeTask, Goto
  <2>2. loc'[Loop].victim = active.task
    BY <1>a, <1>1 DEF AbortAll, TakeTask, Locals
  <2>3. OnlyLoop' /\ Taken'
    BY <2>1 DEF SubInv, OnlyLoop, Taken, GoalPcs
  <2>4. Registered'
    BY <2>1, <2>2 DEF SubInv, Registered
  <2>5. Ended'
    BY <2>1, <2>2 DEF SubInv, Ended, NoTurn
  <2> QED  BY <2>3, <2>4, <2>5 DEF SubInv
<1>2. CASE AbortAllNoTask(Loop)
  <2>1. /\ pc[Loop] = "abort" /\ active.task = None /\ active' = NoTurn
        /\ UNCHANGED <<completed, aborted>>
    BY <1>2 DEF AbortAllNoTask
  <2>2. \E l \in Returns \cup {"collect"} : pc' = [pc EXCEPT ![Loop] = l]
    BY <1>0, <1>2 DEF AbortAllNoTask, Return, Goto, ReturnsKnown
  <2>3. Taken'
    BY <1>a, <2>1, <2>2 DEF Taken, Returns
  <2>4. active'.task = active.task
    BY <2>1 DEF NoTurn
  <2> QED  BY <1>0, <2>1, <2>2, <2>3, <2>4, LoopSub DEF Returns, PCs, GoalPcs
<1>3. CASE AbortKill(Loop)
  <2> DEFINE v == loc[Loop].victim
  <2>1. v \in Turns /\ v \in Procs
    BY <1>0, <1>3 DEF AbortKill, VictimKnown
  <2>2. /\ pc[Loop] = "wait" /\ UNCHANGED <<active, loc, completed, aborted>>
        /\ pc' = [pc EXCEPT ![Loop] = "report", ![v] = IF @ = "gone" THEN @ ELSE "dead"]
    BY <1>3 DEF AbortKill
  <2>3. /\ pc'[Loop] = "report" /\ pc'[v] \in {"gone", "dead"}
        /\ \A q \in Procs \ {Loop, v} : pc'[q] = pc[q]
    BY <1>a, <2>1, <2>2
  <2>4. active = NoTurn
    BY <2>2 DEF SubInv, Taken
  <2>5. OnlyLoop' /\ Taken'
    BY <2>1, <2>2, <2>3, <2>4 DEF SubInv, OnlyLoop, Taken, GoalPcs, LoopPcs
  <2>6. Registered'
    BY <2>1, <2>2, <2>3, <2>4 DEF SubInv, Registered, Working, NoTurn
  <2>7. Ended'
    BY <2>1, <2>2, <2>3, <2>4 DEF SubInv, Ended
  <2> QED  BY <2>5, <2>6, <2>7 DEF SubInv
<1>4. CASE AbortReport(Loop)
  <2> DEFINE v == loc[Loop].victim
  <2>1. v \in Turns /\ pc[v] # "off"
    BY <1>0, <1>4 DEF AbortReport, VictimKnown
  <2>2. /\ pc[Loop] = "report" /\ UNCHANGED <<active, completed>> /\ aborted' = aborted \cup {v}
    BY <1>4 DEF AbortReport
  <2>3. PICK l \in {"collect", "checkMail"} : pc' = [pc EXCEPT ![Loop] = l]
    BY <1>4 DEF AbortReport, AfterAbort, Goto
  <2>4. pc'[Loop] = l /\ \A q \in Procs \ {Loop} : pc'[q] = pc[q]
    BY <1>a, <2>3
  <2>5. active = NoTurn
    BY <2>2 DEF SubInv, Taken
  <2>6. OnlyLoop' /\ Taken'
    BY <2>2, <2>4, <2>5 DEF SubInv, OnlyLoop, Taken, GoalPcs
  <2>7. Registered'
    BY <2>2, <2>4, <2>5 DEF SubInv, Registered, NoTurn
  <2>8. Ended'
    BY <2>1, <2>2, <2>4 DEF SubInv, Ended
  <2> QED  BY <2>6, <2>7, <2>8 DEF SubInv
<1> QED  BY <1>1, <1>2, <1>3, <1>4 DEF AbortStep

\* The submission loop starts a turn.
LEMMA LoopStartSub ==
    ASSUME TurnInv, SubInv, SubmittedOnly, StartStep(Loop)
    PROVE  SubInv'
<1> USE ProcKinds DEF queues, tasks, events, fates
<1>0. TypeOK /\ ReturnsKnown /\ StartsFreshTurn /\ AbortedTurnIsDead
  BY DEF TurnInv, ProcInv
<1>a. pc \in [Procs -> PCs] /\ loc \in [Procs -> Locals] /\ loc[Loop] \in Locals
  BY <1>0 DEF TypeOK
<1>1. CASE Collect(Loop)
  <2>1. /\ pc[Loop] = "collect" /\ UNCHANGED <<active, completed, aborted>>
        /\ pc' = [pc EXCEPT ![Loop] = "attach"]
    BY <1>1 DEF Collect, Goto
  <2>2. Taken'
    BY <1>a, <2>1 DEF SubInv, Taken
  <2> QED  BY <1>0, <2>1, <2>2, LoopSub DEF PCs, GoalPcs
<1>2. CASE Attach(Loop)
  <2>1. /\ pc[Loop] = "attach" /\ active' = ActiveOrNew /\ UNCHANGED <<completed, aborted>>
        /\ pc' = [pc EXCEPT ![Loop] = "install"]
    BY <1>2 DEF Attach, Goto
  <2>2. active'.task = None /\ active.task = None
    BY <2>1 DEF SubInv, Taken, ActiveOrNew, NoTurn
  <2>3. Taken'
    BY <1>a, <2>1, <2>2 DEF Taken
  <2> QED  BY <1>0, <2>1, <2>2, <2>3, LoopSub DEF PCs, GoalPcs
<1>3. CASE Install(Loop)
  <2> DEFINE new == loc[Loop].turn
  <2>1. new \in Turns /\ new \in Procs /\ pc[new] = "off"
    BY <1>0, <1>3, NumberedTurns DEF Install, StartsFreshTurn, Starting
  <2>2. active.task = None /\ ActiveOrNew.task = None /\ pc[Loop] = "install"
    BY <1>3 DEF Install, SubInv, Taken, ActiveOrNew
  <2>3. /\ UNCHANGED <<completed, aborted>> /\ loc[Loop].ret \in Returns
        /\ active' = [ActiveOrNew EXCEPT !.task = new]
        /\ pc' = [pc EXCEPT ![Loop] = loc[Loop].ret, ![None] = @, ![new] = "begin"]
    BY <1>0, <1>3, <2>2 DEF Install, ReturnsKnown
  <2>4. active'.task = new
    <3>1. CASE active.some
      BY <1>0, <2>3, <3>1 DEF ActiveOrNew, TypeOK, ActiveTurns, NoTurn
    <3>2. CASE ~active.some
      BY <2>3, <3>2 DEF ActiveOrNew
    <3> QED  BY <3>1, <3>2
  <2>5. pc'[Loop] \in Returns /\ pc'[new] = "begin" /\ \A q \in Procs \ {Loop, new} : pc'[q] = pc[q]
    <3>1. Loop = None
      BY DEF Loop, None
    <3> QED  BY <1>a, <2>1, <2>3, <3>1
  <2>6. OnlyLoop' /\ Taken'
    BY <2>1, <2>5 DEF SubInv, OnlyLoop, Taken, Returns, GoalPcs, LoopPcs
  <2>7. Registered'
    BY <2>1, <2>2, <2>4, <2>5 DEF SubInv, Registered
  <2>8. Ended'
    <3> SUFFICES ASSUME NEW t \in Turns,
                        t \in completed' \/ pc'[t] \in {"finPending", "finComplete"}
                 PROVE  /\ active'.task # t /\ pc'[t] # "off" /\ t \notin aborted'
                        /\ pc'[Loop] \notin {"wait", "report"}
      BY DEF Ended
    <3>1. t # new /\ t # Loop
      BY <1>0, <2>1, <2>3, <2>5 DEF SubInv, Ended
    <3>2. pc'[t] = pc[t]
      BY <1>0, <2>5, <3>1
    <3>3. active.task # t /\ pc[t] # "off" /\ t \notin aborted
      BY <2>3, <3>2 DEF SubInv, Ended
    <3> QED  BY <2>3, <2>4, <2>5, <3>1, <3>2, <3>3 DEF Returns
  <2> QED  BY <2>6, <2>7, <2>8 DEF SubInv
<1>4. CASE CheckMail(Loop) \/ Reserve(Loop) \/ ReserveTooLate(Loop)
  <2>1. CheckMail(Loop) /\ ~HasTriggerMail
    BY <1>4 DEF SubInv, OnlyLoop, Reserve, ReserveTooLate, SubmittedOnly, HasTriggerMail
  <2>2. /\ pc[Loop] = "checkMail" /\ UNCHANGED <<active, completed, aborted>>
        /\ loc[Loop].ret \in Returns /\ pc' = [pc EXCEPT ![Loop] = loc[Loop].ret]
    BY <1>0, <2>1 DEF CheckMail, Return, Goto, ReturnsKnown
  <2>3. Taken'
    BY <1>a, <2>2 DEF Taken, Returns
  <2> QED  BY <1>0, <2>2, <2>3, LoopSub DEF PCs, GoalPcs, Returns
<1> QED  BY <1>1, <1>2, <1>3, <1>4 DEF StartStep

\* Every other process only looks for mail and goals, and finds none.
LEMMA OtherStartSub ==
    ASSUME TurnInv, SubInv, SubmittedOnly, NEW p \in Procs \ {Loop}, StartStep(p) \/ GoalStep(p)
    PROVE  SubInv'
<1> USE ProcKinds DEF queues, tasks, events, fates
<1>0. TypeOK /\ ReturnsKnown
  BY DEF TurnInv, ProcInv
<1>1. pc[p] \notin GoalPcs \cup LoopPcs \cup {"reserve"}
  BY DEF SubInv, OnlyLoop
<1>2. CheckMail(p) \/ GoalNoCandidate(p)
  BY <1>1 DEF StartStep, GoalStep, Collect, Attach, Install, Reserve, ReserveTooLate, GoalCheck,
              GoalReserve, GoalGiveUp, GoalReread, GoalConfirm, GoalPcs, LoopPcs, SubmittedOnly
<1>3. UNCHANGED <<active, completed, aborted>>
  BY <1>2 DEF CheckMail, GoalNoCandidate
<1>4. \E l \in Returns : Return(p, l)
  BY <1>0, <1>2 DEF CheckMail, GoalNoCandidate, SubmittedOnly, HasTriggerMail, ReturnsKnown, Returns,
                    AfterGoal
<1>5. loc'[Loop] = loc[Loop]
  BY <1>0, <1>4 DEF Return, TypeOK
<1>6. \E l \in Returns : pc' = [pc EXCEPT ![p] = l]
  BY <1>4 DEF Return, Goto
<1> QED  BY <1>0, <1>3, <1>5, <1>6, OtherSub DEF Returns, PCs, GoalPcs, LoopPcs, Working

\* Operations as they come in.
LEMMA EnvironmentSub ==
    ASSUME TypeOK, SubInv, SubmittedOnly, Environment
    PROVE  SubInv'
<1> USE ProcKinds DEF queues, tasks, events, fates
<1>a. pc \in [Procs -> PCs] /\ loc \in [Procs -> Locals]
  BY DEF TypeOK
<1>1. CASE \/ \E u \in UserItems : UserInputSteered(u) \/ UserInputRefused(u) \/ ClientSteer(u)
           \/ \E i \in InjectedItems : Inject(i)
           \/ \E m \in Mails : Mail(m)
  <2>1. UNCHANGED <<active, pc, loc, completed, aborted>>
    BY <1>1 DEF UserInputSteered, UserInputRefused, ClientSteer, Inject, Mail, SubmittedOnly
  <2> QED  BY <2>1 DEF SubInv, OnlyLoop, Taken, Registered, Ended
<1>2. CASE \/ \E u \in UserItems : UserInputSpawn(u)
           \/ \E k \in {"shell", "other"} : OtherTask(k)
           \/ Interrupt \/ Shutdown
  <2>1. /\ UNCHANGED <<active, completed, aborted>> /\ pc[Loop] = "idle"
        /\ pc' = [pc EXCEPT ![Loop] = "abort"]
    BY <1>2 DEF UserInputSpawn, OtherTask, Interrupt, Shutdown, SpawnTask, StopWith, LoopIdle, Goto
  <2>2. Taken'
    BY <1>a, <2>1 DEF Taken
  <2> QED  BY <2>1, <2>2, LoopSub DEF PCs, GoalPcs
<1>3. CASE \E t \in Turns : GuardianDenial(t)
  <2>1. used.denials \in 0 .. 0 /\ used.denials < 0
    BY <1>3 DEF GuardianDenial, SubmittedOnly, TypeOK, Usage
  <2> QED  BY <2>1
<1>4. CASE ContinueGoal
  <2>1. UNCHANGED <<active, completed, aborted>> /\ pc' = [pc EXCEPT ![Api] = "checkMail"]
    BY <1>4 DEF ContinueGoal, Goto
  <2>2. Api \in Procs \ {Loop}
    BY BoundsAssumption DEF Api, Loop
  <2>3. loc'[Loop] = loc[Loop]
    BY <1>a, <1>4, <2>2 DEF ContinueGoal
  <2> QED  BY <2>1, <2>2, <2>3, OtherSub DEF PCs, GoalPcs, LoopPcs, Working
<1> QED  BY <1>1, <1>2, <1>3, <1>4 DEF Environment

\* Every step of such a session keeps the invariant.
LEMMA NextSub ==
    ASSUME TurnInv, SubInv, SubmittedOnly, [Next]_vars
    PROVE  SubInv'
<1> USE ProcKinds
<1>0. TypeOK /\ AbortedTurnIsDead
  BY DEF TurnInv, ProcInv
<1>1. CASE UNCHANGED vars \/ Waiting
  <2>1. UNCHANGED <<active, pc, loc, completed, aborted>>
    BY <1>1 DEF Waiting, vars
  <2> QED  BY <2>1 DEF SubInv, OnlyLoop, Taken, Registered, Ended
<1>2. CASE Environment
  BY <1>0, <1>2, EnvironmentSub
<1>3. CASE LoopStep
  BY <1>3, LoopAbortSub, LoopStartSub DEF LoopStep
<1>4. CASE GuardianStep
  <2>1. StartStep(Guardian)
    BY <1>4 DEF GuardianStep, GuardianAbort, GuardianTooLate, AbortStep, AbortKill, AbortReport,
                SubInv, OnlyLoop, LoopPcs
  <2> QED  BY <2>1, OtherStartSub
<1>5. CASE ApiStep
  <2>1. Api \in Procs \ {Loop}
    BY BoundsAssumption DEF Api, Loop
  <2> QED  BY <1>5, <2>1, OtherStartSub DEF ApiStep
<1>6. ASSUME NEW t \in Turns, TaskStep(t) PROVE SubInv'
  <2>1. t \in Procs \ {Loop}
    OBVIOUS
  <2> QED  BY <1>0, <1>6, <2>1, TaskSub, OtherStartSub DEF TaskStep
<1> QED  BY <1>1, <1>2, <1>3, <1>4, <1>5, <1>6 DEF Next

\* It holds at the start.
LEMMA InitSub == Init => SubInv
<1> SUFFICES ASSUME Init PROVE SubInv
  OBVIOUS
<1>1. \A p \in Procs : pc[p] \in {"off", "idle"}
  BY DEF Init
<1> QED  BY <1>1, ProcKinds
            DEF Init, SubInv, OnlyLoop, Taken, Registered, Ended, GoalPcs, LoopPcs, Working

\* It holds of every behaviour of such a session.
LEMMA SubInductive == ASSUME SubmittedOnly PROVE Spec => [](TurnInv /\ SubInv)
<1>1. TurnInv /\ SubInv /\ [Next]_vars => (TurnInv /\ SubInv)'
  BY NextInv, NextSub
<1> QED  BY <1>1, InitInv, InitSub, PTL DEF Spec

\* As long as every turn is started by an operation the client submits,
\* start_task's debug_assert!(turn.task.is_none()) holds: the loop takes the old
\* turn out before it installs the new one, and nobody else installs one.
THEOREM SubmittedTurnsInstallFree ==
    ASSUME SubmittedOnly PROVE Spec => []InstallsIntoFreeTurn
<1>1. TurnInv /\ SubInv => InstallsIntoFreeTurn
  BY ProcKinds DEF SubInv, OnlyLoop, Taken, InstallsIntoFreeTurn, LoopPcs, NoTurn
<1> QED  BY <1>1, SubInductive, PTL

\* ... and each turn ends for the client once: what its own finish completes no
\* interrupt or replacement reports as aborted.
THEOREM SubmittedTurnsEndOnce ==
    ASSUME SubmittedOnly PROVE Spec => []OneTerminalEvent
<1>1. TurnInv /\ SubInv => OneTerminalEvent
  BY DEF TurnInv, TypeOK, SubInv, Ended, OneTerminalEvent
<1> QED  BY <1>1, SubInductive, PTL

-----------------------------------------------------------------------------
(* What such a session is handed is never lost, injection apart: an item    *)
(* injected into a turn that is finishing is in nobody's queue any more.    *)

\* Only a turn that is being aborted is killed.
DeadCancelled ==
    /\ \A p \in Procs : pc[p] = "dead" => p \in cancelled
    /\ pc[Loop] = "wait" => loc[Loop].victim \in cancelled

\* A process carries items from one queue to the next, and nowhere else.
EmptyHands ==
    /\ \A p \in Procs : pc[p] \notin {"attach", "recordPending", "dead"} => loc[p].carried = {}
    /\ ~Starting(Loop) => loc[Loop].input = {}
    /\ \A t \in Turns : pc[t] = "off" => input[t] = {}

LocalInv == DeadCancelled /\ EmptyHands

\* A turn that has taken itself out of the session (on_task_finished) leaves its
\* TurnState there until it has recorded what was queued in it.
Fin == {"finPending", "finComplete", "finClear"}

SlotInv ==
    /\ active.some => active.slot \in 1 .. used.slots
    /\ pc[Loop] = "install" => active.some
    /\ active.some /\ active.task = None =>
           \/ pc[Loop] = "install"
           \/ \E t \in Turns : pc[t] \in Fin /\ loc[t].slot = active.slot
    /\ \A t \in Turns : pc[t] \in Fin =>
           /\ loc[t].slot \in 1 .. used.slots
           /\ active.some /\ active.slot = loc[t].slot =>
                  active.task = None /\ pc[Loop] # "install"
           /\ pc[t] # "finPending" => turnState[loc[t].slot].pending = {}

\* i is in the history, refused, or kept where a live or a cancelled turn has it.
Safe(i) ==
    \/ i \in recorded \cup refused \cup discarded \cup mailbox
    \/ \E s \in HeldSlots : i \in turnState[s].pending
    \/ \E p \in Procs : i \in loc[p].carried
    \/ \E t \in Turns : i \in input[t]
    \/ i \in loc[Loop].input

KeepInv == LocalInv /\ SlotInv /\ \A i \in sent : Safe(i)

\* The invariant implies that nothing is lost.
LEMMA SafeIsKept ==
    ASSUME TypeOK, KeepInv
    PROVE  NothingLost
<1> USE ProcKinds
<1> SUFFICES ASSUME NEW i \in sent
             PROVE  i \in recorded \cup refused \cup InFlight \cup GoneWithAbort
  BY DEF NothingLost
<1>1. Safe(i)
  BY DEF KeepInv
<1>2. CASE i \in recorded \cup refused \cup discarded \cup mailbox
  BY <1>2 DEF InFlight, GoneWithAbort
<1>3. CASE \E s \in HeldSlots : i \in turnState[s].pending
  BY <1>3 DEF InFlight, Pending
<1>4. ASSUME NEW p \in Procs, i \in loc[p].carried \/ (p \in Turns /\ i \in input[p])
      PROVE  i \in InFlight \cup GoneWithAbort
  <2>1. CASE pc[p] = "dead"
    <3>1. p \in cancelled
      BY <2>1 DEF KeepInv, LocalInv, DeadCancelled
    <3>2. i \in input[p] \cup loc[p].carried
      BY <1>4
    <3> QED  BY <3>1, <3>2 DEF GoneWithAbort
  <2>2. CASE pc[p] # "dead"
    <3>1. p \in LiveProcs
      BY <2>2 DEF LiveProcs
    <3>2. CASE i \in loc[p].carried
      BY <3>1, <3>2 DEF InFlight
    <3>3. CASE p \in Turns /\ i \in input[p]
      BY <3>1, <3>3 DEF InFlight
    <3> QED  BY <1>4, <3>2, <3>3
  <2> QED  BY <2>1, <2>2
<1>5. CASE i \in loc[Loop].input
  <2>1. Loop \notin cancelled
    BY DEF TypeOK
  <2>2. Loop \in LiveProcs
    BY <2>1 DEF LiveProcs, KeepInv, LocalInv, DeadCancelled
  <2> QED  BY <1>5, <2>2 DEF InFlight
<1> QED  BY <1>1, <1>2, <1>3, <1>4, <1>5 DEF Safe

\* The locals when process p moves.
LEMMA LocalsMove ==
    ASSUME TypeOK, LocalInv, NEW p \in Procs, NEW l, l \notin {"dead", "off"},
           pc' = [pc EXCEPT ![p] = l], \A q \in Procs \ {p} : loc'[q] = loc[q],
           l \notin {"attach", "recordPending"} => loc'[p].carried = {},
           p = Loop => Starting(Loop)' \/ loc'[Loop].input = {},
           p = Loop /\ l = "wait" => loc'[Loop].victim \in cancelled',
           cancelled \subseteq cancelled',
           \A t \in Turns : input'[t] \subseteq input[t]
    PROVE  LocalInv'
<1> USE ProcKinds
<1>1. pc'[p] = l /\ \A q \in Procs \ {p} : pc'[q] = pc[q]
  BY DEF TypeOK
<1>2. DeadCancelled'
  BY <1>1 DEF LocalInv, DeadCancelled
<1>3. ~Starting(Loop)' => loc'[Loop].input = {}
  <2>1. CASE p = Loop
    BY <2>1
  <2>2. CASE p # Loop
    <3>1. Starting(Loop)' <=> Starting(Loop)
      BY <1>1, <2>2 DEF Starting
    <3> QED  BY <2>2, <3>1 DEF LocalInv, EmptyHands
  <2> QED  BY <2>1, <2>2
<1>4. \A q \in Procs : pc'[q] \notin {"attach", "recordPending", "dead"} => loc'[q].carried = {}
  BY <1>1 DEF LocalInv, EmptyHands
<1>5. \A t \in Turns : pc'[t] = "off" => input'[t] = {}
  BY <1>1 DEF LocalInv, EmptyHands
<1> QED  BY <1>2, <1>3, <1>4, <1>5 DEF LocalInv, EmptyHands

\* The TurnStates when no turn is taken, attached or installed.
LEMMA SlotQuiet ==
    ASSUME TypeOK, SlotInv, active' = active, used'.slots = used.slots,
           pc'[Loop] = "install" <=> pc[Loop] = "install",
           \A t \in Turns : pc'[t] \in Fin =>
               /\ pc[t] \in Fin /\ loc'[t].slot = loc[t].slot
               /\ pc[t] = "finPending" => pc'[t] = "finPending" \/ turnState'[loc[t].slot].pending = {}
               /\ turnState'[loc[t].slot].pending \subseteq turnState[loc[t].slot].pending,
           \A t \in Turns : pc[t] \in Fin /\ ReservedWith(loc[t].slot) =>
               pc'[t] \in Fin /\ loc'[t].slot = loc[t].slot
    PROVE  SlotInv'
<1>1. active'.some /\ active'.task = None =>
           \/ pc'[Loop] = "install"
           \/ \E t \in Turns : pc'[t] \in Fin /\ loc'[t].slot = active'.slot
  BY DEF SlotInv, ReservedWith
<1>2. ASSUME NEW t \in Turns, pc'[t] \in Fin
      PROVE  /\ loc'[t].slot \in 1 .. used'.slots
             /\ active'.some /\ active'.slot = loc'[t].slot => active'.task = None /\ pc'[Loop] # "install"
             /\ pc'[t] # "finPending" => turnState'[loc'[t].slot].pending = {}
  BY <1>2 DEF SlotInv
<1> QED  BY <1>1, <1>2 DEF SlotInv

\* The TurnStates finishing turns hold were allocated.
LEMMA FinSlots ==
    ASSUME TypeOK, SlotInv
    PROVE  /\ \A t \in Turns : pc[t] \in Fin => loc[t].slot \in Slots
           /\ 1 .. used.slots \subseteq Slots /\ used.slots \in Nat
<1>1. used.slots \in 0 .. MaxSlots
  BY DEF TypeOK, Usage
<1>2. 1 .. used.slots \subseteq Slots /\ used.slots \in Nat
  BY <1>1, BoundsAssumption DEF Slots
<1> QED  BY <1>2 DEF SlotInv

\* ... and when the session's turn is taken away.
LEMMA SlotTaken ==
    ASSUME TypeOK, SlotInv, active' = NoTurn, used'.slots = used.slots, turnState' = turnState,
           pc'[Loop] # "install",
           \A t \in Turns : pc'[t] \in Fin => pc'[t] = pc[t] /\ loc'[t].slot = loc[t].slot
    PROVE  SlotInv'
BY DEF SlotInv, NoTurn

\* What is safe stays safe if what a place lets go of is safe elsewhere.
LEMMA SafeStep ==
    ASSUME \A i \in sent : Safe(i),
           recorded \subseteq recorded', refused \subseteq refused', discarded \subseteq discarded',
           \A i \in mailbox \ mailbox' : Safe(i)',
           \A i \in loc[Loop].input \ loc'[Loop].input : Safe(i)',
           \A p \in Procs : \A i \in loc[p].carried \ loc'[p].carried : Safe(i)',
           \A t \in Turns : \A i \in input[t] \ input'[t] : Safe(i)',
           \A s \in HeldSlots : \A i \in turnState[s].pending :
               (s \in HeldSlots' /\ i \in turnState'[s].pending) \/ Safe(i)',
           \A i \in sent' \ sent : Safe(i)'
    PROVE  \A i \in sent' : Safe(i)'
<1> SUFFICES ASSUME NEW i \in sent PROVE Safe(i)'
  OBVIOUS
<1>1. CASE \E s \in HeldSlots : i \in turnState[s].pending
  BY <1>1 DEF Safe
<1>2. CASE i \in recorded \cup refused \cup discarded \cup mailbox \cup loc[Loop].input
  BY <1>2 DEF Safe
<1>3. CASE (\E p \in Procs : i \in loc[p].carried) \/ \E t \in Turns : i \in input[t]
  BY <1>3 DEF Safe
<1> QED  BY <1>1, <1>2, <1>3 DEF Safe

\* A process that does not let go of a TurnState keeps them all held.
LEMMA HeldQuiet ==
    ASSUME active' = active,
           \A p \in Procs : pc[p] \in {"wait", "report", "finPending"} =>
               pc'[p] \in {"wait", "report", "finPending"} /\ loc'[p].slot = loc[p].slot
    PROVE  HeldSlots \subseteq HeldSlots'
BY DEF HeldSlots

\* A process other than the loop moves no item.
LEMMA QuietMove ==
    ASSUME TypeOK, KeepInv, NEW p \in Procs \ {Loop},
           NEW l, l \notin {"dead", "off", "attach", "recordPending", "finPending"},
           pc[p] \notin {"attach", "recordPending", "dead", "finPending", "wait", "report"},
           pc' = [pc EXCEPT ![p] = l],
           \A q \in Procs \ {p} : loc'[q] = loc[q], loc'[p].carried = {},
           l \in Fin => pc[p] \in Fin /\ loc'[p].slot = loc[p].slot,
           pc[p] \in Fin /\ ReservedWith(loc[p].slot) => l \in Fin,
           active' = active, cancelled' = cancelled, used'.slots = used.slots,
           UNCHANGED <<input, mailbox, recorded, refused, discarded, sent>>,
           \A s \in Slots : turnState'[s].pending = turnState[s].pending
    PROVE  KeepInv'
<1> USE ProcKinds
<1>1. /\ pc'[p] = l /\ \A q \in Procs \ {p} : pc'[q] = pc[q]
      /\ pc'[Loop] = pc[Loop] /\ loc'[Loop] = loc[Loop]
  BY DEF TypeOK
<1>2. LocalInv'
  BY LocalsMove DEF KeepInv
<1>3. \A t \in Turns : pc[t] \in Fin => loc[t].slot \in Slots
  BY FinSlots DEF KeepInv
<1>4. SlotInv'
  BY <1>1, <1>3, SlotQuiet DEF KeepInv
<1>5. loc[p].carried = {}
  BY DEF KeepInv, LocalInv, EmptyHands
<1>6. HeldSlots \subseteq HeldSlots'
  BY <1>1, HeldQuiet
<1>7. HeldSlots \subseteq Slots
  BY DEF HeldSlots
<1>8. \A i \in sent' : Safe(i)'
  BY <1>1, <1>5, <1>6, <1>7, SafeStep DEF KeepInv
<1> QED  BY <1>2, <1>4, <1>8 DEF KeepInv

\* Steps of a task that move no item.
LEMMA TaskQuietKeep ==
    ASSUME TypeOK, KeepInv, NEW t \in Turns,
           \/ Begin(t) \/ Work(t) \/ SampleTool(t) \/ SampleError(t)
           \/ \E follow \in BOOLEAN : SampleAnswer(t, follow)
           \/ CheckFollowUp(t) \/ CheckDone(t) \/ Recheck(t) \/ Flush(t)
           \/ FinTakeNothing(t) \/ FinComplete(t) \/ FinNotCleared(t) \/ IdleEmit(t)
    PROVE  KeepInv'
<1> USE ProcKinds DEF queues, tasks, events, fates
<1>0. t \in Procs \ {Loop} /\ loc \in [Procs -> Locals] /\ used \in Usage
  BY DEF TypeOK
<1>a. pc[t] \notin {"attach", "recordPending", "dead"} => loc[t].carried = {}
  BY DEF KeepInv, LocalInv, EmptyHands
<1>1. CASE Begin(t) \/ Work(t) \/ SampleError(t) \/ CheckDone(t) \/ Recheck(t) \/ Flush(t)
           \/ FinComplete(t)
  <2>1. /\ loc' = loc /\ used'.slots = used.slots
        /\ UNCHANGED <<active, turnState, cancelled, input, mailbox, recorded, refused, discarded, sent>>
    BY <1>0, <1>1 DEF Begin, Work, SampleError, CheckDone, Recheck, Flush, FinComplete, Usage
  <2>2. /\ pc[t] \in Working \cup {"finComplete"} /\ pc[t] # "recordPending"
        /\ \E l \in (Working \cup {"gone", "finClear"}) \ {"recordPending"} :
              /\ pc' = [pc EXCEPT ![t] = l]
              /\ l = "finClear" <=> pc[t] = "finComplete"
    BY <1>1 DEF Begin, Work, SampleError, CheckDone, Recheck, Flush, FinComplete, Goto, Working
  <2> QED  BY <1>0, <1>a, <2>1, <2>2, QuietMove DEF Working, Fin
<1>2. CASE SampleTool(t) \/ CheckFollowUp(t) \/ \E follow \in BOOLEAN : SampleAnswer(t, follow)
  <2>1. /\ used'.slots = used.slots
        /\ UNCHANGED <<active, cancelled, input, mailbox, recorded, refused, discarded, sent>>
    BY <1>0, <1>2 DEF SampleTool, CheckFollowUp, SampleAnswer, Usage
  <2>2. /\ pc[t] \in {"sample", "check"}
        /\ \E l \in Working \ {"recordPending"} : pc' = [pc EXCEPT ![t] = l]
    BY <1>2 DEF SampleTool, CheckFollowUp, SampleAnswer, Goto, Working
  <2>3. \A q \in Procs \ {t} : loc'[q] = loc[q]
    BY <1>0, <1>2 DEF SampleTool, CheckFollowUp, SampleAnswer
  <2>4. loc'[t].carried = loc[t].carried
    BY <1>0, <1>2 DEF SampleTool, CheckFollowUp, SampleAnswer, Locals
  <2>5. \A s \in Slots : turnState'[s].pending = turnState[s].pending
    BY <1>2 DEF SampleTool, CheckFollowUp, SampleAnswer, AcceptMail, DeferMail, TypeOK, TurnStates
  <2> QED  BY <1>0, <1>a, <2>1, <2>2, <2>3, <2>4, <2>5, QuietMove DEF Working, Fin
<1>3. CASE FinTakeNothing(t) \/ FinNotCleared(t) \/ IdleEmit(t)
  <2>1. /\ UNCHANGED <<active, turnState, cancelled, used, input, mailbox, recorded, refused, discarded, sent>>
        /\ pc[t] \in {"finTake", "finClear", "idleEmit"} /\ pc' = [pc EXCEPT ![t] = "gone"]
        /\ pc[t] = "finClear" => ~ReservedWith(loc[t].slot)
        /\ loc' = [loc EXCEPT ![t] = NoLocals]
    BY <1>3 DEF FinTakeNothing, FinNotCleared, IdleEmit, Return, Goto
  <2>2. /\ \A q \in Procs \ {t} : loc'[q] = loc[q]
        /\ loc'[t].carried = {}
    BY <1>0, <2>1 DEF NoLocals
  <2> QED  BY <1>0, <2>1, <2>2, QuietMove DEF Fin
<1> QED  BY <1>1, <1>2, <1>3

\* The input a task was spawned with is recorded or refused.
LEMMA TaskRecordKeep ==
    ASSUME TypeOK, KeepInv, NEW t \in Turns, Record(t) \/ RunTurnStopped(t)
    PROVE  KeepInv'
<1> USE ProcKinds DEF queues, tasks, events, fates
<1>0. t \in Procs \ {Loop} /\ pc \in [Procs -> PCs] /\ input \in [Turns -> SUBSET Items]
  BY DEF TypeOK
<1>1. /\ loc' = loc /\ UNCHANGED <<active, turnState, cancelled, mailbox, discarded, sent>>
      /\ pc[t] = "record" /\ \E l \in {"recheck", "drain", "sample"} : pc' = [pc EXCEPT ![t] = l]
      /\ input' = [input EXCEPT ![t] = {}]
  BY DEF Record, RunTurnStopped, Goto
<1>2. used'.slots = used.slots
  BY DEF Record, RunTurnStopped, TypeOK, Usage
<1>3. /\ recorded \subseteq recorded' /\ refused \subseteq refused'
      /\ \A i \in input[t] : i \in recorded' \cup refused'
  BY DEF Record, RunTurnStopped, RecordInputs
<1>4. input'[t] = {} /\ \A u \in Turns \ {t} : input'[u] = input[u]
  BY <1>0, <1>1
<1>5. loc[t].carried = {}
  BY <1>1 DEF KeepInv, LocalInv, EmptyHands
<1>6. /\ pc'[t] \in {"recheck", "drain", "sample"} /\ pc'[Loop] = pc[Loop]
      /\ \A q \in Procs \ {t} : pc'[q] = pc[q]
  BY <1>0, <1>1
<1>7. LocalInv'
  BY <1>0, <1>1, <1>4, <1>5, LocalsMove DEF KeepInv
<1>8. SlotInv'
  BY <1>1, <1>2, <1>6, SlotQuiet DEF KeepInv, Fin
<1>9. HeldSlots \subseteq HeldSlots'
  BY <1>1, <1>6, HeldQuiet
<1>10. \A i \in input[t] : Safe(i)'
  BY <1>3 DEF Safe
<1>11. \A i \in sent' : Safe(i)'
  BY <1>1, <1>3, <1>4, <1>9, <1>10, SafeStep DEF KeepInv
<1> QED  BY <1>7, <1>8, <1>11 DEF KeepInv

\* What get_pending_input takes, process p carries.
LEMMA GatherSafe ==
    ASSUME TypeOK, NEW p \in Procs, loc' = [loc EXCEPT ![p].carried = GetPendingInput],
           loc[p].carried = {}, TakePendingInput,
           active' = active, HeldSlots \subseteq HeldSlots',
           UNCHANGED <<input, recorded, refused, discarded, sent>>,
           \A i \in sent : Safe(i)
    PROVE  /\ \A i \in sent' : Safe(i)'
           /\ \A s \in Slots : turnState'[s].pending \subseteq turnState[s].pending
           /\ \A q \in Procs \ {p} : loc'[q] = loc[q]
           /\ loc'[p].input = loc[p].input /\ loc'[p].slot = loc[p].slot
           /\ loc'[p].victim = loc[p].victim
<1> USE ProcKinds
<1>1. loc \in [Procs -> Locals] /\ loc[p] \in Locals
  BY DEF TypeOK
<1>2. /\ \A q \in Procs \ {p} : loc'[q] = loc[q]
      /\ loc'[p].carried = GetPendingInput
      /\ loc'[p].input = loc[p].input /\ loc'[p].slot = loc[p].slot
      /\ loc'[p].victim = loc[p].victim
  BY <1>1 DEF Locals
<1>3. loc'[Loop].input = loc[Loop].input
  BY <1>2
<1>4. \A i \in GetPendingInput : Safe(i)'
  BY <1>2 DEF Safe
<1>5. \A i \in mailbox \ mailbox' : i \in GetPendingInput
  BY DEF TakePendingInput, GetPendingInput
<1>6. turnState \in [Slots -> TurnStates]
  BY DEF TypeOK
<1>7. \A s \in Slots : \/ turnState'[s].pending = turnState[s].pending
                       \/ /\ turnState'[s].pending = {}
                          /\ turnState[s].pending \subseteq GetPendingInput
  <2>1. CASE active.some
    BY <1>6, <2>1 DEF TakePendingInput, GetPendingInput, Pending, TurnStates
  <2>2. CASE ~active.some
    BY <2>2 DEF TakePendingInput
  <2> QED  BY <2>1, <2>2
<1>8. HeldSlots \subseteq Slots
  BY DEF HeldSlots
<1>9. \A s \in HeldSlots : \A i \in turnState[s].pending :
               (s \in HeldSlots' /\ i \in turnState'[s].pending) \/ Safe(i)'
  BY <1>4, <1>7, <1>8
<1>10. \A q \in Procs : \A i \in loc[q].carried \ loc'[q].carried : Safe(i)'
  BY <1>2
<1>11. \A i \in sent' : Safe(i)'
  BY <1>3, <1>4, <1>5, <1>9, <1>10, SafeStep
<1> QED  BY <1>2, <1>7, <1>11

\* A task drains the queues into its hands and from there into the history.
LEMMA TaskDrainKeep ==
    ASSUME TypeOK, KeepInv, NEW t \in Turns, Drain(t) \/ RecordPending(t)
    PROVE  KeepInv'
<1> USE ProcKinds DEF queues, tasks, events, fates
<1>0. t \in Procs \ {Loop} /\ pc \in [Procs -> PCs] /\ loc \in [Procs -> Locals]
  BY DEF TypeOK
<1>a. \A u \in Turns : pc[u] \in Fin => loc[u].slot \in Slots
  BY FinSlots DEF KeepInv
<1>1. CASE Drain(t)
  <2>1. /\ UNCHANGED <<active, cancelled, input, recorded, refused, discarded, sent, used>>
        /\ pc[t] = "drain" /\ pc' = [pc EXCEPT ![t] = "recordPending"]
        /\ loc' = [loc EXCEPT ![t].carried = GetPendingInput] /\ TakePendingInput
    BY <1>1 DEF Drain, Goto
  <2>2. /\ pc'[t] = "recordPending" /\ pc'[Loop] = pc[Loop]
        /\ \A q \in Procs \ {t} : pc'[q] = pc[q] /\ loc'[q] = loc[q]
    BY <1>0, <2>1
  <2>3. HeldSlots \subseteq HeldSlots'
    BY <2>1, <2>2, HeldQuiet
  <2>4. loc[t].carried = {}
    BY <2>1 DEF KeepInv, LocalInv, EmptyHands
  <2>5. /\ \A i \in sent' : Safe(i)'
        /\ \A s \in Slots : turnState'[s].pending \subseteq turnState[s].pending
    BY <1>0, <2>1, <2>3, <2>4, GatherSafe DEF KeepInv
  <2>6. LocalInv'
    BY <1>0, <2>1, <2>2, LocalsMove DEF KeepInv
  <2>7. SlotInv'
    BY <1>a, <2>1, <2>2, <2>5, SlotQuiet DEF KeepInv, Fin
  <2> QED  BY <2>5, <2>6, <2>7 DEF KeepInv
<1>2. CASE RecordPending(t)
  <2>1. /\ UNCHANGED <<active, turnState, mailbox, cancelled, input, discarded, sent, used>>
        /\ pc[t] = "recordPending" /\ \E l \in {"recheck", "sample"} : pc' = [pc EXCEPT ![t] = l]
        /\ loc' = [loc EXCEPT ![t].carried = {}]
    BY <1>2 DEF RecordPending, Goto
  <2>2. /\ recorded \subseteq recorded' /\ refused \subseteq refused'
        /\ \A i \in loc[t].carried : i \in recorded' \cup refused'
    BY <1>2 DEF RecordPending, RecordInputs
  <2>3. /\ pc'[t] \in {"recheck", "sample"} /\ pc'[Loop] = pc[Loop] /\ loc'[Loop] = loc[Loop]
        /\ \A q \in Procs \ {t} : pc'[q] = pc[q] /\ loc'[q] = loc[q]
    BY <1>0, <2>1
  <2>4. loc'[t].carried = {}
    BY <1>0, <2>1 DEF Locals
  <2>5. HeldSlots \subseteq HeldSlots'
    BY <2>1, <2>3, HeldQuiet
  <2>6. LocalInv'
    BY <1>0, <2>1, <2>3, <2>4, LocalsMove DEF KeepInv
  <2>7. SlotInv'
    BY <2>1, <2>3, SlotQuiet DEF KeepInv, Fin
  <2>8. \A q \in Procs : \A i \in loc[q].carried \ loc'[q].carried : Safe(i)'
    BY <2>2, <2>3 DEF Safe
  <2>9. \A i \in sent' : Safe(i)'
    BY <2>1, <2>2, <2>3, <2>5, <2>8, SafeStep DEF KeepInv
  <2> QED  BY <2>6, <2>7, <2>9 DEF KeepInv
<1> QED  BY <1>1, <1>2

\* on_task_finished takes the task, records what is still queued and clears the
\* session; only what is recorded leaves the TurnState.
LEMMA TaskFinKeep ==
    ASSUME TypeOK, SubInv, KeepInv, NEW t \in Turns, FinTake(t) \/ FinPending(t) \/ FinClear(t)
    PROVE  KeepInv'
<1> USE ProcKinds DEF queues, tasks, events, fates
<1>0. /\ t \in Procs \ {Loop} /\ pc \in [Procs -> PCs] /\ loc \in [Procs -> Locals]
      /\ turnState \in [Slots -> TurnStates]
  BY DEF TypeOK
<1>a. \A u \in Turns : pc[u] \in Fin => loc[u].slot \in Slots
  BY FinSlots DEF KeepInv
<1>b. HeldSlots \subseteq Slots
  BY DEF HeldSlots
<1>1. CASE FinTake(t)
  <2>1. /\ UNCHANGED <<turnState, mailbox, cancelled, input, recorded, refused, discarded, sent, used>>
        /\ pc[t] = "finTake" /\ pc' = [pc EXCEPT ![t] = "finPending"]
        /\ active.task # None /\ active' = [active EXCEPT !.task = None]
        /\ loc' = [loc EXCEPT ![t].slot = active.slot]
    BY <1>1 DEF FinTake, Goto
  <2>2. /\ pc'[t] = "finPending" /\ pc'[Loop] = pc[Loop] /\ loc'[Loop] = loc[Loop]
        /\ \A q \in Procs \ {t} : pc'[q] = pc[q] /\ loc'[q] = loc[q]
    BY <1>0, <2>1
  <2>3. loc'[t].slot = active.slot /\ loc'[t].carried = loc[t].carried /\ loc[t].carried = {}
    BY <1>0, <2>1 DEF Locals, KeepInv, LocalInv, EmptyHands
  <2>4. /\ active.some /\ active'.some /\ active'.task = None /\ active'.slot = active.slot
    BY <2>1, ActiveType DEF TypeOK, ActiveTurns, NoTurn
  <2>5. pc[Loop] # "install"
    BY <2>1 DEF SubInv, Taken
  <2>6. LocalInv'
    BY <1>0, <2>1, <2>2, <2>3, LocalsMove DEF KeepInv
  <2>7. SlotInv'
    <3>1. active'.slot \in 1 .. used'.slots
      BY <2>1, <2>4 DEF KeepInv, SlotInv
    <3>2. \A u \in Turns : pc'[u] \in Fin =>
             /\ loc'[u].slot \in 1 .. used'.slots
             /\ pc'[u] # "finPending" => turnState'[loc'[u].slot].pending = {}
      BY <2>1, <2>2, <2>3, <2>4, <3>1 DEF KeepInv, SlotInv
    <3> QED  BY <2>2, <2>3, <2>4, <2>5, <3>1, <3>2 DEF SlotInv, Fin
  <2>8. HeldSlots \subseteq HeldSlots'
    BY <2>1, <2>2, <2>4 DEF HeldSlots
  <2>9. \A i \in sent' : Safe(i)'
    BY <2>1, <2>2, <2>3, <2>8, SafeStep DEF KeepInv
  <2> QED  BY <2>6, <2>7, <2>9 DEF KeepInv
<1>2. CASE FinPending(t)
  <2> DEFINE s0 == loc[t].slot
  <2>1. /\ UNCHANGED <<active, mailbox, loc, cancelled, input, discarded, sent, used>>
        /\ pc[t] = "finPending" /\ pc' = [pc EXCEPT ![t] = "finComplete"]
        /\ turnState' = [turnState EXCEPT ![s0].pending = {}]
    BY <1>2 DEF FinPending, Goto
  <2>2. s0 \in Slots /\ loc[t].carried = {}
    BY <1>a, <2>1 DEF Fin, KeepInv, LocalInv, EmptyHands
  <2>3. /\ recorded \subseteq recorded' /\ refused \subseteq refused'
        /\ \A i \in turnState[s0].pending : i \in recorded' \cup refused'
    BY <1>2 DEF FinPending, RecordInputs, Pending
  <2>4. /\ pc'[t] = "finComplete" /\ pc'[Loop] = pc[Loop]
        /\ \A q \in Procs \ {t} : pc'[q] = pc[q]
    BY <1>0, <2>1
  <2>5. turnState'[s0].pending = {} /\ \A s \in Slots \ {s0} : turnState'[s] = turnState[s]
    BY <1>0, <2>1, <2>2 DEF TurnStates
  <2>6. LocalInv'
    BY <1>0, <2>1, <2>2, LocalsMove DEF KeepInv
  <2>7. SlotInv'
    BY <1>a, <2>1, <2>4, <2>5, SlotQuiet DEF KeepInv, Fin
  <2>8. \A s \in HeldSlots \ {s0} : s \in HeldSlots'
    BY <2>1, <2>4 DEF HeldSlots
  <2>9. \A i \in turnState[s0].pending : Safe(i)'
    BY <2>3 DEF Safe
  <2>10. \A s \in HeldSlots : \A i \in turnState[s].pending :
               (s \in HeldSlots' /\ i \in turnState'[s].pending) \/ Safe(i)'
    BY <1>b, <2>5, <2>8, <2>9
  <2>11. \A i \in sent' : Safe(i)'
    BY <2>1, <2>3, <2>10, SafeStep DEF KeepInv
  <2> QED  BY <2>6, <2>7, <2>11 DEF KeepInv
<1>3. CASE FinClear(t)
  <2>1. /\ UNCHANGED <<turnState, mailbox, cancelled, input, recorded, refused, discarded, sent, used>>
        /\ pc[t] = "finClear" /\ pc' = [pc EXCEPT ![t] = "checkMail"]
        /\ active' = NoTurn /\ active.some /\ active.slot = loc[t].slot
        /\ loc' = [loc EXCEPT ![t] = [NoLocals EXCEPT !.ret = "goalCheck"]]
    BY <1>3 DEF FinClear, Goto, ReservedWith
  <2>2. /\ pc'[t] = "checkMail" /\ pc'[Loop] = pc[Loop] /\ loc'[Loop] = loc[Loop]
        /\ \A q \in Procs \ {t} : pc'[q] = pc[q] /\ loc'[q] = loc[q]
    BY <1>0, <2>1
  <2>3. loc'[t].carried = {} /\ loc[t].carried = {}
    BY <1>0, <2>1 DEF NoLocals, KeepInv, LocalInv, EmptyHands
  <2>4. turnState[active.slot].pending = {} /\ pc[Loop] # "install"
    BY <2>1 DEF KeepInv, SlotInv, Fin
  <2>5. LocalInv'
    BY <1>0, <2>1, <2>2, <2>3, LocalsMove DEF KeepInv
  <2>6. SlotInv'
    BY <2>1, <2>2, <2>4, SlotTaken DEF KeepInv, Fin
  <2>7. \A s \in HeldSlots \ {active.slot} : s \in HeldSlots'
    BY <2>1, <2>2 DEF HeldSlots
  <2>8. \A i \in sent' : Safe(i)'
    BY <2>1, <2>2, <2>3, <2>4, <2>7, SafeStep DEF KeepInv
  <2> QED  BY <2>5, <2>6, <2>8 DEF KeepInv
<1> QED  BY <1>1, <1>2, <1>3

\* The submission loop aborts: what a dropped turn had queued is discarded with
\* the TurnAborted event, or a finishing task holds it.
LEMMA LoopAbortKeep ==
    ASSUME TurnInv, SubInv, KeepInv, AbortAll(Loop) \/ AbortAllNoTask(Loop) \/ AbortStep(Loop)
    PROVE  KeepInv'
<1> USE ProcKinds DEF queues, tasks, events, fates
<1>0. TypeOK /\ ReturnsKnown /\ VictimKnown /\ SlotKnown
  BY DEF TurnInv, ProcInv
<1>a. /\ pc \in [Procs -> PCs] /\ loc \in [Procs -> Locals] /\ loc[Loop] \in Locals
      /\ turnState \in [Slots -> TurnStates]
  BY <1>0 DEF TypeOK
<1>b. HeldSlots \subseteq Slots
  BY DEF HeldSlots
<1>c. \A u \in Turns : pc[u] \in Fin => loc[u].slot \in Slots
  BY <1>0, FinSlots DEF KeepInv
<1>1. CASE AbortAll(Loop)
  <2>1. /\ UNCHANGED <<turnState, mailbox, input, recorded, refused, discarded, sent, used>>
        /\ pc[Loop] = "abort" /\ pc' = [pc EXCEPT ![Loop] = "wait"]
        /\ active.task # None /\ active' = NoTurn /\ cancelled' = cancelled \cup {active.task}
        /\ loc' = [loc EXCEPT ![Loop].victim = active.task, ![Loop].slot = active.slot]
    BY <1>1 DEF AbortAll, TakeTask, Goto
  <2>2. /\ pc'[Loop] = "wait" /\ \A q \in Procs \ {Loop} : pc'[q] = pc[q] /\ loc'[q] = loc[q]
    BY <1>a, <2>1
  <2>3. /\ loc'[Loop].victim = active.task /\ loc'[Loop].slot = active.slot
        /\ loc'[Loop].input = loc[Loop].input /\ loc'[Loop].carried = loc[Loop].carried
        /\ loc'[Loop].interrupt = loc[Loop].interrupt
    BY <1>a, <2>1 DEF Locals
  <2>4. loc[Loop].carried = {} /\ (loc[Loop].interrupt => loc[Loop].input = {})
    BY <2>1 DEF KeepInv, LocalInv, EmptyHands, Starting
  <2>5. Starting(Loop)' \/ loc'[Loop].input = {}
    BY <2>2, <2>3, <2>4 DEF Starting
  <2>6. LocalInv'
    <3>1. loc'[Loop].carried = {}
      BY <2>3, <2>4
    <3>2. active.task \in cancelled' /\ cancelled \subseteq cancelled'
      BY <2>1
    <3>3. loc'[Loop].victim \in cancelled'
      BY <2>3, <3>2
    <3> QED  BY <1>0, <2>1, <2>2, <2>5, <3>1, <3>2, <3>3, LocalsMove DEF KeepInv
  <2>7. SlotInv'
    BY <1>0, <2>1, <2>2, SlotTaken DEF KeepInv
  <2>8. HeldSlots \subseteq HeldSlots'
    <3>1. \A q \in Procs : pc[q] \in {"wait", "report", "finPending"} =>
                             pc'[q] = pc[q] /\ loc'[q] = loc[q]
      BY <2>1, <2>2
    <3> QED  BY <2>2, <2>3, <3>1 DEF HeldSlots
  <2>9. \A i \in sent' : Safe(i)'
    BY <2>1, <2>2, <2>3, <2>8, SafeStep DEF KeepInv
  <2> QED  BY <2>6, <2>7, <2>9 DEF KeepInv
<1>2. CASE AbortAllNoTask(Loop)
  <2>1. /\ UNCHANGED <<turnState, mailbox, cancelled, input, recorded, refused, discarded, sent, used>>
        /\ pc[Loop] = "abort" /\ active.task = None /\ active' = NoTurn
    BY <1>2 DEF AbortAllNoTask
  <2>2. PICK l \in Returns \cup {"collect"} : pc' = [pc EXCEPT ![Loop] = l]
    BY <1>0, <1>2 DEF AbortAllNoTask, Return, Goto, ReturnsKnown
  <2>3. pc'[Loop] = l /\ \A q \in Procs \ {Loop} : pc'[q] = pc[q] /\ loc'[q] = loc[q]
    BY <1>a, <1>2, <2>2 DEF AbortAllNoTask, Return
  <2>4. loc[Loop].carried = {} /\ (loc[Loop].interrupt => loc[Loop].input = {})
    BY <2>1 DEF KeepInv, LocalInv, EmptyHands, Starting
  <2>5. \/ pc'[Loop] = "collect" /\ loc' = loc
        \/ loc[Loop].interrupt /\ loc'[Loop] = NoLocals
    <3>1. CASE AfterAbort(Loop, FALSE) = "collect"
      BY <1>2, <1>a, <3>1 DEF AbortAllNoTask, Goto
    <3>2. CASE AfterAbort(Loop, FALSE) # "collect"
      BY <1>2, <1>a, <3>2 DEF AbortAllNoTask, Return, AfterAbort
    <3> QED  BY <3>1, <3>2
  <2>6. loc'[Loop].carried = {} /\ loc'[Loop].input = loc[Loop].input
    <3>1. NoLocals.carried = {} /\ NoLocals.input = {}
      BY DEF NoLocals
    <3> HIDE DEF NoLocals
    <3> QED  BY <2>4, <2>5, <3>1
  <2>7. Starting(Loop)' \/ loc'[Loop].input = {}
    BY <2>4, <2>5, <2>6 DEF Starting
  <2>8. LocalInv'
    BY <1>0, <2>1, <2>2, <2>3, <2>6, <2>7, LocalsMove DEF KeepInv, Returns
  <2>9. SlotInv'
    BY <1>0, <2>1, <2>3, SlotTaken DEF KeepInv, Returns
  <2>10. \A s \in HeldSlots : s \in HeldSlots' \/ turnState[s].pending = {}
    <3> SUFFICES ASSUME NEW s \in HeldSlots, turnState[s].pending # {}
                 PROVE  s \in HeldSlots'
      OBVIOUS
    <3>1. CASE active.some /\ active.slot = s
      <4>1. PICK u \in Turns : pc[u] \in Fin /\ loc[u].slot = s
        BY <2>1, <3>1 DEF KeepInv, SlotInv
      <4>2. pc[u] = "finPending"
        BY <4>1 DEF KeepInv, SlotInv
      <4>3. pc'[u] = "finPending" /\ loc'[u].slot = s /\ u \in Procs
        BY <2>3, <4>1, <4>2
      <4> QED  BY <1>b, <4>3 DEF HeldSlots
    <3>2. CASE \E p \in Procs : pc[p] \in {"wait", "report", "finPending"} /\ loc[p].slot = s
      BY <1>b, <2>1, <2>3, <3>2 DEF HeldSlots
    <3> QED  BY <3>1, <3>2 DEF HeldSlots
  <2>11. \A i \in sent' : Safe(i)'
    BY <2>1, <2>3, <2>4, <2>6, <2>10, SafeStep DEF KeepInv
  <2> QED  BY <2>8, <2>9, <2>11 DEF KeepInv
<1>3. CASE AbortKill(Loop)
  <2> DEFINE v == loc[Loop].victim
  <2>1. v \in Turns /\ v \in Procs
    BY <1>0, <1>3 DEF AbortKill, VictimKnown
  <2>2. /\ pc[Loop] = "wait"
        /\ UNCHANGED <<active, turnState, mailbox, loc, cancelled, input, recorded, refused, discarded,
                       sent, used>>
        /\ pc' = [pc EXCEPT ![Loop] = "report", ![v] = IF @ = "gone" THEN @ ELSE "dead"]
    BY <1>3 DEF AbortKill
  <2>3. /\ pc'[Loop] = "report" /\ pc'[v] = IF pc[v] = "gone" THEN "gone" ELSE "dead"
        /\ \A q \in Procs \ {Loop, v} : pc'[q] = pc[q]
    BY <1>a, <2>1, <2>2
  <2>4. active = NoTurn /\ v \in cancelled /\ pc[v] # "finPending"
    BY <2>1, <2>2 DEF SubInv, Taken, Ended, KeepInv, LocalInv, DeadCancelled
  <2>5. pc[v] \notin {"wait", "report"}
    BY <2>1 DEF SubInv, OnlyLoop, LoopPcs
  <2>6. LocalInv'
    <3>1. DeadCancelled'
      BY <2>1, <2>2, <2>3, <2>4 DEF KeepInv, LocalInv, DeadCancelled
    <3>2. ~Starting(Loop)' => ~Starting(Loop)
      BY <2>2, <2>3 DEF Starting
    <3>3. pc[v] # "off"
      BY <1>0, <2>2 DEF VictimKnown
    <3>4. \A p \in Procs : pc'[p] \notin {"attach", "recordPending", "dead"} => loc'[p].carried = {}
      BY <2>1, <2>2, <2>3 DEF KeepInv, LocalInv, EmptyHands
    <3>5. \A t \in Turns : pc'[t] = "off" => input'[t] = {}
      BY <2>1, <2>2, <2>3 DEF KeepInv, LocalInv, EmptyHands
    <3> QED  BY <2>2, <3>1, <3>2, <3>4, <3>5 DEF KeepInv, LocalInv, EmptyHands
  <2>7. SlotInv'
    <3>1. ~ active.some
      BY <2>4 DEF NoTurn
    <3>2. \A u \in Turns : pc'[u] \in Fin => pc'[u] = pc[u]
      BY <2>1, <2>3 DEF Fin
    <3>3. SlotInv /\ \A s : ~ReservedWith(s)
      BY <3>1 DEF KeepInv, ReservedWith
    <3> QED  BY <1>0, <2>2, <2>3, <3>2, <3>3, SlotQuiet
  <2>8. HeldSlots \subseteq HeldSlots'
    BY <2>1, <2>2, <2>3, <2>4, <2>5, HeldQuiet
  <2>9. \A i \in sent' : Safe(i)'
    BY <2>2, <2>8, SafeStep DEF KeepInv
  <2> QED  BY <2>6, <2>7, <2>9 DEF KeepInv
<1>4. CASE AbortReport(Loop)
  <2> DEFINE s0 == loc[Loop].slot
  <2>1. /\ UNCHANGED <<active, mailbox, cancelled, input, recorded, refused, sent, used>>
        /\ pc[Loop] = "report" /\ discarded' = discarded \cup turnState[s0].pending
        /\ turnState' = [turnState EXCEPT ![s0].pending = {}]
        /\ loc' = [loc EXCEPT ![Loop].victim = None, ![Loop].slot = None]
        /\ pc' = [pc EXCEPT ![Loop] = AfterAbort(Loop, TRUE)]
    BY <1>4 DEF AbortReport, Goto, Pending
  <2>2. s0 \in Slots
    BY <1>0, <2>1 DEF SlotKnown
  <2>3. /\ pc'[Loop] = IF loc[Loop].interrupt THEN "checkMail" ELSE "collect"
        /\ \A q \in Procs \ {Loop} : pc'[q] = pc[q] /\ loc'[q] = loc[q]
    BY <1>a, <2>1 DEF AfterAbort, Locals
  <2>4. /\ loc'[Loop].input = loc[Loop].input /\ loc'[Loop].carried = loc[Loop].carried
    BY <1>a, <2>1 DEF Locals
  <2>5. loc[Loop].carried = {} /\ (loc[Loop].interrupt => loc[Loop].input = {})
    BY <2>1 DEF KeepInv, LocalInv, EmptyHands, Starting
  <2>6. Starting(Loop)' \/ loc'[Loop].input = {}
    BY <1>a, <2>3, <2>4, <2>5 DEF Starting, Locals
  <2>7. AfterAbort(Loop, TRUE) \in {"checkMail", "collect"}
    BY DEF AfterAbort
  <2>8. LocalInv'
    BY <1>0, <2>1, <2>3, <2>4, <2>5, <2>6, <2>7, LocalsMove DEF KeepInv
  <2>9. turnState'[s0].pending = {} /\ \A s \in Slots \ {s0} : turnState'[s] = turnState[s]
    BY <1>a, <2>1, <2>2 DEF TurnStates
  <2>10. SlotInv'
    <3>1. \A u \in Turns : pc'[u] = pc[u] /\ loc'[u] = loc[u]
      BY <2>3
    <3>2. \A u \in Turns : pc[u] \in Fin =>
              turnState'[loc[u].slot].pending \subseteq turnState[loc[u].slot].pending
      BY <1>c, <2>9
    <3>3. pc'[Loop] # "install"
      BY <2>3
    <3> QED  BY <1>0, <2>1, <3>1, <3>2, <3>3, SlotQuiet DEF KeepInv
  <2>11. \A s \in HeldSlots \ {s0} : s \in HeldSlots'
    BY <2>1, <2>3 DEF HeldSlots
  <2>12. \A i \in turnState[s0].pending : Safe(i)'
    BY <2>1 DEF Safe
  <2>13. \A s \in HeldSlots : \A i \in turnState[s].pending :
               (s \in HeldSlots' /\ i \in turnState'[s].pending) \/ Safe(i)'
    BY <1>b, <2>9, <2>11, <2>12
  <2>14. \A i \in sent' : Safe(i)'
    BY <2>1, <2>3, <2>4, <2>13, SafeStep DEF KeepInv
  <2> QED  BY <2>8, <2>10, <2>14 DEF KeepInv
<1> QED  BY <1>1, <1>2, <1>3, <1>4 DEF AbortStep

\* start_task carries what was queued into the new turn.
LEMMA LoopStartKeep ==
    ASSUME TurnInv, SubInv, KeepInv, SubmittedOnly, StartStep(Loop)
    PROVE  KeepInv'
<1> USE ProcKinds DEF queues, tasks, events, fates
<1>0. TypeOK /\ ReturnsKnown /\ StartsFreshTurn
  BY DEF TurnInv, ProcInv
<1>a. /\ pc \in [Procs -> PCs] /\ loc \in [Procs -> Locals] /\ loc[Loop] \in Locals
      /\ turnState \in [Slots -> TurnStates]
  BY <1>0 DEF TypeOK
<1>b. HeldSlots \subseteq Slots
  BY DEF HeldSlots
<1>c. /\ \A u \in Turns : pc[u] \in Fin => loc[u].slot \in Slots
      /\ used.slots \in Nat
  BY <1>0, FinSlots DEF KeepInv
<1>1. CASE Collect(Loop)
  <2>1. /\ UNCHANGED <<active, cancelled, input, recorded, refused, discarded, sent, used>>
        /\ pc[Loop] = "collect" /\ pc' = [pc EXCEPT ![Loop] = "attach"]
        /\ loc' = [loc EXCEPT ![Loop].carried = GetPendingInput] /\ TakePendingInput
    BY <1>1 DEF Collect, Goto
  <2>2. pc'[Loop] = "attach" /\ \A q \in Procs \ {Loop} : pc'[q] = pc[q] /\ loc'[q] = loc[q]
    BY <1>a, <2>1
  <2>3. HeldSlots \subseteq HeldSlots'
    BY <2>1, <2>2, HeldQuiet
  <2>4. loc[Loop].carried = {}
    BY <2>1 DEF KeepInv, LocalInv, EmptyHands
  <2>5. /\ \A i \in sent' : Safe(i)'
        /\ \A s \in Slots : turnState'[s].pending \subseteq turnState[s].pending
    BY <1>0, <2>1, <2>3, <2>4, GatherSafe DEF KeepInv
  <2>6. LocalInv'
    BY <1>0, <2>1, <2>2, LocalsMove DEF KeepInv, Starting
  <2>7. SlotInv'
    BY <1>0, <1>c, <2>1, <2>2, <2>5, SlotQuiet DEF KeepInv
  <2> QED  BY <2>5, <2>6, <2>7 DEF KeepInv
<1>2. CASE Attach(Loop)
  <2> DEFINE s0 == used.slots + 1
  <2>1. /\ UNCHANGED <<mailbox, cancelled, input, recorded, refused, discarded, sent>>
        /\ pc[Loop] = "attach" /\ pc' = [pc EXCEPT ![Loop] = "install"]
        /\ loc' = [loc EXCEPT ![Loop].carried = {}]
    BY <1>2 DEF Attach, Goto
  <2>2. active = NoTurn /\ ~active.some
    BY <2>1 DEF SubInv, Taken, NoTurn
  <2>3. /\ used.slots < MaxSlots /\ active' = [some |-> TRUE, task |-> None, slot |-> s0]
        /\ used' = [used EXCEPT !.slots = @ + 1]
        /\ turnState' = [turnState EXCEPT ![s0].pending = @ \cup loc[Loop].carried]
    BY <1>2, <2>2 DEF Attach, GetOrInsertActive, ActiveOrNew, Extend
  <2>4. used'.slots = s0 /\ s0 \in Slots
    BY <1>0, <2>3, UsageType DEF TypeOK, Usage
  <2>5. /\ turnState'[s0].pending = turnState[s0].pending \cup loc[Loop].carried
        /\ \A s \in Slots \ {s0} : turnState'[s] = turnState[s]
    BY <1>a, <2>3, <2>4 DEF TurnStates
  <2>6. /\ pc'[Loop] = "install" /\ \A q \in Procs \ {Loop} : pc'[q] = pc[q] /\ loc'[q] = loc[q]
    BY <1>a, <2>1
  <2>7. loc'[Loop].carried = {} /\ loc'[Loop].input = loc[Loop].input
    BY <1>a, <2>1 DEF Locals
  <2>8. LocalInv'
    BY <1>0, <2>1, <2>6, <2>7, LocalsMove DEF KeepInv, Starting
  <2>9. SlotInv'
    <3>1. ASSUME NEW u \in Turns, pc'[u] \in Fin
          PROVE  /\ loc'[u].slot \in 1 .. used'.slots /\ loc'[u].slot # s0
                 /\ pc'[u] # "finPending" => turnState'[loc'[u].slot].pending = {}
      <4>1. pc[u] \in Fin /\ loc'[u] = loc[u] /\ pc'[u] = pc[u]
        BY <2>6, <3>1
      <4>2. loc[u].slot \in 1 .. used.slots /\ loc[u].slot \in Slots
        BY <1>c, <4>1 DEF KeepInv, SlotInv
      <4>3. loc[u].slot \in 1 .. s0 /\ loc[u].slot # s0
        BY <1>c, <4>2
      <4> QED  BY <2>4, <2>5, <4>1, <4>2, <4>3 DEF KeepInv, SlotInv
    <3>2. active'.slot \in 1 .. used'.slots
      BY <1>c, <2>3, <2>4
    <3> QED  BY <2>3, <2>6, <3>1, <3>2 DEF SlotInv
  <2>10. HeldSlots \cup {s0} \subseteq HeldSlots'
    <3>1. \A q \in Procs : pc[q] \in {"wait", "report", "finPending"} => pc'[q] = pc[q] /\ loc'[q] = loc[q]
      BY <2>1, <2>6
    <3>2. HeldSlots \subseteq HeldSlots'
      BY <2>2, <3>1 DEF HeldSlots
    <3>3. s0 \in HeldSlots'
      BY <2>3, <2>4 DEF HeldSlots
    <3> QED  BY <3>2, <3>3
  <2>11. \A s \in HeldSlots : turnState[s].pending \subseteq turnState'[s].pending
    BY <1>b, <2>5
  <2>12. \A i \in loc[Loop].carried : Safe(i)'
    BY <2>5, <2>10 DEF Safe
  <2>13. \A i \in sent' : Safe(i)'
    BY <2>1, <2>6, <2>7, <2>10, <2>11, <2>12, SafeStep DEF KeepInv
  <2> QED  BY <2>8, <2>9, <2>13 DEF KeepInv
<1>3. CASE Install(Loop)
  <2> DEFINE new == loc[Loop].turn
  <2>1. new \in Turns /\ new \in Procs /\ pc[new] = "off" /\ pc[Loop] = "install"
    BY <1>0, <1>3, NumberedTurns DEF Install, StartsFreshTurn, Starting
  <2>2. active.task = None /\ active.some /\ ActiveOrNew = active
    BY <2>1 DEF SubInv, Taken, KeepInv, SlotInv, ActiveOrNew
  <2>3. /\ UNCHANGED <<turnState, mailbox, cancelled, recorded, refused, discarded, sent>>
        /\ loc[Loop].ret \in Returns /\ active' = [active EXCEPT !.task = new]
        /\ pc' = [pc EXCEPT ![Loop] = loc[Loop].ret, ![None] = @, ![new] = "begin"]
        /\ loc' = [loc EXCEPT ![Loop] = NoLocals]
        /\ input' = [input EXCEPT ![new] = loc[Loop].input]
    BY <1>0, <1>3, <2>2 DEF Install, ReturnsKnown
  <2>4. used'.slots = used.slots
    BY <1>0, <1>3, <2>2 DEF Install, GetOrInsertActive, TypeOK, Usage
  <2>5. active'.task = new /\ active'.some /\ active'.slot = active.slot
    BY <1>0, <2>2, <2>3 DEF TypeOK, ActiveTurns, NoTurn
  <2>6. pc'[Loop] \in Returns /\ pc'[new] = "begin" /\ \A q \in Procs \ {Loop, new} : pc'[q] = pc[q]
    <3>1. Loop = None
      BY DEF Loop, None
    <3> QED  BY <1>a, <2>1, <2>3, <3>1
  <2>7. /\ loc'[Loop] = NoLocals /\ \A q \in Procs \ {Loop} : loc'[q] = loc[q]
        /\ input'[new] = loc[Loop].input /\ \A t \in Turns \ {new} : input'[t] = input[t]
    BY <1>0, <1>a, <2>1, <2>3 DEF TypeOK
  <2>8. input[new] = {} /\ loc[Loop].carried = {}
    BY <2>1 DEF KeepInv, LocalInv, EmptyHands
  <2>9. LocalInv'
    <3>1. DeadCancelled'
      BY <2>1, <2>3, <2>6 DEF KeepInv, LocalInv, DeadCancelled, Returns
    <3>2. \A p \in Procs : pc'[p] \notin {"attach", "recordPending", "dead"} => loc'[p].carried = {}
      BY <2>1, <2>6, <2>7 DEF KeepInv, LocalInv, EmptyHands, NoLocals
    <3>3. \A t \in Turns : pc'[t] = "off" => input'[t] = {}
      BY <2>1, <2>6, <2>7 DEF KeepInv, LocalInv, EmptyHands
    <3>4. loc'[Loop].input = {}
      BY <2>7 DEF NoLocals
    <3> QED  BY <3>1, <3>2, <3>3, <3>4 DEF LocalInv, EmptyHands
  <2>10. SlotInv'
    <3>1. \A u \in Turns : pc'[u] \in Fin => pc[u] \in Fin /\ pc'[u] = pc[u] /\ loc'[u] = loc[u]
      BY <2>1, <2>6, <2>7 DEF Fin
    <3>2. \A u \in Turns : pc'[u] \in Fin => active.slot # loc[u].slot
      BY <2>1, <2>2, <3>1 DEF KeepInv, SlotInv
    <3>3. pc'[Loop] # "install"
      BY <2>6 DEF Returns
    <3>4. active'.slot \in 1 .. used'.slots /\ active'.task # None
      BY <2>1, <2>2, <2>4, <2>5 DEF KeepInv, SlotInv
    <3>5. \A u \in Turns : pc'[u] \in Fin =>
             /\ loc'[u].slot \in 1 .. used'.slots /\ active'.slot # loc'[u].slot
             /\ pc'[u] # "finPending" => turnState'[loc'[u].slot].pending = {}
      BY <2>3, <2>4, <2>5, <3>1, <3>2 DEF KeepInv, SlotInv
    <3> QED  BY <3>3, <3>4, <3>5 DEF SlotInv
  <2>11. HeldSlots \subseteq HeldSlots'
    <3>1. \A q \in Procs : pc[q] \in {"wait", "report", "finPending"} => pc'[q] = pc[q] /\ loc'[q] = loc[q]
      BY <2>1, <2>6, <2>7
    <3> QED  BY <2>2, <2>5, <3>1 DEF HeldSlots
  <2>12. \A i \in loc[Loop].input : Safe(i)'
    BY <2>1, <2>7 DEF Safe
  <2>13. \A i \in sent' : Safe(i)'
    BY <2>3, <2>7, <2>8, <2>11, <2>12, SafeStep DEF KeepInv
  <2> QED  BY <2>9, <2>10, <2>13 DEF KeepInv
<1>4. CASE CheckMail(Loop) \/ Reserve(Loop) \/ ReserveTooLate(Loop)
  <2>1. CheckMail(Loop) /\ ~HasTriggerMail
    BY <1>4 DEF SubInv, OnlyLoop, Reserve, ReserveTooLate, SubmittedOnly, HasTriggerMail
  <2>2. /\ UNCHANGED <<active, turnState, mailbox, cancelled, input, recorded, refused, discarded,
                       sent, used>>
        /\ pc[Loop] = "checkMail" /\ loc' = [loc EXCEPT ![Loop] = NoLocals]
        /\ loc[Loop].ret \in Returns /\ pc' = [pc EXCEPT ![Loop] = loc[Loop].ret]
    BY <1>0, <2>1 DEF CheckMail, Return, Goto, ReturnsKnown
  <2>3. /\ pc'[Loop] \in Returns /\ loc'[Loop].carried = {} /\ loc'[Loop].input = {}
        /\ \A q \in Procs \ {Loop} : pc'[q] = pc[q] /\ loc'[q] = loc[q]
    BY <1>a, <2>2 DEF NoLocals
  <2>4. loc[Loop].carried = {} /\ loc[Loop].input = {}
    BY <2>2 DEF KeepInv, LocalInv, EmptyHands, Starting
  <2>5. LocalInv'
    BY <1>0, <2>2, <2>3, LocalsMove DEF KeepInv, Returns
  <2>6. SlotInv'
    BY <1>0, <2>2, <2>3, SlotQuiet DEF KeepInv, Returns
  <2>7. HeldSlots \subseteq HeldSlots'
    BY <2>2, <2>3, HeldQuiet
  <2>8. \A i \in sent' : Safe(i)'
    BY <2>2, <2>3, <2>4, <2>7, SafeStep DEF KeepInv
  <2> QED  BY <2>5, <2>6, <2>8 DEF KeepInv
<1> QED  BY <1>1, <1>2, <1>3, <1>4 DEF StartStep

\* Every other process looks for mail and goals and finds none.
LEMMA OtherStartKeep ==
    ASSUME TurnInv, SubInv, KeepInv, SubmittedOnly, NEW p \in Procs \ {Loop}, StartStep(p) \/ GoalStep(p)
    PROVE  KeepInv'
<1> USE ProcKinds DEF queues, tasks, events, fates
<1>0. TypeOK /\ ReturnsKnown
  BY DEF TurnInv, ProcInv
<1>1. pc[p] \notin GoalPcs \cup LoopPcs \cup {"reserve"}
  BY DEF SubInv, OnlyLoop
<1>2. CheckMail(p) \/ GoalNoCandidate(p)
  BY <1>1 DEF StartStep, GoalStep, Collect, Attach, Install, Reserve, ReserveTooLate, GoalCheck,
              GoalReserve, GoalGiveUp, GoalReread, GoalConfirm, GoalPcs, LoopPcs, SubmittedOnly
<1>3. /\ UNCHANGED <<active, turnState, mailbox, cancelled, input, recorded, refused, discarded, sent,
                     used>>
      /\ pc[p] \in {"checkMail", "goalCheck"}
  BY <1>2 DEF CheckMail, GoalNoCandidate
<1>4. PICK l \in Returns : Return(p, l)
  BY <1>0, <1>2 DEF CheckMail, GoalNoCandidate, SubmittedOnly, HasTriggerMail, ReturnsKnown, Returns,
                    AfterGoal
<1>5. /\ pc' = [pc EXCEPT ![p] = l]
      /\ \A q \in Procs \ {p} : loc'[q] = loc[q]
      /\ loc'[p].carried = {}
  BY <1>0, <1>4 DEF Return, Goto, TypeOK, NoLocals
<1> QED  BY <1>0, <1>3, <1>5, QuietMove DEF Returns, Fin

\* What a client hands over is queued in a turn that will look at it, refused,
\* or kept by the loop for the turn it starts.
LEMMA EnvironmentKeep ==
    ASSUME TypeOK, SubInv, KeepInv, SubmittedOnly, InjectedItems = {}, Environment
    PROVE  KeepInv'
<1> USE ProcKinds DEF queues, tasks, events, fates
<1>a. /\ pc \in [Procs -> PCs] /\ loc \in [Procs -> Locals] /\ loc[Loop] \in Locals
      /\ turnState \in [Slots -> TurnStates] /\ used \in Usage
  BY DEF TypeOK
<1>b. HeldSlots \subseteq Slots
  BY DEF HeldSlots
<1>c. \A u \in Turns : pc[u] \in Fin => loc[u].slot \in Slots
  BY FinSlots DEF KeepInv
<1>1. ASSUME NEW u \in UserItems, UserInputSteered(u) \/ (ClientSteer(u) /\ CanSteer)
      PROVE  KeepInv'
  <2>1. /\ UNCHANGED <<active, mailbox, pc, loc, cancelled, input, recorded, refused, discarded, used>>
        /\ CanSteer /\ Steer(u) /\ sent' = sent \cup {u}
    BY <1>1 DEF UserInputSteered, ClientSteer
  <2>2. active.task # None /\ active.some /\ active.slot \in Slots
    BY <2>1, ActiveType DEF CanSteer
  <2>3. /\ turnState'[active.slot].pending = turnState[active.slot].pending \cup {u}
        /\ \A s \in Slots \ {active.slot} : turnState'[s] = turnState[s]
    BY <1>a, <2>1, <2>2 DEF Steer, TurnStates
  <2>4. LocalInv'
    BY <2>1 DEF KeepInv, LocalInv, DeadCancelled, EmptyHands, Starting
  <2>5. SlotInv'
    <3>1. \A t \in Turns : pc[t] \in Fin => turnState'[loc[t].slot] = turnState[loc[t].slot]
      BY <1>c, <2>2, <2>3 DEF KeepInv, SlotInv
    <3> QED  BY <2>1, <3>1, SlotQuiet DEF KeepInv
  <2>6. HeldSlots' = HeldSlots /\ active.slot \in HeldSlots
    BY <2>1, <2>2 DEF HeldSlots
  <2>7. Safe(u)'
    BY <2>3, <2>6 DEF Safe
  <2>8. \A s \in HeldSlots : turnState[s].pending \subseteq turnState'[s].pending
    BY <1>b, <2>3
  <2>9. \A i \in sent' : Safe(i)'
    BY <2>1, <2>6, <2>7, <2>8, SafeStep DEF KeepInv
  <2> QED  BY <2>4, <2>5, <2>9 DEF KeepInv
<1>2. CASE \/ \E u \in UserItems : UserInputRefused(u) \/ (ClientSteer(u) /\ ~CanSteer)
           \/ \E m \in Mails : Mail(m)
  <2>1. /\ UNCHANGED <<active, turnState, pc, loc, cancelled, input, recorded, discarded, used>>
        /\ mailbox \subseteq mailbox' /\ refused \subseteq refused'
        /\ \A i \in sent' \ sent : i \in mailbox' \cup refused'
    BY <1>2 DEF UserInputRefused, ClientSteer, Mail, SubmittedOnly
  <2>2. LocalInv'
    BY <2>1 DEF KeepInv, LocalInv, DeadCancelled, EmptyHands, Starting
  <2>3. SlotInv'
    BY <2>1, SlotQuiet DEF KeepInv
  <2>4. HeldSlots' = HeldSlots
    BY <2>1 DEF HeldSlots
  <2>5. \A i \in sent' \ sent : Safe(i)'
    BY <2>1 DEF Safe
  <2>6. \A i \in sent' : Safe(i)'
    BY <2>1, <2>4, <2>5, SafeStep DEF KeepInv
  <2> QED  BY <2>2, <2>3, <2>6 DEF KeepInv
<1>3. CASE \/ \E u \in UserItems : UserInputSpawn(u)
           \/ \E k \in {"shell", "other"} : OtherTask(k)
           \/ Interrupt \/ Shutdown
  <2>1. /\ UNCHANGED <<active, turnState, mailbox, cancelled, input, recorded, refused, discarded>>
        /\ pc[Loop] = "idle" /\ pc' = [pc EXCEPT ![Loop] = "abort"]
    BY <1>3 DEF UserInputSpawn, OtherTask, Interrupt, Shutdown, SpawnTask, StopWith, LoopIdle, Goto
  <2>2. used'.slots = used.slots
    BY <1>a, <1>3 DEF UserInputSpawn, OtherTask, Interrupt, Shutdown, Usage
  <2>3. pc'[Loop] = "abort" /\ \A q \in Procs \ {Loop} : pc'[q] = pc[q]
    BY <1>a, <2>1
  <2>4. \A q \in Procs \ {Loop} : loc'[q] = loc[q]
    BY <1>a, <1>3 DEF UserInputSpawn, OtherTask, Interrupt, Shutdown, SpawnTask, StopWith
  <2>5. loc[Loop].carried = {} /\ loc[Loop].input = {}
    BY <2>1 DEF KeepInv, LocalInv, EmptyHands, Starting
  <2>6. loc'[Loop].carried = {}
    <3>1. CASE Interrupt \/ Shutdown
      BY <1>a, <2>5, <3>1 DEF Interrupt, Shutdown, StopWith, Locals
    <3>2. CASE \E k \in {"shell", "other"} : OtherTask(k)
      BY <1>a, <3>2 DEF OtherTask, SpawnTask, NoLocals
    <3>3. CASE \E u \in UserItems : UserInputSpawn(u)
      BY <1>a, <3>3 DEF UserInputSpawn, SpawnTask, NoLocals
    <3> QED  BY <1>3, <3>1, <3>2, <3>3
  <2>7. \/ ~loc'[Loop].interrupt /\ sent' \ sent \subseteq loc'[Loop].input
        \/ loc'[Loop].input = {} /\ sent' = sent
    <3>1. CASE Interrupt \/ Shutdown
      BY <1>a, <2>5, <3>1 DEF Interrupt, Shutdown, StopWith, Locals
    <3>2. CASE \E k \in {"shell", "other"} : OtherTask(k)
      BY <1>a, <3>2 DEF OtherTask, SpawnTask, NoLocals
    <3>3. CASE \E u \in UserItems : UserInputSpawn(u)
      BY <1>a, <3>3 DEF UserInputSpawn, SpawnTask, NoLocals
    <3> QED  BY <1>3, <3>1, <3>2, <3>3
  <2>8. Starting(Loop)' \/ loc'[Loop].input = {}
    BY <2>3, <2>7 DEF Starting
  <2>9. LocalInv'
    BY <2>1, <2>4, <2>6, <2>8, LocalsMove DEF KeepInv
  <2>10. SlotInv'
    BY <2>1, <2>2, <2>3, <2>4, SlotQuiet DEF KeepInv
  <2>11. HeldSlots \subseteq HeldSlots'
    BY <2>1, <2>3, <2>4, HeldQuiet
  <2>12. \A i \in sent' \ sent : Safe(i)'
    BY <2>7 DEF Safe
  <2>13. \A i \in sent' : Safe(i)'
    BY <2>1, <2>4, <2>5, <2>11, <2>12, SafeStep DEF KeepInv
  <2> QED  BY <2>9, <2>10, <2>13 DEF KeepInv
<1>4. CASE \E t \in Turns : GuardianDenial(t)
  <2>1. used.denials \in 0 .. 0 /\ used.denials < 0
    BY <1>4 DEF GuardianDenial, SubmittedOnly, TypeOK, Usage
  <2> QED  BY <2>1
<1>5. CASE ContinueGoal
  <2>1. /\ UNCHANGED <<active, turnState, mailbox, cancelled, input, recorded, refused, discarded, sent>>
        /\ pc[Api] = "idle" /\ pc' = [pc EXCEPT ![Api] = "checkMail"]
    BY <1>5 DEF ContinueGoal, Goto
  <2>2. used'.slots = used.slots
    BY <1>a, <1>5 DEF ContinueGoal, Usage
  <2>3. Api \in Procs \ {Loop}
    BY BoundsAssumption DEF Api, Loop
  <2>4. \A q \in Procs \ {Api} : loc'[q] = loc[q]
    BY <1>a, <1>5 DEF ContinueGoal
  <2>5. loc'[Api].carried = {}
    BY <1>a, <1>5, <2>1, <2>3 DEF ContinueGoal, Locals, KeepInv, LocalInv, EmptyHands
  <2> QED  BY <2>1, <2>2, <2>3, <2>4, <2>5, QuietMove DEF Fin
<1> QED  BY <1>1, <1>2, <1>3, <1>4, <1>5 DEF Environment

\* Every step keeps the items safe.
LEMMA NextKeep ==
    ASSUME TurnInv, SubInv, KeepInv, SubmittedOnly, InjectedItems = {}, [Next]_vars
    PROVE  KeepInv'
<1> USE ProcKinds
<1>0. TypeOK
  BY DEF TurnInv
<1>1. CASE UNCHANGED vars \/ Waiting
  <2>1. UNCHANGED vars
    BY <1>1 DEF Waiting
  <2>2. LocalInv'
    BY <2>1 DEF vars, KeepInv, LocalInv, DeadCancelled, EmptyHands, Starting
  <2>3. SlotInv'
    BY <2>1 DEF vars, KeepInv, SlotInv
  <2>4. \A i \in sent' : Safe(i)'
    BY <2>1 DEF vars, KeepInv, Safe, HeldSlots
  <2> QED  BY <2>2, <2>3, <2>4 DEF KeepInv
<1>2. CASE Environment
  BY <1>0, <1>2, EnvironmentKeep
<1>3. CASE LoopStep
  BY <1>3, LoopAbortKeep, LoopStartKeep DEF LoopStep
<1>4. CASE GuardianStep
  <2>1. StartStep(Guardian)
    BY <1>4 DEF GuardianStep, GuardianAbort, GuardianTooLate, AbortStep, AbortKill, AbortReport,
                SubInv, OnlyLoop, LoopPcs
  <2> QED  BY <2>1, OtherStartKeep
<1>5. CASE ApiStep
  <2>1. Api \in Procs \ {Loop}
    BY BoundsAssumption DEF Api, Loop
  <2> QED  BY <1>5, <2>1, OtherStartKeep DEF ApiStep
<1>6. ASSUME NEW t \in Turns, TaskStep(t) PROVE KeepInv'
  <2>1. t \in Procs \ {Loop}
    OBVIOUS
  <2> QED  BY <1>0, <1>6, <2>1, TaskQuietKeep, TaskRecordKeep, TaskDrainKeep, TaskFinKeep, OtherStartKeep
           DEF TaskStep
<1> QED  BY <1>1, <1>2, <1>3, <1>4, <1>5, <1>6 DEF Next

\* Nothing has been sent at the start.
LEMMA InitKeep == Init => KeepInv
<1> SUFFICES ASSUME Init PROVE KeepInv
  OBVIOUS
<1>1. \A p \in Procs : pc[p] \in {"off", "idle"} /\ loc[p] = NoLocals
  BY DEF Init
<1>2. LocalInv
  BY <1>1, ProcKinds DEF Init, LocalInv, DeadCancelled, EmptyHands, NoLocals
<1>3. SlotInv
  BY <1>1, ProcKinds DEF Init, SlotInv, NoTurn, Fin
<1> QED  BY <1>2, <1>3 DEF Init, KeepInv

\* In a session in which only submitted operations start turns and nothing is
\* injected, every prompt and mail ends in the history, in an error the client
\* sees, or in a turn reported as aborted; until then some queue or task has it,
\* however steering, replacement, interrupts and the end of a turn interleave.
THEOREM SubmittedInputIsKept ==
    ASSUME SubmittedOnly, InjectedItems = {} PROVE Spec => []NothingLost
<1>1. TurnInv /\ SubInv /\ KeepInv /\ [Next]_vars => (TurnInv /\ SubInv /\ KeepInv)'
  BY NextInv, NextSub, NextKeep
<1>2. TurnInv /\ SubInv /\ KeepInv => NothingLost
  BY SafeIsKept DEF TurnInv
<1> QED  BY <1>1, <1>2, InitInv, InitSub, InitKeep, PTL DEF Spec

-----------------------------------------------------------------------------
(* The mailbox of such a session.                                           *)

\* The registered turn runs on the TurnState it was installed with; the turn
\* whose end the loop waits for is cancelled.
MailInv ==
    /\ active.task # None => home[active.task] = active.slot
    /\ pc[Loop] = "wait" => loc[Loop].victim \in cancelled

\* Steps that install no turn and begin no abort.
LEMMA MailFrame ==
    ASSUME MailInv, active' = active \/ active'.task = None, home' = home,
           cancelled \subseteq cancelled',
           pc'[Loop] = "wait" => pc[Loop] = "wait" /\ loc'[Loop] = loc[Loop]
    PROVE  MailInv'
BY DEF MailInv

\* A turn's own task.
LEMMA TaskMail ==
    ASSUME TypeOK, MailInv, NEW t \in Turns,
           \/ Begin(t) \/ Work(t) \/ Record(t) \/ RunTurnStopped(t)
           \/ Drain(t) \/ RecordPending(t) \/ SampleTool(t) \/ SampleError(t)
           \/ \E follow \in BOOLEAN : SampleAnswer(t, follow)
           \/ CheckFollowUp(t) \/ CheckDone(t) \/ Recheck(t) \/ Flush(t)
           \/ FinTake(t) \/ FinTakeNothing(t) \/ FinPending(t) \/ FinComplete(t)
           \/ FinClear(t) \/ FinNotCleared(t) \/ IdleEmit(t)
    PROVE  MailInv'
<1> USE ProcKinds DEF queues, tasks, events, fates
<1>0. t # Loop /\ pc \in [Procs -> PCs] /\ loc \in [Procs -> Locals] /\ active \in ActiveTurns
  BY DEF TypeOK
<1>1. CASE Begin(t) \/ Work(t) \/ Record(t) \/ RunTurnStopped(t) \/ SampleError(t)
           \/ CheckDone(t) \/ Recheck(t) \/ Flush(t) \/ FinPending(t) \/ FinComplete(t)
  <2>1. /\ UNCHANGED <<active, home, cancelled, loc>> /\ pc'[Loop] = pc[Loop]
    BY <1>0, <1>1 DEF Begin, Work, Record, RunTurnStopped, SampleError, CheckDone, Recheck, Flush,
                      FinPending, FinComplete, Goto
  <2> QED  BY <2>1, MailFrame
<1>2. CASE Drain(t) \/ RecordPending(t) \/ SampleTool(t) \/ CheckFollowUp(t)
           \/ \E follow \in BOOLEAN : SampleAnswer(t, follow)
  <2>1. UNCHANGED <<active, home, cancelled>> /\ pc'[Loop] = pc[Loop] /\ loc'[Loop] = loc[Loop]
    BY <1>0, <1>2 DEF Drain, RecordPending, SampleTool, CheckFollowUp, SampleAnswer, Goto
  <2> QED  BY <2>1, MailFrame
<1>3. CASE FinTake(t) \/ FinTakeNothing(t) \/ FinClear(t) \/ FinNotCleared(t) \/ IdleEmit(t)
  <2>1. UNCHANGED <<home, cancelled>> /\ pc'[Loop] = pc[Loop] /\ loc'[Loop] = loc[Loop]
    BY <1>0, <1>3 DEF FinTake, FinTakeNothing, FinClear, FinNotCleared, IdleEmit, Return, Goto
  <2>2. active' = active \/ active'.task = None
    <3>1. CASE FinTake(t)
      BY <1>0, <3>1 DEF FinTake, NoTurn, ActiveTurns
    <3>2. CASE FinTakeNothing(t) \/ FinClear(t) \/ FinNotCleared(t) \/ IdleEmit(t)
      BY <3>2 DEF FinTakeNothing, FinClear, FinNotCleared, IdleEmit, NoTurn
    <3> QED  BY <1>3, <3>1, <3>2
  <2> QED  BY <2>1, <2>2, MailFrame
<1> QED  BY <1>1, <1>2, <1>3

\* The submission loop: Install ties the turn to its TurnState.
LEMMA LoopMail ==
    ASSUME TurnInv, SubInv, SubmittedOnly, MailInv, LoopStep
    PROVE  MailInv'
<1> USE ProcKinds DEF queues, tasks, events, fates
<1>0. TypeOK /\ ReturnsKnown /\ StartsFreshTurn /\ VictimKnown
  BY DEF TurnInv, ProcInv
<1>a. pc \in [Procs -> PCs] /\ loc \in [Procs -> Locals] /\ loc[Loop] \in Locals
  BY <1>0 DEF TypeOK
<1>1. CASE AbortAll(Loop)
  <2>1. /\ pc[Loop] = "abort" /\ active' = NoTurn /\ active.task \in cancelled' /\ home' = home
        /\ loc' = [loc EXCEPT ![Loop].victim = active.task, ![Loop].slot = active.slot]
    BY <1>1 DEF AbortAll, TakeTask
  <2>2. loc'[Loop].victim = active.task
    BY <1>a, <2>1 DEF Locals
  <2> QED  BY <2>1, <2>2 DEF MailInv, NoTurn
<1>2. CASE AbortAllNoTask(Loop) \/ AbortStep(Loop)
  <2>1. /\ UNCHANGED <<home, cancelled>>
        /\ active' = active \/ active' = NoTurn
        /\ pc[Loop] \in {"abort", "wait", "report"}
    BY <1>2 DEF AbortAllNoTask, AbortStep, AbortKill, AbortReport
  <2>2. pc'[Loop] # "wait"
    <3>1. CASE AbortAllNoTask(Loop)
      BY <1>0, <1>a, <3>1 DEF AbortAllNoTask, AfterAbort, Return, Goto, ReturnsKnown, Returns
    <3>2. CASE AbortKill(Loop)
      <4>1. loc[Loop].victim \in Turns
        BY <1>0, <3>2 DEF AbortKill, VictimKnown
      <4> QED  BY <1>a, <3>2, <4>1 DEF AbortKill
    <3>3. CASE AbortReport(Loop)
      BY <1>0, <1>a, <3>3 DEF AbortReport, AfterAbort, Goto, ReturnsKnown, Returns
    <3> QED  BY <1>2, <3>1, <3>2, <3>3 DEF AbortStep
  <2>3. active' = active \/ active'.task = None
    BY <2>1 DEF NoTurn
  <2> QED  BY <2>1, <2>2, <2>3, MailFrame
<1>3. CASE Install(Loop)
  <2> DEFINE new == loc[Loop].turn
  <2>1. new \in Turns /\ new \in Procs /\ new # Loop /\ pc[Loop] = "install"
    BY <1>0, <1>3, NumberedTurns DEF Install, StartsFreshTurn, Starting
  <2>2. active.task = None /\ ActiveOrNew.task = None
    BY <2>1 DEF SubInv, Taken, ActiveOrNew
  <2>3. /\ active' = [ActiveOrNew EXCEPT !.task = new] /\ loc[Loop].ret \in Returns
        /\ home' = [home EXCEPT ![new] = ActiveOrNew.slot]
        /\ pc' = [pc EXCEPT ![Loop] = loc[Loop].ret, ![None] = @, ![new] = "begin"]
    BY <1>0, <1>3, <2>2 DEF Install, ReturnsKnown
  <2>4. ActiveOrNew \in [some : {TRUE}, task : Turns \cup {None}, slot : Slots]
    BY <1>0, <1>3, NewActiveType DEF Install, GetOrInsertActive
  <2>5. active'.task = new /\ active'.slot = ActiveOrNew.slot
    BY <2>3, <2>4
  <2>6. home'[new] = ActiveOrNew.slot
    BY <1>0, <2>1, <2>3 DEF TypeOK
  <2>7. pc'[Loop] # "wait"
    <3>1. Loop = None
      BY DEF Loop, None
    <3> QED  BY <1>a, <2>1, <2>3, <3>1 DEF Returns
  <2> QED  BY <2>5, <2>6, <2>7 DEF MailInv
<1>4. CASE Collect(Loop) \/ Attach(Loop)
  <2>1. UNCHANGED <<home, cancelled>> /\ pc'[Loop] \in {"attach", "install"}
    BY <1>a, <1>4 DEF Collect, Attach, Goto
  <2>2. active' = active \/ active'.task = None
    BY <1>4 DEF Collect, Attach, ActiveOrNew
  <2> QED  BY <2>1, <2>2, MailFrame
<1>5. CASE CheckMail(Loop) \/ Reserve(Loop) \/ ReserveTooLate(Loop)
  <2>1. CheckMail(Loop) /\ ~HasTriggerMail
    BY <1>5 DEF SubInv, OnlyLoop, Reserve, ReserveTooLate, SubmittedOnly, HasTriggerMail
  <2>2. UNCHANGED <<active, home, cancelled>> /\ pc'[Loop] # "wait"
    BY <1>0, <1>a, <2>1 DEF CheckMail, Return, Goto, ReturnsKnown, Returns
  <2> QED  BY <2>2, MailFrame
<1> QED  BY <1>1, <1>2, <1>3, <1>4, <1>5 DEF LoopStep, StartStep

\* Every other process.
LEMMA OtherMail ==
    ASSUME TypeOK, SubInv, SubmittedOnly, MailInv, NEW p \in Procs \ {Loop}, StartStep(p) \/ GoalStep(p)
    PROVE  MailInv'
<1> USE ProcKinds DEF queues, tasks, events, fates
<1>1. pc[p] \notin GoalPcs \cup LoopPcs \cup {"reserve"}
  BY DEF SubInv, OnlyLoop
<1>2. CheckMail(p) \/ GoalNoCandidate(p)
  BY <1>1 DEF StartStep, GoalStep, Collect, Attach, Install, Reserve, ReserveTooLate, GoalCheck,
              GoalReserve, GoalGiveUp, GoalReread, GoalConfirm, GoalPcs, LoopPcs, SubmittedOnly
<1>3. UNCHANGED <<active, home, cancelled>> /\ pc'[Loop] = pc[Loop] /\ loc'[Loop] = loc[Loop]
  BY <1>2 DEF CheckMail, GoalNoCandidate, Return, Goto, TypeOK
<1> QED  BY <1>3, MailFrame

\* Operations as they come in.
LEMMA EnvironmentMail ==
    ASSUME TypeOK, SubmittedOnly, MailInv, Environment
    PROVE  MailInv'
<1> USE ProcKinds DEF queues, tasks, events, fates
<1>a. pc \in [Procs -> PCs] /\ loc \in [Procs -> Locals]
  BY DEF TypeOK
<1>1. CASE \/ \E u \in UserItems : UserInputSteered(u) \/ UserInputRefused(u) \/ ClientSteer(u)
           \/ \E i \in InjectedItems : Inject(i)
           \/ \E m \in Mails : Mail(m)
  <2>1. UNCHANGED <<active, pc, loc, home, cancelled>>
    BY <1>1 DEF UserInputSteered, UserInputRefused, ClientSteer, Inject, Mail, SubmittedOnly
  <2> QED  BY <2>1, MailFrame
<1>2. CASE \/ \E u \in UserItems : UserInputSpawn(u)
           \/ \E k \in {"shell", "other"} : OtherTask(k)
           \/ Interrupt \/ Shutdown
  <2>1. UNCHANGED <<active, home, cancelled>> /\ pc'[Loop] = "abort"
    BY <1>a, <1>2 DEF UserInputSpawn, OtherTask, Interrupt, Shutdown, SpawnTask, StopWith, Goto
  <2> QED  BY <2>1, MailFrame
<1>3. CASE \E t \in Turns : GuardianDenial(t)
  <2>1. used.denials \in 0 .. 0 /\ used.denials < 0
    BY <1>3 DEF GuardianDenial, SubmittedOnly, TypeOK, Usage
  <2> QED  BY <2>1
<1>4. CASE ContinueGoal
  <2>1. Api \in Procs \ {Loop}
    BY BoundsAssumption DEF Api, Loop
  <2>2. UNCHANGED <<active, home, cancelled>> /\ pc'[Loop] = pc[Loop] /\ loc'[Loop] = loc[Loop]
    BY <1>a, <1>4, <2>1 DEF ContinueGoal, Goto
  <2> QED  BY <2>2, MailFrame
<1> QED  BY <1>1, <1>2, <1>3, <1>4 DEF Environment

\* Every step keeps the invariant.
LEMMA NextMail ==
    ASSUME TurnInv, SubInv, SubmittedOnly, MailInv, [Next]_vars
    PROVE  MailInv'
<1> USE ProcKinds
<1>0. TypeOK
  BY DEF TurnInv
<1>1. CASE UNCHANGED vars \/ Waiting
  BY <1>1 DEF Waiting, vars, MailInv
<1>2. CASE Environment
  BY <1>0, <1>2, EnvironmentMail
<1>3. CASE LoopStep
  BY <1>3, LoopMail
<1>4. CASE GuardianStep
  <2>1. StartStep(Guardian)
    BY <1>4 DEF GuardianStep, GuardianAbort, GuardianTooLate, AbortStep, AbortKill, AbortReport,
                SubInv, OnlyLoop, LoopPcs
  <2> QED  BY <1>0, <2>1, OtherMail
<1>5. CASE ApiStep
  <2>1. Api \in Procs \ {Loop}
    BY BoundsAssumption DEF Api, Loop
  <2> QED  BY <1>0, <1>5, <2>1, OtherMail DEF ApiStep
<1>6. ASSUME NEW t \in Turns, TaskStep(t) PROVE MailInv'
  <2>1. t \in Procs \ {Loop}
    OBVIOUS
  <2> QED  BY <1>0, <1>6, <2>1, TaskMail, OtherMail DEF TaskStep
<1> QED  BY <1>1, <1>2, <1>3, <1>4, <1>5, <1>6 DEF Next

\* A turn that has shown its final answer leaves mail for the next turn (until a
\* prompt steers it or a tool call reopens it), also while operations interrupt
\* and replace turns: the task that drains is the registered one, and it looks at
\* its own TurnState's phase.
THEOREM DeferredMailWaits ==
    ASSUME SubmittedOnly PROVE Spec => MailWaitsForNextTurn
<1>1. Init => MailInv
  BY ProcKinds DEF Init, MailInv, NoTurn
<1>2. TurnInv /\ SubInv /\ MailInv /\ [Next]_vars => (TurnInv /\ SubInv /\ MailInv)'
  BY NextInv, NextSub, NextMail
<1>3. ASSUME TurnInv, SubInv, MailInv, NEW t \in Turns, Drain(t), home[t] # None, t \notin cancelled,
             turnState[home[t]].phase = "NextTurn"
      PROVE  mailbox' = mailbox
  <2>1. active.task = t
    BY <1>3 DEF SubInv, Registered, Drain, Working, MailInv
  <2>2. active.some /\ active.slot = home[t]
    BY <1>3, <2>1, ActiveType, ProcKinds DEF TurnInv, MailInv
  <2>3. ~AcceptsMail
    BY <1>3, <2>2 DEF AcceptsMail
  <2> QED  BY <1>3, <2>3 DEF Drain, TakePendingInput
<1>4. TurnInv /\ SubInv /\ MailInv =>
          [\A t \in Turns :
             /\ Drain(t) /\ home[t] # None /\ t \notin cancelled
             /\ turnState[home[t]].phase = "NextTurn"
             => mailbox' = mailbox]_vars
  BY <1>3
<1> QED  BY <1>1, <1>2, <1>4, InitInv, InitSub, PTL DEF Spec, MailWaitsForNextTurn
=============================================================================
