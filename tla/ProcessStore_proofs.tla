------------------------ MODULE ProcessStore_proofs ------------------------
(***************************************************************************)
(* The invariants of ProcessStore, proved for any commands and ids, any    *)
(* limit and any number of sweeps, writes and kills.                       *)
(***************************************************************************)
EXTENDS ProcessStore, FiniteSetTheorems, TLAPS

Pcs == InFlight \cup {"idle", "done", "killed", "detached"}
\* Where the call of a stored process can be.
Kept == {"cleaning", "yielding", "done", "killed", "detached"}

Types ==
    /\ pc \in [Commands -> Pcs]
    /\ id \in [Commands -> Ids \cup {"none"}]
    /\ proc \in [Commands -> {"none", "running", "dying", "exited"}]
    /\ watch \subseteq Commands /\ ends \in [Commands -> Nat]
    /\ reply \in [Commands -> Commands \cup {"none"}]
    /\ processes \in [Ids -> Commands \cup {"none"}] /\ reserved \subseteq Ids
    /\ used \in [Commands -> SUBSET Commands]
    /\ pruned \in [Commands -> Commands \cup {"none"}] /\ sweeping \subseteq Commands
    /\ unreserved \subseteq Commands /\ lost \subseteq Commands
    /\ writing = Idle \/ writing \in Ids \X Commands

\* What a call has at each of its program points.
PcInv ==
    /\ \A c \in Commands :
         /\ pc[c] # "idle" => id[c] \in Ids
         /\ pc[c] \in {"idle", "allocated"} => proc[c] = "none"
         /\ pc[c] \in {"idle", "allocated"} => reply[c] = "none"
         /\ pruned[c] # "none" => pc[c] = "cleaning"
    /\ \A c \in unreserved : pc[c] # "idle"

\* An entry is under the id its command drew.
EntryInv ==
    \A i \in Ids : processes[i] # "none" => id[processes[i]] = i /\ pc[processes[i]] \in Kept

\* A call under way and a stored process claim their id: they have it reserved
\* and to themselves, or it was lost.
Holds(c) == pc[c] \in InFlight \/ c \in Stored

ReservedInv == \A c \in Commands : Holds(c) => id[c] \in reserved \/ IdLost(c)

UniqueInv ==
    \A c, d \in Commands : (c # d /\ Holds(c) /\ Holds(d) /\ id[c] = id[d]) => IdLost(c)

\* used orders what is or will be stored.
Orders(u, S) ==
    /\ \A c \in S : c \notin u[c]
    /\ \A c, d \in S : c # d => (d \in u[c] <=> c \notin u[d])
    /\ \A c, d, e \in S : (d \in u[c] /\ e \in u[d]) => e \in u[c]

Ordered(S) == Orders(used, S)

OrderInv == Ordered(Stored \cup ToStore)

SizeInv == IsFiniteSet(Stored) /\ Cardinality(Stored) <= MaxProcesses

\* Only one of the call and its watcher ever sends the end event.
EndOnce(c) ==
    /\ ends[c] <= 1
    /\ c \in watch => ends[c] = 0
    /\ pc[c] \in {"idle", "allocated", "begun", "storing", "cleaning", "short", "killed"} =>
           c \notin watch /\ ends[c] = 0
    /\ pc[c] \in {"yielding", "detached"} => c \in watch \/ ends[c] = 1
    /\ pc[c] = "done" => proc[c] = "none" \/ c \in watch \/ ends[c] = 1

EndInv == \A c \in Commands : EndOnce(c)

\* While write_stdin is under way nothing else uses its id.
WriteInv ==
    writing # Idle => NoCommandInFlight /\ processes[writing[1]] \in {writing[2], "none"}

StoreInv == EntryInv /\ ReservedInv /\ UniqueInv /\ OrderInv /\ SizeInv

Inv == /\ Types /\ PcInv /\ StoreInv /\ EndInv /\ WriteInv
       /\ NoOrphanProcess /\ AnswerNamesOwnProcess
-----------------------------------------------------------------------------
(* The order of use, and what is pruned *)

\* A finite ordered set has a least recently used element.  Otherwise the
\* ranks of its elements would be too few for them.
LEMMA LeastExists ==
    ASSUME NEW S, IsFiniteSet(S), S # {}, Ordered(S)
    PROVE  \E c \in S : S \ {c} \subseteq used[c]
<1> SUFFICES ASSUME \A c \in S : ~(S \ {c} \subseteq used[c])
             PROVE  FALSE
  OBVIOUS
<1> DEFINE n == Cardinality(S)
           rank == [c \in S |-> Cardinality(used[c] \cap S)]
<1>1. n \in Nat /\ n # 0
  BY FS_CardinalityType, FS_EmptySet
<1>2. ASSUME NEW c \in S
      PROVE  /\ IsFiniteSet(used[c] \cap S) /\ Cardinality(used[c] \cap S) \in Nat
             /\ Cardinality(used[c] \cap S) < n - 1
  <2>1. used[c] \cap S \in SUBSET (S \ {c}) /\ used[c] \cap S # S \ {c}
    BY DEF Ordered, Orders
  <2>2. IsFiniteSet(S \ {c}) /\ Cardinality(S \ {c}) = n - 1
    BY FS_RemoveElement
  <2>3. /\ IsFiniteSet(used[c] \cap S) /\ Cardinality(used[c] \cap S) <= n - 1
        /\ Cardinality(used[c] \cap S) # n - 1
    BY <2>1, <2>2, FS_Subset
  <2> QED  BY <1>1, <2>3, FS_CardinalityType
<1>3. PICK m \in Int : m = n - 2
  BY <1>1
<1>4. IsFiniteSet(0 .. m) /\ Cardinality(0 .. m) < n
  <2>1. IsFiniteSet(0 .. m) /\ Cardinality(0 .. m) = IF 0 > m THEN 0 ELSE m - 0 + 1
    BY FS_Interval
  <2> HIDE DEF n
  <2> QED  BY <1>1, <1>3, <2>1
<1>5. PICK x, y \in S : x # y /\ rank[x] = rank[y]
  <2>1. ASSUME NEW c \in S
        PROVE  Cardinality(used[c] \cap S) \in 0 .. m
    <3>1. Cardinality(used[c] \cap S) \in Nat /\ Cardinality(used[c] \cap S) < n - 1
      BY <1>2
    <3> HIDE DEF n
    <3> QED  BY <1>1, <1>3, <3>1
  <2>2. rank \in [S -> 0 .. m]
    BY <2>1
  <2> HIDE DEF rank
  <2> QED  BY <1>4, <2>2, FS_PigeonHole
<1>6. ASSUME NEW c \in S, NEW d \in S, d \in used[c]
      PROVE  rank[c] # rank[d]
  <2>1. used[d] \cap S \in SUBSET (used[c] \cap S) /\ d \notin used[d]
    BY <1>6 DEF Ordered, Orders
  <2>2. used[d] \cap S # used[c] \cap S
    BY <1>6, <2>1
  <2> QED  BY <1>2, <2>1, <2>2, FS_Subset
<1> QED  BY <1>5, <1>6 DEF Ordered, Orders

\* The order of use of some processes orders any part of them.
LEMMA OrderedSubset ==
    ASSUME NEW S, NEW T, T \subseteq S, Ordered(S)
    PROVE  Ordered(T)
BY DEF Ordered, Orders

\* prune_processes_if_needed takes one stored process out of a full store.
LEMMA PrunesOne ==
    ASSUME Types, OrderInv, SizeInv
    PROVE  /\ ToPrune \subseteq Stored
           /\ \A p, q \in ToPrune : p = q
           /\ ToPrune # {} \/ Cardinality(Stored) < MaxProcesses
<1> DEFINE open == {c \in Stored : Cardinality(used[c] \cap Stored) >= Protected}
           exited == {c \in open : proc[c] = "exited"}
           T == IF exited # {} THEN exited ELSE open
<1>1. IsFiniteSet(Stored) /\ Ordered(Stored) /\ Cardinality(Stored) \in Nat
  BY OrderedSubset, FS_CardinalityType DEF OrderInv, SizeInv
<1>2. T \in SUBSET Stored /\ Ordered(T) /\ IsFiniteSet(T)
  BY <1>1, OrderedSubset, FS_Subset
<1>3. ToPrune = {} \/ ToPrune = {c \in T : T \ {c} \subseteq used[c]}
  BY DEF ToPrune, ProcessIdToPrune, LeastRecentlyUsed
<1>4. ASSUME ~(Cardinality(Stored) < MaxProcesses)
      PROVE  ToPrune # {}
  <2>1. Stored # {} /\ Cardinality(Stored) - 1 >= Protected
    BY <1>1, <1>4, LimitsAssumption, FS_EmptySet
  <2>2. PICK m \in Stored : Stored \ {m} \subseteq used[m]
    BY <1>1, <2>1, LeastExists
  <2>3. used[m] \cap Stored = Stored \ {m}
    BY <1>1, <2>2 DEF Ordered, Orders
  <2>4. m \in open
    BY <1>1, <2>1, <2>3, FS_RemoveElement
  <2>5. T # {}
    BY <2>4
  <2>6. ToPrune = {c \in T : T \ {c} \subseteq used[c]}
    BY <1>4 DEF ToPrune, ProcessIdToPrune, LeastRecentlyUsed
  <2> HIDE DEF T
  <2> QED  BY <1>2, <2>5, <2>6, LeastExists
<1> HIDE DEF T
<1>5. \A p, q \in ToPrune : p = q
  BY <1>2, <1>3 DEF Ordered, Orders
<1> QED  BY <1>2, <1>3, <1>4, <1>5
-----------------------------------------------------------------------------
(* What the store holds *)

\* What an entry of the store says of its command.
LEMMA StoredFacts ==
    ASSUME Types, EntryInv
    PROVE  /\ Stored \subseteq Commands
           /\ \A c \in Commands : c \in Stored => processes[id[c]] = c /\ id[c] \in Ids
           /\ \A c \in Commands : c \in Stored => pc[c] \in Kept
           /\ \A i \in Ids : processes[i] # "none" => processes[i] \in Stored
BY DEF Types, EntryInv, Stored

\* Entries are removed, no call starts or stores.
LEMMA EntriesShrink ==
    ASSUME Types, Types', StoreInv, id' = id, used' = used,
           \A i \in Ids : processes'[i] \in {processes[i], "none"},
           \A c \in Commands : pc[c] \in Kept => pc'[c] \in Kept,
           \A c \in Commands : pc'[c] \in {"begun", "storing"} => pc[c] \in {"begun", "storing"}
    PROVE  Stored' \subseteq Stored /\ EntryInv' /\ OrderInv' /\ SizeInv'
<1>1. Stored' \subseteq Stored
  BY DEF Stored
<1>2. EntryInv'
  BY DEF StoreInv, EntryInv, Types
<1>3. OrderInv'
  <2>1. Stored' \cup ToStore' \subseteq Stored \cup ToStore
    BY <1>1 DEF ToStore
  <2> QED  BY <2>1 DEF StoreInv, OrderInv, Ordered, Orders
<1>4. SizeInv'
  <2>1. Stored' \in SUBSET Stored /\ IsFiniteSet(Stored)
    BY <1>1 DEF StoreInv, SizeInv
  <2>2. IsFiniteSet(Stored') /\ Cardinality(Stored') <= Cardinality(Stored)
    BY <2>1, FS_Subset
  <2> QED  BY <2>1, <2>2, FS_CardinalityType, LimitsAssumption DEF StoreInv, SizeInv
<1> QED  BY <1>1, <1>2, <1>3, <1>4

\* A reservation goes only from under a call that ends or is marked.
LEMMA IdsKept ==
    ASSUME Types, Types', StoreInv, id' = id, unreserved \subseteq unreserved',
           Stored' \subseteq Stored,
           \A c \in Commands : pc'[c] \in InFlight => pc[c] \in InFlight,
           \A c \in Commands : (Holds(c)' /\ id[c] \in reserved) =>
                                    id[c] \in reserved' \/ IdLost(c)'
    PROVE  ReservedInv' /\ UniqueInv'
<1>1. \A c \in Commands : (Holds(c)' => Holds(c)) /\ (IdLost(c) => IdLost(c)')
  BY DEF Holds, IdLost
<1> QED  BY <1>1 DEF StoreInv, ReservedInv, UniqueInv

\* Answers already given stay right.
LEMMA RepliesKept ==
    ASSUME AnswerNamesOwnProcess, reply' = reply, id' = id, unreserved \subseteq unreserved'
    PROVE  AnswerNamesOwnProcess'
BY DEF AnswerNamesOwnProcess, IdLost

\* A call under way excludes write_stdin.
LEMMA WriteIdle ==
    ASSUME WriteInv, NEW c \in Commands, pc[c] \in InFlight
    PROVE  writing = Idle
BY DEF WriteInv, NoCommandInFlight

\* A call keeps its program point, its end event and its watcher.
LEMMA EndKept ==
    ASSUME NEW d \in Commands, EndOnce(d), pc'[d] = pc[d], ends'[d] = ends[d],
           d \in watch' <=> d \in watch, proc'[d] = "none" <=> proc[d] = "none"
    PROVE  EndOnce(d)'
BY DEF EndOnce

\* A step that begins no call and puts none at its start.
LEMMA PcKept ==
    ASSUME PcInv, unreserved \subseteq Commands,
           id' = id, reply' = reply, unreserved' = unreserved,
           \A d \in Commands :
               /\ pc'[d] = "idle" <=> pc[d] = "idle"
               /\ pc'[d] = "allocated" => pc[d] = "allocated"
               /\ proc'[d] = "none" <=> proc[d] = "none"
               /\ pruned'[d] # "none" => pruned[d] # "none" /\ pc'[d] = pc[d]
    PROVE  PcInv'
BY DEF PcInv

\* What still runs is still accounted for.
LEMMA RunsKept ==
    ASSUME NoOrphanProcess, id' = id, unreserved \subseteq unreserved', lost \subseteq lost',
           ASSUME NEW d \in Commands, proc'[d] = "running"
           PROVE  /\ proc[d] = "running"
                  /\ d \in Stored => \/ d \in Stored' \/ d \in sweeping' \/ IdLost(d)
                                     \/ \E e \in Commands : pruned'[e] = d
                  /\ pc[d] \in {"begun", "storing"} =>
                         pc'[d] \in {"begun", "storing"} \/ d \in Stored' \/ d \in lost'
                  /\ d \in sweeping => d \in sweeping'
                  /\ \A e \in Commands : pruned[e] = d => pruned'[e] = d \/ d \in lost'
    PROVE  NoOrphanProcess'
<1> SUFFICES ASSUME NEW d \in Commands, proc'[d] = "running"
             PROVE  \/ d \in Stored' \/ pc'[d] \in {"begun", "storing"} \/ d \in sweeping'
                    \/ \E e \in Commands : pruned'[e] = d
                    \/ d \in lost' \/ IdLost(d)'
  BY DEF NoOrphanProcess
<1>1. IdLost(d) => IdLost(d)'
  BY DEF IdLost
<1> QED  BY <1>1 DEF NoOrphanProcess

\* The store is left alone; calls go on, end or are killed.
LEMMA StoreUntouched ==
    ASSUME Types, Types', StoreInv, UNCHANGED <<id, processes, reserved, used, unreserved>>,
           \A c \in Commands : pc[c] \in Kept => pc'[c] \in Kept,
           \A c \in Commands : pc'[c] \in {"begun", "storing"} => pc[c] \in {"begun", "storing"},
           \A c \in Commands : pc'[c] \in InFlight => pc[c] \in InFlight
    PROVE  StoreInv' /\ Stored' = Stored
<1>1. Stored' = Stored
  BY DEF Stored
<1>2. EntryInv' /\ OrderInv' /\ SizeInv'
  BY EntriesShrink
<1>3. ReservedInv' /\ UniqueInv'
  BY <1>1, IdsKept
<1> QED  BY <1>1, <1>2, <1>3 DEF StoreInv

\* UnifiedExecProcess::terminate
LEMMA TerminatedFacts ==
    ASSUME Types, NEW S, proc' = Terminated(S)
    PROVE  /\ proc' \in [Commands -> {"none", "running", "dying", "exited"}]
           /\ \A d \in Commands : /\ proc'[d] = "none" <=> proc[d] = "none"
                                  /\ proc'[d] = "running" => proc[d] = "running" /\ d \notin S
BY DEF Types, Terminated

\* The call c ends and its id, or nothing, is released.
LEMMA ReleaseStore ==
    ASSUME Inv, Types', NEW c \in Commands, pc[c] \in InFlight,
           pc' = [pc EXCEPT ![c] = "done"],
           RemoveEntry(id[c]) \/ UNCHANGED store,
           id' = id, used' = used, unreserved' = unreserved
    PROVE  /\ StoreInv'
           /\ \A d \in Commands : (d \in Stored /\ d \notin Stored') =>
                  d = processes[id[c]] /\ (d = c \/ IdLost(d))
<1>1. Types /\ StoreInv /\ id[c] \in Ids
  BY DEF Inv, PcInv, InFlight
<1>2. /\ \A i \in Ids : processes'[i] = processes[i] \/ (i = id[c] /\ processes'[i] = "none")
      /\ \A i \in reserved : i \in reserved' \/ (i = id[c] /\ processes'[i] = "none")
  BY <1>1 DEF RemoveEntry, store, Types
<1>3. /\ \A d \in Commands : pc[d] \in Kept => pc'[d] \in Kept
      /\ \A d \in Commands : pc'[d] \in {"begun", "storing"} => pc[d] \in {"begun", "storing"}
      /\ \A d \in Commands : pc'[d] \in InFlight => pc[d] \in InFlight /\ d # c
  BY <1>1 DEF Types, Kept, InFlight
<1>4. Stored' \subseteq Stored /\ EntryInv' /\ OrderInv' /\ SizeInv'
  BY <1>1, <1>2, <1>3, EntriesShrink
<1>5. ASSUME NEW d \in Commands, Holds(d)', id[d] \in reserved
      PROVE  id[d] \in reserved' \/ IdLost(d)'
  <2> SUFFICES ASSUME id[d] \notin reserved'
               PROVE  IdLost(d)
    BY DEF IdLost
  <2>1. id[d] = id[c] /\ processes'[id[c]] = "none"
    BY <1>2, <1>5
  <2>2. Holds(d) /\ Holds(c)
    BY <1>3, <1>4, <1>5 DEF Holds
  <2>3. d # c
    <3>1. c \notin Stored'
      BY <1>1, <1>4, <2>1 DEF Stored, EntryInv
    <3> QED  BY <1>3, <1>5, <3>1 DEF Holds
  <2> QED  BY <1>1, <2>1, <2>2, <2>3 DEF StoreInv, UniqueInv
<1>6. ReservedInv' /\ UniqueInv'
  BY <1>1, <1>3, <1>4, <1>5, IdsKept
<1>7. ASSUME NEW d \in Commands, d \in Stored, d \notin Stored'
      PROVE  d = processes[id[c]] /\ (d = c \/ IdLost(d))
  <2>1. processes[id[d]] = d /\ id[d] \in Ids
    BY <1>1, <1>7, StoredFacts DEF StoreInv
  <2>2. d # "none"
    BY IdsAreNoMarks
  <2>3. id[d] = id[c]
    BY <1>2, <1>7, <2>1, <2>2 DEF Stored
  <2> QED  BY <1>1, <1>7, <2>1, <2>3 DEF StoreInv, UniqueInv, Holds
<1> QED  BY <1>4, <1>6, <1>7 DEF StoreInv
-----------------------------------------------------------------------------
(* exec_command *)

\* A command that could not be started.
LEMMA OpenFailsInv ==
    ASSUME Inv, NEW c \in Commands, OpenFails(c)
    PROVE  Inv'
<1>1. /\ pc[c] = "allocated" /\ pc' = [pc EXCEPT ![c] = "done"] /\ RemoveEntry(id[c])
      /\ UNCHANGED <<id, proc, watch, ends, reply, used, pruned, sweeping, writing, unreserved, lost>>
  BY DEF OpenFails, ghosts
<1>2. Types /\ PcInv /\ id[c] \in Ids
  BY <1>1 DEF Inv, PcInv
<1>3. Types'
  BY <1>1, <1>2 DEF Types, Pcs, RemoveEntry
<1>4. PcInv' /\ EndInv'
  BY <1>1, <1>2 DEF Inv, Types, PcInv, EndInv, EndOnce
<1>5. /\ StoreInv'
      /\ \A d \in Commands : (d \in Stored /\ d \notin Stored') => d = c \/ IdLost(d)
  BY <1>1, <1>3, ReleaseStore DEF InFlight
<1>6. WriteInv'
  BY <1>1, WriteIdle DEF Inv, WriteInv, InFlight
<1>7. NoOrphanProcess'
  <2>1. c \notin Stored
    BY <1>1, <1>2, StoredFacts DEF Inv, StoreInv, Kept
  <2> QED  BY <1>1, <1>2, <1>5, <2>1, RunsKept DEF Inv, Types
<1>8. AnswerNamesOwnProcess'
  BY <1>1, RepliesKept DEF Inv
<1> QED  BY <1>3, <1>4, <1>5, <1>6, <1>7, <1>8 DEF Inv

\* The look whether the started process is still alive.
LEMMA StartedAliveInv ==
    ASSUME Inv, NEW c \in Commands, StartedAlive(c)
    PROVE  Inv'
<1>1. /\ pc[c] = "begun"
      /\ pc' = [pc EXCEPT ![c] = IF proc[c] = "exited" THEN "short" ELSE "storing"]
      /\ UNCHANGED <<id, proc, watch, ends, reply, processes, reserved, used, pruned, sweeping,
                     writing, unreserved, lost>>
  BY DEF StartedAlive, ghosts, store
<1>2. Types /\ PcInv
  BY DEF Inv
<1>3. Types'
  BY <1>1, <1>2 DEF Types, Pcs, InFlight
<1>4. PcInv' /\ EndInv'
  BY <1>1, <1>2 DEF Inv, Types, PcInv, EndInv, EndOnce
<1>5. \A d \in Commands : /\ pc[d] \in Kept => pc'[d] \in Kept
                          /\ pc'[d] \in {"begun", "storing"} => pc[d] \in {"begun", "storing"}
                          /\ pc'[d] \in InFlight => pc[d] \in InFlight
  BY <1>1, <1>2 DEF Types, Kept, InFlight
<1>6. StoreInv' /\ Stored' = Stored
  BY <1>1, <1>2, <1>3, <1>5, StoreUntouched DEF Inv
<1>7. WriteInv'
  BY <1>1, WriteIdle DEF Inv, WriteInv, InFlight
<1>8. NoOrphanProcess'
  BY <1>1, <1>2, <1>6, RunsKept DEF Inv, Types
<1>9. AnswerNamesOwnProcess'
  BY <1>1, RepliesKept DEF Inv
<1> QED  BY <1>3, <1>4, <1>6, <1>7, <1>8, <1>9 DEF Inv

\* The call answers after its yield time.
LEMMA AnswerAfterYieldInv ==
    ASSUME Inv, NEW c \in Commands, AnswerAfterYield(c)
    PROVE  Inv'
<1> DEFINE r == IF processes[id[c]] # "none" /\ proc[processes[id[c]]] # "exited"
                THEN processes[id[c]] ELSE "none"
<1>1. /\ pc[c] = "yielding" /\ pc' = [pc EXCEPT ![c] = "done"] /\ Refresh(id[c])
      /\ reply' = [reply EXCEPT ![c] = r]
      /\ UNCHANGED <<id, proc, watch, ends, used, pruned, sweeping, writing, unreserved, lost>>
  BY DEF AnswerAfterYield, ghosts
<1>2. Types /\ PcInv /\ id[c] \in Ids /\ pc[c] \in InFlight
  BY <1>1 DEF Inv, PcInv, InFlight
<1>3. RemoveEntry(id[c]) \/ UNCHANGED store
  BY <1>1 DEF Refresh
<1>4. r \in Commands \cup {"none"} /\ r \in {processes[id[c]], "none"}
  BY <1>2 DEF Types
<1> HIDE DEF r
<1>5. Types'
  BY <1>1, <1>2, <1>3, <1>4 DEF Types, Pcs, RemoveEntry, store
<1>6. PcInv' /\ EndInv'
  BY <1>1, <1>2 DEF Inv, Types, PcInv, EndInv, EndOnce
<1>7. /\ StoreInv'
      /\ \A d \in Commands : (d \in Stored /\ d \notin Stored') => d = processes[id[c]]
  BY <1>1, <1>2, <1>3, <1>5, ReleaseStore
<1>8. WriteInv'
  BY <1>1, <1>2, WriteIdle DEF Inv, WriteInv
<1>9. NoOrphanProcess'
  <2>1. Stored' = Stored \/ proc[processes[id[c]]] = "exited"
    BY <1>1 DEF Refresh, store, Stored
  <2> QED  BY <1>1, <1>2, <1>7, <2>1, RunsKept DEF Inv, Types
<1>10. AnswerNamesOwnProcess'
  <2> SUFFICES ASSUME NEW d \in Commands
               PROVE  reply'[d] \in {d, "none"} \/ IdLost(d)
    BY <1>1 DEF AnswerNamesOwnProcess, IdLost
  <2>1. CASE d # c
    BY <1>1, <1>2, <2>1 DEF Inv, AnswerNamesOwnProcess, Types
  <2>2. CASE d = c /\ r \notin {c, "none"}
    <3>1. r \in Stored /\ r \in Commands /\ id[r] = id[c]
      BY <1>2, <1>4, <2>2, StoredFacts DEF Inv, StoreInv, EntryInv
    <3> QED  BY <1>2, <2>2, <3>1 DEF Inv, StoreInv, UniqueInv, Holds
  <2> QED  BY <1>1, <1>2, <2>1, <2>2 DEF Types
<1> QED  BY <1>5, <1>6, <1>7, <1>8, <1>9, <1>10 DEF Inv

\* The call fails after its yield time.
LEMMA FailAfterYieldInv ==
    ASSUME Inv, NEW c \in Commands, FailAfterYield(c)
    PROVE  Inv'
<1>1. /\ pc[c] = "yielding" /\ pc' = [pc EXCEPT ![c] = "done"] /\ RemoveEntry(id[c])
      /\ proc' = Terminated({c})
      /\ UNCHANGED <<id, watch, ends, reply, used, pruned, sweeping, writing, unreserved, lost>>
  BY DEF FailAfterYield, ghosts
<1>2. Types /\ PcInv /\ id[c] \in Ids /\ pc[c] \in InFlight
  BY <1>1 DEF Inv, PcInv, InFlight
<1>3. /\ proc' \in [Commands -> {"none", "running", "dying", "exited"}]
      /\ \A d \in Commands : /\ proc'[d] = "none" <=> proc[d] = "none"
                             /\ proc'[d] = "running" => proc[d] = "running" /\ d # c
  BY <1>1, <1>2, TerminatedFacts
<1>4. Types'
  BY <1>1, <1>2, <1>3 DEF Types, Pcs, RemoveEntry
<1>5. PcInv' /\ EndInv'
  <2>1. PcInv'
    <3>1. \A d \in Commands : /\ pc'[d] = "idle" <=> pc[d] = "idle"
                              /\ pc'[d] = "allocated" => pc[d] = "allocated"
                              /\ pruned'[d] # "none" => pc'[d] = pc[d]
      BY <1>1, <1>2 DEF Types, PcInv
    <3> QED  BY <1>1, <1>2, <1>3, <3>1, PcKept DEF Types
  <2>2. EndInv'
    <3> SUFFICES ASSUME NEW d \in Commands
                 PROVE  EndOnce(d)'
      BY DEF EndInv
    <3>1. EndOnce(d)
      BY DEF Inv, EndInv
    <3>2. CASE d = c
      BY <1>1, <1>2, <3>1, <3>2 DEF EndOnce, Types
    <3>3. CASE d # c
      <4>1. pc'[d] = pc[d] /\ (d \in watch' <=> d \in watch)
        BY <1>1, <1>2, <3>3 DEF Types
      <4> QED  BY <1>1, <1>3, <3>1, <4>1, EndKept
    <3> QED  BY <3>2, <3>3
  <2> QED  BY <2>1, <2>2
<1>6. /\ StoreInv'
      /\ \A d \in Commands : (d \in Stored /\ d \notin Stored') => d = c \/ IdLost(d)
  BY <1>1, <1>2, <1>4, ReleaseStore
<1>7. WriteInv'
  BY <1>1, <1>2, WriteIdle DEF Inv, WriteInv
<1>8. NoOrphanProcess'
  BY <1>1, <1>2, <1>3, <1>6, RunsKept DEF Inv, Types
<1>9. AnswerNamesOwnProcess'
  BY <1>1, RepliesKept DEF Inv
<1> QED  BY <1>4, <1>5, <1>6, <1>7, <1>8, <1>9 DEF Inv

\* A process that ended before it was stored.
LEMMA EndShortLivedInv ==
    ASSUME Inv, NEW c \in Commands, EndShortLived(c)
    PROVE  Inv'
<1>1. /\ pc[c] = "short" /\ pc' = [pc EXCEPT ![c] = "done"] /\ RemoveEntry(id[c])
      /\ ends' = [ends EXCEPT ![c] = @ + 1]
      /\ UNCHANGED <<id, proc, watch, reply, used, pruned, sweeping, writing, unreserved, lost>>
  BY DEF EndShortLived, ghosts
<1>2. Types /\ PcInv /\ id[c] \in Ids /\ pc[c] \in InFlight
  BY <1>1 DEF Inv, PcInv, InFlight
<1>3. ends[c] = 0 /\ c \notin watch /\ ends' = [ends EXCEPT ![c] = 1]
  <2>1. ends[c] = 0 /\ c \notin watch
    BY <1>1 DEF Inv, EndInv, EndOnce
  <2> QED  BY <1>1, <2>1
<1>4. Types'
  BY <1>1, <1>2, <1>3 DEF Types, Pcs, RemoveEntry
<1>5. PcInv' /\ EndInv'
  BY <1>1, <1>2, <1>3 DEF Inv, Types, PcInv, EndInv, EndOnce
<1>6. /\ StoreInv'
      /\ \A d \in Commands : (d \in Stored /\ d \notin Stored') => d = c \/ IdLost(d)
  BY <1>1, <1>2, <1>4, ReleaseStore
<1>7. WriteInv'
  BY <1>1, <1>2, WriteIdle DEF Inv, WriteInv
<1>8. NoOrphanProcess'
  <2>1. c \notin Stored
    BY <1>1, <1>2, StoredFacts DEF Inv, StoreInv, Kept
  <2> QED  BY <1>1, <1>2, <1>6, <2>1, RunsKept DEF Inv, Types
<1>9. AnswerNamesOwnProcess'
  BY <1>1, RepliesKept DEF Inv
<1> QED  BY <1>4, <1>5, <1>6, <1>7, <1>8, <1>9 DEF Inv

\* An id that is free belongs to nobody that holds on to it, or is lost.
LEMMA AllocateProcessIdInv ==
    ASSUME Inv, NEW c \in Commands, AllocateProcessId(c)
    PROVE  Inv'
<1>1. PICK i \in Ids \ reserved : id' = [id EXCEPT ![c] = i] /\ reserved' = reserved \cup {i}
  BY DEF AllocateProcessId, FreeIds
<1>2. /\ pc[c] = "idle" /\ writing = Idle /\ pc' = [pc EXCEPT ![c] = "allocated"]
      /\ UNCHANGED <<proc, watch, ends, reply, processes, used, pruned, sweeping, writing,
                     unreserved, lost>>
  BY DEF AllocateProcessId, ghosts
<1>3. Types /\ PcInv /\ StoreInv
  BY DEF Inv
<1>4. Types'
  BY <1>1, <1>2, <1>3 DEF Types, Pcs, InFlight
<1>5. PcInv'
  BY <1>1, <1>2, <1>3 DEF Types, PcInv
<1>6. EndInv' /\ WriteInv'
  BY <1>2, <1>3 DEF Inv, Types, EndInv, EndOnce, WriteInv
<1>7. Stored' = Stored /\ c \notin Stored
  BY <1>2, <1>3, StoredFacts DEF Stored, StoreInv, Kept
<1>8. \A d \in Commands : d # c => id'[d] = id[d] /\ (IdLost(d) => IdLost(d)')
  BY <1>1, <1>2, <1>3 DEF PcInv, Types, IdLost
<1>9. ASSUME NEW d \in Commands, d # c, Holds(d), id[d] = i
      PROVE  IdLost(d)' /\ IdLost(c)'
  <2>1. IdLost(d)
    BY <1>1, <1>3, <1>9 DEF StoreInv, ReservedInv
  <2> QED  BY <1>1, <1>3, <1>8, <1>9, <2>1 DEF IdLost, Types
<1>10. \A d \in Commands : d # c => (Holds(d)' <=> Holds(d))
  BY <1>2, <1>3, <1>7 DEF Holds, Types
<1>11. StoreInv'
  <2>1. EntryInv'
    BY <1>1, <1>2, <1>3, <1>7 DEF StoreInv, EntryInv, Types, Kept
  <2>2. OrderInv' /\ SizeInv'
    <3>1. ToStore' = ToStore
      BY <1>2, <1>3 DEF ToStore, Types
    <3> QED  BY <1>2, <1>3, <1>7, <3>1 DEF StoreInv, OrderInv, SizeInv, Ordered, Orders
  <2>3. ReservedInv'
    BY <1>1, <1>3, <1>8, <1>10 DEF StoreInv, ReservedInv, Types
  <2>4. UniqueInv'
    <3> SUFFICES ASSUME NEW d \in Commands, NEW e \in Commands, d # e, Holds(d)', Holds(e)',
                        id'[d] = id'[e]
                 PROVE  IdLost(d)'
      BY DEF UniqueInv
    <3>1. id'[c] = i
      BY <1>1, <1>3 DEF Types
    <3> QED  BY <1>3, <1>8, <1>9, <1>10, <3>1 DEF StoreInv, UniqueInv
  <2> QED  BY <2>1, <2>2, <2>3, <2>4 DEF StoreInv
<1>12. NoOrphanProcess'
  <2> SUFFICES ASSUME NEW d \in Commands, proc'[d] = "running"
               PROVE  \/ d \in Stored' \/ pc'[d] \in {"begun", "storing"} \/ d \in sweeping'
                      \/ \E e \in Commands : pruned'[e] = d
                      \/ d \in lost' \/ IdLost(d)'
    BY DEF NoOrphanProcess
  <2>1. d # c
    BY <1>2, <1>3 DEF PcInv
  <2> QED  BY <1>2, <1>3, <1>7, <1>8, <2>1 DEF Inv, NoOrphanProcess, Types
<1>13. AnswerNamesOwnProcess'
  BY <1>2, <1>3, <1>8 DEF Inv, AnswerNamesOwnProcess, PcInv
<1> QED  BY <1>4, <1>5, <1>6, <1>11, <1>12, <1>13 DEF Inv

\* What is used now comes last.
LEMMA UseOrders ==
    ASSUME Types, NEW S, NEW c \in Commands, S \subseteq Commands, Ordered(S), Use(c, S)
    PROVE  Orders(used', S \cup {c}) /\ used' \in [Commands -> SUBSET Commands]
<1>1. /\ \A d \in S : d # c => used'[d] = (used[d] \cap S) \cup {c}
      /\ used'[c] = {}
  BY DEF Use
<1>2. used' \in [Commands -> SUBSET Commands]
  BY DEF Use, Types
<1>3. \A d \in S \cup {c} : d \notin used'[d]
  BY <1>1 DEF Ordered, Orders
<1>4. ASSUME NEW d \in S \cup {c}, NEW e \in S \cup {c}, d # e
      PROVE  e \in used'[d] <=> d \notin used'[e]
  BY <1>1, <1>4 DEF Ordered, Orders
<1>5. ASSUME NEW d \in S \cup {c}, NEW e \in S \cup {c}, NEW f \in S \cup {c},
             e \in used'[d], f \in used'[e]
      PROVE  f \in used'[d]
  BY <1>1, <1>5 DEF Ordered, Orders
<1> QED  BY <1>2, <1>3, <1>4, <1>5 DEF Orders

\* An id is drawn and reserved and the process started.
LEMMA OpenSessionInv ==
    ASSUME Inv, NEW c \in Commands, OpenSession(c)
    PROVE  Inv'
<1>1. /\ pc[c] = "allocated" /\ pc' = [pc EXCEPT ![c] = "begun"]
      /\ proc' = [proc EXCEPT ![c] = "running"] /\ Use(c, Stored \cup ToStore)
      /\ UNCHANGED <<id, watch, ends, reply, processes, reserved, pruned, sweeping, writing,
                     unreserved, lost>>
  BY DEF OpenSession, ghosts, store
<1>2. Types /\ PcInv /\ StoreInv
  BY DEF Inv
<1>3. Stored' = Stored /\ Stored \subseteq Commands /\ ToStore' = ToStore \cup {c}
  BY <1>1, <1>2, StoredFacts DEF Stored, StoreInv, ToStore, Types
<1>4. OrderInv' /\ used' \in [Commands -> SUBSET Commands]
  <2>1. Orders(used', (Stored \cup ToStore) \cup {c}) /\ used' \in [Commands -> SUBSET Commands]
    BY <1>1, <1>2, <1>3, UseOrders DEF StoreInv, OrderInv, ToStore
  <2>2. (Stored \cup ToStore)' = (Stored \cup ToStore) \cup {c}
    BY <1>3
  <2> QED  BY <2>1, <2>2 DEF OrderInv, Ordered
<1>5. Types'
  BY <1>1, <1>2, <1>4 DEF Types, Pcs, InFlight
<1>6. PcInv'
  BY <1>1, <1>2 DEF Types, PcInv
<1>7. EndInv' /\ WriteInv'
  BY <1>1, <1>2, WriteIdle DEF Inv, Types, EndInv, EndOnce, WriteInv, InFlight
<1>8. StoreInv'
  <2>1. EntryInv' /\ SizeInv'
    BY <1>1, <1>2, <1>3 DEF StoreInv, EntryInv, SizeInv, Types, Kept
  <2>2. ReservedInv' /\ UniqueInv'
    <3>1. \A d \in Commands : pc'[d] \in InFlight => pc[d] \in InFlight
      BY <1>1, <1>2 DEF Types, InFlight
    <3> QED  BY <1>1, <1>2, <1>3, <1>5, <3>1, IdsKept DEF Inv
  <2> QED  BY <1>4, <2>1, <2>2 DEF StoreInv
<1>9. NoOrphanProcess'
  <2> SUFFICES ASSUME NEW d \in Commands, proc'[d] = "running"
               PROVE  \/ d \in Stored' \/ pc'[d] \in {"begun", "storing"} \/ d \in sweeping'
                      \/ \E e \in Commands : pruned'[e] = d
                      \/ d \in lost' \/ IdLost(d)'
    BY DEF NoOrphanProcess
  <2>1. IdLost(d) => IdLost(d)'
    BY <1>1 DEF IdLost
  <2> QED  BY <1>1, <1>2, <1>3, <2>1 DEF Inv, NoOrphanProcess, Types
<1>10. AnswerNamesOwnProcess'
  BY <1>1, RepliesKept DEF Inv
<1> QED  BY <1>5, <1>6, <1>7, <1>8, <1>9, <1>10 DEF Inv

\* The one entry pruned goes, that of c comes: the store does not grow past its
\* limit, and what was pruned is in the hands of c.
LEMMA StoreProcessStore ==
    ASSUME Inv, NEW c \in Commands, StoreProcess(c), Types'
    PROVE  /\ StoreInv' /\ c \in Stored'
           /\ \A d \in Commands : (d \in Stored /\ d \notin Stored') => d \in ToPrune \/ IdLost(d)
<1>1. /\ pc[c] = "storing"
      /\ processes' = [[i \in Ids |-> IF processes[i] \in ToPrune THEN "none" ELSE processes[i]]
                          EXCEPT ![id[c]] = c]
      /\ reserved' = reserved \ {i \in Ids : processes[i] \in ToPrune}
      /\ pc' \in {[pc EXCEPT ![c] = "yielding"], [pc EXCEPT ![c] = "cleaning"]}
      /\ unreserved' = unreserved \cup {p \in ToPrune : pc[p] \in InFlight}
      /\ id' = id /\ used' = used
  BY DEF StoreProcess
<1>2. Types /\ PcInv /\ StoreInv /\ id[c] \in Ids
  BY <1>1 DEF Inv, PcInv
<1>3. /\ ToPrune \subseteq Stored /\ \A p, q \in ToPrune : p = q
      /\ ToPrune # {} \/ Cardinality(Stored) < MaxProcesses
  BY <1>2, PrunesOne DEF StoreInv
<1>4. /\ Stored \subseteq Commands /\ c \notin Stored /\ "none" \notin ToPrune
      /\ \A d \in Commands : d \in Stored => processes[id[d]] = d /\ id[d] \in Ids
      /\ \A d \in Commands : d \in Stored => pc[d] \in Kept
  BY <1>1, <1>2, <1>3, StoredFacts, IdsAreNoMarks DEF StoreInv, Kept
<1>5. /\ processes'[id[c]] = c
      /\ \A i \in Ids : i # id[c] =>
             processes'[i] = IF processes[i] \in ToPrune THEN "none" ELSE processes[i]
      /\ pc'[c] \in {"yielding", "cleaning"} /\ \A d \in Commands : d # c => pc'[d] = pc[d]
  BY <1>1, <1>2 DEF Types
<1>6. Stored' \subseteq (Stored \ ToPrune) \cup {c} /\ c \in Stored'
  BY <1>2, <1>5, IdsAreNoMarks DEF Stored
<1>7. EntryInv'
  <2> SUFFICES ASSUME NEW i \in Ids, processes'[i] # "none"
               PROVE  id[processes'[i]] = i /\ pc'[processes'[i]] \in Kept
    BY <1>1 DEF EntryInv
  <2>1. CASE i = id[c]
    BY <1>1, <1>2, <1>5, <2>1 DEF Types, Kept
  <2>2. CASE i # id[c]
    <3>1. processes'[i] = processes[i] /\ processes[i] \in Stored
      BY <1>2, <1>5, <2>2 DEF Stored, Types
    <3>2. processes[i] \in Commands /\ processes[i] # c
      BY <1>4, <3>1
    <3> QED  BY <1>2, <1>4, <1>5, <3>1, <3>2 DEF StoreInv, EntryInv
  <2> QED  BY <2>1, <2>2
<1>8. OrderInv'
  <2>1. c \in ToStore /\ ToStore' \subseteq ToStore
    BY <1>1, <1>5 DEF ToStore
  <2>2. (Stored \cup ToStore)' \subseteq Stored \cup ToStore
    BY <1>6, <2>1
  <2> QED  BY <1>1, <1>2, <2>2 DEF StoreInv, OrderInv, Ordered, Orders
<1>9. SizeInv'
  <2>1. IsFiniteSet(Stored) /\ Cardinality(Stored) <= MaxProcesses /\ Cardinality(Stored) \in Nat
    BY <1>2, FS_CardinalityType DEF StoreInv, SizeInv
  <2>2. PICK S \in SUBSET Stored : /\ Stored' \subseteq S \cup {c}
                                   /\ Cardinality(S) < MaxProcesses
    <3>1. CASE ToPrune = {}
      BY <1>3, <1>6, <3>1
    <3>2. ASSUME NEW p \in ToPrune PROVE \E S \in SUBSET Stored : /\ Stored' \subseteq S \cup {c}
                                                                  /\ Cardinality(S) < MaxProcesses
      <4>1. p \in Stored /\ Stored' \subseteq (Stored \ {p}) \cup {c}
        BY <1>3, <1>6
      <4>2. Cardinality(Stored \ {p}) = Cardinality(Stored) - 1
        BY <2>1, <4>1, FS_RemoveElement
      <4> QED  BY <2>1, <4>1, <4>2, LimitsAssumption
    <3> QED  BY <3>1, <3>2
  <2>3. IsFiniteSet(S) /\ Cardinality(S) \in Nat
    BY <2>1, FS_Subset, FS_CardinalityType
  <2>4. IsFiniteSet(S \cup {c}) /\ Cardinality(S \cup {c}) <= MaxProcesses
    <3>1. /\ IsFiniteSet(S \cup {c})
          /\ Cardinality(S \cup {c}) \in {Cardinality(S), Cardinality(S) + 1}
      BY <2>3, FS_AddElement
    <3> QED  BY <2>2, <2>3, <3>1, LimitsAssumption
  <2>5. /\ IsFiniteSet(Stored') /\ Cardinality(Stored') <= Cardinality(S \cup {c})
        /\ Cardinality(Stored') \in Nat /\ Cardinality(S \cup {c}) \in Nat
    <3>1. Stored' \in SUBSET (S \cup {c})
      BY <2>2
    <3> QED  BY <2>4, <3>1, FS_Subset, FS_CardinalityType
  <2> QED  BY <2>4, <2>5, LimitsAssumption DEF SizeInv
<1>10. \A d \in Commands : /\ Holds(d)' => Holds(d)
                           /\ IdLost(d) => IdLost(d)'
  <2>1. \A d \in Commands : pc'[d] \in InFlight => pc[d] \in InFlight
    BY <1>1, <1>2 DEF Types, InFlight
  <2> QED  BY <1>1, <1>6, <2>1 DEF Holds, IdLost, InFlight
<1>11. ASSUME NEW d \in Commands, Holds(d)', id[d] \in reserved, id[d] \notin reserved'
       PROVE  IdLost(d)'
  <2>1. PICK p \in ToPrune : p \in Commands /\ processes[id[d]] = p /\ id[p] = id[d] /\ p \in Stored
    BY <1>1, <1>2, <1>3, <1>4, <1>11 DEF StoreInv, EntryInv
  <2>2. CASE d # p
    BY <1>2, <1>10, <1>11, <2>1, <2>2 DEF StoreInv, UniqueInv, Holds
  <2>3. CASE d = p
    <3>1. d # c /\ d \notin Stored'
      BY <1>4, <1>6, <2>1, <2>3
    <3>2. pc[d] \in InFlight
      BY <1>1, <1>2, <1>11, <3>1 DEF Holds, Types
    <3> QED  BY <1>1, <2>1, <2>3, <3>2 DEF IdLost
  <2> QED  BY <2>2, <2>3
<1>12. ReservedInv' /\ UniqueInv'
  BY <1>1, <1>2, <1>10, <1>11 DEF StoreInv, ReservedInv, UniqueInv
<1>13. ASSUME NEW d \in Commands, d \in Stored, d \notin Stored', d \notin ToPrune
       PROVE  IdLost(d)
  <2>1. id[d] = id[c]
    <3>1. d # "none"
      BY IdsAreNoMarks
    <3> QED  BY <1>4, <1>5, <1>13, <3>1 DEF Stored
  <2>2. Holds(c) /\ Holds(d) /\ c # d
    BY <1>1, <1>4, <1>13 DEF Holds, InFlight
  <2> QED  BY <1>2, <2>1, <2>2 DEF StoreInv, UniqueInv
<1> QED  BY <1>6, <1>7, <1>8, <1>9, <1>12, <1>13 DEF StoreInv

\* The process is stored, another one perhaps pruned.
LEMMA StoreProcessInv ==
    ASSUME Inv, NEW c \in Commands, StoreProcess(c)
    PROVE  Inv'
<1>1. /\ pc[c] = "storing"
      /\ processes' = [[i \in Ids |-> IF processes[i] \in ToPrune THEN "none" ELSE processes[i]]
                          EXCEPT ![id[c]] = c]
      /\ reserved' \subseteq reserved
      /\ unreserved' = unreserved \cup {p \in ToPrune : pc[p] \in InFlight}
      /\ UNCHANGED <<id, proc, ends, reply, used, sweeping, writing, lost>>
  BY DEF StoreProcess
<1>2. \/ /\ ToPrune = {} /\ pc' = [pc EXCEPT ![c] = "yielding"] /\ watch' = watch \cup {c}
         /\ pruned' = pruned
      \/ /\ pc' = [pc EXCEPT ![c] = "cleaning"] /\ watch' = watch
         /\ \E p \in ToPrune : pruned' = [pruned EXCEPT ![c] = p]
  BY DEF StoreProcess
<1>3. Types /\ PcInv /\ StoreInv /\ id[c] \in Ids
  BY <1>1 DEF Inv, PcInv
<1>4. ToPrune \subseteq Stored /\ Stored \subseteq Commands /\ \A p, q \in ToPrune : p = q
  BY <1>3, PrunesOne, StoredFacts DEF StoreInv
<1>5. Types'
  <2>1. pc' \in [Commands -> Pcs] /\ watch' \subseteq Commands
    BY <1>2, <1>3 DEF Types, Pcs, InFlight
  <2>2. processes' \in [Ids -> Commands \cup {"none"}]
    BY <1>1, <1>3 DEF Types
  <2>3. pruned' \in [Commands -> Commands \cup {"none"}]
    BY <1>2, <1>3, <1>4 DEF Types
  <2>4. unreserved' \subseteq Commands
    BY <1>1, <1>3, <1>4 DEF Types
  <2> QED  BY <1>1, <1>3, <2>1, <2>2, <2>3, <2>4 DEF Types
<1>6. /\ StoreInv' /\ c \in Stored'
      /\ \A d \in Commands : (d \in Stored /\ d \notin Stored') => d \in ToPrune \/ IdLost(d)
  BY <1>5, StoreProcessStore
<1>7. PcInv'
  <2>1. \A d \in unreserved' : pc'[d] # "idle"
    BY <1>1, <1>2, <1>3, <1>4 DEF Types, PcInv, InFlight
  <2>2. \A d \in Commands : pruned'[d] # "none" => pc'[d] = "cleaning"
    BY <1>1, <1>2, <1>3 DEF Types, PcInv
  <2>3. \A d \in Commands : d # c => pc'[d] = pc[d]
    BY <1>2, <1>3 DEF Types
  <2>4. pc'[c] \in {"yielding", "cleaning"}
    BY <1>2, <1>3 DEF Types
  <2> QED  BY <1>1, <1>3, <2>1, <2>2, <2>3, <2>4 DEF PcInv
<1>8. EndInv'
  BY <1>1, <1>2, <1>3 DEF Inv, Types, EndInv, EndOnce
<1>9. WriteInv'
  BY <1>1, WriteIdle DEF Inv, WriteInv, InFlight
<1>10. NoOrphanProcess'
  <2>1. pruned[c] = "none"
    BY <1>1, <1>3 DEF PcInv
  <2>2. \A d \in Commands : d \in ToPrune => \E e \in Commands : pruned'[e] = d
    BY <1>2, <1>3, <1>4 DEF Types
  <2>3. \A d \in Commands : pc[d] \in {"begun", "storing"} =>
                                pc'[d] \in {"begun", "storing"} \/ d \in Stored'
    BY <1>2, <1>3, <1>6 DEF Types
  <2>4. \A d, e \in Commands : pruned[e] = d => pruned'[e] = d
    BY <1>2, <1>3, <2>1, IdsAreNoMarks DEF Types
  <2> QED  BY <1>1, <1>6, <2>2, <2>3, <2>4, RunsKept DEF Inv
<1>11. AnswerNamesOwnProcess'
  BY <1>1, RepliesKept DEF Inv
<1> QED  BY <1>5, <1>6, <1>7, <1>8, <1>9, <1>10, <1>11 DEF Inv

\* The pruned process is terminated.
LEMMA TerminatePrunedInv ==
    ASSUME Inv, NEW c \in Commands, TerminatePruned(c)
    PROVE  Inv'
<1>1. /\ pc[c] = "cleaning" /\ pc' = [pc EXCEPT ![c] = "yielding"]
      /\ proc' = Terminated({pruned[c]}) /\ pruned' = [pruned EXCEPT ![c] = "none"]
      /\ watch' = watch \cup {c}
      /\ UNCHANGED <<id, ends, reply, processes, reserved, used, sweeping, writing, unreserved,
                     lost>>
  BY DEF TerminatePruned, ghosts, store
<1>2. Types /\ PcInv
  BY DEF Inv
<1>3. /\ proc' \in [Commands -> {"none", "running", "dying", "exited"}]
      /\ \A d \in Commands : /\ proc'[d] = "none" <=> proc[d] = "none"
                             /\ proc'[d] = "running" => proc[d] = "running" /\ d # pruned[c]
  BY <1>1, <1>2, TerminatedFacts
<1>4. Types'
  <2>1. pc' \in [Commands -> Pcs] /\ pruned' \in [Commands -> Commands \cup {"none"}]
    BY <1>1, <1>2 DEF Types, Pcs, InFlight
  <2>2. watch' \subseteq Commands
    BY <1>1, <1>2 DEF Types
  <2> QED  BY <1>1, <1>2, <1>3, <2>1, <2>2 DEF Types
<1>5. \A d \in Commands : /\ pc[d] \in Kept => pc'[d] \in Kept
                          /\ pc'[d] \in {"begun", "storing"} => pc[d] \in {"begun", "storing"}
                          /\ pc'[d] \in InFlight => pc[d] \in InFlight
  BY <1>1, <1>2 DEF Types, Kept, InFlight
<1>6. StoreInv' /\ Stored' = Stored
  BY <1>1, <1>2, <1>4, <1>5, StoreUntouched DEF Inv
<1>7. PcInv'
  <2>1. \A d \in Commands : /\ pc'[d] = "idle" <=> pc[d] = "idle"
                            /\ pc'[d] = "allocated" => pc[d] = "allocated"
                            /\ pruned'[d] # "none" => pruned[d] # "none" /\ pc'[d] = pc[d]
    BY <1>1, <1>2 DEF Types
  <2> QED  BY <1>1, <1>2, <1>3, <2>1, PcKept DEF Types
<1>8. EndInv'
  <2> SUFFICES ASSUME NEW d \in Commands
               PROVE  EndOnce(d)'
    BY DEF EndInv
  <2>1. EndOnce(d)
    BY DEF Inv, EndInv
  <2>2. CASE d = c
    BY <1>1, <1>2, <2>1, <2>2 DEF EndOnce, Types
  <2>3. CASE d # c
    <3>1. pc'[d] = pc[d] /\ (d \in watch' <=> d \in watch)
      BY <1>1, <1>2, <2>3 DEF Types
    <3> QED  BY <1>1, <1>3, <2>1, <3>1, EndKept
  <2> QED  BY <2>2, <2>3
<1>9. WriteInv'
  BY <1>1, WriteIdle DEF Inv, WriteInv, InFlight
<1>10. NoOrphanProcess'
  <2>1. \A d, e \in Commands : (pruned[e] = d /\ d # pruned[c]) => pruned'[e] = d
    BY <1>1, <1>2 DEF Types
  <2>2. \A d \in Commands : pc[d] \in {"begun", "storing"} => pc'[d] \in {"begun", "storing"}
    BY <1>1, <1>2 DEF Types
  <2>3. ASSUME NEW d \in Commands, proc'[d] = "running"
        PROVE  proc[d] = "running" /\ \A e \in Commands : pruned[e] = d => pruned'[e] = d
    BY <1>3, <2>1, <2>3
  <2>4. NoOrphanProcess /\ id' = id /\ unreserved' = unreserved /\ lost' = lost /\ sweeping' = sweeping
    BY <1>1 DEF Inv
  <2> QED  BY <1>6, <2>2, <2>3, <2>4, RunsKept
<1>11. AnswerNamesOwnProcess'
  BY <1>1, RepliesKept DEF Inv
<1> QED  BY <1>4, <1>6, <1>7, <1>8, <1>9, <1>10, <1>11 DEF Inv

\* The call's task is killed.
LEMMA KillCommandInv ==
    ASSUME Inv, NEW c \in Commands, KillCommand(c)
    PROVE  Inv'
<1>1. /\ pc[c] \in InFlight
      /\ pc' = [pc EXCEPT ![c] = IF pc[c] = "yielding" THEN "detached" ELSE "killed"]
      /\ pruned' = [pruned EXCEPT ![c] = "none"]
      /\ UNCHANGED <<id, watch, ends, reply, processes, reserved, used, sweeping, writing,
                     unreserved>>
  BY DEF KillCommand, store
<1> PICK dropped \in SUBSET (ToStore \cap {c}) :
         /\ proc' = Terminated(dropped)
         /\ lost' = lost \cup ((ToStore \cap {c}) \ dropped) \cup ({pruned[c]} \ {"none"})
  BY DEF KillCommand
<1>2. Types /\ PcInv
  BY DEF Inv
<1>3. /\ proc' \in [Commands -> {"none", "running", "dying", "exited"}]
      /\ \A d \in Commands : /\ proc'[d] = "none" <=> proc[d] = "none"
                             /\ proc'[d] = "running" => proc[d] = "running"
      /\ pc[c] \in {"begun", "storing"} => proc'[c] # "running" \/ c \in lost'
  <2>1. dropped \subseteq Commands
    OBVIOUS
  <2>2. CASE c \in dropped
    BY <1>2, <2>1, <2>2, TerminatedFacts
  <2>3. CASE c \notin dropped
    <3>1. pc[c] \in {"begun", "storing"} => c \in lost'
      BY <2>3 DEF ToStore
    <3> QED  BY <1>2, <2>1, <3>1, TerminatedFacts
  <2> QED  BY <2>2, <2>3
<1>4. Types'
  <2>1. pc' \in [Commands -> Pcs] /\ pruned' \in [Commands -> Commands \cup {"none"}]
    BY <1>1, <1>2 DEF Types, Pcs
  <2>2. lost' \subseteq Commands
    BY <1>2 DEF Types, ToStore
  <2> QED  BY <1>1, <1>2, <1>3, <2>1, <2>2 DEF Types
<1>5. \A d \in Commands : /\ pc[d] \in Kept => pc'[d] \in Kept
                          /\ pc'[d] \in {"begun", "storing"} => pc[d] \in {"begun", "storing"}
                          /\ pc'[d] \in InFlight => pc[d] \in InFlight
  BY <1>1, <1>2 DEF Types, Kept, InFlight
<1>6. StoreInv' /\ Stored' = Stored
  BY <1>1, <1>2, <1>4, <1>5, StoreUntouched DEF Inv
<1>7. PcInv'
  <2>1. \A d \in Commands : /\ pc'[d] = "idle" <=> pc[d] = "idle"
                            /\ pc'[d] = "allocated" => pc[d] = "allocated"
                            /\ pruned'[d] # "none" => pruned[d] # "none" /\ pc'[d] = pc[d]
    BY <1>1, <1>2 DEF Types, InFlight
  <2> QED  BY <1>1, <1>2, <1>3, <2>1, PcKept DEF Types
<1>8. EndInv'
  <2> SUFFICES ASSUME NEW d \in Commands
               PROVE  EndOnce(d)'
    BY DEF EndInv
  <2>1. EndOnce(d)
    BY DEF Inv, EndInv
  <2>2. CASE d = c
    BY <1>1, <1>2, <2>1, <2>2 DEF EndOnce, Types, InFlight
  <2>3. CASE d # c
    <3>1. pc'[d] = pc[d] /\ (d \in watch' <=> d \in watch)
      BY <1>1, <1>2, <2>3 DEF Types
    <3> QED  BY <1>1, <1>3, <2>1, <3>1, EndKept
  <2> QED  BY <2>2, <2>3
<1>9. WriteInv'
  BY <1>1, WriteIdle DEF Inv, WriteInv
<1>10. NoOrphanProcess'
  <2>1. \A d, e \in Commands : pruned[e] = d => pruned'[e] = d \/ d \in lost'
    BY <1>1, <1>2, IdsAreNoMarks DEF Types
  <2>2. \A d \in Commands : (d # c /\ pc[d] \in {"begun", "storing"}) =>
                                pc'[d] \in {"begun", "storing"}
    BY <1>1, <1>2 DEF Types
  <2>3. lost \subseteq lost'
    OBVIOUS
  <2>4. NoOrphanProcess
    BY DEF Inv
  <2> QED  BY <1>1, <1>3, <1>6, <2>1, <2>2, <2>3, <2>4, RunsKept
<1>11. AnswerNamesOwnProcess'
  BY <1>1, RepliesKept DEF Inv
<1> QED  BY <1>4, <1>6, <1>7, <1>8, <1>9, <1>10, <1>11 DEF Inv
-----------------------------------------------------------------------------
(* write_stdin *)

\* write_stdin looks its process up.
LEMMA PrepareWriteInv ==
    ASSUME Inv, NEW i \in Ids, PrepareWrite(i)
    PROVE  Inv'
<1>1. /\ writing = Idle /\ NoCommandInFlight /\ processes[i] # "none"
      /\ writing' = <<i, processes[i]>> /\ Use(processes[i], Stored)
      /\ UNCHANGED <<pc, id, proc, watch, ends, reply, processes, reserved, pruned, sweeping,
                     unreserved, lost>>
  BY DEF PrepareWrite, ghosts, store
<1>2. Types /\ PcInv /\ StoreInv
  BY DEF Inv
<1>3. /\ Stored' = Stored /\ Stored \subseteq Commands /\ processes[i] \in Stored
      /\ ToStore = {} /\ ToStore' = {}
  BY <1>1, <1>2, StoredFacts DEF Stored, StoreInv, ToStore, NoCommandInFlight, InFlight
<1>4. OrderInv' /\ used' \in [Commands -> SUBSET Commands]
  <2>1. Ordered(Stored)
    BY <1>2, <1>3 DEF StoreInv, OrderInv
  <2>2. Orders(used', Stored \cup {processes[i]}) /\ used' \in [Commands -> SUBSET Commands]
    BY <1>1, <1>2, <1>3, <2>1, UseOrders
  <2>3. (Stored \cup ToStore)' = Stored \cup {processes[i]}
    BY <1>3
  <2> QED  BY <2>2, <2>3 DEF OrderInv, Ordered
<1>5. Types'
  BY <1>1, <1>2, <1>3, <1>4 DEF Types
<1>6. PcInv' /\ EndInv'
  BY <1>1, <1>2 DEF Inv, PcInv, EndInv, EndOnce
<1>7. StoreInv'
  BY <1>1, <1>2, <1>3, <1>4
    DEF StoreInv, EntryInv, SizeInv, ReservedInv, UniqueInv, Holds, IdLost
<1>8. WriteInv'
  BY <1>1 DEF WriteInv, NoCommandInFlight
<1>9. NoOrphanProcess'
  BY <1>1, <1>3, RunsKept DEF Inv
<1>10. AnswerNamesOwnProcess'
  BY <1>1, RepliesKept DEF Inv
<1> QED  BY <1>5, <1>6, <1>7, <1>8, <1>9, <1>10 DEF Inv

\* What write_stdin removes is its own process, and no call is under way.
LEMMA WriteStepInv ==
    ASSUME Inv, WriteStep
    PROVE  Inv'
<1>1. /\ writing # Idle /\ writing' = Idle
      /\ UNCHANGED <<pc, id, watch, ends, reply, used, pruned, sweeping, unreserved, lost>>
  BY DEF WriteStep, AnswerWrite, FailWrite, ghosts
<1>2. Types /\ PcInv /\ NoCommandInFlight /\ processes[writing[1]] \in {writing[2], "none"}
  BY <1>1 DEF Inv, WriteInv
<1>3. PICK i \in Ids, p \in Commands : writing = <<i, p>> /\ processes[i] \in {p, "none"}
  BY <1>1, <1>2 DEF Types
<1>4. /\ \A j \in Ids : processes'[j] = processes[j] \/ (j = i /\ processes'[j] = "none")
      /\ \A j \in reserved : j \in reserved' \/ (j = i /\ processes'[j] = "none")
      /\ reserved' \subseteq reserved /\ processes' \in [Ids -> Commands \cup {"none"}]
  BY <1>2, <1>3 DEF WriteStep, AnswerWrite, FailWrite, Refresh, RemoveEntry, store, Types
<1>5. /\ proc' \in [Commands -> {"none", "running", "dying", "exited"}]
      /\ \A d \in Commands : /\ proc'[d] = "none" <=> proc[d] = "none"
                             /\ proc'[d] = "running" => proc[d] = "running"
      /\ processes' = processes \/ proc'[p] # "running" \/ processes[i] = "none"
  <2>1. CASE AnswerWrite
    BY <1>2, <1>3, <2>1 DEF AnswerWrite, Refresh, store, Types
  <2>2. CASE FailWrite
    BY <1>2, <1>3, <2>2, TerminatedFacts DEF FailWrite
  <2> QED  BY <2>1, <2>2 DEF WriteStep
<1>6. Types'
  BY <1>1, <1>2, <1>4, <1>5 DEF Types
<1>7. PcInv'
  BY <1>1, <1>2, <1>5 DEF PcInv
<1>8. EndInv'
  BY <1>1, <1>5 DEF Inv, EndInv, EndOnce
<1>9. Stored' \subseteq Stored /\ EntryInv' /\ OrderInv' /\ SizeInv'
  BY <1>1, <1>2, <1>4, <1>6, EntriesShrink DEF Inv
<1>10. ReservedInv' /\ UniqueInv'
  <2>1. ASSUME NEW d \in Commands, Holds(d)', id[d] \in reserved
        PROVE  id[d] \in reserved'
    <3>1. d \in Stored'
      BY <1>1, <1>2, <2>1 DEF Holds, NoCommandInFlight
    <3>2. processes'[id[d]] = d
      BY <1>1, <1>6, <1>9, <3>1, StoredFacts DEF EntryInv, Stored
    <3> QED  BY <1>4, <2>1, <3>2, IdsAreNoMarks
  <2> QED  BY <1>1, <1>2, <1>6, <1>9, <2>1, IdsKept DEF Inv
<1>11. WriteInv'
  BY <1>1 DEF WriteInv
<1>12. NoOrphanProcess'
  <2>1. ASSUME NEW d \in Commands, d \in Stored, d \notin Stored'
        PROVE  d = p /\ processes' # processes /\ processes[i] # "none"
    <3>1. processes[id[d]] = d /\ id[d] \in Ids /\ d # "none"
      BY <1>2, <2>1, StoredFacts, IdsAreNoMarks DEF Inv, StoreInv
    <3>2. id[d] = i /\ processes' # processes
      BY <1>4, <2>1, <3>1 DEF Stored
    <3> QED  BY <1>3, <3>1, <3>2
  <2> QED  BY <1>1, <1>5, <2>1, RunsKept DEF Inv
<1>13. AnswerNamesOwnProcess'
  BY <1>1, RepliesKept DEF Inv
<1> QED  BY <1>6, <1>7, <1>8, <1>9, <1>10, <1>11, <1>12, <1>13 DEF Inv, StoreInv
-----------------------------------------------------------------------------
(* terminate_all_processes, processes and watchers *)

\* terminate_all_processes empties the store.
LEMMA SweepInv ==
    ASSUME Inv, Sweep
    PROVE  Inv'
<1>1. /\ sweeping = {} /\ sweeping' = Stored /\ processes' = [i \in Ids |-> "none"]
      /\ reserved' = {} /\ unreserved' = unreserved \cup {c \in Commands : pc[c] \in InFlight}
      /\ UNCHANGED <<pc, id, proc, watch, ends, reply, used, pruned, writing, lost>>
  BY DEF Sweep
<1>2. Types /\ PcInv /\ StoreInv
  BY DEF Inv
<1>3. Stored' = {} /\ Stored \subseteq Commands
  BY <1>1, <1>2, StoredFacts DEF Stored, StoreInv
<1>4. Types'
  BY <1>1, <1>2, <1>3 DEF Types
<1>5. PcInv' /\ EndInv'
  BY <1>1, <1>2 DEF Inv, PcInv, EndInv, EndOnce, InFlight
<1>6. EntryInv' /\ OrderInv' /\ SizeInv'
  BY <1>1, <1>2, <1>4, EntriesShrink
<1>7. ReservedInv' /\ UniqueInv'
  <2>1. \A c \in Commands : Holds(c)' => IdLost(c)'
    BY <1>1, <1>3 DEF Holds, IdLost
  <2> QED  BY <2>1 DEF ReservedInv, UniqueInv
<1>8. WriteInv'
  BY <1>1, <1>2 DEF Inv, WriteInv, NoCommandInFlight, Types
<1>9. NoOrphanProcess'
  BY <1>1, RunsKept DEF Inv
<1>10. AnswerNamesOwnProcess'
  BY <1>1, RepliesKept DEF Inv
<1> QED  BY <1>4, <1>5, <1>6, <1>7, <1>8, <1>9, <1>10 DEF Inv, StoreInv

\* The sweep terminates a process it took; a process exits; the network was
\* denied to one.
LEMMA ProcessStepInv ==
    ASSUME Inv, NEW c \in Commands, TerminateSwept(c) \/ Exit(c) \/ NetworkDenied(c)
    PROVE  Inv'
<1>1. UNCHANGED <<pc, id, watch, ends, reply, processes, reserved, used, pruned, writing,
                  unreserved, lost>>
  BY DEF TerminateSwept, Exit, NetworkDenied, ghosts, store
<1>2. Types /\ PcInv
  BY DEF Inv
<1>3. /\ proc' \in [Commands -> {"none", "running", "dying", "exited"}]
      /\ sweeping' \subseteq Commands
      /\ \A d \in Commands : /\ proc'[d] = "none" <=> proc[d] = "none"
                             /\ proc'[d] = "running" =>
                                  proc[d] = "running" /\ (d \in sweeping => d \in sweeping')
  <2>1. CASE TerminateSwept(c)
    BY <1>2, <2>1, TerminatedFacts DEF TerminateSwept, Types
  <2>2. CASE Exit(c)
    BY <1>2, <2>2 DEF Exit, Types
  <2>3. CASE NetworkDenied(c)
    BY <1>2, <2>3, TerminatedFacts DEF NetworkDenied, Types
  <2> QED  BY <2>1, <2>2, <2>3
<1>4. Types'
  BY <1>1, <1>2, <1>3 DEF Types
<1>5. StoreInv' /\ Stored' = Stored
  BY <1>1, <1>2, <1>4, StoreUntouched DEF Inv
<1>6. PcInv'
  BY <1>1, <1>2, <1>3 DEF PcInv
<1>7. EndInv'
  BY <1>1, <1>3 DEF Inv, EndInv, EndOnce
<1>8. WriteInv'
  BY <1>1 DEF Inv, WriteInv, NoCommandInFlight
<1>9. NoOrphanProcess'
  BY <1>1, <1>3, <1>5, RunsKept DEF Inv
<1>10. AnswerNamesOwnProcess'
  BY <1>1, RepliesKept DEF Inv
<1> QED  BY <1>4, <1>5, <1>6, <1>7, <1>8, <1>9, <1>10 DEF Inv

\* The exit watcher reports the end.
LEMMA WatcherEndsInv ==
    ASSUME Inv, NEW c \in Commands, WatcherEnds(c)
    PROVE  Inv'
<1>1. /\ c \in watch /\ watch' = watch \ {c} /\ ends' = [ends EXCEPT ![c] = @ + 1]
      /\ UNCHANGED <<pc, id, proc, reply, processes, reserved, used, pruned, sweeping, writing,
                     unreserved, lost>>
  BY DEF WatcherEnds, ghosts, store
<1>2. Types /\ PcInv
  BY DEF Inv
<1>3. ends' = [ends EXCEPT ![c] = 1]
  <2>1. ends[c] = 0
    BY <1>1 DEF Inv, EndInv, EndOnce
  <2> QED  BY <1>1, <2>1
<1>4. Types'
  BY <1>1, <1>2, <1>3 DEF Types
<1>5. StoreInv' /\ Stored' = Stored
  BY <1>1, <1>2, <1>4, StoreUntouched DEF Inv
<1>6. PcInv'
  BY <1>1, <1>2 DEF PcInv
<1>7. EndInv'
  BY <1>1, <1>2, <1>3 DEF Inv, Types, EndInv, EndOnce
<1>8. WriteInv'
  BY <1>1 DEF Inv, WriteInv, NoCommandInFlight
<1>9. NoOrphanProcess'
  BY <1>1, <1>5, RunsKept DEF Inv
<1>10. AnswerNamesOwnProcess'
  BY <1>1, RepliesKept DEF Inv
<1> QED  BY <1>4, <1>5, <1>6, <1>7, <1>8, <1>9, <1>10 DEF Inv
-----------------------------------------------------------------------------
(* The theorems *)

\* The invariant holds at the start.
LEMMA InitInv ==
    ASSUME Init
    PROVE  Inv
<1>1. Stored = {} /\ ToStore = {} /\ NoCommandInFlight
  BY DEF Init, Stored, ToStore, NoCommandInFlight, InFlight
<1>2. Types
  BY DEF Init, Types, Pcs, InFlight
<1>3. PcInv /\ EndInv /\ WriteInv
  BY DEF Init, PcInv, EndInv, EndOnce, WriteInv
<1>4. StoreInv
  BY <1>1, FS_EmptySet, LimitsAssumption
    DEF Init, StoreInv, EntryInv, ReservedInv, UniqueInv, Holds, InFlight, OrderInv, Ordered,
        Orders, SizeInv
<1>5. NoOrphanProcess /\ AnswerNamesOwnProcess
  BY DEF Init, NoOrphanProcess, AnswerNamesOwnProcess
<1> QED  BY <1>2, <1>3, <1>4, <1>5 DEF Inv

\* Every step keeps it.
LEMMA NextInv ==
    ASSUME Inv, [Next]_vars
    PROVE  Inv'
<1>1. CASE UNCHANGED vars
  <2>1. Types /\ Types' /\ StoreInv
    BY <1>1 DEF Inv, Types, vars
  <2>2. StoreInv' /\ Stored' = Stored
    BY <1>1, <2>1, StoreUntouched DEF vars
  <2>3. PcInv' /\ EndInv' /\ WriteInv'
    BY <1>1 DEF Inv, PcInv, EndInv, EndOnce, WriteInv, NoCommandInFlight, vars
  <2>4. NoOrphanProcess' /\ AnswerNamesOwnProcess'
    BY <1>1, <2>2, RunsKept, RepliesKept DEF Inv, vars
  <2> QED  BY <2>1, <2>2, <2>3, <2>4 DEF Inv
<1>2. ASSUME NEW c \in Commands, CommandStep(c)
      PROVE  Inv'
  BY <1>2, OpenFailsInv, OpenSessionInv, StartedAliveInv, StoreProcessInv, TerminatePrunedInv,
     AnswerAfterYieldInv, FailAfterYieldInv, EndShortLivedInv DEF CommandStep
<1>3. ASSUME NEW c \in Commands,
             \/ AllocateProcessId(c) \/ CommandStep(c) \/ KillCommand(c)
             \/ TerminateSwept(c) \/ Exit(c) \/ NetworkDenied(c) \/ WatcherEnds(c)
      PROVE  Inv'
  BY <1>2, <1>3, AllocateProcessIdInv, KillCommandInv, ProcessStepInv, WatcherEndsInv
<1>4. CASE (\E i \in Ids : PrepareWrite(i)) \/ WriteStep \/ Sweep
  BY <1>4, PrepareWriteInv, WriteStepInv, SweepInv
<1> QED  BY <1>1, <1>3, <1>4 DEF Next

\* It holds of every behaviour.
LEMMA SpecInv == Spec => []Inv
<1>1. Init => Inv
  BY InitInv
<1>2. Inv /\ [Next]_vars => Inv'
  BY NextInv
<1> QED  BY <1>1, <1>2, PTL DEF Spec

\* The variables of the store keep their types, and the store its limit: every
\* store_process makes room first, however many calls store side by side.
THEOREM ProcessStoreTyped == Spec => []TypeOK
<1>1. Inv => TypeOK
  BY DEF Inv, Types, StoreInv, SizeInv, TypeOK, Pcs
<1> QED  BY <1>1, SpecInv, PTL

\* A command never sends two end events, and one whose process has ended has
\* sent it or its watcher will, whatever pruned, swept or killed it.
THEOREM EndsReportedOnce == Spec => []EndReportedOnce
<1>1. Inv => EndReportedOnce
  BY DEF Inv, EndInv, EndOnce, EndReportedOnce
<1> QED  BY <1>1, SpecInv, PTL

\* Outside the windows in which an id is lost, or a call is killed that has
\* pruned a process or holds one it shares with the task waiting for a network
\* denial, every running process is stored or in the hands of a call or a sweep.
THEOREM NoProcessIsOrphaned == Spec => []NoOrphanProcess
<1>1. Inv => NoOrphanProcess
  BY DEF Inv
<1> QED  BY <1>1, SpecInv, PTL

\* Unless its id was lost under way, the id exec_command answers with leads to
\* its own process.
THEOREM AnswersNameOwnProcess == Spec => []AnswerNamesOwnProcess
<1>1. Inv => AnswerNamesOwnProcess
  BY DEF Inv
<1> QED  BY <1>1, SpecInv, PTL
=============================================================================
