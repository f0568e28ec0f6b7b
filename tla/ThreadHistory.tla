--------------------------- MODULE ThreadHistory ---------------------------
(***************************************************************************)
(* The model-visible history of a thread and the rollout it is rebuilt     *)
(* from: core/src/context_manager, core/src/compact.rs, the recording half *)
(* of core/src/session/{mod,turn}.rs, thread_rollback in handlers.rs and   *)
(* session/rollout_reconstruction.rs.                                      *)
(*                                                                         *)
(* The session keeps the history in memory and appends to the rollout what *)
(* it does.  A resumed session, and a rollback of the running one, rebuild *)
(* history, context baseline and previous turn settings from the rollout:  *)
(* a scan from the newest record back decides what survives, a replay of   *)
(* the suffix it selects yields the items.                                 *)
(*                                                                         *)
(* An item is a kind, the turn that recorded it and a payload: the         *)
(* settings a context message describes, a call id, or the number of a     *)
(* user message within its turn.  Texts, token counts and images are       *)
(* abstracted away.  Rollout lines of older versions (compactions without  *)
(* replacement history, turns without ids) are not modelled.               *)
(***************************************************************************)
EXTENDS Integers, Sequences, SequencesExt

CONSTANTS
    Settings,        \* values of a turn context (model, cwd, policies ...)
    CompactKeep,     \* user messages within COMPACT_USER_MESSAGE_MAX_TOKENS
    MaxTurns,        \* turns and compact tasks started
    MaxDeviations    \* steps that leave the path of a plain question and answer

ASSUME BoundsAreNaturals == {CompactKeep, MaxTurns, MaxDeviations} \subseteq Nat
ASSUME SettingsAreNoMarks == {"none", "never", "cleared"} \cap Settings = {}

VARIABLES
    items,       \* ContextManager::items of the live session
    baseline,    \* ContextManager::reference_context_item, or "none"
    previous,    \* SessionState::previous_turn_settings, or "none"
    rollout,     \* the records appended to the rollout file
    durable,     \* how many of them the last flush covered
    phase,       \* where the running task is, or "idle"
    turn,        \* the turn last started
    setting,     \* its TurnContext
    deviations   \* how many unusual steps were taken

vars == <<items, baseline, previous, rollout, durable, phase, turn, setting, deviations>>
-----------------------------------------------------------------------------
(* Response items *)

Item(k, t, v) == [k |-> k, t |-> t, v |-> v]

\* "context" is the mixed bundle of build_initial_context, "update" a settings
\* diff, "marker" the interrupted-turn marker, "goal" a goal continuation.
ItemKinds == {"context", "update", "user", "mail", "goal", "marker",
              "agent", "call", "output", "summary"}

\* is_user_turn_boundary: the compaction summary is a user message too.
IsUserTurnBoundary(i) == i.k \in {"user", "mail", "summary"}

\* is_contextual_dev_message_content, is_contextual_user_message_content
IsContextual(i) == i.k \in {"context", "update", "goal", "marker"}

\* The members of S up to n, in order.
Ascending(S, n) ==
    LET up[p \in 0 .. n] == IF p = 0 THEN <<>>
                            ELSE IF p \in S THEN Append(up[p - 1], p) ELSE up[p - 1]
    IN up[n]

\* The items of h at the positions in S, in order.
ItemsAt(h, S) ==
    LET at == Ascending(S, Len(h)) IN [x \in DOMAIN at |-> h[at[x]]]

UserMessagePositions(h) ==
    Ascending({p \in DOMAIN h : IsUserTurnBoundary(h[p])}, Len(h))

\* trim_pre_turn_context_updates: the updates recorded ahead of the first
\* dropped message go with it, but not what precedes the first instruction.
TrimPreTurnContextUpdates(h, first, cut) ==
    Min({c \in first .. cut : \A p \in c .. (cut - 1) : IsContextual(h[p])})

\* Mutant: one turn too many is dropped.
DropLastNUserTurns_OneMore(h, n) ==
    LET positions == UserMessagePositions(h)
        first == Head(positions)
        cut == IF n + 1 >= Len(positions) THEN first ELSE positions[Len(positions) - n]
    IN IF n = 0 \/ positions = <<>> THEN h
       ELSE SubSeq(h, 1, TrimPreTurnContextUpdates(h, first, cut) - 1)

DropLastNUserTurns(h, n) ==
    LET positions == UserMessagePositions(h)
        first == Head(positions)
        cut == IF n >= Len(positions) THEN first ELSE positions[Len(positions) - n + 1]
    IN IF n = 0 \/ positions = <<>> THEN h
       ELSE SubSeq(h, 1, TrimPreTurnContextUpdates(h, first, cut) - 1)

\* ensure_call_outputs_present: a synthetic output right behind each call that
\* has none anywhere.
EnsureCallOutputsPresent(h) ==
    LET Answered(i) == \E p \in DOMAIN h : h[p].k = "output" /\ h[p].v = i.v
        Completed(i) == IF i.k = "call" /\ ~Answered(i)
                        THEN <<i, Item("output", i.t, i.v)>> ELSE <<i>>
        upTo[p \in 0 .. Len(h)] == IF p = 0 THEN <<>> ELSE upTo[p - 1] \o Completed(h[p])
    IN upTo[Len(h)]

RemoveOrphanOutputs(h) ==
    ItemsAt(h, {p \in DOMAIN h : h[p].k = "output" =>
                   \E q \in DOMAIN h : h[q].k = "call" /\ h[q].v = h[p].v})

\* Mutant: calls cut off by a crash or an interrupt are sent without output.
ForPrompt_OrphansOnly(h) == RemoveOrphanOutputs(h)

ForPrompt(h) == RemoveOrphanOutputs(EnsureCallOutputsPresent(h))

\* remove_first_item: the first counterpart of a removed call or output goes too.
RemoveFirstItem(h) ==
    LET gone == Head(h)
        Twin(i) == /\ <<gone.k, i.k>> \in {<<"call", "output">>, <<"output", "call">>}
                   /\ i.v = gone.v
    IN IF h = <<>> THEN h ELSE RemoveFirstMatch(Tail(h), Twin)

\* The loop of run_compact_task_inner_impl that makes the request fit: the history
\* without its oldest item, n times.
WithoutOldest(h, n) ==
    LET rest[m \in 0 .. n] == IF m = 0 THEN h ELSE RemoveFirstItem(rest[m - 1])
    IN rest[n]
-----------------------------------------------------------------------------
(* Compaction *)

\* collect_user_messages and build_compacted_history: the newest user messages
\* that fit, and the summary.
BuildCompactedHistory(h, summary) ==
    LET users == ItemsAt(h, {p \in DOMAIN h : h[p].k = "user"})
        kept == IF Len(users) <= CompactKeep THEN users
                ELSE SubSeq(users, Len(users) - CompactKeep + 1, Len(users))
    IN Append(kept, summary)

\* insert_initial_context_before_last_real_user_or_summary
InsertInitialContext(h, context) ==
    LET real == Ascending({p \in DOMAIN h : h[p].k = "user"}, Len(h))
        at == IF real # <<>> THEN Last(real) ELSE Len(h)
    IN InsertAt(h, at, context)
-----------------------------------------------------------------------------
(* Rollout records *)

Started(t) == [k |-> "started", t |-> t]
Ended(k, t) == [k |-> k, t |-> t]
Response(i) == [k |-> "item", i |-> i]
TurnContext(t, v) == [k |-> "context", t |-> t, v |-> v]
Compacted(h) == [k |-> "compacted", h |-> h]
RolledBack(n) == [k |-> "rolled_back", n |-> n]

\* An ActiveReplaySegment; base is <<>> or <<replacement history>>.
NewSegment == [t |-> 0, user |-> FALSE, previous |-> "none", ref |-> "never", base |-> <<>>]

NewScan == [seg |-> <<>>, base |-> <<>>, previous |-> "none", ref |-> "never",
            pending |-> 0, from |-> 1, done |-> FALSE]

\* Mutant: a compaction outside a user turn does not clear the baseline.
FinalizeActiveSegment_UserOnly(s) ==
    LET g == s.seg[1]
        closed == [s EXCEPT !.seg = <<>>]
    IN IF s.pending > 0
       THEN [closed EXCEPT !.pending = IF g.user THEN @ - 1 ELSE @]
       ELSE [closed EXCEPT
                !.base = IF @ = <<>> THEN g.base ELSE @,
                !.previous = IF @ = "none" /\ g.user THEN g.previous ELSE @,
                !.ref = IF @ = "never" /\ g.user THEN g.ref ELSE @]

FinalizeActiveSegment(s) ==
    LET g == s.seg[1]
        closed == [s EXCEPT !.seg = <<>>]
    IN IF s.pending > 0
       THEN [closed EXCEPT !.pending = IF g.user THEN @ - 1 ELSE @]
       ELSE [closed EXCEPT
                !.base = IF @ = <<>> THEN g.base ELSE @,
                !.previous = IF @ = "none" /\ g.user THEN g.previous ELSE @,
                !.ref = IF @ = "never" /\ (g.user \/ g.ref = "cleared") THEN g.ref ELSE @]

\* One record of the reverse scan.
ScanRecord(s, r, p) ==
    LET rec == r[p]
        g == IF s.seg = <<>> THEN NewSegment ELSE s.seg[1]
        named(t) == IF g.t = 0 THEN t ELSE g.t
    IN CASE rec.k = "compacted" ->
              [s EXCEPT !.seg = <<[g EXCEPT !.ref = IF @ = "never" THEN "cleared" ELSE @,
                                            !.base = IF @ = <<>> THEN <<rec.h>> ELSE @]>>,
                        !.from = IF g.base = <<>> THEN p + 1 ELSE @]
         [] rec.k = "rolled_back" -> [s EXCEPT !.pending = @ + rec.n]
         [] rec.k \in {"complete", "aborted"} ->
              [s EXCEPT !.seg = <<[g EXCEPT !.t = named(rec.t)]>>]
         [] rec.k = "context" ->
              [s EXCEPT !.seg = <<
                  IF named(rec.t) = rec.t
                  THEN [g EXCEPT !.t = rec.t, !.previous = rec.v,
                                 !.ref = IF @ = "never" THEN rec.v ELSE @]
                  ELSE g>>]
         [] rec.k = "started" ->
              IF s.seg # <<>> /\ named(rec.t) = rec.t THEN FinalizeActiveSegment(s) ELSE s
         [] rec.k = "item" ->
              [s EXCEPT !.seg = <<[g EXCEPT !.user = @ \/ IsUserTurnBoundary(rec.i)]>>]

\* The scan stops once base, settings and baseline are known.
ScanStep(s, r, p) ==
    LET next == ScanRecord(s, r, p)
    IN IF s.done THEN s
       ELSE [next EXCEPT !.done = next.base # <<>> /\ next.previous # "none" /\ next.ref # "never"]

\* Scan(r)[p] is the scan behind the records from the newest back to p.
Scan(r) ==
    LET scan[p \in 1 .. Len(r) + 1] ==
            IF p = Len(r) + 1 THEN NewScan ELSE ScanStep(scan[p + 1], r, p)
    IN scan

ReverseScan(r) ==
    LET scanned == Scan(r)[1]
    IN IF scanned.seg = <<>> THEN scanned ELSE FinalizeActiveSegment(scanned)

\* The forward replay of the selected suffix.
ReplayRecord(h, rec) ==
    CASE rec.k = "item" -> Append(h, rec.i)
      [] rec.k = "compacted" -> rec.h
      [] rec.k = "rolled_back" -> DropLastNUserTurns(h, rec.n)
      [] OTHER -> h

\* Replay(r, from, base)[p] is the history behind the records from .. p.
Replay(r, from, base) ==
    LET history[p \in from - 1 .. Len(r)] ==
            IF p < from THEN base ELSE ReplayRecord(history[p - 1], r[p])
    IN history

ReconstructHistoryFromRollout(r) ==
    LET s == ReverseScan(r)
        base == IF s.base = <<>> THEN <<>> ELSE s.base[1]
    IN [items |-> Replay(r, s.from, base)[Len(r)],
        previous |-> s.previous,
        baseline |-> IF s.ref \in Settings THEN s.ref ELSE "none"]
-----------------------------------------------------------------------------
(* The session *)

Init ==
    /\ items = <<>> /\ baseline = "none" /\ previous = "none"
    /\ rollout = <<>> /\ durable = 0
    /\ phase = "idle" /\ turn = 0 /\ setting = "none"
    /\ deviations = 0

Deviate == deviations < MaxDeviations /\ deviations' = deviations + 1

Persist(recs) == rollout' = rollout \o recs

\* record_conversation_items: the history first, then the rollout.  An
\* idealisation makes them one step: a crash between the two is a restart that
\* lost the record, but a second recorder in between, and an append that fails
\* and is only logged, are left out.
RecordConversationItems(new) ==
    /\ items' = items \o new
    /\ Persist([n \in DOMAIN new |-> Response(new[n])])

\* A regular task begins: TurnStarted, then run_turn under the settings v.
StartTurn(v) ==
    /\ phase = "idle" /\ turn < MaxTurns
    /\ turn' = turn + 1 /\ setting' = v /\ phase' = "started"
    /\ Persist(<<Started(turn')>>)
    /\ UNCHANGED <<items, baseline, previous, durable, deviations>>

\* The task of Op::Compact begins.
StartCompactTask(v) ==
    /\ phase = "idle" /\ turn < MaxTurns
    /\ turn' = turn + 1 /\ setting' = v /\ phase' = "compact_task"
    /\ Persist(<<Started(turn')>>)
    /\ UNCHANGED <<items, baseline, previous, durable, deviations>>

\* Mutant: a compaction that injects no context keeps the baseline.
Compact_KeepsBaseline(inject) ==
    LET asked == Append(items, Item("agent", turn, Len(rollout)))
        built == BuildCompactedHistory(asked, Item("summary", turn, Len(rollout)))
        new == IF inject
               THEN InsertInitialContext(built, Item("context", turn, setting)) ELSE built
    IN /\ Deviate
       /\ items' = new
       /\ baseline' = IF inject THEN setting ELSE baseline
       /\ Persist(<<Response(Last(asked)), Compacted(new)>>
                  \o (IF inject THEN <<TurnContext(turn, setting)>> ELSE <<>>))
       /\ UNCHANGED <<previous, durable, turn, setting>>

\* run_compact_task_inner_impl with replace_compacted_history: the model's
\* summary is recorded as an ordinary item, then the history is replaced; memory
\* and rollout change in one step, as in RecordConversationItems.
Compact(inject) ==
    LET asked == Append(items, Item("agent", turn, Len(rollout)))
        built == BuildCompactedHistory(asked, Item("summary", turn, Len(rollout)))
        new == IF inject
               THEN InsertInitialContext(built, Item("context", turn, setting)) ELSE built
    IN /\ Deviate
       /\ items' = new
       /\ baseline' = IF inject THEN setting ELSE "none"
       /\ Persist(<<Response(Last(asked)), Compacted(new)>>
                  \o (IF inject THEN <<TurnContext(turn, setting)>> ELSE <<>>))
       /\ UNCHANGED <<previous, durable, turn, setting>>

\* Pre-turn compaction; a PostCompact hook may stop the turn behind it.
PreTurnCompact ==
    /\ phase = "started"
    /\ phase' \in {"started", "ending"}
    /\ Compact(FALSE)

ManualCompact ==
    /\ phase = "compact_task"
    /\ phase' = "ending"
    /\ Compact(FALSE)

\* Mid-turn compaction, when the model needs a follow-up request.
MidTurnCompact ==
    /\ phase = "follow_up"
    /\ phase' \in {"sampling", "ending"}
    /\ Compact(TRUE)

\* The compaction request fails, or a PreCompact hook stops it.
CompactFails ==
    /\ phase \in {"started", "compact_task", "follow_up"}
    /\ phase' = "ending"
    /\ Deviate
    /\ UNCHANGED <<items, baseline, previous, rollout, durable, turn, setting>>

\* record_context_updates_and_set_reference_context_item: everything when there
\* is no baseline, otherwise what changed.
RecordContextUpdates ==
    LET new == CASE baseline = "none" -> <<Item("context", turn, setting)>>
                 [] baseline \notin {"none", setting} -> <<Item("update", turn, setting)>>
                 [] OTHER -> <<>>
    IN /\ phase = "started" /\ phase' = "inputs"
       /\ items' = items \o new
       /\ Persist([n \in DOMAIN new |-> Response(new[n])] \o <<TurnContext(turn, setting)>>)
       /\ baseline' = setting
       /\ UNCHANGED <<previous, durable, turn, setting, deviations>>

\* run_hooks_and_record_inputs accepts the turn's input: a prompt, mail of
\* another agent, or the hidden prompt of a goal continuation.
RecordInput(kind) ==
    /\ phase = "inputs" /\ phase' = "sampling"
    /\ RecordConversationItems(<<Item(kind, turn, 1)>>)
    /\ previous' = setting
    /\ IF kind = "user" THEN UNCHANGED deviations ELSE Deviate
    /\ UNCHANGED <<baseline, durable, turn, setting>>

\* A hook stops the turn ahead of its input.
BlockInput ==
    /\ phase = "inputs" /\ phase' = "ending"
    /\ Deviate
    /\ UNCHANGED <<items, baseline, previous, rollout, durable, turn, setting>>

\* A sampling request is answered; a call needs a follow-up request.
FinalAnswer ==
    /\ phase = "sampling" /\ phase' = "ending"
    /\ RecordConversationItems(<<Item("agent", turn, 0)>>)
    /\ UNCHANGED <<baseline, previous, durable, turn, setting, deviations>>

CallTool ==
    /\ phase = "sampling" /\ phase' = "tool"
    /\ RecordConversationItems(<<Item("call", turn, Len(rollout))>>)
    /\ Deviate
    /\ UNCHANGED <<baseline, previous, durable, turn, setting>>

ToolOutput ==
    /\ phase = "tool" /\ phase' = "follow_up"
    /\ RecordConversationItems(<<Item("output", turn, Last(items).v)>>)
    /\ UNCHANGED <<baseline, previous, durable, turn, setting, deviations>>

\* The next request of the turn, with a steered message or without one.
FollowUp ==
    /\ phase = "follow_up" /\ phase' = "sampling"
    /\ UNCHANGED <<items, baseline, previous, rollout, durable, turn, setting, deviations>>

Steer ==
    /\ phase = "follow_up" /\ phase' = "sampling"
    /\ RecordConversationItems(<<Item("user", turn, 2)>>)
    /\ UNCHANGED <<baseline, previous, durable, turn, setting, deviations>>

\* The task ends: flush, then on_task_finished sends TurnComplete.
Complete ==
    /\ phase = "ending" /\ phase' = "idle"
    /\ durable' = Len(rollout)
    /\ Persist(<<Ended("complete", turn)>>)
    /\ UNCHANGED <<items, baseline, previous, turn, setting, deviations>>

\* handle_task_abort for an interrupt: marker, flush, TurnAborted.
Abort ==
    /\ phase # "idle" /\ phase' = "idle"
    /\ items' = Append(items, Item("marker", turn, 0))
    /\ Persist(<<Response(Last(items')), Ended("aborted", turn)>>)
    /\ durable' = Len(rollout) + 1
    /\ Deviate
    /\ UNCHANGED <<baseline, previous, turn, setting>>

\* apply_rollout_reconstruction
ApplyRolloutReconstruction(r) ==
    LET rebuilt == ReconstructHistoryFromRollout(r)
    IN /\ items' = rebuilt.items
       /\ baseline' = rebuilt.baseline
       /\ previous' = rebuilt.previous

\* thread_rollback of an idle thread: the loaded records and the marker are
\* replayed, then the marker is persisted and flushed.
ThreadRollback(n) ==
    /\ phase = "idle" /\ n > 0
    /\ Deviate
    /\ ApplyRolloutReconstruction(Append(rollout, RolledBack(n)))
    /\ Persist(<<RolledBack(n)>>)
    /\ durable' = Len(rollout')
    /\ UNCHANGED <<phase, turn, setting>>

\* Mutant: the file is opened for writing without append, which empties it.
RestartAndResume_Truncates(kept) ==
    /\ Deviate
    /\ rollout' = <<>>
    /\ ApplyRolloutReconstruction(SubSeq(rollout, 1, kept))
    /\ durable' = kept
    /\ phase' = "idle"
    /\ UNCHANGED <<turn, setting>>

\* The process ends at any point, what was not flushed may be missing from the
\* file, and the thread is resumed from the rest (record_initial_history).
RestartAndResume(kept) ==
    /\ Deviate
    /\ rollout' = SubSeq(rollout, 1, kept)
    /\ ApplyRolloutReconstruction(rollout')
    /\ durable' = kept
    /\ phase' = "idle"
    /\ UNCHANGED <<turn, setting>>

Next ==
    \/ \E v \in Settings : StartTurn(v) \/ StartCompactTask(v)
    \/ PreTurnCompact \/ ManualCompact \/ MidTurnCompact \/ CompactFails
    \/ RecordContextUpdates
    \/ \E kind \in {"user", "mail", "goal"} : RecordInput(kind)
    \/ BlockInput \/ FinalAnswer \/ CallTool \/ ToolOutput \/ FollowUp \/ Steer
    \/ Complete \/ Abort
    \/ \E n \in 1 .. MaxTurns : ThreadRollback(n)
    \/ \E kept \in durable .. Len(rollout) : RestartAndResume(kept)

Spec == Init /\ [][Next]_vars
-----------------------------------------------------------------------------
(* What the records mean, turn by turn: the reference the replay is checked *)
(* against.  It reads the rollout from its first record on; a turn counts    *)
(* once it was told something, and a dropped turn takes its items along.     *)

\* The items the conversation consists of.
Spoken(h) == ItemsAt(h, {p \in DOMAIN h : ~IsContextual(h[p])})

\* items, said: what was spoken, and the prompts in it; told: the turns with an
\* instruction, in order; spoke, steered, compacted, context: the turns with
\* spoken items, with an instruction behind other spoken items, with a
\* compaction, with context items; odd: see DropTurns.
NewChronicle == [turn |-> 0, items |-> <<>>, said |-> {}, told |-> <<>>, spoke |-> {},
                 steered |-> {}, compacted |-> {}, context |-> {}, odd |-> FALSE]

ReadItem(c, i) ==
    LET spoken == IF IsContextual(i) THEN {} ELSE {i.t}
        tells == IsUserTurnBoundary(i)
        told == c.told # <<>> /\ Last(c.told) = i.t
    IN [c EXCEPT
          !.items = IF IsContextual(i) THEN @ ELSE Append(@, i),
          !.said = IF i.k = "user" THEN @ \cup {i} ELSE @,
          !.told = IF tells /\ ~told THEN Append(@, i.t) ELSE @,
          !.spoke = @ \cup spoken,
          !.steered = IF tells /\ i.t \in c.spoke THEN @ \cup {i.t} ELSE @,
          !.context = IF i.k \in {"context", "update"} THEN @ \cup {i.t} ELSE @]

\* The first turn to drop of the last n that were told something.
FirstDropped(c, n) ==
    CASE c.told = <<>> -> c.turn + 1
      [] n < Len(c.told) -> c.told[Len(c.told) - n + 1]
      [] OTHER -> Head(c.told)

\* Dropping n turns, and those behind them.  The drop is odd when it takes a
\* compaction along, reaches behind one for turns that do not exist, or takes
\* a turn that was steered.
DropTurns(c, n) ==
    LET first == FirstDropped(c, n)
        Before(S) == {t \in S : t < first}
    IN [turn |-> c.turn,
        items |-> ItemsAt(c.items, {p \in DOMAIN c.items : c.items[p].t < first}),
        said |-> {i \in c.said : i.t < first},
        told |-> SubSeq(c.told, 1, Len(c.told) - n),
        spoke |-> Before(c.spoke),
        steered |-> Before(c.steered),
        compacted |-> Before(c.compacted),
        context |-> Before(c.context),
        odd |-> \/ c.odd
                \/ \E t \in c.compacted \cup c.steered : t >= first
                \/ n > Len(c.told) /\ c.compacted # {}]

ReadRecord(c, rec) ==
    CASE rec.k = "started" -> [c EXCEPT !.turn = rec.t]
      [] rec.k = "item" -> ReadItem(c, rec.i)
      [] rec.k = "compacted" -> [c EXCEPT !.items = Spoken(rec.h),
                                          !.compacted = @ \cup {c.turn}]
      [] rec.k = "rolled_back" -> DropTurns(c, rec.n)
      [] OTHER -> c

\* Chronicle(r)[p] is the reading of the first p records.
Chronicle(r) ==
    LET read[p \in 0 .. Len(r)] ==
            IF p = 0 THEN NewChronicle ELSE ReadRecord(read[p - 1], r[p])
    IN read

Chronicled == Chronicle(rollout)[Len(rollout)]
-----------------------------------------------------------------------------
(* Properties *)

\* Every item belongs to a turn that was started, what reconstruction hands to
\* the session is a real baseline and real settings, and the file has every
\* record that a flush covered or a resume has read.
TypeOK ==
    /\ \A p \in DOMAIN items : items[p].k \in ItemKinds /\ items[p].t \in 1 .. turn
    /\ baseline \in Settings \cup {"none"}
    /\ previous \in Settings \cup {"none"}
    /\ durable \in 0 .. Len(rollout)

Rebuilt == ReconstructHistoryFromRollout(rollout)

\* A session resumed from the rollout at any moment has the history of the
\* session that wrote it, whatever turns, compactions, interrupts, rollbacks and
\* restarts lie behind (reconstruct_history_from_rollout against the live
\* ContextManager); and where the live session would inject its full context
\* again, because a compaction took it out of the history, so does that one.
ResumeYieldsLiveHistory ==
    /\ Rebuilt.items = items
    /\ baseline = "none" => Rebuilt.baseline = "none"

\* A rollback, live or replayed, drops exactly the last n turns and what was
\* recorded behind them: the scan that counts turns and the replay that counts
\* messages agree, as long as no dropped turn was compacted or steered.
RollbackDropsWholeTurns ==
    Chronicled.odd \/ Spoken(items) = Chronicled.items

\* The settings the history last told the model.
Told ==
    LET context == {p \in DOMAIN items : items[p].k \in {"context", "update"}}
    IN IF context = {} THEN "none" ELSE items[Max(context)].v

\* The baseline later turns are compared with is what the model was told last,
\* so that a turn that finds no difference may stay silent.  Not claimed behind
\* an odd rollback, nor once a turn recorded context but no instruction.
BaselineIsWhatWasTold ==
    LET c == Chronicled
        past == IF phase = "idle" THEN c.context ELSE c.context \ {turn}
    IN c.odd \/ past \ Range(c.told) # {} \/ baseline = "none" \/ Told = baseline

\* Every call has one output, behind it, and every output its call.
Paired(h) ==
    /\ \A p \in DOMAIN h : h[p].k = "call" =>
          \E q \in p + 1 .. Len(h) :
             /\ h[q].k = "output" /\ h[q].v = h[p].v
             /\ \A x \in DOMAIN h \ {q} : h[x].k = "output" => h[x].v # h[p].v
    /\ \A q \in DOMAIN h : h[q].k = "output" =>
          \E p \in 1 .. q - 1 : h[p].k = "call" /\ h[p].v = h[q].v

\* What a request or a compaction sends (for_prompt; a compaction drops the
\* oldest items first, remove_first_item) pairs calls and outputs, although an
\* interrupt, a crash, a rollback or a compaction may cut between the two.
PromptIsPaired ==
    \A n \in 0 .. Len(items) : Paired(ForPrompt(WithoutOldest(items, n)))

\* thread/rollback drops "the last N turns": after thread_rollback, and after a
\* resume behind it, the prompts of all other turns are still in the context.
RollbackKeepsOlderTurns ==
    Chronicled.said \subseteq Range(items)
=============================================================================
