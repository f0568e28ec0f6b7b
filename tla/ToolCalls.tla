----------------------------- MODULE ToolCalls -----------------------------
(***************************************************************************)
(* The tool calls of a session's turns: core/src/tools/parallel.rs and     *)
(* registry.rs, the requests a tool makes of the user (approvals,          *)
(* permissions, user input) in core/src/session/mod.rs with their waiters  *)
(* in core/src/state/turn.rs, and the abort of a turn under way            *)
(* (core/src/tasks/mod.rs).                                                *)
(*                                                                         *)
(* A call is two concurrent parts.  Its task, spawned when the model emits *)
(* the call, takes the runtime's read-write lock, asks the user where it   *)
(* must, works, and claims the terminal outcome.  Its future, polled once  *)
(* the model's stream has ended, waits for the task or the cancellation of *)
(* the turn, whichever the poll sees first.  A waiter is a oneshot sender  *)
(* in the state of the turn that is active when the request is made.       *)
(*                                                                         *)
(* What a tool does, hooks' texts, and who reviews on the user's behalf    *)
(* are abstracted away, and so are calls nested in code mode.              *)
(***************************************************************************)
EXTENDS Integers, Sequences, FiniteSets

CONSTANTS
    Scripts,    \* bound: the sequences of tools the model calls
    MaxTurns,   \* bound: turns started
    CallTurns   \* bound: the turns that call tools or are interrupted, 1 .. CallTurns

\* "shell" stands for shell_command, "patch" for apply_patch, "mcp" for an MCP
\* tool that may run in parallel, "input" for request_user_input, "perm" for
\* request_permissions, "read" for a parallel tool that asks nothing, "unknown"
\* for a name the registry does not hold.
AllKinds == {"shell", "patch", "mcp", "input", "perm", "read", "unknown"}

ASSUME ScriptsAssumption == Scripts \subseteq Seq(AllKinds) /\ IsFiniteSet(Scripts)
ASSUME BoundsAssumption == MaxTurns \in Nat /\ CallTurns \in 0 .. MaxTurns

Turns == 1 .. MaxTurns
Calls == UNION {DOMAIN s : s \in Scripts}

VARIABLES
    active,     \* the turn in Session::active_turn, or 0
    stage,      \* how far the task of a turn, or its abort, has come
    run,        \* what run_turn of a turn is doing
    call,       \* the calls: see CallRecord
    waiters,    \* TurnState's maps of pending requests, per turn
    answering,  \* permission answers between their removal and their send
    grants      \* calls whose permissions a turn, or the session (0), was granted

vars == <<active, stage, run, call, waiters, answering, grants>>
turnVars == <<active, stage, run>>
askVars == <<waiters, answering, grants>>

NoReply == [to |-> 0, d |-> "none"]

NoCall ==
    [kind |-> "none",
     turn |-> 0,              \* the turn the call belongs to
     task |-> "none",         \* the spawned task
     result |-> "none",       \* what it returns
     fut |-> "none",          \* handle_tool_call_with_source's future
     flag |-> FALSE,          \* terminal_outcome_reached
     outcomes |-> <<>>,       \* what notify_tool_finish reported
     response |-> "none",     \* what the model is told
     asked |-> FALSE,         \* the request was sent to the client
     askedIn |-> 0,           \* the turn that was active then, or 0
     said |-> "none",         \* the client's answer to this call's request
     reply |-> NoReply]       \* what the receiver of this call got

Init ==
    /\ active = 0
    /\ stage = [t \in Turns |-> "new"]
    /\ run = [t \in Turns |-> "idle"]
    /\ call = [c \in Calls |-> NoCall]
    /\ waiters = [t \in Turns |-> {}]
    /\ answering = {}
    /\ grants = [t \in 0 .. MaxTurns |-> {}]

Live == {"spawned", "running", "asking", "approved", "worked", "notifying"}
Holding == Live \ {"spawned"}     \* the tasks that hold the lock

CancelRequested(t) == stage[t] \in {"cancelled", "stopped", "over"}
-----------------------------------------------------------------------------
(* What the registry says of a tool *)

SupportsParallel(k) == k \in {"shell", "mcp", "read"}

WaitsForRuntimeCancellation(k) == k = "shell"

\* Tools that may ask, and tools that have nothing to do without an answer.
MayAsk(k) == k \in {"shell", "patch", "mcp", "input", "perm"}
MustAsk(k) == k \in {"input", "perm"}

\* User input is keyed by the turn's sub id, every other request by its call.
Key(c) == IF call[c].kind \in {"input", "mcp"} THEN <<"turn", call[c].turn>>
          ELSE <<"call", c>>
-----------------------------------------------------------------------------
(* run_turn *)

StartTurn(t) ==
    /\ active = 0 /\ stage[t] = "new"
    /\ \A u \in 1 .. (t - 1) : stage[u] # "new"
    /\ active' = t
    /\ stage' = [stage EXCEPT ![t] = "running"]
    /\ run' = [run EXCEPT ![t] = "streaming"]
    /\ UNCHANGED <<call, askVars>>

\* The model's stream yields a call: its task is spawned, its future queued.
IssueCall(t, c, k) ==
    /\ run[t] = "streaming" /\ t <= CallTurns
    /\ call[c].kind = "none"
    /\ \E s \in Scripts : /\ c \in DOMAIN s /\ s[c] = k
                          /\ \A d \in 1 .. (c - 1) : call[d].kind = s[d]
    /\ call' = [call EXCEPT ![c].kind = k, ![c].turn = t,
                            ![c].task = "spawned", ![c].fut = "select"]
    /\ UNCHANGED <<turnVars, askVars>>

StreamEnds(t) ==
    /\ run[t] = "streaming"
    /\ run' = [run EXCEPT ![t] = "draining"]
    /\ UNCHANGED <<active, stage, call, askVars>>

\* drain_in_flight has recorded every response; the turn samples again unless
\* it was cancelled or nothing needs a follow-up.
Drained(t) ==
    /\ run[t] = "draining"
    /\ \A c \in Calls : call[c].turn = t => call[c].fut = "done"
    /\ \E next \in {"streaming", "ended"} :
         /\ CancelRequested(t) => next = "ended"
         /\ run' = [run EXCEPT ![t] = next]
    /\ UNCHANGED <<active, stage, call, askVars>>

\* on_task_finished takes the turn if no abort has.
FinishTurn(t) ==
    /\ run[t] = "ended" /\ active = t
    /\ active' = 0
    /\ stage' = [stage EXCEPT ![t] = "over"]
    /\ UNCHANGED <<run, call, askVars>>
-----------------------------------------------------------------------------
(* abort_all_tasks and handle_task_abort *)

TakeActiveTurn(t) ==
    /\ active = t /\ t <= CallTurns
    /\ active' = 0
    /\ stage' = [stage EXCEPT ![t] = "taken"]
    /\ UNCHANGED <<run, call, askVars>>

\* Mutant: the pending requests are dropped before the task sees the
\* cancellation.
CancelTask_ClearsFirst(t) ==
    /\ stage[t] = "taken"
    /\ stage' = [stage EXCEPT ![t] = "cancelled"]
    /\ waiters' = [waiters EXCEPT ![t] = {}]
    /\ UNCHANGED <<active, run, call, answering, grants>>

CancelTask(t) ==
    /\ stage[t] = "taken"
    /\ stage' = [stage EXCEPT ![t] = "cancelled"]
    /\ UNCHANGED <<active, run, call, askVars>>

TaskDone(t) ==
    /\ stage[t] = "cancelled" /\ run[t] = "ended"
    /\ stage' = [stage EXCEPT ![t] = "stopped"]
    /\ UNCHANGED <<active, run, call, askVars>>

\* Mutant: the tools' tasks are detached, not aborted with their handle.
GraceTimeout_Detached(t) ==
    /\ stage[t] = "cancelled" /\ run[t] # "ended"
    /\ stage' = [stage EXCEPT ![t] = "stopped"]
    /\ run' = [run EXCEPT ![t] = "ended"]
    /\ call' = [c \in Calls |->
                  IF call[c].turn = t /\ call[c].fut # "done"
                  THEN [call[c] EXCEPT !.fut = "dropped"] ELSE call[c]]
    /\ UNCHANGED <<active, askVars>>

\* The 100 ms are over: aborting the turn's task drops the futures in flight,
\* and dropping its handle aborts the tool's task, which is not polled again.
GraceTimeout(t) ==
    /\ stage[t] = "cancelled" /\ run[t] # "ended"
    /\ stage' = [stage EXCEPT ![t] = "stopped"]
    /\ run' = [run EXCEPT ![t] = "ended"]
    /\ call' = [c \in Calls |->
                  IF call[c].turn = t /\ call[c].fut # "done"
                  THEN [call[c] EXCEPT !.fut = "dropped",
                                       !.task = IF @ \in Live THEN "killed" ELSE @]
                  ELSE call[c]]
    /\ UNCHANGED <<active, askVars>>

ClearPending(t) ==
    /\ stage[t] = "stopped"
    /\ stage' = [stage EXCEPT ![t] = "over"]
    /\ waiters' = [waiters EXCEPT ![t] = {}]
    /\ UNCHANGED <<active, run, call, answering, grants>>
-----------------------------------------------------------------------------
(* The task of a call *)

AcquireLock(c) ==
    /\ call[c].task = "spawned"
    /\ \A d \in Calls : (call[d].turn = call[c].turn /\ call[d].task \in Holding)
                            => /\ SupportsParallel(call[c].kind)
                               /\ SupportsParallel(call[d].kind)
    /\ call' = [call EXCEPT ![c].task = "running"]
    /\ UNCHANGED <<turnVars, askVars>>

\* The registry has no such tool: no notification, no claim.
UnsupportedTool(c) ==
    /\ call[c].task = "running" /\ call[c].kind = "unknown"
    /\ call' = [call EXCEPT ![c].task = "finished", ![c].result = "unsupported"]
    /\ UNCHANGED <<turnVars, askVars>>

\* A PreToolUse hook blocks the call.
BlockedByHook(c) ==
    /\ call[c].task = "running" /\ call[c].kind \in {"shell", "patch", "mcp"}
    /\ call' = [call EXCEPT ![c].task = "worked", ![c].result = "blocked"]
    /\ UNCHANGED <<turnVars, askVars>>

\* request_command_approval, request_patch_approval, request_permissions and
\* request_user_input: the sender goes into the maps of the turn that is active
\* now, in place of one with the same key, then the client is asked.
Request(c) ==
    /\ call[c].task = "running" /\ MayAsk(call[c].kind)
    /\ waiters' = [t \in Turns |->
                     IF t = active
                     THEN {w \in waiters[t] : w.key # Key(c)} \cup {[key |-> Key(c), call |-> c]}
                     ELSE waiters[t]]
    /\ call' = [call EXCEPT ![c].task = "asking", ![c].asked = TRUE, ![c].askedIn = active]
    /\ UNCHANGED <<turnVars, answering, grants>>

\* The sender of a waiting call is in a map or with notify_request_permissions_response.
\* Without an active turn it stays a local of the requesting function, which
\* only request_patch_approval leaves before the answer.
HasSender(c) ==
    \/ \E t \in Turns : \E w \in waiters[t] : w.call = c
    \/ \E a \in answering : a.call = c
    \/ call[c].askedIn = 0 /\ call[c].kind # "patch"

\* The sender was dropped: an approval reads as a refusal, the others as a
\* request cancelled before it was answered.
SenderDropped(c) ==
    /\ call[c].task = "asking" /\ call[c].reply = NoReply /\ ~HasSender(c)
    /\ call' = [call EXCEPT ![c].task = "worked",
                            ![c].result = IF MustAsk(call[c].kind) THEN "cancelled"
                                          ELSE "rejected"]
    /\ UNCHANGED <<turnVars, askVars>>

\* Mutant: the answer is not matched with the question.
ReadsAsConsent_AnyQuestion(c) ==
    \/ MustAsk(call[c].kind)
    \/ call[c].reply.d # "no"

\* parse_mcp_tool_approval_response looks its own question up in the answer; a
\* user-input or permission answer is passed on as it is.
ReadsAsConsent(c) ==
    \/ MustAsk(call[c].kind)
    \/ call[c].reply.d # "no" /\ (call[c].kind = "mcp" => call[c].reply.to = c)

\* request_permissions looks at the cancellation first (biased select).
ReceiveReply(c) ==
    /\ call[c].task = "asking" /\ call[c].reply # NoReply
    /\ call[c].kind = "perm" => ~CancelRequested(call[c].turn)
    /\ call' = [call EXCEPT ![c].task = IF ReadsAsConsent(c) THEN "approved" ELSE "worked",
                            ![c].result = IF ReadsAsConsent(c) THEN "none" ELSE "rejected"]
    /\ UNCHANGED <<turnVars, askVars>>

PermissionCancelled(c) ==
    /\ call[c].task = "asking" /\ call[c].kind = "perm" /\ CancelRequested(call[c].turn)
    /\ waiters' = [t \in Turns |-> IF t = active THEN {w \in waiters[t] : w.key # Key(c)}
                                   ELSE waiters[t]]
    /\ call' = [call EXCEPT ![c].task = "worked", ![c].result = "cancelled"]
    /\ UNCHANGED <<turnVars, answering, grants>>

Work(c) ==
    /\ \/ call[c].task = "approved"
       \/ call[c].task = "running" /\ ~MustAsk(call[c].kind) /\ call[c].kind # "unknown"
    /\ call' = [call EXCEPT ![c].task = "worked", ![c].result = "done"]
    /\ UNCHANGED <<turnVars, askVars>>

NotifyFinishIfUnclaimed(c) ==
    /\ call[c].task = "worked"
    /\ call' = IF call[c].flag
               THEN [call EXCEPT ![c].task = "finished"]
               ELSE [call EXCEPT ![c].flag = TRUE, ![c].task = "notifying",
                                 ![c].outcomes = Append(@, call[c].result)]
    /\ UNCHANGED <<turnVars, askVars>>

Notified(c) ==
    /\ call[c].task = "notifying"
    /\ call' = [call EXCEPT ![c].task = "finished"]
    /\ UNCHANGED <<turnVars, askVars>>

\* A requested abort takes effect where the task next yields.
KillLands(c) ==
    /\ call[c].task \in Live /\ call[c].fut = "killing"
    /\ call' = [call EXCEPT ![c].task = "killed"]
    /\ UNCHANGED <<turnVars, askVars>>
-----------------------------------------------------------------------------
(* The future of a call *)

Polled(c) == call[c].turn # 0 /\ run[call[c].turn] = "draining"

\* The future returns what the task returned.
Returns(c, from) ==
    /\ call[c].fut \in from /\ call[c].task = "finished" /\ Polled(c)
    /\ call' = [call EXCEPT ![c].fut = "done", ![c].response = call[c].result]
    /\ UNCHANGED <<turnVars, askVars>>

SelectResult(c) == Returns(c, {"select", "joining", "killing"})

\* Mutant: a tool that tears down is joined without claiming the outcome.
SelectCancelled_JoinsTeardown(c) ==
    /\ call[c].fut = "select" /\ Polled(c) /\ CancelRequested(call[c].turn)
    /\ call' = [call EXCEPT ![c].fut =
                  IF \/ call[c].flag \/ call[c].task = "finished"
                     \/ WaitsForRuntimeCancellation(call[c].kind)
                  THEN "joining" ELSE "aborting"]
    /\ UNCHANGED <<turnVars, askVars>>

\* The select takes the cancelled branch and looks at the flag and the handle.
SelectCancelled(c) ==
    /\ call[c].fut = "select" /\ Polled(c) /\ CancelRequested(call[c].turn)
    /\ call' = [call EXCEPT ![c].fut =
                  IF call[c].flag \/ call[c].task = "finished" THEN "joining"
                  ELSE IF WaitsForRuntimeCancellation(call[c].kind) THEN "claiming"
                  ELSE "aborting"]
    /\ UNCHANGED <<turnVars, askVars>>

\* Mutant: the earlier load is trusted.
ClaimAbort_TrustsLoad(c) ==
    /\ call[c].fut = "claiming" /\ Polled(c)
    /\ call' = [call EXCEPT ![c].flag = TRUE, ![c].fut = "teardown"]
    /\ UNCHANGED <<turnVars, askVars>>

\* terminal_outcome_reached.swap
ClaimAbort(c) ==
    /\ call[c].fut = "claiming" /\ Polled(c)
    /\ call' = [call EXCEPT ![c].flag = TRUE,
                            ![c].fut = IF call[c].flag THEN "joining" ELSE "teardown"]
    /\ UNCHANGED <<turnVars, askVars>>

AbortHandle(c) ==
    /\ call[c].fut = "aborting" /\ Polled(c)
    /\ call' = [call EXCEPT ![c].fut = "killing"]
    /\ UNCHANGED <<turnVars, askVars>>

\* The task is gone: notify_tool_aborted, aborted_response.
ReportAborted(c) ==
    /\ Polled(c)
    /\ \/ call[c].fut = "teardown" /\ call[c].task = "finished"
       \/ call[c].fut = "killing" /\ call[c].task = "killed"
    /\ call' = [call EXCEPT ![c].fut = "done", ![c].response = "aborted",
                            ![c].outcomes = Append(@, "aborted")]
    /\ UNCHANGED <<turnVars, askVars>>
-----------------------------------------------------------------------------
(* The client answers a request, once, whenever it likes *)

Answers(k) == CASE k = "input" -> {"yes"}
                [] k = "perm" -> {"yes", "session", "no"}
                [] OTHER -> {"yes", "no"}

\* The waiters the answer to c finds in the active turn.
Found(c) == IF active = 0 THEN {} ELSE {w \in waiters[active] : w.key = Key(c)}

\* Answers to a call that is gone change nothing when they find no waiter.
CanAnswer(c) ==
    call[c].asked /\ call[c].said = "none" /\ (call[c].task = "asking" \/ Found(c) # {})

Removed(c) == [t \in Turns |-> IF t = active THEN waiters[t] \ Found(c) ELSE waiters[t]]

\* notify_approval, notify_user_input_response: an answer that finds no waiter
\* is dropped, and so is one whose receiver is gone.
NotifyAnswer(c, d) ==
    /\ CanAnswer(c) /\ call[c].kind # "perm"
    /\ waiters' = Removed(c)
    /\ call' = [e \in Calls |->
                  LET r == IF \E w \in Found(c) : w.call = e
                           THEN [call[e] EXCEPT !.reply = [to |-> c, d |-> d]] ELSE call[e]
                  IN IF e = c THEN [r EXCEPT !.said = d] ELSE r]
    /\ UNCHANGED <<turnVars, answering, grants>>

\* notify_request_permissions_response: the entry is removed and the state of
\* the turn that held it remembered, ...
TakePermissionRequest(c, d) ==
    /\ CanAnswer(c) /\ call[c].kind = "perm"
    /\ waiters' = Removed(c)
    /\ answering' = answering \cup {[call |-> c, turn |-> active, d |-> d] : w \in Found(c)}
    /\ call' = [call EXCEPT ![c].said = d]
    /\ UNCHANGED <<turnVars, grants>>

\* Mutant: the grant goes to the turn that is active by now.
RecordGrant_ActiveTurn(a) ==
    LET scope == CASE a.d = "session" -> {0} [] a.d = "yes" -> {active} \ {0} [] OTHER -> {}
    IN [t \in 0 .. MaxTurns |-> IF t \in scope THEN grants[t] \cup {a.call} ELSE grants[t]]

\* record_granted_request_permissions_for_turn; a refusal has no permissions.
RecordGrant(a) ==
    LET scope == CASE a.d = "session" -> {0} [] a.d = "yes" -> {a.turn} [] OTHER -> {}
    IN [t \in 0 .. MaxTurns |-> IF t \in scope THEN grants[t] \cup {a.call} ELSE grants[t]]

\* ... then the grant is recorded and the answer sent.
GrantPermission(a) ==
    /\ a \in answering
    /\ answering' = answering \ {a}
    /\ grants' = RecordGrant(a)
    /\ call' = [call EXCEPT ![a.call].reply = [to |-> a.call, d |-> a.d]]
    /\ UNCHANGED <<turnVars, waiters>>
-----------------------------------------------------------------------------
TaskStep(c) ==
    \/ AcquireLock(c) \/ UnsupportedTool(c) \/ BlockedByHook(c) \/ Request(c)
    \/ SenderDropped(c) \/ ReceiveReply(c) \/ PermissionCancelled(c) \/ Work(c)
    \/ NotifyFinishIfUnclaimed(c) \/ Notified(c) \/ KillLands(c)

FutureStep(c) ==
    SelectResult(c) \/ SelectCancelled(c) \/ ClaimAbort(c) \/ AbortHandle(c) \/ ReportAborted(c)

ClientAnswers(c) ==
    \E d \in Answers(call[c].kind) : NotifyAnswer(c, d) \/ TakePermissionRequest(c, d)

GrantStep == \E a \in answering : GrantPermission(a)

RunStep(t) == StreamEnds(t) \/ Drained(t) \/ FinishTurn(t)

AbortStep(t) == CancelTask(t) \/ TaskDone(t) \/ GraceTimeout(t) \/ ClearPending(t)

Next ==
    \/ \E t \in Turns : \/ StartTurn(t) \/ TakeActiveTurn(t) \/ RunStep(t) \/ AbortStep(t)
                        \/ \E c \in Calls, k \in AllKinds : IssueCall(t, c, k)
    \/ \E c \in Calls : TaskStep(c) \/ FutureStep(c) \/ ClientAnswers(c)
    \/ GrantStep

\* The runtime polls what is ready and timers fire; nobody has to start a turn,
\* interrupt one, call a tool or answer a request.
Fairness ==
    /\ \A c \in Calls : WF_vars(TaskStep(c)) /\ WF_vars(FutureStep(c))
    /\ WF_vars(GrantStep)
    /\ \A t \in Turns : WF_vars(RunStep(t)) /\ WF_vars(AbortStep(t))

Spec == Init /\ [][Next]_vars /\ Fairness
-----------------------------------------------------------------------------
(* Properties *)

Results == {"done", "rejected", "cancelled", "blocked", "unsupported"}

AnAnswer == {"yes", "session", "no"}

CallRecord ==
    [kind : AllKinds \cup {"none"}, turn : 0 .. MaxTurns,
     task : Live \cup {"none", "finished", "killed"}, result : Results \cup {"none"},
     fut : {"none", "select", "joining", "claiming", "teardown", "aborting", "killing", "done",
            "dropped"},
     flag : BOOLEAN, outcomes : Seq(Results \cup {"aborted"}),
     response : Results \cup {"none", "aborted"}, asked : BOOLEAN, askedIn : 0 .. MaxTurns,
     said : AnAnswer \cup {"none"}, reply : [to : Calls \cup {0}, d : AnAnswer \cup {"none"}]]

\* What the variables hold, and how the parts of a call go together: a claimed
\* flag and a recorded outcome, a future that waits for a teardown it claimed.
TypeOK ==
    /\ active \in 0 .. MaxTurns
    /\ stage \in [Turns -> {"new", "running", "taken", "cancelled", "stopped", "over"}]
    /\ run \in [Turns -> {"idle", "streaming", "draining", "ended"}]
    /\ call \in [Calls -> CallRecord]
    /\ \A c \in Calls : call[c].fut = "joining" => call[c].task \in {"notifying", "finished"}
    /\ waiters \in [Turns -> SUBSET [key : ({"turn"} \X Turns) \cup ({"call"} \X Calls), call : Calls]]
    /\ answering \subseteq [call : Calls, turn : Turns, d : AnAnswer]
    /\ grants \in [0 .. MaxTurns -> SUBSET Calls]

\* parallel.rs and notify_tool_finish_if_unclaimed: the model is told what the
\* lifecycle contributors were told.  A call that answers with its own result
\* reported that result and nothing else; an aborted one reported the abort
\* last; and a tool that is torn down gracefully never reports twice.
ResponseMatchesOutcome ==
    \A c \in Calls :
        LET r == call[c].response
            o == call[c].outcomes
        IN /\ r \in Results \ {"unsupported"} => o = <<r>>
           /\ r = "unsupported" => o = <<>>
           /\ r = "aborted" => o # <<>> /\ o[Len(o)] = "aborted"
           /\ WaitsForRuntimeCancellation(call[c].kind) => Len(o) <= 1

\* Another call of the turn asked under the same key.
SharesKey(c) == \E d \in Calls \ {c} : call[d].asked /\ Key(d) = Key(c)

\* abort_all_tasks drops the pending approvals only once the interrupted task
\* is gone: the model reads "rejected" only of a call the user rejected, unless
\* the call asked after its turn was taken, or another call of the turn asked
\* under the same key.
InterruptIsNoRejection ==
    \A c \in Calls :
        call[c].response = "rejected" =>
            call[c].said = "no" \/ call[c].askedIn # call[c].turn \/ SharesKey(c)

\* A tool that asked does its work only on the user's consent to that very
\* call, though parallel MCP calls share one key and replace each other's
\* waiter.  (request_user_input has no question to match: it takes the answer to
\* any request under the turn's key, a late one to an MCP approval included.)
ConsentIsToThisCall ==
    \A c \in Calls :
        (/\ call[c].asked /\ call[c].result = "done"
         /\ call[c].kind = "input" => ~SharesKey(c)) =>
            /\ call[c].reply.to = c
            /\ call[c].said = call[c].reply.d
            /\ ~MustAsk(call[c].kind) => call[c].said = "yes"

\* notify_request_permissions_response keeps the state of the turn that held
\* the request: a grant for one turn never reaches another turn, however long
\* the answer takes, unless the call asked after its own turn was taken.
GrantStaysInItsTurn ==
    \A t \in Turns : \A c \in grants[t] :
        call[c].askedIn = call[c].turn => t = call[c].turn

\* The user is the only one a turn may wait for: one of its calls asked, and an
\* answer to it would still be delivered.
AwaitsUser(t) ==
    /\ active = t
    /\ \E c \in Calls : /\ call[c].turn = t /\ call[c].task = "asking" /\ call[c].said = "none"
                        /\ \E w \in Found(c) : w.call = c

Settled(t) ==
    /\ stage[t] \in {"new", "running", "over"}
    /\ \A c \in Calls : call[c].turn = t => call[c].task \notin Live

\* No lock, unanswerable request, lost answer or teardown keeps a call or an
\* abort from ending: time and again every spawned task has returned or was
\* killed and every aborted turn has had its waiters cleared, or the user has a
\* request to answer.  An interrupted turn settles without an answer.
EverythingSettles == []<>(\A t \in Turns : Settled(t) \/ AwaitsUser(t))
=============================================================================
