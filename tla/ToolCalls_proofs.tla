-------------------------- MODULE ToolCalls_proofs --------------------------
(***************************************************************************)
(* Proofs about ToolCalls: its type invariant, that the response to the    *)
(* model agrees with the reported outcome, that a permission granted for a *)
(* turn stays in that turn, that a tool works only on consent to its own   *)
(* call, and that an interrupt is no refusal, for all scripts and any      *)
(* number of turns.                                                        *)
(***************************************************************************)
EXTENDS ToolCalls, TLAPS

\* The tasks that have not come to the claim of the terminal outcome.
Early == {"none", "spawned", "running", "asking", "approved", "worked"}

Reported(r) == IF r.result = "unsupported" THEN <<>> ELSE <<r.result>>

\* How a call begins, and that it asks once.
StartInv(r) ==
    /\ r.kind = "none" => r.turn = 0 /\ r.task = "none" /\ r.fut = "none" /\ ~r.asked
    /\ r.kind # "none" => r.turn # 0 /\ r.task # "none" /\ r.fut # "none"
    /\ r.task \in {"none", "spawned", "running"} => ~r.asked

\* What the task has done towards the outcome.
TaskInv(r) ==
    /\ r.task \in Early => r.outcomes = <<>> /\ (r.flag => r.fut = "teardown")
    /\ r.task = "worked" => r.result \in Results \ {"unsupported"}
    /\ r.task = "notifying" =>
         /\ r.flag /\ r.result \in Results \ {"unsupported"} /\ r.outcomes = <<r.result>>
         /\ r.fut \notin {"teardown", "dropped", "done"}
    /\ r.task = "finished" =>
         /\ r.result \in Results
         /\ r.fut \notin {"teardown", "dropped", "done"} =>
              (r.flag <=> r.result # "unsupported") /\ r.outcomes = Reported(r)
    /\ r.task = "killed" => r.fut \in {"killing", "dropped", "done"}

\* What the future knows of the task and of the outcome.
FutureInv(r) ==
    /\ r.fut = "joining" => r.task \in {"notifying", "finished"}
    /\ r.fut = "claiming" => WaitsForRuntimeCancellation(r.kind)
    /\ r.fut \in {"aborting", "killing"} => ~WaitsForRuntimeCancellation(r.kind)
    /\ r.fut = "teardown" => /\ r.flag /\ r.outcomes = <<>>
                             /\ WaitsForRuntimeCancellation(r.kind)
    /\ r.fut \in {"dropped", "done"} => r.task \notin Live
    /\ r.fut # "done" => r.response = "none"

\* ResponseMatchesOutcome of one call.
Matches(r) ==
    /\ r.response \in Results \ {"unsupported"} => r.outcomes = <<r.response>>
    /\ r.response = "unsupported" => r.outcomes = <<>>
    /\ r.response = "aborted" => r.outcomes # <<>> /\ r.outcomes[Len(r.outcomes)] = "aborted"
    /\ WaitsForRuntimeCancellation(r.kind) => Len(r.outcomes) <= 1

CallInv(r) == r \in CallRecord /\ StartInv(r) /\ TaskInv(r) /\ FutureInv(r) /\ Matches(r)

\* A request, its waiter, its answer on the way and its grant belong to the
\* turn that was active when the request was made.
AskInv ==
    /\ \A t \in Turns : \A w \in waiters[t] :
         call[w.call].asked /\ call[w.call].askedIn = t /\ w.key = Key(w.call)
    /\ \A a \in answering : call[a.call].asked /\ call[a.call].askedIn = a.turn
    /\ \A t \in Turns : \A c \in grants[t] : call[c].asked /\ call[c].askedIn = t

Inv == TypeOK /\ (\A c \in Calls : CallInv(call[c])) /\ AskInv
-----------------------------------------------------------------------------
(* Steps of one call *)

\* r can succeed q as the record of a call: it keeps what was asked, and where.
Succeeds(q, r) ==
    /\ CallInv(r)
    /\ q.asked => /\ r.asked /\ r.askedIn = q.askedIn
                  /\ r.kind = q.kind /\ r.turn = q.turn

\* A spawned task takes the lock.
LEMMA AcquireSucceeds ==
    ASSUME NEW q, CallInv(q), q.task = "spawned"
    PROVE  Succeeds(q, [q EXCEPT !.task = "running"])
<1> DEFINE r == [q EXCEPT !.task = "running"]
<1>1. /\ q.task \in Live \cup {"none", "finished", "killed"} /\ q \in CallRecord
      /\ q.outcomes \in Seq(Results \cup {"aborted"})
  BY DEF CallInv, CallRecord
<1>2. /\ r.task = "running" /\ r.kind = q.kind /\ r.turn = q.turn
      /\ r.result = q.result /\ r.fut = q.fut /\ r.flag = q.flag
      /\ r.outcomes = q.outcomes /\ r.response = q.response /\ r.asked = q.asked
      /\ r.askedIn = q.askedIn /\ r.said = q.said /\ r.reply = q.reply
  BY <1>1 DEF CallRecord
<1>3. r \in CallRecord
  BY <1>1, BoundsAssumption DEF CallInv, CallRecord, TaskInv, Results, AllKinds, AnAnswer, Turns, Live
<1> HIDE DEF r
<1>4. StartInv(r)
  BY <1>2 DEF CallInv, StartInv, AllKinds, Turns, Live
<1>5. TaskInv(r)
  BY <1>2 DEF CallInv, StartInv, TaskInv, FutureInv, Early, Live, Reported, Results, WaitsForRuntimeCancellation
<1>6. FutureInv(r)
  BY <1>1, <1>2 DEF CallInv, StartInv, TaskInv, FutureInv, Early, Live, WaitsForRuntimeCancellation
<1>7. Matches(r)
  BY <1>2 DEF CallInv, StartInv, TaskInv, FutureInv, Early, Matches, Reported, Results, WaitsForRuntimeCancellation
<1>8. Succeeds(q, r)
  BY <1>2, <1>3, <1>4, <1>5, <1>6, <1>7 DEF Succeeds, CallInv, StartInv
<1> QED  BY <1>8 DEF r

\* The registry has no such tool.
LEMMA UnsupportedSucceeds ==
    ASSUME NEW q, CallInv(q), q.task = "running"
    PROVE  Succeeds(q, [q EXCEPT !.task = "finished", !.result = "unsupported"])
<1> DEFINE r == [q EXCEPT !.task = "finished", !.result = "unsupported"]
<1>1. /\ q.task \in Live \cup {"none", "finished", "killed"} /\ q \in CallRecord
      /\ q.outcomes \in Seq(Results \cup {"aborted"})
  BY DEF CallInv, CallRecord
<1>2. /\ r.task = "finished" /\ r.result = "unsupported" /\ r.kind = q.kind
      /\ r.turn = q.turn /\ r.fut = q.fut /\ r.flag = q.flag
      /\ r.outcomes = q.outcomes /\ r.response = q.response /\ r.asked = q.asked
      /\ r.askedIn = q.askedIn /\ r.said = q.said /\ r.reply = q.reply
  BY <1>1 DEF CallRecord
<1>3. r \in CallRecord
  BY <1>1, BoundsAssumption DEF CallInv, CallRecord, TaskInv, Results, AllKinds, AnAnswer, Turns, Live
<1> HIDE DEF r
<1>4. StartInv(r)
  BY <1>2 DEF CallInv, StartInv, AllKinds, Turns, Live
<1>5. TaskInv(r)
  BY <1>2 DEF CallInv, StartInv, TaskInv, FutureInv, Early, Live, Reported, Results, WaitsForRuntimeCancellation
<1>6. FutureInv(r)
  BY <1>1, <1>2 DEF CallInv, StartInv, TaskInv, FutureInv, Early, Live, WaitsForRuntimeCancellation
<1>7. Matches(r)
  BY <1>2 DEF CallInv, StartInv, TaskInv, FutureInv, Early, Matches, Reported, Results, WaitsForRuntimeCancellation
<1>8. Succeeds(q, r)
  BY <1>2, <1>3, <1>4, <1>5, <1>6, <1>7 DEF Succeeds, CallInv, StartInv
<1> QED  BY <1>8 DEF r

\* The work ends with result x, whether refused, cancelled or done.
LEMMA WorkedSucceeds ==
    ASSUME NEW q, CallInv(q), q.task \in {"running", "asking", "approved"}, NEW x \in Results \ {"unsupported"}
    PROVE  Succeeds(q, [q EXCEPT !.task = "worked", !.result = x])
<1> DEFINE r == [q EXCEPT !.task = "worked", !.result = x]
<1>1. /\ q.task \in Live \cup {"none", "finished", "killed"} /\ q \in CallRecord
      /\ q.outcomes \in Seq(Results \cup {"aborted"})
  BY DEF CallInv, CallRecord
<1>2. /\ r.task = "worked" /\ r.result = x /\ r.kind = q.kind /\ r.turn = q.turn
      /\ r.fut = q.fut /\ r.flag = q.flag /\ r.outcomes = q.outcomes
      /\ r.response = q.response /\ r.asked = q.asked /\ r.askedIn = q.askedIn
      /\ r.said = q.said /\ r.reply = q.reply
  BY <1>1 DEF CallRecord
<1>3. "worked" \in Live /\ x \in Results
  BY <1>1, <1>2, BoundsAssumption DEF Live
<1>4. r \in CallRecord
  BY <1>1, <1>3 DEF CallRecord
<1> HIDE DEF r
<1>5. StartInv(r)
  BY <1>2 DEF CallInv, StartInv, AllKinds, Turns, Live
<1>6. TaskInv(r)
  BY <1>2 DEF CallInv, StartInv, TaskInv, FutureInv, Early, Live, Reported, Results, WaitsForRuntimeCancellation
<1>7. FutureInv(r)
  BY <1>1, <1>2 DEF CallInv, StartInv, TaskInv, FutureInv, Early, Live, WaitsForRuntimeCancellation
<1>8. Matches(r)
  BY <1>2 DEF CallInv, StartInv, TaskInv, FutureInv, Early, Matches, Reported, Results, WaitsForRuntimeCancellation
<1>9. Succeeds(q, r)
  BY <1>2, <1>4, <1>5, <1>6, <1>7, <1>8 DEF Succeeds, CallInv, StartInv
<1> QED  BY <1>9 DEF r

\* The user consents.
LEMMA ApprovedSucceeds ==
    ASSUME NEW q, CallInv(q), q.task = "asking"
    PROVE  Succeeds(q, [q EXCEPT !.task = "approved", !.result = "none"])
<1> DEFINE r == [q EXCEPT !.task = "approved", !.result = "none"]
<1>1. /\ q.task \in Live \cup {"none", "finished", "killed"} /\ q \in CallRecord
      /\ q.outcomes \in Seq(Results \cup {"aborted"})
  BY DEF CallInv, CallRecord
<1>2. /\ r.task = "approved" /\ r.result = "none" /\ r.kind = q.kind
      /\ r.turn = q.turn /\ r.fut = q.fut /\ r.flag = q.flag
      /\ r.outcomes = q.outcomes /\ r.response = q.response /\ r.asked = q.asked
      /\ r.askedIn = q.askedIn /\ r.said = q.said /\ r.reply = q.reply
  BY <1>1 DEF CallRecord
<1>3. r \in CallRecord
  BY <1>1, BoundsAssumption DEF CallInv, CallRecord, TaskInv, Results, AllKinds, AnAnswer, Turns, Live
<1> HIDE DEF r
<1>4. StartInv(r)
  BY <1>2 DEF CallInv, StartInv, AllKinds, Turns, Live
<1>5. TaskInv(r)
  BY <1>2 DEF CallInv, StartInv, TaskInv, FutureInv, Early, Live, Reported, Results, WaitsForRuntimeCancellation
<1>6. FutureInv(r)
  BY <1>1, <1>2 DEF CallInv, StartInv, TaskInv, FutureInv, Early, Live, WaitsForRuntimeCancellation
<1>7. Matches(r)
  BY <1>2 DEF CallInv, StartInv, TaskInv, FutureInv, Early, Matches, Reported, Results, WaitsForRuntimeCancellation
<1>8. Succeeds(q, r)
  BY <1>2, <1>3, <1>4, <1>5, <1>6, <1>7 DEF Succeeds, CallInv, StartInv
<1> QED  BY <1>8 DEF r

\* The client is asked while turn t, or none, is active.
LEMMA AskedSucceeds ==
    ASSUME NEW q, CallInv(q), q.task = "running", NEW t \in 0 .. MaxTurns
    PROVE  Succeeds(q, [q EXCEPT !.task = "asking", !.asked = TRUE, !.askedIn = t])
<1> DEFINE r == [q EXCEPT !.task = "asking", !.asked = TRUE, !.askedIn = t]
<1>1. /\ q.task \in Live \cup {"none", "finished", "killed"} /\ q \in CallRecord
      /\ q.outcomes \in Seq(Results \cup {"aborted"})
  BY DEF CallInv, CallRecord
<1>2. /\ r.task = "asking" /\ r.asked = TRUE /\ r.askedIn = t /\ r.kind = q.kind
      /\ r.turn = q.turn /\ r.result = q.result /\ r.fut = q.fut /\ r.flag = q.flag
      /\ r.outcomes = q.outcomes /\ r.response = q.response /\ r.said = q.said
      /\ r.reply = q.reply
  BY <1>1 DEF CallRecord
<1>3. r \in CallRecord
  BY <1>1, BoundsAssumption DEF CallInv, CallRecord, TaskInv, Results, AllKinds, AnAnswer, Turns, Live
<1> HIDE DEF r
<1>4. StartInv(r)
  BY <1>2 DEF CallInv, StartInv, AllKinds, Turns, Live
<1>5. TaskInv(r)
  BY <1>2 DEF CallInv, StartInv, TaskInv, FutureInv, Early, Live, Reported, Results, WaitsForRuntimeCancellation
<1>6. FutureInv(r)
  BY <1>1, <1>2 DEF CallInv, StartInv, TaskInv, FutureInv, Early, Live, WaitsForRuntimeCancellation
<1>7. Matches(r)
  BY <1>2 DEF CallInv, StartInv, TaskInv, FutureInv, Early, Matches, Reported, Results, WaitsForRuntimeCancellation
<1>8. Succeeds(q, r)
  BY <1>2, <1>3, <1>4, <1>5, <1>6, <1>7 DEF Succeeds, CallInv, StartInv
<1> QED  BY <1>8 DEF r

\* The outcome was claimed by the future.
LEMMA LostSucceeds ==
    ASSUME NEW q, CallInv(q), q.task = "worked", q.flag
    PROVE  Succeeds(q, [q EXCEPT !.task = "finished"])
<1> DEFINE r == [q EXCEPT !.task = "finished"]
<1>1. /\ q.task \in Live \cup {"none", "finished", "killed"} /\ q \in CallRecord
      /\ q.outcomes \in Seq(Results \cup {"aborted"})
  BY DEF CallInv, CallRecord
<1>2. /\ r.task = "finished" /\ r.kind = q.kind /\ r.turn = q.turn
      /\ r.result = q.result /\ r.fut = q.fut /\ r.flag = q.flag
      /\ r.outcomes = q.outcomes /\ r.response = q.response /\ r.asked = q.asked
      /\ r.askedIn = q.askedIn /\ r.said = q.said /\ r.reply = q.reply
  BY <1>1 DEF CallRecord
<1>3. r \in CallRecord
  BY <1>1, BoundsAssumption DEF CallInv, CallRecord, TaskInv, Results, AllKinds, AnAnswer, Turns, Live
<1> HIDE DEF r
<1>4. StartInv(r)
  BY <1>2 DEF CallInv, StartInv, AllKinds, Turns, Live
<1>5. TaskInv(r)
  BY <1>2 DEF CallInv, StartInv, TaskInv, FutureInv, Early, Live, Reported, Results, WaitsForRuntimeCancellation
<1>6. FutureInv(r)
  BY <1>1, <1>2 DEF CallInv, StartInv, TaskInv, FutureInv, Early, Live, WaitsForRuntimeCancellation
<1>7. Matches(r)
  BY <1>2 DEF CallInv, StartInv, TaskInv, FutureInv, Early, Matches, Reported, Results, WaitsForRuntimeCancellation
<1>8. Succeeds(q, r)
  BY <1>2, <1>3, <1>4, <1>5, <1>6, <1>7 DEF Succeeds, CallInv, StartInv
<1> QED  BY <1>8 DEF r

\* The task claims the outcome and reports it.
LEMMA ClaimedSucceeds ==
    ASSUME NEW q, CallInv(q), q.task = "worked", ~q.flag
    PROVE  Succeeds(q, [q EXCEPT !.flag = TRUE, !.task = "notifying", !.outcomes = Append(@, q.result)])
<1> DEFINE r == [q EXCEPT !.flag = TRUE, !.task = "notifying", !.outcomes = Append(@, q.result)]
<1>1. /\ q.task \in Live \cup {"none", "finished", "killed"} /\ q \in CallRecord
      /\ q.outcomes \in Seq(Results \cup {"aborted"})
  BY DEF CallInv, CallRecord
<1>2. /\ r.flag = TRUE /\ r.task = "notifying"
      /\ r.outcomes = Append(q.outcomes, q.result) /\ r.kind = q.kind
      /\ r.turn = q.turn /\ r.result = q.result /\ r.fut = q.fut
      /\ r.response = q.response /\ r.asked = q.asked /\ r.askedIn = q.askedIn
      /\ r.said = q.said /\ r.reply = q.reply
  BY <1>1 DEF CallRecord
<1>3. "notifying" \in Live /\ q.result \in Results /\ q.outcomes = <<>>
  BY DEF Live, CallInv, TaskInv, Early
<1>4. Append(q.outcomes, q.result) = <<q.result>> /\ <<q.result>> \in Seq(Results \cup {"aborted"})
  BY <1>3
<1>5. r \in CallRecord
  BY <1>1, <1>3, <1>4 DEF CallRecord
<1> HIDE DEF r
<1>6. StartInv(r)
  BY <1>2, <1>3, <1>4 DEF CallInv, StartInv, AllKinds, Turns, Live
<1>7. TaskInv(r)
  BY <1>2, <1>3, <1>4 DEF CallInv, StartInv, TaskInv, FutureInv, Early, Live, Reported, Results, WaitsForRuntimeCancellation
<1>8. FutureInv(r)
  BY <1>1, <1>2 DEF CallInv, StartInv, TaskInv, FutureInv, Early, Live, WaitsForRuntimeCancellation
<1>9. Matches(r)
  BY <1>2, <1>3, <1>4 DEF CallInv, StartInv, TaskInv, FutureInv, Early, Live, Matches, Reported, Results, WaitsForRuntimeCancellation
<1>10. Succeeds(q, r)
  BY <1>2, <1>5, <1>6, <1>7, <1>8, <1>9 DEF Succeeds, CallInv, StartInv
<1> QED  BY <1>10 DEF r

\* The report has returned.
LEMMA NotifiedSucceeds ==
    ASSUME NEW q, CallInv(q), q.task = "notifying"
    PROVE  Succeeds(q, [q EXCEPT !.task = "finished"])
<1> DEFINE r == [q EXCEPT !.task = "finished"]
<1>1. /\ q.task \in Live \cup {"none", "finished", "killed"} /\ q \in CallRecord
      /\ q.outcomes \in Seq(Results \cup {"aborted"})
  BY DEF CallInv, CallRecord
<1>2. /\ r.task = "finished" /\ r.kind = q.kind /\ r.turn = q.turn
      /\ r.result = q.result /\ r.fut = q.fut /\ r.flag = q.flag
      /\ r.outcomes = q.outcomes /\ r.response = q.response /\ r.asked = q.asked
      /\ r.askedIn = q.askedIn /\ r.said = q.said /\ r.reply = q.reply
  BY <1>1 DEF CallRecord
<1>3. r \in CallRecord
  BY <1>1, BoundsAssumption DEF CallInv, CallRecord, TaskInv, Results, AllKinds, AnAnswer, Turns, Live
<1> HIDE DEF r
<1>4. StartInv(r)
  BY <1>2 DEF CallInv, StartInv, AllKinds, Turns, Live
<1>5. TaskInv(r)
  BY <1>2 DEF CallInv, StartInv, TaskInv, FutureInv, Early, Live, Reported, Results, WaitsForRuntimeCancellation
<1>6. FutureInv(r)
  BY <1>1, <1>2 DEF CallInv, StartInv, TaskInv, FutureInv, Early, Live, WaitsForRuntimeCancellation
<1>7. Matches(r)
  BY <1>2 DEF CallInv, StartInv, TaskInv, FutureInv, Early, Matches, Reported, Results, WaitsForRuntimeCancellation
<1>8. Succeeds(q, r)
  BY <1>2, <1>3, <1>4, <1>5, <1>6, <1>7 DEF Succeeds, CallInv, StartInv
<1> QED  BY <1>8 DEF r

\* An abort lands.
LEMMA KilledSucceeds ==
    ASSUME NEW q, CallInv(q), q.task \in Live, q.fut = "killing"
    PROVE  Succeeds(q, [q EXCEPT !.task = "killed"])
<1> DEFINE r == [q EXCEPT !.task = "killed"]
<1>1. /\ q.task \in Live \cup {"none", "finished", "killed"} /\ q \in CallRecord
      /\ q.outcomes \in Seq(Results \cup {"aborted"})
  BY DEF CallInv, CallRecord
<1>2. /\ r.task = "killed" /\ r.kind = q.kind /\ r.turn = q.turn
      /\ r.result = q.result /\ r.fut = q.fut /\ r.flag = q.flag
      /\ r.outcomes = q.outcomes /\ r.response = q.response /\ r.asked = q.asked
      /\ r.askedIn = q.askedIn /\ r.said = q.said /\ r.reply = q.reply
  BY <1>1 DEF CallRecord
<1>3. r \in CallRecord
  BY <1>1, BoundsAssumption DEF CallInv, CallRecord, TaskInv, Results, AllKinds, AnAnswer, Turns, Live
<1> HIDE DEF r
<1>4. StartInv(r)
  BY <1>2 DEF CallInv, StartInv, AllKinds, Turns, Live
<1>5. TaskInv(r)
  BY <1>2 DEF CallInv, StartInv, TaskInv, FutureInv, Early, Live, Reported, Results, WaitsForRuntimeCancellation
<1>6. FutureInv(r)
  BY <1>1, <1>2 DEF CallInv, StartInv, TaskInv, FutureInv, Early, Live, WaitsForRuntimeCancellation
<1>7. Matches(r)
  BY <1>2 DEF CallInv, StartInv, TaskInv, FutureInv, Early, Matches, Reported, Results, WaitsForRuntimeCancellation
<1>8. Succeeds(q, r)
  BY <1>2, <1>3, <1>4, <1>5, <1>6, <1>7 DEF Succeeds, CallInv, StartInv
<1> QED  BY <1>8 DEF r

\* The future passes the result on.
LEMMA ReturnedSucceeds ==
    ASSUME NEW q, CallInv(q), q.fut \in {"select", "joining", "killing"}, q.task = "finished"
    PROVE  Succeeds(q, [q EXCEPT !.fut = "done", !.response = q.result])
<1> DEFINE r == [q EXCEPT !.fut = "done", !.response = q.result]
<1>1. /\ q.task \in Live \cup {"none", "finished", "killed"} /\ q \in CallRecord
      /\ q.outcomes \in Seq(Results \cup {"aborted"})
  BY DEF CallInv, CallRecord
<1>2. /\ r.fut = "done" /\ r.response = q.result /\ r.kind = q.kind
      /\ r.turn = q.turn /\ r.task = q.task /\ r.result = q.result
      /\ r.flag = q.flag /\ r.outcomes = q.outcomes /\ r.asked = q.asked
      /\ r.askedIn = q.askedIn /\ r.said = q.said /\ r.reply = q.reply
  BY <1>1 DEF CallRecord
<1>3. r \in CallRecord
  BY <1>1 DEF CallRecord
<1> HIDE DEF r
<1>4. StartInv(r)
  BY <1>2 DEF CallInv, StartInv, AllKinds, Turns, Live
<1>5. TaskInv(r)
  BY <1>2 DEF CallInv, StartInv, TaskInv, FutureInv, Early, Live, Reported, Results, WaitsForRuntimeCancellation
<1>6. FutureInv(r)
  BY <1>1, <1>2 DEF CallInv, StartInv, TaskInv, FutureInv, Early, Live, WaitsForRuntimeCancellation
<1>7. Matches(r)
  BY <1>2 DEF CallInv, StartInv, TaskInv, FutureInv, Early, Matches, Reported, Results, WaitsForRuntimeCancellation
<1>8. Succeeds(q, r)
  BY <1>2, <1>3, <1>4, <1>5, <1>6, <1>7 DEF Succeeds, CallInv, StartInv
<1> QED  BY <1>8 DEF r

\* The cancelled future finds the outcome claimed.
LEMMA JoiningSucceeds ==
    ASSUME NEW q, CallInv(q), q.fut = "select", q.flag \/ q.task = "finished"
    PROVE  Succeeds(q, [q EXCEPT !.fut = "joining"])
<1> DEFINE r == [q EXCEPT !.fut = "joining"]
<1>1. /\ q.task \in Live \cup {"none", "finished", "killed"} /\ q \in CallRecord
      /\ q.outcomes \in Seq(Results \cup {"aborted"})
  BY DEF CallInv, CallRecord
<1>2. /\ r.fut = "joining" /\ r.kind = q.kind /\ r.turn = q.turn /\ r.task = q.task
      /\ r.result = q.result /\ r.flag = q.flag /\ r.outcomes = q.outcomes
      /\ r.response = q.response /\ r.asked = q.asked /\ r.askedIn = q.askedIn
      /\ r.said = q.said /\ r.reply = q.reply
  BY <1>1 DEF CallRecord
<1>3. r \in CallRecord
  BY <1>1, BoundsAssumption DEF CallInv, CallRecord, TaskInv, Results, AllKinds, AnAnswer, Turns, Live
<1> HIDE DEF r
<1>4. StartInv(r)
  BY <1>2 DEF CallInv, StartInv, AllKinds, Turns, Live
<1>5. TaskInv(r)
  BY <1>2 DEF CallInv, StartInv, TaskInv, FutureInv, Early, Live, Reported, Results, WaitsForRuntimeCancellation
<1>6. FutureInv(r)
  BY <1>1, <1>2 DEF CallInv, StartInv, TaskInv, FutureInv, Early, Live, WaitsForRuntimeCancellation
<1>7. Matches(r)
  BY <1>2 DEF CallInv, StartInv, TaskInv, FutureInv, Early, Matches, Reported, Results, WaitsForRuntimeCancellation
<1>8. Succeeds(q, r)
  BY <1>2, <1>3, <1>4, <1>5, <1>6, <1>7 DEF Succeeds, CallInv, StartInv
<1> QED  BY <1>8 DEF r

\* The cancelled future goes for the flag.
LEMMA ClaimingSucceeds ==
    ASSUME NEW q, CallInv(q), q.fut = "select", WaitsForRuntimeCancellation(q.kind)
    PROVE  Succeeds(q, [q EXCEPT !.fut = "claiming"])
<1> DEFINE r == [q EXCEPT !.fut = "claiming"]
<1>1. /\ q.task \in Live \cup {"none", "finished", "killed"} /\ q \in CallRecord
      /\ q.outcomes \in Seq(Results \cup {"aborted"})
  BY DEF CallInv, CallRecord
<1>2. /\ r.fut = "claiming" /\ r.kind = q.kind /\ r.turn = q.turn /\ r.task = q.task
      /\ r.result = q.result /\ r.flag = q.flag /\ r.outcomes = q.outcomes
      /\ r.response = q.response /\ r.asked = q.asked /\ r.askedIn = q.askedIn
      /\ r.said = q.said /\ r.reply = q.reply
  BY <1>1 DEF CallRecord
<1>3. r \in CallRecord
  BY <1>1, BoundsAssumption DEF CallInv, CallRecord, TaskInv, Results, AllKinds, AnAnswer, Turns, Live
<1> HIDE DEF r
<1>4. StartInv(r)
  BY <1>2 DEF CallInv, StartInv, AllKinds, Turns, Live
<1>5. TaskInv(r)
  BY <1>2 DEF CallInv, StartInv, TaskInv, FutureInv, Early, Live, Reported, Results, WaitsForRuntimeCancellation
<1>6. FutureInv(r)
  BY <1>1, <1>2 DEF CallInv, StartInv, TaskInv, FutureInv, Early, Live, WaitsForRuntimeCancellation
<1>7. Matches(r)
  BY <1>2 DEF CallInv, StartInv, TaskInv, FutureInv, Early, Matches, Reported, Results, WaitsForRuntimeCancellation
<1>8. Succeeds(q, r)
  BY <1>2, <1>3, <1>4, <1>5, <1>6, <1>7 DEF Succeeds, CallInv, StartInv
<1> QED  BY <1>8 DEF r

\* The cancelled future goes for the handle.
LEMMA AbortingSucceeds ==
    ASSUME NEW q, CallInv(q), q.fut = "select", ~q.flag, q.task # "finished", ~WaitsForRuntimeCancellation(q.kind)
    PROVE  Succeeds(q, [q EXCEPT !.fut = "aborting"])
<1> DEFINE r == [q EXCEPT !.fut = "aborting"]
<1>1. /\ q.task \in Live \cup {"none", "finished", "killed"} /\ q \in CallRecord
      /\ q.outcomes \in Seq(Results \cup {"aborted"})
  BY DEF CallInv, CallRecord
<1>2. /\ r.fut = "aborting" /\ r.kind = q.kind /\ r.turn = q.turn /\ r.task = q.task
      /\ r.result = q.result /\ r.flag = q.flag /\ r.outcomes = q.outcomes
      /\ r.response = q.response /\ r.asked = q.asked /\ r.askedIn = q.askedIn
      /\ r.said = q.said /\ r.reply = q.reply
  BY <1>1 DEF CallRecord
<1>3. r \in CallRecord
  BY <1>1, BoundsAssumption DEF CallInv, CallRecord, TaskInv, Results, AllKinds, AnAnswer, Turns, Live
<1> HIDE DEF r
<1>4. StartInv(r)
  BY <1>2 DEF CallInv, StartInv, AllKinds, Turns, Live
<1>5. TaskInv(r)
  BY <1>2 DEF CallInv, StartInv, TaskInv, FutureInv, Early, Live, Reported, Results, WaitsForRuntimeCancellation
<1>6. FutureInv(r)
  BY <1>1, <1>2 DEF CallInv, StartInv, TaskInv, FutureInv, Early, Live, WaitsForRuntimeCancellation
<1>7. Matches(r)
  BY <1>2 DEF CallInv, StartInv, TaskInv, FutureInv, Early, Matches, Reported, Results, WaitsForRuntimeCancellation
<1>8. Succeeds(q, r)
  BY <1>2, <1>3, <1>4, <1>5, <1>6, <1>7 DEF Succeeds, CallInv, StartInv
<1> QED  BY <1>8 DEF r

\* The swap finds the flag set.
LEMMA TooLateSucceeds ==
    ASSUME NEW q, CallInv(q), q.fut = "claiming", q.flag
    PROVE  Succeeds(q, [q EXCEPT !.flag = TRUE, !.fut = "joining"])
<1> DEFINE r == [q EXCEPT !.flag = TRUE, !.fut = "joining"]
<1>1. /\ q.task \in Live \cup {"none", "finished", "killed"} /\ q \in CallRecord
      /\ q.outcomes \in Seq(Results \cup {"aborted"})
  BY DEF CallInv, CallRecord
<1>2. /\ r.flag = TRUE /\ r.fut = "joining" /\ r.kind = q.kind /\ r.turn = q.turn
      /\ r.task = q.task /\ r.result = q.result /\ r.outcomes = q.outcomes
      /\ r.response = q.response /\ r.asked = q.asked /\ r.askedIn = q.askedIn
      /\ r.said = q.said /\ r.reply = q.reply
  BY <1>1 DEF CallRecord
<1>3. r \in CallRecord
  BY <1>1, BoundsAssumption DEF CallInv, CallRecord, TaskInv, Results, AllKinds, AnAnswer, Turns, Live
<1> HIDE DEF r
<1>4. StartInv(r)
  BY <1>2 DEF CallInv, StartInv, AllKinds, Turns, Live
<1>5. TaskInv(r)
  BY <1>2 DEF CallInv, StartInv, TaskInv, FutureInv, Early, Live, Reported, Results, WaitsForRuntimeCancellation
<1>6. FutureInv(r)
  BY <1>1, <1>2 DEF CallInv, StartInv, TaskInv, FutureInv, Early, Live, WaitsForRuntimeCancellation
<1>7. Matches(r)
  BY <1>2 DEF CallInv, StartInv, TaskInv, FutureInv, Early, Matches, Reported, Results, WaitsForRuntimeCancellation
<1>8. Succeeds(q, r)
  BY <1>2, <1>3, <1>4, <1>5, <1>6, <1>7 DEF Succeeds, CallInv, StartInv
<1> QED  BY <1>8 DEF r

\* The swap claims the outcome.
LEMMA TeardownSucceeds ==
    ASSUME NEW q, CallInv(q), q.fut = "claiming", ~q.flag
    PROVE  Succeeds(q, [q EXCEPT !.flag = TRUE, !.fut = "teardown"])
<1> DEFINE r == [q EXCEPT !.flag = TRUE, !.fut = "teardown"]
<1>1. /\ q.task \in Live \cup {"none", "finished", "killed"} /\ q \in CallRecord
      /\ q.outcomes \in Seq(Results \cup {"aborted"})
  BY DEF CallInv, CallRecord
<1>2. /\ r.flag = TRUE /\ r.fut = "teardown" /\ r.kind = q.kind /\ r.turn = q.turn
      /\ r.task = q.task /\ r.result = q.result /\ r.outcomes = q.outcomes
      /\ r.response = q.response /\ r.asked = q.asked /\ r.askedIn = q.askedIn
      /\ r.said = q.said /\ r.reply = q.reply
  BY <1>1 DEF CallRecord
<1>3. r \in CallRecord
  BY <1>1, BoundsAssumption DEF CallInv, CallRecord, TaskInv, Results, AllKinds, AnAnswer, Turns, Live
<1> HIDE DEF r
<1>4. StartInv(r)
  BY <1>2 DEF CallInv, StartInv, AllKinds, Turns, Live
<1>5. TaskInv(r)
  BY <1>2 DEF CallInv, StartInv, TaskInv, FutureInv, Early, Live, Reported, Results, WaitsForRuntimeCancellation
<1>6. FutureInv(r)
  BY <1>1, <1>2 DEF CallInv, StartInv, TaskInv, FutureInv, Early, Live, Reported, WaitsForRuntimeCancellation
<1>7. Matches(r)
  BY <1>2 DEF CallInv, StartInv, TaskInv, FutureInv, Early, Matches, Reported, Results, WaitsForRuntimeCancellation
<1>8. Succeeds(q, r)
  BY <1>2, <1>3, <1>4, <1>5, <1>6, <1>7 DEF Succeeds, CallInv, StartInv
<1> QED  BY <1>8 DEF r

\* The handle is aborted.
LEMMA KillingSucceeds ==
    ASSUME NEW q, CallInv(q), q.fut = "aborting"
    PROVE  Succeeds(q, [q EXCEPT !.fut = "killing"])
<1> DEFINE r == [q EXCEPT !.fut = "killing"]
<1>1. /\ q.task \in Live \cup {"none", "finished", "killed"} /\ q \in CallRecord
      /\ q.outcomes \in Seq(Results \cup {"aborted"})
  BY DEF CallInv, CallRecord
<1>2. /\ r.fut = "killing" /\ r.kind = q.kind /\ r.turn = q.turn /\ r.task = q.task
      /\ r.result = q.result /\ r.flag = q.flag /\ r.outcomes = q.outcomes
      /\ r.response = q.response /\ r.asked = q.asked /\ r.askedIn = q.askedIn
      /\ r.said = q.said /\ r.reply = q.reply
  BY <1>1 DEF CallRecord
<1>3. r \in CallRecord
  BY <1>1, BoundsAssumption DEF CallInv, CallRecord, TaskInv, Results, AllKinds, AnAnswer, Turns, Live
<1> HIDE DEF r
<1>4. StartInv(r)
  BY <1>2 DEF CallInv, StartInv, AllKinds, Turns, Live
<1>5. TaskInv(r)
  BY <1>2 DEF CallInv, StartInv, TaskInv, FutureInv, Early, Live, Reported, Results, WaitsForRuntimeCancellation
<1>6. FutureInv(r)
  BY <1>1, <1>2 DEF CallInv, StartInv, TaskInv, FutureInv, Early, Live, WaitsForRuntimeCancellation
<1>7. Matches(r)
  BY <1>2 DEF CallInv, StartInv, TaskInv, FutureInv, Early, Matches, Reported, Results, WaitsForRuntimeCancellation
<1>8. Succeeds(q, r)
  BY <1>2, <1>3, <1>4, <1>5, <1>6, <1>7 DEF Succeeds, CallInv, StartInv
<1> QED  BY <1>8 DEF r

\* The abort is reported.
LEMMA AbortedSucceeds ==
    ASSUME NEW q, CallInv(q), q.fut \in {"teardown", "killing"},
           q.task = IF q.fut = "teardown" THEN "finished" ELSE "killed"
    PROVE  Succeeds(q, [q EXCEPT !.fut = "done", !.response = "aborted", !.outcomes = Append(@, "aborted")])
<1> DEFINE r == [q EXCEPT !.fut = "done", !.response = "aborted", !.outcomes = Append(@, "aborted")]
<1>1. /\ q.task \in Live \cup {"none", "finished", "killed"} /\ q \in CallRecord
      /\ q.outcomes \in Seq(Results \cup {"aborted"})
  BY DEF CallInv, CallRecord
<1>2. /\ r.fut = "done" /\ r.response = "aborted"
      /\ r.outcomes = Append(q.outcomes, "aborted") /\ r.kind = q.kind
      /\ r.turn = q.turn /\ r.task = q.task /\ r.result = q.result
      /\ r.flag = q.flag /\ r.asked = q.asked /\ r.askedIn = q.askedIn
      /\ r.said = q.said /\ r.reply = q.reply
  BY <1>1 DEF CallRecord
<1>3. Append(q.outcomes, "aborted") \in Seq(Results \cup {"aborted"})
  BY <1>1, <1>2, BoundsAssumption DEF CallRecord
<1>4. r \in CallRecord
  BY <1>1, <1>3 DEF CallRecord
<1> HIDE DEF r
<1>5. StartInv(r)
  BY <1>2 DEF CallInv, StartInv, AllKinds, Turns, Live
<1>6. TaskInv(r)
  BY <1>2 DEF CallInv, StartInv, TaskInv, FutureInv, Early, Live, Reported, Results, WaitsForRuntimeCancellation
<1>7. FutureInv(r)
  BY <1>1, <1>2 DEF CallInv, StartInv, TaskInv, FutureInv, Early, Live, WaitsForRuntimeCancellation
<1>8. Matches(r)
  <2>1. WaitsForRuntimeCancellation(q.kind) => q.outcomes = <<>>
    BY DEF CallInv, FutureInv
  <2>2. /\ r.outcomes # <<>> /\ r.outcomes[Len(r.outcomes)] = "aborted"
        /\ q.outcomes = <<>> => Len(r.outcomes) = 1
    BY <1>1, <1>2
  <2> QED  BY <1>2, <2>1, <2>2 DEF Matches, Results
<1>9. Succeeds(q, r)
  BY <1>2, <1>4, <1>5, <1>6, <1>7, <1>8 DEF Succeeds, CallInv, StartInv
<1> QED  BY <1>9 DEF r

\* The future is dropped and its task aborted with it.
LEMMA DroppedSucceeds ==
    ASSUME NEW q, CallInv(q), q.fut # "done", q.kind # "none"
    PROVE  Succeeds(q, [q EXCEPT !.fut = "dropped", !.task = IF @ \in Live THEN "killed" ELSE @])
<1> DEFINE r == [q EXCEPT !.fut = "dropped", !.task = IF @ \in Live THEN "killed" ELSE @]
<1>1. /\ q.task \in Live \cup {"none", "finished", "killed"} /\ q \in CallRecord
      /\ q.outcomes \in Seq(Results \cup {"aborted"})
  BY DEF CallInv, CallRecord
<1>2. /\ r.fut = "dropped"
      /\ r.task = (IF q.task \in Live THEN "killed" ELSE q.task) /\ r.kind = q.kind
      /\ r.turn = q.turn /\ r.result = q.result /\ r.flag = q.flag
      /\ r.outcomes = q.outcomes /\ r.response = q.response /\ r.asked = q.asked
      /\ r.askedIn = q.askedIn /\ r.said = q.said /\ r.reply = q.reply
  BY <1>1 DEF CallRecord
<1>3. (IF q.task \in Live THEN "killed" ELSE q.task) \in Live \cup {"none", "finished", "killed"}
  BY <1>1, <1>2, BoundsAssumption DEF Live
<1>4. r \in CallRecord
  <2>1. \A x \in Live \cup {"none", "finished", "killed"} :
          [q EXCEPT !.fut = "dropped", !.task = x] \in CallRecord
    BY <1>1 DEF CallRecord
  <2>2. r = [q EXCEPT !.fut = "dropped", !.task = IF q.task \in Live THEN "killed" ELSE q.task]
    BY <1>1 DEF CallRecord
  <2> QED  BY <1>3, <2>1, <2>2
<1> HIDE DEF r
<1>5. StartInv(r)
  BY <1>2 DEF CallInv, StartInv, AllKinds, Turns, Live
<1>6. TaskInv(r)
  BY <1>2 DEF CallInv, StartInv, TaskInv, FutureInv, Early, Live, Reported, Results, WaitsForRuntimeCancellation
<1>7. FutureInv(r)
  BY <1>1, <1>2 DEF CallInv, StartInv, TaskInv, FutureInv, Early, Live, WaitsForRuntimeCancellation
<1>8. Matches(r)
  BY <1>2 DEF CallInv, StartInv, TaskInv, FutureInv, Early, Matches, Reported, Results, WaitsForRuntimeCancellation
<1>9. Succeeds(q, r)
  BY <1>2, <1>4, <1>5, <1>6, <1>7, <1>8 DEF Succeeds, CallInv, StartInv
<1> QED  BY <1>9 DEF r

\* The model calls tool k in turn t.
LEMMA IssuedSucceeds ==
    ASSUME NEW q, CallInv(q), q.kind = "none", NEW k \in AllKinds, NEW t \in Turns
    PROVE  Succeeds(q, [q EXCEPT !.kind = k, !.turn = t, !.task = "spawned", !.fut = "select"])
<1> DEFINE r == [q EXCEPT !.kind = k, !.turn = t, !.task = "spawned", !.fut = "select"]
<1>1. /\ q.task \in Live \cup {"none", "finished", "killed"} /\ q \in CallRecord
      /\ q.outcomes \in Seq(Results \cup {"aborted"})
  BY DEF CallInv, CallRecord
<1>2. /\ r.kind = k /\ r.turn = t /\ r.task = "spawned" /\ r.fut = "select"
      /\ r.result = q.result /\ r.flag = q.flag /\ r.outcomes = q.outcomes
      /\ r.response = q.response /\ r.asked = q.asked /\ r.askedIn = q.askedIn
      /\ r.said = q.said /\ r.reply = q.reply
  BY <1>1 DEF CallRecord
<1>3. "spawned" \in Live /\ t \in 0 .. MaxTurns
  BY <1>1, <1>2, BoundsAssumption DEF Live, Turns
<1>4. r \in CallRecord
  BY <1>1, <1>3 DEF CallRecord
<1> HIDE DEF r
<1>5. StartInv(r)
  BY <1>2 DEF CallInv, StartInv, AllKinds, Turns, Live
<1>6. TaskInv(r)
  BY <1>2 DEF CallInv, StartInv, TaskInv, FutureInv, Early, Live, Reported, Results, WaitsForRuntimeCancellation
<1>7. FutureInv(r)
  BY <1>1, <1>2 DEF CallInv, StartInv, TaskInv, FutureInv, Early, Live, WaitsForRuntimeCancellation
<1>8. Matches(r)
  BY <1>2 DEF CallInv, StartInv, TaskInv, FutureInv, Early, Matches, Reported, Results, WaitsForRuntimeCancellation
<1>9. Succeeds(q, r)
  BY <1>2, <1>4, <1>5, <1>6, <1>7, <1>8 DEF Succeeds, CallInv, StartInv
<1> QED  BY <1>9 DEF r

\* The client answers d.
LEMMA SaidSucceeds ==
    ASSUME NEW q, CallInv(q), NEW d \in AnAnswer
    PROVE  Succeeds(q, [q EXCEPT !.said = d])
<1> DEFINE r == [q EXCEPT !.said = d]
<1>1. /\ q.task \in Live \cup {"none", "finished", "killed"} /\ q \in CallRecord
      /\ q.outcomes \in Seq(Results \cup {"aborted"})
  BY DEF CallInv, CallRecord
<1>2. /\ r.said = d /\ r.kind = q.kind /\ r.turn = q.turn /\ r.task = q.task
      /\ r.result = q.result /\ r.fut = q.fut /\ r.flag = q.flag
      /\ r.outcomes = q.outcomes /\ r.response = q.response /\ r.asked = q.asked
      /\ r.askedIn = q.askedIn /\ r.reply = q.reply
  BY <1>1 DEF CallRecord
<1>3. r \in CallRecord
  BY <1>1, BoundsAssumption DEF CallInv, CallRecord, TaskInv, Results, AllKinds, AnAnswer, Turns, Live
<1> HIDE DEF r
<1>4. StartInv(r)
  BY <1>2 DEF CallInv, StartInv, AllKinds, Turns, Live
<1>5. TaskInv(r)
  BY <1>2 DEF CallInv, StartInv, TaskInv, FutureInv, Early, Live, Reported, Results, WaitsForRuntimeCancellation
<1>6. FutureInv(r)
  BY <1>1, <1>2 DEF CallInv, StartInv, TaskInv, FutureInv, Early, Live, WaitsForRuntimeCancellation
<1>7. Matches(r)
  BY <1>2 DEF CallInv, StartInv, TaskInv, FutureInv, Early, Matches, Reported, Results, WaitsForRuntimeCancellation
<1>8. Succeeds(q, r)
  BY <1>2, <1>3, <1>4, <1>5, <1>6, <1>7 DEF Succeeds, CallInv, StartInv
<1> QED  BY <1>8 DEF r

\* The receiver gets the answer d to the request of call c.
LEMMA RepliedSucceeds ==
    ASSUME NEW q, CallInv(q), NEW d \in AnAnswer, NEW c \in Calls
    PROVE  Succeeds(q, [q EXCEPT !.reply = [to |-> c, d |-> d]])
<1> DEFINE r == [q EXCEPT !.reply = [to |-> c, d |-> d]]
<1>1. /\ q.task \in Live \cup {"none", "finished", "killed"} /\ q \in CallRecord
      /\ q.outcomes \in Seq(Results \cup {"aborted"})
  BY DEF CallInv, CallRecord
<1>2. /\ r.reply = [to |-> c, d |-> d] /\ r.kind = q.kind /\ r.turn = q.turn
      /\ r.task = q.task /\ r.result = q.result /\ r.fut = q.fut /\ r.flag = q.flag
      /\ r.outcomes = q.outcomes /\ r.response = q.response /\ r.asked = q.asked
      /\ r.askedIn = q.askedIn /\ r.said = q.said
  BY <1>1 DEF CallRecord
<1>3. r \in CallRecord
  BY <1>1, BoundsAssumption DEF CallInv, CallRecord, TaskInv, Results, AllKinds, AnAnswer, Turns, Live
<1> HIDE DEF r
<1>4. StartInv(r)
  BY <1>2 DEF CallInv, StartInv, AllKinds, Turns, Live
<1>5. TaskInv(r)
  BY <1>2 DEF CallInv, StartInv, TaskInv, FutureInv, Early, Live, Reported, Results, WaitsForRuntimeCancellation
<1>6. FutureInv(r)
  BY <1>1, <1>2 DEF CallInv, StartInv, TaskInv, FutureInv, Early, Live, WaitsForRuntimeCancellation
<1>7. Matches(r)
  BY <1>2 DEF CallInv, StartInv, TaskInv, FutureInv, Early, Matches, Reported, Results, WaitsForRuntimeCancellation
<1>8. Succeeds(q, r)
  BY <1>2, <1>3, <1>4, <1>5, <1>6, <1>7 DEF Succeeds, CallInv, StartInv
<1> QED  BY <1>8 DEF r

-----------------------------------------------------------------------------
(* What every step does to the calls *)

Kept ==
    /\ call' \in [Calls -> CallRecord]
    /\ \A c \in Calls : Succeeds(call[c], call'[c])

\* A record succeeds itself.
LEMMA SelfSucceeds ==
    ASSUME NEW q, CallInv(q)
    PROVE  Succeeds(q, q)
BY DEF Succeeds

\* A step that replaces one record by a successor keeps the calls.
LEMMA OneCallKept ==
    ASSUME Inv, NEW c \in Calls, NEW r, Succeeds(call[c], r), call' = [call EXCEPT ![c] = r]
    PROVE  Kept
<1>1. call \in [Calls -> CallRecord] /\ r \in CallRecord
  BY DEF Inv, TypeOK, Succeeds, CallInv
<1>2. call' \in [Calls -> CallRecord] /\ call'[c] = r
  BY <1>1
<1>3. ASSUME NEW d \in Calls, d # c  PROVE  call'[d] = call[d]
  BY <1>1, <1>3
<1>4. \A d \in Calls : CallInv(call[d])
  BY DEF Inv
<1>5. ASSUME NEW d \in Calls  PROVE  Succeeds(call[d], call'[d])
  BY <1>2, <1>3, <1>4, SelfSucceeds
<1> QED  BY <1>2, <1>5 DEF Kept

\* A step that leaves the calls alone keeps them.
LEMMA NoCallKept ==
    ASSUME Inv, call' = call
    PROVE  Kept
BY SelfSucceeds DEF Inv, TypeOK, Kept

\* Every step of a call's task keeps the calls.
LEMMA TaskKept ==
    ASSUME Inv, NEW c \in Calls, TaskStep(c)
    PROVE  Kept
<1> DEFINE q == call[c]
<1>1. CallInv(q)
  BY DEF Inv
<1>2. call \in [Calls -> CallRecord] /\ active \in 0 .. MaxTurns
  BY DEF Inv, TypeOK
<1>3. {"blocked", "cancelled", "rejected", "done"} \subseteq Results \ {"unsupported"}
  BY DEF Results
<1>4. CASE AcquireLock(c)
  <2> DEFINE r == [q EXCEPT !.task = "running"]
  <2>1. Succeeds(q, r)
    BY <1>1, <1>2, <1>4, AcquireSucceeds DEF AcquireLock
  <2>2. call' = [call EXCEPT ![c] = r]
    BY <1>2, <1>4 DEF AcquireLock
  <2> QED  BY <2>1, <2>2, OneCallKept
<1>5. CASE UnsupportedTool(c)
  <2> DEFINE r == [q EXCEPT !.task = "finished", !.result = "unsupported"]
  <2>1. Succeeds(q, r)
    BY <1>1, <1>2, <1>5, UnsupportedSucceeds DEF UnsupportedTool
  <2>2. call' = [call EXCEPT ![c] = r]
    BY <1>2, <1>5 DEF UnsupportedTool
  <2> QED  BY <2>1, <2>2, OneCallKept
<1>6. CASE BlockedByHook(c)
  <2> DEFINE r == [q EXCEPT !.task = "worked", !.result = "blocked"]
  <2>1. Succeeds(q, r)
    BY <1>1, <1>2, <1>3, <1>6, WorkedSucceeds DEF BlockedByHook
  <2>2. call' = [call EXCEPT ![c] = r]
    BY <1>2, <1>6 DEF BlockedByHook
  <2> QED  BY <2>1, <2>2, OneCallKept
<1>7. CASE Request(c)
  <2> DEFINE r == [q EXCEPT !.task = "asking", !.asked = TRUE, !.askedIn = active]
  <2>1. Succeeds(q, r)
    BY <1>1, <1>2, <1>7, AskedSucceeds DEF Request
  <2>2. call' = [call EXCEPT ![c] = r]
    BY <1>2, <1>7 DEF Request
  <2> QED  BY <2>1, <2>2, OneCallKept
<1>8. CASE SenderDropped(c)
  <2> DEFINE r == [q EXCEPT !.task = "worked", !.result = IF MustAsk(q.kind) THEN "cancelled" ELSE "rejected"]
  <2>1. Succeeds(q, r)
    BY <1>1, <1>2, <1>3, <1>8, WorkedSucceeds DEF SenderDropped
  <2>2. call' = [call EXCEPT ![c] = r]
    BY <1>2, <1>8 DEF SenderDropped
  <2> QED  BY <2>1, <2>2, OneCallKept
<1>9. CASE ReceiveReply(c) /\ ReadsAsConsent(c)
  <2> DEFINE r == [q EXCEPT !.task = "approved", !.result = "none"]
  <2>1. Succeeds(q, r)
    BY <1>1, <1>2, <1>9, ApprovedSucceeds DEF ReceiveReply
  <2>2. call' = [call EXCEPT ![c] = r]
    BY <1>2, <1>9 DEF ReceiveReply
  <2> QED  BY <2>1, <2>2, OneCallKept
<1>10. CASE ReceiveReply(c) /\ ~ReadsAsConsent(c)
  <2> DEFINE r == [q EXCEPT !.task = "worked", !.result = "rejected"]
  <2>1. Succeeds(q, r)
    BY <1>1, <1>2, <1>3, <1>10, WorkedSucceeds DEF ReceiveReply
  <2>2. call' = [call EXCEPT ![c] = r]
    BY <1>2, <1>10 DEF ReceiveReply
  <2> QED  BY <2>1, <2>2, OneCallKept
<1>11. CASE PermissionCancelled(c)
  <2> DEFINE r == [q EXCEPT !.task = "worked", !.result = "cancelled"]
  <2>1. Succeeds(q, r)
    BY <1>1, <1>2, <1>3, <1>11, WorkedSucceeds DEF PermissionCancelled
  <2>2. call' = [call EXCEPT ![c] = r]
    BY <1>2, <1>11 DEF PermissionCancelled
  <2> QED  BY <2>1, <2>2, OneCallKept
<1>12. CASE Work(c)
  <2> DEFINE r == [q EXCEPT !.task = "worked", !.result = "done"]
  <2>1. Succeeds(q, r)
    BY <1>1, <1>2, <1>3, <1>12, WorkedSucceeds DEF Work
  <2>2. call' = [call EXCEPT ![c] = r]
    BY <1>2, <1>12 DEF Work
  <2> QED  BY <2>1, <2>2, OneCallKept
<1>13. CASE NotifyFinishIfUnclaimed(c) /\ q.flag
  <2> DEFINE r == [q EXCEPT !.task = "finished"]
  <2>1. Succeeds(q, r)
    BY <1>1, <1>2, <1>13, LostSucceeds DEF NotifyFinishIfUnclaimed
  <2>2. call' = [call EXCEPT ![c] = r]
    BY <1>2, <1>13 DEF NotifyFinishIfUnclaimed
  <2> QED  BY <2>1, <2>2, OneCallKept
<1>14. CASE NotifyFinishIfUnclaimed(c) /\ ~q.flag
  <2> DEFINE r == [q EXCEPT !.flag = TRUE, !.task = "notifying", !.outcomes = Append(@, q.result)]
  <2>1. Succeeds(q, r)
    BY <1>1, <1>2, <1>14, ClaimedSucceeds DEF NotifyFinishIfUnclaimed
  <2>2. call' = [call EXCEPT ![c] = r]
    BY <1>2, <1>14 DEF NotifyFinishIfUnclaimed
  <2> QED  BY <2>1, <2>2, OneCallKept
<1>15. CASE Notified(c)
  <2> DEFINE r == [q EXCEPT !.task = "finished"]
  <2>1. Succeeds(q, r)
    BY <1>1, <1>2, <1>15, NotifiedSucceeds DEF Notified
  <2>2. call' = [call EXCEPT ![c] = r]
    BY <1>2, <1>15 DEF Notified
  <2> QED  BY <2>1, <2>2, OneCallKept
<1>16. CASE KillLands(c)
  <2> DEFINE r == [q EXCEPT !.task = "killed"]
  <2>1. Succeeds(q, r)
    BY <1>1, <1>2, <1>16, KilledSucceeds DEF KillLands
  <2>2. call' = [call EXCEPT ![c] = r]
    BY <1>2, <1>16 DEF KillLands
  <2> QED  BY <2>1, <2>2, OneCallKept
<1> QED
  BY <1>4, <1>5, <1>6, <1>7, <1>8, <1>9, <1>10, <1>11, <1>12, <1>13, <1>14, <1>15, <1>16 DEF TaskStep

\* Every step of a call's future keeps the calls.
LEMMA FutureKept ==
    ASSUME Inv, NEW c \in Calls, FutureStep(c)
    PROVE  Kept
<1> DEFINE q == call[c]
<1>1. CallInv(q)
  BY DEF Inv
<1>2. call \in [Calls -> CallRecord]
  BY DEF Inv, TypeOK
<1>3. CASE SelectResult(c)
  <2> DEFINE r == [q EXCEPT !.fut = "done", !.response = q.result]
  <2>1. Succeeds(q, r)
    BY <1>1, <1>2, <1>3, ReturnedSucceeds DEF SelectResult, Returns
  <2>2. call' = [call EXCEPT ![c] = r]
    BY <1>2, <1>3 DEF SelectResult, Returns
  <2> QED  BY <2>1, <2>2, OneCallKept
<1>4. CASE SelectCancelled(c) /\ (q.flag \/ q.task = "finished")
  <2> DEFINE r == [q EXCEPT !.fut = "joining"]
  <2>1. Succeeds(q, r)
    BY <1>1, <1>2, <1>4, JoiningSucceeds DEF SelectCancelled
  <2>2. call' = [call EXCEPT ![c] = r]
    BY <1>2, <1>4 DEF SelectCancelled
  <2> QED  BY <2>1, <2>2, OneCallKept
<1>5. CASE SelectCancelled(c) /\ ~(q.flag \/ q.task = "finished") /\ WaitsForRuntimeCancellation(q.kind)
  <2> DEFINE r == [q EXCEPT !.fut = "claiming"]
  <2>1. Succeeds(q, r)
    BY <1>1, <1>2, <1>5, ClaimingSucceeds DEF SelectCancelled
  <2>2. call' = [call EXCEPT ![c] = r]
    BY <1>2, <1>5 DEF SelectCancelled
  <2> QED  BY <2>1, <2>2, OneCallKept
<1>6. CASE SelectCancelled(c) /\ ~(q.flag \/ q.task = "finished") /\ ~WaitsForRuntimeCancellation(q.kind)
  <2> DEFINE r == [q EXCEPT !.fut = "aborting"]
  <2>1. Succeeds(q, r)
    BY <1>1, <1>2, <1>6, AbortingSucceeds DEF SelectCancelled
  <2>2. call' = [call EXCEPT ![c] = r]
    BY <1>2, <1>6 DEF SelectCancelled
  <2> QED  BY <2>1, <2>2, OneCallKept
<1>7. CASE ClaimAbort(c) /\ q.flag
  <2> DEFINE r == [q EXCEPT !.flag = TRUE, !.fut = "joining"]
  <2>1. Succeeds(q, r)
    BY <1>1, <1>2, <1>7, TooLateSucceeds DEF ClaimAbort
  <2>2. call' = [call EXCEPT ![c] = r]
    BY <1>2, <1>7 DEF ClaimAbort
  <2> QED  BY <2>1, <2>2, OneCallKept
<1>8. CASE ClaimAbort(c) /\ ~q.flag
  <2> DEFINE r == [q EXCEPT !.flag = TRUE, !.fut = "teardown"]
  <2>1. Succeeds(q, r)
    BY <1>1, <1>2, <1>8, TeardownSucceeds DEF ClaimAbort
  <2>2. call' = [call EXCEPT ![c] = r]
    BY <1>2, <1>8 DEF ClaimAbort
  <2> QED  BY <2>1, <2>2, OneCallKept
<1>9. CASE AbortHandle(c)
  <2> DEFINE r == [q EXCEPT !.fut = "killing"]
  <2>1. Succeeds(q, r)
    BY <1>1, <1>2, <1>9, KillingSucceeds DEF AbortHandle
  <2>2. call' = [call EXCEPT ![c] = r]
    BY <1>2, <1>9 DEF AbortHandle
  <2> QED  BY <2>1, <2>2, OneCallKept
<1>10. CASE ReportAborted(c)
  <2> DEFINE r == [q EXCEPT !.fut = "done", !.response = "aborted", !.outcomes = Append(@, "aborted")]
  <2>1. /\ q.fut \in {"teardown", "killing"}
        /\ q.task = IF q.fut = "teardown" THEN "finished" ELSE "killed"
    BY <1>10 DEF ReportAborted
  <2>3. Succeeds(q, r)
    <3> HIDE DEF q
    <3> QED  BY <1>1, <2>1, AbortedSucceeds
  <2>2. call' = [call EXCEPT ![c] = r]
    BY <1>2, <1>10 DEF ReportAborted
  <2> QED  BY <2>2, <2>3, OneCallKept
<1> QED
  BY <1>3, <1>4, <1>5, <1>6, <1>7, <1>8, <1>9, <1>10 DEF FutureStep
-----------------------------------------------------------------------------
(* The whole state *)

TurnTypes ==
    /\ active \in 0 .. MaxTurns
    /\ stage \in [Turns -> {"new", "running", "taken", "cancelled", "stopped", "over"}]
    /\ run \in [Turns -> {"idle", "streaming", "draining", "ended"}]

Waiter == [key : ({"turn"} \X Turns) \cup ({"call"} \X Calls), call : Calls]

AskTypes ==
    /\ waiters \in [Turns -> SUBSET Waiter]
    /\ answering \subseteq [call : Calls, turn : Turns, d : AnAnswer]
    /\ grants \in [0 .. MaxTurns -> SUBSET Calls]

\* The parts of the type invariant.
LEMMA TypeParts ==
    ASSUME Inv
    PROVE  TurnTypes /\ AskTypes /\ call \in [Calls -> CallRecord] /\ \A c \in Calls : CallInv(call[c])
BY DEF Inv, TypeOK, TurnTypes, AskTypes, Waiter

\* A step that keeps the calls has to care for the requests only.
LEMMA InvFromParts ==
    ASSUME Kept, TurnTypes', AskTypes', AskInv'
    PROVE  Inv'
<1>1. \A c \in Calls : CallInv(call'[c])
  BY DEF Kept, Succeeds
<1>2. \A c \in Calls : call'[c].fut = "joining" => call'[c].task \in {"notifying", "finished"}
  BY <1>1 DEF CallInv, FutureInv
<1>3. TypeOK'
  BY <1>2 DEF TypeOK, TurnTypes, AskTypes, Waiter, Kept
<1> QED  BY <1>1, <1>3 DEF Inv, CallInv, CallRecord, StartInv, TaskInv, FutureInv, Matches, Reported, WaitsForRuntimeCancellation

\* What was asked stays asked, in the same turn and under the same key.
LEMMA AskedStays ==
    ASSUME Kept, NEW c \in Calls, call[c].asked
    PROVE  call'[c].asked /\ call'[c].askedIn = call[c].askedIn /\ Key(c)' = Key(c)
BY DEF Kept, Succeeds, Key

\* The requests, answers and grants there are keep agreeing with the calls.
LEMMA RequestsStay ==
    ASSUME Inv, Kept
    PROVE  /\ \A t \in Turns : \A w \in waiters[t] :
                (call[w.call].asked /\ call[w.call].askedIn = t /\ w.key = Key(w.call))'
           /\ \A a \in answering : call'[a.call].asked /\ call'[a.call].askedIn = a.turn
           /\ \A t \in Turns : \A c \in grants[t] : call'[c].asked /\ call'[c].askedIn = t
<1>1. AskTypes
  BY TypeParts
<1>2. ASSUME NEW t \in Turns, NEW w \in waiters[t]
      PROVE  (call[w.call].asked /\ call[w.call].askedIn = t /\ w.key = Key(w.call))'
  <2>1. w.call \in Calls
    BY <1>1, <1>2 DEF AskTypes, Waiter
  <2>2. call[w.call].asked /\ call[w.call].askedIn = t /\ w.key = Key(w.call)
    BY DEF Inv, AskInv
  <2> QED  BY <2>1, <2>2, AskedStays
<1>3. ASSUME NEW a \in answering
      PROVE  call'[a.call].asked /\ call'[a.call].askedIn = a.turn
  <2>1. a.call \in Calls /\ call[a.call].asked /\ call[a.call].askedIn = a.turn
    BY <1>1 DEF AskTypes, Inv, AskInv
  <2> QED  BY <2>1, AskedStays
<1>4. ASSUME NEW t \in Turns, NEW c \in grants[t]
      PROVE  call'[c].asked /\ call'[c].askedIn = t
  <2>1. c \in Calls /\ call[c].asked /\ call[c].askedIn = t
    BY <1>1, BoundsAssumption DEF AskTypes, Inv, AskInv, Turns
  <2> QED  BY <2>1, AskedStays
<1> QED  BY <1>2, <1>3, <1>4

\* A step that only drops waiters keeps the invariant.
LEMMA FewerRequests ==
    ASSUME Inv, Kept, TurnTypes',
           waiters' \in [Turns -> SUBSET Waiter], \A t \in Turns : waiters'[t] \subseteq waiters[t],
           answering' = answering, grants' = grants
    PROVE  Inv'
<1>1. AskTypes'
  BY TypeParts DEF AskTypes
<1>2. AskInv'
  BY RequestsStay DEF AskInv
<1> QED  BY <1>1, <1>2, InvFromParts

\* A step that does not touch the requests keeps the invariant.
LEMMA SameRequests ==
    ASSUME Inv, Kept, TurnTypes', UNCHANGED askVars
    PROVE  Inv'
<1>1. waiters' \in [Turns -> SUBSET Waiter] /\ waiters' = waiters
  BY TypeParts DEF AskTypes, askVars
<1> QED  BY <1>1, FewerRequests DEF askVars

\* The steps of the turns that concern no call.
LEMMA TurnSteps ==
    ASSUME Inv, NEW t \in Turns,
           \/ StartTurn(t) \/ StreamEnds(t) \/ Drained(t) \/ FinishTurn(t)
           \/ TakeActiveTurn(t) \/ CancelTask(t) \/ TaskDone(t)
    PROVE  Inv'
<1>1. TurnTypes
  BY TypeParts
<1>2. TurnTypes'
  <2>1. CASE StartTurn(t)
    BY <1>1, <2>1, BoundsAssumption DEF TurnTypes, Turns, StartTurn
  <2>2. CASE StreamEnds(t) \/ Drained(t) \/ FinishTurn(t)
    BY <1>1, <2>2, BoundsAssumption DEF TurnTypes, Turns, StreamEnds, Drained, FinishTurn
  <2>3. CASE TakeActiveTurn(t) \/ CancelTask(t) \/ TaskDone(t)
    BY <1>1, <2>3, BoundsAssumption DEF TurnTypes, Turns, TakeActiveTurn, CancelTask, TaskDone
  <2> QED  BY <2>1, <2>2, <2>3
<1>3. call' = call /\ UNCHANGED askVars
  BY DEF StartTurn, StreamEnds, Drained, FinishTurn, TakeActiveTurn, CancelTask, TaskDone, askVars
<1> QED  BY <1>2, <1>3, NoCallKept, SameRequests

\* GraceTimeout drops the futures of the turn and aborts their tasks.
LEMMA GraceTimeoutStep ==
    ASSUME Inv, NEW t \in Turns, GraceTimeout(t)
    PROVE  Inv'
<1>1. TurnTypes /\ call \in [Calls -> CallRecord] /\ \A c \in Calls : CallInv(call[c])
  BY TypeParts
<1>2. TurnTypes'
  BY <1>1 DEF TurnTypes, GraceTimeout
<1>3. ASSUME NEW c \in Calls  PROVE  Succeeds(call[c], call'[c])
  <2> DEFINE q == call[c]
             r == [q EXCEPT !.fut = "dropped", !.task = IF @ \in Live THEN "killed" ELSE @]
  <2>1. CASE q.turn = t /\ q.fut # "done"
    <3>1. q.kind # "none"
      BY <1>1, <2>1, BoundsAssumption DEF CallInv, StartInv, Turns
    <3>2. Succeeds(q, r)
      BY <1>1, <2>1, <3>1, DroppedSucceeds
    <3>3. call'[c] = r
      BY <2>1 DEF GraceTimeout
    <3> QED  BY <3>2, <3>3
  <2>2. CASE ~(q.turn = t /\ q.fut # "done")
    <3>1. call'[c] = q
      BY <2>2 DEF GraceTimeout
    <3> QED  BY <1>1, <3>1, SelfSucceeds
  <2> QED  BY <2>1, <2>2
<1>4. call' = [c \in Calls |-> call'[c]]
  BY DEF GraceTimeout
<1>5. Kept
  BY <1>3, <1>4 DEF Kept, Succeeds, CallInv
<1> QED  BY <1>2, <1>5, SameRequests DEF GraceTimeout, askVars

\* ClearPending drops the waiters of a turn.
LEMMA ClearPendingStep ==
    ASSUME Inv, NEW t \in Turns, ClearPending(t)
    PROVE  Inv'
<1>1. TurnTypes /\ AskTypes
  BY TypeParts
<1>2. TurnTypes' /\ Kept
  BY <1>1, NoCallKept DEF TurnTypes, ClearPending
<1>3. waiters' \in [Turns -> SUBSET Waiter] /\ \A u \in Turns : waiters'[u] \subseteq waiters[u]
  BY <1>1 DEF AskTypes, ClearPending
<1> QED  BY <1>2, <1>3, FewerRequests DEF ClearPending

\* The model's stream yields a call.
LEMMA IssueCallStep ==
    ASSUME Inv, NEW t \in Turns, NEW c \in Calls, NEW k \in AllKinds, IssueCall(t, c, k)
    PROVE  Inv'
<1> DEFINE q == call[c]
           r == [q EXCEPT !.kind = k, !.turn = t, !.task = "spawned", !.fut = "select"]
<1>1. TurnTypes /\ call \in [Calls -> CallRecord] /\ CallInv(q)
  BY TypeParts
<1>2. Succeeds(q, r)
  BY <1>1, IssuedSucceeds DEF IssueCall
<1>3. call' = [call EXCEPT ![c] = r]
  BY <1>1 DEF IssueCall
<1>4. Kept
  BY <1>2, <1>3, OneCallKept
<1>5. TurnTypes' /\ UNCHANGED askVars
  BY <1>1 DEF IssueCall, TurnTypes, turnVars
<1> QED  BY <1>4, <1>5, SameRequests

\* The steps of a task that touch no request.
LEMMA TaskSteps ==
    ASSUME Inv, NEW c \in Calls, TaskStep(c), ~Request(c), ~PermissionCancelled(c)
    PROVE  Inv'
<1>1. TurnTypes /\ Kept
  BY TypeParts, TaskKept
<1>2. UNCHANGED <<turnVars, askVars>>
  BY DEF TaskStep, AcquireLock, UnsupportedTool, BlockedByHook, SenderDropped, ReceiveReply, Work,
         NotifyFinishIfUnclaimed, Notified, KillLands
<1>3. TurnTypes'
  BY <1>1, <1>2 DEF TurnTypes, turnVars
<1> QED  BY <1>1, <1>2, <1>3, SameRequests

\* The steps of a future.
LEMMA FutureSteps ==
    ASSUME Inv, NEW c \in Calls, FutureStep(c)
    PROVE  Inv'
<1>1. TurnTypes /\ Kept
  BY TypeParts, FutureKept
<1>2. UNCHANGED <<turnVars, askVars>>
  BY DEF FutureStep, SelectResult, Returns, SelectCancelled, ClaimAbort, AbortHandle, ReportAborted
<1>3. TurnTypes'
  BY <1>1, <1>2 DEF TurnTypes, turnVars
<1> QED  BY <1>1, <1>2, <1>3, SameRequests

\* A cancelled permission request removes its waiter.
LEMMA PermissionCancelledStep ==
    ASSUME Inv, NEW c \in Calls, PermissionCancelled(c)
    PROVE  Inv'
<1>1. TurnTypes /\ AskTypes /\ Kept
  BY TypeParts, TaskKept DEF TaskStep
<1>2. TurnTypes'
  BY <1>1 DEF TurnTypes, turnVars, PermissionCancelled
<1>3. waiters' \in [Turns -> SUBSET Waiter] /\ \A t \in Turns : waiters'[t] \subseteq waiters[t]
  BY <1>1 DEF AskTypes, PermissionCancelled
<1> QED  BY <1>1, <1>2, <1>3, FewerRequests DEF PermissionCancelled

\* The key of a call that was issued.
LEMMA KeyType ==
    ASSUME Inv, NEW c \in Calls, call[c].kind # "none"
    PROVE  Key(c) \in ({"turn"} \X Turns) \cup ({"call"} \X Calls)
<1>1. call[c].turn \in 0 .. MaxTurns /\ call[c].turn # 0
  BY TypeParts DEF CallInv, CallRecord, StartInv
<1> QED  BY <1>1, BoundsAssumption DEF Key, Turns

\* A request puts its waiter into the active turn.
LEMMA RequestStep ==
    ASSUME Inv, NEW c \in Calls, Request(c)
    PROVE  Inv'
<1> DEFINE new == [key |-> Key(c), call |-> c]
<1>1. TurnTypes /\ AskTypes /\ Kept /\ call \in [Calls -> CallRecord]
  BY TypeParts, TaskKept DEF TaskStep
<1>2. TurnTypes'
  BY <1>1 DEF TurnTypes, turnVars, Request
<1>3. call[c].kind # "none" /\ ~call[c].asked
  BY TypeParts DEF CallInv, StartInv, Request, MayAsk
<1>4. new \in Waiter
  BY <1>3, KeyType DEF Waiter
<1>5. ASSUME NEW t \in Turns
      PROVE  waiters'[t] \subseteq waiters[t] \cup (IF t = active THEN {new} ELSE {})
  BY DEF Request
<1>6. AskTypes'
  <2>1. waiters' = [t \in Turns |-> waiters'[t]]
    BY DEF Request
  <2>2. waiters' \in [Turns -> SUBSET Waiter]
    BY <1>1, <1>4, <1>5, <2>1 DEF AskTypes
  <2> QED  BY <1>1, <2>2 DEF AskTypes, Request
<1>7. call'[c].asked /\ call'[c].askedIn = active /\ Key(c)' = Key(c)
  BY <1>1 DEF Request, Key, CallRecord
<1>8. ASSUME NEW t \in Turns, NEW w \in waiters'[t]
      PROVE  (call[w.call].asked /\ call[w.call].askedIn = t /\ w.key = Key(w.call))'
  <2>1. CASE w \in waiters[t]
    BY <1>1, <2>1, RequestsStay
  <2>2. CASE w = new /\ t = active
    BY <1>7, <2>2
  <2> QED  BY <1>5, <1>8, <2>1, <2>2
<1>9. AskInv'
  BY <1>1, <1>8, RequestsStay DEF AskInv, Request
<1> QED  BY <1>1, <1>2, <1>6, <1>9, InvFromParts

\* The client's answers are answers.
LEMMA AnswersAre ==
    ASSUME NEW k
    PROVE  Answers(k) \subseteq AnAnswer
BY DEF Answers, AnAnswer

\* What an answer removes leaves a part of the waiters.
LEMMA RemovedType ==
    ASSUME Inv, NEW c \in Calls, waiters' = Removed(c)
    PROVE  waiters' \in [Turns -> SUBSET Waiter] /\ \A t \in Turns : waiters'[t] \subseteq waiters[t]
BY TypeParts DEF AskTypes, Removed

\* notify_approval and notify_user_input_response.
LEMMA NotifyAnswerStep ==
    ASSUME Inv, NEW c \in Calls, NEW d \in AnAnswer, NotifyAnswer(c, d)
    PROVE  Inv'
<1>1. TurnTypes /\ call \in [Calls -> CallRecord] /\ \A e \in Calls : CallInv(call[e])
  BY TypeParts
<1>2. ASSUME NEW e \in Calls  PROVE  Succeeds(call[e], call'[e])
  <2> DEFINE q == call[e]
             r == IF \E w \in Found(c) : w.call = e
                  THEN [q EXCEPT !.reply = [to |-> c, d |-> d]] ELSE q
  <2>1. Succeeds(q, r)
    BY <1>1, RepliedSucceeds, SelfSucceeds
  <2>2. call'[e] = IF e = c THEN [r EXCEPT !.said = d] ELSE r
    BY DEF NotifyAnswer
  <2> HIDE DEF r
  <2>3. CallInv(r)
    BY <2>1 DEF Succeeds
  <2>4. Succeeds(r, [r EXCEPT !.said = d])
    BY <2>3, SaidSucceeds
  <2>5. Succeeds(q, [r EXCEPT !.said = d])
    BY <2>1, <2>4 DEF Succeeds
  <2> QED  BY <2>1, <2>2, <2>5
<1>3. call' = [e \in Calls |-> call'[e]]
  BY DEF NotifyAnswer
<1>4. Kept
  BY <1>2, <1>3 DEF Kept, Succeeds, CallInv
<1>5. TurnTypes'
  BY <1>1 DEF TurnTypes, turnVars, NotifyAnswer
<1> QED  BY <1>4, <1>5, RemovedType, FewerRequests DEF NotifyAnswer

\* notify_request_permissions_response takes the request out of the active turn.
LEMMA TakePermissionRequestStep ==
    ASSUME Inv, NEW c \in Calls, NEW d \in AnAnswer, TakePermissionRequest(c, d)
    PROVE  Inv'
<1> DEFINE q == call[c]
           r == [q EXCEPT !.said = d]
           new == [call |-> c, turn |-> active, d |-> d]
<1>1. TurnTypes /\ AskTypes /\ call \in [Calls -> CallRecord] /\ CallInv(q)
  BY TypeParts
<1>2. Succeeds(q, r)
  BY <1>1, SaidSucceeds
<1>3. call' = [call EXCEPT ![c] = r]
  BY <1>1 DEF TakePermissionRequest
<1>4. Kept
  BY <1>2, <1>3, OneCallKept
<1>5. TurnTypes'
  BY <1>1 DEF TurnTypes, turnVars, TakePermissionRequest
<1>6. answering' \subseteq answering \cup (IF Found(c) # {} THEN {new} ELSE {})
  BY DEF TakePermissionRequest
<1>7. ASSUME Found(c) # {}  PROVE  active \in Turns /\ call[c].asked /\ call[c].askedIn = active
  <2>1. PICK w \in waiters[active] : w.key = Key(c) /\ active \in Turns
    BY <1>1, <1>7, BoundsAssumption DEF Found, TurnTypes, Turns
  <2>2. w \in Waiter /\ call[w.call].asked /\ call[w.call].askedIn = active /\ w.key = Key(w.call)
    BY <1>1, <2>1 DEF AskTypes, Inv, AskInv
  <2>3. w.call = c
    BY <2>1, <2>2 DEF Key, Waiter, TakePermissionRequest
  <2> QED  BY <2>1, <2>2, <2>3
<1>8. AskTypes'
  <2>1. answering' \subseteq [call : Calls, turn : Turns, d : AnAnswer]
    BY <1>1, <1>6, <1>7 DEF AskTypes
  <2>2. waiters' \in [Turns -> SUBSET Waiter] /\ grants' = grants
    BY RemovedType DEF TakePermissionRequest
  <2> QED  BY <1>1, <2>1, <2>2 DEF AskTypes
<1>9. ASSUME NEW a \in answering'  PROVE  call'[a.call].asked /\ call'[a.call].askedIn = a.turn
  <2>1. CASE a \in answering
    BY <1>4, <2>1, RequestsStay
  <2>2. CASE a = new /\ Found(c) # {}
    BY <1>4, <1>7, <2>2, AskedStays
  <2> QED  BY <1>6, <1>9, <2>1, <2>2
<1>10. AskInv'
  BY <1>4, <1>9, RequestsStay, RemovedType DEF AskInv, TakePermissionRequest
<1> QED  BY <1>4, <1>5, <1>8, <1>10, InvFromParts

\* The grant is recorded where the request was held, and the answer sent.
LEMMA GrantPermissionStep ==
    ASSUME Inv, NEW a \in answering, GrantPermission(a)
    PROVE  Inv'
<1> DEFINE c == a.call
           q == call[c]
           r == [q EXCEPT !.reply = [to |-> c, d |-> a.d]]
<1>1. TurnTypes /\ AskTypes /\ call \in [Calls -> CallRecord] /\ \A e \in Calls : CallInv(call[e])
  BY TypeParts
<1>2. c \in Calls /\ a.turn \in Turns /\ a.d \in AnAnswer
  BY <1>1 DEF AskTypes
<1>3. Succeeds(q, r)
  BY <1>1, <1>2, RepliedSucceeds
<1>4. call' = [call EXCEPT ![c] = r]
  BY <1>1, <1>2 DEF GrantPermission
<1>5. Kept
  BY <1>2, <1>3, <1>4, OneCallKept
<1>6. TurnTypes'
  BY <1>1 DEF TurnTypes, turnVars, GrantPermission
<1>7. /\ grants' = [t \in 0 .. MaxTurns |-> grants'[t]]
      /\ \A t \in Turns : grants'[t] \subseteq grants[t] \cup (IF t = a.turn THEN {c} ELSE {})
      /\ \A t \in 0 .. MaxTurns : grants'[t] \subseteq grants[t] \cup {c}
  BY BoundsAssumption DEF GrantPermission, RecordGrant, Turns
<1>8. AskTypes'
  BY <1>1, <1>2, <1>7 DEF AskTypes, GrantPermission
<1>9. ASSUME NEW t \in Turns, NEW e \in grants'[t]  PROVE  call'[e].asked /\ call'[e].askedIn = t
  <2>1. CASE e \in grants[t]
    BY <1>5, <2>1, RequestsStay
  <2>2. CASE e = c /\ t = a.turn
    BY <1>5, <2>2, RequestsStay
  <2> QED  BY <1>7, <1>9, <2>1, <2>2
<1>10. AskInv'
  BY <1>5, <1>9, RequestsStay DEF AskInv, GrantPermission
<1> QED  BY <1>5, <1>6, <1>8, <1>10, InvFromParts
-----------------------------------------------------------------------------
(* The theorems *)

\* The invariant holds at the start.
LEMMA InitInv ==
    ASSUME Init
    PROVE  Inv
<1>1. NoCall \in CallRecord
  BY BoundsAssumption DEF NoCall, NoReply, CallRecord, Live, Results
<1>2. StartInv(NoCall) /\ TaskInv(NoCall) /\ FutureInv(NoCall) /\ Matches(NoCall)
  BY DEF NoCall, StartInv, TaskInv, FutureInv, Matches, Early, Live, Results, WaitsForRuntimeCancellation
<1>3. \A c \in Calls : call[c] = NoCall /\ CallInv(call[c])
  BY <1>1, <1>2 DEF Init, CallInv
<1>4. TypeOK
  <2>1. call \in [Calls -> CallRecord]
    BY <1>1 DEF Init
  <2>2. \A c \in Calls : call[c].fut # "joining"
    BY <1>3 DEF NoCall
  <2> QED  BY <2>1, <2>2, BoundsAssumption DEF Init, TypeOK, Turns
<1>5. AskInv
  BY BoundsAssumption DEF Init, AskInv, Turns
<1> QED  BY <1>3, <1>4, <1>5 DEF Inv

\* Every step keeps it.
LEMMA NextInv ==
    ASSUME Inv, [Next]_vars
    PROVE  Inv'
<1>1. CASE UNCHANGED vars
  <2>1. Kept /\ TurnTypes /\ UNCHANGED askVars
    BY <1>1, NoCallKept, TypeParts DEF vars, askVars
  <2>2. TurnTypes'
    BY <1>1, <2>1 DEF vars, TurnTypes
  <2> QED  BY <2>1, <2>2, SameRequests
<1>2. ASSUME NEW t \in Turns,
             StartTurn(t) \/ TakeActiveTurn(t) \/ RunStep(t) \/ AbortStep(t)
      PROVE  Inv'
  BY <1>2, TurnSteps, GraceTimeoutStep, ClearPendingStep DEF RunStep, AbortStep
<1>3. ASSUME NEW t \in Turns, NEW c \in Calls, NEW k \in AllKinds, IssueCall(t, c, k)
      PROVE  Inv'
  BY <1>3, IssueCallStep
<1>4. ASSUME NEW c \in Calls, TaskStep(c)
      PROVE  Inv'
  BY <1>4, TaskSteps, RequestStep, PermissionCancelledStep
<1>5. ASSUME NEW c \in Calls, FutureStep(c)
      PROVE  Inv'
  BY <1>5, FutureSteps
<1>6. ASSUME NEW c \in Calls, ClientAnswers(c)
      PROVE  Inv'
  BY <1>6, AnswersAre, NotifyAnswerStep, TakePermissionRequestStep DEF ClientAnswers
<1>7. CASE GrantStep
  BY <1>7, GrantPermissionStep DEF GrantStep
<1> QED  BY <1>1, <1>2, <1>3, <1>4, <1>5, <1>6, <1>7 DEF Next

\* Spec keeps the inductive invariant, whatever the tools and however many turns.
LEMMA SpecInv == Spec => []Inv
BY InitInv, NextInv, PTL DEF Spec

\* The variables of the tool calls keep their types, and a future that joins its
\* task after a cancellation waits for one that has claimed or ended.
THEOREM ToolCallsTyped == Spec => []TypeOK
<1>1. Inv => TypeOK
  BY DEF Inv
<1> QED  BY <1>1, SpecInv, PTL

\* parallel.rs: the response to the model is the outcome that was reported, and a
\* tool that is torn down gracefully reports once, in every interleaving of the
\* claims by its task and by its cancelled future.
THEOREM ResponsesMatchOutcomes == Spec => []ResponseMatchesOutcome
<1>1. Inv => ResponseMatchesOutcome
  BY DEF Inv, CallInv, Matches, ResponseMatchesOutcome
<1> QED  BY <1>1, SpecInv, PTL

\* notify_request_permissions_response: a grant for a turn stays in it.
THEOREM GrantsStayInTheirTurn == Spec => []GrantStaysInItsTurn
<1>1. Inv => GrantStaysInItsTurn
  BY DEF Inv, AskInv, GrantStaysInItsTurn
<1> QED  BY <1>1, SpecInv, PTL
-----------------------------------------------------------------------------
(* What the user is asked and answers *)


\* Why the model may read "rejected" of a call.
Excused(c) == call[c].said = "no" \/ call[c].askedIn # call[c].turn \/ SharesKey(c)

\* A call has a result once it has worked.
FreshInv == \A c \in Calls : call[c].task \in {"none", "spawned", "running", "asking"} =>
                                 call[c].result = "none"

\* The client answers what it was asked, with an answer of that kind.
SaidInv == \A c \in Calls : call[c].said # "none" =>
                                call[c].asked /\ call[c].said \in Answers(call[c].kind)

\* What call c received is the answer to the request of call to, which has the
\* same key.
AnsweredBy(c, to) ==
    /\ call[c].asked /\ call[to].asked /\ Key(to) = Key(c)
    /\ call[to].said = call[c].reply.d /\ call[c].reply.d \in AnAnswer

ReplyInv == \A c \in Calls : call[c].reply # NoReply =>
                \E to \in Calls : call[c].reply.to = to /\ AnsweredBy(c, to)

\* A sender is in one place, and it has not been used.
SenderOnce ==
    /\ \A t \in Turns : \A w \in waiters[t] :
         call[w.call].reply = NoReply /\ \A a \in answering : a.call # w.call
    /\ \A a \in answering :
         /\ call[a.call].reply = NoReply /\ call[a.call].said = a.d
         /\ call[a.call].kind = "perm"

\* A tool that asked goes on only when it reads consent in what it received.
ConsentInv == \A c \in Calls :
    (call[c].task = "approved" \/ (call[c].asked /\ call[c].result = "done")) =>
        call[c].reply # NoReply /\ ReadsAsConsent(c)

\* A turn whose waiters may be cleared has no future left to wait.
GoneInv ==
    /\ \A t \in Turns : stage[t] \in {"stopped", "over"} => run[t] = "ended"
    /\ \A c \in Calls, t \in Turns :
         (call[c].turn = t /\ run[t] = "ended") => call[c].fut \in {"done", "dropped"}

\* A call that asked its own turn and waits has a sender, unless its key is shared.
WaitsInv == \A c \in Calls :
    (call[c].task = "asking" /\ call[c].askedIn = call[c].turn /\ call[c].reply = NoReply) =>
        \/ \E w \in waiters[call[c].turn] : w.call = c
        \/ \E a \in answering : a.call = c
        \/ SharesKey(c)

RejectInv == \A c \in Calls :
    (call[c].result = "rejected" \/ call[c].response = "rejected") => Excused(c)

AnswerInv ==
    FreshInv /\ SaidInv /\ ReplyInv /\ SenderOnce /\ ConsentInv /\ GoneInv /\ WaitsInv /\ RejectInv

Both == Inv /\ AnswerInv
-----------------------------------------------------------------------------
(* Steps that neither ask nor answer *)

\* What such a step may do to call c.
Moves(c) ==
    LET q == call[c]
        r == call'[c]
    IN /\ r.kind = q.kind /\ r.turn = q.turn /\ r.asked = q.asked
       /\ r.askedIn = q.askedIn /\ r.said = q.said /\ r.reply = q.reply
       /\ r.task \in {"none", "spawned", "running", "asking"} => r.result = "none"
       /\ r.task = "asking" => q.task = "asking"
       /\ (r.task = "approved" \/ (q.asked /\ r.result = "done")) =>
            \/ q.task = "approved" \/ (q.asked /\ q.result = "done")
            \/ q.reply # NoReply /\ ReadsAsConsent(c)
       /\ (r.result = "rejected" \/ r.response = "rejected") => 
            q.result = "rejected" \/ q.response = "rejected" \/ Excused(c)
       /\ q.fut \in {"done", "dropped"} => r.fut \in {"done", "dropped"}

\* A call that stays as it is moves.
LEMMA StillMoves ==
    ASSUME AnswerInv, NEW c \in Calls, call'[c] = call[c]
    PROVE  Moves(c)
BY DEF AnswerInv, FreshInv, Moves

\* A step of one call moves every call.
LEMMA OneMoves ==
    ASSUME Both, NEW c \in Calls, NEW r, call' = [call EXCEPT ![c] = r], Moves(c)
    PROVE  \A d \in Calls : Moves(d)
<1>1. call \in [Calls -> CallRecord]
  BY TypeParts DEF Both
<1>2. ASSUME NEW d \in Calls, d # c  PROVE  call'[d] = call[d]
  BY <1>1, <1>2
<1> QED  BY <1>2, StillMoves DEF Both

\* Keys, and who shares them, stay.
LEMMA MovesKeys ==
    ASSUME \A d \in Calls : Moves(d), NEW c \in Calls
    PROVE  /\ Key(c)' = Key(c) /\ (SharesKey(c)' <=> SharesKey(c))
           /\ (Excused(c)' <=> Excused(c)) /\ (ReadsAsConsent(c)' <=> ReadsAsConsent(c))
<1>1. \A d \in Calls : Key(d)' = Key(d) /\ call'[d].asked = call[d].asked
  BY DEF Moves, Key
<1>2. SharesKey(c)' <=> SharesKey(c)
  BY <1>1 DEF SharesKey
<1>3. /\ call'[c].said = call[c].said /\ call'[c].askedIn = call[c].askedIn
      /\ call'[c].turn = call[c].turn /\ call'[c].kind = call[c].kind /\ call'[c].reply = call[c].reply
  BY DEF Moves
<1> QED  BY <1>1, <1>2, <1>3 DEF Excused, ReadsAsConsent, MustAsk

\* Moving calls, with the senders and the turns as they are but for waiters of
\* calls that do not wait and turns that go on, keep the invariant.
LEMMA MovesKeep ==
    ASSUME Both, \A c \in Calls : Moves(c), answering' = answering,
           \A t \in Turns : waiters'[t] \subseteq waiters[t],
           \A c \in Calls : \A w \in waiters[call[c].turn] \ waiters'[call[c].turn] :
               w.call = c => call'[c].task # "asking",
           GoneInv'
    PROVE  AnswerInv'
<1>1. FreshInv'
  BY DEF FreshInv, Moves
<1>2. SaidInv'
  BY DEF Both, AnswerInv, SaidInv, Moves
<1>3. ReplyInv'
  <2> SUFFICES ASSUME NEW c \in Calls, call'[c].reply # NoReply
               PROVE  \E to \in Calls : call'[c].reply.to = to /\ AnsweredBy(c, to)'
    BY DEF ReplyInv
  <2>1. call'[c].reply = call[c].reply /\ call'[c].asked = call[c].asked
    BY DEF Moves
  <2>2. PICK to \in Calls : call[c].reply.to = to /\ AnsweredBy(c, to)
    BY <2>1 DEF Both, AnswerInv, ReplyInv
  <2>3. call'[to].asked = call[to].asked /\ call'[to].said = call[to].said
    BY DEF Moves
  <2>4. AnsweredBy(c, to)'
    BY <2>1, <2>2, <2>3, MovesKeys DEF AnsweredBy
  <2> QED  BY <2>1, <2>2, <2>4
<1>4. SenderOnce'
  <2>1. \A t \in Turns : \A w \in waiters[t] : w.call \in Calls
    BY TypeParts DEF Both, AskTypes, Waiter
  <2>2. \A a \in answering : a.call \in Calls
    BY TypeParts DEF Both, AskTypes
  <2> QED  BY <2>1, <2>2 DEF Both, AnswerInv, SenderOnce, Moves
<1>5. ConsentInv'
  <2> SUFFICES ASSUME NEW c \in Calls,
                      call'[c].task = "approved" \/ (call'[c].asked /\ call'[c].result = "done")
               PROVE  call'[c].reply # NoReply /\ ReadsAsConsent(c)'
    BY DEF ConsentInv
  <2>1. call[c].reply # NoReply /\ ReadsAsConsent(c)
    BY DEF Both, AnswerInv, ConsentInv, Moves
  <2> QED  BY <2>1, MovesKeys DEF Moves
<1>6. WaitsInv'
  <2> SUFFICES ASSUME NEW c \in Calls, call'[c].task = "asking",
                      call'[c].askedIn = call'[c].turn, call'[c].reply = NoReply
               PROVE  \/ \E w \in waiters'[call'[c].turn] : w.call = c
                      \/ \E a \in answering' : a.call = c
                      \/ SharesKey(c)'
    BY DEF WaitsInv
  <2>1. /\ call[c].task = "asking" /\ call[c].askedIn = call[c].turn /\ call[c].reply = NoReply
        /\ call'[c].turn = call[c].turn
    BY DEF Moves
  <2>2. \/ \E w \in waiters[call[c].turn] : w.call = c
        \/ \E a \in answering : a.call = c
        \/ SharesKey(c)
    BY <2>1 DEF Both, AnswerInv, WaitsInv
  <2>3. ASSUME NEW w \in waiters[call[c].turn], w.call = c
        PROVE  w \in waiters'[call'[c].turn]
    BY <2>1, <2>3
  <2> QED  BY <2>2, <2>3, MovesKeys
<1>7. RejectInv'
  <2> SUFFICES ASSUME NEW c \in Calls, call'[c].result = "rejected" \/ call'[c].response = "rejected"
               PROVE  Excused(c)'
    BY DEF RejectInv
  <2>1. Excused(c)
    BY DEF Both, AnswerInv, RejectInv, Moves
  <2> QED  BY <2>1, MovesKeys
<1> QED  BY <1>1, <1>2, <1>3, <1>4, <1>5, <1>6, <1>7 DEF AnswerInv

\* With turns and senders untouched.
LEMMA CallMoves ==
    ASSUME Both, NEW c \in Calls, NEW r, call' = [call EXCEPT ![c] = r], Moves(c),
           UNCHANGED <<turnVars, askVars>>
    PROVE  AnswerInv'
<1>1. \A d \in Calls : Moves(d)
  BY OneMoves
<1>2. stage' = stage /\ run' = run /\ waiters' = waiters /\ answering' = answering
  BY DEF turnVars, askVars
<1>3. GoneInv'
  <2>1. GoneInv
    BY DEF Both, AnswerInv
  <2>2. \A d \in Calls : /\ call'[d].turn = call[d].turn
                         /\ call[d].fut \in {"done", "dropped"} => call'[d].fut \in {"done", "dropped"}
    BY <1>1 DEF Moves
  <2> QED  BY <1>2, <2>1, <2>2 DEF GoneInv
<1> QED  BY <1>1, <1>2, <1>3, MovesKeep
-----------------------------------------------------------------------------
(* The actions *)

\* Steps of the turn and of its abort answer nothing.
LEMMA TurnStepsAnswer ==
    ASSUME Both, NEW t \in Turns,
           \/ StartTurn(t) \/ StreamEnds(t) \/ Drained(t) \/ FinishTurn(t)
           \/ TakeActiveTurn(t) \/ CancelTask(t) \/ TaskDone(t)
    PROVE  AnswerInv'
<1>1. call' = call /\ waiters' = waiters /\ answering' = answering
  BY DEF StartTurn, StreamEnds, Drained, FinishTurn, TakeActiveTurn, CancelTask, TaskDone, askVars
<1>2. TurnTypes /\ GoneInv
  BY TypeParts DEF Both, AnswerInv
<1>3. GoneInv'
  BY <1>1, <1>2 DEF GoneInv, TurnTypes, StartTurn, StreamEnds, Drained, FinishTurn, TakeActiveTurn,
                    CancelTask, TaskDone
<1>4. \A c \in Calls : Moves(c)
  BY <1>1, StillMoves DEF Both
<1> QED  BY <1>1, <1>3, <1>4, MovesKeep

\* The tasks a grace timeout aborts no longer ask.
LEMMA GraceTimeoutAnswer ==
    ASSUME Both, NEW t \in Turns, GraceTimeout(t)
    PROVE  AnswerInv'
<1>1. /\ TurnTypes /\ GoneInv /\ FreshInv
      /\ \A c \in Calls : call[c] \in CallRecord
  BY TypeParts DEF Both, AnswerInv
<1>2. ASSUME NEW c \in Calls
      PROVE  /\ Moves(c)
             /\ call'[c].turn = t => call'[c].fut \in {"done", "dropped"}
  <2> DEFINE q == call[c]
             r == [q EXCEPT !.fut = "dropped", !.task = IF @ \in Live THEN "killed" ELSE @]
  <2>1. CASE q.turn = t /\ q.fut # "done"
    <3>1. call'[c] = r
      BY <2>1 DEF GraceTimeout
    <3>2. /\ r.kind = q.kind /\ r.turn = q.turn /\ r.asked = q.asked /\ r.askedIn = q.askedIn
          /\ r.said = q.said /\ r.reply = q.reply /\ r.result = q.result /\ r.response = q.response
          /\ r.fut = "dropped" /\ r.task = IF q.task \in Live THEN "killed" ELSE q.task
      BY <1>1 DEF CallRecord
    <3> HIDE DEF r
    <3> QED  BY <1>1, <3>1, <3>2 DEF Moves, FreshInv, Live
  <2>2. CASE ~(q.turn = t /\ q.fut # "done")
    <3>1. call'[c] = q
      BY <2>2 DEF GraceTimeout
    <3>2. Moves(c)
      BY <3>1, StillMoves DEF Both
    <3> QED  BY <2>2, <3>1, <3>2
  <2> QED  BY <2>1, <2>2
<1>3. GoneInv'
  <2>1. /\ stage' = [stage EXCEPT ![t] = "stopped"] /\ run' = [run EXCEPT ![t] = "ended"]
        /\ run'[t] = "ended" /\ \A u \in Turns : u # t => stage'[u] = stage[u] /\ run'[u] = run[u]
    BY <1>1 DEF GraceTimeout, TurnTypes
  <2>2. \A u \in Turns : stage'[u] \in {"stopped", "over"} => run'[u] = "ended"
    BY <1>1, <2>1 DEF GoneInv
  <2>3. ASSUME NEW c \in Calls, NEW u \in Turns, call'[c].turn = u, run'[u] = "ended"
        PROVE  call'[c].fut \in {"done", "dropped"}
    <3>1. CASE u = t
      BY <1>2, <2>3, <3>1
    <3>2. CASE u # t
      <4>1. call[c].turn = u /\ run[u] = "ended"
        BY <1>2, <2>1, <2>3, <3>2 DEF Moves
      <4>2. call[c].fut \in {"done", "dropped"}
        BY <1>1, <4>1 DEF GoneInv
      <4> QED  BY <1>2, <4>2 DEF Moves
    <3> QED  BY <3>1, <3>2
  <2> QED  BY <2>2, <2>3 DEF GoneInv
<1> QED  BY <1>2, <1>3, MovesKeep DEF GraceTimeout, askVars

\* Clearing the waiters of a turn drops the sender of no call that waits in it.
LEMMA ClearPendingAnswer ==
    ASSUME Both, NEW t \in Turns, ClearPending(t)
    PROVE  AnswerInv'
<1>1. TurnTypes /\ AskTypes /\ GoneInv /\ \A c \in Calls : CallInv(call[c])
  BY TypeParts DEF Both, AnswerInv
<1>2. \A c \in Calls : Moves(c)
  BY StillMoves DEF Both, ClearPending
<1>3. GoneInv'
  BY <1>1 DEF GoneInv, ClearPending, TurnTypes
<1>4. ASSUME NEW c \in Calls, call[c].turn = t  PROVE  call[c].task # "asking"
  <2>1. call[c].fut \in {"done", "dropped"}
    BY <1>1, <1>4 DEF GoneInv, ClearPending
  <2> QED  BY <1>1, <2>1 DEF CallInv, FutureInv, Live
<1>5. waiters' = [waiters EXCEPT ![t] = {}] /\ call' = call /\ answering' = answering
  BY DEF ClearPending
<1>6. \A u \in Turns : waiters'[u] \subseteq waiters[u] /\ (u # t => waiters'[u] = waiters[u])
  BY <1>1, <1>5 DEF AskTypes
<1>7. ASSUME NEW c \in Calls, NEW w \in waiters[call[c].turn] \ waiters'[call[c].turn], w.call = c
      PROVE  call'[c].task # "asking"
  <2>1. CASE call[c].turn \in Turns
    BY <1>4, <1>5, <1>6, <1>7, <2>1
  <2>2. CASE call[c].turn \notin Turns
    <3>1. call[c].turn = 0 /\ call[c].kind = "none"
      BY <1>1, <2>2, BoundsAssumption DEF CallInv, CallRecord, StartInv, Turns
    <3> QED  BY <1>1, <1>5, <3>1 DEF CallInv, StartInv
  <2> QED  BY <2>1, <2>2
<1> QED  BY <1>2, <1>3, <1>5, <1>6, <1>7, MovesKeep

\* A call whose sender was dropped asked another turn, or shares its key.
LEMMA DroppedIsExcused ==
    ASSUME Both, NEW c \in Calls, SenderDropped(c)
    PROVE  Excused(c)
<1> SUFFICES ASSUME call[c].askedIn = call[c].turn, ~SharesKey(c)
             PROVE  FALSE
  BY DEF Excused
<1>1. call[c].task = "asking" /\ call[c].reply = NoReply /\ ~HasSender(c)
  BY DEF SenderDropped
<1>2. (\E w \in waiters[call[c].turn] : w.call = c) \/ (\E a \in answering : a.call = c)
  BY <1>1 DEF Both, AnswerInv, WaitsInv
<1>3. call[c].turn \in Turns
  BY <1>1, TypeParts, BoundsAssumption DEF Both, CallInv, CallRecord, StartInv, Turns
<1> QED  BY <1>1, <1>2, <1>3 DEF HasSender

\* A call that reads a refusal was refused, or shares its key with the call that was.
LEMMA RefusedIsExcused ==
    ASSUME Both, NEW c \in Calls, ReceiveReply(c), ~ReadsAsConsent(c)
    PROVE  Excused(c)
<1>1. call[c].reply # NoReply
  BY DEF ReceiveReply
<1>2. PICK to \in Calls : call[c].reply.to = to /\ AnsweredBy(c, to)
  BY <1>1 DEF Both, AnswerInv, ReplyInv
<1>3. CASE to = c
  BY <1>2, <1>3 DEF AnsweredBy, ReadsAsConsent, Excused
<1>4. CASE to # c
  BY <1>2, <1>4 DEF AnsweredBy, SharesKey, Excused
<1> QED  BY <1>3, <1>4

\* Every step of a task but the request.
LEMMA TaskStepsAnswer ==
    ASSUME Both, NEW c \in Calls, TaskStep(c), ~Request(c), ~PermissionCancelled(c)
    PROVE  AnswerInv'
<1> DEFINE q == call[c]
<1>1. /\ call \in [Calls -> CallRecord] /\ q \in CallRecord
      /\ q.task \in {"none", "spawned", "running", "asking"} => q.result = "none"
      /\ StartInv(q)
  BY TypeParts DEF Both, AnswerInv, FreshInv, CallInv
<1>2. CASE AcquireLock(c)
  <2> DEFINE r == [q EXCEPT !.task = "running"]
  <2>1. call' = [call EXCEPT ![c] = r] /\ call'[c] = r
    BY <1>1, <1>2 DEF AcquireLock
  <2>2. /\ r.kind = q.kind /\ r.turn = q.turn /\ r.task = "running" /\ r.result = q.result
        /\ r.fut = q.fut /\ r.response = q.response /\ r.asked = q.asked /\ r.askedIn = q.askedIn
        /\ r.said = q.said /\ r.reply = q.reply
    BY <1>1 DEF CallRecord
  <2> HIDE DEF r
  <2>3. Moves(c)
    BY <1>1, <1>2, <2>1, <2>2 DEF Moves, AcquireLock
  <2> QED  BY <1>2, <2>1, <2>3, CallMoves DEF AcquireLock
<1>3. CASE UnsupportedTool(c)
  <2> DEFINE r == [q EXCEPT !.task = "finished", !.result = "unsupported"]
  <2>1. call' = [call EXCEPT ![c] = r] /\ call'[c] = r
    BY <1>1, <1>3 DEF UnsupportedTool
  <2>2. /\ r.kind = q.kind /\ r.turn = q.turn /\ r.task = "finished" /\ r.result = "unsupported"
        /\ r.fut = q.fut /\ r.response = q.response /\ r.asked = q.asked /\ r.askedIn = q.askedIn
        /\ r.said = q.said /\ r.reply = q.reply
    BY <1>1 DEF CallRecord
  <2> HIDE DEF r
  <2>3. Moves(c)
    BY <1>1, <1>3, <2>1, <2>2 DEF Moves, UnsupportedTool
  <2> QED  BY <1>3, <2>1, <2>3, CallMoves DEF UnsupportedTool
<1>4. CASE BlockedByHook(c)
  <2> DEFINE r == [q EXCEPT !.task = "worked", !.result = "blocked"]
  <2>1. call' = [call EXCEPT ![c] = r] /\ call'[c] = r
    BY <1>1, <1>4 DEF BlockedByHook
  <2>2. /\ r.kind = q.kind /\ r.turn = q.turn /\ r.task = "worked" /\ r.result = "blocked"
        /\ r.fut = q.fut /\ r.response = q.response /\ r.asked = q.asked /\ r.askedIn = q.askedIn
        /\ r.said = q.said /\ r.reply = q.reply
    BY <1>1 DEF CallRecord
  <2> HIDE DEF r
  <2>3. Moves(c)
    BY <1>1, <1>4, <2>1, <2>2 DEF Moves, BlockedByHook
  <2> QED  BY <1>4, <2>1, <2>3, CallMoves DEF BlockedByHook
<1>5. CASE SenderDropped(c)
  <2> DEFINE r == [q EXCEPT !.task = "worked", !.result = IF MustAsk(q.kind) THEN "cancelled" ELSE "rejected"]
  <2>1. call' = [call EXCEPT ![c] = r] /\ call'[c] = r
    BY <1>1, <1>5 DEF SenderDropped
  <2>2. /\ r.kind = q.kind /\ r.turn = q.turn /\ r.task = "worked" /\ r.result = (IF MustAsk(q.kind) THEN "cancelled" ELSE "rejected")
        /\ r.fut = q.fut /\ r.response = q.response /\ r.asked = q.asked /\ r.askedIn = q.askedIn
        /\ r.said = q.said /\ r.reply = q.reply
    BY <1>1 DEF CallRecord
  <2>4. Excused(c)
    BY <1>5, DroppedIsExcused
  <2> HIDE DEF r
  <2>3. Moves(c)
    BY <1>1, <1>5, <2>1, <2>2, <2>4 DEF Moves, SenderDropped
  <2> QED  BY <1>5, <2>1, <2>3, CallMoves DEF SenderDropped
<1>6. CASE ReceiveReply(c) /\ ReadsAsConsent(c)
  <2> DEFINE r == [q EXCEPT !.task = "approved", !.result = "none"]
  <2>1. call' = [call EXCEPT ![c] = r] /\ call'[c] = r
    BY <1>1, <1>6 DEF ReceiveReply
  <2>2. /\ r.kind = q.kind /\ r.turn = q.turn /\ r.task = "approved" /\ r.result = "none"
        /\ r.fut = q.fut /\ r.response = q.response /\ r.asked = q.asked /\ r.askedIn = q.askedIn
        /\ r.said = q.said /\ r.reply = q.reply
    BY <1>1 DEF CallRecord
  <2> HIDE DEF r
  <2>3. Moves(c)
    BY <1>1, <1>6, <2>1, <2>2 DEF Moves, ReceiveReply
  <2> QED  BY <1>6, <2>1, <2>3, CallMoves DEF ReceiveReply
<1>7. CASE ReceiveReply(c) /\ ~ReadsAsConsent(c)
  <2> DEFINE r == [q EXCEPT !.task = "worked", !.result = "rejected"]
  <2>1. call' = [call EXCEPT ![c] = r] /\ call'[c] = r
    BY <1>1, <1>7 DEF ReceiveReply
  <2>2. /\ r.kind = q.kind /\ r.turn = q.turn /\ r.task = "worked" /\ r.result = "rejected"
        /\ r.fut = q.fut /\ r.response = q.response /\ r.asked = q.asked /\ r.askedIn = q.askedIn
        /\ r.said = q.said /\ r.reply = q.reply
    BY <1>1 DEF CallRecord
  <2>4. Excused(c)
    BY <1>7, RefusedIsExcused
  <2> HIDE DEF r
  <2>3. Moves(c)
    BY <1>1, <1>7, <2>1, <2>2, <2>4 DEF Moves, ReceiveReply
  <2> QED  BY <1>7, <2>1, <2>3, CallMoves DEF ReceiveReply
<1>8. CASE Work(c)
  <2> DEFINE r == [q EXCEPT !.task = "worked", !.result = "done"]
  <2>1. call' = [call EXCEPT ![c] = r] /\ call'[c] = r
    BY <1>1, <1>8 DEF Work
  <2>2. /\ r.kind = q.kind /\ r.turn = q.turn /\ r.task = "worked" /\ r.result = "done"
        /\ r.fut = q.fut /\ r.response = q.response /\ r.asked = q.asked /\ r.askedIn = q.askedIn
        /\ r.said = q.said /\ r.reply = q.reply
    BY <1>1 DEF CallRecord
  <2> HIDE DEF r
  <2>3. Moves(c)
    BY <1>1, <1>8, <2>1, <2>2 DEF Moves, Work, StartInv
  <2> QED  BY <1>8, <2>1, <2>3, CallMoves DEF Work
<1>9. CASE NotifyFinishIfUnclaimed(c) /\ q.flag
  <2> DEFINE r == [q EXCEPT !.task = "finished"]
  <2>1. call' = [call EXCEPT ![c] = r] /\ call'[c] = r
    BY <1>1, <1>9 DEF NotifyFinishIfUnclaimed
  <2>2. /\ r.kind = q.kind /\ r.turn = q.turn /\ r.task = "finished" /\ r.result = q.result
        /\ r.fut = q.fut /\ r.response = q.response /\ r.asked = q.asked /\ r.askedIn = q.askedIn
        /\ r.said = q.said /\ r.reply = q.reply
    BY <1>1 DEF CallRecord
  <2> HIDE DEF r
  <2>3. Moves(c)
    BY <1>1, <1>9, <2>1, <2>2 DEF Moves, NotifyFinishIfUnclaimed
  <2> QED  BY <1>9, <2>1, <2>3, CallMoves DEF NotifyFinishIfUnclaimed
<1>10. CASE NotifyFinishIfUnclaimed(c) /\ ~q.flag
  <2> DEFINE r == [q EXCEPT !.flag = TRUE, !.task = "notifying", !.outcomes = Append(@, q.result)]
  <2>1. call' = [call EXCEPT ![c] = r] /\ call'[c] = r
    BY <1>1, <1>10 DEF NotifyFinishIfUnclaimed
  <2>2. /\ r.kind = q.kind /\ r.turn = q.turn /\ r.task = "notifying" /\ r.result = q.result
        /\ r.fut = q.fut /\ r.response = q.response /\ r.asked = q.asked /\ r.askedIn = q.askedIn
        /\ r.said = q.said /\ r.reply = q.reply
    BY <1>1 DEF CallRecord
  <2> HIDE DEF r
  <2>3. Moves(c)
    BY <1>1, <1>10, <2>1, <2>2 DEF Moves, NotifyFinishIfUnclaimed
  <2> QED  BY <1>10, <2>1, <2>3, CallMoves DEF NotifyFinishIfUnclaimed
<1>11. CASE Notified(c)
  <2> DEFINE r == [q EXCEPT !.task = "finished"]
  <2>1. call' = [call EXCEPT ![c] = r] /\ call'[c] = r
    BY <1>1, <1>11 DEF Notified
  <2>2. /\ r.kind = q.kind /\ r.turn = q.turn /\ r.task = "finished" /\ r.result = q.result
        /\ r.fut = q.fut /\ r.response = q.response /\ r.asked = q.asked /\ r.askedIn = q.askedIn
        /\ r.said = q.said /\ r.reply = q.reply
    BY <1>1 DEF CallRecord
  <2> HIDE DEF r
  <2>3. Moves(c)
    BY <1>1, <1>11, <2>1, <2>2 DEF Moves, Notified
  <2> QED  BY <1>11, <2>1, <2>3, CallMoves DEF Notified
<1>12. CASE KillLands(c)
  <2> DEFINE r == [q EXCEPT !.task = "killed"]
  <2>1. call' = [call EXCEPT ![c] = r] /\ call'[c] = r
    BY <1>1, <1>12 DEF KillLands
  <2>2. /\ r.kind = q.kind /\ r.turn = q.turn /\ r.task = "killed" /\ r.result = q.result
        /\ r.fut = q.fut /\ r.response = q.response /\ r.asked = q.asked /\ r.askedIn = q.askedIn
        /\ r.said = q.said /\ r.reply = q.reply
    BY <1>1 DEF CallRecord
  <2> HIDE DEF r
  <2>3. Moves(c)
    BY <1>1, <1>12, <2>1, <2>2 DEF Moves, KillLands
  <2> QED  BY <1>12, <2>1, <2>3, CallMoves DEF KillLands
<1> QED
  BY <1>2, <1>3, <1>4, <1>5, <1>6, <1>7, <1>8, <1>9, <1>10, <1>11, <1>12 DEF TaskStep

\* A call's own steps keep what is known of its answer.
LEMMA FutureStepsAnswer ==
    ASSUME Both, NEW c \in Calls, FutureStep(c)
    PROVE  AnswerInv'
<1> DEFINE q == call[c]
<1>1. /\ call \in [Calls -> CallRecord] /\ q \in CallRecord
      /\ q.task \in {"none", "spawned", "running", "asking"} => q.result = "none"
  BY TypeParts DEF Both, AnswerInv, FreshInv
<1>2. CASE SelectResult(c)
  <2> DEFINE r == [q EXCEPT !.fut = "done", !.response = q.result]
  <2>1. call' = [call EXCEPT ![c] = r] /\ call'[c] = r
    BY <1>1, <1>2 DEF SelectResult, Returns
  <2>2. /\ r.kind = q.kind /\ r.turn = q.turn /\ r.task = q.task /\ r.result = q.result
        /\ r.fut = "done" /\ r.response = q.result /\ r.asked = q.asked /\ r.askedIn = q.askedIn
        /\ r.said = q.said /\ r.reply = q.reply
    BY <1>1 DEF CallRecord
  <2> HIDE DEF r
  <2>3. Moves(c)
    BY <1>1, <1>2, <2>1, <2>2 DEF Moves, SelectResult, Returns
  <2> QED  BY <1>2, <2>1, <2>3, CallMoves DEF SelectResult, Returns
<1>3. CASE SelectCancelled(c) /\ (q.flag \/ q.task = "finished")
  <2> DEFINE r == [q EXCEPT !.fut = "joining"]
  <2>1. call' = [call EXCEPT ![c] = r] /\ call'[c] = r
    BY <1>1, <1>3 DEF SelectCancelled
  <2>2. /\ r.kind = q.kind /\ r.turn = q.turn /\ r.task = q.task /\ r.result = q.result
        /\ r.fut = "joining" /\ r.response = q.response /\ r.asked = q.asked /\ r.askedIn = q.askedIn
        /\ r.said = q.said /\ r.reply = q.reply
    BY <1>1 DEF CallRecord
  <2> HIDE DEF r
  <2>3. Moves(c)
    BY <1>1, <1>3, <2>1, <2>2 DEF Moves, SelectCancelled
  <2> QED  BY <1>3, <2>1, <2>3, CallMoves DEF SelectCancelled
<1>4. CASE SelectCancelled(c) /\ ~(q.flag \/ q.task = "finished") /\ WaitsForRuntimeCancellation(q.kind)
  <2> DEFINE r == [q EXCEPT !.fut = "claiming"]
  <2>1. call' = [call EXCEPT ![c] = r] /\ call'[c] = r
    BY <1>1, <1>4 DEF SelectCancelled
  <2>2. /\ r.kind = q.kind /\ r.turn = q.turn /\ r.task = q.task /\ r.result = q.result
        /\ r.fut = "claiming" /\ r.response = q.response /\ r.asked = q.asked /\ r.askedIn = q.askedIn
        /\ r.said = q.said /\ r.reply = q.reply
    BY <1>1 DEF CallRecord
  <2> HIDE DEF r
  <2>3. Moves(c)
    BY <1>1, <1>4, <2>1, <2>2 DEF Moves, SelectCancelled
  <2> QED  BY <1>4, <2>1, <2>3, CallMoves DEF SelectCancelled
<1>5. CASE SelectCancelled(c) /\ ~(q.flag \/ q.task = "finished") /\ ~WaitsForRuntimeCancellation(q.kind)
  <2> DEFINE r == [q EXCEPT !.fut = "aborting"]
  <2>1. call' = [call EXCEPT ![c] = r] /\ call'[c] = r
    BY <1>1, <1>5 DEF SelectCancelled
  <2>2. /\ r.kind = q.kind /\ r.turn = q.turn /\ r.task = q.task /\ r.result = q.result
        /\ r.fut = "aborting" /\ r.response = q.response /\ r.asked = q.asked /\ r.askedIn = q.askedIn
        /\ r.said = q.said /\ r.reply = q.reply
    BY <1>1 DEF CallRecord
  <2> HIDE DEF r
  <2>3. Moves(c)
    BY <1>1, <1>5, <2>1, <2>2 DEF Moves, SelectCancelled
  <2> QED  BY <1>5, <2>1, <2>3, CallMoves DEF SelectCancelled
<1>6. CASE ClaimAbort(c) /\ q.flag
  <2> DEFINE r == [q EXCEPT !.flag = TRUE, !.fut = "joining"]
  <2>1. call' = [call EXCEPT ![c] = r] /\ call'[c] = r
    BY <1>1, <1>6 DEF ClaimAbort
  <2>2. /\ r.kind = q.kind /\ r.turn = q.turn /\ r.task = q.task /\ r.result = q.result
        /\ r.fut = "joining" /\ r.response = q.response /\ r.asked = q.asked /\ r.askedIn = q.askedIn
        /\ r.said = q.said /\ r.reply = q.reply
    BY <1>1 DEF CallRecord
  <2> HIDE DEF r
  <2>3. Moves(c)
    BY <1>1, <1>6, <2>1, <2>2 DEF Moves, ClaimAbort
  <2> QED  BY <1>6, <2>1, <2>3, CallMoves DEF ClaimAbort
<1>7. CASE ClaimAbort(c) /\ ~q.flag
  <2> DEFINE r == [q EXCEPT !.flag = TRUE, !.fut = "teardown"]
  <2>1. call' = [call EXCEPT ![c] = r] /\ call'[c] = r
    BY <1>1, <1>7 DEF ClaimAbort
  <2>2. /\ r.kind = q.kind /\ r.turn = q.turn /\ r.task = q.task /\ r.result = q.result
        /\ r.fut = "teardown" /\ r.response = q.response /\ r.asked = q.asked /\ r.askedIn = q.askedIn
        /\ r.said = q.said /\ r.reply = q.reply
    BY <1>1 DEF CallRecord
  <2> HIDE DEF r
  <2>3. Moves(c)
    BY <1>1, <1>7, <2>1, <2>2 DEF Moves, ClaimAbort
  <2> QED  BY <1>7, <2>1, <2>3, CallMoves DEF ClaimAbort
<1>8. CASE AbortHandle(c)
  <2> DEFINE r == [q EXCEPT !.fut = "killing"]
  <2>1. call' = [call EXCEPT ![c] = r] /\ call'[c] = r
    BY <1>1, <1>8 DEF AbortHandle
  <2>2. /\ r.kind = q.kind /\ r.turn = q.turn /\ r.task = q.task /\ r.result = q.result
        /\ r.fut = "killing" /\ r.response = q.response /\ r.asked = q.asked /\ r.askedIn = q.askedIn
        /\ r.said = q.said /\ r.reply = q.reply
    BY <1>1 DEF CallRecord
  <2> HIDE DEF r
  <2>3. Moves(c)
    BY <1>1, <1>8, <2>1, <2>2 DEF Moves, AbortHandle
  <2> QED  BY <1>8, <2>1, <2>3, CallMoves DEF AbortHandle
<1>9. CASE ReportAborted(c)
  <2> DEFINE r == [q EXCEPT !.fut = "done", !.response = "aborted", !.outcomes = Append(@, "aborted")]
  <2>1. call' = [call EXCEPT ![c] = r] /\ call'[c] = r
    BY <1>1, <1>9 DEF ReportAborted
  <2>2. /\ r.kind = q.kind /\ r.turn = q.turn /\ r.task = q.task /\ r.result = q.result
        /\ r.fut = "done" /\ r.response = "aborted" /\ r.asked = q.asked /\ r.askedIn = q.askedIn
        /\ r.said = q.said /\ r.reply = q.reply
    BY <1>1 DEF CallRecord
  <2> HIDE DEF r
  <2>3. Moves(c)
    BY <1>1, <1>9, <2>1, <2>2 DEF Moves, ReportAborted
  <2> QED  BY <1>9, <2>1, <2>3, CallMoves DEF ReportAborted
<1> QED
  BY <1>2, <1>3, <1>4, <1>5, <1>6, <1>7, <1>8, <1>9 DEF FutureStep

\* Only the call itself has the key of a call.
LEMMA OwnKey ==
    ASSUME NEW c \in Calls, NEW d \in Calls, call[c].kind \notin {"input", "mcp"}, Key(d) = Key(c)
    PROVE  d = c
BY DEF Key

\* A cancelled permission request drops its own sender only.
LEMMA PermissionCancelledAnswer ==
    ASSUME Both, NEW c \in Calls, PermissionCancelled(c)
    PROVE  AnswerInv'
<1> DEFINE q == call[c]
           r == [q EXCEPT !.task = "worked", !.result = "cancelled"]
<1>1. /\ call \in [Calls -> CallRecord] /\ q \in CallRecord /\ AskTypes
      /\ q.task \in {"none", "spawned", "running", "asking"} => q.result = "none"
      /\ GoneInv /\ AskInv
  BY TypeParts DEF Both, AnswerInv, FreshInv, Inv
<1>2. call' = [call EXCEPT ![c] = r] /\ call'[c] = r
  BY <1>1 DEF PermissionCancelled
<1>3. /\ r.kind = q.kind /\ r.turn = q.turn /\ r.task = "worked" /\ r.result = "cancelled"
      /\ r.fut = q.fut /\ r.response = q.response /\ r.asked = q.asked /\ r.askedIn = q.askedIn
      /\ r.said = q.said /\ r.reply = q.reply
  BY <1>1 DEF CallRecord
<1> HIDE DEF r
<1>4. Moves(c)
  BY <1>1, <1>2, <1>3 DEF Moves, PermissionCancelled
<1>5. \A d \in Calls : Moves(d)
  BY <1>2, <1>4, OneMoves
<1>6. GoneInv'
  BY <1>1, <1>5 DEF GoneInv, Moves, PermissionCancelled, turnVars
<1>7. /\ \A t \in Turns : waiters'[t] \subseteq waiters[t]
      /\ \A t \in Turns : \A w \in waiters[t] \ waiters'[t] : w.key = Key(c)
  BY <1>1 DEF PermissionCancelled
<1>8. ASSUME NEW d \in Calls, NEW w \in waiters[call[d].turn] \ waiters'[call[d].turn], w.call = d
      PROVE  call'[d].task # "asking"
  <2>1. CASE call[d].turn \in Turns
    <3>1. w.key = Key(c) /\ w.key = Key(d)
      BY <1>1, <1>7, <1>8, <2>1 DEF AskInv
    <3>2. d = c
      BY <3>1, OwnKey DEF PermissionCancelled
    <3> QED  BY <1>2, <1>3, <3>2
  <2>2. CASE call[d].turn \notin Turns
    <3>1. call[d].task # "asking"
      BY <2>2, TypeParts, BoundsAssumption DEF Both, CallInv, CallRecord, StartInv, Turns
    <3> QED  BY <1>5, <3>1 DEF Moves
  <2> QED  BY <2>1, <2>2
<1> QED  BY <1>5, <1>6, <1>7, <1>8, MovesKeep DEF PermissionCancelled

\* A new call has neither asked nor been answered.
LEMMA NewCall ==
    ASSUME Both, NEW c \in Calls, call[c].task \in {"none", "spawned", "running"}
    PROVE  /\ ~call[c].asked /\ call[c].reply = NoReply /\ call[c].said = "none"
           /\ call[c].result = "none" /\ call[c].response = "none"
<1>1. ~call[c].asked /\ call[c].response = "none"
  BY TypeParts DEF Both, CallInv, CallRecord, StartInv, FutureInv, Live
<1>2. call[c].reply = NoReply
  BY <1>1 DEF Both, AnswerInv, ReplyInv, AnsweredBy
<1> QED  BY <1>1, <1>2 DEF Both, AnswerInv, SaidInv, FreshInv

\* A new call has no answer yet.
LEMMA IssueCallAnswer ==
    ASSUME Both, NEW t \in Turns, NEW c \in Calls, NEW k \in AllKinds, IssueCall(t, c, k)
    PROVE  AnswerInv'
<1> DEFINE q == call[c]
           r == [q EXCEPT !.kind = k, !.turn = t, !.task = "spawned", !.fut = "select"]
<1>1. /\ call \in [Calls -> CallRecord] /\ q \in CallRecord /\ CallInv(q) /\ AskTypes
      /\ GoneInv /\ AskInv
  BY TypeParts DEF Both, AnswerInv, Inv
<1>2. call' = [call EXCEPT ![c] = r] /\ call'[c] = r
  BY <1>1 DEF IssueCall
<1>3. q.kind = "none" /\ q.task = "none"
  BY <1>1 DEF IssueCall, CallInv, StartInv
<1>4. /\ ~r.asked /\ r.reply = NoReply /\ r.said = "none" /\ r.result = "none"
      /\ r.response = "none" /\ r.task = "spawned" /\ r.turn = t
  BY <1>1, <1>3, NewCall DEF CallRecord
<1> HIDE DEF r
<1>5. ~q.asked
  BY <1>3, NewCall
<1>6. \A d \in Calls : d # c => call'[d] = call[d] /\ Key(d)' = Key(d)
  BY <1>1, <1>2 DEF Key
<1>7. \A d \in Calls : d # c => (SharesKey(d)' <=> SharesKey(d))
  BY <1>2, <1>4, <1>5, <1>6 DEF SharesKey
<1>8. UNCHANGED <<stage, run, waiters, answering>>
  BY DEF IssueCall, turnVars, askVars
<1>9. FreshInv' /\ SaidInv'
  BY <1>2, <1>4, <1>6 DEF Both, AnswerInv, FreshInv, SaidInv
<1>10. ReplyInv'
  <2> SUFFICES ASSUME NEW d \in Calls, call'[d].reply # NoReply
               PROVE  \E to \in Calls : call'[d].reply.to = to /\ AnsweredBy(d, to)'
    BY DEF ReplyInv
  <2>1. d # c /\ call'[d] = call[d]
    BY <1>2, <1>4, <1>6
  <2>2. PICK to \in Calls : call[d].reply.to = to /\ AnsweredBy(d, to)
    BY <2>1 DEF Both, AnswerInv, ReplyInv
  <2>3. to # c
    BY <1>5, <2>2 DEF AnsweredBy
  <2>4. AnsweredBy(d, to)'
    BY <1>6, <2>1, <2>2, <2>3 DEF AnsweredBy
  <2> QED  BY <2>1, <2>2, <2>4
<1>11. SenderOnce'
  <2>1. \A u \in Turns : \A w \in waiters[u] : w.call \in Calls /\ w.call # c
    BY <1>1, <1>5 DEF AskTypes, Waiter, AskInv
  <2>2. \A a \in answering : a.call \in Calls /\ a.call # c
    BY <1>1, <1>5 DEF AskTypes, AskInv
  <2> QED  BY <1>6, <1>8, <2>1, <2>2 DEF Both, AnswerInv, SenderOnce
<1>12. ConsentInv'
  <2>1. \A d \in Calls : d # c => (ReadsAsConsent(d)' <=> ReadsAsConsent(d))
    BY <1>6 DEF ReadsAsConsent, MustAsk
  <2> QED  BY <1>2, <1>4, <1>6, <2>1 DEF Both, AnswerInv, ConsentInv
<1>13. GoneInv'
  BY <1>1, <1>2, <1>4, <1>6, <1>8 DEF GoneInv, IssueCall
<1>14. WaitsInv'
  BY <1>2, <1>4, <1>6, <1>7, <1>8 DEF Both, AnswerInv, WaitsInv
<1>15. RejectInv'
  BY <1>2, <1>4, <1>6, <1>7 DEF Both, AnswerInv, RejectInv, Excused
<1> QED  BY <1>9, <1>10, <1>11, <1>12, <1>13, <1>14, <1>15 DEF AnswerInv

\* A request puts a new sender in place of one with the same key, if any.
LEMMA RequestAnswer ==
    ASSUME Both, NEW c \in Calls, Request(c)
    PROVE  AnswerInv'
<1> DEFINE q == call[c]
           r == [q EXCEPT !.task = "asking", !.asked = TRUE, !.askedIn = active]
           new == [key |-> Key(c), call |-> c]
<1>1. /\ call \in [Calls -> CallRecord] /\ q \in CallRecord /\ CallInv(q) /\ AskTypes
      /\ GoneInv /\ AskInv /\ TurnTypes
  BY TypeParts DEF Both, AnswerInv, Inv
<1>2. call' = [call EXCEPT ![c] = r] /\ call'[c] = r
  BY <1>1 DEF Request
<1>3. q.task = "running"
  BY DEF Request
<1>4. /\ r.asked /\ r.askedIn = active /\ r.reply = NoReply /\ r.said = "none" /\ r.result = "none"
      /\ r.response = "none" /\ r.task = "asking" /\ r.turn = q.turn /\ r.kind = q.kind
      /\ r.fut = q.fut
  BY <1>1, <1>3, NewCall DEF CallRecord
<1> HIDE DEF r
<1>5. ~q.asked
  BY <1>3, NewCall
<1>6. \A d \in Calls : Key(d)' = Key(d) /\ (d # c => call'[d] = call[d])
  BY <1>1, <1>2, <1>4 DEF Key
<1>7. \A d \in Calls : SharesKey(d) => SharesKey(d)'
  BY <1>5, <1>6 DEF SharesKey
<1>8. UNCHANGED <<stage, run, answering>>
  BY DEF Request, turnVars
<1>9. FreshInv' /\ SaidInv'
  BY <1>2, <1>4, <1>6 DEF Both, AnswerInv, FreshInv, SaidInv
<1>10. ReplyInv'
  <2> SUFFICES ASSUME NEW d \in Calls, call'[d].reply # NoReply
               PROVE  \E to \in Calls : call'[d].reply.to = to /\ AnsweredBy(d, to)'
    BY DEF ReplyInv
  <2>1. d # c /\ call'[d] = call[d]
    BY <1>2, <1>4, <1>6
  <2>2. PICK to \in Calls : call[d].reply.to = to /\ AnsweredBy(d, to)
    BY <2>1 DEF Both, AnswerInv, ReplyInv
  <2>3. to # c
    BY <1>5, <2>2 DEF AnsweredBy
  <2>4. AnsweredBy(d, to)'
    BY <1>6, <2>1, <2>2, <2>3 DEF AnsweredBy
  <2> QED  BY <2>1, <2>2, <2>4
<1>11. /\ \A u \in Turns : waiters'[u] \subseteq waiters[u] \cup {new}
       /\ \A u \in Turns : \A w \in waiters[u] \ waiters'[u] : w.key = Key(c)
       /\ active \in Turns => new \in waiters'[active]
  BY <1>1 DEF Request
<1>12. SenderOnce'
  <2>1. \A u \in Turns : \A w \in waiters[u] : w.call \in Calls /\ w.call # c
    BY <1>1, <1>5 DEF AskTypes, Waiter, AskInv
  <2>2. \A a \in answering : a.call \in Calls /\ a.call # c
    BY <1>1, <1>5 DEF AskTypes, AskInv
  <2>3. ASSUME NEW u \in Turns, NEW w \in waiters'[u]
        PROVE  call'[w.call].reply = NoReply /\ \A a \in answering : a.call # w.call
    <3>1. CASE w \in waiters[u]
      BY <1>6, <2>1, <3>1 DEF Both, AnswerInv, SenderOnce
    <3>2. CASE w = new
      BY <1>2, <1>4, <2>2, <3>2
    <3> QED  BY <1>11, <2>3, <3>1, <3>2
  <2>4. ASSUME NEW a \in answering
        PROVE  call'[a.call].reply = NoReply /\ call'[a.call].said = a.d /\ call'[a.call].kind = "perm"
    BY <1>6, <2>2 DEF Both, AnswerInv, SenderOnce
  <2> QED  BY <1>8, <2>3, <2>4 DEF SenderOnce
<1>13. ConsentInv'
  <2>1. \A d \in Calls : d # c => (ReadsAsConsent(d)' <=> ReadsAsConsent(d))
    BY <1>6 DEF ReadsAsConsent, MustAsk
  <2> QED  BY <1>2, <1>4, <1>6, <2>1 DEF Both, AnswerInv, ConsentInv
<1>14. GoneInv'
  BY <1>1, <1>2, <1>4, <1>6, <1>8 DEF GoneInv
<1>15. WaitsInv'
  <2> SUFFICES ASSUME NEW d \in Calls, call'[d].task = "asking",
                      call'[d].askedIn = call'[d].turn, call'[d].reply = NoReply
               PROVE  \/ \E w \in waiters'[call'[d].turn] : w.call = d
                      \/ \E a \in answering' : a.call = d
                      \/ SharesKey(d)'
    BY DEF WaitsInv
  <2>0. \A e \in Calls : call[e].task = "asking" \/ call[e].task = "running" => call[e].turn \in Turns
    BY TypeParts, BoundsAssumption DEF Both, CallInv, CallRecord, StartInv, Turns
  <2>1. CASE d = c
    BY <1>2, <1>3, <1>4, <1>11, <2>0, <2>1
  <2>2. CASE d # c
    <3>1. call'[d] = call[d] /\ call[d].turn \in Turns
      BY <1>6, <2>0, <2>2
    <3>2. \/ \E w \in waiters[call[d].turn] : w.call = d
          \/ \E a \in answering : a.call = d
          \/ SharesKey(d)
      BY <3>1 DEF Both, AnswerInv, WaitsInv
    <3>3. ASSUME NEW w \in waiters[call[d].turn], w.call = d, w \notin waiters'[call[d].turn]
          PROVE  SharesKey(d)'
      <4>1. Key(d) = Key(c)
        BY <1>1, <1>11, <3>1, <3>3 DEF AskInv
      <4> QED  BY <1>2, <1>4, <1>6, <2>2, <4>1 DEF SharesKey
    <3> QED  BY <1>7, <1>8, <3>1, <3>2, <3>3
  <2> QED  BY <2>1, <2>2
<1>16. RejectInv'
  BY <1>2, <1>4, <1>6, <1>7 DEF Both, AnswerInv, RejectInv, Excused
<1> QED  BY <1>9, <1>10, <1>12, <1>13, <1>14, <1>15, <1>16 DEF AnswerInv

\* A step of the client changes only what was said and received, and touches no turn.
Tells ==
    /\ \A e \in Calls :
         /\ call'[e].kind = call[e].kind /\ call'[e].turn = call[e].turn /\ call'[e].task = call[e].task
         /\ call'[e].result = call[e].result /\ call'[e].fut = call[e].fut
         /\ call'[e].response = call[e].response /\ call'[e].asked = call[e].asked
         /\ call'[e].askedIn = call[e].askedIn
         /\ call[e].said # "none" => call'[e].said = call[e].said
    /\ UNCHANGED turnVars

\* What such a step keeps in any case.
LEMMA TellsKeep ==
    ASSUME Both, Tells
    PROVE  /\ \A e \in Calls : Key(e)' = Key(e) /\ (SharesKey(e)' <=> SharesKey(e))
           /\ FreshInv' /\ GoneInv' /\ RejectInv'
<1>1. \A e \in Calls : Key(e)' = Key(e)
  BY DEF Tells, Key
<1>2. \A e \in Calls : SharesKey(e)' <=> SharesKey(e)
  BY <1>1 DEF Tells, SharesKey
<1>3. FreshInv' /\ GoneInv'
  BY DEF Tells, Both, AnswerInv, FreshInv, GoneInv, turnVars
<1>4. RejectInv'
  BY <1>2 DEF Tells, Both, AnswerInv, RejectInv, Excused
<1> QED  BY <1>1, <1>2, <1>3, <1>4

\* A call has one waiter, in the turn it asked.
LEMMA OneWaiter ==
    ASSUME Both, NEW t \in Turns, NEW u \in Turns, NEW w \in waiters[t], NEW v \in waiters[u],
           w.call = v.call
    PROVE  t = u /\ w.key = v.key /\ w.key = Key(w.call)
BY DEF Both, Inv, AskInv

\* notify_approval and notify_user_input_response.
LEMMA NotifyAnswerAnswer ==
    ASSUME Both, NEW c \in Calls, NEW d \in Answers(call[c].kind), NotifyAnswer(c, d)
    PROVE  AnswerInv'
<1> DEFINE Told(e) == \E w \in Found(c) : w.call = e
<1>1. /\ call \in [Calls -> CallRecord] /\ AskTypes /\ TurnTypes /\ AskInv
      /\ SaidInv /\ ReplyInv /\ SenderOnce /\ ConsentInv /\ WaitsInv
  BY TypeParts DEF Both, AnswerInv, Inv
<1>2. d \in AnAnswer /\ d # "none"
  BY AnswersAre DEF AnAnswer
<1>3. call[c].asked /\ call[c].said = "none" /\ call[c].kind # "perm"
  BY DEF NotifyAnswer, CanAnswer
<1>4. ASSUME NEW e \in Calls
      PROVE  /\ call'[e].kind = call[e].kind /\ call'[e].turn = call[e].turn /\ call'[e].task = call[e].task
             /\ call'[e].result = call[e].result /\ call'[e].fut = call[e].fut
             /\ call'[e].response = call[e].response /\ call'[e].asked = call[e].asked
             /\ call'[e].askedIn = call[e].askedIn
             /\ call'[e].said = (IF e = c THEN d ELSE call[e].said)
             /\ call'[e].reply = (IF Told(e) THEN [to |-> c, d |-> d] ELSE call[e].reply)
  <2> DEFINE q == call[e]
             r == IF Told(e) THEN [q EXCEPT !.reply = [to |-> c, d |-> d]] ELSE q
  <2>1. call'[e] = IF e = c THEN [r EXCEPT !.said = d] ELSE r
    BY DEF NotifyAnswer
  <2>2. q \in CallRecord
    BY <1>1
  <2>3. /\ r.kind = q.kind /\ r.turn = q.turn /\ r.task = q.task /\ r.result = q.result
        /\ r.fut = q.fut /\ r.response = q.response /\ r.asked = q.asked /\ r.askedIn = q.askedIn
        /\ r.said = q.said /\ r.reply = (IF Told(e) THEN [to |-> c, d |-> d] ELSE q.reply)
    BY <2>2 DEF CallRecord
  <2>4. r \in CallRecord
    BY <1>2, <2>2 DEF CallRecord
  <2> HIDE DEF r
  <2>5. /\ [r EXCEPT !.said = d].said = d
        /\ [r EXCEPT !.said = d].kind = r.kind /\ [r EXCEPT !.said = d].turn = r.turn
        /\ [r EXCEPT !.said = d].task = r.task /\ [r EXCEPT !.said = d].result = r.result
        /\ [r EXCEPT !.said = d].fut = r.fut /\ [r EXCEPT !.said = d].response = r.response
        /\ [r EXCEPT !.said = d].asked = r.asked /\ [r EXCEPT !.said = d].askedIn = r.askedIn
        /\ [r EXCEPT !.said = d].reply = r.reply
    BY <2>4 DEF CallRecord
  <2> QED  BY <2>1, <2>3, <2>5
<1>5. Tells
  BY <1>3, <1>4 DEF Tells, NotifyAnswer
<1>6. /\ \A e \in Calls : Key(e)' = Key(e) /\ (SharesKey(e)' <=> SharesKey(e))
      /\ FreshInv' /\ GoneInv' /\ RejectInv'
  BY <1>5, TellsKeep
<1>7. ASSUME NEW e \in Calls, Told(e)
      PROVE  /\ active \in Turns /\ call[e].asked /\ Key(e) = Key(c) /\ call[e].reply = NoReply
             /\ \E w \in waiters[active] : w.call = e
  <2>1. PICK w \in waiters[active] : w.key = Key(c) /\ w.call = e /\ active \in Turns
    BY <1>1, <1>7, BoundsAssumption DEF Found, TurnTypes, Turns
  <2> QED  BY <1>1, <2>1 DEF AskInv, SenderOnce
<1>8. /\ \A t \in Turns : waiters'[t] \subseteq waiters[t]
      /\ \A t \in Turns : \A w \in waiters[t] \ waiters'[t] : w \in Found(c)
      /\ \A w \in Found(c) : active \in Turns => w \notin waiters'[active]
      /\ answering' = answering
  BY DEF NotifyAnswer, Removed
<1>9. SaidInv'
  BY <1>1, <1>3, <1>4 DEF SaidInv
<1>10. ReplyInv'
  <2> SUFFICES ASSUME NEW e \in Calls, call'[e].reply # NoReply
               PROVE  \E to \in Calls : call'[e].reply.to = to /\ AnsweredBy(e, to)'
    BY DEF ReplyInv
  <2>1. CASE Told(e)
    <3>1. AnsweredBy(e, c)' /\ call'[e].reply.to = c
      BY <1>2, <1>3, <1>4, <1>6, <1>7, <2>1 DEF AnsweredBy
    <3> QED  BY <3>1
  <2>2. CASE ~Told(e)
    <3>1. PICK to \in Calls : call[e].reply.to = to /\ AnsweredBy(e, to)
      BY <1>1, <1>4, <2>2 DEF ReplyInv
    <3>2. to # c
      BY <1>3, <3>1 DEF AnsweredBy, AnAnswer
    <3>3. AnsweredBy(e, to)' /\ call'[e].reply.to = to
      BY <1>4, <1>6, <2>2, <3>1, <3>2 DEF AnsweredBy
    <3> QED  BY <3>3
  <2> QED  BY <2>1, <2>2
<1>11. SenderOnce'
  <2>1. ASSUME NEW t \in Turns, NEW w \in waiters'[t]
        PROVE  call'[w.call].reply = NoReply /\ \A a \in answering : a.call # w.call
    <3>1. w \in waiters[t] /\ w.call \in Calls
      BY <1>1, <1>8, <2>1 DEF AskTypes, Waiter
    <3>2. ~Told(w.call)
      <4> SUFFICES ASSUME NEW v \in Found(c), v.call = w.call  PROVE FALSE
        OBVIOUS
      <4>1. active \in Turns /\ v \in waiters[active] /\ v.key = Key(c)
        BY <1>1, BoundsAssumption DEF Found, TurnTypes, Turns
      <4>2. t = active /\ w.key = Key(c)
        BY <3>1, <4>1, OneWaiter
      <4>3. w \in Found(c)
        BY <3>1, <4>1, <4>2, BoundsAssumption DEF Found, Turns
      <4> QED  BY <1>8, <2>1, <4>2, <4>3
    <3> QED  BY <1>1, <1>4, <3>1, <3>2 DEF SenderOnce
  <2>2. ASSUME NEW a \in answering
        PROVE  call'[a.call].reply = NoReply /\ call'[a.call].said = a.d /\ call'[a.call].kind = "perm"
    <3>1. /\ a.call \in Calls /\ call[a.call].reply = NoReply /\ call[a.call].said = a.d
          /\ call[a.call].kind = "perm"
      BY <1>1 DEF AskTypes, SenderOnce
    <3>2. a.call # c /\ ~Told(a.call)
      BY <1>1, <1>3, <1>7, <3>1 DEF SenderOnce
    <3> QED  BY <1>4, <3>1, <3>2
  <2> QED  BY <1>8, <2>1, <2>2 DEF SenderOnce
<1>12. ConsentInv'
  <2> SUFFICES ASSUME NEW e \in Calls,
                      call'[e].task = "approved" \/ (call'[e].asked /\ call'[e].result = "done")
               PROVE  call'[e].reply # NoReply /\ ReadsAsConsent(e)'
    BY DEF ConsentInv
  <2>1. call[e].reply # NoReply /\ ReadsAsConsent(e)
    BY <1>1, <1>4 DEF ConsentInv
  <2>2. call'[e].reply = call[e].reply /\ call'[e].kind = call[e].kind
    BY <1>4, <1>7, <2>1
  <2> QED  BY <2>1, <2>2 DEF ReadsAsConsent, MustAsk
<1>13. WaitsInv'
  <2> SUFFICES ASSUME NEW e \in Calls, call'[e].task = "asking",
                      call'[e].askedIn = call'[e].turn, call'[e].reply = NoReply
               PROVE  \/ \E w \in waiters'[call'[e].turn] : w.call = e
                      \/ \E a \in answering' : a.call = e
                      \/ SharesKey(e)'
    BY DEF WaitsInv
  <2>1. ~Told(e)
    BY <1>2, <1>4 DEF NoReply
  <2>2. /\ call[e].task = "asking" /\ call[e].askedIn = call[e].turn /\ call[e].reply = NoReply
        /\ call'[e].turn = call[e].turn
    BY <1>4, <2>1
  <2>3. call[e].turn \in Turns
    BY <2>2, TypeParts, BoundsAssumption DEF Both, CallInv, CallRecord, StartInv, Turns
  <2>4. \/ \E w \in waiters[call[e].turn] : w.call = e
        \/ \E a \in answering : a.call = e
        \/ SharesKey(e)
    BY <1>1, <2>2 DEF WaitsInv
  <2>5. ASSUME NEW w \in waiters[call[e].turn], w.call = e
        PROVE  w \in waiters'[call'[e].turn]
    BY <1>8, <2>1, <2>2, <2>3, <2>5
  <2> QED  BY <1>6, <1>8, <2>4, <2>5
<1> QED  BY <1>6, <1>9, <1>10, <1>11, <1>12, <1>13 DEF AnswerInv

\* notify_request_permissions_response takes the sender out of the waiters.
LEMMA TakePermissionRequestAnswer ==
    ASSUME Both, NEW c \in Calls, NEW d \in Answers(call[c].kind), TakePermissionRequest(c, d)
    PROVE  AnswerInv'
<1> DEFINE q == call[c]
           r == [q EXCEPT !.said = d]
           new == [call |-> c, turn |-> active, d |-> d]
<1>1. /\ call \in [Calls -> CallRecord] /\ AskTypes /\ TurnTypes /\ AskInv
      /\ SaidInv /\ ReplyInv /\ SenderOnce /\ ConsentInv /\ WaitsInv
  BY TypeParts DEF Both, AnswerInv, Inv
<1>2. d \in AnAnswer
  BY AnswersAre
<1>3. q.asked /\ q.said = "none" /\ q.kind = "perm"
  BY DEF TakePermissionRequest, CanAnswer
<1>4. call' = [call EXCEPT ![c] = r] /\ call'[c] = r
  BY <1>1 DEF TakePermissionRequest
<1>5. /\ r.kind = q.kind /\ r.turn = q.turn /\ r.task = q.task /\ r.result = q.result
      /\ r.fut = q.fut /\ r.response = q.response /\ r.asked = q.asked /\ r.askedIn = q.askedIn
      /\ r.said = d /\ r.reply = q.reply
  BY <1>1 DEF CallRecord
<1> HIDE DEF r
<1>6. \A e \in Calls : e # c => call'[e] = call[e]
  BY <1>1, <1>4
<1>7. Tells
  BY <1>3, <1>4, <1>5, <1>6 DEF Tells, TakePermissionRequest
<1>8. /\ \A e \in Calls : Key(e)' = Key(e) /\ (SharesKey(e)' <=> SharesKey(e))
      /\ FreshInv' /\ GoneInv' /\ RejectInv'
  BY <1>7, TellsKeep
<1>9. ASSUME NEW w \in Found(c)
      PROVE  active \in Turns /\ w \in waiters[active] /\ w.call = c /\ w.key = Key(c)
  <2>1. active \in Turns /\ w \in waiters[active] /\ w.key = Key(c)
    BY <1>1, BoundsAssumption DEF Found, TurnTypes, Turns
  <2>2. w.call \in Calls /\ w.key = Key(w.call)
    BY <1>1, <2>1 DEF AskTypes, Waiter, AskInv
  <2> QED  BY <1>3, <2>1, <2>2, OwnKey
<1>10. /\ \A t \in Turns : waiters'[t] \subseteq waiters[t]
       /\ \A t \in Turns : \A w \in waiters[t] \ waiters'[t] : w \in Found(c)
       /\ \A w \in Found(c) : active \in Turns => w \notin waiters'[active]
       /\ answering \subseteq answering'
       /\ \A a \in answering' : a \in answering \/ (a = new /\ Found(c) # {})
       /\ Found(c) # {} => new \in answering'
  BY DEF TakePermissionRequest, Removed
<1>11. SaidInv'
  BY <1>1, <1>3, <1>4, <1>5, <1>6 DEF SaidInv
<1>12. ReplyInv'
  <2> SUFFICES ASSUME NEW e \in Calls, call'[e].reply # NoReply
               PROVE  \E to \in Calls : call'[e].reply.to = to /\ AnsweredBy(e, to)'
    BY DEF ReplyInv
  <2>1. call'[e].reply = call[e].reply /\ call'[e].asked = call[e].asked
    BY <1>4, <1>5, <1>6
  <2>2. PICK to \in Calls : call[e].reply.to = to /\ AnsweredBy(e, to)
    BY <1>1, <2>1 DEF ReplyInv
  <2>3. to # c
    BY <1>3, <2>2 DEF AnsweredBy, AnAnswer
  <2>4. AnsweredBy(e, to)'
    BY <1>6, <1>8, <2>1, <2>2, <2>3 DEF AnsweredBy
  <2> QED  BY <2>1, <2>2, <2>4
<1>13. SenderOnce'
  <2>1. ASSUME NEW t \in Turns, NEW w \in waiters'[t]
        PROVE  call'[w.call].reply = NoReply /\ \A a \in answering' : a.call # w.call
    <3>1. w \in waiters[t] /\ w.call \in Calls
      BY <1>1, <1>10, <2>1 DEF AskTypes, Waiter
    <3>2. call'[w.call].reply = NoReply /\ \A a \in answering : a.call # w.call
      BY <1>1, <1>4, <1>5, <1>6, <3>1 DEF SenderOnce
    <3>3. ASSUME Found(c) # {}  PROVE  w.call # c
      <4> SUFFICES ASSUME w.call = c  PROVE FALSE
        OBVIOUS
      <4>1. PICK v \in Found(c) : TRUE
        BY <3>3
      <4>2. active \in Turns /\ v \in waiters[active] /\ v.call = c /\ v.key = Key(c)
        BY <1>9, <4>1
      <4>3. t = active /\ w.key = Key(c)
        BY <3>1, <4>2, OneWaiter
      <4>4. w \in Found(c)
        BY <3>1, <4>2, <4>3, BoundsAssumption DEF Found, Turns
      <4> QED  BY <1>10, <2>1, <4>2, <4>3, <4>4
    <3> QED  BY <1>10, <3>2, <3>3
  <2>2. ASSUME NEW a \in answering'
        PROVE  call'[a.call].reply = NoReply /\ call'[a.call].said = a.d /\ call'[a.call].kind = "perm"
    <3>1. CASE a \in answering
      <4>1. /\ a.call \in Calls /\ call[a.call].reply = NoReply /\ call[a.call].said = a.d
            /\ call[a.call].kind = "perm" /\ a.d # "none"
        BY <1>1, <3>1 DEF AskTypes, SenderOnce, AnAnswer
      <4> QED  BY <1>3, <1>6, <4>1
    <3>2. CASE a = new /\ Found(c) # {}
      <4>1. PICK v \in Found(c) : TRUE
        BY <3>2
      <4>2. active \in Turns /\ v \in waiters[active] /\ v.call = c
        BY <1>9, <4>1
      <4>3. q.reply = NoReply
        BY <1>1, <4>2 DEF SenderOnce
      <4> QED  BY <1>3, <1>4, <1>5, <3>2, <4>3
    <3> QED  BY <1>10, <2>2, <3>1, <3>2
  <2> QED  BY <2>1, <2>2 DEF SenderOnce
<1>14. ConsentInv'
  <2>1. \A e \in Calls : /\ ReadsAsConsent(e)' <=> ReadsAsConsent(e)
                         /\ call'[e].reply = call[e].reply
    BY <1>4, <1>5, <1>6 DEF ReadsAsConsent, MustAsk
  <2> QED  BY <1>1, <1>7, <2>1 DEF ConsentInv, Tells
<1>15. WaitsInv'
  <2> SUFFICES ASSUME NEW e \in Calls, call'[e].task = "asking",
                      call'[e].askedIn = call'[e].turn, call'[e].reply = NoReply
               PROVE  \/ \E w \in waiters'[call'[e].turn] : w.call = e
                      \/ \E a \in answering' : a.call = e
                      \/ SharesKey(e)'
    BY DEF WaitsInv
  <2>1. /\ call[e].task = "asking" /\ call[e].askedIn = call[e].turn /\ call[e].reply = NoReply
        /\ call'[e].turn = call[e].turn
    BY <1>4, <1>5, <1>6
  <2>2. call[e].turn \in Turns
    BY <2>1, TypeParts, BoundsAssumption DEF Both, CallInv, CallRecord, StartInv, Turns
  <2>3. \/ \E w \in waiters[call[e].turn] : w.call = e
        \/ \E a \in answering : a.call = e
        \/ SharesKey(e)
    BY <1>1, <2>1 DEF WaitsInv
  <2>4. ASSUME NEW w \in waiters[call[e].turn], w.call = e, w \notin waiters'[call[e].turn]
        PROVE  \E a \in answering' : a.call = e
    <3>1. w \in Found(c) /\ e = c
      BY <1>9, <1>10, <2>2, <2>4
    <3>2. new \in answering' /\ new.call = e
      BY <1>10, <3>1
    <3> QED  BY <3>2
  <2> QED  BY <1>8, <1>10, <2>1, <2>3, <2>4
<1> QED  BY <1>8, <1>11, <1>12, <1>13, <1>14, <1>15 DEF AnswerInv

\* ... and sends the answer.
LEMMA GrantPermissionAnswer ==
    ASSUME Both, NEW a \in answering, NEW c \in Calls, a.call = c, GrantPermission(a)
    PROVE  AnswerInv'
<1> DEFINE q == call[c]
           r == [q EXCEPT !.reply = [to |-> c, d |-> a.d]]
<1>1. /\ call \in [Calls -> CallRecord] /\ AskTypes /\ TurnTypes /\ AskInv
      /\ SaidInv /\ ReplyInv /\ SenderOnce /\ ConsentInv /\ WaitsInv
  BY TypeParts DEF Both, AnswerInv, Inv
<1>2. /\ a.d \in AnAnswer /\ q.asked /\ q.reply = NoReply /\ q.said = a.d
      /\ q.askedIn = a.turn
  BY <1>1 DEF AskTypes, SenderOnce, AskInv
<1>3. call' = [call EXCEPT ![c] = r] /\ call'[c] = r
  BY <1>1, <1>2 DEF GrantPermission
<1>4. /\ r.kind = q.kind /\ r.turn = q.turn /\ r.task = q.task /\ r.result = q.result
      /\ r.fut = q.fut /\ r.response = q.response /\ r.asked = q.asked /\ r.askedIn = q.askedIn
      /\ r.said = q.said /\ r.reply = [to |-> c, d |-> a.d]
  <2>1. q \in CallRecord
    BY <1>1
  <2> HIDE DEF q
  <2> QED  BY <2>1 DEF CallRecord
<1> HIDE DEF r, q
<1>5. \A e \in Calls : e # c => call'[e] = call[e]
  BY <1>1, <1>3
<1>6. Tells
  BY <1>3, <1>4, <1>5 DEF Tells, GrantPermission, q
<1>7. /\ \A e \in Calls : Key(e)' = Key(e) /\ (SharesKey(e)' <=> SharesKey(e))
      /\ FreshInv' /\ GoneInv' /\ RejectInv'
  BY <1>6, TellsKeep
<1>8. answering' = answering \ {a} /\ waiters' = waiters
  BY DEF GrantPermission
<1>9. \A b \in answering : b.call = c => b = a
  BY <1>1, <1>2 DEF AskTypes, AskInv, SenderOnce, q
<1>10. SaidInv'
  BY <1>1, <1>2, <1>3, <1>4, <1>5 DEF SaidInv, q
<1>11. ReplyInv'
  <2> SUFFICES ASSUME NEW e \in Calls, call'[e].reply # NoReply
               PROVE  \E to \in Calls : call'[e].reply.to = to /\ AnsweredBy(e, to)'
    BY DEF ReplyInv
  <2>1. CASE e = c
    <3>1. r.asked /\ r.said = a.d /\ r.reply.to = c /\ r.reply.d = a.d
      BY <1>2, <1>4
    <3> QED  BY <1>2, <1>3, <2>1, <3>1 DEF AnsweredBy
  <2>2. CASE e # c
    <3>1. PICK to \in Calls : call[e].reply.to = to /\ AnsweredBy(e, to)
      BY <1>1, <1>5, <2>2 DEF ReplyInv
    <3>2. call'[to].asked = call[to].asked /\ call'[to].said = call[to].said
      BY <1>3, <1>4, <1>5 DEF q
    <3>3. AnsweredBy(e, to)' /\ call'[e].reply.to = to
      BY <1>5, <1>7, <2>2, <3>1, <3>2 DEF AnsweredBy
    <3> QED  BY <3>3
  <2> QED  BY <2>1, <2>2
<1>12. SenderOnce'
  <2>1. \A t \in Turns : \A w \in waiters[t] : w.call \in Calls /\ w.call # c
    BY <1>1 DEF AskTypes, Waiter, SenderOnce
  <2>2. \A b \in answering' : b \in answering /\ b.call \in Calls /\ b.call # c
    BY <1>1, <1>8, <1>9 DEF AskTypes
  <2> QED  BY <1>1, <1>5, <1>8, <2>1, <2>2 DEF SenderOnce
<1>13. ConsentInv'
  <2> SUFFICES ASSUME NEW e \in Calls,
                      call'[e].task = "approved" \/ (call'[e].asked /\ call'[e].result = "done")
               PROVE  call'[e].reply # NoReply /\ ReadsAsConsent(e)'
    BY DEF ConsentInv
  <2>1. call[e].reply # NoReply /\ ReadsAsConsent(e)
    BY <1>1, <1>6 DEF ConsentInv, Tells
  <2>2. e # c
    BY <1>2, <2>1 DEF q
  <2> QED  BY <1>5, <2>1, <2>2 DEF ReadsAsConsent, MustAsk
<1>14. WaitsInv'
  <2> SUFFICES ASSUME NEW e \in Calls, call'[e].task = "asking",
                      call'[e].askedIn = call'[e].turn, call'[e].reply = NoReply
               PROVE  \/ \E w \in waiters'[call'[e].turn] : w.call = e
                      \/ \E b \in answering' : b.call = e
                      \/ SharesKey(e)'
    BY DEF WaitsInv
  <2>1. e # c
    BY <1>2, <1>3, <1>4 DEF NoReply, AnAnswer
  <2>2. \/ \E w \in waiters[call[e].turn] : w.call = e
        \/ \E b \in answering : b.call = e
        \/ SharesKey(e)
    BY <1>1, <1>5, <2>1 DEF WaitsInv
  <2> QED  BY <1>5, <1>7, <1>8, <2>1, <2>2
<1> QED  BY <1>7, <1>10, <1>11, <1>12, <1>13, <1>14 DEF AnswerInv
-----------------------------------------------------------------------------
(* The theorems *)

\* The invariant holds at the start.
LEMMA InitAnswer ==
    ASSUME Init
    PROVE  AnswerInv
<1>1. \A c \in Calls : call[c] = NoCall
  BY DEF Init
<1>2. FreshInv /\ SaidInv /\ ReplyInv /\ ConsentInv /\ WaitsInv /\ RejectInv
  BY <1>1 DEF NoCall, NoReply, FreshInv, SaidInv, ReplyInv, ConsentInv, WaitsInv, RejectInv
<1>3. SenderOnce
  BY DEF Init, SenderOnce
<1>4. GoneInv
  BY DEF Init, GoneInv
<1> QED  BY <1>2, <1>3, <1>4 DEF AnswerInv

\* Every step keeps it.
LEMMA NextAnswer ==
    ASSUME Both, [Next]_vars
    PROVE  Both'
<1>1. CASE UNCHANGED vars
  <2>1. \A c \in Calls : Moves(c)
    BY <1>1, StillMoves DEF Both, vars
  <2>2. GoneInv'
    BY <1>1 DEF Both, AnswerInv, GoneInv, vars
  <2> QED  BY <1>1, <2>1, <2>2, MovesKeep, NextInv DEF vars, Both
<1>2. ASSUME NEW t \in Turns,
             StartTurn(t) \/ TakeActiveTurn(t) \/ RunStep(t) \/ AbortStep(t)
      PROVE  AnswerInv'
  BY <1>2, TurnStepsAnswer, GraceTimeoutAnswer, ClearPendingAnswer DEF RunStep, AbortStep
<1>3. ASSUME NEW t \in Turns, NEW c \in Calls, NEW k \in AllKinds, IssueCall(t, c, k)
      PROVE  AnswerInv'
  BY <1>3, IssueCallAnswer
<1>4. ASSUME NEW c \in Calls, TaskStep(c)
      PROVE  AnswerInv'
  BY <1>4, TaskStepsAnswer, RequestAnswer, PermissionCancelledAnswer
<1>5. ASSUME NEW c \in Calls, FutureStep(c)
      PROVE  AnswerInv'
  BY <1>5, FutureStepsAnswer
<1>6. ASSUME NEW c \in Calls, ClientAnswers(c)
      PROVE  AnswerInv'
  BY <1>6, NotifyAnswerAnswer, TakePermissionRequestAnswer DEF ClientAnswers
<1>7. ASSUME NEW a \in answering, GrantPermission(a)
      PROVE  AnswerInv'
  <2>1. a.call \in Calls
    BY TypeParts DEF Both, AskTypes
  <2> QED  BY <1>7, <2>1, GrantPermissionAnswer
<1>8. CASE Next
  <2>1. AnswerInv'
    BY <1>2, <1>3, <1>4, <1>5, <1>6, <1>7, <1>8 DEF Next, GrantStep
  <2> QED  BY <2>1, NextInv DEF Both
<1> QED  BY <1>1, <1>8

\* It holds of every behaviour.
LEMMA SpecBoth == Spec => []Both
<1>1. Init => Both
  BY InitInv, InitAnswer DEF Both
<1>2. Both /\ [Next]_vars => Both'
  BY NextAnswer
<1> QED  BY <1>1, <1>2, PTL DEF Spec

\* abort_all_tasks drops the waiters behind the task: the model reads "rejected"
\* of a call only when the user refused it, it asked another turn than its own,
\* or it shared its key, whatever is interrupted when.
THEOREM InterruptsAreNoRejections == Spec => []InterruptIsNoRejection
<1>1. Both => InterruptIsNoRejection
  BY DEF Both, AnswerInv, RejectInv, Excused, InterruptIsNoRejection
<1> QED  BY <1>1, SpecBoth, PTL

\* A tool that asked works only on the user's consent to that very call: the
\* answers that replaced waiters, late answers and shared keys lead astray are
\* never taken for consent (request_user_input under a shared key apart).
THEOREM ConsentIsToThatCall == Spec => []ConsentIsToThisCall
<1>1. ASSUME Both, NEW c \in Calls, call[c].asked, call[c].result = "done",
             call[c].kind = "input" => ~SharesKey(c)
      PROVE  /\ call[c].reply.to = c
             /\ call[c].said = call[c].reply.d
             /\ ~MustAsk(call[c].kind) => call[c].said = "yes"
  <2>1. call[c].reply # NoReply /\ ReadsAsConsent(c)
    BY <1>1 DEF Both, AnswerInv, ConsentInv
  <2>2. PICK to \in Calls : call[c].reply.to = to /\ AnsweredBy(c, to)
    BY <1>1, <2>1 DEF Both, AnswerInv, ReplyInv
  <2>3. to = c
    <3>1. CASE call[c].kind \notin {"input", "mcp"}
      BY <2>2, <3>1, OwnKey DEF AnsweredBy
    <3>2. CASE call[c].kind = "input"
      BY <1>1, <2>2, <3>2 DEF AnsweredBy, SharesKey
    <3>3. CASE call[c].kind = "mcp"
      BY <2>1, <2>2, <3>3 DEF ReadsAsConsent, MustAsk
    <3> QED  BY <3>1, <3>2, <3>3
  <2>4. call[c].said = call[c].reply.d /\ call[c].said \in AnAnswer
    BY <2>2, <2>3 DEF AnsweredBy
  <2>5. ASSUME ~MustAsk(call[c].kind)  PROVE  call[c].said = "yes"
    <3>1. call[c].said # "no" /\ call[c].said \in Answers(call[c].kind)
      BY <1>1, <2>1, <2>4, <2>5 DEF ReadsAsConsent, Both, AnswerInv, SaidInv, AnAnswer
    <3>2. Answers(call[c].kind) = {"yes", "no"}
      BY <2>5 DEF Answers, MustAsk
    <3> QED  BY <3>1, <3>2
  <2> QED  BY <2>2, <2>3, <2>4, <2>5
<1>2. Both => ConsentIsToThisCall
  BY <1>1 DEF ConsentIsToThisCall
<1> QED  BY <1>2, SpecBoth, PTL
=============================================================================
