--------------------------- MODULE RolloutWriter ---------------------------
(***************************************************************************)
(* The rollout recorder of one thread: sessions hold clones of a           *)
(* RolloutRecorder and send commands over a bounded channel; one background *)
(* task, rollout_writer, owns the file and appends one JSON line per item. *)
(* Opening the file and writing a line may fail at any time, and a failed  *)
(* write may leave a fragment of a line behind.                            *)
(***************************************************************************)
EXTENDS Integers, Sequences

CONSTANTS
    Clients,     \* tasks that hold a clone of the recorder
    Items,       \* rollout items
    Batches,     \* the `items` arguments record_canonical_items is called with
    Meta,        \* the SessionMeta line
    ChannelCap,  \* capacity of the command channel (256 in the code)
    MaxItems,    \* bound: items recorded
    MaxResumes   \* bound: recorders opened on an existing file

ASSUME BatchesAssumption == Batches \subseteq Seq(Items) /\ Meta \notin Items
ASSUME ClientsAssumption == Clients # {}
ASSUME BoundsAssumption ==
    ChannelCap \in Nat \ {0} /\ MaxItems \in Nat /\ MaxResumes \in Nat

VARIABLES
    lines,     \* complete lines in the file
    glued,     \* those that follow a fragment on the same line
    torn,      \* whether the file ends in a fragment
    writer,    \* RolloutWriterState::writer and deferred_log_file_info
    metaLeft,  \* RolloutWriterState::meta is Some
    pending,   \* RolloutWriterState::pending_items
    channel,   \* commands sent and not yet received
    job,       \* the command the writer task works on
    waiting,   \* clients that wait for an acknowledgement
    accepted,  \* items whose send returned Ok, in that order; of earlier recorders
               \* those that got a line (history variable)
    durable,   \* how many of them an Ok acknowledged (history variable)
    resumes

vars == <<lines, glued, torn, writer, metaLeft, pending, channel, job, waiting,
          accepted, durable, resumes>>
file == <<lines, glued, torn>>

\* "deferred": no file yet; "closed": dropped by enter_recovery_mode.
Writers == {"deferred", "open", "closed"}
Barriers == {"persist", "flush", "shutdown"}
Commands == [op : Barriers \cup {"add"}, client : Clients, items : Seq(Items),
             mark : Nat]   \* mark: Len(accepted) when it was sent
NoJob == [at |-> "recv", op |-> "add", client |-> CHOOSE c \in Clients : TRUE,
          mark |-> 0, attempt |-> 1]

Init ==
    /\ lines = <<>> /\ glued = {} /\ torn = FALSE
    /\ writer = "deferred" /\ metaLeft = TRUE /\ pending = <<>>
    /\ channel = <<>> /\ job = NoJob /\ waiting = {}
    /\ accepted = <<>> /\ durable = 0 /\ resumes = 0

-----------------------------------------------------------------------------
(* RolloutRecorder: what a client calls.                                    *)

\* Mutant: the channel is unbounded.
Send_Unbounded(c, op, items) ==
    /\ job.at # "stopped"
    /\ channel' = Append(channel, [op |-> op, client |-> c, items |-> items,
                                   mark |-> Len(accepted)])

\* tx.send(..).await: waits for room, fails once the receiver is gone.
Send(c, op, items) ==
    /\ job.at # "stopped" /\ Len(channel) < ChannelCap
    /\ channel' = Append(channel, [op |-> op, client |-> c, items |-> items,
                                   mark |-> Len(accepted)])

Record(c, items) ==
    /\ c \notin waiting /\ items # <<>>
    /\ Len(accepted) + Len(items) <= MaxItems
    /\ Send(c, "add", items)
    /\ accepted' = accepted \o items
    /\ UNCHANGED <<file, writer, metaLeft, pending, job, waiting, durable, resumes>>

\* persist, flush and shutdown wait for their acknowledgement.
Barrier(c, op) ==
    /\ c \notin waiting
    /\ Send(c, op, <<>>)
    /\ waiting' = waiting \cup {c}
    /\ UNCHANGED <<file, writer, metaLeft, pending, job, accepted, durable, resumes>>

-----------------------------------------------------------------------------
(* rollout_writer: one command after the other.                             *)

\* ack.send(..).  A shutdown that succeeded ends the task; the receiver and all
\* acknowledgements still in the channel go with it.
Reply(op, c, mark, ok) ==
    LET stops == op = "shutdown" /\ ok
    IN  /\ job' = [NoJob EXCEPT !.at = IF stops THEN "stopped" ELSE "recv"]
        /\ waiting' = IF stops THEN {} ELSE IF op = "add" THEN waiting ELSE waiting \ {c}
        /\ durable' = IF ok /\ op # "add" /\ mark > durable THEN mark ELSE durable

\* Mutant: a deferred flush or shutdown succeeds whatever is buffered.
NothingToWrite_Deferred(op) == op # "persist" /\ writer = "deferred"

\* A deferred flush or shutdown without buffered items creates no file, and
\* items added while deferred stay in memory.
NothingToWrite(op) ==
    op # "persist" /\ writer = "deferred" /\ (op = "add" \/ pending = <<>>)

Receive ==
    /\ job.at = "recv" /\ channel # <<>>
    /\ channel' = Tail(channel)
    /\ pending' = pending \o Head(channel).items
    /\ LET cmd == Head(channel)
       IN  IF NothingToWrite(cmd.op)
           THEN Reply(cmd.op, cmd.client, cmd.mark, TRUE)
           ELSE /\ job' = [at |-> "open", op |-> cmd.op, client |-> cmd.client,
                           mark |-> cmd.mark, attempt |-> 1]
                /\ UNCHANGED <<waiting, durable>>
    /\ UNCHANGED <<file, writer, metaLeft, accepted, resumes>>

Goto(at) == job' = [job EXCEPT !.at = at] /\ UNCHANGED <<waiting, durable>>

\* Mutant: the writer retries until the disk recovers.
Fail_RetryForever ==
    /\ writer' = IF writer = "open" THEN "closed" ELSE writer
    /\ job' = [job EXCEPT !.at = "open"]
    /\ UNCHANGED <<waiting, durable>>

\* enter_recovery_mode, then one more attempt, then the error.
Fail ==
    /\ writer' = IF writer = "open" THEN "closed" ELSE writer
    /\ \/ /\ job.attempt = 1
          /\ job' = [job EXCEPT !.at = "open", !.attempt = 2]
          /\ UNCHANGED <<waiting, durable>>
       \/ /\ job.attempt = 2
          /\ Reply(job.op, job.client, job.mark, FALSE)

\* Mutant: the file is opened with truncate instead of append.
Open_Truncates ==
    /\ job.at = "open"
    /\ writer' = "open" /\ Goto("meta")
    /\ lines' = IF writer = "open" THEN lines ELSE <<>>
    /\ UNCHANGED <<glued, torn, metaLeft, pending, channel, accepted, resumes>>

\* ensure_writer_open
Open ==
    /\ job.at = "open"
    /\ writer' = "open" /\ Goto("meta")
    /\ UNCHANGED <<file, metaLeft, pending, channel, accepted, resumes>>

OpenFails ==
    /\ job.at = "open" /\ writer # "open"
    /\ Fail
    /\ UNCHANGED <<file, metaLeft, pending, channel, accepted, resumes>>

\* write_line, to the end of the file
AppendLine(x) ==
    /\ lines' = Append(lines, x)
    /\ glued' = IF torn THEN glued \cup {Len(lines) + 1} ELSE glued
    /\ torn' = FALSE

\* write_session_meta_if_needed
WriteMeta ==
    /\ job.at = "meta"
    /\ metaLeft' = FALSE /\ Goto("items")
    /\ IF metaLeft THEN AppendLine(Meta) ELSE UNCHANGED file
    /\ UNCHANGED <<writer, pending, channel, accepted, resumes>>

\* write_pending_items_once: written items leave pending_items.
WriteItem ==
    /\ job.at = "items" /\ pending # <<>>
    /\ AppendLine(Head(pending))
    /\ pending' = Tail(pending)
    /\ UNCHANGED <<writer, metaLeft, channel, job, waiting, accepted, durable, resumes>>

\* Mutant: a failed write discards the whole buffer.
WriteFails_DropsBuffer ==
    /\ \/ job.at = "meta" /\ metaLeft
       \/ job.at = "items" /\ pending # <<>>
    /\ torn' \in {torn, TRUE}
    /\ Fail
    /\ pending' = <<>>
    /\ UNCHANGED <<lines, glued, metaLeft, channel, accepted, resumes>>

\* A line fails before its end; a part of it may be in the file.
WriteFails ==
    /\ \/ job.at = "meta" /\ metaLeft
       \/ job.at = "items" /\ pending # <<>>
    /\ torn' \in {torn, TRUE}
    /\ Fail
    /\ UNCHANGED <<lines, glued, metaLeft, pending, channel, accepted, resumes>>

\* The last flush of write_pending_once.
Finish ==
    /\ job.at = "items" /\ pending = <<>>
    /\ Reply(job.op, job.client, job.mark, TRUE)
    /\ UNCHANGED <<file, writer, metaLeft, pending, channel, accepted, resumes>>

\* The process ended, at any point; later the thread is resumed from its file,
\* which needs a readable SessionMeta line.  The next line is appended behind
\* whatever the file ends with.  accepted keeps the positions of the file, the
\* glued lines included; what the resumed thread is given is Logged.
Resume ==
    /\ resumes < MaxResumes
    /\ lines # <<>> /\ 1 \notin glued
    /\ writer' = "open" /\ metaLeft' = FALSE /\ pending' = <<>>
    /\ channel' = <<>> /\ job' = NoJob /\ waiting' = {}
    /\ accepted' = Tail(lines)
    /\ resumes' = resumes + 1
    /\ UNCHANGED <<file, durable>>

WriterStep ==
    Receive \/ Open \/ OpenFails \/ WriteMeta \/ WriteItem \/ WriteFails \/ Finish

Next ==
    \/ \E c \in Clients : \/ \E items \in Batches : Record(c, items)
                          \/ \E op \in Barriers : Barrier(c, op)
    \/ WriterStep \/ Resume

Spec == Init /\ [][Next]_vars

\* The writer task is polled, and every system call returns.
LiveSpec == Spec /\ WF_vars(WriterStep)

-----------------------------------------------------------------------------
(* Properties.                                                              *)

TypeOK ==
    /\ lines \in Seq(Items \cup {Meta}) /\ torn \in BOOLEAN
    /\ glued \subseteq 1 .. Len(lines)
    /\ writer \in Writers /\ metaLeft \in BOOLEAN
    /\ pending \in Seq(Items)
    /\ channel \in Seq(Commands) /\ Len(channel) <= ChannelCap
    /\ job \in [at : {"recv", "open", "meta", "items", "stopped"},
                op : Barriers \cup {"add"}, client : Clients, mark : Nat,
                attempt : {1, 2}]
    /\ waiting \subseteq Clients
    /\ accepted \in Seq(Items) /\ durable \in Nat /\ resumes \in 0 .. MaxResumes

\* How many of the accepted items the writer task has received.
Received == IF channel = <<>> THEN Len(accepted) ELSE Head(channel).mark

\* The SessionMeta line, while it is not yet written.
MetaOwed == IF metaLeft THEN <<Meta>> ELSE <<>>

\* "I/O failures drop the file handle but keep the unwritten suffix": whatever
\* fails, the lines of the file followed by what the writer still owes it are
\* the SessionMeta and the received items, in order, none missing, none twice.
WrittenInOrder ==
    (lines \o MetaOwed) \o pending = <<Meta>> \o SubSeq(accepted, 1, Received)

\* "Flush all queued writes and wait until they are committed": what was
\* recorded before a persist, flush or shutdown that returned Ok is in the file
\* behind its SessionMeta, also after later failures and restarts.  It has its
\* line; behind a fragment that line cannot be read (ImplementsLog).
AckedIsWritten == durable > 0 => durable < Len(lines)

\* How many items have a line.
Written == IF lines = <<>> THEN 0 ELSE Len(lines) - 1

\* The items load_rollout_items finds, by their position behind the SessionMeta:
\* it skips a line that does not parse.
Logged == [n \in {k \in 1 .. Written : k + 1 \notin glued} |-> lines[n + 1]]

Log == INSTANCE RolloutLog WITH
    recorded <- accepted, head <- lines # <<>>, written <- Written, logged <- Logged

\* The recorder is an append-only log (RolloutLog): whatever the writer task
\* retries, reopens or loses, a step of it writes at most the next recorded item,
\* no step rewrites or shortens the file, an Ok to a persist, flush or shutdown
\* covers a prefix of what is there, and a reader finds all of it but at most one
\* line for every write that failed half way.
ImplementsLog == Log!Spec

\* Nobody waits forever for the writer task: a persist, flush or shutdown is
\* answered, with an error if the disk keeps failing.
BarrierAnswered == \A c \in Clients : (c \in waiting) ~> (c \notin waiting)
=============================================================================
