------------------------ MODULE RolloutWriter_proofs ------------------------
(***************************************************************************)
(* What the rollout file holds, for any clients, items, batches and bounds *)
(* and any pattern of failures: the received items, in order and once, and *)
(* everything an acknowledgement promised.                                 *)
(***************************************************************************)
EXTENDS RolloutWriter, SequenceTheorems, TLAPS

Lines == Items \cup {Meta}

\* A command in the channel carries the accepted items from its mark up to the
\* mark of the next one.
NextMark(i) == IF i = Len(channel) THEN Len(accepted) ELSE channel[i + 1].mark
ChannelInOrder ==
    \A i \in 1 .. Len(channel) :
        LET cmd == channel[i] IN
        /\ cmd.mark + Len(cmd.items) = NextMark(i)
        /\ NextMark(i) <= Len(accepted)
        /\ cmd.items = SubSeq(accepted, cmd.mark + 1, NextMark(i))
        /\ cmd.op # "add" => cmd.items = <<>>

\* A recorder without a file has written nothing and is not about to write;
\* items follow the SessionMeta.
FileFollowsJob ==
    /\ writer = "deferred" => lines = <<>> /\ metaLeft
    /\ job.at = "meta" => writer # "deferred"
    /\ job.at = "items" => ~metaLeft

\* A barrier the writer works on was sent when no more than what is received
\* by now had been accepted.
MarkReceived == job.at \in {"open", "meta", "items"} => job.mark <= Received

FileInv == ChannelInOrder /\ FileFollowsJob /\ MarkReceived /\ WrittenInOrder /\ AckedIsWritten
WriterInv == TypeOK /\ FileInv

-----------------------------------------------------------------------------
(* Sequences.                                                               *)

\* Moving the first element of p to the end of s keeps s \o p.
LEMMA MoveHead ==
    ASSUME NEW S, NEW s \in Seq(S), NEW p \in Seq(S), p # <<>>
    PROVE  Append(s, Head(p)) \o Tail(p) = s \o p
<1>1. Head(p) \in S /\ Tail(p) \in Seq(S) /\ <<Head(p)>> \in Seq(S)
  BY HeadTailProperties
<1>2. p = <<Head(p)>> \o Tail(p)
  BY <1>1
<1>3. Append(s, Head(p)) = s \o <<Head(p)>>
  BY <1>1, AppendIsConcat
<1>4. (s \o <<Head(p)>>) \o Tail(p) = s \o (<<Head(p)>> \o Tail(p))
  BY <1>1, ConcatAssociative
<1>5. QED
  BY <1>2, <1>3, <1>4

\* Concatenation of lines may be regrouped.
LEMMA LinesRegroup ==
    \A s, t, u \in Seq(Lines) : (s \o t) \o u = s \o (t \o u)
BY ConcatAssociative

\* A prefix does not see what is appended.
LEMMA PrefixOfConcat ==
    ASSUME NEW S, NEW a \in Seq(S), NEW b \in Seq(S), NEW m \in 1 .. Len(a) + 1,
           NEW n \in 0 .. Len(a)
    PROVE  SubSeq(a \o b, m, n) = SubSeq(a, m, n)
<1>1. Len(a) \in Nat /\ Len(b) \in Nat /\ a \o b \in Seq(S) /\ Len(a \o b) = Len(a) + Len(b)
  BY LenProperties, ConcatProperties
<1>2. CASE n < m
  BY <1>1, <1>2, SubSeqEmpty
<1>3. CASE m <= n
  BY <1>1, <1>3, SubSeqOfConcat1
<1>4. QED
  BY <1>1, <1>2, <1>3

\* Two adjacent pieces are one.
LEMMA AdjacentPieces ==
    ASSUME NEW S, NEW a \in Seq(S), NEW k \in 0 .. Len(a), NEW n \in k .. Len(a)
    PROVE  SubSeq(a, 1, k) \o SubSeq(a, k + 1, n) = SubSeq(a, 1, n)
<1>1. Len(a) \in Nat
  BY LenProperties
<1>2. QED
  BY <1>1, ConcatAdjacentSubSeq

-----------------------------------------------------------------------------
(* What the invariant says of lengths, and the initial state.               *)

\* What was received is a prefix of what was accepted.
LEMMA ReceivedBounds ==
    ASSUME TypeOK, ChannelInOrder
    PROVE  /\ Received \in 0 .. Len(accepted)
           /\ SubSeq(accepted, 1, Received) \in Seq(Items)
           /\ Len(SubSeq(accepted, 1, Received)) = Received
<1>1. accepted \in Seq(Items) /\ channel \in Seq(Commands)
  BY DEF TypeOK
<1>2. Len(accepted) \in Nat /\ \A i \in 1 .. Len(accepted) : accepted[i] \in Items
  BY <1>1, LenProperties, ElementOfSeq
<1>3. Received \in 0 .. Len(accepted)
  <2>1. CASE channel = <<>>
    BY <2>1, <1>2 DEF Received
  <2>2. CASE channel # <<>>
    <3>1. 1 \in 1 .. Len(channel) /\ Head(channel) = channel[1] /\ channel[1] \in Commands
      BY <1>1, <2>2, EmptySeq, ElementOfSeq
    <3>2. channel[1].mark \in Nat /\ channel[1].items \in Seq(Items)
      BY <3>1 DEF Commands
    <3>3. Len(channel[1].items) \in Nat
      BY <3>2, LenProperties
    <3>4. /\ channel[1].mark + Len(channel[1].items) = NextMark(1)
          /\ NextMark(1) <= Len(accepted)
      BY <3>1 DEF ChannelInOrder
    <3>5. QED
      BY <3>1, <3>2, <3>3, <3>4, <2>2, <1>2 DEF Received
  <2>3. QED
    BY <2>1, <2>2
<1>4. QED
  BY <1>2, <1>3, SubSeqProperties

\* How much of it the file and the buffer hold.
LEMMA FileLength ==
    ASSUME WriterInv
    PROVE  /\ Len(lines) \in Nat /\ Len(pending) \in Nat
           /\ MetaOwed \in Seq(Lines) /\ lines \in Seq(Lines) /\ pending \in Seq(Lines)
           /\ Len(lines) + (IF metaLeft THEN 1 ELSE 0) + Len(pending) = 1 + Received
<1>1. lines \in Seq(Lines) /\ pending \in Seq(Items) /\ metaLeft \in BOOLEAN
  BY DEF WriterInv, TypeOK, Lines
<1>2. pending \in Seq(Lines)
  BY <1>1, SeqMonotonic DEF Lines
<1>3. MetaOwed \in Seq(Lines) /\ Len(MetaOwed) = IF metaLeft THEN 1 ELSE 0
  <2>1. <<Meta>> \in Seq(Lines) /\ Len(<<Meta>>) = 1 /\ <<>> \in Seq(Lines) /\ Len(<<>>) = 0
    BY EmptySeq DEF Lines
  <2>2. CASE metaLeft
    <3>1. MetaOwed = <<Meta>>
      BY <2>2, Zenon DEF MetaOwed
    <3>2. QED
      BY <2>1, <2>2, <3>1
  <2>3. CASE ~metaLeft
    <3>1. MetaOwed = <<>>
      BY <2>3, Zenon DEF MetaOwed
    <3>2. QED
      BY <2>1, <2>3, <3>1
  <2>4. QED
    BY <2>2, <2>3
<1>4. Len(lines) \in Nat /\ Len(pending) \in Nat
  BY <1>1, LenProperties
<1>5. Len((lines \o MetaOwed) \o pending) = Len(lines) + (IF metaLeft THEN 1 ELSE 0) + Len(pending)
  <2>1. lines \o MetaOwed \in Seq(Lines) /\ Len(lines \o MetaOwed) = Len(lines) + Len(MetaOwed)
    BY <1>1, <1>3, ConcatProperties
  <2>2. Len((lines \o MetaOwed) \o pending) = Len(lines \o MetaOwed) + Len(pending)
    BY <1>2, <2>1, ConcatProperties
  <2>3. QED
    BY <1>3, <2>1, <2>2
<1>6. /\ SubSeq(accepted, 1, Received) \in Seq(Lines)
      /\ Len(SubSeq(accepted, 1, Received)) = Received
      /\ <<Meta>> \in Seq(Lines) /\ Len(<<Meta>>) = 1
  BY ReceivedBounds, SeqMonotonic DEF Lines, WriterInv, FileInv
<1>7. Len(<<Meta>> \o SubSeq(accepted, 1, Received)) = 1 + Received
  BY <1>6, ConcatProperties
<1>8. QED
  BY <1>1, <1>2, <1>3, <1>4, <1>5, <1>7 DEF WriterInv, FileInv, WrittenInOrder

\* The idle writer's job is typed.
LEMMA NoJobType ==
    NoJob \in [at : {"recv", "open", "meta", "items", "stopped"},
               op : Barriers \cup {"add"}, client : Clients, mark : Nat,
               attempt : {1, 2}]
BY ClientsAssumption DEF NoJob

\* The invariant holds at the start.
LEMMA InitInv == Init => WriterInv
<1> SUFFICES ASSUME Init PROVE WriterInv
  OBVIOUS
<1>1. TypeOK
  <2>1. \A S : <<>> \in Seq(S)
    BY EmptySeq
  <2>2. Len(channel) = 0 /\ 0 <= ChannelCap /\ resumes \in 0 .. MaxResumes
    BY BoundsAssumption DEF Init
  <2>3. QED
    BY <2>1, <2>2, NoJobType DEF Init, TypeOK, Writers
<1>2. Len(channel) = 0 /\ Received = 0 /\ Len(accepted) = 0
  BY DEF Init, Received
<1>3. ChannelInOrder
  BY <1>2 DEF ChannelInOrder
<1>4. FileFollowsJob /\ MarkReceived /\ AckedIsWritten
  BY DEF Init, FileFollowsJob, MarkReceived, AckedIsWritten, NoJob
<1>5. WrittenInOrder
  <2>1. SubSeq(accepted, 1, Received) = <<>>
    BY <1>2, SubSeqEmpty
  <2>2. <<Meta>> \in Seq(Lines)
    BY DEF Lines
  <2>3. (<<>> \o <<Meta>>) \o <<>> = <<Meta>> \o <<>>
    BY <2>2, ConcatEmptySeq
  <2>4. QED
    BY <2>1, <2>3 DEF WrittenInOrder, MetaOwed, Init
<1>6. QED
  BY <1>1, <1>3, <1>4, <1>5 DEF WriterInv, FileInv

-----------------------------------------------------------------------------
(* What clients do.                                                         *)

\* A command sent with the items accepted next keeps the channel in order.
LEMMA SendKeepsOrder ==
    ASSUME TypeOK, ChannelInOrder, NEW c \in Clients, NEW op \in Barriers \cup {"add"},
           NEW items \in Seq(Items), op # "add" => items = <<>>,
           Send(c, op, items), accepted' = accepted \o items
    PROVE  /\ accepted' \in Seq(Items) /\ channel' \in Seq(Commands)
           /\ Len(channel') <= ChannelCap
           /\ ChannelInOrder' /\ Received' = Received
           /\ SubSeq(accepted, 1, Received)' = SubSeq(accepted, 1, Received)
<1> DEFINE n == Len(accepted)
           k == Len(channel)
           cmd == [op |-> op, client |-> c, items |-> items, mark |-> n]
<1>1. /\ accepted \in Seq(Items) /\ channel \in Seq(Commands)
      /\ n \in Nat /\ k \in Nat /\ Len(items) \in Nat
  BY LenProperties DEF TypeOK
<1>2. accepted' \in Seq(Items) /\ Len(accepted') = n + Len(items)
  BY <1>1, ConcatProperties
<1>3. cmd \in Commands
  BY <1>1 DEF Commands
<1>4. k < ChannelCap /\ channel' = Append(channel, cmd)
  BY DEF Send
<1>5. /\ channel' \in Seq(Commands) /\ Len(channel') = k + 1 /\ channel' # <<>>
      /\ \A i \in 1 .. k : channel'[i] = channel[i]
      /\ channel'[k + 1] = cmd
  BY <1>1, <1>3, <1>4, AppendProperties
<1>6. Len(channel') <= ChannelCap
  BY <1>1, <1>4, <1>5, BoundsAssumption
<1>7. Received' = Received
  <2>1. Received' = Head(channel').mark
    BY <1>5 DEF Received
  <2>2. Head(channel') = IF channel = <<>> THEN cmd ELSE Head(channel)
    BY <1>1, <1>4, HeadTailAppend
  <2>3. QED
    BY <2>1, <2>2 DEF Received
<1>8. \A a \in 1 .. n + 1, b \in 0 .. n : SubSeq(accepted', a, b) = SubSeq(accepted, a, b)
  BY <1>1, PrefixOfConcat
<1>9. SubSeq(accepted, 1, Received)' = SubSeq(accepted, 1, Received)
  <2>1. Received \in 0 .. n /\ 1 \in 1 .. n + 1
    BY <1>1, ReceivedBounds
  <2>2. QED
    BY <2>1, <1>7, <1>8
<1>10. ChannelInOrder'
  <2> SUFFICES ASSUME NEW i \in 1 .. Len(channel')
               PROVE  /\ channel'[i].mark + Len(channel'[i].items) = NextMark(i)'
                      /\ NextMark(i)' <= Len(accepted')
                      /\ channel'[i].items = SubSeq(accepted', channel'[i].mark + 1, NextMark(i)')
                      /\ channel'[i].op # "add" => channel'[i].items = <<>>
    BY DEF ChannelInOrder
  <2>1. CASE i = k + 1
    <3>1. channel'[i] = cmd /\ NextMark(i)' = n + Len(items)
      BY <1>2, <1>5, <2>1 DEF NextMark
    <3>2. SubSeq(accepted', n + 1, n + Len(items)) = items
      <4>1. CASE items = <<>>
        BY <4>1, <1>1, SubSeqEmpty
      <4>2. CASE items # <<>>
        <5>1. Len(items) \in Nat \ {0}
          BY <4>2, EmptySeq
        <5>2. SubSeq(accepted \o items, n + 1, n + Len(items))
                = SubSeq(items, (n + 1) - n, (n + Len(items)) - n)
          BY <5>1, <1>1, SubSeqOfConcat2
        <5>3. (n + 1) - n = 1 /\ (n + Len(items)) - n = Len(items)
          BY <1>1
        <5>4. QED
          BY <5>2, <5>3, SubSeqFull
      <4>3. QED
        BY <4>1, <4>2
    <3>3. QED
      BY <1>1, <1>2, <3>1, <3>2
  <2>2. CASE i \in 1 .. k
    <3>1. channel'[i] = channel[i] /\ channel[i] \in Commands
      BY <1>1, <1>5, <2>2, ElementOfSeq
    <3>2. NextMark(i)' = NextMark(i)
      <4>1. CASE i = k
        BY <4>1, <1>1, <1>5 DEF NextMark
      <4>2. CASE i # k
        <5>1. i + 1 \in 1 .. k /\ i # Len(channel')
          BY <4>2, <2>2, <1>1, <1>5
        <5>2. QED
          BY <5>1, <4>2, <1>5 DEF NextMark
      <4>3. QED
        BY <4>1, <4>2
    <3>3. /\ channel[i].mark + Len(channel[i].items) = NextMark(i)
          /\ NextMark(i) <= n
          /\ channel[i].items = SubSeq(accepted, channel[i].mark + 1, NextMark(i))
          /\ channel[i].op # "add" => channel[i].items = <<>>
      BY <2>2 DEF ChannelInOrder
    <3>4. channel[i].mark \in Nat /\ Len(channel[i].items) \in Nat
      BY <3>1, LenProperties DEF Commands
    <3>5. channel[i].mark + 1 \in 1 .. n + 1 /\ NextMark(i) \in 0 .. n
      <4>1. ASSUME NEW m \in Nat, NEW l \in Nat, NEW x, NEW z \in Nat, m + l = x, x <= z
            PROVE  m + 1 \in 1 .. z + 1 /\ x \in 0 .. z
        BY <4>1
      <4>2. QED
        BY <3>3, <3>4, <1>1, <4>1
    <3>6. SubSeq(accepted', channel[i].mark + 1, NextMark(i))
            = SubSeq(accepted, channel[i].mark + 1, NextMark(i))
      BY <1>8, <3>5
    <3>7. NextMark(i)' <= Len(accepted')
      BY <1>1, <1>2, <3>2, <3>5
    <3>8. QED
      BY <3>1, <3>2, <3>3, <3>6, <3>7
  <2>3. i = k + 1 \/ i \in 1 .. k
    BY <1>1, <1>5
  <2>4. QED
    BY <2>1, <2>2, <2>3
<1>11. QED
  BY <1>2, <1>5, <1>6, <1>7, <1>9, <1>10

\* A client's step changes neither the file nor what the writer holds.
LEMMA ClientStep ==
    ASSUME WriterInv, NEW c \in Clients, NEW op \in Barriers \cup {"add"},
           NEW items \in Seq(Items), op # "add" => items = <<>>,
           Send(c, op, items), accepted' = accepted \o items, waiting' \subseteq Clients,
           UNCHANGED <<file, writer, metaLeft, pending, job, durable, resumes>>
    PROVE  WriterInv'
<1>1. /\ accepted' \in Seq(Items) /\ channel' \in Seq(Commands)
      /\ Len(channel') <= ChannelCap
      /\ ChannelInOrder' /\ Received' = Received
      /\ SubSeq(accepted, 1, Received)' = SubSeq(accepted, 1, Received)
  BY SendKeepsOrder DEF WriterInv, FileInv
<1>2. TypeOK'
  BY <1>1 DEF WriterInv, TypeOK, file
<1>3. FileFollowsJob' /\ MarkReceived' /\ AckedIsWritten'
  BY <1>1 DEF WriterInv, FileInv, FileFollowsJob, MarkReceived, AckedIsWritten, file
<1>4. WrittenInOrder'
  <2>1. MetaOwed' = MetaOwed
    BY DEF MetaOwed
  <2>2. QED
    BY <1>1, <2>1 DEF WriterInv, FileInv, WrittenInOrder, file
<1>5. QED
  BY <1>1, <1>2, <1>3, <1>4 DEF WriterInv, FileInv

\* A client queues items.
LEMMA RecordStep ==
    ASSUME WriterInv, NEW c \in Clients, NEW items \in Batches, Record(c, items)
    PROVE  WriterInv'
<1>1. items \in Seq(Items)
  BY BatchesAssumption
<1>2. QED
  BY <1>1, ClientStep DEF Record, WriterInv, TypeOK

\* A client queues a persist, flush or shutdown.
LEMMA BarrierStep ==
    ASSUME WriterInv, NEW c \in Clients, NEW op \in Barriers, Barrier(c, op)
    PROVE  WriterInv'
<1>1. accepted' = accepted \o <<>> /\ <<>> \in Seq(Items)
  BY ConcatEmptySeq, EmptySeq DEF Barrier, WriterInv, TypeOK
<1>2. waiting' \subseteq Clients
  BY DEF Barrier, WriterInv, TypeOK
<1>3. QED
  BY <1>1, <1>2, ClientStep DEF Barrier

-----------------------------------------------------------------------------
(* What the writer task does with the file.                                 *)

\* An answer frees the writer task; only an Ok to a barrier moves durable.
LEMMA ReplyEffect ==
    ASSUME TypeOK, NEW op, NEW c, NEW mark \in Nat, NEW ok, Reply(op, c, mark, ok)
    PROVE  /\ job' \in [at : {"recv", "open", "meta", "items", "stopped"},
                        op : Barriers \cup {"add"}, client : Clients, mark : Nat,
                        attempt : {1, 2}]
           /\ job'.at \in {"recv", "stopped"}
           /\ waiting' \subseteq Clients /\ durable' \in Nat
           /\ durable' = durable \/ (ok /\ op # "add" /\ durable' = mark /\ mark > durable)
<1>1. \E at \in {"recv", "stopped"} : job' = [NoJob EXCEPT !.at = at]
  BY DEF Reply
<1>2. \A at \in {"recv", "stopped"} :
        LET j == [NoJob EXCEPT !.at = at]
        IN  /\ j.at = at
            /\ j \in [at : {"recv", "open", "meta", "items", "stopped"},
                      op : Barriers \cup {"add"}, client : Clients, mark : Nat,
                      attempt : {1, 2}]
  BY NoJobType DEF NoJob
<1>3. waiting' \subseteq waiting
  BY DEF Reply
<1>4. durable' = durable \/ (ok /\ op # "add" /\ durable' = mark /\ mark > durable)
  BY DEF Reply
<1>5. QED
  BY <1>1, <1>2, <1>3, <1>4 DEF TypeOK

\* The channel is in order as long as nobody touches it.
LEMMA ChannelUnchanged ==
    ASSUME ChannelInOrder, UNCHANGED <<channel, accepted>>
    PROVE  /\ ChannelInOrder' /\ Received' = Received
           /\ SubSeq(accepted, 1, Received)' = SubSeq(accepted, 1, Received)
BY DEF ChannelInOrder, NextMark, Received

\* enter_recovery_mode never turns a recorder back into a deferred one.
LEMMA FailStep ==
    ASSUME WriterInv, job.at \in {"open", "meta", "items"}, torn' \in BOOLEAN, Fail,
           UNCHANGED <<lines, glued, metaLeft, pending, channel, accepted, resumes>>
    PROVE  WriterInv'
<1>1. /\ ChannelInOrder' /\ Received' = Received
      /\ SubSeq(accepted, 1, Received)' = SubSeq(accepted, 1, Received)
  BY ChannelUnchanged DEF WriterInv, FileInv
<1>2. /\ writer' \in Writers
      /\ writer' = "deferred" => writer = "deferred"
  BY DEF Fail, WriterInv, TypeOK, Writers
<1>3. /\ job' \in [at : {"recv", "open", "meta", "items", "stopped"},
                   op : Barriers \cup {"add"}, client : Clients, mark : Nat,
                   attempt : {1, 2}]
      /\ job'.at \notin {"meta", "items"}
      /\ job'.at = "open" => job'.mark = job.mark
      /\ waiting' \subseteq Clients /\ durable' = durable
  <2>1. CASE job.attempt = 1 /\ job' = [job EXCEPT !.at = "open", !.attempt = 2]
             /\ UNCHANGED <<waiting, durable>>
    BY <2>1 DEF WriterInv, TypeOK
  <2>2. CASE Reply(job.op, job.client, job.mark, FALSE)
    <3>1. job.mark \in Nat
      BY DEF WriterInv, TypeOK
    <3>2. QED
      BY <2>2, <3>1, ReplyEffect DEF WriterInv
  <2>3. QED
    BY <2>1, <2>2 DEF Fail
<1>4. TypeOK'
  BY <1>2, <1>3 DEF WriterInv, TypeOK
<1>5. FileFollowsJob' /\ AckedIsWritten'
  BY <1>2, <1>3 DEF WriterInv, FileInv, FileFollowsJob, AckedIsWritten
<1>6. MarkReceived'
  BY <1>1, <1>3 DEF WriterInv, FileInv, MarkReceived
<1>7. WrittenInOrder'
  <2>1. MetaOwed' = MetaOwed
    BY DEF MetaOwed
  <2>2. QED
    BY <1>1, <2>1 DEF WriterInv, FileInv, WrittenInOrder
<1>8. QED
  BY <1>1, <1>4, <1>5, <1>6, <1>7 DEF WriterInv, FileInv

\* The file cannot be opened.
LEMMA OpenFailsStep == ASSUME WriterInv, OpenFails PROVE WriterInv'
<1>1. torn' \in BOOLEAN
  BY DEF OpenFails, file, WriterInv, TypeOK
<1>2. QED
  BY <1>1, FailStep DEF OpenFails, file

\* A write fails, perhaps halfway through a line.
LEMMA WriteFailsStep == ASSUME WriterInv, WriteFails PROVE WriterInv'
<1>1. torn' \in BOOLEAN
  BY DEF WriteFails, WriterInv, TypeOK
<1>2. QED
  BY <1>1, FailStep DEF WriteFails

\* The file is opened.
LEMMA OpenStep == ASSUME WriterInv, Open PROVE WriterInv'
<1>1. /\ ChannelInOrder' /\ Received' = Received
      /\ SubSeq(accepted, 1, Received)' = SubSeq(accepted, 1, Received)
  BY ChannelUnchanged DEF WriterInv, FileInv, Open
<1>2. job' = [job EXCEPT !.at = "meta"] /\ UNCHANGED <<waiting, durable, file, metaLeft, pending>>
  BY DEF Open, Goto
<1>3. TypeOK'
  BY <1>2 DEF WriterInv, TypeOK, Open, Writers, file
<1>4. FileFollowsJob' /\ AckedIsWritten' /\ MarkReceived'
  BY <1>1, <1>2 DEF WriterInv, FileInv, TypeOK, FileFollowsJob, AckedIsWritten, MarkReceived, Open, file
<1>5. WrittenInOrder'
  <2>1. MetaOwed' = MetaOwed
    BY <1>2 DEF MetaOwed
  <2>2. QED
    BY <1>1, <1>2, <2>1 DEF WriterInv, FileInv, WrittenInOrder, file
<1>6. QED
  BY <1>1, <1>3, <1>4, <1>5 DEF WriterInv, FileInv

\* A complete line makes the file longer by one, whatever it ended with.
LEMMA AppendedLine ==
    ASSUME TypeOK, NEW x \in Lines, AppendLine(x)
    PROVE  /\ lines' = Append(lines, x) /\ lines' \in Seq(Lines)
           /\ Len(lines') = Len(lines) + 1 /\ Len(lines) \in Nat
           /\ glued' \subseteq 1 .. Len(lines') /\ torn' \in BOOLEAN
<1>1. lines \in Seq(Lines) /\ glued \subseteq 1 .. Len(lines)
  BY DEF TypeOK, Lines
<1>2. Len(lines) \in Nat /\ lines' = Append(lines, x)
  BY <1>1, LenProperties DEF AppendLine
<1>3. lines' \in Seq(Lines) /\ Len(lines') = Len(lines) + 1
  BY <1>1, <1>2, AppendProperties
<1>4. glued' \subseteq glued \cup {Len(lines) + 1} /\ torn' \in BOOLEAN
  BY DEF AppendLine
<1>5. QED
  BY <1>1, <1>2, <1>3, <1>4

\* The SessionMeta line is written.
LEMMA WriteMetaStep == ASSUME WriterInv, WriteMeta PROVE WriterInv'
<1>1. /\ ChannelInOrder' /\ Received' = Received
      /\ SubSeq(accepted, 1, Received)' = SubSeq(accepted, 1, Received)
  BY ChannelUnchanged DEF WriterInv, FileInv, WriteMeta
<1>2. /\ job.at = "meta" /\ job' = [job EXCEPT !.at = "items"] /\ metaLeft' = FALSE
      /\ UNCHANGED <<waiting, durable, writer, pending, channel, accepted, resumes>>
  BY DEF WriteMeta, Goto
<1>3. /\ lines' \in Seq(Lines) /\ Len(lines') \in Nat /\ Len(lines) \in Nat
      /\ Len(lines) <= Len(lines')
      /\ glued' \subseteq 1 .. Len(lines') /\ torn' \in BOOLEAN
      /\ lines' = lines \o MetaOwed
  <2>1. lines \in Seq(Lines) /\ Len(lines) \in Nat
    BY FileLength
  <2>2. CASE metaLeft
    <3>1. AppendLine(Meta) /\ MetaOwed = <<Meta>> /\ Meta \in Lines
      BY <2>2 DEF WriteMeta, MetaOwed, Lines
    <3>2. lines \o <<Meta>> = Append(lines, Meta)
      BY <2>1, <3>1, AppendIsConcat
    <3>3. QED
      BY <2>1, <3>1, <3>2, AppendedLine DEF WriterInv
  <2>3. CASE ~metaLeft
    <3>1. UNCHANGED <<lines, glued, torn>> /\ MetaOwed = <<>>
      BY <2>3 DEF WriteMeta, MetaOwed, file
    <3>2. lines \o <<>> = lines
      BY <2>1, ConcatEmptySeq
    <3>3. QED
      BY <2>1, <3>1, <3>2 DEF WriterInv, TypeOK
  <2>4. QED
    BY <2>2, <2>3
<1>4. TypeOK'
  BY <1>2, <1>3 DEF WriterInv, TypeOK, Lines
<1>5. FileFollowsJob'
  <2>1. writer' # "deferred"
    BY <1>2 DEF WriterInv, FileInv, FileFollowsJob
  <2>2. QED
    BY <1>2, <2>1 DEF FileFollowsJob
<1>6. MarkReceived'
  BY <1>1, <1>2 DEF WriterInv, FileInv, TypeOK, MarkReceived
<1>7. AckedIsWritten'
  BY <1>2, <1>3 DEF WriterInv, FileInv, TypeOK, AckedIsWritten
<1>8. WrittenInOrder'
  <2>1. MetaOwed' = <<>>
    BY <1>2, Zenon DEF MetaOwed
  <2>2. lines' \o MetaOwed' = lines \o MetaOwed
    BY <1>3, <2>1, ConcatEmptySeq
  <2>3. QED
    BY <1>1, <1>2, <2>2 DEF WriterInv, FileInv, WrittenInOrder
<1>9. QED
  BY <1>1, <1>4, <1>5, <1>6, <1>7, <1>8 DEF WriterInv, FileInv

\* One item is written.
LEMMA WriteItemStep == ASSUME WriterInv, WriteItem PROVE WriterInv'
<1>1. /\ ChannelInOrder' /\ Received' = Received
      /\ SubSeq(accepted, 1, Received)' = SubSeq(accepted, 1, Received)
  BY ChannelUnchanged DEF WriterInv, FileInv, WriteItem
<1>2. /\ job.at = "items" /\ pending # <<>> /\ pending' = Tail(pending)
      /\ UNCHANGED <<writer, metaLeft, channel, job, waiting, accepted, durable, resumes>>
  BY DEF WriteItem
<1>3. ~metaLeft /\ MetaOwed = <<>> /\ MetaOwed' = <<>>
  <2>1. ~metaLeft
    BY <1>2 DEF WriterInv, FileInv, FileFollowsJob
  <2>2. QED
    BY <2>1, <1>2, Zenon DEF MetaOwed
<1>4. lines \in Seq(Lines) /\ pending \in Seq(Lines) /\ pending \in Seq(Items)
  BY FileLength DEF WriterInv, TypeOK
<1>5. Head(pending) \in Lines /\ Tail(pending) \in Seq(Items)
  BY <1>2, <1>4, HeadTailProperties
<1>6. /\ lines' = Append(lines, Head(pending)) /\ lines' \in Seq(Lines)
      /\ Len(lines') = Len(lines) + 1 /\ Len(lines) \in Nat
      /\ glued' \subseteq 1 .. Len(lines') /\ torn' \in BOOLEAN
  BY <1>5, AppendedLine DEF WriteItem, WriterInv
<1>7. TypeOK'
  BY <1>2, <1>5, <1>6 DEF WriterInv, TypeOK, Lines
<1>8. FileFollowsJob'
  BY <1>2, <1>3 DEF WriterInv, FileInv, FileFollowsJob
<1>9. MarkReceived' /\ AckedIsWritten'
  BY <1>1, <1>2, <1>6 DEF WriterInv, FileInv, TypeOK, MarkReceived, AckedIsWritten
<1>10. WrittenInOrder'
  <2>1. lines \o MetaOwed = lines /\ lines' \o MetaOwed' = lines'
    BY <1>3, <1>4, <1>6, ConcatEmptySeq
  <2>2. lines' \o pending' = lines \o pending
    BY <1>2, <1>4, <1>6, MoveHead
  <2>3. QED
    BY <1>1, <2>1, <2>2 DEF WriterInv, FileInv, WrittenInOrder
<1>11. QED
  BY <1>1, <1>7, <1>8, <1>9, <1>10 DEF WriterInv, FileInv

\* Everything received is in the file when the acknowledgement leaves.
LEMMA FinishStep == ASSUME WriterInv, Finish PROVE WriterInv'
<1>1. /\ ChannelInOrder' /\ Received' = Received
      /\ SubSeq(accepted, 1, Received)' = SubSeq(accepted, 1, Received)
  BY ChannelUnchanged DEF WriterInv, FileInv, Finish
<1>2. /\ job.at = "items" /\ pending = <<>> /\ job.mark \in Nat
      /\ UNCHANGED <<lines, glued, torn, writer, metaLeft, pending, channel, accepted, resumes>>
  BY DEF Finish, file, WriterInv, TypeOK
<1>3. /\ job' \in [at : {"recv", "open", "meta", "items", "stopped"},
                   op : Barriers \cup {"add"}, client : Clients, mark : Nat,
                   attempt : {1, 2}]
      /\ job'.at \in {"recv", "stopped"}
      /\ waiting' \subseteq Clients /\ durable' \in Nat
      /\ durable' = durable \/ durable' = job.mark
  BY <1>2, ReplyEffect DEF Finish, WriterInv
<1>4. TypeOK'
  BY <1>2, <1>3 DEF WriterInv, TypeOK
<1>5. FileFollowsJob' /\ MarkReceived'
  BY <1>2, <1>3 DEF WriterInv, FileInv, FileFollowsJob, MarkReceived
<1>6. AckedIsWritten'
  <2>1. ~metaLeft /\ Len(pending) = 0
    BY <1>2 DEF WriterInv, FileInv, FileFollowsJob
  <2>2. Len(lines) = 1 + Received
    BY <2>1, FileLength, ReceivedBounds DEF WriterInv, FileInv
  <2>3. job.mark <= Received /\ Received \in Nat
    BY <1>2, ReceivedBounds DEF WriterInv, FileInv, MarkReceived
  <2>4. QED
    BY <1>2, <1>3, <2>2, <2>3 DEF WriterInv, FileInv, AckedIsWritten
<1>7. WrittenInOrder'
  <2>1. MetaOwed' = MetaOwed
    BY <1>2 DEF MetaOwed
  <2>2. QED
    BY <1>1, <1>2, <2>1 DEF WriterInv, FileInv, WrittenInOrder
<1>8. QED
  BY <1>1, <1>4, <1>5, <1>6, <1>7 DEF WriterInv, FileInv

-----------------------------------------------------------------------------
(* Receiving a command, and resuming from the file.                         *)

\* The command received carries exactly the accepted items that come next.
LEMMA ReceiveInOrder ==
    ASSUME TypeOK, ChannelInOrder, channel # <<>>, channel' = Tail(channel),
           accepted' = accepted
    PROVE  /\ Head(channel) \in Commands /\ Head(channel).mark = Received
           /\ Head(channel).items \in Seq(Items)
           /\ Head(channel).op # "add" => Head(channel).items = <<>>
           /\ channel' \in Seq(Commands) /\ Len(channel') <= ChannelCap
           /\ ChannelInOrder' /\ Received' \in Received .. Len(accepted)
           /\ SubSeq(accepted, 1, Received) \o Head(channel).items
                = SubSeq(accepted, 1, Received')
<1> DEFINE k == Len(channel)
           n == Len(accepted)
<1>1. /\ accepted \in Seq(Items) /\ channel \in Seq(Commands) /\ n \in Nat
      /\ k \in Nat \ {0} /\ k <= ChannelCap
  BY EmptySeq, LenProperties DEF TypeOK
<1>2. Head(channel) = channel[1] /\ \A i \in 1 .. k : channel[i] \in Commands
  BY <1>1, ElementOfSeq
<1>3. /\ channel' \in Seq(Commands) /\ Len(channel') = k - 1
      /\ \A i \in 1 .. k - 1 : channel'[i] = channel[i + 1]
  BY <1>1, HeadTailProperties
<1>4. /\ channel[1].mark + Len(channel[1].items) = NextMark(1)
      /\ NextMark(1) <= n
      /\ channel[1].items = SubSeq(accepted, channel[1].mark + 1, NextMark(1))
      /\ channel[1].op # "add" => channel[1].items = <<>>
  BY <1>1 DEF ChannelInOrder
<1>5. /\ channel[1] \in Commands /\ channel[1].mark \in Nat
      /\ channel[1].items \in Seq(Items) /\ Len(channel[1].items) \in Nat
  BY <1>1, <1>2, LenProperties DEF Commands
<1>6. channel[1].mark = Received
  BY <1>2 DEF Received
<1>7. Received' = NextMark(1)
  <2>1. CASE k = 1
    <3>1. channel' = <<>>
      BY <2>1, <1>3, EmptySeq
    <3>2. QED
      BY <2>1, <3>1 DEF Received, NextMark
  <2>2. CASE k # 1
    <3>1. Len(channel') \in Nat \ {0} /\ 1 \in 1 .. k - 1
      BY <2>2, <1>1, <1>3
    <3>2. channel' # <<>>
      BY <3>1
    <3>3. Head(channel') = channel'[1]
      BY <3>2, <1>3
    <3>4. channel'[1] = channel[1 + 1]
      BY <3>1, <1>3
    <3>5. QED
      BY <2>2, <3>2, <3>3, <3>4 DEF Received, NextMark
  <2>3. QED
    BY <2>1, <2>2
<1>8. Received \in 0 .. n /\ Received' \in Received .. n
  <2>1. ASSUME NEW m \in Nat, NEW l \in Nat, NEW x, NEW z \in Nat, m + l = x, x <= z
        PROVE  m \in 0 .. z /\ x \in m .. z
    BY <2>1
  <2>2. channel[1].mark \in 0 .. n /\ NextMark(1) \in channel[1].mark .. n
    BY <1>1, <1>4, <1>5, <2>1
  <2>3. QED
    BY <2>2, <1>6, <1>7
<1>9. SubSeq(accepted, 1, Received) \o Head(channel).items = SubSeq(accepted, 1, Received')
  <2>1. SubSeq(accepted, 1, Received) \o SubSeq(accepted, Received + 1, Received')
          = SubSeq(accepted, 1, Received')
    BY <1>1, <1>8, AdjacentPieces
  <2>2. QED
    BY <2>1, <1>2, <1>4, <1>6, <1>7
<1>10. ChannelInOrder'
  <2> SUFFICES ASSUME NEW i \in 1 .. Len(channel')
               PROVE  /\ channel'[i].mark + Len(channel'[i].items) = NextMark(i)'
                      /\ NextMark(i)' <= Len(accepted')
                      /\ channel'[i].items = SubSeq(accepted', channel'[i].mark + 1, NextMark(i)')
                      /\ channel'[i].op # "add" => channel'[i].items = <<>>
    BY DEF ChannelInOrder
  <2>0. i \in 1 .. k - 1 /\ i + 1 \in 1 .. k
    BY <1>1, <1>3
  <2>1. i \in 1 .. k - 1 /\ i + 1 \in 1 .. k /\ channel'[i] = channel[i + 1]
    BY <2>0, <1>3
  <2>2. NextMark(i)' = NextMark(i + 1)
    <3>1. CASE i = k - 1
      <4>1. i = Len(channel') /\ i + 1 = k
        BY <3>1, <1>1, <1>3
      <4>2. QED
        BY <4>1 DEF NextMark
    <3>2. CASE i # k - 1
      <4>1. i + 1 \in 1 .. k - 1 /\ i # Len(channel') /\ i + 1 # k
        <5>1. ASSUME NEW l \in Nat \ {0}, NEW j \in 1 .. l - 1, j # l - 1
              PROVE  j + 1 \in 1 .. l - 1 /\ j + 1 # l
          BY <5>1
        <5>2. QED
          BY <3>2, <2>0, <1>1, <1>3, <5>1
      <4>2. channel'[i + 1] = channel[(i + 1) + 1]
        BY <4>1, <1>3
      <4>3. QED
        BY <4>1, <4>2 DEF NextMark
    <3>3. QED
      BY <3>1, <3>2
  <2>3. /\ channel[i + 1].mark + Len(channel[i + 1].items) = NextMark(i + 1)
        /\ NextMark(i + 1) <= n
        /\ channel[i + 1].items = SubSeq(accepted, channel[i + 1].mark + 1, NextMark(i + 1))
        /\ channel[i + 1].op # "add" => channel[i + 1].items = <<>>
    BY <2>1 DEF ChannelInOrder
  <2>4. QED
    BY <2>1, <2>2, <2>3
<1>11. Len(channel') <= ChannelCap
  BY <1>1, <1>3, BoundsAssumption
<1>12. QED
  BY <1>2, <1>3, <1>4, <1>5, <1>6, <1>8, <1>9, <1>10, <1>11

\* A barrier that is answered without a write acknowledges nothing: nothing was
\* recorded before it.
LEMMA ReceiveStep == ASSUME WriterInv, Receive PROVE WriterInv'
<1> DEFINE cmd == Head(channel)
<1>1. /\ job.at = "recv" /\ channel # <<>> /\ channel' = Tail(channel)
      /\ pending' = pending \o cmd.items
      /\ UNCHANGED <<lines, glued, torn, writer, metaLeft, accepted, resumes>>
  BY DEF Receive, file
<1>2. /\ cmd \in Commands /\ cmd.mark = Received /\ cmd.items \in Seq(Items)
      /\ cmd.op # "add" => cmd.items = <<>>
      /\ channel' \in Seq(Commands) /\ Len(channel') <= ChannelCap
      /\ ChannelInOrder' /\ Received' \in Received .. Len(accepted)
      /\ SubSeq(accepted, 1, Received) \o cmd.items = SubSeq(accepted, 1, Received')
  BY <1>1, ReceiveInOrder DEF WriterInv, FileInv
<1>3. /\ cmd.mark \in Nat /\ cmd.op \in Barriers \cup {"add"} /\ cmd.client \in Clients
      /\ Len(accepted) \in Nat /\ pending' \in Seq(Items)
  BY <1>1, <1>2, LenProperties, ConcatProperties DEF Commands, WriterInv, TypeOK
<1>4. /\ job' \in [at : {"recv", "open", "meta", "items", "stopped"},
                   op : Barriers \cup {"add"}, client : Clients, mark : Nat,
                   attempt : {1, 2}]
      /\ job'.at \notin {"meta", "items"}
      /\ job'.at = "open" => job'.mark = cmd.mark
      /\ waiting' \subseteq Clients /\ durable' = durable
  <2>1. CASE NothingToWrite(cmd.op)
    <3>1. Reply(cmd.op, cmd.client, cmd.mark, TRUE)
      BY <2>1 DEF Receive
    <3>2. /\ job' \in [at : {"recv", "open", "meta", "items", "stopped"},
                       op : Barriers \cup {"add"}, client : Clients, mark : Nat,
                       attempt : {1, 2}]
          /\ job'.at \in {"recv", "stopped"}
          /\ waiting' \subseteq Clients
          /\ durable' = durable \/ (cmd.op # "add" /\ cmd.mark > durable)
      BY <1>3, <3>1, ReplyEffect DEF WriterInv
    <3>3. ~(cmd.op # "add" /\ cmd.mark > durable)
      <4>1. SUFFICES ASSUME cmd.op # "add" PROVE ~(cmd.mark > durable)
        OBVIOUS
      <4>2. lines = <<>> /\ metaLeft /\ pending = <<>>
        BY <2>1, <4>1 DEF NothingToWrite, WriterInv, FileInv, FileFollowsJob
      <4>3. Len(lines) = 0 /\ Len(pending) = 0
        BY <4>2
      <4>4. Received = 0
        BY <4>2, <4>3, FileLength, <1>2, <1>3
      <4>5. QED
        BY <4>4, <1>2 DEF WriterInv, TypeOK
    <3>4. QED
      BY <3>2, <3>3
  <2>2. CASE ~NothingToWrite(cmd.op)
    <3>1. /\ job' = [at |-> "open", op |-> cmd.op, client |-> cmd.client,
                     mark |-> cmd.mark, attempt |-> 1]
          /\ UNCHANGED <<waiting, durable>>
      BY <2>2 DEF Receive
    <3>2. QED
      BY <1>3, <3>1 DEF WriterInv, TypeOK
  <2>3. QED
    BY <2>1, <2>2
<1>5. TypeOK'
  BY <1>1, <1>2, <1>3, <1>4 DEF WriterInv, TypeOK
<1>6. FileFollowsJob' /\ AckedIsWritten'
  BY <1>1, <1>4 DEF WriterInv, FileInv, FileFollowsJob, AckedIsWritten
<1>7. MarkReceived'
  BY <1>2, <1>3, <1>4 DEF MarkReceived
<1>8. WrittenInOrder'
  <2>1. MetaOwed' = MetaOwed
    BY <1>1 DEF MetaOwed
  <2>2. /\ lines \in Seq(Lines) /\ MetaOwed \in Seq(Lines) /\ pending \in Seq(Lines)
        /\ cmd.items \in Seq(Lines) /\ SubSeq(accepted, 1, Received) \in Seq(Lines)
        /\ <<Meta>> \in Seq(Lines)
    <3>1. \A q \in Seq(Items) : q \in Seq(Lines)
      BY SeqMonotonic DEF Lines
    <3>2. SubSeq(accepted, 1, Received) \in Seq(Items)
      BY ReceivedBounds DEF WriterInv, FileInv
    <3>3. <<Meta>> \in Seq(Lines)
      BY DEF Lines
    <3>4. QED
      BY <1>2, <3>1, <3>2, <3>3, FileLength
  <2>3. lines \o MetaOwed \in Seq(Lines)
    BY <2>2, ConcatProperties
  <2>4. (lines \o MetaOwed) \o (pending \o cmd.items)
          = ((lines \o MetaOwed) \o pending) \o cmd.items
    <3> DEFINE a == lines \o MetaOwed
               c == cmd.items
    <3>1. a \in Seq(Lines) /\ pending \in Seq(Lines) /\ c \in Seq(Lines)
      BY <2>2, <2>3
    <3> HIDE DEF a, c
    <3>2. a \o (pending \o c) = (a \o pending) \o c
      BY <3>1, LinesRegroup
    <3> QED  BY <3>2 DEF a, c
  <2>5. (<<Meta>> \o SubSeq(accepted, 1, Received)) \o cmd.items
          = <<Meta>> \o (SubSeq(accepted, 1, Received) \o cmd.items)
    <3> DEFINE m == <<Meta>>
               b == SubSeq(accepted, 1, Received)
               c == cmd.items
    <3>1. m \in Seq(Lines) /\ b \in Seq(Lines) /\ c \in Seq(Lines)
      BY <2>2
    <3> HIDE DEF m, b, c
    <3>2. (m \o b) \o c = m \o (b \o c)
      BY <3>1, LinesRegroup
    <3> QED  BY <3>2 DEF m, b, c
  <2>6. (lines \o MetaOwed) \o pending = <<Meta>> \o SubSeq(accepted, 1, Received)
    BY DEF WriterInv, FileInv, WrittenInOrder
  <2>7. QED
    BY <1>1, <1>2, <2>1, <2>4, <2>5, <2>6 DEF WrittenInOrder
<1>9. QED
  BY <1>2, <1>5, <1>6, <1>7, <1>8 DEF WriterInv, FileInv

\* A file with a first line starts with the SessionMeta; items follow.
LEMMA FileShape ==
    ASSUME WriterInv, lines # <<>>
    PROVE  Tail(lines) \in Seq(Items) /\ lines = <<Meta>> \o Tail(lines)
<1> DEFINE got == SubSeq(accepted, 1, Received)
           rest == MetaOwed \o pending
<1>1. /\ lines \in Seq(Lines) /\ MetaOwed \in Seq(Lines) /\ pending \in Seq(Lines)
      /\ Len(lines) \in Nat \ {0}
  BY FileLength, EmptySeq
<1>2. got \in Seq(Items) /\ got \in Seq(Lines) /\ <<Meta>> \in Seq(Lines)
      /\ Len(got) \in Nat
  BY ReceivedBounds, SeqMonotonic, LenProperties DEF WriterInv, FileInv, Lines
<1>3. rest \in Seq(Lines) /\ Len(rest) \in Nat
  BY <1>1, ConcatProperties, LenProperties
<1>4. lines \o rest = <<Meta>> \o got
  <2>1. (lines \o MetaOwed) \o pending = lines \o rest
    BY <1>1, LinesRegroup
  <2>2. QED
    BY <2>1 DEF WriterInv, FileInv, WrittenInOrder
<1>5. Len(lines) + Len(rest) = 1 + Len(got)
  <2>1. Len(lines \o rest) = Len(lines) + Len(rest)
    BY <1>1, <1>3, ConcatProperties
  <2>2. Len(<<Meta>> \o got) = 1 + Len(got)
    BY <1>2, ConcatProperties
  <2>3. QED
    BY <1>4, <2>1, <2>2
<1>6. \A i \in 1 .. Len(lines) : lines[i] = (<<Meta>> \o got)[i]
  <2>1. \A i \in 1 .. Len(lines) : (lines \o rest)[i] = lines[i]
    BY <1>1, <1>3, ConcatProperties
  <2>2. QED
    BY <2>1, <1>4
<1>7. lines[1] = Meta /\ \A i \in 2 .. Len(lines) : lines[i] \in Items
  <2>1. (<<Meta>> \o got)[1] = Meta
    BY <1>2, ConcatProperties
  <2>2. \A i \in 2 .. Len(lines) : (<<Meta>> \o got)[i] = got[i - 1] /\ i - 1 \in 1 .. Len(got)
    BY <1>1, <1>2, <1>3, <1>5, ConcatProperties
  <2>3. \A i \in 1 .. Len(got) : got[i] \in Items
    BY <1>2, ElementOfSeq
  <2>4. 1 \in 1 .. Len(lines) /\ \A i \in 2 .. Len(lines) : i \in 1 .. Len(lines)
    BY <1>1
  <2>5. lines[1] = Meta
    BY <1>6, <2>1, <2>4
  <2>6. ASSUME NEW i \in 2 .. Len(lines) PROVE lines[i] \in Items
    BY <1>6, <2>2, <2>3, <2>4
  <2>7. QED
    BY <2>5, <2>6
<1>8. Tail(lines) \in Seq(Items)
  <2>1. Tail(lines) = SubSeq(lines, 2, Len(lines))
    BY <1>1, TailIsSubSeq
  <2>2. 2 \in Int /\ Len(lines) \in Int
    BY <1>1
  <2>3. SubSeq(lines, 2, Len(lines)) \in Seq(Items)
    BY <1>7, <2>2, SubSeqProperties
  <2>4. QED
    BY <2>1, <2>3
<1>9. lines = <<Meta>> \o Tail(lines)
  <2>1. lines = SubSeq(lines, 1, Len(lines))
    BY <1>1, SubSeqFull
  <2>2. SubSeq(lines, 1, Len(lines)) = <<lines[1]>> \o SubSeq(lines, 1 + 1, Len(lines))
    BY <1>1, SubSeqRecursiveFirst
  <2>3. Tail(lines) = SubSeq(lines, 2, Len(lines))
    BY <1>1, TailIsSubSeq
  <2>4. QED
    BY <1>7, <2>1, <2>2, <2>3
<1>10. QED
  BY <1>8, <1>9

\* A new recorder resumes from the file.
LEMMA ResumeStep == ASSUME WriterInv, Resume PROVE WriterInv'
<1>1. /\ lines # <<>> /\ writer' = "open" /\ metaLeft' = FALSE /\ pending' = <<>>
      /\ channel' = <<>> /\ job' = NoJob /\ waiting' = {} /\ accepted' = Tail(lines)
      /\ resumes' = resumes + 1 /\ resumes < MaxResumes
      /\ UNCHANGED <<lines, glued, torn, durable>>
  BY DEF Resume, file
<1>2. accepted' \in Seq(Items) /\ lines = <<Meta>> \o accepted'
  BY <1>1, FileShape
<1>3. TypeOK'
  <2>1. Len(channel') = 0 /\ 0 <= ChannelCap /\ channel' \in Seq(Commands)
        /\ pending' \in Seq(Items)
    BY <1>1, EmptySeq, BoundsAssumption
  <2>2. resumes' \in 0 .. MaxResumes
    BY <1>1, BoundsAssumption DEF WriterInv, TypeOK
  <2>3. QED
    BY <1>1, <1>2, <2>1, <2>2, NoJobType DEF WriterInv, TypeOK, Writers
<1>4. ChannelInOrder' /\ Received' = Len(accepted')
  <2>1. Len(channel') = 0
    BY <1>1
  <2>2. QED
    BY <1>1, <2>1 DEF ChannelInOrder, Received
<1>5. FileFollowsJob' /\ MarkReceived' /\ AckedIsWritten'
  BY <1>1 DEF FileFollowsJob, MarkReceived, NoJob, WriterInv, FileInv, AckedIsWritten
<1>6. WrittenInOrder'
  <2>1. MetaOwed' = <<>> /\ lines \in Seq(Lines)
    BY <1>1, FileLength, Zenon DEF MetaOwed
  <2>2. (lines' \o MetaOwed') \o pending' = lines
    BY <1>1, <2>1, ConcatEmptySeq
  <2>3. SubSeq(accepted', 1, Received') = accepted'
    BY <1>2, <1>4, SubSeqFull
  <2>4. QED
    BY <1>2, <2>2, <2>3 DEF WrittenInOrder
<1>7. QED
  BY <1>3, <1>4, <1>5, <1>6 DEF WriterInv, FileInv

-----------------------------------------------------------------------------
(* The recorder implements the append-only log.                             *)

\* The lines after the SessionMeta are the first accepted items.
LEMMA LinesAreAccepted ==
    ASSUME WriterInv, lines # <<>>
    PROVE  /\ Len(lines) \in 1 .. Len(accepted) + 1
           /\ \A i \in 1 .. Len(lines) - 1 : lines[i + 1] = accepted[i]
<1> DEFINE got == SubSeq(accepted, 1, Received)
           rest == MetaOwed \o pending
<1>1. /\ lines \in Seq(Lines) /\ MetaOwed \in Seq(Lines) /\ pending \in Seq(Lines)
      /\ Len(lines) \in Nat \ {0}
  BY FileLength, EmptySeq
<1>2. /\ got \in Seq(Items) /\ got \in Seq(Lines) /\ <<Meta>> \in Seq(Lines)
      /\ Len(got) = Received /\ Received \in 0 .. Len(accepted)
      /\ accepted \in Seq(Items) /\ Len(accepted) \in Nat
  BY ReceivedBounds, SeqMonotonic, LenProperties DEF WriterInv, FileInv, TypeOK, Lines
<1>3. rest \in Seq(Lines) /\ Len(rest) \in Nat
  BY <1>1, ConcatProperties, LenProperties
<1>4. lines \o rest = <<Meta>> \o got
  <2>1. (lines \o MetaOwed) \o pending = lines \o rest
    BY <1>1, LinesRegroup
  <2>2. QED
    BY <2>1 DEF WriterInv, FileInv, WrittenInOrder
<1>5. Len(lines) + Len(rest) = 1 + Received
  <2>1. Len(lines \o rest) = Len(lines) + Len(rest)
    BY <1>1, <1>3, ConcatProperties
  <2>2. Len(<<Meta>> \o got) = 1 + Len(got)
    BY <1>2, ConcatProperties
  <2>3. QED
    BY <1>2, <1>4, <2>1, <2>2
<1>6. Len(lines) \in 1 .. Len(accepted) + 1 /\ Len(lines) - 1 <= Received
  BY <1>1, <1>2, <1>3, <1>5
<1>7. ASSUME NEW i \in 1 .. Len(lines) - 1 PROVE lines[i + 1] = accepted[i]
  <2>1. i + 1 \in 1 .. Len(lines) /\ i \in 1 .. Received
    BY <1>1, <1>2, <1>6, <1>7
  <2>2. (lines \o rest)[i + 1] = lines[i + 1]
    BY <1>1, <1>3, <2>1, ConcatProperties
  <2>3. (<<Meta>> \o got)[i + 1] = got[i]
    BY <1>2, <2>1, ConcatProperties
  <2>4. got[i] = accepted[i]
    BY <1>2, <2>1, SubSeqProperties
  <2>5. QED
    BY <1>4, <2>2, <2>3, <2>4
<1>8. QED
  BY <1>6, <1>7

\* The items with a line are the first accepted ones, and a reader finds those
\* whose line does not follow a fragment.
LogIsPrefix ==
    /\ Written \in 0 .. Len(accepted) /\ Len(accepted) \in Nat
    /\ Len(lines) = IF lines = <<>> THEN 0 ELSE Written + 1
    /\ Logged = [n \in {k \in 1 .. Written : k + 1 \notin glued} |-> accepted[n]]
    /\ glued \subseteq 1 .. Len(lines)

\* It follows from the order of the file.
LEMMA LoggedPrefix == WriterInv => LogIsPrefix
<1> SUFFICES ASSUME WriterInv PROVE LogIsPrefix
  OBVIOUS
<1>1. accepted \in Seq(Items) /\ Len(accepted) \in Nat /\ glued \subseteq 1 .. Len(lines)
  BY LenProperties DEF WriterInv, TypeOK
<1>2. CASE lines = <<>>
  BY <1>1, <1>2 DEF LogIsPrefix, Written, Logged
<1>3. CASE lines # <<>>
  <2>1. /\ Len(lines) \in 1 .. Len(accepted) + 1
        /\ \A i \in 1 .. Len(lines) - 1 : lines[i + 1] = accepted[i]
    BY <1>3, LinesAreAccepted
  <2>2. Written = Len(lines) - 1
    BY <1>3 DEF Written
  <2>3. Written \in 0 .. Len(accepted) /\ Len(lines) = Written + 1
    BY <1>1, <2>1, <2>2
  <2>4. Logged = [n \in {k \in 1 .. Written : k + 1 \notin glued} |-> accepted[n]]
    BY <2>1, <2>2 DEF Logged
  <2>5. QED
    BY <1>1, <1>3, <2>3, <2>4 DEF LogIsPrefix
<1>4. QED
  BY <1>2, <1>3

\* The same, after a step.
LEMMA LoggedPrefixNext == WriterInv' => LogIsPrefix'
BY LoggedPrefix, PTL

\* A step that leaves the complete lines and the callers' items alone tears the
\* file, acknowledges, or is none of the log's.
LEMMA AnswerStep ==
    ASSUME WriterInv, WriterInv', UNCHANGED <<lines, glued, accepted>>,
           \/ torn' = torn /\ (durable' = durable \/ durable' > durable)
           \/ torn' = TRUE /\ durable' = durable
    PROVE  Log!Acknowledge \/ Log!WriteFails \/ UNCHANGED Log!vars
<1>1. Logged' = Logged /\ Written' = Written
  BY DEF Logged, Written
<1>2. CASE torn' = torn /\ durable' = durable
  BY <1>1, <1>2 DEF Log!vars
<1>3. CASE torn' = TRUE /\ durable' = durable
  BY <1>1, <1>3 DEF Log!WriteFails
<1>4. CASE torn' = torn /\ durable' > durable
  <2>1. durable \in Nat /\ durable' \in Nat /\ durable' > 0
    BY <1>4 DEF WriterInv, TypeOK
  <2>2. durable' < Len(lines)
    BY <2>1 DEF WriterInv, FileInv, AckedIsWritten
  <2>3. Len(lines) \in Nat /\ lines # <<>>
    BY <2>1, <2>2, FileLength
  <2>4. Written = Len(lines) - 1
    BY <2>3 DEF Written
  <2>5. durable' \in durable + 1 .. Written
    BY <1>4, <2>1, <2>2, <2>3, <2>4
  <2>6. QED
    BY <1>1, <1>4, <2>5 DEF Log!Acknowledge
<1>5. QED
  BY <1>2, <1>3, <1>4

\* A complete line is the SessionMeta of an empty log or the next item.
LEMMA LineStep ==
    ASSUME WriterInv, WriterInv', NEW x \in Lines, AppendLine(x),
           UNCHANGED <<accepted, durable>>
    PROVE  Log!WriteHead \/ Log!Write
<1>1. lines' = Append(lines, x) /\ Len(lines') = Len(lines) + 1 /\ Len(lines) \in Nat
  BY AppendedLine DEF WriterInv
<1>2. lines' # <<>> /\ torn' = FALSE
  BY <1>1 DEF AppendLine
<1>3. /\ Written' \in 0 .. Len(accepted) /\ Len(accepted) \in Nat
      /\ Len(lines) = Written'
      /\ Logged' = [n \in {k \in 1 .. Written' : k + 1 \notin glued'} |-> accepted[n]]
  BY <1>1, <1>2, LoggedPrefixNext DEF LogIsPrefix
<1>4. CASE lines = <<>>
  <2>1. Written = 0 /\ Written' = 0
    BY <1>3, <1>4 DEF Written
  <2>2. Logged' = Logged
    BY <1>3, <2>1, LoggedPrefix DEF LogIsPrefix
  <2>3. QED
    BY <1>2, <1>4, <2>1, <2>2 DEF Log!WriteHead
<1>5. CASE lines # <<>>
  <2> DEFINE found == {k \in 1 .. Written : k + 1 \notin glued}
             next == IF torn THEN {} ELSE {Written + 1}
  <2>1. /\ Written \in Nat /\ Len(lines) = Written + 1 /\ glued \subseteq 1 .. Written + 1
        /\ Logged = [n \in found |-> accepted[n]]
    BY <1>5, LoggedPrefix DEF LogIsPrefix
  <2>2. Written' = Written + 1 /\ Written < Len(accepted)
    BY <1>3, <2>1
  <2>3. glued' = IF torn THEN glued \cup {Written + 2} ELSE glued
    BY <2>1 DEF AppendLine
  <2>4. {k \in 1 .. Written' : k + 1 \notin glued'} = found \cup next
    <3>1. CASE torn
      BY <3>1, <2>1, <2>2, <2>3
    <3>2. CASE ~torn
      BY <3>2, <2>1, <2>2, <2>3
    <3>3. QED
      BY <3>1, <3>2
  <2>5. DOMAIN Logged = found
    BY <2>1
  <2>6. Logged' = [n \in DOMAIN Logged \cup next |-> accepted[n]]
    BY <1>3, <2>4, <2>5
  <2>7. QED
    BY <1>2, <1>5, <2>2, <2>6 DEF Log!Write
<1>6. QED
  BY <1>4, <1>5

\* An answer never lowers what was acknowledged, and an error acknowledges nothing.
LEMMA ReplyRaises ==
    ASSUME NEW op, NEW c, NEW mark, NEW ok \in BOOLEAN, Reply(op, c, mark, ok)
    PROVE  /\ durable' = durable \/ durable' > durable
           /\ ~ok => durable' = durable
BY DEF Reply

\* A failed attempt acknowledges nothing.
LEMMA FailAcknowledgesNothing == ASSUME Fail PROVE durable' = durable
<1>1. CASE job.attempt = 1 /\ UNCHANGED <<waiting, durable>>
  BY <1>1
<1>2. CASE Reply(job.op, job.client, job.mark, FALSE)
  BY <1>2, ReplyRaises
<1>3. QED
  BY <1>1, <1>2 DEF Fail

\* What a resume keeps of the accepted items is what has a line.
LEMMA ResumeKeepsPrefix ==
    ASSUME WriterInv, lines # <<>>
    PROVE  Tail(lines) = SubSeq(accepted, 1, Written)
<1>1. accepted \in Seq(Items) /\ Len(accepted) \in Nat
  BY LenProperties DEF WriterInv, TypeOK
<1>2. Tail(lines) \in Seq(Items)
  BY FileShape
<1>3. /\ Len(lines) \in 1 .. Len(accepted) + 1 /\ Written = Len(lines) - 1
      /\ \A i \in 1 .. Len(lines) - 1 : lines[i + 1] = accepted[i]
  BY LinesAreAccepted DEF Written
<1>4. /\ Len(Tail(lines)) = Written
      /\ \A i \in 1 .. Written : Tail(lines)[i] = lines[i + 1]
  BY <1>3, FileLength, HeadTailProperties
<1>5. Written \in 0 .. Len(accepted)
  BY <1>1, <1>3
<1>6. \A i \in 1 .. Len(accepted) : accepted[i] \in Items
  BY <1>1, ElementOfSeq
<1>7. /\ SubSeq(accepted, 1, Written) \in Seq(Items)
      /\ Len(SubSeq(accepted, 1, Written)) = Written
      /\ \A i \in 1 .. Written : SubSeq(accepted, 1, Written)[i] = accepted[i]
  BY <1>1, <1>5, <1>6, SubSeqProperties
<1>8. \A i \in 1 .. Written : Tail(lines)[i] = SubSeq(accepted, 1, Written)[i]
  BY <1>3, <1>4, <1>7
<1>9. QED
  BY <1>2, <1>4, <1>7, <1>8, SeqEqual

\* Every step of the writer task, of a client or of a restart is one step of
\* the log, or none.
LEMMA LogStep ==
    ASSUME WriterInv, WriterInv', [Next]_vars
    PROVE  [Log!Next]_(Log!vars)
<1>1. ASSUME NEW c \in Clients, NEW items \in Batches, Record(c, items)
      PROVE  Log!Record
  <2>1. /\ Logged' = Logged /\ Written' = Written
        /\ UNCHANGED <<lines, torn, durable>> /\ accepted' = accepted \o items
    BY <1>1 DEF Record, Logged, Written, file
  <2>2. QED
    BY <2>1 DEF Log!Record
<1>2. ASSUME NEW c \in Clients, NEW op \in Barriers, Barrier(c, op)
      PROVE  UNCHANGED Log!vars
  BY <1>2 DEF Barrier, Logged, Written, file, Log!vars
<1>3. CASE Receive \/ Open \/ OpenFails \/ Finish
  <2>1. UNCHANGED <<lines, glued, torn, accepted>>
    BY <1>3 DEF Receive, Open, OpenFails, Finish, file
  <2>2. durable' = durable \/ durable' > durable
    BY <1>3, ReplyRaises, FailAcknowledgesNothing DEF Receive, Open, Goto, OpenFails, Finish
  <2>3. QED
    BY <2>1, <2>2, AnswerStep DEF Log!Next
<1>4. CASE WriteFails
  <2>1. UNCHANGED <<lines, glued, accepted, durable>> /\ torn' \in {torn, TRUE}
    BY <1>4, FailAcknowledgesNothing DEF WriteFails
  <2>2. QED
    BY <2>1, AnswerStep DEF Log!Next
<1>5. CASE WriteMeta
  <2>1. UNCHANGED <<accepted, durable>> /\ Meta \in Lines
    BY <1>5 DEF WriteMeta, Goto, Lines
  <2>2. CASE metaLeft
    <3>1. AppendLine(Meta)
      BY <1>5, <2>2 DEF WriteMeta
    <3>2. QED
      BY <2>1, <3>1, LineStep DEF Log!Next
  <2>3. CASE ~metaLeft
    <3>1. UNCHANGED <<lines, glued, torn>>
      BY <1>5, <2>3 DEF WriteMeta, file
    <3>2. QED
      BY <2>1, <3>1, AnswerStep DEF Log!Next
  <2>4. QED
    BY <2>2, <2>3
<1>6. CASE WriteItem
  <2>1. Head(pending) \in Lines
    BY <1>6, HeadTailProperties DEF WriteItem, WriterInv, TypeOK, Lines
  <2>2. QED
    BY <1>6, <2>1, LineStep DEF WriteItem, Log!Next
<1>7. CASE Resume
  <2>1. /\ lines # <<>> /\ UNCHANGED <<lines, glued, torn, durable>>
        /\ accepted' = Tail(lines)
    BY <1>7 DEF Resume, file
  <2>2. Logged' = Logged /\ Written' = Written /\ accepted' = SubSeq(accepted, 1, Written)
    BY <2>1, ResumeKeepsPrefix DEF Logged, Written
  <2>3. QED
    BY <2>1, <2>2 DEF Log!Restart, Log!Next
<1>8. CASE UNCHANGED vars
  BY <1>8 DEF vars, Logged, Written, Log!vars
<1>9. QED
  BY <1>1, <1>2, <1>3, <1>4, <1>5, <1>6, <1>7, <1>8 DEF Next, WriterStep, Log!Next

-----------------------------------------------------------------------------
(* The theorems.                                                            *)

\* The invariant holds of every behaviour.
LEMMA WriterInvariant == Spec => []WriterInv
<1>1. WriterInv /\ [Next]_vars => WriterInv'
  <2> SUFFICES ASSUME WriterInv, [Next]_vars PROVE WriterInv'
    OBVIOUS
  <2>1. ASSUME NEW c \in Clients, NEW items \in Batches, Record(c, items) PROVE WriterInv'
    BY <2>1, RecordStep
  <2>2. ASSUME NEW c \in Clients, NEW op \in Barriers, Barrier(c, op) PROVE WriterInv'
    BY <2>2, BarrierStep
  <2>3. CASE WriterStep
    BY <2>3, ReceiveStep, OpenStep, OpenFailsStep, WriteMetaStep, WriteItemStep,
       WriteFailsStep, FinishStep DEF WriterStep
  <2>4. CASE Resume
    BY <2>4, ResumeStep
  <2>5. CASE UNCHANGED vars
    <3>1. UNCHANGED <<channel, accepted>> /\ MetaOwed' = MetaOwed
      BY <2>5 DEF vars, MetaOwed
    <3>2. ChannelInOrder' /\ Received' = Received
      BY <3>1, ChannelUnchanged DEF WriterInv, FileInv
    <3>3. QED
      BY <2>5, <3>1, <3>2 DEF vars, WriterInv, FileInv, TypeOK, FileFollowsJob,
         MarkReceived, AckedIsWritten, WrittenInOrder
  <2>6. QED
    BY <2>1, <2>2, <2>3, <2>4, <2>5 DEF Next
<1>2. QED
  BY InitInv, <1>1, PTL DEF Spec

\* Whatever fails, whenever the process ends and however often the thread is
\* resumed, the file and what the writer still owes it are the SessionMeta and
\* the received items, in order, each once.
THEOREM FileInOrder == Spec => []WrittenInOrder
<1>1. WriterInv => WrittenInOrder
  BY DEF WriterInv, FileInv
<1>2. QED
  BY WriterInvariant, <1>1, PTL

\* What was recorded before a persist, flush or shutdown that returned Ok is in
\* the file, for ever.
THEOREM AckIsKept == Spec => []AckedIsWritten
<1>1. WriterInv => AckedIsWritten
  BY DEF WriterInv, FileInv
<1>2. QED
  BY WriterInvariant, <1>1, PTL

\* The writer's state keeps its types and the command channel its capacity; what
\* a resume counts as recorded is a sequence of items because the file is.
THEOREM RolloutTypes == Spec => []TypeOK
<1>1. WriterInv => TypeOK
  BY DEF WriterInv
<1>2. QED
  BY WriterInvariant, <1>1, PTL

\* For any clients, items and bounds and any failures, the recorder with its
\* writer task, channel, buffer and retries implements the append-only log: a
\* reader finds the written items in order, without those behind a fragment.
THEOREM RecorderIsLog == Spec => ImplementsLog
<1>1. Init => Log!Init
  <2> SUFFICES ASSUME Init PROVE Log!Init
    OBVIOUS
  <2>1. Written = 0 /\ lines = <<>> /\ {k \in 1 .. Written : k + 1 \notin glued} = {}
    BY DEF Init, Written
  <2>2. Logged = <<>>
    BY <2>1 DEF Logged
  <2>3. QED
    BY <2>1, <2>2 DEF Init, Log!Init
<1>2. WriterInv /\ WriterInv' /\ [Next]_vars => [Log!Next]_(Log!vars)
  BY LogStep
<1>3. QED
  BY <1>1, <1>2, WriterInvariant, PTL DEF Spec, Log!Spec, ImplementsLog
=============================================================================
