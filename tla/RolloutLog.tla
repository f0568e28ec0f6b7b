----------------------------- MODULE RolloutLog -----------------------------
(***************************************************************************)
(* What a rollout recorder promises its callers, without the writer task,  *)
(* its channel, its buffer and its retries: an append-only log.  Items are *)
(* handed over and reach the log one by one in that order, behind a head   *)
(* line, and an acknowledgement vouches for a prefix.  A write that fails  *)
(* may leave a fragment behind, and the line written next cannot be read.  *)
(* When the process ends the items that were not yet written are gone, the *)
(* log never is.                                                           *)
(***************************************************************************)
EXTENDS Integers, Sequences

CONSTANT Batches   \* what a caller may hand over at once

VARIABLES
    recorded,  \* the items callers handed over, in order
    head,      \* the head line is written
    written,   \* how many of the items have a line
    logged,    \* the items a reader finds, by their position
    torn,      \* the log ends in a fragment
    durable    \* how many items an acknowledgement vouches for

vars == <<recorded, head, written, logged, torn, durable>>

Init ==
    /\ recorded = <<>> /\ head = FALSE /\ written = 0
    /\ logged = <<>> /\ torn = FALSE /\ durable = 0

Record ==
    /\ \E items \in Batches : recorded' = recorded \o items
    /\ UNCHANGED <<head, written, logged, torn, durable>>

WriteHead ==
    /\ ~head /\ head' = TRUE /\ torn' = FALSE
    /\ UNCHANGED <<recorded, written, logged, durable>>

\* The next item; behind a fragment nobody can read it.
Write ==
    /\ head /\ written < Len(recorded)
    /\ written' = written + 1
    /\ logged' = [n \in DOMAIN logged \cup (IF torn THEN {} ELSE {written + 1}) |-> recorded[n]]
    /\ torn' = FALSE
    /\ UNCHANGED <<recorded, head, durable>>

WriteFails ==
    /\ torn' = TRUE
    /\ UNCHANGED <<recorded, head, written, logged, durable>>

Acknowledge ==
    /\ durable' \in durable + 1 .. written
    /\ UNCHANGED <<recorded, head, written, logged, torn>>

Restart ==
    /\ head /\ recorded' = SubSeq(recorded, 1, written)
    /\ UNCHANGED <<head, written, logged, torn, durable>>

Next == Record \/ WriteHead \/ Write \/ WriteFails \/ Acknowledge \/ Restart

Spec == Init /\ [][Next]_vars
=============================================================================
