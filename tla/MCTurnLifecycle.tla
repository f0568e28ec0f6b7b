-------------------------- MODULE MCTurnLifecycle --------------------------
(***************************************************************************)
(* Model-checking instance of TurnLifecycle: the bounds are given in the   *)
(* .cfg files.  Items of the same sort that no constant tells apart are    *)
(* interchangeable, which the safety runs use.                             *)
(***************************************************************************)
EXTENDS TurnLifecycle, TLC

SymmetricItems ==
    Permutations(UserItems \ (RejectedPrompts \cup BlockedPrompts))
        \cup Permutations(TriggerMails) \cup Permutations(Mails \ TriggerMails)
        \cup Permutations(GoalItems)
=============================================================================
