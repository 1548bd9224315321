------------------------ MODULE MCFollowupScheduler ------------------------
(* Small instances of FollowupScheduler. *)
EXTENDS FollowupScheduler

CONSTANTS f1, f2, f3, f4, w1, w2

(* f1 is the oldest. *)
MCRunAfter == [f \in FollowUps |-> CASE f = f1 -> 1 [] f = f2 -> 2 [] f = f3 -> 3 [] OTHER -> 4]

MCFailures == [k \in FailureKinds |-> 1]
=============================================================================
