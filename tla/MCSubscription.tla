--------------------------- MODULE MCSubscription ---------------------------
(* Small instances of Subscription. *)
EXTENDS Subscription, TLC

CONSTANTS basic, gold, y1, r1, r2, r3

(* gold is bought, and lasts long enough for two renewals; basic is free   *)
(* and ends with its first cycle.                                          *)
MCPlanOf   == [y \in Payments |-> gold]
MCValidity == [p \in Plans |-> IF p = gold THEN 3 ELSE 1]
MCMonthly  == [p \in Plans |-> IF p = gold THEN 2 ELSE 1]

MCFaults   == [k \in FaultKinds |-> 1]

(* Requests are interchangeable: nothing names or orders them. *)
Symmetry == Permutations(Requests)
=============================================================================
