-------------------------- MODULE MCCreditPurchase --------------------------
(* Small instances of CreditPurchase. *)
EXTENDS CreditPurchase, TLC

CONSTANTS o1, o2, r1, r2

MCOneOrder  == {o1}
MCTwoOrders == {o1, o2}

(* Packs of different sizes, so that a grant of the wrong order shows. *)
MCGrant == [o \in Orders |-> IF o = o1 THEN 2 ELSE 3]

(* One accident of every kind; none. *)
MCFaults   == [k \in FaultKinds |-> 1]
MCNoFaults == [k \in FaultKinds |-> 0]

(* Of the five kinds of fault at most MCTotal strike in one behaviour.      *)
MCTotal == 3

FewFaults ==
  faults["crash"] + faults["db"] + faults["orderLost"] + faults["recordLost"]
    + faults["foreign"] <= MCTotal

(* Requests are interchangeable: nothing names or orders them. *)
Symmetry == Permutations(Requests)
=============================================================================
