---------------------------- MODULE MCJobPosting ----------------------------
(* A small instance of JobPosting. *)
EXTENDS JobPosting, TLC

CONSTANTS j1, j2, j3, t1, t2, o1, r1, r2

(* j1 and j3 come through the same link: the form was submitted again. *)
MCLink == [j \in Jobs |-> IF j = j2 THEN t2 ELSE t1]

(* One job costs more than the wallet holds at the start. *)
MCDistricts == [j \in Jobs |-> IF j = j1 THEN 2 ELSE 1]

MCFaults == [k \in FaultKinds |-> 1]

(* Requests are interchangeable: nothing names or orders them. *)
Symmetry == Permutations(Requests)
=============================================================================
