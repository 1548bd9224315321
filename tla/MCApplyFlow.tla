---------------------------- MODULE MCApplyFlow ----------------------------
(* A small instance of ApplyFlow. *)
EXTENDS ApplyFlow, TLC

Symmetric == Permutations(Jobs) \cup Permutations(Requests)
=============================================================================
