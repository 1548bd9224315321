-------------------------- MODULE MCEmbeddingQueue --------------------------
(* Small instances of EmbeddingQueue. *)
EXTENDS EmbeddingQueue

CONSTANTS j1, j2, r1, r2, w1, w2, api

MCFaults == [k \in FaultKinds |-> 1]
=============================================================================
