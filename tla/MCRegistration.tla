--------------------------- MODULE MCRegistration ---------------------------
(* A small instance of Registration. *)
EXTENDS Registration
=============================================================================
