--------------------------- MODULE MCConversation ---------------------------
(* A small instance of Conversation. *)
EXTENDS Conversation

Symmetric == Permutations(Messages) \cup Permutations(Requests)
=============================================================================
