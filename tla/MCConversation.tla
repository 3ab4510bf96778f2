--------------------------- MODULE MCConversation ---------------------------
(***************************************************************************)
(* An instance of Conversation in which each budget can run out before,    *)
(* after and together with the others.                                     *)
(***************************************************************************)
EXTENDS Conversation

Turns == [s \in Style |-> CASE s = "agent" -> 5 [] s = "lens" -> 2 [] s = "triage" -> 3]
=============================================================================
