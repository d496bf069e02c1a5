---------------------------- MODULE MCLocalRoute ----------------------------
(* Small instances of LocalRoute for TLC. *)
EXTENDS LocalRoute, TLC

Conversations == Permutations(Conversation)
=============================================================================
