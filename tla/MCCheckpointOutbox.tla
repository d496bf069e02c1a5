------------------------- MODULE MCCheckpointOutbox -------------------------
(* Small instances of CheckpointOutbox for TLC. *)
EXTENDS CheckpointOutbox

TwoConversations == [t \in Turn |-> IF t = MaxTurn THEN "b" ELSE "a"]
OneConversation == [t \in Turn |-> "a"]
=============================================================================
