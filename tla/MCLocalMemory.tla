--------------------------- MODULE MCLocalMemory ---------------------------
(* Small instances of LocalMemory for TLC. *)
EXTENDS LocalMemory, TLC

CONSTANTS home, away

Symmetry == Permutations(Conversation)
=============================================================================
