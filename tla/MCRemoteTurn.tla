---------------------------- MODULE MCRemoteTurn ----------------------------
(* Small instances of RemoteTurn for TLC. *)
EXTENDS RemoteTurn, TLC

Turns == Permutations(Authored) \cup Permutations(Execution)
=============================================================================
