------------------------- MODULE MCControllerTurns -------------------------
(* Small instances of ControllerTurns for TLC. *)
EXTENDS ControllerTurns, TLC

Symmetry == Permutations(Route)
=============================================================================
