----------------------------- MODULE MCJournal -----------------------------
(* Instances of Journal for TLC: processes and values are interchangeable. *)
EXTENDS Journal, TLC

Symmetry == Permutations(Process) \cup Permutations(Value)
=============================================================================
