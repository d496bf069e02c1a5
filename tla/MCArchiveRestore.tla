-------------------------- MODULE MCArchiveRestore --------------------------
(* Small instances of ArchiveRestore for TLC. *)
EXTENDS ArchiveRestore, TLC

Companions == Permutations(Companion)
=============================================================================
