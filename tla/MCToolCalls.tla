---------------------------- MODULE MCToolCalls ----------------------------
(* Small instances of ToolCalls for TLC. *)
EXTENDS ToolCalls

CONSTANTS greet, bash, lab

Reached ==
  [t \in Tool |-> CASE t = greet -> "hello" [] t = bash -> "shell" [] t = lab -> "stdio"]

Saved == [t \in Tool |-> IF t = bash THEN "automatic" ELSE "ask"]
=============================================================================
