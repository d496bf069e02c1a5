---------------------------- MODULE OneShotCall ----------------------------
(***************************************************************************)
(* What the audit of tool calls promises: a call is used up in the journal *)
(* before anything outside the program happens, what happens outside       *)
(* happens at most once whatever fails in between, and an outcome is       *)
(* recorded only of something that happened.  A call used up and never     *)
(* settled stays so: nobody knows whether it ran, and it is not run again. *)
(***************************************************************************)
EXTENDS Naturals

CONSTANT Call

VARIABLES
  stage,    \* how far the journal has got with each call
  ran       \* how often each call has been carried out

vars == <<stage, ran>>

Init ==
  /\ stage = [c \in Call |-> "absent"]
  /\ ran = [c \in Call |-> 0]

Advance(c, from, to) ==
  /\ stage[c] = from
  /\ stage' = [stage EXCEPT ![c] = to]

Open(c) == Advance(c, "absent", "open") /\ UNCHANGED ran

Spend(c) == Advance(c, "open", "spent") /\ UNCHANGED ran

Act(c) ==
  /\ stage[c] = "spent"
  /\ ran[c] = 0
  /\ ran' = [ran EXCEPT ![c] = 1]
  /\ UNCHANGED stage

Settle(c) ==
  /\ ran[c] = 1
  /\ Advance(c, "spent", "settled")
  /\ UNCHANGED ran

(* A call that is answered by the program itself. *)
Answer(c) ==
  /\ Advance(c, "open", "settled")
  /\ ran' = [ran EXCEPT ![c] = 1]

Next == \E c \in Call : Open(c) \/ Spend(c) \/ Act(c) \/ Settle(c) \/ Answer(c)

Spec == Init /\ [][Next]_vars
=============================================================================
