--------------------------- MODULE AppendOnlyLog ---------------------------
(***************************************************************************)
(* What the journal promises its readers, with no file, no handle and no   *)
(* process in it: a log of numbered events that only grows at its end, a   *)
(* prefix of it that nothing can take back, and the numbers of the events  *)
(* whose append has been acknowledged, which are always in that prefix.    *)
(* A failure may drop events behind the stable prefix and nothing else.    *)
(***************************************************************************)
EXTENDS Naturals, Sequences

CONSTANT Event      \* the events a log may hold; each has a field seq

VARIABLES
  log,              \* the events a replay of the journal would return
  stable,           \* how many of them no failure can remove
  acknowledged      \* the sequence numbers append has returned

vars == <<log, stable, acknowledged>>

Init ==
  /\ log = <<>>
  /\ stable = 0
  /\ acknowledged = {}

(* One more event at the end of the log, carrying the next number. *)
Extend ==
  /\ \E e \in Event :
       /\ e.seq = Len(log) + 1
       /\ log' = Append(log, e)
  /\ UNCHANGED <<stable, acknowledged>>

(* The whole log becomes stable; events may be acknowledged only then. *)
Stabilise ==
  /\ stable' = Len(log)
  /\ acknowledged' \in {acknowledged} \cup {acknowledged \cup {n} : n \in 1..Len(log)}
  /\ UNCHANGED log

(* A failure keeps the stable prefix, and perhaps some events behind it. *)
Lose ==
  /\ \E n \in stable..Len(log) : log' = SubSeq(log, 1, n)
  /\ UNCHANGED <<stable, acknowledged>>

Next == Extend \/ Stabilise \/ Lose

Spec == Init /\ [][Next]_vars
=============================================================================
