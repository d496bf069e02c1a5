----------------------------- MODULE TurnAudits -----------------------------
(***************************************************************************)
(* What the journal says of a controller's coordination turns: which       *)
(* worker results are admitted to its context, what a turn froze, how it   *)
(* was dispatched and how it ended, which suggestions rest on it and which *)
(* of them were promoted; and what is promised of it.  ControllerTurns has *)
(* the steps that write it.                                                *)
(*                                                                         *)
(* Each audit is a predicate on a copy, or a prefix, of the journal, given *)
(* as the set S of the numbers of its events; a check that replays an      *)
(* audit fails with it.                                                    *)
(***************************************************************************)
EXTENDS Naturals, Sequences, SequencesExt, FiniteSetsExt

VARIABLES
  journal,  \* the events of this part of the journal
  asked     \* history: the worker results each request carried, and whether all fitted

-----------------------------------------------------------------------------
Event(kind, of, with) == [kind |-> kind, of |-> of, with |-> with]

At(S, kinds) == {i \in S : journal[i].kind \in kinds}

Of(S, kinds, x) == {i \in At(S, kinds) : journal[i].of = x}

Before(S, i) == S \cap 1..i - 1

Results(S) == {journal[i].of : i \in At(S, {"result"})}

(* The goal the worker had when the result of a route was recorded. *)
GoalOf(S, r) == journal[CHOOSE i \in Of(S, {"result"}, r) : TRUE].with

Decided(S, r) ==
  LET last == Max({0} \cup Of(S, {"admitted", "excluded"}, r))
  IN  IF last = 0 THEN "none" ELSE journal[last].kind

Admitted(S) == {r \in Results(S) : Decided(S, r) = "admitted"}

Started(S) == {journal[i].of : i \in At(S, {"started"})}

Start(S, t) == CHOOSE i \in At(S, {"started"}) : journal[i].of = t

Frozen(S, t) == journal[Start(S, t)].with

Ending == {"completed", "failed", "interrupted"}

Dispatched(S, t) == Of(S, {"dispatched"}, t) # {}

Endings(S, t) == Of(S, Ending, t)

Ended(S, t) == Of(S, {"ended"}, t) # {}

(* controller_coordination_transport_state: one dispatch, before anything  *)
(* else, and nothing after an ending.                                      *)
TransportReplays(S, t) ==
  /\ Cardinality(Of(S, {"dispatched"}, t)) <= 1
  /\ \A i \in Endings(S, t) : Dispatched(Before(S, i), t)
  /\ Cardinality(Endings(S, t)) <= 1

(* coordination_terminal_outcome *)
Outcome(S, t) ==
  IF Endings(S, t) = {} THEN "none"
  ELSE CHOOSE kind \in Ending :
         /\ Of(S, {kind}, t) # {}
         /\ kind = "failed" => Of(S, {"completed"}, t) = {}
         /\ kind = "interrupted" => Of(S, {"completed", "failed"}, t) = {}

Finished(S, t) == Ended(S, t) /\ journal[Max(Of(S, {"ended"}, t))].with = "completed"

(* replay_controller_coordination_audit fails as a whole. *)
CoordinationReplays(S) ==
  /\ \A i \in At(S, {"started"}) :
       /\ Of(Before(S, i), {"started"}, journal[i].of) = {}
       /\ journal[i].with # {}
       /\ journal[i].with = Admitted(Before(S, i))
  /\ \A i \in At(S, {"ended"}) :
       /\ ~Ended(Before(S, i), journal[i].of)
       /\ TransportReplays(Before(S, i), journal[i].of)
       /\ journal[i].with = Outcome(Before(S, i), journal[i].of)
  /\ \A t \in Started(S) : TransportReplays(S, t)

(* controller_coordination_output_text *)
HasText(S, t) == \E i \in Of(S, {"completed"}, t) : journal[i].with

ContextReplays(S) ==
  \A i \in At(S, {"kept", "dropped"}) :
    CoordinationReplays(Before(S, i)) /\ Ended(Before(S, i), journal[i].of)

(* What no two suggestions may share. *)
Key(i) == [turn |-> journal[i].with.turn, basis |-> journal[i].with.basis,
           action |-> journal[i].with.action]

SuggestionAccepted(S, i) ==
  LET s == journal[i].with IN
  /\ CoordinationReplays(S)
  /\ s.turn \in Started(S) /\ Finished(S, s.turn)
  /\ s.basis \in Frozen(S, s.turn)
  /\ HasText(S, s.turn)
  /\ s.basis \in Results(S) /\ s.goal = GoalOf(S, s.basis)
  /\ Of(S, {"suggested"}, journal[i].of) = {}
  /\ \A j \in At(S, {"suggested"}) : Key(j) # Key(i)

PromotionAccepted(S, i) ==
  \E j \in Of(S, {"suggested"}, journal[i].of), k \in Of(S, {"control"}, journal[i].with) :
    /\ Of(S, {"promoted"}, journal[i].of) = {}
    /\ j < k
    /\ journal[k].with.goal = journal[j].with.goal
    /\ journal[k].with.action = journal[j].with.action
    /\ Of(S, {"route"}, journal[i].with) # {}

(* replay_controller_coordination_suggestion_audit *)
SuggestionsReplay(S) ==
  /\ \A i \in At(S, {"suggested"}) : SuggestionAccepted(Before(S, i), i)
  /\ \A i \in At(S, {"promoted"}) : PromotionAccepted(Before(S, i), i)

Suggestion(S, s) == journal[CHOOSE i \in Of(S, {"suggested"}, s) : TRUE].with

-----------------------------------------------------------------------------
(* "A new start freezes exactly this set": whatever the user admits or     *)
(* excludes between the start of a turn and its dispatch, its request      *)
(* carries worker results the start recorded and no other, and all of them *)
(* if its context fits the budget; and every suggestion rests on a frozen  *)
(* result of a turn whose request left.                                    *)
CarriesTheFrozen ==
  LET S == DOMAIN journal IN
  /\ \A q \in asked :
       /\ q.with \subseteq Frozen(S, q.turn)
       /\ q.fits => q.with = Frozen(S, q.turn)
  /\ \A i \in At(S, {"suggested"}) :
       /\ journal[i].with.basis \in Frozen(S, journal[i].with.turn)
       /\ \E q \in asked : q.turn = journal[i].with.turn

(* A suggestion that has become stale makes no control: every control a    *)
(* promotion proposed is for the goal and the action of its suggestion,    *)
(* and none follows the record that the suggestion was promoted.           *)
StaleMakesNoControl ==
  LET S == DOMAIN journal IN
  \A i \in At(S, {"control"}) :
    LET s == journal[i].with.for IN
    /\ journal[i].with.goal = Suggestion(S, s).goal
    /\ journal[i].with.action = Suggestion(S, s).action
    /\ Of(Before(S, i), {"promoted"}, s) = {}
=============================================================================
