-------------------------- MODULE ControllerTurns --------------------------
(***************************************************************************)
(* A controller's coordination turns.  The results of its worker's         *)
(* controls arrive; the user admits some to the controller's context,      *)
(* starts a turn that freezes the admitted ones, dispatches it to the      *)
(* model, and records suggestions that rest on a frozen result.  A         *)
(* suggestion has no authority until the user promotes it, which proposes  *)
(* an ordinary control and records which suggestion it came from.          *)
(*                                                                         *)
(* The window asks the worker thread for each step and keeps one flag per  *)
(* kind of command; it judges what to offer and composes the request from  *)
(* its own copy of the journal, with the audits of TurnAudits.             *)
(*                                                                         *)
(* One controller conversation and one worker.  How a request and its      *)
(* answer travel is RemoteTurn's and how a control goes on is              *)
(* ControlPlane's: here they end, or are refused, as those modules allow.  *)
(***************************************************************************)
EXTENDS TurnAudits

CONSTANTS
  Route,          \* routes of controls that may bring the controller a result
  Action,         \* what a suggestion may propose
  MaxGoals,       \* bound: goals of the worker
  MaxDecisions,   \* bound: admissions and exclusions of worker results
  MaxTurns,       \* bound: coordination turns
  MaxRounds,      \* bound: dispatches of one turn
  MaxContexts,    \* bound: decisions on whether a turn's result stays in context
  MaxControls,    \* bound: controls promotions may propose
  MaxPending,     \* bound: commands and notices on the way when a new step is taken
  MaxFaults       \* bound: failed appends and restarts

ASSUME ControllerTurnsAssumption ==
  {MaxGoals, MaxDecisions, MaxTurns, MaxRounds, MaxContexts,
   MaxControls, MaxPending, MaxFaults} \subseteq Nat

VARIABLES
  queue,    \* commands on their way to the worker thread
  notices,  \* its answers on their way to the window
  known,    \* the events the window has
  busy,     \* the kinds of command the window waits for
  flight,   \* the window's pending or active remote turn
  ending,   \* the number of an ending whose result is still to be recorded, or 0
  faults

window == <<known, busy, flight>>

vars == <<journal, queue, notices, ending, window, asked, faults>>

-----------------------------------------------------------------------------
(***************************************************************************)
(* The worker thread.                                                      *)
(***************************************************************************)
Goal(S) == Max({1} \cup {journal[i].of : i \in At(S, {"goal"})})

Fresh(S, kind) == Max({0} \cup {journal[i].of : i \in At(S, {kind})}) + 1

(* Mutant: the worker may have taken another goal since. *)
OnAnyGoal(S, s) == TRUE

(* The worker is still on the goal the suggestion was made for. *)
StillOn(S, s) == Suggestion(S, s).goal = Goal(S)

Accepts(S, cmd) ==
  CASE cmd.kind \in {"admitted", "excluded"} ->
         cmd.of \in Results(S) /\ Decided(S, cmd.of) # cmd.kind
    [] cmd.kind = "started" ->
         /\ CoordinationReplays(S)
         /\ \A t \in Started(S) : Ended(S, t)
         /\ Admitted(S) # {}
    [] cmd.kind \in {"kept", "dropped"} ->
         /\ CoordinationReplays(S) /\ ContextReplays(S)
         /\ Ended(S, cmd.of)
         /\ LET last == Max({0} \cup Of(S, {"kept", "dropped"}, cmd.of))
            IN  last # 0 => journal[last].kind # cmd.kind
    [] cmd.kind = "suggested" ->
         /\ CoordinationReplays(S) /\ SuggestionsReplay(S)
         /\ Finished(S, cmd.with.turn)
         /\ cmd.with.basis \in Frozen(S, cmd.with.turn) \cap Results(S)
         /\ \A j \in At(S, {"suggested"}) : Key(j) # cmd.with
    [] cmd.kind = "promoted" ->
         /\ SuggestionsReplay(S)
         /\ Of(S, {"suggested"}, cmd.of) # {} /\ Of(S, {"promoted"}, cmd.of) = {}
         /\ StillOn(S, cmd.of)

(* The controller's session, designation and topology, and the worker's    *)
(* phase and leases, may forbid a start or a control.                      *)
MayDecline(cmd) == cmd.kind \in {"started", "promoted"}

(* What a command appends.  A control stands for its permit, admission and *)
(* issuer; its route for the proposal and the binding.                     *)
Plan(S, cmd) ==
  CASE cmd.kind = "started" ->
         << Event("started", Fresh(S, "started"), Admitted(S)) >>
    [] cmd.kind = "suggested" ->
         << Event("suggested", Fresh(S, "suggested"),
                  [ turn |-> cmd.with.turn, basis |-> cmd.with.basis,
                    action |-> cmd.with.action, goal |-> GoalOf(S, cmd.with.basis) ]) >>
    [] cmd.kind = "promoted" ->
         LET c == Fresh(S, "control") IN
         << Event("control", c, [ goal |-> Goal(S), action |-> Suggestion(S, cmd.of).action,
                                  for |-> cmd.of ]),
            Event("route", c, {}), Event("promoted", cmd.of, c) >>
    [] OTHER -> << cmd >>

Asks == {"admitted", "excluded", "started", "kept", "dropped", "suggested", "promoted"}

Notice(ok, of, new) == [ok |-> ok, of |-> of, new |-> new]

Tell(items) == notices' = notices \o items

(* What was appended is read back: a suggestion whose turn brought no text *)
(* is in the journal then, and refused by its audit.                       *)
ReadsBack(S, cmd) ==
  cmd.kind = "suggested" => HasText(S, cmd.with.turn)

Take(cmd) ==
  /\ queue # <<>>
  /\ Head(queue) = cmd
  /\ queue' = Tail(queue)

Serve(cmd) ==
  /\ Take(cmd)
  /\ cmd.kind \in Asks
  /\ LET S == DOMAIN journal
         n == Len(journal)
     IN  \/ /\ Accepts(S, cmd)
            /\ journal' = journal \o Plan(S, cmd)
            /\ IF ReadsBack(S, cmd)
               THEN Tell(<< Notice(TRUE, cmd, n + 1 .. Len(journal')) >>)
               ELSE Tell(<< Notice(FALSE, cmd, {}) >>)
            /\ UNCHANGED faults
         \/ /\ ~Accepts(S, cmd) \/ MayDecline(cmd)
            /\ Tell(<< Notice(FALSE, cmd, {}) >>)
            /\ UNCHANGED <<journal, faults>>
         (* The file fails at one of the appends. *)
         \/ /\ Accepts(S, cmd)
            /\ faults < MaxFaults
            /\ faults' = faults + 1
            /\ \E k \in 0..Len(Plan(S, cmd)) - 1 : journal' = journal \o SubSeq(Plan(S, cmd), 1, k)
            /\ Tell(<< Notice(FALSE, cmd, {}) >>)
  /\ UNCHANGED <<ending, window, asked>>

(* AppendTurnEvent; an ending has a second append to come before the       *)
(* notices.                                                                *)
ServeTurn(cmd) ==
  /\ Take(cmd)
  /\ cmd.kind \in {"dispatched"} \cup Ending
  /\ \/ /\ journal' = Append(journal, cmd)
        /\ IF cmd.kind \in Ending
           THEN ending' = Len(journal') /\ UNCHANGED notices
           ELSE Tell(<< Notice(TRUE, cmd, {Len(journal')}) >>) /\ UNCHANGED ending
        /\ UNCHANGED faults
     \/ /\ faults < MaxFaults
        /\ faults' = faults + 1
        /\ Tell(<< Notice(FALSE, cmd, {}) >>)
        /\ UNCHANGED <<journal, ending>>
  /\ UNCHANGED <<window, asked>>

(* append_controller_coordination_result_if_terminal *)
RecordResult ==
  /\ ending # 0
  /\ ending' = 0
  /\ LET S == DOMAIN journal
         t == journal[ending].of
         result == Event("ended", t, Outcome(S, t))
         heard == Notice(TRUE, journal[ending], {ending})
     IN  \/ /\ CoordinationReplays(S)
            /\ IF Ended(S, t)
               THEN Tell(<< heard >>) /\ UNCHANGED journal
               ELSE /\ journal' = Append(journal, result)
                    /\ Tell(<< heard, Notice(TRUE, result, {Len(journal')}) >>)
            /\ UNCHANGED faults
         \/ /\ ~CoordinationReplays(S)
            /\ Tell(<< heard, Notice(FALSE, result, {}) >>)
            /\ UNCHANGED <<journal, faults>>
         \/ /\ CoordinationReplays(S) /\ ~Ended(S, t)
            /\ faults < MaxFaults
            /\ faults' = faults + 1
            /\ Tell(<< heard, Notice(FALSE, result, {}) >>)
            /\ UNCHANGED journal
  /\ UNCHANGED <<queue, window, asked>>

(* Little is on the way when a step from outside is taken. *)
Quiet == Len(queue) + Len(notices) < MaxPending

(* The worker takes its next goal, or the result of one of its controls is *)
(* recorded; the window hears of both in their turn.                       *)
Record(e) ==
  /\ ending = 0 /\ Quiet
  /\ journal' = Append(journal, e)
  /\ Tell(<< Notice(TRUE, e, {Len(journal')}) >>)
  /\ UNCHANGED <<queue, ending, window, asked, faults>>

TakeGoal ==
  /\ Goal(DOMAIN journal) < MaxGoals
  /\ Record(Event("goal", Goal(DOMAIN journal) + 1, {}))

BringResult(r) ==
  /\ r \notin Results(DOMAIN journal)
  /\ Record(Event("result", r, Goal(DOMAIN journal)))

-----------------------------------------------------------------------------
(***************************************************************************)
(* The window and its user.                                                *)
(***************************************************************************)
NoFlight == [turn |-> 0, phase |-> "none", with |-> {}, fits |-> TRUE]

Latest == Max({0} \cup Started(known))

(* What the panel offers, from the window's copy: the steps of the latest  *)
(* turn.                                                                   *)
Offered ==
  LET t == Latest
      decisions == { Event(kind, r, {}) :
                       kind \in {"admitted", "excluded"}, r \in Results(known) }
      starts == IF Admitted(known) # {} /\ (t = 0 \/ Ended(known, t))
                THEN { Event("started", 0, {}) } ELSE {}
      contexts == IF t # 0 /\ Ended(known, t) /\ ContextReplays(known)
                  THEN { Event("kept", t, {}), Event("dropped", t, {}) } ELSE {}
      suggestions ==
        IF t # 0 /\ Finished(known, t) /\ SuggestionsReplay(known)
        THEN { Event("suggested", 0, [turn |-> t, basis |-> r, action |-> a]) :
                 r \in Frozen(known, t), a \in Action }
        ELSE {}
      promotions ==
        IF SuggestionsReplay(known)
        THEN { Event("promoted", s, {}) :
                 s \in {journal[i].of : i \in {j \in At(known, {"suggested"}) :
                                                 journal[j].with.turn = t}} }
        ELSE {}
      done(c) == CASE c.kind \in {"admitted", "excluded"} ->
                        Decided(known, c.of) = c.kind \/
                          (c.kind = "excluded" /\ Decided(known, c.of) = "none")
                   [] c.kind \in {"kept", "dropped"} ->
                        LET last == Max({0} \cup Of(known, {"kept", "dropped"}, t))
                        IN  IF last = 0 THEN c.kind = "dropped" ELSE journal[last].kind = c.kind
                   [] c.kind = "suggested" ->
                        \E j \in At(known, {"suggested"}) : Key(j) = c.with
                   [] c.kind = "promoted" -> Of(known, {"promoted"}, c.of) # {}
                   [] OTHER -> FALSE
      here == decisions \cup IF CoordinationReplays(known)
                             THEN starts \cup contexts \cup suggestions \cup promotions ELSE {}
  IN  { c \in here : ~done(c) }

(* The flags a command sets, and those its notice clears.                  *)
Flags(kind) ==
  CASE kind \in {"admitted", "excluded"} -> {"worker result"}
    [] kind = "started" -> {"coordination"}
    [] kind \in {"kept", "dropped"} -> {"result"}
    [] kind = "suggested" -> {"suggestion"}
    [] kind = "promoted" -> {"suggestion", "control"}
    [] OTHER -> {}

(* The failure of a turn's result is taken for that of a start.            *)
Frees(n) == IF n.of.kind = "ended" /\ ~n.ok THEN {"coordination"} ELSE Flags(n.of.kind)

(* How often the user may still take a step that could be taken for ever.  *)
Bounded(cmd) ==
  LET S == DOMAIN journal IN
  CASE cmd.kind \in {"admitted", "excluded"} ->
         Cardinality(At(S, {"admitted", "excluded"})) < MaxDecisions
    [] cmd.kind \in {"kept", "dropped"} ->
         Cardinality(At(S, {"kept", "dropped"})) < MaxContexts
    [] cmd.kind = "started" -> Cardinality(Started(S)) < MaxTurns
    [] cmd.kind = "promoted" -> Cardinality(At(S, {"control"})) < MaxControls
    [] OTHER -> TRUE

UserAsks(cmd) ==
  /\ cmd \in Offered
  /\ Bounded(cmd)
  /\ (Flags(cmd.kind) \cup IF cmd.kind = "suggested" THEN {"control"} ELSE {}) \cap busy = {}
  /\ busy' = busy \cup Flags(cmd.kind)
  /\ queue' = Append(queue, cmd)
  /\ UNCHANGED <<journal, notices, ending, known, flight, asked, faults>>

(* Mutant: the request is composed from what is admitted by now. *)
ComposedNow(t) == Admitted(known)

(* The worker results for a turn's request: those admitted at its start.   *)
Composed(t) == Admitted(Before(known, Start(known, t)))

(* How often a turn has been dispatched. *)
Rounds(t) == Cardinality(Of(DOMAIN journal, {"dispatched"}, t))
             + Len(SelectSeq(queue, LAMBDA cmd : cmd.kind = "dispatched"))

(* dispatch_controller_coordination; compose_bounded leaves worker results *)
(* out of a context that does not fit its budget.                          *)
Dispatch ==
  LET t == Latest IN
  /\ flight = NoFlight
  /\ CoordinationReplays(known)
  /\ t # 0 /\ ~Ended(known, t) /\ ~Dispatched(known, t)
  /\ Rounds(t) < MaxRounds
  /\ \E fits \in BOOLEAN :
       \E kept \in IF fits THEN {Composed(t)} ELSE SUBSET Composed(t) :
         flight' = [turn |-> t, phase |-> "pending", with |-> kept, fits |-> fits]
  /\ queue' = Append(queue, Event("dispatched", t, {}))
  /\ UNCHANGED <<journal, notices, ending, known, busy, asked, faults>>

Report(t, kinds, text) == queue' = queue \o [i \in DOMAIN kinds |-> Event(kinds[i], t, text)]

(* The dispatch is durable: the request leaves; or the sidecar refuses it; *)
(* or another turn has taken its place in the window.                      *)
HearDispatched(n) ==
  LET mine == n.ok /\ n.of.kind = "dispatched" /\ flight.turn = n.of.of
                   /\ flight.phase \in {"pending", "resumed"}
  IN  \/ /\ mine
         /\ flight' = [flight EXCEPT !.phase = "active"]
         /\ asked' = IF flight.phase = "resumed" THEN asked
                     ELSE asked \cup {[turn |-> flight.turn, with |-> flight.with,
                                        fits |-> flight.fits]}
         /\ UNCHANGED queue
      \/ /\ mine
         /\ flight' = NoFlight
         /\ Report(flight.turn, <<"interrupted">>, FALSE) \/ UNCHANGED queue
         /\ UNCHANGED asked
      \/ /\ ~mine
         /\ flight' = IF ~n.ok /\ flight.turn = n.of.of /\ flight.phase \in {"pending", "resumed"}
                         /\ n.of.kind \in {"dispatched", "ended"} \cup Ending
                      THEN NoFlight ELSE flight
         /\ UNCHANGED <<queue, asked>>

Hear ==
  /\ notices # <<>>
  /\ notices' = Tail(notices)
  /\ LET n == Head(notices)
     IN  /\ known' = known \cup n.new
         /\ busy' = busy \ Frees(n)
         /\ HearDispatched(n)
  /\ UNCHANGED <<journal, ending, faults>>

(* The answer: a text or none; a text that asks for a tool, so that the    *)
(* same turn is dispatched again; a rejection, before output or after it;  *)
(* or the sidecar ends.                                                    *)
Answer ==
  LET t == flight.turn IN
  /\ flight.phase = "active"
  /\ \/ /\ \E text \in BOOLEAN : Report(t, <<"completed">>, text)
        /\ flight' = NoFlight
     \/ /\ Rounds(t) < MaxRounds
        /\ Report(t, <<"completed", "dispatched">>, TRUE)
        /\ flight' = [flight EXCEPT !.phase = "resumed"]
     \/ /\ \E kinds \in { <<"failed">>, <<"failed", "interrupted">> } : Report(t, kinds, FALSE)
        /\ flight' = NoFlight
  /\ UNCHANGED <<journal, notices, ending, known, busy, asked, faults>>

SidecarEnds ==
  /\ flight # NoFlight
  /\ Report(flight.turn, <<"interrupted">>, FALSE)
  /\ flight' = NoFlight
  /\ UNCHANGED <<journal, notices, ending, known, busy, asked, faults>>

(* Another turn displaces the active one: nothing is reported of it.       *)
Displaced ==
  /\ flight.phase = "active"
  /\ flight' = NoFlight
  /\ UNCHANGED <<journal, queue, notices, ending, known, busy, asked, faults>>

(* The program ends, at any moment.  The next start reports the turn that  *)
(* has no ending, and records the result of one that has; only the latest  *)
(* turn can lack either.                                                   *)
Restart ==
  /\ faults < MaxFaults
  /\ faults' = faults + 1
  /\ LET S == DOMAIN journal
         t == Max({0} \cup Started(S))
         open == t # 0 /\ ~Ended(S, t) /\ Dispatched(S, t)
         cut == IF Endings(S, t) = {} THEN << Event("interrupted", t, FALSE) >> ELSE <<>>
         outcome == IF cut = <<>> THEN Outcome(S, t) ELSE "interrupted"
     IN  journal' = journal \o IF CoordinationReplays(S) /\ open
                               THEN Append(cut, Event("ended", t, outcome)) ELSE <<>>
  /\ known' = DOMAIN journal'
  /\ queue' = <<>> /\ notices' = <<>> /\ ending' = 0
  /\ busy' = {} /\ flight' = NoFlight
  /\ UNCHANGED asked

Init ==
  /\ journal = <<>> /\ queue = <<>> /\ notices = <<>> /\ ending = 0
  /\ known = {} /\ busy = {} /\ flight = NoFlight
  /\ asked = {} /\ faults = 0

Next ==
  \/ (queue # <<>> /\ ending = 0 /\ (Serve(Head(queue)) \/ ServeTurn(Head(queue))))
  \/ RecordResult \/ TakeGoal
  \/ \E r \in Route : BringResult(r)
  \/ (Quiet /\ \E cmd \in Offered : UserAsks(cmd))
  \/ Dispatch \/ Hear \/ Answer \/ SidecarEnds \/ Displaced \/ Restart

Spec == Init /\ [][Next]_vars

-----------------------------------------------------------------------------
(* State types. *)
TypeOK ==
  /\ known \subseteq DOMAIN journal
  /\ ending \in 0..Len(journal)
  /\ busy \subseteq {"worker result", "coordination", "result", "suggestion", "control"}
  /\ flight.turn \in 0..MaxTurns
  /\ faults \in 0..MaxFaults

(* What the worker appends for a suggestion, its audit accepts. *)
SuggestionsStayReadable ==
  CoordinationReplays(DOMAIN journal) => SuggestionsReplay(DOMAIN journal)
=============================================================================
