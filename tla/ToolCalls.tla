----------------------------- MODULE ToolCalls -----------------------------
(***************************************************************************)
(* Tool calls: the user sets up providers, the user or the model proposes  *)
(* a call, a saved policy or the user authorises it, the persistence       *)
(* worker uses up its one-shot route in the journal, a thread carries it   *)
(* out, its outcome is recorded, and the outcome the user or the flow of   *)
(* the turn admits goes back to the model, which may ask for another call. *)
(*                                                                         *)
(* The window sends commands through "queue", which the worker serves one  *)
(* by one, each from the journal alone, and learns of them from "notices". *)
(* Threads, one per probe and one per call, hand what they find back       *)
(* through the same queue.  A flag, "pending", keeps the window to one     *)
(* tool command at a time.                                                 *)
(*                                                                         *)
(* A tool stands for one operation of a provider of its own, and a route   *)
(* is named by its call.  One conversation; its session, which another     *)
(* part of the program may replace, is the source of the calls.            *)
(***************************************************************************)
EXTENDS Naturals, Sequences, FiniteSetsExt

CONSTANTS
  Tool,
  Transport,      \* how each tool is reached
  Policy,         \* what the saved settings let the model do with each
  Limit,          \* calls a turn may make
  MaxCalls,       \* bound: calls recorded
  MaxTurns,       \* bound: turns begun
  MaxActivations, \* bound: times a provider is activated or deactivated,
  MaxConsents,    \*   a call allowed or denied,
  MaxAdmissions,  \*   an outcome admitted or excluded by the user
  MaxSessions,    \* bound: sessions the conversation goes through
  MaxFaults       \* bound: failures of threads and of the file, and restarts

ASSUME ToolCallsAssumption ==
  /\ Transport \in [Tool -> {"hello", "shell", "http", "stdio"}]
  /\ Policy \in [Tool -> {"automatic", "ask", "disabled"}]
  /\ {Limit, MaxCalls, MaxTurns, MaxActivations, MaxConsents, MaxAdmissions,
      MaxSessions, MaxFaults} \subseteq Nat

VARIABLES
  journal,    \* the events of this part of the journal
  queue,      \* commands on their way to the worker
  notices,    \* the worker's answers on their way to the window
  probing,    \* calls whose thread probes the sandbox
  running,    \* calls whose thread is about to carry them out
  reporting,  \* calls carried out, whose thread has not said so
  ran,        \* how often each call has been carried out
  missed,     \* events the window's copy of the journal lacks
  pending,    \* a tool command of the window waits for its notice
  flow,       \* the model's calls in the present turn
  remote,     \* whether the model is at work on the present turn
  turn,       \* the present turn
  stopped,    \* history: turns whose calls the user stopped
  faults

threads == <<probing, running, reporting>>

window == <<missed, pending, flow, remote, turn, stopped>>

vars == <<journal, queue, notices, threads, ran, window, faults>>

Call == 1..MaxCalls

None == "none"

NoFlow == [turn |-> 0, call |-> 0, count |-> 0]

-----------------------------------------------------------------------------
(***************************************************************************)
(* The journal.                                                            *)
(***************************************************************************)
Event(kind, of, with) == [kind |-> kind, of |-> of, with |-> with]

(* The number of the last event of one of these kinds about x, or 0. *)
Where(log, kinds, x) ==
  Max({0} \cup {i \in DOMAIN log : log[i].kind \in kinds /\ log[i].of = x})

Has(log, kind, x) == Where(log, {kind}, x) > 0

Latest(log, kinds, x) ==
  LET i == Where(log, kinds, x) IN IF i = 0 THEN None ELSE log[i].kind

RecordedAt(log, c) == Where(log, {"recorded"}, c)

ToolOf(log, c) == log[RecordedAt(log, c)].with[1]

PolicyOf(log, c) == log[Where(log, {"proposed"}, c)].with

(* The conversation's present session. *)
Leaf(log) == 1 + Cardinality({i \in DOMAIN log : log[i].kind = "rollover"})

NextCall(log) == 1 + Max({0} \cup {log[i].of : i \in {j \in DOMAIN log : log[j].kind = "recorded"}})

SetUp == {"registered", "bound", "configured", "activated", "deactivated"}

Consent == {"allowed", "denied"}

Activation == {"activated", "deactivated"}

Admission == {"admitted", "excluded"}

Active(log, p) == Latest(log, Activation, p) = "activated"

(* A policy that allows needs no user's word; one that asks needs the      *)
(* user's last word to be Allow.                                           *)
Authorised(log, c) ==
  /\ Has(log, "routed", c)
  /\ \/ PolicyOf(log, c) = "automatic"
     \/ PolicyOf(log, c) = "ask" /\ Latest(log, Consent, c) = "allowed"

(* The call comes from the session the conversation is still in. *)
SourceFresh(log, c) == log[RecordedAt(log, c)].with[2] = Leaf(log)

Unspent(log, c) == ~Has(log, "dispatched", c)

(* A call of a stdio provider: the provider has been active ever since     *)
(* before the call was recorded.                                           *)
Previewed(log, c) ==
  /\ Authorised(log, c)
  /\ Unspent(log, c)
  /\ SourceFresh(log, c)
  /\ LET p == ToolOf(log, c) IN
       /\ Where(log, {"configured"}, p) \in 1..RecordedAt(log, c)
       /\ Active(log, p)
       /\ Where(log, Activation, p) < RecordedAt(log, c)

(* Mutant: a call is taken to be unused until it has an outcome. *)
ReserveUntilOutcome(log, c) ==
  /\ Authorised(log, c)
  /\ SourceFresh(log, c)
  /\ ~Has(log, "outcome", c)

Reservable(log, c) ==
  /\ Authorised(log, c)
  /\ SourceFresh(log, c)
  /\ ~Has(log, "outcome", c)
  /\ Unspent(log, c)

-----------------------------------------------------------------------------
(***************************************************************************)
(* The worker.  A command is accepted or refused from the journal, and has *)
(* a plan, the events it appends.                                          *)
(***************************************************************************)
Command(do, of, tool) == [do |-> do, of |-> of, tool |-> tool]

(* The providers the worker registers by itself for a call of the model. *)
WellKnown(p) == Transport[p] # "stdio"

Proposable(log, cmd) ==
  CASE cmd.do = "propose" ->
         /\ ~Has(log, "recorded", cmd.of)
         /\ Has(log, "bound", cmd.tool)
    [] cmd.do = "agent" ->
         /\ \/ Has(log, "bound", cmd.tool)
            \/ WellKnown(cmd.tool) /\ ~Has(log, "registered", cmd.tool)
         /\ Transport[cmd.tool] = "stdio" =>
              /\ Has(log, "configured", cmd.tool)
              /\ Policy[cmd.tool] = "automatic" => Active(log, cmd.tool)

SetsUp(log, cmd) ==
  LET p == cmd.of IN
  CASE cmd.do = "registered" -> ~Has(log, "registered", p)
    [] cmd.do = "bound" -> Has(log, "registered", p) /\ ~Has(log, "bound", p)
    [] cmd.do = "configured" ->
         /\ Has(log, "bound", p)
         /\ ~Has(log, "configured", p)
         /\ \A c \in Call : Has(log, "recorded", c) => ToolOf(log, c) # p
    [] cmd.do = "activated" -> Has(log, "configured", p) /\ ~Active(log, p)
    [] cmd.do = "deactivated" -> Active(log, p)

(* Mutant: the probe's success is taken for the permit. *)
ProbeIsPermit(log, c) == Unspent(log, c)

(* Revalidated when the probe is over, from the journal as it is then. *)
StillPreviewed(log, c) == Previewed(log, c)

Dispatches(log, cmd) ==
  LET c == cmd.of IN
  CASE cmd.do \in {"hello", "http", "shell"} ->
         /\ Has(log, "recorded", c)
         /\ Transport[ToolOf(log, c)] = cmd.do
         /\ Reservable(log, c)
    [] cmd.do = "probe" -> Has(log, "recorded", c) /\ Previewed(log, c)
    [] cmd.do = "reserve" -> StillPreviewed(log, c)

Decides(log, cmd) ==
  LET c == cmd.of IN
  CASE cmd.do \in Consent ->
         /\ Has(log, "routed", c)
         /\ PolicyOf(log, c) = "ask"
         /\ Unspent(log, c)
         /\ Latest(log, Consent, c) # cmd.do
    [] cmd.do = "outcome" -> Has(log, "dispatched", c) /\ ~Has(log, "outcome", c)
    [] cmd.do \in Admission ->
         Has(log, "outcome", c) /\ Latest(log, Admission, c) # cmd.do

Accepts(log, cmd) ==
  CASE cmd.do \in {"propose", "agent"} -> Proposable(log, cmd)
    [] cmd.do \in SetUp -> SetsUp(log, cmd)
    [] cmd.do \in {"hello", "http", "shell", "probe", "reserve"} -> Dispatches(log, cmd)
    [] OTHER -> Decides(log, cmd)

(* What else a command may be refused for: a session about to be replaced, *)
(* a missing program or shell, a blocked command, malformed arguments, an  *)
(* outcome too large to record or to put before the model.                 *)
MayDecline(cmd) ==
  cmd.do \in {"propose", "agent", "activated", "hello", "http", "shell", "probe", "reserve",
             "outcome"} \cup Admission

(* The call a command is about; the worker numbers the model's calls. *)
CallOf(log, cmd) == IF cmd.do = "agent" THEN NextCall(log) ELSE cmd.of

Proposal(log, cmd) ==
  LET c == CallOf(log, cmd)
  IN  << Event("recorded", c, <<cmd.tool, Leaf(log)>>),
         Event("proposed", c, IF cmd.do = "agent" THEN Policy[cmd.tool] ELSE "ask"),
         Event("routed", c, None) >>

(* Every other command is named for the one event it appends. *)
Plan(log, cmd) ==
  CASE cmd.do = "propose" -> Proposal(log, cmd)
    [] cmd.do = "agent" ->
         (IF Has(log, "registered", cmd.tool) THEN <<>>
          ELSE <<Event("registered", cmd.tool, None), Event("bound", cmd.tool, None)>>)
         \o Proposal(log, cmd)
    [] cmd.do = "hello" ->
         <<Event("dispatched", cmd.of, None), Event("outcome", cmd.of, None)>>
    [] cmd.do \in {"http", "shell", "reserve"} -> <<Event("dispatched", cmd.of, None)>>
    [] cmd.do = "probe" -> <<>>
    [] OTHER -> <<Event(cmd.do, cmd.of, None)>>

(* A notice answers one command about "of" and carries the numbers of the  *)
(* events it shows the window.                                             *)
Notice(ok, do, of, call, shown) ==
  [ok |-> ok, do |-> do, of |-> of, call |-> call, shown |-> shown]

Tell(notice) == notices' = Append(notices, notice)

Fail(do, of) == Tell(Notice(FALSE, do, of, 0, {}))

Serve ==
  /\ queue # <<>>
  /\ queue' = Tail(queue)
  /\ LET cmd == Head(queue)
         c == cmd.of
         plan == Plan(journal, cmd)
         new == Len(journal) + 1 .. Len(journal) + Len(plan)
     IN  \/ /\ Accepts(journal, cmd)
            /\ journal' = journal \o plan
            /\ missed' = missed \cup new
            /\ IF cmd.do = "probe"
               THEN UNCHANGED notices
               ELSE Tell(Notice(TRUE, cmd.do, c, CallOf(journal, cmd), new))
            /\ probing' = IF cmd.do = "probe" THEN probing \cup {c} ELSE probing
            /\ running' = IF cmd.do \in {"http", "shell", "reserve"}
                          THEN running \cup {c} ELSE running
            /\ ran' = IF cmd.do = "hello" THEN [ran EXCEPT ![c] = @ + 1] ELSE ran
            /\ UNCHANGED <<reporting, faults>>
         \/ /\ ~Accepts(journal, cmd) \/ MayDecline(cmd)
            /\ Fail(cmd.do, c)
            /\ UNCHANGED <<journal, missed, threads, ran, faults>>
         (* The file fails after some of the events; the window is told of *)
         (* the failure and not of those events.                           *)
         \/ /\ Accepts(journal, cmd)
            /\ faults < MaxFaults
            /\ faults' = faults + 1
            /\ \E n \in 0..Len(plan) - 1 :
                 /\ journal' = journal \o SubSeq(plan, 1, n)
                 /\ missed' = missed \cup (Len(journal) + 1 .. Len(journal) + n)
            /\ Fail(cmd.do, c)
            /\ UNCHANGED <<threads, ran>>
  /\ UNCHANGED <<pending, flow, remote, turn, stopped>>

(* The conversation goes on in a new session.  Which session it is in when *)
(* there is no call yet does not matter.                                   *)
RollOver ==
  /\ Leaf(journal) < MaxSessions
  /\ NextCall(journal) > 1
  /\ journal' = Append(journal, Event("rollover", None, None))
  /\ UNCHANGED <<queue, notices, threads, ran, window, faults>>

-----------------------------------------------------------------------------
(***************************************************************************)
(* The threads.                                                            *)
(***************************************************************************)
ProbeSucceeds(c) ==
  /\ c \in probing
  /\ probing' = probing \ {c}
  /\ queue' = Append(queue, Command("reserve", c, None))
  /\ UNCHANGED <<journal, notices, running, reporting, ran, window, faults>>

ProbeFails(c) ==
  /\ c \in probing
  /\ probing' = probing \ {c}
  /\ Fail("probe", c)
  /\ UNCHANGED <<journal, queue, running, reporting, ran, window, faults>>

CarryOut(c) ==
  /\ c \in running
  /\ running' = running \ {c}
  /\ reporting' = reporting \cup {c}
  /\ ran' = [ran EXCEPT ![c] = @ + 1]
  /\ UNCHANGED <<journal, queue, notices, probing, window, faults>>

Report(c) ==
  /\ c \in reporting
  /\ reporting' = reporting \ {c}
  /\ queue' = Append(queue, Command("outcome", c, None))
  /\ UNCHANGED <<journal, notices, probing, running, ran, window, faults>>

(* The thread of a dispatched call does not start, or panics. *)
Panic(c) ==
  /\ c \in running \cup reporting
  /\ faults < MaxFaults
  /\ faults' = faults + 1
  /\ running' = running \ {c}
  /\ reporting' = reporting \ {c}
  /\ Fail("panic", c)
  /\ UNCHANGED <<journal, queue, probing, ran, window>>

-----------------------------------------------------------------------------
(***************************************************************************)
(* The window and its user.                                                *)
(***************************************************************************)
View == [i \in 1..Len(journal) |-> IF i \in missed THEN Event("unseen", None, None) ELSE journal[i]]

(* How the window runs a call: by the transport of its tool. *)
RunCommand(c) ==
  LET t == Transport[ToolOf(journal, c)]
  IN  Command(IF t = "stdio" THEN "probe" ELSE t, c, None)

(* What the panels offer, from the window's copy of the journal. *)
Offered(view, cmd) ==
  CASE cmd.do \in {"registered", "configured"} ->
         Transport[cmd.of] = "stdio" /\ SetsUp(view, cmd)
    [] cmd.do \in SetUp -> SetsUp(view, cmd)
    [] cmd.do = "propose" -> cmd.of = NextCall(view) /\ Has(view, "bound", cmd.tool)
    [] cmd.do \in Consent ->
         /\ Has(view, "routed", cmd.of)
         /\ Unspent(view, cmd.of)
         /\ Latest(view, Consent, cmd.of) # cmd.do
    [] cmd.do \in Admission ->
         Has(view, "outcome", cmd.of) /\ Latest(view, Admission, cmd.of) # cmd.do
    [] OTHER -> Authorised(view, cmd.of) /\ Unspent(view, cmd.of)

Taken(kinds, x) ==
  Cardinality({i \in DOMAIN journal : journal[i].kind \in kinds /\ journal[i].of = x})

UserCommands ==
  { Command(do, p, None) : do \in {"registered", "bound", "configured"}, p \in Tool }
    \cup { Command(do, p, None) :
            do \in Activation, p \in {q \in Tool : Taken(Activation, q) < MaxActivations} }
    \cup { Command("propose", c, p) : c \in Call, p \in Tool }
    \cup { Command(do, c, None) :
            do \in Consent, c \in {d \in Call : Taken(Consent, d) < MaxConsents} }
    \cup { RunCommand(c) : c \in {d \in Call : Has(journal, "recorded", d)} }
    \cup { Command(do, c, None) :
            do \in Admission, c \in {d \in Call : Taken(Admission, d) < MaxAdmissions} }

UserAsks ==
  /\ ~pending
  /\ LET view == View IN
       \E cmd \in UserCommands : Offered(view, cmd) /\ queue' = Append(queue, cmd)
  /\ pending' = TRUE
  /\ UNCHANGED <<journal, notices, threads, ran, missed, flow, remote, turn, stopped,
                 faults>>

(* A failed command frees the window, except where it is a shell command   *)
(* that failed: no such failure is among those the window knows.           *)
Frees(n) ==
  ~ \/ n.do = "shell"
    \/ n.do \in {"panic", "outcome"} /\ Transport[ToolOf(journal, n.of)] = "shell"

HearFailure(n) ==
  /\ ~n.ok
  /\ IF Frees(n) THEN pending' = FALSE /\ flow' = NoFlow ELSE UNCHANGED <<pending, flow>>
  /\ UNCHANGED <<queue, remote>>

HearDone(n) ==
  /\ n.ok
  /\ n.do \in SetUp \cup Consent \cup {"propose"}
  /\ pending' = FALSE
  /\ flow' = IF n.do = "denied" /\ flow.call = n.call THEN NoFlow ELSE flow
  /\ UNCHANGED <<queue, remote>>

HearProposed(n) ==
  /\ n.ok
  /\ n.do = "agent"
  /\ IF flow.turn = n.of /\ flow.call = 0
     THEN LET automatic == PolicyOf(journal, n.call) = "automatic" IN
          /\ flow' = [flow EXCEPT !.call = n.call]
          /\ pending' = automatic
          /\ queue' = IF automatic THEN Append(queue, RunCommand(n.call)) ELSE queue
     ELSE pending' = FALSE /\ UNCHANGED <<flow, queue>>
  /\ UNCHANGED remote

HearDispatched(n) ==
  /\ n.ok
  /\ n.do \in {"http", "shell", "reserve"}
  /\ UNCHANGED <<pending, flow, queue, remote>>

(* The flow whose call has its outcome admits it. *)
HearOutcome(n) ==
  /\ n.ok
  /\ n.do \in {"hello", "outcome"}
  /\ pending' = (flow.call = n.call)
  /\ queue' = IF flow.call = n.call
              THEN Append(queue, Command("admitted", n.call, None)) ELSE queue
  /\ UNCHANGED <<flow, remote>>

(* What it admitted goes to the model, in the same turn. *)
HearAdmission(n) ==
  /\ n.ok
  /\ n.do \in Admission
  /\ pending' = FALSE
  /\ CASE flow.call # n.call -> UNCHANGED <<flow, remote>>
       [] flow.call = n.call /\ n.do = "admitted" ->
            flow' = [flow EXCEPT !.call = 0] /\ remote' = TRUE
       [] OTHER -> flow' = NoFlow /\ UNCHANGED remote
  /\ UNCHANGED queue

Hear ==
  /\ notices # <<>>
  /\ notices' = Tail(notices)
  /\ LET n == Head(notices) IN
       /\ missed' = missed \ n.shown
       /\ \/ HearFailure(n) \/ HearDone(n) \/ HearProposed(n)
          \/ HearDispatched(n) \/ HearOutcome(n) \/ HearAdmission(n)
  /\ UNCHANGED <<journal, threads, ran, turn, stopped, faults>>

-----------------------------------------------------------------------------
(***************************************************************************)
(* The turn.                                                               *)
(***************************************************************************)
BeginTurn ==
  /\ turn < MaxTurns
  /\ ~remote
  /\ flow = NoFlow
  /\ turn' = turn + 1
  /\ remote' = TRUE
  /\ UNCHANGED <<journal, queue, notices, threads, ran, missed, pending, flow, stopped,
                 faults>>

(* The model's answer is a call for a tool. *)
ModelAsks(p) ==
  /\ remote
  /\ NextCall(journal) <= MaxCalls
  /\ remote' = FALSE
  /\ IF ~pending /\ flow.count < Limit /\ Policy[p] # "disabled"
     THEN /\ flow' = [turn |-> turn, call |-> 0, count |-> flow.count + 1]
          /\ pending' = TRUE
          /\ queue' = Append(queue, Command("agent", turn, p))
     ELSE flow' = NoFlow /\ UNCHANGED <<pending, queue>>
  /\ UNCHANGED <<journal, notices, threads, ran, missed, turn, stopped, faults>>

(* It is an answer to the user, or none comes. *)
ModelEnds ==
  /\ remote
  /\ remote' = FALSE
  /\ flow' = NoFlow
  /\ UNCHANGED <<journal, queue, notices, threads, ran, missed, pending, turn, stopped,
                 faults>>

(* "Stop MCP continuation". *)
Stop ==
  /\ flow # NoFlow
  /\ flow' = NoFlow
  /\ stopped' = stopped \cup {flow.turn}
  /\ UNCHANGED <<journal, queue, notices, threads, ran, missed, pending, remote, turn,
                 faults>>

(* The program dies, perhaps between two events of a command, and starts   *)
(* again with what the journal holds.                                      *)
Restart ==
  /\ faults < MaxFaults
  /\ faults' = faults + 1
  /\ \/ UNCHANGED journal
     \/ /\ queue # <<>>
        /\ Accepts(journal, Head(queue))
        /\ LET plan == Plan(journal, Head(queue)) IN
             \E n \in 1..Len(plan) - 1 : journal' = journal \o SubSeq(plan, 1, n)
  /\ queue' = <<>>
  /\ notices' = <<>>
  /\ probing' = {} /\ running' = {} /\ reporting' = {}
  /\ missed' = {}
  /\ pending' = FALSE
  /\ flow' = NoFlow
  /\ remote' = FALSE
  /\ UNCHANGED <<ran, turn, stopped>>

Init ==
  /\ journal = <<>> /\ queue = <<>> /\ notices = <<>>
  /\ probing = {} /\ running = {} /\ reporting = {}
  /\ ran = [c \in Call |-> 0]
  /\ missed = {} /\ pending = FALSE /\ flow = NoFlow /\ remote = FALSE
  /\ turn = 0 /\ stopped = {}
  /\ faults = 0

Next ==
  \/ Serve \/ RollOver
  \/ \E c \in Call :
       ProbeSucceeds(c) \/ ProbeFails(c) \/ CarryOut(c) \/ Report(c) \/ Panic(c)
  \/ UserAsks \/ Hear
  \/ BeginTurn \/ ModelEnds \/ Stop \/ Restart
  \/ \E p \in Tool : ModelAsks(p)

Spec == Init /\ [][Next]_vars
-----------------------------------------------------------------------------
(***************************************************************************)
(* Properties.                                                             *)
(***************************************************************************)
Cmd == [do : SetUp \cup Consent \cup Admission \cup
             {"propose", "agent", "hello", "http", "shell", "probe", "reserve", "outcome"},
        of : Tool \cup Nat, tool : Tool \cup {None}]

(* The type invariant. *)
TypeOK ==
  /\ \A i \in DOMAIN queue : queue[i] \in Cmd
  /\ probing \subseteq Call /\ running \subseteq Call /\ reporting \subseteq Call
  /\ ran \in [Call -> Nat]
  /\ missed \subseteq DOMAIN journal
  /\ {pending, remote} \subseteq BOOLEAN
  /\ flow \in [turn : 0..MaxTurns, call : 0..MaxCalls, count : 0..Limit]

(* Each call is a one-shot call: used up in the journal before anything is *)
(* done, done at most once whatever dies or fails, and given an outcome    *)
(* only if it was done.                                                    *)
Stage(c) ==
  IF Has(journal, "outcome", c) THEN "settled"
  ELSE IF Has(journal, "dispatched", c) THEN "spent"
  ELSE IF Has(journal, "recorded", c) THEN "open" ELSE "absent"

Promise == INSTANCE OneShotCall WITH stage <- [c \in Call |-> Stage(c)]

OneShot == Promise!Spec

(* What the recovery view asks of every call that was used up: the journal *)
(* as it was just before authorised it, in the conversation's session of   *)
(* that moment, and of a provider active since before the call.            *)
AuthorisedWhenUsed ==
  \A i \in DOMAIN journal :
    journal[i].kind = "dispatched" =>
      LET before == SubSeq(journal, 1, i - 1)
          c == journal[i].of
      IN  /\ Authorised(before, c)
          /\ SourceFresh(before, c)
          /\ Transport[ToolOf(before, c)] = "stdio" => Previewed(before, c)

(* "Stop requesting new model/tool steps": a turn whose calls the user has *)
(* stopped gets no further call.                                           *)
StopIsFinal == flow.turn \notin stopped
=============================================================================
