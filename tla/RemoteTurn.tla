----------------------------- MODULE RemoteTurn -----------------------------
(***************************************************************************)
(* Remote turns of the desktop: the window that sends a user's message or  *)
(* a worker's continuation to the model, the persistence worker that makes *)
(* every observation durable, and the sidecar that talks to the service.   *)
(*                                                                         *)
(* The three run concurrently.  The window queues commands to the worker   *)
(* and learns from its notices, later, what became durable; the sidecar    *)
(* answers, fails or dies at any time; the process may be killed at any    *)
(* time, and startup then judges each turn by its journal evidence.        *)
(*                                                                         *)
(* Evidence of one turn is a sequence of kinds.  "output" stands for the   *)
(* acceptance, stream start and snapshots of a response; the snapshots     *)
(* that follow the first change nothing that is modelled.  The sidecar's   *)
(* answers are handled as they are produced, and every turn belongs to the *)
(* conversation on screen.                                                 *)
(***************************************************************************)
EXTENDS Naturals, Sequences, SequencesExt, FiniteSets

CONSTANTS
  Authored,        \* turns of messages the user writes
  Execution,       \* turns of worker continuations whose start is durable
  NoTurn,          \* names no turn
  MaxDispatches,   \* dispatches of one turn: the limit on tool calls, plus one
  MaxRetries,      \* resubmissions after HTTP 429
  MaxFaults,       \* bound: appends that return an I/O error
  MaxRestarts      \* bound: starts of the program after the first

Turn == Authored \cup Execution

ASSUME RemoteTurnAssumption ==
  /\ Authored \cap Execution = {}
  /\ NoTurn \notin Turn
  /\ {MaxDispatches, MaxRetries, MaxFaults, MaxRestarts} \subseteq Nat

VARIABLES
  committed,       \* authored turns whose message is in the journal
  trail,           \* the evidence of each turn in the journal
  result,          \* the recorded result of each continuation
  appended,        \* the ending the worker has appended and not yet noticed
  queue,           \* commands to the persistence worker
  notices,         \* its notices to the window
  sending,         \* commit_in_flight, and whether a remote intent waits on it
  pending,         \* pending_remote_turn
  active,          \* active_remote_turn
  flow,            \* the turn whose tool call is outstanding (agent_mcp_flow)
  bridge,          \* the sidecar: connected, dead unnoticed, or off
  serving,         \* the turns whose request the sidecar has
  unanswered,      \* history: submissions of each turn that saw no completion
  mode,            \* the program: down, recovered, up or closing
  faults,          \* I/O errors so far
  restarts         \* starts of the program after the first

journal == <<committed, trail, result>>
persistence == <<appended, queue, notices>>
window == <<sending, pending, active, flow>>
sidecar == <<bridge, serving, unanswered>>
vars == <<journal, persistence, window, sidecar, mode, faults, restarts>>
-----------------------------------------------------------------------------
Ending == {"completed", "failed", "interrupted"}

Evidence == Ending \cup {"dispatched", "output"}

NotSending == [turn |-> NoTurn, remote |-> FALSE]

Inactive == [turn |-> NoTurn, output |-> FALSE, retries |-> 0, waiting |-> FALSE]

Holds(s, kind) == \E i \in DOMAIN s : s[i] = kind

Ended(s) == \E kind \in Ending : Holds(s, kind)

Count(s, kind) == Cardinality({ i \in DOMAIN s : s[i] = kind })

(* The evidence after the latest dispatch. *)
Since(s) ==
  LET last == CHOOSE i \in 1..Len(s) :
                s[i] = "dispatched" /\ \A j \in (i + 1)..Len(s) : s[j] # "dispatched"
  IN  SubSeq(s, last + 1, Len(s))

(* continuation_execution_transport_state: one dispatch, before anything   *)
(* else, and no observation after the first ending.                        *)
Replays(s) ==
  /\ Count(s, "dispatched") <= 1
  /\ s # <<>> => s[1] = "dispatched"
  /\ \A i, j \in DOMAIN s : i < j => s[i] \notin Ending \/ s[j] = "dispatched"

(* replay_worker_continuation_execution_audit fails as a whole. *)
AuditReplays(evidence) == \A t \in Execution : Replays(evidence[t])

(* transport_terminal_outcome *)
Outcome(s) ==
  IF Holds(s, "completed") THEN "completed"
  ELSE IF Holds(s, "failed") THEN "failed"
  ELSE IF Holds(s, "interrupted") THEN "interrupted" ELSE "none"

(* Dispatched, and nothing durable says how it ended. *)
Stranded(t, s) ==
  /\ Holds(s, "dispatched")
  /\ IF t \in Authored THEN ~Ended(Since(s)) ELSE ~Ended(s)

(* The window's copy of the journal lacks what is still to be noticed. *)
Seen(t) ==
  LET unseen == { i \in DOMAIN notices : notices[i].turn = t /\ notices[i].kind \in Evidence }
      last   == IF appended = t THEN 1 ELSE 0
  IN  SubSeq(trail[t], 1, Len(trail[t]) - Cardinality(unseen) - last)

Item(t, kind) == [turn |-> t, kind |-> kind]

Queue(items) == queue' = queue \o items

(* Durable or on their way. *)
Dispatches(t) ==
  Count(trail[t], "dispatched") +
    Cardinality({ i \in DOMAIN queue : queue[i] = Item(t, "dispatched") })

Idle == pending = NoTurn /\ active = Inactive

(* The window believes so until it has noticed that the sidecar died. *)
Connected == bridge # "off"
-----------------------------------------------------------------------------
Init ==
  /\ committed = {}
  /\ trail = [t \in Turn |-> <<>>]
  /\ result = [t \in Execution |-> "none"]
  /\ appended = NoTurn /\ queue = <<>> /\ notices = <<>>
  /\ sending = NotSending /\ pending = NoTurn /\ active = Inactive /\ flow = NoTurn
  /\ bridge = "off" /\ serving = {} /\ unanswered = [t \in Turn |-> 0]
  /\ mode = "up" /\ faults = 0 /\ restarts = 0

(***************************************************************************)
(* The window: the user's actions.                                         *)
(***************************************************************************)

(* commit_current_message, behind the composer's own conditions. *)
Send(t) ==
  /\ mode = "up"
  /\ t \in Authored
  /\ t \notin committed /\ ~\E i \in DOMAIN queue : queue[i] = Item(t, "commit")
  /\ sending = NotSending
  /\ Connected => Idle
  /\ sending' = [turn |-> t, remote |-> Connected]
  /\ Queue(<<Item(t, "commit")>>)
  /\ UNCHANGED <<journal, appended, notices, pending, active, flow, sidecar,
                 mode, faults, restarts>>

(* Mutant: whether the turn was dispatched is not looked at. *)
DispatchExecutionAgain(t) ==
  /\ mode = "up"
  /\ t \in Execution
  /\ Idle /\ Connected
  /\ AuditReplays([e \in Execution |-> Seen(e)])
  /\ Dispatches(t) < MaxDispatches
  /\ pending' = t
  /\ Queue(<<Item(t, "dispatched")>>)
  /\ UNCHANGED <<journal, appended, notices, sending, active, flow, sidecar,
                 mode, faults, restarts>>

(* dispatch_worker_continuation_execution: a message being committed is    *)
(* not looked at, and whether the turn was dispatched is judged from the   *)
(* window's own copy of the journal.                                       *)
DispatchExecution(t) ==
  /\ mode = "up"
  /\ t \in Execution
  /\ Idle /\ Connected
  /\ AuditReplays([e \in Execution |-> Seen(e)])
  /\ ~Holds(Seen(t), "dispatched")
  /\ Dispatches(t) < MaxDispatches
  /\ pending' = t
  /\ Queue(<<Item(t, "dispatched")>>)
  /\ UNCHANGED <<journal, appended, notices, sending, active, flow, sidecar,
                 mode, faults, restarts>>

(* continue_agent_after_admitted_result: the outcome of the outstanding    *)
(* tool call is admitted and its turn resumes, whatever the window is      *)
(* doing by then; or the user stops the continuation.                      *)
ResumeAfterTool ==
  /\ mode = "up"
  /\ flow # NoTurn
  /\ flow' = NoTurn
  /\ \/ /\ Dispatches(flow) < MaxDispatches
        /\ pending' = flow
        /\ Queue(<<Item(flow, "dispatched")>>)
     \/ UNCHANGED <<pending, queue>>
  /\ UNCHANGED <<journal, appended, notices, sending, active, sidecar, mode,
                 faults, restarts>>

(* start_chatgpt_sign_in, up to the connected session: many frames, each   *)
(* of which first drains the notices there are.                            *)
Connect ==
  /\ mode = "up"
  /\ bridge = "off"
  /\ notices = <<>>
  /\ bridge' = "connected"
  /\ UNCHANGED <<journal, persistence, window, serving, unanswered, mode, faults, restarts>>

(***************************************************************************)
(* The persistence worker.                                                 *)
(***************************************************************************)
Working == mode \in {"up", "closing"}

Notify(items) == notices' = IF mode = "up" THEN notices \o items ELSE <<>>

PersistCommit ==
  /\ Working /\ appended = NoTurn
  /\ queue # <<>> /\ Head(queue).kind = "commit"
  /\ committed' = committed \cup {Head(queue).turn}
  /\ queue' = Tail(queue)
  /\ Notify(<<Head(queue)>>)
  /\ UNCHANGED <<trail, result, appended, window, sidecar, mode, faults, restarts>>

(* AppendTurnEvent appends what it is given; an ending of a continuation   *)
(* has a second append to come before the notice.                          *)
PersistEvidence ==
  /\ Working /\ appended = NoTurn
  /\ queue # <<>> /\ Head(queue).kind \in Evidence
  /\ LET t == Head(queue).turn
         kind == Head(queue).kind
     IN  /\ trail' = [trail EXCEPT ![t] = Append(@, kind)]
         /\ IF kind \in Ending /\ t \in Execution
            THEN appended' = t /\ UNCHANGED notices
            ELSE Notify(<<Item(t, kind)>>) /\ UNCHANGED appended
  /\ queue' = Tail(queue)
  /\ UNCHANGED <<committed, result, window, sidecar, mode, faults, restarts>>

(* Mutant: the result follows the latest evidence and may be replaced. *)
PersistLatestResult ==
  /\ Working /\ appended # NoTurn
  /\ result' = [result EXCEPT ![appended] = Last(trail[appended])]
  /\ Notify(<<Item(appended, Last(trail[appended]))>>)
  /\ appended' = NoTurn
  /\ UNCHANGED <<committed, trail, queue, window, sidecar, mode, faults, restarts>>

(* append_worker_continuation_result_if_terminal *)
PersistResult ==
  /\ Working /\ appended # NoTurn
  /\ LET ending == Item(appended, Last(trail[appended]))
     IN  IF AuditReplays(trail)
         THEN /\ result' = [result EXCEPT ![appended] =
                              IF @ = "none" THEN Outcome(trail[appended]) ELSE @]
              /\ Notify(<<ending>>)
         ELSE /\ UNCHANGED result
              /\ Notify(<<ending, Item(appended, "error")>>)
  /\ appended' = NoTurn
  /\ UNCHANGED <<committed, trail, queue, window, sidecar, mode, faults, restarts>>

(* An append fails, and the window is told.  A message whose one-shot      *)
(* memory selection fails is in the journal and reported failed all the    *)
(* same; an ending stands without its result.                              *)
PersistFails ==
  /\ Working
  /\ faults < MaxFaults
  /\ faults' = faults + 1
  /\ \/ /\ appended = NoTurn /\ queue # <<>>
        /\ queue' = Tail(queue)
        /\ Notify(<<Item(Head(queue).turn, "error")>>)
        /\ \/ Head(queue).kind = "commit" /\ committed' = committed \cup {Head(queue).turn}
           \/ UNCHANGED committed
        /\ UNCHANGED appended
     \/ /\ appended # NoTurn
        /\ AuditReplays(trail) /\ result[appended] = "none"
        /\ Notify(<<Item(appended, Last(trail[appended])), Item(appended, "error")>>)
        /\ appended' = NoTurn
        /\ UNCHANGED <<committed, queue>>
  /\ UNCHANGED <<trail, result, window, sidecar, mode, restarts>>

(***************************************************************************)
(* The window: notices.                                                    *)
(***************************************************************************)
Notice(t, kinds) ==
  /\ mode = "up"
  /\ notices # <<>>
  /\ Head(notices).turn = t /\ Head(notices).kind \in kinds
  /\ notices' = Tail(notices)

(* The command channel takes a request while the sidecar runs.  It may     *)
(* still do so when the sidecar has exited, until its writer looks, and    *)
(* when only its reader has given up: then nobody answers.                 *)
Submit(t) ==
  \/ bridge = "connected" /\ serving' = serving \cup {t}
  \/ bridge # "connected" /\ UNCHANGED serving

(* Mutant: the request leaves when its dispatch is queued. *)
NoticeCommittedSubmits(t) ==
  /\ Notice(t, {"commit"})
  /\ sending' = NotSending
  /\ \/ /\ sending.turn = t /\ sending.remote
        /\ Submit(t)
        /\ unanswered' = [unanswered EXCEPT ![t] = @ + 1]
        /\ active' = [Inactive EXCEPT !.turn = t]
        /\ Queue(<<Item(t, "dispatched")>>)
     \/ UNCHANGED <<active, unanswered, serving, queue>>
  /\ UNCHANGED <<journal, appended, pending, flow, bridge, mode, faults, restarts>>

(* MessageCommitted: the frozen intent, if there is one and its context    *)
(* can be composed, becomes the pending turn, in place of any other.       *)
NoticeCommitted(t) ==
  /\ Notice(t, {"commit"})
  /\ sending' = NotSending
  /\ \/ /\ sending.turn = t /\ sending.remote
        /\ pending' = t
        /\ Queue(<<Item(t, "dispatched")>>)
     \/ UNCHANGED <<pending, queue>>
  /\ UNCHANGED <<journal, appended, active, flow, sidecar, mode, faults, restarts>>

(* The dispatch is durable: its request leaves, and becomes the active     *)
(* turn in place of any other.                                             *)
SubmitPending(t) ==
  /\ Notice(t, {"dispatched"})
  /\ pending = t
  /\ pending' = NoTurn
  /\ Submit(t)
  /\ unanswered' = [unanswered EXCEPT ![t] = @ + 1]
  /\ active' = [Inactive EXCEPT !.turn = t]
  /\ UNCHANGED <<journal, appended, queue, sending, flow, bridge, mode, faults, restarts>>

(* The channel is closed. *)
SubmitRefused(t) ==
  /\ Notice(t, {"dispatched"})
  /\ pending = t
  /\ bridge # "connected"
  /\ pending' = NoTurn
  /\ Queue(<<Item(t, "interrupted")>>)
  /\ UNCHANGED <<journal, appended, sending, active, flow, sidecar, mode, faults, restarts>>

NoticeOther(t) ==
  /\ Notice(t, Evidence)
  /\ ~(Head(notices).kind = "dispatched" /\ pending = t)
  /\ UNCHANGED <<journal, appended, queue, window, sidecar, mode, faults, restarts>>

(* Mutant: a failure releases the turn but not the composer. *)
NoticeErrorKeepsCommit(t) ==
  /\ Notice(t, {"error"})
  /\ pending' = IF pending = t THEN NoTurn ELSE pending
  /\ UNCHANGED <<journal, appended, queue, sending, active, flow, sidecar, mode,
                 faults, restarts>>

(* Failed: the composer, or the pending turn, is released. *)
NoticeError(t) ==
  /\ Notice(t, {"error"})
  /\ sending' = IF sending.turn = t THEN NotSending ELSE sending
  /\ pending' = IF pending = t THEN NoTurn ELSE pending
  /\ UNCHANGED <<journal, appended, queue, active, flow, sidecar, mode, faults, restarts>>

(***************************************************************************)
(* The window: what the sidecar answers.  An answer is taken only for the  *)
(* active turn, and ends it; a request whose turn is no longer the active  *)
(* one is answered in vain.                                                *)
(***************************************************************************)
Answers(t) == mode = "up" /\ bridge = "connected" /\ t \in serving

Takes(t) == Answers(t) /\ active.turn = t

Report(t, kinds) == Queue([i \in DOMAIN kinds |-> Item(t, kinds[i])])

(* The first Delta. *)
Output(t) ==
  /\ Takes(t)
  /\ ~active.output
  /\ active' = [active EXCEPT !.output = TRUE]
  /\ Report(t, <<"output">>)
  /\ UNCHANGED <<journal, appended, notices, sending, pending, flow, sidecar,
                 mode, faults, restarts>>

(* ResponseCompleted.  The text may ask for a coordination operation, done *)
(* at once, so that the same turn is dispatched again; for a tool, whose   *)
(* outcome will resume it; or for nothing.                                 *)
Complete(t) ==
  /\ Takes(t)
  /\ serving' = serving \ {t}
  /\ active' = Inactive
  /\ unanswered' = [unanswered EXCEPT ![t] = @ - 1]
  /\ LET observed == IF active.output THEN <<"completed">> ELSE <<"output", "completed">>
     IN  \/ /\ Report(t, observed \o <<"dispatched">>)
            /\ Dispatches(t) < MaxDispatches
            /\ pending' = t /\ flow' = NoTurn
         \/ Report(t, observed) /\ flow' = t /\ UNCHANGED pending
         \/ Report(t, observed) /\ flow' = NoTurn /\ UNCHANGED pending
  /\ UNCHANGED <<journal, appended, notices, sending, bridge, mode, faults,
                 restarts>>

(* Mutant: the number of retries is not limited. *)
RateLimitedForever(t) ==
  /\ Takes(t)
  /\ ~active.output /\ active.retries <= MaxRetries
  /\ serving' = serving \ {t}
  /\ active' = [active EXCEPT !.retries = @ + 1, !.waiting = TRUE]
  /\ UNCHANGED <<journal, persistence, sending, pending, flow, bridge, unanswered,
                 mode, faults, restarts>>

(* Failed, with HTTP 429 and no output: the request is resubmitted later.  *)
RateLimited(t) ==
  /\ Takes(t)
  /\ ~active.output /\ active.retries < MaxRetries
  /\ serving' = serving \ {t}
  /\ active' = [active EXCEPT !.retries = @ + 1, !.waiting = TRUE]
  /\ UNCHANGED <<journal, persistence, sending, pending, flow, bridge, unanswered, mode,
                 faults, restarts>>

(* Failed, with a definite rejection.  Output that came before it is       *)
(* reported interrupted as well.                                           *)
FailDefinitely(t) ==
  /\ Takes(t)
  /\ serving' = serving \ {t}
  /\ active' = Inactive /\ flow' = NoTurn
  /\ Report(t, IF active.output THEN <<"failed", "interrupted">> ELSE <<"failed">>)
  /\ UNCHANGED <<journal, appended, notices, sending, pending, bridge, unanswered, mode,
                 faults, restarts>>

(* Failed, with an outcome that is unknown; a cancelled response is one.   *)
FailUnknown(t) ==
  /\ Takes(t)
  /\ serving' = serving \ {t}
  /\ active' = Inactive /\ flow' = NoTurn
  /\ Report(t, <<"interrupted">>)
  /\ UNCHANGED <<journal, appended, notices, sending, pending, bridge, unanswered, mode,
                 faults, restarts>>

AnswerInVain(t) ==
  /\ Answers(t) /\ active.turn # t
  /\ serving' = serving \ {t}
  /\ UNCHANGED <<journal, persistence, window, bridge, unanswered, mode, faults, restarts>>

(* process_due_delivery_retry.  When the channel is closed the turn is let *)
(* go with nothing reported.                                               *)
Resubmit ==
  /\ mode = "up"
  /\ active.waiting
  /\ \/ Submit(active.turn) /\ active' = [active EXCEPT !.waiting = FALSE]
     \/ bridge # "connected" /\ active' = Inactive /\ UNCHANGED serving
  /\ UNCHANGED <<journal, persistence, sending, pending, flow, bridge, unanswered, mode,
                 faults, restarts>>

SidecarDies ==
  /\ bridge = "connected"
  /\ bridge' = "dead"
  /\ serving' = {}
  /\ UNCHANGED <<journal, persistence, window, unanswered, mode, faults, restarts>>

Interrupted(t) == IF t = NoTurn THEN <<>> ELSE <<Item(t, "interrupted")>>

(* RuntimeUnavailable: whatever was active or pending is interrupted. *)
NoticeSidecarDead ==
  /\ mode = "up"
  /\ bridge = "dead"
  /\ bridge' = "off"
  /\ active' = Inactive /\ pending' = NoTurn
  /\ Queue(Interrupted(active.turn) \o Interrupted(pending))
  /\ UNCHANGED <<journal, appended, notices, sending, flow, serving, unanswered, mode,
                 faults, restarts>>

(***************************************************************************)
(* The program: closing, crashing and starting.                            *)
(***************************************************************************)
Forget ==
  /\ notices' = <<>>
  /\ sending' = NotSending /\ pending' = NoTurn /\ active' = Inactive /\ flow' = NoTurn
  /\ bridge' = "off" /\ serving' = {}

(* The window is dropped: it reports the active turn, or else the pending  *)
(* one, and the worker finishes its queue.                                 *)
Close ==
  /\ mode = "up"
  /\ mode' = "closing"
  /\ Queue(Interrupted(IF active # Inactive THEN active.turn ELSE pending))
  /\ Forget
  /\ UNCHANGED <<journal, appended, unanswered, faults, restarts>>

Closed ==
  /\ mode = "closing" /\ queue = <<>> /\ appended = NoTurn
  /\ mode' = "down"
  /\ UNCHANGED <<journal, persistence, window, sidecar, faults, restarts>>

Crash ==
  /\ mode \in {"up", "closing"}
  /\ mode' = "down"
  /\ queue' = <<>> /\ appended' = NoTurn
  /\ Forget
  /\ UNCHANGED <<journal, unanswered, faults, restarts>>

(* What recovery would append, to every turn of a set. *)
Interrupt(turns) ==
  [t \in Turn |-> IF t \in turns THEN Append(trail[t], "interrupted") ELSE trail[t]]

(* Mutant: an ending of an earlier dispatch hides the latest one. *)
StrandedUnlessEverEnded == { t \in Turn : Holds(trail[t], "dispatched") /\ ~Ended(trail[t]) }

(* Mutant: continuations are not recovered. *)
StrandedMessages == { t \in Authored : Stranded(t, trail[t]) }

StrandedTurns == { t \in Turn : Stranded(t, trail[t]) }

(* The results recovery records, once its interruptions are durable. *)
Record(turns) ==
  [t \in Execution |->
     IF t \in turns /\ result[t] = "none" THEN Outcome(trail'[t]) ELSE result[t]]

(* recover_interrupted_remote_turns, at startup: it interrupts what was    *)
(* left without an ending and then records the results that are due, or    *)
(* does neither when the audit of the continuations does not replay.       *)
Start ==
  /\ mode = "down"
  /\ restarts < MaxRestarts
  /\ restarts' = restarts + 1
  /\ mode' = "recovered"
  /\ IF AuditReplays(trail)
     THEN trail' = Interrupt(StrandedTurns) /\ result' = Record(Execution)
     ELSE UNCHANGED <<trail, result>>
  /\ UNCHANGED <<committed, persistence, window, sidecar, faults>>

(* Startup is killed among its appends: interruptions of messages, then of *)
(* continuations, then results.                                            *)
StartCutShort ==
  /\ mode = "down"
  /\ restarts < MaxRestarts
  /\ restarts' = restarts + 1
  /\ AuditReplays(trail)
  /\ \/ \E turns \in SUBSET StrandedTurns :
          /\ turns \cap Execution # {} => StrandedTurns \cap Authored \subseteq turns
          /\ trail' = Interrupt(turns)
          /\ UNCHANGED result
     \/ \E turns \in SUBSET Execution :
          /\ trail' = Interrupt(StrandedTurns)
          /\ result' = Record(turns)
  /\ UNCHANGED <<committed, persistence, window, sidecar, mode, faults>>

Open ==
  /\ mode = "recovered"
  /\ mode' = "up"
  /\ UNCHANGED <<journal, persistence, window, sidecar, faults, restarts>>

UserStep == (\E t \in Turn : Send(t) \/ DispatchExecution(t)) \/ ResumeAfterTool \/ Connect

WorkerStep == PersistCommit \/ PersistEvidence \/ PersistResult \/ PersistFails

NoticeStep ==
  \E t \in Turn :
    NoticeCommitted(t) \/ SubmitPending(t) \/ SubmitRefused(t) \/ NoticeOther(t)
      \/ NoticeError(t)

SidecarStep ==
  \/ \E t \in Turn :
       \/ Output(t) \/ Complete(t) \/ RateLimited(t)
       \/ FailDefinitely(t) \/ FailUnknown(t) \/ AnswerInVain(t)
  \/ Resubmit \/ SidecarDies \/ NoticeSidecarDead

ProgramStep == Close \/ Closed \/ Crash \/ Start \/ StartCutShort \/ Open

Next == UserStep \/ WorkerStep \/ NoticeStep \/ SidecarStep \/ ProgramStep

Spec == Init /\ [][Next]_vars

(* The worker and the window loop over their channels, the window repaints *)
(* while a turn is pending, and a process that is down may stay down.      *)
FairSpec == Spec /\ WF_vars(WorkerStep) /\ WF_vars(NoticeStep)
-----------------------------------------------------------------------------
(* The type invariant. *)
TypeOK ==
  /\ committed \subseteq Authored
  /\ trail \in [Turn -> Seq(Evidence)]
  /\ result \in [Execution -> Ending \cup {"none"}]
  /\ appended \in Execution \cup {NoTurn}
  /\ queue \in Seq([turn : Turn, kind : Evidence \cup {"commit"}])
  /\ notices \in Seq([turn : Turn, kind : Evidence \cup {"commit", "error"}])
  /\ sending \in [turn : Authored \cup {NoTurn}, remote : BOOLEAN]
  /\ pending \in Turn \cup {NoTurn}
  /\ active \in [turn : Turn \cup {NoTurn}, output : BOOLEAN,
                 retries : 0..MaxRetries, waiting : BOOLEAN]
  /\ flow \in Turn \cup {NoTurn}
  /\ bridge \in {"off", "connected", "dead"}
  /\ serving \subseteq Turn
  /\ unanswered \in [Turn -> Nat]
  /\ mode \in {"down", "recovered", "up", "closing"}

(* "ONLY NOW may a remote adapter dispatch": a message leaves the machine  *)
(* only after it is durable, and a request only after its dispatch is,     *)
(* however notices, crashes and reconnections fall.                        *)
LocalCommitGate ==
  \A t \in Turn :
    /\ unanswered[t] > 0 => Holds(trail[t], "dispatched")
    /\ t \in Authored /\ Holds(trail[t], "dispatched") => t \in committed

(* A turn is submitted again only after an earlier request of it completed *)
(* and asked for more: what failed, or has an outcome that is unknown, is  *)
(* repeated by no dispatch, in no session.  HTTP 429 apart.                *)
NoBlindResend == \A t \in Turn : unanswered[t] <= 1

(* The composer and the dispatch buttons are blocked while a message or a  *)
(* turn waits for the persistence worker.  What they wait for is always on *)
(* its way: no lost, swallowed or overtaken notice blocks them for good.   *)
NoLostWait ==
  mode = "up" =>
    /\ pending # NoTurn =>
         \/ \E i \in DOMAIN queue : queue[i] = Item(pending, "dispatched")
         \/ \E i \in DOMAIN notices :
              notices[i] \in {Item(pending, "dispatched"), Item(pending, "error")}
    /\ sending # NotSending =>
         \/ \E i \in DOMAIN queue : queue[i] = Item(sending.turn, "commit")
         \/ \E i \in DOMAIN notices :
              notices[i] \in {Item(sending.turn, "commit"), Item(sending.turn, "error")}

(* "Always surface EOF to the desktop so an OAuth flow or active response  *)
(* cannot remain indefinitely in the apparent ... streaming state"         *)
(* (siwc_bridge.rs): the active turn, which blocks every other, is one the *)
(* sidecar is working on, one that will be resubmitted, or one whose       *)
(* sidecar has failed and whose failure is about to be noticed.            *)
ActiveIsServed ==
  active # Inactive => active.turn \in serving \/ active.waiting \/ bridge = "dead"

(* A continuation's result is its first ending, whatever else is observed, *)
(* appended or recovered later.                                            *)
ResultIsFirstEnding ==
  \A t \in Execution : result[t] # "none" =>
    \E i \in DOMAIN trail[t] :
      trail[t][i] = result[t] /\ \A j \in 1..(i - 1) : trail[t][j] \notin Ending

(* After a start no dispatched turn is without an ending, and no ended     *)
(* continuation without a result.                                          *)
Settled ==
  /\ \A t \in Turn : ~Stranded(t, trail[t])
  /\ \A t \in Execution : Ended(trail[t]) => result[t] # "none"

(* A start settles everything, wherever the last run or an earlier start   *)
(* was cut off, as long as the audit of the continuations replays.         *)
StartSettlesReplayable == mode = "recovered" /\ AuditReplays(trail) => Settled

(* "Restart recovery records an interruption for stranded continuation     *)
(* turns and backfills a terminal result when terminal transport evidence  *)
(* exists" (docs/LOCAL_ORCHESTRATION_IDENTITY.md).                         *)
StartSettles == mode = "recovered" => Settled

(* Neither the composer nor a pending turn blocks the window for ever.     *)
WaitsEnd ==
  /\ sending # NotSending ~> sending = NotSending
  /\ pending # NoTurn ~> pending = NoTurn
=============================================================================
