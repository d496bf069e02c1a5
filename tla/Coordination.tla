---------------------------- MODULE Coordination ----------------------------
(***************************************************************************)
(* The coordination workspace: workers of one container send each other    *)
(* messages along the edges the operator draws, an edge delivers, holds or *)
(* meters what it carries, and a worker the operator has armed is woken by *)
(* a directive delivered to it, which starts a turn no one has written.    *)
(*                                                                         *)
(* The workspace is one file, replaced whole; an operation whose save      *)
(* fails puts its own copy back, so the copy in memory and the file are    *)
(* one state here.  "saved" says whether a save succeeds where what has    *)
(* already happened, a request sent or a worker disarmed, stays.           *)
(*                                                                         *)
(* Each event of a turn is queued for the persistence worker, and its      *)
(* notice read by the window when it is in the journal: "queue" holds the  *)
(* events in between.  Turns are told apart by the directive whose wake    *)
(* they are; a message the user wrote starts the turn "Authored".          *)
(***************************************************************************)
EXTENDS Naturals, Sequences, FiniteSets, FiniteSetsExt, WorkspacePromises

CONSTANTS
  Worker,             \* the members of the container
  Displayed,          \* those whose chats the user opens
  Edge,               \* the edges the operator draws, pairs of workers
  Policy,             \* what may be set on an edge
  MaxMessages,        \* bound: messages ever sent
  Allowance,          \* claims a lease grants
  MaxWakes,           \* wakes in one run of the program
  MaxRetries,         \* resubmissions after HTTP 429
  MaxRestarts,        \* bound: restarts of the program
  PrecheckNeedsClaim  \* the envelope is built before the claim is made

ASSUME CoordinationAssumption ==
  /\ Displayed \subseteq Worker
  /\ Edge \subseteq { e \in Worker \X Worker : e[1] # e[2] }
  /\ Policy \subseteq [directives : BOOLEAN, reports : BOOLEAN,
                       mode : {"allow", "block", "queue", "approve", "rate_limit"},
                       rate : Nat]
  /\ Window \in Nat \ {0}
  /\ {MaxMessages, Allowance, MaxWakes, MaxRetries, MaxRestarts} \subseteq Nat
  /\ PrecheckNeedsClaim \in BOOLEAN

VARIABLES
  lease,      \* each worker's wake lease
  armed,      \* the workers armed in this run of the program
  wakes,      \* the wakes of this run of the program
  waking,     \* the wake whose start is being journaled
  sending,    \* the message the user is committing
  pending,    \* the turn whose dispatch is being journaled
  queue,      \* events on their way to the journal and back
  restarts

file == <<link, message, lease>>

window == <<armed, wakes, waking, sending, pending, active, queue>>

history == <<ago, asked, halted>>

vars == <<file, window, restarts, history>>

-----------------------------------------------------------------------------
Kind == {"directive", "report"}

Status == {"delivered", "consumed", "queued", "approval", "blocked", "rejected", "deleted"}

(* Why a message is as it is, where something depends on it. *)
Note == {"policy", "rate", "released", "admitted"}

(* A message that is not delivered, and one delivered longer ago than the  *)
(* limit looks back, count alike.                                          *)
Age == 0..Window

Id == 1..MaxMessages

None == 0

Authored == MaxMessages + 1

Turn == Id \cup {Authored}

Message ==
  [from : Worker, to : Worker, kind : Kind, status : Status, note : Note, age : Age]

Lease == [remaining : 0..Allowance, active : {None} \cup Id, claimed : SUBSET Id]

Event == [kind : {"committed", "started", "attempted", "ended"}, turn : Turn]

Carries(route, kind) ==
  /\ route # NoLink
  /\ IF kind = "directive" THEN route.directives ELSE route.reports

Between(i, a, b) == message[i].from = a /\ message[i].to = b

Along(i, j) == Between(i, message[j].from, message[j].to)

RouteOf(i) == RouteFor(message[i].from, message[i].to)

Allowed(i) == Carries(RouteOf(i), message[i].kind)

Recent(a, b) ==
  Cardinality({ i \in DOMAIN message : Between(i, a, b) /\ message[i].age < Window })

RateQueued(i) == message[i].status = "queued" /\ message[i].note = "rate"

Backlog(a, b) == \E i \in DOMAIN message : Between(i, a, b) /\ RateQueued(i)

Inbox(w) == { i \in DOMAIN message : message[i].to = w /\ message[i].status = "delivered" }

(* wake_message_is_authorized, and the last part of validate_wake_claim. *)
Wakes(i, admitted) ==
  /\ message[i].kind = "directive"
  /\ Carries(RouteOf(i), "directive")
  /\ \/ RouteOf(i).mode \in {"allow", "rate_limit"}
     \/ /\ RouteOf(i).mode \in {"queue", "approve"}
        /\ message[i].note = "released" \/ admitted

(* validate_wake_claim *)
ClaimValid(w, i) ==
  /\ lease[w].active = i
  /\ i \in DOMAIN message /\ message[i].to = w
  /\ LET admitted == message[i].status = "consumed" /\ message[i].note = "admitted"
     IN  (message[i].status = "delivered" \/ admitted) /\ Wakes(i, admitted)

Eligible(w) ==
  IF lease[w].remaining = 0 \/ lease[w].active # None
  THEN {}
  ELSE { i \in Inbox(w) \ lease[w].claimed : Wakes(i, FALSE) }

Busy == waking # NoTurn \/ sending # NoTurn \/ pending # NoTurn \/ active # NoTurn

Runs(slot, t) == slot # NoTurn /\ slot.turn = t

TypeOK ==
  /\ DOMAIN link \subseteq Edge /\ \A e \in DOMAIN link : link[e] \in Policy
  /\ message \in Seq(Message) /\ Len(message) <= MaxMessages
  /\ lease \in [Worker -> Lease]
  /\ armed \subseteq Worker
  /\ wakes \in 0..MaxWakes
  /\ waking = NoTurn \/ waking \in [turn : Id, worker : Worker]
  /\ sending = NoTurn \/ sending \in [worker : Worker, ids : SUBSET Id]
  /\ pending = NoTurn \/ pending \in [turn : Turn, worker : Worker, ids : SUBSET Id,
                                      first : BOOLEAN]
  /\ active = NoTurn \/ active \in [turn : Turn, worker : Worker, first : BOOLEAN,
                                    waits : BOOLEAN, retries : 0..MaxRetries]
  /\ queue \in Seq(Event)
  /\ restarts \in 0..MaxRestarts
  /\ ago \in Seq(Age) /\ Len(ago) = Len(message)
  /\ asked \subseteq Id /\ halted \subseteq Id

Init ==
  /\ link = <<>> /\ message = <<>>
  /\ lease = [w \in Worker |-> [remaining |-> 0, active |-> None, claimed |-> {}]]
  /\ armed = {} /\ wakes = 0
  /\ waking = NoTurn /\ sending = NoTurn /\ pending = NoTurn /\ active = NoTurn
  /\ queue = <<>>
  /\ restarts = 0
  /\ ago = <<>> /\ asked = {} /\ halted = {}

-----------------------------------------------------------------------------
(***************************************************************************)
(* Messages.                                                               *)
(***************************************************************************)
Delivery(a, b, kind, held) ==
  LET r == RouteFor(a, b)
  IN  CASE ~Carries(r, kind) \/ r.mode = "block" -> <<"blocked", "policy">>
        [] r.mode = "queue" -> <<"queued", "policy">>
        [] r.mode = "approve" -> <<"approval", "policy">>
        [] r.mode = "rate_limit" /\ (held \/ Recent(a, b) >= r.rate) -> <<"queued", "rate">>
        [] OTHER -> <<"delivered", "policy">>

AgeOf(verdict) == IF verdict[1] = "delivered" THEN 0 ELSE Window

Post(a, b, kind, verdict) ==
  /\ message' = Append(message, [from |-> a, to |-> b, kind |-> kind, status |-> verdict[1],
                                 note |-> verdict[2], age |-> AgeOf(verdict)])
  /\ ago' = Append(ago, AgeOf(verdict))

(* Mutant: a new message is judged by the window alone. *)
PutPastBacklog(a, b, kind) ==
  a # b /\ Len(message) < MaxMessages /\ Post(a, b, kind, Delivery(a, b, kind, FALSE))

(* send *)
Put(a, b, kind) ==
  /\ a # b /\ Len(message) < MaxMessages
  /\ Post(a, b, kind, Delivery(a, b, kind, Backlog(a, b)))

SendMessage(a, b, kind) ==
  Put(a, b, kind) /\ UNCHANGED <<link, lease, window, restarts, asked, halted>>

(* set_link *)
SetLink(e, policy) ==
  /\ link' = [d \in DOMAIN link \cup {e} |-> IF d = e THEN policy ELSE link[d]]
  /\ UNCHANGED <<message, lease, window, restarts, history>>

Restamped(i, status, note) ==
  /\ message' = [message EXCEPT ![i].status = status, ![i].note = note,
                                ![i].age = IF status = "delivered" THEN 0 ELSE @]
  /\ ago' = [ago EXCEPT ![i] = IF status = "delivered" THEN 0 ELSE @]

(* decide: the operator releases or rejects, and authority is looked at    *)
(* again.                                                                  *)
Decide(i, allow) ==
  /\ message[i].status \in {"queued", "approval"}
  /\ IF allow /\ Allowed(i) /\ RouteOf(i).mode # "block"
     THEN Restamped(i, "delivered", "released")
     ELSE Restamped(i, "rejected", "policy")
  /\ UNCHANGED <<link, lease, window, restarts, asked, halted>>

(* Still metered: it stays in its queue, and is otherwise rejected. *)
Metered(i) == RateQueued(i) /\ Allowed(i) /\ RouteOf(i).mode = "rate_limit"

Turns(i) ==
  LET before == { j \in 1..i : Metered(j) /\ Along(j, i) }
  IN  Recent(message[i].from, message[i].to) + Cardinality(before) <= RouteOf(i).rate

(* advance_rate_queues: in the order of their ids, as many as there is     *)
(* room for on each edge.                                                  *)
AdvanceQueues ==
  LET released == { i \in DOMAIN message : Metered(i) /\ Turns(i) }
      dropped == { i \in DOMAIN message : RateQueued(i) /\ ~Metered(i) }
  IN  /\ released \cup dropped # {}
      /\ message' = [i \in DOMAIN message |->
           CASE i \in released -> [message[i] EXCEPT !.status = "delivered",
                                                     !.note = "policy", !.age = 0]
             [] i \in dropped -> [message[i] EXCEPT !.status = "rejected", !.note = "policy"]
             [] OTHER -> message[i]]
      /\ ago' = [i \in DOMAIN message |-> IF i \in released THEN 0 ELSE ago[i]]
      /\ UNCHANGED <<link, lease, window, restarts, asked, halted>>

(* Mutant: the tombstone forgets the delivery. *)
EraseMessage(i) ==
  /\ message[i].status # "consumed"
  /\ message' = [message EXCEPT ![i].status = "deleted", ![i].note = "policy",
                                ![i].age = Window]
  /\ UNCHANGED <<link, lease, window, restarts, history>>

(* delete_message: the tombstone keeps the time of the delivery. *)
DeleteMessage(i) ==
  /\ message[i].status # "consumed"
  /\ message' = [message EXCEPT ![i].status = "deleted", ![i].note = "policy"]
  /\ UNCHANGED <<link, lease, window, restarts, history>>

(* A tick of the clock. *)
Tick ==
  /\ \E i \in DOMAIN message : message[i].age < Window \/ ago[i] < Window
  /\ message' = [i \in DOMAIN message |-> [message[i] EXCEPT !.age = Min({@ + 1, Window})]]
  /\ ago' = [i \in DOMAIN message |-> Min({ago[i] + 1, Window})]
  /\ UNCHANGED <<link, lease, window, restarts, asked, halted>>

-----------------------------------------------------------------------------
(***************************************************************************)
(* The wake lease, and the operator who grants and stops it.               *)
(***************************************************************************)
(* Mutant: a lease is granted anew, whatever it had claimed. *)
GrantAnew(w) ==
  /\ lease[w].active = None
  /\ lease' = [lease EXCEPT ![w] = [remaining |-> Allowance, active |-> None, claimed |-> {}]]
  /\ armed' = armed \cup {w}
  /\ UNCHANGED <<link, message, wakes, waking, sending, pending, active, queue, restarts,
                 history>>

(* grant_wake_lease, and the window that arms the worker when it is saved. *)
Grant(w) ==
  /\ w \notin armed
  /\ lease[w].active = None
  /\ lease' = [lease EXCEPT ![w].remaining = Allowance]
  /\ armed' = armed \cup {w}
  /\ UNCHANGED <<link, message, wakes, waking, sending, pending, active, queue, restarts,
                 history>>

(* stop_wake_lease: the worker is disarmed whether or not that is saved. *)
Stop(w, saved) ==
  /\ w \in armed
  /\ armed' = armed \ {w}
  /\ lease' = IF saved THEN [lease EXCEPT ![w].remaining = 0, ![w].active = None] ELSE lease
  /\ halted' = halted \cup ({lease[w].active} \ {None})
  /\ UNCHANGED <<link, message, wakes, waking, sending, pending, active, queue, restarts,
                 ago, asked>>

(* maybe_wake_open_coordination_worker: of the workers whose chat, model   *)
(* and settings are ready, the one with the oldest directive.  The saved   *)
(* claim is spent whatever becomes of the wake.                            *)
Candidates(ready) == { w \in armed \cap ready : Eligible(w) # {} }

Claim(ready, saved) ==
  /\ ~Busy /\ wakes < MaxWakes
  /\ Candidates(ready) # {}
  /\ LET w == CHOOSE v \in Candidates(ready) :
                \A u \in Candidates(ready) : Min(Eligible(v)) <= Min(Eligible(u))
         i == Min(Eligible(w))
     IN  /\ PrecheckNeedsClaim => ClaimValid(w, i)
         /\ IF saved
            THEN /\ lease' = [lease EXCEPT ![w].remaining = @ - 1, ![w].active = i,
                                           ![w].claimed = @ \cup {i}]
                 /\ waking' = [turn |-> i, worker |-> w]
                 /\ queue' = Append(queue, [kind |-> "started", turn |-> i])
                 /\ wakes' = wakes + 1
                 /\ UNCHANGED armed
            ELSE /\ armed' = armed \ {w}
                 /\ UNCHANGED <<lease, waking, queue, wakes>>
  /\ UNCHANGED <<link, message, sending, pending, active, restarts, history>>

-----------------------------------------------------------------------------
(***************************************************************************)
(* Turns.                                                                  *)
(***************************************************************************)
(* commit_current_message: the inbox the request will carry is the one of  *)
(* now.  A wake whose start is being journaled is not looked at.           *)
CommitMessage(w) ==
  /\ sending = NoTurn /\ pending = NoTurn /\ active = NoTurn
  /\ sending' = [worker |-> w, ids |-> Inbox(w)]
  /\ queue' = Append(queue, [kind |-> "committed", turn |-> Authored])
  /\ UNCHANGED <<file, armed, wakes, waking, pending, active, restarts, history>>

Notice(kind) == queue # <<>> /\ Head(queue).kind = kind

FollowedBy(kind) == Append(Tail(queue), [kind |-> kind, turn |-> Head(queue).turn])

(* MessageCommitted: the pending turn, in place of any other, unless the   *)
(* message was sent locally or its context cannot be composed.             *)
NoticeCommitted ==
  /\ Notice("committed")
  /\ sending' = NoTurn
  /\ \/ /\ pending' = [turn |-> Authored, worker |-> sending.worker, ids |-> sending.ids,
                       first |-> TRUE]
        /\ queue' = FollowedBy("attempted")
     \/ UNCHANGED pending /\ queue' = Tail(queue)
  /\ UNCHANGED <<file, armed, wakes, waking, active, restarts, history>>

(* dispatch_durable_coordination_wake: it may also be given up because the *)
(* bridge is gone or its context cannot be composed.  The claim stays.     *)
NoticeStarted ==
  /\ Notice("started")
  /\ waking' = NoTurn
  /\ \/ /\ Runs(waking, Head(queue).turn)
        /\ waking.worker \in armed
        /\ ClaimValid(waking.worker, waking.turn)
        /\ pending = NoTurn /\ active = NoTurn
        /\ pending' = [turn |-> waking.turn, worker |-> waking.worker, ids |-> {waking.turn},
                       first |-> TRUE]
        /\ queue' = FollowedBy("attempted")
     \/ UNCHANGED pending /\ queue' = Tail(queue)
  /\ UNCHANGED <<file, armed, wakes, sending, active, restarts, history>>

MaySend(turn) ==
  turn.turn \in Id => turn.worker \in armed /\ ClaimValid(turn.worker, turn.turn)

(* consume_ids, put back if it cannot be saved. *)
Consume(turn, saved) ==
  LET read == turn.ids \cap Inbox(turn.worker)
  IN  message' = [i \in DOMAIN message |->
        IF saved /\ i \in read
        THEN [message[i] EXCEPT !.status = "consumed", !.note = "admitted"]
        ELSE message[i]]

(* The turn whose request has left. *)
Sent(turn) ==
  [turn |-> turn.turn, worker |-> turn.worker, first |-> turn.first,
   waits |-> FALSE, retries |-> 0]

(* Mutant: the claim is not looked at again. *)
SendWhateverClaim(saved) ==
  /\ Notice("attempted") /\ Runs(pending, Head(queue).turn)
  /\ active' = Sent(pending)
  /\ Consume(pending, saved)
  /\ asked' = asked \cup ({pending.turn} \cap Id)
  /\ pending' = NoTurn /\ queue' = Tail(queue)
  /\ UNCHANGED <<link, lease, armed, wakes, waking, sending, restarts, ago, halted>>

(* DispatchAttempted is durable: the request leaves. *)
SendRequest(saved) ==
  /\ Notice("attempted") /\ Runs(pending, Head(queue).turn)
  /\ MaySend(pending)
  /\ active' = Sent(pending)
  /\ Consume(pending, saved)
  /\ asked' = asked \cup ({pending.turn} \cap Id)
  /\ pending' = NoTurn /\ queue' = Tail(queue)
  /\ UNCHANGED <<link, lease, armed, wakes, waking, sending, restarts, ago, halted>>

(* It does not: the wake was disarmed or its sender's authority revoked,   *)
(* or the bridge takes no request.                                         *)
WithholdRequest ==
  /\ Notice("attempted") /\ Runs(pending, Head(queue).turn)
  /\ pending' = NoTurn /\ queue' = FollowedBy("ended")
  /\ UNCHANGED <<file, armed, wakes, waking, sending, active, restarts, history>>

(* Another turn has taken the place of this one. *)
NoticeDisplaced ==
  /\ Notice("attempted") /\ ~Runs(pending, Head(queue).turn)
  /\ queue' = Tail(queue)
  /\ UNCHANGED <<file, armed, wakes, waking, sending, pending, active, restarts, history>>

(* finish_durable_coordination_wake: the claim is closed, unless the turn  *)
(* goes on.  If that cannot be saved every worker is disarmed.             *)
NoticeEnded(saved) ==
  /\ Notice("ended")
  /\ LET t == Head(queue).turn
         closes == { w \in Worker : lease[w].active = t }
     IN  IF Runs(pending, t) \/ Runs(active, t) \/ closes = {}
         THEN UNCHANGED <<lease, armed>>
         ELSE IF saved
              THEN /\ lease' = [w \in Worker |-> IF w \in closes
                                 THEN [lease[w] EXCEPT !.active = None] ELSE lease[w]]
                   /\ UNCHANGED armed
              ELSE armed' = {} /\ UNCHANGED lease
  /\ queue' = Tail(queue)
  /\ UNCHANGED <<link, message, wakes, waking, sending, pending, active, restarts, history>>

(* The journal refuses an event of a turn. *)
NoticeFailed ==
  /\ queue # <<>>
  /\ LET t == Head(queue).turn
     IN  /\ sending' = IF Head(queue).kind = "committed" THEN NoTurn ELSE sending
         /\ waking' = IF Runs(waking, t) THEN NoTurn ELSE waking
         /\ armed' = IF Runs(waking, t) THEN {} ELSE armed
         /\ pending' = IF Runs(pending, t) THEN NoTurn ELSE pending
  /\ queue' = Tail(queue)
  /\ UNCHANGED <<file, wakes, active, restarts, history>>

(* HTTP 429 before any output: the turn waits, to be sent again.           *)
RateLimited ==
  /\ active # NoTurn
  /\ ~active.waits /\ active.retries < MaxRetries
  /\ active' = [active EXCEPT !.waits = TRUE, !.retries = @ + 1]
  /\ UNCHANGED <<file, armed, wakes, waking, sending, pending, queue, restarts, history>>

(* process_due_delivery_retry: nothing is looked at again, and a turn the  *)
(* bridge does not take is given up without a word to the journal.         *)
Resubmit ==
  /\ active # NoTurn
  /\ active.waits
  /\ active' \in {[active EXCEPT !.waits = FALSE], NoTurn}
  /\ UNCHANGED <<file, armed, wakes, waking, sending, pending, queue, restarts, history>>

(* The answer is in, or a failure that is not tried again; or, while it    *)
(* waits too, the sidecar is gone.                                         *)
EndTurn ==
  /\ active # NoTurn
  /\ active' = NoTurn
  /\ queue' = Append(queue, [kind |-> "ended", turn |-> active.turn])
  /\ UNCHANGED <<file, armed, wakes, waking, sending, pending, restarts, history>>

(* execute_coordination_proposal: the answer asks for an operation, in a   *)
(* chat that is displayed or by a wake that still stands; the turn goes on *)
(* with its result.  A turn may ask so once.                               *)
ContinueTurn ==
  /\ active # NoTurn
  /\ active.first /\ ~active.waits
  /\ active' = NoTurn
  /\ pending' = [turn |-> active.turn, worker |-> active.worker, ids |-> {}, first |-> FALSE]
  /\ queue' = queue \o <<[kind |-> "ended", turn |-> active.turn],
                         [kind |-> "attempted", turn |-> active.turn]>>
  /\ \/ \E b \in Worker, kind \in Kind : Put(active.worker, b, kind)
     \/ UNCHANGED <<message, ago>>
  /\ UNCHANGED <<link, lease, armed, wakes, waking, sending, restarts, asked, halted>>

(* The program is closed or killed, and started again: nobody is armed.    *)
Restart ==
  /\ restarts < MaxRestarts
  /\ restarts' = restarts + 1
  /\ armed' = {} /\ wakes' = 0
  /\ waking' = NoTurn /\ sending' = NoTurn /\ pending' = NoTurn /\ active' = NoTurn
  /\ queue' = <<>>
  /\ UNCHANGED <<file, history>>

-----------------------------------------------------------------------------
Operator ==
  \/ \E e \in Edge, policy \in Policy : SetLink(e, policy)
  \/ \E a, b \in Worker, kind \in Kind : SendMessage(a, b, kind)
  \/ \E i \in DOMAIN message, allow \in BOOLEAN : Decide(i, allow)
  \/ \E i \in DOMAIN message : DeleteMessage(i)
  \/ \E w \in Displayed : Grant(w) \/ CommitMessage(w)
  \/ \E w \in Worker, saved \in BOOLEAN : Stop(w, saved)

Wake == \E ready \in SUBSET Worker, saved \in BOOLEAN : Claim(ready, saved)

Notices ==
  \/ NoticeCommitted \/ NoticeStarted \/ WithholdRequest \/ NoticeDisplaced \/ NoticeFailed
  \/ \E saved \in BOOLEAN : SendRequest(saved) \/ NoticeEnded(saved)

Next ==
  \/ Operator \/ Wake \/ Notices
  \/ AdvanceQueues \/ Tick \/ RateLimited \/ Resubmit \/ EndTurn \/ ContinueTurn \/ Restart

Spec == Init /\ [][Next]_vars

(* Every frame the window tries to wake a worker, and the claim is saved.  *)
FairSpec == Spec /\ WF_vars(Claim(Worker, TRUE))

-----------------------------------------------------------------------------
(***************************************************************************)
(* Properties.                                                             *)
(***************************************************************************)
Waiting(w) == w \in armed /\ Eligible(w) # {} /\ ~Busy /\ wakes < MaxWakes

(* An armed worker with a directive it may be woken by, while nothing else *)
(* is going on, does not wait for ever.                                    *)
WakesHappen == \A w \in Worker : Waiting(w) ~> ~Waiting(w)
=============================================================================
