---------------------------- MODULE ControlPlane ----------------------------
(***************************************************************************)
(* A controller conversation supervising workers: worker goals and         *)
(* lifecycles, bounded continuation leases and their permits, and the      *)
(* controls a controller proposes, the user allows or denies, and a worker *)
(* is sent, acknowledges and carries out.                                  *)
(*                                                                         *)
(* The persistence worker is the only writer of the journal and performs   *)
(* one operation of journal_ops at a time, but an operation appends up to  *)
(* five events one by one: "op" says which operation is between two of its *)
(* appends, and Crash ends it there, as a kill of the process or a failed  *)
(* append does.  Every other operation is one append and one action.       *)
(*                                                                         *)
(* What is kept is what the journal's replays project.  Each append has    *)
(* two conditions: the guard of the operation that makes it, and what the  *)
(* audits that replay the journal require of it (the Accepts operators).   *)
(* "replays" remembers whether the audits accepted every append: once one  *)
(* is not accepted every later operation fails, at every restart.          *)
(*                                                                         *)
(* Which sessions supervise which workers is fixed: the program binds a    *)
(* worker's session and its controller once and never moves them.          *)
(***************************************************************************)
EXTENDS Naturals, Sequences, FiniteSets, WorkerLifecycle

CONSTANTS
  Worker,          \* the supervised workers
  MaxControls,     \* bound: controls ever admitted
  MaxGoals,        \* bound: goals ever assigned to one worker
  MaxLeases,       \* bound: continuation leases ever created
  MaxAllowance     \* bound: the largest allowance of a lease

ASSUME ControlPlaneAssumption ==
  /\ MaxControls \in Nat
  /\ MaxGoals \in Nat
  /\ MaxLeases \in Nat
  /\ MaxAllowance \in Nat

VARIABLES
  worker,          \* each worker's goal and phase
  mover,           \* the control its last lifecycle event names, if any
  lease,           \* the leases, in the order of their ids
  permit,          \* the permits, in the order they were issued
  control,         \* the controls and their routes, in the order of their ids
  op,              \* the operation that is between two of its appends
  replays          \* history: the audits accepted every event appended

vars == <<worker, mover, lease, permit, control, op, replays>>

-----------------------------------------------------------------------------
Goal == 1..MaxGoals

ControlId == 1..MaxControls

Decision == {"Pending", "Allow", "Deny"}

(* What the journal holds of a control, from its admission to what its     *)
(* kind ends with.  A control and its route are bound one to one, so one   *)
(* record stands for both.                                                 *)
Stage == {"admitted", "issued", "proposed", "bound", "dispatched",
          "delivered", "acknowledged", "reported", "started", "moved",
          "done", "executed"}

Undispatched == {"admitted", "issued", "proposed", "bound"}

NoPermit == 0

NoControl == 0

Unspent == 0

Lease == [worker : Worker, goal : Goal, allowance : 1..MaxAllowance,
          issued : 0..MaxAllowance]

Permit == [lease : 1..MaxLeases, ordinal : 1..MaxAllowance,
           spentOn : 0..MaxControls]

(* "from" is the phase a mutating control's action started in; "overtaken" *)
(* says that another lifecycle event of the worker followed that start.    *)
Control == [worker : Worker, goal : Goal, kind : Kind, permit : Nat,
            stage : Stage, decision : Decision, from : Phase,
            overtaken : BOOLEAN]

Idle == [doing |-> "nothing", on |-> 0]

Doing(name, n) == [doing |-> name, on |-> n]

(* A control whose effect, or refusal, the user no longer decides. *)
Sent(c) == control[c].stage \notin Undispatched

LifecycleOf(c) == worker[control[c].worker]

(* validate_control_freshness_before, at the next sequence *)
Fresh(c) == Admissible(LifecycleOf(c), control[c].goal, control[c].kind)

(* Mutant: the leases of every worker on the same goal number count. *)
LeaseForGoal(l, w) == lease[l].goal = worker[w].goal

LeaseFor(l, w) == lease[l].worker = w /\ lease[l].goal = worker[w].goal

(* Leases of the worker's goal with units left, and its permits that no    *)
(* control has consumed.                                                   *)
LiveLeases(w) ==
  { l \in DOMAIN lease : LeaseFor(l, w) /\ lease[l].issued < lease[l].allowance }

(* Mutant: a permit that a control has consumed still counts. *)
PermitsOfGoal(w) ==
  { p \in DOMAIN permit :
      LeaseFor(permit[p].lease, w) }

UnspentPermits(w) ==
  { p \in DOMAIN permit :
      LeaseFor(permit[p].lease, w) /\ permit[p].spentOn = Unspent }

Advance(c, stage) == control' = [control EXCEPT ![c].stage = stage]

(* A lifecycle event of w puts it after the start of every action that is  *)
(* started and not yet applied (last_sequence > started_sequence).         *)
Overtaken(w) ==
  [c \in DOMAIN control |->
     [control[c] EXCEPT
        !.overtaken = @ \/ (control[c].worker = w /\ control[c].stage = "started")]]
-----------------------------------------------------------------------------
(***************************************************************************)
(* What the audits require of each event, replaying the journal before it. *)
(***************************************************************************)
AcceptsGoal(w) == Assignable(worker[w])

AcceptsTransition(w, goal, action) == Applies(worker[w], goal, action)

AcceptsLease(w) ==
  worker[w].goal # NoGoal /\ worker[w].phase \notin Terminal

AcceptsPermit(l, ordinal) ==
  /\ l \in DOMAIN lease
  /\ Authorizes(lease[l], worker[lease[l].worker])
  /\ ordinal = lease[l].issued + 1

AcceptsAdmission(w, goal, kind, p) ==
  /\ Admissible(worker[w], goal, kind)
  /\ kind = "Continue" <=> p # NoPermit
  /\ kind = "Continue" =>
       /\ p \in DOMAIN permit
       /\ lease[permit[p].lease].worker = w
       /\ lease[permit[p].lease].goal = goal
       /\ permit[p].spentOn = Unspent

AcceptsIssuer(c) == control[c].stage = "admitted"

AcceptsProposal(c) == control[c].stage = "issued"

AcceptsBinding(c) == control[c].stage = "proposed" /\ Fresh(c)

(* The gate refuses a decision once the route has dispatched. *)
AcceptsDecision(c) == control[c].stage \in {"proposed", "bound"}

AcceptsDispatch(c) ==
  /\ control[c].stage = "bound"
  /\ control[c].decision = "Allow"
  /\ Fresh(c)

AcceptsDelivery(c) == control[c].stage = "dispatched"

AcceptsAcknowledgement(c) == control[c].stage = "delivered"

AcceptsStatus(c, phase) ==
  /\ control[c].stage = "acknowledged"
  /\ control[c].kind = "StatusRequest"
  /\ OnGoal(LifecycleOf(c), control[c].goal)
  /\ phase = LifecycleOf(c).phase

AcceptsStart(c, from) ==
  /\ control[c].stage = "acknowledged"
  /\ control[c].kind \in Mutating
  /\ Fresh(c)
  /\ from = LifecycleOf(c).phase

AcceptsMove(c) ==
  /\ AcceptsTransition(control[c].worker, control[c].goal, control[c].kind)
  /\ control[c].stage = "started"

AcceptsFinish(c) == control[c].stage = "moved"

AcceptsExecution(c) ==
  /\ control[c].stage = "acknowledged"
  /\ control[c].kind = "Continue"
  /\ permit[control[c].permit].spentOn = c
  /\ LeaseFor(permit[control[c].permit].lease, control[c].worker)
  /\ OnGoal(LifecycleOf(c), control[c].goal)
  /\ LifecycleOf(c).phase = "Working"

Judge(accepted) == replays' = (replays /\ accepted)
-----------------------------------------------------------------------------
Init ==
  /\ worker = [w \in Worker |-> Unassigned]
  /\ mover = [w \in Worker |-> NoControl]
  /\ lease = <<>>
  /\ permit = <<>>
  /\ control = <<>>
  /\ op = Idle
  /\ replays = TRUE

(***************************************************************************)
(* The worker's own lifecycle.                                             *)
(***************************************************************************)

(* append_worker_goal_checked, for the next goal, which is the one the     *)
(* desktop asks for.                                                       *)
AssignGoal(w) ==
  /\ op = Idle
  /\ worker[w].goal < MaxGoals
  /\ Assignable(worker[w])
  /\ Judge(AcceptsGoal(w))
  /\ worker' = [worker EXCEPT ![w] = [goal |-> @.goal + 1, phase |-> "Ready"]]
  /\ mover' = [mover EXCEPT ![w] = NoControl]
  /\ control' = Overtaken(w)
  /\ UNCHANGED <<lease, permit, op>>

(* append_worker_transition_checked: a transition the worker's user asks   *)
(* for.  Reporting progress, or observing a terminal fact again, leaves    *)
(* the lifecycle as it is and is appended all the same.                    *)
Transition(w, action) ==
  /\ op = Idle
  /\ Applies(worker[w], worker[w].goal, action)
  /\ Judge(AcceptsTransition(w, worker[w].goal, action))
  /\ worker' = [worker EXCEPT ![w] = Applied(@, action)]
  /\ mover' = [mover EXCEPT ![w] = NoControl]
  /\ control' = Overtaken(w)
  /\ UNCHANGED <<lease, permit, op>>

(***************************************************************************)
(* The controller: bounded authority, and proposals.                       *)
(***************************************************************************)

(* Mutant: an issued permit does not count as live authority. *)
CreateLeaseBesidePermit(w, allowance) ==
  /\ op = Idle
  /\ Len(lease) < MaxLeases
  /\ worker[w].goal # NoGoal
  /\ worker[w].phase \notin Terminal
  /\ LiveLeases(w) = {}
  /\ Judge(AcceptsLease(w))
  /\ lease' = Append(lease, [worker |-> w, goal |-> worker[w].goal,
                             allowance |-> allowance, issued |-> 0])
  /\ UNCHANGED <<worker, mover, permit, control, op>>

(* append_controller_continuation_lease_checked *)
CreateLease(w, allowance) ==
  /\ op = Idle
  /\ Len(lease) < MaxLeases
  /\ worker[w].goal # NoGoal
  /\ worker[w].phase \notin Terminal
  /\ LiveLeases(w) = {} /\ UnspentPermits(w) = {}
  /\ Judge(AcceptsLease(w))
  /\ lease' = Append(lease, [worker |-> w, goal |-> worker[w].goal,
                             allowance |-> allowance, issued |-> 0])
  /\ UNCHANGED <<worker, mover, permit, control, op>>

(* A proposal to continue first makes a permit durable, unless an earlier  *)
(* proposal left one.                                                      *)
IssuePermit(w) ==
  /\ op = Idle
  /\ Len(control) < MaxControls
  /\ UnspentPermits(w) = {}
  /\ \E l \in LiveLeases(w) :
       /\ LiveLeases(w) = {l}
       /\ Authorizes(lease[l], worker[w])
       /\ Judge(AcceptsPermit(l, lease[l].issued + 1))
       /\ lease' = [lease EXCEPT ![l].issued = @ + 1]
       /\ permit' = Append(permit, [lease |-> l, ordinal |-> lease[l].issued + 1,
                                    spentOn |-> Unspent])
  /\ op' = Doing("continue", Len(permit) + 1)
  /\ UNCHANGED <<worker, mover, control>>

Admit(w, kind, p) ==
  /\ Len(control) < MaxControls
  /\ Admissible(worker[w], worker[w].goal, kind)
  /\ Judge(AcceptsAdmission(w, worker[w].goal, kind, p))
  /\ control' = Append(control,
       [worker |-> w, goal |-> worker[w].goal, kind |-> kind, permit |-> p,
        stage |-> "admitted", decision |-> "Pending", from |-> "Unassigned",
        overtaken |-> FALSE])
  /\ op' = Doing("propose", Len(control) + 1)
  /\ UNCHANGED <<worker, mover, lease>>

(* Any other control is admitted first thing. *)
AdmitControl(w, kind) ==
  /\ op = Idle
  /\ kind # "Continue"
  /\ Admit(w, kind, NoPermit)
  /\ UNCHANGED permit

(* The permit a continue control consumes: the one just issued, or the one *)
(* an interrupted proposal left unspent.                                   *)
AdmitContinue(w) ==
  \E p \in UnspentPermits(w) :
    /\ UnspentPermits(w) = {p}
    /\ op = Idle \/ op = Doing("continue", p)
    /\ Admit(w, "Continue", p)
    /\ permit' = [permit EXCEPT ![p].spentOn = Len(control) + 1]

(* The rest of the proposal: who issued the control, the route it would    *)
(* take, and the binding of the two.  No condition is looked at again.     *)
BindIssuer(c) ==
  /\ op = Doing("propose", c) /\ control[c].stage = "admitted"
  /\ Judge(AcceptsIssuer(c))
  /\ Advance(c, "issued")
  /\ UNCHANGED <<worker, mover, lease, permit, op>>

ProposeRoute(c) ==
  /\ op = Doing("propose", c) /\ control[c].stage = "issued"
  /\ Judge(AcceptsProposal(c))
  /\ Advance(c, "proposed")
  /\ UNCHANGED <<worker, mover, lease, permit, op>>

(* Mutant: the proposal does not end. *)
BindRouteStaysBusy(c) ==
  /\ op = Doing("propose", c) /\ control[c].stage = "proposed"
  /\ Judge(AcceptsBinding(c))
  /\ Advance(c, "bound")
  /\ UNCHANGED <<worker, mover, lease, permit, op>>

BindRoute(c) ==
  /\ op = Doing("propose", c) /\ control[c].stage = "proposed"
  /\ Judge(AcceptsBinding(c))
  /\ Advance(c, "bound")
  /\ op' = Idle
  /\ UNCHANGED <<worker, mover, lease, permit>>

(***************************************************************************)
(* The user's decision, and the dispatch of an allowed route.              *)
(***************************************************************************)

(* Mutant: the dispatch does not close the route to decisions. *)
DecideAtAnyTime(c, decision) ==
  /\ op = Idle
  /\ control[c].stage \in {"bound", "dispatched", "delivered"}
  /\ control[c].decision # decision
  /\ Fresh(c)
  /\ Judge(AcceptsDecision(c))
  /\ control' = [control EXCEPT ![c].decision = decision]
  /\ UNCHANGED <<worker, mover, lease, permit, op>>

(* append_controller_control_route_decision_checked.  Either decision may  *)
(* replace the other until the route dispatches, while the control is      *)
(* still admissible; a control whose proposal was cut short has no route   *)
(* to decide.                                                              *)
Decide(c, decision) ==
  /\ op = Idle
  /\ control[c].stage = "bound"
  /\ control[c].decision # decision
  /\ Fresh(c)
  /\ Judge(AcceptsDecision(c))
  /\ control' = [control EXCEPT ![c].decision = decision]
  /\ UNCHANGED <<worker, mover, lease, permit, op>>

(* Mutant: the control's freshness is not looked at again. *)
DispatchStale(c) ==
  /\ op = Idle
  /\ control[c].stage = "bound"
  /\ control[c].decision = "Allow"
  /\ Judge(AcceptsDispatch(c))
  /\ Advance(c, "dispatched")
  /\ op' = Doing("dispatch", c)
  /\ UNCHANGED <<worker, mover, lease, permit>>

(* Mutant: a route that was not denied counts as allowed. *)
DispatchUnlessDenied(c) ==
  /\ op = Idle
  /\ control[c].stage = "bound"
  /\ control[c].decision # "Deny"
  /\ Fresh(c)
  /\ Judge(AcceptsDispatch(c))
  /\ Advance(c, "dispatched")
  /\ op' = Doing("dispatch", c)
  /\ UNCHANGED <<worker, mover, lease, permit>>

(* append_controller_control_dispatch_checked appends the dispatch, when   *)
(* the route has not dispatched yet, and then the delivery.                *)
DispatchRoute(c) ==
  /\ op = Idle
  /\ control[c].stage = "bound"
  /\ control[c].decision = "Allow"
  /\ Fresh(c)
  /\ Judge(AcceptsDispatch(c))
  /\ Advance(c, "dispatched")
  /\ op' = Doing("dispatch", c)
  /\ UNCHANGED <<worker, mover, lease, permit>>

(* Mutant: a late delivery is refused for a control gone stale. *)
DeliverIfFresh(c) ==
  /\ op \in {Idle, Doing("dispatch", c)}
  /\ control[c].stage = "dispatched"
  /\ Fresh(c)
  /\ Judge(AcceptsDelivery(c))
  /\ Advance(c, "delivered")
  /\ op' = Idle
  /\ UNCHANGED <<worker, mover, lease, permit>>

(* Asked for again after an interruption, it only delivers, whatever the   *)
(* worker has become in between.                                           *)
RecordDelivery(c) ==
  /\ op \in {Idle, Doing("dispatch", c)}
  /\ control[c].stage = "dispatched"
  /\ Judge(AcceptsDelivery(c))
  /\ Advance(c, "delivered")
  /\ op' = Idle
  /\ UNCHANGED <<worker, mover, lease, permit>>

(***************************************************************************)
(* The worker's side.                                                      *)
(***************************************************************************)

(* append_worker_control_acknowledgement_checked *)
Acknowledge(c) ==
  /\ op = Idle
  /\ control[c].stage = "delivered"
  /\ Judge(AcceptsAcknowledgement(c))
  /\ Advance(c, "acknowledged")
  /\ UNCHANGED <<worker, mover, lease, permit, op>>

(* append_worker_control_status_result_checked *)
ReportStatus(c) ==
  /\ op = Idle
  /\ control[c].kind = "StatusRequest"
  /\ control[c].stage = "acknowledged"
  /\ OnGoal(LifecycleOf(c), control[c].goal)
  /\ Judge(AcceptsStatus(c, LifecycleOf(c).phase))
  /\ Advance(c, "reported")
  /\ UNCHANGED <<worker, mover, lease, permit, op>>

(* append_worker_control_action_checked: a mutating control is started,    *)
(* moves the worker, and has its result recorded, in three appends; asked  *)
(* for again after an interruption, it goes on with the first one missing. *)
StartAction(c) ==
  /\ op = Idle
  /\ control[c].kind \in Mutating
  /\ control[c].stage = "acknowledged"
  /\ Fresh(c)
  /\ Judge(AcceptsStart(c, LifecycleOf(c).phase))
  /\ control' = [control EXCEPT ![c].stage = "started",
                                ![c].from = LifecycleOf(c).phase]
  /\ op' = Doing("apply", c)
  /\ UNCHANGED <<worker, mover, lease, permit>>

(* Mutant: the move does not overtake the worker's other controls. *)
MoveWorkerAlone(c) ==
  /\ op \in {Idle, Doing("apply", c)}
  /\ control[c].stage = "started"
  /\ ~control[c].overtaken
  /\ Fresh(c)
  /\ LifecycleOf(c).phase = control[c].from
  /\ Applies(LifecycleOf(c), control[c].goal, control[c].kind)
  /\ Judge(AcceptsMove(c))
  /\ worker' = [worker EXCEPT ![control[c].worker] = Applied(@, control[c].kind)]
  /\ mover' = [mover EXCEPT ![control[c].worker] = c]
  /\ Advance(c, "moved")
  /\ op' = Doing("apply", c)
  /\ UNCHANGED <<lease, permit>>

(* Mutant: asked for again, the action moves the worker a second time. *)
MoveWorkerAgain(c) ==
  /\ op \in {Idle, Doing("apply", c)}
  /\ control[c].stage \in {"started", "moved"}
  /\ ~control[c].overtaken
  /\ Applies(LifecycleOf(c), control[c].goal, control[c].kind)
  /\ Judge(AcceptsMove(c))
  /\ worker' = [worker EXCEPT ![control[c].worker] = Applied(@, control[c].kind)]
  /\ mover' = [mover EXCEPT ![control[c].worker] = c]
  /\ control' = [Overtaken(control[c].worker) EXCEPT
                   ![c] = [control[c] EXCEPT !.stage = "moved"]]
  /\ op' = Doing("apply", c)
  /\ UNCHANGED <<lease, permit>>

MoveWorker(c) ==
  /\ op \in {Idle, Doing("apply", c)}
  /\ control[c].stage = "started"
  /\ ~control[c].overtaken
  /\ Fresh(c)
  /\ LifecycleOf(c).phase = control[c].from
  /\ Applies(LifecycleOf(c), control[c].goal, control[c].kind)
  /\ Judge(AcceptsMove(c))
  /\ worker' = [worker EXCEPT ![control[c].worker] = Applied(@, control[c].kind)]
  /\ mover' = [mover EXCEPT ![control[c].worker] = c]
  /\ control' = [Overtaken(control[c].worker) EXCEPT
                   ![c] = [control[c] EXCEPT !.stage = "moved"]]
  /\ op' = Doing("apply", c)
  /\ UNCHANGED <<lease, permit>>

FinishAction(c) ==
  /\ op \in {Idle, Doing("apply", c)}
  /\ control[c].stage = "moved"
  /\ Judge(AcceptsFinish(c))
  /\ Advance(c, "done")
  /\ op' = Idle
  /\ UNCHANGED <<worker, mover, lease, permit>>

(* append_worker_continuation_execution_start_checked *)
StartExecution(c) ==
  /\ op = Idle
  /\ control[c].kind = "Continue"
  /\ control[c].stage = "acknowledged"
  /\ control[c].permit # NoPermit
  /\ OnGoal(LifecycleOf(c), control[c].goal)
  /\ LifecycleOf(c).phase = "Working"
  /\ Judge(AcceptsExecution(c))
  /\ Advance(c, "executed")
  /\ UNCHANGED <<worker, mover, lease, permit, op>>

(* The process is killed, or an append fails, between two appends: what    *)
(* was appended stays, and the rest is left to a later request.            *)
Crash ==
  /\ op # Idle
  /\ op' = Idle
  /\ UNCHANGED <<worker, mover, lease, permit, control, replays>>

WorkerStep(w) ==
  \/ AssignGoal(w)
  \/ \E action \in WorkerAction : Transition(w, action)

ControllerStep(w) ==
  \/ \E allowance \in 1..MaxAllowance : CreateLease(w, allowance)
  \/ IssuePermit(w)
  \/ \E kind \in Kind : AdmitControl(w, kind)
  \/ AdmitContinue(w)

ControlStep(c) ==
  \/ BindIssuer(c) \/ ProposeRoute(c) \/ BindRoute(c)
  \/ \E decision \in {"Allow", "Deny"} : Decide(c, decision)
  \/ DispatchRoute(c) \/ RecordDelivery(c)
  \/ Acknowledge(c) \/ ReportStatus(c)
  \/ StartAction(c) \/ MoveWorker(c) \/ FinishAction(c)
  \/ StartExecution(c)

Next ==
  \/ \E w \in Worker : WorkerStep(w) \/ ControllerStep(w)
  \/ \E c \in DOMAIN control : ControlStep(c)
  \/ Crash

Spec == Init /\ [][Next]_vars
-----------------------------------------------------------------------------
(* The operation under way is where the journal says it is. *)
OpInStep ==
  \/ op = Idle
  \/ \E p \in DOMAIN permit :
       op = Doing("continue", p) /\ permit[p].spentOn = Unspent
  \/ \E c \in DOMAIN control :
       \/ /\ op = Doing("propose", c)
          /\ control[c].stage \in {"admitted", "issued", "proposed"}
       \/ op = Doing("dispatch", c) /\ control[c].stage = "dispatched"
       \/ op = Doing("apply", c) /\ control[c].stage \in {"started", "moved"}

(* The type invariant: the projections the replays build. *)
TypeOK ==
  /\ worker \in [Worker -> [goal : 0..MaxGoals, phase : Phase]]
  /\ mover \in [Worker -> 0..MaxControls]
  /\ lease \in Seq(Lease) /\ Len(lease) <= MaxLeases
  /\ permit \in Seq(Permit)
  /\ control \in Seq(Control) /\ Len(control) <= MaxControls
  /\ replays \in BOOLEAN
  /\ OpInStep

(* Every event any sequence of operations appends, however they are        *)
(* interrupted, is accepted by the audits that replay the journal: what an *)
(* operation looked at still holds at each of its appends.                 *)
JournalReplays == replays

(* "already has live continuation authority", "ambiguous live continuation *)
(* leases" and "multiple issued unconsumed continuation permits" describe  *)
(* states the operations never reach: for one goal of one worker there is  *)
(* one source of further continuation at a time, a lease or a permit's.    *)
OneLiveAuthority ==
  \A w \in Worker :
    /\ Cardinality(LiveLeases(w)) <= 1
    /\ Cardinality(UnspentPermits(w)) <= 1
    /\ \A l \in LiveLeases(w), p \in UnspentPermits(w) : permit[p].lease = l

(* A permit and the control that consumed it name each other, for the same *)
(* worker and goal, and an ordinal of a lease is issued once: no two       *)
(* controls ever spend the same unit of the user's allowance.              *)
PermitsSpentOnce ==
  /\ \A c \in DOMAIN control : control[c].kind = "Continue" =>
       LET p == control[c].permit IN
         /\ p \in DOMAIN permit
         /\ permit[p].spentOn = c
         /\ lease[permit[p].lease].worker = control[c].worker
         /\ lease[permit[p].lease].goal = control[c].goal
  /\ \A p, q \in DOMAIN permit :
       /\ permit[p].lease = permit[q].lease /\ permit[p].ordinal = permit[q].ordinal
            => p = q
       /\ permit[p].ordinal <= lease[permit[p].lease].issued

(* Nothing leaves the controller that the user has not allowed, and a veto *)
(* stands: past the dispatch the decision is Allow for good.               *)
NothingSentUnallowed ==
  \A c \in DOMAIN control : Sent(c) => control[c].decision = "Allow"

(* What an interruption leaves half done can be taken up again: a route    *)
(* that dispatched can still be delivered, a worker that moved can have    *)
(* its result recorded, and an action that started can still move its      *)
(* worker if nothing else has moved it since.                              *)
InterruptedStepsFinish ==
  op = Idle =>
    \A c \in DOMAIN control :
      /\ control[c].stage = "dispatched" => ENABLED RecordDelivery(c)
      /\ control[c].stage = "moved" => ENABLED FinishAction(c)
      /\ control[c].stage = "started" /\ ~control[c].overtaken =>
           ENABLED MoveWorker(c)

(* An action that has started, and that no lifecycle event of its worker   *)
(* has followed, finds the worker exactly as it was: comparing sequence    *)
(* numbers is enough to tell a transition of the control's own from an     *)
(* unrelated one, also when another control of the worker makes it.        *)
UntouchedSinceStart ==
  \A c \in DOMAIN control :
    control[c].stage = "started" /\ ~control[c].overtaken =>
      LifecycleOf(c) = [goal |-> control[c].goal, phase |-> control[c].from]

(* What the user has let go stays let go: no later step takes back a       *)
(* dispatch, rewrites the decision it rests on, or gives the permit of one *)
(* control to another.                                                     *)
SentIsFinal ==
  [][/\ \A c \in DOMAIN control : Sent(c) =>
          Sent(c)' /\ control'[c].decision = control[c].decision
     /\ \A p \in DOMAIN permit : permit[p].spentOn # Unspent =>
          permit'[p] = permit[p]]_vars

(***************************************************************************)
(* Seen from outside: the units of the allowances, the controls that have  *)
(* dispatched, and those of them that have done nothing yet.               *)
(***************************************************************************)
Effective == {"reported", "moved", "done", "executed"}

UnitOf(l, n) == [worker |-> lease[l].worker, goal |-> lease[l].goal, name |-> <<l, n>>]

Granted == UNION { { UnitOf(l, n) : n \in 1..lease[l].allowance } : l \in DOMAIN lease }

SpentBy(c) == UnitOf(permit[control[c].permit].lease, permit[control[c].permit].ordinal)

Message(c) == [id |-> c, worker |-> control[c].worker, goal |-> control[c].goal,
               kind |-> control[c].kind]

Promise == INSTANCE SupervisedWorkers WITH
  Name <- ControlId,
  UnitName <- (1..MaxLeases) \X (1..MaxAllowance),
  lifecycle <- worker,
  NoName <- NoControl,
  granted <- Granted,
  spent <- { SpentBy(c) : c \in { d \in DOMAIN control :
                                  Sent(d) /\ control[d].kind = "Continue" } },
  sent <- { c \in DOMAIN control : Sent(c) },
  outstanding <- { Message(c) : c \in { d \in DOMAIN control :
                       Sent(d) /\ control[d].stage \notin Effective } }

(* Supervision keeps its promise: every step of the audited chain is a     *)
(* step of SupervisedWorkers, or changes nothing the user can see.         *)
KeepsPromise == Promise!Spec
=============================================================================
