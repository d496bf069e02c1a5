------------------------- MODULE ControlPlaneProofs -------------------------
(***************************************************************************)
(* Proofs about ControlPlane, for every set of workers and every bound.    *)
(*                                                                         *)
(* A step does one of few things to the controls: it appends one, or it    *)
(* changes the stage or the decision of one, and at most notes that others *)
(* were overtaken.  Who a control is for, and what it spends, never        *)
(* changes (SameControls); most of the lemmas rest on that.                *)
(*                                                                         *)
(* The second part is about ControllerTurns, the coordination turns the    *)
(* controls come from: its own inductive invariant says what each step may *)
(* append to the journal, and what is on its way between the window and    *)
(* the worker thread.                                                      *)
(***************************************************************************)
EXTENDS ControlPlane, TurnAudits, FiniteSetTheorems, SequenceTheorems,
        WellFoundedInduction, TLAPS

(* The controls keep their number and what they were admitted as. *)
SameControls ==
  /\ DOMAIN control' = DOMAIN control
  /\ \A c \in DOMAIN control :
       /\ control'[c].worker = control[c].worker
       /\ control'[c].goal = control[c].goal
       /\ control'[c].kind = control[c].kind
       /\ control'[c].permit = control[c].permit

(* One control is appended, for a worker and the goal it has. *)
OneMoreControl(w, kind, p) ==
  /\ Len(control) < MaxControls
  /\ Admissible(worker[w], worker[w].goal, kind)
  /\ control' = Append(control,
       [worker |-> w, goal |-> worker[w].goal, kind |-> kind, permit |-> p,
        stage |-> "admitted", decision |-> "Pending", from |-> "Unassigned",
        overtaken |-> FALSE])

-----------------------------------------------------------------------------
LEMMA Updated ==
  ASSUME NEW S, NEW s \in Seq(S), NEW i \in DOMAIN s, NEW e \in S
  PROVE  /\ [s EXCEPT ![i] = e] \in Seq(S)
         /\ Len([s EXCEPT ![i] = e]) = Len(s)
         /\ DOMAIN [s EXCEPT ![i] = e] = DOMAIN s
         /\ \A j \in DOMAIN s : [s EXCEPT ![i] = e][j] = IF j = i THEN e ELSE s[j]
<1>1. DOMAIN s = 1..Len(s)
  BY LenProperties
<1>2. i \in 1..Len(s)
  BY <1>1
<1>3. /\ [s EXCEPT ![i] = e] \in Seq(S)
      /\ Len([s EXCEPT ![i] = e]) = Len(s)
      /\ \A j \in 1..Len(s) : [s EXCEPT ![i] = e][j] = IF j = i THEN e ELSE s[j]
  BY <1>2, ExceptSeq
<1>4. DOMAIN [s EXCEPT ![i] = e] = DOMAIN s
  OBVIOUS
<1> QED BY <1>1, <1>3, <1>4

LEMMA Appended ==
  ASSUME NEW S, NEW s \in Seq(S), NEW e \in S
  PROVE  /\ Append(s, e) \in Seq(S)
         /\ Len(Append(s, e)) = Len(s) + 1
         /\ DOMAIN s = 1..Len(s)
         /\ DOMAIN Append(s, e) = 1..(Len(s) + 1)
         /\ \A j \in DOMAIN s : Append(s, e)[j] = s[j]
         /\ Append(s, e)[Len(s) + 1] = e
OBVIOUS

(* One control gets a stage, a decision and a phase it started from, and   *)
(* nothing else changes in any.                                            *)
Edited(c, stage, decision, from) ==
  /\ control' \in Seq(Control) /\ Len(control') = Len(control)
  /\ DOMAIN control' = DOMAIN control
  /\ \A d \in DOMAIN control : d # c => control'[d] = control[d]
  /\ control'[c].worker = control[c].worker
  /\ control'[c].goal = control[c].goal
  /\ control'[c].kind = control[c].kind
  /\ control'[c].permit = control[c].permit
  /\ control'[c].stage = stage
  /\ control'[c].decision = decision
  /\ control'[c].from = from
  /\ control'[c].overtaken = control[c].overtaken

LEMMA EditedFacts ==
  ASSUME NEW c \in DOMAIN control, NEW stage \in Stage, NEW decision \in Decision,
         NEW from \in Phase, control \in Seq(Control),
         control' = [control EXCEPT ![c] = [control[c] EXCEPT !.stage = stage,
                                              !.decision = decision, !.from = from]]
  PROVE  Edited(c, stage, decision, from)
<1> DEFINE e == [control[c] EXCEPT !.stage = stage, !.decision = decision, !.from = from]
<1>1. control[c] \in Control
  BY LenProperties
<1>2. /\ e \in Control
      /\ e.worker = control[c].worker /\ e.goal = control[c].goal
      /\ e.kind = control[c].kind /\ e.permit = control[c].permit
      /\ e.stage = stage /\ e.decision = decision /\ e.from = from
      /\ e.overtaken = control[c].overtaken
  BY <1>1 DEF Control
<1>3. control' = [control EXCEPT ![c] = e]
  OBVIOUS
<1> HIDE DEF e
<1>4. /\ control' \in Seq(Control) /\ Len(control') = Len(control)
      /\ DOMAIN control' = DOMAIN control
      /\ \A d \in DOMAIN control : control'[d] = IF d = c THEN e ELSE control[d]
  BY <1>2, <1>3, Updated
<1> QED BY <1>2, <1>4 DEF Edited

(* An update that restates a component of a record leaves it as it is. *)
LEMMA Restated ==
  ASSUME NEW r \in Control
  PROVE  /\ \A stage : [r EXCEPT !.stage = stage] =
              [r EXCEPT !.stage = stage, !.decision = r.decision, !.from = r.from]
         /\ \A decision : [r EXCEPT !.decision = decision] =
              [r EXCEPT !.stage = r.stage, !.decision = decision, !.from = r.from]
         /\ \A stage, from : [r EXCEPT !.stage = stage, !.from = from] =
              [r EXCEPT !.stage = stage, !.decision = r.decision, !.from = from]
BY DEF Control

(* Giving one control another stage. *)
LEMMA AdvanceFacts ==
  ASSUME NEW c \in DOMAIN control, NEW stage \in Stage,
         control \in Seq(Control), Advance(c, stage)
  PROVE  Edited(c, stage, control[c].decision, control[c].from)
<1>1. control[c] \in Control
  BY LenProperties
<1>2. control[c].decision \in Decision /\ control[c].from \in Phase
  BY <1>1 DEF Control
<1>3. control' = [control EXCEPT ![c] = [control[c] EXCEPT !.stage = stage]]
  BY DEF Advance
<1> QED BY <1>1, <1>2, <1>3, Restated, EditedFacts

(* Noting that the started actions of a worker were overtaken. *)
LEMMA OvertakenFacts ==
  ASSUME NEW w, control \in Seq(Control)
  PROVE  /\ Overtaken(w) \in Seq(Control) /\ Len(Overtaken(w)) = Len(control)
         /\ DOMAIN Overtaken(w) = DOMAIN control
         /\ \A d \in DOMAIN control :
              /\ Overtaken(w)[d].worker = control[d].worker
              /\ Overtaken(w)[d].goal = control[d].goal
              /\ Overtaken(w)[d].kind = control[d].kind
              /\ Overtaken(w)[d].permit = control[d].permit
              /\ Overtaken(w)[d].stage = control[d].stage
              /\ Overtaken(w)[d].decision = control[d].decision
              /\ Overtaken(w)[d].from = control[d].from
              /\ Overtaken(w)[d].overtaken <=>
                   \/ control[d].overtaken
                   \/ control[d].worker = w /\ control[d].stage = "started"
<1>1. DOMAIN control = 1..Len(control) /\ Len(control) \in Nat
  BY LenProperties
<1>2. \A d \in DOMAIN control : control[d] \in Control
  BY LenProperties
<1>3. DOMAIN Overtaken(w) = 1..Len(control)
  BY <1>1 DEF Overtaken
<1>4. ASSUME NEW d \in DOMAIN control
      PROVE  /\ Overtaken(w)[d] \in Control
             /\ Overtaken(w)[d].worker = control[d].worker
             /\ Overtaken(w)[d].goal = control[d].goal
             /\ Overtaken(w)[d].kind = control[d].kind
             /\ Overtaken(w)[d].permit = control[d].permit
             /\ Overtaken(w)[d].stage = control[d].stage
             /\ Overtaken(w)[d].decision = control[d].decision
             /\ Overtaken(w)[d].from = control[d].from
             /\ Overtaken(w)[d].overtaken <=>
                  \/ control[d].overtaken
                  \/ control[d].worker = w /\ control[d].stage = "started"
  <2> DEFINE now == control[d].overtaken
                      \/ (control[d].worker = w /\ control[d].stage = "started")
  <2>1. Overtaken(w)[d] = [control[d] EXCEPT !.overtaken = now]
    BY Zenon DEF Overtaken
  <2>2. control[d] \in Control
    BY <1>2
  <2>3. now \in BOOLEAN
    BY <2>2, Zenon DEF Control
  <2>4. \A b \in BOOLEAN :
          LET e == [control[d] EXCEPT !.overtaken = b]
          IN  /\ e \in Control
              /\ e.worker = control[d].worker /\ e.goal = control[d].goal
              /\ e.kind = control[d].kind /\ e.permit = control[d].permit
              /\ e.stage = control[d].stage /\ e.decision = control[d].decision
              /\ e.from = control[d].from /\ e.overtaken = b
    BY <2>2 DEF Control
  <2> HIDE DEF now
  <2>5. LET e == Overtaken(w)[d]
        IN  /\ e \in Control
            /\ e.worker = control[d].worker /\ e.goal = control[d].goal
            /\ e.kind = control[d].kind /\ e.permit = control[d].permit
            /\ e.stage = control[d].stage /\ e.decision = control[d].decision
            /\ e.from = control[d].from /\ e.overtaken = now
    BY <2>1, <2>3, <2>4, Zenon
  <2> QED BY <2>5, Zenon DEF now
<1>5. Overtaken(w) \in [1..Len(control) -> Control]
  BY <1>1, <1>3, <1>4 DEF Overtaken
<1>6. Overtaken(w) \in Seq(Control) /\ Len(Overtaken(w)) = Len(control)
  BY <1>1, <1>5
<1> QED BY <1>1, <1>3, <1>4, <1>6, Zenon

-----------------------------------------------------------------------------
(***************************************************************************)
(* What each step does to the controls.                                    *)
(***************************************************************************)

(* The steps that do nothing but give one control another stage. *)
AdvanceOnly(c, stage) ==
  Advance(c, stage) /\ UNCHANGED <<worker, mover, lease, permit>>

LEMMA ControlTyped ==
  ASSUME control \in Seq(Control)
  PROVE  /\ DOMAIN control = 1..Len(control) /\ Len(control) \in Nat
         /\ \A c \in DOMAIN control : control[c] \in Control /\ c # NoControl
BY LenProperties DEF NoControl

LEMMA DecideFacts ==
  ASSUME NEW c \in DOMAIN control, NEW decision \in {"Allow", "Deny"},
         control \in Seq(Control), Decide(c, decision)
  PROVE  Edited(c, control[c].stage, decision, control[c].from)
<1>1. control[c] \in Control
  BY ControlTyped
<1>2. control[c].stage \in Stage /\ control[c].from \in Phase /\ decision \in Decision
  BY <1>1 DEF Control, Decision
<1>3. control' = [control EXCEPT ![c] = [control[c] EXCEPT !.decision = decision]]
  BY DEF Decide
<1> QED BY <1>1, <1>2, <1>3, Restated, EditedFacts

LEMMA StartActionFacts ==
  ASSUME NEW c \in DOMAIN control, TypeOK, StartAction(c)
  PROVE  Edited(c, "started", control[c].decision, LifecycleOf(c).phase)
<1>1. control[c] \in Control /\ control \in Seq(Control)
  BY ControlTyped DEF TypeOK
<1>2. /\ LifecycleOf(c).phase \in Phase
      /\ control[c].decision \in Decision /\ "started" \in Stage
  BY <1>1 DEF TypeOK, Control, LifecycleOf, Stage
<1>3. control' = [control EXCEPT ![c] = [control[c] EXCEPT !.stage = "started",
                                              !.from = LifecycleOf(c).phase]]
  BY DEF StartAction
<1> QED BY <1>1, <1>2, <1>3, Restated, EditedFacts

LEMMA MoveWorkerFacts ==
  ASSUME NEW c \in DOMAIN control, control \in Seq(Control), MoveWorker(c)
  PROVE  /\ control' \in Seq(Control) /\ Len(control') = Len(control)
         /\ DOMAIN control' = DOMAIN control
         /\ \A d \in DOMAIN control :
              d # c => control'[d] = Overtaken(control[c].worker)[d]
         /\ control'[c].worker = control[c].worker
         /\ control'[c].goal = control[c].goal
         /\ control'[c].kind = control[c].kind
         /\ control'[c].permit = control[c].permit
         /\ control'[c].stage = "moved"
         /\ control'[c].decision = control[c].decision
<1> DEFINE others == Overtaken(control[c].worker)
           moved == [control[c] EXCEPT !.stage = "moved"]
<1>1. others \in Seq(Control) /\ Len(others) = Len(control) /\ DOMAIN others = DOMAIN control
  BY OvertakenFacts
<1>2. /\ moved \in Control
      /\ moved.worker = control[c].worker /\ moved.goal = control[c].goal
      /\ moved.kind = control[c].kind /\ moved.permit = control[c].permit
      /\ moved.stage = "moved" /\ moved.decision = control[c].decision
  BY ControlTyped DEF Control, Stage
<1>3. control' = [others EXCEPT ![c] = moved]
  BY DEF MoveWorker
<1> HIDE DEF others, moved
<1>4. /\ control' \in Seq(Control) /\ Len(control') = Len(others)
      /\ DOMAIN control' = DOMAIN others
      /\ \A d \in DOMAIN others : control'[d] = IF d = c THEN moved ELSE others[d]
  BY <1>1, <1>2, <1>3, Updated
<1> QED BY <1>1, <1>2, <1>4 DEF others

(* Every other step of a control gives it a stage that its decision        *)
(* permits.                                                                *)
AdvanceFreely(c, stage) ==
  /\ stage \in Stage \ {"started", "moved"}
  /\ AdvanceOnly(c, stage)
  /\ stage \in Undispatched \/ Sent(c) \/ control[c].decision = "Allow"
  /\ Sent(c) => stage \notin Undispatched

LEMMA ControlStepShapes ==
  ASSUME NEW c \in DOMAIN control, ControlStep(c)
  PROVE  \/ \E stage \in Stage : AdvanceFreely(c, stage)
         \/ \E decision \in {"Allow", "Deny"} : Decide(c, decision)
         \/ StartAction(c)
         \/ MoveWorker(c)
<1> USE DEF Stage, AdvanceFreely, AdvanceOnly, Sent, Undispatched
<1>1. CASE BindIssuer(c)
  <2>1. AdvanceFreely(c, "issued")
    BY <1>1 DEF BindIssuer
  <2> QED BY <2>1
<1>2. CASE ProposeRoute(c)
  <2>1. AdvanceFreely(c, "proposed")
    BY <1>2 DEF ProposeRoute
  <2> QED BY <2>1
<1>3. CASE BindRoute(c)
  <2>1. AdvanceFreely(c, "bound")
    BY <1>3 DEF BindRoute
  <2> QED BY <2>1
<1>4. CASE DispatchRoute(c)
  <2>1. AdvanceFreely(c, "dispatched")
    BY <1>4 DEF DispatchRoute
  <2> QED BY <2>1
<1>5. CASE RecordDelivery(c)
  <2>1. AdvanceFreely(c, "delivered")
    BY <1>5 DEF RecordDelivery
  <2> QED BY <2>1
<1>6. CASE Acknowledge(c)
  <2>1. AdvanceFreely(c, "acknowledged")
    BY <1>6 DEF Acknowledge
  <2> QED BY <2>1
<1>7. CASE ReportStatus(c)
  <2>1. AdvanceFreely(c, "reported")
    BY <1>7 DEF ReportStatus
  <2> QED BY <2>1
<1>8. CASE FinishAction(c)
  <2>1. AdvanceFreely(c, "done")
    BY <1>8 DEF FinishAction
  <2> QED BY <2>1
<1>9. CASE StartExecution(c)
  <2>1. AdvanceFreely(c, "executed")
    BY <1>9 DEF StartExecution
  <2> QED BY <2>1
<1> QED BY <1>1, <1>2, <1>3, <1>4, <1>5, <1>6, <1>7, <1>8, <1>9 DEF ControlStep

LEMMA ControlStepKeeps ==
  ASSUME NEW c \in DOMAIN control, TypeOK, ControlStep(c)
  PROVE  /\ SameControls
         /\ control' \in Seq(Control) /\ Len(control') = Len(control)
         /\ UNCHANGED <<lease, permit>>
<1>0. control \in Seq(Control) /\ \A d \in DOMAIN control : control[d] \in Control
  BY ControlTyped DEF TypeOK
<1>1. ASSUME NEW stage, NEW decision, NEW from, Edited(c, stage, decision, from)
      PROVE  /\ SameControls
             /\ control' \in Seq(Control) /\ Len(control') = Len(control)
  BY <1>1 DEF Edited, SameControls
<1>2. CASE MoveWorker(c)
  <2>1. \A d \in DOMAIN control :
          LET e == Overtaken(control[c].worker)[d]
          IN  /\ e.worker = control[d].worker /\ e.goal = control[d].goal
              /\ e.kind = control[d].kind /\ e.permit = control[d].permit
    BY <1>0, OvertakenFacts
  <2>2. /\ SameControls
        /\ control' \in Seq(Control) /\ Len(control') = Len(control)
    BY <1>0, <1>2, <2>1, MoveWorkerFacts DEF SameControls
  <2> QED BY <1>2, <2>2 DEF MoveWorker
<1>3. ASSUME NEW stage \in Stage, AdvanceFreely(c, stage)
      PROVE  Edited(c, stage, control[c].decision, control[c].from)
  BY <1>0, <1>3, AdvanceFacts DEF AdvanceFreely, AdvanceOnly
<1>4. UNCHANGED <<lease, permit>>
  BY <1>2, ControlStepShapes DEF AdvanceFreely, AdvanceOnly, Decide, StartAction, MoveWorker
<1> QED BY <1>0, <1>1, <1>2, <1>3, <1>4, ControlStepShapes, DecideFacts, StartActionFacts

LEMMA WorkerStepKeeps ==
  ASSUME NEW w \in Worker, TypeOK, WorkerStep(w)
  PROVE  /\ op = Idle
         /\ control' = Overtaken(w)
         /\ SameControls
         /\ control' \in Seq(Control) /\ Len(control') = Len(control)
         /\ UNCHANGED <<lease, permit, op>>
<1>1. /\ op = Idle
      /\ control' = Overtaken(w)
      /\ UNCHANGED <<lease, permit, op>>
  BY DEF WorkerStep, AssignGoal, Transition
<1> QED BY <1>1, OvertakenFacts DEF SameControls, TypeOK

-----------------------------------------------------------------------------
(***************************************************************************)
(* The type invariant is inductive.                                        *)
(***************************************************************************)
LifecycleType ==
  /\ worker \in [Worker -> [goal : 0..MaxGoals, phase : Phase]]
  /\ mover \in [Worker -> 0..MaxControls]

AuthorityType ==
  /\ lease \in Seq(Lease) /\ Len(lease) <= MaxLeases
  /\ permit \in Seq(Permit)

ControlType == control \in Seq(Control) /\ Len(control) <= MaxControls

(* Only a control that moves its worker is ever started. *)
StartedMoves ==
  \A c \in DOMAIN control : control[c].stage = "started" => control[c].kind \in Mutating

Typed == TypeOK /\ StartedMoves

(* Any lifecycle action gives a worker one of the phases. *)
LEMMA AppliedFacts ==
  ASSUME NEW lifecycle \in [goal : 0..MaxGoals, phase : Phase],
         NEW action \in WorkerAction
  PROVE  /\ Applied(lifecycle, action) \in [goal : 0..MaxGoals, phase : Phase]
         /\ Applied(lifecycle, action).goal = lifecycle.goal
         /\ Applied(lifecycle, action).phase = To[action]
<1>1. To[action] \in Phase
  BY DEF WorkerAction, To, Phase
<1> QED BY <1>1 DEF Applied

LEMMA LifecycleTypeStep ==
  ASSUME Typed, [Next]_vars
  PROVE  LifecycleType'
<1> USE ControlPlaneAssumption DEF LifecycleType
<1>0. /\ worker \in [Worker -> [goal : 0..MaxGoals, phase : Phase]]
      /\ mover \in [Worker -> 0..MaxControls]
      /\ control \in Seq(Control) /\ Len(control) \in Nat /\ Len(control) <= MaxControls
      /\ DOMAIN control = 1..Len(control)
  BY ControlTyped DEF Typed, TypeOK
<1>1. ASSUME NEW w \in Worker, AssignGoal(w)
      PROVE  LifecycleType'
  BY <1>0, <1>1 DEF AssignGoal, NoControl, Phase
<1>2. ASSUME NEW w \in Worker, NEW action \in WorkerAction, Transition(w, action)
      PROVE  LifecycleType'
  <2>1. Applied(worker[w], action) \in [goal : 0..MaxGoals, phase : Phase]
    BY <1>0, AppliedFacts
  <2>2. /\ worker' = [worker EXCEPT ![w] = Applied(worker[w], action)]
        /\ mover' = [mover EXCEPT ![w] = NoControl]
    BY <1>2 DEF Transition
  <2> QED BY <1>0, <2>1, <2>2 DEF NoControl
<1>3. ASSUME NEW c \in DOMAIN control, MoveWorker(c)
      PROVE  LifecycleType'
  <2> DEFINE w == control[c].worker
             kind == control[c].kind
  <2>1. control[c] \in Control
    BY <1>0, ControlTyped
  <2>2. w \in Worker /\ kind \in Kind
    BY <2>1 DEF Control
  <2>3. control[c].stage = "started"
    BY <1>3 DEF MoveWorker
  <2>4. kind \in WorkerAction
    BY <2>3 DEF Typed, StartedMoves, Mutating, WorkerAction
  <2>5. Applied(worker[w], kind) \in [goal : 0..MaxGoals, phase : Phase]
    BY <1>0, <2>2, <2>4, AppliedFacts
  <2>6. /\ worker' = [worker EXCEPT ![w] = Applied(worker[w], kind)]
        /\ mover' = [mover EXCEPT ![w] = c]
    BY <1>3 DEF MoveWorker
  <2> QED BY <1>0, <2>2, <2>5, <2>6
<1>4. CASE UNCHANGED <<worker, mover>>
  BY <1>0, <1>4
<1>5. ASSUME NEW c \in DOMAIN control, ControlStep(c)
      PROVE  LifecycleType'
  BY <1>3, <1>4, <1>5, ControlStepShapes
     DEF AdvanceFreely, AdvanceOnly, Decide, StartAction
<1> QED BY <1>1, <1>2, <1>4, <1>5
        DEF Next, vars, WorkerStep, ControllerStep, CreateLease, IssuePermit,
            AdmitControl, AdmitContinue, Admit, Crash

(* The two admissions, and what either appends. *)
LEMMA AdmissionShapes ==
  ASSUME NEW w \in Worker, TypeOK
  PROVE  /\ \A kind \in Kind : AdmitControl(w, kind) =>
              /\ kind # "Continue"
              /\ OneMoreControl(w, kind, NoPermit)
              /\ op = Idle /\ op' = Doing("propose", Len(control) + 1)
              /\ UNCHANGED <<worker, mover, lease, permit>>
         /\ AdmitContinue(w) => \E p \in UnspentPermits(w) :
              /\ UnspentPermits(w) = {p}
              /\ OneMoreControl(w, "Continue", p)
              /\ op \in {Idle, Doing("continue", p)}
              /\ op' = Doing("propose", Len(control) + 1)
              /\ permit' = [permit EXCEPT ![p].spentOn = Len(control) + 1]
              /\ UNCHANGED <<worker, mover, lease>>
BY DEF AdmitControl, AdmitContinue, Admit, OneMoreControl

LEMMA OneMoreControlFacts ==
  ASSUME NEW w \in Worker, NEW kind \in Kind, NEW p \in Nat, TypeOK,
         OneMoreControl(w, kind, p)
  PROVE  /\ control' \in Seq(Control)
         /\ Len(control') = Len(control) + 1 /\ Len(control') <= MaxControls
         /\ DOMAIN control' = DOMAIN control \cup {Len(control) + 1}
         /\ Len(control) + 1 \notin DOMAIN control
         /\ \A c \in DOMAIN control : control'[c] = control[c]
         /\ LET new == control'[Len(control) + 1]
            IN  /\ new.worker = w /\ new.goal = worker[w].goal
                /\ new.kind = kind /\ new.permit = p
                /\ new.stage = "admitted" /\ new.decision = "Pending"
<1> DEFINE new == [worker |-> w, goal |-> worker[w].goal, kind |-> kind, permit |-> p,
                   stage |-> "admitted", decision |-> "Pending", from |-> "Unassigned",
                   overtaken |-> FALSE]
<1>1. worker[w].goal \in Goal
  BY ControlPlaneAssumption
     DEF OneMoreControl, Admissible, OnGoal, NoGoal, TypeOK, Goal
<1>2. new \in Control
  BY <1>1 DEF Control, Stage, Decision, Phase
<1>3. control \in Seq(Control) /\ control' = Append(control, new)
  BY DEF OneMoreControl, TypeOK
<1>4. /\ new.worker = w /\ new.goal = worker[w].goal
      /\ new.kind = kind /\ new.permit = p
      /\ new.stage = "admitted" /\ new.decision = "Pending"
  OBVIOUS
<1> HIDE DEF new
<1>5. /\ control' \in Seq(Control)
      /\ Len(control') = Len(control) + 1
      /\ DOMAIN control = 1..Len(control) /\ DOMAIN control' = 1..(Len(control) + 1)
      /\ \A c \in DOMAIN control : control'[c] = control[c]
      /\ control'[Len(control) + 1] = new
  BY <1>2, <1>3, Appended
<1>6. Len(control) \in Nat /\ Len(control) < MaxControls
  BY <1>3 DEF OneMoreControl
<1> QED BY <1>4, <1>5, <1>6, ControlPlaneAssumption

LEMMA UnspentFacts ==
  ASSUME NEW w \in Worker, NEW p \in UnspentPermits(w), TypeOK
  PROVE  /\ p \in DOMAIN permit /\ p \in Nat /\ p # NoPermit
         /\ permit[p] \in Permit /\ permit[p].spentOn = Unspent
         /\ lease[permit[p].lease].worker = w
         /\ lease[permit[p].lease].goal = worker[w].goal
<1>1. permit \in Seq(Permit)
  BY DEF TypeOK
<1> QED BY <1>1, LenProperties DEF UnspentPermits, LeaseFor, NoPermit

(* How a step changes the sequence of controls. *)
LEMMA ControlShapes ==
  ASSUME TypeOK, [Next]_vars
  PROVE  \/ UNCHANGED control
         \/ \E w \in Worker : WorkerStep(w)
         \/ \E w \in Worker, kind \in Kind, p \in Nat : OneMoreControl(w, kind, p)
         \/ \E c \in DOMAIN control : ControlStep(c)
<1>1. ASSUME NEW w \in Worker, NEW kind \in Kind, AdmitControl(w, kind)
      PROVE  OneMoreControl(w, kind, NoPermit) /\ NoPermit \in Nat
  BY <1>1, AdmissionShapes DEF NoPermit
<1>2. ASSUME NEW w \in Worker, AdmitContinue(w)
      PROVE  \E p \in Nat : OneMoreControl(w, "Continue", p)
  BY <1>2, AdmissionShapes, UnspentFacts
<1>3. "Continue" \in Kind
  BY DEF Kind
<1> QED BY <1>1, <1>2, <1>3
        DEF Next, vars, ControllerStep, CreateLease, IssuePermit, Crash

LEMMA ControlTypeStep ==
  ASSUME TypeOK, [Next]_vars
  PROVE  ControlType'
<1>0. ControlType
  BY DEF ControlType, TypeOK
<1>1. CASE \E w \in Worker : WorkerStep(w)
  BY <1>0, <1>1, WorkerStepKeeps DEF ControlType
<1>2. CASE \E w \in Worker, kind \in Kind, p \in Nat : OneMoreControl(w, kind, p)
  BY <1>2, OneMoreControlFacts DEF ControlType
<1>3. CASE \E c \in DOMAIN control : ControlStep(c)
  BY <1>0, <1>3, ControlStepKeeps DEF ControlType
<1> QED BY <1>0, <1>1, <1>2, <1>3, ControlShapes DEF ControlType

LEMMA StartedMovesStep ==
  ASSUME Typed, [Next]_vars
  PROVE  StartedMoves'
<1> USE DEF StartedMoves
<1>0. /\ TypeOK /\ StartedMoves
      /\ control \in Seq(Control)
      /\ \A c \in DOMAIN control : control[c] \in Control
  BY ControlTyped DEF Typed, TypeOK
<1>1. ASSUME NEW w \in Worker, WorkerStep(w)
      PROVE  StartedMoves'
  <2>1. control' = Overtaken(w)
    BY <1>0, <1>1, WorkerStepKeeps
  <2>2. /\ DOMAIN control' = DOMAIN control
        /\ \A d \in DOMAIN control : /\ control'[d].stage = control[d].stage
                                     /\ control'[d].kind = control[d].kind
    BY <1>0, <2>1, OvertakenFacts
  <2> QED BY <1>0, <2>2
<1>2. ASSUME NEW w \in Worker, NEW kind \in Kind, NEW p \in Nat,
             OneMoreControl(w, kind, p)
      PROVE  StartedMoves'
  BY <1>0, <1>2, OneMoreControlFacts
<1>3. ASSUME NEW c \in DOMAIN control, NEW stage, NEW decision, NEW from,
             Edited(c, stage, decision, from),
             stage = "started" => control[c].kind \in Mutating
      PROVE  StartedMoves'
  BY <1>0, <1>3 DEF Edited
<1>4. ASSUME NEW c \in DOMAIN control, NEW stage \in Stage, AdvanceFreely(c, stage)
      PROVE  StartedMoves'
  <2>1. Edited(c, stage, control[c].decision, control[c].from) /\ stage # "started"
    BY <1>0, <1>4, AdvanceFacts DEF AdvanceFreely, AdvanceOnly
  <2> QED BY <1>3, <2>1
<1>5. ASSUME NEW c \in DOMAIN control, NEW decision \in {"Allow", "Deny"},
             Decide(c, decision)
      PROVE  StartedMoves'
  <2>1. Edited(c, control[c].stage, decision, control[c].from)
    BY <1>0, <1>5, DecideFacts
  <2> QED BY <1>0, <1>3, <2>1
<1>6. ASSUME NEW c \in DOMAIN control, StartAction(c)
      PROVE  StartedMoves'
  <2>1. Edited(c, "started", control[c].decision, LifecycleOf(c).phase)
    BY <1>0, <1>6, StartActionFacts
  <2> QED BY <1>3, <1>6, <2>1 DEF StartAction
<1>7. ASSUME NEW c \in DOMAIN control, MoveWorker(c)
      PROVE  StartedMoves'
  <2>1. \A d \in DOMAIN control :
          /\ Overtaken(control[c].worker)[d].stage = control[d].stage
          /\ Overtaken(control[c].worker)[d].kind = control[d].kind
    BY <1>0, OvertakenFacts
  <2> QED BY <1>0, <1>7, <2>1, MoveWorkerFacts
<1>8. CASE UNCHANGED control
  BY <1>0, <1>8
<1> QED BY <1>0, <1>1, <1>2, <1>4, <1>5, <1>6, <1>7, <1>8, ControlShapes,
           ControlStepShapes

(***************************************************************************)
(* What each step does to leases and permits.                              *)
(***************************************************************************)
LEMMA AuthorityTyped ==
  ASSUME TypeOK
  PROVE  /\ DOMAIN lease = 1..Len(lease) /\ Len(lease) \in Nat /\ DOMAIN lease \subseteq 1..MaxLeases
         /\ \A l \in DOMAIN lease : lease[l] \in Lease
         /\ DOMAIN permit = 1..Len(permit) /\ Len(permit) \in Nat
         /\ \A p \in DOMAIN permit : permit[p] \in Permit
<1>1. lease \in Seq(Lease) /\ Len(lease) <= MaxLeases /\ permit \in Seq(Permit)
  BY DEF TypeOK
<1> QED BY <1>1, LenProperties, ControlPlaneAssumption

LEMMA CreateLeaseFacts ==
  ASSUME NEW w \in Worker, NEW allowance \in 1..MaxAllowance, TypeOK,
         CreateLease(w, allowance)
  PROVE  /\ lease' \in Seq(Lease) /\ Len(lease') <= MaxLeases
         /\ DOMAIN lease' = DOMAIN lease \cup {Len(lease) + 1}
         /\ Len(lease) + 1 \notin DOMAIN lease
         /\ \A l \in DOMAIN lease : lease'[l] = lease[l]
         /\ lease'[Len(lease) + 1].worker = w
         /\ lease'[Len(lease) + 1].goal = worker[w].goal
         /\ lease'[Len(lease) + 1].allowance = allowance
         /\ lease'[Len(lease) + 1].issued = 0
         /\ UNCHANGED permit
<1> DEFINE new == [worker |-> w, goal |-> worker[w].goal,
                   allowance |-> allowance, issued |-> 0]
<1>1. worker[w].goal \in Goal
  BY ControlPlaneAssumption DEF CreateLease, NoGoal, TypeOK, Goal
<1>2. /\ new \in Lease /\ new.worker = w /\ new.goal = worker[w].goal
      /\ new.allowance = allowance /\ new.issued = 0
  BY <1>1, ControlPlaneAssumption DEF Lease
<1>3. lease \in Seq(Lease) /\ lease' = Append(lease, new) /\ Len(lease) < MaxLeases
  BY DEF CreateLease, TypeOK
<1> HIDE DEF new
<1>4. /\ lease' \in Seq(Lease)
      /\ Len(lease') = Len(lease) + 1
      /\ DOMAIN lease = 1..Len(lease) /\ DOMAIN lease' = 1..(Len(lease) + 1)
      /\ \A l \in DOMAIN lease : lease'[l] = lease[l]
      /\ lease'[Len(lease) + 1] = new
  BY <1>2, <1>3, Appended
<1>5. Len(lease) \in Nat
  BY <1>3
<1>6. UNCHANGED permit
  BY DEF CreateLease
<1> QED BY <1>2, <1>3, <1>4, <1>5, <1>6, ControlPlaneAssumption

(* A permit of the one live lease takes its next ordinal. *)
Issues(w, l) ==
  /\ l \in LiveLeases(w) /\ LiveLeases(w) = {l} /\ UnspentPermits(w) = {}
  /\ lease' \in Seq(Lease) /\ Len(lease') = Len(lease)
  /\ DOMAIN lease' = DOMAIN lease
  /\ \A k \in DOMAIN lease : k # l => lease'[k] = lease[k]
  /\ lease'[l].worker = lease[l].worker
  /\ lease'[l].goal = lease[l].goal
  /\ lease'[l].allowance = lease[l].allowance
  /\ lease'[l].issued = lease[l].issued + 1
  /\ permit' \in Seq(Permit)
  /\ DOMAIN permit' = DOMAIN permit \cup {Len(permit) + 1}
  /\ Len(permit) + 1 \notin DOMAIN permit
  /\ \A p \in DOMAIN permit : permit'[p] = permit[p]
  /\ permit'[Len(permit) + 1].lease = l
  /\ permit'[Len(permit) + 1].ordinal = lease[l].issued + 1
  /\ permit'[Len(permit) + 1].spentOn = Unspent

LEMMA IssuePermitFacts ==
  ASSUME NEW w \in Worker, TypeOK, IssuePermit(w)
  PROVE  \E l \in DOMAIN lease : Issues(w, l) /\ AcceptsPermit(l, lease[l].issued + 1)
<1>1. PICK l \in LiveLeases(w) :
        /\ LiveLeases(w) = {l}
        /\ Authorizes(lease[l], worker[w])
        /\ lease' = [lease EXCEPT ![l].issued = @ + 1]
        /\ permit' = Append(permit, [lease |-> l, ordinal |-> lease[l].issued + 1,
                                     spentOn |-> Unspent])
  BY DEF IssuePermit
<1> DEFINE issued == [lease[l] EXCEPT !.issued = @ + 1]
           new == [lease |-> l, ordinal |-> lease[l].issued + 1, spentOn |-> Unspent]
<1>2. /\ l \in DOMAIN lease /\ lease[l] \in Lease /\ l \in 1..MaxLeases
      /\ lease[l].worker = w /\ lease[l].issued < lease[l].allowance
  BY <1>1, AuthorityTyped DEF LiveLeases, LeaseFor
<1>3. /\ issued \in Lease
      /\ issued.worker = lease[l].worker /\ issued.goal = lease[l].goal
      /\ issued.allowance = lease[l].allowance
      /\ issued.issued = lease[l].issued + 1
  BY <1>2, ControlPlaneAssumption DEF Lease
<1>4. /\ new \in Permit
      /\ new.lease = l /\ new.ordinal = lease[l].issued + 1 /\ new.spentOn = Unspent
  BY <1>2, ControlPlaneAssumption DEF Lease, Permit, Unspent
<1>5. lease' = [lease EXCEPT ![l] = issued] /\ permit' = Append(permit, new)
  BY <1>1
<1>6. AcceptsPermit(l, lease[l].issued + 1)
  BY <1>1, <1>2 DEF AcceptsPermit
<1> HIDE DEF issued, new
<1>7. lease \in Seq(Lease) /\ permit \in Seq(Permit)
  BY DEF TypeOK
<1>8. /\ lease' \in Seq(Lease) /\ Len(lease') = Len(lease) /\ DOMAIN lease' = DOMAIN lease
      /\ \A k \in DOMAIN lease : lease'[k] = IF k = l THEN issued ELSE lease[k]
  BY <1>2, <1>3, <1>5, <1>7, Updated
<1>9. /\ permit' \in Seq(Permit)
      /\ DOMAIN permit = 1..Len(permit) /\ DOMAIN permit' = 1..(Len(permit) + 1)
      /\ \A p \in DOMAIN permit : permit'[p] = permit[p]
      /\ permit'[Len(permit) + 1] = new
  BY <1>4, <1>5, <1>7, Appended
<1>10. UnspentPermits(w) = {} /\ Len(permit) \in Nat
  BY <1>7 DEF IssuePermit
<1> QED BY <1>1, <1>2, <1>3, <1>4, <1>6, <1>8, <1>9, <1>10 DEF Issues

(* The permit a new control consumes. *)
Spends(p, c) ==
  /\ permit' \in Seq(Permit) /\ Len(permit') = Len(permit)
  /\ DOMAIN permit' = DOMAIN permit
  /\ \A q \in DOMAIN permit : q # p => permit'[q] = permit[q]
  /\ permit'[p].lease = permit[p].lease
  /\ permit'[p].ordinal = permit[p].ordinal
  /\ permit'[p].spentOn = c
  /\ UNCHANGED lease

LEMMA AdmitContinueFacts ==
  ASSUME NEW w \in Worker, TypeOK, AdmitContinue(w)
  PROVE  \E p \in UnspentPermits(w) :
           /\ UnspentPermits(w) = {p}
           /\ OneMoreControl(w, "Continue", p)
           /\ op \in {Idle, Doing("continue", p)}
           /\ op' = Doing("propose", Len(control) + 1)
           /\ Spends(p, Len(control) + 1)
           /\ UNCHANGED <<worker, mover>>
<1>1. PICK p \in UnspentPermits(w) :
        /\ UnspentPermits(w) = {p}
        /\ OneMoreControl(w, "Continue", p)
        /\ op \in {Idle, Doing("continue", p)}
        /\ op' = Doing("propose", Len(control) + 1)
        /\ permit' = [permit EXCEPT ![p].spentOn = Len(control) + 1]
        /\ UNCHANGED <<worker, mover, lease>>
  BY AdmissionShapes
<1> DEFINE spent == [permit[p] EXCEPT !.spentOn = Len(control) + 1]
<1>2. p \in DOMAIN permit /\ permit[p] \in Permit
  BY UnspentFacts
<1>3. Len(control) + 1 \in 0..MaxControls
  BY <1>1, ControlPlaneAssumption DEF OneMoreControl, TypeOK
<1>4. /\ spent \in Permit
      /\ spent.lease = permit[p].lease /\ spent.ordinal = permit[p].ordinal
      /\ spent.spentOn = Len(control) + 1
  BY <1>2, <1>3 DEF Permit
<1>5. permit' = [permit EXCEPT ![p] = spent] /\ permit \in Seq(Permit)
  BY <1>1 DEF TypeOK
<1> HIDE DEF spent
<1>6. /\ permit' \in Seq(Permit) /\ Len(permit') = Len(permit)
      /\ DOMAIN permit' = DOMAIN permit
      /\ \A q \in DOMAIN permit : permit'[q] = IF q = p THEN spent ELSE permit[q]
  BY <1>2, <1>4, <1>5, Updated
<1> QED BY <1>1, <1>2, <1>4, <1>6 DEF Spends

(* How a step changes leases and permits. *)
LEMMA AuthorityShapes ==
  ASSUME TypeOK, [Next]_vars
  PROVE  \/ UNCHANGED <<lease, permit>>
         \/ \E w \in Worker, allowance \in 1..MaxAllowance : CreateLease(w, allowance)
         \/ \E w \in Worker : IssuePermit(w)
         \/ \E w \in Worker : AdmitContinue(w)
<1>1. ASSUME NEW w \in Worker, NEW kind \in Kind, AdmitControl(w, kind)
      PROVE  UNCHANGED <<lease, permit>>
  BY <1>1, AdmissionShapes
<1> QED BY <1>1, WorkerStepKeeps, ControlStepKeeps
        DEF Next, vars, ControllerStep, Crash

LEMMA AuthorityTypeStep ==
  ASSUME TypeOK, [Next]_vars
  PROVE  AuthorityType'
<1>0. AuthorityType
  BY DEF AuthorityType, TypeOK
<1>1. CASE \E w \in Worker, allowance \in 1..MaxAllowance : CreateLease(w, allowance)
  BY <1>0, <1>1, CreateLeaseFacts DEF AuthorityType
<1>2. CASE \E w \in Worker : IssuePermit(w)
  BY <1>0, <1>2, IssuePermitFacts DEF AuthorityType, Issues
<1>3. CASE \E w \in Worker : AdmitContinue(w)
  BY <1>0, <1>3, AdmitContinueFacts DEF AuthorityType, Spends
<1> QED BY <1>0, <1>1, <1>2, <1>3, AuthorityShapes DEF AuthorityType

LEMMA OpInStepStep ==
  ASSUME TypeOK, [Next]_vars
  PROVE  OpInStep'
<1> USE DEF OpInStep
<1>0. OpInStep /\ control \in Seq(Control)
  BY DEF TypeOK
<1>1. CASE op' = Idle
  BY <1>1
<1>2. ASSUME NEW c \in DOMAIN control, NEW stage \in Stage, Advance(c, stage),
             \/ op' = Doing("propose", c) /\ stage \in {"issued", "proposed"}
             \/ op' = Doing("dispatch", c) /\ stage = "dispatched"
      PROVE  OpInStep'
  <2>1. DOMAIN control' = DOMAIN control /\ control'[c].stage = stage
    BY <1>0, <1>2, AdvanceFacts DEF Edited
  <2> QED BY <1>2, <2>1
<1>3. ASSUME NEW c \in DOMAIN control, ControlStep(c)
      PROVE  OpInStep'
  <2>1. CASE BindIssuer(c)
    BY <1>2, <2>1 DEF BindIssuer, Stage
  <2>2. CASE ProposeRoute(c)
    BY <1>2, <2>2 DEF ProposeRoute, Stage
  <2>3. CASE DispatchRoute(c)
    BY <1>2, <2>3 DEF DispatchRoute, Stage
  <2>4. CASE StartAction(c)
    <3>1. DOMAIN control' = DOMAIN control /\ control'[c].stage = "started"
      BY <2>4, StartActionFacts DEF Edited
    <3>2. op' = Doing("apply", c)
      BY <2>4 DEF StartAction
    <3> QED BY <3>1, <3>2
  <2>5. CASE MoveWorker(c)
    <3>1. DOMAIN control' = DOMAIN control /\ control'[c].stage = "moved"
      BY <1>0, <2>5, MoveWorkerFacts
    <3>2. op' = Doing("apply", c)
      BY <2>5 DEF MoveWorker
    <3> QED BY <3>1, <3>2
  <2>6. CASE BindRoute(c) \/ RecordDelivery(c) \/ FinishAction(c)
    BY <1>1, <2>6 DEF BindRoute, RecordDelivery, FinishAction
  <2>7. CASE \/ \E decision \in {"Allow", "Deny"} : Decide(c, decision)
             \/ Acknowledge(c) \/ ReportStatus(c) \/ StartExecution(c)
    BY <1>1, <2>7 DEF Decide, Acknowledge, ReportStatus, StartExecution
  <2> QED BY <1>3, <2>1, <2>2, <2>3, <2>4, <2>5, <2>6, <2>7 DEF ControlStep
<1>4. ASSUME NEW w \in Worker, IssuePermit(w)
      PROVE  OpInStep'
  <2>1. op' = Doing("continue", Len(permit) + 1)
    BY <1>4 DEF IssuePermit
  <2>2. /\ Len(permit) + 1 \in DOMAIN permit'
        /\ permit'[Len(permit) + 1].spentOn = Unspent
    BY <1>4, IssuePermitFacts DEF Issues
  <2> QED BY <2>1, <2>2
<1>5. ASSUME NEW w \in Worker, NEW kind \in Kind, NEW p \in Nat,
             OneMoreControl(w, kind, p), op' = Doing("propose", Len(control) + 1)
      PROVE  OpInStep'
  <2>1. /\ Len(control) + 1 \in DOMAIN control'
        /\ control'[Len(control) + 1].stage = "admitted"
    BY <1>5, OneMoreControlFacts
  <2> QED BY <1>5, <2>1
<1>6. ASSUME NEW w \in Worker, NEW kind \in Kind, AdmitControl(w, kind)
      PROVE  OpInStep'
  <2>1. NoPermit \in Nat
    BY DEF NoPermit
  <2> QED BY <1>5, <1>6, <2>1, AdmissionShapes
<1>7. ASSUME NEW w \in Worker, AdmitContinue(w)
      PROVE  OpInStep'
  <2>1. PICK p \in UnspentPermits(w) :
          /\ OneMoreControl(w, "Continue", p)
          /\ op' = Doing("propose", Len(control) + 1)
    BY <1>7, AdmitContinueFacts
  <2>2. p \in Nat /\ "Continue" \in Kind
    BY UnspentFacts DEF Kind
  <2> QED BY <1>5, <2>1, <2>2
<1>8. ASSUME NEW w \in Worker, NEW allowance \in 1..MaxAllowance,
             CreateLease(w, allowance)
      PROVE  OpInStep'
  BY <1>1, <1>8 DEF CreateLease
<1>9. ASSUME NEW w \in Worker, WorkerStep(w)
      PROVE  OpInStep'
  BY <1>1, <1>9, WorkerStepKeeps
<1>10. CASE Crash
  BY <1>1, <1>10 DEF Crash
<1>11. CASE UNCHANGED vars
  BY <1>0, <1>11 DEF vars
<1> QED BY <1>3, <1>4, <1>6, <1>7, <1>8, <1>9, <1>10, <1>11 DEF Next, ControllerStep

(* "replays" stays a truth value: every step judges it again or leaves it. *)
LEMMA ReplaysStep ==
  ASSUME replays \in BOOLEAN, [Next]_vars
  PROVE  replays' \in BOOLEAN
<1>1. ASSUME NEW accepted, Judge(accepted)
      PROVE  replays' \in BOOLEAN
  <2>1. (replays /\ accepted) \in BOOLEAN
    OBVIOUS
  <2> QED BY <1>1, <2>1 DEF Judge
<1>2. CASE UNCHANGED replays
  BY <1>2
<1>3. ASSUME NEW w \in Worker, WorkerStep(w)
      PROVE  replays' \in BOOLEAN
  BY <1>1, <1>3, Zenon DEF WorkerStep, AssignGoal, Transition
<1>4. ASSUME NEW w \in Worker, ControllerStep(w)
      PROVE  replays' \in BOOLEAN
  BY <1>1, <1>4, Zenon
     DEF ControllerStep, CreateLease, IssuePermit, AdmitControl, AdmitContinue, Admit
<1>5. ASSUME NEW c \in DOMAIN control, ControlStep(c)
      PROVE  replays' \in BOOLEAN
  BY <1>1, <1>5, Zenon
     DEF ControlStep, BindIssuer, ProposeRoute, BindRoute, Decide, DispatchRoute,
         RecordDelivery, Acknowledge, ReportStatus, StartAction, MoveWorker,
         FinishAction, StartExecution
<1> QED BY <1>2, <1>3, <1>4, <1>5 DEF Next, vars, Crash

LEMMA TypedStep ==
  ASSUME Typed, [Next]_vars
  PROVE  Typed'
<1>1. TypeOK /\ replays \in BOOLEAN
  BY DEF Typed, TypeOK
<1>2. LifecycleType' /\ AuthorityType' /\ ControlType' /\ OpInStep' /\ replays' \in BOOLEAN
  BY <1>1, LifecycleTypeStep, AuthorityTypeStep, ControlTypeStep, OpInStepStep, ReplaysStep
<1>3. TypeOK'
  BY <1>2 DEF TypeOK, LifecycleType, AuthorityType, ControlType
<1> QED BY <1>3, StartedMovesStep DEF Typed

LEMMA TypedInit == Init => Typed
<1> SUFFICES ASSUME Init PROVE Typed
  OBVIOUS
<1>1. Unassigned \in [goal : 0..MaxGoals, phase : Phase]
  BY ControlPlaneAssumption DEF Unassigned, NoGoal, Phase
<1>2. NoControl \in 0..MaxControls
  BY ControlPlaneAssumption DEF NoControl
<1>3. TypeOK
  BY <1>1, <1>2, ControlPlaneAssumption DEF Init, TypeOK, OpInStep
<1> QED BY <1>3 DEF Init, Typed, StartedMoves

(* Every reachable state is one the journal's replays could project, for   *)
(* any number of workers and any bounds.                                   *)
THEOREM TypeCorrect == Spec => []TypeOK
<1>1. Spec => []Typed
  BY TypedInit, TypedStep, PTL DEF Spec
<1>2. Typed => TypeOK
  BY DEF Typed
<1> QED BY <1>1, <1>2, PTL

-----------------------------------------------------------------------------
(***************************************************************************)
(* The strengthening of the safety invariants.                             *)
(***************************************************************************)
PermitsHaveLeases == \A p \in DOMAIN permit : permit[p].lease \in DOMAIN lease

SpendInv == PermitsHaveLeases /\ PermitsSpentOnce

(* A control whose proposal is under way is still admissible: nothing      *)
(* moves its worker between the appends of the proposal.                   *)
ProposalFresh ==
  \A c \in DOMAIN control : op = Doing("propose", c) => Fresh(c)

(* No lease is for a goal its worker has not reached. *)
LeasesFollowGoals == \A l \in DOMAIN lease : lease[l].goal <= worker[lease[l].worker].goal

(* OneLiveAuthority without cardinalities. *)
OneAuthority ==
  \A w \in Worker :
    /\ \A k, l \in LiveLeases(w) : k = l
    /\ \A p, q \in UnspentPermits(w) : p = q
    /\ \A l \in LiveLeases(w), p \in UnspentPermits(w) : permit[p].lease = l

IInv ==
  /\ Typed
  /\ NothingSentUnallowed
  /\ UntouchedSinceStart
  /\ SpendInv
  /\ ProposalFresh
  /\ LeasesFollowGoals
  /\ OneAuthority
  /\ replays = TRUE

-----------------------------------------------------------------------------
LEMMA NothingSentUnallowedStep ==
  ASSUME TypeOK, NothingSentUnallowed, [Next]_vars
  PROVE  NothingSentUnallowed'
<1> USE DEF NothingSentUnallowed, Sent
<1>0. control \in Seq(Control) /\ \A c \in DOMAIN control : control[c] \in Control
  BY ControlTyped DEF TypeOK
<1>1. ASSUME NEW w \in Worker, WorkerStep(w)
      PROVE  NothingSentUnallowed'
  <2>1. control' = Overtaken(w)
    BY <1>1, WorkerStepKeeps
  <2>2. /\ DOMAIN control' = DOMAIN control
        /\ \A d \in DOMAIN control : /\ control'[d].stage = control[d].stage
                                     /\ control'[d].decision = control[d].decision
    BY <1>0, <2>1, OvertakenFacts
  <2> QED BY <2>2
<1>2. ASSUME NEW w \in Worker, NEW kind \in Kind, NEW p \in Nat,
             OneMoreControl(w, kind, p)
      PROVE  NothingSentUnallowed'
  BY <1>2, OneMoreControlFacts DEF Undispatched
<1>3. ASSUME NEW c \in DOMAIN control, NEW stage, NEW decision, NEW from,
             Edited(c, stage, decision, from),
             stage \notin Undispatched => decision = "Allow"
      PROVE  NothingSentUnallowed'
  BY <1>3 DEF Edited
<1>4. ASSUME NEW c \in DOMAIN control, NEW stage \in Stage, AdvanceFreely(c, stage)
      PROVE  NothingSentUnallowed'
  <2>1. Edited(c, stage, control[c].decision, control[c].from)
    BY <1>0, <1>4, AdvanceFacts DEF AdvanceFreely, AdvanceOnly
  <2>2. stage \notin Undispatched => control[c].decision = "Allow"
    BY <1>4 DEF AdvanceFreely
  <2> QED BY <1>3, <2>1, <2>2
<1>5. ASSUME NEW c \in DOMAIN control, NEW decision \in {"Allow", "Deny"},
             Decide(c, decision)
      PROVE  NothingSentUnallowed'
  <2>1. Edited(c, control[c].stage, decision, control[c].from)
    BY <1>0, <1>5, DecideFacts
  <2>2. control[c].stage \in Undispatched
    BY <1>5 DEF Decide, Undispatched
  <2> QED BY <1>3, <2>1, <2>2
<1>6. ASSUME NEW c \in DOMAIN control, StartAction(c)
      PROVE  NothingSentUnallowed'
  <2>1. Edited(c, "started", control[c].decision, LifecycleOf(c).phase)
    BY <1>6, StartActionFacts
  <2>2. control[c].decision = "Allow"
    BY <1>6 DEF StartAction, Undispatched
  <2> QED BY <1>3, <2>1, <2>2
<1>7. ASSUME NEW c \in DOMAIN control, MoveWorker(c)
      PROVE  NothingSentUnallowed'
  <2>1. \A d \in DOMAIN control :
          /\ Overtaken(control[c].worker)[d].stage = control[d].stage
          /\ Overtaken(control[c].worker)[d].decision = control[d].decision
    BY <1>0, OvertakenFacts
  <2>2. control[c].decision = "Allow"
    BY <1>7 DEF MoveWorker, Undispatched
  <2> QED BY <1>0, <1>7, <2>1, <2>2, MoveWorkerFacts
<1>8. CASE UNCHANGED control
  BY <1>8
<1> QED BY <1>1, <1>2, <1>4, <1>5, <1>6, <1>7, <1>8, ControlShapes, ControlStepShapes

LEMMA UntouchedSinceStartStep ==
  ASSUME TypeOK, UntouchedSinceStart, [Next]_vars
  PROVE  UntouchedSinceStart'
<1> USE DEF UntouchedSinceStart, LifecycleOf
<1>0. /\ control \in Seq(Control)
      /\ \A c \in DOMAIN control : control[c] \in Control
      /\ worker \in [Worker -> [goal : 0..MaxGoals, phase : Phase]]
  BY ControlTyped DEF TypeOK
<1>1. ASSUME NEW w \in Worker, WorkerStep(w)
      PROVE  UntouchedSinceStart'
  <2>1. control' = Overtaken(w)
    BY <1>1, WorkerStepKeeps
  <2>2. \A v \in Worker : v # w => worker'[v] = worker[v]
    BY <1>0, <1>1 DEF WorkerStep, AssignGoal, Transition
  <2> SUFFICES ASSUME NEW c \in DOMAIN control',
                      control'[c].stage = "started", ~control'[c].overtaken
               PROVE  worker'[control'[c].worker] =
                        [goal |-> control'[c].goal, phase |-> control'[c].from]
    OBVIOUS
  <2>3. /\ c \in DOMAIN control
        /\ control'[c].worker = control[c].worker /\ control'[c].goal = control[c].goal
        /\ control'[c].stage = control[c].stage /\ control'[c].from = control[c].from
        /\ control'[c].overtaken <=>
             \/ control[c].overtaken
             \/ control[c].worker = w /\ control[c].stage = "started"
    BY <1>0, <2>1, OvertakenFacts
  <2>4. control[c].stage = "started" /\ ~control[c].overtaken /\ control[c].worker # w
    BY <2>3
  <2>5. worker[control[c].worker] = [goal |-> control[c].goal, phase |-> control[c].from]
    BY <2>3, <2>4
  <2> QED BY <1>0, <2>2, <2>3, <2>4, <2>5 DEF Control
<1>2. ASSUME NEW w \in Worker, NEW kind \in Kind, NEW p \in Nat,
             OneMoreControl(w, kind, p), UNCHANGED worker
      PROVE  UntouchedSinceStart'
  BY <1>2, OneMoreControlFacts
<1>3. ASSUME NEW c \in DOMAIN control, NEW stage \in Stage, AdvanceFreely(c, stage)
      PROVE  UntouchedSinceStart'
  <2>1. Edited(c, stage, control[c].decision, control[c].from)
    BY <1>0, <1>3, AdvanceFacts DEF AdvanceFreely, AdvanceOnly
  <2>2. UNCHANGED worker /\ stage # "started"
    BY <1>3 DEF AdvanceFreely, AdvanceOnly
  <2> QED BY <2>1, <2>2 DEF Edited
<1>4. ASSUME NEW c \in DOMAIN control, NEW decision \in {"Allow", "Deny"},
             Decide(c, decision)
      PROVE  UntouchedSinceStart'
  <2>1. Edited(c, control[c].stage, decision, control[c].from)
    BY <1>0, <1>4, DecideFacts
  <2>2. UNCHANGED worker /\ control[c].stage # "started"
    BY <1>4 DEF Decide
  <2> QED BY <2>1, <2>2 DEF Edited
<1>5. ASSUME NEW c \in DOMAIN control, StartAction(c)
      PROVE  UntouchedSinceStart'
  <2>1. Edited(c, "started", control[c].decision, LifecycleOf(c).phase)
    BY <1>5, StartActionFacts
  <2>2. UNCHANGED worker
    BY <1>5 DEF StartAction
  <2>3. worker[control[c].worker].goal = control[c].goal
    BY <1>5 DEF StartAction, Fresh, Admissible, OnGoal
  <2>4. worker[control[c].worker] =
          [goal |-> control[c].goal, phase |-> worker[control[c].worker].phase]
    BY <1>0, <2>3 DEF Control
  <2> QED BY <2>1, <2>2, <2>4 DEF Edited
<1>6. ASSUME NEW c \in DOMAIN control, MoveWorker(c)
      PROVE  UntouchedSinceStart'
  <2>1. \A v \in Worker : v # control[c].worker => worker'[v] = worker[v]
    BY <1>0, <1>6 DEF MoveWorker
  <2> SUFFICES ASSUME NEW d \in DOMAIN control',
                      control'[d].stage = "started", ~control'[d].overtaken
               PROVE  worker'[control'[d].worker] =
                        [goal |-> control'[d].goal, phase |-> control'[d].from]
    OBVIOUS
  <2>2. d \in DOMAIN control /\ d # c /\ control'[d] = Overtaken(control[c].worker)[d]
    BY <1>0, <1>6, MoveWorkerFacts
  <2>3. /\ control'[d].worker = control[d].worker /\ control'[d].goal = control[d].goal
        /\ control'[d].stage = control[d].stage /\ control'[d].from = control[d].from
        /\ control'[d].overtaken <=>
             \/ control[d].overtaken
             \/ control[d].worker = control[c].worker /\ control[d].stage = "started"
    BY <1>0, <2>2, OvertakenFacts
  <2>4. /\ control[d].stage = "started" /\ ~control[d].overtaken
        /\ control[d].worker # control[c].worker
    BY <2>3
  <2>5. worker[control[d].worker] = [goal |-> control[d].goal, phase |-> control[d].from]
    BY <2>2, <2>4
  <2> QED BY <1>0, <2>1, <2>2, <2>3, <2>4, <2>5 DEF Control
<1>7. CASE UNCHANGED <<worker, control>>
  BY <1>7
<1>8. ASSUME NEW w \in Worker, NEW kind \in Kind, AdmitControl(w, kind)
      PROVE  UntouchedSinceStart'
  BY <1>2, <1>8, AdmissionShapes DEF NoPermit
<1>9. ASSUME NEW w \in Worker, AdmitContinue(w)
      PROVE  UntouchedSinceStart'
  BY <1>2, <1>9, AdmissionShapes, UnspentFacts DEF Kind
<1> QED BY <1>1, <1>3, <1>4, <1>5, <1>6, <1>7, <1>8, <1>9, ControlStepShapes
        DEF Next, vars, ControllerStep, CreateLease, IssuePermit, Crash

LEMMA SpendInvStep ==
  ASSUME TypeOK, SpendInv, [Next]_vars
  PROVE  SpendInv'
<1> USE DEF SpendInv, PermitsHaveLeases, PermitsSpentOnce
<1>0. /\ \A l \in DOMAIN lease : lease[l] \in Lease
      /\ \A p \in DOMAIN permit : permit[p] \in Permit
      /\ \A c \in DOMAIN control : c # NoControl
      /\ DOMAIN control = 1..Len(control) /\ Len(control) \in Nat
  BY AuthorityTyped, ControlTyped DEF TypeOK
<1>1. ASSUME NEW w \in Worker, NEW allowance \in 1..MaxAllowance,
             CreateLease(w, allowance)
      PROVE  SpendInv'
  <2>1. UNCHANGED <<permit, control>>
    BY <1>1 DEF CreateLease
  <2>2. \A p \in DOMAIN permit : lease'[permit[p].lease] = lease[permit[p].lease]
                                 /\ permit[p].lease \in DOMAIN lease'
    BY <1>1, CreateLeaseFacts
  <2> QED BY <2>1, <2>2
<1>2. ASSUME NEW w \in Worker, IssuePermit(w)
      PROVE  SpendInv'
  <2>1. PICK l \in DOMAIN lease : Issues(w, l)
    BY <1>2, IssuePermitFacts
  <2>2. UNCHANGED control
    BY <1>2 DEF IssuePermit
  <2>3. \A k \in DOMAIN lease :
          /\ k \in DOMAIN lease'
          /\ lease'[k].worker = lease[k].worker /\ lease'[k].goal = lease[k].goal
          /\ lease'[k].issued = IF k = l THEN lease[k].issued + 1 ELSE lease[k].issued
          /\ lease[k].issued \in Nat
    <3>1. \A k \in DOMAIN lease :
            /\ k \in DOMAIN lease'
            /\ lease'[k].worker = lease[k].worker /\ lease'[k].goal = lease[k].goal
            /\ lease'[k].issued = IF k = l THEN lease[k].issued + 1 ELSE lease[k].issued
      BY <2>1 DEF Issues
    <3>2. \A k \in DOMAIN lease : lease[k].issued \in Nat
      BY <1>0, ControlPlaneAssumption DEF Lease
    <3> QED BY <3>1, <3>2
  <2>4. /\ DOMAIN permit' = DOMAIN permit \cup {Len(permit) + 1}
        /\ \A p \in DOMAIN permit : permit'[p] = permit[p] /\ permit[p].ordinal \in Nat
        /\ permit'[Len(permit) + 1].lease = l
        /\ permit'[Len(permit) + 1].ordinal = lease[l].issued + 1
    BY <1>0, <2>1, ControlPlaneAssumption DEF Issues, Permit
  <2>5. PermitsHaveLeases'
    BY <2>3, <2>4
  <2>6. \A p \in DOMAIN permit' : permit'[p].ordinal <= lease'[permit'[p].lease].issued
    BY <2>3, <2>4
  <2>7. \A p, q \in DOMAIN permit' :
          permit'[p].lease = permit'[q].lease /\ permit'[p].ordinal = permit'[q].ordinal
            => p = q
    BY <2>3, <2>4
  <2>8. \A c \in DOMAIN control' : control'[c].kind = "Continue" =>
          /\ control'[c].permit \in DOMAIN permit'
          /\ permit'[control'[c].permit].spentOn = c
          /\ lease'[permit'[control'[c].permit].lease].worker = control'[c].worker
          /\ lease'[permit'[control'[c].permit].lease].goal = control'[c].goal
    BY <2>2, <2>3, <2>4
  <2> QED BY <2>5, <2>6, <2>7, <2>8
<1>3. ASSUME NEW w \in Worker, AdmitContinue(w)
      PROVE  SpendInv'
  <2>1. PICK p \in UnspentPermits(w) :
          OneMoreControl(w, "Continue", p) /\ Spends(p, Len(control) + 1)
    BY <1>3, AdmitContinueFacts
  <2>2. /\ p \in DOMAIN permit /\ p \in Nat /\ permit[p].spentOn = Unspent
        /\ lease[permit[p].lease].worker = w
        /\ lease[permit[p].lease].goal = worker[w].goal
    BY UnspentFacts
  <2>3. /\ DOMAIN permit' = DOMAIN permit
        /\ \A q \in DOMAIN permit :
             /\ q # p => permit'[q] = permit[q]
             /\ permit'[q].lease = permit[q].lease
             /\ permit'[q].ordinal = permit[q].ordinal
        /\ permit'[p].spentOn = Len(control) + 1
        /\ UNCHANGED lease
    BY <2>1, <2>2 DEF Spends
  <2>4. "Continue" \in Kind
    BY DEF Kind
  <2>5. /\ DOMAIN control' = DOMAIN control \cup {Len(control) + 1}
        /\ \A c \in DOMAIN control : control'[c] = control[c]
        /\ control'[Len(control) + 1].worker = w
        /\ control'[Len(control) + 1].goal = worker[w].goal
        /\ control'[Len(control) + 1].permit = p
    <3>1. OneMoreControl(w, "Continue", p) /\ p \in Nat
      BY <2>1, <2>2
    <3> HIDE DEF SpendInv
    <3> QED BY <2>4, <3>1, OneMoreControlFacts
  <2>6. \A c \in DOMAIN control : control[c].kind = "Continue" => control[c].permit # p
    BY <1>0, <2>2 DEF Unspent, NoControl
  <2>7. \A c \in DOMAIN control' : control'[c].kind = "Continue" =>
          /\ control'[c].permit \in DOMAIN permit'
          /\ permit'[control'[c].permit].spentOn = c
          /\ lease'[permit'[control'[c].permit].lease].worker = control'[c].worker
          /\ lease'[permit'[control'[c].permit].lease].goal = control'[c].goal
    BY <2>2, <2>3, <2>5, <2>6
  <2> QED BY <2>3, <2>7
<1>4. ASSUME SameControls, UNCHANGED <<lease, permit>>
      PROVE  SpendInv'
  BY <1>4 DEF SameControls
<1>5. ASSUME NEW w \in Worker, NEW kind \in Kind, AdmitControl(w, kind)
      PROVE  SpendInv'
  <2>1. /\ kind # "Continue" /\ OneMoreControl(w, kind, NoPermit)
        /\ UNCHANGED <<lease, permit>>
    BY <1>5, AdmissionShapes
  <2> QED BY <2>1, OneMoreControlFacts DEF NoPermit
<1>6. CASE UNCHANGED <<lease, permit, control>>
  BY <1>6
<1> QED BY <1>1, <1>2, <1>3, <1>4, <1>5, <1>6, WorkerStepKeeps, ControlStepKeeps
        DEF Next, vars, ControllerStep, Crash

LEMMA ProposalFreshStep ==
  ASSUME TypeOK, ProposalFresh, [Next]_vars
  PROVE  ProposalFresh'
<1> USE DEF ProposalFresh, Fresh, LifecycleOf
<1>0. DOMAIN control = 1..Len(control)
  BY ControlTyped DEF TypeOK
<1>1. CASE /\ \A c \in DOMAIN control : op' # Doing("propose", c)
           /\ DOMAIN control' = DOMAIN control
  BY <1>1
<1>2. ASSUME SameControls, UNCHANGED <<worker, op>>
      PROVE  ProposalFresh'
  BY <1>2 DEF SameControls
<1>3. ASSUME NEW w \in Worker, NEW kind \in Kind, NEW p \in Nat,
             OneMoreControl(w, kind, p), op' = Doing("propose", Len(control) + 1),
             UNCHANGED worker
      PROVE  ProposalFresh'
  <2>1. /\ DOMAIN control' = DOMAIN control \cup {Len(control) + 1}
        /\ control'[Len(control) + 1].worker = w
        /\ control'[Len(control) + 1].goal = worker[w].goal
        /\ control'[Len(control) + 1].kind = kind
    BY <1>3, OneMoreControlFacts
  <2>2. Admissible(worker[w], worker[w].goal, kind)
    BY <1>3 DEF OneMoreControl
  <2>3. \A c : op' = Doing("propose", c) => c = Len(control) + 1
    BY <1>3 DEF Doing
  <2> QED BY <1>3, <2>1, <2>2, <2>3
<1>4. ASSUME NEW c \in DOMAIN control, ControlStep(c)
      PROVE  ProposalFresh'
  <2>1. SameControls
    BY <1>4, ControlStepKeeps
  <2>2. \/ UNCHANGED <<worker, op>>
        \/ op' \in {Idle, Doing("dispatch", c), Doing("apply", c)}
    BY <1>4 DEF ControlStep, BindIssuer, ProposeRoute, BindRoute, Decide,
         DispatchRoute, RecordDelivery, Acknowledge, ReportStatus, StartAction,
         MoveWorker, FinishAction, StartExecution
  <2>3. \A d : Doing("propose", d) \notin {Idle, Doing("dispatch", c), Doing("apply", c)}
    BY DEF Doing, Idle
  <2> QED BY <1>1, <1>2, <2>1, <2>2, <2>3 DEF SameControls
<1>5. ASSUME NEW w \in Worker, WorkerStep(w)
      PROVE  ProposalFresh'
  <2>1. SameControls /\ op' = Idle
    BY <1>5, WorkerStepKeeps
  <2> QED BY <1>1, <2>1 DEF SameControls, Doing, Idle
<1>6. ASSUME NEW w \in Worker, NEW kind \in Kind, AdmitControl(w, kind)
      PROVE  ProposalFresh'
  BY <1>3, <1>6, AdmissionShapes DEF NoPermit
<1>7. ASSUME NEW w \in Worker, AdmitContinue(w)
      PROVE  ProposalFresh'
  BY <1>3, <1>7, AdmissionShapes, UnspentFacts DEF Kind
<1>8. ASSUME NEW w \in Worker, IssuePermit(w)
      PROVE  ProposalFresh'
  BY <1>1, <1>8 DEF IssuePermit, Doing
<1>9. ASSUME NEW w \in Worker, NEW allowance \in 1..MaxAllowance,
             CreateLease(w, allowance)
      PROVE  ProposalFresh'
  BY <1>2, <1>9 DEF CreateLease, SameControls
<1>10. CASE Crash
  BY <1>1, <1>10 DEF Crash, Idle, Doing
<1>11. CASE UNCHANGED vars
  BY <1>2, <1>11 DEF vars, SameControls
<1> QED BY <1>4, <1>5, <1>6, <1>7, <1>8, <1>9, <1>10, <1>11 DEF Next, ControllerStep

(* Goals only ever grow, and not while authority is given or spent. *)
LEMMA GoalsGrow ==
  ASSUME Typed, [Next]_vars, NEW v \in Worker
  PROVE  \/ worker'[v].goal = worker[v].goal
         \/ worker'[v].goal = worker[v].goal + 1 /\ UNCHANGED <<lease, permit>>
<1>0. /\ TypeOK
      /\ worker \in [Worker -> [goal : 0..MaxGoals, phase : Phase]]
      /\ \A c \in DOMAIN control : control[c] \in Control
  BY ControlTyped DEF Typed, TypeOK
<1>1. ASSUME NEW w \in Worker, AssignGoal(w)
      PROVE  \/ worker'[v].goal = worker[v].goal
             \/ worker'[v].goal = worker[v].goal + 1 /\ UNCHANGED <<lease, permit>>
  BY <1>0, <1>1 DEF AssignGoal
<1>2. ASSUME NEW w \in Worker, NEW action \in WorkerAction,
             worker' = [worker EXCEPT ![w] = Applied(worker[w], action)]
      PROVE  worker'[v].goal = worker[v].goal
  <2>1. Applied(worker[w], action).goal = worker[w].goal
    BY <1>0, AppliedFacts
  <2> QED BY <1>0, <1>2, <2>1
<1>3. ASSUME NEW w \in Worker, WorkerStep(w)
      PROVE  \/ worker'[v].goal = worker[v].goal
             \/ worker'[v].goal = worker[v].goal + 1 /\ UNCHANGED <<lease, permit>>
  BY <1>1, <1>2, <1>3 DEF WorkerStep, Transition
<1>4. ASSUME NEW c \in DOMAIN control, MoveWorker(c)
      PROVE  worker'[v].goal = worker[v].goal
  <2>1. control[c].worker \in Worker
    BY <1>0 DEF Control
  <2>2. control[c].kind \in WorkerAction
    BY <1>4 DEF MoveWorker, Typed, StartedMoves, Mutating, WorkerAction
  <2>3. worker' = [worker EXCEPT ![control[c].worker] =
                     Applied(worker[control[c].worker], control[c].kind)]
    BY <1>4 DEF MoveWorker
  <2> QED BY <1>2, <2>1, <2>2, <2>3
<1>5. ASSUME NEW c \in DOMAIN control, ControlStep(c)
      PROVE  worker'[v].goal = worker[v].goal
  BY <1>4, <1>5, ControlStepShapes DEF AdvanceFreely, AdvanceOnly, Decide, StartAction
<1>6. CASE UNCHANGED worker
  BY <1>6
<1>7. ASSUME NEW w \in Worker, ControllerStep(w)
      PROVE  UNCHANGED worker
  BY <1>0, <1>7, AdmissionShapes DEF ControllerStep, CreateLease, IssuePermit
<1> QED BY <1>3, <1>5, <1>6, <1>7 DEF Next, vars, Crash

LEMMA LeasesFollowGoalsStep ==
  ASSUME Typed, LeasesFollowGoals, [Next]_vars
  PROVE  LeasesFollowGoals'
<1> USE DEF LeasesFollowGoals
<1>0. /\ TypeOK
      /\ \A l \in DOMAIN lease : lease[l].worker \in Worker /\ lease[l].goal \in Nat
      /\ \A w \in Worker : worker[w].goal \in Nat
  BY AuthorityTyped, ControlPlaneAssumption DEF Typed, TypeOK, Lease, Goal
<1>1. \A w \in Worker : worker'[w].goal \in Nat /\ worker[w].goal <= worker'[w].goal
  BY <1>0, GoalsGrow
<1>2. CASE UNCHANGED <<lease, permit>>
  BY <1>0, <1>1, <1>2
<1>3. ASSUME NEW w \in Worker, NEW allowance \in 1..MaxAllowance,
             CreateLease(w, allowance)
      PROVE  LeasesFollowGoals'
  <2>1. UNCHANGED worker
    BY <1>3 DEF CreateLease
  <2> QED BY <1>0, <1>3, <2>1, CreateLeaseFacts
<1>4. ASSUME NEW w \in Worker, IssuePermit(w)
      PROVE  LeasesFollowGoals'
  <2>1. PICK l \in DOMAIN lease : Issues(w, l)
    BY <1>0, <1>4, IssuePermitFacts
  <2>2. DOMAIN lease' = DOMAIN lease
        /\ \A k \in DOMAIN lease : lease'[k].worker = lease[k].worker
                                   /\ lease'[k].goal = lease[k].goal
    BY <2>1 DEF Issues
  <2> QED BY <1>0, <1>1, <2>2
<1>5. ASSUME NEW w \in Worker, AdmitContinue(w)
      PROVE  LeasesFollowGoals'
  <2>1. UNCHANGED lease
    BY <1>0, <1>5, AdmissionShapes
  <2> QED BY <1>0, <1>1, <2>1
<1> QED BY <1>0, <1>2, <1>3, <1>4, <1>5, AuthorityShapes

(* The authority of one worker, with the quantifier over workers peeled    *)
(* off.                                                                    *)
Single(w) ==
  /\ \A k, l \in LiveLeases(w) : k = l
  /\ \A p, q \in UnspentPermits(w) : p = q
  /\ \A l \in LiveLeases(w), p \in UnspentPermits(w) : permit[p].lease = l

LEMMA OneAuthorityStep ==
  ASSUME Typed, SpendInv, LeasesFollowGoals, OneAuthority, [Next]_vars
  PROVE  OneAuthority'
<1> SUFFICES ASSUME NEW v \in Worker PROVE Single(v)'
  BY DEF OneAuthority, Single
<1>0. /\ TypeOK /\ Single(v)
      /\ \A l \in DOMAIN lease :
           lease[l] \in Lease /\ lease[l].goal \in Nat /\ lease[l].worker \in Worker
      /\ \A p \in DOMAIN permit : permit[p].lease \in DOMAIN lease
      /\ worker[v].goal \in Nat
      /\ worker \in [Worker -> [goal : 0..MaxGoals, phase : Phase]]
  <2>1. TypeOK /\ Single(v)
    BY DEF Typed, OneAuthority, Single
  <2>2. worker \in [Worker -> [goal : 0..MaxGoals, phase : Phase]]
    BY <2>1 DEF TypeOK
  <2>3. \A l \in DOMAIN lease : lease[l] \in Lease
    BY <2>1, AuthorityTyped
  <2>4. \A l \in DOMAIN lease : lease[l].goal \in Nat /\ lease[l].worker \in Worker
    BY <2>3, ControlPlaneAssumption DEF Lease, Goal
  <2> QED BY <2>1, <2>2, <2>3, <2>4, ControlPlaneAssumption DEF SpendInv, PermitsHaveLeases
<1> USE DEF LiveLeases, UnspentPermits, LeaseFor
<1>1. CASE worker'[v].goal = worker[v].goal + 1 /\ UNCHANGED <<lease, permit>>
  <2>1. \A l \in DOMAIN lease : lease[l].worker = v => lease[l].goal # worker'[v].goal
    BY <1>0, <1>1 DEF LeasesFollowGoals
  <2>2. LiveLeases(v)' = {} /\ UnspentPermits(v)' = {}
    BY <1>0, <1>1, <2>1
  <2> QED BY <2>2 DEF Single
<1>2. CASE worker'[v].goal = worker[v].goal /\ UNCHANGED <<lease, permit>>
  BY <1>0, <1>2 DEF Single
<1>3. ASSUME NEW w \in Worker, NEW allowance \in 1..MaxAllowance,
             CreateLease(w, allowance), worker'[v].goal = worker[v].goal
      PROVE  Single(v)'
  <2>1. /\ DOMAIN lease' = DOMAIN lease \cup {Len(lease) + 1}
        /\ \A l \in DOMAIN lease : lease'[l] = lease[l]
        /\ lease'[Len(lease) + 1].worker = w
        /\ UNCHANGED permit
    BY <1>0, <1>3, CreateLeaseFacts
  <2>2. UnspentPermits(v)' = UnspentPermits(v)
    BY <1>0, <1>3, <2>1
  <2>3. CASE v = w
    <3>1. LiveLeases(v) = {} /\ UnspentPermits(v) = {}
      BY <1>3, <2>3 DEF CreateLease
    <3>2. LiveLeases(v)' \subseteq {Len(lease) + 1}
      BY <1>3, <2>1, <3>1
    <3> QED BY <2>2, <3>1, <3>2 DEF Single
  <2>4. CASE v # w
    <3>1. LiveLeases(v)' \subseteq LiveLeases(v)
      BY <1>3, <2>1, <2>4
    <3> QED BY <1>0, <2>1, <2>2, <3>1 DEF Single
  <2> QED BY <2>3, <2>4
<1>4. ASSUME NEW w \in Worker, IssuePermit(w), worker'[v].goal = worker[v].goal
      PROVE  Single(v)'
  <2>1. PICK l \in DOMAIN lease : Issues(w, l)
    BY <1>0, <1>4, IssuePermitFacts
  <2>2. /\ DOMAIN lease' = DOMAIN lease
        /\ \A k \in DOMAIN lease : k # l => lease'[k] = lease[k]
        /\ \A k \in DOMAIN lease : /\ lease'[k].worker = lease[k].worker
                                   /\ lease'[k].goal = lease[k].goal
        /\ LiveLeases(w) = {l} /\ lease[l].worker = w /\ lease[l].goal = worker[w].goal
        /\ UnspentPermits(w) = {}
    BY <2>1 DEF Issues
  <2>3. /\ DOMAIN permit' = DOMAIN permit \cup {Len(permit) + 1}
        /\ \A p \in DOMAIN permit : permit'[p] = permit[p]
        /\ permit'[Len(permit) + 1].lease = l
    BY <2>1 DEF Issues
  <2>4. CASE v = w
    <3>1. LiveLeases(v)' \subseteq {l}
      BY <1>4, <2>2, <2>4
    <3>2. UnspentPermits(v)' \subseteq {Len(permit) + 1}
      BY <1>0, <1>4, <2>2, <2>3, <2>4
    <3> QED BY <2>3, <3>1, <3>2 DEF Single
  <2>5. CASE v # w
    <3>1. LiveLeases(v)' \subseteq LiveLeases(v)
      BY <1>4, <2>2, <2>5
    <3>2. UnspentPermits(v)' \subseteq UnspentPermits(v)
      BY <1>0, <1>4, <2>2, <2>3, <2>5
    <3>3. \A p \in UnspentPermits(v) : permit'[p] = permit[p]
      BY <2>3
    <3> QED BY <1>0, <3>1, <3>2, <3>3 DEF Single
  <2> QED BY <2>4, <2>5
<1>5. ASSUME NEW w \in Worker, AdmitContinue(w), worker'[v].goal = worker[v].goal
      PROVE  Single(v)'
  <2>1. PICK p \in UnspentPermits(w) : Spends(p, Len(control) + 1)
    BY <1>0, <1>5, AdmitContinueFacts
  <2>2. /\ DOMAIN permit' = DOMAIN permit
        /\ \A q \in DOMAIN permit : q # p => permit'[q] = permit[q]
        /\ \A q \in DOMAIN permit : permit'[q].lease = permit[q].lease
        /\ permit'[p].spentOn = Len(control) + 1
        /\ Len(control) + 1 # Unspent
        /\ UNCHANGED lease
    <3>1. Len(control) \in Nat
      BY <1>0, ControlTyped DEF TypeOK
    <3> QED BY <2>1, <3>1 DEF Spends, Unspent
  <2>3. LiveLeases(v)' = LiveLeases(v)
    BY <1>5, <2>2
  <2>4. UnspentPermits(v)' \subseteq UnspentPermits(v)
    BY <1>5, <2>2
  <2> QED BY <1>0, <2>2, <2>3, <2>4 DEF Single
<1>6. \/ worker'[v].goal = worker[v].goal
      \/ worker'[v].goal = worker[v].goal + 1 /\ UNCHANGED <<lease, permit>>
  BY GoalsGrow
<1> QED BY <1>0, <1>1, <1>2, <1>3, <1>4, <1>5, <1>6, AuthorityShapes

(* What an operation looked at makes the audits accept what it appends.    *)
(* The permit a continuation started with is the one it was admitted with, *)
(* by SpendInv; the binding of a route rests on ProposalFresh.             *)
LEMMA ReplaysTrueStep ==
  ASSUME Typed, SpendInv, ProposalFresh, replays = TRUE, [Next]_vars
  PROVE  replays' = TRUE
<1>0. TypeOK
  BY DEF Typed
<1>1. ASSUME NEW accepted, Judge(accepted), accepted
      PROVE  replays' = TRUE
  BY <1>1, Zenon DEF Judge
<1>2. CASE UNCHANGED replays
  BY <1>2
<1>3. ASSUME NEW w \in Worker, AssignGoal(w)
      PROVE  replays' = TRUE
  <2>1. AcceptsGoal(w) /\ Judge(AcceptsGoal(w))
    BY <1>3 DEF AssignGoal, AcceptsGoal
  <2> QED BY <1>1, <2>1
<1>4. ASSUME NEW w \in Worker, NEW action \in WorkerAction, Transition(w, action)
      PROVE  replays' = TRUE
  <2>1. /\ AcceptsTransition(w, worker[w].goal, action)
        /\ Judge(AcceptsTransition(w, worker[w].goal, action))
    BY <1>4 DEF Transition, AcceptsTransition
  <2> QED BY <1>1, <2>1
<1>5. ASSUME NEW w \in Worker, NEW allowance \in 1..MaxAllowance,
             CreateLease(w, allowance)
      PROVE  replays' = TRUE
  <2>1. AcceptsLease(w) /\ Judge(AcceptsLease(w))
    BY <1>5 DEF CreateLease, AcceptsLease
  <2> QED BY <1>1, <2>1
<1>6. ASSUME NEW w \in Worker, IssuePermit(w)
      PROVE  replays' = TRUE
  <2>1. PICK l \in LiveLeases(w) :
          LiveLeases(w) = {l} /\ Judge(AcceptsPermit(l, lease[l].issued + 1))
    BY <1>6 DEF IssuePermit
  <2>2. PICK k \in DOMAIN lease : Issues(w, k) /\ AcceptsPermit(k, lease[k].issued + 1)
    BY <1>0, <1>6, IssuePermitFacts
  <2>3. k = l
    BY <2>1, <2>2 DEF Issues
  <2> QED BY <1>1, <2>1, <2>2, <2>3
<1>7. ASSUME NEW w \in Worker, NEW kind \in Kind, AdmitControl(w, kind)
      PROVE  replays' = TRUE
  <2>1. Judge(AcceptsAdmission(w, worker[w].goal, kind, NoPermit))
    BY <1>7 DEF AdmitControl, Admit
  <2>2. AcceptsAdmission(w, worker[w].goal, kind, NoPermit)
    BY <1>7 DEF AdmitControl, Admit, AcceptsAdmission
  <2> QED BY <1>1, <2>1, <2>2
<1>8. ASSUME NEW w \in Worker, AdmitContinue(w)
      PROVE  replays' = TRUE
  <2>1. PICK p \in UnspentPermits(w) : Admit(w, "Continue", p)
    BY <1>8 DEF AdmitContinue
  <2>2. /\ p \in DOMAIN permit /\ p # NoPermit /\ permit[p].spentOn = Unspent
        /\ lease[permit[p].lease].worker = w
        /\ lease[permit[p].lease].goal = worker[w].goal
    BY <1>0, UnspentFacts
  <2>3. AcceptsAdmission(w, worker[w].goal, "Continue", p)
    BY <2>1, <2>2 DEF Admit, AcceptsAdmission
  <2>4. Judge(AcceptsAdmission(w, worker[w].goal, "Continue", p))
    BY <2>1 DEF Admit
  <2> QED BY <1>1, <2>3, <2>4
<1>9. ASSUME NEW c \in DOMAIN control, BindIssuer(c)
      PROVE  replays' = TRUE
  <2>1. AcceptsIssuer(c) /\ Judge(AcceptsIssuer(c))
    BY <1>9 DEF BindIssuer, AcceptsIssuer
  <2> QED BY <1>1, <2>1
<1>10. ASSUME NEW c \in DOMAIN control, ProposeRoute(c)
       PROVE  replays' = TRUE
  <2>1. AcceptsProposal(c) /\ Judge(AcceptsProposal(c))
    BY <1>10 DEF ProposeRoute, AcceptsProposal
  <2> QED BY <1>1, <2>1
<1>11. ASSUME NEW c \in DOMAIN control, BindRoute(c)
       PROVE  replays' = TRUE
  <2>1. AcceptsBinding(c) /\ Judge(AcceptsBinding(c))
    BY <1>11 DEF BindRoute, AcceptsBinding, ProposalFresh
  <2> QED BY <1>1, <2>1
<1>12. ASSUME NEW c \in DOMAIN control, NEW decision \in {"Allow", "Deny"},
              Decide(c, decision)
       PROVE  replays' = TRUE
  <2>1. AcceptsDecision(c) /\ Judge(AcceptsDecision(c))
    BY <1>12 DEF Decide, AcceptsDecision
  <2> QED BY <1>1, <2>1
<1>13. ASSUME NEW c \in DOMAIN control, DispatchRoute(c)
       PROVE  replays' = TRUE
  <2>1. AcceptsDispatch(c) /\ Judge(AcceptsDispatch(c))
    BY <1>13 DEF DispatchRoute, AcceptsDispatch
  <2> QED BY <1>1, <2>1
<1>14. ASSUME NEW c \in DOMAIN control, RecordDelivery(c)
       PROVE  replays' = TRUE
  <2>1. AcceptsDelivery(c) /\ Judge(AcceptsDelivery(c))
    BY <1>14 DEF RecordDelivery, AcceptsDelivery
  <2> QED BY <1>1, <2>1
<1>15. ASSUME NEW c \in DOMAIN control, Acknowledge(c)
       PROVE  replays' = TRUE
  <2>1. AcceptsAcknowledgement(c) /\ Judge(AcceptsAcknowledgement(c))
    BY <1>15 DEF Acknowledge, AcceptsAcknowledgement
  <2> QED BY <1>1, <2>1
<1>16. ASSUME NEW c \in DOMAIN control, ReportStatus(c)
       PROVE  replays' = TRUE
  <2>1. AcceptsStatus(c, LifecycleOf(c).phase) /\ Judge(AcceptsStatus(c, LifecycleOf(c).phase))
    BY <1>16 DEF ReportStatus, AcceptsStatus
  <2> QED BY <1>1, <2>1
<1>17. ASSUME NEW c \in DOMAIN control, StartAction(c)
       PROVE  replays' = TRUE
  <2>1. AcceptsStart(c, LifecycleOf(c).phase) /\ Judge(AcceptsStart(c, LifecycleOf(c).phase))
    BY <1>17 DEF StartAction, AcceptsStart
  <2> QED BY <1>1, <2>1
<1>18. ASSUME NEW c \in DOMAIN control, MoveWorker(c)
       PROVE  replays' = TRUE
  <2>1. AcceptsMove(c) /\ Judge(AcceptsMove(c))
    BY <1>18 DEF MoveWorker, AcceptsMove, AcceptsTransition, LifecycleOf
  <2> QED BY <1>1, <2>1
<1>19. ASSUME NEW c \in DOMAIN control, FinishAction(c)
       PROVE  replays' = TRUE
  <2>1. AcceptsFinish(c) /\ Judge(AcceptsFinish(c))
    BY <1>19 DEF FinishAction, AcceptsFinish
  <2> QED BY <1>1, <2>1
<1>20. ASSUME NEW c \in DOMAIN control, StartExecution(c)
       PROVE  replays' = TRUE
  <2> DEFINE l == permit[control[c].permit].lease
  <2>1. /\ control[c].kind = "Continue" /\ control[c].stage = "acknowledged"
        /\ OnGoal(LifecycleOf(c), control[c].goal) /\ LifecycleOf(c).phase = "Working"
        /\ Judge(AcceptsExecution(c))
    BY <1>20 DEF StartExecution
  <2>2. /\ permit[control[c].permit].spentOn = c
        /\ lease[l].worker = control[c].worker /\ lease[l].goal = control[c].goal
    BY <2>1 DEF SpendInv, PermitsSpentOnce
  <2>3. LeaseFor(l, control[c].worker)
    BY <2>1, <2>2 DEF LeaseFor, OnGoal, LifecycleOf
  <2>4. AcceptsExecution(c)
    BY <2>1, <2>2, <2>3 DEF AcceptsExecution
  <2> QED BY <1>1, <2>1, <2>4
<1>21. ASSUME NEW c \in DOMAIN control, ControlStep(c)
       PROVE  replays' = TRUE
  BY <1>9, <1>10, <1>11, <1>12, <1>13, <1>14, <1>15, <1>16, <1>17, <1>18, <1>19,
     <1>20, <1>21 DEF ControlStep
<1> QED BY <1>2, <1>3, <1>4, <1>5, <1>6, <1>7, <1>8, <1>21
        DEF Next, vars, WorkerStep, ControllerStep, Crash

-----------------------------------------------------------------------------
(***************************************************************************)
(* The theorems.                                                           *)
(***************************************************************************)
LEMMA IInvInit == Init => IInv
<1> SUFFICES ASSUME Init PROVE IInv
  OBVIOUS
<1>1. Typed
  BY TypedInit
<1>2. DOMAIN control = {} /\ DOMAIN lease = {} /\ DOMAIN permit = {} /\ replays = TRUE
  BY DEF Init
<1>3. \A w \in Worker : LiveLeases(w) = {} /\ UnspentPermits(w) = {}
  BY <1>2 DEF LiveLeases, UnspentPermits
<1> QED BY <1>1, <1>2, <1>3
        DEF IInv, NothingSentUnallowed, UntouchedSinceStart, SpendInv,
            PermitsHaveLeases, PermitsSpentOnce, ProposalFresh, LeasesFollowGoals,
            OneAuthority

LEMMA IInvStep == IInv /\ [Next]_vars => IInv'
<1> SUFFICES ASSUME IInv, [Next]_vars PROVE IInv'
  OBVIOUS
<1>1. /\ Typed /\ TypeOK /\ NothingSentUnallowed /\ UntouchedSinceStart /\ SpendInv
      /\ ProposalFresh /\ LeasesFollowGoals /\ OneAuthority /\ replays = TRUE
  BY DEF IInv, Typed
<1>2. Typed' /\ NothingSentUnallowed' /\ UntouchedSinceStart'
  BY <1>1, TypedStep, NothingSentUnallowedStep, UntouchedSinceStartStep
<1>3. SpendInv' /\ ProposalFresh' /\ LeasesFollowGoals'
  BY <1>1, SpendInvStep, ProposalFreshStep, LeasesFollowGoalsStep
<1>4. OneAuthority' /\ replays' = TRUE
  BY <1>1, OneAuthorityStep, ReplaysTrueStep
<1> QED BY <1>2, <1>3, <1>4 DEF IInv

THEOREM Inductive == Spec => []IInv
BY IInvInit, IInvStep, PTL DEF Spec

(* No sequence of operations, however interrupted, appends an event that   *)
(* the audits refuse when they replay the journal.                         *)
THEOREM EveryEventReplays == Spec => []JournalReplays
<1>1. IInv => JournalReplays
  BY DEF IInv, JournalReplays
<1> QED BY <1>1, Inductive, PTL

(* No two controls ever spend the same unit of an allowance.               *)
THEOREM UnitsAreSpentOnce == Spec => []PermitsSpentOnce
<1>1. IInv => PermitsSpentOnce
  BY DEF IInv, SpendInv
<1> QED BY <1>1, Inductive, PTL

(* Nothing is dispatched that the user has not allowed. *)
THEOREM OnlyAllowedIsSent == Spec => []NothingSentUnallowed
<1>1. IInv => NothingSentUnallowed
  BY DEF IInv
<1> QED BY <1>1, Inductive, PTL

(* A started action that nothing has overtaken finds its worker untouched. *)
THEOREM StartsAreUntouched == Spec => []UntouchedSinceStart
<1>1. IInv => UntouchedSinceStart
  BY DEF IInv
<1> QED BY <1>1, Inductive, PTL

(***************************************************************************)
(* What InterruptedStepsFinish says of MoveWorker, without ENABLED: the    *)
(* guards beside the stage hold.                                           *)
(***************************************************************************)

(* A started control was admissible in the phase its start recorded. *)
StartsAdmitted ==
  \A c \in DOMAIN control : control[c].stage = "started" =>
    control[c].goal # NoGoal /\ control[c].from \in AdmitPhase[control[c].kind]

LEMMA StartsAdmittedStep ==
  ASSUME TypeOK, StartsAdmitted, [Next]_vars
  PROVE  StartsAdmitted'
<1> USE DEF StartsAdmitted
<1>0. control \in Seq(Control) /\ \A c \in DOMAIN control : control[c] \in Control
  BY ControlTyped DEF TypeOK
<1>1. ASSUME NEW w \in Worker, WorkerStep(w)
      PROVE  StartsAdmitted'
  <2>1. control' = Overtaken(w)
    BY <1>1, WorkerStepKeeps
  <2>2. /\ DOMAIN control' = DOMAIN control
        /\ \A d \in DOMAIN control :
             /\ control'[d].stage = control[d].stage /\ control'[d].kind = control[d].kind
             /\ control'[d].goal = control[d].goal /\ control'[d].from = control[d].from
    BY <1>0, <2>1, OvertakenFacts
  <2> QED BY <2>2
<1>2. ASSUME NEW w \in Worker, NEW kind \in Kind, NEW p \in Nat,
             OneMoreControl(w, kind, p)
      PROVE  StartsAdmitted'
  BY <1>2, OneMoreControlFacts
<1>3. ASSUME NEW c \in DOMAIN control, NEW stage, NEW decision, NEW from,
             Edited(c, stage, decision, from),
             stage = "started" =>
               control[c].goal # NoGoal /\ from \in AdmitPhase[control[c].kind]
      PROVE  StartsAdmitted'
  BY <1>3 DEF Edited
<1>4. ASSUME NEW c \in DOMAIN control, NEW stage \in Stage, AdvanceFreely(c, stage)
      PROVE  StartsAdmitted'
  <2>1. Edited(c, stage, control[c].decision, control[c].from) /\ stage # "started"
    BY <1>0, <1>4, AdvanceFacts DEF AdvanceFreely, AdvanceOnly
  <2> QED BY <1>3, <2>1
<1>5. ASSUME NEW c \in DOMAIN control, NEW decision \in {"Allow", "Deny"},
             Decide(c, decision)
      PROVE  StartsAdmitted'
  <2>1. Edited(c, control[c].stage, decision, control[c].from)
    BY <1>0, <1>5, DecideFacts
  <2> QED BY <1>3, <2>1
<1>6. ASSUME NEW c \in DOMAIN control, StartAction(c)
      PROVE  StartsAdmitted'
  <2>1. Edited(c, "started", control[c].decision, LifecycleOf(c).phase)
    BY <1>6, StartActionFacts
  <2>2. control[c].goal # NoGoal /\ LifecycleOf(c).phase \in AdmitPhase[control[c].kind]
    BY <1>6 DEF StartAction, Fresh, Admissible, OnGoal
  <2> QED BY <1>3, <2>1, <2>2
<1>7. ASSUME NEW c \in DOMAIN control, MoveWorker(c)
      PROVE  StartsAdmitted'
  <2>1. \A d \in DOMAIN control :
          /\ Overtaken(control[c].worker)[d].stage = control[d].stage
          /\ Overtaken(control[c].worker)[d].kind = control[d].kind
          /\ Overtaken(control[c].worker)[d].goal = control[d].goal
          /\ Overtaken(control[c].worker)[d].from = control[d].from
    BY <1>0, OvertakenFacts
  <2> QED BY <1>0, <1>7, <2>1, MoveWorkerFacts
<1>8. CASE UNCHANGED control
  BY <1>8
<1> QED BY <1>1, <1>2, <1>4, <1>5, <1>6, <1>7, <1>8, ControlShapes, ControlStepShapes

InterruptedMayMove ==
  \A c \in DOMAIN control : control[c].stage = "started" /\ ~control[c].overtaken =>
    /\ Fresh(c)
    /\ LifecycleOf(c).phase = control[c].from
    /\ Applies(LifecycleOf(c), control[c].goal, control[c].kind)
    /\ AcceptsMove(c)

(* An action that started, and whose worker nothing has moved since, can   *)
(* still move it, however it was interrupted: the control is fresh, the    *)
(* phase is the recorded one, the lifecycle accepts the move, and the      *)
(* audits accept the transition (append_worker_control_action_checked).    *)
THEOREM InterruptedMovesStayOpen == Spec => []InterruptedMayMove
<1>1. Init => StartsAdmitted
  BY DEF Init, StartsAdmitted
<1>2. IInv /\ StartsAdmitted /\ [Next]_vars => StartsAdmitted'
  BY StartsAdmittedStep DEF IInv, Typed
<1>3. Spec => []StartsAdmitted
  BY <1>1, <1>2, Inductive, PTL DEF Spec
<1>4. IInv /\ StartsAdmitted => InterruptedMayMove
  <2> SUFFICES ASSUME IInv, StartsAdmitted, NEW c \in DOMAIN control,
                      control[c].stage = "started", ~control[c].overtaken
               PROVE  /\ Fresh(c)
                      /\ LifecycleOf(c).phase = control[c].from
                      /\ Applies(LifecycleOf(c), control[c].goal, control[c].kind)
                      /\ AcceptsMove(c)
    BY DEF InterruptedMayMove
  <2>1. LifecycleOf(c).goal = control[c].goal /\ LifecycleOf(c).phase = control[c].from
    BY DEF IInv, UntouchedSinceStart
  <2>2. control[c].goal # NoGoal /\ control[c].from \in AdmitPhase[control[c].kind]
    BY DEF StartsAdmitted
  <2>3. control[c].kind \in Mutating
    BY DEF IInv, Typed, StartedMoves
  <2>4. \A kind \in Mutating : AdmitPhase[kind] \subseteq From[kind]
    BY DEF Mutating, AdmitPhase, From, Terminal
  <2>5. Fresh(c)
    BY <2>1, <2>2 DEF Fresh, Admissible, OnGoal
  <2>6. Applies(LifecycleOf(c), control[c].goal, control[c].kind)
    BY <2>1, <2>2, <2>3, <2>4 DEF Applies, OnGoal
  <2>7. AcceptsMove(c)
    BY <2>6 DEF AcceptsMove, AcceptsTransition, LifecycleOf
  <2> QED BY <2>1, <2>5, <2>6, <2>7
<1> QED BY <1>3, <1>4, Inductive, PTL

LEMMA AtMostOne ==
  ASSUME NEW S, \A x, y \in S : x = y
  PROVE  Cardinality(S) <= 1
<1>1. CASE S = {}
  BY <1>1, FS_EmptySet
<1>2. CASE S # {}
  <2>1. PICK x \in S : TRUE
    BY <1>2
  <2>2. S = {x}
    BY <2>1
  <2> QED BY <2>2, FS_Singleton
<1> QED BY <1>1, <1>2

(* A goal of a worker never has two sources of further continuation. *)
THEOREM AuthorityIsSingle == Spec => []OneLiveAuthority
<1>1. IInv => OneLiveAuthority
  BY AtMostOne DEF IInv, OneAuthority, OneLiveAuthority
<1> QED BY <1>1, Inductive, PTL

(* What the user has let go, and what a permit was spent on, stay so. *)
THEOREM WhatIsSentStaysSent == Spec => SentIsFinal
<1> DEFINE Final ==
      /\ \A c \in DOMAIN control : Sent(c) =>
           Sent(c)' /\ control'[c].decision = control[c].decision
      /\ \A p \in DOMAIN permit : permit[p].spentOn # Unspent => permit'[p] = permit[p]
<1>1. IInv /\ [Next]_vars => [Final]_vars
  <2> SUFFICES ASSUME IInv, [Next]_vars PROVE Final
    OBVIOUS
  <2>0. TypeOK /\ control \in Seq(Control)
    BY DEF IInv, Typed, TypeOK
  <2>1. ASSUME NEW c \in DOMAIN control, Sent(c)
        PROVE  Sent(c)' /\ control'[c].decision = control[c].decision
    <3> USE DEF Sent
    <3>1. ASSUME NEW w \in Worker, WorkerStep(w)
          PROVE  Sent(c)' /\ control'[c].decision = control[c].decision
      <4>1. control' = Overtaken(w)
        BY <2>0, <3>1, WorkerStepKeeps
      <4>2. /\ control'[c].stage = control[c].stage
            /\ control'[c].decision = control[c].decision
        BY <2>0, <4>1, OvertakenFacts
      <4> QED BY <2>1, <4>2
    <3>2. ASSUME NEW w \in Worker, NEW kind \in Kind, NEW p \in Nat,
                 OneMoreControl(w, kind, p)
          PROVE  Sent(c)' /\ control'[c].decision = control[c].decision
      BY <2>0, <2>1, <3>2, OneMoreControlFacts
    <3>3. ASSUME NEW d \in DOMAIN control, NEW stage \in Stage, AdvanceFreely(d, stage)
          PROVE  Sent(c)' /\ control'[c].decision = control[c].decision
      <4>1. Edited(d, stage, control[d].decision, control[d].from)
        BY <2>0, <3>3, AdvanceFacts DEF AdvanceFreely, AdvanceOnly
      <4> QED BY <2>1, <3>3, <4>1 DEF Edited, AdvanceFreely
    <3>4. ASSUME NEW d \in DOMAIN control, NEW decision \in {"Allow", "Deny"},
                 Decide(d, decision)
          PROVE  Sent(c)' /\ control'[c].decision = control[c].decision
      <4>1. Edited(d, control[d].stage, decision, control[d].from)
        BY <2>0, <3>4, DecideFacts
      <4>2. d # c
        BY <2>1, <3>4 DEF Decide, Undispatched
      <4> QED BY <2>1, <4>1, <4>2 DEF Edited
    <3>5. ASSUME NEW d \in DOMAIN control, StartAction(d)
          PROVE  Sent(c)' /\ control'[c].decision = control[c].decision
      <4>1. Edited(d, "started", control[d].decision, LifecycleOf(d).phase)
        BY <2>0, <3>5, StartActionFacts
      <4> QED BY <2>1, <4>1 DEF Edited, Undispatched
    <3>6. ASSUME NEW d \in DOMAIN control, MoveWorker(d)
          PROVE  Sent(c)' /\ control'[c].decision = control[c].decision
      <4>1. /\ Overtaken(control[d].worker)[c].stage = control[c].stage
            /\ Overtaken(control[d].worker)[c].decision = control[c].decision
        BY <2>0, OvertakenFacts
      <4> QED BY <2>0, <2>1, <3>6, <4>1, MoveWorkerFacts DEF Undispatched
    <3>7. CASE UNCHANGED control
      BY <2>1, <3>7
    <3> QED BY <2>0, <3>1, <3>2, <3>3, <3>4, <3>5, <3>6, <3>7, ControlShapes,
               ControlStepShapes
  <2>2. ASSUME NEW p \in DOMAIN permit, permit[p].spentOn # Unspent
        PROVE  permit'[p] = permit[p]
    <3>1. ASSUME NEW w \in Worker, AdmitContinue(w)
          PROVE  permit'[p] = permit[p]
      <4>1. PICK q \in UnspentPermits(w) : Spends(q, Len(control) + 1)
        BY <2>0, <3>1, AdmitContinueFacts
      <4>2. q # p
        BY <2>0, <2>2, UnspentFacts
      <4> QED BY <4>1, <4>2 DEF Spends
    <3>2. ASSUME NEW w \in Worker, IssuePermit(w)
          PROVE  permit'[p] = permit[p]
      BY <2>0, <3>2, IssuePermitFacts DEF Issues
    <3>3. ASSUME NEW w \in Worker, NEW allowance \in 1..MaxAllowance,
                 CreateLease(w, allowance)
          PROVE  permit'[p] = permit[p]
      BY <2>0, <3>3, CreateLeaseFacts
    <3> QED BY <2>0, <3>1, <3>2, <3>3, AuthorityShapes
  <2> QED BY <2>1, <2>2
<1>2. Spec => [][Final]_vars
  BY <1>1, Inductive, PTL DEF Spec
<1> QED BY <1>2 DEF SentIsFinal

-----------------------------------------------------------------------------
(***************************************************************************)
(* Supervision, seen from outside.  Three sets of the mapping grow and     *)
(* shrink with the stages of the controls alone: who a control is for and  *)
(* which unit it carries never change (AllAlike).                          *)
(***************************************************************************)
SpentUnits == { SpentBy(c) : c \in { d \in DOMAIN control :
                                     Sent(d) /\ control[d].kind = "Continue" } }

SentNames == { c \in DOMAIN control : Sent(c) }

Waiting == { Message(c) : c \in { d \in DOMAIN control :
               Sent(d) /\ control[d].stage \notin Effective } }

(* A control seen from outside stays what it is. *)
Alike(d) ==
  /\ d \in DOMAIN control'
  /\ control'[d].kind = control[d].kind
  /\ Message(d)' = Message(d)
  /\ control[d].kind = "Continue" => SpentBy(d)' = SpentBy(d)

AllAlike ==
  /\ \A d \in DOMAIN control : Alike(d)
  /\ \A d \in DOMAIN control' : d \notin DOMAIN control => ~Sent(d)'

(* It is sent, and has had its effect, exactly if it was and had. *)
StandsStill(d) ==
  /\ Sent(d)' <=> Sent(d)
  /\ control'[d].stage \in Effective <=> control[d].stage \in Effective

OthersStandStill(c) == \A d \in DOMAIN control : d # c => StandsStill(d)

LEMMA NothingToSee ==
  ASSUME AllAlike, \A d \in DOMAIN control : StandsStill(d)
  PROVE  UNCHANGED <<SpentUnits, SentNames, Waiting>>
<1>1. \A d \in DOMAIN control : Alike(d) /\ StandsStill(d)
  BY DEF AllAlike
<1>2. \A d : d \in DOMAIN control' /\ Sent(d)' <=> d \in DOMAIN control /\ Sent(d)
  BY <1>1 DEF AllAlike, Alike, StandsStill
<1>3. SentNames' = SentNames
  BY <1>2, Zenon DEF SentNames
<1>4. { d \in DOMAIN control : Sent(d) /\ control[d].kind = "Continue" }'
        = { d \in DOMAIN control : Sent(d) /\ control[d].kind = "Continue" }
  BY <1>1, <1>2 DEF Alike
<1>5. { d \in DOMAIN control : Sent(d) /\ control[d].stage \notin Effective }'
        = { d \in DOMAIN control : Sent(d) /\ control[d].stage \notin Effective }
  BY <1>1, <1>2 DEF StandsStill
<1>6. SpentUnits' = SpentUnits
  BY <1>1, <1>4 DEF SpentUnits, Alike
<1>7. Waiting' = Waiting
  BY <1>1, <1>5 DEF Waiting, Alike
<1> QED BY <1>3, <1>6, <1>7

LEMMA OneIsSent ==
  ASSUME AllAlike, NEW c \in DOMAIN control, OthersStandStill(c),
         ~Sent(c), Sent(c)', control'[c].stage \notin Effective
  PROVE  /\ c \notin SentNames /\ SentNames' = SentNames \cup {c}
         /\ Waiting' = Waiting \cup {Message(c)}
         /\ SpentUnits' = IF control[c].kind = "Continue"
                          THEN SpentUnits \cup {SpentBy(c)} ELSE SpentUnits
<1>1. \A d \in DOMAIN control : Alike(d)
  BY DEF AllAlike
<1>2. \A d : d \in DOMAIN control' /\ Sent(d)'
                <=> d = c \/ (d \in DOMAIN control /\ Sent(d))
  BY <1>1 DEF AllAlike, Alike, OthersStandStill, StandsStill
<1>3. c \notin SentNames /\ SentNames' = SentNames \cup {c}
  BY <1>2 DEF SentNames
<1>4. { d \in DOMAIN control : Sent(d) /\ control[d].kind = "Continue" }'
        = { d \in DOMAIN control : Sent(d) /\ control[d].kind = "Continue" }
            \cup (IF control[c].kind = "Continue" THEN {c} ELSE {})
  BY <1>1, <1>2 DEF Alike
<1>5. { d \in DOMAIN control : Sent(d) /\ control[d].stage \notin Effective }'
        = { d \in DOMAIN control : Sent(d) /\ control[d].stage \notin Effective } \cup {c}
  BY <1>1, <1>2 DEF OthersStandStill, StandsStill
<1>6. Waiting' = Waiting \cup {Message(c)}
  BY <1>1, <1>5 DEF Waiting, Alike
<1>7. CASE control[c].kind = "Continue"
  BY <1>1, <1>3, <1>4, <1>6, <1>7 DEF SpentUnits, Alike
<1>8. CASE control[c].kind # "Continue"
  BY <1>1, <1>3, <1>4, <1>6, <1>8 DEF SpentUnits, Alike
<1> QED BY <1>7, <1>8

LEMMA OneHasItsEffect ==
  ASSUME AllAlike, NEW c \in DOMAIN control, OthersStandStill(c),
         Sent(c), Sent(c)', control[c].stage \notin Effective,
         control'[c].stage \in Effective
  PROVE  /\ UNCHANGED <<SpentUnits, SentNames>>
         /\ Message(c) \in Waiting /\ Waiting' = Waiting \ {Message(c)}
<1>1. \A d \in DOMAIN control : Alike(d)
  BY DEF AllAlike
<1>2. \A d : d \in DOMAIN control' /\ Sent(d)' <=> d \in DOMAIN control /\ Sent(d)
  BY <1>1 DEF AllAlike, Alike, OthersStandStill, StandsStill
<1>3. SentNames' = SentNames
  BY <1>2, Zenon DEF SentNames
<1>4. { d \in DOMAIN control : Sent(d) /\ control[d].kind = "Continue" }'
        = { d \in DOMAIN control : Sent(d) /\ control[d].kind = "Continue" }
  BY <1>1, <1>2 DEF Alike
<1>5. { d \in DOMAIN control : Sent(d) /\ control[d].stage \notin Effective }'
        = { d \in DOMAIN control : Sent(d) /\ control[d].stage \notin Effective } \ {c}
  BY <1>1, <1>2 DEF OthersStandStill, StandsStill
<1>6. SpentUnits' = SpentUnits
  BY <1>1, <1>4 DEF SpentUnits, Alike
<1>7. \A d : Message(d) = Message(c) <=> d = c
  <2>1. \A d : Message(d).id = d
    BY DEF Message
  <2> QED BY <2>1
<1>8. Message(c) \in Waiting /\ Waiting' = Waiting \ {Message(c)}
  BY <1>1, <1>5, <1>7 DEF Waiting, Alike
<1> QED BY <1>3, <1>6, <1>8

(* No step takes a permit or a lease away, or makes it another's. *)
AuthorityKept ==
  /\ \A l \in DOMAIN lease :
       /\ l \in DOMAIN lease'
       /\ lease'[l].worker = lease[l].worker /\ lease'[l].goal = lease[l].goal
       /\ lease'[l].allowance = lease[l].allowance
  /\ \A p \in DOMAIN permit :
       /\ p \in DOMAIN permit'
       /\ permit'[p].lease = permit[p].lease /\ permit'[p].ordinal = permit[p].ordinal

LEMMA AuthorityKeptStep ==
  ASSUME TypeOK, [Next]_vars
  PROVE  AuthorityKept
<1> USE DEF AuthorityKept
<1>1. CASE UNCHANGED <<lease, permit>>
  BY <1>1
<1>2. ASSUME NEW w \in Worker, NEW allowance \in 1..MaxAllowance,
             CreateLease(w, allowance)
      PROVE  AuthorityKept
  <2>1. /\ DOMAIN lease' = DOMAIN lease \cup {Len(lease) + 1}
        /\ \A l \in DOMAIN lease : lease'[l] = lease[l]
        /\ UNCHANGED permit
    BY <1>2, CreateLeaseFacts
  <2> QED BY <2>1
<1>3. ASSUME NEW w \in Worker, IssuePermit(w)
      PROVE  AuthorityKept
  <2>1. PICK l \in DOMAIN lease : Issues(w, l)
    BY <1>3, IssuePermitFacts
  <2> QED BY <2>1 DEF Issues
<1>4. ASSUME NEW w \in Worker, AdmitContinue(w)
      PROVE  AuthorityKept
  <2>1. PICK p \in UnspentPermits(w) : Spends(p, Len(control) + 1)
    BY <1>4, AdmitContinueFacts
  <2> QED BY <2>1 DEF Spends
<1> QED BY <1>1, <1>2, <1>3, <1>4, AuthorityShapes

(* No lease issues more than its allowance. *)
LeaseBounds == \A l \in DOMAIN lease : lease[l].issued <= lease[l].allowance

LEMMA LeaseBoundsStep ==
  ASSUME TypeOK, LeaseBounds, [Next]_vars
  PROVE  LeaseBounds'
<1> USE DEF LeaseBounds
<1>1. CASE UNCHANGED <<lease, permit>>
  BY <1>1
<1>2. ASSUME NEW w \in Worker, NEW allowance \in 1..MaxAllowance,
             CreateLease(w, allowance)
      PROVE  LeaseBounds'
  <2>1. /\ DOMAIN lease' = DOMAIN lease \cup {Len(lease) + 1}
        /\ \A l \in DOMAIN lease : lease'[l] = lease[l]
        /\ lease'[Len(lease) + 1].allowance = allowance
        /\ lease'[Len(lease) + 1].issued = 0
    BY <1>2, CreateLeaseFacts
  <2> QED BY <2>1
<1>3. ASSUME NEW w \in Worker, IssuePermit(w)
      PROVE  LeaseBounds'
  <2>1. PICK l \in DOMAIN lease : Issues(w, l)
    BY <1>3, IssuePermitFacts
  <2>2. /\ lease[l].issued \in Nat /\ lease[l].allowance \in Nat
        /\ lease[l].issued < lease[l].allowance
    BY <2>1, AuthorityTyped, ControlPlaneAssumption DEF Issues, LiveLeases, Lease
  <2>3. \A k \in DOMAIN lease : k # l => lease'[k] = lease[k]
    BY <2>1 DEF Issues
  <2>4. lease'[l].issued <= lease'[l].allowance
    BY <2>1, <2>2 DEF Issues
  <2> QED BY <2>1, <2>3, <2>4 DEF Issues
<1>4. ASSUME NEW w \in Worker, AdmitContinue(w)
      PROVE  LeaseBounds'
  <2>1. PICK p \in UnspentPermits(w) : Spends(p, Len(control) + 1)
    BY <1>4, AdmitContinueFacts
  <2> QED BY <2>1 DEF Spends
<1> QED BY <1>1, <1>2, <1>3, <1>4, AuthorityShapes

LEMMA SameUnit ==
  ASSUME NEW l \in DOMAIN lease, AuthorityKept
  PROVE  \A n : UnitOf(l, n)' = UnitOf(l, n)
BY DEF AuthorityKept, UnitOf

LEMMA SpentByKept ==
  ASSUME SpendInv, AuthorityKept, NEW d \in DOMAIN control,
         control[d].kind = "Continue", control'[d].permit = control[d].permit
  PROVE  SpentBy(d)' = SpentBy(d)
<1>1. PICK p : p = control[d].permit
  OBVIOUS
<1>2. p \in DOMAIN permit /\ permit[p].lease \in DOMAIN lease
  BY <1>1 DEF SpendInv, PermitsSpentOnce, PermitsHaveLeases
<1>3. PICK l, n : l = permit[p].lease /\ n = permit[p].ordinal
  OBVIOUS
<1>4. permit'[p].lease = l /\ permit'[p].ordinal = n
  BY <1>2, <1>3 DEF AuthorityKept
<1>5. SpentBy(d) = UnitOf(l, n)
  BY <1>1, <1>3 DEF SpentBy
<1>6. SpentBy(d)' = [worker |-> lease'[l].worker, goal |-> lease'[l].goal, name |-> <<l, n>>]
  BY <1>1, <1>4 DEF SpentBy, UnitOf
<1>7. lease'[l].worker = lease[l].worker /\ lease'[l].goal = lease[l].goal
  BY <1>2, <1>3 DEF AuthorityKept
<1> QED BY <1>5, <1>6, <1>7 DEF UnitOf

LEMMA AllAlikeStep ==
  ASSUME TypeOK, SpendInv, [Next]_vars
  PROVE  AllAlike
<1>1. AuthorityKept
  BY AuthorityKeptStep
<1>2. ASSUME NEW d \in DOMAIN control, d \in DOMAIN control',
             control'[d].worker = control[d].worker, control'[d].goal = control[d].goal,
             control'[d].kind = control[d].kind, control'[d].permit = control[d].permit
      PROVE  Alike(d)
  <2>1. control[d].kind = "Continue" => SpentBy(d)' = SpentBy(d)
    BY <1>1, <1>2, SpentByKept
  <2>2. Message(d)' = Message(d)
    BY <1>2 DEF Message
  <2> QED BY <1>2, <2>1, <2>2 DEF Alike
<1>3. ASSUME SameControls PROVE AllAlike
  BY <1>2, <1>3 DEF SameControls, AllAlike
<1>4. ASSUME NEW w \in Worker, NEW kind \in Kind, NEW q \in Nat,
             OneMoreControl(w, kind, q)
      PROVE  AllAlike
  <2>1. PICK new : new = Len(control) + 1
    OBVIOUS
  <2>2. /\ DOMAIN control' = DOMAIN control \cup {new}
        /\ \A d \in DOMAIN control : control'[d] = control[d]
        /\ control'[new].stage = "admitted"
    BY <1>4, <2>1, OneMoreControlFacts
  <2>3. \A d \in DOMAIN control : Alike(d)
    BY <1>2, <2>2
  <2>4. ~Sent(new)'
    BY <2>2 DEF Sent, Undispatched
  <2>5. \A d \in DOMAIN control' : d \notin DOMAIN control => d = new
    BY <2>2
  <2> QED BY <2>3, <2>4, <2>5, Zenon DEF AllAlike
<1>5. UNCHANGED control => SameControls
  BY DEF SameControls
<1>6. ASSUME NEW w \in Worker, WorkerStep(w) PROVE SameControls
  BY <1>6, WorkerStepKeeps
<1>7. ASSUME NEW c \in DOMAIN control, ControlStep(c) PROVE SameControls
  BY <1>7, ControlStepKeeps
<1> QED BY <1>3, <1>4, <1>5, <1>6, <1>7, ControlShapes

(* The units granted, one by one. *)
UnitGranted(u) ==
  \E l \in DOMAIN lease : \E n \in 1..lease[l].allowance : u = UnitOf(l, n)

LEMMA GrantedUnits ==
  /\ \A u : u \in Granted <=> UnitGranted(u)
  /\ \A u : u \in Granted' <=> UnitGranted(u)'
BY DEF Granted, UnitGranted

LEMMA SameGrants ==
  ASSUME AuthorityKept, DOMAIN lease' = DOMAIN lease
  PROVE  Granted' = Granted
<1>1. \A l \in DOMAIN lease : \A n : UnitOf(l, n)' = UnitOf(l, n)
  BY SameUnit
<1>2. \A l \in DOMAIN lease : lease'[l].allowance = lease[l].allowance
  BY DEF AuthorityKept
<1>3. ASSUME NEW u PROVE UnitGranted(u)' <=> UnitGranted(u)
  BY <1>1, <1>2 DEF UnitGranted
<1>4. \A u : u \in Granted' <=> u \in Granted
  BY <1>3, GrantedUnits
<1> QED BY <1>4

(* The abstract machine reads a lifecycle as the model does. *)
LEMMA SameLifecycles ==
  /\ \A lifecycle : Promise!Assignable(lifecycle) <=> Assignable(lifecycle)
  /\ \A lifecycle, goal, action :
       /\ Promise!Applies(lifecycle, goal, action) <=> Applies(lifecycle, goal, action)
       /\ Promise!Applied(lifecycle, action) = Applied(lifecycle, action)
       /\ Promise!Admissible(lifecycle, goal, action) <=> Admissible(lifecycle, goal, action)
  /\ Promise!WorkerAction = WorkerAction /\ Promise!Kind = Kind
  /\ Promise!Mutating = Mutating /\ Promise!Terminal = Terminal
  /\ Promise!NoGoal = NoGoal /\ Promise!Unassigned = Unassigned
BY Zenon
   DEF Promise!Assignable, Assignable, Promise!Applies, Applies, Promise!OnGoal, OnGoal,
       Promise!From, From, Promise!To, To, Promise!Applied, Applied, Promise!Phase, Phase,
       Promise!Admissible, Admissible, Promise!AdmitPhase, AdmitPhase,
       Promise!Terminal, Terminal, Promise!NoGoal, NoGoal, Promise!Unassigned, Unassigned,
       Promise!WorkerAction, WorkerAction, Promise!Kind, Kind, Promise!Mutating, Mutating

(* What the user sees of supervision does not change. *)
Unseen == UNCHANGED <<worker, mover, Granted, SpentUnits, SentNames, Waiting>>

(* What every case below starts from. *)
Seen == TypeOK /\ StartedMoves /\ SpendInv /\ LeaseBounds /\ AllAlike

LEMMA StandStill ==
  ASSUME \A d \in DOMAIN control : control'[d].stage = control[d].stage
  PROVE  \A d \in DOMAIN control : StandsStill(d)
BY DEF StandsStill, Sent

LEMMA OwnRefines ==
  ASSUME Seen, NEW w \in Worker, WorkerStep(w)
  PROVE  Promise!Own(w)
<1>0. TypeOK /\ AllAlike /\ control \in Seq(Control)
  BY DEF Seen, TypeOK
<1>1. control' = Overtaken(w) /\ UNCHANGED <<lease, permit>>
  BY <1>0, WorkerStepKeeps
<1>2. \A d \in DOMAIN control : control'[d].stage = control[d].stage
  BY <1>0, <1>1, OvertakenFacts
<1>3. UNCHANGED <<SpentUnits, SentNames, Waiting>>
  BY <1>0, <1>2, StandStill, NothingToSee
<1>4. Granted' = Granted
  BY <1>1 DEF Granted, UnitOf
<1>5. mover' = [mover EXCEPT ![w] = NoControl]
  BY DEF WorkerStep, AssignGoal, Transition
<1>6. \/ /\ Promise!Assignable(worker[w])
         /\ worker' = [worker EXCEPT ![w] = [goal |-> @.goal + 1, phase |-> "Ready"]]
      \/ \E action \in Promise!WorkerAction :
           /\ Promise!Applies(worker[w], worker[w].goal, action)
           /\ worker' = [worker EXCEPT ![w] = Promise!Applied(@, action)]
  <2>1. CASE AssignGoal(w)
    BY <2>1, SameLifecycles DEF AssignGoal
  <2>2. ASSUME NEW action \in WorkerAction, Transition(w, action)
        PROVE  /\ action \in Promise!WorkerAction
               /\ Promise!Applies(worker[w], worker[w].goal, action)
               /\ worker' = [worker EXCEPT ![w] = Promise!Applied(@, action)]
    BY <2>2, SameLifecycles DEF Transition
  <2> QED BY <2>1, <2>2 DEF WorkerStep
<1> QED BY <1>3, <1>4, <1>5, <1>6 DEF Promise!Own, SpentUnits, SentNames, Waiting

LEMMA GrantRefines ==
  ASSUME Seen, AuthorityKept, NEW w \in Worker, NEW allowance \in 1..MaxAllowance,
         CreateLease(w, allowance)
  PROVE  \E names \in SUBSET ((1..MaxLeases) \X (1..MaxAllowance)) : Promise!Grant(w, names)
<1>0. TypeOK /\ AllAlike
  BY DEF Seen
<1>1. PICK new : new = Len(lease) + 1
  OBVIOUS
<1>2. /\ DOMAIN lease' = DOMAIN lease \cup {new} /\ new \notin DOMAIN lease
      /\ lease'[new].worker = w /\ lease'[new].goal = worker[w].goal
      /\ lease'[new].allowance = allowance
  BY <1>0, <1>1, CreateLeaseFacts
<1>3. /\ worker[w].goal # NoGoal /\ worker[w].phase \notin Terminal
      /\ UNCHANGED <<worker, mover, control>> /\ Len(lease) < MaxLeases
  BY DEF CreateLease
<1>4. UNCHANGED <<SpentUnits, SentNames, Waiting>>
  BY <1>0, <1>3, StandStill, NothingToSee
<1>5. PICK names : names = { <<new, n>> : n \in 1..allowance }
  OBVIOUS
<1>6. new \in 1..MaxLeases /\ \A n \in 1..allowance : n \in 1..MaxAllowance
  BY <1>0, <1>1, <1>3, AuthorityTyped, ControlPlaneAssumption
<1>7. names \in SUBSET ((1..MaxLeases) \X (1..MaxAllowance))
  BY <1>5, <1>6
<1>8. ASSUME NEW u \in Granted PROVE u.name \notin names
  <2>1. PICK l \in DOMAIN lease : \E n \in 1..lease[l].allowance : u = UnitOf(l, n)
    BY <1>8, GrantedUnits DEF UnitGranted
  <2>2. \E n : u.name = <<l, n>>
    BY <2>1 DEF UnitOf
  <2>3. l # new
    BY <1>2
  <2> QED BY <1>5, <2>2, <2>3
<1>9. \A n : UnitOf(new, n)' = [worker |-> w, goal |-> worker[w].goal, name |-> <<new, n>>]
  BY <1>2 DEF UnitOf
<1>10. \A u : UnitGranted(u)' <=>
         UnitGranted(u) \/ \E n \in 1..allowance :
           u = [worker |-> w, goal |-> worker[w].goal, name |-> <<new, n>>]
  <2>1. \A l \in DOMAIN lease : \A n : UnitOf(l, n)' = UnitOf(l, n)
    BY SameUnit
  <2>2. \A l \in DOMAIN lease : lease'[l].allowance = lease[l].allowance
    BY DEF AuthorityKept
  <2> QED BY <1>2, <1>9, <2>1, <2>2 DEF UnitGranted
<1>11. \A u : u \in [worker : {w}, goal : {worker[w].goal}, name : names] <=>
         \E n \in 1..allowance :
           u = [worker |-> w, goal |-> worker[w].goal, name |-> <<new, n>>]
  BY <1>5
<1>12. Granted' = Granted \cup [worker : {w}, goal : {worker[w].goal}, name : names]
  BY <1>10, <1>11, GrantedUnits
<1>13. Promise!Grant(w, names)
  BY <1>3, <1>4, <1>8, <1>12, SameLifecycles
     DEF Promise!Grant, SpentUnits, SentNames, Waiting
<1> QED BY <1>7, <1>13

LEMMA StageSeen ==
  ASSUME NEW c \in DOMAIN control, NEW stage, NEW decision, NEW from,
         Edited(c, stage, decision, from)
  PROVE  /\ OthersStandStill(c)
         /\ control'[c].stage = stage
         /\ Sent(c)' <=> stage \notin Undispatched
BY DEF Edited, OthersStandStill, StandsStill, Sent

LEMMA AdvanceSeen ==
  ASSUME NEW c \in DOMAIN control, NEW stage \in Stage, TypeOK, Advance(c, stage)
  PROVE  /\ OthersStandStill(c)
         /\ control'[c].stage = stage
         /\ Sent(c)' <=> stage \notin Undispatched
<1>1. control \in Seq(Control)
  BY DEF TypeOK
<1>2. Edited(c, stage, control[c].decision, control[c].from)
  BY <1>1, AdvanceFacts
<1> QED BY <1>2, StageSeen

(* The unit a control to continue carries was granted, and no other        *)
(* control carries it.                                                     *)
LEMMA UnitIsFresh ==
  ASSUME Seen, NEW c \in DOMAIN control, control[c].kind = "Continue", ~Sent(c)
  PROVE  /\ SpentBy(c) \in Granted \ SpentUnits
         /\ SpentBy(c).worker = control[c].worker /\ SpentBy(c).goal = control[c].goal
<1>0. TypeOK /\ SpendInv /\ LeaseBounds
  BY DEF Seen
<1>1. PICK p : p = control[c].permit
  OBVIOUS
<1>2. /\ p \in DOMAIN permit /\ permit[p].spentOn = c
      /\ permit[p].lease \in DOMAIN lease
      /\ lease[permit[p].lease].worker = control[c].worker
      /\ lease[permit[p].lease].goal = control[c].goal
      /\ permit[p].ordinal <= lease[permit[p].lease].issued
  BY <1>0, <1>1 DEF SpendInv, PermitsSpentOnce, PermitsHaveLeases
<1>3. PICK l, n : l = permit[p].lease /\ n = permit[p].ordinal
  OBVIOUS
<1>4. SpentBy(c) = UnitOf(l, n)
  BY <1>1, <1>3 DEF SpentBy
<1>5. /\ n \in 1..MaxAllowance /\ lease[l].issued \in Nat /\ lease[l].allowance \in Nat
  BY <1>0, <1>2, <1>3, AuthorityTyped, ControlPlaneAssumption DEF Permit, Lease
<1>6. n \in 1..lease[l].allowance
  <2>1. n <= lease[l].issued /\ lease[l].issued <= lease[l].allowance
    BY <1>0, <1>2, <1>3 DEF LeaseBounds
  <2> QED BY <1>5, <2>1
<1>7. SpentBy(c) \in Granted
  BY <1>2, <1>3, <1>4, <1>6, GrantedUnits DEF UnitGranted
<1>8. ASSUME NEW d \in DOMAIN control, Sent(d), control[d].kind = "Continue",
             SpentBy(d) = SpentBy(c)
      PROVE  FALSE
  <2>1. PICK q : q = control[d].permit
    OBVIOUS
  <2>2. q \in DOMAIN permit /\ permit[q].spentOn = d
    BY <1>0, <1>8, <2>1 DEF SpendInv, PermitsSpentOnce
  <2>3. SpentBy(d).name = <<permit[q].lease, permit[q].ordinal>>
    BY <2>1 DEF SpentBy, UnitOf
  <2>4. SpentBy(c).name = <<permit[p].lease, permit[p].ordinal>>
    BY <1>1 DEF SpentBy, UnitOf
  <2>5. permit[p].lease = permit[q].lease /\ permit[p].ordinal = permit[q].ordinal
    BY <1>8, <2>3, <2>4
  <2>6. p = q
    BY <1>0, <1>2, <2>2, <2>5 DEF SpendInv, PermitsSpentOnce
  <2> QED BY <1>2, <1>8, <2>2, <2>6
<1>9. SpentBy(c) \notin SpentUnits
  BY <1>8 DEF SpentUnits
<1>10. SpentBy(c).worker = lease[l].worker /\ SpentBy(c).goal = lease[l].goal
  BY <1>4 DEF UnitOf
<1> QED BY <1>2, <1>3, <1>7, <1>9, <1>10

LEMMA SendRefines ==
  ASSUME Seen, Granted' = Granted, NEW c \in DOMAIN control, DispatchRoute(c)
  PROVE  \E w \in Worker, kind \in Promise!Kind : Promise!Send(c, w, kind)
<1>0. TypeOK /\ AllAlike /\ "dispatched" \in Stage
  BY DEF Seen, Stage
<1>1. /\ Advance(c, "dispatched") /\ Fresh(c) /\ control[c].stage = "bound"
      /\ UNCHANGED <<worker, mover>>
  BY DEF DispatchRoute
<1>2. /\ OthersStandStill(c) /\ control'[c].stage = "dispatched"
      /\ Sent(c)' <=> "dispatched" \notin Undispatched
  BY <1>0, <1>1, AdvanceSeen
<1>3. ~Sent(c) /\ Sent(c)' /\ control'[c].stage \notin Effective
  BY <1>1, <1>2 DEF Sent, Undispatched, Effective
<1>4. /\ c \notin SentNames /\ SentNames' = SentNames \cup {c}
      /\ Waiting' = Waiting \cup {Message(c)}
      /\ SpentUnits' = IF control[c].kind = "Continue"
                       THEN SpentUnits \cup {SpentBy(c)} ELSE SpentUnits
  BY <1>0, <1>2, <1>3, OneIsSent
<1>5. PICK w \in Worker, kind \in Promise!Kind :
        w = control[c].worker /\ kind = control[c].kind
  BY <1>0, ControlTyped, SameLifecycles DEF TypeOK, Control
<1>6. /\ worker[w].goal = control[c].goal
      /\ Promise!Admissible(worker[w], worker[w].goal, kind)
  BY <1>1, <1>5, SameLifecycles DEF Fresh, LifecycleOf, Admissible, OnGoal
<1>7. Message(c) = [id |-> c, worker |-> w, goal |-> worker[w].goal, kind |-> kind]
  BY <1>5, <1>6 DEF Message
<1>8. IF kind = "Continue"
      THEN \E u \in Granted \ SpentUnits :
             /\ u.worker = w /\ u.goal = worker[w].goal
             /\ SpentUnits' = SpentUnits \cup {u}
      ELSE SpentUnits' = SpentUnits
  BY <1>3, <1>4, <1>5, <1>6, UnitIsFresh
<1>9. Promise!Send(c, w, kind)
  BY <1>1, <1>4, <1>6, <1>7, <1>8 DEF Promise!Send, SpentUnits, SentNames, Waiting
<1> QED BY <1>9

(* A control that has its effect, and what it does to its worker. *)
HasEffect(c) ==
  /\ OthersStandStill(c)
  /\ control[c].stage \notin Undispatched \cup Effective
  /\ control'[c].stage \in Effective
  /\ Fresh(c)
  /\ IF control[c].kind \in Mutating
     THEN /\ worker' = [worker EXCEPT ![control[c].worker] = Applied(@, control[c].kind)]
          /\ mover' = [mover EXCEPT ![control[c].worker] = c]
     ELSE UNCHANGED <<worker, mover>>

LEMMA EffectRefines ==
  ASSUME Seen, Granted' = Granted, NEW c \in DOMAIN control, HasEffect(c)
  PROVE  \E m \in Waiting : Promise!Effect(m)
<1>1. Sent(c) /\ Sent(c)' /\ control[c].stage \notin Effective
  BY DEF HasEffect, Sent, Effective, Undispatched
<1>2. /\ UNCHANGED <<SpentUnits, SentNames>>
      /\ Message(c) \in Waiting /\ Waiting' = Waiting \ {Message(c)}
  BY <1>1, OneHasItsEffect DEF HasEffect, Seen
<1>3. PICK m : m = Message(c)
  OBVIOUS
<1>4. /\ m.id = c /\ m.worker = control[c].worker
      /\ m.goal = control[c].goal /\ m.kind = control[c].kind
  BY <1>3 DEF Message
<1>5. Promise!Admissible(worker[m.worker], m.goal, m.kind)
  BY <1>4, SameLifecycles DEF HasEffect, Fresh, LifecycleOf
<1>6. IF m.kind \in Promise!Mutating
      THEN /\ worker' = [worker EXCEPT ![m.worker] = Promise!Applied(@, m.kind)]
           /\ mover' = [mover EXCEPT ![m.worker] = m.id]
      ELSE UNCHANGED <<worker, mover>>
  BY <1>4, SameLifecycles DEF HasEffect
<1>7. Promise!Effect(m)
  BY <1>2, <1>3, <1>5, <1>6 DEF Promise!Effect, SpentUnits, SentNames, Waiting
<1> QED BY <1>2, <1>3, <1>7

LEMMA HasEffectSteps ==
  ASSUME Seen, NEW c \in DOMAIN control,
         ReportStatus(c) \/ MoveWorker(c) \/ StartExecution(c)
  PROVE  HasEffect(c)
<1>0. /\ TypeOK /\ control \in Seq(Control) /\ control[c] \in Control
      /\ control[c].worker \in Worker /\ worker[control[c].worker].phase \in Phase
  BY ControlTyped DEF Seen, TypeOK, Control
<1>1. ASSUME NEW stage \in {"reported", "executed"}, Advance(c, stage),
             control[c].stage = "acknowledged", Fresh(c), control[c].kind \notin Mutating,
             UNCHANGED <<worker, mover>>
      PROVE  HasEffect(c)
  <2>1. stage \in Stage
    BY <1>1 DEF Stage
  <2>2. OthersStandStill(c) /\ control'[c].stage = stage
    BY <1>0, <1>1, <2>1, AdvanceSeen
  <2> QED BY <1>1, <2>2 DEF HasEffect, Effective, Undispatched
<1>2. CASE ReportStatus(c)
  <2>1. /\ control[c].kind = "StatusRequest" /\ Advance(c, "reported")
        /\ control[c].stage = "acknowledged" /\ UNCHANGED <<worker, mover>>
        /\ OnGoal(LifecycleOf(c), control[c].goal)
    BY <1>2 DEF ReportStatus
  <2>2. Fresh(c)
    BY <1>0, <2>1 DEF Fresh, LifecycleOf, Admissible, AdmitPhase
  <2> QED BY <1>1, <2>1, <2>2 DEF Mutating
<1>3. CASE StartExecution(c)
  <2>1. /\ control[c].kind = "Continue" /\ Advance(c, "executed")
        /\ control[c].stage = "acknowledged" /\ UNCHANGED <<worker, mover>>
        /\ OnGoal(LifecycleOf(c), control[c].goal) /\ LifecycleOf(c).phase = "Working"
    BY <1>3 DEF StartExecution
  <2>2. Fresh(c)
    BY <2>1 DEF Fresh, Admissible, AdmitPhase
  <2> QED BY <1>1, <2>1, <2>2 DEF Mutating
<1>4. CASE MoveWorker(c)
  <2>1. /\ control[c].stage = "started" /\ Fresh(c)
        /\ worker' = [worker EXCEPT ![control[c].worker] = Applied(@, control[c].kind)]
        /\ mover' = [mover EXCEPT ![control[c].worker] = c]
    BY <1>4 DEF MoveWorker
  <2>2. control[c].kind \in Mutating
    BY <2>1 DEF Seen, StartedMoves
  <2>3. \A d \in DOMAIN control : Overtaken(control[c].worker)[d].stage = control[d].stage
    BY <1>0, OvertakenFacts
  <2>4. OthersStandStill(c) /\ control'[c].stage = "moved"
    BY <1>0, <1>4, <2>3, MoveWorkerFacts DEF OthersStandStill, StandsStill, Sent
  <2> QED BY <2>1, <2>2, <2>4 DEF HasEffect, Effective, Undispatched
<1> QED BY <1>2, <1>3, <1>4

(* The other steps of a control are not seen. *)
LEMMA UnseenSteps ==
  ASSUME Seen, Granted' = Granted, NEW c \in DOMAIN control, ControlStep(c),
         ~DispatchRoute(c), ~ReportStatus(c), ~MoveWorker(c), ~StartExecution(c)
  PROVE  Unseen
<1>0. TypeOK /\ AllAlike /\ control \in Seq(Control)
  BY DEF Seen, TypeOK
<1>1. ASSUME OthersStandStill(c), StandsStill(c), UNCHANGED <<worker, mover>>
      PROVE  Unseen
  <2>1. \A d \in DOMAIN control : StandsStill(d)
    BY <1>1 DEF OthersStandStill
  <2> QED BY <1>0, <1>1, <2>1, NothingToSee DEF Unseen
<1>2. ASSUME NEW stage \in Stage, Advance(c, stage), UNCHANGED <<worker, mover>>,
             Sent(c) <=> stage \notin Undispatched,
             stage \in Effective <=> control[c].stage \in Effective
      PROVE  Unseen
  <2>1. /\ OthersStandStill(c) /\ control'[c].stage = stage
        /\ Sent(c)' <=> stage \notin Undispatched
    BY <1>0, <1>2, AdvanceSeen
  <2> QED BY <1>1, <1>2, <2>1 DEF StandsStill
<1> USE DEF Stage, Undispatched, Effective, Sent
<1>3. CASE BindIssuer(c)
  <2>1. Advance(c, "issued") /\ UNCHANGED <<worker, mover>> /\ control[c].stage = "admitted"
    BY <1>3 DEF BindIssuer
  <2> QED BY <1>2, <2>1
<1>4. CASE ProposeRoute(c)
  <2>1. Advance(c, "proposed") /\ UNCHANGED <<worker, mover>> /\ control[c].stage = "issued"
    BY <1>4 DEF ProposeRoute
  <2> QED BY <1>2, <2>1
<1>5. CASE BindRoute(c)
  <2>1. Advance(c, "bound") /\ UNCHANGED <<worker, mover>> /\ control[c].stage = "proposed"
    BY <1>5 DEF BindRoute
  <2> QED BY <1>2, <2>1
<1>6. CASE RecordDelivery(c)
  <2>1. Advance(c, "delivered") /\ UNCHANGED <<worker, mover>> /\ control[c].stage = "dispatched"
    BY <1>6 DEF RecordDelivery
  <2> QED BY <1>2, <2>1
<1>7. CASE Acknowledge(c)
  <2>1. /\ Advance(c, "acknowledged") /\ UNCHANGED <<worker, mover>>
        /\ control[c].stage = "delivered"
    BY <1>7 DEF Acknowledge
  <2> QED BY <1>2, <2>1
<1>8. CASE FinishAction(c)
  <2>1. Advance(c, "done") /\ UNCHANGED <<worker, mover>> /\ control[c].stage = "moved"
    BY <1>8 DEF FinishAction
  <2> QED BY <1>2, <2>1
<1>9. ASSUME NEW decision \in {"Allow", "Deny"}, Decide(c, decision) PROVE Unseen
  <2>1. Edited(c, control[c].stage, decision, control[c].from)
    BY <1>0, <1>9, DecideFacts
  <2>2. OthersStandStill(c) /\ StandsStill(c)
    BY <2>1, StageSeen DEF StandsStill
  <2> QED BY <1>1, <1>9, <2>2 DEF Decide
<1>10. CASE StartAction(c)
  <2>1. Edited(c, "started", control[c].decision, LifecycleOf(c).phase)
    BY <1>0, <1>10, StartActionFacts
  <2>2. control[c].stage = "acknowledged" /\ UNCHANGED <<worker, mover>>
    BY <1>10 DEF StartAction
  <2>3. OthersStandStill(c) /\ StandsStill(c)
    BY <2>1, <2>2, StageSeen DEF StandsStill
  <2> QED BY <1>1, <2>2, <2>3
<1> QED BY <1>3, <1>4, <1>5, <1>6, <1>7, <1>8, <1>9, <1>10 DEF ControlStep

LEMMA StepKeepsPromise ==
  ASSUME IInv, LeaseBounds, [Next]_vars
  PROVE  Unseen \/ Promise!Next
<1>0. /\ TypeOK /\ StartedMoves /\ SpendInv
      /\ control \in Seq(Control) /\ Len(control) \in Nat /\ Len(control) <= MaxControls
      /\ DOMAIN control = 1..Len(control) /\ \A c \in DOMAIN control : control[c] \in Control
  BY ControlTyped DEF IInv, Typed, TypeOK
<1>1. AllAlike /\ AuthorityKept
  BY <1>0, AllAlikeStep, AuthorityKeptStep
<1>2. Seen
  BY <1>0, <1>1 DEF Seen
<1>3. ASSUME UNCHANGED lease PROVE Granted' = Granted
  BY <1>1, <1>3, SameGrants
<1>4. ASSUME UNCHANGED <<worker, mover>>, Granted' = Granted,
             \A d \in DOMAIN control : control'[d] = control[d]
      PROVE  Unseen
  BY <1>1, <1>4, StandStill, NothingToSee DEF Unseen
<1>5. ASSUME NEW w \in Worker, WorkerStep(w) PROVE Promise!Next
  BY <1>2, <1>5, OwnRefines DEF Promise!Next
<1>6. ASSUME NEW w \in Worker, NEW allowance \in 1..MaxAllowance, CreateLease(w, allowance)
      PROVE  Promise!Next
  BY <1>1, <1>2, <1>6, GrantRefines DEF Promise!Next
<1>7. ASSUME NEW w \in Worker, IssuePermit(w) PROVE Unseen
  <2>1. UNCHANGED <<worker, mover, control>>
    BY <1>7 DEF IssuePermit
  <2>2. DOMAIN lease' = DOMAIN lease
    BY <1>0, <1>7, IssuePermitFacts DEF Issues
  <2> QED BY <1>1, <1>4, <2>1, <2>2, SameGrants
<1>8. ASSUME NEW w \in Worker, NEW kind \in Kind, NEW p \in Nat,
             OneMoreControl(w, kind, p), UNCHANGED <<worker, mover, lease>>
      PROVE  Unseen
  BY <1>0, <1>3, <1>4, <1>8, OneMoreControlFacts
<1>9. ASSUME NEW w \in Worker, NEW kind \in Kind, AdmitControl(w, kind) PROVE Unseen
  <2>1. OneMoreControl(w, kind, NoPermit) /\ UNCHANGED <<worker, mover, lease>>
    BY <1>0, <1>9, AdmissionShapes
  <2> QED BY <1>8, <2>1 DEF NoPermit
<1>10. ASSUME NEW w \in Worker, AdmitContinue(w) PROVE Unseen
  <2>1. PICK p \in UnspentPermits(w) :
          OneMoreControl(w, "Continue", p) /\ UNCHANGED <<worker, mover, lease>>
    BY <1>0, <1>10, AdmissionShapes
  <2>2. p \in Nat /\ "Continue" \in Kind
    BY <1>0, UnspentFacts DEF Kind
  <2> QED BY <1>8, <2>1, <2>2
<1>11. ASSUME NEW c \in DOMAIN control, ControlStep(c) PROVE Unseen \/ Promise!Next
  <2>0. Granted' = Granted
    BY <1>0, <1>3, <1>11, ControlStepKeeps
  <2>1. CASE DispatchRoute(c)
    <3>1. \E w \in Worker, kind \in Promise!Kind : Promise!Send(c, w, kind)
      BY <1>2, <2>0, <2>1, SendRefines
    <3>2. c \in ControlId
      BY <1>0, ControlPlaneAssumption DEF ControlId
    <3> QED BY <3>1, <3>2 DEF Promise!Next
  <2>2. CASE ReportStatus(c) \/ MoveWorker(c) \/ StartExecution(c)
    <3>1. \E m \in Waiting : Promise!Effect(m)
      BY <1>2, <2>0, <2>2, HasEffectSteps, EffectRefines
    <3> QED BY <3>1 DEF Promise!Next, Waiting
  <2>3. CASE ~(DispatchRoute(c) \/ ReportStatus(c) \/ MoveWorker(c) \/ StartExecution(c))
    BY <1>2, <1>11, <2>0, <2>3, UnseenSteps
  <2> QED BY <2>1, <2>2, <2>3
<1>12. CASE Crash
  BY <1>3, <1>4, <1>12 DEF Crash
<1>13. CASE UNCHANGED vars
  BY <1>3, <1>4, <1>13 DEF vars
<1> QED BY <1>5, <1>6, <1>7, <1>9, <1>10, <1>11, <1>12, <1>13 DEF Next, ControllerStep

(* Supervision keeps its promise to the user: a command reaches a worker   *)
(* once, on the goal it was sent for, and has at most one effect; and each *)
(* continuation spends a unit of an allowance that no other one spends.    *)
THEOREM SupervisionKeepsPromise == Spec => KeepsPromise
<1>1. Init => Promise!Init
  <2> SUFFICES ASSUME Init PROVE Promise!Init
    OBVIOUS
  <2>1. DOMAIN control = {} /\ DOMAIN lease = {}
    BY DEF Init
  <2>2. Granted = {} /\ SpentUnits = {} /\ SentNames = {} /\ Waiting = {}
    BY <2>1 DEF Granted, SpentUnits, SentNames, Waiting
  <2> QED BY <2>2, SameLifecycles
          DEF Init, Promise!Init, SpentUnits, SentNames, Waiting
<1>2. Init => LeaseBounds
  BY DEF Init, LeaseBounds
<1>3. IInv /\ LeaseBounds /\ [Next]_vars => LeaseBounds'
  BY LeaseBoundsStep DEF IInv, Typed
<1>4. Spec => []LeaseBounds
  BY <1>2, <1>3, Inductive, PTL DEF Spec
<1>5. IInv /\ LeaseBounds /\ [Next]_vars => [Promise!Next]_Promise!vars
  BY StepKeepsPromise DEF Unseen, Promise!vars, SpentUnits, SentNames, Waiting
<1> QED BY <1>1, <1>4, <1>5, Inductive, PTL DEF Spec, KeepsPromise, Promise!Spec

-----------------------------------------------------------------------------
(***************************************************************************)
(* Proofs about ControllerTurns, which has constants and variables of its  *)
(* own: its journal and its requests are declared by TurnAudits, its       *)
(* workers and the bounds on goals and controls are those of ControlPlane, *)
(* and the rest is declared here.                                          *)
(***************************************************************************)
CONSTANTS Route, Action, MaxDecisions, MaxTurns, MaxRounds, MaxContexts, MaxPending, MaxFaults

VARIABLES queue, notices, known, busy, flight, ending, faults

Turns == INSTANCE ControllerTurns

(* A sequence of whatever elements. *)
IsSeq(s) == \E S : s \in Seq(S)

(* Events are named by their place in the journal. *)
Numbers == DOMAIN journal

(* A request carried worker results of the turn. *)
WasAsked(t) == \E q \in asked : q.turn = t

(* What a step may append to the journal, as the j-th of its events. *)
NewEvent(j, e) ==
  /\ e.kind = "suggested" =>
       /\ j = 1
       /\ e.of = Turns!Fresh(Numbers, "suggested")
       /\ Turns!Finished(Numbers, e.with.turn)
       /\ e.with.basis \in Turns!Frozen(Numbers, e.with.turn)
  /\ e.kind = "started" => j = 1 /\ e.of = Turns!Fresh(Numbers, "started")
  /\ e.kind = "control" =>
       /\ j = 1
       /\ Turns!Of(Numbers, {"suggested"}, e.with.for) # {}
       /\ Turns!Of(Numbers, {"promoted"}, e.with.for) = {}
       /\ e.with.goal = Turns!Suggestion(Numbers, e.with.for).goal
       /\ e.with.action = Turns!Suggestion(Numbers, e.with.for).action
  /\ e.kind = "completed" => WasAsked(e.of)
  /\ e.kind = "ended" /\ e.with = "completed" => Turns!Of(Numbers, {"completed"}, e.of) # {}

(* The step appends these, in order. *)
Writes(items) ==
  /\ IsSeq(items)
  /\ journal' = journal \o items
  /\ \A j \in DOMAIN items : NewEvent(j, items[j])

(* Suggestions, and starts, are numbered, and no two alike. *)
NumberInv(kind) ==
  /\ \A i \in Turns!At(Numbers, {kind}) : journal[i].of \in 1..i
  /\ \A i, j \in Turns!At(Numbers, {kind}) : journal[i].of = journal[j].of => i = j

(* A control is for a suggestion recorded before it, and promoted, if at   *)
(* all, after it.                                                          *)
ControlInv ==
  \A i \in Turns!At(Numbers, {"control"}) :
    /\ \E j \in Turns!Of(Numbers, {"suggested"}, journal[i].with.for) :
         /\ journal[i].with.goal = journal[j].with.goal
         /\ journal[i].with.action = journal[j].with.action
    /\ \A k \in Turns!Of(Numbers, {"promoted"}, journal[i].with.for) : i < k

(* What is on its way, and in the window, is of the journal. *)
WindowInv ==
  /\ known \subseteq Numbers
  /\ IsSeq(notices)
  /\ \A k \in DOMAIN notices : notices[k].new \subseteq Numbers
  /\ ending \in {0} \cup Numbers

(* All of the results, or some if they do not fit the budget. *)
Fitted(some, fits, all) == some \subseteq all /\ (fits => some = all)

(* The turn in flight was composed from its start, and asked before it is  *)
(* answered.                                                               *)
FlightInv ==
  /\ flight = [turn |-> flight.turn, phase |-> flight.phase, with |-> flight.with, fits |-> flight.fits]
  /\ flight.phase = "pending" =>
       /\ flight.turn \in Turns!Started(Numbers)
       /\ Fitted(flight.with, flight.fits, Turns!Frozen(Numbers, flight.turn))
  /\ flight.phase \in {"active", "resumed"} => WasAsked(flight.turn)

(* A request carried what was frozen for its turn when it was started, as  *)
(* far as it fitted; no turn completes, in the journal or on its way       *)
(* there, that never asked.                                                *)
AskedInv ==
  /\ \A q \in asked : /\ q.turn \in Turns!Started(Numbers)
                      /\ Fitted(q.with, q.fits, Turns!Frozen(Numbers, q.turn))
  /\ IsSeq(queue)
  /\ \A k \in DOMAIN queue : queue[k].kind = "completed" => WasAsked(queue[k].of)
  /\ \A i \in Numbers :
       journal[i].kind = "completed" \/ (journal[i].kind = "ended" /\ journal[i].with = "completed")
         => WasAsked(journal[i].of)

(* A suggestion rests on a result frozen for its turn, which has asked. *)
BasisInv ==
  \A i \in Turns!At(Numbers, {"suggested"}) :
    /\ journal[i].with.basis \in Turns!Frozen(Numbers, journal[i].with.turn)
    /\ WasAsked(journal[i].with.turn)

(* The inductive invariant. *)
TurnsInv ==
  /\ IsSeq(journal)
  /\ NumberInv("suggested") /\ NumberInv("started")
  /\ ControlInv
  /\ WindowInv
  /\ FlightInv
  /\ AskedInv
  /\ BasisInv

-----------------------------------------------------------------------------
(* The library's greatest number of a set is what its name says. *)
LEMMA Greatest ==
  ASSUME NEW n \in Nat, NEW S \in SUBSET (0..n), S # {}
  PROVE  Max(S) \in S /\ \A y \in S : y <= Max(S)
<1> DEFINE T == { n - i : i \in S }
<1>0. \A i \in S : i \in 0..n /\ n - i \in Nat /\ n - i \in T
  OBVIOUS
<1>1. T \subseteq Nat /\ T # {}
  BY <1>0
<1>2. PICK x \in T : \A y \in T : ~(<<y, x>> \in OpToRel(<, Nat))
  BY <1>1, WFMin, NatLessThanWellFounded
<1>3. \A y \in T : ~(y < x)
  BY <1>1, <1>2 DEF OpToRel
<1>4. PICK i \in S : x = n - i
  OBVIOUS
<1>5. \A j \in S : i >= j
  <2> TAKE j \in S
  <2>1. ~(n - j < n - i)
    BY <1>0, <1>3, <1>4
  <2> HIDE DEF T
  <2> QED BY <1>0, <2>1
<1>6. Max(S) \in S /\ \A y \in S : Max(S) >= y
  BY <1>5 DEF Max
<1> QED BY <1>0, <1>6

LEMMA LenOf ==
  ASSUME NEW s, IsSeq(s)
  PROVE  Len(s) \in Nat /\ DOMAIN s = 1..Len(s)
<1>1. PICK S : s \in Seq(S)
  BY DEF IsSeq
<1> QED BY <1>1

(* u is s and then t. *)
Continues(s, t, u) ==
  /\ IsSeq(u)
  /\ Len(s) \in Nat /\ DOMAIN s = 1..Len(s)
  /\ \A i \in DOMAIN s : i \in DOMAIN u /\ u[i] = s[i]
  /\ \A i \in DOMAIN u : i \notin DOMAIN s =>
       \E j \in DOMAIN t : i = Len(s) + j /\ u[i] = t[j]
  /\ \A j \in DOMAIN t : Len(s) + j \in DOMAIN u /\ u[Len(s) + j] = t[j]

LEMMA Joined ==
  ASSUME NEW s, NEW t, IsSeq(s), IsSeq(t)
  PROVE  Continues(s, t, s \o t)
<1> DEFINE u == s \o t
<1>1. PICK S : s \in Seq(S)
  BY DEF IsSeq
<1>2. PICK T : t \in Seq(T)
  BY DEF IsSeq
<1>3. s \in Seq(S \cup T) /\ t \in Seq(S \cup T)
  BY <1>1, <1>2
<1>4. u \in Seq(S \cup T)
  BY <1>3
<1>5. Len(u) = Len(s) + Len(t) /\ DOMAIN u = 1..Len(s) + Len(t)
  BY <1>3, <1>4
<1>6. \A i \in DOMAIN s : u[i] = s[i]
  BY <1>3
<1>7. \A i \in DOMAIN t : u[Len(s) + i] = t[i]
  BY <1>3
<1>0. Len(s) \in Nat /\ Len(t) \in Nat /\ DOMAIN s = 1..Len(s) /\ DOMAIN t = 1..Len(t)
  BY <1>3
<1>8. ASSUME NEW i \in DOMAIN u, i \notin DOMAIN s PROVE \E j \in DOMAIN t : i = Len(s) + j /\ u[i] = t[j]
  <2>2. i - Len(s) \in DOMAIN t /\ i = Len(s) + (i - Len(s))
    BY <1>0, <1>5, <1>8
  <2> QED BY <1>7, <2>2
<1>9. IsSeq(u)
  BY <1>4 DEF IsSeq
<1>10. \A i \in DOMAIN s : i \in DOMAIN u
  BY <1>0, <1>5
<1>11. \A i \in DOMAIN t : Len(s) + i \in DOMAIN u
  BY <1>0, <1>5
<1> HIDE DEF u
<1>12. Continues(s, t, u)
  BY <1>0, <1>9, <1>6, <1>7, <1>8, <1>10, <1>11 DEF Continues
<1> QED BY <1>12 DEF u

LEMMA NoneAtAll == IsSeq(<<>>) /\ DOMAIN <<>> = {} /\ Len(<<>>) = 0
<1>1. <<>> \in Seq({}) /\ DOMAIN <<>> = {} /\ Len(<<>>) = 0
  OBVIOUS
<1> QED BY <1>1 DEF IsSeq

LEMMA OneOf ==
  ASSUME NEW a
  PROVE  IsSeq(<<a>>) /\ DOMAIN <<a>> = {1} /\ Len(<<a>>) = 1 /\ <<a>>[1] = a
<1>1. <<a>> \in Seq({a}) /\ DOMAIN <<a>> = {1} /\ Len(<<a>>) = 1 /\ <<a>>[1] = a
  OBVIOUS
<1> QED BY <1>1 DEF IsSeq

LEMMA TwoOf ==
  ASSUME NEW a, NEW b
  PROVE  /\ IsSeq(<<a, b>>) /\ DOMAIN <<a, b>> = {1, 2} /\ Len(<<a, b>>) = 2
         /\ <<a, b>>[1] = a /\ <<a, b>>[2] = b
<1>1. <<a, b>> \in Seq({a, b}) /\ DOMAIN <<a, b>> = {1, 2} /\ Len(<<a, b>>) = 2
  OBVIOUS
<1> QED BY <1>1 DEF IsSeq

LEMMA ThreeOf ==
  ASSUME NEW a, NEW b, NEW c
  PROVE  /\ IsSeq(<<a, b, c>>) /\ DOMAIN <<a, b, c>> = {1, 2, 3} /\ Len(<<a, b, c>>) = 3
         /\ <<a, b, c>>[1] = a /\ <<a, b, c>>[2] = b /\ <<a, b, c>>[3] = c
<1>1. <<a, b, c>> \in Seq({a, b, c}) /\ DOMAIN <<a, b, c>> = {1, 2, 3} /\ Len(<<a, b, c>>) = 3
  OBVIOUS
<1> QED BY <1>1 DEF IsSeq

LEMMA PartOf ==
  ASSUME NEW s, IsSeq(s), NEW k \in 0..Len(s)
  PROVE  /\ IsSeq(SubSeq(s, 1, k)) /\ DOMAIN SubSeq(s, 1, k) = 1..k
         /\ \A i \in 1..k : i \in DOMAIN s /\ SubSeq(s, 1, k)[i] = s[i]
<1>1. PICK S : s \in Seq(S)
  BY DEF IsSeq
<1>2. SubSeq(s, 1, k) \in Seq(S) /\ Len(SubSeq(s, 1, k)) = k
  BY <1>1
<1>3. \A i \in 1..k : SubSeq(s, 1, k)[i] = s[i] /\ i \in DOMAIN s
  BY <1>1
<1> QED BY <1>2, <1>3 DEF IsSeq

LEMMA Appending ==
  ASSUME NEW s, NEW e, IsSeq(s)
  PROVE  Append(s, e) = s \o <<e>>
<1>1. PICK S : s \in Seq(S)
  BY DEF IsSeq
<1>2. s \in Seq(S \cup {e}) /\ e \in S \cup {e}
  BY <1>1
<1> QED BY <1>2, AppendIsConcat

LEMMA Nothing ==
  ASSUME NEW s, IsSeq(s)
  PROVE  s \o <<>> = s
<1>1. PICK S : s \in Seq(S)
  BY DEF IsSeq
<1> QED BY <1>1, ConcatEmptySeq

LEMMA TailOf ==
  ASSUME NEW s, IsSeq(s), s # <<>>
  PROVE  /\ IsSeq(Tail(s))
         /\ Head(s) = s[1] /\ 1 \in DOMAIN s
         /\ \A i \in DOMAIN Tail(s) : i + 1 \in DOMAIN s /\ Tail(s)[i] = s[i + 1]
<1>1. PICK S : s \in Seq(S)
  BY DEF IsSeq
<1>2. Tail(s) \in Seq(S) /\ Len(Tail(s)) = Len(s) - 1 /\ Len(s) \in Nat \ {0}
  BY <1>1
<1>3. \A i \in 1..Len(s) - 1 : Tail(s)[i] = s[i + 1]
  BY <1>1
<1>4. DOMAIN Tail(s) = 1..Len(s) - 1 /\ DOMAIN s = 1..Len(s)
  BY <1>1, <1>2
<1> QED BY <1>1, <1>2, <1>3, <1>4 DEF IsSeq
-----------------------------------------------------------------------------
(* The journal. *)

(* A fresh number is greater than every number of its kind before it. *)
LEMMA FreshFacts ==
  ASSUME NEW kind, IsSeq(journal), NumberInv(kind)
  PROVE  /\ Turns!Fresh(Numbers, kind) \in 1..Len(journal) + 1
         /\ \A i \in Turns!At(Numbers, {kind}) : journal[i].of # Turns!Fresh(Numbers, kind)
<1> DEFINE N == {0} \cup {journal[i].of : i \in Turns!At(Numbers, {kind})}
<1>1. Len(journal) \in Nat /\ Numbers = 1..Len(journal)
  BY LenOf DEF Numbers
<1>2. \A i \in Turns!At(Numbers, {kind}) : journal[i].of \in 1..Len(journal)
  BY <1>1 DEF NumberInv, Turns!At
<1>3. N \in SUBSET (0..Len(journal)) /\ N # {}
  <2>1. \A y \in N : y = 0 \/ y \in 1..Len(journal)
    BY <1>2
  <2>2. 0 \in N
    OBVIOUS
  <2> HIDE DEF N
  <2> QED BY <1>1, <2>1, <2>2
<1>4. Max(N) \in N /\ \A y \in N : y <= Max(N)
  <2> HIDE DEF N
  <2> QED BY <1>1, <1>3, Greatest
<1>5. Turns!Fresh(Numbers, kind) = Max(N) + 1
  BY DEF Turns!Fresh, Turns!Max, Max
<1>6. \A i \in Turns!At(Numbers, {kind}) : journal[i].of \in N
  OBVIOUS
<1> HIDE DEF N
<1>7. Max(N) \in 0..Len(journal)
  BY <1>3, <1>4
<1>8. ASSUME NEW i \in Turns!At(Numbers, {kind}) PROVE journal[i].of # Max(N) + 1
  <2>1. journal[i].of <= Max(N) /\ journal[i].of \in 1..Len(journal)
    BY <1>2, <1>4, <1>6
  <2> QED BY <1>1, <1>7, <2>1
<1>9. Max(N) + 1 \in 1..Len(journal) + 1
  BY <1>1, <1>7
<1> QED BY <1>5, <1>8, <1>9

LEMMA SuggestionIs ==
  ASSUME NumberInv("suggested"), NEW s, NEW i \in Turns!Of(Numbers, {"suggested"}, s)
  PROVE  Turns!Suggestion(Numbers, s) = journal[i].with
<1>1. \A j \in Turns!Of(Numbers, {"suggested"}, s) : j = i
  BY DEF NumberInv, Turns!Of
<1>2. (CHOOSE j \in Turns!Of(Numbers, {"suggested"}, s) : TRUE) = i
  BY <1>1
<1> QED BY <1>2 DEF Turns!Suggestion

LEMMA StartIs ==
  ASSUME NumberInv("started"), NEW S \in SUBSET Numbers, NEW i \in Turns!At(S, {"started"})
  PROVE  /\ Turns!Start(S, journal[i].of) = i
         /\ Turns!Frozen(S, journal[i].of) = journal[i].with
         /\ journal[i].of \in Turns!Started(S)
<1>1. \A j \in Turns!At(S, {"started"}) : journal[j].of = journal[i].of => j = i
  BY DEF NumberInv, Turns!At
<1>2. Turns!Start(S, journal[i].of) = i
  BY <1>1 DEF Turns!Start
<1> QED BY <1>2 DEF Turns!Frozen, Turns!Started

LEMMA HasStart ==
  ASSUME NEW S, NEW t \in Turns!Started(S)
  PROVE  \E i \in Turns!At(S, {"started"}) : journal[i].of = t
BY DEF Turns!Started

LEMMA FinishedFacts ==
  ASSUME IsSeq(journal), NEW t, Turns!Finished(Numbers, t)
  PROVE  \E i \in Numbers :
           journal[i].kind = "ended" /\ journal[i].of = t /\ journal[i].with = "completed"
<1>1. Len(journal) \in Nat /\ Numbers = 1..Len(journal)
  BY LenOf DEF Numbers
<1> DEFINE N == Turns!Of(Numbers, {"ended"}, t)
<1>2. N \in SUBSET (0..Len(journal)) /\ N # {}
  BY <1>1 DEF Turns!Finished, Turns!Max, Max, Turns!Ended, Turns!Of, Turns!At
<1>3. Max(N) \in N
  <2> HIDE DEF N
  <2> QED BY <1>1, <1>2, Greatest
<1>4. journal[Max(N)].with = "completed"
  BY DEF Turns!Finished, Turns!Max, Max
<1> QED BY <1>3, <1>4 DEF Turns!Of, Turns!At

LEMMA OutcomeFacts ==
  ASSUME NEW S, NEW t, Turns!Outcome(S, t) = "completed"
  PROVE  Turns!Of(S, {"completed"}, t) # {}
<1> DEFINE P(kind) == /\ Turns!Of(S, {kind}, t) # {}
                      /\ kind = "failed" => Turns!Of(S, {"completed"}, t) = {}
                      /\ kind = "interrupted" => Turns!Of(S, {"completed", "failed"}, t) = {}
<1>1. Turns!Endings(S, t) # {}
  BY DEF Turns!Outcome
<1>2. Turns!Outcome(S, t) = CHOOSE kind \in Turns!Ending : P(kind)
  BY <1>1 DEF Turns!Outcome
<1>3. PICK i \in S : journal[i].kind \in Turns!Ending /\ journal[i].of = t
  BY <1>1 DEF Turns!Endings, Turns!Of, Turns!At
<1>4. \E kind \in Turns!Ending : P(kind)
  <2>1. CASE Turns!Of(S, {"completed"}, t) # {}
    BY <2>1 DEF Turns!Ending
  <2>2. CASE Turns!Of(S, {"completed"}, t) = {} /\ Turns!Of(S, {"failed"}, t) # {}
    BY <2>2 DEF Turns!Ending
  <2>3. CASE Turns!Of(S, {"completed"}, t) = {} /\ Turns!Of(S, {"failed"}, t) = {}
    <3>1. Turns!Of(S, {"completed", "failed"}, t) = {}
      BY <2>3 DEF Turns!Of, Turns!At
    <3>2. i \in Turns!Of(S, {"interrupted"}, t)
      BY <1>3, <2>3 DEF Turns!Of, Turns!At, Turns!Ending
    <3> QED BY <3>1, <3>2 DEF Turns!Ending
  <2> QED BY <2>1, <2>2, <2>3
<1>5. P(Turns!Outcome(S, t))
  <2> HIDE DEF P
  <2> QED BY <1>2, <1>4
<1> QED BY <1>5

LEMMA Grown ==
  ASSUME IsSeq(journal), NEW items, IsSeq(items), journal' = journal \o items
  PROVE  /\ IsSeq(journal')
         /\ Len(journal) \in Nat /\ Numbers = 1..Len(journal)
         /\ Numbers \subseteq Numbers'
         /\ \A i \in Numbers : journal'[i] = journal[i]
         /\ \A i \in Numbers' : i \notin Numbers =>
              \E j \in DOMAIN items : i = Len(journal) + j /\ journal'[i] = items[j]
<1>1. Continues(journal, items, journal \o items)
  BY Joined
<1>2. Continues(journal, items, journal')
  BY <1>1
<1> QED BY <1>2 DEF Numbers, Continues

LEMMA NumberStep ==
  ASSUME IsSeq(journal), NEW kind \in {"suggested", "started"}, NumberInv(kind),
         NEW items, Writes(items)
  PROVE  NumberInv(kind)'
<1>1. /\ Len(journal) \in Nat /\ Numbers = 1..Len(journal)
      /\ Numbers \subseteq Numbers'
      /\ \A i \in Numbers : journal'[i] = journal[i]
      /\ \A i \in Numbers' : i \notin Numbers =>
           \E j \in DOMAIN items : i = Len(journal) + j /\ journal'[i] = items[j]
  BY Grown DEF Writes
<1>2. /\ Turns!Fresh(Numbers, kind) \in 1..Len(journal) + 1
      /\ \A i \in Turns!At(Numbers, {kind}) : journal[i].of # Turns!Fresh(Numbers, kind)
  BY FreshFacts
<1>3. \A i \in Numbers' : i \notin Numbers /\ journal'[i].kind = kind =>
        i = Len(journal) + 1 /\ journal'[i].of = Turns!Fresh(Numbers, kind)
  BY <1>1 DEF Writes, NewEvent
<1>4. \A i \in Turns!At(Numbers, {kind})' :
        \/ i \in Turns!At(Numbers, {kind}) /\ journal'[i].of = journal[i].of
        \/ i = Len(journal) + 1 /\ journal'[i].of = Turns!Fresh(Numbers, kind)
  BY <1>1, <1>3 DEF Turns!At
<1>5. \A i \in Turns!At(Numbers, {kind}) : journal[i].of \in 1..i
  BY DEF NumberInv
<1>6. \A i, j \in Turns!At(Numbers, {kind}) : journal[i].of = journal[j].of => i = j
  BY DEF NumberInv
<1>7. \A i \in Turns!At(Numbers, {kind})' : journal'[i].of \in 1..i
  BY <1>2, <1>4, <1>5
<1>8. ASSUME NEW i \in Turns!At(Numbers, {kind})', NEW j \in Turns!At(Numbers, {kind})',
             journal'[i].of = journal'[j].of
      PROVE  i = j
  BY <1>2, <1>4, <1>6, <1>8
<1> QED BY <1>7, <1>8 DEF NumberInv

(* What is recorded of a turn or a suggestion stays what it is. *)
LEMMA StartsStay ==
  ASSUME IsSeq(journal), NumberInv("started"), NEW items, Writes(items), NEW t \in Turns!Started(Numbers)
  PROVE  t \in Turns!Started(Numbers)' /\ Turns!Frozen(Numbers, t)' = Turns!Frozen(Numbers, t)
<1>1. PICK i \in Turns!At(Numbers, {"started"}) : journal[i].of = t
  BY HasStart
<1>2. NumberInv("started")'
  BY NumberStep
<1>3. Numbers \subseteq Numbers' /\ \A k \in Numbers : journal'[k] = journal[k]
  BY Grown DEF Writes
<1>4. i \in Turns!At(Numbers, {"started"})' /\ journal'[i] = journal[i]
  BY <1>3 DEF Turns!At
<1>5. Turns!Frozen(Numbers, t) = journal[i].with
  BY <1>1, StartIs
<1>6. \A k \in Turns!At(Numbers, {"started"})' : journal'[k].of = t => k = i
  BY <1>1, <1>2, <1>4 DEF NumberInv
<1>7. (CHOOSE k \in Turns!At(Numbers, {"started"})' : journal'[k].of = t) = i
  BY <1>1, <1>4, <1>6
<1>8. Turns!Start(Numbers, t)' = i
  BY <1>7 DEF Turns!Start
<1> QED BY <1>1, <1>4, <1>5, <1>8 DEF Turns!Frozen, Turns!Started
-----------------------------------------------------------------------------
(* What the steps append. *)

LEMMA Unchanged ==
  ASSUME IsSeq(journal), journal' = journal
  PROVE  Writes(<<>>)
<1>1. IsSeq(<<>>) /\ DOMAIN <<>> = {}
  BY NoneAtAll
<1>2. journal \o <<>> = journal
  BY Nothing
<1> QED BY <1>1, <1>2 DEF Writes

LEMMA AppendOne ==
  ASSUME IsSeq(journal), NEW e, journal' = Append(journal, e), NewEvent(1, e)
  PROVE  Writes(<<e>>)
<1>1. IsSeq(<<e>>) /\ DOMAIN <<e>> = {1} /\ <<e>>[1] = e
  BY OneOf
<1>2. journal' = journal \o <<e>>
  BY Appending
<1>3. \A j \in DOMAIN <<e>> : NewEvent(j, <<e>>[j])
  BY <1>1
<1> QED BY <1>1, <1>2, <1>3 DEF Writes

LEMMA PlainEvent ==
  ASSUME NEW j, NEW e, e.kind \notin {"suggested", "started", "control", "completed", "ended"}
  PROVE  NewEvent(j, e)
BY DEF NewEvent

LEMMA PlanShape ==
  ASSUME NEW cmd, cmd.kind \in Turns!Asks, Turns!Accepts(Numbers, cmd)
  PROVE  /\ IsSeq(Turns!Plan(Numbers, cmd))
         /\ \A j \in DOMAIN Turns!Plan(Numbers, cmd) : NewEvent(j, Turns!Plan(Numbers, cmd)[j])
<1> DEFINE items == Turns!Plan(Numbers, cmd)
<1>1. CASE cmd.kind = "started"
  <2> DEFINE e == Turns!Event("started", Turns!Fresh(Numbers, "started"), Turns!Admitted(Numbers))
  <2>1. items = <<e>>
    BY <1>1 DEF Turns!Plan
  <2>2. NewEvent(1, e)
    BY DEF NewEvent, Turns!Event
  <2> HIDE DEF e, items
  <2>3. IsSeq(items) /\ \A j \in DOMAIN items : NewEvent(j, items[j])
    BY <2>1, <2>2, OneOf
  <2> QED BY <2>3 DEF items
<1>2. CASE cmd.kind = "suggested"
  <2> DEFINE e == Turns!Event("suggested", Turns!Fresh(Numbers, "suggested"),
                    [ turn |-> cmd.with.turn, basis |-> cmd.with.basis,
                      action |-> cmd.with.action, goal |-> Turns!GoalOf(Numbers, cmd.with.basis) ])
  <2>1. items = <<e>>
    BY <1>2 DEF Turns!Plan
  <2>2. Turns!Finished(Numbers, cmd.with.turn) /\ cmd.with.basis \in Turns!Frozen(Numbers, cmd.with.turn)
    BY <1>2 DEF Turns!Accepts
  <2>3. NewEvent(1, e)
    BY <2>2 DEF NewEvent, Turns!Event
  <2> HIDE DEF e, items
  <2>4. IsSeq(items) /\ \A j \in DOMAIN items : NewEvent(j, items[j])
    BY <2>1, <2>3, OneOf
  <2> QED BY <2>4 DEF items
<1>3. CASE cmd.kind = "promoted"
  <2> DEFINE c == Turns!Fresh(Numbers, "control")
             a == Turns!Event("control", c, [ goal |-> Turns!Goal(Numbers),
                                        action |-> Turns!Suggestion(Numbers, cmd.of).action,
                                        for |-> cmd.of ])
             b == Turns!Event("route", c, {})
             d == Turns!Event("promoted", cmd.of, c)
  <2>1. items = <<a, b, d>>
    BY <1>3 DEF Turns!Plan
  <2>2. /\ Turns!Of(Numbers, {"suggested"}, cmd.of) # {} /\ Turns!Of(Numbers, {"promoted"}, cmd.of) = {}
        /\ Turns!Suggestion(Numbers, cmd.of).goal = Turns!Goal(Numbers)
    BY <1>3 DEF Turns!Accepts, Turns!StillOn
  <2>3. NewEvent(1, a)
    BY <2>2 DEF NewEvent, Turns!Event
  <2>4. NewEvent(2, b) /\ NewEvent(3, d)
    BY DEF NewEvent, Turns!Event
  <2> HIDE DEF a, b, d, items
  <2>5. IsSeq(items) /\ DOMAIN items = {1, 2, 3} /\ items[1] = a /\ items[2] = b /\ items[3] = d
    BY <2>1, ThreeOf
  <2>6. \A j \in DOMAIN items : NewEvent(j, items[j])
    BY <2>3, <2>4, <2>5
  <2> QED BY <2>5, <2>6 DEF items
<1>4. CASE cmd.kind \notin {"started", "suggested", "promoted"}
  <2>1. items = <<cmd>>
    BY <1>4 DEF Turns!Plan
  <2>2. NewEvent(1, cmd)
    BY <1>4, PlainEvent DEF Turns!Asks
  <2> HIDE DEF items
  <2>3. IsSeq(items) /\ \A j \in DOMAIN items : NewEvent(j, items[j])
    BY <2>1, <2>2, OneOf
  <2> QED BY <2>3 DEF items
<1> QED BY <1>1, <1>2, <1>3, <1>4

LEMMA ServeWrites ==
  ASSUME TurnsInv, NEW cmd, Turns!Serve(cmd)
  PROVE  \E items : Writes(items)
<1>0. IsSeq(journal)
  BY DEF TurnsInv
<1> DEFINE items == Turns!Plan(Numbers, cmd)
<1>1. CASE journal' = journal
  BY <1>0, <1>1, Unchanged
<1>2. CASE Turns!Accepts(Numbers, cmd) /\ journal' = journal \o items
  <2>1. IsSeq(items) /\ \A j \in DOMAIN items : NewEvent(j, items[j])
    BY <1>2, PlanShape DEF Turns!Serve
  <2> QED BY <1>2, <2>1 DEF Writes
<1>3. CASE Turns!Accepts(Numbers, cmd) /\ \E k \in 0..Len(items) - 1 : journal' = journal \o SubSeq(items, 1, k)
  <2>1. IsSeq(items) /\ \A j \in DOMAIN items : NewEvent(j, items[j])
    BY <1>3, PlanShape DEF Turns!Serve
  <2>2. PICK k \in 0..Len(items) - 1 : journal' = journal \o SubSeq(items, 1, k)
    BY <1>3
  <2> HIDE DEF items
  <2>3. Len(items) \in Nat
    BY <2>1, LenOf
  <2>4. k \in 0..Len(items)
    BY <2>3
  <2>5. /\ IsSeq(SubSeq(items, 1, k)) /\ DOMAIN SubSeq(items, 1, k) = 1..k
        /\ \A i \in 1..k : i \in DOMAIN items /\ SubSeq(items, 1, k)[i] = items[i]
    BY <2>1, <2>4, PartOf
  <2>6. Writes(SubSeq(items, 1, k))
    BY <2>1, <2>2, <2>5 DEF Writes
  <2> QED BY <2>6
<1>4. \/ Turns!Accepts(Numbers, cmd) /\ journal' = journal \o items
      \/ journal' = journal
      \/ Turns!Accepts(Numbers, cmd) /\ \E k \in 0..Len(items) - 1 : journal' = journal \o SubSeq(items, 1, k)
  BY DEF Turns!Serve, Numbers
<1> QED BY <1>1, <1>2, <1>3, <1>4

LEMMA ServeTurnWrites ==
  ASSUME TurnsInv, NEW cmd, Turns!ServeTurn(cmd)
  PROVE  \E items : Writes(items)
<1>0. IsSeq(journal) /\ IsSeq(queue)
  BY DEF TurnsInv, AskedInv
<1>1. CASE journal' = journal
  BY <1>0, <1>1, Unchanged
<1>2. CASE journal' = Append(journal, cmd)
  <2>1. queue # <<>> /\ Head(queue) = cmd
    BY DEF Turns!ServeTurn, Turns!Take
  <2>2. 1 \in DOMAIN queue /\ queue[1] = cmd
    BY <1>0, <2>1, TailOf
  <2>3. cmd.kind = "completed" => WasAsked(cmd.of)
    BY <2>2 DEF TurnsInv, AskedInv
  <2>4. cmd.kind \notin {"suggested", "started", "control", "ended"}
    BY DEF Turns!ServeTurn, Turns!Ending
  <2>5. NewEvent(1, cmd)
    BY <2>3, <2>4 DEF NewEvent
  <2> QED BY <1>0, <1>2, <2>5, AppendOne
<1> QED BY <1>1, <1>2 DEF Turns!ServeTurn

LEMMA RecordResultWrites ==
  ASSUME TurnsInv, Turns!RecordResult
  PROVE  \E items : Writes(items)
<1>0. IsSeq(journal)
  BY DEF TurnsInv
<1> DEFINE t == journal[ending].of
           e == Turns!Event("ended", t, Turns!Outcome(Numbers, t))
<1>1. journal' = journal \/ journal' = Append(journal, e)
  BY DEF Turns!RecordResult, Numbers
<1>2. NewEvent(1, e)
  BY OutcomeFacts DEF NewEvent, Turns!Event
<1> HIDE DEF e
<1> QED BY <1>0, <1>1, <1>2, Unchanged, AppendOne

LEMMA AppendTwo ==
  ASSUME NEW a, NEW b
  PROVE  Append(<<a>>, b) = <<a, b>> /\ Append(<<>>, b) = <<b>>
<1> DEFINE S == {a, b}
<1>1. <<a>> \in Seq(S) /\ <<>> \in Seq(S) /\ <<a, b>> \in Seq(S) /\ <<b>> \in Seq(S) /\ b \in S
  OBVIOUS
<1>2. /\ Append(<<a>>, b) \in Seq(S) /\ Len(Append(<<a>>, b)) = 2
      /\ Append(<<a>>, b)[1] = a /\ Append(<<a>>, b)[2] = b
  BY <1>1, AppendProperties
<1>3. /\ Append(<<>>, b) \in Seq(S) /\ Len(Append(<<>>, b)) = 1
      /\ Append(<<>>, b)[1] = b
  BY <1>1, AppendProperties
<1>4. Append(<<a>>, b) = <<a, b>>
  <2>1. \A i \in 1..2 : Append(<<a>>, b)[i] = <<a, b>>[i]
    BY <1>2
  <2> QED BY <1>1, <1>2, <2>1, SeqEqual
<1>5. Append(<<>>, b) = <<b>>
  <2>1. \A i \in 1..1 : Append(<<>>, b)[i] = <<b>>[i]
    BY <1>3
  <2> QED BY <1>1, <1>3, <2>1, SeqEqual
<1> QED BY <1>4, <1>5

LEMMA RestartWrites ==
  ASSUME TurnsInv, Turns!Restart
  PROVE  \E items : Writes(items)
<1>0. IsSeq(journal)
  BY DEF TurnsInv
<1> DEFINE t == Max({0} \cup Turns!Started(Numbers))
           a == Turns!Event("interrupted", t, FALSE)
           b == Turns!Event("ended", t, "interrupted")
           c == Turns!Event("ended", t, Turns!Outcome(Numbers, t))
<1>1. \/ journal' = journal \o <<>>
      \/ journal' = journal \o Append(<<a>>, b)
      \/ journal' = journal \o Append(<<>>, c)
  <2>1. <<a>> # <<>>
    OBVIOUS
  <2> QED BY <2>1 DEF Turns!Restart, Turns!Max, Max, Numbers
<1>3. NewEvent(1, a) /\ NewEvent(2, b)
  BY DEF NewEvent, Turns!Event
<1>4. NewEvent(1, c)
  BY OutcomeFacts DEF NewEvent, Turns!Event
<1> HIDE DEF a, b, c
<1>2. Append(<<a>>, b) = <<a, b>> /\ Append(<<>>, c) = <<c>>
  BY AppendTwo
<1>5. CASE journal' = journal \o <<>>
  BY <1>0, <1>5, Unchanged, Nothing
<1>6. CASE journal' = journal \o <<a, b>>
  <2>1. IsSeq(<<a, b>>) /\ \A j \in DOMAIN <<a, b>> : NewEvent(j, <<a, b>>[j])
    BY <1>3, TwoOf
  <2>2. Writes(<<a, b>>)
    BY <1>6, <2>1 DEF Writes
  <2> QED BY <2>2
<1>7. CASE journal' = journal \o <<c>>
  <2>1. IsSeq(<<c>>) /\ \A j \in DOMAIN <<c>> : NewEvent(j, <<c>>[j])
    BY <1>4, OneOf
  <2>2. Writes(<<c>>)
    BY <1>7, <2>1 DEF Writes
  <2> QED BY <2>2
<1> QED BY <1>1, <1>2, <1>5, <1>6, <1>7

(* Every step appends only what NewEvent allows, or leaves the journal.    *)
LEMMA StepWrites ==
  ASSUME TurnsInv, Turns!Next
  PROVE  \E items : Writes(items)
<1>0. IsSeq(journal)
  BY DEF TurnsInv
<1>1. CASE journal' = journal
  BY <1>0, <1>1, Unchanged
<1>2. CASE Turns!TakeGoal
  <2> DEFINE e == Turns!Event("goal", Turns!Goal(DOMAIN journal) + 1, {})
  <2>1. journal' = Append(journal, e)
    BY <1>2 DEF Turns!TakeGoal, Turns!Record
  <2>2. NewEvent(1, e)
    BY DEF NewEvent, Turns!Event
  <2> HIDE DEF e
  <2> QED BY <1>0, <2>1, <2>2, AppendOne
<1>3. ASSUME NEW r \in Route, Turns!BringResult(r) PROVE \E items : Writes(items)
  <2> DEFINE e == Turns!Event("result", r, Turns!Goal(DOMAIN journal))
  <2>1. journal' = Append(journal, e)
    BY <1>3 DEF Turns!BringResult, Turns!Record
  <2>2. NewEvent(1, e)
    BY DEF NewEvent, Turns!Event
  <2> HIDE DEF e
  <2> QED BY <1>0, <2>1, <2>2, AppendOne
<1>4. CASE Turns!Restart
  BY <1>4, RestartWrites
<1>5. CASE Turns!RecordResult
  BY <1>5, RecordResultWrites
<1>6. CASE Turns!Serve(Head(queue)) \/ Turns!ServeTurn(Head(queue))
  BY <1>6, ServeWrites, ServeTurnWrites
<1>7. CASE (\E cmd \in Turns!Offered : Turns!UserAsks(cmd)) \/ Turns!Dispatch \/ Turns!Hear \/ Turns!Answer \/ Turns!SidecarEnds \/ Turns!Displaced
  BY <1>1, <1>7 DEF Turns!UserAsks, Turns!Dispatch, Turns!Hear, Turns!Answer, Turns!SidecarEnds, Turns!Displaced
<1> QED BY <1>2, <1>3, <1>4, <1>5, <1>6, <1>7 DEF Turns!Next
-----------------------------------------------------------------------------
(* The invariants. *)

(* The journal after a step. *)
After(items) ==
  /\ IsSeq(journal')
  /\ Len(journal) \in Nat /\ Numbers = 1..Len(journal)
  /\ Numbers \subseteq Numbers'
  /\ \A i \in Numbers : journal'[i] = journal[i]
  /\ \A i \in Numbers' : i \notin Numbers =>
       \E j \in DOMAIN items : j \in Nat \ {0} /\ i = Len(journal) + j /\ journal'[i] = items[j]

LEMMA Afterwards ==
  ASSUME IsSeq(journal), NEW items, Writes(items)
  PROVE  After(items)
<1>1. DOMAIN items = 1..Len(items) /\ Len(items) \in Nat
  BY LenOf DEF Writes
<1>2. \A j \in DOMAIN items : j \in Nat \ {0}
  BY <1>1
<1> QED BY <1>2, Grown DEF Writes, After

LEMMA TurnControlStep ==
  ASSUME TurnsInv, NEW items, Writes(items)
  PROVE  ControlInv'
<1>1. After(items)
  BY Afterwards DEF TurnsInv
<1>2. \A j \in DOMAIN items : NewEvent(j, items[j])
  BY DEF Writes
<1> SUFFICES ASSUME NEW i \in Turns!At(Numbers, {"control"})'
             PROVE  /\ \E j \in Turns!Of(Numbers, {"suggested"}, journal[i].with.for)' :
                         /\ journal'[i].with.goal = journal'[j].with.goal
                         /\ journal'[i].with.action = journal'[j].with.action
                    /\ \A k \in Turns!Of(Numbers, {"promoted"}, journal[i].with.for)' : i < k
  BY DEF ControlInv
<1>3. CASE i \in Numbers
  <2>1. i \in Turns!At(Numbers, {"control"}) /\ journal'[i] = journal[i]
    BY <1>1, <1>3 DEF After, Turns!At
  <2>2. PICK j \in Turns!Of(Numbers, {"suggested"}, journal[i].with.for) :
          /\ journal[i].with.goal = journal[j].with.goal
          /\ journal[i].with.action = journal[j].with.action
    BY <2>1 DEF TurnsInv, ControlInv
  <2>3. j \in Turns!Of(Numbers, {"suggested"}, journal[i].with.for)' /\ journal'[j] = journal[j]
    BY <1>1, <2>1, <2>2 DEF After, Turns!Of, Turns!At
  <2>4. ASSUME NEW k \in Turns!Of(Numbers, {"promoted"}, journal[i].with.for)' PROVE i < k
    <3>1. CASE k \in Numbers
      <4>1. k \in Turns!Of(Numbers, {"promoted"}, journal[i].with.for)
        BY <1>1, <2>1, <3>1 DEF After, Turns!Of, Turns!At
      <4> QED BY <2>1, <4>1 DEF TurnsInv, ControlInv
    <3>2. CASE k \notin Numbers
      <4>1. k \in Numbers'
        BY DEF Turns!Of, Turns!At
      <4>2. PICK m \in DOMAIN items : m \in Nat \ {0} /\ k = Len(journal) + m
        BY <1>1, <3>2, <4>1 DEF After
      <4> QED BY <1>1, <1>3, <4>2 DEF After
    <3> QED BY <3>1, <3>2
  <2> QED BY <2>1, <2>2, <2>3, <2>4
<1>4. CASE i \notin Numbers
  <2>1. i \in Numbers' /\ journal'[i].kind = "control"
    BY DEF Turns!At
  <2>2. PICK m \in DOMAIN items : m \in Nat \ {0} /\ i = Len(journal) + m /\ journal'[i] = items[m]
    BY <1>1, <1>4, <2>1 DEF After
  <2> DEFINE s == journal'[i].with.for
  <2>3. /\ m = 1
        /\ Turns!Of(Numbers, {"suggested"}, s) # {}
        /\ Turns!Of(Numbers, {"promoted"}, s) = {}
        /\ journal'[i].with.goal = Turns!Suggestion(Numbers, s).goal
        /\ journal'[i].with.action = Turns!Suggestion(Numbers, s).action
    BY <1>2, <2>1, <2>2 DEF NewEvent
  <2>4. PICK j \in Turns!Of(Numbers, {"suggested"}, s) : TRUE
    BY <2>3
  <2>5. Turns!Suggestion(Numbers, s) = journal[j].with
    BY SuggestionIs DEF TurnsInv
  <2>6. j \in Turns!Of(Numbers, {"suggested"}, journal[i].with.for)' /\ journal'[j] = journal[j]
    BY <1>1, <2>4 DEF After, Turns!Of, Turns!At
  <2>7. ASSUME NEW k \in Turns!Of(Numbers, {"promoted"}, journal[i].with.for)' PROVE i < k
    <3>0. k \in Numbers' /\ journal'[k].kind = "promoted" /\ journal'[k].of = s
      BY DEF Turns!Of, Turns!At
    <3>1. k \notin Numbers
      <4> SUFFICES ASSUME k \in Numbers PROVE FALSE
        OBVIOUS
      <4>1. k \in Turns!Of(Numbers, {"promoted"}, s)
        BY <1>1, <3>0 DEF After, Turns!Of, Turns!At
      <4> QED BY <2>3, <4>1
    <3>2. PICK l \in DOMAIN items : l \in Nat \ {0} /\ k = Len(journal) + l /\ journal'[k] = items[l]
      BY <1>1, <3>0, <3>1 DEF After
    <3>3. l # 1
      BY <2>1, <2>2, <2>3, <3>0, <3>2
    <3> QED BY <1>1, <2>2, <2>3, <3>2, <3>3 DEF After
  <2> QED BY <2>3, <2>5, <2>6, <2>7
<1> QED BY <1>3, <1>4

LEMMA AskedGrows ==
  ASSUME [Turns!Next]_(Turns!vars)
  PROVE  asked \subseteq asked'
BY DEF Turns!Next, Turns!vars, Turns!window, Turns!Serve, Turns!ServeTurn, Turns!RecordResult, Turns!TakeGoal, Turns!BringResult, Turns!Record, Turns!UserAsks, Turns!Dispatch, Turns!Hear, Turns!HearDispatched, Turns!Answer, Turns!SidecarEnds, Turns!Displaced, Turns!Restart, Turns!Max, Max

LEMMA BasisStep ==
  ASSUME TurnsInv, NEW items, Writes(items), asked \subseteq asked'
  PROVE  BasisInv'
<1>1. After(items)
  BY Afterwards DEF TurnsInv
<1>2. \A j \in DOMAIN items : NewEvent(j, items[j])
  BY DEF Writes
<1>3. ASSUME NEW i \in Turns!At(Numbers, {"suggested"})', i \in Numbers
      PROVE  /\ journal'[i].with.basis \in Turns!Frozen(Numbers, journal'[i].with.turn)
             /\ WasAsked(journal'[i].with.turn)
  <2>1. i \in Turns!At(Numbers, {"suggested"}) /\ journal'[i] = journal[i]
    BY <1>1, <1>3 DEF After, Turns!At
  <2> QED BY <2>1 DEF TurnsInv, BasisInv
<1>4. ASSUME NEW i \in Turns!At(Numbers, {"suggested"})', i \notin Numbers
      PROVE  /\ journal'[i].with.basis \in Turns!Frozen(Numbers, journal'[i].with.turn)
             /\ WasAsked(journal'[i].with.turn)
  <2>1. i \in Numbers' /\ journal'[i].kind = "suggested"
    BY DEF Turns!At
  <2>2. PICK m \in DOMAIN items : journal'[i] = items[m]
    BY <1>1, <1>4, <2>1 DEF After
  <2> DEFINE t == journal'[i].with.turn
  <2>3. Turns!Finished(Numbers, t) /\ journal'[i].with.basis \in Turns!Frozen(Numbers, t)
    BY <1>2, <2>1, <2>2 DEF NewEvent
  <2>4. PICK k \in Numbers : journal[k].kind = "ended" /\ journal[k].of = t /\ journal[k].with = "completed"
    BY <2>3, FinishedFacts DEF TurnsInv
  <2>5. WasAsked(t)
    BY <2>4 DEF TurnsInv, AskedInv
  <2> QED BY <2>3, <2>5
<1> SUFFICES ASSUME NEW i \in Turns!At(Numbers, {"suggested"})'
             PROVE  (/\ journal[i].with.basis \in Turns!Frozen(Numbers, journal[i].with.turn)
                     /\ WasAsked(journal[i].with.turn))'
  BY DEF BasisInv
<1>5. PICK t : t = journal'[i].with.turn
  OBVIOUS
<1>6. journal'[i].with.basis \in Turns!Frozen(Numbers, t) /\ WasAsked(t)
  BY <1>3, <1>4, <1>5
<1>7. PICK q \in asked : q.turn = t
  BY <1>6 DEF WasAsked
<1>8. t \in Turns!Started(Numbers)
  BY <1>7 DEF TurnsInv, AskedInv
<1>9. Turns!Frozen(Numbers, t)' = Turns!Frozen(Numbers, t)
  BY <1>8, StartsStay DEF TurnsInv
<1>10. journal'[i].with.basis \in Turns!Frozen(Numbers, t)'
  BY <1>6, <1>9
<1>11. (journal[i].with.basis \in Turns!Frozen(Numbers, journal[i].with.turn))'
  BY <1>5, <1>10 DEF Turns!Frozen, Turns!Start, Turns!At, Numbers
<1>12. WasAsked(journal[i].with.turn)'
  BY <1>5, <1>7 DEF WasAsked
<1> QED BY <1>11, <1>12

(* What the panel offers is asked of the worker thread. *)
LEMMA OfferedKinds ==
  ASSUME NEW cmd \in Turns!Offered
  PROVE  cmd.kind \in Turns!Asks
BY DEF Turns!Offered, Turns!Asks, Turns!Event

QueueInv ==
  /\ IsSeq(queue)
  /\ \A k \in DOMAIN queue : queue[k].kind = "completed" => WasAsked(queue[k].of)

LEMMA QueueTail ==
  ASSUME QueueInv, queue # <<>>, queue' = Tail(queue), asked \subseteq asked'
  PROVE  QueueInv'
<1>1. /\ IsSeq(Tail(queue))
      /\ \A i \in DOMAIN Tail(queue) : i + 1 \in DOMAIN queue /\ Tail(queue)[i] = queue[i + 1]
  BY TailOf DEF QueueInv
<1>2. \A k \in DOMAIN queue' : queue'[k].kind = "completed" => WasAsked(queue'[k].of)
  BY <1>1 DEF QueueInv
<1>3. \A t : WasAsked(t) => WasAsked(t)'
  BY DEF WasAsked
<1> QED BY <1>1, <1>2, <1>3 DEF QueueInv

LEMMA QueueMore ==
  ASSUME QueueInv, NEW items, IsSeq(items), queue' = queue \o items, asked \subseteq asked',
         \A k \in DOMAIN items : items[k].kind = "completed" => WasAsked(items[k].of)
  PROVE  QueueInv'
<1>1. Continues(queue, items, queue \o items)
  BY Joined DEF QueueInv
<1>2. Continues(queue, items, queue')
  BY <1>1
<1>3. \A k \in DOMAIN queue' : queue'[k].kind = "completed" => WasAsked(queue'[k].of)
  BY <1>2 DEF Continues, QueueInv
<1>4. \A t : WasAsked(t) => WasAsked(t)'
  BY DEF WasAsked
<1> QED BY <1>2, <1>3, <1>4 DEF QueueInv, Continues

LEMMA QueueOne ==
  ASSUME QueueInv, NEW e, queue' = Append(queue, e), asked \subseteq asked',
         e.kind = "completed" => WasAsked(e.of)
  PROVE  QueueInv'
<1>1. queue' = queue \o <<e>>
  BY Appending DEF QueueInv
<1>2. IsSeq(<<e>>) /\ \A k \in DOMAIN <<e>> : <<e>>[k] = e
  BY OneOf
<1> QED BY <1>1, <1>2, QueueMore

LEMMA QueueReport ==
  ASSUME QueueInv, NEW t, NEW kinds, NEW text, IsSeq(kinds), Turns!Report(t, kinds, text),
         asked \subseteq asked',
         \A k \in DOMAIN kinds : kinds[k] = "completed" => WasAsked(t)
  PROVE  QueueInv'
<1> DEFINE items == [i \in DOMAIN kinds |-> Turns!Event(kinds[i], t, text)]
<1>1. queue' = queue \o items
  BY DEF Turns!Report
<1>2. DOMAIN kinds = 1..Len(kinds) /\ Len(kinds) \in Nat
  BY LenOf
<1>3. items \in Seq({Turns!Event(kinds[i], t, text) : i \in DOMAIN kinds})
  BY <1>2
<1>4. IsSeq(items)
  BY <1>3 DEF IsSeq
<1>5. \A k \in DOMAIN items : items[k].kind = "completed" => WasAsked(items[k].of)
  BY DEF Turns!Event
<1> HIDE DEF items
<1> QED BY <1>1, <1>4, <1>5, QueueMore

LEMMA QueueStep ==
  ASSUME TurnsInv, Turns!Next
  PROVE  QueueInv'
<1>0. QueueInv /\ asked \subseteq asked'
  BY AskedGrows DEF TurnsInv, AskedInv, QueueInv
<1>1. CASE UNCHANGED queue
  <2>1. \A t : WasAsked(t) => WasAsked(t)'
    BY <1>0 DEF WasAsked
  <2> QED BY <1>0, <1>1, <2>1 DEF QueueInv
<1>2. CASE Turns!Serve(Head(queue)) \/ Turns!ServeTurn(Head(queue))
  BY <1>0, <1>2, QueueTail DEF Turns!Serve, Turns!ServeTurn, Turns!Take
<1>3. CASE Turns!RecordResult \/ Turns!TakeGoal \/ (\E r \in Route : Turns!BringResult(r)) \/ Turns!Displaced
  BY <1>1, <1>3 DEF Turns!RecordResult, Turns!TakeGoal, Turns!BringResult, Turns!Record, Turns!Displaced
<1>4. ASSUME NEW cmd \in Turns!Offered, Turns!UserAsks(cmd) PROVE QueueInv'
  <2>1. cmd.kind \in Turns!Asks /\ queue' = Append(queue, cmd)
    BY <1>4, OfferedKinds DEF Turns!UserAsks
  <2>2. cmd.kind # "completed"
    BY <2>1 DEF Turns!Asks
  <2> QED BY <1>0, <2>1, <2>2, QueueOne
<1>5. CASE Turns!Dispatch
  <2> DEFINE e == Turns!Event("dispatched", Turns!Latest, {})
  <2>1. queue' = Append(queue, e)
    BY <1>5 DEF Turns!Dispatch
  <2>2. e.kind # "completed"
    BY DEF Turns!Event
  <2> HIDE DEF e
  <2> QED BY <1>0, <2>1, <2>2, QueueOne
<1>6. IsSeq(<<"interrupted">>) /\ \A k \in DOMAIN <<"interrupted">> : <<"interrupted">>[k] # "completed"
  BY OneOf
<1>7. CASE Turns!Hear
  <2>1. \/ UNCHANGED queue
        \/ Turns!Report(flight.turn, <<"interrupted">>, FALSE)
    BY <1>7 DEF Turns!Hear, Turns!HearDispatched
  <2> QED BY <1>0, <1>1, <1>6, <2>1, QueueReport
<1>8. CASE Turns!SidecarEnds
  <2>1. Turns!Report(flight.turn, <<"interrupted">>, FALSE)
    BY <1>8 DEF Turns!SidecarEnds
  <2> QED BY <1>0, <1>6, <2>1, QueueReport
<1>9. CASE Turns!Answer
  <2>1. WasAsked(flight.turn)
    BY <1>9 DEF Turns!Answer, TurnsInv, FlightInv
  <2>2. \/ \E text \in BOOLEAN : Turns!Report(flight.turn, <<"completed">>, text)
        \/ Turns!Report(flight.turn, <<"completed", "dispatched">>, TRUE)
        \/ \E kinds \in { <<"failed">>, <<"failed", "interrupted">> } : Turns!Report(flight.turn, kinds, FALSE)
    BY <1>9 DEF Turns!Answer
  <2>3. /\ IsSeq(<<"completed">>) /\ IsSeq(<<"completed", "dispatched">>)
        /\ IsSeq(<<"failed">>) /\ IsSeq(<<"failed", "interrupted">>)
    BY OneOf, TwoOf
  <2> QED BY <1>0, <2>1, <2>2, <2>3, QueueReport
<1>10. CASE Turns!Restart
  <2>1. queue' = <<>>
    BY <1>10 DEF Turns!Restart, Turns!Max, Max
  <2> QED BY <2>1, NoneAtAll DEF QueueInv
<1> QED BY <1>2, <1>3, <1>4, <1>5, <1>7, <1>8, <1>9, <1>10 DEF Turns!Next

LEMMA AskedStep ==
  ASSUME TurnsInv, Turns!Next
  PROVE  AskedInv'
<1>1. PICK items : Writes(items)
  BY StepWrites
<1>2. After(items)
  BY <1>1, Afterwards DEF TurnsInv
<1>3. asked \subseteq asked'
  BY AskedGrows
<1>4. \A t : WasAsked(t) => WasAsked(t)'
  BY <1>3 DEF WasAsked
<1>5. ASSUME NEW q, q \in asked'
      PROVE  q.turn \in Turns!Started(Numbers)' /\ Fitted(q.with, q.fits, Turns!Frozen(Numbers, q.turn)')
  <2>1. q.turn \in Turns!Started(Numbers) /\ Fitted(q.with, q.fits, Turns!Frozen(Numbers, q.turn))
    <3>1. CASE q \in asked
      BY <3>1 DEF TurnsInv, AskedInv
    <3>2. CASE q \notin asked
      <4>1. flight.phase = "pending" /\ q = [turn |-> flight.turn, with |-> flight.with, fits |-> flight.fits]
        BY <1>5, <3>2 DEF Turns!Next, Turns!Serve, Turns!ServeTurn, Turns!RecordResult, Turns!TakeGoal, Turns!BringResult, Turns!Record, Turns!UserAsks, Turns!Dispatch, Turns!Hear, Turns!HearDispatched, Turns!Answer, Turns!SidecarEnds, Turns!Displaced, Turns!Restart, Turns!Max, Max
      <4> QED BY <4>1 DEF TurnsInv, FlightInv
    <3> QED BY <3>1, <3>2
  <2>2. q.turn \in Turns!Started(Numbers)' /\ Turns!Frozen(Numbers, q.turn)' = Turns!Frozen(Numbers, q.turn)
    BY <1>1, <2>1, StartsStay DEF TurnsInv
  <2> QED BY <2>1, <2>2
<1>6. QueueInv'
  BY QueueStep
<1>7. ASSUME NEW i, i \in Numbers',
             journal'[i].kind = "completed" \/ (journal'[i].kind = "ended" /\ journal'[i].with = "completed")
      PROVE  \E q \in asked' : q.turn = journal'[i].of
  <2>1. CASE i \in Numbers
    <3>1. journal'[i] = journal[i]
      BY <1>2, <2>1 DEF After
    <3> QED BY <1>3, <1>7, <2>1, <3>1 DEF TurnsInv, AskedInv, WasAsked
  <2>2. CASE i \notin Numbers
    <3>1. PICK j \in DOMAIN items : journal'[i] = items[j]
      BY <1>2, <1>7, <2>2 DEF After
    <3>2. NewEvent(j, journal'[i])
      BY <1>1, <3>1 DEF Writes
    <3>3. CASE journal'[i].kind = "completed"
      BY <1>3, <3>2, <3>3 DEF NewEvent, WasAsked
    <3>4. CASE journal'[i].kind = "ended" /\ journal'[i].with = "completed"
      <4>1. PICK k \in Turns!Of(Numbers, {"completed"}, journal'[i].of) : TRUE
        BY <3>2, <3>4 DEF NewEvent
      <4>2. WasAsked(journal'[i].of)
        BY <4>1 DEF TurnsInv, AskedInv, Turns!Of, Turns!At
      <4> QED BY <1>3, <4>2 DEF WasAsked
    <3> QED BY <1>7, <3>3, <3>4
  <2> QED BY <2>1, <2>2
<1> QED BY <1>5, <1>6, <1>7 DEF AskedInv, QueueInv, WasAsked, Fitted
(* What the window composes is what the turn's start froze, if its copy of *)
(* the journal replays.                                                    *)
LEMMA ComposedIsFrozen ==
  ASSUME TurnsInv, Turns!CoordinationReplays(known), Turns!Latest # 0
  PROVE  Turns!Latest \in Turns!Started(Numbers) /\ Turns!Composed(Turns!Latest) = Turns!Frozen(Numbers, Turns!Latest)
<1>1. known \in SUBSET Numbers /\ NumberInv("started") /\ IsSeq(journal)
  BY DEF TurnsInv, WindowInv
<1>2. Len(journal) \in Nat /\ Numbers = 1..Len(journal)
  BY <1>1, LenOf DEF Numbers
<1> DEFINE N == {0} \cup Turns!Started(known)
<1>3. N \in SUBSET (0..Len(journal)) /\ N # {}
  <2>1. ASSUME NEW y \in Turns!Started(known) PROVE y \in 0..Len(journal)
    <3>1. PICK i \in Turns!At(known, {"started"}) : journal[i].of = y
      BY HasStart
    <3>2. i \in Turns!At(Numbers, {"started"}) /\ i \in 1..Len(journal)
      BY <1>1, <1>2 DEF Turns!At
    <3>3. y \in 1..i
      BY <1>1, <3>1, <3>2 DEF NumberInv
    <3> QED BY <1>2, <3>2, <3>3
  <2> QED BY <1>2, <2>1
<1>4. Turns!Latest \in N
  <2>1. Max(N) \in N
    <3> HIDE DEF N
    <3> QED BY <1>2, <1>3, Greatest
  <2> QED BY <2>1 DEF Turns!Latest, Turns!Max, Max
<1>5. Turns!Latest \in Turns!Started(known)
  BY <1>4
<1>6. PICK i \in Turns!At(known, {"started"}) : journal[i].of = Turns!Latest
  BY <1>5, HasStart
<1>7. Turns!Start(known, Turns!Latest) = i
  BY <1>1, <1>6, StartIs
<1>8. journal[i].with = Turns!Admitted(Turns!Before(known, i))
  BY <1>6 DEF Turns!CoordinationReplays
<1>9. i \in Turns!At(Numbers, {"started"})
  BY <1>1, <1>6 DEF Turns!At
<1>10. Turns!Frozen(Numbers, Turns!Latest) = journal[i].with /\ Turns!Latest \in Turns!Started(Numbers)
  BY <1>1, <1>6, <1>9, StartIs
<1> QED BY <1>7, <1>8, <1>10 DEF Turns!Composed

LEMMA FlightStep ==
  ASSUME TurnsInv, Turns!Next
  PROVE  FlightInv'
<1>1. PICK items : Writes(items)
  BY StepWrites
<1>2. \A t : WasAsked(t) => WasAsked(t)'
  BY AskedGrows DEF WasAsked
<1>3. ASSUME NEW t \in Turns!Started(Numbers)
      PROVE  t \in Turns!Started(Numbers)' /\ Turns!Frozen(Numbers, t)' = Turns!Frozen(Numbers, t)
  BY <1>1, StartsStay DEF TurnsInv
<1>4. CASE UNCHANGED flight
  <2>1. ASSUME flight.phase = "pending"
        PROVE  /\ flight.turn \in Turns!Started(Numbers)'
               /\ Fitted(flight.with, flight.fits, Turns!Frozen(Numbers, flight.turn)')
    <3>1. /\ flight.turn \in Turns!Started(Numbers)
          /\ Fitted(flight.with, flight.fits, Turns!Frozen(Numbers, flight.turn))
      BY <2>1 DEF TurnsInv, FlightInv
    <3>2. PICK t \in Turns!Started(Numbers) : t = flight.turn
      BY <3>1
    <3>3. Fitted(flight.with, flight.fits, Turns!Frozen(Numbers, t)') /\ t \in Turns!Started(Numbers)'
      BY <1>3, <3>1, <3>2
    <3> QED BY <1>4, <3>2, <3>3 DEF Turns!Frozen, Turns!Start
  <2>2. flight.phase \in {"active", "resumed"} => WasAsked(flight.turn)'
    <3>1. flight.phase \in {"active", "resumed"} => WasAsked(flight.turn)
      BY DEF TurnsInv, FlightInv
    <3> QED BY <1>2, <1>4, <3>1 DEF WasAsked
  <2> QED BY <1>4, <2>1, <2>2 DEF TurnsInv, FlightInv, Fitted
<1>5. CASE flight' = Turns!NoFlight
  BY <1>5 DEF FlightInv, Turns!NoFlight
<1>6. CASE Turns!Dispatch
  <2>1. /\ \E fits \in BOOLEAN :
             \E kept \in IF fits THEN {Turns!Composed(Turns!Latest)} ELSE SUBSET Turns!Composed(Turns!Latest) :
               flight' = [turn |-> Turns!Latest, phase |-> "pending", with |-> kept, fits |-> fits]
        /\ Turns!CoordinationReplays(known) /\ Turns!Latest # 0 /\ journal' = journal
    BY <1>6 DEF Turns!Dispatch
  <2>2. PICK t : t = Turns!Latest
    OBVIOUS
  <2>3. t \in Turns!Started(Numbers) /\ Turns!Composed(Turns!Latest) = Turns!Frozen(Numbers, t)
    BY <2>1, <2>2, ComposedIsFrozen
  <2>4. t \in Turns!Started(Numbers)' /\ Turns!Frozen(Numbers, t)' = Turns!Frozen(Numbers, t)
    BY <1>3, <2>3
  <2>5. PICK fits \in BOOLEAN, kept \in SUBSET Turns!Composed(Turns!Latest) :
          /\ Fitted(kept, fits, Turns!Composed(Turns!Latest))
          /\ flight' = [turn |-> t, phase |-> "pending", with |-> kept, fits |-> fits]
    BY <2>1, <2>2 DEF Fitted
  <2>6. /\ flight'.turn = t /\ flight'.phase = "pending"
        /\ flight' = [turn |-> flight'.turn, phase |-> flight'.phase, with |-> flight'.with, fits |-> flight'.fits]
        /\ Fitted(flight'.with, flight'.fits, Turns!Frozen(Numbers, t)')
    BY <2>3, <2>4, <2>5
  <2> QED BY <2>4, <2>6 DEF FlightInv, Fitted, Turns!Frozen, Turns!Start
<1>7. ASSUME NEW p, p # "pending", flight' = [flight EXCEPT !.phase = p],
             \E q \in asked' : q.turn = flight.turn
      PROVE  FlightInv'
  <2>1. flight = [turn |-> flight.turn, phase |-> flight.phase, with |-> flight.with, fits |-> flight.fits]
    BY DEF TurnsInv, FlightInv
  <2>2. flight' = [turn |-> flight.turn, phase |-> p, with |-> flight.with, fits |-> flight.fits]
    BY <1>7, <2>1
  <2> QED BY <1>7, <2>2 DEF FlightInv, WasAsked
<1>8. CASE Turns!Hear
  <2>1. CASE /\ flight' = [flight EXCEPT !.phase = "active"]
             /\ flight.phase \in {"pending", "resumed"}
             /\ asked' = IF flight.phase = "resumed" THEN asked
                         ELSE asked \cup {[turn |-> flight.turn, with |-> flight.with, fits |-> flight.fits]}
    <3>1. CASE flight.phase = "resumed"
      BY <2>1, <3>1, <1>7 DEF TurnsInv, FlightInv, WasAsked
    <3>2. CASE flight.phase = "pending"
      <4> DEFINE q == [turn |-> flight.turn, with |-> flight.with, fits |-> flight.fits]
      <4>1. q \in asked' /\ q.turn = flight.turn
        BY <2>1, <3>2
      <4> HIDE DEF q
      <4> QED BY <2>1, <4>1, <1>7
    <3> QED BY <2>1, <3>1, <3>2
  <2> QED BY <1>4, <1>5, <1>8, <2>1 DEF Turns!Hear, Turns!HearDispatched
<1>9. CASE Turns!Answer
  <2>1. CASE flight' = [flight EXCEPT !.phase = "resumed"]
    <3>1. flight.phase = "active"
      BY <1>9 DEF Turns!Answer
    <3>2. \E q \in asked' : q.turn = flight.turn
      BY <3>1, AskedGrows DEF TurnsInv, FlightInv, WasAsked
    <3> QED BY <2>1, <3>2, <1>7
  <2> QED BY <1>5, <1>9, <2>1 DEF Turns!Answer
<1>10. CASE Turns!SidecarEnds \/ Turns!Displaced \/ Turns!Restart
  BY <1>5, <1>10 DEF Turns!SidecarEnds, Turns!Displaced, Turns!Restart, Turns!Max, Max
<1>11. CASE \/ Turns!Serve(Head(queue)) \/ Turns!ServeTurn(Head(queue)) \/ Turns!RecordResult \/ Turns!TakeGoal
            \/ (\E r \in Route : Turns!BringResult(r)) \/ (\E cmd \in Turns!Offered : Turns!UserAsks(cmd))
  BY <1>4, <1>11 DEF Turns!Serve, Turns!ServeTurn, Turns!RecordResult, Turns!TakeGoal, Turns!BringResult, Turns!Record, Turns!UserAsks, Turns!window
<1> QED BY <1>6, <1>8, <1>9, <1>10, <1>11 DEF Turns!Next

(* Notices tell of what is in the journal. *)
LEMMA NoticesMore ==
  ASSUME NEW items, IsSeq(items), IsSeq(notices), Turns!Tell(items), Numbers \subseteq Numbers',
         \A k \in DOMAIN notices : notices[k].new \subseteq Numbers,
         \A k \in DOMAIN items : items[k].new \subseteq Numbers'
  PROVE  IsSeq(notices') /\ \A k \in DOMAIN notices' : notices'[k].new \subseteq Numbers'
<1>1. Continues(notices, items, notices \o items)
  BY Joined
<1>2. Continues(notices, items, notices')
  BY <1>1 DEF Turns!Tell
<1> QED BY <1>2 DEF Continues

LEMMA TellOne ==
  ASSUME NEW e, IsSeq(notices), Turns!Tell(<<e>>), Numbers \subseteq Numbers',
         \A k \in DOMAIN notices : notices[k].new \subseteq Numbers,
         e.new \subseteq Numbers'
  PROVE  IsSeq(notices') /\ \A k \in DOMAIN notices' : notices'[k].new \subseteq Numbers'
<1>1. IsSeq(<<e>>) /\ DOMAIN <<e>> = {1} /\ <<e>>[1] = e
  BY OneOf
<1>2. \A k \in DOMAIN <<e>> : <<e>>[k].new \subseteq Numbers'
  BY <1>1
<1> QED BY <1>1, <1>2, NoticesMore

LEMMA TellTwo ==
  ASSUME NEW d, NEW e, IsSeq(notices), Turns!Tell(<<d, e>>), Numbers \subseteq Numbers',
         \A k \in DOMAIN notices : notices[k].new \subseteq Numbers,
         d.new \subseteq Numbers', e.new \subseteq Numbers'
  PROVE  IsSeq(notices') /\ \A k \in DOMAIN notices' : notices'[k].new \subseteq Numbers'
<1>1. IsSeq(<<d, e>>) /\ DOMAIN <<d, e>> = {1, 2} /\ <<d, e>>[1] = d /\ <<d, e>>[2] = e
  BY TwoOf
<1>2. \A k \in DOMAIN <<d, e>> : <<d, e>>[k].new \subseteq Numbers'
  BY <1>1
<1> QED BY <1>1, <1>2, NoticesMore
NoticeInv ==
  IsSeq(notices) /\ \A k \in DOMAIN notices : notices[k].new \subseteq Numbers

LEMMA LastIsThere ==
  ASSUME IsSeq(journal), NEW e, journal' = Append(journal, e)
  PROVE  Len(journal') \in Numbers'
<1>1. journal' = journal \o <<e>>
  BY Appending
<1>2. Continues(journal, <<e>>, journal \o <<e>>)
  BY Joined, OneOf
<1>3. Continues(journal, <<e>>, journal')
  BY <1>1, <1>2
<1>4. Len(journal) + 1 \in DOMAIN journal' /\ IsSeq(journal') /\ Len(journal) \in Nat
  BY <1>3, OneOf DEF Continues
<1>5. Len(journal') \in Nat /\ DOMAIN journal' = 1..Len(journal')
  BY <1>4, LenOf
<1>6. Len(journal') \in DOMAIN journal'
  BY <1>4, <1>5
<1> QED BY <1>6 DEF Numbers

LEMMA NoticeStep ==
  ASSUME TurnsInv, Turns!Next
  PROVE  NoticeInv'
<1>1. IsSeq(journal) /\ NoticeInv
  BY DEF TurnsInv, WindowInv, NoticeInv
<1>2. PICK items : Writes(items)
  BY StepWrites
<1>3. IsSeq(journal') /\ Numbers \subseteq Numbers' /\ Len(journal) \in Nat
  BY <1>1, <1>2, Afterwards DEF After
<1>4. Numbers' = 1..Len(journal') /\ Len(journal') \in Nat
  BY <1>3, LenOf DEF Numbers
<1>5. ASSUME NEW e, Turns!Tell(<<e>>), e.new \subseteq Numbers' PROVE NoticeInv'
  BY <1>1, <1>3, <1>5, TellOne DEF NoticeInv
<1>6. ASSUME NEW d, NEW e, Turns!Tell(<<d, e>>), d.new \subseteq Numbers', e.new \subseteq Numbers'
      PROVE  NoticeInv'
  BY <1>1, <1>3, <1>6, TellTwo DEF NoticeInv
<1>7. CASE UNCHANGED notices
  BY <1>1, <1>3, <1>7 DEF NoticeInv
<1>8. CASE Turns!Serve(Head(queue))
  <2>1. Len(journal) + 1 .. Len(journal') \subseteq Numbers'
    BY <1>3, <1>4
  <2>2. \/ Turns!Tell(<< Turns!Notice(TRUE, Head(queue), Len(journal) + 1 .. Len(journal')) >>)
        \/ Turns!Tell(<< Turns!Notice(FALSE, Head(queue), {}) >>)
    BY <1>8 DEF Turns!Serve
  <2>3. /\ Turns!Notice(TRUE, Head(queue), Len(journal) + 1 .. Len(journal')).new \subseteq Numbers'
        /\ Turns!Notice(FALSE, Head(queue), {}).new \subseteq Numbers'
    BY <2>1 DEF Turns!Notice
  <2> QED BY <1>5, <2>2, <2>3
<1>9. CASE Turns!ServeTurn(Head(queue))
  <2>1. \/ UNCHANGED notices
        \/ journal' = Append(journal, Head(queue)) /\ Turns!Tell(<< Turns!Notice(TRUE, Head(queue), {Len(journal')}) >>)
        \/ Turns!Tell(<< Turns!Notice(FALSE, Head(queue), {}) >>)
    BY <1>9 DEF Turns!ServeTurn
  <2>2. Turns!Notice(FALSE, Head(queue), {}).new \subseteq Numbers'
    BY DEF Turns!Notice
  <2>3. journal' = Append(journal, Head(queue)) =>
          Turns!Notice(TRUE, Head(queue), {Len(journal')}).new \subseteq Numbers'
    BY <1>1, LastIsThere DEF Turns!Notice
  <2> QED BY <1>5, <1>7, <2>1, <2>2, <2>3
<1>10. CASE Turns!RecordResult
  <2> DEFINE t == journal[ending].of
             result == Turns!Event("ended", t, Turns!Outcome(Numbers, t))
             heard == Turns!Notice(TRUE, journal[ending], {ending})
  <2>1. \/ Turns!Tell(<< heard >>)
        \/ journal' = Append(journal, result) /\ Turns!Tell(<< heard, Turns!Notice(TRUE, result, {Len(journal')}) >>)
        \/ Turns!Tell(<< heard, Turns!Notice(FALSE, result, {}) >>)
    BY <1>10 DEF Turns!RecordResult, Numbers
  <2>2. ending \in Numbers
    BY <1>10 DEF Turns!RecordResult, TurnsInv, WindowInv
  <2>3. heard.new \subseteq Numbers'
    BY <1>3, <2>2 DEF Turns!Notice
  <2> HIDE DEF result, heard
  <2>4. Turns!Notice(FALSE, result, {}).new \subseteq Numbers'
    BY DEF Turns!Notice
  <2>5. journal' = Append(journal, result) => Turns!Notice(TRUE, result, {Len(journal')}).new \subseteq Numbers'
    BY <1>1, LastIsThere DEF Turns!Notice
  <2> QED BY <1>5, <1>6, <2>1, <2>3, <2>4, <2>5
<1>11. ASSUME NEW e, Turns!Record(e) PROVE NoticeInv'
  <2>1. journal' = Append(journal, e) /\ Turns!Tell(<< Turns!Notice(TRUE, e, {Len(journal')}) >>)
    BY <1>11 DEF Turns!Record
  <2>2. Turns!Notice(TRUE, e, {Len(journal')}).new \subseteq Numbers'
    BY <1>1, <2>1, LastIsThere DEF Turns!Notice
  <2> QED BY <1>5, <2>1, <2>2
<1>12. CASE Turns!TakeGoal \/ \E r \in Route : Turns!BringResult(r)
  BY <1>11, <1>12 DEF Turns!TakeGoal, Turns!BringResult
<1>13. CASE (\E cmd \in Turns!Offered : Turns!UserAsks(cmd)) \/ Turns!Dispatch \/ Turns!Answer \/ Turns!SidecarEnds \/ Turns!Displaced
  BY <1>7, <1>13 DEF Turns!UserAsks, Turns!Dispatch, Turns!Answer, Turns!SidecarEnds, Turns!Displaced
<1>14. CASE Turns!Hear
  <2>1. notices # <<>> /\ notices' = Tail(notices)
    BY <1>14 DEF Turns!Hear
  <2>2. IsSeq(notices') /\ \A i \in DOMAIN notices' : i + 1 \in DOMAIN notices /\ notices'[i] = notices[i + 1]
    BY <1>1, <2>1, TailOf DEF NoticeInv
  <2> QED BY <1>1, <1>3, <2>2 DEF NoticeInv
<1>15. CASE Turns!Restart
  <2>1. notices' = <<>>
    BY <1>15 DEF Turns!Restart, Turns!Max, Max
  <2> QED BY <2>1, NoneAtAll DEF NoticeInv
<1> QED BY <1>8, <1>9, <1>10, <1>12, <1>13, <1>14, <1>15 DEF Turns!Next

LEMMA WindowStep ==
  ASSUME TurnsInv, Turns!Next
  PROVE  WindowInv'
<1>1. IsSeq(journal) /\ known \subseteq Numbers /\ IsSeq(notices) /\ ending \in {0} \cup Numbers
  BY DEF TurnsInv, WindowInv
<1>2. PICK items : Writes(items)
  BY StepWrites
<1>3. Numbers \subseteq Numbers'
  BY <1>1, <1>2, Afterwards DEF After
<1>4. known' \subseteq Numbers'
  <2>1. CASE Turns!Hear
    <3>1. notices # <<>> /\ known' = known \cup Head(notices).new
      BY <2>1 DEF Turns!Hear
    <3>2. Head(notices) = notices[1] /\ 1 \in DOMAIN notices
      BY <1>1, <3>1, TailOf
    <3>3. Head(notices).new \subseteq Numbers
      BY <3>2 DEF TurnsInv, WindowInv
    <3> QED BY <1>1, <1>3, <3>1, <3>3
  <2>2. CASE Turns!Restart
    BY <2>2 DEF Turns!Restart, Turns!Max, Max, Numbers
  <2>3. CASE known' = known
    BY <1>1, <1>3, <2>3
  <2> QED BY <2>1, <2>2, <2>3 DEF Turns!Next, Turns!Serve, Turns!ServeTurn, Turns!RecordResult, Turns!TakeGoal, Turns!BringResult, Turns!Record, Turns!UserAsks, Turns!Dispatch, Turns!Answer, Turns!SidecarEnds, Turns!Displaced, Turns!window
<1>5. ending' \in {0} \cup Numbers'
  <2>1. CASE Turns!ServeTurn(Head(queue))
    <3>1. \/ ending' = ending
          \/ journal' = Append(journal, Head(queue)) /\ ending' = Len(journal')
      BY <2>1 DEF Turns!ServeTurn
    <3> QED BY <1>1, <1>3, <3>1, LastIsThere
  <2>2. CASE ending' = ending \/ ending' = 0
    BY <1>1, <1>3, <2>2
  <2> QED BY <2>1, <2>2 DEF Turns!Next, Turns!Serve, Turns!RecordResult, Turns!TakeGoal, Turns!BringResult, Turns!Record, Turns!UserAsks, Turns!Dispatch, Turns!Hear, Turns!Answer, Turns!SidecarEnds, Turns!Displaced, Turns!Restart, Turns!Max, Max
<1>6. NoticeInv'
  BY NoticeStep
<1> QED BY <1>4, <1>5, <1>6 DEF WindowInv, NoticeInv

LEMMA TurnsStand ==
  ASSUME TurnsInv, UNCHANGED Turns!vars
  PROVE  TurnsInv'
BY DEF TurnsInv, Turns!vars, Turns!window, NumberInv, ControlInv, WindowInv, FlightInv, AskedInv, BasisInv, Fitted, WasAsked, Numbers, Turns!At, Turns!Of, Turns!Started, Turns!Frozen, Turns!Start

LEMMA TurnsInit == Turns!Init => TurnsInv
<1> SUFFICES ASSUME Turns!Init PROVE TurnsInv
  OBVIOUS
<1>1. Numbers = {} /\ IsSeq(journal) /\ IsSeq(queue) /\ IsSeq(notices)
  BY NoneAtAll DEF Turns!Init, Numbers
<1>2. DOMAIN queue = {} /\ DOMAIN notices = {}
  BY NoneAtAll DEF Turns!Init
<1>3. \A kinds : Turns!At(Numbers, kinds) = {}
  BY <1>1 DEF Turns!At
<1>4. NumberInv("suggested") /\ NumberInv("started") /\ ControlInv /\ BasisInv
  BY <1>3 DEF NumberInv, ControlInv, BasisInv
<1>5. WindowInv
  BY <1>1, <1>2 DEF Turns!Init, WindowInv
<1>6. FlightInv
  BY DEF Turns!Init, FlightInv, Turns!NoFlight
<1>7. AskedInv
  BY <1>1, <1>2 DEF Turns!Init, AskedInv
<1> QED BY <1>1, <1>4, <1>5, <1>6, <1>7 DEF TurnsInv

LEMMA TurnsStep == TurnsInv /\ [Turns!Next]_(Turns!vars) => TurnsInv'
<1> SUFFICES ASSUME TurnsInv, [Turns!Next]_(Turns!vars) PROVE TurnsInv'
  OBVIOUS
<1>1. CASE UNCHANGED Turns!vars
  BY <1>1, TurnsStand
<1>2. CASE Turns!Next
  <2>1. PICK items : Writes(items)
    BY <1>2, StepWrites
  <2>2. IsSeq(journal')
    BY <2>1, Afterwards DEF TurnsInv, After
  <2>3. NumberInv("suggested")' /\ NumberInv("started")'
    BY <2>1, NumberStep DEF TurnsInv
  <2>4. ControlInv'
    BY <2>1, TurnControlStep
  <2>5. BasisInv'
    BY <2>1, AskedGrows, BasisStep
  <2>6. WindowInv' /\ FlightInv' /\ AskedInv'
    BY <1>2, WindowStep, FlightStep, AskedStep
  <2> QED BY <2>2, <2>3, <2>4, <2>5, <2>6 DEF TurnsInv
<1> QED BY <1>1, <1>2

(* The invariant holds at every step of window and worker thread, appends  *)
(* that fail and restarts included.                                        *)
THEOREM TurnsInductive == Turns!Spec => []TurnsInv
BY TurnsInit, TurnsStep, PTL DEF Turns!Spec

(* The suggestion a control is for is recorded once, and its promotion, if  *)
(* at all, after the control.                                              *)
LEMMA NoControlIsStale == TurnsInv => Turns!StaleMakesNoControl
<1> SUFFICES ASSUME TurnsInv, NEW i \in Turns!At(Numbers, {"control"})
             PROVE  /\ journal[i].with.goal = Turns!Suggestion(Numbers, journal[i].with.for).goal
                    /\ journal[i].with.action = Turns!Suggestion(Numbers, journal[i].with.for).action
                    /\ Turns!Of(Turns!Before(Numbers, i), {"promoted"}, journal[i].with.for) = {}
  BY DEF Turns!StaleMakesNoControl, Numbers
<1> DEFINE s == journal[i].with.for
<1>1. PICK j \in Turns!Of(Numbers, {"suggested"}, s) :
        /\ journal[i].with.goal = journal[j].with.goal
        /\ journal[i].with.action = journal[j].with.action
  BY DEF TurnsInv, ControlInv
<1>2. Turns!Suggestion(Numbers, s) = journal[j].with
  BY SuggestionIs DEF TurnsInv
<1>3. ASSUME NEW k \in Turns!Of(Turns!Before(Numbers, i), {"promoted"}, s) PROVE FALSE
  <2>1. k \in Turns!Of(Numbers, {"promoted"}, s) /\ k \in 1..i - 1
    BY DEF Turns!Of, Turns!At, Turns!Before
  <2>2. i < k
    BY <2>1 DEF TurnsInv, ControlInv
  <2>3. i \in Nat
    BY LenOf DEF TurnsInv, Turns!At, Numbers
  <2> QED BY <2>1, <2>2, <2>3
<1> QED BY <1>1, <1>2, <1>3

LEMMA AllCarryTheFrozen == TurnsInv => Turns!CarriesTheFrozen
BY DEF TurnsInv, AskedInv, BasisInv, Fitted, WasAsked, Turns!CarriesTheFrozen, Numbers


LEMMA SameStale == Turns!StaleMakesNoControl => StaleMakesNoControl
BY DEF StaleMakesNoControl, Suggestion, At, Of, Before,
       Turns!StaleMakesNoControl, Turns!Suggestion, Turns!At, Turns!Of, Turns!Before

LEMMA SameCarried == Turns!CarriesTheFrozen => CarriesTheFrozen
BY DEF CarriesTheFrozen, Frozen, Start, At,
       Turns!CarriesTheFrozen, Turns!Frozen, Turns!Start, Turns!At

(* Every control a promotion proposed is for the goal and the action its   *)
(* suggestion was recorded with, and was recorded before the promotion     *)
(* was, wherever an append fails or the program stops in between           *)
(* (append_controller_coordination_suggestion_promotion_checked).          *)
THEOREM StaleSuggestionsMakeNoControl == Turns!Spec => []StaleMakesNoControl
BY TurnsInductive, NoControlIsStale, SameStale, PTL

(* Every request of a coordination turn carries, of the worker results     *)
(* frozen at its start, all or, if they do not fit the budget of its       *)
(* context, some, and no other, whatever is admitted or excluded between   *)
(* the start and the request; and every suggestion rests on a frozen       *)
(* result of a turn whose request left                                     *)
(* (dispatch_controller_coordination, compose_bounded).                    *)
THEOREM RequestsCarryTheFrozen == Turns!Spec => []CarriesTheFrozen
BY TurnsInductive, AllCarryTheFrozen, SameCarried, PTL
=============================================================================
