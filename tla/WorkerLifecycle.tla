-------------------------- MODULE WorkerLifecycle --------------------------
(***************************************************************************)
(* The worker lifecycle machine of crates/core and what it lets a control  *)
(* or a continuation lease do: pure operators over one worker's            *)
(* [goal, phase] record, shared by the live operations and by the replay   *)
(* of the journal, as in the code.                                         *)
(***************************************************************************)
EXTENDS Naturals

NoGoal == 0

Phase == {"Unassigned", "Ready", "Working", "NeedsInput", "Blocked",
          "Completed", "Failed", "Stopped"}

Terminal == {"Completed", "Failed", "Stopped"}

WorkerAction == {"StartOrResume", "ReportProgress", "RequestInput",
                 "MarkBlocked", "Complete", "Fail", "Stop"}

Kind == {"StartOrResume", "Continue", "Stop", "StatusRequest"}

(* WorkerLifecycle::default *)
Unassigned == [goal |-> NoGoal, phase |-> "Unassigned"]

(* The phases each action is accepted in.  A terminal action is accepted   *)
(* again in its own result: the fact was observed twice.                   *)
From ==
  [StartOrResume  |-> {"Ready", "NeedsInput", "Blocked"},
   ReportProgress |-> {"Working"},
   RequestInput   |-> {"Working"},
   MarkBlocked    |-> {"Working"},
   Complete       |-> {"Working", "Completed"},
   Fail           |-> Phase \ {"Completed", "Stopped"},
   Stop           |-> Phase \ {"Completed", "Failed"}]

To ==
  [StartOrResume  |-> "Working",
   ReportProgress |-> "Working",
   RequestInput   |-> "NeedsInput",
   MarkBlocked    |-> "Blocked",
   Complete       |-> "Completed",
   Fail           |-> "Failed",
   Stop           |-> "Stopped"]

(* require_goal: the action names the goal the worker has now. *)
OnGoal(lifecycle, goal) == goal # NoGoal /\ lifecycle.goal = goal

Applies(lifecycle, goal, action) ==
  OnGoal(lifecycle, goal) /\ lifecycle.phase \in From[action]

Applied(lifecycle, action) == [lifecycle EXCEPT !.phase = To[action]]

Assignable(lifecycle) ==
  lifecycle.goal = NoGoal \/ lifecycle.phase \in Terminal

(* The phases a control of each kind may be admitted, bound, dispatched or *)
(* started in.                                                             *)
AdmitPhase ==
  [StartOrResume |-> {"Ready", "NeedsInput", "Blocked"},
   Continue      |-> {"Working"},
   Stop          |-> Phase \ Terminal,
   StatusRequest |-> Phase]

(* validate_control_admission *)
Admissible(lifecycle, goal, kind) ==
  OnGoal(lifecycle, goal) /\ lifecycle.phase \in AdmitPhase[kind]

(* ContinuationLease::authorize: a lease with units left, for the goal the *)
(* worker is Working on.                                                   *)
Authorizes(lease, lifecycle) ==
  /\ OnGoal(lifecycle, lease.goal)
  /\ lifecycle.phase = "Working"
  /\ lease.issued < lease.allowance

(* The lifecycle action a mutating control performs. *)
Mutating == {"StartOrResume", "Stop"}
=============================================================================
