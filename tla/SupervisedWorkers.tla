------------------------- MODULE SupervisedWorkers -------------------------
(***************************************************************************)
(* What supervision promises the user, with none of its bookkeeping: a     *)
(* command reaches a worker only when the user sends it, while the worker  *)
(* is on the goal and in a phase it is meant for; it has at most one       *)
(* effect, and only if the worker still admits it then; and every          *)
(* continuation spends one unit of an allowance the user granted for that  *)
(* worker and goal, each unit once.                                        *)
(***************************************************************************)
EXTENDS Naturals, WorkerLifecycle

CONSTANTS
  Worker,
  Name,            \* what commands are named by
  NoName,          \* names no command
  UnitName         \* what the units of an allowance are named by

VARIABLES
  lifecycle,       \* each worker's goal and phase
  mover,           \* the command that made its last move, if one did
  granted,         \* the units granted: whose, for which goal, named what
  spent,           \* those a command sent carries
  sent,            \* the names of the commands sent
  outstanding      \* the commands sent that have had no effect

vars == <<lifecycle, mover, granted, spent, sent, outstanding>>

Init ==
  /\ lifecycle = [w \in Worker |-> Unassigned]
  /\ mover = [w \in Worker |-> NoName]
  /\ granted = {}
  /\ spent = {}
  /\ sent = {}
  /\ outstanding = {}

(* The worker's user assigns it a goal or moves it along. *)
Own(w) ==
  /\ \/ /\ Assignable(lifecycle[w])
        /\ lifecycle' = [lifecycle EXCEPT ![w] =
             [goal |-> @.goal + 1, phase |-> "Ready"]]
     \/ \E action \in WorkerAction :
          /\ Applies(lifecycle[w], lifecycle[w].goal, action)
          /\ lifecycle' = [lifecycle EXCEPT ![w] = Applied(@, action)]
  /\ mover' = [mover EXCEPT ![w] = NoName]
  /\ UNCHANGED <<granted, spent, sent, outstanding>>

(* The user grants fresh units for the goal a worker has, unless it ended. *)
Grant(w, names) ==
  /\ lifecycle[w].goal # NoGoal
  /\ lifecycle[w].phase \notin Terminal
  /\ \A u \in granted : u.name \notin names
  /\ granted' = granted \cup
       [worker : {w}, goal : {lifecycle[w].goal}, name : names]
  /\ UNCHANGED <<lifecycle, mover, spent, sent, outstanding>>

(* The user sends a command; one to continue takes a unit with it. *)
Send(id, w, kind) ==
  /\ id \notin sent
  /\ Admissible(lifecycle[w], lifecycle[w].goal, kind)
  /\ IF kind = "Continue"
     THEN \E u \in granted \ spent :
            /\ u.worker = w /\ u.goal = lifecycle[w].goal
            /\ spent' = spent \cup {u}
     ELSE spent' = spent
  /\ sent' = sent \cup {id}
  /\ outstanding' = outstanding \cup
       {[id |-> id, worker |-> w, goal |-> lifecycle[w].goal, kind |-> kind]}
  /\ UNCHANGED <<lifecycle, mover, granted>>

(* A command sent takes effect, if its worker still admits it. *)
Effect(m) ==
  /\ Admissible(lifecycle[m.worker], m.goal, m.kind)
  /\ IF m.kind \in Mutating
     THEN /\ lifecycle' = [lifecycle EXCEPT ![m.worker] = Applied(@, m.kind)]
          /\ mover' = [mover EXCEPT ![m.worker] = m.id]
     ELSE UNCHANGED <<lifecycle, mover>>
  /\ outstanding' = outstanding \ {m}
  /\ UNCHANGED <<granted, spent, sent>>

Next ==
  \/ \E w \in Worker : Own(w)
  \/ \E w \in Worker : \E names \in SUBSET UnitName : Grant(w, names)
  \/ \E id \in Name, w \in Worker, kind \in Kind : Send(id, w, kind)
  \/ \E m \in outstanding : Effect(m)

Spec == Init /\ [][Next]_vars
=============================================================================
