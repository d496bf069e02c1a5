------------------------- MODULE WorkspacePromises -------------------------
(***************************************************************************)
(* What the coordination workspace promises its operator, of what can be   *)
(* seen of it: the edges drawn, the messages, and the turn that waits for  *)
(* its answer.  Coordination has the steps that keep the promises.         *)
(***************************************************************************)
EXTENDS Naturals, Sequences, FiniteSets

CONSTANT
  Window      \* the minute of the rate limit, in ticks

VARIABLES
  link,       \* the edges drawn, and what is set on each
  message,    \* the messages, in the order of their ids
  active,     \* the turn that waits for its answer, or to be sent again
  ago,        \* history: how long ago each message was delivered
  asked,      \* history: the directives whose wake sent its first request
  halted      \* history: the directives whose wake the operator stopped

-----------------------------------------------------------------------------
NoLink == <<>>

ReturnPath == [directives |-> FALSE, reports |-> TRUE, mode |-> "allow", rate |-> 0]

(* route_for: the edge itself or, in the absence of one, the return path   *)
(* of an edge that carries directives.                                     *)
RouteFor(a, b) ==
  CASE <<a, b>> \in DOMAIN link -> link[<<a, b>>]
    [] /\ <<a, b>> \notin DOMAIN link
       /\ <<b, a>> \in DOMAIN link
       /\ link[<<b, a>>].directives /\ link[<<b, a>>].mode # "block" -> ReturnPath
    [] OTHER -> NoLink

NoTurn == <<>>

-----------------------------------------------------------------------------
NewlyDelivered(i) ==
  /\ i \in DOMAIN message'
  /\ message'[i].status = "delivered"
  /\ i \in DOMAIN message => message[i].status # "delivered"

ByItself(i) == NewlyDelivered(i) /\ message'[i].note # "released"

MeteredRoute(i) == RouteFor(message'[i].from, message'[i].to).mode = "rate_limit"

(* Whatever is released, deleted, consumed or allowed by another policy in *)
(* between, an edge with a limit delivers a message by itself only while,  *)
(* with this one, no more than the limit were delivered on it in the last  *)
(* minute (send, advance_rate_queues, delete_message).                     *)
RateKept ==
  [][\A i \in DOMAIN message' : ByItself(i) /\ MeteredRoute(i) =>
       Cardinality({ j \in DOMAIN message' :
         /\ message'[j].from = message'[i].from /\ message'[j].to = message'[i].to
         /\ ago'[j] < Window }) <= RouteFor(message'[i].from, message'[i].to).rate]_message

(* On an edge with a limit no message is delivered by itself while an      *)
(* older one waits there for room.                                         *)
FifoKept ==
  [][\A i, j \in DOMAIN message' : i < j /\ ByItself(j) /\ MeteredRoute(j) =>
       ~( /\ message'[i].from = message'[j].from /\ message'[i].to = message'[j].to
          /\ message'[i].status = "queued" /\ message'[i].note = "rate")]_message

(* A request of the wake of directive i leaves. *)
Leaves(i) ==
  active' # active /\ active' # NoTurn /\ active'.turn = i /\ ~active'.waits

(* It is one that the service refused, and that has left before. *)
Again == active # NoTurn /\ active.waits /\ active' = [active EXCEPT !.waits = FALSE]

(* A directive wakes its worker once: the first request of its wake is     *)
(* dispatched at most once, whatever fails to be saved, is stopped and     *)
(* granted again, or is cut off by a restart; only a request the service   *)
(* refused for its rate is sent another time.                              *)
WokenOnce == [][\A i \in asked : Leaves(i) => Again \/ ~active'.first]_active

(* Once the operator has stopped a wake no request of it is dispatched,    *)
(* even if the stop could not be saved and the worker is armed again: what *)
(* leaves after the stop had left before it, and was refused.              *)
StoppedNotDispatched == [][\A i \in halted : Leaves(i) => Again /\ i \in asked]_active

(* "stop_wake_lease cancels remaining permission and invalidates an        *)
(* outstanding claim without refunding it or retrying that message": once  *)
(* the operator has stopped a wake no request of it leaves at all.         *)
StoppedStaysStopped == [][\A i \in halted : ~Leaves(i)]_active
=============================================================================
