----------------------------- MODULE LocalRoute -----------------------------
(***************************************************************************)
(* Messages routed between local conversations: how a conversation comes   *)
(* to have a chat container, a current session and an endpoint; how a      *)
(* route is proposed, given its payload, allowed or denied, dispatched and *)
(* delivered; and how the user admits what arrived to a model's context.   *)
(*                                                                         *)
(* As in ControlPlane the persistence worker performs one operation at a   *)
(* time, and two of these make several appends: "op" says which is between *)
(* two of them.  There it may end because an append fails, and then the    *)
(* window is told of the failure but never of the events already appended, *)
(* which its copy of the journal lacks ("unseen") until the next start.    *)
(*                                                                         *)
(* Each append is judged by what the audits require of it (the Accepts     *)
(* operators) at the journal as it stands; "replays" remembers whether     *)
(* they accepted them all.                                                 *)
(*                                                                         *)
(* A session's phase changes and a session is succeeded through the store, *)
(* which records and audits both; no command of the desktop does so yet.   *)
(***************************************************************************)
EXTENDS Naturals, Sequences, FiniteSetsExt

CONSTANTS
  Conversation,    \* the local conversations
  MaxSessions,     \* bound: sessions ever registered
  MaxRoutes        \* bound: routes ever proposed

ASSUME LocalRouteAssumption ==
  /\ MaxSessions \in Nat
  /\ MaxRoutes \in Nat

VARIABLES
  session,         \* the sessions, in the order of their ids
  home,            \* each conversation's chat container
  route,           \* the routes, in the order of their ids
  op,              \* the operation that is between two of its appends
  unseen,          \* what the window's copy of the journal lacks
  replays          \* history: the audits accepted every event appended

vars == <<session, home, route, op, unseen, replays>>

-----------------------------------------------------------------------------
Session == 1..MaxSessions

NoSession == 0

(* A container is named by its root session. *)
NoChat == 0

NoEndpoint == 0

Phase == {"Healthy", "Aging", "Saturated", "Retired"}

(* SessionLifecyclePhase::accepts_ordinary_turns *)
Ordinary == {"Healthy", "Aging"}

(* can_transition_to: the transitions a caller may record. *)
Moves == {<<"Healthy", "Aging">>, <<"Healthy", "Saturated">>, <<"Aging", "Saturated">>}

Stage == {"proposed", "dispatched", "delivered"}

Decision == {"Pending", "Allow", "Deny"}

ContextDecision == {"Admit", "Exclude"}

NoPayload == <<>>

Nowhere == <<>>

Idle == <<>>

(* The conversation c is given a container around session s; route r is    *)
(* being delivered.                                                        *)
Settling(c, s) == <<c, s>>

Sending(r) == <<r>>

(* The current session of a container: the one of its lineage that no      *)
(* other has succeeded.                                                    *)
Members(k) == { s \in DOMAIN session : session[s].chat = k }

Leaf(k) == CHOOSE s \in Members(k) : session[s].phase # "Retired"

(* replay_local_routing_directory: the conversations whose current session *)
(* has an endpoint, and which sessions those are.                          *)
Listed(c) ==
  home[c] # NoChat /\ session[Leaf(home[c])].endpoint # NoEndpoint

At(c, e) == Listed(c) /\ session[Leaf(home[c])].endpoint = e

Ready(c) == session[Leaf(home[c])].phase \in Ordinary

(* The conversations at the two ends of a route, if both are listed,       *)
(* distinct, and take ordinary turns.                                      *)
Between(r, a, b) ==
  /\ a # b
  /\ At(a, route[r].from) /\ At(b, route[r].to)
  /\ Ready(a) /\ Ready(b)

Fresh(r) == \E a, b \in Conversation : Between(r, a, b)

(* The ends are those the payload was written between. *)
AsWritten(r) ==
  route[r].payload # NoPayload /\ Between(r, route[r].payload[1], route[r].payload[2])

Sent(r) == route[r].stage # "proposed"

(* The ids the window allocates, from its own copy of the journal. *)
NextSession ==
  Max({0} \cup { s \in DOMAIN session : <<"session", s>> \notin unseen }) + 1

Endpoints == { session[s].endpoint : s \in DOMAIN session }

NextEndpoint == Max({0} \cup Endpoints) + 1

(* Mutant: only the endpoints in the directory are taken. *)
NextListedEndpoint ==
  Max({0} \cup { session[s].endpoint : s \in
        { Leaf(home[c]) : c \in { d \in Conversation : Listed(d) } } }) + 1

(* What the window replays of its copy when it shows an inbox or composes  *)
(* a request: it fails on a delivery whose dispatch is not there.          *)
InboxReadable ==
  \A r \in DOMAIN route :
    route[r].stage = "delivered" => <<"dispatch", r>> \notin unseen
-----------------------------------------------------------------------------
(***************************************************************************)
(* What the audits require of each event, replaying the journal before it. *)
(***************************************************************************)
AcceptsContainer(s) == s \in DOMAIN session /\ session[s].chat = NoChat

AcceptsHome(c, k) ==
  /\ Members(k) # {}
  /\ home[c] = NoChat
  /\ \A d \in Conversation : home[d] # k

AcceptsEndpoint(s, e) ==
  s \in DOMAIN session /\ session[s].endpoint = NoEndpoint /\ e \notin Endpoints

AcceptsMove(s, phase) ==
  /\ session[s].chat # NoChat
  /\ s = Leaf(session[s].chat)
  /\ <<session[s].phase, phase>> \in Moves

AcceptsSuccessor(k, s) ==
  /\ s \in DOMAIN session /\ session[s].chat = NoChat
  /\ Members(k) # {} /\ session[Leaf(k)].phase = "Saturated"

AcceptsPayload(r, a, b) ==
  /\ route[r].payload = NoPayload
  /\ ~Sent(r)
  /\ Between(r, a, b)

AcceptsDecision(r) == ~Sent(r)

AcceptsDispatch(r) == ~Sent(r) /\ route[r].decision = "Allow"

(* Also what the inbox requires: the payload precedes the dispatch, since  *)
(* none is accepted after it.                                              *)
AcceptsDelivery(r, ends) ==
  /\ route[r].stage = "dispatched"
  /\ AsWritten(r)
  /\ ends = <<Leaf(home[route[r].payload[1]]), Leaf(home[route[r].payload[2]])>>
  /\ ends[1] # ends[2]

AcceptsContext(r, c) ==
  route[r].stage = "delivered" /\ route[r].payload[2] = c

Judge(accepted) == replays' = (replays /\ accepted)

Registered == [chat |-> NoChat, phase |-> "Healthy", endpoint |-> NoEndpoint]
-----------------------------------------------------------------------------
Init ==
  /\ session = <<>>
  /\ home = [c \in Conversation |-> NoChat]
  /\ route = <<>>
  /\ op = Idle
  /\ unseen = {}
  /\ replays = TRUE

(***************************************************************************)
(* Conversations, containers and sessions.                                 *)
(***************************************************************************)

(* append_local_orchestration_topology_checked appends a session, the      *)
(* container around it, and the conversation's claim to that.  The window  *)
(* chose the ids.                                                          *)
RegisterRoot(c) ==
  /\ op = Idle
  /\ home[c] = NoChat
  /\ NextSession <= MaxSessions
  /\ NextSession \notin DOMAIN session
  /\ session' = Append(session, Registered)
  /\ op' = Settling(c, NextSession)
  /\ UNCHANGED <<home, route, unseen, replays>>

CreateContainer(c, s) ==
  /\ op = Settling(c, s)
  /\ session[s].chat = NoChat
  /\ Judge(AcceptsContainer(s))
  /\ session' = [session EXCEPT ![s].chat = s]
  /\ UNCHANGED <<home, route, op, unseen>>

(* Mutant: the operation does not end. *)
BindContainerStaysBusy(c, s) ==
  /\ op = Settling(c, s)
  /\ session[s].chat = s
  /\ Judge(AcceptsHome(c, s))
  /\ home' = [home EXCEPT ![c] = s]
  /\ UNCHANGED <<session, route, op, unseen>>

BindContainer(c, s) ==
  /\ op = Settling(c, s)
  /\ session[s].chat = s
  /\ Judge(AcceptsHome(c, s))
  /\ home' = [home EXCEPT ![c] = s]
  /\ op' = Idle
  /\ UNCHANGED <<session, route, unseen>>

(* Mutant: the ids of retired sessions' endpoints are allocated again. *)
BindListedEndpoint(c) ==
  /\ op = Idle
  /\ home[c] # NoChat
  /\ session[Leaf(home[c])].endpoint = NoEndpoint
  /\ Judge(AcceptsEndpoint(Leaf(home[c]), NextListedEndpoint))
  /\ session' = [session EXCEPT ![Leaf(home[c])].endpoint = NextListedEndpoint]
  /\ UNCHANGED <<home, route, op, unseen>>

(* append_current_session_route_endpoint_checked *)
BindEndpoint(c) ==
  /\ op = Idle
  /\ home[c] # NoChat
  /\ session[Leaf(home[c])].endpoint = NoEndpoint
  /\ NextEndpoint \notin Endpoints
  /\ \A r \in DOMAIN route : NextEndpoint \notin {route[r].from, route[r].to}
  /\ Judge(AcceptsEndpoint(Leaf(home[c]), NextEndpoint))
  /\ session' = [session EXCEPT ![Leaf(home[c])].endpoint = NextEndpoint]
  /\ UNCHANGED <<home, route, op, unseen>>

(* Mutant: a saturated session recovers. *)
MoveSessionEitherWay(s, phase) ==
  /\ op = Idle
  /\ session[s].chat # NoChat
  /\ s = Leaf(session[s].chat)
  /\ phase \in {"Healthy", "Aging", "Saturated"} \ {session[s].phase}
  /\ session' = [session EXCEPT ![s].phase = phase]
  /\ UNCHANGED <<home, route, op, unseen, replays>>

(* record_chat_session_lifecycle_transition, for a transition the audit    *)
(* accepts.                                                                *)
MoveSession(s, phase) ==
  /\ op = Idle
  /\ AcceptsMove(s, phase)
  /\ session' = [session EXCEPT ![s].phase = phase]
  /\ UNCHANGED <<home, route, op, unseen, replays>>

(* A session registered to succeed another. *)
RegisterSession ==
  /\ op = Idle
  /\ Len(session) < MaxSessions
  /\ session' = Append(session, Registered)
  /\ UNCHANGED <<home, route, op, unseen, replays>>

(* record_chat_session_successor_bound, for a binding the audit accepts:   *)
(* one event retires the current session and makes the other current.      *)
Succeed(k, s) ==
  /\ op = Idle
  /\ <<"session", s>> \notin unseen
  /\ AcceptsSuccessor(k, s)
  /\ session' = [session EXCEPT ![Leaf(k)].phase = "Retired", ![s].chat = k]
  /\ UNCHANGED <<home, route, op, unseen, replays>>

(***************************************************************************)
(* Routes.                                                                 *)
(***************************************************************************)

(* append_local_session_route_proposal_checked *)
Propose(a, b) ==
  /\ op = Idle
  /\ Len(route) < MaxRoutes
  /\ a # b
  /\ Listed(a) /\ Listed(b) /\ Ready(a) /\ Ready(b)
  /\ route' = Append(route,
       [from |-> session[Leaf(home[a])].endpoint,
        to |-> session[Leaf(home[b])].endpoint,
        payload |-> NoPayload, decision |-> "Pending", stage |-> "proposed",
        ends |-> Nowhere, context |-> "Pending"])
  /\ UNCHANGED <<session, home, op, unseen, replays>>

(* append_local_route_payload_checked *)
AttachPayload(r, a, b) ==
  /\ op = Idle
  /\ route[r].payload = NoPayload
  /\ ~Sent(r)
  /\ Between(r, a, b)
  /\ Judge(AcceptsPayload(r, a, b))
  /\ route' = [route EXCEPT ![r].payload = <<a, b>>]
  /\ UNCHANGED <<session, home, op, unseen>>

(* append_local_route_user_decision_checked: reversible until the dispatch *)
(* while both ends are fresh; there is nothing to allow before a payload.  *)
Decide(r, decision) ==
  /\ op = Idle
  /\ ~Sent(r)
  /\ route[r].decision # decision
  /\ decision = "Allow" => route[r].payload # NoPayload
  /\ Fresh(r)
  /\ Judge(AcceptsDecision(r))
  /\ route' = [route EXCEPT ![r].decision = decision]
  /\ UNCHANGED <<session, home, op, unseen>>

(* Mutant: the decision may have been taken back. *)
DispatchOnceAllowed(r) ==
  /\ op = Idle
  /\ ~Sent(r)
  /\ route[r].decision # "Pending"
  /\ AsWritten(r)
  /\ Judge(AcceptsDispatch(r))
  /\ route' = [route EXCEPT ![r].stage = "dispatched"]
  /\ op' = Sending(r)
  /\ UNCHANGED <<session, home, unseen>>

(* append_local_route_dispatch_and_delivery_checked appends the dispatch,  *)
(* when the route has not dispatched yet, and then the delivery.           *)
Dispatch(r) ==
  /\ op = Idle
  /\ ~Sent(r)
  /\ route[r].decision = "Allow"
  /\ AsWritten(r)
  /\ Judge(AcceptsDispatch(r))
  /\ route' = [route EXCEPT ![r].stage = "dispatched"]
  /\ op' = Sending(r)
  /\ UNCHANGED <<session, home, unseen>>

(* Mutant: the sessions the two conversations began with. *)
RootEnds(r) == <<home[route[r].payload[1]], home[route[r].payload[2]]>>

(* The sessions a delivery names. *)
CurrentEnds(r) ==
  <<Leaf(home[route[r].payload[1]]), Leaf(home[route[r].payload[2]])>>

(* Mutant: asked for again, it delivers to whatever session is current. *)
DeliverToLeaf(r) ==
  /\ op \in {Idle, Sending(r)}
  /\ route[r].stage = "dispatched"
  /\ Judge(AcceptsDelivery(r, CurrentEnds(r)))
  /\ route' = [route EXCEPT ![r].stage = "delivered", ![r].ends = CurrentEnds(r)]
  /\ op' = Idle
  /\ UNCHANGED <<session, home, unseen>>

(* Asked for again after an interruption, it looks at both ends first, and *)
(* tells the window of the delivery only.                                  *)
Deliver(r) ==
  /\ op = Sending(r) \/ (op = Idle /\ AsWritten(r))
  /\ route[r].stage = "dispatched"
  /\ Judge(AcceptsDelivery(r, CurrentEnds(r)))
  /\ route' = [route EXCEPT ![r].stage = "delivered", ![r].ends = CurrentEnds(r)]
  /\ op' = Idle
  /\ UNCHANGED <<session, home, unseen>>

(* append_local_route_context_decision_checked, from the inbox the window  *)
(* shows of the conversation: admitting and excluding again are refused.   *)
DecideContext(r, c, decision) ==
  /\ op = Idle
  /\ InboxReadable
  /\ route[r].stage = "delivered"
  /\ c = route[r].payload[2]
  /\ route[r].context # decision
  /\ Judge(AcceptsContext(r, c))
  /\ route' = [route EXCEPT ![r].context = decision]
  /\ UNCHANGED <<session, home, op, unseen>>

(***************************************************************************)
(* Interruptions.                                                          *)
(***************************************************************************)

(* An append fails: what the operation appended before it stays, and the   *)
(* window is told of the failure alone.                                    *)
AppendFails ==
  /\ \/ \E c \in Conversation, s \in DOMAIN session :
          op = Settling(c, s) /\ unseen' = unseen \cup {<<"session", s>>}
     \/ \E r \in DOMAIN route :
          op = Sending(r) /\ unseen' = unseen \cup {<<"dispatch", r>>}
  /\ op' = Idle
  /\ UNCHANGED <<session, home, route, replays>>

(* The process is killed, or ends, and starts again: the window's copy is  *)
(* the journal.                                                            *)
Restart ==
  /\ op # Idle \/ unseen # {}
  /\ op' = Idle
  /\ unseen' = {}
  /\ UNCHANGED <<session, home, route, replays>>

TopologyStep(c) ==
  \/ RegisterRoot(c)
  \/ \E s \in DOMAIN session : CreateContainer(c, s) \/ BindContainer(c, s)
  \/ BindEndpoint(c)

SessionStep(s) ==
  \/ \E phase \in Phase : MoveSession(s, phase)
  \/ \E k \in DOMAIN session : Succeed(k, s)

RouteStep(r) ==
  \/ \E a, b \in Conversation : AttachPayload(r, a, b)
  \/ \E decision \in {"Allow", "Deny"} : Decide(r, decision)
  \/ Dispatch(r) \/ Deliver(r)
  \/ \E c \in Conversation, decision \in ContextDecision :
       DecideContext(r, c, decision)

Next ==
  \/ \E c \in Conversation : TopologyStep(c)
  \/ \E s \in DOMAIN session : SessionStep(s)
  \/ RegisterSession
  \/ \E a, b \in Conversation : Propose(a, b)
  \/ \E r \in DOMAIN route : RouteStep(r)
  \/ AppendFails
  \/ Restart

Spec == Init /\ [][Next]_vars
-----------------------------------------------------------------------------
Route == [from : Session, to : Session,
          payload : {NoPayload} \cup (Conversation \X Conversation),
          decision : Decision, stage : Stage,
          ends : {Nowhere} \cup (Session \X Session),
          context : ContextDecision \cup {"Pending"}]

(* The operation under way is where the journal says it is. *)
OpInStep ==
  \/ op = Idle
  \/ \E c \in Conversation, s \in DOMAIN session :
       op = Settling(c, s) /\ home[c] = NoChat /\ session[s].chat \in {NoChat, s}
  \/ \E r \in DOMAIN route :
       op = Sending(r) /\ route[r].stage = "dispatched" /\ AsWritten(r)

(* The type invariant: the projections the replays build. *)
TypeOK ==
  /\ session \in Seq([chat : 0..MaxSessions, phase : Phase, endpoint : 0..MaxSessions])
  /\ Len(session) <= MaxSessions
  /\ home \in [Conversation -> 0..MaxSessions]
  /\ route \in Seq(Route) /\ Len(route) <= MaxRoutes
  /\ unseen \subseteq {"session", "dispatch"} \X Nat
  /\ replays \in BOOLEAN
  /\ OpInStep

(* Every event any sequence of operations appends, however they are        *)
(* interrupted and whatever becomes of the sessions meanwhile, is accepted *)
(* by the audits that replay the journal.                                  *)
JournalReplays == replays

(* An address never means two things: an endpoint is one session's for     *)
(* good, also after the session has been succeeded; a container is one     *)
(* conversation's, and has one current session.                            *)
AddressesUnique ==
  /\ \A s, t \in DOMAIN session :
       session[s].endpoint = session[t].endpoint /\ session[s].endpoint # NoEndpoint
         => s = t
  /\ \A c, d \in Conversation : home[c] = home[d] /\ home[c] # NoChat => c = d
  /\ \A s \in DOMAIN session : session[s].chat # NoChat =>
       \E t \in Members(session[s].chat) :
         { u \in Members(session[s].chat) : session[u].phase # "Retired" } = {t}

(* What arrives, arrives where it was sent: at the session whose endpoint  *)
(* the user chose when the route was proposed, in the conversation the     *)
(* payload was written to, however many sessions have come and gone.       *)
ArrivesAsAddressed ==
  \A r \in DOMAIN route : route[r].stage = "delivered" =>
    /\ session[route[r].ends[1]].endpoint = route[r].from
    /\ session[route[r].ends[2]].endpoint = route[r].to
    /\ session[route[r].ends[1]].chat = home[route[r].payload[1]]
    /\ session[route[r].ends[2]].chat = home[route[r].payload[2]]

(* A route one of whose ends was succeeded, or takes no ordinary turns any *)
(* more, is over: its ends do not become fresh again, and no payload,      *)
(* decision, dispatch or delivery is recorded for it later.                *)
StaleIsFinal ==
  [][\A r \in DOMAIN route : ~Fresh(r) =>
       /\ ~Fresh(r)'
       /\ route'[r] = [route[r] EXCEPT !.context = route'[r].context]]_vars

(* Seen from outside: the letters written, allowed, sent, received, and    *)
(* shown to a model.                                                       *)
Letter(r) == [name |-> r, from |-> route[r].payload[1], to |-> route[r].payload[2]]

Promise == INSTANCE Mailboxes WITH
  Name <- 1..MaxRoutes,
  letter <- { Letter(r) : r \in { q \in DOMAIN route : route[q].payload # NoPayload } },
  allowed <- { r \in DOMAIN route : route[r].decision = "Allow" },
  sent <- { r \in DOMAIN route : Sent(r) },
  arrived <- { r \in DOMAIN route : route[r].stage = "delivered" },
  admitted <- { r \in DOMAIN route : route[r].context = "Admit" }

(* Routing keeps its promise: a letter leaves only when the user allows it *)
(* and arrives once, unchanged; a model sees only what arrived and the     *)
(* user admits.                                                            *)
KeepsPromise == Promise!Spec

(* What was delivered is in the inbox the window shows.                    *)
DeliveredIsReadable == op = Idle => InboxReadable
=============================================================================
