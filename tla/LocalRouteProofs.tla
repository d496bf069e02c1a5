-------------------------- MODULE LocalRouteProofs --------------------------
(***************************************************************************)
(* Proofs about LocalRoute, for every set of conversations and every bound *)
(* on sessions and routes.  The inductive invariant says how sessions,     *)
(* containers, conversations and endpoints hang together, and what a route *)
(* knows of them.                                                          *)
(*                                                                         *)
(* The second part is about Coordination, the other way local              *)
(* conversations write to each other: its own inductive invariant says who *)
(* has claimed which directive, and who may still be asked for it.         *)
(***************************************************************************)
EXTENDS LocalRoute, WorkspacePromises, FiniteSetTheorems, SequenceTheorems,
        WellFoundedInduction, TLAPS

(* A session outside every container is as it was registered; a container  *)
(* is one its root session is in.                                          *)
SessionInv ==
  \A s \in DOMAIN session :
    /\ session[s].chat = NoChat => session[s].phase = "Healthy" /\ session[s].endpoint = NoEndpoint
    /\ session[s].chat # NoChat =>
         session[s].chat \in DOMAIN session /\ session[session[s].chat].chat = session[s].chat

(* A conversation's container exists, and is not the one being settled; an *)
(* endpoint is that of a session in some conversation's container.         *)
HomeInv ==
  /\ \A c \in Conversation : home[c] # NoChat => Members(home[c]) # {}
  /\ \A s \in DOMAIN session : session[s].endpoint # NoEndpoint =>
       \E c \in Conversation : home[c] = session[s].chat
  /\ \A c, d \in Conversation : \A s \in DOMAIN session : op = Settling(c, s) => home[d] # s

(* Endpoints are numbered without a gap. *)
EndpointInv ==
  \A s \in DOMAIN session : \A e \in 1..session[s].endpoint :
    \E t \in DOMAIN session : session[t].endpoint = e

(* A route is between endpoints; what was allowed, or has left, was        *)
(* written; and what was written was written between settled conversations. *)
RouteInv ==
  \A r \in DOMAIN route :
    /\ \E s \in DOMAIN session : session[s].endpoint = route[r].from
    /\ \E s \in DOMAIN session : session[s].endpoint = route[r].to
    /\ route[r].from # NoEndpoint /\ route[r].to # NoEndpoint
    /\ route[r].decision = "Allow" \/ Sent(r) => route[r].payload # NoPayload
    /\ route[r].payload # NoPayload =>
         home[route[r].payload[1]] # NoChat /\ home[route[r].payload[2]] # NoChat
    /\ route[r].stage = "delivered" =>
         route[r].ends[1] \in DOMAIN session /\ route[r].ends[2] \in DOMAIN session

IInv ==
  /\ TypeOK
  /\ SessionInv
  /\ AddressesUnique
  /\ HomeInv
  /\ EndpointInv
  /\ RouteInv
  /\ ArrivesAsAddressed
  /\ JournalReplays

-----------------------------------------------------------------------------
SessionType == [chat : 0..MaxSessions, phase : Phase, endpoint : 0..MaxSessions]

(* Sequences. *)
LEMMA Updated ==
  ASSUME NEW S, NEW q \in Seq(S), NEW i \in DOMAIN q, NEW e \in S
  PROVE  /\ [q EXCEPT ![i] = e] \in Seq(S)
         /\ Len([q EXCEPT ![i] = e]) = Len(q)
         /\ DOMAIN [q EXCEPT ![i] = e] = DOMAIN q
         /\ [q EXCEPT ![i] = e][i] = e
         /\ \A j \in DOMAIN q : j # i => [q EXCEPT ![i] = e][j] = q[j]
<1>1. i \in 1..Len(q) /\ DOMAIN q = 1..Len(q)
  BY LenProperties
<1>2. /\ [q EXCEPT ![i] = e] \in Seq(S)
      /\ Len([q EXCEPT ![i] = e]) = Len(q)
      /\ \A j \in 1..Len(q) : [q EXCEPT ![i] = e][j] = IF j = i THEN e ELSE q[j]
  BY <1>1, ExceptSeq
<1> QED BY <1>1, <1>2

LEMMA Extended ==
  ASSUME NEW S, NEW q \in Seq(S), NEW e \in S
  PROVE  /\ Append(q, e) \in Seq(S)
         /\ Len(Append(q, e)) = Len(q) + 1 /\ Len(q) \in Nat
         /\ DOMAIN q = 1..Len(q) /\ DOMAIN Append(q, e) = DOMAIN q \cup {Len(q) + 1}
         /\ Len(q) + 1 \notin DOMAIN q
         /\ \A j \in DOMAIN q : Append(q, e)[j] = q[j]
         /\ Append(q, e)[Len(q) + 1] = e
<1>1. /\ Append(q, e) \in Seq(S) /\ Len(Append(q, e)) = Len(q) + 1
      /\ \A j \in 1..Len(q) : Append(q, e)[j] = q[j]
      /\ Append(q, e)[Len(q) + 1] = e
  BY AppendProperties
<1>2. Len(q) \in Nat /\ DOMAIN q = 1..Len(q) /\ DOMAIN Append(q, e) = 1..(Len(q) + 1)
  BY <1>1, LenProperties
<1>3. 1..(Len(q) + 1) = 1..Len(q) \cup {Len(q) + 1}
  BY <1>2
<1> QED BY <1>1, <1>2, <1>3

(* A set of bounded numbers has a greatest. *)
LEMMA Greatest ==
  ASSUME NEW n \in Nat, NEW S \in SUBSET (0..n), S # {}
  PROVE  Max(S) \in S /\ \A y \in S : y <= Max(S)
<1> DEFINE T == { n - i : i \in S }
<1>0. \A i \in S : i \in 0..n /\ n - i \in Nat /\ n - i \in T
  OBVIOUS
<1>1. T \subseteq Nat /\ T # {}
  BY <1>0
<1>2. PICK x \in T : \A y \in T : ~(<<y, x>> \in OpToRel(<, Nat))
  BY <1>1, WFMin, NatLessThanWellFounded
<1>3. \A y \in T : ~(y < x)
  BY <1>1, <1>2 DEF OpToRel
<1>4. PICK i \in S : x = n - i
  OBVIOUS
<1>5. \A j \in S : i >= j
  <2> TAKE j \in S
  <2>1. ~(n - j < n - i)
    BY <1>0, <1>3, <1>4
  <2> HIDE DEF T
  <2> QED BY <1>0, <2>1
<1>6. Max(S) \in S /\ \A y \in S : Max(S) >= y
  BY <1>5 DEF Max
<1> QED BY <1>0, <1>6

LEMMA OpKinds ==
  /\ \A c, s : Settling(c, s) # Idle
  /\ \A r : Sending(r) # Idle
  /\ \A c, s : \A r : Settling(c, s) # Sending(r)
  /\ \A c, s : \A d, t : Settling(c, s) = Settling(d, t) => c = d /\ s = t
  /\ \A r, q : Sending(r) = Sending(q) => r = q
BY DEF Settling, Sending, Idle

-----------------------------------------------------------------------------
(* What the type invariant says of sessions, containers and routes. *)
LEMMA Typed ==
  ASSUME TypeOK
  PROVE  /\ session \in Seq(SessionType) /\ Len(session) <= MaxSessions
         /\ DOMAIN session = 1..Len(session) /\ Len(session) \in Nat
         /\ \A s \in DOMAIN session :
              /\ s \in Nat /\ s # 0 /\ s \in 1..MaxSessions
              /\ session[s] \in SessionType
              /\ session[s] = [chat |-> session[s].chat, phase |-> session[s].phase,
                               endpoint |-> session[s].endpoint]
              /\ session[s].chat \in 0..MaxSessions /\ session[s].phase \in Phase
              /\ session[s].endpoint \in 0..MaxSessions
<1>1. session \in Seq(SessionType) /\ Len(session) <= MaxSessions
  BY DEF TypeOK, SessionType
<1>2. DOMAIN session = 1..Len(session) /\ Len(session) \in Nat
  BY <1>1, LenProperties
<1>3. MaxSessions \in Nat
  BY LocalRouteAssumption
<1>4. \A s \in DOMAIN session : s \in Nat /\ s # 0 /\ s \in 1..MaxSessions
  BY <1>1, <1>2, <1>3
<1>5. \A s \in DOMAIN session : session[s] \in SessionType
  BY <1>1, <1>2
<1> QED BY <1>1, <1>2, <1>4, <1>5 DEF SessionType

LEMMA TypedRoutes ==
  ASSUME TypeOK
  PROVE  /\ route \in Seq(Route) /\ Len(route) <= MaxRoutes
         /\ DOMAIN route = 1..Len(route) /\ Len(route) \in Nat
         /\ \A r \in DOMAIN route :
              /\ r \in 1..MaxRoutes /\ route[r] \in Route
              /\ route[r] = [from |-> route[r].from, to |-> route[r].to, payload |-> route[r].payload,
                             decision |-> route[r].decision, stage |-> route[r].stage,
                             ends |-> route[r].ends, context |-> route[r].context]
              /\ route[r].payload # NoPayload =>
                   /\ route[r].payload \in Conversation \X Conversation
                   /\ route[r].payload[1] \in Conversation /\ route[r].payload[2] \in Conversation
                   /\ route[r].payload = <<route[r].payload[1], route[r].payload[2]>>
<1>1. route \in Seq(Route) /\ Len(route) <= MaxRoutes
  BY DEF TypeOK
<1>2. DOMAIN route = 1..Len(route) /\ Len(route) \in Nat
  BY <1>1, LenProperties
<1>3. MaxRoutes \in Nat
  BY LocalRouteAssumption
<1>4. \A r \in DOMAIN route : r \in 1..MaxRoutes /\ route[r] \in Route
  BY <1>1, <1>2, <1>3
<1>5. \A r \in DOMAIN route : route[r].payload # NoPayload => route[r].payload \in Conversation \X Conversation
  BY <1>4 DEF Route
<1>6. \A x \in Conversation \X Conversation :
        x[1] \in Conversation /\ x[2] \in Conversation /\ x = <<x[1], x[2]>>
  OBVIOUS
<1>7. \A r \in DOMAIN route :
        route[r] = [from |-> route[r].from, to |-> route[r].to, payload |-> route[r].payload,
                    decision |-> route[r].decision, stage |-> route[r].stage,
                    ends |-> route[r].ends, context |-> route[r].context]
  BY <1>4 DEF Route
<1> QED BY <1>1, <1>2, <1>4, <1>5, <1>6, <1>7

(* The current session of a container that has any. *)
LEMMA LeafFacts ==
  ASSUME TypeOK, AddressesUnique, NEW k, k # NoChat, Members(k) # {}
  PROVE  /\ Leaf(k) \in DOMAIN session /\ session[Leaf(k)].chat = k /\ session[Leaf(k)].phase # "Retired"
         /\ \A u \in DOMAIN session : session[u].chat = k /\ session[u].phase # "Retired" => u = Leaf(k)
<1>1. PICK s \in DOMAIN session : session[s].chat = k
  BY DEF Members
<1>2. PICK t \in Members(k) : { u \in Members(k) : session[u].phase # "Retired" } = {t}
  BY <1>1 DEF AddressesUnique
<1>3. \A u \in Members(k) : session[u].phase # "Retired" <=> u = t
  BY <1>2
<1>4. Leaf(k) \in Members(k) /\ session[Leaf(k)].phase # "Retired"
  BY <1>2, <1>3 DEF Leaf
<1> QED BY <1>3, <1>4 DEF Members

LEMMA HomeFacts ==
  ASSUME TypeOK, AddressesUnique, HomeInv, NEW c \in Conversation, home[c] # NoChat
  PROVE  /\ Leaf(home[c]) \in DOMAIN session /\ session[Leaf(home[c])].chat = home[c]
         /\ session[Leaf(home[c])].phase # "Retired"
         /\ \A u \in DOMAIN session : session[u].chat = home[c] /\ session[u].phase # "Retired" => u = Leaf(home[c])
BY LeafFacts DEF HomeInv

-----------------------------------------------------------------------------
(* The ids the window allocates. *)
LEMMA NextSessionFacts ==
  ASSUME TypeOK, NextSession \notin DOMAIN session
  PROVE  NextSession = Len(session) + 1
<1> DEFINE S == {0} \cup { s \in DOMAIN session : <<"session", s>> \notin unseen }
<1>1. DOMAIN session = 1..Len(session) /\ Len(session) \in Nat
  BY Typed
<1>2. S \in SUBSET (0..Len(session)) /\ S # {}
  BY <1>1
<1>3. Max(S) \in S
  BY <1>1, <1>2, Greatest
<1>4. NextSession = Max(S) + 1
  BY DEF NextSession
<1>5. Max(S) \in 0..Len(session)
  BY <1>2, <1>3
<1> HIDE DEF S
<1> QED BY <1>1, <1>4, <1>5

LEMMA NextEndpointFacts ==
  ASSUME TypeOK, EndpointInv, NEW l \in DOMAIN session, session[l].endpoint = NoEndpoint,
         NextEndpoint \notin Endpoints
  PROVE  /\ NextEndpoint \in 1..MaxSessions
         /\ \A e \in 1..NextEndpoint : e # NextEndpoint => \E t \in DOMAIN session : session[t].endpoint = e
         /\ \A t \in DOMAIN session : session[t].endpoint # NextEndpoint
<1> DEFINE S == {0} \cup Endpoints
           n == Max(S)
<1>1. DOMAIN session = 1..Len(session) /\ Len(session) \in Nat /\ Len(session) <= MaxSessions
      /\ MaxSessions \in Nat /\ \A s \in DOMAIN session : session[s].endpoint \in 0..MaxSessions
  BY Typed, LocalRouteAssumption
<1>2. S \in SUBSET (0..MaxSessions) /\ S # {}
  BY <1>1 DEF Endpoints
<1>3. n \in S
  BY <1>1, <1>2, Greatest
<1>4. n \in Nat /\ NextEndpoint = n + 1
  BY <1>2, <1>3 DEF NextEndpoint
<1>5. n = 0 \/ \E s \in DOMAIN session : session[s].endpoint = n
  BY <1>3 DEF Endpoints
<1> HIDE DEF S, n
<1>6. \A e \in 1..n : \E t \in DOMAIN session : session[t].endpoint = e
  BY <1>4, <1>5 DEF EndpointInv
<1> DEFINE T == DOMAIN session \ {l}
           f == [e \in 1..n |-> CHOOSE t \in T : session[t].endpoint = e]
<1>7. \A e \in 1..n : f[e] \in T /\ session[f[e]].endpoint = e
  <2> TAKE e \in 1..n
  <2>1. e # NoEndpoint
    BY <1>4 DEF NoEndpoint
  <2>2. \E t \in T : session[t].endpoint = e
    BY <1>6, <2>1
  <2> QED BY <2>2
<1>8. IsFiniteSet(T) /\ Cardinality(T) = Len(session) - 1 /\ IsFiniteSet(1..n) /\ Cardinality(1..n) = n
  <2>1. IsFiniteSet(1..Len(session)) /\ Cardinality(1..Len(session)) = Len(session)
    <3>1. \A m \in Nat : IsFiniteSet(1..m) /\ Cardinality(1..m) = m
      BY FS_Interval
    <3> QED BY <1>1, <3>1
  <2>2. IsFiniteSet(1..n) /\ Cardinality(1..n) = n
    BY <1>4, FS_Interval
  <2> QED BY <1>1, <2>1, <2>2, FS_RemoveElement
<1>9. ~(Len(session) - 1 < n)
  <2> SUFFICES ASSUME Len(session) - 1 < n PROVE FALSE
    OBVIOUS
  <2>1. f \in [1..n -> T]
    BY <1>7
  <2> HIDE DEF f, T
  <2>2. \E x, y \in 1..n : x # y /\ f[x] = f[y]
    BY <1>8, <2>1, FS_PigeonHole
  <2> QED BY <1>7, <2>2
<1>10. NextEndpoint \in 1..MaxSessions
  BY <1>1, <1>4, <1>9
<1>11. \A e \in 1..NextEndpoint : e # NextEndpoint => e \in 1..n
  BY <1>4
<1> QED BY <1>6, <1>10, <1>11 DEF Endpoints

-----------------------------------------------------------------------------
(* What the operations do to the sessions, record by record. *)
Becomes(s, chat, phase, endpoint) ==
  /\ s \in DOMAIN session
  /\ session' \in Seq(SessionType) /\ Len(session') = Len(session) /\ DOMAIN session' = DOMAIN session
  /\ session'[s] = [chat |-> chat, phase |-> phase, endpoint |-> endpoint]
  /\ \A t \in DOMAIN session : t # s => session'[t] = session[t]

LEMMA Becoming ==
  ASSUME TypeOK, NEW s \in DOMAIN session, NEW x
  PROVE  /\ x \in 0..MaxSessions /\ session' = [session EXCEPT ![s].chat = x]
              => Becomes(s, x, session[s].phase, session[s].endpoint)
         /\ x \in Phase /\ session' = [session EXCEPT ![s].phase = x]
              => Becomes(s, session[s].chat, x, session[s].endpoint)
         /\ x \in 0..MaxSessions /\ session' = [session EXCEPT ![s].endpoint = x]
              => Becomes(s, session[s].chat, session[s].phase, x)
<1>1. /\ session \in Seq(SessionType) /\ session[s] \in SessionType
      /\ session[s] = [chat |-> session[s].chat, phase |-> session[s].phase, endpoint |-> session[s].endpoint]
  BY Typed
<1>2. ASSUME NEW e \in SessionType, session' = [session EXCEPT ![s] = e]
      PROVE  Becomes(s, e.chat, e.phase, e.endpoint)
  <2>1. e = [chat |-> e.chat, phase |-> e.phase, endpoint |-> e.endpoint]
    BY DEF SessionType
  <2> QED BY <1>1, <1>2, <2>1, Updated DEF Becomes
<1>3. ASSUME x \in 0..MaxSessions, session' = [session EXCEPT ![s].chat = x]
      PROVE  Becomes(s, x, session[s].phase, session[s].endpoint)
  <2> DEFINE e == [chat |-> x, phase |-> session[s].phase, endpoint |-> session[s].endpoint]
  <2>1. [session[s] EXCEPT !.chat = x] = e
    BY <1>1
  <2>2. session' = [session EXCEPT ![s] = e] /\ e \in SessionType
    BY <1>1, <1>3, <2>1 DEF SessionType
  <2>3. e.chat = x /\ e.phase = session[s].phase /\ e.endpoint = session[s].endpoint
    OBVIOUS
  <2> HIDE DEF e
  <2> QED BY <1>2, <2>2, <2>3
<1>4. ASSUME x \in Phase, session' = [session EXCEPT ![s].phase = x]
      PROVE  Becomes(s, session[s].chat, x, session[s].endpoint)
  <2> DEFINE e == [chat |-> session[s].chat, phase |-> x, endpoint |-> session[s].endpoint]
  <2>1. [session[s] EXCEPT !.phase = x] = e
    BY <1>1
  <2>2. session' = [session EXCEPT ![s] = e] /\ e \in SessionType
    BY <1>1, <1>4, <2>1 DEF SessionType
  <2>3. e.chat = session[s].chat /\ e.phase = x /\ e.endpoint = session[s].endpoint
    OBVIOUS
  <2> HIDE DEF e
  <2> QED BY <1>2, <2>2, <2>3
<1>5. ASSUME x \in 0..MaxSessions, session' = [session EXCEPT ![s].endpoint = x]
      PROVE  Becomes(s, session[s].chat, session[s].phase, x)
  <2> DEFINE e == [chat |-> session[s].chat, phase |-> session[s].phase, endpoint |-> x]
  <2>1. [session[s] EXCEPT !.endpoint = x] = e
    BY <1>1
  <2>2. session' = [session EXCEPT ![s] = e] /\ e \in SessionType
    BY <1>1, <1>5, <2>1 DEF SessionType
  <2>3. e.chat = session[s].chat /\ e.phase = session[s].phase /\ e.endpoint = x
    OBVIOUS
  <2> HIDE DEF e
  <2> QED BY <1>2, <2>2, <2>3
<1> QED BY <1>3, <1>4, <1>5

Grown ==
  /\ Len(session) < MaxSessions
  /\ session' \in Seq(SessionType) /\ Len(session') = Len(session) + 1
  /\ DOMAIN session' = DOMAIN session \cup {Len(session) + 1} /\ Len(session) + 1 \notin DOMAIN session
  /\ \A t \in DOMAIN session : session'[t] = session[t]
  /\ session'[Len(session) + 1] = Registered

LEMMA Growing ==
  ASSUME TypeOK, Len(session) < MaxSessions, session' = Append(session, Registered)
  PROVE  Grown
<1>1. Registered \in SessionType
  BY LocalRouteAssumption DEF Registered, SessionType, NoChat, NoEndpoint, Phase
<1> QED BY <1>1, Typed, Extended DEF Grown

(* How a step changes sessions and containers. *)
Settled(c, s) ==
  /\ op = Settling(c, s) /\ s \in DOMAIN session /\ session[s].chat = NoChat
  /\ Becomes(s, s, session[s].phase, session[s].endpoint)
  /\ UNCHANGED <<home, route, op>>

Claimed(c, s) ==
  /\ op = Settling(c, s) /\ s \in DOMAIN session /\ session[s].chat = s
  /\ home' = [home EXCEPT ![c] = s]
  /\ op' = Idle /\ UNCHANGED <<session, route>>

Addressed(c, e) ==
  /\ op = Idle /\ home[c] # NoChat /\ session[Leaf(home[c])].endpoint = NoEndpoint
  /\ e \in 1..MaxSessions
  /\ \A d \in 1..e : d # e => \E t \in DOMAIN session : session[t].endpoint = d
  /\ \A t \in DOMAIN session : session[t].endpoint # e
  /\ Becomes(Leaf(home[c]), session[Leaf(home[c])].chat, session[Leaf(home[c])].phase, e)
  /\ UNCHANGED <<home, route, op>>

Moved(s, phase) ==
  /\ op = Idle /\ AcceptsMove(s, phase) /\ phase \in Phase
  /\ Becomes(s, session[s].chat, phase, session[s].endpoint)
  /\ UNCHANGED <<home, route, op>>

Succeeded(k, s, l) ==
  /\ op = Idle /\ k # NoChat /\ s \in DOMAIN session /\ session[s].chat = NoChat
  /\ l = Leaf(k) /\ l \in DOMAIN session /\ l # s /\ session[l].chat = k /\ session[l].phase = "Saturated"
  /\ \A u \in DOMAIN session : session[u].chat = k /\ session[u].phase # "Retired" => u = l
  /\ session' \in Seq(SessionType) /\ Len(session') = Len(session) /\ DOMAIN session' = DOMAIN session
  /\ session'[l] = [chat |-> k, phase |-> "Retired", endpoint |-> session[l].endpoint]
  /\ session'[s] = [chat |-> k, phase |-> session[s].phase, endpoint |-> session[s].endpoint]
  /\ \A t \in DOMAIN session : t # s /\ t # l => session'[t] = session[t]
  /\ UNCHANGED <<home, route, op>>

PlaceMove ==
  \/ UNCHANGED <<session, home>>
  \/ Grown /\ UNCHANGED <<home, route>> /\ op = Idle
  \/ \E c \in Conversation, s \in DOMAIN session : Settled(c, s) \/ Claimed(c, s)
  \/ \E c \in Conversation : \E e : Addressed(c, e)
  \/ \E s \in DOMAIN session : \E phase \in Phase : Moved(s, phase)
  \/ \E k, s, l \in DOMAIN session : Succeeded(k, s, l)

LEMMA SettledStep ==
  ASSUME TypeOK, NEW c \in Conversation, NEW s \in DOMAIN session, CreateContainer(c, s)
  PROVE  Settled(c, s)
<1>1. s \in 0..MaxSessions
  BY Typed
<1>2. session' = [session EXCEPT ![s].chat = s]
  BY DEF CreateContainer
<1>3. Becomes(s, s, session[s].phase, session[s].endpoint)
  BY <1>1, <1>2, Becoming
<1> QED BY <1>3 DEF CreateContainer, Settled

LEMMA AddressedStep ==
  ASSUME TypeOK, AddressesUnique, HomeInv, EndpointInv, NEW c \in Conversation, BindEndpoint(c)
  PROVE  Addressed(c, NextEndpoint)
<1> DEFINE l == Leaf(home[c])
<1>1. l \in DOMAIN session /\ session[l].endpoint = NoEndpoint /\ NextEndpoint \notin Endpoints
  BY HomeFacts DEF BindEndpoint
<1>2. /\ NextEndpoint \in 1..MaxSessions
      /\ \A e \in 1..NextEndpoint : e # NextEndpoint => \E t \in DOMAIN session : session[t].endpoint = e
      /\ \A t \in DOMAIN session : session[t].endpoint # NextEndpoint
  BY <1>1, NextEndpointFacts
<1>3. NextEndpoint \in 0..MaxSessions
  BY <1>2, LocalRouteAssumption
<1>4. session' = [session EXCEPT ![l].endpoint = NextEndpoint]
  BY DEF BindEndpoint
<1>5. Becomes(l, session[l].chat, session[l].phase, NextEndpoint)
  <2> HIDE DEF l
  <2> QED BY <1>1, <1>3, <1>4, Becoming
<1> QED BY <1>2, <1>5 DEF BindEndpoint, Addressed

LEMMA MovedStep ==
  ASSUME TypeOK, NEW s \in DOMAIN session, NEW phase \in Phase, MoveSession(s, phase)
  PROVE  Moved(s, phase)
<1>1. session' = [session EXCEPT ![s].phase = phase]
  BY DEF MoveSession
<1>2. Becomes(s, session[s].chat, phase, session[s].endpoint)
  BY <1>1, Becoming
<1> QED BY <1>2 DEF MoveSession, Moved

LEMMA SucceededStep ==
  ASSUME TypeOK, AddressesUnique, NEW k \in DOMAIN session, NEW s \in DOMAIN session, Succeed(k, s)
  PROVE  \E l \in DOMAIN session : Succeeded(k, s, l)
<1> DEFINE l == Leaf(k)
<1>1. k # NoChat /\ k \in 0..MaxSessions
  BY Typed DEF NoChat
<1>2. /\ l \in DOMAIN session /\ session[l].chat = k /\ session[l].phase = "Saturated"
      /\ s \in DOMAIN session /\ session[s].chat = NoChat
      /\ \A u \in DOMAIN session : session[u].chat = k /\ session[u].phase # "Retired" => u = l
  BY <1>1, LeafFacts DEF Succeed, AcceptsSuccessor
<1>3. session' = [session EXCEPT ![l].phase = "Retired", ![s].chat = k]
  BY DEF Succeed
<1>4. op = Idle /\ UNCHANGED <<home, route, op>>
  BY DEF Succeed
<1> HIDE DEF l
<1> DEFINE a == [chat |-> k, phase |-> "Retired", endpoint |-> session[l].endpoint]
           b == [chat |-> k, phase |-> session[s].phase, endpoint |-> session[s].endpoint]
           m == [session EXCEPT ![l] = a]
<1>5. /\ session \in Seq(SessionType) /\ l # s
      /\ session[l] = [chat |-> k, phase |-> session[l].phase, endpoint |-> session[l].endpoint]
      /\ session[s] = [chat |-> session[s].chat, phase |-> session[s].phase, endpoint |-> session[s].endpoint]
      /\ session[l].endpoint \in 0..MaxSessions /\ session[s].endpoint \in 0..MaxSessions
      /\ session[s].phase \in Phase
  BY <1>1, <1>2, Typed
<1>6. a \in SessionType /\ b \in SessionType
  BY <1>1, <1>5 DEF SessionType, Phase
<1>7. /\ m \in Seq(SessionType) /\ Len(m) = Len(session) /\ DOMAIN m = DOMAIN session
      /\ m[l] = a /\ \A t \in DOMAIN session : t # l => m[t] = session[t]
  <2> HIDE DEF a
  <2> QED BY <1>2, <1>5, <1>6, Updated
<1>8. [session EXCEPT ![l].phase = "Retired"] = m
  <2>1. [session[l] EXCEPT !.phase = "Retired"] = a
    BY <1>5
  <2> QED BY <2>1
<1> DEFINE first == [session EXCEPT ![l].phase = "Retired"]
<1>9. session' = [first EXCEPT ![s].chat = k]
  BY <1>3, Zenon
<1>10. first = m
  BY <1>8
<1> HIDE DEF first, m
<1>11. session' = [m EXCEPT ![s] = [m[s] EXCEPT !.chat = k]]
  BY <1>9, <1>10
<1>12. m[s] = session[s]
  BY <1>2, <1>5, <1>7
<1>13. [m[s] EXCEPT !.chat = k] = b
  BY <1>5, <1>12
<1>14. /\ session' \in Seq(SessionType) /\ Len(session') = Len(session) /\ DOMAIN session' = DOMAIN session
       /\ session'[s] = b /\ \A t \in DOMAIN session : t # s => session'[t] = m[t]
  <2>1. session' = [m EXCEPT ![s] = b] /\ m \in Seq(SessionType) /\ s \in DOMAIN m
    BY <1>2, <1>7, <1>11, <1>13
  <2> HIDE DEF b
  <2>2. b \in SessionType
    BY <1>6
  <2>3. /\ session' \in Seq(SessionType) /\ Len(session') = Len(m) /\ DOMAIN session' = DOMAIN m
        /\ session'[s] = b /\ \A t \in DOMAIN m : t # s => session'[t] = m[t]
    BY <2>1, <2>2, Updated
  <2> QED BY <1>7, <2>3
<1>15. session'[l] = a /\ \A t \in DOMAIN session : t # s /\ t # l => session'[t] = session[t]
  BY <1>2, <1>5, <1>7, <1>14
<1>16. Succeeded(k, s, l)
  BY <1>1, <1>2, <1>4, <1>5, <1>14, <1>15 DEF Succeeded, l
<1> QED BY <1>2, <1>16

LEMMA PlaceStep ==
  ASSUME TypeOK, AddressesUnique, HomeInv, EndpointInv, [Next]_vars
  PROVE  PlaceMove
<1>1. CASE \E c \in Conversation : TopologyStep(c)
  <2>1. PICK c \in Conversation : TopologyStep(c)
    BY <1>1
  <2>2. CASE RegisterRoot(c)
    <3>1. Len(session) < MaxSessions /\ session' = Append(session, Registered)
      <4>1. NextSession = Len(session) + 1 /\ Len(session) \in Nat
        BY <2>2, NextSessionFacts, Typed DEF RegisterRoot
      <4> QED BY <2>2, <4>1, LocalRouteAssumption DEF RegisterRoot
    <3>2. Grown
      BY <3>1, Growing
    <3> QED BY <2>2, <3>2 DEF RegisterRoot, PlaceMove
  <2>3. CASE \E s \in DOMAIN session : CreateContainer(c, s)
    BY <2>3, SettledStep DEF PlaceMove
  <2>4. CASE \E s \in DOMAIN session : BindContainer(c, s)
    BY <2>4 DEF BindContainer, Claimed, PlaceMove
  <2>5. CASE BindEndpoint(c)
    BY <2>5, AddressedStep DEF PlaceMove
  <2> QED BY <2>1, <2>2, <2>3, <2>4, <2>5 DEF TopologyStep
<1>2. CASE \E s \in DOMAIN session : SessionStep(s)
  BY <1>2, MovedStep, SucceededStep DEF SessionStep, PlaceMove
<1>3. CASE RegisterSession
  <2>1. Grown
    BY <1>3, Growing DEF RegisterSession
  <2> QED BY <1>3, <2>1 DEF RegisterSession, PlaceMove
<1>4. CASE \E a, b \in Conversation : Propose(a, b)
  BY <1>4 DEF Propose, PlaceMove
<1>5. CASE \E r \in DOMAIN route : RouteStep(r)
  BY <1>5 DEF RouteStep, AttachPayload, Decide, Dispatch, Deliver, DecideContext, PlaceMove
<1>6. CASE AppendFails \/ Restart \/ UNCHANGED vars
  BY <1>6 DEF AppendFails, Restart, vars, PlaceMove
<1> QED BY <1>1, <1>2, <1>3, <1>4, <1>5, <1>6 DEF Next

-----------------------------------------------------------------------------
(* Every container has one current session, said without its members. *)
OneLeaf ==
  \A s \in DOMAIN session : session[s].chat # NoChat =>
    \E t \in DOMAIN session :
      /\ session[t].chat = session[s].chat /\ session[t].phase # "Retired"
      /\ \A u \in DOMAIN session : session[u].chat = session[s].chat /\ session[u].phase # "Retired" => u = t

EndpointsUnique ==
  \A s, t \in DOMAIN session :
    session[s].endpoint = session[t].endpoint /\ session[s].endpoint # NoEndpoint => s = t

HomesUnique == \A c, d \in Conversation : home[c] = home[d] /\ home[c] # NoChat => c = d

LEMMA UniqueParts ==
  /\ AddressesUnique <=> EndpointsUnique /\ HomesUnique /\ OneLeaf
  /\ AddressesUnique' <=> EndpointsUnique' /\ HomesUnique' /\ OneLeaf'
<1>1. OneLeaf <=> \A s \in DOMAIN session : session[s].chat # NoChat =>
                   \E t \in Members(session[s].chat) :
                     { u \in Members(session[s].chat) : session[u].phase # "Retired" } = {t}
  BY DEF OneLeaf, Members
<1>2. OneLeaf' <=> \A s \in DOMAIN session' : session'[s].chat # NoChat =>
                   \E t \in Members(session[s].chat)' :
                     { u \in Members(session[s].chat)' : session'[u].phase # "Retired" } = {t}
  BY DEF OneLeaf, Members
<1>3. AddressesUnique <=> /\ EndpointsUnique /\ HomesUnique
                          /\ \A s \in DOMAIN session : session[s].chat # NoChat =>
                               \E t \in Members(session[s].chat) :
                                 { u \in Members(session[s].chat) : session[u].phase # "Retired" } = {t}
  BY DEF AddressesUnique, EndpointsUnique, HomesUnique
<1>4. AddressesUnique' <=> /\ EndpointsUnique' /\ HomesUnique'
                           /\ \A s \in DOMAIN session' : session'[s].chat # NoChat =>
                                \E t \in Members(session[s].chat)' :
                                  { u \in Members(session[s].chat)' : session'[u].phase # "Retired" } = {t}
  BY DEF AddressesUnique, EndpointsUnique, HomesUnique
<1> QED BY <1>1, <1>2, <1>3, <1>4

(* What holds of sessions and containers. *)
PlaceInv ==
  /\ SessionInv /\ EndpointsUnique /\ HomesUnique /\ OneLeaf /\ EndpointInv
  /\ \A c \in Conversation : home[c] # NoChat => \E s \in DOMAIN session : session[s].chat = home[c]
  /\ \A s \in DOMAIN session : session[s].endpoint # NoEndpoint =>
       \E c \in Conversation : home[c] = session[s].chat

LEMMA PlaceParts ==
  ASSUME SessionInv, AddressesUnique, HomeInv, EndpointInv
  PROVE  PlaceInv
BY UniqueParts DEF PlaceInv, HomeInv, Members

LEMMA GrownKeeps ==
  ASSUME TypeOK, PlaceInv, Grown, home' = home
  PROVE  PlaceInv'
<1> DEFINE n == Len(session) + 1
<1>1. /\ DOMAIN session' = DOMAIN session \cup {n} /\ n \notin DOMAIN session
      /\ \A t \in DOMAIN session : session'[t] = session[t]
      /\ session'[n].chat = NoChat /\ session'[n].phase = "Healthy" /\ session'[n].endpoint = NoEndpoint
  BY DEF Grown, Registered
<1> HIDE DEF n
<1>2. SessionInv'
  BY <1>1 DEF PlaceInv, SessionInv
<1>3. EndpointsUnique' /\ HomesUnique'
  BY <1>1 DEF PlaceInv, EndpointsUnique, HomesUnique
<1>4. OneLeaf'
  <2> SUFFICES ASSUME NEW s \in DOMAIN session', session'[s].chat # NoChat
      PROVE  \E t \in DOMAIN session' :
               /\ session'[t].chat = session'[s].chat /\ session'[t].phase # "Retired"
               /\ \A u \in DOMAIN session' :
                    session'[u].chat = session'[s].chat /\ session'[u].phase # "Retired" => u = t
    BY DEF OneLeaf
  <2>1. s \in DOMAIN session /\ session[s].chat # NoChat
    BY <1>1
  <2>2. PICK t \in DOMAIN session :
          /\ session[t].chat = session[s].chat /\ session[t].phase # "Retired"
          /\ \A u \in DOMAIN session : session[u].chat = session[s].chat /\ session[u].phase # "Retired" => u = t
    BY <2>1 DEF PlaceInv, OneLeaf
  <2> QED BY <1>1, <2>1, <2>2
<1>5. EndpointInv'
  <2>1. \A s \in DOMAIN session' : \A e \in 1..session'[s].endpoint : s \in DOMAIN session
    BY <1>1 DEF NoEndpoint
  <2> QED BY <1>1, <2>1 DEF PlaceInv, EndpointInv
<1>6. /\ \A c \in Conversation : home'[c] # NoChat => \E s \in DOMAIN session' : session'[s].chat = home'[c]
      /\ \A s \in DOMAIN session' : session'[s].endpoint # NoEndpoint =>
           \E c \in Conversation : home'[c] = session'[s].chat
  BY <1>1 DEF PlaceInv
<1> QED BY <1>2, <1>3, <1>4, <1>5, <1>6 DEF PlaceInv

LEMMA SettledKeeps ==
  ASSUME TypeOK, PlaceInv, NEW c \in Conversation, NEW s \in DOMAIN session, Settled(c, s)
  PROVE  PlaceInv'
<1>1. /\ DOMAIN session' = DOMAIN session /\ session[s].chat = NoChat /\ home' = home
      /\ \A t \in DOMAIN session : t # s => session'[t] = session[t]
      /\ session'[s].chat = s /\ session'[s].phase = "Healthy" /\ session'[s].endpoint = NoEndpoint
      /\ session[s].endpoint = NoEndpoint /\ s # NoChat
  BY Typed DEF Settled, Becomes, PlaceInv, SessionInv, NoChat
<1>2. \A u \in DOMAIN session : session[u].chat # s
  BY <1>1 DEF PlaceInv, SessionInv
<1>3. SessionInv'
  BY <1>1 DEF PlaceInv, SessionInv
<1>4. EndpointsUnique' /\ HomesUnique'
  BY <1>1 DEF PlaceInv, EndpointsUnique, HomesUnique
<1>5. OneLeaf'
  <2> SUFFICES ASSUME NEW v \in DOMAIN session, session'[v].chat # NoChat
      PROVE  \E t \in DOMAIN session :
               /\ session'[t].chat = session'[v].chat /\ session'[t].phase # "Retired"
               /\ \A u \in DOMAIN session :
                    session'[u].chat = session'[v].chat /\ session'[u].phase # "Retired" => u = t
    BY <1>1 DEF OneLeaf
  <2>1. CASE v = s
    BY <1>1, <1>2, <2>1
  <2>2. CASE v # s
    <3>1. PICK t \in DOMAIN session :
            /\ session[t].chat = session[v].chat /\ session[t].phase # "Retired"
            /\ \A u \in DOMAIN session : session[u].chat = session[v].chat /\ session[u].phase # "Retired" => u = t
      BY <1>1, <2>2 DEF PlaceInv, OneLeaf
    <3>2. t # s /\ session'[v].chat # s
      BY <1>1, <1>2, <2>2, <3>1
    <3> QED BY <1>1, <2>2, <3>1, <3>2
  <2> QED BY <2>1, <2>2
<1>6. EndpointInv'
  <2>1. \A t \in DOMAIN session : session'[t].endpoint = session[t].endpoint
    BY <1>1
  <2> QED BY <1>1, <2>1 DEF PlaceInv, EndpointInv
<1>7. /\ \A d \in Conversation : home'[d] # NoChat => \E t \in DOMAIN session' : session'[t].chat = home'[d]
      /\ \A t \in DOMAIN session' : session'[t].endpoint # NoEndpoint =>
           \E d \in Conversation : home'[d] = session'[t].chat
  BY <1>1 DEF PlaceInv
<1> QED BY <1>3, <1>4, <1>5, <1>6, <1>7 DEF PlaceInv

LEMMA ClaimedKeeps ==
  ASSUME TypeOK, PlaceInv, HomeInv, NEW c \in Conversation, NEW s \in DOMAIN session, Claimed(c, s),
         home[c] = NoChat
  PROVE  PlaceInv'
<1>1. /\ session' = session /\ home \in [Conversation -> 0..MaxSessions]
      /\ home'[c] = s /\ \A d \in Conversation : d # c => home'[d] = home[d]
      /\ \A d \in Conversation : home[d] # s
      /\ session[s].chat = s
  BY DEF Claimed, TypeOK, HomeInv
<1>2. SessionInv' /\ EndpointsUnique' /\ OneLeaf' /\ EndpointInv'
  BY <1>1 DEF PlaceInv, SessionInv, EndpointsUnique, OneLeaf, EndpointInv
<1>3. HomesUnique'
  BY <1>1 DEF PlaceInv, HomesUnique
<1>4. /\ \A d \in Conversation : home'[d] # NoChat => \E t \in DOMAIN session' : session'[t].chat = home'[d]
      /\ \A t \in DOMAIN session' : session'[t].endpoint # NoEndpoint =>
           \E d \in Conversation : home'[d] = session'[t].chat
  <2>1. \A t \in DOMAIN session : session[t].endpoint # NoEndpoint => session[t].chat # NoChat
    BY DEF PlaceInv, SessionInv
  <2>2. \A d \in Conversation : home[d] # NoChat => home'[d] = home[d]
    BY <1>1
  <2> QED BY <1>1, <2>1, <2>2 DEF PlaceInv
<1> QED BY <1>2, <1>3, <1>4 DEF PlaceInv

LEMMA AddressedKeeps ==
  ASSUME TypeOK, PlaceInv, NEW c \in Conversation, NEW e, Addressed(c, e)
  PROVE  PlaceInv'
<1> DEFINE l == Leaf(home[c])
<1>1. /\ l \in DOMAIN session /\ DOMAIN session' = DOMAIN session /\ home' = home /\ session[l].chat = home[c]
      /\ \A t \in DOMAIN session :
           /\ session'[t].chat = session[t].chat /\ session'[t].phase = session[t].phase
           /\ t # l => session'[t].endpoint = session[t].endpoint
      /\ session'[l].endpoint = e /\ session[l].endpoint = NoEndpoint /\ home[c] # NoChat
      /\ e \in 1..MaxSessions /\ \A t \in DOMAIN session : session[t].endpoint # e
      /\ \A d \in 1..e : d # e => \E t \in DOMAIN session : session[t].endpoint = d
  <2>1. AddressesUnique
    BY UniqueParts DEF PlaceInv
  <2>2. Members(home[c]) # {} /\ home[c] # NoChat
    BY DEF PlaceInv, Members, Addressed
  <2>3. l \in DOMAIN session /\ session[l].chat = home[c]
    BY <2>1, <2>2, LeafFacts
  <2> HIDE DEF l
  <2> QED BY <2>3 DEF Addressed, Becomes, l
<1> HIDE DEF l
<1>2. SessionInv'
  BY <1>1 DEF PlaceInv, SessionInv
<1>3. EndpointsUnique' /\ HomesUnique' /\ OneLeaf'
  BY <1>1 DEF PlaceInv, EndpointsUnique, HomesUnique, OneLeaf
<1>4. EndpointInv'
  <2> SUFFICES ASSUME NEW s \in DOMAIN session, NEW d \in 1..session'[s].endpoint
      PROVE  \E t \in DOMAIN session : session'[t].endpoint = d
    BY <1>1 DEF EndpointInv
  <2>1. CASE s = l
    <3>1. d = e \/ \E t \in DOMAIN session : session[t].endpoint = d
      BY <1>1, <2>1
    <3>2. d # NoEndpoint
      BY <1>1, <2>1 DEF NoEndpoint
    <3> QED BY <1>1, <3>1, <3>2
  <2>2. CASE s # l
    <3>1. d \in 1..session[s].endpoint /\ session[s].endpoint \in 0..MaxSessions
      BY <1>1, <2>2, Typed
    <3>2. \E t \in DOMAIN session : session[t].endpoint = d
      BY <3>1 DEF PlaceInv, EndpointInv
    <3>3. d # NoEndpoint
      BY <3>1 DEF NoEndpoint
    <3> QED BY <1>1, <3>2, <3>3
  <2> QED BY <2>1, <2>2
<1>5. /\ \A d \in Conversation : home'[d] # NoChat => \E t \in DOMAIN session' : session'[t].chat = home'[d]
      /\ \A t \in DOMAIN session' : session'[t].endpoint # NoEndpoint =>
           \E d \in Conversation : home'[d] = session'[t].chat
  BY <1>1 DEF PlaceInv
<1> QED BY <1>2, <1>3, <1>4, <1>5 DEF PlaceInv

LEMMA MovedKeeps ==
  ASSUME TypeOK, PlaceInv, NEW s \in DOMAIN session, NEW phase \in Phase, Moved(s, phase)
  PROVE  PlaceInv'
<1>1. /\ DOMAIN session' = DOMAIN session /\ home' = home /\ session[s].chat # NoChat
      /\ \A t \in DOMAIN session :
           /\ session'[t].chat = session[t].chat /\ session'[t].endpoint = session[t].endpoint
           /\ session'[t].phase = "Retired" <=> session[t].phase = "Retired"
           /\ t # s => session'[t].phase = session[t].phase
  BY DEF Moved, AcceptsMove, Moves, Becomes
<1>2. SessionInv'
  BY <1>1 DEF PlaceInv, SessionInv
<1>3. EndpointsUnique' /\ HomesUnique' /\ EndpointInv'
  BY <1>1 DEF PlaceInv, EndpointsUnique, HomesUnique, EndpointInv
<1>4. OneLeaf'
  BY <1>1 DEF PlaceInv, OneLeaf
<1>5. /\ \A d \in Conversation : home'[d] # NoChat => \E t \in DOMAIN session' : session'[t].chat = home'[d]
      /\ \A t \in DOMAIN session' : session'[t].endpoint # NoEndpoint =>
           \E d \in Conversation : home'[d] = session'[t].chat
  BY <1>1 DEF PlaceInv
<1> QED BY <1>2, <1>3, <1>4, <1>5 DEF PlaceInv

LEMMA SucceededKeeps ==
  ASSUME TypeOK, PlaceInv, NEW k \in DOMAIN session, NEW s \in DOMAIN session, NEW l \in DOMAIN session,
         Succeeded(k, s, l)
  PROVE  PlaceInv'
<1>1. /\ DOMAIN session' = DOMAIN session /\ home' = home /\ k # NoChat /\ l # s
      /\ session[s].chat = NoChat /\ session[s].phase = "Healthy" /\ session[s].endpoint = NoEndpoint
      /\ session[l].chat = k /\ session'[l].chat = k /\ session'[l].phase = "Retired"
      /\ session'[s].chat = k /\ session'[s].phase = "Healthy"
      /\ \A t \in DOMAIN session :
           /\ session'[t].endpoint = session[t].endpoint
           /\ t # s => session'[t].chat = session[t].chat
           /\ t # s /\ t # l => session'[t].phase = session[t].phase
      /\ \A u \in DOMAIN session : session[u].chat = k /\ session[u].phase # "Retired" => u = l
  BY DEF Succeeded, PlaceInv, SessionInv
<1>2. SessionInv'
  BY <1>1 DEF PlaceInv, SessionInv
<1>3. EndpointsUnique' /\ HomesUnique' /\ EndpointInv'
  BY <1>1 DEF PlaceInv, EndpointsUnique, HomesUnique, EndpointInv
<1>4. OneLeaf'
  <2> SUFFICES ASSUME NEW v \in DOMAIN session, session'[v].chat # NoChat
      PROVE  \E t \in DOMAIN session :
               /\ session'[t].chat = session'[v].chat /\ session'[t].phase # "Retired"
               /\ \A u \in DOMAIN session :
                    session'[u].chat = session'[v].chat /\ session'[u].phase # "Retired" => u = t
    BY <1>1 DEF OneLeaf
  <2>1. CASE session'[v].chat = k
    BY <1>1, <2>1
  <2>2. CASE session'[v].chat # k
    <3>1. v # s /\ session[v].chat = session'[v].chat
      BY <1>1, <2>2
    <3>2. PICK t \in DOMAIN session :
            /\ session[t].chat = session[v].chat /\ session[t].phase # "Retired"
            /\ \A u \in DOMAIN session : session[u].chat = session[v].chat /\ session[u].phase # "Retired" => u = t
      BY <3>1 DEF PlaceInv, OneLeaf
    <3>3. t # s /\ t # l
      BY <1>1, <2>2, <3>1, <3>2
    <3> QED BY <1>1, <2>2, <3>1, <3>2, <3>3
  <2> QED BY <2>1, <2>2
<1>5. /\ \A d \in Conversation : home'[d] # NoChat => \E t \in DOMAIN session' : session'[t].chat = home'[d]
      /\ \A t \in DOMAIN session' : session'[t].endpoint # NoEndpoint =>
           \E d \in Conversation : home'[d] = session'[t].chat
  BY <1>1 DEF PlaceInv
<1> QED BY <1>2, <1>3, <1>4, <1>5 DEF PlaceInv

-----------------------------------------------------------------------------
(* What the operations do to the routes, record by record. *)
Changed(r, payload, decision, stage, ends, context) ==
  /\ r \in DOMAIN route
  /\ route' \in Seq(Route) /\ Len(route') = Len(route) /\ DOMAIN route' = DOMAIN route
  /\ route'[r] = [from |-> route[r].from, to |-> route[r].to, payload |-> payload, decision |-> decision,
                  stage |-> stage, ends |-> ends, context |-> context]
  /\ \A q \in DOMAIN route : q # r => route'[q] = route[q]
  /\ UNCHANGED <<session, home>>

Proposed(a, b) ==
  /\ a # b /\ Listed(a) /\ Listed(b) /\ op = Idle /\ UNCHANGED <<session, home, op>>
  /\ route' \in Seq(Route) /\ Len(route') = Len(route) + 1 /\ Len(route) < MaxRoutes
  /\ DOMAIN route' = DOMAIN route \cup {Len(route) + 1} /\ Len(route) + 1 \notin DOMAIN route
  /\ \A q \in DOMAIN route : route'[q] = route[q]
  /\ route'[Len(route) + 1] =
       [from |-> session[Leaf(home[a])].endpoint, to |-> session[Leaf(home[b])].endpoint,
        payload |-> NoPayload, decision |-> "Pending", stage |-> "proposed",
        ends |-> Nowhere, context |-> "Pending"]

Written(r, a, b) ==
  /\ op = Idle /\ route[r].payload = NoPayload /\ ~Sent(r) /\ Between(r, a, b) /\ op' = op
  /\ Changed(r, <<a, b>>, route[r].decision, route[r].stage, route[r].ends, route[r].context)

Decided(r, decision) ==
  /\ op = Idle /\ ~Sent(r) /\ route[r].decision # decision /\ Fresh(r) /\ op' = op
  /\ decision = "Allow" => route[r].payload # NoPayload
  /\ Changed(r, route[r].payload, decision, route[r].stage, route[r].ends, route[r].context)

Dispatched(r) ==
  /\ op = Idle /\ ~Sent(r) /\ route[r].decision = "Allow" /\ AsWritten(r) /\ op' = Sending(r)
  /\ Changed(r, route[r].payload, route[r].decision, "dispatched", route[r].ends, route[r].context)

Delivered(r) ==
  /\ op = Sending(r) \/ (op = Idle /\ AsWritten(r))
  /\ route[r].stage = "dispatched" /\ op' = Idle
  /\ Changed(r, route[r].payload, route[r].decision, "delivered", CurrentEnds(r), route[r].context)

Shown(r, decision) ==
  /\ op = Idle /\ route[r].stage = "delivered" /\ route[r].context # decision /\ op' = op
  /\ Changed(r, route[r].payload, route[r].decision, route[r].stage, route[r].ends, decision)

RouteMove ==
  \/ route' = route
  \/ \E a, b \in Conversation : Proposed(a, b)
  \/ \E r \in DOMAIN route, a, b \in Conversation : Written(r, a, b)
  \/ \E r \in DOMAIN route : \E decision \in {"Allow", "Deny"} : Decided(r, decision)
  \/ \E r \in DOMAIN route : Dispatched(r) \/ Delivered(r)
  \/ \E r \in DOMAIN route : \E decision \in ContextDecision : Shown(r, decision)

LEMMA Changing ==
  ASSUME TypeOK, NEW r \in DOMAIN route, NEW e \in Route, route' = [route EXCEPT ![r] = e],
         UNCHANGED <<session, home>>, e.from = route[r].from, e.to = route[r].to
  PROVE  Changed(r, e.payload, e.decision, e.stage, e.ends, e.context)
<1>1. e = [from |-> e.from, to |-> e.to, payload |-> e.payload, decision |-> e.decision,
           stage |-> e.stage, ends |-> e.ends, context |-> e.context]
  BY DEF Route
<1>2. route \in Seq(Route)
  BY TypedRoutes
<1>3. /\ route' \in Seq(Route) /\ Len(route') = Len(route) /\ DOMAIN route' = DOMAIN route
      /\ route'[r] = e /\ \A q \in DOMAIN route : q # r => route'[q] = route[q]
  BY <1>2, Updated
<1> QED BY <1>1, <1>3 DEF Changed

LEMMA WrittenStep ==
  ASSUME TypeOK, NEW r \in DOMAIN route, NEW a \in Conversation, NEW b \in Conversation, AttachPayload(r, a, b)
  PROVE  Written(r, a, b)
<1> DEFINE e == [route[r] EXCEPT !.payload = <<a, b>>]
<1>1. route[r] \in Route
  BY TypedRoutes
<1>2. e \in Route /\ e.payload = <<a, b>> /\ e.decision = route[r].decision /\ e.stage = route[r].stage
      /\ e.ends = route[r].ends /\ e.context = route[r].context /\ e.from = route[r].from /\ e.to = route[r].to
  BY <1>1 DEF Route
<1>3. route' = [route EXCEPT ![r] = e] /\ UNCHANGED <<session, home>>
  BY DEF AttachPayload
<1> HIDE DEF e
<1>4. Changed(r, e.payload, e.decision, e.stage, e.ends, e.context)
  BY <1>2, <1>3, Changing
<1> QED BY <1>2, <1>4 DEF AttachPayload, Written

LEMMA DecidedStep ==
  ASSUME TypeOK, NEW r \in DOMAIN route, NEW decision \in {"Allow", "Deny"}, Decide(r, decision)
  PROVE  Decided(r, decision)
<1> DEFINE e == [route[r] EXCEPT !.decision = decision]
<1>1. route[r] \in Route
  BY TypedRoutes
<1>2. e \in Route /\ e.decision = decision /\ e.payload = route[r].payload /\ e.stage = route[r].stage
      /\ e.ends = route[r].ends /\ e.context = route[r].context /\ e.from = route[r].from /\ e.to = route[r].to
  BY <1>1 DEF Route, Decision
<1>3. route' = [route EXCEPT ![r] = e] /\ UNCHANGED <<session, home>>
  BY DEF Decide
<1> HIDE DEF e
<1>4. Changed(r, e.payload, e.decision, e.stage, e.ends, e.context)
  BY <1>2, <1>3, Changing
<1> QED BY <1>2, <1>4 DEF Decide, Decided

LEMMA DispatchedStep ==
  ASSUME TypeOK, NEW r \in DOMAIN route, Dispatch(r)
  PROVE  Dispatched(r)
<1> DEFINE e == [route[r] EXCEPT !.stage = "dispatched"]
<1>1. route[r] \in Route
  BY TypedRoutes
<1>2. e \in Route /\ e.decision = route[r].decision /\ e.payload = route[r].payload /\ e.stage = "dispatched"
      /\ e.ends = route[r].ends /\ e.context = route[r].context /\ e.from = route[r].from /\ e.to = route[r].to
  BY <1>1 DEF Route, Stage
<1>3. route' = [route EXCEPT ![r] = e] /\ UNCHANGED <<session, home>>
  BY DEF Dispatch
<1> HIDE DEF e
<1>4. Changed(r, e.payload, e.decision, e.stage, e.ends, e.context)
  BY <1>2, <1>3, Changing
<1> QED BY <1>2, <1>4 DEF Dispatch, Dispatched

LEMMA ShownStep ==
  ASSUME TypeOK, NEW r \in DOMAIN route, NEW c, NEW decision \in ContextDecision, DecideContext(r, c, decision)
  PROVE  Shown(r, decision)
<1> DEFINE e == [route[r] EXCEPT !.context = decision]
<1>1. route[r] \in Route
  BY TypedRoutes
<1>2. e \in Route /\ e.decision = route[r].decision /\ e.payload = route[r].payload /\ e.stage = route[r].stage
      /\ e.ends = route[r].ends /\ e.context = decision /\ e.from = route[r].from /\ e.to = route[r].to
  BY <1>1 DEF Route
<1>3. route' = [route EXCEPT ![r] = e] /\ UNCHANGED <<session, home>>
  BY DEF DecideContext
<1> HIDE DEF e
<1>4. Changed(r, e.payload, e.decision, e.stage, e.ends, e.context)
  BY <1>2, <1>3, Changing
<1> QED BY <1>2, <1>4 DEF DecideContext, Shown

(* A delivery is between the current sessions of two conversations. *)
LEMMA CurrentEndsFacts ==
  ASSUME TypeOK, AddressesUnique, HomeInv, NEW r \in DOMAIN route, AsWritten(r)
  PROVE  LET a == route[r].payload[1]
             b == route[r].payload[2]
         IN  /\ a \in Conversation /\ b \in Conversation /\ a # b
             /\ home[a] # NoChat /\ home[b] # NoChat
             /\ CurrentEnds(r) = <<Leaf(home[a]), Leaf(home[b])>>
             /\ CurrentEnds(r)[1] \in DOMAIN session /\ CurrentEnds(r)[2] \in DOMAIN session
             /\ CurrentEnds(r)[1] # CurrentEnds(r)[2]
             /\ session[CurrentEnds(r)[1]].endpoint = route[r].from /\ session[CurrentEnds(r)[1]].chat = home[a]
             /\ session[CurrentEnds(r)[2]].endpoint = route[r].to /\ session[CurrentEnds(r)[2]].chat = home[b]
             /\ CurrentEnds(r) \in Session \X Session
<1> DEFINE a == route[r].payload[1]
           b == route[r].payload[2]
<1>1. a \in Conversation /\ b \in Conversation
  BY TypedRoutes DEF AsWritten
<1>2. a # b /\ home[a] # NoChat /\ home[b] # NoChat /\ session[Leaf(home[a])].endpoint = route[r].from
      /\ session[Leaf(home[b])].endpoint = route[r].to
  BY DEF AsWritten, Between, At, Listed
<1>3. /\ Leaf(home[a]) \in DOMAIN session /\ session[Leaf(home[a])].chat = home[a]
      /\ Leaf(home[b]) \in DOMAIN session /\ session[Leaf(home[b])].chat = home[b]
  BY <1>1, <1>2, HomeFacts
<1>4. home[a] # home[b]
  BY <1>1, <1>2 DEF AddressesUnique
<1>5. CurrentEnds(r) = <<Leaf(home[a]), Leaf(home[b])>>
  BY DEF CurrentEnds
<1>6. CurrentEnds(r)[1] = Leaf(home[a]) /\ CurrentEnds(r)[2] = Leaf(home[b])
  BY <1>5
<1>7. CurrentEnds(r) \in Session \X Session
  BY <1>3, <1>5, Typed DEF Session
<1> QED BY <1>1, <1>2, <1>3, <1>4, <1>5, <1>6, <1>7

LEMMA DeliverAsWritten ==
  ASSUME TypeOK, NEW r \in DOMAIN route, op = Sending(r) \/ (op = Idle /\ AsWritten(r))
  PROVE  AsWritten(r)
<1> SUFFICES ASSUME op = Sending(r) PROVE AsWritten(r)
  OBVIOUS
<1>1. OpInStep
  BY DEF TypeOK
<1> QED BY <1>1, OpKinds DEF OpInStep

LEMMA DeliveredStep ==
  ASSUME TypeOK, AddressesUnique, HomeInv, NEW r \in DOMAIN route, Deliver(r)
  PROVE  Delivered(r)
<1>1. route[r] \in Route /\ route \in Seq(Route)
  BY TypedRoutes
<1>2. CurrentEnds(r) \in Session \X Session
  BY DeliverAsWritten, CurrentEndsFacts DEF Deliver
<1> DEFINE d == CurrentEnds(r)
           e1 == [route[r] EXCEPT !.stage = "delivered"]
           e2 == [e1 EXCEPT !.ends = d]
           m == [route EXCEPT ![r] = e1]
<1>3. e1 \in Route /\ e1.decision = route[r].decision /\ e1.payload = route[r].payload /\ e1.stage = "delivered"
      /\ e1.ends = route[r].ends /\ e1.context = route[r].context /\ e1.from = route[r].from /\ e1.to = route[r].to
  BY <1>1 DEF Route, Stage
<1>4. route' = [[route EXCEPT ![r].stage = "delivered"] EXCEPT ![r].ends = d]
  BY DEF Deliver
<1>5. [route EXCEPT ![r].stage = "delivered"] = m
  OBVIOUS
<1> HIDE DEF e1, d
<1>6. e2 \in Route /\ e2.decision = route[r].decision /\ e2.payload = route[r].payload /\ e2.stage = "delivered"
      /\ e2.ends = d /\ e2.context = route[r].context /\ e2.from = route[r].from /\ e2.to = route[r].to
  BY <1>2, <1>3 DEF Route, d
<1>7. m \in Seq(Route) /\ Len(m) = Len(route) /\ DOMAIN m = DOMAIN route /\ m[r] = e1
      /\ \A q \in DOMAIN route : q # r => m[q] = route[q]
  BY <1>1, <1>3, Updated
<1> DEFINE first == [route EXCEPT ![r].stage = "delivered"]
<1>8. route' = [first EXCEPT ![r].ends = d] /\ first = m
  BY <1>4, <1>5
<1> HIDE DEF first, m
<1>9. route' = [m EXCEPT ![r] = [m[r] EXCEPT !.ends = d]]
  BY <1>8
<1>10. route' = [m EXCEPT ![r] = e2]
  BY <1>7, <1>9
<1> HIDE DEF e2
<1>11. /\ route' \in Seq(Route) /\ Len(route') = Len(m) /\ DOMAIN route' = DOMAIN m
       /\ route'[r] = e2 /\ \A q \in DOMAIN m : q # r => route'[q] = m[q]
  BY <1>6, <1>7, <1>10, Updated
<1>12. e2 = [from |-> route[r].from, to |-> route[r].to, payload |-> route[r].payload,
             decision |-> route[r].decision, stage |-> "delivered", ends |-> d, context |-> route[r].context]
  BY <1>6 DEF Route
<1>13. Changed(r, route[r].payload, route[r].decision, "delivered", CurrentEnds(r), route[r].context)
  BY <1>7, <1>11, <1>12 DEF Changed, Deliver, d
<1> QED BY <1>13 DEF Deliver, Delivered

LEMMA ProposedStep ==
  ASSUME TypeOK, AddressesUnique, HomeInv, NEW a \in Conversation, NEW b \in Conversation, Propose(a, b)
  PROVE  Proposed(a, b)
<1> DEFINE e == [from |-> session[Leaf(home[a])].endpoint, to |-> session[Leaf(home[b])].endpoint,
                 payload |-> NoPayload, decision |-> "Pending", stage |-> "proposed",
                 ends |-> Nowhere, context |-> "Pending"]
<1>1. Leaf(home[a]) \in DOMAIN session /\ Leaf(home[b]) \in DOMAIN session
      /\ session[Leaf(home[a])].endpoint # NoEndpoint /\ session[Leaf(home[b])].endpoint # NoEndpoint
  BY HomeFacts DEF Propose, Listed
<1>2. session[Leaf(home[a])].endpoint \in Session /\ session[Leaf(home[b])].endpoint \in Session
  BY <1>1, Typed, LocalRouteAssumption DEF Session, NoEndpoint
<1>3. e \in Route
  BY <1>2 DEF Route, Decision, Stage
<1>4. route' = Append(route, e) /\ Len(route) < MaxRoutes /\ route \in Seq(Route)
  BY TypedRoutes DEF Propose
<1> HIDE DEF e
<1>5. /\ route' \in Seq(Route) /\ Len(route') = Len(route) + 1
      /\ DOMAIN route' = DOMAIN route \cup {Len(route) + 1} /\ Len(route) + 1 \notin DOMAIN route
      /\ \A q \in DOMAIN route : route'[q] = route[q] /\ route'[Len(route) + 1] = e
  BY <1>3, <1>4, Extended
<1>6. route'[Len(route) + 1] = e
  BY <1>3, <1>4, Extended
<1> QED BY <1>4, <1>5, <1>6 DEF Propose, Proposed, e

LEMMA RouteStepMoves ==
  ASSUME TypeOK, AddressesUnique, HomeInv, [Next]_vars
  PROVE  RouteMove
<1>1. CASE \E c \in Conversation : TopologyStep(c)
  BY <1>1 DEF TopologyStep, RegisterRoot, CreateContainer, BindContainer, BindEndpoint, RouteMove
<1>2. CASE \E s \in DOMAIN session : SessionStep(s)
  BY <1>2 DEF SessionStep, MoveSession, Succeed, RouteMove
<1>3. CASE RegisterSession \/ AppendFails \/ Restart \/ UNCHANGED vars
  BY <1>3 DEF RegisterSession, AppendFails, Restart, vars, RouteMove
<1>4. CASE \E a, b \in Conversation : Propose(a, b)
  BY <1>4, ProposedStep DEF RouteMove
<1>5. CASE \E r \in DOMAIN route : RouteStep(r)
  <2>1. PICK r \in DOMAIN route : RouteStep(r)
    BY <1>5
  <2>2. CASE \E a, b \in Conversation : AttachPayload(r, a, b)
    BY <2>2, WrittenStep DEF RouteMove
  <2>3. CASE \E decision \in {"Allow", "Deny"} : Decide(r, decision)
    BY <2>3, DecidedStep DEF RouteMove
  <2>4. CASE Dispatch(r) \/ Deliver(r)
    BY <2>4, DispatchedStep, DeliveredStep DEF RouteMove
  <2>5. CASE \E c \in Conversation, decision \in ContextDecision : DecideContext(r, c, decision)
    BY <2>5, ShownStep DEF RouteMove
  <2> QED BY <2>1, <2>2, <2>3, <2>4, <2>5 DEF RouteStep
<1> QED BY <1>1, <1>2, <1>3, <1>4, <1>5 DEF Next

-----------------------------------------------------------------------------
(* The operation that settles a conversation claims for one that has no    *)
(* container yet.                                                          *)
LEMMA ClaimsFirst ==
  ASSUME TypeOK, NEW c \in Conversation, NEW s \in DOMAIN session, op = Settling(c, s)
  PROVE  home[c] = NoChat
<1>1. OpInStep
  BY DEF TypeOK
<1> QED BY <1>1, OpKinds DEF OpInStep

LEMMA PlaceInvStep ==
  ASSUME TypeOK, PlaceInv, HomeInv, PlaceMove
  PROVE  PlaceInv'
<1>1. CASE UNCHANGED <<session, home>>
  BY <1>1 DEF PlaceInv, SessionInv, EndpointsUnique, HomesUnique, OneLeaf, EndpointInv
<1>2. CASE Grown /\ UNCHANGED <<home, route>> /\ op = Idle
  BY <1>2, GrownKeeps
<1>3. CASE \E c \in Conversation, s \in DOMAIN session : Settled(c, s) \/ Claimed(c, s)
  <2>1. PICK c \in Conversation, s \in DOMAIN session : Settled(c, s) \/ Claimed(c, s)
    BY <1>3
  <2>2. CASE Settled(c, s)
    BY <2>2, SettledKeeps
  <2>3. CASE Claimed(c, s)
    <3>1. home[c] = NoChat
      BY <2>3, ClaimsFirst DEF Claimed
    <3> QED BY <2>3, <3>1, ClaimedKeeps
  <2> QED BY <2>1, <2>2, <2>3
<1>4. CASE \E c \in Conversation : \E e : Addressed(c, e)
  BY <1>4, AddressedKeeps
<1>5. CASE \E s \in DOMAIN session : \E phase \in Phase : Moved(s, phase)
  BY <1>5, MovedKeeps
<1>6. CASE \E k, s, l \in DOMAIN session : Succeeded(k, s, l)
  BY <1>6, SucceededKeeps
<1> QED BY <1>1, <1>2, <1>3, <1>4, <1>5, <1>6 DEF PlaceMove

(* What a step keeps: a session, its endpoint and its container for good,  *)
(* a conversation's container too; and a session that takes no ordinary    *)
(* turns, or is retired, stays so.                                         *)
Kept ==
  /\ \A s \in DOMAIN session :
       /\ s \in DOMAIN session'
       /\ session[s].endpoint # NoEndpoint => session'[s].endpoint = session[s].endpoint
       /\ session[s].chat # NoChat => session'[s].chat = session[s].chat
       /\ session'[s].phase \in Ordinary => session[s].phase \in Ordinary
  /\ \A c \in Conversation : home[c] # NoChat => home'[c] = home[c]

LEMMA KeptStep ==
  ASSUME TypeOK, PlaceInv, HomeInv, PlaceMove
  PROVE  Kept
<1>1. CASE UNCHANGED <<session, home>>
  BY <1>1 DEF Kept
<1>2. CASE Grown /\ UNCHANGED <<home, route>> /\ op = Idle
  BY <1>2 DEF Kept, Grown
<1>3. CASE \E c \in Conversation, s \in DOMAIN session : Settled(c, s) \/ Claimed(c, s)
  <2>1. PICK c \in Conversation, s \in DOMAIN session : Settled(c, s) \/ Claimed(c, s)
    BY <1>3
  <2>2. CASE Settled(c, s)
    BY <2>2 DEF Settled, Becomes, Kept
  <2>3. CASE Claimed(c, s)
    <3>1. home[c] = NoChat
      BY <2>3, ClaimsFirst DEF Claimed
    <3> QED BY <2>3, <3>1 DEF Claimed, Kept, TypeOK
  <2> QED BY <2>1, <2>2, <2>3
<1>4. CASE \E c \in Conversation : \E e : Addressed(c, e)
  BY <1>4 DEF Addressed, Becomes, Kept
<1>5. CASE \E s \in DOMAIN session : \E phase \in Phase : Moved(s, phase)
  BY <1>5 DEF Moved, AcceptsMove, Moves, Ordinary, Becomes, Kept
<1>6. CASE \E k, s, l \in DOMAIN session : Succeeded(k, s, l)
  <2>1. PICK k \in DOMAIN session, s \in DOMAIN session, l \in DOMAIN session : Succeeded(k, s, l)
    BY <1>6
  <2>2. \A t \in DOMAIN session : t = s \/ t = l \/ session'[t] = session[t]
    BY <2>1 DEF Succeeded
  <2>3. /\ DOMAIN session' = DOMAIN session /\ home' = home /\ session[s].chat = NoChat /\ session[l].chat = k
        /\ session'[l].chat = k /\ session'[l].phase = "Retired" /\ session'[l].endpoint = session[l].endpoint
        /\ session'[s].phase = session[s].phase /\ session'[s].endpoint = session[s].endpoint
    BY <2>1 DEF Succeeded
  <2> QED BY <2>2, <2>3 DEF Kept, Ordinary
<1> QED BY <1>1, <1>2, <1>3, <1>4, <1>5, <1>6 DEF PlaceMove

(* The current session of a listed conversation is the one its endpoint is *)
(* of, after a step too.                                                   *)
LEMMA LeafAfter ==
  ASSUME PlaceInv', NEW s \in DOMAIN session', session'[s].endpoint # NoEndpoint,
         NEW a \in Conversation, home'[a] # NoChat,
         session'[Leaf(home[a])'].endpoint = session'[s].endpoint
  PROVE  s = Leaf(home[a])' /\ session'[s].chat = home'[a]
<1> DEFINE k == home'[a]
<1>1. PICK v \in DOMAIN session' : session'[v].chat = k
  BY DEF PlaceInv
<1>2. PICK t \in DOMAIN session' :
        /\ session'[t].chat = k /\ session'[t].phase # "Retired"
        /\ \A u \in DOMAIN session' : session'[u].chat = k /\ session'[u].phase # "Retired" => u = t
  BY <1>1 DEF PlaceInv, OneLeaf
<1>3. Leaf(home[a])' = CHOOSE x \in { y \in DOMAIN session' : session'[y].chat = k } : session'[x].phase # "Retired"
  BY DEF Leaf, Members
<1>4. Leaf(home[a])' = t
  BY <1>2, <1>3
<1>5. s = t
  BY <1>2, <1>4 DEF PlaceInv, EndpointsUnique
<1> QED BY <1>2, <1>4, <1>5

(* An end that is fresh after a step was fresh before it. *)
LEMMA FreshBefore ==
  ASSUME TypeOK, AddressesUnique, PlaceInv, HomeInv, Kept, PlaceInv',
         NEW e, e # NoEndpoint, NEW s \in DOMAIN session, session[s].endpoint = e,
         NEW a \in Conversation, home'[a] # NoChat, session'[Leaf(home[a])'].endpoint = e,
         session'[Leaf(home[a])'].phase \in Ordinary
  PROVE  At(a, e) /\ Ready(a)
<1>1. s \in DOMAIN session' /\ session'[s].endpoint = e
  BY DEF Kept
<1>2. s = Leaf(home[a])' /\ session'[s].chat = home'[a]
  BY <1>1, LeafAfter
<1>3. session[s].chat # NoChat /\ session[s].chat = home'[a]
  BY <1>2 DEF Kept, PlaceInv, SessionInv
<1>4. PICK c \in Conversation : home[c] = session[s].chat
  BY DEF PlaceInv
<1>5. home'[c] = home'[a]
  BY <1>3, <1>4 DEF Kept
<1>6. c = a
  BY <1>3, <1>4, <1>5 DEF PlaceInv, HomesUnique
<1>7. session[s].phase \in Ordinary
  BY <1>2 DEF Kept
<1>8. s = Leaf(home[a])
  BY <1>3, <1>4, <1>6, <1>7, HomeFacts DEF Ordinary
<1> QED BY <1>3, <1>4, <1>6, <1>7, <1>8 DEF At, Listed, Ready

LEMMA FreshStays ==
  ASSUME TypeOK, AddressesUnique, PlaceInv, HomeInv, RouteInv, Kept, PlaceInv',
         NEW r \in DOMAIN route, route'[r].from = route[r].from, route'[r].to = route[r].to,
         Fresh(r)'
  PROVE  Fresh(r)
<1>1. PICK a \in Conversation, b \in Conversation : Between(r, a, b)'
  BY DEF Fresh
<1>2. /\ a # b
      /\ home'[a] # NoChat /\ session'[Leaf(home[a])'].endpoint = route'[r].from
      /\ session'[Leaf(home[a])'].phase \in Ordinary
      /\ home'[b] # NoChat /\ session'[Leaf(home[b])'].endpoint = route'[r].to
      /\ session'[Leaf(home[b])'].phase \in Ordinary
  BY <1>1 DEF Between, At, Listed, Ready
<1>3. PICK s \in DOMAIN session : session[s].endpoint = route[r].from
  BY DEF RouteInv
<1>4. PICK t \in DOMAIN session : session[t].endpoint = route[r].to
  BY DEF RouteInv
<1>5. At(a, route[r].from) /\ Ready(a)
  BY <1>2, <1>3, FreshBefore DEF RouteInv
<1>6. At(b, route[r].to) /\ Ready(b)
  BY <1>2, <1>4, FreshBefore DEF RouteInv
<1> QED BY <1>2, <1>5, <1>6 DEF Fresh, Between

-----------------------------------------------------------------------------
(* The operation under way, and the container it settles. *)
Settles ==
  \A c, d \in Conversation : \A s \in DOMAIN session : op = Settling(c, s) => home[d] # s

LEMMA HomeParts ==
  /\ HomeInv => Settles
  /\ PlaceInv' /\ Settles' => HomeInv'
<1>1. ASSUME PlaceInv', Settles' PROVE HomeInv'
  <2>1. \A c \in Conversation : home'[c] # NoChat => { s \in DOMAIN session' : session'[s].chat = home'[c] } # {}
    BY <1>1 DEF PlaceInv
  <2>2. \A c \in Conversation : home'[c] # NoChat => Members(home[c])' # {}
    BY <2>1 DEF Members
  <2>3. \A s \in DOMAIN session' : session'[s].endpoint # NoEndpoint =>
           \E c \in Conversation : home'[c] = session'[s].chat
    BY <1>1 DEF PlaceInv
  <2> QED BY <1>1, <2>2, <2>3 DEF HomeInv, Settles
<1> QED BY <1>1 DEF HomeInv, Settles

LEMMA IdleIn ==
  ASSUME op' = Idle
  PROVE  OpInStep' /\ Settles'
BY OpKinds DEF OpInStep, Settles

LEMMA OpStep ==
  ASSUME TypeOK, SessionInv, AddressesUnique, HomeInv, EndpointInv, [Next]_vars
  PROVE  OpInStep' /\ Settles'
<1>1. CASE \E c \in Conversation : TopologyStep(c)
  <2>1. PICK c \in Conversation : TopologyStep(c)
    BY <1>1
  <2>2. CASE RegisterRoot(c)
    <3> DEFINE n == Len(session) + 1
    <3>1. NextSession = n /\ Len(session) \in Nat
      BY <2>2, NextSessionFacts, Typed DEF RegisterRoot
    <3>2. Len(session) < MaxSessions /\ session' = Append(session, Registered)
      BY <2>2, <3>1, LocalRouteAssumption DEF RegisterRoot
    <3>3. Grown
      BY <3>2, Growing
    <3>4. op' = Settling(c, n) /\ home' = home /\ home[c] = NoChat
      BY <2>2, <3>1 DEF RegisterRoot
    <3>5. n \in DOMAIN session' /\ session'[n].chat = NoChat /\ n \notin DOMAIN session
      BY <3>3 DEF Grown, Registered
    <3> HIDE DEF n
    <3>6. OpInStep'
      BY <3>4, <3>5 DEF OpInStep
    <3>7. \A d \in Conversation : home[d] # n
      <4> SUFFICES ASSUME NEW d \in Conversation, home[d] = n PROVE FALSE
        OBVIOUS
      <4>1. n # NoChat
        BY <3>1 DEF n, NoChat
      <4>2. PICK u \in DOMAIN session : session[u].chat = n
        BY <4>1 DEF HomeInv, Members
      <4> QED BY <3>5, <4>1, <4>2 DEF SessionInv
    <3>8. Settles'
      BY <3>4, <3>7, OpKinds DEF Settles
    <3> QED BY <3>6, <3>8
  <2>3. CASE \E s \in DOMAIN session : CreateContainer(c, s)
    <3>1. PICK s \in DOMAIN session : CreateContainer(c, s)
      BY <2>3
    <3>2. home[c] = NoChat /\ op = Settling(c, s) /\ op' = op /\ home' = home
      BY <3>1, ClaimsFirst DEF CreateContainer
    <3>3. Settled(c, s)
      BY <3>1, SettledStep
    <3>4. DOMAIN session' = DOMAIN session /\ session'[s].chat = s
      BY <3>3 DEF Settled, Becomes
    <3> QED BY <3>2, <3>4 DEF OpInStep, Settles, HomeInv
  <2>4. CASE (\E s \in DOMAIN session : BindContainer(c, s)) \/ BindEndpoint(c)
    BY <2>4, IdleIn DEF BindContainer, BindEndpoint
  <2> QED BY <2>1, <2>2, <2>3, <2>4 DEF TopologyStep
<1>2. CASE \E s \in DOMAIN session : SessionStep(s)
  BY <1>2, IdleIn DEF SessionStep, MoveSession, Succeed
<1>3. CASE RegisterSession \/ AppendFails \/ Restart
  BY <1>3, IdleIn DEF RegisterSession, AppendFails, Restart
<1>4. CASE \E a, b \in Conversation : Propose(a, b)
  BY <1>4, IdleIn DEF Propose
<1>5. CASE \E r \in DOMAIN route : RouteStep(r)
  <2>1. PICK r \in DOMAIN route : RouteStep(r)
    BY <1>5
  <2>2. CASE Dispatch(r)
    <3>1. Dispatched(r)
      BY <2>2, DispatchedStep
    <3>2. /\ op' = Sending(r) /\ AsWritten(r) /\ session' = session /\ home' = home
          /\ r \in DOMAIN route' /\ route'[r].stage = "dispatched" /\ route'[r].payload = route[r].payload
          /\ route'[r].from = route[r].from /\ route'[r].to = route[r].to
      BY <3>1 DEF Dispatched, Changed
    <3>3. AsWritten(r)'
      <4>1. \A c : Leaf(home[c])' = Leaf(home[c])
        BY <3>2 DEF Leaf, Members
      <4>2. \A c, e : At(c, e)' <=> At(c, e)
        BY <3>2, <4>1 DEF At, Listed
      <4>3. \A c : Ready(c)' <=> Ready(c)
        BY <3>2, <4>1 DEF Ready
      <4> QED BY <3>2, <4>2, <4>3 DEF AsWritten, Between
    <3>4. OpInStep'
      BY <3>2, <3>3 DEF OpInStep
    <3> QED BY <3>2, <3>4, OpKinds DEF Settles
  <2>3. CASE \/ \E a, b \in Conversation : AttachPayload(r, a, b)
             \/ \E decision \in {"Allow", "Deny"} : Decide(r, decision)
             \/ Deliver(r)
             \/ \E c \in Conversation, decision \in ContextDecision : DecideContext(r, c, decision)
    BY <2>3, IdleIn DEF AttachPayload, Decide, Deliver, DecideContext
  <2> QED BY <2>1, <2>2, <2>3 DEF RouteStep
<1>6. CASE UNCHANGED vars
  <2>1. UNCHANGED <<session, home, route, op>>
    BY <1>6 DEF vars
  <2>2. OpInStep' <=> OpInStep
    BY <2>1 DEF OpInStep, AsWritten, Between, At, Listed, Ready, Leaf, Members
  <2> QED BY <2>1, <2>2 DEF TypeOK, HomeInv, Settles
<1> QED BY <1>1, <1>2, <1>3, <1>4, <1>5, <1>6 DEF Next

LEMMA TypeStep ==
  ASSUME TypeOK, SessionInv, AddressesUnique, HomeInv, EndpointInv, [Next]_vars, PlaceMove, RouteMove
  PROVE  TypeOK'
<1>1. session' \in Seq(SessionType) /\ Len(session') <= MaxSessions
  <2>1. session \in Seq(SessionType) /\ Len(session) <= MaxSessions /\ Len(session) \in Nat
    BY Typed
  <2>2. CASE UNCHANGED <<session, home>>
    BY <2>1, <2>2
  <2>3. CASE Grown
    BY <2>1, <2>3, LocalRouteAssumption DEF Grown
  <2>4. CASE \E c \in Conversation, s \in DOMAIN session : Settled(c, s) \/ Claimed(c, s)
    BY <2>1, <2>4 DEF Settled, Claimed, Becomes
  <2>5. CASE \E c \in Conversation : \E e : Addressed(c, e)
    BY <2>1, <2>5 DEF Addressed, Becomes
  <2>6. CASE \E s \in DOMAIN session : \E phase \in Phase : Moved(s, phase)
    BY <2>1, <2>6 DEF Moved, Becomes
  <2>7. CASE \E k, s, l \in DOMAIN session : Succeeded(k, s, l)
    BY <2>1, <2>7 DEF Succeeded
  <2> QED BY <2>2, <2>3, <2>4, <2>5, <2>6, <2>7 DEF PlaceMove
<1>2. home' \in [Conversation -> 0..MaxSessions]
  <2>1. home \in [Conversation -> 0..MaxSessions]
    BY DEF TypeOK
  <2>2. CASE \E c \in Conversation, s \in DOMAIN session : Claimed(c, s)
    BY <2>1, <2>2, Typed, LocalRouteAssumption DEF Claimed
  <2>3. CASE home' = home
    BY <2>1, <2>3
  <2> QED BY <2>2, <2>3 DEF PlaceMove, Settled, Addressed, Moved, Succeeded
<1>3. route' \in Seq(Route) /\ Len(route') <= MaxRoutes
  <2>1. route \in Seq(Route) /\ Len(route) <= MaxRoutes /\ Len(route) \in Nat /\ MaxRoutes \in Nat
    BY TypedRoutes, LocalRouteAssumption
  <2>2. CASE route' = route
    BY <2>1, <2>2
  <2>3. CASE \E a, b \in Conversation : Proposed(a, b)
    <3>1. route' \in Seq(Route) /\ Len(route') = Len(route) + 1 /\ Len(route) < MaxRoutes
      BY <2>3 DEF Proposed
    <3> QED BY <2>1, <3>1
  <2>4. CASE route' \in Seq(Route) /\ Len(route') = Len(route)
    BY <2>1, <2>4
  <2> QED BY <2>2, <2>3, <2>4 DEF RouteMove, Written, Decided, Dispatched, Delivered, Shown, Changed
<1>4. unseen' \subseteq {"session", "dispatch"} \X Nat
  <2>1. unseen \subseteq {"session", "dispatch"} \X Nat
    BY DEF TypeOK
  <2>2. CASE AppendFails
    <3>1. \A s \in DOMAIN session : s \in Nat
      BY Typed
    <3>2. \A r \in DOMAIN route : r \in Nat
      BY TypedRoutes, LocalRouteAssumption
    <3> QED BY <2>1, <2>2, <3>1, <3>2 DEF AppendFails
  <2>3. CASE Restart
    BY <2>3 DEF Restart
  <2>4. CASE unseen' = unseen
    BY <2>1, <2>4
  <2> QED BY <2>2, <2>3, <2>4 DEF Next, vars, TopologyStep, RegisterRoot, CreateContainer, BindContainer,
            BindEndpoint, SessionStep, MoveSession, Succeed, RegisterSession, Propose, RouteStep, AttachPayload,
            Decide, Dispatch, Deliver, DecideContext
<1>5. replays' \in BOOLEAN
  <2>1. replays \in BOOLEAN
    BY DEF TypeOK
  <2>2. CASE replays' = replays
    BY <2>1, <2>2
  <2>3. CASE \E p : Judge(p)
    BY <2>1, <2>3 DEF Judge
  <2> QED BY <2>2, <2>3 DEF Next, vars, TopologyStep, RegisterRoot, CreateContainer, BindContainer,
            BindEndpoint, SessionStep, MoveSession, Succeed, RegisterSession, Propose, RouteStep, AttachPayload,
            Decide, Dispatch, Deliver, DecideContext, AppendFails, Restart
<1>6. OpInStep'
  BY OpStep
<1> QED BY <1>1, <1>2, <1>3, <1>4, <1>5, <1>6 DEF TypeOK, SessionType

-----------------------------------------------------------------------------
(* The routes. *)
LEMMA RouteInvStep ==
  ASSUME TypeOK, SessionInv, AddressesUnique, HomeInv, RouteInv, Kept, RouteMove
  PROVE  RouteInv'
<1> DEFINE Good(r) ==
      /\ \E s \in DOMAIN session' : session'[s].endpoint = route'[r].from
      /\ \E s \in DOMAIN session' : session'[s].endpoint = route'[r].to
      /\ route'[r].from # NoEndpoint /\ route'[r].to # NoEndpoint
      /\ route'[r].decision = "Allow" \/ route'[r].stage # "proposed" => route'[r].payload # NoPayload
      /\ route'[r].payload # NoPayload =>
           home'[route'[r].payload[1]] # NoChat /\ home'[route'[r].payload[2]] # NoChat
      /\ route'[r].stage = "delivered" =>
           route'[r].ends[1] \in DOMAIN session' /\ route'[r].ends[2] \in DOMAIN session'
<1>1. ASSUME NEW r \in DOMAIN route, route'[r].from = route[r].from, route'[r].to = route[r].to
      PROVE  /\ \E s \in DOMAIN session' : session'[s].endpoint = route'[r].from
             /\ \E s \in DOMAIN session' : session'[s].endpoint = route'[r].to
             /\ route'[r].from # NoEndpoint /\ route'[r].to # NoEndpoint
  BY <1>1 DEF RouteInv, Kept
<1>2. ASSUME NEW r \in DOMAIN route, route'[r].payload = route[r].payload
      PROVE  route'[r].payload # NoPayload =>
               home'[route'[r].payload[1]] # NoChat /\ home'[route'[r].payload[2]] # NoChat
  <2> SUFFICES ASSUME route[r].payload # NoPayload
      PROVE  home'[route[r].payload[1]] # NoChat /\ home'[route[r].payload[2]] # NoChat
    BY <1>2
  <2>1. route[r].payload[1] \in Conversation /\ route[r].payload[2] \in Conversation
    BY TypedRoutes
  <2>2. home[route[r].payload[1]] # NoChat /\ home[route[r].payload[2]] # NoChat
    BY DEF RouteInv
  <2> QED BY <2>1, <2>2 DEF Kept
<1>3. ASSUME NEW r \in DOMAIN route, route'[r] = route[r]
      PROVE  Good(r)
  <2>2. route'[r].decision = "Allow" \/ route'[r].stage # "proposed" => route'[r].payload # NoPayload
    BY <1>3 DEF RouteInv, Sent
  <2>3. route'[r].stage = "delivered" =>
           route'[r].ends[1] \in DOMAIN session' /\ route'[r].ends[2] \in DOMAIN session'
    BY <1>3 DEF RouteInv, Kept
  <2> QED BY <1>1, <1>2, <1>3, <2>2, <2>3
<1>4. ASSUME NEW r \in DOMAIN route, Changed(r, route[r].payload, route'[r].decision, route'[r].stage,
             route'[r].ends, route'[r].context),
             route'[r].decision = "Allow" \/ route'[r].stage # "proposed" => route[r].payload # NoPayload,
             route'[r].stage = "delivered" => route'[r].ends[1] \in DOMAIN session /\ route'[r].ends[2] \in DOMAIN session
      PROVE  Good(r)
  BY <1>1, <1>2, <1>4 DEF Changed
<1>5. CASE route' = route
  BY <1>3, <1>5 DEF RouteInv, Sent
<1>6. CASE \E a, b \in Conversation : Proposed(a, b)
  <2>1. PICK a \in Conversation, b \in Conversation : Proposed(a, b)
    BY <1>6
  <2> DEFINE n == Len(route) + 1
  <2>2. Leaf(home[a]) \in DOMAIN session /\ session[Leaf(home[a])].endpoint # NoEndpoint
        /\ Leaf(home[b]) \in DOMAIN session /\ session[Leaf(home[b])].endpoint # NoEndpoint
    BY <2>1, HomeFacts DEF Proposed, Listed
  <2>3. /\ session' = session /\ route'[n].from = session[Leaf(home[a])].endpoint
        /\ route'[n].to = session[Leaf(home[b])].endpoint /\ route'[n].payload = NoPayload
        /\ route'[n].decision = "Pending" /\ route'[n].stage = "proposed"
    BY <2>1 DEF Proposed
  <2>4. DOMAIN route' = DOMAIN route \cup {n} /\ \A q \in DOMAIN route : route'[q] = route[q]
    BY <2>1 DEF Proposed
  <2> HIDE DEF n
  <2>5. Good(n)
    <3>1. /\ \E s \in DOMAIN session' : session'[s].endpoint = route'[n].from
          /\ \E s \in DOMAIN session' : session'[s].endpoint = route'[n].to
          /\ route'[n].from # NoEndpoint /\ route'[n].to # NoEndpoint
      BY <2>2, <2>3
    <3>2. ~(route'[n].decision = "Allow" \/ route'[n].stage # "proposed") /\ route'[n].stage # "delivered"
      BY <2>3
    <3> QED BY <2>3, <3>1, <3>2
  <2> HIDE DEF Good
  <2>6. \A r \in DOMAIN route' : Good(r)
    BY <1>3, <2>4, <2>5
  <2> QED BY <2>6 DEF RouteInv, Good, Sent
<1>7. ASSUME NEW r \in DOMAIN route, \A q \in DOMAIN route : q # r => route'[q] = route[q],
             DOMAIN route' = DOMAIN route, Good(r)
      PROVE  RouteInv'
  <2> HIDE DEF Good
  <2>1. \A q \in DOMAIN route' : Good(q)
    BY <1>3, <1>7
  <2> QED BY <2>1 DEF RouteInv, Good, Sent
<1>8. CASE \E r \in DOMAIN route, a, b \in Conversation : Written(r, a, b)
  <2>1. PICK r \in DOMAIN route, a \in Conversation, b \in Conversation : Written(r, a, b)
    BY <1>8
  <2>2. /\ home' = home /\ home[a] # NoChat /\ home[b] # NoChat /\ route'[r].payload = <<a, b>>
        /\ route'[r].from = route[r].from /\ route'[r].to = route[r].to
        /\ route'[r].stage = route[r].stage /\ route[r].stage = "proposed" /\ <<a, b>> # NoPayload
    BY <2>1 DEF Written, Changed, Between, At, Listed, Sent, NoPayload
  <2>3. home'[route'[r].payload[1]] # NoChat /\ home'[route'[r].payload[2]] # NoChat
    BY <2>2
  <2>4. Good(r)
    BY <1>1, <2>2, <2>3
  <2> HIDE DEF Good
  <2> QED BY <1>7, <2>1, <2>4 DEF Written, Changed
<1>9. CASE \E r \in DOMAIN route : \E decision \in {"Allow", "Deny"} : Decided(r, decision)
  <2>1. PICK r \in DOMAIN route, decision \in {"Allow", "Deny"} : Decided(r, decision)
    BY <1>9
  <2>2. Changed(r, route[r].payload, route'[r].decision, route'[r].stage, route'[r].ends, route'[r].context)
        /\ route'[r].stage = "proposed" /\ route'[r].decision = decision
    BY <2>1 DEF Decided, Changed, Sent
  <2>3. Good(r)
    <3>1. route'[r].decision = "Allow" \/ route'[r].stage # "proposed" => route[r].payload # NoPayload
      BY <2>1, <2>2 DEF Decided, Sent
    <3> HIDE DEF Good
    <3> QED BY <1>4, <2>2, <3>1
  <2> HIDE DEF Good
  <2> QED BY <1>7, <2>2, <2>3 DEF Changed
<1>10. CASE \E r \in DOMAIN route : Dispatched(r) \/ Delivered(r)
  <2>1. PICK r \in DOMAIN route : Dispatched(r) \/ Delivered(r)
    BY <1>10
  <2>2. Changed(r, route[r].payload, route'[r].decision, route'[r].stage, route'[r].ends, route'[r].context)
    BY <2>1 DEF Dispatched, Delivered, Changed
  <2>3. AsWritten(r) /\ route[r].payload # NoPayload
    BY <2>1, DeliverAsWritten DEF Dispatched, Delivered, AsWritten
  <2>4. route'[r].stage = "delivered" => route'[r].ends[1] \in DOMAIN session /\ route'[r].ends[2] \in DOMAIN session
    <3>1. route'[r].stage = "delivered" => route'[r].ends = CurrentEnds(r)
      BY <2>1 DEF Dispatched, Delivered, Changed
    <3>2. CurrentEnds(r)[1] \in DOMAIN session /\ CurrentEnds(r)[2] \in DOMAIN session
      BY <2>3, CurrentEndsFacts
    <3> QED BY <3>1, <3>2
  <2>5. Good(r)
    <3> HIDE DEF Good
    <3> QED BY <1>4, <2>2, <2>3, <2>4
  <2> HIDE DEF Good
  <2> QED BY <1>7, <2>2, <2>5 DEF Changed
<1>11. CASE \E r \in DOMAIN route : \E decision \in ContextDecision : Shown(r, decision)
  <2>1. PICK r \in DOMAIN route, decision \in ContextDecision : Shown(r, decision)
    BY <1>11
  <2>2. Changed(r, route[r].payload, route'[r].decision, route'[r].stage, route'[r].ends, route'[r].context)
        /\ route'[r].stage = route[r].stage /\ route'[r].decision = route[r].decision /\ route'[r].ends = route[r].ends
    BY <2>1 DEF Shown, Changed
  <2>3. route'[r].decision = "Allow" \/ route'[r].stage # "proposed" => route[r].payload # NoPayload
    BY <2>2 DEF RouteInv, Sent
  <2>4. route'[r].stage = "delivered" => route'[r].ends[1] \in DOMAIN session /\ route'[r].ends[2] \in DOMAIN session
    BY <2>2 DEF RouteInv
  <2>5. Good(r)
    <3> HIDE DEF Good
    <3> QED BY <1>4, <2>2, <2>3, <2>4
  <2> HIDE DEF Good
  <2> QED BY <1>7, <2>2, <2>5 DEF Changed
<1> QED BY <1>5, <1>6, <1>8, <1>9, <1>10, <1>11 DEF RouteMove

(* A route found delivered after a step was delivered by it, or was before *)
(* and is as it was.                                                       *)
LEMMA ArrivedBefore ==
  ASSUME TypeOK, RouteMove, NEW r \in DOMAIN route', route'[r].stage = "delivered"
  PROVE  \/ r \in DOMAIN route /\ Delivered(r)
         \/ /\ r \in DOMAIN route /\ route[r].stage = "delivered"
            /\ route'[r].from = route[r].from /\ route'[r].to = route[r].to
            /\ route'[r].payload = route[r].payload /\ route'[r].ends = route[r].ends
<1>1. CASE route' = route
  BY <1>1
<1>2. CASE \E a, b \in Conversation : Proposed(a, b)
  <2>1. /\ DOMAIN route' = DOMAIN route \cup {Len(route) + 1} /\ \A q \in DOMAIN route : route'[q] = route[q]
        /\ route'[Len(route) + 1].stage = "proposed"
    BY <1>2 DEF Proposed
  <2> QED BY <2>1
<1>3. CASE \E q \in DOMAIN route, a, b \in Conversation : Written(q, a, b)
  BY <1>3 DEF Written, Changed, Sent
<1>4. CASE \E q \in DOMAIN route : \E decision \in {"Allow", "Deny"} : Decided(q, decision)
  BY <1>4 DEF Decided, Changed, Sent
<1>5. CASE \E q \in DOMAIN route : Dispatched(q) \/ Delivered(q)
  <2>1. PICK q \in DOMAIN route : Dispatched(q) \/ Delivered(q)
    BY <1>5
  <2>2. DOMAIN route' = DOMAIN route /\ \A p \in DOMAIN route : p # q => route'[p] = route[p]
    BY <2>1 DEF Dispatched, Delivered, Changed
  <2>3. CASE r = q
    BY <2>1, <2>2, <2>3 DEF Dispatched, Changed
  <2> QED BY <2>2, <2>3
<1>6. CASE \E q \in DOMAIN route : \E decision \in ContextDecision : Shown(q, decision)
  BY <1>6 DEF Shown, Changed
<1> QED BY <1>1, <1>2, <1>3, <1>4, <1>5, <1>6 DEF RouteMove

LEMMA ArrivesStep ==
  ASSUME TypeOK, AddressesUnique, HomeInv, RouteInv, ArrivesAsAddressed, Kept, RouteMove
  PROVE  ArrivesAsAddressed'
<1> SUFFICES ASSUME NEW r \in DOMAIN route', route'[r].stage = "delivered"
    PROVE  /\ session'[route'[r].ends[1]].endpoint = route'[r].from
           /\ session'[route'[r].ends[2]].endpoint = route'[r].to
           /\ session'[route'[r].ends[1]].chat = home'[route'[r].payload[1]]
           /\ session'[route'[r].ends[2]].chat = home'[route'[r].payload[2]]
  BY DEF ArrivesAsAddressed
<1>1. CASE r \in DOMAIN route /\ Delivered(r)
  <2>1. AsWritten(r)
    BY <1>1, DeliverAsWritten DEF Delivered
  <2>2. /\ session[CurrentEnds(r)[1]].endpoint = route[r].from
        /\ session[CurrentEnds(r)[1]].chat = home[route[r].payload[1]]
        /\ session[CurrentEnds(r)[2]].endpoint = route[r].to
        /\ session[CurrentEnds(r)[2]].chat = home[route[r].payload[2]]
    BY <1>1, <2>1, CurrentEndsFacts
  <2>3. /\ session' = session /\ home' = home /\ route'[r].ends = CurrentEnds(r)
        /\ route'[r].from = route[r].from /\ route'[r].to = route[r].to /\ route'[r].payload = route[r].payload
    BY <1>1 DEF Delivered, Changed
  <2> QED BY <2>2, <2>3
<1>2. CASE /\ r \in DOMAIN route /\ route[r].stage = "delivered"
           /\ route'[r].from = route[r].from /\ route'[r].to = route[r].to
           /\ route'[r].payload = route[r].payload /\ route'[r].ends = route[r].ends
  <2> DEFINE s == route[r].ends[1]
             t == route[r].ends[2]
             a == route[r].payload[1]
             b == route[r].payload[2]
  <2>1. /\ s \in DOMAIN session /\ t \in DOMAIN session /\ route[r].payload # NoPayload
        /\ route[r].from # NoEndpoint /\ route[r].to # NoEndpoint
        /\ home[a] # NoChat /\ home[b] # NoChat
    BY <1>2 DEF RouteInv, Sent
  <2>2. a \in Conversation /\ b \in Conversation
    BY <1>2, <2>1, TypedRoutes
  <2>3. session[s].endpoint = route[r].from /\ session[t].endpoint = route[r].to
        /\ session[s].chat = home[a] /\ session[t].chat = home[b]
    BY <1>2 DEF ArrivesAsAddressed
  <2>4. home'[a] = home[a] /\ home'[b] = home[b]
    BY <2>1, <2>2 DEF Kept
  <2>5. session'[s].endpoint = session[s].endpoint /\ session'[t].endpoint = session[t].endpoint
        /\ session'[s].chat = session[s].chat /\ session'[t].chat = session[t].chat
    BY <2>1, <2>3 DEF Kept
  <2> QED BY <1>2, <2>3, <2>4, <2>5
<1> QED BY <1>1, <1>2, ArrivedBefore

-----------------------------------------------------------------------------
(* What the audits require holds at each append. *)
LEMMA ReplaysStep ==
  ASSUME TypeOK, AddressesUnique, HomeInv, JournalReplays, [Next]_vars
  PROVE  JournalReplays'
<1>1. CASE \E c \in Conversation : TopologyStep(c)
  <2>1. PICK c \in Conversation : TopologyStep(c)
    BY <1>1
  <2>2. CASE RegisterRoot(c)
    BY <2>2 DEF RegisterRoot, JournalReplays
  <2>3. CASE \E s \in DOMAIN session : CreateContainer(c, s)
    BY <2>3 DEF CreateContainer, Judge, AcceptsContainer, JournalReplays
  <2>4. CASE \E s \in DOMAIN session : BindContainer(c, s)
    <3>1. PICK s \in DOMAIN session : BindContainer(c, s)
      BY <2>4
    <3>2. op = Settling(c, s) /\ session[s].chat = s
      BY <3>1 DEF BindContainer
    <3>3. AcceptsHome(c, s)
      BY <3>2, ClaimsFirst DEF AcceptsHome, Members, HomeInv
    <3> QED BY <3>1, <3>3 DEF BindContainer, Judge, JournalReplays
  <2>5. CASE BindEndpoint(c)
    <3>1. AcceptsEndpoint(Leaf(home[c]), NextEndpoint)
      BY <2>5, HomeFacts DEF BindEndpoint, AcceptsEndpoint
    <3> QED BY <2>5, <3>1 DEF BindEndpoint, Judge, JournalReplays
  <2> QED BY <2>1, <2>2, <2>3, <2>4, <2>5 DEF TopologyStep
<1>2. CASE \E s \in DOMAIN session : SessionStep(s)
  BY <1>2 DEF SessionStep, MoveSession, Succeed, JournalReplays
<1>3. CASE RegisterSession \/ AppendFails \/ Restart \/ UNCHANGED vars
  BY <1>3 DEF RegisterSession, AppendFails, Restart, vars, JournalReplays
<1>4. CASE \E a, b \in Conversation : Propose(a, b)
  BY <1>4 DEF Propose, JournalReplays
<1>5. CASE \E r \in DOMAIN route : RouteStep(r)
  <2>1. PICK r \in DOMAIN route : RouteStep(r)
    BY <1>5
  <2>2. CASE \E a, b \in Conversation : AttachPayload(r, a, b)
    BY <2>2 DEF AttachPayload, Judge, AcceptsPayload, JournalReplays
  <2>3. CASE \E decision \in {"Allow", "Deny"} : Decide(r, decision)
    BY <2>3 DEF Decide, Judge, AcceptsDecision, JournalReplays
  <2>4. CASE Dispatch(r)
    BY <2>4 DEF Dispatch, Judge, AcceptsDispatch, JournalReplays
  <2>5. CASE Deliver(r)
    <3>1. AsWritten(r)
      BY <2>5, DeliverAsWritten DEF Deliver
    <3>2. CurrentEnds(r)[1] # CurrentEnds(r)[2]
      BY <3>1, CurrentEndsFacts
    <3>3. AcceptsDelivery(r, CurrentEnds(r))
      BY <2>5, <3>1, <3>2 DEF Deliver, AcceptsDelivery, CurrentEnds
    <3> QED BY <2>5, <3>3 DEF Deliver, Judge, JournalReplays
  <2>6. CASE \E c \in Conversation, decision \in ContextDecision : DecideContext(r, c, decision)
    BY <2>6 DEF DecideContext, Judge, AcceptsContext, JournalReplays
  <2> QED BY <2>1, <2>2, <2>3, <2>4, <2>5, <2>6 DEF RouteStep
<1> QED BY <1>1, <1>2, <1>3, <1>4, <1>5 DEF Next

-----------------------------------------------------------------------------
(* Sessions, containers, endpoints, routes and the operation under way     *)
(* stay consistent in every reachable state.                               *)
LEMMA InitInv == Init => IInv
<1> SUFFICES ASSUME Init PROVE IInv
  OBVIOUS
<1>1. DOMAIN session = {} /\ DOMAIN route = {} /\ Len(session) = 0 /\ Len(route) = 0
  <2>1. session = <<>> /\ route = <<>>
    BY DEF Init
  <2> QED BY <2>1, EmptySeq
<1>2. TypeOK
  BY <1>1, LocalRouteAssumption DEF Init, TypeOK, OpInStep, NoChat
<1>3. SessionInv /\ AddressesUnique /\ HomeInv /\ EndpointInv /\ RouteInv /\ ArrivesAsAddressed /\ JournalReplays
  BY <1>1 DEF Init, SessionInv, AddressesUnique, HomeInv, EndpointInv, RouteInv, ArrivesAsAddressed, JournalReplays
<1> QED BY <1>2, <1>3 DEF IInv

LEMMA StepFacts ==
  ASSUME IInv, [Next]_vars
  PROVE  IInv' /\ PlaceInv /\ PlaceInv' /\ Kept /\ RouteMove /\ PlaceMove
<1> USE DEF IInv
<1>1. PlaceMove /\ RouteMove /\ PlaceInv
  BY PlaceStep, RouteStepMoves, PlaceParts
<1>2. PlaceInv' /\ Kept
  BY <1>1, PlaceInvStep, KeptStep
<1>3. SessionInv' /\ AddressesUnique' /\ EndpointInv'
  BY <1>2, UniqueParts DEF PlaceInv
<1>4. HomeInv'
  BY <1>2, OpStep, HomeParts
<1>5. TypeOK'
  BY <1>1, TypeStep
<1>6. RouteInv' /\ ArrivesAsAddressed'
  BY <1>1, <1>2, RouteInvStep, ArrivesStep
<1>7. JournalReplays'
  BY ReplaysStep
<1> QED BY <1>1, <1>2, <1>3, <1>4, <1>5, <1>6, <1>7

(* Sessions, containers, endpoints, routes and the operation under way are *)
(* consistent in every reachable state: the inductive invariant.           *)
THEOREM Inductive == Spec => []IInv
<1>1. IInv /\ [Next]_vars => IInv'
  BY StepFacts
<1> QED BY InitInv, <1>1, PTL DEF Spec

(* The projections have the shape the replays build, and the operation     *)
(* under way is where the journal says it is.                              *)
THEOREM TypeCorrect == Spec => []TypeOK
<1>1. IInv => TypeOK
  BY DEF IInv
<1> QED BY Inductive, <1>1, PTL

(* An endpoint is one session's for good, a container one conversation's,  *)
(* with one current session: the replay of the topology can only find one. *)
THEOREM AddressesMeanOneThing == Spec => []AddressesUnique
<1>1. IInv => AddressesUnique
  BY DEF IInv
<1> QED BY Inductive, <1>1, PTL

(* The audits accept every event any sequence of operations appends.       *)
THEOREM AuditsAccept == Spec => []JournalReplays
<1>1. IInv => JournalReplays
  BY DEF IInv
<1> QED BY Inductive, <1>1, PTL

(* A delivery names the sessions whose endpoints the route was proposed    *)
(* between, in the conversations its payload was written between.          *)
THEOREM DeliveredWhereAddressed == Spec => []ArrivesAsAddressed
<1>1. IInv => ArrivesAsAddressed
  BY DEF IInv
<1> QED BY Inductive, <1>1, PTL

-----------------------------------------------------------------------------
(* What becomes of a route whose ends are not fresh. *)
LEMMA SameButContext ==
  ASSUME TypeOK, NEW r \in DOMAIN route
  PROVE  \A c : [route[r] EXCEPT !.context = c] =
                  [from |-> route[r].from, to |-> route[r].to, payload |-> route[r].payload,
                   decision |-> route[r].decision, stage |-> route[r].stage,
                   ends |-> route[r].ends, context |-> c]
BY TypedRoutes

LEMMA FreshEnough ==
  ASSUME TypeOK, NEW r \in DOMAIN route
  PROVE  /\ \A a, b \in Conversation : Between(r, a, b) => Fresh(r)
         /\ AsWritten(r) => Fresh(r)
<1>1. AsWritten(r) => Fresh(r)
  BY TypedRoutes DEF AsWritten, Fresh
<1> QED BY <1>1 DEF Fresh

LEMMA RouteKept ==
  ASSUME TypeOK, RouteMove, NEW r \in DOMAIN route
  PROVE  /\ r \in DOMAIN route' /\ route'[r].from = route[r].from /\ route'[r].to = route[r].to
         /\ ~Fresh(r) => route'[r] = [route[r] EXCEPT !.context = route'[r].context]
<1> DEFINE Same == route'[r] = [route[r] EXCEPT !.context = route'[r].context]
<1>1. route[r] = [from |-> route[r].from, to |-> route[r].to, payload |-> route[r].payload,
                  decision |-> route[r].decision, stage |-> route[r].stage,
                  ends |-> route[r].ends, context |-> route[r].context]
  BY TypedRoutes
<1>2. \A c : [route[r] EXCEPT !.context = c] =
               [from |-> route[r].from, to |-> route[r].to, payload |-> route[r].payload,
                decision |-> route[r].decision, stage |-> route[r].stage,
                ends |-> route[r].ends, context |-> c]
  BY SameButContext
<1>3. route'[r] = route[r] => Same
  BY <1>1, <1>2
<1> HIDE DEF Same
<1>4. CASE route' = route
  BY <1>3, <1>4 DEF Same
<1>5. CASE \E a, b \in Conversation : Proposed(a, b)
  BY <1>3, <1>5 DEF Proposed, Same
<1>6. CASE \E q \in DOMAIN route, a, b \in Conversation : Written(q, a, b)
  <2>1. PICK q \in DOMAIN route, a \in Conversation, b \in Conversation : Written(q, a, b)
    BY <1>6
  <2>2. Fresh(q)
    BY <2>1, FreshEnough DEF Written
  <2> QED BY <1>3, <2>1, <2>2 DEF Written, Changed, Same
<1>7. CASE \E q \in DOMAIN route : \E decision \in {"Allow", "Deny"} : Decided(q, decision)
  BY <1>3, <1>7 DEF Decided, Changed, Same
<1>8. CASE \E q \in DOMAIN route : Dispatched(q) \/ Delivered(q)
  <2>1. PICK q \in DOMAIN route : Dispatched(q) \/ Delivered(q)
    BY <1>8
  <2>2. AsWritten(q)
    BY <2>1, DeliverAsWritten DEF Dispatched, Delivered
  <2>3. Fresh(q)
    BY <2>2, FreshEnough
  <2> QED BY <1>3, <2>1, <2>3 DEF Dispatched, Delivered, Changed, Same
<1>9. CASE \E q \in DOMAIN route : \E decision \in ContextDecision : Shown(q, decision)
  <2>1. PICK q \in DOMAIN route, decision \in ContextDecision : Shown(q, decision)
    BY <1>9
  <2>2. CASE q # r
    BY <1>3, <2>1, <2>2 DEF Shown, Changed, Same
  <2>3. CASE q = r
    <3>1. /\ r \in DOMAIN route'
          /\ route'[r] = [from |-> route[r].from, to |-> route[r].to, payload |-> route[r].payload,
                          decision |-> route[r].decision, stage |-> route[r].stage,
                          ends |-> route[r].ends, context |-> decision]
      BY <2>1, <2>3 DEF Shown, Changed
    <3>2. route'[r].context = decision
      BY <3>1
    <3>3. Same
      BY <1>2, <3>1, <3>2 DEF Same
    <3> QED BY <3>1, <3>3 DEF Same
  <2> QED BY <2>2, <2>3
<1> QED BY <1>4, <1>5, <1>6, <1>7, <1>8, <1>9 DEF RouteMove

(* A route one of whose ends was succeeded, or takes no ordinary turns any *)
(* more, stays over: nothing but what a model is shown is recorded for it. *)
THEOREM OverForGood == Spec => StaleIsFinal
<1> DEFINE Over ==
      \A r \in DOMAIN route : ~Fresh(r) =>
        /\ ~Fresh(r)'
        /\ route'[r] = [route[r] EXCEPT !.context = route'[r].context]
<1>1. IInv /\ [Next]_vars => Over
  <2> SUFFICES ASSUME IInv, [Next]_vars, NEW r \in DOMAIN route, ~Fresh(r)
      PROVE  ~Fresh(r)' /\ route'[r] = [route[r] EXCEPT !.context = route'[r].context]
    OBVIOUS
  <2>1. PlaceInv /\ PlaceInv' /\ Kept /\ RouteMove
    BY StepFacts
  <2>2. /\ route'[r].from = route[r].from /\ route'[r].to = route[r].to
        /\ route'[r] = [route[r] EXCEPT !.context = route'[r].context]
    BY <2>1, RouteKept DEF IInv
  <2>3. ~Fresh(r)'
    BY <2>1, <2>2, FreshStays DEF IInv
  <2> QED BY <2>2, <2>3
<1> QED BY Inductive, <1>1, PTL DEF Spec, StaleIsFinal

-----------------------------------------------------------------------------
(* Routing seen from outside: what a change of a route does to the letters. *)
Letters == { Letter(r) : r \in { q \in DOMAIN route : route[q].payload # NoPayload } }

Allowed == { r \in DOMAIN route : route[r].decision = "Allow" }

Left == { r \in DOMAIN route : Sent(r) }

Arrived == { r \in DOMAIN route : route[r].stage = "delivered" }

Admitted == { r \in DOMAIN route : route[r].context = "Admit" }

LEMMA LettersChange ==
  ASSUME NEW r, NEW p, NEW d, NEW st, NEW en, NEW c, Changed(r, p, d, st, en, c)
  PROVE  /\ Allowed' = IF d = "Allow" THEN Allowed \cup {r} ELSE Allowed \ {r}
         /\ Left' = IF st # "proposed" THEN Left \cup {r} ELSE Left \ {r}
         /\ Arrived' = IF st = "delivered" THEN Arrived \cup {r} ELSE Arrived \ {r}
         /\ Admitted' = IF c = "Admit" THEN Admitted \cup {r} ELSE Admitted \ {r}
         /\ (d = "Allow" <=> route[r].decision = "Allow") => Allowed' = Allowed
         /\ (st = "proposed" <=> route[r].stage = "proposed") => Left' = Left
         /\ (st = "delivered" <=> route[r].stage = "delivered") => Arrived' = Arrived
         /\ (c = "Admit" <=> route[r].context = "Admit") => Admitted' = Admitted
         /\ p = route[r].payload => Letters' = Letters
<1>1. /\ r \in DOMAIN route /\ DOMAIN route' = DOMAIN route
      /\ route'[r].decision = d /\ route'[r].stage = st /\ route'[r].context = c /\ route'[r].payload = p
      /\ \A q \in DOMAIN route : q # r => route'[q] = route[q]
  BY DEF Changed
<1>2. Allowed' = IF d = "Allow" THEN Allowed \cup {r} ELSE Allowed \ {r}
  BY <1>1 DEF Allowed
<1>3. Left' = IF st # "proposed" THEN Left \cup {r} ELSE Left \ {r}
  BY <1>1 DEF Left, Sent
<1>4. Arrived' = IF st = "delivered" THEN Arrived \cup {r} ELSE Arrived \ {r}
  BY <1>1 DEF Arrived
<1>5. Admitted' = IF c = "Admit" THEN Admitted \cup {r} ELSE Admitted \ {r}
  BY <1>1 DEF Admitted
<1>6. ASSUME p = route[r].payload PROVE Letters' = Letters
  <2>1. \A q \in DOMAIN route : route'[q].payload = route[q].payload
    BY <1>1, <1>6
  <2> QED BY <1>1, <2>1 DEF Letters, Letter
<1>7. (d = "Allow" <=> route[r].decision = "Allow") => Allowed' = Allowed
  BY <1>1 DEF Allowed
<1>8. (st = "proposed" <=> route[r].stage = "proposed") => Left' = Left
  BY <1>1 DEF Left, Sent
<1>9. (st = "delivered" <=> route[r].stage = "delivered") => Arrived' = Arrived
  BY <1>1 DEF Arrived
<1>10. (c = "Admit" <=> route[r].context = "Admit") => Admitted' = Admitted
  BY <1>1 DEF Admitted
<1> QED BY <1>2, <1>3, <1>4, <1>5, <1>6, <1>7, <1>8, <1>9, <1>10

LEMMA LetterWritten ==
  ASSUME NEW r \in DOMAIN route, NEW a, NEW b, NEW d, NEW st, NEW en, NEW c,
         Changed(r, <<a, b>>, d, st, en, c), route[r].payload = NoPayload
  PROVE  Letters' = Letters \cup {[name |-> r, from |-> a, to |-> b]}
<1>1. /\ DOMAIN route' = DOMAIN route /\ route'[r].payload = <<a, b>> /\ <<a, b>> # NoPayload
      /\ \A q \in DOMAIN route : q # r => route'[q].payload = route[q].payload
  BY DEF Changed, NoPayload
<1> DEFINE W == { q \in DOMAIN route : route[q].payload # NoPayload }
           W2 == { q \in DOMAIN route' : route'[q].payload # NoPayload }
           L(q) == [name |-> q, from |-> route[q].payload[1], to |-> route[q].payload[2]]
           L2(q) == [name |-> q, from |-> route'[q].payload[1], to |-> route'[q].payload[2]]
<1>2. W2 = W \cup {r} /\ r \notin W
  BY <1>1
<1>3. L2(r) = [name |-> r, from |-> a, to |-> b]
  BY <1>1
<1>4. \A q \in W : L2(q) = L(q)
  BY <1>1
<1>5. Letters = { L(q) : q \in W } /\ Letters' = { L2(q) : q \in W2 }
  BY DEF Letters, Letter
<1> HIDE DEF W, W2, L, L2
<1> QED BY <1>2, <1>3, <1>4, <1>5

LEMMA LettersAdded ==
  ASSUME NEW n, n \notin DOMAIN route, DOMAIN route' = DOMAIN route \cup {n},
         \A q \in DOMAIN route : route'[q] = route[q],
         route'[n].payload = NoPayload, route'[n].decision = "Pending", route'[n].stage = "proposed",
         route'[n].context = "Pending"
  PROVE  UNCHANGED <<Letters, Allowed, Left, Arrived, Admitted>>
<1>1. UNCHANGED <<Allowed, Left, Arrived, Admitted>>
  BY DEF Allowed, Left, Arrived, Admitted, Sent
<1>2. { q \in DOMAIN route' : route'[q].payload # NoPayload } = { q \in DOMAIN route : route[q].payload # NoPayload }
  OBVIOUS
<1>3. UNCHANGED Letters
  BY <1>2 DEF Letters, Letter
<1> QED BY <1>1, <1>3

LEMMA Mapped ==
  /\ Promise!Next <=>
       \E n \in 1..MaxRoutes :
         \/ \E a, b \in Conversation :
              /\ n \notin { l.name : l \in Letters } \cup Allowed \cup Left /\ a # b
              /\ Letters' = Letters \cup {[name |-> n, from |-> a, to |-> b]}
              /\ UNCHANGED <<Allowed, Left, Arrived, Admitted>>
         \/ /\ n \in { l.name : l \in Letters } \ Left /\ Allowed' = Allowed \cup {n}
            /\ UNCHANGED <<Letters, Left, Arrived, Admitted>>
         \/ n \in Allowed \ Left /\ Allowed' = Allowed \ {n} /\ UNCHANGED <<Letters, Left, Arrived, Admitted>>
         \/ n \in Allowed \ Left /\ Left' = Left \cup {n} /\ UNCHANGED <<Letters, Allowed, Arrived, Admitted>>
         \/ n \in Left \ Arrived /\ Arrived' = Arrived \cup {n} /\ UNCHANGED <<Letters, Allowed, Left, Admitted>>
         \/ n \in Arrived /\ Admitted' = Admitted \cup {n} /\ UNCHANGED <<Letters, Allowed, Left, Arrived>>
         \/ n \in Admitted /\ Admitted' = Admitted \ {n} /\ UNCHANGED <<Letters, Allowed, Left, Arrived>>
  /\ Promise!Init <=> Letters = {} /\ Allowed = {} /\ Left = {} /\ Arrived = {} /\ Admitted = {}
BY DEF Promise!Next, Promise!Write, Promise!Written, Promise!Allow, Promise!Forbid, Promise!Send, Promise!Arrive,
       Promise!Admit, Promise!Exclude, Promise!Init, Letters, Allowed, Left, Arrived, Admitted

(* A letter leaves only when the user allows it, arrives once and          *)
(* unchanged, and is shown to a model only while the user admits it:       *)
(* routing implements the mailboxes.                                       *)
THEOREM PromiseKept == Spec => KeepsPromise
<1> DEFINE Seen == <<Letters, Allowed, Left, Arrived, Admitted>>
<1>1. Init => Promise!Init
  <2> SUFFICES ASSUME Init PROVE Promise!Init
    OBVIOUS
  <2>1. DOMAIN route = {}
    BY EmptySeq DEF Init
  <2>2. Letters = {} /\ Allowed = {} /\ Left = {} /\ Arrived = {} /\ Admitted = {}
    BY <2>1 DEF Letters, Allowed, Left, Arrived, Admitted
  <2> QED BY <2>2, Mapped
<1>2. IInv /\ [Next]_vars => [Promise!Next]_Seen
  <2> SUFFICES ASSUME IInv, [Next]_vars PROVE Promise!Next \/ UNCHANGED Seen
    OBVIOUS
  <2>1. RouteMove /\ TypeOK /\ RouteInv /\ AddressesUnique /\ HomeInv
    BY StepFacts DEF IInv
  <2>2. \A r \in DOMAIN route : r \in 1..MaxRoutes
    BY <2>1, TypedRoutes
  <2>3. \A r \in DOMAIN route : r \in { l.name : l \in Letters } <=> route[r].payload # NoPayload
    <3>1. \A r \in DOMAIN route : Letter(r).name = r
      BY DEF Letter
    <3>2. \A r \in DOMAIN route : route[r].payload # NoPayload => Letter(r) \in Letters
      BY DEF Letters
    <3>3. \A l \in Letters : \E q \in DOMAIN route : route[q].payload # NoPayload /\ l = Letter(q)
      BY DEF Letters
    <3> QED BY <3>1, <3>2, <3>3
  <2>4. \A r \in DOMAIN route :
          /\ r \in Allowed <=> route[r].decision = "Allow"
          /\ r \in Left <=> route[r].stage # "proposed"
          /\ r \in Arrived <=> route[r].stage = "delivered"
          /\ r \in Admitted <=> route[r].context = "Admit"
    BY DEF Allowed, Left, Arrived, Admitted, Sent
  <2>5. \A r \in DOMAIN route : route[r].decision = "Allow" => route[r].payload # NoPayload
    BY <2>1 DEF RouteInv
  <2>6. CASE route' = route
    <3>1. UNCHANGED Seen
      BY <2>6 DEF Letters, Letter, Allowed, Left, Arrived, Admitted, Sent
    <3> QED BY <3>1
  <2>7. CASE \E a, b \in Conversation : Proposed(a, b)
    <3> DEFINE n == Len(route) + 1
    <3>1. /\ n \notin DOMAIN route /\ DOMAIN route' = DOMAIN route \cup {n}
          /\ \A q \in DOMAIN route : route'[q] = route[q]
          /\ route'[n].payload = NoPayload /\ route'[n].decision = "Pending" /\ route'[n].stage = "proposed"
          /\ route'[n].context = "Pending"
      BY <2>7 DEF Proposed
    <3> HIDE DEF n
    <3> QED BY <3>1, LettersAdded
  <2>8. CASE \E r \in DOMAIN route, a, b \in Conversation : Written(r, a, b)
    <3>1. PICK r \in DOMAIN route, a \in Conversation, b \in Conversation : Written(r, a, b)
      BY <2>8
    <3>2. /\ Changed(r, <<a, b>>, route[r].decision, route[r].stage, route[r].ends, route[r].context)
          /\ route[r].payload = NoPayload /\ route[r].stage = "proposed" /\ a # b
      BY <3>1 DEF Written, Sent, Between
    <3>3. Letters' = Letters \cup {[name |-> r, from |-> a, to |-> b]}
      BY <3>2, LetterWritten
    <3>4. UNCHANGED <<Allowed, Left, Arrived, Admitted>>
      BY <3>2, LettersChange
    <3>5. r \notin { l.name : l \in Letters } \cup Allowed \cup Left
      BY <2>3, <2>4, <2>5, <3>2
    <3> QED BY <2>2, <3>2, <3>3, <3>4, <3>5, Mapped
  <2>9. CASE \E r \in DOMAIN route : \E decision \in {"Allow", "Deny"} : Decided(r, decision)
    <3>1. PICK r \in DOMAIN route, decision \in {"Allow", "Deny"} : Decided(r, decision)
      BY <2>9
    <3>2. /\ Changed(r, route[r].payload, decision, route[r].stage, route[r].ends, route[r].context)
          /\ route[r].stage = "proposed" /\ (decision = "Allow" => route[r].payload # NoPayload)
      BY <3>1 DEF Decided, Sent
    <3>3. UNCHANGED <<Letters, Left, Arrived, Admitted>>
      BY <3>2, LettersChange
    <3>4. Allowed' = IF decision = "Allow" THEN Allowed \cup {r} ELSE Allowed \ {r}
      BY <3>2, LettersChange
    <3>5. CASE decision = "Allow"
      BY <2>2, <2>3, <2>4, <3>2, <3>3, <3>4, <3>5, Mapped
    <3>6. CASE decision # "Allow" /\ r \in Allowed
      BY <2>2, <2>4, <3>2, <3>3, <3>4, <3>6, Mapped
    <3>7. CASE decision # "Allow" /\ r \notin Allowed
      BY <3>3, <3>4, <3>7
    <3> QED BY <3>5, <3>6, <3>7
  <2>10. ASSUME NEW r \in DOMAIN route, Dispatched(r) PROVE Promise!Next
    <3>1. /\ Changed(r, route[r].payload, route[r].decision, "dispatched", route[r].ends, route[r].context)
          /\ route[r].stage = "proposed" /\ route[r].decision = "Allow"
      BY <2>10 DEF Dispatched, Sent
    <3>2. UNCHANGED <<Letters, Allowed, Arrived, Admitted>> /\ Left' = Left \cup {r}
      BY <3>1, LettersChange
    <3> QED BY <2>2, <2>4, <3>1, <3>2, Mapped
  <2>11. ASSUME NEW r \in DOMAIN route, Delivered(r) PROVE Promise!Next
    <3>1. /\ Changed(r, route[r].payload, route[r].decision, "delivered", CurrentEnds(r), route[r].context)
          /\ route[r].stage = "dispatched"
      BY <2>11 DEF Delivered
    <3>2. UNCHANGED <<Letters, Allowed, Left, Admitted>> /\ Arrived' = Arrived \cup {r}
      BY <3>1, LettersChange
    <3> QED BY <2>2, <2>4, <3>1, <3>2, Mapped
  <2>12. CASE \E r \in DOMAIN route : \E decision \in ContextDecision : Shown(r, decision)
    <3>1. PICK r \in DOMAIN route, decision \in ContextDecision : Shown(r, decision)
      BY <2>12
    <3>2. /\ Changed(r, route[r].payload, route[r].decision, route[r].stage, route[r].ends, decision)
          /\ route[r].stage = "delivered"
      BY <3>1 DEF Shown
    <3>3. UNCHANGED <<Letters, Allowed, Left, Arrived>>
      BY <3>2, LettersChange
    <3>4. Admitted' = IF decision = "Admit" THEN Admitted \cup {r} ELSE Admitted \ {r}
      BY <3>2, LettersChange
    <3>5. CASE decision = "Admit"
      BY <2>2, <2>4, <3>2, <3>3, <3>4, <3>5, Mapped
    <3>6. CASE decision # "Admit" /\ r \in Admitted
      BY <2>2, <2>4, <3>2, <3>3, <3>4, <3>6, Mapped
    <3>7. CASE decision # "Admit" /\ r \notin Admitted
      BY <3>3, <3>4, <3>7
    <3> QED BY <3>5, <3>6, <3>7
  <2> QED BY <2>1, <2>6, <2>7, <2>8, <2>9, <2>10, <2>11, <2>12 DEF RouteMove
<1> QED BY Inductive, <1>1, <1>2, PTL DEF Spec, KeepsPromise, Promise!Spec, Letters, Allowed, Left, Arrived, Admitted

-----------------------------------------------------------------------------
(***************************************************************************)
(* Proofs about Coordination, which has constants and variables of its     *)
(* own: those of the workspace its promises speak of are declared by       *)
(* WorkspacePromises, the others here.                                     *)
(***************************************************************************)
CONSTANTS
  Worker, Displayed, Edge, Policy, MaxMessages, Allowance, MaxWakes, MaxRetries,
  MaxRestarts, PrecheckNeedsClaim

VARIABLES lease, armed, wakes, waking, sending, pending, queue, restarts

Space == INSTANCE Coordination

(* The edges carry policies. *)
LinkInv == DOMAIN link \subseteq Edge /\ \A e \in DOMAIN link : link[e] \in Policy

(* What is remembered of a message's delivery is its age. *)
MessageInv ==
  /\ message \in Seq(Space!Message) /\ Len(message) <= MaxMessages
  /\ ago \in Seq(Space!Age) /\ Len(ago) = Len(message)
  /\ \A i \in DOMAIN message : ago[i] = message[i].age

(* No message is lost, and none changes its sender or its recipient. *)
MessagesKept ==
  /\ DOMAIN message \subseteq DOMAIN message'
  /\ \A i \in DOMAIN message : message'[i].from = message[i].from /\ message'[i].to = message[i].to

(* A lease claims directives to its worker, the active one among them. *)
ClaimInv ==
  /\ lease \in [Worker -> Space!Lease]
  /\ \A w \in Worker :
       /\ lease[w].active # Space!None => lease[w].active \in lease[w].claimed
       /\ \A i \in lease[w].claimed : i \in DOMAIN message /\ message[i].to = w

(* The recipient of the directive has claimed it. *)
IsClaimed(i) == i \in DOMAIN message /\ i \in lease[message[i].to].claimed

(* A turn that waits for its answer, or to be sent again. *)
ActiveTurn ==
  [turn : Space!Turn, worker : Worker, first : BOOLEAN, waits : BOOLEAN, retries : 0..MaxRetries]

(* Who runs which turn. *)
SlotInv ==
  /\ waking = Space!NoTurn \/ waking \in [turn : Space!Id, worker : Worker]
  /\ sending = Space!NoTurn \/ sending \in [worker : Worker, ids : SUBSET Space!Id]
  /\ pending = Space!NoTurn \/ pending \in [turn : Space!Turn, worker : Worker, ids : SUBSET Space!Id, first : BOOLEAN]
  /\ active = Space!NoTurn \/ active \in ActiveTurn

(* The directive of a wake is claimed, and no other turn of it runs while  *)
(* its start is being journaled.                                           *)
WakeInv ==
  /\ waking # Space!NoTurn => waking.turn \in lease[waking.worker].claimed
  /\ pending # Space!NoTurn /\ pending.turn \in Space!Id => pending.turn \in lease[pending.worker].claimed
  /\ active # Space!NoTurn /\ active.turn \in Space!Id => active.turn \in lease[active.worker].claimed
  /\ waking # Space!NoTurn => ~Space!Runs(pending, waking.turn) /\ ~Space!Runs(active, waking.turn)

(* At most one message is on its way into the journal, the one of sending. *)
NoCommit(q) == \A k \in DOMAIN q : q[k].kind # "committed"

OneCommit(q) ==
  \A k, l \in DOMAIN q : q[k].kind = "committed" /\ q[l].kind = "committed" => k = l

QueueInv ==
  /\ queue \in Seq(Space!Event)
  /\ OneCommit(queue)
  /\ sending = Space!NoTurn => NoCommit(queue)

(* A directive whose wake has sent its first request stays claimed, and no *)
(* turn that would send a first request for it is on its way; a wake that  *)
(* waits for its answer, or to be sent again, is one of these.             *)
AskedInv ==
  /\ asked \subseteq Space!Id
  /\ active # Space!NoTurn /\ active.turn \in Space!Id => active.turn \in asked
  /\ \A i \in asked : IsClaimed(i) /\ ~Space!Runs(waking, i) /\ ~(Space!Runs(pending, i) /\ pending.first)

(* While a stopped claim is open its worker is not armed. *)
HaltInv ==
  /\ halted \subseteq Space!Id
  /\ \A i \in halted :
       IsClaimed(i) /\ (lease[message[i].to].active = i => message[i].to \notin armed)

(* The bounds. *)
CountInv == armed \subseteq Worker /\ wakes \in 0..MaxWakes /\ restarts \in 0..MaxRestarts

(* The inductive invariant. *)
SpaceInv ==
  /\ LinkInv /\ MessageInv /\ ClaimInv /\ SlotInv /\ WakeInv
  /\ QueueInv /\ AskedInv /\ HaltInv /\ CountInv

-----------------------------------------------------------------------------
(* The library's least number of a set is what its name says. *)
LEMMA Least ==
  ASSUME NEW S \in SUBSET Nat, S # {}
  PROVE  Space!Min(S) \in S /\ \A y \in S : Space!Min(S) <= y
<1>1. PICK x \in S : \A y \in S : ~(<<y, x>> \in OpToRel(<, Nat))
  BY WFMin, NatLessThanWellFounded
<1>2. \A y \in S : ~(y < x)
  BY <1>1 DEF OpToRel
<1>3. \A y \in S : x <= y
  BY <1>2
<1>4. \E m \in S : \A y \in S : m <= y
  BY <1>3
<1> QED BY <1>4 DEF Space!Min

LEMMA Numbers ==
  ASSUME Space!CoordinationAssumption
  PROVE  /\ Window \in Nat \ {0} /\ MaxMessages \in Nat /\ Allowance \in Nat
         /\ MaxWakes \in Nat /\ MaxRetries \in Nat /\ MaxRestarts \in Nat
         /\ Displayed \subseteq Worker
BY DEF Space!CoordinationAssumption

LEMMA Places ==
  ASSUME MessageInv
  PROVE  /\ Len(message) \in Nat /\ DOMAIN message = 1..Len(message)
         /\ DOMAIN ago = DOMAIN message
         /\ \A i \in DOMAIN message : message[i] \in Space!Message /\ ago[i] \in Space!Age
BY DEF MessageInv

LEMMA InId ==
  ASSUME Space!CoordinationAssumption, MessageInv
  PROVE  DOMAIN message \subseteq Space!Id
<1>1. MaxMessages \in Nat
  BY Numbers
<1> QED BY <1>1, Places DEF MessageInv, Space!Id

(* Messages rewritten in place. *)
LEMMA InPlace ==
  ASSUME MessageInv,
         message' = [i \in DOMAIN message |-> message'[i]],
         ago' = [i \in DOMAIN message |-> ago'[i]],
         \A i \in DOMAIN message :
           /\ message'[i] \in Space!Message /\ ago'[i] = message'[i].age
           /\ message'[i].from = message[i].from /\ message'[i].to = message[i].to
  PROVE  MessageInv' /\ MessagesKept
<1>1. Len(message) \in Nat /\ DOMAIN message = 1..Len(message)
  BY Places
<1>2. \A i \in DOMAIN message : ago'[i] \in Space!Age
  BY DEF Space!Message
<1>3. message' \in Seq(Space!Message) /\ Len(message') = Len(message)
  BY <1>1
<1>4. ago' \in Seq(Space!Age) /\ Len(ago') = Len(message)
  BY <1>1, <1>2
<1>5. DOMAIN message' = DOMAIN message
  OBVIOUS
<1> QED BY <1>3, <1>4, <1>5 DEF MessageInv, MessagesKept, Space!Age, Space!Message

(* What is delivered at once is carried by a route, which if it is metered *)
(* has room and no message waiting.                                        *)
LEMMA VerdictFacts ==
  ASSUME NEW a, NEW b, NEW kind, NEW held
  PROVE  /\ Space!Delivery(a, b, kind, held)[1] \in {"blocked", "queued", "approval", "delivered"}
         /\ Space!Delivery(a, b, kind, held)[2] \in {"policy", "rate"}
         /\ Space!Delivery(a, b, kind, held)[1] = "delivered" =>
              /\ Space!Carries(Space!RouteFor(a, b), kind)
              /\ Space!RouteFor(a, b).mode = "rate_limit" => ~held /\ ~(Space!Recent(a, b) >= Space!RouteFor(a, b).rate)
BY DEF Space!Delivery

LEMMA Words ==
  /\ {"delivered", "consumed", "queued", "approval", "blocked", "rejected", "deleted"} \subseteq Space!Status
  /\ {"policy", "rate", "released", "admitted"} \subseteq Space!Note
BY DEF Space!Status, Space!Note

(* send appends one message, and leaves those before it alone. *)
LEMMA PutFacts ==
  ASSUME Space!CoordinationAssumption, MessageInv, NEW a \in Worker, NEW b \in Worker, NEW kind \in Space!Kind,
         Space!Put(a, b, kind)
  PROVE  /\ MessageInv' /\ MessagesKept
         /\ Len(message) + 1 \in DOMAIN message'
         /\ \A i \in DOMAIN message : message'[i] = message[i]
         /\ \A i \in DOMAIN message' : i \in DOMAIN message \/ i = Len(message) + 1
         /\ message'[Len(message) + 1].from = a /\ message'[Len(message) + 1].to = b
         /\ message'[Len(message) + 1].status = "delivered" =>
              /\ Space!Carries(Space!RouteFor(a, b), kind)
              /\ Space!RouteFor(a, b).mode = "rate_limit" =>
                   ~Space!Backlog(a, b) /\ ~(Space!Recent(a, b) >= Space!RouteFor(a, b).rate)
<1> DEFINE v == Space!Delivery(a, b, kind, Space!Backlog(a, b))
           e == [from |-> a, to |-> b, kind |-> kind, status |-> v[1], note |-> v[2], age |-> Space!AgeOf(v)]
<1>1. message' = Append(message, e) /\ ago' = Append(ago, Space!AgeOf(v)) /\ Len(message) < MaxMessages
  BY DEF Space!Put, Space!Post
<1>2. v[1] \in Space!Status /\ v[2] \in Space!Note
  BY VerdictFacts DEF Space!Status, Space!Note
<1>3. Space!AgeOf(v) \in Space!Age
  BY Numbers DEF Space!AgeOf, Space!Age
<1>4. e \in Space!Message
  BY <1>2, <1>3 DEF Space!Message
<1>5. Len(message) \in Nat /\ MaxMessages \in Nat /\ DOMAIN message = 1..Len(message)
  BY Places, Numbers
<1>6. v[1] = "delivered" =>
        /\ Space!Carries(Space!RouteFor(a, b), kind)
        /\ Space!RouteFor(a, b).mode = "rate_limit" =>
             ~Space!Backlog(a, b) /\ ~(Space!Recent(a, b) >= Space!RouteFor(a, b).rate)
  BY VerdictFacts
<1>7. e.from = a /\ e.to = b /\ e.status = v[1] /\ e.age = Space!AgeOf(v)
  OBVIOUS
<1> HIDE DEF v, e
<1>8. /\ message' \in Seq(Space!Message) /\ Len(message') = Len(message) + 1
      /\ DOMAIN message' = 1..Len(message) + 1
      /\ \A i \in 1..Len(message) : message'[i] = message[i]
      /\ message'[Len(message) + 1] = e
  BY <1>1, <1>4, <1>5 DEF MessageInv
<1>9. /\ ago' \in Seq(Space!Age) /\ Len(ago') = Len(message) + 1
      /\ \A i \in 1..Len(message) : ago'[i] = ago[i]
      /\ ago'[Len(message) + 1] = Space!AgeOf(v)
  BY <1>1, <1>3, <1>5 DEF MessageInv
<1>10. \A i \in DOMAIN message' : i \in DOMAIN message \/ i = Len(message) + 1
  BY <1>5, <1>8
<1>11. \A i \in DOMAIN message' : ago'[i] = message'[i].age
  BY <1>5, <1>7, <1>8, <1>9, <1>10 DEF MessageInv
<1>12. MessageInv'
  BY <1>1, <1>5, <1>8, <1>9, <1>11 DEF MessageInv
<1>13. MessagesKept
  BY <1>5, <1>8 DEF MessagesKept
<1>14. Len(message) + 1 \in DOMAIN message' /\ \A i \in DOMAIN message : message'[i] = message[i]
  BY <1>5, <1>8
<1> QED BY <1>6, <1>7, <1>8, <1>10, <1>12, <1>13, <1>14

(* A step that changes messages in place and delivers none by itself. *)
Quietly ==
  /\ MessageInv' /\ MessagesKept /\ DOMAIN message' = DOMAIN message
  /\ \A i \in DOMAIN message : ~Space!ByItself(i)

LEMMA RestampedFacts ==
  ASSUME Space!CoordinationAssumption, MessageInv, NEW i \in DOMAIN message,
         NEW status \in Space!Status, NEW note \in Space!Note, Space!Restamped(i, status, note),
         status = "delivered" => note = "released"
  PROVE  Quietly
<1> DEFINE t == IF status = "delivered" THEN 0 ELSE message[i].age
<1>1. /\ message' = [message EXCEPT ![i].status = status, ![i].note = note,
                                    ![i].age = IF status = "delivered" THEN 0 ELSE @]
      /\ ago' = [ago EXCEPT ![i] = IF status = "delivered" THEN 0 ELSE @]
  BY DEF Space!Restamped
<1>2. \A j \in DOMAIN message : message[j] \in Space!Message /\ ago[j] = message[j].age
  BY Places DEF MessageInv
<1>3. message[i].age \in Space!Age /\ 0 \in Space!Age
  BY <1>2, Numbers DEF Space!Message, Space!Age
<1>4. t \in Space!Age
  BY <1>3
<1>5. DOMAIN ago = DOMAIN message
  BY Places
<1>6. /\ message' = [j \in DOMAIN message |-> message'[j]]
      /\ ago' = [j \in DOMAIN message |-> ago'[j]]
  BY <1>1, <1>5
<1>7. /\ message'[i] = [message[i] EXCEPT !.status = status, !.note = note, !.age = t]
      /\ \A j \in DOMAIN message : j # i => message'[j] = message[j]
  BY <1>1
<1>8. ago'[i] = t /\ \A j \in DOMAIN message : j # i => ago'[j] = ago[j]
  BY <1>1, <1>2, <1>5
<1> HIDE DEF t
<1>9. message'[i] \in Space!Message /\ message'[i].age = t /\ message'[i].from = message[i].from
      /\ message'[i].to = message[i].to /\ message'[i].status = status /\ message'[i].note = note
  BY <1>2, <1>4, <1>7 DEF Space!Message
<1>10. MessageInv' /\ MessagesKept
  BY <1>2, <1>6, <1>7, <1>8, <1>9, InPlace
<1>11. \A j \in DOMAIN message : ~Space!ByItself(j)
  BY <1>7, <1>9 DEF Space!ByItself, Space!NewlyDelivered
<1> QED BY <1>6, <1>10, <1>11 DEF Quietly

LEMMA DecideFacts ==
  ASSUME Space!CoordinationAssumption, MessageInv, NEW i \in DOMAIN message, NEW allow \in BOOLEAN,
         Space!Decide(i, allow)
  PROVE  Quietly
<1>1. Space!Restamped(i, "delivered", "released") \/ Space!Restamped(i, "rejected", "policy")
  BY DEF Space!Decide
<1>2. /\ "delivered" \in Space!Status /\ "rejected" \in Space!Status
      /\ "released" \in Space!Note /\ "policy" \in Space!Note
  BY Words
<1>3. CASE Space!Restamped(i, "delivered", "released")
  BY <1>2, <1>3, RestampedFacts
<1>4. CASE Space!Restamped(i, "rejected", "policy")
  BY <1>2, <1>4, RestampedFacts
<1> QED BY <1>1, <1>3, <1>4

LEMMA DeleteFacts ==
  ASSUME Space!CoordinationAssumption, MessageInv, NEW i \in DOMAIN message, Space!DeleteMessage(i)
  PROVE  Quietly
<1>1. /\ message' = [message EXCEPT ![i].status = "deleted", ![i].note = "policy"]
      /\ ago' = ago
  BY DEF Space!DeleteMessage, Space!history
<1>2. \A j \in DOMAIN message : message[j] \in Space!Message /\ ago[j] = message[j].age
  BY Places DEF MessageInv
<1>3. DOMAIN ago = DOMAIN message
  BY Places
<1>4. ago = [j \in DOMAIN ago |-> ago[j]]
  BY DEF MessageInv
<1>5. /\ message' = [j \in DOMAIN message |-> message'[j]]
      /\ ago' = [j \in DOMAIN message |-> ago'[j]]
  BY <1>1, <1>3, <1>4
<1>6. /\ message'[i] = [message[i] EXCEPT !.status = "deleted", !.note = "policy"]
      /\ \A j \in DOMAIN message : j # i => message'[j] = message[j]
  BY <1>1
<1>7. "deleted" \in Space!Status /\ "policy" \in Space!Note
  BY Words
<1>8. /\ message'[i] \in Space!Message /\ message'[i].age = message[i].age
      /\ message'[i].from = message[i].from /\ message'[i].to = message[i].to
      /\ message'[i].status = "deleted"
  BY <1>2, <1>6, <1>7 DEF Space!Message
<1>9. MessageInv' /\ MessagesKept
  BY <1>1, <1>2, <1>5, <1>6, <1>8, InPlace
<1>10. \A j \in DOMAIN message : ~Space!ByItself(j)
  BY <1>6, <1>8 DEF Space!ByItself, Space!NewlyDelivered
<1> QED BY <1>5, <1>9, <1>10 DEF Quietly

LEMMA Older ==
  ASSUME Space!CoordinationAssumption, NEW t \in Space!Age
  PROVE  Space!Min({t + 1, Window}) \in Space!Age
<1>1. Window \in Nat /\ t \in Nat /\ t <= Window
  BY Numbers DEF Space!Age
<1>2. {t + 1, Window} \in SUBSET Nat /\ {t + 1, Window} # {}
  BY <1>1
<1>3. Space!Min({t + 1, Window}) \in {t + 1, Window} /\ \A y \in {t + 1, Window} : Space!Min({t + 1, Window}) <= y
  BY <1>2, Least
<1> QED BY <1>1, <1>3 DEF Space!Age

LEMMA TickFacts ==
  ASSUME Space!CoordinationAssumption, MessageInv, Space!Tick
  PROVE  Quietly
<1> DEFINE Later(t) == Space!Min({t + 1, Window})
<1>1. /\ message' = [i \in DOMAIN message |-> [message[i] EXCEPT !.age = Later(@)]]
      /\ ago' = [i \in DOMAIN message |-> Later(ago[i])]
  BY DEF Space!Tick
<1>2. \A j \in DOMAIN message : message[j] \in Space!Message /\ ago[j] = message[j].age
  BY Places DEF MessageInv
<1>3. \A t \in Space!Age : Later(t) \in Space!Age
  BY Older
<1> HIDE DEF Later
<1>4. /\ message' = [j \in DOMAIN message |-> message'[j]]
      /\ ago' = [j \in DOMAIN message |-> ago'[j]]
  BY <1>1
<1>5. \A j \in DOMAIN message :
        /\ message'[j] \in Space!Message /\ ago'[j] = message'[j].age
        /\ message'[j].from = message[j].from /\ message'[j].to = message[j].to
        /\ message'[j].status = message[j].status
  BY <1>1, <1>2, <1>3 DEF Space!Message
<1>6. MessageInv' /\ MessagesKept
  BY <1>4, <1>5, InPlace
<1>7. \A j \in DOMAIN message : ~Space!ByItself(j)
  BY <1>5 DEF Space!ByItself, Space!NewlyDelivered
<1> QED BY <1>4, <1>6, <1>7 DEF Quietly

LEMMA ConsumeFacts ==
  ASSUME Space!CoordinationAssumption, MessageInv, NEW turn, NEW saved, Space!Consume(turn, saved), ago' = ago
  PROVE  Quietly
<1> DEFINE S == { i \in DOMAIN message : saved /\ i \in turn.ids \cap Space!Inbox(turn.worker) }
<1>1. message' = [i \in DOMAIN message |->
        IF saved /\ i \in turn.ids \cap Space!Inbox(turn.worker)
        THEN [message[i] EXCEPT !.status = "consumed", !.note = "admitted"] ELSE message[i]]
  BY DEF Space!Consume
<1>2. \A i \in DOMAIN message :
        message'[i] = IF i \in S THEN [message[i] EXCEPT !.status = "consumed", !.note = "admitted"]
                      ELSE message[i]
  BY <1>1
<1>3. \A j \in DOMAIN message : message[j] \in Space!Message /\ ago[j] = message[j].age
  BY Places DEF MessageInv
<1>3a. message' = [j \in DOMAIN message |-> message'[j]]
  BY <1>1, Zenon
<1>3b. ago = [j \in DOMAIN ago |-> ago[j]] /\ DOMAIN ago = DOMAIN message
  BY Places DEF MessageInv
<1>4. /\ message' = [j \in DOMAIN message |-> message'[j]]
      /\ ago' = [j \in DOMAIN message |-> ago'[j]]
  BY <1>3a, <1>3b
<1> HIDE DEF S
<1>5. "consumed" \in Space!Status /\ "admitted" \in Space!Note
  BY Words
<1>6. \A j \in DOMAIN message :
        /\ message'[j] \in Space!Message /\ message'[j].age = message[j].age
        /\ message'[j].from = message[j].from /\ message'[j].to = message[j].to
        /\ message'[j].status = "consumed" \/ message'[j].status = message[j].status
  <2> TAKE j \in DOMAIN message
  <2>1. CASE j \in S
    BY <1>2, <1>3, <1>5, <2>1 DEF Space!Message
  <2>2. CASE j \notin S
    BY <1>2, <1>3, <2>2
  <2> QED BY <2>1, <2>2
<1>7. MessageInv' /\ MessagesKept
  BY <1>3, <1>4, <1>6, InPlace
<1>8. \A j \in DOMAIN message : ~Space!ByItself(j)
  BY <1>6 DEF Space!ByItself, Space!NewlyDelivered
<1> QED BY <1>4, <1>7, <1>8 DEF Quietly

(* A message waiting for room is delivered when it is its turn, rejected   *)
(* when its route no longer meters it, and otherwise left.                 *)
LEMMA AdvanceFacts ==
  ASSUME Space!CoordinationAssumption, MessageInv, Space!AdvanceQueues
  PROVE  /\ MessageInv' /\ MessagesKept /\ DOMAIN message' = DOMAIN message
         /\ \A i \in DOMAIN message :
              \/ /\ Space!Metered(i) /\ Space!Turns(i) /\ message'[i].status = "delivered"
              \/ /\ ~(Space!Metered(i) /\ Space!Turns(i)) /\ ~Space!RateQueued(i)
                 /\ message'[i] = message[i]
              \/ /\ ~(Space!Metered(i) /\ Space!Turns(i)) /\ message'[i].status = "rejected"
                 /\ message'[i].age = message[i].age
              \/ /\ ~(Space!Metered(i) /\ Space!Turns(i)) /\ Space!Metered(i)
                 /\ message'[i] = message[i]
<1> DEFINE R == { i \in DOMAIN message : Space!Metered(i) /\ Space!Turns(i) }
           D == { i \in DOMAIN message : Space!RateQueued(i) /\ ~Space!Metered(i) }
<1>1. /\ message' = [i \in DOMAIN message |->
           CASE i \in R -> [message[i] EXCEPT !.status = "delivered", !.note = "policy", !.age = 0]
             [] i \in D -> [message[i] EXCEPT !.status = "rejected", !.note = "policy"]
             [] OTHER -> message[i]]
      /\ ago' = [i \in DOMAIN message |-> IF i \in R THEN 0 ELSE ago[i]]
  BY DEF Space!AdvanceQueues
<1>2. \A j \in DOMAIN message : message[j] \in Space!Message /\ ago[j] = message[j].age
  BY Places DEF MessageInv
<1>3. R \cap D = {}
  OBVIOUS
<1>4. \A i \in DOMAIN message :
        /\ (i \in R <=> Space!Metered(i) /\ Space!Turns(i)) /\ (i \in D <=> Space!RateQueued(i) /\ ~Space!Metered(i))
        /\ Space!Metered(i) => Space!RateQueued(i)
  BY DEF Space!Metered
<1> DEFINE V(i) == CASE i \in R -> [message[i] EXCEPT !.status = "delivered", !.note = "policy", !.age = 0]
             [] i \in D -> [message[i] EXCEPT !.status = "rejected", !.note = "policy"]
             [] OTHER -> message[i]
<1>4a. /\ message' = [i \in DOMAIN message |-> V(i)]
       /\ ago' = [i \in DOMAIN message |-> IF i \in R THEN 0 ELSE ago[i]]
  BY <1>1
<1> HIDE DEF V
<1>4b. /\ message' = [j \in DOMAIN message |-> message'[j]]
       /\ ago' = [j \in DOMAIN message |-> ago'[j]]
  BY <1>4a
<1> HIDE DEF R, D
<1>5. \A i \in DOMAIN message :
        /\ i \in R => message'[i] = [message[i] EXCEPT !.status = "delivered", !.note = "policy", !.age = 0]
        /\ i \in D => message'[i] = [message[i] EXCEPT !.status = "rejected", !.note = "policy"]
        /\ i \notin R /\ i \notin D => message'[i] = message[i]
        /\ ago'[i] = IF i \in R THEN 0 ELSE ago[i]
  BY <1>1, <1>3
<1>6. /\ "delivered" \in Space!Status /\ "rejected" \in Space!Status /\ "policy" \in Space!Note /\ 0 \in Space!Age
  BY Words, Numbers DEF Space!Age
<1>7. \A i \in DOMAIN message :
        /\ message'[i] \in Space!Message /\ ago'[i] = message'[i].age
        /\ message'[i].from = message[i].from /\ message'[i].to = message[i].to
        /\ i \in R => message'[i].status = "delivered"
        /\ i \in D => message'[i].status = "rejected" /\ message'[i].age = message[i].age
  <2> TAKE i \in DOMAIN message
  <2> DEFINE m == message[i]
             p == message'[i]
  <2>0. m \in Space!Message /\ ago[i] = m.age
    BY <1>2
  <2>1. CASE i \in R
    <3>1. p = [m EXCEPT !.status = "delivered", !.note = "policy", !.age = 0] /\ ago'[i] = 0 /\ i \notin D
      BY <1>3, <1>5, <2>1
    <3> HIDE DEF m, p
    <3>2. /\ p \in Space!Message /\ p.age = 0 /\ p.from = m.from /\ p.to = m.to
          /\ p.status = "delivered"
      BY <1>6, <2>0, <3>1 DEF Space!Message
    <3> QED BY <3>1, <3>2 DEF m, p
  <2>2. CASE i \in D
    <3>1. p = [m EXCEPT !.status = "rejected", !.note = "policy"] /\ ago'[i] = ago[i] /\ i \notin R
      BY <1>3, <1>5, <2>2
    <3> HIDE DEF m, p
    <3>2. /\ p \in Space!Message /\ p.age = m.age /\ p.from = m.from /\ p.to = m.to
          /\ p.status = "rejected"
      BY <1>6, <2>0, <3>1 DEF Space!Message
    <3> QED BY <2>0, <3>1, <3>2 DEF m, p
  <2>3. CASE i \notin R /\ i \notin D
    BY <1>2, <1>5, <2>3
  <2> QED BY <2>1, <2>2, <2>3
<1>8. /\ message' = [j \in DOMAIN message |-> message'[j]]
      /\ ago' = [j \in DOMAIN message |-> ago'[j]]
  BY <1>4b
<1>9. MessageInv' /\ MessagesKept
  BY <1>7, <1>8, InPlace
<1>10. DOMAIN message' = DOMAIN message
  BY <1>8
<1> QED BY <1>4, <1>5, <1>7, <1>9, <1>10

-----------------------------------------------------------------------------
(* The queue of events. *)
LEMMA TailFacts ==
  ASSUME NEW q \in Seq(Space!Event), q # <<>>, OneCommit(q)
  PROVE  /\ Tail(q) \in Seq(Space!Event) /\ OneCommit(Tail(q)) /\ Head(q) \in Space!Event
         /\ NoCommit(q) => NoCommit(Tail(q))
         /\ Head(q).kind = "committed" => NoCommit(Tail(q))
<1>1. /\ Tail(q) \in Seq(Space!Event) /\ Head(q) = q[1] /\ Head(q) \in Space!Event
      /\ 1 \in DOMAIN q
      /\ \A k \in DOMAIN Tail(q) : k \in Nat /\ k >= 1 /\ k + 1 \in DOMAIN q /\ Tail(q)[k] = q[k + 1]
  OBVIOUS
<1>2. OneCommit(Tail(q))
  BY <1>1 DEF OneCommit
<1>3. NoCommit(q) => NoCommit(Tail(q))
  BY <1>1 DEF NoCommit
<1>4. Head(q).kind = "committed" => NoCommit(Tail(q))
  BY <1>1 DEF NoCommit, OneCommit
<1> QED BY <1>1, <1>2, <1>3, <1>4

LEMMA AppendFacts ==
  ASSUME NEW q \in Seq(Space!Event), NEW e \in Space!Event
  PROVE  /\ Append(q, e) \in Seq(Space!Event)
         /\ e.kind # "committed" /\ OneCommit(q) => OneCommit(Append(q, e))
         /\ e.kind # "committed" /\ NoCommit(q) => NoCommit(Append(q, e))
         /\ NoCommit(q) => OneCommit(Append(q, e))
<1>1. /\ Append(q, e) \in Seq(Space!Event)
      /\ \A k \in DOMAIN Append(q, e) :
           (k \in DOMAIN q /\ Append(q, e)[k] = q[k]) \/ (k = Len(q) + 1 /\ Append(q, e)[k] = e)
  OBVIOUS
<1> QED BY <1>1 DEF OneCommit, NoCommit

(* The three ways a step may read and follow the queue. *)
LEMMA ReadQueue ==
  ASSUME QueueInv, queue # <<>>, queue' = Tail(queue),
         Head(queue).kind = "committed" \/ sending' = sending
  PROVE  QueueInv'
BY TailFacts DEF QueueInv

LEMMA FollowQueue ==
  ASSUME QueueInv, queue # <<>>, NEW kind \in {"started", "attempted", "ended"},
         queue' = Space!FollowedBy(kind),
         Head(queue).kind = "committed" \/ sending' = sending
  PROVE  QueueInv'
<1> DEFINE q == Tail(queue)
           e == [kind |-> kind, turn |-> Head(queue).turn]
<1>1. queue \in Seq(Space!Event) /\ OneCommit(queue) /\ (sending = Space!NoTurn => NoCommit(queue))
  BY DEF QueueInv
<1>2. /\ q \in Seq(Space!Event) /\ OneCommit(q) /\ Head(queue) \in Space!Event
      /\ NoCommit(queue) => NoCommit(q)
      /\ Head(queue).kind = "committed" => NoCommit(q)
  BY <1>1, TailFacts
<1>3. e \in Space!Event /\ e.kind # "committed"
  BY <1>2 DEF Space!Event
<1>4. queue' = Append(q, e)
  BY DEF Space!FollowedBy
<1> HIDE DEF q, e
<1>5. /\ queue' \in Seq(Space!Event) /\ OneCommit(queue')
      /\ NoCommit(q) => NoCommit(queue')
  BY <1>2, <1>3, <1>4, AppendFacts
<1> QED BY <1>1, <1>2, <1>5 DEF QueueInv

LEMMA JoinQueue ==
  ASSUME QueueInv, NEW kind \in {"started", "attempted", "ended"}, NEW t \in Space!Turn,
         queue' = Append(queue, [kind |-> kind, turn |-> t]), sending' = sending
  PROVE  QueueInv'
<1> DEFINE e == [kind |-> kind, turn |-> t]
<1>1. queue \in Seq(Space!Event) /\ OneCommit(queue) /\ (sending = Space!NoTurn => NoCommit(queue))
  BY DEF QueueInv
<1>2. e \in Space!Event /\ e.kind # "committed" /\ queue' = Append(queue, e)
  BY DEF Space!Event
<1> HIDE DEF e
<1> QED BY <1>1, <1>2, AppendFacts DEF QueueInv

-----------------------------------------------------------------------------
(* What steps that do not concern a part of the state leave of it. *)
ClaimsKept == \A w \in Worker : lease[w].claimed \subseteq lease'[w].claimed

Rests(slot, was) == slot = was \/ slot = Space!NoTurn

(* The turn of the answer waits to be sent again, or is sent again. *)
Renewed ==
  /\ active # Space!NoTurn /\ active' \in ActiveTurn
  /\ active'.turn = active.turn /\ active'.worker = active.worker

SlotsRest ==
  /\ Rests(waking', waking) /\ Rests(sending', sending) /\ Rests(pending', pending)
  /\ Rests(active', active) \/ Renewed

ActiveRests == \A w \in Worker : lease'[w].active \in {lease[w].active, Space!None}

LEMMA SameMessages ==
  ASSUME MessageInv, UNCHANGED <<message, ago>>
  PROVE  MessageInv' /\ MessagesKept
BY DEF MessageInv, MessagesKept

LEMMA SameLease ==
  ASSUME ClaimInv, MessagesKept, lease' = lease
  PROVE  ClaimInv' /\ ClaimsKept /\ ActiveRests
BY DEF ClaimInv, MessagesKept, ClaimsKept, ActiveRests

LEMMA ClaimedStays ==
  ASSUME MessageInv, MessagesKept, ClaimsKept, NEW i, IsClaimed(i)
  PROVE  IsClaimed(i)' /\ message'[i].to = message[i].to /\ message[i].to \in Worker
<1>1. i \in DOMAIN message /\ i \in lease[message[i].to].claimed
  BY DEF IsClaimed
<1>2. message[i].to \in Worker
  BY <1>1, Places DEF Space!Message
<1> QED BY <1>1, <1>2 DEF IsClaimed, MessagesKept, ClaimsKept

LEMMA SlotsStay ==
  ASSUME SlotInv, SlotsRest
  PROVE  SlotInv'
BY DEF SlotInv, SlotsRest, Rests, Renewed

LEMMA WakeStays ==
  ASSUME SlotInv, WakeInv, SlotsRest, ClaimsKept
  PROVE  WakeInv'
<1>1. waking # Space!NoTurn => waking.worker \in Worker
  BY DEF SlotInv
<1>2. pending # Space!NoTurn => pending.worker \in Worker
  BY DEF SlotInv
<1>3. active # Space!NoTurn => active.worker \in Worker
  BY DEF SlotInv, ActiveTurn
<1>4. CASE Rests(active', active)
  BY <1>1, <1>2, <1>3, <1>4 DEF WakeInv, SlotsRest, Rests, ClaimsKept, Space!Runs
<1>5. CASE Renewed
  BY <1>1, <1>2, <1>3, <1>5 DEF WakeInv, SlotsRest, Rests, Renewed, ClaimsKept, Space!Runs
<1> QED BY <1>4, <1>5 DEF SlotsRest

LEMMA AskedStays ==
  ASSUME MessageInv, MessagesKept, ClaimsKept, AskedInv, asked' = asked, SlotsRest
  PROVE  AskedInv'
<1>3. active' # Space!NoTurn /\ active'.turn \in Space!Id => active'.turn \in asked
  BY DEF AskedInv, SlotsRest, Rests, Renewed
<1> SUFFICES ASSUME NEW i, i \in asked
             PROVE  IsClaimed(i)' /\ ~Space!Runs(waking', i) /\ ~(Space!Runs(pending', i) /\ pending'.first)
  BY <1>3 DEF AskedInv, Space!Runs
<1>1. IsClaimed(i) /\ ~Space!Runs(waking, i) /\ ~(Space!Runs(pending, i) /\ pending.first)
  BY DEF AskedInv
<1>2. IsClaimed(i)'
  BY <1>1, ClaimedStays
<1> QED BY <1>1, <1>2 DEF SlotsRest, Rests, Space!Runs

LEMMA HaltStays ==
  ASSUME Space!CoordinationAssumption, MessageInv, MessagesKept, ClaimsKept, HaltInv, halted' = halted,
         ActiveRests, armed' \subseteq armed
  PROVE  HaltInv'
<1> SUFFICES ASSUME NEW i, i \in halted
             PROVE  IsClaimed(i)' /\ (lease'[message'[i].to].active = i => message'[i].to \notin armed')
  BY DEF HaltInv
<1>1. IsClaimed(i) /\ i \in Space!Id /\ (lease[message[i].to].active = i => message[i].to \notin armed)
  BY DEF HaltInv
<1>2. IsClaimed(i)' /\ message'[i].to = message[i].to /\ message[i].to \in Worker
  BY <1>1, ClaimedStays
<1>3. i # Space!None
  BY <1>1, Numbers DEF Space!Id, Space!None
<1> QED BY <1>1, <1>2, <1>3 DEF ActiveRests

-----------------------------------------------------------------------------
(* The invariant, step by step. *)
LEMMA MessageStep ==
  ASSUME Space!CoordinationAssumption, SpaceInv, MessageInv', MessagesKept,
         UNCHANGED <<link, lease, Space!window, restarts, asked, halted>>
  PROVE  SpaceInv'
<1>1. ClaimInv' /\ ClaimsKept /\ ActiveRests
  BY SameLease DEF SpaceInv
<1>2. SlotsRest /\ armed' \subseteq armed
  BY DEF Space!window, SlotsRest, Rests
<1>3. SlotInv' /\ WakeInv' /\ AskedInv' /\ HaltInv'
  BY <1>1, <1>2, SlotsStay, WakeStays, AskedStays, HaltStays DEF SpaceInv
<1>4. LinkInv' /\ QueueInv' /\ CountInv'
  BY DEF SpaceInv, LinkInv, QueueInv, CountInv, Space!window
<1> QED BY <1>1, <1>3, <1>4 DEF SpaceInv

LEMMA SetLinkStep ==
  ASSUME Space!CoordinationAssumption, SpaceInv, NEW e \in Edge, NEW policy \in Policy, Space!SetLink(e, policy)
  PROVE  SpaceInv'
<1>1. /\ link' = [d \in DOMAIN link \cup {e} |-> IF d = e THEN policy ELSE link[d]]
      /\ UNCHANGED <<message, ago, lease, asked, halted, Space!window, restarts>>
  BY DEF Space!SetLink, Space!history
<1>2. LinkInv'
  BY <1>1 DEF SpaceInv, LinkInv
<1>3. MessageInv' /\ MessagesKept
  BY <1>1, SameMessages DEF SpaceInv
<1>4. ClaimInv' /\ ClaimsKept /\ ActiveRests
  BY <1>1, <1>3, SameLease DEF SpaceInv
<1>5. SlotsRest /\ armed' \subseteq armed
  BY <1>1 DEF Space!window, SlotsRest, Rests
<1>6. SlotInv' /\ WakeInv' /\ AskedInv' /\ HaltInv'
  BY <1>1, <1>3, <1>4, <1>5, SlotsStay, WakeStays, AskedStays, HaltStays DEF SpaceInv
<1>7. QueueInv' /\ CountInv'
  BY <1>1 DEF SpaceInv, QueueInv, CountInv, Space!window
<1> QED BY <1>2, <1>3, <1>4, <1>6, <1>7 DEF SpaceInv

LEMMA GrantStep ==
  ASSUME Space!CoordinationAssumption, SpaceInv, NEW w \in Worker, Space!Grant(w)
  PROVE  SpaceInv'
<1>1. /\ lease[w].active = Space!None /\ lease' = [lease EXCEPT ![w].remaining = Allowance]
      /\ armed' = armed \cup {w}
      /\ UNCHANGED <<link, message, wakes, waking, sending, pending, active, queue, restarts,
                     ago, asked, halted>>
  BY DEF Space!Grant, Space!history
<1>2. MessageInv' /\ MessagesKept
  BY <1>1, SameMessages DEF SpaceInv
<1>3. lease \in [Worker -> Space!Lease] /\ Allowance \in 0..Allowance
  BY Numbers DEF SpaceInv, ClaimInv
<1>4. /\ lease' \in [Worker -> Space!Lease]
      /\ \A v \in Worker : lease'[v].active = lease[v].active /\ lease'[v].claimed = lease[v].claimed
  BY <1>1, <1>3 DEF Space!Lease
<1>5. ClaimInv' /\ ClaimsKept /\ ActiveRests
  BY <1>1, <1>4 DEF SpaceInv, ClaimInv, ClaimsKept, ActiveRests
<1>6. SlotsRest
  BY <1>1 DEF SlotsRest, Rests
<1>7. SlotInv' /\ WakeInv' /\ AskedInv'
  BY <1>1, <1>2, <1>5, <1>6, SlotsStay, WakeStays, AskedStays DEF SpaceInv
<1>8. HaltInv'
  <2> SUFFICES ASSUME NEW i, i \in halted
               PROVE  IsClaimed(i)' /\ (lease'[message'[i].to].active = i => message'[i].to \notin armed')
    BY <1>1 DEF SpaceInv, HaltInv
  <2>1. IsClaimed(i) /\ i \in Space!Id /\ (lease[message[i].to].active = i => message[i].to \notin armed)
    BY DEF SpaceInv, HaltInv
  <2>2. IsClaimed(i)' /\ message'[i].to = message[i].to /\ message[i].to \in Worker
    BY <1>2, <1>5, <2>1, ClaimedStays DEF SpaceInv
  <2>3. i # Space!None
    BY <2>1, Numbers DEF Space!Id, Space!None
  <2> QED BY <1>1, <1>4, <2>1, <2>2, <2>3
<1>9. LinkInv' /\ QueueInv' /\ CountInv'
  BY <1>1 DEF SpaceInv, LinkInv, QueueInv, CountInv
<1> QED BY <1>2, <1>5, <1>7, <1>8, <1>9 DEF SpaceInv

LEMMA StopStep ==
  ASSUME Space!CoordinationAssumption, SpaceInv, NEW w \in Worker, NEW saved, Space!Stop(w, saved)
  PROVE  SpaceInv'
<1>1. /\ armed' = armed \ {w}
      /\ lease' = IF saved THEN [lease EXCEPT ![w].remaining = 0, ![w].active = Space!None] ELSE lease
      /\ halted' = halted \cup ({lease[w].active} \ {Space!None})
      /\ UNCHANGED <<link, message, wakes, waking, sending, pending, active, queue, restarts,
                     ago, asked>>
  BY DEF Space!Stop
<1>2. MessageInv' /\ MessagesKept
  BY <1>1, SameMessages DEF SpaceInv
<1>3. lease \in [Worker -> Space!Lease] /\ 0 \in 0..Allowance /\ Space!None \in {Space!None} \cup Space!Id
  BY Numbers DEF SpaceInv, ClaimInv
<1>4. /\ lease' \in [Worker -> Space!Lease]
      /\ \A v \in Worker : /\ lease'[v].active \in {lease[v].active, Space!None}
                           /\ lease'[v].claimed = lease[v].claimed
  <2>1. CASE saved
    <3>1. lease' = [lease EXCEPT ![w].remaining = 0, ![w].active = Space!None]
      BY <1>1, <2>1
    <3> QED BY <1>3, <3>1 DEF Space!Lease
  <2>2. CASE ~saved
    BY <1>1, <1>3, <2>2
  <2> QED BY <2>1, <2>2
<1>5. ClaimInv' /\ ClaimsKept /\ ActiveRests
  BY <1>1, <1>4 DEF SpaceInv, ClaimInv, ClaimsKept, ActiveRests
<1>6. SlotsRest
  BY <1>1 DEF SlotsRest, Rests
<1>7. SlotInv' /\ WakeInv' /\ AskedInv'
  BY <1>1, <1>2, <1>5, <1>6, SlotsStay, WakeStays, AskedStays DEF SpaceInv
<1>8. ASSUME NEW i, i \in halted'
      PROVE  /\ i \in Space!Id
             /\ IsClaimed(i)' /\ (lease'[message'[i].to].active = i => message'[i].to \notin armed')
  <2>1. /\ IsClaimed(i) /\ i \in Space!Id
        /\ (lease[message[i].to].active = i => message[i].to \notin armed')
    <3>1. CASE i \in halted
      BY <1>1, <3>1 DEF SpaceInv, HaltInv
    <3>2. CASE i \notin halted
      <4>1. i = lease[w].active /\ i # Space!None
        BY <1>1, <1>8, <3>2
      <4>2. i \in DOMAIN message /\ message[i].to = w /\ i \in lease[w].claimed
        BY <4>1 DEF SpaceInv, ClaimInv
      <4>3. i \in Space!Id
        BY <4>2, InId DEF SpaceInv
      <4> QED BY <1>1, <4>2, <4>3 DEF IsClaimed
    <3> QED BY <3>1, <3>2
  <2>2. IsClaimed(i)' /\ message'[i].to = message[i].to /\ message[i].to \in Worker
    BY <1>2, <1>5, <2>1, ClaimedStays DEF SpaceInv
  <2>3. i # Space!None
    BY <2>1, Numbers DEF Space!Id, Space!None
  <2> QED BY <1>4, <2>1, <2>2, <2>3
<1>9. HaltInv'
  BY <1>8 DEF HaltInv
<1>10. LinkInv' /\ QueueInv' /\ CountInv'
  BY <1>1 DEF SpaceInv, LinkInv, QueueInv, CountInv
<1> QED BY <1>2, <1>5, <1>7, <1>9, <1>10 DEF SpaceInv

(* The directive a claim takes: a new one of the inbox of its worker. *)
LEMMA EligibleFacts ==
  ASSUME Space!CoordinationAssumption, SpaceInv, NEW w \in Worker, NEW i \in Space!Eligible(w)
  PROVE  /\ lease[w].remaining # 0 /\ lease[w].active = Space!None /\ i \notin lease[w].claimed
         /\ i \in DOMAIN message /\ i \in Space!Id /\ message[i].to = w
<1>1. lease[w].remaining # 0 /\ lease[w].active = Space!None
  BY DEF Space!Eligible
<1>2. i \in Space!Inbox(w) /\ i \notin lease[w].claimed
  BY <1>1 DEF Space!Eligible
<1> QED BY <1>1, <1>2, InId DEF Space!Inbox, SpaceInv

LEMMA ClaimFacts ==
  ASSUME Space!CoordinationAssumption, SpaceInv, NEW ready \in SUBSET Worker, NEW saved, Space!Claim(ready, saved)
  PROVE  \E w \in Worker, i \in Space!Id :
           /\ lease[w].remaining # 0 /\ lease[w].active = Space!None /\ i \notin lease[w].claimed
           /\ i \in DOMAIN message /\ message[i].to = w
           /\ \/ /\ lease' = [lease EXCEPT ![w].remaining = @ - 1, ![w].active = i,
                                           ![w].claimed = @ \cup {i}]
                 /\ waking' = [turn |-> i, worker |-> w]
                 /\ queue' = Append(queue, [kind |-> "started", turn |-> i])
                 /\ wakes' = wakes + 1
                 /\ UNCHANGED armed
              \/ armed' \subseteq armed /\ UNCHANGED <<lease, waking, queue, wakes>>
<1> DEFINE C == Space!Candidates(ready)
           m(v) == Space!Min(Space!Eligible(v))
           w == CHOOSE v \in C : \A u \in C : m(v) <= m(u)
           i == m(w)
<1>1. C # {}
  BY DEF Space!Claim
<1>2. /\ C \subseteq Worker
      /\ \A v \in C : Space!Eligible(v) # {}
  BY DEF Space!Candidates, SpaceInv, CountInv
<1>3. \A v \in C : m(v) \in Space!Eligible(v) /\ m(v) \in Nat
  <2> TAKE v \in C
  <2>1. Space!Eligible(v) \subseteq Space!Id
    BY <1>2, EligibleFacts
  <2>2. Space!Eligible(v) \in SUBSET Nat /\ Space!Eligible(v) # {}
    BY <1>2, <2>1, Numbers DEF Space!Id
  <2>3. Space!Min(Space!Eligible(v)) \in Space!Eligible(v)
    BY <2>2, Least
  <2> QED BY <2>2, <2>3
<1> DEFINE M == { m(v) : v \in C }
<1>4. M \in SUBSET Nat /\ M # {}
  BY <1>1, <1>3
<1>5. Space!Min(M) \in M /\ \A y \in M : Space!Min(M) <= y
  BY <1>4, Least
<1>6. \E v \in C : \A u \in C : m(v) <= m(u)
  BY <1>5
<1> HIDE DEF M, m, C
<1>7. w \in C
  BY <1>6
<1>8. /\ IF saved
         THEN /\ lease' = [lease EXCEPT ![w].remaining = @ - 1, ![w].active = i,
                                        ![w].claimed = @ \cup {i}]
              /\ waking' = [turn |-> i, worker |-> w]
              /\ queue' = Append(queue, [kind |-> "started", turn |-> i])
              /\ wakes' = wakes + 1
              /\ UNCHANGED armed
         ELSE /\ armed' = armed \ {w}
              /\ UNCHANGED <<lease, waking, queue, wakes>>
  BY DEF Space!Claim, C, m
<1> HIDE DEF w
<1>9. w \in Worker /\ i \in Space!Eligible(w)
  BY <1>2, <1>3, <1>7
<1> HIDE DEF i
<1>10. /\ lease[w].remaining # 0 /\ lease[w].active = Space!None /\ i \notin lease[w].claimed
       /\ i \in DOMAIN message /\ i \in Space!Id /\ message[i].to = w
  BY <1>9, EligibleFacts
<1>11. \/ /\ lease' = [lease EXCEPT ![w].remaining = @ - 1, ![w].active = i,
                                    ![w].claimed = @ \cup {i}]
          /\ waking' = [turn |-> i, worker |-> w]
          /\ queue' = Append(queue, [kind |-> "started", turn |-> i])
          /\ wakes' = wakes + 1
          /\ UNCHANGED armed
       \/ armed' \subseteq armed /\ UNCHANGED <<lease, waking, queue, wakes>>
  BY <1>8
<1> QED BY <1>9, <1>10, <1>11

LEMMA ClaimStep ==
  ASSUME Space!CoordinationAssumption, SpaceInv, NEW ready \in SUBSET Worker, NEW saved, Space!Claim(ready, saved)
  PROVE  SpaceInv'
<1>1. /\ waking = Space!NoTurn /\ sending = Space!NoTurn /\ pending = Space!NoTurn /\ active = Space!NoTurn
      /\ wakes < MaxWakes
      /\ UNCHANGED <<link, message, sending, pending, active, restarts, ago, asked, halted>>
  BY DEF Space!Claim, Space!Busy, Space!history
<1>2. PICK w \in Worker, i \in Space!Id :
           /\ lease[w].remaining # 0 /\ lease[w].active = Space!None /\ i \notin lease[w].claimed
           /\ i \in DOMAIN message /\ message[i].to = w
           /\ \/ /\ lease' = [lease EXCEPT ![w].remaining = @ - 1, ![w].active = i,
                                           ![w].claimed = @ \cup {i}]
                 /\ waking' = [turn |-> i, worker |-> w]
                 /\ queue' = Append(queue, [kind |-> "started", turn |-> i])
                 /\ wakes' = wakes + 1
                 /\ UNCHANGED armed
              \/ armed' \subseteq armed /\ UNCHANGED <<lease, waking, queue, wakes>>
  BY ClaimFacts
<1>3. MessageInv' /\ MessagesKept
  BY <1>1, SameMessages DEF SpaceInv
<1>4. LinkInv'
  BY <1>1 DEF SpaceInv, LinkInv
<1>5. CASE armed' \subseteq armed /\ UNCHANGED <<lease, waking, queue, wakes>>
  <2>1. ClaimInv' /\ ClaimsKept /\ ActiveRests
    BY <1>3, <1>5, SameLease DEF SpaceInv
  <2>2. SlotsRest
    BY <1>1, <1>5 DEF SlotsRest, Rests
  <2>3. SlotInv' /\ WakeInv' /\ AskedInv' /\ HaltInv'
    BY <1>1, <1>3, <1>5, <2>1, <2>2, SlotsStay, WakeStays, AskedStays, HaltStays DEF SpaceInv
  <2>4. QueueInv' /\ CountInv'
    BY <1>1, <1>5 DEF SpaceInv, QueueInv, CountInv
  <2> QED BY <1>3, <1>4, <2>1, <2>3, <2>4 DEF SpaceInv
<1>6. CASE /\ lease' = [lease EXCEPT ![w].remaining = @ - 1, ![w].active = i,
                                     ![w].claimed = @ \cup {i}]
           /\ waking' = [turn |-> i, worker |-> w]
           /\ queue' = Append(queue, [kind |-> "started", turn |-> i])
           /\ wakes' = wakes + 1
           /\ UNCHANGED armed
  <2>1. lease \in [Worker -> Space!Lease] /\ lease[w].remaining - 1 \in 0..Allowance
    BY <1>2, Numbers DEF SpaceInv, ClaimInv, Space!Lease
  <2>2. /\ lease' \in [Worker -> Space!Lease]
        /\ lease'[w].active = i /\ lease'[w].claimed = lease[w].claimed \cup {i}
        /\ \A v \in Worker : v # w => lease'[v] = lease[v]
    BY <1>6, <2>1 DEF Space!Lease
  <2>3. ClaimsKept
    BY <2>2 DEF ClaimsKept
  <2>4. ClaimInv'
    <3> SUFFICES ASSUME NEW v \in Worker
                 PROVE  /\ lease'[v].active # Space!None => lease'[v].active \in lease'[v].claimed
                        /\ \A j \in lease'[v].claimed : j \in DOMAIN message' /\ message'[j].to = v
      BY <2>2 DEF ClaimInv
    <3>1. CASE v = w
      BY <1>1, <1>2, <2>2, <3>1 DEF SpaceInv, ClaimInv
    <3>2. CASE v # w
      BY <1>1, <2>2, <3>2 DEF SpaceInv, ClaimInv
    <3> QED BY <3>1, <3>2
  <2>5. SlotInv'
    BY <1>1, <1>6 DEF SpaceInv, SlotInv
  <2>6. WakeInv'
    BY <1>1, <1>6, <2>2 DEF WakeInv, Space!Runs
  <2>7. ~IsClaimed(i)
    BY <1>2 DEF IsClaimed
  <2>8. AskedInv'
    <3> SUFFICES ASSUME NEW j, j \in asked
                 PROVE  IsClaimed(j)' /\ ~Space!Runs(waking', j) /\ ~(Space!Runs(pending', j) /\ pending'.first)
      BY <1>1 DEF SpaceInv, AskedInv, Space!Runs
    <3>1. IsClaimed(j) /\ ~(Space!Runs(pending, j) /\ pending.first)
      BY DEF SpaceInv, AskedInv
    <3>2. IsClaimed(j)' /\ j # i
      BY <1>3, <2>3, <2>7, <3>1, ClaimedStays DEF SpaceInv
    <3> QED BY <1>1, <1>6, <3>1, <3>2 DEF Space!Runs
  <2>9. HaltInv'
    <3> SUFFICES ASSUME NEW j, j \in halted
                 PROVE  IsClaimed(j)' /\ (lease'[message'[j].to].active = j => message'[j].to \notin armed')
      BY <1>1 DEF SpaceInv, HaltInv
    <3>1. IsClaimed(j) /\ (lease[message[j].to].active = j => message[j].to \notin armed)
      BY DEF SpaceInv, HaltInv
    <3>2. IsClaimed(j)' /\ j # i /\ message'[j].to = message[j].to /\ message[j].to \in Worker
      BY <1>3, <2>3, <2>7, <3>1, ClaimedStays DEF SpaceInv
    <3> QED BY <1>6, <2>2, <3>1, <3>2
  <2>10. QueueInv'
    <3>1. i \in Space!Turn /\ "started" \in {"started", "attempted", "ended"} /\ sending' = sending
      BY <1>1 DEF Space!Turn
    <3> QED BY <1>6, <3>1, JoinQueue DEF SpaceInv
  <2>11. CountInv'
    BY <1>1, <1>6, Numbers DEF SpaceInv, CountInv
  <2> QED BY <1>3, <1>4, <2>4, <2>5, <2>6, <2>8, <2>9, <2>10, <2>11 DEF SpaceInv
<1> QED BY <1>2, <1>5, <1>6

LEMMA Apart ==
  ASSUME Space!CoordinationAssumption
  PROVE  Space!Authored \notin Space!Id /\ Space!Authored \in Space!Turn /\ Space!Id \subseteq Space!Turn
BY Numbers DEF Space!Authored, Space!Turn, Space!Id

(* A step that touches neither messages nor edges, and of the turns only   *)
(* forgets. *)
LEMMA QuietStep ==
  ASSUME Space!CoordinationAssumption, SpaceInv, QueueInv', SlotsRest, armed' \subseteq armed,
         UNCHANGED <<Space!file, ago, asked, halted>>,
         wakes' \in {wakes, 0}, restarts' \in 0..MaxRestarts
  PROVE  SpaceInv'
<1>1. UNCHANGED <<link, message, lease, ago, asked, halted>>
  BY DEF Space!file
<1>2. MessageInv' /\ MessagesKept
  BY <1>1, SameMessages DEF SpaceInv
<1>3. ClaimInv' /\ ClaimsKept /\ ActiveRests
  BY <1>1, <1>2, SameLease DEF SpaceInv
<1>4. SlotInv' /\ WakeInv' /\ AskedInv' /\ HaltInv'
  BY <1>1, <1>2, <1>3, SlotsStay, WakeStays, AskedStays, HaltStays DEF SpaceInv
<1>5. LinkInv' /\ CountInv'
  BY <1>1, Numbers DEF SpaceInv, LinkInv, CountInv
<1> QED BY <1>2, <1>3, <1>4, <1>5 DEF SpaceInv

LEMMA CommitStep ==
  ASSUME Space!CoordinationAssumption, SpaceInv, NEW w \in Worker, Space!CommitMessage(w)
  PROVE  SpaceInv'
<1>1. /\ sending = Space!NoTurn /\ sending' = [worker |-> w, ids |-> Space!Inbox(w)]
      /\ queue' = Append(queue, [kind |-> "committed", turn |-> Space!Authored])
      /\ UNCHANGED <<link, message, lease, armed, wakes, waking, pending, active, restarts,
                     ago, asked, halted>>
  BY DEF Space!CommitMessage, Space!file, Space!history
<1>2. MessageInv' /\ MessagesKept
  BY <1>1, SameMessages DEF SpaceInv
<1>3. ClaimInv' /\ ClaimsKept /\ ActiveRests
  BY <1>1, <1>2, SameLease DEF SpaceInv
<1>4. Space!Inbox(w) \in SUBSET Space!Id
  BY InId DEF SpaceInv, Space!Inbox
<1>5. SlotInv' /\ sending' # Space!NoTurn
  BY <1>1, <1>4 DEF SpaceInv, SlotInv, Space!NoTurn
<1>6. WakeInv' /\ AskedInv' /\ HaltInv' /\ LinkInv' /\ CountInv'
  <2>1. WakeInv' /\ LinkInv' /\ CountInv'
    BY <1>1 DEF SpaceInv, WakeInv, LinkInv, CountInv, Space!Runs
  <2>2. AskedInv' /\ HaltInv'
    BY <1>1 DEF SpaceInv, AskedInv, HaltInv, IsClaimed, Space!Runs
  <2> QED BY <2>1, <2>2
<1>7. QueueInv'
  <2>1. queue \in Seq(Space!Event) /\ NoCommit(queue)
    BY <1>1 DEF SpaceInv, QueueInv
  <2>2. [kind |-> "committed", turn |-> Space!Authored] \in Space!Event
    BY Apart DEF Space!Event
  <2> QED BY <1>1, <1>5, <2>1, <2>2, AppendFacts DEF QueueInv
<1> QED BY <1>2, <1>3, <1>5, <1>6, <1>7 DEF SpaceInv

(* The event at the head of the queue names a turn. *)
LEMMA HeadFacts ==
  ASSUME QueueInv, queue # <<>>
  PROVE  Head(queue) \in Space!Event /\ Head(queue).turn \in Space!Turn
BY TailFacts DEF QueueInv, Space!Event

LEMMA NoticeCommittedStep ==
  ASSUME Space!CoordinationAssumption, SpaceInv, Space!NoticeCommitted
  PROVE  SpaceInv'
<1>1. /\ queue # <<>> /\ Head(queue).kind = "committed" /\ sending' = Space!NoTurn
      /\ UNCHANGED <<link, message, lease, armed, wakes, waking, active, restarts,
                     ago, asked, halted>>
  BY DEF Space!NoticeCommitted, Space!Notice, Space!file, Space!history
<1>2. CASE UNCHANGED pending /\ queue' = Tail(queue)
  <2>1. QueueInv'
    BY <1>1, <1>2, ReadQueue DEF SpaceInv
  <2>2. SlotsRest /\ armed' \subseteq armed /\ wakes' \in {wakes, 0} /\ restarts' \in 0..MaxRestarts
    BY <1>1, <1>2 DEF SlotsRest, Rests, SpaceInv, CountInv
  <2>3. UNCHANGED <<Space!file, ago, asked, halted>>
    BY <1>1 DEF Space!file
  <2> QED BY <2>1, <2>2, <2>3, QuietStep
<1>3. CASE /\ pending' = [turn |-> Space!Authored, worker |-> sending.worker, ids |-> sending.ids,
                          first |-> TRUE]
           /\ queue' = Space!FollowedBy("attempted")
  <2>1. QueueInv'
    BY <1>1, <1>3, FollowQueue DEF SpaceInv
  <2>2. sending # Space!NoTurn
    <3>1. ~NoCommit(queue)
      <4>1. queue \in Seq(Space!Event)
        BY DEF SpaceInv, QueueInv
      <4>2. 1 \in DOMAIN queue /\ queue[1] = Head(queue)
        BY <1>1, <4>1
      <4> QED BY <1>1, <4>2 DEF NoCommit
    <3> QED BY <3>1 DEF SpaceInv, QueueInv
  <2>3. sending \in [worker : Worker, ids : SUBSET Space!Id]
    BY <2>2 DEF SpaceInv, SlotInv
  <2>4. pending' \in [turn : Space!Turn, worker : Worker, ids : SUBSET Space!Id, first : BOOLEAN]
    BY <1>3, <2>3, Apart
  <2>5. SlotInv'
    BY <1>1, <2>4 DEF SpaceInv, SlotInv
  <2>6. pending'.turn = Space!Authored /\ Space!Authored \notin Space!Id
    BY <1>3, Apart
  <2>7. WakeInv'
    BY <1>1, <2>6 DEF SpaceInv, WakeInv, SlotInv, Space!Runs
  <2>8. MessageInv' /\ MessagesKept
    BY <1>1, SameMessages DEF SpaceInv
  <2>9. ClaimInv' /\ ClaimsKept /\ ActiveRests
    BY <1>1, <2>8, SameLease DEF SpaceInv
  <2>10. AskedInv' /\ HaltInv'
    <3>1. AskedInv'
      BY <1>1, <2>6 DEF SpaceInv, AskedInv, IsClaimed, Space!Runs
    <3> QED BY <1>1, <3>1 DEF SpaceInv, HaltInv, IsClaimed
  <2>11. LinkInv' /\ CountInv'
    BY <1>1 DEF SpaceInv, LinkInv, CountInv
  <2> QED BY <2>1, <2>5, <2>7, <2>8, <2>9, <2>10, <2>11 DEF SpaceInv
<1> QED BY <1>2, <1>3 DEF Space!NoticeCommitted

LEMMA NoticeStartedStep ==
  ASSUME Space!CoordinationAssumption, SpaceInv, Space!NoticeStarted
  PROVE  SpaceInv'
<1>1. /\ queue # <<>> /\ waking' = Space!NoTurn
      /\ UNCHANGED <<link, message, lease, armed, wakes, sending, active, restarts,
                     ago, asked, halted>>
  BY DEF Space!NoticeStarted, Space!Notice, Space!file, Space!history
<1>2. CASE UNCHANGED pending /\ queue' = Tail(queue)
  <2>1. QueueInv'
    BY <1>1, <1>2, ReadQueue DEF SpaceInv
  <2>2. SlotsRest /\ armed' \subseteq armed /\ wakes' \in {wakes, 0} /\ restarts' \in 0..MaxRestarts
    BY <1>1, <1>2 DEF SlotsRest, Rests, SpaceInv, CountInv
  <2>3. UNCHANGED <<Space!file, ago, asked, halted>>
    BY <1>1 DEF Space!file
  <2> QED BY <2>1, <2>2, <2>3, QuietStep
<1>3. CASE /\ Space!Runs(waking, Head(queue).turn)
           /\ pending' = [turn |-> waking.turn, worker |-> waking.worker,
                          ids |-> {waking.turn}, first |-> TRUE]
           /\ queue' = Space!FollowedBy("attempted")
  <2>1. QueueInv'
    BY <1>1, <1>3, FollowQueue DEF SpaceInv
  <2>2. waking # Space!NoTurn
    BY <1>3 DEF Space!Runs
  <2>3. waking \in [turn : Space!Id, worker : Worker]
    BY <2>2 DEF SpaceInv, SlotInv
  <2>4. pending' \in [turn : Space!Turn, worker : Worker, ids : SUBSET Space!Id, first : BOOLEAN]
    BY <1>3, <2>3, Apart
  <2>5. SlotInv'
    BY <1>1, <2>4 DEF SpaceInv, SlotInv
  <2>6. /\ pending'.turn = waking.turn /\ pending'.worker = waking.worker
        /\ waking.turn \in lease[waking.worker].claimed
    BY <1>3, <2>2 DEF SpaceInv, WakeInv
  <2>7. WakeInv'
    BY <1>1, <2>6 DEF SpaceInv, WakeInv, SlotInv, Space!Runs
  <2>8. MessageInv' /\ MessagesKept
    BY <1>1, SameMessages DEF SpaceInv
  <2>9. ClaimInv' /\ ClaimsKept /\ ActiveRests
    BY <1>1, <2>8, SameLease DEF SpaceInv
  <2>10. AskedInv' /\ HaltInv'
    <3>1. AskedInv'
      <4> SUFFICES ASSUME NEW i, i \in asked
                   PROVE  IsClaimed(i)' /\ ~Space!Runs(waking', i) /\ ~(Space!Runs(pending', i) /\ pending'.first)
        BY <1>1 DEF SpaceInv, AskedInv, Space!Runs
      <4>1. IsClaimed(i) /\ ~Space!Runs(waking, i)
        BY DEF SpaceInv, AskedInv
      <4> QED BY <1>1, <2>2, <2>6, <4>1 DEF IsClaimed, Space!Runs
    <3> QED BY <1>1, <3>1 DEF SpaceInv, HaltInv, IsClaimed
  <2>11. LinkInv' /\ CountInv'
    BY <1>1 DEF SpaceInv, LinkInv, CountInv
  <2> QED BY <2>1, <2>5, <2>7, <2>8, <2>9, <2>10, <2>11 DEF SpaceInv
<1> QED BY <1>2, <1>3 DEF Space!NoticeStarted

LEMMA SendStep ==
  ASSUME Space!CoordinationAssumption, SpaceInv, NEW saved, Space!SendRequest(saved)
  PROVE  SpaceInv'
<1>1. /\ queue # <<>> /\ pending # Space!NoTurn
      /\ active' = Space!Sent(pending)
      /\ asked' = asked \cup ({pending.turn} \cap Space!Id)
      /\ pending' = Space!NoTurn /\ queue' = Tail(queue)
      /\ UNCHANGED <<link, lease, armed, wakes, waking, sending, restarts, ago, halted>>
  BY DEF Space!SendRequest, Space!Notice, Space!Runs
<1>2. MessageInv' /\ MessagesKept
  <2>1. Space!Consume(pending, saved) /\ ago' = ago
    BY DEF Space!SendRequest
  <2> QED BY <2>1, ConsumeFacts DEF SpaceInv, Quietly
<1>3. ClaimInv' /\ ClaimsKept /\ ActiveRests
  BY <1>1, <1>2, SameLease DEF SpaceInv
<1>4. pending \in [turn : Space!Turn, worker : Worker, ids : SUBSET Space!Id, first : BOOLEAN]
  BY <1>1 DEF SpaceInv, SlotInv
<1>5. active' \in ActiveTurn
  BY <1>1, <1>4, Numbers DEF Space!Sent, ActiveTurn
<1>6. SlotInv'
  BY <1>1, <1>5 DEF SpaceInv, SlotInv
<1>7. active'.turn = pending.turn /\ active'.worker = pending.worker
  BY <1>1 DEF Space!Sent
<1>8. WakeInv'
  BY <1>1, <1>7 DEF SpaceInv, WakeInv, Space!Runs
<1>9. AskedInv'
  <2>1. ASSUME NEW i, i \in asked'
        PROVE  i \in Space!Id /\ IsClaimed(i)' /\ ~Space!Runs(waking, i)
    <3>1. i \in Space!Id /\ IsClaimed(i) /\ ~Space!Runs(waking, i)
      <4>1. CASE i \in asked
        BY <4>1 DEF SpaceInv, AskedInv
      <4>2. CASE i = pending.turn /\ i \in Space!Id
        <5>1. i \in lease[pending.worker].claimed
          BY <1>1, <4>2 DEF SpaceInv, WakeInv
        <5>2. i \in DOMAIN message /\ message[i].to = pending.worker
          BY <1>4, <5>1 DEF SpaceInv, ClaimInv
        <5>3. ~Space!Runs(waking, i)
          BY <1>1, <4>2 DEF SpaceInv, WakeInv, Space!Runs
        <5> QED BY <4>2, <5>1, <5>2, <5>3 DEF IsClaimed
      <4> QED BY <1>1, <2>1, <4>1, <4>2
    <3> QED BY <1>2, <1>3, <3>1, ClaimedStays DEF SpaceInv
  <2>2. active'.turn \in Space!Id => active'.turn \in asked'
    BY <1>1, <1>7
  <2> QED BY <1>1, <2>1, <2>2 DEF AskedInv, Space!Runs
<1>10. HaltInv'
  BY <1>1, <1>2, <1>3, HaltStays DEF SpaceInv
<1>11. QueueInv'
  BY <1>1, ReadQueue DEF SpaceInv
<1>12. LinkInv' /\ CountInv'
  BY <1>1 DEF SpaceInv, LinkInv, CountInv
<1> QED BY <1>2, <1>3, <1>6, <1>8, <1>9, <1>10, <1>11, <1>12 DEF SpaceInv

LEMMA WithholdStep ==
  ASSUME Space!CoordinationAssumption, SpaceInv, Space!WithholdRequest
  PROVE  SpaceInv'
<1>1. /\ queue # <<>> /\ pending' = Space!NoTurn /\ queue' = Space!FollowedBy("ended")
      /\ UNCHANGED <<Space!file, armed, wakes, waking, sending, active, restarts, ago, asked, halted>>
  BY DEF Space!WithholdRequest, Space!Notice, Space!history
<1>2. QueueInv'
  BY <1>1, FollowQueue DEF SpaceInv
<1>3. SlotsRest /\ armed' \subseteq armed /\ wakes' \in {wakes, 0} /\ restarts' \in 0..MaxRestarts
  BY <1>1 DEF SlotsRest, Rests, SpaceInv, CountInv
<1> QED BY <1>1, <1>2, <1>3, QuietStep

LEMMA DisplacedStep ==
  ASSUME Space!CoordinationAssumption, SpaceInv, Space!NoticeDisplaced
  PROVE  SpaceInv'
<1>1. /\ queue # <<>> /\ queue' = Tail(queue)
      /\ UNCHANGED <<Space!file, armed, wakes, waking, sending, pending, active, restarts,
                     ago, asked, halted>>
  BY DEF Space!NoticeDisplaced, Space!Notice, Space!history
<1>2. QueueInv'
  BY <1>1, ReadQueue DEF SpaceInv
<1>3. SlotsRest /\ armed' \subseteq armed /\ wakes' \in {wakes, 0} /\ restarts' \in 0..MaxRestarts
  BY <1>1 DEF SlotsRest, Rests, SpaceInv, CountInv
<1> QED BY <1>1, <1>2, <1>3, QuietStep

LEMMA FailedStep ==
  ASSUME Space!CoordinationAssumption, SpaceInv, Space!NoticeFailed
  PROVE  SpaceInv'
<1> DEFINE t == Head(queue).turn
<1>1. /\ queue # <<>> /\ queue' = Tail(queue)
      /\ sending' = IF Head(queue).kind = "committed" THEN Space!NoTurn ELSE sending
      /\ waking' = IF Space!Runs(waking, t) THEN Space!NoTurn ELSE waking
      /\ armed' = IF Space!Runs(waking, t) THEN {} ELSE armed
      /\ pending' = IF Space!Runs(pending, t) THEN Space!NoTurn ELSE pending
      /\ UNCHANGED <<Space!file, wakes, active, restarts, ago, asked, halted>>
  BY DEF Space!NoticeFailed, Space!history
<1>2. QueueInv'
  BY <1>1, ReadQueue DEF SpaceInv
<1>3. SlotsRest /\ armed' \subseteq armed
  BY <1>1 DEF SlotsRest, Rests
<1>4. wakes' \in {wakes, 0} /\ restarts' \in 0..MaxRestarts
  BY <1>1 DEF SpaceInv, CountInv
<1> QED BY <1>1, <1>2, <1>3, <1>4, QuietStep

LEMMA EndedStep ==
  ASSUME Space!CoordinationAssumption, SpaceInv, NEW saved, Space!NoticeEnded(saved)
  PROVE  SpaceInv'
<1> DEFINE t == Head(queue).turn
           closes == { w \in Worker : lease[w].active = t }
<1>1. /\ queue # <<>> /\ queue' = Tail(queue)
      /\ \/ UNCHANGED <<lease, armed>>
         \/ /\ lease' = [w \in Worker |-> IF w \in closes
                          THEN [lease[w] EXCEPT !.active = Space!None] ELSE lease[w]]
            /\ UNCHANGED armed
         \/ armed' = {} /\ UNCHANGED lease
      /\ UNCHANGED <<link, message, wakes, waking, sending, pending, active, restarts,
                     ago, asked, halted>>
  BY DEF Space!NoticeEnded, Space!Notice, Space!history
<1> HIDE DEF closes
<1>2. lease \in [Worker -> Space!Lease] /\ Space!None \in {Space!None} \cup Space!Id
  BY DEF SpaceInv, ClaimInv
<1>3. /\ lease' \in [Worker -> Space!Lease] /\ armed' \subseteq armed
      /\ \A v \in Worker : /\ lease'[v].active \in {lease[v].active, Space!None}
                           /\ lease'[v].claimed = lease[v].claimed
  <2>1. CASE lease' = lease /\ armed' \subseteq armed
    BY <1>2, <2>1
  <2>2. CASE /\ lease' = [w \in Worker |-> IF w \in closes
                          THEN [lease[w] EXCEPT !.active = Space!None] ELSE lease[w]]
             /\ UNCHANGED armed
    BY <1>2, <2>2 DEF Space!Lease
  <2> QED BY <1>1, <2>1, <2>2
<1>4. MessageInv' /\ MessagesKept
  BY <1>1, SameMessages DEF SpaceInv
<1>5. ClaimInv' /\ ClaimsKept /\ ActiveRests
  BY <1>1, <1>3 DEF SpaceInv, ClaimInv, ClaimsKept, ActiveRests
<1>6. SlotsRest
  BY <1>1 DEF SlotsRest, Rests
<1>7. SlotInv' /\ WakeInv' /\ AskedInv' /\ HaltInv'
  BY <1>1, <1>3, <1>4, <1>5, <1>6, SlotsStay, WakeStays, AskedStays, HaltStays DEF SpaceInv
<1>8. QueueInv'
  BY <1>1, ReadQueue DEF SpaceInv
<1>9. LinkInv' /\ CountInv'
  BY <1>1, <1>3 DEF SpaceInv, LinkInv, CountInv
<1> QED BY <1>4, <1>5, <1>7, <1>8, <1>9 DEF SpaceInv

LEMMA RetryStep ==
  ASSUME Space!CoordinationAssumption, SpaceInv, Space!RateLimited \/ Space!Resubmit
  PROVE  SpaceInv'
<1>1. /\ active # Space!NoTurn
      /\ UNCHANGED <<Space!file, armed, wakes, waking, sending, pending, queue, restarts, ago, asked, halted>>
  BY DEF Space!RateLimited, Space!Resubmit, Space!history
<1>2. active \in ActiveTurn
  BY <1>1 DEF SpaceInv, SlotInv
<1>3. active' = Space!NoTurn \/ Renewed
  <2>1. CASE Space!RateLimited
    <3>1. /\ active.retries < MaxRetries
          /\ active' = [active EXCEPT !.waits = TRUE, !.retries = active.retries + 1]
      BY <2>1 DEF Space!RateLimited
    <3>2. active.retries + 1 \in 0..MaxRetries
      BY <1>2, <3>1, Numbers DEF ActiveTurn
    <3> QED BY <1>1, <1>2, <3>1, <3>2 DEF ActiveTurn, Renewed
  <2>2. CASE Space!Resubmit
    <3>1. active' \in {[active EXCEPT !.waits = FALSE], Space!NoTurn}
      BY <2>2 DEF Space!Resubmit
    <3> QED BY <1>1, <1>2, <3>1 DEF ActiveTurn, Renewed
  <2> QED BY <2>1, <2>2
<1>4. SlotsRest /\ armed' \subseteq armed /\ wakes' \in {wakes, 0} /\ restarts' \in 0..MaxRestarts
  BY <1>1, <1>3 DEF SlotsRest, Rests, SpaceInv, CountInv
<1>5. QueueInv'
  BY <1>1 DEF SpaceInv, QueueInv
<1> QED BY <1>1, <1>4, <1>5, QuietStep

LEMMA EndTurnStep ==
  ASSUME Space!CoordinationAssumption, SpaceInv, Space!EndTurn
  PROVE  SpaceInv'
<1>1. /\ active # Space!NoTurn /\ active' = Space!NoTurn
      /\ queue' = Append(queue, [kind |-> "ended", turn |-> active.turn])
      /\ UNCHANGED <<Space!file, armed, wakes, waking, sending, pending, restarts, ago, asked, halted>>
  BY DEF Space!EndTurn, Space!history
<1>2. active.turn \in Space!Turn
  BY <1>1 DEF SpaceInv, SlotInv, ActiveTurn
<1>3. QueueInv'
  BY <1>1, <1>2, JoinQueue DEF SpaceInv
<1>4. SlotsRest /\ armed' \subseteq armed /\ wakes' \in {wakes, 0} /\ restarts' \in 0..MaxRestarts
  BY <1>1 DEF SlotsRest, Rests, SpaceInv, CountInv
<1> QED BY <1>1, <1>3, <1>4, QuietStep

LEMMA ContinueStep ==
  ASSUME Space!CoordinationAssumption, SpaceInv, Space!ContinueTurn
  PROVE  SpaceInv'
<1> DEFINE e == [kind |-> "ended", turn |-> active.turn]
           f == [kind |-> "attempted", turn |-> active.turn]
<1>1. /\ active # Space!NoTurn /\ active' = Space!NoTurn
      /\ pending' = [turn |-> active.turn, worker |-> active.worker, ids |-> {}, first |-> FALSE]
      /\ queue' = queue \o <<e, f>>
      /\ \/ \E b \in Worker, kind \in Space!Kind : Space!Put(active.worker, b, kind)
         \/ UNCHANGED <<message, ago>>
      /\ UNCHANGED <<link, lease, armed, wakes, waking, sending, restarts, asked, halted>>
  BY DEF Space!ContinueTurn
<1>2. active.turn \in Space!Turn /\ active.worker \in Worker
  BY <1>1 DEF SpaceInv, SlotInv, ActiveTurn
<1>3. MessageInv' /\ MessagesKept
  <2>1. CASE \E b \in Worker, kind \in Space!Kind : Space!Put(active.worker, b, kind)
    BY <1>2, <2>1, PutFacts DEF SpaceInv
  <2>2. CASE UNCHANGED <<message, ago>>
    BY <2>2, SameMessages DEF SpaceInv
  <2> QED BY <1>1, <2>1, <2>2
<1>4. ClaimInv' /\ ClaimsKept /\ ActiveRests
  BY <1>1, <1>3, SameLease DEF SpaceInv
<1>5. pending' \in [turn : Space!Turn, worker : Worker, ids : SUBSET Space!Id, first : BOOLEAN]
  BY <1>1, <1>2
<1>6. SlotInv'
  BY <1>1, <1>5 DEF SpaceInv, SlotInv
<1>7. pending'.turn = active.turn /\ pending'.worker = active.worker /\ ~pending'.first
  BY <1>1
<1>8. WakeInv'
  BY <1>1, <1>7 DEF SpaceInv, WakeInv, Space!Runs
<1>9. AskedInv'
  <2> SUFFICES ASSUME NEW i, i \in asked
               PROVE  IsClaimed(i)' /\ ~Space!Runs(waking', i) /\ ~(Space!Runs(pending', i) /\ pending'.first)
    BY <1>1 DEF SpaceInv, AskedInv, Space!Runs
  <2>1. IsClaimed(i) /\ ~Space!Runs(waking, i)
    BY DEF SpaceInv, AskedInv
  <2>2. IsClaimed(i)'
    BY <1>3, <1>4, <2>1, ClaimedStays DEF SpaceInv
  <2> QED BY <1>1, <1>7, <2>1, <2>2 DEF Space!Runs
<1>10. HaltInv'
  BY <1>1, <1>3, <1>4, HaltStays DEF SpaceInv
<1>11. QueueInv'
  <2>1. e \in Space!Event /\ f \in Space!Event /\ e.kind # "committed" /\ f.kind # "committed"
    BY <1>2 DEF Space!Event
  <2>2. queue \in Seq(Space!Event) /\ OneCommit(queue) /\ (sending = Space!NoTurn => NoCommit(queue))
    BY DEF SpaceInv, QueueInv
  <2> HIDE DEF e, f
  <2>3. queue \o <<e, f>> = Append(Append(queue, e), f)
    BY <2>1, <2>2
  <2> DEFINE q == Append(queue, e)
  <2>4. q \in Seq(Space!Event) /\ OneCommit(q) /\ (sending = Space!NoTurn => NoCommit(q))
    BY <2>1, <2>2, AppendFacts
  <2> HIDE DEF q
  <2>5. queue' = Append(q, f)
    BY <1>1, <2>3 DEF q
  <2> QED BY <1>1, <2>1, <2>4, <2>5, AppendFacts DEF QueueInv
<1>12. LinkInv' /\ CountInv'
  BY <1>1 DEF SpaceInv, LinkInv, CountInv
<1> QED BY <1>3, <1>4, <1>6, <1>8, <1>9, <1>10, <1>11, <1>12 DEF SpaceInv

LEMMA RestartStep ==
  ASSUME Space!CoordinationAssumption, SpaceInv, Space!Restart
  PROVE  SpaceInv'
<1>1. /\ restarts < MaxRestarts /\ restarts' = restarts + 1
      /\ armed' = {} /\ wakes' = 0
      /\ waking' = Space!NoTurn /\ sending' = Space!NoTurn /\ pending' = Space!NoTurn /\ active' = Space!NoTurn
      /\ queue' = <<>>
      /\ UNCHANGED <<Space!file, ago, asked, halted>>
  BY DEF Space!Restart, Space!history
<1>2. QueueInv'
  BY <1>1 DEF QueueInv, OneCommit, NoCommit
<1>3. SlotsRest /\ armed' \subseteq armed
  BY <1>1 DEF SlotsRest, Rests
<1>4. wakes' \in {wakes, 0} /\ restarts' \in 0..MaxRestarts
  BY <1>1, Numbers DEF SpaceInv, CountInv
<1> QED BY <1>1, <1>2, <1>3, <1>4, QuietStep

-----------------------------------------------------------------------------
LEMMA WorkspaceStarts ==
  ASSUME Space!CoordinationAssumption, Space!Init
  PROVE  SpaceInv
<1>1. LinkInv
  BY DEF Space!Init, LinkInv
<1>2. MessageInv
  BY Numbers DEF Space!Init, MessageInv
<1>3. ClaimInv
  <2>1. [remaining |-> 0, active |-> Space!None, claimed |-> {}] \in Space!Lease
    BY Numbers DEF Space!Lease
  <2>2. lease = [w \in Worker |-> [remaining |-> 0, active |-> Space!None, claimed |-> {}]]
    BY DEF Space!Init
  <2> QED BY <2>1, <2>2 DEF ClaimInv
<1>4. SlotInv /\ WakeInv
  BY DEF Space!Init, SlotInv, WakeInv
<1>5. QueueInv
  BY DEF Space!Init, QueueInv, OneCommit, NoCommit
<1>6. AskedInv /\ HaltInv
  BY DEF Space!Init, AskedInv, HaltInv
<1>7. CountInv
  BY Numbers DEF Space!Init, CountInv
<1> QED BY <1>1, <1>2, <1>3, <1>4, <1>5, <1>6, <1>7 DEF SpaceInv

LEMMA WorkspaceStays ==
  ASSUME Space!CoordinationAssumption, SpaceInv, UNCHANGED Space!vars
  PROVE  SpaceInv'
<1>1. /\ QueueInv' /\ SlotsRest /\ armed' \subseteq armed
      /\ UNCHANGED <<Space!file, ago, asked, halted>>
      /\ wakes' \in {wakes, 0} /\ restarts' \in 0..MaxRestarts
  BY DEF Space!vars, Space!window, Space!history, SpaceInv, QueueInv, CountInv, SlotsRest, Rests
<1> QED BY <1>1, QuietStep

LEMMA WorkspaceStep ==
  ASSUME Space!CoordinationAssumption, SpaceInv, Space!Next
  PROVE  SpaceInv'
<1>1. ASSUME NEW e \in Edge, NEW policy \in Policy, Space!SetLink(e, policy)
      PROVE  SpaceInv'
  BY <1>1, SetLinkStep
<1>2. ASSUME NEW a \in Worker, NEW b \in Worker, NEW kind \in Space!Kind, Space!SendMessage(a, b, kind)
      PROVE  SpaceInv'
  <2>1. Space!Put(a, b, kind) /\ UNCHANGED <<link, lease, Space!window, restarts, asked, halted>>
    BY <1>2 DEF Space!SendMessage
  <2>2. MessageInv' /\ MessagesKept
    BY <2>1, PutFacts DEF SpaceInv
  <2> QED BY <2>1, <2>2, MessageStep
<1>3. ASSUME NEW i \in DOMAIN message, NEW allow \in BOOLEAN, Space!Decide(i, allow)
      PROVE  SpaceInv'
  <2>1. MessageInv' /\ MessagesKept
    BY <1>3, DecideFacts DEF SpaceInv, Quietly
  <2>2. UNCHANGED <<link, lease, Space!window, restarts, asked, halted>>
    BY <1>3 DEF Space!Decide
  <2> QED BY <2>1, <2>2, MessageStep
<1>4. ASSUME NEW i \in DOMAIN message, Space!DeleteMessage(i)
      PROVE  SpaceInv'
  <2>1. MessageInv' /\ MessagesKept
    BY <1>4, DeleteFacts DEF SpaceInv, Quietly
  <2>2. UNCHANGED <<link, lease, Space!window, restarts, asked, halted>>
    BY <1>4 DEF Space!DeleteMessage, Space!history
  <2> QED BY <2>1, <2>2, MessageStep
<1>5. ASSUME NEW w \in Displayed, Space!Grant(w) \/ Space!CommitMessage(w)
      PROVE  SpaceInv'
  <2>1. w \in Worker
    BY Numbers
  <2> QED BY <1>5, <2>1, GrantStep, CommitStep
<1>6. ASSUME NEW w \in Worker, NEW saved \in BOOLEAN, Space!Stop(w, saved)
      PROVE  SpaceInv'
  BY <1>6, StopStep
<1>7. ASSUME NEW ready \in SUBSET Worker, NEW saved \in BOOLEAN, Space!Claim(ready, saved)
      PROVE  SpaceInv'
  BY <1>7, ClaimStep
<1>8. ASSUME NEW saved \in BOOLEAN, Space!SendRequest(saved) \/ Space!NoticeEnded(saved)
      PROVE  SpaceInv'
  BY <1>8, SendStep, EndedStep
<1>9. CASE Space!AdvanceQueues
  <2>1. MessageInv' /\ MessagesKept
    BY <1>9, AdvanceFacts DEF SpaceInv
  <2>2. UNCHANGED <<link, lease, Space!window, restarts, asked, halted>>
    BY <1>9 DEF Space!AdvanceQueues
  <2> QED BY <2>1, <2>2, MessageStep
<1>10. CASE Space!Tick
  <2>1. MessageInv' /\ MessagesKept
    BY <1>10, TickFacts DEF SpaceInv, Quietly
  <2>2. UNCHANGED <<link, lease, Space!window, restarts, asked, halted>>
    BY <1>10 DEF Space!Tick
  <2> QED BY <2>1, <2>2, MessageStep
<1>11. Space!Operator => SpaceInv'
  BY <1>1, <1>2, <1>3, <1>4, <1>5, <1>6 DEF Space!Operator
<1>12. Space!Wake => SpaceInv'
  BY <1>7 DEF Space!Wake
<1>13. Space!Notices => SpaceInv'
  BY <1>8, NoticeCommittedStep, NoticeStartedStep, WithholdStep, DisplacedStep, FailedStep
     DEF Space!Notices
<1> QED
  BY <1>9, <1>10, <1>11, <1>12, <1>13, RetryStep, EndTurnStep, ContinueStep, RestartStep DEF Space!Next

(* The invariant holds at every step of messages, leases, wakes and turns, *)
(* saves that fail and restarts included.                                  *)
THEOREM WorkspaceInductive ==
  ASSUME Space!CoordinationAssumption
  PROVE  Space!Spec => []SpaceInv
<1>1. Space!Init => SpaceInv
  BY WorkspaceStarts
<1>2. SpaceInv /\ [Space!Next]_(Space!vars) => SpaceInv'
  BY WorkspaceStays, WorkspaceStep
<1> QED BY <1>1, <1>2, PTL DEF Space!Spec

(* The file of the workspace, the window's turns and the queue of journal  *)
(* events have their types, for any workers, policies and bounds.          *)
THEOREM WorkspaceTyped ==
  ASSUME Space!CoordinationAssumption
  PROVE  Space!Spec => []Space!TypeOK
<1>1. SpaceInv => Space!TypeOK
  BY DEF SpaceInv, Space!TypeOK, LinkInv, MessageInv, ClaimInv, SlotInv, ActiveTurn, QueueInv, AskedInv, HaltInv, CountInv
<1> QED BY <1>1, WorkspaceInductive, PTL

-----------------------------------------------------------------------------
(* What a step does to the messages. *)
LEMMA MessagesMove ==
  ASSUME Space!CoordinationAssumption, SpaceInv, Space!Next
  PROVE  \/ \E a \in Worker, b \in Worker, kind \in Space!Kind : Space!Put(a, b, kind)
         \/ Space!AdvanceQueues
         \/ Quietly
         \/ UNCHANGED message
<1> DEFINE G == \/ \E a \in Worker, b \in Worker, kind \in Space!Kind : Space!Put(a, b, kind)
                \/ Space!AdvanceQueues
                \/ Quietly
                \/ UNCHANGED message
<1>1. Space!Operator => G
  <2>1. ASSUME NEW e \in Edge, NEW policy \in Policy, Space!SetLink(e, policy)
        PROVE  G
    BY <2>1 DEF Space!SetLink
  <2>2. ASSUME NEW a \in Worker, NEW b \in Worker, NEW kind \in Space!Kind, Space!SendMessage(a, b, kind)
        PROVE  G
    BY <2>2 DEF Space!SendMessage
  <2>3. ASSUME NEW i \in DOMAIN message, NEW allow \in BOOLEAN, Space!Decide(i, allow)
        PROVE  G
    BY <2>3, DecideFacts DEF SpaceInv
  <2>4. ASSUME NEW i \in DOMAIN message, Space!DeleteMessage(i)
        PROVE  G
    BY <2>4, DeleteFacts DEF SpaceInv
  <2>5. ASSUME NEW w \in Displayed, Space!Grant(w) \/ Space!CommitMessage(w)
        PROVE  G
    BY <2>5 DEF Space!Grant, Space!CommitMessage, Space!file
  <2>6. ASSUME NEW w \in Worker, NEW saved \in BOOLEAN, Space!Stop(w, saved)
        PROVE  G
    BY <2>6 DEF Space!Stop
  <2> HIDE DEF G
  <2> QED BY <2>1, <2>2, <2>3, <2>4, <2>5, <2>6 DEF Space!Operator
<1>2. Space!Wake => G
  BY DEF Space!Wake, Space!Claim
<1>3. Space!Notices => G
  <2>1. ASSUME NEW saved \in BOOLEAN, Space!SendRequest(saved)
        PROVE  G
    <3>1. Space!Consume(pending, saved) /\ ago' = ago
      BY <2>1 DEF Space!SendRequest
    <3> QED BY <3>1, ConsumeFacts DEF SpaceInv
  <2>2. ASSUME NEW saved \in BOOLEAN, Space!NoticeEnded(saved)
        PROVE  G
    BY <2>2 DEF Space!NoticeEnded
  <2>3. Space!NoticeCommitted \/ Space!NoticeStarted \/ Space!WithholdRequest \/ Space!NoticeDisplaced \/ Space!NoticeFailed => G
    BY DEF Space!NoticeCommitted, Space!NoticeStarted, Space!WithholdRequest, Space!NoticeDisplaced, Space!NoticeFailed, Space!file
  <2> HIDE DEF G
  <2> QED BY <2>1, <2>2, <2>3 DEF Space!Notices
<1>4. Space!Tick => G
  BY TickFacts DEF SpaceInv
<1>5. Space!ContinueTurn => G
  <2>1. ASSUME Space!ContinueTurn PROVE active.worker \in Worker
    BY <2>1 DEF Space!ContinueTurn, SpaceInv, SlotInv, ActiveTurn
  <2> QED BY <2>1 DEF Space!ContinueTurn
<1>6. Space!RateLimited \/ Space!Resubmit \/ Space!EndTurn \/ Space!Restart => G
  BY DEF Space!RateLimited, Space!Resubmit, Space!EndTurn, Space!Restart, Space!file
<1> HIDE DEF G
<1>7. Space!AdvanceQueues => G
  BY DEF G
<1>8. G
  BY <1>1, <1>2, <1>3, <1>4, <1>5, <1>6, <1>7 DEF Space!Next
<1> QED BY <1>8 DEF G

(* A request leaves when its dispatch is noticed, or once again when the   *)
(* service had refused it.                                                 *)
LEMMA OnlySent ==
  ASSUME SpaceInv, Space!Next, NEW i, Space!Leaves(i)
  PROVE  \/ \E saved \in BOOLEAN : Space!SendRequest(saved)
         \/ Space!Again /\ i = active.turn
<1> active' # active /\ active' # Space!NoTurn /\ active'.turn = i /\ ~active'.waits
  BY DEF Space!Leaves
<1>1. ~Space!Operator
  BY DEF Space!Operator, Space!SetLink, Space!SendMessage, Space!Decide, Space!DeleteMessage, Space!Grant, Space!CommitMessage, Space!Stop, Space!window
<1>2. ~Space!Wake
  BY DEF Space!Wake, Space!Claim
<1>3. ~(Space!AdvanceQueues \/ Space!Tick \/ Space!EndTurn \/ Space!ContinueTurn \/ Space!Restart)
  BY DEF Space!AdvanceQueues, Space!Tick, Space!EndTurn, Space!ContinueTurn, Space!Restart, Space!window
<1>4. ~(Space!NoticeCommitted \/ Space!NoticeStarted \/ Space!WithholdRequest \/ Space!NoticeDisplaced \/ Space!NoticeFailed)
  BY DEF Space!NoticeCommitted, Space!NoticeStarted, Space!WithholdRequest, Space!NoticeDisplaced, Space!NoticeFailed
<1>5. \A saved \in BOOLEAN : ~Space!NoticeEnded(saved)
  BY DEF Space!NoticeEnded
<1>6. active # Space!NoTurn => active \in ActiveTurn
  BY DEF SpaceInv, SlotInv
<1>7. ~Space!RateLimited
  <2> SUFFICES ASSUME Space!RateLimited PROVE FALSE
    OBVIOUS
  <2>1. active \in ActiveTurn /\ active' = [active EXCEPT !.waits = TRUE, !.retries = active.retries + 1]
    BY <1>6 DEF Space!RateLimited
  <2> QED BY <2>1 DEF ActiveTurn
<1>8. Space!Resubmit => Space!Again /\ i = active.turn
  <2> SUFFICES ASSUME Space!Resubmit PROVE Space!Again /\ i = active.turn
    OBVIOUS
  <2>1. /\ active \in ActiveTurn /\ active # Space!NoTurn /\ active.waits
        /\ active' = [active EXCEPT !.waits = FALSE]
    BY <1>6 DEF Space!Resubmit
  <2> QED BY <2>1 DEF Space!Again, ActiveTurn
<1> QED BY <1>1, <1>2, <1>3, <1>4, <1>5, <1>7, <1>8 DEF Space!Next, Space!Notices

-----------------------------------------------------------------------------
(* Counting what an edge has delivered lately. *)
LEMMA Counted ==
  ASSUME NEW S
  PROVE  Space!Cardinality(S) = Cardinality(S)
BY DEF Space!Cardinality, Cardinality

LEMMA WithinMessages ==
  ASSUME MessageInv, NEW S \in SUBSET DOMAIN message
  PROVE  IsFiniteSet(S) /\ Cardinality(S) \in Nat
<1>1. DOMAIN message = 1..Len(message) /\ Len(message) \in Nat
  BY Places
<1>2. IsFiniteSet(1..Len(message))
  BY <1>1, FS_Interval
<1>3. IsFiniteSet(S)
  BY <1>1, <1>2, FS_Subset
<1> QED BY <1>3, FS_CardinalityType

Young(a, b) == { i \in DOMAIN message : Space!Between(i, a, b) /\ message[i].age < Window }

LEMMA RecentFacts ==
  ASSUME MessageInv, NEW a, NEW b
  PROVE  /\ Young(a, b) \in SUBSET DOMAIN message
         /\ Space!Recent(a, b) = Cardinality(Young(a, b)) /\ Space!Recent(a, b) \in Nat
<1>1. Young(a, b) \in SUBSET DOMAIN message
  BY DEF Young
<1>2. Space!Recent(a, b) = Cardinality(Young(a, b))
  BY Counted DEF Space!Recent, Young
<1> QED BY <1>1, <1>2, WithinMessages

(* The set a queued message waits behind: itself and the older ones. *)
Ahead(i) == { j \in 1..i : Space!Metered(j) /\ Space!Along(j, i) }

LEMMA AheadFacts ==
  ASSUME MessageInv, NEW i \in DOMAIN message
  PROVE  /\ Ahead(i) \in SUBSET DOMAIN message
         /\ Cardinality(Ahead(i)) \in Nat
         /\ Space!Turns(i) <=> Space!Recent(message[i].from, message[i].to) + Cardinality(Ahead(i))
                           <= Space!RouteOf(i).rate
<1>1. Ahead(i) \in SUBSET DOMAIN message
  BY Places DEF Ahead
<1>2. Space!Cardinality(Ahead(i)) = Cardinality(Ahead(i))
  BY Counted
<1>3. Space!Turns(i) <=> Space!Recent(message[i].from, message[i].to) + Space!Cardinality(Ahead(i))
                     <= Space!RouteOf(i).rate
  BY DEF Space!Turns, Ahead
<1> QED BY <1>1, <1>2, <1>3, WithinMessages

LEMMA RouteRate ==
  ASSUME Space!CoordinationAssumption, LinkInv, NEW a, NEW b, Space!RouteFor(a, b) # Space!NoLink
  PROVE  Space!RouteFor(a, b).rate \in Nat
<1>1. \A e \in DOMAIN link : link[e].rate \in Nat
  BY DEF LinkInv, Space!CoordinationAssumption
<1> QED BY <1>1 DEF Space!RouteFor, Space!ReturnPath

LEMMA MeteredFacts ==
  ASSUME Space!CoordinationAssumption, LinkInv, NEW i, Space!Metered(i)
  PROVE  /\ Space!RateQueued(i) /\ Space!RouteOf(i).mode = "rate_limit" /\ Space!RouteOf(i).rate \in Nat
<1>1. Space!RateQueued(i) /\ Space!Allowed(i) /\ Space!RouteOf(i).mode = "rate_limit"
  BY DEF Space!Metered
<1>2. Space!RouteOf(i) # Space!NoLink
  BY <1>1 DEF Space!Allowed, Space!Carries
<1> QED BY <1>1, <1>2, RouteRate DEF Space!RouteOf

LEMMA Latest ==
  ASSUME NEW n \in Nat, NEW S \in SUBSET (1..n), S # {}
  PROVE  \E m \in S : \A j \in S : j <= m
<1> DEFINE M == { n - j : j \in S }
<1>1. M \in SUBSET Nat /\ M # {}
  <2>1. \A j \in S : j \in Nat /\ n - j \in Nat
    OBVIOUS
  <2> QED BY <2>1
<1>2. Space!Min(M) \in M /\ \A y \in M : Space!Min(M) <= y
  BY <1>1, Least
<1>3. PICK m \in S : Space!Min(M) = n - m
  BY <1>2
<1>4. \A j \in S : n - m <= n - j
  BY <1>2, <1>3
<1>5. \A j \in S : j <= m
  BY <1>4
<1> QED BY <1>5

-----------------------------------------------------------------------------
(* The messages delivered in the last minute on the edge of this one. *)
DeliveredLately(i) ==
  { j \in DOMAIN message' :
      /\ message'[j].from = message'[i].from /\ message'[j].to = message'[i].to
      /\ ago'[j] < Window }

LEMMA PutKeepsRate ==
  ASSUME Space!CoordinationAssumption, SpaceInv,
         NEW a \in Worker, NEW b \in Worker, NEW kind \in Space!Kind, Space!Put(a, b, kind),
         NEW i \in DOMAIN message', Space!ByItself(i), Space!MeteredRoute(i)
  PROVE  /\ i = Len(message) + 1 /\ message'[i].from = a /\ message'[i].to = b /\ ~Space!Backlog(a, b)
         /\ Cardinality(DeliveredLately(i)) <= Space!RouteFor(message'[i].from, message'[i].to).rate
<1>1. MessageInv /\ LinkInv
  BY DEF SpaceInv
<1> DEFINE n == Len(message) + 1
<1>2. /\ MessageInv' /\ n \in DOMAIN message'
      /\ \A j \in DOMAIN message : message'[j] = message[j]
      /\ \A j \in DOMAIN message' : j \in DOMAIN message \/ j = n
      /\ message'[n].from = a /\ message'[n].to = b
      /\ message'[n].status = "delivered" =>
           /\ Space!Carries(Space!RouteFor(a, b), kind)
           /\ Space!RouteFor(a, b).mode = "rate_limit" =>
                ~Space!Backlog(a, b) /\ ~(Space!Recent(a, b) >= Space!RouteFor(a, b).rate)
  BY <1>1, PutFacts
<1> HIDE DEF n
<1>3. i = n
  BY <1>2 DEF Space!ByItself, Space!NewlyDelivered
<1>4. message'[n].status = "delivered" /\ Space!RouteFor(a, b).mode = "rate_limit"
  BY <1>2, <1>3 DEF Space!ByItself, Space!NewlyDelivered, Space!MeteredRoute
<1>5. ~Space!Backlog(a, b) /\ ~(Space!Recent(a, b) >= Space!RouteFor(a, b).rate) /\ Space!RouteFor(a, b) # Space!NoLink
  BY <1>2, <1>4 DEF Space!Carries
<1>6. Space!RouteFor(a, b).rate \in Nat
  BY <1>1, <1>5, RouteRate
<1>7. /\ Young(a, b) \in SUBSET DOMAIN message
      /\ Space!Recent(a, b) = Cardinality(Young(a, b)) /\ Space!Recent(a, b) \in Nat
  BY <1>1, RecentFacts
<1>8. Space!Recent(a, b) + 1 <= Space!RouteFor(a, b).rate
  BY <1>5, <1>6, <1>7
<1>9. DeliveredLately(i) \subseteq Young(a, b) \cup {n}
  <2> SUFFICES ASSUME NEW j \in DOMAIN message', j # n,
                      message'[j].from = a, message'[j].to = b, ago'[j] < Window
               PROVE  j \in Young(a, b)
    BY <1>2, <1>3 DEF DeliveredLately
  <2>1. j \in DOMAIN message /\ message'[j] = message[j] /\ ago'[j] = message'[j].age
    BY <1>2 DEF MessageInv
  <2> QED BY <2>1 DEF Young, Space!Between
<1>10. IsFiniteSet(Young(a, b))
  BY <1>1, <1>7, WithinMessages
<1>11. /\ IsFiniteSet(Young(a, b) \cup {n})
       /\ Cardinality(Young(a, b) \cup {n}) <= Cardinality(Young(a, b)) + 1
       /\ Cardinality(Young(a, b) \cup {n}) \in Nat
  <2>1. IsFiniteSet(Young(a, b) \cup {n})
    BY <1>10, FS_AddElement
  <2>2. Cardinality(Young(a, b) \cup {n}) = Cardinality(Young(a, b))
          \/ Cardinality(Young(a, b) \cup {n}) = Cardinality(Young(a, b)) + 1
    BY <1>10, FS_AddElement
  <2> QED BY <1>7, <2>1, <2>2
<1>12. /\ Cardinality(DeliveredLately(i)) <= Cardinality(Young(a, b) \cup {n})
       /\ Cardinality(DeliveredLately(i)) \in Nat
  BY <1>9, <1>11, FS_Subset, FS_CardinalityType
<1>13. Cardinality(DeliveredLately(i)) <= Space!RouteFor(a, b).rate
  BY <1>6, <1>7, <1>8, <1>11, <1>12
<1> QED BY <1>2, <1>3, <1>5, <1>13 DEF n

LEMMA AdvanceKeepsRate ==
  ASSUME Space!CoordinationAssumption, SpaceInv, Space!AdvanceQueues,
         NEW i \in DOMAIN message', Space!ByItself(i)
  PROVE  /\ Space!Metered(i) /\ Space!Turns(i)
         /\ Cardinality(DeliveredLately(i)) <= Space!RouteFor(message'[i].from, message'[i].to).rate
<1>1. MessageInv /\ LinkInv
  BY DEF SpaceInv
<1>2. /\ MessageInv' /\ MessagesKept /\ DOMAIN message' = DOMAIN message
      /\ \A j \in DOMAIN message :
           \/ /\ Space!Metered(j) /\ Space!Turns(j) /\ message'[j].status = "delivered"
           \/ /\ ~(Space!Metered(j) /\ Space!Turns(j)) /\ ~Space!RateQueued(j)
              /\ message'[j] = message[j]
           \/ /\ ~(Space!Metered(j) /\ Space!Turns(j)) /\ message'[j].status = "rejected"
              /\ message'[j].age = message[j].age
           \/ /\ ~(Space!Metered(j) /\ Space!Turns(j)) /\ Space!Metered(j)
              /\ message'[j] = message[j]
  BY <1>1, AdvanceFacts
<1>3. i \in DOMAIN message /\ Space!Metered(i) /\ Space!Turns(i)
  BY <1>2 DEF Space!ByItself, Space!NewlyDelivered
<1> DEFINE a == message[i].from
           b == message[i].to
           R == { j \in DOMAIN message : Space!Metered(j) /\ Space!Turns(j) /\ Space!Along(j, i) }
<1>4. message'[i].from = a /\ message'[i].to = b
  BY <1>2, <1>3 DEF MessagesKept
<1>5. R \in SUBSET DOMAIN message /\ R # {}
  BY <1>3 DEF Space!Along, Space!Between
<1>6. PICK m \in R : \A j \in R : j <= m
  BY <1>1, <1>5, Places, Latest
<1>7. m \in DOMAIN message /\ Space!Metered(m) /\ Space!Turns(m) /\ message[m].from = a /\ message[m].to = b
  BY <1>6 DEF Space!Along, Space!Between
<1>8. R \subseteq Ahead(m)
  <2> SUFFICES ASSUME NEW j \in R PROVE j \in Ahead(m)
    OBVIOUS
  <2>1. j \in DOMAIN message /\ Space!Metered(j) /\ message[j].from = a /\ message[j].to = b /\ j <= m
    BY <1>6 DEF Space!Along, Space!Between
  <2>2. j \in 1..m
    BY <1>1, <1>7, <2>1, Places
  <2> QED BY <1>7, <2>1, <2>2 DEF Ahead, Space!Along, Space!Between
<1> HIDE DEF R
<1>9. /\ Ahead(m) \in SUBSET DOMAIN message /\ Cardinality(Ahead(m)) \in Nat
      /\ Space!Recent(a, b) + Cardinality(Ahead(m)) <= Space!RouteFor(a, b).rate
  BY <1>1, <1>7, AheadFacts DEF Space!RouteOf
<1>10. /\ Young(a, b) \in SUBSET DOMAIN message
       /\ Space!Recent(a, b) = Cardinality(Young(a, b)) /\ Space!Recent(a, b) \in Nat
  BY <1>1, RecentFacts
<1>11. Space!RouteFor(a, b).rate \in Nat
  BY <1>1, <1>3, MeteredFacts DEF Space!RouteOf
<1>12. DeliveredLately(i) \subseteq Young(a, b) \cup R
  <2> SUFFICES ASSUME NEW j \in DOMAIN message,
                      message'[j].from = a, message'[j].to = b, ago'[j] < Window
               PROVE  j \in Young(a, b) \cup R
    BY <1>2, <1>4 DEF DeliveredLately
  <2>1. message[j].from = a /\ message[j].to = b /\ ago'[j] = message'[j].age
    BY <1>2 DEF MessagesKept, MessageInv
  <2>2. (Space!Metered(j) /\ Space!Turns(j)) \/ message'[j].age = message[j].age
    BY <1>2
  <2>3. CASE Space!Metered(j) /\ Space!Turns(j)
    BY <2>1, <2>3 DEF R, Space!Along, Space!Between
  <2>4. CASE message'[j].age = message[j].age
    BY <2>1, <2>4 DEF Young, Space!Between
  <2> QED BY <2>2, <2>3, <2>4
<1>13. IsFiniteSet(Young(a, b)) /\ IsFiniteSet(R) /\ IsFiniteSet(Ahead(m))
  BY <1>1, <1>5, <1>9, <1>10, WithinMessages
<1>14. Cardinality(R) <= Cardinality(Ahead(m)) /\ Cardinality(R) \in Nat
  BY <1>8, <1>13, FS_Subset, FS_CardinalityType
<1>15. /\ IsFiniteSet(Young(a, b) \cup R) /\ Cardinality(Young(a, b) \cup R) \in Nat
       /\ Cardinality(Young(a, b) \cup R) <= Cardinality(Young(a, b)) + Cardinality(R)
  <2>1. IsFiniteSet(Young(a, b) \cap R)
    BY <1>13, FS_Subset
  <2>2. Cardinality(Young(a, b) \cap R) \in Nat
    BY <2>1, FS_CardinalityType
  <2>3. /\ IsFiniteSet(Young(a, b) \cup R)
        /\ Cardinality(Young(a, b) \cup R)
             = Cardinality(Young(a, b)) + Cardinality(R) - Cardinality(Young(a, b) \cap R)
    BY <1>13, FS_Union
  <2>4. Cardinality(Young(a, b) \cup R) \in Nat
    BY <2>3, FS_CardinalityType
  <2>5. Cardinality(Young(a, b)) \in Nat
    BY <1>10
  <2> QED BY <1>14, <2>2, <2>3, <2>4, <2>5
<1>16. /\ Cardinality(DeliveredLately(i)) <= Cardinality(Young(a, b) \cup R)
       /\ Cardinality(DeliveredLately(i)) \in Nat
  BY <1>12, <1>15, FS_Subset, FS_CardinalityType
<1> HIDE DEF a, b
<1>17. Cardinality(DeliveredLately(i)) <= Space!RouteFor(a, b).rate
  BY <1>9, <1>10, <1>11, <1>14, <1>15, <1>16
<1> QED BY <1>3, <1>4, <1>17

(* Every step keeps the limit: a message that is sent is counted before it *)
(* is delivered, and of those released together the last one counts all.   *)
LEMMA RateStep ==
  ASSUME Space!CoordinationAssumption, SpaceInv, Space!Next, message' # message,
         NEW i \in DOMAIN message', Space!ByItself(i), Space!MeteredRoute(i)
  PROVE  Cardinality(DeliveredLately(i)) <= Space!RouteFor(message'[i].from, message'[i].to).rate
<1>1. CASE \E a \in Worker, b \in Worker, kind \in Space!Kind : Space!Put(a, b, kind)
  BY <1>1, PutKeepsRate
<1>2. CASE Space!AdvanceQueues
  BY <1>2, AdvanceKeepsRate
<1>3. CASE Quietly
  BY <1>3 DEF Quietly
<1> QED BY <1>1, <1>2, <1>3, MessagesMove

(* Every step keeps the order: a new message waits behind a backlog, and   *)
(* when it is a message's turn it is that of every older one.              *)
LEMMA FifoStep ==
  ASSUME Space!CoordinationAssumption, SpaceInv, Space!Next, message' # message,
         NEW i \in DOMAIN message', NEW j \in DOMAIN message', i < j, Space!ByItself(j), Space!MeteredRoute(j),
         message'[i].from = message'[j].from, message'[i].to = message'[j].to,
         message'[i].status = "queued", message'[i].note = "rate"
  PROVE  FALSE
<1>1. MessageInv /\ LinkInv
  BY DEF SpaceInv
<1>2. CASE \E a \in Worker, b \in Worker, kind \in Space!Kind : Space!Put(a, b, kind)
  <2>1. PICK a \in Worker, b \in Worker, kind \in Space!Kind : Space!Put(a, b, kind)
    BY <1>2
  <2>2. j = Len(message) + 1 /\ message'[j].from = a /\ message'[j].to = b /\ ~Space!Backlog(a, b)
    BY <2>1, PutKeepsRate
  <2>3. i \in DOMAIN message /\ message'[i] = message[i]
    <3>1. i # j /\ Len(message) \in Nat
      BY <1>1, <2>2, Places
    <3> QED BY <1>1, <2>1, <2>2, <3>1, PutFacts
  <2> QED BY <2>2, <2>3 DEF Space!Backlog, Space!Between, Space!RateQueued
<1>3. CASE Space!AdvanceQueues
  <2>1. /\ MessagesKept /\ DOMAIN message' = DOMAIN message
        /\ \A k \in DOMAIN message :
             \/ /\ Space!Metered(k) /\ Space!Turns(k) /\ message'[k].status = "delivered"
             \/ /\ ~(Space!Metered(k) /\ Space!Turns(k)) /\ ~Space!RateQueued(k)
                /\ message'[k] = message[k]
             \/ /\ ~(Space!Metered(k) /\ Space!Turns(k)) /\ message'[k].status = "rejected"
                /\ message'[k].age = message[k].age
             \/ /\ ~(Space!Metered(k) /\ Space!Turns(k)) /\ Space!Metered(k)
                /\ message'[k] = message[k]
    BY <1>1, <1>3, AdvanceFacts
  <2>2. Space!Metered(j) /\ Space!Turns(j)
    BY <1>3, AdvanceKeepsRate
  <2>3. Space!Metered(i) /\ ~Space!Turns(i)
    BY <2>1 DEF Space!RateQueued
  <2>4. i \in DOMAIN message /\ j \in DOMAIN message
        /\ message[i].from = message[j].from /\ message[i].to = message[j].to
    BY <2>1 DEF MessagesKept
  <2>5. Ahead(i) \subseteq Ahead(j)
    <3>1. i \in Nat /\ j \in Nat
      BY <1>1, <2>4, Places
    <3> QED BY <2>4, <3>1 DEF Ahead, Space!Along, Space!Between
  <2>6. /\ Cardinality(Ahead(i)) \in Nat /\ Cardinality(Ahead(j)) \in Nat
        /\ Ahead(j) \in SUBSET DOMAIN message
    BY <1>1, <2>4, AheadFacts
  <2>7. IsFiniteSet(Ahead(j))
    BY <1>1, <2>6, WithinMessages
  <2>8. Cardinality(Ahead(i)) <= Cardinality(Ahead(j))
    BY <2>5, <2>7, FS_Subset
  <2>9. /\ ~(Space!Recent(message[j].from, message[j].to) + Cardinality(Ahead(i)) <= Space!RouteOf(j).rate)
        /\ Space!Recent(message[j].from, message[j].to) + Cardinality(Ahead(j)) <= Space!RouteOf(j).rate
    BY <1>1, <2>2, <2>3, <2>4, AheadFacts DEF Space!RouteOf
  <2>10. Space!RouteOf(j).rate \in Nat /\ Space!Recent(message[j].from, message[j].to) \in Nat
    BY <1>1, <2>2, MeteredFacts, RecentFacts
  <2> QED BY <2>6, <2>8, <2>9, <2>10
<1>4. CASE Quietly
  BY <1>4 DEF Quietly
<1> QED BY <1>2, <1>3, <1>4, MessagesMove

LEMMA OnceStep ==
  ASSUME Space!CoordinationAssumption, SpaceInv, Space!Next, NEW i, i \in asked, Space!Leaves(i)
  PROVE  Space!Again \/ ~active'.first
<1>1. CASE \E saved \in BOOLEAN : Space!SendRequest(saved)
  <2>1. PICK saved \in BOOLEAN : Space!SendRequest(saved)
    BY <1>1
  <2>2. /\ pending # Space!NoTurn
        /\ active'.turn = pending.turn /\ active'.first = pending.first
    BY <2>1 DEF Space!SendRequest, Space!Runs, Space!Sent
  <2>3. i = pending.turn
    BY <2>2 DEF Space!Leaves
  <2>4. ~(Space!Runs(pending, i) /\ pending.first)
    BY DEF SpaceInv, AskedInv
  <2> QED BY <2>2, <2>3, <2>4 DEF Space!Runs
<1> QED BY <1>1, OnlySent

LEMMA StoppedStep ==
  ASSUME Space!CoordinationAssumption, SpaceInv, Space!Next, NEW i, i \in halted, Space!Leaves(i)
  PROVE  Space!Again /\ i \in asked
<1>1. i \in Space!Id
  BY DEF SpaceInv, HaltInv
<1>2. ASSUME NEW saved \in BOOLEAN, Space!SendRequest(saved)
      PROVE  FALSE
  <2>1. active'.turn = pending.turn /\ Space!MaySend(pending)
    BY <1>2 DEF Space!SendRequest, Space!Sent
  <2>2. i = pending.turn
    BY <2>1 DEF Space!Leaves
  <2>3. /\ pending.worker \in armed
        /\ lease[pending.worker].active = i /\ message[i].to = pending.worker
    BY <1>1, <2>1, <2>2 DEF Space!MaySend, Space!ClaimValid
  <2> QED BY <2>3 DEF SpaceInv, HaltInv
<1>3. Space!Again /\ i = active.turn
  BY <1>2, OnlySent
<1>4. i \in asked
  BY <1>1, <1>3 DEF Space!Again, SpaceInv, AskedInv
<1> QED BY <1>3, <1>4

-----------------------------------------------------------------------------
(* The promises are stated of what WorkspacePromises declares; the steps   *)
(* are Coordination's.  A route and a delivery are the same to both.       *)
LEMMA SameRoutes ==
  /\ \A a, b : Space!RouteFor(a, b) = RouteFor(a, b)
  /\ \A i : Space!ByItself(i) <=> ByItself(i)
  /\ \A i : Space!Leaves(i) <=> Leaves(i)
  /\ Space!Again <=> Again
<1>1. \A a, b : Space!RouteFor(a, b) = RouteFor(a, b)
  BY DEF Space!RouteFor, RouteFor, Space!ReturnPath, ReturnPath, Space!NoLink, NoLink
<1>2. \A i : Space!ByItself(i) <=> ByItself(i)
  BY DEF Space!ByItself, ByItself, Space!NewlyDelivered, NewlyDelivered
<1>3. \A i : Space!Leaves(i) <=> Leaves(i)
  BY DEF Space!Leaves, Leaves, Space!NoTurn, NoTurn
<1>4. Space!Again <=> Again
  BY DEF Space!Again, Again, Space!NoTurn, NoTurn
<1> QED BY <1>1, <1>2, <1>3, <1>4

LEMMA MessagesStand ==
  ASSUME UNCHANGED Space!vars
  PROVE  message' = message /\ active' = active
BY DEF Space!vars, Space!file, Space!window

(* An edge with a limit delivers by itself no more than the limit in a     *)
(* minute: send counts before it delivers, advance_rate_queues releases    *)
(* what there is room for, and delete_message keeps the time of delivery.  *)
THEOREM WorkspaceRateKept ==
  ASSUME Space!CoordinationAssumption
  PROVE  Space!Spec => RateKept
<1> DEFINE A == \A i \in DOMAIN message' : ByItself(i) /\ MeteredRoute(i) =>
                  Cardinality({ j \in DOMAIN message' :
                    /\ message'[j].from = message'[i].from /\ message'[j].to = message'[i].to
                    /\ ago'[j] < Window }) <= RouteFor(message'[i].from, message'[i].to).rate
<1>1. ASSUME SpaceInv, [Space!Next]_(Space!vars), message' # message
      PROVE  A
  <2> SUFFICES ASSUME NEW i \in DOMAIN message', ByItself(i), MeteredRoute(i)
               PROVE  Cardinality(DeliveredLately(i))
                        <= RouteFor(message'[i].from, message'[i].to).rate
    BY DEF DeliveredLately
  <2>1. Space!Next
    BY <1>1, MessagesStand
  <2>2. Space!ByItself(i) /\ Space!MeteredRoute(i)
    BY SameRoutes DEF MeteredRoute, Space!MeteredRoute
  <2>3. Cardinality(DeliveredLately(i))
          <= Space!RouteFor(message'[i].from, message'[i].to).rate
    BY <1>1, <2>1, <2>2, RateStep
  <2> QED BY <2>3, SameRoutes
<1>2. SpaceInv /\ [Space!Next]_(Space!vars) => [A]_message
  BY <1>1
<1>3. Space!Spec => [][A]_message
  BY <1>2, WorkspaceInductive, PTL DEF Space!Spec
<1> QED BY <1>3, PTL DEF RateKept

(* No message overtakes an older one that waits for room on its edge: send *)
(* queues behind a backlog, and advance_rate_queues releases in the order  *)
(* of the ids.                                                             *)
THEOREM WorkspaceFifoKept ==
  ASSUME Space!CoordinationAssumption
  PROVE  Space!Spec => FifoKept
<1> DEFINE A == \A i, j \in DOMAIN message' : i < j /\ ByItself(j) /\ MeteredRoute(j) =>
                  ~( /\ message'[i].from = message'[j].from /\ message'[i].to = message'[j].to
                     /\ message'[i].status = "queued" /\ message'[i].note = "rate")
<1>1. ASSUME SpaceInv, [Space!Next]_(Space!vars), message' # message
      PROVE  A
  <2> SUFFICES ASSUME NEW i \in DOMAIN message', NEW j \in DOMAIN message',
                      i < j, ByItself(j), MeteredRoute(j),
                      message'[i].from = message'[j].from, message'[i].to = message'[j].to,
                      message'[i].status = "queued", message'[i].note = "rate"
               PROVE  FALSE
    OBVIOUS
  <2>1. Space!Next
    BY <1>1, MessagesStand
  <2>2. Space!ByItself(j) /\ Space!MeteredRoute(j)
    BY SameRoutes DEF MeteredRoute, Space!MeteredRoute
  <2> QED BY <1>1, <2>1, <2>2, FifoStep
<1>2. SpaceInv /\ [Space!Next]_(Space!vars) => [A]_message
  BY <1>1
<1>3. Space!Spec => [][A]_message
  BY <1>2, WorkspaceInductive, PTL DEF Space!Spec
<1> QED BY <1>3 DEF FifoKept

(* A directive's wake is dispatched once: the claim saved with it outlives *)
(* grants, stops, failed saves and restarts, and only a request refused    *)
(* with HTTP 429 is sent another time (claim_next_wake,                    *)
(* dispatch_durable_coordination_wake, process_due_delivery_retry).        *)
THEOREM WorkspaceWokenOnce ==
  ASSUME Space!CoordinationAssumption
  PROVE  Space!Spec => WokenOnce
<1> DEFINE A == \A i \in asked : Leaves(i) => Again \/ ~active'.first
<1>1. ASSUME SpaceInv, [Space!Next]_(Space!vars), active' # active
      PROVE  A
  <2> SUFFICES ASSUME NEW i, i \in asked, Leaves(i) PROVE Again \/ ~active'.first
    OBVIOUS
  <2>1. Space!Next
    BY <1>1, MessagesStand
  <2> QED BY <1>1, <2>1, SameRoutes, OnceStep
<1>2. SpaceInv /\ [Space!Next]_(Space!vars) => [A]_active
  BY <1>1
<1>3. Space!Spec => [][A]_active
  BY <1>2, WorkspaceInductive, PTL DEF Space!Spec
<1> QED BY <1>3 DEF WokenOnce

(* A stopped wake is not dispatched: where the stop could not be saved the *)
(* open claim keeps its worker from being granted a lease again            *)
(* (stop_wake_lease, grant_wake_lease).  What is sent of it after the stop *)
(* is a request that had left before, and that the service refused         *)
(* (process_due_delivery_retry).                                           *)
THEOREM WorkspaceStoppedNotDispatched ==
  ASSUME Space!CoordinationAssumption
  PROVE  Space!Spec => StoppedNotDispatched
<1> DEFINE A == \A i \in halted : Leaves(i) => Again /\ i \in asked
<1>1. ASSUME SpaceInv, [Space!Next]_(Space!vars), active' # active
      PROVE  A
  <2> SUFFICES ASSUME NEW i, i \in halted, Leaves(i) PROVE Again /\ i \in asked
    OBVIOUS
  <2>1. Space!Next
    BY <1>1, MessagesStand
  <2> QED BY <1>1, <2>1, SameRoutes, StoppedStep
<1>2. SpaceInv /\ [Space!Next]_(Space!vars) => [A]_active
  BY <1>1
<1>3. Space!Spec => [][A]_active
  BY <1>2, WorkspaceInductive, PTL DEF Space!Spec
<1> QED BY <1>3 DEF StoppedNotDispatched
=============================================================================
