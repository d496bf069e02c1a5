-------------------------- MODULE RemoteTurnProofs --------------------------
(***************************************************************************)
(* Proofs about RemoteTurn, for every set of turns and every bound.  The   *)
(* inductive invariant ties the window's knowledge to the journal: what is *)
(* queued and noticed tells of durable evidence, each notice stands for a  *)
(* known place of a turn's trail, and a turn that is pending, active,      *)
(* outstanding or being committed has the submissions that go with it.     *)
(***************************************************************************)
EXTENDS RemoteTurn, FiniteSetTheorems, SequenceTheorems, WellFoundedInduction, TLAPS

Command == [turn : Turn, kind : Evidence \cup {"commit"}]

NoticeOf == [turn : Turn, kind : Evidence \cup {"commit", "error"}]

(* The turns whose dispatch is durable, in a journal's trails. *)
Dispatched(tr) == { t \in Turn : Holds(tr[t], "dispatched") }

(* A message is queued to be committed, and a dispatch is queued only for  *)
(* a continuation or a committed message.                                  *)
Cmds(c) ==
  { x \in Command : /\ x.kind = "commit" => x.turn \in Authored
                    /\ x.kind = "dispatched" => x.turn \in c \cup Execution }

(* A notice of a commit or of a dispatch tells of what is durable. *)
Notes(c, d) ==
  { x \in NoticeOf : /\ x.kind = "commit" => x.turn \in c
                     /\ x.kind = "dispatched" => x.turn \in d }

GateInv ==
  /\ queue \in Seq(Cmds(committed))
  /\ notices \in Seq(Notes(committed, Dispatched(trail)))
  /\ {pending, flow, active.turn} \cap Authored \subseteq committed
  /\ Dispatched(trail) \cap Authored \subseteq committed
  /\ \A t \in Turn : unanswered[t] > 0 => t \in Dispatched(trail)

ModeInv ==
  /\ mode # "up" => notices = <<>>
  /\ mode \in {"down", "recovered"} => appended = NoTurn /\ queue = <<>>
  /\ active.waiting => active.turn # NoTurn

Tells(x, t) == x.turn = t /\ x.kind \in Evidence

(* The notices of a turn's evidence behind position i of the channel. *)
Later(ns, t, i) == { j \in DOMAIN ns : j > i /\ Tells(ns[j], t) }

After(ns, t, i) == Cardinality(Later(ns, t, i))

(* The place in a turn's trail that notice i of its evidence tells of, and *)
(* for i = 0 the last place the window knows of.                           *)
Place(tr, ns, ap, t, i) ==
  Len(tr[t]) - After(ns, t, i) - (IF ap = t THEN 1 ELSE 0)

Seeing(tr, ns, ap) ==
  \A t \in Turn :
    /\ ap = t => tr[t] # <<>> /\ Last(tr[t]) \in Ending
    /\ \A i \in DOMAIN ns : Tells(ns[i], t) =>
         /\ Place(tr, ns, ap, t, i) \in DOMAIN tr[t]
         /\ tr[t][Place(tr, ns, ap, t, i)] = ns[i].kind

(* A dispatch the window knows of. *)
Known(tr, ns, ap, t) ==
  \E i \in DOMAIN tr[t] : i <= Place(tr, ns, ap, t, 0) /\ tr[t][i] = "dispatched"

SeenInv == Seeing(trail, notices, appended)

ResendInv ==
  \A t \in Turn :
    /\ unanswered[t] <= 1
    /\ active.turn = t => unanswered[t] = 1
    /\ pending = t => unanswered[t] = 0
    /\ flow = t => unanswered[t] = 0 /\ pending # t
    /\ sending.turn = t => unanswered[t] = 0 /\ pending # t /\ flow # t
    /\ t \in Execution /\ (unanswered[t] > 0 \/ flow = t) =>
         Known(trail, notices, appended, t)

IInv ==
  /\ TypeOK
  /\ GateInv
  /\ ModeInv
  /\ SeenInv
  /\ ResendInv

-----------------------------------------------------------------------------
(* A finite set of places has a last one. *)
LEMMA LatestExists ==
  ASSUME NEW n \in Nat, NEW S \in SUBSET (1..n), S # {}
  PROVE  \E i \in S : \A j \in S : j <= i
<1> DEFINE T == { n - i : i \in S }
<1>0. \A i \in S : i \in 1..n /\ n - i \in Nat /\ n - i \in T
  OBVIOUS
<1>1. T \subseteq Nat /\ T # {}
  BY <1>0
<1>2. PICK x \in T : \A y \in T : ~(<<y, x>> \in OpToRel(<, Nat))
  BY <1>1, WFMin, NatLessThanWellFounded
<1>3. \A y \in T : ~(y < x)
  BY <1>1, <1>2 DEF OpToRel
<1>4. PICK i \in S : x = n - i
  OBVIOUS
<1>5. \A j \in S : j <= i
  <2> TAKE j \in S
  <2>1. ~(n - j < n - i)
    BY <1>0, <1>3, <1>4
  <2> HIDE DEF T
  <2> QED BY <1>0, <2>1
<1> QED BY <1>5

-----------------------------------------------------------------------------
(* Counting notices. *)
LEMMA LaterFacts ==
  ASSUME NEW ns \in Seq(NoticeOf), NEW t, NEW i \in Nat
  PROVE  /\ Later(ns, t, i) \subseteq 1..Len(ns)
         /\ IsFiniteSet(Later(ns, t, i))
         /\ After(ns, t, i) \in Nat
<1>1. Later(ns, t, i) \subseteq 1..Len(ns)
  BY DEF Later
<1>2. IsFiniteSet(1..Len(ns))
  BY FS_Interval
<1>3. IsFiniteSet(Later(ns, t, i))
  BY <1>1, <1>2, FS_Subset
<1> QED BY <1>1, <1>3, FS_CardinalityType DEF After

LEMMA AfterNone ==
  ASSUME NEW t, NEW i \in Nat
  PROVE  After(<<>>, t, i) = 0
<1>1. Later(<<>>, t, i) = {}
  BY DEF Later
<1> QED BY <1>1, FS_EmptySet DEF After

LEMMA AfterAppend ==
  ASSUME NEW ns \in Seq(NoticeOf), NEW x \in NoticeOf, NEW t, NEW i \in 0..Len(ns)
  PROVE  After(Append(ns, x), t, i) = After(ns, t, i) + (IF Tells(x, t) THEN 1 ELSE 0)
<1>1. /\ Append(ns, x) \in Seq(NoticeOf)
      /\ Len(Append(ns, x)) = Len(ns) + 1
      /\ \A j \in 1..Len(ns) : Append(ns, x)[j] = ns[j]
      /\ Append(ns, x)[Len(ns) + 1] = x
  BY AppendProperties
<1>2. CASE Tells(x, t)
  <2>1. Later(Append(ns, x), t, i) = Later(ns, t, i) \cup {Len(ns) + 1}
    BY <1>1, <1>2 DEF Later
  <2>2. Len(ns) + 1 \notin Later(ns, t, i)
    BY LaterFacts
  <2>3. IsFiniteSet(Later(ns, t, i)) /\ After(ns, t, i) \in Nat
    BY LaterFacts
  <2>4. Cardinality(Later(ns, t, i) \cup {Len(ns) + 1}) = Cardinality(Later(ns, t, i)) + 1
    BY <2>2, <2>3, FS_AddElement
  <2> QED BY <1>2, <2>1, <2>4 DEF After
<1>3. CASE ~Tells(x, t)
  <2>1. Later(Append(ns, x), t, i) = Later(ns, t, i)
    BY <1>1, <1>3 DEF Later
  <2> QED BY <1>3, <2>1, LaterFacts DEF After
<1> QED BY <1>2, <1>3

LEMMA AfterTail ==
  ASSUME NEW ns \in Seq(NoticeOf), ns # <<>>, NEW t, NEW i \in Nat
  PROVE  After(Tail(ns), t, i) = After(ns, t, i + 1)
<1>1. /\ Tail(ns) \in Seq(NoticeOf)
      /\ Len(Tail(ns)) = Len(ns) - 1
      /\ \A j \in 1..Len(Tail(ns)) : Tail(ns)[j] = ns[j + 1]
  BY HeadTailProperties
<1> DEFINE S == Later(Tail(ns), t, i)
           T == Later(ns, t, i + 1)
           f == [j \in S |-> j + 1]
<1>2. \A j \in Nat : j \in S <=> j + 1 \in T
  BY <1>1 DEF Later
<1>3. S \subseteq Nat /\ T \subseteq Nat /\ \A k \in T : k - 1 \in Nat
  BY <1>1, LaterFacts DEF Later
<1>4. f \in Bijection(S, T)
  <2> HIDE DEF S, T
  <2>1. f \in [S -> T] /\ \A a, b \in S : f[a] = f[b] => a = b
    BY <1>2, <1>3
  <2>2. \A k \in T : k - 1 \in S /\ f[k - 1] = k
    BY <1>2, <1>3
  <2> QED BY <2>1, <2>2 DEF Bijection, Injection, Surjection, IsInjective
<1>5. ExistsBijection(S, T)
  BY <1>4 DEF ExistsBijection
<1> QED BY <1>1, <1>5, LaterFacts, FS_Bijection DEF After

LEMMA AfterHead ==
  ASSUME NEW ns \in Seq(NoticeOf), ns # <<>>, NEW t
  PROVE  After(ns, t, 0) = After(ns, t, 1) + (IF Tells(Head(ns), t) THEN 1 ELSE 0)
<1>1. CASE Tells(Head(ns), t)
  <2>1. Later(ns, t, 0) = Later(ns, t, 1) \cup {1} /\ 1 \notin Later(ns, t, 1)
    BY <1>1 DEF Later
  <2> QED BY <1>1, <2>1, LaterFacts, FS_AddElement DEF After
<1>2. CASE ~Tells(Head(ns), t)
  <2>1. Later(ns, t, 0) = Later(ns, t, 1)
    BY <1>2 DEF Later
  <2> QED BY <1>2, <2>1, LaterFacts DEF After
<1> QED BY <1>1, <1>2

-----------------------------------------------------------------------------
(* How the channel moves: what a notice tells of stays where it was, and   *)
(* the window never knows less.                                            *)
Trails == [Turn -> Seq(Evidence)]

LEMMA PlaceFacts ==
  ASSUME NEW tr \in Trails, NEW ns \in Seq(NoticeOf), NEW ap, NEW t \in Turn, NEW i \in Nat
  PROVE  Place(tr, ns, ap, t, i) \in Int /\ Place(tr, ns, ap, t, i) <= Len(tr[t])
BY LaterFacts DEF Place, Trails

LEMMA KnownGrows ==
  ASSUME NEW tr \in Trails, NEW ns \in Seq(NoticeOf), NEW ap,
         NEW tr2 \in Trails, NEW ns2 \in Seq(NoticeOf), NEW ap2,
         NEW t \in Turn,
         Len(tr[t]) <= Len(tr2[t]),
         \A i \in DOMAIN tr[t] : tr2[t][i] = tr[t][i],
         Place(tr, ns, ap, t, 0) <= Place(tr2, ns2, ap2, t, 0),
         Known(tr, ns, ap, t)
  PROVE  Known(tr2, ns2, ap2, t)
<1>1. PICK i \in DOMAIN tr[t] : i <= Place(tr, ns, ap, t, 0) /\ tr[t][i] = "dispatched"
  BY DEF Known
<1>2. tr[t] \in Seq(Evidence) /\ tr2[t] \in Seq(Evidence)
  BY DEF Trails
<1>3. i \in DOMAIN tr2[t] /\ tr2[t][i] = "dispatched"
  BY <1>1, <1>2
<1>4. i <= Place(tr2, ns2, ap2, t, 0)
  BY <1>1, <1>2, PlaceFacts
<1> QED BY <1>3, <1>4 DEF Known

LEMMA KnownStays ==
  ASSUME NEW tr \in Trails, NEW ns \in Seq(NoticeOf), NEW ap, NEW ns2 \in Seq(NoticeOf), NEW ap2,
         NEW t \in Turn,
         Place(tr, ns, ap, t, 0) <= Place(tr, ns2, ap2, t, 0),
         Known(tr, ns, ap, t)
  PROVE  Known(tr, ns2, ap2, t)
<1>1. Len(tr[t]) <= Len(tr[t]) /\ \A i \in DOMAIN tr[t] : tr[t][i] = tr[t][i]
  BY DEF Trails
<1> QED BY <1>1, KnownGrows

LEMMA AppendOther ==
  ASSUME NEW tr \in Trails, NEW ns \in Seq(NoticeOf), NEW ap,
         NEW x \in NoticeOf, x.kind \notin Evidence, Seeing(tr, ns, ap)
  PROVE  /\ Seeing(tr, Append(ns, x), ap)
         /\ \A u \in Turn : Known(tr, ns, ap, u) => Known(tr, Append(ns, x), ap, u)
<1>1. /\ Append(ns, x) \in Seq(NoticeOf)
      /\ Len(Append(ns, x)) = Len(ns) + 1
      /\ \A j \in 1..Len(ns) : Append(ns, x)[j] = ns[j]
      /\ Append(ns, x)[Len(ns) + 1] = x
  BY AppendProperties
<1>2. \A u : \A i \in 0..Len(ns) :
        Place(tr, Append(ns, x), ap, u, i) = Place(tr, ns, ap, u, i)
  <2> TAKE u
  <2> TAKE i \in 0..Len(ns)
  <2>1. ~Tells(x, u)
    BY DEF Tells
  <2>2. After(ns, u, i) \in Nat /\ After(Append(ns, x), u, i) = After(ns, u, i)
    BY <2>1, AfterAppend, LaterFacts
  <2> QED BY <2>2 DEF Place
<1>3. Seeing(tr, Append(ns, x), ap)
  <2> SUFFICES ASSUME NEW u \in Turn, NEW i \in DOMAIN Append(ns, x),
                     Tells(Append(ns, x)[i], u)
              PROVE  /\ Place(tr, Append(ns, x), ap, u, i) \in DOMAIN tr[u]
                     /\ tr[u][Place(tr, Append(ns, x), ap, u, i)] = Append(ns, x)[i].kind
    BY DEF Seeing
  <2>1. i \in 1..Len(ns)
    BY <1>1 DEF Tells
  <2>2. Append(ns, x)[i] = ns[i] /\ Place(tr, Append(ns, x), ap, u, i) = Place(tr, ns, ap, u, i)
    BY <1>1, <1>2, <2>1
  <2> QED BY <2>1, <2>2 DEF Seeing
<1>4. ASSUME NEW u \in Turn, Known(tr, ns, ap, u) PROVE Known(tr, Append(ns, x), ap, u)
  BY <1>2, <1>4 DEF Known
<1> QED BY <1>3, <1>4

LEMMA AppendEvidence ==
  ASSUME NEW tr \in Trails, NEW ns \in Seq(NoticeOf), NEW t \in Turn, NEW kind \in Evidence,
         Seeing(tr, ns, NoTurn)
  PROVE  LET tr2 == [tr EXCEPT ![t] = Append(@, kind)]
             ns2 == Append(ns, Item(t, kind))
         IN  /\ Seeing(tr2, ns2, NoTurn)
             /\ \A u \in Turn : Known(tr, ns, NoTurn, u) => Known(tr2, ns2, NoTurn, u)
<1> DEFINE tr2 == [tr EXCEPT ![t] = Append(@, kind)]
           ns2 == Append(ns, Item(t, kind))
<1>0. Item(t, kind) \in NoticeOf /\ \A u : Tells(Item(t, kind), u) <=> u = t
  BY DEF Item, NoticeOf, Tells
<1>1. /\ ns2 \in Seq(NoticeOf)
      /\ Len(ns2) = Len(ns) + 1
      /\ \A j \in 1..Len(ns) : ns2[j] = ns[j]
      /\ ns2[Len(ns) + 1] = Item(t, kind)
  BY <1>0, AppendProperties
<1>2. tr2 \in Trails /\ tr2[t] = Append(tr[t], kind)
  BY DEF Trails
<1>3. \A u \in Turn : u # t => tr2[u] = tr[u]
  BY DEF Trails
<1>4. \A u \in Turn : tr[u] \in Seq(Evidence) /\ Len(tr[u]) \in Nat /\ DOMAIN tr[u] = 1..Len(tr[u])
  BY DEF Trails
<1>5. Len(tr2[t]) = Len(tr[t]) + 1
  BY <1>2, <1>4, AppendProperties
<1>6. tr2[t][Len(tr[t]) + 1] = kind /\ \A j \in 1..Len(tr[t]) : tr2[t][j] = tr[t][j]
  BY <1>2, <1>4, AppendProperties
<1>7. DOMAIN tr2[t] = 1..(Len(tr[t]) + 1)
  BY <1>2, <1>4, <1>5, AppendProperties
<1> HIDE DEF tr2, ns2
<1>8. \A u \in Turn : \A i \in 0..Len(ns) :
        Place(tr2, ns2, NoTurn, u, i) = Place(tr, ns, NoTurn, u, i)
  <2> TAKE u \in Turn
  <2> TAKE i \in 0..Len(ns)
  <2>1. /\ After(ns, u, i) \in Nat
        /\ After(ns2, u, i) = After(ns, u, i) + (IF u = t THEN 1 ELSE 0)
    BY <1>0, AfterAppend, LaterFacts DEF ns2
  <2>2. Len(tr[u]) \in Nat /\ Len(tr[t]) \in Nat
    BY <1>4
  <2>3. NoTurn # u
    BY RemoteTurnAssumption
  <2>4. CASE u = t
    BY <1>5, <2>1, <2>2, <2>3, <2>4 DEF Place
  <2>5. CASE u # t
    BY <1>3, <2>1, <2>2, <2>3, <2>5 DEF Place
  <2> QED BY <2>4, <2>5
<1>9. Seeing(tr2, ns2, NoTurn)
  <2> SUFFICES ASSUME NEW u \in Turn, NEW i \in DOMAIN ns2, Tells(ns2[i], u)
              PROVE  /\ Place(tr2, ns2, NoTurn, u, i) \in DOMAIN tr2[u]
                     /\ tr2[u][Place(tr2, ns2, NoTurn, u, i)] = ns2[i].kind
    BY RemoteTurnAssumption DEF Seeing
  <2>1. CASE i \in 1..Len(ns)
    <3>1. ns2[i] = ns[i] /\ Place(tr2, ns2, NoTurn, u, i) = Place(tr, ns, NoTurn, u, i)
      BY <1>1, <1>8, <2>1
    <3>2. /\ Place(tr, ns, NoTurn, u, i) \in DOMAIN tr[u]
          /\ tr[u][Place(tr, ns, NoTurn, u, i)] = ns[i].kind
      BY <2>1, <3>1 DEF Seeing
    <3>3. CASE u = t
      BY <1>4, <1>5, <1>6, <1>7, <3>1, <3>2, <3>3
    <3>4. CASE u # t
      BY <1>3, <3>1, <3>2, <3>4
    <3> QED BY <3>3, <3>4
  <2>2. CASE i = Len(ns) + 1
    <3>1. u = t /\ ns2[i].kind = kind
      BY <1>0, <1>1, <2>2 DEF Item
    <3>2. After(ns2, u, i) = 0
      <4>1. Later(ns2, u, i) = {}
        BY <1>1, <2>2 DEF Later
      <4> QED BY <4>1, FS_EmptySet DEF After
    <3>3. Place(tr2, ns2, NoTurn, u, i) = Len(tr2[t])
      <4>1. NoTurn # u /\ Len(tr2[t]) \in Nat
        BY <1>4, <1>5, RemoteTurnAssumption
      <4> QED BY <3>1, <3>2, <4>1 DEF Place
    <3> QED BY <1>4, <1>5, <1>6, <1>7, <3>1, <3>3
  <2> QED BY <1>1, <2>1, <2>2
<1>10. ASSUME NEW u \in Turn, Known(tr, ns, NoTurn, u) PROVE Known(tr2, ns2, NoTurn, u)
  <2>1. Place(tr2, ns2, NoTurn, u, 0) = Place(tr, ns, NoTurn, u, 0)
    BY <1>8
  <2>2. Len(tr[u]) <= Len(tr2[u]) /\ \A i \in DOMAIN tr[u] : tr2[u][i] = tr[u][i]
    BY <1>3, <1>4, <1>5, <1>6
  <2>3. Place(tr, ns, NoTurn, u, 0) <= Place(tr2, ns2, NoTurn, u, 0)
    BY <2>1, PlaceFacts
  <2> QED BY <1>1, <1>2, <1>10, <2>2, <2>3, KnownGrows
<1> QED BY <1>9, <1>10 DEF tr2, ns2

LEMMA HoldEnding ==
  ASSUME NEW tr \in Trails, NEW ns \in Seq(NoticeOf), NEW t \in Turn, NEW kind \in Ending,
         Seeing(tr, ns, NoTurn)
  PROVE  LET tr2 == [tr EXCEPT ![t] = Append(@, kind)]
         IN  /\ Seeing(tr2, ns, t)
             /\ \A u \in Turn : Known(tr, ns, NoTurn, u) => Known(tr2, ns, t, u)
<1> DEFINE tr2 == [tr EXCEPT ![t] = Append(@, kind)]
<1>1. tr2 \in Trails /\ tr2[t] = Append(tr[t], kind)
  BY DEF Trails, Evidence
<1>2. \A u \in Turn : u # t => tr2[u] = tr[u]
  BY DEF Trails
<1>3. \A u \in Turn : tr[u] \in Seq(Evidence) /\ Len(tr[u]) \in Nat /\ DOMAIN tr[u] = 1..Len(tr[u])
  BY DEF Trails
<1>4. Len(tr2[t]) = Len(tr[t]) + 1
  BY <1>1, <1>3, AppendProperties DEF Evidence
<1>5. tr2[t][Len(tr[t]) + 1] = kind /\ \A j \in 1..Len(tr[t]) : tr2[t][j] = tr[t][j]
  BY <1>1, <1>3, AppendProperties DEF Evidence
<1>6. DOMAIN tr2[t] = 1..(Len(tr[t]) + 1) /\ tr2[t] # <<>>
  <2>1. tr2[t] \in Seq(Evidence) /\ tr2[t] # <<>>
    BY <1>1, <1>3, AppendProperties DEF Evidence
  <2> QED BY <1>4, <2>1
<1> HIDE DEF tr2
<1>7. \A u \in Turn : \A i \in Nat : Place(tr2, ns, t, u, i) = Place(tr, ns, NoTurn, u, i)
  <2> TAKE u \in Turn
  <2> TAKE i \in Nat
  <2>1. After(ns, u, i) \in Nat /\ NoTurn # u /\ Len(tr[u]) \in Nat
    BY <1>3, LaterFacts, RemoteTurnAssumption
  <2>2. CASE u = t
    BY <1>4, <2>1, <2>2 DEF Place
  <2>3. CASE u # t
    BY <1>2, <2>1, <2>3 DEF Place
  <2> QED BY <2>2, <2>3
<1>8. Last(tr2[t]) \in Ending
  BY <1>3, <1>4, <1>5 DEF Last
<1>9. ASSUME NEW u \in Turn, NEW i \in DOMAIN ns, Tells(ns[i], u)
      PROVE  /\ Place(tr2, ns, t, u, i) \in DOMAIN tr2[u]
             /\ tr2[u][Place(tr2, ns, t, u, i)] = ns[i].kind
  <2>1. Place(tr2, ns, t, u, i) = Place(tr, ns, NoTurn, u, i)
    BY <1>7
  <2>2. /\ Place(tr, ns, NoTurn, u, i) \in DOMAIN tr[u]
        /\ tr[u][Place(tr, ns, NoTurn, u, i)] = ns[i].kind
    BY <1>9 DEF Seeing
  <2>3. CASE u = t
    BY <1>3, <1>5, <1>6, <2>1, <2>2, <2>3
  <2>4. CASE u # t
    BY <1>2, <2>1, <2>2, <2>4
  <2> QED BY <2>3, <2>4
<1>10. Seeing(tr2, ns, t)
  BY <1>6, <1>8, <1>9 DEF Seeing
<1>11. ASSUME NEW u \in Turn, Known(tr, ns, NoTurn, u) PROVE Known(tr2, ns, t, u)
  <2>1. Len(tr[u]) <= Len(tr2[u]) /\ \A i \in DOMAIN tr[u] : tr2[u][i] = tr[u][i]
    BY <1>2, <1>3, <1>4, <1>5
  <2>2. Place(tr, ns, NoTurn, u, 0) <= Place(tr2, ns, t, u, 0)
    BY <1>7, PlaceFacts
  <2> QED BY <1>1, <1>11, <2>1, <2>2, KnownGrows
<1> QED BY <1>10, <1>11 DEF tr2

LEMMA ReleaseEnding ==
  ASSUME NEW tr \in Trails, NEW ns \in Seq(NoticeOf), NEW t \in Turn, Seeing(tr, ns, t)
  PROVE  LET ns2 == Append(ns, Item(t, Last(tr[t])))
         IN  /\ Item(t, Last(tr[t])) \in NoticeOf
             /\ Seeing(tr, ns2, NoTurn)
             /\ \A u \in Turn : Known(tr, ns, t, u) => Known(tr, ns2, NoTurn, u)
<1> DEFINE x == Item(t, Last(tr[t]))
           ns2 == Append(ns, x)
<1>1. Last(tr[t]) \in Ending /\ tr[t] # <<>>
  BY DEF Seeing
<1>2. x \in NoticeOf /\ \A u : Tells(x, u) <=> u = t
  BY <1>1 DEF Item, NoticeOf, Tells, Evidence
<1>3. /\ ns2 \in Seq(NoticeOf)
      /\ Len(ns2) = Len(ns) + 1
      /\ \A j \in 1..Len(ns) : ns2[j] = ns[j]
      /\ ns2[Len(ns) + 1] = x
  BY <1>2, AppendProperties
<1>4. \A u \in Turn : tr[u] \in Seq(Evidence) /\ Len(tr[u]) \in Nat /\ DOMAIN tr[u] = 1..Len(tr[u])
  BY DEF Trails
<1>5. \A u \in Turn : \A i \in 0..Len(ns) : Place(tr, ns2, NoTurn, u, i) = Place(tr, ns, t, u, i)
  <2> TAKE u \in Turn
  <2> TAKE i \in 0..Len(ns)
  <2>1. After(ns, u, i) \in Nat /\ NoTurn # u /\ Len(tr[u]) \in Nat
    BY <1>4, LaterFacts, RemoteTurnAssumption
  <2>2. After(ns2, u, i) = After(ns, u, i) + (IF u = t THEN 1 ELSE 0)
    BY <1>2, AfterAppend
  <2> HIDE DEF ns2
  <2> QED BY <2>1, <2>2 DEF Place
<1>6. ASSUME NEW u \in Turn, NEW i \in DOMAIN ns2, Tells(ns2[i], u)
      PROVE  /\ Place(tr, ns2, NoTurn, u, i) \in DOMAIN tr[u]
             /\ tr[u][Place(tr, ns2, NoTurn, u, i)] = ns2[i].kind
  <2>1. CASE i \in 1..Len(ns)
    <3>1. ns2[i] = ns[i] /\ Place(tr, ns2, NoTurn, u, i) = Place(tr, ns, t, u, i)
      BY <1>3, <1>5, <2>1
    <3> QED BY <1>6, <2>1, <3>1 DEF Seeing
  <2>2. CASE i = Len(ns) + 1
    <3>1. u = t /\ ns2[i].kind = Last(tr[t])
      BY <1>2, <1>3, <1>6, <2>2 DEF Item
    <3>2. After(ns2, u, i) = 0
      <4>1. Later(ns2, u, i) = {}
        BY <1>3, <2>2 DEF Later
      <4> QED BY <4>1, FS_EmptySet DEF After
    <3>3. NoTurn # u /\ Len(tr[t]) \in Nat \ {0}
      BY <1>1, <1>4, RemoteTurnAssumption, EmptySeq
    <3>4. Place(tr, ns2, NoTurn, u, i) = Len(tr[t])
      BY <3>1, <3>2, <3>3 DEF Place
    <3> QED BY <1>4, <3>1, <3>3, <3>4 DEF Last
  <2> QED BY <1>3, <2>1, <2>2
<1>7. Seeing(tr, ns2, NoTurn)
  BY <1>6, RemoteTurnAssumption DEF Seeing
<1>8. ASSUME NEW u \in Turn, Known(tr, ns, t, u) PROVE Known(tr, ns2, NoTurn, u)
  BY <1>5, <1>8 DEF Known
<1> QED BY <1>2, <1>7, <1>8

LEMMA TakeNotice ==
  ASSUME NEW tr \in Trails, NEW ns \in Seq(NoticeOf), ns # <<>>, NEW ap, Seeing(tr, ns, ap)
  PROVE  /\ Seeing(tr, Tail(ns), ap)
         /\ \A u \in Turn : Known(tr, ns, ap, u) => Known(tr, Tail(ns), ap, u)
<1>1. /\ Tail(ns) \in Seq(NoticeOf)
      /\ Len(Tail(ns)) = Len(ns) - 1 /\ Len(ns) \in Nat \ {0}
      /\ \A j \in 1..Len(Tail(ns)) : Tail(ns)[j] = ns[j + 1]
  BY HeadTailProperties, EmptySeq
<1>2. \A u : \A i \in Nat : Place(tr, Tail(ns), ap, u, i) = Place(tr, ns, ap, u, i + 1)
  BY AfterTail DEF Place
<1>3. ASSUME NEW u \in Turn, NEW i \in DOMAIN Tail(ns), Tells(Tail(ns)[i], u)
      PROVE  /\ Place(tr, Tail(ns), ap, u, i) \in DOMAIN tr[u]
             /\ tr[u][Place(tr, Tail(ns), ap, u, i)] = Tail(ns)[i].kind
  <2>1. i \in Nat /\ i + 1 \in DOMAIN ns /\ Tail(ns)[i] = ns[i + 1]
    BY <1>1
  <2>2. Place(tr, Tail(ns), ap, u, i) = Place(tr, ns, ap, u, i + 1)
    BY <1>2, <2>1
  <2> QED BY <1>3, <2>1, <2>2 DEF Seeing
<1>4. Seeing(tr, Tail(ns), ap)
  BY <1>3 DEF Seeing
<1>5. ASSUME NEW u \in Turn, Known(tr, ns, ap, u) PROVE Known(tr, Tail(ns), ap, u)
  <2>1. Place(tr, Tail(ns), ap, u, 0) = Place(tr, ns, ap, u, 1)
    BY <1>2
  <2>2. After(ns, u, 1) \in Nat /\ After(ns, u, 0) \in Nat /\ After(ns, u, 1) <= After(ns, u, 0)
    BY AfterHead, LaterFacts
  <2>3. Len(tr[u]) \in Nat
    BY DEF Trails
  <2>4. Place(tr, ns, ap, u, 0) <= Place(tr, ns, ap, u, 1)
    BY <2>2, <2>3 DEF Place
  <2>5. Place(tr, ns, ap, u, 0) <= Place(tr, Tail(ns), ap, u, 0)
    BY <2>1, <2>4
  <2> QED BY <1>1, <1>5, <2>5, KnownStays
<1> QED BY <1>4, <1>5

(* What the head of the channel tells of is then known. *)
LEMMA HeadIsKnown ==
  ASSUME NEW tr \in Trails, NEW ns \in Seq(NoticeOf), ns # <<>>, NEW ap, Seeing(tr, ns, ap),
         NEW t \in Turn, Head(ns).turn = t, Head(ns).kind = "dispatched"
  PROVE  Known(tr, Tail(ns), ap, t)
<1>1. 1 \in DOMAIN ns /\ ns[1] = Head(ns) /\ Tells(ns[1], t)
  BY DEF Tells, Evidence
<1>2. Place(tr, ns, ap, t, 1) \in DOMAIN tr[t] /\ tr[t][Place(tr, ns, ap, t, 1)] = "dispatched"
  BY <1>1 DEF Seeing
<1>3. Place(tr, Tail(ns), ap, t, 0) = Place(tr, ns, ap, t, 1)
  BY AfterTail DEF Place
<1>4. Place(tr, ns, ap, t, 1) <= Place(tr, Tail(ns), ap, t, 0)
  BY <1>3, PlaceFacts
<1> QED BY <1>2, <1>4 DEF Known

(* When nothing is left to be noticed, only the pending ending is unseen. *)
LEMMA NothingToNotice ==
  ASSUME NEW tr \in Trails, NEW ap, \A t \in Turn : ap = t => tr[t] # <<>> /\ Last(tr[t]) \in Ending
  PROVE  Seeing(tr, <<>>, ap)
BY DEF Seeing

-----------------------------------------------------------------------------
(* Endings. *)
FirstEnding(s, kind) ==
  \E i \in DOMAIN s : s[i] = kind /\ \A j \in 1..(i - 1) : s[j] \notin Ending

LEMMA OutcomeFacts ==
  ASSUME NEW s \in Seq(Evidence)
  PROVE  /\ Outcome(s) \in Ending \cup {"none"}
         /\ Outcome(s) = "none" <=> ~Ended(s)
         /\ Outcome(s) # "none" => Holds(s, Outcome(s))
BY DEF Outcome, Ended, Ending

(* A trail that replays has at most one dispatch, its first evidence, and  *)
(* so nothing after an ending.                                             *)
LEMMA ReplaysFacts ==
  ASSUME NEW s \in Seq(Evidence), Replays(s), NEW i \in DOMAIN s, s[i] \in Ending
  PROVE  /\ i = Len(s)
         /\ \A j \in 1..(i - 1) : s[j] \notin Ending
<1> DEFINE D == { j \in DOMAIN s : s[j] = "dispatched" }
<1>1. s[1] = "dispatched" /\ 1 \in D
  BY DEF Replays
<1>2. ASSUME NEW j \in D PROVE j = 1
  <2> SUFFICES ASSUME j # 1 PROVE FALSE
    OBVIOUS
  <2>1. IsFiniteSet(DOMAIN s) /\ IsFiniteSet(D)
    BY FS_Interval, FS_Subset
  <2>2. Cardinality({1, j}) = 2
    <3>1. IsFiniteSet({1}) /\ Cardinality({1}) = 1
      BY FS_Singleton
    <3>2. Cardinality({1} \cup {j}) = Cardinality({1}) + 1
      <4>1. j \notin {1}
        OBVIOUS
      <4> QED BY <3>1, <4>1, FS_AddElement
    <3>3. {1} \cup {j} = {1, j}
      OBVIOUS
    <3>4. Cardinality({1, j}) = Cardinality({1} \cup {j})
      BY <3>3
    <3>5. 1 + 1 = 2
      OBVIOUS
    <3> QED BY <3>1, <3>2, <3>4, <3>5
  <2>3. {1, j} \in SUBSET D
    BY <1>1
  <2>4. 2 <= Cardinality(D)
    BY <2>1, <2>2, <2>3, FS_Subset
  <2>5. Cardinality(D) \in Nat
    BY <2>1, FS_CardinalityType
  <2> HIDE DEF D
  <2> QED BY <2>4, <2>5 DEF Replays, Count, D
<1>3. i = Len(s)
  <2> SUFFICES ASSUME i # Len(s) PROVE FALSE
    OBVIOUS
  <2>1. i + 1 \in DOMAIN s /\ i < i + 1 /\ i + 1 # 1
    OBVIOUS
  <2>2. s[i + 1] = "dispatched"
    BY <2>1 DEF Replays
  <2> QED BY <1>2, <2>1, <2>2
<1>4. ASSUME NEW j \in 1..(i - 1), s[j] \in Ending PROVE FALSE
  <2>1. j \in DOMAIN s /\ i \in DOMAIN s /\ j < i
    OBVIOUS
  <2>2. s[i] = "dispatched"
    BY <1>4, <2>1 DEF Replays
  <2> QED BY <2>2 DEF Ending
<1> QED BY <1>3, <1>4

LEMMA OutcomeIsFirst ==
  ASSUME NEW s \in Seq(Evidence), Replays(s), Outcome(s) # "none"
  PROVE  FirstEnding(s, Outcome(s))
<1>1. PICK i \in DOMAIN s : s[i] = Outcome(s)
  BY OutcomeFacts DEF Holds
<1>2. s[i] \in Ending
  BY <1>1, OutcomeFacts
<1> QED BY <1>1, <1>2, ReplaysFacts DEF FirstEnding

(* An interruption after no ending is the ending. *)
LEMMA InterruptedOutcome ==
  ASSUME NEW s \in Seq(Evidence), ~Ended(s)
  PROVE  LET s2 == Append(s, "interrupted")
         IN  Outcome(s2) = "interrupted" /\ FirstEnding(s2, "interrupted")
<1> DEFINE s2 == Append(s, "interrupted")
<1>1. /\ s2 \in Seq(Evidence)
      /\ Len(s2) = Len(s) + 1
      /\ \A j \in 1..Len(s) : s2[j] = s[j]
      /\ s2[Len(s) + 1] = "interrupted"
  BY AppendProperties DEF Evidence, Ending
<1>2. \A j \in 1..Len(s) : s[j] \notin Ending
  BY DEF Ended, Holds
<1> HIDE DEF s2
<1>3. ~Holds(s2, "completed") /\ ~Holds(s2, "failed") /\ Holds(s2, "interrupted")
  BY <1>1, <1>2 DEF Holds, Ending
<1>4. Outcome(s2) = "interrupted"
  BY <1>3 DEF Outcome
<1>5. Len(s) + 1 \in DOMAIN s2 /\ \A j \in 1..(Len(s) + 1 - 1) : s2[j] \notin Ending
  BY <1>1, <1>2
<1>6. FirstEnding(s2, "interrupted")
  BY <1>1, <1>5 DEF FirstEnding
<1> QED BY <1>4, <1>6 DEF s2

LEMMA FirstEndingStays ==
  ASSUME NEW s \in Seq(Evidence), NEW kind, FirstEnding(s, kind), NEW k \in Evidence
  PROVE  FirstEnding(Append(s, k), kind)
<1>1. /\ Append(s, k) \in Seq(Evidence)
      /\ Len(Append(s, k)) = Len(s) + 1
      /\ \A j \in 1..Len(s) : Append(s, k)[j] = s[j]
  BY AppendProperties
<1>2. PICK i \in DOMAIN s : s[i] = kind /\ \A j \in 1..(i - 1) : s[j] \notin Ending
  BY DEF FirstEnding
<1>3. i \in DOMAIN Append(s, k) /\ Append(s, k)[i] = kind
  BY <1>1, <1>2
<1>4. \A j \in 1..(i - 1) : Append(s, k)[j] \notin Ending
  BY <1>1, <1>2
<1> QED BY <1>3, <1>4 DEF FirstEnding

(* An interruption appended to a dispatched turn ends it. *)
LEMMA InterruptedSettles ==
  ASSUME NEW s \in Seq(Evidence), Holds(s, "dispatched")
  PROVE  LET s2 == Append(s, "interrupted") IN Ended(Since(s2)) /\ Ended(s2)
<1> DEFINE s2 == Append(s, "interrupted")
           D == { i \in 1..Len(s2) : s2[i] = "dispatched" }
           IsLast(i) == s2[i] = "dispatched" /\ \A j \in (i + 1)..Len(s2) : s2[j] # "dispatched"
           last == CHOOSE i \in 1..Len(s2) : IsLast(i)
<1>1. /\ s2 \in Seq(Evidence)
      /\ Len(s2) = Len(s) + 1 /\ Len(s) \in Nat
      /\ \A j \in 1..Len(s) : s2[j] = s[j]
      /\ s2[Len(s) + 1] = "interrupted"
  BY AppendProperties DEF Evidence, Ending
<1> HIDE DEF s2
<1>2. Len(s2) \in Nat /\ D \in SUBSET (1..Len(s2)) /\ D # {}
  BY <1>1 DEF Holds
<1>3. PICK i \in D : \A j \in D : j <= i
  BY <1>2, LatestExists
<1>4. i \in 1..Len(s2) /\ IsLast(i)
  <2>1. ASSUME NEW j \in (i + 1)..Len(s2), s2[j] = "dispatched" PROVE FALSE
    <3>1. j \in D
      BY <1>2, <1>3, <2>1
    <3> HIDE DEF D
    <3> QED BY <1>2, <1>3, <3>1
  <2> QED BY <1>3, <2>1
<1>5. last \in 1..Len(s2) /\ IsLast(last)
  BY <1>4
<1>6. last # Len(s2)
  BY <1>1, <1>5
<1> DEFINE rest == SubSeq(s2, last + 1, Len(s2))
<1>7. Since(s2) = rest
  BY DEF Since
<1> HIDE DEF last, IsLast
<1>8. /\ Len(rest) = Len(s2) - last
      /\ Len(rest) \in DOMAIN rest
      /\ rest[Len(rest)] = s2[Len(s2)]
  <2>1. last + 1 \in Int /\ Len(s2) \in Int /\ last + 1 <= Len(s2) /\ last \in Int
    BY <1>2, <1>5, <1>6
  <2>2. \A j \in (last + 1)..Len(s2) : s2[j] \in Evidence
    BY <1>1, <1>5
  <2>3. /\ Len(rest) = Len(s2) - (last + 1) + 1
        /\ rest \in Seq(Evidence)
        /\ \A j \in 1..(Len(s2) - (last + 1) + 1) : rest[j] = s2[last + 1 + j - 1]
    BY <2>1, <2>2, SubSeqProperties
  <2> HIDE DEF rest
  <2>4. Len(rest) \in 1..(Len(s2) - (last + 1) + 1) /\ last + 1 + Len(rest) - 1 = Len(s2)
    BY <2>1, <2>3
  <2> QED BY <2>1, <2>3, <2>4
<1> HIDE DEF rest
<1>9. Ended(rest)
  BY <1>1, <1>8 DEF Ended, Holds, Ending
<1>10. Ended(s2)
  <2>1. Len(s2) \in DOMAIN s2 /\ s2[Len(s2)] = "interrupted"
    BY <1>1
  <2> QED BY <2>1 DEF Ended, Holds, Ending
<1> QED BY <1>7, <1>9, <1>10 DEF s2

-----------------------------------------------------------------------------
(* What a start does to the journal, whole or cut short. *)
Recovery ==
  /\ mode = "down" /\ mode' \in {"down", "recovered"}
  /\ trail' = trail \/ \E turns \in SUBSET StrandedTurns : trail' = Interrupt(turns)
  /\ UNCHANGED <<committed, persistence, window, sidecar, faults>>

LEMMA StartsRecover == Start \/ StartCutShort => Recovery
<1>1. Start => Recovery
  BY DEF Start, Recovery
<1>2. StartCutShort => Recovery
  BY DEF StartCutShort, Recovery
<1> QED BY <1>1, <1>2

(* The trail of a turn grows by interruptions alone. *)
LEMMA RecoveryTrail ==
  ASSUME TypeOK, Recovery
  PROVE  /\ trail' \in Trails
         /\ \A t \in Turn :
              trail'[t] = trail[t] \/ (t \in StrandedTurns /\ trail'[t] = Append(trail[t], "interrupted"))
<1>1. trail \in Trails
  BY DEF TypeOK, Trails
<1>2. ASSUME NEW turns \in SUBSET StrandedTurns, trail' = Interrupt(turns)
      PROVE  /\ trail' \in Trails
             /\ \A t \in Turn :
                  trail'[t] = trail[t]
                    \/ (t \in StrandedTurns /\ trail'[t] = Append(trail[t], "interrupted"))
  <2>1. \A t \in Turn : trail[t] \in Seq(Evidence) /\ Append(trail[t], "interrupted") \in Seq(Evidence)
    BY <1>1, AppendProperties DEF Trails, Evidence, Ending
  <2> QED BY <1>2, <2>1 DEF Interrupt, Trails
<1> QED BY <1>1, <1>2 DEF Recovery

-----------------------------------------------------------------------------
(* Every step moves the channel in one of the ways above. *)
ChannelMoves ==
  /\ trail' \in Trails
  /\ SeenInv'
  /\ \A u \in Turn : Known(trail, notices, appended, u) => Known(trail', notices', appended', u)

LEMMA QuietStep ==
  ASSUME UserStep \/ SidecarStep \/ Closed \/ Open
  PROVE  UNCHANGED <<journal, appended, notices>>
<1>1. CASE UserStep
  BY <1>1 DEF UserStep, Send, DispatchExecution, ResumeAfterTool, Connect, journal, persistence
<1>2. CASE SidecarStep
  BY <1>2 DEF SidecarStep, Output, Complete, RateLimited, FailDefinitely, FailUnknown, AnswerInVain,
              Resubmit, SidecarDies, NoticeSidecarDead, journal, persistence
<1>3. CASE Closed \/ Open
  BY <1>3 DEF Closed, Open, journal, persistence
<1> QED BY <1>1, <1>2, <1>3

LEMMA NoticeTaken ==
  ASSUME NoticeStep
  PROVE  /\ UNCHANGED <<journal, appended>>
         /\ mode = "up" /\ notices # <<>> /\ notices' = Tail(notices)
BY DEF NoticeStep, NoticeCommitted, SubmitPending, SubmitRefused, NoticeOther, NoticeError, Notice,
       journal, persistence, sidecar, window

(* An answer of the worker that is no evidence. *)
LEMMA NotifyOther ==
  ASSUME TypeOK, ModeInv, SeenInv, NEW x \in NoticeOf, x.kind \notin Evidence, Notify(<<x>>),
         UNCHANGED <<trail, appended>>
  PROVE  ChannelMoves
<1>1. trail \in Trails /\ notices \in Seq(NoticeOf) /\ Seeing(trail, notices, appended)
  BY DEF TypeOK, Trails, NoticeOf, SeenInv
<1>2. CASE mode = "up"
  <2>1. notices' = Append(notices, x)
    BY <1>1, <1>2 DEF Notify
  <2> QED BY <1>1, <2>1, AppendOther DEF ChannelMoves, SeenInv
<1>3. CASE mode # "up"
  <2>1. notices' = notices
    BY <1>3 DEF Notify, ModeInv
  <2> QED BY <1>1, <2>1 DEF ChannelMoves, SeenInv
<1> QED BY <1>2, <1>3

LEMMA PersistEvidenceMoves == TypeOK /\ ModeInv /\ SeenInv /\ PersistEvidence => ChannelMoves
<1> SUFFICES ASSUME TypeOK, ModeInv, SeenInv, PersistEvidence PROVE ChannelMoves
  OBVIOUS
<1> DEFINE t == Head(queue).turn
           kind == Head(queue).kind
           held == kind \in Ending /\ t \in Execution
<1>1. t \in Turn /\ kind \in Evidence
  <2>1. queue \in Seq(Command) /\ queue # <<>> /\ kind \in Evidence
    BY DEF TypeOK, Command, PersistEvidence
  <2>2. Head(queue) \in Command
    BY <2>1, HeadTailProperties
  <2> QED BY <2>1, <2>2 DEF Command
<1>2. trail \in Trails /\ notices \in Seq(NoticeOf) /\ appended = NoTurn /\ Seeing(trail, notices, NoTurn)
  BY DEF TypeOK, Trails, NoticeOf, SeenInv, PersistEvidence
<1>3. /\ trail' = [trail EXCEPT ![t] = Append(@, kind)]
      /\ held => appended' = t /\ notices' = notices
      /\ ~held => appended' = NoTurn /\ Notify(<<Item(t, kind)>>)
  BY <1>2 DEF PersistEvidence
<1> HIDE DEF t, kind
<1>4. trail' \in Trails
  <2>1. trail[t] \in Seq(Evidence) /\ Append(trail[t], kind) \in Seq(Evidence)
    BY <1>1, <1>2, AppendProperties DEF Trails
  <2> QED BY <1>1, <1>2, <1>3, <2>1 DEF Trails
<1>5. CASE held
  BY <1>1, <1>2, <1>3, <1>4, <1>5, HoldEnding DEF ChannelMoves, SeenInv
<1>6. CASE ~held /\ mode = "up"
  <2>1. notices' = Append(notices, Item(t, kind))
    BY <1>2, <1>3, <1>6 DEF Notify
  <2> QED BY <1>1, <1>2, <1>3, <1>4, <1>6, <2>1, AppendEvidence DEF ChannelMoves, SeenInv
<1>7. CASE ~held /\ mode # "up"
  <2>1. notices = <<>> /\ notices' = <<>> /\ appended' = NoTurn
    BY <1>3, <1>7 DEF Notify, ModeInv
  <2>2. SeenInv'
    BY <1>4, <2>1, NothingToNotice, RemoteTurnAssumption DEF SeenInv
  <2>3. ASSUME NEW u \in Turn, Known(trail, notices, appended, u)
        PROVE  Known(trail', notices', appended', u)
    <3>1. trail[u] \in Seq(Evidence) /\ Len(trail[u]) \in Nat
      BY <1>2 DEF Trails
    <3>2. CASE u = t
      <4>1. trail'[u] = Append(trail[u], kind)
        BY <1>1, <1>2, <1>3, <3>2 DEF Trails
      <4>2. Len(trail[u]) <= Len(trail'[u]) /\ \A i \in DOMAIN trail[u] : trail'[u][i] = trail[u][i]
        BY <1>1, <3>1, <4>1, AppendProperties
      <4>3. After(<<>>, u, 0) = 0 /\ Len(trail'[u]) \in Nat
        BY <1>4, AfterNone DEF Trails
      <4>4. Place(trail, notices, appended, u, 0) <= Place(trail', notices', appended', u, 0)
        BY <1>2, <2>1, <3>1, <4>2, <4>3 DEF Place
      <4> QED BY <1>2, <1>4, <2>1, <2>3, <4>2, <4>4, KnownGrows, EmptySeq
    <3>3. CASE u # t
      <4>1. trail'[u] = trail[u]
        BY <1>1, <1>2, <1>3, <3>3 DEF Trails
      <4> QED BY <1>2, <2>1, <2>3, <4>1 DEF Known, Place
    <3> QED BY <3>2, <3>3
  <2> QED BY <1>4, <2>2, <2>3 DEF ChannelMoves
<1> QED BY <1>5, <1>6, <1>7

(* The ending is noticed, with or without an error behind it. *)
LEMMA ReleaseMoves ==
  ASSUME TypeOK, ModeInv, SeenInv, appended # NoTurn, appended' = NoTurn, trail' = trail,
         \/ Notify(<<Item(appended, Last(trail[appended]))>>)
         \/ Notify(<<Item(appended, Last(trail[appended])), Item(appended, "error")>>)
  PROVE  ChannelMoves
<1> DEFINE x == Item(appended, Last(trail[appended]))
           e == Item(appended, "error")
           ns2 == Append(notices, x)
<1>1. /\ trail \in Trails /\ notices \in Seq(NoticeOf) /\ appended \in Turn
      /\ Seeing(trail, notices, appended)
  BY DEF TypeOK, Trails, NoticeOf, SeenInv, Turn
<1>2. /\ x \in NoticeOf /\ Seeing(trail, ns2, NoTurn)
      /\ \A u \in Turn : Known(trail, notices, appended, u) => Known(trail, ns2, NoTurn, u)
  BY <1>1, ReleaseEnding
<1>3. e \in NoticeOf /\ e.kind \notin Evidence
  BY <1>1 DEF Item, NoticeOf, Evidence, Ending
<1>4. ns2 \in Seq(NoticeOf)
  BY <1>1, <1>2, AppendProperties
<1>5. /\ Seeing(trail, Append(ns2, e), NoTurn)
      /\ \A u \in Turn : Known(trail, ns2, NoTurn, u) => Known(trail, Append(ns2, e), NoTurn, u)
  BY <1>1, <1>2, <1>3, <1>4, AppendOther
<1>6. CASE mode = "up"
  <2>1. notices' = notices \o <<x>> \/ notices' = notices \o <<x, e>>
    BY <1>6 DEF Notify
  <2>2. notices \o <<x>> = ns2
    BY <1>1, <1>2, AppendIsConcat
  <2>3. notices \o <<x, e>> = Append(ns2, e)
    <3> HIDE DEF x, e
    <3> QED BY <1>1, <1>2, <1>3
  <2> HIDE DEF x, e, ns2
  <2> QED BY <1>1, <1>2, <1>5, <2>1, <2>2, <2>3 DEF ChannelMoves, SeenInv
<1>7. CASE mode # "up"
  <2>1. notices = <<>> /\ notices' = <<>>
    BY <1>7 DEF Notify, ModeInv
  <2>2. SeenInv'
    BY <1>1, <2>1, NothingToNotice, RemoteTurnAssumption DEF SeenInv
  <2>3. ASSUME NEW u \in Turn, Known(trail, notices, appended, u)
        PROVE  Known(trail', notices', appended', u)
    <3>1. After(<<>>, u, 0) = 0 /\ Len(trail[u]) \in Nat /\ NoTurn # u
      BY <1>1, AfterNone, RemoteTurnAssumption DEF Trails
    <3>2. Place(trail, notices, appended, u, 0) <= Place(trail, <<>>, NoTurn, u, 0)
      BY <2>1, <3>1 DEF Place
    <3>3. Known(trail, <<>>, NoTurn, u)
      BY <1>1, <2>3, <3>2, KnownStays, EmptySeq
    <3> QED BY <2>1, <3>3
  <2> QED BY <1>1, <2>2, <2>3 DEF ChannelMoves
<1> QED BY <1>6, <1>7

(* The process stops, and nothing is left to be noticed. *)
LEMMA StopMoves ==
  ASSUME TypeOK, SeenInv, trail' = trail, notices' = <<>>, appended' \in {appended, NoTurn}
  PROVE  ChannelMoves
<1>1. trail \in Trails /\ notices \in Seq(NoticeOf) /\ Seeing(trail, notices, appended)
  BY DEF TypeOK, Trails, NoticeOf, SeenInv
<1>2. SeenInv'
  <2>1. \A t \in Turn : appended' = t => trail[t] # <<>> /\ Last(trail[t]) \in Ending
    BY <1>1, RemoteTurnAssumption DEF Seeing
  <2> QED BY <1>1, <2>1, NothingToNotice DEF SeenInv
<1>3. ASSUME NEW u \in Turn, Known(trail, notices, appended, u)
      PROVE  Known(trail', notices', appended', u)
  <2>1. /\ After(<<>>, u, 0) = 0 /\ After(notices, u, 0) \in Nat
        /\ Len(trail[u]) \in Nat /\ NoTurn # u
    BY <1>1, AfterNone, LaterFacts, RemoteTurnAssumption DEF Trails
  <2>2. Place(trail, notices, appended, u, 0) <= Place(trail, <<>>, appended', u, 0)
    BY <2>1 DEF Place
  <2>3. Known(trail, <<>>, appended', u)
    BY <1>1, <1>3, <2>2, KnownStays, EmptySeq
  <2> QED BY <2>3
<1> QED BY <1>1, <1>2, <1>3 DEF ChannelMoves

LEMMA RecoveryMoves ==
  ASSUME TypeOK, ModeInv, Recovery
  PROVE  ChannelMoves
<1>1. trail \in Trails /\ notices = <<>> /\ notices' = <<>> /\ appended = NoTurn /\ appended' = NoTurn
  BY DEF TypeOK, Trails, ModeInv, Recovery, persistence
<1>2. SeenInv'
  BY <1>1, RecoveryTrail, NothingToNotice, RemoteTurnAssumption DEF SeenInv
<1>3. ASSUME NEW u \in Turn, Known(trail, notices, appended, u)
      PROVE  Known(trail', notices', appended', u)
  <2>1. trail[u] \in Seq(Evidence) /\ Len(trail[u]) \in Nat
    BY <1>1 DEF Trails
  <2>2. CASE trail'[u] = trail[u]
    BY <1>1, <1>3, <2>2 DEF Known, Place
  <2>3. CASE trail'[u] = Append(trail[u], "interrupted")
    <3>1. Len(trail[u]) <= Len(trail'[u]) /\ \A i \in DOMAIN trail[u] : trail'[u][i] = trail[u][i]
      BY <2>1, <2>3, AppendProperties DEF Evidence, Ending
    <3>2. After(<<>>, u, 0) = 0 /\ Len(trail'[u]) \in Nat
      BY AfterNone, RecoveryTrail DEF Trails
    <3>3. Place(trail, notices, appended, u, 0) <= Place(trail', notices', appended', u, 0)
      BY <1>1, <2>1, <3>1, <3>2 DEF Place
    <3> QED BY <1>1, <1>3, <3>1, <3>3, RecoveryTrail, KnownGrows, EmptySeq
  <2> QED BY <2>2, <2>3, RecoveryTrail
<1> QED BY <1>2, <1>3, RecoveryTrail DEF ChannelMoves

LEMMA ChannelStep == TypeOK /\ ModeInv /\ SeenInv /\ [Next]_vars => ChannelMoves
<1> SUFFICES ASSUME TypeOK, ModeInv, SeenInv, [Next]_vars PROVE ChannelMoves
  OBVIOUS
<1>1. /\ trail \in Trails /\ notices \in Seq(NoticeOf) /\ Seeing(trail, notices, appended)
      /\ queue \in Seq(Command)
  BY DEF TypeOK, Trails, NoticeOf, Command, SeenInv
<1>2. CASE UNCHANGED <<trail, appended, notices>>
  BY <1>1, <1>2 DEF ChannelMoves, SeenInv
<1>3. CASE PersistCommit
  <2>1. Head(queue) \in Command /\ Head(queue).kind = "commit"
    BY <1>1, <1>3, HeadTailProperties DEF PersistCommit
  <2>2. Head(queue) \in NoticeOf /\ Head(queue).kind \notin Evidence
    BY <2>1 DEF Command, NoticeOf, Evidence, Ending
  <2>3. Notify(<<Head(queue)>>) /\ UNCHANGED <<trail, appended>>
    BY <1>3 DEF PersistCommit
  <2> QED BY <2>2, <2>3, NotifyOther
<1>4. CASE PersistEvidence
  BY <1>4, PersistEvidenceMoves
<1>5. CASE PersistResult
  BY <1>5, ReleaseMoves DEF PersistResult
<1>6. CASE PersistFails
  <2>1. CASE appended = NoTurn
    <3>1. queue # <<>> /\ Notify(<<Item(Head(queue).turn, "error")>>) /\ UNCHANGED <<trail, appended>>
      BY <1>6, <2>1 DEF PersistFails
    <3>2. Head(queue) \in Command
      BY <1>1, <3>1, HeadTailProperties
    <3>3. Item(Head(queue).turn, "error") \in NoticeOf /\ Item(Head(queue).turn, "error").kind \notin Evidence
      BY <3>2 DEF Item, Command, NoticeOf, Evidence, Ending
    <3> QED BY <3>1, <3>3, NotifyOther
  <2>2. CASE appended # NoTurn
    BY <1>6, <2>2, ReleaseMoves DEF PersistFails
  <2> QED BY <2>1, <2>2
<1>7. CASE NoticeStep
  <2>1. UNCHANGED <<trail, appended>> /\ notices # <<>> /\ notices' = Tail(notices)
    BY <1>7, NoticeTaken DEF journal
  <2> QED BY <1>1, <2>1, TakeNotice DEF ChannelMoves, SeenInv
<1>8. CASE Close \/ Crash
  BY <1>8, StopMoves DEF Close, Crash, Forget, journal
<1>9. CASE Start \/ StartCutShort
  BY <1>9, StartsRecover, RecoveryMoves
<1>10. CASE UserStep \/ SidecarStep \/ Closed \/ Open
  BY <1>2, <1>10, QuietStep DEF journal
<1>11. CASE UNCHANGED vars
  BY <1>2, <1>11 DEF vars, journal, persistence
<1> QED
  BY <1>3, <1>4, <1>5, <1>6, <1>7, <1>8, <1>9, <1>10, <1>11 DEF Next, WorkerStep, ProgramStep

-----------------------------------------------------------------------------
(* What is queued and noticed. *)
LEMMA Extend ==
  ASSUME NEW S, NEW q \in Seq(S), NEW items \in Seq(S)
  PROVE  q \o items \in Seq(S)
BY ConcatProperties

LEMMA One ==
  ASSUME NEW S, NEW x \in S
  PROVE  <<x>> \in Seq(S)
OBVIOUS

LEMMA Reported ==
  ASSUME NEW S, NEW t, NEW K, NEW kinds \in Seq(K), \A k \in K : Item(t, k) \in S
  PROVE  [i \in DOMAIN kinds |-> Item(t, kinds[i])] \in Seq(S)
<1>1. Len(kinds) \in Nat /\ DOMAIN kinds = 1..Len(kinds)
  OBVIOUS
<1>2. \A i \in 1..Len(kinds) : Item(t, kinds[i]) \in S
  BY ElementOfSeq
<1>3. [i \in 1..Len(kinds) |-> Item(t, kinds[i])] \in [1..Len(kinds) -> S]
  BY <1>2
<1> QED BY <1>1, <1>3, SeqDef

Observed == Ending \cup {"output"}

LEMMA ItemFacts ==
  ASSUME NEW t \in Turn
  PROVE  /\ \A k \in Observed : Item(t, k) \in Cmds(committed)
         /\ t \in Authored => Item(t, "commit") \in Cmds(committed)
         /\ t \in committed \cup Execution => Item(t, "dispatched") \in Cmds(committed)
BY DEF Item, Cmds, Command, Observed, Evidence, Ending

LEMMA CommandFacts ==
  ASSUME queue \in Seq(Cmds(committed)), queue # <<>>
  PROVE  Tail(queue) \in Seq(Cmds(committed)) /\ Head(queue) \in Cmds(committed)
BY HeadTailProperties

(* A turn the window deals with may be dispatched. *)
LEMMA MayDispatch ==
  ASSUME TypeOK, GateInv, NEW t \in {pending, flow, active.turn}, t # NoTurn
  PROVE  t \in Turn /\ t \in committed \cup Execution
BY DEF TypeOK, GateInv, Turn

LEMMA QueueStep ==
  IInv /\ [Next]_vars => queue' \in Seq(Cmds(committed')) /\ committed \subseteq committed'
<1> SUFFICES ASSUME IInv, [Next]_vars
             PROVE  queue' \in Seq(Cmds(committed')) /\ committed \subseteq committed'
  OBVIOUS
<1> DEFINE S == Cmds(committed)
<1>1. queue \in Seq(S) /\ TypeOK /\ GateInv /\ ModeInv
  BY DEF IInv, GateInv
<1>2. ASSUME NEW c, Cmds(committed) \subseteq Cmds(c) PROVE Seq(Cmds(committed)) \subseteq Seq(Cmds(c))
  BY <1>2, SeqMonotonic
<1>3. ASSUME NEW t \in Turn, Send(t) PROVE queue' \in Seq(S)
  BY <1>1, <1>3, ItemFacts, One, Extend DEF Send, Queue
<1>4. ASSUME NEW t \in Turn, DispatchExecution(t) PROVE queue' \in Seq(S)
  BY <1>1, <1>4, ItemFacts, One, Extend DEF DispatchExecution, Queue
<1>5. ASSUME ResumeAfterTool PROVE queue' \in Seq(S)
  <2>1. CASE Queue(<<Item(flow, "dispatched")>>)
    <3>1. flow \in Turn /\ flow \in committed \cup Execution
      BY <1>1, <1>5, MayDispatch DEF ResumeAfterTool
    <3> QED BY <1>1, <1>5, <2>1, <3>1, ItemFacts, One, Extend DEF Queue, ResumeAfterTool, journal
  <2>2. CASE queue' = queue
    BY <1>1, <1>5, <2>2 DEF ResumeAfterTool, journal
  <2> QED BY <1>5, <2>1, <2>2 DEF ResumeAfterTool
<1>6. ASSUME NEW t \in Turn, NoticeCommitted(t) PROVE queue' \in Seq(S)
  <2>1. queue' = queue \/ Queue(<<Item(t, "dispatched")>>)
    BY <1>6 DEF NoticeCommitted
  <2>2. t \in committed \cup Execution
    <3>1. Head(notices) \in Notes(committed, Dispatched(trail))
      BY <1>1, <1>6, HeadTailProperties DEF NoticeCommitted, Notice, GateInv
    <3> QED BY <1>6, <3>1 DEF NoticeCommitted, Notice, Notes
  <2> QED BY <1>1, <2>1, <2>2, ItemFacts, One, Extend DEF Queue
<1>7. ASSUME NEW t \in Turn, SubmitRefused(t) PROVE queue' \in Seq(S)
  <2>1. queue' = queue \o <<Item(t, "interrupted")>>
    BY <1>7 DEF SubmitRefused, Queue
  <2> QED BY <1>1, <2>1, ItemFacts, One, Extend DEF Observed, Ending
<1>8. ASSUME NEW t \in Turn, NEW kinds \in Seq(Observed), Report(t, kinds) PROVE queue' \in Seq(S)
  BY <1>1, <1>8, ItemFacts, Reported, Extend DEF Report, Queue
<1>9. ASSUME NEW t \in Turn, Complete(t) PROVE queue' \in Seq(S)
  <2> DEFINE observed == IF active.output THEN <<"completed">> ELSE <<"output", "completed">>
             K == Observed \cup {"dispatched"}
  <2>1. observed \in Seq(Observed) /\ observed \o <<"dispatched">> \in Seq(K)
    <3>1. <<"completed">> \in Seq(Observed) /\ <<"output", "completed">> \in Seq(Observed)
      BY DEF Observed, Ending
    <3>2. observed \in Seq(Observed)
      BY <3>1
    <3> HIDE DEF observed
    <3>3. observed \in Seq(K) /\ <<"dispatched">> \in Seq(K)
      BY <3>2, SeqMonotonic, One
    <3> QED BY <3>2, <3>3, Extend
  <2>2. active.turn = t
    BY <1>9 DEF Complete, Takes
  <2>3. \A k \in K : Item(t, k) \in S
    BY <1>1, <2>2, ItemFacts, MayDispatch, RemoteTurnAssumption
  <2>4. Report(t, observed \o <<"dispatched">>) \/ Report(t, observed)
    BY <1>9 DEF Complete
  <2> HIDE DEF observed, K
  <2>5. CASE Report(t, observed \o <<"dispatched">>)
    BY <1>1, <2>1, <2>3, <2>5, Reported, Extend DEF Report, Queue
  <2> QED BY <1>8, <2>1, <2>4, <2>5
<1>10. ASSUME NEW t \in Turn, Output(t) \/ FailDefinitely(t) \/ FailUnknown(t)
       PROVE  queue' \in Seq(S)
  <2>1. <<"output">> \in Seq(Observed) /\ <<"interrupted">> \in Seq(Observed)
        /\ <<"failed">> \in Seq(Observed) /\ <<"failed", "interrupted">> \in Seq(Observed)
    BY DEF Observed, Ending
  <2>2. \/ Report(t, <<"output">>) \/ Report(t, <<"interrupted">>)
        \/ Report(t, <<"failed">>) \/ Report(t, <<"failed", "interrupted">>)
    BY <1>10 DEF Output, FailDefinitely, FailUnknown
  <2> QED BY <1>8, <2>1, <2>2
<1>11. ASSUME NEW t \in Turn \cup {NoTurn} PROVE Interrupted(t) \in Seq(S)
  BY ItemFacts, One, EmptySeq DEF Interrupted, Observed, Ending
<1>12. ASSUME NoticeSidecarDead PROVE queue' \in Seq(S)
  <2>1. active.turn \in Turn \cup {NoTurn} /\ pending \in Turn \cup {NoTurn}
    BY <1>1 DEF TypeOK
  <2>2. Interrupted(active.turn) \in Seq(S) /\ Interrupted(pending) \in Seq(S)
    BY <1>11, <2>1
  <2>3. Interrupted(active.turn) \o Interrupted(pending) \in Seq(S)
    BY <2>2, Extend
  <2>4. queue' = queue \o (Interrupted(active.turn) \o Interrupted(pending))
    BY <1>12 DEF NoticeSidecarDead, Queue
  <2> QED BY <1>1, <2>3, <2>4, Extend
<1>13. ASSUME Close PROVE queue' \in Seq(S)
  <2> DEFINE t == IF active # Inactive THEN active.turn ELSE pending
  <2>1. t \in Turn \cup {NoTurn}
    BY <1>1 DEF TypeOK
  <2>2. queue' = queue \o Interrupted(t)
    BY <1>13 DEF Close, Queue
  <2> HIDE DEF t
  <2> QED BY <1>1, <1>11, <2>1, <2>2, Extend
<1>14. CASE PersistCommit
  <2>1. committed \subseteq committed' /\ Tail(queue) \in Seq(S) /\ queue' = Tail(queue)
    BY <1>1, <1>14, CommandFacts DEF PersistCommit
  <2>2. S \subseteq Cmds(committed')
    BY <2>1 DEF Cmds
  <2> QED BY <1>2, <2>1, <2>2
<1>15. CASE PersistEvidence
  BY <1>1, <1>15, CommandFacts DEF PersistEvidence
<1>16. CASE PersistFails
  <2>1. committed \subseteq committed' /\ (queue' = queue \/ (queue # <<>> /\ queue' = Tail(queue)))
    <3>1. CASE appended = NoTurn
      BY <1>16, <3>1 DEF PersistFails
    <3>2. CASE appended # NoTurn
      BY <1>16, <3>2 DEF PersistFails
    <3> QED BY <3>1, <3>2
  <2>2. S \subseteq Cmds(committed') /\ queue' \in Seq(S)
    BY <1>1, <2>1, CommandFacts DEF Cmds
  <2> QED BY <1>2, <2>1, <2>2
<1>17. CASE UserStep
  <2>1. committed' = committed
    BY <1>17, QuietStep DEF journal
  <2>2. queue' \in Seq(S)
    <3>1. CASE Connect
      BY <1>1, <3>1 DEF Connect, persistence
    <3> QED BY <1>3, <1>4, <1>5, <1>17, <3>1 DEF UserStep
  <2> QED BY <2>1, <2>2
<1>18. CASE SidecarStep
  <2>1. committed' = committed
    BY <1>18, QuietStep DEF journal
  <2>2. queue' \in Seq(S)
    <3>1. ASSUME NEW t \in Turn, RateLimited(t) \/ AnswerInVain(t) PROVE queue' \in Seq(S)
      BY <1>1, <3>1 DEF RateLimited, AnswerInVain, persistence
    <3>2. CASE Resubmit \/ SidecarDies
      BY <1>1, <3>2 DEF Resubmit, SidecarDies, persistence
    <3> QED BY <1>9, <1>10, <1>12, <1>18, <3>1, <3>2 DEF SidecarStep
  <2> QED BY <2>1, <2>2
<1>19. CASE NoticeStep
  <2>1. committed' = committed
    BY <1>19, NoticeTaken DEF journal
  <2>2. queue' \in Seq(S)
    <3>1. ASSUME NEW t \in Turn, SubmitPending(t) \/ NoticeOther(t) \/ NoticeError(t)
          PROVE  queue' \in Seq(S)
      BY <1>1, <3>1 DEF SubmitPending, NoticeOther, NoticeError
    <3> QED BY <1>6, <1>7, <1>19, <3>1 DEF NoticeStep
  <2> QED BY <2>1, <2>2
<1>20. CASE PersistResult
  BY <1>1, <1>20 DEF PersistResult
<1>21. CASE Close
  BY <1>13, <1>21 DEF Close, journal
<1>22. CASE Crash
  BY <1>22, EmptySeq DEF Crash, journal
<1>23. CASE Start \/ StartCutShort
  BY <1>1, <1>23, StartsRecover DEF Recovery, persistence
<1>24. CASE Closed \/ Open \/ UNCHANGED vars
  BY <1>1, <1>24 DEF Closed, Open, vars, journal, persistence
<1> QED
  BY <1>14, <1>15, <1>16, <1>17, <1>18, <1>19, <1>20, <1>21, <1>22, <1>23, <1>24
  DEF Next, WorkerStep, ProgramStep

LEMMA HoldsAppend ==
  ASSUME NEW s \in Seq(Evidence), NEW k \in Evidence, NEW x
  PROVE  Holds(Append(s, k), x) <=> Holds(s, x) \/ k = x
<1>1. /\ DOMAIN s = 1..Len(s) /\ Len(s) \in Nat
      /\ DOMAIN Append(s, k) = 1..(Len(s) + 1)
      /\ \A j \in 1..Len(s) : Append(s, k)[j] = s[j]
      /\ Append(s, k)[Len(s) + 1] = k
  BY AppendProperties
<1> QED BY <1>1 DEF Holds

(* A dispatch becomes durable only from the queue. *)
LEMMA DispatchedStep ==
  ASSUME IInv, [Next]_vars
  PROVE  /\ Dispatched(trail) \subseteq Dispatched(trail')
         /\ \A t \in Dispatched(trail') :
              \/ t \in Dispatched(trail)
              \/ PersistEvidence /\ Head(queue) = Item(t, "dispatched")
<1>1. trail \in Trails /\ TypeOK /\ queue \in Seq(Command)
  BY DEF IInv, TypeOK, Trails, Command
<1>2. CASE trail' = trail
  BY <1>2
<1>3. CASE PersistEvidence
  <2> DEFINE t == Head(queue).turn
             kind == Head(queue).kind
  <2>1. Head(queue) \in Command /\ kind \in Evidence
    BY <1>1, <1>3, HeadTailProperties DEF PersistEvidence
  <2>2. trail' = [trail EXCEPT ![t] = Append(@, kind)]
    BY <1>3 DEF PersistEvidence
  <2>3. t \in Turn /\ Head(queue) = Item(t, kind)
    BY <2>1 DEF Command, Item
  <2> HIDE DEF t, kind
  <2>4. ASSUME NEW u \in Turn
        PROVE  Holds(trail'[u], "dispatched")
                 <=> Holds(trail[u], "dispatched") \/ (u = t /\ kind = "dispatched")
    <3>1. CASE u = t
      <4>1. trail'[u] = Append(trail[u], kind) /\ trail[u] \in Seq(Evidence)
        BY <1>1, <2>2, <2>3, <3>1 DEF Trails
      <4> QED BY <2>1, <3>1, <4>1, HoldsAppend
    <3>2. CASE u # t
      BY <1>1, <2>2, <2>3, <3>2 DEF Trails
    <3> QED BY <3>1, <3>2
  <2> QED BY <1>3, <2>3, <2>4 DEF Dispatched
<1>4. CASE Start \/ StartCutShort
  <2>1. Recovery
    BY <1>4, StartsRecover
  <2>2. ASSUME NEW u \in Turn
        PROVE  Holds(trail'[u], "dispatched") <=> Holds(trail[u], "dispatched")
    <3>1. trail[u] \in Seq(Evidence) /\ "interrupted" \in Evidence
      BY <1>1 DEF Trails, Evidence, Ending
    <3>2. Holds(Append(trail[u], "interrupted"), "dispatched") <=> Holds(trail[u], "dispatched")
      BY <3>1, HoldsAppend
    <3> QED BY <1>1, <2>1, <3>2, RecoveryTrail
  <2> QED BY <2>2 DEF Dispatched
<1> QED
  <2>1. CASE UserStep \/ SidecarStep \/ Closed \/ Open
    BY <1>2, <2>1, QuietStep DEF journal
  <2>2. CASE NoticeStep
    BY <1>2, <2>2, NoticeTaken DEF journal
  <2>3. CASE PersistCommit \/ PersistResult \/ PersistFails
    BY <1>2, <2>3 DEF PersistCommit, PersistResult, PersistFails
  <2>4. CASE Close \/ Crash \/ UNCHANGED vars
    BY <1>2, <2>4 DEF Close, Crash, vars, journal
  <2> QED BY <1>3, <1>4, <2>1, <2>2, <2>3, <2>4 DEF Next, WorkerStep, ProgramStep

LEMMA NoticesStep ==
  ASSUME IInv, [Next]_vars
  PROVE  notices' \in Seq(Notes(committed', Dispatched(trail')))
<1> DEFINE S == Notes(committed, Dispatched(trail))
           S2 == Notes(committed', Dispatched(trail'))
<1>1. /\ notices \in Seq(S) /\ TypeOK /\ GateInv /\ SeenInv
      /\ queue \in Seq(Cmds(committed)) /\ trail \in Trails
  BY DEF IInv, GateInv, TypeOK, Trails
<1>2. S \subseteq S2
  BY DispatchedStep, QueueStep DEF Notes
<1>3. notices \in Seq(S2)
  BY <1>1, <1>2, SeqMonotonic
<1>4. ASSUME NEW items \in Seq(S2), Notify(items) PROVE notices' \in Seq(S2)
  <2>1. notices \o items \in Seq(S2) /\ <<>> \in Seq(S2)
    BY <1>3, <1>4, Extend, EmptySeq
  <2> HIDE DEF S2
  <2> QED BY <1>4, <2>1 DEF Notify
<1>5. ASSUME NEW t \in Turn PROVE Item(t, "error") \in S2
  BY DEF Item, Notes, NoticeOf, Evidence, Ending
<1>6. ASSUME queue # <<>>
      PROVE  Head(queue) \in Command /\ Head(queue).turn \in Turn
  <2>1. Head(queue) \in Cmds(committed)
    BY <1>1, <1>6, CommandFacts
  <2> QED BY <2>1 DEF Cmds, Command
<1>7. CASE PersistCommit
  <2>1. /\ queue # <<>> /\ Head(queue).kind = "commit" /\ Notify(<<Head(queue)>>)
        /\ Head(queue).turn \in committed'
    BY <1>7 DEF PersistCommit
  <2>2. Head(queue) \in S2
    BY <1>6, <2>1 DEF Notes, NoticeOf, Command
  <2> QED BY <1>4, <2>1, <2>2, One
<1>8. CASE PersistEvidence
  <2> DEFINE t == Head(queue).turn
             kind == Head(queue).kind
  <2>1. queue # <<>> /\ kind \in Evidence /\ trail' = [trail EXCEPT ![t] = Append(@, kind)]
        /\ (notices' = notices \/ Notify(<<Item(t, kind)>>))
    BY <1>8 DEF PersistEvidence
  <2>2. t \in Turn
    BY <1>6, <2>1
  <2> HIDE DEF t, kind
  <2>3. kind = "dispatched" => t \in Dispatched(trail')
    <3>1. trail[t] \in Seq(Evidence) /\ trail'[t] = Append(trail[t], kind)
      BY <1>1, <2>1, <2>2 DEF Trails
    <3> QED BY <2>1, <2>2, <3>1, HoldsAppend DEF Dispatched
  <2>4. Item(t, kind) \in S2
    BY <2>1, <2>2, <2>3 DEF Item, Notes, NoticeOf, Evidence, Ending
  <2>5. <<Item(t, kind)>> \in Seq(S2)
    BY <2>4, One
  <2> QED BY <1>3, <1>4, <2>1, <2>5
<1>9. ASSUME appended # NoTurn
      PROVE  /\ <<Item(appended, Last(trail[appended]))>> \in Seq(S2)
             /\ <<Item(appended, Last(trail[appended])), Item(appended, "error")>> \in Seq(S2)
  <2>1. appended \in Turn /\ Last(trail[appended]) \in Ending
    BY <1>1, <1>9 DEF TypeOK, Turn, SeenInv, Seeing
  <2>2. Item(appended, Last(trail[appended])) \in S2
    BY <2>1 DEF Item, Notes, NoticeOf, Evidence, Ending
  <2>3. Item(appended, "error") \in S2
    BY <1>5, <2>1
  <2> HIDE DEF S2
  <2> QED BY <2>2, <2>3
<1>10. CASE PersistResult
  BY <1>4, <1>9, <1>10 DEF PersistResult
<1>11. CASE PersistFails
  <2>1. CASE appended = NoTurn
    <3>1. queue # <<>> /\ Notify(<<Item(Head(queue).turn, "error")>>)
      BY <1>11, <2>1 DEF PersistFails
    <3>2. <<Item(Head(queue).turn, "error")>> \in Seq(S2)
      BY <1>5, <1>6, <3>1, One
    <3> QED BY <1>4, <3>1, <3>2
  <2>2. CASE appended # NoTurn
    BY <1>4, <1>9, <1>11, <2>2 DEF PersistFails
  <2> QED BY <2>1, <2>2
<1>12. CASE NoticeStep
  <2>1. notices # <<>> /\ notices' = Tail(notices)
    BY <1>12, NoticeTaken
  <2> QED BY <1>3, <2>1, HeadTailProperties
<1>13. CASE notices' = <<>>
  BY <1>13, EmptySeq
<1>14. CASE notices' = notices
  BY <1>3, <1>14
<1> QED
  <2>1. CASE UserStep \/ SidecarStep \/ Closed \/ Open
    BY <1>14, <2>1, QuietStep
  <2>2. CASE Start \/ StartCutShort
    BY <1>14, <2>2, StartsRecover DEF Recovery, persistence
  <2>3. CASE Close \/ Crash
    BY <1>13, <2>3 DEF Close, Crash, Forget
  <2>4. CASE UNCHANGED vars
    BY <1>14, <2>4 DEF vars, persistence
  <2> QED BY <1>7, <1>8, <1>10, <1>11, <1>12, <2>1, <2>2, <2>3, <2>4 DEF Next, WorkerStep, ProgramStep

-----------------------------------------------------------------------------
(* The window and the program. *)
LEMMA GateStep ==
  ASSUME IInv, [Next]_vars
  PROVE  GateInv'
<1>1. TypeOK /\ GateInv /\ ModeInv
  BY DEF IInv
<1> DEFINE Mine == {pending, flow, active.turn}
<1>2. queue' \in Seq(Cmds(committed')) /\ notices' \in Seq(Notes(committed', Dispatched(trail')))
  BY QueueStep, NoticesStep
<1>3. Dispatched(trail') \cap Authored \subseteq committed'
  <2>1. ASSUME NEW t \in Dispatched(trail'), t \in Authored PROVE t \in committed'
    <3>1. CASE t \in Dispatched(trail)
      BY <1>1, <2>1, <3>1, QueueStep DEF GateInv
    <3>2. CASE PersistEvidence /\ Head(queue) = Item(t, "dispatched")
      <4>1. Head(queue) \in Cmds(committed)
        BY <1>1, <3>2, CommandFacts DEF GateInv, PersistEvidence
      <4>2. t \in committed \cup Execution
        BY <3>2, <4>1 DEF Item, Cmds
      <4> QED BY <2>1, <4>2, QueueStep, RemoteTurnAssumption
    <3> QED BY <3>1, <3>2, DispatchedStep
  <2> QED BY <2>1
<1>4. ASSUME NEW t \in Turn, NoticeStep, Head(notices).turn = t
      PROVE  /\ Head(notices).kind = "dispatched" => t \in Dispatched(trail)
             /\ Head(notices).kind = "commit" => t \in committed \cup Execution
  <2>1. Head(notices) \in Notes(committed, Dispatched(trail))
    BY <1>1, <1>4, NoticeTaken, HeadTailProperties DEF GateInv
  <2> QED BY <1>4, <2>1 DEF Notes
<1>5. ASSUME NEW t \in Turn, NoticeCommitted(t)
      PROVE  {pending', flow', active'.turn} \subseteq Mine \cup {t} /\ t \in committed \cup Execution
  <2>1. t \in committed \cup Execution
    BY <1>4, <1>5 DEF NoticeStep, NoticeCommitted, Notice
  <2> QED BY <1>5, <2>1 DEF NoticeCommitted
<1>6. ASSUME NEW t \in Turn, SubmitPending(t)
      PROVE  /\ {pending', flow', active'.turn} \subseteq Mine \cup {NoTurn}
             /\ unanswered' = [unanswered EXCEPT ![t] = @ + 1] /\ t \in Dispatched(trail)
  <2>1. t \in Dispatched(trail)
    BY <1>4, <1>6 DEF NoticeStep, SubmitPending, Notice
  <2> QED BY <1>6, <2>1 DEF SubmitPending, Inactive
<1>7. {pending', flow', active'.turn} \cap Authored \subseteq committed'
  <2>1. Mine \cap Authored \subseteq committed'
    BY <1>1, QueueStep DEF GateInv
  <2>2. CASE {pending', flow', active'.turn} \subseteq Mine \cup {NoTurn} \cup Execution
    BY <2>1, <2>2, RemoteTurnAssumption DEF Turn
  <2>3. CASE UserStep
    BY <2>2, <2>3 DEF UserStep, Send, DispatchExecution, ResumeAfterTool, Connect, window
  <2>4. CASE WorkerStep
    BY <2>2, <2>4 DEF WorkerStep, PersistCommit, PersistEvidence, PersistResult, PersistFails, window
  <2>5. CASE NoticeStep
    <3>1. ASSUME NEW t \in Turn, NoticeCommitted(t)
          PROVE  {pending', flow', active'.turn} \cap Authored \subseteq committed'
      <4>1. t \in Authored => t \in committed'
        BY <1>5, <3>1, QueueStep, RemoteTurnAssumption
      <4> QED BY <1>5, <2>1, <3>1, <4>1
    <3>2. ASSUME NEW t \in Turn, SubmitRefused(t) \/ NoticeOther(t) \/ NoticeError(t)
          PROVE  {pending', flow', active'.turn} \cap Authored \subseteq committed'
      BY <2>2, <3>2 DEF SubmitRefused, NoticeOther, NoticeError, window
    <3> QED BY <1>6, <2>2, <2>5, <3>1, <3>2 DEF NoticeStep
  <2>6. CASE SidecarStep
    <3>1. ASSUME NEW t \in Turn, Output(t) \/ RateLimited(t)
          PROVE  {pending', flow', active'.turn} \subseteq Mine
      BY <1>1, <3>1 DEF Output, RateLimited, TypeOK
    <3>2. ASSUME NEW t \in Turn, Complete(t)
          PROVE  {pending', flow', active'.turn} \subseteq Mine \cup {NoTurn}
      BY <3>2 DEF Complete, Takes, Inactive
    <3>3. ASSUME NEW t \in Turn, FailDefinitely(t) \/ FailUnknown(t) \/ AnswerInVain(t)
          PROVE  {pending', flow', active'.turn} \subseteq Mine \cup {NoTurn}
      BY <3>3 DEF FailDefinitely, FailUnknown, AnswerInVain, Inactive, window
    <3>4. CASE Resubmit \/ SidecarDies \/ NoticeSidecarDead
      <4>1. {pending', flow', active'.turn} \subseteq Mine \cup {NoTurn}
        BY <1>1, <3>4 DEF Resubmit, SidecarDies, NoticeSidecarDead, Inactive, window, TypeOK
      <4> QED BY <2>2, <4>1
    <3> QED BY <2>2, <2>6, <3>1, <3>2, <3>3, <3>4 DEF SidecarStep
  <2>7. CASE ProgramStep \/ UNCHANGED vars
    <3>1. {pending', flow', active'.turn} \subseteq Mine \cup {NoTurn}
      BY <2>7 DEF ProgramStep, Close, Closed, Crash, Start, StartCutShort, Open, Forget, Inactive, vars, window
    <3> QED BY <2>2, <3>1
  <2> QED BY <2>3, <2>4, <2>5, <2>6, <2>7 DEF Next
<1>8. ASSUME NEW t \in Turn, unanswered'[t] > 0 PROVE t \in Dispatched(trail')
  <2>1. unanswered \in [Turn -> Nat] /\ \A u \in Turn : unanswered[u] > 0 => u \in Dispatched(trail)
    BY <1>1 DEF TypeOK, GateInv
  <2>2. CASE unanswered' = unanswered
    BY <1>8, <2>1, <2>2, DispatchedStep
  <2>3. ASSUME NEW u \in Turn, SubmitPending(u) PROVE t \in Dispatched(trail')
    BY <1>6, <1>8, <2>1, <2>3, DispatchedStep
  <2>4. ASSUME NEW u \in Turn, Complete(u) PROVE t \in Dispatched(trail')
    <3>1. unanswered' = [unanswered EXCEPT ![u] = @ - 1]
      BY <2>4 DEF Complete
    <3>2. unanswered[t] > 0
      BY <1>8, <2>1, <3>1
    <3> QED BY <2>1, <3>2, DispatchedStep
  <2>5. CASE UserStep \/ WorkerStep \/ ProgramStep \/ UNCHANGED vars
    BY <2>2, <2>5 DEF UserStep, Send, DispatchExecution, ResumeAfterTool, Connect, WorkerStep, PersistCommit,
         PersistEvidence, PersistResult, PersistFails, ProgramStep, Close, Closed, Crash, Start, StartCutShort,
         Open, Forget, vars, sidecar
  <2>6. CASE NoticeStep
    <3>1. ASSUME NEW u \in Turn, NoticeCommitted(u) \/ SubmitRefused(u) \/ NoticeOther(u) \/ NoticeError(u)
          PROVE  unanswered' = unanswered
      BY <3>1 DEF NoticeCommitted, SubmitRefused, NoticeOther, NoticeError, sidecar
    <3> QED BY <2>2, <2>3, <2>6, <3>1 DEF NoticeStep
  <2>7. CASE SidecarStep
    <3>1. ASSUME NEW u \in Turn,
                 Output(u) \/ RateLimited(u) \/ FailDefinitely(u) \/ FailUnknown(u) \/ AnswerInVain(u)
          PROVE  unanswered' = unanswered
      BY <3>1 DEF Output, RateLimited, FailDefinitely, FailUnknown, AnswerInVain, sidecar
    <3>2. CASE Resubmit \/ SidecarDies \/ NoticeSidecarDead
      BY <2>2, <3>2 DEF Resubmit, SidecarDies, NoticeSidecarDead
    <3> QED BY <2>2, <2>4, <2>7, <3>1, <3>2 DEF SidecarStep
  <2> QED BY <2>5, <2>6, <2>7 DEF Next
<1> QED BY <1>2, <1>3, <1>7, <1>8 DEF GateInv

LEMMA ModeStep ==
  ASSUME IInv, [Next]_vars
  PROVE  ModeInv'
<1>1. TypeOK /\ ModeInv
  BY DEF IInv
<1>2. CASE UserStep
  <2>1. mode = "up" /\ mode' = mode /\ active' = active
    BY <1>2 DEF UserStep, Send, DispatchExecution, ResumeAfterTool, Connect, window
  <2> QED BY <1>1, <2>1 DEF ModeInv
<1>3. CASE WorkerStep
  <2>1. mode' = mode /\ mode \in {"up", "closing"} /\ active' = active /\ (mode # "up" => notices' = <<>>)
    BY <1>1, <1>3 DEF WorkerStep, PersistCommit, PersistEvidence, PersistResult, PersistFails, Notify,
         Working, ModeInv, window
  <2> QED BY <1>1, <2>1 DEF ModeInv
<1>4. CASE NoticeStep
  <2>1. mode' = mode /\ mode = "up"
    BY <1>4 DEF NoticeStep, NoticeCommitted, SubmitPending, SubmitRefused, NoticeOther, NoticeError, Notice
  <2>2. ASSUME NEW t \in Turn, SubmitPending(t) PROVE ~active'.waiting
    BY <2>2 DEF SubmitPending, Inactive
  <2>3. ASSUME NEW t \in Turn, NoticeCommitted(t) \/ SubmitRefused(t) \/ NoticeOther(t) \/ NoticeError(t)
        PROVE  active' = active
    BY <2>3 DEF NoticeCommitted, SubmitRefused, NoticeOther, NoticeError, window
  <2>4. active'.waiting => active'.turn # NoTurn
    BY <1>1, <1>4, <2>2, <2>3 DEF NoticeStep, ModeInv
  <2> QED BY <2>1, <2>4 DEF ModeInv
<1>5. CASE SidecarStep
  <2>1. mode' = mode
    BY <1>5 DEF SidecarStep, Output, Complete, RateLimited, FailDefinitely, FailUnknown, AnswerInVain,
         Resubmit, SidecarDies, NoticeSidecarDead
  <2>2. UNCHANGED <<appended, notices>>
    BY <1>5, QuietStep
  <2>3. active'.waiting => active'.turn # NoTurn
    <3>1. ASSUME NEW t \in Turn, Output(t) PROVE active'.turn = t
      BY <1>1, <3>1 DEF Output, Takes, TypeOK
    <3>2. ASSUME NEW t \in Turn, RateLimited(t) PROVE active'.turn = t
      <4>1. active' = [active EXCEPT !.retries = active.retries + 1, !.waiting = TRUE]
        BY <3>2 DEF RateLimited
      <4> QED BY <1>1, <3>2, <4>1 DEF RateLimited, Takes, TypeOK
    <3>3. ASSUME NEW t \in Turn, Complete(t) \/ FailDefinitely(t) \/ FailUnknown(t) PROVE ~active'.waiting
      BY <3>3 DEF Complete, FailDefinitely, FailUnknown, Inactive
    <3>4. ASSUME NEW t \in Turn, AnswerInVain(t) PROVE active' = active
      BY <3>4 DEF AnswerInVain, window
    <3>5. CASE Resubmit
      BY <1>1, <3>5 DEF Resubmit, TypeOK, Inactive
    <3>6. CASE SidecarDies \/ NoticeSidecarDead
      BY <1>1, <3>6 DEF SidecarDies, NoticeSidecarDead, ModeInv, Inactive, window
    <3> QED BY <1>1, <1>5, <3>1, <3>2, <3>3, <3>4, <3>5, <3>6, RemoteTurnAssumption DEF SidecarStep, ModeInv
  <2>4. mode \in {"down", "recovered"} => queue' = queue
    BY <1>5 DEF SidecarStep, Output, Complete, RateLimited, FailDefinitely, FailUnknown, AnswerInVain,
         Takes, Answers, Resubmit, SidecarDies, NoticeSidecarDead, persistence
  <2> QED BY <1>1, <2>1, <2>2, <2>3, <2>4 DEF ModeInv
<1>6. CASE Start \/ StartCutShort
  BY <1>1, <1>6, StartsRecover DEF Recovery, ModeInv, persistence, window
<1>7. CASE Close \/ Closed \/ Crash \/ Open
  BY <1>1, <1>7 DEF Close, Closed, Crash, Open, Forget, Inactive, ModeInv, TypeOK, persistence, window
<1>8. CASE UNCHANGED vars
  BY <1>1, <1>8 DEF ModeInv, vars, persistence, window
<1> QED BY <1>2, <1>3, <1>4, <1>5, <1>6, <1>7, <1>8 DEF Next, ProgramStep

LEMMA JournalStep ==
  ASSUME IInv, [Next]_vars
  PROVE  /\ trail' \in Trails
         /\ committed' \subseteq Authored
         /\ result' \in [Execution -> Ending \cup {"none"}]
<1>1. TypeOK /\ ModeInv /\ SeenInv /\ GateInv
  BY DEF IInv
<1>2. trail' \in Trails
  BY <1>1, ChannelStep DEF ChannelMoves
<1>3. ASSUME queue # <<>>, Head(queue).kind = "commit" PROVE Head(queue).turn \in Authored
  BY <1>1, <1>3, CommandFacts DEF GateInv, Cmds
<1>4. CASE UserStep \/ SidecarStep \/ Closed \/ Open
  BY <1>1, <1>2, <1>4, QuietStep DEF TypeOK, journal
<1>5. CASE NoticeStep
  BY <1>1, <1>2, <1>5, NoticeTaken DEF TypeOK, journal
<1>6. CASE PersistCommit
  BY <1>1, <1>2, <1>3, <1>6 DEF PersistCommit, TypeOK
<1>7. CASE PersistEvidence
  BY <1>1, <1>2, <1>7 DEF PersistEvidence, TypeOK
<1>8. CASE PersistResult
  <2>1. appended \in Execution /\ trail[appended] \in Seq(Evidence)
    BY <1>1, <1>8 DEF PersistResult, TypeOK, Turn
  <2>2. Outcome(trail[appended]) \in Ending \cup {"none"}
    BY <2>1, OutcomeFacts
  <2>3. committed' = committed /\ \A t \in Execution : result'[t] \in {result[t], Outcome(trail[appended])}
    BY <1>1, <1>8 DEF PersistResult, TypeOK
  <2>4. result' = [t \in Execution |-> result'[t]]
    BY <1>1, <1>8 DEF PersistResult, TypeOK
  <2> QED BY <1>1, <1>2, <2>2, <2>3, <2>4 DEF TypeOK
<1>9. CASE PersistFails
  <2>1. result' = result /\ committed' \subseteq Authored
    BY <1>1, <1>3, <1>9 DEF PersistFails, TypeOK
  <2> QED BY <1>1, <1>2, <2>1 DEF TypeOK
<1>10. CASE Close \/ Crash \/ UNCHANGED vars
  BY <1>1, <1>2, <1>10 DEF Close, Crash, vars, TypeOK, journal
<1>11. CASE Start \/ StartCutShort
  <2>1. committed' = committed
    BY <1>11, StartsRecover DEF Recovery
  <2>2. \A t \in Execution : Outcome(trail'[t]) \in Ending \cup {"none"}
    BY <1>2, OutcomeFacts DEF Trails, Turn
  <2>3. \A turns : Record(turns) \in [Execution -> Ending \cup {"none"}]
    BY <1>1, <2>2 DEF Record, TypeOK
  <2> QED BY <1>1, <1>2, <1>11, <2>1, <2>3 DEF Start, StartCutShort, TypeOK
<1> QED BY <1>4, <1>5, <1>6, <1>7, <1>8, <1>9, <1>10, <1>11 DEF Next, WorkerStep, ProgramStep

LEMMA ActiveFacts ==
  ASSUME TypeOK, NEW t \in Turn, Takes(t)
  PROVE  active.turn = t /\ active \in [turn : Turn, output : BOOLEAN, retries : 0..MaxRetries, waiting : BOOLEAN]
BY DEF Takes, TypeOK

ActiveType == [turn : Turn \cup {NoTurn}, output : BOOLEAN, retries : 0..MaxRetries, waiting : BOOLEAN]

LEMMA InactiveType ==
  Inactive \in ActiveType /\ \A t \in Turn : [Inactive EXCEPT !.turn = t] \in ActiveType
<1>1. MaxRetries \in Nat /\ 0 \in 0..MaxRetries
  BY RemoteTurnAssumption
<1>2. Inactive \in ActiveType
  BY <1>1 DEF Inactive, ActiveType
<1> QED BY <1>2 DEF ActiveType

LEMMA WindowStep ==
  ASSUME IInv, [Next]_vars
  PROVE  /\ sending' \in [turn : Authored \cup {NoTurn}, remote : BOOLEAN]
         /\ pending' \in Turn \cup {NoTurn}
         /\ active' \in ActiveType
         /\ flow' \in Turn \cup {NoTurn}
<1>1. TypeOK /\ active \in ActiveType
  BY DEF IInv, TypeOK, ActiveType
<1>2. NotSending \in [turn : Authored \cup {NoTurn}, remote : BOOLEAN]
  BY DEF NotSending
<1>3. CASE UserStep
  <2>1. active' = active /\ flow' \in {flow, NoTurn}
    BY <1>3 DEF UserStep, Send, DispatchExecution, ResumeAfterTool, Connect, window
  <2>2. pending' \in Turn \cup {NoTurn}
    BY <1>1, <1>3 DEF UserStep, Send, DispatchExecution, ResumeAfterTool, Connect, window, TypeOK
  <2>3. sending' \in [turn : Authored \cup {NoTurn}, remote : BOOLEAN]
    <3>1. Connected \in BOOLEAN
      BY DEF Connected
    <3>2. sending' = sending \/ \E t \in Authored : sending' = [turn |-> t, remote |-> Connected]
      BY <1>3 DEF UserStep, Send, DispatchExecution, ResumeAfterTool, Connect, window
    <3> QED BY <1>1, <3>1, <3>2 DEF TypeOK
  <2> QED BY <1>1, <2>1, <2>2, <2>3 DEF TypeOK
<1>4. CASE WorkerStep
  BY <1>1, <1>4 DEF WorkerStep, PersistCommit, PersistEvidence, PersistResult, PersistFails, window, TypeOK
<1>5. CASE NoticeStep
  <2>1. active' \in ActiveType
    BY <1>1, <1>5, InactiveType DEF NoticeStep, NoticeCommitted, SubmitPending, SubmitRefused, NoticeOther,
         NoticeError, window
  <2>2. sending' \in {sending, NotSending} /\ pending' \in {pending, NoTurn} \cup Turn /\ flow' = flow
    BY <1>5 DEF NoticeStep, NoticeCommitted, SubmitPending, SubmitRefused, NoticeOther, NoticeError, window
  <2> QED BY <1>1, <1>2, <2>1, <2>2 DEF TypeOK
<1>6. CASE SidecarStep
  <2>1. active' \in ActiveType
    <3>1. ASSUME NEW t \in Turn, Output(t) PROVE active' \in ActiveType
      BY <1>1, <3>1 DEF Output, ActiveType
    <3>2. ASSUME NEW t \in Turn, RateLimited(t) PROVE active' \in ActiveType
      <4>1. active' = [active EXCEPT !.retries = active.retries + 1, !.waiting = TRUE]
            /\ active.retries < MaxRetries
        BY <3>2 DEF RateLimited
      <4> DEFINE more == [active EXCEPT !.retries = active.retries + 1]
      <4>2. MaxRetries \in Nat /\ active.retries \in 0..MaxRetries
        BY <1>1, RemoteTurnAssumption DEF ActiveType
      <4>3. active.retries + 1 \in 0..MaxRetries
        BY <4>1, <4>2
      <4>4. more \in ActiveType
        BY <1>1, <4>3 DEF ActiveType
      <4>5. active' = [more EXCEPT !.waiting = TRUE]
        BY <4>1
      <4> HIDE DEF more
      <4> QED BY <4>4, <4>5 DEF ActiveType
    <3>3. ASSUME NEW t \in Turn, Complete(t) \/ FailDefinitely(t) \/ FailUnknown(t) PROVE active' = Inactive
      BY <3>3 DEF Complete, FailDefinitely, FailUnknown
    <3>4. ASSUME NEW t \in Turn, AnswerInVain(t) PROVE active' = active
      BY <3>4 DEF AnswerInVain, window
    <3>5. CASE Resubmit
      BY <1>1, <3>5, InactiveType DEF Resubmit, ActiveType
    <3>6. CASE SidecarDies \/ NoticeSidecarDead
      BY <1>1, <3>6, InactiveType DEF SidecarDies, NoticeSidecarDead, window
    <3> QED BY <1>1, <1>6, <3>1, <3>2, <3>3, <3>4, <3>5, <3>6, InactiveType DEF SidecarStep
  <2>2. sending' = sending /\ pending' \in {pending, NoTurn} \cup Turn /\ flow' \in {flow, NoTurn} \cup Turn
    BY <1>6 DEF SidecarStep, Output, Complete, RateLimited, FailDefinitely, FailUnknown, AnswerInVain,
         Resubmit, SidecarDies, NoticeSidecarDead, window
  <2> QED BY <1>1, <2>1, <2>2 DEF TypeOK
<1>7. CASE ProgramStep \/ UNCHANGED vars
  <2>1. \/ UNCHANGED window
        \/ sending' = NotSending /\ pending' = NoTurn /\ active' = Inactive /\ flow' = NoTurn
    BY <1>7 DEF ProgramStep, Close, Closed, Crash, Start, StartCutShort, Open, Forget, vars
  <2> QED BY <1>1, <1>2, <2>1, InactiveType DEF window, TypeOK
<1> QED BY <1>3, <1>4, <1>5, <1>6, <1>7 DEF Next

LEMMA TypeStep ==
  ASSUME IInv, [Next]_vars
  PROVE  TypeOK'
<1>1. TypeOK /\ ResendInv /\ ModeInv
  BY DEF IInv
<1>2. committed' \subseteq Authored /\ trail' \in [Turn -> Seq(Evidence)]
      /\ result' \in [Execution -> Ending \cup {"none"}]
  BY JournalStep DEF Trails
<1>3. queue' \in Seq([turn : Turn, kind : Evidence \cup {"commit"}])
  <2>1. Cmds(committed') \subseteq Command
    BY DEF Cmds
  <2> QED BY <2>1, QueueStep, SeqMonotonic DEF Command
<1>4. notices' \in Seq([turn : Turn, kind : Evidence \cup {"commit", "error"}])
  <2>1. Notes(committed', Dispatched(trail')) \subseteq NoticeOf
    BY DEF Notes
  <2> QED BY <2>1, NoticesStep, SeqMonotonic DEF NoticeOf
<1>5. appended' \in Execution \cup {NoTurn}
  <2>1. CASE UserStep \/ SidecarStep \/ Closed \/ Open
    BY <1>1, <2>1, QuietStep DEF TypeOK
  <2>2. CASE NoticeStep
    BY <1>1, <2>2, NoticeTaken DEF TypeOK
  <2>3. CASE WorkerStep
    BY <1>1, <2>3 DEF WorkerStep, PersistCommit, PersistEvidence, PersistResult, PersistFails, TypeOK
  <2>4. CASE Close \/ Crash \/ UNCHANGED vars
    BY <1>1, <2>4 DEF Close, Crash, vars, persistence, TypeOK
  <2>5. CASE Start \/ StartCutShort
    BY <1>1, <2>5, StartsRecover DEF Recovery, persistence, TypeOK
  <2> QED BY <2>1, <2>2, <2>3, <2>4, <2>5 DEF Next, ProgramStep
<1>6. bridge' \in {"off", "connected", "dead"}
  BY <1>1 DEF Next, UserStep, Send, DispatchExecution, ResumeAfterTool, Connect, WorkerStep, PersistCommit,
     PersistEvidence, PersistResult, PersistFails, NoticeStep, NoticeCommitted, SubmitPending, SubmitRefused,
     NoticeOther, NoticeError, SidecarStep, Output, Complete, RateLimited, FailDefinitely, FailUnknown,
     AnswerInVain, Resubmit, SidecarDies, NoticeSidecarDead, ProgramStep, Close, Closed, Crash, Start,
     StartCutShort, Open, Forget, vars, sidecar, TypeOK
<1>7. mode' \in {"down", "recovered", "up", "closing"}
  BY <1>1 DEF Next, UserStep, Send, DispatchExecution, ResumeAfterTool, Connect, WorkerStep, PersistCommit,
     PersistEvidence, PersistResult, PersistFails, NoticeStep, NoticeCommitted, SubmitPending, SubmitRefused,
     NoticeOther, NoticeError, SidecarStep, Output, Complete, RateLimited, FailDefinitely, FailUnknown,
     AnswerInVain, Resubmit, SidecarDies, NoticeSidecarDead, ProgramStep, Close, Closed, Crash, Start,
     StartCutShort, Open, vars, TypeOK
<1>8. serving' \subseteq Turn
  <2>1. serving \subseteq Turn
    BY <1>1 DEF TypeOK
  <2>2. CASE UserStep \/ WorkerStep \/ ProgramStep \/ UNCHANGED vars
    BY <2>1, <2>2 DEF UserStep, Send, DispatchExecution, ResumeAfterTool, Connect, WorkerStep, PersistCommit,
         PersistEvidence, PersistResult, PersistFails, ProgramStep, Close, Closed, Crash, Start, StartCutShort,
         Open, Forget, vars, sidecar
  <2>3. CASE NoticeStep
    BY <2>1, <2>3 DEF NoticeStep, NoticeCommitted, SubmitPending, SubmitRefused, NoticeOther, NoticeError,
         Submit, sidecar
  <2>4. CASE SidecarStep
    <3>1. ASSUME NEW t \in Turn, Output(t) \/ Complete(t) \/ RateLimited(t) \/ FailDefinitely(t)
                   \/ FailUnknown(t) \/ AnswerInVain(t)
          PROVE  serving' \subseteq serving
      BY <3>1 DEF Output, Complete, RateLimited, FailDefinitely, FailUnknown, AnswerInVain, sidecar
    <3>2. CASE Resubmit
      <4>1. active.turn \in Turn
        BY <1>1, <3>2 DEF Resubmit, ModeInv, TypeOK
      <4> QED BY <2>1, <3>2, <4>1 DEF Resubmit, Submit
    <3>3. CASE SidecarDies \/ NoticeSidecarDead
      BY <2>1, <3>3 DEF SidecarDies, NoticeSidecarDead
    <3> QED BY <2>1, <2>4, <3>1, <3>2, <3>3 DEF SidecarStep
  <2> QED BY <2>2, <2>3, <2>4 DEF Next
<1>9. unanswered' \in [Turn -> Nat]
  <2>1. unanswered \in [Turn -> Nat]
    BY <1>1 DEF TypeOK
  <2>2. CASE UserStep \/ WorkerStep \/ ProgramStep \/ UNCHANGED vars
    BY <2>1, <2>2 DEF UserStep, Send, DispatchExecution, ResumeAfterTool, Connect, WorkerStep, PersistCommit,
         PersistEvidence, PersistResult, PersistFails, ProgramStep, Close, Closed, Crash, Start, StartCutShort,
         Open, Forget, vars, sidecar
  <2>3. CASE NoticeStep
    BY <2>1, <2>3 DEF NoticeStep, NoticeCommitted, SubmitPending, SubmitRefused, NoticeOther, NoticeError,
         sidecar
  <2>4. ASSUME NEW t \in Turn, Complete(t) PROVE unanswered' \in [Turn -> Nat]
    <3>1. unanswered[t] = 1 /\ unanswered' = [unanswered EXCEPT ![t] = @ - 1]
      BY <1>1, <2>4 DEF Complete, Takes, ResendInv
    <3> QED BY <2>1, <3>1
  <2>5. CASE SidecarStep
    <3>1. ASSUME NEW u \in Turn,
                 Output(u) \/ RateLimited(u) \/ FailDefinitely(u) \/ FailUnknown(u) \/ AnswerInVain(u)
          PROVE  unanswered' = unanswered
      BY <3>1 DEF Output, RateLimited, FailDefinitely, FailUnknown, AnswerInVain, sidecar
    <3>2. CASE Resubmit \/ SidecarDies \/ NoticeSidecarDead
      BY <2>1, <3>2 DEF Resubmit, SidecarDies, NoticeSidecarDead
    <3> QED BY <2>1, <2>4, <2>5, <3>1, <3>2 DEF SidecarStep
  <2> QED BY <2>2, <2>3, <2>5 DEF Next
<1> QED BY <1>2, <1>3, <1>4, <1>5, <1>6, <1>7, <1>8, <1>9, WindowStep DEF TypeOK, ActiveType

-----------------------------------------------------------------------------
(* Submissions. *)
LEMMA KnownIsSeen ==
  ASSUME TypeOK, NEW t \in Turn, Known(trail, notices, appended, t)
  PROVE  Holds(Seen(t), "dispatched")
<1> DEFINE n == Len(trail[t]) - After(notices, t, 0) - (IF appended = t THEN 1 ELSE 0)
<1>1. trail[t] \in Seq(Evidence) /\ notices \in Seq(NoticeOf)
  BY DEF TypeOK, NoticeOf
<1>2. { i \in DOMAIN notices : notices[i].turn = t /\ notices[i].kind \in Evidence } = Later(notices, t, 0)
  BY <1>1 DEF Later, Tells
<1>3. Seen(t) = SubSeq(trail[t], 1, n)
  BY <1>2 DEF Seen, After
<1>4. n \in Int /\ n <= Len(trail[t])
  BY <1>1, PlaceFacts DEF Place, Trails, TypeOK
<1>5. PICK i \in DOMAIN trail[t] : i <= n /\ trail[t][i] = "dispatched"
  BY DEF Known, Place
<1> HIDE DEF n
<1>6. i \in DOMAIN SubSeq(trail[t], 1, n) /\ SubSeq(trail[t], 1, n)[i] = "dispatched"
  BY <1>1, <1>4, <1>5
<1> QED BY <1>3, <1>6 DEF Holds

(* A step that submits nothing and at most lets turns go. *)
LEMMA LetGo ==
  ASSUME IInv, ChannelMoves, unanswered' = unanswered,
         active'.turn \in {active.turn, NoTurn}, pending' \in {pending, NoTurn},
         flow' \in {flow, NoTurn}, sending'.turn \in {sending.turn, NoTurn}
  PROVE  ResendInv'
BY RemoteTurnAssumption DEF IInv, ResendInv, ChannelMoves

LEMMA ResendStep ==
  ASSUME IInv, [Next]_vars
  PROVE  ResendInv'
<1>1. TypeOK /\ GateInv /\ ModeInv /\ ResendInv /\ SeenInv
  BY DEF IInv
<1>2. ChannelMoves
  BY <1>1, ChannelStep
<1>3. unanswered \in [Turn -> Nat] /\ NoTurn \notin Turn
  BY <1>1, RemoteTurnAssumption DEF TypeOK
<1>4. ASSUME NEW t \in Turn, Send(t) PROVE ResendInv'
  <2>1. t \in Authored /\ t \notin committed /\ t \notin Execution
    BY <1>4, RemoteTurnAssumption DEF Send
  <2>2. unanswered[t] = 0 /\ pending # t /\ flow # t
    BY <1>1, <1>3, <2>1 DEF GateInv
  <2>3. /\ unanswered' = unanswered /\ active' = active /\ pending' = pending /\ flow' = flow
        /\ sending'.turn = t
    BY <1>4 DEF Send, sidecar
  <2> QED BY <1>1, <1>2, <1>3, <2>2, <2>3 DEF ResendInv, ChannelMoves
<1>5. ASSUME NEW t \in Turn, DispatchExecution(t) PROVE ResendInv'
  <2>1. ~Known(trail, notices, appended, t)
    BY <1>1, <1>5, KnownIsSeen DEF DispatchExecution
  <2>2. t \in Execution /\ unanswered[t] = 0 /\ flow # t
    BY <1>1, <1>3, <1>5, <2>1 DEF DispatchExecution, ResendInv
  <2>3. sending.turn # t
    BY <1>1, <1>3, <2>2, RemoteTurnAssumption DEF TypeOK
  <2>4. /\ unanswered' = unanswered /\ active' = active /\ pending' = t /\ flow' = flow
        /\ sending' = sending
    BY <1>5 DEF DispatchExecution, sidecar
  <2> QED BY <1>1, <1>2, <1>3, <2>2, <2>3, <2>4 DEF ResendInv, ChannelMoves
<1>6. CASE ResumeAfterTool
  <2>1. /\ unanswered' = unanswered /\ active' = active /\ pending' \in {pending, flow} /\ flow' = NoTurn
        /\ sending' = sending
    BY <1>6 DEF ResumeAfterTool, sidecar
  <2>2. flow \in Turn
    BY <1>1, <1>6 DEF ResumeAfterTool, TypeOK
  <2> QED BY <1>1, <1>2, <1>3, <2>1, <2>2 DEF ResendInv, ChannelMoves
<1>7. CASE UserStep
  <2>1. CASE Connect
    BY <1>2, <2>1, LetGo DEF Connect, window
  <2> QED BY <1>4, <1>5, <1>6, <1>7, <2>1 DEF UserStep
<1>8. CASE WorkerStep
  BY <1>2, <1>8, LetGo DEF WorkerStep, PersistCommit, PersistEvidence, PersistResult, PersistFails, window, sidecar
<1>9. ASSUME NEW t \in Turn, NoticeCommitted(t) PROVE ResendInv'
  <2>1. /\ unanswered' = unanswered /\ active' = active /\ flow' = flow /\ sending' = NotSending
        /\ pending' = pending \/ (pending' = t /\ sending.turn = t)
    BY <1>9 DEF NoticeCommitted, sidecar
  <2>2. sending'.turn = NoTurn
    BY <2>1 DEF NotSending
  <2> QED BY <1>1, <1>2, <1>3, <2>1, <2>2 DEF ResendInv, ChannelMoves
<1>10. ASSUME NEW t \in Turn, SubmitPending(t) PROVE ResendInv'
  <2>1. /\ pending = t /\ pending' = NoTurn /\ flow' = flow /\ sending' = sending
        /\ unanswered' = [unanswered EXCEPT ![t] = @ + 1] /\ active' = [Inactive EXCEPT !.turn = t]
    BY <1>10 DEF SubmitPending
  <2>2. active'.turn = t
    BY <2>1 DEF Inactive
  <2>3. Known(trail', notices', appended', t)
    <3>1. UNCHANGED <<trail, appended>> /\ notices # <<>> /\ notices' = Tail(notices)
      BY <1>10 DEF SubmitPending, Notice, journal
    <3>2. Head(notices).turn = t /\ Head(notices).kind = "dispatched"
      BY <1>10 DEF SubmitPending, Notice
    <3>3. trail \in Trails /\ notices \in Seq(NoticeOf) /\ Seeing(trail, notices, appended)
      BY <1>1 DEF TypeOK, Trails, NoticeOf, SeenInv
    <3> QED BY <3>1, <3>2, <3>3, HeadIsKnown
  <2>4. unanswered[t] = 0 /\ flow # t /\ sending.turn # t
    BY <1>1, <2>1 DEF ResendInv
  <2>5. unanswered'[t] = 1 /\ \A u \in Turn : u # t => unanswered'[u] = unanswered[u]
    BY <1>3, <2>1, <2>4
  <2> QED BY <1>1, <1>2, <1>3, <2>1, <2>2, <2>3, <2>4, <2>5 DEF ResendInv, ChannelMoves
<1>11. CASE NoticeStep
  <2>1. ASSUME NEW t \in Turn, SubmitRefused(t) PROVE ResendInv'
    BY <1>2, <2>1, LetGo DEF SubmitRefused, sidecar
  <2>2. ASSUME NEW t \in Turn, NoticeOther(t) PROVE ResendInv'
    BY <1>2, <2>2, LetGo DEF NoticeOther, window, sidecar
  <2>3. ASSUME NEW t \in Turn, NoticeError(t) PROVE ResendInv'
    BY <1>2, <2>3, LetGo DEF NoticeError, NotSending, sidecar
  <2> QED BY <1>9, <1>10, <1>11, <2>1, <2>2, <2>3 DEF NoticeStep
<1>12. ASSUME NEW t \in Turn, Complete(t) PROVE ResendInv'
  <2>1. /\ active.turn = t /\ active' = Inactive /\ sending' = sending
        /\ unanswered' = [unanswered EXCEPT ![t] = @ - 1]
        /\ \/ pending' = t /\ flow' = NoTurn
           \/ pending' = pending /\ flow' = t
           \/ pending' = pending /\ flow' = NoTurn
    BY <1>12 DEF Complete, Takes
  <2>2. active'.turn = NoTurn
    BY <2>1 DEF Inactive
  <2>3. unanswered[t] = 1 /\ pending # t /\ flow # t /\ sending.turn # t
    BY <1>1, <2>1 DEF ResendInv
  <2>4. t \in Execution => Known(trail, notices, appended, t)
    BY <1>1, <2>3 DEF ResendInv
  <2>5. unanswered'[t] = 0 /\ \A u \in Turn : u # t => unanswered'[u] = unanswered[u]
    BY <1>3, <2>1, <2>3
  <2> QED BY <1>1, <1>2, <1>3, <2>1, <2>2, <2>3, <2>4, <2>5 DEF ResendInv, ChannelMoves
<1>13. CASE SidecarStep
  <2>1. ASSUME NEW t \in Turn, Output(t) PROVE ResendInv'
    <3>1. active'.turn = active.turn
      BY <1>1, <2>1 DEF Output, TypeOK
    <3> QED BY <1>2, <2>1, <3>1, LetGo DEF Output, sidecar
  <2>2. ASSUME NEW t \in Turn, RateLimited(t) PROVE ResendInv'
    <3>1. active' = [active EXCEPT !.retries = active.retries + 1, !.waiting = TRUE]
      BY <2>2 DEF RateLimited
    <3>2. active'.turn = active.turn
      BY <1>1, <3>1 DEF TypeOK
    <3> QED BY <1>2, <2>2, <3>2, LetGo DEF RateLimited
  <2>3. ASSUME NEW t \in Turn, FailDefinitely(t) \/ FailUnknown(t) PROVE ResendInv'
    BY <1>2, <2>3, LetGo DEF FailDefinitely, FailUnknown, Inactive
  <2>4. ASSUME NEW t \in Turn, AnswerInVain(t) PROVE ResendInv'
    BY <1>2, <2>4, LetGo DEF AnswerInVain, window
  <2>5. CASE Resubmit
    <3>1. active'.turn \in {active.turn, NoTurn}
      BY <1>1, <2>5 DEF Resubmit, Inactive, TypeOK
    <3> QED BY <1>2, <2>5, <3>1, LetGo DEF Resubmit
  <2>6. CASE SidecarDies \/ NoticeSidecarDead
    BY <1>2, <2>6, LetGo DEF SidecarDies, NoticeSidecarDead, Inactive, window
  <2> QED BY <1>12, <1>13, <2>1, <2>2, <2>3, <2>4, <2>5, <2>6 DEF SidecarStep
<1>14. CASE ProgramStep \/ UNCHANGED vars
  <2>1. CASE Close \/ Crash
    BY <1>2, <2>1, LetGo DEF Close, Crash, Forget, Inactive, NotSending
  <2>2. CASE Closed \/ Open \/ UNCHANGED vars
    BY <1>2, <2>2, LetGo DEF Closed, Open, vars, window, sidecar
  <2>3. CASE Start \/ StartCutShort
    BY <1>2, <2>3, LetGo, StartsRecover DEF Recovery, window, sidecar
  <2> QED BY <1>14, <2>1, <2>2, <2>3 DEF ProgramStep
<1> QED BY <1>7, <1>8, <1>11, <1>13, <1>14 DEF Next

-----------------------------------------------------------------------------
LEMMA InitInv == Init => IInv
<1> SUFFICES ASSUME Init PROVE IInv
  OBVIOUS
<1>1. MaxRetries \in Nat /\ NoTurn \notin Turn
  BY RemoteTurnAssumption
<1>2. TypeOK
  BY <1>1 DEF Init, TypeOK, NotSending, Inactive, Turn
<1>3. Dispatched(trail) = {} /\ \A t \in Turn : trail[t] = <<>> /\ unanswered[t] = 0
  BY DEF Init, Dispatched, Holds
<1>4. GateInv
  <2>1. queue \in Seq(Cmds(committed)) /\ notices \in Seq(Notes(committed, Dispatched(trail)))
    BY EmptySeq DEF Init
  <2> QED BY <1>1, <1>3, <2>1 DEF Init, GateInv, Inactive, Turn
<1>5. ModeInv /\ SeenInv
  BY <1>1 DEF Init, ModeInv, SeenInv, Seeing, Inactive
<1>6. ResendInv
  BY <1>1, <1>3 DEF Init, ResendInv, Inactive, NotSending
<1> QED BY <1>2, <1>4, <1>5, <1>6 DEF IInv

LEMMA NextInv == IInv /\ [Next]_vars => IInv'
<1> SUFFICES ASSUME IInv, [Next]_vars PROVE IInv'
  OBVIOUS
<1>1. SeenInv'
  BY ChannelStep DEF IInv, ChannelMoves
<1> QED BY <1>1, TypeStep, GateStep, ModeStep, ResendStep DEF IInv

THEOREM Inductive == Spec => []IInv
BY InitInv, NextInv, PTL DEF Spec

(* Type correctness. *)
THEOREM TypeCorrect == Spec => []TypeOK
<1>1. IInv => TypeOK
  BY DEF IInv
<1> QED BY <1>1, Inductive, PTL

(* A request leaves only after its dispatch is durable, and a message only *)
(* after it is.                                                            *)
THEOREM CommitBeforeDispatch == Spec => []LocalCommitGate
<1>1. IInv => LocalCommitGate
  BY DEF IInv, GateInv, LocalCommitGate, Dispatched, Turn
<1> QED BY <1>1, Inductive, PTL

(* No turn has two submissions that saw no completion. *)
THEOREM NoSecondSubmission == Spec => []NoBlindResend
<1>1. IInv => NoBlindResend
  BY DEF IInv, ResendInv, NoBlindResend
<1> QED BY <1>1, Inductive, PTL

-----------------------------------------------------------------------------
(* Results and recovery. *)
LEMMA TrailStep ==
  ASSUME IInv, [Next]_vars, NEW t \in Turn
  PROVE  trail'[t] = trail[t] \/ \E k \in Evidence : trail'[t] = Append(trail[t], k)
<1>1. TypeOK /\ trail \in Trails
  BY DEF IInv, TypeOK, Trails
<1>2. CASE UserStep \/ SidecarStep \/ Closed \/ Open
  BY <1>2, QuietStep DEF journal
<1>3. CASE NoticeStep
  BY <1>3, NoticeTaken DEF journal
<1>4. CASE PersistEvidence
  <2>1. Head(queue).kind \in Evidence /\ trail' = [trail EXCEPT ![Head(queue).turn] = Append(@, Head(queue).kind)]
    BY <1>4 DEF PersistEvidence
  <2> QED BY <1>1, <2>1 DEF Trails
<1>5. CASE PersistCommit \/ PersistResult \/ PersistFails
  BY <1>5 DEF PersistCommit, PersistResult, PersistFails
<1>6. CASE Start \/ StartCutShort
  BY <1>1, <1>6, StartsRecover, RecoveryTrail DEF Evidence, Ending
<1>7. CASE Close \/ Crash \/ UNCHANGED vars
  BY <1>7 DEF Close, Crash, vars, journal
<1> QED BY <1>2, <1>3, <1>4, <1>5, <1>6, <1>7 DEF Next, WorkerStep, ProgramStep

(* Recovery interrupts only what has no ending since its dispatch; for a   *)
(* continuation, whose audit replays, that is no ending at all.            *)
LEMMA RecoveredOutcome ==
  ASSUME TypeOK, Recovery, AuditReplays(trail), NEW t \in Execution
  PROVE  Outcome(trail'[t]) # "none" => FirstEnding(trail'[t], Outcome(trail'[t]))
<1>1. t \in Turn /\ t \notin Authored /\ trail[t] \in Seq(Evidence) /\ Replays(trail[t])
  BY RemoteTurnAssumption DEF TypeOK, AuditReplays, Turn
<1>2. CASE trail'[t] = trail[t]
  BY <1>1, <1>2, OutcomeIsFirst
<1>3. CASE t \in StrandedTurns /\ trail'[t] = Append(trail[t], "interrupted")
  <2>1. ~Ended(trail[t])
    BY <1>1, <1>3 DEF StrandedTurns, Stranded
  <2> QED BY <1>1, <1>3, <2>1, InterruptedOutcome
<1> QED BY <1>1, <1>2, <1>3, RecoveryTrail

LEMMA ResultStep == IInv /\ ResultIsFirstEnding /\ [Next]_vars => ResultIsFirstEnding'
<1> SUFFICES ASSUME IInv, ResultIsFirstEnding, [Next]_vars,
                    NEW t \in Execution, result'[t] # "none"
             PROVE  FirstEnding(trail'[t], result'[t])
  BY DEF ResultIsFirstEnding, FirstEnding
<1>1. TypeOK /\ t \in Turn /\ trail[t] \in Seq(Evidence)
  BY DEF IInv, TypeOK, Turn
<1>2. CASE result'[t] = result[t]
  <2>1. FirstEnding(trail[t], result[t])
    BY <1>2 DEF ResultIsFirstEnding, FirstEnding
  <2>2. CASE trail'[t] = trail[t]
    BY <1>2, <2>1, <2>2
  <2>3. ASSUME NEW k \in Evidence, trail'[t] = Append(trail[t], k) PROVE FirstEnding(trail'[t], result'[t])
    BY <1>1, <1>2, <2>1, <2>3, FirstEndingStays
  <2> QED BY <1>1, <2>2, <2>3, TrailStep
<1>3. CASE result' = result
  BY <1>2, <1>3
<1>4. CASE PersistResult
  <2>1. trail' = trail
    BY <1>4 DEF PersistResult
  <2>2. result'[t] = result[t] \/ (AuditReplays(trail) /\ result'[t] = Outcome(trail[t]))
    BY <1>1, <1>4 DEF PersistResult, TypeOK
  <2>3. CASE AuditReplays(trail) /\ result'[t] = Outcome(trail[t])
    BY <1>1, <2>1, <2>3, OutcomeIsFirst DEF AuditReplays
  <2> QED BY <1>2, <2>2, <2>3
<1>5. CASE Start \/ StartCutShort
  <2>1. Recovery
    BY <1>5, StartsRecover
  <2>2. result' = result \/ (AuditReplays(trail) /\ \E turns : result' = Record(turns))
    BY <1>5 DEF Start, StartCutShort
  <2>3. ASSUME AuditReplays(trail), NEW turns, result' = Record(turns)
        PROVE  result'[t] = result[t] \/ result'[t] = Outcome(trail'[t])
    BY <2>3 DEF Record
  <2>4. CASE AuditReplays(trail) /\ result'[t] = Outcome(trail'[t])
    BY <1>1, <2>1, <2>4, RecoveredOutcome
  <2> QED BY <1>2, <1>3, <2>2, <2>3, <2>4
<1> QED
  <2>1. CASE UserStep \/ SidecarStep \/ Closed \/ Open
    BY <1>3, <2>1, QuietStep DEF journal
  <2>2. CASE NoticeStep
    BY <1>3, <2>2, NoticeTaken DEF journal
  <2>3. CASE PersistCommit \/ PersistEvidence \/ PersistFails
    BY <1>3, <2>3 DEF PersistCommit, PersistEvidence, PersistFails
  <2>4. CASE Close \/ Crash \/ UNCHANGED vars
    BY <1>3, <2>4 DEF Close, Crash, vars, journal
  <2> QED BY <1>4, <1>5, <2>1, <2>2, <2>3, <2>4 DEF Next, WorkerStep, ProgramStep

(* A continuation's recorded result is its first ending, whatever is       *)
(* appended or recovered later.                                            *)
THEOREM FirstEndingRecorded == Spec => []ResultIsFirstEnding
<1>1. Init => ResultIsFirstEnding
  BY DEF Init, ResultIsFirstEnding
<1> QED BY <1>1, Inductive, ResultStep, PTL DEF Spec

LEMMA StartSettlesAll == IInv /\ Start /\ AuditReplays(trail) => Settled'
<1> SUFFICES ASSUME IInv, Start, AuditReplays(trail) PROVE Settled'
  OBVIOUS
<1>1. TypeOK /\ Recovery /\ trail' = Interrupt(StrandedTurns) /\ result' = Record(Execution)
  BY StartsRecover DEF IInv, Start
<1>2. ASSUME NEW t \in Turn PROVE ~Stranded(t, trail'[t])
  <2>1. trail[t] \in Seq(Evidence)
    BY <1>1 DEF TypeOK
  <2>2. CASE t \in StrandedTurns
    <3>1. trail'[t] = Append(trail[t], "interrupted") /\ Holds(trail[t], "dispatched")
      BY <1>1, <2>2 DEF Interrupt, StrandedTurns, Stranded
    <3> QED BY <2>1, <3>1, InterruptedSettles DEF Stranded
  <2>3. CASE t \notin StrandedTurns
    BY <1>1, <2>3 DEF Interrupt, StrandedTurns
  <2> QED BY <2>2, <2>3
<1>3. ASSUME NEW t \in Execution, Ended(trail'[t]) PROVE result'[t] # "none"
  <2>1. trail'[t] \in Seq(Evidence)
    BY <1>1, RecoveryTrail DEF Trails, Turn
  <2>2. result'[t] = IF result[t] = "none" THEN Outcome(trail'[t]) ELSE result[t]
    BY <1>1 DEF Record
  <2> QED BY <1>3, <2>1, <2>2, OutcomeFacts
<1> QED BY <1>2, <1>3 DEF Settled

LEMMA SettledStep == IInv /\ StartSettlesReplayable /\ [Next]_vars => StartSettlesReplayable'
<1> SUFFICES ASSUME IInv, StartSettlesReplayable, [Next]_vars, mode' = "recovered", AuditReplays(trail')
             PROVE  Settled'
  BY DEF StartSettlesReplayable
<1>1. CASE Start
  <2>1. AuditReplays(trail)
    BY <1>1 DEF Start
  <2> QED BY <1>1, <2>1, StartSettlesAll
<1>2. CASE mode = "recovered" /\ UNCHANGED journal
  BY <1>2 DEF StartSettlesReplayable, Settled, journal
<1>3. CASE UserStep \/ SidecarStep \/ Closed \/ Open
  <2>1. mode = "recovered"
    BY <1>3 DEF UserStep, Send, DispatchExecution, ResumeAfterTool, Connect, SidecarStep, Output, Complete,
         RateLimited, FailDefinitely, FailUnknown, AnswerInVain, Takes, Answers, Resubmit, SidecarDies,
         NoticeSidecarDead, Closed, Open
  <2> QED BY <1>2, <1>3, <2>1, QuietStep
<1>4. mode = "up" => ~NoticeStep
  BY DEF NoticeStep, NoticeCommitted, SubmitPending, SubmitRefused, NoticeOther, NoticeError, Notice
<1>5. ~NoticeStep
  BY <1>4, NoticeTaken
<1>6. ~WorkerStep /\ ~Close /\ ~Crash /\ ~StartCutShort
  BY DEF WorkerStep, PersistCommit, PersistEvidence, PersistResult, PersistFails, Working, Close, Crash,
     StartCutShort
<1>7. CASE UNCHANGED vars
  BY <1>2, <1>7 DEF vars
<1> QED BY <1>1, <1>3, <1>5, <1>6, <1>7 DEF Next, ProgramStep

(* A start that finds an audit that replays leaves no dispatched turn      *)
(* without an ending and no ended continuation without a result.           *)
THEOREM StartsSettle == Spec => []StartSettlesReplayable
<1>1. Init => StartSettlesReplayable
  BY DEF Init, StartSettlesReplayable
<1> QED BY <1>1, Inductive, SettledStep, PTL DEF Spec
=============================================================================
