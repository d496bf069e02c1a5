--------------------------- MODULE ToolCallsProofs ---------------------------
(***************************************************************************)
(* Proofs about ToolCalls, for every set of tools, transports and policies *)
(* and every bound.  The inductive invariant says what the commands and    *)
(* notices on their way are about, in which order a call's events are in   *)
(* the journal, and what a thread that holds a call means for how often    *)
(* the call has been carried out.                                          *)
(***************************************************************************)
EXTENDS ToolCalls, FiniteSetTheorems, SequenceTheorems, WellFoundedInduction, TLAPS

Kind == SetUp \cup Consent \cup Admission \cup
          {"recorded", "proposed", "routed", "dispatched", "outcome", "rollover"}

Word == {"automatic", "ask", "disabled", None}

Entry == [kind : Kind, of : Tool \cup Nat \cup {None}, with : (Tool \X Nat) \cup Word]

Deed == SetUp \cup Consent \cup Admission \cup
          {"propose", "agent", "hello", "http", "shell", "probe", "reserve", "outcome"}

(* Commands as the window and the threads send them. *)
Asked ==
  { x \in Cmd : /\ x.do \in {"propose", "agent"} => x.tool \in Tool
                /\ x.do = "propose" => x.of \in Call }

(* There is an event of this kind about x. *)
In(log, kind, x) == \E i \in DOMAIN log : log[i].kind = kind /\ log[i].of = x

(* Notices, of which that of a model's call names one that is recorded. *)
Heard(log) ==
  { n \in [ok : BOOLEAN, do : Deed \cup {"panic"}, of : Tool \cup Nat, call : Tool \cup Nat, shown : SUBSET Nat] :
      n.ok /\ n.do = "agent" => In(log, "recorded", n.call) }

ChannelInv ==
  /\ queue \in Seq(Asked)
  /\ notices \in Seq(Heard(journal))
  /\ turn \in Nat

(* Calls are recorded with their tool, under numbers the worker can count  *)
(* on from.                                                                *)
EntryInv ==
  /\ journal \in Seq(Entry)
  /\ \A i \in DOMAIN journal : journal[i].kind = "recorded" =>
       journal[i].of \in 1..(MaxCalls + i) /\ journal[i].with \in Tool \X Nat

(* A call is recorded before it is routed or used, and used before it has  *)
(* an outcome.                                                             *)
OrderInv ==
  \A c \in Tool \cup Nat \cup {None} :
    /\ In(journal, "routed", c) => In(journal, "recorded", c)
    /\ In(journal, "dispatched", c) => In(journal, "recorded", c)
    /\ In(journal, "outcome", c) => In(journal, "dispatched", c)

(* Only one thread ever holds a call that was used up, and what it has yet *)
(* to do has not been done.                                                *)
RanInv ==
  /\ ran \in [Call -> 0..1]
  /\ \A c \in Call :
       /\ ran[c] = 1 => In(journal, "dispatched", c)
       /\ In(journal, "outcome", c) => ran[c] = 1
       /\ c \in running => In(journal, "dispatched", c) /\ ran[c] = 0
       /\ c \in reporting => ran[c] = 1
  /\ \A i \in DOMAIN queue : queue[i].do = "outcome" => queue[i].of \in Call /\ ran[queue[i].of] = 1

IInv ==
  /\ ChannelInv
  /\ EntryInv
  /\ OrderInv
  /\ RanInv
  /\ AuthorisedWhenUsed

-----------------------------------------------------------------------------
(* The numbers of events. *)

LEMMA Greatest ==
  ASSUME NEW n \in Nat, NEW S \in SUBSET (0..n), S # {}
  PROVE  Max(S) \in S /\ \A y \in S : y <= Max(S)
<1> DEFINE T == { n - i : i \in S }
<1>0. \A i \in S : i \in 0..n /\ n - i \in Nat /\ n - i \in T
  OBVIOUS
<1>1. T \subseteq Nat /\ T # {}
  BY <1>0
<1>2. PICK x \in T : \A y \in T : ~(<<y, x>> \in OpToRel(<, Nat))
  BY <1>1, WFMin, NatLessThanWellFounded
<1>3. \A y \in T : ~(y < x)
  BY <1>1, <1>2 DEF OpToRel
<1>4. PICK i \in S : x = n - i
  OBVIOUS
<1>5. \A j \in S : i >= j
  <2> TAKE j \in S
  <2>1. ~(n - j < n - i)
    BY <1>0, <1>3, <1>4
  <2> HIDE DEF T
  <2> QED BY <1>0, <2>1
<1>6. Max(S) \in S /\ \A y \in S : Max(S) >= y
  BY <1>5 DEF Max
<1> QED BY <1>0, <1>6

LEMMA WhereFacts ==
  ASSUME NEW S, NEW log \in Seq(S), NEW kinds, NEW x
  PROVE  /\ Where(log, kinds, x) \in 0..Len(log)
         /\ Where(log, kinds, x) # 0 =>
              /\ Where(log, kinds, x) \in DOMAIN log
              /\ log[Where(log, kinds, x)].kind \in kinds
              /\ log[Where(log, kinds, x)].of = x
         /\ \A i \in DOMAIN log :
              log[i].kind \in kinds /\ log[i].of = x => i <= Where(log, kinds, x)
<1> DEFINE N == {i \in DOMAIN log : log[i].kind \in kinds /\ log[i].of = x}
<1>1. Len(log) \in Nat /\ DOMAIN log = 1..Len(log)
  OBVIOUS
<1>2. {0} \cup N \in SUBSET (0..Len(log)) /\ {0} \cup N # {}
  BY <1>1
<1>3. Max({0} \cup N) \in {0} \cup N /\ \A y \in {0} \cup N : y <= Max({0} \cup N)
  BY <1>1, <1>2, Greatest
<1>4. Where(log, kinds, x) = Max({0} \cup N)
  BY DEF Where
<1> QED BY <1>1, <1>3, <1>4

(* Has is about there being such an event. *)
LEMMA HasFacts ==
  ASSUME NEW S, NEW log \in Seq(S), NEW kind, NEW x
  PROVE  Has(log, kind, x) <=> In(log, kind, x)
<1>1. Len(log) \in Nat /\ DOMAIN log = 1..Len(log)
  OBVIOUS
<1> QED BY <1>1, WhereFacts DEF Has, In

(* What the guards of the worker say, in these terms. *)
LEMMA Recording ==
  ASSUME EntryInv, NEW c, In(journal, "recorded", c)
  PROVE  /\ RecordedAt(journal, c) \in DOMAIN journal
         /\ ToolOf(journal, c) \in Tool
         /\ c \in Nat
<1>1. RecordedAt(journal, c) = Where(journal, {"recorded"}, c) /\ journal \in Seq(Entry)
  BY DEF RecordedAt, EntryInv
<1>2. Len(journal) \in Nat /\ DOMAIN journal = 1..Len(journal)
  BY <1>1
<1>3. Where(journal, {"recorded"}, c) # 0
  BY <1>1, <1>2, WhereFacts DEF In
<1>4. /\ RecordedAt(journal, c) \in DOMAIN journal
      /\ journal[RecordedAt(journal, c)].kind = "recorded" /\ journal[RecordedAt(journal, c)].of = c
  BY <1>1, <1>3, WhereFacts
<1>5. journal[RecordedAt(journal, c)].with \in Tool \X Nat /\ c \in 1..(MaxCalls + RecordedAt(journal, c))
  BY <1>4 DEF EntryInv
<1>6. MaxCalls \in Nat
  BY ToolCallsAssumption
<1> QED BY <1>2, <1>4, <1>5, <1>6 DEF ToolOf

LEMMA NextCallFacts ==
  ASSUME EntryInv
  PROVE  /\ NextCall(journal) \in 1..(MaxCalls + Len(journal) + 1)
         /\ ~In(journal, "recorded", NextCall(journal))
<1> DEFINE R == {journal[i].of : i \in {j \in DOMAIN journal : journal[j].kind = "recorded"}}
           n == MaxCalls + Len(journal)
<1>1. MaxCalls \in Nat /\ Len(journal) \in Nat /\ DOMAIN journal = 1..Len(journal)
  BY ToolCallsAssumption DEF EntryInv
<1>2. \A x \in R : x \in 0..n
  <2> TAKE x \in R
  <2>1. PICK i \in DOMAIN journal : journal[i].kind = "recorded" /\ x = journal[i].of
    OBVIOUS
  <2>2. x \in 1..(MaxCalls + i)
    BY <2>1 DEF EntryInv
  <2> QED BY <1>1, <2>2
<1>3. {0} \cup R \in SUBSET (0..n) /\ n \in Nat
  BY <1>1, <1>2
<1>4. Max({0} \cup R) \in 0..n /\ \A y \in R : y <= Max({0} \cup R)
  BY <1>3, Greatest
<1>5. NextCall(journal) = 1 + Max({0} \cup R)
  BY DEF NextCall
<1>6. NextCall(journal) \in 1..(n + 1) /\ NextCall(journal) \notin R
  <2> DEFINE m == Max({0} \cup R)
  <2>1. m \in 0..n /\ n \in Nat /\ NextCall(journal) = 1 + m
    BY <1>3, <1>4, <1>5
  <2>2. \A y \in R : y \in Nat /\ y <= m
    BY <1>2, <1>3, <1>4
  <2> HIDE DEF m, R, n
  <2> QED BY <2>1, <2>2
<1>7. \A i \in DOMAIN journal : journal[i].kind = "recorded" => journal[i].of # NextCall(journal)
  BY <1>6
<1> QED BY <1>6, <1>7 DEF In

LEMMA LeafFacts ==
  ASSUME NEW S, NEW log \in Seq(S)
  PROVE  Leaf(log) \in Nat
<1> DEFINE N == {i \in DOMAIN log : log[i].kind = "rollover"}
<1>1. IsFiniteSet(DOMAIN log)
  <2>1. Len(log) \in Nat /\ DOMAIN log = 1..Len(log)
    OBVIOUS
  <2> QED BY <2>1, FS_Interval
<1>2. IsFiniteSet(N)
  BY <1>1, FS_Subset
<1>3. Cardinality(N) \in Nat
  BY <1>2, FS_CardinalityType
<1> QED BY <1>3 DEF Leaf
-----------------------------------------------------------------------------
(* What a command appends. *)

LEMMA CommandFacts ==
  ASSUME NEW cmd \in Asked
  PROVE  /\ cmd.do \in Deed
         /\ cmd.of \in Tool \cup Nat
         /\ cmd.do \in {"propose", "agent"} => cmd.tool \in Tool
         /\ cmd.do = "propose" => cmd.of \in Call
BY DEF Asked, Cmd, Deed

LEMMA EventFacts ==
  /\ \A k, x, w : Event(k, x, w).kind = k /\ Event(k, x, w).of = x /\ Event(k, x, w).with = w
  /\ \A k \in Kind : \A x \in Tool \cup Nat \cup {None} : \A w \in (Tool \X Nat) \cup Word :
       Event(k, x, w) \in Entry
BY DEF Event, Entry

LEMMA ProposalFacts ==
  ASSUME EntryInv, NEW cmd \in Asked, cmd.do \in {"propose", "agent"}
  PROVE  /\ Proposal(journal, cmd) \in Seq(Entry)
         /\ Len(Proposal(journal, cmd)) = 3
         /\ Proposal(journal, cmd)[1].kind = "recorded"
         /\ Proposal(journal, cmd)[1].of = CallOf(journal, cmd)
         /\ Proposal(journal, cmd)[1].with \in Tool \X Nat
         /\ Proposal(journal, cmd)[2].kind = "proposed"
         /\ Proposal(journal, cmd)[3].kind = "routed"
         /\ Proposal(journal, cmd)[3].of = CallOf(journal, cmd)
         /\ CallOf(journal, cmd) \in 1..(MaxCalls + Len(journal) + 1)
<1> DEFINE c == CallOf(journal, cmd)
           policy == IF cmd.do = "agent" THEN Policy[cmd.tool] ELSE "ask"
<1>1. MaxCalls \in Nat /\ Len(journal) \in Nat /\ journal \in Seq(Entry)
  BY ToolCallsAssumption DEF EntryInv
<1>2. c \in 1..(MaxCalls + Len(journal) + 1)
  <2>1. CASE cmd.do = "agent"
    BY <2>1, NextCallFacts DEF CallOf
  <2>2. CASE cmd.do # "agent"
    BY <1>1, <2>2, CommandFacts DEF CallOf, Call
  <2> QED BY <2>1, <2>2
<1>3. c \in Tool \cup Nat \cup {None}
  BY <1>1, <1>2
<1>4. cmd.tool \in Tool /\ policy \in Word /\ Leaf(journal) \in Nat
  <2>1. cmd.tool \in Tool
    BY CommandFacts
  <2> QED BY <1>1, <2>1, LeafFacts, ToolCallsAssumption DEF Word
<1> HIDE DEF c, policy
<1>5. Proposal(journal, cmd) = << Event("recorded", c, <<cmd.tool, Leaf(journal)>>),
                                  Event("proposed", c, policy), Event("routed", c, None) >>
  BY DEF Proposal, c, policy
<1>6. <<cmd.tool, Leaf(journal)>> \in Tool \X Nat
  BY <1>4
<1>7. /\ Event("recorded", c, <<cmd.tool, Leaf(journal)>>) \in Entry
      /\ Event("proposed", c, policy) \in Entry
      /\ Event("routed", c, None) \in Entry
  BY <1>3, <1>4, <1>6, EventFacts DEF None, Kind, Word
<1> QED BY <1>2, <1>5, <1>6, <1>7, EventFacts DEF c

(* An outcome is the only event of its command, or follows the dispatch.   *)
Closes(plan, cmd) ==
  \A j \in DOMAIN plan : plan[j].kind = "outcome" =>
    /\ plan[j].of = cmd.of
    /\ \/ cmd.do = "outcome" /\ j = 1
       \/ cmd.do = "hello" /\ j = 2

(* Of the events of a plan, those that move a call on. *)
Moving(plan, cmd) ==
  /\ plan \in Seq(Entry)
  /\ \A j \in DOMAIN plan :
       /\ plan[j].kind = "recorded" =>
            /\ cmd.do \in {"propose", "agent"}
            /\ plan[j].of = CallOf(journal, cmd)
            /\ plan[j].with \in Tool \X Nat
       /\ plan[j].kind = "routed" =>
            \E k \in 1..(j - 1) : plan[k].kind = "recorded" /\ plan[k].of = plan[j].of
       /\ plan[j].kind = "dispatched" =>
            j = 1 /\ plan[j].of = cmd.of /\ cmd.do \in {"hello", "http", "shell", "reserve"}
  /\ Closes(plan, cmd)
  /\ cmd.do \in {"propose", "agent"} =>
       \E j \in DOMAIN plan : plan[j].kind = "recorded" /\ plan[j].of = CallOf(journal, cmd)
  /\ cmd.do = "hello" => Len(plan) = 2 /\ plan[1].kind = "dispatched" /\ plan[2].kind = "outcome"
  /\ cmd.do \in {"http", "shell", "reserve", "outcome"} => Len(plan) = 1
  /\ cmd.do \in {"http", "shell", "reserve"} => plan[1].kind = "dispatched"

LEMMA PlanFacts ==
  ASSUME EntryInv, NEW cmd \in Asked
  PROVE  Moving(Plan(journal, cmd), cmd)
<1> DEFINE plan == Plan(journal, cmd)
           prop == Proposal(journal, cmd)
<1>1. CASE cmd.do = "propose"
  <2>1. plan = prop
    BY <1>1 DEF Plan
  <2>2. \A j \in DOMAIN plan : j \in {1, 2, 3}
    BY <1>1, <2>1, ProposalFacts
  <2>3. 1 \in 1..(3 - 1)
    OBVIOUS
  <2> HIDE DEF plan, prop
  <2> QED BY <1>1, <2>1, <2>2, <2>3, ProposalFacts DEF Moving, Closes, prop, plan
<1>2. CASE cmd.do = "agent"
  <2>0. prop \in Seq(Entry) /\ Len(prop) = 3
    BY <1>2, ProposalFacts
  <2>1. CASE Has(journal, "registered", cmd.tool)
    <3>1. plan = <<>> \o prop
      BY <1>2, <2>1 DEF Plan
    <3>2. plan = prop
      <4> HIDE DEF plan, prop
      <4> QED BY <2>0, <3>1
    <3>3. DOMAIN plan = 1..3
      BY <2>0, <3>2
    <3> HIDE DEF plan, prop
    <3> QED BY <1>2, <3>2, <3>3, ProposalFacts DEF Moving, Closes, prop, plan
  <2>2. CASE ~Has(journal, "registered", cmd.tool)
    <3> DEFINE a == Event("registered", cmd.tool, None)
               b == Event("bound", cmd.tool, None)
    <3>1. plan = <<a, b>> \o prop
      BY <1>2, <2>2 DEF Plan
    <3>2. a \in Entry /\ b \in Entry /\ a.kind = "registered" /\ b.kind = "bound"
      BY <1>2, CommandFacts, EventFacts DEF None, Kind, Word, SetUp
    <3> HIDE DEF plan, prop, a, b
    <3>a. <<a, b>> \in Seq(Entry) /\ Len(<<a, b>>) = 2 /\ <<a, b>>[1] = a /\ <<a, b>>[2] = b
      BY <3>2
    <3> DEFINE d == <<a, b>>
    <3>b. d \in Seq(Entry) /\ Len(d) = 2 /\ d[1] = a /\ d[2] = b /\ plan = d \o prop
      BY <3>1, <3>a
    <3> HIDE DEF d
    <3>c. /\ plan \in Seq(Entry) /\ Len(plan) = Len(d) + Len(prop)
          /\ \A i \in 1..(Len(d) + Len(prop)) : plan[i] = IF i <= Len(d) THEN d[i] ELSE prop[i - Len(d)]
      BY <2>0, <3>b, ConcatProperties
    <3>3. plan \in Seq(Entry) /\ Len(plan) = 5 /\ DOMAIN plan = 1..5
      BY <2>0, <3>b, <3>c
    <3>4. plan[1] = a /\ plan[2] = b /\ plan[3] = prop[1] /\ plan[4] = prop[2] /\ plan[5] = prop[3]
      BY <2>0, <3>b, <3>c
    <3>5. \A j \in DOMAIN plan : j \in {1, 2, 3, 4, 5}
      BY <3>3
    <3>6. 3 \in 1..(5 - 1)
      OBVIOUS
    <3> QED BY <1>2, <3>2, <3>3, <3>4, <3>5, <3>6, ProposalFacts DEF Moving, Closes, prop, plan
  <2> QED BY <2>1, <2>2
<1>3. CASE cmd.do = "hello"
  <2>1. plan = <<Event("dispatched", cmd.of, None), Event("outcome", cmd.of, None)>>
    BY <1>3 DEF Plan
  <2>2. Event("dispatched", cmd.of, None) \in Entry /\ Event("outcome", cmd.of, None) \in Entry
    BY CommandFacts, EventFacts DEF None, Kind, Word
  <2>3. plan \in Seq(Entry) /\ DOMAIN plan = {1, 2} /\ Len(plan) = 2
    BY <2>1, <2>2
  <2> HIDE DEF plan
  <2> QED BY <1>3, <2>1, <2>3, EventFacts DEF Moving, Closes, plan
<1>4. CASE cmd.do \in {"http", "shell", "reserve"}
  <2>1. plan = <<Event("dispatched", cmd.of, None)>>
    BY <1>4 DEF Plan
  <2>2. Event("dispatched", cmd.of, None) \in Entry
    BY CommandFacts, EventFacts DEF None, Kind, Word
  <2>3. plan \in Seq(Entry) /\ DOMAIN plan = {1} /\ Len(plan) = 1
    BY <2>1, <2>2
  <2> HIDE DEF plan
  <2> QED BY <1>4, <2>1, <2>3, EventFacts DEF Moving, Closes, plan
<1>5. CASE cmd.do = "probe"
  <2>1. plan = <<>>
    BY <1>5 DEF Plan
  <2> QED BY <1>5, <2>1 DEF Moving, Closes
<1>6. CASE cmd.do \in SetUp \cup Consent \cup Admission \cup {"outcome"}
  <2>1. plan = <<Event(cmd.do, cmd.of, None)>>
    BY <1>6 DEF Plan, SetUp, Consent, Admission
  <2>2. Event(cmd.do, cmd.of, None) \in Entry
    <3>1. cmd.do \in Kind /\ cmd.of \in Tool \cup Nat \cup {None} /\ None \in Word
      BY <1>6, CommandFacts DEF Kind, Word
    <3> QED BY <3>1, EventFacts
  <2>3. plan \in Seq(Entry) /\ DOMAIN plan = {1} /\ Len(plan) = 1
    BY <2>1, <2>2
  <2> HIDE DEF plan
  <2> QED BY <1>6, <2>1, <2>3, EventFacts DEF Moving, Closes, plan, SetUp, Consent, Admission
<1> QED BY <1>1, <1>2, <1>3, <1>4, <1>5, <1>6, CommandFacts DEF Deed
-----------------------------------------------------------------------------
(* What a step does to the journal. *)

(* The first n events of a command's plan are appended. *)
Appends(cmd, n) ==
  /\ cmd \in Asked /\ Accepts(journal, cmd)
  /\ n \in 0..Len(Plan(journal, cmd))
  /\ journal' = journal \o SubSeq(Plan(journal, cmd), 1, n)

LEMMA AppendedFacts ==
  ASSUME EntryInv, NEW cmd, NEW n, Appends(cmd, n)
  PROVE  /\ journal' \in Seq(Entry)
         /\ Len(journal) \in Nat /\ DOMAIN journal = 1..Len(journal)
         /\ n \in Nat /\ n <= Len(Plan(journal, cmd))
         /\ DOMAIN journal' = 1..(Len(journal) + n)
         /\ \A i \in 1..Len(journal) : journal'[i] = journal[i]
         /\ \A j \in 1..n : journal'[Len(journal) + j] = Plan(journal, cmd)[j] /\ j \in DOMAIN Plan(journal, cmd)
<1> DEFINE plan == Plan(journal, cmd)
           new == SubSeq(plan, 1, n)
<1>1. plan \in Seq(Entry) /\ Len(plan) \in Nat /\ DOMAIN plan = 1..Len(plan)
  BY PlanFacts DEF Moving, Appends
<1>2. n \in 0..Len(plan) /\ journal' = journal \o new /\ journal \in Seq(Entry)
  BY DEF Appends, EntryInv
<1> HIDE DEF plan
<1>3. new \in Seq(Entry) /\ Len(new) = n /\ \A j \in 1..n : new[j] = plan[j]
  BY <1>1, <1>2
<1>4. Len(journal) \in Nat /\ DOMAIN journal = 1..Len(journal)
  BY <1>2
<1> HIDE DEF new
<1>5. /\ journal' \in Seq(Entry) /\ Len(journal') = Len(journal) + n
      /\ \A i \in 1..(Len(journal) + n) :
           journal'[i] = IF i <= Len(journal) THEN journal[i] ELSE new[i - Len(journal)]
  <2>1. journal \o new \in Seq(Entry)
    BY <1>2, <1>3
  <2>2. /\ Len(journal \o new) = Len(journal) + Len(new)
        /\ \A i \in 1..(Len(journal) + Len(new)) :
             (journal \o new)[i] = IF i <= Len(journal) THEN journal[i] ELSE new[i - Len(journal)]
    BY <1>2, <1>3, ConcatProperties
  <2> QED BY <1>2, <1>3, <2>1, <2>2
<1>6. DOMAIN journal' = 1..(Len(journal) + n)
  BY <1>5
<1>7. \A j \in 1..n : journal'[Len(journal) + j] = plan[j] /\ j \in DOMAIN plan
  <2> TAKE j \in 1..n
  <2>1. j \in Nat /\ Len(journal) + j \in 1..(Len(journal) + n) /\ ~(Len(journal) + j <= Len(journal))
        /\ (Len(journal) + j) - Len(journal) = j
    BY <1>2, <1>4
  <2>2. j \in DOMAIN plan
    BY <1>1, <1>2
  <2> QED BY <1>3, <1>5, <2>1, <2>2
<1>8. \A i \in 1..Len(journal) : journal'[i] = journal[i]
  <2> TAKE i \in 1..Len(journal)
  <2>1. i \in 1..(Len(journal) + n) /\ i <= Len(journal)
    BY <1>2, <1>4
  <2> QED BY <1>5, <2>1
<1> QED BY <1>1, <1>2, <1>4, <1>5, <1>6, <1>7, <1>8 DEF plan

(* There is then an event about x if there was, or if the plan has one. *)
LEMMA AppendedIn ==
  ASSUME EntryInv, NEW cmd, NEW n, Appends(cmd, n), NEW kind, NEW x
  PROVE  In(journal', kind, x) <=>
           \/ In(journal, kind, x)
           \/ \E j \in 1..n : Plan(journal, cmd)[j].kind = kind /\ Plan(journal, cmd)[j].of = x
<1> DEFINE plan == Plan(journal, cmd)
<1>1. /\ Len(journal) \in Nat /\ DOMAIN journal = 1..Len(journal) /\ n \in Nat
      /\ DOMAIN journal' = 1..(Len(journal) + n)
      /\ \A i \in 1..Len(journal) : journal'[i] = journal[i]
      /\ \A j \in 1..n : journal'[Len(journal) + j] = plan[j]
  BY AppendedFacts
<1> HIDE DEF plan
<1>2. ASSUME NEW i \in DOMAIN journal', journal'[i].kind = kind, journal'[i].of = x, i \notin DOMAIN journal
      PROVE  \E j \in 1..n : plan[j].kind = kind /\ plan[j].of = x
  <2>1. i - Len(journal) \in 1..n /\ Len(journal) + (i - Len(journal)) = i
    BY <1>1, <1>2
  <2>2. journal'[i] = plan[i - Len(journal)]
    BY <1>1, <2>1
  <2> QED BY <1>2, <2>1, <2>2
<1>3. ASSUME NEW j \in 1..n, plan[j].kind = kind, plan[j].of = x PROVE In(journal', kind, x)
  <2>1. Len(journal) + j \in DOMAIN journal' /\ journal'[Len(journal) + j] = plan[j]
    BY <1>1
  <2> QED BY <1>3, <2>1 DEF In
<1>4. In(journal, kind, x) => In(journal', kind, x)
  <2>1. \A i \in DOMAIN journal : i \in DOMAIN journal'
    BY <1>1
  <2> QED BY <1>1, <2>1 DEF In
<1>5. In(journal', kind, x) => In(journal, kind, x) \/ \E j \in 1..n : plan[j].kind = kind /\ plan[j].of = x
  <2> SUFFICES ASSUME NEW i \in DOMAIN journal', journal'[i].kind = kind, journal'[i].of = x
      PROVE  In(journal, kind, x) \/ \E j \in 1..n : plan[j].kind = kind /\ plan[j].of = x
    BY DEF In
  <2>1. CASE i \in DOMAIN journal
    BY <1>1, <2>1 DEF In
  <2> QED BY <1>2, <2>1
<1> QED BY <1>3, <1>4, <1>5 DEF plan

Rolls == journal' = Append(journal, Event("rollover", None, None))

LEMMA RolledFacts ==
  ASSUME EntryInv, Rolls
  PROVE  /\ journal' \in Seq(Entry)
         /\ Len(journal) \in Nat /\ DOMAIN journal = 1..Len(journal)
         /\ DOMAIN journal' = 1..(Len(journal) + 1)
         /\ \A i \in 1..Len(journal) : journal'[i] = journal[i]
         /\ journal'[Len(journal) + 1].kind = "rollover"
<1>1. Event("rollover", None, None) \in Entry /\ Event("rollover", None, None).kind = "rollover"
  <2>1. "rollover" \in Kind /\ None \in Word
    BY DEF Kind, Word
  <2> QED BY <2>1, EventFacts
<1>2. journal \in Seq(Entry)
  BY DEF EntryInv
<1> QED BY <1>1, <1>2 DEF Rolls

LEMMA RolledIn ==
  ASSUME EntryInv, Rolls, NEW kind, kind # "rollover", NEW x
  PROVE  In(journal', kind, x) <=> In(journal, kind, x)
<1>1. \A i \in DOMAIN journal' : i \in DOMAIN journal \/ i = Len(journal) + 1
  BY RolledFacts
<1>2. \A i \in DOMAIN journal : i \in DOMAIN journal' /\ journal'[i] = journal[i]
  BY RolledFacts
<1> QED BY <1>1, <1>2, RolledFacts DEF In

LEMMA JournalStep ==
  ASSUME ChannelInv, EntryInv, [Next]_vars
  PROVE  \/ journal' = journal
         \/ Rolls
         \/ queue # <<>> /\ \E n \in Nat : Appends(Head(queue), n)
<1>0. queue # <<>> => Head(queue) \in Asked
  BY DEF ChannelInv
<1>1. ASSUME Serve PROVE journal' = journal \/ (queue # <<>> /\ \E n \in Nat : Appends(Head(queue), n))
  <2> DEFINE cmd == Head(queue)
             plan == Plan(journal, cmd)
  <2>1. queue # <<>> /\ cmd \in Asked
    BY <1>0, <1>1 DEF Serve
  <2>2. plan \in Seq(Entry) /\ Len(plan) \in Nat /\ SubSeq(plan, 1, Len(plan)) = plan
    <3>1. plan \in Seq(Entry)
      BY <2>1, PlanFacts DEF Moving
    <3> HIDE DEF plan
    <3> QED BY <3>1
  <2>3. \/ journal' = journal
        \/ Accepts(journal, cmd) /\ journal' = journal \o plan
        \/ Accepts(journal, cmd) /\ \E n \in 0..Len(plan) - 1 : journal' = journal \o SubSeq(plan, 1, n)
    BY <1>1 DEF Serve
  <2>4. CASE Accepts(journal, cmd) /\ journal' = journal \o plan
    <3>1. Appends(cmd, Len(plan))
      BY <2>1, <2>2, <2>4 DEF Appends
    <3> QED BY <2>1, <2>2, <3>1
  <2>5. CASE Accepts(journal, cmd) /\ \E n \in 0..Len(plan) - 1 : journal' = journal \o SubSeq(plan, 1, n)
    <3>1. PICK n \in 0..Len(plan) - 1 : journal' = journal \o SubSeq(plan, 1, n)
      BY <2>5
    <3>2. n \in Nat /\ n \in 0..Len(plan)
      BY <2>2
    <3>3. Appends(cmd, n)
      BY <2>1, <2>5, <3>1, <3>2 DEF Appends
    <3> QED BY <2>1, <3>2, <3>3
  <2> QED BY <2>3, <2>4, <2>5
<1>2. ASSUME Restart PROVE journal' = journal \/ (queue # <<>> /\ \E n \in Nat : Appends(Head(queue), n))
  <2> DEFINE cmd == Head(queue)
             plan == Plan(journal, cmd)
  <2>1. CASE queue # <<>> /\ Accepts(journal, cmd) /\ \E n \in 1..Len(plan) - 1 : journal' = journal \o SubSeq(plan, 1, n)
    <3>0. cmd \in Asked
      BY <1>0, <2>1
    <3>1. PICK n \in 1..Len(plan) - 1 : journal' = journal \o SubSeq(plan, 1, n)
      BY <2>1
    <3>2. Len(plan) \in Nat
      <4>1. plan \in Seq(Entry)
        BY <3>0, PlanFacts DEF Moving
      <4> QED BY <4>1
    <3>3. n \in Nat /\ n \in 0..Len(plan)
      BY <3>2
    <3>4. Appends(cmd, n)
      BY <2>1, <3>0, <3>1, <3>3 DEF Appends
    <3> QED BY <2>1, <3>3, <3>4
  <2> QED BY <1>2, <2>1 DEF Restart
<1>3. ASSUME RollOver PROVE Rolls
  BY <1>3 DEF RollOver, Rolls
<1>4. ASSUME \/ \E c \in Call : ProbeSucceeds(c) \/ ProbeFails(c) \/ CarryOut(c) \/ Report(c) \/ Panic(c)
             \/ UserAsks \/ Hear \/ BeginTurn \/ ModelEnds \/ Stop \/ (\E p \in Tool : ModelAsks(p))
             \/ UNCHANGED vars
      PROVE  journal' = journal
  BY <1>4 DEF ProbeSucceeds, ProbeFails, CarryOut, Report, Panic, UserAsks, Hear, BeginTurn,
     ModelEnds, Stop, ModelAsks, vars
<1> QED BY <1>1, <1>2, <1>3, <1>4 DEF Next

-----------------------------------------------------------------------------
(* What the worker accepts. *)
Good(log, c) ==
  /\ Authorised(log, c)
  /\ SourceFresh(log, c)
  /\ Transport[ToolOf(log, c)] = "stdio" => Previewed(log, c)

LEMMA AcceptedDispatch ==
  ASSUME EntryInv, OrderInv, NEW cmd \in Asked, Accepts(journal, cmd),
         cmd.do \in {"hello", "http", "shell", "reserve"}
  PROVE  /\ Good(journal, cmd.of)
         /\ ~In(journal, "dispatched", cmd.of)
         /\ In(journal, "recorded", cmd.of)
<1> DEFINE c == cmd.of
<1>0. journal \in Seq(Entry) /\ c \in Tool \cup Nat
  BY CommandFacts DEF EntryInv
<1>1. Dispatches(journal, cmd)
  BY DEF Accepts, SetUp
<1>2. CASE cmd.do = "reserve"
  <2>1. Previewed(journal, c)
    BY <1>1, <1>2 DEF Dispatches, StillPreviewed
  <2> QED BY <1>0, <2>1, HasFacts DEF Previewed, Good, Authorised, Unspent, OrderInv
<1>3. CASE cmd.do \in {"hello", "http", "shell"}
  <2>1. Transport[ToolOf(journal, c)] = cmd.do /\ Reservable(journal, c)
    BY <1>1, <1>3 DEF Dispatches
  <2>2. Transport[ToolOf(journal, c)] # "stdio"
    BY <1>3, <2>1
  <2> QED BY <1>0, <2>1, <2>2, HasFacts DEF Reservable, Good, Authorised, Unspent, OrderInv
<1> QED BY <1>2, <1>3

LEMMA AcceptedOutcome ==
  ASSUME EntryInv, NEW cmd \in Asked, Accepts(journal, cmd), cmd.do = "outcome"
  PROVE  In(journal, "dispatched", cmd.of) /\ ~In(journal, "outcome", cmd.of)
<1>0. journal \in Seq(Entry)
  BY DEF EntryInv
<1>1. Decides(journal, cmd)
  BY DEF Accepts, SetUp
<1>2. Has(journal, "dispatched", cmd.of) /\ ~Has(journal, "outcome", cmd.of)
  BY <1>1 DEF Decides, Consent, Admission
<1> QED BY <1>0, <1>2, HasFacts

LEMMA AcceptedProposal ==
  ASSUME EntryInv, NEW cmd \in Asked, Accepts(journal, cmd), cmd.do \in {"propose", "agent"}
  PROVE  ~In(journal, "recorded", CallOf(journal, cmd))
<1>0. journal \in Seq(Entry)
  BY DEF EntryInv
<1>1. CASE cmd.do = "agent"
  BY <1>1, NextCallFacts DEF CallOf
<1>2. CASE cmd.do = "propose"
  <2>1. Proposable(journal, cmd)
    BY <1>2 DEF Accepts, SetUp
  <2>2. ~Has(journal, "recorded", cmd.of)
    BY <1>2, <2>1 DEF Proposable
  <2> QED BY <1>0, <1>2, <2>2, HasFacts DEF CallOf
<1> QED BY <1>1, <1>2
-----------------------------------------------------------------------------
(* The invariant is kept, part by part. *)

LEMMA KeptIn ==
  ASSUME ChannelInv, EntryInv, [Next]_vars, NEW kind, kind # "rollover", NEW x, In(journal, kind, x)
  PROVE  In(journal', kind, x)
<1>1. CASE journal' = journal
  BY <1>1 DEF In
<1>2. CASE Rolls
  BY <1>2, RolledIn
<1>3. ASSUME NEW n \in Nat, Appends(Head(queue), n) PROVE In(journal', kind, x)
  BY <1>3, AppendedIn
<1> QED BY <1>1, <1>2, <1>3, JournalStep

LEMMA EntryStep ==
  ASSUME ChannelInv, EntryInv, [Next]_vars
  PROVE  EntryInv'
<1>1. CASE journal' = journal
  BY <1>1 DEF EntryInv
<1>2. CASE Rolls
  <2>1. /\ journal' \in Seq(Entry)
        /\ \A i \in DOMAIN journal' : journal'[i].kind = "recorded" =>
             i \in DOMAIN journal /\ journal'[i] = journal[i]
    BY <1>2, RolledFacts
  <2> QED BY <2>1 DEF EntryInv
<1>3. ASSUME NEW n \in Nat, Appends(Head(queue), n) PROVE EntryInv'
  <2> DEFINE cmd == Head(queue)
             plan == Plan(journal, cmd)
  <2>0. cmd \in Asked /\ MaxCalls \in Nat
    BY <1>3, ToolCallsAssumption DEF Appends
  <2>1. /\ journal' \in Seq(Entry)
        /\ Len(journal) \in Nat /\ DOMAIN journal = 1..Len(journal)
        /\ DOMAIN journal' = 1..(Len(journal) + n)
        /\ \A i \in 1..Len(journal) : journal'[i] = journal[i]
        /\ \A j \in 1..n : journal'[Len(journal) + j] = plan[j] /\ j \in DOMAIN plan
    BY <1>3, AppendedFacts
  <2>2. \A j \in DOMAIN plan : plan[j].kind = "recorded" =>
          /\ plan[j].of \in 1..(MaxCalls + Len(journal) + 1)
          /\ plan[j].with \in Tool \X Nat
    BY <2>0, PlanFacts, ProposalFacts DEF Moving
  <2> HIDE DEF plan
  <2>3. ASSUME NEW i \in DOMAIN journal', journal'[i].kind = "recorded"
        PROVE  journal'[i].of \in 1..(MaxCalls + i) /\ journal'[i].with \in Tool \X Nat
    <3>1. CASE i \in DOMAIN journal
      BY <2>1, <2>3, <3>1 DEF EntryInv
    <3>2. CASE i \notin DOMAIN journal
      <4>1. i - Len(journal) \in 1..n /\ Len(journal) + (i - Len(journal)) = i /\ Len(journal) + 1 <= i /\ i \in Nat
        BY <2>1, <3>2
      <4>2. journal'[i] = plan[i - Len(journal)] /\ i - Len(journal) \in DOMAIN plan
        BY <2>1, <4>1
      <4>3. journal'[i].of \in 1..(MaxCalls + Len(journal) + 1) /\ journal'[i].with \in Tool \X Nat
        BY <2>2, <2>3, <4>2
      <4> QED BY <2>0, <2>1, <4>1, <4>3
    <3> QED BY <3>1, <3>2
  <2> QED BY <2>1, <2>3 DEF EntryInv
<1> QED BY <1>1, <1>2, <1>3, JournalStep

LEMMA OrderStep ==
  ASSUME ChannelInv, EntryInv, OrderInv, [Next]_vars
  PROVE  OrderInv'
<1>1. CASE journal' = journal
  BY <1>1 DEF OrderInv, In
<1>2. CASE Rolls
  BY <1>2, RolledIn DEF OrderInv
<1>3. ASSUME NEW n \in Nat, Appends(Head(queue), n) PROVE OrderInv'
  <2> DEFINE cmd == Head(queue)
             plan == Plan(journal, cmd)
  <2>0. cmd \in Asked /\ Accepts(journal, cmd) /\ Moving(plan, cmd)
    BY <1>3, PlanFacts DEF Appends
  <2>1. \A kind, x : In(journal', kind, x) <=>
           \/ In(journal, kind, x)
           \/ \E j \in 1..n : plan[j].kind = kind /\ plan[j].of = x
    BY <1>3, AppendedIn
  <2>2. \A j \in 1..n : j \in DOMAIN plan
    BY <1>3, AppendedFacts
  <2>3. cmd.do \in {"hello", "http", "shell", "reserve"} => In(journal, "recorded", cmd.of)
    BY <2>0, AcceptedDispatch
  <2>4. cmd.do = "outcome" => In(journal, "dispatched", cmd.of)
    BY <2>0, AcceptedOutcome
  <2> HIDE DEF plan, cmd
  <2>5. ASSUME NEW c \in Tool \cup Nat \cup {None}, In(journal', "routed", c) PROVE In(journal', "recorded", c)
    <3>1. ASSUME NEW j \in 1..n, plan[j].kind = "routed", plan[j].of = c PROVE In(journal', "recorded", c)
      <4>1. PICK k \in 1..(j - 1) : plan[k].kind = "recorded" /\ plan[k].of = c
        BY <2>0, <2>2, <3>1 DEF Moving
      <4>2. k \in 1..n
        OBVIOUS
      <4> QED BY <2>1, <4>1, <4>2
    <3> QED BY <2>1, <2>5, <3>1 DEF OrderInv
  <2>6. ASSUME NEW c \in Tool \cup Nat \cup {None}, In(journal', "dispatched", c) PROVE In(journal', "recorded", c)
    <3>1. ASSUME NEW j \in 1..n, plan[j].kind = "dispatched", plan[j].of = c PROVE In(journal', "recorded", c)
      BY <2>0, <2>1, <2>2, <2>3, <3>1 DEF Moving
    <3> QED BY <2>1, <2>6, <3>1 DEF OrderInv
  <2>7. ASSUME NEW c \in Tool \cup Nat \cup {None}, In(journal', "outcome", c) PROVE In(journal', "dispatched", c)
    <3>1. ASSUME NEW j \in 1..n, plan[j].kind = "outcome", plan[j].of = c PROVE In(journal', "dispatched", c)
      <4>1. CASE cmd.do = "outcome"
        BY <2>0, <2>1, <2>2, <2>4, <3>1, <4>1 DEF Moving, Closes
      <4>2. CASE cmd.do = "hello" /\ j = 2
        <5>1. 1 \in 1..n /\ 1 \in DOMAIN plan
          BY <2>2, <4>2
        <5>2. plan[1].kind = "dispatched" /\ plan[1].of = cmd.of /\ plan[2].of = cmd.of
          BY <2>0, <2>2, <3>1, <4>2, <5>1 DEF Moving, Closes
        <5> QED BY <2>1, <3>1, <4>2, <5>1, <5>2
      <4> QED BY <2>0, <2>2, <3>1, <4>1, <4>2 DEF Moving, Closes
    <3> QED BY <2>1, <2>7, <3>1 DEF OrderInv
  <2> QED BY <2>5, <2>6, <2>7 DEF OrderInv
<1> QED BY <1>1, <1>2, <1>3, JournalStep

(* What an event found before it does not change. *)
LEMMA PrefixStays ==
  ASSUME NEW S, NEW s \in Seq(S), NEW r \in Seq(S), NEW i \in DOMAIN s,
         Len(s) <= Len(r), \A j \in 1..Len(s) : r[j] = s[j]
  PROVE  SubSeq(r, 1, i - 1) = SubSeq(s, 1, i - 1)
<1>1. Len(s) \in Nat /\ Len(r) \in Nat /\ i \in 1..Len(s) /\ i - 1 \in Nat /\ i - 1 <= Len(s)
  OBVIOUS
<1> DEFINE a == SubSeq(r, 1, i - 1)
           b == SubSeq(s, 1, i - 1)
<1>2. a \in Seq(S) /\ Len(a) = i - 1 /\ \A j \in 1..(i - 1) : a[j] = r[j]
  BY <1>1
<1>3. b \in Seq(S) /\ Len(b) = i - 1 /\ \A j \in 1..(i - 1) : b[j] = s[j]
  BY <1>1
<1>4. \A j \in 1..(i - 1) : j \in 1..Len(s)
  BY <1>1
<1> HIDE DEF a, b
<1>5. Len(a) = Len(b) /\ \A j \in 1..Len(a) : a[j] = b[j]
  <2>1. ASSUME NEW j \in 1..(i - 1) PROVE a[j] = b[j]
    <3>1. a[j] = r[j] /\ b[j] = s[j] /\ j \in 1..Len(s)
      BY <1>2, <1>3, <1>4
    <3> QED BY <3>1
  <2> QED BY <1>2, <1>3, <2>1
<1>6. a = b
  <2> QED BY <1>2, <1>3, <1>5
<1> QED BY <1>6 DEF a, b

LEMMA WholePrefix ==
  ASSUME NEW S, NEW s \in Seq(S), NEW r \in Seq(S),
         Len(s) + 1 \in DOMAIN r, \A j \in 1..Len(s) : r[j] = s[j]
  PROVE  SubSeq(r, 1, (Len(s) + 1) - 1) = s
<1>1. Len(s) \in Nat /\ Len(r) \in Nat /\ Len(s) <= Len(r) /\ (Len(s) + 1) - 1 = Len(s)
  OBVIOUS
<1> DEFINE a == SubSeq(r, 1, Len(s))
<1>2. a \in Seq(S) /\ Len(a) = Len(s) /\ \A j \in 1..Len(s) : a[j] = r[j]
  BY <1>1
<1> HIDE DEF a
<1>3. a = s
  BY <1>1, <1>2
<1> QED BY <1>1, <1>3 DEF a

LEMMA UsedMeans ==
  ASSUME NEW log
  PROVE  (\A i \in DOMAIN log : log[i].kind = "dispatched" => Good(SubSeq(log, 1, i - 1), log[i].of))
         <=> (\A i \in DOMAIN log :
                log[i].kind = "dispatched" =>
                  LET before == SubSeq(log, 1, i - 1)
                      c == log[i].of
                  IN  /\ Authorised(before, c)
                      /\ SourceFresh(before, c)
                      /\ Transport[ToolOf(before, c)] = "stdio" => Previewed(before, c))
BY DEF Good

LEMMA UsedStep ==
  ASSUME ChannelInv, EntryInv, OrderInv, AuthorisedWhenUsed, [Next]_vars
  PROVE  AuthorisedWhenUsed'
<1> DEFINE Used(log) == \A i \in DOMAIN log : log[i].kind = "dispatched" => Good(SubSeq(log, 1, i - 1), log[i].of)
<1>0. Used(journal) /\ journal \in Seq(Entry) /\ Len(journal) \in Nat /\ DOMAIN journal = 1..Len(journal)
  BY UsedMeans DEF AuthorisedWhenUsed, EntryInv
<1>1. CASE journal' = journal
  BY <1>1 DEF AuthorisedWhenUsed
<1>2. ASSUME journal' \in Seq(Entry), Len(journal) <= Len(journal'),
             \A i \in 1..Len(journal) : journal'[i] = journal[i],
             \A i \in DOMAIN journal' : journal'[i].kind = "dispatched" =>
               i \in DOMAIN journal \/ (i = Len(journal) + 1 /\ Good(journal, journal'[i].of))
      PROVE  AuthorisedWhenUsed'
  <2>1. ASSUME NEW i \in DOMAIN journal', journal'[i].kind = "dispatched"
        PROVE  Good(SubSeq(journal', 1, i - 1), journal'[i].of)
    <3>1. CASE i \in DOMAIN journal
      <4>1. SubSeq(journal', 1, i - 1) = SubSeq(journal, 1, i - 1)
        BY <1>0, <1>2, <3>1, PrefixStays
      <4>2. journal'[i] = journal[i]
        BY <1>0, <1>2, <3>1
      <4> QED BY <1>0, <2>1, <3>1, <4>1, <4>2
    <3>2. CASE i = Len(journal) + 1 /\ Good(journal, journal'[i].of)
      <4>1. SubSeq(journal', 1, i - 1) = journal
        BY <1>0, <1>2, <3>2, WholePrefix
      <4> QED BY <3>2, <4>1
    <3> QED BY <1>2, <2>1, <3>1, <3>2
  <2>2. Used(journal')
    BY <2>1
  <2> HIDE DEF Used
  <2> QED BY <2>2, UsedMeans DEF AuthorisedWhenUsed, Used
<1>3. CASE Rolls
  <2>1. /\ journal' \in Seq(Entry) /\ DOMAIN journal' = 1..(Len(journal) + 1)
        /\ \A i \in 1..Len(journal) : journal'[i] = journal[i]
        /\ journal'[Len(journal) + 1].kind = "rollover"
    BY <1>3, RolledFacts
  <2>2. Len(journal') = Len(journal) + 1
    BY <1>0, <2>1
  <2> QED BY <1>0, <1>2, <2>1, <2>2
<1>4. ASSUME NEW n \in Nat, Appends(Head(queue), n) PROVE AuthorisedWhenUsed'
  <2> DEFINE cmd == Head(queue)
             plan == Plan(journal, cmd)
  <2>0. cmd \in Asked /\ Accepts(journal, cmd) /\ Moving(plan, cmd)
    BY <1>4, PlanFacts DEF Appends
  <2>1. /\ journal' \in Seq(Entry)
        /\ DOMAIN journal' = 1..(Len(journal) + n)
        /\ \A i \in 1..Len(journal) : journal'[i] = journal[i]
        /\ \A j \in 1..n : journal'[Len(journal) + j] = plan[j] /\ j \in DOMAIN plan
    BY <1>4, AppendedFacts
  <2>2. Len(journal') = Len(journal) + n
    BY <1>0, <2>1
  <2>3. cmd.do \in {"hello", "http", "shell", "reserve"} => Good(journal, cmd.of)
    BY <2>0, AcceptedDispatch
  <2> HIDE DEF plan, cmd
  <2>4. ASSUME NEW i \in DOMAIN journal', journal'[i].kind = "dispatched", i \notin DOMAIN journal
        PROVE  i = Len(journal) + 1 /\ Good(journal, journal'[i].of)
    <3>1. i - Len(journal) \in 1..n /\ Len(journal) + (i - Len(journal)) = i /\ i \in Nat
      BY <1>0, <2>1, <2>4
    <3>2. journal'[i] = plan[i - Len(journal)] /\ i - Len(journal) \in DOMAIN plan
      BY <2>1, <3>1
    <3>3. i - Len(journal) = 1 /\ journal'[i].of = cmd.of /\ cmd.do \in {"hello", "http", "shell", "reserve"}
      BY <2>0, <2>4, <3>2 DEF Moving
    <3>4. i = Len(journal) + 1
      BY <1>0, <3>1, <3>3
    <3> QED BY <2>3, <3>3, <3>4
  <2> QED BY <1>0, <1>2, <2>1, <2>2, <2>4
<1> QED BY <1>1, <1>3, <1>4, JournalStep

LEMMA HeardStays ==
  ASSUME ChannelInv, EntryInv, [Next]_vars
  PROVE  notices \in Seq(Heard(journal'))
<1>1. Heard(journal) \subseteq Heard(journal')
  <2> SUFFICES ASSUME NEW n \in Heard(journal) PROVE n \in Heard(journal')
    OBVIOUS
  <2>1. In(journal, "recorded", n.call) => In(journal', "recorded", n.call)
    BY KeptIn
  <2> QED BY <2>1 DEF Heard
<1>2. notices \in Seq(Heard(journal))
  BY DEF ChannelInv
<1> HIDE DEF Heard
<1> QED BY <1>1, <1>2

LEMMA FailedHeard ==
  ASSUME NEW log, NEW do \in Deed \cup {"panic"}, NEW of \in Tool \cup Nat
  PROVE  Notice(FALSE, do, of, 0, {}) \in Heard(log)
<1> DEFINE n == Notice(FALSE, do, of, 0, {})
<1>1. n \in [ok : BOOLEAN, do : Deed \cup {"panic"}, of : Tool \cup Nat, call : Tool \cup Nat, shown : SUBSET Nat]
  BY DEF Notice
<1>2. ~n.ok
  BY DEF Notice
<1> QED BY <1>1, <1>2 DEF Heard

LEMMA CommandAsked ==
  ASSUME NEW do \in Deed \ {"propose", "agent"}, NEW of \in Tool \cup Nat
  PROVE  Command(do, of, None) \in Asked /\ Command(do, of, None).do = do /\ Command(do, of, None).of = of
<1>1. Command(do, of, None) \in Cmd
  BY DEF Command, Cmd, Deed
<1> QED BY <1>1 DEF Asked, Command

(* How the window runs a recorded call. *)
LEMMA RunAsked ==
  ASSUME EntryInv, NEW c, In(journal, "recorded", c)
  PROVE  /\ RunCommand(c) \in Asked
         /\ RunCommand(c).do # "outcome"
<1>1. ToolOf(journal, c) \in Tool /\ c \in Nat
  BY Recording
<1>2. Transport[ToolOf(journal, c)] \in {"hello", "shell", "http", "stdio"}
  BY <1>1, ToolCallsAssumption
<1> DEFINE t == Transport[ToolOf(journal, c)]
           do == IF t = "stdio" THEN "probe" ELSE t
<1>3. do \in {"probe", "hello", "shell", "http"}
  BY <1>2
<1>4. RunCommand(c) = Command(do, c, None)
  BY DEF RunCommand
<1> HIDE DEF do, t
<1> QED BY <1>1, <1>3, <1>4, CommandAsked DEF Deed

LEMMA UserAsked ==
  ASSUME EntryInv, NEW cmd \in UserCommands
  PROVE  cmd \in Asked /\ cmd.do # "outcome"
<1> DEFINE P(x) == x \in Asked /\ x.do # "outcome"
<1>1. ASSUME NEW do \in SetUp, NEW p \in Tool PROVE P(Command(do, p, None))
  BY <1>1, CommandAsked DEF Deed, SetUp
<1>2. ASSUME NEW do \in Consent \cup Admission, NEW c \in Call PROVE P(Command(do, c, None))
  <2>1. c \in Nat
    BY DEF Call
  <2> QED BY <1>2, <2>1, CommandAsked DEF Deed, Consent, Admission
<1>3. ASSUME NEW c \in Call, NEW p \in Tool PROVE P(Command("propose", c, p))
  BY <1>3 DEF Asked, Cmd, Command, Call
<1>4. ASSUME NEW c \in Call, Has(journal, "recorded", c) PROVE P(RunCommand(c))
  <2>1. In(journal, "recorded", c)
    BY <1>4, HasFacts DEF EntryInv
  <2> QED BY <2>1, RunAsked
<1>5. \/ \E do \in {"registered", "bound", "configured"}, p \in Tool : cmd = Command(do, p, None)
      \/ \E do \in Activation, p \in Tool : cmd = Command(do, p, None)
      \/ \E c \in Call, p \in Tool : cmd = Command("propose", c, p)
      \/ \E do \in Consent, c \in Call : cmd = Command(do, c, None)
      \/ \E c \in Call : Has(journal, "recorded", c) /\ cmd = RunCommand(c)
      \/ \E do \in Admission, c \in Call : cmd = Command(do, c, None)
  BY DEF UserCommands
<1>6. {"registered", "bound", "configured"} \subseteq SetUp /\ Activation \subseteq SetUp
  BY DEF SetUp, Activation
<1> HIDE DEF P
<1>7. P(cmd)
  BY <1>1, <1>2, <1>3, <1>4, <1>5, <1>6
<1> QED BY <1>7 DEF P

LEMMA ServedHeard ==
  ASSUME ChannelInv, EntryInv, [Next]_vars, NEW cmd \in Asked, Accepts(journal, cmd),
         journal' = journal \o Plan(journal, cmd),
         NEW shown \in SUBSET Nat
  PROVE  Notice(TRUE, cmd.do, cmd.of, CallOf(journal, cmd), shown) \in Heard(journal')
<1> DEFINE plan == Plan(journal, cmd)
           call == CallOf(journal, cmd)
           n == Notice(TRUE, cmd.do, cmd.of, call, shown)
<1>1. Moving(plan, cmd)
  BY PlanFacts
<1>2. plan \in Seq(Entry) /\ Len(plan) \in Nat /\ SubSeq(plan, 1, Len(plan)) = plan /\ DOMAIN plan = 1..Len(plan)
  <2>1. plan \in Seq(Entry)
    BY <1>1 DEF Moving
  <2> HIDE DEF plan
  <2> QED BY <2>1
<1>3. Appends(cmd, Len(plan))
  BY <1>2 DEF Appends
<1>4. call \in Tool \cup Nat
  <2>1. MaxCalls \in Nat /\ Len(journal) \in Nat
    BY ToolCallsAssumption DEF EntryInv
  <2>2. CASE cmd.do = "agent"
    BY <2>1, <2>2, NextCallFacts DEF CallOf
  <2>3. CASE cmd.do # "agent"
    BY <2>3, CommandFacts DEF CallOf
  <2> QED BY <2>2, <2>3
<1>5. n \in [ok : BOOLEAN, do : Deed \cup {"panic"}, of : Tool \cup Nat, call : Tool \cup Nat, shown : SUBSET Nat]
  BY <1>4, CommandFacts DEF Notice
<1>6. n.do = cmd.do /\ n.call = call
  BY DEF Notice
<1>7. cmd.do = "agent" => In(journal', "recorded", call)
  <2> HAVE cmd.do = "agent"
  <2>1. PICK j \in DOMAIN plan : plan[j].kind = "recorded" /\ plan[j].of = call
    BY <1>1 DEF Moving
  <2>2. j \in 1..Len(plan)
    BY <1>2
  <2> QED BY <1>2, <1>3, <2>1, <2>2, AppendedIn
<1> HIDE DEF n
<1>8. n \in Heard(journal')
  BY <1>5, <1>6, <1>7 DEF Heard
<1> QED BY <1>8 DEF n

(* Hearing takes a notice and sends at most one command on its account. *)
LEMMA HearSends ==
  ASSUME ChannelInv, EntryInv, Hear
  PROVE  /\ notices # <<>> /\ notices' = Tail(notices)
         /\ \/ queue' = queue
            \/ \E cmd \in Asked : cmd.do # "outcome" /\ queue' = Append(queue, cmd)
<1> DEFINE n == Head(notices)
<1>1. notices # <<>> /\ notices' = Tail(notices) /\ n \in Heard(journal)
  BY DEF Hear, ChannelInv
<1>2. \/ HearFailure(n) \/ HearDone(n) \/ HearProposed(n)
      \/ HearDispatched(n) \/ HearOutcome(n) \/ HearAdmission(n)
  BY DEF Hear
<1> HIDE DEF n
<1>3. CASE HearProposed(n)
  <2>1. In(journal, "recorded", n.call)
    BY <1>1, <1>3 DEF HearProposed, Heard
  <2>2. queue' = queue \/ queue' = Append(queue, RunCommand(n.call))
    BY <1>3 DEF HearProposed
  <2> QED BY <1>1, <2>1, <2>2, RunAsked DEF n
<1>4. CASE HearOutcome(n)
  <2>1. n.call \in Tool \cup Nat
    BY <1>1 DEF Heard
  <2>2. queue' = queue \/ queue' = Append(queue, Command("admitted", n.call, None))
    BY <1>4 DEF HearOutcome
  <2>3. Command("admitted", n.call, None) \in Asked /\ Command("admitted", n.call, None).do # "outcome"
    BY <2>1, CommandAsked DEF Deed, Admission
  <2> QED BY <1>1, <2>2, <2>3
<1>5. CASE HearFailure(n) \/ HearDone(n) \/ HearDispatched(n) \/ HearAdmission(n)
  BY <1>1, <1>5 DEF HearFailure, HearDone, HearDispatched, HearAdmission
<1> QED BY <1>2, <1>3, <1>4, <1>5

(* What reaches the queue, and from whom. *)
LEMMA QueueStep ==
  ASSUME ChannelInv, EntryInv, [Next]_vars
  PROVE  \/ queue' = queue \/ queue' = <<>>
         \/ queue # <<>> /\ queue' = Tail(queue)
         \/ \E cmd \in Asked : /\ queue' = Append(queue, cmd)
                               /\ \/ cmd.do # "outcome"
                                  \/ \E c \in Call : c \in reporting /\ cmd = Command("outcome", c, None)
<1>1. CASE Serve \/ Restart
  BY <1>1 DEF Serve, Restart
<1>2. ASSUME NEW c \in Call, ProbeSucceeds(c) \/ Report(c) PROVE
        \E cmd \in Asked : /\ queue' = Append(queue, cmd)
                           /\ \/ cmd.do # "outcome"
                              \/ \E d \in Call : d \in reporting /\ cmd = Command("outcome", d, None)
  <2>0. c \in Nat
    BY DEF Call
  <2>1. CASE ProbeSucceeds(c)
    <3>1. queue' = Append(queue, Command("reserve", c, None))
      BY <2>1 DEF ProbeSucceeds
    <3>2. Command("reserve", c, None) \in Asked /\ Command("reserve", c, None).do # "outcome"
      BY <2>0, CommandAsked DEF Deed
    <3> QED BY <3>1, <3>2
  <2>2. CASE Report(c)
    <3>1. queue' = Append(queue, Command("outcome", c, None)) /\ c \in reporting
      BY <2>2 DEF Report
    <3>2. Command("outcome", c, None) \in Asked
      BY <2>0, CommandAsked DEF Deed
    <3> QED BY <2>2, <3>1, <3>2
  <2> QED BY <1>2, <2>1, <2>2
<1>3. CASE UserAsks
  <2>1. PICK cmd \in UserCommands : queue' = Append(queue, cmd)
    BY <1>3 DEF UserAsks
  <2> QED BY <2>1, UserAsked
<1>4. CASE Hear
  BY <1>4, HearSends
<1>5. ASSUME NEW p \in Tool, ModelAsks(p) PROVE
        queue' = queue \/ \E cmd \in Asked : cmd.do # "outcome" /\ queue' = Append(queue, cmd)
  <2>1. queue' = queue \/ queue' = Append(queue, Command("agent", turn, p))
    BY <1>5 DEF ModelAsks
  <2>2. Command("agent", turn, p) \in Asked /\ Command("agent", turn, p).do # "outcome"
    BY DEF Command, Asked, Cmd, ChannelInv
  <2> QED BY <2>1, <2>2
<1>6. ASSUME \/ \E c \in Call : ProbeFails(c) \/ CarryOut(c) \/ Panic(c)
             \/ RollOver \/ BeginTurn \/ ModelEnds \/ Stop \/ UNCHANGED vars
      PROVE  queue' = queue
  BY <1>6 DEF ProbeFails, CarryOut, Panic, RollOver, BeginTurn, ModelEnds, Stop, vars
<1> QED BY <1>1, <1>2, <1>3, <1>4, <1>5, <1>6 DEF Next

LEMMA NoticeStep ==
  ASSUME ChannelInv, EntryInv, [Next]_vars
  PROVE  \/ notices' = notices \/ notices' = <<>>
         \/ notices # <<>> /\ notices' = Tail(notices)
         \/ \E n \in Heard(journal') : notices' = Append(notices, n)
<1>1. CASE Serve
  <2> DEFINE cmd == Head(queue)
             plan == Plan(journal, cmd)
             new == Len(journal) + 1 .. Len(journal) + Len(plan)
  <2>1. cmd \in Asked /\ cmd.do \in Deed \cup {"panic"} /\ cmd.of \in Tool \cup Nat
    <3>1. cmd \in Asked
      BY <1>1 DEF Serve, ChannelInv
    <3> QED BY <3>1, CommandFacts
  <2>2. \/ notices' = notices
        \/ /\ Accepts(journal, cmd) /\ journal' = journal \o plan
           /\ notices' = Append(notices, Notice(TRUE, cmd.do, cmd.of, CallOf(journal, cmd), new))
        \/ notices' = Append(notices, Notice(FALSE, cmd.do, cmd.of, 0, {}))
    BY <1>1 DEF Serve, Tell, Fail
  <2>3. new \in SUBSET Nat
    <3>1. plan \in Seq(Entry)
      BY <2>1, PlanFacts DEF Moving
    <3>2. journal \in Seq(Entry)
      BY DEF EntryInv
    <3> HIDE DEF plan
    <3> QED BY <3>1, <3>2
  <2> HIDE DEF new
  <2>4. CASE /\ Accepts(journal, cmd) /\ journal' = journal \o plan
             /\ notices' = Append(notices, Notice(TRUE, cmd.do, cmd.of, CallOf(journal, cmd), new))
    BY <2>1, <2>3, <2>4, ServedHeard
  <2>5. CASE notices' = Append(notices, Notice(FALSE, cmd.do, cmd.of, 0, {}))
    <3>1. Notice(FALSE, cmd.do, cmd.of, 0, {}) \in Heard(journal')
      BY <2>1, FailedHeard
    <3> QED BY <2>5, <3>1
  <2> QED BY <2>2, <2>4, <2>5
<1>2. ASSUME NEW c \in Call, ProbeFails(c) \/ Panic(c) PROVE \E n \in Heard(journal') : notices' = Append(notices, n)
  <2>1. c \in Tool \cup Nat /\ "probe" \in Deed \cup {"panic"} /\ "panic" \in Deed \cup {"panic"}
    BY DEF Call, Deed
  <2>2. \E do \in Deed \cup {"panic"} : notices' = Append(notices, Notice(FALSE, do, c, 0, {}))
    BY <1>2, <2>1 DEF ProbeFails, Panic, Fail, Tell
  <2> QED BY <2>1, <2>2, FailedHeard
<1>3. CASE Hear \/ Restart
  BY <1>3 DEF Hear, Restart
<1>4. ASSUME \/ \E c \in Call : ProbeSucceeds(c) \/ CarryOut(c) \/ Report(c)
             \/ RollOver \/ UserAsks \/ BeginTurn \/ ModelEnds \/ Stop \/ (\E p \in Tool : ModelAsks(p))
             \/ UNCHANGED vars
      PROVE  notices' = notices
  BY <1>4 DEF ProbeSucceeds, CarryOut, Report, RollOver, UserAsks, BeginTurn, ModelEnds, Stop, ModelAsks, vars
<1> QED BY <1>1, <1>2, <1>3, <1>4 DEF Next

LEMMA LineStep ==
  ASSUME NEW S, NEW q \in Seq(S), NEW r,
         \/ r = q \/ r = <<>>
         \/ q # <<>> /\ r = Tail(q)
         \/ \E x \in S : r = Append(q, x)
  PROVE  r \in Seq(S)
<1>1. CASE q # <<>> /\ r = Tail(q)
  BY <1>1
<1>2. CASE \E x \in S : r = Append(q, x)
  BY <1>2
<1>3. CASE r = <<>>
  BY <1>3, EmptySeq
<1> QED BY <1>1, <1>2, <1>3

LEMMA ChannelStep ==
  ASSUME ChannelInv, EntryInv, [Next]_vars
  PROVE  ChannelInv'
<1>1. queue' \in Seq(Asked)
  <2>1. queue \in Seq(Asked)
    BY DEF ChannelInv
  <2>2. \/ queue' = queue \/ queue' = <<>>
        \/ queue # <<>> /\ queue' = Tail(queue)
        \/ \E cmd \in Asked : queue' = Append(queue, cmd)
    BY QueueStep
  <2> QED BY <2>1, <2>2, LineStep
<1>2. notices' \in Seq(Heard(journal'))
  <2> DEFINE H == Heard(journal')
  <2>1. notices \in Seq(H)
    BY HeardStays
  <2>2. \/ notices' = notices \/ notices' = <<>>
        \/ notices # <<>> /\ notices' = Tail(notices)
        \/ \E n \in H : notices' = Append(notices, n)
    BY NoticeStep
  <2> HIDE DEF H
  <2>3. notices' \in Seq(H)
    BY <2>1, <2>2, LineStep
  <2> QED BY <2>3 DEF H
<1>3. turn' = turn \/ turn' = turn + 1
  BY DEF Next, Serve, RollOver, ProbeSucceeds, ProbeFails, CarryOut, Report, Panic, UserAsks, Hear,
     BeginTurn, ModelEnds, Stop, Restart, ModelAsks, window, vars
<1> QED BY <1>1, <1>2, <1>3 DEF ChannelInv

(* The outcome a plan brings is the last of its events. *)
LEMMA NewOutcome ==
  ASSUME EntryInv, NEW cmd, NEW n, Appends(cmd, n), NEW c,
         In(journal', "outcome", c), ~In(journal, "outcome", c)
  PROVE  /\ c = cmd.of /\ cmd.do \in {"outcome", "hello"}
         /\ n = Len(Plan(journal, cmd))
<1> DEFINE plan == Plan(journal, cmd)
<1>1. Moving(plan, cmd)
  BY PlanFacts DEF Appends
<1>2. n \in Nat /\ n <= Len(plan) /\ \A j \in 1..n : j \in DOMAIN plan
  BY AppendedFacts
<1>3. PICK j \in 1..n : plan[j].kind = "outcome" /\ plan[j].of = c
  BY AppendedIn
<1> HIDE DEF plan
<1>4. j \in DOMAIN plan /\ Closes(plan, cmd)
  BY <1>1, <1>2 DEF Moving
<1>a. c = cmd.of /\ ((cmd.do = "outcome" /\ j = 1) \/ (cmd.do = "hello" /\ j = 2))
  BY <1>3, <1>4 DEF Closes
<1>5. CASE cmd.do = "outcome" /\ j = 1
  <2>1. Len(plan) = 1
    BY <1>1, <1>5 DEF Moving
  <2> QED BY <1>2, <1>a, <1>5, <2>1 DEF plan
<1>6. CASE cmd.do = "hello" /\ j = 2
  <2>1. Len(plan) = 2
    BY <1>1, <1>6 DEF Moving
  <2> QED BY <1>2, <1>a, <1>6, <2>1 DEF plan
<1> QED BY <1>a, <1>5, <1>6

(* A plan that uses a call up does so with its first event. *)
LEMMA NewDispatch ==
  ASSUME EntryInv, NEW cmd, Appends(cmd, Len(Plan(journal, cmd))),
         cmd.do \in {"hello", "http", "shell", "reserve"}
  PROVE  In(journal', "dispatched", cmd.of)
<1> DEFINE plan == Plan(journal, cmd)
<1>1. Moving(plan, cmd)
  BY PlanFacts DEF Appends
<1>2. Len(plan) \in 1..2 /\ plan[1].kind = "dispatched"
  BY <1>1 DEF Moving
<1>3. 1 \in 1..Len(plan) /\ 1 \in DOMAIN plan
  BY <1>2, AppendedFacts
<1>4. plan[1].of = cmd.of
  BY <1>1, <1>2, <1>3 DEF Moving
<1> HIDE DEF plan
<1> QED BY <1>2, <1>3, <1>4, AppendedIn DEF plan

Outcomes(q, done) == \A i \in DOMAIN q : q[i].do = "outcome" => q[i].of \in Call /\ done[q[i].of] = 1

LEMMA OutcomesStep ==
  ASSUME ChannelInv, EntryInv, RanInv, [Next]_vars,
         \A c \in Call : ran[c] = 1 => ran'[c] = 1
  PROVE  Outcomes(queue', ran')
<1>1. Outcomes(queue, ran') /\ queue \in Seq(Asked)
  BY DEF RanInv, ChannelInv, Outcomes
<1>2. CASE queue' = queue
  BY <1>1, <1>2 DEF Outcomes
<1>3. CASE queue' = <<>>
  BY <1>3 DEF Outcomes
<1>4. CASE queue # <<>> /\ queue' = Tail(queue)
  <2>1. \A i \in DOMAIN queue' : i + 1 \in DOMAIN queue /\ queue'[i] = queue[i + 1]
    BY <1>1, <1>4
  <2> QED BY <1>1, <2>1 DEF Outcomes
<1>5. ASSUME NEW cmd \in Asked, queue' = Append(queue, cmd),
             \/ cmd.do # "outcome"
             \/ \E c \in Call : c \in reporting /\ cmd = Command("outcome", c, None)
      PROVE  Outcomes(queue', ran')
  <2>1. cmd.do = "outcome" => cmd.of \in Call /\ ran'[cmd.of] = 1
    BY <1>5 DEF RanInv, Command
  <2>2. \A i \in DOMAIN queue' : (i \in DOMAIN queue /\ queue'[i] = queue[i]) \/ queue'[i] = cmd
    BY <1>1, <1>5
  <2> QED BY <1>1, <2>1, <2>2 DEF Outcomes
<1> QED BY <1>2, <1>3, <1>4, <1>5, QueueStep

(* How often the calls have been carried out, and what the threads hold,   *)
(* given what became of the journal.                                       *)
RanCore ==
  /\ ran \in [Call -> 0..1]
  /\ \A c \in Call :
       /\ ran[c] = 1 => In(journal, "dispatched", c)
       /\ In(journal, "outcome", c) => ran[c] = 1
       /\ c \in running => In(journal, "dispatched", c) /\ ran[c] = 0
       /\ c \in reporting => ran[c] = 1

LEMMA CoreKept ==
  ASSUME RanCore, ran' = ran, running' \subseteq running, reporting' \subseteq reporting,
         \A c : In(journal, "dispatched", c) => In(journal', "dispatched", c),
         \A c : In(journal', "outcome", c) => In(journal, "outcome", c)
  PROVE  RanCore'
BY DEF RanCore

LEMMA ServedCore ==
  ASSUME ChannelInv, EntryInv, OrderInv, RanInv, [Next]_vars, RanCore, queue # <<>>,
         Appends(Head(queue), Len(Plan(journal, Head(queue)))),
         reporting' = reporting,
         running' = IF Head(queue).do \in {"http", "shell", "reserve"}
                    THEN running \cup {Head(queue).of} ELSE running,
         ran' = IF Head(queue).do = "hello" THEN [ran EXCEPT ![Head(queue).of] = @ + 1] ELSE ran
  PROVE  RanCore' /\ \A c \in Call : ran[c] = 1 => ran'[c] = 1
<1> DEFINE cmd == Head(queue)
<1>0. cmd = queue[1] /\ 1 \in DOMAIN queue
  BY DEF ChannelInv
<1>1. cmd \in Asked /\ Accepts(journal, cmd)
  BY DEF Appends
<1>2. \A c : In(journal, "dispatched", c) => In(journal', "dispatched", c)
  BY KeptIn
<1>3. \A c : In(journal', "outcome", c) => In(journal, "outcome", c) \/ (c = cmd.of /\ cmd.do \in {"outcome", "hello"})
  BY NewOutcome
<1>4. cmd.do = "outcome" => cmd.of \in Call /\ ran[cmd.of] = 1
  BY <1>0 DEF RanInv
<1>5. cmd.do \in {"hello", "http", "shell", "reserve"} =>
        In(journal', "dispatched", cmd.of) /\ ~In(journal, "dispatched", cmd.of)
  BY <1>1, NewDispatch, AcceptedDispatch
<1> HIDE DEF cmd
<1>6. CASE cmd.do = "hello"
  <2>0. ran' = [ran EXCEPT ![cmd.of] = @ + 1] /\ running' = running
    BY <1>6 DEF cmd
  <2>1. cmd.of \in Call => ran[cmd.of] = 0 /\ cmd.of \notin running /\ cmd.of \notin reporting
    BY <1>5, <1>6 DEF RanCore
  <2>2. /\ ran' \in [Call -> 0..1]
        /\ \A c \in Call : ran'[c] = IF c = cmd.of THEN 1 ELSE ran[c]
    <3>1. CASE cmd.of \in Call
      BY <2>0, <2>1, <3>1 DEF RanCore
    <3>2. CASE cmd.of \notin Call
      BY <2>0, <3>2 DEF RanCore
    <3> QED BY <3>1, <3>2
  <2> QED BY <1>2, <1>3, <1>5, <1>6, <2>0, <2>1, <2>2 DEF RanCore
<1>7. CASE cmd.do \in {"http", "shell", "reserve"}
  <2>0. ran' = ran /\ running' = running \cup {cmd.of}
    BY <1>7 DEF cmd
  <2>1. cmd.of \in Call => ran[cmd.of] = 0
    BY <1>5, <1>7 DEF RanCore
  <2> QED BY <1>2, <1>3, <1>5, <1>7, <2>0, <2>1 DEF RanCore
<1>8. CASE cmd.do \notin {"hello", "http", "shell", "reserve"}
  <2>0. ran' = ran /\ running' = running
    BY <1>8 DEF cmd
  <2> QED BY <1>2, <1>3, <1>4, <1>8, <2>0 DEF RanCore
<1> QED BY <1>6, <1>7, <1>8

LEMMA RanStep ==
  ASSUME ChannelInv, EntryInv, OrderInv, RanInv, [Next]_vars
  PROVE  RanInv'
<1>0. RanCore
  BY DEF RanInv, RanCore
<1>1. \A c : In(journal, "dispatched", c) => In(journal', "dispatched", c)
  BY KeptIn
<1> DEFINE Kept == RanCore' /\ \A c \in Call : ran[c] = 1 => ran'[c] = 1
<1>2. ASSUME journal' = journal, ran' = ran, running' \subseteq running, reporting' \subseteq reporting
      PROVE  Kept
  <2>1. \A c : In(journal', "outcome", c) => In(journal, "outcome", c)
    BY <1>2 DEF In
  <2>2. RanCore'
    BY <1>0, <1>1, <1>2, <2>1, CoreKept
  <2> QED BY <1>2, <2>2
<1>3. ASSUME NEW cmd, NEW n, Appends(cmd, n), n < Len(Plan(journal, cmd)),
             ran' = ran, running' \subseteq running, reporting' \subseteq reporting
      PROVE  Kept
  <2>1. \A c : In(journal', "outcome", c) => In(journal, "outcome", c)
    <3>1. n # Len(Plan(journal, cmd))
      BY <1>3, AppendedFacts
    <3> QED BY <1>3, <3>1, NewOutcome
  <2>2. RanCore'
    BY <1>0, <1>1, <1>3, <2>1, CoreKept
  <2> QED BY <1>3, <2>2
<1>4. ASSUME queue # <<>>
      PROVE  LET cmd == Head(queue)
                 plan == Plan(journal, cmd)
             IN  /\ cmd \in Asked /\ plan \in Seq(Entry) /\ Len(plan) \in Nat
                 /\ SubSeq(plan, 1, Len(plan)) = plan
                 /\ Len(plan) \in 0..Len(plan)
  <2> DEFINE cmd == Head(queue)
             plan == Plan(journal, cmd)
  <2>1. cmd \in Asked
    BY <1>4 DEF ChannelInv
  <2>2. plan \in Seq(Entry)
    BY <2>1, PlanFacts DEF Moving
  <2> HIDE DEF plan
  <2>3. Len(plan) \in Nat /\ SubSeq(plan, 1, Len(plan)) = plan /\ Len(plan) \in 0..Len(plan)
    BY <2>2
  <2> QED BY <2>1, <2>2, <2>3 DEF plan
<1>5. ASSUME Serve PROVE Kept
  <2> DEFINE cmd == Head(queue)
             plan == Plan(journal, cmd)
  <2>0. /\ queue # <<>> /\ cmd \in Asked /\ plan \in Seq(Entry) /\ Len(plan) \in Nat
        /\ SubSeq(plan, 1, Len(plan)) = plan /\ Len(plan) \in 0..Len(plan)
    BY <1>4, <1>5 DEF Serve
  <2>1. \/ /\ Accepts(journal, cmd) /\ journal' = journal \o plan /\ reporting' = reporting
           /\ running' = IF cmd.do \in {"http", "shell", "reserve"} THEN running \cup {cmd.of} ELSE running
           /\ ran' = IF cmd.do = "hello" THEN [ran EXCEPT ![cmd.of] = @ + 1] ELSE ran
        \/ journal' = journal /\ ran' = ran /\ running' = running /\ reporting' = reporting
        \/ /\ Accepts(journal, cmd) /\ ran' = ran /\ running' = running /\ reporting' = reporting
           /\ \E n \in 0..Len(plan) - 1 : journal' = journal \o SubSeq(plan, 1, n)
    BY <1>5 DEF Serve, threads
  <2>2. CASE /\ Accepts(journal, cmd) /\ journal' = journal \o plan /\ reporting' = reporting
             /\ running' = IF cmd.do \in {"http", "shell", "reserve"} THEN running \cup {cmd.of} ELSE running
             /\ ran' = IF cmd.do = "hello" THEN [ran EXCEPT ![cmd.of] = @ + 1] ELSE ran
    <3>1. Appends(cmd, Len(plan))
      BY <2>0, <2>2 DEF Appends
    <3> QED BY <1>0, <2>0, <2>2, <3>1, ServedCore
  <2>3. CASE journal' = journal /\ ran' = ran /\ running' = running /\ reporting' = reporting
    BY <1>2, <2>3
  <2>4. CASE /\ Accepts(journal, cmd) /\ ran' = ran /\ running' = running /\ reporting' = reporting
             /\ \E n \in 0..Len(plan) - 1 : journal' = journal \o SubSeq(plan, 1, n)
    <3>1. PICK n \in 0..Len(plan) - 1 : journal' = journal \o SubSeq(plan, 1, n)
      BY <2>4
    <3>2. n \in 0..Len(plan) /\ n < Len(plan)
      BY <2>0
    <3>3. Appends(cmd, n)
      BY <2>0, <2>4, <3>1, <3>2 DEF Appends
    <3> QED BY <1>3, <2>4, <3>2, <3>3
  <2> QED BY <2>1, <2>2, <2>3, <2>4
<1>6. ASSUME Restart PROVE Kept
  <2> DEFINE cmd == Head(queue)
             plan == Plan(journal, cmd)
  <2>1. ran' = ran /\ running' \subseteq running /\ reporting' \subseteq reporting
    BY <1>6 DEF Restart
  <2>2. \/ journal' = journal
        \/ /\ queue # <<>> /\ Accepts(journal, cmd)
           /\ \E n \in 1..Len(plan) - 1 : journal' = journal \o SubSeq(plan, 1, n)
    BY <1>6 DEF Restart
  <2>3. CASE /\ queue # <<>> /\ Accepts(journal, cmd)
             /\ \E n \in 1..Len(plan) - 1 : journal' = journal \o SubSeq(plan, 1, n)
    <3>0. cmd \in Asked /\ Len(plan) \in Nat
      BY <1>4, <2>3
    <3>1. PICK n \in 1..Len(plan) - 1 : journal' = journal \o SubSeq(plan, 1, n)
      BY <2>3
    <3>2. n \in 0..Len(plan) /\ n < Len(plan)
      BY <3>0
    <3>3. Appends(cmd, n)
      BY <2>3, <3>0, <3>1, <3>2 DEF Appends
    <3> QED BY <1>3, <2>1, <3>2, <3>3
  <2> QED BY <1>2, <2>1, <2>2, <2>3
<1>7. ASSUME RollOver PROVE Kept
  <2>1. Rolls /\ ran' = ran /\ running' = running /\ reporting' = reporting
    BY <1>7 DEF RollOver, Rolls, threads
  <2>2. \A c : In(journal', "outcome", c) => In(journal, "outcome", c)
    BY <2>1, RolledIn
  <2>3. RanCore'
    BY <1>0, <1>1, <2>1, <2>2, CoreKept
  <2> QED BY <2>1, <2>3
<1>8. ASSUME NEW c \in Call, CarryOut(c) PROVE Kept
  <2>1. /\ journal' = journal /\ running' = running \ {c} /\ reporting' = reporting \cup {c}
        /\ ran' = [ran EXCEPT ![c] = @ + 1] /\ c \in running
    BY <1>8 DEF CarryOut
  <2>2. ran[c] = 0 /\ In(journal, "dispatched", c)
    BY <1>0, <2>1 DEF RanCore
  <2>3. ran' \in [Call -> 0..1] /\ \A d \in Call : ran'[d] = IF d = c THEN 1 ELSE ran[d]
    BY <1>0, <2>1, <2>2 DEF RanCore
  <2>4. \A kind, d : In(journal', kind, d) <=> In(journal, kind, d)
    BY <2>1 DEF In
  <2> QED BY <1>0, <2>1, <2>2, <2>3, <2>4 DEF RanCore
<1>9. ASSUME \/ \E c \in Call : ProbeSucceeds(c) \/ ProbeFails(c) \/ Report(c) \/ Panic(c)
             \/ UserAsks \/ Hear \/ BeginTurn \/ ModelEnds \/ Stop \/ (\E p \in Tool : ModelAsks(p))
             \/ UNCHANGED vars
      PROVE  Kept
  <2>1. journal' = journal /\ ran' = ran /\ running' \subseteq running /\ reporting' \subseteq reporting
    BY <1>9 DEF ProbeSucceeds, ProbeFails, Report, Panic, UserAsks, Hear, BeginTurn, ModelEnds, Stop,
       ModelAsks, threads, vars
  <2> QED BY <1>2, <2>1
<1>10. Kept
  <2> HIDE DEF Kept
  <2> QED BY <1>5, <1>6, <1>7, <1>8, <1>9 DEF Next
<1>11. Outcomes(queue', ran')
  BY <1>10, OutcomesStep
<1> QED BY <1>10, <1>11 DEF RanCore, RanInv, Outcomes
-----------------------------------------------------------------------------
(* The invariant holds. *)

LEMMA InitInv ==
  ASSUME Init
  PROVE  IInv
<1>1. journal = <<>> /\ queue = <<>> /\ notices = <<>>
  BY DEF Init
<1>2. DOMAIN journal = {} /\ DOMAIN queue = {}
  BY <1>1
<1>3. ChannelInv
  BY <1>1, EmptySeq DEF Init, ChannelInv
<1>4. EntryInv
  BY <1>1, <1>2, EmptySeq DEF EntryInv
<1>5. \A kind, x : ~In(journal, kind, x)
  BY <1>2 DEF In
<1>6. OrderInv
  BY <1>5 DEF OrderInv
<1>7. RanInv
  BY <1>2, <1>5 DEF RanInv, Init
<1>8. AuthorisedWhenUsed
  BY <1>2 DEF AuthorisedWhenUsed
<1> QED BY <1>3, <1>4, <1>6, <1>7, <1>8 DEF IInv

(* The inductive invariant, of every reachable state. *)
THEOREM Inductive == Spec => []IInv
<1>1. Init => IInv
  BY InitInv
<1>2. IInv /\ [Next]_vars => IInv'
  BY ChannelStep, EntryStep, OrderStep, RanStep, UsedStep DEF IInv
<1> QED BY <1>1, <1>2, PTL DEF Spec

(* Whatever was set up, allowed, denied or replaced in between, a call is  *)
(* used up only where the journal, as it is at that very event, authorises *)
(* it: the worker decides from the journal it appends to.                  *)
THEOREM CallsAreAuthorised == Spec => []AuthorisedWhenUsed
<1>1. IInv => AuthorisedWhenUsed
  BY DEF IInv
<1> QED BY <1>1, Inductive, PTL
-----------------------------------------------------------------------------
(* Each call is a one-shot call. *)

StageIn(log, c) ==
  IF In(log, "outcome", c) THEN "settled"
  ELSE IF In(log, "dispatched", c) THEN "spent"
  ELSE IF In(log, "recorded", c) THEN "open" ELSE "absent"

LEMMA StageFacts ==
  /\ journal \in Seq(Entry) => \A c \in Call : Stage(c) = StageIn(journal, c)
  /\ journal' \in Seq(Entry) => \A c \in Call : Stage(c)' = StageIn(journal', c)
BY HasFacts DEF Stage, StageIn

(* What else a plan may bring. *)
LEMMA NewUse ==
  ASSUME EntryInv, NEW cmd, NEW n, Appends(cmd, n), NEW c,
         In(journal', "dispatched", c), ~In(journal, "dispatched", c)
  PROVE  c = cmd.of /\ cmd.do \in {"hello", "http", "shell", "reserve"}
<1> DEFINE plan == Plan(journal, cmd)
<1>1. Moving(plan, cmd)
  BY PlanFacts DEF Appends
<1>2. PICK j \in 1..n : plan[j].kind = "dispatched" /\ plan[j].of = c
  BY AppendedIn
<1>3. j \in DOMAIN plan
  BY AppendedFacts
<1> HIDE DEF plan
<1> QED BY <1>1, <1>2, <1>3 DEF Moving

LEMMA NewRecord ==
  ASSUME EntryInv, NEW cmd, NEW n, Appends(cmd, n), NEW c,
         In(journal', "recorded", c), ~In(journal, "recorded", c)
  PROVE  c = CallOf(journal, cmd) /\ cmd.do \in {"propose", "agent"}
<1> DEFINE plan == Plan(journal, cmd)
<1>1. Moving(plan, cmd)
  BY PlanFacts DEF Appends
<1>2. PICK j \in 1..n : plan[j].kind = "recorded" /\ plan[j].of = c
  BY AppendedIn
<1>3. j \in DOMAIN plan
  BY AppendedFacts
<1> HIDE DEF plan
<1> QED BY <1>1, <1>2, <1>3 DEF Moving

LEMMA NewHello ==
  ASSUME EntryInv, NEW cmd, cmd.do = "hello", Appends(cmd, Len(Plan(journal, cmd)))
  PROVE  In(journal', "outcome", cmd.of)
<1> DEFINE plan == Plan(journal, cmd)
<1>1. Moving(plan, cmd)
  BY PlanFacts DEF Appends
<1>2. Len(plan) = 2 /\ plan[2].kind = "outcome"
  BY <1>1 DEF Moving
<1>3. 2 \in 1..Len(plan) /\ 2 \in DOMAIN plan
  BY <1>2, AppendedFacts
<1>4. Closes(plan, cmd)
  BY <1>1 DEF Moving
<1> HIDE DEF plan
<1>5. plan[2].of = cmd.of
  BY <1>2, <1>3, <1>4 DEF Closes
<1> QED BY <1>2, <1>3, <1>5, AppendedIn DEF plan

(* A command takes one call one stage further, or none. *)
LEMMA Further ==
  ASSUME ChannelInv, EntryInv, OrderInv, [Next]_vars, NEW cmd, NEW n, Appends(cmd, n),
         NEW c, c = CallOf(journal, cmd)
  PROVE  /\ \A d : d # c => StageIn(journal', d) = StageIn(journal, d)
         /\ \/ StageIn(journal', c) = StageIn(journal, c)
            \/ StageIn(journal, c) = "absent" /\ StageIn(journal', c) = "open"
            \/ StageIn(journal, c) = "open" /\ StageIn(journal', c) = "spent"
            \/ cmd.do = "outcome" /\ StageIn(journal, c) = "spent" /\ StageIn(journal', c) = "settled"
            \/ cmd.do = "hello" /\ n = Len(Plan(journal, cmd))
         /\ cmd.do = "hello" /\ n = Len(Plan(journal, cmd)) =>
              StageIn(journal, c) = "open" /\ StageIn(journal', c) = "settled"
         /\ cmd.do # "agent" => c = cmd.of
<1>0. cmd \in Asked /\ Accepts(journal, cmd) /\ (cmd.do # "agent" => c = cmd.of)
  BY DEF Appends, CallOf
<1>1. c \in Tool \cup Nat \cup {None}
  <2>1. MaxCalls \in Nat /\ Len(journal) \in Nat
    BY ToolCallsAssumption DEF EntryInv
  <2>2. CASE cmd.do = "agent"
    BY <2>1, <2>2, NextCallFacts DEF CallOf
  <2>3. CASE cmd.do # "agent"
    BY <1>0, <2>3, CommandFacts
  <2> QED BY <2>2, <2>3
<1>2. \A kind, d : kind # "rollover" /\ In(journal, kind, d) => In(journal', kind, d)
  BY KeptIn
<1>3. \A d : In(journal', "recorded", d) /\ ~In(journal, "recorded", d) =>
        d = c /\ cmd.do \in {"propose", "agent"}
  BY NewRecord
<1>4. \A d : In(journal', "dispatched", d) /\ ~In(journal, "dispatched", d) =>
        d = c /\ cmd.do \in {"hello", "http", "shell", "reserve"}
  BY <1>0, NewUse
<1>5. \A d : In(journal', "outcome", d) /\ ~In(journal, "outcome", d) =>
        d = c /\ cmd.do \in {"outcome", "hello"} /\ n = Len(Plan(journal, cmd))
  BY <1>0, NewOutcome
<1>6. cmd.do \in {"propose", "agent"} => ~In(journal, "recorded", c)
  BY <1>0, AcceptedProposal
<1>7. cmd.do \in {"hello", "http", "shell", "reserve"} =>
        In(journal, "recorded", c) /\ ~In(journal, "dispatched", c)
  BY <1>0, AcceptedDispatch
<1>8. cmd.do = "outcome" => In(journal, "dispatched", c) /\ ~In(journal, "outcome", c)
  BY <1>0, AcceptedOutcome
<1>9. /\ In(journal, "dispatched", c) => In(journal, "recorded", c)
      /\ In(journal, "outcome", c) => In(journal, "dispatched", c)
  BY <1>1 DEF OrderInv
<1>10. cmd.do = "hello" /\ n = Len(Plan(journal, cmd)) => In(journal', "outcome", c)
  BY <1>0, NewHello
<1>11. \A d : d # c => StageIn(journal', d) = StageIn(journal, d)
  BY <1>2, <1>3, <1>4, <1>5 DEF StageIn
<1>12. cmd.do = "hello" /\ n = Len(Plan(journal, cmd)) =>
         StageIn(journal, c) = "open" /\ StageIn(journal', c) = "settled"
  BY <1>7, <1>9, <1>10 DEF StageIn
<1>13. \/ StageIn(journal', c) = StageIn(journal, c)
       \/ StageIn(journal, c) = "absent" /\ StageIn(journal', c) = "open"
       \/ StageIn(journal, c) = "open" /\ StageIn(journal', c) = "spent"
       \/ cmd.do = "outcome" /\ StageIn(journal, c) = "spent" /\ StageIn(journal', c) = "settled"
       \/ cmd.do = "hello" /\ n = Len(Plan(journal, cmd))
  <2>1. CASE cmd.do \in {"propose", "agent"}
    BY <1>2, <1>3, <1>4, <1>5, <1>6, <1>9, <2>1 DEF StageIn
  <2>2. CASE cmd.do \in {"hello", "http", "shell", "reserve"}
    BY <1>2, <1>3, <1>4, <1>5, <1>7, <1>9, <2>2 DEF StageIn
  <2>3. CASE cmd.do = "outcome"
    BY <1>2, <1>3, <1>4, <1>5, <1>8, <1>9, <2>3 DEF StageIn
  <2>4. CASE cmd.do \notin {"propose", "agent", "hello", "http", "shell", "reserve", "outcome"}
    BY <1>2, <1>3, <1>4, <1>5, <2>4 DEF StageIn
  <2> QED BY <2>1, <2>2, <2>3, <2>4
<1> QED BY <1>0, <1>11, <1>12, <1>13

Stages == [c \in Call |-> Stage(c)]

LEMMA Mapped ==
  ASSUME EntryInv, EntryInv'
  PROVE  /\ Stages = [c \in Call |-> StageIn(journal, c)]
         /\ Stages' = [c \in Call |-> StageIn(journal', c)]
<1>1. journal \in Seq(Entry) /\ journal' \in Seq(Entry)
  BY DEF EntryInv
<1>2. Stages' = [c \in Call |-> Stage(c)']
  BY DEF Stages
<1> QED BY <1>1, <1>2, StageFacts DEF Stages

(* One call goes from one stage to another. *)
LEMMA Advanced ==
  ASSUME EntryInv, EntryInv', NEW c \in Call,
         \A d : d # c => StageIn(journal', d) = StageIn(journal, d)
  PROVE  /\ Stages[c] = StageIn(journal, c)
         /\ Stages' = [Stages EXCEPT ![c] = StageIn(journal', c)]
<1>1. /\ Stages = [d \in Call |-> StageIn(journal, d)]
      /\ Stages' = [d \in Call |-> StageIn(journal', d)]
  BY Mapped
<1> QED BY <1>1

LEMMA SameStages ==
  ASSUME EntryInv, EntryInv', \A c \in Call : StageIn(journal', c) = StageIn(journal, c)
  PROVE  Stages' = Stages
BY Mapped

(* The abstract step, or none. *)
Kept == Stages' = Stages /\ ran' = ran

LEMMA AppendRefines ==
  ASSUME IInv, IInv', [Next]_vars, NEW cmd, NEW n, Appends(cmd, n), cmd = Head(queue), queue # <<>>,
         \/ ran' = ran /\ ~(cmd.do = "hello" /\ n = Len(Plan(journal, cmd)))
         \/ /\ cmd.do = "hello" /\ n = Len(Plan(journal, cmd))
            /\ ran' = [ran EXCEPT ![cmd.of] = @ + 1]
  PROVE  Kept \/ Promise!Next
<1> DEFINE c == CallOf(journal, cmd)
<1>0. ChannelInv /\ EntryInv /\ EntryInv' /\ OrderInv /\ RanInv
  BY DEF IInv
<1>1. cmd = queue[1] /\ 1 \in DOMAIN queue
  BY <1>0 DEF ChannelInv
<1>2. /\ \A d : d # c => StageIn(journal', d) = StageIn(journal, d)
      /\ \/ StageIn(journal', c) = StageIn(journal, c)
         \/ StageIn(journal, c) = "absent" /\ StageIn(journal', c) = "open"
         \/ StageIn(journal, c) = "open" /\ StageIn(journal', c) = "spent"
         \/ cmd.do = "outcome" /\ StageIn(journal, c) = "spent" /\ StageIn(journal', c) = "settled"
         \/ cmd.do = "hello" /\ n = Len(Plan(journal, cmd))
      /\ cmd.do = "hello" /\ n = Len(Plan(journal, cmd)) =>
           StageIn(journal, c) = "open" /\ StageIn(journal', c) = "settled"
      /\ cmd.do # "agent" => c = cmd.of
  BY <1>0, Further
<1> HIDE DEF c
<1>3. CASE c \notin Call
  <2>1. Stages' = Stages
    BY <1>0, <1>2, <1>3, SameStages
  <2>2. ran' = ran
    BY <1>0, <1>2, <1>3 DEF RanInv
  <2> QED BY <2>1, <2>2 DEF Kept
<1>4. CASE c \in Call
  <2>0. Stages[c] = StageIn(journal, c) /\ Stages' = [Stages EXCEPT ![c] = StageIn(journal', c)]
    BY <1>0, <1>2, <1>4, Advanced
  <2>1. CASE cmd.do = "hello" /\ n = Len(Plan(journal, cmd))
    <3>1. StageIn(journal, c) = "open" /\ StageIn(journal', c) = "settled" /\ c = cmd.of
      BY <1>2, <2>1
    <3>2. ~In(journal, "dispatched", c)
      BY <3>1 DEF StageIn
    <3>3. ran[c] = 0 /\ ran \in [Call -> 0..1]
      BY <1>0, <1>4, <3>2 DEF RanInv
    <3>4. ran' = [ran EXCEPT ![c] = 1]
      BY <1>4, <2>1, <3>1, <3>3
    <3>5. Promise!Answer(c)
      BY <2>0, <3>1, <3>4 DEF Promise!Answer, Promise!Advance, Stages
    <3> QED BY <1>4, <3>5 DEF Promise!Next
  <2>2. CASE ~(cmd.do = "hello" /\ n = Len(Plan(journal, cmd)))
    <3>0. ran' = ran
      BY <2>2
    <3>1. CASE StageIn(journal', c) = StageIn(journal, c)
      <4>1. Stages' = Stages
        BY <1>0, <1>2, <3>1, SameStages
      <4> QED BY <3>0, <4>1 DEF Kept
    <3>2. CASE StageIn(journal, c) = "absent" /\ StageIn(journal', c) = "open"
      <4>1. Promise!Open(c)
        BY <2>0, <3>0, <3>2 DEF Promise!Open, Promise!Advance, Stages
      <4> QED BY <1>4, <4>1 DEF Promise!Next
    <3>3. CASE StageIn(journal, c) = "open" /\ StageIn(journal', c) = "spent"
      <4>1. Promise!Spend(c)
        BY <2>0, <3>0, <3>3 DEF Promise!Spend, Promise!Advance, Stages
      <4> QED BY <1>4, <4>1 DEF Promise!Next
    <3>4. CASE cmd.do = "outcome" /\ StageIn(journal, c) = "spent" /\ StageIn(journal', c) = "settled"
      <4>1. c = cmd.of /\ ran[c] = 1
        BY <1>0, <1>1, <1>2, <3>4 DEF RanInv
      <4>2. Promise!Settle(c)
        BY <2>0, <3>0, <3>4, <4>1 DEF Promise!Settle, Promise!Advance, Stages
      <4> QED BY <1>4, <4>2 DEF Promise!Next
    <3> QED BY <1>2, <2>2, <3>1, <3>2, <3>3, <3>4
  <2> QED BY <2>1, <2>2
<1> QED BY <1>3, <1>4

LEMMA StepRefines ==
  ASSUME IInv, IInv', [Next]_vars
  PROVE  Kept \/ Promise!Next
<1>0. ChannelInv /\ EntryInv /\ EntryInv' /\ OrderInv /\ RanInv
  BY DEF IInv
<1>1. ASSUME journal' = journal, ran' = ran PROVE Kept
  BY <1>0, <1>1, SameStages DEF Kept
<1>2. ASSUME queue # <<>>
      PROVE  LET cmd == Head(queue)
                 plan == Plan(journal, cmd)
             IN  /\ cmd \in Asked /\ plan \in Seq(Entry) /\ Len(plan) \in Nat
                 /\ SubSeq(plan, 1, Len(plan)) = plan
                 /\ Len(plan) \in 0..Len(plan)
                 /\ cmd.do = "hello" => Len(plan) = 2
  <2> DEFINE cmd == Head(queue)
             plan == Plan(journal, cmd)
  <2>1. cmd \in Asked
    BY <1>0, <1>2 DEF ChannelInv
  <2>2. plan \in Seq(Entry) /\ (cmd.do = "hello" => Len(plan) = 2)
    BY <1>0, <2>1, PlanFacts DEF Moving
  <2> HIDE DEF plan
  <2>3. Len(plan) \in Nat /\ SubSeq(plan, 1, Len(plan)) = plan /\ Len(plan) \in 0..Len(plan)
    BY <2>2
  <2> QED BY <2>1, <2>2, <2>3 DEF plan
<1>3. ASSUME NEW n, queue # <<>>, Appends(Head(queue), n), n < Len(Plan(journal, Head(queue))), ran' = ran
      PROVE  Kept \/ Promise!Next
  <2>1. n # Len(Plan(journal, Head(queue)))
    BY <1>0, <1>3, AppendedFacts
  <2> QED BY <1>3, <2>1, AppendRefines
<1>4. ASSUME Serve PROVE Kept \/ Promise!Next
  <2> DEFINE cmd == Head(queue)
             plan == Plan(journal, cmd)
  <2>0. /\ queue # <<>> /\ cmd \in Asked /\ plan \in Seq(Entry) /\ Len(plan) \in Nat
        /\ SubSeq(plan, 1, Len(plan)) = plan /\ Len(plan) \in 0..Len(plan)
    BY <1>2, <1>4 DEF Serve
  <2>1. \/ /\ Accepts(journal, cmd) /\ journal' = journal \o plan
           /\ ran' = IF cmd.do = "hello" THEN [ran EXCEPT ![cmd.of] = @ + 1] ELSE ran
        \/ journal' = journal /\ ran' = ran
        \/ /\ Accepts(journal, cmd) /\ ran' = ran
           /\ \E n \in 0..Len(plan) - 1 : journal' = journal \o SubSeq(plan, 1, n)
    BY <1>4 DEF Serve
  <2>2. CASE /\ Accepts(journal, cmd) /\ journal' = journal \o plan
             /\ ran' = IF cmd.do = "hello" THEN [ran EXCEPT ![cmd.of] = @ + 1] ELSE ran
    <3>1. Appends(cmd, Len(plan))
      BY <2>0, <2>2 DEF Appends
    <3> QED BY <2>0, <2>2, <3>1, AppendRefines
  <2>3. CASE journal' = journal /\ ran' = ran
    BY <1>1, <2>3
  <2>4. CASE /\ Accepts(journal, cmd) /\ ran' = ran
             /\ \E n \in 0..Len(plan) - 1 : journal' = journal \o SubSeq(plan, 1, n)
    <3>1. PICK n \in 0..Len(plan) - 1 : journal' = journal \o SubSeq(plan, 1, n)
      BY <2>4
    <3>2. n \in 0..Len(plan) /\ n < Len(plan)
      BY <2>0
    <3>3. Appends(cmd, n)
      BY <2>0, <2>4, <3>1, <3>2 DEF Appends
    <3> QED BY <1>3, <2>0, <2>4, <3>2, <3>3
  <2> QED BY <2>1, <2>2, <2>3, <2>4
<1>5. ASSUME Restart PROVE Kept \/ Promise!Next
  <2> DEFINE cmd == Head(queue)
             plan == Plan(journal, cmd)
  <2>1. ran' = ran
    BY <1>5 DEF Restart
  <2>2. \/ journal' = journal
        \/ /\ queue # <<>> /\ Accepts(journal, cmd)
           /\ \E n \in 1..Len(plan) - 1 : journal' = journal \o SubSeq(plan, 1, n)
    BY <1>5 DEF Restart
  <2>3. CASE /\ queue # <<>> /\ Accepts(journal, cmd)
             /\ \E n \in 1..Len(plan) - 1 : journal' = journal \o SubSeq(plan, 1, n)
    <3>0. cmd \in Asked /\ Len(plan) \in Nat
      BY <1>2, <2>3
    <3>1. PICK n \in 1..Len(plan) - 1 : journal' = journal \o SubSeq(plan, 1, n)
      BY <2>3
    <3>2. n \in 0..Len(plan) /\ n < Len(plan)
      BY <3>0
    <3>3. Appends(cmd, n)
      BY <2>3, <3>0, <3>1, <3>2 DEF Appends
    <3> QED BY <1>3, <2>1, <2>3, <3>2, <3>3
  <2> QED BY <1>1, <2>1, <2>2, <2>3
<1>6. ASSUME RollOver PROVE Kept
  <2>1. Rolls /\ ran' = ran
    BY <1>6 DEF RollOver, Rolls
  <2>2. \A c \in Call : StageIn(journal', c) = StageIn(journal, c)
    BY <1>0, <2>1, RolledIn DEF StageIn
  <2> QED BY <1>0, <2>1, <2>2, SameStages DEF Kept
<1>7. ASSUME NEW c \in Call, CarryOut(c) PROVE Promise!Next
  <2>1. journal' = journal /\ ran' = [ran EXCEPT ![c] = @ + 1] /\ c \in running
    BY <1>7 DEF CarryOut
  <2>2. In(journal, "dispatched", c) /\ ran[c] = 0 /\ ~In(journal, "outcome", c)
    BY <1>0, <2>1 DEF RanInv
  <2>3. StageIn(journal, c) = "spent"
    BY <2>2 DEF StageIn
  <2>4. Stages' = Stages /\ Stages[c] = "spent"
    BY <1>0, <2>1, <2>3, SameStages, Mapped
  <2>5. ran' = [ran EXCEPT ![c] = 1]
    BY <1>0, <2>1, <2>2 DEF RanInv
  <2>6. Promise!Act(c)
    BY <2>2, <2>4, <2>5 DEF Promise!Act, Stages
  <2> QED BY <2>6 DEF Promise!Next
<1>8. ASSUME \/ \E c \in Call : ProbeSucceeds(c) \/ ProbeFails(c) \/ Report(c) \/ Panic(c)
             \/ UserAsks \/ Hear \/ BeginTurn \/ ModelEnds \/ Stop \/ (\E p \in Tool : ModelAsks(p))
             \/ UNCHANGED vars
      PROVE  Kept
  <2>1. journal' = journal /\ ran' = ran
    BY <1>8 DEF ProbeSucceeds, ProbeFails, Report, Panic, UserAsks, Hear, BeginTurn, ModelEnds, Stop,
       ModelAsks, vars
  <2> QED BY <1>1, <2>1
<1> QED BY <1>4, <1>5, <1>6, <1>7, <1>8 DEF Next

(* The promise of the audit: a call is used up in the journal before it is *)
(* carried out, it is carried out at most once whatever dies or fails, and *)
(* only what was carried out gets an outcome.                              *)
THEOREM CallsAreOneShot == Spec => OneShot
<1>1. Init => Promise!Init
  <2> SUFFICES ASSUME Init PROVE Promise!Init
    OBVIOUS
  <2>1. EntryInv /\ journal = <<>>
    BY InitInv DEF IInv, Init
  <2>2. \A c \in Call : Stage(c) = "absent"
    <3>1. \A kind, x : ~In(journal, kind, x)
      BY <2>1 DEF In
    <3> QED BY <2>1, <3>1, StageFacts DEF StageIn, EntryInv
  <2>3. [c \in Call |-> Stage(c)] = [c \in Call |-> "absent"]
    BY <2>2
  <2> QED BY <2>3 DEF Promise!Init, Init
<1>2. IInv /\ IInv' /\ [Next]_vars => [Promise!Next]_Promise!vars
  BY StepRefines DEF Kept, Stages, Promise!vars
<1> QED BY <1>1, <1>2, Inductive, PTL DEF Spec, OneShot, Promise!Spec
=============================================================================
