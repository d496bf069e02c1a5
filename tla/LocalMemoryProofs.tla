-------------------------- MODULE LocalMemoryProofs --------------------------
(***************************************************************************)
(* Proofs about LocalMemory, for every set of conversations and every      *)
(* bound.  The inductive invariant says in which order the window hears of *)
(* what is in the journal, that one message at a time is on its way, and   *)
(* that what was frozen for it was in force at the last event known.       *)
(***************************************************************************)
EXTENDS LocalMemory, SequenceTheorems, WellFoundedInduction, TLAPS

MemoryKind == {"recorded", "admitted", "excluded", "superseded", "labelled", "unlabelled"}

Kind == MemoryKind \cup {"committed", "given"}

Freight == [conversation : Conversation, memories : SUBSET Nat, upto : Nat]

Entry == [kind : Kind, of : Nat, with : Conversation \cup Nat \cup Freight]

(* Commands as the window sends them. *)
Asks == { e \in Entry : e.kind # "given" /\ (e.kind = "committed" => e.with \in Freight) }

Answer == [ok : BOOLEAN, of : Asks, new : SUBSET Nat]

Frozen == [turn : Nat, remote : BOOLEAN, admitted : SUBSET Nat, memories : SUBSET Nat, upto : Nat]

ShapeInv ==
  /\ journal \in Seq(Entry)
  /\ queue \in Seq(Asks)
  /\ notices \in Seq(Answer)
  /\ sending \in Frozen

(* What the window has not heard of it will hear of in order, and nothing  *)
(* about memories is kept from it.                                         *)
NewsInv ==
  /\ \A k \in DOMAIN notices :
       LET n == notices[k] IN
         /\ n.new \subseteq DOMAIN journal
         /\ \A i \in known, j \in n.new : i < j
         /\ ~n.ok => n.new = {}
         /\ n.ok /\ n.of.kind # "committed" => \E i \in n.new : n.new = {i} /\ journal[i] = n.of
         /\ n.of.kind = "committed" => \A i \in n.new : journal[i].kind \in {"committed", "given"}
  /\ \A k, l \in DOMAIN notices : k < l => \A i \in notices[k].new, j \in notices[l].new : i < j
  /\ \A i \in DOMAIN journal :
       journal[i].kind \in MemoryKind => i \in known \/ \E k \in DOMAIN notices : i \in notices[k].new

Gives(i, t) == journal[i].kind = "given" /\ journal[i].of = t

(* The message being committed is this one. *)
Carried(cmd) ==
  /\ sending # NoMessage
  /\ cmd.of = turns
  /\ cmd.with.memories = sending.memories
  /\ cmd.with.conversation = shown

(* One message at a time is on its way to the worker or back. *)
FlightInv ==
  /\ sending # NoMessage => sending.turn = turns /\ asked.turn < turns
  /\ asked.turn \in 0..turns
  /\ \A i \in DOMAIN journal : journal[i].kind = "given" => journal[i].of \in 1..turns
  /\ \A i \in DOMAIN queue : queue[i].kind = "committed" =>
       /\ Carried(queue[i])
       /\ \A j \in DOMAIN journal : ~Gives(j, turns)
       /\ \A j \in DOMAIN queue : queue[j].kind = "committed" => j = i
       /\ \A k \in DOMAIN notices : notices[k].of.kind # "committed"
  /\ \A k \in DOMAIN notices : notices[k].of.kind = "committed" =>
       /\ Carried(notices[k].of)
       /\ \A l \in DOMAIN notices : notices[l].of.kind = "committed" => l = k
       /\ notices[k].ok =>
            /\ \A j \in DOMAIN journal : Gives(j, turns) =>
                 j \in notices[k].new /\ journal[j].with.memories = sending.memories
            /\ sending.memories # {} => \E j \in notices[k].new : Gives(j, turns)

(* What was frozen for it was in force at the event the window last knew.  *)
FrozenInv ==
  /\ sending.upto \in 0..Len(journal)
  /\ sending.remote => sending.admitted = Admitted(1..sending.upto, shown)
  /\ sending.memories \subseteq Eligible(1..sending.upto, shown)
  /\ sending.memories \subseteq chosen[shown]

AskedInv ==
  /\ asked.upto \in 0..Len(journal)
  /\ SentAsRecorded
  /\ ValidWhenSent

ChoiceInv ==
  /\ \A c \in Conversation : selected[c] \subseteq chosen[c]
  /\ ChoicesSendable

IInv == TypeOK /\ ShapeInv /\ NewsInv /\ FlightInv /\ FrozenInv /\ AskedInv /\ ChoiceInv

-----------------------------------------------------------------------------
(* What a set of events of a log says. *)

AtIn(log, S, kinds) == {i \in S : log[i].kind \in kinds}

RecordedIn(log, S) == {log[i].of : i \in AtIn(log, S, {"recorded"})}

SupersededIn(log, S) == {log[i].of : i \in AtIn(log, S, {"superseded"})}

DecisionIn(log, S, m, c) ==
  Max({0} \cup {i \in AtIn(log, S, {"admitted", "excluded"}) : log[i].of = m /\ log[i].with = c})

DecidedIn(log, S, m, c, kind) ==
  DecisionIn(log, S, m, c) # 0 /\ log[DecisionIn(log, S, m, c)].kind = kind

AdmittedIn(log, S, c) ==
  {m \in RecordedIn(log, S) : DecidedIn(log, S, m, c, "admitted")} \ SupersededIn(log, S)

EligibleIn(log, S, c) == RecordedIn(log, S) \ (SupersededIn(log, S) \cup AdmittedIn(log, S, c))

GivenIn(log, S, t) == UNION {log[i].with.memories : i \in {j \in AtIn(log, S, {"given"}) : log[j].of = t}}

FrozenIn(log, s, here, picks) ==
  /\ s.upto \in 0..Len(log)
  /\ s.remote => s.admitted = AdmittedIn(log, 1..s.upto, here)
  /\ s.memories \subseteq EligibleIn(log, 1..s.upto, here)
  /\ s.memories \subseteq picks

AskedIn(log, a) ==
  /\ a.upto \in 0..Len(log)
  /\ a.once = GivenIn(log, DOMAIN log, a.turn)
  /\ a.admitted \subseteq AdmittedIn(log, 1..a.upto, a.conversation)
  /\ a.fits => a.admitted = AdmittedIn(log, 1..a.upto, a.conversation)
  /\ a.once \subseteq EligibleIn(log, 1..a.upto, a.conversation)

ChoiceIn(log, S, choice, picks) ==
  \A c \in Conversation : choice[c] \subseteq picks[c] /\ choice[c] \subseteq EligibleIn(log, S, c)

LEMMA Readings ==
  /\ \A S : Recorded(S) = RecordedIn(journal, S) /\ Superseded(S) = SupersededIn(journal, S)
  /\ \A S, m, c, kind : Decided(S, m, c, kind) <=> DecidedIn(journal, S, m, c, kind)
  /\ \A S, c : Admitted(S, c) = AdmittedIn(journal, S, c) /\ Eligible(S, c) = EligibleIn(journal, S, c)
  /\ \A S, t : GivenTo(S, t) = GivenIn(journal, S, t)
BY DEF Recorded, RecordedIn, Superseded, SupersededIn, Decided, DecidedIn, Decision, DecisionIn,
   Admitted, AdmittedIn, Eligible, EligibleIn, GivenTo, GivenIn, At, AtIn

LEMMA FrozenForm ==
  /\ FrozenInv <=> FrozenIn(journal, sending, shown, chosen[shown])
  /\ FrozenInv' <=> FrozenIn(journal', sending', shown', chosen'[shown'])
BY DEF FrozenInv, FrozenIn, Recorded, RecordedIn, Superseded, SupersededIn, Decided, DecidedIn,
   Decision, DecisionIn, Admitted, AdmittedIn, Eligible, EligibleIn, At, AtIn

LEMMA ChoiceForm ==
  /\ ChoiceInv <=> ChoiceIn(journal, known, selected, chosen)
  /\ ChoiceInv' <=> ChoiceIn(journal', known', selected', chosen')
BY DEF ChoiceInv, ChoicesSendable, ChoiceIn, Recorded, RecordedIn, Superseded, SupersededIn, Decided,
   DecidedIn, Decision, DecisionIn, Admitted, AdmittedIn, Eligible, EligibleIn, At, AtIn

Valid(log, a) ==
  LET S == 1..a.upto
      inForce == RecordedIn(log, S) \ SupersededIn(log, S)
      admitted == {m \in inForce : DecidedIn(log, S, m, a.conversation, "admitted")}
  IN  /\ a.admitted \subseteq admitted
      /\ a.fits => a.admitted = admitted
      /\ a.once \subseteq inForce \ admitted

LEMMA ValidForm ==
  ASSUME NEW log, NEW a
  PROVE  Valid(log, a) <=>
           /\ a.admitted \subseteq AdmittedIn(log, 1..a.upto, a.conversation)
           /\ a.fits => a.admitted = AdmittedIn(log, 1..a.upto, a.conversation)
           /\ a.once \subseteq EligibleIn(log, 1..a.upto, a.conversation)
<1> DEFINE S == 1..a.upto
           inForce == RecordedIn(log, S) \ SupersededIn(log, S)
           admitted == {m \in inForce : DecidedIn(log, S, m, a.conversation, "admitted")}
<1>1. admitted = AdmittedIn(log, S, a.conversation)
  BY DEF AdmittedIn
<1>2. inForce \ admitted = EligibleIn(log, S, a.conversation)
  BY <1>1 DEF EligibleIn
<1> QED BY <1>1, <1>2 DEF Valid

LEMMA AskedForm ==
  /\ AskedInv <=> AskedIn(journal, asked)
  /\ AskedInv' <=> AskedIn(journal', asked')
<1>1. ValidWhenSent <=> Valid(journal, asked)
  BY DEF ValidWhenSent, Valid, Recorded, RecordedIn, Superseded, SupersededIn, Decided,
     DecidedIn, Decision, DecisionIn, At, AtIn
<1>2. ValidWhenSent' <=> Valid(journal', asked')
  BY DEF ValidWhenSent, Valid, Recorded, RecordedIn, Superseded, SupersededIn, Decided,
     DecidedIn, Decision, DecisionIn, At, AtIn
<1>3. SentAsRecorded <=> asked.once = GivenIn(journal, DOMAIN journal, asked.turn)
  BY DEF SentAsRecorded, GivenTo, GivenIn, At, AtIn
<1>4. SentAsRecorded' <=> asked'.once = GivenIn(journal', DOMAIN journal', asked'.turn)
  BY DEF SentAsRecorded, GivenTo, GivenIn, At, AtIn
<1>5. AskedInv <=> asked.upto \in 0..Len(journal) /\ SentAsRecorded /\ ValidWhenSent
  BY DEF AskedInv
<1>6. AskedInv' <=> asked'.upto \in 0..Len(journal') /\ SentAsRecorded' /\ ValidWhenSent'
  BY DEF AskedInv
<1>7. AskedInv <=> AskedIn(journal, asked)
  BY <1>1, <1>3, <1>5, ValidForm DEF AskedIn
<1>8. AskedInv' <=> AskedIn(journal', asked')
  BY <1>2, <1>4, <1>6, ValidForm DEF AskedIn
<1> QED BY <1>7, <1>8
-----------------------------------------------------------------------------
(* The numbers of events. *)

LEMMA Greatest ==
  ASSUME NEW n \in Nat, NEW S \in SUBSET (0..n), S # {}
  PROVE  Max(S) \in S /\ \A y \in S : y <= Max(S)
<1> DEFINE T == { n - i : i \in S }
<1>0. \A i \in S : i \in 0..n /\ n - i \in Nat /\ n - i \in T
  OBVIOUS
<1>1. T \subseteq Nat /\ T # {}
  BY <1>0
<1>2. PICK x \in T : \A y \in T : ~(<<y, x>> \in OpToRel(<, Nat))
  BY <1>1, WFMin, NatLessThanWellFounded
<1>3. \A y \in T : ~(y < x)
  BY <1>1, <1>2 DEF OpToRel
<1>4. PICK i \in S : x = n - i
  OBVIOUS
<1>5. \A j \in S : i >= j
  <2> TAKE j \in S
  <2>1. ~(n - j < n - i)
    BY <1>0, <1>3, <1>4
  <2> HIDE DEF T
  <2> QED BY <1>0, <2>1
<1>6. Max(S) \in S /\ \A y \in S : Max(S) >= y
  BY <1>5 DEF Max
<1> QED BY <1>0, <1>6

LEMMA DecisionFacts ==
  ASSUME NEW log, NEW n \in Nat, NEW S \in SUBSET (1..n), NEW m, NEW c
  PROVE  /\ DecisionIn(log, S, m, c) \in Nat
         /\ DecisionIn(log, S, m, c) # 0 =>
              /\ DecisionIn(log, S, m, c) \in S
              /\ log[DecisionIn(log, S, m, c)].kind \in {"admitted", "excluded"}
<1> DEFINE D == {i \in AtIn(log, S, {"admitted", "excluded"}) : log[i].of = m /\ log[i].with = c}
<1>0. \A i \in D : i \in S /\ i \in 1..n /\ log[i].kind \in {"admitted", "excluded"}
  BY DEF AtIn
<1>1. {0} \cup D \in SUBSET (0..n) /\ {0} \cup D # {}
  <2> HIDE DEF D
  <2> QED BY <1>0
<1>2. Max({0} \cup D) \in {0} \cup D
  BY <1>1, Greatest
<1>3. DecisionIn(log, S, m, c) \in {0} \cup D
  BY <1>2 DEF DecisionIn
<1> HIDE DEF D
<1> QED BY <1>0, <1>3

(* The events S of a and T of b that are about memories are the same. *)
Alike(a, b, n, S, T) ==
  /\ n \in Nat /\ S \subseteq 1..n /\ T \subseteq 1..n
  /\ \A i \in 1..n : (i \in S /\ a[i].kind \in MemoryKind) <=> (i \in T /\ b[i].kind \in MemoryKind)
  /\ \A i \in S : a[i].kind \in MemoryKind => b[i] = a[i]

(* Only the events about memories matter to what is admitted. *)
LEMMA SameMemories ==
  ASSUME NEW a, NEW b, NEW n, NEW S, NEW T, Alike(a, b, n, S, T)
  PROVE  /\ RecordedIn(b, T) = RecordedIn(a, S)
         /\ SupersededIn(b, T) = SupersededIn(a, S)
         /\ \A m, c : DecidedIn(b, T, m, c, "admitted") <=> DecidedIn(a, S, m, c, "admitted")
         /\ \A c : AdmittedIn(b, T, c) = AdmittedIn(a, S, c) /\ EligibleIn(b, T, c) = EligibleIn(a, S, c)
<1>0. /\ n \in Nat /\ S \in SUBSET (1..n) /\ T \in SUBSET (1..n)
      /\ \A i \in 1..n : (i \in S /\ a[i].kind \in MemoryKind) <=> (i \in T /\ b[i].kind \in MemoryKind)
      /\ \A i \in S : a[i].kind \in MemoryKind => b[i] = a[i]
  BY DEF Alike
<1>1. ASSUME NEW kinds \in SUBSET MemoryKind PROVE AtIn(b, T, kinds) = AtIn(a, S, kinds) /\ AtIn(a, S, kinds) \subseteq S
  BY <1>0, <1>1 DEF AtIn
<1>2. \A kinds \in SUBSET MemoryKind : \A i \in AtIn(a, S, kinds) : b[i] = a[i]
  BY <1>0 DEF AtIn
<1>3. {"recorded"} \in SUBSET MemoryKind /\ {"superseded"} \in SUBSET MemoryKind
      /\ {"admitted", "excluded"} \in SUBSET MemoryKind
  BY DEF MemoryKind
<1>4. RecordedIn(b, T) = RecordedIn(a, S)
  <2>1. AtIn(b, T, {"recorded"}) = AtIn(a, S, {"recorded"})
    BY <1>1, <1>3
  <2>2. \A i \in AtIn(a, S, {"recorded"}) : b[i] = a[i]
    BY <1>2, <1>3
  <2> QED BY <2>1, <2>2 DEF RecordedIn
<1>5. SupersededIn(b, T) = SupersededIn(a, S)
  <2>1. AtIn(b, T, {"superseded"}) = AtIn(a, S, {"superseded"})
    BY <1>1, <1>3
  <2>2. \A i \in AtIn(a, S, {"superseded"}) : b[i] = a[i]
    BY <1>2, <1>3
  <2> QED BY <2>1, <2>2 DEF SupersededIn
<1>6. ASSUME NEW m, NEW c PROVE DecidedIn(b, T, m, c, "admitted") <=> DecidedIn(a, S, m, c, "admitted")
  <2> DEFINE K == {"admitted", "excluded"}
             A == {i \in AtIn(a, S, K) : a[i].of = m /\ a[i].with = c}
             B == {i \in AtIn(b, T, K) : b[i].of = m /\ b[i].with = c}
  <2>1. AtIn(b, T, K) = AtIn(a, S, K) /\ \A i \in AtIn(a, S, K) : b[i] = a[i]
    BY <1>1, <1>2, <1>3
  <2>2. A = B
    BY <2>1
  <2>3. DecisionIn(a, S, m, c) = DecisionIn(b, T, m, c)
    BY <2>2 DEF DecisionIn
  <2>4. DecisionIn(a, S, m, c) # 0 =>
          b[DecisionIn(a, S, m, c)] = a[DecisionIn(a, S, m, c)]
    BY <1>0, DecisionFacts DEF MemoryKind
  <2> QED BY <2>3, <2>4 DEF DecidedIn
<1>7. \A c : AdmittedIn(b, T, c) = AdmittedIn(a, S, c)
  BY <1>4, <1>5, <1>6 DEF AdmittedIn
<1> QED BY <1>4, <1>5, <1>6, <1>7 DEF EligibleIn
-----------------------------------------------------------------------------
(* What the worker does with a command. *)

LEMMA PlanFacts ==
  ASSUME NEW cmd \in Asks
  PROVE  /\ Plan(cmd) \in Seq(Entry)
         /\ Len(Plan(cmd)) \in 1..2
         /\ cmd.kind # "committed" => Len(Plan(cmd)) = 1 /\ Plan(cmd)[1] = cmd
         /\ cmd.kind = "committed" =>
              /\ Plan(cmd)[1].kind = "committed"
              /\ cmd.with.memories = {} => Len(Plan(cmd)) = 1
              /\ cmd.with.memories # {} =>
                   /\ Len(Plan(cmd)) = 2
                   /\ Plan(cmd)[2].kind = "given" /\ Plan(cmd)[2].of = cmd.of
                   /\ Plan(cmd)[2].with = cmd.with
<1>1. CASE cmd.kind # "committed"
  <2>1. Plan(cmd) = <<cmd>> /\ cmd \in Entry
    BY <1>1 DEF Plan, Asks
  <2> QED BY <1>1, <2>1
<1>2. CASE cmd.kind = "committed"
  <2> DEFINE a == Event("committed", cmd.of, cmd.with.conversation)
             b == Event("given", cmd.of, cmd.with)
  <2>1. cmd.of \in Nat /\ cmd.with \in Freight /\ cmd.with.conversation \in Conversation
    BY <1>2 DEF Asks, Entry, Freight
  <2>2. /\ a \in Entry /\ a.kind = "committed"
        /\ b \in Entry /\ b.kind = "given" /\ b.of = cmd.of /\ b.with = cmd.with
    BY <2>1 DEF Event, Entry, Kind
  <2>3. Plan(cmd) = <<a>> \o IF cmd.with.memories = {} THEN <<>> ELSE <<b>>
    BY <1>2 DEF Plan
  <2> HIDE DEF a, b
  <2>4. CASE cmd.with.memories = {}
    <3>1. Plan(cmd) = <<a>> \o <<>>
      BY <2>3, <2>4
    <3>2. Plan(cmd) = <<a>>
      BY <2>2, <3>1
    <3> QED BY <1>2, <2>2, <2>4, <3>2
  <2>5. CASE cmd.with.memories # {}
    <3>1. Plan(cmd) = <<a>> \o <<b>>
      BY <2>3, <2>5
    <3> DEFINE d == <<a>>
               e == <<b>>
               r == d \o e
    <3>2. d \in Seq(Entry) /\ Len(d) = 1 /\ d[1] = a /\ e \in Seq(Entry) /\ Len(e) = 1 /\ e[1] = b
      BY <2>2
    <3> HIDE DEF d, e
    <3>3. /\ r \in Seq(Entry) /\ Len(r) = Len(d) + Len(e)
          /\ \A i \in 1..(Len(d) + Len(e)) : r[i] = IF i <= Len(d) THEN d[i] ELSE e[i - Len(d)]
      BY <3>2, ConcatProperties
    <3>4. Plan(cmd) = r
      BY <3>1 DEF d, e
    <3> HIDE DEF r
    <3>5. Len(r) = 2 /\ r[1] = a /\ r[2] = b
      BY <3>2, <3>3
    <3>6. Plan(cmd) \in Seq(Entry) /\ Len(Plan(cmd)) = 2 /\ Plan(cmd)[1] = a /\ Plan(cmd)[2] = b
      BY <3>3, <3>4, <3>5
    <3> QED BY <1>2, <2>2, <2>5, <3>6
  <2> QED BY <2>4, <2>5
<1> QED BY <1>1, <1>2

(* The first n events of its plan are appended, and the window is told.    *)
Served(cmd, n, ok) ==
  /\ cmd \in Asks
  /\ n \in Nat /\ ok \in BOOLEAN
  /\ journal' \in Seq(Entry)
  /\ Len(journal') = Len(journal) + n
  /\ \A i \in 1..Len(journal) : journal'[i] = journal[i]
  /\ cmd.kind # "committed" => IF ok THEN n = 1 /\ journal'[Len(journal) + 1] = cmd ELSE n = 0
  /\ cmd.kind = "committed" =>
       /\ n <= 2
       /\ n >= 1 => journal'[Len(journal) + 1].kind = "committed"
       /\ n = 2 => /\ journal'[Len(journal) + 2].kind = "given"
                   /\ journal'[Len(journal) + 2].of = cmd.of
                   /\ journal'[Len(journal) + 2].with = cmd.with
       /\ ok => IF cmd.with.memories = {} THEN n = 1 ELSE n = 2
       /\ ~ok => n <= 1
  /\ notices' = Append(notices, Notice(ok, cmd, IF ok THEN Len(journal) + 1 .. Len(journal) + n ELSE {}))

LEMMA AppendFacts ==
  ASSUME NEW S, NEW s \in Seq(S), NEW p \in Seq(S), NEW n \in 0..Len(p), NEW r, r = s \o SubSeq(p, 1, n)
  PROVE  /\ r \in Seq(S)
         /\ Len(r) = Len(s) + n
         /\ \A i \in 1..Len(s) : r[i] = s[i]
         /\ \A j \in 1..n : r[Len(s) + j] = p[j]
<1> DEFINE q == SubSeq(p, 1, n)
<1>1. q \in Seq(S) /\ Len(q) = n /\ \A j \in 1..n : q[j] = p[j]
  OBVIOUS
<1>2. n \in Nat /\ Len(s) \in Nat
  OBVIOUS
<1> HIDE DEF q
<1>3. /\ s \o q \in Seq(S) /\ Len(s \o q) = Len(s) + Len(q)
      /\ \A i \in 1..(Len(s) + Len(q)) : (s \o q)[i] = IF i <= Len(s) THEN s[i] ELSE q[i - Len(s)]
  BY <1>1, ConcatProperties
<1>4. r = s \o q
  BY DEF q
<1>5. \A i \in 1..Len(s) : i \in 1..(Len(s) + n) /\ i <= Len(s)
  BY <1>2
<1>6. \A j \in 1..n : Len(s) + j \in 1..(Len(s) + n) /\ ~(Len(s) + j <= Len(s)) /\ (Len(s) + j) - Len(s) = j
  BY <1>2
<1> QED BY <1>1, <1>3, <1>4, <1>5, <1>6

LEMMA ServeFacts ==
  ASSUME ShapeInv, Serve
  PROVE  /\ queue # <<>> /\ queue' = Tail(queue) /\ Head(queue) = queue[1] /\ 1 \in DOMAIN queue
         /\ \E n, ok : Served(Head(queue), n, ok)
<1> DEFINE cmd == Head(queue)
           plan == Plan(cmd)
           Told(ok, new) == notices' = Append(notices, Notice(ok, cmd, new))
<1>1. queue # <<>> /\ queue' = Tail(queue) /\ cmd \in Asks /\ cmd = queue[1] /\ 1 \in DOMAIN queue
  BY DEF Serve, ShapeInv
<1>2. \/ /\ journal' = journal \o plan
         /\ Told(TRUE, Len(journal) + 1 .. Len(journal) + Len(plan))
      \/ journal' = journal /\ Told(FALSE, {})
      \/ \E n \in 0..Len(plan) - 1 : journal' = journal \o SubSeq(plan, 1, n) /\ Told(FALSE, {})
  BY DEF Serve
<1>3. /\ plan \in Seq(Entry) /\ Len(plan) \in 1..2
      /\ cmd.kind # "committed" => Len(plan) = 1 /\ plan[1] = cmd
      /\ cmd.kind = "committed" =>
           /\ plan[1].kind = "committed"
           /\ cmd.with.memories = {} => Len(plan) = 1
           /\ cmd.with.memories # {} =>
                Len(plan) = 2 /\ plan[2].kind = "given" /\ plan[2].of = cmd.of /\ plan[2].with = cmd.with
  BY <1>1, PlanFacts
<1>4. journal \in Seq(Entry) /\ Len(journal) \in Nat
  BY DEF ShapeInv
<1> HIDE DEF plan, cmd
<1>5. ASSUME NEW n \in 0..Len(plan), NEW ok \in BOOLEAN, journal' = journal \o SubSeq(plan, 1, n),
             IF ok THEN n = Len(plan) ELSE n < Len(plan),
             Told(ok, IF ok THEN Len(journal) + 1 .. Len(journal) + n ELSE {})
      PROVE  Served(cmd, n, ok)
  <2>1. /\ journal' \in Seq(Entry) /\ Len(journal') = Len(journal) + n
        /\ \A i \in 1..Len(journal) : journal'[i] = journal[i]
        /\ \A j \in 1..n : journal'[Len(journal) + j] = plan[j]
    BY <1>3, <1>4, <1>5, AppendFacts
  <2>2. n \in Nat /\ (n >= 1 => 1 \in 1..n) /\ (n = 2 => 2 \in 1..n)
    BY <1>3
  <2>a. (ok => n = Len(plan)) /\ (~ok => n <= 1 /\ (Len(plan) = 1 => n = 0)) /\ n <= 2
    <3> DEFINE l == Len(plan)
    <3>0. l \in 1..2 /\ n \in 0..l /\ (IF ok THEN n = l ELSE n < l)
      BY <1>3, <1>5
    <3> HIDE DEF l
    <3>1. (ok => n = l) /\ (~ok => n <= 1 /\ (l = 1 => n = 0)) /\ n <= 2
      BY <3>0
    <3> QED BY <3>1 DEF l
  <2>b. /\ n >= 1 => journal'[Len(journal) + 1] = plan[1]
        /\ n = 2 => journal'[Len(journal) + 2] = plan[2] /\ Len(plan) = 2
    BY <1>3, <2>1, <2>2, <2>a
  <2>c. cmd.kind = "committed" => (Len(plan) = 2 => cmd.with.memories # {})
    BY <1>3
  <2>3. cmd.kind # "committed" => IF ok THEN n = 1 /\ journal'[Len(journal) + 1] = cmd ELSE n = 0
    <3>1. CASE ok
      BY <1>3, <2>a, <2>b, <3>1
    <3>2. CASE ~ok
      BY <1>3, <2>a, <3>2
    <3> QED BY <3>1, <3>2
  <2>4. cmd.kind = "committed" =>
          /\ n <= 2
          /\ n >= 1 => journal'[Len(journal) + 1].kind = "committed"
          /\ n = 2 => /\ journal'[Len(journal) + 2].kind = "given"
                      /\ journal'[Len(journal) + 2].of = cmd.of
                      /\ journal'[Len(journal) + 2].with = cmd.with
          /\ ok => IF cmd.with.memories = {} THEN n = 1 ELSE n = 2
          /\ ~ok => n <= 1
    <3> SUFFICES ASSUME cmd.kind = "committed"
        PROVE /\ n <= 2
              /\ n >= 1 => journal'[Len(journal) + 1].kind = "committed"
              /\ n = 2 => /\ journal'[Len(journal) + 2].kind = "given"
                          /\ journal'[Len(journal) + 2].of = cmd.of
                          /\ journal'[Len(journal) + 2].with = cmd.with
              /\ ok => IF cmd.with.memories = {} THEN n = 1 ELSE n = 2
              /\ ~ok => n <= 1
      OBVIOUS
    <3>1. n >= 1 => journal'[Len(journal) + 1].kind = "committed"
      BY <1>3, <2>b
    <3>2. n = 2 => /\ journal'[Len(journal) + 2].kind = "given"
                   /\ journal'[Len(journal) + 2].of = cmd.of
                   /\ journal'[Len(journal) + 2].with = cmd.with
      BY <1>3, <2>b, <2>c
    <3>3. ok => IF cmd.with.memories = {} THEN n = 1 ELSE n = 2
      BY <1>3, <2>a
    <3>4. ~ok => n <= 1
      BY <2>a
    <3> QED BY <2>a, <3>1, <3>2, <3>3, <3>4
  <2> QED BY <1>1, <1>5, <2>1, <2>2, <2>3, <2>4 DEF Served, cmd
<1>6. SubSeq(plan, 1, Len(plan)) = plan /\ Len(plan) \in 0..Len(plan)
  BY <1>3
<1>7. CASE /\ journal' = journal \o plan
           /\ Told(TRUE, Len(journal) + 1 .. Len(journal) + Len(plan))
  <2>1. Served(cmd, Len(plan), TRUE)
    BY <1>5, <1>6, <1>7
  <2> QED BY <1>1, <2>1 DEF cmd
<1>8. CASE \E n \in 0..Len(plan) - 1 : journal' = journal \o SubSeq(plan, 1, n) /\ Told(FALSE, {})
  <2>1. PICK n \in 0..Len(plan) - 1 : journal' = journal \o SubSeq(plan, 1, n) /\ Told(FALSE, {})
    BY <1>8
  <2>2. n \in 0..Len(plan) /\ n < Len(plan)
    BY <1>3
  <2>3. Served(cmd, n, FALSE)
    BY <1>5, <2>1, <2>2
  <2> QED BY <1>1, <2>3 DEF cmd
<1>9. CASE journal' = journal /\ Told(FALSE, {})
  <2>1. Served(cmd, 0, FALSE)
    BY <1>1, <1>4, <1>9 DEF Served, cmd
  <2> QED BY <1>1, <2>1 DEF cmd
<1> QED BY <1>2, <1>7, <1>8, <1>9

LEMMA RecordedType ==
  ASSUME ShapeInv, NEW S \in SUBSET DOMAIN journal
  PROVE  Recorded(S) \subseteq Nat /\ Admitted(S, shown) \subseteq Nat
<1>0. \A i \in DOMAIN journal : journal[i] \in Entry
  BY DEF ShapeInv
<1>1. \A i \in DOMAIN journal : journal[i].of \in Nat
  BY <1>0 DEF Entry
<1>2. Recorded(S) \subseteq Nat
  BY <1>1 DEF Recorded, At
<1> QED BY <1>2 DEF Admitted

LEMMA UptoFacts ==
  ASSUME ShapeInv, known \subseteq DOMAIN journal
  PROVE  /\ Upto \in 0..Len(journal)
         /\ \A i \in known : i <= Upto
         /\ Upto \in known \/ Upto = 0
<1>1. Len(journal) \in Nat /\ DOMAIN journal = 1..Len(journal)
  BY DEF ShapeInv
<1>2. {0} \cup known \in SUBSET (0..Len(journal)) /\ {0} \cup known # {}
  BY <1>1
<1>3. Max({0} \cup known) \in {0} \cup known /\ \A i \in {0} \cup known : i <= Max({0} \cup known)
  BY <1>1, <1>2, Greatest
<1> QED BY <1>1, <1>2, <1>3 DEF Upto

LEMMA OfferedFacts ==
  ASSUME ShapeInv, TypeOK, NEW cmd \in Offered
  PROVE  cmd \in Asks /\ cmd.kind # "committed"
<1> DEFINE P(x) == x \in Asks /\ x.kind # "committed"
<1>1. ASSUME NEW kind \in MemoryKind, NEW m \in Nat, NEW w \in Conversation \cup Nat PROVE P(Event(kind, m, w))
  BY DEF Event, Asks, Entry, Kind, MemoryKind
<1>2. Recorded(known) \subseteq Nat /\ shown \in Conversation
  BY RecordedType DEF TypeOK
<1>3. Memory \subseteq Nat
  BY DEF Memory
<1>4. \/ \E m \in Memory : cmd = Event("recorded", m, shown)
      \/ \E m \in Recorded(known) : cmd = Event("admitted", m, shown)
      \/ \E m \in Recorded(known) : cmd = Event("excluded", m, shown)
      \/ \E a \in Recorded(known), b \in Recorded(known) : cmd = Event("superseded", a, b)
      \/ \E m \in Recorded(known) : cmd = Event("labelled", m, 0)
      \/ \E m \in Recorded(known) : cmd = Event("unlabelled", m, 0)
  BY DEF Offered
<1>5. {"recorded", "admitted", "excluded", "superseded", "labelled", "unlabelled"} \subseteq MemoryKind /\ 0 \in Nat
  BY DEF MemoryKind
<1> HIDE DEF P
<1>6. P(cmd)
  BY <1>1, <1>2, <1>3, <1>4, <1>5
<1> QED BY <1>6 DEF P

LEMMA HearFacts ==
  ASSUME ShapeInv, Hear
  PROVE  /\ notices # <<>> /\ notices' = Tail(notices)
         /\ Head(notices) = notices[1] /\ 1 \in DOMAIN notices /\ Head(notices) \in Answer
         /\ \A k \in DOMAIN notices' : k + 1 \in DOMAIN notices /\ notices'[k] = notices[k + 1] /\ 1 < k + 1 /\ k \in Nat
         /\ UNCHANGED <<journal, queue, shown, turns, faults>>
         /\ HearMemory(Head(notices)) \/ HearCommit(Head(notices)) \/ HearCommitFailed(Head(notices))
<1>1. notices # <<>> /\ notices' = Tail(notices) /\ notices \in Seq(Answer)
  BY DEF Hear, ShapeInv
<1>2. Head(notices) = notices[1] /\ 1 \in DOMAIN notices /\ Head(notices) \in Answer
  BY <1>1
<1>3. \A k \in DOMAIN notices' : k + 1 \in DOMAIN notices /\ notices'[k] = notices[k + 1] /\ 1 < k + 1 /\ k \in Nat
  BY <1>1
<1> QED BY <1>1, <1>2, <1>3 DEF Hear

(* A message that leaves is frozen from the window's copy. *)
LEMMA SendFacts ==
  ASSUME ShapeInv, TypeOK, Send
  PROVE  /\ sending = NoMessage /\ turns' = turns + 1 /\ turns' \in 1..MaxTurns
         /\ UNCHANGED <<journal, notices, known, pending, shown, selected, chosen, asked, faults>>
         /\ sending' \in Frozen /\ sending' # NoMessage
         /\ sending'.turn = turns' /\ sending'.upto = Upto
         /\ sending'.remote => sending'.admitted = Admitted(known, shown)
         /\ sending'.memories \subseteq selected[shown] /\ sending'.memories \subseteq Eligible(known, shown)
         /\ \E cmd \in Asks : /\ queue' = Append(queue, cmd)
                              /\ cmd.kind = "committed" /\ cmd.of = turns'
                              /\ cmd.with.memories = sending'.memories /\ cmd.with.conversation = shown
<1>1. /\ sending = NoMessage /\ turns' = turns + 1
      /\ UNCHANGED <<journal, notices, known, pending, shown, selected, chosen, asked, faults>>
  BY DEF Send
<1>2. turns' \in 1..MaxTurns /\ turns' \in Nat
  BY <1>1, LocalMemoryAssumption DEF Send, TypeOK
<1>3. Upto \in Nat /\ Admitted(known, shown) \subseteq Nat /\ shown \in Conversation /\ selected[shown] \subseteq Nat
  BY UptoFacts, RecordedType DEF TypeOK, Memory, ShapeInv
<1> DEFINE once(remote) == IF remote THEN selected[shown] ELSE {}
           freight(remote) == [conversation |-> shown, memories |-> once(remote),
                               upto |-> IF once(remote) = {} THEN 0 ELSE Upto]
<1>4. PICK remote \in BOOLEAN :
         /\ once(remote) \subseteq Eligible(known, shown)
         /\ sending' = [ turn |-> turns', remote |-> remote,
                         admitted |-> IF remote THEN Admitted(known, shown) ELSE {},
                         memories |-> once(remote), upto |-> Upto ]
         /\ queue' = Append(queue, Event("committed", turns', freight(remote)))
  BY DEF Send
<1>5. once(remote) \subseteq selected[shown] /\ once(remote) \subseteq Nat
  BY <1>3
<1>6. freight(remote) \in Freight
  BY <1>3, <1>5 DEF Freight
<1>7. Event("committed", turns', freight(remote)) \in Asks
  BY <1>2, <1>6 DEF Event, Asks, Entry, Kind
<1>8. sending' \in Frozen
  BY <1>2, <1>3, <1>4, <1>5 DEF Frozen
<1>9. sending'.turn = turns' /\ sending' # NoMessage
  BY <1>2, <1>4 DEF NoMessage
<1>10. /\ Event("committed", turns', freight(remote)).kind = "committed"
       /\ Event("committed", turns', freight(remote)).of = turns'
       /\ Event("committed", turns', freight(remote)).with.memories = sending'.memories
       /\ Event("committed", turns', freight(remote)).with.conversation = shown
  BY <1>4 DEF Event
<1> HIDE DEF freight
<1> QED BY <1>1, <1>2, <1>4, <1>5, <1>7, <1>8, <1>9, <1>10

LEMMA ServeKeeps ==
  ASSUME Serve
  PROVE  UNCHANGED <<known, pending, shown, selected, sending, turns, chosen, asked>>
         /\ (faults' = faults \/ (faults < MaxFaults /\ faults' = faults + 1))
BY DEF Serve, window

LEMMA ShapeStep ==
  ASSUME ShapeInv, TypeOK, [Next]_vars
  PROVE  ShapeInv'
<1>0. journal \in Seq(Entry) /\ queue \in Seq(Asks) /\ notices \in Seq(Answer) /\ sending \in Frozen
  BY DEF ShapeInv
<1>n. NoMessage \in Frozen
  BY DEF NoMessage, Frozen
<1>1. CASE Serve
  <2>1. /\ queue # <<>> /\ queue' = Tail(queue)
        /\ \E n, ok : Served(Head(queue), n, ok)
    BY <1>1, ServeFacts
  <2>2. PICK n, ok : Served(Head(queue), n, ok)
    BY <2>1
  <2> DEFINE new == IF ok THEN Len(journal) + 1 .. Len(journal) + n ELSE {}
             a == Notice(ok, Head(queue), new)
  <2>3. new \in SUBSET Nat
    BY <1>0, <2>2 DEF Served
  <2> HIDE DEF new
  <2>4. a \in Answer
    BY <2>2, <2>3 DEF Served, Answer, Notice
  <2>5. notices' = Append(notices, a) /\ journal' \in Seq(Entry)
    BY <2>2 DEF Served, new
  <2> HIDE DEF a
  <2>6. queue' \in Seq(Asks) /\ notices' \in Seq(Answer)
    BY <1>0, <2>1, <2>4, <2>5
  <2> QED BY <1>0, <1>1, <2>5, <2>6, ServeKeeps DEF ShapeInv
<1>2. CASE Hear
  <2>1. notices # <<>> /\ notices' = Tail(notices) /\ queue' = queue /\ journal' = journal
        /\ (sending' = sending \/ sending' = NoMessage)
    BY <1>2, HearFacts DEF HearMemory, HearCommit, HearCommitFailed
  <2>2. notices' \in Seq(Answer)
    BY <1>0, <2>1
  <2> QED BY <1>0, <1>n, <2>1, <2>2 DEF ShapeInv
<1>3. CASE UserAsks
  <2>1. PICK cmd \in Offered : queue' = Append(queue, cmd)
    BY <1>3 DEF UserAsks
  <2>2. cmd \in Asks
    BY OfferedFacts
  <2>3. queue' \in Seq(Asks)
    BY <1>0, <2>1, <2>2
  <2> QED BY <1>0, <1>3, <2>3 DEF UserAsks, ShapeInv
<1>4. CASE Send
  <2>1. PICK cmd \in Asks : queue' = Append(queue, cmd)
    BY <1>4, SendFacts
  <2>2. queue' \in Seq(Asks)
    BY <1>0, <2>1
  <2> QED BY <1>0, <1>4, <2>2, SendFacts DEF ShapeInv
<1>5. CASE Restart
  <2>1. queue' = <<>> /\ notices' = <<>> /\ journal' = journal /\ sending' = NoMessage
    BY <1>5 DEF Restart
  <2>2. queue' \in Seq(Asks) /\ notices' \in Seq(Answer)
    BY <2>1, EmptySeq
  <2> QED BY <1>0, <1>n, <2>1, <2>2 DEF ShapeInv
<1>6. CASE (\E c \in Conversation : Show(c)) \/ (\E m \in Memory : UseOnce(m) \/ RemoveOnce(m)) \/ UNCHANGED vars
  BY <1>0, <1>6 DEF Show, UseOnce, RemoveOnce, vars, window, ShapeInv
<1> QED BY <1>1, <1>2, <1>3, <1>4, <1>5, <1>6 DEF Next
-----------------------------------------------------------------------------
(* The invariant is kept, part by part. *)

LEMMA HeardNews ==
  ASSUME ShapeInv, NewsInv, Hear
  PROVE  known' = known \cup Head(notices).new
<1>1. /\ HearMemory(Head(notices)) \/ HearCommit(Head(notices)) \/ HearCommitFailed(Head(notices))
      /\ Head(notices) = notices[1] /\ 1 \in DOMAIN notices
  BY HearFacts
<1>2. ~notices[1].ok => notices[1].new = {}
  BY <1>1 DEF NewsInv
<1> QED BY <1>1, <1>2 DEF HearMemory, HearCommit, HearCommitFailed

(* What hearing does to the choices. *)
LEMMA HeardChoices ==
  ASSUME ShapeInv, TypeOK, Hear
  PROVE  /\ selected' \in [Conversation -> SUBSET Memory]
         /\ chosen' \in [Conversation -> SUBSET Memory]
         /\ \A c \in Conversation : selected'[c] \subseteq selected[c] /\ chosen'[c] \subseteq chosen[c]
<1> DEFINE n == Head(notices)
<1>0. selected \in [Conversation -> SUBSET Memory] /\ chosen \in [Conversation -> SUBSET Memory]
  BY DEF TypeOK
<1>1. HearMemory(n) \/ HearCommit(n) \/ HearCommitFailed(n)
  BY HearFacts
<1> HIDE DEF n
<1>2. CASE HearMemory(n)
  <2> DEFINE S == known \cup n.new
  <2>1. chosen' = chosen /\ (selected' = selected \/ selected' = Dropped(n))
    BY <1>2 DEF HearMemory
  <2>2. \/ Dropped(n) = [c \in Conversation |-> IF Decided(S, n.of.of, c, "admitted")
                                              THEN selected[c] \ {n.of.of} ELSE selected[c]]
        \/ Dropped(n) = [c \in Conversation |-> selected[c] \ {n.of.of}]
        \/ Dropped(n) = selected
    BY DEF Dropped
  <2> HIDE DEF S
  <2> QED BY <1>0, <2>1, <2>2
<1>3. CASE HearCommit(n)
  <2>1. selected' = selected \/ selected' = [selected EXCEPT ![n.of.with.conversation] = {}]
    BY <1>3 DEF HearCommit, LeftAfterUse
  <2>2. chosen' = chosen \/ \E once : chosen' = [chosen EXCEPT ![n.of.with.conversation] = @ \ once]
    BY <1>3 DEF HearCommit
  <2>3. selected' \in [Conversation -> SUBSET Memory] /\ \A c \in Conversation : selected'[c] \subseteq selected[c]
    BY <1>0, <2>1
  <2>4. chosen' \in [Conversation -> SUBSET Memory] /\ \A c \in Conversation : chosen'[c] \subseteq chosen[c]
    BY <1>0, <2>2
  <2> QED BY <2>3, <2>4
<1>4. CASE HearCommitFailed(n)
  BY <1>0, <1>4 DEF HearCommitFailed
<1> QED BY <1>1, <1>2, <1>3, <1>4

LEMMA TypeStep ==
  ASSUME ShapeInv, TypeOK, NewsInv, [Next]_vars
  PROVE  TypeOK'
<1>0. /\ known \subseteq DOMAIN journal /\ pending \in BOOLEAN /\ sending.remote \in BOOLEAN
      /\ shown \in Conversation
      /\ selected \in [Conversation -> SUBSET Memory] /\ chosen \in [Conversation -> SUBSET Memory]
      /\ sending.turn \in 0..turns /\ turns \in 0..MaxTurns /\ faults \in 0..MaxFaults
      /\ MaxTurns \in Nat /\ MaxFaults \in Nat
      /\ Len(journal) \in Nat /\ DOMAIN journal = 1..Len(journal)
  BY LocalMemoryAssumption DEF TypeOK, ShapeInv
<1>n. NoMessage.remote = FALSE /\ NoMessage.turn = 0
  BY DEF NoMessage
<1>1. CASE Serve
  <2>1. PICK n, ok : Served(Head(queue), n, ok)
    BY <1>1, ServeFacts
  <2>2. DOMAIN journal \subseteq DOMAIN journal'
    <3>1. n \in Nat /\ Len(journal') = Len(journal) + n /\ journal' \in Seq(Entry)
      BY <2>1 DEF Served
    <3>2. DOMAIN journal' = 1..(Len(journal) + n)
      BY <3>1
    <3> QED BY <1>0, <3>1, <3>2
  <2>3. faults' \in 0..MaxFaults
    BY <1>0, <1>1, ServeKeeps
  <2> QED BY <1>0, <1>1, <2>2, <2>3, ServeKeeps DEF TypeOK
<1>2. CASE Hear
  <2>1. known' \subseteq DOMAIN journal
    <3>1. notices[1].new \subseteq DOMAIN journal /\ Head(notices) = notices[1]
      BY <1>2, HearFacts DEF NewsInv
    <3> QED BY <1>0, <1>2, <3>1, HeardNews
  <2>2. UNCHANGED <<journal, shown, turns, faults>>
    BY <1>2, HearFacts
  <2>3. (pending' = pending \/ pending' = FALSE) /\ (sending' = sending \/ sending' = NoMessage)
    BY <1>2, HearFacts DEF HearMemory, HearCommit, HearCommitFailed
  <2>4. sending'.remote \in BOOLEAN /\ sending'.turn \in 0..turns
    <3>1. CASE sending' = sending
      BY <1>0, <3>1
    <3>2. CASE sending' = NoMessage
      <4>1. sending'.remote = FALSE /\ sending'.turn = 0
        BY <1>n, <3>2
      <4>2. turns \in Nat
        BY <1>0
      <4>3. 0 \in 0..turns
        BY <4>2
      <4> QED BY <4>1, <4>3
    <3> QED BY <2>3, <3>1, <3>2
  <2> QED BY <1>0, <1>2, <2>1, <2>2, <2>3, <2>4, HeardChoices DEF TypeOK
<1>3. CASE UserAsks
  BY <1>0, <1>3 DEF UserAsks, TypeOK
<1>4. CASE Send
  <2>1. sending'.remote \in BOOLEAN /\ sending'.turn \in 0..turns' /\ turns' \in 0..MaxTurns
    BY <1>0, <1>4, SendFacts DEF Frozen
  <2> QED BY <1>0, <1>4, <2>1, SendFacts DEF TypeOK
<1>5. CASE Restart
  <2>1. [c \in Conversation |-> {}] \in [Conversation -> SUBSET Memory]
    OBVIOUS
  <2>2. faults' \in 0..MaxFaults
    BY <1>0, <1>5 DEF Restart
  <2>3. sending'.remote = FALSE /\ sending'.turn \in 0..turns
    BY <1>0, <1>n, <1>5 DEF Restart
  <2> QED BY <1>0, <1>5, <2>1, <2>2, <2>3 DEF Restart, TypeOK
<1>6. ASSUME NEW c \in Conversation, Show(c) PROVE TypeOK'
  BY <1>0, <1>6 DEF Show, TypeOK
<1>7. ASSUME NEW m \in Memory, UseOnce(m) \/ RemoveOnce(m) PROVE TypeOK'
  <2>1. \/ /\ selected' = [selected EXCEPT ![shown] = @ \cup {m}]
           /\ chosen' = [chosen EXCEPT ![shown] = @ \cup {m}]
        \/ /\ selected' = [selected EXCEPT ![shown] = @ \ {m}]
           /\ chosen' = [chosen EXCEPT ![shown] = @ \ {m}]
    BY <1>7 DEF UseOnce, RemoveOnce
  <2>2. selected' \in [Conversation -> SUBSET Memory] /\ chosen' \in [Conversation -> SUBSET Memory]
    BY <1>0, <2>1
  <2> QED BY <1>0, <1>7, <2>2 DEF UseOnce, RemoveOnce, TypeOK
<1>8. CASE UNCHANGED vars
  BY <1>0, <1>8 DEF vars, window, TypeOK
<1> QED BY <1>1, <1>2, <1>3, <1>4, <1>5, <1>6, <1>7, <1>8 DEF Next

(* The news of one notice. *)
NewsOf(log, seen, n) ==
  /\ n.new \subseteq DOMAIN log
  /\ \A i \in seen, j \in n.new : i < j
  /\ ~n.ok => n.new = {}
  /\ n.ok /\ n.of.kind # "committed" => \E i \in n.new : n.new = {i} /\ log[i] = n.of
  /\ n.of.kind = "committed" => \A i \in n.new : log[i].kind \in {"committed", "given"}

NewsIn(log, line, seen) ==
  /\ \A k \in DOMAIN line : NewsOf(log, seen, line[k])
  /\ \A k, l \in DOMAIN line : k < l => \A i \in line[k].new, j \in line[l].new : i < j
  /\ \A i \in DOMAIN log :
       log[i].kind \in MemoryKind => i \in seen \/ \E k \in DOMAIN line : i \in line[k].new

LEMMA NewsForm ==
  /\ NewsInv <=> NewsIn(journal, notices, known)
  /\ NewsInv' <=> NewsIn(journal', notices', known')
BY DEF NewsInv, NewsIn, NewsOf

LEMMA ServedNews ==
  ASSUME ShapeInv, TypeOK, NewsInv, NEW cmd, NEW n, NEW ok, Served(cmd, n, ok), known' = known
  PROVE  NewsInv'
<1> DEFINE new == IF ok THEN Len(journal) + 1 .. Len(journal) + n ELSE {}
           a == Notice(ok, cmd, new)
           L == Len(journal)
<1>1. /\ journal \in Seq(Entry) /\ L \in Nat /\ DOMAIN journal = 1..L /\ notices \in Seq(Answer)
      /\ known \subseteq 1..L
  BY DEF ShapeInv, TypeOK
<1>2. /\ n \in Nat /\ ok \in BOOLEAN /\ cmd \in Asks
      /\ journal' \in Seq(Entry) /\ Len(journal') = L + n
      /\ \A i \in 1..L : journal'[i] = journal[i]
      /\ notices' = Append(notices, a)
  BY DEF Served
<1>3. /\ a.ok = ok /\ a.of = cmd /\ a.new = new
      /\ DOMAIN journal' = 1..(L + n)
  BY <1>2 DEF Notice
<1>4. \A k \in DOMAIN notices : k \in DOMAIN notices' /\ notices'[k] = notices[k]
  BY <1>1, <1>2
<1>5. /\ Len(notices) \in Nat /\ DOMAIN notices = 1..Len(notices)
      /\ DOMAIN notices' = 1..(Len(notices) + 1) /\ notices'[Len(notices) + 1] = a
  BY <1>1, <1>2
<1>6. \A i \in new : i \in 1..(L + n) /\ L < i
  BY <1>1, <1>2
<1>7. NewsIn(journal, notices, known)
  BY NewsForm
<1>8. ASSUME NEW i \in DOMAIN journal', i \notin 1..L
      PROVE  IF cmd.kind = "committed" THEN journal'[i].kind \in {"committed", "given"}
             ELSE ok /\ new = {i} /\ journal'[i] = cmd
  <2>1. i \in L + 1 .. L + n
    BY <1>1, <1>2, <1>3, <1>8
  <2>2. CASE cmd.kind # "committed"
    <3>1. ok /\ n = 1 /\ journal'[L + 1] = cmd
      BY <1>1, <1>2, <2>1, <2>2 DEF Served
    <3>2. i = L + 1 /\ new = {i}
      BY <1>1, <2>1, <3>1
    <3> QED BY <2>2, <3>1, <3>2
  <2>3. CASE cmd.kind = "committed"
    <3>1. /\ n <= 2
          /\ n >= 1 => journal'[L + 1].kind = "committed"
          /\ n = 2 => journal'[L + 2].kind = "given"
      BY <2>3 DEF Served
    <3>2. i = L + 1 \/ (i = L + 2 /\ n = 2)
      BY <1>1, <1>2, <2>1, <3>1
    <3>3. n >= 1
      BY <1>1, <1>2, <2>1
    <3> QED BY <2>3, <3>1, <3>2, <3>3
  <2> QED BY <2>2, <2>3
<1> HIDE DEF L
<1>9. NewsOf(journal', known, a)
  <2>1. a.new \subseteq DOMAIN journal'
    BY <1>3, <1>6
  <2>2. \A i \in known, j \in a.new : i < j
    <3> TAKE i \in known, j \in a.new
    <3>1. i \in 1..L /\ j \in 1..(L + n) /\ L < j /\ n \in Nat
      BY <1>1, <1>2, <1>3, <1>6
    <3> QED BY <1>1, <3>1
  <2>3. ~a.ok => a.new = {}
    BY <1>3
  <2>4. a.ok /\ a.of.kind # "committed" => \E i \in a.new : a.new = {i} /\ journal'[i] = a.of
    <3> SUFFICES ASSUME ok, cmd.kind # "committed" PROVE \E i \in new : new = {i} /\ journal'[i] = cmd
      BY <1>3
    <3>1. n = 1 /\ journal'[L + 1] = cmd
      BY DEF Served, L
    <3>2. new = {L + 1}
      BY <1>1, <3>1 DEF L
    <3> QED BY <3>1, <3>2
  <2>5. a.of.kind = "committed" => \A i \in a.new : journal'[i].kind \in {"committed", "given"}
    <3> SUFFICES ASSUME cmd.kind = "committed", NEW i \in new PROVE journal'[i].kind \in {"committed", "given"}
      BY <1>3
    <3>1. i \in DOMAIN journal' /\ i \notin 1..L
      BY <1>1, <1>3, <1>6
    <3> QED BY <1>8, <3>1
  <2> QED BY <2>1, <2>2, <2>3, <2>4, <2>5 DEF NewsOf
<1> HIDE DEF a, new
<1>10. ASSUME NEW k \in DOMAIN notices PROVE NewsOf(journal', known, notices[k]) /\ notices[k].new \subseteq 1..L
  <2>1. NewsOf(journal, known, notices[k])
    BY <1>7 DEF NewsIn
  <2>2. notices[k].new \subseteq 1..L
    BY <1>1, <2>1 DEF NewsOf
  <2>3. \A i \in 1..L : i \in DOMAIN journal' /\ journal'[i] = journal[i]
    BY <1>1, <1>2, <1>3
  <2> QED BY <2>1, <2>2, <2>3 DEF NewsOf
<1>11. \A k \in DOMAIN notices' : NewsOf(journal', known, notices'[k])
  <2> TAKE k \in DOMAIN notices'
  <2>1. k \in DOMAIN notices \/ k = Len(notices) + 1
    BY <1>5
  <2> QED BY <1>4, <1>5, <1>9, <1>10, <2>1
<1>12. \A k, l \in DOMAIN notices' : k < l => \A i \in notices'[k].new, j \in notices'[l].new : i < j
  <2> SUFFICES ASSUME NEW k \in DOMAIN notices', NEW l \in DOMAIN notices', k < l,
                      NEW i \in notices'[k].new, NEW j \in notices'[l].new
               PROVE  i < j
    OBVIOUS
  <2>1. k \in DOMAIN notices /\ (l \in DOMAIN notices \/ l = Len(notices) + 1)
    BY <1>5
  <2>2. notices'[k] = notices[k] /\ i \in 1..L
    BY <1>4, <1>10, <2>1
  <2>3. CASE l \in DOMAIN notices
    BY <1>4, <1>7, <2>1, <2>2, <2>3 DEF NewsIn
  <2>4. CASE l = Len(notices) + 1
    BY <1>1, <1>3, <1>5, <1>6, <2>2, <2>4
  <2> QED BY <2>1, <2>3, <2>4
<1>13. \A i \in DOMAIN journal' :
         journal'[i].kind \in MemoryKind => i \in known \/ \E k \in DOMAIN notices' : i \in notices'[k].new
  <2> SUFFICES ASSUME NEW i \in DOMAIN journal', journal'[i].kind \in MemoryKind
               PROVE  i \in known \/ \E k \in DOMAIN notices' : i \in notices'[k].new
    OBVIOUS
  <2>1. CASE i \in 1..L
    BY <1>1, <1>2, <1>4, <1>7, <2>1 DEF NewsIn
  <2>2. CASE i \notin 1..L
    <3>1. journal'[i].kind \notin {"committed", "given"}
      BY DEF MemoryKind
    <3>2. new = {i}
      BY <1>8, <2>2, <3>1
    <3>3. Len(notices) + 1 \in DOMAIN notices'
      BY <1>5
    <3> QED BY <1>3, <1>5, <3>2, <3>3
  <2> QED BY <2>1, <2>2
<1>14. NewsIn(journal', notices', known')
  BY <1>11, <1>12, <1>13 DEF NewsIn
<1> QED BY <1>14, NewsForm

LEMMA NewsStep ==
  ASSUME ShapeInv, TypeOK, NewsInv, [Next]_vars
  PROVE  NewsInv'
<1>1. CASE Serve
  <2>1. PICK n, ok : Served(Head(queue), n, ok)
    BY <1>1, ServeFacts
  <2> QED BY <1>1, <2>1, ServeKeeps, ServedNews
<1>2. CASE Hear
  <2>0. NewsIn(journal, notices, known) /\ 1 \in DOMAIN notices
    BY <1>2, HearFacts, NewsForm
  <2>1. known' = known \cup notices[1].new /\ journal' = journal
    BY <1>2, HeardNews, HearFacts
  <2>2. \A k \in DOMAIN notices' : k + 1 \in DOMAIN notices /\ notices'[k] = notices[k + 1] /\ 1 < k + 1 /\ k \in Nat
    BY <1>2, HearFacts
  <2>3. \A k \in DOMAIN notices' : NewsOf(journal', known', notices'[k])
    <3> TAKE k \in DOMAIN notices'
    <3>1. NewsOf(journal, known, notices[k + 1]) /\ \A i \in notices[1].new, j \in notices[k + 1].new : i < j
      BY <2>0, <2>2 DEF NewsIn
    <3> QED BY <2>1, <2>2, <3>1 DEF NewsOf
  <2>4. \A k, l \in DOMAIN notices' : k < l => \A i \in notices'[k].new, j \in notices'[l].new : i < j
    <3> TAKE k, l \in DOMAIN notices'
    <3>1. k < l => k + 1 < l + 1
      BY <2>2
    <3> QED BY <2>0, <2>2, <3>1 DEF NewsIn
  <2>5. \A i \in DOMAIN journal' :
          journal'[i].kind \in MemoryKind => i \in known' \/ \E k \in DOMAIN notices' : i \in notices'[k].new
    <3> SUFFICES ASSUME NEW i \in DOMAIN journal, journal[i].kind \in MemoryKind, i \notin known'
                 PROVE  \E k \in DOMAIN notices' : i \in notices'[k].new
      BY <2>1
    <3>1. PICK k \in DOMAIN notices : i \in notices[k].new
      BY <2>0, <2>1 DEF NewsIn
    <3>2. k # 1
      BY <2>1, <3>1
    <3>3. k - 1 \in DOMAIN notices' /\ notices'[k - 1] = notices[k]
      BY <1>2, <3>2, HearFacts DEF ShapeInv
    <3> QED BY <3>1, <3>3
  <2>6. NewsIn(journal', notices', known')
    BY <2>3, <2>4, <2>5 DEF NewsIn
  <2> QED BY <2>6, NewsForm
<1>3. CASE Restart
  <2>1. notices' = <<>> /\ known' = DOMAIN journal /\ journal' = journal
    BY <1>3 DEF Restart
  <2>2. NewsIn(journal', notices', known')
    BY <2>1 DEF NewsIn
  <2> QED BY <2>2, NewsForm
<1>4. ASSUME \/ UserAsks \/ Send \/ (\E c \in Conversation : Show(c))
             \/ (\E m \in Memory : UseOnce(m) \/ RemoveOnce(m)) \/ UNCHANGED vars
      PROVE  NewsInv'
  <2>1. journal' = journal /\ notices' = notices /\ known' = known
    BY <1>4 DEF UserAsks, Send, Show, UseOnce, RemoveOnce, vars, window
  <2> QED BY <2>1, NewsForm
<1> QED BY <1>1, <1>2, <1>3, <1>4 DEF Next

GivesIn(log, i, t) == log[i].kind = "given" /\ log[i].of = t

CarriedBy(s, t, here, cmd) ==
  s # NoMessage /\ cmd.of = t /\ cmd.with.memories = s.memories /\ cmd.with.conversation = here

(* The command that commits a message, and the notice of its commit.       *)
SentIn(log, line, news, s, t, here, i) ==
  /\ CarriedBy(s, t, here, line[i])
  /\ \A j \in DOMAIN log : ~GivesIn(log, j, t)
  /\ \A j \in DOMAIN line : line[j].kind = "committed" => j = i
  /\ \A k \in DOMAIN news : news[k].of.kind # "committed"

ToldIn(log, news, s, t, here, k) ==
  /\ CarriedBy(s, t, here, news[k].of)
  /\ \A l \in DOMAIN news : news[l].of.kind = "committed" => l = k
  /\ news[k].ok =>
       /\ \A j \in DOMAIN log : GivesIn(log, j, t) => j \in news[k].new /\ log[j].with.memories = s.memories
       /\ s.memories # {} => \E j \in news[k].new : GivesIn(log, j, t)

FlightIn(log, line, news, s, t, here, last) ==
  /\ s # NoMessage => s.turn = t /\ last < t
  /\ last \in 0..t
  /\ \A i \in DOMAIN log : log[i].kind = "given" => log[i].of \in 1..t
  /\ \A i \in DOMAIN line : line[i].kind = "committed" => SentIn(log, line, news, s, t, here, i)
  /\ \A k \in DOMAIN news : news[k].of.kind = "committed" => ToldIn(log, news, s, t, here, k)

LEMMA FlightForm ==
  /\ FlightInv <=> FlightIn(journal, queue, notices, sending, turns, shown, asked.turn)
  /\ FlightInv' <=> FlightIn(journal', queue', notices', sending', turns', shown', asked'.turn)
<1>1. FlightInv <=> FlightIn(journal, queue, notices, sending, turns, shown, asked.turn)
  BY DEF FlightInv, FlightIn, SentIn, ToldIn, CarriedBy, Carried, GivesIn, Gives
<1>2. FlightInv' <=> FlightIn(journal', queue', notices', sending', turns', shown', asked'.turn)
  BY DEF FlightInv, FlightIn, SentIn, ToldIn, CarriedBy, Carried, GivesIn, Gives
<1> QED BY <1>1, <1>2

LEMMA ServedFlight ==
  ASSUME ShapeInv, TypeOK, NewsInv, FlightInv, Serve, NEW n, NEW ok, Served(Head(queue), n, ok)
  PROVE  FlightInv'
<1> DEFINE cmd == Head(queue)
           new == IF ok THEN Len(journal) + 1 .. Len(journal) + n ELSE {}
           a == Notice(ok, cmd, new)
           L == Len(journal)
<1>1. /\ journal \in Seq(Entry) /\ L \in Nat /\ DOMAIN journal = 1..L /\ notices \in Seq(Answer)
      /\ queue \in Seq(Asks) /\ queue # <<>> /\ queue' = Tail(queue) /\ cmd = queue[1] /\ 1 \in DOMAIN queue
      /\ turns \in Nat
  BY ServeFacts, LocalMemoryAssumption DEF ShapeInv, TypeOK
<1>2. /\ n \in Nat /\ ok \in BOOLEAN /\ cmd \in Asks
      /\ journal' \in Seq(Entry) /\ Len(journal') = L + n
      /\ \A i \in 1..L : journal'[i] = journal[i]
      /\ notices' = Append(notices, a)
  BY DEF Served
<1>3. /\ a.ok = ok /\ a.of = cmd /\ a.new = new
      /\ DOMAIN journal' = 1..(L + n)
  BY <1>2 DEF Notice
<1>4. \A i \in DOMAIN queue' : i + 1 \in DOMAIN queue /\ queue'[i] = queue[i + 1] /\ i + 1 # 1 /\ i \in Nat
  BY <1>1
<1>5. /\ Len(notices) \in Nat /\ DOMAIN notices = 1..Len(notices)
      /\ DOMAIN notices' = 1..(Len(notices) + 1) /\ notices'[Len(notices) + 1] = a
      /\ \A k \in DOMAIN notices : notices'[k] = notices[k]
  BY <1>1, <1>2
<1>6. FlightIn(journal, queue, notices, sending, turns, shown, asked.turn)
  BY FlightForm
<1>7. UNCHANGED <<sending, turns, shown, asked>>
  BY ServeKeeps
<1>8. ASSUME NEW j \in DOMAIN journal', j \notin 1..L
      PROVE  /\ cmd.kind # "committed" => journal'[j] = cmd
             /\ cmd.kind = "committed" =>
                  \/ journal'[j].kind = "committed"
                  \/ /\ j = L + 2 /\ n = 2 /\ journal'[j].kind = "given"
                     /\ journal'[j].of = cmd.of /\ journal'[j].with = cmd.with
  <2>1. j \in L + 1 .. L + n
    BY <1>1, <1>2, <1>3, <1>8
  <2>2. CASE cmd.kind # "committed"
    <3>1. (ok /\ n = 1 /\ journal'[L + 1] = cmd) \/ n = 0
      BY <2>2 DEF Served
    <3>2. j = L + 1 /\ n = 1
      BY <1>1, <1>2, <2>1, <3>1
    <3> QED BY <2>2, <3>1, <3>2
  <2>3. CASE cmd.kind = "committed"
    <3>1. /\ n <= 2
          /\ n >= 1 => journal'[L + 1].kind = "committed"
          /\ n = 2 => journal'[L + 2].kind = "given" /\ journal'[L + 2].of = cmd.of /\ journal'[L + 2].with = cmd.with
      BY <2>3 DEF Served
    <3>2. j = L + 1 \/ (j = L + 2 /\ n = 2)
      BY <1>1, <1>2, <2>1, <3>1
    <3>3. n >= 1
      BY <1>1, <1>2, <2>1
    <3> QED BY <2>3, <3>1, <3>2, <3>3
  <2> QED BY <2>2, <2>3
<1>9. ok /\ cmd.kind = "committed" =>
        /\ new = L + 1 .. L + n
        /\ cmd.with.memories # {} =>
             n = 2 /\ journal'[L + 2].kind = "given" /\ journal'[L + 2].of = cmd.of
  BY DEF Served
<1>10. \A j \in 1..L : j \in DOMAIN journal' /\ journal'[j] = journal[j]
  BY <1>1, <1>2, <1>3
<1>11. cmd.kind # "given"
  BY <1>2 DEF Asks
<1> HIDE DEF a, new, L, cmd
<1>12. CASE cmd.kind = "committed"
  <2>1. SentIn(journal, queue, notices, sending, turns, shown, 1)
    BY <1>1, <1>6, <1>12 DEF FlightIn
  <2>2. /\ sending # NoMessage /\ cmd.of = turns /\ cmd.with.memories = sending.memories
        /\ cmd.with.conversation = shown
        /\ \A j \in 1..L : ~GivesIn(journal', j, turns)
    BY <1>1, <1>10, <2>1 DEF SentIn, CarriedBy, GivesIn
  <2>3. turns \in 1..turns
    BY <1>1, <1>6, <2>2 DEF FlightIn
  <2>4. \A j \in DOMAIN journal' : journal'[j].kind = "given" => journal'[j].of \in 1..turns
    <3> TAKE j \in DOMAIN journal'
    <3>1. CASE j \in 1..L
      BY <1>1, <1>6, <1>10, <3>1 DEF FlightIn
    <3>2. CASE j \notin 1..L
      BY <1>8, <1>12, <2>2, <2>3, <3>2
    <3> QED BY <3>1, <3>2
  <2>5. \A i \in DOMAIN queue' : queue'[i].kind # "committed"
    BY <1>4, <2>1 DEF SentIn
  <2>6. \A k \in DOMAIN notices' : notices'[k].of.kind = "committed" => k = Len(notices) + 1
    <3> TAKE k \in DOMAIN notices'
    <3>1. k \in DOMAIN notices \/ k = Len(notices) + 1
      BY <1>5
    <3> QED BY <1>5, <2>1, <3>1 DEF SentIn
  <2>7. ToldIn(journal', notices', sending, turns, shown, Len(notices) + 1)
    <3>1. CarriedBy(sending, turns, shown, a.of)
      BY <1>3, <2>2 DEF CarriedBy
    <3>2. ASSUME ok, NEW j \in DOMAIN journal', GivesIn(journal', j, turns)
          PROVE  j \in new /\ journal'[j].with.memories = sending.memories
      <4>1. j \notin 1..L
        BY <2>2, <3>2
      <4>2. j = L + 2 /\ n = 2 /\ journal'[j].with = cmd.with
        BY <1>8, <1>12, <3>2, <4>1 DEF GivesIn
      <4>3. new = L + 1 .. L + n
        BY <1>9, <1>12, <3>2
      <4>4. L + 2 \in L + 1 .. L + n
        BY <1>1, <4>2
      <4> QED BY <2>2, <4>2, <4>3, <4>4
    <3>3. ASSUME ok, sending.memories # {} PROVE \E j \in new : GivesIn(journal', j, turns)
      <4>1. new = L + 1 .. L + n /\ n = 2 /\ journal'[L + 2].kind = "given" /\ journal'[L + 2].of = cmd.of
        BY <1>9, <1>12, <2>2, <3>3
      <4>2. L + 2 \in new
        BY <1>1, <4>1
      <4> QED BY <2>2, <4>1, <4>2 DEF GivesIn
    <3> QED BY <1>3, <1>5, <2>6, <3>1, <3>2, <3>3 DEF ToldIn
  <2>8. FlightIn(journal', queue', notices', sending', turns', shown', asked'.turn)
    BY <1>6, <1>7, <2>4, <2>5, <2>6, <2>7 DEF FlightIn
  <2> QED BY <2>8, FlightForm
<1>13. CASE cmd.kind # "committed"
  <2>1. \A j \in DOMAIN journal' : journal'[j].kind = "given" => j \in DOMAIN journal /\ journal'[j] = journal[j]
    <3> TAKE j \in DOMAIN journal'
    <3>1. CASE j \in 1..L
      BY <1>1, <1>10, <3>1
    <3>2. CASE j \notin 1..L
      BY <1>8, <1>11, <1>13, <3>2
    <3> QED BY <3>1, <3>2
  <2>2. \A k \in DOMAIN notices' : notices'[k].of.kind = "committed" => k \in DOMAIN notices /\ notices'[k] = notices[k]
    <3> TAKE k \in DOMAIN notices'
    <3>1. k \in DOMAIN notices \/ k = Len(notices) + 1
      BY <1>5
    <3> QED BY <1>3, <1>5, <1>13, <3>1
  <2>3. ASSUME NEW i \in DOMAIN queue', queue'[i].kind = "committed"
        PROVE  SentIn(journal', queue', notices', sending, turns, shown, i)
    <3>1. i + 1 \in DOMAIN queue /\ queue'[i] = queue[i + 1] /\ i \in Nat
      BY <1>4
    <3>2. SentIn(journal, queue, notices, sending, turns, shown, i + 1)
      BY <1>6, <2>3, <3>1 DEF FlightIn
    <3>3. \A j \in DOMAIN queue' : queue'[j].kind = "committed" => j = i
      <4> TAKE j \in DOMAIN queue'
      <4>1. queue'[j].kind = "committed" => j + 1 = i + 1
        BY <1>4, <3>2 DEF SentIn
      <4> QED BY <1>4, <3>1, <4>1
    <3> QED BY <2>1, <2>2, <3>1, <3>2, <3>3 DEF SentIn, GivesIn
  <2>4. ASSUME NEW k \in DOMAIN notices', notices'[k].of.kind = "committed"
        PROVE  ToldIn(journal', notices', sending, turns, shown, k)
    <3>1. k \in DOMAIN notices /\ notices'[k] = notices[k]
      BY <2>2, <2>4
    <3>2. ToldIn(journal, notices, sending, turns, shown, k)
      BY <1>6, <2>4, <3>1 DEF FlightIn
    <3>3. \A l \in DOMAIN notices' : notices'[l].of.kind = "committed" => l = k
      BY <2>2, <3>2 DEF ToldIn
    <3>4. ASSUME notices[k].ok, sending.memories # {} PROVE \E j \in notices[k].new : GivesIn(journal', j, turns)
      <4>1. PICK j \in notices[k].new : GivesIn(journal, j, turns)
        BY <3>2, <3>4 DEF ToldIn
      <4>2. j \in 1..L
        BY <1>1, <3>1 DEF NewsInv
      <4> QED BY <1>10, <4>1, <4>2 DEF GivesIn
    <3>5. ASSUME notices[k].ok, NEW j \in DOMAIN journal', GivesIn(journal', j, turns)
          PROVE  j \in notices[k].new /\ journal'[j].with.memories = sending.memories
      <4>1. j \in DOMAIN journal /\ journal'[j] = journal[j] /\ GivesIn(journal, j, turns)
        BY <2>1, <3>5 DEF GivesIn
      <4> QED BY <3>2, <3>5, <4>1 DEF ToldIn
    <3> QED BY <3>1, <3>2, <3>3, <3>4, <3>5 DEF ToldIn
  <2>5. \A j \in DOMAIN journal' : journal'[j].kind = "given" => journal'[j].of \in 1..turns
    BY <1>6, <2>1 DEF FlightIn
  <2>6. FlightIn(journal', queue', notices', sending', turns', shown', asked'.turn)
    BY <1>6, <1>7, <2>3, <2>4, <2>5 DEF FlightIn
  <2> QED BY <2>6, FlightForm
<1> QED BY <1>12, <1>13

LEMMA NoneFlies ==
  ASSUME FlightInv, sending = NoMessage
  PROVE  /\ \A i \in DOMAIN queue : queue[i].kind # "committed"
         /\ \A k \in DOMAIN notices : notices[k].of.kind # "committed"
<1>1. FlightIn(journal, queue, notices, sending, turns, shown, asked.turn)
  BY FlightForm
<1> QED BY <1>1 DEF FlightIn, SentIn, ToldIn, CarriedBy

(* A commit heard of is the only one there is. *)
LEMMA HeardFlight ==
  ASSUME ShapeInv, TypeOK, FlightInv, Hear, Head(notices).of.kind = "committed"
  PROVE  /\ \A i \in DOMAIN queue : queue[i].kind # "committed"
         /\ \A k \in DOMAIN notices' : notices'[k].of.kind # "committed"
         /\ ToldIn(journal, notices, sending, turns, shown, 1)
<1>1. FlightIn(journal, queue, notices, sending, turns, shown, asked.turn)
  BY FlightForm
<1>2. /\ Head(notices) = notices[1] /\ 1 \in DOMAIN notices
      /\ \A k \in DOMAIN notices' : k + 1 \in DOMAIN notices /\ notices'[k] = notices[k + 1] /\ 1 < k + 1 /\ k \in Nat
  BY HearFacts
<1>3. ToldIn(journal, notices, sending, turns, shown, 1)
  BY <1>1, <1>2 DEF FlightIn
<1>4. \A i \in DOMAIN queue : queue[i].kind # "committed"
  BY <1>1, <1>2 DEF FlightIn, SentIn
<1>5. \A k \in DOMAIN notices' : notices'[k].of.kind # "committed"
  <2> TAKE k \in DOMAIN notices'
  <2>1. k + 1 # 1
    BY <1>2
  <2> QED BY <1>2, <1>3, <2>1 DEF ToldIn
<1> QED BY <1>3, <1>4, <1>5

LEMMA FlightStep ==
  ASSUME ShapeInv, TypeOK, NewsInv, FlightInv, [Next]_vars
  PROVE  FlightInv'
<1>0. /\ FlightIn(journal, queue, notices, sending, turns, shown, asked.turn)
      /\ turns \in Nat /\ queue \in Seq(Asks)
  BY FlightForm, LocalMemoryAssumption DEF TypeOK, ShapeInv
<1>1. CASE Serve
  <2>1. PICK n, ok : Served(Head(queue), n, ok)
    BY <1>1, ServeFacts
  <2> QED BY <1>1, <2>1, ServedFlight
<1>2. CASE Hear
  <2> DEFINE n == Head(notices)
  <2>1. /\ n = notices[1] /\ 1 \in DOMAIN notices
        /\ \A k \in DOMAIN notices' : k + 1 \in DOMAIN notices /\ notices'[k] = notices[k + 1] /\ 1 < k + 1 /\ k \in Nat
        /\ UNCHANGED <<journal, queue, shown, turns, faults>>
        /\ HearMemory(n) \/ HearCommit(n) \/ HearCommitFailed(n)
    BY <1>2, HearFacts
  <2>2. CASE n.of.kind = "committed"
    <3>1. /\ \A i \in DOMAIN queue : queue[i].kind # "committed"
          /\ \A k \in DOMAIN notices' : notices'[k].of.kind # "committed"
          /\ ToldIn(journal, notices, sending, turns, shown, 1)
      BY <1>2, <2>2, HeardFlight
    <3>2. n.of.of = turns
      BY <2>1, <3>1 DEF ToldIn, CarriedBy
    <3>3. sending' = NoMessage /\ (asked' = asked \/ asked'.turn = turns)
      BY <2>1, <2>2, <3>2 DEF HearMemory, HearCommit, HearCommitFailed, Request
    <3>4. asked'.turn \in 0..turns
      BY <1>0, <3>3 DEF FlightIn
    <3>5. FlightIn(journal', queue', notices', sending', turns', shown', asked'.turn)
      BY <1>0, <2>1, <3>1, <3>3, <3>4 DEF FlightIn
    <3> QED BY <3>5, FlightForm
  <2>3. CASE n.of.kind # "committed"
    <3>1. sending' = sending /\ asked' = asked
      BY <2>1, <2>3 DEF HearMemory, HearCommit, HearCommitFailed
    <3>2. ASSUME NEW i \in DOMAIN queue, queue[i].kind = "committed"
          PROVE  SentIn(journal, queue, notices', sending, turns, shown, i)
      <4>1. SentIn(journal, queue, notices, sending, turns, shown, i)
        BY <1>0, <3>2 DEF FlightIn
      <4> QED BY <2>1, <4>1 DEF SentIn
    <3>3. ASSUME NEW k \in DOMAIN notices', notices'[k].of.kind = "committed"
          PROVE  ToldIn(journal, notices', sending, turns, shown, k)
      <4>1. ToldIn(journal, notices, sending, turns, shown, k + 1) /\ notices'[k] = notices[k + 1]
        BY <1>0, <2>1, <3>3 DEF FlightIn
      <4>2. \A l \in DOMAIN notices' : notices'[l].of.kind = "committed" => l = k
        <5> TAKE l \in DOMAIN notices'
        <5>1. notices'[l].of.kind = "committed" => l + 1 = k + 1
          BY <2>1, <4>1 DEF ToldIn
        <5> QED BY <2>1, <5>1
      <4> QED BY <4>1, <4>2 DEF ToldIn
    <3>4. FlightIn(journal', queue', notices', sending', turns', shown', asked'.turn)
      BY <1>0, <2>1, <3>1, <3>2, <3>3 DEF FlightIn
    <3> QED BY <3>4, FlightForm
  <2> QED BY <2>2, <2>3
<1>3. CASE UserAsks
  <2>1. PICK cmd \in Offered : queue' = Append(queue, cmd)
    BY <1>3 DEF UserAsks
  <2>2. cmd.kind # "committed"
    BY OfferedFacts
  <2>3. \A i \in DOMAIN queue' : queue'[i].kind = "committed" => i \in DOMAIN queue /\ queue'[i] = queue[i]
    <3>1. \A i \in DOMAIN queue' : (i \in DOMAIN queue /\ queue'[i] = queue[i]) \/ queue'[i] = cmd
      BY <1>0, <2>1
    <3> QED BY <2>2, <3>1
  <2>4. UNCHANGED <<journal, notices, shown, sending, turns, asked>>
    BY <1>3 DEF UserAsks
  <2>5. ASSUME NEW i \in DOMAIN queue', queue'[i].kind = "committed"
        PROVE  SentIn(journal, queue', notices, sending, turns, shown, i)
    <3>1. SentIn(journal, queue, notices, sending, turns, shown, i) /\ queue'[i] = queue[i]
      BY <1>0, <2>3, <2>5 DEF FlightIn
    <3> QED BY <2>3, <3>1 DEF SentIn
  <2>6. FlightIn(journal', queue', notices', sending', turns', shown', asked'.turn)
    BY <1>0, <2>4, <2>5 DEF FlightIn
  <2> QED BY <2>6, FlightForm
<1>4. CASE Send
  <2>1. /\ sending = NoMessage /\ turns' = turns + 1 /\ UNCHANGED <<journal, notices, shown, asked>>
        /\ sending' # NoMessage /\ sending'.turn = turns'
    BY <1>4, SendFacts
  <2>2. PICK cmd \in Asks :
          /\ queue' = Append(queue, cmd) /\ cmd.kind = "committed" /\ cmd.of = turns'
          /\ cmd.with.memories = sending'.memories /\ cmd.with.conversation = shown
    BY <1>4, SendFacts
  <2>3. /\ \A i \in DOMAIN queue : queue[i].kind # "committed"
        /\ \A k \in DOMAIN notices : notices[k].of.kind # "committed"
    BY <2>1, NoneFlies
  <2>4. \A i \in DOMAIN queue' : queue'[i].kind = "committed" => i = Len(queue) + 1 /\ queue'[i] = cmd
    <3>1. \A i \in DOMAIN queue' : \/ i \in DOMAIN queue /\ queue'[i] = queue[i]
                                   \/ i = Len(queue) + 1 /\ queue'[i] = cmd
      BY <1>0, <2>2
    <3> QED BY <2>3, <3>1
  <2>5. asked.turn \in 0..turns' /\ asked.turn < turns'
    BY <1>0, <2>1 DEF FlightIn
  <2>6. \A j \in DOMAIN journal : journal[j].kind = "given" => journal[j].of \in 1..turns' /\ journal[j].of # turns'
    BY <1>0, <2>1 DEF FlightIn
  <2>7. ASSUME NEW i \in DOMAIN queue', queue'[i].kind = "committed"
        PROVE  SentIn(journal, queue', notices, sending', turns', shown, i)
    <3>1. i = Len(queue) + 1 /\ queue'[i] = cmd
      BY <2>4, <2>7
    <3>2. CarriedBy(sending', turns', shown, queue'[i])
      BY <2>1, <2>2, <3>1 DEF CarriedBy
    <3> QED BY <2>3, <2>4, <2>6, <3>1, <3>2 DEF SentIn, GivesIn
  <2>8. FlightIn(journal', queue', notices', sending', turns', shown', asked'.turn)
    BY <2>1, <2>3, <2>5, <2>6, <2>7 DEF FlightIn
  <2> QED BY <2>8, FlightForm
<1>5. CASE Restart
  <2>1. /\ queue' = <<>> /\ notices' = <<>> /\ sending' = NoMessage
        /\ UNCHANGED <<journal, shown, turns, asked>>
    BY <1>5 DEF Restart
  <2>2. FlightIn(journal', queue', notices', sending', turns', shown', asked'.turn)
    BY <1>0, <2>1 DEF FlightIn
  <2> QED BY <2>2, FlightForm
<1>6. ASSUME NEW c \in Conversation, Show(c) PROVE FlightInv'
  <2>1. sending = NoMessage /\ UNCHANGED <<journal, queue, notices, sending, turns, asked>>
    BY <1>6 DEF Show
  <2>2. FlightIn(journal', queue', notices', sending', turns', shown', asked'.turn)
    BY <1>0, <2>1, NoneFlies DEF FlightIn
  <2> QED BY <2>2, FlightForm
<1>7. ASSUME (\E m \in Memory : UseOnce(m) \/ RemoveOnce(m)) \/ UNCHANGED vars PROVE FlightInv'
  <2>1. UNCHANGED <<journal, queue, notices, shown, sending, turns, asked>>
    BY <1>7 DEF UseOnce, RemoveOnce, vars, window
  <2> QED BY <1>0, <2>1, FlightForm
<1> QED BY <1>1, <1>2, <1>3, <1>4, <1>5, <1>6, <1>7 DEF Next

LEMMA NothingFrozen ==
  ASSUME NEW log, NEW c, NEW picks, Len(log) \in Nat
  PROVE  FrozenIn(log, NoMessage, c, picks)
BY DEF FrozenIn, NoMessage

(* What the window has is, of the memories, all there is up to its last    *)
(* event.                                                                  *)
LEMMA KnownIsPrefix ==
  ASSUME ShapeInv, TypeOK, NewsInv
  PROVE  /\ Upto \in 0..Len(journal)
         /\ \A c : /\ AdmittedIn(journal, 1..Upto, c) = AdmittedIn(journal, known, c)
                   /\ EligibleIn(journal, 1..Upto, c) = EligibleIn(journal, known, c)
<1>1. /\ Upto \in 0..Len(journal) /\ \A i \in known : i <= Upto
      /\ Upto \in known \/ Upto = 0
      /\ Len(journal) \in Nat /\ known \subseteq 1..Len(journal) /\ DOMAIN journal = 1..Len(journal)
  BY UptoFacts DEF TypeOK, ShapeInv
<1> DEFINE u == Upto
<1>2. u \in Nat /\ known \in SUBSET (1..u) /\ 1..u \subseteq DOMAIN journal
  BY <1>1
<1>3. ASSUME NEW i \in 1..u, journal[i].kind \in MemoryKind PROVE i \in known
  <2>1. CASE \E k \in DOMAIN notices : i \in notices[k].new
    <3>1. \A j \in known : j < i
      BY <2>1 DEF NewsInv
    <3>2. u \in known
      BY <1>1, <1>2
    <3> QED BY <1>2, <3>1, <3>2
  <2> QED BY <1>2, <1>3, <2>1 DEF NewsInv
<1> HIDE DEF u
<1>4. Alike(journal, journal, u, known, 1..u)
  BY <1>2, <1>3 DEF Alike
<1>5. \A c : /\ AdmittedIn(journal, 1..u, c) = AdmittedIn(journal, known, c)
             /\ EligibleIn(journal, 1..u, c) = EligibleIn(journal, known, c)
  BY <1>4, SameMemories
<1> QED BY <1>1, <1>5 DEF u

(* A prefix says the same of the memories when the journal has grown.      *)
LEMMA PrefixStays ==
  ASSUME ShapeInv, NEW cmd, NEW n, NEW ok, Served(cmd, n, ok), NEW S \in SUBSET (1..Len(journal))
  PROVE  \A c : /\ AdmittedIn(journal', S, c) = AdmittedIn(journal, S, c)
                /\ EligibleIn(journal', S, c) = EligibleIn(journal, S, c)
<1>1. Len(journal) \in Nat /\ \A i \in 1..Len(journal) : journal'[i] = journal[i]
  BY DEF ShapeInv, Served
<1>2. Alike(journal, journal', Len(journal), S, S)
  BY <1>1 DEF Alike
<1> QED BY <1>2, SameMemories

LEMMA FrozenStep ==
  ASSUME ShapeInv, TypeOK, NewsInv, FrozenInv, ChoiceInv, [Next]_vars
  PROVE  FrozenInv'
<1>0. /\ FrozenIn(journal, sending, shown, chosen[shown])
      /\ Len(journal) \in Nat /\ shown \in Conversation
  BY FrozenForm DEF TypeOK, ShapeInv
<1>1. CASE Serve
  <2>1. PICK n, ok : Served(Head(queue), n, ok)
    BY <1>1, ServeFacts
  <2>2. UNCHANGED <<sending, shown, chosen>>
    BY <1>1, ServeKeeps
  <2> DEFINE S == 1..sending.upto
  <2>3. sending.upto \in 0..Len(journal) /\ S \in SUBSET (1..Len(journal))
    BY <1>0 DEF FrozenIn
  <2>4. Len(journal') \in Nat /\ Len(journal) <= Len(journal')
    <3>1. n \in Nat /\ Len(journal') = Len(journal) + n
      BY <2>1 DEF Served
    <3> QED BY <1>0, <3>1
  <2>5. sending.upto \in 0..Len(journal')
    BY <1>0, <2>3, <2>4
  <2>6. \A c : /\ AdmittedIn(journal', S, c) = AdmittedIn(journal, S, c)
               /\ EligibleIn(journal', S, c) = EligibleIn(journal, S, c)
    <3> HIDE DEF S
    <3> QED BY <2>1, <2>3, PrefixStays
  <2>7. FrozenIn(journal', sending, shown, chosen[shown])
    BY <1>0, <2>5, <2>6 DEF FrozenIn
  <2> QED BY <2>2, <2>7, FrozenForm
<1>2. CASE Hear
  <2> DEFINE n == Head(notices)
  <2>1. /\ journal' = journal /\ shown' = shown
        /\ HearMemory(n) \/ HearCommit(n) \/ HearCommitFailed(n)
    BY <1>2, HearFacts
  <2>2. (sending' = sending /\ chosen' = chosen) \/ sending' = NoMessage
    BY <2>1 DEF HearMemory, HearCommit, HearCommitFailed
  <2>3. FrozenIn(journal', sending', shown', chosen'[shown'])
    BY <1>0, <2>1, <2>2, NothingFrozen
  <2> QED BY <2>3, FrozenForm
<1>3. CASE Send
  <2>1. /\ UNCHANGED <<journal, shown, chosen>>
        /\ sending'.upto = Upto
        /\ sending'.remote => sending'.admitted = Admitted(known, shown)
        /\ sending'.memories \subseteq selected[shown] /\ sending'.memories \subseteq Eligible(known, shown)
    BY <1>3, SendFacts
  <2>2. /\ sending'.remote => sending'.admitted = AdmittedIn(journal, 1..Upto, shown)
        /\ sending'.memories \subseteq EligibleIn(journal, 1..Upto, shown)
        /\ Upto \in 0..Len(journal)
    BY <2>1, KnownIsPrefix, Readings
  <2>3. sending'.memories \subseteq chosen[shown]
    BY <1>0, <2>1 DEF ChoiceInv
  <2>4. FrozenIn(journal', sending', shown', chosen'[shown'])
    BY <2>1, <2>2, <2>3 DEF FrozenIn
  <2> QED BY <2>4, FrozenForm
<1>4. ASSUME Restart \/ (\E c \in Conversation : Show(c)) \/ (\E m \in Memory : UseOnce(m) \/ RemoveOnce(m))
      PROVE  FrozenInv'
  <2>1. journal' = journal /\ sending' = NoMessage
    BY <1>4 DEF Restart, Show, UseOnce, RemoveOnce
  <2>2. FrozenIn(journal', sending', shown', chosen'[shown'])
    BY <1>0, <2>1, NothingFrozen
  <2> QED BY <2>2, FrozenForm
<1>5. ASSUME UserAsks \/ UNCHANGED vars PROVE FrozenInv'
  <2>1. UNCHANGED <<journal, sending, shown, chosen>>
    BY <1>5 DEF UserAsks, vars, window
  <2> QED BY <1>0, <2>1, FrozenForm
<1> QED BY <1>1, <1>2, <1>3, <1>4, <1>5 DEF Next

(* The memories read back are the ones that were frozen. *)
LEMMA HeardOnce ==
  ASSUME ShapeInv, TypeOK, NewsInv, FlightInv, Hear, HearCommit(Head(notices))
  PROVE  /\ Head(notices).of.of = turns /\ Head(notices).of.with.conversation = shown
         /\ Head(notices).of.with.memories = sending.memories
         /\ OnceOf(Head(notices)) = sending.memories
         /\ sending.memories = GivenIn(journal, DOMAIN journal, turns)
<1> DEFINE n == Head(notices)
           G == {j \in AtIn(journal, DOMAIN journal, {"given"}) : journal[j].of = turns}
           H == {j \in AtIn(journal, known \cup n.new, {"given"}) : journal[j].of = turns}
<1>1. n = notices[1] /\ 1 \in DOMAIN notices /\ n.of.kind = "committed" /\ n.ok
  BY HearFacts DEF HearCommit
<1>2. ToldIn(journal, notices, sending, turns, shown, 1)
  BY <1>1, HeardFlight
<1>3. /\ n.of.of = turns /\ n.of.with.memories = sending.memories /\ n.of.with.conversation = shown
      /\ \A j \in DOMAIN journal : GivesIn(journal, j, turns) => j \in n.new /\ journal[j].with.memories = sending.memories
      /\ sending.memories # {} => \E j \in n.new : GivesIn(journal, j, turns)
  BY <1>1, <1>2 DEF ToldIn, CarriedBy
<1>4. known \subseteq DOMAIN journal /\ n.new \subseteq DOMAIN journal
  BY <1>1 DEF TypeOK, NewsInv
<1>5. GivenIn(journal, DOMAIN journal, turns) = UNION {journal[i].with.memories : i \in G}
  BY DEF GivenIn
<1>6. GivenIn(journal, known \cup n.new, turns) = UNION {journal[i].with.memories : i \in H}
  BY DEF GivenIn
<1>7. \A j \in G : j \in n.new /\ journal[j].with.memories = sending.memories
  BY <1>3 DEF AtIn, GivesIn
<1>8. sending.memories # {} => G # {}
  BY <1>3, <1>4 DEF AtIn, GivesIn
<1>9. H = G
  BY <1>4, <1>7 DEF AtIn
<1> HIDE DEF G, H
<1>10. UNION {journal[i].with.memories : i \in G} = sending.memories
  BY <1>7, <1>8
<1>11. OnceOf(n) = IF sending.memories # {} THEN GivenTo(known \cup n.new, turns) ELSE {}
  BY <1>3 DEF OnceOf
<1>12. OnceOf(n) = sending.memories
  BY <1>5, <1>6, <1>9, <1>10, <1>11, Readings
<1> QED BY <1>3, <1>5, <1>10, <1>12

(* A request that leaves is the one that was frozen, or what fits of it.   *)
LEMMA RequestFacts ==
  ASSUME ShapeInv, TypeOK, NewsInv, FlightInv, [Next]_vars, asked' # asked
  PROVE  /\ Hear /\ sending.remote
         /\ asked'.turn = turns /\ asked'.conversation = shown
         /\ asked'.admitted \subseteq sending.admitted
         /\ asked'.fits => asked'.admitted = sending.admitted
         /\ asked'.once = sending.memories /\ asked'.upto = sending.upto
         /\ sending.memories = GivenIn(journal, DOMAIN journal, turns)
<1>1. Hear
  BY ServeKeeps DEF Next, UserAsks, Send, Restart, Show, UseOnce, RemoveOnce, vars, window
<1> DEFINE n == Head(notices)
<1>2. HearCommit(n)
  BY <1>1, HearFacts DEF HearMemory, HearCommitFailed
<1>3. /\ sending.remote
      /\ \E fits \in BOOLEAN :
           \E kept \in IF fits THEN {sending.admitted} ELSE SUBSET sending.admitted :
             asked' = Request(n.of.of, n.of.with.conversation, kept, OnceOf(n), sending.upto, fits)
  BY <1>2 DEF HearCommit
<1>4. PICK fits \in BOOLEAN, kept \in SUBSET sending.admitted :
        /\ kept \subseteq sending.admitted /\ (fits => kept = sending.admitted)
        /\ asked' = Request(n.of.of, n.of.with.conversation, kept, OnceOf(n), sending.upto, fits)
  BY <1>3
<1>5. /\ asked'.turn = n.of.of /\ asked'.conversation = n.of.with.conversation
      /\ asked'.admitted = kept /\ asked'.fits = fits
      /\ asked'.once = OnceOf(n) /\ asked'.upto = sending.upto
  BY <1>4 DEF Request
<1> QED BY <1>1, <1>2, <1>3, <1>4, <1>5, HeardOnce

LEMMA AskedStep ==
  ASSUME ShapeInv, TypeOK, NewsInv, FlightInv, FrozenInv, AskedInv, [Next]_vars
  PROVE  AskedInv'
<1>0. /\ AskedIn(journal, asked) /\ FrozenIn(journal, sending, shown, chosen[shown])
      /\ Len(journal) \in Nat /\ DOMAIN journal = 1..Len(journal)
  BY AskedForm, FrozenForm DEF ShapeInv
<1>1. CASE asked' # asked
  <2>1. /\ Hear /\ sending.remote
        /\ asked'.turn = turns /\ asked'.conversation = shown
        /\ asked'.admitted \subseteq sending.admitted
        /\ asked'.fits => asked'.admitted = sending.admitted
        /\ asked'.once = sending.memories /\ asked'.upto = sending.upto
        /\ sending.memories = GivenIn(journal, DOMAIN journal, turns)
    BY <1>1, RequestFacts
  <2>2. journal' = journal
    BY <2>1, HearFacts
  <2>3. AskedIn(journal', asked')
    BY <1>0, <2>1, <2>2 DEF AskedIn, FrozenIn
  <2> QED BY <2>3, AskedForm
<1>2. CASE asked' = asked /\ Serve
  <2>1. PICK n, ok : Served(Head(queue), n, ok)
    BY <1>2, ServeFacts
  <2> DEFINE cmd == Head(queue)
             L == Len(journal)
             S == 1..asked.upto
  <2>2. /\ n \in Nat /\ Len(journal') = L + n /\ journal' \in Seq(Entry) /\ DOMAIN journal' = 1..(L + n)
        /\ \A i \in 1..L : journal'[i] = journal[i] /\ i \in DOMAIN journal'
    <3>1. /\ n \in Nat /\ Len(journal') = L + n /\ journal' \in Seq(Entry)
          /\ \A i \in 1..L : journal'[i] = journal[i]
      BY <2>1 DEF Served
    <3> QED BY <1>0, <3>1
  <2>3. asked.upto \in 0..Len(journal') /\ S \in SUBSET (1..L)
    BY <1>0, <2>2 DEF AskedIn
  <2>4. \A c : /\ AdmittedIn(journal', S, c) = AdmittedIn(journal, S, c)
               /\ EligibleIn(journal', S, c) = EligibleIn(journal, S, c)
    <3> HIDE DEF S
    <3> QED BY <2>1, <2>3, PrefixStays
  <2>5. \A j \in DOMAIN journal' : journal'[j].kind = "given" /\ journal'[j].of = asked.turn => j \in DOMAIN journal
    <3> SUFFICES ASSUME NEW j \in DOMAIN journal', journal'[j].kind = "given", j \notin DOMAIN journal
                 PROVE  journal'[j].of # asked.turn
      OBVIOUS
    <3>1. cmd \in Asks /\ cmd.kind # "given"
      BY <2>1 DEF Served, Asks
    <3>2. j \in L + 1 .. L + n
      BY <1>0, <2>2
    <3>3. CASE cmd.kind # "committed"
      <4>1. (n = 1 /\ journal'[L + 1] = cmd) \/ n = 0
        BY <2>1, <3>3 DEF Served
      <4>2. journal'[j] = cmd
        BY <1>0, <3>2, <4>1
      <4> QED BY <3>1, <4>2
    <3>4. CASE cmd.kind = "committed"
      <4>1. /\ n <= 2
            /\ n >= 1 => journal'[L + 1].kind = "committed"
            /\ n = 2 => journal'[L + 2].of = cmd.of
        BY <2>1, <3>4 DEF Served
      <4>2. n >= 1 /\ (j = L + 1 \/ (j = L + 2 /\ n = 2))
        BY <1>0, <2>2, <3>2, <4>1
      <4>3. journal'[j].of = cmd.of
        BY <4>1, <4>2
      <4>4. cmd = queue[1] /\ 1 \in DOMAIN queue
        BY <1>2, ServeFacts
      <4>5. FlightIn(journal, queue, notices, sending, turns, shown, asked.turn)
        BY FlightForm
      <4>6. SentIn(journal, queue, notices, sending, turns, shown, 1)
        BY <3>4, <4>4, <4>5 DEF FlightIn
      <4>7. cmd.of = turns /\ sending # NoMessage
        BY <4>4, <4>6 DEF SentIn, CarriedBy
      <4>8. asked.turn < turns /\ turns \in Nat /\ asked.turn \in 0..turns
        BY <4>5, <4>7, LocalMemoryAssumption DEF FlightIn, TypeOK
      <4> QED BY <4>3, <4>7, <4>8
    <3> QED BY <3>3, <3>4
  <2>6. GivenIn(journal', DOMAIN journal', asked.turn) = GivenIn(journal, DOMAIN journal, asked.turn)
    <3> DEFINE G == {j \in AtIn(journal, DOMAIN journal, {"given"}) : journal[j].of = asked.turn}
               H == {j \in AtIn(journal', DOMAIN journal', {"given"}) : journal'[j].of = asked.turn}
    <3>1. G = H /\ \A j \in G : journal'[j] = journal[j]
      BY <1>0, <2>2, <2>5 DEF AtIn
    <3>2. /\ GivenIn(journal, DOMAIN journal, asked.turn) = UNION {journal[i].with.memories : i \in G}
          /\ GivenIn(journal', DOMAIN journal', asked.turn) = UNION {journal'[i].with.memories : i \in H}
      BY DEF GivenIn
    <3> HIDE DEF G, H
    <3> QED BY <3>1, <3>2
  <2>7. AskedIn(journal', asked)
    BY <1>0, <2>3, <2>4, <2>6 DEF AskedIn
  <2> QED BY <1>2, <2>7, AskedForm
<1>3. CASE asked' = asked /\ ~Serve
  <2>1. journal' = journal
    BY <1>3, HearFacts DEF Next, UserAsks, Send, Restart, Show, UseOnce, RemoveOnce, vars
  <2> QED BY <1>0, <1>3, <2>1, AskedForm
<1> QED BY <1>1, <1>2, <1>3

LEMMA EligibleFacts ==
  ASSUME NEW log, NEW S, NEW m, NEW c
  PROVE  m \in EligibleIn(log, S, c) <=>
           m \in RecordedIn(log, S) /\ m \notin SupersededIn(log, S) /\ ~DecidedIn(log, S, m, c, "admitted")
BY DEF EligibleIn, AdmittedIn

(* One more event spoils the choice of the memory it is about only.        *)
LEMMA OneMore ==
  ASSUME NEW log, NEW n \in Nat, NEW S \in SUBSET (1..n), NEW i \in 1..n, i \notin S,
         NEW m, NEW c, m \in EligibleIn(log, S, c),
         log[i].of = m => /\ log[i].kind # "superseded"
                          /\ log[i].kind \in {"admitted", "excluded"} => ~DecidedIn(log, S \cup {i}, m, c, "admitted")
  PROVE  m \in EligibleIn(log, S \cup {i}, c)
<1> DEFINE T == S \cup {i}
           K == {"admitted", "excluded"}
<1>1. m \in RecordedIn(log, S) /\ m \notin SupersededIn(log, S) /\ ~DecidedIn(log, S, m, c, "admitted")
  BY EligibleFacts
<1>2. \A kinds : AtIn(log, S, kinds) \subseteq AtIn(log, T, kinds)
                 /\ \A j \in AtIn(log, T, kinds) : j \in AtIn(log, S, kinds) \/ (j = i /\ log[i].kind \in kinds)
  BY DEF AtIn
<1> HIDE DEF T
<1>3. m \in RecordedIn(log, T)
  BY <1>1, <1>2 DEF RecordedIn
<1>4. m \notin SupersededIn(log, T)
  <2>1. \A j \in AtIn(log, T, {"superseded"}) : j \in AtIn(log, S, {"superseded"}) \/ (j = i /\ log[i].kind = "superseded")
    BY <1>2
  <2>2. \A j \in AtIn(log, T, {"superseded"}) : log[j].of # m
    BY <1>1, <2>1 DEF SupersededIn
  <2> QED BY <2>2 DEF SupersededIn
<1>5. ~DecidedIn(log, T, m, c, "admitted")
  <2>1. CASE log[i].kind \in K /\ log[i].of = m
    BY <2>1 DEF T
  <2>2. CASE ~(log[i].kind \in K /\ log[i].of = m)
    <3> DEFINE A == {j \in AtIn(log, S, K) : log[j].of = m /\ log[j].with = c}
               B == {j \in AtIn(log, T, K) : log[j].of = m /\ log[j].with = c}
    <3>1. A = B
      <4>1. \A j \in AtIn(log, T, K) : j \in AtIn(log, S, K) \/ (j = i /\ log[i].kind \in K)
        BY <1>2
      <4>2. AtIn(log, S, K) \subseteq AtIn(log, T, K)
        BY <1>2
      <4> QED BY <2>2, <4>1, <4>2
    <3>2. DecisionIn(log, T, m, c) = DecisionIn(log, S, m, c)
      BY <3>1 DEF DecisionIn
    <3> QED BY <1>1, <3>2 DEF DecidedIn
  <2> QED BY <2>1, <2>2
<1> QED BY <1>3, <1>4, <1>5, EligibleFacts DEF T

(* Hearing of a memory command leaves no choice it has spoilt.             *)
LEMMA HeardMemoryChoices ==
  ASSUME ShapeInv, TypeOK, NewsInv, ChoiceInv, Hear, HearMemory(Head(notices))
  PROVE  ChoiceInv'
<1> DEFINE n == Head(notices)
           S == known \cup n.new
<1>0. /\ ChoiceIn(journal, known, selected, chosen)
      /\ Len(journal) \in Nat /\ DOMAIN journal = 1..Len(journal) /\ known \in SUBSET (1..Len(journal))
      /\ selected \in [Conversation -> SUBSET Memory]
  BY ChoiceForm DEF ShapeInv, TypeOK
<1>1. /\ n = notices[1] /\ 1 \in DOMAIN notices /\ journal' = journal
  BY HearFacts
<1>2. /\ n.of.kind # "committed" /\ known' = S /\ chosen' = chosen
      /\ selected' = IF n.ok THEN Dropped(n) ELSE selected
  BY DEF HearMemory
<1>3. /\ n.new \subseteq DOMAIN journal /\ \A i \in known, j \in n.new : i < j
      /\ ~n.ok => n.new = {}
      /\ n.ok => \E i \in n.new : n.new = {i} /\ journal[i] = n.of
  BY <1>1, <1>2 DEF NewsInv
<1>4. \A c \in Conversation : selected'[c] \subseteq selected[c]
  BY HeardChoices
<1>5. CASE ~n.ok
  <2>1. known' = known /\ selected' = selected
    BY <1>2, <1>3, <1>5
  <2> QED BY <1>0, <1>1, <1>2, <2>1, ChoiceForm
<1>6. CASE n.ok
  <2>1. PICK i \in n.new : n.new = {i} /\ journal[i] = n.of
    BY <1>3, <1>6
  <2>2. i \in 1..Len(journal) /\ i \notin known /\ known' = known \cup {i} /\ selected' = Dropped(n)
    <3>1. i \in known => i < i
      BY <1>3
    <3>2. i \in 1..Len(journal)
      BY <1>0, <1>3
    <3> QED BY <1>2, <1>6, <2>1, <3>1, <3>2
  <2>3. ASSUME NEW c \in Conversation, NEW m \in selected'[c] PROVE m \in EligibleIn(journal, known \cup {i}, c)
    <3>1. m \in selected[c] /\ m \in EligibleIn(journal, known, c)
      BY <1>0, <1>4, <2>3 DEF ChoiceIn
    <3>2. ASSUME journal[i].of = m PROVE journal[i].kind # "superseded"
      <4>1. n.of.kind = "superseded" => Dropped(n)[c] = selected[c] \ {n.of.of}
        BY <2>3 DEF Dropped
      <4> QED BY <2>1, <2>2, <2>3, <3>2, <4>1
    <3>3. ASSUME journal[i].of = m, journal[i].kind \in {"admitted", "excluded"}
          PROVE  ~DecidedIn(journal, known \cup {i}, m, c, "admitted")
      <4>1. Dropped(n) = [d \in Conversation |-> IF Decided(S, n.of.of, d, "admitted")
                                               THEN selected[d] \ {n.of.of} ELSE selected[d]]
        BY <2>1, <3>3 DEF Dropped
      <4>2. Decided(S, n.of.of, c, "admitted") => Dropped(n)[c] = selected[c] \ {n.of.of}
        BY <2>3, <4>1
      <4>3. ~Decided(S, m, c, "admitted")
        BY <2>1, <2>2, <2>3, <3>3, <4>2
      <4> QED BY <2>1, <4>3, Readings
    <3> QED BY <1>0, <2>2, <3>1, <3>2, <3>3, OneMore
  <2>4. ChoiceIn(journal', known', selected', chosen')
    BY <1>0, <1>1, <1>2, <1>4, <2>2, <2>3 DEF ChoiceIn
  <2> QED BY <2>4, ChoiceForm
<1> QED BY <1>5, <1>6

(* Hearing of a message brings no news of memories, and what it uses up    *)
(* is no longer chosen.                                                    *)
LEMMA HeardCommitChoices ==
  ASSUME ShapeInv, TypeOK, NewsInv, FlightInv, ChoiceInv, Hear, HearCommit(Head(notices))
  PROVE  ChoiceInv'
<1> DEFINE n == Head(notices)
<1>0. /\ ChoiceIn(journal, known, selected, chosen)
      /\ Len(journal) \in Nat /\ DOMAIN journal = 1..Len(journal) /\ known \subseteq 1..Len(journal)
      /\ selected \in [Conversation -> SUBSET Memory] /\ chosen \in [Conversation -> SUBSET Memory]
      /\ shown \in Conversation
  BY ChoiceForm DEF ShapeInv, TypeOK
<1>1. /\ n = notices[1] /\ 1 \in DOMAIN notices /\ journal' = journal
  BY HearFacts
<1>2. /\ n.of.kind = "committed" /\ known' = known \cup n.new /\ selected' = LeftAfterUse(n)
      /\ chosen' = chosen \/ chosen' = [chosen EXCEPT ![n.of.with.conversation] = @ \ OnceOf(n)]
  BY DEF HearCommit
<1>3. n.new \subseteq 1..Len(journal) /\ \A i \in n.new : journal[i].kind \in {"committed", "given"}
  BY <1>0, <1>1, <1>2 DEF NewsInv
<1>4. Alike(journal, journal, Len(journal), known, known \cup n.new)
  <2>1. \A i \in n.new : journal[i].kind \notin MemoryKind
    BY <1>3 DEF MemoryKind
  <2> QED BY <1>0, <1>3, <2>1 DEF Alike
<1>5. \A c : EligibleIn(journal, known \cup n.new, c) = EligibleIn(journal, known, c)
  BY <1>4, SameMemories
<1>6. \A c \in Conversation : selected'[c] \subseteq selected[c]
  BY HeardChoices
<1>7. n.of.with.conversation = shown /\ OnceOf(n) = n.of.with.memories
  BY HeardOnce
<1>8. ASSUME NEW c \in Conversation PROVE selected'[c] \subseteq chosen'[c]
  <2>1. CASE n.of.with.memories = {}
    <3>1. chosen' = chosen \/ chosen' = [chosen EXCEPT ![shown] = @ \ {}]
      BY <1>2, <1>7, <2>1
    <3>2. chosen'[c] = chosen[c]
      BY <1>0, <3>1
    <3> QED BY <1>0, <1>6, <3>2 DEF ChoiceIn
  <2>2. CASE n.of.with.memories # {}
    <3>1. selected' = [selected EXCEPT ![shown] = {}]
      BY <1>2, <1>7, <2>2 DEF LeftAfterUse
    <3>2. c # shown => chosen'[c] = chosen[c]
      BY <1>0, <1>2, <1>7
    <3> QED BY <1>0, <3>1, <3>2 DEF ChoiceIn
  <2> QED BY <2>1, <2>2
<1>9. ChoiceIn(journal', known', selected', chosen')
  BY <1>0, <1>1, <1>2, <1>5, <1>6, <1>8 DEF ChoiceIn
<1> QED BY <1>9, ChoiceForm

LEMMA ChoiceStep ==
  ASSUME ShapeInv, TypeOK, NewsInv, FlightInv, ChoiceInv, [Next]_vars
  PROVE  ChoiceInv'
<1>0. /\ ChoiceIn(journal, known, selected, chosen)
      /\ Len(journal) \in Nat /\ DOMAIN journal = 1..Len(journal) /\ known \in SUBSET (1..Len(journal))
      /\ selected \in [Conversation -> SUBSET Memory] /\ chosen \in [Conversation -> SUBSET Memory]
      /\ shown \in Conversation
  BY ChoiceForm DEF ShapeInv, TypeOK
<1>1. CASE Serve
  <2>1. PICK n, ok : Served(Head(queue), n, ok)
    BY <1>1, ServeFacts
  <2>2. \A c : EligibleIn(journal', known, c) = EligibleIn(journal, known, c)
    BY <1>0, <2>1, PrefixStays
  <2>3. ChoiceIn(journal', known', selected', chosen')
    BY <1>0, <1>1, <2>2, ServeKeeps DEF ChoiceIn
  <2> QED BY <2>3, ChoiceForm
<1>2. CASE Hear
  <2>1. ASSUME HearCommitFailed(Head(notices)) PROVE ChoiceInv'
    <3>1. UNCHANGED <<journal, known, selected, chosen>>
      BY <1>2, <2>1, HearFacts DEF HearCommitFailed
    <3> QED BY <1>0, <3>1, ChoiceForm
  <2> QED BY <1>2, <2>1, HearFacts, HeardMemoryChoices, HeardCommitChoices
<1>3. CASE Restart
  <2>1. selected' = [c \in Conversation |-> {}] /\ chosen' = [c \in Conversation |-> {}]
    BY <1>3 DEF Restart
  <2>2. ChoiceIn(journal', known', selected', chosen')
    BY <2>1 DEF ChoiceIn
  <2> QED BY <2>2, ChoiceForm
<1>4. ASSUME NEW m \in Memory, UseOnce(m) PROVE ChoiceInv'
  <2>1. /\ UNCHANGED <<journal, known>>
        /\ selected' = [selected EXCEPT ![shown] = @ \cup {m}]
        /\ chosen' = [chosen EXCEPT ![shown] = @ \cup {m}]
        /\ m \in Recorded(known) \ Superseded(known) /\ ~Decided(known, m, shown, "admitted")
    BY <1>4 DEF UseOnce
  <2>2. m \in EligibleIn(journal, known, shown)
    BY <2>1, Readings, EligibleFacts
  <2>3. \A c \in Conversation : /\ c # shown => selected'[c] = selected[c] /\ chosen'[c] = chosen[c]
                                /\ c = shown => /\ selected'[c] = selected[c] \cup {m}
                                                /\ chosen'[c] = chosen[c] \cup {m}
    BY <1>0, <2>1
  <2>4. ChoiceIn(journal', known', selected', chosen')
    BY <1>0, <2>1, <2>2, <2>3 DEF ChoiceIn
  <2> QED BY <2>4, ChoiceForm
<1>5. ASSUME NEW m \in Memory, RemoveOnce(m) PROVE ChoiceInv'
  <2>1. /\ UNCHANGED <<journal, known>>
        /\ selected' = [selected EXCEPT ![shown] = @ \ {m}]
        /\ chosen' = [chosen EXCEPT ![shown] = @ \ {m}]
    BY <1>5 DEF RemoveOnce
  <2>2. \A c \in Conversation : /\ c # shown => selected'[c] = selected[c] /\ chosen'[c] = chosen[c]
                                /\ c = shown => /\ selected'[c] = selected[c] \ {m}
                                                /\ chosen'[c] = chosen[c] \ {m}
    BY <1>0, <2>1
  <2>3. ChoiceIn(journal', known', selected', chosen')
    BY <1>0, <2>1, <2>2 DEF ChoiceIn
  <2> QED BY <2>3, ChoiceForm
<1>6. ASSUME UserAsks \/ Send \/ (\E c \in Conversation : Show(c)) \/ UNCHANGED vars PROVE ChoiceInv'
  <2>1. UNCHANGED <<journal, known, selected, chosen>>
    BY <1>6 DEF UserAsks, Send, Show, vars, window
  <2> QED BY <1>0, <2>1, ChoiceForm
<1> QED BY <1>1, <1>2, <1>3, <1>4, <1>5, <1>6 DEF Next
-----------------------------------------------------------------------------
(* The invariant holds of every behaviour.                                 *)

LEMMA InitInv ==
  ASSUME Init
  PROVE  IInv
<1>1. PICK c \in Conversation, d \in Conversation :
        journal = << Event("recorded", 1, c), Event("admitted", 1, d) >>
  BY DEF Init
<1> DEFINE e == Event("recorded", 1, c)
           f == Event("admitted", 1, d)
<1>2. /\ queue = <<>> /\ notices = <<>> /\ known = DOMAIN journal /\ pending = FALSE
      /\ shown \in Conversation /\ selected = [x \in Conversation |-> {}]
      /\ sending = NoMessage /\ turns = 0 /\ chosen = [x \in Conversation |-> {}]
      /\ asked = NoRequest /\ faults = 0
  BY DEF Init
<1>3. e \in Entry /\ f \in Entry /\ e.kind = "recorded" /\ f.kind = "admitted"
  BY DEF Event, Entry, Kind, MemoryKind
<1> HIDE DEF e, f
<1>4. journal = <<e, f>>
  BY <1>1 DEF e, f
<1>5. /\ journal \in Seq(Entry) /\ Len(journal) = 2 /\ DOMAIN journal = 1..2
      /\ \A i \in DOMAIN journal : journal[i].kind \in {"recorded", "admitted"}
  <2>1. journal \in Seq(Entry) /\ Len(journal) = 2 /\ journal[1] = e /\ journal[2] = f
    BY <1>3, <1>4
  <2>2. DOMAIN journal = 1..2
    BY <2>1
  <2>3. \A i \in 1..2 : i = 1 \/ i = 2
    OBVIOUS
  <2> QED BY <1>3, <2>1, <2>2, <2>3
<1>6. /\ NoMessage \in Frozen /\ NoMessage.turn = 0 /\ NoMessage.remote = FALSE
      /\ asked.turn = 0 /\ asked.admitted = {} /\ asked.once = {} /\ asked.upto = 0
  BY <1>2 DEF NoMessage, Frozen, NoRequest, Request
<1>7. TypeOK
  <2>1. [x \in Conversation |-> {}] \in [Conversation -> SUBSET Memory]
    OBVIOUS
  <2>2. 0 \in 0..MaxTurns /\ 0 \in 0..MaxFaults /\ 0 \in 0..0
    BY LocalMemoryAssumption
  <2> QED BY <1>2, <1>6, <2>1, <2>2 DEF TypeOK
<1>8. ShapeInv
  <2>1. queue \in Seq(Asks) /\ notices \in Seq(Answer)
    BY <1>2, EmptySeq
  <2> QED BY <1>2, <1>5, <1>6, <2>1 DEF ShapeInv
<1>9. NewsInv
  BY <1>2 DEF NewsInv
<1>10. FlightInv
  <2>1. asked.turn \in 0..turns
    BY <1>2, <1>6
  <2>2. \A i \in DOMAIN journal : journal[i].kind # "given"
    BY <1>5
  <2>3. DOMAIN queue = {} /\ DOMAIN notices = {}
    BY <1>2
  <2> QED BY <1>2, <2>1, <2>2, <2>3 DEF FlightInv
<1>11. FrozenInv
  BY <1>2, <1>5, NothingFrozen, FrozenForm
<1>12. AskedInv
  <2>1. AtIn(journal, DOMAIN journal, {"given"}) = {}
    BY <1>5 DEF AtIn
  <2>2. GivenIn(journal, DOMAIN journal, asked.turn) = {}
    BY <2>1 DEF GivenIn
  <2>3. AtIn(journal, {}, {"recorded"}) = {}
    BY DEF AtIn
  <2>4. 1..asked.upto = {}
    BY <1>6
  <2>5. AdmittedIn(journal, 1..asked.upto, asked.conversation) = {}
    BY <2>3, <2>4 DEF AdmittedIn, RecordedIn
  <2>6. asked.upto \in 0..Len(journal)
    BY <1>5, <1>6
  <2>7. AskedIn(journal, asked)
    BY <1>6, <2>2, <2>5, <2>6 DEF AskedIn
  <2> QED BY <2>7, AskedForm
<1>13. ChoiceInv
  <2>1. ChoiceIn(journal, known, selected, chosen)
    BY <1>2 DEF ChoiceIn
  <2> QED BY <2>1, ChoiceForm
<1> QED BY <1>7, <1>8, <1>9, <1>10, <1>11, <1>12, <1>13 DEF IInv

(* Whatever the worker and the window do, in whichever order their         *)
(* commands, answers and failures cross, the strengthened invariant is     *)
(* kept: news in the order of the journal, one message at a time, a frozen *)
(* request that was in force at the last event known.                      *)
THEOREM Inductive == Spec => []IInv
<1>1. Init => IInv
  BY InitInv
<1>2. IInv /\ [Next]_vars => IInv'
  <2> SUFFICES ASSUME IInv, [Next]_vars PROVE IInv'
    OBVIOUS
  <2>1. TypeOK /\ ShapeInv /\ NewsInv /\ FlightInv /\ FrozenInv /\ AskedInv /\ ChoiceInv
    BY DEF IInv
  <2>2. TypeOK' /\ ShapeInv' /\ NewsInv'
    BY <2>1, TypeStep, ShapeStep, NewsStep
  <2>3. FlightInv' /\ FrozenInv'
    BY <2>1, FlightStep, FrozenStep
  <2>4. AskedInv' /\ ChoiceInv'
    BY <2>1, AskedStep, ChoiceStep
  <2> QED BY <2>2, <2>3, <2>4 DEF IInv
<1> QED BY <1>1, <1>2, PTL DEF Spec

(* Every variable has its type, and the window knows only events that are  *)
(* in the journal: it takes them from the worker's notices, which name     *)
(* what the worker appended.                                               *)
THEOREM TypeCorrect == Spec => []TypeOK
<1>1. IInv => TypeOK
  BY DEF IInv
<1> QED BY <1>1, Inductive, PTL

(* The journal gives to a turn the memories that left with it: they are    *)
(* read back from what the worker appended, not from the panel.            *)
THEOREM RecordedIsSent == Spec => []SentAsRecorded
<1>1. IInv => SentAsRecorded
  BY DEF IInv, AskedInv
<1> QED BY <1>1, Inductive, PTL

(* Nothing stale leaves.  A request carries no superseded memory, of those *)
(* admitted all if its context fits the budget and no other memory in any  *)
(* case, and once only what is not admitted, by the journal as it was up   *)
(* to the event the window last knew when the user sent; the journal and   *)
(* the panel may move on before it leaves.                                 *)
THEOREM NothingStaleLeaves == Spec => []ValidWhenSent
<1>1. IInv => ValidWhenSent
  BY DEF IInv, AskedInv
<1> QED BY <1>1, Inductive, PTL

(* Every choice of every conversation may still be sent: a command that    *)
(* spoils it takes it out when the window hears of it.                     *)
THEOREM ChoicesStaySendable == Spec => []ChoicesSendable
<1>1. IInv => ChoicesSendable
  BY DEF IInv, ChoiceInv
<1> QED BY <1>1, Inductive, PTL

(* A choice leaves with one request at most, and only while the user's     *)
(* choice stands.                                                          *)
THEOREM ChoicesUsedOnce == Spec => OncePerChoice
<1>1. IInv /\ [Next]_vars => [asked' # asked => asked'.once \subseteq chosen[asked'.conversation]]_vars
  <2> SUFFICES ASSUME IInv, [Next]_vars, asked' # asked
               PROVE  asked'.once \subseteq chosen[asked'.conversation]
    OBVIOUS
  <2>1. asked'.once = sending.memories /\ asked'.conversation = shown
    BY RequestFacts DEF IInv
  <2>2. sending.memories \subseteq chosen[shown]
    BY DEF IInv, FrozenInv
  <2> QED BY <2>1, <2>2
<1> QED BY <1>1, Inductive, PTL DEF Spec, OncePerChoice
=============================================================================
