--------------------------- MODULE JournalProofs ---------------------------
(***************************************************************************)
(* Proofs about Journal, for every set of processes and payloads and every *)
(* bound.  The inductive invariant says who may hold a store, and what a   *)
(* store in each phase of an append has in memory and has left in the file *)
(* as long as no write has failed.                                         *)
(***************************************************************************)
EXTENDS Journal, SequenceTheorems, TLAPS

Appending == {"record", "newline", "sync"}

(* A process that is not closed holds the lease, and nobody else does. *)
LeaseInv == \A p \in Process : phase[p] # "closed" => lease = {p}

(* A store never has more events than the file has lines. *)
MemoryInv ==
  \A p \in Process :
    /\ phase[p] \in Appending => pending[p] \in Event
    /\ phase[p] \in {"ready", "record", "newline"} => Len(events[p]) <= Len(lines)
    /\ phase[p] \in {"record", "newline"} => Len(lines) < MaxLines
    /\ phase[p] = "sync" => Len(events[p]) < Len(lines)

(* What a store in the middle of an append knows and has written. *)
StepInv(p) ==
  /\ phase[p] \in {"ready", "record", "sync"} => tail = <<>>
  /\ phase[p] \in {"ready", "record", "newline"} => events[p] = Replay(lines)
  /\ phase[p] \in {"record", "newline"} => pending[p].seq = Len(lines) + 1
  /\ phase[p] = "newline" => tail = Encode(pending[p])
  /\ phase[p] = "sync" =>
       /\ Append(events[p], pending[p]) = Replay(lines)
       /\ pending[p].seq = Len(lines)

FaultFree ==
  /\ WellFormed(lines)
  /\ \A p \in Process : StepInv(p)
  /\ \A e \in acked : e.seq \in 1..synced /\ Decodes(lines[e.seq], e)

IInv ==
  /\ TypeOK
  /\ LeaseInv
  /\ MemoryInv
  /\ faults = 0 => FaultFree

-----------------------------------------------------------------------------
(* The two pieces of a record are bytes of the file that name its event. *)
LEMMA EncodeFacts ==
  ASSUME NEW e \in Event
  PROVE  /\ Encode(e) \in Seq(Piece)
         /\ Encode(e) # <<>>
         /\ Encode(e)[1][2] = e
BY DEF Encode, Piece

LEMMA PartialFacts ==
  ASSUME NEW e \in Event, NEW part \in PartialRecord(e)
  PROVE  part \in Seq(Piece)
<1>1. <<"head", e>> \in Piece
  BY DEF Piece
<1>2. << <<"head", e>> >> \in Seq(Piece) /\ <<>> \in Seq(Piece)
  BY <1>1
<1> QED BY <1>2 DEF PartialRecord

(* A replay has one event of the right kind for every line. *)
LEMMA ReplayFacts ==
  ASSUME NEW ls \in Seq(Seq(Piece)), WellFormed(ls)
  PROVE  /\ Replay(ls) \in Seq(Event)
         /\ Len(Replay(ls)) = Len(ls)
         /\ \A i \in 1..Len(ls) : Replay(ls)[i].seq = i /\ ls[i] = Encode(Replay(ls)[i])
<1>1. \A i \in 1..Len(ls) :
        Replay(ls)[i] \in Event /\ Replay(ls)[i].seq = i /\ ls[i] = Encode(Replay(ls)[i])
  <2> TAKE i \in 1..Len(ls)
  <2>1. PICK e \in Event : ls[i] = Encode(e) /\ e.seq = i
    BY DEF WellFormed, Decodes
  <2>2. Replay(ls)[i] = e
    BY <2>1, EncodeFacts DEF Replay
  <2> QED BY <2>1, <2>2
<1>2. DOMAIN Replay(ls) = 1..Len(ls) /\ Replay(ls) = [i \in 1..Len(ls) |-> Replay(ls)[i]]
  BY DEF Replay
<1>3. Replay(ls) \in [1..Len(ls) -> Event]
  BY <1>1, <1>2
<1>4. Replay(ls) \in Seq(Event) /\ Len(Replay(ls)) = Len(ls)
  BY <1>3, SeqDef
<1> QED BY <1>1, <1>4

(* Ending a line with a record that carries its number keeps the file      *)
(* well formed and adds that record's event to the replay.                 *)
LEMMA AppendRecord ==
  ASSUME NEW ls \in Seq(Seq(Piece)), WellFormed(ls),
         NEW e \in Event, e.seq = Len(ls) + 1
  PROVE  /\ WellFormed(Append(ls, Encode(e)))
         /\ Replay(Append(ls, Encode(e))) = Append(Replay(ls), e)
<1> DEFINE new == Append(ls, Encode(e))
<1>1. /\ new \in Seq(Seq(Piece))
      /\ Len(new) = Len(ls) + 1
      /\ \A i \in 1..Len(ls) : new[i] = ls[i]
      /\ new[Len(ls) + 1] = Encode(e)
  BY EncodeFacts
<1>2. WellFormed(new)
  <2> SUFFICES ASSUME NEW i \in 1..(Len(ls) + 1)
              PROVE  \E r \in Event : new[i] = Encode(r) /\ r.seq = i
    BY <1>1 DEF WellFormed, Decodes
  <2>1. CASE i = Len(ls) + 1
    BY <1>1, <2>1
  <2>2. CASE i \in 1..Len(ls)
    BY <1>1, <2>2 DEF WellFormed, Decodes
  <2> QED BY <2>1, <2>2
<1>3. Replay(new) = Append(Replay(ls), e)
  BY <1>1, <1>2, ReplayFacts, EncodeFacts DEF Replay
<1> QED BY <1>2, <1>3

(* Cutting whole lines off the end keeps a file well formed. *)
LEMMA CutLines ==
  ASSUME NEW ls \in Seq(Seq(Piece)), WellFormed(ls), NEW n \in 0..Len(ls)
  PROVE  /\ WellFormed(SubSeq(ls, 1, n))
         /\ Replay(SubSeq(ls, 1, n)) = SubSeq(Replay(ls), 1, n)
<1>1. /\ SubSeq(ls, 1, n) \in Seq(Seq(Piece))
      /\ Len(SubSeq(ls, 1, n)) = n
      /\ \A i \in 1..n : SubSeq(ls, 1, n)[i] = ls[i]
  OBVIOUS
<1>2. WellFormed(SubSeq(ls, 1, n))
  <2> SUFFICES ASSUME NEW i \in 1..n
              PROVE  \E r \in Event : SubSeq(ls, 1, n)[i] = Encode(r) /\ r.seq = i
    BY <1>1 DEF WellFormed, Decodes
  <2>1. i \in DOMAIN ls
    OBVIOUS
  <2> QED BY <1>1, <2>1 DEF WellFormed, Decodes
<1>3. Replay(SubSeq(ls, 1, n)) = SubSeq(Replay(ls), 1, n)
  BY <1>1, <1>2, ReplayFacts DEF Replay
<1> QED BY <1>2, <1>3

-----------------------------------------------------------------------------
LEMMA InitInv == Init => IInv
<1> SUFFICES ASSUME Init PROVE IInv
  OBVIOUS
<1> USE JournalAssumption DEF Init
<1>1. TypeOK
  <2>1. lines \in Seq(Seq(Piece)) /\ tail \in Seq(Piece) /\ synced \in 0..Len(lines)
    OBVIOUS
  <2>2. events \in [Process -> Seq(Event)]
    OBVIOUS
  <2>3. /\ phase \in [Process -> {"closed", "leased", "ready", "record", "newline", "sync"}]
        /\ strict \in [Process -> BOOLEAN]
        /\ pending \in [Process -> Event \cup {NoEvent}]
    OBVIOUS
  <2>4. exists \in BOOLEAN
    OBVIOUS
  <2>5. lease \in SUBSET Process /\ acked \in SUBSET Event
    OBVIOUS
  <2>6. faults \in 0..MaxFaults
    OBVIOUS
  <2> QED BY <2>1, <2>2, <2>3, <2>4, <2>5, <2>6, Zenon DEF TypeOK
<1>2. LeaseInv /\ MemoryInv
  BY DEF LeaseInv, MemoryInv, Appending
<1>3. FaultFree
  BY DEF FaultFree, WellFormed, StepInv
<1> QED BY <1>1, <1>2, <1>3 DEF IInv

LEMMA StutterInv == IInv /\ UNCHANGED vars => IInv'
BY DEF IInv, vars, TypeOK, LeaseInv, MemoryInv, Appending, FaultFree, StepInv,
       WellFormed, Replay, Piece, Event, Encode, Decodes

(* Only the holder of the lease is in a phase other than closed. *)
LEMMA OthersClosed ==
  ASSUME LeaseInv, NEW p \in Process, phase[p] # "closed",
         NEW q \in Process, q # p
  PROVE  phase[q] = "closed"
BY DEF LeaseInv

(* A process that lets go of its store leaves nobody holding one. *)
LEMMA DropClosesAll ==
  ASSUME IInv, NEW p \in Process, phase[p] # "closed", Drop(p)
  PROVE  /\ \A q \in Process : phase'[q] = "closed"
         /\ phase' \in [Process -> {"closed"}]
         /\ lease' = {}
         /\ events' \in [Process -> Seq(Event)]
         /\ pending' \in [Process -> Event \cup {NoEvent}]
<1>1. \A q \in Process : phase'[q] = "closed"
  BY OthersClosed DEF IInv, Drop, TypeOK
<1>2. phase' \in [Process -> {"closed"}]
  BY <1>1 DEF Drop, IInv, TypeOK
<1>3. lease' = {}
  BY DEF IInv, LeaseInv, Drop
<1>4. events' \in [Process -> Seq(Event)] /\ pending' \in [Process -> Event \cup {NoEvent}]
  BY DEF IInv, TypeOK, Drop
<1> QED BY <1>1, <1>2, <1>3, <1>4

(* With every store closed, only the file and the history are constrained. *)
LEMMA AllClosed ==
  ASSUME TypeOK', \A p \in Process : phase'[p] = "closed",
         faults' = 0 =>
           /\ WellFormed(lines')
           /\ \A e \in acked' : e.seq \in 1..synced' /\ Decodes(lines'[e.seq], e)
  PROVE  IInv'
<1>1. LeaseInv' /\ MemoryInv'
  BY DEF LeaseInv, MemoryInv, Appending
<1>2. \A p \in Process : StepInv(p)'
  BY DEF StepInv
<1> QED BY <1>1, <1>2 DEF IInv, FaultFree

LEMMA AcquireLeaseInv ==
  ASSUME IInv, NEW p \in Process, AcquireLease(p) PROVE IInv'
<1> USE DEF AcquireLease, Goto, fileVars
<1>1. TypeOK'
  BY DEF IInv, TypeOK
<1>2. \A q \in Process : phase'[q] = IF q = p THEN "leased" ELSE "closed"
  BY DEF IInv, TypeOK, LeaseInv
<1>3. LeaseInv' /\ MemoryInv'
  BY <1>2 DEF LeaseInv, MemoryInv, Appending
<1>4. faults' = 0 => FaultFree'
  BY <1>2 DEF IInv, FaultFree, StepInv, WellFormed, Decodes
<1> QED BY <1>1, <1>3, <1>4 DEF IInv

LEMMA RepairTornTailInv ==
  ASSUME IInv, NEW p \in Process, RepairTornTail(p) PROVE IInv'
<1> USE DEF RepairTornTail
<1>1. TypeOK'
  BY DEF IInv, TypeOK
<1>2. \A q \in Process : phase'[q] = IF q = p THEN "leased" ELSE "closed"
  BY OthersClosed DEF IInv, TypeOK
<1>3. LeaseInv' /\ MemoryInv'
  BY <1>2 DEF IInv, LeaseInv, MemoryInv, Appending
<1>4. ASSUME faults' = 0 PROVE FaultFree'
  <2>1. FaultFree
    BY <1>4 DEF IInv
  <2>2. WellFormed(lines)'
    BY <2>1 DEF FaultFree, WellFormed, Decodes
  <2>3. \A q \in Process : StepInv(q)'
    BY <1>2 DEF StepInv
  <2>4. \A e \in acked' : e.seq \in 1..synced' /\ Decodes(lines'[e.seq], e)
    BY <2>1 DEF FaultFree, IInv, TypeOK, Event, Decodes
  <2> QED BY <2>2, <2>3, <2>4 DEF FaultFree
<1> QED BY <1>1, <1>3, <1>4 DEF IInv

LEMMA RefuseOpenInv ==
  ASSUME IInv, NEW p \in Process, RefuseOpen(p) PROVE IInv'
<1>0. phase[p] # "closed" /\ Drop(p)
  BY DEF RefuseOpen
<1>1. TypeOK'
  BY <1>0, DropClosesAll DEF RefuseOpen, IInv, TypeOK, fileVars
<1>2. faults' = 0 =>
        /\ WellFormed(lines')
        /\ \A e \in acked' : e.seq \in 1..synced' /\ Decodes(lines'[e.seq], e)
  BY DEF RefuseOpen, IInv, FaultFree, fileVars
<1> QED BY <1>0, <1>1, <1>2, DropClosesAll, AllClosed

LEMMA CloseInv ==
  ASSUME IInv, NEW p \in Process, Close(p) PROVE IInv'
<1>0. phase[p] # "closed" /\ Drop(p)
  BY DEF Close
<1>1. TypeOK'
  BY <1>0, DropClosesAll DEF Close, IInv, TypeOK, fileVars
<1>2. faults' = 0 =>
        /\ WellFormed(lines')
        /\ \A e \in acked' : e.seq \in 1..synced' /\ Decodes(lines'[e.seq], e)
  BY DEF Close, IInv, FaultFree, fileVars
<1> QED BY <1>0, <1>1, <1>2, DropClosesAll, AllClosed

LEMMA CrashInv ==
  ASSUME IInv, NEW p \in Process, Crash(p) PROVE IInv'
<1>0. phase[p] # "closed" /\ Drop(p)
  BY DEF Crash
<1>1. tail' \in Seq(Piece)
  <2>1. CASE phase[p] = "record" /\ \E part \in PartialRecord(pending[p]) : tail' = tail \o part
    <3>1. pending[p] \in Event
      BY <2>1 DEF IInv, MemoryInv, Appending
    <3>2. PICK part \in PartialRecord(pending[p]) : tail' = tail \o part
      BY <2>1
    <3>3. part \in Seq(Piece)
      BY <3>1, PartialFacts
    <3> QED BY <3>2, <3>3 DEF IInv, TypeOK
  <2>2. CASE UNCHANGED tail
    BY <2>2 DEF IInv, TypeOK
  <2> QED BY <2>1, <2>2 DEF Crash
<1>2. TypeOK'
  BY <1>0, <1>1, DropClosesAll DEF Crash, IInv, TypeOK
<1>3. faults' = 0 =>
        /\ WellFormed(lines')
        /\ \A e \in acked' : e.seq \in 1..synced' /\ Decodes(lines'[e.seq], e)
  BY DEF Crash, IInv, FaultFree
<1> QED BY <1>0, <1>2, <1>3, DropClosesAll, AllClosed

LEMMA LoadInv ==
  ASSUME IInv, NEW p \in Process, Load(p) PROVE IInv'
<1> USE DEF Load, Goto, fileVars
<1>0. /\ Replay(lines) \in Seq(Event)
      /\ Len(Replay(lines)) = Len(lines)
  BY ReplayFacts DEF IInv, TypeOK
<1>1. TypeOK'
  BY <1>0 DEF IInv, TypeOK
<1>2. \A q \in Process : phase'[q] = IF q = p THEN "ready" ELSE "closed"
  BY OthersClosed DEF IInv, TypeOK
<1>3. events'[p] = Replay(lines)
  BY DEF IInv, TypeOK
<1>4. LeaseInv' /\ MemoryInv'
  BY <1>0, <1>2, <1>3 DEF IInv, TypeOK, LeaseInv, MemoryInv, Appending
<1>5. ASSUME faults' = 0 PROVE FaultFree'
  <2>1. FaultFree
    BY <1>5 DEF IInv
  <2>2. \A q \in Process : StepInv(q)'
    BY <1>2, <1>3 DEF StepInv, Replay
  <2> QED BY <2>1, <2>2 DEF FaultFree, WellFormed, Decodes
<1> QED BY <1>1, <1>4, <1>5 DEF IInv

LEMMA BeginAppendInv ==
  ASSUME IInv, NEW p \in Process, BeginAppend(p) PROVE IInv'
<1> USE DEF BeginAppend, Goto, fileVars
<1>0. PICK v \in Value :
        pending' = [pending EXCEPT ![p] = [seq |-> Len(events[p]) + 1, val |-> v]]
  OBVIOUS
<1> DEFINE e == [seq |-> Len(events[p]) + 1, val |-> v]
<1>1. /\ Len(events[p]) \in Nat /\ Len(events[p]) <= Len(lines)
      /\ Len(lines) \in Nat /\ Len(lines) < MaxLines
      /\ e \in Event
  BY JournalAssumption DEF IInv, TypeOK, MemoryInv, Event
<1>2. pending'[p] = e /\ \A q \in Process : phase'[q] = IF q = p THEN "record" ELSE "closed"
  BY <1>0, OthersClosed DEF IInv, TypeOK
<1>3. TypeOK'
  <2>1. pending' \in [Process -> Event \cup {NoEvent}]
    BY <1>0, <1>1 DEF IInv, TypeOK
  <2> QED BY <2>1 DEF IInv, TypeOK
<1>4. LeaseInv' /\ MemoryInv'
  BY <1>1, <1>2 DEF IInv, LeaseInv, MemoryInv, Appending
<1>5. ASSUME faults' = 0 PROVE FaultFree'
  <2>1. FaultFree
    BY <1>5 DEF IInv
  <2>2. events[p] = Replay(lines) /\ tail = <<>> /\ Len(Replay(lines)) = Len(lines)
    BY <2>1, ReplayFacts DEF FaultFree, StepInv, IInv, TypeOK
  <2>3. \A q \in Process : StepInv(q)'
    <3>1. StepInv(p)'
      BY <1>2, <2>2 DEF StepInv
    <3>2. ASSUME NEW q \in Process, q # p PROVE StepInv(q)'
      BY <1>2, <3>2 DEF StepInv
    <3> QED BY <3>1, <3>2
  <2> QED BY <2>1, <2>3 DEF FaultFree, WellFormed, Decodes
<1> QED BY <1>3, <1>4, <1>5 DEF IInv

LEMMA WriteRecordInv ==
  ASSUME IInv, NEW p \in Process, WriteRecord(p) PROVE IInv'
<1> USE DEF WriteRecord, Goto
<1>1. pending[p] \in Event
  BY DEF IInv, MemoryInv, Appending
<1>2. tail' \in Seq(Piece)
  BY <1>1, EncodeFacts DEF IInv, TypeOK
<1>3. TypeOK'
  BY <1>2 DEF IInv, TypeOK
<1>4. \A q \in Process : phase'[q] = IF q = p THEN "newline" ELSE "closed"
  BY OthersClosed DEF IInv, TypeOK
<1>5. LeaseInv' /\ MemoryInv'
  BY <1>1, <1>4 DEF IInv, LeaseInv, MemoryInv, Appending
<1>6. ASSUME faults' = 0 PROVE FaultFree'
  <2>1. FaultFree /\ StepInv(p)
    BY <1>6 DEF IInv, FaultFree
  <2>2. tail' = Encode(pending[p])
    BY <1>1, <2>1, EncodeFacts, ConcatEmptySeq DEF StepInv
  <2>3. \A q \in Process : StepInv(q)'
    BY <1>4, <2>1, <2>2 DEF StepInv, Replay, Encode
  <2> QED BY <2>1, <2>3 DEF FaultFree, WellFormed, Decodes
<1> QED BY <1>3, <1>5, <1>6 DEF IInv

LEMMA WriteNewlineInv ==
  ASSUME IInv, NEW p \in Process, WriteNewline(p) PROVE IInv'
<1> USE DEF WriteNewline, Goto
<1>1. pending[p] \in Event
  BY DEF IInv, MemoryInv, Appending
<1>2. lines' \in Seq(Seq(Piece)) /\ Len(lines') = Len(lines) + 1
  BY DEF IInv, TypeOK
<1>3. TypeOK'
  BY <1>2 DEF IInv, TypeOK
<1>4. \A q \in Process : phase'[q] = IF q = p THEN "sync" ELSE "closed"
  BY OthersClosed DEF IInv, TypeOK
<1>5. LeaseInv'
  BY <1>4 DEF IInv, LeaseInv
<1>6. MemoryInv'
  <2>1. Len(events[p]) \in Nat /\ Len(events[p]) <= Len(lines)
    BY DEF IInv, TypeOK, MemoryInv
  <2> QED BY <1>1, <1>2, <1>4, <2>1 DEF IInv, TypeOK, MemoryInv, Appending
<1>7. ASSUME faults' = 0 PROVE FaultFree'
  <2>1. FaultFree /\ StepInv(p)
    BY <1>7 DEF IInv, FaultFree
  <2>2. /\ lines' = Append(lines, Encode(pending[p]))
        /\ pending[p].seq = Len(lines) + 1
        /\ events[p] = Replay(lines)
    BY <2>1 DEF StepInv
  <2>3. WellFormed(lines') /\ Replay(lines') = Append(events[p], pending[p])
    BY <1>1, <2>1, <2>2, AppendRecord DEF FaultFree, IInv, TypeOK
  <2>4. \A q \in Process : StepInv(q)'
    BY <1>2, <1>4, <2>2, <2>3 DEF StepInv
  <2>5. \A e \in acked' : e.seq \in 1..synced' /\ Decodes(lines'[e.seq], e)
    <3> SUFFICES ASSUME NEW e \in acked PROVE e.seq \in 1..synced /\ Decodes(lines'[e.seq], e)
      OBVIOUS
    <3>1. e.seq \in 1..Len(lines) /\ e.seq \in 1..synced /\ Decodes(lines[e.seq], e)
      BY <2>1 DEF FaultFree, IInv, TypeOK
    <3>2. lines'[e.seq] = lines[e.seq]
      BY <3>1 DEF IInv, TypeOK
    <3> QED BY <3>1, <3>2
  <2> QED BY <2>3, <2>4, <2>5 DEF FaultFree
<1> QED BY <1>3, <1>5, <1>6, <1>7 DEF IInv

LEMMA SyncAndReturnInv ==
  ASSUME IInv, NEW p \in Process, SyncAndReturn(p) PROVE IInv'
<1> USE DEF SyncAndReturn, Goto
<1>1. pending[p] \in Event /\ Len(lines) \in Nat /\ Len(events[p]) \in Nat
      /\ Len(events[p]) < Len(lines) /\ events[p] \in Seq(Event)
  BY DEF IInv, TypeOK, MemoryInv, Appending
<1>2. events'[p] = Append(events[p], pending[p])
  BY DEF IInv, TypeOK
<1>3. TypeOK'
  <2>1. events' \in [Process -> Seq(Event)]
    BY <1>1 DEF IInv, TypeOK
  <2>2. pending' \in [Process -> Event \cup {NoEvent}]
    BY DEF IInv, TypeOK
  <2> QED BY <1>1, <2>1, <2>2 DEF IInv, TypeOK
<1>4. \A q \in Process : phase'[q] = IF q = p THEN "ready" ELSE "closed"
  BY OthersClosed DEF IInv, TypeOK
<1>5. LeaseInv'
  BY <1>4 DEF IInv, LeaseInv
<1>6. MemoryInv'
  <2>1. Len(events'[p]) = Len(events[p]) + 1
    BY <1>1, <1>2
  <2> QED BY <1>1, <1>4, <2>1 DEF MemoryInv, Appending
<1>7. ASSUME faults' = 0 PROVE FaultFree'
  <2>1. FaultFree /\ StepInv(p)
    BY <1>7 DEF IInv, FaultFree
  <2>2. /\ events'[p] = Replay(lines)
        /\ pending[p].seq = Len(lines)
        /\ tail = <<>>
    BY <1>2, <2>1 DEF StepInv
  <2>3. \A q \in Process : StepInv(q)'
    BY <1>4, <2>2 DEF StepInv, Replay
  <2>4. Decodes(lines[Len(lines)], pending[p])
    <3>1. Replay(lines)[Len(lines)] = pending[p] /\ Len(Replay(lines)) = Len(lines)
      BY <1>1, <2>1, ReplayFacts DEF StepInv, FaultFree, IInv, TypeOK
    <3>2. lines[Len(lines)] = Encode(Replay(lines)[Len(lines)])
      BY <1>1, <2>1, ReplayFacts DEF FaultFree, IInv, TypeOK
    <3> QED BY <3>1, <3>2 DEF Decodes
  <2>5. \A e \in acked' : e.seq \in 1..synced' /\ Decodes(lines'[e.seq], e)
    BY <1>1, <2>1, <2>2, <2>4 DEF FaultFree, IInv, TypeOK
  <2> QED BY <2>1, <2>3, <2>5 DEF FaultFree, WellFormed, Decodes
<1> QED BY <1>3, <1>5, <1>6, <1>7 DEF IInv

(* A failed write ends the fault-free life of the file, so only the part   *)
(* of the invariant that does not depend on it is at stake.                *)
LEMMA AppendFailsInv ==
  ASSUME IInv, NEW p \in Process, AppendFails(p) PROVE IInv'
<1>1. phase[p] \in Appending /\ pending[p] \in Event
  BY DEF AppendFails, Appending, IInv, MemoryInv
<1>2. tail' \in Seq(Piece)
  <2>1. CASE \E part \in PartialRecord(pending[p]) : tail' = tail \o part
    <3>1. PICK part \in PartialRecord(pending[p]) : tail' = tail \o part
      BY <2>1
    <3>2. part \in Seq(Piece)
      BY <1>1, PartialFacts
    <3> QED BY <3>1, <3>2 DEF IInv, TypeOK
  <2>2. CASE UNCHANGED tail
    BY <2>2 DEF IInv, TypeOK
  <2> QED BY <2>1, <2>2 DEF AppendFails
<1>3. TypeOK'
  BY <1>2, JournalAssumption DEF AppendFails, Goto, IInv, TypeOK
<1>4. \A q \in Process : phase'[q] = IF q = p THEN "ready" ELSE "closed"
  BY <1>1, OthersClosed DEF AppendFails, Goto, Appending, IInv, TypeOK
<1>5. LeaseInv'
  BY <1>1, <1>4 DEF AppendFails, Appending, IInv, LeaseInv
<1>6. MemoryInv'
  BY <1>1, <1>4 DEF AppendFails, Appending, IInv, TypeOK, MemoryInv
<1>7. faults' # 0
  BY DEF AppendFails, IInv, TypeOK
<1> QED BY <1>3, <1>5, <1>6, <1>7 DEF IInv

LEMMA PowerLossInv == ASSUME IInv, PowerLoss PROVE IInv'
<1>1. PICK n \in synced..Len(lines) :
        LET rest == IF n < Len(lines) THEN lines[n + 1] ELSE tail
        IN  \E k \in 0..Len(rest) :
              lines' = SubSeq(lines, 1, n) /\ tail' = SubSeq(rest, 1, k)
  BY DEF PowerLoss
<1> DEFINE rest == IF n < Len(lines) THEN lines[n + 1] ELSE tail
<1>2. PICK k \in 0..Len(rest) : lines' = SubSeq(lines, 1, n) /\ tail' = SubSeq(rest, 1, k)
  BY <1>1
<1>3. n \in Nat /\ synced \in Nat /\ synced <= n /\ n <= Len(lines)
  BY DEF IInv, TypeOK
<1>4. rest \in Seq(Piece)
  BY <1>3 DEF IInv, TypeOK
<1>5. tail' \in Seq(Piece) /\ lines' \in Seq(Seq(Piece)) /\ Len(lines') = n
  BY <1>2, <1>3, <1>4 DEF IInv, TypeOK
<1>6. TypeOK'
  BY <1>3, <1>5 DEF PowerLoss, IInv, TypeOK
<1>7. ASSUME faults' = 0
      PROVE  /\ WellFormed(lines')
             /\ \A e \in acked' : e.seq \in 1..synced' /\ Decodes(lines'[e.seq], e)
  <2>1. FaultFree
    BY <1>7 DEF PowerLoss, IInv
  <2>2. WellFormed(lines')
    BY <1>2, <1>3, <2>1, CutLines DEF FaultFree, IInv, TypeOK
  <2>3. \A i \in 1..n : lines'[i] = lines[i]
    BY <1>2, <1>3 DEF IInv, TypeOK
  <2>4. acked' = acked /\ synced' = synced
    BY DEF PowerLoss
  <2>5. \A e \in acked : e.seq \in 1..synced /\ Decodes(lines[e.seq], e)
    BY <2>1 DEF FaultFree
  <2>6. \A e \in acked : lines'[e.seq] = lines[e.seq]
    BY <1>3, <2>3, <2>5
  <2> QED BY <2>2, <2>4, <2>5, <2>6
<1> QED BY <1>6, <1>7, AllClosed DEF PowerLoss

(* The invariant is inductive. *)
THEOREM Inductive == Spec => []IInv
<1>1. IInv /\ [Next]_vars => IInv'
  <2> SUFFICES ASSUME IInv, Next PROVE IInv'
    BY StutterInv
  <2>1. CASE PowerLoss
    BY <2>1, PowerLossInv
  <2>2. ASSUME NEW p \in Process,
               \/ AcquireLease(p) \/ RepairTornTail(p) \/ RefuseOpen(p) \/ Load(p)
               \/ BeginAppend(p) \/ WriteRecord(p) \/ WriteNewline(p) \/ SyncAndReturn(p)
               \/ AppendFails(p) \/ Close(p) \/ Crash(p)
        PROVE  IInv'
    BY <2>2, AcquireLeaseInv, RepairTornTailInv, RefuseOpenInv, LoadInv, BeginAppendInv,
       WriteRecordInv, WriteNewlineInv, SyncAndReturnInv, AppendFailsInv, CloseInv, CrashInv
  <2> QED BY <2>1, <2>2 DEF Next
<1> QED BY <1>1, InitInv, PTL DEF Spec

(* Every variable keeps its type, whatever fails and whenever. *)
THEOREM TypeCorrect == Spec => []TypeOK
<1>1. IInv => TypeOK
  BY DEF IInv
<1> QED BY <1>1, Inductive, PTL

(* As long as no write or sync has failed, an acknowledged append stays    *)
(* durable on the line of its number through crashes and power losses.     *)
THEOREM AckedIsDurable == Spec => []AckedDurable
<1>1. IInv => AckedDurable
  BY DEF IInv, FaultFree, AckedDurable
<1> QED BY <1>1, Inductive, PTL

(* As long as no write or sync has failed, the in-memory events an         *)
(* operation decides from are the replay of the file.                      *)
THEOREM HandleIsReplay == Spec => []HandleAgrees
<1>1. IInv => HandleAgrees
  BY DEF IInv, FaultFree, StepInv, HandleAgrees
<1> QED BY <1>1, Inductive, PTL

-----------------------------------------------------------------------------
(* What failed writes leave: a line may begin with fragments, and ends with *)
(* the record whose newline completed it.                                  *)
EndsWith(line, e) ==
  /\ Len(line) >= 2
  /\ SubSeq(line, Len(line) - 1, Len(line)) = Encode(e)

BytesInv ==
  /\ \A p \in Process : phase[p] = "newline" => EndsWith(tail, pending[p])
  /\ \A p \in Process : phase[p] = "sync" => EndsWith(lines[Len(lines)], pending[p])
  /\ \A e \in acked : \E i \in 1..synced : EndsWith(lines[i], e)

LEMMA ConcatLen ==
  ASSUME NEW S, NEW s \in Seq(S), NEW r \in Seq(S)
  PROVE  Len(s \o r) = Len(s) + Len(r)
OBVIOUS

(* Two pieces written behind any bytes are the last two. *)
LEMMA LastTwo ==
  ASSUME NEW S, NEW s \in Seq(S), NEW r \in Seq(S), Len(r) = 2
  PROVE  Len(s \o r) >= 2 /\ SubSeq(s \o r, Len(s \o r) - 1, Len(s \o r)) = r
<1> DEFINE n == Len(s)
           c == s \o r
<1>1. n \in Nat
  OBVIOUS
<1>2. /\ c \in Seq(S) /\ Len(c) = Len(s) + Len(r)
      /\ \A i \in 1..(Len(s) + Len(r)) : c[i] = IF i <= Len(s) THEN s[i] ELSE r[i - Len(s)]
  <2>1. c \in Seq(S)
    OBVIOUS
  <2>2. Len(c) = Len(s) + Len(r)
    BY ConcatLen, Zenon
  <2> QED BY <2>1, <2>2, ConcatProperties
<1>3. /\ c \in Seq(S) /\ Len(c) = n + 2
      /\ \A i \in 1..(n + 2) : c[i] = IF i <= n THEN s[i] ELSE r[i - n]
  BY <1>2
<1> HIDE DEF n, c
<1>4. c[n + 1] = r[1]
  BY <1>1, <1>3
<1>5. c[n + 2] = r[2]
  BY <1>1, <1>3
<1> DEFINE end == SubSeq(c, Len(c) - 1, Len(c))
<1>6. end \in Seq(S) /\ Len(end) = 2 /\ end[1] = c[n + 1] /\ end[2] = c[n + 2]
  BY <1>1, <1>3
<1> HIDE DEF end
<1>7. end = r
  BY <1>4, <1>5, <1>6
<1>8. Len(c) >= 2
  BY <1>1, <1>3
<1>9. SubSeq(c, Len(c) - 1, Len(c)) = r
  BY <1>7 DEF end
<1> QED BY <1>8, <1>9 DEF c

(* A record written behind any bytes is at their end. *)
LEMMA RecordAtEnd ==
  ASSUME NEW s \in Seq(Piece), NEW e \in Event
  PROVE  EndsWith(s \o Encode(e), e)
<1>1. Encode(e) \in Seq(Piece)
  BY EncodeFacts
<1>2. Len(Encode(e)) = 2
  BY DEF Encode
<1> QED BY <1>1, <1>2, LastTwo DEF EndsWith

(* The lines that were durable are there after a step. *)
LEMMA DurableLinesStay ==
  ASSUME IInv, Next
  PROVE  synced' >= synced /\ \A i \in 1..synced : lines'[i] = lines[i]
<1>0. synced \in Nat /\ synced <= Len(lines) /\ lines \in Seq(Seq(Piece)) /\ Len(lines) \in Nat
  BY DEF IInv, TypeOK
<1>1. CASE UNCHANGED lines /\ synced' \in {synced, Len(lines)}
  BY <1>0, <1>1
<1>2. ASSUME NEW p \in Process, WriteNewline(p)
      PROVE  synced' >= synced /\ \A i \in 1..synced : lines'[i] = lines[i]
  BY <1>0, <1>2 DEF WriteNewline, IInv, TypeOK
<1>3. CASE PowerLoss
  <2>1. PICK n \in synced..Len(lines) : lines' = SubSeq(lines, 1, n) /\ synced' = synced
    BY <1>3 DEF PowerLoss
  <2> QED BY <1>0, <2>1
<1> QED
  BY <1>1, <1>2, <1>3 DEF Next, AcquireLease, RepairTornTail, RefuseOpen, Load, BeginAppend,
     WriteRecord, SyncAndReturn, AppendFails, Close, Crash, fileVars

LEMMA BytesStep ==
  ASSUME IInv, BytesInv, Next
  PROVE  BytesInv'
<1>0. /\ synced \in Nat /\ synced' >= synced /\ synced' \in Nat
      /\ \A i \in 1..synced : lines'[i] = lines[i]
  <2>1. IInv'
    BY AcquireLeaseInv, RepairTornTailInv, RefuseOpenInv, LoadInv, BeginAppendInv,
       WriteRecordInv, WriteNewlineInv, SyncAndReturnInv, AppendFailsInv, CloseInv, CrashInv,
       PowerLossInv DEF Next
  <2> QED BY <2>1, DurableLinesStay DEF IInv, TypeOK
<1>1. \A e \in acked : \E i \in 1..synced' : EndsWith(lines'[i], e)
  <2> SUFFICES ASSUME NEW e \in acked PROVE \E i \in 1..synced' : EndsWith(lines'[i], e)
    OBVIOUS
  <2>1. PICK i \in 1..synced : EndsWith(lines[i], e)
    BY DEF BytesInv
  <2>2. i \in 1..synced' /\ lines'[i] = lines[i]
    BY <1>0
  <2> QED BY <2>1, <2>2
<1>2. ASSUME NEW p \in Process, WriteRecord(p) PROVE BytesInv'
  <2>1. pending[p] \in Event /\ tail \in Seq(Piece)
    BY <1>2 DEF WriteRecord, IInv, TypeOK, MemoryInv, Appending
  <2>2. EndsWith(tail', pending'[p])
    BY <1>2, <2>1, RecordAtEnd DEF WriteRecord
  <2>3. \A q \in Process : phase'[q] = IF q = p THEN "newline" ELSE "closed"
    BY <1>2, OthersClosed DEF WriteRecord, Goto, IInv, TypeOK
  <2> QED BY <1>1, <1>2, <2>2, <2>3 DEF BytesInv, WriteRecord
<1>3. ASSUME NEW p \in Process, WriteNewline(p) PROVE BytesInv'
  <2>1. lines'[Len(lines')] = tail /\ pending' = pending
    BY <1>3 DEF WriteNewline, IInv, TypeOK
  <2>2. EndsWith(tail, pending[p])
    BY <1>3 DEF WriteNewline, BytesInv
  <2>3. \A q \in Process : phase'[q] = IF q = p THEN "sync" ELSE "closed"
    BY <1>3, OthersClosed DEF WriteNewline, Goto, IInv, TypeOK
  <2> QED BY <1>1, <1>3, <2>1, <2>2, <2>3 DEF BytesInv, WriteNewline
<1>4. ASSUME NEW p \in Process, SyncAndReturn(p) PROVE BytesInv'
  <2>1. /\ EndsWith(lines[Len(lines)], pending[p]) /\ synced' = Len(lines) /\ lines' = lines
        /\ Len(lines) \in 1..synced'
    BY <1>4 DEF SyncAndReturn, BytesInv, IInv, TypeOK, MemoryInv
  <2>2. \A e \in acked' : \E i \in 1..synced' : EndsWith(lines'[i], e)
    <3> SUFFICES ASSUME NEW e \in acked, e # pending[p]
                 PROVE \E i \in 1..synced' : EndsWith(lines'[i], e)
      BY <1>4, <2>1 DEF SyncAndReturn
    <3> QED BY <1>1
  <2>3. \A q \in Process : phase'[q] = IF q = p THEN "ready" ELSE "closed"
    BY <1>4, OthersClosed DEF SyncAndReturn, Goto, IInv, TypeOK
  <2> QED BY <2>2, <2>3 DEF BytesInv
<1>5. CASE (\A p \in Process : phase'[p] \notin {"newline", "sync"}) /\ acked' = acked
  BY <1>1, <1>5 DEF BytesInv
<1>6. ASSUME NEW p \in Process,
             \/ AcquireLease(p) \/ RepairTornTail(p) \/ RefuseOpen(p) \/ Load(p)
             \/ BeginAppend(p) \/ AppendFails(p) \/ Close(p) \/ Crash(p)
      PROVE  (\A q \in Process : phase'[q] \notin {"newline", "sync"}) /\ acked' = acked
  <2>1. \A q \in Process : q # p => phase'[q] = phase[q] /\ phase[q] \notin {"newline", "sync"}
    BY <1>6, OthersClosed DEF AcquireLease, RepairTornTail, RefuseOpen, Load, BeginAppend,
       AppendFails, Close, Crash, Drop, Goto, IInv, TypeOK, LeaseInv
  <2> QED
    BY <1>6, <2>1 DEF AcquireLease, RepairTornTail, RefuseOpen, Load, BeginAppend, AppendFails,
       Close, Crash, Drop, Goto, IInv, TypeOK
<1>7. CASE PowerLoss
  BY <1>1, <1>7 DEF BytesInv, PowerLoss
<1> QED BY <1>2, <1>3, <1>4, <1>5, <1>6, <1>7 DEF Next

(* Whatever fails and whenever, the bytes of an acknowledged record stay   *)
(* at the end of a durable line.                                           *)
THEOREM AckedBytesStay == Spec => []AckedBytesOnDisk
<1>1. Init => BytesInv
  BY DEF Init, BytesInv
<1>2. IInv /\ BytesInv /\ [Next]_vars => BytesInv'
  BY BytesStep DEF vars, BytesInv, EndsWith, Encode
<1>3. BytesInv => AckedBytesOnDisk
  BY DEF BytesInv, EndsWith, AckedBytesOnDisk
<1> QED BY <1>1, <1>2, <1>3, Inductive, PTL DEF Spec

-----------------------------------------------------------------------------
(* No step shortens or rewrites the durable lines, with or without faults. *)
THEOREM DurablePrefixIsKept == Spec => DurablePrefixKept
<1> DEFINE Kept == synced' >= synced /\ SubSeq(lines', 1, synced) = SubSeq(lines, 1, synced)
<1>1. IInv /\ [Next]_vars => [Kept]_vars
  <2> SUFFICES ASSUME IInv, Next PROVE Kept
    OBVIOUS
  <2>0. synced \in Nat /\ synced <= Len(lines) /\ lines \in Seq(Seq(Piece)) /\ Len(lines) \in Nat
    BY DEF IInv, TypeOK
  <2>1. CASE UNCHANGED lines /\ synced' \in {synced, Len(lines)}
    BY <2>0, <2>1
  <2>2. ASSUME NEW p \in Process, WriteNewline(p) PROVE Kept
    <3>1. lines' = Append(lines, tail) /\ synced' = synced /\ tail \in Seq(Piece)
      BY <2>2 DEF WriteNewline, IInv, TypeOK
    <3>2. lines' \in Seq(Seq(Piece)) /\ Len(lines') = Len(lines) + 1
          /\ \A i \in 1..Len(lines) : lines'[i] = lines[i]
      BY <2>0, <3>1
    <3> QED BY <2>0, <3>1, <3>2
  <2>3. CASE PowerLoss
    <3>1. PICK n \in synced..Len(lines) : lines' = SubSeq(lines, 1, n) /\ synced' = synced
      BY <2>3 DEF PowerLoss
    <3>2. lines' \in Seq(Seq(Piece)) /\ Len(lines') = n /\ \A i \in 1..n : lines'[i] = lines[i]
      BY <2>0, <3>1
    <3> QED BY <2>0, <3>1, <3>2
  <2> QED
    BY <2>1, <2>2, <2>3 DEF Next, AcquireLease, RepairTornTail, RefuseOpen, Load, BeginAppend,
       WriteRecord, SyncAndReturn, AppendFails, Close, Crash, fileVars
<1> QED BY <1>1, Inductive, PTL DEF Spec, DurablePrefixKept

(* Until a write or a sync fails, the file, its leases and its crashes      *)
(* implement the append-only log.                                          *)
THEOREM JournalImplementsLog == Spec => ImplementsLog
<1> DEFINE Step == faults' = 0 => Log!Next \/ UNCHANGED Log!vars
<1>1. Init => Log!Init
  <2> SUFFICES ASSUME Init PROVE Log!Init
    OBVIOUS
  <2>1. Replay(lines) = <<>>
    BY DEF Init, Replay
  <2>2. {e.seq : e \in acked} = {} /\ synced = 0
    BY DEF Init
  <2> QED BY <2>1, <2>2 DEF Log!Init
<1>2. IInv /\ [Next]_vars => [Step]_vars
  <2> SUFFICES ASSUME IInv, [Next]_vars, faults' = 0 PROVE Log!Next \/ UNCHANGED Log!vars
    OBVIOUS
  <2>f. faults = 0
    BY DEF IInv, TypeOK, Next, AcquireLease, RepairTornTail, RefuseOpen, Load, BeginAppend,
       WriteRecord, WriteNewline, SyncAndReturn, AppendFails, Close, Crash, PowerLoss, vars
  <2>0. FaultFree /\ faults = 0 /\ Len(Replay(lines)) = Len(lines) /\ Replay(lines) \in Seq(Event)
        /\ lines \in Seq(Seq(Piece)) /\ synced \in 0..Len(lines) /\ Len(lines) \in Nat
    BY <2>f, ReplayFacts DEF IInv, TypeOK, FaultFree
  <2>1. CASE UNCHANGED <<lines, synced, acked>>
    BY <2>1 DEF Log!vars
  <2>2. ASSUME NEW p \in Process, RepairTornTail(p) PROVE Log!Stabilise
    BY <2>0, <2>2 DEF RepairTornTail, Log!Stabilise
  <2>3. ASSUME NEW p \in Process, WriteNewline(p) PROVE Log!Extend
    <3>1. pending[p] \in Event /\ pending[p].seq = Len(lines) + 1
          /\ lines' = Append(lines, Encode(pending[p])) /\ UNCHANGED <<synced, acked>>
      BY <2>0, <2>3 DEF WriteNewline, IInv, MemoryInv, Appending, FaultFree, StepInv
    <3>2. Replay(lines') = Append(Replay(lines), pending[p])
      BY <2>0, <3>1, AppendRecord DEF FaultFree
    <3> QED BY <2>0, <3>1, <3>2 DEF Log!Extend
  <2>4. ASSUME NEW p \in Process, SyncAndReturn(p) PROVE Log!Stabilise
    <3>1. pending[p].seq \in 1..Len(lines)
      BY <2>0, <2>4 DEF SyncAndReturn, IInv, MemoryInv, Appending, FaultFree, StepInv, TypeOK
    <3>2. {e.seq : e \in acked'} = {e.seq : e \in acked} \cup {pending[p].seq}
      BY <2>4 DEF SyncAndReturn
    <3>3. UNCHANGED lines /\ synced' = Len(lines)
      BY <2>4 DEF SyncAndReturn
    <3> QED BY <2>0, <3>1, <3>2, <3>3 DEF Log!Stabilise
  <2>5. CASE PowerLoss
    <3>1. PICK n \in synced..Len(lines) : lines' = SubSeq(lines, 1, n) /\ UNCHANGED <<synced, acked>>
      BY <2>5 DEF PowerLoss
    <3>2. Replay(lines') = SubSeq(Replay(lines), 1, n)
      BY <2>0, <3>1, CutLines DEF FaultFree
    <3> QED BY <2>0, <3>1, <3>2 DEF Log!Lose, Log!Next
  <2>6. CASE \E p \in Process : AppendFails(p)
    BY <2>0, <2>6 DEF AppendFails
  <2>7. ASSUME NEW p \in Process,
               AcquireLease(p) \/ RefuseOpen(p) \/ Load(p) \/ BeginAppend(p) \/ WriteRecord(p)
               \/ Close(p) \/ Crash(p)
        PROVE  UNCHANGED <<lines, synced, acked>>
    BY <2>7 DEF AcquireLease, RefuseOpen, Load, BeginAppend, WriteRecord, Close, Crash, fileVars
  <2>8. CASE UNCHANGED vars
    BY <2>1, <2>8 DEF vars
  <2>9. CASE Next
    <3>1. CASE \E p \in Process : RepairTornTail(p) \/ WriteNewline(p) \/ SyncAndReturn(p)
      BY <2>2, <2>3, <2>4, <3>1 DEF Log!Next
    <3>2. CASE \E p \in Process :
                 AcquireLease(p) \/ RefuseOpen(p) \/ Load(p) \/ BeginAppend(p) \/ WriteRecord(p)
                 \/ Close(p) \/ Crash(p)
      BY <2>1, <2>7, <3>2
    <3>3. CASE PowerLoss
      BY <2>5, <3>3 DEF Log!Next
    <3> QED BY <2>6, <2>9, <3>1, <3>2, <3>3 DEF Next
  <2> QED BY <2>8, <2>9
<1> QED BY <1>1, <1>2, Inductive, PTL DEF Spec, ImplementsLog
=============================================================================
