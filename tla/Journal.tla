------------------------------ MODULE Journal ------------------------------
(***************************************************************************)
(* The append-only JSON-lines journal of crates/store (JsonlEventStore):   *)
(* processes that open it under an exclusive lease, repair a torn tail,    *)
(* replay it, append records to it one write at a time, and are killed, or *)
(* lose power, between any two of those writes.                            *)
(*                                                                         *)
(* The file is its bytes cut at newlines: "lines" is the sequence of       *)
(* newline-terminated lines and "tail" what follows the last newline.  A   *)
(* record is encoded in two pieces so that a write may stop in the middle  *)
(* of one; nothing in the model says that a line holds exactly one record. *)
(* A blank line, which replay skips, cannot occur: a newline is written    *)
(* only after a whole record.                                              *)
(***************************************************************************)
EXTENDS Naturals, Sequences, FiniteSets

CONSTANTS
  Process,       \* the processes that open the journal
  Value,         \* what an event carries (kind, scope and payload)
  MaxLines,      \* bound: no append begins once the file has that many lines
  MaxFaults      \* bound: how many writes or syncs return an I/O error

ASSUME JournalAssumption ==
  /\ MaxLines \in Nat
  /\ MaxFaults \in Nat

VARIABLES
  lines,         \* the complete lines of the file, each a sequence of pieces
  tail,          \* the unterminated bytes after the last newline
  synced,        \* how many complete lines have reached the disk
  exists,        \* whether the file has been created
  lease,         \* the holders of the journal's exclusive SQLite lease
  phase,         \* where each process is in open or append
  strict,        \* whether a process opened with open_strict
  events,        \* the in-memory events of each process's store
  pending,       \* the event a process is appending
  acked,         \* history: events whose append returned their sequence
  faults         \* I/O errors so far

fileVars == <<lines, tail, synced>>
vars == <<lines, tail, synced, exists, lease, phase, strict, events, pending,
          acked, faults>>

-----------------------------------------------------------------------------
Event == [seq : 1..(MaxLines + 1), val : Value]

NoEvent == [seq |-> 0]

(* encode_event: a record is two writes' worth of bytes. *)
Encode(e) == << <<"head", e>>, <<"rest", e>> >>

(* What write_all may have left of a record when it fails or is cut short. *)
PartialRecord(e) == { <<>>, << <<"head", e>> >> }

(* decode_event accepts a line that is one whole record and nothing else. *)
Decodes(line, e) == line = Encode(e)

(* The replay loop of open: every complete line decodes, and the record on *)
(* line i carries the number i.                                            *)
WellFormed(ls) ==
  \A i \in DOMAIN ls : \E e \in Event : Decodes(ls[i], e) /\ e.seq = i

Replay(ls) == [i \in DOMAIN ls |-> ls[i][1][2]]

(* A process lets go of its store, or dies: the lease is released by the   *)
(* operating system and its memory is gone.                                *)
Drop(p) ==
  /\ lease' = lease \ {p}
  /\ phase' = [phase EXCEPT ![p] = "closed"]
  /\ events' = [events EXCEPT ![p] = <<>>]
  /\ pending' = [pending EXCEPT ![p] = NoEvent]

Goto(p, next) == phase' = [phase EXCEPT ![p] = next]
-----------------------------------------------------------------------------
Init ==
  /\ lines = <<>>
  /\ tail = <<>>
  /\ synced = 0
  /\ exists = FALSE
  /\ lease = {}
  /\ phase = [p \in Process |-> "closed"]
  /\ strict = [p \in Process |-> FALSE]
  /\ events = [p \in Process |-> <<>>]
  /\ pending = [p \in Process |-> NoEvent]
  /\ acked = {}
  /\ faults = 0

(* Mutant: the lease is not exclusive. *)
AcquireLeaseShared(p) ==
  /\ phase[p] = "closed"
  /\ lease' = lease \cup {p}
  /\ Goto(p, "leased")
  /\ \E s \in BOOLEAN : strict' = [strict EXCEPT ![p] = s]
  /\ UNCHANGED <<fileVars, exists, events, pending, acked, faults>>

(* open and open_strict take the lease before they look at the file.  When *)
(* it is held the call returns WouldBlock and nothing changes.             *)
AcquireLease(p) ==
  /\ phase[p] = "closed"
  /\ lease = {}
  /\ lease' = {p}
  /\ Goto(p, "leased")
  /\ \E s \in BOOLEAN : strict' = [strict EXCEPT ![p] = s]
  /\ UNCHANGED <<fileVars, exists, events, pending, acked, faults>>

(* Mutant: the repair cuts at the newline before the last one. *)
RepairOneLineTooMany(p) ==
  /\ phase[p] = "leased"
  /\ ~strict[p]
  /\ tail # <<>> /\ lines # <<>>
  /\ tail' = <<>>
  /\ lines' = SubSeq(lines, 1, Len(lines) - 1)
  /\ synced' = Len(lines) - 1
  /\ UNCHANGED <<exists, lease, phase, strict, events, pending, acked, faults>>

(* Mutant: the repaired length counts the fragment as a line. *)
RepairCountsFragment(p) ==
  /\ phase[p] = "leased"
  /\ ~strict[p]
  /\ tail # <<>>
  /\ tail' = <<>>
  /\ synced' = Len(lines) + 1
  /\ UNCHANGED <<lines, exists, lease, phase, strict, events, pending, acked, faults>>

(* A lenient open creates the file and truncates an unterminated fragment  *)
(* to the last newline; sync_data then makes the whole file durable.       *)
RepairTornTail(p) ==
  /\ phase[p] = "leased"
  /\ ~strict[p]
  /\ tail # <<>>
  /\ tail' = <<>>
  /\ synced' = Len(lines)
  /\ UNCHANGED <<lines, exists, lease, phase, strict, events, pending, acked, faults>>

(* open_strict creates nothing and repairs nothing; either open fails on a *)
(* complete line that does not decode or carries the wrong number.         *)
RefuseOpen(p) ==
  /\ phase[p] = "leased"
  /\ \/ strict[p] /\ ~exists
     \/ strict[p] /\ tail # <<>>
     \/ tail = <<>> /\ ~WellFormed(lines)
  /\ Drop(p)
  /\ exists' = (exists \/ ~strict[p])
  /\ UNCHANGED <<fileVars, strict, acked, faults>>

Load(p) ==
  /\ phase[p] = "leased"
  /\ strict[p] => exists
  /\ tail = <<>>
  /\ WellFormed(lines)
  /\ exists' = TRUE
  /\ events' = [events EXCEPT ![p] = Replay(lines)]
  /\ Goto(p, "ready")
  /\ UNCHANGED <<fileVars, lease, strict, pending, acked, faults>>

(* Mutant: numbers start at zero. *)
BeginAppendFromZero(p) ==
  /\ phase[p] = "ready"
  /\ Len(lines) < MaxLines
  /\ \E v \in Value :
       pending' = [pending EXCEPT ![p] = [seq |-> Len(events[p]), val |-> v]]
  /\ Goto(p, "record")
  /\ UNCHANGED <<fileVars, exists, lease, strict, events, acked, faults>>

(* append_scoped numbers the event from the in-memory events. *)
BeginAppend(p) ==
  /\ phase[p] = "ready"
  /\ Len(lines) < MaxLines
  /\ \E v \in Value :
       pending' = [pending EXCEPT ![p] = [seq |-> Len(events[p]) + 1, val |-> v]]
  /\ Goto(p, "record")
  /\ UNCHANGED <<fileVars, exists, lease, strict, events, acked, faults>>

WriteRecord(p) ==
  /\ phase[p] = "record"
  /\ tail' = tail \o Encode(pending[p])
  /\ Goto(p, "newline")
  /\ UNCHANGED <<lines, synced, exists, lease, strict, events, pending, acked, faults>>

WriteNewline(p) ==
  /\ phase[p] = "newline"
  /\ lines' = Append(lines, tail)
  /\ tail' = <<>>
  /\ Goto(p, "sync")
  /\ UNCHANGED <<synced, exists, lease, strict, events, pending, acked, faults>>

(* Mutant: the append returns without sync_data. *)
ReturnWithoutSync(p) ==
  /\ phase[p] = "sync"
  /\ events' = [events EXCEPT ![p] = Append(@, pending[p])]
  /\ acked' = acked \cup {pending[p]}
  /\ pending' = [pending EXCEPT ![p] = NoEvent]
  /\ Goto(p, "ready")
  /\ UNCHANGED <<lines, tail, synced, exists, lease, strict, faults>>

(* sync_data returns, the event joins the in-memory events and its         *)
(* sequence is returned to the caller.                                     *)
SyncAndReturn(p) ==
  /\ phase[p] = "sync"
  /\ synced' = Len(lines)
  /\ events' = [events EXCEPT ![p] = Append(@, pending[p])]
  /\ acked' = acked \cup {pending[p]}
  /\ pending' = [pending EXCEPT ![p] = NoEvent]
  /\ Goto(p, "ready")
  /\ UNCHANGED <<lines, tail, exists, lease, strict, faults>>

(* Any of the three calls may return an error.  append_scoped passes it to *)
(* its caller with "?": bytes already written stay in the file, the        *)
(* in-memory events are left as they were, and the handle stays open.      *)
AppendFails(p) ==
  /\ faults < MaxFaults
  /\ faults' = faults + 1
  /\ \/ /\ phase[p] = "record"
        /\ \E part \in PartialRecord(pending[p]) : tail' = tail \o part
     \/ /\ phase[p] \in {"newline", "sync"}
        /\ UNCHANGED tail
  /\ pending' = [pending EXCEPT ![p] = NoEvent]
  /\ Goto(p, "ready")
  /\ UNCHANGED <<lines, synced, exists, lease, strict, events, acked>>

(* The store is dropped between two operations. *)
Close(p) ==
  /\ phase[p] = "ready"
  /\ Drop(p)
  /\ UNCHANGED <<fileVars, exists, strict, acked, faults>>

(* The process is killed.  What it wrote stays in the page cache; a record *)
(* it was writing may be there in part.                                    *)
Crash(p) ==
  /\ phase[p] \notin {"closed", "ready"}
  /\ \/ /\ phase[p] = "record"
        /\ \E part \in PartialRecord(pending[p]) : tail' = tail \o part
     \/ UNCHANGED tail
  /\ Drop(p)
  /\ UNCHANGED <<lines, synced, exists, strict, acked, faults>>

(* The machine stops: every process dies and the file is cut back to any   *)
(* length that keeps the synced lines.                                     *)
PowerLoss ==
  /\ \E n \in synced..Len(lines) :
       LET rest == IF n < Len(lines) THEN lines[n + 1] ELSE tail
       IN  \E k \in 0..Len(rest) :
             /\ lines' = SubSeq(lines, 1, n)
             /\ tail' = SubSeq(rest, 1, k)
  /\ lease' = {}
  /\ phase' = [p \in Process |-> "closed"]
  /\ events' = [p \in Process |-> <<>>]
  /\ pending' = [p \in Process |-> NoEvent]
  /\ UNCHANGED <<synced, exists, strict, acked, faults>>

Next ==
  \/ \E p \in Process :
       \/ AcquireLease(p) \/ RepairTornTail(p) \/ RefuseOpen(p) \/ Load(p)
       \/ BeginAppend(p) \/ WriteRecord(p) \/ WriteNewline(p) \/ SyncAndReturn(p)
       \/ AppendFails(p) \/ Close(p) \/ Crash(p)
  \/ PowerLoss

Spec == Init /\ [][Next]_vars
-----------------------------------------------------------------------------
(***************************************************************************)
(* Properties.                                                             *)
(***************************************************************************)
Piece == {"head", "rest"} \X Event

(* The type invariant. *)
TypeOK ==
  /\ lines \in Seq(Seq(Piece))
  /\ tail \in Seq(Piece)
  /\ synced \in 0..Len(lines)
  /\ exists \in BOOLEAN
  /\ lease \in SUBSET Process
  /\ phase \in [Process -> {"closed", "leased", "ready", "record", "newline", "sync"}]
  /\ strict \in [Process -> BOOLEAN]
  /\ events \in [Process -> Seq(Event)]
  /\ pending \in [Process -> Event \cup {NoEvent}]
  /\ acked \in SUBSET Event
  /\ faults \in 0..MaxFaults

(* As long as no write or sync has failed, an append that returned its     *)
(* sequence has put its record, whole and alone, on the durable line of    *)
(* that number: no crash, power loss, repair or other writer removes it.   *)
AckedDurable ==
  faults = 0 => \A e \in acked : e.seq \in 1..synced /\ Decodes(lines[e.seq], e)

(* store.events(), from which every operation of the application decides,  *)
(* is the replay of the file whenever an operation can look at it, so that *)
(* the number the next append computes is the next line's.                 *)
HandleAgrees ==
  faults = 0 =>
    \A p \in Process :
      phase[p] = "ready" => tail = <<>> /\ WellFormed(lines) /\ events[p] = Replay(lines)

(* What is durable is never rewritten: repair truncates only bytes behind  *)
(* the last newline, and a reopened journal writes only at its end.        *)
DurablePrefixKept ==
  [][ /\ synced' >= synced
      /\ SubSeq(lines', 1, synced) = SubSeq(lines, 1, synced) ]_vars

(* The journal implements the append-only log, until the first write or    *)
(* sync that fails: from then on its handle may glue records together.     *)
Log == INSTANCE AppendOnlyLog WITH
         log <- Replay(lines),
         stable <- synced,
         acknowledged <- {e.seq : e \in acked}

ImplementsLog ==
  /\ Log!Init
  /\ [][faults' = 0 => Log!Next \/ UNCHANGED Log!vars]_vars

(* Even after an append has failed, the bytes of every acknowledged record *)
(* stay on disk, at the end of some complete line.                         *)
AckedBytesOnDisk ==
  \A e \in acked :
    \E i \in 1..synced :
      /\ Len(lines[i]) >= 2
      /\ SubSeq(lines[i], Len(lines[i]) - 1, Len(lines[i])) = Encode(e)

(* "Each successful append writes exactly one newline-terminated JSON      *)
(* record" (crates/store/src/lib.rs, JsonlEventStore).                     *)
OneRecordPerAppend ==
  \A e \in acked : \E i \in DOMAIN lines : Decodes(lines[i], e)
=============================================================================
