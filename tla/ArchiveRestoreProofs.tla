------------------------ MODULE ArchiveRestoreProofs ------------------------
(***************************************************************************)
(* Proofs about ArchiveRestore, for every set of companions and every      *)
(* bound, on systems that replace an empty directory and on those that do  *)
(* not.  The inductive invariant says who holds the lease, what a restore  *)
(* between its renames has set aside and staged, that every directory is   *)
(* sound, and what a backup in progress has copied.                        *)
(***************************************************************************)
EXTENDS ArchiveRestore, FiniteSetTheorems, SequenceTheorems, TLAPS

Short(d) == Len(d.journal) <= Cardinality(acked)

(* Appends are numbered, and no journal has more events than were appended. *)
AckInv ==
  /\ IsFiniteSet(acked)
  /\ Cardinality(acked) <= MaxEvents
  /\ \A e \in acked : e.number <= Cardinality(acked)

LenInv ==
  /\ target \notin {Absent, Bare} => Short(target)
  /\ \A i \in DOMAIN safety : safety[i] # Bare => Short(safety[i])
  /\ package # Absent => Short(package.contents) /\ Short(package.listed)
  /\ Short(backup.asked) /\ Len(backup.journal) <= Cardinality(acked)
  /\ Short(restore.promised) /\ Short(restore.staging)

(* The lease excludes the running program and a restore past its check.    *)
LeaseInv ==
  /\ app = "up" <=> lease = "app"
  /\ restore.phase \notin {"idle", "verified"} <=> lease = "restore"
  /\ app = "up" => home = "target" /\ target \notin {Absent, Bare}
  /\ restore.phase \in {"install", "rollback"} => target \in {Absent, Bare}
  /\ restore.phase # "idle" => restore.report = "none"

(* Between the renames the original is the latest copy; and where renaming *)
(* needs no luck, a rollback is needed only if it cannot succeed.          *)
OriginalInv ==
  /\ restore.phase \in {"install", "rollback"} /\ restore.original # Absent =>
       safety # <<>> /\ Last(safety) = restore.original
  /\ restore.phase = "rollback" /\ faults = 0 => target = Bare /\ ~ReplacesBare

StagedInv ==
  /\ restore.phase \in {"companions", "audit", "aside", "install", "rollback"} =>
       restore.staging.journal = restore.promised.journal
  /\ restore.phase \in {"audit", "aside", "install", "rollback"} =>
       restore.staging.companions = restore.promised.companions
  /\ restore.phase \in {"aside", "install", "rollback"} => Healthy(restore.staging)

HealthInv ==
  /\ Healthy(Audited(target))
  /\ \A i \in DOMAIN safety : Healthy(Audited(safety[i]))

CopyInv ==
  faults = 0 /\ safety = <<>> =>
    /\ backup.phase = "companions" =>
         Healthy([journal |-> backup.journal, companions |-> Audited(target).companions])
    /\ backup.phase = "publish" =>
         Healthy([journal |-> backup.journal, companions |-> backup.companions])
    /\ backup.phase = "verify" => Healthy(package.contents)

IInv ==
  /\ TypeOK
  /\ AckInv
  /\ LenInv
  /\ LeaseInv
  /\ OriginalInv
  /\ StagedInv
  /\ HealthInv
  /\ CopyInv
  /\ NothingDestroyed

-----------------------------------------------------------------------------
LEMMA BoundedSeqs ==
  ASSUME NEW S, NEW n \in Nat
  PROVE  \A s : s \in SeqOf(S, n) <=> s \in Seq(S) /\ Len(s) <= n
<1>1. ASSUME NEW s \in SeqOf(S, n) PROVE s \in Seq(S) /\ Len(s) <= n
  <2>1. PICK m \in 0..n : s \in [1..m -> S]
    BY DEF SeqOf
  <2>2. s \in Seq(S) /\ Len(s) = m
    BY <2>1, SeqDef
  <2> QED BY <2>2
<1>2. ASSUME NEW s \in Seq(S), Len(s) <= n PROVE s \in SeqOf(S, n)
  <2>1. Len(s) \in 0..n /\ s \in [1..Len(s) -> S]
    BY <1>2, LenProperties
  <2> QED BY <2>1 DEF SeqOf
<1> QED BY <1>1, <1>2

LEMMA Bounds == {MaxEvents, MaxRestores, MaxFaults, MaxKills} \subseteq Nat
BY ArchiveRestoreAssumption

(* A directory is a record of a bounded journal and of companions. *)
LEMMA DirectoryFacts ==
  /\ Absent # Bare /\ Absent \notin Directory /\ Bare \notin Directory
  /\ Empty \in Directory
  /\ \A d \in Directory :
       /\ d = [journal |-> d.journal, companions |-> d.companions]
       /\ d.journal \in Seq(Event) /\ Len(d.journal) <= MaxEvents /\ d.companions \subseteq Companion
  /\ \A j, c : j \in Seq(Event) /\ Len(j) <= MaxEvents /\ c \subseteq Companion =>
       [journal |-> j, companions |-> c] \in Directory
<1>1. MaxEvents \in Nat
  BY Bounds
<1>2. \A s : s \in SeqOf(Event, MaxEvents) <=> s \in Seq(Event) /\ Len(s) <= MaxEvents
  BY <1>1, BoundedSeqs
<1>3. <<>> \in Seq(Event) /\ Len(<<>>) <= MaxEvents
  BY <1>1, EmptySeq
<1>4. Empty \in Directory
  BY <1>2, <1>3 DEF Empty, Directory
<1> QED BY <1>2, <1>4, PlacesAssumption DEF Directory

LEMMA AuditedFacts ==
  /\ \A d \in Directory : Audited(d) = d
  /\ Audited(Absent) = Empty /\ Audited(Bare) = Empty
  /\ \A d \in Place : Audited(d) \in Directory
  /\ \A d \in Place : In(d) = ToSet(Audited(d).journal)
  /\ Empty.journal = <<>> /\ Empty.companions = {} /\ Healthy(Empty)
  /\ In(Absent) = {} /\ In(Bare) = {}
<1>1. Empty.journal = <<>> /\ Empty.companions = {} /\ ToSet(<<>>) = {} /\ Healthy(Empty)
  BY DEF Empty, ToSet, Healthy
<1> QED BY <1>1, DirectoryFacts DEF Audited, Place, In

LEMMA HealthyOnly ==
  ASSUME NEW d, NEW e, d.journal = e.journal, d.companions \subseteq e.companions, Healthy(d)
  PROVE  Healthy(e)
BY DEF Healthy

-----------------------------------------------------------------------------
(* How a step changes the directories. *)
Quietly ==
  \/ Close \/ Backup \/ VerifyForRestore \/ BeginStaging \/ AuditStaging
  \/ Stage("journal", "journal", "companions") \/ Stage("companions", "companions", "audit")
  \/ InstallFails \/ RollBackFails \/ Decay \/ Kill \/ UNCHANGED vars

LEMMA QuietStep == Quietly => UNCHANGED <<target, safety, acked>>
<1>1. Close \/ VerifyForRestore \/ BeginStaging \/ AuditStaging \/ InstallFails \/ RollBackFails
        \/ Decay \/ Kill \/ UNCHANGED vars => UNCHANGED <<target, safety, acked>>
  BY DEF Close, VerifyForRestore, BeginStaging, AuditStaging, InstallFails, RollBackFails, Decay, Kill,
         vars, disk
<1>2. Stage("journal", "journal", "companions") \/ Stage("companions", "companions", "audit")
        => UNCHANGED <<target, safety, acked>>
  BY DEF Stage, disk
<1>3. Backup => UNCHANGED <<target, safety, acked>>
  BY DEF Backup, BeginBackup, CopyJournal, CopyCompanions, AbandonBackup, PublishBackup, VerifyBackup,
         DiscardPackage, disk
<1> QED BY <1>1, <1>2, <1>3 DEF Quietly

Created ==
  /\ app = "down"
  /\ target' = IF target = Absent THEN Bare ELSE target
  /\ UNCHANGED <<safety, acked, restore>>

Opening ==
  /\ app = "starting" /\ lease = "none" /\ target # Absent
  /\ target' = Audited(target)
  /\ UNCHANGED <<safety, acked, restore>>

Appended(e) ==
  /\ lease = "app"
  /\ Cardinality(acked) < MaxEvents
  /\ e.number = Cardinality(acked) + 1 /\ e.needs \in target.companions \cup {Plain}
  /\ target' = [journal |-> Append(target.journal, e), companions |-> target.companions]
  /\ acked' = acked \cup {e}
  /\ UNCHANGED <<safety, restore>>

Written(c) ==
  /\ lease = "app"
  /\ target' = [journal |-> target.journal, companions |-> target.companions \cup {c}]
  /\ UNCHANGED <<safety, acked, restore>>

LEMMA HoldingFacts ==
  ASSUME TypeOK, LeaseInv, app = "up"
  PROVE  target \in Directory /\ Opened = target /\ lease = "app"
BY DEF TypeOK, LeaseInv, Place, Opened

LEMMA AppendMoves ==
  ASSUME TypeOK, LeaseInv, AckInv, NEW needs \in Companion \cup {Plain}, AppendEvent(needs)
  PROVE  \E e \in Event : Appended(e)
<1> DEFINE e == [number |-> Cardinality(acked) + 1, needs |-> needs]
<1>1. app = "up" /\ home = "target"
  BY DEF AppendEvent, LeaseInv
<1>2. target \in Directory /\ Opened = target /\ lease = "app"
  BY <1>1, HoldingFacts
<1>3. target' = [target EXCEPT !.journal = Append(@, e)] /\ safety' = safety
  BY <1>1 DEF AppendEvent, Holding
<1>4. target' = [journal |-> Append(target.journal, e), companions |-> target.companions]
  BY <1>2, <1>3 DEF Directory
<1>5. Cardinality(acked) < MaxEvents /\ acked' = acked \cup {e}
      /\ needs \in target.companions \cup {Plain} /\ restore' = restore
  BY <1>2 DEF AppendEvent
<1>6. Appended(e)
  BY <1>2, <1>3, <1>4, <1>5 DEF Appended
<1>7. e \in Event
  <2>1. Cardinality(acked) \in Nat /\ MaxEvents \in Nat
    BY FS_CardinalityType, Bounds DEF AckInv
  <2> QED BY <2>1, <1>5 DEF Event
<1> QED BY <1>6, <1>7

LEMMA WriteMoves ==
  ASSUME TypeOK, LeaseInv, NEW c \in Companion, WriteCompanion(c)
  PROVE  Written(c)
<1>1. app = "up" /\ home = "target"
  BY DEF WriteCompanion, LeaseInv
<1>2. target \in Directory /\ Opened = target /\ lease = "app"
  BY <1>1, HoldingFacts
<1>3. target' = [target EXCEPT !.companions = @ \cup {c}] /\ safety' = safety
  BY <1>1 DEF WriteCompanion, Holding
<1>4. target' = [journal |-> target.journal, companions |-> target.companions \cup {c}]
  BY <1>2, <1>3 DEF Directory
<1> QED BY <1>2, <1>3, <1>4 DEF Written, WriteCompanion

(* Every step does one of these to the directories. *)
DiskMove ==
  \/ Quietly \/ Created \/ Opening
  \/ UNCHANGED <<target, safety, acked, restore>>
  \/ \E e \in Event : Appended(e)
  \/ \E c \in Companion : Written(c)
  \/ SetAside \/ Install \/ RollBack

LEMMA DiskStep == TypeOK /\ LeaseInv /\ AckInv /\ [Next]_vars => DiskMove
<1> SUFFICES ASSUME TypeOK, LeaseInv, AckInv, [Next]_vars PROVE DiskMove
  OBVIOUS
<1>1. CASE Program
  <2>1. CreateDirectory => Created
    BY DEF CreateDirectory, Created
  <2>2. OpenJournal => Opening \/ UNCHANGED <<target, safety, acked, restore>>
    BY DEF OpenJournal, Opening
  <2>3. Close => Quietly
    BY DEF Quietly
  <2>4. \A needs \in Companion \cup {Plain} : AppendEvent(needs) => \E e \in Event : Appended(e)
    BY AppendMoves
  <2>5. \A c \in Companion : WriteCompanion(c) => Written(c)
    BY WriteMoves
  <2> QED BY <1>1, <2>1, <2>2, <2>3, <2>4, <2>5 DEF Program, DiskMove
<1>2. CASE Backup \/ Restore \/ Decay \/ Kill \/ UNCHANGED vars
  BY <1>2 DEF Restore, Quietly, DiskMove
<1> QED BY <1>1, <1>2 DEF Next

-----------------------------------------------------------------------------
(* What an append does to what the directory holds. *)
LEMMA AppendedFacts ==
  ASSUME TypeOK, AckInv, LenInv, LeaseInv, NEW e \in Event, Appended(e)
  PROVE  /\ target \in Directory /\ target' \in Directory
         /\ AckInv' /\ Cardinality(acked') = Cardinality(acked) + 1
         /\ Len(target'.journal) <= Cardinality(acked')
         /\ In(target') = In(target) \cup {e}
         /\ Healthy(target) => Healthy(target')
         /\ target'.companions = target.companions
<1> DEFINE n == Cardinality(acked)
<1>1. n \in Nat /\ MaxEvents \in Nat
  BY FS_CardinalityType, Bounds DEF AckInv
<1>2. target \in Directory
  BY HoldingFacts DEF Appended, LeaseInv
<1>3. target.journal \in Seq(Event) /\ Len(target.journal) <= n /\ target.companions \subseteq Companion
  BY <1>2, DirectoryFacts DEF LenInv, Short
<1> DEFINE j == Append(target.journal, e)
<1>4. j \in Seq(Event) /\ Len(j) = Len(target.journal) + 1
      /\ \A i \in 1..Len(target.journal) : j[i] = target.journal[i]
      /\ j[Len(target.journal) + 1] = e
  BY <1>3, AppendProperties
<1>5. n < MaxEvents /\ e.number = n + 1 /\ acked' = acked \cup {e}
      /\ e.needs \in target.companions \cup {Plain}
      /\ target' = [journal |-> j, companions |-> target.companions]
  BY DEF Appended
<1>6. e \notin acked
  BY <1>1, <1>5 DEF AckInv
<1>7. IsFiniteSet(acked') /\ Cardinality(acked') = n + 1
  BY <1>5, <1>6, FS_AddElement DEF AckInv
<1>8. AckInv'
  <2>1. Cardinality(acked') <= MaxEvents
    BY <1>1, <1>5, <1>7
  <2>2. ASSUME NEW x \in acked' PROVE x.number <= Cardinality(acked')
    <3>1. CASE x = e
      BY <3>1, <1>1, <1>5, <1>7
    <3>2. CASE x \in acked
      <4>1. x \in Event /\ x.number <= n
        BY <3>2 DEF AckInv, TypeOK
      <4>2. x.number \in Nat
        BY <4>1, <1>1 DEF Event
      <4> QED BY <4>1, <4>2, <1>1, <1>7
    <3> QED BY <3>1, <3>2, <1>5
  <2> QED BY <1>7, <2>1, <2>2 DEF AckInv
<1>9. Len(j) \in Nat /\ Len(target.journal) \in Nat
  BY <1>3, <1>4, LenProperties
<1>10. Len(j) <= n + 1 /\ Len(j) <= MaxEvents
  BY <1>1, <1>3, <1>4, <1>5, <1>9
<1>11. target' \in Directory
  BY <1>3, <1>4, <1>5, <1>10, DirectoryFacts
<1> DEFINE k == Len(target.journal) + 1
<1>k. k \in Nat /\ j[k] = e
  BY <1>4, <1>9
<1>12. ToSet(j) = ToSet(target.journal) \cup {e}
  <2>1. DOMAIN j = 1..Len(j) /\ DOMAIN target.journal = 1..Len(target.journal)
    BY <1>3, <1>4, LenProperties
  <2>2. 1..Len(j) = 1..Len(target.journal) \cup {Len(target.journal) + 1}
    BY <1>4, <1>9
  <2> HIDE DEF j
  <2>3. \A i \in DOMAIN target.journal : i \in DOMAIN j /\ j[i] = target.journal[i]
    BY <1>4, <2>1, <2>2
  <2>4. (\A i \in DOMAIN j : i \in DOMAIN target.journal \/ i = k) /\ k \in DOMAIN j
    BY <1>9, <2>1, <2>2
  <2> HIDE DEF k
  <2>5. ASSUME NEW x \in ToSet(j) PROVE x \in ToSet(target.journal) \cup {e}
    BY <1>k, <2>3, <2>4 DEF ToSet
  <2>6. ASSUME NEW x \in ToSet(target.journal) PROVE x \in ToSet(j)
    BY <2>3 DEF ToSet
  <2>7. e \in ToSet(j)
    BY <1>k, <2>4 DEF ToSet
  <2> QED BY <2>5, <2>6, <2>7
<1>13. In(target') = In(target) \cup {e}
  <2>1. In(target') = ToSet(j) /\ In(target) = ToSet(target.journal)
    BY <1>2, <1>5, <1>11, DirectoryFacts DEF In
  <2> QED BY <2>1, <1>12
<1>14. ASSUME Healthy(target) PROVE Healthy(target')
  <2>1. \A i \in DOMAIN j : i \in 1..Len(target.journal) \/ i = k
    BY <1>4, <1>9, LenProperties
  <2>2. \A i \in 1..Len(target.journal) : i \in DOMAIN target.journal /\ j[i] = target.journal[i]
    BY <1>3, <1>4, LenProperties
  <2>3. \A i \in DOMAIN target.journal : target.journal[i].needs \in target.companions \cup {Plain}
    BY <1>14 DEF Healthy
  <2> HIDE DEF j, k
  <2>4. \A i \in DOMAIN j : j[i].needs \in target.companions \cup {Plain}
    BY <2>1, <2>2, <2>3, <1>k, <1>5
  <2>5. target'.journal = j /\ target'.companions = target.companions
    BY <1>5
  <2> QED BY <2>4, <2>5 DEF Healthy
<1> QED BY <1>2, <1>5, <1>7, <1>8, <1>10, <1>11, <1>13, <1>14

LEMMA WrittenFacts ==
  ASSUME TypeOK, LenInv, LeaseInv, NEW c \in Companion, Written(c)
  PROVE  /\ target \in Directory /\ target' \in Directory
         /\ target'.journal = target.journal /\ target.companions \subseteq target'.companions
         /\ In(target') = In(target)
         /\ Healthy(target) => Healthy(target')
<1>1. target \in Directory
  BY HoldingFacts DEF Written, LeaseInv
<1>2. target'.journal = target.journal /\ target'.companions = target.companions \cup {c}
  BY DEF Written
<1>3. target' \in Directory
  BY <1>1, DirectoryFacts DEF Written
<1>4. In(target') = In(target)
  BY <1>1, <1>2, <1>3, DirectoryFacts DEF In
<1>5. Healthy(target) => Healthy(target')
  BY <1>2, HealthyOnly
<1> QED BY <1>1, <1>2, <1>3, <1>4, <1>5

(* The first rename puts the directory at the end of the copies, and a     *)
(* rollback takes the last copy back.                                      *)
LEMMA AsideFacts ==
  ASSUME TypeOK, SetAside, target # Absent
  PROVE  /\ target' = Absent /\ target \in Directory \cup {Bare}
         /\ safety' = Append(safety, target) /\ safety' \in Seq(Directory \cup {Bare})
         /\ safety' # <<>> /\ Last(safety') = target
         /\ \A i \in DOMAIN safety : i \in DOMAIN safety' /\ safety'[i] = safety[i]
         /\ \A i \in DOMAIN safety' : (i \in DOMAIN safety /\ safety'[i] = safety[i]) \/ safety'[i] = target
         /\ \E i \in DOMAIN safety' : safety'[i] = target
<1>1. target' = Absent /\ safety' = Append(safety, target) /\ target \in Directory \cup {Bare}
  BY DEF SetAside, TypeOK, Place
<1>2. safety \in Seq(Directory \cup {Bare})
  BY DEF TypeOK
<1>3. /\ safety' \in Seq(Directory \cup {Bare}) /\ Len(safety') = Len(safety) + 1
      /\ \A i \in 1..Len(safety) : safety'[i] = safety[i]
      /\ safety'[Len(safety) + 1] = target
  BY <1>1, <1>2, AppendProperties
<1>4. Len(safety) \in Nat /\ DOMAIN safety = 1..Len(safety) /\ DOMAIN safety' = 1..Len(safety')
  BY <1>2, <1>3, LenProperties
<1>5. safety' # <<>> /\ Last(safety') = target
  BY <1>3, <1>4 DEF Last
<1>6. \A i \in DOMAIN safety : i \in DOMAIN safety' /\ safety'[i] = safety[i]
  BY <1>3, <1>4
<1>7. \A i \in DOMAIN safety' : (i \in DOMAIN safety /\ safety'[i] = safety[i]) \/ safety'[i] = target
  <2>1. \A i \in DOMAIN safety' : i \in DOMAIN safety \/ i = Len(safety) + 1
    BY <1>3, <1>4
  <2> QED BY <2>1, <1>3, <1>4
<1>8. \E i \in DOMAIN safety' : safety'[i] = target
  BY <1>3, <1>4
<1> QED BY <1>1, <1>3, <1>5, <1>6, <1>7, <1>8

LEMMA BackFacts ==
  ASSUME TypeOK, safety # <<>>
  PROVE  /\ Last(safety) \in Directory \cup {Bare}
         /\ Front(safety) \in Seq(Directory \cup {Bare})
         /\ \E i \in DOMAIN safety : safety[i] = Last(safety)
         /\ \A i \in DOMAIN Front(safety) : i \in DOMAIN safety /\ Front(safety)[i] = safety[i]
         /\ \A i \in DOMAIN safety : i \in DOMAIN Front(safety) \/ safety[i] = Last(safety)
<1>1. safety \in Seq(Directory \cup {Bare})
  BY DEF TypeOK
<1>2. Len(safety) \in Nat /\ DOMAIN safety = 1..Len(safety) /\ Len(safety) # 0
  BY <1>1, LenProperties, EmptySeq
<1>3. Last(safety) = safety[Len(safety)] /\ Len(safety) \in DOMAIN safety
  BY <1>2 DEF Last
<1>4. /\ Front(safety) \in Seq(Directory \cup {Bare})
      /\ Len(Front(safety)) = Len(safety) - 1
      /\ \A i \in 1..(Len(safety) - 1) : Front(safety)[i] = safety[i]
  <2>1. 1 \in 1..(Len(safety) + 1) /\ Len(safety) - 1 \in 0..Len(safety)
    BY <1>2
  <2> QED BY <1>1, <1>2, <2>1, SubSeqProperties DEF Front
<1>5. DOMAIN Front(safety) = 1..(Len(safety) - 1)
  BY <1>4, LenProperties
<1>6. Front(safety) \in Seq(Directory \cup {Bare})
  BY <1>4
<1>7. \A i \in DOMAIN safety : i \in DOMAIN Front(safety) \/ i = Len(safety)
  BY <1>2, <1>5
<1>8. \A i \in DOMAIN Front(safety) : i \in DOMAIN safety
  BY <1>2, <1>5
<1>9. safety[Len(safety)] \in Directory \cup {Bare}
  BY <1>1, <1>2, ElementOfSeq
<1> QED BY <1>3, <1>4, <1>5, <1>6, <1>7, <1>8, <1>9

-----------------------------------------------------------------------------
(* How a step changes the backup and the package. *)
BackupType ==
  [phase : {"idle", "journal", "companions", "publish", "verify", "created", "failed"},
   asked : Directory, journal : SeqOf(Event, MaxEvents), companions : SUBSET Companion]

RestoreType ==
  [phase : {"idle", "verified", "journal", "companions", "audit", "aside", "install", "rollback"},
   promised : Directory, staging : Directory, original : Place,
   report : {"none", "restored", "preserved", "at safety"}]

PackageType == [contents : Directory, listed : Directory, declared : 0..MaxEvents]

BackupOf(p, a, j, c) == [phase |-> p, asked |-> a, journal |-> j, companions |-> c]

RestoreOf(p, promised, staging, original, report) ==
  [phase |-> p, promised |-> promised, staging |-> staging, original |-> original, report |-> report]

(* Updates of a backup and of a restore, field by field. *)
LEMMA BackupPhase ==
  ASSUME NEW b \in BackupType, NEW p
  PROVE  [b EXCEPT !.phase = p] = BackupOf(p, b.asked, b.journal, b.companions)
<1>1. b = BackupOf(b.phase, b.asked, b.journal, b.companions)
  BY DEF BackupType, BackupOf
<1> QED BY <1>1 DEF BackupOf

LEMMA BackupAsked ==
  ASSUME NEW b \in BackupType, NEW p, NEW x
  PROVE  [b EXCEPT !.phase = p, !.asked = x] = BackupOf(p, x, b.journal, b.companions)
<1> DEFINE once == [b EXCEPT !.phase = p]
<1>1. once = BackupOf(p, b.asked, b.journal, b.companions)
  BY BackupPhase
<1>2. [b EXCEPT !.phase = p, !.asked = x] = [once EXCEPT !.asked = x]
  OBVIOUS
<1> HIDE DEF once
<1>3. [once EXCEPT !.asked = x] = BackupOf(p, x, b.journal, b.companions)
  BY <1>1 DEF BackupOf
<1> QED BY <1>2, <1>3

LEMMA BackupJournal ==
  ASSUME NEW b \in BackupType, NEW p, NEW x
  PROVE  [b EXCEPT !.phase = p, !.journal = x] = BackupOf(p, b.asked, x, b.companions)
<1> DEFINE once == [b EXCEPT !.phase = p]
<1>1. once = BackupOf(p, b.asked, b.journal, b.companions)
  BY BackupPhase
<1>2. [b EXCEPT !.phase = p, !.journal = x] = [once EXCEPT !.journal = x]
  OBVIOUS
<1> HIDE DEF once
<1>3. [once EXCEPT !.journal = x] = BackupOf(p, b.asked, x, b.companions)
  BY <1>1 DEF BackupOf
<1> QED BY <1>2, <1>3

LEMMA BackupCompanions ==
  ASSUME NEW b \in BackupType, NEW p, NEW x
  PROVE  [b EXCEPT !.phase = p, !.companions = x] = BackupOf(p, b.asked, b.journal, x)
<1> DEFINE once == [b EXCEPT !.phase = p]
<1>1. once = BackupOf(p, b.asked, b.journal, b.companions)
  BY BackupPhase
<1>2. [b EXCEPT !.phase = p, !.companions = x] = [once EXCEPT !.companions = x]
  OBVIOUS
<1> HIDE DEF once
<1>3. [once EXCEPT !.companions = x] = BackupOf(p, b.asked, b.journal, x)
  BY <1>1 DEF BackupOf
<1> QED BY <1>2, <1>3

LEMMA RestorePhase ==
  ASSUME NEW r \in RestoreType, NEW p
  PROVE  [r EXCEPT !.phase = p] = RestoreOf(p, r.promised, r.staging, r.original, r.report)
<1>1. r = RestoreOf(r.phase, r.promised, r.staging, r.original, r.report)
  BY DEF RestoreType, RestoreOf
<1> QED BY <1>1 DEF RestoreOf

LEMMA RestorePromised ==
  ASSUME NEW r \in RestoreType, NEW p, NEW x
  PROVE  [r EXCEPT !.phase = p, !.promised = x] = RestoreOf(p, x, r.staging, r.original, r.report)
<1> DEFINE once == [r EXCEPT !.phase = p]
<1>1. once = RestoreOf(p, r.promised, r.staging, r.original, r.report)
  BY RestorePhase
<1>2. [r EXCEPT !.phase = p, !.promised = x] = [once EXCEPT !.promised = x]
  OBVIOUS
<1> HIDE DEF once
<1>3. [once EXCEPT !.promised = x] = RestoreOf(p, x, r.staging, r.original, r.report)
  BY <1>1 DEF RestoreOf
<1> QED BY <1>2, <1>3

LEMMA RestoreStaging ==
  ASSUME NEW r \in RestoreType, NEW p, NEW x
  PROVE  [r EXCEPT !.phase = p, !.staging = x] = RestoreOf(p, r.promised, x, r.original, r.report)
<1> DEFINE once == [r EXCEPT !.phase = p]
<1>1. once = RestoreOf(p, r.promised, r.staging, r.original, r.report)
  BY RestorePhase
<1>2. [r EXCEPT !.phase = p, !.staging = x] = [once EXCEPT !.staging = x]
  OBVIOUS
<1> HIDE DEF once
<1>3. [once EXCEPT !.staging = x] = RestoreOf(p, r.promised, x, r.original, r.report)
  BY <1>1 DEF RestoreOf
<1> QED BY <1>2, <1>3

LEMMA RestoreOriginal ==
  ASSUME NEW r \in RestoreType, NEW p, NEW x
  PROVE  [r EXCEPT !.phase = p, !.original = x] = RestoreOf(p, r.promised, r.staging, x, r.report)
<1> DEFINE once == [r EXCEPT !.phase = p]
<1>1. once = RestoreOf(p, r.promised, r.staging, r.original, r.report)
  BY RestorePhase
<1>2. [r EXCEPT !.phase = p, !.original = x] = [once EXCEPT !.original = x]
  OBVIOUS
<1> HIDE DEF once
<1>3. [once EXCEPT !.original = x] = RestoreOf(p, r.promised, r.staging, x, r.report)
  BY <1>1 DEF RestoreOf
<1> QED BY <1>2, <1>3

LEMMA RestoreReport ==
  ASSUME NEW r \in RestoreType, NEW p, NEW x
  PROVE  [r EXCEPT !.phase = p, !.report = x] = RestoreOf(p, r.promised, r.staging, r.original, x)
<1> DEFINE once == [r EXCEPT !.phase = p]
<1>1. once = RestoreOf(p, r.promised, r.staging, r.original, r.report)
  BY RestorePhase
<1>2. [r EXCEPT !.phase = p, !.report = x] = [once EXCEPT !.report = x]
  OBVIOUS
<1> HIDE DEF once
<1>3. [once EXCEPT !.report = x] = RestoreOf(p, r.promised, r.staging, r.original, x)
  BY <1>1 DEF RestoreOf
<1> QED BY <1>2, <1>3

LEMMA TypedParts ==
  TypeOK => /\ backup \in BackupType /\ restore \in RestoreType
            /\ package = Absent \/ package \in PackageType
            /\ NoBackup \in BackupType /\ NoRestore \in RestoreType
            /\ NoRestore = RestoreOf("idle", Empty, Empty, Absent, "none")
            /\ NoBackup = BackupOf("idle", Empty, <<>>, {})
<1>1. MaxEvents \in Nat /\ <<>> \in Seq(Event) /\ Len(<<>>) <= MaxEvents
  BY Bounds, EmptySeq
<1>2. <<>> \in SeqOf(Event, MaxEvents)
  BY <1>1, BoundedSeqs
<1>3. NoBackup \in BackupType /\ NoRestore \in RestoreType
  BY <1>2, DirectoryFacts DEF NoBackup, NoRestore, BackupType, RestoreType, Place
<1> QED BY <1>3 DEF TypeOK, BackupType, RestoreType, PackageType, NoRestore, NoBackup, RestoreOf, BackupOf

BackupMove ==
  \/ backup' = backup /\ (package' = package \/ Decay)
  \/ backup' = NoBackup /\ package' \in {package, Absent}
  \/ /\ backup' = BackupOf("journal", Audited(target), <<>>, {}) /\ package' = package
  \/ /\ backup.phase = "journal" /\ package' = package
     /\ backup' = BackupOf("companions", backup.asked, Audited(target).journal, backup.companions)
  \/ /\ backup.phase = "companions" /\ package' = package
     /\ backup' = BackupOf("publish", backup.asked, backup.journal, Audited(target).companions)
  \/ /\ backup.phase = "publish"
     /\ backup' = BackupOf("verify", backup.asked, backup.journal, backup.companions)
     /\ \E copied : /\ copied = [journal |-> backup.journal, companions |-> backup.companions]
                    /\ package' = [contents |-> copied, listed |-> copied, declared |-> Len(backup.asked.journal)]
  \/ /\ package' = package
     /\ \E p \in {"created", "failed"} : backup' = BackupOf(p, backup.asked, backup.journal, backup.companions)

LEMMA BackupStepMoves == TypeOK /\ [Next]_vars => BackupMove
<1> SUFFICES ASSUME TypeOK, [Next]_vars PROVE BackupMove
  OBVIOUS
<1>1. backup \in BackupType
  BY TypedParts
<1>2. CASE Program \/ Restore \/ Decay \/ UNCHANGED vars
  <2>1. Program => UNCHANGED <<backup, package>>
    BY DEF Program, CreateDirectory, OpenJournal, Close, AppendEvent, WriteCompanion, disk
  <2>2. Restore => UNCHANGED <<backup, package>>
    BY DEF Restore, VerifyForRestore, BeginStaging, AuditStaging, Stage, SetAside, Install, InstallFails,
           RollBack, RollBackFails, disk
  <2>3. Decay => backup' = backup
    BY DEF Decay
  <2>4. UNCHANGED vars => UNCHANGED <<backup, package>>
    BY DEF vars, disk
  <2> QED BY <1>2, <2>1, <2>2, <2>3, <2>4 DEF BackupMove
<1>3. CASE Kill
  <2>1. package' = package /\ backup' \in {backup, NoBackup}
    BY <1>3 DEF Kill, disk
  <2> QED BY <2>1 DEF BackupMove
<1>4. CASE Backup
  <2>1. CASE BeginBackup
    <3>1. [NoBackup EXCEPT !.phase = "journal", !.asked = Audited(target)]
            = BackupOf("journal", Audited(target), NoBackup.journal, NoBackup.companions)
      <4>1. NoBackup \in BackupType
        BY TypedParts
      <4> QED BY <4>1, BackupAsked
    <3>2. NoBackup.journal = <<>> /\ NoBackup.companions = {}
      BY DEF NoBackup
    <3> QED BY <2>1, <3>1, <3>2 DEF BeginBackup, BackupMove, disk
  <2>2. CASE CopyJournal
    <3>1. [backup EXCEPT !.phase = "companions", !.journal = Audited(target).journal]
            = BackupOf("companions", backup.asked, Audited(target).journal, backup.companions)
      BY <1>1, BackupJournal
    <3> QED BY <2>2, <3>1 DEF CopyJournal, BackupStep, BackupMove, disk
  <2>3. CASE CopyCompanions
    <3>1. [backup EXCEPT !.phase = "publish", !.companions = Audited(target).companions]
            = BackupOf("publish", backup.asked, backup.journal, Audited(target).companions)
      BY <1>1, BackupCompanions
    <3> QED BY <2>3, <3>1 DEF CopyCompanions, BackupStep, BackupMove, disk
  <2>4. CASE AbandonBackup
    BY <2>4 DEF AbandonBackup, BackupMove, disk
  <2>5. CASE PublishBackup
    <3>1. backup' = BackupOf("verify", backup.asked, backup.journal, backup.companions)
      BY <2>5, <1>1, BackupPhase DEF PublishBackup
    <3> QED BY <2>5, <3>1 DEF PublishBackup, BackupStep, BackupMove
  <2>6. CASE VerifyBackup
    <3> DEFINE p == IF Verifies(package) THEN "created" ELSE "failed"
    <3>1. backup' = [backup EXCEPT !.phase = p] /\ package' = package
      BY <2>6 DEF VerifyBackup, disk
    <3>2. p \in {"created", "failed"}
      OBVIOUS
    <3> HIDE DEF p
    <3>3. backup' = BackupOf(p, backup.asked, backup.journal, backup.companions)
      BY <3>1, <1>1, BackupPhase
    <3> QED BY <3>1, <3>2, <3>3 DEF BackupMove
  <2>7. CASE DiscardPackage
    BY <2>7 DEF DiscardPackage, BackupMove
  <2> QED BY <1>4, <2>1, <2>2, <2>3, <2>4, <2>5, <2>6, <2>7 DEF Backup
<1> QED BY <1>2, <1>3, <1>4 DEF Next

(* How a step changes the restore. *)
RestoreMove ==
  \/ restore' = restore
  \/ restore' = NoRestore
  \/ restore' = RestoreOf("verified", Empty, Empty, Absent, "none")
  \/ /\ restore.phase = "verified" /\ package # Absent
     /\ restore' = RestoreOf("journal", package.listed, restore.staging, restore.original, restore.report)
  \/ /\ restore.phase = "journal" /\ package # Absent /\ package.contents.journal = restore.promised.journal
     /\ \E staging : /\ staging = [journal |-> package.contents.journal, companions |-> restore.staging.companions]
                     /\ restore' = RestoreOf("companions", restore.promised, staging, restore.original, restore.report)
  \/ /\ restore.phase = "companions" /\ package # Absent
     /\ package.contents.companions = restore.promised.companions
     /\ \E staging : /\ staging = [journal |-> restore.staging.journal, companions |-> package.contents.companions]
                     /\ restore' = RestoreOf("audit", restore.promised, staging, restore.original, restore.report)
  \/ /\ restore.phase = "audit" /\ Healthy(restore.staging)
     /\ restore' = RestoreOf("aside", restore.promised, restore.staging, restore.original, restore.report)
  \/ /\ restore.phase = "aside"
     /\ restore' = RestoreOf("install", restore.promised, restore.staging, target, restore.report)
  \/ /\ restore.phase = "install"
     /\ restore' = RestoreOf("rollback", restore.promised, restore.staging, restore.original, restore.report)
  \/ restore' = RestoreOf("idle", Empty, Empty, Absent, "restored")
  \/ \E report \in {"preserved", "at safety"} :
       restore' = RestoreOf("idle", restore.promised, restore.staging, restore.original, report)

LEMMA StageMoves ==
  ASSUME TypeOK
  PROVE  /\ Stage("journal", "journal", "companions") => RestoreMove
         /\ Stage("companions", "companions", "audit") => RestoreMove
<1>1. restore \in RestoreType /\ restore.staging \in Directory
  BY TypedParts DEF RestoreType
<1>2. restore.staging = [journal |-> restore.staging.journal, companions |-> restore.staging.companions]
  BY <1>1, DirectoryFacts
<1>3. ASSUME Stage("journal", "journal", "companions") PROVE RestoreMove
  <2>1. \/ /\ restore.phase = "journal" /\ package # Absent /\ package.contents.journal = restore.promised.journal
           /\ restore' = [restore EXCEPT !.phase = "companions",
                                         !.staging["journal"] = package.contents["journal"]]
        \/ restore' = NoRestore
    BY <1>3 DEF Stage, Staged, Refuse
  <2> DEFINE x == [restore.staging EXCEPT !.journal = package.contents.journal]
  <2>2. [restore EXCEPT !.phase = "companions", !.staging["journal"] = package.contents["journal"]]
          = [restore EXCEPT !.phase = "companions", !.staging = x]
    OBVIOUS
  <2>3. x = [journal |-> package.contents.journal, companions |-> restore.staging.companions]
    BY <1>2
  <2> HIDE DEF x
  <2>4. [restore EXCEPT !.phase = "companions", !.staging = x]
          = RestoreOf("companions", restore.promised, x, restore.original, restore.report)
    BY <1>1, RestoreStaging
  <2>5. restore' = NoRestore \/ restore' = RestoreOf("companions", restore.promised, x, restore.original, restore.report)
    BY <2>1, <2>2, <2>4, Zenon
  <2> QED BY <2>1, <2>3, <2>5 DEF RestoreMove
<1>4. ASSUME Stage("companions", "companions", "audit") PROVE RestoreMove
  <2>1. \/ /\ restore.phase = "companions" /\ package # Absent
           /\ package.contents.companions = restore.promised.companions
           /\ restore' = [restore EXCEPT !.phase = "audit",
                                         !.staging["companions"] = package.contents["companions"]]
        \/ restore' = NoRestore
    BY <1>4 DEF Stage, Staged, Refuse
  <2> DEFINE x == [restore.staging EXCEPT !.companions = package.contents.companions]
  <2>2. [restore EXCEPT !.phase = "audit", !.staging["companions"] = package.contents["companions"]]
          = [restore EXCEPT !.phase = "audit", !.staging = x]
    OBVIOUS
  <2>3. x = [journal |-> restore.staging.journal, companions |-> package.contents.companions]
    BY <1>2
  <2> HIDE DEF x
  <2>4. [restore EXCEPT !.phase = "audit", !.staging = x]
          = RestoreOf("audit", restore.promised, x, restore.original, restore.report)
    BY <1>1, RestoreStaging
  <2>5. restore' = NoRestore \/ restore' = RestoreOf("audit", restore.promised, x, restore.original, restore.report)
    BY <2>1, <2>2, <2>4, Zenon
  <2> QED BY <2>1, <2>3, <2>5 DEF RestoreMove
<1> QED BY <1>3, <1>4

LEMMA RestoreStepMoves == TypeOK /\ [Next]_vars => RestoreMove
<1> SUFFICES ASSUME TypeOK, [Next]_vars PROVE RestoreMove
  OBVIOUS
<1>1. restore \in RestoreType
  BY TypedParts
<1>2. CASE Program \/ Backup \/ Decay \/ UNCHANGED vars
  <2>1. Program => restore' = restore
    BY DEF Program, CreateDirectory, OpenJournal, Close, AppendEvent, WriteCompanion
  <2>2. Backup => restore' = restore
    BY DEF Backup, BeginBackup, CopyJournal, CopyCompanions, AbandonBackup, PublishBackup, VerifyBackup,
           DiscardPackage
  <2> QED BY <1>2, <2>1, <2>2 DEF RestoreMove, Decay, vars
<1>3. CASE Kill
  BY <1>3 DEF Kill, RestoreMove
<1>4. CASE Restore
  <2>1. CASE VerifyForRestore
    <3>1. [NoRestore EXCEPT !.phase = "verified"] = RestoreOf("verified", Empty, Empty, Absent, "none")
      <4>1. NoRestore \in RestoreType
        BY TypedParts
      <4>2. [NoRestore EXCEPT !.phase = "verified"]
              = RestoreOf("verified", NoRestore.promised, NoRestore.staging, NoRestore.original, NoRestore.report)
        BY <4>1, RestorePhase
      <4> QED BY <4>2 DEF NoRestore
    <3> QED BY <2>1, <3>1 DEF VerifyForRestore, RestoreMove
  <2>2. CASE BeginStaging
    <3>1. [restore EXCEPT !.phase = "journal", !.promised = package.listed]
            = RestoreOf("journal", package.listed, restore.staging, restore.original, restore.report)
      BY <1>1, RestorePromised
    <3> QED BY <2>2, <3>1 DEF BeginStaging, Refuse, RestoreMove
  <2>3. CASE AuditStaging
    BY <2>3, <1>1, RestorePhase DEF AuditStaging, Refuse, RestoreMove
  <2>4. CASE Stage("journal", "journal", "companions") \/ Stage("companions", "companions", "audit")
    BY <2>4, StageMoves
  <2>5. CASE SetAside
    <3>1. [restore EXCEPT !.phase = "install", !.original = target]
            = RestoreOf("install", restore.promised, restore.staging, target, restore.report)
      BY <1>1, RestoreOriginal
    <3> QED BY <2>5, <3>1 DEF SetAside, RestoreMove
  <2>6. CASE Install
    <3>1. [NoRestore EXCEPT !.report = "restored"] = RestoreOf("idle", Empty, Empty, Absent, "restored")
      BY DEF NoRestore, RestoreOf
    <3> QED BY <2>6, <3>1 DEF Install, RestoreMove
  <2>7. CASE InstallFails
    BY <2>7, <1>1, RestorePhase DEF InstallFails, RestoreMove
  <2>8. CASE RollBack
    <3>1. [restore EXCEPT !.phase = "idle", !.report = "preserved"]
            = RestoreOf("idle", restore.promised, restore.staging, restore.original, "preserved")
      BY <1>1, RestoreReport
    <3> QED BY <2>8, <3>1 DEF RollBack, RestoreMove
  <2>9. CASE RollBackFails
    <3>1. [restore EXCEPT !.phase = "idle", !.report = "at safety"]
            = RestoreOf("idle", restore.promised, restore.staging, restore.original, "at safety")
      BY <1>1, RestoreReport
    <3> QED BY <2>9, <3>1 DEF RollBackFails, RestoreMove
  <2> QED BY <1>4, <2>1, <2>2, <2>3, <2>4, <2>5, <2>6, <2>7, <2>8, <2>9 DEF Restore
<1> QED BY <1>2, <1>3, <1>4 DEF Next

LEMMA DecayFacts ==
  ASSUME TypeOK, Decay
  PROVE  /\ package \in PackageType /\ package' \in PackageType
         /\ package'.listed = package.listed
         /\ Len(package'.contents.journal) <= Len(package.contents.journal)
         /\ faults' # 0 /\ UNCHANGED <<target, safety, acked, backup, restore>>
<1>1. package \in PackageType /\ package # Absent
  BY TypedParts DEF Decay
<1> DEFINE d == package.contents
<1>2. d \in Directory /\ d = [journal |-> d.journal, companions |-> d.companions]
      /\ d.journal \in Seq(Event) /\ Len(d.journal) <= MaxEvents /\ d.companions \subseteq Companion
  BY <1>1, DirectoryFacts DEF PackageType
<1>3. package = [contents |-> d, listed |-> package.listed, declared |-> package.declared]
  BY <1>1 DEF PackageType
<1>4. MaxEvents \in Nat /\ faults \in Nat
  <2>1. faults \in 0..MaxFaults
    BY DEF TypeOK
  <2> QED BY <2>1, Bounds
<1>5. faults' # 0 /\ UNCHANGED <<target, safety, acked, backup, restore>>
  BY <1>4 DEF Decay
<1>6. CASE d.journal # <<>> /\ package' = [package EXCEPT !.contents.journal = Front(@)]
  <2> DEFINE d2 == [journal |-> Front(d.journal), companions |-> d.companions]
  <2>1. package'.contents = [d EXCEPT !.journal = Front(d.journal)] /\ package'.listed = package.listed
        /\ package' = [contents |-> package'.contents, listed |-> package.listed, declared |-> package.declared]
    BY <1>6, <1>3
  <2>2. package'.contents = d2
    BY <2>1, <1>2
  <2>3. Len(d.journal) \in Nat /\ Len(d.journal) # 0 /\ DOMAIN d.journal = 1..Len(d.journal)
    BY <1>2, <1>6, LenProperties, EmptySeq
  <2>4. \A i \in 1..(Len(d.journal) - 1) : d.journal[i] \in Event
    BY <1>2, <2>3, ElementOfSeq
  <2>5. Front(d.journal) \in Seq(Event) /\ Len(Front(d.journal)) = Len(d.journal) - 1
    <3> DEFINE l == Len(d.journal)
    <3>1. Len(d.journal) - 1 \in Int /\ (1 <= Len(d.journal) - 1 \/ Len(d.journal) - 1 = 0)
      <4>1. l \in Nat /\ l # 0
        BY <2>3
      <4> HIDE DEF l
      <4>2. l - 1 \in Int /\ (1 <= l - 1 \/ l - 1 = 0)
        BY <4>1
      <4> QED BY <4>2 DEF l
    <3>2. Front(d.journal) \in Seq(Event)
          /\ Len(Front(d.journal)) = IF 1 <= Len(d.journal) - 1 THEN Len(d.journal) - 1 - 1 + 1 ELSE 0
      BY <2>4, <3>1, SubSeqProperties DEF Front
    <3> HIDE DEF d
    <3> QED BY <2>3, <3>1, <3>2
  <2>6. Len(Front(d.journal)) <= Len(d.journal) /\ Len(Front(d.journal)) <= MaxEvents
    BY <1>2, <1>4, <2>3, <2>5
  <2>7. d2 \in Directory
    BY <1>2, <2>5, <2>6, DirectoryFacts
  <2>8. package' \in PackageType
    BY <1>1, <2>1, <2>2, <2>7 DEF PackageType
  <2> QED BY <1>1, <1>5, <2>1, <2>2, <2>6, <2>8
<1>7. ASSUME NEW c, package' = [package EXCEPT !.contents.companions = @ \ {c}]
      PROVE  /\ package' \in PackageType /\ package'.listed = package.listed
             /\ package'.contents.journal = package.contents.journal
  <2> DEFINE d2 == [journal |-> d.journal, companions |-> d.companions \ {c}]
  <2>1. package'.contents = [d EXCEPT !.companions = d.companions \ {c}] /\ package'.listed = package.listed
        /\ package' = [contents |-> package'.contents, listed |-> package.listed, declared |-> package.declared]
    BY <1>7, <1>3
  <2>2. package'.contents = d2
    BY <2>1, <1>2
  <2>3. d2 \in Directory
    BY <1>2, DirectoryFacts
  <2> QED BY <1>1, <2>1, <2>2, <2>3 DEF PackageType
<1>8. Len(d.journal) <= Len(d.journal)
  BY <1>2, LenProperties
<1>9. CASE \E c : package' = [package EXCEPT !.contents.companions = @ \ {c}]
  BY <1>1, <1>5, <1>7, <1>8, <1>9
<1> QED BY <1>6, <1>9 DEF Decay

-----------------------------------------------------------------------------
(* Each part of the invariant is kept by every step. *)
LEMMA AckStep ==
  ASSUME TypeOK, AckInv, LenInv, LeaseInv, [Next]_vars
  PROVE  AckInv' /\ Cardinality(acked) \in Nat /\ Cardinality(acked') \in Nat
         /\ Cardinality(acked) <= Cardinality(acked')
<1>1. Cardinality(acked) \in Nat
  BY FS_CardinalityType DEF AckInv
<1>2. CASE acked' = acked
  BY <1>1, <1>2 DEF AckInv
<1>3. CASE \E e \in Event : Appended(e)
  BY <1>1, <1>3, AppendedFacts
<1>4. acked' = acked \/ \E e \in Event : Appended(e)
  BY DiskStep, QuietStep DEF DiskMove, Created, Opening, Written, SetAside, Install, RollBack
<1> QED BY <1>2, <1>3, <1>4

LEMMA RollBackFacts ==
  ASSUME TypeOK, LeaseInv, OriginalInv, RollBack
  PROVE  \/ UNCHANGED <<target, safety>>
         \/ /\ safety # <<>> /\ target \in {Absent, Bare} /\ CanRename
            /\ target' = Last(safety) /\ safety' = Front(safety) /\ Last(safety) = restore.original
BY DEF RollBack, OriginalInv, LeaseInv

LEMMA InstallFacts ==
  ASSUME TypeOK, LeaseInv, Install
  PROVE  /\ target \in {Absent, Bare} /\ target' = restore.staging /\ restore.staging \in Directory
         /\ safety' = safety /\ restore.phase = "install"
BY DEF Install, LeaseInv, TypeOK

LEMMA SafetyTypeStep ==
  ASSUME TypeOK, AckInv, LenInv, LeaseInv, OriginalInv, [Next]_vars
  PROVE  target' \in Place /\ safety' \in Seq(Directory \cup {Bare}) /\ acked' \subseteq Event
<1>1. target \in Place /\ safety \in Seq(Directory \cup {Bare}) /\ acked \subseteq Event
  BY DEF TypeOK
<1>2. CASE UNCHANGED <<target, safety, acked>>
  BY <1>1, <1>2
<1>3. CASE Created \/ Opening
  BY <1>1, <1>3, AuditedFacts DEF Created, Opening, Place
<1>4. CASE \E e \in Event : Appended(e)
  BY <1>1, <1>4, AppendedFacts DEF Appended, Place
<1>5. CASE \E c \in Companion : Written(c)
  BY <1>1, <1>5, WrittenFacts DEF Written, Place
<1>6. CASE SetAside
  <2>1. CASE target = Absent
    BY <1>1, <1>6, <2>1 DEF SetAside
  <2>2. CASE target # Absent
    BY <1>1, <1>6, <2>2, AsideFacts DEF SetAside, Place
  <2> QED BY <2>1, <2>2
<1>7. CASE Install
  BY <1>1, <1>7, InstallFacts DEF Install, Place
<1>8. CASE RollBack
  BY <1>1, <1>8, RollBackFacts, BackFacts DEF RollBack, Place
<1> QED BY DiskStep, QuietStep, <1>2, <1>3, <1>4, <1>5, <1>6, <1>7, <1>8 DEF DiskMove

LEMMA BackupTypeStep ==
  ASSUME TypeOK, [Next]_vars
  PROVE  backup' \in BackupType /\ (package' = Absent \/ package' \in PackageType)
<1>1. /\ backup \in BackupType /\ NoBackup \in BackupType
      /\ package = Absent \/ package \in PackageType
  BY TypedParts
<1>2. /\ backup.asked \in Directory /\ backup.journal \in SeqOf(Event, MaxEvents)
      /\ backup.companions \subseteq Companion
  BY <1>1 DEF BackupType
<1>3. Audited(target) \in Directory
  BY AuditedFacts DEF TypeOK
<1>4. Audited(target).journal \in SeqOf(Event, MaxEvents) /\ Audited(target).companions \subseteq Companion
  BY <1>3 DEF Directory
<1>5. <<>> \in SeqOf(Event, MaxEvents)
  BY <1>1 DEF BackupType, NoBackup
<1>6. CASE backup' = backup /\ (package' = package \/ Decay)
  BY <1>1, <1>6, DecayFacts
<1>7. CASE backup.phase = "publish" /\ backup' = BackupOf("verify", backup.asked, backup.journal, backup.companions)
           /\ \E copied : /\ copied = [journal |-> backup.journal, companions |-> backup.companions]
                          /\ package' = [contents |-> copied, listed |-> copied,
                                         declared |-> Len(backup.asked.journal)]
  <2>1. [journal |-> backup.journal, companions |-> backup.companions] \in Directory
    BY <1>2 DEF Directory
  <2>2. Len(backup.asked.journal) \in 0..MaxEvents
    <3>1. backup.asked.journal \in Seq(Event) /\ Len(backup.asked.journal) <= MaxEvents
      BY <1>2, DirectoryFacts
    <3> QED BY <3>1, LenProperties
  <2> QED BY <1>2, <1>7, <2>1, <2>2 DEF BackupType, BackupOf, PackageType
<1>8. CASE backup' = NoBackup /\ package' \in {package, Absent}
  BY <1>1, <1>8
<1>9. CASE /\ package' = package
           /\ \/ backup' = BackupOf("journal", Audited(target), <<>>, {})
              \/ backup' = BackupOf("companions", backup.asked, Audited(target).journal, backup.companions)
              \/ backup' = BackupOf("publish", backup.asked, backup.journal, Audited(target).companions)
              \/ \E p \in {"created", "failed"} :
                   backup' = BackupOf(p, backup.asked, backup.journal, backup.companions)
  BY <1>1, <1>2, <1>3, <1>4, <1>5, <1>9 DEF BackupType, BackupOf
<1> QED BY BackupStepMoves, <1>6, <1>7, <1>8, <1>9 DEF BackupMove

LEMMA RestoreTypeStep ==
  ASSUME TypeOK, [Next]_vars
  PROVE  restore' \in RestoreType
<1>1. /\ restore \in RestoreType /\ NoRestore \in RestoreType
      /\ package = Absent \/ package \in PackageType
  BY TypedParts
<1>2. /\ restore.promised \in Directory /\ restore.staging \in Directory /\ restore.original \in Place
      /\ restore.report \in {"none", "restored", "preserved", "at safety"}
      /\ Empty \in Directory /\ Absent \in Place /\ target \in Place
  BY <1>1, DirectoryFacts DEF RestoreType, TypeOK, Place
<1>3. package # Absent => package.listed \in Directory /\ package.contents \in Directory
  BY <1>1 DEF PackageType
<1>4. package # Absent =>
        /\ [journal |-> package.contents.journal, companions |-> restore.staging.companions] \in Directory
        /\ [journal |-> restore.staging.journal, companions |-> package.contents.companions] \in Directory
  BY <1>2, <1>3 DEF Directory
<1>5. ASSUME NEW p \in {"idle", "verified", "journal", "companions", "audit", "aside", "install", "rollback"},
             NEW x \in Directory, NEW y \in Directory, NEW o \in Place,
             NEW r \in {"none", "restored", "preserved", "at safety"}
      PROVE  RestoreOf(p, x, y, o, r) \in RestoreType
  BY DEF RestoreOf, RestoreType
<1>6. ASSUME package # Absent, NEW staging, NEW p \in {"companions", "audit"},
             \/ staging = [journal |-> package.contents.journal, companions |-> restore.staging.companions]
             \/ staging = [journal |-> restore.staging.journal, companions |-> package.contents.companions],
             restore' = RestoreOf(p, restore.promised, staging, restore.original, restore.report)
      PROVE  restore' \in RestoreType
  <2>1. staging \in Directory
    BY <1>4, <1>6
  <2> QED BY <1>2, <1>5, <1>6, <2>1
<1>7. CASE package # Absent
           /\ restore' = RestoreOf("journal", package.listed, restore.staging, restore.original, restore.report)
  BY <1>2, <1>3, <1>5, <1>7
<1>8. CASE restore' = RestoreOf("install", restore.promised, restore.staging, target, restore.report)
  BY <1>2, <1>5, <1>8
<1>9. ASSUME NEW p \in {"aside", "rollback"},
             restore' = RestoreOf(p, restore.promised, restore.staging, restore.original, restore.report)
      PROVE  restore' \in RestoreType
  BY <1>2, <1>5, <1>9
<1>10. CASE restore' = RestoreOf("verified", Empty, Empty, Absent, "none")
  BY <1>2, <1>5, <1>10
<1>11. CASE restore' = RestoreOf("idle", Empty, Empty, Absent, "restored")
  BY <1>2, <1>5, <1>11
<1>12. CASE \E report \in {"preserved", "at safety"} :
              restore' = RestoreOf("idle", restore.promised, restore.staging, restore.original, report)
  BY <1>2, <1>5, <1>12
<1> QED BY RestoreStepMoves, <1>1, <1>6, <1>7, <1>8, <1>9, <1>10, <1>11, <1>12 DEF RestoreMove

LEMMA CountsStep ==
  ASSUME TypeOK, [Next]_vars
  PROVE  /\ app' \in {"down", "starting", "up"} /\ home' \in {"target", "safety"}
         /\ lease' \in {"none", "app", "restore"}
         /\ restores' \in 0..MaxRestores /\ faults' \in 0..MaxFaults /\ kills' \in 0..MaxKills
         /\ faults' = 0 => faults = 0
<1>1. /\ app \in {"down", "starting", "up"} /\ home \in {"target", "safety"}
      /\ lease \in {"none", "app", "restore"}
      /\ restores \in 0..MaxRestores /\ faults \in 0..MaxFaults /\ kills \in 0..MaxKills
  BY DEF TypeOK
<1>2. MaxRestores \in Nat /\ MaxFaults \in Nat /\ MaxKills \in Nat
  BY Bounds
<1>3. restores' = restores \/ (restores < MaxRestores /\ restores' = restores + 1)
  BY DEF Next, vars, Program, Backup, Restore, CreateDirectory, OpenJournal, Close, AppendEvent, WriteCompanion,
         BeginBackup, CopyJournal, CopyCompanions, AbandonBackup, PublishBackup, VerifyBackup, DiscardPackage,
         VerifyForRestore, BeginStaging, AuditStaging, Stage, SetAside, Install, InstallFails, RollBack,
         RollBackFails, Decay, Kill
<1>4. kills' = kills \/ (kills < MaxKills /\ kills' = kills + 1)
  BY DEF Next, vars, Program, Backup, Restore, CreateDirectory, OpenJournal, Close, AppendEvent, WriteCompanion,
         BeginBackup, CopyJournal, CopyCompanions, AbandonBackup, PublishBackup, VerifyBackup, DiscardPackage,
         VerifyForRestore, BeginStaging, AuditStaging, Stage, SetAside, Install, InstallFails, RollBack,
         RollBackFails, Decay, Kill
<1>5. faults' = faults \/ (faults < MaxFaults /\ faults' = faults + 1)
  BY DEF Next, vars, Program, Backup, Restore, CreateDirectory, OpenJournal, Close, AppendEvent, WriteCompanion,
         BeginBackup, CopyJournal, CopyCompanions, AbandonBackup, PublishBackup, VerifyBackup, DiscardPackage,
         VerifyForRestore, BeginStaging, AuditStaging, Stage, SetAside, Install, InstallFails, RollBack,
         RollBackFails, Decay, Kill
<1>6. /\ app' \in {"down", "starting", "up"} /\ home' \in {"target", "safety"}
      /\ lease' \in {"none", "app", "restore"}
  BY <1>1 DEF Next, vars, Program, Backup, Restore, CreateDirectory, OpenJournal, Close, AppendEvent,
         WriteCompanion, BeginBackup, CopyJournal, CopyCompanions, AbandonBackup, PublishBackup, VerifyBackup,
         DiscardPackage, VerifyForRestore, BeginStaging, AuditStaging, Stage, Refuse, SetAside, Install,
         InstallFails, RollBack, RollBackFails, Decay, Kill, program
<1>7. restores' \in 0..MaxRestores /\ faults' \in 0..MaxFaults /\ kills' \in 0..MaxKills
      /\ (faults' = 0 => faults = 0)
  BY <1>1, <1>2, <1>3, <1>4, <1>5
<1> QED BY <1>6, <1>7

LEMMA TypeStep ==
  ASSUME TypeOK, AckInv, LenInv, LeaseInv, OriginalInv, [Next]_vars
  PROVE  TypeOK'
<1>1. target' \in Place /\ safety' \in Seq(Directory \cup {Bare}) /\ acked' \subseteq Event
  BY SafetyTypeStep
<1>2. backup' \in BackupType /\ (package' = Absent \/ package' \in PackageType)
  BY BackupTypeStep
<1>3. restore' \in RestoreType
  BY RestoreTypeStep
<1> QED BY <1>1, <1>2, <1>3, CountsStep DEF TypeOK, BackupType, PackageType, RestoreType

(* What an action that leaves the data directory in place does to the lease. *)
LEMMA LeaseStep ==
  ASSUME TypeOK, AckInv, LenInv, LeaseInv, [Next]_vars
  PROVE  LeaseInv'
<1>0. restore \in RestoreType
  BY TypedParts
<1>1. CASE Program
  <2>1. CASE CreateDirectory
    BY <2>1 DEF CreateDirectory, LeaseInv
  <2>2. CASE OpenJournal
    <3>1. target # Absent => Audited(target) \in Directory
      BY AuditedFacts DEF TypeOK
    <3> QED BY <2>2, <3>1, DirectoryFacts DEF OpenJournal, LeaseInv
  <2>3. CASE Close
    BY <2>3 DEF Close, LeaseInv, disk
  <2>4. CASE \E needs \in Companion \cup {Plain} : AppendEvent(needs)
    <3>1. target' \in Directory /\ lease = "app" /\ UNCHANGED <<app, home, lease, restore>>
      BY <2>4, AppendMoves, AppendedFacts DEF AppendEvent, Appended, program
    <3> QED BY <3>1, DirectoryFacts DEF LeaseInv
  <2>5. CASE \E c \in Companion : WriteCompanion(c)
    <3>1. target' \in Directory /\ lease = "app" /\ UNCHANGED <<app, home, lease, restore>>
      BY <2>5, WriteMoves, WrittenFacts DEF WriteCompanion, Written, program
    <3> QED BY <3>1, DirectoryFacts DEF LeaseInv
  <2> QED BY <1>1, <2>1, <2>2, <2>3, <2>4, <2>5 DEF Program
<1>2. CASE Backup \/ Decay \/ UNCHANGED vars
  <2>1. UNCHANGED <<target, app, home, lease, restore>>
    BY <1>2 DEF Backup, BeginBackup, CopyJournal, CopyCompanions, AbandonBackup, PublishBackup, VerifyBackup,
                DiscardPackage, Decay, disk, program, vars
  <2> QED BY <2>1 DEF LeaseInv
<1>3. CASE Restore
  <2>1. CASE VerifyForRestore
    BY <2>1 DEF VerifyForRestore, NoRestore, LeaseInv, disk, program
  <2>2. CASE BeginStaging
    <3>1. /\ UNCHANGED <<target, app, home>> /\ restore.phase = "verified" /\ restore.report = "none"
          /\ \/ lease = "none" /\ lease' = "restore" /\ restore'.phase = "journal" /\ restore'.report = restore.report
             \/ lease' = lease /\ restore' = NoRestore
      BY <2>2, <1>0 DEF BeginStaging, Refuse, LeaseInv, RestoreType, disk, program
    <3> QED BY <3>1 DEF LeaseInv, NoRestore
  <2>3. CASE AuditStaging
    <3>1. /\ UNCHANGED <<target, app, home>> /\ lease = "restore" /\ restore.report = "none" /\ app # "up"
          /\ \/ lease' = lease /\ restore'.phase = "aside" /\ restore'.report = restore.report
             \/ lease' = "none" /\ restore' = NoRestore
      BY <2>3, <1>0 DEF AuditStaging, Refuse, LeaseInv, RestoreType, disk, program
    <3> QED BY <3>1 DEF LeaseInv, NoRestore
  <2>4. CASE Stage("journal", "journal", "companions") \/ Stage("companions", "companions", "audit")
    <3>1. /\ UNCHANGED <<target, app, home>> /\ lease = "restore" /\ restore.report = "none" /\ app # "up"
          /\ \/ lease' = lease /\ restore'.phase \in {"companions", "audit"} /\ restore'.report = restore.report
             \/ lease' = "none" /\ restore' = NoRestore
      BY <2>4, <1>0 DEF Stage, Staged, Refuse, LeaseInv, RestoreType, disk, program
    <3> QED BY <3>1 DEF LeaseInv, NoRestore
  <2>5. CASE SetAside
    <3>1. target' = Absent /\ restore'.phase = "install" /\ restore'.report = restore.report
          /\ restore.phase = "aside" /\ UNCHANGED <<app, lease>>
      BY <2>5, <1>0 DEF SetAside, RestoreType
    <3> QED BY <3>1, <2>5 DEF LeaseInv, SetAside
  <2>6. CASE Install
    BY <2>6 DEF Install, NoRestore, LeaseInv, program
  <2>7. CASE InstallFails
    BY <2>7, <1>0 DEF InstallFails, LeaseInv, RestoreType, disk, program
  <2>8. CASE RollBack
    BY <2>8, <1>0 DEF RollBack, LeaseInv, RestoreType, program
  <2>9. CASE RollBackFails
    BY <2>9, <1>0 DEF RollBackFails, LeaseInv, RestoreType, disk, program
  <2> QED BY <1>3, <2>1, <2>2, <2>3, <2>4, <2>5, <2>6, <2>7, <2>8, <2>9 DEF Restore
<1>4. CASE Kill
  BY <1>4 DEF Kill, LeaseInv, NoRestore, disk
<1> QED BY <1>1, <1>2, <1>3, <1>4 DEF Next

LEMMA LenStep ==
  ASSUME TypeOK, AckInv, LenInv, LeaseInv, OriginalInv, [Next]_vars
  PROVE  LenInv'
<1> DEFINE n == Cardinality(acked)
           m == Cardinality(acked')
           Small(d) == Len(d.journal) <= m
<1>1. n \in Nat /\ m \in Nat /\ n <= m
  BY AckStep
<1>2. ASSUME NEW d \in Directory, Short(d) PROVE Small(d)
  <2>1. Len(d.journal) \in Nat /\ Len(d.journal) <= n
    BY <1>2, DirectoryFacts, LenProperties DEF Short
  <2> QED BY <1>1, <2>1
<1> HIDE DEF n, m
<1>3. Empty \in Directory /\ Short(Empty) /\ Small(Empty)
  <2>1. Empty.journal = <<>> /\ Len(<<>>) = 0
    BY AuditedFacts, EmptySeq
  <2> QED BY <1>1, <2>1, DirectoryFacts DEF Short, n
<1>4. target' \notin {Absent, Bare} => Small(target')
  <2>1. target \in Directory => Small(target)
    BY <1>2, DirectoryFacts DEF LenInv
  <2>2. target \in Place
    BY DEF TypeOK
  <2>3. CASE target' = target \/ Created \/ Opening
    BY <2>1, <2>2, <2>3, <1>3, AuditedFacts DEF Created, Opening, Place
  <2>4. CASE \E e \in Event : Appended(e)
    BY <2>4, AppendedFacts DEF m
  <2>5. CASE \E c \in Companion : Written(c)
    BY <2>1, <2>5, WrittenFacts
  <2>6. CASE SetAside
    BY <2>6 DEF SetAside
  <2>7. CASE Install
    <3>1. Short(restore.staging)
      BY DEF LenInv
    <3> QED BY <2>7, <3>1, <1>2, InstallFacts
  <2>8. CASE RollBack
    <3>1. safety # <<>> => Last(safety) = Bare \/ (Last(safety) \in Directory /\ Short(Last(safety)))
      BY BackFacts DEF LenInv
    <3> QED BY <2>1, <2>2, <2>8, <3>1, <1>2, RollBackFacts DEF Place
  <2> QED BY DiskStep, QuietStep, <2>3, <2>4, <2>5, <2>6, <2>7, <2>8 DEF DiskMove
<1>5. \A i \in DOMAIN safety' : safety'[i] # Bare => Small(safety'[i])
  <2>1. \A i \in DOMAIN safety : safety[i] # Bare => Small(safety[i])
    <3>1. \A i \in DOMAIN safety : safety[i] \in Directory \cup {Bare}
      <4>1. safety \in Seq(Directory \cup {Bare})
        BY DEF TypeOK
      <4> QED BY <4>1, ElementOfSeq, LenProperties
    <3> QED BY <3>1, <1>2 DEF LenInv
  <2>2. CASE safety' = safety
    BY <2>1, <2>2
  <2>3. CASE SetAside /\ target # Absent
    <3>1. target # Bare => target \in Directory /\ Short(target)
      BY <2>3, AsideFacts DEF LenInv
    <3> QED BY <2>1, <2>3, <3>1, <1>2, AsideFacts
  <2>4. CASE RollBack
    BY <2>1, <2>2, <2>4, RollBackFacts, BackFacts
  <2>5. safety' = safety \/ (SetAside /\ target # Absent) \/ RollBack
    BY DiskStep, QuietStep DEF DiskMove, Created, Opening, Appended, Written, SetAside, Install
  <2> QED BY <2>2, <2>3, <2>4, <2>5
<1>6. /\ package' # Absent => Small(package'.contents) /\ Small(package'.listed)
      /\ Small(backup'.asked) /\ Len(backup'.journal) <= m
  <2>1. /\ backup \in BackupType /\ NoBackup = BackupOf("idle", Empty, <<>>, {})
        /\ package = Absent \/ package \in PackageType
    BY TypedParts
  <2>2. Small(backup.asked)
    BY <2>1, <1>2 DEF BackupType, LenInv
  <2>3. Len(backup.journal) <= m
    <3>1. backup.journal \in Seq(Event)
      BY <2>1, BoundedSeqs, Bounds DEF BackupType
    <3>2. Len(backup.journal) \in Nat /\ Len(backup.journal) <= n
      BY <3>1, LenProperties DEF LenInv, n
    <3> QED BY <3>2, <1>1
  <2>4. package # Absent => Small(package.contents) /\ Small(package.listed)
    BY <2>1, <1>2 DEF PackageType, LenInv
  <2>5. Small(Audited(target))
    <3>1. target \in Directory => Short(target)
      BY DirectoryFacts DEF LenInv
    <3>2. target \in Place
      BY DEF TypeOK
    <3> QED BY <3>1, <3>2, <1>2, <1>3, AuditedFacts DEF Place
  <2>6. Len(<<>>) <= m
    BY <1>1, EmptySeq
  <2>7. CASE backup' = backup /\ (package' = package \/ Decay)
    <3>1. CASE package' = package
      BY <2>2, <2>3, <2>4, <2>7, <3>1
    <3>2. CASE Decay
      <4>1. package \in PackageType /\ package' \in PackageType /\ package'.listed = package.listed
            /\ Len(package'.contents.journal) <= Len(package.contents.journal) /\ package # Absent
        BY <3>2, DecayFacts DEF Decay
      <4>2. Len(package'.contents.journal) \in Nat /\ Len(package.contents.journal) \in Nat
        BY <4>1, DirectoryFacts, LenProperties DEF PackageType
      <4>3. Small(package'.contents)
        BY <1>1, <2>4, <4>1, <4>2
      <4> QED BY <2>2, <2>3, <2>4, <2>7, <4>1, <4>3
    <3> QED BY <2>7, <3>1, <3>2
  <2>8. CASE backup' = NoBackup /\ package' \in {package, Absent}
    BY <2>1, <2>4, <2>6, <2>8, <1>3 DEF BackupOf
  <2>9. CASE /\ package' = package
             /\ \/ backup' = BackupOf("journal", Audited(target), <<>>, {})
                \/ backup' = BackupOf("companions", backup.asked, Audited(target).journal, backup.companions)
                \/ backup' = BackupOf("publish", backup.asked, backup.journal, Audited(target).companions)
                \/ \E p \in {"created", "failed"} :
                     backup' = BackupOf(p, backup.asked, backup.journal, backup.companions)
    BY <2>2, <2>3, <2>4, <2>5, <2>6, <2>9 DEF BackupOf
  <2>10. CASE /\ backup' = BackupOf("verify", backup.asked, backup.journal, backup.companions)
              /\ \E copied : /\ copied = [journal |-> backup.journal, companions |-> backup.companions]
                             /\ package' = [contents |-> copied, listed |-> copied,
                                            declared |-> Len(backup.asked.journal)]
    BY <2>2, <2>3, <2>10 DEF BackupOf
  <2> QED BY BackupStepMoves, <2>7, <2>8, <2>9, <2>10 DEF BackupMove
<1>7. Small(restore'.promised) /\ Small(restore'.staging)
  <2>1. /\ restore \in RestoreType /\ NoRestore = RestoreOf("idle", Empty, Empty, Absent, "none")
        /\ package = Absent \/ package \in PackageType
    BY TypedParts
  <2>2. Small(restore.promised) /\ Small(restore.staging)
    BY <2>1, <1>2 DEF RestoreType, LenInv
  <2>3. package # Absent => Small(package.contents) /\ Small(package.listed)
    BY <2>1, <1>2 DEF PackageType, LenInv
  <2>4. /\ restore'.promised \in {restore.promised, Empty}
           \/ (package # Absent /\ restore'.promised = package.listed)
        /\ restore'.staging.journal \in {restore.staging.journal, Empty.journal}
           \/ (package # Absent /\ restore'.staging.journal = package.contents.journal)
    <3>1. CASE restore' \in {restore, NoRestore}
      BY <2>1, <3>1 DEF RestoreOf
    <3>2. CASE package # Absent /\ \E staging :
                 /\ staging = [journal |-> package.contents.journal, companions |-> restore.staging.companions]
                 /\ restore' = RestoreOf("companions", restore.promised, staging, restore.original, restore.report)
      BY <3>2 DEF RestoreOf
    <3>3. CASE package # Absent /\ \E staging :
                 /\ staging = [journal |-> restore.staging.journal, companions |-> package.contents.companions]
                 /\ restore' = RestoreOf("audit", restore.promised, staging, restore.original, restore.report)
      BY <3>3 DEF RestoreOf
    <3>4. CASE package # Absent
               /\ restore' = RestoreOf("journal", package.listed, restore.staging, restore.original, restore.report)
      BY <3>4 DEF RestoreOf
    <3>5. CASE \E p, o, r : restore' = RestoreOf(p, restore.promised, restore.staging, o, r)
      BY <3>5 DEF RestoreOf
    <3>6. CASE \E p, r : restore' = RestoreOf(p, Empty, Empty, Absent, r)
      BY <3>6 DEF RestoreOf
    <3> QED BY RestoreStepMoves, <3>1, <3>2, <3>3, <3>4, <3>5, <3>6 DEF RestoreMove
  <2> QED BY <2>2, <2>3, <2>4, <1>3
<1> QED BY <1>4, <1>5, <1>6, <1>7 DEF LenInv, Short, m

LEMMA OriginalStep ==
  ASSUME TypeOK, AckInv, LenInv, LeaseInv, OriginalInv, [Next]_vars
  PROVE  OriginalInv'
<1>0. restore \in RestoreType
  BY TypedParts
<1>1. faults' = 0 => faults = 0
  BY CountsStep
<1>2. CASE restore' = restore /\ safety' = safety
  <2>1. restore.phase = "rollback" => (target = Bare => target' = Bare)
    <3>1. CASE target' = target \/ Created
      BY <3>1, PlacesAssumption DEF Created
    <3>2. CASE Opening \/ (\E e \in Event : Appended(e)) \/ (\E c \in Companion : Written(c))
      BY <3>2 DEF Opening, Appended, Written, LeaseInv
    <3>3. CASE SetAside
      BY <3>3 DEF SetAside
    <3>4. CASE Install \/ RollBack
      BY <1>2, <3>4, <1>0 DEF Install, RollBack, NoRestore, RestoreType
    <3> QED BY DiskStep, QuietStep, <3>1, <3>2, <3>3, <3>4 DEF DiskMove
  <2> QED BY <1>1, <1>2, <2>1 DEF OriginalInv
<1>3. CASE restore'.phase \notin {"install", "rollback"}
  BY <1>3 DEF OriginalInv
<1>4. CASE SetAside
  <2>1. restore'.phase = "install" /\ restore'.original = target
    BY <1>4, <1>0 DEF SetAside, RestoreType
  <2>2. target # Absent => safety' # <<>> /\ Last(safety') = target
    BY <1>4, AsideFacts
  <2> QED BY <2>1, <2>2 DEF OriginalInv
<1>5. CASE InstallFails
  <2>1. /\ restore'.phase = "rollback" /\ restore'.original = restore.original /\ UNCHANGED <<target, safety>>
        /\ restore.phase = "install" /\ target \in {Absent, Bare} /\ faults \in 0..MaxFaults
        /\ CanRename => faults' = faults + 1
    BY <1>5, <1>0 DEF InstallFails, LeaseInv, RestoreType, disk, TypeOK
  <2>2. faults' = 0 => ~CanRename
    BY <2>1, Bounds
  <2> QED BY <2>1, <2>2 DEF OriginalInv, CanRename
<1>6. \/ restore' = restore /\ safety' = safety
      \/ restore'.phase \notin {"install", "rollback"}
      \/ SetAside \/ InstallFails
  <2>1. Program \/ Backup \/ Decay \/ UNCHANGED vars => restore' = restore /\ safety' = safety
    <3>1. Program => restore' = restore
      BY DEF Program, CreateDirectory, OpenJournal, Close, AppendEvent, WriteCompanion
    <3>2. ASSUME Program PROVE safety' = safety
      <4>1. (\E e \in Event : Appended(e)) \/ (\E c \in Companion : Written(c)) => safety' = safety
        BY DEF Appended, Written
      <4> QED BY <3>2, <4>1, AppendMoves, WriteMoves
                 DEF Program, CreateDirectory, OpenJournal, Close, disk
    <3> QED BY <3>1, <3>2 DEF Backup, BeginBackup, CopyJournal, CopyCompanions, AbandonBackup, PublishBackup,
                   VerifyBackup, DiscardPackage, Decay, disk, vars
  <2>2. Kill => (restore' = restore /\ safety' = safety) \/ restore'.phase \notin {"install", "rollback"}
    BY DEF Kill, NoRestore, disk
  <2>3. Restore => \/ restore'.phase \notin {"install", "rollback"} \/ SetAside \/ InstallFails
    <3>1. BeginStaging \/ AuditStaging =>
            restore' = NoRestore \/ restore'.phase = "journal" \/ restore'.phase = "aside"
      BY <1>0 DEF BeginStaging, AuditStaging, Refuse, RestoreType
    <3>2. Stage("journal", "journal", "companions") \/ Stage("companions", "companions", "audit") =>
            restore' = NoRestore \/ restore'.phase = "companions" \/ restore'.phase = "audit"
      BY <1>0 DEF Stage, Staged, Refuse, RestoreType
    <3>3. VerifyForRestore \/ Install \/ RollBack \/ RollBackFails => restore'.phase \in {"verified", "idle"}
      BY <1>0 DEF VerifyForRestore, Install, RollBack, RollBackFails, NoRestore, RestoreType
    <3> QED BY <3>1, <3>2, <3>3 DEF Restore, NoRestore
  <2> QED BY <2>1, <2>2, <2>3 DEF Next
<1> QED BY <1>2, <1>3, <1>4, <1>5, <1>6

LEMMA StagedStep ==
  ASSUME TypeOK, StagedInv, [Next]_vars
  PROVE  StagedInv'
<1>0. restore \in RestoreType /\ NoRestore = RestoreOf("idle", Empty, Empty, Absent, "none")
  BY TypedParts
<1>1. CASE restore' = restore
  BY <1>1 DEF StagedInv, Healthy
<1>2. CASE restore'.phase \in {"idle", "verified", "journal"}
  BY <1>2 DEF StagedInv
<1>3. CASE /\ restore.phase = "journal" /\ package.contents.journal = restore.promised.journal
           /\ \E staging : /\ staging = [journal |-> package.contents.journal,
                                         companions |-> restore.staging.companions]
                           /\ restore' = RestoreOf("companions", restore.promised, staging, restore.original,
                                                  restore.report)
  BY <1>3 DEF StagedInv, RestoreOf
<1>4. CASE /\ restore.phase = "companions" /\ package.contents.companions = restore.promised.companions
           /\ \E staging : /\ staging = [journal |-> restore.staging.journal,
                                         companions |-> package.contents.companions]
                           /\ restore' = RestoreOf("audit", restore.promised, staging, restore.original,
                                                  restore.report)
  BY <1>4 DEF StagedInv, RestoreOf
<1>5. ASSUME NEW p, NEW o, restore' = RestoreOf(p, restore.promised, restore.staging, o, restore.report),
             \/ restore.phase = "audit" /\ p = "aside" /\ Healthy(restore.staging)
             \/ restore.phase = "aside" /\ p = "install"
             \/ restore.phase = "install" /\ p = "rollback"
      PROVE  StagedInv'
  <2>1. restore'.staging = restore.staging /\ restore'.promised = restore.promised
    BY <1>5 DEF RestoreOf
  <2>2. Healthy(restore.staging)
    BY <1>5 DEF StagedInv
  <2>3. restore.staging.journal = restore.promised.journal /\ restore.staging.companions = restore.promised.companions
    BY <1>5 DEF StagedInv
  <2>4. Healthy(restore.staging)' = Healthy(restore.staging)
    BY <2>1 DEF Healthy
  <2> QED BY <2>1, <2>2, <2>3, <2>4 DEF StagedInv
<1>6. CASE \E x, y, o, r : \/ restore' = RestoreOf("idle", x, y, o, r)
                           \/ restore' = RestoreOf("verified", x, y, o, r)
                           \/ restore' = RestoreOf("journal", x, y, o, r)
  <2>1. restore'.phase \in {"idle", "verified", "journal"}
    BY <1>6 DEF RestoreOf
  <2> QED BY <1>2, <2>1
<1> QED BY <1>0, <1>1, <1>3, <1>4, <1>5, <1>6, RestoreStepMoves DEF RestoreMove

LEMMA HealthStep ==
  ASSUME TypeOK, AckInv, LenInv, LeaseInv, OriginalInv, StagedInv, HealthInv, [Next]_vars
  PROVE  HealthInv'
<1>1. Healthy(Audited(target)) /\ \A i \in DOMAIN safety : Healthy(Audited(safety[i]))
  BY DEF HealthInv
<1>2. target \in Place
  BY DEF TypeOK
<1>3. Healthy(Audited(target'))
  <2>1. CASE target' = target
    BY <1>1, <2>1
  <2>2. CASE Created \/ Opening
    BY <1>1, <1>2, <2>2, AuditedFacts DEF Created, Opening, Place
  <2>3. CASE \E e \in Event : Appended(e)
    <3>1. target \in Directory /\ target' \in Directory /\ (Healthy(target) => Healthy(target'))
      BY <2>3, AppendedFacts
    <3> QED BY <1>1, <3>1, AuditedFacts
  <2>4. CASE \E c \in Companion : Written(c)
    <3>1. target \in Directory /\ target' \in Directory /\ (Healthy(target) => Healthy(target'))
      BY <2>4, WrittenFacts
    <3> QED BY <1>1, <3>1, AuditedFacts
  <2>5. CASE SetAside
    <3>1. target' = Absent \/ target' = target
      BY <2>5 DEF SetAside
    <3> QED BY <1>1, <3>1, AuditedFacts
  <2>6. CASE Install
    <3>1. target' = restore.staging /\ restore.staging \in Directory /\ Healthy(restore.staging)
      BY <2>6, InstallFacts DEF StagedInv
    <3> QED BY <3>1, AuditedFacts
  <2>7. CASE RollBack
    <3>1. target' = target \/ (safety # <<>> /\ target' = Last(safety))
      BY <2>7, RollBackFacts
    <3> QED BY <1>1, <3>1, BackFacts
  <2> QED BY DiskStep, QuietStep, <2>1, <2>2, <2>3, <2>4, <2>5, <2>6, <2>7 DEF DiskMove
<1>4. \A i \in DOMAIN safety' : Healthy(Audited(safety'[i]))
  <2>1. CASE safety' = safety
    BY <1>1, <2>1
  <2>2. CASE SetAside /\ target # Absent
    BY <1>1, <2>2, AsideFacts
  <2>3. CASE RollBack
    <3>1. safety' = safety \/ (safety # <<>> /\ safety' = Front(safety))
      BY <2>3, RollBackFacts
    <3> QED BY <1>1, <3>1, BackFacts
  <2>4. safety' = safety \/ (SetAside /\ target # Absent) \/ RollBack
    BY DiskStep, QuietStep DEF DiskMove, Created, Opening, Appended, Written, SetAside, Install
  <2> QED BY <2>1, <2>2, <2>3, <2>4
<1> QED BY <1>3, <1>4 DEF HealthInv, Healthy, Audited

(* While nothing was set aside and nothing failed, the companions grow.    *)
LEMMA CompanionsGrow ==
  ASSUME TypeOK, AckInv, LenInv, LeaseInv, OriginalInv, [Next]_vars, faults' = 0, safety' = <<>>
  PROVE  faults = 0 /\ safety = <<>> /\ Audited(target).companions \subseteq Audited(target').companions
<1>1. faults = 0 /\ target \in Place
  BY CountsStep DEF TypeOK
<1>2. CASE UNCHANGED <<target, safety>>
  BY <1>1, <1>2
<1>3. CASE Created \/ Opening
  BY <1>1, <1>3, AuditedFacts DEF Created, Opening, Place
<1>4. CASE \E e \in Event : Appended(e)
  <2>1. safety' = safety /\ target \in Directory /\ target' \in Directory /\ target'.companions = target.companions
    BY <1>4, AppendedFacts DEF Appended
  <2> QED BY <1>1, <2>1, AuditedFacts
<1>5. CASE \E c \in Companion : Written(c)
  <2>1. safety' = safety /\ target \in Directory /\ target' \in Directory
        /\ target.companions \subseteq target'.companions
    BY <1>5, WrittenFacts DEF Written
  <2> QED BY <1>1, <2>1, AuditedFacts
<1>6. CASE SetAside
  BY <1>1, <1>2, <1>6, AsideFacts DEF SetAside
<1>7. CASE Install
  <2>1. target \in {Absent, Bare} /\ safety' = safety
    BY <1>7, InstallFacts
  <2> QED BY <1>1, <2>1, AuditedFacts
<1>8. CASE RollBack
  <2>1. restore.phase = "rollback" /\ target = Bare /\ ~ReplacesBare
    BY <1>1, <1>8 DEF RollBack, OriginalInv
  <2>2. ~CanRename
    BY <2>1, PlacesAssumption DEF CanRename
  <2> QED BY <1>2, <1>8, <2>2, RollBackFacts
<1> QED BY DiskStep, QuietStep, <1>2, <1>3, <1>4, <1>5, <1>6, <1>7, <1>8 DEF DiskMove

LEMMA CopyStep ==
  ASSUME TypeOK, AckInv, LenInv, LeaseInv, OriginalInv, HealthInv, CopyInv, [Next]_vars
  PROVE  CopyInv'
<1> SUFFICES ASSUME faults' = 0, safety' = <<>>
    PROVE  /\ backup'.phase = "companions" =>
                Healthy([journal |-> backup'.journal, companions |-> Audited(target').companions])
           /\ backup'.phase = "publish" =>
                Healthy([journal |-> backup'.journal, companions |-> backup'.companions])
           /\ backup'.phase = "verify" => Healthy(package'.contents)
  BY DEF CopyInv, Healthy, Audited
<1> DEFINE Copied(c) == [journal |-> backup.journal, companions |-> c]
<1>1. faults = 0 /\ safety = <<>> /\ Audited(target).companions \subseteq Audited(target').companions
  BY CompanionsGrow
<1>2. /\ backup.phase = "companions" => Healthy(Copied(Audited(target).companions))
      /\ backup.phase = "publish" => Healthy(Copied(backup.companions))
      /\ backup.phase = "verify" => Healthy(package.contents)
  BY <1>1 DEF CopyInv
<1>3. CASE backup' = backup /\ (package' = package \/ Decay)
  <2>1. package' = package
    BY <1>3, DecayFacts
  <2>2. backup.phase = "companions" => Healthy(Copied(Audited(target').companions))
    <3>1. Healthy(Copied(Audited(target).companions)) => Healthy(Copied(Audited(target').companions))
      BY <1>1, HealthyOnly
    <3> QED BY <1>2, <3>1
  <2> QED BY <1>2, <1>3, <2>1, <2>2
<1>4. CASE backup.phase = "journal"
           /\ backup' = BackupOf("companions", backup.asked, Audited(target).journal, backup.companions)
  <2>1. Healthy(Audited(target))
    BY DEF HealthInv
  <2>2. Healthy([journal |-> Audited(target).journal, companions |-> Audited(target').companions])
    BY <1>1, <2>1, HealthyOnly
  <2> QED BY <1>4, <2>2 DEF BackupOf
<1>5. CASE backup.phase = "companions"
           /\ backup' = BackupOf("publish", backup.asked, backup.journal, Audited(target).companions)
  BY <1>2, <1>5 DEF BackupOf
<1>6. CASE /\ backup.phase = "publish"
           /\ backup' = BackupOf("verify", backup.asked, backup.journal, backup.companions)
           /\ \E copied : /\ copied = [journal |-> backup.journal, companions |-> backup.companions]
                          /\ package' = [contents |-> copied, listed |-> copied,
                                         declared |-> Len(backup.asked.journal)]
  <2>1. package'.contents = Copied(backup.companions)
    BY <1>6
  <2> QED BY <1>2, <1>6, <2>1 DEF BackupOf
<1>7. CASE \E p \in {"idle", "journal", "created", "failed"} : \E a, j, c : backup' = BackupOf(p, a, j, c)
  BY <1>7 DEF BackupOf
<1>8. NoBackup = BackupOf("idle", Empty, <<>>, {})
  BY TypedParts
<1> QED BY BackupStepMoves, <1>3, <1>4, <1>5, <1>6, <1>7, <1>8 DEF BackupMove

(* What was kept is kept: a step may move it, and loses none. *)
LEMMA KeepStep ==
  ASSUME TypeOK, AckInv, LenInv, LeaseInv, OriginalInv, NothingDestroyed, [Next]_vars
  PROVE  NothingDestroyed'
<1> DEFINE K == In(target) \cup UNION { In(safety[i]) : i \in DOMAIN safety }
           L == In(target') \cup UNION { In(safety'[i]) : i \in DOMAIN safety' }
<1>1. target \in Place /\ acked \subseteq K
  BY DEF TypeOK, NothingDestroyed
<1>2. \A x : x \in K <=> x \in In(target) \/ \E i \in DOMAIN safety : x \in In(safety[i])
  OBVIOUS
<1>3. \A x : x \in L <=> x \in In(target') \/ \E i \in DOMAIN safety' : x \in In(safety'[i])
  OBVIOUS
<1> HIDE DEF K, L
<1>4. acked' \subseteq L
  <2>1. CASE UNCHANGED <<target, safety, acked>>
    BY <1>1, <1>2, <1>3, <2>1
  <2>2. CASE Created \/ Opening
    <3>1. In(target') = In(target) /\ safety' = safety /\ acked' = acked
      BY <1>1, <2>2, AuditedFacts, DirectoryFacts DEF Created, Opening, Place
    <3> QED BY <1>1, <1>2, <1>3, <3>1
  <2>3. CASE \E e \in Event : Appended(e)
    <3>1. PICK e \in Event : Appended(e)
      BY <2>3
    <3>2. In(target') = In(target) \cup {e} /\ safety' = safety /\ acked' = acked \cup {e}
      BY <3>1, AppendedFacts DEF Appended
    <3> QED BY <1>1, <1>2, <1>3, <3>2
  <2>4. CASE \E c \in Companion : Written(c)
    <3>1. In(target') = In(target) /\ safety' = safety /\ acked' = acked
      BY <2>4, WrittenFacts DEF Written
    <3> QED BY <1>1, <1>2, <1>3, <3>1
  <2>5. CASE SetAside
    <3>1. acked' = acked
      BY <2>5 DEF SetAside
    <3>2. CASE target = Absent
      <4>1. target' = target /\ safety' = safety
        BY <2>5, <3>2 DEF SetAside
      <4> QED BY <2>1, <3>1, <4>1
    <3>3. CASE target # Absent
      <4>1. /\ \A i \in DOMAIN safety : i \in DOMAIN safety' /\ safety'[i] = safety[i]
            /\ \E i \in DOMAIN safety' : safety'[i] = target
        BY <2>5, <3>3, AsideFacts
      <4>2. ASSUME NEW x \in K PROVE x \in L
        <5>1. CASE x \in In(target)
          BY <1>3, <4>1, <5>1
        <5>2. CASE \E i \in DOMAIN safety : x \in In(safety[i])
          BY <1>3, <4>1, <5>2
        <5> QED BY <1>2, <4>2, <5>1, <5>2
      <4> QED BY <1>1, <3>1, <4>2
    <3> QED BY <3>2, <3>3
  <2>6. CASE Install
    <3>1. In(target) = {} /\ safety' = safety /\ acked' = acked
      BY <2>6, InstallFacts, AuditedFacts DEF Install
    <3> QED BY <1>1, <1>2, <1>3, <3>1
  <2>7. CASE RollBack
    <3>1. acked' = acked
      BY <2>7 DEF RollBack
    <3>2. CASE UNCHANGED <<target, safety>>
      BY <2>1, <3>1, <3>2
    <3>3. CASE safety # <<>> /\ target \in {Absent, Bare} /\ target' = Last(safety) /\ safety' = Front(safety)
      <4>1. In(target) = {}
        BY <3>3, AuditedFacts
      <4>2. ASSUME NEW x \in K PROVE x \in L
        <5>1. PICK i \in DOMAIN safety : x \in In(safety[i])
          BY <1>2, <4>1, <4>2
        <5>2. (i \in DOMAIN Front(safety) /\ Front(safety)[i] = safety[i]) \/ safety[i] = Last(safety)
          BY <3>3, BackFacts
        <5> QED BY <1>3, <3>3, <5>1, <5>2
      <4> QED BY <1>1, <3>1, <4>2
    <3> QED BY <2>7, <3>2, <3>3, RollBackFacts
  <2> QED BY DiskStep, QuietStep, <2>1, <2>2, <2>3, <2>4, <2>5, <2>6, <2>7 DEF DiskMove
<1> QED BY <1>4 DEF NothingDestroyed, L

-----------------------------------------------------------------------------
LEMMA InitInv == Init => IInv
<1> SUFFICES ASSUME Init PROVE IInv
  OBVIOUS
<1>1. /\ target \in {Absent, Empty} /\ safety = <<>> /\ package = Absent
      /\ app = "down" /\ home = "target" /\ lease = "none"
      /\ backup = NoBackup /\ restore = NoRestore
      /\ acked = {} /\ restores = 0 /\ faults = 0 /\ kills = 0
  BY DEF Init
<1>2. /\ Empty \in Directory /\ Empty.journal = <<>> /\ Empty.companions = {} /\ Healthy(Empty)
      /\ Len(<<>>) = 0 /\ <<>> \in Seq(Event) /\ <<>> \in Seq(Directory \cup {Bare}) /\ DOMAIN <<>> = {}
  BY DirectoryFacts, AuditedFacts, EmptySeq
<1>3. IsFiniteSet({}) /\ Cardinality({}) = 0
  BY FS_EmptySet
<1>4. MaxEvents \in Nat /\ MaxRestores \in Nat /\ MaxFaults \in Nat /\ MaxKills \in Nat
  BY Bounds
<1>5. <<>> \in SeqOf(Event, MaxEvents)
  <2>1. Len(<<>>) <= MaxEvents
    BY <1>2, <1>4
  <2> QED BY <1>2, <1>4, <2>1, BoundedSeqs
<1>6. backup.phase = "idle" /\ backup.journal = <<>> /\ backup.asked = Empty /\ restore.phase = "idle"
      /\ restore.promised = Empty /\ restore.staging = Empty
  BY <1>1 DEF NoBackup, NoRestore
<1>7. target \in Place /\ Absent \in Place
  BY <1>1, <1>2 DEF Place
<1>8. backup \in BackupType /\ restore \in RestoreType
  BY <1>1, <1>2, <1>5, <1>7 DEF NoBackup, NoRestore, BackupType, RestoreType
<1>9. TypeOK
  <2>1. restores \in 0..MaxRestores /\ faults \in 0..MaxFaults /\ kills \in 0..MaxKills
    BY <1>1, <1>4
  <2>2. safety \in Seq(Directory \cup {Bare}) /\ acked \subseteq Event
    BY <1>1, <1>2
  <2>3. app \in {"down", "starting", "up"} /\ home \in {"target", "safety"} /\ lease \in {"none", "app", "restore"}
    BY <1>1
  <2> QED BY <1>1, <1>7, <1>8, <2>1, <2>2, <2>3 DEF TypeOK, BackupType, RestoreType
<1>10. AckInv
  BY <1>1, <1>3, <1>4 DEF AckInv
<1>11. LenInv
  <2>1. Len(<<>>) <= Cardinality(acked)
    BY <1>1, <1>2, <1>3
  <2> QED BY <1>1, <1>2, <1>6, <2>1 DEF LenInv, Short
<1>12. LeaseInv
  BY <1>1, <1>6 DEF LeaseInv
<1>13. OriginalInv /\ StagedInv
  BY <1>6 DEF OriginalInv, StagedInv
<1>14. HealthInv
  BY <1>1, <1>2, <1>7, AuditedFacts DEF HealthInv
<1>15. CopyInv
  BY <1>6 DEF CopyInv
<1>16. NothingDestroyed
  BY <1>1 DEF NothingDestroyed
<1> QED BY <1>9, <1>10, <1>11, <1>12, <1>13, <1>14, <1>15, <1>16 DEF IInv

LEMMA StepInv == IInv /\ [Next]_vars => IInv'
<1> SUFFICES ASSUME IInv, [Next]_vars PROVE IInv'
  OBVIOUS
<1> USE DEF IInv
<1>1. TypeOK'
  BY TypeStep
<1>2. AckInv'
  BY AckStep
<1>3. LenInv'
  BY LenStep
<1>4. LeaseInv'
  BY LeaseStep
<1>5. OriginalInv'
  BY OriginalStep
<1>6. StagedInv'
  BY StagedStep
<1>7. HealthInv'
  BY HealthStep
<1>8. CopyInv'
  BY CopyStep
<1>9. NothingDestroyed'
  BY KeepStep
<1> QED BY <1>1, <1>2, <1>3, <1>4, <1>5, <1>6, <1>7, <1>8, <1>9

(* What the other theorems rest on. *)
THEOREM Inductive == Spec => []IInv
<1>1. Init => IInv
  BY InitInv
<1>2. IInv /\ [Next]_vars => IInv'
  BY StepInv
<1> QED BY <1>1, <1>2, PTL DEF Spec

(* The variables of the three processes and of the disk have their types.  *)
THEOREM TypeCorrect == Spec => []TypeOK
<1>1. IInv => TypeOK
  BY DEF IInv
<1> QED BY <1>1, Inductive, PTL

(* No event whose append returned is lost to a restore, a failed one or a  *)
(* killed one.                                                             *)
THEOREM NothingLost == Spec => []NothingDestroyed
<1>1. IInv => NothingDestroyed
  BY DEF IInv
<1> QED BY <1>1, Inductive, PTL

(* The lease and the audit of a restore keep a writer in its directory.    *)
THEOREM WriterStays == Spec => []WritesInPlace
<1>1. IInv => WritesInPlace
  BY DEF IInv, LeaseInv, WritesInPlace
<1> QED BY <1>1, Inductive, PTL

(* A package copied from a live archive refers to nothing it lacks.        *)
THEOREM PackagesAreWhole == Spec => []BackupIsSelfContained
<1>1. IInv => BackupIsSelfContained
  BY DEF IInv, CopyInv, BackupIsSelfContained
<1> QED BY <1>1, Inductive, PTL

(* A restore installs what the manifest promised.                          *)
THEOREM PromiseInstalled == Spec => InstallsWhatIsListed
<1>1. IInv /\ [Next]_vars =>
        [restore.phase = "install" /\ restore'.report = "restored"
           => target' = restore.promised /\ Healthy(target')]_vars
  <2> SUFFICES ASSUME IInv, [Next]_vars, restore.phase = "install", restore'.report = "restored"
      PROVE  target' = restore.promised /\ Healthy(target')
    OBVIOUS
  <2>1. restore \in RestoreType
    BY TypedParts DEF IInv
  <2>2. restore.report = "none" /\ restore.staging = restore.promised /\ Healthy(restore.staging)
    <3>1. /\ restore.staging \in Directory /\ restore.promised \in Directory
          /\ restore.staging.journal = restore.promised.journal
          /\ restore.staging.companions = restore.promised.companions
      BY <2>1 DEF IInv, StagedInv, RestoreType
    <3>2. restore.staging = restore.promised
      BY <3>1, DirectoryFacts
    <3> QED BY <3>2 DEF IInv, StagedInv, LeaseInv
  <2>3. Install
    <3>1. restore.phase = "install" /\ restore'.report = "restored" /\ restore' # restore
      BY <2>2
    <3>2. Program \/ Backup \/ Decay \/ UNCHANGED vars => restore' = restore
      <4>1. Program => restore' = restore
        BY DEF Program, CreateDirectory, OpenJournal, Close, AppendEvent, WriteCompanion
      <4> QED BY <4>1 DEF Backup, BeginBackup, CopyJournal, CopyCompanions, AbandonBackup, PublishBackup,
                   VerifyBackup, DiscardPackage, Decay, vars
    <3>3. Kill => restore' = restore \/ restore'.report = "none"
      BY DEF Kill, NoRestore
    <3>4. Restore => Install \/ InstallFails
      BY <3>1 DEF Restore, VerifyForRestore, BeginStaging, AuditStaging, Stage, SetAside, RollBack, RollBackFails
    <3>5. InstallFails => restore'.report = restore.report
      BY <2>1 DEF InstallFails, RestoreType
    <3> QED BY <2>2, <3>1, <3>2, <3>3, <3>4, <3>5 DEF Next
  <2> QED BY <2>2, <2>3, InstallFacts DEF IInv
<1> QED BY <1>1, Inductive, PTL DEF Spec, InstallsWhatIsListed

(* What a failed activation reports of the original is so.                 *)
THEOREM ReportsAreTrue == Spec => ReportIsTrue
<1>1. IInv /\ [Next]_vars =>
        [restore.phase = "rollback" =>
           /\ restore'.report = "preserved" /\ restore.original # Absent => target' = restore.original
           /\ restore'.report = "at safety" => Last(safety') = restore.original]_vars
  <2> SUFFICES ASSUME IInv, [Next]_vars, restore.phase = "rollback"
      PROVE  /\ restore'.report = "preserved" /\ restore.original # Absent => target' = restore.original
             /\ restore'.report = "at safety" => Last(safety') = restore.original
    OBVIOUS
  <2>1. restore \in RestoreType /\ restore.report = "none"
    BY TypedParts DEF IInv, LeaseInv
  <2>2. CASE restore'.report = "none"
    BY <2>2
  <2>3. CASE RollBack
    <3>1. restore'.report = "preserved"
      BY <2>1, <2>3 DEF RollBack, RestoreType
    <3>2. restore.original # Absent => target' = Last(safety) /\ Last(safety) = restore.original
      BY <2>3 DEF RollBack, IInv, OriginalInv
    <3> QED BY <3>1, <3>2
  <2>4. CASE RollBackFails
    <3>1. restore'.report = "at safety" /\ safety' = safety /\ restore.original # Absent
      BY <2>1, <2>4 DEF RollBackFails, RestoreType, disk
    <3>2. Last(safety) = restore.original
      BY <3>1 DEF IInv, OriginalInv
    <3> QED BY <3>1, <3>2
  <2>5. restore'.report = "none" \/ RollBack \/ RollBackFails
    <3>1. Program => restore' = restore
      BY DEF Program, CreateDirectory, OpenJournal, Close, AppendEvent, WriteCompanion
    <3>2. Backup \/ Decay \/ UNCHANGED vars => restore' = restore
      BY DEF Backup, BeginBackup, CopyJournal, CopyCompanions, AbandonBackup, PublishBackup,
             VerifyBackup, DiscardPackage, Decay, vars
    <3>3. Kill => restore' = restore \/ restore'.report = "none"
      BY DEF Kill, NoRestore
    <3>4. Restore => RollBack \/ RollBackFails
      BY DEF Restore, VerifyForRestore, BeginStaging, AuditStaging, Stage, SetAside, Install, InstallFails
    <3> QED BY <2>1, <3>1, <3>2, <3>3, <3>4 DEF Next
  <2> QED BY <2>2, <2>3, <2>4, <2>5
<1> QED BY <1>1, Inductive, PTL DEF Spec, ReportIsTrue
=============================================================================
