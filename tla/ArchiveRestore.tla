--------------------------- MODULE ArchiveRestore ---------------------------
(***************************************************************************)
(* Backup and restore of the local archive: a data directory with the      *)
(* journal and the companion files its events refer to (cached catalog     *)
(* entries, imported source archives).                                     *)
(*                                                                         *)
(* Three processes share the file system: the program that writes the      *)
(* archive, a backup that reads it without any lock, and a restore that    *)
(* takes the writer's lease, stages a copy and swaps directories by two    *)
(* renames.  Each may be killed between any two steps.                     *)
(*                                                                         *)
(* A directory is Absent, Bare (created, with nothing in it) or a record.  *)
(* Bytes are compared by hash in the code and by value here.               *)
(***************************************************************************)
EXTENDS Naturals, Sequences, SequencesExt, FiniteSets

CONSTANTS
  Companion,         \* files an event may refer to
  Plain,             \* an event that refers to none
  Absent, Bare,      \* no directory; an empty one
  ReplacesBare,      \* rename replaces an empty directory (POSIX), or fails
  MaxEvents,         \* bound: appends
  MaxRestores,       \* bound: restores begun
  MaxFaults,         \* bound: renames that fail, files that decay
  MaxKills           \* bound: processes killed

ASSUME ArchiveRestoreAssumption ==
  /\ Plain \notin Companion
  /\ ReplacesBare \in BOOLEAN
  /\ {MaxEvents, MaxRestores, MaxFaults, MaxKills} \subseteq Nat

VARIABLES
  target,            \* the data directory
  safety,            \* the pre-restore copies, oldest first
  package,           \* the backup at its output path: Absent, or contents and manifest
  app,               \* the program: down, starting or up
  home,              \* history: where the directory it opened is now
  lease,             \* holder of the lease beside the data directory
  backup,            \* the backup in progress
  restore,           \* the restore in progress
  acked,             \* history: events whose append returned
  restores, faults, kills

disk == <<target, safety, package>>
program == <<app, home>>
vars == <<disk, program, lease, backup, restore, acked, restores, faults, kills>>
-----------------------------------------------------------------------------
Event == [number : 1..MaxEvents, needs : Companion \cup {Plain}]

Directory == [journal : SeqOf(Event, MaxEvents), companions : SUBSET Companion]

(* No directory is told from an empty one, and from one with contents. *)
ASSUME PlacesAssumption == Absent # Bare /\ {Absent, Bare} \cap Directory = {}

Empty == [journal |-> <<>>, companions |-> {}]

NoBackup == [phase |-> "idle", asked |-> Empty, journal |-> <<>>, companions |-> {}]

NoRestore == [phase |-> "idle", promised |-> Empty, staging |-> Empty,
              original |-> Absent, report |-> "none"]

(* check_archive: what the journal refers to is there. *)
Healthy(d) == \A i \in DOMAIN d.journal : d.journal[i].needs \in d.companions \cup {Plain}

(* audit_paths: a directory without a journal is an empty archive. *)
Audited(d) == IF d \in {Absent, Bare} THEN Empty ELSE d

(* Mutant: the declared counts are not compared. *)
VerifiesUncounted(p) ==
  /\ p # Absent
  /\ p.contents = p.listed
  /\ Healthy(p.contents)

(* verify_backup: every file has the hash the manifest lists, the package  *)
(* is a sound archive, and it counts the events the manifest declares.     *)
Verifies(p) ==
  /\ p # Absent
  /\ p.contents = p.listed
  /\ Healthy(p.contents)
  /\ Len(p.contents.journal) = p.declared

Init ==
  /\ target \in {Absent, Empty} /\ safety = <<>> /\ package = Absent
  /\ app = "down" /\ home = "target" /\ lease = "none"
  /\ backup = NoBackup /\ restore = NoRestore
  /\ acked = {} /\ restores = 0 /\ faults = 0 /\ kills = 0

(***************************************************************************)
(* The program.                                                            *)
(***************************************************************************)

(* open_internal creates the directory before it asks for the lease. *)
CreateDirectory ==
  /\ app = "down"
  /\ app' = "starting"
  /\ target' = IF target = Absent THEN Bare ELSE target
  /\ UNCHANGED <<safety, package, home, lease, backup, restore, acked, restores, faults, kills>>

(* Mutant: the journal is opened without the lease beside the directory. *)
OpenUnleased ==
  /\ app = "starting"
  /\ target # Absent
  /\ app' = "up" /\ home' = "target"
  /\ target' = Audited(target)
  /\ UNCHANGED <<safety, package, lease, backup, restore, acked, restores, faults, kills>>

(* open_internal: the lease, then the journal, which is created if need be. *)
OpenJournal ==
  /\ app = "starting"
  /\ \/ /\ lease = "none" /\ target # Absent
        /\ app' = "up" /\ home' = "target" /\ lease' = "app"
        /\ target' = Audited(target)
     \/ /\ lease # "none" \/ target = Absent
        /\ app' = "down"
        /\ UNCHANGED <<target, home, lease>>
  /\ UNCHANGED <<safety, package, backup, restore, acked, restores, faults, kills>>

(* The directory the program's open file is in. *)
Holding(f(_)) ==
  IF home = "target"
  THEN target' = f(target) /\ UNCHANGED safety
  ELSE safety' = [safety EXCEPT ![Len(safety)] = f(@)] /\ UNCHANGED target

Opened == IF home = "target" THEN target ELSE Last(safety)

(* An event is appended after the file it refers to was written. *)
AppendEvent(needs) ==
  LET event == [number |-> Cardinality(acked) + 1, needs |-> needs]
  IN  /\ app = "up"
      /\ Cardinality(acked) < MaxEvents
      /\ needs \in Opened.companions \cup {Plain}
      /\ Holding(LAMBDA d : [d EXCEPT !.journal = Append(@, event)])
      /\ acked' = acked \cup {event}
      /\ UNCHANGED <<package, program, lease, backup, restore, restores, faults, kills>>

(* The cached catalog grows, or an import source is archived. *)
WriteCompanion(c) ==
  /\ app = "up"
  /\ c \notin Opened.companions
  /\ Holding(LAMBDA d : [d EXCEPT !.companions = @ \cup {c}])
  /\ UNCHANGED <<package, program, lease, backup, restore, acked, restores, faults, kills>>

Close ==
  /\ app = "up"
  /\ app' = "down"
  /\ lease' = IF lease = "app" THEN "none" ELSE lease
  /\ UNCHANGED <<disk, home, backup, restore, acked, restores, faults, kills>>

(***************************************************************************)
(* create_backup.                                                          *)
(***************************************************************************)

BackupStep(from) == backup.phase = from

BeginBackup ==
  /\ BackupStep("idle")
  /\ package = Absent
  /\ Healthy(Audited(target))
  /\ backup' = [NoBackup EXCEPT !.phase = "journal", !.asked = Audited(target)]
  /\ UNCHANGED <<disk, program, lease, restore, acked, restores, faults, kills>>

(* copy_consistent, or the empty journal of an archive that has none: the  *)
(* hashes around the copy make it the file at one instant.                 *)
CopyJournal ==
  /\ BackupStep("journal")
  /\ backup' = [backup EXCEPT !.phase = "companions", !.journal = Audited(target).journal]
  /\ UNCHANGED <<disk, program, lease, restore, acked, restores, faults, kills>>

(* Mutant: the list of companions is that of the check at the start. *)
CopyListedCompanions ==
  /\ BackupStep("companions")
  /\ backup' = [backup EXCEPT !.phase = "publish", !.companions = backup.asked.companions]
  /\ UNCHANGED <<disk, program, lease, restore, acked, restores, faults, kills>>

(* The archived sources are enumerated now, after the journal was copied. *)
CopyCompanions ==
  /\ BackupStep("companions")
  /\ backup' = [backup EXCEPT !.phase = "publish", !.companions = Audited(target).companions]
  /\ UNCHANGED <<disk, program, lease, restore, acked, restores, faults, kills>>

(* The source changed while it was copied: the temporary directory stays,  *)
(* and another process takes another name.                                 *)
AbandonBackup ==
  /\ backup.phase \in {"journal", "companions"}
  /\ app = "up"
  /\ backup' = NoBackup
  /\ UNCHANGED <<disk, program, lease, restore, acked, restores, faults, kills>>

(* The manifest declares what the check at the start counted. *)
PublishBackup ==
  LET copied == [journal |-> backup.journal, companions |-> backup.companions]
  IN  /\ BackupStep("publish")
      /\ package' = [contents |-> copied, listed |-> copied, declared |-> Len(backup.asked.journal)]
      /\ backup' = [backup EXCEPT !.phase = "verify"]
      /\ UNCHANGED <<target, safety, program, lease, restore, acked, restores, faults, kills>>

(* A package that fails its verification is reported, and stays. *)
VerifyBackup ==
  /\ BackupStep("verify")
  /\ backup' = [backup EXCEPT !.phase = IF Verifies(package) THEN "created" ELSE "failed"]
  /\ UNCHANGED <<disk, program, lease, restore, acked, restores, faults, kills>>

(* The user takes the package away and names the output afresh. *)
DiscardPackage ==
  /\ backup.phase \in {"idle", "created", "failed"}
  /\ package # Absent
  /\ package' = Absent /\ backup' = NoBackup
  /\ UNCHANGED <<target, safety, program, lease, restore, acked, restores, faults, kills>>

(***************************************************************************)
(* restore_backup.                                                         *)
(***************************************************************************)

(* Verification comes before the lease. *)
VerifyForRestore ==
  /\ restore.phase = "idle"
  /\ Verifies(package)
  /\ restores < MaxRestores /\ restores' = restores + 1
  /\ restore' = [NoRestore EXCEPT !.phase = "verified"]
  /\ UNCHANGED <<disk, program, lease, backup, acked, faults, kills>>

(* An error before publication: the staging directory is removed. *)
Refuse ==
  /\ restore' = NoRestore
  /\ lease' = IF lease = "restore" THEN "none" ELSE lease

(* Mutant: the restore does not take the writer's lease. *)
BeginUnleased ==
  /\ restore.phase = "verified"
  /\ package # Absent
  /\ restore' = [restore EXCEPT !.phase = "journal", !.promised = package.listed]
  /\ UNCHANGED <<disk, program, lease, backup, acked, restores, faults, kills>>

(* The lease, a staging directory of this process, and the manifest again. *)
BeginStaging ==
  /\ restore.phase = "verified"
  /\ \/ /\ lease = "none" /\ package # Absent
        /\ lease' = "restore"
        /\ restore' = [restore EXCEPT !.phase = "journal", !.promised = package.listed]
     \/ /\ lease # "none" \/ package = Absent
        /\ Refuse
  /\ UNCHANGED <<disk, program, backup, acked, restores, faults, kills>>

Staged(file, next) ==
  restore' = [restore EXCEPT !.phase = next, !.staging[file] = package.contents[file]]

(* Mutant: staged bytes are not hashed again. *)
StageUnchecked(file, from, next) ==
  /\ restore.phase = from
  /\ package # Absent
  /\ Staged(file, next)
  /\ UNCHANGED <<disk, program, lease, backup, acked, restores, faults, kills>>

(* verify_staged_file: a copied file is compared with the manifest; the    *)
(* package may have changed since it was verified.                         *)
Stage(file, from, next) ==
  LET listed == package # Absent /\ package.contents[file] = restore.promised[file]
  IN  /\ restore.phase = from
      /\ \/ listed /\ Staged(file, next) /\ UNCHANGED lease
         \/ ~listed /\ Refuse
      /\ UNCHANGED <<disk, program, backup, acked, restores, faults, kills>>

AuditStaging ==
  /\ restore.phase = "audit"
  /\ IF Healthy(restore.staging)
     THEN restore' = [restore EXCEPT !.phase = "aside"] /\ UNCHANGED lease
     ELSE Refuse
  /\ UNCHANGED <<disk, program, backup, acked, restores, faults, kills>>

(* Mutant: the old directory is removed instead of set aside. *)
RemoveOld ==
  /\ restore.phase = "aside"
  /\ target' = Absent
  /\ restore' = [restore EXCEPT !.phase = "install"]
  /\ UNCHANGED <<safety, package, program, lease, backup, acked, restores, faults, kills>>

(* publish_staged_restore: the first rename. *)
SetAside ==
  /\ restore.phase = "aside"
  /\ IF target = Absent
     THEN UNCHANGED <<target, safety, home>>
     ELSE /\ target' = Absent /\ safety' = Append(safety, target)
          /\ home' = IF app = "up" THEN "safety" ELSE home
  /\ restore' = [restore EXCEPT !.phase = "install", !.original = target]
  /\ UNCHANGED <<package, app, lease, backup, acked, restores, faults, kills>>

CanRename == target = Absent \/ (target = Bare /\ ReplacesBare)

(* Mutant: the restore ends without a report. *)
InstallAndForget ==
  /\ restore.phase = "install"
  /\ CanRename
  /\ target' = restore.staging
  /\ restore' = [NoRestore EXCEPT !.phase = "installed"] /\ lease' = "none"
  /\ UNCHANGED <<safety, package, program, backup, acked, restores, faults, kills>>

(* publish_staged_restore: the second rename. *)
Install ==
  /\ restore.phase = "install"
  /\ CanRename
  /\ target' = restore.staging
  /\ restore' = [NoRestore EXCEPT !.report = "restored"] /\ lease' = "none"
  /\ UNCHANGED <<safety, package, program, backup, acked, restores, faults, kills>>

(* The second rename fails: the directory exists, or the system says so. *)
InstallFails ==
  /\ restore.phase = "install"
  /\ IF CanRename THEN faults < MaxFaults /\ faults' = faults + 1 ELSE UNCHANGED faults
  /\ restore' = [restore EXCEPT !.phase = "rollback"]
  /\ UNCHANGED <<disk, program, lease, backup, acked, restores, kills>>

(* Mutant: an error of the second rename is returned at once. *)
NoRollBack ==
  /\ restore.phase = "rollback"
  /\ restore' = [restore EXCEPT !.phase = "idle", !.report = "preserved"] /\ lease' = "none"
  /\ UNCHANGED <<disk, program, backup, acked, restores, faults, kills>>

(* The original is moved back, if there was one. *)
RollBack ==
  /\ restore.phase = "rollback"
  /\ \/ /\ restore.original = Absent
        /\ UNCHANGED <<target, safety>>
     \/ /\ restore.original # Absent /\ CanRename
        /\ target' = Last(safety) /\ safety' = Front(safety)
  /\ restore' = [restore EXCEPT !.phase = "idle", !.report = "preserved"] /\ lease' = "none"
  /\ UNCHANGED <<package, program, backup, acked, restores, faults, kills>>

(* The rollback fails too: the report names the safety copy. *)
RollBackFails ==
  /\ restore.phase = "rollback"
  /\ restore.original # Absent
  /\ IF CanRename THEN faults < MaxFaults /\ faults' = faults + 1 ELSE UNCHANGED faults
  /\ restore' = [restore EXCEPT !.phase = "idle", !.report = "at safety"] /\ lease' = "none"
  /\ UNCHANGED <<disk, program, backup, acked, restores, kills>>

(***************************************************************************)
(* The environment.                                                        *)
(***************************************************************************)

(* A file of the package loses its last bytes. *)
Decay ==
  /\ package # Absent
  /\ faults < MaxFaults /\ faults' = faults + 1
  /\ \/ /\ package.contents.journal # <<>>
        /\ package' = [package EXCEPT !.contents.journal = Front(@)]
     \/ \E c \in package.contents.companions :
          package' = [package EXCEPT !.contents.companions = @ \ {c}]
  /\ UNCHANGED <<target, safety, program, lease, backup, restore, acked, restores, kills>>

Kill ==
  /\ kills < MaxKills /\ kills' = kills + 1
  /\ \/ /\ app # "down" /\ app' = "down"
        /\ lease' = IF lease = "app" THEN "none" ELSE lease
        /\ UNCHANGED <<backup, restore>>
     \/ /\ backup.phase \notin {"idle", "created", "failed"} /\ backup' = NoBackup
        /\ UNCHANGED <<app, lease, restore>>
     \/ /\ restore.phase # "idle" /\ restore' = NoRestore
        /\ lease' = IF lease = "restore" THEN "none" ELSE lease
        /\ UNCHANGED <<app, backup>>
  /\ UNCHANGED <<disk, home, acked, restores, faults>>

Program ==
  \/ CreateDirectory \/ OpenJournal \/ Close
  \/ \E needs \in Companion \cup {Plain} : AppendEvent(needs)
  \/ \E c \in Companion : WriteCompanion(c)

Backup ==
  \/ BeginBackup \/ CopyJournal \/ CopyCompanions \/ AbandonBackup
  \/ PublishBackup \/ VerifyBackup \/ DiscardPackage

Restore ==
  \/ VerifyForRestore \/ BeginStaging \/ AuditStaging
  \/ Stage("journal", "journal", "companions") \/ Stage("companions", "companions", "audit")
  \/ SetAside \/ Install \/ InstallFails \/ RollBack \/ RollBackFails

Next == Program \/ Backup \/ Restore \/ Decay \/ Kill

Spec == Init /\ [][Next]_vars
-----------------------------------------------------------------------------
(***************************************************************************)
(* What should hold.                                                       *)
(***************************************************************************)

Place == Directory \cup {Absent, Bare}

TypeOK ==
  /\ target \in Place
  /\ safety \in Seq(Directory \cup {Bare})
  /\ package = Absent
     \/ package \in [contents : Directory, listed : Directory, declared : 0..MaxEvents]
  /\ app \in {"down", "starting", "up"} /\ home \in {"target", "safety"}
  /\ lease \in {"none", "app", "restore"}
  /\ backup \in [phase : {"idle", "journal", "companions", "publish", "verify", "created", "failed"},
                 asked : Directory, journal : SeqOf(Event, MaxEvents),
                 companions : SUBSET Companion]
  /\ restore \in [phase : {"idle", "verified", "journal", "companions", "audit", "aside",
                           "install", "rollback"},
                  promised : Directory, staging : Directory, original : Place,
                  report : {"none", "restored", "preserved", "at safety"}]
  /\ acked \subseteq Event
  /\ restores \in 0..MaxRestores /\ faults \in 0..MaxFaults /\ kills \in 0..MaxKills

In(d) == IF d \in {Absent, Bare} THEN {} ELSE ToSet(d.journal)

(* No acknowledged event disappears: it is in the data directory or in a   *)
(* pre-restore copy, wherever backup, restore or program were cut short.   *)
NothingDestroyed ==
  acked \subseteq In(target) \cup UNION { In(safety[i]) : i \in DOMAIN safety }

(* The directory a running program writes is never moved from under it:    *)
(* what it appends is where the next start will look.                      *)
WritesInPlace == app = "up" => home = "target" /\ target \notin {Absent, Bare}

(* A package taken from a live archive refers to nothing it lacks, even    *)
(* when the journal grew in the meantime: companions are written before    *)
(* the events that need them and copied after.  (Beside a restore that     *)
(* replaces the directory only the verification keeps this.)               *)
BackupIsSelfContained ==
  backup.phase = "verify" /\ faults = 0 /\ safety = <<>> => Healthy(package.contents)

(* "backup created and verified" is said of the archive the command found, *)
(* not of one that grew under it.                                          *)
BackupIsOfItsStart ==
  backup.phase = "created" /\ safety = <<>> => package.listed.journal = backup.asked.journal

(* What a restore installs is byte for byte what the manifest lists, and   *)
(* sound, whatever became of the package after it was verified.            *)
InstallsWhatIsListed ==
  [][restore.phase = "install" /\ restore'.report = "restored"
       => target' = restore.promised /\ Healthy(target')]_vars

(* A failed activation says where the original is, and it is there: back   *)
(* in its place, or kept beside it.                                        *)
ReportIsTrue ==
  [][restore.phase = "rollback" =>
       /\ restore'.report = "preserved" /\ restore.original # Absent => target' = restore.original
       /\ restore'.report = "at safety" => Last(safety') = restore.original]_vars

(* The documents say that the candidate is installed atomically: no start  *)
(* finds the place empty, and creates a new archive there, while the       *)
(* events of the previous one are in a pre-restore copy.                   *)
InstallIsAtomic ==
  [][app = "starting" /\ app' = "up" /\ target = Bare
       => \A i \in DOMAIN safety : In(safety[i]) = {}]_vars
=============================================================================
