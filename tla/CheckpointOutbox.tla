-------------------------- MODULE CheckpointOutbox --------------------------
(***************************************************************************)
(* The outbox of memory checkpoints: every completed turn after the first  *)
(* start is summarised by the model and written, once, to an external      *)
(* memory service that offers no way to undo or repeat a create safely.    *)
(*                                                                         *)
(* The window asks for summaries; one persistence worker owns the outbox   *)
(* file and takes commands from one channel, which the window, and the     *)
(* worker's own threads (preflight, write, read-only recovery), fill.      *)
(* Turns are named by the order of their completions in the journal.       *)
(***************************************************************************)
EXTENDS Naturals, Sequences, SequencesExt, FiniteSets, FiniteSetsExt

CONSTANTS
  MaxTurn,           \* bound: completions
  Conversation,
  ConversationOf,    \* the author of each turn
  Text,              \* what the model may answer
  NoMemory,          \* the answer that there is nothing to keep
  Garbled,           \* a stored text that differs from the one sent
  None,
  ReadLimit,         \* uncertain entries read back at a start (8 in the code)
  MaxKills,          \* bound: crashes
  MaxFaults          \* bound: saves and loads of the outbox that fail

Turn == 1..MaxTurn

ASSUME CheckpointOutboxAssumption ==
  /\ {MaxTurn, MaxKills, MaxFaults} \subseteq Nat
  /\ ReadLimit \in Nat \ {0}
  /\ ConversationOf \in [Turn -> Conversation]
  /\ {NoMemory, Garbled, None} \cap (Text \cup Nat) = {}

VARIABLES
  completed,         \* completions in the journal
  outbox,            \* the file as it reads now
  stable,            \* the file as it may read after a power loss
  summary,           \* the immutable summary files
  app,               \* down, or how far the worker has started
  commands,          \* the worker's channel
  window,            \* the window's summary in flight and the turns it gave up
  worker,            \* the worker's memory between commands
  writer,            \* the write thread
  reader,            \* turns the recovery thread has still to read back
  remote,            \* what the service stores under each turn
  late,              \* creates the service may still apply
  creates,           \* history: creates sent, by turn
  history,           \* history: what each summary was built on; the first high water;
                     \*   the turns whose fate was once in doubt
  kills, faults

files == <<completed, outbox, stable, summary>>
service == <<remote, late, creates>>
threads == <<writer, reader>>
memory == <<app, commands, window, worker, threads>>
vars == <<files, memory, service, history, kills, faults>>
-----------------------------------------------------------------------------
State == {"absent", "pending", "ready", "dispatched", "confirmed", "uncertain", "skipped"}

Idle == [asked |-> None, blocked |-> {}]

Forgetful == [writing |-> FALSE, probing |-> None, attested |-> None, recent |-> FALSE, wait |-> FALSE]

Quiet == [turn |-> None, phase |-> "none"]

EmptyOutbox == [after |-> None, queue |-> <<>>, state |-> [t \in Turn |-> "absent"]]

InState(box, s) == { t \in ToSet(box.queue) : box.state[t] = s }

(* The first entry of some of the turns that are in the outbox. *)
First(box, ts) == box.queue[Min({ i \in DOMAIN box.queue : box.queue[i] \in ts })]

(* ready_entries().next() *)
Oldest(box) == IF InState(box, "ready") = {} THEN None ELSE First(box, InState(box, "ready"))

(* The entries of some turns that have fewer than n of them before them. *)
FirstFew(box, ts, n) ==
  { box.queue[i] : i \in { j \in DOMAIN box.queue :
      /\ box.queue[j] \in ts
      /\ Cardinality({ k \in 1..(j - 1) : box.queue[k] \in ts }) < n } }

(* The channel's commands of a kind, and the turns they are about. *)
Waiting(kind) == { i \in DOMAIN commands : commands[i].kind = kind }

TurnsOf(kind) == { commands[i].turn : i \in Waiting(kind) }

(* The last turn that has completed, in the journal or on its way to it. *)
LastCompleted == Max({completed} \cup TurnsOf("complete"))

Older(t) == { u \in 1..(t - 1) : ConversationOf[u] = ConversationOf[t] }

Confirmed(box, t) == { u \in Older(t) : box.state[u] = "confirmed" }

Enqueued(box, t) == [box EXCEPT !.queue = Append(@, t), !.state[t] = "pending"]

Moved(box, t, next) == [box EXCEPT !.state[t] = next]

(* transition_durable's table; the worker loads the file for each command. *)
Allowed(t, from, next) ==
  /\ outbox.state[t] = from
  /\ <<from, next>> \in { <<"pending", "ready">>, <<"pending", "skipped">>,
                          <<"ready", "dispatched">>, <<"dispatched", "confirmed">>,
                          <<"dispatched", "uncertain">>, <<"uncertain", "confirmed">> }

(* save_atomic: staged, synced and renamed.  A failure before the rename   *)
(* changes nothing; one of the directory's sync is reported although the   *)
(* new file is in place.                                                   *)
Save(box, ok) ==
  \/ ok /\ outbox' = box /\ stable' = box /\ UNCHANGED faults
  \/ /\ ~ok /\ faults < MaxFaults /\ faults' = faults + 1
     /\ outbox' \in {outbox, box} /\ UNCHANGED stable

Unchanged == UNCHANGED <<outbox, stable, faults>>

Doubt(ts) == history' = [history EXCEPT !.doubted = @ \cup ts]

Init ==
  /\ completed \in 0..(MaxTurn - 1)
  /\ outbox = EmptyOutbox /\ stable = EmptyOutbox
  /\ summary = [t \in Turn |-> None]
  /\ app = "down" /\ commands = <<>> /\ window = Idle /\ worker = Forgetful
  /\ writer = Quiet /\ reader = {}
  /\ remote = [t \in Turn |-> None] /\ late = {} /\ creates = [t \in Turn |-> 0]
  /\ history = [base |-> [t \in Turn |-> {}], since |-> completed, doubted |-> {}]
  /\ kills = 0 /\ faults = 0

(***************************************************************************)
(* The start of the worker.                                                *)
(***************************************************************************)

Starting(from, to) == app = from /\ app' = to

(* Mutant: the baseline is the journal's high water at every start. *)
ActivateAlways ==
  /\ \E ok \in BOOLEAN :
       /\ Starting("down", IF ok THEN "reconciling" ELSE "recovering")
       /\ Save([outbox EXCEPT !.after = completed], ok)
  /\ UNCHANGED <<completed, summary, commands, window, worker, threads, service, history, kills>>

(* activate_durable: once. *)
Activate ==
  /\ \/ /\ outbox.after = None
        /\ \E ok \in BOOLEAN :
             /\ Starting("down", IF ok THEN "reconciling" ELSE "recovering")
             /\ Save([outbox EXCEPT !.after = completed], ok)
     \/ /\ outbox.after # None
        /\ Starting("down", "reconciling")
        /\ Unchanged
  /\ UNCHANGED <<completed, summary, commands, window, worker, threads, service, history, kills>>

(* Mutant: enqueue_durable does not look for an entry of the turn. *)
AllMissing == { t \in 1..completed : t > outbox.after }

(* Completions after the baseline that the outbox does not have. *)
Missing == { t \in 1..completed : t > outbox.after /\ outbox.state[t] = "absent" }

(* reconcile_checkpoint_outbox, entry by entry; an error ends it. *)
EnqueueMissing ==
  /\ app = "reconciling"
  /\ \/ /\ Missing # {}
        /\ \E ok \in BOOLEAN :
             /\ Starting("reconciling", IF ok THEN "reconciling" ELSE "recovering")
             /\ Save(Enqueued(outbox, Min(Missing)), ok)
             /\ Doubt(IF ok THEN {} ELSE Missing)
     \/ /\ Missing = {}
        /\ Starting("reconciling", "recovering")
        /\ Unchanged /\ UNCHANGED history
  /\ UNCHANGED <<completed, summary, commands, window, worker, threads, service, kills>>

Dispatched == { t \in Turn : outbox.state[t] = "dispatched" }

(* Mutant: an interrupted write is taken up again. *)
RecoverToReady ==
  /\ Starting("recovering", "up")
  /\ Save([outbox EXCEPT !.state = [t \in Turn |-> IF t \in Dispatched THEN "ready" ELSE @[t]]], TRUE)
  /\ reader' = {} /\ Doubt(Dispatched)
  /\ UNCHANGED <<completed, summary, commands, window, worker, writer, service, kills>>

(* recover_interrupted_dispatches_durable, and the thread that reads back  *)
(* the first few uncertain entries.                                        *)
RecoverInterrupted ==
  LET recovered == [outbox EXCEPT !.state =
                      [t \in Turn |-> IF t \in Dispatched THEN "uncertain" ELSE @[t]]]
  IN  /\ Starting("recovering", "up")
      /\ IF Dispatched = {} THEN Unchanged ELSE \E ok \in BOOLEAN : Save(recovered, ok)
      /\ reader' = FirstFew(outbox', InState(outbox', "uncertain"), ReadLimit)
      /\ Doubt(Dispatched)
      /\ UNCHANGED <<completed, summary, commands, window, worker, writer, service, kills>>

(***************************************************************************)
(* The window.                                                             *)
(***************************************************************************)

Posted(command) == commands' = Append(commands, command)

(* A reply that is no tool request completes its turn: the window posts    *)
(* the completion and the checkpoint's intent, in this order.              *)
CompleteTurn ==
  LET t == LastCompleted + 1
  IN  /\ app = "up"
      /\ t \in Turn
      /\ commands' = commands \o << [kind |-> "complete", turn |-> t], [kind |-> "queue", turn |-> t] >>
      /\ UNCHANGED <<files, app, window, worker, threads, service, history, kills, faults>>

(* Mutant: only a summary that is still to be generated is waited for. *)
UnsummarisedOnly(t) == { u \in Older(t) : outbox.state[u] = "pending" }

(* Still to be settled before a later turn of the conversation builds on it. *)
Unsettled(t) == { u \in Older(t) : outbox.state[u] \in {"pending", "ready", "dispatched"} }

(* maybe_generate_openviking_summary: one request at a time, built on the  *)
(* newest confirmed checkpoint of the conversation.  Entries before it may *)
(* be passed over because their model or conversation is not there.        *)
AskSummary(t) ==
  /\ app = "up"
  /\ window.asked = None
  /\ outbox.state[t] = "pending"
  /\ t \notin window.blocked
  /\ Unsettled(t) \subseteq window.blocked
  /\ window' = [window EXCEPT !.asked = t]
  /\ history' = [history EXCEPT !.base[t] = Confirmed(outbox, t)]
  /\ UNCHANGED <<files, app, commands, worker, threads, service, kills, faults>>

GiveUp(t) ==
  /\ window' = [asked |-> None, blocked |-> window.blocked \cup {t}]
  /\ Doubt({t})

Saving(t) == t \in TurnsOf("save")

(* validate_rolling_summary: what was confirmed before is not discarded.   *)
AnswerSummary(text) ==
  LET t == window.asked
  IN  /\ app = "up" /\ t # None
      /\ ~Saving(t)
      /\ IF text = NoMemory /\ history.base[t] # {}
         THEN GiveUp(t) /\ UNCHANGED commands
         ELSE Posted([kind |-> "save", turn |-> t, text |-> text]) /\ UNCHANGED <<window, history>>
      /\ UNCHANGED <<files, app, worker, threads, service, kills, faults>>

(* The request fails, or the sidecar is lost. *)
SummaryFails ==
  /\ app = "up" /\ window.asked # None
  /\ GiveUp(window.asked)
  /\ UNCHANGED <<files, app, commands, worker, threads, service, kills, faults>>

(* maybe_dispatch_ready_openviking_write, every half minute.  A second     *)
(* request behind one that waits would find what the first one finds.      *)
Nudge ==
  /\ app = "up"
  /\ Oldest(outbox) # None
  /\ Waiting("dispatch") = {}
  /\ Posted([kind |-> "dispatch"])
  /\ UNCHANGED <<files, app, window, worker, threads, service, history, kills, faults>>

(***************************************************************************)
(* The persistence worker, a command at a time.                            *)
(***************************************************************************)

Take(kind) ==
  /\ app = "up"
  /\ commands # <<>> /\ Head(commands).kind = kind

Done == commands' = Tail(commands)

DispatchAgain == commands' = Append(Tail(commands), [kind |-> "dispatch"])

AppendCompletion ==
  /\ Take("complete") /\ Done
  /\ completed' = Head(commands).turn
  /\ UNCHANGED <<outbox, stable, summary, app, window, worker, threads, service, history, kills, faults>>

(* QueueMemoryCheckpoint: an intent, and never twice. *)
QueueCheckpoint ==
  LET t == Head(commands).turn
  IN  /\ Take("queue") /\ Done
      /\ \/ /\ outbox.after # None /\ outbox.state[t] = "absent"
            /\ \E ok \in BOOLEAN :
                 /\ Save(Enqueued(outbox, t), ok)
                 /\ Doubt(IF ok THEN {} ELSE {t})
         \/ /\ outbox.after = None \/ outbox.state[t] # "absent"
            /\ Unchanged /\ UNCHANGED history
      /\ UNCHANGED <<completed, summary, app, window, worker, threads, service, kills>>

(* The window learns that the summary is saved, or gives it up. *)
Settled(t, ok) ==
  /\ window' = IF window.asked # t THEN window
               ELSE [asked |-> None, blocked |-> window.blocked \cup (IF ok THEN {} ELSE {t})]
  /\ Doubt(IF ok THEN {} ELSE {t})

(* save_summary_durable: the immutable file first, then the entry.  A file *)
(* left by an earlier attempt must hold the same text.                     *)
SaveSummary ==
  LET t    == Head(commands).turn
      text == Head(commands).text
      next == IF text = NoMemory THEN "skipped" ELSE "ready"
      fits == text = NoMemory \/ summary[t] \in {None, text}
  IN  /\ Take("save")
      /\ summary' = IF text # NoMemory /\ fits /\ outbox.state[t] = "pending"
                    THEN [summary EXCEPT ![t] = text] ELSE summary
      /\ \/ /\ fits /\ Allowed(t, "pending", next)
            /\ \E ok \in BOOLEAN :
                 /\ Save(Moved(outbox, t, next), ok)
                 /\ Settled(t, ok)
                 /\ IF ok /\ next = "ready" THEN DispatchAgain ELSE Done
         \/ /\ ~(fits /\ Allowed(t, "pending", next))
            /\ Unchanged /\ Settled(t, FALSE) /\ Done
      /\ UNCHANGED <<completed, app, worker, threads, service, kills>>

Attested(t) == worker.attested = t \/ worker.recent

(* DispatchOpenVikingReadyWrite without a fresh attestation: a probe of    *)
(* the service is started, unless one failed lately or no thread can be.   *)
StartPreflight ==
  /\ Take("dispatch") /\ Done
  /\ ~worker.writing /\ worker.probing = None
  /\ Oldest(outbox) # None /\ ~Attested(Oldest(outbox))
  /\ LET spent == [worker EXCEPT !.attested = None, !.recent = FALSE]
     IN  worker' \in IF worker.wait THEN {spent}
                      ELSE { [spent EXCEPT !.probing = Oldest(outbox)], [spent EXCEPT !.wait = TRUE] }
  /\ UNCHANGED <<files, app, window, threads, service, history, kills, faults>>

(* The queue cannot be read just now, or there is nothing to do. *)
IgnoreDispatch ==
  /\ Take("dispatch") /\ Done
  /\ \/ /\ worker.writing \/ worker.probing # None \/ Oldest(outbox) = None
        /\ UNCHANGED faults
     \/ faults < MaxFaults /\ faults' = faults + 1
  /\ UNCHANGED <<completed, outbox, stable, summary, app, window, worker, threads, service, history, kills>>

Claimable(t) ==
  /\ ~worker.writing /\ worker.probing = None
  /\ t # None /\ Attested(t)

(* The attestation is spent, the entry is claimed on disk, and only then   *)
(* the write thread is started.                                            *)
ClaimWrite ==
  LET t == Oldest(outbox)
  IN  /\ Take("dispatch") /\ Done
      /\ Claimable(t)
      /\ \E ok \in BOOLEAN :
           /\ Save(Moved(outbox, t, "dispatched"), ok)
           /\ writer' = IF ok THEN [turn |-> t, phase |-> "create"] ELSE writer
           /\ worker' = [worker EXCEPT !.attested = None, !.writing = ok]
      /\ UNCHANGED <<completed, summary, app, window, reader, service, history, kills>>

(* No thread for a claimed entry: nothing was sent, and it counts as uncertain. *)
SpawnFails ==
  LET t == Oldest(outbox)
  IN  /\ Take("dispatch") /\ Done
      /\ Claimable(t)
      /\ \/ Save(Moved(outbox, t, "uncertain"), TRUE)
         \/ /\ faults < MaxFaults /\ faults' = faults + 1
            /\ outbox' = Moved(outbox, t, "dispatched")
            /\ stable' = outbox'
      /\ worker' = [worker EXCEPT !.attested = None]
      /\ Doubt({t})
      /\ UNCHANGED <<completed, summary, app, window, threads, service, kills>>

PreflightEnds(ok) ==
  LET t == worker.probing
  IN  /\ app = "up" /\ t # None
      /\ Waiting("preflight") = {}
      /\ Posted([kind |-> "preflight", turn |-> t, ok |-> ok])
      /\ UNCHANGED <<files, app, window, worker, threads, service, history, kills, faults>>

RecordPreflight ==
  LET done == Head(commands)
  IN  /\ Take("preflight")
      /\ IF done.ok
         THEN /\ worker' = [worker EXCEPT !.probing = None, !.attested = done.turn,
                                          !.recent = TRUE, !.wait = FALSE]
              /\ DispatchAgain
         ELSE /\ worker' = [worker EXCEPT !.probing = None, !.attested = None,
                                          !.recent = FALSE, !.wait = TRUE]
              /\ Done
      /\ UNCHANGED <<files, app, window, threads, service, history, kills, faults>>

(* Five minutes after an attestation, half an hour after a failed one. *)
Elapse ==
  /\ app = "up"
  /\ \/ worker.recent /\ worker' = [worker EXCEPT !.recent = FALSE]
     \/ worker.wait /\ worker' = [worker EXCEPT !.wait = FALSE]
  /\ UNCHANGED <<files, app, commands, window, threads, service, history, kills, faults>>

RecordOutcome ==
  LET done == Head(commands)
      next == IF done.ok THEN "confirmed" ELSE "uncertain"
  IN  /\ Take("outcome") /\ DispatchAgain
      /\ worker' = [worker EXCEPT !.writing = FALSE]
      /\ \/ /\ Allowed(done.turn, "dispatched", next)
            /\ \E ok \in BOOLEAN : Save(Moved(outbox, done.turn, next), ok)
         \/ /\ ~Allowed(done.turn, "dispatched", next)
            /\ Unchanged
      /\ Doubt(IF done.ok THEN {} ELSE {done.turn})
      /\ UNCHANGED <<completed, summary, app, window, threads, service, kills>>

(* RecordOpenVikingUncertainReadback: a mismatch proves nothing. *)
RecordReadback ==
  LET done == Head(commands)
  IN  /\ Take("readback") /\ Done
      /\ \/ /\ done.ok /\ Allowed(done.turn, "uncertain", "confirmed")
            /\ \E ok \in BOOLEAN : Save(Moved(outbox, done.turn, "confirmed"), ok)
         \/ /\ ~(done.ok /\ Allowed(done.turn, "uncertain", "confirmed"))
            /\ Unchanged
      /\ UNCHANGED <<completed, summary, app, window, worker, threads, service, history, kills>>

(***************************************************************************)
(* The threads and the service.                                            *)
(***************************************************************************)

Reported(kind, t, ok) == Posted([kind |-> kind, turn |-> t, ok |-> ok])

(* deliver_create_once: the only create.  The service stores the text,     *)
(* something else, or nothing, or will only later; and it answers or not.  *)
SendCreate ==
  LET t == writer.turn
  IN  /\ app = "up" /\ writer.phase = "create"
      /\ creates' = [creates EXCEPT ![t] = @ + 1]
      /\ \/ /\ remote[t] = None
            /\ remote' \in { [remote EXCEPT ![t] = x] : x \in {summary[t], Garbled} }
            /\ UNCHANGED late
         \/ late' = late \cup {t} /\ UNCHANGED remote
         \/ UNCHANGED <<remote, late>>
      /\ writer' \in { [writer EXCEPT !.phase = p] : p \in {"reading", "failed"} }
      /\ UNCHANGED <<files, app, commands, window, worker, reader, history, kills, faults>>

(* Mutant: an answer without an error counts as confirmation. *)
TrustAnswer ==
  /\ app = "up" /\ writer.phase \in {"reading", "failed"}
  /\ Reported("outcome", writer.turn, writer.phase = "reading")
  /\ writer' = Quiet
  /\ UNCHANGED <<files, app, window, worker, reader, service, history, kills, faults>>

(* Up to five exact read-backs; a read may fail, and so may all of them. *)
ReadBack ==
  LET t == writer.turn
  IN  /\ app = "up" /\ writer.phase \in {"reading", "failed"}
      /\ \/ writer.phase = "reading" /\ remote[t] = summary[t] /\ Reported("outcome", t, TRUE)
         \/ Reported("outcome", t, FALSE)
      /\ writer' = Quiet
      /\ UNCHANGED <<files, app, window, worker, reader, service, history, kills, faults>>

(* verify_uncertain_read_only, entry by entry. *)
VerifyUncertain ==
  LET t == First(outbox, reader)
  IN  /\ app = "up" /\ reader # {}
      /\ \E ok \in {FALSE, summary[t] # None /\ remote[t] = summary[t]} : Reported("readback", t, ok)
      /\ reader' = reader \ {t}
      /\ UNCHANGED <<files, app, window, worker, writer, service, history, kills, faults>>

ApplyLate(t) ==
  /\ t \in late
  /\ late' = late \ {t}
  /\ remote' = [remote EXCEPT ![t] = IF @ = None THEN summary[t] ELSE @]
  /\ UNCHANGED <<files, memory, creates, history, kills, faults>>

(* The program ends, or the power does: a rename that was not followed by  *)
(* the directory's sync may be undone.                                     *)
Crash ==
  /\ app # "down"
  /\ kills < MaxKills /\ kills' = kills + 1
  /\ \E box \in {outbox, stable} : outbox' = box /\ stable' = box
  /\ app' = "down" /\ commands' = <<>> /\ window' = Idle /\ worker' = Forgetful
  /\ writer' = Quiet /\ reader' = {}
  /\ UNCHANGED <<completed, summary, service, history, faults>>

Window ==
  \/ CompleteTurn \/ SummaryFails \/ Nudge
  \/ \E t \in Turn : AskSummary(t)
  \/ \E text \in Text \cup {NoMemory} : AnswerSummary(text)

Worker ==
  \/ Activate \/ EnqueueMissing \/ RecoverInterrupted
  \/ AppendCompletion \/ QueueCheckpoint \/ SaveSummary
  \/ StartPreflight \/ IgnoreDispatch \/ ClaimWrite \/ SpawnFails
  \/ RecordPreflight \/ RecordOutcome \/ RecordReadback \/ Elapse

Threads ==
  \/ SendCreate \/ ReadBack \/ VerifyUncertain
  \/ \E ok \in BOOLEAN : PreflightEnds(ok)
  \/ \E t \in Turn : ApplyLate(t)

Next == Window \/ Worker \/ Threads \/ Crash

Spec == Init /\ [][Next]_vars
-----------------------------------------------------------------------------
(***************************************************************************)
(* What should hold.                                                       *)
(***************************************************************************)

Command ==
  [kind : {"complete", "queue"}, turn : Turn]
    \cup [kind : {"save"}, turn : Turn, text : Text \cup {NoMemory}]
    \cup [kind : {"dispatch"}]
    \cup [kind : {"preflight", "outcome", "readback"}, turn : Turn, ok : BOOLEAN]

Outbox == [after : Nat \cup {None}, queue : Seq(Turn), state : [Turn -> State]]

TypeOK ==
  /\ completed \in 0..MaxTurn
  /\ \A box \in {outbox, stable} :
       /\ box \in Outbox
       /\ IsInjective(box.queue)
       /\ ToSet(box.queue) = { t \in Turn : box.state[t] # "absent" }
  /\ summary \in [Turn -> Text \cup {None}]
  /\ app \in {"down", "reconciling", "recovering", "up"}
  /\ commands \in Seq(Command)
  /\ window \in [asked : Turn \cup {None}, blocked : SUBSET Turn]
  /\ worker \in [writing : BOOLEAN, probing : Turn \cup {None}, attested : Turn \cup {None},
                 recent : BOOLEAN, wait : BOOLEAN]
  /\ writer \in [turn : Turn \cup {None}, phase : {"none", "create", "reading", "failed"}]
  /\ reader \subseteq ToSet(outbox.queue)
  /\ remote \in [Turn -> Text \cup {None, Garbled}]
  /\ late \subseteq Turn /\ creates \in [Turn -> Nat]
  /\ history \in [base : [Turn -> SUBSET Turn], since : Nat, doubted : SUBSET Turn]
  /\ kills \in 0..MaxKills /\ faults \in 0..MaxFaults

(* A create is sent at most once for a turn, and only for an entry that no *)
(* later start can find claimable again, whatever crashes, however saves   *)
(* of the outbox fail and whatever a power loss undoes.                    *)
CreatedOnce ==
  \A t \in Turn :
    /\ creates[t] <= 1
    /\ creates[t] = 1 => { outbox.state[t], stable.state[t] } \cap {"absent", "pending", "ready"} = {}

(* "confirmed" is said only of a checkpoint the service holds byte for     *)
(* byte, whether the write's own read-back or a later start found it.      *)
ConfirmedIsStored ==
  \A t \in Turn : outbox.state[t] = "confirmed" => summary[t] # None /\ remote[t] = summary[t]

(* No completion after the first start is forgotten: once its commands are *)
(* handled it is in the outbox, although the program may have died between *)
(* the journal and the outbox; and no older completion is exported.        *)
NothingForgotten ==
  faults = 0 /\ app = "up" =>
    { t \in Turn : outbox.state[t] # "absent" } \cup TurnsOf("queue")
      = (history.since + 1)..LastCompleted

(* The memory of a conversation is a chain: a summary builds on every      *)
(* older checkpoint of its conversation that ends up confirmed, unless     *)
(* that one was given up, enqueued late or uncertain in the meantime.      *)
ChainUnbroken ==
  \A t \in Turn : \A u \in Older(t) :
    outbox.state[t] \in {"ready", "dispatched", "confirmed"} /\ outbox.state[u] = "confirmed"
      => u \in history.base[t] \cup history.doubted
=============================================================================
