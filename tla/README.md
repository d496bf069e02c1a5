# Chatarium in TLA+

Chatarium is a local-first desktop client for a language model. Everything it
commits goes through one append-only journal on the user's disk; conversations
supervise one another under allowances the user grants; the model is reached
through a sidecar process that may fail at any time. This directory holds the
TLA+ models of that core, the TLC runs that check them and the TLAPS proofs that
the main properties hold for every value of the constants.

    tlc -config MCJournal.cfg MCJournal      one run; the list is below
    tlapm JournalProofs.tla                  the proofs of one component; so for
                                             the other modules named ...Proofs

## 1. The system

### 1.1 Components

| Component | Source | State it keeps | Operations | Status |
|---|---|---|---|---|
| Journal store | `crates/store/src/lib.rs` | file, events in memory, writer lease | `open`, `open_strict`, `append_scoped`, drop | modelled: `Journal` |
| Worker lifecycle, leases, controls | `crates/core/src/orchestration.rs`, `control.rs`, `routing.rs` | goal and phase of a worker; units of a lease; decision of a route | seven lifecycle actions, admission, authorisation, gate | modelled: `WorkerLifecycle` |
| Controller supervision | `apps/desktop/src/journal_ops.rs` | the projection of the journal | lease, proposal, decision, dispatch, delivery, acknowledgement, status, action, continuation start | modelled for orchestration: `ControlPlane` |
| Audits | `crates/store/src/*_audit.rs` (about 60) | none: replays of the journal | one replay per kind of fact | those of controls, continuations, workers, sessions, local routes, tools, coordination turns and memories |
| Remote turns | `apps/desktop/src/app` | pending and active turn, composer, tool flow | send, dispatch, stream, fail, retry, resume, close, recover | modelled: `RemoteTurn` |
| Persistence worker | `apps/desktop/src/worker/mod.rs` | its command queue | one command at a time, notices | in `RemoteTurn` (queue) and `ControlPlane` (one operation at a time) |
| Sidecar bridge | `apps/desktop/src/siwc_bridge.rs` | channels, child process | send, events, runtime unavailable | in `RemoteTurn` |
| Local routed messages | `local_route_*_audit.rs`, `local_routed_inbox.rs` | the projection of the journal | proposal, payload, decision, dispatch, delivery, context | modelled: `LocalRoute` |
| Tool calls | `tool_*_audit.rs`, `local_stdio_runner.rs`, `local_http_mcp.rs`, `host_shell_mcp.rs` | journal; the window's flow of a turn | register, configure, activate; propose, decide, probe, reserve, carry out, observe, admit | modelled but for settings and sandbox: `ToolCalls` |
| Controller coordination turns | `controller_coordination_*_audit.rs`, `controller_result_*.rs`, `app/actions/workers.rs` | journal; the window's flags | admit, start, dispatch, end, keep, suggest, promote | modelled for one controller: `ControllerTurns` |
| Coordination workspace and wakes | `coordination_workspace.rs`, `coordination_workspace/` | one file, replaced whole; wake of the window | draw, send, decide, meter, grant, stop, claim, wake | modelled but for topology and loading: `Coordination` |
| Local memory | `local_memory_*` | journal; the window's choices | record, admit, supersede, label, choose, send | modelled: `LocalMemory` |
| Remote mirror | `remote_mirror_*`, `remote_health.rs` | queue, cooldown | select, fetch, back off | not modelled (compiled off) |
| Archive | `archive_maintenance.rs` | archive directory, backup package | backup, staged restore | modelled: `ArchiveRestore` |
| SQLite projection | `projection.rs` | disposable index | rebuild | not modelled |
| OpenViking outbox | `openviking_checkpoint_outbox.rs`, `worker/mod.rs` | outbox and summary files | summarise, preflight, claim, write, read back | modelled: `CheckpointOutbox` |
| Import views | `effective_*`, `import_source_quarantine_audit.rs` | view of the journal | quarantine | not modelled |
| Topology | `session_audit.rs`, `chat_container_audit.rs`, `local_conversation_*_audit.rs`, `supervision_audit.rs` | journal | register, contain, claim, address, succeed; bind workers and controllers | the former in `LocalRoute`, the latter constant, see 5 |
| Parsers, rendering, capture tools | `crates/protocol`, `apps/desktop/src/ui`, `browser`, `tools` | none that is shared | | not modelled |

### 1.2 How they interact

The **window** thread owns what the user sees. It sends commands over a channel
to the **persistence worker**, the only user of the journal in the process,
which answers with notices over another channel. The window therefore works on
a *copy* of the journal that lags behind the worker's queue. A third thread pair
talks to the **sidecar** process. The window drains notices, then sidecar
events, at every frame.

A worker command runs one *operation* of `journal_ops.rs`: it replays audits
over the events in memory, checks, and appends up to five events one by one.
Nothing makes those appends atomic; a kill or an I/O error may fall between any
two. At the next start the audits replay every event from the beginning. There
is no way to remove an event: one that an audit refuses makes every later
operation that runs that audit fail.

### 1.3 What is hard, and what must hold

| Component | Hard behaviour | What makes it correct |
|---|---|---|
| Journal | kill or power loss between writes; a second process; a failed write with the handle still in use | acknowledged records survive; memory is the replay of the file; the durable prefix is never rewritten |
| Control plane | an operation cut between appends and asked for again in another world; a decision made about a state that has passed; guards and audits that must agree | every appended event replays; a unit of authority is spent once; nothing unallowed leaves; half-done steps can be finished, and do nothing twice |
| Remote turns | three concurrent actors; failures with an unknown outcome; recovery that may itself be cut short | no request before its record is durable; no blind resubmission; no wait that never ends; a restart settles every turn |
| Local routes | ends that saturate or are succeeded between any two steps; a dispatch whose delivery failed; a window that was not told | a letter leaves only when allowed, arrives once and where it was addressed; a stale route stays stale; what is delivered can be read |
| Tool calls | a call carried out by a thread that dies with the program; consent, provider and session that change while a probe runs | a call is used up before it runs, under authority that holds then, and runs at most once |
| Controller turns | starting and dispatching apart; a budget that drops part of the context; a suggestion promoted from a window that lags behind | the request carries what the start recorded, as far as it fits; a stale suggestion makes no control |
| Coordination | a stop while a wake's start and dispatch travel to the journal and back; a request refused with 429 and sent again later; claims and consumptions that cannot be saved; a rate counted from messages that are deleted | a directive wakes once; after a stop no dispatch of its wake leaves; limit and order of an edge hold |
| Local memory | choices frozen at Send and recorded by a second append, while they are admitted or superseded elsewhere | what leaves was valid at Send, what was chosen for it is what the journal records, and leaves once |
| Archive | a kill or a failure between two renames; a live archive copied without its lease | no acknowledged event disappears; a backup lacks nothing it refers to; the report tells the truth |
| Checkpoint outbox | a create with an unknown outcome, a directory sync that fails after the rename, a service that answers late | one create per turn; confirmed means stored; no completion forgotten |

The full list of hazards, each at its line and with the properties aimed at it,
is in `PROJECT.json`.

## 2. The modules

| Module | Role |
|---|---|
| `AppendOnlyLog` | abstract: a log that grows at its end, a stable prefix, acknowledgements within it |
| `Journal` | the JSON-lines file, byte pieces and newlines, implementing `AppendOnlyLog` |
| `MCJournal` | instance of `Journal` for TLC |
| `JournalProofs` | theorems about `Journal` |
| `WorkerLifecycle` | the pure machine of `crates/core`: phases, actions, admission, authorisation |
| `SupervisedWorkers` | abstract: workers that move by themselves or by a message the user let go, each message once, under units granted once |
| `ControlPlane` | the audited chain from lease to result, implementing `SupervisedWorkers` |
| `MCControlPlane` | instance of `ControlPlane` for TLC |
| `ControlPlaneProofs` | theorems about `ControlPlane` and about `ControllerTurns` |
| `RemoteTurn` | window, persistence worker and sidecar around one conversation's turns |
| `MCRemoteTurn` | instance of `RemoteTurn` for TLC |
| `Mailboxes` | abstract: letters written once, allowed, sent, received at most once, shown to a model |
| `LocalRoute` | sessions, containers, endpoints and the routes between them, implementing `Mailboxes` |
| `RemoteTurnProofs`, `ToolCallsProofs`, `LocalMemoryProofs`, `ArchiveRestoreProofs`, `CheckpointOutboxProofs` | theorems about the module they are named after |
| `LocalRouteProofs` | theorems about `LocalRoute` and about `Coordination` |
| `OneShotCall` | abstract: a call is used up, then runs at most once, then may be settled |
| `ToolCalls` | providers, calls, threads and the flow of a turn, implementing `OneShotCall` |
| `TurnAudits` | the audits of coordination turns as predicates on sets of events, and what is promised of them |
| `ControllerTurns` | coordination turns over admitted worker results, and suggestions promoted to controls |
| `WorkspacePromises` | the edges and messages of a coordination workspace as its operator sees them, and what is promised of them |
| `Coordination` | workers of one container, the edges between them, and wakes |
| `LocalMemory` | memories, the choice for the next request, and what leaves with it |
| `ArchiveRestore` | a program, a backup and a restore over one data directory |
| `CheckpointOutbox` | the window, the worker, its threads and the memory service around the outbox file |
| `MCLocalRoute`, `MCToolCalls`, `MCControllerTurns`, `MCCoordination`, `MCLocalMemory`, `MCArchiveRestore`, `MCCheckpointOutbox` | their instances for TLC |

Operators named "Mutant" in a comment are broken variants of the definition
after them; they are not part of any specification and serve to show that a
property can fail. `ControlPlane` extends `WorkerLifecycle`, `ControllerTurns`
extends `TurnAudits` and `Coordination` extends `WorkspacePromises`; `Journal`,
`ControlPlane`, `LocalRoute` and `ToolCalls` instantiate their abstract
specifications. `ControlPlaneProofs` reaches `ControllerTurns`, and
`LocalRouteProofs` reaches `Coordination`, by a named instance (`Turns!`,
`Space!`): the controls a coordination turn leads to, and the workers a route
joins, are those of the first half of the module. All modules but `ArchiveRestore` stand on what `Journal`
provides: an append is all or nothing and durable on return. (That this stops being so
after a failed write is the first finding.)

### 2.1 Journal

`lines` and `tail` are the file cut at newlines; a record is two pieces, so a
write can stop inside it. `synced` is the number of durable lines. Each process
moves through `phase`: `closed`, `leased`, `ready`, then `record`, `newline`,
`sync` for the three calls of `append_scoped`.

| Action | Code |
|---|---|
| `AcquireLease` | the exclusive SQLite lease taken by `open_internal` before it looks at the file |
| `RepairTornTail` | lenient open: `set_len` to the last newline and `sync_data` |
| `RefuseOpen`, `Load` | strict refusal, replay failure; replay success |
| `BeginAppend`, `WriteRecord`, `WriteNewline`, `SyncAndReturn` | `append_scoped`, one system call each |
| `AppendFails` | any of those returns an error; the handle stays in use |
| `Close`, `Crash`, `PowerLoss` | drop, kill (page cache survives), power loss (any suffix of the unsynced bytes is lost) |

### 2.2 Control plane

One record per worker, lease, permit and control is what the audits project.
A control and its route are one record, because the program binds them one to
one; `stage` is how far its chain of events has come:

    admitted - issued - proposed - bound - dispatched - delivered - acknowledged
      then  reported                (status request)
            started - moved - done  (start or resume, stop)
            executed                (continue)

`op` names the operation that is between two appends; no other operation can
run then, and `Crash` ends it there. Every appending action has the operation's
guard as its conjuncts and, separately, `Judge(Accepts...)`: what the replaying
audits demand of that event. `replays` remembers whether they were ever
unsatisfied. Guard and audit are translated from different files, and that they
agree in every reachable state, interruptions included, is `JournalReplays`.

| Actions | Code |
|---|---|
| `AssignGoal`, `Transition` | `append_worker_goal_checked`, `append_worker_transition_checked` |
| `CreateLease` | `append_controller_continuation_lease_checked` |
| `IssuePermit`, `AdmitControl`, `AdmitContinue`, `BindIssuer`, `ProposeRoute`, `BindRoute` | `append_controller_worker_control_proposal_checked`, append by append |
| `Decide` | `append_controller_control_route_decision_checked` |
| `DispatchRoute`, `RecordDelivery` | `append_controller_control_dispatch_checked` |
| `Acknowledge`, `ReportStatus`, `StartExecution` | the worker's operations of one append |
| `StartAction`, `MoveWorker`, `FinishAction` | `append_worker_control_action_checked` |

The code compares `worker.last_sequence` with the start of an action; the model
keeps the answer (`overtaken`) instead of sequence numbers.

### 2.3 Remote turns

`trail[t]` is the durable evidence of a turn; `queue` and `notices` are the two
channels of the worker; `sending`, `pending`, `active` and `flow` are
`commit_in_flight` with its frozen intent, `pending_remote_turn`,
`active_remote_turn` and `agent_mcp_flow`. `bridge` is `connected`, `dead` (the
sidecar is gone and the window has not noticed) or `off`. `serving` is the
sidecar's own set of requests. `unanswered` counts submissions of a turn that
saw no completion and exists for the properties only.

| Actions | Code |
|---|---|
| `Send`, `DispatchExecution`, `ResumeAfterTool`, `Connect` | the user: composer, continuation button, tool outcome admitted, sign-in |
| `PersistCommit`, `PersistEvidence`, `PersistResult`, `PersistFails` | the worker's loop for `CommitMessage` and `AppendTurnEvent` |
| `NoticeCommitted`, `SubmitPending`, `SubmitRefused`, `NoticeOther`, `NoticeError` | the window's handling of notices |
| `Output`, `Complete`, `RateLimited`, `FailDefinitely`, `FailUnknown`, `AnswerInVain`, `NoticeSidecarDead` | `process_remote_notices` |
| `Resubmit` | `process_due_delivery_retry` |
| `Close`, `Closed`, `Crash`, `Start`, `StartCutShort`, `Open` | drop of the window, shutdown of the worker, kill, `recover_interrupted_remote_turns` whole or in part, first frame |

### 2.4 Local routes

`session` is the sequence of registered sessions with their container, phase and
endpoint; `home` gives each conversation its container; a route is one record
with the endpoints it was proposed for, the conversations its payload names, the
latest decision, how far it has come and the sessions its delivery names. `op`
and `Judge(Accepts...)` are as in the control plane. `unseen` names the events
that were appended by an operation that then failed: the window is told of the
failure alone, and its copy lacks them until the next start.

| Actions | Code |
|---|---|
| `RegisterRoot`, `CreateContainer`, `BindContainer` | `append_local_orchestration_topology_checked`, append by append |
| `BindEndpoint` | `append_current_session_route_endpoint_checked` |
| `MoveSession`, `RegisterSession`, `Succeed` | the store's records of a phase change, a registration and a succession |
| `Propose`, `AttachPayload`, `Decide` | `append_local_session_route_proposal_checked`, `append_local_route_payload_checked`, `append_local_route_user_decision_checked` |
| `Dispatch`, `Deliver` | `append_local_route_dispatch_and_delivery_checked`, append by append, resumed by `Deliver` |
| `DecideContext` | `append_local_route_context_decision_checked`, from the inbox the window shows |
| `AppendFails`, `Restart` | an append fails between two; the process is killed or ends, and starts |

In the modules below that keep the events of a part of the journal as a
sequence, an audit is a predicate on a set of event numbers. One set stands for
the journal, another for the window's copy, and the numbers before an event for
the prefix its replay sees, so that one definition serves the operation, the
window and the audit itself.

### 2.5 Tool calls

`journal` holds what the tool audits replay; `queue` and `notices` are the
channels; `probing`, `running` and `reporting` are the threads between their
start and what they hand back; `pending` and `flow` are `tool_command_pending`
and `agent_mcp_flow`; `missed` is what the window's copy lacks. `Plan` gives the
events one command appends, and `Serve` may stop after any prefix of them.

| Actions | Code |
|---|---|
| `UserAsks`, `ModelAsks`, `Stop` | the tool panels and composer; `propose_agent_mcp_call`; "Stop MCP continuation" |
| `Serve` | the tool commands of `run_persistence_worker` with their `append_..._checked` |
| `ProbeSucceeds`, `ProbeFails`, `CarryOut`, `Report`, `Panic` | the preflight and call threads and what the worker makes of their end |
| `Hear` | `apply_tool_proposals_notice`, `apply_tool_outcomes_notice`, `apply_failures_notice` |
| `BeginTurn`, `ModelEnds`, `RollOver`, `Restart` | the turn; a succession of the session; a start |

### 2.6 Controller coordination turns

`queue`, `notices`, `known` and `busy` are the window's half as above, `busy`
one flag per kind of command. `flight` is the window's remote turn as far as it
is this one's; `ending` says that an ending was appended and its result not yet:
the second append of `AppendTurnEvent`. `asked` is history. `Dispatch` composes the
request as `compose_bounded` does: all that was frozen where it fits the budget
(`fits`), any part of it where it does not, because a worker's result is not one of
the mandatory sources (`context_composer/plan.rs:139`).

| Actions | Code |
|---|---|
| `UserAsks` | the controller panel: admit, exclude, start, keep, drop, suggest, promote |
| `Serve` | the `append_controller_..._checked` operations; a promotion is a control, its route and its record, and may stop in between |
| `Dispatch`, `Hear`, `Answer`, `SidecarEnds`, `Displaced` | `dispatch_controller_coordination` and what becomes of its request |
| `ServeTurn`, `RecordResult` | `AppendTurnEvent` and `append_controller_coordination_result_if_terminal` |
| `TakeGoal`, `BringResult` | the worker's next goal; the result of one of its controls |
| `Restart` | a start, with the recovery of the turn that was cut off |

### 2.7 Coordination workspace

A message keeps its status, the age of its delivery and why it is as it is;
`Tick` ages deliveries. `queue` holds the turn events between their request and
their notice. `saved` says whether `save_atomic` succeeds.

| Actions | Code |
|---|---|
| `SetLink`, `SendMessage`, `Decide`, `DeleteMessage`, `Grant`, `Stop` | the operator's panels; `send`, `approve`, `delete_message`, `grant_wake_lease`, `stop_wake` |
| `AdvanceQueues`, `Claim` | what every frame does: `advance_rate_queues`, `maybe_wake_open_coordination_worker` |
| `NoticeStarted`, `SendRequest`, `WithholdRequest`, `NoticeEnded` ... | `apply_durable_notice`, `dispatch_durable_coordination_wake`, `finish_durable_coordination_wake` |
| `RateLimited`, `Resubmit` | the 429 branch of `process_remote_notices`; `process_due_delivery_retry`, which looks at no claim, and gives the turn up without an event if the bridge does not take it |
| `CommitMessage`, `EndTurn`, `ContinueTurn`, `Restart` | a message of the user's; the turn's end or its next request; a start |

### 2.8 Local memory

`selected` is what is chosen for the next request of each conversation,
`sending` what `Send` froze. `Serve` appends the message and then the record of
its memories; the second append may fail alone. `HearCommit` composes the request:
over the budget it loses any part of the admitted memories, as `compose_bounded`
drops them one by one, but none of those chosen for it, which are mandatory.

### 2.9 Archive

A directory is `Absent`, `Bare` or a journal with its companions. The program,
the backup and the restore take their steps one file or one rename at a time;
`Kill` ends any of them. `lease` is the writer's, which the restore takes too
and the backup does not.

### 2.10 Checkpoint outbox

`outbox` is the file as it reads now and `stable` as it reads after a power
loss: `Save` renames the file into place and syncs the directory, either of
which may fail. `worker` is the thread's memory between commands, `writer` and
`reader` are the threads it starts, `remote` and `late` the service.

## 3. What is checked

| Run | Instance | States | Properties |
|---|---|---|---|
| `journal` | 2 processes, 2 values, 3 lines, 2 I/O errors | 0.29 M | `AckedDurable`, `HandleAgrees`, `AckedBytesOnDisk`, `DurablePrefixKept`, `ImplementsLog` |
| `control_plane` | 1 worker, 2 goals, 2 leases, allowance up to 2, 2 controls | 1.45 M | `JournalReplays`, `OneLiveAuthority`, `PermitsSpentOnce`, `NothingSentUnallowed`, `InterruptedStepsFinish`, `UntouchedSinceStart`, `KeepsPromise` |
| `remote_turns` | 1 message, 1 continuation, 2 dispatches each, 1 retry, 1 I/O error, 2 restarts | 1.7 M | `LocalCommitGate`, `NoBlindResend`, `ResultIsFirstEnding`, `StartSettlesReplayable` |
| `remote_waits` | 1 message, 1 continuation, fairness | 43 k | `WaitsEnd` |
| `local_routes` | 2 symmetric conversations, 3 sessions, 2 routes | 0.41 M | `JournalReplays`, `AddressesUnique`, `ArrivesAsAddressed`, `KeepsPromise` |
| `archive` | 2 events, 1 companion, 1 restore, 1 fault, 1 kill | 0.26 M | `NothingDestroyed`, `BackupIsSelfContained`, `ReportIsTrue` |
| `outbox` | 2 turns of a conversation, 2 texts, 2 kills, 1 failing save | 0.65 M | `CreatedOnce`, `ConfirmedIsStored`, `NothingForgotten`, `ChainUnbroken` |
| `coordination` | 2 workers, 1 edge, 2 messages, 1 wake, 1 retry, 1 restart | 1.7 M | `RateKept`, `FifoKept`, `WokenOnce`, `StoppedNotDispatched` |
| `tool_calls` | 3 tools (builtin, shell, sandboxed), 1 call, 2 sessions, 1 fault | 0.86 M | `AuthorisedWhenUsed`, `OneShot` |
| `local_memory` | 2 conversations, 2 memories, 4 changes, 2 messages, 2 faults | 4.9 M | `SentAsRecorded`, `ValidWhenSent`, `ChoicesSendable`, `OncePerChoice` |
| `controller_turns` | 1 result, 2 goals, 3 decisions, 1 turn of 2 rounds, 2 controls, 1 fault | 1.0 M | `CarriesTheFrozen`, `StaleMakesNoControl` |
| `coordination_wakes` | an armed worker and one directive, fairness | | `WakesHappen`, violated: section 6 |

Kept beside the runs, for questions that need an instance of their own or a
property that says the code does otherwise; each is run as the ones above:

| Configuration | What it shows |
|---|---|
| `MCControlPlaneTwo` | two workers side by side (1.3 M states) |
| `MCRemoteTurnTwo` | two messages and a continuation displace one another (2.5 M) |
| `MCControllerTurnsTwo` | two results, of which a turn freezes either or both (1.8 M) |
| `MCJournalGlued`, `MCRemoteTurnStart`, `MCRemoteTurnServed`, `MCLocalRouteInbox`, `MCArchiveRestoreAtomic`, `MCToolCallsStop`, `MCControllerTurnsReadable`, `MCCoordinationStopped` | the smallest instances that show the disagreements of section 6; each ends in a counterexample |

Every module has a `TypeOK`, which states the types of its variables and holds
on the same instances; those of the modules with proofs are theorems, but that of
`ToolCalls`, whose proofs need less of the types.

### 3.1 What the runs show

* **Journal.** Whatever is killed and whenever power is lost, until a write or
  sync first fails an append that returned is whole on its durable line, an open
  handle is exactly the replay of the file, and the whole behaves as an
  append-only log. After failed writes two things remain: durable bytes are never
  rewritten, and the bytes of every acknowledged record stay at the end of some
  line. One run checks both: `AckedDurable`, `HandleAgrees`
  and `ImplementsLog` say themselves that they are about the time before.
* **Control plane.** No operation, interrupted anywhere and resumed in any
  later state, appends an event its audits refuse. A goal has one source of
  further continuation at a time; a unit of an allowance feeds one control of
  its own worker and goal; nothing is dispatched that the user had not allowed,
  and a dispatch freezes the decision it rests on. Steps left half done by an
  interruption can be taken up, and a worker is moved once per message: the
  chain refines `SupervisedWorkers`.
* **Remote turns.** No request leaves before its message and its dispatch are
  durable; a request that failed, or whose outcome is unknown, is not repeated
  in any session; a wait of the composer or of a pending turn always has its
  notice on the way and, with fair polling, ends; a continuation's result is its
  first ending; a start settles every turn the audit can still replay, also
  after starts that were cut short.
* **Local routes.** No operation appends an event its audits refuse, whatever
  was cut short before and whatever became of the sessions. An endpoint means one
  session for good, so a route cannot come to mean another conversation; once
  an end is succeeded or saturated the route is over, dispatched or not. What
  is delivered was allowed, names the sessions the user addressed, and is shown
  to a model only while admitted: routing refines `Mailboxes`.
* **Tool calls.** When a call is used up, the consent, provider, policy and
  session it rests on hold at that moment, whatever changed while its probe ran.
  Used up comes before carried out, a thread that panics or dies with the program
  leaves its call unsettled rather than repeated, and an outcome is that of the
  run it names: the chain refines `OneShotCall`.
* **Controller turns.** The request of a turn carries no result but those its
  start recorded, and every one of them where it fits the context budget, at whatever
  later time it leaves and however the admissions changed in between. A suggestion
  rests on one of them, and its turn has asked. A suggestion whose worker has since taken another goal
  becomes no control, nor one that was promoted a second, though the window that
  promotes it may not know.
* **Coordination.** By itself an edge with a limit delivers only while no more
  than the limit were delivered within the window, whatever was deleted or released
  by hand meanwhile, and delivers in order; a directive wakes its worker at most
  once; once the operator has stopped a wake no dispatch of it lets a request leave,
  even when the stop falls between its start and its dispatch or cannot be saved. A
  request that left before the stop and was refused with 429 does leave again:
  finding 9.
* **Local memory.** The memories for one request that a request carries are those
  recorded for its message, all of them; of the ones admitted to its conversation it
  carries all where it fits the context budget, and none that was excluded or
  superseded when the user pressed Send; a choice feeds one request; and no choice becomes
  one that cannot be sent.
* **Archive.** No restore, killed or failing anywhere, destroys an acknowledged
  event: it is in one of the directories. A backup that reports success holds
  every file its journal refers to, though it copies beside a running program;
  what a restore that failed says of the original is so.
* **Checkpoint outbox.** A turn's summary is created at most once at the
  service, kills and lost answers included; what the outbox calls confirmed is
  stored there byte for byte; no completion since the first start is forgotten, and
  no older one exported; a summary builds on the confirmed ones before it.

### 3.2 The bounds

* *Journal*: two processes are enough to race for the lease and the third line
  to append after a reopened and repaired journal. Values distinguish records.
* *Control plane*: two controls allow two started actions of one worker to be
  interrupted and resumed in either order, or a continue beside a stop; two
  goals and two leases allow authority to survive its goal; an allowance of two
  allows a second unit. `MCControlPlaneTwo` gives up the second goal and lease
  for a second worker.
* *Remote turns*: two dispatches are a turn and its resumption after a tool (the
  code allows a fixed number of calls); one retry is the 429 path (the code
  allows `MAX_RATE_LIMIT_RETRIES`); two restarts allow a recovery cut short and
  its repetition. With one message a commit and a continuation already
  overlap; `MCRemoteTurnTwo` lets three turns displace one another.
* *Local routes*: two conversations are the two ends of a route; the third
  session is a successor of either, or one left over by an operation that was
  cut short; two routes overlap on the same ends, before and after a succession.
* *Tool calls*: the three tools are the three ways a call is carried out besides
  HTTP, which takes the thread's way: by the worker itself, by a thread under a
  saved policy, by a sandboxed process after a probe. One call meets every change
  of provider, consent and session a second one would; `MCToolCallsStop` has two
  calls of a turn. A second activation, consent and session are the changes.
* *Controller turns*: a second goal makes a result stale; three decisions admit
  it, exclude it and keep the turn's own; two rounds are a start whose dispatch is
  late and another after a failure; two pending commands let the window's copy
  lag. `MCControllerTurnsTwo` gives the turn two results to choose from.
* *Coordination*: two messages on one edge are enough to exceed a limit of one
  and to be out of order; one wake of an allowance of one can be claimed, stopped,
  sent, and asked for again; one resubmission is the 429 path, as above; one restart
  finds a claim left over.
* *Local memory*: four changes are the recording and admission of a second
  memory, its superseding the first, and one more; two messages are a choice used
  and the next one; the second conversation is where a choice may have been made.
* *Archive*: the second event may refer to a file written after the backup has
  read the journal; one kill and one failing rename fall at every step.
* *Checkpoint outbox*: two turns of a conversation form a chain; two kills allow
  an interrupted recovery of an interrupted create.

All names that begin with `Max` are bounds of the models, but `MaxDispatches` and
`MaxRetries`, which stand for limits the code has, as `Limit` (calls of a turn),
`PerRequest` (memories of a request), `ReadLimit` (read-backs), `Window` and
`Allowance` (an edge's rate, a lease's wakes) do. `MaxControls` and the like bound
what the user and the model ask for; `MaxFaults`, `MaxKills` and `MaxRestarts`
what fails. `CHECK_DEADLOCK FALSE` appears where the system really may stop: in
`RemoteTurn` a program that is down may stay down, and in `LocalRoute` and the
modules after it what is left at the end is for the user to ask for, who has
used up the bounds.

### 3.3 Fairness

`RemoteTurn!FairSpec` assumes weak fairness of the persistence
worker's step and of the window's handling of notices. Both are loops over a
channel (`while let Ok(command) = commands.recv()`; `process_notices` at every
frame, and `ui/mod.rs:91` asks for another frame while something is pending).
`Coordination!FairSpec` assumes weak fairness of `Claim` alone, which every
frame attempts (`maybe_wake_open_coordination_worker`).
Nothing is assumed of the user, the sidecar or the network, nor that a program
that is down is started. `ControlPlane` states no liveness: each further step of
a control is a click of the user's, so what it states instead is that the step
is *possible* (`InterruptedStepsFinish`).

## 4. What is proved

All proofs hold for every value of the constants that satisfies the modules'
assumptions: natural bounds, and special values that are none of the others (in
the theorems about `Coordination`, `CoordinationAssumption` is a hypothesis). So
what `MaxRestores` or `MaxKills` is, or how many turns, conversations or
companions there are, no longer matters. Each module has one inductive
invariant, `IInv` (`Inductive`; `TurnsInv` and `SpaceInv` for the two that are
instances), which TLC checked on the small instances, and each theorem below
follows from it. Where the code looks for the first, last
or next of something, the proof finds it as a least element of a set of numbers.

**`JournalProofs`.** `TypeCorrect`, `AckedIsDurable`, `HandleIsReplay`,
`DurablePrefixIsKept` follow from one inductive invariant, and so does
`JournalImplementsLog`: every step up to the first failed write or sync maps to a
step of the log or to a stutter. The properties
alone are not inductive: that an acknowledged record survives a repair depends
on who may write (at most the lease holder is past `leased`), on what the tail
can be in each phase (nothing, part of the pending record, or all of it), on the
pending number being the next line's, and on `synced` never passing the lines
that are whole. The invariant says that, and one step per action shows it kept.
The refinement maps each action to `Extend`, `Stabilise`, `Lose` or a stutter.
`AckedBytesStay` covers what happens after a failed write too: `BytesInv` says that
the record a process has written is the end of the tail, whatever is in front of
it, until its newline closes the line.

**`ControlPlaneProofs`.** `Inductive` is one invariant for the theorems about `ControlPlane`:

* `TypeOK`, with the clause that a started control is a mutating one;
* `UntouchedSinceStart` and `NothingSentUnallowed`, inductive with it;
* permits name leases that exist, and `PermitsSpentOnce`;
* during a proposal the control is as fresh as when it was admitted, because no
  other operation can run (`ProposalFresh`): this is what makes the last audit
  of the proposal accept;
* leases name a goal not after their worker's (`LeasesFollowGoals`), so that a
  new goal starts without authority; with it, `OneLiveAuthority`;
* `replays = TRUE`, for which each appending action shows that its guard implies
  what the audit asks.

`EveryEventReplays`, `UnitsAreSpentOnce`, `OnlyAllowedIsSent`,
`StartsAreUntouched` and `AuthorityIsSingle` follow, and `WhatIsSentStaysSent`,
whose property `SentIsFinal` no run lists: it was checked before it was proved.
`InterruptedMovesStayOpen` is what `InterruptedStepsFinish` says of an interrupted
action, without `ENABLED`: a start recorded a phase its control was admissible in
(`StartsAdmitted`), nothing has moved the worker since, and a control of that kind
is admissible only in phases the lifecycle moves from. So what `MoveWorker` asks
of control and worker, and the audit of the move, hold. `RecordDelivery`
and `FinishAction` ask for nothing beside the stage.

`SupervisionKeepsPromise` is the refinement of `SupervisedWorkers`. Three sets of its
mapping are functions of the controls, so the proof first shows that no step changes
whom a control is for or which unit it carries (`AllAlike`): the sets then change with
the stage of one control only, and one lemma each says how when nothing is seen
(`NothingToSee`), when a control is dispatched (`OneIsSent`) and when it has its effect
(`OneHasItsEffect`). A dispatch maps to `Send`, and the unit it takes is a granted and
fresh one because an ordinal is issued once (`PermitsSpentOnce`) and no lease issues
more than its allowance (`LeaseBounds`, one more invariant); a report, a move and the
start of a continuation map to `Effect`; a goal or transition of the worker's own to
`Own`; a new lease to `Grant`; every other step, a crash among them, to a stutter.

The second half is about the coordination turns: `RequestsCarryTheFrozen` and
`StaleSuggestionsMakeNoControl`, for any results, actions, turns, rounds and
failing appends. The window composes a request and promotes a suggestion from
a copy that lags behind the journal, and what it asks for is served later.
`TurnsInv` (`TurnsInductive`) says

* `NumberInv`: suggestions and starts are numbered, each number once, so that the
  event a number names stays what it was however the journal grows;
* `ControlInv`: a control follows the suggestion it is for, carries its goal and
  action, and precedes its promotion. A promotion looks at the goal again, in the
  step that appends, and a promoted suggestion is not promoted a second time;
* `WindowInv`: what the window knows, and what is on its way to it, is in the journal;
* `FlightInv`: a turn in flight holds part of what its own start froze, and all of it
  where it fits (`Fitted`);
* `AskedInv`: so did every request; a turn is reported completed, or recorded as ended
  so, only after a request of it;
* `BasisInv`: a suggestion rests on a result frozen for its turn, which has asked.

That a suggestion rests on a result the request *carried* cannot be shown, because over
the budget it is not so (section 6).

`NewEvent` says what a step may append, as a relation between the journal before and
each event: every step is shown to append such events and no others (`Writes`), and
the invariants of the journal are kept by any such step.

**`RemoteTurnProofs`.** `CommitBeforeDispatch`, `NoSecondSubmission`,
`FirstEndingRecorded` and `StartsSettle`. What makes them hard is that the window acts
on what it has been told, and the journal is ahead of that:

* `GateInv`: a queued dispatch is a continuation's or a committed message's, and a
  notice tells only of what is durable;
* `SeenInv`: the notices of a turn, counted from the back of the channel, tell of
  the last places of its trail, one by one (`Place`). So a notice of a dispatch is
  about *that* dispatch, and the ones the window has not heard of come after it;
* `ResendInv`: a turn that is being sent, is pending, or waits for a tool has no
  unanswered request, and these exclude one another; a continuation that has one is
  one whose dispatch the window knows. This is why a late notice of an old dispatch
  cannot submit a turn again;
* for a result, that a replayable trail has one ending, its first, and that whatever
  is appended later leaves it there; for a start, that recovery appends an ending to
  every trail that lacks one and a result to each that ended.

**`LocalRouteProofs`.** `AddressesMeanOneThing`, `AuditsAccept`, `DeliveredWhereAddressed`,
`OverForGood` and the refinement `PromiseKept`.

* `SessionInv`, `HomeInv`: a container is rooted in itself, settled containers are
  conversations', and one still being settled is nobody's;
* `EndpointInv`: endpoint numbers have no gap, so the next free one is new, although
  it is computed from the greatest one in sight;
* `RouteInv`: what was allowed or sent was written, between settled conversations.

Every step is classified once, as a growth of the directory, a settling, an
addressing, a move, a succession or a change of one route, and the invariants are
shown for each class. That the audits accept a delivery, which they judge
in another prefix than its operation did, comes from ends that are current
being the ones the route was written between. `OverForGood`, whose property
`StaleIsFinal` no run lists, needs that a retired session stays retired and an
endpoint its session's.

The second half is about the coordination workspace: `WorkspaceRateKept`,
`WorkspaceFifoKept`, `WorkspaceWokenOnce`, `WorkspaceStoppedNotDispatched` and
`WorkspaceTyped`, for any workers, edges, policies, allowances and retries. `SpaceInv`
(`WorkspaceInductive`) says

* `LinkInv`, `MessageInv`: edges carry policies, and what is remembered of a delivery
  is the age the code computes;
* `ClaimInv`: a lease claims directives to its own worker, the active one among them;
* `SlotInv`, `WakeInv`: a wake that is being started, pending or active is of a claimed
  directive, and no other turn of it runs while its start is being journaled;
* `QueueInv`: at most one message is on its way into the journal, that of `sending`;
* `AskedInv`: a directive whose wake has asked stays claimed, so it is not claimed again,
  and its first request is neither being started nor pending;
* `HaltInv`: a stopped directive stays claimed, and while its claim is still the open one
  its worker is not armed. A dispatch of a wake lets a request leave only under an open
  claim and for an armed worker, and what a retry sends again has left before; a stop that could not be saved leaves the claim open, but then no grant
  arms the worker, because a grant is refused while a claim is open;
* `CountInv`: the counters keep their bounds.

For `RateKept` and `FifoKept` a step sends one message, runs the queues of every edge
(`AdvanceQueues`), or delivers nothing by itself. The queues are where a count is needed: of the
messages waiting on an edge, those are delivered that have fewer before them (`Ahead`)
than there is room, so the last of them, with all before it and all that are recent,
are still no more than the limit.

**`ArchiveRestoreProofs`.** `NothingLost`, `WriterStays`, `PackagesAreWhole`,
`PromiseInstalled`, `ReportsAreTrue`, for a program, a backup and a restore that are
killed or fail anywhere, on systems that replace an empty directory by `rename` and
on those that do not (`ReplacesBare`).

* `LeaseInv`: who has the lease, and that between the renames there is no archive;
* `OriginalInv`: in between, the original is the latest safety copy, and without a
  fault a rollback is reached only if it cannot succeed;
* `StagedInv`: staging holds the promised journal, then its companions, and is sound
  from the audit on, whatever becomes of the package;
* `AckInv`, `LenInv`: events are numbered; no directory has a longer journal than was
  acknowledged, so what is appended is new to all of them;
* `HealthInv`, `CopyInv`: every directory has the companions its events need, and so
  has what a backup copied, because companions only grow while it copies.

**`CheckpointOutboxProofs`.** `CreatesHappenOnce`, `ConfirmationsAreTrue`,
`CompletionsAreKept`, `ChainsHold`, for any number of turns, kills and failing saves.
Each save of the outbox is shown to be an edit of at most one entry along the
permitted transitions, or the recovery of a start, of which a fault or a power loss
may keep the old file (`FileSteps`); each step of the channel is a number of commands
taken from its front and added at its end (`Shifted`).

* `WriterInv`: the write thread, or the outcome it left in the channel, keeps the
  worker from claiming another entry;
* `CreateInv`: what was or is about to be created is past `ready` in the file as it
  is and in the file a power loss would leave;
* `StoreInv`: a success on its way to the worker is one of a text that is stored;
* `FileInv`, `QueueInv`, `KnownInv`: completions wait in order and without a gap, each
  in front of its intent, and what is neither in the outbox nor on its way was lost to
  a failing save;
* `FaultInv`: without one the two forms of the file agree;
* `DoubtInv`, `ChainInv`: what was given up or is uncertain is remembered as such, and
  a written summary builds on every older turn of its conversation that is not.

**`ToolCallsProofs`.** `CallsAreAuthorised` and the refinement `CallsAreOneShot`, for any
tools, policies, saved consents and sessions, with threads and the program failing
anywhere.

* `ChannelInv`: commands are those the window and the threads send, and a notice tells
  of entries that are in the journal;
* `EntryInv`: a call is recorded with its tool, under a number the worker can count on
  from;
* `OrderInv`: a call is recorded before it is used up, and used up before it has an
  outcome;
* `RanInv`: a call that is being carried out was used up and has not been carried out;
  one with an outcome, or with one on its way, has.

Every append is a prefix of the plan of one command. `Further` classifies them all: one
call moves on by one stage, or none does. So a step of the worker maps to `Open`,
`Spend`, `Settle` or `Answer`, a step of a thread to `Act`, and the rest to stutters; that a
call is authorised where it is used up follows from what its command checked in the
same step, and not from what the window or the probe saw.

**`LocalMemoryProofs`.** `RecordedIsSent`, `NothingStaleLeaves`, `ChoicesStaySendable`
and the action property `ChoicesUsedOnce`, for any conversations, memories and messages.
The window acts on a copy with gaps: what it has not heard of may lie between events it
knows.

* `NewsInv`: what it has not heard of is on its way in the order of the journal, after
  all it knows, and only a failed message can be kept from it. So of the memories it
  knows exactly what the journal says up to its last event (`KnownIsPrefix`);
* `FlightInv`: one message at a time is in the queue or among the notices, and what the
  journal gives to its turn is in the news of its notice;
* `FrozenInv`: what Send froze is all that was in force at that event, and stays so
  however the journal grows, since only events about memories matter (`SameMemories`, `PrefixStays`);
* `AskedInv`, `ChoiceInv`: the properties themselves, with the choices among those made
  since the program started. `OneMore` shows that an event about one memory spoils
  no choice of another.

**Only model-checked.** Liveness (`WaitsEnd`, `WakesHappen`) and `ENABLED`
(`InterruptedStepsFinish`) are beyond the prover. Every other property a passing
run checks is stated by a theorem.

## 5. Abstractions

* Payloads, scopes, identifiers and timestamps are reduced to what the
  properties tell apart. Identifiers are positions in a sequence, as the code
  allocates the highest plus one.
* The topology (which session is which worker's, who supervises whom) is
  constant in `ControlPlane`: the program binds each once, and never records the
  successor of a worker's session.
* In `LocalRoute` a container is named by its root session and a payload by its
  route, which it is one to one with; its text is left out. Tool providers' endpoints
  come from the same numbers and are left out. Phase changes and successions are
  recorded by functions of the store that the audits replay and the tests call;
  no command of the desktop calls them yet, and the model lets them happen at
  any time between operations.
* In `ControlPlane` an append is atomic and durable; its parts are `Journal`'s.
  A failed append is the same as a kill between two appends, since the operation
  returns.
* In `RemoteTurn` snapshots after the first change nothing that is modelled, and
  the sidecar's answers are handled as they are produced: an answer that waits
  in the channel is the same as an answer that comes later, and what died with
  the sidecar before it was drained was never observed.
* In `RemoteTurn` a turn that a tool interrupts is resumed with the same
  identity; how the call is approved and carried out is `ToolCalls`. Coordination
  turns and wakes, whose transport obeys the same rules as a continuation's, are
  in `ControllerTurns` and `Coordination`. Capability probes, sign-out while
  connected and switching conversations are left out.
* *Tool calls.* A tool has a provider of its own and a route is named by its
  call. The window's copy is the journal without `missed`; what a copy with gaps
  makes of later replays is not modelled (it is for local routes, section 6).
  Limits on sizes are a nondeterministic `MayDecline`. Only a stdio provider is
  registered by hand. Left out: changing a setting, the second look at the
  automatic policy, the home a model's proposal may create, the readiness of the
  sandbox's host, and the tools of the coordination workspace.
* *Controller turns.* One controller with one worker; the worker's phase and
  leases, the session and its designation appear as `MayDecline`. A result carries
  the goal its worker had when it was recorded. A promoted route is still to be
  allowed by the user; from there `ControlPlane` takes over. The transport answers
  as in `RemoteTurn`, where recovery that is cut short is modelled too.
* *Coordination.* Containers, members and edges are constant; the caps on claims
  (256), on the inbox shown to a model (12 messages, 6000 bytes) and the tool
  budget are left out, and so are a clock that steps and a file that does not load.
  A retry is due at any later time, and the code's `MAX_RATE_LIMIT_RETRIES` is
  `MaxRetries`.
  The passing run sets `PrecheckNeedsClaim = FALSE`, which drops one guard of
  `Claim`: everything the code can do remains possible, so its safety properties
  are the code's, and they are about wakes that do happen, as they would once
  finding 5 is mended.
* *The context budget.* Sizes are left out: whether a request fits is chosen anew for
  each (`fits`), and so is what is left of the sources that are not mandatory when it
  does not. The code keeps the newest first, as long as each still fits; the models
  allow any selection, so what they show holds for the code's. A request whose mandatory sources alone do not fit
  does not leave.
* *Local memory.* A memory has one label. Failing appends leave nothing behind
  (`Journal` has the rest). Whether the remote is idle, and which turns displace
  which, is `RemoteTurn`'s; here a request may be found too large and not leave, or leave with less.
  A message whose second append fails stays in the draft and may be committed
  again; a choice is frozen at Send, so excluding a memory after it, even if
  the exclusion is queued before the commit is served, does not keep it from leaving.
* *Archive.* The replays that a check runs are the other modules': a check is
  whether every file the journal refers to is there. The lease file that moves with
  a directory is not followed.
* *Checkpoint outbox.* A turn has one completion worth keeping; a notice is
  applied within the worker's step; closing the program is a kill. The limit on
  the number of items is left out. A summary file left by a failed transition is
  taken up only by the same text, and a broken one at the head of the queue blocks
  those behind it; both are in the model and violate nothing that is promised.

**Not modelled**, and why: the remote mirror is compiled off
(`ACCOUNT_MIRRORING_ENABLED` in `main.rs:81`); the SQLite projection and the import
views are functions of the journal without state of their own that lasts;
supervision and worker bindings are made once; parsers, rendering and the tools
outside the program share no state with it. The last are a large part of the
source and fit tests better than a model.

## 6. Disagreements found

Each counterexample is found by the configuration named; that of 5 is a run, the
others are kept beside the runs.

1. **A failed append spoils the next one** (`MCJournalGlued`). `append_scoped`
   (`crates/store/src/lib.rs:318`) leaves what it wrote when a write fails and
   the persistence worker keeps the store. The next append succeeds on the same
   line: "exactly one newline-terminated JSON record" no longer holds, and the
   journal cannot be opened again. It takes a write error that is not followed
   by a restart, such as a disk that was full for a moment.
2. **A continuation that fails after output disables recovery**
   (`MCRemoteTurnStart`). The window reports two endings, `RemoteFailureObserved`
   and `TransportInterrupted` (`remote_events.rs:474`); the replay of continuations
   rejects an observation after an ending, and the audit fails as a whole. Every
   later start reports a warning and settles no turn of any kind. The run shows
   it with one continuation; a continuation resumed after a tool ("multiple
   dispatch attempts") has the same effect, and so has a coordination turn.
3. **A send to a channel whose sidecar was given up** (`MCRemoteTurnServed`). The
   commit of a message, or the outcome of a tool, makes its turn pending without
   looking at the connection again. Between the sidecar's exit and the closing
   of the channel the send succeeds, after the failure has already been noticed
   and forgotten: the turn is active until a restart, and blocks every other.
4. **A delivery without its dispatch** (`MCLocalRouteInbox`). When the append of a
   delivery fails after that of its dispatch, the window learns of neither; the
   retry delivers, and tells it of the delivery alone (`journal_ops.rs:562`). The
   replay of the window's copy then fails: the inbox of every conversation shows
   "projection blocked" and the composer refuses to send until a restart, where
   `docs/LOCAL_ORCHESTRATION_IDENTITY.md:305` promises that "successfully delivered
   payloads now project into a read-only routed inbox". It takes a failed append that
   leaves no fragment behind; with one, the first finding comes on top.
5. **An armed worker is never woken** (the run `coordination_wakes`). Before it
   claims, `maybe_wake_open_coordination_worker` (`coordination.rs:108`) builds an
   envelope, which demands the claim (`wake.rs:62`). With that guard dropped
   `WakesHappen` holds.
6. **A stopped turn calls again** (`MCToolCallsStop`). "Stop MCP continuation"
   while the model is at work clears the flow, and with it the count of calls and
   the answer "no"; when the model asks for the next tool it is proposed as the
   first of a new flow (`remote_events.rs:362`), where the composer says "Stop
   requesting new model/tool steps." (`ui/composer.rs:300`).
7. **A suggestion without text** (`MCControllerTurnsReadable`). A coordination turn
   may complete with blank text; the panel offers "Suggest" all the same
   (`controller.rs:1460`), the operation appends it (`journal_ops.rs:3095`), and
   its audit then fails with "has no durable output text"
   (`controller_coordination_suggestion_audit.rs:322`): no suggestion of any
   controller can be read or made again, and the archive check refuses the journal.
8. **A restore is not one step** (`MCArchiveRestoreAtomic`). Killed between the two
   renames it leaves no live archive; the old one and the candidate are beside it
   (`NothingDestroyed`), but the next start creates an empty one.
9. **A stopped wake asks again** (`MCCoordinationStopped`). A request refused with 429
   before any output stays in the window with a time to send it again
   (`remote_events.rs:445`), and when that has come `process_due_delivery_retry`
   (`inference.rs:5`) sends the same command without a look at the claim, though the
   operator may have stopped the wake since its dispatch. `docs/COORDINATION_WORKSPACE.md:46`
   says that a stop "invalidates an outstanding claim without refunding it or
   retrying that message", and that it "blocks future starts and dispatches not yet
   sent, not a remote request already on the wire"; a request that was refused is no
   longer on the wire. The comment at the stop, "a stop must immediately block
   dispatch" (`ui/sidebar.rs:219`), holds of dispatches only. `StoppedStaysStopped`
   states what the document says, `StoppedNotDispatched` what is true of the code.

Read off the code while modelling, without a property of their own:

* A failure reported as "host shell ..." matches none of the prefixes of
  `failures.rs:34`, so `tool_command_pending` stays set and the tool panels stay
  disabled until a restart (`Frees` in `ToolCalls`).
* "Future per-turn tool-call limit" (`ui/sidebar/advanced/tools.rs:110`) starts
  again after a Stop and after each operation on the coordination workspace.
* A provider whose name is that of a known one, configured as a process but
  dispatched over HTTP, makes `replay_unresolved_external_tool_dispatches` fail.
* A claim that leaks (its save fails at the wrong moment) stays active; after a
  restart a new grant is refused and `stop_wake` has nothing to reach it with. So does
  the claim of a wake whose resubmission the bridge refuses: the turn is dropped
  without an event (`inference.rs:26`), and nothing closes the claim.
* Over the context budget of 128 KiB `compose_bounded` drops an admitted memory or a
  result frozen for a coordination turn (`context_composer/plan.rs:207`) and the request
  leaves. The dispatch's manifest records the omission, but a suggestion may still be
  made on the result: its audit asks that the start froze it
  (`controller_coordination_suggestion_audit.rs:310`), not that the model saw it.
* `matches_ready` does not look at the age that the comment beside its use speaks
  of (`worker/mod.rs:306`).
* A promotion cut short between its control and its record can be made again: two
  controls of one suggestion, each still to be allowed by the user.
* A tool's outcome displaces the turn that is active by then, and a message commit
  displaces a pending continuation. Both leave a turn that only the next start
  settles (checked: it does).

## 7. Plan

Modelled and checked: `Journal`, `ControlPlane`, `RemoteTurn`, `LocalRoute`,
`ToolCalls`, `ControllerTurns`, `Coordination`, `LocalMemory`, `ArchiveRestore`,
`CheckpointOutbox`. Proved: every property of theirs that a passing run checks, but
those named at the end of section 4. What is left, in this order:

1. Compositions. `ToolCalls` with `RemoteTurn` in place of its `flow`; the lag of
   the window's copy, which five modules describe for themselves, as one module.
2. Operations left out: settings and the host's readiness in `ToolCalls`, topology
   and the tools of the model in `Coordination`, supervision bindings.
3. `RemoteMirror` if the feature is compiled in; `Projection` and the import views.
