# Verification of MindRoom

MindRoom (`src/src/mindroom`) runs AI agents in Matrix rooms.  Every agent is a
Matrix account (a *principal*) with its own durable event journal, and its
correctness rests on one promise: **an event that reaches an agent produces at
most one visible answer, and an answer that was owed is not lost**, through
crashes, re-logins, lost responses, redactions, and leaving and rejoining rooms.
This directory holds TLA+ models of the code behind that promise, the TLC runs
that check them on small instances and the TLAPS proofs about them.

## 1. The system

| Part | Code | State | Operations |
|---|---|---|---|
| Durable ingestion | `matrix/durable_ingestion.py`, `event_journal/journal.py` | nio's batches, ingestion position | commit a batch, accept it, replay it |
| Event journal | `event_journal/journal.py`, `store.py` | `journal_events` (pending/settled rows, receipt order, membership epoch) | admit, page through pending, settle, depart/rejoin |
| Projection | `event_journal/projection.py`, `reads.py` | `visible_messages`, `unresolved_edits`, `redaction_tombstones`, hydration and refresh tokens | fold originals, edits and redactions; refetch; hydrate |
| Pending-event worker | `pending_event_worker.py`, `journal_dispatch.py` | lanes, deferred events, cooldowns | discover, dispatch, defer, rewind, drain |
| Ingress and coalescing | `ingress_lanes.py`, `coalescing*.py`, `turn_controller.py`, `text_ingress_dispatch.py` | receipt slots, gates, timers | claim, resolve, enter a lane, coalesce, dispatch |
| Response lifecycle | `response_lifecycle.py`, `response_runner.py`, `response_admission.py`, `stop.py` | conversation locks, queued notices | admit, run, interrupt, stop |
| Turn records | `event_journal/turn_records.py`, `turn_record.py`, `turn_store.py`, `handled_turns.py` | `turn_records`, claims | claim, merge, commit terminal, redact |
| Approvals | `event_journal/approvals.py`, `approval_continuations.py`, `approval_*.py` | continuations, cards, grants | pause, publish, decide, expire, resume, settle |
| Delivery outbox | `event_journal/outbox.py`, `identity.py` | `matrix_delivery_outbox` | enqueue, claim, record device, acknowledge, fail, retire |
| Delivery worker | `matrix_delivery.py`, parts of `delivery_gateway.py` | per-delivery locks | deliver, flush, recover |
| Deleted-source cleanup | `response_delivery_recovery.py` | none of its own | remove the placeholder of a deleted request |
| Membership fence | `event_journal/membership_state.py`, `journal.py` | `room_membership` | claim, advance, reopen |
| History recovery | `history_recovery.py`, `matrix/` readers | `room_history_recovery`, `conversation_hydration` | record loss, hydrate, refetch |
| Interactive questions | `interactive.py`, `event_journal/interactive_questions.py` | prompts, selections | ask, select, consume |
| Scheduling | `scheduling*.py` | task state in room state events | schedule, fire, cancel |
| Configuration and orchestration | `config_reload.py`, `orchestrator.py`, `orchestration/` | running bots | plan, restart, retry |
| Everything else | `tools/`, `knowledge/`, `memory/`, `mcp*/`, `oauth/`, `api/`, `cli/`, `desktop/`, `frontend/` ... | – | integrations and user interfaces |

How they meet.  nio hands a sync batch to the journal, which admits its events,
projects them and commits the sync position in one transaction.  The
pending-event worker offers unsettled events, one lane per room, to the
dispatcher.  A message is claimed, takes a slot in the lane of its sender, waits
in the coalescing gate of its conversation and becomes part of a turn, which runs
under the lock of the conversation.  A turn may pause on tool calls that a person
must approve; the pause then owns the source event until the run is resumed.  The
answer is handed to the delivery worker, whose enqueue transaction also settles
the sources of the turn.  From then on the outbox owes the answer.  The worker
sends it, and the acknowledgement transaction binds the row to the event, writes
the turn record and projects the event.  The account leaving the room cuts
through all of this: the fence advances the membership epoch, drops what was
derived, retires what was never attempted and settles what was pending, and
every writer first claims the membership row.

What is hard: the homeserver's answer is separate from every local commit; the
transaction ID that makes a resend harmless is remembered per device only; the
fence, a second process and a redaction can commit between any two awaits of a
turn; recovery and live delivery share rows; an event is passed from journal to
worker to lane to gate to turn, each with its own memory of who owns it; a pause
outlives the process that made it.  `PROJECT.json` lists the hazards line by line
with the properties that cover them.

## 2. The modules

| Module | Models | Used by |
|---|---|---|
| `Outbox` | the rows of `matrix_delivery_outbox` and each transaction on them, as functions from the table to the table (`event_journal/outbox.py`) | `MatrixDelivery` |
| `MatrixDelivery` | the delivery worker, deleted-source cleanup, the membership fence and the homeserver around those rows | `MCMatrixDelivery` |
| `AnswerOnce` | what the delivery machinery promises about an answer, without rows, claims, devices or processes | `MatrixDelivery` (as `Shared` and `Sole`) |
| `Projection` | the projection of one room (`event_journal/projection.py`) as functions from view to view | `Conversation` |
| `Conversation` | sync admission, hydration, gap recovery, point refetch and the fence around that projection | `MCConversation` |
| `PendingEvents` | durable ingestion, the pending-event worker and the dispatcher | `MCPendingEvents` |
| `Ingress` | from the handler of an event through lane, gate and batch to the response under the conversation lock | `MCIngress` |
| `Approvals` | a turn that pauses on tool calls: continuation, cards, decisions, resumption, settlement | `MCApprovals` |
| `Questions` | a prompt with options, its edits, and the one answer that may take each: snapshot, claim, barrier | `MCQuestions` |
| `*_proofs` | lemmas and theorems about the module they are named after | – |

`Outbox` and `Projection` hold no state.  Each of their operators is the body of
one database transaction, so an action of the state machine that uses one is
atomic, and every `await` outside a transaction is a boundary between actions.
In `PendingEvents` the worker's memory is one record, and the synchronous methods
of the worker are operators from memory to memory that the actions compose.
Operators whose comment begins "A plausible bug" are mutations of the definition
that follows them; no specification uses them.

### Delivery

A delivery is a turn and a stage, INITIAL (the placeholder) or FINAL (the
answer); the transaction ID is a function of the two.  `rows` is the table.
`task[p][t]` is the flush that process `p` has under way for turn `t`: the
per-delivery lock admits one, and the program counter names the next await of
`_flush`.

| Code | Action |
|---|---|
| `MatrixDeliveryWorker.deliver` (enqueue transaction with the source handoff) | `Deliver` |
| `recover`, `recover_deliveries` | `Recover`, `RecoverDeleted` |
| cleanup hook at the head of `_flush` | `CheckDeleted`, then the `Clean...` actions |
| claim transaction, blocked FINAL and its unblocking | `ClaimStep`, `Done` |
| epoch and device reconciliation against the room | `CheckEpoch`, `ReconcileStale`, `ReconcileDevice`, `Resolve` |
| the scan meets its page bound or an event it cannot decrypt | `ScanRefused` |
| device stamp, send, permanent refusal, lost answer | `StampDevice`, `SendAnswered`, `SendRefused`, `SendLost` |
| `acknowledge_matrix_delivery` (row, record and projection in one commit) | `AcknowledgeStep` |
| `record_permanent_failure`, `retire` | `FailStep`, `RetireStep` |
| `_advance_membership_epoch`, reopening | `Depart`, `Rejoin` |
| admission of a source, of its redaction, the redaction callback | `Admit`, `DeleteSource`, `MarkRedacted` |
| exceptions, shutdown, process death, re-login | `Raise`, `Crash` |

The homeserver is external: `room[e]` is what a device's transaction produced.
It accepts a transaction ID once per device and the answer may be lost.

The scan that looks for an earlier copy in the room's history reads ten pages at most
and raises when it meets the bound, or an event of its own account that it cannot
decrypt, before a copy (`room_history_reads.py:80-95,302-314`).  Unlike a call that
fails it does so on every later pass as well.  `Bury` puts a turn's deliveries into
`buried`, where a scan need not reach them: it may still find a copy that is near enough
(`Resolve`), it may refuse (`ScanRefused`), and it never reports that there is none.

`AnswerOnce` is the promise to the rest of the system.  A turn's answer is handed
over once, is `owed`, and becomes `delivered`, `refused` or `withdrawn`; it is
`delivered` only if the homeserver has it.  The refinement mapping reads the phase
off the FINAL row (`PhaseOf`) and `posted` off the room.  `Shared` is the promise
any number of processes keep; `Sole` is the stronger one of a single process, where
an outcome is final, nothing visible is withdrawn and every owed answer reaches an
outcome, or is from some point on `stuck`: only a refused scan could tell what became of
it, or of the placeholder it waits for.

Abstractions.  There is one room.  The coalesced sources of a turn share one status.  A
payload is an opaque value, so truncation and segmentation are a refusal or not;
a refusal after the first segment was accepted leaves the event visible
(`SendRefused`).  A request in flight when a process dies is decided at that
moment, and the server's memory of transaction IDs does not expire, as the
contract document assumes.  The query that picks the owning row in `enqueue` has a
limit and no order, so any row may be picked.  An answer edits the acknowledged
placeholder of its own turn; the code edits whatever event the request names
(`delivery_gateway.py:1437`), which on these paths is that one.  The room read that precedes an
acknowledgement may be stale (`Observed`).  The statements of the cleanup check
are one step, and so is the claim of a blocked answer with the load that follows it.

### Conversation

`view` is the projection of one room: visible rows with revision, body, refresh
token and membership epoch, the held edits, and the tombstones.  The text of a
revision is the identity of its event, so a wrong text is a wrong event.

| Code | Action |
|---|---|
| `admit` of a sync event with its `project`; an event without readable content | `Admit`, `Ignore` |
| `_apply_ingestion_disposition` of a history loss | `LoseHistory` |
| `_advance_membership_epoch`, the membership effect of a rejoin | `Depart`, `Join`, `Rejoin` |
| `ensure_hydrated` | `Ensure`, `CheckStands` |
| `_hydrate`: epoch, walk, chunks, marker | `ReadEpoch`, `Fetch`, `InstallItem`, `Mark` |
| `_repair`: recheck, epoch, walk, pages, settlement | `Recheck`, `ReadEpoch`, `Fetch`, `InstallItem`, `Settle` |
| strict read that refetches | `ReadDebt`, `FetchOriginal`, `FetchRelations`, `InstallStep`, `Drop` |
| failing request, cancellation, process death | `WalkFails`, `RefetchFails` |

The homeserver's timeline only grows.  Sync delivers it in order, or in any order
like a server that backfills, and may skip a part for good, in which case it says
so.  Every walk and every refetch interleaves with sync and with the others at
each await.

Abstractions.  There is one conversation, the room timeline; thread walks are not
modelled.  A chunk or page holds one event, and a larger one is a run of those steps
without interleaving.  The place where a walk stops (prompt window, ceilings) is
any index, and a walk that reaches index 0 need not have learnt that the room
ends there.  An item redacted after a walk began is seen in either form, and the
redacted form of an encrypted event projects to nothing.  The retry loop of
`ensure_hydrated` is a succession of `Ensure` steps.  What was not delivered when
the account rejoins is not delivered any more.

### Pending events

An event is its receipt order.  `state` is its journal row, `w` the memory of the
worker, `owner` the claim a live turn has on it.

| Code | Action |
|---|---|
| commit of a batch, its hooks, its acceptance by nio; a failing commit | `AdmitBatch`, `AckBatch`, `IngestFails` |
| the pump: wake, scan of pages, failure, retry timer | `PumpWakes`, `PumpReads`, `PumpFails`, `RetryTimer` |
| a room's lane: page, pending check, callback, settlement, failure | `LaneReads`, `LaneGetsPage`, `LaneChecks`, `LaneAdmits`, `CallbackSettles`, `CallbackDefers`, `LaneSettles`, `LaneFails`, `LaneFinished` |
| cooldown of a failed room | `CooldownEnds`, `RoomRetryFinished` |
| the periodic probe of deferrals | `DeferralScan` |
| `drain_once` | `DrainStarts`, `DrainReads`, `DrainRoom` |
| a turn that takes the event and answers, ignores, retries, vanishes, reports late, pauses | `TurnClaims`, `TurnAnswers`, `ReleaseDelivered`, `TurnIgnores`, `SettleIgnored`, `SettleIgnoredFails`, `DropClaim`, `TurnRetries`, `TurnVanishes`, `LateHandoff`, `TurnPauses`, `ApprovalDecides` |
| shutdown, cancelled lanes, restart, death | `BeginShutdown`, `LaneCancelled`, `Restart`, `Crash` |

A page is the set of events it still holds, and a lane works on the oldest of them,
as the query orders them by receipt.  `ProbeOldest` is one turn of the probe for lost
owners: the oldest deferral goes to the back of the queue, or back to its room.  The
streams satisfy `InReceiptOrder`: the journal numbers a row as it inserts it
(AUTOINCREMENT) and an event that is delivered again keeps its number, so what a batch
admits for the first time is later than all that earlier batches admitted.

Abstractions.  A callback is its outcome; what a turn does is in `Ingress` and
`Approvals`.  Cooldowns are "sleeping" or over.  The replay receipts of an ingestion
session are a position in the stream, and a batch is repeated until it is accepted.

### Ingress

`pc[s]` is the handler of event `s`, `lanes` the receipt slots of each sender,
`gates` the queue and drain task of each conversation and owner, `turns` the
batches dispatched, `locks` the order of the responses of each conversation.

| Code | Action |
|---|---|
| the journal offers again what nobody holds any more | `Reoffer` |
| precheck, live claim of the turn, second look under the claim | `Precheck`, `ClaimLive`, `ClaimAgain` |
| resolution: submission, consumed events, commands, failure | `Submit`, `Consume`, `Command`, `ResolveFails` |
| readiness task of a voice message | `VoiceReady` |
| the lane delivers its oldest loaded slot; settlement of an ignored one | `Lane`, `SettleIgnored` |
| drain loop of a gate: debounce, wait for lanes, capacity, claim of a front run | `Iterate`, `Debounce`, `LanesSettled`, `RootFree`, `Dispatched` |
| dispatch of a batch: claim swap, plan, lock, answer, failure | `StartTurn`, `Ignore`, `Route`, `Respond`, `Begin`, `Acquire`, `Finish`, `TurnFails` |

Abstractions.  Who should answer is an outcome of the plan (`Ignore`, `Route`,
`Respond`).  Time is the order of receipt and the freedom of the debounce timer.
Of a payload only its kind, thread, sender and the original it relays are kept; a relay
may be offered together with that original.  The journal's probe for lost owners is the
subject of `PendingEvents`; here it is the one step `Reoffer`, guarded by what the probe asks
(`HasLiveOwner`).

### Approvals

`cont` is the continuation row of one turn, `told` its decisions, `card` the card of
each call with its terminal edit, `run` the runner under the response lock and
`woken` whether the agent's worker has been asked to look.

| Code | Action |
|---|---|
| creation with the pause, refusal, leased publication | `Create`, `CreateRefused`, `Publish`, `Published`, `CannotPublish`, `PublicationFails` |
| a click, a deadline, the sweep | `Click`, `Deadline`, `SweepExpires` |
| delivery of cards and of their terminal edits | `SendCard`, `AckCard`, `SendEdit`, `AckEdit`, `RetireCard` |
| a click on a card the journal has not acknowledged | `BindOnClick` |
| worker pass, load, claim, recovery of an older process's pause | `WorkerPass`, `Load`, `Claim`, `Unauthorized`, `OwnedWaiting`, `OwnedStarted` |
| execution, answer, next pause, failure | `RunTools`, `Answer`, `PauseAgain`, `RunFails` |
| failure request and its fence, note, settlement, finish | `Fence`, `Settle`, `SettlementFails`, `Deliver`, `SendFinal`, `AckFinal`, `RefuseFinal`, `Finish` |
| stop, discarding of a removed owner's pause | `Stop`, `Discard` |
| departures of router and agent, removal of the agent, death | `RouterLeaves`, `RouterReturns`, `AgentLeaves`, `Remove`, `Crash` |

A process that comes back as another device has to find in the room what was under way
when the last one died.  It may not: the scan is bounded, and a card that still asks is not
even sent again after a scan that found nothing, as it might then ask twice
(`approval_manager.py:524`).  `lost` holds the attempts a crash leaves in that situation.  No
step resends, edits or acknowledges a lost card, until somebody clicks on it in the room and
so binds it (`BindOnClick`).

Abstractions.  The outbox rows of cards and of the answer are reduced to how far
they got and whether they are lost; which scans find what is nondeterministic here.  For
text deliveries `MatrixDelivery` has the way there; the worker of cards differs from it in
not resending after a miss, which is what `lost` stands for.  `runs` is a history of what
each execution of a call was told.  The lease is the number of the process that
holds it.

### Questions

A revision is its place in the order of timestamps, and `Of` names its message.
`question` is what the projection recorded of each revision ("open", or the answer
that took it), `choice` the revision frozen for each answer, `visible`, `owes` and
`tombs` the part of the projection that decides which revision is shown.

| Code | Action |
|---|---|
| the outbox row of a prompt or edit: enqueue and claim, acknowledgement with its projection, refusal or retirement | `Ask`, `Acknowledge`, `Refuse` |
| `project` with `record_projected_prompt` for an echo | `Echo` |
| `_project_redaction`, `install_refetched_revision`, `drop_refetched_message` | `AdmitRedaction`, `Refetch` |
| `_snapshot_interactive_source` in the admission of an answer | `AdmitAnswer` |
| `DeliveryProjectionPendingError`, `_wait_for_delivery_projection` | `Barrier`, `Retry` |
| `_schedule_delivery_recovery`, the end of a pass | `ScheduleRecovery`, `PassEnds` |
| `claim_reaction`, `claim_text`; a reaction for the hooks or a digit that is only a message; a claimed reaction whose prompt is gone | `Claim`, `Pass`, `Ignore` |
| the run of a selection ends, or fails and its source is offered again | `Finish`, `Fail` |
| departure, rejoining, death | `Depart`, `Rejoin`, `Crash` |

`Accept`, `Answer` and `Redact` are the homeserver and the people in the room.

Abstractions.  There is one room and one thread, and every answer is of a person
the agent may answer.  A refetch reads and installs in one step (the conditional
UPDATE it ends with is the subject of `Conversation`).  A row is attempted as it is
enqueued, since nobody can see a prompt before its first attempt.  Whether an option
fits a revision is the constant `Fits`.  `asked`, `acted` and `outran` are histories.

## 3. The runs

| Run | Instance | Checks |
|---|---|---|
| `restart` | 1 process, 2 devices, 2 payloads, 1 departure; echo, delete, refuse | `TypeOK`, `RoomShowsRow`, `OneCopy`, `RetiredIsInvisible`, `PlaceholderCare` |
| `shared` | 2 processes, 2 devices, 1 departure | `RecordNamesAnswer`, `OneMembershipPerTurn`, `TranscriptIsCurrent`, `HandoffKeepsOwner`, `OutcomeIsStable`, `NoAttemptAfterFence`, `ImplementsShared` |
| `recovery` | 1 process that re-logs in, redacted sources, echoes, a history that a scan need not reach the end of, 1 departure | `DebtIsDischarged`, `PlaceholderIsRemoved`, `ImplementsSole` |
| `refetch` | 1 message, 2 own edits and a foreign one, 2 readers, any order, 1 departure | `TypeOK`, `DeletedIsGone`, `HeldAwaitsMessage`, `NewestStands`, `DebtIsRepaired` |
| `walks` | 2 messages (one unreadable), the bot and a strict export, 1 revision of a gap | `CompleteMissesNothing`, `CoverageGrows`, `ReadsAreServed` |
| `agree` | 1 message, 1 edit, both redactable, one walker, one reader, any order, a gap or a departure | `ReadMatchesServer` |
| `pending` | 2 events of 1 room, one turn-backed: 1 batch and 1 page with 1 trouble, or pages of 1 row and a batch that repeats and redacts | `PendingInv`, `SettledForever`, `ReceiptOrder`, `RerunsArePaced`, `EveryEventSettles` |
| `ingress` | nine mixes of 2 or 3 events by 1 or 2 senders, 1 root at a time | `IngressInv`, `AnsweredOnce`, `BurstInOrder`, `EveryoneServed` |
| `approvals` | one pause on 2 calls or two pauses on 1 call, 2 troubles | `ApprovalsInv`, `RunsOnce`, `RunsAsShown`, `EveryPauseSettles`, `CardsAreRetired` |
| `questions` | 3 revisions of 2 messages of which 2 are posted, a reaction and a digit, 1 departure, 2 troubles | `QuestionsInv`, `EveryAnswerSettles` |
| `shadow`, `reuse` | see section 6 | violated |

`PendingInv`, `IngressInv`, `ApprovalsInv` and `QuestionsInv` are conjunctions of named parts that
are meant to be read one by one:

* `PendingInv`: types, `DeferralsAreCounted` (the bookkeeping that the worker's
  dictionary lookups rely on) and `AckedIsJournaled` (nio forgets only what the
  journal has).
* `IngressInv`: types, `RootsBounded`, `HeldIsOwned` (no claim or announcement outlives
  its work), `WorkIsClaimed` (no await finds work without its claim) and
  `NothingStranded` (a deferred event is in somebody's hands, unless another turn has
  answered what it relays).
* `ApprovalsInv`: types, `SourceIsOwned` (the turn or its continuation, never both or
  none), `CardIsAnswerable` (a card that asks is one whose answer counts) and
  `AnswerIsKept` (an answer that was frozen is not turned into a failure).
* `QuestionsInv`: types, `ChosenOnce` (one answer per revision and one revision per
  answer), `ActsAsAsked` (what is acted upon is what the answer was about when it was
  received, in one membership), `ChoicesAreLive` (no frozen choice on a prompt that is
  gone or taken) and `PromptComesFirst` (no answer is admitted before the prompt it saw).

What the properties say, in the order of the hazards they answer:

* *A second copy.*  A crash before the acknowledgement, a new device and a lost
  answer do not make a delivery visible twice (`OneCopy`).  It is stated for one
  process only: two processes that share a database and send as different devices
  can both be accepted, which the code's comments admit.  For any number of
  processes the row and the record still agree (`RoomShowsRow`,
  `RecordNamesAnswer`, `OutcomeIsStable`) and `AnswerOnce` is implemented
  (`ImplementsShared`, with one process `ImplementsSole`).
* *A second answer.*  No message is answered twice, under its own name or as two
  relays of one original (`AnsweredOnce`); no tool call runs twice, whichever process
  resumes the run (`RunsOnce`), and it runs as the card in the room says
  (`RunsAsShown`); a prompt is acted upon for one answer (`ChosenOnce`).
* *Something taken back too much or too little.*  A retired row is not in the room
  (`RetiredIsInvisible`).  A placeholder does not surface under a finished answer, and
  cleanup spares the ones an answer edits (`PlaceholderCare`) and removes the others
  that the room's tombstones list (`PlaceholderIsRemoved`).  An answer that was frozen is
  not turned into a failure (`AnswerIsKept`).
* *The departure between two awaits.*  `NoAttemptAfterFence`,
  `OneMembershipPerTurn`, `TranscriptIsCurrent`, `HandoffKeepsOwner`.
* *Order.*  Events of a room start in receipt order (`ReceiptOrder`), a burst speaks
  in the order it was received (`BurstInOrder`), and an answer waits until the prompt it
  may be about is projected (`PromptComesFirst`).
* *An event lost between two owners.*  nio forgets only what the journal has
  (`AckedIsJournaled`), nothing settled returns (`SettledForever`), the backlog of
  admitted events empties again and again (`EveryEventSettles`; the streams are finite, so
  every event is settled), and every message served (`EveryoneServed`), every
  pause ended (`EveryPauseSettles`) and every answer to a prompt, the ones the barrier
  holds back included (`EveryAnswerSettles`).
* *Debt for ever, and hot loops.*  `DebtIsDischarged`, `DebtIsRepaired`, `ReadsAreServed`,
  `CardsAreRetired`, `RerunsArePaced`.
* *Stale truth.*  Deleted text does not come back (`DeletedIsGone`), a slow refetch
  does not undo a newer edit (`NewestStands`), held edits are collected by the
  right author (`HeldAwaitsMessage`), a complete conversation lacks nothing
  (`CompleteMissesNothing`) and reads as the server's (`ReadMatchesServer`), and
  the narrower of two walks does not unsay the wider (`CoverageGrows`).

**Bounds.**

* *Delivery.*  One turn has both stages, which is all that ever interact: turns share
  only the membership row.  Two devices and two processes are enough for every race
  between a row and its copies.  One departure (`MaxEpoch`) separates two memberships,
  and the theorems of section 5 hold for any number.  `recovery` leaves out refusals, which
  only end a debt sooner; with them it passes as well, and so it does with a process that
  cannot name its device (`Nameless`), in four to five minutes each.  The theorems hold for
  any `Nameless`.  Turns of hooks, which the journal never admits, are in no run; the
  theorems cover them.
* *Conversation.*  One message with two edits gives every order of original, edit,
  newer edit and redaction; two messages let a gap lose one and keep another.
  `MaxGaps` bounds the revision of a recorded gap.  The state constraint
  `GapOrDeparture` of `agree` keeps a gap and a departure apart, because the two together
  are finding `reuse`.
* *Pending events.*  The troubles of a workload are failures, turns that do not answer,
  drains, restarts and crashes; one of any kind in any place of an otherwise fair run
  already reaches the interplay of two mechanisms.  The workload with troubles has both
  events on one page; the other has a page per event, so that cursors, resumption and
  the limit of pages per pass matter, and no troubles, to keep liveness in reach.
* *Ingress.*  Each mix (`MCIngress`) brings together the mechanisms its name says: relays
  of one original, a relay that fails and is retried, an original with two relays of it, an
  original with one where either fails, uploads and a thread on one of them,
  a thread several people join, a room that is one conversation, threads and a command,
  and a voice message that may fail.  `MaxRoots = 1` puts the limit in reach of two
  roots.
* *Approvals.*  Two calls decide together or in two generations, and two troubles allow
  a failure during the recovery from another.
* *Questions.*  A prompt, its edit and a second prompt, of which `MaxAsked` = 2 are posted,
  give every pair of revisions; a reaction and a digit compete for the same one.  Two
  troubles are what a claimed reaction needs to lose its prompt (a redaction and a failed run).

Symmetry is used only for payloads, devices and processes, and never in a
run with a liveness property.

Deadlock is checked except in `refetch`, `pending`, `ingress` and `approvals`, where the
bounded world comes to rest: the stream is at its end, every
event is done and no trouble is left.  That nothing stops *before* that is what their
liveness properties say.

## 4. Fairness

*Delivery* (`MatrixDelivery!FairSpec`).  From some point on calls are answered and
processes stay up (`<>[][Undisturbed]_vars`): nothing in the code can discharge a
debt against a server that never answers.  A flush once started runs to its end
(weak fairness of `Progress`): a task awaits its flush and cancellation does not
abandon it.  Recovery runs after every sync response and goes through all
unacknowledged rows, so a row that is owed again and again is reached, although
the lock of its turn may be taken at times: strong fairness of `Recover` and
`RecoverDeleted`.  Nothing is assumed of the users, the sync stream or new turns.

*Conversation* (`Conversation!FairSpec`).  There is no background worker: a debt is
repaired by the read that meets it.  The assumption is that reads recur, that a
request under way goes on (weak fairness of `Walking` and `Refetching`), and that
from some point on there are no further gaps or failures.

*Pending events* (`PendingEvents!FairSpec`).  The event loop runs every task that can
go on, timers fire, a process that stopped is started again and a turn ends.  Troubles
are bounded and have no fairness.  For the pump, the drain and the lanes the assumption
is stated of their trace, as "is at rest again and again, or moves again and again",
which is weak fairness of the task whichever of its steps is next.

*Ingress* (`Ingress!FairSpec`).  Weak fairness of every handler, lane, gate, readiness task,
settlement and turn: each is a task of the event loop of its own, debounce windows
pass, and calls return.  The same of `Reoffer`: the pump probes the deferrals on every pass and on
its retry timer.

*Approvals* (`Approvals!FairSpec`).  The runner goes on, the worker looks once it is woken, the
pass over unavailable owners is retried with backoff, deadlines pass and are swept, and the
homeserver answers a member.  Nothing is assumed of a delivery that is lost, since no step of the
code ends it.  Nobody is assumed to click, to rejoin or to come back.

*Questions* (`Questions!FairSpec`).  The pump and the dispatch of each answer go on while they
can, and a recovery pass ends (weak fairness).  Every pass asks the homeserver for every
unacknowledged row, so if passes recur each row is answered in the end (strong fairness).  That
is right for the rows of the device that sends: the module has no change of device, and a row
of another one whose scan refuses would be an answer that never comes.
Sync is not assumed to start recovery: that the barrier does so itself is what
`EveryAnswerSettles` rests on.

Exceptions that the properties state.  Each is written as "again and again not owed, or from
some point on, and for ever, in the excepted situation", so that a passing visit to that
situation excuses nothing.

* `DebtIsDischarged` and `PlaceholderIsRemoved` except the placeholder that another device
  attempted and the room does not show (`Unprovable`): its cleanup raises each time ("Deleted
  INITIAL still owes exact send reconciliation") and stays owed by design.
* They and `ImplementsSole` except the attempt that only a scan can settle while the scan
  refuses (`Untraceable`), and the answer that waits behind such a placeholder (`Stuck`).
  The refusal is asserted by `tests/test_bulk_thread_backfill.py:320`.
* `EveryPauseSettles` excepts (`MayStay`) a pause that the router's departure failed, because
  that transaction does not wake the owner's worker and the pause rests until something else
  does; a removed owner's pause while the router, which has to say so, is away; a pause that
  fails while one of its cards is lost, which `tests/test_response_delivery_gateway.py:2975`
  asserts is not sent again; and one whose FINAL is lost.
* `CardsAreRetired` needs the router in the room and a card that is not lost.

TLC refutes `EveryPauseSettles` and `CardsAreRetired` when any of these is left out, and
`DebtIsDischarged` when `Unprovable` or `Untraceable` is.

## 5. The proofs

`tlapm` checks the following for every value of the constants that the ASSUMEs of
the modules allow, hence any number of turns, processes, devices, payloads,
messages, edits, walkers, readers, senders, threads, tool calls, prompts, departures, gaps and
failures.

**Delivery.**  The properties are not inductive alone.  `DeliveryInv` adds what
makes them so:

* `TaskMatchesRow`: a flush past its claim holds the content of its row, and the
  row is attempted.  This is why two processes that claimed one row send the same.
* `TaskShape`: an acknowledgement under way names an event of its own delivery, and
  cleanup works on placeholders.
* `RowShape`: no outcome without an attempt, and an answer edits the acknowledged
  placeholder or nothing; hence the event the record names is determined.
* `TurnShape`: no row of an admitted kind of turn exists before the admission.
* `UnattemptedIsCurrent`: a row that may still be claimed for the first time is
  of the current membership, so a first attempt needs no second look at the fence.
* `ShownIsAttempted`: a transcript entry survives re-enqueueing, since its row is frozen.

`Outbox_proofs` proves what each transaction does to a table (`WellFormed`, `Keeps`,
`NoNewRows`); `MatrixDelivery_proofs` has one step per action on top of those facts
and derives `TypeCorrect`, `RoomAgrees`, `RecordAgrees`, `MembershipAgrees`,
`TranscriptAgrees`, `HandoffSafe`, `OutcomesStable` and `FenceHolds`.

**Delivery by one process** (`AnswerOnce_proofs`).  `OneCopy`, `RetiredIsInvisible` and
`PlaceholderCare` are false of two processes and proved of one (`OneProcess`), for any
number of turns, devices, failures and departures: `OneCopyHolds`, `RetiredInvisible`,
`PlaceholdersCared`.  They need `SoleInv`, whose point is that a lock keeps
what a flush learnt before an await true after it:

* `RowSole`: the room shows at most one event of a row; the acknowledged one, if there is
  one; none of a row that is retired or was never attempted; and the one it shows came from
  the row's device, which makes the comparison in `_transaction_id_still_deduplicates` right.
* `RowsSole`: an answer that edits nothing was attempted only after its placeholder was
  resolved, so no placeholder can surface beside it.
* `FlushSole`: between its claim and its outcome a flush works on a row that nobody else
  resolves; when it is about to send, what the room shows already came from the very device
  that sends, so the homeserver deduplicates it; when it is about to retire, the room shows
  nothing.
* `CleanSole`: cleanup is about to redact only what no answer has taken over.

`SoleInvariance` proves that it is inductive on top of `DeliveryInv`.

**Refinement.**  `AnswersImplemented` (`AnswerOnce_proofs`) shows that `MatrixDelivery`
implements `AnswerOnce` for any number of processes (`ImplementsShared`).  Each
operator of `Outbox` is shown to move the phase of a turn's answer by a step of
`AnswerOnce` or not at all; `DeliveryInv` supplies that an acknowledged event was
posted (`TaskShape`) and that a row's outcome is not undone.  With one process
`SoleAnswersImplemented` gives the stricter abstract specification, in which an answer
is posted once (the safety half of `ImplementsSole`).

**Conversation** (`Conversation_proofs`, with the lemmas about the operators of `Projection`).
`ProjectSound` says of any single projection, whatever the order
of arrival, that deleted text stays out, held edits stay apart from visible
messages and revisions only go forward.  `ConversationInv` lifts it to the walks and
refetches:

* `BodyOrDebt`: a body is the text of its revision or there is a token to ask with.
* `FromTheRoom`, `EditsFollow`: tables and requests hold events that were sent, at
  their own message.
* `RefetchIsFresh`: what a refetch brings is not older than what it was asked to
  replace, unless that was redacted.  Together with the comparison of revision,
  token and epoch in the conditional UPDATE this gives `RevisionsDoNotGoBack`.
* `RefetchShape`, `WalkShape`: requests know their row, walks stay in the timeline.

From it follow `Types`, `DeletedStaysGone`, `HeldEditsAwait`, `RevisionsDoNotGoBack`
and `CoverageIsMonotone`.  `RevisionsDoNotGoBack` does not assume that an edit's
timestamp follows its message's.

Whether a conversation that is called complete really is, is proved in two situations that
between them leave out only a gap in a room that is also left and joined again, which is
finding `reuse`.  `CoverageIsEarned` shows, in addition to `ConversationInv`, `CoverageSupport`
(rows are of the membership there is, only what the room redacted is taken for redacted, and
a walk knows where it has been) and one of

* `GapIsRepaired`, when the account stays: the tables know (`Known`) everything sync
  delivered, and a repaired gap was closed by a walk launched for its present revision;
* `ReturnIsWalked`, when sync skips nothing: coverage of this membership was published by a
  walk that began after the return, and the rest came by sync.

`CaredFor` is the loop invariant of a walk: it has projected everything it passed.
`CompleteLacksNothing` (`CompleteMissesNothing`) follows with no further assumption;
`CompleteReadsAgree` (`ReadMatchesServer`) assumes that events can be decrypted, that edits
are newer than their message, and that no edit is redacted that had replaced another of the
same sender, since `shadow` refutes it otherwise.

**Pending events.**  *The journal's side*: `NoBatchLost` (`AckedIsJournaled`) and
`SettledStays` (`SettledForever`).  The invariant relates the two positions of the stream:
the journal is where nio is, or one batch ahead (`Positions`), and the events of every batch
it has committed have rows.  Every step of the worker and of the turns settles one event or
leaves the journal alone.

*The worker's bookkeeping*: `WorkerBooksBalance` proves all of `PendingInv`.  `MemOK` says of
a memory that each room counts exactly its deferrals and that a room with deferrals, a lane,
a cooldown or a place in the ready set has its progress record (`Booked`).  There is one
lemma for each method of the worker, and the actions are compositions of those.  The probe
is a loop over the queue; the lemma `Counting` (a set of naturals with 0 and
all successors is all of them, by the least element outside it) carries `MemOK` through its turns.

*Order*: `RoomsRunInOrder` proves `ReceiptOrder`.  The worker keeps a cursor per room, and
what it must never do is to leave an event behind that cursor that nobody will come
back to.  `OrderInv` says so (`Trail`): every event behind the cursor of a room, or behind the
point where the present page ends, is on that page, deferred, or in `Aside` (settled, a
receipt order that cannot be filled any more, withheld by an approval, or with a turn that
has ended and still has to report), or the room is to be rewound.  Whatever leaves `Aside`
or the deferrals (`Reclaim`, `LateHandoff`, a decision, a settlement that failed) asks for that rewind.
`Sure` adds that a check that found an event no longer pending is not outdated when it is
used; `AnsweredIsSettled` and `PendingIsStreamed` say what journal, turns and stream know
of each other.  `ReceiptOrder` lets an event go first while an earlier one is in the
deferral map, although its owner may be gone and the next probe has yet to notice.

*Pace*: `RerunsHaveCooled` proves `RerunsArePaced`.  What keeps a room from running the same
callback in a loop is one number, the receipt order up to which the present traversal has
admitted (`admitted`), and what endangers it is that the progress record with that mark is
dropped when a lane finishes and begins anew after a cooldown.  `PaceInv` uses the same `Trail` with
another set (`Excused`: not pending, withheld, being ignored, or cooled down since its last
callback) and adds `Paced`: an event outside `Excused` lies behind the mark of a room that
still has its record (`Marked`); so does what is on the page or in hand and must not run
(`Barred`, `PageMarked`); the last page of a pass and a pass that ended well leave nothing
behind that is neither excused nor deferred (`EndSafe`, `DoneSafe`), which is why the record
may be dropped; and a room that cools down has no lane past its read (`Resting`), so that the
mark is reset before anything is admitted.  A callback that starts moves its event from
`Excused` to `Barred`, behind the mark it sets in the same step; every other step only
excuses more and bars less.

**Ingress.**  `IInv` of `Ingress_proofs` has two halves.

* `LanesInv` is about receipts.  Stamps name their events (`Stamps`); a slot that is not
  released is the slot its event has now, and says how far its handler is (`LaneShape`); a
  handler that works holds one (`ResolveHasSlot`).  A released slot may outlive its event's
  next attempts, which is why slots are compared by receipt and not by event.
* `Flow` is about what has left the lane.  An event is in one place, under its present
  receipt, and deferred (`PlacesInv`); the claims are *exactly* those of the events on their
  way and of the batches that may be answered (`ClaimsExact`), they exclude each other and
  the terminal records (`Exclusive`), and what has a record is done (`CompletedIsDone`); an
  announcement has somebody to take it back (`NoticeShape`); a response is in the line for
  its lock from beginning to end and runs only at its head (`LockShape`).

From it follow `NeverAnsweredTwice` (`AnsweredOnce`), `BatchesInOrder` (`BurstInOrder`),
`ResponsesExclude` (one running response per conversation) and `WorkAndClaims` (all of
`IngressInv` but the first half of `NothingStranded`).
The equality in `ClaimsExact` is what makes it work: with an inclusion either way, a leaked
or a missing claim would be consistent with the invariant and the next step would break it.
`_insert_queued_event`, the front run and the promotion are covered by lemmas that say what
each does to any ordered queue (`InsertFacts`, `FrontRunFacts`, `CutFacts`, `AdmittedEffect`).

`IngressCorrect` proves the whole of `IngressInv`, for any traffic.  What is left for it is
`dispatch_text_message`, which returns without a word to the journal when the claim of its
batch is refused, so that the events of that batch are deferred and in nobody's hands.
`BatchTakesOver` shows when that can be.  The members' claims keep every other claim on
them away until then, so the refusal must come from a terminal record; and a record on the
member itself would have needed its claim.  What remains is an original answered between
the claim of its relay and the start of the relay's batch, since `try_claim_turn` compares
aliases with the sources of terminal records but not with those of claims.  A relay is
coalesced with nothing (`RelaysAlone`, `ClaimAlone`), so no other event is dropped with it, and a
record stays (`CompletedGrows`), so the exception in `NothingStranded` (`Outranked`) lasts.  The
relay is not lost: the journal's probe finds that nobody holds it and offers it again, and
the next claim finds the answer and ignores it, which `EveryoneServed` checks.

**Approvals.**  Steps are first reduced to ten effects on continuation, cards and FINAL
(`StepCases`), and the invariant is carried through those.  What `ApprovalsInv`, `RunsOnce`
and `RunsAsShown` need in addition:

* `GenerationShape`: the calls of the current generation are planned, all decided once it is
  ready, and not executed before it is claimed; those of later generations are untouched.
* `CardShape`: card and journal agree on every decision.
* `RunnerShape`: a runner past its claim works on the very continuation it claimed, unless
  that is gone; hence a second process cannot be executing the same generation.
* `FinalShape`, `HereShape`, `NoContShape`: what stands when a FINAL is frozen, when the agent
  or the router has left, and when there is no continuation.

The theorems are `ApprovalsCorrect`, `ToolsRunOnce` and `ToolsRunAsShown`, for any sequence of
pauses over any calls and any number of troubles.

**Questions.**  `QuestionsCorrect` proves `QuestionsInv`.  Its own parts are most of what it
needs; `Spent` adds that a prompt that was acted upon stays taken or is erased for good, which
is what a redelivered or refetched revision could undo; `AckedIsVisible` that the projection
knows every acknowledged revision the room still shows, on which `PromptComesFirst` rests; and
`RowShape`, `RedactionShape`, `AnswerShape` and `QuestionShape` say what rows, room, stream and
projection know of each other.

**Only model-checked.**

* Liveness under fairness, and everything that mentions ENABLED, is out of the prover's
  reach: `DebtIsDischarged`, `PlaceholderIsRemoved`, the fair half of `ImplementsSole`,
  `DebtIsRepaired`, `ReadsAreServed`, `EveryEventSettles`, `EveryoneServed`,
  `EveryPauseSettles`, `CardsAreRetired`, `EveryAnswerSettles`.  So is induction over data
  (what a recursive definition computes for every input) and every module with a RECURSIVE
  operator.

Every safety property of a passing run is stated by a theorem.

## 6. Findings

* `reuse`: `_advance_membership_epoch` deletes the recovery row, so the gap numbers
  of the next membership start again.  A recovery that checked its gap before the
  departure and read the epoch after the rejoin passes both fences and settles a later gap
  that it has not walked; a complete conversation then lacks a message.
* `shadow`: a walk keeps one held edit per message and sender.  When the newer of
  two is redacted between two chunks, the older one is already dropped and the
  message is stored in its original text with no debt to ask for a refetch.

Two remarks without a run.  `_apply_unresolved_edit` does not compare the held edit with
the message, so an edit with the lower timestamp, which takes a clock set back between the
two, wins in a newest-first walk and loses live; the ranks of the runs exclude it.  The
docstring of `acknowledge` in `event_journal/outbox.py` still says that nothing excludes
a live flush and recovery in one process; the delivery locks now do, and the behaviour
is right.

## 7. Not modelled, and the plan

Within the modelled parts:

* *Delivery and conversation*: records completed by other paths, unreadable outbox rows,
  the transcript's reaction to a redaction echo, `discard_delivery_event`,
  transport-progress edits, thread walks.  `Deliver` leaves out `defer_source_handoff`;
  the worker is the one of text deliveries, which resends after a scan that found nothing
  (`resend_after_reconciliation_miss`; the other case is in `Approvals`).
* *Pending events*: to-device traffic and nio's own sync loop; the time before the
  orchestrator has started the responders, in which turn work is parked and its deferrals
  count as live (`_turn_replay_released`, `journal_dispatch.py:195-198,217-219`).
* *Ingress*: edits of a message, the bounded drain
  at shutdown, cancellation before the lane is entered, and the lane slot that a reply to an
  approval card reserves before its precheck (`bot.py:2533-2544,2564-2566`).
* *Approvals*: timed grants, approvals of background scripts, recovery of legacy pauses,
  unreadable cards and aliases of a card.  Deletion of a paused response or of its source:
  the refusal of a pause whose INITIAL is retired (`approval_continuations.py:392`,
  `response_runner.py:2628-2641`) and a deleted delivery that ends a pause
  (`deleted_delivery_is_terminal`, `approval_continuations.py:753`).  The notice by which the
  router settles a removed agent's pause is enqueued, sent and acknowledged in one step.  A
  response body that can never be read again, without which an interrupted run is never
  settled (`response_runner.py:1600-1602`): `SettlementFails` is a trouble, and ends.
* *Questions*: the option buttons an agent adds to its own prompt (`prompt_is_current`),
  reply permissions, several threads, and the way of a selection through lane and lock.

Next, in order of what they add to the promise on the first page:

1. `TurnRecords`: merge, terminal commit, redaction marks and the in-memory ledger.
2. Scheduling (a due task fires once), configuration reload, script runs and knowledge
   refresh: small state machines of their own.
3. The composition of `PendingEvents`, `Ingress` and `MatrixDelivery` at the level of
   `AnswerOnce`.

Left out for good: tool implementations, model providers, memory and knowledge
contents, the HTTP API, CLI, desktop and web front ends, encryption, media and
message formatting.  They are I/O or data conversions without a protocol of their
own, and make up most of the repository's lines; `PROJECT.json` lists each with its
reason.
