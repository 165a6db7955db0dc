--------------------------- MODULE MatrixDelivery ---------------------------
(***************************************************************************)
(* Delivery of turn answers through the durable outbox: the worker of      *)
(* matrix_delivery.py, the transactions of event_journal/store.py around   *)
(* the rows of module Outbox, the deleted-source cleanup of                *)
(* response_delivery_recovery.py, and the room's membership fence.         *)
(*                                                                         *)
(* Several processes may share one database.  Inside a process the lock of *)
(* a delivery admits one flush of a turn at a time, so a process has one   *)
(* task per turn; across processes nothing excludes two flushes.  Every    *)
(* await of the code is a boundary between two actions.                    *)
(*                                                                         *)
(* The homeserver is external: it accepts a transaction ID at most once    *)
(* per device, and its answer to a send can be lost.                       *)
(***************************************************************************)
EXTENDS Outbox, FiniteSets

CONSTANTS
    Processes,   \* processes that share the database
    Nameless,    \* processes that cannot name the device they send from
    Reloggers,   \* processes that may come back logged in as another device
    HookTurns,   \* turns the journal never admitted (scheduled, hook-authored)
    RecordedTurns,  \* turns that have a turn record to complete
    Environment,    \* what may happen besides: sync may "echo" a delivered event,
                    \* a user "delete" a source, the server "refuse" a payload,
                    \* newer or unreadable history "bury" a delivery
    MaxEpoch     \* bound on how often the room may be left

ASSUME WorkerConstants ==
    /\ Nameless \subseteq Processes
    /\ Reloggers \subseteq Processes
    /\ HookTurns \subseteq Turns
    /\ RecordedTurns \subseteq Turns
    /\ Environment \subseteq {"echo", "delete", "refuse", "bury"}
    /\ MaxEpoch \in Nat

VARIABLES
    epoch,    \* room_membership.membership_epoch
    fenced,   \* room_membership.departure_fenced
    source,   \* journal_events: state and membership epoch of a turn's sources
    redaction, \* what a redaction of a turn's sources has left behind
    rows,     \* matrix_delivery_outbox
    record,   \* response event named by the turn's record
    shown,    \* delivered events present in the projected transcript
    room,     \* the homeserver: what each device's transaction produced
    buried,   \* turns whose deliveries a scan of the history need not reach
    device,   \* the device a process is logged in as
    running,  \* turns a process is executing
    task      \* the flush a process has under way for a turn

durable == <<epoch, fenced, source, redaction, rows, record, shown>>
vars == <<durable, room, device, running, task, buried>>

Pcs == {"idle", "flush", "claim", "claimed", "stale", "resolve", "device",
        "send", "ack", "fail", "retire",
        "cleanResolve", "cleanSend", "cleanAck", "cleanRedact", "cleanRetire"}

Modes == {"live", "unblock", "again", "recover", "clean"}

Task == [pc : Pcs, mode : Modes, stage : Stages, claimed : Row,
         event : EventIds \cup {NoEvent}]

NoTask == [pc |-> "idle", mode |-> "live", stage |-> "final",
           claimed |-> EmptyRow, event |-> NoEvent]

Content == [state : {"absent", "visible", "redacted"},
            payload : Payloads \cup {NoPayload},
            edits : EventIds \cup {NoEvent}]

Absent   == [state |-> "absent",   payload |-> NoPayload, edits |-> NoEvent]
Redacted == [state |-> "redacted", payload |-> NoPayload, edits |-> NoEvent]

\* A suppressed source is a settled one that never was pending.
SourceRow == [state : {"none", "pending", "settled", "suppressed"}, epoch : Nat]

\* The pending journal row of the redaction itself, the room's tombstone for
\* the source, and the mark in the turn record (redacted_source_event_ids).
Redactions == {"callback", "tombstone", "mark"}

TypeOK ==
    /\ epoch \in Nat
    /\ fenced \in BOOLEAN
    /\ source \in [Turns -> SourceRow]
    /\ redaction \in [Turns -> SUBSET Redactions]
    /\ rows \in Table
    /\ record \in [Turns -> EventIds \cup {NoEvent}]
    /\ shown \subseteq EventIds
    /\ room \in [EventIds -> Content]
    /\ device \in [Processes -> Devices]
    /\ running \in [Processes -> SUBSET Turns]
    /\ task \in [Processes -> [Turns -> Task]]
    /\ buried \subseteq Turns

Init ==
    /\ epoch = 0
    /\ fenced = FALSE
    /\ source = [t \in Turns |-> [state |-> "none", epoch |-> 0]]
    /\ redaction = [t \in Turns |-> {}]
    /\ rows = [t \in Turns |-> [s \in Stages |-> EmptyRow]]
    /\ record = [t \in Turns |-> NoEvent]
    /\ shown = {}
    /\ room = [e \in EventIds |-> Absent]
    /\ device \in [Processes -> Devices]
    /\ running = [p \in Processes |-> {}]
    /\ task = [p \in Processes |-> [t \in Turns |-> NoTask]]
    /\ buried = {}

-----------------------------------------------------------------------------
(* The membership row and what a writer may do under it.                   *)

\* membership_state.claim_membership_epoch
MembershipIsCurrent(e) == e = epoch /\ ~fenced

\* outbox.claim_active_delivery_ownership
OwnsProjection(row) == row.exists /\ ~row.retired /\ MembershipIsCurrent(row.epoch)

\* The row behind an event this account delivered.
RowOf(e) == rows[e.turn][e.stage]

\* ResponseDeliveryRecovery.deleted
Deleted(t) == redaction[t] \cap {"tombstone", "mark"} # {}

\* The journal admits a turn-backed event.  A fenced room keeps only its
\* identity, and a tombstone that came first settles it at once.
Admit(t) ==
    /\ t \notin HookTurns
    /\ source[t].state = "none"
    /\ source' = [source EXCEPT ![t] =
          [state |-> IF fenced THEN "suppressed"
                     ELSE IF "tombstone" \in redaction[t] THEN "settled" ELSE "pending",
           epoch |-> epoch]]
    /\ UNCHANGED <<epoch, fenced, redaction, rows, record, shown,
                   room, device, running, task, buried>>

\* The journal admits the redaction of every source of the turn: the tombstone
\* settles a pending one in the same transaction.
DeleteSource(t) ==
    /\ "delete" \in Environment
    /\ t \notin HookTurns
    /\ redaction[t] = {}
    /\ redaction' = [redaction EXCEPT ![t] = {"callback", "tombstone"}]
    /\ source' = IF source[t].state = "pending"
                 THEN [source EXCEPT ![t].state = "settled"] ELSE source
    /\ UNCHANGED <<epoch, fenced, rows, record, shown,
                   room, device, running, task, buried>>

\* bot._on_redaction: the redaction's own callback marks the turn record.  The
\* departure fence leaves this callback pending.
MarkRedacted(t) ==
    /\ "callback" \in redaction[t]
    /\ redaction' = [redaction EXCEPT ![t] = (@ \cup {"mark"}) \ {"callback"}]
    /\ UNCHANGED <<epoch, fenced, source, rows, record, shown,
                   room, device, running, task, buried>>

\* A plausible bug: the fence writes a state the journal does not know.
SettlePendingAsDone(src) ==
    [t \in Turns |->
        IF src[t].state = "pending" THEN [src[t] EXCEPT !.state = "done"] ELSE src[t]]

SettlePending(src) ==
    [t \in Turns |->
        IF src[t].state = "pending" THEN [src[t] EXCEPT !.state = "settled"] ELSE src[t]]

\* The account leaves the room: the fence of _advance_membership_epoch.
Depart ==
    /\ ~fenced
    /\ epoch < MaxEpoch
    /\ epoch' = epoch + 1
    /\ fenced' = TRUE
    /\ rows' = RetireUnattempted(rows)
    /\ source' = SettlePending(source)
    /\ redaction' = [t \in Turns |-> redaction[t] \ {"tombstone"}]
    /\ shown' = {}
    /\ UNCHANGED <<record, room, device, running, task, buried>>

Rejoin ==
    /\ fenced
    /\ fenced' = FALSE
    /\ UNCHANGED <<epoch, source, redaction, rows, record, shown,
                   room, device, running, task, buried>>

-----------------------------------------------------------------------------
(* Starting a flush: a live delivery, or one row of a recovery pass.       *)

StartTurn(p, t) ==
    /\ t \notin running[p]
    /\ source[t].state = "pending" \/ t \in HookTurns
    /\ running' = [running EXCEPT ![p] = @ \cup {t}]
    /\ UNCHANGED <<durable, room, device, task, buried>>

\* A plausible bug: enqueueing without asking who admitted the turn.
EnqueueEpochsUnchecked(t, s) == {epoch}

\* The epoch a delivery is enqueued under, if the membership still grants one.
EnqueueEpochs(t, s) ==
    IF rows[t][s].attempted THEN {rows[t][s].epoch}
    ELSE IF source[t].state = "none" THEN {e \in {epoch} : ~fenced}
    ELSE {e \in {source[t].epoch} : MembershipIsCurrent(e)}

\* A plausible bug: the placeholder, not the answer, discharges the sources.
HandsOverAny(s) == TRUE

\* Only the answer carries the sources of its turn into the commit.
HandsOver(s) == s = "final"

\* deliver(): the enqueue transaction, under the turn's lock.  `pick` is the
\* row that owns the delivery, and the stage itself when there is none yet.
Deliver(p, t, s, payload, edits, failed) ==
    /\ t \in running[p]
    /\ task[p][t].pc = "idle"
    /\ failed => "refuse" \in Environment
    /\ edits # NoEvent => s = "final" /\ edits = rows[t]["initial"].acked
    /\ \E e \in EnqueueEpochs(t, s) :
        /\ \/ StagesPresent(rows, t) = {}
           \/ \E pick \in StagesPresent(rows, t) : ~OwnerRefuses(rows, t, pick, e)
        /\ rows' = Enqueue(rows, t, s, e, payload, edits, failed)
    /\ source' = IF HandsOver(s) /\ source[t].state = "pending"
                 THEN [source EXCEPT ![t].state = "settled"] ELSE source
    /\ task' = [task EXCEPT ![p][t] =
                    [NoTask EXCEPT !.pc = IF s = "initial" THEN "flush" ELSE "claim",
                                   !.mode = "live", !.stage = s]]
    /\ UNCHANGED <<epoch, fenced, redaction, record, shown, room, device, running, buried>>

\* recover(): the pass reaches an unacknowledged row and takes its lock.
\* A row that got its outcome since the page was read is left alone by the
\* flush, which changes nothing: no step is needed for it.
Recover(p, t, s) ==
    /\ task[p][t].pc = "idle"
    /\ Owed(rows[t][s])
    /\ task' = [task EXCEPT ![p][t] =
                    [NoTask EXCEPT !.pc = IF s = "initial" THEN "flush" ELSE "claim",
                                   !.mode = "recover", !.stage = s]]
    /\ UNCHANGED <<durable, room, device, running, buried>>

\* outbox.deleted_initials
CleanupListed(t) ==
    /\ "tombstone" \in redaction[t]
    /\ rows[t]["initial"].exists /\ ~rows[t]["initial"].retired
    /\ rows[t]["final"].acked = NoEvent
    /\ rows[t]["final"].exists => rows[t]["final"].retired \/ rows[t]["final"].failed

\* recover_deliveries(): the pass reaches a placeholder of a deleted source.
RecoverDeleted(p, t) ==
    /\ task[p][t].pc = "idle"
    /\ CleanupListed(t)
    /\ task' = [task EXCEPT ![p][t] =
                    [NoTask EXCEPT !.pc = "flush", !.mode = "clean", !.stage = "initial"]]
    /\ UNCHANGED <<durable, room, device, running, buried>>

-----------------------------------------------------------------------------
(* The steps of a flush.  A task moves from one await to the next; `Done`  *)
(* is the task after a flush that returned, blocked or not.                *)

Done(k, blocked) ==
    IF k.mode = "live" /\ blocked
    THEN [NoTask EXCEPT !.pc = "flush", !.mode = "unblock", !.stage = "initial"]
    ELSE IF k.mode = "unblock"
    THEN [NoTask EXCEPT !.pc = "claim", !.mode = "again", !.stage = "final"]
    ELSE NoTask

Goto(p, t, pc) == task' = [task EXCEPT ![p][t].pc = pc]

Finish(p, t) == task' = [task EXCEPT ![p][t] = Done(@, FALSE)]

\* The device name a process records, and compares with the row's.
SendingDevice(p) == IF p \in Nameless THEN NoDevice ELSE device[p]

\* ResponseDeliveryRecovery._final_owned: the answer keeps its placeholder.
FinalOwned(t) ==
    \/ rows[t]["final"].acked # NoEvent
    \/ rows[t]["final"].exists /\ ~rows[t]["final"].retired /\ ~rows[t]["final"].failed
    \/ record[t] # NoEvent

\* A plausible bug: any placeholder of a deleted source is cleaned up.
CleanupOwedEvenAnswered(t) ==
    Deleted(t) /\ rows[t]["initial"].exists /\ ~rows[t]["initial"].retired

\* A plausible bug: only a placeholder whose event is unknown is cleaned up.
CleanupOwedUnnamed(t) ==
    /\ Deleted(t)
    /\ rows[t]["initial"].exists
    /\ ~rows[t]["initial"].retired
    /\ rows[t]["initial"].acked = NoEvent
    /\ ~FinalOwned(t)

CleanupOwed(t) ==
    /\ Deleted(t)
    /\ rows[t]["initial"].exists
    /\ ~rows[t]["initial"].retired
    /\ ~FinalOwned(t)

\* The cleanup hook at the head of _flush for a placeholder: a cleanup that
\* goes on marks the turn record first.
CheckDeleted(p, t) ==
    LET row == rows[t]["initial"] IN
    /\ task[p][t].pc = "flush"
    /\ task' = [task EXCEPT ![p][t] =
          IF ~CleanupOwed(t)
          THEN IF @.mode = "clean" THEN NoTask ELSE [@ EXCEPT !.pc = "claim"]
          ELSE [@ EXCEPT !.pc = IF row.acked # NoEvent THEN "cleanRedact"
                                ELSE IF row.attempted THEN "cleanResolve" ELSE "cleanRetire",
                         !.claimed = row, !.event = row.acked]]
    /\ redaction' = IF CleanupOwed(t) THEN [redaction EXCEPT ![t] = @ \cup {"mark"}]
                    ELSE redaction
    /\ UNCHANGED <<epoch, fenced, source, rows, record, shown, room, device, running, buried>>

ClaimStep(p, t) ==
    LET k == task[p][t]
        s == task[p][t].stage
    IN
    /\ k.pc = "claim"
    /\ rows' = Claim(rows, t, s, SendingDevice(p))
    /\ task' = [task EXCEPT ![p][t] =
          IF ClaimGranted(rows, t, s) /\ rows[t][s].acked = NoEvent
          THEN [k EXCEPT !.pc = "claimed",
                         !.claimed = [rows'[t][s] EXCEPT !.attempted = rows[t][s].attempted]]
          ELSE Done(k, ClaimBlocked(rows, t, s))]
    /\ UNCHANGED <<epoch, fenced, source, redaction, record, shown, room, device, running, buried>>

\* _transaction_id_still_deduplicates
Deduplicates(p, claimed) ==
    \/ ~claimed.attempted
    \/ claimed.device # NoDevice /\ claimed.device = SendingDevice(p)

\* A plausible bug: every flush searches the room first, its own resends too.
CheckEpochSearchesAlways(p, t) ==
    LET k == task[p][t] IN
    /\ k.pc = "claimed"
    /\ Goto(p, t, IF k.claimed.epoch # epoch THEN "stale" ELSE "resolve")
    /\ UNCHANGED <<durable, room, device, running, buried>>

CheckEpoch(p, t) ==
    LET k == task[p][t] IN
    /\ k.pc = "claimed"
    /\ Goto(p, t, IF k.claimed.epoch # epoch THEN "stale"
                  ELSE IF Deduplicates(p, k.claimed) THEN "device" ELSE "resolve")
    /\ UNCHANGED <<durable, room, device, running, buried>>

\* Exact copies of a frozen payload that a scan of the room history finds.
Copies(t, s, row) ==
    {e \in EventIds : /\ Delivers(e, t, s)
                      /\ room[e] = [state |-> "visible", payload |-> row.payload,
                                    edits |-> row.edits]}

\* A plausible bug: the lookup's answer is not used.
ResolveIgnored(p, t, found, miss) ==
    /\ Goto(p, t, miss)
    /\ UNCHANGED <<durable, room, device, running, buried>>

\* A plausible bug: a scan that met its bound reports that nothing is there.
ResolveGuesses(p, t, found, miss) ==
    LET copies == Copies(t, task[p][t].stage, task[p][t].claimed) IN
    /\ \/ /\ copies = {} \/ t \in buried
          /\ Goto(p, t, miss)
       \/ \E e \in copies :
          task' = [task EXCEPT ![p][t] = [@ EXCEPT !.pc = found, !.event = e]]
    /\ UNCHANGED <<durable, room, device, running, buried>>

\* find_outbox_delivery_event_id_via_room_messages: the newest page that has a
\* copy ends the scan and the copy is adopted; two on one page raise (action
\* Raise).  None leads to `miss`, once the history was read to its end.
Resolve(p, t, found, miss) ==
    LET copies == Copies(t, task[p][t].stage, task[p][t].claimed) IN
    /\ \/ /\ copies = {}
          /\ t \notin buried
          /\ Goto(p, t, miss)
       \/ \E e \in copies :
          task' = [task EXCEPT ![p][t] = [@ EXCEPT !.pc = found, !.event = e]]
    /\ UNCHANGED <<durable, room, device, running, buried>>

ScanPcs == {"stale", "resolve", "cleanResolve"}

\* The scan meets its page bound, or an event of this account it cannot decrypt,
\* before a copy: it refuses to guess and raises, on this pass as on the next.
ScanRefused(p, t) ==
    /\ task[p][t].pc \in ScanPcs
    /\ t \in buried
    /\ task' = [task EXCEPT ![p][t] = NoTask]
    /\ UNCHANGED <<durable, room, device, running, buried>>

\* External: the room grows past the bound of a scan, or an event of the account
\* loses its key.  Neither is undone by waiting.
Bury(t) ==
    /\ "bury" \in Environment
    /\ t \notin buried
    /\ buried' = buried \cup {t}
    /\ UNCHANGED <<durable, room, device, running, task>>

ReconcileStale(p, t) == task[p][t].pc = "stale" /\ Resolve(p, t, "ack", "retire")

ReconcileDevice(p, t) == task[p][t].pc = "resolve" /\ Resolve(p, t, "ack", "device")

StampDevice(p, t) ==
    /\ task[p][t].pc = "device"
    /\ rows' = RecordDevice(rows, t, task[p][t].stage, SendingDevice(p))
    /\ Goto(p, t, "send")
    /\ UNCHANGED <<epoch, fenced, source, redaction, record, shown, room, device, running, buried>>

\* External: the homeserver takes a transaction it has not seen from a device.
Accept(e, row) ==
    IF room[e].state = "absent"
    THEN [room EXCEPT ![e] = [state |-> "visible", payload |-> row.payload, edits |-> row.edits]]
    ELSE room

\* The send: accepted and answered; accepted with the answer lost; refused.
\* A continuation can be too large after the first event was accepted.
SendAnswered(p, t) ==
    LET e == EventId(t, task[p][t].stage, device[p]) IN
    /\ task[p][t].pc = "send"
    /\ room' = Accept(e, task[p][t].claimed)
    /\ task' = [task EXCEPT ![p][t] = [@ EXCEPT !.pc = "ack", !.event = e]]
    /\ UNCHANGED <<durable, device, running, buried>>

\* A plausible bug: a send that timed out counts as delivered, although the
\* homeserver may never have seen it.
SendLostIsDelivered(p, t) ==
    /\ task[p][t].pc = "send"
    /\ task' = [task EXCEPT ![p][t] =
                    [@ EXCEPT !.pc = "ack", !.event = EventId(t, task[p][t].stage, device[p])]]
    /\ UNCHANGED <<durable, room, device, running, buried>>

SendLost(p, t) ==
    /\ task[p][t].pc = "send"
    /\ room' = Accept(EventId(t, task[p][t].stage, device[p]), task[p][t].claimed)
    /\ task' = [task EXCEPT ![p][t] = NoTask]
    /\ UNCHANGED <<durable, device, running, buried>>

SendRefused(p, t) ==
    /\ "refuse" \in Environment
    /\ task[p][t].pc = "send"
    /\ room' \in {room, Accept(EventId(t, task[p][t].stage, device[p]), task[p][t].claimed)}
    /\ Goto(p, t, "fail")
    /\ UNCHANGED <<durable, device, running, buried>>

-----------------------------------------------------------------------------
(* Outcomes.  The acknowledgement, the turn record and the projection are  *)
(* one transaction of store.acknowledge_matrix_delivery.                   *)

\* The event later edits of the answer have to address.
CanonicalResponse(row, e) == IF row.edits # NoEvent THEN row.edits ELSE e

\* What reading the room back can bring to the acknowledgement: the delivered
\* event and the one it edits, or nothing.  The read precedes the transaction,
\* so it may be out of date by then.
Observed(row, e) == {{}, {e} \cup ({row.edits} \ {NoEvent})}

\* A plausible bug: the losing acknowledgement writes its record too.
CommitsTerminalAlways(t, s) == OwnsProjection(rows[t][s]) /\ s = "final"

\* Which acknowledgement also completes the turn record.
CommitsTerminal(t, s) ==
    /\ AcknowledgeBinds(rows, t, s)
    /\ OwnsProjection(rows[t][s])
    /\ s = "final"

\* A plausible bug: projecting without reclaiming the membership row.
ShownAfterAckUnfenced(t, s, e, observed) ==
    IF AcknowledgeBinds(rows, t, s) THEN shown \cup observed ELSE shown

ShownAfterAck(t, s, e, observed) ==
    IF ~AcknowledgeBinds(rows, t, s) THEN shown
    ELSE IF OwnsProjection(rows[t][s]) THEN shown \cup observed
    ELSE shown \ {e}

AcknowledgeStep(p, t) ==
    LET k == task[p][t]
        s == task[p][t].stage
    IN
    /\ k.pc = "ack"
    /\ rows' = Acknowledge(rows, t, s, k.event)
    /\ record' = IF CommitsTerminal(t, s) /\ t \in RecordedTurns
                 THEN [record EXCEPT ![t] = CanonicalResponse(k.claimed, k.event)]
                 ELSE record
    /\ \E seen \in Observed(k.claimed, k.event) : shown' = ShownAfterAck(t, s, k.event, seen)
    /\ Finish(p, t)
    /\ UNCHANGED <<epoch, fenced, source, redaction, room, device, running, buried>>

FailStep(p, t) ==
    /\ task[p][t].pc = "fail"
    /\ rows' = RecordPermanentFailure(rows, t, task[p][t].stage)
    /\ Finish(p, t)
    /\ UNCHANGED <<epoch, fenced, source, redaction, record, shown, room, device, running, buried>>

\* retire_matrix_delivery: the tombstone also withdraws the edited message.
RetireStep(p, t) ==
    LET s == task[p][t].stage IN
    /\ task[p][t].pc = "retire"
    /\ rows' = Retire(rows, t, s)
    /\ shown' = IF rows'[t][s].retired THEN shown \ {rows[t][s].edits} ELSE shown
    /\ Finish(p, t)
    /\ UNCHANGED <<epoch, fenced, source, redaction, record, room, device, running, buried>>

\* The sync stream brings back an event this account delivered.
Echo(e) ==
    /\ "echo" \in Environment
    /\ room[e].state = "visible"
    /\ OwnsProjection(RowOf(e))
    /\ shown' = shown \cup {e}
    /\ UNCHANGED <<epoch, fenced, source, redaction, rows, record, room, device, running, task, buried>>

-----------------------------------------------------------------------------
(* Removing the placeholder of a deleted source.                           *)

CleanResolve(p, t) ==
    /\ task[p][t].pc = "cleanResolve"
    /\ \/ Deduplicates(p, task[p][t].claimed)
       \/ Copies(t, "initial", task[p][t].claimed) # {}
    /\ Resolve(p, t, "cleanAck", "cleanSend")

\* Another device may have sent it and the room does not show it: the cleanup
\* raises and stays owed.
CleanUnproven(p, t) ==
    /\ task[p][t].pc = "cleanResolve"
    /\ ~Deduplicates(p, task[p][t].claimed)
    /\ Copies(t, "initial", task[p][t].claimed) = {}
    /\ t \notin buried
    /\ task' = [task EXCEPT ![p][t] = NoTask]
    /\ UNCHANGED <<durable, room, device, running, buried>>

CleanSend(p, t) ==
    LET e == EventId(t, "initial", device[p]) IN
    /\ task[p][t].pc = "cleanSend"
    /\ room' = Accept(e, task[p][t].claimed)
    /\ task' = [task EXCEPT ![p][t] = [@ EXCEPT !.pc = "cleanAck", !.event = e]]
    /\ UNCHANGED <<durable, device, running, buried>>

CleanLost(p, t) ==
    /\ task[p][t].pc = "cleanSend"
    /\ room' = Accept(EventId(t, "initial", device[p]), task[p][t].claimed)
    /\ task' = [task EXCEPT ![p][t] = NoTask]
    /\ UNCHANGED <<durable, device, running, buried>>

CleanAck(p, t) ==
    LET e == task[p][t].event IN
    /\ task[p][t].pc = "cleanAck"
    /\ rows' = Acknowledge(rows, t, "initial", e)
    /\ shown' = ShownAfterAck(t, "initial", e, {})
    /\ Goto(p, t, "cleanRedact")
    /\ UNCHANGED <<epoch, fenced, source, redaction, record, room, device, running, buried>>

CleanRedact(p, t) ==
    /\ task[p][t].pc = "cleanRedact"
    /\ room' = [room EXCEPT ![task[p][t].event] = Redacted]
    /\ Goto(p, t, "cleanRetire")
    /\ UNCHANGED <<durable, device, running, buried>>

\* retire_deleted_initial raises, under Raise, once an answer owns the event.
CleanRetire(p, t) ==
    LET final == rows[t]["final"] IN
    /\ task[p][t].pc = "cleanRetire"
    /\ final.exists => final.acked = NoEvent /\ (final.retired \/ final.failed)
    /\ rows' = IF rows[t]["initial"].exists
               THEN [rows EXCEPT ![t]["initial"].retired = TRUE] ELSE rows
    /\ Finish(p, t)
    /\ UNCHANGED <<epoch, fenced, source, redaction, record, shown, room, device, running, buried>>

-----------------------------------------------------------------------------
(* Failures.  Any await of a flush may raise, or find that the process is  *)
(* shutting down, and leaves the row as it was; a process may die and come *)
(* back logged in as another device.                                       *)

Raise(p, t) ==
    /\ task[p][t].pc # "idle"
    /\ task' = [task EXCEPT ![p][t] = NoTask]
    /\ UNCHANGED <<durable, room, device, running, buried>>

Crash(p, d) ==
    /\ p \in Reloggers \/ d = device[p]
    /\ device' = [device EXCEPT ![p] = d]
    /\ running' = [running EXCEPT ![p] = {}]
    /\ task' = [task EXCEPT ![p] = [t \in Turns |-> NoTask]]
    /\ UNCHANGED <<durable, room, buried>>

Start(p, t) ==
    \/ StartTurn(p, t)
    \/ \E s \in Stages, y \in Payloads, f \in BOOLEAN,
          x \in {NoEvent, rows[t]["initial"].acked} : Deliver(p, t, s, y, x, f)
    \/ \E s \in Stages : Recover(p, t, s)
    \/ RecoverDeleted(p, t)

\* A flush moves on: the call it waits for is answered.
Progress(p, t) ==
    \/ CheckDeleted(p, t)
    \/ ClaimStep(p, t)
    \/ CheckEpoch(p, t)
    \/ ReconcileStale(p, t)
    \/ ReconcileDevice(p, t)
    \/ ScanRefused(p, t)
    \/ StampDevice(p, t)
    \/ SendAnswered(p, t)
    \/ SendRefused(p, t)
    \/ AcknowledgeStep(p, t)
    \/ FailStep(p, t)
    \/ RetireStep(p, t)
    \/ CleanResolve(p, t)
    \/ CleanUnproven(p, t)
    \/ CleanSend(p, t)
    \/ CleanAck(p, t)
    \/ CleanRedact(p, t)
    \/ CleanRetire(p, t)

\* A step of a flush: an answer, or a send whose answer is lost.
Step(p, t) == Progress(p, t) \/ SendLost(p, t) \/ CleanLost(p, t)

\* What the account, its users and the sync stream do.
Outside ==
    \/ \E t \in Turns : Admit(t) \/ DeleteSource(t) \/ MarkRedacted(t) \/ Bury(t)
    \/ Depart
    \/ Rejoin
    \/ \E e \in EventIds : Echo(e)

Next ==
    \/ Outside
    \/ \E p \in Processes, t \in Turns : Start(p, t) \/ Step(p, t) \/ Raise(p, t)
    \/ \E p \in Processes, d \in Devices : Crash(p, d)

Spec == Init /\ [][Next]_vars

\* A step in which no call fails, no answer is lost and no process dies.
Undisturbed ==
    \/ Outside
    \/ \E p \in Processes, t \in Turns : Start(p, t) \/ Progress(p, t)

\* From some point on calls are answered and processes stay up.  The code then
\* guarantees the rest: a flush that was started runs to its end, and the
\* recovery task, which runs after every sync response, keeps reaching a row.
FairSpec ==
    /\ Spec
    /\ <>[][Undisturbed]_vars
    /\ \A p \in Processes, t \in Turns :
        /\ WF_vars(Progress(p, t))
        /\ \A s \in Stages : SF_vars(Recover(p, t, s))
        /\ SF_vars(RecoverDeleted(p, t))

-----------------------------------------------------------------------------
(* Properties that hold for any number of processes.                       *)

\* What the room shows is what the row holds: a delivery that was offered to
\* the homeserver keeps its payload, so no later run of the same turn can
\* leave the durable answer and the visible one disagreeing.
RoomShowsRow ==
    \A e \in EventIds :
        room[e].state = "visible" =>
            /\ RowOf(e).attempted
            /\ room[e].payload = RowOf(e).payload
            /\ room[e].edits = RowOf(e).edits

\* An acknowledged row names one event for ever, and an attempted row is never
\* deleted or reopened: the first writer wins whoever else sends.
OutcomeIsStable ==
    [][\A t \in Turns, s \in Stages :
        /\ rows[t][s].acked # NoEvent => rows'[t][s].acked = rows[t][s].acked
        /\ rows[t][s].attempted => rows'[t][s].attempted
        /\ rows[t][s].retired => rows'[t][s].retired]_vars

\* The turn record and the outbox name the same answer: a caller that lost the
\* acknowledgement has not written its own event into the record.
RecordNamesAnswer ==
    \A t \in Turns :
        record[t] # NoEvent =>
            /\ rows[t]["final"].acked # NoEvent
            /\ record[t] = CanonicalResponse(rows[t]["final"], rows[t]["final"].acked)

\* Nothing is first offered to the homeserver for a membership that has ended:
\* the fence retires it or the enqueue refuses it, whichever commits first.
NoAttemptAfterFence ==
    [][\A t \in Turns, s \in Stages :
        ~rows[t][s].attempted /\ rows'[t][s].attempted =>
            MembershipIsCurrent(rows[t][s].epoch)]_vars

\* Both stages of a delivery belong to the membership that admitted the turn,
\* and to one membership when the journal never admitted it.
OneMembershipPerTurn ==
    \A t \in Turns, s \in Stages :
        rows[t][s].exists =>
            /\ source[t].state # "none" => rows[t][s].epoch = source[t].epoch
            /\ \A x \in Stages : rows[t][x].exists => rows[t][x].epoch = rows[t][s].epoch

\* The projected transcript holds no delivery of an ended membership, however
\* a late acknowledgement or a sync echo races the departure.
TranscriptIsCurrent ==
    \A e \in shown : ~fenced /\ RowOf(e).exists /\ RowOf(e).epoch = epoch

\* Settled sources have an owner: the answer's row, or a membership or a source
\* that is gone.  No crash finds a turn that neither journal nor outbox owes.
HandoffKeepsOwner ==
    \A t \in Turns :
        source[t].state = "settled" =>
            rows[t]["final"].exists \/ source[t].epoch < epoch \/ Deleted(t)

-----------------------------------------------------------------------------
(* The inductive invariant behind the properties above.                    *)

\* A flush between its claim and its outcome.
ClaimedPcs == {"claimed", "stale", "resolve", "device", "send", "ack", "fail", "retire",
               "cleanResolve", "cleanSend", "cleanAck"}

CleanPcs == {"cleanResolve", "cleanSend", "cleanAck", "cleanRedact", "cleanRetire"}

\* The content a flush holds is the content of its row, which is frozen.
TaskMatchesRow ==
    \A p \in Processes, t \in Turns :
        task[p][t].pc \in ClaimedPcs =>
            /\ rows[t][task[p][t].stage].attempted
            /\ task[p][t].claimed.payload = rows[t][task[p][t].stage].payload
            /\ task[p][t].claimed.edits = rows[t][task[p][t].stage].edits

\* An acknowledgement under way names an event of its own delivery, and
\* cleanup works on placeholders only.
TaskShape ==
    \A p \in Processes, t \in Turns :
        /\ task[p][t].pc \in {"ack", "cleanAck"} =>
            task[p][t].event \in EventIds /\ Delivers(task[p][t].event, t, task[p][t].stage)
        /\ task[p][t].pc \in CleanPcs \cup {"flush"} => task[p][t].stage = "initial"

\* The rows are well formed: no outcome without an attempt, no attempt without
\* a row, and an answer edits the acknowledged placeholder or nothing.
RowShape == WellFormed(rows)

\* No turn runs and no row exists before the journal admitted the turn, unless
\* it is one the journal never sees; no admission is of a later membership.
TurnShape ==
    \A t \in Turns :
        /\ source[t].epoch <= epoch
        /\ (\E s \in Stages : rows[t][s].exists) \/ (\E p \in Processes : t \in running[p]) =>
            t \in HookTurns \/ source[t].state # "none"

\* A row that may still be claimed for the first time is the current
\* membership's.
UnattemptedIsCurrent ==
    \A t \in Turns, s \in Stages :
        rows[t][s].exists /\ ~rows[t][s].attempted /\ ~rows[t][s].retired =>
            MembershipIsCurrent(rows[t][s].epoch)

\* A transcript entry is an attempted delivery.
ShownIsAttempted == \A e \in shown : RowOf(e).attempted

\* The strengthening that every step preserves.
DeliveryInv ==
    /\ TypeOK
    /\ TaskMatchesRow
    /\ TaskShape
    /\ RowShape
    /\ TurnShape
    /\ RoomShowsRow
    /\ RecordNamesAnswer
    /\ OneMembershipPerTurn
    /\ UnattemptedIsCurrent
    /\ ShownIsAttempted
    /\ TranscriptIsCurrent
    /\ HandoffKeepsOwner

-----------------------------------------------------------------------------
(* Properties of one process, whose lock orders the flushes of a turn.     *)

VisibleCopies(t, s) ==
    {e \in EventIds : Delivers(e, t, s) /\ room[e].state = "visible"}

\* A delivery is visible at most once, although the process may crash before
\* any acknowledgement and come back as another device.
OneCopy == \A t \in Turns, s \in Stages : Cardinality(VisibleCopies(t, s)) <= 1

\* A retired delivery is not in the room: what was given up was never shown,
\* or was taken back first.
RetiredIsInvisible ==
    \A e \in EventIds : room[e].state = "visible" => ~RowOf(e).retired

\* A placeholder does not appear after an answer that stands on its own, except
\* as the resend by which cleanup finds the event it then removes.
NoPlaceholderAfterAnswer ==
    [][\A t \in Turns :
        ~Deleted(t) /\ (\E e \in VisibleCopies(t, "final") : room[e].edits = NoEvent) =>
            VisibleCopies(t, "initial")' \subseteq VisibleCopies(t, "initial")]_vars

\* Cleanup takes back no placeholder that an owed or a delivered answer edits.
CleanupSparesAnswers ==
    [][\A e \in EventIds :
        room[e].state = "visible" /\ room'[e].state = "redacted" => ~FinalOwned(e.turn)]_vars

\* Placeholders are handled with care in both directions: none surfaces under a
\* finished answer, and none is taken from an answer that needs it.
PlaceholderCare == NoPlaceholderAfterAnswer /\ CleanupSparesAnswers

\* Cleanup of a deleted source finds a placeholder some other device may have
\* sent and the room does not show it, so it raises on every pass.
Unprovable(t) ==
    LET row == rows[t]["initial"] IN
    /\ Deleted(t) /\ row.attempted /\ row.acked = NoEvent /\ ~row.retired
    /\ Copies(t, "initial", row) = {}
    /\ \A p \in Processes : ~Deduplicates(p, row)

\* Only a scan can tell what became of an attempt, because its membership has
\* ended, no process is the device that made it, or its source was deleted; and
\* the history is too long or unreadable, so the scan refuses on every pass.
Untraceable(t, s) ==
    LET row == rows[t][s] IN
    /\ t \in buried
    /\ row.attempted /\ row.acked = NoEvent /\ ~row.retired
    /\ \/ row.epoch # epoch
       \/ \A p \in Processes : ~Deduplicates(p, row)
       \/ s = "initial" /\ Deleted(t)

\* An answer waits for good behind a placeholder of unknown outcome.
Stuck(t, s) ==
    \/ Untraceable(t, s)
    \/ s = "initial" /\ Unprovable(t)
    \/ ClaimBlocked(rows, t, s) /\ Untraceable(t, "initial")

\* Whatever the outbox owes stops being owed: sent, refused for good, retired
\* or superseded, through crashes, lost answers, re-logins, departures and
\* redactions.  What stays owed is from some point on, and for ever, a delivery
\* whose fate nobody can establish, or an answer behind one.
DebtIsDischarged ==
    \A t \in Turns, s \in Stages : []<>~Owed(rows[t][s]) \/ <>[]Stuck(t, s)

\* The placeholder of a deleted source that the room's tombstones list does not
\* stay for ever: it is taken back, or an answer or the end of the membership
\* takes it over.  What stays listed is not in the room, or the scan refuses to
\* look that far.
PlaceholderIsRemoved ==
    \A t \in Turns :
        []<>~CleanupListed(t) \/ <>[](Unprovable(t) \/ Untraceable(t, "initial"))

-----------------------------------------------------------------------------
(* The promise to the rest of the system: module AnswerOnce.               *)

\* What the outbox row of an answer amounts to.
PhaseOf(row) ==
    IF ~row.exists THEN "none"
    ELSE IF row.acked # NoEvent THEN "delivered"
    ELSE IF row.retired THEN "withdrawn"
    ELSE IF row.failed THEN "refused"
    ELSE "owed"

Posted(t) == \E e \in EventIds : Delivers(e, t, "final") /\ room[e].state # "absent"

AnswerPhase == [t \in Turns |-> PhaseOf(rows[t]["final"])]
AnswerPosted == [t \in Turns |-> Posted(t)]
AnswersStuck == {t \in Turns : Stuck(t, "final")}

Shared == INSTANCE AnswerOnce WITH Exclusive <- FALSE, phase <- AnswerPhase,
                              posted <- AnswerPosted, stuck <- AnswersStuck
Sole == INSTANCE AnswerOnce WITH Exclusive <- TRUE, phase <- AnswerPhase,
                              posted <- AnswerPosted, stuck <- AnswersStuck

\* However many processes send, an answer moves from owed to an outcome and
\* never back, and is recorded as delivered only if the homeserver has it.
ImplementsShared == Shared!Spec

\* With one process an outcome is final: nothing is posted after it, nothing
\* visible is withdrawn, and every answer that is owed reaches an outcome, unless
\* nobody can find out whether the homeserver has it.
ImplementsSole == Sole!LiveSpec
=============================================================================
