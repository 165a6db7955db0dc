------------------------------- MODULE Outbox -------------------------------
(***************************************************************************)
(* The rows of the matrix_delivery_outbox table and the transactions on    *)
(* them, as functions from the table to the table                          *)
(* (src/src/mindroom/event_journal/outbox.py).  Every operator is one      *)
(* statement list that runs inside one database transaction, so a state    *)
(* machine that uses one in an action takes it as a single atomic step.    *)
(*                                                                         *)
(* A delivery is a turn and a stage: INITIAL is the placeholder, FINAL the *)
(* answer.  The transaction ID is a function of the delivery alone         *)
(* (identity.py), so the pair <<turn, stage>> stands for it.  A Matrix     *)
(* homeserver remembers a transaction ID per device, which is why an event *)
(* is named by the delivery and the device that first got it accepted.     *)
(***************************************************************************)
EXTENDS Naturals

CONSTANTS
    Turns,      \* delivery identities: the anchor event of each turn
    Devices,    \* Matrix devices this account has ever been logged in as
    Payloads,   \* wire contents, opaque to the outbox
    NoPayload,  \* the payload column of a row that does not exist
    NoEvent,    \* NULL in the edits_event_id and acknowledged_event_id columns
    NoDevice    \* NULL in the sending_device_id column

ASSUME DeliveryConstants ==
    /\ NoPayload \notin Payloads
    /\ NoDevice \notin Devices
    /\ NoEvent \notin [turn : Turns, stage : {"initial", "final"}, device : Devices]

Stages == {"initial", "final"}

\* The event the homeserver creates when a device first gets a delivery in.
EventIds == [turn : Turns, stage : Stages, device : Devices]

EventId(t, s, d) == [turn |-> t, stage |-> s, device |-> d]

\* An event that carries a given delivery.
Delivers(e, t, s) == e.turn = t /\ e.stage = s

Row == [exists    : BOOLEAN,
        epoch     : Nat,
        payload   : Payloads \cup {NoPayload},
        edits     : EventIds \cup {NoEvent},
        attempted : BOOLEAN,
        retired   : BOOLEAN,
        failed    : BOOLEAN,
        device    : Devices \cup {NoDevice},
        acked     : EventIds \cup {NoEvent}]

\* The table: one row, present or not, per delivery.
Table == [Turns -> [Stages -> Row]]

\* No row for this delivery.
EmptyRow == [exists |-> FALSE, epoch |-> 0, payload |-> NoPayload,
             edits |-> NoEvent, attempted |-> FALSE, retired |-> FALSE,
             failed |-> FALSE, device |-> NoDevice, acked |-> NoEvent]

\* What recovery still has to send: the WHERE clause of unacknowledged().
Owed(row) == row.exists /\ row.acked = NoEvent /\ ~row.retired /\ ~row.failed

\* Offered to the homeserver with an outcome nobody has recorded.
Unresolved(row) == Owed(row) /\ row.attempted

-----------------------------------------------------------------------------
(* enqueue: the row of another stage owns the delivery.  The query has a   *)
(* LIMIT and no ORDER BY, so `pick` is any stage that has a row.           *)

StagesPresent(r, t) == {s \in Stages : r[t][s].exists}

OwnerRefuses(r, t, pick, e) == r[t][pick].retired \/ r[t][pick].epoch # e

\* A plausible bug: the upsert without its "attempted = 0" condition.
EnqueueThawsAttempted(r, t, s, e, payload, edits, failed) ==
    IF r[t][s].failed
    THEN r
    ELSE [r EXCEPT ![t][s] = [@ EXCEPT !.exists = TRUE, !.epoch = e,
                                       !.payload = payload, !.edits = edits,
                                       !.failed = failed]]

\* The upsert writes an absent row, or one that is neither attempted nor failed.
Enqueue(r, t, s, e, payload, edits, failed) ==
    IF r[t][s].attempted \/ r[t][s].failed
    THEN r
    ELSE [r EXCEPT ![t][s] = [@ EXCEPT !.exists = TRUE, !.epoch = e,
                                       !.payload = payload, !.edits = edits,
                                       !.failed = failed]]

-----------------------------------------------------------------------------
(* claim: withdrawn rows, the superseded placeholder, and the answer that  *)
(* waits for the placeholder's unknown outcome.                            *)

ClaimWithdrawn(r, t, s) == ~r[t][s].exists \/ r[t][s].retired \/ r[t][s].failed

\* A plausible bug: an answer also supersedes a placeholder that was offered.
ClaimSupersededAttempted(r, t, s) ==
    ~ClaimWithdrawn(r, t, s) /\ s = "initial" /\ r[t]["final"].exists

ClaimSuperseded(r, t, s) ==
    /\ ~ClaimWithdrawn(r, t, s)
    /\ s = "initial"
    /\ ~r[t][s].attempted
    /\ r[t]["final"].exists

ClaimBlocked(r, t, s) ==
    /\ ~ClaimWithdrawn(r, t, s)
    /\ s = "final"
    /\ r[t][s].edits = NoEvent
    /\ Unresolved(r[t]["initial"])

ClaimGranted(r, t, s) ==
    ~ClaimWithdrawn(r, t, s) /\ ~ClaimSuperseded(r, t, s) /\ ~ClaimBlocked(r, t, s)

\* A plausible bug: every claim, not the first one, stamps the device.
ClaimStampsAlways(r, t, s, device) ==
    IF ClaimSuperseded(r, t, s) THEN [r EXCEPT ![t][s] = EmptyRow]
    ELSE IF ClaimGranted(r, t, s)
    THEN [r EXCEPT ![t][s] = [@ EXCEPT !.attempted = TRUE, !.device = device]]
    ELSE r

Claim(r, t, s, device) ==
    IF ClaimSuperseded(r, t, s) THEN [r EXCEPT ![t][s] = EmptyRow]
    ELSE IF ClaimGranted(r, t, s) /\ ~r[t][s].attempted
    THEN [r EXCEPT ![t][s] = [@ EXCEPT !.attempted = TRUE, !.device = device]]
    ELSE r

RecordDevice(r, t, s, device) ==
    IF r[t][s].exists THEN [r EXCEPT ![t][s].device = device] ELSE r

-----------------------------------------------------------------------------
(* The outcomes: acknowledged, permanently refused, retired.               *)

AcknowledgeBinds(r, t, s) == r[t][s].exists /\ r[t][s].acked = NoEvent

Acknowledge(r, t, s, e) ==
    IF AcknowledgeBinds(r, t, s)
    THEN [r EXCEPT ![t][s] = [@ EXCEPT !.acked = e, !.failed = FALSE]]
    ELSE r

RecordPermanentFailure(r, t, s) ==
    IF Owed(r[t][s]) THEN [r EXCEPT ![t][s].failed = TRUE] ELSE r

Retire(r, t, s) ==
    IF AcknowledgeBinds(r, t, s) THEN [r EXCEPT ![t][s].retired = TRUE] ELSE r

\* A plausible bug: the fence leaves never-attempted answers to be sent.
RetireNothing(r) == r

\* What leaving the room does to the table: _advance_membership_epoch.
RetireUnattempted(r) ==
    [t \in Turns |-> [s \in Stages |->
        IF AcknowledgeBinds(r, t, s) /\ ~r[t][s].attempted
        THEN [r[t][s] EXCEPT !.retired = TRUE]
        ELSE r[t][s]]]

-----------------------------------------------------------------------------
(* What every transaction preserves, in the terms the proofs need.         *)

\* What the columns of a row say about each other, and what an answer edits.
WellFormed(r) ==
    \A t \in Turns, s \in Stages :
        /\ r[t][s].attempted \/ r[t][s].failed \/ r[t][s].retired => r[t][s].exists
        /\ r[t][s].acked # NoEvent => r[t][s].attempted /\ Delivers(r[t][s].acked, t, s)
        /\ r[t][s].edits # NoEvent =>
            /\ s = "final"
            /\ r[t][s].edits = r[t]["initial"].acked

\* From r to r1 no attempt, outcome or answer is forgotten, what was attempted
\* is frozen, and only a row that still stands is attempted.
Keeps(r, r1) ==
    \A t \in Turns, s \in Stages :
        /\ r[t][s].attempted =>
            /\ r1[t][s].attempted
            /\ r1[t][s].payload = r[t][s].payload
            /\ r1[t][s].edits = r[t][s].edits
        /\ r[t][s].acked # NoEvent => r1[t][s].acked = r[t][s].acked
        /\ r[t][s].retired => r1[t][s].retired
        /\ s = "final" /\ r[t][s].exists => r1[t][s].exists
        /\ r1[t][s].attempted /\ ~r[t][s].attempted => r[t][s].exists /\ ~r[t][s].retired

\* No row appears, and none changes the membership it belongs to.
NoNewRows(r, r1) ==
    \A t \in Turns, s \in Stages :
        r1[t][s].exists => r[t][s].exists /\ r1[t][s].epoch = r[t][s].epoch
=============================================================================
