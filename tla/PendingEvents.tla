--------------------------- MODULE PendingEvents ---------------------------
(***************************************************************************)
(* From the Matrix stream to a finished callback: the ingestion pump       *)
(* (matrix/durable_ingestion.py) commits batches to the journal, the       *)
(* pending-event worker (pending_event_worker.py) discovers rooms that owe *)
(* work and runs one ordered lane per room, and the dispatcher             *)
(* (journal_dispatch.py) runs the callback, which finishes the event or    *)
(* hands it to a turn that outlives it.                                    *)
(*                                                                         *)
(* An event is its receipt order. Everything between two awaits is one     *)
(* step; the worker's memory is one record `w`, and the synchronous        *)
(* methods are operators from memory to memory that actions compose.       *)
(***************************************************************************)
EXTENDS Integers, Sequences, FiniteSets, SequencesExt

CONSTANTS
    Rooms,
    MaxEvent,       \* events are 1 .. MaxEvent, in receipt order
    RoomOf,         \* the room of each event
    Workloads       \* the streams to check, each with its page limits and
                    \* the bound on its troubles

Events == 1..MaxEvent
NoProgress == [cursor |-> -1, rewind |-> FALSE, admitted |-> 0, deferredCount |-> 0]

\* Receipt orders are given on admission: what a batch admits first is later
\* than everything the batches before it admitted.
InReceiptOrder(batches) ==
    \A i, j \in DOMAIN batches : i < j =>
        \A e \in batches[j].admits :
            \/ \E k \in 1..i : e \in batches[k].admits
            \/ \A d \in batches[i].admits : d < e

ASSUME PendingAssumption ==
    /\ MaxEvent \in Nat /\ RoomOf \in [Events -> Rooms]
    /\ Workloads \subseteq [batches : Seq([admits : SUBSET Events, settles : SUBSET Events]),
                         turnBacked : SUBSET Events, batchSize : Nat \ {0},
                         maxPages : Nat \ {0}, troubles : Nat]
    /\ \A l \in Workloads : InReceiptOrder(l.batches)

VARIABLES
    state,          \* journal row of each event: "none", "pending", "settled"
    nextSequence,   \* matrix_sync_consumers.next_sequence
    acked,          \* batches nio may forget
    paused,         \* sources a waiting approval keeps off the pending pages
    ingest,         \* the ingestion pump: "idle", or "hooks" after its commit
    w,              \* the worker's memory
    owner,          \* the live claim on each source
    late,           \* the handoff an ended turn still has to report
    cooled,         \* history: events with no callback since their room last cooled down
    load            \* the workload under way, and the troubles it has left

durable == <<state, nextSequence, acked, paused>>
turns == <<owner, late>>
history == <<cooled>>

Batches == load.batches         \* what each batch admits and what it settles
TurnBacked == load.turnBacked   \* events whose callback may hand them to a turn
BatchSize == load.batchSize     \* _BATCH_SIZE: rows per page, deferrals per probe
MaxPages == load.maxPages       \* _MAX_SCAN_PAGES: pages per pass

\* Failures, turns that do not answer, drains, restarts and crashes are bounded.
Trouble == load.troubles > 0 /\ load' = [load EXCEPT !.troubles = @ - 1]
vars == <<durable, ingest, w, turns, history, load>>

-----------------------------------------------------------------------------
(* The worker's memory.                                                    *)

NoLane == [pc |-> "off", page |-> {}, resume |-> 0, end |-> FALSE, pages |-> 0,
           event |-> 0, pending |-> FALSE, handed |-> FALSE, more |-> FALSE, failed |-> FALSE]
NoRetry == [at |-> "none", failed |-> 0]
NoScan == [on |-> FALSE, origin |-> 0, cursor |-> 0, wrapped |-> FALSE, pages |-> 0, rooms |-> {},
           started |-> FALSE]

\* A fresh process: start() has created the pump and set the wake flag.
FreshWorker ==
    [rooms |-> [r \in Rooms |-> NoProgress], ready |-> {}, retries |-> [r \in Rooms |-> NoRetry],
     deferred |-> <<>>, wake |-> TRUE, retry |-> FALSE, probes |-> -1,
     lanes |-> [r \in Rooms |-> NoLane], scan |-> NoScan, scanCursor |-> 0,
     drain |-> NoScan, draining |-> [r \in Rooms |-> "off"], stopped |-> FALSE]

Deferred(m) == Range(m.deferred)
HasProgress(m, r) == m.rooms[r].cursor # -1
BackingOff(m, r) == m.retries[r].at = "sleeping"
LaneRuns(m, r) == m.lanes[r].pc \notin {"off", "done"}

\* rooms.setdefault: a room's progress record, created at the beginning.
Default(progress) == IF progress.cursor = -1 THEN [NoProgress EXCEPT !.cursor = 0] ELSE progress

QueueRoom(m, r, rewind) ==
    LET progress == Default(m.rooms[r])
    IN  [m EXCEPT !.rooms[r] = [progress EXCEPT !.rewind = @ \/ rewind], !.ready = @ \cup {r}]

\* _deferred.pop(event_id): the order of the others stays.
Without(s, e) == RemoveAt(s, CHOOSE i \in DOMAIN s : s[i] = e)

\* release of one event: forget its deferral and offer its room again.
Release(m, e) ==
    IF e \notin Deferred(m) THEN m
    ELSE [m EXCEPT !.deferred = Without(@, e), !.wake = TRUE,
                   !.rooms[RoomOf[e]].deferredCount = @ - 1, !.ready = @ \cup {RoomOf[e]}]

Defer(m, e) ==
    LET progress == Default(m.rooms[RoomOf[e]])
    IN  IF e \in Deferred(m) THEN m
        ELSE [m EXCEPT !.deferred = Append(@, e),
                       !.rooms[RoomOf[e]] = [progress EXCEPT !.deferredCount = @ + 1]]

\* _start_lane: the one admission boundary. A lane that is done but whose
\* callback has not run yet is replaced, and its callback then does nothing.
Starts(m, r) == ~(m.stopped \/ BackingOff(m, r) \/ LaneRuns(m, r))

StartLanes(m, rooms) ==
    LET started == {r \in rooms : Starts(m, r)}
    IN  [m EXCEPT !.ready = @ \ started,
                  !.rooms = [r \in Rooms |-> IF r \in started THEN Default(@[r]) ELSE @[r]],
                  !.lanes = [r \in Rooms |-> IF r \in started THEN [NoLane EXCEPT !.pc = "read"] ELSE @[r]]]

\* wake(room_id=r): a retry handoff rewinds the room before anything else runs.
WakeRoom(m, r) ==
    IF m.stopped THEN m ELSE [StartLanes(QueueRoom(m, r, TRUE), {r}) EXCEPT !.wake = TRUE]

WakeWorker(m) == IF m.stopped THEN m ELSE [m EXCEPT !.wake = TRUE]

Reclaim(m, e) == WakeRoom(Release(m, e), RoomOf[e])

ScheduleRoomRetry(m, r, e) ==
    IF m.stopped THEN m
    ELSE [m EXCEPT !.retries[r] = [at |-> "sleeping", failed |-> IF e = 0 THEN @.failed ELSE e]]

\* _record_room_progress: passing the failed receipt ends the cooldown history.
RecordProgress(m, r, order) ==
    IF m.retries[r].at # "none" /\ order >= m.retries[r].failed
    THEN [m EXCEPT !.retries[r] = NoRetry] ELSE m

ScheduleProbe(m) ==
    IF m.stopped \/ m.deferred = <<>> \/ m.probes # -1 THEN m ELSE [m EXCEPT !.probes = 0]

\* A plausible bug: the request is consumed and the cursor stays.
RewindForgotten(m, r) == [m EXCEPT !.rooms[r].rewind = FALSE]

ApplyRewind(m, r) ==
    IF m.rooms[r].rewind THEN [m EXCEPT !.rooms[r].rewind = FALSE, !.rooms[r].cursor = 0] ELSE m

HasLiveOwner(e) == owner[e] # "none"
DeferralIsLive(e) == e \notin TurnBacked \/ HasLiveOwner(e)

\* One turn of _queue_lost_owners: the oldest deferral moves to the back, and
\* returns to its room when its owner is gone.
ProbeOldest(m) ==
    LET e == Head(m.deferred)
        rotated == [m EXCEPT !.deferred = Append(Tail(@), e)]
    IN  IF DeferralIsLive(e) THEN rotated ELSE Reclaim(rotated, e)

\* The probe takes at most BatchSize turns.
QueueLostOwners(m) ==
    LET n == IF Len(m.deferred) < BatchSize THEN Len(m.deferred) ELSE BatchSize
        after[i \in 0..n] == IF i = 0 THEN m ELSE ProbeOldest(after[i - 1])
    IN  after[n]

-----------------------------------------------------------------------------
(* Pages of pending rows: sets of events, read in receipt order.           *)

Eligible(e) == state[e] = "pending" /\ ~paused[e]

PendingRows(rooms, after) == {e \in Events : Eligible(e) /\ RoomOf[e] \in rooms /\ e > after}

FirstRows(rows) == {e \in rows : Cardinality({d \in rows : d <= e}) <= BatchSize}
ResumeAfter(page, after) == IF page = {} THEN after ELSE Max(page)

-----------------------------------------------------------------------------
(* The ingestion pump.                                                     *)

\* A plausible bug: a duplicate delivery makes its event pending again.
ReadmitsDuplicates(b) ==
    [e \in Events |-> IF e \in b.admits THEN "pending"
                     ELSE IF e \in b.settles /\ state[e] = "pending" THEN "settled" ELSE state[e]]

\* The records of a batch: a new event is pending, a known one stays as it is,
\* and a departure or a redaction settles what its sources still owe.
Applied(b) ==
    [e \in Events |->
        CASE e \in b.admits /\ state[e] = "none" -> "pending"
          [] e \in b.settles /\ state[e] = "pending" -> "settled"
          [] OTHER -> state[e]]

\* One transaction advances next_sequence and applies the batch's records; a
\* batch that was committed before commits nothing. Then hooks run.
AdmitBatch ==
    /\ ingest = "idle" /\ acked < Len(Batches)
    /\ IF nextSequence = acked + 1
       THEN nextSequence' = nextSequence + 1 /\ state' = Applied(Batches[acked + 1])
       ELSE UNCHANGED <<nextSequence, state>>
    /\ ingest' = "hooks"
    /\ UNCHANGED <<acked, paused, w, turns, history, load>>

\* A plausible bug: no wake follows the acknowledgement.
AckWithoutWake ==
    /\ ingest = "hooks"
    /\ ingest' = "idle" /\ acked' = acked + 1
    /\ UNCHANGED <<state, nextSequence, paused, w, turns, history, load>>

\* The acknowledgement, and the wake that follows it for a new batch and for
\* a redelivered one alike.
AckBatch ==
    /\ ingest = "hooks"
    /\ ingest' = "idle" /\ acked' = acked + 1
    /\ w' = WakeWorker(w)
    /\ UNCHANGED <<state, nextSequence, paused, turns, history, load>>

\* A hook or the acknowledgement raises: nio keeps the batch.
IngestFails ==
    /\ ingest = "hooks" /\ Trouble
    /\ ingest' = "idle"
    /\ UNCHANGED <<durable, w, turns, history>>

-----------------------------------------------------------------------------
(* Discovery: the pump's bounded scan and the drain's whole-backlog scan.  *)

\* One page of _discover_rooms applied to a scan s; `done` when the scan has
\* seen every row once, `more` when its page budget ran out first.
ScanPage(s, whole) ==
    LET rows == FirstRows(PendingRows(Rooms, s.cursor))
        full == Cardinality(rows) = BatchSize
        beyond == s.wrapped /\ s.origin # 0 /\ \E e \in rows : e > s.origin
        looked == {e \in rows : ~(beyond /\ e > s.origin)}
        found == s.rooms \cup {RoomOf[e] : e \in looked \ Deferred(w)}
        done == beyond \/ (~full /\ s.wrapped)
        next == [s EXCEPT !.rooms = found, !.pages = @ + 1,
                          !.wrapped = @ \/ ~full,
                          !.cursor = IF full THEN ResumeAfter(rows, @) ELSE 0]
    IN  [scan |-> next, done |-> done, more |-> ~done /\ ~whole /\ next.pages >= MaxPages]

ScanFrom(origin) == [NoScan EXCEPT !.on = TRUE, !.origin = origin, !.cursor = origin, !.wrapped = origin = 0]

\* _run takes the wake flag and starts the rooms already queued.
PumpWakes ==
    /\ ~w.stopped /\ ~w.scan.on /\ w.wake
    /\ w' = [StartLanes([w EXCEPT !.wake = FALSE], w.ready) EXCEPT
                !.scan = [ScanFrom(w.scanCursor) EXCEPT !.started = \E r \in w.ready : Starts(w, r)]]
    /\ UNCHANGED <<durable, ingest, turns, history, load>>

\* The end of _dispatch_ready_rooms: probe deferrals, start what was found,
\* and come back at once only if this dispatch started a lane.
Dispatched(m, scan, more) ==
    LET probed == QueueLostOwners(m)
        queued == [probed EXCEPT
                      !.ready = @ \cup scan.rooms,
                      !.rooms = [r \in Rooms |-> IF r \in scan.rooms THEN Default(@[r]) ELSE @[r]]]
        started == scan.started \/ \E r \in queued.ready : Starts(queued, r)
        running == StartLanes(queued, queued.ready)
    IN  ScheduleProbe([running EXCEPT !.wake = @ \/ (more /\ started), !.retry = @ \/ (more /\ ~started)])

PumpReads ==
    /\ w.scan.on
    /\ LET p == ScanPage(w.scan, FALSE)
           idle == [w EXCEPT !.scan = NoScan, !.scanCursor = IF p.more THEN p.scan.cursor ELSE 0]
       IN  w' = IF p.done \/ p.more THEN Dispatched(idle, p.scan, p.more)
                ELSE [w EXCEPT !.scan = p.scan]
    /\ UNCHANGED <<durable, ingest, turns, history, load>>

\* The read raises: the pump comes back after its own delay.
PumpFails ==
    /\ w.scan.on /\ Trouble
    /\ w' = [w EXCEPT !.scan = NoScan, !.retry = TRUE]
    /\ UNCHANGED <<durable, ingest, turns, history>>

RetryTimer ==
    /\ w.retry
    /\ w' = [w EXCEPT !.retry = FALSE, !.wake = TRUE]
    /\ UNCHANGED <<durable, ingest, turns, history, load>>

-----------------------------------------------------------------------------
(* A room's lane.                                                          *)

EndPass(m, r, more) ==
    LET failed == BackingOff(m, r)
    IN  [m EXCEPT !.lanes[r] = [NoLane EXCEPT !.pc = "done", !.more = more /\ ~failed, !.failed = failed],
                  !.draining[r] = IF @ # "own" THEN @
                                  ELSE IF failed THEN "off" ELSE IF more THEN "go" ELSE "check"]

NextPage(m, r) ==
    IF m.lanes[r].pages >= MaxPages THEN EndPass(m, r, TRUE)
    ELSE [m EXCEPT !.lanes[r].pc = "read", !.lanes[r].event = 0]

\* After the last event of a page: keep its resume point, honor a rewind, and
\* end the pass when the page was the last one.
PageEnds(m, r) ==
    LET kept == [m EXCEPT !.rooms[r].cursor = m.lanes[r].resume]
    IN  IF m.rooms[r].rewind THEN NextPage(ApplyRewind(kept, r), r)
        ELSE IF m.lanes[r].end THEN EndPass([kept EXCEPT !.rooms[r].cursor = 0], r, FALSE)
        ELSE NextPage(kept, r)

\* On to the next event of the page that no owner holds; a rewind stops the
\* page before it.
NextEvent(m, r) ==
    LET page == m.lanes[r].page
        free == page \ Deferred(m)
        first == Min(free)
        held == {e \in page : e < first}
        skipped == IF held = {} THEN m ELSE [m EXCEPT !.rooms[r].cursor = Max(held)]
        lane == [m.lanes[r] EXCEPT !.pc = "check", !.event = first, !.pending = FALSE, !.handed = FALSE,
                                   !.page = {e \in page : e > first}]
    IN  IF page # {} /\ m.rooms[r].rewind THEN EndPass(ApplyRewind(m, r), r, TRUE)
        ELSE IF free = {} THEN PageEnds(m, r)
        ELSE [RecordProgress(skipped, r, first - 1) EXCEPT !.lanes[r] = lane]

\* _run_room_event returned True: the lane moves past the event.
Passed(m, r, e) == NextEvent([m EXCEPT !.rooms[r].cursor = e], r)

\* The exception path of _run_room; e = 0 when no event was in hand.
LaneRaises(m, r, e) ==
    LET freed == IF e = 0 THEN m ELSE [Release(m, e) EXCEPT !.rooms[r].cursor = e - 1]
    IN  EndPass(ScheduleRoomRetry(freed, r, e), r, FALSE)

\* The rewind at the head of the loop, and the page's snapshot. A cooldown's
\* callback that is already queued on the loop runs before any read completes.
LaneReads(r) ==
    /\ w.lanes[r].pc = "read" /\ ~w.stopped /\ w.retries[r].at # "awake"
    /\ LET m == ApplyRewind(w, r)
           page == FirstRows(PendingRows({r}, m.rooms[r].cursor))
           lane == [m.lanes[r] EXCEPT !.pc = "page", !.page = page, !.pages = @ + 1,
                                      !.resume = ResumeAfter(page, m.rooms[r].cursor),
                                      !.end = Cardinality(page) < BatchSize]
       IN  w' = [m EXCEPT !.lanes[r] = lane]
    /\ UNCHANGED <<durable, ingest, turns, history, load>>

\* A rewind requested while the page was being read discards the snapshot.
LaneGetsPage(r) ==
    /\ w.lanes[r].pc = "page" /\ ~w.stopped
    /\ w' = IF w.rooms[r].rewind THEN NextPage(ApplyRewind(w, r), r) ELSE NextEvent(w, r)
    /\ UNCHANGED <<durable, ingest, turns, history, load>>

LaneChecks(r) ==
    /\ w.lanes[r].pc = "check"
    /\ w' = [w EXCEPT !.lanes[r].pc = "checked", !.lanes[r].pending = state[w.lanes[r].event] = "pending"]
    /\ UNCHANGED <<durable, ingest, turns, history, load>>

\* The callback returned False: the event stays pending with its owner, or
\* goes straight back when that owner is already gone.
Deferring(m, r, e) ==
    LET d == Defer(m, e)
    IN  Passed(IF DeferralIsLive(e) THEN d ELSE Reclaim(d, e), r, e)

\* A plausible bug: what this traversal already admitted is not remembered.
FreshAlways(r) == ~w.rooms[r].rewind /\ w.lanes[r].pending

\* The event is still owed and this traversal has not admitted it yet.
Fresh(r) == ~w.rooms[r].rewind /\ w.lanes[r].pending /\ w.lanes[r].event > w.rooms[r].admitted

\* What the lane does with the answer of is_pending: give the page up to a
\* rewind, drop a settled event, cool a revisited one down, leave one to the
\* owner that holds it, or run the callback.
LaneAdmits(r) ==
    LET e == w.lanes[r].event
        fresh == Fresh(r)
        admitted == [w EXCEPT !.rooms[r].admitted = e]
    IN  /\ w.lanes[r].pc = "checked" /\ ~w.stopped
        /\ \/ /\ ~fresh
              /\ w' = IF w.rooms[r].rewind THEN EndPass(ApplyRewind(w, r), r, TRUE)
                      ELSE IF ~w.lanes[r].pending THEN Passed(Release(w, e), r, e)
                      ELSE EndPass(ScheduleRoomRetry(w, r, e), r, FALSE)
              /\ UNCHANGED history
           \/ /\ fresh /\ e \in TurnBacked /\ HasLiveOwner(e)
              /\ w' = Deferring(admitted, r, e)
              /\ UNCHANGED history
           \/ /\ fresh /\ ~(e \in TurnBacked /\ HasLiveOwner(e))
              /\ w' = [admitted EXCEPT !.lanes[r].pc = "callback"]
              /\ cooled' = cooled \ {e}
        /\ UNCHANGED <<durable, ingest, turns, load>>

CallbackSettles(r) ==
    /\ w.lanes[r].pc = "callback" /\ ~w.lanes[r].handed
    /\ w' = [Release(w, w.lanes[r].event) EXCEPT !.lanes[r].pc = "settle"]
    /\ UNCHANGED <<durable, ingest, turns, history, load>>

CallbackDefers(r) ==
    /\ w.lanes[r].pc = "callback" /\ w.lanes[r].handed
    /\ w' = Deferring(w, r, w.lanes[r].event)
    /\ UNCHANGED <<durable, ingest, turns, history, load>>

LaneSettles(r) ==
    LET e == w.lanes[r].event
    IN  /\ w.lanes[r].pc = "settle"
        /\ state' = [state EXCEPT ![e] = "settled"]
        /\ w' = Passed(RecordProgress(w, r, e), r, e)
        /\ UNCHANGED <<nextSequence, acked, paused, ingest, turns, history, load>>

\* A read, the callback or the settlement raises.
LaneFails(r) ==
    /\ w.lanes[r].pc \in {"read", "check", "callback", "settle"} /\ Trouble
    /\ w' = LaneRaises(w, r, w.lanes[r].event)
    /\ UNCHANGED <<durable, ingest, turns, history>>

\* A plausible bug: the progress record goes although events are deferred.
LaneFinishedDropping(r) ==
    /\ w.lanes[r].pc = "done"
    /\ w' = [w EXCEPT !.lanes[r] = NoLane, !.rooms[r] = NoProgress, !.ready = @ \ {r}]
    /\ UNCHANGED <<durable, ingest, turns, history, load>>

\* The done callback of a lane that nobody replaced.
LaneFinished(r) ==
    LET lane == w.lanes[r]
        closed == [w EXCEPT !.lanes[r] = NoLane]
        clear == ~lane.failed /\ ~lane.more /\ w.rooms[r].deferredCount = 0
        progressed == IF clear THEN RecordProgress(closed, r, MaxEvent) ELSE closed
        queued == IF lane.more THEN [progressed EXCEPT !.ready = @ \cup {r}] ELSE progressed
        next == IF r \in queued.ready THEN StartLanes(queued, {r})
                ELSE IF queued.retries[r].at = "none" /\ queued.rooms[r].deferredCount = 0
                     THEN [queued EXCEPT !.rooms[r] = NoProgress]
                     ELSE queued
    IN  /\ lane.pc = "done"
        /\ w' = IF w.stopped THEN closed ELSE ScheduleProbe(next)
        /\ UNCHANGED <<durable, ingest, turns, history, load>>

\* A cooldown ends: its task is done first, its callback runs a moment later.
CooldownEnds(r) ==
    /\ w.retries[r].at = "sleeping"
    /\ w' = [w EXCEPT !.retries[r].at = "awake"]
    /\ cooled' = cooled \cup {e \in Events : RoomOf[e] = r}
    /\ UNCHANGED <<durable, ingest, turns, load>>

RoomRetryFinished(r) ==
    /\ w.retries[r].at = "awake"
    /\ w' = StartLanes(QueueRoom([w EXCEPT !.retries[r].at = "done", !.rooms[r].admitted = 0], r, FALSE), {r})
    /\ UNCHANGED <<durable, ingest, turns, history, load>>

-----------------------------------------------------------------------------
(* The deferral scan: after its delay, one probe for every BatchSize       *)
(* deferrals, then a wake; it sleeps again while anything is deferred.     *)

ProbesFor(m) == (Len(m.deferred) + BatchSize - 1) \div BatchSize

DeferralScan ==
    LET probed == QueueLostOwners(w)
        left == (IF w.probes = 0 THEN ProbesFor(w) ELSE w.probes) - 1
        woken == IF left > 0 THEN probed ELSE [probed EXCEPT !.wake = TRUE]
    IN  /\ ~w.stopped /\ w.probes # -1
        /\ w' = IF w.deferred = <<>> THEN [w EXCEPT !.probes = -1, !.wake = TRUE]
                ELSE [woken EXCEPT !.probes = IF left > 0 THEN left ELSE IF probed.deferred = <<>> THEN -1 ELSE 0]
        /\ UNCHANGED <<durable, ingest, turns, history, load>>

-----------------------------------------------------------------------------
(* The explicit drain (drain_once): discovery of the whole backlog, then   *)
(* every room through the lanes the pump uses, without waiting cooldowns.  *)

DrainStarts ==
    /\ ~w.stopped /\ ~w.drain.on /\ Trouble
    /\ \A r \in Rooms : w.draining[r] = "off"
    /\ w' = [w EXCEPT !.drain = ScanFrom(0)]
    /\ UNCHANGED <<durable, ingest, turns, history>>

DrainReads ==
    /\ w.drain.on
    /\ LET p == ScanPage(w.drain, TRUE)
           m == QueueLostOwners([w EXCEPT !.drain = NoScan])
       IN  w' = IF p.done
                THEN [m EXCEPT !.draining = [r \in Rooms |-> IF r \in p.scan.rooms \cup m.ready THEN "go" ELSE "off"]]
                ELSE [w EXCEPT !.drain = p.scan]
    /\ UNCHANGED <<durable, ingest, turns, history, load>>

\* One round of _drain_room: wait for a lane that runs, leave a room that is
\* cooling down or exhausted, else run a lane and wait for it.
DrainRoom(r) ==
    /\ \/ /\ w.draining[r] = "check"
          /\ w' = [w EXCEPT !.draining[r] = IF r \in w.ready THEN "go" ELSE "off"]
       \/ /\ w.draining[r] = "go" /\ ~LaneRuns(w, r)
          /\ w' = IF BackingOff(w, r) THEN [w EXCEPT !.draining[r] = "off"]
                  ELSE [StartLanes(QueueRoom(w, r, FALSE), {r}) EXCEPT !.draining[r] = "own"]
    /\ UNCHANGED <<durable, ingest, turns, history, load>>

-----------------------------------------------------------------------------
(* Turns, as the dispatcher sees them: a claim taken inside the callback   *)
(* and dropped when the turn ends however it ends, and a handoff reported  *)
(* before or after the claim is gone.                                      *)

TurnClaims(r) ==
    LET e == w.lanes[r].event
    IN  /\ w.lanes[r].pc = "callback" /\ e \in TurnBacked /\ ~w.lanes[r].handed /\ owner[e] = "none"
        /\ owner' = [owner EXCEPT ![e] = "live"]
        /\ w' = [w EXCEPT !.lanes[r].handed = TRUE]
        /\ UNCHANGED <<durable, ingest, late, history, load>>

\* The FINAL enqueue settles the source in its own transaction.
TurnAnswers(e) ==
    /\ owner[e] = "live"
    /\ owner' = [owner EXCEPT ![e] = "answered"]
    /\ state' = [state EXCEPT ![e] = "settled"]
    /\ UNCHANGED <<nextSequence, acked, paused, ingest, w, late, history, load>>

\* release_delivered_turn_sources, after that commit.
ReleaseDelivered(e) ==
    /\ owner[e] = "answered"
    /\ owner' = [owner EXCEPT ![e] = "leaving"]
    /\ w' = Release(w, e)
    /\ UNCHANGED <<durable, ingest, late, history, load>>

\* retry_turn_sources.
RetrySource(m, e) == WakeRoom(Release(m, e), RoomOf[e])

\* settle_intentionally_ignored_turn_sources releases first and settles after;
\* the lane slot or the tracked response holds the source until it has.
TurnIgnores(e) ==
    /\ owner[e] = "live"
    /\ owner' = [owner EXCEPT ![e] = "ignoring"]
    /\ w' = Release(w, e)
    /\ UNCHANGED <<durable, ingest, late, history, load>>

SettleIgnored(e) ==
    /\ owner[e] = "ignoring"
    /\ owner' = [owner EXCEPT ![e] = "leaving"]
    /\ state' = [state EXCEPT ![e] = "settled"]
    /\ UNCHANGED <<nextSequence, acked, paused, ingest, w, late, history, load>>

\* The settlement raises: the holder lets go and returns the source.
SettleIgnoredFails(e) ==
    /\ owner[e] = "ignoring" /\ Trouble
    /\ owner' = [owner EXCEPT ![e] = "none"]
    /\ w' = RetrySource(w, e)
    /\ cooled' = cooled \cup {e}
    /\ UNCHANGED <<durable, ingest, late>>

DropClaim(e) ==
    /\ owner[e] = "leaving"
    /\ owner' = [owner EXCEPT ![e] = "none"]
    /\ UNCHANGED <<durable, ingest, w, late, history, load>>

\* The turn hands the source back while it still holds its claim.
TurnRetries(e) ==
    /\ owner[e] = "live" /\ Trouble
    /\ owner' = [owner EXCEPT ![e] = "leaving"]
    /\ w' = RetrySource(w, e)
    /\ UNCHANGED <<durable, ingest, late, history>>

\* The turn is gone: it hands the source back later, or never does.
TurnVanishes(e) ==
    /\ owner[e] = "live" /\ Trouble /\ ~late[e]
    /\ owner' = [owner EXCEPT ![e] = "none"]
    /\ \E says \in BOOLEAN : late' = [late EXCEPT ![e] = says]
    /\ UNCHANGED <<durable, ingest, w, history>>

LateHandoff(e) ==
    /\ late[e]
    /\ late' = [late EXCEPT ![e] = FALSE]
    /\ w' = RetrySource(w, e)
    /\ UNCHANGED <<durable, ingest, owner, history, load>>

\* A paused run: its continuation keeps the source off the pending pages
\* until an approval decides, and then the transport returns it.
TurnPauses(e) ==
    /\ owner[e] = "live" /\ state[e] = "pending" /\ Trouble /\ ~late[e]
    /\ owner' = [owner EXCEPT ![e] = "leaving"]
    /\ paused' = [paused EXCEPT ![e] = TRUE]
    /\ UNCHANGED <<state, nextSequence, acked, ingest, w, late, history>>

ApprovalDecides(e) ==
    /\ paused[e] /\ ~late[e]
    /\ paused' = [paused EXCEPT ![e] = FALSE]
    /\ late' = [late EXCEPT ![e] = TRUE]
    /\ cooled' = cooled \cup {e}
    /\ UNCHANGED <<state, nextSequence, acked, ingest, w, owner, load>>

-----------------------------------------------------------------------------
(* Stopping, restarting and crashing.                                      *)

\* begin_shutdown closes admission and cancels every task the worker owns.
BeginShutdown ==
    /\ ~w.stopped /\ Trouble
    /\ w' = [w EXCEPT !.stopped = TRUE, !.scan = NoScan, !.drain = NoScan, !.retry = FALSE, !.probes = -1,
                      !.retries = [r \in Rooms |-> NoRetry], !.draining = [r \in Rooms |-> "off"]]
    /\ UNCHANGED <<durable, ingest, turns, history>>

LaneCancelled(r) ==
    /\ w.stopped /\ w.lanes[r].pc # "off"
    /\ w' = [w EXCEPT !.lanes[r] = NoLane]
    /\ UNCHANGED <<durable, ingest, turns, history, load>>

\* wait_stopped keeps only the deferrals and their counts; start begins anew.
Restart ==
    /\ w.stopped /\ \A r \in Rooms : w.lanes[r].pc = "off"
    /\ w' = [FreshWorker EXCEPT
                !.deferred = w.deferred,
                !.rooms = [r \in Rooms |-> IF w.rooms[r].deferredCount = 0 THEN NoProgress
                              ELSE [NoProgress EXCEPT !.cursor = 0, !.deferredCount = w.rooms[r].deferredCount]]]
    /\ cooled' = Events
    /\ UNCHANGED <<durable, ingest, turns, load>>

\* The process dies: memory is gone, and a waiting approval of the dead
\* runtime no longer keeps its source off the pages.
Crash ==
    /\ Trouble
    /\ w' = FreshWorker /\ ingest' = "idle"
    /\ owner' = [e \in Events |-> "none"] /\ late' = [e \in Events |-> FALSE]
    /\ paused' = [e \in Events |-> FALSE]
    /\ cooled' = Events
    /\ UNCHANGED <<state, nextSequence, acked>>

-----------------------------------------------------------------------------
Init ==
    /\ state = [e \in Events |-> "none"] /\ nextSequence = 1 /\ acked = 0
    /\ paused = [e \in Events |-> FALSE]
    /\ ingest = "idle" /\ w = FreshWorker
    /\ owner = [e \in Events |-> "none"] /\ late = [e \in Events |-> FALSE]
    /\ cooled = Events
    /\ load \in Workloads

LaneStep(r) ==
    \/ LaneReads(r) \/ LaneGetsPage(r) \/ LaneChecks(r) \/ LaneAdmits(r)
    \/ CallbackSettles(r) \/ CallbackDefers(r) \/ LaneSettles(r)
    \/ LaneFinished(r) \/ LaneCancelled(r)

TurnEnds(e) == TurnAnswers(e) \/ TurnIgnores(e)
TurnCleanup(e) ==
    \/ ReleaseDelivered(e) \/ SettleIgnored(e) \/ DropClaim(e) \/ LateHandoff(e) \/ ApprovalDecides(e)

Next ==
    \/ AdmitBatch \/ AckBatch \/ IngestFails
    \/ PumpWakes \/ PumpReads \/ PumpFails \/ RetryTimer \/ DeferralScan
    \/ DrainStarts \/ DrainReads
    \/ BeginShutdown \/ Restart \/ Crash
    \/ \E r \in Rooms :
          \/ LaneStep(r) \/ LaneFails(r) \/ TurnClaims(r)
          \/ CooldownEnds(r) \/ RoomRetryFinished(r) \/ DrainRoom(r)
    \/ \E e \in Events :
          \/ TurnEnds(e) \/ TurnCleanup(e) \/ TurnRetries(e) \/ TurnPauses(e)
          \/ TurnVanishes(e) \/ SettleIgnoredFails(e)

Spec == Init /\ [][Next]_vars

LaneMoves(r) == w'.lanes[r] # w.lanes[r]
DrainMoves(r) == w'.draining[r] # w.draining[r]
PumpMoves == w'.scan # w.scan
DrainScanMoves == w'.drain # w.drain

\* Every task of the event loop runs on, timers fire, a turn ends and reports.
\* For the tasks with a position of their own, weak fairness is written as
\* their trace shows it: a task that can run does not stay where it is.
Fairness ==
    /\ WF_vars(AdmitBatch) /\ WF_vars(AckBatch)
    /\ WF_vars(RetryTimer) /\ WF_vars(DeferralScan) /\ WF_vars(Restart)
    /\ []<>(~w.scan.on /\ (~w.wake \/ w.stopped)) \/ []<><<PumpMoves>>_vars
    /\ []<>(~w.drain.on) \/ []<><<DrainScanMoves>>_vars
    /\ \A r \in Rooms :
          /\ []<>(w.lanes[r].pc = "off") \/ []<><<LaneMoves(r)>>_vars
          /\ []<>(w.draining[r] = "off" \/ LaneRuns(w, r)) \/ []<><<DrainMoves(r)>>_vars
          /\ WF_vars(CooldownEnds(r)) /\ WF_vars(RoomRetryFinished(r))
    /\ \A e \in Events : WF_vars(TurnEnds(e)) /\ WF_vars(TurnCleanup(e))

FairSpec == Spec /\ Fairness

-----------------------------------------------------------------------------
TypeOK ==
    /\ state \in [Events -> {"none", "pending", "settled"}]
    /\ nextSequence \in 1..(Len(Batches) + 1) /\ acked \in 0..Len(Batches)
    /\ paused \in [Events -> BOOLEAN] /\ ingest \in {"idle", "hooks"}
    /\ owner \in [Events -> {"none", "live", "answered", "ignoring", "leaving"}]
    /\ late \in [Events -> BOOLEAN]
    /\ w.rooms \in [Rooms -> [cursor : -1..MaxEvent, rewind : BOOLEAN, admitted : 0..MaxEvent, deferredCount : Nat]]
    /\ w.ready \subseteq Rooms /\ w.wake \in BOOLEAN /\ w.retry \in BOOLEAN /\ w.stopped \in BOOLEAN
    /\ w.deferred \in Seq(Events) /\ w.scanCursor \in 0..MaxEvent
    /\ w.retries \in [Rooms -> [at : {"none", "sleeping", "awake", "done"}, failed : 0..MaxEvent]]

\* The bookkeeping that the worker's dictionary lookups rely on: a room's
\* count is the number of its deferrals, and a room with a deferral, a lane or
\* a cooldown still has its progress record (no KeyError in release,
\* _lane_finished or _room_retry_finished).
DeferralsAreCounted ==
    \A r \in Rooms :
        /\ w.rooms[r].deferredCount = Cardinality({e \in Deferred(w) : RoomOf[e] = r})
        /\ (w.rooms[r].deferredCount > 0 \/ w.lanes[r].pc # "off" \/ w.retries[r].at # "none" \/ r \in w.ready)
              => HasProgress(w, r)

\* nio forgets a batch only once the journal holds every event it admits.
AckedIsJournaled ==
    \A b \in 1..acked : \A e \in Batches[b].admits : state[e] # "none"

\* The invariant of the pump and the worker: types, the bookkeeping of rooms,
\* and no batch lost.
PendingInv == TypeOK /\ DeferralsAreCounted /\ AckedIsJournaled

CallbackStarts(e) ==
    LET r == RoomOf[e]
    IN  w.lanes[r].pc = "checked" /\ w'.lanes[r].pc = "callback" /\ w'.lanes[r].event = e

\* A room's events run in receipt order: when a callback starts, every earlier
\* event of the room that still owes work is with an owner, withheld by an
\* approval, or about to be handed back or settled by a turn that has ended.
ReceiptOrder ==
    [][\A e \in Events : CallbackStarts(e) =>
          \A d \in 1..(e - 1) : RoomOf[d] = RoomOf[e] /\ state[d] = "pending" =>
              d \in Deferred(w) \/ paused[d] \/ late[d] \/ HasLiveOwner(d)]_vars

\* No hot loop: the callback of a source that still owes work runs again only
\* after its room cooled down, the worker restarted, an approval returned it, or
\* the attempt to settle it as ignored failed.
RerunsArePaced ==
    [][\A e \in Events : CallbackStarts(e) /\ state[e] = "pending" => e \in cooled]_vars

\* What was settled stays settled, whatever batch is delivered again.
SettledForever == [][\A e \in Events : state[e] = "settled" => state'[e] = "settled"]_vars

\* Every admitted event is settled in the end: no wake, cooldown, deferral,
\* page or rewind loses one, and once the stream rests the backlog is empty.
EveryEventSettles == []<>(\A e \in Events : state[e] # "pending")
====
