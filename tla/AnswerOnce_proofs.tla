------------------------- MODULE AnswerOnce_proofs -------------------------
(***************************************************************************)
(* MatrixDelivery implements AnswerOnce for any number of processes: every *)
(* step of a flush, a turn, a crash or a departure is a step of the        *)
(* abstract answer, or leaves it alone.                                    *)
(*                                                                         *)
(* The second half is about one process, whose lock orders the flushes of  *)
(* a turn: what it knows between two awaits still holds when it acts, so   *)
(* an answer and a placeholder are shown at most once, what is given up    *)
(* was not shown, and the exclusive AnswerOnce is implemented.             *)
(***************************************************************************)
EXTENDS MatrixDelivery_proofs, FiniteSetTheorems

\* What a task claims about the room: an acknowledgement under way names an
\* event the homeserver has, and a redaction under way names a placeholder.
TaskReal(k, t, rm) ==
    /\ k.pc = "ack" => rm[k.event].state # "absent"
    /\ k.pc = "cleanRedact" => k.event \in EventIds /\ Delivers(k.event, t, "initial")

TasksReal == \A p \in Processes, t \in Turns : TaskReal(task[p][t], t, room)

\* What the homeserver accepted stays accepted.
Growing == \A e \in EventIds : room[e].state # "absent" => room'[e].state # "absent"

-----------------------------------------------------------------------------
(* The room only grows, and only while the outbox rests.                   *)

\* Accepting a transaction adds its event and no other.
LEMMA AcceptGrows ==
    ASSUME TypeOK, NEW x \in EventIds, NEW row, room' = Accept(x, row)
    PROVE  /\ Growing
           /\ \A e \in EventIds : e # x => room'[e] = room[e]
           /\ room'[x].state # "absent"
BY DEF Accept, Growing, TypeOK

\* A step of a flush that changes the room leaves the outbox alone, and what
\* it changes is an event of its own delivery.
LEMMA StepRoom ==
    ASSUME TypeOK, TaskShape, TasksReal, NEW p \in Processes, NEW t \in Turns, Step(p, t)
    PROVE  /\ Growing
           /\ room' # room => rows' = rows
           /\ \A e \in EventIds : room'[e] # room[e] =>
                  \/ Delivers(e, t, "initial")
                  \/ task[p][t].pc = "send" /\ Delivers(e, t, task[p][t].stage)
<1> DEFINE k == task[p][t]
           e == EventId(t, k.stage, device[p])
           e0 == EventId(t, "initial", device[p])
<1>1. k.stage \in Stages /\ device[p] \in Devices /\ "initial" \in Stages
  BY TaskType DEF TypeOK, Stages
<1>2. e \in EventIds /\ e0 \in EventIds /\ Delivers(e, t, k.stage) /\ Delivers(e0, t, "initial")
  BY <1>1, EventIdType DEF EventId, Delivers
<1>3. CASE room' = room
  BY <1>3 DEF Growing
<1>4. CASE (SendAnswered(p, t) \/ SendLost(p, t) \/ SendRefused(p, t)) /\ room' # room
  <2>1. room' = Accept(e, k.claimed) /\ k.pc = "send" /\ rows' = rows
    BY <1>4 DEF SendAnswered, SendLost, SendRefused, durable
  <2> HIDE DEF e
  <2> QED
    BY <1>2, <2>1, AcceptGrows
<1>5. CASE CleanSend(p, t) \/ CleanLost(p, t)
  <2>1. room' = Accept(e0, k.claimed) /\ rows' = rows
    BY <1>5 DEF CleanSend, CleanLost, durable
  <2> HIDE DEF e0
  <2> QED
    BY <1>2, <2>1, AcceptGrows
<1>6. CASE CleanRedact(p, t)
  <2>1. /\ room' = [room EXCEPT ![k.event] = Redacted] /\ rows' = rows
        /\ k.event \in EventIds /\ Delivers(k.event, t, "initial")
    BY <1>6 DEF CleanRedact, durable, TasksReal, TaskReal
  <2>2. Redacted.state # "absent"
    BY DEF Redacted
  <2> HIDE DEF k
  <2> QED
    BY <2>1, <2>2 DEF Growing, TypeOK
<1> QED
  BY <1>3, <1>4, <1>5, <1>6
     DEF Step, Progress, CheckDeleted, ClaimStep, CheckEpoch, ReconcileStale, ReconcileDevice,
         Resolve, StampDevice, SendAnswered, SendLost, SendRefused, AcknowledgeStep, FailStep,
         RetireStep, CleanResolve, CleanUnproven, ScanRefused, CleanAck, CleanRetire

\* Every other step leaves the room alone.
LEMMA NextGrows ==
    ASSUME TypeOK, TaskShape, TasksReal, [Next]_vars
    PROVE  /\ Growing
           /\ room' # room => \E p \in Processes, t \in Turns : Step(p, t)
<1>1. CASE room' = room
  BY <1>1 DEF Growing
<1>2. CASE \E p \in Processes, t \in Turns : Step(p, t)
  BY <1>2, StepRoom
<1> QED
  BY <1>1, <1>2, StartLeaves
     DEF Next, Outside, vars, durable, Admit, DeleteSource, MarkRedacted, Bury, Depart, Rejoin, Echo,
         Raise, Crash

-----------------------------------------------------------------------------
(* Acknowledgements name events the homeserver has.                        *)

\* Replacing one task by one that is right, while the room grows.
LEMMA PutReal ==
    ASSUME TypeOK, TaskShape, TasksReal, Growing,
           NEW p \in Processes, NEW t \in Turns, NEW k, TaskReal(k, t, room'),
           task' = [task EXCEPT ![p][t] = k]
    PROVE  TasksReal'
<1>1. SUFFICES ASSUME NEW q \in Processes, NEW u \in Turns
               PROVE  TaskReal(task'[q][u], u, room')
  BY DEF TasksReal, TaskReal
<1>2. CASE q = p /\ u = t
  BY <1>2 DEF TypeOK
<1>3. CASE ~(q = p /\ u = t)
  <2>1. task'[q][u] = task[q][u]
    BY <1>3 DEF TypeOK
  <2>2. TaskReal(task[q][u], u, room) /\ (task[q][u].pc = "ack" => task[q][u].event \in EventIds)
    BY DEF TasksReal, TaskShape
  <2> HIDE <1>3
  <2> QED
    BY <2>1, <2>2 DEF TaskReal, Growing
<1> QED
  BY <1>2, <1>3

\* Tasks that stay as they are stay right.
LEMMA SameReal ==
    ASSUME TaskShape, TasksReal, Growing, task' = task
    PROVE  TasksReal'
BY DEF TasksReal, TaskReal, TaskShape, Growing

\* A task that is idle or at the start of a flush claims nothing.
LEMMA StartReal ==
    ASSUME NEW k, NEW t, NEW rm, k.pc \notin {"ack", "cleanRedact"}
    PROVE  TaskReal(k, t, rm)
BY DEF TaskReal

\* A finished flush, too.
LEMMA DoneReal ==
    ASSUME NEW k, NEW t, NEW b, NEW rm
    PROVE  TaskReal(NoTask, t, rm) /\ TaskReal(Done(k, b), t, rm)
<1>1. NoTask.pc = "idle" /\ Done(k, b).pc \in {"idle", "flush", "claim"}
  BY DEF NoTask, Done
<1> QED
  BY <1>1 DEF TaskReal

\* A step of a flush leaves its task right.
LEMMA StepReal ==
    ASSUME TypeOK, TaskShape, RowShape, TasksReal, Growing,
           NEW p \in Processes, NEW t \in Turns, Step(p, t)
    PROVE  TasksReal'
<1> DEFINE k == task[p][t]
           e == EventId(t, k.stage, device[p])
<1>a. k \in Task /\ k.stage \in Stages /\ device[p] \in Devices
  BY TaskType DEF TypeOK
<1>b. ASSUME NEW k1, k1.pc \notin {"ack", "cleanRedact"}, task' = [task EXCEPT ![p][t] = k1]
      PROVE  TasksReal'
  BY <1>b, StartReal, PutReal
<1>c. ASSUME NEW pc, pc \notin {"ack", "cleanRedact"}, Goto(p, t, pc) PROVE TasksReal'
  <2> DEFINE k1 == [k EXCEPT !.pc = pc]
  <2>1. k1.pc = pc /\ task' = [task EXCEPT ![p][t] = k1]
    BY <1>a, <1>c DEF Goto, Task
  <2> HIDE DEF k1
  <2> QED
    BY <1>b, <1>c, <2>1
<1>d. ASSUME NEW pc, pc # "cleanRedact", NEW x \in EventIds, pc = "ack" => room'[x].state # "absent",
             task' = [task EXCEPT ![p][t] = [@ EXCEPT !.pc = pc, !.event = x]]
      PROVE  TasksReal'
  <2> DEFINE k1 == [k EXCEPT !.pc = pc, !.event = x]
  <2>1. k1.pc = pc /\ k1.event = x /\ task' = [task EXCEPT ![p][t] = k1]
    BY <1>a, <1>d DEF Task
  <2> HIDE DEF k1
  <2>2. TaskReal(k1, t, room')
    BY <1>d, <2>1 DEF TaskReal
  <2> QED
    BY <2>1, <2>2, PutReal
<1>e. ASSUME NEW found \in {"ack", "cleanAck"}, NEW miss, miss \notin {"ack", "cleanRedact"},
             Resolve(p, t, found, miss)
      PROVE  TasksReal'
  <2>1. CASE Goto(p, t, miss)
    BY <1>c, <1>e, <2>1
  <2>2. CASE \E x \in Copies(t, k.stage, k.claimed) :
               task' = [task EXCEPT ![p][t] = [@ EXCEPT !.pc = found, !.event = x]]
    <3>1. PICK x \in Copies(t, k.stage, k.claimed) :
               task' = [task EXCEPT ![p][t] = [@ EXCEPT !.pc = found, !.event = x]]
      BY <2>2
    <3>2. x \in EventIds /\ room[x].state # "absent"
      BY DEF Copies
    <3> QED
      BY <1>d, <3>1, <3>2 DEF Growing
  <2> QED
    BY <1>e, <2>1, <2>2 DEF Resolve
<1>f. CASE \E k1, b : task' = [task EXCEPT ![p][t] = Done(k1, b)]
  BY <1>f, DoneReal, PutReal
<1>g. CASE task' = [task EXCEPT ![p][t] = NoTask]
  BY <1>g, DoneReal, PutReal
<1>1. CASE CheckDeleted(p, t)
  <2>1. CASE ~CleanupOwed(t)
    <3>1. CASE k.mode = "clean"
      BY <1>1, <1>g, <2>1, <3>1 DEF CheckDeleted
    <3>2. CASE k.mode # "clean"
      <4>1. Goto(p, t, "claim")
        BY <1>1, <2>1, <3>2 DEF CheckDeleted, Goto
      <4> QED
        BY <1>c, <4>1
    <3> QED
      BY <3>1, <3>2
  <2>2. CASE CleanupOwed(t)
    <3> DEFINE row == rows[t]["initial"]
               k1 == [k EXCEPT !.pc = IF row.acked # NoEvent THEN "cleanRedact"
                                ELSE IF row.attempted THEN "cleanResolve" ELSE "cleanRetire",
                               !.claimed = row, !.event = row.acked]
    <3>1. task' = [task EXCEPT ![p][t] = k1]
      BY <1>1, <2>2 DEF CheckDeleted
    <3>2. k1.pc # "ack" /\ (k1.pc = "cleanRedact" => row.acked # NoEvent) /\ k1.event = row.acked
      BY <1>a DEF Task
    <3>3. row.acked # NoEvent => row.acked \in EventIds /\ Delivers(row.acked, t, "initial")
      BY DEF RowShape, WellFormed, Stages, TypeOK, Table, Row
    <3> HIDE DEF k1
    <3>4. TaskReal(k1, t, room')
      BY <3>2, <3>3 DEF TaskReal
    <3> QED
      BY <3>1, <3>4, PutReal
  <2> QED
    BY <2>1, <2>2
<1>2. CASE ClaimStep(p, t)
  <2>1. CASE ClaimGranted(rows, t, k.stage) /\ rows[t][k.stage].acked = NoEvent
    <3> DEFINE k1 == [k EXCEPT !.pc = "claimed",
                         !.claimed = [rows'[t][k.stage] EXCEPT !.attempted = rows[t][k.stage].attempted]]
    <3>1. k1.pc = "claimed" /\ task' = [task EXCEPT ![p][t] = k1]
      BY <1>2, <1>a, <2>1 DEF ClaimStep, Task
    <3> HIDE DEF k1
    <3> QED
      BY <1>b, <3>1
  <2>2. CASE ~(ClaimGranted(rows, t, k.stage) /\ rows[t][k.stage].acked = NoEvent)
    <3>1. task' = [task EXCEPT ![p][t] = Done(k, ClaimBlocked(rows, t, k.stage))]
      BY <1>2, <2>2 DEF ClaimStep
    <3> QED
      BY <1>f, <3>1
  <2> QED
    BY <2>1, <2>2
<1>3. CASE CheckEpoch(p, t)
  BY <1>3, <1>c DEF CheckEpoch
<1>4. CASE ReconcileStale(p, t) \/ ReconcileDevice(p, t) \/ CleanResolve(p, t)
  BY <1>4, <1>e DEF ReconcileStale, ReconcileDevice, CleanResolve
<1>5. CASE StampDevice(p, t) \/ SendRefused(p, t) \/ CleanRedact(p, t)
  BY <1>5, <1>c DEF StampDevice, SendRefused, CleanRedact
<1>6. CASE SendAnswered(p, t)
  <2>1. e \in EventIds
    BY <1>a, EventIdType
  <2>2. room' = Accept(e, k.claimed) /\ task' = [task EXCEPT ![p][t] = [@ EXCEPT !.pc = "ack", !.event = e]]
    BY <1>6 DEF SendAnswered
  <2> HIDE DEF e
  <2> QED
    BY <1>d, <2>1, <2>2, AcceptGrows
<1>7. CASE SendLost(p, t) \/ CleanUnproven(p, t) \/ ScanRefused(p, t) \/ CleanLost(p, t)
  BY <1>7, <1>g DEF SendLost, CleanUnproven, ScanRefused, CleanLost
<1>8. CASE AcknowledgeStep(p, t) \/ FailStep(p, t) \/ RetireStep(p, t) \/ CleanRetire(p, t)
  <2>1. task' = [task EXCEPT ![p][t] = Done(k, FALSE)]
    BY <1>8 DEF AcknowledgeStep, FailStep, RetireStep, CleanRetire, Finish
  <2> QED
    BY <1>f, <2>1
<1>9. CASE CleanSend(p, t)
  <2> DEFINE k1 == [k EXCEPT !.pc = "cleanAck", !.event = EventId(t, "initial", device[p])]
  <2>1. k1.pc = "cleanAck" /\ task' = [task EXCEPT ![p][t] = k1]
    BY <1>9, <1>a DEF CleanSend, Task
  <2> HIDE DEF k1
  <2> QED
    BY <1>b, <2>1
<1>10. CASE CleanAck(p, t)
  <2> DEFINE k1 == [k EXCEPT !.pc = "cleanRedact"]
  <2>1. task' = [task EXCEPT ![p][t] = k1] /\ k.pc = "cleanAck"
    BY <1>10 DEF CleanAck, Goto
  <2>2. k1.pc = "cleanRedact" /\ k1.event = k.event /\ k.event \in EventIds /\ Delivers(k.event, t, "initial")
    BY <1>a, <2>1 DEF Task, TaskShape, CleanPcs
  <2> HIDE DEF k1, k
  <2>3. TaskReal(k1, t, room')
    BY <2>2 DEF TaskReal
  <2> QED
    BY <2>1, <2>3, PutReal
<1> QED
  BY <1>1, <1>2, <1>3, <1>4, <1>5, <1>6, <1>7, <1>8, <1>9, <1>10 DEF Step, Progress

\* Every step leaves every task right.
LEMMA NextReal ==
    ASSUME TypeOK, TaskShape, RowShape, TasksReal, [Next]_vars
    PROVE  TasksReal'
<1>a. Growing
  BY NextGrows
<1>1. CASE task' = task
  BY <1>a, <1>1, SameReal
<1>2. ASSUME NEW p \in Processes, NEW t \in Turns, Step(p, t) PROVE TasksReal'
  BY <1>a, <1>2, StepReal
<1>3. ASSUME NEW p \in Processes, NEW t \in Turns, Start(p, t), task' # task PROVE TasksReal'
  <2>1. PICK s, mode :
          \/ task' = [task EXCEPT ![p][t] =
                        [NoTask EXCEPT !.pc = IF s = "initial" THEN "flush" ELSE "claim",
                                       !.mode = mode, !.stage = s]]
          \/ task' = [task EXCEPT ![p][t] =
                        [NoTask EXCEPT !.pc = "flush", !.mode = mode, !.stage = "initial"]]
    BY <1>3 DEF Start, StartTurn, Deliver, Recover, RecoverDeleted
  <2> DEFINE k1 == [NoTask EXCEPT !.pc = IF s = "initial" THEN "flush" ELSE "claim",
                                  !.mode = mode, !.stage = s]
             k2 == [NoTask EXCEPT !.pc = "flush", !.mode = mode, !.stage = "initial"]
  <2>2. k1.pc \in {"flush", "claim"} /\ k2.pc = "flush"
    BY DEF NoTask
  <2>3. task' = [task EXCEPT ![p][t] = k1] \/ task' = [task EXCEPT ![p][t] = k2]
    BY <2>1
  <2> HIDE DEF k1, k2
  <2>4. TaskReal(k1, t, room') /\ TaskReal(k2, t, room')
    BY <2>2, StartReal
  <2> QED
    BY <1>a, <2>3, <2>4, PutReal
<1>4. ASSUME NEW p \in Processes, NEW t \in Turns, Raise(p, t) PROVE TasksReal'
  BY <1>a, <1>4, DoneReal, PutReal DEF Raise
<1>5. ASSUME NEW p \in Processes, NEW d \in Devices, Crash(p, d) PROVE TasksReal'
  <2>1. room' = room /\ task' = [task EXCEPT ![p] = [t \in Turns |-> NoTask]]
    BY <1>5 DEF Crash
  <2>2. ASSUME NEW q \in Processes, NEW u \in Turns PROVE TaskReal(task'[q][u], u, room')
    <3>1. CASE q = p
      BY <2>1, <3>1, DoneReal DEF TypeOK
    <3>2. CASE q # p
      <4>1. task'[q][u] = task[q][u]
        BY <2>1, <3>2 DEF TypeOK
      <4> QED
        BY <2>1, <4>1 DEF TasksReal
    <3> QED
      BY <3>1, <3>2
  <2> QED
    BY <2>2 DEF TasksReal, TaskReal
<1> QED
  BY <1>1, <1>2, <1>3, <1>4, <1>5
     DEF Next, Outside, vars, Admit, DeleteSource, MarkRedacted, Bury, Depart, Rejoin, Echo

-----------------------------------------------------------------------------
(* The row of an answer.                                                   *)

\* From a to b no refusal is forgotten, and outcomes are outcomes of a row.
Moves(a, b) ==
    /\ a.failed => b.failed \/ b.acked # NoEvent
    /\ b.retired /\ ~a.retired => a.exists
    /\ b.acked # NoEvent /\ a.acked = NoEvent => a.exists

AnswersMove == \A t \in Turns : Moves(rows[t]["final"], rows'[t]["final"])

\* Writing one row, of either stage.
LEMMA PutMoves ==
    ASSUME TypeOK, NEW t \in Turns, NEW s \in Stages, NEW row,
           rows' = [rows EXCEPT ![t][s] = row],
           Moves(rows[t][s], row)
    PROVE  AnswersMove
<1>1. SUFFICES ASSUME NEW u \in Turns PROVE Moves(rows[u]["final"], rows'[u]["final"])
  BY DEF AnswersMove
<1>2. CASE u = t /\ s = "final"
  BY <1>2 DEF TypeOK, Table, Stages
<1>3. CASE ~(u = t /\ s = "final")
  <2>1. rows'[u]["final"] = rows[u]["final"]
    BY <1>3 DEF TypeOK, Table, Stages
  <2> QED
    BY <2>1 DEF Moves
<1> QED
  BY <1>2, <1>3

\* Every transaction of a flush moves the row of an answer forward.
LEMMA StepMoves ==
    ASSUME TypeOK, TaskShape, RowShape, NEW p \in Processes, NEW t \in Turns, Step(p, t)
    PROVE  AnswersMove
<1> DEFINE s == task[p][t].stage
           a == rows[t][s]
           i == rows[t]["initial"]
<1>a. s \in Stages /\ "initial" \in Stages /\ a \in Row /\ i \in Row
  BY TaskType DEF TypeOK, Stages, Table
<1>b. CASE rows' = rows
  BY <1>b DEF AnswersMove, Moves
<1>1. CASE ClaimStep(p, t) /\ rows' # rows
  <2>1. rows' = Claim(rows, t, s, SendingDevice(p))
    BY <1>1 DEF ClaimStep
  <2>2. CASE ClaimSuperseded(rows, t, s)
    <3>1. rows' = [rows EXCEPT ![t][s] = EmptyRow] /\ s = "initial" /\ ~ClaimWithdrawn(rows, t, s)
      BY <2>1, <2>2 DEF Claim, ClaimSuperseded
    <3>2. ~a.failed /\ ~EmptyRow.retired /\ EmptyRow.acked = NoEvent
      BY <3>1 DEF ClaimWithdrawn, EmptyRow
    <3> QED
      BY <1>a, <3>1, <3>2, PutMoves DEF Moves
  <2>3. CASE ~ClaimSuperseded(rows, t, s)
    <3> DEFINE b == [a EXCEPT !.attempted = TRUE, !.device = SendingDevice(p)]
    <3>1. rows' = [rows EXCEPT ![t][s] = b]
      BY <1>1, <2>1, <2>3 DEF Claim
    <3>2. Moves(a, b)
      BY <1>a DEF Moves, Row
    <3> HIDE DEF b
    <3> QED
      BY <1>a, <3>1, <3>2, PutMoves
  <2> QED
    BY <2>2, <2>3
<1>2. CASE StampDevice(p, t) /\ rows' # rows
  <2> DEFINE b == [a EXCEPT !.device = SendingDevice(p)]
  <2>1. rows' = [rows EXCEPT ![t][s] = b]
    BY <1>2 DEF StampDevice, RecordDevice
  <2>2. Moves(a, b)
    BY <1>a DEF Moves, Row
  <2> HIDE DEF b
  <2> QED
    BY <1>a, <2>1, <2>2, PutMoves
<1>3. CASE AcknowledgeStep(p, t) /\ rows' # rows
  <2> DEFINE b == [a EXCEPT !.acked = task[p][t].event, !.failed = FALSE]
  <2>1. rows' = [rows EXCEPT ![t][s] = b] /\ a.exists /\ task[p][t].event \in EventIds
    BY <1>3 DEF AcknowledgeStep, Acknowledge, AcknowledgeBinds, TaskShape
  <2>2. b.acked # NoEvent /\ b.retired = a.retired
    BY <1>a, <2>1, DeliveryConstants DEF Row, EventIds, Stages
  <2> HIDE DEF b
  <2>3. Moves(a, b)
    BY <2>1, <2>2 DEF Moves
  <2> QED
    BY <1>a, <2>1, <2>3, PutMoves
<1>4. CASE FailStep(p, t) /\ rows' # rows
  <2> DEFINE b == [a EXCEPT !.failed = TRUE]
  <2>1. rows' = [rows EXCEPT ![t][s] = b]
    BY <1>4 DEF FailStep, RecordPermanentFailure
  <2>2. Moves(a, b)
    BY <1>a DEF Moves, Row
  <2> HIDE DEF b
  <2> QED
    BY <1>a, <2>1, <2>2, PutMoves
<1>5. CASE RetireStep(p, t) /\ rows' # rows
  <2> DEFINE b == [a EXCEPT !.retired = TRUE]
  <2>1. rows' = [rows EXCEPT ![t][s] = b] /\ a.exists
    BY <1>5 DEF RetireStep, Retire, AcknowledgeBinds
  <2>2. Moves(a, b)
    BY <1>a, <2>1 DEF Moves, Row
  <2> HIDE DEF b
  <2> QED
    BY <1>a, <2>1, <2>2, PutMoves
<1>6. CASE CleanAck(p, t) /\ rows' # rows
  <2> DEFINE b == [i EXCEPT !.acked = task[p][t].event, !.failed = FALSE]
  <2>1. rows' = [rows EXCEPT ![t]["initial"] = b] /\ i.exists /\ task[p][t].event \in EventIds
    BY <1>6 DEF CleanAck, Acknowledge, AcknowledgeBinds, TaskShape
  <2>2. b.acked # NoEvent /\ b.retired = i.retired
    BY <1>a, <2>1, DeliveryConstants DEF Row, EventIds, Stages
  <2> HIDE DEF b
  <2>3. Moves(i, b)
    BY <2>1, <2>2 DEF Moves
  <2> QED
    BY <1>a, <2>1, <2>3, PutMoves
<1>7. CASE CleanRetire(p, t) /\ rows' # rows
  <2> DEFINE b == [i EXCEPT !.retired = TRUE]
  <2>1. rows' = [rows EXCEPT ![t]["initial"] = b] /\ i.exists
    BY <1>7 DEF CleanRetire
  <2>2. Moves(i, b)
    BY <1>a, <2>1 DEF Moves, Row
  <2> HIDE DEF b
  <2> QED
    BY <1>a, <2>1, <2>2, PutMoves
<1> QED
  BY <1>b, <1>1, <1>2, <1>3, <1>4, <1>5, <1>6, <1>7
     DEF Step, Progress, CheckDeleted, CheckEpoch, ReconcileStale, ReconcileDevice, Resolve,
         SendAnswered, SendLost, SendRefused, CleanResolve, CleanUnproven, ScanRefused, CleanSend, CleanLost,
         CleanRedact, durable

\* So does every other step.
LEMMA NextMoves ==
    ASSUME TypeOK, TaskShape, RowShape, [Next]_vars
    PROVE  AnswersMove
<1>1. CASE rows' = rows
  BY <1>1 DEF AnswersMove, Moves
<1>2. CASE Delivering /\ rows' # rows
  <2>0. PICK p \in Processes, t \in Turns, s \in Stages, y \in Payloads, f \in BOOLEAN :
          \E x \in {NoEvent, rows[t]["initial"].acked} : Deliver(p, t, s, y, x, f)
    BY <1>2 DEF Delivering
  <2> DEFINE a == rows[t][s]
  <2>1. PICK x, e : rows' = Enqueue(rows, t, s, e, y, x, f)
    BY <2>0 DEF Deliver
  <2> DEFINE b == [a EXCEPT !.exists = TRUE, !.epoch = e, !.payload = y, !.edits = x, !.failed = f]
  <2>2. rows' = [rows EXCEPT ![t][s] = b] /\ ~a.failed
    BY <1>2, <2>1 DEF Enqueue
  <2>3. a \in Row
    BY DEF TypeOK, Table
  <2>4. Moves(a, b)
    BY <2>2, <2>3 DEF Moves, Row
  <2> HIDE DEF b
  <2> QED
    BY <2>2, <2>4, PutMoves
<1>3. CASE Depart
  <2>1. rows' = RetireUnattempted(rows)
    BY <1>3 DEF Depart
  <2>2. ASSUME NEW u \in Turns PROVE Moves(rows[u]["final"], rows'[u]["final"])
    <3>1. rows[u]["final"] \in Row
      BY DEF TypeOK, Table, Stages
    <3>2. rows'[u]["final"] = IF AcknowledgeBinds(rows, u, "final") /\ ~rows[u]["final"].attempted
                              THEN [rows[u]["final"] EXCEPT !.retired = TRUE]
                              ELSE rows[u]["final"]
      BY <2>1 DEF RetireUnattempted, Stages
    <3> QED
      BY <3>1, <3>2 DEF Moves, Row, AcknowledgeBinds
  <2> QED
    BY <2>2 DEF AnswersMove
<1>4. ASSUME NEW p \in Processes, NEW t \in Turns, Step(p, t) PROVE AnswersMove
  BY <1>4, StepMoves
<1> QED
  BY <1>1, <1>2, <1>3, <1>4, StartLeaves
     DEF Next, Outside, vars, durable, Admit, DeleteSource, MarkRedacted, Bury, Rejoin, Echo, Raise, Crash

-----------------------------------------------------------------------------
(* Steps of the delivery are steps of the abstract answer.                 *)

\* A flush of the answer of turn t that has got to pc.
AnswerAt(t, pc) == \E p \in Processes : task[p][t].pc = pc /\ task[p][t].stage = "final"

\* Only the acknowledgement of a flush records a delivery, and what it names
\* is in the room.
LEMMA DeliveredIsPosted ==
    ASSUME TypeOK, TaskMatchesRow, TaskShape, RowShape, TasksReal, [Next]_vars, NEW t \in Turns,
           rows[t]["final"].acked = NoEvent, rows'[t]["final"].acked # NoEvent
    PROVE  Posted(t) /\ AnswerAt(t, "ack")
<1>1. rows[t]["final"] \in Row /\ "final" \in Stages
  BY DEF TypeOK, Table, Stages
<1>2. ASSUME NEW p \in Processes, NEW u \in Turns, AcknowledgeStep(p, u)
      PROVE  Posted(t) /\ AnswerAt(t, "ack")
  <2> DEFINE k == task[p][u]
  <2>1. rows' = Acknowledge(rows, u, k.stage, k.event) /\ k.pc = "ack" /\ k.stage \in Stages
    BY <1>2, TaskType DEF AcknowledgeStep, Task
  <2>2. u = t /\ k.stage = "final"
    BY <1>1, <2>1 DEF Acknowledge, TypeOK, Table
  <2>3. k.event \in EventIds /\ Delivers(k.event, t, "final") /\ room[k.event].state # "absent"
    BY <2>1, <2>2 DEF TaskShape, TasksReal, TaskReal
  <2>4. AnswerAt(t, "ack")
    BY <2>1, <2>2 DEF AnswerAt
  <2> QED
    BY <2>3, <2>4 DEF Posted
<1>3. ASSUME NEW p \in Processes, NEW u \in Turns, Step(p, u), ~AcknowledgeStep(p, u)
      PROVE  FALSE
  <2> DEFINE s == task[p][u].stage
  <2>1. s \in Stages /\ "initial" \in Stages
    BY TaskType DEF Stages
  <2>2. CASE ClaimStep(p, u)
    <3>1. rows' = Claim(rows, u, s, SendingDevice(p)) /\ EmptyRow.acked = NoEvent
      BY <2>2 DEF ClaimStep, EmptyRow
    <3> QED
      BY <1>1, <2>1, <3>1 DEF Claim, TypeOK, Table, Row
  <2>3. CASE StampDevice(p, u)
    BY <1>1, <2>1, <2>3 DEF StampDevice, RecordDevice, TypeOK, Table, Row
  <2>4. CASE FailStep(p, u)
    BY <1>1, <2>1, <2>4 DEF FailStep, RecordPermanentFailure, TypeOK, Table, Row
  <2>5. CASE RetireStep(p, u)
    BY <1>1, <2>1, <2>5 DEF RetireStep, Retire, TypeOK, Table, Row
  <2>6. CASE CleanAck(p, u)
    BY <1>1, <2>1, <2>6 DEF CleanAck, Acknowledge, TypeOK, Table, Row
  <2>7. CASE CleanRetire(p, u)
    BY <1>1, <2>1, <2>7 DEF CleanRetire, TypeOK, Table, Row
  <2>8. CASE rows' = rows
    BY <2>8
  <2> QED
    BY <1>3, <2>2, <2>3, <2>4, <2>5, <2>6, <2>7, <2>8
       DEF Step, Progress, CheckDeleted, CheckEpoch, ReconcileStale, ReconcileDevice, Resolve,
           SendAnswered, SendLost, SendRefused, CleanResolve, CleanUnproven, ScanRefused, CleanSend, CleanLost,
           CleanRedact, durable
<1>4. CASE Delivering
  <2>1. PICK p \in Processes, u \in Turns, s \in Stages, y \in Payloads, f \in BOOLEAN :
          \E x \in {NoEvent, rows[u]["initial"].acked} : Deliver(p, u, s, y, x, f)
    BY <1>4 DEF Delivering
  <2>2. PICK x, e : rows' = Enqueue(rows, u, s, e, y, x, f)
    BY <2>1 DEF Deliver
  <2> QED
    BY <1>1, <2>2 DEF Enqueue, TypeOK, Table, Row
<1>5. CASE Depart
  <2>1. rows' = RetireUnattempted(rows)
    BY <1>5 DEF Depart
  <2> QED
    BY <1>1, <2>1 DEF RetireUnattempted, Row
<1>6. rows' # rows
  OBVIOUS
<1> QED
  BY <1>2, <1>3, <1>4, <1>5, <1>6, StartLeaves
     DEF Next, Outside, vars, durable, Admit, DeleteSource, MarkRedacted, Bury, Rejoin, Echo, Raise, Crash

\* An answer appears in the room only when a flush sends it and its row exists,
\* and no row changes in the same step.
LEMMA PostedIsOwed ==
    ASSUME TypeOK, TaskMatchesRow, TaskShape, RowShape, TasksReal, [Next]_vars, NEW t \in Turns,
           ~Posted(t), Posted(t)'
    PROVE  rows' = rows /\ rows[t]["final"].exists /\ AnswerAt(t, "send")
<1>1. PICK e \in EventIds : Delivers(e, t, "final") /\ room'[e].state # "absent"
  BY DEF Posted
<1>2. room'[e] # room[e]
  BY <1>1 DEF Posted
<1>3. PICK p \in Processes, u \in Turns : Step(p, u)
  BY <1>2, NextGrows
<1>4. rows' = rows /\ (Delivers(e, u, "initial") \/ (task[p][u].pc = "send" /\ Delivers(e, u, task[p][u].stage)))
  BY <1>2, <1>3, StepRoom
<1>5. task[p][u].pc = "send" /\ u = t /\ task[p][u].stage = "final"
  BY <1>1, <1>4 DEF Delivers
<1>6. rows[t]["final"].attempted
  BY <1>5 DEF TaskMatchesRow, ClaimedPcs
<1> QED
  BY <1>4, <1>5, <1>6 DEF RowShape, WellFormed, Stages, AnswerAt

\* Every step of the delivery is a step of the abstract answers.
LEMMA StepImplements ==
    ASSUME DeliveryInv, TasksReal, [Next]_vars
    PROVE  Shared!Next
<1>a. TypeOK /\ TaskMatchesRow /\ TaskShape /\ RowShape
  BY DEF DeliveryInv
<1>b. Keeps(rows, rows') /\ AnswersMove /\ Growing
  BY <1>a, NextRows, NextMoves, NextGrows
<1>c. /\ AnswerPhase = [t \in Turns |-> PhaseOf(rows[t]["final"])]
      /\ AnswerPhase' = [t \in Turns |-> PhaseOf(rows'[t]["final"])]
      /\ AnswerPosted = [t \in Turns |-> Posted(t)]
      /\ AnswerPosted' = [t \in Turns |-> Posted(t)']
  BY DEF AnswerPhase, AnswerPosted, PhaseOf
<1>1. ASSUME NEW t \in Turns PROVE Shared!Advance(t)
  <2> DEFINE a == rows[t]["final"]
             b == rows'[t]["final"]
  <2>0. "final" \in Stages
    BY DEF Stages
  <2>1. /\ AnswerPhase[t] = PhaseOf(a) /\ AnswerPhase'[t] = PhaseOf(b)
        /\ AnswerPosted[t] = Posted(t) /\ AnswerPosted'[t] = Posted(t)'
    BY <1>c
  <2>2. /\ a.exists => b.exists
        /\ a.retired => b.retired
        /\ a.acked # NoEvent => b.acked = a.acked
        /\ Moves(a, b)
    BY <1>b, <2>0 DEF Keeps, AnswersMove
  <2>3. Posted(t) => Posted(t)'
    BY <1>b DEF Posted, Growing
  <2>4. CASE ~Posted(t) /\ Posted(t)'
    <3>1. a = b /\ a.exists
      BY <1>a, <2>4, PostedIsOwed
    <3>2. PhaseOf(a) # "none" /\ PhaseOf(b) = PhaseOf(a)
      BY <3>1 DEF PhaseOf
    <3> HIDE DEF a, b
    <3> QED
      BY <2>1, <2>4, <3>2 DEF Shared!Advance, Shared!Post
  <2>5. CASE Posted(t)' = Posted(t)
    <3>1. a.acked = NoEvent /\ b.acked # NoEvent => Posted(t)
      BY <1>a, DeliveredIsPosted
    <3>0. ~a.exists => a.acked = NoEvent /\ ~a.retired
      BY <1>a, <2>0 DEF RowShape, WellFormed
    <3> HIDE DEF a, b
    <3>2. CASE PhaseOf(b) = PhaseOf(a)
      BY <2>1, <2>5, <3>2 DEF Shared!Advance, Shared!Becomes
    <3>3. CASE PhaseOf(a) = "none" /\ PhaseOf(b) # "none"
      <4>1. PhaseOf(b) \in {"owed", "refused"}
        BY <2>2, <3>0, <3>3 DEF PhaseOf, Moves
      <4> QED
        BY <2>1, <2>5, <3>3, <4>1 DEF Shared!Advance, Shared!HandOver, Shared!Becomes
    <3>4. CASE PhaseOf(a) \in {"owed", "refused"} /\ PhaseOf(b) = "withdrawn"
      BY <2>1, <2>5, <3>4 DEF Shared!Advance, Shared!Withdraw, Shared!Becomes
    <3>5. CASE PhaseOf(a) # "none" /\ PhaseOf(a) # "delivered" /\ PhaseOf(b) = "delivered"
      <4>1. Posted(t)
        BY <3>1, <3>5 DEF PhaseOf
      <4> QED
        BY <2>1, <2>5, <3>5, <4>1 DEF Shared!Advance, Shared!Deliver, Shared!Becomes
    <3>6. CASE PhaseOf(a) = "owed" /\ PhaseOf(b) = "refused"
      BY <2>1, <2>5, <3>6 DEF Shared!Advance, Shared!Refuse, Shared!Becomes
    <3>7. \/ PhaseOf(b) = PhaseOf(a)
          \/ PhaseOf(a) = "none" /\ PhaseOf(b) # "none"
          \/ PhaseOf(a) \in {"owed", "refused"} /\ PhaseOf(b) = "withdrawn"
          \/ PhaseOf(a) # "none" /\ PhaseOf(a) # "delivered" /\ PhaseOf(b) = "delivered"
          \/ PhaseOf(a) = "owed" /\ PhaseOf(b) = "refused"
      BY <2>2 DEF PhaseOf, Moves
    <3> QED
      BY <3>2, <3>3, <3>4, <3>5, <3>6, <3>7
  <2> QED
    BY <2>3, <2>4, <2>5 DEF Posted
<1>2. AnswerPhase' = [t \in Turns |-> AnswerPhase'[t]] /\ AnswerPosted' = [t \in Turns |-> AnswerPosted'[t]]
  BY <1>c
<1> QED
  BY <1>1, <1>2 DEF Shared!Next

\* At the start nothing has been handed over or posted.
LEMMA InitImplements == Init => Shared!Init /\ TasksReal
<1> SUFFICES ASSUME Init PROVE Shared!Init /\ TasksReal
  OBVIOUS
<1>1. \A t \in Turns : PhaseOf(rows[t]["final"]) = "none"
  BY DEF Init, PhaseOf, EmptyRow, Stages
<1>2. \A t \in Turns : Posted(t) = FALSE
  BY DEF Init, Posted, Absent
<1>3. TasksReal
  BY DEF Init, NoTask, TasksReal, TaskReal
<1> QED
  BY <1>1, <1>2, <1>3 DEF Shared!Init, AnswerPhase, AnswerPosted

\* The delivery implements the abstract answers for any number of processes,
\* devices, crashes and departures: each answer is handed over once, reaches an
\* outcome that is never taken back for a lesser one, and is recorded as
\* delivered only if the homeserver accepted it.
THEOREM AnswersImplemented == Spec => ImplementsShared
<1>1. DeliveryInv /\ TasksReal /\ [Next]_vars => TasksReal'
  BY NextReal DEF DeliveryInv
<1>2. DeliveryInv /\ TasksReal /\ [Next]_vars => [Shared!Next]_Shared!vars
  BY StepImplements
<1> QED
  BY <1>1, <1>2, InitImplements, Invariance, PTL DEF Spec, ImplementsShared, Shared!Spec

-----------------------------------------------------------------------------
(* One process.  Its lock admits one flush of a turn at a time, so a flush *)
(* that claimed a row works on the row as it is: the row is unresolved     *)
(* until the flush itself resolves it, and nobody else sends meanwhile.    *)

OneProcess == \E p : Processes = {p}

\* A flush from its claim to its outcome.
FlushPcs == {"claimed", "stale", "resolve", "device", "send", "ack", "fail", "retire"}

\* An answer that was offered to the homeserver and edits no placeholder.
StandsAlone(row) == row.attempted /\ row.edits = NoEvent

\* FinalOwned, of the answer's row and the event the record names.
KeepsPlaceholder(row, event) ==
    row.acked # NoEvent \/ (row.exists /\ ~row.retired /\ ~row.failed) \/ event # NoEvent

\* What a row knows of the visible events v of its delivery: there is one at
\* most, none that the row does not account for, and it came from the row's
\* device if that has a name.
RowSole(row, v) ==
    /\ \A e, x \in v : e = x
    /\ row.acked # NoEvent => v \subseteq {row.acked}
    /\ row.retired \/ ~row.attempted => v = {}
    /\ row.device # NoDevice => \A e \in v : e.device = row.device

\* The two rows of a turn: an answer that stands alone waited for the outcome
\* of its placeholder.
RowsSole(r, v) ==
    /\ \A s \in Stages : RowSole(r[s], v[s])
    /\ StandsAlone(r["final"]) => ~Unresolved(r["initial"])

\* What a flush k knows, in a process on device d that calls itself sd.
FlushSole(k, d, sd, r, v) ==
    /\ k.pc \in FlushPcs =>
        /\ Unresolved(r[k.stage])
        /\ k.stage = "initial" => ~StandsAlone(r["final"])
    /\ k.pc = "claimed" =>
        k.claimed.device = r[k.stage].device /\ (~k.claimed.attempted => v[k.stage] = {})
    /\ k.pc \in {"device", "send"} => \A e \in v[k.stage] : e.device = d
    /\ k.pc = "send" => r[k.stage].device = sd
    /\ k.pc = "ack" => v[k.stage] \subseteq {k.event}
    /\ k.pc = "retire" => v[k.stage] = {}

\* What a cleanup k knows.
CleanSole(k, sd, r, v, marks, event) ==
    /\ k.pc \in CleanPcs => "mark" \in marks /\ ~KeepsPlaceholder(r["final"], event)
    /\ k.pc \in {"cleanResolve", "cleanSend", "cleanAck"} =>
        r["initial"].attempted /\ r["initial"].acked = NoEvent /\ ~r["initial"].retired
    /\ k.pc = "cleanResolve" => k.claimed.device = r["initial"].device /\ k.claimed.attempted
    /\ k.pc = "cleanSend" => v["initial"] = {} /\ r["initial"].device = sd /\ sd # NoDevice
    /\ k.pc \in {"cleanAck", "cleanRedact"} => v["initial"] \subseteq {k.event}
    /\ k.pc = "cleanRetire" => v["initial"] = {}

Visible(t) == [s \in Stages |-> VisibleCopies(t, s)]

SoleTurn(p, t) ==
    /\ RowsSole(rows[t], Visible(t))
    /\ FlushSole(task[p][t], device[p], SendingDevice(p), rows[t], Visible(t))
    /\ CleanSole(task[p][t], SendingDevice(p), rows[t], Visible(t), redaction[t], record[t])

\* Cleanup takes back placeholders only.
AnswersStand == \A e \in EventIds : e.stage = "final" => room[e].state # "redacted"

\* What one process knows, on top of DeliveryInv and TasksReal.
SoleInv == AnswersStand /\ \A p \in Processes, t \in Turns : SoleTurn(p, t)

\* The invariants a step starts from.
Before == DeliveryInv /\ TasksReal /\ SoleInv

-----------------------------------------------------------------------------
(* Rows and visible events.                                                *)

\* Accepting a transaction shows its event and no other.
LEMMA AcceptVisible ==
    ASSUME TypeOK, NEW x \in EventIds, NEW row, room' = Accept(x, row), NEW t \in Turns, NEW s \in Stages
    PROVE  /\ VisibleCopies(t, s) \subseteq VisibleCopies(t, s)'
           /\ VisibleCopies(t, s)' \subseteq VisibleCopies(t, s) \cup {x}
           /\ ~Delivers(x, t, s) => VisibleCopies(t, s)' = VisibleCopies(t, s)
<1>1. \A e \in EventIds : e # x => room'[e] = room[e]
  BY AcceptGrows
<1>2. room[x].state = "visible" => room'[x] = room[x]
  BY DEF Accept, TypeOK
<1> QED BY <1>1, <1>2 DEF VisibleCopies, Delivers

\* A redaction hides its event and no other.
LEMMA RedactVisible ==
    ASSUME TypeOK, NEW x \in EventIds, room' = [room EXCEPT ![x] = Redacted], NEW t \in Turns, NEW s \in Stages
    PROVE  VisibleCopies(t, s)' = VisibleCopies(t, s) \ {x}
BY DEF TypeOK, VisibleCopies, Redacted, Delivers

\* The events of a turn decide what is visible of it.
LEMMA SameVisible ==
    ASSUME NEW t \in Turns, \A e \in EventIds : e.turn = t => room'[e] = room[e]
    PROVE  Visible(t)' = Visible(t) /\ \A s \in Stages : VisibleCopies(t, s)' = VisibleCopies(t, s)
BY DEF Visible, VisibleCopies, Delivers

\* For a flush that holds its claim, the exact copies of the payload are all the
\* visible events of the delivery.
LEMMA CopiesAreVisible ==
    ASSUME DeliveryInv, NEW p \in Processes, NEW t \in Turns, task[p][t].pc \in ClaimedPcs
    PROVE  Copies(t, task[p][t].stage, task[p][t].claimed) = VisibleCopies(t, task[p][t].stage)
<1> DEFINE k == task[p][t]
           s == k.stage
           c == k.claimed
<1>1. /\ c.payload = rows[t][s].payload /\ c.edits = rows[t][s].edits
      /\ room \in [EventIds -> Content] /\ RoomShowsRow
  BY DEF DeliveryInv, TypeOK, TaskMatchesRow
<1>2. ASSUME NEW e \in EventIds, Delivers(e, t, s)
      PROVE  room[e] = [state |-> "visible", payload |-> c.payload, edits |-> c.edits]
                <=> room[e].state = "visible"
  <2>1. room[e] \in Content /\ RowOf(e) = rows[t][s]
    BY <1>1, <1>2 DEF RowOf, Delivers
  <2>2. room[e].state = "visible" => room[e].payload = c.payload /\ room[e].edits = c.edits
    BY <1>1, <2>1 DEF RoomShowsRow
  <2> HIDE DEF c, s
  <2> QED BY <2>1, <2>2 DEF Content
<1> QED BY <1>2 DEF Copies, VisibleCopies

\* The initial state.
LEMMA InitSole == Init => SoleInv
<1> SUFFICES ASSUME Init PROVE SoleInv
  OBVIOUS
<1>1. AnswersStand
  BY DEF Init, AnswersStand, Absent
<1>2. ASSUME NEW p \in Processes, NEW t \in Turns PROVE SoleTurn(p, t)
  <2>1. task[p][t].pc = "idle" /\ \A s \in Stages : rows[t][s] = EmptyRow /\ VisibleCopies(t, s) = {}
    BY <1>2 DEF Init, NoTask, VisibleCopies, Absent
  <2>2. \A s \in Stages : Visible(t)[s] = {}
    BY <2>1 DEF Visible
  <2>3. EmptyRow.acked = NoEvent /\ ~EmptyRow.attempted
    BY DEF EmptyRow
  <2> QED BY <2>1, <2>2, <2>3 DEF SoleTurn, RowsSole, RowSole, FlushSole, CleanSole, FlushPcs, CleanPcs, StandsAlone, Stages
<1> QED BY <1>1, <1>2 DEF SoleInv

-----------------------------------------------------------------------------
(* What a step leaves alone.                                               *)

\* A turn that a step does not touch.
LEMMA TurnKept ==
    ASSUME NEW p, NEW t \in Turns, SoleTurn(p, t),
           task'[p][t] = task[p][t], device'[p] = device[p], rows'[t] = rows[t], record'[t] = record[t],
           "mark" \in redaction[t] => "mark" \in redaction'[t],
           \A e \in EventIds : e.turn = t => room'[e] = room[e]
    PROVE  SoleTurn(p, t)'
<1>1. Visible(t)' = Visible(t) /\ SendingDevice(p)' = SendingDevice(p)
  BY SameVisible DEF SendingDevice
<1> QED BY <1>1 DEF SoleTurn, CleanSole

\* A task at rest, or before its claim, knows nothing.
LEMMA RestSole ==
    ASSUME NEW k, NEW d, NEW sd, NEW r, NEW v, NEW marks, NEW event, k.pc \in {"idle", "flush", "claim"}
    PROVE  FlushSole(k, d, sd, r, v) /\ CleanSole(k, sd, r, v, marks, event)
BY DEF FlushSole, CleanSole, FlushPcs, CleanPcs

\* So is the task after a flush.
LEMMA DoneRests ==
    ASSUME NEW k, NEW b
    PROVE  NoTask.pc = "idle" /\ Done(k, b).pc \in {"idle", "flush", "claim"}
BY DEF NoTask, Done

\* A step that puts a task to rest and leaves the rows and the room as they are.
LEMMA RestTurn ==
    ASSUME Before, NEW p \in Processes, NEW t \in Turns, RowsSole(rows'[t], Visible(t)'),
           task'[p][t].pc \in {"idle", "flush", "claim"}
    PROVE  SoleTurn(p, t)'
BY RestSole DEF SoleTurn

\* The facts about one turn that its steps use.
LEMMA Facts ==
    ASSUME Before, NEW p \in Processes, NEW t \in Turns
    PROVE  /\ TypeOK /\ RowShape /\ RoomShowsRow
           /\ task[p][t] \in Task /\ task[p][t].stage \in Stages /\ task[p][t].claimed \in Row
           /\ device[p] \in Devices /\ SendingDevice(p) \in {device[p], NoDevice} /\ NoDevice \notin Devices
           /\ rows[t]["initial"] \in Row /\ rows[t]["final"] \in Row /\ rows[t] \in [Stages -> Row]
           /\ \A s \in Stages : Visible(t)[s] = VisibleCopies(t, s) /\ VisibleCopies(t, s) \subseteq EventIds
           /\ \A s \in Stages : \A e \in VisibleCopies(t, s) : e = EventId(t, s, e.device)
           /\ Visible(t) = [s \in Stages |-> VisibleCopies(t, s)] /\ Visible(t)' = [s \in Stages |-> VisibleCopies(t, s)']
           /\ RowsSole(rows[t], Visible(t))
           /\ FlushSole(task[p][t], device[p], SendingDevice(p), rows[t], Visible(t))
           /\ CleanSole(task[p][t], SendingDevice(p), rows[t], Visible(t), redaction[t], record[t])
<1>1. TypeOK /\ RowShape /\ RoomShowsRow /\ SoleTurn(p, t)
  BY DEF Before, DeliveryInv, SoleInv
<1>2. /\ task[p][t] \in Task /\ task[p][t].stage \in Stages /\ task[p][t].claimed \in Row
      /\ device[p] \in Devices /\ SendingDevice(p) \in {device[p], NoDevice}
  BY <1>1, TaskType DEF TypeOK, SendingDevice
<1>3. rows[t]["initial"] \in Row /\ rows[t]["final"] \in Row /\ rows[t] \in [Stages -> Row]
  BY <1>1 DEF TypeOK, Table, Stages
<1>4. \A s \in Stages : \A e \in VisibleCopies(t, s) : e = EventId(t, s, e.device)
  BY DEF VisibleCopies, EventIds, EventId, Delivers
<1>5. /\ \A s \in Stages : Visible(t)[s] = VisibleCopies(t, s) /\ VisibleCopies(t, s) \subseteq EventIds
      /\ Visible(t) = [s \in Stages |-> VisibleCopies(t, s)] /\ Visible(t)' = [s \in Stages |-> VisibleCopies(t, s)']
  BY DEF Visible, VisibleCopies
<1> QED BY <1>1, <1>2, <1>3, <1>4, <1>5, DeliveryConstants DEF SoleTurn

-----------------------------------------------------------------------------
(* The steps of a flush.                                                   *)

\* deliver(): a row that is written has not been offered to the homeserver.
LEMMA DeliverSole ==
    ASSUME Before, NEW p \in Processes, NEW t \in Turns, NEW s \in Stages, NEW y, NEW x, NEW f,
           Deliver(p, t, s, y, x, f)
    PROVE  SoleTurn(p, t)' /\ \A u \in Turns : u # t => rows'[u] = rows[u]
<1>0. TypeOK /\ RowsSole(rows[t], Visible(t)) /\ rows[t][s] \in Row
  BY Facts DEF TypeOK, Table
<1>1. PICK e : rows' = Enqueue(rows, t, s, e, y, x, f)
  BY DEF Deliver
<1>2. task'[p][t].pc \in {"flush", "claim"}
  BY <1>0 DEF Deliver, TypeOK, NoTask
<1>3. Visible(t)' = Visible(t)
  BY DEF Deliver, Visible, VisibleCopies
<1>4. CASE rows' = rows
  BY <1>0, <1>2, <1>3, <1>4, RestTurn
<1>5. CASE rows' # rows
  <2> DEFINE a == rows[t][s]
             b == [a EXCEPT !.exists = TRUE, !.epoch = e, !.payload = y, !.edits = x, !.failed = f]
  <2>1. rows' = [rows EXCEPT ![t][s] = b] /\ ~a.attempted
    BY <1>1, <1>5 DEF Enqueue
  <2>2. ~b.attempted /\ b.acked = a.acked
    BY <1>0, <2>1 DEF Row
  <2> HIDE DEF a, b
  <2>3. /\ rows'[t][s] = b
        /\ \A z \in Stages : z # s => rows'[t][z] = rows[t][z]
        /\ \A u \in Turns : u # t => rows'[u] = rows[u]
    BY <1>0, <2>1 DEF TypeOK, Table
  <2>4. RowSole(b, Visible(t)[s])
    BY <1>0, <2>1, <2>2 DEF RowsSole, RowSole, a
  <2>5. RowsSole(rows'[t], Visible(t))
    BY <1>0, <2>2, <2>3, <2>4 DEF RowsSole, StandsAlone, Unresolved, Stages
  <2> QED BY <1>2, <1>3, <2>3, <2>5, RestTurn
<1> QED BY <1>4, <1>5

\* CheckDeleted: the cleanup takes the row as it finds it.
LEMMA CheckDeletedSole ==
    ASSUME Before, NEW p \in Processes, NEW t \in Turns, CheckDeleted(p, t)
    PROVE  SoleTurn(p, t)'
<1> DEFINE k == task[p][t]
           row == rows[t]["initial"]
           k1 == [k EXCEPT !.pc = IF row.acked # NoEvent THEN "cleanRedact"
                                  ELSE IF row.attempted THEN "cleanResolve" ELSE "cleanRetire",
                           !.claimed = row, !.event = row.acked]
<1>0. TypeOK /\ k \in Task /\ RowsSole(rows[t], Visible(t))
  BY Facts
<1>1. rows' = rows /\ Visible(t)' = Visible(t) /\ SendingDevice(p)' = SendingDevice(p) /\ record' = record
  BY DEF CheckDeleted, Visible, VisibleCopies, SendingDevice
<1>2. CASE ~CleanupOwed(t)
  <2>1. task'[p][t].pc \in {"idle", "claim"}
    BY <1>0, <1>2 DEF CheckDeleted, TypeOK, NoTask, Task
  <2> QED BY <1>0, <1>1, <2>1, RestTurn
<1>3. CASE CleanupOwed(t)
  <2>1. task'[p][t] = k1 /\ "mark" \in redaction'[t]
    BY <1>0, <1>3 DEF CheckDeleted, TypeOK
  <2>2. k1.pc = (IF row.acked # NoEvent THEN "cleanRedact" ELSE IF row.attempted THEN "cleanResolve" ELSE "cleanRetire")
        /\ k1.claimed = row /\ k1.event = row.acked
    BY <1>0 DEF Task
  <2> HIDE DEF k1
  <2>3. ~row.retired /\ ~KeepsPlaceholder(rows[t]["final"], record[t])
    BY <1>3 DEF CleanupOwed, FinalOwned, KeepsPlaceholder
  <2>4. RowSole(row, Visible(t)["initial"])
    BY <1>0 DEF RowsSole, Stages
  <2>5. FlushSole(k1, device'[p], SendingDevice(p)', rows'[t], Visible(t)')
    BY <2>2 DEF FlushSole, FlushPcs
  <2>6. CleanSole(k1, SendingDevice(p)', rows'[t], Visible(t)', redaction'[t], record'[t])
    BY <1>1, <2>1, <2>2, <2>3, <2>4 DEF CleanSole, RowSole
  <2> QED BY <1>0, <1>1, <2>1, <2>5, <2>6 DEF SoleTurn
<1> QED BY <1>2, <1>3

\* ClaimStep: a first claim finds nothing in the room, a later one keeps the
\* device of the row, and an answer of its own has waited for the placeholder.
LEMMA ClaimSole ==
    ASSUME Before, NEW p \in Processes, NEW t \in Turns, ClaimStep(p, t)
    PROVE  SoleTurn(p, t)' /\ \A u \in Turns : u # t => rows'[u] = rows[u]
<1> DEFINE k == task[p][t]
           s == k.stage
           a == rows[t][s]
           sd == SendingDevice(p)
           v == Visible(t)
<1>0. /\ TypeOK /\ k \in Task /\ s \in Stages /\ a \in Row /\ RowsSole(rows[t], v) /\ RowSole(a, v[s])
      /\ RowShape /\ rows[t]["final"] \in Row
  BY Facts DEF TypeOK, Table, RowsSole
<1>1. rows' = Claim(rows, t, s, sd) /\ v' = v /\ sd' = sd /\ k.pc = "claim" /\ device' = device
  BY DEF ClaimStep, Visible, VisibleCopies, SendingDevice
<1>2. ASSUME NEW b, rows' = [rows EXCEPT ![t][s] = b]
      PROVE  /\ rows'[t][s] = b
             /\ \A z \in Stages : z # s => rows'[t][z] = rows[t][z]
             /\ \A u \in Turns : u # t => rows'[u] = rows[u]
  <2> HIDE DEF s
  <2> QED BY <1>0, <1>2 DEF TypeOK, Table
<1>3. CASE ClaimSuperseded(rows, t, s)
  <2>1. rows' = [rows EXCEPT ![t][s] = EmptyRow] /\ s = "initial" /\ ~a.attempted
    BY <1>1, <1>3 DEF Claim, ClaimSuperseded
  <2>2. task'[p][t].pc \in {"idle", "flush", "claim"}
    BY <1>0, <1>3, DoneRests DEF ClaimStep, ClaimGranted, TypeOK
  <2>3. EmptyRow.acked = NoEvent /\ ~EmptyRow.attempted /\ EmptyRow.device = NoDevice
    BY DEF EmptyRow
  <2>4. RowsSole(rows'[t], v)
    <3>1. rows'[t][s] = EmptyRow /\ \A z \in Stages : z # s => rows'[t][z] = rows[t][z]
      BY <1>2, <2>1
    <3>2. RowSole(EmptyRow, v[s])
      BY <1>0, <2>1, <2>3 DEF RowSole
    <3> HIDE DEF v, s
    <3> QED BY <1>0, <2>1, <2>3, <3>1, <3>2 DEF RowsSole, Unresolved
  <2> QED BY <1>1, <1>2, <2>1, <2>2, <2>4, RestTurn
<1>4. CASE ~ClaimSuperseded(rows, t, s) /\ ~(ClaimGranted(rows, t, s) /\ a.acked = NoEvent)
  <2>1. task'[p][t].pc \in {"idle", "flush", "claim"}
    BY <1>0, <1>4, DoneRests DEF ClaimStep, TypeOK
  <2>2. rows' = rows
    <3>1. ClaimGranted(rows, t, s) => a.attempted
      BY <1>0, <1>4 DEF RowShape, WellFormed
    <3> QED BY <1>1, <1>4, <3>1 DEF Claim
  <2> QED BY <1>0, <1>1, <2>1, <2>2, RestTurn
<1>5. CASE ~ClaimSuperseded(rows, t, s) /\ ClaimGranted(rows, t, s) /\ a.acked = NoEvent
  <2> DEFINE b == rows'[t][s]
             k1 == [k EXCEPT !.pc = "claimed", !.claimed = [rows'[t][s] EXCEPT !.attempted = a.attempted]]
  <2>1. task'[p][t] = k1
    BY <1>0, <1>5 DEF ClaimStep, TypeOK
  <2>2. /\ rows' = rows \/ \E c : rows' = [rows EXCEPT ![t][s] = c]
        /\ b.attempted /\ b.acked = NoEvent /\ b.exists /\ ~b.retired /\ ~b.failed /\ b.edits = a.edits /\ b \in Row
        /\ a.attempted => b.device = a.device
        /\ b.device \in {a.device, sd}
    <3>1. CASE a.attempted
      <4>1. rows' = rows
        BY <1>1, <1>5, <3>1 DEF Claim
      <4> QED BY <1>0, <1>5, <3>1, <4>1 DEF ClaimGranted, ClaimWithdrawn
    <3>2. CASE ~a.attempted
      <4> DEFINE c == [a EXCEPT !.attempted = TRUE, !.device = sd]
      <4>1. rows' = [rows EXCEPT ![t][s] = c]
        BY <1>1, <1>5, <3>2 DEF Claim
      <4>2. c.attempted /\ c.acked = a.acked /\ c.exists = a.exists /\ c.retired = a.retired
            /\ c.failed = a.failed /\ c.edits = a.edits /\ c.device = sd /\ c \in Row
        <5>1. sd \in Devices \cup {NoDevice}
          BY <1>0, SendingDeviceType
        <5> HIDE DEF sd, a
        <5> QED BY <1>0, <5>1 DEF Row
      <4>3. a.exists /\ ~a.retired /\ ~a.failed
        BY <1>5 DEF ClaimGranted, ClaimWithdrawn
      <4> HIDE DEF c
      <4>4. b = c
        BY <1>2, <4>1
      <4> QED BY <1>5, <3>2, <4>1, <4>2, <4>3, <4>4
    <3> QED BY <3>1, <3>2
  <2>3. /\ \A z \in Stages : z # s => rows'[t][z] = rows[t][z]
        /\ \A u \in Turns : u # t => rows'[u] = rows[u]
    BY <1>2, <2>2
  <2>4. /\ k1.pc = "claimed" /\ k1.stage = s /\ k1.claimed.device = b.device
        /\ k1.claimed.attempted = a.attempted
    BY <1>0, <2>2 DEF Task, Row
  <2> HIDE DEF k1, b
  <2>5. RowSole(b, v[s])
    BY <1>0, <1>5, <2>2 DEF RowSole
  <2>6. /\ s = "final" /\ StandsAlone(b) => ~Unresolved(rows[t]["initial"])
        /\ s = "initial" => ~StandsAlone(rows[t]["final"])
    <3>1. s = "final" /\ a.edits = NoEvent => ~Unresolved(rows[t]["initial"])
      BY <1>5 DEF ClaimGranted, ClaimBlocked
    <3>2. CASE s = "initial" /\ ~a.attempted
      <4>1. ~rows[t]["final"].exists
        BY <1>5, <3>2 DEF ClaimSuperseded, ClaimGranted
      <4> QED BY <3>2, <4>1, <1>0 DEF RowShape, WellFormed, StandsAlone, Stages
    <3>3. CASE s = "initial" /\ a.attempted
      <4>1. Unresolved(rows[t]["initial"])
        BY <1>5, <3>3 DEF Unresolved, Owed, ClaimGranted, ClaimWithdrawn
      <4> QED BY <1>0, <3>3, <4>1 DEF RowsSole
    <3> QED BY <2>2, <3>1, <3>2, <3>3 DEF StandsAlone
  <2>7. RowsSole(rows'[t], v)
    <3>1. rows'[t][s] = b /\ s \in {"initial", "final"}
      BY <1>0 DEF b, Stages
    <3> HIDE DEF v, s
    <3>2. \A z \in Stages : RowSole(rows'[t][z], v[z])
      BY <1>0, <2>3, <2>5, <3>1 DEF RowsSole
    <3>3. CASE s = "initial"
      BY <2>3, <2>6, <3>1, <3>2, <3>3 DEF RowsSole, Stages
    <3>4. CASE s = "final"
      BY <2>3, <2>6, <3>1, <3>2, <3>4 DEF RowsSole, Stages
    <3> QED BY <3>1, <3>3, <3>4
  <2>8. FlushSole(k1, device'[p], sd', rows'[t], v')
    <3>1. Unresolved(b) /\ b = rows'[t][k1.stage]
      BY <2>2, <2>4 DEF Unresolved, Owed, b
    <3>2. k1.stage = "initial" => ~StandsAlone(rows'[t]["final"])
      BY <2>3, <2>4, <2>6 DEF Stages
    <3>3. ~k1.claimed.attempted => v'[k1.stage] = {}
      BY <1>0, <1>1, <2>4 DEF RowSole
    <3> QED BY <2>4, <3>1, <3>2, <3>3 DEF FlushSole
  <2>9. CleanSole(k1, sd', rows'[t], v', redaction'[t], record'[t])
    BY <2>4 DEF CleanSole, CleanPcs
  <2> QED BY <1>1, <2>1, <2>3, <2>7, <2>8, <2>9 DEF SoleTurn
<1> QED BY <1>3, <1>4, <1>5

\* CheckEpoch: the transaction ID is trusted only where the device that used it
\* is the one that sends.
LEMMA CheckEpochSole ==
    ASSUME Before, NEW p \in Processes, NEW t \in Turns, CheckEpoch(p, t)
    PROVE  SoleTurn(p, t)'
<1> DEFINE k == task[p][t]
           v == Visible(t)
           pc == IF k.claimed.epoch # epoch THEN "stale"
                 ELSE IF Deduplicates(p, k.claimed) THEN "device" ELSE "resolve"
           k1 == [k EXCEPT !.pc = pc]
<1>0. /\ TypeOK /\ k \in Task /\ k.stage \in Stages /\ RowsSole(rows[t], v) /\ RowSole(rows[t][k.stage], v[k.stage])
      /\ FlushSole(k, device[p], SendingDevice(p), rows[t], v) /\ SendingDevice(p) \in {device[p], NoDevice}
  BY Facts DEF RowsSole
<1>1. /\ rows' = rows /\ v' = v /\ SendingDevice(p)' = SendingDevice(p) /\ device' = device
      /\ k.pc = "claimed" /\ task'[p][t] = k1
  BY <1>0 DEF CheckEpoch, Goto, Visible, VisibleCopies, SendingDevice, durable, TypeOK
<1>2. k1.pc = pc /\ k1.stage = k.stage /\ k1.claimed = k.claimed
  BY <1>0 DEF Task
<1>3. pc \in {"stale", "device", "resolve"} /\ (pc = "device" => Deduplicates(p, k.claimed))
  OBVIOUS
<1> HIDE DEF k1, pc
<1>4. pc = "device" => \A e \in v[k.stage] : e.device = device[p]
  BY <1>0, <1>1, <1>3 DEF Deduplicates, FlushSole, RowSole
<1> HIDE DEF k, v
<1>5. FlushSole(k1, device'[p], SendingDevice(p)', rows'[t], v')
  BY <1>0, <1>1, <1>2, <1>3, <1>4 DEF FlushSole, FlushPcs
<1>6. CleanSole(k1, SendingDevice(p)', rows'[t], v', redaction'[t], record'[t])
  BY <1>2, <1>3 DEF CleanSole, CleanPcs
<1> QED BY <1>0, <1>1, <1>5, <1>6 DEF SoleTurn, v

\* A lookup in the room history finds the one visible event, or there is none.
LEMMA ResolveFinds ==
    ASSUME Before, NEW p \in Processes, NEW t \in Turns, task[p][t].pc \in ClaimedPcs,
           NEW found, NEW miss, Resolve(p, t, found, miss)
    PROVE  /\ UNCHANGED <<rows, room, device, redaction, record>> /\ Visible(t)' = Visible(t)
           /\ SendingDevice(p)' = SendingDevice(p)
           /\ task'[p][t].stage = task[p][t].stage /\ task'[p][t].claimed = task[p][t].claimed
           /\ \/ task'[p][t].pc = miss /\ Visible(t)[task[p][t].stage] = {}
              \/ task'[p][t].pc = found /\ Visible(t)[task[p][t].stage] = {task'[p][t].event}
<1> DEFINE k == task[p][t]
<1>0. TypeOK /\ k \in Task /\ k.stage \in Stages /\ Visible(t)[k.stage] = VisibleCopies(t, k.stage)
  BY Facts
<1>1. Copies(t, k.stage, k.claimed) = Visible(t)[k.stage]
  BY <1>0, CopiesAreVisible DEF Before
<1>2. UNCHANGED <<rows, room, device, redaction, record>> /\ Visible(t)' = Visible(t) /\ SendingDevice(p)' = SendingDevice(p)
  BY DEF Resolve, durable, Visible, VisibleCopies, SendingDevice
<1>3. CASE Copies(t, k.stage, k.claimed) = {} /\ Goto(p, t, miss)
  <2>1. task'[p][t] = [k EXCEPT !.pc = miss]
    BY <1>0, <1>3 DEF Goto, TypeOK
  <2>2. [k EXCEPT !.pc = miss].pc = miss /\ [k EXCEPT !.pc = miss].stage = k.stage /\ [k EXCEPT !.pc = miss].claimed = k.claimed
    BY <1>0 DEF Task
  <2> HIDE DEF k
  <2> QED BY <1>1, <1>2, <1>3, <2>1, <2>2 DEF k
<1>4. ASSUME NEW e, Copies(t, k.stage, k.claimed) = {e},
             task' = [task EXCEPT ![p][t] = [@ EXCEPT !.pc = found, !.event = e]]
      PROVE  /\ task'[p][t].stage = k.stage /\ task'[p][t].claimed = k.claimed
             /\ task'[p][t].pc = found /\ task'[p][t].event = e
  <2> DEFINE k1 == [k EXCEPT !.pc = found, !.event = e]
  <2>1. task'[p][t] = k1
    BY <1>0, <1>4 DEF TypeOK
  <2>2. k1.pc = found /\ k1.event = e /\ k1.stage = k.stage /\ k1.claimed = k.claimed
    BY <1>0 DEF Task
  <2> QED BY <2>1, <2>2
<1>5. \A e \in Copies(t, k.stage, k.claimed) : Copies(t, k.stage, k.claimed) = {e}
  BY <1>0, <1>1, Facts DEF RowsSole, RowSole
<1> QED BY <1>1, <1>2, <1>3, <1>4, <1>5 DEF Resolve

\* ReconcileStale and ReconcileDevice: what is found is acknowledged, what is
\* retired or sent again is not in the room.
LEMMA ReconcileSole ==
    ASSUME Before, NEW p \in Processes, NEW t \in Turns, ReconcileStale(p, t) \/ ReconcileDevice(p, t)
    PROVE  SoleTurn(p, t)'
<1> DEFINE k == task[p][t]
           k1 == task'[p][t]
           v == Visible(t)
<1>0. /\ RowsSole(rows[t], v) /\ FlushSole(k, device[p], SendingDevice(p), rows[t], v)
  BY Facts
<1>1. PICK miss \in {"retire", "device"} : Resolve(p, t, "ack", miss) /\ k.pc \in {"stale", "resolve"}
  BY DEF ReconcileStale, ReconcileDevice
<1>2. /\ UNCHANGED <<rows, room, device, redaction, record>> /\ v' = v
      /\ SendingDevice(p)' = SendingDevice(p) /\ k1.stage = k.stage
      /\ \/ k1.pc = miss /\ v[k.stage] = {}
         \/ k1.pc = "ack" /\ v[k.stage] = {k1.event}
  <2>1. k.pc \in ClaimedPcs
    BY <1>1 DEF ClaimedPcs
  <2> QED BY <1>1, <2>1, ResolveFinds
<1> HIDE DEF k, k1, v
<1>3. FlushSole(k1, device'[p], SendingDevice(p)', rows'[t], v')
  BY <1>0, <1>1, <1>2 DEF FlushSole, FlushPcs
<1>4. CleanSole(k1, SendingDevice(p)', rows'[t], v', redaction'[t], record'[t])
  BY <1>1, <1>2 DEF CleanSole, CleanPcs
<1> QED BY <1>0, <1>2, <1>3, <1>4 DEF SoleTurn, v, k1

\* CleanResolve: cleanup sends again only what the same device sent and the room
\* does not show.
LEMMA CleanResolveSole ==
    ASSUME Before, NEW p \in Processes, NEW t \in Turns, CleanResolve(p, t)
    PROVE  SoleTurn(p, t)'
<1> DEFINE k == task[p][t]
           k1 == task'[p][t]
           v == Visible(t)
<1>0. /\ RowsSole(rows[t], v) /\ FlushSole(k, device[p], SendingDevice(p), rows[t], v)
      /\ CleanSole(k, SendingDevice(p), rows[t], v, redaction[t], record[t])
  BY Facts
<1>1. k.pc = "cleanResolve" /\ k.stage = "initial" /\ Resolve(p, t, "cleanAck", "cleanSend")
  BY DEF CleanResolve, Before, DeliveryInv, TaskShape, CleanPcs
<1>2. /\ UNCHANGED <<rows, room, device, redaction, record>> /\ v' = v
      /\ SendingDevice(p)' = SendingDevice(p) /\ k1.stage = k.stage
      /\ \/ k1.pc = "cleanSend" /\ v[k.stage] = {}
         \/ k1.pc = "cleanAck" /\ v[k.stage] = {k1.event}
  <2>1. k.pc \in ClaimedPcs
    BY <1>1 DEF ClaimedPcs
  <2> QED BY <1>1, <2>1, ResolveFinds
<1>3. k1.pc = "cleanSend" => rows[t]["initial"].device = SendingDevice(p) /\ SendingDevice(p) # NoDevice
  <2>1. k.claimed.device = rows[t]["initial"].device /\ k.claimed.attempted
    BY <1>0, <1>1 DEF CleanSole
  <2>2. k.pc \in ClaimedPcs
    BY <1>1 DEF ClaimedPcs
  <2>3. Copies(t, "initial", k.claimed) = v["initial"]
    BY <1>1, <2>2, CopiesAreVisible, Facts DEF Before
  <2>4. k1.pc = "cleanSend" => Deduplicates(p, k.claimed)
    BY <1>1, <1>2, <2>3 DEF CleanResolve
  <2> QED BY <2>1, <2>4 DEF Deduplicates
<1> HIDE DEF k, k1, v
<1>4. FlushSole(k1, device'[p], SendingDevice(p)', rows'[t], v')
  BY <1>2 DEF FlushSole, FlushPcs
<1>5. CleanSole(k1, SendingDevice(p)', rows'[t], v', redaction'[t], record'[t])
  BY <1>0, <1>1, <1>2, <1>3 DEF CleanSole, CleanPcs
<1> QED BY <1>0, <1>2, <1>4, <1>5 DEF SoleTurn, v, k1

\* StampDevice: the row names the device before the device sends.
LEMMA StampSole ==
    ASSUME Before, NEW p \in Processes, NEW t \in Turns, StampDevice(p, t)
    PROVE  SoleTurn(p, t)' /\ \A u \in Turns : u # t => rows'[u] = rows[u]
<1> DEFINE k == task[p][t]
           s == k.stage
           a == rows[t][s]
           sd == SendingDevice(p)
           v == Visible(t)
           b == [a EXCEPT !.device = sd]
           k1 == [k EXCEPT !.pc = "send"]
<1>0. /\ TypeOK /\ k \in Task /\ s \in Stages /\ a \in Row /\ RowsSole(rows[t], v) /\ RowSole(a, v[s])
      /\ FlushSole(k, device[p], sd, rows[t], v) /\ sd \in {device[p], NoDevice}
  BY Facts DEF RowsSole
<1>1. v' = v /\ sd' = sd /\ k.pc = "device" /\ device' = device /\ task'[p][t] = k1
      /\ rows' = RecordDevice(rows, t, s, sd)
  BY <1>0 DEF StampDevice, Goto, Visible, VisibleCopies, SendingDevice, TypeOK
<1>2. Unresolved(a) /\ (s = "initial" => ~StandsAlone(rows[t]["final"])) /\ \A e \in v[s] : e.device = device[p]
  BY <1>0, <1>1 DEF FlushSole, FlushPcs
<1>3. rows' = [rows EXCEPT ![t][s] = b]
  BY <1>1, <1>2 DEF RecordDevice, Unresolved, Owed
<1>4. /\ b.device = sd /\ b.acked = a.acked /\ b.attempted = a.attempted /\ b.retired = a.retired
      /\ b.exists = a.exists /\ b.failed = a.failed /\ b.edits = a.edits
  <2> HIDE DEF a, sd
  <2> QED BY <1>0 DEF Row
<1>5. k1.pc = "send" /\ k1.stage = s
  BY <1>0 DEF Task
<1> HIDE DEF k1, b, v
<1>6. /\ rows'[t][s] = b
      /\ \A z \in Stages : z # s => rows'[t][z] = rows[t][z]
      /\ \A u \in Turns : u # t => rows'[u] = rows[u]
  <2> HIDE DEF s
  <2> QED BY <1>0, <1>3 DEF TypeOK, Table
<1>7. RowSole(b, v[s]) /\ Unresolved(b) /\ (StandsAlone(b) <=> StandsAlone(a))
  BY <1>0, <1>2, <1>4 DEF RowSole, Unresolved, Owed, StandsAlone
<1> HIDE DEF s, sd
<1>8. RowsSole(rows'[t], v) /\ (s = "initial" => ~StandsAlone(rows'[t]["final"]))
  BY <1>0, <1>2, <1>6, <1>7 DEF RowsSole, Stages, a
<1>9. FlushSole(k1, device'[p], sd', rows'[t], v')
  BY <1>1, <1>2, <1>4, <1>5, <1>6, <1>7, <1>8 DEF FlushSole, FlushPcs
<1>10. CleanSole(k1, sd', rows'[t], v', redaction'[t], record'[t])
  BY <1>5 DEF CleanSole, CleanPcs
<1> QED BY <1>1, <1>6, <1>8, <1>9, <1>10 DEF SoleTurn, v, sd

\* What one accepted send makes of the rows and the room: the event is the
\* first visible one, or the one the device had sent before.
LEMMA AcceptSole ==
    ASSUME Before, NEW p \in Processes, NEW t \in Turns, NEW s \in Stages, NEW row,
           room' = Accept(EventId(t, s, device[p]), row), rows' = rows,
           rows[t][s].attempted, rows[t][s].acked = NoEvent, ~rows[t][s].retired,
           rows[t][s].device = SendingDevice(p),
           \A e \in VisibleCopies(t, s) : e.device = device[p]
    PROVE  /\ RowsSole(rows'[t], Visible(t)')
           /\ Visible(t)'[s] \subseteq {EventId(t, s, device[p])}
           /\ \A e \in EventIds : e.turn # t => room'[e] = room[e]
<1> DEFINE x == EventId(t, s, device[p])
           v == Visible(t)
           w == Visible(t)'
<1>0. /\ TypeOK /\ RowsSole(rows[t], v) /\ device[p] \in Devices /\ SendingDevice(p) \in {device[p], NoDevice}
      /\ v = [z \in Stages |-> VisibleCopies(t, z)] /\ w = [z \in Stages |-> VisibleCopies(t, z)']
      /\ \A e \in VisibleCopies(t, s) : e = EventId(t, s, e.device)
  BY Facts
<1>1. x \in EventIds /\ x.turn = t /\ x.stage = s /\ x.device = device[p]
  BY <1>0, EventIdType DEF EventId
<1>2. \A e \in EventIds : e.turn # t => room'[e] = room[e]
  <2>1. room' = Accept(x, row)
    OBVIOUS
  <2>2. \A e \in EventIds : e # x => room'[e] = room[e]
    <3> HIDE DEF x
    <3> QED BY <1>0, <1>1, <2>1, AcceptGrows
  <2> QED BY <1>1, <2>2
<1>3. /\ w[s] \subseteq VisibleCopies(t, s) \cup {x}
      /\ \A z \in Stages : z # s => w[z] = v[z]
  <2>1. room' = Accept(x, row)
    OBVIOUS
  <2>2. \A z \in Stages : /\ VisibleCopies(t, z)' \subseteq VisibleCopies(t, z) \cup {x}
                          /\ ~Delivers(x, t, z) => VisibleCopies(t, z)' = VisibleCopies(t, z)
    <3> HIDE DEF x
    <3> QED BY <1>0, <1>1, <2>1, AcceptVisible
  <2> QED BY <1>0, <1>1, <2>2 DEF Delivers
<1>4. w[s] \subseteq {x}
  BY <1>0, <1>3
<1>5. RowSole(rows[t][s], w[s])
  BY <1>0, <1>1, <1>4 DEF RowSole, Unresolved, Owed
<1> HIDE DEF w, v, x
<1>6. RowsSole(rows[t], w)
  BY <1>0, <1>3, <1>5 DEF RowsSole
<1> QED BY <1>2, <1>4, <1>6 DEF w, x

\* SendAnswered, SendLost and SendRefused.
LEMMA SendSole ==
    ASSUME Before, NEW p \in Processes, NEW t \in Turns,
           SendAnswered(p, t) \/ SendLost(p, t) \/ SendRefused(p, t)
    PROVE  SoleTurn(p, t)' /\ \A e \in EventIds : e.turn # t => room'[e] = room[e]
<1> DEFINE k == task[p][t]
           k1 == task'[p][t]
           s == k.stage
           v == Visible(t)
           x == EventId(t, s, device[p])
<1>0. /\ TypeOK /\ k \in Task /\ s \in Stages /\ RowsSole(rows[t], v)
      /\ FlushSole(k, device[p], SendingDevice(p), rows[t], v) /\ v[s] = VisibleCopies(t, s)
  BY Facts
<1>1. /\ k.pc = "send" /\ rows' = rows /\ device' = device /\ SendingDevice(p)' = SendingDevice(p)
      /\ redaction' = redaction /\ record' = record
      /\ room' = room \/ room' = Accept(x, k.claimed)
  BY DEF SendAnswered, SendLost, SendRefused, SendingDevice, durable
<1>2. /\ Unresolved(rows[t][s]) /\ (s = "initial" => ~StandsAlone(rows[t]["final"]))
      /\ rows[t][s].device = SendingDevice(p) /\ \A e \in v[s] : e.device = device[p]
  BY <1>0, <1>1 DEF FlushSole, FlushPcs
<1>a. ASSUME room' = Accept(x, k.claimed)
      PROVE  /\ RowsSole(rows'[t], Visible(t)')
             /\ Visible(t)'[s] \subseteq {x}
             /\ \A e \in EventIds : e.turn # t => room'[e] = room[e]
  <2>1. PICK z \in Stages : z = s
    BY <1>0
  <2>2. /\ rows' = rows /\ rows[t][z].device = SendingDevice(p)
        /\ rows[t][z].attempted /\ rows[t][z].acked = NoEvent /\ ~rows[t][z].retired
        /\ room' = Accept(EventId(t, z, device[p]), k.claimed)
        /\ \A e \in VisibleCopies(t, z) : e.device = device[p]
    BY <1>0, <1>1, <1>2, <1>a, <2>1 DEF Unresolved, Owed
  <2>3. /\ RowsSole(rows'[t], Visible(t)') /\ Visible(t)'[z] \subseteq {EventId(t, z, device[p])}
        /\ \A e \in EventIds : e.turn # t => room'[e] = room[e]
    <3> HIDE DEF k
    <3> QED BY <2>2, AcceptSole
  <2> QED BY <2>1, <2>3
<1>3. /\ RowsSole(rows'[t], Visible(t)')
      /\ room' # room => Visible(t)'[s] \subseteq {x}
      /\ \A e \in EventIds : e.turn # t => room'[e] = room[e]
  <2>1. CASE room' = room
    <3>1. v' = v
      BY <2>1 DEF Visible, VisibleCopies
    <3> QED BY <1>0, <1>1, <2>1, <3>1
  <2>2. CASE room' = Accept(x, k.claimed)
    BY <1>a, <2>2
  <2> QED BY <1>1, <2>1, <2>2
<1>4. CASE SendLost(p, t)
  <2>1. k1.pc = "idle"
    BY <1>0, <1>4, DoneRests DEF SendLost, TypeOK
  <2> QED BY <1>3, <2>1, RestTurn
<1>5. CASE SendAnswered(p, t)
  <2> DEFINE k2 == [k EXCEPT !.pc = "ack", !.event = x]
  <2>1. k1 = k2 /\ room' = Accept(x, k.claimed)
    BY <1>0, <1>5 DEF SendAnswered, TypeOK
  <2>2. k2.pc = "ack" /\ k2.event = x /\ k2.stage = s
    BY <1>0 DEF Task
  <2>3. Visible(t)'[s] \subseteq {x}
    BY <1>a, <2>1
  <2> HIDE DEF k1, k2, x, s
  <2>4. FlushSole(k1, device'[p], SendingDevice(p)', rows'[t], Visible(t)')
    <3>1. k1.pc = "ack" /\ k1.event = x /\ k1.stage = s
      BY <2>1, <2>2
    <3>2. Unresolved(rows'[t][s]) /\ (s = "initial" => ~StandsAlone(rows'[t]["final"]))
      BY <1>1, <1>2
    <3> QED BY <2>3, <3>1, <3>2 DEF FlushSole
  <2>5. CleanSole(k1, SendingDevice(p)', rows'[t], Visible(t)', redaction'[t], record'[t])
    BY <2>1, <2>2 DEF CleanSole, CleanPcs
  <2> QED BY <1>3, <2>4, <2>5 DEF SoleTurn, k1
<1>6. CASE SendRefused(p, t)
  <2> DEFINE k2 == [k EXCEPT !.pc = "fail"]
  <2>1. k1 = k2
    BY <1>0, <1>6 DEF SendRefused, Goto, TypeOK
  <2>2. k2.pc = "fail" /\ k2.stage = s
    BY <1>0 DEF Task
  <2> HIDE DEF k1, k2, x, s
  <2>4. FlushSole(k1, device'[p], SendingDevice(p)', rows'[t], Visible(t)')
    <3>1. k1.pc = "fail" /\ k1.stage = s
      BY <2>1, <2>2
    <3>2. Unresolved(rows'[t][s]) /\ (s = "initial" => ~StandsAlone(rows'[t]["final"]))
      BY <1>1, <1>2
    <3> QED BY <3>1, <3>2 DEF FlushSole
  <2>5. CleanSole(k1, SendingDevice(p)', rows'[t], Visible(t)', redaction'[t], record'[t])
    BY <2>1, <2>2 DEF CleanSole, CleanPcs
  <2> QED BY <1>3, <2>4, <2>5 DEF SoleTurn, k1
<1> QED BY <1>3, <1>4, <1>5, <1>6

\* CleanSend and CleanLost.
LEMMA CleanSendSole ==
    ASSUME Before, NEW p \in Processes, NEW t \in Turns, CleanSend(p, t) \/ CleanLost(p, t)
    PROVE  SoleTurn(p, t)' /\ \A e \in EventIds : e.turn # t => room'[e] = room[e]
<1> DEFINE k == task[p][t]
           k1 == task'[p][t]
           v == Visible(t)
           x == EventId(t, "initial", device[p])
           k2 == [k EXCEPT !.pc = "cleanAck", !.event = x]
<1>0. /\ TypeOK /\ k \in Task /\ RowsSole(rows[t], v) /\ "initial" \in Stages
      /\ CleanSole(k, SendingDevice(p), rows[t], v, redaction[t], record[t]) /\ v["initial"] = VisibleCopies(t, "initial")
  BY Facts DEF Stages
<1>1. /\ k.pc = "cleanSend" /\ rows' = rows /\ device' = device /\ SendingDevice(p)' = SendingDevice(p)
      /\ redaction' = redaction /\ record' = record /\ room' = Accept(x, k.claimed)
  BY DEF CleanSend, CleanLost, SendingDevice, durable
<1>2. /\ "mark" \in redaction[t] /\ ~KeepsPlaceholder(rows[t]["final"], record[t])
      /\ rows[t]["initial"].attempted /\ rows[t]["initial"].acked = NoEvent /\ ~rows[t]["initial"].retired
      /\ rows[t]["initial"].device = SendingDevice(p) /\ v["initial"] = {}
  BY <1>0, <1>1 DEF CleanSole, CleanPcs
<1>3. /\ RowsSole(rows'[t], Visible(t)')
      /\ Visible(t)'["initial"] \subseteq {x}
      /\ \A e \in EventIds : e.turn # t => room'[e] = room[e]
  BY <1>0, <1>1, <1>2, AcceptSole
<1>4. CASE CleanLost(p, t)
  <2>1. k1.pc = "idle"
    BY <1>0, <1>4, DoneRests DEF CleanLost, TypeOK
  <2> QED BY <1>3, <2>1, RestTurn
<1>5. CASE CleanSend(p, t)
  <2>1. k1 = k2
    BY <1>0, <1>5 DEF CleanSend, TypeOK
  <2>2. k2.pc = "cleanAck" /\ k2.event = x
    BY <1>0 DEF Task
  <2> HIDE DEF k1, k2, x
  <2>4. FlushSole(k1, device'[p], SendingDevice(p)', rows'[t], Visible(t)')
    BY <2>1, <2>2 DEF FlushSole, FlushPcs
  <2>5. CleanSole(k1, SendingDevice(p)', rows'[t], Visible(t)', redaction'[t], record'[t])
    BY <1>1, <1>2, <1>3, <2>1, <2>2 DEF CleanSole, CleanPcs
  <2> QED BY <1>3, <2>4, <2>5 DEF SoleTurn, k1
<1> QED BY <1>3, <1>4, <1>5

-----------------------------------------------------------------------------
(* Outcomes and cleanup.                                                   *)

\* A step that writes one row and leaves the room alone.
LEMMA RowWritten ==
    ASSUME Before, NEW t \in Turns, NEW s \in Stages, room' = room, RowsSole(rows[t], Visible(t)),
           \A z \in Stages : z # s => rows'[t][z] = rows[t][z],
           RowSole(rows'[t][s], Visible(t)[s]),
           Unresolved(rows'[t][s]) => Unresolved(rows[t][s]),
           StandsAlone(rows'[t][s]) => StandsAlone(rows[t][s])
    PROVE  RowsSole(rows'[t], Visible(t)')
<1>1. Visible(t)' = Visible(t)
  BY DEF Visible, VisibleCopies
<1>2. \A z \in Stages : RowSole(rows'[t][z], Visible(t)[z])
  BY DEF RowsSole
<1>3. StandsAlone(rows'[t]["final"]) => ~Unresolved(rows'[t]["initial"])
  BY DEF RowsSole, Stages
<1> QED BY <1>1, <1>2, <1>3 DEF RowsSole

\* AcknowledgeStep, FailStep and RetireStep: the flush resolves its row.
LEMMA OutcomeSole ==
    ASSUME Before, NEW p \in Processes, NEW t \in Turns,
           AcknowledgeStep(p, t) \/ FailStep(p, t) \/ RetireStep(p, t)
    PROVE  SoleTurn(p, t)' /\ \A u \in Turns : u # t => rows'[u] = rows[u]
<1> DEFINE k == task[p][t]
           s == k.stage
           a == rows[t][s]
           v == Visible(t)
           b == IF k.pc = "ack" THEN [a EXCEPT !.acked = k.event, !.failed = FALSE]
                ELSE IF k.pc = "fail" THEN [a EXCEPT !.failed = TRUE] ELSE [a EXCEPT !.retired = TRUE]
<1>0. /\ TypeOK /\ k \in Task /\ s \in Stages /\ a \in Row /\ RowsSole(rows[t], v) /\ RowSole(a, v[s])
      /\ FlushSole(k, device[p], SendingDevice(p), rows[t], v)
  BY Facts DEF RowsSole
<1>1. /\ k.pc \in {"ack", "fail", "retire"} /\ room' = room
      /\ k.pc = "ack" => rows' = Acknowledge(rows, t, s, k.event)
      /\ k.pc = "fail" => rows' = RecordPermanentFailure(rows, t, s)
      /\ k.pc = "retire" => rows' = Retire(rows, t, s)
      /\ Finish(p, t)
  BY DEF AcknowledgeStep, FailStep, RetireStep
<1>2. task'[p][t].pc \in {"idle", "flush", "claim"}
  BY <1>0, <1>1, DoneRests DEF Finish, TypeOK
<1>3. /\ Unresolved(a) /\ (k.pc = "ack" => v[s] \subseteq {k.event}) /\ (k.pc = "retire" => v[s] = {})
  BY <1>0, <1>1 DEF FlushSole, FlushPcs
<1>4. rows' = [rows EXCEPT ![t][s] = b]
  <2>1. AcknowledgeBinds(rows, t, s) /\ Owed(a)
    BY <1>3 DEF Unresolved, Owed, AcknowledgeBinds
  <2> HIDE DEF s
  <2> QED BY <1>1, <2>1 DEF Acknowledge, RecordPermanentFailure, Retire
<1>5. /\ b.attempted = a.attempted /\ b.device = a.device /\ b.edits = a.edits
      /\ b.acked = (IF k.pc = "ack" THEN k.event ELSE a.acked)
      /\ b.retired = (IF k.pc = "retire" THEN TRUE ELSE a.retired)
  <2> HIDE DEF a, k
  <2> QED BY <1>0, <1>1 DEF Row
<1>6. /\ rows'[t][s] = b
      /\ \A z \in Stages : z # s => rows'[t][z] = rows[t][z]
      /\ \A u \in Turns : u # t => rows'[u] = rows[u]
  <2> HIDE DEF s, b
  <2> QED BY <1>0, <1>4 DEF TypeOK, Table
<1>7. RowSole(b, v[s]) /\ (StandsAlone(b) => StandsAlone(a)) /\ Unresolved(a)
  <2> HIDE DEF a, b, v, s, k
  <2> QED BY <1>0, <1>1, <1>3, <1>5 DEF RowSole, Unresolved, Owed, StandsAlone
<1>8. RowsSole(rows'[t], Visible(t)')
  <2>1. PICK z \in Stages : z = s
    BY <1>0
  <2>2. /\ \A x \in Stages : x # z => rows'[t][x] = rows[t][x]
        /\ RowSole(rows'[t][z], Visible(t)[z])
        /\ Unresolved(rows[t][z])
        /\ StandsAlone(rows'[t][z]) => StandsAlone(rows[t][z])
    <3> HIDE DEF b
    <3> QED BY <1>6, <1>7, <2>1
  <2> QED BY <1>0, <1>1, <2>2, RowWritten
<1> QED BY <1>2, <1>6, <1>8, RestTurn

\* CleanAck: the event the cleanup takes back is recorded first.
LEMMA CleanAckSole ==
    ASSUME Before, NEW p \in Processes, NEW t \in Turns, CleanAck(p, t)
    PROVE  SoleTurn(p, t)' /\ \A u \in Turns : u # t => rows'[u] = rows[u]
<1> DEFINE k == task[p][t]
           a == rows[t]["initial"]
           v == Visible(t)
           b == [a EXCEPT !.acked = k.event, !.failed = FALSE]
           k1 == [k EXCEPT !.pc = "cleanRedact"]
<1>0. /\ TypeOK /\ k \in Task /\ a \in Row /\ RowsSole(rows[t], v) /\ RowSole(a, v["initial"]) /\ RowShape
      /\ CleanSole(k, SendingDevice(p), rows[t], v, redaction[t], record[t])
  BY Facts DEF RowsSole, Stages
<1>1. /\ k.pc = "cleanAck" /\ room' = room /\ redaction' = redaction /\ record' = record /\ v' = v
      /\ rows' = Acknowledge(rows, t, "initial", k.event) /\ task'[p][t] = k1
  BY <1>0 DEF CleanAck, Goto, TypeOK, Visible, VisibleCopies
<1>2. /\ "mark" \in redaction[t] /\ ~KeepsPlaceholder(rows[t]["final"], record[t])
      /\ a.attempted /\ a.acked = NoEvent /\ ~a.retired /\ v["initial"] \subseteq {k.event}
  BY <1>0, <1>1 DEF CleanSole, CleanPcs
<1>3. rows' = [rows EXCEPT ![t]["initial"] = b]
  <2>1. AcknowledgeBinds(rows, t, "initial")
    BY <1>0, <1>2 DEF AcknowledgeBinds, RowShape, WellFormed, Stages
  <2> QED BY <1>1, <2>1 DEF Acknowledge
<1>4. b.attempted = a.attempted /\ b.device = a.device /\ b.edits = a.edits /\ b.acked = k.event /\ b.retired = a.retired
  BY <1>0 DEF Row
<1>5. k1.pc = "cleanRedact" /\ k1.event = k.event
  BY <1>0 DEF Task
<1>6. /\ rows'[t]["initial"] = b /\ rows'[t]["final"] = rows[t]["final"]
      /\ \A z \in Stages : z # "initial" => rows'[t][z] = rows[t][z]
      /\ \A u \in Turns : u # t => rows'[u] = rows[u]
  <2> HIDE DEF b
  <2> QED BY <1>0, <1>3 DEF TypeOK, Table, Stages
<1>7. k.event # NoEvent
  <2>1. k.event \in EventIds
    BY <1>1 DEF Before, DeliveryInv, TaskShape
  <2> QED BY <2>1, DeliveryConstants DEF EventIds, Stages
<1>8. RowSole(b, v["initial"]) /\ ~Unresolved(b) /\ (StandsAlone(b) => StandsAlone(a))
  <2> HIDE DEF a, b, v, k
  <2> QED BY <1>0, <1>2, <1>4, <1>7 DEF RowSole, Unresolved, Owed, StandsAlone
<1>9. RowsSole(rows'[t], Visible(t)')
  <2>1. /\ "initial" \in Stages /\ RowSole(rows'[t]["initial"], Visible(t)["initial"])
        /\ ~Unresolved(rows'[t]["initial"])
        /\ StandsAlone(rows'[t]["initial"]) => StandsAlone(rows[t]["initial"])
    <3> HIDE DEF b
    <3> QED BY <1>6, <1>8 DEF Stages
  <2> QED BY <1>0, <1>1, <1>6, <2>1, RowWritten
<1> HIDE DEF k1, v, b
<1>10. FlushSole(k1, device'[p], SendingDevice(p)', rows'[t], v')
  BY <1>5 DEF FlushSole, FlushPcs
<1>11. CleanSole(k1, SendingDevice(p)', rows'[t], v', redaction'[t], record'[t])
  BY <1>1, <1>2, <1>5, <1>6 DEF CleanSole
<1> QED BY <1>1, <1>6, <1>9, <1>10, <1>11 DEF SoleTurn, v

\* CleanRedact: what is taken back is the one visible placeholder.
LEMMA CleanRedactSole ==
    ASSUME Before, NEW p \in Processes, NEW t \in Turns, CleanRedact(p, t)
    PROVE  /\ SoleTurn(p, t)' /\ \A e \in EventIds : e.turn # t => room'[e] = room[e]
           /\ AnswersStand'
<1> DEFINE k == task[p][t]
           x == k.event
           v == Visible(t)
           k1 == [k EXCEPT !.pc = "cleanRetire"]
<1>0. /\ TypeOK /\ k \in Task /\ RowsSole(rows[t], v)
      /\ CleanSole(k, SendingDevice(p), rows[t], v, redaction[t], record[t])
      /\ v = [z \in Stages |-> VisibleCopies(t, z)] /\ v' = [z \in Stages |-> VisibleCopies(t, z)']
  BY Facts
<1>1. /\ k.pc = "cleanRedact" /\ rows' = rows /\ redaction' = redaction /\ record' = record
      /\ room' = [room EXCEPT ![x] = Redacted] /\ task'[p][t] = k1
  BY <1>0 DEF CleanRedact, Goto, TypeOK, durable
<1>2. x \in EventIds /\ x.turn = t /\ x.stage = "initial" /\ AnswersStand
  BY <1>1 DEF Before, TasksReal, TaskReal, Delivers, SoleInv
<1>3. "mark" \in redaction[t] /\ ~KeepsPlaceholder(rows[t]["final"], record[t]) /\ v["initial"] \subseteq {x}
  BY <1>0, <1>1 DEF CleanSole, CleanPcs
<1>4. k1.pc = "cleanRetire"
  BY <1>0 DEF Task
<1> HIDE DEF k1, x
<1>5. /\ \A e \in EventIds : e # x => room'[e] = room[e]
      /\ \A z \in Stages : VisibleCopies(t, z)' = VisibleCopies(t, z) \ {x}
  <2>1. room' = [room EXCEPT ![x] = Redacted]
    BY <1>1
  <2>2. \A z \in Stages : VisibleCopies(t, z)' = VisibleCopies(t, z) \ {x}
    BY <1>0, <1>2, <2>1, RedactVisible
  <2> QED BY <1>0, <1>2, <2>1, <2>2 DEF TypeOK
<1>6. AnswersStand'
  BY <1>2, <1>5 DEF AnswersStand
<1>7. v'["initial"] = {} /\ \A z \in Stages : v'[z] \subseteq v[z]
  BY <1>0, <1>3, <1>5 DEF Stages
<1>8. RowsSole(rows'[t], v')
  <2> HIDE DEF v
  <2> QED BY <1>0, <1>1, <1>7 DEF RowsSole, RowSole
<1>9. FlushSole(k1, device'[p], SendingDevice(p)', rows'[t], v')
  BY <1>4 DEF FlushSole, FlushPcs
<1>10. CleanSole(k1, SendingDevice(p)', rows'[t], v', redaction'[t], record'[t])
  BY <1>1, <1>3, <1>4, <1>7 DEF CleanSole
<1> QED BY <1>1, <1>2, <1>5, <1>6, <1>8, <1>9, <1>10 DEF SoleTurn

\* CleanRetire: the placeholder that is given up is not in the room.
LEMMA CleanRetireSole ==
    ASSUME Before, NEW p \in Processes, NEW t \in Turns, CleanRetire(p, t)
    PROVE  SoleTurn(p, t)' /\ \A u \in Turns : u # t => rows'[u] = rows[u]
<1> DEFINE k == task[p][t]
           a == rows[t]["initial"]
           v == Visible(t)
           b == [a EXCEPT !.retired = TRUE]
<1>0. /\ TypeOK /\ a \in Row /\ RowsSole(rows[t], v) /\ RowSole(a, v["initial"]) /\ "initial" \in Stages
      /\ CleanSole(k, SendingDevice(p), rows[t], v, redaction[t], record[t])
  BY Facts DEF RowsSole, Stages
<1>1. /\ k.pc = "cleanRetire" /\ room' = room /\ v' = v /\ Finish(p, t)
      /\ rows' = rows \/ rows' = [rows EXCEPT ![t]["initial"] = b]
  BY DEF CleanRetire, Visible, VisibleCopies
<1>2. task'[p][t].pc \in {"idle", "flush", "claim"}
  BY <1>0, DoneRests DEF CleanRetire, Finish, TypeOK
<1>3. v["initial"] = {}
  BY <1>0, <1>1 DEF CleanSole
<1>4. CASE rows' = rows
  BY <1>0, <1>1, <1>2, <1>4, RestTurn
<1>5. CASE rows' = [rows EXCEPT ![t]["initial"] = b]
  <2>1. b.acked = a.acked /\ b.attempted = a.attempted /\ b.edits = a.edits /\ b.device = a.device /\ b.retired
    BY <1>0 DEF Row
  <2> HIDE DEF b
  <2>2. /\ rows'[t]["initial"] = b
        /\ \A z \in Stages : z # "initial" => rows'[t][z] = rows[t][z]
        /\ \A u \in Turns : u # t => rows'[u] = rows[u]
    BY <1>0, <1>5 DEF TypeOK, Table
  <2>3. RowSole(b, v["initial"]) /\ ~Unresolved(b) /\ (StandsAlone(b) => StandsAlone(a))
    BY <1>0, <1>3, <2>1 DEF RowSole, Unresolved, Owed, StandsAlone
  <2>4. RowsSole(rows'[t], Visible(t)')
    <3>1. /\ RowSole(rows'[t]["initial"], Visible(t)["initial"]) /\ ~Unresolved(rows'[t]["initial"])
          /\ StandsAlone(rows'[t]["initial"]) => StandsAlone(rows[t]["initial"])
      BY <2>2, <2>3
    <3> QED BY <1>0, <1>1, <2>2, <3>1, RowWritten
  <2> QED BY <1>2, <2>2, <2>4, RestTurn
<1> QED BY <1>1, <1>4, <1>5

-----------------------------------------------------------------------------
(* Every step.                                                             *)

\* A step of a turn leaves the rows and the events of the others alone.
Confined(t) ==
    /\ \A u \in Turns : u # t => rows'[u] = rows[u] /\ record'[u] = record[u] /\ redaction'[u] = redaction[u]
    /\ \A e \in EventIds : e.turn # t => room'[e] = room[e]

\* A step of a flush.
LEMMA StepSole ==
    ASSUME Before, NEW p \in Processes, NEW t \in Turns, Step(p, t)
    PROVE  SoleTurn(p, t)' /\ Confined(t)
<1>1. TypeOK /\ RowsSole(rows[t], Visible(t))
  BY Facts
<1>2. \A u \in Turns : u # t => record'[u] = record[u] /\ redaction'[u] = redaction[u]
  <2>1. redaction' = redaction \/ redaction' = [redaction EXCEPT ![t] = @ \cup {"mark"}]
    BY StepLeaves
  <2>2. record' = record \/ \E x : record' = [record EXCEPT ![t] = x]
    BY StepLeaves DEF AcknowledgeStep
  <2> QED BY <1>1, <2>1, <2>2 DEF TypeOK
<1>3. CASE CheckDeleted(p, t)
  BY <1>2, <1>3, CheckDeletedSole DEF CheckDeleted, Confined
<1>4. CASE ClaimStep(p, t)
  <2>1. room' = room
    BY <1>4 DEF ClaimStep
  <2> QED BY <1>2, <1>4, <2>1, ClaimSole DEF Confined
<1>5. CASE CheckEpoch(p, t)
  BY <1>2, <1>5, CheckEpochSole DEF CheckEpoch, durable, Confined
<1>6. CASE ReconcileStale(p, t) \/ ReconcileDevice(p, t)
  BY <1>2, <1>6, ReconcileSole DEF ReconcileStale, ReconcileDevice, Resolve, durable, Confined
<1>7. CASE StampDevice(p, t)
  <2>1. room' = room
    BY <1>7 DEF StampDevice
  <2> QED BY <1>2, <1>7, <2>1, StampSole DEF Confined
<1>8. CASE SendAnswered(p, t) \/ SendLost(p, t) \/ SendRefused(p, t)
  <2>1. rows' = rows
    BY <1>8 DEF SendAnswered, SendLost, SendRefused, durable
  <2> QED BY <1>2, <1>8, <2>1, SendSole DEF Confined
<1>9. CASE AcknowledgeStep(p, t) \/ FailStep(p, t) \/ RetireStep(p, t)
  <2>1. room' = room
    BY <1>9 DEF AcknowledgeStep, FailStep, RetireStep
  <2> QED BY <1>2, <1>9, <2>1, OutcomeSole DEF Confined
<1>10. CASE CleanResolve(p, t)
  BY <1>2, <1>10, CleanResolveSole DEF CleanResolve, Resolve, durable, Confined
<1>11. CASE CleanUnproven(p, t) \/ ScanRefused(p, t)
  <2>1. rows' = rows /\ room' = room /\ task' = [task EXCEPT ![p][t] = NoTask]
    BY <1>11 DEF CleanUnproven, ScanRefused, durable
  <2>2. Visible(t)' = Visible(t) /\ task'[p][t].pc = "idle"
    BY <1>1, <2>1, DoneRests DEF TypeOK, Visible, VisibleCopies
  <2> QED BY <1>1, <1>2, <2>1, <2>2, RestTurn DEF Confined
<1>12. CASE CleanSend(p, t) \/ CleanLost(p, t)
  <2>1. rows' = rows
    BY <1>12 DEF CleanSend, CleanLost, durable
  <2> QED BY <1>2, <1>12, <2>1, CleanSendSole DEF Confined
<1>13. CASE CleanAck(p, t)
  <2>1. room' = room
    BY <1>13 DEF CleanAck
  <2> QED BY <1>2, <1>13, <2>1, CleanAckSole DEF Confined
<1>14. CASE CleanRedact(p, t)
  <2>1. rows' = rows
    BY <1>14 DEF CleanRedact, durable
  <2> QED BY <1>2, <1>14, <2>1, CleanRedactSole DEF Confined
<1>15. CASE CleanRetire(p, t)
  <2>1. room' = room
    BY <1>15 DEF CleanRetire
  <2> QED BY <1>2, <1>15, <2>1, CleanRetireSole DEF Confined
<1> QED BY <1>3, <1>4, <1>5, <1>6, <1>7, <1>8, <1>9, <1>10, <1>11, <1>12, <1>13, <1>14, <1>15 DEF Step, Progress

\* Starting a turn or a flush, and a flush that raises.
LEMMA StartSole ==
    ASSUME Before, NEW p \in Processes, NEW t \in Turns, Start(p, t) \/ Raise(p, t)
    PROVE  SoleTurn(p, t)' /\ Confined(t)
<1>1. TypeOK /\ RowsSole(rows[t], Visible(t)) /\ SoleTurn(p, t)
  BY Facts DEF Before, SoleInv
<1>2. UNCHANGED <<redaction, record, room, device>>
  BY StartLeaves DEF Raise, durable
<1>3. Visible(t)' = Visible(t)
  BY <1>2 DEF Visible, VisibleCopies
<1>4. ASSUME NEW s \in Stages, NEW y, NEW x, NEW f, Deliver(p, t, s, y, x, f)
      PROVE  SoleTurn(p, t)' /\ Confined(t)
  BY <1>2, <1>4, DeliverSole DEF Confined
<1>5. CASE StartTurn(p, t)
  <2>1. rows' = rows /\ task' = task
    BY <1>5 DEF StartTurn, durable
  <2>2. SoleTurn(p, t)'
    BY <1>1, <1>2, <2>1, TurnKept
  <2> QED BY <1>2, <2>1, <2>2 DEF Confined
<1>6. ASSUME NEW s \in Stages, Recover(p, t, s) PROVE SoleTurn(p, t)' /\ Confined(t)
  <2>1. rows' = rows /\ task'[p][t].pc \in {"flush", "claim"}
    BY <1>1, <1>6 DEF Recover, durable, TypeOK, NoTask
  <2> QED BY <1>1, <1>2, <1>3, <2>1, RestTurn DEF Confined
<1>7. CASE RecoverDeleted(p, t)
  <2>1. rows' = rows /\ task'[p][t].pc = "flush"
    BY <1>1, <1>7 DEF RecoverDeleted, durable, TypeOK, NoTask
  <2> QED BY <1>1, <1>2, <1>3, <2>1, RestTurn DEF Confined
<1>8. CASE Raise(p, t)
  <2>1. rows' = rows /\ task'[p][t].pc = "idle"
    BY <1>1, <1>8, DoneRests DEF Raise, durable, TypeOK
  <2> QED BY <1>1, <1>2, <1>3, <2>1, RestTurn DEF Confined
<1> QED BY <1>4, <1>5, <1>6, <1>7, <1>8 DEF Start

\* A step works on one task.
LEMMA OneTask ==
    ASSUME TypeOK, NEW p \in Processes, NEW t \in Turns, Step(p, t) \/ Start(p, t) \/ Raise(p, t)
    PROVE  /\ \A u \in Turns : u # t => task'[p][u] = task[p][u]
           /\ device' = device
<1>1. device' = device
  BY StartLeaves, StepLeaves DEF Raise
<1>2. task' = task \/ \E k : task' = [task EXCEPT ![p][t] = k]
  <2>1. CASE Start(p, t)
    BY <2>1 DEF Start, StartTurn, Deliver, Recover, RecoverDeleted
  <2>2. CASE Raise(p, t)
    BY <2>2 DEF Raise
  <2>3. CASE Step(p, t)
    BY <2>3 DEF Step, Progress, CheckDeleted, ClaimStep, CheckEpoch, ReconcileStale, ReconcileDevice, Resolve,
         Goto, Finish, StampDevice, SendAnswered, SendLost, SendRefused, AcknowledgeStep, FailStep,
         RetireStep, CleanResolve, CleanUnproven, ScanRefused, CleanSend, CleanLost, CleanAck, CleanRedact, CleanRetire
  <2> QED BY <2>1, <2>2, <2>3
<1> QED BY <1>1, <1>2 DEF TypeOK

\* Leaving the room retires what was never offered to the homeserver.
LEMMA DepartSole ==
    ASSUME Before, NEW p \in Processes, NEW t \in Turns, Depart
    PROVE  SoleTurn(p, t)'
<1> DEFINE v == Visible(t)
<1>0. /\ TypeOK /\ RowShape /\ RowsSole(rows[t], v) /\ rows[t] \in [Stages -> Row]
      /\ FlushSole(task[p][t], device[p], SendingDevice(p), rows[t], v)
      /\ CleanSole(task[p][t], SendingDevice(p), rows[t], v, redaction[t], record[t])
  BY Facts
<1>1. /\ v' = v /\ SendingDevice(p)' = SendingDevice(p) /\ UNCHANGED <<task, record, device>>
      /\ rows' = RetireUnattempted(rows)
      /\ "mark" \in redaction[t] => "mark" \in redaction'[t]
  BY DEF Depart, Visible, VisibleCopies, SendingDevice
<1>2. ASSUME NEW s \in Stages
      PROVE  \/ rows'[t][s] = rows[t][s]
             \/ /\ rows'[t][s] = [rows[t][s] EXCEPT !.retired = TRUE]
                /\ AcknowledgeBinds(rows, t, s) /\ ~rows[t][s].attempted
  BY <1>1 DEF RetireUnattempted
<1>3. ASSUME NEW s \in Stages
      PROVE  /\ rows'[t][s].attempted = rows[t][s].attempted /\ rows'[t][s].acked = rows[t][s].acked
             /\ rows'[t][s].device = rows[t][s].device /\ rows'[t][s].edits = rows[t][s].edits
             /\ rows'[t][s].exists = rows[t][s].exists /\ rows'[t][s].failed = rows[t][s].failed
             /\ rows[t][s].retired => rows'[t][s].retired
             /\ rows[t][s].attempted => rows'[t][s] = rows[t][s]
  <2>1. CASE rows'[t][s] = rows[t][s]
    BY <2>1
  <2>2. CASE rows'[t][s] = [rows[t][s] EXCEPT !.retired = TRUE] /\ ~rows[t][s].attempted
    <3>1. rows[t][s] \in Row
      BY <1>0
    <3> QED BY <2>2, <3>1 DEF Row
  <2> QED BY <1>2, <2>1, <2>2
<1>4. ASSUME NEW s \in Stages PROVE RowSole(rows'[t][s], v[s])
  <2>1. RowSole(rows[t][s], v[s])
    BY <1>0 DEF RowsSole
  <2>2. rows'[t][s] = rows[t][s] \/ ~rows[t][s].attempted
    BY <1>2
  <2> QED BY <1>3, <2>1, <2>2 DEF RowSole
<1>5. RowsSole(rows'[t], v')
  BY <1>0, <1>1, <1>3, <1>4 DEF RowsSole, StandsAlone, Unresolved, Owed, Stages
<1> DEFINE k == task[p][t]
<1>6. k.stage \in Stages
  BY Facts
<1> HIDE DEF v, k
<1>7. FlushSole(k, device'[p], SendingDevice(p)', rows'[t], v')
  <2>1. k.pc \in FlushPcs => rows'[t][k.stage] = rows[t][k.stage]
    BY <1>0, <1>3, <1>6 DEF FlushSole, Unresolved, k
  <2>2. StandsAlone(rows'[t]["final"]) <=> StandsAlone(rows[t]["final"])
    BY <1>3 DEF StandsAlone, Stages
  <2> QED BY <1>0, <1>1, <2>1, <2>2 DEF FlushSole, FlushPcs, k
<1>8. CleanSole(k, SendingDevice(p)', rows'[t], v', redaction'[t], record'[t])
  <2>1. KeepsPlaceholder(rows'[t]["final"], record[t]) => KeepsPlaceholder(rows[t]["final"], record[t])
    BY <1>3 DEF KeepsPlaceholder, Stages
  <2>2. rows[t]["initial"].attempted => rows'[t]["initial"] = rows[t]["initial"]
    BY <1>3 DEF Stages
  <2> QED BY <1>0, <1>1, <2>1, <2>2 DEF CleanSole, CleanPcs, k
<1> QED BY <1>1, <1>5, <1>7, <1>8 DEF SoleTurn, v, k

\* Only cleanup redacts, and only placeholders.
LEMMA AnswersKept ==
    ASSUME Before, [Next]_vars
    PROVE  AnswersStand'
<1>0. TypeOK /\ TaskShape /\ TasksReal /\ AnswersStand
  BY DEF Before, DeliveryInv, SoleInv
<1>1. CASE room' = room
  BY <1>0, <1>1 DEF AnswersStand
<1>2. CASE room' # room
  <2>1. PICK p \in Processes, t \in Turns : Step(p, t)
    BY <1>0, <1>2, NextGrows
  <2>2. CASE CleanRedact(p, t)
    BY <2>2, CleanRedactSole
  <2>3. CASE ~CleanRedact(p, t)
    <3>1. PICK x \in EventIds : \E row : room' = Accept(x, row)
      <4>1. /\ task[p][t].stage \in Stages /\ device[p] \in Devices /\ "initial" \in Stages
        BY <1>0, TaskType DEF TypeOK, Stages
      <4>2. EventId(t, task[p][t].stage, device[p]) \in EventIds /\ EventId(t, "initial", device[p]) \in EventIds
        BY <4>1, EventIdType
      <4> QED BY <1>2, <2>1, <2>3, <4>2
            DEF Step, Progress, CheckDeleted, ClaimStep, CheckEpoch, ReconcileStale, ReconcileDevice, Resolve,
              StampDevice, SendAnswered, SendLost, SendRefused, AcknowledgeStep, FailStep,
              RetireStep, CleanResolve, CleanUnproven, ScanRefused, CleanSend, CleanLost, CleanAck, CleanRetire
    <3>2. PICK row : room' = Accept(x, row)
      BY <3>1
    <3> QED BY <1>0, <3>2 DEF Accept, AnswersStand, TypeOK
  <2> QED BY <2>2, <2>3
<1> QED BY <1>1, <1>2

\* Every step of a single process preserves what it knows.
LEMMA NextSole ==
    ASSUME OneProcess, Before, [Next]_vars
    PROVE  SoleInv'
<1>0. TypeOK /\ \A p \in Processes, t \in Turns : SoleTurn(p, t)
  BY DEF Before, DeliveryInv, SoleInv
<1>1. SUFFICES ASSUME NEW p \in Processes, NEW u \in Turns PROVE SoleTurn(p, u)'
  BY AnswersKept DEF SoleInv
<1>2. \A q \in Processes : q = p
  BY DEF OneProcess
<1>3. SoleTurn(p, u)
  BY <1>0
<1>4. ASSUME NEW t \in Turns, Step(p, t) \/ Start(p, t) \/ Raise(p, t) PROVE SoleTurn(p, u)'
  <2>1. SoleTurn(p, t)' /\ Confined(t)
    BY <1>4, StepSole, StartSole
  <2>2. CASE u # t
    <3>1. task'[p][u] = task[p][u] /\ device' = device
      BY <1>0, <1>4, <2>2, OneTask
    <3>2. /\ rows'[u] = rows[u] /\ record'[u] = record[u] /\ redaction'[u] = redaction[u]
          /\ \A e \in EventIds : e.turn = u => room'[e] = room[e]
      BY <2>1, <2>2 DEF Confined
    <3> QED BY <1>3, <3>1, <3>2, TurnKept
  <2> QED BY <2>1, <2>2
<1>5. ASSUME NEW d \in Devices, Crash(p, d) PROVE SoleTurn(p, u)'
  <2>1. task'[p][u].pc = "idle" /\ rows' = rows /\ Visible(u)' = Visible(u)
    BY <1>0, <1>5, DoneRests DEF Crash, TypeOK, durable, Visible, VisibleCopies
  <2>2. RowsSole(rows'[u], Visible(u)')
    BY <1>3, <2>1 DEF SoleTurn
  <2> QED BY <2>1, <2>2, RestTurn
<1>6. CASE Depart
  BY <1>6, DepartSole
<1>7. CASE Rejoin \/ (\E e \in EventIds : Echo(e)) \/ UNCHANGED vars \/ \E t \in Turns : Admit(t) \/ DeleteSource(t) \/ MarkRedacted(t) \/ Bury(t)
  <2>1. task' = task /\ device' = device /\ rows' = rows /\ record' = record /\ room' = room
    BY <1>7 DEF Rejoin, Echo, vars, durable, Admit, DeleteSource, MarkRedacted, Bury
  <2>2. "mark" \in redaction[u] => "mark" \in redaction'[u]
    BY <1>0, <1>7 DEF Rejoin, Echo, vars, durable, Admit, DeleteSource, MarkRedacted, Bury, TypeOK
  <2> QED BY <1>3, <2>1, <2>2, TurnKept
<1> QED BY <1>2, <1>4, <1>5, <1>6, <1>7 DEF Next, Outside

-----------------------------------------------------------------------------
(* What follows for one process.                                           *)

\* Which step changes an event of the room: a send of the event's own delivery,
\* or the cleanup of its turn.
LEMMA WhoChangesRoom ==
    ASSUME Before, [Next]_vars, NEW e \in EventIds, room'[e] # room[e]
    PROVE  \E p \in Processes :
               \/ task[p][e.turn].pc = "send" /\ task[p][e.turn].stage = e.stage /\ room'[e].state = "visible"
               \/ task[p][e.turn].pc = "cleanSend" /\ room'[e].state = "visible"
               \/ task[p][e.turn].pc = "cleanRedact" /\ room'[e].state = "redacted"
<1>0. TypeOK /\ TaskShape /\ TasksReal
  BY DEF Before, DeliveryInv
<1>1. PICK p \in Processes, t \in Turns : Step(p, t)
  BY <1>0, NextGrows
<1> DEFINE k == task[p][t]
<1>2. k.stage \in Stages /\ device[p] \in Devices /\ "initial" \in Stages
  BY <1>0, TaskType DEF TypeOK, Stages
<1>3. CASE SendAnswered(p, t) \/ SendLost(p, t) \/ SendRefused(p, t)
  <2>1. room' = Accept(EventId(t, k.stage, device[p]), k.claimed) /\ k.pc = "send"
    BY <1>3 DEF SendAnswered, SendLost, SendRefused
  <2>2. e = EventId(t, k.stage, device[p]) /\ room'[e].state = "visible"
    BY <1>0, <2>1 DEF Accept, TypeOK
  <2>3. e.turn = t /\ e.stage = k.stage
    BY <2>2 DEF EventId
  <2> QED BY <2>1, <2>2, <2>3
<1>4. CASE CleanSend(p, t) \/ CleanLost(p, t)
  <2>1. room' = Accept(EventId(t, "initial", device[p]), k.claimed) /\ k.pc = "cleanSend"
    BY <1>4 DEF CleanSend, CleanLost
  <2>2. e = EventId(t, "initial", device[p]) /\ room'[e].state = "visible"
    BY <1>0, <2>1 DEF Accept, TypeOK
  <2>3. e.turn = t
    BY <2>2 DEF EventId
  <2> QED BY <2>1, <2>2, <2>3
<1>5. CASE CleanRedact(p, t)
  <2>1. /\ room' = [room EXCEPT ![k.event] = Redacted] /\ k.pc = "cleanRedact"
        /\ k.event \in EventIds /\ k.event.turn = t
    BY <1>0, <1>5 DEF CleanRedact, TasksReal, TaskReal, Delivers
  <2>2. Redacted.state = "redacted"
    BY DEF Redacted
  <2> HIDE DEF k
  <2>3. e = k.event /\ room'[e] = Redacted
    BY <1>0, <2>1 DEF TypeOK
  <2> QED BY <2>1, <2>2, <2>3 DEF k
<1>6. room' # room
  OBVIOUS
<1> QED BY <1>1, <1>3, <1>4, <1>5, <1>6
      DEF Step, Progress, CheckDeleted, ClaimStep, CheckEpoch, ReconcileStale, ReconcileDevice, Resolve,
          StampDevice, AcknowledgeStep, FailStep, RetireStep, CleanResolve, CleanUnproven, ScanRefused, CleanAck, CleanRetire

\* A placeholder is sent before its answer stands alone, or by cleanup.
LEMMA PlaceholderStep ==
    ASSUME Before, [Next]_vars, NEW t \in Turns, ~Deleted(t),
           NEW y \in VisibleCopies(t, "final"), room[y].edits = NoEvent
    PROVE  VisibleCopies(t, "initial")' \subseteq VisibleCopies(t, "initial")
<1>1. StandsAlone(rows[t]["final"])
  <2>1. RoomShowsRow /\ y \in EventIds /\ room[y].state = "visible" /\ RowOf(y) = rows[t]["final"]
    BY DEF Before, DeliveryInv, VisibleCopies, RowOf, Delivers
  <2> QED BY <2>1 DEF RoomShowsRow, StandsAlone
<1>2. SUFFICES ASSUME NEW e \in EventIds, Delivers(e, t, "initial"), room'[e].state = "visible",
                      room[e].state # "visible"
               PROVE  FALSE
  BY DEF VisibleCopies, Delivers
<1>3. PICK p \in Processes : \/ task[p][t].pc = "send" /\ task[p][t].stage = "initial"
                             \/ task[p][t].pc = "cleanSend"
  <2>1. e.turn = t /\ e.stage = "initial" /\ room'[e] # room[e]
    BY <1>2 DEF Delivers
  <2> QED BY <1>2, <2>1, WhoChangesRoom
<1>4. CASE task[p][t].pc = "send" /\ task[p][t].stage = "initial"
  <2>1. FlushSole(task[p][t], device[p], SendingDevice(p), rows[t], Visible(t))
    BY Facts
  <2> QED BY <1>1, <1>4, <2>1 DEF FlushSole, FlushPcs
<1>5. CASE task[p][t].pc = "cleanSend"
  <2>1. CleanSole(task[p][t], SendingDevice(p), rows[t], Visible(t), redaction[t], record[t])
    BY Facts
  <2> QED BY <1>5, <2>1 DEF CleanSole, CleanPcs, Deleted
<1> QED BY <1>3, <1>4, <1>5

\* What is taken back is not the placeholder of an answer.
LEMMA CleanupStep ==
    ASSUME Before, [Next]_vars, NEW e \in EventIds, room[e].state = "visible", room'[e].state = "redacted"
    PROVE  ~FinalOwned(e.turn)
<1>1. PICK p \in Processes : task[p][e.turn].pc = "cleanRedact"
  BY WhoChangesRoom
<1>2. e.turn \in Turns
  BY DEF EventIds
<1>3. CleanSole(task[p][e.turn], SendingDevice(p), rows[e.turn], Visible(e.turn), redaction[e.turn], record[e.turn])
  BY <1>2, Facts
<1> QED BY <1>1, <1>3 DEF CleanSole, CleanPcs, KeepsPlaceholder, FinalOwned

\* Steps of one process are steps of the exclusive abstract answer.
LEMMA StepImplementsSole ==
    ASSUME OneProcess, Before, SoleInv', [Next]_vars
    PROVE  Sole!Next
<1>a. TypeOK /\ TaskMatchesRow /\ TaskShape /\ RowShape /\ TasksReal /\ TypeOK'
  BY NextType DEF Before, DeliveryInv
<1>b. Keeps(rows, rows') /\ AnswersMove /\ Growing
  BY <1>a, NextRows, NextMoves, NextGrows
<1>c. /\ AnswerPhase = [t \in Turns |-> PhaseOf(rows[t]["final"])]
      /\ AnswerPhase' = [t \in Turns |-> PhaseOf(rows'[t]["final"])]
      /\ AnswerPosted = [t \in Turns |-> Posted(t)]
      /\ AnswerPosted' = [t \in Turns |-> Posted(t)']
  BY DEF AnswerPhase, AnswerPosted, PhaseOf
<1>1. ASSUME NEW t \in Turns PROVE Sole!Advance(t)
  <2> DEFINE a == rows[t]["final"]
             b == rows'[t]["final"]
  <2>0. "final" \in Stages
    BY DEF Stages
  <2>1. /\ AnswerPhase[t] = PhaseOf(a) /\ AnswerPhase'[t] = PhaseOf(b)
        /\ AnswerPosted[t] = Posted(t) /\ AnswerPosted'[t] = Posted(t)'
    BY <1>c
  <2>2. /\ a.exists => b.exists
        /\ a.retired => b.retired
        /\ a.acked # NoEvent => b.acked = a.acked
        /\ Moves(a, b)
    BY <1>b, <2>0 DEF Keeps, AnswersMove
  <2>3. Posted(t) => Posted(t)'
    BY <1>b DEF Posted, Growing
  <2>4. ASSUME NEW pc \in {"send", "ack"}, AnswerAt(t, pc) PROVE PhaseOf(a) = "owed"
    <3>1. PICK p \in Processes : task[p][t].pc = pc /\ task[p][t].stage = "final"
      BY <2>4 DEF AnswerAt
    <3>2. FlushSole(task[p][t], device[p], SendingDevice(p), rows[t], Visible(t))
      BY Facts
    <3> QED BY <3>1, <3>2 DEF FlushSole, FlushPcs, Unresolved, Owed, PhaseOf
  <2>5. b.retired /\ Posted(t)' => FALSE
    <3>1. SUFFICES ASSUME b.retired, NEW e \in EventIds, Delivers(e, t, "final"), room'[e].state # "absent"
                   PROVE  FALSE
      BY DEF Posted
    <3>2. room'[e].state = "visible"
      <4>1. room'[e] \in Content
        BY <1>a DEF TypeOK
      <4>2. room'[e].state # "redacted"
        BY <3>1 DEF SoleInv, AnswersStand, Delivers
      <4> QED BY <3>1, <4>1, <4>2 DEF Content
    <3>3. e \in Visible(t)'["final"]
      BY <2>0, <3>1, <3>2 DEF Visible, VisibleCopies
    <3>4. PICK p \in Processes : SoleTurn(p, t)'
      BY DEF OneProcess, SoleInv
    <3> QED BY <2>0, <3>1, <3>3, <3>4 DEF SoleTurn, RowsSole, RowSole
  <2>6. CASE ~Posted(t) /\ Posted(t)'
    <3>1. a = b /\ AnswerAt(t, "send")
      BY <1>a, <2>6, PostedIsOwed
    <3>2. PhaseOf(a) = "owed" /\ PhaseOf(b) = "owed"
      BY <2>4, <3>1
    <3> HIDE DEF a, b
    <3> QED
      BY <2>1, <2>6, <3>2 DEF Sole!Advance, Sole!Post
  <2>7. CASE Posted(t)' = Posted(t)
    <3>1. a.acked = NoEvent /\ b.acked # NoEvent => Posted(t) /\ PhaseOf(a) = "owed"
      BY <1>a, <2>4, DeliveredIsPosted
    <3>0. ~a.exists => a.acked = NoEvent /\ ~a.retired
      BY <1>a, <2>0 DEF RowShape, WellFormed
    <3> HIDE DEF a, b
    <3>2. CASE PhaseOf(b) = PhaseOf(a)
      BY <2>1, <2>7, <3>2 DEF Sole!Advance, Sole!Becomes
    <3>3. CASE PhaseOf(a) = "none" /\ PhaseOf(b) # "none"
      <4>1. PhaseOf(b) \in {"owed", "refused"}
        BY <2>2, <3>0, <3>3 DEF PhaseOf, Moves
      <4> QED
        BY <2>1, <2>7, <3>3, <4>1 DEF Sole!Advance, Sole!HandOver, Sole!Becomes
    <3>4. CASE PhaseOf(a) \in {"owed", "refused"} /\ PhaseOf(b) = "withdrawn"
      <4>1. ~Posted(t)
        BY <2>3, <2>5, <3>4 DEF PhaseOf
      <4> QED
        BY <2>1, <2>7, <3>4, <4>1 DEF Sole!Advance, Sole!Withdraw, Sole!Becomes
    <3>5. CASE PhaseOf(a) # "none" /\ PhaseOf(a) # "delivered" /\ PhaseOf(b) = "delivered"
      <4>1. Posted(t) /\ PhaseOf(a) = "owed"
        BY <3>1, <3>5 DEF PhaseOf
      <4> QED
        BY <2>1, <2>7, <3>5, <4>1 DEF Sole!Advance, Sole!Deliver, Sole!Becomes
    <3>6. CASE PhaseOf(a) = "owed" /\ PhaseOf(b) = "refused"
      BY <2>1, <2>7, <3>6 DEF Sole!Advance, Sole!Refuse, Sole!Becomes
    <3>7. \/ PhaseOf(b) = PhaseOf(a)
          \/ PhaseOf(a) = "none" /\ PhaseOf(b) # "none"
          \/ PhaseOf(a) \in {"owed", "refused"} /\ PhaseOf(b) = "withdrawn"
          \/ PhaseOf(a) # "none" /\ PhaseOf(a) # "delivered" /\ PhaseOf(b) = "delivered"
          \/ PhaseOf(a) = "owed" /\ PhaseOf(b) = "refused"
      BY <2>2 DEF PhaseOf, Moves
    <3> QED
      BY <3>2, <3>3, <3>4, <3>5, <3>6, <3>7
  <2> QED
    BY <2>3, <2>6, <2>7 DEF Posted
<1>2. AnswerPhase' = [t \in Turns |-> AnswerPhase'[t]] /\ AnswerPosted' = [t \in Turns |-> AnswerPosted'[t]]
  BY <1>c
<1> QED
  BY <1>1, <1>2 DEF Sole!Next

\* The invariants behind the results for one process hold throughout: what the
\* lock of a delivery in matrix_delivery.py buys a process that does not share
\* its database.
THEOREM SoleInvariance ==
    ASSUME OneProcess
    PROVE  Spec => []Before
<1>1. Init => Before
  BY InitInv, InitImplements, InitSole DEF Before
<1>2. Before /\ [Next]_vars => Before'
  BY NextInv, NextReal, NextSole DEF Before, DeliveryInv
<1> QED BY <1>1, <1>2, PTL DEF Spec

\* With one process a delivery is visible at most once, although the process may
\* crash between the send and its acknowledgement and come back as any device:
\* _transaction_id_still_deduplicates and the reconciliation decide right.
THEOREM OneCopyHolds ==
    ASSUME OneProcess
    PROVE  Spec => []OneCopy
<1>1. Before => OneCopy
  <2>1. SUFFICES ASSUME Before, NEW t \in Turns, NEW s \in Stages
                 PROVE  Cardinality(VisibleCopies(t, s)) <= 1
    BY DEF OneCopy
  <2>2. PICK p \in Processes : TRUE
    BY DEF OneProcess
  <2>3. \A e, x \in VisibleCopies(t, s) : e = x
    BY <2>1, <2>2, Facts DEF RowsSole, RowSole
  <2>4. VisibleCopies(t, s) = {} \/ \E e : VisibleCopies(t, s) = {e}
    BY <2>3
  <2>5. CASE VisibleCopies(t, s) = {}
    BY <2>5, FS_EmptySet
  <2>6. ASSUME NEW e, VisibleCopies(t, s) = {e} PROVE Cardinality(VisibleCopies(t, s)) <= 1
    <3>1. Cardinality({e}) = 1
      BY FS_Singleton
    <3> QED BY <2>6, <3>1
  <2> QED BY <2>4, <2>5, <2>6
<1> QED BY <1>1, SoleInvariance, PTL

\* With one process nothing that was given up is in the room: a flush or a
\* cleanup retires a row only when the room has been read and shows no copy.
THEOREM RetiredInvisible ==
    ASSUME OneProcess
    PROVE  Spec => []RetiredIsInvisible
<1>1. Before => RetiredIsInvisible
  <2>1. SUFFICES ASSUME Before, NEW e \in EventIds, room[e].state = "visible"
                 PROVE  ~RowOf(e).retired
    BY DEF RetiredIsInvisible
  <2>2. PICK p \in Processes : TRUE
    BY DEF OneProcess
  <2>3. e.turn \in Turns /\ e.stage \in Stages /\ e \in VisibleCopies(e.turn, e.stage)
    BY <2>1 DEF VisibleCopies, Delivers, EventIds
  <2>4. RowSole(rows[e.turn][e.stage], VisibleCopies(e.turn, e.stage))
    BY <2>1, <2>2, <2>3, Facts DEF RowsSole
  <2> QED BY <2>3, <2>4 DEF RowSole, RowOf
<1> QED BY <1>1, SoleInvariance, PTL

\* With one process no placeholder surfaces under an answer that stands alone,
\* because the claim of such an answer waits for the placeholder's outcome, and
\* cleanup takes back no placeholder that an answer needs, because nobody else
\* can deliver an answer while the cleanup holds the turn's lock.
THEOREM PlaceholdersCared ==
    ASSUME OneProcess
    PROVE  Spec => PlaceholderCare
<1>1. Before /\ [Next]_vars =>
        [\A t \in Turns :
            ~Deleted(t) /\ (\E e \in VisibleCopies(t, "final") : room[e].edits = NoEvent) =>
                VisibleCopies(t, "initial")' \subseteq VisibleCopies(t, "initial")]_vars
  BY PlaceholderStep
<1>2. Before /\ [Next]_vars =>
        [\A e \in EventIds :
            room[e].state = "visible" /\ room'[e].state = "redacted" => ~FinalOwned(e.turn)]_vars
  BY CleanupStep
<1> QED
  BY <1>1, <1>2, SoleInvariance, PTL
     DEF Spec, PlaceholderCare, NoPlaceholderAfterAnswer, CleanupSparesAnswers

\* With one process the delivery implements the exclusive abstract answer: an
\* answer is posted and recorded only while it is owed, and only an answer that
\* nobody can see is withdrawn.
THEOREM SoleAnswersImplemented ==
    ASSUME OneProcess
    PROVE  Spec => Sole!Spec
<1>1. Init => Sole!Init
  BY InitImplements DEF Shared!Init, Sole!Init
<1>2. Before /\ Before' /\ [Next]_vars => [Sole!Next]_Sole!vars
  BY StepImplementsSole DEF Before
<1> QED
  BY <1>1, <1>2, SoleInvariance, PTL DEF Spec, Sole!Spec
=============================================================================
