----------------------- MODULE MatrixDelivery_proofs -----------------------
(***************************************************************************)
(* DeliveryInv is an invariant of MatrixDelivery for every choice of the   *)
(* constants, and with it the safety properties that hold for any number   *)
(* of processes.  The argument: what has been offered to the homeserver is *)
(* frozen (Keeps), so a flush that claimed a row still holds the row's     *)
(* content at every later step, whoever else is flushing it; the content   *)
(* the room shows is therefore the row's, and the first acknowledgement    *)
(* decides the outcome.  Rows not yet attempted are withdrawn by the       *)
(* membership fence, so none outlives its membership.                      *)
(***************************************************************************)
EXTENDS MatrixDelivery, Outbox_proofs

-----------------------------------------------------------------------------
(* Types of the worker's state.                                            *)

\* The idle task is a task.
LEMMA NoTaskType == NoTask \in Task
BY EmptyRowType DEF NoTask, Task, Pcs, Modes, Stages

\* The task after a flush is a task.
LEMMA DoneType ==
    ASSUME NEW k \in Task, NEW b \in BOOLEAN
    PROVE  Done(k, b) \in Task
BY NoTaskType DEF Done, NoTask, Task, Pcs, Modes, Stages

\* The initial state has the right types.
LEMMA InitTypeOK == Init => TypeOK
<1> SUFFICES ASSUME Init PROVE TypeOK
  OBVIOUS
<1>1. /\ epoch \in Nat /\ fenced \in BOOLEAN
      /\ redaction \in [Turns -> SUBSET Redactions] /\ shown \subseteq EventIds
  BY DEF Init
<1>2. source \in [Turns -> SourceRow]
  BY DEF Init, SourceRow
<1>3. rows \in Table
  BY EmptyRowType DEF Init, Table
<1>4. record \in [Turns -> EventIds \cup {NoEvent}]
  BY DEF Init
<1>5. room \in [EventIds -> Content]
  BY DEF Init, Content, Absent
<1>6. device \in [Processes -> Devices] /\ running \in [Processes -> SUBSET Turns]
  BY DEF Init
<1>7. task \in [Processes -> [Turns -> Task]]
  BY NoTaskType DEF Init
<1>8. buried \subseteq Turns
  BY DEF Init
<1> QED
  BY <1>1, <1>2, <1>3, <1>4, <1>5, <1>6, <1>7, <1>8 DEF TypeOK

\* A process names a device or none.
LEMMA SendingDeviceType ==
    ASSUME TypeOK, NEW p \in Processes
    PROVE  SendingDevice(p) \in Devices \cup {NoDevice}
BY DEF TypeOK, SendingDevice

\* Accepting a transaction leaves the room a function to contents.
LEMMA ContentType ==
    ASSUME TypeOK, NEW e \in EventIds, NEW row \in Row
    PROVE  Accept(e, row) \in [EventIds -> Content]
BY DEF TypeOK, Accept, Content, Row

\* The event of a delivery and a device is an event.
LEMMA EventIdType ==
    ASSUME NEW t \in Turns, NEW s \in Stages, NEW d \in Devices
    PROVE  EventId(t, s, d) \in EventIds
BY DEF EventId, EventIds

\* The parts of a task that the steps below use.
LEMMA TaskType ==
    ASSUME TypeOK, NEW p \in Processes, NEW t \in Turns
    PROVE  /\ task[p][t] \in Task
           /\ task[p][t].stage \in Stages
           /\ task[p][t].claimed \in Row
           /\ task[p][t].event \in EventIds \cup {NoEvent}
BY DEF TypeOK, Task

\* Replacing the task of one process and turn.
LEMMA PutTaskType ==
    ASSUME TypeOK, NEW p \in Processes, NEW t \in Turns, NEW k \in Task
    PROVE  [task EXCEPT ![p][t] = k] \in [Processes -> [Turns -> Task]]
BY DEF TypeOK

\* A task with another program counter, claim or event is a task.
LEMMA MovedTaskType ==
    ASSUME NEW k \in Task, NEW pc \in Pcs, NEW e \in EventIds \cup {NoEvent}, NEW row \in Row
    PROVE  /\ [k EXCEPT !.pc = pc] \in Task
           /\ [k EXCEPT !.pc = pc, !.event = e] \in Task
           /\ [k EXCEPT !.pc = pc, !.claimed = row] \in Task
           /\ [k EXCEPT !.pc = pc, !.claimed = row, !.event = e] \in Task
BY DEF Task

\* Moving a task on keeps the task table well typed.
LEMMA GotoType ==
    ASSUME TypeOK, NEW p \in Processes, NEW t \in Turns, NEW pc \in Pcs
    PROVE  /\ [task EXCEPT ![p][t].pc = pc] \in [Processes -> [Turns -> Task]]
           /\ \A e \in EventIds :
                [task EXCEPT ![p][t] = [@ EXCEPT !.pc = pc, !.event = e]]
                    \in [Processes -> [Turns -> Task]]
<1> DEFINE k == task[p][t]
<1>1. k \in Task
  BY TaskType
<1>2. [k EXCEPT !.pc = pc] \in Task
  BY <1>1, MovedTaskType, EmptyRowType
<1>3. [task EXCEPT ![p][t].pc = pc] \in [Processes -> [Turns -> Task]]
  BY <1>2, PutTaskType DEF TypeOK
<1>4. ASSUME NEW e \in EventIds
      PROVE  [task EXCEPT ![p][t] = [@ EXCEPT !.pc = pc, !.event = e]]
                    \in [Processes -> [Turns -> Task]]
  <2>1. [k EXCEPT !.pc = pc, !.event = e] \in Task
    BY <1>1, MovedTaskType, EmptyRowType
  <2> QED
    BY <2>1, PutTaskType DEF TypeOK
<1> QED
  BY <1>3, <1>4

\* Finishing a flush keeps the task table well typed.
LEMMA FinishType ==
    ASSUME TypeOK, NEW p \in Processes, NEW t \in Turns, Finish(p, t)
    PROVE  task' \in [Processes -> [Turns -> Task]]
<1>1. Done(task[p][t], FALSE) \in Task
  BY TaskType, DoneType
<1> QED
  BY <1>1, PutTaskType DEF Finish, TypeOK

-----------------------------------------------------------------------------
(* Type correctness.  The steps that start a flush, the steps of a flush,  *)
(* and the rest.                                                           *)

\* deliver() keeps the types.
LEMMA DeliverType ==
    ASSUME TypeOK, NEW p \in Processes, NEW t \in Turns, NEW s \in Stages,
           NEW y \in Payloads, NEW x \in {NoEvent, rows[t]["initial"].acked},
           NEW f \in BOOLEAN, Deliver(p, t, s, y, x, f)
    PROVE  TypeOK'
<1>1. x \in EventIds \cup {NoEvent}
  BY DEF TypeOK, Table, Row, Stages
<1>2. PICK e \in EnqueueEpochs(t, s) : rows' = Enqueue(rows, t, s, e, y, x, f)
  BY DEF Deliver
<1>3. e \in Nat
  BY <1>2 DEF TypeOK, EnqueueEpochs, Table, Row, SourceRow
<1>4. rows' \in Table
  BY <1>1, <1>2, <1>3, EnqueueType DEF TypeOK
<1>5. source' \in [Turns -> SourceRow]
  BY DEF Deliver, TypeOK, SourceRow
<1>6. [NoTask EXCEPT !.pc = IF s = "initial" THEN "flush" ELSE "claim",
                     !.mode = "live", !.stage = s] \in Task
  BY EmptyRowType DEF NoTask, Task, Pcs, Modes
<1>7. task' \in [Processes -> [Turns -> Task]]
  BY <1>6, PutTaskType DEF Deliver, TypeOK
<1> QED
  BY <1>4, <1>5, <1>7 DEF Deliver, TypeOK

\* Starting a turn or a flush keeps the types.
LEMMA StartType ==
    ASSUME TypeOK, NEW p \in Processes, NEW t \in Turns, Start(p, t)
    PROVE  TypeOK'
<1>1. CASE StartTurn(p, t)
  BY <1>1 DEF StartTurn, TypeOK, durable
<1>2. CASE \E s \in Stages, y \in Payloads, f \in BOOLEAN,
              x \in {NoEvent, rows[t]["initial"].acked} : Deliver(p, t, s, y, x, f)
  BY <1>2, DeliverType
<1>3. ASSUME NEW s \in Stages, Recover(p, t, s) PROVE TypeOK'
  <2>1. [NoTask EXCEPT !.pc = IF s = "initial" THEN "flush" ELSE "claim",
                       !.mode = "recover", !.stage = s] \in Task
    BY EmptyRowType DEF NoTask, Task, Pcs, Modes
  <2>2. task' \in [Processes -> [Turns -> Task]]
    BY <1>3, <2>1, PutTaskType DEF Recover, TypeOK
  <2> QED
    BY <1>3, <2>2 DEF Recover, TypeOK, durable
<1>4. CASE RecoverDeleted(p, t)
  <2>1. [NoTask EXCEPT !.pc = "flush", !.mode = "clean", !.stage = "initial"] \in Task
    BY EmptyRowType DEF NoTask, Task, Pcs, Modes, Stages
  <2>2. task' \in [Processes -> [Turns -> Task]]
    BY <1>4, <2>1, PutTaskType DEF RecoverDeleted, TypeOK
  <2> QED
    BY <1>4, <2>2 DEF RecoverDeleted, TypeOK, durable
<1> QED
  BY <1>1, <1>2, <1>3, <1>4 DEF Start

\* The cleanup hook keeps the types.
LEMMA CheckDeletedType ==
    ASSUME TypeOK, NEW p \in Processes, NEW t \in Turns, CheckDeleted(p, t)
    PROVE  TypeOK'
<1> DEFINE row == rows[t]["initial"]
           k == task[p][t]
           k1 == IF ~CleanupOwed(t)
                 THEN IF k.mode = "clean" THEN NoTask ELSE [k EXCEPT !.pc = "claim"]
                 ELSE [k EXCEPT !.pc = IF row.acked # NoEvent THEN "cleanRedact"
                                       ELSE IF row.attempted THEN "cleanResolve"
                                       ELSE "cleanRetire",
                                !.claimed = row, !.event = row.acked]
<1>1. row \in Row /\ row.acked \in EventIds \cup {NoEvent} /\ k \in Task
  BY TaskType DEF TypeOK, Table, Stages, Row
<1>2. k1 \in Task
  BY <1>1, NoTaskType, MovedTaskType, ZenonT(60) DEF Pcs
<1>3. task' = [task EXCEPT ![p][t] = k1]
  BY DEF CheckDeleted
<1>4. task' \in [Processes -> [Turns -> Task]]
  BY <1>2, <1>3, PutTaskType
<1>5. redaction' \in [Turns -> SUBSET Redactions]
  BY DEF CheckDeleted, TypeOK, Redactions
<1> QED
  BY <1>4, <1>5 DEF CheckDeleted, TypeOK

\* The claim keeps the types.
LEMMA ClaimStepType ==
    ASSUME TypeOK, NEW p \in Processes, NEW t \in Turns, ClaimStep(p, t)
    PROVE  TypeOK'
<1> DEFINE k == task[p][t]
           s == task[p][t].stage
           row1 == [rows'[t][s] EXCEPT !.attempted = rows[t][s].attempted]
           k1 == IF ClaimGranted(rows, t, s) /\ rows[t][s].acked = NoEvent
                 THEN [k EXCEPT !.pc = "claimed", !.claimed = row1]
                 ELSE Done(k, ClaimBlocked(rows, t, s))
<1>1. k \in Task /\ s \in Stages
  BY TaskType
<1>2. rows' \in Table
  BY <1>1, ClaimType, SendingDeviceType DEF ClaimStep, TypeOK
<1>3. rows'[t][s] \in Row /\ rows[t][s] \in Row
  BY <1>1, <1>2 DEF TypeOK, Table
<1>4. row1 \in Row
  <2>1. rows[t][s].attempted \in BOOLEAN
    BY <1>3 DEF Row
  <2> HIDE DEF s
  <2> QED
    BY <1>3, <2>1 DEF Row
<1>5. ClaimBlocked(rows, t, s) \in BOOLEAN
  BY DEF ClaimBlocked
<1>6. k1 \in Task
  BY <1>1, <1>4, <1>5, DoneType, MovedTaskType DEF Pcs
<1>7. task' = [task EXCEPT ![p][t] = k1]
  BY DEF ClaimStep
<1>8. task' \in [Processes -> [Turns -> Task]]
  BY <1>6, <1>7, PutTaskType
<1> QED
  BY <1>2, <1>8 DEF ClaimStep, TypeOK

\* A lookup in the room history keeps the types.
LEMMA ResolveType ==
    ASSUME TypeOK, NEW p \in Processes, NEW t \in Turns, NEW found \in Pcs, NEW miss \in Pcs,
           Resolve(p, t, found, miss)
    PROVE  TypeOK'
<1>1. CASE Goto(p, t, miss)
  BY <1>1, GotoType DEF Resolve, Goto, TypeOK, durable
<1>2. ASSUME NEW e \in EventIds,
             task' = [task EXCEPT ![p][t] = [@ EXCEPT !.pc = found, !.event = e]]
      PROVE  TypeOK'
  BY <1>2, GotoType DEF Resolve, TypeOK, durable
<1> QED
  BY <1>1, <1>2 DEF Resolve, Copies

\* Every step of a flush keeps the types.
LEMMA StepType ==
    ASSUME TypeOK, TaskShape, NEW p \in Processes, NEW t \in Turns, Step(p, t)
    PROVE  TypeOK'
<1> DEFINE k == task[p][t]
           e == EventId(t, k.stage, device[p])
           e0 == EventId(t, "initial", device[p])
<1>a. k \in Task /\ k.stage \in Stages /\ k.claimed \in Row
      /\ k.event \in EventIds \cup {NoEvent}
  BY TaskType
<1>b. device[p] \in Devices /\ "initial" \in Stages
  BY DEF TypeOK, Stages
<1>c. e \in EventIds /\ e0 \in EventIds
  BY <1>a, <1>b, EventIdType
<1>d. /\ Accept(e, k.claimed) \in [EventIds -> Content]
      /\ Accept(e0, k.claimed) \in [EventIds -> Content]
  BY <1>a, <1>c, ContentType
<1>e. [task EXCEPT ![p][t] = NoTask] \in [Processes -> [Turns -> Task]]
  BY NoTaskType, PutTaskType
<1>f. SendingDevice(p) \in Devices \cup {NoDevice}
  BY SendingDeviceType
<1> HIDE DEF e, e0, k
<1>1. CASE CheckDeleted(p, t)
  BY <1>1, CheckDeletedType
<1>2. CASE ClaimStep(p, t)
  BY <1>2, ClaimStepType
<1>3. CASE CheckEpoch(p, t)
  <2>1. PICK pc \in Pcs : task' = [task EXCEPT ![p][t].pc = pc]
    BY <1>3 DEF CheckEpoch, Goto, Pcs
  <2> QED
    BY <1>3, <2>1, GotoType DEF CheckEpoch, TypeOK, durable
<1>4. CASE ReconcileStale(p, t)
  BY <1>4, ResolveType DEF ReconcileStale, Pcs
<1>5. CASE ReconcileDevice(p, t)
  BY <1>5, ResolveType DEF ReconcileDevice, Pcs
<1>6. CASE StampDevice(p, t)
  <2>1. rows' \in Table
    BY <1>6, <1>a, <1>f, RecordDeviceType DEF StampDevice, TypeOK, k
  <2>2. task' \in [Processes -> [Turns -> Task]]
    BY <1>6, GotoType DEF StampDevice, Goto, Pcs
  <2> QED
    BY <1>6, <2>1, <2>2 DEF StampDevice, TypeOK
<1>7. CASE SendAnswered(p, t)
  <2>1. task' \in [Processes -> [Turns -> Task]]
    BY <1>7, <1>c, GotoType DEF SendAnswered, Pcs, e, k
  <2> QED
    BY <1>7, <1>d, <2>1 DEF SendAnswered, TypeOK, durable, e, k
<1>8. CASE SendLost(p, t)
  BY <1>8, <1>d, <1>e DEF SendLost, TypeOK, durable, e, k
<1>9. CASE SendRefused(p, t)
  <2>1. task' \in [Processes -> [Turns -> Task]]
    BY <1>9, GotoType DEF SendRefused, Goto, Pcs
  <2>2. room' \in [EventIds -> Content]
    BY <1>9, <1>d DEF SendRefused, TypeOK, e, k
  <2> QED
    BY <1>9, <2>1, <2>2 DEF SendRefused, TypeOK, durable
<1>10. CASE AcknowledgeStep(p, t)
  <2>0. k.event \in EventIds
    BY <1>10 DEF AcknowledgeStep, TaskShape, k
  <2>1. rows' \in Table
    BY <1>10, <1>a, <2>0, AcknowledgeType DEF AcknowledgeStep, TypeOK, k
  <2>2. CanonicalResponse(k.claimed, k.event) \in EventIds
    BY <1>a, <2>0 DEF CanonicalResponse, Row
  <2>3. record' \in [Turns -> EventIds \cup {NoEvent}]
    BY <1>10, <2>2 DEF AcknowledgeStep, TypeOK, k
  <2>4. \A seen \in Observed(k.claimed, k.event) : seen \subseteq EventIds
    BY <1>a, <2>0 DEF Observed, Row
  <2>5. shown' \subseteq EventIds
    BY <1>10, <2>0, <2>4 DEF AcknowledgeStep, ShownAfterAck, TypeOK, k
  <2>6. task' \in [Processes -> [Turns -> Task]]
    BY <1>10, FinishType DEF AcknowledgeStep
  <2> QED
    BY <1>10, <2>1, <2>3, <2>5, <2>6 DEF AcknowledgeStep, TypeOK
<1>11. CASE FailStep(p, t)
  <2>1. rows' \in Table
    BY <1>11, <1>a, OutcomeType DEF FailStep, TypeOK, k
  <2>2. task' \in [Processes -> [Turns -> Task]]
    BY <1>11, FinishType DEF FailStep
  <2> QED
    BY <1>11, <2>1, <2>2 DEF FailStep, TypeOK
<1>12. CASE RetireStep(p, t)
  <2>1. rows' \in Table
    BY <1>12, <1>a, OutcomeType DEF RetireStep, TypeOK, k
  <2>2. task' \in [Processes -> [Turns -> Task]]
    BY <1>12, FinishType DEF RetireStep
  <2>3. shown' \subseteq EventIds
    BY <1>12 DEF RetireStep, TypeOK
  <2> QED
    BY <1>12, <2>1, <2>2, <2>3 DEF RetireStep, TypeOK
<1>13. CASE CleanResolve(p, t)
  BY <1>13, ResolveType DEF CleanResolve, Pcs
<1>14. CASE CleanUnproven(p, t) \/ ScanRefused(p, t)
  BY <1>14, <1>e DEF CleanUnproven, ScanRefused, TypeOK, durable
<1>15. CASE CleanSend(p, t) \/ CleanLost(p, t)
  <2>1. [task EXCEPT ![p][t] = [@ EXCEPT !.pc = "cleanAck", !.event = e0]]
            \in [Processes -> [Turns -> Task]]
    BY <1>c, GotoType DEF Pcs
  <2>2. task' \in [Processes -> [Turns -> Task]]
    BY <1>15, <1>e, <2>1 DEF CleanSend, CleanLost, e0
  <2> QED
    BY <1>15, <1>d, <2>2 DEF CleanSend, CleanLost, TypeOK, durable, e0, k
<1>16. CASE CleanAck(p, t)
  <2>0. k.event \in EventIds
    BY <1>16 DEF CleanAck, TaskShape, k
  <2>1. rows' \in Table
    BY <1>16, <1>b, <2>0, AcknowledgeType DEF CleanAck, TypeOK, k
  <2>2. shown' \subseteq EventIds
    BY <1>16, <2>0 DEF CleanAck, ShownAfterAck, TypeOK, k
  <2>3. task' \in [Processes -> [Turns -> Task]]
    BY <1>16, GotoType DEF CleanAck, Goto, Pcs
  <2> QED
    BY <1>16, <2>1, <2>2, <2>3 DEF CleanAck, TypeOK
<1>17. CASE CleanRedact(p, t)
  <2>1. Redacted \in Content
    BY DEF Redacted, Content
  <2>2. room' \in [EventIds -> Content]
    BY <1>17, <2>1 DEF CleanRedact, TypeOK
  <2>3. task' \in [Processes -> [Turns -> Task]]
    BY <1>17, GotoType DEF CleanRedact, Goto, Pcs
  <2> QED
    BY <1>17, <2>2, <2>3 DEF CleanRedact, TypeOK, durable
<1>18. CASE CleanRetire(p, t)
  <2>1. rows' \in Table
    BY <1>18, <1>b, OutcomeType DEF CleanRetire, TypeOK
  <2>2. task' \in [Processes -> [Turns -> Task]]
    BY <1>18, FinishType DEF CleanRetire
  <2> QED
    BY <1>18, <2>1, <2>2 DEF CleanRetire, TypeOK
<1> QED
  BY <1>1, <1>2, <1>3, <1>4, <1>5, <1>6, <1>7, <1>8, <1>9, <1>10, <1>11, <1>12,
     <1>13, <1>14, <1>15, <1>16, <1>17, <1>18 DEF Step, Progress

\* Every step of the system keeps the types.
LEMMA NextType ==
    ASSUME TypeOK, TaskShape, [Next]_vars
    PROVE  TypeOK'
<1>1. ASSUME NEW t \in Turns, Admit(t) PROVE TypeOK'
  BY <1>1 DEF Admit, TypeOK, SourceRow
<1>2. ASSUME NEW t \in Turns, DeleteSource(t) \/ MarkRedacted(t) PROVE TypeOK'
  <2>1. source' \in [Turns -> SourceRow]
    BY <1>2 DEF DeleteSource, MarkRedacted, TypeOK, SourceRow
  <2>2. redaction' \in [Turns -> SUBSET Redactions]
    <3>1. \A x \in SUBSET Redactions : (x \cup {"mark"}) \ {"callback"} \in SUBSET Redactions
      BY DEF Redactions
    <3>2. {"callback", "tombstone"} \in SUBSET Redactions
      BY DEF Redactions
    <3> QED
      BY <1>2, <3>1, <3>2 DEF DeleteSource, MarkRedacted, TypeOK
  <2> QED
    BY <1>2, <2>1, <2>2 DEF DeleteSource, MarkRedacted, TypeOK
<1>3. CASE Depart
  <2>1. rows' \in Table
    BY <1>3, RetireUnattemptedType DEF Depart, TypeOK
  <2>2. source' \in [Turns -> SourceRow]
    BY <1>3 DEF Depart, SettlePending, TypeOK, SourceRow
  <2> QED
    BY <1>3, <2>1, <2>2 DEF Depart, TypeOK
<1>4. CASE Rejoin
  BY <1>4 DEF Rejoin, TypeOK
<1>5. ASSUME NEW e \in EventIds, Echo(e) PROVE TypeOK'
  BY <1>5 DEF Echo, TypeOK
<1>6. ASSUME NEW p \in Processes, NEW t \in Turns, Raise(p, t) PROVE TypeOK'
  BY <1>6, NoTaskType, PutTaskType DEF Raise, TypeOK, durable
<1>7. ASSUME NEW p \in Processes, NEW d \in Devices, Crash(p, d) PROVE TypeOK'
  BY <1>7, NoTaskType DEF Crash, TypeOK, durable
<1>8. CASE UNCHANGED vars
  BY <1>8 DEF vars, durable, TypeOK
<1>9. ASSUME NEW t \in Turns, Bury(t) PROVE TypeOK'
  BY <1>9 DEF Bury, durable, TypeOK
<1> QED
  BY <1>1, <1>2, <1>3, <1>4, <1>5, <1>6, <1>7, <1>8, <1>9, StartType, StepType DEF Next, Outside

-----------------------------------------------------------------------------
(* What the two large groups of steps leave alone.                         *)

\* deliver() is running: the one step that makes rows appear.
Delivering ==
    \E p \in Processes, t \in Turns, s \in Stages, y \in Payloads, f \in BOOLEAN :
        \E x \in {NoEvent, rows[t]["initial"].acked} : Deliver(p, t, s, y, x, f)

\* Starting a flush touches the outbox, the sources and the tasks at most.
LEMMA StartLeaves ==
    ASSUME NEW p \in Processes, NEW t \in Turns, Start(p, t)
    PROVE  /\ UNCHANGED <<epoch, fenced, redaction, record, shown, room, device>>
           /\ source' # source \/ rows' # rows => Delivering
           /\ running' = running \/ StartTurn(p, t)
<1>1. CASE StartTurn(p, t)
  BY <1>1 DEF StartTurn, durable
<1>2. CASE \E s \in Stages, y \in Payloads, f \in BOOLEAN,
              x \in {NoEvent, rows[t]["initial"].acked} : Deliver(p, t, s, y, x, f)
  BY <1>2 DEF Deliver, Delivering
<1>3. CASE \E s \in Stages : Recover(p, t, s)
  BY <1>3 DEF Recover, durable
<1>4. CASE RecoverDeleted(p, t)
  BY <1>4 DEF RecoverDeleted, durable
<1> QED
  BY <1>1, <1>2, <1>3, <1>4 DEF Start

\* A step of a flush changes no membership, no source and no device, and only
\* outcomes change the record and the transcript.
LEMMA StepLeaves ==
    ASSUME NEW p \in Processes, NEW t \in Turns, Step(p, t)
    PROVE  /\ UNCHANGED <<epoch, fenced, source, device, running>>
           /\ redaction' = redaction \/ redaction' = [redaction EXCEPT ![t] = @ \cup {"mark"}]
           /\ record' = record \/ AcknowledgeStep(p, t)
           /\ shown' = shown \/ AcknowledgeStep(p, t) \/ RetireStep(p, t) \/ CleanAck(p, t)
BY DEF Step, Progress, CheckDeleted, ClaimStep, CheckEpoch, ReconcileStale, ReconcileDevice,
    Resolve,
       StampDevice, SendAnswered, SendLost, SendRefused, AcknowledgeStep, FailStep, RetireStep,
       CleanResolve, CleanUnproven, ScanRefused, CleanSend, CleanLost, CleanAck, CleanRedact, CleanRetire,
           durable

-----------------------------------------------------------------------------
(* What a step does to the outbox: it keeps the recorded facts, and only   *)
(* deliver() makes a row appear.                                           *)

\* A step that leaves the outbox alone keeps all it records.
LEMMA SameRows ==
    ASSUME RowShape, rows' = rows
    PROVE  Keeps(rows, rows') /\ RowShape' /\ NoNewRows(rows, rows')
BY DEF RowShape, WellFormed, Keeps, NoNewRows

\* Every step of a flush keeps what the outbox records.
LEMMA StepRows ==
    ASSUME TypeOK, TaskMatchesRow, TaskShape, RowShape,
           NEW p \in Processes, NEW t \in Turns, Step(p, t)
    PROVE  Keeps(rows, rows') /\ RowShape' /\ NoNewRows(rows, rows')
<1> DEFINE s == task[p][t].stage
<1>a. rows \in Table /\ WellFormed(rows) /\ s \in Stages /\ "initial" \in Stages
  BY TaskType DEF TypeOK, RowShape, Stages
<1>b. SendingDevice(p) \in Devices \cup {NoDevice}
  BY SendingDeviceType
<1>1. CASE ClaimStep(p, t)
  <2>1. rows' = Claim(rows, t, s, SendingDevice(p))
    BY <1>1 DEF ClaimStep
  <2> QED
    BY <1>a, <1>b, <2>1, ClaimKeeps DEF RowShape
<1>2. CASE StampDevice(p, t)
  <2>1. rows' = RecordDevice(rows, t, s, SendingDevice(p))
    BY <1>2 DEF StampDevice
  <2> QED
    BY <1>a, <1>b, <2>1, RecordDeviceKeeps DEF RowShape
<1>3. CASE AcknowledgeStep(p, t)
  <2> DEFINE e == task[p][t].event
  <2>1. rows' = Acknowledge(rows, t, s, e)
    BY <1>3 DEF AcknowledgeStep
  <2>2. e \in EventIds /\ Delivers(e, t, s) /\ rows[t][s].attempted
    BY <1>3 DEF AcknowledgeStep, TaskShape, TaskMatchesRow, ClaimedPcs
  <2> HIDE DEF e
  <2> QED
    BY <1>a, <2>1, <2>2, AcknowledgeKeeps DEF RowShape
<1>4. CASE FailStep(p, t)
  <2>1. rows' = RecordPermanentFailure(rows, t, s)
    BY <1>4 DEF FailStep
  <2> QED
    BY <1>a, <2>1, RefuseKeeps DEF RowShape
<1>5. CASE RetireStep(p, t)
  <2>1. rows' = Retire(rows, t, s)
    BY <1>5 DEF RetireStep
  <2> QED
    BY <1>a, <2>1, RetireKeeps DEF RowShape
<1>6. CASE CleanAck(p, t)
  <2> DEFINE e == task[p][t].event
  <2>1. rows' = Acknowledge(rows, t, "initial", e)
    BY <1>6 DEF CleanAck
  <2>2. s = "initial"
    BY <1>6 DEF CleanAck, TaskShape, CleanPcs
  <2>3. e \in EventIds /\ Delivers(e, t, s) /\ rows[t][s].attempted
    BY <1>6 DEF CleanAck, TaskShape, TaskMatchesRow, ClaimedPcs
  <2> HIDE DEF e, s
  <2> QED
    BY <1>a, <2>1, <2>2, <2>3, AcknowledgeKeeps DEF RowShape
<1>7. CASE CleanRetire(p, t)
  <2>1. rows' = IF rows[t]["initial"].exists
                THEN [rows EXCEPT ![t]["initial"].retired = TRUE] ELSE rows
    BY <1>7 DEF CleanRetire
  <2> QED
    BY <1>a, <2>1, RetireAnyKeeps DEF RowShape
<1>8. CASE rows' = rows
  BY <1>8, SameRows
<1> QED
  BY <1>1, <1>2, <1>3, <1>4, <1>5, <1>6, <1>7, <1>8
     DEF Step, Progress, CheckDeleted, CheckEpoch, ReconcileStale, ReconcileDevice, Resolve,
         SendAnswered, SendLost, SendRefused, CleanResolve, CleanUnproven, ScanRefused, CleanSend, CleanLost,
         CleanRedact, durable

\* The enqueue keeps what the outbox records, and leaves other rows alone.
LEMMA DeliverRows ==
    ASSUME TypeOK, RowShape, NEW p \in Processes, NEW t \in Turns, NEW s \in Stages,
           NEW y \in Payloads, NEW x \in {NoEvent, rows[t]["initial"].acked},
           NEW f \in BOOLEAN, Deliver(p, t, s, y, x, f)
    PROVE  /\ Keeps(rows, rows')
           /\ RowShape'
           /\ rows'[t][s].exists
           /\ \A u \in Turns, z \in Stages : u # t \/ z # s => rows'[u][z] = rows[u][z]
           /\ \/ rows' = rows
              \/ /\ rows'[t][s].epoch \in EnqueueEpochs(t, s)
                 /\ ~rows[t][s].attempted
                 /\ \/ StagesPresent(rows, t) = {}
                    \/ \E pick \in StagesPresent(rows, t) :
                            ~OwnerRefuses(rows, t, pick, rows'[t][s].epoch)
<1>1. x \in EventIds \cup {NoEvent} /\ rows \in Table /\ WellFormed(rows)
  BY DEF TypeOK, Table, Row, Stages, RowShape
<1>2. PICK e \in EnqueueEpochs(t, s) :
        /\ \/ StagesPresent(rows, t) = {}
           \/ \E pick \in StagesPresent(rows, t) : ~OwnerRefuses(rows, t, pick, e)
        /\ rows' = Enqueue(rows, t, s, e, y, x, f)
  BY DEF Deliver
<1>3. e \in Nat
  BY <1>2 DEF TypeOK, EnqueueEpochs, Table, Row, SourceRow
<1>4. x # NoEvent => s = "final" /\ x = rows[t]["initial"].acked
  BY DEF Deliver
<1>a. rows' = Enqueue(rows, t, s, e, y, x, f)
  BY <1>2
<1>5. /\ Keeps(rows, rows')
      /\ WellFormed(rows')
      /\ \A u \in Turns, z \in Stages : u # t \/ z # s => rows'[u][z] = rows[u][z]
      /\ rows'[t][s].exists
      /\ rows[t][s].attempted => rows' = rows
      /\ rows' # rows => rows'[t][s].epoch = e
  BY <1>1, <1>a, <1>3, <1>4, EnqueueKeeps
<1> QED
  BY <1>2, <1>5 DEF RowShape

\* Every step keeps what the outbox records, and all but deliver() make no row.
LEMMA NextRows ==
    ASSUME TypeOK, TaskMatchesRow, TaskShape, RowShape, [Next]_vars
    PROVE  /\ Keeps(rows, rows')
           /\ RowShape'
           /\ NoNewRows(rows, rows') \/ Delivering
<1>1. CASE Delivering
  BY <1>1, DeliverRows DEF Delivering
<1>2. CASE Depart
  <2>1. rows' = RetireUnattempted(rows)
    BY <1>2 DEF Depart
  <2> QED
    BY <2>1, FenceKeeps DEF TypeOK, RowShape
<1>3. CASE rows' = rows
  BY <1>3, SameRows
<1>4. ASSUME NEW p \in Processes, NEW t \in Turns, Step(p, t)
      PROVE  Keeps(rows, rows') /\ RowShape' /\ NoNewRows(rows, rows')
  BY <1>4, StepRows
<1> QED
  BY <1>1, <1>2, <1>3, <1>4
     DEF Next, Outside, vars, durable, Delivering, Admit, DeleteSource, MarkRedacted, Bury, Rejoin,
         Echo, Start, StartTurn,
         Recover, RecoverDeleted, Raise, Crash

-----------------------------------------------------------------------------
(* What a task holds.  TaskMatchesRow and TaskShape speak of one task at a *)
(* time, so a step that moves one task is a question about that task.      *)

\* A task k of turn t agrees with the table r.
TaskOK(k, t, r) ==
    /\ k.pc \in ClaimedPcs =>
        /\ r[t][k.stage].attempted
        /\ k.claimed.payload = r[t][k.stage].payload
        /\ k.claimed.edits = r[t][k.stage].edits
    /\ k.pc \in {"ack", "cleanAck"} => k.event \in EventIds /\ Delivers(k.event, t, k.stage)
    /\ k.pc \in CleanPcs \cup {"flush"} => k.stage = "initial"

\* The two invariants of tasks, task by task.
LEMMA TasksOK ==
    (TaskMatchesRow /\ TaskShape) <=>
        \A q \in Processes, u \in Turns : TaskOK(task[q][u], u, rows)
BY DEF TaskMatchesRow, TaskShape, TaskOK

\* A task stays right when the table keeps what it records.
LEMMA TaskKept ==
    ASSUME NEW r, NEW r1, Keeps(r, r1), NEW k \in Task, NEW t \in Turns, TaskOK(k, t, r)
    PROVE  TaskOK(k, t, r1)
<1>1. k.stage \in Stages
  BY DEF Task
<1> QED
  BY <1>1 DEF Keeps, TaskOK

\* An idle task, and the task after a flush, hold nothing.
LEMMA DoneOK ==
    ASSUME NEW k, NEW t, NEW r, NEW b
    PROVE  TaskOK(NoTask, t, r) /\ TaskOK(Done(k, b), t, r)
<1>1. NoTask.pc = "idle"
  BY DEF NoTask
<1>2. /\ Done(k, b).pc \in {"idle", "flush", "claim"}
      /\ Done(k, b).pc = "flush" => Done(k, b).stage = "initial"
  BY DEF Done, NoTask
<1> QED
  BY <1>1, <1>2 DEF TaskOK, ClaimedPcs, CleanPcs

\* A task that moves on holds what it held.
LEMMA MovedOK ==
    ASSUME NEW r, NEW k \in Task, NEW t, NEW pc \in Pcs \ {"ack", "cleanAck", "flush"},
           TaskOK(k, t, r), k.pc \in ClaimedPcs, pc \in CleanPcs => k.stage = "initial"
    PROVE  TaskOK([k EXCEPT !.pc = pc], t, r)
BY DEF Task, TaskOK

\* A task whose delivery is found or answered names an event of it.
LEMMA ResolvedOK ==
    ASSUME NEW r, NEW k \in Task, NEW t, NEW pc \in {"ack", "cleanAck"}, NEW e \in EventIds,
           TaskOK(k, t, r), k.pc \in ClaimedPcs, Delivers(e, t, k.stage),
           pc \in CleanPcs => k.stage = "initial"
    PROVE  TaskOK([k EXCEPT !.pc = pc, !.event = e], t, r)
BY DEF Task, TaskOK, CleanPcs, Pcs

\* Replacing one task by one that is right.
LEMMA PutOK ==
    ASSUME TypeOK, TaskMatchesRow, TaskShape, Keeps(rows, rows'),
           NEW p \in Processes, NEW t \in Turns, NEW k, TaskOK(k, t, rows'),
           task' = [task EXCEPT ![p][t] = k]
    PROVE  (TaskMatchesRow /\ TaskShape)'
<1>1. SUFFICES ASSUME NEW q \in Processes, NEW u \in Turns
               PROVE  TaskOK(task'[q][u], u, rows')
  BY ZenonT(60) DEF TaskMatchesRow, TaskShape, TaskOK
<1>2. CASE q = p /\ u = t
  <2>1. task'[q][u] = k
    BY <1>2 DEF TypeOK
  <2> QED
    BY <1>2, <2>1
<1>3. CASE ~(q = p /\ u = t)
  <2>1. task'[q][u] = task[q][u]
    BY <1>3 DEF TypeOK
  <2>2. task[q][u] \in Task /\ TaskOK(task[q][u], u, rows)
    BY TasksOK, TaskType
  <2> HIDE <1>3
  <2> QED
    BY <2>1, <2>2, TaskKept
<1> QED
  BY <1>2, <1>3

\* Leaving the tasks alone, whatever happens to the table.
LEMMA SameTasks ==
    ASSUME TypeOK, TaskMatchesRow, TaskShape, Keeps(rows, rows'), task' = task
    PROVE  (TaskMatchesRow /\ TaskShape)'
<1>1. ASSUME NEW q \in Processes, NEW u \in Turns PROVE TaskOK(task[q][u], u, rows')
  <2>1. task[q][u] \in Task /\ TaskOK(task[q][u], u, rows)
    BY TasksOK, TaskType
  <2> QED
    BY <2>1, TaskKept
<1> QED
  BY <1>1 DEF TaskMatchesRow, TaskShape, TaskOK

\* A step of a flush leaves its task right.
LEMMA StepTasks ==
    ASSUME TypeOK, TaskMatchesRow, TaskShape, RowShape, Keeps(rows, rows'),
           NEW p \in Processes, NEW t \in Turns, Step(p, t)
    PROVE  (TaskMatchesRow /\ TaskShape)'
<1> DEFINE k == task[p][t]
           e == EventId(t, k.stage, device[p])
           e0 == EventId(t, "initial", device[p])
<1>a. k \in Task /\ k.stage \in Stages /\ device[p] \in Devices /\ "initial" \in Stages
  BY TaskType DEF TypeOK, Stages
<1>b. TaskOK(k, t, rows)
  BY TasksOK
<1>c. TaskOK(k, t, rows')
  BY <1>a, <1>b, TaskKept
<1>d. e \in EventIds /\ e0 \in EventIds /\ Delivers(e, t, k.stage) /\ Delivers(e0, t, "initial")
  BY <1>a, EventIdType DEF EventId, Delivers
<1>e. k.pc \in CleanPcs \cup {"flush"} => k.stage = "initial"
  BY <1>b DEF TaskOK
<1>f. ASSUME task' = [task EXCEPT ![p][t] = NoTask] PROVE (TaskMatchesRow /\ TaskShape)'
  BY <1>f, DoneOK, PutOK
<1>g. ASSUME Finish(p, t) PROVE (TaskMatchesRow /\ TaskShape)'
  <2>1. task' = [task EXCEPT ![p][t] = Done(k, FALSE)]
    BY <1>g DEF Finish, TypeOK
  <2>2. TaskOK(Done(k, FALSE), t, rows')
    BY DoneOK
  <2> QED
    BY <2>1, <2>2, PutOK
<1>h. ASSUME NEW pc \in Pcs \ {"ack", "cleanAck", "flush"}, Goto(p, t, pc), k.pc \in ClaimedPcs,
             pc \in CleanPcs => k.stage = "initial"
      PROVE  (TaskMatchesRow /\ TaskShape)'
  <2> DEFINE k1 == [k EXCEPT !.pc = pc]
  <2>1. task' = [task EXCEPT ![p][t] = k1]
    BY <1>h DEF Goto, TypeOK
  <2>2. TaskOK(k1, t, rows')
    BY <1>a, <1>c, <1>h, MovedOK
  <2> HIDE DEF k1
  <2> QED
    BY <2>1, <2>2, PutOK
<1>i. ASSUME NEW pc \in {"ack", "cleanAck"}, NEW x \in EventIds, Delivers(x, t, k.stage),
             k.pc \in ClaimedPcs, pc \in CleanPcs => k.stage = "initial",
             task' = [task EXCEPT ![p][t] = [@ EXCEPT !.pc = pc, !.event = x]]
      PROVE  (TaskMatchesRow /\ TaskShape)'
  <2> DEFINE k1 == [k EXCEPT !.pc = pc, !.event = x]
  <2>1. task' = [task EXCEPT ![p][t] = k1]
    BY <1>i DEF TypeOK
  <2>2. TaskOK(k1, t, rows')
    BY <1>a, <1>c, <1>i, ResolvedOK
  <2> HIDE DEF k1
  <2> QED
    BY <2>1, <2>2, PutOK
<1>j. ASSUME NEW found \in {"ack", "cleanAck"}, NEW miss \in Pcs \ {"ack", "cleanAck", "flush"},
             Resolve(p, t, found, miss), k.pc \in ClaimedPcs,
             found \in CleanPcs \/ miss \in CleanPcs => k.stage = "initial"
      PROVE  (TaskMatchesRow /\ TaskShape)'
  <2>1. CASE Goto(p, t, miss)
    BY <2>1, <1>h, <1>j
  <2>2. ASSUME NEW x \in Copies(t, k.stage, k.claimed),
               task' = [task EXCEPT ![p][t] = [@ EXCEPT !.pc = found, !.event = x]]
        PROVE  (TaskMatchesRow /\ TaskShape)'
    BY <2>2, <1>i, <1>j DEF Copies
  <2> QED
    BY <2>1, <2>2, <1>j DEF Resolve
<1>1. CASE CheckDeleted(p, t)
  <2> DEFINE row == rows[t]["initial"]
             k1 == IF ~CleanupOwed(t)
                   THEN IF k.mode = "clean" THEN NoTask ELSE [k EXCEPT !.pc = "claim"]
                   ELSE [k EXCEPT !.pc = IF row.acked # NoEvent THEN "cleanRedact"
                                         ELSE IF row.attempted THEN "cleanResolve"
                                         ELSE "cleanRetire",
                                  !.claimed = row, !.event = row.acked]
  <2>1. task' = [task EXCEPT ![p][t] = k1] /\ rows' = rows
    BY <1>1 DEF CheckDeleted, TypeOK, durable
  <2>2. k.stage = "initial"
    BY <1>1, <1>e DEF CheckDeleted
  <2>3. [k EXCEPT !.pc = "claim"].pc = "claim"
    BY <1>a DEF Task
  <2>4. ASSUME NEW pc \in {"cleanRedact", "cleanResolve", "cleanRetire"},
               pc = "cleanResolve" => row.attempted
        PROVE  TaskOK([k EXCEPT !.pc = pc, !.claimed = row, !.event = row.acked], t, rows)
    <3> DEFINE k2 == [k EXCEPT !.pc = pc, !.claimed = row, !.event = row.acked]
    <3>1. k2.pc = pc /\ k2.stage = k.stage /\ k2.claimed = row
      BY <1>a DEF Task
    <3> HIDE DEF k2
    <3>2. TaskOK(k2, t, rows)
      BY <2>2, <2>4, <3>1 DEF TaskOK, ClaimedPcs
    <3> QED
      BY <3>2 DEF k2
  <2>5. TaskOK([k EXCEPT !.pc = "claim"], t, rows)
    BY <2>3 DEF TaskOK, ClaimedPcs, CleanPcs
  <2>6. TaskOK(k1, t, rows)
    BY <2>4, <2>5, DoneOK
  <2> HIDE DEF k1
  <2> QED
    BY <2>1, <2>6, PutOK
<1>2. CASE ClaimStep(p, t)
  <2> DEFINE s == k.stage
             row1 == [rows'[t][s] EXCEPT !.attempted = rows[t][s].attempted]
             k1 == [k EXCEPT !.pc = "claimed", !.claimed = row1]
             k2 == Done(k, ClaimBlocked(rows, t, s))
  <2>1. rows' = Claim(rows, t, s, SendingDevice(p)) /\ rows' \in Table /\ rows \in Table
    BY <1>2, <1>a, ClaimType, SendingDeviceType DEF ClaimStep, TypeOK
  <2>2. CASE ClaimGranted(rows, t, s) /\ rows[t][s].acked = NoEvent
    <3>1. task' = [task EXCEPT ![p][t] = k1]
      BY <1>2, <2>2 DEF ClaimStep
    <3>2. rows'[t][s].attempted
      BY <1>a, <2>1, <2>2, ClaimKeeps, SendingDeviceType DEF RowShape
    <3>3. rows'[t][s] \in Row
      BY <1>a, <2>1 DEF Table
    <3>4. row1.payload = rows'[t][s].payload /\ row1.edits = rows'[t][s].edits
      BY <3>3 DEF Row
    <3>5. k1.pc = "claimed" /\ k1.stage = s /\ k1.claimed = row1
      BY <1>a DEF Task
    <3> HIDE DEF k1, row1
    <3>6. TaskOK(k1, t, rows')
      BY <3>2, <3>4, <3>5 DEF TaskOK, CleanPcs
    <3> QED
      BY <3>1, <3>6, PutOK
  <2>3. CASE ~(ClaimGranted(rows, t, s) /\ rows[t][s].acked = NoEvent)
    <3>1. task' = [task EXCEPT ![p][t] = k2]
      BY <1>2, <2>3 DEF ClaimStep
    <3>2. TaskOK(k2, t, rows')
      BY DoneOK
    <3> HIDE DEF k2
    <3> QED
      BY <3>1, <3>2, PutOK
  <2> QED
    BY <2>2, <2>3
<1>3. CASE CheckEpoch(p, t)
  <2>1. PICK pc \in {"stale", "device", "resolve"} : Goto(p, t, pc)
    BY <1>3 DEF CheckEpoch
  <2> QED
    BY <1>3, <1>h, <2>1 DEF CheckEpoch, ClaimedPcs, CleanPcs, Pcs
<1>4. CASE ReconcileStale(p, t)
  BY <1>4, <1>j DEF ReconcileStale, ClaimedPcs, CleanPcs, Pcs
<1>5. CASE ReconcileDevice(p, t)
  BY <1>5, <1>j DEF ReconcileDevice, ClaimedPcs, CleanPcs, Pcs
<1>6. CASE StampDevice(p, t)
  BY <1>6, <1>h DEF StampDevice, ClaimedPcs, CleanPcs, Pcs
<1>7. CASE SendAnswered(p, t)
  <2>1. task' = [task EXCEPT ![p][t] = [@ EXCEPT !.pc = "ack", !.event = e]] /\ k.pc = "send"
    BY <1>7 DEF SendAnswered
  <2> HIDE DEF e, k
  <2> QED
    BY <1>d, <1>i, <2>1 DEF ClaimedPcs, CleanPcs
<1>8. CASE SendLost(p, t)
  BY <1>8, <1>f DEF SendLost
<1>9. CASE SendRefused(p, t)
  BY <1>9, <1>h DEF SendRefused, ClaimedPcs, CleanPcs, Pcs
<1>10. CASE AcknowledgeStep(p, t) \/ FailStep(p, t) \/ RetireStep(p, t) \/ CleanRetire(p, t)
  BY <1>10, <1>g DEF AcknowledgeStep, FailStep, RetireStep, CleanRetire
<1>11. CASE CleanResolve(p, t)
  BY <1>11, <1>e, <1>j DEF CleanResolve, ClaimedPcs, CleanPcs, Pcs
<1>12. CASE CleanUnproven(p, t) \/ ScanRefused(p, t)
  BY <1>12, <1>f DEF CleanUnproven, ScanRefused
<1>13. CASE CleanSend(p, t) \/ CleanLost(p, t)
  <2>1. k.pc = "cleanSend" /\ k.stage = "initial"
    BY <1>13, <1>e DEF CleanSend, CleanLost, CleanPcs
  <2>2. \/ task' = [task EXCEPT ![p][t] = [@ EXCEPT !.pc = "cleanAck", !.event = e0]]
        \/ task' = [task EXCEPT ![p][t] = NoTask]
    BY <1>13 DEF CleanSend, CleanLost
  <2> HIDE DEF e0, k
  <2> QED
    BY <1>d, <1>f, <1>i, <2>1, <2>2 DEF ClaimedPcs
<1>14. CASE CleanAck(p, t)
  BY <1>14, <1>e, <1>h DEF CleanAck, ClaimedPcs, CleanPcs, Pcs
<1>15. CASE CleanRedact(p, t)
  <2> DEFINE k1 == [k EXCEPT !.pc = "cleanRetire"]
  <2>1. task' = [task EXCEPT ![p][t] = k1]
    BY <1>15 DEF CleanRedact, Goto, TypeOK
  <2>2. k.stage = "initial"
    BY <1>15, <1>e DEF CleanRedact, CleanPcs
  <2>3. k1.pc = "cleanRetire" /\ k1.stage = "initial"
    BY <1>a, <2>2 DEF Task
  <2> HIDE DEF k1
  <2>4. TaskOK(k1, t, rows')
    BY <2>3 DEF TaskOK, ClaimedPcs
  <2> QED
    BY <2>1, <2>4, PutOK
<1> QED
  BY <1>1, <1>2, <1>3, <1>4, <1>5, <1>6, <1>7, <1>8, <1>9, <1>10, <1>11, <1>12,
     <1>13, <1>14, <1>15 DEF Step, Progress

\* A flush that starts holds nothing yet, and starts at the cleanup hook only
\* for a placeholder.
LEMMA StartedOK ==
    ASSUME NEW s, NEW mode, NEW t, NEW r
    PROVE  /\ TaskOK([NoTask EXCEPT !.pc = IF s = "initial" THEN "flush" ELSE "claim",
                                    !.mode = mode, !.stage = s], t, r)
           /\ TaskOK([NoTask EXCEPT !.pc = "flush", !.mode = mode, !.stage = "initial"], t, r)
BY DEF TaskOK, NoTask, ClaimedPcs, CleanPcs

\* Every step leaves every task right.
LEMMA NextTasks ==
    ASSUME TypeOK, TaskMatchesRow, TaskShape, RowShape, [Next]_vars
    PROVE  (TaskMatchesRow /\ TaskShape)'
<1>a. Keeps(rows, rows')
  BY NextRows
<1>1. CASE task' = task
  BY <1>a, <1>1, SameTasks
<1>2. ASSUME NEW p \in Processes, NEW t \in Turns, Step(p, t)
      PROVE  (TaskMatchesRow /\ TaskShape)'
  BY <1>a, <1>2, StepTasks
<1>3. ASSUME NEW p \in Processes, NEW t \in Turns, Start(p, t), task' # task
      PROVE  (TaskMatchesRow /\ TaskShape)'
  <2>1. PICK s, mode :
          \/ task' = [task EXCEPT ![p][t] =
                        [NoTask EXCEPT !.pc = IF s = "initial" THEN "flush" ELSE "claim",
                                       !.mode = mode, !.stage = s]]
          \/ task' = [task EXCEPT ![p][t] =
                        [NoTask EXCEPT !.pc = "flush", !.mode = mode, !.stage = "initial"]]
    BY <1>3 DEF Start, StartTurn, Deliver, Recover, RecoverDeleted
  <2> DEFINE k1 == [NoTask EXCEPT !.pc = IF s = "initial" THEN "flush" ELSE "claim",
                                  !.mode = mode, !.stage = s]
             k2 == [NoTask EXCEPT !.pc = "flush", !.mode = mode, !.stage = "initial"]
  <2>2. TaskOK(k1, t, rows') /\ TaskOK(k2, t, rows')
    BY StartedOK
  <2>3. task' = [task EXCEPT ![p][t] = k1] \/ task' = [task EXCEPT ![p][t] = k2]
    BY <2>1
  <2> HIDE DEF k1, k2
  <2> QED
    BY <1>a, <2>2, <2>3, PutOK
<1>4. ASSUME NEW p \in Processes, NEW t \in Turns, Raise(p, t)
      PROVE  (TaskMatchesRow /\ TaskShape)'
  <2>1. task' = [task EXCEPT ![p][t] = NoTask] /\ TaskOK(NoTask, t, rows')
    BY <1>4, DoneOK DEF Raise
  <2> QED
    BY <1>a, <2>1, PutOK
<1>5. ASSUME NEW p \in Processes, NEW d \in Devices, Crash(p, d)
      PROVE  (TaskMatchesRow /\ TaskShape)'
  <2>1. rows' = rows /\ task' = [task EXCEPT ![p] = [t \in Turns |-> NoTask]]
    BY <1>5 DEF Crash, durable
  <2>2. ASSUME NEW q \in Processes, NEW u \in Turns PROVE TaskOK(task'[q][u], u, rows')
    <3>1. CASE q = p
      BY <2>1, <3>1, DoneOK DEF TypeOK
    <3>2. CASE q # p
      BY <2>1, <3>2, TasksOK DEF TypeOK
    <3> QED
      BY <3>1, <3>2
  <2> QED
    BY <2>2 DEF TaskMatchesRow, TaskShape, TaskOK
<1> QED
  BY <1>1, <1>2, <1>3, <1>4, <1>5
     DEF Next, Outside, vars, Admit, DeleteSource, MarkRedacted, Bury, Depart, Rejoin, Echo

-----------------------------------------------------------------------------
(* What the room shows is what the row holds.                              *)

\* Accepting a transaction shows the content of the row it was frozen in.
LEMMA AcceptShowsRow ==
    ASSUME TypeOK, TaskMatchesRow, RoomShowsRow, Keeps(rows, rows'),
           NEW p \in Processes, NEW t \in Turns, task[p][t].pc \in ClaimedPcs,
           NEW x \in EventIds, Delivers(x, t, task[p][t].stage),
           room' = Accept(x, task[p][t].claimed)
    PROVE  RoomShowsRow'
<1> DEFINE k == task[p][t]
           row == rows[t][k.stage]
<1>1. row.attempted /\ k.claimed.payload = row.payload /\ k.claimed.edits = row.edits
  BY DEF TaskMatchesRow
<1>2. \A y \in EventIds : y.turn \in Turns /\ y.stage \in Stages
  BY DEF EventIds
<1>3. x.turn = t /\ x.stage = k.stage
  BY DEF Delivers
<1>4. \A y \in EventIds : room'[y] = room[y] \/ (y = x /\ room'[y] =
        [state |-> "visible", payload |-> k.claimed.payload, edits |-> k.claimed.edits])
  BY DEF Accept, TypeOK
<1> HIDE DEF k
<1>5. SUFFICES ASSUME NEW y \in EventIds, room'[y].state = "visible"
               PROVE  /\ rows'[y.turn][y.stage].attempted
                      /\ room'[y].payload = rows'[y.turn][y.stage].payload
                      /\ room'[y].edits = rows'[y.turn][y.stage].edits
  BY DEF RoomShowsRow, RowOf
<1>6. CASE room'[y] = room[y]
  BY <1>2, <1>5, <1>6 DEF RoomShowsRow, RowOf, Keeps
<1>7. CASE y = x /\ room'[y] =
        [state |-> "visible", payload |-> k.claimed.payload, edits |-> k.claimed.edits]
  BY <1>1, <1>2, <1>3, <1>7 DEF Keeps
<1> QED
  BY <1>4, <1>6, <1>7

\* Every step leaves the room and the outbox agreeing.
LEMMA NextRoom ==
    ASSUME TypeOK, TaskMatchesRow, TaskShape, RowShape, RoomShowsRow, [Next]_vars
    PROVE  RoomShowsRow'
<1>a. Keeps(rows, rows')
  BY NextRows
<1>b. \A y \in EventIds : y.turn \in Turns /\ y.stage \in Stages
  BY DEF EventIds
<1>1. CASE room' = room
  BY <1>a, <1>b, <1>1 DEF RoomShowsRow, RowOf, Keeps
<1>2. ASSUME NEW p \in Processes, NEW t \in Turns, Step(p, t), room' # room
      PROVE  RoomShowsRow'
  <2> DEFINE k == task[p][t]
             e == EventId(t, k.stage, device[p])
             e0 == EventId(t, "initial", device[p])
  <2>1. k.stage \in Stages /\ device[p] \in Devices /\ "initial" \in Stages
    BY TaskType DEF TypeOK, Stages
  <2>2. e \in EventIds /\ e0 \in EventIds /\ Delivers(e, t, k.stage) /\ Delivers(e0, t, "initial")
    BY <2>1, EventIdType DEF EventId, Delivers
  <2>3. CASE SendAnswered(p, t) \/ SendLost(p, t) \/ SendRefused(p, t)
    <3>1. room' = Accept(e, k.claimed) /\ k.pc \in ClaimedPcs
      BY <1>2, <2>3 DEF SendAnswered, SendLost, SendRefused, ClaimedPcs
    <3> HIDE DEF e
    <3> QED
      BY <1>a, <2>2, <3>1, AcceptShowsRow
  <2>4. CASE CleanSend(p, t) \/ CleanLost(p, t)
    <3>1. room' = Accept(e0, k.claimed) /\ k.pc \in ClaimedPcs /\ k.stage = "initial"
      BY <2>4 DEF CleanSend, CleanLost, ClaimedPcs, TaskShape, CleanPcs
    <3> HIDE DEF e0
    <3> QED
      BY <1>a, <2>2, <3>1, AcceptShowsRow
  <2>5. CASE CleanRedact(p, t)
    <3>1. \A y \in EventIds : room'[y].state = "visible" => room'[y] = room[y]
      BY <2>5 DEF CleanRedact, Redacted, TypeOK
    <3> QED
      BY <1>a, <1>b, <3>1 DEF RoomShowsRow, RowOf, Keeps
  <2> QED
    BY <1>2, <2>3, <2>4, <2>5
       DEF Step, Progress, CheckDeleted, ClaimStep, CheckEpoch, ReconcileStale, ReconcileDevice,
           Resolve,
           StampDevice, AcknowledgeStep, FailStep, RetireStep, CleanResolve, CleanUnproven, ScanRefused,
           CleanAck, CleanRetire
<1> QED
  BY <1>1, <1>2, StartLeaves
     DEF Next, Outside, vars, Admit, DeleteSource, MarkRedacted, Bury, Depart, Rejoin, Echo, Raise, Crash

-----------------------------------------------------------------------------
(* The turn record and the outbox name the same answer.                    *)

\* Every step leaves the records naming the acknowledged answers.
LEMMA NextRecord ==
    ASSUME TypeOK, TaskMatchesRow, TaskShape, RowShape, RecordNamesAnswer, [Next]_vars
    PROVE  RecordNamesAnswer'
<1>a. Keeps(rows, rows') /\ WellFormed(rows)
  BY NextRows DEF RowShape
<1>b. ASSUME NEW u \in Turns, record'[u] = record[u]
      PROVE  record'[u] # NoEvent =>
                /\ rows'[u]["final"].acked # NoEvent
                /\ record'[u] = CanonicalResponse(rows'[u]["final"], rows'[u]["final"].acked)
  BY <1>a, <1>b DEF Keeps, WellFormed, RecordNamesAnswer, CanonicalResponse, Stages
<1>1. CASE record' = record
  BY <1>1, <1>b DEF RecordNamesAnswer
<1>2. ASSUME NEW p \in Processes, NEW t \in Turns, AcknowledgeStep(p, t), record' # record
      PROVE  RecordNamesAnswer'
  <2> DEFINE k == task[p][t]
             e == task[p][t].event
  <2>1. k.stage = "final" /\ AcknowledgeBinds(rows, t, "final")
        /\ record' = [record EXCEPT ![t] = CanonicalResponse(k.claimed, e)]
    BY <1>2 DEF AcknowledgeStep, CommitsTerminal
  <2>2. e \in EventIds /\ k.claimed.edits = rows[t]["final"].edits /\ rows[t]["final"].attempted
    BY <1>2, <2>1 DEF AcknowledgeStep, TaskShape, TaskMatchesRow, ClaimedPcs
  <2>3. rows' = [rows EXCEPT ![t]["final"] = [@ EXCEPT !.acked = e, !.failed = FALSE]]
    BY <1>2, <2>1 DEF AcknowledgeStep, Acknowledge
  <2>4. rows'[t]["final"].acked = e
    <3> DEFINE row == rows[t]["final"]
               new == [row EXCEPT !.acked = e, !.failed = FALSE]
    <3>1. row \in Row /\ rows'[t]["final"] = new
      BY <2>3 DEF TypeOK, Table, Stages
    <3>2. new.acked = e
      <4> HIDE DEF row
      <4> QED
        BY <3>1 DEF Row
    <3> QED
      BY <3>1, <3>2
  <2>5. e # NoEvent
    BY <2>2, DeliveryConstants DEF EventIds, Stages
  <2>6. rows'[t]["final"].edits = k.claimed.edits
    BY <1>a, <2>2 DEF Keeps, Stages
  <2>7. record'[t] = CanonicalResponse(rows'[t]["final"], rows'[t]["final"].acked)
    BY <2>1, <2>4, <2>6 DEF CanonicalResponse, TypeOK
  <2>8. \A u \in Turns \ {t} : record'[u] = record[u]
    BY <2>1 DEF TypeOK
  <2> QED
    BY <1>b, <2>4, <2>5, <2>7, <2>8 DEF RecordNamesAnswer
<1> QED
  BY <1>1, <1>2, StartLeaves, StepLeaves
     DEF Next, Outside, vars, durable, Admit, DeleteSource, MarkRedacted, Bury, Depart, Rejoin, Echo,
         Raise, Crash

-----------------------------------------------------------------------------
(* Memberships.                                                            *)

\* What a step may do to the sources and the membership: Admit, DeleteSource,
\* Depart, Rejoin and deliver() are the only steps that touch either.
LEMMA MembershipSteps ==
    ASSUME TypeOK, [Next]_vars
    PROVE  \/ UNCHANGED <<epoch, fenced, source>> /\ \A t \in Turns : Deleted(t) => Deleted(t)'
           \/ Delivering
           \/ Depart
           \/ Rejoin
           \/ \E t \in Turns : Admit(t) \/ DeleteSource(t)
<1>1. ASSUME NEW p \in Processes, NEW u \in Turns, Step(p, u)
      PROVE  UNCHANGED <<epoch, fenced, source>> /\ \A t \in Turns : Deleted(t) => Deleted(t)'
  <2>1. redaction' = redaction \/ redaction' = [redaction EXCEPT ![u] = @ \cup {"mark"}]
    BY <1>1, StepLeaves
  <2>2. \A t \in Turns : Deleted(t) => Deleted(t)'
    BY <2>1 DEF TypeOK, Deleted
  <2> QED
    BY <1>1, <2>2, StepLeaves
<1>2. ASSUME NEW u \in Turns, MarkRedacted(u)
      PROVE  UNCHANGED <<epoch, fenced, source>> /\ \A t \in Turns : Deleted(t) => Deleted(t)'
  BY <1>2 DEF MarkRedacted, TypeOK, Deleted
<1>3. redaction' = redaction => \A t \in Turns : Deleted(t) => Deleted(t)'
  BY DEF Deleted
<1> QED
  BY <1>1, <1>2, <1>3, StartLeaves DEF Next, Outside, vars, durable, Bury, Echo, Raise, Crash

\* No row and no run precedes the admission of its turn.
LEMMA NextTurns ==
    ASSUME TypeOK, TaskMatchesRow, TaskShape, RowShape, TurnShape, [Next]_vars
    PROVE  TurnShape'
<1>a. ASSUME NEW t \in Turns, NEW s \in Stages, rows'[t][s].exists
      PROVE  t \in HookTurns \/ source[t].state # "none"
  <2>1. CASE NoNewRows(rows, rows')
    BY <1>a, <2>1 DEF NoNewRows, TurnShape
  <2>2. ASSUME NEW p \in Processes, NEW u \in Turns, NEW z \in Stages, NEW y \in Payloads,
               NEW f \in BOOLEAN, NEW x \in {NoEvent, rows[u]["initial"].acked},
               Deliver(p, u, z, y, x, f)
        PROVE  t \in HookTurns \/ source[t].state # "none"
    <3>1. u \in running[p]
      BY <2>2 DEF Deliver
    <3>2. t # u => rows'[t][s] = rows[t][s]
      BY <2>2, DeliverRows
    <3> QED
      BY <1>a, <3>1, <3>2 DEF TurnShape
  <2> QED
    BY <2>1, <2>2, NextRows DEF Delivering
<1>b. ASSUME NEW t \in Turns, NEW p \in Processes, t \in running'[p]
      PROVE  t \in HookTurns \/ source[t].state # "none"
  <2>1. ASSUME NEW q \in Processes, NEW u \in Turns, StartTurn(q, u)
        PROVE  t \in HookTurns \/ source[t].state # "none"
    BY <1>b, <2>1 DEF StartTurn, TypeOK, TurnShape
  <2>2. ASSUME NEW q \in Processes, NEW d \in Devices, Crash(q, d)
        PROVE  t \in HookTurns \/ source[t].state # "none"
    BY <1>b, <2>2 DEF Crash, TypeOK, TurnShape
  <2>3. CASE running' = running
    BY <1>b, <2>3 DEF TurnShape
  <2> QED
    BY <2>1, <2>2, <2>3, StartLeaves, StepLeaves
       DEF Next, Outside, vars, Admit, DeleteSource, MarkRedacted, Bury, Depart, Rejoin, Echo, Raise
<1>c. \A t \in Turns : source[t].state # "none" => source'[t].state # "none"
  <2>1. CASE UNCHANGED <<epoch, fenced, source>>
    BY <2>1
  <2>2. CASE Delivering
    BY <2>2 DEF Delivering, Deliver, TypeOK, SourceRow
  <2>3. CASE Depart
    BY <2>3 DEF Depart, SettlePending, TypeOK, SourceRow
  <2>4. CASE Rejoin
    BY <2>4 DEF Rejoin
  <2>5. ASSUME NEW t \in Turns, Admit(t) \/ DeleteSource(t)
        PROVE  \A u \in Turns : source[u].state # "none" => source'[u].state # "none"
    BY <2>5 DEF Admit, DeleteSource, TypeOK, SourceRow
  <2> QED
    BY <2>1, <2>2, <2>3, <2>4, <2>5, MembershipSteps
<1>d. \A t \in Turns : source'[t].epoch <= epoch'
  <2>1. CASE UNCHANGED <<epoch, fenced, source>>
    BY <2>1 DEF TurnShape
  <2>2. CASE Delivering
    BY <2>2 DEF Delivering, Deliver, TypeOK, SourceRow, TurnShape
  <2>3. CASE Depart
    BY <2>3 DEF Depart, SettlePending, TypeOK, SourceRow, TurnShape
  <2>4. CASE Rejoin
    BY <2>4 DEF Rejoin, TurnShape
  <2>5. ASSUME NEW t \in Turns, Admit(t) \/ DeleteSource(t)
        PROVE  \A u \in Turns : source'[u].epoch <= epoch'
    BY <2>5 DEF Admit, DeleteSource, TypeOK, SourceRow, TurnShape
  <2> QED
    BY <2>1, <2>2, <2>3, <2>4, <2>5, MembershipSteps
<1> QED
  BY <1>a, <1>b, <1>c, <1>d DEF TurnShape

\* Every step keeps a turn's rows in the membership of its sources.
LEMMA NextMembership ==
    ASSUME TypeOK, TaskMatchesRow, TaskShape, RowShape, TurnShape, OneMembershipPerTurn,
           [Next]_vars
    PROVE  OneMembershipPerTurn'
<1>1. CASE Delivering
  <2>0. PICK p \in Processes, t \in Turns, s \in Stages, y \in Payloads, f \in BOOLEAN :
            \E x \in {NoEvent, rows[t]["initial"].acked} : Deliver(p, t, s, y, x, f)
    BY <1>1 DEF Delivering
  <2>1. PICK x \in {NoEvent, rows[t]["initial"].acked} : Deliver(p, t, s, y, x, f)
    BY <2>0
  <2>2. \A u \in Turns : source'[u].epoch = source[u].epoch
                       /\ (source'[u].state = "none" <=> source[u].state = "none")
    BY <2>1 DEF Deliver, TypeOK, SourceRow
  <2>3. CASE rows' = rows
    BY <2>2, <2>3 DEF OneMembershipPerTurn
  <2>4. CASE rows' # rows
    <3> DEFINE e == rows'[t][s].epoch
    <3>1. /\ e \in EnqueueEpochs(t, s) /\ ~rows[t][s].attempted
          /\ \/ StagesPresent(rows, t) = {}
             \/ \E pick \in StagesPresent(rows, t) : ~OwnerRefuses(rows, t, pick, e)
          /\ \A u \in Turns, z \in Stages : u # t \/ z # s => rows'[u][z] = rows[u][z]
      BY <2>1, <2>4, DeliverRows
    <3> HIDE DEF e
    <3>2. source[t].state # "none" => e = source[t].epoch
      BY <3>1 DEF EnqueueEpochs
    <3>3. \A z \in Stages : rows[t][z].exists => rows[t][z].epoch = e
      BY <3>1 DEF StagesPresent, OwnerRefuses, OneMembershipPerTurn
    <3>4. \A z \in Stages : rows'[t][z].exists => rows'[t][z].epoch = e
      BY <3>1, <3>3 DEF e
    <3> QED
      BY <2>2, <3>1, <3>2, <3>4 DEF OneMembershipPerTurn
  <2> QED
    BY <2>3, <2>4
<1>2. CASE NoNewRows(rows, rows') /\ ~Delivering
  <2>1. CASE \A u \in Turns : source'[u].epoch = source[u].epoch
                            /\ (source'[u].state = "none" <=> source[u].state = "none")
    BY <1>2, <2>1 DEF NoNewRows, OneMembershipPerTurn
  <2>2. ASSUME NEW t \in Turns, Admit(t) PROVE OneMembershipPerTurn'
    <3>1. \A z \in Stages : ~rows[t][z].exists
      BY <2>2 DEF Admit, TurnShape
    <3>2. \A u \in Turns \ {t} : source'[u] = source[u]
      BY <2>2 DEF Admit, TypeOK
    <3> QED
      BY <1>2, <3>1, <3>2 DEF NoNewRows, OneMembershipPerTurn
  <2>3. ASSUME NEW t \in Turns, DeleteSource(t) PROVE OneMembershipPerTurn'
    <3>1. \A u \in Turns : source'[u].epoch = source[u].epoch
                          /\ (source'[u].state = "none" <=> source[u].state = "none")
      BY <2>3 DEF DeleteSource, TypeOK, SourceRow
    <3> QED
      BY <2>1, <3>1
  <2>4. CASE Depart
    <3>1. \A u \in Turns : source'[u].epoch = source[u].epoch
                          /\ (source'[u].state = "none" <=> source[u].state = "none")
      BY <2>4 DEF Depart, SettlePending, TypeOK, SourceRow
    <3> QED
      BY <2>1, <3>1
  <2> QED
    BY <1>2, <2>1, <2>2, <2>3, <2>4, MembershipSteps DEF Rejoin
<1> QED
  BY <1>1, <1>2, NextRows

\* Every step leaves the rows still to be attempted with the current membership.
LEMMA NextUnattempted ==
    ASSUME TypeOK, TaskMatchesRow, TaskShape, RowShape, UnattemptedIsCurrent, [Next]_vars
    PROVE  UnattemptedIsCurrent'
<1>a. Keeps(rows, rows')
  BY NextRows
<1>1. CASE Delivering
  <2>0. PICK p \in Processes, t \in Turns, s \in Stages, y \in Payloads, f \in BOOLEAN :
            \E x \in {NoEvent, rows[t]["initial"].acked} : Deliver(p, t, s, y, x, f)
    BY <1>1 DEF Delivering
  <2>1. PICK x \in {NoEvent, rows[t]["initial"].acked} : Deliver(p, t, s, y, x, f)
    BY <2>0
  <2>2. UNCHANGED <<epoch, fenced>>
    BY <2>1 DEF Deliver
  <2>a. /\ \/ rows' = rows
           \/ rows'[t][s].epoch \in EnqueueEpochs(t, s) /\ ~rows[t][s].attempted
        /\ \A u \in Turns, z \in Stages : u # t \/ z # s => rows'[u][z] = rows[u][z]
    BY <2>1, DeliverRows
  <2>b. ASSUME NEW e \in EnqueueEpochs(t, s), ~rows[t][s].attempted
        PROVE  MembershipIsCurrent(e)
    BY <2>b DEF EnqueueEpochs, MembershipIsCurrent
  <2>3. \/ rows' = rows
        \/ /\ MembershipIsCurrent(rows'[t][s].epoch)
           /\ \A u \in Turns, z \in Stages : u # t \/ z # s => rows'[u][z] = rows[u][z]
    BY <2>a, <2>b
  <2> QED
    BY <2>2, <2>3 DEF UnattemptedIsCurrent, MembershipIsCurrent
<1>2. CASE NoNewRows(rows, rows') /\ UNCHANGED <<epoch, fenced>>
  BY <1>a, <1>2 DEF NoNewRows, Keeps, UnattemptedIsCurrent, MembershipIsCurrent
<1>3. CASE Depart
  <2>1. rows' = RetireUnattempted(rows) /\ rows \in Table /\ WellFormed(rows)
    BY <1>3 DEF Depart, TypeOK, RowShape
  <2> QED
    BY <2>1, FenceKeeps DEF UnattemptedIsCurrent
<1>4. CASE Rejoin
  BY <1>4 DEF Rejoin, UnattemptedIsCurrent, MembershipIsCurrent
<1> QED
  BY <1>1, <1>2, <1>3, <1>4, NextRows, MembershipSteps DEF Admit, DeleteSource

\* An attempted row keeps its membership, also under deliver().
LEMMA AttemptedEpoch ==
    ASSUME TypeOK, TaskMatchesRow, TaskShape, RowShape, [Next]_vars,
           NEW u \in Turns, NEW z \in Stages, rows[u][z].attempted
    PROVE  rows'[u][z].attempted /\ rows'[u][z].exists /\ rows'[u][z].epoch = rows[u][z].epoch
<1>1. rows'[u][z].attempted /\ rows'[u][z].exists
  BY NextRows DEF Keeps, RowShape, WellFormed
<1>2. CASE NoNewRows(rows, rows')
  BY <1>1, <1>2 DEF NoNewRows
<1>3. CASE Delivering
  <2>0. PICK p \in Processes, t \in Turns, s \in Stages, y \in Payloads, f \in BOOLEAN :
            \E x \in {NoEvent, rows[t]["initial"].acked} : Deliver(p, t, s, y, x, f)
    BY <1>3 DEF Delivering
  <2>1. /\ rows' = rows \/ ~rows[t][s].attempted
        /\ \A v \in Turns, w \in Stages : v # t \/ w # s => rows'[v][w] = rows[v][w]
    BY <2>0, DeliverRows
  <2> QED
    BY <1>1, <2>1
<1> QED
  BY <1>1, <1>2, <1>3, NextRows

\* A transcript entry that may stand: an attempted delivery of the current
\* membership.
Standing(y) == /\ ~fenced
               /\ rows[y.turn][y.stage].attempted
               /\ rows[y.turn][y.stage].exists
               /\ rows[y.turn][y.stage].epoch = epoch

\* The transcript invariants, entry by entry.
LEMMA TranscriptStands ==
    ASSUME ShownIsAttempted, TranscriptIsCurrent
    PROVE  \A y \in shown : Standing(y)
BY DEF ShownIsAttempted, TranscriptIsCurrent, Standing, RowOf

\* An acknowledgement adds to the transcript what stands, and nothing else.
LEMMA AcknowledgedStands ==
    ASSUME TypeOK, TaskMatchesRow, TaskShape, RowShape, OneMembershipPerTurn,
           ShownIsAttempted, TranscriptIsCurrent,
           NEW p \in Processes, NEW t \in Turns, AcknowledgeStep(p, t),
           NEW y \in shown'
    PROVE  Standing(y)
<1> DEFINE k == task[p][t]
           s == task[p][t].stage
           e == task[p][t].event
<1>1. s \in Stages /\ "initial" \in Stages /\ WellFormed(rows)
  BY TaskType DEF Stages, RowShape
<1>2. e.turn = t /\ e.stage = s /\ rows[t][s].attempted /\ k.claimed.edits = rows[t][s].edits
  BY DEF AcknowledgeStep, TaskShape, TaskMatchesRow, ClaimedPcs, Delivers
<1>3. PICK seen \in Observed(k.claimed, e) : shown' = ShownAfterAck(t, s, e, seen)
  BY DEF AcknowledgeStep
<1>4. CASE y \in shown
  BY <1>4, TranscriptStands
<1>5. CASE y \notin shown
  <2>1. y \in seen /\ OwnsProjection(rows[t][s])
    BY <1>3, <1>5 DEF ShownAfterAck
  <2>2. rows[t][s].exists /\ rows[t][s].epoch = epoch /\ ~fenced
    BY <2>1 DEF OwnsProjection, MembershipIsCurrent
  <2>3. y = e \/ (y = rows[t][s].edits /\ rows[t][s].edits # NoEvent)
    BY <1>2, <1>3, <2>1 DEF Observed
  <2>4. CASE y = e
    <3> HIDE DEF e, s
    <3> QED
      BY <1>2, <2>2, <2>4 DEF Standing
  <2>5. CASE y = rows[t][s].edits /\ rows[t][s].edits # NoEvent
    <3>1. y = rows[t]["initial"].acked /\ y # NoEvent
      BY <1>1, <2>5 DEF WellFormed
    <3>2. rows[t]["initial"].attempted /\ Delivers(y, t, "initial")
      BY <1>1, <3>1 DEF WellFormed
    <3>3. rows[t]["initial"].exists
      BY <1>1, <3>2 DEF WellFormed
    <3>4. rows[t]["initial"].epoch = epoch
      BY <1>1, <2>2, <3>3 DEF OneMembershipPerTurn
    <3>5. y.turn = t /\ y.stage = "initial"
      BY <3>2 DEF Delivers
    <3> HIDE <2>5, <3>1
    <3> QED
      BY <2>2, <3>2, <3>3, <3>4, <3>5 DEF Standing
  <2> QED
    BY <2>3, <2>4, <2>5
<1> QED
  BY <1>4, <1>5

\* Every step leaves only current, attempted deliveries in the transcript.
LEMMA NextTranscript ==
    ASSUME TypeOK, TaskMatchesRow, TaskShape, RowShape, RoomShowsRow, OneMembershipPerTurn,
           ShownIsAttempted, TranscriptIsCurrent, [Next]_vars
    PROVE  (ShownIsAttempted /\ TranscriptIsCurrent)'
<1>a. \A y \in EventIds : y.turn \in Turns /\ y.stage \in Stages
  BY DEF EventIds
<1>b. shown' \subseteq EventIds
  BY NextType DEF TypeOK
<1>c. ASSUME UNCHANGED <<epoch, fenced>>, \A y \in shown' : Standing(y)
      PROVE  (ShownIsAttempted /\ TranscriptIsCurrent)'
  <2>1. ASSUME NEW y \in shown'
        PROVE  /\ ~fenced' /\ rows'[y.turn][y.stage].attempted
               /\ rows'[y.turn][y.stage].exists /\ rows'[y.turn][y.stage].epoch = epoch'
    BY <1>a, <1>b, <1>c, <2>1, AttemptedEpoch DEF Standing
  <2> QED
    BY <2>1 DEF ShownIsAttempted, TranscriptIsCurrent, RowOf
<1>1. CASE UNCHANGED <<epoch, fenced>> /\ shown' \subseteq shown
  BY <1>1, <1>c, TranscriptStands
<1>2. CASE shown' = {}
  BY <1>2 DEF ShownIsAttempted, TranscriptIsCurrent
<1>3. CASE Rejoin
  BY <1>3, <1>2 DEF Rejoin, TranscriptIsCurrent
<1>4. ASSUME NEW e \in EventIds, Echo(e)
      PROVE  (ShownIsAttempted /\ TranscriptIsCurrent)'
  <2>1. Standing(e)
    BY <1>4 DEF Echo, OwnsProjection, MembershipIsCurrent, RowOf, RoomShowsRow, Standing
  <2>2. shown' = shown \cup {e} /\ UNCHANGED <<epoch, fenced>>
    BY <1>4 DEF Echo
  <2> QED
    BY <1>c, <2>1, <2>2, TranscriptStands
<1>5. ASSUME NEW p \in Processes, NEW t \in Turns, Step(p, t)
      PROVE  (ShownIsAttempted /\ TranscriptIsCurrent)'
  <2>1. UNCHANGED <<epoch, fenced>>
    BY <1>5, StepLeaves
  <2>2. CASE AcknowledgeStep(p, t)
    BY <1>c, <2>1, <2>2, AcknowledgedStands
  <2>3. CASE RetireStep(p, t) \/ CleanAck(p, t)
    <3>1. shown' \subseteq shown
      BY <2>3 DEF RetireStep, CleanAck, ShownAfterAck
    <3> QED
      BY <1>1, <2>1, <3>1
  <2> QED
    BY <1>1, <1>5, <2>1, <2>2, <2>3, StepLeaves
<1> QED
  BY <1>1, <1>2, <1>3, <1>4, <1>5, StartLeaves
     DEF Next, Outside, vars, durable, Admit, DeleteSource, MarkRedacted, Bury, Depart, Raise, Crash

\* Every step leaves every settled source with an owner.
LEMMA NextHandoff ==
    ASSUME TypeOK, TaskMatchesRow, TaskShape, RowShape, TurnShape, HandoffKeepsOwner, [Next]_vars
    PROVE  HandoffKeepsOwner'
<1>a. \A u \in Turns : rows[u]["final"].exists => rows'[u]["final"].exists
  BY NextRows DEF Keeps, Stages
<1>1. CASE UNCHANGED <<epoch, fenced, source>> /\ \A t \in Turns : Deleted(t) => Deleted(t)'
  BY <1>a, <1>1 DEF HandoffKeepsOwner
<1>2. CASE Delivering
  <2>0. PICK p \in Processes, t \in Turns, s \in Stages, y \in Payloads, f \in BOOLEAN :
            \E x \in {NoEvent, rows[t]["initial"].acked} : Deliver(p, t, s, y, x, f)
    BY <1>2 DEF Delivering
  <2>1. /\ UNCHANGED <<epoch, redaction>>
        /\ \A u \in Turns : source'[u].epoch = source[u].epoch
        /\ \A u \in Turns : u # t \/ s # "final" => source'[u] = source[u]
    BY <2>0 DEF Deliver, HandsOver, TypeOK, SourceRow
  <2>2. rows'[t][s].exists
    BY <2>0, DeliverRows
  <2> QED
    BY <1>a, <2>1, <2>2 DEF HandoffKeepsOwner, Deleted
<1>3. CASE Depart
  BY <1>3 DEF Depart, SettlePending, TurnShape, TypeOK, SourceRow, HandoffKeepsOwner
<1>4. CASE Rejoin
  BY <1>a, <1>4 DEF Rejoin, HandoffKeepsOwner, Deleted
<1>5. ASSUME NEW t \in Turns, Admit(t) \/ DeleteSource(t) PROVE HandoffKeepsOwner'
  <2>1. /\ epoch' = epoch
        /\ \A u \in Turns : source'[u].epoch = source[u].epoch \/ source[u].state = "none"
        /\ \A u \in Turns : u # t => source'[u] = source[u]
    <3>1. CASE Admit(t)
      BY <3>1 DEF Admit, TypeOK, SourceRow
    <3>2. CASE DeleteSource(t)
      BY <3>2 DEF DeleteSource, TypeOK, SourceRow
    <3> QED BY <1>5, <3>1, <3>2
  <2>2. \A u \in Turns : Deleted(u) => Deleted(u)'
    BY <1>5 DEF Admit, DeleteSource, Deleted, TypeOK
  <2>3. source'[t].state = "settled" => source'[t] = source[t] \/ Deleted(t)'
    <3>1. CASE Admit(t)
      BY <3>1 DEF Admit, Deleted, TypeOK, SourceRow
    <3>2. CASE DeleteSource(t)
      <4>1. redaction'[t] = {"callback", "tombstone"}
        BY <3>2 DEF DeleteSource, TypeOK
      <4> QED
        BY <4>1 DEF Deleted
    <3> QED
      BY <1>5, <3>1, <3>2
  <2> QED
    BY <1>a, <2>1, <2>2, <2>3 DEF HandoffKeepsOwner
<1> QED
  BY <1>1, <1>2, <1>3, <1>4, <1>5, MembershipSteps

-----------------------------------------------------------------------------
(* The inductive invariant, and what follows from it.                      *)

\* The invariant holds at the start, with every table empty.
LEMMA InitInv == Init => DeliveryInv
<1> SUFFICES ASSUME Init PROVE DeliveryInv
  OBVIOUS
<1>1. TypeOK
  BY InitTypeOK
<1>2. \A t \in Turns, s \in Stages : rows[t][s] = EmptyRow
  BY DEF Init
<1>3. \A p \in Processes, t \in Turns : task[p][t].pc = "idle"
  BY DEF Init, NoTask
<1>4. TaskMatchesRow /\ TaskShape
  BY <1>3 DEF TaskMatchesRow, TaskShape, ClaimedPcs, CleanPcs
<1>5. RowShape /\ OneMembershipPerTurn /\ UnattemptedIsCurrent
  BY <1>2 DEF RowShape, WellFormed, OneMembershipPerTurn, UnattemptedIsCurrent, EmptyRow
<1>6. TurnShape
  <2>0. epoch = 0 /\ source = [t \in Turns |-> [state |-> "none", epoch |-> 0]]
    BY DEF Init
  <2>a. \A t \in Turns : source[t].epoch = 0
    BY <2>0
  <2>1. \A t \in Turns : source[t].epoch <= epoch
    <3> epoch = 0 /\ 0 <= 0
      BY <2>0
    <3> QED
      BY <2>a
  <2>2. \A t \in Turns, s \in Stages : ~rows[t][s].exists
    BY <1>2 DEF EmptyRow
  <2>3. \A t \in Turns, p \in Processes : t \notin running[p]
    BY DEF Init
  <2> QED
    BY <2>1, <2>2, <2>3 DEF TurnShape
<1>7. RoomShowsRow
  BY DEF Init, RoomShowsRow, Absent
<1>8. RecordNamesAnswer /\ ShownIsAttempted /\ TranscriptIsCurrent /\ HandoffKeepsOwner
  BY DEF Init, RecordNamesAnswer, ShownIsAttempted, TranscriptIsCurrent, HandoffKeepsOwner
<1> QED
  BY <1>1, <1>4, <1>5, <1>6, <1>7, <1>8 DEF DeliveryInv

\* Every step preserves the invariant.
LEMMA NextInv == DeliveryInv /\ [Next]_vars => DeliveryInv'
BY NextType, NextTasks, NextRows, NextTurns, NextRoom, NextRecord, NextMembership,
   NextUnattempted, NextTranscript, NextHandoff DEF DeliveryInv

\* The inductive invariant holds throughout, for any number of processes,
\* turns, devices and memberships.
THEOREM Invariance == Spec => []DeliveryInv
BY InitInv, NextInv, PTL DEF Spec

\* Type correctness of the delivery state.
THEOREM TypeCorrect == Spec => []TypeOK
<1>1. DeliveryInv => TypeOK
  BY DEF DeliveryInv
<1> QED
  BY <1>1, Invariance, PTL

\* What a room shows of a delivery is what its frozen outbox row holds.
THEOREM RoomAgrees == Spec => []RoomShowsRow
<1>1. DeliveryInv => RoomShowsRow
  BY DEF DeliveryInv
<1> QED
  BY <1>1, Invariance, PTL

\* A turn record names the event its acknowledged outbox row names.
THEOREM RecordAgrees == Spec => []RecordNamesAnswer
<1>1. DeliveryInv => RecordNamesAnswer
  BY DEF DeliveryInv
<1> QED
  BY <1>1, Invariance, PTL

\* A turn's rows belong to one membership, the one that admitted the turn.
THEOREM MembershipAgrees == Spec => []OneMembershipPerTurn
<1>1. DeliveryInv => OneMembershipPerTurn
  BY DEF DeliveryInv
<1> QED
  BY <1>1, Invariance, PTL

\* No delivery of an ended membership is in the projected transcript.
THEOREM TranscriptAgrees == Spec => []TranscriptIsCurrent
<1>1. DeliveryInv => TranscriptIsCurrent
  BY DEF DeliveryInv
<1> QED
  BY <1>1, Invariance, PTL

\* Settling the sources of a turn never leaves the turn without an owner.
THEOREM HandoffSafe == Spec => []HandoffKeepsOwner
<1>1. DeliveryInv => HandoffKeepsOwner
  BY DEF DeliveryInv
<1> QED
  BY <1>1, Invariance, PTL

\* An acknowledgement, an attempt and a withdrawal are recorded for good.
THEOREM OutcomesStable == Spec => OutcomeIsStable
<1>1. DeliveryInv /\ [Next]_vars =>
        [\A t \in Turns, s \in Stages :
            /\ rows[t][s].acked # NoEvent => rows'[t][s].acked = rows[t][s].acked
            /\ rows[t][s].attempted => rows'[t][s].attempted
            /\ rows[t][s].retired => rows'[t][s].retired]_vars
  BY NextRows DEF DeliveryInv, Keeps
<1> QED
  BY <1>1, Invariance, PTL DEF Spec, OutcomeIsStable

\* Nothing is first offered to the homeserver for a membership that has ended.
THEOREM FenceHolds == Spec => NoAttemptAfterFence
<1>1. DeliveryInv /\ [Next]_vars =>
        [\A t \in Turns, s \in Stages :
            ~rows[t][s].attempted /\ rows'[t][s].attempted =>
                MembershipIsCurrent(rows[t][s].epoch)]_vars
  BY NextRows DEF DeliveryInv, Keeps, UnattemptedIsCurrent
<1> QED
  BY <1>1, Invariance, PTL DEF Spec, NoAttemptAfterFence
=============================================================================
