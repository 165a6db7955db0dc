--------------------------- MODULE Outbox_proofs ---------------------------
(***************************************************************************)
(* What every transaction on the outbox table preserves: the type of its   *)
(* columns, the shape of its rows, and what has once been recorded.        *)
(***************************************************************************)
EXTENDS Outbox, TLAPS

\* The absent row is a row.
LEMMA EmptyRowType == EmptyRow \in Row
BY DEF EmptyRow, Row

\* enqueue leaves a table of rows.
LEMMA EnqueueType ==
    ASSUME NEW r \in Table, NEW t \in Turns, NEW s \in Stages, NEW e \in Nat,
           NEW payload \in Payloads, NEW edits \in EventIds \cup {NoEvent},
           NEW failed \in BOOLEAN
    PROVE  Enqueue(r, t, s, e, payload, edits, failed) \in Table
<1> r[t][s] \in Row
  BY DEF Table
<1> QED
  BY DEF Table, Enqueue, Row

\* claim leaves a table of rows.
LEMMA ClaimType ==
    ASSUME NEW r \in Table, NEW t \in Turns, NEW s \in Stages,
           NEW d \in Devices \cup {NoDevice}
    PROVE  Claim(r, t, s, d) \in Table
<1> r[t][s] \in Row
  BY DEF Table
<1> QED
  BY EmptyRowType DEF Table, Claim, Row

\* record_matrix_delivery_device leaves a table of rows.
LEMMA RecordDeviceType ==
    ASSUME NEW r \in Table, NEW t \in Turns, NEW s \in Stages,
           NEW d \in Devices \cup {NoDevice}
    PROVE  RecordDevice(r, t, s, d) \in Table
<1> r[t][s] \in Row
  BY DEF Table
<1> QED
  BY DEF Table, RecordDevice, Row

\* acknowledge leaves a table of rows.
LEMMA AcknowledgeType ==
    ASSUME NEW r \in Table, NEW t \in Turns, NEW s \in Stages, NEW e \in EventIds
    PROVE  Acknowledge(r, t, s, e) \in Table
<1> r[t][s] \in Row
  BY DEF Table
<1> QED
  BY DEF Table, Acknowledge, Row

\* A refusal and both ways of retiring leave a table of rows.
LEMMA OutcomeType ==
    ASSUME NEW r \in Table, NEW t \in Turns, NEW s \in Stages
    PROVE  /\ RecordPermanentFailure(r, t, s) \in Table
           /\ Retire(r, t, s) \in Table
           /\ [r EXCEPT ![t][s].retired = TRUE] \in Table
<1> r[t][s] \in Row
  BY DEF Table
<1> QED
  BY DEF Table, RecordPermanentFailure, Retire, Row

\* Retiring a row leaves a row.
LEMMA RetiredRowType ==
    ASSUME NEW row \in Row
    PROVE  [row EXCEPT !.retired = TRUE] \in Row
BY DEF Row

\* The membership fence leaves a table of rows.
LEMMA RetireUnattemptedType ==
    ASSUME NEW r \in Table
    PROVE  RetireUnattempted(r) \in Table
<1> SUFFICES ASSUME NEW t \in Turns, NEW s \in Stages
             PROVE  RetireUnattempted(r)[t][s] \in Row
  BY DEF Table, RetireUnattempted
<1> r[t][s] \in Row
  BY DEF Table
<1> QED
  BY RetiredRowType DEF RetireUnattempted

-----------------------------------------------------------------------------
(* Rewriting one row.  The transactions below change one row of the table, *)
(* so what they preserve is a question about that row, before and after.   *)

\* What a rewritten row has to respect, for the table to keep what it records.
Respects(r, t, s, row) ==
    /\ r[t][s].attempted =>
            row.attempted /\ row.payload = r[t][s].payload /\ row.edits = r[t][s].edits
    /\ r[t][s].acked # NoEvent => row.acked = r[t][s].acked
    /\ r[t][s].retired => row.retired
    /\ s = "final" /\ r[t][s].exists => row.exists
    /\ row.attempted /\ ~r[t][s].attempted => r[t][s].exists /\ ~r[t][s].retired
    /\ row.attempted \/ row.failed \/ row.retired => row.exists
    /\ row.acked # NoEvent => row.attempted /\ Delivers(row.acked, t, s)
    /\ row.edits # NoEvent => s = "final" /\ row.edits = r[t]["initial"].acked

\* A rewrite that respects its row keeps what the whole table records.
LEMMA RewriteKeeps ==
    ASSUME NEW r \in Table, WellFormed(r), NEW t \in Turns, NEW s \in Stages, NEW row,
           Respects(r, t, s, row), NEW r1, r1 = [r EXCEPT ![t][s] = row]
    PROVE  Keeps(r, r1) /\ WellFormed(r1)
<1>1. r1[t][s] = row /\ \A x \in Turns, y \in Stages : x # t \/ y # s => r1[x][y] = r[x][y]
  BY DEF Table
<1>2. Keeps(r, r1)
  BY <1>1 DEF Keeps, Respects
<1>3. \A x \in Turns : r[x]["initial"].acked # NoEvent =>
        r1[x]["initial"].acked = r[x]["initial"].acked
  BY <1>2 DEF Keeps, Stages
<1>4. WellFormed(r1)
  BY <1>1, <1>3 DEF WellFormed, Stages, Respects
<1> QED
  BY <1>2, <1>4

\* Enqueueing forgets nothing: an attempted or refused row is left alone, and
\* a standing row that is not attempted has no outcome to lose.
LEMMA EnqueueKeeps ==
    ASSUME NEW r \in Table, WellFormed(r), NEW t \in Turns, NEW s \in Stages, NEW e \in Nat,
           NEW payload \in Payloads, NEW edits \in EventIds \cup {NoEvent},
           NEW failed,
           edits # NoEvent => s = "final" /\ edits = r[t]["initial"].acked,
           NEW r1, r1 = Enqueue(r, t, s, e, payload, edits, failed)
    PROVE  /\ Keeps(r, r1)
           /\ WellFormed(r1)
           /\ \A x \in Turns, y \in Stages : x # t \/ y # s => r1[x][y] = r[x][y]
           /\ r1[t][s].exists
           /\ r[t][s].attempted => r1 = r
           /\ r1 # r => r1[t][s].epoch = e
<1> DEFINE row == r[t][s]
           new == [row EXCEPT !.exists = TRUE, !.epoch = e, !.payload = payload,
                              !.edits = edits, !.failed = failed]
<1>1. CASE row.attempted \/ row.failed
  <2>1. r1 = r
    BY <1>1 DEF Enqueue
  <2>2. row.exists
    BY <1>1 DEF WellFormed
  <2>3. Keeps(r, r)
    BY DEF Keeps
  <2> QED
    BY <2>1, <2>2, <2>3
<1>2. CASE ~(row.attempted \/ row.failed)
  <2>1. r1 = [r EXCEPT ![t][s] = new]
    BY <1>2 DEF Enqueue, Table
  <2>2. row \in Row
    BY DEF Table
  <2>3. /\ new.exists /\ new.epoch = e /\ new.edits = edits
        /\ new.attempted = row.attempted /\ new.acked = row.acked
        /\ new.retired = row.retired
    <3> HIDE DEF row
    <3> QED
      BY <2>2 DEF Row
  <2>4. ~row.attempted /\ row.acked = NoEvent
    BY <1>2 DEF WellFormed
  <2> HIDE DEF new
  <2>5. Respects(r, t, s, new)
    BY <2>3, <2>4, <1>2 DEF Respects, WellFormed
  <2>6. Keeps(r, r1) /\ WellFormed(r1)
    BY <2>1, <2>5, RewriteKeeps
  <2> QED
    BY <2>1, <2>3, <2>4, <2>6 DEF Table
<1> QED
  BY <1>1, <1>2

\* Claiming stamps a standing row, or deletes a placeholder that was never
\* attempted because the answer is already there.
LEMMA ClaimKeeps ==
    ASSUME NEW r \in Table, WellFormed(r), NEW t \in Turns, NEW s \in Stages,
           NEW d \in Devices \cup {NoDevice}, NEW r1, r1 = Claim(r, t, s, d)
    PROVE  /\ Keeps(r, r1)
           /\ WellFormed(r1)
           /\ NoNewRows(r, r1)
           /\ ClaimGranted(r, t, s) => r1[t][s].attempted
                                     /\ r1[t][s].payload = r[t][s].payload
                                     /\ r1[t][s].edits = r[t][s].edits
<1> DEFINE row == r[t][s]
           new == [row EXCEPT !.attempted = TRUE, !.device = d]
<1>1. CASE ClaimSuperseded(r, t, s)
  <2>1. r1 = [r EXCEPT ![t][s] = EmptyRow]
    BY <1>1 DEF Claim
  <2>2. s = "initial" /\ ~row.attempted /\ ~row.retired /\ row.acked = NoEvent
    BY <1>1 DEF ClaimSuperseded, ClaimWithdrawn, WellFormed
  <2>3. /\ ~EmptyRow.exists /\ ~EmptyRow.attempted /\ ~EmptyRow.failed /\ ~EmptyRow.retired
        /\ EmptyRow.acked = NoEvent /\ EmptyRow.edits = NoEvent
    BY DEF EmptyRow
  <2> Respects(r, t, s, EmptyRow)
    BY <2>2, <2>3 DEF Respects
  <2>4. Keeps(r, r1) /\ WellFormed(r1)
    BY <2>1, RewriteKeeps
  <2>5. NoNewRows(r, r1)
    BY <2>1, <2>3 DEF NoNewRows, Table
  <2> QED
    BY <1>1, <2>4, <2>5 DEF ClaimGranted
<1>2. CASE ~ClaimSuperseded(r, t, s) /\ ClaimGranted(r, t, s) /\ ~row.attempted
  <2>1. r1 = [r EXCEPT ![t][s] = new]
    BY <1>2 DEF Claim, Table
  <2>2. row.exists /\ ~row.retired /\ ~row.failed
    BY <1>2 DEF ClaimGranted, ClaimWithdrawn
  <2>3. row \in Row
    BY DEF Table
  <2>4. /\ new.attempted /\ new.exists = row.exists /\ new.epoch = row.epoch
        /\ new.payload = row.payload /\ new.edits = row.edits /\ new.acked = row.acked
        /\ new.retired = row.retired /\ new.failed = row.failed /\ new \in Row
    <3> HIDE DEF row
    <3> QED
      BY <2>3 DEF Row
  <2> HIDE DEF new
  <2> Respects(r, t, s, new)
    BY <2>2, <2>4, <1>2 DEF Respects, WellFormed
  <2>5. Keeps(r, r1) /\ WellFormed(r1)
    BY <2>1, RewriteKeeps
  <2>6. NoNewRows(r, r1)
    BY <2>1, <2>4 DEF NoNewRows, Table
  <2> QED
    BY <2>1, <2>4, <2>5, <2>6 DEF Table
<1>3. CASE ~ClaimSuperseded(r, t, s) /\ ~(ClaimGranted(r, t, s) /\ ~row.attempted)
  <2>1. r1 = r
    BY <1>3 DEF Claim
  <2> QED
    BY <1>3, <2>1 DEF Keeps, NoNewRows
<1> QED
  BY <1>1, <1>2, <1>3

\* Setting an outcome column of a row leaves the others alone.
LEMMA SetDevice ==
    ASSUME NEW row \in Row, NEW d, NEW new, new = [row EXCEPT !.device = d]
    PROVE  /\ new.exists = row.exists /\ new.epoch = row.epoch /\ new.payload = row.payload
           /\ new.edits = row.edits /\ new.attempted = row.attempted
           /\ new.retired = row.retired /\ new.failed = row.failed /\ new.acked = row.acked
BY DEF Row

\* The same for a refusal.
LEMMA SetFailed ==
    ASSUME NEW row \in Row, NEW new, new = [row EXCEPT !.failed = TRUE]
    PROVE  /\ new.exists = row.exists /\ new.epoch = row.epoch /\ new.payload = row.payload
           /\ new.edits = row.edits /\ new.attempted = row.attempted
           /\ new.retired = row.retired /\ new.failed = TRUE /\ new.acked = row.acked
BY DEF Row

\* The same for a withdrawal.
LEMMA SetRetired ==
    ASSUME NEW row \in Row, NEW new, new = [row EXCEPT !.retired = TRUE]
    PROVE  /\ new.exists = row.exists /\ new.epoch = row.epoch /\ new.payload = row.payload
           /\ new.edits = row.edits /\ new.attempted = row.attempted
           /\ new.retired = TRUE /\ new.failed = row.failed /\ new.acked = row.acked
BY DEF Row

\* A rewrite that leaves the attempt, the content, the membership and the
\* acknowledgement of its row alone.
LEMMA OutcomeKeeps ==
    ASSUME NEW r \in Table, WellFormed(r), NEW t \in Turns, NEW s \in Stages, NEW row,
           r[t][s].exists,
           row.exists = r[t][s].exists, row.epoch = r[t][s].epoch,
           row.payload = r[t][s].payload, row.edits = r[t][s].edits,
           row.attempted = r[t][s].attempted,
           r[t][s].retired => row.retired,
           row.acked = r[t][s].acked,
           NEW r1, r1 = [r EXCEPT ![t][s] = row]
    PROVE  Keeps(r, r1) /\ WellFormed(r1) /\ NoNewRows(r, r1)
<1>1. Respects(r, t, s, row)
  BY DEF Respects, WellFormed
<1>2. Keeps(r, r1) /\ WellFormed(r1)
  BY <1>1, RewriteKeeps
<1>3. NoNewRows(r, r1)
  BY DEF NoNewRows, Table
<1> QED
  BY <1>2, <1>3

\* Recording the device of a send changes nothing else.
LEMMA RecordDeviceKeeps ==
    ASSUME NEW r \in Table, WellFormed(r), NEW t \in Turns, NEW s \in Stages,
           NEW d \in Devices \cup {NoDevice}, NEW r1, r1 = RecordDevice(r, t, s, d)
    PROVE  Keeps(r, r1) /\ WellFormed(r1) /\ NoNewRows(r, r1)
<1> DEFINE new == [r[t][s] EXCEPT !.device = d]
<1>1. CASE r[t][s].exists
  <2>1. r[t][s] \in Row
    BY DEF Table
  <2>2. r1 = [r EXCEPT ![t][s] = new]
    BY <1>1 DEF RecordDevice, Table
  <2>3. /\ new.exists = r[t][s].exists /\ new.epoch = r[t][s].epoch
        /\ new.payload = r[t][s].payload
        /\ new.edits = r[t][s].edits /\ new.attempted = r[t][s].attempted
        /\ new.retired = r[t][s].retired /\ new.acked = r[t][s].acked
    BY <2>1, SetDevice
  <2> HIDE DEF new
  <2> QED
    BY <1>1, <2>2, <2>3, OutcomeKeeps
<1>2. CASE ~r[t][s].exists
  BY <1>2 DEF RecordDevice, Keeps, NoNewRows
<1> QED
  BY <1>1, <1>2

\* The first acknowledgement of an attempted row binds it; a later one does
\* nothing.
LEMMA AcknowledgeKeeps ==
    ASSUME NEW r \in Table, WellFormed(r), NEW t \in Turns, NEW s \in Stages,
           NEW e \in EventIds, Delivers(e, t, s), r[t][s].attempted,
           NEW r1, r1 = Acknowledge(r, t, s, e)
    PROVE  Keeps(r, r1) /\ WellFormed(r1) /\ NoNewRows(r, r1)
<1> DEFINE row == r[t][s]
           new == [row EXCEPT !.acked = e, !.failed = FALSE]
<1>1. CASE AcknowledgeBinds(r, t, s)
  <2>1. row \in Row /\ row.exists /\ row.acked = NoEvent
    BY <1>1 DEF Table, AcknowledgeBinds
  <2>2. r1 = [r EXCEPT ![t][s] = new]
    BY <1>1 DEF Acknowledge, Table
  <2>3. /\ new.exists = row.exists /\ new.epoch = row.epoch /\ new.payload = row.payload
        /\ new.edits = row.edits /\ new.attempted = row.attempted
        /\ new.retired = row.retired /\ new.acked = e /\ ~new.failed
    <3> HIDE DEF row
    <3> QED
      BY <2>1 DEF Row
  <2> HIDE DEF new
  <2>4. Respects(r, t, s, new)
    BY <2>1, <2>3 DEF Respects, WellFormed
  <2> HIDE DEF row
  <2>5. Keeps(r, r1) /\ WellFormed(r1)
    BY <2>2, <2>4, RewriteKeeps
  <2>6. NoNewRows(r, r1)
    BY <2>1, <2>2, <2>3 DEF NoNewRows, Table, row
  <2> QED
    BY <2>5, <2>6
<1>2. CASE ~(AcknowledgeBinds(r, t, s))
  BY <1>2 DEF Acknowledge, Keeps, NoNewRows
<1> QED
  BY <1>1, <1>2

\* A permanent refusal closes a row that is still owed.
LEMMA RefuseKeeps ==
    ASSUME NEW r \in Table, WellFormed(r), NEW t \in Turns, NEW s \in Stages,
           NEW r1, r1 = RecordPermanentFailure(r, t, s)
    PROVE  Keeps(r, r1) /\ WellFormed(r1) /\ NoNewRows(r, r1)
<1> DEFINE new == [r[t][s] EXCEPT !.failed = TRUE]
<1>1. CASE Owed(r[t][s])
  <2>1. r[t][s] \in Row /\ r[t][s].exists
    BY <1>1 DEF Table, Owed, AcknowledgeBinds
  <2>2. r1 = [r EXCEPT ![t][s] = new]
    BY <1>1 DEF RecordPermanentFailure, Table
  <2>3. /\ new.exists = r[t][s].exists /\ new.epoch = r[t][s].epoch
        /\ new.payload = r[t][s].payload
        /\ new.edits = r[t][s].edits /\ new.attempted = r[t][s].attempted
        /\ new.retired = r[t][s].retired /\ new.acked = r[t][s].acked
    BY <2>1, SetFailed, ZenonT(60)
  <2> HIDE DEF new
  <2> QED
    BY <1>1, <2>1, <2>2, <2>3, OutcomeKeeps DEF AcknowledgeBinds
<1>2. CASE ~(Owed(r[t][s]))
  BY <1>2 DEF RecordPermanentFailure, Keeps, NoNewRows
<1> QED
  BY <1>1, <1>2

\* Retiring withdraws a row that has no outcome.
LEMMA RetireKeeps ==
    ASSUME NEW r \in Table, WellFormed(r), NEW t \in Turns, NEW s \in Stages,
           NEW r1, r1 = Retire(r, t, s)
    PROVE  Keeps(r, r1) /\ WellFormed(r1) /\ NoNewRows(r, r1)
<1> DEFINE new == [r[t][s] EXCEPT !.retired = TRUE]
<1>1. CASE AcknowledgeBinds(r, t, s)
  <2>1. r[t][s] \in Row /\ r[t][s].exists
    BY <1>1 DEF Table, Owed, AcknowledgeBinds
  <2>2. r1 = [r EXCEPT ![t][s] = new]
    BY <1>1 DEF Retire, Table
  <2>3. /\ new.exists = r[t][s].exists /\ new.epoch = r[t][s].epoch
        /\ new.payload = r[t][s].payload
        /\ new.edits = r[t][s].edits /\ new.attempted = r[t][s].attempted
        /\ new.retired = TRUE /\ new.acked = r[t][s].acked
    BY <2>1, SetRetired, ZenonT(60)
  <2> HIDE DEF new
  <2> QED
    BY <1>1, <2>1, <2>2, <2>3, OutcomeKeeps DEF AcknowledgeBinds
<1>2. CASE ~(AcknowledgeBinds(r, t, s))
  BY <1>2 DEF Retire, Keeps, NoNewRows
<1> QED
  BY <1>1, <1>2

\* Cleanup withdraws a placeholder whatever its outcome.
LEMMA RetireAnyKeeps ==
    ASSUME NEW r \in Table, WellFormed(r), NEW t \in Turns, NEW s \in Stages,
           NEW r1, r1 = IF r[t][s].exists
                            THEN [r EXCEPT ![t][s].retired = TRUE] ELSE r
    PROVE  Keeps(r, r1) /\ WellFormed(r1) /\ NoNewRows(r, r1)
<1> DEFINE new == [r[t][s] EXCEPT !.retired = TRUE]
<1>1. CASE r[t][s].exists
  <2>1. r[t][s] \in Row /\ r[t][s].exists
    BY <1>1 DEF Table, Owed, AcknowledgeBinds
  <2>2. r1 = [r EXCEPT ![t][s] = new]
    BY <1>1 DEF Table
  <2>3. /\ new.exists = r[t][s].exists /\ new.epoch = r[t][s].epoch
        /\ new.payload = r[t][s].payload
        /\ new.edits = r[t][s].edits /\ new.attempted = r[t][s].attempted
        /\ new.retired = TRUE /\ new.acked = r[t][s].acked
    BY <2>1, SetRetired, ZenonT(60)
  <2> HIDE DEF new
  <2> QED
    BY <1>1, <2>1, <2>2, <2>3, OutcomeKeeps, ZenonT(60) DEF AcknowledgeBinds
<1>2. CASE ~(r[t][s].exists)
  BY <1>2 DEF Keeps, NoNewRows
<1> QED
  BY <1>1, <1>2

\* The fence withdraws every standing row that was never attempted.
LEMMA FenceKeeps ==
    ASSUME NEW r \in Table, WellFormed(r), NEW r1, r1 = RetireUnattempted(r)
    PROVE  /\ Keeps(r, r1) /\ WellFormed(r1) /\ NoNewRows(r, r1)
           /\ \A t \in Turns, s \in Stages :
                r1[t][s].exists /\ ~r1[t][s].attempted => r1[t][s].retired
<1>1. ASSUME NEW t \in Turns, NEW s \in Stages
      PROVE  /\ r1[t][s].exists = r[t][s].exists /\ r1[t][s].epoch = r[t][s].epoch
             /\ r1[t][s].payload = r[t][s].payload
             /\ r1[t][s].edits = r[t][s].edits /\ r1[t][s].attempted = r[t][s].attempted
             /\ r1[t][s].failed = r[t][s].failed /\ r1[t][s].acked = r[t][s].acked
             /\ r[t][s].retired => r1[t][s].retired
             /\ r1[t][s].retired => r[t][s].retired \/ r[t][s].exists
             /\ r[t][s].exists /\ r[t][s].acked = NoEvent /\ ~r[t][s].attempted =>
                    r1[t][s].retired
  <2>1. r[t][s] \in Row
    BY DEF Table
  <2>2. CASE AcknowledgeBinds(r, t, s) /\ ~r[t][s].attempted
    <3>1. r1[t][s] = [r[t][s] EXCEPT !.retired = TRUE]
      BY <2>2 DEF RetireUnattempted
    <3> QED
      BY <2>1, <2>2, <3>1, SetRetired, ZenonT(60) DEF AcknowledgeBinds
  <2>3. CASE ~(AcknowledgeBinds(r, t, s) /\ ~r[t][s].attempted)
    <3>1. r1[t][s] = r[t][s]
      BY <2>3 DEF RetireUnattempted
    <3> QED
      BY <2>3, <3>1 DEF AcknowledgeBinds
  <2> QED
    BY <2>2, <2>3
<1>2. Keeps(r, r1) /\ NoNewRows(r, r1)
  BY <1>1 DEF Keeps, NoNewRows
<1>3. WellFormed(r1)
  BY <1>1 DEF WellFormed, Stages
<1>4. \A t \in Turns, s \in Stages :
        r1[t][s].exists /\ ~r1[t][s].attempted => r1[t][s].retired
  BY <1>1 DEF WellFormed
<1> QED
  BY <1>2, <1>3, <1>4
=============================================================================
