--------------------------- MODULE Questions_proofs ---------------------------
(***************************************************************************)
(* A prompt is acted upon once and as it was asked, frozen choices stay    *)
(* usable, and no answer outruns its prompt, for any number of revisions,  *)
(* answers, memberships and failures.                                      *)
(***************************************************************************)
EXTENDS Questions, TLAPS, WellFoundedInduction

-----------------------------------------------------------------------------
(* The inductive invariant.                                                *)

\* What the rows and the room say of each other: a row is of a membership that
\* has begun, the room has only what was sent, an edit follows its original.
RowShape ==
    \A v \in Revisions :
        /\ row[v].epoch <= epoch /\ (fenced => row[v] = NoRow \/ row[v].epoch < epoch)
        /\ room[v] # "absent" => row[v].state \in {"attempted", "acked"}
        /\ row[v].state = "acked" => room[v] # "absent"
        /\ IsEdit(v) /\ row[v].state # "none" =>
               row[Of[v]].state = "acked" /\ row[Of[v]].epoch = row[v].epoch

\* A tombstone and a redaction on its way are of a redacted revision, and a debt
\* is of a visible message.
RedactionShape ==
    /\ \A v \in tombs : room[v] = "redacted"
    /\ \A i \in DOMAIN stream : stream[i].kind = "redaction" => room[stream[i].of] = "redacted"
    /\ \A m \in owes : visible[m] # 0

\* An answer on its way is there once and has not been admitted, and an answer
\* that has not been admitted has done nothing.
AnswerShape ==
    /\ \A i \in DOMAIN stream : stream[i].kind = "answer" => journal[stream[i].of].state = "none"
    /\ \A i, j \in DOMAIN stream : stream[i].kind = "answer" /\ stream[i] = stream[j] => i = j
    /\ \A s \in Answers : journal[s].state = "none" => acted[s] = {}
    /\ \A s \in Answers : choice[s] # 0 => choice[s] = asked[s]

\* A recorded prompt is of this membership, was sent and has not been erased.
QuestionShape ==
    \A v \in Revisions : question[v] # "none" =>
        /\ row[v].state \in {"attempted", "acked"} /\ MembershipIsCurrent(row[v].epoch)
        /\ room[v] # "absent" /\ v \notin tombs /\ visible[Of[v]] # 0

\* Why the prompt v cannot be recorded again.
Erased(v) ==
    \/ row[v].epoch < epoch
    \/ v \in tombs
    \/ visible[Of[v]] = 0 /\ room[Of[v]] = "redacted"

\* A prompt that was acted upon stays taken, or is gone for good.
Spent ==
    \A s \in Answers : \A v \in acted[s] :
        /\ row[v].state # "none"
        /\ question[v] = s \/ (question[v] = "none" /\ Erased(v))

\* The projection knows every acknowledged revision that the room shows.
AckedIsVisible ==
    \A v \in Revisions :
        room[v] = "shown" /\ room[Of[v]] = "shown" /\ row[v].state = "acked" /\ row[v].epoch = epoch
            => visible[Of[v]] >= v

\* The inductive invariant: what is to be shown and what it rests on.
IInv ==
    /\ QuestionsInv
    /\ RowShape /\ RedactionShape /\ AnswerShape /\ QuestionShape /\ Spent /\ AckedIsVisible

-----------------------------------------------------------------------------
(* The newest of some revisions.                                           *)

\* A set of revisions that is not empty has a newest one, which Max chooses.
LEMMA MaxRevisionOf ==
    ASSUME NEW S \in SUBSET Revisions, S # {}
    PROVE  Max(S) \in S /\ \A v \in S : Max(S) >= v
<1> DEFINE T == {MaxRevision - v : v \in S}
           Less == {p \in Nat \X Nat : p[1] < p[2]}
<1>1. MaxRevision \in Nat /\ Revisions = 1..MaxRevision
  BY QuestionsAssumption DEF Revisions
<1>2. T \subseteq Nat /\ T # {}
  BY <1>1
<1>3. IsWellFoundedOn(Less, Nat)
  BY NatLessThanWellFounded DEF OpToRel
<1>4. PICK x \in T : \A y \in T : ~(<<y, x>> \in Less)
  <2> HIDE DEF T, Less
  <2> QED BY <1>2, <1>3, WFMin
<1>5. PICK v \in S : x = MaxRevision - v
  BY <1>4
<1>6. \A u \in S : v >= u
  <2> TAKE u \in S
  <2>1. ~(<<MaxRevision - u, x>> \in Less)
    BY <1>4
  <2> QED BY <1>1, <1>2, <1>5, <2>1
<1> QED BY <1>6 DEF Max

\* Revisions are counted from one.
LEMMA RevisionsCount == \A v \in Revisions : v \in Nat /\ v > 0
BY QuestionsAssumption DEF Revisions

\* What the constants say of a revision and its message.
LEMMA OfFacts ==
    /\ Revisions \subseteq Nat \ {0}
    /\ Messages \subseteq Revisions
    /\ \A v \in Revisions : Of[v] \in Messages /\ Of[v] <= v /\ Of[Of[v]] = Of[v]
    /\ \A m \in Messages : Of[m] = m
BY QuestionsAssumption DEF Revisions, Messages

\* What is frozen for an answer is nothing, or an open prompt that is shown.
LEMMA SnapshotIsActive ==
    ASSUME NEW s \in Answers, Snapshot(s) # 0
    PROVE  Snapshot(s) \in Active
<1> DEFINE fitting == {v \in Candidates(s) : <<s, v>> \in Fits}
<1>1. fitting \subseteq Active /\ Active \subseteq Revisions
  BY DEF Candidates, Active
<1>2. fitting # {} /\ Snapshot(s) = Max(fitting)
  BY DEF Snapshot
<1>3. Max(fitting) \in fitting
  <2> HIDE DEF fitting
  <2> QED BY <1>1, <1>2, MaxRevisionOf
<1> QED BY <1>1, <1>2, <1>3

-----------------------------------------------------------------------------
(* Types.                                                                  *)

RowType == [state : {"none", "attempted", "acked", "failed", "retired"}, epoch : 0..MaxEpoch]
EntryType == [state : {"none", "pending", "settled"}, consumer : {"none", "interactive", "hooks"},
              epoch : 0..MaxEpoch]
EventType == [kind : {"answer"}, of : Answers] \cup [kind : {"redaction"}, of : Revisions]

\* The first event of the stream, which an admission is about.
LEMMA StreamFirst ==
    ASSUME TypeOK, stream # <<>>
    PROVE  /\ 1 \in DOMAIN stream
           /\ stream[1].kind = "answer" => stream[1].of \in Answers
           /\ stream[1].kind = "redaction" => stream[1].of \in Revisions
<1>1. stream \in Seq(EventType)
  BY DEF TypeOK, EventType
<1>2. 1 \in DOMAIN stream /\ stream[1] \in EventType
  BY <1>1
<1> QED BY <1>2 DEF EventType

\* The outbox keeps its type when the state of a row is written.
LEMMA StateType ==
    ASSUME TypeOK, NEW v \in Revisions, NEW q \in {"acked", "failed", "retired"},
           row' = [row EXCEPT ![v].state = q]
    PROVE  row' \in [Revisions -> RowType]
<1>1. row \in [Revisions -> RowType]
  BY DEF TypeOK, RowType
<1> QED BY <1>1 DEF RowType

\* The journal keeps its type when a consumer is written to it.
LEMMA ConsumerType ==
    ASSUME TypeOK, NEW s \in Answers, NEW c \in {"interactive", "hooks"},
           journal' = [journal EXCEPT ![s].consumer = IF s \in Reacts THEN c ELSE @]
    PROVE  journal' \in [Answers -> EntryType]
<1>1. journal \in [Answers -> EntryType]
  BY DEF TypeOK, EntryType
<1>2. PICK d \in {"none", "interactive", "hooks"} : journal' = [journal EXCEPT ![s].consumer = d]
  BY <1>1 DEF EntryType
<1> QED BY <1>1, <1>2 DEF EntryType

\* So does it when an entry is settled.
LEMMA SettledEntry ==
    ASSUME NEW e \in EntryType
    PROVE  [e EXCEPT !.state = "settled", !.consumer = "none"] \in EntryType
<1>1. [e EXCEPT !.state = "settled"] \in EntryType
  BY DEF EntryType
<1> QED BY <1>1 DEF EntryType

\* Every step keeps the types.
LEMMA TypeStep ==
    ASSUME TypeOK, [Next]_vars
    PROVE  TypeOK'
<1> USE QuestionsAssumption, OfFacts
<1>1. ASSUME NEW v \in Revisions, Ask(v) PROVE TypeOK'
  BY <1>1 DEF TypeOK, Ask, projection, history
<1>2. ASSUME NEW v \in Revisions, Accept(v) PROVE TypeOK'
  BY <1>2 DEF TypeOK, Accept, projection, history
<1>3. ASSUME NEW v \in Revisions, Acknowledge(v) PROVE TypeOK'
  <2>1. row' \in [Revisions -> RowType]
    BY <1>3, StateType DEF Acknowledge
  <2>2. /\ visible \in [Messages -> {0} \cup Revisions] /\ owes \subseteq Messages
        /\ question \in [Revisions -> {"none", "open"} \cup Answers]
    BY DEF TypeOK
  <2>3. /\ visible' \in [Messages -> {0} \cup Revisions] /\ owes' \subseteq Messages
        /\ question' \in [Revisions -> {"none", "open"} \cup Answers] /\ UNCHANGED <<tombs, choice>>
    BY <1>3, <2>2 DEF Acknowledge, Projected, Recorded, projection
  <2> QED BY <1>3, <2>1, <2>3 DEF TypeOK, RowType, Acknowledge, history
<1>4. ASSUME NEW v \in Revisions, Refuse(v) PROVE TypeOK'
  <2>1. PICK q \in {"failed", "retired"} : row' = [row EXCEPT ![v].state = q]
    BY <1>4 DEF Refuse
  <2>2. row' \in [Revisions -> RowType]
    BY <2>1, StateType
  <2>3. troubles' \in 0..MaxTroubles
    BY <1>4 DEF TypeOK, Refuse, Trouble
  <2> QED BY <1>4, <2>2, <2>3 DEF TypeOK, RowType, Refuse, projection, history
<1>5. ASSUME NEW v \in Revisions, Echo(v) PROVE TypeOK'
  BY <1>5 DEF TypeOK, Echo, Projected, Recorded, history
<1>6. ASSUME NEW v \in Revisions, Redact(v) PROVE TypeOK'
  BY <1>6 DEF TypeOK, Redact, Trouble, projection, history
<1>7. ASSUME NEW m \in Messages, Refetch(m) PROVE TypeOK'
  <2> DEFINE left == {v \in RevisionsOf(m) : room[v] = "shown" /\ Projects(v)}
  <2>1. left # {} => Max(left) \in Revisions
    <3>1. left \subseteq Revisions
      BY DEF RevisionsOf
    <3> HIDE DEF left
    <3> QED BY <3>1, MaxRevisionOf
  <2>2. CASE room[m] = "shown" /\ left # {}
    <3> HIDE DEF left
    <3>1. visible' = [visible EXCEPT ![m] = Max(left)] /\ question' = Recorded(Max(left)) /\ UNCHANGED choice
      BY <1>7, <2>2 DEF Refetch, left
    <3> QED BY <1>7, <2>1, <2>2, <3>1 DEF TypeOK, Refetch, Recorded, history
  <2>3. CASE ~(room[m] = "shown" /\ left # {})
    <3>1. visible' = [visible EXCEPT ![m] = 0] /\ Forget(RevisionsOf(m))
      BY <1>7, <2>3 DEF Refetch
    <3> QED BY <1>7, <3>1 DEF TypeOK, Refetch, Forget, history
  <2> QED BY <2>2, <2>3
<1>8. ASSUME NEW s \in Answers, Answer(s) PROVE TypeOK'
  BY <1>8 DEF TypeOK, Answer, projection, history
<1>9. ASSUME NEW s \in Answers, Claim(s) PROVE TypeOK'
  <2>1. choice[s] \in Revisions
    BY <1>9 DEF TypeOK, Claim, Takes
  <2>2. journal' \in [Answers -> EntryType]
    BY <1>9, ConsumerType DEF Claim
  <2>3. /\ question' \in [Revisions -> {"none", "open"} \cup Answers]
        /\ choice' \in [Answers -> {0} \cup Revisions]
        /\ acted' \in [Answers -> SUBSET Revisions]
        /\ run' \in [Answers -> {"idle", "selection", "other"}]
    BY <1>9, <2>1 DEF TypeOK, Claim
  <2> QED BY <1>9, <2>2, <2>3 DEF TypeOK, EntryType, Claim
<1>10. ASSUME NEW s \in Answers, Pass(s) PROVE TypeOK'
  <2>1. journal' \in [Answers -> EntryType]
    BY <1>10, ConsumerType DEF Pass
  <2> QED BY <1>10, <2>1 DEF TypeOK, EntryType, Pass, projection, history
<1>11. ASSUME NEW s \in Answers, Ignore(s) \/ Finish(s) \/ Fail(s) PROVE TypeOK'
  <2>1. \/ journal' = journal
        \/ journal' = [journal EXCEPT ![s] = [@ EXCEPT !.state = "settled", !.consumer = "none"]]
    BY <1>11 DEF Ignore, Finish, Fail, Settled
  <2>2. journal' \in [Answers -> EntryType]
    <3>1. journal \in [Answers -> EntryType]
      BY DEF TypeOK, EntryType
    <3>2. [journal[s] EXCEPT !.state = "settled", !.consumer = "none"] \in EntryType
      BY <3>1, SettledEntry
    <3> QED BY <2>1, <3>1, <3>2
  <2>3. choice' \in [Answers -> {0} \cup Revisions] /\ run' \in [Answers -> {"idle", "selection", "other"}]
    <3>1. choice \in [Answers -> {0} \cup Revisions] /\ run \in [Answers -> {"idle", "selection", "other"}]
      BY DEF TypeOK
    <3>2. choice' = choice \/ choice' = [choice EXCEPT ![s] = 0]
      BY <1>11 DEF Ignore, Finish, Fail, Settled, projection
    <3>3. run' = run \/ run' = [run EXCEPT ![s] = "idle"]
      BY <1>11 DEF Ignore, Finish, Fail
    <3> QED BY <3>1, <3>2, <3>3
  <2>4. troubles' \in 0..MaxTroubles
    BY <1>11 DEF TypeOK, Ignore, Finish, Fail, Trouble
  <2> QED
    BY <1>11, <2>2, <2>3, <2>4, ZenonT(60) DEF TypeOK, EntryType, Ignore, Finish, Fail, projection, history
<1>12. CASE AdmitAnswer
  <2>1. PICK s \in Answers : s = stream[1].of /\ stream # <<>>
    BY <1>12, StreamFirst DEF AdmitAnswer, Foremost
  <2>2. Snapshot(s) \in {0} \cup Revisions
    BY <2>1, SnapshotIsActive DEF Active
  <2>3. stream' \in Seq([kind : {"answer"}, of : Answers] \cup [kind : {"redaction"}, of : Revisions])
    BY <1>12, <2>1 DEF AdmitAnswer, TypeOK
  <2> QED BY <1>12, <2>1, <2>2, <2>3 DEF TypeOK, AdmitAnswer
<1>13. CASE AdmitRedaction
  <2>1. PICK v \in Revisions : v = stream[1].of /\ stream # <<>>
    BY <1>13, StreamFirst DEF AdmitRedaction, Foremost
  <2>2. stream' \in Seq([kind : {"answer"}, of : Answers] \cup [kind : {"redaction"}, of : Revisions])
    BY <1>13, <2>1 DEF AdmitRedaction, TypeOK
  <2>3. /\ visible' \in [Messages -> {0} \cup Revisions] /\ owes' \subseteq Messages
        /\ tombs' \subseteq Revisions
    <3>1. /\ visible \in [Messages -> {0} \cup Revisions] /\ owes \subseteq Messages
          /\ tombs \subseteq Revisions
      BY DEF TypeOK
    <3>2. Of[v] \in Messages /\ (~IsEdit(v) => v \in Messages)
      BY <2>1 DEF IsEdit
    <3>3. tombs' = tombs \cup {v}
      BY <1>13, <2>1 DEF AdmitRedaction
    <3>4. visible' = visible \/ (v \in Messages /\ visible' = [visible EXCEPT ![v] = 0])
      BY <1>13, <2>1, <3>2 DEF AdmitRedaction
    <3>5. owes' \in {owes, owes \ {v}, owes \cup {Of[v]}}
      BY <1>13, <2>1 DEF AdmitRedaction
    <3> QED BY <2>1, <3>1, <3>2, <3>3, <3>4, <3>5
  <2>4. /\ question' \in [Revisions -> {"none", "open"} \cup Answers]
        /\ choice' \in [Answers -> {0} \cup Revisions]
    BY <1>13 DEF TypeOK, AdmitRedaction, Forget
  <2> QED BY <1>13, <2>2, <2>3, <2>4 DEF TypeOK, AdmitRedaction, history
<1>14. CASE Barrier \/ Retry \/ ScheduleRecovery \/ PassEnds
  BY <1>14, ZenonT(60) DEF TypeOK, Barrier, Retry, ScheduleRecovery, PassEnds, projection, history
<1>15. CASE Depart
  <2>1. journal' \in [Answers -> EntryType]
    <3>1. journal \in [Answers -> EntryType]
      BY DEF TypeOK, EntryType
    <3>2. \A s \in Answers : [journal[s] EXCEPT !.state = "settled", !.consumer = "none"] \in EntryType
      BY <3>1, SettledEntry
    <3> QED BY <1>15, <3>1, <3>2 DEF Depart
  <2>2. /\ question' \in [Revisions -> {"none", "open"} \cup Answers]
        /\ choice' \in [Answers -> {0} \cup Revisions]
    BY <1>15 DEF TypeOK, Depart, Forget
  <2>3. epoch' \in 0..MaxEpoch /\ fenced' \in BOOLEAN
    <3>1. epoch \in 0..MaxEpoch /\ MaxEpoch \in Nat
      BY DEF TypeOK
    <3>2. epoch < MaxEpoch /\ epoch' = epoch + 1 /\ fenced' = TRUE
      BY <1>15 DEF Depart
    <3> QED BY <3>1, <3>2
  <2>4. visible' \in [Messages -> {0} \cup Revisions] /\ owes' \subseteq Messages /\ tombs' \subseteq Revisions
    BY <1>15 DEF Depart
  <2> QED BY <1>15, <2>1, <2>2, <2>3, <2>4 DEF TypeOK, EntryType, Depart, history
<1>16. CASE Rejoin
  BY <1>16 DEF TypeOK, Rejoin, projection, history
<1>17. CASE Crash
  BY <1>17 DEF TypeOK, Crash, Quiet, Trouble, projection, history
<1>18. CASE UNCHANGED vars
  BY <1>18 DEF TypeOK, vars, projection, history
<1> QED
  BY <1>1, <1>2, <1>3, <1>4, <1>5, <1>6, <1>7, <1>8, <1>9, <1>10, <1>11, <1>12, <1>13, <1>14,
     <1>15, <1>16, <1>17, <1>18 DEF Next, Delivering, Running, Admitting

-----------------------------------------------------------------------------
(* Rows, the room and redactions.                                          *)

\* The rest of a step leaves the rows, the room and the membership alone.
LEMMA RowFrame ==
    ASSUME [Next]_vars, ~Depart, ~Rejoin,
           \A v \in Revisions : ~(Ask(v) \/ Delivering(v) \/ Refuse(v) \/ Redact(v))
    PROVE  UNCHANGED <<row, room, epoch, fenced>>
<1>1. CASE \E v \in Revisions : Echo(v)
  BY <1>1 DEF Echo
<1>2. CASE \E m \in Messages : Refetch(m)
  BY <1>2 DEF Refetch
<1>3. CASE \E s \in Answers : Answer(s) \/ Running(s) \/ Fail(s)
  BY <1>3 DEF Answer, Running, Claim, Pass, Ignore, Finish, Fail
<1>4. CASE Admitting \/ ScheduleRecovery \/ PassEnds \/ Crash
  BY <1>4 DEF Admitting, AdmitAnswer, AdmitRedaction, Barrier, Retry, ScheduleRecovery, PassEnds, Crash
<1>5. CASE UNCHANGED vars
  BY <1>5 DEF vars
<1> QED BY <1>1, <1>2, <1>3, <1>4, <1>5 DEF Next

\* Rows, the room and the membership stay consistent.
LEMMA RowStep ==
    ASSUME IInv, [Next]_vars
    PROVE  RowShape'
<1> USE QuestionsAssumption, OfFacts
<1>0. /\ row \in [Revisions -> RowType] /\ epoch \in Nat /\ fenced \in BOOLEAN
      /\ room \in [Revisions -> {"absent", "shown", "redacted"}] /\ RowShape
  BY DEF IInv, QuestionsInv, TypeOK, RowType
<1>1. ASSUME NEW v \in Revisions, Ask(v) PROVE RowShape'
  <2>1. row' = [row EXCEPT ![v] = [state |-> "attempted", epoch |-> epoch]] /\ UNCHANGED <<room, epoch, fenced>>
    BY <1>1 DEF Ask
  <2>2. ~fenced /\ row[v] = NoRow /\ (IsEdit(v) => row[Of[v]] = [state |-> "acked", epoch |-> epoch])
    BY <1>1 DEF Ask
  <2> QED BY <1>0, <2>1, <2>2 DEF RowShape, RowType, NoRow, IsEdit
<1>2. ASSUME NEW v \in Revisions, Accept(v) \/ Redact(v) PROVE RowShape'
  <2>1. UNCHANGED <<row, epoch, fenced>> /\ row[v].state \in {"attempted", "acked"}
    BY <1>0, <1>2 DEF Accept, Redact, RowShape
  <2>2. \E q \in {"shown", "redacted"} : room' = [room EXCEPT ![v] = q]
    BY <1>2 DEF Accept, Redact
  <2> QED BY <1>0, <2>1, <2>2 DEF RowShape, RowType, NoRow
<1>3. ASSUME NEW v \in Revisions, Acknowledge(v) \/ Refuse(v) PROVE RowShape'
  <2>1. UNCHANGED <<room, epoch, fenced>> /\ row[v].state = "attempted"
    BY <1>3 DEF Acknowledge, Refuse
  <2>2. PICK q \in {"acked", "failed", "retired"} :
            row' = [row EXCEPT ![v].state = q] /\ (q = "acked" <=> room[v] # "absent")
    BY <1>3 DEF Acknowledge, Refuse
  <2>3. \A u \in Revisions : /\ row'[u].epoch = row[u].epoch
                             /\ u # v => row'[u] = row[u]
    BY <1>0, <2>2 DEF RowType
  <2>4. row'[v].state = q
    BY <1>0, <2>2 DEF RowType
  <2>5. \A u \in Revisions : IsEdit(u) /\ row[u].state # "none" => Of[u] # v
    BY <1>0, <2>1 DEF RowShape
  <2> QED BY <1>0, <2>1, <2>2, <2>3, <2>4, <2>5 DEF RowShape, NoRow
<1>4. CASE Depart \/ Rejoin
  <2>1. UNCHANGED <<row, room>> /\ ((epoch' = epoch /\ ~fenced') \/ epoch' = epoch + 1)
    BY <1>4 DEF Depart, Rejoin
  <2>2. epoch <= epoch' /\ (fenced' => epoch < epoch')
    BY <1>0, <2>1
  <2>3. ASSUME NEW v \in Revisions
        PROVE  row'[v].epoch <= epoch' /\ (fenced' => row'[v].epoch < epoch')
    <3>1. row[v] \in RowType
      BY <1>0
    <3>2. row[v].epoch \in Nat
      BY <3>1 DEF RowType
    <3>3. row'[v] = row[v] /\ row[v].epoch <= epoch
      BY <1>0, <2>1 DEF RowShape
    <3>4. epoch' \in Nat
      BY <1>0, <2>1
    <3> QED BY <1>0, <2>2, <3>2, <3>3, <3>4
  <2> QED BY <1>0, <2>1, <2>3 DEF RowShape
<1>5. CASE UNCHANGED <<row, room, epoch, fenced>>
  BY <1>0, <1>5 DEF RowShape
<1> QED BY <1>1, <1>2, <1>3, <1>4, <1>5, RowFrame DEF Delivering

-----------------------------------------------------------------------------
(* The stream and the projection, one step at a time.                      *)

\* What is left of the stream when its first event has been admitted.
LEMMA StreamPops ==
    ASSUME TypeOK, stream # <<>>, stream' = Tail(stream)
    PROVE  \A i \in DOMAIN stream' : /\ i \in Nat /\ i + 1 \in DOMAIN stream /\ i + 1 # 1
                                     /\ stream'[i] = stream[i + 1]
<1>1. stream \in Seq(EventType)
  BY DEF TypeOK, EventType
<1>2. /\ Len(stream) \in Nat \ {0} /\ Len(stream') = Len(stream) - 1
      /\ DOMAIN stream' = 1..Len(stream') /\ DOMAIN stream = 1..Len(stream)
      /\ \A i \in 1..Len(stream') : stream'[i] = stream[i + 1]
  BY <1>1
<1> QED BY <1>2

\* The stream when an event was appended.
LEMMA StreamGrows ==
    ASSUME TypeOK, NEW e \in EventType, stream' = Append(stream, e)
    PROVE  \A i \in DOMAIN stream' : \/ i \in DOMAIN stream /\ stream'[i] = stream[i]
                                     \/ i \notin DOMAIN stream /\ i = Len(stream) + 1 /\ stream'[i] = e
<1>1. stream \in Seq(EventType)
  BY DEF TypeOK, EventType
<1>2. /\ Len(stream) \in Nat /\ Len(stream') = Len(stream) + 1
      /\ DOMAIN stream' = 1..Len(stream') /\ DOMAIN stream = 1..Len(stream)
      /\ \A i \in 1..Len(stream) : stream'[i] = stream[i]
      /\ stream'[Len(stream) + 1] = e
  BY <1>1
<1> QED BY <1>2

\* A refetch shows the newest revision that may be shown, or finds that the
\* original may not be.
LEMMA RefetchShows ==
    ASSUME NEW m \in Messages, Refetch(m)
    PROVE  \/ \E v \in RevisionsOf(m) :
                  /\ room[m] = "shown" /\ room[v] = "shown" /\ Projects(v)
                  /\ \A u \in RevisionsOf(m) : room[u] = "shown" /\ Projects(u) => u <= v
                  /\ visible' = [visible EXCEPT ![m] = v] /\ question' = Recorded(v) /\ choice' = choice
           \/ /\ ~(room[m] = "shown" /\ Projects(m))
              /\ visible' = [visible EXCEPT ![m] = 0] /\ Forget(RevisionsOf(m))
<1> DEFINE left == {v \in RevisionsOf(m) : room[v] = "shown" /\ Projects(v)}
<1>1. left \subseteq Revisions
  BY DEF RevisionsOf
<1>2. CASE room[m] = "shown" /\ left # {}
  <2>1. Max(left) \in left /\ \A u \in left : Max(left) >= u
    <3> HIDE DEF left
    <3> QED BY <1>1, <1>2, MaxRevisionOf
  <2>2. \A u \in left : u <= Max(left)
    BY <1>1, <2>1, OfFacts
  <2>3. visible' = [visible EXCEPT ![m] = Max(left)] /\ question' = Recorded(Max(left)) /\ UNCHANGED choice
    BY <1>2 DEF Refetch
  <2> QED BY <1>2, <2>1, <2>2, <2>3
<1>3. CASE ~(room[m] = "shown" /\ left # {})
  <2>1. visible' = [visible EXCEPT ![m] = 0] /\ Forget(RevisionsOf(m))
    BY <1>3 DEF Refetch
  <2>2. m \in RevisionsOf(m)
    BY OfFacts DEF RevisionsOf
  <2> QED BY <1>3, <2>1, <2>2
<1> QED BY <1>2, <1>3

\* The rest of a step leaves the projection of messages alone.
LEMMA ProjectionFrame ==
    ASSUME [Next]_vars, ~Depart, ~AdmitRedaction,
           \A v \in Revisions : ~(Acknowledge(v) \/ Echo(v)),
           \A m \in Messages : ~Refetch(m)
    PROVE  /\ UNCHANGED <<visible, owes, tombs>>
           /\ (\A s \in Answers : ~Claim(s)) => UNCHANGED question
<1>1. CASE \E v \in Revisions : Ask(v) \/ Accept(v) \/ Refuse(v) \/ Redact(v)
  BY <1>1 DEF Ask, Accept, Refuse, Redact, projection
<1>2. CASE \E s \in Answers : Answer(s) \/ Running(s) \/ Fail(s)
  BY <1>2 DEF Answer, Running, Claim, Pass, Ignore, Finish, Fail, projection
<1>3. CASE AdmitAnswer \/ Barrier \/ Retry \/ ScheduleRecovery \/ PassEnds \/ Rejoin \/ Crash
  BY <1>3 DEF AdmitAnswer, Barrier, Retry, ScheduleRecovery, PassEnds, Rejoin, Crash, projection
<1>4. CASE UNCHANGED vars
  BY <1>4 DEF vars, projection
<1> QED BY <1>1, <1>2, <1>3, <1>4 DEF Next, Delivering, Admitting

\* The rest of a step leaves the stream alone.
LEMMA StreamFrame ==
    ASSUME [Next]_vars, ~AdmitRedaction, ~AdmitAnswer,
           \A v \in Revisions : ~Redact(v),
           \A s \in Answers : ~Answer(s)
    PROVE  UNCHANGED stream
<1>1. CASE \E v \in Revisions : Ask(v) \/ Delivering(v) \/ Refuse(v) \/ Echo(v)
  BY <1>1 DEF Ask, Delivering, Accept, Acknowledge, Refuse, Echo
<1>2. CASE \E m \in Messages : Refetch(m)
  BY <1>2 DEF Refetch
<1>3. CASE \E s \in Answers : Running(s) \/ Fail(s)
  BY <1>3 DEF Running, Claim, Pass, Ignore, Finish, Fail
<1>4. CASE Barrier \/ Retry \/ ScheduleRecovery \/ PassEnds \/ Depart \/ Rejoin \/ Crash
  BY <1>4 DEF Barrier, Retry, ScheduleRecovery, PassEnds, Depart, Rejoin, Crash
<1>5. CASE UNCHANGED vars
  BY <1>5 DEF vars
<1> QED BY <1>1, <1>2, <1>3, <1>4, <1>5 DEF Next, Admitting

\* A redaction stands: what was redacted is not shown again.
LEMMA RedactionStands ==
    ASSUME IInv, [Next]_vars, NEW v \in Revisions, room[v] = "redacted"
    PROVE  room'[v] = "redacted"
<1>1. room \in [Revisions -> {"absent", "shown", "redacted"}]
  BY DEF IInv, QuestionsInv, TypeOK
<1>2. ASSUME NEW u \in Revisions, Ask(u) \/ Delivering(u) \/ Refuse(u) \/ Redact(u)
      PROVE  room'[v] = "redacted"
  BY <1>1, <1>2 DEF Ask, Delivering, Accept, Acknowledge, Refuse, Redact
<1>3. CASE Depart \/ Rejoin
  BY <1>3 DEF Depart, Rejoin
<1> QED BY <1>2, <1>3, RowFrame

\* Tombstones, redactions on their way and debts stay consistent with the room.
LEMMA RedactionStep ==
    ASSUME IInv, [Next]_vars
    PROVE  RedactionShape'
<1> USE OfFacts
<1>0. TypeOK /\ TypeOK' /\ RedactionShape
  BY TypeStep DEF IInv, QuestionsInv
<1>1. \A v \in tombs' : room'[v] = "redacted"
  <2>1. CASE AdmitRedaction
    <3>1. stream # <<>> /\ stream[1].kind = "redaction" /\ tombs' = tombs \cup {stream[1].of}
      BY <2>1 DEF AdmitRedaction, Foremost
    <3> QED BY <1>0, <3>1, StreamFirst, RedactionStands DEF RedactionShape, TypeOK
  <2>2. CASE tombs' = tombs \/ tombs' = {}
    BY <1>0, <2>2, RedactionStands DEF RedactionShape, TypeOK
  <2>3. CASE \E v \in Revisions : Acknowledge(v) \/ Echo(v)
    BY <2>2, <2>3 DEF Acknowledge, Echo, Projected, projection
  <2>4. CASE Depart \/ \E m \in Messages : Refetch(m)
    BY <2>2, <2>4 DEF Depart, Refetch
  <2> QED BY <2>1, <2>2, <2>3, <2>4, ProjectionFrame
<1>2. \A i \in DOMAIN stream' : stream'[i].kind = "redaction" => room'[stream'[i].of] = "redacted"
  <2>0. \A i \in DOMAIN stream : stream[i].kind = "redaction" =>
            stream[i].of \in Revisions /\ room'[stream[i].of] = "redacted"
    <3> SUFFICES ASSUME NEW i \in DOMAIN stream, stream[i].kind = "redaction"
                 PROVE  stream[i].of \in Revisions /\ room'[stream[i].of] = "redacted"
      OBVIOUS
    <3>1. stream \in Seq(EventType)
      BY <1>0 DEF TypeOK, EventType
    <3>2. stream[i] \in EventType
      BY <3>1
    <3>3. stream[i].of \in Revisions
      BY <3>2 DEF EventType
    <3> QED BY <1>0, <3>3, RedactionStands DEF RedactionShape
  <2>1. CASE AdmitRedaction \/ AdmitAnswer
    <3>1. stream # <<>> /\ stream' = Tail(stream)
      BY <2>1 DEF AdmitRedaction, AdmitAnswer, Foremost
    <3> QED BY <1>0, <2>0, <3>1, StreamPops
  <2>2. ASSUME NEW v \in Revisions, Redact(v)
        PROVE  \A i \in DOMAIN stream' : stream'[i].kind = "redaction" => room'[stream'[i].of] = "redacted"
    <3> DEFINE e == [kind |-> "redaction", of |-> v]
    <3>1. e \in EventType /\ stream' = Append(stream, e) /\ e.of = v
      BY <2>2 DEF Redact, EventType
    <3>2. room'[v] = "redacted"
      BY <1>0, <2>2 DEF Redact, TypeOK
    <3> HIDE DEF e
    <3> QED BY <1>0, <2>0, <3>1, <3>2, StreamGrows
  <2>3. ASSUME NEW s \in Answers, Answer(s)
        PROVE  \A i \in DOMAIN stream' : stream'[i].kind = "redaction" => room'[stream'[i].of] = "redacted"
    <3> DEFINE e == [kind |-> "answer", of |-> s]
    <3>1. e \in EventType /\ stream' = Append(stream, e) /\ e.kind = "answer"
      BY <2>3 DEF Answer, EventType
    <3> HIDE DEF e
    <3> QED BY <1>0, <2>0, <3>1, StreamGrows
  <2>4. CASE UNCHANGED stream
    BY <2>0, <2>4
  <2> QED BY <2>1, <2>2, <2>3, <2>4, StreamFrame
<1>3. \A m \in owes' : visible'[m] # 0
  <2>0. visible \in [Messages -> {0} \cup Revisions] /\ owes \subseteq Messages /\ \A m \in owes : visible[m] # 0
    BY <1>0 DEF RedactionShape, TypeOK
  <2>1. ASSUME NEW v \in Revisions, Acknowledge(v) \/ Echo(v)
        PROVE  \A m \in owes' : visible'[m] # 0
    <3>1. CASE UNCHANGED projection
      BY <2>0, <3>1 DEF projection
    <3>2. CASE Projected(v)
      BY <2>0, <3>2 DEF Projected
    <3> QED BY <2>1, <3>1, <3>2 DEF Acknowledge, Echo
  <2>2. ASSUME NEW m \in Messages, Refetch(m)
        PROVE  \A n \in owes' : visible'[n] # 0
    <3>1. owes' = owes \ {m} /\ \A n \in Messages : n # m => visible'[n] = visible[n]
      BY <2>0, <2>2, RefetchShows DEF Refetch
    <3> QED BY <2>0, <3>1
  <2>3. CASE AdmitRedaction
    <3>1. PICK v \in Revisions : v = stream[1].of
      BY <1>0, <2>3, StreamFirst DEF AdmitRedaction, Foremost
    <3>2. CASE ~IsEdit(v) /\ visible[v] # 0
      BY <2>0, <2>3, <3>1, <3>2, ZenonT(60) DEF AdmitRedaction
    <3>3. CASE ~(~IsEdit(v) /\ visible[v] # 0)
      <4>1. UNCHANGED visible /\ owes' \subseteq owes \cup {Of[v]} /\ (owes' # owes => visible[Of[v]] = v)
        BY <2>3, <3>1, <3>3 DEF AdmitRedaction
      <4> QED BY <2>0, <4>1
    <3> QED BY <3>2, <3>3
  <2>4. CASE Depart
    BY <2>4 DEF Depart
  <2> QED BY <2>0, <2>1, <2>2, <2>3, <2>4, ProjectionFrame
<1> QED BY <1>1, <1>2, <1>3 DEF RedactionShape

-----------------------------------------------------------------------------
(* Answers and what is frozen for them.                                    *)

\* A step leaves an entry of the journal alone, or writes to a pending one.
LEMMA JournalStands ==
    ASSUME IInv, [Next]_vars, NEW s \in Answers, ~(AdmitAnswer /\ stream[1].of = s)
    PROVE  /\ journal'[s].epoch = journal[s].epoch
           /\ journal[s].state = "none" <=> journal'[s].state = "none"
<1>0. journal \in [Answers -> EntryType] /\ TypeOK
  BY DEF IInv, QuestionsInv, TypeOK, EntryType
<1>1. CASE \E v \in Revisions : Ask(v) \/ Delivering(v) \/ Refuse(v) \/ Echo(v) \/ Redact(v)
  BY <1>1 DEF Ask, Delivering, Accept, Acknowledge, Refuse, Echo, Redact
<1>2. CASE \E m \in Messages : Refetch(m)
  BY <1>2 DEF Refetch
<1>3. ASSUME NEW t \in Answers, Claim(t) \/ Pass(t)
      PROVE  journal'[s].epoch = journal[s].epoch /\ journal'[s].state = journal[s].state
  <2>1. \E c : journal' = [journal EXCEPT ![t].consumer = c]
    BY <1>3 DEF Claim, Pass
  <2> QED BY <1>0, <2>1 DEF EntryType
<1>4. ASSUME NEW t \in Answers, Pending(t), Settled(t)
      PROVE  /\ journal'[s].epoch = journal[s].epoch
             /\ journal[s].state = "none" <=> journal'[s].state = "none"
  <2>1. journal' = [journal EXCEPT ![t] = [@ EXCEPT !.state = "settled", !.consumer = "none"]]
    BY <1>4 DEF Settled
  <2>2. /\ [journal[t] EXCEPT !.state = "settled", !.consumer = "none"].state = "settled"
        /\ [journal[t] EXCEPT !.state = "settled", !.consumer = "none"].epoch = journal[t].epoch
    BY <1>0 DEF EntryType
  <2> QED BY <1>0, <1>4, <2>1, <2>2 DEF Pending
<1>5. CASE \E t \in Answers : Answer(t) \/ Fail(t) \/ Ignore(t) \/ Finish(t)
  BY <1>4, <1>5 DEF Answer, Fail, Ignore, Finish
<1>6. CASE AdmitAnswer
  <2>1. PICK t \in Answers : t = stream[1].of /\ t # s
    BY <1>0, <1>6, StreamFirst DEF AdmitAnswer, Foremost
  <2> QED BY <1>0, <1>6, <2>1 DEF AdmitAnswer
<1>7. CASE AdmitRedaction \/ Barrier \/ Retry \/ ScheduleRecovery \/ PassEnds \/ Rejoin \/ Crash
  BY <1>7 DEF AdmitRedaction, Barrier, Retry, ScheduleRecovery, PassEnds, Rejoin, Crash
<1>8. CASE Depart
  <2>1. \/ journal'[s] = journal[s]
        \/ Pending(s) /\ journal'[s] = [journal[s] EXCEPT !.state = "settled", !.consumer = "none"]
    BY <1>8 DEF Depart
  <2>2. /\ [journal[s] EXCEPT !.state = "settled", !.consumer = "none"].state = "settled"
        /\ [journal[s] EXCEPT !.state = "settled", !.consumer = "none"].epoch = journal[s].epoch
    BY <1>0 DEF EntryType
  <2> QED BY <2>1, <2>2 DEF Pending
<1>9. CASE UNCHANGED vars
  BY <1>9 DEF vars
<1> QED
  BY <1>1, <1>2, <1>3, <1>5, <1>6, <1>7, <1>8, <1>9 DEF Next, Running, Admitting

\* Only an admission freezes a choice; the rest of the steps keep or discard it.
LEMMA ChoiceFrame ==
    ASSUME IInv, [Next]_vars, ~AdmitAnswer
    PROVE  asked' = asked /\ \A t \in Answers : choice'[t] \in {0, choice[t]}
<1>0. choice \in [Answers -> {0} \cup Revisions]
  BY DEF IInv, QuestionsInv, TypeOK
<1>1. CASE \E v \in Revisions : Ask(v) \/ Delivering(v) \/ Refuse(v) \/ Echo(v) \/ Redact(v)
  BY <1>1 DEF Ask, Delivering, Accept, Acknowledge, Refuse, Echo, Redact, Projected, projection, history
<1>2. CASE \E m \in Messages : Refetch(m)
  BY <1>2, RefetchShows DEF Refetch, Forget, history
<1>3. CASE \E s \in Answers : Answer(s) \/ Fail(s) \/ Pass(s)
  BY <1>3 DEF Answer, Fail, Pass, projection, history
<1>4. ASSUME NEW s \in Answers, Claim(s) \/ Ignore(s) \/ Finish(s)
      PROVE  asked' = asked /\ \A t \in Answers : choice'[t] \in {0, choice[t]}
  BY <1>0, <1>4 DEF Claim, Ignore, Finish, Settled, history
<1>5. CASE AdmitRedaction \/ Depart
  BY <1>5 DEF AdmitRedaction, Depart, Forget, history
<1>6. CASE Barrier \/ Retry \/ ScheduleRecovery \/ PassEnds \/ Rejoin \/ Crash
  BY <1>6 DEF Barrier, Retry, ScheduleRecovery, PassEnds, Rejoin, Crash, projection, history
<1>7. CASE UNCHANGED vars
  BY <1>7 DEF vars, projection, history
<1> QED BY <1>1, <1>2, <1>3, <1>4, <1>5, <1>6, <1>7 DEF Next, Running, Admitting

\* Only a claim starts a run for a revision.
LEMMA ActedFrame ==
    ASSUME [Next]_vars, \A s \in Answers : ~Claim(s)
    PROVE  acted' = acted
<1>1. CASE \E v \in Revisions : Ask(v) \/ Delivering(v) \/ Refuse(v) \/ Echo(v) \/ Redact(v)
  BY <1>1 DEF Ask, Delivering, Accept, Acknowledge, Refuse, Echo, Redact, history
<1>2. CASE \E m \in Messages : Refetch(m)
  BY <1>2 DEF Refetch, history
<1>3. CASE \E s \in Answers : Answer(s) \/ Fail(s) \/ Pass(s) \/ Ignore(s) \/ Finish(s)
  BY <1>3 DEF Answer, Fail, Pass, Ignore, Finish, history
<1>4. CASE Admitting \/ ScheduleRecovery \/ PassEnds
  BY <1>4 DEF Admitting, AdmitAnswer, AdmitRedaction, Barrier, Retry, ScheduleRecovery, PassEnds, history
<1>5. CASE Depart \/ Rejoin \/ Crash
  BY <1>5 DEF Depart, Rejoin, Crash, history
<1>6. CASE UNCHANGED vars
  BY <1>6 DEF vars, history
<1> QED BY <1>1, <1>2, <1>3, <1>4, <1>5, <1>6 DEF Next, Running

\* An answer that is claimed has been admitted and its choice was frozen then.
LEMMA ClaimFacts ==
    ASSUME IInv, NEW s \in Answers, Claim(s)
    PROVE  /\ choice[s] \in Revisions /\ choice[s] = asked[s]
           /\ journal[s].state = "pending" /\ journal[s].epoch = epoch /\ ~fenced
           /\ question[choice[s]] \in {"open", s}
           /\ question' = [question EXCEPT ![choice[s]] = s]
           /\ acted' = [acted EXCEPT ![s] = @ \cup {choice[s]}]
<1>1. choice \in [Answers -> {0} \cup Revisions]
  BY DEF IInv, QuestionsInv, TypeOK
<1>2. choice[s] # 0 /\ Pending(s) /\ MembershipIsCurrent(journal[s].epoch) /\ question[choice[s]] \in {"open", s}
  BY DEF Claim, Takes
<1> QED BY <1>1, <1>2 DEF Claim, Pending, MembershipIsCurrent, IInv, AnswerShape

\* An answer on its way is there once; only admitted answers have done anything.
LEMMA AnswerStep ==
    ASSUME IInv, [Next]_vars
    PROVE  AnswerShape'
<1>0. TypeOK /\ TypeOK' /\ AnswerShape
  BY TypeStep DEF IInv, QuestionsInv
<1>1. /\ \A i \in DOMAIN stream' : stream'[i].kind = "answer" => journal'[stream'[i].of].state = "none"
      /\ \A i, j \in DOMAIN stream' : stream'[i].kind = "answer" /\ stream'[i] = stream'[j] => i = j
  <2>0. \A i \in DOMAIN stream : /\ stream[i].kind = "answer" => stream[i].of \in Answers
                                 /\ stream[i] = [kind |-> stream[i].kind, of |-> stream[i].of]
    <3>1. stream \in Seq(EventType)
      BY <1>0 DEF TypeOK, EventType
    <3>2. \A i \in DOMAIN stream : stream[i] \in EventType
      BY <3>1
    <3> QED BY <3>2 DEF EventType
  <2>1. CASE AdmitAnswer
    <3>1. stream # <<>> /\ stream' = Tail(stream) /\ stream[1].kind = "answer"
      BY <2>1 DEF AdmitAnswer, Foremost
    <3>2. 1 \in DOMAIN stream
      BY <1>0, <3>1, StreamFirst
    <3>3. \A i \in DOMAIN stream : i # 1 /\ stream[i].kind = "answer" => stream[i].of # stream[1].of
      BY <1>0, <2>0, <3>1, <3>2 DEF AnswerShape
    <3>4. \A i \in DOMAIN stream : i # 1 /\ stream[i].kind = "answer" => journal'[stream[i].of].state = "none"
      BY <1>0, <2>0, <3>3, JournalStands DEF AnswerShape
    <3>5. \A i \in DOMAIN stream' : /\ i \in Nat /\ i + 1 \in DOMAIN stream /\ i + 1 # 1
                                    /\ stream'[i] = stream[i + 1]
      BY <1>0, <3>1, StreamPops
    <3>6. ASSUME NEW i \in DOMAIN stream', NEW j \in DOMAIN stream', stream'[i].kind = "answer", stream'[i] = stream'[j]
          PROVE  i = j
      BY <1>0, <3>5, <3>6 DEF AnswerShape
    <3> QED BY <3>4, <3>5, <3>6
  <2>2. ASSUME ~AdmitAnswer
        PROVE  \A i \in DOMAIN stream : stream[i].kind = "answer" => journal'[stream[i].of].state = "none"
    BY <1>0, <2>0, <2>2, JournalStands DEF AnswerShape
  <2>3. CASE AdmitRedaction /\ ~AdmitAnswer
    <3>1. stream # <<>> /\ stream' = Tail(stream)
      BY <2>3 DEF AdmitRedaction, Foremost
    <3>5. \A i \in DOMAIN stream' : /\ i \in Nat /\ i + 1 \in DOMAIN stream /\ i + 1 # 1
                                    /\ stream'[i] = stream[i + 1]
      BY <1>0, <3>1, StreamPops
    <3>6. ASSUME NEW i \in DOMAIN stream', NEW j \in DOMAIN stream', stream'[i].kind = "answer", stream'[i] = stream'[j]
          PROVE  i = j
      BY <1>0, <3>5, <3>6 DEF AnswerShape
    <3> QED BY <2>2, <2>3, <3>5, <3>6
  <2>4. ASSUME NEW e \in EventType, stream' = Append(stream, e), ~AdmitAnswer,
               e.kind = "answer" => /\ \A i \in DOMAIN stream : stream[i] # e
                                    /\ e.of \in Answers /\ journal[e.of].state = "none"
        PROVE  /\ \A i \in DOMAIN stream' : stream'[i].kind = "answer" => journal'[stream'[i].of].state = "none"
               /\ \A i, j \in DOMAIN stream' : stream'[i].kind = "answer" /\ stream'[i] = stream'[j] => i = j
    <3>1. \A i \in DOMAIN stream' : \/ i \in DOMAIN stream /\ stream'[i] = stream[i]
                                    \/ i \notin DOMAIN stream /\ i = Len(stream) + 1 /\ stream'[i] = e
      BY <1>0, <2>4, StreamGrows
    <3>2. e.kind = "answer" => journal'[e.of].state = "none"
      BY <2>4, JournalStands
    <3>3. ASSUME NEW i \in DOMAIN stream', NEW j \in DOMAIN stream', stream'[i].kind = "answer", stream'[i] = stream'[j]
          PROVE  i = j
      BY <1>0, <2>4, <3>1, <3>3 DEF AnswerShape
    <3> QED BY <2>2, <2>4, <3>1, <3>2, <3>3
  <2>5. CASE (\E v \in Revisions : Redact(v)) /\ ~AdmitAnswer
    <3>1. PICK v \in Revisions : Redact(v)
      BY <2>5
    <3> DEFINE e == [kind |-> "redaction", of |-> v]
    <3>2. e \in EventType /\ stream' = Append(stream, e) /\ e.kind # "answer"
      BY <3>1 DEF Redact, EventType
    <3> HIDE DEF e
    <3> QED BY <2>4, <2>5, <3>2
  <2>6. CASE (\E s \in Answers : Answer(s)) /\ ~AdmitAnswer
    <3>1. PICK s \in Answers : Answer(s)
      BY <2>6
    <3> DEFINE e == [kind |-> "answer", of |-> s]
    <3>2. /\ e \in EventType /\ stream' = Append(stream, e)
          /\ \A i \in DOMAIN stream : stream[i] # e
          /\ e.of \in Answers /\ journal[e.of].state = "none"
      BY <3>1 DEF Answer, EventType
    <3> HIDE DEF e
    <3> QED BY <2>4, <2>6, <3>2
  <2>7. CASE UNCHANGED stream /\ ~AdmitAnswer
    BY <1>0, <2>2, <2>7 DEF AnswerShape
  <2> QED BY <2>1, <2>3, <2>5, <2>6, <2>7, StreamFrame
<1>2. \A s \in Answers : journal'[s].state = "none" => acted'[s] = {}
  <2>1. ASSUME NEW s \in Answers, AdmitAnswer, stream[1].of = s PROVE journal'[s].state # "none"
    BY <1>0, <2>1 DEF AdmitAnswer, TypeOK
  <2>2. \A s \in Answers : journal'[s].state = "none" => journal[s].state = "none"
    BY <2>1, JournalStands
  <2>3. CASE acted' = acted
    BY <1>0, <2>2, <2>3 DEF AnswerShape
  <2>4. ASSUME NEW t \in Answers, Claim(t) PROVE \A s \in Answers : journal'[s].state = "none" => acted'[s] = {}
    <3>1. journal[t].state = "pending" /\ acted' = [acted EXCEPT ![t] = @ \cup {choice[t]}]
      BY <2>4, ClaimFacts
    <3>2. acted \in [Answers -> SUBSET Revisions]
      BY <1>0 DEF TypeOK
    <3> QED BY <1>0, <2>2, <3>1, <3>2 DEF AnswerShape
  <2> QED BY <2>3, <2>4, ActedFrame
<1>3. \A s \in Answers : choice'[s] # 0 => choice'[s] = asked'[s]
  <2>1. CASE AdmitAnswer
    BY <1>0, <2>1 DEF AdmitAnswer, AnswerShape, TypeOK
  <2>2. CASE ~AdmitAnswer
    BY <1>0, <2>2, ChoiceFrame DEF AnswerShape
  <2> QED BY <2>1, <2>2
<1> QED BY <1>1, <1>2, <1>3 DEF AnswerShape

-----------------------------------------------------------------------------
(* What a step may do to the projection: show a revision, drop a message,   *)
(* strike one revision, or, when the membership ends, drop everything.      *)

Shows(v) ==
    /\ room[v] = "shown" /\ Projects(v)
    /\ \E w \in Revisions : visible' = [visible EXCEPT ![Of[v]] = w]
    /\ question' = Recorded(v) /\ UNCHANGED <<tombs, choice>>

Drops(m) ==
    /\ ~(room[m] = "shown" /\ Projects(m))
    /\ visible' = [visible EXCEPT ![m] = 0] /\ Forget(RevisionsOf(m))
    /\ tombs \subseteq tombs' /\ tombs' \subseteq tombs \cup {m}

Strikes(v) ==
    /\ tombs' = tombs \cup {v} /\ Forget({v}) /\ UNCHANGED visible

\* Every step does one of these, or claims a revision, or does nothing to it.
LEMMA ProjectionCases ==
    ASSUME IInv, [Next]_vars
    PROVE  \/ UNCHANGED <<visible, tombs, question>>
           \/ \E v \in Revisions : Shows(v)
           \/ \E m \in Messages : Drops(m)
           \/ \E v \in Revisions : Strikes(v)
           \/ \E s \in Answers : Claim(s)
           \/ Depart
<1>0. /\ TypeOK /\ visible \in [Messages -> {0} \cup Revisions] /\ RedactionShape
  BY DEF IInv, QuestionsInv, TypeOK
<1>1. ASSUME NEW v \in Revisions, Acknowledge(v) \/ Echo(v)
      PROVE  UNCHANGED <<visible, tombs, question>> \/ Shows(v)
  <2>1. CASE UNCHANGED projection
    BY <2>1 DEF projection
  <2>2. CASE room[v] = "shown" /\ Projects(v) /\ Projected(v)
    <3> DEFINE w == IF v > visible[Of[v]] THEN v ELSE visible[Of[v]]
    <3>1. visible' = [visible EXCEPT ![Of[v]] = w]
      BY <2>2 DEF Projected
    <3>2. w \in Revisions
      <4>1. visible[Of[v]] \in {0} \cup Revisions
        BY <1>0, OfFacts
      <4>2. v \in Nat /\ v > 0
        BY OfFacts
      <4> QED BY <4>1, <4>2
    <3> HIDE DEF w
    <3> QED BY <2>2, <3>1, <3>2 DEF Shows, Projected
  <2> QED BY <1>1, <2>1, <2>2 DEF Acknowledge, Echo
<1>2. ASSUME NEW m \in Messages, Refetch(m)
      PROVE  (\E v \in Revisions : Shows(v)) \/ Drops(m)
  BY <1>2, RefetchShows DEF Refetch, Shows, Drops, RevisionsOf
<1>3. CASE AdmitRedaction
  <2>1. PICK v \in Revisions : v = stream[1].of /\ 1 \in DOMAIN stream /\ stream[1].kind = "redaction"
    BY <1>0, <1>3, StreamFirst DEF AdmitRedaction, Foremost
  <2>2. room[v] = "redacted"
    BY <1>0, <2>1 DEF RedactionShape
  <2>3. CASE ~IsEdit(v) /\ visible[v] # 0
    <3>1. v \in Messages
      BY <2>3, OfFacts DEF IsEdit
    <3>2. Drops(v)
      BY <1>3, <2>1, <2>2, <2>3 DEF AdmitRedaction, Drops
    <3> QED BY <3>1, <3>2
  <2>4. CASE ~(~IsEdit(v) /\ visible[v] # 0)
    BY <1>3, <2>1, <2>4 DEF AdmitRedaction, Strikes
  <2> QED BY <2>3, <2>4
<1> QED BY <1>1, <1>2, <1>3, ProjectionFrame

\* Rows keep their membership, and what the room has it does not lose.
LEMMA RowStands ==
    ASSUME IInv, [Next]_vars, NEW v \in Revisions
    PROVE  /\ row[v].state # "none" => row'[v].state # "none" /\ row'[v].epoch = row[v].epoch
           /\ room[v] # "absent" => room'[v] # "absent"
           /\ ~Depart => epoch' = epoch /\ (~fenced => ~fenced')
<1>0. /\ row \in [Revisions -> RowType] /\ room \in [Revisions -> {"absent", "shown", "redacted"}]
      /\ fenced \in BOOLEAN
  BY DEF IInv, QuestionsInv, TypeOK, RowType
<1>1. ASSUME NEW u \in Revisions, Ask(u)
      PROVE  /\ row[v].state # "none" => row'[v].state # "none" /\ row'[v].epoch = row[v].epoch
             /\ UNCHANGED <<room, epoch, fenced>>
  <2>1. row[u].state = "none" /\ row' = [row EXCEPT ![u] = [state |-> "attempted", epoch |-> epoch]]
        /\ UNCHANGED <<room, epoch, fenced>>
    BY <1>1 DEF Ask, NoRow
  <2> QED BY <1>0, <2>1
<1>2. ASSUME NEW u \in Revisions, Accept(u) \/ Redact(u)
      PROVE  UNCHANGED <<row, epoch, fenced>> /\ (room[v] # "absent" => room'[v] # "absent")
  BY <1>0, <1>2 DEF Accept, Redact
<1>3. ASSUME NEW u \in Revisions, Acknowledge(u) \/ Refuse(u)
      PROVE  /\ row[v].state # "none" => row'[v].state # "none" /\ row'[v].epoch = row[v].epoch
             /\ UNCHANGED <<room, epoch, fenced>>
  <2>1. PICK q \in {"acked", "failed", "retired"} : row' = [row EXCEPT ![u].state = q]
    BY <1>3 DEF Acknowledge, Refuse
  <2>2. row'[v].epoch = row[v].epoch /\ (row'[v].state = q \/ row'[v].state = row[v].state)
    BY <1>0, <2>1 DEF RowType
  <2> QED BY <1>3, <2>2 DEF Acknowledge, Refuse
<1>4. CASE Depart \/ Rejoin
  BY <1>4 DEF Depart, Rejoin
<1> QED BY <1>0, <1>1, <1>2, <1>3, <1>4, RowFrame DEF Delivering

\* A recorded prompt stays one of this membership that was sent and not erased.
LEMMA QuestionStep ==
    ASSUME IInv, [Next]_vars
    PROVE  QuestionShape'
<1>0. /\ visible \in [Messages -> {0} \cup Revisions] /\ question \in [Revisions -> {"none", "open"} \cup Answers]
      /\ QuestionShape /\ RowShape' /\ tombs \subseteq Revisions /\ RowShape
  BY RowStep DEF IInv, QuestionsInv, TypeOK
<1> SUFFICES ASSUME NEW v \in Revisions, question'[v] # "none"
             PROVE  /\ row'[v].state \in {"attempted", "acked"} /\ row'[v].epoch = epoch' /\ ~fenced'
                    /\ room'[v] # "absent" /\ v \notin tombs' /\ visible'[Of[v]] # 0
  BY DEF QuestionShape, MembershipIsCurrent
<1>1. ASSUME question[v] # "none", ~Depart
      PROVE  row'[v].state \in {"attempted", "acked"} /\ row'[v].epoch = epoch' /\ ~fenced' /\ room'[v] # "absent"
  <2>1. row[v].state \in {"attempted", "acked"} /\ row[v].epoch = epoch /\ ~fenced /\ room[v] # "absent"
    BY <1>0, <1>1 DEF QuestionShape, MembershipIsCurrent
  <2> QED BY <1>0, <1>1, <2>1, RowStands DEF RowShape
<1>2. ~Depart
  <2>1. Depart => question'[v] = "none"
    BY DEF Depart, Forget
  <2> QED BY <2>1
<1>3. CASE UNCHANGED <<visible, tombs, question>>
  BY <1>0, <1>1, <1>2, <1>3 DEF QuestionShape
<1>4. ASSUME NEW u \in Revisions, Shows(u)
      PROVE  /\ row'[v].state \in {"attempted", "acked"} /\ row'[v].epoch = epoch' /\ ~fenced'
             /\ room'[v] # "absent" /\ v \notin tombs' /\ visible'[Of[v]] # 0
  <2>1. PICK w \in Revisions : visible' = [visible EXCEPT ![Of[u]] = w]
    BY <1>4 DEF Shows
  <2>2. question' = [question EXCEPT ![u] = IF @ = "none" /\ MembershipIsCurrent(row[u].epoch) THEN "open" ELSE @]
        /\ tombs' = tombs
    BY <1>4 DEF Shows, Recorded
  <2>3. row[u].state \in {"attempted", "acked"} /\ row[u].epoch = epoch /\ ~fenced /\ room[u] = "shown" /\ u \notin tombs
    BY <1>4 DEF Shows, Projects, MembershipIsCurrent
  <2>4. CASE v = u
    <3>1. row'[v].epoch = epoch' /\ ~fenced' /\ room'[v] # "absent"
      BY <1>2, <2>3, <2>4, RowStands
    <3> QED BY <1>0, <2>1, <2>2, <2>3, <2>4, <3>1, OfFacts DEF RowShape
  <2>5. CASE v # u
    <3>1. question[v] # "none"
      BY <1>0, <2>2, <2>5
    <3>2. v \notin tombs /\ visible[Of[v]] # 0
      BY <1>0, <3>1 DEF QuestionShape
    <3> QED BY <1>0, <1>1, <1>2, <2>1, <2>2, <3>1, <3>2, OfFacts
  <2> QED BY <2>4, <2>5
<1>5. ASSUME NEW m \in Messages, Drops(m)
      PROVE  /\ row'[v].state \in {"attempted", "acked"} /\ row'[v].epoch = epoch' /\ ~fenced'
             /\ room'[v] # "absent" /\ v \notin tombs' /\ visible'[Of[v]] # 0
  <2>1. question[v] # "none" /\ Of[v] # m
    BY <1>5 DEF Drops, Forget, RevisionsOf
  <2>2. v # m
    BY <2>1, OfFacts
  <2>3. v \notin tombs /\ visible[Of[v]] # 0
    BY <1>0, <2>1 DEF QuestionShape
  <2> QED BY <1>0, <1>1, <1>2, <1>5, <2>1, <2>2, <2>3, OfFacts DEF Drops
<1>6. ASSUME NEW u \in Revisions, Strikes(u)
      PROVE  /\ row'[v].state \in {"attempted", "acked"} /\ row'[v].epoch = epoch' /\ ~fenced'
             /\ room'[v] # "absent" /\ v \notin tombs' /\ visible'[Of[v]] # 0
  <2>1. question[v] # "none" /\ v # u
    BY <1>6 DEF Strikes, Forget
  <2> QED BY <1>0, <1>1, <1>2, <1>6, <2>1 DEF Strikes, QuestionShape
<1>7. ASSUME NEW s \in Answers, Claim(s)
      PROVE  /\ row'[v].state \in {"attempted", "acked"} /\ row'[v].epoch = epoch' /\ ~fenced'
             /\ room'[v] # "absent" /\ v \notin tombs' /\ visible'[Of[v]] # 0
  <2>1. question[v] # "none"
    <3>1. question[choice[s]] # "none"
      BY <1>7, ClaimFacts, QuestionsAssumption
    <3> QED BY <1>0, <1>7, <3>1, ClaimFacts
  <2>2. UNCHANGED <<visible, tombs>>
    BY <1>7 DEF Claim
  <2> QED BY <1>0, <1>1, <1>2, <2>1, <2>2 DEF QuestionShape
<1> QED BY <1>2, <1>3, <1>4, <1>5, <1>6, <1>7, ProjectionCases

-----------------------------------------------------------------------------
(* A prompt that was acted upon is never free again.                       *)

\* The original of a recorded prompt was sent in the same membership.
LEMMA OriginalOfQuestion ==
    ASSUME IInv, NEW v \in Revisions, question[v] # "none"
    PROVE  /\ room[Of[v]] # "absent"
           /\ Of[v] \notin tombs => room[Of[v]] # "shown" \/ Projects(Of[v])
<1>0. RowShape /\ QuestionShape
  BY DEF IInv
<1>1. row[v].state \in {"attempted", "acked"} /\ row[v].epoch = epoch /\ ~fenced /\ room[v] # "absent"
  BY <1>0 DEF QuestionShape, MembershipIsCurrent
<1>2. CASE Of[v] = v
  BY <1>1, <1>2 DEF Projects, MembershipIsCurrent, IsEdit
<1>3. CASE Of[v] # v
  <2>1. row[Of[v]].state = "acked" /\ row[Of[v]].epoch = row[v].epoch
    BY <1>0, <1>1, <1>3 DEF RowShape, IsEdit
  <2>2. Of[v] \in Revisions /\ ~IsEdit(Of[v])
    BY OfFacts DEF IsEdit
  <2>3. room[Of[v]] # "absent"
    BY <1>0, <2>1, <2>2 DEF RowShape
  <2> QED BY <1>1, <2>1, <2>2, <2>3 DEF Projects, MembershipIsCurrent
<1> QED BY <1>2, <1>3

\* A revision that is shown was not erased.
LEMMA ShownNotErased ==
    ASSUME IInv, NEW u \in Revisions, Shows(u)
    PROVE  ~Erased(u) /\ ~(visible[Of[u]] = 0 /\ room[Of[u]] = "redacted")
<1>1. row[u].epoch = epoch /\ u \notin tombs /\ room[u] = "shown" /\ (IsEdit(u) => visible[Of[u]] # 0)
  BY DEF Shows, Projects, MembershipIsCurrent
<1>2. epoch \in 0..MaxEpoch /\ MaxEpoch \in Nat
  BY QuestionsAssumption DEF IInv, QuestionsInv, TypeOK
<1> QED BY <1>1, <1>2 DEF Erased, IsEdit

\* Why a prompt cannot be recorded again stays so.
LEMMA ErasedStands ==
    ASSUME IInv, [Next]_vars, NEW v \in Revisions, Erased(v), row[v].state # "none"
    PROVE  Erased(v)'
<1>0. /\ visible \in [Messages -> {0} \cup Revisions] /\ epoch \in Nat
      /\ row \in [Revisions -> RowType] /\ RowShape
  BY DEF IInv, QuestionsInv, TypeOK, RowType
<1>5. Of[v] \in Messages /\ Of[v] \in Revisions
  BY OfFacts
<1>1. CASE Depart
  <2>1. epoch' = epoch + 1 /\ row' = row
    BY <1>1 DEF Depart
  <2> QED BY <1>0, <2>1 DEF Erased, RowShape, RowType
<1>2. CASE ~Depart /\ row[v].epoch < epoch
  BY <1>2, RowStands DEF Erased
<1>3. CASE ~Depart /\ v \in tombs
  <2>1. tombs \subseteq tombs'
    <3>1. ASSUME NEW s \in Answers, Claim(s) PROVE tombs' = tombs
      BY <3>1 DEF Claim
    <3> QED BY <1>3, <3>1, ProjectionCases DEF Shows, Drops, Strikes
  <2> QED BY <1>3, <2>1 DEF Erased
<1>4. CASE ~Depart /\ visible[Of[v]] = 0 /\ room[Of[v]] = "redacted"
  <2>1. room'[Of[v]] = "redacted"
    BY <1>5, <1>4, RedactionStands
  <2>2. visible'[Of[v]] = 0
    <3>1. ASSUME NEW u \in Revisions, Shows(u) PROVE visible'[Of[v]] = visible[Of[v]]
      <4>1. Of[u] # Of[v]
        BY <1>4, <3>1, ShownNotErased
      <4> QED BY <1>0, <1>5, <3>1, <4>1 DEF Shows
    <3>2. ASSUME NEW m \in Messages, Drops(m) PROVE visible'[Of[v]] = 0
      BY <1>0, <1>5, <1>4, <3>2 DEF Drops
    <3>3. ASSUME NEW s \in Answers, Claim(s) PROVE visible' = visible
      BY <3>3 DEF Claim
    <3> QED BY <1>4, <3>1, <3>2, <3>3, ProjectionCases DEF Strikes
  <2> QED BY <2>1, <2>2 DEF Erased
<1> QED BY <1>1, <1>2, <1>3, <1>4 DEF Erased

\* A revision that was acted upon stays taken, or is gone for good.
LEMMA SpentStep ==
    ASSUME IInv, [Next]_vars
    PROVE  Spent'
<1> USE OfFacts
<1>0. /\ visible \in [Messages -> {0} \cup Revisions] /\ question \in [Revisions -> {"none", "open"} \cup Answers]
      /\ acted \in [Answers -> SUBSET Revisions] /\ tombs \subseteq Revisions
      /\ epoch \in Nat /\ row \in [Revisions -> RowType]
      /\ room \in [Revisions -> {"absent", "shown", "redacted"}]
      /\ Spent /\ QuestionShape /\ RowShape /\ RedactionShape
  BY DEF IInv, QuestionsInv, TypeOK, RowType
<1>1. ASSUME NEW s \in Answers, NEW v \in acted[s]
      PROVE  row'[v].state # "none" /\ (question'[v] = s \/ (question'[v] = "none" /\ Erased(v)'))
  <2>0. v \in Revisions /\ row[v].state # "none" /\ (question[v] = s \/ (question[v] = "none" /\ Erased(v)))
    BY <1>0, <1>1 DEF Spent
  <2>1. row'[v].state # "none" /\ (Erased(v) => Erased(v)')
    BY <2>0, RowStands, ErasedStands
  <2>2. CASE question'[v] = question[v]
    BY <2>0, <2>1, <2>2
  <2>3. ASSUME NEW u \in Revisions, Shows(u) PROVE question'[v] = question[v]
    <3>1. question' = [question EXCEPT ![u] = IF @ = "none" /\ MembershipIsCurrent(row[u].epoch) THEN "open" ELSE @]
      BY <2>3 DEF Shows, Recorded
    <3>2. CASE v = u
      <4>1. question[u] = s /\ s # "none"
        BY <2>0, <2>3, <3>2, ShownNotErased, QuestionsAssumption
      <4> QED BY <1>0, <3>1, <3>2, <4>1
    <3> QED BY <1>0, <3>1, <3>2
  <2>4. ASSUME NEW m \in Messages, Drops(m), question'[v] # question[v]
        PROVE  question'[v] = "none" /\ Erased(v)'
    <3>1. Of[v] = m /\ question[v] # "none" /\ question'[v] = "none"
      BY <2>0, <2>4 DEF Drops, Forget, RevisionsOf
    <3>2. visible'[Of[v]] = 0
      BY <1>0, <2>4, <3>1 DEF Drops
    <3>3. room[Of[v]] = "redacted"
      <4>1. CASE m \in tombs
        BY <1>0, <3>1, <4>1 DEF RedactionShape
      <4>2. CASE m \notin tombs
        BY <1>0, <2>0, <2>4, <3>1, <4>2, OriginalOfQuestion DEF Drops
      <4> QED BY <4>1, <4>2
    <3>4. room'[Of[v]] = "redacted"
      BY <2>0, <3>3, RedactionStands
    <3> QED BY <3>1, <3>2, <3>4 DEF Erased
  <2>5. ASSUME NEW u \in Revisions, Strikes(u), question'[v] # question[v]
        PROVE  question'[v] = "none" /\ Erased(v)'
    <3>1. v = u /\ question'[v] = "none"
      BY <2>0, <2>5 DEF Strikes, Forget
    <3> QED BY <2>5, <3>1 DEF Strikes, Erased
  <2>6. ASSUME NEW t \in Answers, Claim(t) PROVE question'[v] = question[v]
    <3>1. /\ choice[t] \in Revisions /\ question[choice[t]] \in {"open", t}
          /\ question' = [question EXCEPT ![choice[t]] = t]
      BY <2>6, ClaimFacts
    <3>2. CASE v = choice[t]
      <4>1. question[v] = t
        BY <2>0, <3>1, <3>2, QuestionsAssumption
      <4> QED BY <1>0, <3>1, <3>2, <4>1
    <3> QED BY <1>0, <3>1, <3>2
  <2>7. CASE Depart
    <3>1. epoch' = epoch + 1 /\ row' = row /\ question'[v] = "none"
      BY <2>0, <2>7 DEF Depart, Forget
    <3> QED BY <1>0, <2>0, <2>1, <3>1 DEF Erased, RowShape, RowType
  <2> QED BY <2>1, <2>2, <2>3, <2>4, <2>5, <2>6, <2>7, ProjectionCases
<1>2. ASSUME NEW t \in Answers, Claim(t) PROVE Spent'
  <2>1. /\ choice[t] \in Revisions /\ question' = [question EXCEPT ![choice[t]] = t]
        /\ acted' = [acted EXCEPT ![t] = @ \cup {choice[t]}] /\ question[choice[t]] # "none"
    BY <1>2, ClaimFacts, QuestionsAssumption
  <2>2. row[choice[t]].state # "none"
    BY <1>0, <2>1 DEF QuestionShape
  <2>3. row'[choice[t]].state # "none" /\ question'[choice[t]] = t
    BY <1>0, <2>1, <2>2, RowStands
  <2> QED BY <1>0, <1>1, <2>1, <2>3 DEF Spent
<1>3. CASE acted' = acted
  BY <1>1, <1>3 DEF Spent
<1> QED BY <1>2, <1>3, ActedFrame

-----------------------------------------------------------------------------
(* The projection knows what is acknowledged.                              *)

\* An acknowledged revision of this membership that the room shows, original and
\* all, may be projected, and its original too.
LEMMA AckedProjects ==
    ASSUME IInv, NEW v \in Revisions, row[v].state \in {"attempted", "acked"}, row[v].epoch = epoch,
           room[v] = "shown", room[Of[v]] = "shown"
    PROVE  Projects(v) /\ Projects(Of[v])
<1>0. /\ RowShape /\ RedactionShape /\ AckedIsVisible
      /\ epoch \in Nat /\ visible \in [Messages -> {0} \cup Revisions]
  <2>1. epoch \in Nat
    BY QuestionsAssumption DEF IInv, QuestionsInv, TypeOK
  <2> QED BY <2>1 DEF IInv, QuestionsInv, TypeOK
<1>1. ~fenced /\ v \notin tombs /\ Of[v] \notin tombs
  BY <1>0 DEF RowShape, RedactionShape, NoRow
<1>2. Of[v] \in Revisions /\ Of[v] \in Messages /\ ~IsEdit(Of[v]) /\ Of[v] # 0
  BY OfFacts DEF IsEdit
<1>3. CASE Of[v] = v
  BY <1>1, <1>2, <1>3 DEF Projects, MembershipIsCurrent
<1>4. CASE Of[v] # v
  <2>1. row[Of[v]].state = "acked" /\ row[Of[v]].epoch = epoch
    BY <1>0, <1>4 DEF RowShape, IsEdit
  <2>2. visible[Of[v]] # 0
    <3>1. room[Of[Of[v]]] = "shown" /\ Of[Of[v]] = Of[v]
      BY OfFacts
    <3>2. visible[Of[v]] >= Of[v]
      BY <1>0, <1>2, <2>1, <3>1 DEF AckedIsVisible
    <3>3. Of[v] \in Nat /\ Of[v] > 0
      BY <1>2, RevisionsCount
    <3> QED BY <3>2, <3>3
  <2> QED BY <1>1, <1>2, <2>1, <2>2 DEF Projects, MembershipIsCurrent
<1> QED BY <1>3, <1>4

\* What the projection shows of a message only goes back when it is erased.
LEMMA AckedStep ==
    ASSUME IInv, [Next]_vars
    PROVE  AckedIsVisible'
<1>0. /\ visible \in [Messages -> {0} \cup Revisions]
      /\ row \in [Revisions -> RowType]
      /\ room \in [Revisions -> {"absent", "shown", "redacted"}]
      /\ RowShape /\ AckedIsVisible
  BY DEF IInv, QuestionsInv, TypeOK, RowType
<1>1. epoch \in Nat
  BY QuestionsAssumption DEF IInv, QuestionsInv, TypeOK
<1> SUFFICES ASSUME NEW v \in Revisions, room'[v] = "shown", room'[Of[v]] = "shown",
                    row'[v].state = "acked", row'[v].epoch = epoch'
             PROVE  visible'[Of[v]] >= v
  BY DEF AckedIsVisible
<1>2. Of[v] \in Messages /\ Of[v] \in Revisions /\ v \in Nat /\ visible[Of[v]] \in Nat
  <2>1. Of[v] \in Messages /\ Of[v] \in Revisions
    BY OfFacts
  <2>2. visible[Of[v]] \in {0} \cup Revisions
    BY <1>0, <2>1
  <2> QED BY <2>1, <2>2, RevisionsCount
<1>3. ~Depart
  <2>1. Depart => epoch' = epoch + 1 /\ row' = row
    BY DEF Depart
  <2>2. Depart => row[v].epoch <= epoch /\ row[v].epoch = epoch + 1
    BY <1>0, <2>1 DEF RowShape
  <2> QED BY <1>1, <2>2
<1>4. \A u \in Revisions : ~Accept(u) => room'[u] = room[u] \/ room'[u] = "redacted"
  <2>1. ASSUME NEW u \in Revisions, NEW x \in Revisions, Ask(x) \/ Acknowledge(x) \/ Refuse(x) \/ Redact(x)
        PROVE  room'[u] = room[u] \/ room'[u] = "redacted"
    BY <1>0, <2>1 DEF Ask, Acknowledge, Refuse, Redact
  <2>2. ASSUME NEW u \in Revisions, NEW x \in Revisions, Accept(x), ~Accept(u)
        PROVE  room'[u] = room[u]
    BY <1>0, <2>2 DEF Accept
  <2>3. ASSUME Rejoin PROVE room' = room
    BY <2>3 DEF Rejoin
  <2> QED BY <1>3, <2>1, <2>2, <2>3, RowFrame DEF Delivering
<1>5. room[v] = "shown" /\ room[Of[v]] = "shown"
  <2>1. ~Accept(v)
    <3>1. Accept(v) => row[v].state = "attempted" /\ row' = row
      BY DEF Accept
    <3> QED BY <3>1
  <2>2. ~Accept(Of[v])
    <3>1. Accept(Of[v]) => row[Of[v]].state = "attempted" /\ row' = row
      BY DEF Accept
    <3> QED BY <1>0, <2>1, <3>1 DEF RowShape, IsEdit
  <2> QED BY <1>2, <1>4, <2>1, <2>2
<1>6. epoch' = epoch /\ row[v].epoch = epoch /\ row[v].state \in {"attempted", "acked"}
  <2>1. row[v].state \in {"attempted", "acked"}
    BY <1>0, <1>5 DEF RowShape
  <2> QED BY <1>3, <2>1, RowStands
<1>7. Projects(v) /\ Projects(Of[v])
  BY <1>5, <1>6, AckedProjects
<1>8. ASSUME NEW u \in Revisions, Projected(u), u = v \/ row[v].state = "acked"
      PROVE  visible'[Of[v]] >= v
  <2>1. visible' = [visible EXCEPT ![Of[u]] = IF u > @ THEN u ELSE @]
    BY <1>8 DEF Projected
  <2>2. u \in Nat /\ Of[u] \in Messages /\ visible[Of[u]] \in Nat
    <3>1. Of[u] \in Messages
      BY OfFacts
    <3>2. visible[Of[u]] \in {0} \cup Revisions
      BY <1>0, <3>1
    <3> QED BY <3>1, <3>2, RevisionsCount
  <2>3. row[v].state = "acked" => visible[Of[v]] >= v
    BY <1>0, <1>5, <1>6 DEF AckedIsVisible
  <2> QED BY <1>0, <1>2, <1>8, <2>1, <2>2, <2>3
<1>9. ASSUME NEW u \in Revisions, Acknowledge(u)
      PROVE  visible'[Of[v]] >= v
  <2>1. CASE u = v
    BY <1>5, <1>7, <1>8, <1>9, <2>1 DEF Acknowledge
  <2>2. CASE u # v
    <3>1. row' = [row EXCEPT ![u].state = "acked"]
      BY <1>9 DEF Acknowledge
    <3>2. row[v].state = "acked"
      BY <1>0, <2>2, <3>1
    <3>3. visible[Of[v]] >= v
      BY <1>0, <1>5, <1>6, <3>2 DEF AckedIsVisible
    <3> QED BY <1>8, <1>9, <3>2, <3>3 DEF Acknowledge, projection
  <2> QED BY <2>1, <2>2
<1>10. ASSUME \A u \in Revisions : ~Acknowledge(u)
       PROVE  row[v].state = "acked" /\ visible[Of[v]] >= v
  <2>1. ASSUME NEW u \in Revisions, Ask(u) \/ Refuse(u) PROVE row[v].state = "acked"
    <3>1. CASE Ask(u)
      <4>1. row' = [row EXCEPT ![u] = [state |-> "attempted", epoch |-> epoch]]
        BY <3>1 DEF Ask
      <4> QED BY <1>0, <4>1
    <3>2. CASE Refuse(u)
      <4>1. PICK q \in {"failed", "retired"} : row' = [row EXCEPT ![u].state = q]
        BY <3>2 DEF Refuse
      <4> QED BY <1>0, <4>1 DEF RowType
    <3> QED BY <2>1, <3>1, <3>2
  <2>2. ASSUME NEW u \in Revisions, Accept(u) \/ Redact(u) PROVE row' = row
    BY <2>2 DEF Accept, Redact
  <2>3. ASSUME Rejoin PROVE row' = row
    BY <2>3 DEF Rejoin
  <2>4. row[v].state = "acked"
    BY <1>3, <1>10, <2>1, <2>2, <2>3, RowFrame DEF Delivering
  <2> QED BY <1>0, <1>5, <1>6, <2>4 DEF AckedIsVisible
<1>11. ASSUME NEW u \in Revisions, Echo(u), \A x \in Revisions : ~Acknowledge(x)
       PROVE  visible'[Of[v]] >= v
  BY <1>8, <1>10, <1>11 DEF Echo
<1>12. ASSUME NEW m \in Messages, Refetch(m), \A x \in Revisions : ~Acknowledge(x)
       PROVE  visible'[Of[v]] >= v
  <2>1. CASE Of[v] = m
    <3>1. v \in RevisionsOf(m) /\ Projects(m) /\ room[m] = "shown"
      BY <1>5, <1>7, <2>1 DEF RevisionsOf
    <3>2. PICK w \in RevisionsOf(m) :
              /\ \A u \in RevisionsOf(m) : room[u] = "shown" /\ Projects(u) => u <= w
              /\ visible' = [visible EXCEPT ![m] = w]
      BY <1>12, <3>1, RefetchShows
    <3>3. v <= w /\ w \in Revisions
      BY <1>5, <1>7, <3>1, <3>2 DEF RevisionsOf
    <3> QED BY <1>0, <1>2, <2>1, <3>2, <3>3, OfFacts
  <2>2. CASE Of[v] # m
    <3>1. visible'[Of[v]] = visible[Of[v]]
      BY <1>0, <1>2, <1>12, <2>2, RefetchShows
    <3> QED BY <1>10, <1>12, <3>1
  <2> QED BY <2>1, <2>2
<1>13. ASSUME AdmitRedaction, \A x \in Revisions : ~Acknowledge(x)
       PROVE  visible'[Of[v]] >= v
  <2>0. TypeOK /\ RedactionShape
    BY DEF IInv, QuestionsInv
  <2>1. PICK u \in Revisions : u = stream[1].of /\ room[u] = "redacted"
    BY <1>13, <2>0, StreamFirst DEF AdmitRedaction, Foremost, RedactionShape
  <2>2. u # Of[v]
    BY <1>5, <2>1
  <2>3. visible'[Of[v]] = visible[Of[v]]
    BY <1>0, <1>2, <1>13, <2>1, <2>2 DEF AdmitRedaction
  <2> QED BY <1>10, <1>13, <2>3
<1> QED BY <1>3, <1>9, <1>10, <1>11, <1>12, <1>13, ProjectionFrame

-----------------------------------------------------------------------------
(* The four properties.                                                    *)

\* A claim is of a prompt nobody acted upon, and of the one the answer acted upon
\* before.
LEMMA ChosenOnceStep ==
    ASSUME IInv, [Next]_vars
    PROVE  ChosenOnce'
<1>0. /\ ChosenOnce /\ ActsAsAsked /\ Spent /\ acted \in [Answers -> SUBSET Revisions]
  BY DEF IInv, QuestionsInv, TypeOK
<1>1. CASE acted' = acted
  BY <1>0, <1>1 DEF ChosenOnce
<1>2. ASSUME NEW s \in Answers, Claim(s) PROVE ChosenOnce'
  <2>1. /\ acted' = [acted EXCEPT ![s] = @ \cup {choice[s]}] /\ choice[s] = asked[s]
        /\ question[choice[s]] \in {"open", s}
    BY <1>2, ClaimFacts
  <2>2. \A t \in Answers : t # s => choice[s] \notin acted[t]
    BY <1>0, <2>1, QuestionsAssumption DEF Spent
  <2>3. \A v \in acted[s] : v = choice[s]
    BY <1>0, <2>1 DEF ActsAsAsked
  <2>4. acted'[s] = acted[s] \cup {choice[s]} /\ \A t \in Answers : t # s => acted'[t] = acted[t]
    BY <1>0, <2>1
  <2> SUFFICES ASSUME NEW t \in Answers, NEW u \in Answers, NEW v \in acted'[t], NEW w \in acted'[u]
               PROVE  (t = u) <=> (v = w)
    BY DEF ChosenOnce
  <2>5. CASE t # s /\ u # s
    BY <1>0, <2>4, <2>5 DEF ChosenOnce
  <2>6. CASE t = s \/ u = s
    BY <1>0, <2>2, <2>3, <2>4, <2>6 DEF ChosenOnce
  <2> QED BY <2>5, <2>6
<1> QED BY <1>1, <1>2, ActedFrame

\* The revision and the membership of an answer that acted do not change.
LEMMA ActsAsAskedStep ==
    ASSUME IInv, [Next]_vars
    PROVE  ActsAsAsked'
<1>0. /\ TypeOK /\ ActsAsAsked /\ Spent /\ AnswerShape /\ QuestionShape
      /\ acted \in [Answers -> SUBSET Revisions] /\ asked \in [Answers -> {0} \cup Revisions]
  BY DEF IInv, QuestionsInv, TypeOK
<1>1. ASSUME NEW s \in Answers, NEW v \in acted[s]
      PROVE  v = asked'[s] /\ row'[v].epoch = journal'[s].epoch
  <2>1. v \in Revisions /\ row[v].state # "none" /\ v = asked[s] /\ row[v].epoch = journal[s].epoch
    BY <1>0, <1>1 DEF ActsAsAsked, Spent
  <2>2. ~(AdmitAnswer /\ stream[1].of = s)
    <3>1. AdmitAnswer => 1 \in DOMAIN stream /\ stream[1].kind = "answer"
      BY <1>0, StreamFirst DEF AdmitAnswer, Foremost
    <3> QED BY <1>0, <1>1, <3>1 DEF AnswerShape
  <2>3. asked'[s] = asked[s]
    <3>1. CASE AdmitAnswer
      BY <1>0, <2>2, <3>1 DEF AdmitAnswer
    <3>2. CASE ~AdmitAnswer
      BY <3>2, ChoiceFrame
    <3> QED BY <3>1, <3>2
  <2> QED BY <2>1, <2>2, <2>3, RowStands, JournalStands
<1>2. CASE acted' = acted
  BY <1>1, <1>2 DEF ActsAsAsked
<1>3. ASSUME NEW s \in Answers, Claim(s) PROVE ActsAsAsked'
  <2>1. /\ acted' = [acted EXCEPT ![s] = @ \cup {choice[s]}] /\ choice[s] = asked[s] /\ choice[s] \in Revisions
        /\ journal[s].epoch = epoch /\ question[choice[s]] # "none"
    BY <1>3, ClaimFacts, QuestionsAssumption
  <2>2. row[choice[s]].epoch = epoch /\ row[choice[s]].state # "none"
    BY <1>0, <2>1 DEF QuestionShape, MembershipIsCurrent
  <2>3. row' = row /\ asked' = asked
    BY <1>3 DEF Claim
  <2>4. journal'[s].epoch = journal[s].epoch
    <3>1. Claim(s) /\ AdmitAnswer => FALSE
      BY <1>0, <2>1, <2>3, StreamFirst, ClaimFacts, <1>3 DEF Claim, AdmitAnswer, Foremost, AnswerShape
    <3> QED BY <1>3, <3>1, JournalStands
  <2> QED BY <1>0, <1>1, <2>1, <2>2, <2>3, <2>4 DEF ActsAsAsked
<1> QED BY <1>2, <1>3, ActedFrame

\* An answer that keeps its choice stays pending: settling discards the choice.
LEMMA ChoiceKeepsPending ==
    ASSUME IInv, [Next]_vars, NEW s \in Answers, Pending(s), choice'[s] # 0, ~AdmitAnswer
    PROVE  Pending(s)'
<1>0. /\ journal \in [Answers -> EntryType] /\ choice \in [Answers -> {0} \cup Revisions]
  BY DEF IInv, QuestionsInv, TypeOK, EntryType
<1>1. CASE \E v \in Revisions : Ask(v) \/ Delivering(v) \/ Refuse(v) \/ Echo(v) \/ Redact(v)
  BY <1>1 DEF Pending, Ask, Delivering, Accept, Acknowledge, Refuse, Echo, Redact
<1>2. CASE \E m \in Messages : Refetch(m)
  BY <1>2 DEF Pending, Refetch
<1>3. ASSUME NEW t \in Answers, Claim(t) \/ Pass(t) PROVE Pending(s)'
  <2>1. \E c : journal' = [journal EXCEPT ![t].consumer = c]
    BY <1>3 DEF Claim, Pass
  <2> QED BY <1>0, <2>1 DEF EntryType, Pending
<1>4. ASSUME NEW t \in Answers, Settled(t) PROVE Pending(s)'
  <2>1. t # s
    BY <1>0, <1>4 DEF Settled
  <2> QED BY <1>0, <1>4, <2>1 DEF Settled, Pending
<1>5. CASE \E t \in Answers : Answer(t) \/ Fail(t) \/ Ignore(t) \/ Finish(t)
  BY <1>4, <1>5 DEF Answer, Fail, Ignore, Finish, Pending
<1>6. CASE AdmitRedaction \/ Barrier \/ Retry \/ ScheduleRecovery \/ PassEnds \/ Rejoin \/ Crash
  BY <1>6 DEF AdmitRedaction, Barrier, Retry, ScheduleRecovery, PassEnds, Rejoin, Crash, Pending
<1>7. CASE Depart
  <2>1. choice'[s] = 0
    BY <1>0, <1>7 DEF Depart, Forget
  <2> QED BY <2>1
<1>8. CASE UNCHANGED vars
  BY <1>8 DEF vars, Pending
<1> QED BY <1>1, <1>2, <1>3, <1>5, <1>6, <1>7, <1>8 DEF Next, Running, Admitting

\* Whatever erases a prompt or gives it away discards the choices frozen on it.
LEMMA ChoicesStep ==
    ASSUME IInv, [Next]_vars
    PROVE  ChoicesAreLive'
<1>0. /\ TypeOK /\ ChoicesAreLive /\ QuestionShape /\ QuestionShape'
      /\ choice \in [Answers -> {0} \cup Revisions] /\ question \in [Revisions -> {"none", "open"} \cup Answers]
      /\ journal \in [Answers -> EntryType]
  BY QuestionStep DEF IInv, QuestionsInv, TypeOK, EntryType
<1>1. ASSUME NEW s \in Answers, choice'[s] # 0, choice'[s] = choice[s], ~(AdmitAnswer /\ stream[1].of = s)
      PROVE  /\ Pending(s)' /\ journal'[s].epoch = epoch'
             /\ question'[choice[s]] \in {"open", s}
  <2>0. /\ choice[s] \in Revisions /\ Pending(s) /\ journal[s].epoch = epoch
        /\ question[choice[s]] \in {"open", s} /\ question[choice[s]] # "none"
    BY <1>0, <1>1, QuestionsAssumption DEF ChoicesAreLive
  <2>1. ~Depart
    <3>1. Depart => choice'[s] = 0
      BY <2>0 DEF Depart, Forget
    <3> QED BY <1>1, <3>1
  <2>2. Pending(s)'
    <3>1. CASE AdmitAnswer
      <4>1. stream[1].of \in Answers /\ stream[1].of # s
        BY <1>0, <1>1, <3>1, StreamFirst DEF AdmitAnswer, Foremost
      <4> QED BY <1>0, <2>0, <3>1, <4>1 DEF AdmitAnswer, Pending
    <3>2. CASE ~AdmitAnswer
      BY <1>1, <2>0, <3>2, ChoiceKeepsPending
    <3> QED BY <3>1, <3>2
  <2>3. journal'[s].epoch = epoch'
    BY <1>1, <2>0, <2>1, JournalStands, RowStands
  <2>4. ASSUME NEW u \in Revisions, Shows(u) PROVE question'[choice[s]] = question[choice[s]]
    BY <1>0, <2>0, <2>4 DEF Shows, Recorded
  <2>5. ASSUME NEW S, Forget(S) PROVE question'[choice[s]] = question[choice[s]]
    BY <1>1, <2>0, <2>5 DEF Forget
  <2>6. ASSUME NEW t \in Answers, Claim(t) PROVE question'[choice[s]] \in {"open", s}
    <3>1. question' = [question EXCEPT ![choice[t]] = t] /\ (t # s => choice[t] # choice[s])
      BY <1>1, <2>6 DEF Claim
    <3> QED BY <1>0, <2>0, <3>1
  <2>7. question'[choice[s]] \in {"open", s}
    BY <2>0, <2>1, <2>4, <2>5, <2>6, ProjectionCases DEF Drops, Strikes
  <2> QED BY <2>2, <2>3, <2>7
<1>2. ASSUME NEW s \in Answers, choice'[s] # 0, AdmitAnswer, stream[1].of = s
      PROVE  /\ choice'[s] \in Revisions /\ Pending(s)' /\ journal'[s].epoch = epoch'
             /\ question'[choice'[s]] \in {"open", s}
  <2>1. /\ journal'[s] = [state |-> "pending", consumer |-> "none", epoch |-> epoch] /\ epoch' = epoch
        /\ choice'[s] = Snapshot(s) /\ question' = question
    BY <1>0, <1>2 DEF AdmitAnswer
  <2>2. Snapshot(s) \in Revisions /\ question[Snapshot(s)] = "open"
    BY <1>2, <2>1, SnapshotIsActive DEF Active
  <2> QED BY <2>1, <2>2 DEF Pending
<1>3. ASSUME NEW s \in Answers, choice'[s] # 0
      PROVE  /\ choice'[s] \in Revisions /\ Pending(s)' /\ journal'[s].epoch = epoch'
             /\ question'[choice'[s]] \in {"open", s}
  <2>1. CASE AdmitAnswer /\ stream[1].of = s
    BY <1>2, <1>3, <2>1
  <2>2. CASE ~(AdmitAnswer /\ stream[1].of = s)
    <3>1. choice'[s] = choice[s]
      <4>1. CASE AdmitAnswer
        BY <1>0, <2>2, <4>1 DEF AdmitAnswer
      <4>2. CASE ~AdmitAnswer
        BY <1>3, <4>2, ChoiceFrame
      <4> QED BY <4>1, <4>2
    <3> QED BY <1>0, <1>1, <1>3, <2>2, <3>1
  <2> QED BY <2>1, <2>2
<1> SUFFICES ASSUME NEW s \in Answers, choice'[s] # 0
             PROVE  /\ Pending(s)' /\ journal'[s].epoch = epoch'
                    /\ choice'[s] \notin tombs' /\ visible'[Of[choice'[s]]] # 0
                    /\ question'[choice'[s]] \in {"open", s}
  BY DEF ChoicesAreLive
<1>4. question'[choice'[s]] # "none"
  BY <1>3, QuestionsAssumption
<1> QED BY <1>0, <1>3, <1>4 DEF QuestionShape

\* The barrier holds an answer back while the room may show what the projection
\* does not.
LEMMA PromptStep ==
    ASSUME IInv, [Next]_vars
    PROVE  PromptComesFirst'
<1>0. PromptComesFirst /\ RowShape /\ AckedIsVisible /\ row \in [Revisions -> RowType]
      /\ visible \in [Messages -> {0} \cup Revisions]
  BY DEF IInv, QuestionsInv, TypeOK, RowType
<1>1. CASE AdmitAnswer
  <2>1. ASSUME NEW m \in Messages, Lags(m) PROVE FALSE
    <3>1. PICK v \in Revisions : /\ Of[v] = m /\ room[m] = "shown" /\ room[v] = "shown"
                                 /\ row[v].epoch = epoch /\ v > visible[m]
      BY <2>1 DEF Lags, RevisionsOf
    <3>2. row[v].state \in {"attempted", "acked"}
      BY <1>0, <3>1 DEF RowShape
    <3>3. row[v].state # "attempted"
      <4>1. row[v] = [state |-> row[v].state, epoch |-> row[v].epoch]
        BY <1>0 DEF RowType
      <4>2. row[v] # [state |-> "attempted", epoch |-> epoch]
        BY <1>1 DEF AdmitAnswer, Unprojected
      <4> QED BY <3>1, <4>1, <4>2
    <3>4. visible[m] >= v
      BY <1>0, <3>1, <3>2, <3>3 DEF AckedIsVisible
    <3>5. v \in Nat /\ visible[m] \in Nat
      <4>1. visible[m] \in {0} \cup Revisions
        BY <1>0
      <4> QED BY <4>1, RevisionsCount
    <3> QED BY <3>1, <3>4, <3>5
  <2> QED BY <1>0, <1>1, <2>1 DEF AdmitAnswer, PromptComesFirst
<1>2. CASE \E v \in Revisions : Ask(v) \/ Delivering(v) \/ Refuse(v) \/ Echo(v) \/ Redact(v)
  BY <1>0, <1>2 DEF PromptComesFirst, Ask, Delivering, Accept, Acknowledge, Refuse, Echo, Redact, history
<1>3. CASE \E m \in Messages : Refetch(m)
  BY <1>0, <1>3 DEF PromptComesFirst, Refetch, history
<1>4. CASE \E s \in Answers : Answer(s) \/ Running(s) \/ Fail(s)
  BY <1>0, <1>4 DEF PromptComesFirst, Answer, Running, Claim, Pass, Ignore, Finish, Fail, history
<1>5. CASE AdmitRedaction \/ Barrier \/ Retry \/ ScheduleRecovery \/ PassEnds \/ Depart \/ Rejoin \/ Crash
  BY <1>0, <1>5 DEF PromptComesFirst, AdmitRedaction, Barrier, Retry, ScheduleRecovery, PassEnds,
                    Depart, Rejoin, Crash, history
<1>6. CASE UNCHANGED vars
  BY <1>0, <1>6 DEF PromptComesFirst, vars, history
<1> QED BY <1>1, <1>2, <1>3, <1>4, <1>5, <1>6 DEF Next, Admitting

-----------------------------------------------------------------------------
(* The theorem.                                                            *)

\* The initial states satisfy the inductive invariant.
LEMMA InitIInv ==
    ASSUME Init
    PROVE  IInv
<1> USE QuestionsAssumption DEF Init
<1>1. TypeOK
  <2>1. NoRow \in RowType /\ NoEntry \in EntryType
    BY DEF NoRow, RowType, NoEntry, EntryType
  <2>2. /\ row \in [Revisions -> RowType] /\ journal \in [Answers -> EntryType]
        /\ pump \in [at : {"idle", "waiting"}, recovery : BOOLEAN, progress : BOOLEAN]
    BY <2>1 DEF Quiet
  <2>3. stream \in Seq(EventType) /\ epoch \in 0..MaxEpoch /\ troubles \in 0..MaxTroubles
    OBVIOUS
  <2> QED BY <2>2, <2>3 DEF TypeOK, RowType, EntryType, EventType
<1>2. ChosenOnce /\ ActsAsAsked /\ ChoicesAreLive /\ PromptComesFirst
  BY DEF ChosenOnce, ActsAsAsked, ChoicesAreLive, PromptComesFirst
<1>3. RowShape /\ AckedIsVisible
  BY DEF RowShape, AckedIsVisible, NoRow
<1>4. RedactionShape /\ AnswerShape /\ QuestionShape /\ Spent
  BY DEF RedactionShape, AnswerShape, QuestionShape, Spent
<1> QED BY <1>1, <1>2, <1>3, <1>4 DEF IInv, QuestionsInv

\* Whatever people answer, whoever edits, redacts or fails, and whenever the agent
\* leaves, returns or restarts: a prompt is acted upon for one answer, an answer
\* acts on the one revision that was frozen for it, frozen choices stay usable,
\* and no answer is admitted ahead of the prompt it may be about.
THEOREM QuestionsCorrect == Spec => []QuestionsInv
<1>1. Init => IInv
  BY InitIInv
<1>2. IInv /\ [Next]_vars => IInv'
  <2> SUFFICES ASSUME IInv, [Next]_vars PROVE IInv'
    OBVIOUS
  <2>1. TypeOK'
    BY TypeStep DEF IInv, QuestionsInv
  <2>2. QuestionsInv'
    BY <2>1, ChosenOnceStep, ActsAsAskedStep, ChoicesStep, PromptStep DEF QuestionsInv
  <2> QED BY <2>2, RowStep, RedactionStep, AnswerStep, QuestionStep, SpentStep, AckedStep DEF IInv
<1>3. IInv => QuestionsInv
  BY DEF IInv
<1> QED BY <1>1, <1>2, <1>3, PTL DEF Spec
===============================================================================
