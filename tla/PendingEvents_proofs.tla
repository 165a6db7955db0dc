------------------------- MODULE PendingEvents_proofs -------------------------
(***************************************************************************)
(* The pending events, for any stream, any page limits and any number of   *)
(* troubles. The journal: no batch is forgotten before the journal has its *)
(* events, and nothing settled is owed again. The worker's memory: a       *)
(* room's count is the number of its deferrals, and a room that still      *)
(* needs its record has one. The lanes: callbacks of a room start in       *)
(* receipt order, because a lane never moves past an event that nobody     *)
(* else answers for unless its room is to be read again. And a callback is *)
(* not run twice without a cooldown between, because the mark of a room    *)
(* covers whatever has run since and the room could come back to.          *)
(***************************************************************************)
EXTENDS PendingEvents, TLAPS, WellFoundedInduction, SequenceTheorems, FiniteSetTheorems

BatchRecords == [admits : SUBSET Events, settles : SUBSET Events]
Loads == [batches : Seq(BatchRecords), turnBacked : SUBSET Events, batchSize : Nat \ {0},
          maxPages : Nat \ {0}, troubles : Nat]

\* The rows, the positions in the stream and the workload have their types.
JournalTypes ==
    /\ load \in Loads
    /\ state \in [Events -> {"none", "pending", "settled"}]
    /\ nextSequence \in 1..(Len(Batches) + 1) /\ acked \in 0..Len(Batches) /\ ingest \in {"idle", "hooks"}

\* The journal is where nio is or one batch ahead, which it is while the hooks run.
Positions ==
    /\ nextSequence \in {acked + 1, acked + 2}
    /\ ingest = "hooks" => nextSequence = acked + 2

\* The events of every batch the journal has committed have a row.
CommittedIsJournaled ==
    \A b \in 1..(nextSequence - 1) : \A e \in Batches[b].admits : state[e] # "none"

JournalInv == JournalTypes /\ Positions /\ CommittedIsJournaled

-----------------------------------------------------------------------------
(* What a step may do to the journal.                                      *)

\* Steps spend troubles; the stream stays.
SameLoad == load' = load \/ (load.troubles > 0 /\ load' = [load EXCEPT !.troubles = @ - 1])

\* An event is settled, and nothing else happens to the journal.
Settles ==
    /\ \E e : state' = [state EXCEPT ![e] = "settled"]
    /\ UNCHANGED <<nextSequence, acked, ingest>>

\* The journal stands; a crash or a failure lets the pump begin again.
Stands == UNCHANGED <<state, nextSequence, acked>> /\ ingest' \in {ingest, "idle"}

LEMMA StepCases ==
    ASSUME [Next]_vars
    PROVE  /\ SameLoad
           /\ AdmitBatch \/ AckBatch \/ Settles \/ Stands
<1> USE DEF SameLoad, Settles, Stands
<1>1. CASE AdmitBatch \/ AckBatch \/ IngestFails
  BY <1>1 DEF AdmitBatch, AckBatch, IngestFails, Trouble, durable
<1>2. CASE PumpWakes \/ PumpReads \/ PumpFails \/ RetryTimer \/ DeferralScan
  BY <1>2 DEF PumpWakes, PumpReads, PumpFails, RetryTimer, DeferralScan, Trouble, durable
<1>3. CASE DrainStarts \/ DrainReads \/ BeginShutdown \/ Restart \/ Crash
  BY <1>3 DEF DrainStarts, DrainReads, BeginShutdown, Restart, Crash, Trouble, durable
<1>4. ASSUME NEW r \in Rooms, LaneStep(r)
      PROVE  SameLoad /\ (Settles \/ Stands)
  BY <1>4 DEF LaneStep, LaneReads, LaneGetsPage, LaneChecks, LaneAdmits, CallbackSettles, CallbackDefers,
              LaneSettles, LaneFinished, LaneCancelled, durable
<1>5. ASSUME NEW r \in Rooms,
             LaneFails(r) \/ TurnClaims(r) \/ CooldownEnds(r) \/ RoomRetryFinished(r) \/ DrainRoom(r)
      PROVE  SameLoad /\ Stands
  BY <1>5 DEF LaneFails, TurnClaims, CooldownEnds, RoomRetryFinished, DrainRoom, Trouble, durable
<1>6. ASSUME NEW e \in Events, TurnEnds(e) \/ TurnCleanup(e)
      PROVE  SameLoad /\ (Settles \/ Stands)
  BY <1>6 DEF TurnEnds, TurnAnswers, TurnIgnores, TurnCleanup, ReleaseDelivered, SettleIgnored, DropClaim,
              LateHandoff, ApprovalDecides, durable
<1>7. ASSUME NEW e \in Events, TurnRetries(e) \/ TurnPauses(e) \/ TurnVanishes(e) \/ SettleIgnoredFails(e)
      PROVE  SameLoad /\ Stands
  BY <1>7 DEF TurnRetries, TurnPauses, TurnVanishes, SettleIgnoredFails, Trouble, durable
<1>8. CASE UNCHANGED vars
  BY <1>8 DEF vars, durable
<1> QED BY <1>1, <1>2, <1>3, <1>4, <1>5, <1>6, <1>7, <1>8 DEF Next

-----------------------------------------------------------------------------
(* The invariant.                                                          *)

\* A committed batch gives each of its events a row, and takes none away.
LEMMA AppliedFacts ==
    ASSUME state \in [Events -> {"none", "pending", "settled"}], NEW b \in BatchRecords, state' = Applied(b)
    PROVE  /\ state' \in [Events -> {"none", "pending", "settled"}]
           /\ \A e \in b.admits : state'[e] # "none"
           /\ \A e \in Events : /\ state[e] # "none" => state'[e] # "none"
                                /\ state[e] = "settled" => state'[e] = "settled"
<1>1. b.admits \subseteq Events
  BY DEF BatchRecords
<1>2. ASSUME NEW e \in Events
      PROVE  /\ state'[e] \in {"none", "pending", "settled"}
             /\ e \in b.admits => state'[e] # "none"
             /\ state[e] # "none" => state'[e] # "none"
             /\ state[e] = "settled" => state'[e] = "settled"
  <2>1. state'[e] = CASE e \in b.admits /\ state[e] = "none" -> "pending"
                      [] e \in b.settles /\ state[e] = "pending" -> "settled"
                      [] OTHER -> state[e]
    BY DEF Applied
  <2> QED BY <2>1
<1>3. DOMAIN state' = Events /\ state' = [e \in Events |-> state'[e]]
  BY DEF Applied
<1> QED BY <1>1, <1>2, <1>3

LEMMA InitJournal ==
    ASSUME Init
    PROVE  JournalInv
<1>1. load \in Loads
  BY PendingAssumption DEF Init, Loads, BatchRecords
<1>2. Len(Batches) \in Nat
  BY <1>1 DEF Loads, Batches
<1> QED BY <1>1, <1>2 DEF Init, JournalInv, JournalTypes, Positions, CommittedIsJournaled

\* What troubles are left says nothing about the rest of the workload.
LEMMA LoadSpent ==
    ASSUME NEW l \in Loads, NEW n \in Nat
    PROVE  [l EXCEPT !.troubles = n] \in Loads /\ [l EXCEPT !.troubles = n].batches = l.batches
<1> DEFINE B == Seq(BatchRecords)
<1>1. Loads = [batches : B, turnBacked : SUBSET Events, batchSize : Nat \ {0}, maxPages : Nat \ {0}, troubles : Nat]
  BY DEF Loads
<1> HIDE DEF B
<1> QED BY <1>1

\* The stream stays.
LEMMA LoadStays ==
    ASSUME load \in Loads, [Next]_vars
    PROVE  load' \in Loads /\ Batches' = Batches
<1>1. SameLoad
  BY StepCases
<1>2. load.troubles \in Nat
  BY DEF Loads
<1>3. load.troubles > 0 => load.troubles - 1 \in Nat
  BY <1>2
<1>4. load' = load \/ (load.troubles - 1 \in Nat /\ load' = [load EXCEPT !.troubles = load.troubles - 1])
  BY <1>1, <1>3 DEF SameLoad
<1>5. CASE load' = load
  BY <1>5 DEF Batches
<1>6. CASE load' # load
  <2>1. load.troubles - 1 \in Nat /\ load' = [load EXCEPT !.troubles = load.troubles - 1]
    BY <1>4, <1>6
  <2>2. load' \in Loads /\ load'.batches = load.batches
    BY <2>1, LoadSpent, Zenon
  <2> QED BY <2>2 DEF Batches
<1> QED BY <1>5, <1>6

LEMMA JournalStep ==
    ASSUME JournalInv, [Next]_vars
    PROVE  JournalInv'
<1>0. /\ load \in Loads /\ state \in [Events -> {"none", "pending", "settled"}]
      /\ Batches \in Seq(BatchRecords) /\ Len(Batches) \in Nat
      /\ nextSequence \in 1..(Len(Batches) + 1) /\ acked \in 0..Len(Batches) /\ ingest \in {"idle", "hooks"}
      /\ Positions /\ CommittedIsJournaled
  BY DEF JournalInv, JournalTypes, Loads, Batches
<1>1. load' \in Loads /\ Batches' = Batches
  BY <1>0, LoadStays
<1>2. \A b \in 1..Len(Batches) : Batches[b] \in BatchRecords /\ Batches[b].admits \subseteq Events
  <2>1. \A b \in 1..Len(Batches) : Batches[b] \in BatchRecords
    BY <1>0
  <2> QED BY <2>1 DEF BatchRecords
<1>3. CASE AdmitBatch
  <2>1. /\ ingest = "idle" /\ acked < Len(Batches) /\ ingest' = "hooks" /\ acked' = acked
        /\ IF nextSequence = acked + 1
           THEN nextSequence' = nextSequence + 1 /\ state' = Applied(Batches[acked + 1])
           ELSE UNCHANGED <<nextSequence, state>>
    BY <1>3 DEF AdmitBatch
  <2>2. CASE nextSequence = acked + 1
    <3>1. Batches[acked + 1] \in BatchRecords
      BY <1>0, <1>2, <2>1
    <3>2. /\ state' \in [Events -> {"none", "pending", "settled"}]
          /\ \A e \in Batches[acked + 1].admits : state'[e] # "none"
          /\ \A e \in Events : state[e] # "none" => state'[e] # "none"
      BY <1>0, <2>1, <2>2, <3>1, AppliedFacts
    <3>3. ASSUME NEW b \in 1..(nextSequence' - 1), NEW e \in Batches[b].admits PROVE state'[e] # "none"
      <4>1. b = acked + 1 \/ b \in 1..(nextSequence - 1)
        BY <1>0, <2>1, <2>2
      <4>2. e \in Events
        BY <1>0, <1>2, <2>1, <2>2
      <4> QED BY <1>0, <3>2, <4>1, <4>2 DEF CommittedIsJournaled
    <3> QED BY <1>0, <1>1, <2>1, <2>2, <3>2, <3>3 DEF JournalInv, JournalTypes, Positions, CommittedIsJournaled
  <2>3. CASE nextSequence # acked + 1
    BY <1>0, <1>1, <2>1, <2>3 DEF JournalInv, JournalTypes, Positions, CommittedIsJournaled
  <2> QED BY <2>2, <2>3
<1>4. CASE AckBatch
  <2>1. /\ ingest = "hooks" /\ ingest' = "idle" /\ acked' = acked + 1 /\ UNCHANGED <<state, nextSequence>>
    BY <1>4 DEF AckBatch
  <2> QED BY <1>0, <1>1, <2>1 DEF JournalInv, JournalTypes, Positions, CommittedIsJournaled
<1>5. CASE Settles
  <2>1. PICK x : state' = [state EXCEPT ![x] = "settled"]
    BY <1>5 DEF Settles
  <2>2. UNCHANGED <<nextSequence, acked, ingest>>
    BY <1>5 DEF Settles
  <2>3. state' \in [Events -> {"none", "pending", "settled"}] /\ \A e \in Events : state[e] # "none" => state'[e] # "none"
    BY <1>0, <2>1
  <2>4. \A b \in 1..(nextSequence - 1) : Batches[b].admits \subseteq Events
    BY <1>0, <1>2
  <2> QED BY <1>0, <1>1, <2>2, <2>3, <2>4 DEF JournalInv, JournalTypes, Positions, CommittedIsJournaled
<1>6. CASE Stands
  BY <1>0, <1>1, <1>6 DEF Stands, JournalInv, JournalTypes, Positions, CommittedIsJournaled
<1> QED BY <1>3, <1>4, <1>5, <1>6, StepCases

-----------------------------------------------------------------------------
(* The theorems.                                                           *)

LEMMA JournalHolds == Spec => []JournalInv
<1>1. Init => JournalInv
  BY InitJournal
<1>2. JournalInv /\ [Next]_vars => JournalInv'
  BY JournalStep
<1> QED BY <1>1, <1>2, PTL DEF Spec

\* nio forgets a batch only once the journal has a row for each of its events,
\* whatever hook fails, and however often the process dies between the commit and
\* the acknowledgement.
THEOREM NoBatchLost == Spec => []AckedIsJournaled
<1>1. JournalInv => AckedIsJournaled
  <2> SUFFICES ASSUME JournalInv PROVE AckedIsJournaled
    OBVIOUS
  <2>1. acked \in Nat /\ nextSequence \in Nat /\ acked <= nextSequence - 1
    BY DEF JournalInv, JournalTypes, Positions
  <2> QED BY <2>1 DEF JournalInv, CommittedIsJournaled, AckedIsJournaled
<1> QED BY <1>1, JournalHolds, PTL

\* An event that was settled is never owed again, whichever batch repeats it.
THEOREM SettledStays == Spec => SettledForever
<1>1. JournalInv /\ [Next]_vars => [\A e \in Events : state[e] = "settled" => state'[e] = "settled"]_vars
  <2> SUFFICES ASSUME JournalInv, [Next]_vars, NEW e \in Events, state[e] = "settled"
               PROVE  state'[e] = "settled"
    OBVIOUS
  <2>0. /\ state \in [Events -> {"none", "pending", "settled"}] /\ Batches \in Seq(BatchRecords)
        /\ acked \in Nat
    BY DEF JournalInv, JournalTypes, Loads, Batches
  <2>1. CASE AdmitBatch
    <3>1. state' = state \/ (acked < Len(Batches) /\ state' = Applied(Batches[acked + 1]))
      BY <2>1 DEF AdmitBatch
    <3>2. acked < Len(Batches) => Batches[acked + 1] \in BatchRecords
      BY <2>0
    <3> QED BY <2>0, <3>1, <3>2, AppliedFacts
  <2>2. CASE AckBatch \/ Settles \/ Stands
    BY <2>0, <2>2 DEF AckBatch, Settles, Stands
  <2> QED BY <2>1, <2>2, StepCases
<1> QED BY <1>1, JournalHolds, PTL DEF Spec, SettledForever

-----------------------------------------------------------------------------
(* Least and greatest elements, and the deferred events as a sequence      *)
(* without repetition.                                                     *)

LEMMA MinFacts ==
    ASSUME NEW S \in SUBSET Nat, S # {}
    PROVE  Min(S) \in S /\ \A i \in S : Min(S) <= i
<1> DEFINE Less == {p \in Nat \X Nat : p[1] < p[2]}
<1>1. IsWellFoundedOn(Less, Nat)
  BY NatLessThanWellFounded DEF OpToRel
<1>2. PICK x \in S : \A y \in S : ~(<<y, x>> \in Less)
  <2> HIDE DEF Less
  <2> QED BY <1>1, WFMin
<1>3. \A y \in S : x <= y
  <2> TAKE y \in S
  <2>1. ~(<<y, x>> \in Less)
    BY <1>2
  <2> QED BY <2>1
<1> QED BY <1>3 DEF Min

LEMMA MaxFacts ==
    ASSUME NEW S \in SUBSET Events, S # {}
    PROVE  Max(S) \in S /\ \A i \in S : Max(S) >= i
<1> DEFINE T == {MaxEvent - i : i \in S}
<1>1. MaxEvent \in Nat /\ \A i \in S : i \in Nat /\ i <= MaxEvent
  BY PendingAssumption DEF Events
<1>2. T \in SUBSET Nat /\ T # {}
  BY <1>1
<1>3. PICK x \in S : Min(T) = MaxEvent - x
  BY <1>2, MinFacts
<1>4. \A i \in S : x >= i
  <2> TAKE i \in S
  <2>1. Min(T) <= MaxEvent - i
    <3> HIDE DEF T
    <3>1. MaxEvent - i \in T
      BY DEF T
    <3> QED BY <1>2, <3>1, MinFacts
  <2> QED BY <1>1, <1>3, <2>1
<1> QED BY <1>4 DEF Max

-----------------------------------------------------------------------------
(* The deferred events: a sequence without repetition.                     *)

NoRepeat(s) == \A i, j \in DOMAIN s : s[i] = s[j] => i = j

LEMMA SeqFacts ==
    ASSUME NEW s \in Seq(Events)
    PROVE  /\ Len(s) \in Nat /\ DOMAIN s = 1..Len(s) /\ Range(s) \subseteq Events
           /\ \A i \in 1..Len(s) : s[i] \in Events /\ s[i] \in Range(s)
           /\ Range(s) = {s[i] : i \in 1..Len(s)}
           /\ s = <<>> <=> Range(s) = {}
           /\ Range(<<>>) = {} /\ NoRepeat(<<>>)
BY DEF Range, NoRepeat

LEMMA AppendFacts ==
    ASSUME NEW s \in Seq(Events), NoRepeat(s), NEW e \in Events, e \notin Range(s)
    PROVE  /\ Append(s, e) \in Seq(Events) /\ NoRepeat(Append(s, e)) /\ Len(Append(s, e)) = Len(s) + 1
           /\ Range(Append(s, e)) = Range(s) \cup {e}
<1> DEFINE t == Append(s, e)
<1>1. /\ t \in Seq(Events) /\ Len(t) = Len(s) + 1 /\ t[Len(s) + 1] = e
      /\ \A i \in 1..Len(s) : t[i] = s[i]
  OBVIOUS
<1>2. DOMAIN t = 1..(Len(s) + 1) /\ DOMAIN s = 1..Len(s) /\ Len(s) \in Nat
  BY <1>1, SeqFacts
<1> HIDE DEF t
<1>3. \A i \in 1..Len(s) : t[i] # e
  BY <1>1, <1>2 DEF Range
<1>4. NoRepeat(t)
  <2> SUFFICES ASSUME NEW i \in 1..(Len(s) + 1), NEW j \in 1..(Len(s) + 1), t[i] = t[j] PROVE i = j
    BY <1>2 DEF NoRepeat
  <2>1. CASE i \in 1..Len(s) /\ j \in 1..Len(s)
    BY <1>1, <1>2, <2>1 DEF NoRepeat
  <2>2. CASE i = Len(s) + 1 \/ j = Len(s) + 1
    BY <1>1, <1>2, <1>3, <2>2
  <2> QED BY <1>2, <2>1, <2>2
<1>5. Range(t) = Range(s) \cup {e}
  <2>1. ASSUME NEW i \in 1..(Len(s) + 1) PROVE t[i] \in Range(s) \cup {e}
    <3>1. i \in 1..Len(s) \/ i = Len(s) + 1
      BY <1>2
    <3> QED BY <1>1, <1>2, <3>1 DEF Range
  <2>2. e \in Range(t) /\ \A i \in 1..Len(s) : s[i] \in Range(t)
    <3>1. Len(s) + 1 \in DOMAIN t /\ \A i \in 1..Len(s) : i \in DOMAIN t
      BY <1>2
    <3> QED BY <1>1, <3>1 DEF Range
  <2> QED BY <1>2, <2>1, <2>2 DEF Range
<1> QED BY <1>1, <1>4, <1>5 DEF t

LEMMA TailFacts ==
    ASSUME NEW s \in Seq(Events), NoRepeat(s), s # <<>>
    PROVE  /\ Tail(s) \in Seq(Events) /\ NoRepeat(Tail(s)) /\ Len(Tail(s)) = Len(s) - 1
           /\ Head(s) \in Range(s) /\ Head(s) \in Events
           /\ Range(Tail(s)) = Range(s) \ {Head(s)}
<1> DEFINE t == Tail(s)
<1>1. /\ t \in Seq(Events) /\ Len(t) = Len(s) - 1 /\ Head(s) = s[1] /\ Len(s) \in Nat /\ Len(s) > 0
      /\ \A i \in 1..Len(t) : t[i] = s[i + 1]
  OBVIOUS
<1>2. DOMAIN t = 1..(Len(s) - 1) /\ DOMAIN s = 1..Len(s)
  BY <1>1, SeqFacts
<1> HIDE DEF t
<1>3. NoRepeat(t)
  <2> SUFFICES ASSUME NEW i \in 1..(Len(s) - 1), NEW j \in 1..(Len(s) - 1), t[i] = t[j] PROVE i = j
    BY <1>2 DEF NoRepeat
  <2>1. t[i] = s[i + 1] /\ t[j] = s[j + 1]
    BY <1>1
  <2>2. i + 1 \in DOMAIN s /\ j + 1 \in DOMAIN s
    BY <1>1, <1>2
  <2>3. i + 1 = j + 1
    BY <2>1, <2>2 DEF NoRepeat
  <2> QED BY <1>1, <2>3
<1>4. \A i \in 2..Len(s) : s[i] = t[i - 1] /\ i - 1 \in DOMAIN t /\ s[i] # s[1]
  BY <1>1, <1>2 DEF NoRepeat
<1>5. \A i \in DOMAIN t : i + 1 \in 2..Len(s) /\ t[i] = s[i + 1]
  BY <1>1, <1>2
<1>6. Range(t) = Range(s) \ {s[1]}
  <2>1. ASSUME NEW i \in DOMAIN t PROVE t[i] \in Range(s) \ {s[1]}
    BY <1>1, <1>2, <1>4, <1>5 DEF Range
  <2>2. ASSUME NEW i \in DOMAIN s, s[i] # s[1] PROVE s[i] \in Range(t)
    <3>1. i \in 2..Len(s)
      BY <1>1, <1>2, <2>2
    <3> QED BY <1>4, <3>1 DEF Range
  <2> QED BY <2>1, <2>2 DEF Range
<1>7. 1 \in DOMAIN s
  BY <1>1, <1>2
<1> QED BY <1>1, <1>3, <1>6, <1>7 DEF t, Range

LEMMA RemoveFacts ==
    ASSUME NEW s \in Seq(Events), NoRepeat(s), NEW e \in Range(s)
    PROVE  /\ Without(s, e) \in Seq(Events) /\ NoRepeat(Without(s, e)) /\ Len(Without(s, e)) = Len(s) - 1
           /\ Range(Without(s, e)) = Range(s) \ {e}
<1>0. Len(s) \in Nat /\ DOMAIN s = 1..Len(s) /\ \A i \in 1..Len(s) : s[i] \in Events
  BY SeqFacts
<1>1. \E i \in DOMAIN s : s[i] = e
  BY <1>0 DEF Range
<1>2. PICK k \in 1..Len(s) : s[k] = e /\ k = CHOOSE i \in DOMAIN s : s[i] = e
  BY <1>0, <1>1
<1>3. Without(s, e) = RemoveAt(s, k)
  BY <1>2 DEF Without
<1> DEFINE a == SubSeq(s, 1, k - 1)
           b == SubSeq(s, k + 1, Len(s))
           t == a \o b
<1>k. k \in Int /\ 1 <= k /\ k <= Len(s) /\ s[k] = e
  BY <1>0, <1>2
<1>4. /\ a \in Seq(Events) /\ Len(a) = k - 1 /\ \A i \in 1..(k - 1) : a[i] = s[i]
      /\ b \in Seq(Events) /\ Len(b) = Len(s) - k /\ \A i \in 1..(Len(s) - k) : b[i] = s[k + i]
  <2>1. /\ a \in Seq(Events) /\ Len(a) = IF 1 <= k - 1 THEN k - 1 - 1 + 1 ELSE 0
        /\ \A i \in 1..(k - 1 - 1 + 1) : a[i] = s[1 + i - 1]
    <3>1. 1 \in Int /\ k - 1 \in Int /\ \A i \in 1..(k - 1) : s[i] \in Events
      BY <1>0, <1>k
    <3> QED BY <3>1, SubSeqProperties
  <2>2. /\ b \in Seq(Events) /\ Len(b) = IF k + 1 <= Len(s) THEN Len(s) - (k + 1) + 1 ELSE 0
        /\ \A i \in 1..(Len(s) - (k + 1) + 1) : b[i] = s[k + 1 + i - 1]
    <3>1. k + 1 \in Int /\ Len(s) \in Int /\ \A i \in (k + 1)..Len(s) : s[i] \in Events
      BY <1>0, <1>k
    <3> QED BY <3>1, SubSeqProperties
  <2> HIDE DEF a, b
  <2>3. Len(a) = k - 1 /\ Len(b) = Len(s) - k
    <3>1. k - 1 \in Nat /\ Len(s) - k \in Nat
      BY <1>0, <1>k
    <3> DEFINE n == Len(s)
    <3>2. n \in Nat
      BY <1>0
    <3> HIDE DEF n
    <3>3. Len(a) = k - 1
      BY <1>k, <2>1
    <3>4. n = Len(s)
      BY DEF n
    <3>5. Len(b) = IF k + 1 <= n THEN n - (k + 1) + 1 ELSE 0
      BY <2>2, <3>4
    <3>6. k \in Int /\ k <= n
      BY <1>k, <3>4
    <3> HIDE <2>2
    <3>7. Len(b) = n - k
      BY <3>2, <3>5, <3>6
    <3> QED BY <3>3, <3>4, <3>7
  <2>4. ASSUME NEW i \in 1..(k - 1) PROVE a[i] = s[i]
    <3>1. i \in 1..(k - 1 - 1 + 1) /\ 1 + i - 1 = i
      BY <1>k
    <3> QED BY <2>1, <3>1
  <2>5. ASSUME NEW i \in 1..(Len(s) - k) PROVE b[i] = s[k + i]
    <3>1. i \in 1..(Len(s) - (k + 1) + 1) /\ k + 1 + i - 1 = k + i
      BY <1>0, <1>k
    <3> QED BY <2>2, <3>1
  <2> QED BY <2>1, <2>2, <2>3, <2>4, <2>5
<1> HIDE DEF a, b
<1>5. /\ t \in Seq(Events) /\ Len(t) = Len(s) - 1
      /\ \A i \in 1..(Len(s) - 1) : (i < k => t[i] = s[i]) /\ (i >= k => t[i] = s[i + 1])
  <2>1. /\ t \in Seq(Events) /\ Len(t) = Len(a) + Len(b)
        /\ \A i \in 1..(Len(a) + Len(b)) : t[i] = IF i <= Len(a) THEN a[i] ELSE b[i - Len(a)]
    BY <1>4, ConcatProperties
  <2>2. Len(a) + Len(b) = Len(s) - 1
    BY <1>0, <1>k, <1>4
  <2>3. ASSUME NEW i \in 1..(Len(s) - 1) PROVE (i < k => t[i] = s[i]) /\ (i >= k => t[i] = s[i + 1])
    <3>1. t[i] = IF i <= Len(a) THEN a[i] ELSE b[i - Len(a)]
      BY <2>1, <2>2
    <3>2. CASE i < k
      <4>1. i <= Len(a) /\ i \in 1..(k - 1)
        BY <1>0, <1>k, <1>4, <3>2
      <4> QED BY <1>4, <3>1, <3>2, <4>1
    <3>3. CASE i >= k
      <4>1. ~(i <= Len(a)) /\ i - Len(a) \in 1..(Len(s) - k) /\ k + (i - Len(a)) = i + 1
        BY <1>0, <1>k, <1>4, <3>3
      <4> QED BY <1>4, <1>k, <3>1, <3>3, <4>1
    <3> QED BY <1>0, <1>k, <3>2, <3>3
  <2> QED BY <2>1, <2>2, <2>3
<1>6. DOMAIN t = 1..(Len(s) - 1)
  BY <1>5, SeqFacts
<1> HIDE DEF t
<1>m. ASSUME NEW i \in DOMAIN t
      PROVE  \E j \in DOMAIN s : j # k /\ t[i] = s[j] /\ (i < k => j = i) /\ (i >= k => j = i + 1)
  <2>1. i \in Int /\ 1 <= i /\ i <= Len(s) - 1
    BY <1>0, <1>6
  <2>2. CASE i < k
    BY <1>0, <1>k, <1>5, <1>6, <2>1, <2>2
  <2>3. CASE i >= k
    <3>1. i + 1 \in DOMAIN s /\ i + 1 # k /\ t[i] = s[i + 1]
      BY <1>0, <1>k, <1>5, <1>6, <2>1, <2>3
    <3> QED BY <1>k, <2>1, <2>3, <3>1
  <2> QED BY <1>k, <2>1, <2>2, <2>3
<1>7. NoRepeat(t)
  <2> SUFFICES ASSUME NEW i \in DOMAIN t, NEW j \in DOMAIN t, t[i] = t[j] PROVE i = j
    BY DEF NoRepeat
  <2>1. PICK x \in DOMAIN s : t[i] = s[x] /\ (i < k => x = i) /\ (i >= k => x = i + 1)
    BY <1>m
  <2>2. PICK y \in DOMAIN s : t[j] = s[y] /\ (j < k => y = j) /\ (j >= k => y = j + 1)
    BY <1>m
  <2>3. x = y
    BY <2>1, <2>2 DEF NoRepeat
  <2>4. i \in Int /\ j \in Int
    BY <1>0, <1>6
  <2> QED BY <1>k, <2>1, <2>2, <2>3, <2>4
<1>8. Range(t) = Range(s) \ {e}
  <2>1. ASSUME NEW i \in DOMAIN t PROVE t[i] \in Range(s) \ {e}
    <3>1. PICK j \in DOMAIN s : t[i] = s[j] /\ j # k
      BY <1>m
    <3>2. s[j] # e
      BY <1>0, <1>k, <3>1 DEF NoRepeat
    <3> QED BY <3>1, <3>2 DEF Range
  <2>2. ASSUME NEW i \in DOMAIN s, s[i] # e PROVE s[i] \in Range(t)
    <3>1. i # k
      BY <1>2, <2>2
    <3>2. CASE i < k
      <4>1. i \in 1..(Len(s) - 1) /\ t[i] = s[i]
        BY <1>0, <1>k, <1>5, <3>2
      <4> QED BY <1>6, <4>1 DEF Range
    <3>3. CASE i > k
      <4>1. i - 1 \in 1..(Len(s) - 1) /\ t[i - 1] = s[i]
        BY <1>0, <1>k, <1>5, <3>3
      <4> QED BY <1>6, <4>1 DEF Range
    <3> QED BY <1>0, <3>1, <3>2, <3>3
  <2> QED BY <2>1, <2>2 DEF Range
<1>9. Without(s, e) = t
  BY <1>3, <1>2 DEF RemoveAt, t, a, b
<1> QED BY <1>5, <1>7, <1>8, <1>9

-----------------------------------------------------------------------------
(* The worker's memory and the types of its parts.                         *)

Orders == 0..MaxEvent
LanePCs == {"off", "read", "page", "check", "checked", "callback", "settle", "done"}
AtEvent == {"check", "checked", "callback", "settle"}
ProgressRecords == [cursor : -1..MaxEvent, rewind : BOOLEAN, admitted : Orders, deferredCount : Nat]
RetryRecords == [at : {"none", "sleeping", "awake", "done"}, failed : Orders]
LaneRecords ==
    [pc : LanePCs, page : SUBSET Events, resume : Orders, end : BOOLEAN, pages : Nat, event : Orders,
     pending : BOOLEAN, handed : BOOLEAN, more : BOOLEAN, failed : BOOLEAN]
ScanRecords ==
    [on : BOOLEAN, origin : Orders, cursor : Orders, wrapped : BOOLEAN, pages : Nat, rooms : SUBSET Rooms,
     started : BOOLEAN]
Progresses == [Rooms -> ProgressRecords]
Retries == [Rooms -> RetryRecords]
Lanes == [Rooms -> LaneRecords]
Drainings == [Rooms -> {"off", "go", "own", "check"}]
Deferrals == {s \in Seq(Events) : NoRepeat(s)}
Memory ==
    [rooms : Progresses, ready : SUBSET Rooms, retries : Retries, deferred : Deferrals, wake : BOOLEAN, retry : BOOLEAN,
     probes : Int, lanes : Lanes, scan : ScanRecords, scanCursor : Orders, drain : ScanRecords, draining : Drainings,
     stopped : BOOLEAN]

\* The deferrals of a room.
DeferredOf(m, r) == {e \in Deferred(m) : RoomOf[e] = r}

\* What the worker remembers of a room is the same in both memories.
SameRoom(m, n, r) ==
    /\ n.rooms[r] = m.rooms[r] /\ n.lanes[r] = m.lanes[r] /\ n.retries[r] = m.retries[r]
    /\ r \in n.ready <=> r \in m.ready
    /\ DeferredOf(n, r) = DeferredOf(m, r)

\* n comes from m by work on one room.
WorksOn(m, n, r) ==
    n \in Memory /\ n.stopped = m.stopped /\ \A s \in Rooms \ {r} : SameRoom(m, n, s)

LEMMA MemoryFields ==
    ASSUME NEW m \in Memory
    PROVE  /\ m.rooms \in Progresses /\ m.ready \in SUBSET Rooms /\ m.retries \in Retries /\ m.deferred \in Deferrals
           /\ m.wake \in BOOLEAN /\ m.retry \in BOOLEAN /\ m.probes \in Int /\ m.lanes \in Lanes /\ m.scan \in ScanRecords
           /\ m.scanCursor \in Orders /\ m.drain \in ScanRecords /\ m.draining \in Drainings /\ m.stopped \in BOOLEAN
BY DEF Memory

LEMMA RoomFields ==
    ASSUME NEW m \in Memory, NEW r \in Rooms
    PROVE  /\ m.rooms[r] \in ProgressRecords /\ m.retries[r] \in RetryRecords /\ m.lanes[r] \in LaneRecords
           /\ m.draining[r] \in {"off", "go", "own", "check"}
           /\ m.rooms[r].cursor \in -1..MaxEvent /\ m.rooms[r].rewind \in BOOLEAN /\ m.rooms[r].admitted \in Orders
           /\ m.rooms[r].deferredCount \in Nat
           /\ m.retries[r].at \in {"none", "sleeping", "awake", "done"} /\ m.retries[r].failed \in Orders
           /\ m.lanes[r].pc \in LanePCs /\ m.lanes[r].page \in SUBSET Events /\ m.lanes[r].resume \in Orders
           /\ m.lanes[r].end \in BOOLEAN /\ m.lanes[r].pages \in Nat /\ m.lanes[r].event \in Orders
           /\ m.lanes[r].pending \in BOOLEAN /\ m.lanes[r].handed \in BOOLEAN /\ m.lanes[r].more \in BOOLEAN
           /\ m.lanes[r].failed \in BOOLEAN
<1>1. m.rooms[r] \in ProgressRecords /\ m.retries[r] \in RetryRecords /\ m.lanes[r] \in LaneRecords
      /\ m.draining[r] \in {"off", "go", "own", "check"}
  BY MemoryFields DEF Progresses, Retries, Lanes, Drainings
<1>2. /\ m.rooms[r].cursor \in -1..MaxEvent /\ m.rooms[r].rewind \in BOOLEAN /\ m.rooms[r].admitted \in Orders
      /\ m.rooms[r].deferredCount \in Nat
  BY <1>1 DEF ProgressRecords
<1>3. m.retries[r].at \in {"none", "sleeping", "awake", "done"} /\ m.retries[r].failed \in Orders
  BY <1>1 DEF RetryRecords
<1>4. /\ m.lanes[r].pc \in LanePCs /\ m.lanes[r].page \in SUBSET Events /\ m.lanes[r].resume \in Orders
      /\ m.lanes[r].end \in BOOLEAN /\ m.lanes[r].pages \in Nat /\ m.lanes[r].event \in Orders
      /\ m.lanes[r].pending \in BOOLEAN /\ m.lanes[r].handed \in BOOLEAN /\ m.lanes[r].more \in BOOLEAN
      /\ m.lanes[r].failed \in BOOLEAN
  BY <1>1 DEF LaneRecords
<1> QED BY <1>1, <1>2, <1>3, <1>4

LEMMA DefaultFacts ==
    ASSUME NEW p \in ProgressRecords
    PROVE  /\ Default(p) \in ProgressRecords /\ Default(p).cursor # -1
           /\ p.cursor # -1 => Default(p) = p
           /\ p.cursor = -1 => Default(p).cursor = 0 /\ Default(p).deferredCount = 0 /\ ~Default(p).rewind
<1>1. MaxEvent \in Nat
  BY PendingAssumption
<1>3. /\ [NoProgress EXCEPT !.cursor = 0] \in ProgressRecords /\ ~[NoProgress EXCEPT !.cursor = 0].rewind
      /\ [NoProgress EXCEPT !.cursor = 0].cursor = 0 /\ [NoProgress EXCEPT !.cursor = 0].deferredCount = 0
  <2>1. 0 \in -1..MaxEvent /\ 0 \in Orders /\ 0 \in Nat /\ FALSE \in BOOLEAN
    BY <1>1 DEF Orders
  <2> DEFINE C == -1..MaxEvent
  <2> HIDE DEF C
  <2>2. ProgressRecords = [cursor : C, rewind : BOOLEAN, admitted : Orders, deferredCount : Nat]
    BY DEF ProgressRecords, C
  <2> QED BY <2>1, <2>2 DEF NoProgress, C
<1> QED BY <1>1, <1>3 DEF Default

LEMMA QueueRoomEffect ==
    ASSUME NEW m \in Memory, NEW r \in Rooms, NEW b \in BOOLEAN, NEW n, n = QueueRoom(m, r, b)
    PROVE  /\ WorksOn(m, n, r) /\ n.lanes[r] = m.lanes[r] /\ n.retries[r] = m.retries[r] /\ r \in n.ready
           /\ \A s \in Rooms : DeferredOf(n, s) = DeferredOf(m, s)
           /\ n.rooms[r] = [Default(m.rooms[r]) EXCEPT !.rewind = @ \/ b]
<1> DEFINE p == [Default(m.rooms[r]) EXCEPT !.rewind = @ \/ b]
<1>1. m.rooms[r] \in ProgressRecords /\ m.rooms \in Progresses /\ m.lanes \in Lanes /\ m.retries \in Retries
  BY RoomFields, MemoryFields
<1>2. p \in ProgressRecords
  BY <1>1, DefaultFacts DEF ProgressRecords
<1>3. n = [m EXCEPT !.rooms[r] = p, !.ready = @ \cup {r}]
  BY DEF QueueRoom
<1> HIDE DEF p
<1>4. [m.rooms EXCEPT ![r] = p] \in Progresses /\ m.ready \cup {r} \in SUBSET Rooms
  BY <1>1, <1>2, MemoryFields DEF Progresses
<1>5. n \in Memory /\ n.rooms = [m.rooms EXCEPT ![r] = p] /\ n.ready = m.ready \cup {r} /\ n.retries = m.retries
      /\ n.lanes = m.lanes /\ n.deferred = m.deferred /\ n.stopped = m.stopped
  BY <1>3, <1>4 DEF Memory
<1>6. \A s \in Rooms : DeferredOf(n, s) = DeferredOf(m, s)
  BY <1>5 DEF DeferredOf, Deferred
<1>7. \A s \in Rooms \ {r} : SameRoom(m, n, s)
  BY <1>1, <1>5, <1>6 DEF SameRoom, Progresses
<1> QED BY <1>1, <1>2, <1>5, <1>6, <1>7 DEF WorksOn, Progresses, p

-----------------------------------------------------------------------------
(* What the synchronous methods do to one room.                            *)

WithRoom(m, r, p) == [m EXCEPT !.rooms[r] = p]
WithLane(m, r, l) == [m EXCEPT !.lanes[r] = l]
WithRetry(m, r, q) == [m EXCEPT !.retries[r] = q]

LEMMA SetRoom ==
    ASSUME NEW m \in Memory, NEW r \in Rooms, NEW p \in ProgressRecords, NEW n, n = WithRoom(m, r, p)
    PROVE  /\ WorksOn(m, n, r) /\ n.rooms[r] = p /\ n.lanes[r] = m.lanes[r] /\ n.retries[r] = m.retries[r]
           /\ n.ready = m.ready /\ n.deferred = m.deferred /\ \A s \in Rooms : DeferredOf(n, s) = DeferredOf(m, s)
<1>1. m.rooms \in Progresses
  BY MemoryFields
<1>2. [m.rooms EXCEPT ![r] = p] \in Progresses /\ [m.rooms EXCEPT ![r] = p][r] = p
  BY <1>1 DEF Progresses
<1>3. n \in Memory /\ n.rooms = [m.rooms EXCEPT ![r] = p] /\ n.ready = m.ready /\ n.retries = m.retries
      /\ n.lanes = m.lanes /\ n.deferred = m.deferred /\ n.stopped = m.stopped
  BY <1>2 DEF Memory, WithRoom
<1>4. \A s \in Rooms : DeferredOf(n, s) = DeferredOf(m, s)
  BY <1>3 DEF DeferredOf, Deferred
<1>5. \A s \in Rooms \ {r} : SameRoom(m, n, s)
  BY <1>1, <1>3, <1>4 DEF SameRoom, Progresses
<1> QED BY <1>2, <1>3, <1>4, <1>5 DEF WorksOn

LEMMA SetLane ==
    ASSUME NEW m \in Memory, NEW r \in Rooms, NEW l \in LaneRecords, NEW n, n = WithLane(m, r, l)
    PROVE  /\ WorksOn(m, n, r) /\ n.lanes[r] = l /\ n.rooms[r] = m.rooms[r] /\ n.retries[r] = m.retries[r]
           /\ n.ready = m.ready /\ n.deferred = m.deferred /\ \A s \in Rooms : DeferredOf(n, s) = DeferredOf(m, s)
<1>1. m.lanes \in Lanes
  BY MemoryFields
<1>2. [m.lanes EXCEPT ![r] = l] \in Lanes /\ [m.lanes EXCEPT ![r] = l][r] = l
  BY <1>1 DEF Lanes
<1>3. n \in Memory /\ n.lanes = [m.lanes EXCEPT ![r] = l] /\ n.ready = m.ready /\ n.retries = m.retries
      /\ n.rooms = m.rooms /\ n.deferred = m.deferred /\ n.stopped = m.stopped
  BY <1>2 DEF Memory, WithLane
<1>4. \A s \in Rooms : DeferredOf(n, s) = DeferredOf(m, s)
  BY <1>3 DEF DeferredOf, Deferred
<1>5. \A s \in Rooms \ {r} : SameRoom(m, n, s)
  BY <1>1, <1>3, <1>4 DEF SameRoom, Lanes
<1> QED BY <1>2, <1>3, <1>4, <1>5 DEF WorksOn

LEMMA SetRetry ==
    ASSUME NEW m \in Memory, NEW r \in Rooms, NEW q \in RetryRecords, NEW n, n = WithRetry(m, r, q)
    PROVE  /\ WorksOn(m, n, r) /\ n.retries[r] = q /\ n.rooms[r] = m.rooms[r] /\ n.lanes[r] = m.lanes[r]
           /\ n.ready = m.ready /\ n.deferred = m.deferred /\ \A s \in Rooms : DeferredOf(n, s) = DeferredOf(m, s)
<1>1. m.retries \in Retries
  BY MemoryFields
<1>2. [m.retries EXCEPT ![r] = q] \in Retries /\ [m.retries EXCEPT ![r] = q][r] = q
  BY <1>1 DEF Retries
<1>3. n \in Memory /\ n.retries = [m.retries EXCEPT ![r] = q] /\ n.ready = m.ready /\ n.lanes = m.lanes
      /\ n.rooms = m.rooms /\ n.deferred = m.deferred /\ n.stopped = m.stopped
  BY <1>2 DEF Memory, WithRetry
<1>4. \A s \in Rooms : DeferredOf(n, s) = DeferredOf(m, s)
  BY <1>3 DEF DeferredOf, Deferred
<1>5. \A s \in Rooms \ {r} : SameRoom(m, n, s)
  BY <1>1, <1>3, <1>4 DEF SameRoom, Retries
<1> QED BY <1>2, <1>3, <1>4, <1>5 DEF WorksOn

\* The deferrals of m are finitely many.
LEMMA DeferralsFinite ==
    ASSUME NEW m \in Memory
    PROVE  /\ Deferred(m) \subseteq Events /\ IsFiniteSet(Deferred(m))
           /\ \A r \in Rooms : IsFiniteSet(DeferredOf(m, r)) /\ Cardinality(DeferredOf(m, r)) \in Nat
<1>1. m.deferred \in Seq(Events)
  BY MemoryFields DEF Deferrals
<1>2. Deferred(m) \subseteq Events
  BY <1>1, SeqFacts DEF Deferred
<1>3. IsFiniteSet(Events)
  BY FS_Interval, PendingAssumption DEF Events
<1>4. ASSUME NEW S \in SUBSET Events PROVE IsFiniteSet(S) /\ Cardinality(S) \in Nat
  BY <1>3, FS_Subset, FS_CardinalityType
<1> QED BY <1>2, <1>4 DEF DeferredOf

LEMMA RoomOfEvent == \A e \in Events : RoomOf[e] \in Rooms
BY PendingAssumption

LEMMA ReleaseEffect ==
    ASSUME NEW m \in Memory, NEW e \in Deferred(m), NEW n, n = Release(m, e), m.rooms[RoomOf[e]].deferredCount > 0
    PROVE  LET r == RoomOf[e]
           IN  /\ WorksOn(m, n, r) /\ n.lanes[r] = m.lanes[r] /\ n.retries[r] = m.retries[r] /\ r \in n.ready
               /\ DeferredOf(n, r) = DeferredOf(m, r) \ {e} /\ Len(n.deferred) = Len(m.deferred) - 1
               /\ n.rooms[r].cursor = m.rooms[r].cursor /\ n.rooms[r].rewind = m.rooms[r].rewind
               /\ n.rooms[r].admitted = m.rooms[r].admitted /\ n.rooms[r].deferredCount = m.rooms[r].deferredCount - 1
<1> DEFINE r == RoomOf[e]
           p == [m.rooms[r] EXCEPT !.deferredCount = @ - 1]
           d == Without(m.deferred, e)
<1>1. e \in Events /\ r \in Rooms
  BY DeferralsFinite, RoomOfEvent
<1>2. m.rooms[r] \in ProgressRecords /\ m.rooms \in Progresses /\ m.rooms[r].deferredCount \in Nat
  BY <1>1, RoomFields, MemoryFields
<1>3. /\ p \in ProgressRecords /\ p.cursor = m.rooms[r].cursor /\ p.rewind = m.rooms[r].rewind
      /\ p.admitted = m.rooms[r].admitted /\ p.deferredCount = m.rooms[r].deferredCount - 1
  <2>1. m.rooms[r].deferredCount - 1 \in Nat
    BY <1>2
  <2> QED BY <1>2, <2>1 DEF ProgressRecords
<1>4. d \in Deferrals /\ Len(d) = Len(m.deferred) - 1 /\ Range(d) = Range(m.deferred) \ {e}
  BY MemoryFields, RemoveFacts DEF Deferrals, Deferred
<1>5. n = [m EXCEPT !.deferred = d, !.wake = TRUE, !.rooms[r] = p, !.ready = @ \cup {r}]
  BY <1>1, <1>2 DEF Release
<1> HIDE DEF p, d, r
<1>6. [m.rooms EXCEPT ![r] = p] \in Progresses /\ m.ready \cup {r} \in SUBSET Rooms
  BY <1>1, <1>2, <1>3, MemoryFields DEF Progresses
<1>7. n \in Memory /\ n.rooms = [m.rooms EXCEPT ![r] = p] /\ n.ready = m.ready \cup {r} /\ n.retries = m.retries
      /\ n.lanes = m.lanes /\ n.deferred = d /\ n.stopped = m.stopped
  BY <1>4, <1>5, <1>6 DEF Memory
<1>8. DeferredOf(n, r) = DeferredOf(m, r) \ {e} /\ \A s \in Rooms \ {r} : DeferredOf(n, s) = DeferredOf(m, s)
  BY <1>4, <1>7 DEF DeferredOf, Deferred, r
<1>9. \A s \in Rooms \ {r} : SameRoom(m, n, s)
  BY <1>1, <1>2, <1>7, <1>8 DEF SameRoom, Progresses
<1> QED BY <1>1, <1>2, <1>3, <1>4, <1>7, <1>8, <1>9 DEF WorksOn, Progresses, r

LEMMA DeferEffect ==
    ASSUME NEW m \in Memory, NEW e \in Events, e \notin Deferred(m), NEW n, n = Defer(m, e)
    PROVE  LET r == RoomOf[e]
           IN  /\ WorksOn(m, n, r) /\ n.lanes[r] = m.lanes[r] /\ n.retries[r] = m.retries[r] /\ n.ready = m.ready
               /\ DeferredOf(n, r) = DeferredOf(m, r) \cup {e} /\ e \in Deferred(n)
               /\ n.rooms[r] = [Default(m.rooms[r]) EXCEPT !.deferredCount = @ + 1]
<1> DEFINE r == RoomOf[e]
           p == [Default(m.rooms[r]) EXCEPT !.deferredCount = @ + 1]
           d == Append(m.deferred, e)
<1>1. r \in Rooms
  BY RoomOfEvent
<1>2. m.rooms[r] \in ProgressRecords /\ m.rooms \in Progresses
  BY <1>1, RoomFields, MemoryFields
<1>3. p \in ProgressRecords
  <2>1. Default(m.rooms[r]) \in ProgressRecords
    BY <1>2, DefaultFacts
  <2> QED BY <2>1 DEF ProgressRecords
<1>4. d \in Deferrals /\ Range(d) = Range(m.deferred) \cup {e}
  BY MemoryFields, AppendFacts DEF Deferrals, Deferred
<1>5. n = [m EXCEPT !.deferred = d, !.rooms[r] = p]
  BY <1>1, <1>2 DEF Defer
<1> HIDE DEF p, d, r
<1>6. [m.rooms EXCEPT ![r] = p] \in Progresses
  BY <1>1, <1>2, <1>3, MemoryFields DEF Progresses
<1>7. n \in Memory /\ n.rooms = [m.rooms EXCEPT ![r] = p] /\ n.ready = m.ready /\ n.retries = m.retries
      /\ n.lanes = m.lanes /\ n.deferred = d /\ n.stopped = m.stopped
  BY <1>4, <1>5, <1>6 DEF Memory
<1>8. /\ DeferredOf(n, r) = DeferredOf(m, r) \cup {e} /\ e \in Deferred(n)
      /\ \A s \in Rooms \ {r} : DeferredOf(n, s) = DeferredOf(m, s)
  BY <1>4, <1>7 DEF DeferredOf, Deferred, r
<1>9. \A s \in Rooms \ {r} : SameRoom(m, n, s)
  BY <1>1, <1>2, <1>7, <1>8 DEF SameRoom, Progresses
<1> QED BY <1>1, <1>2, <1>3, <1>7, <1>8, <1>9 DEF WorksOn, Progresses, p, r

LEMMA StartLanesEffect ==
    ASSUME NEW m \in Memory, NEW R \in SUBSET Rooms, NEW n, n = StartLanes(m, R)
    PROVE  /\ n \in Memory /\ n.stopped = m.stopped /\ n.retries = m.retries /\ n.deferred = m.deferred /\ n.ready \subseteq m.ready
           /\ \A s \in Rooms : DeferredOf(n, s) = DeferredOf(m, s)
           /\ \A s \in Rooms : IF s \in R /\ Starts(m, s)
                               THEN /\ n.rooms[s] = Default(m.rooms[s]) /\ n.lanes[s] = [NoLane EXCEPT !.pc = "read"]
                                    /\ s \notin n.ready
                               ELSE SameRoom(m, n, s)
<1> DEFINE started == {r \in R : Starts(m, r)}
           P == [r \in Rooms |-> IF r \in started THEN Default(m.rooms[r]) ELSE m.rooms[r]]
           L == [r \in Rooms |-> IF r \in started THEN [NoLane EXCEPT !.pc = "read"] ELSE m.lanes[r]]
<1>1. n = [m EXCEPT !.ready = @ \ started, !.rooms = P, !.lanes = L]
  BY DEF StartLanes
<1>2. \A r \in Rooms : m.rooms[r] \in ProgressRecords /\ m.lanes[r] \in LaneRecords
  BY RoomFields
<1>3. [NoLane EXCEPT !.pc = "read"] \in LaneRecords
  <2>1. 0 \in Orders /\ 0 \in Nat /\ {} \in SUBSET Events /\ "read" \in LanePCs
    BY PendingAssumption DEF Orders, LanePCs
  <2> QED BY <2>1 DEF NoLane, LaneRecords
<1>4. P \in Progresses /\ L \in Lanes
  BY <1>2, <1>3, DefaultFacts DEF Progresses, Lanes
<1>5. \A r \in Rooms : /\ P[r] = IF r \in started THEN Default(m.rooms[r]) ELSE m.rooms[r]
                       /\ L[r] = IF r \in started THEN [NoLane EXCEPT !.pc = "read"] ELSE m.lanes[r]
  OBVIOUS
<1>6. \A r : r \in started <=> r \in R /\ Starts(m, r)
  OBVIOUS
<1>7. m.ready \in SUBSET Rooms
  BY MemoryFields
<1> HIDE DEF P, L, started
<1>8. n \in Memory /\ n.rooms = P /\ n.ready = m.ready \ started /\ n.retries = m.retries
      /\ n.lanes = L /\ n.deferred = m.deferred /\ n.stopped = m.stopped
  BY <1>1, <1>4, <1>7 DEF Memory
<1>9. \A s \in Rooms : DeferredOf(n, s) = DeferredOf(m, s)
  BY <1>8 DEF DeferredOf, Deferred
<1> QED BY <1>5, <1>6, <1>8, <1>9 DEF SameRoom

-----------------------------------------------------------------------------
(* The bookkeeping of a room, and the methods that keep it.                *)

Booked(m, r) ==
    /\ m.rooms[r].deferredCount = Cardinality(DeferredOf(m, r))
    /\ (m.rooms[r].deferredCount > 0 \/ m.lanes[r].pc # "off" \/ m.retries[r].at # "none" \/ r \in m.ready)
          => m.rooms[r].cursor # -1
    /\ m.lanes[r].pc \in AtEvent => m.lanes[r].event # 0 /\ RoomOf[m.lanes[r].event] = r
    /\ \A e \in m.lanes[r].page : RoomOf[e] = r

MemOK(m) == m \in Memory /\ \A r \in Rooms : Booked(m, r)

LEMMA BookedAlike ==
    ASSUME NEW m, NEW n, NEW r \in Rooms, SameRoom(m, n, r), Booked(m, r)
    PROVE  Booked(n, r)
BY DEF SameRoom, Booked

LEMMA BookedOn ==
    ASSUME NEW m, MemOK(m), NEW n, NEW r, WorksOn(m, n, r), r \in Rooms => Booked(n, r)
    PROVE  MemOK(n)
BY BookedAlike DEF MemOK, WorksOn

\* Only these parts of the memory matter.
LEMMA BookedParts ==
    ASSUME NEW m, MemOK(m), NEW n \in Memory, n.rooms = m.rooms, n.lanes = m.lanes, n.retries = m.retries,
           n.ready = m.ready, Deferred(n) = Deferred(m)
    PROVE  MemOK(n)
<1>1. \A r \in Rooms : SameRoom(m, n, r)
  BY DEF SameRoom, DeferredOf
<1> QED BY <1>1, BookedAlike DEF MemOK

LEMMA QueueRoomOK ==
    ASSUME NEW m, MemOK(m), NEW r \in Rooms, NEW b \in BOOLEAN
    PROVE  MemOK(QueueRoom(m, r, b)) /\ HasProgress(QueueRoom(m, r, b), r)
<1> DEFINE n == QueueRoom(m, r, b)
           p == Default(m.rooms[r])
<1>1. /\ WorksOn(m, n, r) /\ n.lanes[r] = m.lanes[r] /\ n.retries[r] = m.retries[r] /\ r \in n.ready
      /\ DeferredOf(n, r) = DeferredOf(m, r)
      /\ n.rooms[r] = [p EXCEPT !.rewind = @ \/ b]
  BY QueueRoomEffect DEF MemOK
<1>2. /\ m.rooms[r] \in ProgressRecords /\ m.rooms[r].deferredCount \in Nat /\ Booked(m, r)
  BY RoomFields DEF MemOK
<1>3. /\ p \in ProgressRecords /\ p.cursor # -1
      /\ m.rooms[r].cursor # -1 => p = m.rooms[r]
      /\ m.rooms[r].cursor = -1 => p.deferredCount = 0
  BY <1>2, DefaultFacts
<1> HIDE DEF n, p
<1>4. n.rooms[r].cursor = p.cursor /\ n.rooms[r].deferredCount = p.deferredCount
  BY <1>1, <1>3 DEF ProgressRecords
<1>5. p.deferredCount = m.rooms[r].deferredCount
  BY <1>2, <1>3 DEF Booked
<1>6. Booked(n, r)
  BY <1>1, <1>2, <1>3, <1>4, <1>5 DEF Booked
<1> QED BY <1>1, <1>3, <1>4, <1>6, BookedOn DEF n, HasProgress

LEMMA ReleaseOK ==
    ASSUME NEW m, MemOK(m), NEW e \in Events
    PROVE  MemOK(Release(m, e))
<1>1. CASE e \notin Deferred(m)
  BY <1>1 DEF Release
<1>2. CASE e \in Deferred(m)
  <2> DEFINE n == Release(m, e)
             r == RoomOf[e]
  <2>1. /\ m \in Memory /\ r \in Rooms /\ Booked(m, r) /\ m.rooms[r] \in ProgressRecords
        /\ m.rooms[r].deferredCount \in Nat
    BY RoomOfEvent, RoomFields DEF MemOK
  <2>2. e \in DeferredOf(m, r) /\ IsFiniteSet(DeferredOf(m, r)) /\ Cardinality(DeferredOf(m, r)) \in Nat
    BY <1>2, <2>1, DeferralsFinite DEF DeferredOf
  <2>3. Cardinality(DeferredOf(m, r)) > 0
    BY <2>2, FS_EmptySet
  <2>4. Cardinality(DeferredOf(m, r) \ {e}) = Cardinality(DeferredOf(m, r)) - 1
    BY <2>2, FS_RemoveElement
  <2>5. m.rooms[r].deferredCount > 0
    BY <2>1, <2>3 DEF Booked
  <2>6. /\ WorksOn(m, n, r) /\ n.lanes[r] = m.lanes[r] /\ n.retries[r] = m.retries[r] /\ r \in n.ready
        /\ DeferredOf(n, r) = DeferredOf(m, r) \ {e}
        /\ n.rooms[r].deferredCount = m.rooms[r].deferredCount - 1 /\ n.rooms[r].cursor = m.rooms[r].cursor
    BY <1>2, <2>1, <2>5, ReleaseEffect
  <2> HIDE DEF n, r
  <2>8. Booked(n, r)
    BY <2>1, <2>3, <2>4, <2>5, <2>6 DEF Booked
  <2> QED BY <2>6, <2>8, BookedOn DEF n
<1> QED BY <1>1, <1>2

LEMMA DeferOK ==
    ASSUME NEW m, MemOK(m), NEW e \in Events
    PROVE  MemOK(Defer(m, e)) /\ e \in Deferred(Defer(m, e))
<1>1. CASE e \in Deferred(m)
  BY <1>1 DEF Defer
<1>2. CASE e \notin Deferred(m)
  <2> DEFINE n == Defer(m, e)
             r == RoomOf[e]
             p == Default(m.rooms[r])
  <2>1. /\ m \in Memory /\ r \in Rooms /\ Booked(m, r) /\ m.rooms[r] \in ProgressRecords
        /\ m.rooms[r].deferredCount \in Nat
    BY RoomOfEvent, RoomFields DEF MemOK
  <2>2. e \notin DeferredOf(m, r) /\ IsFiniteSet(DeferredOf(m, r)) /\ Cardinality(DeferredOf(m, r)) \in Nat
    BY <1>2, <2>1, DeferralsFinite DEF DeferredOf
  <2>3. Cardinality(DeferredOf(m, r) \cup {e}) = Cardinality(DeferredOf(m, r)) + 1
    BY <2>2, FS_AddElement
  <2>4. /\ WorksOn(m, n, r) /\ n.lanes[r] = m.lanes[r] /\ n.retries[r] = m.retries[r] /\ n.ready = m.ready
        /\ DeferredOf(n, r) = DeferredOf(m, r) \cup {e} /\ e \in Deferred(n)
        /\ n.rooms[r] = [p EXCEPT !.deferredCount = @ + 1]
    BY <1>2, <2>1, DeferEffect
  <2>5. /\ p \in ProgressRecords /\ p.cursor # -1
        /\ m.rooms[r].cursor # -1 => p = m.rooms[r]
        /\ m.rooms[r].cursor = -1 => p.deferredCount = 0
    BY <2>1, DefaultFacts
  <2> HIDE DEF n, r, p
  <2>6. p.deferredCount = m.rooms[r].deferredCount
    BY <2>1, <2>5 DEF Booked
  <2>7. n.rooms[r].deferredCount = m.rooms[r].deferredCount + 1 /\ n.rooms[r].cursor = p.cursor
    BY <2>4, <2>5, <2>6 DEF ProgressRecords
  <2>8. Booked(n, r)
    BY <2>1, <2>3, <2>4, <2>5, <2>7 DEF Booked
  <2> QED BY <2>4, <2>8, BookedOn DEF n
<1> QED BY <1>1, <1>2

LEMMA FreshLane ==
    ASSUME NEW l, l = [NoLane EXCEPT !.pc = "read"]
    PROVE  l \in LaneRecords /\ l.pc = "read" /\ l.page = {} /\ l.event = 0
<1>1. 0 \in Orders /\ 0 \in Nat /\ {} \in SUBSET Events /\ "read" \in LanePCs
  BY PendingAssumption DEF Orders, LanePCs
<1> QED BY <1>1 DEF NoLane, LaneRecords

LEMMA StartLanesOK ==
    ASSUME NEW m, MemOK(m), NEW R \in SUBSET Rooms
    PROVE  MemOK(StartLanes(m, R))
<1> DEFINE n == StartLanes(m, R)
<1>1. /\ m \in Memory /\ n \in Memory /\ \A s \in Rooms : DeferredOf(n, s) = DeferredOf(m, s)
      /\ n.retries = m.retries
      /\ \A s \in Rooms : IF s \in R /\ Starts(m, s)
                          THEN n.rooms[s] = Default(m.rooms[s]) /\ n.lanes[s] = [NoLane EXCEPT !.pc = "read"] /\ s \notin n.ready
                          ELSE SameRoom(m, n, s)
  BY StartLanesEffect DEF MemOK
<1> HIDE DEF n
<1>2. ASSUME NEW s \in Rooms PROVE Booked(n, s)
  <2>1. CASE SameRoom(m, n, s)
    BY <2>1, BookedAlike DEF MemOK
  <2>2. CASE ~SameRoom(m, n, s)
    <3>1. /\ n.rooms[s] = Default(m.rooms[s]) /\ n.lanes[s] = [NoLane EXCEPT !.pc = "read"] /\ DeferredOf(n, s) = DeferredOf(m, s)
      BY <1>1, <2>2
    <3>2. m.rooms[s] \in ProgressRecords /\ Booked(m, s) /\ m.rooms[s].deferredCount \in Nat
      BY <1>1, RoomFields DEF MemOK
    <3>3. /\ n.rooms[s].cursor # -1
          /\ m.rooms[s].cursor # -1 => n.rooms[s] = m.rooms[s]
          /\ m.rooms[s].cursor = -1 => n.rooms[s].deferredCount = 0
      BY <3>1, <3>2, DefaultFacts
    <3>4. n.lanes[s].pc = "read" /\ n.lanes[s].page = {}
      BY <3>1, FreshLane
    <3> QED BY <3>1, <3>2, <3>3, <3>4 DEF Booked, AtEvent
  <2> QED BY <2>1, <2>2
<1> QED BY <1>1, <1>2 DEF MemOK, n

LEMMA WakeSet ==
    ASSUME NEW m, MemOK(m), NEW b \in BOOLEAN
    PROVE  MemOK([m EXCEPT !.wake = b])
<1> DEFINE n == [m EXCEPT !.wake = b]
<1>1. n \in Memory /\ n.rooms = m.rooms /\ n.lanes = m.lanes /\ n.retries = m.retries /\ n.ready = m.ready /\ n.deferred = m.deferred
  BY DEF MemOK, Memory
<1> HIDE DEF n
<1>2. MemOK(n)
  BY <1>1, BookedParts DEF Deferred
<1> QED BY <1>2 DEF n

LEMMA WakeRoomOK ==
    ASSUME NEW m, MemOK(m), NEW r \in Rooms
    PROVE  MemOK(WakeRoom(m, r))
<1>1. MemOK(QueueRoom(m, r, TRUE))
  BY QueueRoomOK
<1>2. MemOK(StartLanes(QueueRoom(m, r, TRUE), {r}))
  BY <1>1, StartLanesOK
<1>3. MemOK([StartLanes(QueueRoom(m, r, TRUE), {r}) EXCEPT !.wake = TRUE])
  BY <1>2, WakeSet
<1> QED BY <1>3 DEF WakeRoom

LEMMA ReclaimOK ==
    ASSUME NEW m, MemOK(m), NEW e \in Events
    PROVE  MemOK(Reclaim(m, e)) /\ MemOK(RetrySource(m, e))
BY ReleaseOK, WakeRoomOK, RoomOfEvent DEF Reclaim, RetrySource

LEMMA ScheduleRoomRetryOK ==
    ASSUME NEW m, MemOK(m), NEW r \in Rooms, HasProgress(m, r), NEW e \in Orders
    PROVE  MemOK(ScheduleRoomRetry(m, r, e)) /\ HasProgress(ScheduleRoomRetry(m, r, e), r)
<1>1. CASE m.stopped
  BY <1>1 DEF ScheduleRoomRetry
<1>2. CASE ~m.stopped
  <2> DEFINE q == [at |-> "sleeping", failed |-> IF e = 0 THEN m.retries[r].failed ELSE e]
             n == WithRetry(m, r, q)
  <2>1. m \in Memory /\ q \in RetryRecords /\ Booked(m, r)
    BY RoomFields DEF MemOK, RetryRecords
  <2>2. ScheduleRoomRetry(m, r, e) = n
    BY <1>2 DEF ScheduleRoomRetry, WithRetry
  <2> HIDE DEF q
  <2>3. /\ WorksOn(m, n, r) /\ n.retries[r] = q /\ n.rooms[r] = m.rooms[r] /\ n.lanes[r] = m.lanes[r]
        /\ n.ready = m.ready /\ DeferredOf(n, r) = DeferredOf(m, r)
    BY <2>1, SetRetry
  <2> HIDE DEF n
  <2>4. Booked(n, r)
    BY <2>1, <2>3 DEF Booked, HasProgress
  <2> QED BY <2>2, <2>3, <2>4, BookedOn DEF HasProgress
<1> QED BY <1>1, <1>2

LEMMA RecordProgressOK ==
    ASSUME NEW m, MemOK(m), NEW r \in Rooms, NEW o
    PROVE  /\ MemOK(RecordProgress(m, r, o)) /\ RecordProgress(m, r, o).rooms = m.rooms
           /\ RecordProgress(m, r, o).lanes = m.lanes /\ RecordProgress(m, r, o).ready = m.ready
           /\ RecordProgress(m, r, o).deferred = m.deferred
<1> DEFINE n == WithRetry(m, r, NoRetry)
<1>0. RecordProgress(m, r, o) = m \/ RecordProgress(m, r, o) = n
  BY DEF RecordProgress, WithRetry
<1>1. m \in Memory /\ NoRetry \in RetryRecords /\ Booked(m, r) /\ NoRetry.at = "none"
  BY PendingAssumption DEF MemOK, RetryRecords, NoRetry, Orders
<1>2. /\ WorksOn(m, n, r) /\ n.retries[r] = NoRetry /\ n.rooms[r] = m.rooms[r] /\ n.lanes[r] = m.lanes[r]
      /\ n.ready = m.ready /\ n.deferred = m.deferred /\ DeferredOf(n, r) = DeferredOf(m, r)
  BY <1>1, SetRetry
<1>3. n.rooms = m.rooms /\ n.lanes = m.lanes
  BY <1>1 DEF Memory, WithRetry
<1> HIDE DEF n
<1>4. Booked(n, r)
  BY <1>1, <1>2 DEF Booked
<1> QED BY <1>0, <1>2, <1>3, <1>4, BookedOn

LEMMA ScheduleProbeOK ==
    ASSUME NEW m, MemOK(m)
    PROVE  MemOK(ScheduleProbe(m))
<1> DEFINE n == [m EXCEPT !.probes = 0]
<1>1. n \in Memory /\ n.rooms = m.rooms /\ n.lanes = m.lanes /\ n.retries = m.retries /\ n.ready = m.ready /\ n.deferred = m.deferred
  BY DEF MemOK, Memory
<1> HIDE DEF n
<1>2. MemOK(n)
  BY <1>1, BookedParts DEF Deferred
<1> QED BY <1>2 DEF n, ScheduleProbe

\* A room's record changes; its deferrals and its being there do not.
LEMMA ProgressSet ==
    ASSUME NEW m, MemOK(m), NEW r \in Rooms, NEW p \in ProgressRecords, p.cursor # -1,
           p.deferredCount = m.rooms[r].deferredCount, NEW n, n = WithRoom(m, r, p)
    PROVE  MemOK(n) /\ HasProgress(n, r) /\ n.rooms[r] = p /\ n.lanes = m.lanes /\ n.deferred = m.deferred /\ n.stopped = m.stopped
<1>1. m \in Memory /\ Booked(m, r)
  BY DEF MemOK
<1>2. /\ WorksOn(m, n, r) /\ n.rooms[r] = p /\ n.lanes[r] = m.lanes[r] /\ n.retries[r] = m.retries[r]
      /\ n.ready = m.ready /\ n.deferred = m.deferred /\ DeferredOf(n, r) = DeferredOf(m, r)
  BY <1>1, SetRoom
<1>3. Booked(n, r)
  BY <1>1, <1>2 DEF Booked
<1>4. n.lanes = m.lanes /\ n.stopped = m.stopped
  BY <1>1 DEF Memory, WithRoom
<1> QED BY <1>2, <1>3, <1>4, BookedOn DEF HasProgress

LEMMA CursorSet ==
    ASSUME NEW m, MemOK(m), NEW r \in Rooms, NEW c \in Orders, NEW n, n = [m EXCEPT !.rooms[r].cursor = c]
    PROVE  /\ MemOK(n) /\ HasProgress(n, r) /\ n.lanes = m.lanes /\ n.deferred = m.deferred /\ n.stopped = m.stopped
           /\ n.rooms[r].rewind = m.rooms[r].rewind
<1> DEFINE p == [m.rooms[r] EXCEPT !.cursor = c]
<1>1. m.rooms[r] \in ProgressRecords
  BY RoomFields DEF MemOK
<1>2. c \in -1..MaxEvent /\ c # -1
  BY PendingAssumption DEF Orders
<1>3. /\ p \in ProgressRecords /\ p.cursor = c /\ p.deferredCount = m.rooms[r].deferredCount
      /\ p.rewind = m.rooms[r].rewind
  BY <1>1, <1>2 DEF ProgressRecords
<1>4. n = WithRoom(m, r, p)
  BY DEF WithRoom
<1> HIDE DEF p
<1> QED BY <1>2, <1>3, <1>4, ProgressSet

LEMMA ApplyRewindOK ==
    ASSUME NEW m, MemOK(m), NEW r \in Rooms, HasProgress(m, r)
    PROVE  /\ MemOK(ApplyRewind(m, r)) /\ HasProgress(ApplyRewind(m, r), r) /\ ApplyRewind(m, r).lanes = m.lanes
           /\ ApplyRewind(m, r).deferred = m.deferred /\ ApplyRewind(m, r).stopped = m.stopped
<1> DEFINE p == [m.rooms[r] EXCEPT !.rewind = FALSE, !.cursor = 0]
<1>1. m.rooms[r] \in ProgressRecords
  BY RoomFields DEF MemOK
<1>2. 0 \in -1..MaxEvent /\ 0 # -1
  BY PendingAssumption
<1>3. p \in ProgressRecords /\ p.cursor = 0 /\ p.deferredCount = m.rooms[r].deferredCount
  BY <1>1, <1>2 DEF ProgressRecords
<1>4. ApplyRewind(m, r) = m \/ ApplyRewind(m, r) = WithRoom(m, r, p)
  BY <1>1 DEF ApplyRewind, WithRoom
<1> HIDE DEF p
<1> QED BY <1>2, <1>3, <1>4, ProgressSet

-----------------------------------------------------------------------------
(* The probe of lost owners, one turn after the other.                     *)

LEMMA Counting ==
    ASSUME NEW S \in SUBSET Nat, 0 \in S, \A k \in S : k + 1 \in S
    PROVE  S = Nat
<1> SUFFICES ASSUME Nat \ S # {} PROVE FALSE
  OBVIOUS
<1> DEFINE k == Min(Nat \ S)
<1>1. k \in Nat \ S /\ \A i \in Nat \ S : k <= i
  BY MinFacts
<1> HIDE DEF k
<1>2. k - 1 \in Nat /\ k - 1 \notin Nat \ S
  BY <1>1
<1> QED BY <1>1, <1>2

ProbeTurns(m, n) == CHOOSE g : g = [i \in 0..n |-> IF i = 0 THEN m ELSE ProbeOldest(g[i - 1])]

\* The probe's loop computes what its turns compute one after the other.
LEMMA ProbeLoop ==
    ASSUME NEW m, NEW n \in Nat, NEW f, f = ProbeTurns(m, n)
    PROVE  f[0] = m /\ \A i \in 1..n : f[i] = ProbeOldest(f[i - 1])
<1> DEFINE Is(k, g) == g = [i \in 0..k |-> IF i = 0 THEN m ELSE ProbeOldest(g[i - 1])]
           S == {k \in Nat : \E g : Is(k, g)}
<1>1. 0 \in S
  <2>1. Is(0, [i \in 0..0 |-> m])
    OBVIOUS
  <2> HIDE DEF Is
  <2> QED BY <2>1
<1>2. ASSUME NEW k \in S PROVE k + 1 \in S
  <2>1. PICK g : Is(k, g)
    OBVIOUS
  <2> DEFINE h == [i \in 0..(k + 1) |-> IF i <= k THEN g[i] ELSE ProbeOldest(g[k])]
  <2>2. Is(k + 1, h)
    <3>1. \A i \in 0..k : g[i] = IF i = 0 THEN m ELSE ProbeOldest(g[i - 1])
      BY <2>1
    <3>2. ASSUME NEW i \in 0..(k + 1) PROVE h[i] = IF i = 0 THEN m ELSE ProbeOldest(h[i - 1])
      <4>1. CASE i = 0
        BY <3>1, <4>1
      <4>2. CASE i # 0 /\ i <= k
        <5>1. h[i] = g[i] /\ i - 1 \in 0..k /\ h[i - 1] = g[i - 1] /\ i \in 0..k
          BY <4>2
        <5> QED BY <3>1, <4>2, <5>1
      <4>3. CASE i = k + 1
        <5>1. h[i] = ProbeOldest(g[k]) /\ i - 1 = k /\ h[k] = g[k] /\ i # 0
          BY <4>3
        <5> QED BY <5>1
      <4> QED BY <4>1, <4>2, <4>3
    <3>3. h = [i \in 0..(k + 1) |-> h[i]]
      OBVIOUS
    <3> HIDE DEF h
    <3> QED BY <3>2, <3>3
  <2> HIDE DEF Is, h
  <2> QED BY <2>2
<1>3. n \in S
  <2> HIDE DEF S
  <2>1. S \in SUBSET Nat
    BY DEF S
  <2> QED BY <1>1, <1>2, <2>1, Counting
<1>4. Is(n, f)
  BY <1>3 DEF ProbeTurns
<1>5. \A i \in 0..n : f[i] = IF i = 0 THEN m ELSE ProbeOldest(f[i - 1])
  BY <1>4
<1> QED BY <1>5

LEMMA QueueLostOwnersIs ==
    ASSUME NEW m, Len(m.deferred) \in Nat, BatchSize \in Nat
    PROVE  \E n \in Nat : n <= Len(m.deferred) /\ \E f : /\ f[0] = m /\ \A i \in 1..n : f[i] = ProbeOldest(f[i - 1])
                                                         /\ QueueLostOwners(m) = f[n]
<1> DEFINE n == IF Len(m.deferred) < BatchSize THEN Len(m.deferred) ELSE BatchSize
           f == ProbeTurns(m, n)
<1>1. n \in Nat /\ n <= Len(m.deferred)
  OBVIOUS
<1>2. QueueLostOwners(m) = f[n]
  BY DEF QueueLostOwners, ProbeTurns
<1> HIDE DEF n
<1>3. f[0] = m /\ \A i \in 1..n : f[i] = ProbeOldest(f[i - 1])
  BY <1>1, ProbeLoop
<1> QED BY <1>1, <1>2, <1>3

LEMMA WakeRoomKeeps ==
    ASSUME NEW m \in Memory, NEW r \in Rooms
    PROVE  WakeRoom(m, r) \in Memory /\ WakeRoom(m, r).deferred = m.deferred
<1> DEFINE n == QueueRoom(m, r, TRUE)
           k == StartLanes(n, {r})
<1>1. n \in Memory /\ n.deferred = m.deferred
  <2>1. n \in Memory
    BY QueueRoomEffect DEF WorksOn
  <2>2. n.deferred = m.deferred
    BY DEF QueueRoom, Memory
  <2> QED BY <2>1, <2>2
<1> HIDE DEF n
<1>2. k \in Memory /\ k.deferred = n.deferred
  BY <1>1, StartLanesEffect
<1> HIDE DEF k
<1>3. [k EXCEPT !.wake = TRUE] \in Memory /\ [k EXCEPT !.wake = TRUE].deferred = k.deferred
  BY <1>2 DEF Memory
<1> QED BY <1>1, <1>2, <1>3 DEF WakeRoom, n, k

LEMMA RotateOK ==
    ASSUME NEW m, MemOK(m), m.deferred # <<>>, NEW n, n = [m EXCEPT !.deferred = Append(Tail(@), Head(m.deferred))]
    PROVE  /\ MemOK(n) /\ Len(n.deferred) = Len(m.deferred) /\ Head(m.deferred) \in Deferred(n)
           /\ Deferred(n) = Deferred(m) /\ Head(m.deferred) \in Events /\ n.stopped = m.stopped
           /\ \A r \in Rooms : SameRoom(m, n, r)
<1> DEFINE s == m.deferred
           d == Append(Tail(s), Head(s))
<1>1. s \in Seq(Events) /\ NoRepeat(s) /\ m \in Memory /\ Len(s) \in Nat
  BY MemoryFields, SeqFacts DEF MemOK, Deferrals
<1>2. /\ Tail(s) \in Seq(Events) /\ NoRepeat(Tail(s)) /\ Len(Tail(s)) = Len(s) - 1
      /\ Head(s) \in Range(s) /\ Head(s) \in Events /\ Range(Tail(s)) = Range(s) \ {Head(s)}
  BY <1>1, TailFacts
<1>3. d \in Seq(Events) /\ NoRepeat(d) /\ Len(d) = Len(s) /\ Range(d) = Range(s)
  <2> DEFINE t == Tail(s)
             h == Head(s)
  <2>1. t \in Seq(Events) /\ NoRepeat(t) /\ h \in Events /\ h \notin Range(t)
    BY <1>2
  <2>2. Range(s) = Range(t) \cup {h} /\ Len(s) = Len(t) + 1
    BY <1>1, <1>2
  <2>3. d = Append(t, h)
    OBVIOUS
  <2> HIDE DEF t, h, d
  <2> QED BY <2>1, <2>2, <2>3, AppendFacts
<1>4. d \in Deferrals /\ n = [m EXCEPT !.deferred = d]
  BY <1>3 DEF Deferrals
<1> HIDE DEF d
<1>5. n \in Memory /\ n.rooms = m.rooms /\ n.lanes = m.lanes /\ n.retries = m.retries /\ n.ready = m.ready /\ n.deferred = d
      /\ n.stopped = m.stopped
  BY <1>1, <1>4 DEF Memory
<1>6. Deferred(n) = Deferred(m)
  BY <1>3, <1>5 DEF Deferred
<1>7. \A r \in Rooms : SameRoom(m, n, r)
  BY <1>5, <1>6 DEF SameRoom, DeferredOf
<1> QED BY <1>2, <1>3, <1>5, <1>6, <1>7, BookedParts DEF Deferred

LEMMA ProbeOldestOK ==
    ASSUME NEW m, MemOK(m), m.deferred # <<>>
    PROVE  MemOK(ProbeOldest(m)) /\ Len(ProbeOldest(m).deferred) >= Len(m.deferred) - 1
<1> DEFINE e == Head(m.deferred)
           n == [m EXCEPT !.deferred = Append(Tail(@), e)]
<1>1. MemOK(n) /\ Len(n.deferred) = Len(m.deferred) /\ e \in Deferred(n) /\ e \in Events
  BY RotateOK
<1>2. ProbeOldest(m) = IF DeferralIsLive(e) THEN n ELSE Reclaim(n, e)
  BY DEF ProbeOldest
<1>3. Len(m.deferred) \in Nat
  BY MemoryFields, SeqFacts DEF MemOK, Deferrals
<1> HIDE DEF n, e
<1>4. MemOK(Reclaim(n, e)) /\ Len(Reclaim(n, e).deferred) = Len(n.deferred) - 1
  <2> DEFINE r == RoomOf[e]
  <2>1. n \in Memory /\ r \in Rooms /\ Booked(n, r) /\ e \in DeferredOf(n, r)
    BY <1>1, RoomOfEvent DEF MemOK, DeferredOf
  <2>2. n.rooms[r].deferredCount > 0
    BY <2>1, DeferralsFinite, FS_EmptySet DEF Booked
  <2>3. Release(n, e) \in Memory /\ Len(Release(n, e).deferred) = Len(n.deferred) - 1
    BY <1>1, <2>1, <2>2, ReleaseEffect DEF WorksOn
  <2>4. Reclaim(n, e).deferred = Release(n, e).deferred
    BY <2>1, <2>3, WakeRoomKeeps DEF Reclaim
  <2> QED BY <1>1, <2>3, <2>4, ReclaimOK
<1> QED BY <1>1, <1>2, <1>3, <1>4

LEMMA OneLess ==
    ASSUME NEW a \in Nat, NEW b \in Nat, NEW c \in Nat, NEW k \in Nat, a >= c - k, b >= a - 1
    PROVE  b >= c - (k + 1)
OBVIOUS

LEMMA QueueLostOwnersOK ==
    ASSUME NEW m, MemOK(m), BatchSize \in Nat
    PROVE  MemOK(QueueLostOwners(m))
<1>1. Len(m.deferred) \in Nat
  BY MemoryFields, SeqFacts DEF MemOK, Deferrals
<1>2. PICK n \in Nat : n <= Len(m.deferred) /\ \E f : /\ f[0] = m /\ \A i \in 1..n : f[i] = ProbeOldest(f[i - 1])
                                                      /\ QueueLostOwners(m) = f[n]
  BY <1>1, QueueLostOwnersIs
<1>3. PICK f : f[0] = m /\ (\A i \in 1..n : f[i] = ProbeOldest(f[i - 1])) /\ QueueLostOwners(m) = f[n]
  BY <1>2
<1> DEFINE S == {i \in Nat : i <= n => MemOK(f[i]) /\ Len(f[i].deferred) >= Len(m.deferred) - i}
<1>4. 0 \in S
  BY <1>1, <1>3
<1>5. ASSUME NEW k \in S PROVE k + 1 \in S
  <2> SUFFICES ASSUME k + 1 <= n PROVE MemOK(f[k + 1]) /\ Len(f[k + 1].deferred) >= Len(m.deferred) - (k + 1)
    OBVIOUS
  <2>1. MemOK(f[k]) /\ Len(f[k].deferred) >= Len(m.deferred) - k
    OBVIOUS
  <2>2. f[k + 1] = ProbeOldest(f[k])
    <3>1. k + 1 \in 1..n /\ k + 1 - 1 = k
      OBVIOUS
    <3> QED BY <1>3, <3>1
  <2>3. f[k].deferred \in Seq(Events) /\ Len(f[k].deferred) \in Nat
    BY <2>1, MemoryFields, SeqFacts DEF MemOK, Deferrals
  <2>4. f[k].deferred # <<>>
    <3>1. Len(f[k].deferred) > 0
      BY <1>1, <1>2, <2>1, <2>3
    <3> QED BY <3>1
  <2>5. MemOK(f[k + 1]) /\ Len(f[k + 1].deferred) >= Len(f[k].deferred) - 1
    BY <2>1, <2>2, <2>4, ProbeOldestOK
  <2>6. Len(f[k + 1].deferred) \in Nat
    BY <2>5, MemoryFields, SeqFacts DEF MemOK, Deferrals
  <2>7. Len(f[k + 1].deferred) >= Len(m.deferred) - (k + 1)
    BY <1>1, <2>1, <2>3, <2>5, <2>6, OneLess
  <2> QED BY <2>5, <2>7
<1>6. n \in S
  <2> HIDE DEF S
  <2>1. S \in SUBSET Nat
    BY DEF S
  <2> QED BY <1>4, <1>5, <2>1, Counting
<1> QED BY <1>3, <1>6

-----------------------------------------------------------------------------
(* The end of a pass and of a page.                                        *)

DoneLane(more, failed) == [NoLane EXCEPT !.pc = "done", !.more = more, !.failed = failed]

LEMMA DoneLaneFacts ==
    ASSUME NEW a \in BOOLEAN, NEW b \in BOOLEAN, NEW l, l = DoneLane(a, b)
    PROVE  l \in LaneRecords /\ l.pc = "done" /\ l.page = {} /\ l.event = 0 /\ l.more = a /\ l.failed = b
<1>1. 0 \in Orders /\ 0 \in Nat /\ {} \in SUBSET Events /\ "done" \in LanePCs
  BY PendingAssumption DEF Orders, LanePCs
<1> QED BY <1>1 DEF NoLane, LaneRecords, DoneLane

LEMMA NoLaneFacts == NoLane \in LaneRecords /\ NoLane.pc = "off" /\ NoLane.page = {} /\ NoLane.event = 0
<1>1. 0 \in Orders /\ 0 \in Nat /\ {} \in SUBSET Events /\ "off" \in LanePCs
  BY PendingAssumption DEF Orders, LanePCs
<1> QED BY <1>1 DEF NoLane, LaneRecords

LEMMA EndPassEffect ==
    ASSUME NEW m \in Memory, NEW r \in Rooms, NEW b \in BOOLEAN, NEW n, n = EndPass(m, r, b)
    PROVE  /\ WorksOn(m, n, r) /\ n.rooms[r] = m.rooms[r] /\ n.retries[r] = m.retries[r] /\ n.ready = m.ready
           /\ n.lanes[r] = DoneLane(b /\ ~BackingOff(m, r), BackingOff(m, r))
           /\ \A s \in Rooms : DeferredOf(n, s) = DeferredOf(m, s)
<1> DEFINE l == DoneLane(b /\ ~BackingOff(m, r), BackingOff(m, r))
           d == [m.draining EXCEPT ![r] = IF @ # "own" THEN @ ELSE IF BackingOff(m, r) THEN "off" ELSE IF b THEN "go" ELSE "check"]
           k == WithLane(m, r, l)
<1>1. l \in LaneRecords
  BY DoneLaneFacts DEF BackingOff
<1>2. d \in Drainings
  BY MemoryFields DEF Drainings
<1>3. n = [k EXCEPT !.draining = d]
  <2> HIDE DEF l
  <2>1. k = [m EXCEPT !.lanes[r] = l] /\ k.draining = m.draining
    BY DEF WithLane, Memory
  <2>2. n = [m EXCEPT !.lanes[r] = l, !.draining = d]
    BY DEF EndPass, l, DoneLane
  <2> HIDE DEF d, k
  <2> QED BY <2>1, <2>2 DEF Memory
<1> HIDE DEF l, d, k
<1>4. /\ WorksOn(m, k, r) /\ k.lanes[r] = l /\ k.rooms[r] = m.rooms[r] /\ k.retries[r] = m.retries[r]
      /\ k.ready = m.ready /\ k.deferred = m.deferred /\ \A s \in Rooms : DeferredOf(k, s) = DeferredOf(m, s)
  BY <1>1, SetLane DEF k
<1>5. /\ n \in Memory /\ n.rooms = k.rooms /\ n.lanes = k.lanes /\ n.retries = k.retries /\ n.ready = k.ready
      /\ n.deferred = k.deferred /\ n.stopped = k.stopped
  BY <1>2, <1>3, <1>4 DEF WorksOn, Memory
<1>6. \A s \in Rooms : DeferredOf(n, s) = DeferredOf(k, s)
  BY <1>5 DEF DeferredOf, Deferred
<1> QED BY <1>4, <1>5, <1>6 DEF WorksOn, SameRoom, l

LEMMA EndPassOK ==
    ASSUME NEW m, MemOK(m), NEW r \in Rooms, NEW b \in BOOLEAN, HasProgress(m, r)
    PROVE  MemOK(EndPass(m, r, b))
<1> DEFINE n == EndPass(m, r, b)
<1>1. m \in Memory /\ Booked(m, r) /\ BackingOff(m, r) \in BOOLEAN
  BY DEF MemOK, BackingOff
<1>2. /\ WorksOn(m, n, r) /\ n.rooms[r] = m.rooms[r] /\ n.retries[r] = m.retries[r] /\ n.ready = m.ready
      /\ n.lanes[r] = DoneLane(b /\ ~BackingOff(m, r), BackingOff(m, r)) /\ DeferredOf(n, r) = DeferredOf(m, r)
  BY <1>1, EndPassEffect
<1> HIDE DEF n
<1>3. n.lanes[r].pc = "done" /\ n.lanes[r].page = {}
  BY <1>1, <1>2, DoneLaneFacts
<1>4. Booked(n, r)
  BY <1>1, <1>2, <1>3 DEF Booked, AtEvent, HasProgress
<1> QED BY <1>2, <1>4, BookedOn DEF n

\* A lane of a room that has its record moves.
LEMMA LaneSet ==
    ASSUME NEW m, MemOK(m), NEW r \in Rooms, HasProgress(m, r), NEW l \in LaneRecords,
           l.pc \in AtEvent => l.event # 0 /\ RoomOf[l.event] = r, \A e \in l.page : RoomOf[e] = r
    PROVE  MemOK(WithLane(m, r, l))
<1> DEFINE n == WithLane(m, r, l)
<1>1. m \in Memory /\ Booked(m, r)
  BY DEF MemOK
<1>2. /\ WorksOn(m, n, r) /\ n.lanes[r] = l /\ n.rooms[r] = m.rooms[r] /\ n.retries[r] = m.retries[r]
      /\ n.ready = m.ready /\ DeferredOf(n, r) = DeferredOf(m, r)
  BY <1>1, SetLane
<1> HIDE DEF n
<1>3. Booked(n, r)
  BY <1>1, <1>2 DEF Booked, HasProgress
<1> QED BY <1>2, <1>3, BookedOn DEF n

LEMMA NextPageIs ==
    ASSUME NEW m \in Memory, NEW r \in Rooms, NEW l, l = [m.lanes[r] EXCEPT !.pc = "read", !.event = 0]
    PROVE  /\ l \in LaneRecords /\ l.pc = "read" /\ l.page = m.lanes[r].page
           /\ NextPage(m, r) = IF m.lanes[r].pages >= MaxPages THEN EndPass(m, r, TRUE) ELSE WithLane(m, r, l)
<1>1. m.lanes[r] \in LaneRecords /\ 0 \in Orders /\ "read" \in LanePCs
  BY RoomFields, PendingAssumption DEF Orders, LanePCs
<1>2. l \in LaneRecords /\ l.pc = "read" /\ l.page = m.lanes[r].page
  BY <1>1 DEF LaneRecords
<1> QED BY <1>2 DEF NextPage, WithLane

LEMMA NextPageOK ==
    ASSUME NEW m, MemOK(m), NEW r \in Rooms, HasProgress(m, r)
    PROVE  MemOK(NextPage(m, r))
<1> DEFINE l == [m.lanes[r] EXCEPT !.pc = "read", !.event = 0]
<1>1. m \in Memory /\ \A e \in m.lanes[r].page : RoomOf[e] = r
  BY DEF MemOK, Booked
<1>2. /\ l \in LaneRecords /\ l.pc = "read" /\ l.page = m.lanes[r].page
      /\ NextPage(m, r) = IF m.lanes[r].pages >= MaxPages THEN EndPass(m, r, TRUE) ELSE WithLane(m, r, l)
  BY <1>1, NextPageIs
<1> HIDE DEF l
<1>3. MemOK(WithLane(m, r, l))
  BY <1>1, <1>2, LaneSet DEF AtEvent
<1> QED BY <1>2, <1>3, EndPassOK

LEMMA PageEndsOK ==
    ASSUME NEW m, MemOK(m), NEW r \in Rooms, HasProgress(m, r)
    PROVE  MemOK(PageEnds(m, r))
<1> DEFINE k == [m EXCEPT !.rooms[r].cursor = m.lanes[r].resume]
           z == [k EXCEPT !.rooms[r].cursor = 0]
<1>1. m.lanes[r].resume \in Orders /\ 0 \in Orders
  BY RoomFields, PendingAssumption DEF MemOK, Orders
<1>2. MemOK(k) /\ HasProgress(k, r)
  BY <1>1, CursorSet
<1>3. MemOK(z) /\ HasProgress(z, r)
  <2> HIDE DEF k
  <2> QED BY <1>1, <1>2, CursorSet
<1>4. PageEnds(m, r) = IF m.rooms[r].rewind THEN NextPage(ApplyRewind(k, r), r)
                       ELSE IF m.lanes[r].end THEN EndPass(z, r, FALSE) ELSE NextPage(k, r)
  BY DEF PageEnds
<1> HIDE DEF k, z
<1>5. MemOK(NextPage(ApplyRewind(k, r), r)) /\ MemOK(EndPass(z, r, FALSE)) /\ MemOK(NextPage(k, r))
  BY <1>2, <1>3, NextPageOK, EndPassOK, ApplyRewindOK
<1> QED BY <1>4, <1>5

-----------------------------------------------------------------------------
(* From one event of a page to the next.                                   *)

\* The memory in which the lane has skipped what owners hold.
Skipped(m, r) ==
    LET first == Min(m.lanes[r].page \ Deferred(m))
        held == {e \in m.lanes[r].page : e < first}
    IN  IF held = {} THEN m ELSE [m EXCEPT !.rooms[r].cursor = Max(held)]

\* The lane at the first event of its page that no owner holds.
LaneAt(m, r) ==
    LET first == Min(m.lanes[r].page \ Deferred(m))
    IN  [m.lanes[r] EXCEPT !.pc = "check", !.event = first, !.pending = FALSE, !.handed = FALSE,
                           !.page = {e \in m.lanes[r].page : e > first}]

FreeRows(m, r) == m.lanes[r].page \ Deferred(m)
AtFirst(m, r) == RecordProgress(Skipped(m, r), r, Min(FreeRows(m, r)) - 1)

LEMMA NextEventIs ==
    ASSUME NEW m, NEW r
    PROVE  NextEvent(m, r) = IF m.lanes[r].page # {} /\ m.rooms[r].rewind THEN EndPass(ApplyRewind(m, r), r, TRUE)
                             ELSE IF FreeRows(m, r) = {} THEN PageEnds(m, r) ELSE WithLane(AtFirst(m, r), r, LaneAt(m, r))
<1>1. CASE m.lanes[r].page # {} /\ m.rooms[r].rewind
  BY <1>1 DEF NextEvent
<1>2. CASE ~(m.lanes[r].page # {} /\ m.rooms[r].rewind) /\ FreeRows(m, r) = {}
  BY <1>2 DEF NextEvent, FreeRows
<1>3. CASE ~(m.lanes[r].page # {} /\ m.rooms[r].rewind) /\ FreeRows(m, r) # {}
  BY <1>3 DEF NextEvent, FreeRows, AtFirst, Skipped, LaneAt, WithLane
<1> QED BY <1>1, <1>2, <1>3

LEMMA FirstFree ==
    ASSUME NEW m, MemOK(m), NEW r \in Rooms, HasProgress(m, r), NEW free, free = FreeRows(m, r), NEW k, k = AtFirst(m, r)
    PROVE  /\ free # {} => /\ Min(free) \in free /\ (\A e \in free : Min(free) <= e)
                           /\ MemOK(k) /\ k.rooms[r].cursor # -1 /\ k.lanes = m.lanes
                           /\ LaneAt(m, r) \in LaneRecords
                           /\ LaneAt(m, r).pc = "check" /\ LaneAt(m, r).event = Min(free)
                           /\ LaneAt(m, r).page = {e \in m.lanes[r].page : e > Min(free)}
                           /\ LaneAt(m, r).resume = m.lanes[r].resume /\ LaneAt(m, r).end = m.lanes[r].end
                           /\ ~LaneAt(m, r).pending /\ ~LaneAt(m, r).handed
<1> DEFINE page == m.lanes[r].page
           first == Min(free)
           held == {e \in page : e < first}
<1>1. /\ m \in Memory /\ page \in SUBSET Events /\ m.lanes[r] \in LaneRecords
      /\ Events \in SUBSET Nat /\ Events \subseteq Orders /\ held \in SUBSET Events
  BY RoomFields, PendingAssumption DEF MemOK, Events, Orders
<1>0. free = m.lanes[r].page \ Deferred(m) /\ k = RecordProgress(Skipped(m, r), r, Min(free) - 1)
  BY DEF FreeRows, AtFirst
<1>2. free # {} => first \in free /\ \A e \in free : first <= e
  BY <1>0, <1>1, MinFacts
<1>3. free # {} => /\ MemOK(Skipped(m, r)) /\ Skipped(m, r).lanes = m.lanes /\ HasProgress(Skipped(m, r), r)
  <2>1. CASE held = {}
    BY <1>0, <2>1 DEF Skipped
  <2>2. CASE held # {}
    <3>1. Max(held) \in Orders
      BY <1>1, <2>2, MaxFacts
    <3>2. Skipped(m, r) = [m EXCEPT !.rooms[r].cursor = Max(held)]
      BY <1>0, <2>2 DEF Skipped
    <3> HIDE DEF held, first
    <3> QED BY <3>1, <3>2, CursorSet
  <2> QED BY <2>1, <2>2
<1>4. free # {} => MemOK(k) /\ k.lanes = m.lanes /\ k.rooms[r].cursor # -1
  <2> SUFFICES ASSUME free # {} PROVE MemOK(k) /\ k.lanes = m.lanes /\ k.rooms[r].cursor # -1
    OBVIOUS
  <2> HIDE DEF first
  <2>1. MemOK(k) /\ k.rooms = Skipped(m, r).rooms /\ k.lanes = Skipped(m, r).lanes
    BY <1>0, <1>3, RecordProgressOK DEF first
  <2> QED BY <1>3, <2>1 DEF HasProgress
<1>5. free # {} => /\ LaneAt(m, r) \in LaneRecords
                   /\ LaneAt(m, r).pc = "check" /\ LaneAt(m, r).event = first
                   /\ LaneAt(m, r).page = {e \in page : e > first}
                   /\ LaneAt(m, r).resume = m.lanes[r].resume /\ LaneAt(m, r).end = m.lanes[r].end
                   /\ ~LaneAt(m, r).pending /\ ~LaneAt(m, r).handed
  <2> SUFFICES ASSUME free # {}
               PROVE  /\ LaneAt(m, r) \in LaneRecords
                      /\ LaneAt(m, r).pc = "check" /\ LaneAt(m, r).event = first
                      /\ LaneAt(m, r).page = {e \in page : e > first}
                      /\ LaneAt(m, r).resume = m.lanes[r].resume /\ LaneAt(m, r).end = m.lanes[r].end
                      /\ ~LaneAt(m, r).pending /\ ~LaneAt(m, r).handed
    OBVIOUS
  <2> DEFINE rest == {e \in page : e > first}
             l == m.lanes[r]
  <2>1. first \in Orders /\ rest \in SUBSET Events /\ "check" \in LanePCs
    BY <1>0, <1>1, <1>2 DEF LanePCs
  <2>2. LaneAt(m, r) = [l EXCEPT !.pc = "check", !.event = first, !.pending = FALSE, !.handed = FALSE, !.page = rest]
    BY <1>0 DEF LaneAt
  <2>3. l \in LaneRecords
    BY <1>1
  <2>4. LaneAt(m, r) = [l EXCEPT !.pc = "check", !.event = first, !.pending = FALSE, !.handed = FALSE, !.page = rest]
        /\ rest = {e \in page : e > first} /\ l.resume = m.lanes[r].resume /\ l.end = m.lanes[r].end
    BY <2>2
  <2> HIDE DEF first, rest, l
  <2> QED BY <2>1, <2>3, <2>4 DEF LaneRecords
<1> QED BY <1>2, <1>4, <1>5

LEMMA NextEventOK ==
    ASSUME NEW m, MemOK(m), NEW r \in Rooms, HasProgress(m, r)
    PROVE  MemOK(NextEvent(m, r))
<1>0. PICK free, k : free = FreeRows(m, r) /\ k = AtFirst(m, r)
  OBVIOUS
<1>1. free # {} => /\ Min(free) \in free
                   /\ MemOK(k) /\ k.rooms[r].cursor # -1
                   /\ LaneAt(m, r) \in LaneRecords /\ LaneAt(m, r).event = Min(free)
                   /\ LaneAt(m, r).page = {e \in m.lanes[r].page : e > Min(free)}
  BY <1>0, FirstFree
<1>6. NextEvent(m, r) = IF m.lanes[r].page # {} /\ m.rooms[r].rewind THEN EndPass(ApplyRewind(m, r), r, TRUE)
                        ELSE IF free = {} THEN PageEnds(m, r) ELSE WithLane(k, r, LaneAt(m, r))
  BY <1>0, NextEventIs
<1>2. /\ \A e \in m.lanes[r].page : RoomOf[e] = r
      /\ \A e \in m.lanes[r].page : e # 0
  BY RoomFields, PendingAssumption DEF MemOK, Booked, Events
<1>3. \A e \in free : e \in m.lanes[r].page
  BY <1>0 DEF FreeRows
<1>4. free # {} => MemOK(WithLane(k, r, LaneAt(m, r)))
  <2> SUFFICES ASSUME free # {} PROVE MemOK(WithLane(k, r, LaneAt(m, r)))
    OBVIOUS
  <2>1. Min(free) # 0 /\ RoomOf[Min(free)] = r /\ \A e \in LaneAt(m, r).page : RoomOf[e] = r
    BY <1>1, <1>2, <1>3
  <2>2. MemOK(k) /\ HasProgress(k, r) /\ LaneAt(m, r) \in LaneRecords /\ LaneAt(m, r).event = Min(free)
    BY <1>1 DEF HasProgress
  <2> HIDE <1>1
  <2> QED BY <2>1, <2>2, LaneSet
<1> QED BY <1>4, <1>6, EndPassOK, ApplyRewindOK, PageEndsOK

LEMMA PassedOK ==
    ASSUME NEW m, MemOK(m), NEW r \in Rooms, NEW e \in Events
    PROVE  MemOK(Passed(m, r, e))
<1> DEFINE k == [m EXCEPT !.rooms[r].cursor = e]
<1>1. e \in Orders
  BY PendingAssumption DEF Events, Orders
<1>2. MemOK(k) /\ HasProgress(k, r)
  BY <1>1, CursorSet
<1> HIDE DEF k
<1>3. MemOK(NextEvent(k, r))
  BY <1>2, NextEventOK
<1> QED BY <1>3 DEF Passed, k

LEMMA LaneRaisesOK ==
    ASSUME NEW m, MemOK(m), NEW r \in Rooms, NEW e \in Orders, HasProgress(m, r)
    PROVE  MemOK(LaneRaises(m, r, e))
<1> DEFINE f == IF e = 0 THEN m ELSE [Release(m, e) EXCEPT !.rooms[r].cursor = e - 1]
<1>1. MemOK(f) /\ HasProgress(f, r)
  <2>1. CASE e = 0
    BY <2>1
  <2>2. CASE e # 0
    <3>1. e \in Events /\ e - 1 \in Orders
      BY <2>2, PendingAssumption DEF Events, Orders
    <3>2. MemOK(Release(m, e))
      BY <3>1, ReleaseOK
    <3> QED BY <2>2, <3>1, <3>2, CursorSet
  <2> QED BY <2>1, <2>2
<1> HIDE DEF f
<1>2. MemOK(EndPass(ScheduleRoomRetry(f, r, e), r, FALSE))
  BY <1>1, ScheduleRoomRetryOK, EndPassOK
<1> QED BY <1>2 DEF LaneRaises, f

LEMMA DeferringOK ==
    ASSUME NEW m, MemOK(m), NEW r \in Rooms, NEW e \in Events
    PROVE  MemOK(Deferring(m, r, e))
<1>1. MemOK(Defer(m, e))
  BY DeferOK
<1>2. MemOK(Reclaim(Defer(m, e), e))
  BY <1>1, ReclaimOK
<1>3. MemOK(IF DeferralIsLive(e) THEN Defer(m, e) ELSE Reclaim(Defer(m, e), e))
  BY <1>1, <1>2
<1> QED BY <1>3, PassedOK DEF Deferring

-----------------------------------------------------------------------------
(* Discovery.                                                              *)

\* What is not a room's business.
Alike(m, n) ==
    /\ n \in Memory /\ n.rooms = m.rooms /\ n.lanes = m.lanes /\ n.retries = m.retries
    /\ n.ready = m.ready /\ n.deferred = m.deferred

LEMMA AlikeOK ==
    ASSUME NEW m, MemOK(m), NEW n, Alike(m, n)
    PROVE  MemOK(n)
BY BookedParts DEF Alike, Deferred

LEMMA NoScanFacts == NoScan \in ScanRecords
<1>1. 0 \in Orders /\ 0 \in Nat /\ {} \in SUBSET Rooms
  BY PendingAssumption DEF Orders
<1> QED BY <1>1 DEF NoScan, ScanRecords

LEMMA ScanFromFacts ==
    ASSUME NEW o \in Orders, NEW b \in BOOLEAN
    PROVE  ScanFrom(o) \in ScanRecords /\ [ScanFrom(o) EXCEPT !.started = b] \in ScanRecords
<1>1. (o = 0) \in BOOLEAN
  OBVIOUS
<1>2. NoScan \in ScanRecords
  BY NoScanFacts
<1>3. ScanFrom(o) \in ScanRecords
  BY <1>1, <1>2 DEF ScanRecords, ScanFrom
<1> QED BY <1>3 DEF ScanRecords

LEMMA PageFacts ==
    ASSUME NEW R, NEW o, NEW page, page = FirstRows(PendingRows(R, o))
    PROVE  page \in SUBSET Events /\ \A e \in page : RoomOf[e] \in R /\ e > o
BY DEF FirstRows, PendingRows

LEMMA ResumeFacts ==
    ASSUME NEW page \in SUBSET Events, NEW o \in Orders
    PROVE  /\ ResumeAfter(page, o) \in Orders
           /\ \A e \in page : e <= ResumeAfter(page, o)
<1>1. CASE page = {}
  BY <1>1 DEF ResumeAfter
<1>2. CASE page # {}
  <2>1. Events \subseteq Orders
    BY PendingAssumption DEF Events, Orders
  <2>2. Max(page) \in page /\ \A e \in page : e <= Max(page)
    BY <1>2, MaxFacts
  <2> QED BY <1>2, <2>1, <2>2 DEF ResumeAfter
<1> QED BY <1>1, <1>2

LEMMA ScanPageFacts ==
    ASSUME NEW s \in ScanRecords, NEW b \in BOOLEAN
    PROVE  /\ ScanPage(s, b).scan \in ScanRecords
           /\ ScanPage(s, b).done \in BOOLEAN /\ ScanPage(s, b).more \in BOOLEAN
<1> DEFINE rows == FirstRows(PendingRows(Rooms, s.cursor))
           full == Cardinality(rows) = BatchSize
           beyond == s.wrapped /\ s.origin # 0 /\ \E e \in rows : e > s.origin
           looked == {e \in rows : ~(beyond /\ e > s.origin)}
           found == s.rooms \cup {RoomOf[e] : e \in looked \ Deferred(w)}
           done == beyond \/ (~full /\ s.wrapped)
           c == IF full THEN ResumeAfter(rows, s.cursor) ELSE 0
           wr == s.wrapped \/ ~full
           next == [s EXCEPT !.rooms = found, !.pages = @ + 1, !.wrapped = wr, !.cursor = c]
<1>1. /\ s.cursor \in Orders /\ s.rooms \in SUBSET Rooms /\ s.pages \in Nat
  BY DEF ScanRecords
<1>2. rows \in SUBSET Events
  BY PageFacts
<1>3. looked \in SUBSET Events
  BY <1>2
<1>4. found \in SUBSET Rooms
  <2> HIDE DEF looked
  <2> QED BY <1>1, <1>3, RoomOfEvent
<1>5. c \in Orders
  <2>1. 0 \in Orders
    BY PendingAssumption DEF Orders
  <2> HIDE DEF rows, full
  <2> QED BY <1>1, <1>2, <2>1, ResumeFacts
<1>6. wr \in BOOLEAN
  OBVIOUS
<1>7. ScanPage(s, b) = [scan |-> next, done |-> done, more |-> ~done /\ ~b /\ next.pages >= MaxPages]
  BY DEF ScanPage
<1> HIDE DEF c, found, wr
<1>8. next \in ScanRecords
  <2>1. s.pages + 1 \in Nat
    BY <1>1
  <2> QED BY <2>1, <1>1, <1>4, <1>5, <1>6 DEF ScanRecords
<1> HIDE DEF next
<1>9. ScanPage(s, b).scan = next /\ ScanPage(s, b).done = done /\ ScanPage(s, b).more = (~done /\ ~b /\ next.pages >= MaxPages)
  BY <1>7
<1>10. done \in BOOLEAN /\ (~done /\ ~b /\ next.pages >= MaxPages) \in BOOLEAN
  OBVIOUS
<1> HIDE DEF done
<1> QED BY <1>8, <1>9, <1>10

\* Rooms that were found get their records and are ready.
LEMMA FoundOK ==
    ASSUME NEW m, MemOK(m), NEW R \in SUBSET Rooms, NEW n,
           n = [m EXCEPT !.ready = @ \cup R, !.rooms = [r \in Rooms |-> IF r \in R THEN Default(@[r]) ELSE @[r]]]
    PROVE  MemOK(n)
<1> DEFINE P == [r \in Rooms |-> IF r \in R THEN Default(m.rooms[r]) ELSE m.rooms[r]]
           Q == m.ready \cup R
<1>1. n = [m EXCEPT !.ready = Q, !.rooms = P] /\ m \in Memory
  BY DEF MemOK
<1>2. P \in Progresses /\ Q \in SUBSET Rooms
  BY <1>1, RoomFields, MemoryFields, DefaultFacts DEF Progresses
<1>3. \A r \in Rooms : P[r] = IF r \in R THEN Default(m.rooms[r]) ELSE m.rooms[r]
  OBVIOUS
<1>4. \A r \in Rooms : r \in Q <=> r \in m.ready \/ r \in R
  OBVIOUS
<1> HIDE DEF P, Q
<1>5. n \in Memory /\ n.rooms = P /\ n.ready = Q /\ n.retries = m.retries /\ n.lanes = m.lanes /\ n.deferred = m.deferred
  BY <1>1, <1>2 DEF Memory
<1>6. ASSUME NEW s \in Rooms PROVE Booked(n, s)
  <2>1. DeferredOf(n, s) = DeferredOf(m, s)
    BY <1>5 DEF DeferredOf, Deferred
  <2>2. CASE s \notin R
    <3>1. SameRoom(m, n, s)
      BY <1>3, <1>4, <1>5, <2>1, <2>2 DEF SameRoom
    <3> QED BY <3>1, BookedAlike DEF MemOK
  <2>3. CASE s \in R
    <3>1. n.rooms[s] = Default(m.rooms[s]) /\ n.lanes[s] = m.lanes[s]
      BY <1>3, <1>5, <2>3
    <3>2. m.rooms[s] \in ProgressRecords /\ Booked(m, s) /\ m.rooms[s].deferredCount \in Nat
      BY <1>1, RoomFields DEF MemOK
    <3>3. /\ n.rooms[s].cursor # -1
          /\ m.rooms[s].cursor # -1 => n.rooms[s] = m.rooms[s]
          /\ m.rooms[s].cursor = -1 => n.rooms[s].deferredCount = 0
      BY <3>1, <3>2, DefaultFacts
    <3> QED BY <2>1, <3>1, <3>2, <3>3 DEF Booked
  <2> QED BY <2>2, <2>3
<1> QED BY <1>5, <1>6 DEF MemOK

LEMMA DispatchedOK ==
    ASSUME NEW m, MemOK(m), NEW s \in ScanRecords, NEW more \in BOOLEAN, BatchSize \in Nat
    PROVE  MemOK(Dispatched(m, s, more))
<1> DEFINE probed == QueueLostOwners(m)
           queued == [probed EXCEPT !.ready = @ \cup s.rooms,
                                    !.rooms = [r \in Rooms |-> IF r \in s.rooms THEN Default(@[r]) ELSE @[r]]]
           started == s.started \/ \E r \in queued.ready : Starts(queued, r)
           running == StartLanes(queued, queued.ready)
           n == [running EXCEPT !.wake = @ \/ (more /\ started), !.retry = @ \/ (more /\ ~started)]
<1>1. MemOK(probed)
  BY QueueLostOwnersOK
<1>2. s.rooms \in SUBSET Rooms
  BY DEF ScanRecords
<1>3. Dispatched(m, s, more) = ScheduleProbe(n)
  BY DEF Dispatched
<1> HIDE DEF probed
<1>4. MemOK(queued)
  BY <1>1, <1>2, FoundOK
<1> HIDE DEF queued
<1>5. MemOK(running)
  <2>1. queued.ready \in SUBSET Rooms
    BY <1>4, MemoryFields DEF MemOK
  <2> QED BY <1>4, <2>1, StartLanesOK
<1> HIDE DEF running, started
<1>6. Alike(running, n)
  BY <1>5 DEF MemOK, Memory, Alike
<1> HIDE DEF n
<1>7. MemOK(ScheduleProbe(n))
  BY <1>5, <1>6, AlikeOK, ScheduleProbeOK
<1> QED BY <1>3, <1>7

-----------------------------------------------------------------------------
(* The beginning, a restart and a shutdown.                                *)

LEMMA NoProgressFacts ==
    /\ NoProgress \in ProgressRecords /\ NoProgress.cursor = -1 /\ NoProgress.deferredCount = 0
    /\ NoProgress.admitted = 0 /\ ~NoProgress.rewind
<1>1. -1 \in -1..MaxEvent /\ 0 \in Orders
  BY PendingAssumption DEF Orders
<1> QED BY <1>1 DEF NoProgress, ProgressRecords

LEMMA NoRetryFacts == NoRetry \in RetryRecords /\ NoRetry.at = "none"
<1>1. 0 \in Orders
  BY PendingAssumption DEF Orders
<1> QED BY <1>1 DEF NoRetry, RetryRecords

\* A worker that has just started with the deferrals it was left.
FreshWith(d, P) ==
    [rooms |-> P, ready |-> {}, retries |-> [r \in Rooms |-> NoRetry], deferred |-> d, wake |-> TRUE, retry |-> FALSE,
     probes |-> -1, lanes |-> [r \in Rooms |-> NoLane], scan |-> NoScan, scanCursor |-> 0,
     drain |-> NoScan, draining |-> [r \in Rooms |-> "off"], stopped |-> FALSE]

LEMMA FreshFacts ==
    ASSUME NEW d \in Deferrals, NEW P \in Progresses, NEW n, n = FreshWith(d, P)
    PROVE  /\ n \in Memory /\ n.rooms = P /\ n.deferred = d /\ n.ready = {} /\ ~n.stopped
           /\ n.lanes = [r \in Rooms |-> NoLane] /\ n.retries = [r \in Rooms |-> NoRetry]
<1> DEFINE L == [r \in Rooms |-> NoLane]
           T == [r \in Rooms |-> NoRetry]
           D == [r \in Rooms |-> "off"]
<1>1. L \in Lanes /\ T \in Retries /\ D \in Drainings /\ NoScan \in ScanRecords /\ 0 \in Orders /\ {} \in SUBSET Rooms
      /\ -1 \in Int
  BY NoLaneFacts, NoRetryFacts, NoScanFacts, PendingAssumption DEF Lanes, Retries, Drainings, Orders
<1>2. n = [rooms |-> P, ready |-> {}, retries |-> T, deferred |-> d, wake |-> TRUE, retry |-> FALSE, probes |-> -1,
           lanes |-> L, scan |-> NoScan, scanCursor |-> 0, drain |-> NoScan, draining |-> D, stopped |-> FALSE]
  BY DEF FreshWith
<1> HIDE DEF L, T, D
<1>3. /\ n \in Memory /\ n.rooms = P /\ n.deferred = d /\ n.ready = {} /\ ~n.stopped /\ n.lanes = L /\ n.retries = T
  BY <1>1, <1>2 DEF Memory
<1> QED BY <1>3 DEF L, T

LEMMA FreshOK ==
    ASSUME NEW d \in Deferrals, NEW P \in Progresses, NEW n, n = FreshWith(d, P),
           \A r \in Rooms : /\ P[r].deferredCount = Cardinality({e \in Range(d) : RoomOf[e] = r})
                            /\ P[r].deferredCount > 0 => P[r].cursor # -1
    PROVE  MemOK(n)
<1>1. /\ n \in Memory /\ n.rooms = P /\ n.deferred = d /\ n.ready = {}
      /\ n.lanes = [r \in Rooms |-> NoLane] /\ n.retries = [r \in Rooms |-> NoRetry]
  BY FreshFacts
<1>2. ASSUME NEW r \in Rooms PROVE Booked(n, r)
  <2>1. n.lanes[r] = NoLane /\ n.retries[r] = NoRetry /\ r \notin n.ready /\ n.rooms[r] = P[r]
    BY <1>1
  <2>2. n.lanes[r].pc = "off" /\ n.lanes[r].page = {} /\ n.retries[r].at = "none"
    BY <2>1, NoLaneFacts, NoRetryFacts
  <2>3. DeferredOf(n, r) = {e \in Range(d) : RoomOf[e] = r}
    BY <1>1 DEF DeferredOf, Deferred
  <2> QED BY <2>1, <2>2, <2>3 DEF Booked, AtEvent
<1> QED BY <1>1, <1>2 DEF MemOK

LEMMA FreshWorkerOK == MemOK(FreshWorker)
<1> DEFINE P == [r \in Rooms |-> NoProgress]
<1>1. P \in Progresses /\ \A r \in Rooms : P[r] = NoProgress
  BY NoProgressFacts DEF Progresses
<1>2. << >> \in Deferrals /\ Range(<< >>) = {}
  <2>1. << >> \in Seq(Events) /\ DOMAIN << >> = {}
    OBVIOUS
  <2>2. NoRepeat(<< >>)
    BY <2>1 DEF NoRepeat
  <2>3. Range(<< >>) = {}
    BY <2>1 DEF Range
  <2> QED BY <2>1, <2>2, <2>3 DEF Deferrals
<1>3. FreshWorker = FreshWith(<< >>, P)
  BY DEF FreshWith, FreshWorker
<1>4. Cardinality({}) = 0
  BY FS_EmptySet
<1> HIDE DEF P
<1>5. \A r \in Rooms : {e \in Range(<< >>) : RoomOf[e] = r} = {}
  BY <1>2
<1>6. ASSUME NEW r \in Rooms
      PROVE  /\ P[r].deferredCount = Cardinality({e \in Range(<< >>) : RoomOf[e] = r})
             /\ P[r].deferredCount > 0 => P[r].cursor # -1
  <2>1. Cardinality({e \in Range(<< >>) : RoomOf[e] = r}) = 0
    BY <1>4, <1>5
  <2>2. P[r].deferredCount = 0
    BY <1>1, NoProgressFacts
  <2> QED BY <2>1, <2>2
<1> QED BY <1>1, <1>2, <1>3, <1>6, FreshOK

LEMMA RestartOK ==
    ASSUME MemOK(w), Restart
    PROVE  MemOK(w')
<1> DEFINE P == [r \in Rooms |-> IF w.rooms[r].deferredCount = 0 THEN NoProgress
                               ELSE [NoProgress EXCEPT !.cursor = 0, !.deferredCount = w.rooms[r].deferredCount]]
<1>1. w' = FreshWith(w.deferred, P)
  BY DEF Restart, FreshWith, FreshWorker
<1>2. w \in Memory /\ w.deferred \in Deferrals
  BY MemoryFields DEF MemOK
<1>3. ASSUME NEW r \in Rooms
      PROVE  /\ P[r] \in ProgressRecords /\ P[r].deferredCount = w.rooms[r].deferredCount
             /\ P[r].deferredCount > 0 => P[r].cursor # -1
  <2>1. w.rooms[r].deferredCount \in Nat /\ 0 \in -1..MaxEvent
    BY <1>2, RoomFields, PendingAssumption
  <2>2. P[r] = IF w.rooms[r].deferredCount = 0 THEN NoProgress
               ELSE [NoProgress EXCEPT !.cursor = 0, !.deferredCount = w.rooms[r].deferredCount]
    OBVIOUS
  <2> HIDE DEF P
  <2>3. CASE w.rooms[r].deferredCount = 0
    BY <2>2, <2>3, NoProgressFacts
  <2>4. CASE w.rooms[r].deferredCount # 0
    <3>1. P[r] = [NoProgress EXCEPT !.cursor = 0, !.deferredCount = w.rooms[r].deferredCount]
      BY <2>2, <2>4
    <3>2. P[r] = [cursor |-> 0, rewind |-> FALSE, admitted |-> 0, deferredCount |-> w.rooms[r].deferredCount]
      BY <3>1 DEF NoProgress
    <3>3. 0 \in Orders
      BY PendingAssumption DEF Orders
    <3> QED BY <2>1, <3>2, <3>3 DEF ProgressRecords
  <2> QED BY <2>3, <2>4
<1>4. P \in Progresses
  BY <1>3 DEF Progresses
<1> HIDE DEF P
<1>5. \A r \in Rooms : w.rooms[r].deferredCount = Cardinality({e \in Range(w.deferred) : RoomOf[e] = r})
  BY DEF MemOK, Booked, DeferredOf, Deferred
<1>6. \A r \in Rooms : /\ P[r].deferredCount = Cardinality({e \in Range(w.deferred) : RoomOf[e] = r})
                       /\ P[r].deferredCount > 0 => P[r].cursor # -1
  BY <1>3, <1>5
<1> QED BY <1>1, <1>2, <1>4, <1>6, FreshOK

LEMMA ShutdownOK ==
    ASSUME MemOK(w), BeginShutdown
    PROVE  MemOK(w')
<1> DEFINE T == [r \in Rooms |-> NoRetry]
           D == [r \in Rooms |-> "off"]
<1>1. T \in Retries /\ D \in Drainings /\ NoScan \in ScanRecords /\ w \in Memory /\ -1 \in Int
      /\ \A r \in Rooms : T[r].at = "none"
  BY NoRetryFacts, NoScanFacts DEF Retries, Drainings, MemOK
<1>2. w' = [w EXCEPT !.stopped = TRUE, !.scan = NoScan, !.drain = NoScan, !.retry = FALSE, !.probes = -1,
                     !.retries = T, !.draining = D]
  BY DEF BeginShutdown
<1> HIDE DEF T, D
<1>3. /\ w' \in Memory /\ w'.rooms = w.rooms /\ w'.lanes = w.lanes /\ w'.retries = T /\ w'.ready = w.ready
      /\ w'.deferred = w.deferred
  BY <1>1, <1>2 DEF Memory
<1>4. \A r \in Rooms : DeferredOf(w', r) = DeferredOf(w, r)
  BY <1>3 DEF DeferredOf, Deferred
<1>5. \A r \in Rooms : Booked(w', r)
  BY <1>1, <1>3, <1>4 DEF MemOK, Booked
<1> QED BY <1>3, <1>5 DEF MemOK

-----------------------------------------------------------------------------
(* The pump's and the timers' steps.                                       *)

\* What a lane that has an event in hand knows.
LEMMA InHand ==
    ASSUME NEW m, MemOK(m), NEW r \in Rooms
    PROVE  /\ m.lanes[r].pc # "off" => HasProgress(m, r)
           /\ m.lanes[r].pc \in AtEvent => m.lanes[r].event \in Events /\ RoomOf[m.lanes[r].event] = r
           /\ m.lanes[r].event \in Orders /\ \A e \in m.lanes[r].page : RoomOf[e] = r
<1>1. m.lanes[r].event \in Orders /\ Booked(m, r)
  BY RoomFields DEF MemOK
<1>2. \A e \in Orders : e # 0 => e \in Events
  BY PendingAssumption DEF Orders, Events
<1> QED BY <1>1, <1>2 DEF Booked, HasProgress

LEMMA PumpWakesOK ==
    ASSUME MemOK(w), PumpWakes
    PROVE  MemOK(w')
<1> DEFINE k == [w EXCEPT !.wake = FALSE]
           n == StartLanes(k, w.ready)
           s == [ScanFrom(w.scanCursor) EXCEPT !.started = \E r \in w.ready : Starts(w, r)]
<1>1. w.scanCursor \in Orders /\ w.ready \in SUBSET Rooms
  BY MemoryFields DEF MemOK
<1>2. MemOK(n)
  BY <1>1, WakeSet, StartLanesOK
<1>3. s \in ScanRecords
  <2>1. (\E r \in w.ready : Starts(w, r)) \in BOOLEAN
    OBVIOUS
  <2> QED BY <1>1, <2>1, ScanFromFacts
<1>4. w' = [n EXCEPT !.scan = s]
  BY DEF PumpWakes
<1> HIDE DEF n, s
<1>5. Alike(n, w')
  BY <1>2, <1>3, <1>4 DEF Alike, MemOK, Memory
<1> QED BY <1>2, <1>5, AlikeOK

LEMMA PumpReadsOK ==
    ASSUME MemOK(w), PumpReads, BatchSize \in Nat
    PROVE  MemOK(w')
<1> DEFINE p == ScanPage(w.scan, FALSE)
           c == IF p.more THEN p.scan.cursor ELSE 0
           idle == [w EXCEPT !.scan = NoScan, !.scanCursor = c]
           on == [w EXCEPT !.scan = p.scan]
<1>1. p.scan \in ScanRecords /\ p.done \in BOOLEAN /\ p.more \in BOOLEAN
  BY MemoryFields, ScanPageFacts DEF MemOK
<1>2. c \in Orders /\ NoScan \in ScanRecords
  <2>1. 0 \in Orders
    BY PendingAssumption DEF Orders
  <2>2. p.scan.cursor \in Orders
    BY <1>1 DEF ScanRecords
  <2> HIDE DEF p
  <2> QED BY <2>1, <2>2, NoScanFacts
<1>3. w' = IF p.done \/ p.more THEN Dispatched(idle, p.scan, p.more) ELSE on
  BY DEF PumpReads
<1> HIDE DEF p, c
<1>4. Alike(w, idle) /\ Alike(w, on)
  BY <1>1, <1>2 DEF Alike, MemOK, Memory
<1> HIDE DEF idle, on
<1>5. MemOK(idle) /\ MemOK(on)
  BY <1>4, AlikeOK
<1>6. MemOK(Dispatched(idle, p.scan, p.more))
  BY <1>1, <1>5, DispatchedOK
<1> QED BY <1>3, <1>5, <1>6

LEMMA PumpOtherOK ==
    ASSUME MemOK(w), PumpFails \/ RetryTimer \/ DrainStarts
    PROVE  MemOK(w')
<1>1. NoScan \in ScanRecords /\ ScanFrom(0) \in ScanRecords
  <2>1. 0 \in Orders
    BY PendingAssumption DEF Orders
  <2> QED BY <2>1, NoScanFacts, ScanFromFacts
<1>2. Alike(w, w')
  <2>1. CASE PumpFails
    BY <1>1, <2>1 DEF PumpFails, Alike, MemOK, Memory
  <2>2. CASE RetryTimer
    BY <1>1, <2>2 DEF RetryTimer, Alike, MemOK, Memory
  <2>3. CASE DrainStarts
    BY <1>1, <2>3 DEF DrainStarts, Alike, MemOK, Memory
  <2> QED BY <2>1, <2>2, <2>3
<1> QED BY <1>2, AlikeOK

LEMMA DeferralScanOK ==
    ASSUME MemOK(w), DeferralScan, BatchSize \in Nat \ {0}
    PROVE  MemOK(w')
<1> DEFINE probed == QueueLostOwners(w)
           left == (IF w.probes = 0 THEN ProbesFor(w) ELSE w.probes) - 1
           woken == IF left > 0 THEN probed ELSE [probed EXCEPT !.wake = TRUE]
           q == IF left > 0 THEN left ELSE IF probed.deferred = <<>> THEN -1 ELSE 0
           done == [w EXCEPT !.probes = -1, !.wake = TRUE]
           n == [woken EXCEPT !.probes = q]
<1>1. w' = IF w.deferred = <<>> THEN done ELSE n
  BY DEF DeferralScan
<1>2. MemOK(probed)
  BY QueueLostOwnersOK
<1>3. left \in Int
  <2>1. w.probes \in Int /\ Len(w.deferred) \in Nat
    BY MemoryFields, SeqFacts DEF MemOK, Deferrals
  <2>2. ProbesFor(w) \in Int
    BY <2>1 DEF ProbesFor
  <2> QED BY <2>1, <2>2
<1> HIDE DEF left, probed
<1>4. q \in Int
  BY <1>3
<1>5. MemOK(woken)
  BY <1>2, WakeSet
<1> HIDE DEF woken, q
<1>6. Alike(woken, n)
  BY <1>4, <1>5 DEF Alike, MemOK, Memory
<1>7. Alike(w, done)
  <2>1. -1 \in Int
    OBVIOUS
  <2> QED BY <2>1 DEF Alike, MemOK, Memory
<1> HIDE DEF n, done
<1> QED BY <1>1, <1>5, <1>6, <1>7, AlikeOK

LEMMA DrainReadsOK ==
    ASSUME MemOK(w), DrainReads, BatchSize \in Nat
    PROVE  MemOK(w')
<1> DEFINE p == ScanPage(w.drain, TRUE)
           off == [w EXCEPT !.drain = NoScan]
           m == QueueLostOwners(off)
           D == [r \in Rooms |-> IF r \in p.scan.rooms \cup m.ready THEN "go" ELSE "off"]
           n == [m EXCEPT !.draining = D]
           on == [w EXCEPT !.drain = p.scan]
<1>1. p.scan \in ScanRecords /\ p.done \in BOOLEAN
  BY MemoryFields, ScanPageFacts DEF MemOK
<1>2. w' = IF p.done THEN n ELSE on
  BY DEF DrainReads
<1>3. D \in Drainings /\ NoScan \in ScanRecords
  BY NoScanFacts DEF Drainings
<1> HIDE DEF p, D
<1>4. Alike(w, on) /\ Alike(w, off)
  BY <1>1, <1>3 DEF Alike, MemOK, Memory
<1> HIDE DEF on, off
<1>5. MemOK(on) /\ MemOK(off)
  BY <1>4, AlikeOK
<1>6. MemOK(m)
  BY <1>5, QueueLostOwnersOK
<1> HIDE DEF m
<1>7. Alike(m, n)
  BY <1>3, <1>6 DEF Alike, MemOK, Memory
<1> HIDE DEF n
<1> QED BY <1>2, <1>5, <1>6, <1>7, AlikeOK

LEMMA DrainingSet ==
    ASSUME NEW m, MemOK(m), NEW r \in Rooms, NEW d \in {"off", "go", "own", "check"}
    PROVE  MemOK([m EXCEPT !.draining[r] = d])
<1> DEFINE D == [m.draining EXCEPT ![r] = d]
           n == [m EXCEPT !.draining = D]
<1>1. D \in Drainings
  BY MemoryFields DEF MemOK, Drainings
<1>2. [m EXCEPT !.draining[r] = d] = n
  OBVIOUS
<1> HIDE DEF D
<1>3. Alike(m, n)
  BY <1>1 DEF Alike, MemOK, Memory
<1> HIDE DEF n
<1> QED BY <1>2, <1>3, AlikeOK

LEMMA DrainRoomOK ==
    ASSUME MemOK(w), NEW r \in Rooms, DrainRoom(r)
    PROVE  MemOK(w')
<1> DEFINE n == StartLanes(QueueRoom(w, r, FALSE), {r})
<1>1. MemOK(n)
  BY QueueRoomOK, StartLanesOK
<1>2. \/ w' = [w EXCEPT !.draining[r] = "go"] \/ w' = [w EXCEPT !.draining[r] = "off"]
      \/ w' = [n EXCEPT !.draining[r] = "own"]
  BY DEF DrainRoom
<1> HIDE DEF n
<1>3. MemOK([w EXCEPT !.draining[r] = "go"]) /\ MemOK([w EXCEPT !.draining[r] = "off"])
  BY DrainingSet
<1>4. MemOK([n EXCEPT !.draining[r] = "own"])
  BY <1>1, DrainingSet
<1> QED BY <1>2, <1>3, <1>4

LEMMA RoomRetryFinishedOK ==
    ASSUME MemOK(w), NEW r \in Rooms, RoomRetryFinished(r)
    PROVE  MemOK(w')
<1> DEFINE q == [w.retries[r] EXCEPT !.at = "done"]
           p == [w.rooms[r] EXCEPT !.admitted = 0]
           k == WithRetry(w, r, q)
           n == WithRoom(k, r, p)
<1>0. w \in Memory /\ w.rooms[r] \in ProgressRecords /\ w.retries[r] \in RetryRecords /\ w.retries[r].at = "awake" /\ Booked(w, r)
      /\ 0 \in Orders
  BY RoomFields, PendingAssumption DEF MemOK, RoomRetryFinished, Orders
<1>1. q \in RetryRecords /\ q.at = "done" /\ p \in ProgressRecords /\ p.cursor = w.rooms[r].cursor
      /\ p.deferredCount = w.rooms[r].deferredCount
  BY <1>0 DEF RetryRecords, ProgressRecords
<1>2. w' = StartLanes(QueueRoom(n, r, FALSE), {r})
  BY <1>0 DEF RoomRetryFinished, WithRetry, WithRoom
<1>3. /\ w.rooms[r].cursor # -1
  BY <1>0 DEF Booked
<1> HIDE DEF p, q
<1>4. /\ WorksOn(w, k, r) /\ k.retries[r] = q /\ k.rooms[r] = w.rooms[r] /\ k.lanes[r] = w.lanes[r]
      /\ k.ready = w.ready /\ DeferredOf(k, r) = DeferredOf(w, r)
  BY <1>0, <1>1, SetRetry
<1>5. Booked(k, r)
  BY <1>0, <1>3, <1>4 DEF Booked
<1>6. MemOK(k)
  BY <1>4, <1>5, BookedOn
<1> HIDE DEF k
<1>7. MemOK(n)
  BY <1>1, <1>3, <1>4, <1>6, ProgressSet
<1> HIDE DEF n
<1> QED BY <1>2, <1>7, QueueRoomOK, StartLanesOK

LEMMA CooldownEndsOK ==
    ASSUME MemOK(w), NEW r \in Rooms, CooldownEnds(r)
    PROVE  MemOK(w')
<1> DEFINE q == [w.retries[r] EXCEPT !.at = "awake"]
<1>0. w \in Memory /\ w.retries[r] \in RetryRecords /\ w.retries[r].at = "sleeping" /\ Booked(w, r)
  BY RoomFields DEF MemOK, CooldownEnds
<1>1. q \in RetryRecords /\ q.at = "awake"
  BY <1>0 DEF RetryRecords
<1>2. w' = WithRetry(w, r, q)
  BY <1>0 DEF CooldownEnds, WithRetry
<1> HIDE DEF q
<1>3. /\ WorksOn(w, w', r) /\ w'.retries[r] = q /\ w'.rooms[r] = w.rooms[r] /\ w'.lanes[r] = w.lanes[r]
      /\ w'.ready = w.ready /\ DeferredOf(w', r) = DeferredOf(w, r)
  BY <1>0, <1>1, <1>2, SetRetry
<1>4. Booked(w', r)
  BY <1>0, <1>3 DEF Booked
<1> QED BY <1>3, <1>4, BookedOn

-----------------------------------------------------------------------------
(* A lane's steps.                                                         *)

LEMMA LaneReadsOK ==
    ASSUME MemOK(w), NEW r \in Rooms, LaneReads(r)
    PROVE  MemOK(w')
<1> DEFINE m == ApplyRewind(w, r)
           page == FirstRows(PendingRows({r}, m.rooms[r].cursor))
           resume == ResumeAfter(page, m.rooms[r].cursor)
           end == Cardinality(page) < BatchSize
           l == [m.lanes[r] EXCEPT !.pc = "page", !.page = page, !.pages = @ + 1, !.resume = resume, !.end = end]
<1>1. w' = WithLane(m, r, l)
  BY DEF LaneReads, WithLane
<1>2. HasProgress(w, r)
  BY InHand DEF LaneReads
<1>3. MemOK(m) /\ HasProgress(m, r)
  BY <1>2, ApplyRewindOK
<1>4. page \in SUBSET Events /\ \A e \in page : RoomOf[e] = r
  BY PageFacts
<1> HIDE DEF m
<1>5. m.rooms[r].cursor \in Orders /\ m.lanes[r] \in LaneRecords /\ m.lanes[r].pages \in Nat
  <2>1. m.rooms[r].cursor \in -1..MaxEvent /\ m.lanes[r] \in LaneRecords /\ m.lanes[r].pages \in Nat /\ m.rooms[r].cursor # -1
    BY <1>3, RoomFields DEF MemOK, HasProgress
  <2> QED BY <2>1, PendingAssumption DEF Orders
<1> HIDE DEF page
<1>6. resume \in Orders /\ end \in BOOLEAN /\ m.lanes[r].pages + 1 \in Nat /\ "page" \in LanePCs
  <2>1. resume \in Orders
    BY <1>4, <1>5, ResumeFacts
  <2> QED BY <1>5, <2>1 DEF LanePCs
<1> HIDE DEF resume, end
<1>7. l \in LaneRecords /\ l.pc = "page" /\ l.page = page
  BY <1>4, <1>5, <1>6 DEF LaneRecords
<1> HIDE DEF l
<1>8. MemOK(WithLane(m, r, l))
  BY <1>3, <1>4, <1>7, LaneSet DEF AtEvent
<1> QED BY <1>1, <1>8

LEMMA LaneGetsPageOK ==
    ASSUME MemOK(w), NEW r \in Rooms, LaneGetsPage(r)
    PROVE  MemOK(w')
<1>1. HasProgress(w, r)
  BY InHand DEF LaneGetsPage
<1>2. MemOK(NextPage(ApplyRewind(w, r), r)) /\ MemOK(NextEvent(w, r))
  BY <1>1, ApplyRewindOK, NextPageOK, NextEventOK
<1> QED BY <1>2 DEF LaneGetsPage

\* The lane moves on with the event it has in hand.
LEMMA LaneMovesOK ==
    ASSUME NEW m, MemOK(m), NEW r \in Rooms, m.lanes[r].pc \in AtEvent, NEW pc \in LanePCs, NEW a \in BOOLEAN, NEW b \in BOOLEAN,
           NEW l, l = [m.lanes[r] EXCEPT !.pc = pc, !.pending = a, !.handed = b]
    PROVE  MemOK(WithLane(m, r, l))
<1>1. m.lanes[r] \in LaneRecords /\ HasProgress(m, r) /\ m.lanes[r].event \in Events /\ RoomOf[m.lanes[r].event] = r
      /\ \A e \in m.lanes[r].page : RoomOf[e] = r
  BY RoomFields, InHand DEF MemOK, AtEvent
<1>2. l \in LaneRecords /\ l.event = m.lanes[r].event /\ l.page = m.lanes[r].page
  BY <1>1 DEF LaneRecords
<1>3. l.event # 0
  BY <1>1, <1>2, PendingAssumption DEF Events
<1> QED BY <1>1, <1>2, <1>3, LaneSet

LEMMA LaneChecksOK ==
    ASSUME MemOK(w), NEW r \in Rooms, LaneChecks(r)
    PROVE  MemOK(w')
<1> DEFINE l == w.lanes[r]
           a == state[w.lanes[r].event] = "pending"
           k == [l EXCEPT !.pc = "checked", !.pending = a, !.handed = l.handed]
<1>1. w.lanes[r] \in LaneRecords /\ l.handed \in BOOLEAN /\ a \in BOOLEAN /\ "checked" \in LanePCs /\ l.pc \in AtEvent
  BY RoomFields DEF MemOK, LanePCs, AtEvent, LaneChecks
<1>2. w' = WithLane(w, r, k)
  <2>1. k = [l EXCEPT !.pc = "checked", !.pending = a]
    BY <1>1 DEF LaneRecords
  <2>2. w' = WithLane(w, r, [l EXCEPT !.pc = "checked", !.pending = a])
    BY DEF LaneChecks, WithLane
  <2> QED BY <2>1, <2>2
<1>3. MemOK(WithLane(w, r, k))
  BY <1>1, LaneMovesOK
<1> QED BY <1>2, <1>3

\* A lane that changes only where it is.
LEMMA LanePCSet ==
    ASSUME NEW m, MemOK(m), NEW r \in Rooms, m.lanes[r].pc \in AtEvent, NEW pc \in LanePCs
    PROVE  MemOK([m EXCEPT !.lanes[r].pc = pc])
<1> DEFINE l == m.lanes[r]
           k == [l EXCEPT !.pc = pc, !.pending = l.pending, !.handed = l.handed]
<1>1. l \in LaneRecords /\ l.handed \in BOOLEAN /\ l.pending \in BOOLEAN
  BY RoomFields DEF MemOK
<1>2. k = [l EXCEPT !.pc = pc]
  BY <1>1 DEF LaneRecords
<1>3. [m EXCEPT !.lanes[r].pc = pc] = WithLane(m, r, k)
  BY <1>2 DEF WithLane
<1>4. MemOK(WithLane(m, r, k))
  BY <1>1, LaneMovesOK
<1> QED BY <1>3, <1>4

LEMMA AdmittedSet ==
    ASSUME NEW m, MemOK(m), NEW r \in Rooms, HasProgress(m, r), NEW e \in Orders
    PROVE  MemOK([m EXCEPT !.rooms[r].admitted = e]) /\ [m EXCEPT !.rooms[r].admitted = e].lanes = m.lanes
<1> DEFINE p == [m.rooms[r] EXCEPT !.admitted = e]
           n == [m EXCEPT !.rooms[r].admitted = e]
<1>1. m.rooms[r] \in ProgressRecords /\ m.rooms[r].cursor # -1
  BY RoomFields DEF MemOK, HasProgress
<1>2. p \in ProgressRecords /\ p.cursor # -1 /\ p.deferredCount = m.rooms[r].deferredCount
  BY <1>1 DEF ProgressRecords
<1>3. n = WithRoom(m, r, p)
  BY DEF WithRoom
<1> HIDE DEF p, n
<1>4. MemOK(n) /\ n.lanes = m.lanes
  BY <1>2, <1>3, ProgressSet
<1> QED BY <1>4 DEF n

LEMMA ReleaseLanes ==
    ASSUME NEW m \in Memory, NEW e
    PROVE  Release(m, e).lanes = m.lanes
BY DEF Release, Memory

LEMMA LaneAdmitsOK ==
    ASSUME MemOK(w), NEW r \in Rooms, LaneAdmits(r)
    PROVE  MemOK(w')
<1> DEFINE e == w.lanes[r].event
           admitted == [w EXCEPT !.rooms[r].admitted = e]
<1>1. HasProgress(w, r) /\ e \in Events /\ e \in Orders /\ w.lanes[r].pc \in AtEvent /\ "callback" \in LanePCs
  BY InHand DEF LaneAdmits, AtEvent, LanePCs
<1>2. MemOK(admitted) /\ admitted.lanes = w.lanes
  BY <1>1, AdmittedSet
<1>3. \/ w' = EndPass(ApplyRewind(w, r), r, TRUE)
      \/ w' = Passed(Release(w, e), r, e)
      \/ w' = EndPass(ScheduleRoomRetry(w, r, e), r, FALSE)
      \/ w' = Deferring(admitted, r, e)
      \/ w' = [admitted EXCEPT !.lanes[r].pc = "callback"]
  BY DEF LaneAdmits
<1> HIDE DEF admitted, e
<1>4. MemOK(EndPass(ApplyRewind(w, r), r, TRUE))
  BY <1>1, ApplyRewindOK, EndPassOK
<1>5. MemOK(Passed(Release(w, e), r, e))
  BY <1>1, ReleaseOK, PassedOK
<1>6. MemOK(EndPass(ScheduleRoomRetry(w, r, e), r, FALSE))
  BY <1>1, ScheduleRoomRetryOK, EndPassOK
<1>7. MemOK(Deferring(admitted, r, e))
  BY <1>1, <1>2, DeferringOK
<1>8. MemOK([admitted EXCEPT !.lanes[r].pc = "callback"])
  BY <1>1, <1>2, LanePCSet
<1> QED BY <1>3, <1>4, <1>5, <1>6, <1>7, <1>8

LEMMA CallbackOK ==
    ASSUME MemOK(w), NEW r \in Rooms, CallbackSettles(r) \/ CallbackDefers(r) \/ LaneSettles(r)
    PROVE  MemOK(w')
<1> DEFINE e == w.lanes[r].event
           n == Release(w, e)
<1>1. HasProgress(w, r) /\ e \in Events /\ w.lanes[r].pc \in AtEvent /\ "settle" \in LanePCs
  BY InHand DEF CallbackSettles, CallbackDefers, LaneSettles, AtEvent, LanePCs
<1>2. w' = [n EXCEPT !.lanes[r].pc = "settle"] \/ w' = Deferring(w, r, e) \/ w' = Passed(RecordProgress(w, r, e), r, e)
  BY DEF CallbackSettles, CallbackDefers, LaneSettles
<1>3. MemOK(n) /\ n.lanes = w.lanes
  BY <1>1, ReleaseOK, ReleaseLanes DEF MemOK
<1> HIDE DEF e, n
<1>4. MemOK([n EXCEPT !.lanes[r].pc = "settle"])
  BY <1>1, <1>3, LanePCSet
<1>5. MemOK(Deferring(w, r, e))
  BY <1>1, DeferringOK
<1>6. MemOK(Passed(RecordProgress(w, r, e), r, e))
  BY <1>1, RecordProgressOK, PassedOK
<1> QED BY <1>2, <1>4, <1>5, <1>6

LEMMA LaneFailsOK ==
    ASSUME MemOK(w), NEW r \in Rooms, LaneFails(r)
    PROVE  MemOK(w')
<1>1. HasProgress(w, r) /\ w.lanes[r].event \in Orders
  BY InHand DEF LaneFails
<1> QED BY <1>1, LaneRaisesOK DEF LaneFails

LEMMA LaneOffOK ==
    ASSUME NEW m, MemOK(m), NEW r \in Rooms, NEW n, n = WithLane(m, r, NoLane)
    PROVE  /\ MemOK(n) /\ n.rooms = m.rooms /\ n.ready = m.ready /\ n.retries = m.retries /\ n.lanes[r].pc = "off"
           /\ n.deferred = m.deferred
<1>1. m \in Memory /\ Booked(m, r)
  BY DEF MemOK
<1>2. /\ WorksOn(m, n, r) /\ n.lanes[r] = NoLane /\ n.rooms[r] = m.rooms[r] /\ n.retries[r] = m.retries[r]
      /\ n.ready = m.ready /\ DeferredOf(n, r) = DeferredOf(m, r) /\ n.deferred = m.deferred
  BY <1>1, NoLaneFacts, SetLane
<1>3. Booked(n, r) /\ n.lanes[r].pc = "off"
  BY <1>1, <1>2, NoLaneFacts DEF Booked, AtEvent
<1>4. MemOK(n)
  BY <1>2, <1>3, BookedOn
<1>5. n.rooms = m.rooms /\ n.retries = m.retries
  BY <1>1 DEF WithLane, Memory
<1> QED BY <1>2, <1>3, <1>4, <1>5

LEMMA LaneCancelledOK ==
    ASSUME MemOK(w), NEW r \in Rooms, LaneCancelled(r)
    PROVE  MemOK(w')
<1>1. w' = WithLane(w, r, NoLane)
  BY DEF LaneCancelled, WithLane
<1> QED BY <1>1, LaneOffOK

LEMMA LaneFinishedOK ==
    ASSUME MemOK(w), NEW r \in Rooms, LaneFinished(r)
    PROVE  MemOK(w')
<1> DEFINE lane == w.lanes[r]
           closed == WithLane(w, r, NoLane)
           clear == ~lane.failed /\ ~lane.more /\ w.rooms[r].deferredCount = 0
           progressed == IF clear THEN RecordProgress(closed, r, MaxEvent) ELSE closed
           queued == IF lane.more THEN [progressed EXCEPT !.ready = @ \cup {r}] ELSE progressed
           gone == [queued EXCEPT !.rooms[r] = NoProgress]
           next == IF r \in queued.ready THEN StartLanes(queued, {r})
                   ELSE IF queued.retries[r].at = "none" /\ queued.rooms[r].deferredCount = 0 THEN gone ELSE queued
<1>1. w' = IF w.stopped THEN closed ELSE ScheduleProbe(next)
  BY DEF LaneFinished, WithLane
<1>2. MemOK(closed) /\ closed.rooms = w.rooms /\ closed.lanes[r].pc = "off"
  BY LaneOffOK
<1>3. HasProgress(w, r)
  BY InHand DEF LaneFinished
<1> HIDE DEF closed, clear
<1>4. MemOK(progressed) /\ progressed.rooms = w.rooms /\ progressed.lanes[r].pc = "off"
  BY <1>2, RecordProgressOK
<1> HIDE DEF progressed
<1>5. MemOK(queued) /\ queued.lanes[r].pc = "off"
  <2> DEFINE n == [progressed EXCEPT !.ready = @ \cup {r}]
  <2>1. /\ n \in Memory /\ n.rooms = progressed.rooms /\ n.lanes = progressed.lanes /\ n.retries = progressed.retries
        /\ n.ready = progressed.ready \cup {r} /\ n.deferred = progressed.deferred /\ n.stopped = progressed.stopped
    BY <1>4 DEF MemOK, Memory
  <2>2. queued = n \/ queued = progressed
    OBVIOUS
  <2> HIDE DEF n
  <2>3. \A s \in Rooms : DeferredOf(n, s) = DeferredOf(progressed, s)
    BY <2>1 DEF DeferredOf, Deferred
  <2>4. \A s \in Rooms \ {r} : SameRoom(progressed, n, s)
    BY <2>1, <2>3 DEF SameRoom
  <2>5. WorksOn(progressed, n, r)
    BY <2>1, <2>4 DEF WorksOn
  <2>6. n.rooms[r].cursor # -1
    BY <1>3, <1>4, <2>1 DEF HasProgress
  <2>7. Booked(n, r)
    BY <1>4, <2>1, <2>3, <2>6 DEF MemOK, Booked
  <2> QED BY <1>4, <2>1, <2>2, <2>5, <2>7, BookedOn
<1> HIDE DEF queued
<1>6. MemOK(StartLanes(queued, {r}))
  BY <1>5, StartLanesOK
<1>7. r \notin queued.ready /\ queued.retries[r].at = "none" /\ queued.rooms[r].deferredCount = 0 => MemOK(gone)
  <2> SUFFICES ASSUME r \notin queued.ready, queued.retries[r].at = "none", queued.rooms[r].deferredCount = 0
               PROVE  MemOK(gone)
    OBVIOUS
  <2>1. gone = WithRoom(queued, r, NoProgress) /\ queued \in Memory /\ Booked(queued, r)
    BY <1>5 DEF WithRoom, MemOK
  <2> HIDE DEF gone
  <2>2. /\ WorksOn(queued, gone, r) /\ gone.rooms[r] = NoProgress /\ gone.lanes[r] = queued.lanes[r]
        /\ gone.retries[r] = queued.retries[r] /\ gone.ready = queued.ready /\ DeferredOf(gone, r) = DeferredOf(queued, r)
    BY <2>1, NoProgressFacts, SetRoom
  <2>3. Booked(gone, r)
    BY <1>5, <2>1, <2>2, NoProgressFacts DEF Booked, AtEvent
  <2> QED BY <1>5, <2>2, <2>3, BookedOn
<1>8. MemOK(next)
  BY <1>5, <1>6, <1>7
<1> HIDE DEF next
<1> QED BY <1>1, <1>2, <1>8, ScheduleProbeOK

-----------------------------------------------------------------------------
(* The worker's invariant.                                                 *)

LEMMA TurnClaimsOK ==
    ASSUME MemOK(w), NEW r \in Rooms, TurnClaims(r)
    PROVE  MemOK(w')
<1> DEFINE l == w.lanes[r]
           k == [l EXCEPT !.pc = l.pc, !.pending = l.pending, !.handed = TRUE]
<1>1. l \in LaneRecords /\ l.pc \in LanePCs /\ l.pending \in BOOLEAN /\ l.pc \in AtEvent
  BY RoomFields DEF MemOK, TurnClaims, AtEvent
<1>2. k = [l EXCEPT !.handed = TRUE]
  BY <1>1 DEF LaneRecords
<1>3. w' = WithLane(w, r, k)
  BY <1>2 DEF WithLane, TurnClaims
<1>4. MemOK(WithLane(w, r, k))
  BY <1>1, LaneMovesOK
<1> QED BY <1>3, <1>4

Owners == {"none", "live", "answered", "ignoring", "leaving"}

\* What the worker and the turns keep.
TurnTypes ==
    /\ paused \in [Events -> BOOLEAN] /\ owner \in [Events -> Owners] /\ late \in [Events -> BOOLEAN]

WorkerInv == MemOK(w) /\ TurnTypes

LEMMA TurnTypesStep ==
    ASSUME TurnTypes, [Next]_vars
    PROVE  TurnTypes'
<1> USE DEF TurnTypes, Owners
<1>1. CASE AdmitBatch \/ AckBatch \/ IngestFails
  BY <1>1 DEF AdmitBatch, AckBatch, IngestFails, durable, turns
<1>2. CASE PumpWakes \/ PumpReads \/ PumpFails \/ RetryTimer \/ DeferralScan
  BY <1>2 DEF PumpWakes, PumpReads, PumpFails, RetryTimer, DeferralScan, durable, turns
<1>3. CASE DrainStarts \/ DrainReads \/ BeginShutdown \/ Restart
  BY <1>3 DEF DrainStarts, DrainReads, BeginShutdown, Restart, durable, turns
<1>4. CASE Crash
  BY <1>4 DEF Crash
<1>5. ASSUME NEW r \in Rooms, LaneStep(r)
      PROVE  TurnTypes'
  BY <1>5 DEF LaneStep, LaneReads, LaneGetsPage, LaneChecks, LaneAdmits, CallbackSettles, CallbackDefers,
              LaneSettles, LaneFinished, LaneCancelled, durable, turns
<1>6. ASSUME NEW r \in Rooms, LaneFails(r) \/ CooldownEnds(r) \/ RoomRetryFinished(r) \/ DrainRoom(r)
      PROVE  TurnTypes'
  BY <1>6 DEF LaneFails, CooldownEnds, RoomRetryFinished, DrainRoom, durable, turns
<1>7. ASSUME NEW r \in Rooms, TurnClaims(r)
      PROVE  TurnTypes'
  BY <1>7 DEF TurnClaims, durable
<1>8. ASSUME NEW e \in Events, TurnEnds(e)
      PROVE  TurnTypes'
  BY <1>8 DEF TurnEnds, TurnAnswers, TurnIgnores, durable
<1>9. ASSUME NEW e \in Events, TurnCleanup(e)
      PROVE  TurnTypes'
  BY <1>9 DEF TurnCleanup, ReleaseDelivered, SettleIgnored, DropClaim, LateHandoff, ApprovalDecides, durable
<1>10. ASSUME NEW e \in Events, TurnRetries(e) \/ TurnPauses(e) \/ TurnVanishes(e) \/ SettleIgnoredFails(e)
       PROVE  TurnTypes'
  BY <1>10 DEF TurnRetries, TurnPauses, TurnVanishes, SettleIgnoredFails, durable
<1>11. CASE UNCHANGED vars
  BY <1>11 DEF vars, durable, turns
<1> QED BY <1>1, <1>2, <1>3, <1>4, <1>5, <1>6, <1>7, <1>8, <1>9, <1>10, <1>11 DEF Next

LEMMA MemoryStep ==
    ASSUME MemOK(w), load \in Loads, [Next]_vars
    PROVE  MemOK(w')
<1>0. BatchSize \in Nat \ {0}
  BY DEF Loads, BatchSize
<1>1. CASE w' = w
  BY <1>1
<1>2. CASE AckBatch
  BY <1>2, WakeSet DEF AckBatch, WakeWorker
<1>3. CASE PumpWakes
  BY <1>3, PumpWakesOK
<1>4. CASE PumpReads \/ DeferralScan \/ DrainReads
  BY <1>0, <1>4, PumpReadsOK, DeferralScanOK, DrainReadsOK
<1>5. CASE PumpFails \/ RetryTimer \/ DrainStarts
  BY <1>5, PumpOtherOK
<1>6. CASE BeginShutdown \/ Restart \/ Crash
  BY <1>6, ShutdownOK, RestartOK, FreshWorkerOK DEF Crash
<1>7. ASSUME NEW r \in Rooms, LaneStep(r)
      PROVE  MemOK(w')
  BY <1>7, LaneReadsOK, LaneGetsPageOK, LaneChecksOK, LaneAdmitsOK, CallbackOK, LaneFinishedOK, LaneCancelledOK DEF LaneStep
<1>8. ASSUME NEW r \in Rooms,
             LaneFails(r) \/ TurnClaims(r) \/ CooldownEnds(r) \/ RoomRetryFinished(r) \/ DrainRoom(r)
      PROVE  MemOK(w')
  BY <1>8, LaneFailsOK, TurnClaimsOK, CooldownEndsOK, RoomRetryFinishedOK, DrainRoomOK
<1>9. ASSUME NEW e \in Events,
             ReleaseDelivered(e) \/ TurnIgnores(e) \/ SettleIgnoredFails(e) \/ TurnRetries(e) \/ LateHandoff(e)
      PROVE  MemOK(w')
  <2>1. w' = Release(w, e) \/ w' = RetrySource(w, e)
    BY <1>9 DEF ReleaseDelivered, TurnIgnores, SettleIgnoredFails, TurnRetries, LateHandoff
  <2> QED BY <2>1, ReleaseOK, ReclaimOK
<1>10. ASSUME NEW e \in Events,
              TurnAnswers(e) \/ SettleIgnored(e) \/ DropClaim(e) \/ ApprovalDecides(e) \/ TurnPauses(e) \/ TurnVanishes(e)
       PROVE  w' = w
  BY <1>10 DEF TurnAnswers, SettleIgnored, DropClaim, ApprovalDecides, TurnPauses, TurnVanishes
<1>11. CASE AdmitBatch \/ IngestFails \/ UNCHANGED vars
  BY <1>11 DEF AdmitBatch, IngestFails, vars
<1> QED BY <1>1, <1>2, <1>3, <1>4, <1>5, <1>6, <1>7, <1>8, <1>9, <1>10, <1>11 DEF Next, TurnEnds, TurnCleanup

LEMMA WorkerHolds == Spec => []WorkerInv
<1>1. Init => WorkerInv
  BY FreshWorkerOK DEF Init, WorkerInv, TurnTypes, Owners
<1>2. WorkerInv /\ JournalInv /\ [Next]_vars => WorkerInv'
  BY MemoryStep, TurnTypesStep DEF WorkerInv, JournalInv, JournalTypes
<1> QED BY <1>1, <1>2, JournalHolds, PTL DEF Spec

\* The books of the worker balance: whatever is released, deferred, probed, retried,
\* drained, stopped or restarted, a room's count is the number of its deferrals, and a
\* room with a deferral, a lane, a cooldown or a place in the ready set has its record,
\* so that no lookup of release, _lane_finished or _room_retry_finished can miss.
THEOREM WorkerBooksBalance == Spec => []PendingInv
<1>1. JournalInv /\ WorkerInv => PendingInv
  <2> SUFFICES ASSUME JournalInv, WorkerInv PROVE PendingInv
    OBVIOUS
  <2>1. /\ w.rooms \in Progresses /\ w.ready \in SUBSET Rooms /\ w.retries \in Retries /\ w.deferred \in Deferrals
        /\ w.wake \in BOOLEAN /\ w.retry \in BOOLEAN /\ w.scanCursor \in Orders /\ w.stopped \in BOOLEAN
    BY MemoryFields DEF WorkerInv, MemOK
  <2>2. TypeOK
    BY <2>1 DEF TypeOK, JournalInv, JournalTypes, WorkerInv, TurnTypes, Owners, Progresses, ProgressRecords, Retries,
                RetryRecords, Deferrals, Orders
  <2>3. DeferralsAreCounted
    BY DEF WorkerInv, MemOK, Booked, DeferredOf, HasProgress, DeferralsAreCounted
  <2>4. AckedIsJournaled
    <3>1. acked \in Nat /\ nextSequence \in Nat /\ acked <= nextSequence - 1
      BY DEF JournalInv, JournalTypes, Positions
    <3> QED BY <3>1 DEF JournalInv, CommittedIsJournaled, AckedIsJournaled
  <2> QED BY <2>2, <2>3, <2>4 DEF PendingInv
<1> QED BY <1>1, JournalHolds, WorkerHolds, PTL

-----------------------------------------------------------------------------
(* Receipt order: what a lane has passed.                                  *)

OnPage == {"page"} \cup AtEvent

\* An event that the lane may leave behind it: it is accounted for outside the
\* lane (X), an owner holds it, or the room is to be read again from the beginning.
Held(m, X, r, e) == e \in X \/ e \in DeferredOf(m, r) \/ m.rooms[r].rewind

\* The page of a lane lies between the cursor and the resume point, in receipt
\* order, and its events have rows (K).
PageSound(m, K, r) ==
    /\ m.lanes[r].pc \notin AtEvent => m.lanes[r].event = 0
    /\ m.lanes[r].pc \in OnPage =>
         \A e \in m.lanes[r].page : m.rooms[r].cursor < e /\ e <= m.lanes[r].resume /\ e \in K
    /\ m.lanes[r].pc \in AtEvent =>
         /\ m.rooms[r].cursor < m.lanes[r].event /\ m.lanes[r].event <= m.lanes[r].resume /\ m.lanes[r].event \in K
         /\ \A e \in m.lanes[r].page : m.lanes[r].event < e

\* Nothing behind the cursor is forgotten.
CursorSafe(m, X, r) == \A e \in Events : RoomOf[e] = r /\ e <= m.rooms[r].cursor => Held(m, X, r, e)

\* Nothing the page's read passed is forgotten.
PageSafe(m, X, r) ==
    m.lanes[r].pc \in OnPage =>
        \A e \in Events : RoomOf[e] = r /\ e <= m.lanes[r].resume =>
            \/ Held(m, X, r, e) \/ e \in m.lanes[r].page
            \/ m.lanes[r].pc \in AtEvent /\ e = m.lanes[r].event

TrailOf(m, X, K, r) == PageSound(m, K, r) /\ (m.stopped \/ (CursorSafe(m, X, r) /\ PageSafe(m, X, r)))
Trail(m, X, K) == MemOK(m) /\ \A r \in Rooms : TrailOf(m, X, K, r)

\* The same with the lane of room r between two positions.
Loose(m, X, K, r) ==
    /\ MemOK(m) /\ \A s \in Rooms \ {r} : TrailOf(m, X, K, s)
    /\ HasProgress(m, r) /\ (m.stopped \/ CursorSafe(m, X, r))

\* No lane of n is in a callback, or about to be, that it was not in before.
Late == {"checked", "callback", "settle"}
Calm(m, n) == \A r \in Rooms : n.lanes[r] = m.lanes[r] \/ n.lanes[r].pc \notin Late

LEMMA CalmTwice ==
    ASSUME NEW m, NEW n, NEW k, Calm(m, n), Calm(n, k)
    PROVE  Calm(m, k)
BY DEF Calm

LEMMA CalmOn ==
    ASSUME NEW m, NEW n, NEW r \in Rooms, WorksOn(m, n, r), n.lanes[r] = m.lanes[r] \/ n.lanes[r].pc \notin Late
    PROVE  Calm(m, n)
BY DEF Calm, WorksOn, SameRoom

LEMMA TrailAlike ==
    ASSUME NEW m, NEW n, NEW r \in Rooms, SameRoom(m, n, r), n.stopped = m.stopped, NEW X, NEW K, TrailOf(m, X, K, r)
    PROVE  TrailOf(n, X, K, r)
BY DEF SameRoom, TrailOf, PageSound, CursorSafe, PageSafe, Held

LEMMA TrailOn ==
    ASSUME NEW m, NEW n, NEW r \in Rooms, WorksOn(m, n, r), MemOK(n), NEW X, NEW K,
           \A s \in Rooms \ {r} : TrailOf(m, X, K, s), TrailOf(n, X, K, r)
    PROVE  Trail(n, X, K)
<1>1. n.stopped = m.stopped /\ \A s \in Rooms \ {r} : SameRoom(m, n, s)
  BY DEF WorksOn
<1>2. \A s \in Rooms \ {r} : TrailOf(n, X, K, s)
  BY <1>1, TrailAlike
<1> QED BY <1>2 DEF Trail

LEMMA LooseOn ==
    ASSUME NEW m, NEW n, NEW r \in Rooms, WorksOn(m, n, r), MemOK(n), NEW X, NEW K,
           \A s \in Rooms \ {r} : TrailOf(m, X, K, s), HasProgress(n, r), n.stopped \/ CursorSafe(n, X, r)
    PROVE  Loose(n, X, K, r)
<1>1. n.stopped = m.stopped /\ \A s \in Rooms \ {r} : SameRoom(m, n, s)
  BY DEF WorksOn
<1>2. \A s \in Rooms \ {r} : TrailOf(n, X, K, s)
  BY <1>1, TrailAlike
<1> QED BY <1>2 DEF Loose

\* What is accounted for may grow.
LEMMA TrailGrows ==
    ASSUME NEW m, NEW X, NEW K, NEW Y, NEW L, Trail(m, X, K), X \subseteq Y, K \subseteq L
    PROVE  Trail(m, Y, L)
BY DEF Trail, TrailOf, PageSound, CursorSafe, PageSafe, Held

LEMMA TrailIsLoose ==
    ASSUME NEW m, NEW X, NEW K, Trail(m, X, K), NEW r \in Rooms, HasProgress(m, r)
    PROVE  Loose(m, X, K, r)
BY DEF Trail, TrailOf, Loose

\* Memories that differ in nothing a room keeps.
LEMMA TrailParts ==
    ASSUME NEW m, NEW n, NEW X, NEW K, Trail(m, X, K), Alike(m, n), n.stopped = m.stopped
    PROVE  Trail(n, X, K) /\ Calm(m, n)
<1>1. MemOK(n)
  BY AlikeOK DEF Trail
<1>2. \A r \in Rooms : SameRoom(m, n, r)
  BY DEF Alike, SameRoom, DeferredOf, Deferred
<1>3. \A r \in Rooms : TrailOf(n, X, K, r)
  BY <1>2, TrailAlike DEF Trail
<1>4. Calm(m, n)
  BY DEF Alike, Calm
<1> QED BY <1>1, <1>3, <1>4 DEF Trail

LEMMA CursorStays ==
    ASSUME NEW m, MemOK(m), NEW r \in Rooms
    PROVE  /\ m.rooms[r] \in ProgressRecords /\ Default(m.rooms[r]) \in ProgressRecords
           /\ m.rooms[r].cursor \in Int /\ Default(m.rooms[r]).cursor \in Int
           /\ Default(m.rooms[r]).cursor = m.rooms[r].cursor \/ Default(m.rooms[r]).cursor = 0
           /\ m.rooms[r].cursor # -1 => Default(m.rooms[r]) = m.rooms[r]
           /\ m.lanes[r].pc \in OnPage => m.rooms[r].cursor # -1
           /\ m.rooms[r].cursor = -1 => ~Default(m.rooms[r]).rewind /\ Default(m.rooms[r]).cursor = 0
<1>1. m.rooms[r] \in ProgressRecords /\ Booked(m, r)
  BY RoomFields DEF MemOK
<1>2. Default(m.rooms[r]) \in ProgressRecords
  BY <1>1, DefaultFacts
<1>3. m.rooms[r].cursor \in Int /\ Default(m.rooms[r]).cursor \in Int
  BY <1>1, <1>2, PendingAssumption DEF ProgressRecords
<1>4. m.lanes[r].pc \in OnPage => m.lanes[r].pc # "off"
  BY DEF OnPage, AtEvent
<1> QED BY <1>1, <1>2, <1>3, <1>4, DefaultFacts DEF Booked

-----------------------------------------------------------------------------
(* Waking a room.                                                          *)

\* What only another room accounts for does not matter here.
LEMMA TrailElsewhere ==
    ASSUME NEW m, NEW s \in Rooms, NEW X, NEW Y, NEW K, TrailOf(m, Y, K, s),
           \A e \in Y \ X : e \in Events => RoomOf[e] # s
    PROVE  TrailOf(m, X, K, s)
BY DEF TrailOf, PageSound, CursorSafe, PageSafe, Held

LEMMA QueueRoomTrail ==
    ASSUME NEW m, NEW X, NEW Y, NEW K, Trail(m, Y, K), NEW r \in Rooms, NEW b \in BOOLEAN,
           \A e \in Y \ X : b /\ (e \in Events => RoomOf[e] = r)
    PROVE  Trail(QueueRoom(m, r, b), X, K) /\ QueueRoom(m, r, b).lanes[r] = m.lanes[r]
           /\ Calm(m, QueueRoom(m, r, b)) /\ QueueRoom(m, r, b).stopped = m.stopped
           /\ (b => QueueRoom(m, r, b).rooms[r].rewind)
<1> DEFINE n == QueueRoom(m, r, b)
           p == Default(m.rooms[r])
<1>0. MemOK(m) /\ TrailOf(m, Y, K, r)
  BY DEF Trail
<1>1. WorksOn(m, n, r) /\ n.lanes[r] = m.lanes[r] /\ DeferredOf(n, r) = DeferredOf(m, r) /\ n.rooms[r] = [p EXCEPT !.rewind = @ \/ b]
  BY <1>0, QueueRoomEffect DEF MemOK
<1>2. MemOK(n)
  BY <1>0, QueueRoomOK
<1>3. \A s \in Rooms \ {r} : TrailOf(m, X, K, s)
  BY TrailElsewhere DEF Trail
<1> HIDE DEF n
<1>4. /\ n.rooms[r].cursor = p.cursor /\ n.rooms[r].rewind = (p.rewind \/ b)
      /\ m.rooms[r].cursor = -1 => p.cursor = 0 /\ m.lanes[r].pc \notin OnPage
      /\ m.rooms[r].cursor # -1 => p.cursor = m.rooms[r].cursor /\ p.rewind = m.rooms[r].rewind
      /\ m.rooms[r].rewind \in BOOLEAN
  BY <1>0, <1>1, CursorStays DEF ProgressRecords
<1>5. PageSound(n, K, r)
  BY <1>0, <1>1, <1>4 DEF TrailOf, PageSound, OnPage
<1>6. n.stopped = m.stopped
  BY <1>1 DEF WorksOn
<1>7. ASSUME ~n.stopped PROVE CursorSafe(n, X, r)
  <2> SUFFICES ASSUME NEW e \in Events, RoomOf[e] = r, e <= n.rooms[r].cursor PROVE Held(n, X, r, e)
    BY DEF CursorSafe
  <2>1. e > 0
    BY PendingAssumption DEF Events
  <2>2. m.rooms[r].cursor # -1
    BY <1>4, <2>1 DEF Events
  <2>3. Held(m, Y, r, e)
    BY <1>0, <1>4, <1>6, <1>7, <2>2 DEF TrailOf, CursorSafe
  <2> QED BY <1>1, <1>4, <2>2, <2>3 DEF Held
<1>8. ASSUME ~n.stopped PROVE PageSafe(n, X, r)
  BY <1>0, <1>1, <1>4, <1>6, <1>8 DEF TrailOf, PageSafe, Held
<1>9. Trail(n, X, K)
  BY <1>1, <1>2, <1>3, <1>5, <1>7, <1>8, TrailOn DEF TrailOf
<1> QED BY <1>1, <1>4, <1>6, <1>9, CalmOn DEF n

LEMMA StartLanesTrail ==
    ASSUME NEW m, NEW X, NEW K, Trail(m, X, K), NEW R \in SUBSET Rooms
    PROVE  /\ Trail(StartLanes(m, R), X, K) /\ Calm(m, StartLanes(m, R)) /\ StartLanes(m, R).stopped = m.stopped
           /\ \A s \in Rooms : LaneRuns(m, s) => SameRoom(m, StartLanes(m, R), s)
           /\ \A s \in Rooms : HasProgress(m, s) => StartLanes(m, R).rooms[s] = m.rooms[s]
<1> DEFINE n == StartLanes(m, R)
<1>0. MemOK(m) /\ m \in Memory
  BY DEF Trail, MemOK
<1>1. /\ n.stopped = m.stopped /\ \A s \in Rooms : DeferredOf(n, s) = DeferredOf(m, s)
      /\ \A s \in Rooms : IF s \in R /\ Starts(m, s)
                          THEN n.rooms[s] = Default(m.rooms[s]) /\ n.lanes[s] = [NoLane EXCEPT !.pc = "read"]
                          ELSE SameRoom(m, n, s)
  BY <1>0, StartLanesEffect
<1>2. MemOK(n)
  BY <1>0, StartLanesOK
<1> HIDE DEF n
<1>3. ASSUME NEW s \in Rooms
      PROVE  TrailOf(n, X, K, s) /\ (n.lanes[s] = m.lanes[s] \/ n.lanes[s].pc \notin Late) /\ (LaneRuns(m, s) => SameRoom(m, n, s))
             /\ (HasProgress(m, s) => n.rooms[s] = m.rooms[s])
  <2>1. CASE SameRoom(m, n, s)
    BY <1>1, <2>1, TrailAlike DEF Trail, SameRoom
  <2>2. CASE ~SameRoom(m, n, s)
    <3>1. n.rooms[s] = Default(m.rooms[s]) /\ n.lanes[s] = [NoLane EXCEPT !.pc = "read"] /\ Starts(m, s)
          /\ DeferredOf(n, s) = DeferredOf(m, s)
      BY <1>1, <2>2
    <3>2. n.lanes[s].pc = "read" /\ n.lanes[s].event = 0
      BY <3>1, FreshLane
    <3>3. TrailOf(m, X, K, s)
      BY DEF Trail
    <3>4. /\ m.rooms[s].cursor = -1 => n.rooms[s].cursor = 0
          /\ m.rooms[s].cursor # -1 => n.rooms[s] = m.rooms[s]
      BY <1>0, <3>1, CursorStays
    <3>5. n.stopped \/ CursorSafe(n, X, s)
      <4>1. \A e \in Events : e \in Int /\ e > 0
        BY PendingAssumption DEF Events
      <4> QED BY <1>1, <3>1, <3>3, <3>4, <4>1 DEF TrailOf, CursorSafe, Held
    <3>6. PageSound(n, K, s) /\ PageSafe(n, X, s) /\ n.lanes[s].pc \notin Late
      BY <3>2 DEF PageSound, PageSafe, OnPage, AtEvent, Late
    <3> QED BY <3>1, <3>4, <3>5, <3>6 DEF TrailOf, Starts, HasProgress
  <2> QED BY <2>1, <2>2
<1> QED BY <1>1, <1>2, <1>3 DEF Trail, Calm, n

LEMMA WakeTrail ==
    ASSUME NEW m, NEW X, NEW K, Trail(m, X, K), NEW b \in BOOLEAN
    PROVE  LET n == [m EXCEPT !.wake = b]
           IN  Trail(n, X, K) /\ n.lanes = m.lanes /\ n.rooms = m.rooms /\ n.deferred = m.deferred /\ n.stopped = m.stopped
<1> DEFINE n == [m EXCEPT !.wake = b]
<1>1. Alike(m, n) /\ n.stopped = m.stopped
  BY DEF Trail, MemOK, Memory, Alike
<1> HIDE DEF n
<1>2. Trail(n, X, K)
  BY <1>1, TrailParts
<1> QED BY <1>1, <1>2 DEF Alike, n

\* What Y has beyond X belongs to room r.
OnlyOf(r, Y, X) == \A e \in Y \ X : e \in Events => RoomOf[e] = r

LEMMA WakeRoomTrail ==
    ASSUME NEW m, NEW X, NEW Y, NEW K, Trail(m, Y, K), NEW r \in Rooms,
           OnlyOf(r, Y, X)
    PROVE  /\ Trail(WakeRoom(m, r), X, K) /\ Calm(m, WakeRoom(m, r)) /\ WakeRoom(m, r).stopped = m.stopped
           /\ LaneRuns(m, r) => WakeRoom(m, r).lanes[r] = m.lanes[r]
           /\ m.stopped \/ WakeRoom(m, r).rooms[r].rewind
<1> DEFINE q == QueueRoom(m, r, TRUE)
           k == StartLanes(q, {r})
           n == [k EXCEPT !.wake = TRUE]
<1>1. CASE m.stopped
  <2>1. WakeRoom(m, r) = m
    BY <1>1 DEF WakeRoom
  <2>2. Trail(m, X, K) /\ Calm(m, m)
    BY <1>1 DEF Trail, TrailOf, PageSound, Calm
  <2> QED BY <1>1, <2>1, <2>2
<1>2. CASE ~m.stopped
  <2>1. Trail(q, X, K) /\ q.lanes[r] = m.lanes[r] /\ Calm(m, q) /\ q.stopped = m.stopped /\ q.rooms[r].rewind
    <3>1. PICK b \in BOOLEAN : b = TRUE
      OBVIOUS
    <3>2. \A e \in Y \ X : b /\ (e \in Events => RoomOf[e] = r)
      BY <3>1 DEF OnlyOf
    <3>3. LET j == QueueRoom(m, r, b)
          IN  Trail(j, X, K) /\ j.lanes[r] = m.lanes[r] /\ Calm(m, j) /\ j.stopped = m.stopped /\ (b => j.rooms[r].rewind)
      BY <3>2, QueueRoomTrail
    <3> QED BY <3>1, <3>3
  <2>0. HasProgress(q, r)
    BY QueueRoomOK DEF Trail
  <2>2. WakeRoom(m, r) = n
    BY <1>2 DEF WakeRoom
  <2> HIDE DEF q
  <2>3. Trail(k, X, K) /\ Calm(q, k) /\ k.stopped = q.stopped /\ (LaneRuns(q, r) => SameRoom(q, k, r)) /\ k.rooms[r] = q.rooms[r]
    BY <2>0, <2>1, StartLanesTrail
  <2> HIDE DEF k
  <2>4. Trail(n, X, K) /\ n.lanes = k.lanes /\ n.rooms = k.rooms /\ n.stopped = k.stopped
    BY <2>3, WakeTrail
  <2> HIDE DEF n
  <2>5. Calm(m, n)
    BY <2>1, <2>3, <2>4 DEF Calm
  <2>6. LaneRuns(m, r) => LaneRuns(q, r)
    BY <2>1 DEF LaneRuns
  <2> QED BY <2>1, <2>2, <2>3, <2>4, <2>5, <2>6 DEF SameRoom
<1> QED BY <1>1, <1>2

-----------------------------------------------------------------------------
(* Releasing, handing back and deferring a source.                         *)

\* What a release leaves: the lane and the cursor of the room, and one deferral less.
LEMMA ReleaseLeaves ==
    ASSUME NEW m, MemOK(m), NEW e \in Events
    PROVE  LET n == Release(m, e)
               r == RoomOf[e]
           IN  /\ WorksOn(m, n, r) /\ n.lanes[r] = m.lanes[r] /\ DeferredOf(n, r) = DeferredOf(m, r) \ {e}
               /\ n.rooms[r].cursor = m.rooms[r].cursor /\ n.rooms[r].rewind = m.rooms[r].rewind /\ n.stopped = m.stopped
               /\ n.retries = m.retries /\ n.rooms[r].admitted = m.rooms[r].admitted /\ m.ready \subseteq n.ready
<1> DEFINE n == Release(m, e)
           r == RoomOf[e]
<1>0. m \in Memory /\ r \in Rooms /\ Booked(m, r) /\ m.rooms[r] \in ProgressRecords /\ m.rooms[r].deferredCount \in Nat
  BY RoomOfEvent, RoomFields DEF MemOK
<1>3. n.retries = m.retries /\ m.ready \subseteq n.ready
  BY <1>0 DEF Release, Memory
<1>1. CASE e \notin Deferred(m)
  <2>1. n = m
    BY <1>1 DEF Release
  <2> HIDE DEF n
  <2>2. WorksOn(m, n, r)
    BY <1>0, <2>1 DEF WorksOn, SameRoom
  <2>3. DeferredOf(n, r) = DeferredOf(m, r) \ {e}
    BY <1>1, <2>1 DEF DeferredOf
  <2> QED BY <1>3, <2>1, <2>2, <2>3 DEF n
<1>2. CASE e \in Deferred(m)
  <2>1. e \in DeferredOf(m, r) /\ IsFiniteSet(DeferredOf(m, r)) /\ Cardinality(DeferredOf(m, r)) \in Nat
    BY <1>0, <1>2, DeferralsFinite DEF DeferredOf
  <2>2. Cardinality(DeferredOf(m, r)) > 0
    BY <2>1, FS_EmptySet
  <2>3. m.rooms[r].deferredCount > 0
    BY <1>0, <2>2 DEF Booked
  <2>4. /\ WorksOn(m, n, r) /\ n.lanes[r] = m.lanes[r]
        /\ DeferredOf(n, r) = DeferredOf(m, r) \ {e}
    BY <1>0, <1>2, <2>3, ReleaseEffect
  <2>5. /\ n.rooms[r].cursor = m.rooms[r].cursor /\ n.rooms[r].rewind = m.rooms[r].rewind
        /\ n.rooms[r].admitted = m.rooms[r].admitted
    BY <1>0, <1>2, <2>3, ReleaseEffect
  <2> HIDE DEF n, r
  <2>6. n.stopped = m.stopped
    BY <2>4 DEF WorksOn
  <2> QED BY <1>3, <2>4, <2>5, <2>6 DEF n, r
<1> QED BY <1>1, <1>2

LEMMA Ahead == \A a, b \in Int : a < b => ~(b <= a)
OBVIOUS

\* An event may be released once it is accounted for, read again, or in the
\* hands of its lane.
LEMMA ReleaseTrail ==
    ASSUME NEW m, NEW X, NEW K, Trail(m, X, K), NEW e \in Events, NEW r, r = RoomOf[e], NEW n, n = Release(m, e),
           \/ e \in X \/ m.rooms[r].rewind
           \/ m.lanes[r].pc \in AtEvent /\ e = m.lanes[r].event
    PROVE  Trail(n, X, K) /\ n.lanes[r] = m.lanes[r] /\ Calm(m, n) /\ n.stopped = m.stopped
<1>0. MemOK(m) /\ TrailOf(m, X, K, r) /\ r \in Rooms /\ \A s \in Rooms \ {r} : TrailOf(m, X, K, s)
  BY RoomOfEvent DEF Trail
<1>1. /\ WorksOn(m, n, r) /\ n.lanes[r] = m.lanes[r] /\ DeferredOf(n, r) = DeferredOf(m, r) \ {e}
      /\ n.rooms[r].cursor = m.rooms[r].cursor /\ n.rooms[r].rewind = m.rooms[r].rewind /\ n.stopped = m.stopped
  <2>1. LET k == Release(m, e)
            s == RoomOf[e]
        IN  /\ WorksOn(m, k, s) /\ k.lanes[s] = m.lanes[s] /\ DeferredOf(k, s) = DeferredOf(m, s) \ {e}
            /\ k.rooms[s].cursor = m.rooms[s].cursor /\ k.rooms[s].rewind = m.rooms[s].rewind /\ k.stopped = m.stopped
    BY <1>0, ReleaseLeaves
  <2> QED BY <2>1
<1>2. MemOK(n)
  BY <1>0, ReleaseOK
<1>3. PageSound(n, K, r)
  BY <1>0, <1>1 DEF TrailOf, PageSound
<1>4. m.rooms[r].cursor \in Int /\ e \in Int
  BY <1>0, CursorStays, PendingAssumption DEF Events
<1>5. m.stopped \/ (CursorSafe(n, X, r) /\ PageSafe(n, X, r))
  <2>1. m.lanes[r].pc \in AtEvent /\ e = m.lanes[r].event => ~(e <= m.rooms[r].cursor)
    <3> SUFFICES ASSUME m.lanes[r].pc \in AtEvent, e = m.lanes[r].event PROVE ~(e <= m.rooms[r].cursor)
      OBVIOUS
    <3>1. m.rooms[r].cursor < m.lanes[r].event
      BY <1>0 DEF TrailOf, PageSound
    <3> QED BY <1>4, <3>1, Ahead
  <2>2. m.stopped \/ CursorSafe(n, X, r)
    BY <1>0, <1>1, <2>1 DEF TrailOf, CursorSafe, Held
  <2>3. m.stopped \/ PageSafe(n, X, r)
    BY <1>0, <1>1 DEF TrailOf, PageSafe, Held
  <2> QED BY <2>2, <2>3
<1>6. TrailOf(n, X, K, r)
  BY <1>1, <1>3, <1>5 DEF TrailOf
<1> QED BY <1>0, <1>1, <1>2, <1>6, TrailOn, CalmOn

With(X, e) == X \cup {e}

\* A source goes back to its room, which is read again.
LEMMA ReclaimTrail ==
    ASSUME NEW m, NEW X, NEW K, NEW e \in Events, NEW Y, Y = With(X, e), Trail(m, Y, K), NEW r, r = RoomOf[e],
           NEW n, n = Reclaim(m, e)
    PROVE  /\ Trail(n, X, K) /\ Calm(m, n) /\ n.stopped = m.stopped
           /\ LaneRuns(m, r) => n.lanes[r] = m.lanes[r]
           /\ m.stopped \/ n.rooms[r].rewind
<1>0. PICK k : k = Release(m, e)
  OBVIOUS
<1>1. Trail(k, Y, K) /\ k.lanes[r] = m.lanes[r] /\ Calm(m, k) /\ k.stopped = m.stopped
  <2>1. e \in Y
    BY DEF With
  <2> QED BY <1>0, <2>1, ReleaseTrail
<1>2. n = WakeRoom(k, r) /\ r \in Rooms
  BY <1>0, RoomOfEvent DEF Reclaim
<1>3. OnlyOf(r, Y, X)
  BY DEF OnlyOf, With
<1>4. /\ Trail(n, X, K) /\ Calm(k, n) /\ n.stopped = k.stopped
      /\ LaneRuns(k, r) => n.lanes[r] = k.lanes[r]
      /\ k.stopped \/ n.rooms[r].rewind
  <2>1. /\ Trail(WakeRoom(k, r), X, K) /\ Calm(k, WakeRoom(k, r)) /\ WakeRoom(k, r).stopped = k.stopped
        /\ LaneRuns(k, r) => WakeRoom(k, r).lanes[r] = k.lanes[r]
        /\ k.stopped \/ WakeRoom(k, r).rooms[r].rewind
    BY <1>1, <1>2, <1>3, WakeRoomTrail
  <2> QED BY <1>2, <2>1
<1>5. LaneRuns(m, r) => LaneRuns(k, r)
  BY <1>1 DEF LaneRuns
<1> QED BY <1>1, <1>4, <1>5, CalmTwice

LEMMA DeferTrail ==
    ASSUME NEW m, NEW X, NEW K, Trail(m, X, K), NEW e \in Events, NEW r, r = RoomOf[e], NEW n, n = Defer(m, e)
    PROVE  Trail(n, X, K) /\ n.lanes[r] = m.lanes[r] /\ Calm(m, n) /\ n.stopped = m.stopped /\ e \in DeferredOf(n, r)
<1>0. MemOK(m) /\ m \in Memory /\ TrailOf(m, X, K, r) /\ r \in Rooms /\ \A s \in Rooms \ {r} : TrailOf(m, X, K, s)
  BY RoomOfEvent DEF Trail, MemOK
<1>1. CASE e \in Deferred(m)
  <2>1. n = m
    BY <1>1 DEF Defer
  <2> QED BY <1>1, <2>1 DEF Calm, DeferredOf
<1>2. CASE e \notin Deferred(m)
  <2>1. /\ WorksOn(m, n, r) /\ n.lanes[r] = m.lanes[r] /\ DeferredOf(n, r) = DeferredOf(m, r) \cup {e}
        /\ n.rooms[r] = [Default(m.rooms[r]) EXCEPT !.deferredCount = @ + 1]
    BY <1>0, <1>2, DeferEffect
  <2>2. MemOK(n) /\ n.stopped = m.stopped
    BY <1>0, <2>1, DeferOK DEF WorksOn
  <2>3. /\ n.rooms[r].cursor = Default(m.rooms[r]).cursor /\ n.rooms[r].rewind = Default(m.rooms[r]).rewind
        /\ m.rooms[r].cursor = -1 => n.rooms[r].cursor = 0 /\ m.lanes[r].pc \notin OnPage
        /\ m.rooms[r].cursor # -1 => n.rooms[r].cursor = m.rooms[r].cursor /\ n.rooms[r].rewind = m.rooms[r].rewind
    BY <1>0, <2>1, CursorStays DEF ProgressRecords
  <2>4. PageSound(n, K, r)
    BY <1>0, <2>1, <2>3 DEF TrailOf, PageSound, OnPage
  <2>5. \A d \in Events : d \in Int /\ d > 0
    BY PendingAssumption DEF Events
  <2>6. n.stopped \/ CursorSafe(n, X, r)
    BY <1>0, <2>1, <2>2, <2>3, <2>5 DEF TrailOf, CursorSafe, Held
  <2>7. n.stopped \/ PageSafe(n, X, r)
    BY <1>0, <2>1, <2>2, <2>3 DEF TrailOf, PageSafe, Held
  <2>8. TrailOf(n, X, K, r)
    BY <2>4, <2>6, <2>7 DEF TrailOf
  <2> QED BY <1>0, <2>1, <2>2, <2>8, TrailOn, CalmOn
<1> QED BY <1>1, <1>2

\* A cooldown begins or is forgotten: nothing else changes.
LEMMA ScheduleRoomRetryLeaves ==
    ASSUME NEW m, MemOK(m), NEW r, NEW e, NEW n, n = ScheduleRoomRetry(m, r, e)
    PROVE  /\ n.rooms = m.rooms /\ n.lanes = m.lanes /\ n.deferred = m.deferred /\ n.ready = m.ready /\ n.stopped = m.stopped
           /\ n.draining = m.draining
<1>1. m \in Memory
  BY DEF MemOK
<1> QED BY <1>1 DEF ScheduleRoomRetry, Memory

LEMMA RecordProgressLeaves ==
    ASSUME NEW m, MemOK(m), NEW r, NEW o, NEW n, n = RecordProgress(m, r, o)
    PROVE  /\ n.rooms = m.rooms /\ n.lanes = m.lanes /\ n.deferred = m.deferred /\ n.ready = m.ready /\ n.stopped = m.stopped
           /\ n.draining = m.draining
<1>1. m \in Memory
  BY DEF MemOK
<1> QED BY <1>1 DEF RecordProgress, Memory

\* The trail does not depend on the cooldowns.
LEMMA TrailPlaces ==
    ASSUME NEW m, NEW n, NEW s, n.rooms = m.rooms, n.lanes = m.lanes, n.deferred = m.deferred, n.stopped = m.stopped,
           NEW X, NEW K
    PROVE  /\ TrailOf(m, X, K, s) => TrailOf(n, X, K, s)
           /\ CursorSafe(m, X, s) => CursorSafe(n, X, s)
<1>1. DeferredOf(n, s) = DeferredOf(m, s)
  BY DEF DeferredOf, Deferred
<1> QED BY <1>1 DEF TrailOf, PageSound, CursorSafe, PageSafe, Held

LEMMA EndPassTrail ==
    ASSUME NEW m, NEW X, NEW K, NEW r \in Rooms, Loose(m, X, K, r), NEW b \in BOOLEAN, NEW n, n = EndPass(m, r, b)
    PROVE  Trail(n, X, K) /\ Calm(m, n)
<1>0. MemOK(m) /\ m \in Memory /\ HasProgress(m, r) /\ \A s \in Rooms \ {r} : TrailOf(m, X, K, s)
  BY DEF Loose, MemOK
<1>1. /\ WorksOn(m, n, r) /\ n.rooms[r] = m.rooms[r] /\ DeferredOf(n, r) = DeferredOf(m, r)
      /\ n.lanes[r] = DoneLane(b /\ ~BackingOff(m, r), BackingOff(m, r))
  BY <1>0, EndPassEffect
<1>2. MemOK(n)
  BY <1>0, EndPassOK
<1>3. n.lanes[r].pc = "done" /\ n.lanes[r].event = 0
  <2>1. BackingOff(m, r) \in BOOLEAN /\ (b /\ ~BackingOff(m, r)) \in BOOLEAN
    BY DEF BackingOff
  <2> QED BY <1>1, <2>1, DoneLaneFacts
<1>4. n.stopped = m.stopped
  BY <1>1 DEF WorksOn
<1>5. TrailOf(n, X, K, r) /\ n.lanes[r].pc \notin Late
  BY <1>1, <1>3, <1>4 DEF Loose, TrailOf, PageSound, PageSafe, CursorSafe, Held, OnPage, AtEvent, Late
<1> QED BY <1>0, <1>1, <1>2, <1>5, TrailOn, CalmOn

LEMMA ApplyRewindLoose ==
    ASSUME NEW m, NEW X, NEW K, NEW r \in Rooms, Loose(m, X, K, r), NEW n, n = ApplyRewind(m, r)
    PROVE  /\ Loose(n, X, K, r) /\ n.lanes = m.lanes /\ n.stopped = m.stopped /\ n.deferred = m.deferred /\ ~n.rooms[r].rewind
           /\ n.rooms[r].cursor \in Orders /\ n.retries = m.retries /\ n.ready = m.ready /\ n.rooms[r].admitted = m.rooms[r].admitted
           /\ n.rooms[r].cursor = 0 \/ n = m
<1> DEFINE p == [m.rooms[r] EXCEPT !.rewind = FALSE, !.cursor = 0]
<1>0. MemOK(m) /\ HasProgress(m, r) /\ m \in Memory /\ m.rooms[r] \in ProgressRecords /\ \A s \in Rooms \ {r} : TrailOf(m, X, K, s)
  BY RoomFields DEF Loose, MemOK
<1>1. MemOK(n) /\ HasProgress(n, r) /\ n.lanes = m.lanes /\ n.deferred = m.deferred /\ n.stopped = m.stopped
  BY <1>0, ApplyRewindOK
<1>2. 0 \in -1..MaxEvent /\ 0 # -1 /\ 0 \in Orders /\ \A o \in -1..MaxEvent : o # -1 => o \in Orders
  BY PendingAssumption DEF Orders
<1>3. p \in ProgressRecords /\ p.cursor = 0 /\ ~p.rewind /\ p.admitted = m.rooms[r].admitted /\ m.rooms[r].rewind \in BOOLEAN
      /\ m.rooms[r].cursor \in Orders
  BY <1>0, <1>2 DEF ProgressRecords, HasProgress
<1>4. CASE ~m.rooms[r].rewind
  <2>1. n = m
    BY <1>4 DEF ApplyRewind
  <2> QED BY <1>3, <1>4, <2>1
<1>5. CASE m.rooms[r].rewind
  <2>1. n = WithRoom(m, r, p)
    BY <1>0, <1>5 DEF ApplyRewind, WithRoom
  <2> HIDE DEF p
  <2>2. WorksOn(m, n, r) /\ n.rooms[r] = p /\ n.ready = m.ready
    BY <1>0, <1>3, <2>1, SetRoom
  <2>3. n.retries = m.retries
    BY <1>0, <2>1 DEF WithRoom, Memory
  <2>4. CursorSafe(n, X, r)
    <3>1. \A e \in Events : ~(e <= 0)
      BY PendingAssumption DEF Events
    <3> QED BY <1>3, <2>2, <3>1 DEF CursorSafe
  <2>5. Loose(n, X, K, r)
    BY <1>0, <1>1, <2>2, <2>4, LooseOn
  <2> QED BY <1>1, <1>2, <1>3, <2>2, <2>3, <2>5
<1> QED BY <1>3, <1>4, <1>5

-----------------------------------------------------------------------------
(* The cursor.                                                             *)

\* The memory with the cursor of r moved.
CursorTo(m, r, c) == [m EXCEPT !.rooms[r].cursor = c]

LEMMA CursorLeaves ==
    ASSUME NEW m, MemOK(m), NEW r \in Rooms, NEW c \in Orders, NEW n, n = CursorTo(m, r, c)
    PROVE  /\ MemOK(n) /\ HasProgress(n, r) /\ WorksOn(m, n, r) /\ n.lanes = m.lanes /\ n.deferred = m.deferred
           /\ n.stopped = m.stopped /\ n.retries = m.retries /\ n.ready = m.ready
           /\ n.rooms[r].cursor = c /\ n.rooms[r].rewind = m.rooms[r].rewind /\ n.rooms[r].admitted = m.rooms[r].admitted
           /\ n.rooms[r].deferredCount = m.rooms[r].deferredCount
           /\ DeferredOf(n, r) = DeferredOf(m, r)
<1> DEFINE p == [m.rooms[r] EXCEPT !.cursor = c]
<1>1. m.rooms[r] \in ProgressRecords /\ m \in Memory
  BY RoomFields DEF MemOK
<1>2. c \in -1..MaxEvent /\ c # -1
  BY PendingAssumption DEF Orders
<1>3. /\ p \in ProgressRecords /\ p.cursor = c /\ p.deferredCount = m.rooms[r].deferredCount
      /\ p.rewind = m.rooms[r].rewind /\ p.admitted = m.rooms[r].admitted
  BY <1>1, <1>2 DEF ProgressRecords
<1>4. n = WithRoom(m, r, p)
  BY DEF WithRoom, CursorTo
<1> HIDE DEF p
<1>5. MemOK(n) /\ HasProgress(n, r) /\ n.rooms[r] = p /\ n.lanes = m.lanes /\ n.deferred = m.deferred /\ n.stopped = m.stopped
  BY <1>2, <1>3, <1>4, ProgressSet
<1>6. WorksOn(m, n, r) /\ n.ready = m.ready
  BY <1>1, <1>3, <1>4, SetRoom
<1>7. n.retries = m.retries
  BY <1>1, <1>4 DEF WithRoom, Memory
<1>8. DeferredOf(n, r) = DeferredOf(m, r)
  BY <1>5 DEF DeferredOf, Deferred
<1> QED BY <1>3, <1>5, <1>6, <1>7, <1>8

LEMMA CursorLoose ==
    ASSUME NEW m, MemOK(m), NEW r \in Rooms, NEW c \in Orders, NEW n, n = CursorTo(m, r, c), NEW X, NEW K,
           \A s \in Rooms \ {r} : TrailOf(m, X, K, s),
           m.stopped \/ \A e \in Events : RoomOf[e] = r /\ e <= c => Held(m, X, r, e)
    PROVE  Loose(n, X, K, r) /\ n.lanes = m.lanes /\ n.rooms[r].rewind = m.rooms[r].rewind
<1>1. /\ MemOK(n) /\ HasProgress(n, r) /\ WorksOn(m, n, r) /\ n.lanes = m.lanes
      /\ n.stopped = m.stopped
      /\ n.rooms[r].cursor = c /\ n.rooms[r].rewind = m.rooms[r].rewind
      /\ DeferredOf(n, r) = DeferredOf(m, r)
  BY CursorLeaves
<1>2. n.stopped \/ CursorSafe(n, X, r)
  BY <1>1 DEF CursorSafe, Held
<1> QED BY <1>1, <1>2, LooseOn

LEMMA NextPageTrail ==
    ASSUME NEW m, NEW X, NEW K, NEW r \in Rooms, Loose(m, X, K, r), NEW n, n = NextPage(m, r)
    PROVE  Trail(n, X, K) /\ Calm(m, n)
<1>0. MemOK(m) /\ m \in Memory /\ HasProgress(m, r) /\ \A s \in Rooms \ {r} : TrailOf(m, X, K, s)
  BY DEF Loose, MemOK
<1>1. CASE m.lanes[r].pages >= MaxPages
  <2>1. n = EndPass(m, r, TRUE)
    BY <1>1 DEF NextPage
  <2> QED BY <2>1, EndPassTrail
<1>2. CASE ~(m.lanes[r].pages >= MaxPages)
  <2> DEFINE l == [m.lanes[r] EXCEPT !.pc = "read", !.event = 0]
  <2>1. m.lanes[r] \in LaneRecords
    BY <1>0, RoomFields
  <2>2. l.pc = "read" /\ l.event = 0
    BY <2>1 DEF LaneRecords
  <2>3. n = WithLane(m, r, l) /\ l \in LaneRecords
    BY <1>0, <1>2, NextPageIs
  <2> HIDE DEF l
  <2>4. WorksOn(m, n, r) /\ n.lanes[r] = l /\ n.rooms[r] = m.rooms[r] /\ DeferredOf(n, r) = DeferredOf(m, r)
    BY <1>0, <2>3, SetLane
  <2>5. MemOK(n)
    BY <1>0, NextPageOK
  <2>6. TrailOf(n, X, K, r) /\ n.lanes[r].pc \notin Late
    BY <2>2, <2>4 DEF Loose, TrailOf, PageSound, CursorSafe, PageSafe, Held, OnPage, AtEvent, Late, WorksOn
  <2> QED BY <1>0, <2>4, <2>5, <2>6, TrailOn, CalmOn
<1> QED BY <1>1, <1>2

\* The lane of r is between two events of its page.
Between(m, X, K, r) ==
    /\ Loose(m, X, K, r)
    /\ \A e \in m.lanes[r].page : m.rooms[r].cursor < e /\ e <= m.lanes[r].resume /\ e \in K
    /\ m.stopped \/ \A e \in Events : RoomOf[e] = r /\ e <= m.lanes[r].resume => Held(m, X, r, e) \/ e \in m.lanes[r].page

LEMMA PageEndsTrail ==
    ASSUME NEW m, NEW X, NEW K, NEW r \in Rooms, Between(m, X, K, r), FreeRows(m, r) = {}, NEW n, n = PageEnds(m, r)
    PROVE  Trail(n, X, K) /\ Calm(m, n)
<1> DEFINE k == CursorTo(m, r, m.lanes[r].resume)
           z == CursorTo(k, r, 0)
<1>0. /\ Loose(m, X, K, r) /\ MemOK(m) /\ m \in Memory /\ m.lanes[r].resume \in Orders /\ m.lanes[r].end \in BOOLEAN
      /\ \A s \in Rooms \ {r} : TrailOf(m, X, K, s)
  BY RoomFields DEF Between, Loose, MemOK
<1>1. \A e \in m.lanes[r].page : e \in DeferredOf(m, r)
  BY <1>0 DEF FreeRows, DeferredOf, MemOK, Booked
<1>2. m.stopped \/ \A e \in Events : RoomOf[e] = r /\ e <= m.lanes[r].resume => Held(m, X, r, e)
  BY <1>1 DEF Between, Held
<1>3. Loose(k, X, K, r) /\ k.lanes = m.lanes
  BY <1>0, <1>2, CursorLoose
<1>4. n = IF m.rooms[r].rewind THEN NextPage(ApplyRewind(k, r), r)
          ELSE IF m.lanes[r].end THEN EndPass(z, r, FALSE) ELSE NextPage(k, r)
  BY DEF PageEnds, CursorTo
<1> HIDE DEF k
<1>5. Loose(z, X, K, r) /\ z.lanes = k.lanes
  <2>1. 0 \in Orders /\ \A e \in Events : ~(e <= 0)
    BY PendingAssumption DEF Orders, Events
  <2>2. MemOK(k) /\ \A s \in Rooms \ {r} : TrailOf(k, X, K, s)
    BY <1>3 DEF Loose
  <2> QED BY <2>1, <2>2, CursorLoose
<1> HIDE DEF z
<1>6. Loose(ApplyRewind(k, r), X, K, r) /\ ApplyRewind(k, r).lanes = k.lanes
  BY <1>3, ApplyRewindLoose
<1>7. CASE n = NextPage(ApplyRewind(k, r), r)
  <2>1. Trail(n, X, K) /\ Calm(ApplyRewind(k, r), n)
    BY <1>6, <1>7, NextPageTrail
  <2> QED BY <1>3, <1>6, <2>1 DEF Calm
<1>8. CASE n = EndPass(z, r, FALSE)
  <2>1. Trail(n, X, K) /\ Calm(z, n)
    BY <1>5, <1>8, EndPassTrail
  <2> QED BY <1>3, <1>5, <2>1 DEF Calm
<1>9. CASE n = NextPage(k, r)
  <2>1. Trail(n, X, K) /\ Calm(k, n)
    BY <1>3, <1>9, NextPageTrail
  <2> QED BY <1>3, <2>1 DEF Calm
<1> QED BY <1>4, <1>7, <1>8, <1>9

-----------------------------------------------------------------------------
(* The next event of a page.                                               *)

\* What the lane skips on its way to the first free event, an owner holds.
LEMMA SkippedLoose ==
    ASSUME NEW m, NEW X, NEW K, NEW r \in Rooms, Between(m, X, K, r), NEW free, free = FreeRows(m, r), free # {},
           NEW n, n = Skipped(m, r)
    PROVE  /\ Loose(n, X, K, r) /\ n.lanes = m.lanes /\ n.rooms[r].rewind = m.rooms[r].rewind
           /\ DeferredOf(n, r) = DeferredOf(m, r) /\ n.stopped = m.stopped
           /\ Min(free) \in free /\ (\A e \in free : Min(free) <= e) /\ n.rooms[r].cursor < Min(free)
           /\ m.stopped \/ \A e \in Events : RoomOf[e] = r /\ e <= m.lanes[r].resume =>
                              Held(m, X, r, e) \/ (e \in m.lanes[r].page /\ e >= Min(free))
<1> DEFINE page == m.lanes[r].page
           first == Min(free)
           held == {e \in page : e < first}
<1>0. /\ Loose(m, X, K, r) /\ MemOK(m) /\ m \in Memory /\ page \in SUBSET Events /\ HasProgress(m, r)
      /\ \A s \in Rooms \ {r} : TrailOf(m, X, K, s)
      /\ m.rooms[r].cursor \in Int
  BY RoomFields, CursorStays DEF Between, Loose, MemOK
<1>1. Events \in SUBSET Nat /\ Events \subseteq Orders /\ free \in SUBSET page
  BY PendingAssumption DEF Events, Orders, FreeRows
<1>2. first \in free /\ \A e \in free : first <= e
  BY <1>0, <1>1, MinFacts
<1>N. (\A e \in page : e \in Nat) /\ first \in Nat /\ first \in page /\ page \subseteq Events /\ \A e \in Events : e \in Nat
  <2>1. \A e \in Events : e \in Nat
    BY <1>1
  <2>2. \A e \in page : e \in Events
    BY <1>0
  <2>3. first \in page
    BY <1>1, <1>2
  <2> HIDE DEF page, first
  <2> QED BY <2>1, <2>2, <2>3
<1>3. \A e \in page : e < first => e \in DeferredOf(m, r)
  <2> SUFFICES ASSUME NEW e \in page, e < first PROVE e \in DeferredOf(m, r)
    OBVIOUS
  <2>1. e \notin free
    <3>1. e \in Nat /\ first \in Nat /\ (e \in free => first <= e) /\ e < first
      BY <1>2, <1>N
    <3> HIDE DEF first, page
    <3> QED BY <3>1
  <2>2. e \in Deferred(m)
    BY <2>1 DEF FreeRows
  <2>3. RoomOf[e] = r
    BY <1>0, InHand
  <2> QED BY <2>2, <2>3 DEF DeferredOf
<1>4. m.stopped \/ \A e \in Events : RoomOf[e] = r /\ e <= m.lanes[r].resume =>
                      Held(m, X, r, e) \/ (e \in m.lanes[r].page /\ e >= Min(free))
  <2> SUFFICES ASSUME ~m.stopped, NEW e \in Events, RoomOf[e] = r, e <= m.lanes[r].resume, ~Held(m, X, r, e)
               PROVE  e \in page /\ e >= first
    OBVIOUS
  <2>1. e \in page
    BY DEF Between
  <2>2. ~(e < first)
    BY <1>3, <2>1 DEF Held
  <2>3. e \in Nat /\ first \in Nat
    <3> HIDE DEF first, page
    <3> QED BY <1>N
  <2> QED BY <2>1, <2>2, <2>3
<1>5. CASE held = {}
  <2>1. n = m
    BY <1>5 DEF Skipped, FreeRows
  <2>2. m.rooms[r].cursor < first
    BY <1>1, <1>2 DEF Between
  <2> QED BY <1>0, <1>2, <1>4, <2>1, <2>2
<1>6. CASE held # {}
  <2>1. n = CursorTo(m, r, Max(held))
    BY <1>6 DEF Skipped, FreeRows, CursorTo
  <2>2. Max(held) \in held /\ Max(held) \in Orders /\ Max(held) \in Int /\ first \in Int
    <3>1. held \in SUBSET Events
      BY <1>0
    <3>2. Max(held) \in held
      <4> HIDE DEF held
      <4> QED BY <1>6, <3>1, MaxFacts
    <3>3. Max(held) \in Events
      <4> HIDE DEF held
      <4> QED BY <3>1, <3>2
    <3> HIDE DEF held, first, page
    <3>4. Max(held) \in Orders /\ Max(held) \in Nat
      BY <1>1, <3>3
    <3> QED BY <1>N, <3>2, <3>4
  <2>3. m.lanes[r].resume \in Int /\ Max(held) <= m.lanes[r].resume /\ Max(held) < first
    <3>1. m.lanes[r].resume \in Int
      BY <1>0, RoomFields DEF Orders
    <3>2. Max(held) \in page /\ Max(held) < first
      BY <2>2
    <3> QED BY <3>1, <3>2 DEF Between
  <2> HIDE DEF held, first
  <2>4. m.stopped \/ \A e \in Events : RoomOf[e] = r /\ e <= Max(held) => Held(m, X, r, e)
    <3> SUFFICES ASSUME ~m.stopped, NEW e \in Events, RoomOf[e] = r, e <= Max(held) PROVE Held(m, X, r, e)
      OBVIOUS
    <3>1. e \in Int
      BY <1>1
    <3>2. e <= m.lanes[r].resume /\ ~(e >= first)
      BY <2>2, <2>3, <3>1
    <3> QED BY <1>4, <3>2 DEF first
  <2>5. Loose(n, X, K, r) /\ n.lanes = m.lanes /\ n.rooms[r].rewind = m.rooms[r].rewind
    BY <1>0, <2>1, <2>2, <2>4, CursorLoose
  <2>6. DeferredOf(n, r) = DeferredOf(m, r) /\ n.stopped = m.stopped /\ n.rooms[r].cursor = Max(held)
    BY <1>0, <2>1, <2>2, CursorLeaves
  <2> QED BY <1>2, <1>4, <2>3, <2>5, <2>6 DEF first
<1> QED BY <1>5, <1>6

LEMMA NextEventTrail ==
    ASSUME NEW m, NEW X, NEW K, NEW r \in Rooms, Between(m, X, K, r), NEW n, n = NextEvent(m, r)
    PROVE  Trail(n, X, K) /\ Calm(m, n)
<1>0. PICK free, k, l, j : free = FreeRows(m, r) /\ k = AtFirst(m, r) /\ l = LaneAt(m, r) /\ j = Skipped(m, r)
  OBVIOUS
<1>1. n = IF m.lanes[r].page # {} /\ m.rooms[r].rewind THEN EndPass(ApplyRewind(m, r), r, TRUE)
          ELSE IF free = {} THEN PageEnds(m, r) ELSE WithLane(k, r, l)
  BY <1>0, NextEventIs
<1>2. Loose(m, X, K, r) /\ MemOK(m) /\ HasProgress(m, r)
  BY DEF Between, Loose
<1>3. CASE n = EndPass(ApplyRewind(m, r), r, TRUE)
  <2>1. Loose(ApplyRewind(m, r), X, K, r) /\ ApplyRewind(m, r).lanes = m.lanes
    BY <1>2, ApplyRewindLoose
  <2>2. Trail(n, X, K) /\ Calm(ApplyRewind(m, r), n)
    BY <1>3, <2>1, EndPassTrail
  <2> QED BY <2>1, <2>2 DEF Calm
<1>4. CASE free = {} /\ n = PageEnds(m, r)
  BY <1>0, <1>4, PageEndsTrail
<1>5. CASE free # {} /\ n = WithLane(k, r, l)
  <2>1. /\ Loose(j, X, K, r) /\ j.lanes = m.lanes /\ j.rooms[r].rewind = m.rooms[r].rewind
        /\ DeferredOf(j, r) = DeferredOf(m, r) /\ j.stopped = m.stopped
    BY <1>0, <1>5, SkippedLoose
  <2>2. /\ Min(free) \in free /\ (\A e \in free : Min(free) <= e) /\ j.rooms[r].cursor < Min(free)
        /\ m.stopped \/ \A e \in Events : RoomOf[e] = r /\ e <= m.lanes[r].resume =>
                           Held(m, X, r, e) \/ (e \in m.lanes[r].page /\ e >= Min(free))
    BY <1>0, <1>5, SkippedLoose
  <2>3. k = RecordProgress(j, r, Min(free) - 1)
    BY <1>0 DEF AtFirst
  <2>4. MemOK(j)
    BY <2>1 DEF Loose
  <2>5. k.rooms = j.rooms /\ k.lanes = j.lanes /\ k.deferred = j.deferred /\ k.stopped = j.stopped
    BY <2>3, <2>4, RecordProgressLeaves
  <2>6. /\ MemOK(k) /\ k.rooms[r].cursor # -1 /\ l \in LaneRecords /\ l.pc = "check" /\ l.event = Min(free)
    BY <1>0, <1>2, <1>5, FirstFree
  <2>7. /\ l.page = {e \in m.lanes[r].page : e > Min(free)} /\ l.resume = m.lanes[r].resume
    BY <1>0, <1>2, <1>5, FirstFree
  <2>8. WorksOn(k, n, r) /\ n.lanes[r] = l /\ n.rooms[r] = k.rooms[r] /\ DeferredOf(n, r) = DeferredOf(k, r)
    BY <1>5, <2>6, SetLane DEF MemOK
  <2>9. MemOK(n)
    BY <1>2, NextEventOK
  <2>10. \A s \in Rooms \ {r} : TrailOf(k, X, K, s)
    BY <2>1, <2>5, TrailPlaces DEF Loose
  <2>11. DeferredOf(n, r) = DeferredOf(m, r) /\ n.stopped = m.stopped /\ n.rooms[r].rewind = m.rooms[r].rewind
         /\ n.rooms[r].cursor = j.rooms[r].cursor
    BY <2>1, <2>5, <2>8 DEF DeferredOf, Deferred, WorksOn
  <2>12. m.lanes[r].page \in SUBSET Nat /\ Min(free) \in m.lanes[r].page /\ j.rooms[r].cursor \in Int /\ Min(free) \in Nat
         /\ Events \subseteq Nat
    <3>1. free \subseteq m.lanes[r].page
      BY <1>0 DEF FreeRows
    <3>2. m.lanes[r].page \in SUBSET Nat /\ Events \subseteq Nat
      BY <1>2, RoomFields, PendingAssumption DEF MemOK, Events
    <3> QED BY <2>2, <2>4, <3>1, <3>2, CursorStays
  <2>13. PageSound(n, K, r)
    <3>1. \A e \in m.lanes[r].page : e <= m.lanes[r].resume /\ e \in K
      BY DEF Between
    <3>2. \A e \in l.page : e \in m.lanes[r].page /\ e > Min(free)
      BY <2>7
    <3>3. \A e \in l.page : j.rooms[r].cursor < e
      BY <2>2, <2>12, <3>2
    <3> QED BY <2>2, <2>6, <2>7, <2>8, <2>11, <2>12, <3>1, <3>2, <3>3 DEF PageSound, AtEvent
  <2>14. n.stopped \/ CursorSafe(n, X, r)
    <3>1. n.stopped \/ CursorSafe(j, X, r)
      BY <2>1, <2>11 DEF Loose
    <3> QED BY <2>1, <2>11, <3>1 DEF CursorSafe, Held
  <2>15. n.stopped \/ PageSafe(n, X, r)
    <3> SUFFICES ASSUME ~n.stopped, NEW e \in Events, RoomOf[e] = r, e <= n.lanes[r].resume, ~Held(n, X, r, e)
                 PROVE  e \in n.lanes[r].page \/ (n.lanes[r].pc \in AtEvent /\ e = n.lanes[r].event)
      BY DEF PageSafe
    <3>1. ~Held(m, X, r, e) /\ e <= m.lanes[r].resume /\ ~m.stopped
      BY <2>7, <2>8, <2>11 DEF Held
    <3>2. e \in m.lanes[r].page /\ e >= Min(free)
      BY <2>2, <3>1
    <3>3. e > Min(free) \/ e = Min(free)
      BY <2>12, <3>2
    <3> QED BY <2>6, <2>7, <2>8, <3>2, <3>3 DEF AtEvent
  <2>16. TrailOf(n, X, K, r)
    BY <2>13, <2>14, <2>15 DEF TrailOf
  <2>17. Trail(n, X, K)
    BY <2>8, <2>9, <2>10, <2>16, TrailOn
  <2>18. Calm(k, n)
    BY <2>6, <2>8, CalmOn DEF Late
  <2> QED BY <2>1, <2>5, <2>17, <2>18 DEF Calm
<1> QED BY <1>1, <1>3, <1>4, <1>5

-----------------------------------------------------------------------------
(* Passing an event, and raising on it.                                    *)

\* Work on one room that touches neither its cursor, its lane nor its deferrals.
LEMMA TrailRoom ==
    ASSUME NEW m, NEW X, NEW K, Trail(m, X, K), NEW r \in Rooms, NEW n, WorksOn(m, n, r), MemOK(n),
           n.rooms[r].cursor = m.rooms[r].cursor, n.rooms[r].rewind = m.rooms[r].rewind, n.lanes[r] = m.lanes[r],
           DeferredOf(n, r) = DeferredOf(m, r)
    PROVE  Trail(n, X, K) /\ Calm(m, n)
<1>1. TrailOf(m, X, K, r) /\ n.stopped = m.stopped /\ \A s \in Rooms \ {r} : TrailOf(m, X, K, s)
  BY DEF Trail, WorksOn
<1>2. TrailOf(n, X, K, r)
  BY <1>1 DEF TrailOf, PageSound, CursorSafe, PageSafe, Held
<1> QED BY <1>1, <1>2, TrailOn, CalmOn

LEMMA LoosePlaces ==
    ASSUME NEW m, NEW X, NEW K, NEW r \in Rooms, Loose(m, X, K, r), NEW n, MemOK(n), n.rooms = m.rooms, n.lanes = m.lanes,
           n.deferred = m.deferred, n.stopped = m.stopped
    PROVE  Loose(n, X, K, r)
<1>1. \A s \in Rooms : TrailOf(m, X, K, s) => TrailOf(n, X, K, s)
  BY TrailPlaces
<1>2. CursorSafe(m, X, r) => CursorSafe(n, X, r)
  BY TrailPlaces
<1> QED BY <1>1, <1>2 DEF Loose, HasProgress

\* The lane has done with its event, which the room need not come back to, and
\* moves the cursor past it.
LEMMA PassedTrail ==
    ASSUME NEW m, NEW X, NEW K, Trail(m, X, K), NEW r \in Rooms, m.lanes[r].pc \in AtEvent, NEW e, e = m.lanes[r].event,
           m.stopped \/ Held(m, X, r, e), NEW n, n = Passed(m, r, e)
    PROVE  Trail(n, X, K) /\ Calm(m, n)
<1>0. PICK k : k = CursorTo(m, r, e)
  OBVIOUS
<1>1. MemOK(m) /\ TrailOf(m, X, K, r) /\ \A s \in Rooms \ {r} : TrailOf(m, X, K, s)
  BY DEF Trail
<1>2. e \in Events /\ e \in Orders /\ e \in Nat /\ m.lanes[r].resume \in Nat /\ \A d \in Events : d \in Nat
  <2>1. e \in Events /\ m.lanes[r].resume \in Orders
    BY <1>1, InHand, RoomFields DEF MemOK
  <2> QED BY <2>1, PendingAssumption DEF Events, Orders
<1>3. /\ e <= m.lanes[r].resume
      /\ \A d \in m.lanes[r].page : e < d /\ d <= m.lanes[r].resume /\ d \in K
  BY <1>1 DEF TrailOf, PageSound, OnPage
<1>4. m.stopped \/ \A d \in Events : RoomOf[d] = r /\ d <= m.lanes[r].resume => Held(m, X, r, d) \/ d \in m.lanes[r].page
  BY <1>1 DEF TrailOf, PageSafe, OnPage
<1>5. m.stopped \/ \A d \in Events : RoomOf[d] = r /\ d <= e => Held(m, X, r, d)
  <2> SUFFICES ASSUME ~m.stopped, NEW d \in Events, RoomOf[d] = r, d <= e PROVE Held(m, X, r, d)
    OBVIOUS
  <2>1. d \in Nat /\ d <= m.lanes[r].resume
    <3>1. d \in Nat /\ e \in Nat /\ m.lanes[r].resume \in Nat
      BY <1>2
    <3>2. e <= m.lanes[r].resume
      BY <1>3
    <3> QED BY <3>1, <3>2
  <2>2. d \notin m.lanes[r].page
    <3> SUFFICES ASSUME d \in m.lanes[r].page PROVE FALSE
      OBVIOUS
    <3>1. e < d
      BY <1>3
    <3> QED BY <1>2, <2>1, <3>1
  <2> QED BY <1>4, <2>1, <2>2
<1>6. Loose(k, X, K, r) /\ k.lanes = m.lanes /\ k.rooms[r].rewind = m.rooms[r].rewind
  BY <1>0, <1>1, <1>2, <1>5, CursorLoose
<1>7. k.rooms[r].cursor = e /\ DeferredOf(k, r) = DeferredOf(m, r) /\ k.stopped = m.stopped
  BY <1>0, <1>1, <1>2, CursorLeaves
<1>8. Between(k, X, K, r)
  <2>1. \A d \in k.lanes[r].page : k.rooms[r].cursor < d /\ d <= k.lanes[r].resume /\ d \in K
    BY <1>3, <1>6, <1>7
  <2>2. k.stopped \/ \A d \in Events : RoomOf[d] = r /\ d <= k.lanes[r].resume => Held(k, X, r, d) \/ d \in k.lanes[r].page
    BY <1>4, <1>6, <1>7 DEF Held
  <2> QED BY <1>6, <2>1, <2>2 DEF Between
<1>9. n = NextEvent(k, r)
  BY <1>0 DEF Passed, CursorTo
<1>10. Trail(n, X, K) /\ Calm(k, n)
  BY <1>8, <1>9, NextEventTrail
<1> QED BY <1>6, <1>10 DEF Calm

LEMMA ReclaimedTrail ==
    ASSUME NEW m, NEW X, NEW K, Trail(m, X, K), NEW e \in Events, NEW n, n = Reclaim(m, e)
    PROVE  /\ Trail(n, X, K) /\ Calm(m, n) /\ n.stopped = m.stopped
           /\ LaneRuns(m, RoomOf[e]) => n.lanes[RoomOf[e]] = m.lanes[RoomOf[e]]
           /\ m.stopped \/ n.rooms[RoomOf[e]].rewind
<1>0. PICK r, Y : r = RoomOf[e] /\ Y = With(X, e)
  OBVIOUS
<1>1. Trail(m, Y, K)
  <2>1. X \subseteq Y /\ K \subseteq K
    BY <1>0 DEF With
  <2> QED BY <2>1, TrailGrows
<1>2. /\ Trail(n, X, K) /\ Calm(m, n) /\ n.stopped = m.stopped
      /\ LaneRuns(m, r) => n.lanes[r] = m.lanes[r]
      /\ m.stopped \/ n.rooms[r].rewind
  BY <1>0, <1>1, ReclaimTrail
<1> QED BY <1>0, <1>2

LEMMA DeferringTrail ==
    ASSUME NEW m, NEW X, NEW K, Trail(m, X, K), NEW r \in Rooms, m.lanes[r].pc \in AtEvent, NEW e, e = m.lanes[r].event,
           NEW n, n = Deferring(m, r, e)
    PROVE  Trail(n, X, K) /\ Calm(m, n)
<1>0. PICK d, b : d = Defer(m, e) /\ b = Reclaim(d, e)
  OBVIOUS
<1>1. MemOK(m) /\ e \in Events /\ RoomOf[e] = r
  BY InHand DEF Trail
<1>2. Trail(d, X, K) /\ d.lanes[r] = m.lanes[r] /\ Calm(m, d) /\ d.stopped = m.stopped /\ e \in DeferredOf(d, r)
  BY <1>0, <1>1, DeferTrail
<1>4. LaneRuns(d, r)
  BY <1>2 DEF LaneRuns, AtEvent
<1>5. Trail(b, X, K) /\ Calm(d, b) /\ b.stopped = d.stopped /\ b.lanes[r] = d.lanes[r] /\ (d.stopped \/ b.rooms[r].rewind)
  <2>1. /\ Trail(b, X, K) /\ Calm(d, b) /\ b.stopped = d.stopped
        /\ LaneRuns(d, RoomOf[e]) => b.lanes[RoomOf[e]] = d.lanes[RoomOf[e]]
        /\ d.stopped \/ b.rooms[RoomOf[e]].rewind
    BY <1>0, <1>1, <1>2, ReclaimedTrail
  <2> QED BY <1>1, <1>4, <2>1
<1>6. n = Passed(d, r, e) \/ n = Passed(b, r, e)
  BY <1>0 DEF Deferring
<1>7. CASE n = Passed(d, r, e)
  <2>1. Held(d, X, r, e)
    BY <1>2 DEF Held
  <2>2. Trail(n, X, K) /\ Calm(d, n)
    BY <1>2, <1>7, <2>1, PassedTrail
  <2> QED BY <1>2, <2>2, CalmTwice
<1>8. CASE n = Passed(b, r, e)
  <2>1. b.stopped \/ Held(b, X, r, e)
    BY <1>5 DEF Held
  <2>2. Trail(n, X, K) /\ Calm(b, n)
    BY <1>2, <1>5, <1>8, <2>1, PassedTrail
  <2> QED BY <1>2, <1>5, <2>2, CalmTwice
<1> QED BY <1>6, <1>7, <1>8

\* A pass that fails gives its event back and leaves the cursor before it.
LEMMA LaneRaisesTrail ==
    ASSUME NEW m, NEW X, NEW K, Trail(m, X, K), NEW r \in Rooms, m.lanes[r].pc # "off", NEW e, e = m.lanes[r].event,
           NEW n, n = LaneRaises(m, r, e)
    PROVE  Trail(n, X, K) /\ Calm(m, n)
<1>0. PICK a, f, s : /\ a = Release(m, e) /\ f = (IF e = 0 THEN m ELSE CursorTo(a, r, e - 1))
                     /\ s = ScheduleRoomRetry(f, r, e)
  OBVIOUS
<1>1. MemOK(m) /\ TrailOf(m, X, K, r) /\ HasProgress(m, r) /\ e \in Orders
  BY InHand DEF Trail
<1>2. n = EndPass(s, r, FALSE)
  BY <1>0 DEF LaneRaises, CursorTo
<1>3. Loose(f, X, K, r) /\ Calm(m, f)
  <2>1. CASE e = 0
    BY <1>0, <1>1, <2>1, TrailIsLoose DEF Calm
  <2>2. CASE e # 0
    <3>1. m.lanes[r].pc \in AtEvent
      BY <1>1, <2>2 DEF TrailOf, PageSound
    <3>2. e \in Events /\ RoomOf[e] = r
      BY <1>1, <3>1, InHand
    <3>3. Trail(a, X, K) /\ a.lanes[r] = m.lanes[r] /\ Calm(m, a) /\ a.stopped = m.stopped
      BY <1>0, <3>1, <3>2, ReleaseTrail
    <3>4. MemOK(a) /\ TrailOf(a, X, K, r) /\ \A t \in Rooms \ {r} : TrailOf(a, X, K, t)
      BY <3>3 DEF Trail
    <3>5. e - 1 \in Orders /\ e \in Nat /\ m.lanes[r].resume \in Nat /\ \A d \in Events : d \in Nat
      <4>1. m.lanes[r].resume \in Orders
        BY <1>1, RoomFields DEF MemOK
      <4> QED BY <3>2, <4>1, PendingAssumption DEF Events, Orders
    <3>6. /\ e <= a.lanes[r].resume
          /\ \A d \in a.lanes[r].page : e < d
      BY <3>1, <3>3, <3>4 DEF TrailOf, PageSound, OnPage
    <3>7. a.stopped \/ \A d \in Events : RoomOf[d] = r /\ d <= a.lanes[r].resume =>
                           Held(a, X, r, d) \/ d \in a.lanes[r].page \/ d = e
      BY <3>1, <3>3, <3>4 DEF TrailOf, PageSafe, OnPage
    <3>8. a.stopped \/ \A d \in Events : RoomOf[d] = r /\ d <= e - 1 => Held(a, X, r, d)
      <4> SUFFICES ASSUME ~a.stopped, NEW d \in Events, RoomOf[d] = r, d <= e - 1 PROVE Held(a, X, r, d)
        OBVIOUS
      <4>1. d \in Nat /\ d <= a.lanes[r].resume /\ d # e
        BY <3>3, <3>5, <3>6
      <4>2. d \notin a.lanes[r].page
        <5> SUFFICES ASSUME d \in a.lanes[r].page PROVE FALSE
          OBVIOUS
        <5>1. e < d
          BY <3>6
        <5> QED BY <3>5, <4>1, <5>1
      <4> QED BY <3>7, <4>1, <4>2
    <3>9. f = CursorTo(a, r, e - 1)
      BY <1>0, <2>2
    <3>10. Loose(f, X, K, r) /\ f.lanes = a.lanes
      BY <3>4, <3>5, <3>8, <3>9, CursorLoose
    <3> QED BY <3>3, <3>10 DEF Calm
  <2> QED BY <2>1, <2>2
<1>4. MemOK(f) /\ HasProgress(f, r)
  BY <1>3 DEF Loose
<1>5. MemOK(s)
  BY <1>0, <1>1, <1>4, ScheduleRoomRetryOK
<1>6. s.rooms = f.rooms /\ s.lanes = f.lanes /\ s.deferred = f.deferred /\ s.stopped = f.stopped
  BY <1>0, <1>4, ScheduleRoomRetryLeaves
<1>7. Loose(s, X, K, r)
  BY <1>3, <1>5, <1>6, LoosePlaces
<1>8. Trail(n, X, K) /\ Calm(s, n)
  BY <1>2, <1>7, EndPassTrail
<1> QED BY <1>3, <1>6, <1>8 DEF Calm

-----------------------------------------------------------------------------
(* Probing and dispatching.                                                *)

LEMMA ProbeOldestTrail ==
    ASSUME NEW m, NEW X, NEW K, Trail(m, X, K), m.deferred # <<>>
    PROVE  Trail(ProbeOldest(m), X, K) /\ Calm(m, ProbeOldest(m))
<1> DEFINE e == Head(m.deferred)
           n == [m EXCEPT !.deferred = Append(Tail(@), e)]
<1>0. MemOK(m)
  BY DEF Trail
<1>1. MemOK(n) /\ e \in Events /\ n.stopped = m.stopped /\ \A r \in Rooms : SameRoom(m, n, r)
  BY <1>0, RotateOK
<1>2. ProbeOldest(m) = n \/ ProbeOldest(m) = Reclaim(n, e)
  BY DEF ProbeOldest
<1> HIDE DEF n, e
<1>3. Trail(n, X, K)
  BY <1>1, TrailAlike DEF Trail
<1>4. Calm(m, n)
  BY <1>1 DEF Calm, SameRoom
<1>5. Trail(Reclaim(n, e), X, K) /\ Calm(n, Reclaim(n, e))
  BY <1>1, <1>3, ReclaimedTrail
<1> QED BY <1>2, <1>3, <1>4, <1>5, CalmTwice

LEMMA QueueLostOwnersTrail ==
    ASSUME NEW m, NEW X, NEW K, Trail(m, X, K), BatchSize \in Nat
    PROVE  Trail(QueueLostOwners(m), X, K) /\ Calm(m, QueueLostOwners(m))
<1>0. MemOK(m)
  BY DEF Trail
<1>1. Len(m.deferred) \in Nat
  BY <1>0, MemoryFields, SeqFacts DEF MemOK, Deferrals
<1>2. PICK n \in Nat : n <= Len(m.deferred) /\ \E f : /\ f[0] = m /\ \A i \in 1..n : f[i] = ProbeOldest(f[i - 1])
                                                      /\ QueueLostOwners(m) = f[n]
  BY <1>1, QueueLostOwnersIs
<1>3. PICK f : f[0] = m /\ (\A i \in 1..n : f[i] = ProbeOldest(f[i - 1])) /\ QueueLostOwners(m) = f[n]
  BY <1>2
<1> DEFINE S == {i \in Nat : i <= n => Trail(f[i], X, K) /\ Calm(m, f[i]) /\ Len(f[i].deferred) >= Len(m.deferred) - i}
<1>4. 0 \in S
  BY <1>1, <1>3 DEF Calm
<1>5. ASSUME NEW k \in S PROVE k + 1 \in S
  <2> SUFFICES ASSUME k + 1 <= n
               PROVE  Trail(f[k + 1], X, K) /\ Calm(m, f[k + 1]) /\ Len(f[k + 1].deferred) >= Len(m.deferred) - (k + 1)
    OBVIOUS
  <2>1. Trail(f[k], X, K) /\ Calm(m, f[k]) /\ Len(f[k].deferred) >= Len(m.deferred) - k
    OBVIOUS
  <2>2. f[k + 1] = ProbeOldest(f[k])
    <3>1. k + 1 \in 1..n /\ k + 1 - 1 = k
      OBVIOUS
    <3> QED BY <1>3, <3>1
  <2>3. f[k].deferred \in Seq(Events) /\ Len(f[k].deferred) \in Nat
    BY <2>1, MemoryFields, SeqFacts DEF Trail, MemOK, Deferrals
  <2>4. f[k].deferred # <<>>
    <3>1. Len(f[k].deferred) > 0
      BY <1>1, <1>2, <2>1, <2>3
    <3> QED BY <3>1
  <2>5. MemOK(f[k + 1]) /\ Len(f[k + 1].deferred) >= Len(f[k].deferred) - 1
    BY <2>1, <2>2, <2>4, ProbeOldestOK DEF Trail
  <2>6. Len(f[k + 1].deferred) \in Nat
    BY <2>5, MemoryFields, SeqFacts DEF MemOK, Deferrals
  <2>7. Len(f[k + 1].deferred) >= Len(m.deferred) - (k + 1)
    BY <1>1, <2>1, <2>3, <2>5, <2>6, OneLess
  <2>8. Trail(f[k + 1], X, K) /\ Calm(f[k], f[k + 1])
    BY <2>1, <2>2, <2>4, ProbeOldestTrail
  <2> QED BY <2>1, <2>7, <2>8, CalmTwice
<1>6. n \in S
  <2> HIDE DEF S
  <2>1. S \in SUBSET Nat
    BY DEF S
  <2> QED BY <1>4, <1>5, <2>1, Counting
<1> QED BY <1>3, <1>6

LEMMA FoundTrail ==
    ASSUME NEW m, NEW X, NEW K, Trail(m, X, K), NEW R \in SUBSET Rooms, NEW n,
           n = [m EXCEPT !.ready = @ \cup R, !.rooms = [r \in Rooms |-> IF r \in R THEN Default(@[r]) ELSE @[r]]]
    PROVE  Trail(n, X, K) /\ Calm(m, n)
<1> DEFINE P == [r \in Rooms |-> IF r \in R THEN Default(m.rooms[r]) ELSE m.rooms[r]]
<1>1. MemOK(m) /\ m \in Memory
  BY DEF Trail, MemOK
<1>2. MemOK(n)
  BY <1>1, FoundOK
<1>3. n.rooms = P /\ n.lanes = m.lanes /\ n.deferred = m.deferred /\ n.stopped = m.stopped
  BY <1>1 DEF Memory
<1>4. ASSUME NEW s \in Rooms PROVE TrailOf(n, X, K, s)
  <2>1. TrailOf(m, X, K, s) /\ DeferredOf(n, s) = DeferredOf(m, s) /\ n.lanes[s] = m.lanes[s] /\ n.stopped = m.stopped
    BY <1>3 DEF Trail, DeferredOf, Deferred
  <2>2. n.rooms[s] = m.rooms[s] \/ n.rooms[s] = Default(m.rooms[s])
    BY <1>3
  <2>3. n.rooms[s] = m.rooms[s] \/ (m.rooms[s].cursor = -1 /\ n.rooms[s].cursor = 0 /\ m.lanes[s].pc \notin OnPage)
    BY <1>1, <2>2, CursorStays
  <2>4. CASE n.rooms[s] = m.rooms[s]
    BY <2>1, <2>4 DEF TrailOf, PageSound, CursorSafe, PageSafe, Held
  <2>5. CASE m.rooms[s].cursor = -1 /\ n.rooms[s].cursor = 0 /\ m.lanes[s].pc \notin OnPage
    <3>1. \A e \in Events : ~(e <= 0)
      BY PendingAssumption DEF Events
    <3>2. m.lanes[s].pc \notin AtEvent
      BY <2>5 DEF OnPage
    <3> QED BY <2>1, <2>5, <3>1, <3>2 DEF TrailOf, PageSound, CursorSafe, PageSafe
  <2> QED BY <2>3, <2>4, <2>5
<1> QED BY <1>2, <1>3, <1>4 DEF Trail, Calm

LEMMA ScheduleProbeTrail ==
    ASSUME NEW m, NEW X, NEW K, Trail(m, X, K)
    PROVE  Trail(ScheduleProbe(m), X, K) /\ Calm(m, ScheduleProbe(m))
<1>1. m \in Memory
  BY DEF Trail, MemOK
<1>2. Alike(m, ScheduleProbe(m)) /\ ScheduleProbe(m).stopped = m.stopped
  BY <1>1 DEF ScheduleProbe, Alike, Memory
<1> QED BY <1>2, TrailParts

LEMMA DispatchedTrail ==
    ASSUME NEW m, NEW X, NEW K, Trail(m, X, K), NEW s \in ScanRecords, NEW more \in BOOLEAN, BatchSize \in Nat
    PROVE  Trail(Dispatched(m, s, more), X, K) /\ Calm(m, Dispatched(m, s, more))
<1> DEFINE probed == QueueLostOwners(m)
           queued == [probed EXCEPT !.ready = @ \cup s.rooms,
                                    !.rooms = [r \in Rooms |-> IF r \in s.rooms THEN Default(@[r]) ELSE @[r]]]
           started == s.started \/ \E r \in queued.ready : Starts(queued, r)
           running == StartLanes(queued, queued.ready)
           n == [running EXCEPT !.wake = @ \/ (more /\ started), !.retry = @ \/ (more /\ ~started)]
<1>1. Trail(probed, X, K) /\ Calm(m, probed)
  BY QueueLostOwnersTrail
<1>2. s.rooms \in SUBSET Rooms
  BY DEF ScanRecords
<1>3. Dispatched(m, s, more) = ScheduleProbe(n)
  BY DEF Dispatched
<1> HIDE DEF probed
<1>4. Trail(queued, X, K) /\ Calm(probed, queued)
  BY <1>1, <1>2, FoundTrail
<1> HIDE DEF queued
<1>5. Trail(running, X, K) /\ Calm(queued, running)
  <2>1. queued.ready \in SUBSET Rooms
    BY <1>4, MemoryFields DEF Trail, MemOK
  <2> QED BY <1>4, <2>1, StartLanesTrail
<1> HIDE DEF running, started
<1>6. Alike(running, n) /\ n.stopped = running.stopped
  BY <1>5 DEF Trail, MemOK, Memory, Alike
<1> HIDE DEF n
<1>7. Trail(n, X, K) /\ Calm(running, n)
  BY <1>5, <1>6, TrailParts
<1>8. Trail(ScheduleProbe(n), X, K) /\ Calm(n, ScheduleProbe(n))
  BY <1>7, ScheduleProbeTrail
<1>9. Calm(m, ScheduleProbe(n))
  BY <1>1, <1>4, <1>5, <1>7, <1>8, CalmTwice
<1> QED BY <1>3, <1>8, <1>9

-----------------------------------------------------------------------------
(* The pump's and the timers' steps.                                       *)

LEMMA PumpWakesTrail ==
    ASSUME NEW X, NEW K, Trail(w, X, K), PumpWakes
    PROVE  Trail(w', X, K) /\ Calm(w, w')
<1> DEFINE k == [w EXCEPT !.wake = FALSE]
           n == StartLanes(k, w.ready)
           s == [ScanFrom(w.scanCursor) EXCEPT !.started = \E r \in w.ready : Starts(w, r)]
<1>0. MemOK(w)
  BY DEF Trail
<1>1. w.scanCursor \in Orders /\ w.ready \in SUBSET Rooms
  BY <1>0, MemoryFields DEF MemOK
<1>2. Trail(k, X, K) /\ k.lanes = w.lanes
  BY WakeTrail
<1>3. s \in ScanRecords
  <2>1. (\E r \in w.ready : Starts(w, r)) \in BOOLEAN
    OBVIOUS
  <2> QED BY <1>1, <2>1, ScanFromFacts
<1>4. w' = [n EXCEPT !.scan = s]
  BY DEF PumpWakes
<1> HIDE DEF k, s
<1>5. Trail(n, X, K) /\ Calm(k, n)
  BY <1>1, <1>2, StartLanesTrail
<1> HIDE DEF n
<1>6. Alike(n, w') /\ w'.stopped = n.stopped
  BY <1>3, <1>4, <1>5 DEF Alike, Trail, MemOK, Memory
<1>7. Trail(w', X, K) /\ Calm(n, w')
  BY <1>5, <1>6, TrailParts
<1> QED BY <1>2, <1>5, <1>7 DEF Calm

LEMMA PumpReadsTrail ==
    ASSUME NEW X, NEW K, Trail(w, X, K), PumpReads, BatchSize \in Nat
    PROVE  Trail(w', X, K) /\ Calm(w, w')
<1> DEFINE p == ScanPage(w.scan, FALSE)
           c == IF p.more THEN p.scan.cursor ELSE 0
           idle == [w EXCEPT !.scan = NoScan, !.scanCursor = c]
           on == [w EXCEPT !.scan = p.scan]
<1>0. MemOK(w)
  BY DEF Trail
<1>1. p.scan \in ScanRecords /\ p.done \in BOOLEAN /\ p.more \in BOOLEAN
  BY <1>0, MemoryFields, ScanPageFacts DEF MemOK
<1>2. c \in Orders /\ NoScan \in ScanRecords
  <2>1. 0 \in Orders
    BY PendingAssumption DEF Orders
  <2>2. p.scan.cursor \in Orders
    BY <1>1 DEF ScanRecords
  <2> HIDE DEF p
  <2> QED BY <2>1, <2>2, NoScanFacts
<1>3. w' = IF p.done \/ p.more THEN Dispatched(idle, p.scan, p.more) ELSE on
  BY DEF PumpReads
<1> HIDE DEF p, c
<1>4. Alike(w, idle) /\ Alike(w, on) /\ idle.stopped = w.stopped /\ on.stopped = w.stopped
  BY <1>0, <1>1, <1>2 DEF Alike, MemOK, Memory
<1> HIDE DEF idle, on
<1>5. Trail(idle, X, K) /\ Calm(w, idle) /\ Trail(on, X, K) /\ Calm(w, on)
  BY <1>4, TrailParts
<1>6. Trail(Dispatched(idle, p.scan, p.more), X, K) /\ Calm(idle, Dispatched(idle, p.scan, p.more))
  BY <1>1, <1>5, DispatchedTrail
<1> QED BY <1>3, <1>5, <1>6, CalmTwice

LEMMA PumpOtherTrail ==
    ASSUME NEW X, NEW K, Trail(w, X, K), PumpFails \/ RetryTimer \/ DrainStarts \/ AckBatch
    PROVE  Trail(w', X, K) /\ Calm(w, w')
<1>0. MemOK(w)
  BY DEF Trail
<1>1. NoScan \in ScanRecords /\ ScanFrom(0) \in ScanRecords
  <2>1. 0 \in Orders
    BY PendingAssumption DEF Orders
  <2> QED BY <2>1, NoScanFacts, ScanFromFacts
<1>2. Alike(w, w') /\ w'.stopped = w.stopped
  <2>1. CASE PumpFails
    BY <1>0, <1>1, <2>1 DEF PumpFails, Alike, MemOK, Memory
  <2>2. CASE RetryTimer
    BY <1>0, <1>1, <2>2 DEF RetryTimer, Alike, MemOK, Memory
  <2>3. CASE DrainStarts
    BY <1>0, <1>1, <2>3 DEF DrainStarts, Alike, MemOK, Memory
  <2>4. CASE AckBatch
    BY <1>0, <1>1, <2>4 DEF AckBatch, WakeWorker, Alike, MemOK, Memory
  <2> QED BY <2>1, <2>2, <2>3, <2>4
<1> QED BY <1>2, TrailParts

LEMMA DeferralScanTrail ==
    ASSUME NEW X, NEW K, Trail(w, X, K), DeferralScan, BatchSize \in Nat \ {0}
    PROVE  Trail(w', X, K) /\ Calm(w, w')
<1> DEFINE probed == QueueLostOwners(w)
           left == (IF w.probes = 0 THEN ProbesFor(w) ELSE w.probes) - 1
           woken == IF left > 0 THEN probed ELSE [probed EXCEPT !.wake = TRUE]
           q == IF left > 0 THEN left ELSE IF probed.deferred = <<>> THEN -1 ELSE 0
           done == [w EXCEPT !.probes = -1, !.wake = TRUE]
           n == [woken EXCEPT !.probes = q]
<1>0. MemOK(w)
  BY DEF Trail
<1>1. w' = IF w.deferred = <<>> THEN done ELSE n
  BY DEF DeferralScan
<1>2. Trail(probed, X, K) /\ Calm(w, probed)
  BY QueueLostOwnersTrail
<1>3. left \in Int
  <2>1. w.probes \in Int /\ Len(w.deferred) \in Nat
    BY <1>0, MemoryFields, SeqFacts DEF MemOK, Deferrals
  <2>2. ProbesFor(w) \in Int
    BY <2>1 DEF ProbesFor
  <2> QED BY <2>1, <2>2
<1> HIDE DEF left, probed
<1>4. q \in Int
  BY <1>3
<1>5. Trail(woken, X, K) /\ woken.lanes = probed.lanes
  BY <1>2, WakeTrail
<1> HIDE DEF woken, q
<1>6. Alike(woken, n) /\ n.stopped = woken.stopped
  BY <1>4, <1>5 DEF Alike, Trail, MemOK, Memory
<1>7. Alike(w, done) /\ done.stopped = w.stopped
  <2>1. -1 \in Int
    OBVIOUS
  <2> QED BY <1>0, <2>1 DEF Alike, MemOK, Memory
<1> HIDE DEF n, done
<1>8. Trail(n, X, K) /\ Calm(woken, n)
  BY <1>5, <1>6, TrailParts
<1>9. Trail(done, X, K) /\ Calm(w, done)
  BY <1>7, TrailParts
<1>10. Calm(w, n)
  BY <1>2, <1>5, <1>8 DEF Calm
<1> QED BY <1>1, <1>8, <1>9, <1>10

LEMMA DrainReadsTrail ==
    ASSUME NEW X, NEW K, Trail(w, X, K), DrainReads, BatchSize \in Nat
    PROVE  Trail(w', X, K) /\ Calm(w, w')
<1> DEFINE p == ScanPage(w.drain, TRUE)
           off == [w EXCEPT !.drain = NoScan]
           m == QueueLostOwners(off)
           D == [r \in Rooms |-> IF r \in p.scan.rooms \cup m.ready THEN "go" ELSE "off"]
           n == [m EXCEPT !.draining = D]
           on == [w EXCEPT !.drain = p.scan]
<1>0. MemOK(w)
  BY DEF Trail
<1>1. p.scan \in ScanRecords /\ p.done \in BOOLEAN
  BY <1>0, MemoryFields, ScanPageFacts DEF MemOK
<1>2. w' = IF p.done THEN n ELSE on
  BY DEF DrainReads
<1>3. D \in Drainings /\ NoScan \in ScanRecords
  BY NoScanFacts DEF Drainings
<1> HIDE DEF p, D
<1>4. Alike(w, on) /\ Alike(w, off) /\ on.stopped = w.stopped /\ off.stopped = w.stopped
  BY <1>0, <1>1, <1>3 DEF Alike, MemOK, Memory
<1> HIDE DEF on, off
<1>5. Trail(on, X, K) /\ Calm(w, on) /\ Trail(off, X, K) /\ Calm(w, off)
  BY <1>4, TrailParts
<1>6. Trail(m, X, K) /\ Calm(off, m)
  BY <1>5, QueueLostOwnersTrail
<1> HIDE DEF m
<1>7. Alike(m, n) /\ n.stopped = m.stopped
  BY <1>3, <1>6 DEF Alike, Trail, MemOK, Memory
<1> HIDE DEF n
<1>8. Trail(n, X, K) /\ Calm(m, n)
  BY <1>6, <1>7, TrailParts
<1> QED BY <1>2, <1>5, <1>6, <1>8, CalmTwice

LEMMA DrainingTrail ==
    ASSUME NEW m, NEW X, NEW K, Trail(m, X, K), NEW r \in Rooms, NEW d \in {"off", "go", "own", "check"}, NEW n,
           n = [m EXCEPT !.draining[r] = d]
    PROVE  Trail(n, X, K) /\ Calm(m, n)
<1> DEFINE D == [m.draining EXCEPT ![r] = d]
<1>0. MemOK(m)
  BY DEF Trail
<1>1. D \in Drainings
  BY <1>0, MemoryFields DEF MemOK, Drainings
<1>2. n = [m EXCEPT !.draining = D]
  OBVIOUS
<1> HIDE DEF D
<1>3. Alike(m, n) /\ n.stopped = m.stopped
  BY <1>0, <1>1, <1>2 DEF Alike, MemOK, Memory
<1> QED BY <1>3, TrailParts

\* A room that is queued and, if it may, started.
LEMMA QueuedTrail ==
    ASSUME NEW m, NEW X, NEW K, Trail(m, X, K), NEW r \in Rooms, NEW n, n = StartLanes(QueueRoom(m, r, FALSE), {r})
    PROVE  Trail(n, X, K) /\ Calm(m, n)
<1>1. PICK b \in BOOLEAN : b = FALSE
  OBVIOUS
<1>2. PICK q : q = QueueRoom(m, r, b)
  OBVIOUS
<1>3. Trail(q, X, K) /\ Calm(m, q)
  <2>1. \A e \in X \ X : b /\ (e \in Events => RoomOf[e] = r)
    OBVIOUS
  <2>2. Trail(QueueRoom(m, r, b), X, K) /\ Calm(m, QueueRoom(m, r, b))
    BY <2>1, QueueRoomTrail
  <2> QED BY <1>2, <2>2
<1>4. n = StartLanes(q, {r})
  BY <1>1, <1>2
<1>5. Trail(n, X, K) /\ Calm(q, n)
  BY <1>3, <1>4, StartLanesTrail
<1> QED BY <1>3, <1>5, CalmTwice

LEMMA DrainRoomTrail ==
    ASSUME NEW X, NEW K, Trail(w, X, K), NEW r \in Rooms, DrainRoom(r)
    PROVE  Trail(w', X, K) /\ Calm(w, w')
<1>0. PICK n : n = StartLanes(QueueRoom(w, r, FALSE), {r})
  OBVIOUS
<1>1. Trail(n, X, K) /\ Calm(w, n)
  BY <1>0, QueuedTrail
<1>2. \/ w' = [w EXCEPT !.draining[r] = "go"] \/ w' = [w EXCEPT !.draining[r] = "off"]
      \/ w' = [n EXCEPT !.draining[r] = "own"]
  BY <1>0 DEF DrainRoom
<1>3. CASE w' = [w EXCEPT !.draining[r] = "go"] \/ w' = [w EXCEPT !.draining[r] = "off"]
  BY <1>3, DrainingTrail
<1>4. CASE w' = [n EXCEPT !.draining[r] = "own"]
  <2>1. Trail(w', X, K) /\ Calm(n, w')
    BY <1>1, <1>4, DrainingTrail
  <2> QED BY <1>1, <2>1, CalmTwice
<1> QED BY <1>2, <1>3, <1>4

LEMMA RoomRetryFinishedTrail ==
    ASSUME NEW X, NEW K, Trail(w, X, K), NEW r \in Rooms, RoomRetryFinished(r)
    PROVE  Trail(w', X, K) /\ Calm(w, w')
<1> DEFINE q == [w.retries[r] EXCEPT !.at = "done"]
           p == [w.rooms[r] EXCEPT !.admitted = 0]
           k == WithRetry(w, r, q)
           n == WithRoom(k, r, p)
<1>00. MemOK(w)
  BY DEF Trail
<1>0. w \in Memory /\ w.rooms[r] \in ProgressRecords /\ w.retries[r] \in RetryRecords /\ w.retries[r].at = "awake" /\ Booked(w, r)
      /\ 0 \in Orders
  BY <1>00, RoomFields, PendingAssumption DEF MemOK, RoomRetryFinished, Orders
<1>1. q \in RetryRecords /\ q.at = "done" /\ p \in ProgressRecords /\ p.cursor = w.rooms[r].cursor
      /\ p.deferredCount = w.rooms[r].deferredCount /\ p.rewind = w.rooms[r].rewind
  BY <1>0 DEF RetryRecords, ProgressRecords
<1>2. w' = StartLanes(QueueRoom(n, r, FALSE), {r})
  BY <1>0 DEF RoomRetryFinished, WithRetry, WithRoom
<1>3. /\ w.rooms[r].cursor # -1
  BY <1>0 DEF Booked
<1> HIDE DEF p, q
<1>4. /\ WorksOn(w, k, r) /\ k.retries[r] = q /\ k.rooms[r] = w.rooms[r] /\ k.lanes[r] = w.lanes[r]
      /\ k.ready = w.ready /\ DeferredOf(k, r) = DeferredOf(w, r)
  BY <1>0, <1>1, SetRetry
<1>5. Booked(k, r)
  BY <1>0, <1>3, <1>4 DEF Booked
<1>6. MemOK(k)
  BY <1>00, <1>4, <1>5, BookedOn
<1> HIDE DEF k
<1>7. Trail(k, X, K) /\ Calm(w, k)
  BY <1>4, <1>6, TrailRoom
<1>8. MemOK(n) /\ n.rooms[r] = p
  BY <1>1, <1>3, <1>4, <1>6, ProgressSet
<1>9. WorksOn(k, n, r) /\ n.lanes[r] = k.lanes[r] /\ DeferredOf(n, r) = DeferredOf(k, r)
  BY <1>1, <1>6, SetRoom DEF MemOK
<1> HIDE DEF n
<1>10. Trail(n, X, K) /\ Calm(k, n)
  BY <1>1, <1>4, <1>7, <1>8, <1>9, TrailRoom
<1>11. Trail(w', X, K) /\ Calm(n, w')
  BY <1>2, <1>10, QueuedTrail
<1> QED BY <1>7, <1>10, <1>11, CalmTwice

LEMMA CooldownEndsTrail ==
    ASSUME NEW X, NEW K, Trail(w, X, K), NEW r \in Rooms, CooldownEnds(r)
    PROVE  Trail(w', X, K) /\ Calm(w, w')
<1> DEFINE q == [w.retries[r] EXCEPT !.at = "awake"]
<1>00. MemOK(w)
  BY DEF Trail
<1>0. w \in Memory /\ w.retries[r] \in RetryRecords
  BY <1>00, RoomFields DEF MemOK
<1>1. q \in RetryRecords
  BY <1>0 DEF RetryRecords
<1>2. w' = WithRetry(w, r, q)
  BY <1>0 DEF CooldownEnds, WithRetry
<1> HIDE DEF q
<1>3. /\ WorksOn(w, w', r) /\ w'.rooms[r] = w.rooms[r] /\ w'.lanes[r] = w.lanes[r] /\ DeferredOf(w', r) = DeferredOf(w, r)
  BY <1>0, <1>1, <1>2, SetRetry
<1>4. MemOK(w')
  BY <1>00, CooldownEndsOK
<1> QED BY <1>3, <1>4, TrailRoom

-----------------------------------------------------------------------------
(* The read of a page.                                                     *)

\* A page is the front of the rows it was read from.
LEMMA PageIsFront ==
    ASSUME NEW rows \in SUBSET Events, NEW d \in FirstRows(rows), NEW e \in rows, e <= d, BatchSize \in Nat
    PROVE  e \in FirstRows(rows)
<1> DEFINE A == {x \in rows : x <= e}
           B == {x \in rows : x <= d}
<1>1. IsFiniteSet(Events) /\ \A x \in Events : x \in Nat
  BY FS_Interval, PendingAssumption DEF Events
<1>2. d \in rows /\ Cardinality(B) <= BatchSize
  BY DEF FirstRows
<1>3. A \subseteq B /\ B \subseteq Events
  <2> SUFFICES ASSUME NEW x \in A PROVE x <= d
    OBVIOUS
  <2>1. x \in Nat /\ e \in Nat /\ d \in Nat /\ x <= e
    BY <1>1, <1>2
  <2> QED BY <2>1
<1> HIDE DEF A, B
<1>4. IsFiniteSet(B)
  BY <1>1, <1>3, FS_Subset
<1>5. Cardinality(A) <= Cardinality(B) /\ Cardinality(B) \in Nat /\ Cardinality(A) \in Nat
  <2>1. IsFiniteSet(A)
    BY <1>3, <1>4, FS_Subset
  <2> QED BY <1>3, <1>4, <2>1, FS_Subset, FS_CardinalityType
<1>6. Cardinality(A) <= BatchSize
  BY <1>2, <1>5
<1> QED BY <1>6 DEF FirstRows, A

\* X accounts for every event before an eligible one that a page does not show.
Accounts(X) == \A e, d \in Events : Eligible(d) /\ e <= d /\ ~Eligible(e) => e \in X

\* The read of a page passes nothing by.
LEMMA LaneReadsTrail ==
    ASSUME NEW X, NEW K, Trail(w, X, K), NEW r \in Rooms, LaneReads(r), BatchSize \in Nat, Accounts(X),
           \A e \in Events : Eligible(e) => e \in K
    PROVE  Trail(w', X, K) /\ Calm(w, w')
<1>0. PICK m, rows, page, resume, l :
         /\ m = ApplyRewind(w, r) /\ rows = PendingRows({r}, m.rooms[r].cursor) /\ page = FirstRows(rows)
         /\ resume = ResumeAfter(page, m.rooms[r].cursor)
         /\ l = [m.lanes[r] EXCEPT !.pc = "page", !.page = page, !.pages = @ + 1, !.resume = resume,
                                   !.end = Cardinality(page) < BatchSize]
  OBVIOUS
<1>1. w' = WithLane(m, r, l) /\ w.lanes[r].pc = "read" /\ ~w.stopped
  BY <1>0 DEF LaneReads, WithLane
<1>2. MemOK(w) /\ TrailOf(w, X, K, r) /\ HasProgress(w, r)
  BY <1>1, InHand DEF Trail
<1>3. Loose(m, X, K, r) /\ m.lanes = w.lanes /\ m.stopped = w.stopped /\ m.deferred = w.deferred /\ ~m.rooms[r].rewind
      /\ m.rooms[r].cursor \in Orders
  BY <1>0, <1>2, TrailIsLoose, ApplyRewindLoose
<1>4. MemOK(m) /\ m \in Memory /\ CursorSafe(m, X, r) /\ (\A s \in Rooms \ {r} : TrailOf(m, X, K, s))
  BY <1>1, <1>3 DEF Loose, MemOK
<1>5. page \in SUBSET Events /\ \A e \in page : RoomOf[e] = r /\ e > m.rooms[r].cursor /\ Eligible(e)
  BY <1>0 DEF FirstRows, PendingRows
<1>6. resume \in Orders /\ \A e \in page : e <= resume
  BY <1>0, <1>3, <1>5, ResumeFacts
<1>7. l \in LaneRecords /\ l.pc = "page" /\ l.page = page /\ l.resume = resume /\ l.event = 0
  <2>1. m.lanes[r] \in LaneRecords /\ m.lanes[r].pages \in Nat /\ m.lanes[r].pages + 1 \in Nat /\ "page" \in LanePCs
        /\ (Cardinality(page) < BatchSize) \in BOOLEAN
    BY <1>4, RoomFields DEF LanePCs
  <2>2. m.lanes[r].event = 0
    BY <1>1, <1>2, <1>3 DEF TrailOf, PageSound, AtEvent
  <2>3. l = [m.lanes[r] EXCEPT !.pc = "page", !.page = page, !.pages = @ + 1, !.resume = resume,
                               !.end = Cardinality(page) < BatchSize]
    BY <1>0
  <2> HIDE <1>0
  <2> QED BY <1>5, <1>6, <2>1, <2>2, <2>3 DEF LaneRecords
<1>8. WorksOn(m, w', r) /\ w'.lanes[r] = l /\ w'.rooms[r] = m.rooms[r] /\ DeferredOf(w', r) = DeferredOf(m, r)
  BY <1>1, <1>4, <1>7, SetLane
<1>9. MemOK(w')
  BY <1>2, LaneReadsOK
<1>10. w'.stopped = m.stopped
  BY <1>8 DEF WorksOn
<1>11. PageSound(w', K, r)
  BY <1>5, <1>6, <1>7, <1>8 DEF PageSound, AtEvent
<1>12. CursorSafe(w', X, r)
  BY <1>4, <1>8 DEF CursorSafe, Held
<1>13. PageSafe(w', X, r)
  <2> SUFFICES ASSUME NEW e \in Events, RoomOf[e] = r, e <= resume, e \notin page PROVE Held(w', X, r, e)
    BY <1>7, <1>8 DEF PageSafe
  <2>0. m.rooms[r].cursor \in Nat /\ e \in Nat
    BY <1>3, PendingAssumption DEF Orders, Events
  <2>1. CASE e <= m.rooms[r].cursor
    BY <1>4, <1>8, <2>1 DEF CursorSafe, Held
  <2>2. CASE ~(e <= m.rooms[r].cursor)
    <3>1. page # {}
      BY <1>0, <2>2 DEF ResumeAfter
    <3>2. PICK d : d = Max(page)
      OBVIOUS
    <3>3. d \in page /\ resume = d
      BY <1>0, <1>5, <3>1, <3>2, MaxFacts DEF ResumeAfter
    <3>4. ~Eligible(e)
      <4> SUFFICES ASSUME Eligible(e) PROVE FALSE
        OBVIOUS
      <4>1. e > m.rooms[r].cursor
        BY <2>0, <2>2
      <4>2. e \in rows /\ rows \in SUBSET Events
        BY <1>0, <4>1 DEF PendingRows
      <4>3. d \in FirstRows(rows) /\ e <= d
        BY <1>0, <3>3
      <4>4. e \in FirstRows(rows)
        BY <4>2, <4>3, PageIsFront
      <4> QED BY <1>0, <4>4
    <3>5. e \in X
      BY <1>5, <3>3, <3>4 DEF Accounts
    <3> QED BY <3>5 DEF Held
  <2> QED BY <2>1, <2>2
<1>14. TrailOf(w', X, K, r)
  BY <1>11, <1>12, <1>13 DEF TrailOf
<1>15. Trail(w', X, K)
  BY <1>4, <1>8, <1>9, <1>14, TrailOn
<1>16. Calm(m, w')
  BY <1>7, <1>8, CalmOn DEF Late
<1> QED BY <1>3, <1>15, <1>16 DEF Calm

LEMMA LaneGetsPageTrail ==
    ASSUME NEW X, NEW K, Trail(w, X, K), NEW r \in Rooms, LaneGetsPage(r)
    PROVE  Trail(w', X, K) /\ Calm(w, w')
<1>1. MemOK(w) /\ TrailOf(w, X, K, r) /\ HasProgress(w, r) /\ w.lanes[r].pc = "page"
  BY InHand DEF Trail, LaneGetsPage
<1>2. Loose(w, X, K, r)
  BY <1>1, TrailIsLoose
<1>3. CASE w.rooms[r].rewind
  <2>1. PICK m : m = ApplyRewind(w, r)
    OBVIOUS
  <2>2. Loose(m, X, K, r) /\ m.lanes = w.lanes
    BY <1>2, <2>1, ApplyRewindLoose
  <2>3. w' = NextPage(m, r)
    BY <1>3, <2>1 DEF LaneGetsPage
  <2>4. Trail(w', X, K) /\ Calm(m, w')
    BY <2>2, <2>3, NextPageTrail
  <2> QED BY <2>2, <2>4 DEF Calm
<1>4. CASE ~w.rooms[r].rewind
  <2>1. Between(w, X, K, r)
    <3>1. \A e \in w.lanes[r].page : w.rooms[r].cursor < e /\ e <= w.lanes[r].resume /\ e \in K
      BY <1>1 DEF TrailOf, PageSound, OnPage
    <3>2. w.stopped \/ \A e \in Events : RoomOf[e] = r /\ e <= w.lanes[r].resume => Held(w, X, r, e) \/ e \in w.lanes[r].page
      BY <1>1 DEF TrailOf, PageSafe, OnPage, AtEvent
    <3> QED BY <1>2, <3>1, <3>2 DEF Between
  <2>2. w' = NextEvent(w, r)
    BY <1>4 DEF LaneGetsPage
  <2> QED BY <2>1, <2>2, NextEventTrail
<1> QED BY <1>3, <1>4

\* The lane moves on with the event it has in hand.
LEMMA LaneMovesTrail ==
    ASSUME NEW m, NEW X, NEW K, Trail(m, X, K), NEW r \in Rooms, m.lanes[r].pc \in AtEvent, NEW l \in LaneRecords, l.pc \in AtEvent,
           l.event = m.lanes[r].event, l.page = m.lanes[r].page, l.resume = m.lanes[r].resume, NEW n, n = WithLane(m, r, l)
    PROVE  Trail(n, X, K) /\ n.lanes[r] = l /\ \A s \in Rooms \ {r} : n.lanes[s] = m.lanes[s]
<1>1. MemOK(m) /\ m \in Memory /\ TrailOf(m, X, K, r) /\ (\A s \in Rooms \ {r} : TrailOf(m, X, K, s)) /\ HasProgress(m, r)
  BY InHand DEF Trail, MemOK, AtEvent
<1>2. WorksOn(m, n, r) /\ n.lanes[r] = l /\ n.rooms[r] = m.rooms[r] /\ DeferredOf(n, r) = DeferredOf(m, r)
  BY <1>1, SetLane
<1>3. MemOK(n)
  <2>1. l.event # 0 /\ RoomOf[l.event] = r /\ \A e \in l.page : RoomOf[e] = r
    BY <1>1, InHand DEF MemOK, Booked
  <2>2. MemOK(WithLane(m, r, l))
    BY <1>1, <2>1, LaneSet
  <2> QED BY <2>2
<1>4. n.stopped = m.stopped /\ \A s \in Rooms \ {r} : n.lanes[s] = m.lanes[s]
  BY <1>2 DEF WorksOn, SameRoom
<1>5. TrailOf(n, X, K, r)
  BY <1>1, <1>2, <1>4 DEF TrailOf, PageSound, CursorSafe, PageSafe, Held, OnPage
<1> QED BY <1>1, <1>2, <1>3, <1>4, <1>5, TrailOn

-----------------------------------------------------------------------------
(* From the check of an event to its callback.                             *)

\* A lane that found its event no longer pending found it settled (S).
Sure(m, S) == \A r \in Rooms : m.lanes[r].pc = "checked" /\ ~m.lanes[r].pending => m.lanes[r].event \in S

\* No callback starts.
Quiet(m, n) == \A r \in Rooms : ~(m.lanes[r].pc = "checked" /\ n.lanes[r].pc = "callback")

LEMMA CalmIsQuiet ==
    ASSUME NEW m, NEW n, Calm(m, n), NEW S, Sure(m, S)
    PROVE  Quiet(m, n) /\ Sure(n, S)
BY DEF Calm, Quiet, Sure, Late

LEMMA LaneChecksTrail ==
    ASSUME NEW X, NEW K, Trail(w, X, K), NEW r \in Rooms, LaneChecks(r), NEW S, Sure(w, S),
           \A e \in K : state[e] = "pending" \/ e \in S
    PROVE  Trail(w', X, K) /\ Quiet(w, w') /\ Sure(w', S)
<1>0. PICK l : l = [w.lanes[r] EXCEPT !.pc = "checked", !.pending = state[w.lanes[r].event] = "pending"]
  OBVIOUS
<1>1. w.lanes[r] \in LaneRecords /\ w.lanes[r].pc = "check" /\ TrailOf(w, X, K, r)
  BY RoomFields DEF Trail, MemOK, LaneChecks
<1>2. /\ l \in LaneRecords /\ l.pc = "checked" /\ l.pending = (state[w.lanes[r].event] = "pending")
      /\ l.event = w.lanes[r].event /\ l.page = w.lanes[r].page /\ l.resume = w.lanes[r].resume
  <2>1. (state[w.lanes[r].event] = "pending") \in BOOLEAN /\ "checked" \in LanePCs
    BY DEF LanePCs
  <2> QED BY <1>0, <1>1, <2>1 DEF LaneRecords
<1>3. w' = WithLane(w, r, l)
  BY <1>0 DEF LaneChecks, WithLane
<1>4. Trail(w', X, K) /\ w'.lanes[r] = l /\ \A s \in Rooms \ {r} : w'.lanes[s] = w.lanes[s]
  BY <1>1, <1>2, <1>3, LaneMovesTrail DEF AtEvent
<1>5. w.lanes[r].event \in K
  BY <1>1 DEF TrailOf, PageSound, AtEvent
<1>6. ~l.pending => l.event \in S
  BY <1>2, <1>5
<1>7. Sure(w', S)
  BY <1>4, <1>6 DEF Sure
<1>8. Quiet(w, w')
  BY <1>2, <1>4 DEF Quiet
<1> QED BY <1>4, <1>7, <1>8

LanePC(m, r, pc) == [m EXCEPT !.lanes[r].pc = pc]
Admitted(m, r, e) == [m EXCEPT !.rooms[r].admitted = e]

\* A lane at its event that changes only where it is.
LEMMA LanePCTrail ==
    ASSUME NEW m, NEW X, NEW K, Trail(m, X, K), NEW r \in Rooms, m.lanes[r].pc \in AtEvent, NEW pc \in AtEvent, NEW n,
           n = LanePC(m, r, pc)
    PROVE  /\ Trail(n, X, K) /\ n.lanes[r].pc = pc /\ n.lanes[r].event = m.lanes[r].event
           /\ \A s \in Rooms \ {r} : n.lanes[s] = m.lanes[s]
<1>0. PICK l : l = [m.lanes[r] EXCEPT !.pc = pc]
  OBVIOUS
<1>1. m.lanes[r] \in LaneRecords /\ pc \in LanePCs
  BY RoomFields DEF Trail, MemOK, AtEvent, LanePCs
<1>2. l \in LaneRecords /\ l.pc = pc /\ l.event = m.lanes[r].event /\ l.page = m.lanes[r].page /\ l.resume = m.lanes[r].resume
  BY <1>0, <1>1 DEF LaneRecords
<1>3. n = WithLane(m, r, l)
  BY <1>0 DEF WithLane, LanePC
<1> QED BY <1>2, <1>3, LaneMovesTrail

LEMMA AdmittedTrail ==
    ASSUME NEW m, NEW X, NEW K, Trail(m, X, K), NEW r \in Rooms, HasProgress(m, r), NEW e \in Orders, NEW n,
           n = Admitted(m, r, e)
    PROVE  Trail(n, X, K) /\ n.lanes = m.lanes
<1> DEFINE p == [m.rooms[r] EXCEPT !.admitted = e]
<1>1. MemOK(m) /\ m \in Memory /\ m.rooms[r] \in ProgressRecords
  BY RoomFields DEF Trail, MemOK
<1>2. p \in ProgressRecords /\ p.cursor = m.rooms[r].cursor /\ p.rewind = m.rooms[r].rewind
  BY <1>1 DEF ProgressRecords
<1>3. n = WithRoom(m, r, p)
  BY DEF WithRoom, Admitted
<1> HIDE DEF p
<1>4. WorksOn(m, n, r) /\ n.rooms[r] = p /\ n.lanes[r] = m.lanes[r] /\ DeferredOf(n, r) = DeferredOf(m, r)
  BY <1>1, <1>2, <1>3, SetRoom
<1>5. MemOK(n) /\ n.lanes = m.lanes
  BY <1>1, AdmittedSet DEF Admitted
<1> QED BY <1>2, <1>4, <1>5, TrailRoom

\* The lane decides about its event; a callback starts only in the last way.
LEMMA LaneAdmitsTrail ==
    ASSUME NEW X, NEW K, Trail(w, X, K), NEW r \in Rooms, LaneAdmits(r), NEW S, Sure(w, S), S \subseteq X
    PROVE  /\ Trail(w', X, K) /\ Sure(w', S)
           /\ \/ Quiet(w, w')
              \/ /\ Fresh(r) /\ w'.lanes[r].event = w.lanes[r].event
                 /\ \A s \in Rooms \ {r} : w'.lanes[s] = w.lanes[s]
<1>0. PICK e, b, a, c, d : /\ e = w.lanes[r].event /\ b = Admitted(w, r, e)
                           /\ a = ApplyRewind(w, r) /\ c = Release(w, e) /\ d = ScheduleRoomRetry(w, r, e)
  OBVIOUS
<1>1. MemOK(w) /\ HasProgress(w, r) /\ e \in Events /\ RoomOf[e] = r /\ e \in Orders /\ w.lanes[r].pc \in AtEvent
      /\ w.lanes[r].pc = "checked" /\ Loose(w, X, K, r)
  BY <1>0, InHand, TrailIsLoose DEF Trail, LaneAdmits, AtEvent
<1>2. \/ w' = EndPass(a, r, TRUE)
      \/ w' = Passed(c, r, e) /\ ~w.lanes[r].pending
      \/ w' = EndPass(d, r, FALSE)
      \/ w' = Deferring(b, r, e)
      \/ w' = LanePC(b, r, "callback") /\ Fresh(r)
  BY <1>0 DEF LaneAdmits, LanePC, Admitted
<1>3. CASE w' = EndPass(a, r, TRUE)
  <2>1. Loose(a, X, K, r) /\ a.lanes = w.lanes
    BY <1>0, <1>1, ApplyRewindLoose
  <2>2. Trail(w', X, K) /\ Calm(a, w')
    BY <1>3, <2>1, EndPassTrail
  <2>3. Calm(w, w')
    BY <2>1, <2>2 DEF Calm
  <2> QED BY <2>2, <2>3, CalmIsQuiet
<1>4. CASE w' = Passed(c, r, e) /\ ~w.lanes[r].pending
  <2>1. e \in X
    BY <1>0, <1>1, <1>4 DEF Sure
  <2>2. Trail(c, X, K) /\ c.lanes[r] = w.lanes[r] /\ Calm(w, c)
    BY <1>0, <1>1, <2>1, ReleaseTrail
  <2>3. Held(c, X, r, e)
    BY <2>1 DEF Held
  <2>4. Trail(w', X, K) /\ Calm(c, w')
    BY <1>0, <1>1, <1>4, <2>2, <2>3, PassedTrail
  <2>5. Calm(w, w')
    BY <2>2, <2>4, CalmTwice
  <2> QED BY <2>4, <2>5, CalmIsQuiet
<1>5. CASE w' = EndPass(d, r, FALSE)
  <2>1. MemOK(d)
    BY <1>0, <1>1, ScheduleRoomRetryOK
  <2>2. d.rooms = w.rooms /\ d.lanes = w.lanes /\ d.deferred = w.deferred /\ d.stopped = w.stopped
    BY <1>0, <1>1, ScheduleRoomRetryLeaves
  <2>3. Loose(d, X, K, r)
    BY <1>1, <2>1, <2>2, LoosePlaces
  <2>4. Trail(w', X, K) /\ Calm(d, w')
    BY <1>5, <2>3, EndPassTrail
  <2>5. Calm(w, w')
    BY <2>2, <2>4 DEF Calm
  <2> QED BY <2>4, <2>5, CalmIsQuiet
<1>6. Trail(b, X, K) /\ b.lanes = w.lanes
  BY <1>0, <1>1, AdmittedTrail
<1>7. CASE w' = Deferring(b, r, e)
  <2>1. Trail(w', X, K) /\ Calm(b, w')
    BY <1>0, <1>1, <1>6, <1>7, DeferringTrail
  <2>2. Calm(w, w')
    BY <1>6, <2>1 DEF Calm
  <2> QED BY <2>1, <2>2, CalmIsQuiet
<1>8. CASE w' = LanePC(b, r, "callback") /\ Fresh(r)
  <2>1. Trail(w', X, K) /\ w'.lanes[r].pc = "callback" /\ w'.lanes[r].event = b.lanes[r].event /\ \A s \in Rooms \ {r} : w'.lanes[s] = b.lanes[s]
    BY <1>1, <1>6, <1>8, LanePCTrail DEF AtEvent
  <2>2. Sure(w', S)
    BY <1>6, <2>1 DEF Sure
  <2> QED BY <1>6, <1>8, <2>1, <2>2
<1> QED BY <1>2, <1>3, <1>4, <1>5, <1>7, <1>8

-----------------------------------------------------------------------------
(* The rest of a lane's steps, and the end and the beginning of a worker.  *)

LEMMA CallbackSettlesTrail ==
    ASSUME NEW X, NEW K, Trail(w, X, K), NEW r \in Rooms, CallbackSettles(r), NEW S, Sure(w, S)
    PROVE  Trail(w', X, K) /\ Quiet(w, w') /\ Sure(w', S)
<1>0. PICK e, n : e = w.lanes[r].event /\ n = Release(w, e)
  OBVIOUS
<1>1. e \in Events /\ RoomOf[e] = r /\ w.lanes[r].pc = "callback" /\ w.lanes[r].pc \in AtEvent
  BY <1>0, InHand DEF Trail, CallbackSettles, AtEvent
<1>2. Trail(n, X, K) /\ n.lanes[r] = w.lanes[r] /\ Calm(w, n)
  BY <1>0, <1>1, ReleaseTrail
<1>3. n.lanes = w.lanes
  BY <1>0, ReleaseLanes DEF Trail, MemOK
<1>4. w' = LanePC(n, r, "settle")
  BY <1>0 DEF CallbackSettles, LanePC
<1>5. Trail(w', X, K) /\ w'.lanes[r].pc = "settle" /\ \A s \in Rooms \ {r} : w'.lanes[s] = n.lanes[s]
  BY <1>1, <1>2, <1>4, LanePCTrail DEF AtEvent
<1>6. Quiet(w, w') /\ Sure(w', S)
  BY <1>1, <1>3, <1>5 DEF Quiet, Sure
<1> QED BY <1>5, <1>6

LEMMA CallbackDefersTrail ==
    ASSUME NEW X, NEW K, Trail(w, X, K), NEW r \in Rooms, CallbackDefers(r)
    PROVE  Trail(w', X, K) /\ Calm(w, w')
<1>1. w.lanes[r].pc \in AtEvent /\ w' = Deferring(w, r, w.lanes[r].event)
  BY DEF CallbackDefers, AtEvent
<1> QED BY <1>1, DeferringTrail

LEMMA LaneSettlesTrail ==
    ASSUME NEW X, NEW K, Trail(w, X, K), NEW r \in Rooms, LaneSettles(r), w.lanes[r].event \in X
    PROVE  Trail(w', X, K) /\ Calm(w, w')
<1>0. PICK e, n : e = w.lanes[r].event /\ n = RecordProgress(w, r, e)
  OBVIOUS
<1>1. MemOK(w) /\ w.lanes[r].pc \in AtEvent /\ w' = Passed(n, r, e)
  BY <1>0 DEF Trail, LaneSettles, AtEvent
<1>2. n.rooms = w.rooms /\ n.lanes = w.lanes /\ n.deferred = w.deferred /\ n.stopped = w.stopped
  BY <1>0, <1>1, RecordProgressLeaves
<1>3. MemOK(n)
  BY <1>0, <1>1, RecordProgressOK
<1>4. Trail(n, X, K)
  BY <1>2, <1>3, TrailPlaces DEF Trail
<1>5. Held(n, X, r, e)
  BY <1>0 DEF Held
<1>6. Trail(w', X, K) /\ Calm(n, w')
  BY <1>0, <1>1, <1>2, <1>4, <1>5, PassedTrail
<1> QED BY <1>2, <1>6 DEF Calm

LEMMA LaneFailsTrail ==
    ASSUME NEW X, NEW K, Trail(w, X, K), NEW r \in Rooms, LaneFails(r)
    PROVE  Trail(w', X, K) /\ Calm(w, w')
<1>1. w.lanes[r].pc # "off" /\ w' = LaneRaises(w, r, w.lanes[r].event)
  BY DEF LaneFails
<1> QED BY <1>1, LaneRaisesTrail

LEMMA TurnClaimsTrail ==
    ASSUME NEW X, NEW K, Trail(w, X, K), NEW r \in Rooms, TurnClaims(r), NEW S, Sure(w, S)
    PROVE  Trail(w', X, K) /\ Quiet(w, w') /\ Sure(w', S)
<1>0. PICK l : l = [w.lanes[r] EXCEPT !.handed = TRUE]
  OBVIOUS
<1>1. w.lanes[r] \in LaneRecords /\ w.lanes[r].pc = "callback" /\ w.lanes[r].pc \in AtEvent
  BY RoomFields DEF Trail, MemOK, TurnClaims, AtEvent
<1>2. l \in LaneRecords /\ l.pc = "callback" /\ l.event = w.lanes[r].event /\ l.page = w.lanes[r].page /\ l.resume = w.lanes[r].resume
  BY <1>0, <1>1 DEF LaneRecords
<1>3. w' = WithLane(w, r, l)
  BY <1>0 DEF TurnClaims, WithLane
<1>4. Trail(w', X, K) /\ w'.lanes[r] = l /\ \A s \in Rooms \ {r} : w'.lanes[s] = w.lanes[s]
  BY <1>1, <1>2, <1>3, LaneMovesTrail
<1>5. Quiet(w, w') /\ Sure(w', S)
  BY <1>1, <1>2, <1>4 DEF Quiet, Sure
<1> QED BY <1>4, <1>5

LEMMA LaneOffTrail ==
    ASSUME NEW m, NEW X, NEW K, Trail(m, X, K), NEW r \in Rooms, NEW n, n = WithLane(m, r, NoLane)
    PROVE  Trail(n, X, K) /\ Calm(m, n) /\ n.rooms = m.rooms /\ n.lanes[r] = NoLane /\ n.stopped = m.stopped
<1>1. MemOK(m) /\ m \in Memory /\ TrailOf(m, X, K, r) /\ \A s \in Rooms \ {r} : TrailOf(m, X, K, s)
  BY DEF Trail, MemOK
<1>2. MemOK(n) /\ n.rooms = m.rooms
  BY <1>1, LaneOffOK
<1>3. WorksOn(m, n, r) /\ n.lanes[r] = NoLane /\ DeferredOf(n, r) = DeferredOf(m, r)
  BY <1>1, NoLaneFacts, SetLane
<1>4. n.stopped = m.stopped
  BY <1>3 DEF WorksOn
<1>5. TrailOf(n, X, K, r) /\ n.lanes[r].pc \notin Late
  BY <1>1, <1>2, <1>3, <1>4, NoLaneFacts DEF TrailOf, PageSound, CursorSafe, PageSafe, Held, AtEvent, OnPage, Late
<1> QED BY <1>1, <1>2, <1>3, <1>4, <1>5, TrailOn, CalmOn

LEMMA LaneCancelledTrail ==
    ASSUME NEW X, NEW K, Trail(w, X, K), NEW r \in Rooms, LaneCancelled(r)
    PROVE  Trail(w', X, K) /\ Calm(w, w')
<1>1. w' = WithLane(w, r, NoLane)
  BY DEF LaneCancelled, WithLane
<1> QED BY <1>1, LaneOffTrail

LEMMA ReadyTrail ==
    ASSUME NEW m, NEW X, NEW K, Trail(m, X, K), NEW r \in Rooms, HasProgress(m, r), NEW n, n = [m EXCEPT !.ready = @ \cup {r}]
    PROVE  Trail(n, X, K) /\ Calm(m, n) /\ n.lanes = m.lanes /\ n.rooms = m.rooms
<1>0. MemOK(m) /\ m \in Memory
  BY DEF Trail, MemOK
<1>1. /\ n \in Memory /\ n.rooms = m.rooms /\ n.lanes = m.lanes /\ n.retries = m.retries
      /\ n.ready = m.ready \cup {r} /\ n.deferred = m.deferred /\ n.stopped = m.stopped
  BY <1>0 DEF Memory
<1>2. \A s \in Rooms : DeferredOf(n, s) = DeferredOf(m, s)
  BY <1>1 DEF DeferredOf, Deferred
<1>3. WorksOn(m, n, r)
  BY <1>1, <1>2 DEF SameRoom, WorksOn
<1>4. Booked(n, r)
  BY <1>0, <1>1, <1>2 DEF MemOK, Booked, HasProgress
<1>5. MemOK(n)
  BY <1>0, <1>3, <1>4, BookedOn
<1> QED BY <1>1, <1>2, <1>3, <1>5, TrailRoom

\* A room without deferrals, lane or cooldown is forgotten.
LEMMA ForgottenTrail ==
    ASSUME NEW m, NEW X, NEW K, Trail(m, X, K), NEW r \in Rooms, m.lanes[r].pc = "off", r \notin m.ready, m.retries[r].at = "none",
           m.rooms[r].deferredCount = 0, NEW n, n = WithRoom(m, r, NoProgress)
    PROVE  Trail(n, X, K) /\ Calm(m, n)
<1>1. MemOK(m) /\ m \in Memory /\ Booked(m, r) /\ TrailOf(m, X, K, r) /\ \A s \in Rooms \ {r} : TrailOf(m, X, K, s)
  BY DEF Trail, MemOK
<1>2. /\ WorksOn(m, n, r) /\ n.rooms[r] = NoProgress /\ n.lanes[r] = m.lanes[r]
      /\ n.retries[r] = m.retries[r] /\ n.ready = m.ready /\ DeferredOf(n, r) = DeferredOf(m, r)
  BY <1>1, NoProgressFacts, SetRoom
<1>3. Booked(n, r)
  BY <1>1, <1>2, NoProgressFacts DEF Booked, AtEvent
<1>4. MemOK(n)
  BY <1>1, <1>2, <1>3, BookedOn
<1>5. \A e \in Events : ~(e <= -1)
  BY PendingAssumption DEF Events
<1>6. CursorSafe(n, X, r)
  BY <1>2, <1>5, NoProgressFacts DEF CursorSafe
<1>7. PageSound(n, K, r) /\ PageSafe(n, X, r)
  BY <1>1, <1>2 DEF TrailOf, PageSound, PageSafe, OnPage, AtEvent
<1>8. TrailOf(n, X, K, r)
  BY <1>6, <1>7 DEF TrailOf
<1> QED BY <1>1, <1>2, <1>4, <1>8, TrailOn, CalmOn

LEMMA LaneFinishedTrail ==
    ASSUME NEW X, NEW K, Trail(w, X, K), NEW r \in Rooms, LaneFinished(r)
    PROVE  Trail(w', X, K) /\ Calm(w, w')
<1> DEFINE lane == w.lanes[r]
           closed == WithLane(w, r, NoLane)
           clear == ~lane.failed /\ ~lane.more /\ w.rooms[r].deferredCount = 0
           progressed == IF clear THEN RecordProgress(closed, r, MaxEvent) ELSE closed
           queued == IF lane.more THEN [progressed EXCEPT !.ready = @ \cup {r}] ELSE progressed
           gone == WithRoom(queued, r, NoProgress)
           next == IF r \in queued.ready THEN StartLanes(queued, {r})
                   ELSE IF queued.retries[r].at = "none" /\ queued.rooms[r].deferredCount = 0 THEN gone ELSE queued
<1>1. w' = IF w.stopped THEN closed ELSE ScheduleProbe(next)
  BY DEF LaneFinished, WithLane, WithRoom
<1>2. Trail(closed, X, K) /\ Calm(w, closed) /\ closed.rooms = w.rooms /\ closed.lanes[r] = NoLane
  BY LaneOffTrail
<1>3. HasProgress(w, r)
  BY InHand DEF LaneFinished, Trail
<1> HIDE DEF closed, clear
<1>4. Trail(progressed, X, K) /\ Calm(closed, progressed) /\ progressed.rooms = w.rooms /\ progressed.lanes[r] = NoLane
  <2>1. PICK p : p = RecordProgress(closed, r, MaxEvent)
    OBVIOUS
  <2>2. p.rooms = closed.rooms /\ p.lanes = closed.lanes /\ p.deferred = closed.deferred /\ p.stopped = closed.stopped
    BY <1>2, <2>1, RecordProgressLeaves DEF Trail
  <2>3. MemOK(p)
    BY <1>2, <2>1, RecordProgressOK DEF Trail
  <2>4. Trail(p, X, K)
    BY <1>2, <2>2, <2>3, TrailPlaces DEF Trail
  <2>5. Calm(closed, p) /\ Calm(closed, closed)
    BY <2>2 DEF Calm
  <2> QED BY <1>2, <2>1, <2>2, <2>4, <2>5
<1> HIDE DEF progressed
<1>5. Trail(queued, X, K) /\ Calm(progressed, queued) /\ queued.lanes[r] = NoLane
  <2>1. HasProgress(progressed, r)
    BY <1>3, <1>4 DEF HasProgress
  <2>2. Calm(progressed, progressed)
    BY DEF Calm
  <2> QED BY <1>4, <2>1, <2>2, ReadyTrail
<1> HIDE DEF queued
<1>6. Trail(StartLanes(queued, {r}), X, K) /\ Calm(queued, StartLanes(queued, {r}))
  BY <1>5, StartLanesTrail
<1>7. r \notin queued.ready /\ queued.retries[r].at = "none" /\ queued.rooms[r].deferredCount = 0
         => Trail(gone, X, K) /\ Calm(queued, gone)
  BY <1>5, NoLaneFacts, ForgottenTrail
<1>8. Trail(next, X, K) /\ Calm(queued, next)
  <2>1. Calm(queued, queued)
    BY DEF Calm
  <2> HIDE DEF gone
  <2> QED BY <1>5, <1>6, <1>7, <2>1
<1> HIDE DEF next
<1>9. Trail(ScheduleProbe(next), X, K) /\ Calm(next, ScheduleProbe(next))
  BY <1>8, ScheduleProbeTrail
<1>10. Calm(w, ScheduleProbe(next))
  BY <1>2, <1>4, <1>5, <1>8, <1>9, CalmTwice
<1> QED BY <1>1, <1>2, <1>9, <1>10

\* A worker that has just started has passed nothing.
LEMMA FreshTrail ==
    ASSUME NEW n, MemOK(n), \A r \in Rooms : n.lanes[r] = NoLane /\ n.rooms[r].cursor \in {-1, 0}, NEW X, NEW K
    PROVE  Trail(n, X, K) /\ \A m : Calm(m, n)
<1>1. \A e \in Events : ~(e <= 0) /\ ~(e <= -1)
  BY PendingAssumption DEF Events
<1>2. \A r \in Rooms : CursorSafe(n, X, r)
  BY <1>1 DEF CursorSafe
<1>3. \A r \in Rooms : n.lanes[r].pc = "off" /\ n.lanes[r].event = 0
  BY NoLaneFacts
<1>4. \A r \in Rooms : PageSound(n, K, r) /\ PageSafe(n, X, r)
  BY <1>3 DEF PageSound, PageSafe, OnPage, AtEvent
<1>5. \A r \in Rooms : TrailOf(n, X, K, r)
  BY <1>2, <1>4 DEF TrailOf
<1> QED BY <1>3, <1>5 DEF Trail, Calm, Late

LEMMA FreshWorkerTrail ==
    ASSUME NEW X, NEW K
    PROVE  Trail(FreshWorker, X, K) /\ \A m : Calm(m, FreshWorker)
<1>1. \A r \in Rooms : FreshWorker.lanes[r] = NoLane /\ FreshWorker.rooms[r] = NoProgress
  BY DEF FreshWorker
<1>2. \A r \in Rooms : FreshWorker.lanes[r] = NoLane /\ FreshWorker.rooms[r].cursor \in {-1, 0}
  BY <1>1, NoProgressFacts
<1> QED BY <1>2, FreshWorkerOK, FreshTrail

LEMMA RestartTrail ==
    ASSUME NEW Y, NEW L, Trail(w, Y, L), Restart, NEW X, NEW K
    PROVE  Trail(w', X, K) /\ Calm(w, w')
<1>1. MemOK(w')
  BY RestartOK DEF Trail
<1>2. ASSUME NEW r \in Rooms PROVE w'.lanes[r] = NoLane /\ w'.rooms[r].cursor \in {-1, 0}
  <2>1. w'.lanes[r] = NoLane
    BY DEF Restart, FreshWorker
  <2>2. w'.rooms[r] = IF w.rooms[r].deferredCount = 0 THEN NoProgress
                      ELSE [NoProgress EXCEPT !.cursor = 0, !.deferredCount = w.rooms[r].deferredCount]
    BY DEF Restart, FreshWorker
  <2>3. w'.rooms[r].cursor \in {-1, 0}
    BY <2>2 DEF NoProgress
  <2> QED BY <2>1, <2>3
<1>3. Trail(w', X, K) /\ \A m : Calm(m, w')
  BY <1>1, <1>2, FreshTrail
<1> QED BY <1>3

LEMMA ShutdownTrail ==
    ASSUME NEW X, NEW K, Trail(w, X, K), BeginShutdown
    PROVE  Trail(w', X, K) /\ Calm(w, w')
<1>1. MemOK(w') /\ w \in Memory
  BY ShutdownOK DEF Trail, MemOK
<1>2. w'.stopped /\ w'.lanes = w.lanes /\ w'.rooms = w.rooms
  BY <1>1 DEF BeginShutdown, Memory
<1>3. \A r \in Rooms : TrailOf(w', X, K, r)
  BY <1>2 DEF Trail, TrailOf, PageSound
<1> QED BY <1>1, <1>2, <1>3 DEF Trail, Calm

-----------------------------------------------------------------------------
(* The turns.                                                              *)

\* What lies before something that has been admitted: receipt orders no later
\* batch can fill.
Past == {e \in Events : \E b \in 1..(nextSequence - 1) : \E x \in Batches[b].admits : e <= x}

\* Events that a room may leave behind: settled, never to come, withheld by an
\* approval, or with a turn that has ended and still has to say so.
Aside == {e \in Events : \/ state[e] = "settled" \/ (state[e] = "none" /\ e \in Past)
                         \/ paused[e] \/ late[e] \/ owner[e] = "ignoring"}
Rowed == {e \in Events : state[e] # "none"}
Settled == {e \in Events : state[e] = "settled"}

\* A source whose answer is enqueued is settled.
AnsweredIsSettled == \A e \in Events : owner[e] = "answered" => state[e] = "settled"

\* What is pending came with a batch of the stream.
PendingIsStreamed == \A e \in Events : state[e] = "pending" => \E b \in 1..(nextSequence - 1) : e \in Batches[b].admits

OrderInv ==
    /\ Trail(w, Aside, Rowed) /\ Sure(w, Settled)
    /\ AnsweredIsSettled /\ PendingIsStreamed /\ InReceiptOrder(Batches)

\* How a turn may change.
TurnMoves(d) ==
    /\ paused[d] => paused'[d] \/ late'[d] \/ Crash
    /\ late[d] => late'[d] \/ Crash \/ LateHandoff(d)
    /\ owner[d] = "ignoring" => owner'[d] = "ignoring" \/ state'[d] = "settled" \/ Crash \/ SettleIgnoredFails(d)
    /\ owner'[d] = "answered" => owner[d] = "answered" \/ state'[d] = "settled"

LEMMA TurnSteps ==
    ASSUME JournalTypes, TurnTypes, [Next]_vars, NEW d \in Events
    PROVE  TurnMoves(d)
<1> USE DEF TurnMoves, TurnTypes, Owners, JournalTypes
<1>1. CASE AdmitBatch \/ AckBatch \/ IngestFails
  BY <1>1 DEF AdmitBatch, AckBatch, IngestFails, durable, turns
<1>2. CASE PumpWakes \/ PumpReads \/ PumpFails \/ RetryTimer \/ DeferralScan
  BY <1>2 DEF PumpWakes, PumpReads, PumpFails, RetryTimer, DeferralScan, durable, turns
<1>3. CASE DrainStarts \/ DrainReads \/ BeginShutdown \/ Restart
  BY <1>3 DEF DrainStarts, DrainReads, BeginShutdown, Restart, durable, turns
<1>4. CASE Crash
  BY <1>4 DEF Crash
<1>5. ASSUME NEW r \in Rooms, LaneStep(r)
      PROVE  TurnMoves(d)
  BY <1>5 DEF LaneStep, LaneReads, LaneGetsPage, LaneChecks, LaneAdmits, CallbackSettles, CallbackDefers,
              LaneSettles, LaneFinished, LaneCancelled, durable, turns
<1>6. ASSUME NEW r \in Rooms, LaneFails(r) \/ CooldownEnds(r) \/ RoomRetryFinished(r) \/ DrainRoom(r)
      PROVE  TurnMoves(d)
  BY <1>6 DEF LaneFails, CooldownEnds, RoomRetryFinished, DrainRoom, durable, turns
<1>7. ASSUME NEW r \in Rooms, TurnClaims(r)
      PROVE  TurnMoves(d)
  BY <1>7 DEF TurnClaims, durable
<1>8. ASSUME NEW e \in Events, TurnEnds(e)
      PROVE  TurnMoves(d)
  BY <1>8 DEF TurnEnds, TurnAnswers, TurnIgnores, durable
<1>9. ASSUME NEW e \in Events, TurnCleanup(e)
      PROVE  TurnMoves(d)
  <2>1. CASE ReleaseDelivered(e) \/ DropClaim(e)
    BY <2>1 DEF ReleaseDelivered, DropClaim, durable
  <2>2. CASE SettleIgnored(e)
    BY <2>2 DEF SettleIgnored
  <2>3. CASE LateHandoff(e)
    <3>1. d = e \/ late'[d] = late[d]
      BY <2>3 DEF LateHandoff
    <3>2. paused' = paused /\ owner' = owner
      BY <2>3 DEF LateHandoff, durable
    <3> QED BY <2>3, <3>1, <3>2
  <2>4. CASE ApprovalDecides(e)
    BY <2>4 DEF ApprovalDecides
  <2> QED BY <1>9, <2>1, <2>2, <2>3, <2>4 DEF TurnCleanup
<1>10. ASSUME NEW e \in Events, TurnRetries(e) \/ TurnPauses(e) \/ TurnVanishes(e)
       PROVE  TurnMoves(d)
  BY <1>10 DEF TurnRetries, TurnPauses, TurnVanishes, durable
<1>11. ASSUME NEW e \in Events, SettleIgnoredFails(e)
       PROVE  TurnMoves(d)
  <2>1. (d = e \/ owner'[d] = owner[d]) /\ owner'[e] = "none" /\ paused' = paused /\ late' = late
    BY <1>11 DEF SettleIgnoredFails, durable
  <2> QED BY <1>11, <2>1
<1>12. CASE UNCHANGED vars
  BY <1>12 DEF vars, durable, turns
<1> QED BY <1>1, <1>2, <1>3, <1>4, <1>5, <1>6, <1>7, <1>8, <1>9, <1>10, <1>11, <1>12 DEF Next

-----------------------------------------------------------------------------
(* The rows.                                                               *)

\* How the row of an event may change.
RowMoves(d) ==
    /\ state[d] = "settled" => state'[d] = "settled"
    /\ state[d] # "none" => state'[d] # "none"
    /\ state[d] = "none" /\ d \in Past => state'[d] # "pending" /\ d \in Past'
    /\ state'[d] = "pending" => state[d] = "pending" \/ \E b \in 1..(nextSequence' - 1) : d \in Batches'[b].admits

\* A batch admits nothing that lies before what was admitted.
LEMMA AdmitsLater ==
    ASSUME JournalInv, InReceiptOrder(Batches), nextSequence <= Len(Batches),
           NEW e \in Batches[nextSequence].admits, state[e] = "none", e \in Events
    PROVE  e \notin Past
<1> SUFFICES ASSUME NEW i \in 1..(nextSequence - 1), NEW x \in Batches[i].admits, e <= x
             PROVE  FALSE
  BY DEF Past
<1>1. /\ Batches \in Seq(BatchRecords) /\ Len(Batches) \in Nat /\ nextSequence \in Nat /\ nextSequence >= 1
      /\ CommittedIsJournaled
  BY DEF JournalInv, JournalTypes, Loads, Batches
<1>2. DOMAIN Batches = 1..Len(Batches) /\ i \in DOMAIN Batches /\ nextSequence \in DOMAIN Batches /\ i < nextSequence
  BY <1>1
<1>3. (\E k \in 1..i : e \in Batches[k].admits) \/ \A d \in Batches[i].admits : d < e
  BY <1>2 DEF InReceiptOrder
<1>4. ASSUME NEW k \in 1..i, e \in Batches[k].admits PROVE FALSE
  <2>1. k \in 1..(nextSequence - 1)
    BY <1>1
  <2> QED BY <1>1, <1>4, <2>1 DEF CommittedIsJournaled
<1>5. x \in Events
  <2>1. Batches[i] \in BatchRecords
    BY <1>1, <1>2
  <2> QED BY <2>1 DEF BatchRecords
<1>6. x < e
  BY <1>3, <1>4
<1>7. x \in Int /\ e \in Int
  BY <1>5, PendingAssumption DEF Events
<1> QED BY <1>6, <1>7

LEMMA RowSteps ==
    ASSUME JournalInv, InReceiptOrder(Batches), [Next]_vars, NEW d \in Events
    PROVE  RowMoves(d) /\ InReceiptOrder(Batches')
<1>0. /\ load \in Loads /\ state \in [Events -> {"none", "pending", "settled"}]
      /\ Batches \in Seq(BatchRecords) /\ Len(Batches) \in Nat
      /\ nextSequence \in 1..(Len(Batches) + 1) /\ acked \in 0..Len(Batches)
  BY DEF JournalInv, JournalTypes, Loads, Batches
<1>1. Batches' = Batches
  BY <1>0, LoadStays
<1>2. ASSUME nextSequence' = nextSequence, d \in Past
      PROVE  d \in Past'
  BY <1>1, <1>2 DEF Past
<1>3. CASE AdmitBatch
  <2>1. /\ acked < Len(Batches)
        /\ IF nextSequence = acked + 1
           THEN nextSequence' = nextSequence + 1 /\ state' = Applied(Batches[acked + 1])
           ELSE UNCHANGED <<nextSequence, state>>
    BY <1>3 DEF AdmitBatch
  <2>2. CASE nextSequence = acked + 1
    <3>1. Batches[nextSequence] \in BatchRecords /\ nextSequence <= Len(Batches)
      BY <1>0, <2>1, <2>2
    <3>2. state' = Applied(Batches[nextSequence])
      BY <2>1, <2>2
    <3>3. /\ state[d] # "none" => state'[d] # "none"
          /\ state[d] = "settled" => state'[d] = "settled"
      BY <1>0, <3>1, <3>2, AppliedFacts
    <3>4. state'[d] = CASE d \in Batches[nextSequence].admits /\ state[d] = "none" -> "pending"
                        [] d \in Batches[nextSequence].settles /\ state[d] = "pending" -> "settled"
                        [] OTHER -> state[d]
      BY <3>2 DEF Applied
    <3>5. state'[d] = "pending" => state[d] = "pending" \/ (state[d] = "none" /\ d \in Batches[nextSequence].admits)
      BY <3>4
    <3>6. state[d] = "none" /\ d \in Past => state'[d] # "pending"
      BY <3>1, <3>5, AdmitsLater
    <3>7. nextSequence' = nextSequence + 1 /\ nextSequence \in 1..(nextSequence' - 1)
          /\ \A b \in 1..(nextSequence - 1) : b \in 1..(nextSequence' - 1)
      BY <1>0, <2>1, <2>2
    <3>8. d \in Past => d \in Past'
      BY <1>1, <3>7 DEF Past
    <3> QED BY <1>1, <3>3, <3>5, <3>6, <3>7, <3>8 DEF RowMoves
  <2>3. CASE nextSequence # acked + 1
    BY <1>1, <1>2, <2>1, <2>3 DEF RowMoves
  <2> QED BY <1>1, <2>2, <2>3
<1>4. CASE AckBatch \/ Stands
  <2>1. state' = state /\ nextSequence' = nextSequence
    BY <1>4 DEF AckBatch, Stands
  <2> QED BY <1>1, <1>2, <2>1 DEF RowMoves
<1>5. CASE Settles
  <2>1. PICK x : state' = [state EXCEPT ![x] = "settled"]
    BY <1>5 DEF Settles
  <2>2. nextSequence' = nextSequence
    BY <1>5 DEF Settles
  <2>3. state'[d] = state[d] \/ state'[d] = "settled"
    BY <1>0, <2>1
  <2> QED BY <1>1, <1>2, <2>2, <2>3 DEF RowMoves
<1> QED BY <1>1, <1>3, <1>4, <1>5, StepCases

-----------------------------------------------------------------------------
(* What may be left behind.                                                *)

\* What is settled or has a row keeps it, and what may be left behind stays so
\* until its turn hands it back or the process dies.
LEMMA AsideGrows ==
    ASSUME JournalInv, TurnTypes, InReceiptOrder(Batches), [Next]_vars
    PROVE  /\ Settled \subseteq Settled' /\ Rowed \subseteq Rowed'
           /\ \A d \in Aside : d \in Aside' \/ Crash \/ LateHandoff(d) \/ SettleIgnoredFails(d)
<1>0. JournalTypes /\ state' \in [Events -> {"none", "pending", "settled"}]
  BY JournalStep DEF JournalInv, JournalTypes
<1>1. Settled \subseteq Settled' /\ Rowed \subseteq Rowed'
  BY RowSteps DEF RowMoves, Settled, Rowed
<1>2. ASSUME NEW d \in Aside PROVE d \in Aside' \/ Crash \/ LateHandoff(d) \/ SettleIgnoredFails(d)
  <2>1. d \in Events /\ state'[d] \in {"none", "pending", "settled"}
    BY <1>0 DEF Aside
  <2>2. TurnMoves(d) /\ RowMoves(d)
    BY <1>0, <2>1, RowSteps, TurnSteps
  <2>3. \/ state[d] = "settled" \/ (state[d] = "none" /\ d \in Past)
        \/ paused[d] \/ late[d] \/ owner[d] = "ignoring"
    BY DEF Aside
  <2>4. \/ state'[d] = "settled" \/ (state'[d] = "none" /\ d \in Past')
        \/ paused'[d] \/ late'[d] \/ owner'[d] = "ignoring"
        \/ Crash \/ LateHandoff(d) \/ SettleIgnoredFails(d)
    BY <2>1, <2>2, <2>3 DEF TurnMoves, RowMoves
  <2> QED BY <2>1, <2>4 DEF Aside
<1> QED BY <1>1, <1>2

LEMMA RangeGrows ==
    ASSUME NEW a \in Nat, NEW b \in Nat, a <= b
    PROVE  1..(a - 1) \subseteq 1..(b - 1)
OBVIOUS

\* The facts about rows and turns that the worker's trail rests on.
LEMMA OrderFactsStep ==
    ASSUME JournalInv, TurnTypes, InReceiptOrder(Batches), AnsweredIsSettled, PendingIsStreamed, [Next]_vars
    PROVE  AnsweredIsSettled' /\ PendingIsStreamed' /\ InReceiptOrder(Batches)'
<1>0. /\ JournalTypes /\ state' \in [Events -> {"none", "pending", "settled"}] /\ Batches' = Batches
      /\ nextSequence \in Nat /\ nextSequence' \in Nat /\ nextSequence <= nextSequence'
  <2>1. /\ JournalTypes /\ load \in Loads /\ JournalTypes' /\ Len(Batches) \in Nat /\ Len(Batches') \in Nat
    BY JournalStep DEF JournalInv, JournalTypes, Loads, Batches
  <2>2. nextSequence \in Nat /\ nextSequence' \in Nat
    BY <2>1 DEF JournalTypes
  <2>3. nextSequence' = nextSequence \/ nextSequence' = nextSequence + 1
    BY StepCases DEF AdmitBatch, AckBatch, Stands, Settles
  <2> QED BY <2>1, <2>2, <2>3, LoadStays DEF JournalTypes
<1>1. \A d \in Events : TurnMoves(d) /\ RowMoves(d)
  BY <1>0, RowSteps, TurnSteps
<1>2. AnsweredIsSettled'
  BY <1>1 DEF AnsweredIsSettled, TurnMoves, RowMoves
<1>3. ASSUME NEW d \in Events, state'[d] = "pending"
      PROVE  \E b \in 1..(nextSequence' - 1) : d \in Batches'[b].admits
  <2>1. CASE state[d] = "pending"
    <3>0. 1..(nextSequence - 1) \subseteq 1..(nextSequence' - 1)
      <4>1. nextSequence \in Nat /\ nextSequence' \in Nat /\ nextSequence <= nextSequence'
        BY <1>0
      <4> QED BY <4>1, RangeGrows
    <3>1. PICK b \in 1..(nextSequence - 1) : d \in Batches[b].admits
      BY <2>1 DEF PendingIsStreamed
    <3>2. b \in 1..(nextSequence' - 1)
      BY <3>0, <3>1
    <3> QED BY <1>0, <3>1, <3>2
  <2>2. CASE state[d] # "pending"
    BY <1>1, <1>3, <2>2 DEF RowMoves
  <2> QED BY <2>1, <2>2
<1>4. PendingIsStreamed'
  BY <1>3 DEF PendingIsStreamed
<1> QED BY <1>0, <1>2, <1>4

\* Before a row that pages show there are only rows that pages show and events
\* that may be left behind.
LEMMA AsideAccounts ==
    ASSUME JournalTypes, PendingIsStreamed
    PROVE  Accounts(Aside)
<1> SUFFICES ASSUME NEW e \in Events, NEW d \in Events, Eligible(d), e <= d, ~Eligible(e)
             PROVE  e \in Aside
  BY DEF Accounts
<1>1. state[e] \in {"none", "pending", "settled"}
  BY DEF JournalTypes
<1>2. state[e] = "pending" => paused[e]
  BY DEF Eligible
<1>3. state[d] = "pending"
  BY DEF Eligible
<1>4. PICK b \in 1..(nextSequence - 1) : d \in Batches[b].admits
  BY <1>3 DEF PendingIsStreamed
<1>5. e \in Past
  BY <1>4 DEF Past
<1> QED BY <1>1, <1>2, <1>5 DEF Aside

-----------------------------------------------------------------------------
(* Every step keeps the trail.                                             *)

\* The lane of r starts the callback of its event, and no other lane moves.
Starting(r) ==
    /\ LaneAdmits(r) /\ Fresh(r) /\ w'.lanes[r].event = w.lanes[r].event
    /\ \A s \in Rooms \ {r} : w'.lanes[s] = w.lanes[s]

Kept(X, K, S) == Trail(w', X, K) /\ Sure(w', S) /\ (Quiet(w, w') \/ \E r \in Rooms : Starting(r))

LEMMA CalmKept ==
    ASSUME NEW X, NEW K, NEW S, Sure(w, S), Trail(w', X, K), Calm(w, w')
    PROVE  Kept(X, K, S)
BY CalmIsQuiet DEF Kept

LEMMA SamePlaceKept ==
    ASSUME NEW X, NEW K, NEW S, Sure(w, S), Trail(w, X, K), w' = w
    PROVE  Kept(X, K, S)
<1>1. Calm(w, w')
  BY DEF Calm
<1>2. Trail(w', X, K)
  OBVIOUS
<1> QED BY <1>1, <1>2, CalmKept

\* The steps of the pump, the timers and the shutdown.
LEMMA PumpKept ==
    ASSUME NEW X, NEW K, NEW S, Sure(w, S), Trail(w, X, K), BatchSize \in Nat \ {0},
           \/ AckBatch \/ PumpWakes \/ PumpReads \/ PumpFails \/ RetryTimer \/ DeferralScan
           \/ DrainStarts \/ DrainReads \/ BeginShutdown \/ Restart
           \/ \E r \in Rooms : CooldownEnds(r) \/ RoomRetryFinished(r) \/ DrainRoom(r)
    PROVE  Kept(X, K, S)
<1>0. BatchSize \in Nat
  OBVIOUS
<1>1. CASE AckBatch \/ PumpFails \/ RetryTimer \/ DrainStarts
  BY <1>1, PumpOtherTrail, CalmKept
<1>2. CASE PumpWakes
  BY <1>2, PumpWakesTrail, CalmKept
<1>3. CASE PumpReads
  BY <1>0, <1>3, PumpReadsTrail, CalmKept
<1>4. CASE DeferralScan
  BY <1>4, DeferralScanTrail, CalmKept
<1>5. CASE DrainReads
  BY <1>0, <1>5, DrainReadsTrail, CalmKept
<1>6. CASE BeginShutdown
  BY <1>6, ShutdownTrail, CalmKept
<1>7. CASE Restart
  BY <1>7, RestartTrail, CalmKept
<1>8. ASSUME NEW r \in Rooms, CooldownEnds(r) PROVE Kept(X, K, S)
  BY <1>8, CooldownEndsTrail, CalmKept
<1>9. ASSUME NEW r \in Rooms, RoomRetryFinished(r) PROVE Kept(X, K, S)
  BY <1>9, RoomRetryFinishedTrail, CalmKept
<1>10. ASSUME NEW r \in Rooms, DrainRoom(r) PROVE Kept(X, K, S)
  BY <1>10, DrainRoomTrail, CalmKept
<1> QED BY <1>1, <1>2, <1>3, <1>4, <1>5, <1>6, <1>7, <1>8, <1>9, <1>10

\* Rows are known, and what is settled is accounted for.
RowsKnown(K, S) == \A e \in Events : /\ Eligible(e) => e \in K
                                     /\ e \in K => state[e] = "pending" \/ e \in S

\* The steps of a lane.
LEMMA LaneKept ==
    ASSUME NEW X, NEW K, NEW S, Sure(w, S), Trail(w, X, K), BatchSize \in Nat \ {0}, S \subseteq X,
           NEW r \in Rooms, LaneStep(r) \/ LaneFails(r) \/ TurnClaims(r), K \subseteq Events,
           LaneReads(r) \/ LaneChecks(r) => Accounts(X) /\ RowsKnown(K, S),
           LaneSettles(r) => w.lanes[r].event \in X
    PROVE  Kept(X, K, S)
<1>0. BatchSize \in Nat
  OBVIOUS
<1>1. CASE LaneReads(r)
  <2>1. Accounts(X) /\ \A e \in Events : Eligible(e) => e \in K
    BY <1>1 DEF RowsKnown
  <2> QED BY <1>0, <1>1, <2>1, LaneReadsTrail, CalmKept
<1>2. CASE LaneGetsPage(r)
  BY <1>2, LaneGetsPageTrail, CalmKept
<1>3. CASE LaneChecks(r)
  <2>1. \A e \in K : state[e] = "pending" \/ e \in S
    BY <1>3 DEF RowsKnown
  <2>2. Trail(w', X, K) /\ Quiet(w, w') /\ Sure(w', S)
    BY <1>3, <2>1, LaneChecksTrail
  <2> QED BY <2>2 DEF Kept
<1>4. CASE LaneAdmits(r)
  <2>1. /\ Trail(w', X, K) /\ Sure(w', S)
        /\ \/ Quiet(w, w')
           \/ /\ Fresh(r) /\ w'.lanes[r].event = w.lanes[r].event
              /\ \A s \in Rooms \ {r} : w'.lanes[s] = w.lanes[s]
    BY <1>4, LaneAdmitsTrail
  <2>2. Quiet(w, w') \/ Starting(r)
    BY <1>4, <2>1 DEF Starting
  <2> QED BY <2>1, <2>2 DEF Kept
<1>5. CASE CallbackSettles(r)
  <2>1. Trail(w', X, K) /\ Quiet(w, w') /\ Sure(w', S)
    BY <1>5, CallbackSettlesTrail
  <2> QED BY <2>1 DEF Kept
<1>6. CASE CallbackDefers(r)
  BY <1>6, CallbackDefersTrail, CalmKept
<1>7. CASE LaneSettles(r)
  BY <1>7, LaneSettlesTrail, CalmKept
<1>8. CASE LaneFinished(r)
  BY <1>8, LaneFinishedTrail, CalmKept
<1>9. CASE LaneCancelled(r)
  BY <1>9, LaneCancelledTrail, CalmKept
<1>10. CASE LaneFails(r)
  BY <1>10, LaneFailsTrail, CalmKept
<1>11. CASE TurnClaims(r)
  <2>1. Trail(w', X, K) /\ Quiet(w, w') /\ Sure(w', S)
    BY <1>11, TurnClaimsTrail
  <2> QED BY <2>1 DEF Kept
<1> QED BY <1>1, <1>2, <1>3, <1>4, <1>5, <1>6, <1>7, <1>8, <1>9, <1>10, <1>11 DEF LaneStep

\* The steps of a turn.
LEMMA TurnKept ==
    ASSUME NEW X, NEW K, NEW S, Sure(w, S), NEW e \in Events, NEW Y, Y = With(X, e), Trail(w, Y, K),
           TurnEnds(e) \/ TurnCleanup(e) \/ TurnRetries(e) \/ TurnPauses(e) \/ TurnVanishes(e) \/ SettleIgnoredFails(e),
           Trail(w, X, K) \/ LateHandoff(e) \/ SettleIgnoredFails(e),
           ReleaseDelivered(e) \/ TurnIgnores(e) => e \in X
    PROVE  Kept(X, K, S)
<1>0. PICK r : r = RoomOf[e]
  OBVIOUS
<1>1. CASE ReleaseDelivered(e) \/ TurnIgnores(e)
  <2>1. w' = Release(w, e)
    BY <1>1 DEF ReleaseDelivered, TurnIgnores
  <2>2. X = Y
    BY <1>1 DEF With
  <2> QED BY <1>0, <1>1, <2>1, <2>2, ReleaseTrail, CalmKept
<1>2. CASE SettleIgnoredFails(e) \/ LateHandoff(e) \/ TurnRetries(e)
  <2>1. w' = Reclaim(w, e)
    BY <1>2 DEF SettleIgnoredFails, LateHandoff, TurnRetries, RetrySource, Reclaim
  <2> QED BY <1>0, <2>1, ReclaimTrail, CalmKept
<1>3. CASE TurnAnswers(e) \/ SettleIgnored(e) \/ DropClaim(e) \/ ApprovalDecides(e) \/ TurnPauses(e) \/ TurnVanishes(e)
  <2>1. w' = w
    BY <1>3 DEF TurnAnswers, SettleIgnored, DropClaim, ApprovalDecides, TurnPauses, TurnVanishes
  <2>2. CASE Trail(w, X, K)
    BY <2>1, <2>2, SamePlaceKept
  <2>3. CASE LateHandoff(e) \/ SettleIgnoredFails(e)
    BY <1>2, <2>3
  <2> QED BY <2>2, <2>3
<1> QED BY <1>1, <1>2, <1>3 DEF TurnEnds, TurnCleanup

-----------------------------------------------------------------------------
(* The invariant of the order.                                             *)

HandsBack(e) == LateHandoff(e) \/ SettleIgnoredFails(e)

\* One source is handed back at a time.
LEMMA OneHandsBack ==
    ASSUME TurnTypes, NEW d \in Events, NEW e \in Events, HandsBack(d), HandsBack(e)
    PROVE  d = e
<1>1. CASE LateHandoff(d) /\ LateHandoff(e)
  BY <1>1 DEF TurnTypes, LateHandoff
<1>2. CASE SettleIgnoredFails(d) /\ SettleIgnoredFails(e)
  BY <1>2 DEF TurnTypes, SettleIgnoredFails
<1>3. ASSUME NEW a \in Events, NEW b \in Events, LateHandoff(a), SettleIgnoredFails(b) PROVE FALSE
  BY <1>3 DEF TurnTypes, LateHandoff, SettleIgnoredFails
<1> QED BY <1>1, <1>2, <1>3 DEF HandsBack

LEMMA OrderStep ==
    ASSUME JournalInv, WorkerInv, OrderInv, [Next]_vars
    PROVE  OrderInv' /\ (Quiet(w, w') \/ \E r \in Rooms : Starting(r))
<1>0. PICK X, K, S : X = Aside' /\ K = Rowed' /\ S = Settled'
  OBVIOUS
<1>1. /\ JournalTypes /\ TurnTypes /\ InReceiptOrder(Batches) /\ AnsweredIsSettled /\ PendingIsStreamed
      /\ Trail(w, Aside, Rowed) /\ Sure(w, Settled) /\ MemOK(w)
  BY DEF JournalInv, WorkerInv, OrderInv
<1>2. /\ Settled \subseteq S /\ Rowed \subseteq K
      /\ \A d \in Aside : d \in X \/ Crash \/ HandsBack(d)
  BY <1>0, <1>1, AsideGrows DEF HandsBack
<1>3. Sure(w, S)
  BY <1>1, <1>2 DEF Sure
<1>4. S \subseteq X /\ K \subseteq Events
  BY <1>0 DEF Settled, Aside, Rowed
<1>5. BatchSize \in Nat \ {0}
  BY <1>1 DEF JournalTypes, Loads, BatchSize
<1>6. state' \in [Events -> {"none", "pending", "settled"}]
  BY JournalStep DEF JournalInv, JournalTypes
<1>7. Kept(X, K, S)
  <2>1. CASE Crash
    <3>1. w' = FreshWorker
      BY <2>1 DEF Crash
    <3> QED BY <1>3, <3>1, FreshWorkerTrail, CalmKept
  <2>2. ASSUME NEW e \in Events, HandsBack(e), ~Crash PROVE Kept(X, K, S)
    <3>0. PICK Y : Y = With(X, e)
      OBVIOUS
    <3>1. Aside \subseteq Y
      <4>1. \A d \in Aside : d \in Events
        BY DEF Aside
      <4> QED BY <1>1, <1>2, <2>2, <3>0, <4>1, OneHandsBack DEF With
    <3>2. Trail(w, Y, K)
      BY <1>1, <1>2, <3>1, TrailGrows
    <3>3. ~(ReleaseDelivered(e) \/ TurnIgnores(e))
      BY <1>1, <2>2 DEF HandsBack, LateHandoff, SettleIgnoredFails, ReleaseDelivered, TurnIgnores, TurnTypes
    <3>4. TurnCleanup(e) \/ SettleIgnoredFails(e)
      BY <2>2 DEF HandsBack, TurnCleanup
    <3> QED BY <1>3, <2>2, <3>0, <3>2, <3>3, <3>4, TurnKept DEF HandsBack
  <2>3. CASE ~Crash /\ \A e \in Events : ~HandsBack(e)
    <3>1. Aside \subseteq X
      <4>1. \A d \in Aside : d \in Events
        BY DEF Aside
      <4> QED BY <1>2, <2>3, <4>1
    <3>2. Trail(w, X, K)
      BY <1>1, <1>2, <3>1, TrailGrows
    <3>3. CASE \/ AckBatch \/ PumpWakes \/ PumpReads \/ PumpFails \/ RetryTimer \/ DeferralScan
               \/ DrainStarts \/ DrainReads \/ BeginShutdown \/ Restart
               \/ \E r \in Rooms : CooldownEnds(r) \/ RoomRetryFinished(r) \/ DrainRoom(r)
      BY <1>3, <1>5, <3>2, <3>3, PumpKept
    <3>4. ASSUME NEW r \in Rooms, LaneStep(r) \/ LaneFails(r) \/ TurnClaims(r) PROVE Kept(X, K, S)
      <4>1. ASSUME LaneReads(r) \/ LaneChecks(r) PROVE Accounts(X) /\ RowsKnown(K, S)
        <5>1. Accounts(Aside)
          BY <1>1, AsideAccounts
        <5>2. Accounts(X)
          BY <3>1, <5>1 DEF Accounts
        <5>3. state' = state
          BY <4>1 DEF LaneReads, LaneChecks, durable
        <5>4. RowsKnown(K, S)
          BY <1>0, <1>6, <5>3 DEF RowsKnown, Rowed, Settled, Eligible
        <5> QED BY <5>2, <5>4
      <4>2. ASSUME LaneSettles(r) PROVE w.lanes[r].event \in X
        <5>1. w.lanes[r].event \in Events
          BY <1>1, <4>2, InHand DEF LaneSettles, AtEvent
        <5>2. state'[w.lanes[r].event] = "settled"
          BY <1>1, <4>2, <5>1 DEF LaneSettles, JournalTypes
        <5> QED BY <1>0, <5>1, <5>2 DEF Aside
      <4> QED BY <1>3, <1>4, <1>5, <3>2, <3>4, <4>1, <4>2, LaneKept
    <3>5. ASSUME NEW e \in Events, TurnEnds(e) \/ TurnCleanup(e) \/ TurnRetries(e) \/ TurnPauses(e) \/ TurnVanishes(e)
                                   \/ SettleIgnoredFails(e)
          PROVE  Kept(X, K, S)
      <4>0. PICK Y : Y = With(X, e)
        OBVIOUS
      <4>1. Trail(w, Y, K)
        <5>1. X \subseteq Y
          BY <4>0 DEF With
        <5> QED BY <3>2, <5>1, TrailGrows
      <4>2. ASSUME ReleaseDelivered(e) PROVE e \in X
        <5>1. state'[e] = "settled"
          BY <1>1, <4>2 DEF ReleaseDelivered, AnsweredIsSettled, durable
        <5> QED BY <1>0, <5>1 DEF Aside
      <4>3. ASSUME TurnIgnores(e) PROVE e \in X
        <5>1. owner'[e] = "ignoring"
          BY <1>1, <4>3 DEF TurnIgnores, TurnTypes
        <5> QED BY <1>0, <5>1 DEF Aside
      <4> QED BY <1>3, <3>2, <3>5, <4>0, <4>1, <4>2, <4>3, TurnKept
    <3>6. CASE AdmitBatch \/ IngestFails \/ UNCHANGED vars
      <4>1. w' = w
        BY <3>6 DEF AdmitBatch, IngestFails, vars
      <4> QED BY <1>3, <3>2, <4>1, SamePlaceKept
    <3> QED BY <2>3, <3>3, <3>4, <3>5, <3>6 DEF Next
  <2> QED BY <2>1, <2>2, <2>3
<1>8. AnsweredIsSettled' /\ PendingIsStreamed' /\ InReceiptOrder(Batches)'
  BY <1>1, OrderFactsStep
<1>9. Trail(w', Aside', Rowed') /\ Sure(w', Settled')
  BY <1>0, <1>7 DEF Kept
<1> QED BY <1>7, <1>8, <1>9 DEF OrderInv, Kept

-----------------------------------------------------------------------------
(* Callbacks start in receipt order.                                       *)

LEMMA OrderHolds == Spec => []OrderInv
<1>1. Init => OrderInv
  <2> SUFFICES ASSUME Init PROVE OrderInv
    OBVIOUS
  <2>1. w = FreshWorker /\ InReceiptOrder(Batches)
    BY PendingAssumption DEF Init, Batches
  <2>2. Trail(w, Aside, Rowed)
    BY <2>1, FreshWorkerTrail
  <2>3. Sure(w, Settled)
    BY <2>1 DEF Sure, FreshWorker, NoLane
  <2>4. AnsweredIsSettled /\ PendingIsStreamed
    BY DEF Init, AnsweredIsSettled, PendingIsStreamed
  <2> QED BY <2>1, <2>2, <2>3, <2>4 DEF OrderInv
<1>2. JournalInv /\ WorkerInv /\ OrderInv /\ [Next]_vars => OrderInv'
  BY OrderStep
<1> QED BY <1>1, <1>2, JournalHolds, WorkerHolds, PTL DEF Spec

\* What lies before the event of a lane that starts its callback.
LEMMA StartsInOrder ==
    ASSUME OrderInv, NEW r \in Rooms, Starting(r), NEW d \in Events, d < w.lanes[r].event, RoomOf[d] = r,
           state[d] = "pending"
    PROVE  d \in Deferred(w) \/ paused[d] \/ late[d] \/ HasLiveOwner(d)
<1>1. /\ w.lanes[r].pc = "checked" /\ ~w.stopped /\ ~w.rooms[r].rewind
  BY DEF Starting, LaneAdmits, Fresh
<1>2. MemOK(w) /\ PageSound(w, Rowed, r) /\ PageSafe(w, Aside, r)
  BY <1>1 DEF OrderInv, Trail, TrailOf
<1>3. w.lanes[r].pc \in AtEvent /\ w.lanes[r].pc \in OnPage
  BY <1>1 DEF AtEvent, OnPage
<1>4. w.lanes[r].event <= w.lanes[r].resume /\ \A e \in w.lanes[r].page : w.lanes[r].event < e
  BY <1>2, <1>3 DEF PageSound
<1>5. w.lanes[r].event \in Int /\ w.lanes[r].resume \in Int /\ d \in Int /\ w.lanes[r].page \subseteq Int
  BY <1>2, RoomFields, PendingAssumption DEF MemOK, LaneRecords, Orders, Events
<1>6. d <= w.lanes[r].resume
  BY <1>4, <1>5
<1>7. d \notin w.lanes[r].page /\ d # w.lanes[r].event
  BY <1>4, <1>5
<1>8. Held(w, Aside, r, d)
  BY <1>2, <1>3, <1>6, <1>7 DEF PageSafe
<1>9. d \in Aside \/ d \in Deferred(w)
  BY <1>1, <1>8 DEF Held, DeferredOf
<1> QED BY <1>9 DEF Aside, HasLiveOwner

\* The callbacks of a room start in receipt order, whatever pages are read while
\* sources are handed back, released or withheld: every earlier event that still owes
\* work is deferred, withheld by an approval, or with a turn.
THEOREM RoomsRunInOrder == Spec => ReceiptOrder
<1>1. JournalInv /\ WorkerInv /\ OrderInv /\ [Next]_vars =>
        [\A e \in Events : CallbackStarts(e) =>
            \A d \in 1..(e - 1) : RoomOf[d] = RoomOf[e] /\ state[d] = "pending" =>
                d \in Deferred(w) \/ paused[d] \/ late[d] \/ HasLiveOwner(d)]_vars
  <2> SUFFICES ASSUME JournalInv, WorkerInv, OrderInv, [Next]_vars, NEW e \in Events, CallbackStarts(e),
                      NEW d \in 1..(e - 1), RoomOf[d] = RoomOf[e], state[d] = "pending"
               PROVE  d \in Deferred(w) \/ paused[d] \/ late[d] \/ HasLiveOwner(d)
    OBVIOUS
  <2>0. PICK r \in Rooms : r = RoomOf[e]
    BY PendingAssumption
  <2>1. w.lanes[r].pc = "checked" /\ w'.lanes[r].pc = "callback" /\ w'.lanes[r].event = e
    BY <2>0 DEF CallbackStarts
  <2>2. ~Quiet(w, w')
    BY <2>0, <2>1 DEF Quiet
  <2>3. PICK s \in Rooms : Starting(s)
    BY <2>2, OrderStep
  <2>4. s = r
    BY <2>0, <2>1, <2>3 DEF Starting
  <2>5. w.lanes[r].event = e
    BY <2>1, <2>3, <2>4 DEF Starting
  <2>6. d \in Events /\ d < e
    BY PendingAssumption DEF Events
  <2> QED BY <2>0, <2>3, <2>4, <2>5, <2>6, StartsInOrder
<1> QED BY <1>1, JournalHolds, WorkerHolds, OrderHolds, PTL DEF Spec, ReceiptOrder

-----------------------------------------------------------------------------
(* The pace of a room.                                                     *)

\* A room that cools down has no lane at work; one that failed cools down; and
\* until the end of the cooldown is noticed its events (C) may run again.
Resting(m, C, r) ==
    /\ m.retries[r].at = "sleeping" => m.lanes[r].pc \in {"off", "done"}
    /\ m.retries[r].at = "awake" => m.lanes[r].pc \in {"off", "done", "read"} /\ \A e \in Events : RoomOf[e] = r => e \in C
    /\ m.lanes[r].pc = "done" /\ m.lanes[r].failed => m.stopped \/ m.retries[r].at \in {"sleeping", "awake"}

\* The last page of a pass leaves nothing behind it.
EndSafe(m, X, r) ==
    m.lanes[r].pc \in OnPage /\ m.lanes[r].end =>
        \A e \in Events : RoomOf[e] = r /\ m.lanes[r].resume < e => Held(m, X, r, e)

\* A pass that ended well leaves nothing behind it, or its room is to run again.
DoneSafe(m, X, r) ==
    m.lanes[r].pc = "done" /\ ~m.lanes[r].more /\ ~m.lanes[r].failed =>
        \A e \in Events : RoomOf[e] = r => e \in X \/ e \in DeferredOf(m, r) \/ r \in m.ready

\* What a lane has before it and may not run (F) is behind the mark.
PageMarked(m, F, r) ==
    m.lanes[r].pc \in OnPage =>
        \A e \in F : e \in m.lanes[r].page \/ (m.lanes[r].pc \in AtEvent /\ e = m.lanes[r].event)
                        => e <= m.rooms[r].admitted

\* So is whatever else may not run and is not accounted for outside the lane (X).
Marked(m, X, r) ==
    \A e \in Events \ X : RoomOf[e] = r => m.rooms[r].cursor # -1 /\ e <= m.rooms[r].admitted

PacedOf(m, X, F, C, r) ==
    /\ Resting(m, C, r) /\ PageMarked(m, F, r) /\ Marked(m, X, r)
    /\ m.stopped \/ (EndSafe(m, X, r) /\ DoneSafe(m, X, r))
Paced(m, X, F, C) == \A r \in Rooms : PacedOf(m, X, F, C, r)

-----------------------------------------------------------------------------
(* Steps that start lanes, queue rooms and hand sources back.              *)

\* A lane is left alone or started.
LaneStarts(m, n, r) ==
    \/ n.lanes[r] = m.lanes[r]
    \/ n.lanes[r].pc = "read" /\ ~BackingOff(m, r) /\ ~LaneRuns(m, r)

\* Such a step leaves what the worker noted of a room, and a room that loses a
\* deferral nobody else answers for (X) is read again.
RoomSpared(m, n, X, r) ==
    /\ LaneStarts(m, n, r)
    /\ r \in m.ready => r \in n.ready \/ n.lanes[r].pc = "read"
    /\ m.rooms[r].cursor # -1 =>
         /\ n.rooms[r].cursor # -1 /\ n.rooms[r].admitted = m.rooms[r].admitted
         /\ m.rooms[r].rewind => n.rooms[r].rewind
    /\ \A e \in DeferredOf(m, r) :
         \/ e \in DeferredOf(n, r) \/ e \in X \/ m.stopped
         \/ n.rooms[r].cursor # -1 /\ n.rooms[r].rewind /\ (r \in n.ready \/ n.lanes[r].pc = "read")

Spared(m, n, X) ==
    n.stopped = m.stopped /\ \A r \in Rooms : n.retries[r] = m.retries[r] /\ RoomSpared(m, n, X, r)

LEMMA SparedTwice ==
    ASSUME NEW m, NEW n, NEW k, NEW X, Spared(m, n, X), Spared(n, k, X)
    PROVE  Spared(m, k, X)
<1> SUFFICES ASSUME NEW r \in Rooms PROVE k.retries[r] = m.retries[r] /\ RoomSpared(m, k, X, r)
  BY DEF Spared
<1>1. RoomSpared(m, n, X, r) /\ RoomSpared(n, k, X, r) /\ n.retries[r] = m.retries[r] /\ k.retries[r] = n.retries[r]
      /\ n.stopped = m.stopped
  BY DEF Spared
<1>2. LaneStarts(m, k, r)
  BY <1>1 DEF RoomSpared, LaneStarts, BackingOff, LaneRuns
<1>3. n.lanes[r].pc = "read" => k.lanes[r].pc = "read"
  BY <1>1 DEF RoomSpared, LaneStarts
<1>4. r \in m.ready => r \in k.ready \/ k.lanes[r].pc = "read"
  BY <1>1, <1>3 DEF RoomSpared
<1>5. m.rooms[r].cursor # -1 =>
         /\ k.rooms[r].cursor # -1 /\ k.rooms[r].admitted = m.rooms[r].admitted
         /\ m.rooms[r].rewind => k.rooms[r].rewind
  BY <1>1 DEF RoomSpared
<1>6. ASSUME NEW e \in DeferredOf(m, r), e \notin DeferredOf(k, r), e \notin X, ~m.stopped
      PROVE  k.rooms[r].cursor # -1 /\ k.rooms[r].rewind /\ (r \in k.ready \/ k.lanes[r].pc = "read")
  <2>1. CASE e \in DeferredOf(n, r)
    BY <1>1, <1>6, <2>1 DEF RoomSpared
  <2>2. CASE e \notin DeferredOf(n, r)
    BY <1>1, <1>3, <1>6, <2>2 DEF RoomSpared
  <2> QED BY <2>1, <2>2
<1> QED BY <1>1, <1>2, <1>4, <1>5, <1>6 DEF RoomSpared

LEMMA SparedSame ==
    ASSUME NEW m, NEW n, NEW X, n.stopped = m.stopped, \A r \in Rooms : SameRoom(m, n, r)
    PROVE  Spared(m, n, X)
BY DEF Spared, RoomSpared, LaneStarts, SameRoom

LEMMA SparedAlike ==
    ASSUME NEW m, NEW n, NEW X, Alike(m, n), n.stopped = m.stopped
    PROVE  Spared(m, n, X)
BY SparedSame DEF Alike, SameRoom, DeferredOf, Deferred

\* Work on one room.
LEMMA SparedOn ==
    ASSUME NEW m, NEW n, NEW X, NEW r, WorksOn(m, n, r), r \in Rooms => n.retries[r] = m.retries[r] /\ RoomSpared(m, n, X, r)
    PROVE  Spared(m, n, X)
<1>1. ASSUME NEW s \in Rooms, s # r PROVE n.retries[s] = m.retries[s] /\ RoomSpared(m, n, X, s)
  BY <1>1 DEF WorksOn, SameRoom, RoomSpared, LaneStarts
<1> QED BY <1>1 DEF Spared, WorksOn

\* What such a step preserves.
LEMMA SparedPaced ==
    ASSUME NEW m, NEW n, MemOK(m), NEW X, NEW F, NEW C, Paced(m, X, F, C), Spared(m, n, X)
    PROVE  Paced(n, X, F, C)
<1> SUFFICES ASSUME NEW r \in Rooms PROVE PacedOf(n, X, F, C, r)
  BY DEF Paced
<1>1. /\ PacedOf(m, X, F, C, r) /\ Booked(m, r) /\ RoomSpared(m, n, X, r) /\ n.retries[r] = m.retries[r]
      /\ n.stopped = m.stopped
  BY DEF Paced, MemOK, Spared
<1>2. m.lanes[r].pc # "off" => m.rooms[r].cursor # -1
  BY <1>1 DEF Booked
<1>3. Resting(n, C, r)
  BY <1>1 DEF PacedOf, Resting, RoomSpared, LaneStarts, BackingOff
<1>4. PageMarked(n, F, r)
  <2> SUFFICES ASSUME n.lanes[r].pc \in OnPage PROVE PageMarked(n, F, r)
    BY DEF PageMarked
  <2>1. n.lanes[r] = m.lanes[r] /\ m.lanes[r].pc # "off"
    BY <1>1 DEF RoomSpared, LaneStarts, OnPage, AtEvent
  <2> QED BY <1>1, <1>2, <2>1 DEF PacedOf, PageMarked, RoomSpared
<1>5. Marked(n, X, r)
  BY <1>1 DEF PacedOf, Marked, RoomSpared
<1>6. ASSUME ~m.stopped PROVE EndSafe(n, X, r)
  <2> SUFFICES ASSUME n.lanes[r].pc \in OnPage, n.lanes[r].end, NEW e \in Events, RoomOf[e] = r, n.lanes[r].resume < e
               PROVE  Held(n, X, r, e)
    BY DEF EndSafe
  <2>1. n.lanes[r] = m.lanes[r] /\ m.lanes[r].pc # "off"
    BY <1>1 DEF RoomSpared, LaneStarts, OnPage, AtEvent
  <2>2. Held(m, X, r, e)
    BY <1>1, <1>6, <2>1 DEF PacedOf, EndSafe
  <2> QED BY <1>1, <1>2, <1>6, <2>1, <2>2 DEF Held, RoomSpared
<1>7. ASSUME ~m.stopped PROVE DoneSafe(n, X, r)
  <2> SUFFICES ASSUME n.lanes[r].pc = "done", ~n.lanes[r].more, ~n.lanes[r].failed, NEW e \in Events, RoomOf[e] = r
               PROVE  e \in X \/ e \in DeferredOf(n, r) \/ r \in n.ready
    BY DEF DoneSafe
  <2>1. n.lanes[r] = m.lanes[r]
    BY <1>1 DEF RoomSpared, LaneStarts
  <2>2. e \in X \/ e \in DeferredOf(m, r) \/ r \in m.ready
    BY <1>1, <1>7, <2>1 DEF PacedOf, DoneSafe
  <2> QED BY <1>1, <1>7, <2>1, <2>2 DEF RoomSpared
<1> QED BY <1>1, <1>3, <1>4, <1>5, <1>6, <1>7 DEF PacedOf

LEMMA QueueRoomSpared ==
    ASSUME NEW m, MemOK(m), NEW r \in Rooms, NEW b \in BOOLEAN, NEW n, n = QueueRoom(m, r, b), NEW X
    PROVE  /\ Spared(m, n, X) /\ MemOK(n) /\ r \in n.ready /\ n.rooms[r].cursor # -1 /\ (b => n.rooms[r].rewind)
           /\ n.lanes[r] = m.lanes[r] /\ n.stopped = m.stopped
<1> DEFINE p == Default(m.rooms[r])
<1>1. /\ WorksOn(m, n, r) /\ n.lanes[r] = m.lanes[r] /\ n.retries[r] = m.retries[r] /\ r \in n.ready
      /\ DeferredOf(n, r) = DeferredOf(m, r) /\ n.rooms[r] = [p EXCEPT !.rewind = @ \/ b]
  BY QueueRoomEffect DEF MemOK
<1>2. p \in ProgressRecords /\ p.cursor # -1 /\ (m.rooms[r].cursor # -1 => p = m.rooms[r])
  BY RoomFields, DefaultFacts DEF MemOK
<1> HIDE DEF p
<1>3. n.rooms[r].cursor = p.cursor /\ n.rooms[r].admitted = p.admitted /\ n.rooms[r].rewind = (p.rewind \/ b)
  BY <1>1, <1>2 DEF ProgressRecords
<1>4. RoomSpared(m, n, X, r)
  BY <1>1, <1>2, <1>3 DEF RoomSpared, LaneStarts
<1> QED BY <1>1, <1>2, <1>3, <1>4, SparedOn, QueueRoomOK DEF WorksOn

LEMMA StartLanesSpared ==
    ASSUME NEW m, MemOK(m), NEW R \in SUBSET Rooms, NEW n, n = StartLanes(m, R), NEW X
    PROVE  /\ Spared(m, n, X) /\ MemOK(n)
           /\ \A s \in Rooms : m.rooms[s].cursor # -1 => n.rooms[s] = m.rooms[s]
           /\ \A s \in Rooms : s \in m.ready => s \in n.ready \/ n.lanes[s].pc = "read"
<1>1. /\ n.stopped = m.stopped /\ n.retries = m.retries /\ \A s \in Rooms : DeferredOf(n, s) = DeferredOf(m, s)
      /\ \A s \in Rooms : IF s \in R /\ Starts(m, s)
                          THEN n.rooms[s] = Default(m.rooms[s]) /\ n.lanes[s] = [NoLane EXCEPT !.pc = "read"]
                          ELSE SameRoom(m, n, s)
  BY StartLanesEffect DEF MemOK
<1>2. \A s \in Rooms : m.rooms[s] \in ProgressRecords
  BY RoomFields DEF MemOK
<1>3. ASSUME NEW s \in Rooms
      PROVE  /\ RoomSpared(m, n, X, s) /\ (m.rooms[s].cursor # -1 => n.rooms[s] = m.rooms[s])
             /\ s \in m.ready => s \in n.ready \/ n.lanes[s].pc = "read"
  <2>1. CASE SameRoom(m, n, s)
    BY <2>1 DEF SameRoom, RoomSpared, LaneStarts
  <2>2. CASE ~SameRoom(m, n, s)
    <3>1. /\ n.rooms[s] = Default(m.rooms[s]) /\ n.lanes[s] = [NoLane EXCEPT !.pc = "read"] /\ Starts(m, s)
          /\ DeferredOf(n, s) = DeferredOf(m, s)
      BY <1>1, <2>2
    <3>2. n.lanes[s].pc = "read"
      BY <3>1, FreshLane
    <3>3. m.rooms[s].cursor # -1 => n.rooms[s] = m.rooms[s]
      BY <1>2, <3>1, DefaultFacts
    <3> QED BY <3>1, <3>2, <3>3 DEF RoomSpared, LaneStarts, Starts
  <2> QED BY <2>1, <2>2
<1> QED BY <1>1, <1>3, StartLanesOK DEF Spared

LEMMA WakeSpared ==
    ASSUME NEW m, MemOK(m), NEW b \in BOOLEAN, NEW n, n = [m EXCEPT !.wake = b], NEW X
    PROVE  Spared(m, n, X) /\ MemOK(n) /\ n.rooms = m.rooms /\ n.lanes = m.lanes /\ n.ready = m.ready
<1>1. Alike(m, n) /\ n.stopped = m.stopped
  BY DEF Alike, MemOK, Memory
<1> QED BY <1>1, SparedAlike, AlikeOK DEF Alike

\* A room that is woken is read again.
LEMMA WakeRoomSpared ==
    ASSUME NEW m, MemOK(m), NEW r \in Rooms, NEW n, n = WakeRoom(m, r), NEW X
    PROVE  /\ Spared(m, n, X) /\ MemOK(n)
           /\ m.stopped \/ (n.rooms[r].cursor # -1 /\ n.rooms[r].rewind /\ (r \in n.ready \/ n.lanes[r].pc = "read"))
<1>1. CASE m.stopped
  <2>1. n = m
    BY <1>1 DEF WakeRoom
  <2>2. Spared(m, m, X)
    BY SparedSame DEF SameRoom
  <2> QED BY <1>1, <2>1, <2>2
<1>2. CASE ~m.stopped
  <2>0. PICK b \in BOOLEAN : b = TRUE
    OBVIOUS
  <2>1. PICK q : q = QueueRoom(m, r, b)
    OBVIOUS
  <2>2. /\ Spared(m, q, X) /\ MemOK(q) /\ r \in q.ready /\ q.rooms[r].cursor # -1 /\ q.rooms[r].rewind
    <3>1. /\ Spared(m, q, X) /\ MemOK(q) /\ r \in q.ready /\ q.rooms[r].cursor # -1 /\ (b => q.rooms[r].rewind)
      BY <2>1, QueueRoomSpared
    <3> QED BY <2>0, <3>1
  <2>3. PICK k : k = StartLanes(q, {r})
    OBVIOUS
  <2>4. Spared(q, k, X) /\ MemOK(k) /\ k.rooms[r] = q.rooms[r] /\ (r \in k.ready \/ k.lanes[r].pc = "read")
    BY <2>2, <2>3, StartLanesSpared
  <2>5. n = [k EXCEPT !.wake = b]
    BY <1>2, <2>0, <2>1, <2>3 DEF WakeRoom
  <2>6. Spared(k, n, X) /\ MemOK(n) /\ n.rooms = k.rooms /\ n.lanes = k.lanes /\ n.ready = k.ready
    BY <2>4, <2>5, WakeSpared
  <2>7. Spared(m, n, X)
    BY <2>2, <2>4, <2>6, SparedTwice
  <2> QED BY <2>2, <2>4, <2>6, <2>7
<1> QED BY <1>1, <1>2

\* A release loses one deferral.
LEMMA ReleaseSpared ==
    ASSUME NEW m, MemOK(m), NEW e \in Events, NEW n, n = Release(m, e), NEW X, e \in X
    PROVE  Spared(m, n, X) /\ MemOK(n)
<1> DEFINE r == RoomOf[e]
<1>1. /\ WorksOn(m, n, r) /\ n.lanes[r] = m.lanes[r] /\ DeferredOf(n, r) = DeferredOf(m, r) \ {e}
      /\ n.rooms[r].cursor = m.rooms[r].cursor /\ n.rooms[r].rewind = m.rooms[r].rewind /\ n.stopped = m.stopped
      /\ n.retries = m.retries /\ n.rooms[r].admitted = m.rooms[r].admitted /\ m.ready \subseteq n.ready
  BY ReleaseLeaves
<1> HIDE DEF r
<1>2. RoomSpared(m, n, X, r)
  BY <1>1 DEF RoomSpared, LaneStarts
<1> QED BY <1>1, <1>2, SparedOn, ReleaseOK

\* A source that is handed back brings its room to read again.
LEMMA ReclaimSpared ==
    ASSUME NEW m, MemOK(m), NEW e \in Events, NEW n, n = Reclaim(m, e), NEW X
    PROVE  Spared(m, n, X) /\ MemOK(n)
<1>1. PICK Y : Y = With(X, e)
  OBVIOUS
<1>2. PICK k : k = Release(m, e)
  OBVIOUS
<1>3. Spared(m, k, Y) /\ MemOK(k)
  BY <1>1, <1>2, ReleaseSpared DEF With
<1>4. n = WakeRoom(k, RoomOf[e]) /\ RoomOf[e] \in Rooms
  BY <1>2, RoomOfEvent DEF Reclaim
<1>5. /\ Spared(k, n, Y) /\ MemOK(n)
      /\ k.stopped \/ (n.rooms[RoomOf[e]].cursor # -1 /\ n.rooms[RoomOf[e]].rewind
                          /\ (RoomOf[e] \in n.ready \/ n.lanes[RoomOf[e]].pc = "read"))
  BY <1>3, <1>4, WakeRoomSpared
<1>6. Spared(m, n, Y)
  BY <1>3, <1>5, SparedTwice
<1>7. k.stopped = m.stopped
  BY <1>3 DEF Spared
<1>8. ASSUME NEW r \in Rooms PROVE RoomSpared(m, n, X, r)
  <2>1. RoomSpared(m, n, Y, r)
    BY <1>6 DEF Spared
  <2>2. ASSUME NEW d \in DeferredOf(m, r), d \notin DeferredOf(n, r), d \notin X, ~m.stopped
        PROVE  n.rooms[r].cursor # -1 /\ n.rooms[r].rewind /\ (r \in n.ready \/ n.lanes[r].pc = "read")
    <3>1. CASE d = e
      <4>1. r = RoomOf[e]
        BY <3>1 DEF DeferredOf
      <4> QED BY <1>5, <1>7, <2>2, <4>1
    <3>2. CASE d # e
      <4>1. d \notin Y
        BY <1>1, <2>2, <3>2 DEF With
      <4> QED BY <2>1, <2>2, <4>1 DEF RoomSpared
    <3> QED BY <3>1, <3>2
  <2> QED BY <2>1, <2>2 DEF RoomSpared
<1> QED BY <1>5, <1>6, <1>8 DEF Spared

LEMMA RetrySourceSpared ==
    ASSUME NEW m, MemOK(m), NEW e \in Events, NEW n, n = RetrySource(m, e), NEW X
    PROVE  Spared(m, n, X) /\ MemOK(n)
BY ReclaimSpared DEF RetrySource, Reclaim

LEMMA ProbeOldestSpared ==
    ASSUME NEW m, MemOK(m), m.deferred # <<>>, NEW n, n = ProbeOldest(m), NEW X
    PROVE  Spared(m, n, X) /\ MemOK(n)
<1> DEFINE e == Head(m.deferred)
           k == [m EXCEPT !.deferred = Append(Tail(@), e)]
<1>1. MemOK(k) /\ e \in Events /\ k.stopped = m.stopped /\ \A r \in Rooms : SameRoom(m, k, r)
  BY RotateOK
<1>2. n = k \/ n = Reclaim(k, e)
  BY DEF ProbeOldest
<1> HIDE DEF k, e
<1>3. Spared(m, k, X)
  BY <1>1, SparedSame
<1>4. Spared(k, Reclaim(k, e), X) /\ MemOK(Reclaim(k, e))
  BY <1>1, ReclaimSpared
<1> QED BY <1>1, <1>2, <1>3, <1>4, SparedTwice

LEMMA QueueLostOwnersSpared ==
    ASSUME NEW m, MemOK(m), BatchSize \in Nat, NEW k, k = QueueLostOwners(m), NEW X
    PROVE  Spared(m, k, X) /\ MemOK(k)
<1>1. Len(m.deferred) \in Nat
  BY MemoryFields, SeqFacts DEF MemOK, Deferrals
<1>2. PICK n \in Nat : n <= Len(m.deferred) /\ \E f : /\ f[0] = m /\ \A i \in 1..n : f[i] = ProbeOldest(f[i - 1])
                                                      /\ QueueLostOwners(m) = f[n]
  BY <1>1, QueueLostOwnersIs
<1>3. PICK f : f[0] = m /\ (\A i \in 1..n : f[i] = ProbeOldest(f[i - 1])) /\ QueueLostOwners(m) = f[n]
  BY <1>2
<1> DEFINE S == {i \in Nat : i <= n => MemOK(f[i]) /\ Spared(m, f[i], X) /\ Len(f[i].deferred) >= Len(m.deferred) - i}
<1>4. 0 \in S
  <2>1. Spared(m, m, X)
    BY SparedSame DEF SameRoom
  <2> QED BY <1>1, <1>3, <2>1
<1>5. ASSUME NEW i \in S PROVE i + 1 \in S
  <2> SUFFICES ASSUME i + 1 <= n
               PROVE  MemOK(f[i + 1]) /\ Spared(m, f[i + 1], X) /\ Len(f[i + 1].deferred) >= Len(m.deferred) - (i + 1)
    OBVIOUS
  <2>1. MemOK(f[i]) /\ Spared(m, f[i], X) /\ Len(f[i].deferred) >= Len(m.deferred) - i
    OBVIOUS
  <2>2. f[i + 1] = ProbeOldest(f[i])
    <3>1. i + 1 \in 1..n /\ i + 1 - 1 = i
      OBVIOUS
    <3> QED BY <1>3, <3>1
  <2>3. f[i].deferred \in Seq(Events) /\ Len(f[i].deferred) \in Nat
    BY <2>1, MemoryFields, SeqFacts DEF MemOK, Deferrals
  <2>4. f[i].deferred # <<>>
    <3>1. Len(f[i].deferred) > 0
      BY <1>1, <1>2, <2>1, <2>3
    <3> QED BY <3>1
  <2>5. MemOK(f[i + 1]) /\ Len(f[i + 1].deferred) >= Len(f[i].deferred) - 1
    BY <2>1, <2>2, <2>4, ProbeOldestOK
  <2>6. Len(f[i + 1].deferred) \in Nat
    BY <2>5, MemoryFields, SeqFacts DEF MemOK, Deferrals
  <2>7. Len(f[i + 1].deferred) >= Len(m.deferred) - (i + 1)
    BY <1>1, <2>1, <2>3, <2>5, <2>6, OneLess
  <2>8. Spared(f[i], f[i + 1], X)
    BY <2>1, <2>2, <2>4, ProbeOldestSpared
  <2> QED BY <2>1, <2>5, <2>7, <2>8, SparedTwice
<1>6. n \in S
  <2> HIDE DEF S
  <2>1. S \in SUBSET Nat
    BY DEF S
  <2> QED BY <1>4, <1>5, <2>1, Counting
<1> QED BY <1>3, <1>6

LEMMA FoundSpared ==
    ASSUME NEW m, MemOK(m), NEW R \in SUBSET Rooms, NEW n, NEW X,
           n = [m EXCEPT !.ready = @ \cup R, !.rooms = [r \in Rooms |-> IF r \in R THEN Default(@[r]) ELSE @[r]]]
    PROVE  Spared(m, n, X) /\ MemOK(n)
<1> DEFINE P == [r \in Rooms |-> IF r \in R THEN Default(m.rooms[r]) ELSE m.rooms[r]]
<1>1. /\ n.rooms = P /\ n.lanes = m.lanes /\ n.deferred = m.deferred /\ n.stopped = m.stopped /\ n.retries = m.retries
      /\ n.ready = m.ready \cup R
  BY DEF MemOK, Memory
<1>2. ASSUME NEW s \in Rooms PROVE RoomSpared(m, n, X, s)
  <2>1. m.rooms[s] \in ProgressRecords
    BY RoomFields DEF MemOK
  <2>2. n.rooms[s] = m.rooms[s] \/ n.rooms[s] = Default(m.rooms[s])
    BY <1>1
  <2>3. m.rooms[s].cursor # -1 => n.rooms[s] = m.rooms[s]
    BY <2>1, <2>2, DefaultFacts
  <2>4. DeferredOf(n, s) = DeferredOf(m, s)
    BY <1>1 DEF DeferredOf, Deferred
  <2> QED BY <1>1, <2>3, <2>4 DEF RoomSpared, LaneStarts
<1> QED BY <1>1, <1>2, FoundOK DEF Spared

LEMMA DispatchedSpared ==
    ASSUME NEW m, MemOK(m), NEW s \in ScanRecords, NEW more \in BOOLEAN, BatchSize \in Nat, NEW X
    PROVE  Spared(m, Dispatched(m, s, more), X)
<1> DEFINE probed == QueueLostOwners(m)
           queued == [probed EXCEPT !.ready = @ \cup s.rooms,
                                    !.rooms = [r \in Rooms |-> IF r \in s.rooms THEN Default(@[r]) ELSE @[r]]]
           started == s.started \/ \E r \in queued.ready : Starts(queued, r)
           running == StartLanes(queued, queued.ready)
           n == [running EXCEPT !.wake = @ \/ (more /\ started), !.retry = @ \/ (more /\ ~started)]
<1>1. Spared(m, probed, X) /\ MemOK(probed)
  BY QueueLostOwnersSpared
<1>2. s.rooms \in SUBSET Rooms
  BY DEF ScanRecords
<1>3. Dispatched(m, s, more) = ScheduleProbe(n)
  BY DEF Dispatched
<1> HIDE DEF probed
<1>4. Spared(probed, queued, X) /\ MemOK(queued)
  BY <1>1, <1>2, FoundSpared
<1> HIDE DEF queued
<1>5. Spared(queued, running, X) /\ MemOK(running)
  <2>1. queued.ready \in SUBSET Rooms
    BY <1>4, MemoryFields DEF MemOK
  <2> QED BY <1>4, <2>1, StartLanesSpared
<1> HIDE DEF running, started
<1>6. Alike(running, n) /\ n.stopped = running.stopped
  BY <1>5 DEF MemOK, Memory, Alike
<1> HIDE DEF n
<1>7. Spared(running, n, X) /\ n \in Memory
  BY <1>6, SparedAlike DEF Alike
<1>8. Alike(n, ScheduleProbe(n)) /\ ScheduleProbe(n).stopped = n.stopped
  BY <1>7 DEF ScheduleProbe, Alike, Memory
<1>9. Spared(n, ScheduleProbe(n), X)
  BY <1>8, SparedAlike
<1> QED BY <1>1, <1>3, <1>4, <1>5, <1>7, <1>9, SparedTwice

-----------------------------------------------------------------------------
(* The pump's, the timers' and the drain's steps spare the rooms.          *)

LEMMA PumpWakesSpared ==
    ASSUME MemOK(w), PumpWakes, NEW X
    PROVE  Spared(w, w', X)
<1> DEFINE s == [ScanFrom(w.scanCursor) EXCEPT !.started = \E r \in w.ready : Starts(w, r)]
<1>1. w.scanCursor \in Orders /\ w.ready \in SUBSET Rooms
  BY MemoryFields DEF MemOK
<1>2. PICK b \in BOOLEAN : b = FALSE
  OBVIOUS
<1>3. PICK k : k = [w EXCEPT !.wake = b]
  OBVIOUS
<1>4. Spared(w, k, X) /\ MemOK(k)
  BY <1>3, WakeSpared
<1>5. s \in ScanRecords
  <2>1. (\E r \in w.ready : Starts(w, r)) \in BOOLEAN
    OBVIOUS
  <2> QED BY <1>1, <2>1, ScanFromFacts
<1>6. PICK n : n = StartLanes(k, w.ready)
  OBVIOUS
<1>7. w' = [n EXCEPT !.scan = s]
  BY <1>2, <1>3, <1>6 DEF PumpWakes
<1> HIDE DEF s
<1>8. Spared(k, n, X) /\ MemOK(n)
  BY <1>1, <1>4, <1>6, StartLanesSpared
<1>9. Alike(n, w') /\ w'.stopped = n.stopped
  BY <1>5, <1>7, <1>8 DEF Alike, MemOK, Memory
<1>10. Spared(n, w', X)
  BY <1>9, SparedAlike
<1> QED BY <1>4, <1>8, <1>10, SparedTwice

LEMMA PumpReadsSpared ==
    ASSUME MemOK(w), PumpReads, BatchSize \in Nat, NEW X
    PROVE  Spared(w, w', X)
<1> DEFINE p == ScanPage(w.scan, FALSE)
           c == IF p.more THEN p.scan.cursor ELSE 0
           idle == [w EXCEPT !.scan = NoScan, !.scanCursor = c]
           on == [w EXCEPT !.scan = p.scan]
<1>1. p.scan \in ScanRecords /\ p.done \in BOOLEAN /\ p.more \in BOOLEAN
  BY MemoryFields, ScanPageFacts DEF MemOK
<1>2. c \in Orders /\ NoScan \in ScanRecords
  <2>1. 0 \in Orders
    BY PendingAssumption DEF Orders
  <2>2. p.scan.cursor \in Orders
    BY <1>1 DEF ScanRecords
  <2> HIDE DEF p
  <2> QED BY <2>1, <2>2, NoScanFacts
<1>3. w' = IF p.done \/ p.more THEN Dispatched(idle, p.scan, p.more) ELSE on
  BY DEF PumpReads
<1> HIDE DEF p, c
<1>4. Alike(w, idle) /\ Alike(w, on) /\ idle.stopped = w.stopped /\ on.stopped = w.stopped
  BY <1>1, <1>2 DEF Alike, MemOK, Memory
<1> HIDE DEF idle, on
<1>5. Spared(w, idle, X) /\ Spared(w, on, X) /\ MemOK(idle)
  BY <1>4, SparedAlike, AlikeOK
<1>6. Spared(idle, Dispatched(idle, p.scan, p.more), X)
  BY <1>1, <1>5, DispatchedSpared
<1> QED BY <1>3, <1>5, <1>6, SparedTwice

LEMMA PumpOtherSpared ==
    ASSUME MemOK(w), PumpFails \/ RetryTimer \/ DrainStarts \/ AckBatch, NEW X
    PROVE  Spared(w, w', X)
<1>1. NoScan \in ScanRecords /\ ScanFrom(0) \in ScanRecords
  <2>1. 0 \in Orders
    BY PendingAssumption DEF Orders
  <2> QED BY <2>1, NoScanFacts, ScanFromFacts
<1>2. Alike(w, w') /\ w'.stopped = w.stopped
  <2>1. CASE PumpFails
    BY <1>1, <2>1 DEF PumpFails, Alike, MemOK, Memory
  <2>2. CASE RetryTimer
    BY <1>1, <2>2 DEF RetryTimer, Alike, MemOK, Memory
  <2>3. CASE DrainStarts
    BY <1>1, <2>3 DEF DrainStarts, Alike, MemOK, Memory
  <2>4. CASE AckBatch
    BY <1>1, <2>4 DEF AckBatch, WakeWorker, Alike, MemOK, Memory
  <2> QED BY <2>1, <2>2, <2>3, <2>4
<1> QED BY <1>2, SparedAlike

LEMMA DeferralScanSpared ==
    ASSUME MemOK(w), DeferralScan, BatchSize \in Nat \ {0}, NEW X
    PROVE  Spared(w, w', X)
<1> DEFINE probed == QueueLostOwners(w)
           left == (IF w.probes = 0 THEN ProbesFor(w) ELSE w.probes) - 1
           woken == IF left > 0 THEN probed ELSE [probed EXCEPT !.wake = TRUE]
           q == IF left > 0 THEN left ELSE IF probed.deferred = <<>> THEN -1 ELSE 0
           done == [w EXCEPT !.probes = -1, !.wake = TRUE]
           n == [woken EXCEPT !.probes = q]
<1>1. w' = IF w.deferred = <<>> THEN done ELSE n
  BY DEF DeferralScan
<1>2. Spared(w, probed, X) /\ MemOK(probed)
  BY QueueLostOwnersSpared
<1>3. left \in Int
  <2>1. w.probes \in Int /\ Len(w.deferred) \in Nat
    BY MemoryFields, SeqFacts DEF MemOK, Deferrals
  <2>2. ProbesFor(w) \in Int
    BY <2>1 DEF ProbesFor
  <2> QED BY <2>1, <2>2
<1> HIDE DEF left, probed
<1>4. q \in Int
  BY <1>3
<1>5. Spared(probed, woken, X) /\ MemOK(woken)
  <2>1. Spared(probed, probed, X)
    BY SparedSame DEF SameRoom
  <2>2. TRUE \in BOOLEAN
    OBVIOUS
  <2>3. Spared(probed, [probed EXCEPT !.wake = TRUE], X) /\ MemOK([probed EXCEPT !.wake = TRUE])
    BY <1>2, <2>2, WakeSpared
  <2> QED BY <1>2, <2>1, <2>3
<1> HIDE DEF woken, q
<1>6. Alike(woken, n) /\ n.stopped = woken.stopped
  BY <1>4, <1>5 DEF Alike, MemOK, Memory
<1>7. Alike(w, done) /\ done.stopped = w.stopped
  <2>1. -1 \in Int
    OBVIOUS
  <2> QED BY <2>1 DEF Alike, MemOK, Memory
<1> HIDE DEF n, done
<1>8. Spared(woken, n, X) /\ Spared(w, done, X)
  BY <1>6, <1>7, SparedAlike
<1> QED BY <1>1, <1>2, <1>5, <1>8, SparedTwice

LEMMA DrainReadsSpared ==
    ASSUME MemOK(w), DrainReads, BatchSize \in Nat, NEW X
    PROVE  Spared(w, w', X)
<1> DEFINE p == ScanPage(w.drain, TRUE)
           off == [w EXCEPT !.drain = NoScan]
           m == QueueLostOwners(off)
           D == [r \in Rooms |-> IF r \in p.scan.rooms \cup m.ready THEN "go" ELSE "off"]
           n == [m EXCEPT !.draining = D]
           on == [w EXCEPT !.drain = p.scan]
<1>1. p.scan \in ScanRecords /\ p.done \in BOOLEAN
  BY MemoryFields, ScanPageFacts DEF MemOK
<1>2. w' = IF p.done THEN n ELSE on
  BY DEF DrainReads
<1>3. D \in Drainings /\ NoScan \in ScanRecords
  BY NoScanFacts DEF Drainings
<1> HIDE DEF p, D
<1>4. Alike(w, on) /\ Alike(w, off) /\ on.stopped = w.stopped /\ off.stopped = w.stopped
  BY <1>1, <1>3 DEF Alike, MemOK, Memory
<1> HIDE DEF on, off
<1>5. Spared(w, on, X) /\ Spared(w, off, X) /\ MemOK(off)
  BY <1>4, SparedAlike, AlikeOK
<1>6. Spared(off, m, X) /\ MemOK(m)
  BY <1>5, QueueLostOwnersSpared
<1> HIDE DEF m
<1>7. Alike(m, n) /\ n.stopped = m.stopped
  BY <1>3, <1>6 DEF Alike, MemOK, Memory
<1> HIDE DEF n
<1>8. Spared(m, n, X)
  BY <1>7, SparedAlike
<1> QED BY <1>2, <1>5, <1>6, <1>8, SparedTwice

LEMMA DrainingSpared ==
    ASSUME NEW m, MemOK(m), NEW r \in Rooms, NEW d \in {"off", "go", "own", "check"}, NEW n,
           n = [m EXCEPT !.draining[r] = d], NEW X
    PROVE  Spared(m, n, X)
<1> DEFINE D == [m.draining EXCEPT ![r] = d]
<1>1. D \in Drainings
  BY MemoryFields DEF MemOK, Drainings
<1>2. n = [m EXCEPT !.draining = D]
  OBVIOUS
<1> HIDE DEF D
<1>3. Alike(m, n) /\ n.stopped = m.stopped
  BY <1>1, <1>2 DEF Alike, MemOK, Memory
<1> QED BY <1>3, SparedAlike

LEMMA QueuedSpared ==
    ASSUME NEW m, MemOK(m), NEW r \in Rooms, NEW n, n = StartLanes(QueueRoom(m, r, FALSE), {r}), NEW X
    PROVE  Spared(m, n, X) /\ MemOK(n)
<1>1. PICK b \in BOOLEAN : b = FALSE
  OBVIOUS
<1>2. PICK q : q = QueueRoom(m, r, b)
  OBVIOUS
<1>3. Spared(m, q, X) /\ MemOK(q)
  BY <1>2, QueueRoomSpared
<1>4. n = StartLanes(q, {r})
  BY <1>1, <1>2
<1>5. Spared(q, n, X) /\ MemOK(n)
  BY <1>3, <1>4, StartLanesSpared
<1> QED BY <1>3, <1>5, SparedTwice

LEMMA DrainRoomSpared ==
    ASSUME MemOK(w), NEW r \in Rooms, DrainRoom(r), NEW X
    PROVE  Spared(w, w', X)
<1>0. PICK n : n = StartLanes(QueueRoom(w, r, FALSE), {r})
  OBVIOUS
<1>1. Spared(w, n, X) /\ MemOK(n)
  BY <1>0, QueuedSpared
<1>2. \/ w' = [w EXCEPT !.draining[r] = "go"] \/ w' = [w EXCEPT !.draining[r] = "off"]
      \/ w' = [n EXCEPT !.draining[r] = "own"]
  BY <1>0 DEF DrainRoom
<1>3. CASE w' = [w EXCEPT !.draining[r] = "go"] \/ w' = [w EXCEPT !.draining[r] = "off"]
  BY <1>3, DrainingSpared
<1>4. CASE w' = [n EXCEPT !.draining[r] = "own"]
  <2>1. Spared(n, w', X)
    BY <1>1, <1>4, DrainingSpared
  <2> QED BY <1>1, <2>1, SparedTwice
<1> QED BY <1>2, <1>3, <1>4

-----------------------------------------------------------------------------
(* A lane moves through its page.                                          *)

\* Work on a room that keeps its record, its mark and its deferrals.
Keeps(m, n, r) ==
    /\ WorksOn(m, n, r) /\ MemOK(n) /\ n.ready = m.ready /\ DeferredOf(n, r) = DeferredOf(m, r)
    /\ n.rooms[r].cursor # -1 /\ n.rooms[r].admitted = m.rooms[r].admitted
    /\ n.retries[r].at \in {m.retries[r].at, "none"}

LEMMA WorksTwice ==
    ASSUME NEW m, NEW n, NEW k, NEW r, WorksOn(m, n, r), WorksOn(n, k, r)
    PROVE  WorksOn(m, k, r)
BY DEF WorksOn, SameRoom

LEMMA KeepsTwice ==
    ASSUME NEW m, NEW n, NEW k, NEW r, Keeps(m, n, r), Keeps(n, k, r)
    PROVE  Keeps(m, k, r)
<1>1. WorksOn(m, k, r)
  BY WorksTwice DEF Keeps
<1> QED BY <1>1 DEF Keeps

LEMMA CursorKeeps ==
    ASSUME NEW m, MemOK(m), NEW r \in Rooms, NEW c \in Orders, NEW n, n = CursorTo(m, r, c)
    PROVE  Keeps(m, n, r) /\ n.lanes = m.lanes /\ n.rooms[r].rewind = m.rooms[r].rewind
           /\ n.retries = m.retries /\ n.rooms[r].cursor = c /\ n.deferred = m.deferred
<1>1. /\ MemOK(n) /\ HasProgress(n, r) /\ WorksOn(m, n, r) /\ n.lanes = m.lanes /\ n.deferred = m.deferred
      /\ n.retries = m.retries /\ n.ready = m.ready
      /\ n.rooms[r].cursor = c /\ n.rooms[r].rewind = m.rooms[r].rewind /\ n.rooms[r].admitted = m.rooms[r].admitted
      /\ DeferredOf(n, r) = DeferredOf(m, r)
  BY CursorLeaves
<1> QED BY <1>1 DEF Keeps, HasProgress

LEMMA ApplyRewindKeeps ==
    ASSUME NEW m, MemOK(m), NEW r \in Rooms, HasProgress(m, r), NEW n, n = ApplyRewind(m, r)
    PROVE  Keeps(m, n, r) /\ n.lanes = m.lanes /\ n.retries = m.retries /\ n.deferred = m.deferred
<1> DEFINE p == [m.rooms[r] EXCEPT !.rewind = FALSE, !.cursor = 0]
<1>0. m \in Memory /\ m.rooms[r] \in ProgressRecords
  BY RoomFields DEF MemOK
<1>1. MemOK(n) /\ HasProgress(n, r) /\ n.lanes = m.lanes /\ n.deferred = m.deferred /\ n.stopped = m.stopped
  BY ApplyRewindOK
<1>2. 0 \in -1..MaxEvent
  BY PendingAssumption
<1>3. p \in ProgressRecords /\ p.admitted = m.rooms[r].admitted
  BY <1>0, <1>2 DEF ProgressRecords
<1>4. CASE ~m.rooms[r].rewind
  <2>1. n = m
    BY <1>4 DEF ApplyRewind
  <2> QED BY <1>0, <2>1 DEF Keeps, WorksOn, SameRoom, HasProgress
<1>5. CASE m.rooms[r].rewind
  <2>1. n = WithRoom(m, r, p)
    BY <1>0, <1>5 DEF ApplyRewind, WithRoom
  <2> HIDE DEF p
  <2>2. WorksOn(m, n, r) /\ n.rooms[r] = p /\ n.ready = m.ready /\ DeferredOf(n, r) = DeferredOf(m, r)
    BY <1>0, <1>3, <2>1, SetRoom
  <2>3. n.retries = m.retries
    BY <1>0, <2>1 DEF WithRoom, Memory
  <2> QED BY <1>1, <1>3, <2>2, <2>3 DEF Keeps, HasProgress
<1> QED BY <1>4, <1>5

\* Where a lane that leaves an event or a page gets to: the next read, the end
\* of its pass, or an event of the page.
Lands(m, n, r) ==
    \/ n.lanes[r].pc = "read"
    \/ /\ n.lanes[r].pc = "done" /\ ~n.lanes[r].failed
       /\ n.lanes[r].more \/ (m.lanes[r].end /\ ~m.rooms[r].rewind /\ FreeRows(m, r) = {})
    \/ /\ n.lanes[r].pc = "check" /\ n.lanes[r].page \subseteq m.lanes[r].page /\ n.lanes[r].event \in m.lanes[r].page
       /\ n.lanes[r].resume = m.lanes[r].resume /\ n.lanes[r].end = m.lanes[r].end
       /\ n.rooms[r].rewind = m.rooms[r].rewind

LEMMA EndPassKeeps ==
    ASSUME NEW m, MemOK(m), NEW r \in Rooms, HasProgress(m, r), NEW b \in BOOLEAN, NEW n, n = EndPass(m, r, b)
    PROVE  Keeps(m, n, r) /\ n.retries[r] = m.retries[r] /\ n.rooms[r] = m.rooms[r] /\ n.lanes[r].pc = "done"
<1>0. m \in Memory /\ BackingOff(m, r) \in BOOLEAN /\ (b /\ ~BackingOff(m, r)) \in BOOLEAN
  BY DEF MemOK, BackingOff
<1>1. /\ WorksOn(m, n, r) /\ n.rooms[r] = m.rooms[r] /\ n.retries[r] = m.retries[r] /\ n.ready = m.ready
      /\ n.lanes[r] = DoneLane(b /\ ~BackingOff(m, r), BackingOff(m, r))
      /\ DeferredOf(n, r) = DeferredOf(m, r)
  BY <1>0, EndPassEffect
<1>2. PICK a \in BOOLEAN, f \in BOOLEAN : n.lanes[r] = DoneLane(a, f)
  BY <1>0, <1>1, Zenon
<1>3. n.lanes[r].pc = "done"
  BY <1>2, DoneLaneFacts
<1>4. MemOK(n)
  BY EndPassOK
<1> QED BY <1>1, <1>3, <1>4 DEF Keeps, HasProgress

\* What the end of a pass notes: a room that cools down failed.
LEMMA EndPassNotes ==
    ASSUME NEW m, MemOK(m), NEW r \in Rooms, HasProgress(m, r), NEW b \in BOOLEAN, NEW n, n = EndPass(m, r, b)
    PROVE  /\ BackingOff(m, r) => n.lanes[r].failed = TRUE
           /\ ~BackingOff(m, r) => n.lanes[r].failed = FALSE /\ n.lanes[r].more = b
<1>0. m \in Memory /\ BackingOff(m, r) \in BOOLEAN /\ (b /\ ~BackingOff(m, r)) \in BOOLEAN
  BY DEF MemOK, BackingOff
<1>1. /\ WorksOn(m, n, r) /\ n.rooms[r] = m.rooms[r] /\ n.retries[r] = m.retries[r] /\ n.ready = m.ready
      /\ n.lanes[r] = DoneLane(b /\ ~BackingOff(m, r), BackingOff(m, r))
      /\ DeferredOf(n, r) = DeferredOf(m, r)
  BY <1>0, EndPassEffect
<1>2. PICK a \in BOOLEAN, f \in BOOLEAN :
        n.lanes[r] = DoneLane(a, f) /\ a = (b /\ ~BackingOff(m, r)) /\ f = BackingOff(m, r)
  BY <1>0, <1>1, Zenon
<1>3. n.lanes[r].more = a /\ n.lanes[r].failed = f
  BY <1>2, DoneLaneFacts
<1>4. (BackingOff(m, r) => f = TRUE) /\ (~BackingOff(m, r) => f = FALSE /\ a = b)
  BY <1>2, Zenon
<1> QED BY <1>3, <1>4, Zenon

\* A pass that breaks off and has more to do.
LEMMA EndPassMore ==
    ASSUME NEW m, MemOK(m), NEW r \in Rooms, HasProgress(m, r), ~BackingOff(m, r), NEW n, n = EndPass(m, r, TRUE)
    PROVE  Keeps(m, n, r) /\ n.lanes[r].pc = "done" /\ ~n.lanes[r].failed /\ n.lanes[r].more
<1>0. PICK b \in BOOLEAN : b = TRUE
  OBVIOUS
<1>1. n = EndPass(m, r, b)
  BY <1>0
<1>2. Keeps(m, n, r) /\ n.lanes[r].pc = "done"
  BY EndPassKeeps
<1>3. /\ BackingOff(m, r) => n.lanes[r].failed = TRUE
      /\ ~BackingOff(m, r) => n.lanes[r].failed = FALSE /\ n.lanes[r].more = b
  BY <1>1, EndPassNotes, Zenon
<1> QED BY <1>0, <1>2, <1>3

\* A pass that ends well.
LEMMA EndPassLast ==
    ASSUME NEW m, MemOK(m), NEW r \in Rooms, HasProgress(m, r), ~BackingOff(m, r), NEW n, n = EndPass(m, r, FALSE)
    PROVE  Keeps(m, n, r) /\ n.lanes[r].pc = "done" /\ ~n.lanes[r].failed
<1>0. PICK b \in BOOLEAN : b = FALSE
  OBVIOUS
<1>1. n = EndPass(m, r, b)
  BY <1>0
<1>2. Keeps(m, n, r) /\ n.lanes[r].pc = "done"
  BY EndPassKeeps
<1>3. /\ BackingOff(m, r) => n.lanes[r].failed = TRUE
      /\ ~BackingOff(m, r) => n.lanes[r].failed = FALSE /\ n.lanes[r].more = b
  BY <1>1, EndPassNotes, Zenon
<1> QED BY <1>2, <1>3

\* A pass that ends and has its room cool down.
LEMMA EndPassCools ==
    ASSUME NEW m, MemOK(m), NEW r \in Rooms, HasProgress(m, r), NEW n, n = EndPass(m, r, FALSE)
    PROVE  /\ Keeps(m, n, r) /\ n.retries[r] = m.retries[r] /\ n.rooms[r] = m.rooms[r]
           /\ n.lanes[r].pc = "done" /\ (BackingOff(m, r) => n.lanes[r].failed)
<1>0. PICK b \in BOOLEAN : b = FALSE
  OBVIOUS
<1>1. n = EndPass(m, r, b)
  BY <1>0
<1>2. Keeps(m, n, r) /\ n.lanes[r].pc = "done"
  BY EndPassKeeps
<1>3. n.retries[r] = m.retries[r]
  BY EndPassEffect DEF MemOK
<1>4. n.rooms[r] = m.rooms[r]
  BY EndPassKeeps
<1>5. /\ BackingOff(m, r) => n.lanes[r].failed = TRUE
      /\ ~BackingOff(m, r) => n.lanes[r].failed = FALSE /\ n.lanes[r].more = b
  BY <1>1, EndPassNotes, Zenon
<1> QED BY <1>2, <1>3, <1>4, <1>5

LEMMA NextPageKeeps ==
    ASSUME NEW m, MemOK(m), NEW r \in Rooms, HasProgress(m, r), ~BackingOff(m, r), NEW n, n = NextPage(m, r)
    PROVE  Keeps(m, n, r) /\ (n.lanes[r].pc = "read" \/ (n.lanes[r].pc = "done" /\ ~n.lanes[r].failed /\ n.lanes[r].more))
<1>0. PICK l : l = [m.lanes[r] EXCEPT !.pc = "read", !.event = 0]
  OBVIOUS
<1>M. m \in Memory
  BY DEF MemOK
<1>1. /\ l \in LaneRecords /\ l.pc = "read"
      /\ NextPage(m, r) = IF m.lanes[r].pages >= MaxPages THEN EndPass(m, r, TRUE) ELSE WithLane(m, r, l)
  BY <1>0, <1>M, NextPageIs
<1>2. CASE n = EndPass(m, r, TRUE)
  BY <1>2, EndPassMore
<1>3. CASE n = WithLane(m, r, l)
  <2>1. /\ WorksOn(m, n, r) /\ n.lanes[r] = l /\ n.rooms[r] = m.rooms[r] /\ n.retries[r] = m.retries[r]
        /\ n.ready = m.ready /\ DeferredOf(n, r) = DeferredOf(m, r)
    <3>1. l \in LaneRecords
      BY <1>1
    <3> QED BY <1>M, <1>3, <3>1, SetLane
  <2>2. MemOK(n)
    BY NextPageOK
  <2> QED BY <1>1, <2>1, <2>2 DEF Keeps, HasProgress
<1> QED BY <1>1, <1>2, <1>3

LEMMA PageEndsKeeps ==
    ASSUME NEW m, MemOK(m), NEW r \in Rooms, HasProgress(m, r), ~BackingOff(m, r), FreeRows(m, r) = {}, NEW n, n = PageEnds(m, r)
    PROVE  Keeps(m, n, r) /\ Lands(m, n, r)
<1>0. PICK k, z, a : k = CursorTo(m, r, m.lanes[r].resume) /\ z = CursorTo(k, r, 0) /\ a = ApplyRewind(k, r)
  OBVIOUS
<1>1. m.lanes[r].resume \in Orders /\ 0 \in Orders
  BY RoomFields, PendingAssumption DEF MemOK, Orders
<1>2. Keeps(m, k, r) /\ k.retries = m.retries
  BY <1>0, <1>1, CursorKeeps
<1>3. MemOK(k) /\ HasProgress(k, r) /\ ~BackingOff(k, r)
  BY <1>2 DEF Keeps, HasProgress, BackingOff
<1>4. Keeps(k, z, r) /\ z.retries = k.retries
  BY <1>0, <1>1, <1>3, CursorKeeps
<1>5. Keeps(k, a, r) /\ a.retries = k.retries
  BY <1>0, <1>3, ApplyRewindKeeps
<1>6. MemOK(z) /\ HasProgress(z, r) /\ ~BackingOff(z, r) /\ MemOK(a) /\ HasProgress(a, r) /\ ~BackingOff(a, r)
  BY <1>3, <1>4, <1>5 DEF Keeps, HasProgress, BackingOff
<1>7. \/ n = NextPage(a, r) \/ n = NextPage(k, r)
      \/ n = EndPass(z, r, FALSE) /\ m.lanes[r].end /\ ~m.rooms[r].rewind
  BY <1>0 DEF PageEnds, CursorTo
<1>8. CASE n = NextPage(a, r)
  <2>1. Keeps(a, n, r) /\ Lands(m, n, r)
    BY <1>6, <1>8, NextPageKeeps DEF Lands
  <2> QED BY <1>2, <1>5, <2>1, KeepsTwice
<1>9. CASE n = NextPage(k, r)
  <2>1. Keeps(k, n, r) /\ Lands(m, n, r)
    BY <1>3, <1>9, NextPageKeeps DEF Lands
  <2> QED BY <1>2, <2>1, KeepsTwice
<1>10. CASE n = EndPass(z, r, FALSE) /\ m.lanes[r].end /\ ~m.rooms[r].rewind
  <2>1. Keeps(z, n, r) /\ Lands(m, n, r)
    BY <1>6, <1>10, EndPassLast DEF Lands
  <2> QED BY <1>2, <1>4, <2>1, KeepsTwice
<1> QED BY <1>7, <1>8, <1>9, <1>10

LEMMA RecordProgressKeeps ==
    ASSUME NEW m, MemOK(m), NEW r \in Rooms, HasProgress(m, r), NEW o, NEW n, n = RecordProgress(m, r, o)
    PROVE  /\ Keeps(m, n, r) /\ n.rooms = m.rooms /\ n.lanes = m.lanes /\ n.deferred = m.deferred
           /\ n.retries[r].at = m.retries[r].at \/ n.retries[r].at = "none"
<1>0. PICK k : k = WithRetry(m, r, NoRetry)
  OBVIOUS
<1>1. m \in Memory /\ NoRetry \in RetryRecords /\ NoRetry.at = "none"
  BY NoRetryFacts DEF MemOK
<1>2. n = m \/ n = k
  BY <1>0 DEF RecordProgress, WithRetry
<1>3. MemOK(n) /\ n.rooms = m.rooms /\ n.lanes = m.lanes /\ n.deferred = m.deferred /\ n.ready = m.ready
  BY RecordProgressOK
<1>4. CASE n = m
  BY <1>1, <1>4 DEF Keeps, WorksOn, SameRoom, HasProgress
<1>5. CASE n = k
  <2>1. WorksOn(m, k, r) /\ k.retries[r] = NoRetry /\ DeferredOf(k, r) = DeferredOf(m, r)
    BY <1>0, <1>1, SetRetry
  <2> QED BY <1>1, <1>3, <1>5, <2>1 DEF Keeps, HasProgress
<1> QED BY <1>2, <1>4, <1>5

LEMMA SkippedKeeps ==
    ASSUME NEW m, MemOK(m), NEW r \in Rooms, HasProgress(m, r), NEW n, n = Skipped(m, r)
    PROVE  Keeps(m, n, r) /\ n.lanes = m.lanes /\ n.rooms[r].rewind = m.rooms[r].rewind /\ n.deferred = m.deferred
<1>0. PICK held : held = {e \in m.lanes[r].page : e < Min(FreeRows(m, r))}
  OBVIOUS
<1>1. n = IF held = {} THEN m ELSE CursorTo(m, r, Max(held))
  BY <1>0 DEF Skipped, CursorTo, FreeRows
<1>2. m \in Memory /\ held \in SUBSET Events /\ Events \in SUBSET Nat /\ Events \subseteq Orders
  BY <1>0, RoomFields, PendingAssumption DEF MemOK, Events, Orders
<1>3. CASE held = {}
  <2>1. n = m
    BY <1>1, <1>3
  <2> QED BY <1>2, <2>1 DEF Keeps, WorksOn, SameRoom, HasProgress
<1>4. CASE held # {}
  <2>1. Max(held) \in Orders
    BY <1>2, <1>4, MaxFacts
  <2>2. n = CursorTo(m, r, Max(held))
    BY <1>1, <1>4
  <2> QED BY <2>1, <2>2, CursorKeeps
<1> QED BY <1>3, <1>4

LEMMA NextEventKeeps ==
    ASSUME NEW m, MemOK(m), NEW r \in Rooms, HasProgress(m, r), ~BackingOff(m, r), NEW n, n = NextEvent(m, r)
    PROVE  Keeps(m, n, r) /\ Lands(m, n, r)
<1>0. PICK free, j, k, l, a : /\ free = FreeRows(m, r) /\ j = Skipped(m, r) /\ k = AtFirst(m, r) /\ l = LaneAt(m, r)
                              /\ a = ApplyRewind(m, r)
  OBVIOUS
<1>1. n = IF m.lanes[r].page # {} /\ m.rooms[r].rewind THEN EndPass(a, r, TRUE)
          ELSE IF free = {} THEN PageEnds(m, r) ELSE WithLane(k, r, l)
  BY <1>0, NextEventIs
<1>2. CASE n = EndPass(a, r, TRUE)
  <2>1. Keeps(m, a, r) /\ a.retries = m.retries
    BY <1>0, ApplyRewindKeeps
  <2>2. MemOK(a) /\ HasProgress(a, r) /\ ~BackingOff(a, r)
    BY <2>1 DEF Keeps, HasProgress, BackingOff
  <2>3. Keeps(a, n, r) /\ n.lanes[r].pc = "done" /\ ~n.lanes[r].failed /\ n.lanes[r].more
    BY <1>2, <2>2, EndPassMore
  <2> QED BY <2>1, <2>3, KeepsTwice DEF Lands
<1>3. CASE free = {} /\ n = PageEnds(m, r)
  BY <1>0, <1>3, PageEndsKeeps
<1>4. CASE free # {} /\ n = WithLane(k, r, l)
  <2>1. Keeps(m, j, r) /\ j.lanes = m.lanes /\ j.rooms[r].rewind = m.rooms[r].rewind /\ j.deferred = m.deferred
    BY <1>0, SkippedKeeps
  <2>2. k = RecordProgress(j, r, Min(free) - 1) /\ MemOK(j) /\ HasProgress(j, r)
    BY <1>0, <2>1 DEF AtFirst, Keeps, HasProgress
  <2>3. Keeps(j, k, r) /\ k.rooms = j.rooms /\ k.lanes = j.lanes
    BY <2>2, RecordProgressKeeps
  <2>4. /\ MemOK(k) /\ l \in LaneRecords /\ l.pc = "check" /\ l.event = Min(free)
        /\ l.page = {e \in m.lanes[r].page : e > Min(free)} /\ l.resume = m.lanes[r].resume /\ l.end = m.lanes[r].end
        /\ Min(free) \in free
    BY <1>0, <1>4, FirstFree
  <2>5. /\ WorksOn(k, n, r) /\ n.lanes[r] = l /\ n.rooms[r] = k.rooms[r] /\ n.retries[r] = k.retries[r] /\ n.ready = k.ready
        /\ DeferredOf(n, r) = DeferredOf(k, r)
    BY <1>4, <2>4, SetLane DEF MemOK
  <2>6. MemOK(n)
    BY NextEventOK
  <2>7. Keeps(k, n, r)
    BY <2>3, <2>5, <2>6 DEF Keeps
  <2>8. Keeps(m, n, r)
    BY <2>1, <2>3, <2>7, KeepsTwice
  <2>9. n.lanes[r].page \subseteq m.lanes[r].page
    BY <2>4, <2>5
  <2>10. n.lanes[r].event \in m.lanes[r].page
    BY <1>0, <2>4, <2>5 DEF FreeRows
  <2>11. /\ n.lanes[r].pc = "check" /\ n.lanes[r].resume = m.lanes[r].resume /\ n.lanes[r].end = m.lanes[r].end
         /\ n.rooms[r].rewind = m.rooms[r].rewind
    BY <2>1, <2>3, <2>4, <2>5
  <2> QED BY <2>8, <2>9, <2>10, <2>11 DEF Lands
<1> QED BY <1>1, <1>2, <1>3, <1>4

\* What holds of a lane between two events of its page.
Mid(m, X, F, r) ==
    /\ m.retries[r].at \notin {"sleeping", "awake"} /\ Marked(m, X, r)
    /\ \A e \in F : e \in m.lanes[r].page => e <= m.rooms[r].admitted
    /\ m.stopped \/ ~m.lanes[r].end \/ \A e \in Events : RoomOf[e] = r /\ m.lanes[r].resume < e => Held(m, X, r, e)

LEMMA LandsPaced ==
    ASSUME NEW m, NEW n, NEW X, NEW F, NEW C, NEW K, NEW r \in Rooms, Between(m, X, K, r), Mid(m, X, F, r),
           Keeps(m, n, r), Lands(m, n, r)
    PROVE  PacedOf(n, X, F, C, r)
<1>1. /\ MemOK(m) /\ m \in Memory /\ n.stopped = m.stopped /\ m.lanes[r].resume \in Int /\ \A e \in Events : e \in Int
  BY RoomFields, PendingAssumption DEF Between, Loose, MemOK, Keeps, WorksOn, Orders, Events
<1>2. n.retries[r].at \notin {"sleeping", "awake"} /\ n.rooms[r].admitted = m.rooms[r].admitted /\ n.rooms[r].cursor # -1
      /\ DeferredOf(n, r) = DeferredOf(m, r)
  BY DEF Mid, Keeps
<1>3. Resting(n, C, r)
  BY <1>2 DEF Resting, Lands
<1>4. PageMarked(n, F, r)
  BY <1>2 DEF PageMarked, Lands, Mid, OnPage, AtEvent
<1>5. Marked(n, X, r)
  BY <1>2 DEF Marked, Mid
<1>6. ASSUME ~m.stopped PROVE EndSafe(n, X, r)
  <2> SUFFICES ASSUME n.lanes[r].pc \in OnPage, n.lanes[r].end, NEW e \in Events, RoomOf[e] = r, n.lanes[r].resume < e
               PROVE  Held(n, X, r, e)
    BY DEF EndSafe
  <2>1. n.lanes[r].resume = m.lanes[r].resume /\ n.lanes[r].end = m.lanes[r].end /\ n.rooms[r].rewind = m.rooms[r].rewind
    BY DEF Lands, OnPage, AtEvent
  <2>2. Held(m, X, r, e)
    BY <1>6, <2>1 DEF Mid
  <2> QED BY <1>2, <2>1, <2>2 DEF Held
<1>7. ASSUME ~m.stopped PROVE DoneSafe(n, X, r)
  <2> SUFFICES ASSUME n.lanes[r].pc = "done", ~n.lanes[r].more, ~n.lanes[r].failed, NEW e \in Events, RoomOf[e] = r
               PROVE  e \in X \/ e \in DeferredOf(n, r)
    BY DEF DoneSafe
  <2>1. m.lanes[r].end /\ ~m.rooms[r].rewind /\ FreeRows(m, r) = {}
    BY DEF Lands
  <2>2. CASE e <= m.lanes[r].resume
    <3>1. Held(m, X, r, e) \/ e \in m.lanes[r].page
      BY <1>7, <2>2 DEF Between
    <3>2. e \in m.lanes[r].page => e \in DeferredOf(m, r)
      BY <2>1 DEF FreeRows, DeferredOf
    <3> QED BY <1>2, <2>1, <3>1, <3>2 DEF Held
  <2>3. CASE m.lanes[r].resume < e
    <3>1. Held(m, X, r, e)
      BY <1>7, <2>1, <2>3 DEF Mid
    <3> QED BY <1>2, <2>1, <3>1 DEF Held
  <2>4. e <= m.lanes[r].resume \/ m.lanes[r].resume < e
    BY <1>1
  <2> QED BY <2>2, <2>3, <2>4
<1> QED BY <1>1, <1>3, <1>4, <1>5, <1>6, <1>7 DEF PacedOf

LEMMA PacedOn ==
    ASSUME NEW m, NEW n, NEW X, NEW F, NEW C, Paced(m, X, F, C), NEW r, WorksOn(m, n, r), r \in Rooms => PacedOf(n, X, F, C, r)
    PROVE  Paced(n, X, F, C)
<1>1. ASSUME NEW s \in Rooms, s # r PROVE PacedOf(n, X, F, C, s)
  <2>1. PacedOf(m, X, F, C, s) /\ SameRoom(m, n, s) /\ n.stopped = m.stopped
    BY <1>1 DEF Paced, WorksOn
  <2> QED BY <2>1 DEF PacedOf, SameRoom, Resting, PageMarked, Marked, EndSafe, DoneSafe, Held
<1> QED BY <1>1 DEF Paced

\* More may be accounted for, and less forbidden.
LEMMA PacedGrows ==
    ASSUME NEW m, NEW X, NEW Y, NEW F, NEW G, NEW C, NEW D, Paced(m, X, F, C), X \subseteq Y, G \subseteq F, C \subseteq D
    PROVE  Paced(m, Y, G, D)
<1> SUFFICES ASSUME NEW r \in Rooms PROVE PacedOf(m, Y, G, D, r)
  BY DEF Paced
<1>1. PacedOf(m, X, F, C, r)
  BY DEF Paced
<1>2. Resting(m, D, r) /\ PageMarked(m, G, r) /\ Marked(m, Y, r)
  BY <1>1 DEF PacedOf, Resting, PageMarked, Marked
<1>3. m.stopped \/ (EndSafe(m, Y, r) /\ DoneSafe(m, Y, r))
  BY <1>1 DEF PacedOf, EndSafe, DoneSafe, Held
<1> QED BY <1>2, <1>3 DEF PacedOf

\* A lane leaves an event that the room need not come back to.
LEMMA PassedBetween ==
    ASSUME NEW m, NEW X, NEW K, Trail(m, X, K), NEW r \in Rooms, m.lanes[r].pc \in AtEvent, NEW e, e = m.lanes[r].event,
           m.stopped \/ Held(m, X, r, e), NEW k, k = CursorTo(m, r, e)
    PROVE  Between(k, X, K, r) /\ k.lanes = m.lanes
<1>1. MemOK(m) /\ TrailOf(m, X, K, r) /\ \A s \in Rooms \ {r} : TrailOf(m, X, K, s)
  BY DEF Trail
<1>2. e \in Events /\ e \in Orders /\ e \in Nat /\ m.lanes[r].resume \in Nat /\ \A d \in Events : d \in Nat
  <2>1. e \in Events /\ m.lanes[r].resume \in Orders
    BY <1>1, InHand, RoomFields DEF MemOK
  <2> QED BY <2>1, PendingAssumption DEF Events, Orders
<1>3. /\ e <= m.lanes[r].resume
      /\ \A d \in m.lanes[r].page : e < d /\ d <= m.lanes[r].resume /\ d \in K
  BY <1>1 DEF TrailOf, PageSound, OnPage
<1>4. m.stopped \/ \A d \in Events : RoomOf[d] = r /\ d <= m.lanes[r].resume => Held(m, X, r, d) \/ d \in m.lanes[r].page
  BY <1>1 DEF TrailOf, PageSafe, OnPage
<1>5. m.stopped \/ \A d \in Events : RoomOf[d] = r /\ d <= e => Held(m, X, r, d)
  <2> SUFFICES ASSUME ~m.stopped, NEW d \in Events, RoomOf[d] = r, d <= e PROVE Held(m, X, r, d)
    OBVIOUS
  <2>1. d \in Nat /\ d <= m.lanes[r].resume
    <3>1. d \in Nat /\ e \in Nat /\ m.lanes[r].resume \in Nat
      BY <1>2
    <3>2. e <= m.lanes[r].resume
      BY <1>3
    <3> QED BY <3>1, <3>2
  <2>2. d \notin m.lanes[r].page
    <3> SUFFICES ASSUME d \in m.lanes[r].page PROVE FALSE
      OBVIOUS
    <3>1. e < d
      BY <1>3
    <3> QED BY <1>2, <2>1, <3>1
  <2> QED BY <1>4, <2>1, <2>2
<1>6. Loose(k, X, K, r) /\ k.lanes = m.lanes /\ k.rooms[r].rewind = m.rooms[r].rewind
  BY <1>1, <1>2, <1>5, CursorLoose
<1>7. k.rooms[r].cursor = e /\ DeferredOf(k, r) = DeferredOf(m, r) /\ k.stopped = m.stopped
  BY <1>1, <1>2, CursorLeaves
<1>8. \A d \in k.lanes[r].page : k.rooms[r].cursor < d /\ d <= k.lanes[r].resume /\ d \in K
  BY <1>3, <1>6, <1>7
<1>9. k.stopped \/ \A d \in Events : RoomOf[d] = r /\ d <= k.lanes[r].resume => Held(k, X, r, d) \/ d \in k.lanes[r].page
  BY <1>4, <1>6, <1>7 DEF Held
<1> QED BY <1>6, <1>8, <1>9 DEF Between

\* A lane on a page, seen between two of its events.
LEMMA MidOf ==
    ASSUME NEW m, NEW X, NEW F, NEW C, NEW r, PacedOf(m, X, F, C, r), m.lanes[r].pc \in OnPage
    PROVE  Mid(m, X, F, r) /\ ~BackingOff(m, r)
<1>1. m.retries[r].at \notin {"sleeping", "awake"}
  BY DEF PacedOf, Resting, OnPage, AtEvent
<1>2. Marked(m, X, r) /\ \A e \in F : e \in m.lanes[r].page => e <= m.rooms[r].admitted
  BY DEF PacedOf, PageMarked
<1>3. m.stopped \/ ~m.lanes[r].end \/ \A e \in Events : RoomOf[e] = r /\ m.lanes[r].resume < e => Held(m, X, r, e)
  BY DEF PacedOf, EndSafe
<1> QED BY <1>1, <1>2, <1>3 DEF Mid, BackingOff

LEMMA PassedPaced ==
    ASSUME NEW m, NEW X, NEW F, NEW C, NEW K, Trail(m, X, K), Paced(m, X, F, C), NEW r \in Rooms, m.lanes[r].pc \in AtEvent,
           NEW e, e = m.lanes[r].event, m.stopped \/ Held(m, X, r, e), NEW n, n = Passed(m, r, e)
    PROVE  Paced(n, X, F, C)
<1>0. PICK k : k = CursorTo(m, r, e)
  OBVIOUS
<1>1. MemOK(m) /\ PacedOf(m, X, F, C, r) /\ m.lanes[r].pc \in OnPage
  BY DEF Trail, Paced, OnPage
<1>2. e \in Orders
  BY <1>1, InHand
<1>3. Keeps(m, k, r) /\ k.lanes = m.lanes /\ k.rooms[r].rewind = m.rooms[r].rewind /\ k.retries = m.retries
  BY <1>0, <1>1, <1>2, CursorKeeps
<1>4. Between(k, X, K, r)
  BY <1>0, PassedBetween
<1>5. Mid(m, X, F, r) /\ ~BackingOff(m, r)
  BY <1>1, MidOf
<1>6. Mid(k, X, F, r) /\ ~BackingOff(k, r)
  <2>1. Marked(k, X, r)
    BY <1>3, <1>5 DEF Mid, Marked, Keeps
  <2>2. k.stopped = m.stopped /\ DeferredOf(k, r) = DeferredOf(m, r) /\ k.rooms[r].admitted = m.rooms[r].admitted
    BY <1>3 DEF Keeps, WorksOn
  <2>3. k.stopped \/ ~k.lanes[r].end \/ \A d \in Events : RoomOf[d] = r /\ k.lanes[r].resume < d => Held(k, X, r, d)
    BY <1>3, <1>5, <2>2 DEF Mid, Held
  <2> QED BY <1>3, <1>5, <2>1, <2>2, <2>3 DEF Mid, BackingOff
<1>7. n = NextEvent(k, r)
  BY <1>0 DEF Passed, CursorTo
<1>8. MemOK(k) /\ HasProgress(k, r)
  BY <1>3 DEF Keeps, HasProgress
<1>9. Keeps(k, n, r) /\ Lands(k, n, r)
  BY <1>6, <1>7, <1>8, NextEventKeeps
<1>10. PacedOf(n, X, F, C, r)
  BY <1>4, <1>6, <1>9, LandsPaced
<1>11. WorksOn(m, n, r)
  BY <1>3, <1>9, WorksTwice DEF Keeps
<1> QED BY <1>10, <1>11, PacedOn

\* A lane gives up the event it has in hand, or takes it for its own.
LEMMA ReleasedPaced ==
    ASSUME NEW m, MemOK(m), NEW X, NEW F, NEW C, NEW K, Trail(m, X, K), Paced(m, X, F, C), NEW r \in Rooms, m.lanes[r].pc \in AtEvent,
           NEW e, e = m.lanes[r].event, NEW n, n = Release(m, e)
    PROVE  Paced(n, X, F, C)
<1>0. e \in Events /\ RoomOf[e] = r /\ PacedOf(m, X, F, C, r) /\ PageSound(m, K, r)
  BY InHand DEF Paced, Trail, TrailOf
<1>1. /\ WorksOn(m, n, r) /\ n.lanes[r] = m.lanes[r] /\ DeferredOf(n, r) = DeferredOf(m, r) \ {e}
      /\ n.rooms[r].cursor = m.rooms[r].cursor /\ n.rooms[r].rewind = m.rooms[r].rewind /\ n.stopped = m.stopped
      /\ n.retries = m.retries /\ n.rooms[r].admitted = m.rooms[r].admitted
  <2>1. LET k == Release(m, e)
            s == RoomOf[e]
        IN  /\ WorksOn(m, k, s) /\ k.lanes[s] = m.lanes[s] /\ DeferredOf(k, s) = DeferredOf(m, s) \ {e}
            /\ k.rooms[s].cursor = m.rooms[s].cursor /\ k.rooms[s].rewind = m.rooms[s].rewind /\ k.stopped = m.stopped
            /\ k.retries = m.retries /\ k.rooms[s].admitted = m.rooms[s].admitted /\ m.ready \subseteq k.ready
    BY <1>0, ReleaseLeaves
  <2> QED BY <1>0, <2>1
<1>2. Resting(n, C, r) /\ PageMarked(n, F, r) /\ Marked(n, X, r)
  BY <1>0, <1>1 DEF PacedOf, Resting, PageMarked, Marked
<1>3. e <= m.lanes[r].resume /\ m.lanes[r].resume \in Int /\ e \in Int
  BY <1>0, RoomFields, PendingAssumption DEF MemOK, PageSound, Orders, Events
<1>4. n.stopped \/ EndSafe(n, X, r)
  <2> SUFFICES ASSUME ~n.stopped, n.lanes[r].end, NEW d \in Events, RoomOf[d] = r, n.lanes[r].resume < d PROVE Held(n, X, r, d)
    BY DEF EndSafe
  <2>1. Held(m, X, r, d)
    BY <1>0, <1>1 DEF PacedOf, EndSafe, OnPage
  <2>2. d # e
    BY <1>1, <1>3
  <2> QED BY <1>1, <2>1, <2>2 DEF Held
<1>5. DoneSafe(n, X, r)
  BY <1>1 DEF DoneSafe, AtEvent
<1>6. PacedOf(n, X, F, C, r)
  BY <1>2, <1>4, <1>5 DEF PacedOf
<1> QED BY <1>1, <1>6, PacedOn

\* The mark moves up.
LEMMA AdmittedPaced ==
    ASSUME NEW m, MemOK(m), NEW X, NEW F, NEW C, Paced(m, X, F, C), NEW r \in Rooms, NEW e \in Orders,
           m.rooms[r].admitted <= e, NEW n, n = Admitted(m, r, e)
    PROVE  /\ Paced(n, X, F, C) /\ WorksOn(m, n, r) /\ n.rooms[r].admitted = e /\ n.lanes = m.lanes /\ n.retries = m.retries
           /\ n.rooms[r].cursor = m.rooms[r].cursor
<1>0. PICK p : p = [m.rooms[r] EXCEPT !.admitted = e]
  OBVIOUS
<1>1. m \in Memory /\ m.rooms[r] \in ProgressRecords /\ m.rooms[r].admitted \in Int /\ e \in Int /\ PacedOf(m, X, F, C, r)
      /\ \A d \in Events : d \in Int
  BY RoomFields, PendingAssumption DEF MemOK, ProgressRecords, Orders, Events, Paced
<1>2. p \in ProgressRecords /\ p.cursor = m.rooms[r].cursor /\ p.rewind = m.rooms[r].rewind /\ p.admitted = e
  BY <1>0, <1>1 DEF ProgressRecords, Orders
<1>3. n = WithRoom(m, r, p)
  BY <1>0 DEF WithRoom, Admitted
<1>4. /\ WorksOn(m, n, r) /\ n.rooms[r] = p /\ n.lanes[r] = m.lanes[r] /\ n.retries[r] = m.retries[r] /\ n.ready = m.ready
      /\ DeferredOf(n, r) = DeferredOf(m, r)
  BY <1>1, <1>2, <1>3, SetRoom
<1>5. n.lanes = m.lanes /\ n.retries = m.retries /\ n.stopped = m.stopped
  BY <1>1, <1>3 DEF WithRoom, Memory
<1>6. \A d \in Events : d <= m.rooms[r].admitted => d <= e
  BY <1>1
<1>7. Resting(n, C, r) /\ Marked(n, X, r)
  BY <1>1, <1>2, <1>4, <1>5, <1>6 DEF PacedOf, Resting, Marked
<1>8. PageMarked(n, F, r)
  <2> SUFFICES ASSUME n.lanes[r].pc \in OnPage, NEW d \in F,
                      d \in n.lanes[r].page \/ (n.lanes[r].pc \in AtEvent /\ d = n.lanes[r].event)
               PROVE  d <= e
    BY <1>2, <1>4 DEF PageMarked
  <2>1. d <= m.rooms[r].admitted
    BY <1>1, <1>4 DEF PacedOf, PageMarked
  <2>2. d \in Events
    BY <1>1, <1>4, InHand, RoomFields
  <2> QED BY <1>6, <2>1, <2>2
<1>9. n.stopped \/ (EndSafe(n, X, r) /\ DoneSafe(n, X, r))
  BY <1>1, <1>2, <1>4, <1>5 DEF PacedOf, EndSafe, DoneSafe, Held
<1>10. PacedOf(n, X, F, C, r)
  BY <1>7, <1>8, <1>9 DEF PacedOf
<1> QED BY <1>2, <1>4, <1>5, <1>10, PacedOn

LEMMA DeferSpared ==
    ASSUME NEW m, MemOK(m), NEW e \in Events, NEW n, n = Defer(m, e), NEW X
    PROVE  Spared(m, n, X)
<1>0. PICK r : r = RoomOf[e]
  OBVIOUS
<1>1. m \in Memory /\ r \in Rooms /\ m.rooms[r] \in ProgressRecords
  BY <1>0, RoomOfEvent, RoomFields DEF MemOK
<1>2. CASE e \in Deferred(m)
  <2>1. n = m
    BY <1>2 DEF Defer
  <2> QED BY <2>1, SparedSame DEF SameRoom
<1>3. CASE e \notin Deferred(m)
  <2>1. /\ WorksOn(m, n, r) /\ n.lanes[r] = m.lanes[r] /\ n.retries[r] = m.retries[r] /\ n.ready = m.ready
        /\ DeferredOf(n, r) = DeferredOf(m, r) \cup {e}
        /\ n.rooms[r] = [Default(m.rooms[r]) EXCEPT !.deferredCount = @ + 1]
    BY <1>0, <1>1, <1>3, DeferEffect
  <2>2. Default(m.rooms[r]) \in ProgressRecords /\ (m.rooms[r].cursor # -1 => Default(m.rooms[r]) = m.rooms[r])
    BY <1>1, DefaultFacts
  <2>3. m.rooms[r].cursor # -1 => /\ n.rooms[r].cursor = m.rooms[r].cursor /\ n.rooms[r].admitted = m.rooms[r].admitted
                                  /\ n.rooms[r].rewind = m.rooms[r].rewind
    BY <2>1, <2>2 DEF ProgressRecords
  <2>4. RoomSpared(m, n, X, r)
    BY <2>1, <2>3 DEF RoomSpared, LaneStarts
  <2> QED BY <2>1, <2>4, SparedOn
<1> QED BY <1>2, <1>3

LEMMA DeferringPaced ==
    ASSUME NEW m, NEW X, NEW F, NEW C, NEW K, Trail(m, X, K), Paced(m, X, F, C), NEW r \in Rooms, m.lanes[r].pc \in AtEvent,
           NEW e, e = m.lanes[r].event, NEW n, n = Deferring(m, r, e)
    PROVE  Paced(n, X, F, C)
<1>0. PICK d, b : d = Defer(m, e) /\ b = Reclaim(d, e)
  OBVIOUS
<1>1. MemOK(m) /\ e \in Events /\ RoomOf[e] = r
  BY InHand DEF Trail
<1>2. Trail(d, X, K) /\ d.lanes[r] = m.lanes[r] /\ d.stopped = m.stopped /\ e \in DeferredOf(d, r)
  BY <1>0, <1>1, DeferTrail
<1>3. Paced(d, X, F, C)
  BY <1>0, <1>1, DeferSpared, SparedPaced
<1>4. LaneRuns(d, r) /\ MemOK(d)
  BY <1>2 DEF LaneRuns, AtEvent, Trail
<1>5. Trail(b, X, K) /\ b.stopped = d.stopped /\ b.lanes[r] = d.lanes[r] /\ (d.stopped \/ b.rooms[r].rewind)
  <2>1. /\ Trail(b, X, K) /\ b.stopped = d.stopped
        /\ LaneRuns(d, RoomOf[e]) => b.lanes[RoomOf[e]] = d.lanes[RoomOf[e]]
        /\ d.stopped \/ b.rooms[RoomOf[e]].rewind
    BY <1>0, <1>1, <1>2, ReclaimedTrail
  <2> QED BY <1>1, <1>4, <2>1
<1>6. Paced(b, X, F, C)
  BY <1>0, <1>1, <1>3, <1>4, ReclaimSpared, SparedPaced
<1>7. n = Passed(d, r, e) \/ n = Passed(b, r, e)
  BY <1>0 DEF Deferring
<1>8. CASE n = Passed(d, r, e)
  <2>1. Held(d, X, r, e)
    BY <1>2 DEF Held
  <2> QED BY <1>2, <1>3, <1>8, <2>1, PassedPaced
<1>9. CASE n = Passed(b, r, e)
  <2>1. b.stopped \/ Held(b, X, r, e)
    BY <1>5 DEF Held
  <2>2. b.lanes[r].pc \in AtEvent /\ e = b.lanes[r].event
    BY <1>2, <1>5
  <2> QED BY <1>5, <1>6, <1>9, <2>1, <2>2, PassedPaced
<1> QED BY <1>7, <1>8, <1>9

\* A pass that ends in a cooldown leaves the mark.
LEMMA CoolingPaced ==
    ASSUME NEW m, MemOK(m), NEW X, NEW F, NEW C, Paced(m, X, F, C), NEW r \in Rooms, HasProgress(m, r), NEW e \in Orders,
           NEW n, n = EndPass(ScheduleRoomRetry(m, r, e), r, FALSE),
           m.retries[r].at # "awake" \/ m.lanes[r].pc = "read"
    PROVE  Paced(n, X, F, C)
<1>0. PICK s : s = ScheduleRoomRetry(m, r, e)
  OBVIOUS
<1>1. MemOK(s) /\ HasProgress(s, r) /\ m \in Memory /\ PacedOf(m, X, F, C, r)
  BY <1>0, ScheduleRoomRetryOK DEF MemOK, Paced
<1>2. WorksOn(m, s, r) /\ s.rooms = m.rooms /\ s.stopped = m.stopped /\ (m.stopped \/ s.retries[r].at = "sleeping") /\ (m.stopped => s = m)
  <2>1. CASE m.stopped
    <3>1. s = m
      BY <1>0, <2>1 DEF ScheduleRoomRetry
    <3> QED BY <1>1, <2>1, <3>1 DEF WorksOn, SameRoom
  <2>2. CASE ~m.stopped
    <3>0. PICK q : q = [at |-> "sleeping", failed |-> IF e = 0 THEN m.retries[r].failed ELSE e]
      OBVIOUS
    <3>1. q \in RetryRecords /\ q.at = "sleeping"
      BY <1>1, <3>0, RoomFields DEF RetryRecords
    <3>2. s = WithRetry(m, r, q)
      BY <1>0, <2>2, <3>0 DEF ScheduleRoomRetry, WithRetry
    <3>3. WorksOn(m, s, r) /\ s.retries[r] = q
      BY <1>1, <3>1, <3>2, SetRetry
    <3>4. s.rooms = m.rooms /\ s.stopped = m.stopped
      BY <1>0, ScheduleRoomRetryLeaves
    <3> QED BY <2>2, <3>1, <3>3, <3>4
  <2> QED BY <2>1, <2>2
<1>3. /\ Keeps(s, n, r) /\ n.retries[r] = s.retries[r] /\ n.rooms[r] = s.rooms[r]
      /\ n.lanes[r].pc = "done" /\ (BackingOff(s, r) => n.lanes[r].failed)
  <2>1. n = EndPass(s, r, FALSE)
    BY <1>0
  <2> QED BY <1>1, <2>1, EndPassCools
<1>4. n.stopped = m.stopped /\ WorksOn(m, n, r)
  BY <1>2, <1>3, WorksTwice DEF Keeps, WorksOn
<1>5. Marked(n, X, r) /\ PageMarked(n, F, r) /\ EndSafe(n, X, r)
  BY <1>1, <1>2, <1>3 DEF PacedOf, Marked, PageMarked, EndSafe, OnPage, AtEvent
<1>6. Resting(n, C, r)
  <2>1. CASE m.stopped
    <3>1. n.retries[r] = m.retries[r]
      BY <1>2, <1>3, <2>1
    <3> QED BY <1>1, <1>3, <1>4, <2>1, <3>1 DEF PacedOf, Resting
  <2>2. CASE ~m.stopped
    BY <1>2, <1>3, <2>2 DEF Resting
  <2> QED BY <2>1, <2>2
<1>7. n.stopped \/ DoneSafe(n, X, r)
  BY <1>2, <1>3, <1>4 DEF DoneSafe, BackingOff
<1>8. PacedOf(n, X, F, C, r)
  BY <1>5, <1>6, <1>7 DEF PacedOf
<1> QED BY <1>4, <1>8, PacedOn

LEMMA LaneRaisesPaced ==
    ASSUME NEW m, NEW X, NEW F, NEW C, NEW K, Trail(m, X, K), Paced(m, X, F, C), NEW r \in Rooms,
           m.lanes[r].pc \notin {"off", "done", "page"}, NEW e, e = m.lanes[r].event, NEW n, n = LaneRaises(m, r, e)
    PROVE  Paced(n, X, F, C)
<1>0. PICK a, f : a = Release(m, e) /\ f = (IF e = 0 THEN m ELSE CursorTo(a, r, e - 1))
  OBVIOUS
<1>1. MemOK(m) /\ HasProgress(m, r) /\ e \in Orders /\ PacedOf(m, X, F, C, r) /\ PageSound(m, K, r) /\ m \in Memory
  BY InHand DEF Trail, TrailOf, Paced, MemOK
<1>2. n = EndPass(ScheduleRoomRetry(f, r, e), r, FALSE)
  BY <1>0 DEF LaneRaises, CursorTo
<1>3. m.retries[r].at # "awake" \/ m.lanes[r].pc = "read"
  BY <1>1 DEF PacedOf, Resting
<1>4. CASE e = 0
  <2>1. f = m
    BY <1>0, <1>4
  <2> QED BY <1>1, <1>2, <1>3, <2>1, CoolingPaced
<1>5. CASE e # 0
  <2>1. m.lanes[r].pc \in AtEvent
    BY <1>1, <1>5 DEF PageSound
  <2>2. Paced(a, X, F, C)
    BY <1>0, <1>1, <2>1, ReleasedPaced
  <2>3. e \in Events /\ RoomOf[e] = r
    BY <1>1, <2>1, InHand
  <2>4. MemOK(a) /\ a.retries = m.retries /\ a.lanes = m.lanes
    <3>1. MemOK(a)
      BY <1>0, <1>1, <2>3, ReleaseOK
    <3>2. a.lanes = m.lanes
      BY <1>0, <1>1, ReleaseLanes
    <3>3. a.retries = m.retries
      BY <1>0, <1>1 DEF Release, Memory
    <3> QED BY <3>1, <3>2, <3>3
  <2>5. e - 1 \in Orders
    BY <2>3, PendingAssumption DEF Events, Orders
  <2>6. f = CursorTo(a, r, e - 1)
    BY <1>0, <1>5
  <2>7. Keeps(a, f, r) /\ f.lanes = a.lanes /\ f.rooms[r].rewind = a.rooms[r].rewind /\ f.retries = a.retries
    BY <2>4, <2>5, <2>6, CursorKeeps
  <2>8. a.rooms[r].cursor # -1 /\ PacedOf(a, X, F, C, r) /\ f.stopped = a.stopped
    BY <2>1, <2>2, <2>4, <2>7, InHand DEF Paced, HasProgress, AtEvent, Keeps, WorksOn
  <2>9. PacedOf(f, X, F, C, r)
    BY <2>7, <2>8 DEF PacedOf, Keeps, Resting, PageMarked, Marked, EndSafe, DoneSafe, Held
  <2>10. Paced(f, X, F, C) /\ MemOK(f) /\ HasProgress(f, r)
    BY <2>2, <2>7, <2>9, PacedOn DEF Keeps, HasProgress
  <2>11. f.retries[r].at # "awake" \/ f.lanes[r].pc = "read"
    BY <1>3, <2>4, <2>7
  <2> QED BY <1>1, <1>2, <2>10, <2>11, CoolingPaced
<1> QED BY <1>4, <1>5

-----------------------------------------------------------------------------
(* The steps of a lane and its room.                                       *)

\* The lane moves on with the event it has in hand.
LEMMA LaneMovesPaced ==
    ASSUME NEW m, NEW X, NEW F, NEW C, MemOK(m), Paced(m, X, F, C), NEW r \in Rooms, m.lanes[r].pc \in AtEvent,
           NEW l \in LaneRecords, l.pc \in AtEvent, l.event = m.lanes[r].event, l.page = m.lanes[r].page,
           l.resume = m.lanes[r].resume, l.end = m.lanes[r].end, NEW n, n = WithLane(m, r, l)
    PROVE  Paced(n, X, F, C) /\ n.lanes[r] = l /\ n.rooms[r] = m.rooms[r]
<1>1. m \in Memory /\ PacedOf(m, X, F, C, r)
  BY DEF MemOK, Paced
<1>2. WorksOn(m, n, r) /\ n.lanes[r] = l /\ n.rooms[r] = m.rooms[r] /\ n.retries[r] = m.retries[r] /\ n.ready = m.ready
      /\ DeferredOf(n, r) = DeferredOf(m, r)
  BY <1>1, SetLane
<1>3. n.stopped = m.stopped /\ m.retries[r].at \notin {"sleeping", "awake"}
  BY <1>1, <1>2 DEF WorksOn, PacedOf, Resting, AtEvent
<1>4. Resting(n, C, r) /\ Marked(n, X, r) /\ DoneSafe(n, X, r)
  BY <1>1, <1>2, <1>3 DEF PacedOf, Resting, Marked, DoneSafe, AtEvent
<1>5. PageMarked(n, F, r)
  BY <1>1, <1>2 DEF PacedOf, PageMarked, OnPage
<1>6. n.stopped \/ EndSafe(n, X, r)
  BY <1>1, <1>2, <1>3 DEF PacedOf, EndSafe, Held, OnPage
<1>7. PacedOf(n, X, F, C, r)
  BY <1>4, <1>5, <1>6 DEF PacedOf
<1> QED BY <1>2, <1>7, PacedOn

LEMMA LaneChecksPaced ==
    ASSUME NEW X, NEW F, NEW C, MemOK(w), Paced(w, X, F, C), NEW r \in Rooms, LaneChecks(r)
    PROVE  Paced(w', X, F, C)
<1>0. PICK l : l = [w.lanes[r] EXCEPT !.pc = "checked", !.pending = state[w.lanes[r].event] = "pending"]
  OBVIOUS
<1>1. w.lanes[r] \in LaneRecords /\ w.lanes[r].pc = "check" /\ w.lanes[r].pc \in AtEvent
  BY RoomFields DEF MemOK, LaneChecks, AtEvent
<1>2. /\ l \in LaneRecords /\ l.pc = "checked" /\ l.event = w.lanes[r].event /\ l.page = w.lanes[r].page
      /\ l.resume = w.lanes[r].resume /\ l.end = w.lanes[r].end /\ l.pc \in AtEvent
  <2>1. (state[w.lanes[r].event] = "pending") \in BOOLEAN /\ "checked" \in LanePCs /\ "checked" \in AtEvent
    BY DEF LanePCs, AtEvent
  <2> QED BY <1>0, <1>1, <2>1 DEF LaneRecords
<1>3. w' = WithLane(w, r, l)
  BY <1>0 DEF LaneChecks, WithLane
<1> QED BY <1>1, <1>2, <1>3, LaneMovesPaced

LEMMA TurnClaimsPaced ==
    ASSUME NEW X, NEW F, NEW C, MemOK(w), Paced(w, X, F, C), NEW r \in Rooms, TurnClaims(r)
    PROVE  Paced(w', X, F, C)
<1>0. PICK l : l = [w.lanes[r] EXCEPT !.handed = TRUE]
  OBVIOUS
<1>1. w.lanes[r] \in LaneRecords /\ w.lanes[r].pc = "callback" /\ w.lanes[r].pc \in AtEvent
  BY RoomFields DEF MemOK, TurnClaims, AtEvent
<1>2. /\ l \in LaneRecords /\ l.pc = "callback" /\ l.event = w.lanes[r].event /\ l.page = w.lanes[r].page
      /\ l.resume = w.lanes[r].resume /\ l.end = w.lanes[r].end /\ l.pc \in AtEvent
  BY <1>0, <1>1 DEF LaneRecords
<1>3. w' = WithLane(w, r, l)
  BY <1>0 DEF TurnClaims, WithLane
<1> QED BY <1>1, <1>2, <1>3, LaneMovesPaced

LEMMA LanePCPaced ==
    ASSUME NEW m, NEW X, NEW F, NEW C, MemOK(m), Paced(m, X, F, C), NEW r \in Rooms, m.lanes[r].pc \in AtEvent,
           NEW pc \in AtEvent, NEW n, n = LanePC(m, r, pc)
    PROVE  Paced(n, X, F, C) /\ n.rooms[r] = m.rooms[r]
<1>0. PICK l : l = [m.lanes[r] EXCEPT !.pc = pc]
  OBVIOUS
<1>1. m.lanes[r] \in LaneRecords /\ pc \in LanePCs
  BY RoomFields DEF MemOK, AtEvent, LanePCs
<1>2. /\ l \in LaneRecords /\ l.pc = pc /\ l.event = m.lanes[r].event /\ l.page = m.lanes[r].page
      /\ l.resume = m.lanes[r].resume /\ l.end = m.lanes[r].end
  BY <1>0, <1>1 DEF LaneRecords
<1>3. n = WithLane(m, r, l)
  BY <1>0 DEF WithLane, LanePC
<1> QED BY <1>2, <1>3, LaneMovesPaced

LEMMA LaneGetsPagePaced ==
    ASSUME NEW X, NEW F, NEW C, NEW K, Trail(w, X, K), Paced(w, X, F, C), NEW r \in Rooms, LaneGetsPage(r)
    PROVE  Paced(w', X, F, C)
<1>1. MemOK(w) /\ TrailOf(w, X, K, r) /\ HasProgress(w, r) /\ w.lanes[r].pc = "page" /\ PacedOf(w, X, F, C, r)
  BY InHand DEF Trail, LaneGetsPage, Paced
<1>2. Loose(w, X, K, r)
  BY <1>1, TrailIsLoose
<1>3. Between(w, X, K, r)
  <2>1. \A e \in w.lanes[r].page : w.rooms[r].cursor < e /\ e <= w.lanes[r].resume /\ e \in K
    BY <1>1 DEF TrailOf, PageSound, OnPage
  <2>2. w.stopped \/ \A e \in Events : RoomOf[e] = r /\ e <= w.lanes[r].resume => Held(w, X, r, e) \/ e \in w.lanes[r].page
    BY <1>1 DEF TrailOf, PageSafe, OnPage, AtEvent
  <2> QED BY <1>2, <2>1, <2>2 DEF Between
<1>4. Mid(w, X, F, r) /\ ~BackingOff(w, r)
  BY <1>1, MidOf DEF OnPage
<1>5. Keeps(w, w', r) /\ Lands(w, w', r)
  <2>1. CASE w.rooms[r].rewind
    <3>1. PICK m : m = ApplyRewind(w, r)
      OBVIOUS
    <3>2. Keeps(w, m, r) /\ m.lanes = w.lanes /\ m.retries = w.retries
      BY <1>1, <3>1, ApplyRewindKeeps
    <3>3. MemOK(m) /\ HasProgress(m, r) /\ ~BackingOff(m, r)
      BY <1>4, <3>2 DEF Keeps, HasProgress, BackingOff
    <3>4. w' = NextPage(m, r)
      BY <2>1, <3>1 DEF LaneGetsPage
    <3>5. Keeps(m, w', r) /\ Lands(w, w', r)
      BY <3>3, <3>4, NextPageKeeps DEF Lands
    <3> QED BY <3>2, <3>5, KeepsTwice
  <2>2. CASE ~w.rooms[r].rewind
    <3>1. w' = NextEvent(w, r)
      BY <2>2 DEF LaneGetsPage
    <3> QED BY <1>1, <1>4, <3>1, NextEventKeeps
  <2> QED BY <2>1, <2>2
<1>6. PacedOf(w', X, F, C, r)
  BY <1>3, <1>4, <1>5, LandsPaced
<1> QED BY <1>5, <1>6, PacedOn DEF Keeps

\* A page that is not full shows every row it was read from.
LEMMA ShortPage ==
    ASSUME NEW rows \in SUBSET Events, BatchSize \in Nat, Cardinality(FirstRows(rows)) < BatchSize
    PROVE  rows \subseteq FirstRows(rows)
<1> SUFFICES ASSUME ~(rows \subseteq FirstRows(rows)) PROVE FALSE
  OBVIOUS
<1>0. PICK P, B, d : P = FirstRows(rows) /\ B = rows \ P /\ d = Min(B)
  OBVIOUS
<1>1. IsFiniteSet(Events) /\ Events \subseteq Nat
  BY FS_Interval, PendingAssumption DEF Events
<1>2. P \subseteq rows
  BY <1>0 DEF FirstRows
<1>3. B \in SUBSET Nat /\ B # {}
  BY <1>0, <1>1
<1>4. d \in B /\ \A i \in B : d <= i
  BY <1>0, <1>3, MinFacts
<1>5. PICK A : A = {x \in rows : x <= d}
  OBVIOUS
<1>6. A \subseteq P \cup {d}
  <2> SUFFICES ASSUME NEW x \in A, x \notin P PROVE x = d
    OBVIOUS
  <2>1. x \in B /\ x <= d
    BY <1>0, <1>5
  <2>2. d <= x /\ x \in Nat /\ d \in Nat
    BY <1>3, <1>4, <2>1
  <2> QED BY <2>1, <2>2
<1>7. IsFiniteSet(P)
  BY <1>1, <1>2, FS_Subset
<1>8. IsFiniteSet(P \cup {d}) /\ Cardinality(P \cup {d}) = Cardinality(P) + 1 /\ Cardinality(P) \in Nat
  BY <1>0, <1>4, <1>7, FS_AddElement, FS_CardinalityType
<1>9. Cardinality(A) <= Cardinality(P \cup {d}) /\ IsFiniteSet(A)
  BY <1>6, <1>8, FS_Subset
<1>10. Cardinality(A) \in Nat
  BY <1>9, FS_CardinalityType
<1>11. Cardinality(A) <= BatchSize
  <2>1. Cardinality(P) < BatchSize
    BY <1>0
  <2> QED BY <1>8, <1>9, <1>10, <2>1
<1>12. d \in P
  BY <1>0, <1>4, <1>5, <1>11 DEF FirstRows
<1> QED BY <1>0, <1>4, <1>12

\* Pages show what is not accounted for outside the lanes.
Shows(X, F) ==
    /\ \A e \in Events : ~Eligible(e) => e \in X
    /\ \A e \in F : Eligible(e) => e \notin X

LEMMA LaneReadsPaced ==
    ASSUME NEW X, NEW F, NEW C, MemOK(w), Paced(w, X, F, C), NEW r \in Rooms, LaneReads(r), BatchSize \in Nat, Shows(X, F)
    PROVE  Paced(w', X, F, C)
<1>0. PICK m, rows, page, resume, l :
         /\ m = ApplyRewind(w, r) /\ rows = PendingRows({r}, m.rooms[r].cursor) /\ page = FirstRows(rows)
         /\ resume = ResumeAfter(page, m.rooms[r].cursor)
         /\ l = [m.lanes[r] EXCEPT !.pc = "page", !.page = page, !.pages = @ + 1, !.resume = resume,
                                   !.end = Cardinality(page) < BatchSize]
  OBVIOUS
<1>1. w' = WithLane(m, r, l) /\ w.lanes[r].pc = "read" /\ w.retries[r].at # "awake"
  BY <1>0 DEF LaneReads, WithLane
<1>2. HasProgress(w, r) /\ PacedOf(w, X, F, C, r)
  BY <1>1, InHand DEF Paced
<1>3. Keeps(w, m, r) /\ m.lanes = w.lanes /\ m.retries = w.retries
  BY <1>0, <1>2, ApplyRewindKeeps
<1>4. MemOK(m) /\ m \in Memory /\ m.rooms[r].cursor \in Orders /\ m.rooms[r].cursor \in Nat
  <2>1. MemOK(m) /\ m.rooms[r].cursor # -1
    BY <1>3 DEF Keeps
  <2>2. m.rooms[r].cursor \in -1..MaxEvent
    BY <2>1, RoomFields DEF MemOK
  <2> QED BY <2>1, <2>2, PendingAssumption DEF Orders, MemOK
<1>5. page \in SUBSET Events /\ rows \in SUBSET Events /\ \A e \in page : RoomOf[e] = r /\ e > m.rooms[r].cursor /\ Eligible(e)
  BY <1>0 DEF FirstRows, PendingRows
<1>6. resume \in Orders /\ (\A e \in page : e <= resume) /\ m.rooms[r].cursor <= resume
  <2>1. resume \in Orders /\ \A e \in page : e <= resume
    BY <1>0, <1>4, <1>5, ResumeFacts
  <2>2. CASE page = {}
    BY <1>0, <1>4, <2>2 DEF ResumeAfter
  <2>3. CASE page # {}
    <3>1. PICK e \in page : TRUE
      BY <2>3
    <3>2. e \in Nat /\ resume \in Nat
      BY <1>5, <2>1, PendingAssumption DEF Events, Orders
    <3> QED BY <1>4, <1>5, <2>1, <3>1, <3>2
  <2> QED BY <2>1, <2>2, <2>3
<1>7. l \in LaneRecords /\ l.pc = "page" /\ l.page = page /\ l.resume = resume /\ l.end = (Cardinality(page) < BatchSize)
  <2>1. m.lanes[r] \in LaneRecords /\ m.lanes[r].pages \in Nat /\ m.lanes[r].pages + 1 \in Nat /\ "page" \in LanePCs
        /\ (Cardinality(page) < BatchSize) \in BOOLEAN
    BY <1>4, RoomFields DEF LanePCs
  <2>2. l = [m.lanes[r] EXCEPT !.pc = "page", !.page = page, !.pages = @ + 1, !.resume = resume,
                               !.end = Cardinality(page) < BatchSize]
    BY <1>0
  <2> HIDE <1>0
  <2> QED BY <1>5, <1>6, <2>1, <2>2 DEF LaneRecords
<1>8. /\ WorksOn(m, w', r) /\ w'.lanes[r] = l /\ w'.rooms[r] = m.rooms[r] /\ w'.retries[r] = m.retries[r]
      /\ DeferredOf(w', r) = DeferredOf(m, r)
  BY <1>1, <1>4, <1>7, SetLane
<1>9. Resting(w', C, r)
  BY <1>1, <1>2, <1>3, <1>7, <1>8 DEF PacedOf, Resting
<1>10. Marked(w', X, r)
  BY <1>2, <1>3, <1>8 DEF PacedOf, Marked, Keeps
<1>11. PageMarked(w', F, r)
  <2> SUFFICES ASSUME NEW e \in F, e \in page PROVE e <= w'.rooms[r].admitted
    BY <1>7, <1>8 DEF PageMarked, AtEvent
  <2>1. e \in Events \ X /\ RoomOf[e] = r
    BY <1>5 DEF Shows
  <2> QED BY <1>10, <2>1 DEF Marked
<1>12. EndSafe(w', X, r)
  <2> SUFFICES ASSUME w'.lanes[r].end, NEW e \in Events, RoomOf[e] = r, w'.lanes[r].resume < e PROVE e \in X
    BY DEF EndSafe, Held
  <2>1. Cardinality(page) < BatchSize /\ resume < e
    BY <1>7, <1>8
  <2>2. e \in Nat /\ resume \in Nat
    BY <1>6, PendingAssumption DEF Events, Orders
  <2>3. e \notin page
    BY <1>6, <2>1, <2>2
  <2>4. e \notin rows
    <3>1. Cardinality(FirstRows(rows)) < BatchSize
      BY <1>0, <2>1
    <3>2. rows \subseteq page
      BY <1>0, <1>5, <3>1, ShortPage
    <3> QED BY <2>3, <3>2
  <2>5. e > m.rooms[r].cursor
    BY <1>4, <1>6, <2>1, <2>2
  <2>6. ~Eligible(e)
    BY <1>0, <2>4, <2>5 DEF PendingRows
  <2> QED BY <2>6 DEF Shows
<1>13. DoneSafe(w', X, r)
  BY <1>7, <1>8 DEF DoneSafe
<1>14. PacedOf(w', X, F, C, r)
  BY <1>9, <1>10, <1>11, <1>12, <1>13 DEF PacedOf
<1>15. WorksOn(w, w', r)
  BY <1>3, <1>8, WorksTwice DEF Keeps
<1> QED BY <1>14, <1>15, PacedOn

\* The room of a lane that has it read again.
LEMMA RewoundPaced ==
    ASSUME NEW m, MemOK(m), NEW X, NEW F, NEW C, Paced(m, X, F, C), NEW r \in Rooms, m.lanes[r].pc \in OnPage,
           NEW n, n = EndPass(ApplyRewind(m, r), r, TRUE)
    PROVE  Paced(n, X, F, C)
<1>0. PICK a : a = ApplyRewind(m, r)
  OBVIOUS
<1>1. HasProgress(m, r) /\ PacedOf(m, X, F, C, r)
  BY InHand DEF Paced, OnPage, AtEvent
<1>2. Mid(m, X, F, r) /\ ~BackingOff(m, r)
  BY <1>1, MidOf
<1>3. Keeps(m, a, r) /\ a.lanes = m.lanes /\ a.retries = m.retries
  BY <1>0, <1>1, ApplyRewindKeeps
<1>4. MemOK(a) /\ HasProgress(a, r) /\ ~BackingOff(a, r)
  BY <1>2, <1>3 DEF Keeps, HasProgress, BackingOff
<1>5. n = EndPass(a, r, TRUE)
  BY <1>0
<1>6. Keeps(a, n, r) /\ n.lanes[r].pc = "done" /\ ~n.lanes[r].failed /\ n.lanes[r].more
  BY <1>4, <1>5, EndPassMore
<1>7. Keeps(m, n, r)
  BY <1>3, <1>6, KeepsTwice
<1>8. Resting(n, C, r) /\ PageMarked(n, F, r) /\ EndSafe(n, X, r) /\ DoneSafe(n, X, r)
  BY <1>2, <1>6, <1>7 DEF Mid, Keeps, Resting, PageMarked, EndSafe, DoneSafe, OnPage, AtEvent
<1>9. Marked(n, X, r)
  BY <1>2, <1>7 DEF Mid, Keeps, Marked
<1>10. PacedOf(n, X, F, C, r)
  BY <1>8, <1>9 DEF PacedOf
<1> QED BY <1>7, <1>10, PacedOn DEF Keeps

\* The lane of r runs the callback of its event.
Runs(r) ==
    LET e == w.lanes[r].event
    IN  /\ LaneAdmits(r) /\ Fresh(r) /\ ~(e \in TurnBacked /\ HasLiveOwner(e))
        /\ w' = LanePC(Admitted(w, r, e), r, "callback") /\ cooled' = cooled \ {e}

LEMMA LaneAdmitsWays ==
    ASSUME NEW r \in Rooms, LaneAdmits(r), NEW e, e = w.lanes[r].event
    PROVE  /\ w.lanes[r].pc = "checked" /\ ~w.stopped
           /\ \/ Runs(r)
              \/ /\ cooled' = cooled
                 /\ \/ w' = EndPass(ApplyRewind(w, r), r, TRUE)
                    \/ w' = Passed(Release(w, e), r, e) /\ ~w.lanes[r].pending
                    \/ w' = EndPass(ScheduleRoomRetry(w, r, e), r, FALSE)
                    \/ w' = Deferring(Admitted(w, r, e), r, e) /\ Fresh(r)
<1>1. Fresh(r) /\ ~(e \in TurnBacked /\ HasLiveOwner(e)) /\ cooled' = cooled \ {e}
        /\ w' = [[w EXCEPT !.rooms[r].admitted = e] EXCEPT !.lanes[r].pc = "callback"] => Runs(r)
  BY DEF Runs, LanePC, Admitted
<1> QED BY <1>1 DEF LaneAdmits, Admitted, history

LEMMA LaneAdmitsPaced ==
    ASSUME NEW X, NEW F, NEW C, NEW K, Trail(w, X, K), Paced(w, X, F, C), NEW r \in Rooms, LaneAdmits(r), ~Runs(r),
           NEW S, Sure(w, S), S \subseteq X
    PROVE  Paced(w', X, F, C)
<1>0. PICK e, b, c : e = w.lanes[r].event /\ b = Admitted(w, r, e) /\ c = Release(w, e)
  OBVIOUS
<1>1. w.lanes[r].pc = "checked" /\ w.lanes[r].pc \in AtEvent /\ w.lanes[r].pc \in OnPage /\ MemOK(w)
      /\ PacedOf(w, X, F, C, r)
  BY <1>0, LaneAdmitsWays DEF AtEvent, OnPage, Trail, Paced
<1>2. e \in Events /\ e \in Orders /\ RoomOf[e] = r /\ HasProgress(w, r)
  BY <1>0, <1>1, InHand
<1>3. \/ w' = EndPass(ApplyRewind(w, r), r, TRUE)
      \/ w' = Passed(c, r, e) /\ ~w.lanes[r].pending
      \/ w' = EndPass(ScheduleRoomRetry(w, r, e), r, FALSE)
      \/ w' = Deferring(b, r, e) /\ Fresh(r)
  BY <1>0, LaneAdmitsWays
<1>4. CASE w' = EndPass(ApplyRewind(w, r), r, TRUE)
  BY <1>1, <1>4, RewoundPaced
<1>5. CASE w' = Passed(c, r, e) /\ ~w.lanes[r].pending
  <2>1. e \in X
    BY <1>0, <1>1, <1>5 DEF Sure
  <2>2. Trail(c, X, K) /\ c.lanes[r] = w.lanes[r]
    BY <1>0, <1>2, <2>1, ReleaseTrail
  <2>3. Paced(c, X, F, C)
    BY <1>0, <1>1, <1>2, <2>1, ReleaseSpared, SparedPaced
  <2>4. Held(c, X, r, e)
    BY <2>1 DEF Held
  <2> QED BY <1>0, <1>1, <1>5, <2>2, <2>3, <2>4, PassedPaced
<1>6. CASE w' = EndPass(ScheduleRoomRetry(w, r, e), r, FALSE)
  <2>1. w.retries[r].at # "awake" \/ w.lanes[r].pc = "read"
    BY <1>1 DEF PacedOf, Resting
  <2> QED BY <1>1, <1>2, <1>6, <2>1, CoolingPaced
<1>7. CASE w' = Deferring(b, r, e) /\ Fresh(r)
  <2>1. w.rooms[r].admitted <= e
    <3>1. e > w.rooms[r].admitted
      BY <1>0, <1>7 DEF Fresh
    <3>2. w.rooms[r].admitted \in Int /\ e \in Int
      BY <1>1, <1>2, RoomFields, PendingAssumption DEF MemOK, Orders
    <3> QED BY <3>1, <3>2
  <2>2. Paced(b, X, F, C) /\ b.lanes = w.lanes
    BY <1>0, <1>1, <1>2, <2>1, AdmittedPaced
  <2>3. Trail(b, X, K)
    BY <1>0, <1>2, AdmittedTrail
  <2> QED BY <1>0, <1>1, <1>7, <2>2, <2>3, DeferringPaced
<1> QED BY <1>3, <1>4, <1>5, <1>6, <1>7

\* A callback that runs marks its event, which from then on may not run again.
LEMMA RunsPaced ==
    ASSUME NEW X, NEW F, NEW C, NEW K, Trail(w, X, K), Paced(w, X, F, C), NEW r \in Rooms, Runs(r), Trail(w', X, K),
           NEW e, e = w.lanes[r].event
    PROVE  Trail(w', X \ {e}, K) /\ Paced(w', X \ {e}, F \cup {e}, C \ {e})
<1>0. PICK b : b = Admitted(w, r, e)
  OBVIOUS
<1>1. w.lanes[r].pc = "checked" /\ w.lanes[r].pc \in AtEvent /\ Fresh(r) /\ w' = LanePC(b, r, "callback") /\ MemOK(w)
  BY <1>0 DEF Runs, LaneAdmits, AtEvent, Trail
<1>2. e \in Events /\ e \in Orders /\ RoomOf[e] = r /\ HasProgress(w, r) /\ e \in Int /\ \A d \in Events : d \in Int
  <2>1. e \in Events /\ e \in Orders /\ RoomOf[e] = r /\ HasProgress(w, r)
    BY <1>1, InHand DEF AtEvent
  <2> QED BY <2>1, PendingAssumption DEF Events
<1>3. w.rooms[r].admitted <= e
  <2>1. e > w.rooms[r].admitted
    BY <1>1 DEF Fresh
  <2>2. w.rooms[r].admitted \in Int
    BY <1>1, RoomFields, PendingAssumption DEF MemOK, Orders
  <2> QED BY <1>2, <2>1, <2>2
<1>4. Paced(b, X, F, C) /\ b.rooms[r].admitted = e /\ b.lanes = w.lanes /\ b.rooms[r].cursor = w.rooms[r].cursor
  BY <1>0, <1>1, <1>2, <1>3, AdmittedPaced
<1>5. Trail(b, X, K)
  BY <1>0, <1>2, AdmittedTrail
<1>6. /\ w'.lanes[r].pc = "callback" /\ w'.lanes[r].event = e
  BY <1>1, <1>4, <1>5, LanePCTrail DEF AtEvent
<1>7. Paced(w', X, F, C) /\ w'.rooms[r] = b.rooms[r]
  BY <1>1, <1>4, <1>5, LanePCPaced DEF AtEvent, Trail
<1>8. MemOK(w') /\ TrailOf(w', X, K, r) /\ PacedOf(w', X, F, C, r)
  BY <1>7 DEF Trail, Paced
<1>9. /\ w'.rooms[r].cursor < e /\ e <= w'.lanes[r].resume /\ w'.rooms[r].cursor \in Int /\ w'.lanes[r].resume \in Int
  <2>1. w'.rooms[r].cursor < e /\ e <= w'.lanes[r].resume
    BY <1>6, <1>8 DEF TrailOf, PageSound, AtEvent
  <2>2. w'.rooms[r].cursor \in Int /\ w'.lanes[r].resume \in Int
    BY <1>8, RoomFields, PendingAssumption DEF MemOK, Orders
  <2> QED BY <2>1, <2>2
<1>10. TrailOf(w', X \ {e}, K, r)
  <2>1. PageSound(w', K, r)
    BY <1>8 DEF TrailOf
  <2>2. ASSUME ~w'.stopped PROVE CursorSafe(w', X \ {e}, r)
    <3> SUFFICES ASSUME NEW d \in Events, RoomOf[d] = r, d <= w'.rooms[r].cursor PROVE Held(w', X \ {e}, r, d)
      BY DEF CursorSafe
    <3>1. Held(w', X, r, d)
      BY <1>8, <2>2 DEF TrailOf, CursorSafe
    <3>2. d # e
      BY <1>2, <1>9
    <3> QED BY <3>1, <3>2 DEF Held
  <2>3. ASSUME ~w'.stopped PROVE PageSafe(w', X \ {e}, r)
    BY <1>6, <1>8, <2>3 DEF TrailOf, PageSafe, Held, AtEvent
  <2> QED BY <2>1, <2>2, <2>3 DEF TrailOf
<1>11. ASSUME NEW s \in Rooms \ {r} PROVE TrailOf(w', X \ {e}, K, s)
  <2>1. TrailOf(w', X, K, s) /\ \A d \in X \ (X \ {e}) : d \in Events => RoomOf[d] # s
    BY <1>2 DEF Trail
  <2> QED BY <2>1, TrailElsewhere
<1>12. PacedOf(w', X \ {e}, F \cup {e}, C \ {e}, r)
  <2>1. Resting(w', C \ {e}, r)
    BY <1>6, <1>8 DEF PacedOf, Resting
  <2>2. w'.rooms[r].admitted = e /\ w'.rooms[r].cursor # -1 /\ e <= e
    BY <1>2, <1>4, <1>7 DEF HasProgress
  <2>3. PageMarked(w', F \cup {e}, r)
    BY <1>8, <2>2 DEF PacedOf, PageMarked
  <2>4. Marked(w', X \ {e}, r)
    BY <1>8, <2>2 DEF PacedOf, Marked
  <2>5. ASSUME ~w'.stopped PROVE EndSafe(w', X \ {e}, r)
    <3> SUFFICES ASSUME w'.lanes[r].end, NEW d \in Events, RoomOf[d] = r, w'.lanes[r].resume < d PROVE Held(w', X \ {e}, r, d)
      BY DEF EndSafe
    <3>1. Held(w', X, r, d)
      BY <1>6, <1>8, <2>5 DEF PacedOf, EndSafe, OnPage, AtEvent
    <3>2. d # e
      BY <1>2, <1>9
    <3> QED BY <3>1, <3>2 DEF Held
  <2>6. DoneSafe(w', X \ {e}, r)
    BY <1>6 DEF DoneSafe
  <2> QED BY <2>1, <2>3, <2>4, <2>5, <2>6 DEF PacedOf
<1>13. ASSUME NEW s \in Rooms \ {r} PROVE PacedOf(w', X \ {e}, F \cup {e}, C \ {e}, s)
  <2>1. PacedOf(w', X, F, C, s) /\ RoomOf[e] # s
    BY <1>2, <1>7 DEF Paced
  <2>2. Resting(w', C \ {e}, s) /\ Marked(w', X \ {e}, s)
    BY <2>1 DEF PacedOf, Resting, Marked
  <2>3. PageMarked(w', F \cup {e}, s)
    <3>1. e \notin w'.lanes[s].page /\ (w'.lanes[s].pc \in AtEvent => e # w'.lanes[s].event)
      BY <1>8, <2>1, InHand
    <3> QED BY <2>1, <3>1 DEF PacedOf, PageMarked
  <2>4. w'.stopped \/ (EndSafe(w', X \ {e}, s) /\ DoneSafe(w', X \ {e}, s))
    BY <2>1 DEF PacedOf, EndSafe, DoneSafe, Held
  <2> QED BY <2>2, <2>3, <2>4 DEF PacedOf
<1>14. Trail(w', X \ {e}, K)
  BY <1>8, <1>10, <1>11 DEF Trail
<1> QED BY <1>12, <1>13, <1>14 DEF Paced

LEMMA CallbackSettlesPaced ==
    ASSUME NEW X, NEW F, NEW C, NEW K, Trail(w, X, K), Paced(w, X, F, C), NEW r \in Rooms, CallbackSettles(r)
    PROVE  Paced(w', X, F, C)
<1>0. PICK e, n : e = w.lanes[r].event /\ n = Release(w, e)
  OBVIOUS
<1>1. w.lanes[r].pc \in AtEvent /\ MemOK(w) /\ w \in Memory
  BY DEF CallbackSettles, AtEvent, Trail, MemOK
<1>2. Paced(n, X, F, C)
  BY <1>0, <1>1, ReleasedPaced
<1>3. MemOK(n) /\ n.lanes = w.lanes
  BY <1>0, <1>1, InHand, ReleaseOK, ReleaseLanes
<1>4. w' = LanePC(n, r, "settle") /\ "settle" \in AtEvent
  BY <1>0 DEF CallbackSettles, LanePC, AtEvent
<1> QED BY <1>1, <1>2, <1>3, <1>4, LanePCPaced

LEMMA CallbackDefersPaced ==
    ASSUME NEW X, NEW F, NEW C, NEW K, Trail(w, X, K), Paced(w, X, F, C), NEW r \in Rooms, CallbackDefers(r)
    PROVE  Paced(w', X, F, C)
<1>1. w.lanes[r].pc \in AtEvent /\ w' = Deferring(w, r, w.lanes[r].event)
  BY DEF CallbackDefers, AtEvent
<1> QED BY <1>1, DeferringPaced

\* Progress ends a cooldown's history.
LEMMA RecordedPaced ==
    ASSUME NEW m, MemOK(m), NEW X, NEW F, NEW C, Paced(m, X, F, C), NEW r \in Rooms, HasProgress(m, r), m.lanes[r].pc # "done",
           NEW o, NEW n, n = RecordProgress(m, r, o)
    PROVE  Paced(n, X, F, C)
<1>1. /\ Keeps(m, n, r) /\ n.rooms = m.rooms /\ n.lanes = m.lanes
      /\ n.retries[r].at = m.retries[r].at \/ n.retries[r].at = "none"
  BY RecordProgressKeeps
<1>2. PacedOf(m, X, F, C, r) /\ n.stopped = m.stopped
  BY <1>1 DEF Paced, Keeps, WorksOn
<1>3. Resting(n, C, r)
  BY <1>1, <1>2 DEF PacedOf, Resting
<1>4. PacedOf(n, X, F, C, r)
  BY <1>1, <1>2, <1>3 DEF PacedOf, PageMarked, Marked, EndSafe, DoneSafe, Held, Keeps
<1> QED BY <1>1, <1>4, PacedOn DEF Keeps

LEMMA LaneSettlesPaced ==
    ASSUME NEW X, NEW F, NEW C, NEW K, Trail(w, X, K), Paced(w, X, F, C), NEW r \in Rooms, LaneSettles(r), w.lanes[r].event \in X
    PROVE  Paced(w', X, F, C)
<1>0. PICK e, n : e = w.lanes[r].event /\ n = RecordProgress(w, r, e)
  OBVIOUS
<1>1. MemOK(w) /\ w.lanes[r].pc \in AtEvent /\ w.lanes[r].pc = "settle" /\ w' = Passed(n, r, e) /\ HasProgress(w, r)
  BY <1>0, InHand DEF Trail, LaneSettles, AtEvent
<1>2. n.rooms = w.rooms /\ n.lanes = w.lanes /\ n.deferred = w.deferred /\ n.stopped = w.stopped
  BY <1>0, <1>1, RecordProgressLeaves
<1>3. MemOK(n)
  BY <1>0, <1>1, RecordProgressOK
<1>4. Trail(n, X, K)
  BY <1>2, <1>3, TrailPlaces DEF Trail
<1>5. Paced(n, X, F, C)
  BY <1>0, <1>1, RecordedPaced
<1>6. Held(n, X, r, e)
  BY <1>0 DEF Held
<1> QED BY <1>0, <1>1, <1>2, <1>4, <1>5, <1>6, PassedPaced

LEMMA LaneFailsPaced ==
    ASSUME NEW X, NEW F, NEW C, NEW K, Trail(w, X, K), Paced(w, X, F, C), NEW r \in Rooms, LaneFails(r)
    PROVE  Paced(w', X, F, C)
<1>1. w.lanes[r].pc \notin {"off", "done", "page"} /\ w' = LaneRaises(w, r, w.lanes[r].event)
  BY DEF LaneFails
<1> QED BY <1>1, LaneRaisesPaced

\* A lane is gone.
LEMMA LaneOffPaced ==
    ASSUME NEW m, MemOK(m), NEW X, NEW F, NEW C, Paced(m, X, F, C), NEW r \in Rooms, NEW n, n = WithLane(m, r, NoLane)
    PROVE  /\ Paced(n, X, F, C) /\ n.rooms = m.rooms /\ n.lanes[r].pc = "off" /\ n.retries[r] = m.retries[r]
           /\ n.ready = m.ready /\ n.stopped = m.stopped /\ DeferredOf(n, r) = DeferredOf(m, r)
<1>1. m \in Memory /\ PacedOf(m, X, F, C, r) /\ n.rooms = m.rooms
  BY LaneOffOK DEF MemOK, Paced
<1>2. /\ WorksOn(m, n, r) /\ n.lanes[r].pc = "off" /\ n.retries[r] = m.retries[r] /\ n.ready = m.ready
      /\ DeferredOf(n, r) = DeferredOf(m, r)
  BY <1>1, NoLaneFacts, SetLane
<1>3. n.stopped = m.stopped
  BY <1>2 DEF WorksOn
<1>4. PacedOf(n, X, F, C, r)
  BY <1>1, <1>2 DEF PacedOf, Resting, PageMarked, Marked, EndSafe, DoneSafe, OnPage, AtEvent
<1> QED BY <1>1, <1>2, <1>3, <1>4, PacedOn

LEMMA LaneCancelledPaced ==
    ASSUME NEW X, NEW F, NEW C, MemOK(w), Paced(w, X, F, C), NEW r \in Rooms, LaneCancelled(r)
    PROVE  Paced(w', X, F, C)
<1>1. w' = WithLane(w, r, NoLane)
  BY DEF LaneCancelled, WithLane
<1> QED BY <1>1, LaneOffPaced

\* A room that is to run again.
LEMMA ReadyPaced ==
    ASSUME NEW m, MemOK(m), NEW X, NEW F, NEW C, Paced(m, X, F, C), NEW r \in Rooms, NEW n, n = [m EXCEPT !.ready = @ \cup {r}]
    PROVE  Paced(n, X, F, C) /\ n.lanes = m.lanes /\ n.rooms = m.rooms /\ n.retries = m.retries /\ r \in n.ready
<1>0. m \in Memory
  BY DEF MemOK
<1>1. /\ n.rooms = m.rooms /\ n.lanes = m.lanes /\ n.retries = m.retries
      /\ n.ready = m.ready \cup {r} /\ n.deferred = m.deferred /\ n.stopped = m.stopped
  BY <1>0 DEF Memory
<1>2. \A s \in Rooms : DeferredOf(n, s) = DeferredOf(m, s)
  BY <1>1 DEF DeferredOf, Deferred
<1>3. Spared(m, n, X)
  BY <1>1, <1>2 DEF Spared, RoomSpared, LaneStarts
<1> QED BY <1>1, <1>3, SparedPaced

\* A room is forgotten that leaves nothing behind it.
LEMMA ForgottenPaced ==
    ASSUME NEW m, MemOK(m), NEW X, NEW F, NEW C, Paced(m, X, F, C), NEW r \in Rooms, m.lanes[r].pc = "off",
           m.retries[r].at = "none", \A e \in Events : RoomOf[e] = r => e \in X, NEW n, n = WithRoom(m, r, NoProgress)
    PROVE  Paced(n, X, F, C)
<1>1. m \in Memory
  BY DEF MemOK
<1>2. WorksOn(m, n, r) /\ n.lanes[r] = m.lanes[r] /\ n.retries[r] = m.retries[r]
  BY <1>1, NoProgressFacts, SetRoom
<1>3. PacedOf(n, X, F, C, r)
  BY <1>2 DEF PacedOf, Resting, PageMarked, Marked, EndSafe, DoneSafe, OnPage, AtEvent
<1> QED BY <1>2, <1>3, PacedOn

LEMMA LaneFinishedPaced ==
    ASSUME NEW X, NEW F, NEW C, MemOK(w), Paced(w, X, F, C), NEW r \in Rooms, LaneFinished(r)
    PROVE  Paced(w', X, F, C)
<1> DEFINE lane == w.lanes[r]
           closed == WithLane(w, r, NoLane)
           clear == ~lane.failed /\ ~lane.more /\ w.rooms[r].deferredCount = 0
           progressed == IF clear THEN RecordProgress(closed, r, MaxEvent) ELSE closed
           queued == IF lane.more THEN [progressed EXCEPT !.ready = @ \cup {r}] ELSE progressed
           gone == WithRoom(queued, r, NoProgress)
           next == IF r \in queued.ready THEN StartLanes(queued, {r})
                   ELSE IF queued.retries[r].at = "none" /\ queued.rooms[r].deferredCount = 0 THEN gone ELSE queued
<1>1. lane.pc = "done" /\ w' = IF w.stopped THEN closed ELSE ScheduleProbe(next)
  BY DEF LaneFinished, WithLane, WithRoom
<1>2. /\ Paced(closed, X, F, C) /\ closed.rooms = w.rooms /\ closed.lanes[r].pc = "off" /\ closed.retries[r] = w.retries[r]
      /\ closed.ready = w.ready /\ closed.stopped = w.stopped
  BY LaneOffPaced
<1>3. MemOK(closed) /\ HasProgress(w, r) /\ PacedOf(w, X, F, C, r) /\ w \in Memory /\ Booked(w, r)
  BY <1>1, LaneOffOK, InHand DEF Paced, MemOK
<1>4. HasProgress(closed, r)
  BY <1>2, <1>3 DEF HasProgress
<1> HIDE DEF closed
<1>5. /\ Paced(progressed, X, F, C) /\ MemOK(progressed) /\ progressed.rooms = w.rooms /\ progressed.lanes[r].pc = "off"
      /\ progressed.ready = w.ready /\ (lane.failed => progressed.retries[r] = w.retries[r])
  <2>1. PICK p : p = RecordProgress(closed, r, MaxEvent)
    OBVIOUS
  <2>2. p.rooms = closed.rooms /\ p.lanes = closed.lanes /\ p.ready = closed.ready
    BY <1>3, <2>1, RecordProgressLeaves
  <2>3. MemOK(p)
    BY <1>3, <2>1, RecordProgressOK
  <2>4. Paced(p, X, F, C)
    BY <1>2, <1>3, <1>4, <2>1, RecordedPaced
  <2>5. CASE clear
    <3>1. progressed = p /\ ~lane.failed
      BY <2>1, <2>5
    <3> HIDE DEF progressed, clear
    <3> QED BY <1>2, <2>2, <2>3, <2>4, <3>1
  <2>6. CASE ~clear
    <3>1. progressed = closed
      BY <2>6
    <3> HIDE DEF progressed, clear
    <3> QED BY <1>2, <1>3, <3>1
  <2> QED BY <2>5, <2>6
<1> HIDE DEF progressed
<1>6. /\ Paced(queued, X, F, C) /\ MemOK(queued) /\ queued.rooms = w.rooms /\ queued.lanes[r].pc = "off"
      /\ (lane.failed => queued.retries[r] = w.retries[r]) /\ (lane.more => r \in queued.ready)
      /\ (~lane.more => queued.ready = w.ready)
  <2>1. PICK q : q = [progressed EXCEPT !.ready = @ \cup {r}]
    OBVIOUS
  <2>2. Paced(q, X, F, C) /\ q.lanes = progressed.lanes /\ q.rooms = progressed.rooms /\ q.retries = progressed.retries /\ r \in q.ready
    BY <1>5, <2>1, ReadyPaced
  <2>3. MemOK(q)
    <3>1. /\ progressed \in Memory /\ q \in Memory /\ q.ready = progressed.ready \cup {r} /\ q.deferred = progressed.deferred
          /\ q.stopped = progressed.stopped
      BY <1>5, <2>1 DEF MemOK, Memory
    <3>2. \A s \in Rooms : DeferredOf(q, s) = DeferredOf(progressed, s)
      BY <3>1 DEF DeferredOf, Deferred
    <3>3. Booked(q, r)
      BY <1>3, <1>5, <2>2, <3>2 DEF MemOK, Booked, HasProgress
    <3>4. WorksOn(progressed, q, r)
      BY <2>2, <3>1, <3>2 DEF SameRoom, WorksOn
    <3> QED BY <1>5, <3>3, <3>4, BookedOn
  <2>4. CASE lane.more
    <3>1. queued = q
      BY <2>1, <2>4
    <3> HIDE DEF queued
    <3> QED BY <1>5, <2>2, <2>3, <2>4, <3>1
  <2>5. CASE ~lane.more
    <3>1. queued = progressed
      BY <2>5
    <3> HIDE DEF queued
    <3> QED BY <1>5, <2>5, <3>1
  <2> QED BY <2>4, <2>5
<1> HIDE DEF queued
<1>7. Paced(StartLanes(queued, {r}), X, F, C) /\ MemOK(StartLanes(queued, {r}))
  <2>1. {r} \in SUBSET Rooms
    OBVIOUS
  <2>2. Spared(queued, StartLanes(queued, {r}), X) /\ MemOK(StartLanes(queued, {r}))
    BY <1>6, <2>1, StartLanesSpared
  <2> QED BY <1>6, <2>2, SparedPaced
<1>8. ASSUME ~w.stopped, r \notin queued.ready, queued.retries[r].at = "none", queued.rooms[r].deferredCount = 0
      PROVE  Paced(gone, X, F, C) /\ MemOK(gone)
  <2>1. ~lane.more /\ r \notin w.ready
    BY <1>6, <1>8
  <2>2. ~lane.failed
    <3>1. lane.failed => w.retries[r].at \in {"sleeping", "awake"}
      BY <1>1, <1>3, <1>8 DEF PacedOf, Resting
    <3> QED BY <1>6, <1>8, <3>1
  <2>3. DeferredOf(w, r) = {}
    <3>1. Cardinality(DeferredOf(w, r)) = 0 /\ IsFiniteSet(DeferredOf(w, r))
      BY <1>3, <1>6, <1>8, DeferralsFinite DEF Booked
    <3> QED BY <3>1, FS_EmptySet
  <2>4. \A e \in Events : RoomOf[e] = r => e \in X
    BY <1>1, <1>3, <1>8, <2>1, <2>2, <2>3 DEF PacedOf, DoneSafe
  <2>5. Paced(gone, X, F, C)
    BY <1>6, <1>8, <2>4, ForgottenPaced
  <2>6. MemOK(gone)
    <3>1. queued \in Memory /\ Booked(queued, r)
      BY <1>6 DEF MemOK
    <3>2. /\ WorksOn(queued, gone, r) /\ gone.rooms[r] = NoProgress /\ gone.lanes[r] = queued.lanes[r]
          /\ gone.retries[r] = queued.retries[r] /\ gone.ready = queued.ready /\ DeferredOf(gone, r) = DeferredOf(queued, r)
      BY <3>1, NoProgressFacts, SetRoom
    <3> HIDE DEF gone
    <3>3. Booked(gone, r)
      BY <1>6, <1>8, <3>1, <3>2, NoProgressFacts DEF Booked, AtEvent
    <3> QED BY <1>6, <3>2, <3>3, BookedOn
  <2> QED BY <2>5, <2>6
<1> HIDE DEF gone
<1>9. ASSUME ~w.stopped PROVE Paced(next, X, F, C) /\ MemOK(next)
  BY <1>6, <1>7, <1>8, <1>9
<1> HIDE DEF next
<1>10. ASSUME ~w.stopped PROVE Paced(ScheduleProbe(next), X, F, C)
  <2>1. next \in Memory /\ MemOK(next) /\ Paced(next, X, F, C)
    BY <1>9, <1>10 DEF MemOK
  <2>2. Alike(next, ScheduleProbe(next)) /\ ScheduleProbe(next).stopped = next.stopped
    BY <2>1 DEF ScheduleProbe, Alike, Memory
  <2>3. Spared(next, ScheduleProbe(next), X)
    BY <2>2, SparedAlike
  <2> QED BY <2>1, <2>3, SparedPaced
<1> QED BY <1>1, <1>2, <1>10

\* A cooldown ends, and its room's events may run again.
LEMMA CooldownEndsPaced ==
    ASSUME NEW X, NEW F, NEW C, MemOK(w), Paced(w, X, F, C), NEW r \in Rooms, CooldownEnds(r), NEW D, C \subseteq D,
           \A e \in Events : RoomOf[e] = r => e \in D
    PROVE  Paced(w', X, F, D)
<1> DEFINE q == [w.retries[r] EXCEPT !.at = "awake"]
<1>0. w \in Memory /\ w.retries[r] \in RetryRecords /\ w.retries[r].at = "sleeping"
  BY RoomFields DEF MemOK, CooldownEnds
<1>1. q \in RetryRecords /\ q.at = "awake"
  BY <1>0 DEF RetryRecords
<1>2. w' = WithRetry(w, r, q)
  BY <1>0 DEF CooldownEnds, WithRetry
<1> HIDE DEF q
<1>3. /\ WorksOn(w, w', r) /\ w'.rooms[r] = w.rooms[r] /\ w'.lanes[r] = w.lanes[r] /\ w'.ready = w.ready
      /\ DeferredOf(w', r) = DeferredOf(w, r) /\ w'.retries[r] = q
  BY <1>0, <1>1, <1>2, SetRetry
<1>4. Paced(w, X, F, D)
  BY PacedGrows
<1>5. PacedOf(w, X, F, D, r) /\ w'.stopped = w.stopped
  BY <1>3, <1>4 DEF Paced, WorksOn
<1>6. Resting(w', D, r)
  BY <1>0, <1>1, <1>3, <1>5 DEF PacedOf, Resting
<1>7. PacedOf(w', X, F, D, r)
  BY <1>3, <1>5, <1>6 DEF PacedOf, PageMarked, Marked, EndSafe, DoneSafe, Held
<1> QED BY <1>3, <1>4, <1>7, PacedOn

\* A room is queued, and its lane is started if it may be.
LEMMA QueuedLane ==
    ASSUME NEW m \in Memory, NEW r \in Rooms, NEW b \in BOOLEAN, NEW q, q = QueueRoom(m, r, b)
    PROVE  WorksOn(m, q, r) /\ q.lanes[r] = m.lanes[r] /\ q.retries[r] = m.retries[r] /\ q \in Memory /\ q.stopped = m.stopped
<1>1. /\ WorksOn(m, q, r) /\ q.lanes[r] = m.lanes[r] /\ q.retries[r] = m.retries[r]
      /\ q.rooms[r] = [Default(m.rooms[r]) EXCEPT !.rewind = @ \/ b]
  BY QueueRoomEffect
<1> QED BY <1>1 DEF WorksOn

LEMMA QueuedReads ==
    ASSUME NEW m \in Memory, NEW r \in Rooms, NEW n, n = StartLanes(QueueRoom(m, r, FALSE), {r})
    PROVE  /\ WorksOn(m, n, r) /\ n.retries[r] = m.retries[r]
           /\ m.stopped \/ LaneRuns(m, r) => n.lanes[r] = m.lanes[r]
           /\ ~(m.stopped \/ BackingOff(m, r) \/ LaneRuns(m, r)) => n.lanes[r].pc = "read"
<1>1. PICK b \in BOOLEAN : b = FALSE
  OBVIOUS
<1>2. PICK q : q = QueueRoom(m, r, b)
  OBVIOUS
<1>3. WorksOn(m, q, r) /\ q.lanes[r] = m.lanes[r] /\ q.retries[r] = m.retries[r] /\ q \in Memory /\ q.stopped = m.stopped
  BY <1>2, QueuedLane
<1>4. n = StartLanes(q, {r}) /\ {r} \in SUBSET Rooms
  BY <1>1, <1>2
<1>5. /\ n \in Memory /\ n.stopped = q.stopped /\ n.retries = q.retries
      /\ \A s \in Rooms : IF s \in {r} /\ Starts(q, s)
                          THEN /\ n.rooms[s] = Default(q.rooms[s]) /\ n.lanes[s] = [NoLane EXCEPT !.pc = "read"]
                               /\ s \notin n.ready
                          ELSE SameRoom(q, n, s)
  BY <1>3, <1>4, StartLanesEffect
<1>6. WorksOn(q, n, r)
  BY <1>5 DEF WorksOn
<1>7. CASE Starts(q, r)
  <2>1. n.lanes[r].pc = "read"
    BY <1>5, <1>7 DEF NoLane
  <2> QED BY <1>3, <1>5, <1>6, <1>7, <2>1, WorksTwice DEF Starts, LaneRuns
<1>8. CASE ~Starts(q, r)
  <2>1. n.lanes[r] = m.lanes[r]
    BY <1>3, <1>5, <1>8 DEF SameRoom
  <2> QED BY <1>3, <1>5, <1>6, <1>8, <2>1, WorksTwice DEF Starts, LaneRuns, BackingOff
<1> QED BY <1>7, <1>8

\* The end of a cooldown is noticed: the room is read again, its mark gone.
LEMMA RoomRetryFinishedPaced ==
    ASSUME NEW X, NEW F, NEW C, MemOK(w), Paced(w, X, F, C), NEW r \in Rooms, RoomRetryFinished(r), C \subseteq X
    PROVE  Paced(w', X, F, C)
<1> DEFINE q == [w.retries[r] EXCEPT !.at = "done"]
           p == [w.rooms[r] EXCEPT !.admitted = 0]
           k == WithRetry(w, r, q)
           n == WithRoom(k, r, p)
<1>0. w \in Memory /\ w.rooms[r] \in ProgressRecords /\ w.retries[r] \in RetryRecords /\ w.retries[r].at = "awake"
      /\ 0 \in Orders /\ PacedOf(w, X, F, C, r)
  BY RoomFields, PendingAssumption DEF MemOK, RoomRetryFinished, Orders, Paced
<1>1. q \in RetryRecords /\ q.at = "done" /\ p \in ProgressRecords
  BY <1>0 DEF RetryRecords, ProgressRecords
<1>2. w' = StartLanes(QueueRoom(n, r, FALSE), {r})
  BY <1>0 DEF RoomRetryFinished, WithRetry, WithRoom
<1> HIDE DEF p, q
<1>3. WorksOn(w, k, r) /\ k.retries[r] = q /\ k.lanes[r] = w.lanes[r] /\ k \in Memory
  BY <1>0, <1>1, SetRetry DEF WorksOn
<1> HIDE DEF k
<1>4. WorksOn(k, n, r) /\ n.lanes[r] = k.lanes[r] /\ n.retries[r] = k.retries[r] /\ n \in Memory
  BY <1>1, <1>3, SetRoom DEF WorksOn
<1> HIDE DEF n
<1>5. /\ WorksOn(n, w', r) /\ w'.retries[r] = n.retries[r]
      /\ n.stopped \/ LaneRuns(n, r) => w'.lanes[r] = n.lanes[r]
      /\ ~(n.stopped \/ BackingOff(n, r) \/ LaneRuns(n, r)) => w'.lanes[r].pc = "read"
  BY <1>2, <1>4, QueuedReads
<1>6. WorksOn(w, w', r)
  BY <1>3, <1>4, <1>5, WorksTwice
<1>7. w'.stopped = w.stopped /\ n.stopped = w.stopped /\ n.lanes[r] = w.lanes[r] /\ n.retries[r].at = "done" /\ w'.retries[r].at = "done"
  BY <1>1, <1>3, <1>4, <1>5 DEF WorksOn
<1>8. w.lanes[r].pc \in {"off", "done", "read"} /\ \A e \in Events : RoomOf[e] = r => e \in X
  BY <1>0 DEF PacedOf, Resting
<1>9. w.stopped \/ w'.lanes[r].pc = "read"
  BY <1>5, <1>7, <1>8 DEF LaneRuns, BackingOff
<1>10. w'.lanes[r].pc \in {"off", "done", "read"}
  BY <1>5, <1>7, <1>8, <1>9
<1>11. PacedOf(w', X, F, C, r)
  BY <1>7, <1>8, <1>9, <1>10 DEF PacedOf, Resting, PageMarked, Marked, EndSafe, DoneSafe, OnPage, AtEvent
<1> QED BY <1>6, <1>11, PacedOn

LEMMA ShutdownPaced ==
    ASSUME NEW X, NEW F, NEW C, MemOK(w), Paced(w, X, F, C), BeginShutdown
    PROVE  Paced(w', X, F, C)
<1> SUFFICES ASSUME NEW r \in Rooms PROVE PacedOf(w', X, F, C, r)
  BY DEF Paced
<1>1. w \in Memory /\ PacedOf(w, X, F, C, r)
  BY DEF MemOK, Paced
<1>2. w'.stopped /\ w'.lanes = w.lanes /\ w'.rooms = w.rooms /\ w'.retries = [s \in Rooms |-> NoRetry]
  BY <1>1 DEF BeginShutdown, Memory
<1>3. w'.retries[r].at = "none"
  BY <1>2, NoRetryFacts
<1> QED BY <1>1, <1>2, <1>3 DEF PacedOf, Resting, PageMarked, Marked

\* A worker that has just started may run everything.
LEMMA FreshPaced ==
    ASSUME NEW n, \A r \in Rooms : n.lanes[r] = NoLane /\ n.retries[r] = NoRetry, NEW X, NEW F, NEW C, Events \subseteq X
    PROVE  Paced(n, X, F, C)
<1> SUFFICES ASSUME NEW r \in Rooms PROVE PacedOf(n, X, F, C, r)
  BY DEF Paced
<1>1. n.lanes[r].pc = "off" /\ n.retries[r].at = "none"
  BY NoLaneFacts, NoRetryFacts
<1> QED BY <1>1 DEF PacedOf, Resting, PageMarked, Marked, EndSafe, DoneSafe, OnPage, AtEvent

-----------------------------------------------------------------------------
(* Every step keeps the pace.                                              *)

\* Events that a room need not come back to before it rests, and those whose
\* callback may not run again before it has.
Excused == {e \in Events : state[e] # "pending" \/ paused[e] \/ owner[e] = "ignoring" \/ e \in cooled}
Barred == {e \in Events : state[e] = "pending" /\ owner[e] # "ignoring" /\ e \notin cooled}

PaceInv ==
    /\ Trail(w, Excused, Rowed) /\ Paced(w, Excused, Barred, cooled) /\ cooled \subseteq Events
    /\ \A e \in Events : state[e] = "none" => e \in cooled
    /\ \A e \in Events : owner[e] # "none" => e \in TurnBacked

\* A callback runs in some room.
Running == \E r \in Rooms : Runs(r)

\* How the history and the turns may change while no callback starts.
PaceMoves(d) ==
    /\ d \in cooled => d \in cooled' \/ Running
    /\ paused[d] => paused'[d] \/ d \in cooled'
    /\ owner[d] = "ignoring" => owner'[d] = "ignoring" \/ state'[d] = "settled" \/ d \in cooled'
    /\ owner'[d] # "none" => owner[d] # "none" \/ d \in TurnBacked

LEMMA PaceSteps ==
    ASSUME JournalTypes, TurnTypes, [Next]_vars, NEW d \in Events
    PROVE  PaceMoves(d)
<1> USE DEF PaceMoves, TurnTypes, Owners, JournalTypes
<1>1. CASE AdmitBatch \/ AckBatch \/ IngestFails
  BY <1>1 DEF AdmitBatch, AckBatch, IngestFails, durable, turns, history
<1>2. CASE PumpWakes \/ PumpReads \/ PumpFails \/ RetryTimer \/ DeferralScan
  BY <1>2 DEF PumpWakes, PumpReads, PumpFails, RetryTimer, DeferralScan, durable, turns, history
<1>3. CASE DrainStarts \/ DrainReads \/ BeginShutdown
  BY <1>3 DEF DrainStarts, DrainReads, BeginShutdown, durable, turns, history
<1>4. CASE Restart \/ Crash
  BY <1>4 DEF Restart, Crash, durable, turns
<1>5. ASSUME NEW r \in Rooms, LaneStep(r)
      PROVE  PaceMoves(d)
  <2>1. CASE LaneAdmits(r)
    <3>1. cooled' = cooled \/ Running
      BY <2>1, LaneAdmitsWays DEF Running
    <3>2. paused' = paused /\ owner' = owner
      BY <2>1 DEF LaneAdmits, durable, turns
    <3> QED BY <3>1, <3>2
  <2>2. CASE ~LaneAdmits(r)
    BY <1>5, <2>2 DEF LaneStep, LaneReads, LaneGetsPage, LaneChecks, CallbackSettles, CallbackDefers,
              LaneSettles, LaneFinished, LaneCancelled, durable, turns, history
  <2> QED BY <2>1, <2>2
<1>6. ASSUME NEW r \in Rooms, LaneFails(r) \/ CooldownEnds(r) \/ RoomRetryFinished(r) \/ DrainRoom(r)
      PROVE  PaceMoves(d)
  BY <1>6 DEF LaneFails, CooldownEnds, RoomRetryFinished, DrainRoom, durable, turns, history
<1>7. ASSUME NEW r \in Rooms, TurnClaims(r)
      PROVE  PaceMoves(d)
  BY <1>7 DEF TurnClaims, durable, history
<1>8. ASSUME NEW e \in Events, TurnEnds(e)
      PROVE  PaceMoves(d)
  BY <1>8 DEF TurnEnds, TurnAnswers, TurnIgnores, durable, history
<1>9. ASSUME NEW e \in Events, TurnCleanup(e)
      PROVE  PaceMoves(d)
  <2>1. CASE ReleaseDelivered(e) \/ DropClaim(e) \/ LateHandoff(e)
    BY <2>1 DEF ReleaseDelivered, DropClaim, LateHandoff, durable, history
  <2>2. CASE SettleIgnored(e)
    BY <2>2 DEF SettleIgnored, history
  <2>3. CASE ApprovalDecides(e)
    BY <2>3 DEF ApprovalDecides
  <2> QED BY <1>9, <2>1, <2>2, <2>3 DEF TurnCleanup
<1>10. ASSUME NEW e \in Events, TurnRetries(e) \/ TurnPauses(e) \/ TurnVanishes(e)
       PROVE  PaceMoves(d)
  BY <1>10 DEF TurnRetries, TurnPauses, TurnVanishes, durable, history
<1>11. ASSUME NEW e \in Events, SettleIgnoredFails(e)
       PROVE  PaceMoves(d)
  BY <1>11 DEF SettleIgnoredFails, durable
<1>12. CASE UNCHANGED vars
  BY <1>12 DEF vars, durable, turns, history
<1> QED BY <1>1, <1>2, <1>3, <1>4, <1>5, <1>6, <1>7, <1>8, <1>9, <1>10, <1>11, <1>12 DEF Next

\* The history speaks of events, and the load keeps what its turns may take.
LEMMA CooledSteps ==
    ASSUME load \in Loads, cooled \subseteq Events, [Next]_vars
    PROVE  cooled' \subseteq Events /\ TurnBacked' = TurnBacked
<1>1. TurnBacked' = TurnBacked
  BY StepCases DEF SameLoad, TurnBacked, Loads
<1> USE DEF history
<1>2. CASE AdmitBatch \/ AckBatch \/ IngestFails \/ PumpWakes \/ PumpReads \/ PumpFails \/ RetryTimer \/ DeferralScan
  BY <1>1, <1>2 DEF AdmitBatch, AckBatch, IngestFails, PumpWakes, PumpReads, PumpFails, RetryTimer, DeferralScan
<1>3. CASE DrainStarts \/ DrainReads \/ BeginShutdown \/ Restart \/ Crash
  <2>1. cooled' = cooled \/ cooled' = Events
    BY <1>3 DEF DrainStarts, DrainReads, BeginShutdown, Restart, Crash
  <2> QED BY <1>1, <2>1
<1>4. ASSUME NEW r \in Rooms, LaneStep(r) PROVE cooled' \subseteq Events
  <2>1. cooled' = cooled \/ cooled' = cooled \ {w.lanes[r].event}
    BY <1>4 DEF LaneStep, LaneReads, LaneGetsPage, LaneChecks, LaneAdmits, CallbackSettles, CallbackDefers,
              LaneSettles, LaneFinished, LaneCancelled
  <2> QED BY <2>1
<1>5. ASSUME NEW r \in Rooms, LaneFails(r) \/ TurnClaims(r) \/ CooldownEnds(r) \/ RoomRetryFinished(r) \/ DrainRoom(r)
      PROVE  cooled' \subseteq Events
  BY <1>5 DEF LaneFails, TurnClaims, CooldownEnds, RoomRetryFinished, DrainRoom
<1>6. ASSUME NEW e \in Events, TurnEnds(e) \/ TurnCleanup(e) PROVE cooled' \subseteq Events
  BY <1>6 DEF TurnEnds, TurnAnswers, TurnIgnores, TurnCleanup, ReleaseDelivered, SettleIgnored, DropClaim,
              LateHandoff, ApprovalDecides
<1>7. ASSUME NEW e \in Events, TurnRetries(e) \/ TurnPauses(e) \/ TurnVanishes(e) \/ SettleIgnoredFails(e)
      PROVE  cooled' \subseteq Events
  BY <1>7 DEF TurnRetries, TurnPauses, TurnVanishes, SettleIgnoredFails
<1>8. CASE UNCHANGED vars
  BY <1>1, <1>8 DEF vars
<1> QED BY <1>1, <1>2, <1>3, <1>4, <1>5, <1>6, <1>7, <1>8 DEF Next

\* The steps of the pump, the timers and the shutdown.
LEMMA PumpPaced ==
    ASSUME NEW X, NEW F, NEW C, MemOK(w), Paced(w, X, F, C), BatchSize \in Nat \ {0}, C \subseteq X,
           \/ AckBatch \/ PumpWakes \/ PumpReads \/ PumpFails \/ RetryTimer \/ DeferralScan
           \/ DrainStarts \/ DrainReads \/ BeginShutdown
           \/ \E r \in Rooms : CooldownEnds(r) \/ RoomRetryFinished(r) \/ DrainRoom(r),
           \A r \in Rooms : CooldownEnds(r) => \A e \in Events : RoomOf[e] = r => e \in C
    PROVE  Paced(w', X, F, C)
<1>0. BatchSize \in Nat
  OBVIOUS
<1>1. CASE AckBatch \/ PumpFails \/ RetryTimer \/ DrainStarts
  BY <1>1, PumpOtherSpared, SparedPaced
<1>2. CASE PumpWakes
  BY <1>2, PumpWakesSpared, SparedPaced
<1>3. CASE PumpReads
  BY <1>0, <1>3, PumpReadsSpared, SparedPaced
<1>4. CASE DeferralScan
  BY <1>4, DeferralScanSpared, SparedPaced
<1>5. CASE DrainReads
  BY <1>0, <1>5, DrainReadsSpared, SparedPaced
<1>6. CASE BeginShutdown
  BY <1>6, ShutdownPaced
<1>7. ASSUME NEW r \in Rooms, CooldownEnds(r) PROVE Paced(w', X, F, C)
  BY <1>7, CooldownEndsPaced
<1>8. ASSUME NEW r \in Rooms, RoomRetryFinished(r) PROVE Paced(w', X, F, C)
  BY <1>8, RoomRetryFinishedPaced
<1>9. ASSUME NEW r \in Rooms, DrainRoom(r) PROVE Paced(w', X, F, C)
  BY <1>9, DrainRoomSpared, SparedPaced
<1> QED BY <1>1, <1>2, <1>3, <1>4, <1>5, <1>6, <1>7, <1>8, <1>9

\* The steps of a lane that start no callback.
LEMMA LanePaced ==
    ASSUME NEW X, NEW F, NEW C, NEW K, NEW S, Sure(w, S), S \subseteq X, Trail(w, X, K), Paced(w, X, F, C),
           BatchSize \in Nat \ {0}, NEW r \in Rooms, LaneStep(r) \/ LaneFails(r) \/ TurnClaims(r), ~Running,
           LaneReads(r) => Shows(X, F), LaneSettles(r) => w.lanes[r].event \in X
    PROVE  Paced(w', X, F, C)
<1>0. BatchSize \in Nat /\ MemOK(w)
  BY DEF Trail
<1>1. CASE LaneReads(r)
  BY <1>0, <1>1, LaneReadsPaced
<1>2. CASE LaneGetsPage(r)
  BY <1>2, LaneGetsPagePaced
<1>3. CASE LaneChecks(r)
  BY <1>0, <1>3, LaneChecksPaced
<1>4. CASE LaneAdmits(r)
  <2>1. ~Runs(r)
    BY DEF Running
  <2> QED BY <1>4, <2>1, LaneAdmitsPaced
<1>5. CASE CallbackSettles(r)
  BY <1>5, CallbackSettlesPaced
<1>6. CASE CallbackDefers(r)
  BY <1>6, CallbackDefersPaced
<1>7. CASE LaneSettles(r)
  BY <1>7, LaneSettlesPaced
<1>8. CASE LaneFinished(r)
  BY <1>0, <1>8, LaneFinishedPaced
<1>9. CASE LaneCancelled(r)
  BY <1>0, <1>9, LaneCancelledPaced
<1>10. CASE LaneFails(r)
  BY <1>10, LaneFailsPaced
<1>11. CASE TurnClaims(r)
  BY <1>0, <1>11, TurnClaimsPaced
<1> QED BY <1>1, <1>2, <1>3, <1>4, <1>5, <1>6, <1>7, <1>8, <1>9, <1>10, <1>11 DEF LaneStep

\* The steps of a turn.
LEMMA TurnPaced ==
    ASSUME NEW X, NEW F, NEW C, MemOK(w), Paced(w, X, F, C), NEW e \in Events,
           TurnEnds(e) \/ TurnCleanup(e) \/ TurnRetries(e) \/ TurnPauses(e) \/ TurnVanishes(e) \/ SettleIgnoredFails(e),
           ReleaseDelivered(e) \/ TurnIgnores(e) => e \in X
    PROVE  Paced(w', X, F, C)
<1>1. CASE ReleaseDelivered(e) \/ TurnIgnores(e)
  <2>1. w' = Release(w, e) /\ e \in X
    BY <1>1 DEF ReleaseDelivered, TurnIgnores
  <2> QED BY <2>1, ReleaseSpared, SparedPaced
<1>2. CASE SettleIgnoredFails(e) \/ LateHandoff(e) \/ TurnRetries(e)
  <2>1. w' = RetrySource(w, e)
    BY <1>2 DEF SettleIgnoredFails, LateHandoff, TurnRetries
  <2> QED BY <2>1, RetrySourceSpared, SparedPaced
<1>3. CASE TurnAnswers(e) \/ SettleIgnored(e) \/ DropClaim(e) \/ ApprovalDecides(e) \/ TurnPauses(e) \/ TurnVanishes(e)
  <2>1. w' = w
    BY <1>3 DEF TurnAnswers, SettleIgnored, DropClaim, ApprovalDecides, TurnPauses, TurnVanishes
  <2> QED BY <2>1
<1> QED BY <1>1, <1>2, <1>3 DEF TurnEnds, TurnCleanup

-----------------------------------------------------------------------------
(* The invariant of the pace.                                              *)

\* A callback starts: its event is barred until the room has cooled down.
LEMMA RunsStep ==
    ASSUME JournalInv, WorkerInv, OrderInv, PaceInv, [Next]_vars, Running
    PROVE  PaceInv'
<1>0. PICK r \in Rooms : Runs(r)
  BY DEF Running
<1>1. PICK e : e = w.lanes[r].event
  OBVIOUS
<1>2. /\ LaneAdmits(r) /\ w.lanes[r].pc = "checked" /\ cooled' = cooled \ {e}
      /\ state' = state /\ paused' = paused /\ owner' = owner
  BY <1>0, <1>1 DEF Runs, LaneAdmits, durable, turns
<1>3. Trail(w, Excused, Rowed) /\ Paced(w, Excused, Barred, cooled) /\ Sure(w, Settled) /\ MemOK(w) /\ load \in Loads
  BY DEF PaceInv, OrderInv, WorkerInv, JournalInv, JournalTypes
<1>4. Settled \subseteq Excused
  BY DEF Settled, Excused
<1>5. Trail(w', Excused, Rowed)
  BY <1>2, <1>3, <1>4, LaneAdmitsTrail
<1>6. Trail(w', Excused \ {e}, Rowed) /\ Paced(w', Excused \ {e}, Barred \cup {e}, cooled \ {e})
  BY <1>0, <1>1, <1>3, <1>5, RunsPaced
<1>7. Excused \ {e} \subseteq Excused' /\ Barred' \subseteq Barred \cup {e} /\ Rowed' = Rowed
  BY <1>2 DEF Excused, Barred, Rowed
<1>8. Trail(w', Excused', Rowed')
  BY <1>6, <1>7, TrailGrows
<1>9. Paced(w', Excused', Barred', cooled')
  BY <1>2, <1>6, <1>7, PacedGrows
<1>10. e \in Rowed
  BY <1>1, <1>2, <1>3 DEF Trail, TrailOf, PageSound, AtEvent
<1>11. \A d \in Events : state'[d] = "none" => d \in cooled'
  BY <1>2, <1>10 DEF PaceInv, Rowed
<1>12. cooled' \subseteq Events /\ TurnBacked' = TurnBacked
  BY <1>3, CooledSteps DEF PaceInv
<1>13. \A d \in Events : owner'[d] # "none" => d \in TurnBacked'
  BY <1>2, <1>12 DEF PaceInv
<1> QED BY <1>8, <1>9, <1>11, <1>12, <1>13 DEF PaceInv

\* While no callback starts, more is excused and less is barred.
LEMMA PaceGrows ==
    ASSUME JournalInv, TurnTypes, InReceiptOrder(Batches), PaceInv, [Next]_vars, ~Running
    PROVE  /\ Excused \subseteq Excused' /\ Barred' \subseteq Barred /\ cooled \subseteq cooled' /\ cooled' \subseteq Excused'
           /\ Rowed \subseteq Rowed' /\ Settled \subseteq Settled' /\ cooled' \subseteq Events
           /\ \A d \in Events : state'[d] = "none" => d \in cooled'
           /\ \A d \in Events : owner'[d] # "none" => d \in TurnBacked'
<1>1. JournalTypes /\ load \in Loads /\ JournalTypes'
  BY JournalStep DEF JournalInv, JournalTypes
<1>2. ASSUME NEW d \in Events PROVE PaceMoves(d) /\ RowMoves(d)
  BY <1>1, <1>2, PaceSteps, RowSteps
<1>3. cooled \subseteq Events /\ cooled' \subseteq Events /\ TurnBacked' = TurnBacked
  BY <1>1, CooledSteps DEF PaceInv
<1>4. cooled \subseteq cooled'
  BY <1>2, <1>3 DEF PaceMoves
<1>5. Rowed \subseteq Rowed' /\ Settled \subseteq Settled'
  BY AsideGrows
<1>6. \A d \in Events : state'[d] = "none" => d \in cooled'
  BY <1>2, <1>4 DEF RowMoves, PaceInv
<1>7. \A d \in Events : owner'[d] # "none" => d \in TurnBacked'
  BY <1>2, <1>3 DEF PaceMoves, PaceInv
<1>8. \A d \in Events : state[d] \in {"none", "pending", "settled"} /\ state'[d] \in {"none", "pending", "settled"}
  BY <1>1 DEF JournalTypes
<1>9. ASSUME NEW d \in Events, state[d] # "pending" PROVE state'[d] # "pending" \/ d \in cooled'
  BY <1>2, <1>4, <1>8, <1>9 DEF RowMoves, PaceInv
<1>10. ASSUME NEW d \in Excused PROVE d \in Excused'
  <2>1. d \in Events /\ (state[d] # "pending" \/ paused[d] \/ owner[d] = "ignoring" \/ d \in cooled)
    BY DEF Excused
  <2>2. state'[d] # "pending" \/ paused'[d] \/ owner'[d] = "ignoring" \/ d \in cooled'
    BY <1>2, <1>4, <1>9, <2>1 DEF PaceMoves
  <2> QED BY <2>1, <2>2 DEF Excused
<1>11. ASSUME NEW d \in Barred' PROVE d \in Barred
  <2>1. d \in Events /\ state'[d] = "pending" /\ owner'[d] # "ignoring" /\ d \notin cooled'
    BY DEF Barred
  <2>2. state[d] = "pending" /\ d \notin cooled
    BY <1>4, <1>9, <2>1
  <2>3. owner[d] # "ignoring"
    BY <1>2, <2>1 DEF PaceMoves
  <2> QED BY <2>1, <2>2, <2>3 DEF Barred
<1>12. cooled' \subseteq Excused'
  BY <1>3 DEF Excused
<1> QED BY <1>3, <1>4, <1>5, <1>6, <1>7, <1>10, <1>11, <1>12

\* What a page does not show is excused; what it shows and is barred is not.
LEMMA ExcusedShows == Shows(Excused, Barred) /\ Accounts(Excused)
<1>1. \A e \in Events : ~Eligible(e) => e \in Excused
  BY DEF Eligible, Excused
<1>2. \A e \in Barred : Eligible(e) => e \notin Excused
  BY DEF Eligible, Excused, Barred
<1> QED BY <1>1, <1>2 DEF Shows, Accounts

LEMMA PaceStep ==
    ASSUME JournalInv, WorkerInv, OrderInv, PaceInv, [Next]_vars
    PROVE  PaceInv'
<1> SUFFICES ASSUME ~Running PROVE PaceInv'
  BY RunsStep
<1>0. PICK X, F, C, K, S : X = Excused' /\ F = Barred' /\ C = cooled' /\ K = Rowed' /\ S = Settled'
  OBVIOUS
<1>1. /\ JournalTypes /\ TurnTypes /\ InReceiptOrder(Batches) /\ AnsweredIsSettled
      /\ Trail(w, Excused, Rowed) /\ Paced(w, Excused, Barred, cooled) /\ Sure(w, Settled) /\ MemOK(w)
  BY DEF JournalInv, WorkerInv, OrderInv, PaceInv
<1>2. /\ Excused \subseteq X /\ F \subseteq Barred /\ cooled \subseteq C /\ C \subseteq X
      /\ Rowed \subseteq K /\ Settled \subseteq S
  BY <1>0, <1>1, PaceGrows
<1>3. Sure(w, S)
  BY <1>1, <1>2 DEF Sure
<1>4. S \subseteq X /\ K \subseteq Events
  BY <1>0 DEF Settled, Excused, Rowed
<1>5. BatchSize \in Nat \ {0}
  BY <1>1 DEF JournalTypes, Loads, BatchSize
<1>6. state' \in [Events -> {"none", "pending", "settled"}]
  BY JournalStep DEF JournalInv, JournalTypes
<1>7. Trail(w, X, K)
  BY <1>1, <1>2, TrailGrows
<1>8. Paced(w, X, F, C)
  BY <1>1, <1>2, PacedGrows
<1>9. Trail(w', X, K) /\ Paced(w', X, F, C)
  <2>1. CASE Crash \/ Restart
    <3>1. Events \subseteq X
      <4>1. cooled' = Events
        BY <2>1 DEF Crash, Restart
      <4> QED BY <1>0, <1>2, <4>1
    <3>2. \A r \in Rooms : w'.lanes[r] = NoLane /\ w'.retries[r] = NoRetry
      <4>1. CASE Crash
        BY <4>1 DEF Crash, FreshWorker
      <4>2. CASE Restart
        BY <4>2 DEF Restart, FreshWorker
      <4> QED BY <2>1, <4>1, <4>2
    <3>3. Paced(w', X, F, C)
      BY <3>1, <3>2, FreshPaced
    <3>4. CASE Crash
      <4>1. w' = FreshWorker
        BY <3>4 DEF Crash
      <4> QED BY <3>3, <4>1, FreshWorkerTrail
    <3>5. CASE Restart
      BY <1>7, <3>3, <3>5, RestartTrail
    <3> QED BY <2>1, <3>4, <3>5
  <2>2. CASE \/ AckBatch \/ PumpWakes \/ PumpReads \/ PumpFails \/ RetryTimer \/ DeferralScan
             \/ DrainStarts \/ DrainReads \/ BeginShutdown
             \/ \E r \in Rooms : CooldownEnds(r) \/ RoomRetryFinished(r) \/ DrainRoom(r)
    <3>1. Trail(w', X, K)
      BY <1>3, <1>5, <1>7, <2>2, PumpKept DEF Kept
    <3>2. ASSUME NEW r \in Rooms, CooldownEnds(r), NEW e \in Events, RoomOf[e] = r PROVE e \in C
      BY <1>0, <3>2 DEF CooldownEnds
    <3> QED BY <1>1, <1>2, <1>5, <1>8, <2>2, <3>1, <3>2, PumpPaced
  <2>3. ASSUME NEW r \in Rooms, LaneStep(r) \/ LaneFails(r) \/ TurnClaims(r)
        PROVE  Trail(w', X, K) /\ Paced(w', X, F, C)
    <3>1. ASSUME LaneReads(r) \/ LaneChecks(r) PROVE Accounts(X) /\ RowsKnown(K, S) /\ Shows(X, F)
      <4>1. state' = state /\ paused' = paused /\ owner' = owner /\ cooled' = cooled
        BY <3>1 DEF LaneReads, LaneChecks, durable, turns, history
      <4>2. X = Excused /\ F = Barred
        BY <1>0, <4>1 DEF Excused, Barred
      <4>3. RowsKnown(K, S)
        BY <1>0, <1>6, <4>1 DEF RowsKnown, Rowed, Settled, Eligible
      <4> QED BY <4>2, <4>3, ExcusedShows
    <3>2. ASSUME LaneSettles(r) PROVE w.lanes[r].event \in X
      <4>1. w.lanes[r].event \in Events
        BY <1>1, <3>2, InHand DEF LaneSettles, AtEvent
      <4>2. state'[w.lanes[r].event] = "settled"
        BY <1>1, <3>2, <4>1 DEF LaneSettles, JournalTypes
      <4> QED BY <1>0, <4>1, <4>2 DEF Excused
    <3>3. Trail(w', X, K)
      <4>1. Kept(X, K, S)
        BY <1>3, <1>4, <1>5, <1>7, <2>3, <3>1, <3>2, LaneKept
      <4> QED BY <4>1 DEF Kept
    <3>4. Paced(w', X, F, C)
      BY <1>3, <1>4, <1>5, <1>7, <1>8, <2>3, <3>1, <3>2, LanePaced
    <3> QED BY <3>3, <3>4
  <2>4. ASSUME NEW e \in Events, TurnEnds(e) \/ TurnCleanup(e) \/ TurnRetries(e) \/ TurnPauses(e) \/ TurnVanishes(e)
                                 \/ SettleIgnoredFails(e)
        PROVE  Trail(w', X, K) /\ Paced(w', X, F, C)
    <3>0. PICK Y : Y = With(X, e)
      OBVIOUS
    <3>1. Trail(w, Y, K)
      <4>1. X \subseteq Y
        BY <3>0 DEF With
      <4> QED BY <1>7, <4>1, TrailGrows
    <3>2. ASSUME ReleaseDelivered(e) PROVE e \in X
      <4>1. state'[e] = "settled"
        BY <1>1, <3>2 DEF ReleaseDelivered, AnsweredIsSettled, durable
      <4> QED BY <1>0, <4>1 DEF Excused
    <3>3. ASSUME TurnIgnores(e) PROVE e \in X
      <4>1. owner'[e] = "ignoring"
        BY <1>1, <3>3 DEF TurnIgnores, TurnTypes
      <4> QED BY <1>0, <4>1 DEF Excused
    <3>4. Trail(w', X, K)
      <4>1. Kept(X, K, S)
        BY <1>3, <1>7, <2>4, <3>0, <3>1, <3>2, <3>3, TurnKept
      <4> QED BY <4>1 DEF Kept
    <3>5. Paced(w', X, F, C)
      BY <1>1, <1>8, <2>4, <3>2, <3>3, TurnPaced
    <3> QED BY <3>4, <3>5
  <2>5. CASE AdmitBatch \/ IngestFails \/ UNCHANGED vars
    <3>1. w' = w
      BY <2>5 DEF AdmitBatch, IngestFails, vars
    <3> QED BY <1>7, <1>8, <3>1
  <2> QED BY <2>1, <2>2, <2>3, <2>4, <2>5 DEF Next
<1>10. Trail(w', Excused', Rowed') /\ Paced(w', Excused', Barred', cooled')
  BY <1>0, <1>9
<1>11. /\ cooled' \subseteq Events
       /\ \A d \in Events : state'[d] = "none" => d \in cooled'
       /\ \A d \in Events : owner'[d] # "none" => d \in TurnBacked'
  BY <1>1, PaceGrows
<1> QED BY <1>10, <1>11 DEF PaceInv

LEMMA PaceHolds == Spec => []PaceInv
<1>1. Init => PaceInv
  <2> SUFFICES ASSUME Init PROVE PaceInv
    OBVIOUS
  <2>1. w = FreshWorker /\ cooled = Events
    BY DEF Init
  <2>2. Trail(w, Excused, Rowed)
    BY <2>1, FreshWorkerTrail
  <2>3. \A r \in Rooms : w.lanes[r] = NoLane /\ w.retries[r] = NoRetry
    BY <2>1 DEF FreshWorker
  <2>4. Events \subseteq Excused
    BY <2>1 DEF Excused
  <2>5. Paced(w, Excused, Barred, cooled)
    BY <2>3, <2>4, FreshPaced
  <2>6. \A e \in Events : owner[e] = "none"
    BY DEF Init
  <2> QED BY <2>1, <2>2, <2>5, <2>6 DEF PaceInv
<1>2. JournalInv /\ WorkerInv /\ OrderInv /\ PaceInv /\ [Next]_vars => PaceInv'
  BY PaceStep
<1> QED BY <1>1, <1>2, JournalHolds, WorkerHolds, OrderHolds, PTL DEF Spec

\* A lane that starts a callback finds its event fresh and without an owner.
LEMMA StartingRuns ==
    ASSUME OrderInv, NEW r \in Rooms, Starting(r), w'.lanes[r].pc = "callback"
    PROVE  Runs(r)
<1>0. PICK e, b : e = w.lanes[r].event /\ b = Admitted(w, r, e)
  OBVIOUS
<1>1. LaneAdmits(r) /\ Fresh(r) /\ Trail(w, Aside, Rowed) /\ MemOK(w) /\ w.lanes[r].pc = "checked" /\ w.lanes[r].pc \in AtEvent
  BY DEF Starting, OrderInv, Trail, LaneAdmits, AtEvent
<1>2. HasProgress(w, r) /\ e \in Orders
  BY <1>0, <1>1, InHand
<1>3. Trail(b, Aside, Rowed) /\ b.lanes = w.lanes
  BY <1>0, <1>1, <1>2, AdmittedTrail
<1>4. ASSUME w' = Deferring(b, r, e) PROVE FALSE
  <2>1. Calm(b, w')
    BY <1>0, <1>1, <1>3, <1>4, DeferringTrail
  <2> QED BY <1>1, <1>3, <2>1 DEF Calm, Late
<1>5. /\ ~(e \in TurnBacked /\ HasLiveOwner(e)) /\ cooled' = cooled \ {e}
      /\ w' = [[w EXCEPT !.rooms[r].admitted = e] EXCEPT !.lanes[r].pc = "callback"]
  BY <1>0, <1>1, <1>4 DEF LaneAdmits, Admitted
<1> QED BY <1>0, <1>1, <1>5 DEF Runs, LanePC, Admitted

\* No hot loop: the callback of a source that still owes work runs again only after
\* its room cooled down, the worker restarted, an approval returned the source, or
\* the attempt to settle it as ignored failed.
THEOREM RerunsHaveCooled == Spec => RerunsArePaced
<1>1. JournalInv /\ WorkerInv /\ OrderInv /\ PaceInv /\ [Next]_vars =>
        [\A e \in Events : CallbackStarts(e) /\ state[e] = "pending" => e \in cooled]_vars
  <2> SUFFICES ASSUME JournalInv, WorkerInv, OrderInv, PaceInv, [Next]_vars, NEW e \in Events, CallbackStarts(e),
                      state[e] = "pending", e \notin cooled
               PROVE  FALSE
    OBVIOUS
  <2>0. PICK r \in Rooms : r = RoomOf[e]
    BY PendingAssumption
  <2>1. w.lanes[r].pc = "checked" /\ w'.lanes[r].pc = "callback" /\ w'.lanes[r].event = e
    BY <2>0 DEF CallbackStarts
  <2>2. ~Quiet(w, w')
    BY <2>0, <2>1 DEF Quiet
  <2>3. PICK s \in Rooms : Starting(s)
    BY <2>2, OrderStep
  <2>4. s = r
    BY <2>0, <2>1, <2>3 DEF Starting
  <2>5. w.lanes[r].event = e /\ Runs(r)
    BY <2>1, <2>3, <2>4, StartingRuns DEF Starting
  <2>6. Fresh(r) /\ ~(e \in TurnBacked /\ HasLiveOwner(e))
    BY <2>5 DEF Runs
  <2>7. e \in Barred
    BY <2>6 DEF PaceInv, HasLiveOwner, Barred
  <2>8. PageMarked(w, Barred, r) /\ MemOK(w)
    BY DEF PaceInv, Paced, PacedOf, WorkerInv
  <2>9. e <= w.rooms[r].admitted
    BY <2>1, <2>5, <2>7, <2>8 DEF PageMarked, OnPage, AtEvent
  <2>10. e > w.rooms[r].admitted
    BY <2>5, <2>6 DEF Fresh
  <2>11. e \in Int /\ w.rooms[r].admitted \in Int
    BY <2>8, RoomFields, PendingAssumption DEF MemOK, ProgressRecords, Orders, Events
  <2> QED BY <2>9, <2>10, <2>11
<1> QED BY <1>1, JournalHolds, WorkerHolds, OrderHolds, PaceHolds, PTL DEF Spec, RerunsArePaced
===============================================================================
