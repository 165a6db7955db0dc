----------------------------- MODULE Questions -----------------------------
(***************************************************************************)
(* Multiple-choice questions and their answers                             *)
(* (event_journal/interactive_questions.py, its callers in store.py,       *)
(* projection.py and journal.py, reaction_dispatch.py, turn_controller.py  *)
(* and the projection barrier of bot.py and matrix/durable_ingestion.py).  *)
(*                                                                         *)
(* An agent posts a prompt and may edit it; a person answers with a        *)
(* reaction to the message or with a digit in its thread. The transaction  *)
(* that admits the answer freezes the revision it is about, unless a       *)
(* prompt is on its way that the projection does not show yet; the         *)
(* dispatcher later claims that revision, once and for one answer. One     *)
(* room and one thread, and people whom the agent may answer; a revision   *)
(* is its place in the order of timestamps.                                *)
(***************************************************************************)
EXTENDS Integers, Sequences, FiniteSets, FiniteSetsExt

CONSTANTS
    MaxRevision,    \* revisions are 1 .. MaxRevision
    Of,             \* the message of each revision: its earliest revision
    Answers,        \* the reactions and texts that may be sent
    Reacts,         \* those of Answers that are reactions ...
    Target,         \* ... and the message each reacts to
    Fits,           \* pairs of an answer and a revision that has its option
    MaxAsked,       \* bound: revisions that are posted
    MaxEpoch,       \* bound: departures
    MaxTroubles     \* bound: refusals, failed runs, redactions, crashes

Revisions == 1..MaxRevision
Messages == {Of[v] : v \in Revisions}
RevisionsOf(m) == {v \in Revisions : Of[v] = m}
IsEdit(v) == Of[v] # v

ASSUME QuestionsAssumption ==
    /\ MaxRevision \in Nat /\ MaxAsked \in Nat /\ MaxEpoch \in Nat /\ MaxTroubles \in Nat
    /\ Of \in [Revisions -> Revisions]
    /\ \A v \in Revisions : Of[v] <= v /\ Of[Of[v]] = Of[v]
    /\ Reacts \subseteq Answers /\ Target \in [Reacts -> Messages]
    /\ Fits \subseteq Answers \X Revisions
    /\ Answers \cap {"none", "open"} = {}

VARIABLES
    row,        \* the outbox row of each revision
    room,       \* what the homeserver has of it
    visible,    \* visible_messages: the revision of each message, or 0
    owes,       \* messages whose visible revision was redacted
    tombs,      \* redaction_tombstones
    question,   \* interactive_questions: "none", "open" or the answer that took it
    choice,     \* interactive_selections: the revision of each answer, or 0
    journal,    \* journal_events: the row of each answer
    stream,     \* what sync has yet to deliver, in order
    pump,       \* the ingestion pump, and the recovery pass it may wait for
    run,        \* what the process is doing with each answer
    epoch, fenced,
    asked,      \* history: the revision frozen for each answer, or 0
    acted,      \* history: the revisions a run was started for
    outran,     \* history: answers admitted before the prompt they saw was known
    troubles

projection == <<visible, owes, tombs, question, choice>>
history == <<asked, acted, outran>>
vars == <<row, room, projection, journal, stream, pump, run, epoch, fenced, history, troubles>>

Trouble == troubles < MaxTroubles /\ troubles' = troubles + 1

NoRow == [state |-> "none", epoch |-> 0]
NoEntry == [state |-> "none", consumer |-> "none", epoch |-> 0]
Quiet == [at |-> "idle", recovery |-> FALSE, progress |-> FALSE]

Init ==
    /\ row = [v \in Revisions |-> NoRow] /\ room = [v \in Revisions |-> "absent"]
    /\ visible = [m \in Messages |-> 0] /\ owes = {} /\ tombs = {}
    /\ question = [v \in Revisions |-> "none"] /\ choice = [s \in Answers |-> 0]
    /\ journal = [s \in Answers |-> NoEntry] /\ stream = <<>>
    /\ pump = Quiet /\ run = [s \in Answers |-> "idle"]
    /\ epoch = 0 /\ fenced = FALSE
    /\ asked = [s \in Answers |-> 0] /\ acted = [s \in Answers |-> {}] /\ outran = {}
    /\ troubles = 0

MembershipIsCurrent(e) == e = epoch /\ ~fenced

-----------------------------------------------------------------------------
(* The projection. Deleting a question deletes the choices frozen on it, and *)
(* deleting a message deletes its questions (ON DELETE CASCADE).             *)

Forget(S) ==
    /\ question' = [v \in Revisions |-> IF v \in S THEN "none" ELSE question[v]]
    /\ choice' = [s \in Answers |-> IF choice[s] \in S THEN 0 ELSE choice[s]]

\* record_projected_prompt: the prompt of a revision is recorded once, within
\* the membership that asked.
Recorded(v) ==
    [question EXCEPT ![v] = IF @ = "none" /\ MembershipIsCurrent(row[v].epoch) THEN "open" ELSE @]

\* project, for an event of this agent that the homeserver has: the original
\* makes the message visible, an edit revises a visible message.
Projects(v) ==
    /\ row[v].state \in {"attempted", "acked"} /\ MembershipIsCurrent(row[v].epoch)
    /\ v \notin tombs /\ (IsEdit(v) => visible[Of[v]] # 0)

Projected(v) ==
    /\ visible' = [visible EXCEPT ![Of[v]] = IF v > @ THEN v ELSE @]
    /\ owes' = IF v > visible[Of[v]] THEN owes \ {Of[v]} ELSE owes
    /\ question' = Recorded(v)
    /\ UNCHANGED <<tombs, choice>>

\* The echo of a revision in a sync batch, or a walk of the room.
Echo(v) ==
    /\ room[v] = "shown" /\ Projects(v)
    /\ Projected(v)
    /\ UNCHANGED <<row, room, journal, stream, pump, run, epoch, fenced, history, troubles>>

-----------------------------------------------------------------------------
(* Posting a prompt: see MatrixDelivery for the way of a row.              *)

\* The turn that asks enqueues the row and claims it; an edit follows the
\* acknowledged original.
Ask(v) ==
    /\ row[v] = NoRow /\ ~fenced
    /\ Cardinality({u \in Revisions : row[u] # NoRow}) < MaxAsked
    /\ IsEdit(v) => row[Of[v]] = [state |-> "acked", epoch |-> epoch]
    /\ row' = [row EXCEPT ![v] = [state |-> "attempted", epoch |-> epoch]]
    /\ UNCHANGED <<room, projection, journal, stream, pump, run, epoch, fenced, history, troubles>>

\* The homeserver accepts the event of a member.
Accept(v) ==
    /\ row[v].state = "attempted" /\ MembershipIsCurrent(row[v].epoch) /\ room[v] = "absent"
    /\ room' = [room EXCEPT ![v] = "shown"]
    /\ UNCHANGED <<row, projection, journal, stream, pump, run, epoch, fenced, history, troubles>>

\* The acknowledgement binds the row and projects the event in one transaction,
\* unless the server shows it redacted or the membership has ended.
Acknowledge(v) ==
    /\ row[v].state = "attempted" /\ room[v] # "absent"
    /\ row' = [row EXCEPT ![v].state = "acked"]
    /\ IF room[v] = "shown" /\ Projects(v) THEN Projected(v) ELSE UNCHANGED projection
    /\ UNCHANGED <<room, journal, stream, pump, run, epoch, fenced, history, troubles>>

\* The homeserver refuses it for good, or its membership ended before it was sent.
Refuse(v) ==
    /\ row[v].state = "attempted" /\ room[v] = "absent"
    /\ row[v].epoch = epoch => Trouble
    /\ row[v].epoch # epoch => ~fenced /\ UNCHANGED troubles
    /\ row' = [row EXCEPT ![v].state = IF row[v].epoch = epoch THEN "failed" ELSE "retired"]
    /\ UNCHANGED <<room, projection, journal, stream, pump, run, epoch, fenced, history>>

-----------------------------------------------------------------------------
(* The people in the room.                                                 *)

\* A person answers what the room shows.
Answer(s) ==
    /\ journal[s].state = "none" /\ ~fenced
    /\ \E m \in Messages : room[m] = "shown" /\ (s \in Reacts => m = Target[s])
    /\ \A i \in DOMAIN stream : stream[i] # [kind |-> "answer", of |-> s]
    /\ stream' = Append(stream, [kind |-> "answer", of |-> s])
    /\ UNCHANGED <<row, room, projection, journal, pump, run, epoch, fenced, history, troubles>>

\* Somebody redacts a revision.
Redact(v) ==
    /\ room[v] = "shown" /\ ~fenced /\ Trouble
    /\ room' = [room EXCEPT ![v] = "redacted"]
    /\ stream' = Append(stream, [kind |-> "redaction", of |-> v])
    /\ UNCHANGED <<row, projection, journal, pump, run, epoch, fenced, history>>

-----------------------------------------------------------------------------
(* Admission.                                                              *)

Foremost(kind) == stream # <<>> /\ stream[1].kind = kind /\ pump.at = "idle"

\* _project_redaction: the prompt of the revision is erased with the choices on
\* it; a redacted original takes the message with it, and a redacted current
\* revision leaves a debt.
AdmitRedaction ==
    /\ Foremost("redaction")
    /\ LET v == stream[1].of IN
        /\ tombs' = tombs \cup {v}
        /\ IF ~IsEdit(v) /\ visible[v] # 0
           THEN /\ visible' = [visible EXCEPT ![v] = 0] /\ owes' = owes \ {v}
                /\ Forget(RevisionsOf(v))
           ELSE /\ owes' = IF visible[Of[v]] = v THEN owes \cup {Of[v]} ELSE owes
                /\ Forget({v})
                /\ UNCHANGED visible
    /\ stream' = Tail(stream)
    /\ UNCHANGED <<row, room, journal, pump, run, epoch, fenced, history, troubles>>

\* A point refetch shows the newest revision the server still has, or drops a
\* message the server no longer has.
Refetch(m) ==
    /\ m \in owes
    /\ owes' = owes \ {m}
    /\ LET left == {v \in RevisionsOf(m) : room[v] = "shown" /\ Projects(v)} IN
        IF room[m] = "shown" /\ left # {}
        THEN /\ visible' = [visible EXCEPT ![m] = Max(left)]
             /\ question' = Recorded(Max(left)) /\ UNCHANGED choice
        ELSE /\ visible' = [visible EXCEPT ![m] = 0] /\ Forget(RevisionsOf(m))
    /\ UNCHANGED <<row, room, tombs, journal, stream, pump, run, epoch, fenced, history, troubles>>

\* The prompts that are shown and that nobody has taken.
Active == {v \in Revisions : visible[Of[v]] = v /\ question[v] = "open"}

\* snapshot_source_candidate: a reaction is about what its message shows, a digit
\* about the oldest prompt of the thread.
Candidates(s) == IF s \in Reacts THEN Active \cap RevisionsOf(Target[s])
                 ELSE {v \in Active : \A u \in Active : v <= u}
Snapshot(s) ==
    LET fitting == {v \in Candidates(s) : <<s, v>> \in Fits}
    IN  IF fitting = {} THEN 0 ELSE Max(fitting)

\* A plausible bug: the barrier looks at prompts and forgets edits.
EditsPass == \E v \in Revisions : row[v] = [state |-> "attempted", epoch |-> epoch] /\ ~IsEdit(v)

\* has_attempted_unacknowledged_prompt_delivery: the room may show a prompt that
\* the projection does not know.
Unprojected == \E v \in Revisions : row[v] = [state |-> "attempted", epoch |-> epoch]

\* The room shows a revision that the projection does not know.
Lags(m) == room[m] = "shown" /\ \E v \in RevisionsOf(m) :
               room[v] = "shown" /\ row[v].epoch = epoch /\ v > visible[m]

AdmitAnswer ==
    /\ Foremost("answer") /\ ~Unprojected
    /\ LET s == stream[1].of IN
        /\ journal' = [journal EXCEPT ![s] = [state |-> "pending", consumer |-> "none", epoch |-> epoch]]
        /\ choice' = [choice EXCEPT ![s] = Snapshot(s)]
        /\ asked' = [asked EXCEPT ![s] = Snapshot(s)]
        /\ outran' = IF \E m \in Messages : Lags(m) /\ (s \in Reacts => m = Target[s])
                     THEN outran \cup {s} ELSE outran
    /\ stream' = Tail(stream)
    /\ UNCHANGED <<row, room, visible, owes, tombs, question, pump, run, epoch, fenced, acted, troubles>>

\* A plausible bug: the pump waits without making sure that recovery runs.
WaitOnly ==
    /\ Foremost("answer") /\ Unprojected
    /\ pump' = [pump EXCEPT !.at = "waiting"]
    /\ UNCHANGED <<row, room, projection, journal, stream, run, epoch, fenced, history, troubles>>

\* DeliveryProjectionPendingError: the batch stays with nio, and the pump waits
\* for a pass of the recovery worker, which it starts if there is none.
Barrier ==
    /\ Foremost("answer") /\ Unprojected
    /\ pump' = [pump EXCEPT !.at = "waiting", !.recovery = TRUE]
    /\ UNCHANGED <<row, room, projection, journal, stream, run, epoch, fenced, history, troubles>>

\* The pump sees the progress, clears it and tries the batch again.
Retry ==
    /\ pump.at = "waiting" /\ pump.progress
    /\ pump' = [pump EXCEPT !.at = "idle", !.progress = FALSE]
    /\ UNCHANGED <<row, room, projection, journal, stream, run, epoch, fenced, history, troubles>>

\* A sync response starts the recovery worker too.
ScheduleRecovery ==
    /\ ~pump.recovery
    /\ pump' = [pump EXCEPT !.recovery = TRUE]
    /\ UNCHANGED <<row, room, projection, journal, stream, run, epoch, fenced, history, troubles>>

\* A pass ends and says so; the worker ends with it if the pass saw no row that
\* is unaccounted for, though one may have been attempted since.
PassEnds ==
    /\ pump.recovery
    /\ \E again \in BOOLEAN :
        /\ again => \E v \in Revisions : row[v].state = "attempted"
        /\ pump' = [pump EXCEPT !.progress = TRUE, !.recovery = again]
    /\ UNCHANGED <<row, room, projection, journal, stream, run, epoch, fenced, history, troubles>>

-----------------------------------------------------------------------------
(* Dispatch.                                                               *)

Pending(s) == journal[s].state = "pending"

\* settle: the row keeps the fact, the choice goes, the question stays taken.
Settled(s) ==
    /\ journal' = [journal EXCEPT ![s] = [@ EXCEPT !.state = "settled", !.consumer = "none"]]
    /\ choice' = [choice EXCEPT ![s] = 0]

\* _claim_selection succeeds: the answer is still owed and of this membership,
\* nobody else consumes it, and its revision is free or already its own.
Takes(s) ==
    /\ Pending(s) /\ MembershipIsCurrent(journal[s].epoch)
    /\ journal[s].consumer \in {"none", "interactive"}
    /\ choice[s] # 0 /\ question[choice[s]] \in {"open", s}

\* The revision and the answer become each other's in one transaction, and the
\* choices of other answers on it are discarded.
Claim(s) ==
    /\ run[s] = "idle" /\ Takes(s)
    /\ question' = [question EXCEPT ![choice[s]] = s]
    /\ choice' = [t \in Answers |-> IF t # s /\ choice[t] = choice[s] THEN 0 ELSE choice[t]]
    /\ journal' = [journal EXCEPT ![s].consumer = IF s \in Reacts THEN "interactive" ELSE @]
    /\ run' = [run EXCEPT ![s] = "selection"]
    /\ acted' = [acted EXCEPT ![s] = @ \cup {choice[s]}]
    /\ UNCHANGED <<row, room, visible, owes, tombs, stream, pump, epoch, fenced, asked, outran, troubles>>

\* There is nothing to take: a reaction goes to the hooks, which claim it for
\* good, and a digit is an ordinary message.
Pass(s) ==
    /\ run[s] = "idle" /\ Pending(s) /\ ~Takes(s) /\ journal[s].consumer # "interactive"
    /\ journal' = [journal EXCEPT ![s].consumer = IF s \in Reacts THEN "hooks" ELSE @]
    /\ run' = [run EXCEPT ![s] = "other"]
    /\ UNCHANGED <<row, room, projection, stream, pump, epoch, fenced, history, troubles>>

\* A reaction that was claimed and whose prompt is gone is ignored.
Ignore(s) ==
    /\ run[s] = "idle" /\ Pending(s) /\ ~Takes(s) /\ journal[s].consumer = "interactive"
    /\ Settled(s)
    /\ UNCHANGED <<row, room, visible, owes, tombs, question, stream, pump, run, epoch, fenced, history, troubles>>

\* The run has answered, or finds its source settled.
Finish(s) ==
    /\ run[s] # "idle"
    /\ run' = [run EXCEPT ![s] = "idle"]
    /\ IF Pending(s) THEN Settled(s) ELSE UNCHANGED <<journal, choice>>
    /\ UNCHANGED <<row, room, visible, owes, tombs, question, stream, pump, epoch, fenced, history, troubles>>

\* The run fails and the source is offered again.
Fail(s) ==
    /\ run[s] # "idle" /\ Pending(s) /\ Trouble
    /\ run' = [run EXCEPT ![s] = "idle"]
    /\ UNCHANGED <<row, room, projection, journal, stream, pump, epoch, fenced, history>>

-----------------------------------------------------------------------------
(* Departures and crashes.                                                 *)

\* The fence drops the projection and settles what can no longer be answered:
\* digits, and reactions a selection has claimed.
Depart ==
    /\ epoch < MaxEpoch /\ ~fenced /\ stream = <<>>
    /\ epoch' = epoch + 1 /\ fenced' = TRUE
    /\ visible' = [m \in Messages |-> 0] /\ owes' = {} /\ tombs' = {}
    /\ Forget(Revisions)
    /\ journal' = [s \in Answers |->
        IF Pending(s) /\ (s \notin Reacts \/ journal[s].consumer = "interactive")
        THEN [journal[s] EXCEPT !.state = "settled", !.consumer = "none"] ELSE journal[s]]
    /\ UNCHANGED <<row, room, stream, pump, run, history, troubles>>

Rejoin ==
    /\ fenced /\ fenced' = FALSE
    /\ UNCHANGED <<row, room, projection, journal, stream, pump, run, epoch, history, troubles>>

\* The process dies: runs, the pump and the recovery worker start again.
Crash ==
    /\ Trouble
    /\ run' = [s \in Answers |-> "idle"] /\ pump' = Quiet
    /\ UNCHANGED <<row, room, projection, journal, stream, epoch, fenced, history>>

-----------------------------------------------------------------------------
Delivering(v) == Accept(v) \/ Acknowledge(v)
Admitting == AdmitAnswer \/ AdmitRedaction \/ Barrier \/ Retry
Running(s) == Claim(s) \/ Pass(s) \/ Ignore(s) \/ Finish(s)

Next ==
    \/ \E v \in Revisions : Ask(v) \/ Delivering(v) \/ Refuse(v) \/ Echo(v) \/ Redact(v)
    \/ \E m \in Messages : Refetch(m)
    \/ \E s \in Answers : Answer(s) \/ Running(s) \/ Fail(s)
    \/ Admitting \/ ScheduleRecovery \/ PassEnds
    \/ Depart \/ Rejoin \/ Crash

Spec == Init /\ [][Next]_vars

\* Each pass of recovery asks the homeserver for every row, so passes that recur
\* get its answer; the pump and the dispatcher go on while they can.
FairSpec ==
    /\ Spec
    /\ WF_vars(Admitting) /\ WF_vars(PassEnds)
    /\ \A v \in Revisions : SF_vars(pump.recovery /\ Delivering(v))
    /\ \A s \in Answers : WF_vars(Running(s))

-----------------------------------------------------------------------------
(* Properties.                                                             *)

\* The state has its type.
TypeOK ==
    /\ row \in [Revisions -> [state : {"none", "attempted", "acked", "failed", "retired"}, epoch : 0..MaxEpoch]]
    /\ room \in [Revisions -> {"absent", "shown", "redacted"}]
    /\ visible \in [Messages -> {0} \cup Revisions] /\ owes \subseteq Messages /\ tombs \subseteq Revisions
    /\ question \in [Revisions -> {"none", "open"} \cup Answers]
    /\ choice \in [Answers -> {0} \cup Revisions]
    /\ journal \in [Answers -> [state : {"none", "pending", "settled"},
                                consumer : {"none", "interactive", "hooks"}, epoch : 0..MaxEpoch]]
    /\ stream \in Seq([kind : {"answer"}, of : Answers] \cup [kind : {"redaction"}, of : Revisions])
    /\ pump \in [at : {"idle", "waiting"}, recovery : BOOLEAN, progress : BOOLEAN]
    /\ run \in [Answers -> {"idle", "selection", "other"}]
    /\ epoch \in 0..MaxEpoch /\ fenced \in BOOLEAN
    /\ asked \in [Answers -> {0} \cup Revisions] /\ acted \in [Answers -> SUBSET Revisions]
    /\ outran \subseteq Answers /\ troubles \in 0..MaxTroubles

\* A prompt is acted upon for one answer and an answer acts on one prompt, however
\* many people answer, the prompt is edited, redacted and shown again, the run
\* is retried or the process dies.
ChosenOnce ==
    \A s, t \in Answers : \A v \in acted[s], u \in acted[t] : (s = t) <=> (v = u)

\* What is acted upon is what the answer was about when it was received, within
\* one membership.
ActsAsAsked ==
    \A s \in Answers : \A v \in acted[s] : v = asked[s] /\ row[v].epoch = journal[s].epoch

\* A frozen choice stays usable: its prompt is shown in this membership, has not
\* been redacted as far as the agent knows, and nobody else has taken it.
ChoicesAreLive ==
    \A s \in Answers : choice[s] # 0 =>
        /\ Pending(s) /\ journal[s].epoch = epoch
        /\ choice[s] \notin tombs /\ visible[Of[choice[s]]] # 0
        /\ question[choice[s]] \in {"open", s}

\* No answer is admitted while the room shows a prompt or an edit of it that the
\* projection does not know: it would be frozen on a stale prompt, or on none.
PromptComesFirst == outran = {}

\* The invariant of questions: types and the four facts above.
QuestionsInv == TypeOK /\ ChosenOnce /\ ActsAsAsked /\ ChoicesAreLive /\ PromptComesFirst

\* Every answer is admitted and settled: the barrier opens, and no claim, retry,
\* departure or crash leaves one behind.
EveryAnswerSettles ==
    \A s \in Answers :
        (\E i \in DOMAIN stream : stream[i] = [kind |-> "answer", of |-> s]) ~> journal[s].state = "settled"
=============================================================================
