----------------------------- MODULE Projection -----------------------------
(***************************************************************************)
(* The projected conversation of event_journal/projection.py, as functions *)
(* from one committed state of its tables to the next.  A view holds       *)
(*                                                                         *)
(*   visible     visible_messages: one row per logical message             *)
(*   held        unresolved_edits: edits whose message has not arrived     *)
(*   tombstones  redaction_tombstones: events known to be redacted         *)
(*                                                                         *)
(* of one principal and room.  The text of a revision is the identity of   *)
(* the event that carries it.  A revision in Sidecar has its text in an    *)
(* attached file, so that the event alone gives no readable body.          *)
(***************************************************************************)
EXTENDS Integers

CONSTANTS
    Messages,  \* events that are logical messages
    Edits,     \* events that replace a message
    Target,    \* the message an edit replaces
    Author,    \* the sender of an event
    Rank,      \* position of an event in the order (origin_server_ts, event_id)
    Sidecar,   \* events whose content only previews an attached file
    NoEvent    \* absence of an event

Events == Messages \cup Edits

ASSUME ProjectionConstants ==
    /\ Messages \cap Edits = {}
    /\ NoEvent \notin Events
    /\ Target \in [Edits -> Messages]
    /\ Author \in [Events -> STRING]
    /\ Rank \in [Events -> Nat]
    /\ \A a, b \in Events : Rank[a] = Rank[b] => a = b
    /\ Sidecar \subseteq Events

\* refresh_token IS NULL.
NoToken == -1

Row == [revision : Events \cup {NoEvent}, body : Events \cup {NoEvent},
        token : Nat \cup {NoToken}, epoch : Nat]

NoRow == [revision |-> NoEvent, body |-> NoEvent, token |-> NoToken, epoch |-> 0]

View == [visible : [Messages -> Row], held : SUBSET Edits, tombstones : SUBSET Events]

EmptyView ==
    [visible |-> [m \in Messages |-> NoRow], held |-> {}, tombstones |-> {}]

\* A timeline entry: an event, or the redaction of one.
Items == [redacts : BOOLEAN, event : Events]

Sent(e) == [redacts |-> FALSE, event |-> e]
Redaction(e) == [redacts |-> TRUE, event |-> e]

-----------------------------------------------------------------------------

\* is_newer_revision
IsNewer(a, b) == Rank[a] > Rank[b]

\* The message has a row.
Shown(v, m) == v.visible[m].revision # NoEvent

\* The revision is stored, and its body is not to be served yet.
Owing(v, m) == Shown(v, m) /\ v.visible[m].body = NoEvent

\* _stored_body: the preview of a sidecar is not a body but a debt.
StoredRow(e, receipt, epoch) ==
    IF e \in Sidecar
    THEN [revision |-> e, body |-> NoEvent, token |-> receipt, epoch |-> epoch]
    ELSE [revision |-> e, body |-> e, token |-> NoToken, epoch |-> epoch]

\* _install_revision
InstallRevision(v, m, e, receipt) ==
    [v EXCEPT !.visible[m] = StoredRow(e, receipt, v.visible[m].epoch)]

\* The edits held for a message by one sender: the key of unresolved_edits.
HeldBy(v, m, sender) == {e \in v.held : Target[e] = m /\ Author[e] = sender}

\* A plausible bug: without a held edit by the author, the others' are left.
ApplyUnresolvedEditKeepsOthers(v, m, receipt) ==
    LET mine == HeldBy(v, m, Author[m]) \ v.tombstones
    IN  IF mine = {} THEN v
        ELSE InstallRevision([v EXCEPT !.held = {e \in v.held : Target[e] # m}],
                             m, CHOOSE e \in mine : TRUE, receipt)

\* _apply_unresolved_edit: the author's held edit applies, all others go.
ApplyUnresolvedEdit(v, m, receipt) ==
    LET rest == [v EXCEPT !.held = {e \in v.held : Target[e] # m}]
        mine == HeldBy(v, m, Author[m]) \ v.tombstones
    IN  IF mine = {} THEN rest
        ELSE InstallRevision(rest, m, CHOOSE e \in mine : TRUE, receipt)

\* _project_original
ProjectOriginal(v, m, receipt, epoch) ==
    ApplyUnresolvedEdit(
        IF Shown(v, m) THEN v
        ELSE [v EXCEPT !.visible[m] = StoredRow(m, receipt, epoch)],
        m, receipt)

\* _hold_unresolved_edit: the latest per message and sender.
HoldUnresolvedEdit(v, e) ==
    LET rivals == HeldBy(v, Target[e], Author[e])
    IN  IF \E f \in rivals : ~IsNewer(e, f) THEN v
        ELSE [v EXCEPT !.held = (v.held \ rivals) \cup {e}]

\* _project_edit, for an edit of another sender than the message's too.
EditYields(v, e) ==
    \/ Author[e] # Author[Target[e]]
    \/ ~IsNewer(e, v.visible[Target[e]].revision)

ProjectEdit(v, e, receipt) ==
    IF Shown(v, Target[e])
    THEN IF EditYields(v, e) THEN v ELSE InstallRevision(v, Target[e], e, receipt)
    ELSE IF Target[e] \in v.tombstones THEN v ELSE HoldUnresolvedEdit(v, e)

\* The held edits a redaction removes: the redacted edit itself, and every
\* edit of a redacted message, which will never arrive to collect them.
HeldAfterRedaction(v, x) == {e \in v.held : e # x /\ Target[e] # x}

\* A plausible bug: the body is cleared and no refresh token is minted.
ProjectRedactionUntokened(v, x, receipt) ==
    [visible |-> [m \in Messages |->
        IF m = x THEN NoRow
        ELSE IF v.visible[m].revision = x
        THEN [v.visible[m] EXCEPT !.body = NoEvent]
        ELSE v.visible[m]],
     held |-> HeldAfterRedaction(v, x),
     tombstones |-> v.tombstones \cup {x}]

\* _project_redaction: a redacted message loses its row, a message shown in a
\* redacted revision keeps it without a body.
ProjectRedaction(v, x, receipt) ==
    [visible |-> [m \in Messages |->
        IF m = x THEN NoRow
        ELSE IF v.visible[m].revision = x
        THEN [v.visible[m] EXCEPT !.body = NoEvent, !.token = receipt]
        ELSE v.visible[m]],
     held |-> HeldAfterRedaction(v, x),
     tombstones |-> v.tombstones \cup {x}]

\* project
Project(v, item, receipt, epoch) ==
    IF item.redacts THEN ProjectRedaction(v, item.event, receipt)
    ELSE IF item.event \in v.tombstones THEN v
    ELSE IF item.event \in Messages THEN ProjectOriginal(v, item.event, receipt, epoch)
    ELSE ProjectEdit(v, item.event, receipt)

-----------------------------------------------------------------------------
(* The point refetch: a request is the row it was issued for.              *)

Request == [message : Messages, revision : Events, token : Nat, epoch : Nat]

\* A plausible bug: any row of the message in that membership.
StillOwedByMessage(v, request) ==
    LET row == v.visible[request.message]
    IN  row.revision # NoEvent /\ row.epoch = request.epoch

\* The WHERE clause of the conditional UPDATE and of the conditional DELETE.
StillOwed(v, request) ==
    LET row == v.visible[request.message]
    IN  /\ row.revision = request.revision
        /\ row.token = request.token
        /\ row.epoch = request.epoch

\* A plausible bug: the token alone decides, or only the revision asked about fits.
MayInstallTombstoned(v, request, e) == StillOwed(v, request)
MayInstallSameRevision(v, request, e) ==
    e \notin v.tombstones /\ StillOwed(v, request) /\ e = request.revision

\* install_refetched_revision, once the membership has been claimed.  The
\* refetch resolved the sidecar, so the body is the revision's own text.
MayInstall(v, request, e) == e \notin v.tombstones /\ StillOwed(v, request)

InstallRefetched(v, request, e) ==
    [v EXCEPT !.visible[request.message] =
        [revision |-> e, body |-> e, token |-> NoToken, epoch |-> request.epoch]]

\* drop_refetched_message
DropRefetched(v, request) == [v EXCEPT !.visible[request.message] = NoRow]

-----------------------------------------------------------------------------
(* What a view must satisfy.                                               *)

\* No table keeps text that a tombstone took back.
NoDeletedText(v) ==
    /\ \A m \in Messages :
        /\ v.visible[m].body \notin v.tombstones
        /\ Shown(v, m) => m \notin v.tombstones
    /\ \A e \in v.held : e \notin v.tombstones /\ Target[e] \notin v.tombstones

\* Edits are held for absent messages only, one per message and sender.
HeldApart(v) ==
    /\ \A e \in v.held : ~Shown(v, Target[e])
    /\ \A e, f \in v.held : Target[e] = Target[f] /\ Author[e] = Author[f] => e = f

\* A body is the text of the row's revision; a revision without a body can be
\* asked for, since it has a refresh token.
BodyOrDebt(v) ==
    \A m \in Messages :
        /\ v.visible[m].body \in {v.visible[m].revision, NoEvent}
        /\ Owing(v, m) => v.visible[m].token \in Nat

\* A revision of a message: the message itself or an edit by its author.
Revises(e, m) ==
    \/ e = m
    \/ e \in Edits /\ Target[e] = m /\ Author[e] = Author[m]

\* Everything in the tables is one of the given events, at its own message.
Sourced(v, sent) ==
    /\ \A m \in Messages : Shown(v, m) =>
        v.visible[m].revision \in sent /\ Revises(v.visible[m].revision, m)
    /\ v.held \subseteq sent
=============================================================================
