---------------------------- MODULE Conversation ----------------------------
(***************************************************************************)
(* How the projected conversation of one room is kept and repaired: sync   *)
(* admits events (event_journal/journal.py), hydration and gap recovery    *)
(* walk the room (matrix/conversation_hydration.py), a strict read         *)
(* refetches the messages it may not serve, and the membership fence       *)
(* throws everything away.                                                 *)
(*                                                                         *)
(* The walks of different hydrators (the bot and an export are different   *)
(* processes) and the refetches of different readers interleave at every   *)
(* await.  A hydrator runs one walk at a time (_shared).                   *)
(*                                                                         *)
(* The homeserver is external: a timeline to which events and redactions   *)
(* are appended, an edit after its message, a redaction after its event.   *)
(* It serves a redacted event without its content.  Sync delivers the      *)
(* timeline in order or, as from a server that backfills, in any order,    *)
(* and may skip a part of it for good, in which case it says so.           *)
(***************************************************************************)
EXTENDS Projection, Sequences

CONSTANTS
    Hydrators,   \* walkers of the room, each with a policy
    Policy,      \* HydrationPolicy of a hydrator: the rank of its bounds
    Strict,      \* hydrators with require_complete
    Readers,     \* strict reads that refetch
    Redactable,  \* events somebody may redact
    Unreadable,  \* events this device cannot decrypt
    InOrder,     \* whether sync delivers in the order of the timeline
    MaxGaps,     \* bound on the revision of a recorded gap
    MaxEpoch     \* bound on how often the room is left

ASSUME ConversationConstants ==
    /\ Policy \in [Hydrators -> Nat \ {0}]
    /\ Strict \subseteq Hydrators
    /\ Redactable \subseteq Events
    /\ Unreadable \subseteq Events
    /\ InOrder \in BOOLEAN
    /\ MaxGaps \in Nat
    /\ MaxEpoch \in Nat

VARIABLES
    timeline,    \* the homeserver's room: items in the order it holds them
    delivered,   \* items sync has delivered
    lost,        \* items sync has skipped and will not deliver
    receipts,    \* journal_events.receipt_order of the last admission
    view,        \* the projection tables
    epoch,       \* room_membership.membership_epoch
    membership,  \* "in"; "out" after a departure; "back" once rejoined, before
                 \* sync says so.  Other than "in" is departure_fenced.
    hydration,   \* conversation_hydration
    recovery,    \* room_history_recovery
    walk,        \* what a hydrator has under way
    refetch      \* what a reader has under way

server == <<timeline, delivered, lost>>
tables == <<receipts, view, epoch, membership, hydration, recovery>>
vars == <<server, tables, walk, refetch>>

Gap == [state : {"none", "repairable", "truncated", "repaired"},
        revision : Nat, rank : Nat]
NoGap == [state |-> "none", revision |-> 0, rank |-> 0]

Marker == [epoch : Nat \cup {-1}, complete : BOOLEAN, rank : Nat]
NoMarker == [epoch |-> -1, complete |-> FALSE, rank |-> 0]

Walk == [pc : {"idle", "recheck", "repairEpoch", "repairFetch", "repair",
               "stands", "hydrate", "epoch", "fetch", "install"},
         gap : Gap, epoch : Nat, at : Nat, stop : Nat,
         gone : SUBSET Events, ended : BOOLEAN, unread : BOOLEAN]
NoWalk == [pc |-> "idle", gap |-> NoGap, epoch |-> 0, at |-> 0, stop |-> 0,
           gone |-> {}, ended |-> FALSE, unread |-> FALSE]

Refetch == [pc : {"idle", "original", "relations", "install", "drop"},
            message : Messages \cup {NoEvent}, revision : Events \cup {NoEvent},
            token : Nat, epoch : Nat, chosen : Events \cup {NoEvent}]
NoRefetch == [pc |-> "idle", message |-> NoEvent, revision |-> NoEvent,
              token |-> 0, epoch |-> 0, chosen |-> NoEvent]

TypeOK ==
    /\ timeline \in Seq(Items)
    /\ delivered \subseteq Items
    /\ lost \subseteq Items
    /\ receipts \in Nat
    /\ view \in View
    /\ epoch \in Nat
    /\ membership \in {"in", "out", "back"}
    /\ hydration \in Marker
    /\ recovery \in Gap
    /\ walk \in [Hydrators -> Walk]
    /\ refetch \in [Readers -> Refetch]

Init ==
    /\ timeline = <<>>
    /\ delivered = {}
    /\ lost = {}
    /\ receipts = 0
    /\ view = EmptyView
    /\ epoch = 0
    /\ membership = "in"
    /\ hydration = NoMarker
    /\ recovery = NoGap
    /\ walk = [h \in Hydrators |-> NoWalk]
    /\ refetch = [r \in Readers |-> NoRefetch]

-----------------------------------------------------------------------------
(* The homeserver.                                                         *)

Posted == {timeline[i] : i \in DOMAIN timeline}
Redacted == {e \in Events : Redaction(e) \in Posted}
Undelivered == Posted \ (delivered \cup lost)

\* What sync may deliver next.
Deliverable ==
    {timeline[i] : i \in {j \in DOMAIN timeline :
        /\ timeline[j] \in Undelivered
        /\ InOrder => \A k \in 1..(j - 1) : timeline[k] \notin Undelivered}}

\* Somebody sends a message, or an edit of a message in the room.
Send(e) ==
    /\ Sent(e) \notin Posted
    /\ e \in Edits => Sent(Target[e]) \in Posted
    /\ timeline' = Append(timeline, Sent(e))
    /\ UNCHANGED <<delivered, lost, tables, walk, refetch>>

Redact(e) ==
    /\ e \in Redactable
    /\ Sent(e) \in Posted
    /\ Redaction(e) \notin Posted
    /\ timeline' = Append(timeline, Redaction(e))
    /\ UNCHANGED <<delivered, lost, tables, walk, refetch>>

\* The account joins again; what was not delivered before is not delivered now.
Join ==
    /\ membership = "out"
    /\ membership' = "back"
    /\ lost' = lost \cup Undelivered
    /\ UNCHANGED <<timeline, delivered, receipts, view, epoch, hydration, recovery,
                   walk, refetch>>

\* The revision the server shows: _reduce_current_revision over its relations.
Rivals(m) == {m} \cup {e \in Edits : /\ Target[e] = m
                                     /\ Author[e] = Author[m]
                                     /\ Sent(e) \in Posted
                                     /\ e \notin Redacted}

IsCurrentRevision(m, e) ==
    e \in Rivals(m) /\ \A f \in Rivals(m) : f = e \/ IsNewer(e, f)

-----------------------------------------------------------------------------
(* Sync.                                                                   *)

Fenced == membership # "in"

\* journal.admit under _apply_semantic_ingestion_disposition: an event of a
\* fenced room keeps its identity only, a redaction is projected all the same.
AdmittedView(i) ==
    IF Fenced /\ ~i.redacts THEN view ELSE Project(view, i, receipts + 1, epoch)

Admit(i) ==
    /\ i \in Deliverable
    /\ membership # "back"
    /\ i.redacts \/ i.event \notin Unreadable
    /\ delivered' = delivered \cup {i}
    /\ receipts' = receipts + 1
    /\ view' = AdmittedView(i)
    /\ UNCHANGED <<timeline, lost, epoch, membership, hydration, recovery, walk, refetch>>

\* An event that arrives without content, redacted or undecryptable, is not
\* one the journal admits.
Ignore(i) ==
    /\ i \in Deliverable
    /\ membership # "back"
    /\ ~i.redacts
    /\ i.event \in Redacted \cup Unreadable
    /\ delivered' = delivered \cup {i}
    /\ UNCHANGED <<timeline, lost, tables, walk, refetch>>

\* _record_room_history_recovery_locked: every gap is a new revision.
GapRecorded ==
    IF Fenced THEN recovery
    ELSE [state |-> "repairable", rank |-> 0,
          revision |-> IF recovery.state = "none" THEN 0 ELSE recovery.revision + 1]

\* HISTORY_LOSS: sync skips what it has not delivered up to some point.
LoseHistory ==
    /\ membership # "back"
    /\ recovery.revision < MaxGaps
    /\ \E n \in DOMAIN timeline :
        LET skipped == {timeline[i] : i \in 1..n} \cap Undelivered
        IN  skipped # {} /\ lost' = lost \cup skipped
    /\ recovery' = GapRecorded
    /\ UNCHANGED <<timeline, delivered, receipts, view, epoch, membership, hydration,
                   walk, refetch>>

\* _advance_membership_epoch: the projection, its coverage and its gaps go.
Depart ==
    /\ membership = "in"
    /\ epoch < MaxEpoch
    /\ membership' = "out"
    /\ epoch' = epoch + 1
    /\ view' = EmptyView
    /\ hydration' = NoMarker
    /\ recovery' = NoGap
    /\ UNCHANGED <<server, receipts, walk, refetch>>

\* _apply_membership_effect: sync reports the new membership.
Rejoin ==
    /\ membership = "back"
    /\ membership' = "in"
    /\ UNCHANGED <<server, receipts, view, epoch, hydration, recovery, walk, refetch>>

-----------------------------------------------------------------------------
(* What reads may trust.                                                   *)

\* membership_state.claim_membership_epoch
MembershipIsCurrent(e) == e = epoch /\ ~Fenced

Outstanding == recovery.state \in {"repairable", "truncated"}

\* reads._current_hydration, conversation_is_hydrated
Hydrated == hydration.epoch = epoch /\ recovery.state # "repairable"

\* reads.conversation_is_complete
Complete == Hydrated /\ hydration.complete /\ ~Outstanding

\* A plausible bug: a spent policy does not count.
StandsWhenComplete(h) == IF h \in Strict THEN Complete ELSE Hydrated

\* _hydration_stands
Stands(h) ==
    IF h \in Strict
    THEN Hydrated /\ (Complete \/ hydration.rank >= Policy[h])
    ELSE Hydrated

\* ensure_hydrated: does the recorded gap ask this hydrator for a walk?
NeedsWalk(h) ==
    \/ recovery.state = "repairable"
    \/ recovery.state = "truncated" /\ h \in Strict /\ recovery.rank < Policy[h]

\* A plausible bug: the walk that finishes last has the last word.
PublishedLast(e, complete, rank) == [epoch |-> e, complete |-> complete, rank |-> rank]

\* publish_conversation_hydration: within one membership coverage only grows.
Published(e, complete, rank) ==
    [epoch |-> e,
     complete |-> complete \/ (hydration.epoch = e /\ hydration.complete),
     rank |-> IF hydration.epoch = e /\ hydration.rank > rank THEN hydration.rank ELSE rank]

-----------------------------------------------------------------------------
(* Hydration and gap recovery: one attempt of ensure_hydrated's loop.      *)

Goto(h, pc) == walk' = [walk EXCEPT ![h].pc = pc]
Abandon(h) == walk' = [walk EXCEPT ![h] = NoWalk]

\* ensure_hydrated reads the recovery obligation.
Ensure(h) ==
    /\ walk[h].pc = "idle"
    /\ walk' = [walk EXCEPT ![h] =
        [NoWalk EXCEPT !.pc = IF NeedsWalk(h) THEN "recheck" ELSE "stands",
                       !.gap = recovery]]
    /\ UNCHANGED <<server, tables, refetch>>

\* The hydration marker, read by ensure_hydrated and again by _hydrate.
CheckStands(h) ==
    /\ walk[h].pc \in {"stands", "hydrate"}
    /\ IF Stands(h) THEN Abandon(h)
       ELSE Goto(h, IF walk[h].pc = "stands" THEN "hydrate" ELSE "epoch")
    /\ UNCHANGED <<server, tables, refetch>>

\* _repair: somebody else may have settled this gap meanwhile.
Recheck(h) ==
    /\ walk[h].pc = "recheck"
    /\ IF recovery = walk[h].gap THEN Goto(h, "repairEpoch") ELSE Abandon(h)
    /\ UNCHANGED <<server, tables, refetch>>

ReadEpoch(h) ==
    /\ walk[h].pc \in {"repairEpoch", "epoch"}
    /\ walk' = [walk EXCEPT ![h].epoch = epoch,
                            ![h].pc = IF @ = "epoch" THEN "fetch" ELSE "repairFetch"]
    /\ UNCHANGED <<server, tables, refetch>>

\* The items of a walk that starts now, newest first, and where it stops: at
\* the end of the room, at the prompt window or at a ceiling.
Fetch(h) ==
    /\ walk[h].pc \in {"fetch", "repairFetch"}
    /\ membership # "out"
    /\ \E stop \in 0..Len(timeline), ended \in BOOLEAN :
        LET unread == \E i \in (stop + 1)..Len(timeline) :
                        ~timeline[i].redacts /\ timeline[i].event \in Unreadable \ Redacted
        IN  \/ /\ walk[h].pc = "fetch" /\ h \in Strict /\ unread
               /\ Abandon(h)
            \/ /\ ended => stop = 0
               /\ walk[h].pc = "fetch" => ~(h \in Strict /\ unread)
               /\ walk' = [walk EXCEPT ![h] =
                    [pc |-> IF walk[h].pc = "fetch" THEN "install" ELSE "repair",
                     gap |-> walk[h].gap, epoch |-> walk[h].epoch,
                     at |-> Len(timeline), stop |-> stop, gone |-> Redacted,
                     ended |-> ended, unread |-> unread]]
    /\ UNCHANGED <<server, tables, refetch>>

\* A request of the walk fails, or its task is cancelled, or its process dies.
\* What it has installed stays.
WalkFails(h) ==
    /\ walk[h].pc # "idle"
    /\ Abandon(h)
    /\ UNCHANGED <<server, tables, refetch>>

\* What a walk sees of an item: a redacted event reads as its own redaction,
\* and one redacted since the walk began may have been fetched before or after.
Shapes(h, i) ==
    IF i.redacts \/ i.event \notin Redacted THEN {i}
    ELSE {Redaction(i.event)} \cup (IF i.event \in walk[h].gone THEN {} ELSE {i})

\* A plausible bug: walks leave redactions to sync.
WalkedViewWithoutRedactions(h, i) ==
    {IF s.redacts \/ s.event \in Unreadable THEN view
     ELSE Project(view, s, 0, walk[h].epoch) : s \in Shapes(h, i)}

\* The redacted form of an encrypted event keeps a type that projects to nothing.
WalkedView(h, i) ==
    {IF ~s.redacts /\ s.event \in Unreadable THEN view
     ELSE Project(view, s, 0, walk[h].epoch) : s \in Shapes(h, i)}
    \cup {v \in {view} : ~i.redacts /\ i.event \in Redacted}

\* A plausible bug: any gap that is open will do.
GapIsOpen(h) == recovery.state = walk[h].gap.state

\* claim_room_history_recovery
GapIsCurrent(h) == recovery = walk[h].gap

MayInstallItem(h) ==
    /\ MembershipIsCurrent(walk[h].epoch)
    /\ walk[h].pc = "repair" => GapIsCurrent(h)

\* One chunk of a hydration, or one page of a recovery, is one transaction.
InstallItem(h) ==
    /\ walk[h].pc \in {"install", "repair"}
    /\ walk[h].at > walk[h].stop
    /\ IF MayInstallItem(h)
       THEN /\ view' \in WalkedView(h, timeline[walk[h].at])
            /\ walk' = [walk EXCEPT ![h].at = @ - 1]
       ELSE UNCHANGED view /\ Abandon(h)
    /\ UNCHANGED <<server, receipts, epoch, membership, hydration, recovery, refetch>>

\* mark_conversation_hydrated, after the last chunk.
Mark(h) ==
    /\ walk[h].pc = "install"
    /\ walk[h].at = walk[h].stop
    /\ hydration' = IF MembershipIsCurrent(walk[h].epoch)
                    THEN Published(epoch, walk[h].ended /\ ~walk[h].unread, Policy[h])
                    ELSE hydration
    /\ Abandon(h)
    /\ UNCHANGED <<server, receipts, view, epoch, membership, recovery, refetch>>

MaySettle(h) == MembershipIsCurrent(walk[h].epoch) /\ GapIsCurrent(h)

\* _settle_history_recovery; an exhausted but unreadable room raises instead.
Settle(h) ==
    /\ walk[h].pc = "repair"
    /\ walk[h].at = walk[h].stop
    /\ IF MaySettle(h) /\ ~(walk[h].ended /\ walk[h].unread)
       THEN /\ hydration' = Published(epoch, walk[h].ended, Policy[h])
            /\ recovery' = IF walk[h].ended THEN [recovery EXCEPT !.state = "repaired"]
                           ELSE [recovery EXCEPT !.state = "truncated", !.rank = Policy[h]]
       ELSE UNCHANGED <<hydration, recovery>>
    /\ Abandon(h)
    /\ UNCHANGED <<server, receipts, view, epoch, membership, refetch>>

-----------------------------------------------------------------------------
(* The point refetch of a strict read (refresh).                           *)

\* read_conversation reports a message it may not serve.
ReadDebt(r) ==
    /\ refetch[r].pc = "idle"
    /\ \E m \in Messages :
        /\ Owing(view, m)
        /\ refetch' = [refetch EXCEPT ![r] =
            [pc |-> "original", message |-> m, revision |-> view.visible[m].revision,
             token |-> view.visible[m].token, epoch |-> view.visible[m].epoch,
             chosen |-> NoEvent]]
    /\ UNCHANGED <<server, tables, walk>>

\* room_get_event of the message: redacted, undecryptable or readable.
FetchOriginal(r) ==
    /\ refetch[r].pc = "original"
    /\ membership # "out"
    /\ refetch' = [refetch EXCEPT ![r] =
        IF refetch[r].message \in Redacted THEN [@ EXCEPT !.pc = "drop"]
        ELSE IF refetch[r].message \in Unreadable THEN NoRefetch
        ELSE [@ EXCEPT !.pc = "relations"]]
    /\ UNCHANGED <<server, tables, walk>>

\* An edit of the message that cannot be decrypted may be the current one.
UnreadRelation(m) ==
    \E e \in Edits \cap Unreadable :
        Target[e] = m /\ Sent(e) \in Posted /\ e \notin Redacted

\* The relations of the message and the revision they reduce to.
FetchRelations(r) ==
    /\ refetch[r].pc = "relations"
    /\ membership # "out"
    /\ \/ /\ UnreadRelation(refetch[r].message)
          /\ refetch' = [refetch EXCEPT ![r] = NoRefetch]
       \/ /\ ~UnreadRelation(refetch[r].message)
          /\ \E e \in Events :
              /\ IsCurrentRevision(refetch[r].message, e)
              /\ refetch' = [refetch EXCEPT ![r].pc = "install", ![r].chosen = e]
    /\ UNCHANGED <<server, tables, walk>>

\* The server cannot be reached, the sidecar of the revision cannot be read,
\* or the read is cancelled or dies with its process.
RefetchFails(r) ==
    /\ refetch[r].pc # "idle"
    /\ refetch' = [refetch EXCEPT ![r] = NoRefetch]
    /\ UNCHANGED <<server, tables, walk>>

\* drop_refetched_message revokes the coverage that counted the message.
DropStep(r) ==
    IF StillOwed(view, refetch[r])
    THEN view' = DropRefetched(view, refetch[r]) /\ hydration' = NoMarker
    ELSE UNCHANGED <<view, hydration>>

\* install_refetched_revision; a membership that ended drops the message.
InstallStep(r) ==
    /\ refetch[r].pc = "install"
    /\ IF ~MembershipIsCurrent(refetch[r].epoch) THEN DropStep(r)
       ELSE /\ view' = IF MayInstall(view, refetch[r], refetch[r].chosen)
                       THEN InstallRefetched(view, refetch[r], refetch[r].chosen)
                       ELSE view
            /\ UNCHANGED hydration
    /\ refetch' = [refetch EXCEPT ![r] = NoRefetch]
    /\ UNCHANGED <<server, receipts, epoch, membership, recovery, walk>>

Drop(r) ==
    /\ refetch[r].pc = "drop"
    /\ DropStep(r)
    /\ refetch' = [refetch EXCEPT ![r] = NoRefetch]
    /\ UNCHANGED <<server, receipts, epoch, membership, recovery, walk>>

-----------------------------------------------------------------------------

Server == (\E e \in Events : Send(e) \/ Redact(e)) \/ Join
Sync == (\E i \in Items : Admit(i) \/ Ignore(i)) \/ Rejoin
Walking(h) ==
    \/ Ensure(h) \/ CheckStands(h) \/ Recheck(h) \/ ReadEpoch(h) \/ Fetch(h)
    \/ InstallItem(h) \/ Mark(h) \/ Settle(h)
Refetching(r) ==
    \/ ReadDebt(r) \/ FetchOriginal(r) \/ FetchRelations(r) \/ InstallStep(r) \/ Drop(r)
Failure ==
    \/ LoseHistory
    \/ \E h \in Hydrators : WalkFails(h)
    \/ \E r \in Readers : RefetchFails(r)

Next ==
    \/ Server \/ Sync \/ Depart \/ Failure
    \/ \E h \in Hydrators : Walking(h)
    \/ \E r \in Readers : Refetching(r)

Spec == Init /\ [][Next]_vars

\* Reads keep being made, and there comes a time without gaps and failures.
Untroubled ==
    \/ Server \/ Sync \/ Depart
    \/ \E h \in Hydrators : Walking(h)
    \/ \E r \in Readers : Refetching(r)

FairSpec ==
    /\ Spec
    /\ <>[][Untroubled]_vars
    /\ \A h \in Hydrators : WF_vars(Walking(h))
    /\ \A r \in Readers : WF_vars(Refetching(r))

-----------------------------------------------------------------------------
(* Safety.                                                                 *)

\* Once a redaction is known, no table keeps text it took back: not the row of
\* the message, not a held edit, whatever a walk or a refetch still brings.
DeletedIsGone == NoDeletedText(view)

\* An edit is held only while its message has no row, and at most one per
\* message and sender.
HeldAwaitsMessage == HeldApart(view)

\* A message never goes back to an older revision, unless the one it showed
\* was redacted: a slow refetch or walk does not undo fresher truth.
NewestStands ==
    [][\A m \in Messages :
        LET before == view.visible[m].revision
            after  == view'.visible[m].revision
        IN  before # NoEvent /\ after # NoEvent /\ IsNewer(before, after) =>
                before \in Redacted]_vars

\* A message a read may lack, or has: it has a row, or is redacted, or sync
\* delivered it in a form that this device cannot decrypt yet.
Accounted(m) ==
    \/ Shown(view, m)
    \/ m \in Redacted
    \/ m \in Unreadable /\ Sent(m) \in delivered

\* What a read may call complete lacks no message: one that is not in it is
\* redacted, or sync still has to deliver it, or did so in a form that this
\* device cannot decrypt yet.
CompleteMissesNothing ==
    Complete => \A m \in Messages : Sent(m) \in Posted \ Undelivered => Accounted(m)

\* When nothing is left to deliver, what a complete read serves is what the
\* server shows.
ReadMatchesServer ==
    Complete /\ Undelivered = {} =>
        \A m \in Messages :
            /\ Shown(view, m) <=> Sent(m) \in Posted /\ m \notin Redacted
            /\ view.visible[m].body # NoEvent =>
                IsCurrentRevision(m, view.visible[m].body)

\* Coverage is taken back only by dropping a message or by a departure: of two
\* walks, the narrower one finishing last does not unsay the wider one.
CoverageGrows ==
    [][hydration.epoch = epoch /\ hydration'.epoch = epoch =>
        /\ hydration.complete => hydration'.complete
        /\ hydration.rank <= hydration'.rank]_vars

-----------------------------------------------------------------------------
(* The inductive invariant behind DeletedIsGone and NewestStands.          *)

\* A refetch under way knows the row it was issued for.
RefetchShape ==
    \A r \in Readers :
        refetch[r].pc # "idle" =>
            refetch[r].message \in Messages /\ refetch[r].revision \in Events

\* A walk stays inside the timeline, which only grows.
WalkShape == \A h \in Hydrators : walk[h].at <= Len(timeline)

\* What the tables and the requests hold has been in the room, where an edit
\* follows its message.
SentEvents == {e \in Events : Sent(e) \in Posted}

EditsFollow == \A e \in Edits \cap SentEvents : Target[e] \in SentEvents

FromTheRoom ==
    /\ Sourced(view, SentEvents)
    /\ \A r \in Readers : refetch[r].pc # "idle" =>
        refetch[r].revision \in SentEvents /\ Revises(refetch[r].revision, refetch[r].message)

\* The revision a refetch brings is one of its message and not older than the
\* one it is to replace, unless that one has been redacted.
RefetchIsFresh ==
    \A r \in Readers :
        refetch[r].pc = "install" =>
            /\ refetch[r].chosen \in SentEvents
            /\ Revises(refetch[r].chosen, refetch[r].message)
            /\ \/ refetch[r].revision \in Redacted
               \/ ~IsNewer(refetch[r].revision, refetch[r].chosen)

ConversationInv ==
    /\ TypeOK
    /\ DeletedIsGone
    /\ HeldAwaitsMessage
    /\ BodyOrDebt(view)
    /\ RefetchShape
    /\ WalkShape
    /\ EditsFollow
    /\ FromTheRoom
    /\ RefetchIsFresh

-----------------------------------------------------------------------------
(* The inductive invariants behind CompleteMissesNothing and                *)
(* ReadMatchesServer.  They fail where a room is left and also loses        *)
(* history (the run "reuse"); apart, each of the two is handled.            *)

\* Rows belong to the membership there is; a fenced room shows nothing.
RowsAreCurrent ==
    \A m \in Messages : Shown(view, m) => MembershipIsCurrent(view.visible[m].epoch)

\* Tables and requests take for redacted only what the room says is redacted.
OnlyRedactedGo ==
    /\ view.tombstones \subseteq Redacted
    /\ Redacted \subseteq Redactable
    /\ \A r \in Readers : refetch[r].pc = "drop" => refetch[r].message \in Redacted

\* A walk that came to the end of the room and could read what it met.
ReadsAll(h) ==
    walk[h].pc \in {"install", "repair"} /\ walk[h].ended /\ ~walk[h].unread

Readable(i) == i.redacts \/ i.event \notin Unreadable \/ i.event \in Redacted

WalksRead ==
    \A h \in Hydrators : ReadsAll(h) =>
        /\ walk[h].stop = 0
        /\ \A i \in 1..walk[h].at : Readable(timeline[i])

\* Sync is about what is in the room.
SyncIsPast == delivered \cup lost \subseteq Posted

\* Edits can be followed where all can be read and one that is redacted left
\* no other behind that it had replaced (the run "shadow").
EditsTraceable ==
    /\ Edits \cap Unreadable = {}
    /\ \A e, f \in Edits : e # f /\ Target[e] = Target[f] /\ Author[e] = Author[f] =>
        e \notin Redactable

Tracked == {i \in Items : i.redacts \/ i.event \in Messages \/ EditsTraceable}

\* The message shows the edit or a later one, or will when it arrives.
EditStands(v, e) ==
    \/ Shown(v, Target[e]) /\ ~IsNewer(e, v.visible[Target[e]].revision)
    \/ \E f \in HeldBy(v, Target[e], Author[e]) : ~IsNewer(e, f)

\* The tables know of the item, or need not.
Known(i) ==
    IF i.redacts THEN i.event \in view.tombstones
    ELSE IF i.event \in Messages THEN Accounted(i.event)
    ELSE \/ Author[i.event] # Author[Target[i.event]]
         \/ i.event \in Redacted \/ Target[i.event] \in Redacted
         \/ EditStands(view, i.event)

\* The walk has taken care of the given items as far as it has come.
CaredFor(h, S) ==
    \A n \in DOMAIN timeline : n > walk[h].at /\ timeline[n] \in S => Known(timeline[n])

LostItems == lost \cap Tracked
PastItems == (Posted \ Undelivered) \cap Tracked

CoverageSupport == RowsAreCurrent /\ OnlyRedactedGo /\ WalksRead /\ SyncIsPast

\* While the account stays in the room, the tables know what sync delivered,
\* and a gap is closed by a walk launched for this very gap.
Repairing(h) == walk[h].pc \in {"recheck", "repairEpoch", "repairFetch", "repair"}

GapIsRepaired ==
    /\ membership = "in"
    /\ \A i \in delivered \cap Tracked : Known(i)
    /\ recovery.state = "none" => lost = {}
    /\ recovery.state = "repaired" => \A i \in LostItems : Known(i)
    /\ \A h \in Hydrators : Repairing(h) =>
        recovery.state # "none" /\ walk[h].gap.revision <= recovery.revision
    /\ \A h \in Hydrators :
        walk[h].pc = "repair" /\ ReadsAll(h) /\ walk[h].gap.revision = recovery.revision =>
            CaredFor(h, LostItems)

\* Where sync skips nothing, a room that was left is covered by a walk that
\* began after the account joined again, and what came since came by sync.
ReturnIsWalked ==
    /\ recovery = NoGap
    /\ \A h \in Hydrators : ~Repairing(h) /\ walk[h].epoch <= epoch
    /\ \A h \in Hydrators :
        walk[h].pc = "install" /\ walk[h].epoch = epoch =>
            /\ membership # "out"
            /\ ReadsAll(h) => CaredFor(h, PastItems)
    /\ hydration.epoch = epoch =>
            /\ membership = "in"
            /\ hydration.complete => \A i \in PastItems : Known(i)

-----------------------------------------------------------------------------
(* Liveness.                                                               *)

\* A message that may not be served is refetched, dropped or replaced.
DebtIsRepaired == \A m \in Messages : Owing(view, m) ~> ~Owing(view, m)

\* A read of the room comes to find coverage that answers it, unless the account
\* leaves or the room holds an event that this device cannot decrypt.
ReadsAreServed ==
    \A h \in Hydrators :
        membership = "in" ~>
            \/ Stands(h)
            \/ membership # "in"
            \/ \E e \in Unreadable : Sent(e) \in Posted
=============================================================================
