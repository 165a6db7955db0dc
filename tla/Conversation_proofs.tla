------------------------- MODULE Conversation_proofs -------------------------
(***************************************************************************)
(* What every operation on a view preserves: its type, the absence of      *)
(* deleted text, the separation of held edits from visible messages, where *)
(* its content comes from, and that revisions do not go back.              *)
(*                                                                         *)
(* From it, for the conversation: deleted text is gone, held edits stay    *)
(* apart, no message goes back to an older revision and coverage is not    *)
(* unsaid, for any number of messages, edits, walks and readers.  And what *)
(* a complete read may lack: nothing that sync is done with, in a room     *)
(* that is not left or that loses no history.                              *)
(***************************************************************************)
EXTENDS Conversation, TLAPS

Sound(v) == v \in View /\ NoDeletedText(v) /\ HeldApart(v) /\ BodyOrDebt(v)

\* From v to w, messages and held edits change only by what more brings: a
\* message keeps its revision, loses its row, or goes on to a newer revision.
Advance(v, w, more) ==
    /\ w.held \subseteq v.held \cup more
    /\ \A m \in Messages :
        LET before == v.visible[m].revision
            after  == w.visible[m].revision
        IN  \/ after \in {before, NoEvent}
            \/ /\ after \in v.held \cup more
               /\ Revises(after, m)
               /\ before = NoEvent \/ IsNewer(after, before)

-----------------------------------------------------------------------------
(* Storing a revision.                                                     *)

\* A stored revision is a row; its body is the revision, or is owed.
LEMMA StoredRowType ==
    ASSUME NEW e \in Events, NEW k \in Nat, NEW n \in Nat, NEW row, row = StoredRow(e, k, n)
    PROVE  /\ row \in Row
           /\ row.revision = e
           /\ row.body = e \/ (row.body = NoEvent /\ row.token \in Nat)
  BY ProjectionConstants DEF StoredRow, Row, NoToken

Stores(v, w, m, e, k, n) == w = [v EXCEPT !.visible[m] = StoredRow(e, k, n)]

\* Storing a revision of a message without held edits, when neither is redacted.
LEMMA StoreSound ==
    ASSUME NEW v, Sound(v), NEW m \in Messages, NEW e \in Events, NEW k \in Nat, NEW n \in Nat,
           m \notin v.tombstones, e \notin v.tombstones,
           \A f \in v.held : Target[f] # m,
           NEW w, Stores(v, w, m, e, k, n)
    PROVE  /\ Sound(w)
           /\ w.held = v.held
           /\ w.tombstones = v.tombstones
           /\ w.visible[m].revision = e
           /\ \A o \in Messages \ {m} : w.visible[o] = v.visible[o]
<1> DEFINE row == StoredRow(e, k, n)
<1>1. /\ row \in Row /\ row.revision = e
      /\ row.body = e \/ (row.body = NoEvent /\ row.token \in Nat)
  BY StoredRowType
<1> HIDE DEF row
<1>2. /\ w.visible = [v.visible EXCEPT ![m] = row]
      /\ w.held = v.held
      /\ w.tombstones = v.tombstones
  BY DEF Stores, row, Sound, View
<1>3. w \in View
  BY <1>1, <1>2 DEF Stores, row, Sound, View
<1>4. NoDeletedText(w)
  BY <1>1, <1>2, ProjectionConstants DEF Sound, View, NoDeletedText, Shown, Events
<1>5. HeldApart(w)
  BY <1>1, <1>2, ProjectionConstants DEF Sound, View, HeldApart, Shown
<1>6. BodyOrDebt(w)
  BY <1>1, <1>2, ProjectionConstants DEF Sound, View, BodyOrDebt, Owing, Shown
<1> QED BY <1>1, <1>2, <1>3, <1>4, <1>5, <1>6 DEF Sound, View

\* Discarding held edits keeps a view sound.
LEMMA DiscardSound ==
    ASSUME NEW v, Sound(v), NEW H, H \subseteq v.held, NEW w, w = [v EXCEPT !.held = H]
    PROVE  /\ Sound(w)
           /\ w.held = H
           /\ w.tombstones = v.tombstones
           /\ w.visible = v.visible
<1>1. w.held = H /\ w.tombstones = v.tombstones /\ w.visible = v.visible /\ w \in View
  BY DEF Sound, View
<1> QED BY <1>1 DEF Sound, NoDeletedText, HeldApart, BodyOrDebt, Owing, Shown

-----------------------------------------------------------------------------
(* An original and the edits held for it.                                  *)

\* The row of a message that had none, with the held edit of its author.
LEMMA OriginalSound ==
    ASSUME NEW v, Sound(v), NEW m \in Messages, m \notin v.tombstones,
           NEW k \in Nat, NEW n \in Nat, NEW w, w = ProjectOriginal(v, m, k, n)
    PROVE  Sound(w) /\ Advance(v, w, {m})
<1> DEFINE mid == IF Shown(v, m) THEN v
                  ELSE [v EXCEPT !.visible[m] = StoredRow(m, k, n)]
           H == {e \in v.held : Target[e] # m}
           rest == [mid EXCEPT !.held = H]
           bare == [v EXCEPT !.held = H]
           mine == HeldBy(mid, m, Author[m]) \ mid.tombstones
<1>1. Sound(bare) /\ bare.held = H /\ bare.tombstones = v.tombstones /\ bare.visible = v.visible
  <2>1. H \subseteq v.held OBVIOUS
  <2> QED BY <2>1, DiscardSound
<1>2. mid.held = v.held /\ mid.tombstones = v.tombstones
  BY DEF Sound, View
<1>3. /\ Sound(rest) /\ rest.held = H /\ rest.tombstones = v.tombstones
      /\ rest.visible[m].revision \in {v.visible[m].revision, m}
      /\ v.visible[m].revision # NoEvent => rest.visible[m].revision = v.visible[m].revision
      /\ \A o \in Messages \ {m} : rest.visible[o] = v.visible[o]
  <2>1. CASE Shown(v, m)
    BY <2>1, <1>1
  <2>2. CASE ~Shown(v, m)
    <3>1. Stores(bare, rest, m, m, k, n)
      BY <2>2 DEF Sound, View, Stores
    <3>2. \A f \in bare.held : Target[f] # m
      BY <1>1
    <3>3. m \in Events BY DEF Events
    <3> HIDE DEF rest, bare
    <3>4. /\ Sound(rest) /\ rest.held = bare.held /\ rest.tombstones = bare.tombstones
          /\ rest.visible[m].revision = m
          /\ \A o \in Messages \ {m} : rest.visible[o] = bare.visible[o]
      BY <3>1, <3>2, <3>3, <1>1, StoreSound
    <3> QED BY <3>4, <1>1, <2>2 DEF Shown
  <2> QED BY <2>1, <2>2
<1>4. w = IF mine = {} THEN rest
          ELSE InstallRevision(rest, m, CHOOSE e \in mine : TRUE, k)
  BY <1>2 DEF ProjectOriginal, ApplyUnresolvedEdit
<1>5. mine = {e \in v.held : Target[e] = m /\ Author[e] = Author[m]} \ v.tombstones
  BY <1>2 DEF HeldBy
<1> HIDE DEF mid, rest, bare, mine
<1>6. \A e \in v.held : e \in Edits
  BY DEF Sound, View
<1>7. CASE mine = {}
  <2>1. w = rest BY <1>4, <1>7
  <2> QED BY <2>1, <1>3 DEF Advance, Revises
<1>8. CASE mine # {}
  <2>1. PICK e \in mine : w = InstallRevision(rest, m, e, k)
    BY <1>4, <1>8
  <2>2. /\ e \in Edits /\ e \in v.held /\ e \notin v.tombstones
        /\ Target[e] = m /\ Author[e] = Author[m]
    BY <1>5, <1>6
  <2>3. ~Shown(v, m)
    BY <2>2 DEF Sound, HeldApart
  <2>4. rest.visible[m].epoch \in Nat
    BY <1>3 DEF Sound, View, Row
  <2>5. \A f \in rest.held : Target[f] # m
    BY <1>3
  <2>6. /\ Sound(w) /\ w.held = rest.held
        /\ w.visible[m].revision = e
        /\ \A o \in Messages \ {m} : w.visible[o] = rest.visible[o]
    <3>1. e \in Events BY <2>2 DEF Events
    <3>2. Stores(rest, w, m, e, k, rest.visible[m].epoch)
      BY <2>1 DEF InstallRevision, Stores
    <3> QED BY <3>1, <3>2, <2>2, <2>4, <2>5, <1>3, StoreSound
  <2> QED BY <2>2, <2>3, <2>6, <1>3 DEF Advance, Revises, Shown
<1> QED BY <1>7, <1>8

-----------------------------------------------------------------------------
(* An edit.                                                                *)

\* Holding an edit for an absent message that is not known to be redacted.
LEMMA HoldSound ==
    ASSUME NEW v, Sound(v), NEW e \in Edits, e \notin v.tombstones,
           ~Shown(v, Target[e]), Target[e] \notin v.tombstones,
           NEW w, w = HoldUnresolvedEdit(v, e)
    PROVE  Sound(w) /\ Advance(v, w, {e})
<1> DEFINE rivals == HeldBy(v, Target[e], Author[e])
<1>1. CASE w = v
  BY <1>1 DEF Advance
<1>2. CASE w = [v EXCEPT !.held = (v.held \ rivals) \cup {e}]
  <2>1. /\ w.held = (v.held \ rivals) \cup {e}
        /\ w.tombstones = v.tombstones
        /\ w.visible = v.visible
        /\ w \in View
    BY <1>2 DEF Sound, View
  <2>2. NoDeletedText(w) /\ BodyOrDebt(w)
    BY <2>1 DEF Sound, NoDeletedText, BodyOrDebt, Owing, Shown
  <2>3. HeldApart(w)
    BY <2>1 DEF Sound, HeldApart, Shown, HeldBy
  <2>4. Advance(v, w, {e})
    BY <2>1 DEF Advance
  <2> QED BY <2>1, <2>2, <2>3, <2>4 DEF Sound
<1> QED BY <1>1, <1>2 DEF HoldUnresolvedEdit

\* An edit of a visible message replaces an older revision of its author, an
\* edit of an absent one is held.
LEMMA EditSound ==
    ASSUME NEW v, Sound(v), NEW e \in Edits, e \notin v.tombstones,
           NEW k \in Nat, NEW w, w = ProjectEdit(v, e, k)
    PROVE  Sound(w) /\ Advance(v, w, {e})
<1> DEFINE m == Target[e]
<1>1. m \in Messages /\ e \in Events
  BY ProjectionConstants DEF Events
<1>2. CASE w = v
  BY <1>2 DEF Advance
<1>3. CASE Shown(v, m) /\ ~EditYields(v, e)
  <2>1. Stores(v, w, m, e, k, v.visible[m].epoch)
    BY <1>3 DEF ProjectEdit, InstallRevision, Stores
  <2>2. Author[e] = Author[m] /\ IsNewer(e, v.visible[m].revision)
    BY <1>3 DEF EditYields
  <2>3. m \notin v.tombstones /\ v.visible[m].epoch \in Nat
    BY <1>1, <1>3 DEF Sound, NoDeletedText, View, Row
  <2>4. \A f \in v.held : Target[f] # m
    BY <1>3 DEF Sound, HeldApart
  <2> HIDE DEF m
  <2>5. /\ Sound(w) /\ w.held = v.held
        /\ w.visible[m].revision = e
        /\ \A o \in Messages \ {m} : w.visible[o] = v.visible[o]
    BY <1>1, <2>1, <2>3, <2>4, StoreSound
  <2>6. Revises(e, m)
    BY <2>2 DEF Revises, m
  <2> QED BY <2>2, <2>5, <2>6 DEF Advance
<1>4. CASE ~Shown(v, m) /\ m \notin v.tombstones
  <2>1. w = HoldUnresolvedEdit(v, e)
    BY <1>4 DEF ProjectEdit
  <2> QED BY <2>1, <1>4, HoldSound
<1> QED BY <1>2, <1>3, <1>4 DEF ProjectEdit

-----------------------------------------------------------------------------
(* A redaction, and any item.                                              *)

\* A redaction leaves no text of the event, whatever tables it was in.
LEMMA RedactionSound ==
    ASSUME NEW v, Sound(v), NEW x \in Events, NEW k \in Nat,
           NEW w, w = ProjectRedaction(v, x, k)
    PROVE  Sound(w) /\ Advance(v, w, {})
<1>1. /\ w.held = {e \in v.held : e # x /\ Target[e] # x}
      /\ w.tombstones = v.tombstones \cup {x}
  BY DEF ProjectRedaction, HeldAfterRedaction
<1>2. ASSUME NEW m \in Messages
      PROVE  w.visible[m] = IF m = x THEN NoRow
                            ELSE IF v.visible[m].revision = x
                            THEN [v.visible[m] EXCEPT !.body = NoEvent, !.token = k]
                            ELSE v.visible[m]
  BY DEF ProjectRedaction
<1>3. \A m \in Messages : v.visible[m] \in Row
  BY DEF Sound, View
<1>4. ASSUME NEW m \in Messages
      PROVE  /\ w.visible[m] \in Row
             /\ w.visible[m].body \notin w.tombstones
             /\ Shown(w, m) => m # x /\ Shown(v, m)
             /\ w.visible[m].body \in {w.visible[m].revision, NoEvent}
             /\ Owing(w, m) => w.visible[m].token \in Nat
             /\ w.visible[m].revision \in {v.visible[m].revision, NoEvent}
  <2>1. NoRow \in Row
    BY DEF NoRow, Row, NoToken
  <2>2. x # NoEvent /\ NoEvent \notin v.tombstones
    BY ProjectionConstants DEF Sound, View
  <2>3. CASE m = x
    <3>1. w.visible[m] = NoRow
      BY <1>2, <2>3
    <3> QED BY <1>1, <2>1, <2>2, <3>1 DEF NoRow, Shown, Owing
  <2>4. CASE m # x /\ v.visible[m].revision = x
    BY <1>1, <1>2, <1>3, <2>2, <2>4, ZenonT(60) DEF Shown, Owing, Row
  <2>5. CASE m # x /\ v.visible[m].revision # x
    <3>1. w.visible[m] = v.visible[m]
      BY <1>2, <2>5
    <3>2. v.visible[m].body # x /\ v.visible[m].body \notin v.tombstones
      BY <2>2, <2>5 DEF Sound, NoDeletedText, BodyOrDebt
    <3> QED BY <1>1, <1>3, <2>5, <3>1, <3>2 DEF Shown, Owing, Sound, BodyOrDebt
  <2> QED BY <2>3, <2>4, <2>5
<1>5. w \in View
  BY <1>1, <1>4, ProjectionConstants DEF ProjectRedaction, HeldAfterRedaction, Sound, View
<1>6. NoDeletedText(w)
  BY <1>1, <1>4 DEF Sound, NoDeletedText
<1>7. HeldApart(w)
  BY <1>1, <1>4, ProjectionConstants DEF Sound, HeldApart, View
<1>8. BodyOrDebt(w)
  BY <1>4 DEF BodyOrDebt
<1>9. Advance(v, w, {})
  BY <1>1, <1>4 DEF Advance
<1> QED BY <1>5, <1>6, <1>7, <1>8, <1>9 DEF Sound

\* Every item of a timeline, in any order and whatever else has been projected.
THEOREM ProjectSound ==
    ASSUME NEW v, Sound(v), NEW i \in Items, NEW k \in Nat, NEW n \in Nat,
           NEW w, w = Project(v, i, k, n)
    PROVE  Sound(w) /\ Advance(v, w, IF i.redacts THEN {} ELSE {i.event})
<1>1. i.event \in Events /\ i.redacts \in BOOLEAN
  BY DEF Items
<1>2. CASE i.redacts
  <2>1. w = ProjectRedaction(v, i.event, k)
    BY <1>2 DEF Project
  <2> QED BY <1>1, <1>2, <2>1, RedactionSound
<1>3. CASE ~i.redacts /\ i.event \in v.tombstones
  BY <1>3 DEF Project, Advance
<1>4. CASE ~i.redacts /\ i.event \notin v.tombstones /\ i.event \in Messages
  <2>1. w = ProjectOriginal(v, i.event, k, n)
    BY <1>4 DEF Project
  <2> QED BY <1>4, <2>1, OriginalSound
<1>5. CASE ~i.redacts /\ i.event \notin v.tombstones /\ i.event \notin Messages
  <2>1. w = ProjectEdit(v, i.event, k)
    BY <1>5 DEF Project
  <2>2. i.event \in Edits
    BY <1>1, <1>5 DEF Events
  <2> QED BY <1>5, <2>1, <2>2, EditSound
<1> QED BY <1>1, <1>2, <1>3, <1>4, <1>5

\* A view that advances by events of a set stays within that set.
LEMMA AdvanceSourced ==
    ASSUME NEW v, NEW w, NEW more, NEW S, Advance(v, w, more), Sourced(v, S), more \subseteq S
    PROVE  Sourced(w, S)
  BY DEF Advance, Sourced, Shown

\* A view that advances replaces a revision by none that is older.
LEMMA AdvanceNewer ==
    ASSUME NEW v, Sound(v), NEW w, Sound(w), NEW more, Advance(v, w, more), NEW m \in Messages,
           Shown(v, m), Shown(w, m)
    PROVE  ~IsNewer(v.visible[m].revision, w.visible[m].revision)
<1>1. v.visible[m].revision \in Events /\ w.visible[m].revision \in Events
  BY DEF Sound, View, Row, Shown
<1>2. Rank[v.visible[m].revision] \in Nat /\ Rank[w.visible[m].revision] \in Nat
  BY <1>1, ProjectionConstants
<1> QED BY <1>2 DEF Advance, Shown, IsNewer

\* The first view of a membership.
LEMMA EmptySound == Sound(EmptyView) /\ \A S : Sourced(EmptyView, S)
<1>1. NoRow \in Row /\ NoRow.revision = NoEvent /\ NoRow.body = NoEvent
  BY DEF NoRow, Row, NoToken
<1>2. /\ EmptyView \in View
      /\ EmptyView.held = {} /\ EmptyView.tombstones = {}
      /\ \A m \in Messages : EmptyView.visible[m] = NoRow
  BY <1>1 DEF EmptyView, View
<1> QED BY <1>1, <1>2 DEF Sound, NoDeletedText, HeldApart, BodyOrDebt, Owing, Shown, Sourced

-----------------------------------------------------------------------------
(* The point refetch.                                                      *)

\* A refetched revision that is not redacted replaces the row it was asked for.
LEMMA RefetchedSound ==
    ASSUME NEW v, Sound(v), NEW request, request.message \in Messages,
           request.revision \in Events, request.epoch \in Nat,
           NEW e \in Events, MayInstall(v, request, e),
           NEW w, w = InstallRefetched(v, request, e)
    PROVE  /\ Sound(w)
           /\ w.held = v.held
           /\ w.visible[request.message].revision = e
           /\ v.visible[request.message].revision = request.revision
           /\ \A o \in Messages \ {request.message} : w.visible[o] = v.visible[o]
<1> DEFINE m == request.message
           row == [revision |-> e, body |-> e, token |-> NoToken, epoch |-> request.epoch]
<1>1. m \in Messages /\ e \notin v.tombstones /\ e # NoEvent
  BY ProjectionConstants DEF MayInstall
<1>2. v.visible[m].revision = request.revision /\ Shown(v, m)
  BY ProjectionConstants DEF MayInstall, StillOwed, Shown
<1>3. m \notin v.tombstones /\ \A f \in v.held : Target[f] # m
  BY <1>1, <1>2 DEF Sound, NoDeletedText, HeldApart
<1>4. row \in Row /\ row.revision = e /\ row.body = e
  BY DEF Row, NoToken
<1>5. w = [v EXCEPT !.visible[m] = row]
  BY DEF InstallRefetched
<1> HIDE DEF m, row
<1>6. /\ w.visible = [v.visible EXCEPT ![m] = row]
      /\ w.held = v.held
      /\ w.tombstones = v.tombstones
      /\ w \in View
  BY <1>4, <1>5 DEF Sound, View
<1>7. NoDeletedText(w)
  BY <1>1, <1>3, <1>4, <1>6 DEF Sound, View, NoDeletedText, Shown
<1>8. HeldApart(w)
  BY <1>1, <1>3, <1>4, <1>6 DEF Sound, View, HeldApart, Shown
<1>9. BodyOrDebt(w)
  BY <1>1, <1>4, <1>6 DEF Sound, View, BodyOrDebt, Owing, Shown
<1>10. w.visible[m].revision = e /\ \A o \in Messages \ {m} : w.visible[o] = v.visible[o]
  BY <1>1, <1>4, <1>6 DEF Sound, View
<1> QED BY <1>2, <1>6, <1>7, <1>8, <1>9, <1>10 DEF Sound, m

\* Dropping a message takes nothing else away and adds nothing.
LEMMA DropSound ==
    ASSUME NEW v, Sound(v), NEW request, request.message \in Messages,
           NEW w, w = DropRefetched(v, request)
    PROVE  Sound(w) /\ Advance(v, w, {})
<1> DEFINE m == request.message
<1>1. NoRow \in Row /\ NoRow.revision = NoEvent /\ NoRow.body = NoEvent
  BY DEF NoRow, Row, NoToken
<1>2. w = [v EXCEPT !.visible[m] = NoRow]
  BY DEF DropRefetched
<1> HIDE DEF m
<1>3. /\ w.visible = [v.visible EXCEPT ![m] = NoRow]
      /\ w.held = v.held
      /\ w.tombstones = v.tombstones
      /\ w \in View
  BY <1>1, <1>2 DEF Sound, View
<1>4. \A o \in Messages : w.visible[o] = v.visible[o] \/ w.visible[o] = NoRow
  BY <1>3 DEF Sound, View
<1>5. NoEvent \notin v.tombstones
  BY ProjectionConstants DEF Sound, View
<1>6. NoDeletedText(w) /\ BodyOrDebt(w)
  BY <1>1, <1>3, <1>4, <1>5 DEF Sound, NoDeletedText, BodyOrDebt, Owing, Shown
<1>7. HeldApart(w)
  BY <1>1, <1>3, <1>4, ProjectionConstants DEF Sound, View, HeldApart, Shown
<1>8. Advance(v, w, {})
  BY <1>1, <1>3, <1>4 DEF Advance
<1> QED BY <1>3, <1>6, <1>7, <1>8 DEF Sound

-----------------------------------------------------------------------------
(* The timeline only grows.                                                *)

\* Only the users of the room write to its timeline, one item at a time.
LEMMA TimelineStep ==
    ASSUME [Next]_vars
    PROVE  timeline' = timeline \/ \E i \in Items : timeline' = Append(timeline, i)
<1>1. CASE \E e \in Events : Send(e) \/ Redact(e)
  BY <1>1 DEF Send, Redact, Sent, Redaction, Items
<1>2. CASE Join \/ Sync \/ Depart \/ LoseHistory
  BY <1>2 DEF Join, Sync, Admit, Ignore, Rejoin, Depart, LoseHistory, server
<1>3. CASE \E h \in Hydrators : Walking(h) \/ WalkFails(h)
  BY <1>3 DEF Walking, WalkFails, Ensure, CheckStands, Recheck, ReadEpoch, Fetch,
              InstallItem, Mark, Settle, server
<1>4. CASE \E r \in Readers : Refetching(r) \/ RefetchFails(r)
  BY <1>4 DEF Refetching, RefetchFails, ReadDebt, FetchOriginal, FetchRelations,
              InstallStep, Drop, server
<1>5. CASE UNCHANGED vars
  BY <1>5 DEF vars, server
<1> QED BY <1>1, <1>2, <1>3, <1>4, <1>5 DEF Next, Server, Failure

\* What has been posted stays posted, what has been redacted stays redacted.
LEMMA TimelineGrows ==
    ASSUME TypeOK, [Next]_vars
    PROVE  /\ timeline' \in Seq(Items)
           /\ Len(timeline) <= Len(timeline')
           /\ SentEvents \subseteq SentEvents'
           /\ Redacted \subseteq Redacted'
<1>1. CASE timeline' = timeline
  BY <1>1 DEF TypeOK, SentEvents, Redacted, Posted
<1>2. ASSUME NEW i \in Items, timeline' = Append(timeline, i)
      PROVE  /\ timeline' \in Seq(Items)
             /\ Len(timeline) <= Len(timeline')
             /\ Posted \subseteq Posted'
  <2>1. timeline \in Seq(Items) BY DEF TypeOK
  <2>2. /\ timeline' \in Seq(Items)
        /\ Len(timeline') = Len(timeline) + 1
        /\ Len(timeline) \in Nat
        /\ \A j \in 1..Len(timeline) : timeline'[j] = timeline[j]
    BY <1>2, <2>1
  <2>3. \A j \in DOMAIN timeline : j \in DOMAIN timeline' /\ timeline'[j] = timeline[j]
    BY <2>1, <2>2
  <2> QED BY <2>2, <2>3 DEF Posted
<1> QED BY <1>1, <1>2, TimelineStep DEF SentEvents, Redacted

\* An item of the timeline that is not a redaction is an event sent to the room.
LEMMA PostedEvent ==
    ASSUME TypeOK, NEW i \in Posted, ~i.redacts
    PROVE  i.event \in SentEvents
<1>1. i \in Items
  BY DEF TypeOK, Posted
<1>2. i = Sent(i.event) /\ i.event \in Events
  BY <1>1 DEF Items, Sent
<1> QED BY <1>2 DEF SentEvents

-----------------------------------------------------------------------------
(* The tables stay sound.                                                  *)

\* The view and the timeline that a step leaves alone.
LEMMA ViewLeftAlone ==
    ASSUME [Next]_vars,
           ~\E i \in Items : Admit(i),
           ~Depart,
           ~\E h \in Hydrators : InstallItem(h),
           ~\E r \in Readers : InstallStep(r) \/ Drop(r)
    PROVE  view' = view
<1>1. CASE Server \/ Sync \/ LoseHistory
  BY <1>1 DEF Server, Send, Redact, Join, Sync, Ignore, Rejoin, LoseHistory, tables
<1>2. CASE \E h \in Hydrators : Walking(h) \/ WalkFails(h)
  BY <1>2 DEF Walking, WalkFails, Ensure, CheckStands, Recheck, ReadEpoch, Fetch,
              Mark, Settle, tables
<1>3. CASE \E r \in Readers : Refetching(r) \/ RefetchFails(r)
  BY <1>3 DEF Refetching, RefetchFails, ReadDebt, FetchOriginal, FetchRelations, tables
<1>4. CASE UNCHANGED vars
  BY <1>4 DEF vars, tables
<1> QED BY <1>1, <1>2, <1>3, <1>4 DEF Next, Failure

\* Sync projects an item of the timeline.
LEMMA AdmitView ==
    ASSUME ConversationInv, NEW i \in Items, Admit(i)
    PROVE  \/ view' = view
           \/ Sound(view') /\ \E more : more \subseteq SentEvents /\ Advance(view, view', more)
<1>1. Sound(view) /\ receipts + 1 \in Nat /\ epoch \in Nat
  BY DEF ConversationInv, TypeOK, DeletedIsGone, HeldAwaitsMessage, Sound
<1>2. i \in Posted
  BY DEF Admit, Deliverable, Posted
<1>3. CASE Fenced /\ ~i.redacts
  BY <1>3 DEF Admit, AdmittedView
<1>4. CASE ~(Fenced /\ ~i.redacts)
  <2>1. view' = Project(view, i, receipts + 1, epoch)
    BY <1>4 DEF Admit, AdmittedView
  <2> DEFINE more == IF i.redacts THEN {} ELSE {i.event}
  <2>2. Sound(view') /\ Advance(view, view', more)
    BY <1>1, <2>1, ProjectSound
  <2>3. more \subseteq SentEvents
    BY <1>2, PostedEvent DEF ConversationInv
  <2> QED BY <2>2, <2>3
<1> QED BY <1>3, <1>4

\* A walk projects an item of the timeline, or its redaction.
LEMMA WalkView ==
    ASSUME ConversationInv, NEW h \in Hydrators, InstallItem(h)
    PROVE  \/ view' = view
           \/ Sound(view') /\ \E more : more \subseteq SentEvents /\ Advance(view, view', more)
<1>1. Sound(view) /\ walk[h] \in Walk /\ timeline \in Seq(Items)
  BY DEF ConversationInv, TypeOK, DeletedIsGone, HeldAwaitsMessage, Sound
<1>2. walk[h].at \in 1..Len(timeline) /\ walk[h].epoch \in Nat
  BY <1>1 DEF ConversationInv, WalkShape, InstallItem, Walk
<1> DEFINE i == timeline[walk[h].at]
<1>3. i \in Posted /\ i \in Items
  BY <1>1, <1>2 DEF Posted
<1> HIDE DEF i
<1>4. CASE ~MayInstallItem(h)
  BY <1>4 DEF InstallItem
<1>5. CASE MayInstallItem(h)
  <2>0. SUFFICES ASSUME view' # view
                 PROVE  /\ Sound(view')
                        /\ \E more : more \subseteq SentEvents /\ Advance(view, view', more)
    OBVIOUS
  <2>1. PICK s \in Shapes(h, i) :
          view' = IF ~s.redacts /\ s.event \in Unreadable THEN view
                  ELSE Project(view, s, 0, walk[h].epoch)
    <3>1. view' \in WalkedView(h, i)
      BY <1>5 DEF InstallItem, i
    <3> QED BY <2>0, <3>1 DEF WalkedView
  <2>2. s = i \/ (s = Redaction(i.event) /\ i.event \in Events)
    BY <1>3, <2>1 DEF Shapes, Items
  <2>3. s \in Items /\ (s.redacts \/ s = i)
    <3>1. \A e \in Events : Redaction(e) \in Items /\ Redaction(e).redacts
      BY DEF Items, Redaction
    <3> QED BY <1>3, <2>2, <3>1
  <2>4. CASE view' = Project(view, s, 0, walk[h].epoch)
    <3> DEFINE more == IF s.redacts THEN {} ELSE {s.event}
    <3>1. Sound(view') /\ Advance(view, view', more)
      BY <1>1, <1>2, <2>3, <2>4, ProjectSound
    <3>2. more \subseteq SentEvents
      BY <1>3, <2>3, PostedEvent DEF ConversationInv
    <3> QED BY <3>1, <3>2
  <2> QED BY <2>0, <2>1, <2>4
<1> QED BY <1>4, <1>5

\* A refetch step installs, drops, or does nothing.
LEMMA RefetchView ==
    ASSUME ConversationInv, NEW r \in Readers, InstallStep(r) \/ Drop(r)
    PROVE  \/ view' = view
           \/ Sound(view') /\ Advance(view, view', {})
           \/ /\ refetch[r].pc = "install"
              /\ MayInstall(view, refetch[r], refetch[r].chosen)
              /\ view' = InstallRefetched(view, refetch[r], refetch[r].chosen)
<1>1. refetch[r].message \in Messages
  BY DEF ConversationInv, RefetchShape, InstallStep, Drop
<1>2. Sound(view)
  BY DEF ConversationInv, TypeOK, DeletedIsGone, HeldAwaitsMessage, Sound
<1>3. CASE view' = DropRefetched(view, refetch[r])
  BY <1>1, <1>2, <1>3, DropSound
<1> QED BY <1>3 DEF InstallStep, Drop, DropStep

\* What a step that installs a refetched revision makes of the view.
LEMMA RefetchInstalls ==
    ASSUME ConversationInv, NEW r \in Readers, refetch[r].pc = "install",
           MayInstall(view, refetch[r], refetch[r].chosen),
           view' = InstallRefetched(view, refetch[r], refetch[r].chosen)
    PROVE  /\ Sound(view')
           /\ Sourced(view', SentEvents)
           /\ \A m \in Messages : Shown(view, m) /\ Shown(view, m)' =>
                \/ view.visible[m].revision \in Redacted
                \/ ~IsNewer(view.visible[m].revision, view'.visible[m].revision)
<1> DEFINE q == refetch[r]
           e == refetch[r].chosen
<1>1. q \in Refetch /\ q.message \in Messages /\ q.revision \in Events
  BY DEF ConversationInv, TypeOK, RefetchShape
<1>2. Sound(view) /\ Sourced(view, SentEvents)
  BY DEF ConversationInv, TypeOK, DeletedIsGone, HeldAwaitsMessage, FromTheRoom, Sound
<1>3. /\ e \in SentEvents /\ Revises(e, q.message)
      /\ q.revision \in Redacted \/ ~IsNewer(q.revision, e)
  BY DEF ConversationInv, RefetchIsFresh
<1>4. e \in Events /\ q.epoch \in Nat
  BY <1>1, <1>3 DEF SentEvents, Refetch
<1>5. MayInstall(view, q, e) /\ view' = InstallRefetched(view, q, e)
  OBVIOUS
<1> HIDE DEF q, e
<1>6. /\ Sound(view')
      /\ view'.held = view.held
      /\ view'.visible[q.message].revision = e
      /\ view.visible[q.message].revision = q.revision
      /\ \A o \in Messages \ {q.message} : view'.visible[o] = view.visible[o]
  BY <1>1, <1>2, <1>4, <1>5, RefetchedSound
<1>7. Sourced(view', SentEvents)
  BY <1>2, <1>3, <1>6 DEF Sourced, Shown
<1>8. ASSUME NEW m \in Messages, m # q.message, Shown(view, m)
      PROVE  ~IsNewer(view.visible[m].revision, view'.visible[m].revision)
  <2>1. view.visible[m].revision \in Events
    BY <1>2, <1>8 DEF Sound, View, Row, Shown
  <2>2. Rank[view.visible[m].revision] \in Nat
    BY <2>1, ProjectionConstants
  <2> QED BY <1>6, <1>8, <2>2 DEF IsNewer
<1> QED BY <1>3, <1>6, <1>7, <1>8

\* Every step keeps the tables sound and within what has been sent, and takes
\* no message back to an older revision that is not redacted.
LEMMA ViewStep ==
    ASSUME ConversationInv, [Next]_vars
    PROVE  /\ Sound(view')
           /\ Sourced(view', SentEvents')
           /\ \A m \in Messages : Shown(view, m) /\ Shown(view, m)' =>
                \/ view.visible[m].revision \in Redacted
                \/ ~IsNewer(view.visible[m].revision, view'.visible[m].revision)
<1>1. Sound(view) /\ Sourced(view, SentEvents)
  BY DEF ConversationInv, TypeOK, DeletedIsGone, HeldAwaitsMessage, FromTheRoom, Sound
<1>2. SentEvents \subseteq SentEvents'
  BY TimelineGrows DEF ConversationInv
<1>3. ASSUME Sourced(view', SentEvents)
      PROVE  Sourced(view', SentEvents')
  BY <1>2, <1>3 DEF Sourced
<1>4. ASSUME NEW more, more \subseteq SentEvents, Sound(view'), Advance(view, view', more)
      PROVE  /\ Sourced(view', SentEvents)
             /\ \A m \in Messages : Shown(view, m) /\ Shown(view', m) =>
                  ~IsNewer(view.visible[m].revision, view'.visible[m].revision)
  BY <1>1, <1>4, AdvanceSourced, AdvanceNewer
<1>5. CASE Sound(view') /\ \E more : more \subseteq SentEvents /\ Advance(view, view', more)
  BY <1>3, <1>4, <1>5 DEF Shown
<1>6. CASE view' = view
  <2>1. Advance(view, view', {})
    BY <1>6 DEF Advance
  <2> QED BY <1>1, <1>3, <1>4, <1>6, <2>1 DEF Shown
<1>7. CASE \E i \in Items : Admit(i)
  BY <1>5, <1>6, <1>7, AdmitView
<1>8. CASE Depart
  <2>1. view' = EmptyView
    BY <1>8 DEF Depart
  <2>2. \A m \in Messages : view'.visible[m].revision = NoEvent
    BY <2>1 DEF EmptyView, NoRow
  <2> QED BY <1>3, <2>1, <2>2, EmptySound DEF Shown
<1>9. CASE \E h \in Hydrators : InstallItem(h)
  BY <1>5, <1>6, <1>9, WalkView
<1>10. CASE \E r \in Readers : InstallStep(r) \/ Drop(r)
  BY <1>3, <1>5, <1>6, <1>10, RefetchView, RefetchInstalls
<1> QED BY <1>6, <1>7, <1>8, <1>9, <1>10, ViewLeftAlone

-----------------------------------------------------------------------------
(* Walks.                                                                  *)

\* What a walk is, and that it stays inside the timeline, is kept by each of
\* its steps.
LEMMA WalkStep ==
    ASSUME ConversationInv, [Next]_vars
    PROVE  walk' \in [Hydrators -> Walk] /\ WalkShape'
<1>1. /\ walk \in [Hydrators -> Walk] /\ WalkShape
      /\ timeline \in Seq(Items) /\ Len(timeline) \in Nat
      /\ recovery \in Gap /\ epoch \in Nat
  BY DEF ConversationInv, TypeOK
<1>2. Len(timeline) <= Len(timeline') /\ Len(timeline') \in Nat
  BY TimelineGrows DEF ConversationInv
<1>3. NoWalk \in Walk /\ NoWalk.at = 0 /\ 0 <= Len(timeline)
  BY <1>1 DEF NoWalk, Walk, NoGap, Gap
<1>4. ASSUME NEW h \in Hydrators, NEW w \in Walk, w.at <= Len(timeline),
             walk' = [walk EXCEPT ![h] = w]
      PROVE  walk' \in [Hydrators -> Walk] /\ WalkShape'
  <2>1. walk' \in [Hydrators -> Walk]
    BY <1>1, <1>4
  <2>2. ASSUME NEW g \in Hydrators
        PROVE  walk'[g].at <= Len(timeline')
    <3>1. walk'[g] = IF g = h THEN w ELSE walk[g]
      BY <1>1, <1>4
    <3>2. walk'[g].at \in Nat /\ walk'[g].at <= Len(timeline)
      BY <1>1, <1>4, <2>1, <3>1 DEF WalkShape, Walk
    <3> QED BY <1>1, <1>2, <3>2
  <2> QED BY <2>1, <2>2 DEF WalkShape
<1>5. CASE walk' = walk
  <2>1. \A g \in Hydrators : walk[g].at \in Nat /\ walk[g].at <= Len(timeline)
    BY <1>1 DEF WalkShape, Walk
  <2> QED BY <1>1, <1>2, <1>5, <2>1 DEF WalkShape
<1>6. ASSUME NEW h \in Hydrators, Abandon(h)
      PROVE  walk' \in [Hydrators -> Walk] /\ WalkShape'
  <2>1. walk' = [walk EXCEPT ![h] = NoWalk] /\ NoWalk.at <= Len(timeline)
    BY <1>3, <1>6 DEF Abandon
  <2> QED BY <1>3, <1>4, <2>1
<1>7. ASSUME NEW h \in Hydrators, Walking(h) \/ WalkFails(h)
      PROVE  walk' \in [Hydrators -> Walk] /\ WalkShape'
  <2>1. walk[h] \in Walk /\ walk[h].at \in Nat /\ walk[h].at <= Len(timeline)
    BY <1>1 DEF WalkShape, Walk
  <2>2. ASSUME NEW pc \in {"recheck", "repairEpoch", "stands", "hydrate", "epoch"}, Goto(h, pc)
        PROVE  walk' \in [Hydrators -> Walk] /\ WalkShape'
    <3> DEFINE w == [walk[h] EXCEPT !.pc = pc]
    <3>1. w \in Walk /\ w.at = walk[h].at
      BY <2>1, <2>2 DEF Walk
    <3>2. walk' = [walk EXCEPT ![h] = w]
      BY <2>2 DEF Goto
    <3> HIDE DEF w
    <3> QED BY <1>4, <2>1, <3>1, <3>2
  <2>3. CASE Ensure(h)
    <3> DEFINE w == [NoWalk EXCEPT !.pc = IF NeedsWalk(h) THEN "recheck" ELSE "stands",
                                   !.gap = recovery]
    <3>1. w \in Walk /\ w.at <= Len(timeline)
      BY <1>1, <1>3 DEF Walk
    <3>2. walk' = [walk EXCEPT ![h] = w]
      BY <2>3 DEF Ensure
    <3> HIDE DEF w
    <3> QED BY <1>4, <3>1, <3>2
  <2>4. CASE CheckStands(h)
    BY <1>6, <2>2, <2>4 DEF CheckStands
  <2>5. CASE Recheck(h)
    BY <1>6, <2>2, <2>5 DEF Recheck
  <2>6. CASE ReadEpoch(h)
    <3> DEFINE w == [walk[h] EXCEPT !.epoch = epoch,
                        !.pc = IF @ = "epoch" THEN "fetch" ELSE "repairFetch"]
    <3>1. w \in Walk /\ w.at = walk[h].at
      BY <1>1, <2>1 DEF Walk
    <3>2. walk' = [walk EXCEPT ![h] = w]
      BY <2>6 DEF ReadEpoch
    <3> HIDE DEF w
    <3> QED BY <1>4, <2>1, <3>1, <3>2
  <2>7. CASE Fetch(h)
    <3>1. SUFFICES ASSUME ~Abandon(h)
                   PROVE  walk' \in [Hydrators -> Walk] /\ WalkShape'
      BY <1>6
    <3> DEFINE pc == IF walk[h].pc = "fetch" THEN "install" ELSE "repair"
               w(stop, ended, unread) ==
                 [pc |-> pc, gap |-> walk[h].gap, epoch |-> walk[h].epoch,
                  at |-> Len(timeline), stop |-> stop, gone |-> Redacted,
                  ended |-> ended, unread |-> unread]
    <3>2. PICK stop \in 0..Len(timeline), ended \in BOOLEAN, unread \in BOOLEAN :
            walk' = [walk EXCEPT ![h] = w(stop, ended, unread)]
      BY <2>7, <3>1 DEF Fetch
    <3>3. stop \in Nat /\ Redacted \in SUBSET Events
      BY <1>1 DEF Redacted
    <3>4. pc \in {"install", "repair"} /\ walk[h].gap \in Gap /\ walk[h].epoch \in Nat
      BY <2>1 DEF Walk
    <3> HIDE DEF pc
    <3>5. w(stop, ended, unread) \in Walk /\ w(stop, ended, unread).at <= Len(timeline)
      BY <1>1, <3>3, <3>4 DEF Walk
    <3> HIDE DEF w
    <3> QED BY <1>4, <3>2, <3>5
  <2>8. CASE InstallItem(h)
    <3>1. SUFFICES ASSUME ~Abandon(h)
                   PROVE  walk' \in [Hydrators -> Walk] /\ WalkShape'
      BY <1>6
    <3> DEFINE w == [walk[h] EXCEPT !.at = @ - 1]
    <3>2. walk' = [walk EXCEPT ![h] = w] /\ walk[h].at > walk[h].stop
      BY <2>8, <3>1 DEF InstallItem
    <3>3. w \in Walk /\ w.at <= Len(timeline)
      <4>1. walk[h].at - 1 \in Nat /\ walk[h].at - 1 <= Len(timeline)
        <5>1. walk[h].stop \in Nat BY <2>1 DEF Walk
        <5> QED BY <1>1, <2>1, <3>2, <5>1
      <4> QED BY <2>1, <4>1 DEF Walk
    <3> HIDE DEF w
    <3> QED BY <1>4, <3>2, <3>3
  <2>9. CASE Mark(h) \/ Settle(h) \/ WalkFails(h)
    BY <1>6, <2>9 DEF Mark, Settle, WalkFails
  <2> QED BY <1>7, <2>3, <2>4, <2>5, <2>6, <2>7, <2>8, <2>9 DEF Walking
<1>8. CASE Server \/ Sync \/ Depart \/ LoseHistory \/ UNCHANGED vars
  BY <1>5, <1>8 DEF Server, Send, Redact, Join, Sync, Admit, Ignore, Rejoin, Depart,
                    LoseHistory, vars
<1>9. CASE \E r \in Readers : Refetching(r) \/ RefetchFails(r)
  BY <1>5, <1>9 DEF Refetching, RefetchFails, ReadDebt, FetchOriginal, FetchRelations,
                    InstallStep, Drop
<1> QED BY <1>7, <1>8, <1>9 DEF Next, Failure

-----------------------------------------------------------------------------
(* Refetches.                                                              *)

\* What ConversationInv says of one reader.
GoodRefetch(q, sent, redacted) ==
    /\ q \in Refetch
    /\ q.pc # "idle" =>
        /\ q.message \in Messages /\ q.revision \in Events
        /\ q.revision \in sent /\ Revises(q.revision, q.message)
    /\ q.pc = "install" =>
        /\ q.chosen \in sent /\ Revises(q.chosen, q.message)
        /\ q.revision \in redacted \/ ~IsNewer(q.revision, q.chosen)

\* An edit is posted after its message.
LEMMA EditsFollowStep ==
    ASSUME ConversationInv, [Next]_vars
    PROVE  EditsFollow'
<1>1. EditsFollow /\ timeline \in Seq(Items)
  BY DEF ConversationInv, TypeOK
<1>2. ASSUME NEW e \in Events, NEW x \in {Sent(e), Redaction(e)},
             timeline' = Append(timeline, x)
      PROVE  Posted' = Posted \cup {x}
  <2>1. /\ Len(timeline) \in Nat
        /\ DOMAIN timeline = 1..Len(timeline)
        /\ DOMAIN timeline' = 1..(Len(timeline) + 1)
        /\ timeline'[Len(timeline) + 1] = x
        /\ \A j \in 1..Len(timeline) : timeline'[j] = timeline[j]
    BY <1>1, <1>2 DEF Sent, Redaction, Items
  <2>2. \A j : j \in 1..(Len(timeline) + 1) <=> j \in 1..Len(timeline) \/ j = Len(timeline) + 1
    BY <2>1
  <2> QED BY <2>1, <2>2 DEF Posted
<1>3. CASE timeline' = timeline
  BY <1>1, <1>3 DEF EditsFollow, SentEvents, Posted
<1>4. ASSUME NEW e \in Events, Send(e)
      PROVE  EditsFollow'
  <2>1. Posted' = Posted \cup {Sent(e)}
    BY <1>2, <1>4 DEF Send
  <2>2. \A f \in Events : Sent(f) = Sent(e) => f = e
    BY DEF Sent
  <2>3. SentEvents' = SentEvents \cup {e}
    BY <2>1, <2>2 DEF SentEvents
  <2>4. e \in Edits => Target[e] \in SentEvents
    BY <1>4, ProjectionConstants DEF Send, SentEvents, Events
  <2> QED BY <1>1, <2>3, <2>4 DEF EditsFollow
<1>5. ASSUME NEW e \in Events, Redact(e)
      PROVE  EditsFollow'
  <2>1. Posted' = Posted \cup {Redaction(e)}
    BY <1>2, <1>5 DEF Redact
  <2>2. \A f \in Events : Sent(f) # Redaction(e)
    BY DEF Sent, Redaction
  <2>3. SentEvents' = SentEvents
    BY <2>1, <2>2 DEF SentEvents
  <2> QED BY <1>1, <2>3 DEF EditsFollow
<1>6. CASE Join \/ Sync \/ Depart \/ LoseHistory
  BY <1>3, <1>6 DEF Join, Sync, Admit, Ignore, Rejoin, Depart, LoseHistory, server
<1>7. CASE \E h \in Hydrators : Walking(h) \/ WalkFails(h)
  BY <1>3, <1>7 DEF Walking, WalkFails, Ensure, CheckStands, Recheck, ReadEpoch, Fetch,
              InstallItem, Mark, Settle, server
<1>8. CASE \E r \in Readers : Refetching(r) \/ RefetchFails(r)
  BY <1>3, <1>8 DEF Refetching, RefetchFails, ReadDebt, FetchOriginal, FetchRelations,
              InstallStep, Drop, server
<1>9. CASE UNCHANGED vars
  BY <1>3, <1>9 DEF vars, server
<1> QED BY <1>4, <1>5, <1>6, <1>7, <1>8, <1>9 DEF Next, Server, Failure

\* What the relations of a message reduce to is not older than a revision of
\* the message that is not redacted.
LEMMA CurrentIsFresh ==
    ASSUME ConversationInv, NEW m \in Messages, NEW e \in Events, IsCurrentRevision(m, e),
           NEW f \in SentEvents, Revises(f, m)
    PROVE  /\ e \in SentEvents
           /\ Revises(e, m)
           /\ f \in Redacted \/ ~IsNewer(f, e)
<1>1. EditsFollow
  BY DEF ConversationInv
<1>2. f \in Events
  BY DEF SentEvents
<1>3. m \in SentEvents
  BY <1>1 DEF Revises, EditsFollow
<1>4. e \in SentEvents /\ Revises(e, m)
  BY <1>3, ProjectionConstants DEF IsCurrentRevision, Rivals, Revises, SentEvents, Events
<1>5. CASE f \notin Redacted
  <2>1. f \in Rivals(m)
    BY <1>5 DEF Rivals, Revises, SentEvents
  <2>2. f = e \/ Rank[e] > Rank[f]
    BY <2>1 DEF IsCurrentRevision, IsNewer
  <2>3. Rank[e] \in Nat /\ Rank[f] \in Nat
    BY <1>2, ProjectionConstants
  <2> QED BY <1>4, <2>2, <2>3 DEF IsNewer
<1> QED BY <1>4, <1>5

\* A row that may not be served makes a request that can be answered.
LEMMA ReadDebtGood ==
    ASSUME ConversationInv, NEW m \in Messages, Owing(view, m), NEW q,
           q = [pc |-> "original", message |-> m, revision |-> view.visible[m].revision,
                token |-> view.visible[m].token, epoch |-> view.visible[m].epoch,
                chosen |-> NoEvent]
    PROVE  GoodRefetch(q, SentEvents, Redacted)
<1>1. /\ view.visible[m] \in Row
      /\ view.visible[m].revision # NoEvent
      /\ view.visible[m].token \in Nat
      /\ view.visible[m].revision \in SentEvents
      /\ Revises(view.visible[m].revision, m)
  BY DEF ConversationInv, TypeOK, View, BodyOrDebt, FromTheRoom, Sourced, Owing, Shown
<1>2. view.visible[m].revision \in Events /\ view.visible[m].epoch \in Nat
  BY <1>1 DEF Row
<1>3. q \in Refetch
  BY <1>1, <1>2 DEF Refetch
<1> QED BY <1>1, <1>2, <1>3 DEF GoodRefetch

\* Every step keeps every refetch good.
LEMMA RefetchStep ==
    ASSUME ConversationInv, [Next]_vars
    PROVE  /\ refetch' \in [Readers -> Refetch]
           /\ \A r \in Readers : GoodRefetch(refetch'[r], SentEvents', Redacted')
<1>1. refetch \in [Readers -> Refetch]
  BY DEF ConversationInv, TypeOK
<1>2. \A r \in Readers : GoodRefetch(refetch[r], SentEvents, Redacted)
  BY <1>1 DEF ConversationInv, RefetchShape, FromTheRoom, RefetchIsFresh, GoodRefetch
<1>3. ASSUME NEW q, GoodRefetch(q, SentEvents, Redacted)
      PROVE  GoodRefetch(q, SentEvents', Redacted')
  BY <1>3, TimelineGrows DEF ConversationInv, GoodRefetch
<1>4. ASSUME NEW r \in Readers, NEW q, GoodRefetch(q, SentEvents, Redacted),
             refetch' = [refetch EXCEPT ![r] = q]
      PROVE  /\ refetch' \in [Readers -> Refetch]
             /\ \A o \in Readers : GoodRefetch(refetch'[o], SentEvents', Redacted')
  <2>1. q \in Refetch
    BY <1>4 DEF GoodRefetch
  <2>2. \A o \in Readers : refetch'[o] = IF o = r THEN q ELSE refetch[o]
    BY <1>1, <1>4
  <2>3. \A o \in Readers : GoodRefetch(refetch'[o], SentEvents, Redacted)
    BY <1>2, <1>4, <2>2
  <2> QED BY <1>1, <1>3, <1>4, <2>1, <2>3
<1>5. GoodRefetch(NoRefetch, SentEvents, Redacted)
  BY DEF GoodRefetch, NoRefetch, Refetch
<1>6. ASSUME NEW r \in Readers, refetch' = [refetch EXCEPT ![r] = NoRefetch]
      PROVE  /\ refetch' \in [Readers -> Refetch]
             /\ \A o \in Readers : GoodRefetch(refetch'[o], SentEvents', Redacted')
  BY <1>4, <1>5, <1>6
<1>7. ASSUME NEW r \in Readers, Refetching(r) \/ RefetchFails(r)
      PROVE  /\ refetch' \in [Readers -> Refetch]
             /\ \A o \in Readers : GoodRefetch(refetch'[o], SentEvents', Redacted')
  <2>1. CASE ReadDebt(r)
    BY <1>4, <2>1, ReadDebtGood DEF ReadDebt
  <2>2. CASE FetchOriginal(r)
    <3>1. ASSUME NEW pc \in {"drop", "relations"}
          PROVE  GoodRefetch([refetch[r] EXCEPT !.pc = pc], SentEvents, Redacted)
      <4> DEFINE q == [refetch[r] EXCEPT !.pc = pc]
      <4>1. refetch[r] \in Refetch /\ refetch[r].pc = "original"
        BY <1>1, <2>2 DEF FetchOriginal
      <4>2. /\ q \in Refetch /\ q.message = refetch[r].message
            /\ q.revision = refetch[r].revision /\ q.pc # "install"
        BY <3>1, <4>1 DEF Refetch
      <4> HIDE DEF q
      <4> QED BY <1>2, <4>1, <4>2 DEF GoodRefetch, q
    <3>2. \/ refetch' = [refetch EXCEPT ![r] = NoRefetch]
          \/ \E pc \in {"drop", "relations"} :
                refetch' = [refetch EXCEPT ![r] = [refetch[r] EXCEPT !.pc = pc]]
      BY <1>1, <2>2 DEF FetchOriginal
    <3> QED BY <1>4, <1>6, <3>1, <3>2
  <2>3. CASE FetchRelations(r)
    <3>1. SUFFICES ASSUME NEW e \in Events, IsCurrentRevision(refetch[r].message, e),
                          refetch' = [refetch EXCEPT ![r].pc = "install", ![r].chosen = e]
                   PROVE  /\ refetch' \in [Readers -> Refetch]
                          /\ \A o \in Readers : GoodRefetch(refetch'[o], SentEvents', Redacted')
      BY <1>6, <2>3 DEF FetchRelations
    <3> DEFINE q == [refetch[r] EXCEPT !.pc = "install", !.chosen = e]
    <3>2. refetch[r] \in Refetch /\ refetch[r].pc = "relations"
      BY <1>1, <2>3 DEF FetchRelations
    <3>3. /\ refetch[r].message \in Messages /\ refetch[r].revision \in Events
          /\ refetch[r].revision \in SentEvents
          /\ Revises(refetch[r].revision, refetch[r].message)
      BY <1>2, <3>2 DEF GoodRefetch
    <3>4. /\ e \in SentEvents /\ Revises(e, refetch[r].message)
          /\ refetch[r].revision \in Redacted \/ ~IsNewer(refetch[r].revision, e)
      BY <3>1, <3>3, CurrentIsFresh
    <3>5. /\ q \in Refetch /\ q.message = refetch[r].message
          /\ q.revision = refetch[r].revision /\ q.chosen = e
      BY <3>1, <3>2 DEF Refetch
    <3>6. refetch' = [refetch EXCEPT ![r] = q]
      BY <3>1
    <3> HIDE DEF q
    <3>7. GoodRefetch(q, SentEvents, Redacted)
      BY <3>3, <3>4, <3>5 DEF GoodRefetch
    <3> QED BY <1>4, <3>6, <3>7
  <2>4. CASE InstallStep(r) \/ Drop(r) \/ RefetchFails(r)
    BY <1>6, <2>4 DEF InstallStep, Drop, RefetchFails
  <2> QED BY <1>7, <2>1, <2>2, <2>3, <2>4 DEF Refetching
<1>8. CASE refetch' = refetch
  BY <1>1, <1>2, <1>3, <1>8
<1>9. CASE Server \/ Sync \/ Depart \/ LoseHistory \/ UNCHANGED vars
  BY <1>8, <1>9 DEF Server, Send, Redact, Join, Sync, Admit, Ignore, Rejoin, Depart,
                    LoseHistory, vars
<1>10. CASE \E h \in Hydrators : Walking(h) \/ WalkFails(h)
  BY <1>8, <1>10 DEF Walking, WalkFails, Ensure, CheckStands, Recheck, ReadEpoch, Fetch,
                     InstallItem, Mark, Settle
<1> QED BY <1>7, <1>9, <1>10 DEF Next, Failure

-----------------------------------------------------------------------------
(* The remaining variables.                                                *)

\* Publishing coverage makes a marker, of no less than the membership had.
LEMMA PublishedType ==
    ASSUME hydration \in Marker, NEW e \in Nat, NEW c, c \in BOOLEAN, NEW k \in Nat,
           NEW x, x = Published(e, c, k)
    PROVE  /\ x \in Marker
           /\ hydration.epoch = e => /\ hydration.complete => x.complete
                                     /\ hydration.rank <= x.rank
<1>1. /\ x.epoch = e
      /\ x.complete = (c \/ (hydration.epoch = e /\ hydration.complete))
      /\ x.rank = IF hydration.epoch = e /\ hydration.rank > k THEN hydration.rank ELSE k
  BY DEF Published
<1>2. hydration.rank \in Nat /\ hydration.complete \in BOOLEAN
  BY DEF Marker
<1>3. x.complete \in BOOLEAN
  BY <1>1
<1>4. x \in Marker
  BY <1>2, <1>3 DEF Published, Marker
<1> QED BY <1>1, <1>2, <1>4

\* Hydration steps and the settling of gaps.
LEMMA CoverageStep ==
    ASSUME ConversationInv, [Next]_vars
    PROVE  /\ hydration' \in Marker
           /\ hydration.epoch = epoch /\ hydration'.epoch = epoch =>
                /\ hydration.complete => hydration'.complete
                /\ hydration.rank <= hydration'.rank
<1>1. hydration \in Marker /\ epoch \in Nat /\ walk \in [Hydrators -> Walk]
  BY DEF ConversationInv, TypeOK
<1>2. CASE hydration' = hydration
  <2>1. hydration.rank \in Nat
    BY <1>1 DEF Marker
  <2> QED BY <1>1, <1>2, <2>1
<1>3. CASE hydration' = NoMarker
  <2>1. NoMarker \in Marker /\ NoMarker.epoch = -1
    BY DEF NoMarker, Marker
  <2> QED BY <1>1, <1>3, <2>1
<1>4. ASSUME NEW h \in Hydrators, NEW c \in BOOLEAN, hydration' = Published(epoch, c, Policy[h])
      PROVE  /\ hydration' \in Marker
             /\ hydration.epoch = epoch => /\ hydration.complete => hydration'.complete
                                           /\ hydration.rank <= hydration'.rank
  <2>1. Policy[h] \in Nat
    BY ConversationConstants
  <2> QED BY <1>1, <1>4, <2>1, PublishedType
<1>5. ASSUME NEW h \in Hydrators, Mark(h) \/ Settle(h)
      PROVE  \/ hydration' = hydration
             \/ \E c \in BOOLEAN : hydration' = Published(epoch, c, Policy[h])
  <2>1. walk[h].ended \in BOOLEAN /\ (walk[h].ended /\ ~walk[h].unread) \in BOOLEAN
    BY <1>1 DEF Walk
  <2>2. CASE Mark(h)
    BY <2>1, <2>2 DEF Mark
  <2>3. CASE Settle(h)
    BY <2>1, <2>3 DEF Settle
  <2> QED BY <1>5, <2>2, <2>3
<1>6. CASE Server \/ Sync \/ Depart \/ LoseHistory \/ UNCHANGED vars
  BY <1>2, <1>3, <1>6 DEF Server, Send, Redact, Join, Sync, Admit, Ignore, Rejoin, Depart,
                          LoseHistory, vars, tables
<1>7. CASE \E r \in Readers : Refetching(r) \/ RefetchFails(r)
  BY <1>2, <1>3, <1>7 DEF Refetching, RefetchFails, ReadDebt, FetchOriginal, FetchRelations,
                          InstallStep, Drop, DropStep, tables
<1>8. ASSUME NEW h \in Hydrators, Walking(h) \/ WalkFails(h), ~(Mark(h) \/ Settle(h))
      PROVE  hydration' = hydration
  BY <1>8 DEF Walking, WalkFails, Ensure, CheckStands, Recheck, ReadEpoch, Fetch,
              InstallItem, tables
<1> QED BY <1>2, <1>4, <1>5, <1>6, <1>7, <1>8 DEF Next, Failure

\* The types of the counters, the membership, the gap and the sync bookkeeping.
LEMMA TypeStep ==
    ASSUME ConversationInv, [Next]_vars
    PROVE  /\ delivered' \subseteq Items /\ lost' \subseteq Items
           /\ receipts' \in Nat /\ epoch' \in Nat
           /\ membership' \in {"in", "out", "back"}
           /\ recovery' \in Gap
<1>1. /\ delivered \subseteq Items /\ lost \subseteq Items
      /\ receipts \in Nat /\ epoch \in Nat
      /\ membership \in {"in", "out", "back"}
      /\ recovery \in Gap /\ timeline \in Seq(Items)
  BY DEF ConversationInv, TypeOK
<1>2. Undelivered \subseteq Items
  BY <1>1 DEF Undelivered, Posted
<1>3. CASE UNCHANGED <<delivered, lost, receipts, epoch, membership, recovery>>
  BY <1>1, <1>3
<1>4. CASE \E e \in Events : Send(e) \/ Redact(e)
  BY <1>3, <1>4 DEF Send, Redact, tables
<1>5. CASE Join \/ Rejoin
  BY <1>1, <1>2, <1>5 DEF Join, Rejoin, server
<1>6. CASE \E i \in Items : Admit(i) \/ Ignore(i)
  BY <1>1, <1>6 DEF Admit, Ignore, tables
<1>7. CASE Depart
  BY <1>1, <1>7 DEF Depart, server, NoGap, Gap
<1>8. CASE LoseHistory
  <2>1. lost' \subseteq Items
    BY <1>1, <1>2, <1>8 DEF LoseHistory
  <2>2. GapRecorded \in Gap
    BY <1>1 DEF GapRecorded, Gap
  <2> QED BY <1>1, <1>8, <2>1, <2>2 DEF LoseHistory
<1>9. ASSUME NEW h \in Hydrators, Settle(h)
      PROVE  recovery' \in Gap
  <2>1. Policy[h] \in Nat
    BY ConversationConstants
  <2> QED BY <1>1, <1>9, <2>1 DEF Settle, Gap
<1>10. CASE \E h \in Hydrators : Walking(h) \/ WalkFails(h)
  <2>1. CASE \E h \in Hydrators : Settle(h)
    BY <1>1, <1>9, <2>1 DEF Settle, server
  <2> QED BY <1>3, <1>10, <2>1 DEF Walking, WalkFails, Ensure, CheckStands, Recheck, ReadEpoch,
                            Fetch, InstallItem, Mark, server, tables
<1>11. CASE \E r \in Readers : Refetching(r) \/ RefetchFails(r)
  BY <1>3, <1>11 DEF Refetching, RefetchFails, ReadDebt, FetchOriginal, FetchRelations,
                     InstallStep, Drop, server, tables
<1>12. CASE UNCHANGED vars
  BY <1>3, <1>12 DEF vars, server, tables
<1> QED BY <1>4, <1>5, <1>6, <1>7, <1>8, <1>10, <1>11, <1>12 DEF Next, Server, Sync, Failure

-----------------------------------------------------------------------------
(* The theorems.                                                           *)

LEMMA InitInv == Init => ConversationInv
<1> SUFFICES ASSUME Init PROVE ConversationInv
  OBVIOUS
<1>1. Sound(view) /\ Sourced(view, SentEvents)
  BY EmptySound DEF Init
<1>2. TypeOK
  <2>1. NoWalk \in Walk /\ NoRefetch \in Refetch /\ NoMarker \in Marker /\ NoGap \in Gap
    BY DEF NoWalk, Walk, NoRefetch, Refetch, NoMarker, Marker, NoGap, Gap
  <2> QED BY <1>1, <2>1 DEF Init, TypeOK, Sound
<1>3. RefetchShape /\ RefetchIsFresh
  BY DEF Init, RefetchShape, RefetchIsFresh, NoRefetch
<1>4. WalkShape
  BY DEF Init, WalkShape, NoWalk
<1>5. EditsFollow
  BY DEF Init, EditsFollow, SentEvents, Posted
<1>6. FromTheRoom
  BY <1>1 DEF Init, FromTheRoom, NoRefetch
<1> QED BY <1>1, <1>2, <1>3, <1>4, <1>5, <1>6 DEF ConversationInv, Sound, DeletedIsGone,
                                                  HeldAwaitsMessage

LEMMA InvStep == ConversationInv /\ [Next]_vars => ConversationInv'
<1> SUFFICES ASSUME ConversationInv, [Next]_vars PROVE ConversationInv'
  OBVIOUS
<1>1. Sound(view') /\ Sourced(view', SentEvents')
  BY ViewStep
<1>2. walk' \in [Hydrators -> Walk] /\ WalkShape'
  BY WalkStep
<1>3. /\ refetch' \in [Readers -> Refetch]
      /\ \A r \in Readers : GoodRefetch(refetch'[r], SentEvents', Redacted')
  BY RefetchStep
<1>4. TypeOK'
  BY <1>1, <1>2, <1>3, TypeStep, CoverageStep, TimelineGrows
     DEF ConversationInv, TypeOK, Sound
<1>5. RefetchShape' /\ RefetchIsFresh' /\ FromTheRoom'
  BY <1>1, <1>3 DEF RefetchShape, RefetchIsFresh, FromTheRoom, GoodRefetch
<1>6. DeletedIsGone' /\ HeldAwaitsMessage' /\ BodyOrDebt(view')
  BY <1>1 DEF Sound, DeletedIsGone, HeldAwaitsMessage
<1>7. BodyOrDebt(view)'
  BY <1>6 DEF BodyOrDebt, Owing, Shown
<1> QED BY <1>2, <1>4, <1>5, <1>6, <1>7, EditsFollowStep DEF ConversationInv

\* The inductive invariant holds for every room, however events, walks and
\* refetches interleave.
THEOREM ConversationIsSound == Spec => []ConversationInv
  BY InitInv, InvStep, PTL DEF Spec

\* Every variable has its type: a request always carries a token to compare.
THEOREM Types == Spec => []TypeOK
<1>1. ConversationInv => TypeOK
  BY DEF ConversationInv
<1> QED BY <1>1, ConversationIsSound, PTL

\* No walk and no refetch brings back text whose redaction has been projected.
THEOREM DeletedStaysGone == Spec => []DeletedIsGone
<1>1. ConversationInv => DeletedIsGone
  BY DEF ConversationInv
<1> QED BY <1>1, ConversationIsSound, PTL

\* Held edits are collected when their message arrives and cannot pile up.
THEOREM HeldEditsAwait == Spec => []HeldAwaitsMessage
<1>1. ConversationInv => HeldAwaitsMessage
  BY DEF ConversationInv
<1> QED BY <1>1, ConversationIsSound, PTL

\* No message goes back to an older revision, unless the newer was redacted.
THEOREM RevisionsDoNotGoBack == Spec => NewestStands
<1> DEFINE Forward == \A m \in Messages :
        LET before == view.visible[m].revision
            after  == view'.visible[m].revision
        IN  before # NoEvent /\ after # NoEvent /\ IsNewer(before, after) =>
                before \in Redacted
<1>1. ConversationInv /\ [Next]_vars => [Forward]_vars
  <2> SUFFICES ASSUME ConversationInv, [Next]_vars PROVE Forward
    OBVIOUS
  <2>1. \A m \in Messages : Shown(view, m) /\ Shown(view, m)' =>
          \/ view.visible[m].revision \in Redacted
          \/ ~IsNewer(view.visible[m].revision, view'.visible[m].revision)
    BY ViewStep
  <2> QED BY <2>1 DEF Shown
<1> QED BY <1>1, ConversationIsSound, PTL DEF Spec, NewestStands

\* Of two walks, the one that finishes last does not unsay the other's coverage.
THEOREM CoverageIsMonotone == Spec => CoverageGrows
<1>1. ConversationInv /\ [Next]_vars =>
        [hydration.epoch = epoch /\ hydration'.epoch = epoch =>
            /\ hydration.complete => hydration'.complete
            /\ hydration.rank <= hydration'.rank]_vars
  BY CoverageStep
<1> QED BY <1>1, ConversationIsSound, PTL DEF Spec, CoverageGrows

-----------------------------------------------------------------------------
(* What a complete read lacks.                                             *)

\* What projecting one item does to the rows: Kept where it does nothing else.
Kept(v, w, m) ==
    Shown(v, m) /\ Shown(w, m) /\ w.visible[m].epoch = v.visible[m].epoch

\* A message's own item shows it, unless it is known to be redacted.
LEMMA OriginalShows ==
    ASSUME NEW v, Sound(v), NEW m \in Messages, NEW k, NEW n,
           NEW w, w = ProjectOriginal(v, m, k, n)
    PROVE  /\ Shown(w, m) /\ (Kept(v, w, m) \/ w.visible[m].epoch = n)
           /\ w.tombstones = v.tombstones
           /\ \A o \in Messages \ {m} : w.visible[o] = v.visible[o]
           /\ w.held = {e \in v.held : Target[e] # m}
           /\ \A g \in HeldBy(v, m, Author[m]) : w.visible[m].revision = g
<1> DEFINE mid == IF Shown(v, m) THEN v
                  ELSE [v EXCEPT !.visible[m] = StoredRow(m, k, n)]
           rest == [mid EXCEPT !.held = {e \in mid.held : Target[e] # m}]
           mine == HeldBy(mid, m, Author[m]) \ mid.tombstones
<1>1. /\ v = [visible |-> v.visible, held |-> v.held, tombstones |-> v.tombstones]
      /\ v.visible \in [Messages -> Row] /\ v.held \subseteq Edits
  BY DEF Sound, View
<1>2. \A e, j : StoredRow(e, k, j).revision = e /\ StoredRow(e, k, j).epoch = j
  BY DEF StoredRow
<1>3. m # NoEvent /\ \A e \in Edits : e # NoEvent
  BY ProjectionConstants DEF Events
<1>4. /\ mid.held = v.held /\ mid.tombstones = v.tombstones
      /\ Shown(mid, m) /\ (Kept(v, mid, m) \/ mid.visible[m].epoch = n)
      /\ mid.visible \in [Messages -> Row \cup {StoredRow(m, k, n)}]
      /\ \A o \in Messages \ {m} : mid.visible[o] = v.visible[o]
  <2>1. CASE Shown(v, m)
    BY <1>1, <2>1 DEF Kept
  <2>2. CASE ~Shown(v, m)
    <3>1. mid = [visible |-> [v.visible EXCEPT ![m] = StoredRow(m, k, n)], held |-> v.held,
                 tombstones |-> v.tombstones]
      BY <1>1, <2>2
    <3>2. /\ mid.held = v.held /\ mid.tombstones = v.tombstones
          /\ mid.visible = [v.visible EXCEPT ![m] = StoredRow(m, k, n)]
      BY <3>1
    <3> HIDE DEF mid
    <3> QED BY <1>1, <1>2, <1>3, <3>2 DEF Shown
  <2> QED BY <2>1, <2>2
<1>5. mid = [visible |-> mid.visible, held |-> mid.held, tombstones |-> mid.tombstones]
  BY <1>1
<1>6. w = IF mine = {} THEN rest
          ELSE InstallRevision(rest, m, CHOOSE e \in mine : TRUE, k)
  BY DEF ProjectOriginal, ApplyUnresolvedEdit
<1>7. mine = HeldBy(v, m, Author[m]) /\ mine \subseteq Edits
  BY <1>1, <1>4 DEF HeldBy, Sound, NoDeletedText
<1>12. \A e, f \in mine : e = f
  BY <1>7 DEF HeldBy, Sound, HeldApart
<1> HIDE DEF mid, mine
<1>8. PICK H : /\ rest = [visible |-> mid.visible, held |-> H, tombstones |-> mid.tombstones]
               /\ H = {e \in v.held : Target[e] # m}
  <2> DEFINE H == {e \in mid.held : Target[e] # m}
  <2>1. rest = [mid EXCEPT !.held = H]
    OBVIOUS
  <2> HIDE DEF H, rest
  <2>2. rest = [visible |-> mid.visible, held |-> H, tombstones |-> mid.tombstones]
    BY <1>5, <2>1
  <2>3. H = {e \in v.held : Target[e] # m}
    BY <1>4 DEF H
  <2> QED BY <2>2, <2>3
<1>9. rest.visible = mid.visible /\ rest.tombstones = mid.tombstones /\ rest.held = H
  BY <1>8
<1>10. CASE mine = {}
  <2>1. w.visible = mid.visible /\ w.tombstones = mid.tombstones /\ w.held = H
    BY <1>6, <1>9, <1>10
  <2> QED BY <1>4, <1>7, <1>8, <1>10, <2>1 DEF Shown, Kept
<1>11. CASE mine # {}
  <2>1. PICK e \in Edits : e \in mine /\ w = InstallRevision(rest, m, e, k)
    BY <1>6, <1>7, <1>11
  <2> DEFINE row == StoredRow(e, k, mid.visible[m].epoch)
  <2>2. w = [rest EXCEPT !.visible = [mid.visible EXCEPT ![m] = row]]
    BY <1>9, <2>1 DEF InstallRevision
  <2>3. row.revision = e /\ row.revision # NoEvent /\ row.epoch = mid.visible[m].epoch
    BY <1>2, <1>3
  <2> HIDE DEF row
  <2>4. /\ w.visible = [mid.visible EXCEPT ![m] = row] /\ w.tombstones = mid.tombstones
        /\ w.held = H
    BY <1>8, <2>2
  <2>5. w.visible[m] = row /\ \A o \in Messages \ {m} : w.visible[o] = mid.visible[o]
    BY <1>4, <2>4
  <2> QED BY <1>4, <1>7, <1>8, <1>12, <2>1, <2>3, <2>4, <2>5 DEF Shown, Kept
<1> QED BY <1>10, <1>11

\* An edit shows no message and hides none.
LEMMA EditKeeps ==
    ASSUME NEW v, Sound(v), NEW e \in Edits, NEW k, NEW w, w = ProjectEdit(v, e, k)
    PROVE  /\ \A o \in Messages : w.visible[o] = v.visible[o] \/ Kept(v, w, o)
           /\ w.tombstones = v.tombstones
<1>1. /\ v = [visible |-> v.visible, held |-> v.held, tombstones |-> v.tombstones]
      /\ v.visible \in [Messages -> Row] /\ v.held \subseteq Edits
  BY DEF Sound, View
<1>2. Target[e] \in Messages /\ e # NoEvent
  BY ProjectionConstants DEF Events
<1>3. CASE w = v
  BY <1>3
<1>4. CASE w = HoldUnresolvedEdit(v, e)
  BY <1>1, <1>4 DEF HoldUnresolvedEdit
<1>5. CASE Shown(v, Target[e]) /\ w = InstallRevision(v, Target[e], e, k)
  <2> DEFINE m == Target[e]
             row == StoredRow(e, k, v.visible[m].epoch)
  <2>1. row.revision = e /\ row.epoch = v.visible[m].epoch
    BY DEF StoredRow
  <2>2. w = [v EXCEPT !.visible[m] = row]
    BY <1>5 DEF InstallRevision
  <2> HIDE DEF row, m
  <2>3. w.visible = [v.visible EXCEPT ![m] = row] /\ w.tombstones = v.tombstones
    BY <1>1, <2>2
  <2>4. m \in Messages /\ Shown(v, m)
    BY <1>2, <1>5 DEF m
  <2>5. w.visible[m] = row /\ \A o \in Messages \ {m} : w.visible[o] = v.visible[o]
    BY <1>1, <2>3, <2>4
  <2> QED BY <1>2, <2>1, <2>3, <2>4, <2>5 DEF Kept, Shown
<1> QED BY <1>3, <1>4, <1>5 DEF ProjectEdit

\* A redaction takes its own message away and no other.
LEMMA RedactionKeeps ==
    ASSUME NEW v, Sound(v), NEW x, NEW k, NEW w, w = ProjectRedaction(v, x, k)
    PROVE  /\ w.tombstones = v.tombstones \cup {x}
           /\ w.held = HeldAfterRedaction(v, x)
           /\ \A m \in Messages : IF m = x THEN ~Shown(w, m)
                ELSE /\ w.visible[m].revision = v.visible[m].revision
                     /\ w.visible[m].epoch = v.visible[m].epoch
<1>1. w.tombstones = v.tombstones \cup {x} /\ w.held = HeldAfterRedaction(v, x)
  BY DEF ProjectRedaction, HeldAfterRedaction
<1>2. ASSUME NEW m \in Messages
      PROVE  w.visible[m] = IF m = x THEN NoRow
                            ELSE IF v.visible[m].revision = x
                            THEN [v.visible[m] EXCEPT !.body = NoEvent, !.token = k]
                            ELSE v.visible[m]
  BY DEF ProjectRedaction
<1>3. \A m \in Messages : v.visible[m] \in Row
  BY DEF Sound, View
<1>4. \A row \in Row : LET new == [row EXCEPT !.body = NoEvent, !.token = k]
                       IN  new.revision = row.revision /\ new.epoch = row.epoch
  BY DEF Row
<1>5. NoRow.revision = NoEvent
  BY DEF NoRow
<1> QED BY <1>1, <1>2, <1>3, <1>4, <1>5 DEF Shown

\* Only its own redaction takes a row away, and a row that is new belongs to
\* the membership it is projected for.
LEMMA ProjectKeeps ==
    ASSUME NEW v, Sound(v), NEW i \in Items, NEW k \in Nat, NEW n \in Nat,
           NEW w, w = Project(v, i, k, n)
    PROVE  /\ \A m \in Messages : Shown(v, m) => Shown(w, m) \/ (i.redacts /\ i.event = m)
           /\ \A m \in Messages : Shown(w, m) =>
                \/ Kept(v, w, m)
                \/ w.visible[m].epoch = n /\ ~i.redacts
           /\ \A x \in w.tombstones : x \in v.tombstones \/ (i.redacts /\ i.event = x)
           /\ v.tombstones \subseteq w.tombstones
           /\ i.redacts => i.event \in w.tombstones
           /\ ~i.redacts /\ i.event \in Messages =>
                i.event \in v.tombstones \/ Shown(w, i.event)
<1>1. i.event \in Events /\ i.redacts \in BOOLEAN
  BY DEF Items
<1>2. CASE i.redacts
  <2>1. w = ProjectRedaction(v, i.event, k)
    BY <1>2 DEF Project
  <2>2. /\ w.tombstones = v.tombstones \cup {i.event}
        /\ \A m \in Messages : IF m = i.event THEN ~Shown(w, m)
            ELSE /\ w.visible[m].revision = v.visible[m].revision
                 /\ w.visible[m].epoch = v.visible[m].epoch
    BY <2>1, RedactionKeeps
  <2> QED BY <1>2, <2>2 DEF Shown, Kept
<1>3. CASE ~i.redacts /\ i.event \in v.tombstones
  <2>1. w = v
    BY <1>3 DEF Project
  <2> QED BY <1>3, <2>1 DEF Kept
<1>4. CASE ~i.redacts /\ i.event \notin v.tombstones /\ i.event \in Messages
  <2>1. w = ProjectOriginal(v, i.event, k, n)
    BY <1>4 DEF Project
  <2>2. /\ Shown(w, i.event) /\ (Kept(v, w, i.event) \/ w.visible[i.event].epoch = n)
        /\ w.tombstones = v.tombstones
        /\ \A o \in Messages \ {i.event} : w.visible[o] = v.visible[o]
    BY <1>4, <2>1, OriginalShows
  <2> QED BY <1>4, <2>2 DEF Shown, Kept
<1>5. CASE ~i.redacts /\ i.event \notin v.tombstones /\ i.event \notin Messages
  <2>1. w = ProjectEdit(v, i.event, k) /\ i.event \in Edits
    BY <1>1, <1>5 DEF Project, Events
  <2>2. /\ \A o \in Messages : w.visible[o] = v.visible[o] \/ Kept(v, w, o)
        /\ w.tombstones = v.tombstones
    BY <2>1, EditKeeps
  <2> QED BY <1>5, <2>2 DEF Shown, Kept
<1> QED BY <1>1, <1>2, <1>3, <1>4, <1>5

\* An edit that is not newer than a is not newer than what replaces a.
LEMMA StandsOn ==
    ASSUME NEW e \in Events, NEW a \in Events, NEW b \in Events,
           ~IsNewer(e, a), a = b \/ ~IsNewer(a, b)
    PROVE  ~IsNewer(e, b)
<1>1. Rank[e] \in Nat /\ Rank[a] \in Nat /\ Rank[b] \in Nat
  BY ProjectionConstants
<1> QED BY <1>1 DEF IsNewer

\* An edit of the message's author that is projected stands, unless the message
\* is known to be redacted.
LEMMA EditArrives ==
    ASSUME NEW v, Sound(v), NEW e \in Edits, Author[e] = Author[Target[e]],
           NEW k, NEW w, w = ProjectEdit(v, e, k)
    PROVE  EditStands(w, e) \/ Target[e] \in v.tombstones
<1>1. Target[e] \in Messages /\ Rank[e] \in Nat
  BY ProjectionConstants DEF Events
<1>2. ~IsNewer(e, e)
  BY <1>1 DEF IsNewer
<1>3. CASE Shown(v, Target[e]) /\ EditYields(v, e)
  <2>1. w = v
    BY <1>3 DEF ProjectEdit
  <2> QED BY <1>3, <2>1 DEF EditYields, EditStands
<1>4. CASE Shown(v, Target[e]) /\ ~EditYields(v, e)
  <2> DEFINE m == Target[e]
             row == StoredRow(e, k, v.visible[m].epoch)
  <2>1. row.revision = e
    BY DEF StoredRow
  <2>2. w = [v EXCEPT !.visible[m] = row]
    BY <1>4 DEF ProjectEdit, InstallRevision
  <2> HIDE DEF row, m
  <2>3. m = Target[e] /\ m \in Messages
    BY <1>1 DEF m
  <2>4. w.visible[m] = row
    BY <2>2, <2>3 DEF Sound, View
  <2>5. e # NoEvent
    BY ProjectionConstants DEF Events
  <2> QED BY <1>2, <2>1, <2>3, <2>4, <2>5 DEF EditStands, Shown
<1>5. CASE ~Shown(v, Target[e]) /\ Target[e] \notin v.tombstones
  <2> DEFINE rivals == HeldBy(v, Target[e], Author[e])
  <2>1. w = IF \E f \in rivals : ~IsNewer(e, f) THEN v
            ELSE [v EXCEPT !.held = (v.held \ rivals) \cup {e}]
    BY <1>5 DEF ProjectEdit, HoldUnresolvedEdit
  <2>2. CASE \E f \in rivals : ~IsNewer(e, f)
    BY <2>1, <2>2 DEF EditStands
  <2>3. CASE ~\E f \in rivals : ~IsNewer(e, f)
    <3>1. e \in w.held
      BY <2>1, <2>3 DEF Sound, View
    <3> QED BY <1>2, <3>1 DEF EditStands, HeldBy
  <2> QED BY <2>2, <2>3
<1> QED BY <1>3, <1>4, <1>5

\* A held edit stays held until a newer one replaces it, its message collects
\* it, or it or its message is redacted.
LEMMA HeldKept ==
    ASSUME NEW v, Sound(v), NEW i \in Items, NEW k \in Nat, NEW n \in Nat,
           NEW w, w = Project(v, i, k, n),
           NEW g \in v.held, Author[g] = Author[Target[g]]
    PROVE  \/ g \in w.held
           \/ \E d \in HeldBy(w, Target[g], Author[g]) : IsNewer(d, g)
           \/ w.visible[Target[g]].revision = g
           \/ i.redacts /\ i.event \in {g, Target[g]}
<1>1. i.event \in Events /\ i.redacts \in BOOLEAN /\ g \in Edits
  BY DEF Items, Sound, View
<1>2. CASE i.redacts
  <2>1. w = ProjectRedaction(v, i.event, k)
    BY <1>2 DEF Project
  <2>2. w.held = HeldAfterRedaction(v, i.event)
    BY <2>1, RedactionKeeps
  <2> QED BY <1>2, <2>2 DEF HeldAfterRedaction
<1>3. CASE ~i.redacts /\ i.event \in v.tombstones
  BY <1>3 DEF Project
<1>4. CASE ~i.redacts /\ i.event \notin v.tombstones /\ i.event \in Messages
  <2>1. PICK o \in Messages : w = ProjectOriginal(v, o, k, n)
    BY <1>4 DEF Project
  <2>2. /\ w.held = {e \in v.held : Target[e] # o}
        /\ \A f \in HeldBy(v, o, Author[o]) : w.visible[o].revision = f
    BY <2>1, OriginalShows
  <2> QED BY <2>2 DEF HeldBy
<1>5. CASE ~i.redacts /\ i.event \notin v.tombstones /\ i.event \notin Messages
  <2>1. w = ProjectEdit(v, i.event, k) /\ i.event \in Edits
    BY <1>1, <1>5 DEF Project, Events
  <2> DEFINE d == i.event
             rivals == HeldBy(v, Target[d], Author[d])
  <2>2. CASE w = v
    BY <2>2
  <2>3. CASE w = InstallRevision(v, Target[d], d, k)
    <3> DEFINE row == StoredRow(d, k, v.visible[Target[d]].epoch)
    <3>1. w = [v EXCEPT !.visible[Target[d]] = row]
      BY <2>3 DEF InstallRevision
    <3> HIDE DEF row
    <3>2. w.held = v.held
      BY <3>1 DEF Sound, View
    <3> QED BY <3>2
  <2>4. CASE /\ w = [v EXCEPT !.held = (v.held \ rivals) \cup {d}]
             /\ ~\E f \in rivals : ~IsNewer(d, f)
    <3>1. w.held = (v.held \ rivals) \cup {d}
      BY <2>4 DEF Sound, View
    <3> QED BY <2>4, <3>1 DEF HeldBy
  <2>5. \/ w = v
        \/ w = InstallRevision(v, Target[d], d, k)
        \/ /\ w = [v EXCEPT !.held = (v.held \ rivals) \cup {d}]
           /\ ~\E f \in rivals : ~IsNewer(d, f)
    BY <2>1 DEF ProjectEdit, HoldUnresolvedEdit
  <2> QED BY <2>2, <2>3, <2>4, <2>5
<1> QED BY <1>1, <1>2, <1>3, <1>4, <1>5

\* An edit that stands goes on to stand, unless its message, or an edit that
\* had replaced it, is redacted.
LEMMA ProjectStands ==
    ASSUME NEW v, Sound(v), NEW i \in Items, NEW k \in Nat, NEW n \in Nat,
           NEW w, w = Project(v, i, k, n),
           NEW e \in Edits, Author[e] = Author[Target[e]], EditStands(v, e)
    PROVE  \/ EditStands(w, e)
           \/ /\ i.redacts
              /\ \/ i.event = Target[e]
                 \/ /\ i.event \in Edits
                    /\ Target[i.event] = Target[e] /\ Author[i.event] = Author[e]
<1> DEFINE m == Target[e]
           more == IF i.redacts THEN {} ELSE {i.event}
<1>1. m \in Messages /\ e \in Events
  BY ProjectionConstants DEF Events
<1>2. Sound(w) /\ Advance(v, w, more)
  BY ProjectSound
<1>3. \A x \in {v, w} : Shown(x, m) => x.visible[m].revision \in Events
  BY <1>1, <1>2 DEF Sound, View, Row, Shown
<1>4. CASE Shown(v, m) /\ ~IsNewer(e, v.visible[m].revision)
  <2>1. Shown(w, m) \/ (i.redacts /\ i.event = m)
    BY <1>1, <1>4, ProjectKeeps
  <2>2. Shown(w, m) => ~IsNewer(v.visible[m].revision, w.visible[m].revision)
    BY <1>1, <1>2, <1>4, AdvanceNewer
  <2>3. Shown(w, m) => ~IsNewer(e, w.visible[m].revision)
    BY <1>1, <1>3, <1>4, <2>2, StandsOn
  <2> QED BY <2>1, <2>3 DEF EditStands
<1>5. ASSUME NEW g \in HeldBy(v, m, Author[e]), ~IsNewer(e, g)
      PROVE  \/ EditStands(w, e)
             \/ i.redacts /\ i.event \in {g, m}
  <2>1. g \in v.held /\ Target[g] = m /\ Author[g] = Author[e]
    BY DEF HeldBy
  <2>2. g \in Edits /\ w.held \subseteq Edits
    BY <1>2, <2>1 DEF Sound, View
  <2>3. g \in Events /\ w.held \subseteq Events
    BY <2>2 DEF Events
  <2>4. CASE g \in w.held
    BY <1>5, <2>1, <2>4 DEF EditStands, HeldBy
  <2>5. ASSUME NEW d \in HeldBy(w, m, Author[e]), IsNewer(d, g)
        PROVE  EditStands(w, e)
    <3>1. d \in Events
      BY <2>3 DEF HeldBy
    <3>2. Rank[d] \in Nat /\ Rank[g] \in Nat
      BY <2>3, <3>1, ProjectionConstants
    <3>3. ~IsNewer(g, d)
      BY <2>5, <3>2 DEF IsNewer
    <3>4. ~IsNewer(e, d)
      BY <1>1, <1>5, <2>3, <3>1, <3>3, StandsOn
    <3> QED BY <3>4 DEF EditStands
  <2>6. CASE w.visible[m].revision = g
    <3>1. g # NoEvent
      BY <2>3, ProjectionConstants
    <3> QED BY <1>5, <2>6, <3>1 DEF EditStands, Shown
  <2>7. Author[g] = Author[Target[g]]
    BY <2>1
  <2>8. \/ g \in w.held
        \/ \E d \in HeldBy(w, m, Author[e]) : IsNewer(d, g)
        \/ w.visible[m].revision = g
        \/ i.redacts /\ i.event \in {g, m}
    BY <2>1, <2>7, HeldKept
  <2> QED BY <2>4, <2>5, <2>6, <2>8
<1>6. \A g \in HeldBy(v, m, Author[e]) : g \in Edits /\ Target[g] = m /\ Author[g] = Author[e]
  BY DEF HeldBy, Sound, View
<1> QED BY <1>4, <1>5, <1>6 DEF EditStands

\* A step that changes the view projects an item for the membership there is,
\* installs what a reader fetched in it, or drops a redacted message.
LEMMA ViewCases ==
    ASSUME ConversationInv, CoverageSupport, [Next]_vars, ~Depart
    PROVE  \/ view' = view
           \/ \E i \in Items, k \in Nat :
                /\ view' = Project(view, i, k, epoch)
                /\ IF i.redacts THEN i.event \in Redacted ELSE ~Fenced
           \/ \E r \in Readers :
                /\ refetch[r].message \in Redacted
                /\ view' = DropRefetched(view, refetch[r])
           \/ \E r \in Readers :
                /\ refetch[r].pc = "install"
                /\ MembershipIsCurrent(refetch[r].epoch)
                /\ MayInstall(view, refetch[r], refetch[r].chosen)
                /\ view' = InstallRefetched(view, refetch[r], refetch[r].chosen)
<1> DEFINE Goal == \/ view' = view
                   \/ \E i \in Items, k \in Nat :
                        /\ view' = Project(view, i, k, epoch)
                        /\ IF i.redacts THEN i.event \in Redacted ELSE ~Fenced
                   \/ \E r \in Readers :
                        /\ refetch[r].message \in Redacted
                        /\ view' = DropRefetched(view, refetch[r])
                   \/ \E r \in Readers :
                        /\ refetch[r].pc = "install"
                        /\ MembershipIsCurrent(refetch[r].epoch)
                        /\ MayInstall(view, refetch[r], refetch[r].chosen)
                        /\ view' = InstallRefetched(view, refetch[r], refetch[r].chosen)
<1> SUFFICES Goal
  OBVIOUS
<1>1. TypeOK /\ timeline \in Seq(Items) /\ receipts + 1 \in Nat
  BY DEF ConversationInv, TypeOK
<1>2. \A i \in Items : i \in Posted /\ i.redacts => i.event \in Redacted
  <2>1. \A i \in Items : i.redacts => i = Redaction(i.event) /\ i.event \in Events
    BY DEF Items, Redaction
  <2> QED BY <2>1 DEF Redacted
<1>3. ASSUME NEW i \in Items, Admit(i)
      PROVE  Goal
  <2>1. i \in Posted
    BY <1>3 DEF Admit, Deliverable, Posted
  <2>2. view' = IF Fenced /\ ~i.redacts THEN view ELSE Project(view, i, receipts + 1, epoch)
    BY <1>3 DEF Admit, AdmittedView
  <2>3. i.redacts \in BOOLEAN
    BY DEF Items
  <2> QED BY <1>1, <1>2, <2>1, <2>2, <2>3
<1>4. ASSUME NEW h \in Hydrators, InstallItem(h)
      PROVE  Goal
  <2>1. CASE ~MayInstallItem(h)
    BY <1>4, <2>1 DEF InstallItem
  <2>2. CASE MayInstallItem(h) /\ view' # view
    <3> DEFINE i == timeline[walk[h].at]
    <3>1. walk[h] \in Walk
      BY DEF ConversationInv, TypeOK
    <3>2. walk[h].at \in 1..Len(timeline)
      BY <1>1, <1>4, <3>1 DEF ConversationInv, WalkShape, InstallItem, Walk
    <3>3. i \in Posted /\ i \in Items
      BY <1>1, <3>2 DEF Posted
    <3>4. view' \in WalkedView(h, i)
      BY <1>4, <2>2 DEF InstallItem
    <3> HIDE DEF i
    <3>5. PICK s \in Shapes(h, i) : view' = Project(view, s, 0, walk[h].epoch)
      BY <2>2, <3>4 DEF WalkedView
    <3>6. s = i \/ (s = Redaction(i.event) /\ i.event \in Redacted)
      BY <3>5 DEF Shapes
    <3>7. s \in Items /\ (s.redacts => s.event \in Redacted)
      <4>1. CASE s = i
        BY <1>2, <3>3, <4>1
      <4>2. CASE s = Redaction(i.event) /\ i.event \in Redacted
        BY <3>3, <4>2 DEF Redaction, Items
      <4> QED BY <3>6, <4>1, <4>2
    <3>8. walk[h].epoch = epoch /\ ~Fenced
      BY <2>2 DEF MayInstallItem, MembershipIsCurrent
    <3> QED BY <3>5, <3>7, <3>8
  <2> QED BY <2>1, <2>2
<1>5. ASSUME NEW r \in Readers, InstallStep(r) \/ Drop(r)
      PROVE  Goal
  <2>1. refetch[r].message \in Messages /\ refetch[r].revision \in Events
    BY <1>5 DEF ConversationInv, RefetchShape, InstallStep, Drop
  <2>2. StillOwed(view, refetch[r]) => MembershipIsCurrent(refetch[r].epoch)
    BY <2>1, ProjectionConstants DEF StillOwed, CoverageSupport, RowsAreCurrent, Shown
  <2>3. refetch[r].pc = "drop" => refetch[r].message \in Redacted
    BY DEF CoverageSupport, OnlyRedactedGo
  <2> QED BY <1>5, <2>2, <2>3 DEF InstallStep, Drop, DropStep
<1> QED BY <1>3, <1>4, <1>5, ViewLeftAlone

\* A row of the view goes away only with a redaction or a departure.
LEMMA RowsStay ==
    ASSUME ConversationInv, CoverageSupport, [Next]_vars, ~Depart
    PROVE  /\ \A m \in Messages : Shown(view, m) => Shown(view', m) \/ m \in Redacted
           /\ \A m \in Messages : Shown(view', m) =>
                \/ Kept(view, view', m)
                \/ MembershipIsCurrent(view'.visible[m].epoch)
           /\ view'.tombstones \subseteq Redacted
           /\ view.tombstones \subseteq view'.tombstones
<1>1. Sound(view) /\ epoch \in Nat
  BY DEF ConversationInv, TypeOK, DeletedIsGone, HeldAwaitsMessage, Sound
<1>2. view.tombstones \subseteq Redacted
  BY DEF CoverageSupport, OnlyRedactedGo
<1>3. CASE view' = view
  BY <1>2, <1>3 DEF Kept, Shown
<1>4. ASSUME NEW i \in Items, NEW k \in Nat, view' = Project(view, i, k, epoch),
             IF i.redacts THEN i.event \in Redacted ELSE ~Fenced
      PROVE  /\ \A m \in Messages : Shown(view, m) => Shown(view', m) \/ m \in Redacted
             /\ \A m \in Messages : Shown(view', m) =>
                  \/ Kept(view, view', m)
                  \/ MembershipIsCurrent(view'.visible[m].epoch)
             /\ view'.tombstones \subseteq Redacted
             /\ view.tombstones \subseteq view'.tombstones
  <2>1. /\ \A m \in Messages : Shown(view, m) => Shown(view', m) \/ (i.redacts /\ i.event = m)
        /\ \A m \in Messages : Shown(view', m) =>
             \/ Kept(view, view', m)
             \/ view'.visible[m].epoch = epoch /\ ~i.redacts
        /\ \A x \in view'.tombstones : x \in view.tombstones \/ (i.redacts /\ i.event = x)
        /\ view.tombstones \subseteq view'.tombstones
    BY <1>1, <1>4, ProjectKeeps
  <2> QED BY <1>2, <1>4, <2>1 DEF MembershipIsCurrent
<1>5. view.visible \in [Messages -> Row]
  BY <1>1 DEF Sound, View
<1>6. ASSUME NEW r \in Readers, refetch[r].message \in Redacted,
             view' = DropRefetched(view, refetch[r])
      PROVE  /\ \A m \in Messages : Shown(view, m) => Shown(view', m) \/ m \in Redacted
             /\ \A m \in Messages : Shown(view', m) => Kept(view, view', m)
             /\ view'.tombstones \subseteq Redacted
             /\ view.tombstones \subseteq view'.tombstones
  <2>1. /\ view'.visible = [view.visible EXCEPT ![refetch[r].message] = NoRow]
        /\ view'.tombstones = view.tombstones
    BY <1>1, <1>6 DEF DropRefetched, Sound, View
  <2>2. \A m \in Messages :
          \/ view'.visible[m] = view.visible[m]
          \/ m = refetch[r].message /\ view'.visible[m] = NoRow
    BY <1>5, <2>1
  <2>3. NoRow.revision = NoEvent
    BY DEF NoRow
  <2> QED BY <1>2, <1>6, <2>1, <2>2, <2>3 DEF Shown, Kept
<1>7. ASSUME NEW r \in Readers, refetch[r].pc = "install",
             MembershipIsCurrent(refetch[r].epoch),
             MayInstall(view, refetch[r], refetch[r].chosen),
             view' = InstallRefetched(view, refetch[r], refetch[r].chosen)
      PROVE  /\ \A m \in Messages : Shown(view, m) => Shown(view', m)
             /\ \A m \in Messages : Shown(view', m) =>
                  \/ Kept(view, view', m)
                  \/ MembershipIsCurrent(view'.visible[m].epoch)
             /\ view'.tombstones \subseteq Redacted
             /\ view.tombstones \subseteq view'.tombstones
  <2> DEFINE row == [revision |-> refetch[r].chosen, body |-> refetch[r].chosen,
                     token |-> NoToken, epoch |-> refetch[r].epoch]
  <2>1. refetch[r].chosen # NoEvent
    BY <1>7, ProjectionConstants DEF ConversationInv, RefetchIsFresh, SentEvents
  <2>2. row.revision # NoEvent /\ row.epoch = refetch[r].epoch
    BY <2>1
  <2>3. view' = [view EXCEPT !.visible[refetch[r].message] = row]
    BY <1>7 DEF InstallRefetched
  <2> HIDE DEF row
  <2>4. /\ view'.visible = [view.visible EXCEPT ![refetch[r].message] = row]
        /\ view'.tombstones = view.tombstones
    BY <1>1, <2>3 DEF Sound, View
  <2>5. \A m \in Messages : view'.visible[m] = view.visible[m] \/ view'.visible[m] = row
    BY <1>5, <2>4
  <2> QED BY <1>2, <1>7, <2>2, <2>4, <2>5 DEF Shown, Kept
<1> QED BY <1>3, <1>4, <1>6, <1>7, ViewCases

\* Only sync and the users of the room change what has been delivered or lost;
\* only a settled walk, a loss and a departure change the recorded gap.
LEMMA LossCases ==
    ASSUME [Next]_vars, ~Depart
    PROVE  \/ lost' = lost /\ recovery' = recovery
           \/ LoseHistory
           \/ Join
           \/ lost' = lost /\ \E h \in Hydrators : Settle(h)
<1>1. CASE Server \/ Sync \/ LoseHistory
  BY <1>1 DEF Server, Send, Redact, Join, Sync, Admit, Ignore, Rejoin, tables, server
<1>2. CASE \E h \in Hydrators : Walking(h) \/ WalkFails(h)
  BY <1>2 DEF Walking, WalkFails, Ensure, CheckStands, Recheck, ReadEpoch, Fetch,
              InstallItem, Mark, Settle, tables, server
<1>3. CASE \E r \in Readers : Refetching(r) \/ RefetchFails(r)
  BY <1>3 DEF Refetching, RefetchFails, ReadDebt, FetchOriginal, FetchRelations,
              InstallStep, Drop, tables, server
<1>4. CASE UNCHANGED vars
  BY <1>4 DEF vars, tables, server
<1> QED BY <1>1, <1>2, <1>3, <1>4 DEF Next, Failure

\* Leaving and joining are all that changes the membership.
LEMMA MembershipLeftAlone ==
    ASSUME [Next]_vars, ~Depart, ~Join, ~Rejoin
    PROVE  membership' = membership /\ epoch' = epoch
<1>1. CASE Server \/ Sync \/ LoseHistory
  BY <1>1 DEF Server, Send, Redact, Sync, Admit, Ignore, LoseHistory, tables
<1>2. CASE \E h \in Hydrators : Walking(h) \/ WalkFails(h)
  BY <1>2 DEF Walking, WalkFails, Ensure, CheckStands, Recheck, ReadEpoch, Fetch,
              InstallItem, Mark, Settle, tables
<1>3. CASE \E r \in Readers : Refetching(r) \/ RefetchFails(r)
  BY <1>3 DEF Refetching, RefetchFails, ReadDebt, FetchOriginal, FetchRelations,
              InstallStep, Drop, tables
<1>4. CASE UNCHANGED vars
  BY <1>4 DEF vars, tables
<1> QED BY <1>1, <1>2, <1>3, <1>4 DEF Next, Failure

\* Sync delivers one item at a time, and nothing else delivers.
LEMMA DeliveryCases ==
    ASSUME [Next]_vars
    PROVE  \/ delivered' = delivered
           \/ \E i \in Items : (Admit(i) \/ Ignore(i)) /\ delivered' = delivered \cup {i}
<1>1. CASE Server \/ Sync \/ LoseHistory \/ Depart
  BY <1>1 DEF Server, Send, Redact, Join, Sync, Admit, Ignore, Rejoin, LoseHistory, Depart,
              tables, server
<1>2. CASE \E h \in Hydrators : Walking(h) \/ WalkFails(h)
  BY <1>2 DEF Walking, WalkFails, Ensure, CheckStands, Recheck, ReadEpoch, Fetch,
              InstallItem, Mark, Settle, tables, server
<1>3. CASE \E r \in Readers : Refetching(r) \/ RefetchFails(r)
  BY <1>3 DEF Refetching, RefetchFails, ReadDebt, FetchOriginal, FetchRelations,
              InstallStep, Drop, tables, server
<1>4. CASE UNCHANGED vars
  BY <1>4 DEF vars, tables, server
<1> QED BY <1>1, <1>2, <1>3, <1>4 DEF Next, Failure

\* What is appended to the timeline is new.
LEMMA TimelineNew ==
    ASSUME TypeOK, [Next]_vars
    PROVE  /\ \A i \in DOMAIN timeline' :
                IF i <= Len(timeline) THEN i \in DOMAIN timeline /\ timeline'[i] = timeline[i]
                ELSE timeline'[i] \notin Posted
           /\ Posted \subseteq Posted'
<1>1. timeline \in Seq(Items) /\ Len(timeline) \in Nat /\ DOMAIN timeline = 1..Len(timeline)
  BY DEF TypeOK
<1>2. CASE timeline' = timeline
  BY <1>1, <1>2 DEF Posted
<1>3. ASSUME NEW x \in Items, timeline' = Append(timeline, x), x \notin Posted
      PROVE  /\ \A i \in DOMAIN timeline' :
                  IF i <= Len(timeline) THEN i \in DOMAIN timeline /\ timeline'[i] = timeline[i]
                  ELSE timeline'[i] \notin Posted
             /\ Posted \subseteq Posted'
  <2>1. /\ DOMAIN timeline' = 1..(Len(timeline) + 1)
        /\ timeline'[Len(timeline) + 1] = x
        /\ \A j \in 1..Len(timeline) : timeline'[j] = timeline[j]
    BY <1>1, <1>3
  <2>2. \A i \in 1..(Len(timeline) + 1) : i \in 1..Len(timeline) \/ i = Len(timeline) + 1
    BY <1>1
  <2>3. \A i \in 1..Len(timeline) : i <= Len(timeline) /\ i \in 1..(Len(timeline) + 1)
    BY <1>1
  <2>4. ~(Len(timeline) + 1 <= Len(timeline))
    BY <1>1
  <2>5. \A j \in DOMAIN timeline : j \in DOMAIN timeline' /\ timeline'[j] = timeline[j]
    BY <1>1, <2>1, <2>3
  <2> QED BY <1>1, <1>3, <2>1, <2>2, <2>3, <2>4, <2>5 DEF Posted
<1>4. CASE timeline' # timeline
  <2>1. PICK e \in Events : Send(e) \/ Redact(e)
    BY <1>4 DEF Next, Failure, Server, Join, Sync, Admit, Ignore,
         Rejoin, Depart, LoseHistory, Walking, WalkFails, Ensure, CheckStands, Recheck,
         ReadEpoch, Fetch, InstallItem, Mark, Settle, Refetching, RefetchFails, ReadDebt,
         FetchOriginal, FetchRelations, InstallStep, Drop, vars, server
  <2>2. Sent(e) \in Items /\ Redaction(e) \in Items
    BY DEF Sent, Redaction, Items
  <2> QED BY <1>3, <2>1, <2>2 DEF Send, Redact
<1> QED BY <1>2, <1>4

\* A message once accounted for stays so until the account leaves.
LEMMA AccountedStays ==
    ASSUME ConversationInv, CoverageSupport, [Next]_vars, ~Depart,
           NEW m \in Messages, Accounted(m)
    PROVE  Accounted(m)'
<1>1. Redacted \subseteq Redacted'
  BY TimelineGrows DEF ConversationInv
<1>2. delivered \subseteq delivered'
  BY DeliveryCases
<1>3. Shown(view, m) => Shown(view', m) \/ m \in Redacted
  BY RowsStay
<1> QED BY <1>1, <1>2, <1>3 DEF Accounted, Shown

\* An edit that stands goes on to stand: what replaced it is not redacted.
LEMMA EditStandsStays ==
    ASSUME ConversationInv, CoverageSupport, [Next]_vars, ~Depart, EditsTraceable,
           NEW e \in Edits, Author[e] = Author[Target[e]], EditStands(view, e)
    PROVE  EditStands(view', e) \/ e \in Redacted \/ Target[e] \in Redacted
<1>1. Sound(view) /\ epoch \in Nat /\ Target[e] \in Messages /\ e \in Events
  BY ProjectionConstants
     DEF ConversationInv, TypeOK, DeletedIsGone, HeldAwaitsMessage, Sound, Events
<1>2. \A x \in Edits \cap Redacted :
        Target[x] = Target[e] /\ Author[x] = Author[e] => x = e
  BY DEF EditsTraceable, CoverageSupport, OnlyRedactedGo
<1>3. CASE view' = view
  BY <1>3
<1>4. ASSUME NEW i \in Items, NEW k \in Nat, view' = Project(view, i, k, epoch),
             i.redacts => i.event \in Redacted
      PROVE  EditStands(view', e) \/ e \in Redacted \/ Target[e] \in Redacted
  <2>1. \/ EditStands(view', e)
        \/ /\ i.redacts
           /\ \/ i.event = Target[e]
              \/ /\ i.event \in Edits
                 /\ Target[i.event] = Target[e] /\ Author[i.event] = Author[e]
    BY <1>1, <1>4, ProjectStands
  <2> QED BY <1>2, <1>4, <2>1
<1>5. view.visible \in [Messages -> Row]
  BY <1>1 DEF Sound, View
<1>6. ASSUME NEW r \in Readers, refetch[r].message \in Redacted,
             view' = DropRefetched(view, refetch[r])
      PROVE  EditStands(view', e) \/ Target[e] \in Redacted
  <2>1. /\ view'.visible = [view.visible EXCEPT ![refetch[r].message] = NoRow]
        /\ view'.held = view.held
    BY <1>1, <1>6 DEF DropRefetched, Sound, View
  <2>2. Target[e] # refetch[r].message => view'.visible[Target[e]] = view.visible[Target[e]]
    BY <1>1, <1>5, <2>1
  <2> QED BY <1>6, <2>1, <2>2 DEF EditStands, HeldBy, Shown
<1>7. ASSUME NEW r \in Readers, refetch[r].pc = "install",
             MayInstall(view, refetch[r], refetch[r].chosen),
             view' = InstallRefetched(view, refetch[r], refetch[r].chosen)
      PROVE  EditStands(view', e) \/ e \in Redacted \/ Target[e] \in Redacted
  <2> DEFINE q == refetch[r]
             c == refetch[r].chosen
             m == Target[e]
             row == [revision |-> c, body |-> c, token |-> NoToken, epoch |-> q.epoch]
  <2>1. /\ c \in SentEvents /\ (q.revision \in Redacted \/ ~IsNewer(q.revision, c))
        /\ q.message \in Messages /\ q.revision \in Events /\ Revises(q.revision, q.message)
    BY <1>7 DEF ConversationInv, RefetchIsFresh, RefetchShape, FromTheRoom
  <2>2. c \in Events /\ c # NoEvent
    BY <2>1, ProjectionConstants DEF SentEvents
  <2>3. view' = [view EXCEPT !.visible[q.message] = row] /\ row.revision = c
    BY <1>7 DEF InstallRefetched
  <2> HIDE DEF row
  <2>4. view'.visible = [view.visible EXCEPT ![q.message] = row] /\ view'.held = view.held
    BY <1>1, <2>3 DEF Sound, View
  <2>5. CASE \E f \in HeldBy(view, m, Author[e]) : ~IsNewer(e, f)
    BY <2>4, <2>5 DEF EditStands, HeldBy
  <2>6. CASE Shown(view, m) /\ ~IsNewer(e, view.visible[m].revision) /\ q.message # m
    <3>1. view'.visible[m] = view.visible[m]
      BY <1>1, <1>5, <2>4, <2>6
    <3> QED BY <2>6, <3>1 DEF EditStands, Shown
  <2>7. CASE Shown(view, m) /\ ~IsNewer(e, view.visible[m].revision) /\ q.message = m
    <3>1. view.visible[m].revision = q.revision
      BY <1>7, <2>7 DEF MayInstall, StillOwed
    <3>2. view'.visible[m].revision = c
      BY <1>1, <1>5, <2>3, <2>4, <2>7
    <3>3. CASE ~IsNewer(q.revision, c)
      <4>1. ~IsNewer(e, c)
        BY <1>1, <2>1, <2>2, <2>7, <3>1, <3>3, StandsOn
      <4> QED BY <2>2, <3>2, <4>1 DEF EditStands, Shown
    <3>4. CASE q.revision \in Redacted
      BY <1>2, <2>1, <2>7, <3>4 DEF Revises
    <3> QED BY <2>1, <3>3, <3>4
  <2> QED BY <2>5, <2>6, <2>7 DEF EditStands
<1> QED BY <1>3, <1>4, <1>6, <1>7, ViewCases

\* What the tables know, they know until the account leaves.
LEMMA KnownStays ==
    ASSUME ConversationInv, CoverageSupport, [Next]_vars, ~Depart,
           NEW i \in Tracked, Known(i)
    PROVE  Known(i)'
<1>1. i \in Items /\ i.redacts \in BOOLEAN /\ i.event \in Events
  BY DEF Tracked, Items
<1>2. CASE i.redacts
  BY <1>2, RowsStay DEF Known
<1>3. CASE ~i.redacts /\ i.event \in Messages
  BY <1>3, AccountedStays DEF Known
<1>4. CASE ~i.redacts /\ i.event \notin Messages
  <2> DEFINE e == i.event
  <2>1. e \in Edits /\ EditsTraceable
    BY <1>1, <1>4 DEF Tracked, Events
  <2>2. Redacted \subseteq Redacted'
    BY TimelineGrows DEF ConversationInv
  <2>3. \/ Author[e] # Author[Target[e]]
        \/ e \in Redacted \/ Target[e] \in Redacted
        \/ EditStands(view, e)
    BY <1>4 DEF Known
  <2>4. \/ Author[e] # Author[Target[e]]
        \/ e \in Redacted' \/ Target[e] \in Redacted'
        \/ EditStands(view', e)
    BY <2>1, <2>2, <2>3, EditStandsStays
  <2> QED BY <1>4, <2>4 DEF Known, EditStands, Shown, HeldBy
<1> QED BY <1>1, <1>2, <1>3, <1>4

\* An item that is projected is known, if it is one that can be followed.
LEMMA ProjectedIsKnown ==
    ASSUME ConversationInv, CoverageSupport, [Next]_vars,
           NEW i \in Tracked, NEW k \in Nat, NEW n \in Nat, view' = Project(view, i, k, n)
    PROVE  Known(i)'
<1>1. i \in Items /\ i.redacts \in BOOLEAN /\ i.event \in Events
  BY DEF Tracked, Items
<1>2. Sound(view)
  BY DEF ConversationInv, TypeOK, DeletedIsGone, HeldAwaitsMessage, Sound
<1>3. view.tombstones \subseteq Redacted /\ Redacted \subseteq Redacted'
  BY TimelineGrows DEF CoverageSupport, OnlyRedactedGo, ConversationInv
<1>4. CASE i.redacts
  BY <1>1, <1>2, <1>4, ProjectKeeps DEF Known
<1>5. CASE ~i.redacts /\ i.event \in Messages
  <2>1. i.event \in view.tombstones \/ Shown(view', i.event)
    BY <1>1, <1>2, <1>5, ProjectKeeps
  <2> QED BY <1>3, <1>5, <2>1 DEF Known, Accounted, Shown
<1>6. CASE ~i.redacts /\ i.event \notin Messages
  <2> DEFINE e == i.event
  <2>1. e \in Edits
    BY <1>1, <1>6 DEF Events
  <2>2. CASE e \in view.tombstones
    BY <1>3, <1>6, <2>2 DEF Known
  <2>3. CASE e \notin view.tombstones /\ Author[e] = Author[Target[e]]
    <3>1. view' = ProjectEdit(view, e, k)
      BY <1>6, <2>3 DEF Project
    <3>2. EditStands(view', e) \/ Target[e] \in Redacted'
      BY <1>2, <1>3, <2>1, <2>3, <3>1, EditArrives
    <3> QED BY <1>6, <3>2 DEF Known, EditStands, Shown, HeldBy
  <2>4. CASE Author[e] # Author[Target[e]]
    BY <1>6, <2>4 DEF Known
  <2> QED BY <2>2, <2>3, <2>4
<1> QED BY <1>1, <1>4, <1>5, <1>6

\* What sync delivers to a room the account is in becomes known.
LEMMA DeliveredIsKnown ==
    ASSUME ConversationInv, CoverageSupport, [Next]_vars, ~Fenced,
           NEW i \in Tracked, i \in delivered', i \notin delivered
    PROVE  Known(i)'
<1>1. Admit(i) \/ Ignore(i)
  BY DeliveryCases
<1>2. Redacted \subseteq Redacted' /\ i \in Items
  BY TimelineGrows DEF ConversationInv, Tracked
<1>3. CASE Ignore(i)
  <2>1. ~i.redacts /\ i.event \in Redacted \cup Unreadable /\ i.event \in Events
    BY <1>2, <1>3 DEF Ignore, Items
  <2>2. CASE i.event \in Redacted
    BY <1>2, <2>1, <2>2 DEF Known, Accounted
  <2>3. CASE i.event \in Unreadable
    <3>1. i.event \in Messages \/ EditsTraceable
      BY <2>1 DEF Tracked
    <3>2. i.event \in Messages
      BY <2>1, <2>3, <3>1 DEF EditsTraceable, Events
    <3>3. i = Sent(i.event)
      BY <1>2, <2>1 DEF Items, Sent
    <3> QED BY <2>1, <2>3, <3>2, <3>3 DEF Known, Accounted
  <2> QED BY <2>1, <2>2, <2>3
<1>4. CASE Admit(i)
  <2>1. view' = Project(view, i, receipts + 1, epoch)
    BY <1>4 DEF Admit, AdmittedView
  <2>2. receipts + 1 \in Nat /\ epoch \in Nat
    BY DEF ConversationInv, TypeOK
  <2> QED BY <2>1, <2>2, ProjectedIsKnown
<1> QED BY <1>1, <1>3, <1>4

\* What a walk installs becomes known, if the walk could read it.
LEMMA InstalledIsKnown ==
    ASSUME ConversationInv, CoverageSupport, [Next]_vars,
           NEW h \in Hydrators, InstallItem(h), MayInstallItem(h),
           NEW i \in Tracked, timeline[walk[h].at] = i, Readable(i)
    PROVE  Known(i)'
<1>1. i \in Items /\ walk[h].epoch \in Nat
  BY DEF Tracked, ConversationInv, TypeOK, Walk
<1>2. Redacted \subseteq Redacted'
  BY TimelineGrows DEF ConversationInv
<1>3. CASE ~i.redacts /\ i.event \in Redacted
  BY <1>2, <1>3 DEF Known, Accounted
<1>4. CASE i.redacts \/ i.event \notin Redacted
  <2>1. Shapes(h, i) = {i} /\ (i.redacts \/ i.event \notin Unreadable)
    BY <1>4 DEF Shapes, Readable
  <2>2. view' \in WalkedView(h, i)
    BY DEF InstallItem
  <2>3. view' = Project(view, i, 0, walk[h].epoch)
    BY <1>4, <2>1, <2>2 DEF WalkedView
  <2> QED BY <1>1, <2>3, ProjectedIsKnown
<1> QED BY <1>1, <1>3, <1>4 DEF Items

\* What a step makes of a walk.
WalkCase(h, u) ==
    \/ u = walk[h]
    \/ /\ u.pc \in {"idle", "stands", "hydrate", "epoch", "fetch"}
       /\ u.epoch \in {0, walk[h].epoch, epoch}
    \/ /\ u.pc = "recheck" /\ u.gap = recovery /\ u.epoch = 0
       /\ recovery.state # "none" /\ recovery' = recovery
    \/ /\ walk[h].pc \in {"recheck", "repairEpoch"}
       /\ u.pc \in {"repairEpoch", "repairFetch"}
       /\ u.gap = walk[h].gap /\ u.epoch \in {walk[h].epoch, epoch}
    \/ /\ <<walk[h].pc, u.pc>> \in {<<"fetch", "install">>, <<"repairFetch", "repair">>}
       /\ membership # "out" /\ membership' = membership /\ timeline' = timeline
       /\ u.gap = walk[h].gap /\ u.epoch = walk[h].epoch
       /\ u.at = Len(timeline) /\ u.stop \in Nat /\ (u.ended => u.stop = 0)
       /\ ~u.unread => \A i \in (u.stop + 1)..Len(timeline) : Readable(timeline[i])
    \/ /\ InstallItem(h) /\ MayInstallItem(h)
       /\ u = [walk[h] EXCEPT !.at = @ - 1]

\* There is no other way for a step to change a walk.
LEMMA WalkCases ==
    ASSUME ConversationInv, [Next]_vars, NEW h \in Hydrators
    PROVE  WalkCase(h, walk'[h])
<1>1. /\ walk \in [Hydrators -> Walk] /\ walk[h] \in Walk
      /\ timeline \in Seq(Items) /\ Len(timeline) \in Nat
  BY DEF ConversationInv, TypeOK
<1>2. CASE walk' = walk
  BY <1>2 DEF WalkCase
<1>3. ASSUME NEW g \in Hydrators, Walking(g) \/ WalkFails(g), g # h
      PROVE  walk'[h] = walk[h]
  BY <1>1, <1>3 DEF Walking, WalkFails, Ensure, CheckStands, Recheck, ReadEpoch, Fetch,
              InstallItem, Mark, Settle, Abandon, Goto
<1>4. ASSUME NEW u, walk' = [walk EXCEPT ![h] = u]
      PROVE  walk'[h] = u
  BY <1>1, <1>4
<1>5. ASSUME Abandon(h)
      PROVE  WalkCase(h, walk'[h])
  <2>1. walk'[h] = NoWalk
    BY <1>4, <1>5 DEF Abandon
  <2> QED BY <2>1 DEF WalkCase, NoWalk
<1>6. CASE Ensure(h)
  <2> DEFINE u == [NoWalk EXCEPT !.pc = IF NeedsWalk(h) THEN "recheck" ELSE "stands",
                                 !.gap = recovery]
  <2>1. walk'[h] = u
    BY <1>4, <1>6 DEF Ensure
  <2>2. u.pc = (IF NeedsWalk(h) THEN "recheck" ELSE "stands") /\ u.gap = recovery /\ u.epoch = 0
    BY DEF NoWalk
  <2>3. NeedsWalk(h) => recovery.state # "none"
    BY DEF NeedsWalk
  <2>4. recovery' = recovery
    BY <1>6 DEF Ensure, tables
  <2> HIDE DEF u
  <2> QED BY <2>1, <2>2, <2>3, <2>4 DEF WalkCase
<1>7. ASSUME NEW pc, Goto(h, pc)
      PROVE  /\ walk'[h].pc = pc /\ walk'[h].gap = walk[h].gap
             /\ walk'[h].epoch = walk[h].epoch
  <2>1. walk'[h] = [walk[h] EXCEPT !.pc = pc]
    BY <1>4, <1>7 DEF Goto
  <2> QED BY <1>1, <2>1 DEF Walk
<1>8. CASE CheckStands(h) \/ Recheck(h)
  BY <1>5, <1>7, <1>8 DEF CheckStands, Recheck, WalkCase
<1>9. CASE ReadEpoch(h)
  <2> DEFINE u == [walk[h] EXCEPT !.epoch = epoch,
                        !.pc = IF @ = "epoch" THEN "fetch" ELSE "repairFetch"]
  <2>0. walk' = [walk EXCEPT ![h] = u]
    BY <1>9 DEF ReadEpoch
  <2>1. walk'[h] = u
    BY <1>4, <2>0
  <2>2. /\ u.pc = (IF walk[h].pc = "epoch" THEN "fetch" ELSE "repairFetch")
        /\ u.gap = walk[h].gap /\ u.epoch = epoch
    BY <1>1 DEF Walk
  <2> HIDE DEF u
  <2> QED BY <1>9, <2>1, <2>2 DEF ReadEpoch, WalkCase
<1>10. CASE Fetch(h) /\ ~Abandon(h)
  <2> DEFINE unread(stop) == \E i \in (stop + 1)..Len(timeline) :
                ~timeline[i].redacts /\ timeline[i].event \in Unreadable \ Redacted
             u(stop, ended) ==
                [pc |-> IF walk[h].pc = "fetch" THEN "install" ELSE "repair",
                 gap |-> walk[h].gap, epoch |-> walk[h].epoch,
                 at |-> Len(timeline), stop |-> stop, gone |-> Redacted,
                 ended |-> ended, unread |-> unread(stop)]
  <2>1. PICK stop \in 0..Len(timeline), ended \in BOOLEAN :
          (ended => stop = 0) /\ walk' = [walk EXCEPT ![h] = u(stop, ended)]
    BY <1>10 DEF Fetch
  <2>2. walk'[h] = u(stop, ended)
    BY <1>4, <2>1
  <2>3. /\ u(stop, ended).pc = (IF walk[h].pc = "fetch" THEN "install" ELSE "repair")
        /\ u(stop, ended).gap = walk[h].gap /\ u(stop, ended).epoch = walk[h].epoch
        /\ u(stop, ended).at = Len(timeline) /\ u(stop, ended).stop = stop
        /\ u(stop, ended).ended = ended /\ u(stop, ended).unread = unread(stop)
    OBVIOUS
  <2>4. ~unread(stop) => \A i \in (stop + 1)..Len(timeline) : Readable(timeline[i])
    BY DEF Readable
  <2>5. /\ walk[h].pc \in {"fetch", "repairFetch"} /\ membership # "out"
        /\ timeline' = timeline /\ membership' = membership
    BY <1>10 DEF Fetch, server, tables
  <2> HIDE DEF u, unread
  <2> QED BY <1>1, <2>1, <2>2, <2>3, <2>4, <2>5 DEF WalkCase
<1>11. CASE InstallItem(h) /\ ~Abandon(h)
  <2>1. MayInstallItem(h) /\ walk' = [walk EXCEPT ![h] = [walk[h] EXCEPT !.at = @ - 1]]
    BY <1>11 DEF InstallItem
  <2>2. walk'[h] = [walk[h] EXCEPT !.at = @ - 1]
    BY <1>4, <2>1
  <2> QED BY <1>11, <2>1, <2>2 DEF WalkCase
<1>12. CASE Mark(h) \/ Settle(h) \/ WalkFails(h)
  BY <1>5, <1>12 DEF Mark, Settle, WalkFails
<1>13. CASE Walking(h) \/ WalkFails(h)
  BY <1>5, <1>6, <1>8, <1>9, <1>10, <1>11, <1>12, <1>13 DEF Walking
<1>14. CASE Server \/ Sync \/ Depart \/ LoseHistory \/ UNCHANGED vars
  BY <1>2, <1>14 DEF Server, Send, Redact, Join, Sync, Admit, Ignore, Rejoin, Depart,
                    LoseHistory, vars
<1>15. CASE \E r \in Readers : Refetching(r) \/ RefetchFails(r)
  BY <1>2, <1>15 DEF Refetching, RefetchFails, ReadDebt, FetchOriginal, FetchRelations,
                    InstallStep, Drop
<1>16. CASE \E g \in Hydrators : Walking(g) \/ WalkFails(g)
  <2>1. PICK g \in Hydrators : Walking(g) \/ WalkFails(g)
    BY <1>16
  <2>2. CASE g = h
    BY <1>13, <2>1, <2>2
  <2>3. CASE g # h
    BY <1>3, <2>1, <2>3 DEF WalkCase
  <2> QED BY <2>2, <2>3
<1> QED BY <1>14, <1>15, <1>16 DEF Next, Failure

\* Rows of an ended membership, rows without their redaction and walks that
\* claim more than they read do not come about.
LEMMA SupportStep ==
    ASSUME ConversationInv, CoverageSupport, [Next]_vars
    PROVE  CoverageSupport'
<1>1. /\ TypeOK /\ TypeOK' /\ timeline \in Seq(Items) /\ WalkShape
  BY InvStep DEF ConversationInv, TypeOK
<1>2. Redacted \subseteq Redacted'
  BY <1>1, TimelineGrows
<1>5. SyncIsPast'
  <2>1. delivered \cup lost \subseteq Posted /\ Posted \subseteq Posted'
    BY <1>1, TimelineNew DEF CoverageSupport, SyncIsPast
  <2>2. delivered' \subseteq delivered \cup Posted
    BY DeliveryCases DEF Admit, Ignore, Deliverable, Posted
  <2>3. lost' \subseteq lost \cup Posted
    <3>1. CASE LoseHistory \/ Join
      BY <3>1 DEF LoseHistory, Join, Undelivered
    <3>2. CASE Depart
      BY <3>2 DEF Depart, server
    <3> QED BY <3>1, <3>2, LossCases
  <2> QED BY <2>1, <2>2, <2>3 DEF SyncIsPast
<1>6. Redacted' \subseteq Redactable
  <2>1. Redacted \subseteq Redactable
    BY DEF CoverageSupport, OnlyRedactedGo
  <2>2. CASE Posted' = Posted
    BY <2>1, <2>2 DEF Redacted
  <2>3. ASSUME NEW e \in Events, Send(e) \/ Redact(e), NEW x \in Redacted', x \notin Redacted
        PROVE  x \in Redactable
    <3>1. PICK n \in DOMAIN timeline' : timeline'[n] = Redaction(x)
      BY <2>3 DEF Redacted, Posted
    <3>2. Redaction(x) \notin Posted /\ x \in Events
      BY <2>3 DEF Redacted
    <3>3. PICK y \in {Sent(e), Redaction(e)} :
            timeline' = Append(timeline, y) /\ (y = Redaction(e) => e \in Redactable)
      BY <2>3 DEF Send, Redact, Sent, Redaction
    <3>4. n \in DOMAIN timeline \/ timeline'[n] = y
      BY <1>1, <3>1, <3>3 DEF Sent, Redaction, Items
    <3>5. n \in DOMAIN timeline => timeline'[n] = timeline[n]
      BY <1>1, <3>3 DEF Sent, Redaction, Items
    <3>6. Redaction(x) = y
      BY <3>1, <3>2, <3>4, <3>5 DEF Posted
    <3>7. Redaction(x).redacts /\ Redaction(x).event = x /\ ~Sent(e).redacts
          /\ Redaction(e).event = e
      BY DEF Redaction, Sent
    <3> QED BY <3>3, <3>6, <3>7
  <2>4. timeline' = timeline \/ \E e \in Events : Send(e) \/ Redact(e)
    BY DEF Next, Failure, Server, Join, Sync, Admit, Ignore,
         Rejoin, Depart, LoseHistory, Walking, WalkFails, Ensure, CheckStands, Recheck,
         ReadEpoch, Fetch, InstallItem, Mark, Settle, Refetching, RefetchFails, ReadDebt,
         FetchOriginal, FetchRelations, InstallStep, Drop, vars, server
  <2> QED BY <2>1, <2>2, <2>3, <2>4 DEF Posted
<1>3. CASE Depart
  <2>1. view' = EmptyView /\ walk' = walk /\ refetch' = refetch /\ timeline' = timeline
    BY <1>3 DEF Depart, server
  <2>2. EmptyView.tombstones = {} /\ \A m \in Messages : EmptyView.visible[m].revision = NoEvent
    BY DEF EmptyView, NoRow
  <2>3. RowsAreCurrent'
    BY <2>1, <2>2 DEF RowsAreCurrent, Shown
  <2>4. OnlyRedactedGo'
    BY <1>2, <1>6, <2>1, <2>2 DEF CoverageSupport, OnlyRedactedGo
  <2>5. WalksRead'
    BY <1>2, <2>1 DEF CoverageSupport, WalksRead, ReadsAll, Readable
  <2> QED BY <1>5, <2>3, <2>4, <2>5 DEF CoverageSupport
<1>4. CASE ~Depart
  <2>1. RowsAreCurrent'
    <3>1. SUFFICES ASSUME NEW m \in Messages, Shown(view', m)
                   PROVE  view'.visible[m].epoch = epoch' /\ membership' = "in"
      BY DEF RowsAreCurrent, Shown, MembershipIsCurrent, Fenced
    <3>2. MembershipIsCurrent(view'.visible[m].epoch)
      BY <1>4, <3>1, RowsStay DEF CoverageSupport, RowsAreCurrent, Kept
    <3>3. ~Join /\ ~Rejoin
      BY <3>2 DEF MembershipIsCurrent, Fenced, Join, Rejoin
    <3> QED BY <1>4, <3>2, <3>3, MembershipLeftAlone DEF MembershipIsCurrent, Fenced
  <2>2. OnlyRedactedGo'
    <3>1. view'.tombstones \subseteq Redacted'
      BY <1>2, <1>4, RowsStay
    <3>2. ASSUME NEW r \in Readers, refetch'[r].pc = "drop"
          PROVE  refetch'[r].message \in Redacted'
      <4>1. refetch \in [Readers -> Refetch]
        BY <1>1 DEF TypeOK
      <4>2. CASE refetch'[r] = refetch[r]
        BY <1>2, <3>2, <4>2 DEF CoverageSupport, OnlyRedactedGo
      <4>3. CASE refetch'[r] # refetch[r]
        <5>1. PICK q \in Readers : Refetching(q) \/ RefetchFails(q)
          BY <4>3 DEF Next, Failure, Server, Send, Redact, Join, Sync, Admit, Ignore,
               Rejoin, Depart, LoseHistory, Walking, WalkFails, Ensure, CheckStands, Recheck,
               ReadEpoch, Fetch, InstallItem, Mark, Settle, vars
        <5>2. \A u : refetch' = [refetch EXCEPT ![q] = u] => q = r /\ refetch'[r] = u
          BY <4>1, <4>3
        <5>3. NoRefetch.pc = "idle"
          BY DEF NoRefetch
        <5>4. CASE ReadDebt(q)
          <6>1. PICK u : /\ \E m \in Messages :
                              u = [pc |-> "original", message |-> m,
                                   revision |-> view.visible[m].revision,
                                   token |-> view.visible[m].token,
                                   epoch |-> view.visible[m].epoch, chosen |-> NoEvent]
                         /\ refetch' = [refetch EXCEPT ![q] = u]
            BY <5>4 DEF ReadDebt
          <6>2. u.pc = "original"
            BY <6>1
          <6>3. refetch'[r] = u
            BY <5>2, <6>1
          <6> QED BY <3>2, <6>2, <6>3
        <5>5. CASE FetchOriginal(q)
          <6>1. q = r /\ refetch'[r] =
                  IF refetch[r].message \in Redacted THEN [refetch[r] EXCEPT !.pc = "drop"]
                  ELSE IF refetch[r].message \in Unreadable THEN NoRefetch
                  ELSE [refetch[r] EXCEPT !.pc = "relations"]
            <7> DEFINE u == IF refetch[q].message \in Redacted
                            THEN [refetch[q] EXCEPT !.pc = "drop"]
                            ELSE IF refetch[q].message \in Unreadable THEN NoRefetch
                            ELSE [refetch[q] EXCEPT !.pc = "relations"]
            <7>1. refetch' = [refetch EXCEPT ![q] = u]
              BY <5>5 DEF FetchOriginal
            <7>2. q = r /\ refetch'[r] = u
              BY <5>2, <7>1
            <7> QED BY <7>2
          <6>2. refetch[r] \in Refetch
            BY <4>1
          <6> QED BY <1>2, <3>2, <5>3, <6>1, <6>2 DEF Refetch
        <5>6. CASE FetchRelations(q)
          <6>1. refetch'[q].pc \in {"idle", "install"}
            <7>1. CASE refetch' = [refetch EXCEPT ![q] = NoRefetch]
              BY <5>2, <5>3, <7>1
            <7>2. ASSUME NEW e, refetch' = [refetch EXCEPT ![q].pc = "install", ![q].chosen = e]
                  PROVE  refetch'[q].pc = "install"
              <8>1. refetch' = [refetch EXCEPT ![q] =
                        [refetch[q] EXCEPT !.pc = "install", !.chosen = e]]
                BY <7>2
              <8>2. refetch'[q] = [refetch[q] EXCEPT !.pc = "install", !.chosen = e]
                BY <4>1, <8>1
              <8>3. refetch[q] \in Refetch
                BY <4>1
              <8> QED BY <8>2, <8>3 DEF Refetch
            <7> QED BY <5>6, <7>1, <7>2 DEF FetchRelations
          <6>2. q # r => refetch'[r] = refetch[r]
            BY <4>1, <5>6 DEF FetchRelations
          <6> QED BY <3>2, <4>3, <6>1, <6>2
        <5>7. CASE RefetchFails(q) \/ InstallStep(q) \/ Drop(q)
          BY <3>2, <5>2, <5>3, <5>7 DEF RefetchFails, InstallStep, Drop
        <5> QED BY <5>1, <5>4, <5>5, <5>6, <5>7 DEF Refetching
      <4> QED BY <4>2, <4>3
    <3> QED BY <1>6, <3>1, <3>2 DEF OnlyRedactedGo
  <2>3. WalksRead'
    <3>1. SUFFICES ASSUME NEW h \in Hydrators, ReadsAll(h)'
                   PROVE  /\ walk'[h].stop = 0
                          /\ \A i \in 1..walk'[h].at : Readable(timeline[i])'
      BY DEF WalksRead
    <3>2. walk[h] \in Walk /\ walk'[h] \in Walk /\ walk[h].at <= Len(timeline)
      BY <1>1 DEF TypeOK, WalkShape
    <3>3. walk[h].at \in Nat /\ walk[h].stop \in Nat /\ walk'[h].at \in Nat
          /\ Len(timeline) \in Nat
      BY <1>1, <3>2 DEF Walk
    <3>4. \A i \in 1..Len(timeline) : timeline'[i] = timeline[i]
      BY <1>1, TimelineStep
    <3>5. \A i \in 1..Len(timeline) : Readable(timeline[i]) => Readable(timeline[i])'
      BY <1>2, <3>4 DEF Readable
    <3>6. ASSUME ReadsAll(h), walk'[h].stop = walk[h].stop, walk'[h].at <= walk[h].at
          PROVE  /\ walk'[h].stop = 0
                 /\ \A i \in 1..walk'[h].at : Readable(timeline[i])'
      <4>1. walk[h].stop = 0 /\ \A i \in 1..walk[h].at : Readable(timeline[i])
        BY <3>6 DEF CoverageSupport, WalksRead
      <4> QED BY <3>2, <3>3, <3>5, <3>6, <4>1
    <3>7. CASE walk'[h] = walk[h]
      BY <3>1, <3>3, <3>6, <3>7 DEF ReadsAll
    <3>8. CASE walk'[h] = [walk[h] EXCEPT !.at = @ - 1]
      <4>1. /\ walk'[h].pc = walk[h].pc /\ walk'[h].at = walk[h].at - 1
            /\ walk'[h].stop = walk[h].stop /\ walk'[h].ended = walk[h].ended
            /\ walk'[h].unread = walk[h].unread
        BY <3>2, <3>8 DEF Walk
      <4> QED BY <3>1, <3>3, <3>6, <4>1 DEF ReadsAll
    <3>9. CASE /\ walk'[h].at = Len(timeline) /\ (walk'[h].ended => walk'[h].stop = 0)
               /\ ~walk'[h].unread =>
                    \A i \in (walk'[h].stop + 1)..Len(timeline) : Readable(timeline[i])
      <4>1. walk'[h].stop = 0 /\ \A i \in 1..Len(timeline) : Readable(timeline[i])
        BY <3>1, <3>9 DEF ReadsAll
      <4> QED BY <3>5, <3>9, <4>1
    <3>10. WalkCase(h, walk'[h])
      BY WalkCases
    <3> QED BY <3>1, <3>7, <3>8, <3>9, <3>10 DEF WalkCase, ReadsAll
  <2> QED BY <1>5, <2>1, <2>2, <2>3 DEF CoverageSupport
<1> QED BY <1>3, <1>4

\* The recorded gap keeps its number until something more is lost.
LEMMA RevisionStep ==
    ASSUME ConversationInv, GapIsRepaired, [Next]_vars, ~Depart
    PROVE  /\ recovery.state # "none" =>
                /\ recovery'.state # "none"
                /\ recovery.revision <= recovery'.revision
                /\ recovery.revision = recovery'.revision => lost' = lost
           /\ recovery'.state = "none" => recovery' = recovery /\ lost' = lost
           /\ \/ recovery' = recovery /\ lost' = lost
              \/ recovery'.state \in {"repairable", "truncated"}
              \/ lost' = lost /\ \E h \in Hydrators : Settle(h) /\ MaySettle(h)
                                    /\ walk[h].ended /\ ~walk[h].unread
<1>1. recovery \in Gap /\ recovery.revision \in Nat
  BY DEF ConversationInv, TypeOK, Gap
<1>2. ~Fenced /\ ~Join
  BY DEF GapIsRepaired, Fenced, Join
<1>3. CASE lost' = lost /\ recovery' = recovery
  BY <1>1, <1>3
<1>4. CASE LoseHistory
  <2>1. recovery' = [state |-> "repairable", rank |-> 0,
          revision |-> IF recovery.state = "none" THEN 0 ELSE recovery.revision + 1]
    BY <1>2, <1>4 DEF LoseHistory, GapRecorded
  <2>2. /\ recovery'.state = "repairable"
        /\ recovery'.revision = IF recovery.state = "none" THEN 0 ELSE recovery.revision + 1
    BY <2>1
  <2> QED BY <1>1, <2>2
<1>5. ASSUME NEW h \in Hydrators, Settle(h), lost' = lost, recovery' # recovery
      PROVE  /\ recovery'.revision = recovery.revision
             /\ \/ recovery'.state = "truncated"
                \/ /\ recovery'.state = "repaired" /\ MaySettle(h)
                   /\ walk[h].ended /\ ~walk[h].unread
  <2>1. /\ MaySettle(h) /\ ~(walk[h].ended /\ walk[h].unread)
        /\ recovery' = IF walk[h].ended THEN [recovery EXCEPT !.state = "repaired"]
                       ELSE [recovery EXCEPT !.state = "truncated", !.rank = Policy[h]]
    BY <1>5 DEF Settle
  <2>2. walk[h].ended \in BOOLEAN /\ walk[h].unread \in BOOLEAN
    BY DEF ConversationInv, TypeOK, Walk
  <2> QED BY <1>1, <2>1, <2>2 DEF Gap
<1>6. CASE lost' = lost /\ \E h \in Hydrators : Settle(h)
  BY <1>1, <1>3, <1>5, <1>6
<1> QED BY <1>2, <1>3, <1>4, <1>6, LossCases

\* A walk cares for the items it cared for, and for the one it installs.
LEMMA CareStep ==
    ASSUME ConversationInv, CoverageSupport, [Next]_vars, ~Depart,
           NEW h \in Hydrators, ReadsAll(h)', NEW S \in SUBSET Tracked,
           \A x \in S : x \notin Posted' \ Posted,
           ReadsAll(h) => \A n \in DOMAIN timeline :
                n > walk[h].at /\ timeline[n] \in S =>
                    Known(timeline[n]) \/ Known(timeline[n])',
           NEW x \in S, NEW i \in DOMAIN timeline', i > walk'[h].at, timeline'[i] = x
    PROVE  Known(x)'
<1>1. /\ TypeOK /\ TypeOK' /\ walk[h] \in Walk /\ walk[h].at \in Nat /\ walk[h].at <= Len(timeline)
      /\ timeline \in Seq(Items) /\ Len(timeline) \in Nat /\ walk'[h].at \in Nat
  BY InvStep DEF ConversationInv, TypeOK, WalkShape, Walk
<1>2. timeline'[i] \in Posted'
  BY DEF Posted
<1>3. i \in DOMAIN timeline /\ timeline[i] = x /\ timeline'[i] = timeline[i] /\ i <= Len(timeline)
  BY <1>1, <1>2, TimelineNew
<1>4. i \in Nat
  BY <1>1, <1>3
<1>5. CASE ReadsAll(h) /\ i > walk[h].at
  <2>1. Known(timeline[i]) \/ Known(timeline[i])'
    BY <1>3, <1>5
  <2>2. Known(x) \/ Known(x)'
    BY <1>3, <2>1 DEF Known, Accounted
  <2> QED BY <2>2, KnownStays
<1>6. CASE walk'[h] = walk[h]
  BY <1>5, <1>6 DEF ReadsAll
<1>7. CASE walk'[h].at = Len(timeline)
  BY <1>1, <1>3, <1>4, <1>7
<1>8. CASE InstallItem(h) /\ MayInstallItem(h) /\ walk'[h] = [walk[h] EXCEPT !.at = @ - 1]
  <2>1. /\ walk'[h].pc = walk[h].pc /\ walk'[h].at = walk[h].at - 1
        /\ walk'[h].ended = walk[h].ended /\ walk'[h].unread = walk[h].unread
    BY <1>1, <1>8 DEF Walk
  <2>2. ReadsAll(h)
    BY <2>1 DEF ReadsAll
  <2>3. CASE i = walk[h].at
    <3>1. i \in 1..walk[h].at
      BY <1>1, <1>3, <2>3
    <3>2. Readable(x)
      BY <1>3, <2>2, <3>1 DEF CoverageSupport, WalksRead
    <3> QED BY <1>3, <1>8, <2>3, <3>2, InstalledIsKnown
  <2>4. CASE i > walk[h].at
    BY <1>5, <2>2, <2>4
  <2> QED BY <1>1, <1>4, <2>1, <2>3, <2>4
<1>9. WalkCase(h, walk'[h])
  BY WalkCases
<1> QED BY <1>6, <1>7, <1>8, <1>9 DEF WalkCase, ReadsAll

\* While the account stays, every step keeps what is delivered accounted for
\* and every gap open until a walk has cared for what was lost in it.
LEMMA GapStep ==
    ASSUME MaxEpoch = 0, ConversationInv, CoverageSupport, GapIsRepaired, [Next]_vars
    PROVE  GapIsRepaired'
<1>1. ~Depart /\ ~Join /\ ~Rejoin /\ ~Fenced
  <2>1. epoch \in Nat /\ membership = "in"
    BY DEF ConversationInv, TypeOK, GapIsRepaired
  <2> QED BY <2>1 DEF Depart, Join, Rejoin, Fenced
<1>2. membership' = "in"
  BY <1>1, MembershipLeftAlone DEF GapIsRepaired
<1>3. \A i \in Tracked : Known(i) => Known(i)'
  BY <1>1, KnownStays
<1>4. \A i \in Tracked : i \in delivered' => Known(i)'
  BY <1>1, <1>3, DeliveredIsKnown DEF GapIsRepaired
<1>5. recovery'.state = "none" => lost' = {}
  BY <1>1, RevisionStep DEF GapIsRepaired
<1>6. recovery'.state = "repaired" => \A i \in Tracked : i \in lost' => Known(i)'
  <2>1. CASE recovery' = recovery /\ lost' = lost
    BY <1>3, <2>1 DEF GapIsRepaired, LostItems
  <2>2. ASSUME NEW h \in Hydrators, Settle(h), MaySettle(h), walk[h].ended, ~walk[h].unread,
               lost' = lost, NEW x \in Tracked, x \in lost'
        PROVE  Known(x)'
    <3>1. walk[h].pc = "repair" /\ walk[h].at = walk[h].stop /\ walk[h].gap = recovery
      BY <2>2 DEF Settle, MaySettle, GapIsCurrent
    <3>2. ReadsAll(h)
      BY <2>2, <3>1 DEF ReadsAll
    <3>3. walk[h].at = 0
      BY <3>1, <3>2 DEF CoverageSupport, WalksRead
    <3>4. x \in LostItems /\ CaredFor(h, LostItems)
      BY <2>2, <3>1, <3>2 DEF GapIsRepaired, LostItems
    <3>5. PICK i \in DOMAIN timeline : timeline[i] = x
      BY <2>2 DEF CoverageSupport, SyncIsPast, Posted
    <3>6. i > 0
      BY <3>5 DEF ConversationInv, TypeOK
    <3> QED BY <1>3, <3>3, <3>4, <3>5, <3>6 DEF CaredFor
  <2> QED BY <1>1, <2>1, <2>2, RevisionStep
<1>7. recovery \in Gap /\ recovery.revision \in Nat /\ recovery'.revision \in Nat
  BY InvStep DEF ConversationInv, TypeOK, Gap
<1>8. ASSUME NEW h \in Hydrators
      PROVE  walk[h].gap.revision \in Nat /\ walk'[h].gap.revision \in Nat
  BY InvStep DEF ConversationInv, TypeOK, Gap, Walk
<1>9. ASSUME NEW h \in Hydrators, Repairing(h)'
      PROVE  \/ Repairing(h) /\ walk'[h].gap = walk[h].gap
             \/ walk'[h].pc = "recheck" /\ walk'[h].gap = recovery
                /\ recovery' = recovery /\ recovery.state # "none"
  <2>1. walk[h] \in Walk
    BY DEF ConversationInv, TypeOK
  <2>2. CASE InstallItem(h) /\ walk'[h] = [walk[h] EXCEPT !.at = @ - 1]
    <3>1. walk'[h].pc = walk[h].pc /\ walk'[h].gap = walk[h].gap
      BY <2>1, <2>2 DEF Walk
    <3> QED BY <1>9, <3>1 DEF Repairing
  <2>3. WalkCase(h, walk'[h])
    BY WalkCases
  <2> QED BY <1>9, <2>2, <2>3 DEF WalkCase, Repairing
<1>10. ASSUME NEW h \in Hydrators, Repairing(h)'
       PROVE  recovery'.state # "none" /\ walk'[h].gap.revision <= recovery'.revision
  <2>1. CASE Repairing(h) /\ walk'[h].gap = walk[h].gap
    <3>1. recovery.state # "none" /\ walk[h].gap.revision <= recovery.revision
      BY <2>1 DEF GapIsRepaired
    <3>2. recovery'.state # "none" /\ recovery.revision <= recovery'.revision
      BY <1>1, <3>1, RevisionStep
    <3> QED BY <1>7, <1>8, <2>1, <3>1, <3>2
  <2> QED BY <1>7, <1>9, <1>10, <2>1
<1>11. ASSUME NEW h \in Hydrators, walk'[h].pc = "repair", ReadsAll(h)',
              walk'[h].gap.revision = recovery'.revision
       PROVE  CaredFor(h, LostItems)'
  <2>1. Repairing(h) /\ walk'[h].gap = walk[h].gap
    BY <1>9, <1>11 DEF Repairing
  <2>2. recovery.state # "none" /\ walk[h].gap.revision <= recovery.revision
    BY <2>1 DEF GapIsRepaired
  <2>3. recovery.revision <= recovery'.revision
    BY <1>1, <2>2, RevisionStep
  <2>4. recovery.revision = recovery'.revision /\ walk[h].gap.revision = recovery.revision
    BY <1>7, <1>8, <1>11, <2>1, <2>2, <2>3
  <2>5. lost' = lost
    BY <1>1, <2>2, <2>4, RevisionStep
  <2>6. LostItems' = LostItems /\ LostItems \in SUBSET Tracked
    BY <2>5 DEF LostItems
  <2>7. \A x \in LostItems : x \notin Posted' \ Posted
    BY DEF LostItems, CoverageSupport, SyncIsPast
  <2>8. ReadsAll(h) => \A n \in DOMAIN timeline :
                n > walk[h].at /\ timeline[n] \in LostItems => Known(timeline[n])
    <3>1. ReadsAll(h) => walk[h].pc = "repair"
      BY <2>1 DEF ReadsAll, Repairing
    <3> QED BY <2>4, <3>1 DEF GapIsRepaired, CaredFor
  <2>9. \A x \in LostItems : \A i \in DOMAIN timeline' :
          i > walk'[h].at /\ timeline'[i] = x => Known(x)'
    BY <1>1, <1>11, <2>6, <2>7, <2>8, CareStep
  <2>10. \A i \in DOMAIN timeline' : timeline'[i] \in LostItems /\ i > walk'[h].at =>
            Known(timeline[i])'
    BY <2>9 DEF Known, Accounted
  <2> QED BY <2>6, <2>10 DEF CaredFor
<1> QED BY <1>2, <1>4, <1>5, <1>6, <1>10, <1>11 DEF GapIsRepaired, LostItems

\* Coverage changes when a walk ends, and goes with a dropped message.
LEMMA HydrationCases ==
    ASSUME [Next]_vars, ~Depart
    PROVE  \/ hydration' \in {hydration, NoMarker}
           \/ \E h \in Hydrators : Mark(h) \/ Settle(h)
<1>1. CASE Server \/ Sync \/ LoseHistory
  BY <1>1 DEF Server, Send, Redact, Join, Sync, Admit, Ignore, Rejoin, LoseHistory, tables
<1>2. CASE \E h \in Hydrators : Walking(h) \/ WalkFails(h)
  BY <1>2 DEF Walking, WalkFails, Ensure, CheckStands, Recheck, ReadEpoch, Fetch,
              InstallItem, tables
<1>3. CASE \E r \in Readers : Refetching(r) \/ RefetchFails(r)
  BY <1>3 DEF Refetching, RefetchFails, ReadDebt, FetchOriginal, FetchRelations,
              InstallStep, Drop, DropStep, tables
<1>4. CASE UNCHANGED vars
  BY <1>4 DEF vars, tables
<1> QED BY <1>1, <1>2, <1>3, <1>4 DEF Next, Failure

\* Where nothing is skipped, what is past after a step was past before it or is
\* delivered by it.
LEMMA PastStep ==
    ASSUME ConversationInv, CoverageSupport, [Next]_vars, ~Depart, membership # "out",
           lost' = lost, NEW x \in PastItems'
    PROVE  /\ x \in Tracked
           /\ x \notin Posted' \ Posted
           /\ x \in PastItems \/ Known(x)'
<1>1. x \in Tracked /\ x \in delivered' \cup lost'
  BY DEF PastItems, Undelivered, Tracked, EditsTraceable
<1>2. delivered \cup lost \subseteq Posted
  BY DEF CoverageSupport, SyncIsPast
<1>3. CASE x \in delivered \cup lost
  BY <1>1, <1>2, <1>3 DEF PastItems, Undelivered
<1>4. CASE x \in delivered' /\ x \notin delivered
  <2>1. PICK i \in Items : (Admit(i) \/ Ignore(i)) /\ delivered' = delivered \cup {i}
    BY <1>4, DeliveryCases
  <2>2. i = x /\ i \in Posted
    BY <1>4, <2>1 DEF Admit, Ignore, Deliverable, Posted
  <2>3. ~Fenced
    BY <2>1 DEF Admit, Ignore, Fenced, ConversationInv, TypeOK
  <2> QED BY <1>1, <1>4, <2>2, <2>3, DeliveredIsKnown
<1> QED BY <1>1, <1>3, <1>4

\* Where sync skips nothing, coverage of a membership is published by a walk of
\* that membership, and what comes after the walk comes by sync.
LEMMA ReturnStep ==
    ASSUME MaxGaps = 0, ConversationInv, CoverageSupport, ReturnIsWalked, [Next]_vars
    PROVE  ReturnIsWalked'
<1>1. /\ epoch \in Nat /\ epoch' \in Nat /\ hydration \in Marker
      /\ walk \in [Hydrators -> Walk] /\ walk' \in [Hydrators -> Walk]
      /\ membership \in {"in", "out", "back"}
  BY InvStep DEF ConversationInv, TypeOK
<1>2. \A h \in Hydrators : walk[h].epoch \in Nat /\ walk'[h].epoch \in Nat /\ walk[h].epoch <= epoch
  BY <1>1 DEF Walk, ReturnIsWalked
<1>3. ~LoseHistory /\ \A h \in Hydrators : ~Settle(h)
  <2>1. recovery.revision = 0
    BY DEF ReturnIsWalked, NoGap
  <2>2. ~LoseHistory
    BY <2>1 DEF LoseHistory
  <2>3. \A h \in Hydrators : ~Settle(h)
    BY DEF Settle, ReturnIsWalked, Repairing
  <2> QED BY <2>2, <2>3
<1>4. NoMarker.epoch = -1
  BY DEF NoMarker
<1>5. CASE Depart
  <2>1. /\ recovery' = NoGap /\ walk' = walk /\ epoch' = epoch + 1 /\ hydration' = NoMarker
    BY <1>5 DEF Depart
  <2>2. \A h \in Hydrators : ~Repairing(h)' /\ walk'[h].epoch <= epoch' /\ walk'[h].epoch # epoch'
    BY <1>1, <1>2, <2>1 DEF ReturnIsWalked, Repairing
  <2>3. hydration'.epoch # epoch'
    BY <1>1, <1>4, <2>1
  <2> QED BY <2>1, <2>2, <2>3 DEF ReturnIsWalked
<1>6. CASE ~Depart
  <2>1. recovery' = NoGap
    BY <1>3, <1>6, LossCases DEF ReturnIsWalked, Join
  <2>2. epoch' = epoch
    BY <1>6, MembershipLeftAlone DEF Join, Rejoin
  <2>3. \A h \in Hydrators : ~Repairing(h)' /\ walk'[h].epoch <= epoch'
    <3>1. SUFFICES ASSUME NEW h \in Hydrators
                   PROVE  ~Repairing(h)' /\ walk'[h].epoch <= epoch
      BY <2>2
    <3>2. walk[h] \in Walk /\ ~Repairing(h) /\ recovery.state = "none"
      BY <1>1 DEF ReturnIsWalked, NoGap
    <3>3. CASE walk'[h] = [walk[h] EXCEPT !.at = @ - 1]
      <4>1. walk'[h].pc = walk[h].pc /\ walk'[h].epoch = walk[h].epoch
        BY <3>2, <3>3 DEF Walk
      <4> QED BY <1>2, <3>2, <4>1 DEF Repairing
    <3>4. WalkCase(h, walk'[h])
      BY WalkCases
    <3>5. ~Repairing(h)'
      BY <3>2, <3>3, <3>4 DEF WalkCase, Repairing
    <3>6. walk'[h].epoch \in {0, walk[h].epoch, epoch}
      BY <3>2, <3>3, <3>4 DEF WalkCase, Repairing, Walk
    <3> QED BY <1>1, <1>2, <3>5, <3>6
  <2>4. ASSUME Join PROVE ReturnIsWalked'
    <3>1. /\ membership = "out" /\ walk' = walk /\ hydration' = hydration
      BY <2>4 DEF Join
    <3>2. hydration.epoch # epoch
      BY <3>1 DEF ReturnIsWalked
    <3>3. \A h \in Hydrators : ~(walk[h].pc = "install" /\ walk[h].epoch = epoch)
      BY <3>1 DEF ReturnIsWalked
    <3> QED BY <2>1, <2>2, <2>3, <3>1, <3>2, <3>3 DEF ReturnIsWalked
  <2>5. ASSUME ~Join PROVE ReturnIsWalked'
    <3>1. lost' = lost /\ (membership # "out" => membership' # "out")
          /\ (membership = "in" => membership' = "in")
      BY <1>3, <1>6, <2>5, LossCases, MembershipLeftAlone DEF Rejoin
    <3>2. ASSUME NEW h \in Hydrators, walk'[h].pc = "install", walk'[h].epoch = epoch'
          PROVE  /\ membership # "out"
                 /\ ReadsAll(h)' => CaredFor(h, PastItems)'
      <4>1. walk[h] \in Walk /\ WalkCase(h, walk'[h])
        BY <1>1, WalkCases
      <4>2. walk'[h].epoch = walk[h].epoch
            /\ (walk[h].pc = "install" \/ (walk[h].pc = "fetch" /\ membership # "out"))
        <5>1. CASE walk'[h] = [walk[h] EXCEPT !.at = @ - 1]
          BY <3>2, <4>1, <5>1 DEF Walk
        <5> QED BY <3>2, <4>1, <5>1 DEF WalkCase
      <4>3. membership # "out"
        BY <2>2, <3>2, <4>2 DEF ReturnIsWalked
      <4>4. ASSUME ReadsAll(h)'
            PROVE  CaredFor(h, PastItems)'
        <5> DEFINE M == PastItems'
        <5>1. /\ M \in SUBSET Tracked
              /\ \A m \in M : m \notin Posted' \ Posted
              /\ \A m \in M : m \in PastItems \/ Known(m)'
          <6>1. \A m \in PastItems' : /\ m \in Tracked
                                      /\ m \notin Posted' \ Posted
                                      /\ m \in PastItems \/ Known(m)'
            BY <1>6, <3>1, <4>3, PastStep
          <6>2. M \subseteq Tracked
            BY <6>1
          <6> QED BY <6>1, <6>2
        <5>2. ReadsAll(h) => CaredFor(h, PastItems)
          BY <2>2, <3>2, <4>2 DEF ReturnIsWalked, ReadsAll
        <5>3. ReadsAll(h) => \A n \in DOMAIN timeline :
                n > walk[h].at /\ timeline[n] \in M =>
                    Known(timeline[n]) \/ Known(timeline[n])'
          <6>1. ASSUME NEW n \in DOMAIN timeline, NEW x \in M, timeline[n] = x, Known(x)'
                PROVE  Known(timeline[n])'
            <7>1. timeline'[n] = timeline[n]
              BY TimelineStep DEF ConversationInv, TypeOK
            <7> QED BY <6>1, <7>1 DEF Known, Accounted
          <6> QED BY <5>1, <5>2, <6>1 DEF CaredFor
        <5> HIDE DEF M
        <5>4. \A x \in M : \A i \in DOMAIN timeline' :
                i > walk'[h].at /\ timeline'[i] = x => Known(x)'
          BY <1>6, <4>4, <5>1, <5>3, CareStep
        <5>5. \A i \in DOMAIN timeline' : i > walk'[h].at /\ timeline'[i] \in M =>
                Known(timeline[i])'
          BY <5>4 DEF Known, Accounted
        <5> QED BY <5>5 DEF CaredFor, M
      <4> QED BY <4>3, <4>4
    <3>3. ASSUME hydration'.epoch = epoch'
          PROVE  /\ membership' = "in"
                 /\ hydration'.complete => \A i \in PastItems' : Known(i)'
      <4>1. ASSUME membership = "in", \A i \in PastItems : Known(i)
            PROVE  \A i \in PastItems' : Known(i)'
        <5>1. \A i \in PastItems' : i \in Tracked /\ (i \in PastItems \/ Known(i)')
          BY <1>6, <3>1, <4>1, PastStep
        <5> QED BY <1>6, <4>1, <5>1, KnownStays
      <4>2. CASE hydration' = hydration
        BY <2>2, <3>1, <3>3, <4>1, <4>2 DEF ReturnIsWalked
      <4>3. CASE hydration' = NoMarker
        BY <1>1, <1>4, <3>3, <4>3
      <4>4. ASSUME NEW h \in Hydrators, Mark(h), hydration' # hydration
            PROVE  /\ membership' = "in"
                   /\ hydration'.complete => \A i \in PastItems' : Known(i)'
        <5>1. /\ walk[h].pc = "install" /\ walk[h].at = walk[h].stop
              /\ walk[h].epoch = epoch /\ membership = "in"
              /\ hydration' = Published(epoch, walk[h].ended /\ ~walk[h].unread, Policy[h])
          BY <4>4 DEF Mark, MembershipIsCurrent, Fenced
        <5>2. hydration'.complete =>
                \/ walk[h].ended /\ ~walk[h].unread
                \/ hydration.epoch = epoch /\ hydration.complete
          BY <5>1 DEF Published
        <5>3. CASE hydration.epoch = epoch /\ hydration.complete
          BY <3>1, <4>1, <5>1, <5>3 DEF ReturnIsWalked
        <5>4. CASE walk[h].ended /\ ~walk[h].unread
          <6>1. ReadsAll(h)
            BY <5>1, <5>4 DEF ReadsAll
          <6>2. walk[h].at = 0 /\ CaredFor(h, PastItems)
            BY <5>1, <6>1 DEF CoverageSupport, WalksRead, ReturnIsWalked
          <6>3. ASSUME NEW x \in PastItems PROVE Known(x)
            <7>1. PICK i \in DOMAIN timeline : timeline[i] = x
              BY DEF PastItems, Posted
            <7>2. i > 0
              BY <7>1 DEF ConversationInv, TypeOK
            <7> QED BY <6>2, <7>1, <7>2 DEF CaredFor
          <6> QED BY <3>1, <4>1, <5>1, <6>3
        <5> QED BY <3>1, <5>1, <5>2, <5>3, <5>4
      <4> QED BY <1>3, <1>6, <4>2, <4>3, <4>4, HydrationCases
    <3> QED BY <2>1, <2>3, <3>1, <3>2, <3>3 DEF ReturnIsWalked
  <2> QED BY <2>4, <2>5
<1> QED BY <1>5, <1>6

\* Either of the two ways in which coverage comes to be true.
Covered ==
    \/ MaxEpoch = 0 /\ GapIsRepaired
    \/ MaxGaps = 0 /\ ReturnIsWalked

\* The strengthened invariant, in a room that is not left or that loses no
\* history: rows and redactions are those of the room and of the membership
\* there is, and a walk under way knows what it has passed.
THEOREM CoverageIsEarned ==
    ASSUME MaxEpoch = 0 \/ MaxGaps = 0
    PROVE  Spec => [](ConversationInv /\ CoverageSupport /\ Covered)
<1> DEFINE Inv == ConversationInv /\ CoverageSupport /\ Covered
<1>1. Init => Inv
  <2> SUFFICES ASSUME Init PROVE CoverageSupport /\ GapIsRepaired /\ ReturnIsWalked
    BY InitInv DEF Covered
  <2>1. /\ EmptyView.tombstones = {}
        /\ \A m \in Messages : EmptyView.visible[m].revision = NoEvent
    BY DEF EmptyView, NoRow
  <2>2. CoverageSupport
    BY <2>1 DEF Init, CoverageSupport, RowsAreCurrent, OnlyRedactedGo, WalksRead, ReadsAll,
                SyncIsPast, Redacted, Posted, NoWalk, NoRefetch, Shown
  <2>3. GapIsRepaired
    BY DEF Init, GapIsRepaired, LostItems, Repairing, NoWalk, NoGap
  <2>4. ReturnIsWalked
    BY DEF Init, ReturnIsWalked, Repairing, NoWalk, NoMarker
  <2> QED BY <2>2, <2>3, <2>4
<1>2. Inv /\ [Next]_vars => Inv'
  <2> SUFFICES ASSUME Inv, [Next]_vars PROVE Inv'
    OBVIOUS
  <2>1. ConversationInv' /\ CoverageSupport'
    BY InvStep, SupportStep
  <2>2. Covered'
    BY GapStep, ReturnStep DEF Covered
  <2> QED BY <2>1, <2>2
<1> QED BY <1>1, <1>2, PTL DEF Spec

\* What a read may call complete knows everything sync is done with.
LEMMA CompleteKnows ==
    ASSUME ConversationInv, Covered, Complete, NEW x \in Tracked, x \in Posted \ Undelivered
    PROVE  Known(x)
<1>1. x \in delivered \cup lost /\ x \in PastItems
  BY DEF Undelivered, PastItems
<1>2. CASE GapIsRepaired
  <2>1. recovery.state \in {"none", "repaired"}
    BY DEF Complete, Hydrated, Outstanding, ConversationInv, TypeOK, Gap
  <2> QED BY <1>1, <1>2, <2>1 DEF GapIsRepaired, LostItems
<1>3. CASE ReturnIsWalked
  BY <1>1, <1>3 DEF Complete, Hydrated, ReturnIsWalked
<1> QED BY <1>2, <1>3 DEF Covered

\* A read may call complete only what lacks nothing, however sync, walks and
\* readers interleave, in a room that is not left or that loses no history.  The
\* run "reuse" shows why not both: a gap recorded after a return may carry the
\* number of one a walk was launched for before the departure.
THEOREM CompleteLacksNothing ==
    ASSUME MaxEpoch = 0 \/ MaxGaps = 0
    PROVE  Spec => []CompleteMissesNothing
<1>1. ConversationInv /\ Covered => CompleteMissesNothing
  <2> SUFFICES ASSUME ConversationInv, Covered, Complete,
                      NEW m \in Messages, Sent(m) \in Posted \ Undelivered
               PROVE  Accounted(m)
    BY DEF CompleteMissesNothing
  <2>1. Sent(m) \in Tracked /\ ~Sent(m).redacts /\ Sent(m).event = m
    BY DEF Tracked, Items, Sent, Events
  <2>2. Known(Sent(m))
    BY <2>1, CompleteKnows
  <2> QED BY <2>1, <2>2 DEF Known
<1> QED BY <1>1, CoverageIsEarned, PTL

\* Once nothing is left to deliver, what a complete read serves is what the
\* server shows: the messages that are not redacted, each in the newest of its
\* author's edits that is not redacted.  Apart from departures with gaps this
\* needs what the run "shadow" and undecryptable events show to be needed, and
\* that an edit is dated after its message.
THEOREM CompleteReadsAgree ==
    ASSUME MaxEpoch = 0 \/ MaxGaps = 0, Unreadable = {}, EditsTraceable,
           \A e \in Edits : IsNewer(e, Target[e])
    PROVE  Spec => []ReadMatchesServer
<1>1. ConversationInv /\ Covered => ReadMatchesServer
  <2>1. SUFFICES ASSUME ConversationInv, Covered, Complete, Undelivered = {},
                        NEW m \in Messages
                 PROVE  /\ Shown(view, m) <=> Sent(m) \in Posted /\ m \notin Redacted
                        /\ view.visible[m].body # NoEvent =>
                             IsCurrentRevision(m, view.visible[m].body)
    BY DEF ReadMatchesServer
  <2>2. /\ Sound(view) /\ Sourced(view, SentEvents) /\ EditsFollow
    <3>1. Sound(view)
      BY <2>1 DEF ConversationInv, TypeOK, DeletedIsGone, HeldAwaitsMessage, Sound
    <3>2. Sourced(view, SentEvents) /\ EditsFollow
      BY <2>1 DEF ConversationInv, FromTheRoom
    <3> QED BY <3>1, <3>2
  <2>3. \A x \in Items : x \in Posted => Known(x)
    <3>1. Items \subseteq Tracked
      BY DEF Tracked
    <3> QED BY <2>1, <3>1, CompleteKnows
  <2>4. \A e \in Redacted : e \in view.tombstones
    <3>1. \A e \in Events : Redaction(e) \in Items /\ Redaction(e).redacts
                            /\ Redaction(e).event = e
      BY DEF Redaction, Items
    <3> QED BY <2>3, <3>1 DEF Redacted, Known
  <2>5. \A e \in Events : Sent(e) \in Items /\ ~Sent(e).redacts /\ Sent(e).event = e
    BY DEF Sent, Items
  <2>6. m \in Events /\ \A e \in Edits : e \in Events /\ e \notin Messages
    BY ProjectionConstants DEF Events
  <2>7. Shown(view, m) => Sent(m) \in Posted /\ m \notin Redacted
    <3>1. ASSUME Shown(view, m) PROVE m \in SentEvents
      BY <2>2, <3>1 DEF Sourced, Revises, EditsFollow
    <3> QED BY <2>2, <2>4, <3>1 DEF SentEvents, Sound, NoDeletedText
  <2>8. Sent(m) \in Posted /\ m \notin Redacted => Shown(view, m)
    <3>1. Sent(m) \in Posted => Accounted(m)
      BY <2>3, <2>5, <2>6 DEF Known
    <3> QED BY <3>1 DEF Accounted
  <2>9. ASSUME view.visible[m].body # NoEvent
        PROVE  IsCurrentRevision(m, view.visible[m].body)
    <3> DEFINE b == view.visible[m].body
    <3>1. b = view.visible[m].revision /\ Shown(view, m)
      BY <2>2, <2>9 DEF Sound, BodyOrDebt, Shown
    <3>2. b \in SentEvents /\ Revises(b, m)
      BY <2>2, <3>1 DEF Sourced
    <3>3. b \notin Redacted /\ b \in Events
      BY <2>2, <2>4, <3>2 DEF Sound, NoDeletedText, SentEvents
    <3> HIDE DEF b
    <3>4. b \in Rivals(m)
      BY <3>2, <3>3 DEF Rivals, Revises, SentEvents
    <3>5. ASSUME NEW f \in Rivals(m), f # b
          PROVE  IsNewer(b, f)
      <4>1. CASE f = m
        BY <3>2, <3>5, <4>1 DEF Revises
      <4>2. CASE f # m
        <5>1. /\ f \in Edits /\ Target[f] = m /\ Author[f] = Author[m]
              /\ Sent(f) \in Posted /\ f \notin Redacted
          BY <3>5, <4>2 DEF Rivals
        <5>2. m \notin Redacted
          BY <2>7, <3>1
        <5>3. EditStands(view, f)
          BY <2>3, <2>5, <2>6, <5>1, <5>2 DEF Known
        <5>4. ~IsNewer(f, b)
          BY <2>2, <3>1, <5>1, <5>3 DEF EditStands, HeldBy, Sound, HeldApart
        <5>5. Rank[f] \in Nat /\ Rank[b] \in Nat /\ Rank[f] # Rank[b]
          BY <2>6, <3>3, <3>5, <5>1, ProjectionConstants
        <5> QED BY <5>4, <5>5 DEF IsNewer
      <4> QED BY <4>1, <4>2
    <3>6. IsCurrentRevision(m, b)
      BY <3>4, <3>5 DEF IsCurrentRevision
    <3> QED BY <3>6 DEF b
  <2> QED BY <2>7, <2>8, <2>9
<1> QED BY <1>1, CoverageIsEarned, PTL
=============================================================================
