------------------------------ MODULE Ingress ------------------------------
(***************************************************************************)
(* How a message becomes a turn: the handler that claims and resolves it,   *)
(* the sender's receipt lane, the coalescing gate of its conversation, the  *)
(* dispatch of the gate's batch and the response under the lock of the      *)
(* conversation (ingress_lanes.py, coalescing.py, turn_controller.py,       *)
(* text_ingress_dispatch.py, response_lifecycle.py, turn_store.py).         *)
(*                                                                         *)
(* The event loop runs one step at a time, so an action is the code between *)
(* two awaits.  There is one room.  Time appears only as the order of       *)
(* receipt and as the freedom of the debounce timer.                        *)
(***************************************************************************)
EXTENDS Integers, FiniteSets, Sequences, SequencesExt

CONSTANTS
    Sources,    \* the events offered by the journal
    Senders,    \* their effective requesters
    NoThread,   \* the thread of a room-level message
    FollowUp,   \* the owner of the messages queued behind a response
    Traffics,   \* the mixes of events to check, each with its thread mode
                \* and a bound on how many steps may fail
    MaxRoots    \* _MAX_ROOT_PREPARATIONS

Kinds == {"text", "command", "relay", "media", "voice"}

\* A thread is named by its root.  A relay, and nothing else, stands for an
\* original event, which may itself be offered.
ASSUME IngressAssumption ==
    /\ \A f \in Traffics :
        /\ f.sender \in [Sources -> Senders]
        /\ f.kind \in [Sources -> Kinds]
        /\ f.thread \in [Sources -> Sources \cup {NoThread}]
        /\ DOMAIN f.alias = Sources
        /\ \A s \in Sources : f.kind[s] # "relay" => f.alias[s] = {}
        /\ f.roomMode \in BOOLEAN
        /\ f.offered \subseteq Sources
        /\ f.maxFaults \in Nat
    /\ NoThread \notin Sources /\ FollowUp \notin Senders
    /\ MaxRoots \in Nat \ {0}

VARIABLES
    traffic,   \* the mix under way
    pc,        \* [Sources -> where the handler of the event is]
    clock,     \* the last moment of receipt
    slot,      \* [Sources -> its receipt_time, which names its slot]
    lanes,     \* [Senders -> its slots in the order they were entered]
    settling,  \* slots of ignored events whose settlement is awaited
    ready,     \* [Sources -> what its readiness task produced]
    claims,    \* the turns claimed in TurnStore
    completed, \* the turns with a terminal record
    notices,   \* events that tell a running response a human is waiting
    gates,     \* [Keys -> its queue and the state of its drain task]
    turns,     \* batches being dispatched, and the responses they became
    locks,     \* [Conversations -> responses in the order of the lock]
    faults

vars == <<traffic, pc, clock, slot, lanes, settling, ready, claims, completed,
          notices, gates, turns, locks, faults>>

Sender == traffic.sender
Kind == traffic.kind
Thread == traffic.thread
Alias == traffic.alias
RoomMode == traffic.roomMode
MaxFaults == traffic.maxFaults

Conversations == Sources \cup {NoThread}
Owners == Senders \cup {FollowUp}
Keys == [thread : Conversations, owner : Owners]

OwnKey(s) == [thread |-> Thread[s], owner |-> Sender[s]]
FollowUpKey(th) == [thread |-> th, owner |-> FollowUp]
IsFollowUp(k) == k.owner = FollowUp

NoGate == [queue |-> <<>>, claimed |-> <<>>, pc |-> "none", waits |-> {}, cut |-> 0]

\* A queued event is a source and the slot it came through.
Srcs(q) == {q[i].src : i \in DOMAIN q}
Slots(q) == {q[i].n : i \in DOMAIN q}

-----------------------------------------------------------------------------
(* Claims: TurnStore.                                                       *)

Record(S) == [sources |-> S, aliases |-> UNION {Alias[s] : s \in S}]
Indexed(r) == r.sources \cup r.aliases

Handled(s) == \E r \in completed : s \in Indexed(r)

\* A plausible bug: only the events themselves, not what they relay, exclude
\* another claim.
CanClaimSources(held, r) == \A c \in held : c.sources \cap r.sources = {}

\* try_claim_turn
CanClaim(held, r) ==
    /\ \A d \in completed : r.aliases \cap Indexed(d) # {} => d.sources = r.sources
    /\ \A c \in held :
        c.sources \cap r.sources = {} /\ c.aliases \cap r.aliases = {}

\* wait_for_turn_settled
TurnSettled(s) == \A c \in claims : Indexed(c) \cap Indexed(Record({s})) = {}

-----------------------------------------------------------------------------
(* Lanes: IngressLanes.                                                     *)

\* The slots a gate still has to wait for.
Undelivered(x, cut) ==
    {lanes[x][i].n : i \in {j \in DOMAIN lanes[x] :
        lanes[x][j].state # "released" /\ lanes[x][j].n <= cut}}

Unsettled == UNION {Slots(lanes[x]) : x \in Senders} \cup {e.n : e \in settling}

EnterLane(s, n) ==
    [lanes EXCEPT ![Sender[s]] = Append(@, [n |-> n, src |-> s, state |-> "open"])]

SetSlot(l, s, state) ==
    [l EXCEPT ![Sender[s]] = [i \in DOMAIN @ |->
        IF @[i].n = slot[s] THEN [@[i] EXCEPT !.state = state] ELSE @[i]]]

-----------------------------------------------------------------------------
(* Conversations: ResponseLifecycleCoordinator.                             *)

Busy(c) == locks[c] # <<>>

\* Where the response to a batch goes; a room-level message roots a thread.
ConversationOf(k, batch) ==
    IF k.thread # NoThread \/ RoomMode THEN k.thread ELSE Last(batch).src

TargetOf(s) == IF Thread[s] # NoThread \/ RoomMode THEN Thread[s] ELSE s

\* What a queued event tells the response that is running now: only a human
\* is announced.
Noticed(s) ==
    IF Busy(TargetOf(s)) /\ Kind[s] # "relay" THEN notices \cup {s} ELSE notices

-----------------------------------------------------------------------------
(* Gates: CoalescingGate.                                                   *)

IsNormal(e) == Kind[e.src] # "relay"
IsText(e) == Kind[e.src] # "media"
RoomScope(e) == Kind[e.src] \in {"media", "voice"}

\* _should_coalesce_normal_events
Coalesces(k, q) ==
    \/ k.thread # NoThread \/ RoomMode
    \/ \E i \in DOMAIN q : RoomScope(q[i]) /\ \A j \in 1..i : IsNormal(q[j])

\* _front_normal_run_length
FrontRun(q, coalesce, cut) ==
    LET fits(i) == \A j \in 1..i : IsNormal(q[j]) /\ q[j].n <= cut
        runs == {i \in 0..Len(q) : fits(i) /\ (i <= 1 \/ coalesce)}
    IN CHOOSE i \in runs : \A j \in runs : j <= i

Run(k, q, cut) == FrontRun(q, Coalesces(k, q), cut)

\* The front run is a complete utterance, or something is queued behind it.
EndsWithText(k, q) == LET r == Run(k, q, clock) IN r > 0 /\ IsText(q[r])
HasBarrier(k, q) == Run(k, q, clock) < Len(q)

\* A plausible bug: events are queued as they are delivered.
InsertLast(q, e) == Append(q, e)

\* _insert_queued_event
Insert(q, e) ==
    LET later == {i \in DOMAIN q : q[i].n > e.n}
    IN InsertAt(q, IF later = {} THEN Len(q) + 1 ELSE Min(later), e)

\* A queue changes and its drain is scheduled: _schedule_drain.
Filled(g, q) == [g EXCEPT !.queue = q, !.pc = IF @ = "none" THEN "loop" ELSE @]

\* _promote_pending_room_media: how much of a room burst moves to the thread
\* that was started on one of its uploads.
Promoted(g, k) ==
    LET room == g[[k EXCEPT !.thread = NoThread]]
        r == FrontRun(room.queue, TRUE, clock)
    IN IF /\ k.thread # NoThread /\ g[k].pc = "none"
          /\ room.pc \notin {"none", "dispatch"} /\ r > 0
          /\ ~IsText(room.queue[r])
          /\ \E i \in 1..r : room.queue[i].src = k.thread /\ RoomScope(room.queue[i])
       THEN r ELSE 0

\* admit, with the busy check of _busy_conversation_key.
Admitted(g, e) ==
    LET own == OwnKey(e.src)
        k == IF Busy(own.thread) THEN FollowUpKey(own.thread) ELSE own
        rk == [k EXCEPT !.thread = NoThread]
        r == Promoted(g, k)
        room == g[rk].queue
        queue == IF r = 0 THEN g[k].queue ELSE SubSeq(room, 1, r)
    IN [g EXCEPT ![rk] = IF r = 0 THEN @ ELSE Filled(@, SubSeq(room, r + 1, Len(room))),
                 ![k] = Filled(g[k], Insert(queue, e))]

\* _allows_parallel_root_preparation
ParallelRoot(k) == k.thread = NoThread /\ ~IsFollowUp(k) /\ ~RoomMode

InDispatch == {"claimed", "prepare", "task", "queue"}
Roots == {t \in turns : t.root /\ t.pc \in InDispatch}
RootsOf(k) == {t \in Roots : t.key = k}

NewTurn(k, batch, root) == [key |-> k, batch |-> batch, root |-> root, pc |-> "claimed"]

\* _claim_front_events and the start of its dispatch.
ClaimFront(k, count) ==
    LET q == gates[k].queue
        batch == SubSeq(q, 1, count)
        rest == SubSeq(q, count + 1, Len(q))
        root == ParallelRoot(k) /\ IsNormal(Head(q))
    IN /\ gates' = [gates EXCEPT ![k] =
            [queue |-> rest, claimed |-> IF root THEN <<>> ELSE batch,
             pc |-> IF root THEN "loop" ELSE "dispatch", waits |-> {}, cut |-> 0]]
       /\ turns' = turns \cup {NewTurn(k, batch, root)}

Park(k, where, waits, cut) ==
    /\ gates' = [gates EXCEPT ![k] = [@ EXCEPT !.pc = where, !.waits = waits, !.cut = cut]]
    /\ UNCHANGED turns

\* Whether a source still has someone in the lanes or gates: has_pending_source_event.
InLane(s) == \E x \in Senders : \E i \in DOMAIN lanes[x] :
                lanes[x][i].src = s /\ lanes[x][i].state = "loaded"
InGate(s) == \E k \in Keys : s \in Srcs(gates[k].queue) \cup Srcs(gates[k].claimed)
InTurn(s) == \E t \in turns : s \in Srcs(t.batch)
InSettling(s) == \E e \in settling : e.src = s

\* What the journal asks before it offers a deferred source again.  A claim
\* counts for its sources and for what they relay: _has_live_owner.
HasLiveOwner(s) ==
    \/ InLane(s) \/ InSettling(s) \/ InGate(s) \/ InTurn(s)
    \/ \E c \in claims : s \in Indexed(c)

-----------------------------------------------------------------------------
Init ==
    /\ traffic \in Traffics
    /\ pc = [s \in Sources |-> IF s \in traffic.offered THEN "offered" ELSE "done"]
    /\ clock = 0
    /\ slot = [s \in Sources |-> 0]
    /\ lanes = [x \in Senders |-> <<>>]
    /\ settling = {}
    /\ ready = [s \in Sources |-> "none"]
    /\ claims = {} /\ completed = {} /\ notices = {}
    /\ gates = [k \in Keys |-> NoGate]
    /\ turns = {}
    /\ locks = [c \in Conversations |-> <<>>]
    /\ faults = 0

-----------------------------------------------------------------------------
(* The handler of one event: handle_text_event, handle_media_event.         *)

Goto(s, where) == pc' = [pc EXCEPT ![s] = where]

KeepSlots == UNCHANGED <<clock, slot, lanes>>

ClaimsFirst(s) == Kind[s] \in {"media", "voice"}

\* A plausible bug, once in the code: waiting for the competing turn with the
\* lane slot in hand.
ContendHolding(s) ==
    /\ lanes' = IF ClaimsFirst(s) THEN lanes ELSE EnterLane(s, slot[s])
    /\ Goto(s, "contended")
    /\ UNCHANGED claims

\* A text event has its slot by then and releases it before it waits; media
\* claims first.
Contend(s) ==
    /\ lanes' = IF ClaimsFirst(s) THEN lanes
                ELSE [lanes EXCEPT ![Sender[s]] =
                        Append(@, [n |-> slot[s], src |-> s, state |-> "released"])]
    /\ Goto(s, "contended")
    /\ UNCHANGED claims

\* The callback stamps the receipt; the precheck drops what is handled already.
Precheck(s) ==
    /\ pc[s] = "offered"
    /\ clock' = clock + 1
    /\ slot' = [slot EXCEPT ![s] = clock + 1]
    /\ Goto(s, IF Handled(s) THEN "done" ELSE "prechecked")
    /\ UNCHANGED <<traffic, lanes, settling, ready, claims, completed,
                   notices, gates, turns, locks, faults>>

\* The journal's probe finds a deferred event that nobody holds and offers it
\* again (PendingEvents models the probe itself).
Reoffer(s) ==
    /\ pc[s] = "deferred" /\ ~HasLiveOwner(s)
    /\ Goto(s, "offered")
    /\ UNCHANGED <<traffic, clock, slot, lanes, settling, ready, claims, completed,
                   notices, gates, turns, locks, faults>>

\* _claim_live_turn
ClaimLive(s) ==
    /\ pc[s] = "prechecked"
    /\ \/ /\ CanClaim(claims, Record({s}))
          /\ claims' = claims \cup {Record({s})}
          /\ lanes' = EnterLane(s, slot[s])
          /\ Goto(s, "resolve")
       \/ /\ ~CanClaim(claims, Record({s}))
          /\ Contend(s)
    /\ UNCHANGED <<traffic, clock, slot, settling, ready, completed, notices,
                   gates, turns, locks, faults>>

\* The rest of _claim_live_turn, once the competing turn is over: who gave up
\* a slot enters the lane anew, as of now.
ClaimAgain(s) ==
    LET n == IF ClaimsFirst(s) THEN slot[s] ELSE clock + 1 IN
    /\ pc[s] = "contended" /\ TurnSettled(s)
    /\ IF ~Handled(s) /\ CanClaim(claims, Record({s}))
       THEN /\ claims' = claims \cup {Record({s})}
            /\ clock' = IF n > clock THEN n ELSE clock
            /\ slot' = [slot EXCEPT ![s] = n]
            /\ lanes' = EnterLane(s, n)
            /\ Goto(s, "resolve")
       ELSE /\ Goto(s, "done")
            /\ UNCHANGED claims /\ KeepSlots
    /\ UNCHANGED <<traffic, settling, ready, completed, notices, gates, turns, locks, faults>>

\* The event is ready, or its readiness task is started: submit_lane_slot.
Submit(s) ==
    /\ pc[s] = "resolve" /\ Kind[s] # "command"
    /\ lanes' = SetSlot(lanes, s, "loaded")
    /\ ready' = [ready EXCEPT ![s] = IF Kind[s] = "voice" THEN "running" ELSE "payload"]
    /\ notices' = Noticed(s)
    /\ Goto(s, "deferred")
    /\ UNCHANGED <<traffic, clock, slot, settling, claims, completed, gates, turns, locks, faults>>

\* The handler ends without a turn: its finally clause gives up claim and slot.
\* A router's message or an unowned command is consumed, a command is answered
\* by the handler itself, and a failure returns the event to the journal.
Leave(s, where) ==
    /\ pc[s] = "resolve"
    /\ lanes' = SetSlot(lanes, s, "released")
    /\ claims' = claims \ {Record({s})}
    /\ Goto(s, where)
    /\ UNCHANGED <<traffic, clock, slot, settling, ready, notices, gates, turns, locks>>

Consume(s) == Leave(s, "done") /\ UNCHANGED <<completed, faults>>

Command(s) ==
    /\ Kind[s] = "command"
    /\ Leave(s, "done")
    /\ completed' = completed \cup {Record({s})}
    /\ UNCHANGED faults

ResolveFails(s) ==
    /\ faults < MaxFaults
    /\ Leave(s, "offered")
    /\ faults' = faults + 1
    /\ UNCHANGED completed

-----------------------------------------------------------------------------
(* Readiness and the lane worker.                                           *)

\* A plausible bug: a transcription that consumed its event keeps the claim.
VoiceGivesUpNotice(s, outcome) ==
    /\ claims' = claims
    /\ notices' = IF outcome = "payload" THEN Noticed(s) ELSE notices \ {s}

\* What the end of the readiness task does to its claim and its notice.
VoiceGivesUp(s, outcome) ==
    /\ claims' = IF outcome = "payload" THEN claims ELSE claims \ {Record({s})}
    /\ notices' = IF outcome = "payload" THEN Noticed(s) ELSE notices \ {s}

VoiceReady(s, outcome) ==
    /\ ready[s] = "running"
    /\ outcome = "failed" => faults < MaxFaults
    /\ faults' = IF outcome = "failed" THEN faults + 1 ELSE faults
    /\ ready' = [ready EXCEPT ![s] = outcome]
    /\ VoiceGivesUp(s, outcome)
    /\ UNCHANGED <<traffic, pc, clock, slot, lanes, settling, completed, gates, turns, locks>>

\* _run_lane: the slot at the head is released, delivered, ignored or retried.
Lane(x) ==
    /\ lanes[x] # <<>>
    /\ lanes' = [lanes EXCEPT ![x] = Tail(@)]
    /\ LET e == Head(lanes[x])
           q == [n |-> e.n, src |-> e.src]
       IN
       \/ /\ e.state = "released"
          /\ UNCHANGED <<gates, settling, pc>>
       \/ /\ e.state = "loaded" /\ ready[e.src] = "payload"
          /\ gates' = Admitted(gates, q)
          /\ UNCHANGED <<settling, pc>>
       \/ /\ e.state = "loaded" /\ ready[e.src] = "none"
          /\ settling' = settling \cup {q}
          /\ UNCHANGED <<gates, pc>>
       \/ /\ e.state = "loaded" /\ ready[e.src] = "failed"
          /\ Goto(e.src, "offered")
          /\ UNCHANGED <<gates, settling>>
    /\ UNCHANGED <<traffic, clock, slot, ready, claims, completed, notices, turns, locks, faults>>

\* The journal settles an ignored source; a failure offers it again.
SettleIgnored(e, ok) ==
    /\ ok \/ faults < MaxFaults
    /\ settling' = settling \ {e}
    /\ faults' = IF ok THEN faults ELSE faults + 1
    /\ Goto(e.src, IF ok THEN "done" ELSE "offered")
    /\ UNCHANGED <<traffic, clock, slot, lanes, ready, claims, completed, notices,
                   gates, turns, locks>>

-----------------------------------------------------------------------------
(* The drain task of a gate.                                                *)

AtCapacity(k) == ParallelRoot(k) /\ Cardinality(Roots) >= MaxRoots

\* _dispatch_normal_after_debounce, up to the wait for a free root.
Claimable(k, cut) ==
    LET r == Run(k, gates[k].queue, cut) IN
    IF r = 0 THEN Park(k, "loop", {}, 0) ELSE ClaimFront(k, r)

AfterDebounce(k, cut) ==
    LET waits == IF IsFollowUp(k) THEN {} ELSE Undelivered(k.owner, cut) IN
    \/ waits # {} /\ Park(k, "lanes", waits, 0)
    \/ waits = {} /\ AtCapacity(k) /\ Park(k, "capacity", {}, cut)
    \/ waits = {} /\ ~AtCapacity(k) /\ Claimable(k, cut)

\* The cut of a quiet window lies between the front of the queue and now.
Cuts(k) == LET q == gates[k].queue IN
           IF EndsWithText(k, q) THEN {clock} ELSE q[1].n..clock

\* _drain_gate_iteration
Iterate(k) ==
    LET q == gates[k].queue IN
    /\ gates[k].pc = "loop"
    /\ \/ /\ q = <<>>
          /\ gates' = [gates EXCEPT ![k] = NoGate]
          /\ UNCHANGED turns
       \/ /\ q # <<>> /\ (IsFollowUp(k) => ~Busy(k.thread))
          /\ \/ /\ ~IsNormal(q[1]) /\ RootsOf(k) = {}
                /\ ClaimFront(k, 1)
             \/ /\ IsNormal(q[1]) /\ IsFollowUp(k)
                /\ ClaimFront(k, FrontRun(q, TRUE, clock))
             \/ /\ IsNormal(q[1]) /\ ~IsFollowUp(k)
                /\ IF EndsWithText(k, q) \/ HasBarrier(k, q)
                   THEN \E cut \in Cuts(k) : AfterDebounce(k, cut)
                   ELSE Park(k, "debounce", {}, 0)

\* _wait_for_debounce: the window closes, or an admission completes the burst.
Debounce(k) ==
    /\ gates[k].pc = "debounce"
    /\ IF gates[k].queue = <<>> THEN Park(k, "loop", {}, 0)
       ELSE \E cut \in Cuts(k) : AfterDebounce(k, cut)

\* _wait_for_lane_slots
LanesSettled(k) ==
    /\ gates[k].pc = "lanes" /\ gates[k].waits \cap Unsettled = {}
    /\ Park(k, "loop", {}, 0)

RootFree(k) ==
    /\ gates[k].pc = "capacity" /\ ~AtCapacity(k)
    /\ Claimable(k, gates[k].cut)

\* _dispatch_claim returns to the drain loop.
Dispatched(k) ==
    /\ gates[k].pc = "dispatch"
    /\ \A t \in turns : t.key = k /\ ~t.root => t.pc \notin InDispatch
    /\ gates' = [gates EXCEPT ![k] = [@ EXCEPT !.claimed = <<>>, !.pc = "loop"]]
    /\ UNCHANGED turns

Gate(k) ==
    /\ Iterate(k) \/ Debounce(k) \/ LanesSettled(k) \/ RootFree(k) \/ Dispatched(k)
    /\ UNCHANGED <<traffic, pc, clock, slot, lanes, settling, ready, claims, completed,
                   notices, locks, faults>>

-----------------------------------------------------------------------------
(* A batch on its way to a response.                                        *)

Lead(t) == Last(t.batch).src
BatchRecord(t) == Record(Srcs(t.batch))
Conversation(t) == ConversationOf(t.key, t.batch)
MemberClaims(t) == {Record({s}) : s \in Srcs(t.batch)}

Move(t, where) == turns' = (turns \ {t}) \cup {[t EXCEPT !.pc = where]}
Gone(t, where) ==
    /\ turns' = turns \ {t}
    /\ pc' = [s \in Sources |-> IF s \in Srcs(t.batch) THEN where ELSE pc[s]]

\* The members' claims end and the batch's begins, with no await between.
Swap(t) == (claims \ MemberClaims(t)) \cup {BatchRecord(t)}

\* handle_prepared_turn up to the first await of dispatch_text_message.  A batch
\* whose claim is refused is dropped without a word to the journal.
StartTurn(t) ==
    /\ t.pc = "claimed"
    /\ notices' = notices \ Srcs(t.batch)
    /\ IF CanClaim(claims \ MemberClaims(t), BatchRecord(t))
       THEN claims' = Swap(t) /\ Move(t, "prepare")
       ELSE claims' = claims \ MemberClaims(t) /\ turns' = turns \ {t}
    /\ UNCHANGED <<traffic, pc, clock, slot, lanes, settling, ready, completed,
                   gates, locks, faults>>

\* The plan ignores the batch, or hands it to another agent by a relay.
Settle(t, records) ==
    /\ t.pc = "prepare"
    /\ completed' = completed \cup records
    /\ claims' = claims \ {BatchRecord(t)}
    /\ Gone(t, "done")
    /\ UNCHANGED <<traffic, clock, slot, lanes, settling, ready, notices, gates, locks, faults>>

Ignore(t) == Settle(t, {})

Route(t) == Settle(t, {BatchRecord(t)})

\* track_inbox_response takes the claim over; the task starts later.
Respond(t) ==
    /\ t.pc = "prepare"
    /\ Move(t, "task")
    /\ UNCHANGED <<traffic, pc, clock, slot, lanes, settling, ready, claims, completed,
                   notices, gates, locks, faults>>

\* run_locked_response, up to the wait for the lock.
Begin(t) ==
    LET where == Conversation(t) IN
    /\ t.pc = "task"
    /\ locks' = [locks EXCEPT ![where] = Append(@, Lead(t))]
    /\ notices' = IF Busy(where) /\ Kind[Lead(t)] # "relay" THEN notices \cup {Lead(t)} ELSE notices
    /\ Move(t, "queue")
    /\ UNCHANGED <<traffic, pc, clock, slot, lanes, settling, ready, claims, completed,
                   gates, faults>>

Acquire(t) ==
    /\ t.pc = "queue" /\ Head(locks[Conversation(t)]) = Lead(t)
    /\ notices' = notices \ {Lead(t)}
    /\ Move(t, "run")
    /\ UNCHANGED <<traffic, pc, clock, slot, lanes, settling, ready, claims, completed,
                   gates, locks, faults>>

\* The terminal record is durable before lock and claim are given up.
Finish(t) ==
    /\ t.pc = "run"
    /\ completed' = completed \cup {BatchRecord(t)}
    /\ claims' = claims \ {BatchRecord(t)}
    /\ locks' = [locks EXCEPT ![Conversation(t)] = Tail(@)]
    /\ Gone(t, "done")
    /\ UNCHANGED <<traffic, clock, slot, lanes, settling, ready, notices, gates, faults>>

\* Dispatch or response raises: every owner lets go, and the journal gets the
\* sources back.
TurnFails(t) ==
    /\ faults < MaxFaults
    /\ faults' = faults + 1
    /\ claims' = claims \ (MemberClaims(t) \cup {BatchRecord(t)})
    /\ notices' = notices \ Srcs(t.batch)
    /\ locks' = [locks EXCEPT ![Conversation(t)] = RemoveFirst(@, Lead(t))]
    /\ Gone(t, "offered")
    /\ UNCHANGED <<traffic, clock, slot, lanes, settling, ready, completed, gates>>

-----------------------------------------------------------------------------
Handler(s) == Precheck(s) \/ ClaimLive(s) \/ ClaimAgain(s)
Resolve(s) == Submit(s) \/ Consume(s) \/ Command(s)
Voice(s) == \E outcome \in {"payload", "none"} : VoiceReady(s, outcome)
TurnStep(t) ==
    \/ StartTurn(t) \/ Ignore(t) \/ Route(t) \/ Respond(t)
    \/ Begin(t) \/ Acquire(t) \/ Finish(t)
TurnOf(s) == \E t \in turns : s = Lead(t) /\ TurnStep(t)
SettleOf(s) == \E e \in settling : e.src = s /\ SettleIgnored(e, TRUE)

Next ==
    \/ \E s \in Sources : Handler(s) \/ Resolve(s) \/ ResolveFails(s) \/ Voice(s)
    \/ \E s \in Sources : VoiceReady(s, "failed") \/ Reoffer(s)
    \/ \E e \in settling, ok \in BOOLEAN : SettleIgnored(e, ok)
    \/ \E x \in Senders : Lane(x)
    \/ \E k \in Keys : Gate(k)
    \/ \E t \in turns : TurnStep(t) \/ TurnFails(t)

Spec == Init /\ [][Next]_vars

\* Tasks that can run do run, timers fire, calls return, and the journal keeps
\* asking after what it deferred.
FairSpec ==
    /\ Spec
    /\ \A s \in Sources :
        /\ WF_vars(Handler(s)) /\ WF_vars(Resolve(s)) /\ WF_vars(Voice(s))
        /\ WF_vars(SettleOf(s)) /\ WF_vars(TurnOf(s)) /\ WF_vars(Reoffer(s))
    /\ \A x \in Senders : WF_vars(Lane(x))
    /\ \A k \in Keys : WF_vars(Gate(k))

-----------------------------------------------------------------------------
(* Properties.                                                              *)

Queued == [n : Nat, src : Sources]
LaneSlots == [n : Nat, src : Sources, state : {"open", "loaded", "released"}]
GateEntries == [queue : Seq(Queued), claimed : Seq(Queued), waits : SUBSET Nat, cut : Nat,
                pc : {"none", "loop", "debounce", "lanes", "capacity", "dispatch"}]
Batches == [key : Keys, batch : Seq(Queued), root : BOOLEAN, pc : InDispatch \cup {"run"}]

\* The state has its type.
TypeOK ==
    /\ traffic \in Traffics
    /\ pc \in [Sources -> {"offered", "prechecked", "contended", "resolve", "deferred", "done"}]
    /\ clock \in Nat /\ slot \in [Sources -> Nat] /\ faults \in 0..MaxFaults
    /\ lanes \in [Senders -> Seq(LaneSlots)]
    /\ settling \subseteq Queued
    /\ ready \in [Sources -> {"none", "running", "payload", "failed"}]
    /\ claims \cup completed \subseteq {Record(S) : S \in SUBSET Sources}
    /\ notices \subseteq Sources
    /\ gates \in [Keys -> GateEntries]
    /\ turns \subseteq Batches
    /\ locks \in [Conversations -> Seq(Sources)]

\* The turns that may yet produce an answer.
Answering == {BatchRecord(t) : t \in {u \in turns : u.pc # "claimed"}}

\* No message is answered twice, under its own name or as two relays of one
\* original, whatever was retried, coalesced or waiting for another owner.  (An
\* original and its relay may be under way together: aliases are advisory.)
AnsweredOnce ==
    \A r, d \in Answering \cup completed :
        r # d => r.sources \cap d.sources = {} /\ r.aliases \cap d.aliases = {}

\* Somebody works on the event: its handler, its lane, its gate or its turn.
Working(s) == pc[s] = "resolve" \/ InLane(s) \/ InGate(s) \/ InTurn(s)

\* No claim and no announcement outlives the work it stands for: a leaked claim
\* would block every retry, a leaked announcement would interrupt every response.
HeldIsOwned ==
    /\ \A c \in claims : \A s \in c.sources : Working(s)
    /\ \A s \in notices : Working(s)

\* Work that may lead to an answer holds a claim at every await: ready or being
\* made ready in a lane, queued in a gate, moved to another gate, and from the
\* claims of its members to the claim of the batch.
WorkIsClaimed ==
    \A s \in Sources :
        \/ InLane(s) /\ ready[s] \in {"running", "payload"}
        \/ \E k \in Keys : s \in Srcs(gates[k].queue)
        \/ InTurn(s)
        => \E c \in claims : s \in c.sources

\* Another turn has answered what the event relays.
Outranked(s) == \E d \in completed : Alias[s] \cap Indexed(d) # {} /\ s \notin d.sources

\* A deferred event is in somebody's hands, and a queue has a task to drain it.
\* The one exception is a relay whose batch was refused because another turn had
\* answered its original by then: its answer is owed no more, and the journal's
\* next offer ends it.
NothingStranded ==
    /\ \A s \in Sources : pc[s] = "deferred" =>
        InLane(s) \/ InSettling(s) \/ InGate(s) \/ InTurn(s) \/ Outranked(s)
    /\ \A k \in Keys : gates[k].queue # <<>> => gates[k].pc # "none"

\* A batch speaks in the order its messages were received, although handlers
\* enter the lane in any order and an upload may move to a thread meanwhile.
BurstInOrder ==
    LET ordered(q) == \A i, j \in DOMAIN q : i < j => q[i].n < q[j].n IN
    /\ \A k \in Keys : ordered(gates[k].queue)
    /\ \A t \in turns : ordered(t.batch)

\* However many gates wake up when a root ends, no more roots than allowed are
\* prepared at once.
RootsBounded == Cardinality(Roots) <= MaxRoots

\* The invariant of ingress: types, capacity, and work and its claims and
\* announcements in step, so that nothing leaks and nothing is lost.
IngressInv == TypeOK /\ RootsBounded /\ HeldIsOwned /\ WorkIsClaimed /\ NothingStranded

\* Every event comes to its end: no lane, window, capacity, claim or lock is
\* waited for in a circle.
EveryoneServed == \A s \in Sources : <>[](pc[s] = "done")
=============================================================================
