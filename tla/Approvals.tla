----------------------------- MODULE Approvals -----------------------------
(***************************************************************************)
(* Tool calls that wait for a person (event_journal/approvals.py,          *)
(* event_journal/approval_continuations.py, approval_manager.py,           *)
(* approval_response.py, approval_recovery.py and the approval paths of    *)
(* response_runner.py).                                                    *)
(*                                                                         *)
(* A turn of one agent pauses on tool calls. The journal keeps the pause   *)
(* as a continuation that owns the turn's source event; the router posts   *)
(* one card per call that needs a person and edits it once the call is     *)
(* decided; when every call is decided the agent's worker resumes the run, *)
(* which answers, fails, or pauses again in a next generation. Every step  *)
(* below is one transaction or one await, and the runner, which works      *)
(* under the response lock, loses its place when the process dies.         *)
(***************************************************************************)
EXTENDS Integers, Sequences, FiniteSets, Functions

CONSTANTS
    Turns,          \* how a turn may pause: sequences of the sets of tool calls of its pauses
    MaxTroubles     \* bound: failures, interrupts, stops, departures, removals, crashes

Calls == UNION UNION {Range(turn) : turn \in Turns}
Decisions == {"approved", "denied", "expired"}
Runtimes == 1..MaxTroubles + 1

ASSUME ApprovalsAssumption ==
    /\ MaxTroubles \in Nat
    /\ \A turn \in Turns : turn \in Seq(SUBSET Calls) /\ turn # <<>>
    /\ \A turn \in Turns : \A g \in DOMAIN turn : turn[g] # {} /\ IsFiniteSet(turn[g])
    /\ \A turn \in Turns : \A g, h \in DOMAIN turn : g # h => turn[g] \cap turn[h] = {}

VARIABLES
    pauses,     \* the turn that is modelled
    cont,       \* the approval_continuations row
    told,       \* the decision of every call of the continuation, or "open"
    card,       \* the card of every call: its row, its message, its terminal edit
    late,       \* undecided calls whose deadline has passed
    final,      \* the FINAL delivery of the source event
    lost,       \* attempts of an earlier device that nobody can account for
    source,     \* the journal row of the source event
    run,        \* the response runner, under the response lock
    woken,      \* the agent's worker has been asked to look at its sources
    here,       \* who is in the room
    owner,      \* "live", or "removed" from the configuration
    runtime,    \* the process that runs, as a number
    runs,       \* history: what each execution of a call was told
    troubles    \* how many of the bounded troubles have happened

vars == <<pauses, cont, told, card, late, final, source, run, woken, here, owner, runtime, runs, troubles, lost>>

Trouble == troubles < MaxTroubles /\ troubles' = troubles + 1

NoCont == [state |-> "none", gen |-> 1, lease |-> 0, why |-> "none"]
NoCard == [init |-> "none", edit |-> "none", sent |-> "none"]
NoFinal == [kind |-> "none", sent |-> "none"]
NoneLost == [cards |-> {}, answer |-> FALSE]
NoCalls == [c \in Calls |-> "none"]
NoOrders == <<>>

\* The runner: where it is, whether it is still the turn that paused first, the
\* continuation it has seen, what it does once that is fenced, and the decisions
\* its claim returned.
Idle == [pc |-> "idle", first |-> FALSE, obs |-> NoCont, then |-> "idle", orders |-> NoOrders]
At(pc) == [run EXCEPT !.pc = pc]
FenceAs(seen, then) == [run EXCEPT !.pc = "fence", !.obs = seen, !.then = then]

Exists == cont.state # "none"
Open == {c \in pauses[cont.gen] : told[c] = "open"}

\* A row of approval_cards, and whether the router's queries return it.
HasRow(c) == card[c].init \in {"reserved", "attempted", "acked"}
Visible == IF here["router"] THEN {c \in Calls : HasRow(c)} ELSE {}

Init ==
    /\ pauses \in Turns
    /\ cont = NoCont
    /\ told = NoCalls
    /\ card = [c \in Calls |-> NoCard]
    /\ late = {}
    /\ final = NoFinal
    /\ lost = NoneLost
    /\ source = "pending"
    /\ run = [Idle EXCEPT !.pc = "paused", !.first = TRUE]
    /\ woken = FALSE
    /\ here = [p \in {"agent", "router"} |-> TRUE]
    /\ owner = "live"
    /\ runtime = 1
    /\ runs = [c \in Calls |-> <<>>]
    /\ troubles = 0

\* A resume that ends releases its source to the worker again; the turn that
\* paused first does not.
Done == /\ run' = Idle
        /\ woken' = (woken \/ ~run.first)

-----------------------------------------------------------------------------
(* The continuation's transactions.                                        *)

\* plan_pause: a call is gated or it is not, and gated calls are denied when
\* nobody can approve them.
Plans(g) == [pauses[g] -> {"open", "approved"}] \cup [pauses[g] -> {"denied", "approved"}]

Told(plan) == [c \in Calls |-> IF c \in DOMAIN plan THEN plan[c] ELSE told[c]]

\* Whether a FINAL that is not known to be refused stands for the source.
FinalStands == final.kind # "none" /\ final.sent # "refused"

\* What request_failure requires of the row before it fences it.
StillAs(seen) ==
    /\ Exists
    /\ cont.state = seen.state /\ cont.gen = seen.gen /\ cont.lease = seen.lease
    /\ ~FinalStands

Failing(why) == [cont EXCEPT !.state = "failing", !.why = why]

Delivered == final.kind # "none" /\ final.sent \in {"acked", "refused"}

\* The aggregate goes and its sources are settled.
Release ==
    /\ cont' = NoCont
    /\ told' = NoCalls /\ late' = {}
    /\ source' = "settled"

-----------------------------------------------------------------------------
(* Decisions on cards.                                                     *)

Resolvable(c) ==
    /\ HasRow(c) /\ card[c].edit = "none"
    /\ cont.state \in {"waiting", "failing"} /\ c \in Open

\* The deadline and the failure fence have the last word on what was asked.
Effective(c, requested) ==
    IF requested = "expired" \/ c \in late THEN "expired"
    ELSE IF requested = "approved" /\ cont.state = "failing" THEN "denied"
    ELSE requested

\* A plausible bug: the card shows what was asked for, not what was decided.
ResolveAsAsked(S, requested) ==
    LET decided == Told([c \in S |-> Effective(c, requested)])
        ready == /\ cont.state = "waiting" /\ cont.lease = 0
                 /\ \A c \in pauses[cont.gen] : decided[c] # "open"
    IN  /\ told' = decided
        /\ card' = [c \in Calls |-> IF c \in S THEN [card[c] EXCEPT !.edit = requested] ELSE card[c]]
        /\ late' = late \ S
        /\ cont' = IF ready THEN [cont EXCEPT !.state = "ready"] ELSE cont

\* _resolve_continuation, for the calls S in one go.
Resolve(S, requested) ==
    LET decided == Told([c \in S |-> Effective(c, requested)])
        ready == /\ cont.state = "waiting" /\ cont.lease = 0
                 /\ \A c \in pauses[cont.gen] : decided[c] # "open"
    IN  /\ told' = decided
        /\ card' = [c \in Calls |-> IF c \in S THEN [card[c] EXCEPT !.edit = decided[c]] ELSE card[c]]
        /\ late' = late \ S
        /\ cont' = IF ready THEN [cont EXCEPT !.state = "ready"] ELSE cont

\* A decision that completes the generation wakes the agent, if it runs.
WakeIfReady == woken' = (woken \/ (cont'.state = "ready" /\ owner = "live"))

\* A person answers a card the room shows.
Click(c, status) ==
    /\ c \in Visible /\ card[c].init = "acked" /\ Resolvable(c)
    /\ Resolve({c}, status) /\ WakeIfReady
    /\ UNCHANGED <<pauses, final, source, run, here, owner, runtime, runs, troubles, lost>>

\* The clock passes the deadline of an undecided call.
Deadline(c) ==
    /\ told[c] = "open" /\ c \notin late
    /\ late' = late \cup {c}
    /\ UNCHANGED <<pauses, cont, told, card, final, source, run, woken, here, owner, runtime, runs, troubles, lost>>

\* The deadline sweep finds an overdue card, delivered or not.
SweepExpires(c) ==
    /\ c \in Visible /\ c \in late /\ Resolvable(c)
    /\ Resolve({c}, "expired") /\ WakeIfReady
    /\ UNCHANGED <<pauses, final, source, run, here, owner, runtime, runs, troubles, lost>>

-----------------------------------------------------------------------------
(* Delivery of cards, by the router's worker, and of the FINAL answer.     *)

CardMoves(c, new) ==
    /\ card' = [card EXCEPT ![c] = new]
    /\ lost' = [lost EXCEPT !.cards = @ \ {c}]
    /\ UNCHANGED <<pauses, cont, told, late, final, source, run, woken, here, owner, runtime, runs, troubles>>

\* A card has one delivery under way: its message, or the edit of it.
Outstanding(c) == card[c].init = "attempted" \/ card[c].sent = "attempted"
LostCards == {c \in lost.cards : Outstanding(c)}
AnswerLost == lost.answer /\ final.sent = "attempted"

\* The attempt is recorded before anything is sent.
SendCard(c) ==
    /\ c \in Visible /\ card[c].init = "reserved"
    /\ CardMoves(c, [card[c] EXCEPT !.init = "attempted"])

\* The attempt is answered, also after the router has left; a later process sends
\* it again as the same device, or finds the card in the room. A card that asks
\* and was not found is never sent again: it might then ask twice.
AckCard(c) ==
    /\ card[c].init = "attempted" /\ c \notin LostCards
    /\ CardMoves(c, [card[c] EXCEPT !.init = "acked"])

\* Someone acts on a card the room shows and the journal had not acknowledged.
BindOnClick(c) ==
    /\ c \in Visible /\ card[c].init = "attempted"
    /\ CardMoves(c, [card[c] EXCEPT !.init = "acked"])

\* A plausible bug: the edit of a card whose pause is over is not sent.
SendEditOfPause(c) ==
    /\ c \in Visible /\ card[c].init = "acked" /\ Exists
    /\ card[c].edit # "none" /\ card[c].sent = "none"
    /\ CardMoves(c, [card[c] EXCEPT !.sent = "attempted"])

\* A terminal edit needs the message it edits.
SendEdit(c) ==
    /\ c \in Visible /\ card[c].init = "acked"
    /\ card[c].edit # "none" /\ card[c].sent = "none"
    /\ CardMoves(c, [card[c] EXCEPT !.sent = "attempted"])

AckEdit(c) ==
    /\ card[c].sent = "attempted" /\ c \notin LostCards
    /\ CardMoves(c, [card[c] EXCEPT !.sent = "acked"])

\* retire: the card's rows go, and its event is remembered as answered.
RetireCard(c) ==
    /\ card[c].init = "acked" /\ card[c].sent = "acked"
    /\ CardMoves(c, [card[c] EXCEPT !.init = "retired"])

FinalMoves(sent) ==
    /\ final' = [final EXCEPT !.sent = sent]
    /\ UNCHANGED <<pauses, cont, told, card, late, source, run, woken, here, owner, runtime, runs, lost>>

SendFinal ==
    /\ final.sent = "frozen" /\ here["agent"]
    /\ FinalMoves("attempted") /\ UNCHANGED troubles

AckFinal ==
    /\ final.sent = "attempted" /\ ~AnswerLost
    /\ FinalMoves("acked") /\ UNCHANGED troubles

\* The homeserver refuses the payload for good.
RefuseFinal ==
    /\ final.sent = "attempted" /\ ~AnswerLost /\ Trouble
    /\ FinalMoves("refused")

-----------------------------------------------------------------------------
(* Pausing: the continuation is created, then published.                   *)

delivery == <<card, late, final>>
world == <<here, owner, runtime>>

\* _suspend_for_approval: a pause that nobody has to decide is ready at once.
Create(plan) ==
    /\ run.pc = "paused" /\ source = "pending" /\ here["agent"]
    /\ LET gated == \E c \in pauses[1] : plan[c] = "open"
           new == [state |-> IF gated THEN "waiting" ELSE "ready", gen |-> 1,
                   lease |-> IF gated THEN runtime ELSE 0, why |-> "none"]
       IN  /\ cont' = new
           /\ told' = Told(plan)
           /\ run' = IF gated THEN [run EXCEPT !.pc = "publish", !.obs = new] ELSE Idle
           /\ woken' = (woken \/ ~gated)
    /\ UNCHANGED <<pauses, delivery, source, world, runs, troubles, lost>>

CreateRefused ==
    /\ run.pc = "paused" /\ ~(source = "pending" /\ here["agent"])
    /\ Done
    /\ UNCHANGED <<pauses, cont, told, delivery, source, world, runs, troubles, lost>>

HoldsLease == Exists /\ cont.state = "waiting" /\ cont.gen = run.obs.gen /\ cont.lease # 0

\* Every card of the generation is reserved and the lease is given up, in one
\* transaction; a generation without cards is only activated.
Publish ==
    /\ run.pc = "publish" /\ HoldsLease
    /\ Open # {} => here["router"]
    /\ card' = [c \in Calls |-> IF c \in Open THEN [NoCard EXCEPT !.init = "reserved"] ELSE card[c]]
    /\ cont' = [cont EXCEPT !.lease = 0, !.state = IF Open = {} THEN "ready" ELSE "waiting"]
    /\ run' = At("flush")
    /\ UNCHANGED <<pauses, told, late, final, source, woken, world, runs, troubles, lost>>

\* publish_generation reads the continuation again and wakes it if it can run.
Published ==
    /\ run.pc = "flush" /\ Exists
    /\ run' = Idle
    /\ woken' = (woken \/ ~run.first \/ cont.state = "ready")
    /\ UNCHANGED <<pauses, cont, told, delivery, source, world, runs, troubles, lost>>

CannotPublish ==
    \/ run.pc = "publish" /\ ~(HoldsLease /\ (Open # {} => here["router"]))
    \/ run.pc = "flush" /\ ~Exists

\* Publication failed or was cancelled. The first turn reads the row again
\* before it fences it; a chained pause fences the row it wrote.
PublicationFails ==
    /\ run.pc \in {"publish", "flush"}
    /\ Trouble \/ (CannotPublish /\ UNCHANGED troubles)
    /\ run' = IF run.first THEN At("load") ELSE FenceAs(run.obs, "idle")
    /\ UNCHANGED <<pauses, cont, told, delivery, source, woken, world, runs, lost>>

Load ==
    /\ run.pc = "load"
    /\ run' = IF Exists THEN FenceAs(cont, "idle") ELSE Idle
    /\ UNCHANGED <<pauses, cont, told, delivery, source, woken, world, runs, troubles, lost>>

\* request_failure on what the runner has seen, and what it does then.
Fence ==
    /\ run.pc = "fence"
    /\ LET fenced == StillAs(run.obs)
           settles == run.then = "stop" \/ (fenced /\ run.then = "settle")
       IN  /\ cont' = IF fenced THEN Failing("other") ELSE cont
           /\ run' = IF settles THEN At("settle") ELSE Idle
           /\ woken' = (woken \/ fenced \/ (~settles /\ ~run.first))
    /\ UNCHANGED <<pauses, told, delivery, source, world, runs, troubles, lost>>

-----------------------------------------------------------------------------
(* Resuming, from the worker's page of pending sources.                    *)

\* A plausible bug: a pause that is still being published is left alone.
EligibleOnceDecided ==
    /\ Exists /\ source = "pending"
    /\ \/ cont.state \in {"ready", "failing"}
       \/ cont.state = "claimed" /\ (cont.lease # runtime \/ final.kind # "none")

\* The clause of _pending_rows for a source that a continuation owns.
Eligible ==
    /\ Exists /\ source = "pending"
    /\ \/ cont.state \in {"ready", "failing"}
       \/ cont.state = "waiting" /\ cont.lease \notin {0, runtime}
       \/ cont.state = "claimed" /\ (cont.lease # runtime \/ final.kind # "none")

\* A pass of the worker hands an eligible source to a resume.
WorkerPass ==
    /\ woken /\ run.pc = "idle" /\ owner = "live"
    /\ woken' = FALSE
    /\ run' = IF Eligible THEN [Idle EXCEPT !.pc = "owned"] ELSE run
    /\ UNCHANGED <<pauses, cont, told, delivery, source, world, runs, troubles, lost>>

\* A plausible bug: the claim of a dead process is taken over and run.
TakeOver ==
    /\ run.pc = "owned" /\ cont.state \in {"ready", "claimed"}
    /\ cont' = [cont EXCEPT !.state = "claimed", !.lease = runtime]
    /\ run' = [run EXCEPT !.pc = "execute", !.obs = cont', !.orders = [c \in pauses[cont.gen] |-> told[c]]]
    /\ UNCHANGED <<pauses, told, delivery, source, woken, world, runs, troubles, lost>>

Claim ==
    /\ run.pc = "owned" /\ cont.state = "ready"
    /\ cont' = [cont EXCEPT !.state = "claimed", !.lease = runtime]
    /\ run' = [run EXCEPT !.pc = "execute", !.obs = cont', !.orders = [c \in pauses[cont.gen] |-> told[c]]]
    /\ UNCHANGED <<pauses, told, delivery, source, woken, world, runs, troubles, lost>>

\* The requester may not be allowed any more by the time everything is decided.
Unauthorized ==
    /\ run.pc = "owned" /\ cont.state = "ready" /\ Trouble
    /\ run' = FenceAs(cont, "settle")
    /\ UNCHANGED <<pauses, cont, told, delivery, source, woken, world, runs, lost>>

\* A publication the last process did not finish is never finished by this one.
OwnedWaiting ==
    /\ run.pc = "owned" /\ cont.state \in {"none", "waiting"}
    /\ IF cont.lease = 0 THEN Done ELSE run' = FenceAs(cont, "settle") /\ UNCHANGED woken
    /\ UNCHANGED <<pauses, cont, told, delivery, source, world, runs, troubles, lost>>

\* _recover_nonready_approval of a claim or a failure: a frozen answer is
\* delivered and finished, anything else is fenced and settled, and nothing is
\* run again.
OwnedStarted ==
    /\ run.pc = "owned" /\ cont.state \in {"claimed", "failing"}
    /\ IF final.kind = "answer" /\ FinalStands
       THEN Done /\ IF final.sent = "acked" THEN Release ELSE UNCHANGED <<cont, told, late, source>>
       ELSE /\ run' = IF cont.state = "failing" \/ final.kind # "none" THEN At("settle")
                                                                      ELSE FenceAs(cont, "settle")
            /\ UNCHANGED <<cont, told, late, source, woken>>
    /\ UNCHANGED <<pauses, card, final, world, runs, troubles, lost>>

-----------------------------------------------------------------------------
(* Executing a claimed generation.                                         *)

\* The run continues with the decisions the claim returned.
RunTools ==
    /\ run.pc = "execute"
    /\ runs' = [c \in Calls |-> IF c \in DOMAIN run.orders THEN Append(runs[c], run.orders[c]) ELSE runs[c]]
    /\ run' = [At("ran") EXCEPT !.orders = NoOrders]
    /\ UNCHANGED <<pauses, cont, told, delivery, source, woken, world, troubles, lost>>

\* The answer is frozen as the source's FINAL, unless the membership is over.
Answer ==
    /\ run.pc = "ran"
    /\ IF here["agent"]
       THEN final' = [kind |-> "answer", sent |-> "frozen"] /\ run' = At("deliver")
       ELSE run' = At("settle") /\ UNCHANGED final
    /\ UNCHANGED <<pauses, cont, told, card, late, source, woken, world, runs, troubles, lost>>

\* advance: the next generation keeps the claimant's lease until it is published.
PauseAgain(plan) ==
    /\ run.pc = "ran"
    /\ LET next == [cont EXCEPT !.state = "waiting", !.gen = run.obs.gen + 1]
       IN  IF cont.state = "claimed" /\ cont.gen = run.obs.gen
           THEN /\ cont' = next
                /\ told' = Told(plan)
                /\ run' = [run EXCEPT !.pc = "publish", !.obs = next]
           ELSE /\ run' = FenceAs(run.obs, "settle")
                /\ UNCHANGED <<cont, told>>
    /\ UNCHANGED <<pauses, delivery, source, woken, world, runs, troubles, lost>>

\* The run raises or is cancelled: the claim is fenced, and settled now or by a
\* later resume.
RunFails(then) ==
    /\ run.pc \in {"execute", "ran"} /\ Trouble
    /\ run' = FenceAs(run.obs, then)
    /\ UNCHANGED <<pauses, cont, told, delivery, source, woken, world, runs, lost>>

\* A FINAL that reached the room finishes the continuation; one that did not is
\* left to a later resume.
Deliver ==
    /\ run.pc = "deliver"
    /\ IF final.sent \in {"frozen", "attempted"} /\ ~AnswerLost THEN Trouble ELSE UNCHANGED troubles
    /\ IF final.sent = "acked" /\ Exists THEN Release ELSE UNCHANGED <<cont, told, late, source>>
    /\ Done
    /\ UNCHANGED <<pauses, card, final, world, runs, lost>>

-----------------------------------------------------------------------------
(* Settling a failure, and stopping.                                       *)

\* settle_failure fences what it finds, then expires every card the router
\* still owns; while one is left, settlement is left to a later resume.
Settle ==
    /\ run.pc = "settle"
    /\ IF ~Exists \/ (final.kind = "answer" /\ FinalStands)
       THEN Done /\ UNCHANGED <<cont, told, late, card>>
       ELSE IF cont.state # "failing"
       THEN run' = FenceAs(cont, "settle") /\ UNCHANGED <<cont, told, late, card, woken>>
       ELSE IF Visible = {}
       THEN run' = At("finish") /\ UNCHANGED <<cont, told, late, card, woken>>
       ELSE /\ Resolve({c \in Calls : Resolvable(c) /\ (card[c].init = "acked" \/ c \in late)}, "expired")
            /\ Done
    /\ UNCHANGED <<pauses, final, source, world, runs, troubles, lost>>

\* The text of the response, which the failure is added to, cannot be read, or a
\* call of the settlement raises: it is left to a later resume.
SettlementFails ==
    /\ run.pc = "settle" /\ Trouble
    /\ Done
    /\ UNCHANGED <<pauses, cont, told, delivery, source, world, runs, lost>>

\* Then the failure is shown: an edit of the response by the agent, or a notice
\* by the router when the agent is gone for good.
Finish ==
    /\ run.pc = "finish"
    /\ \/ /\ Exists /\ Delivered
          /\ Release /\ Done /\ UNCHANGED final
       \/ /\ Exists /\ ~Delivered /\ owner = "live"
          /\ final' = IF final.kind = "none" THEN [kind |-> "note", sent |-> "frozen"] ELSE final
          /\ run' = At("deliver")
          /\ UNCHANGED <<cont, told, late, source, woken>>
       \/ /\ Exists /\ ~Delivered /\ owner = "removed"
          /\ IF here["router"] THEN Release ELSE UNCHANGED <<cont, told, late, source>>
          /\ Done /\ UNCHANGED final
       \/ /\ ~Exists
          /\ Done /\ UNCHANGED <<cont, told, late, source, final>>
    /\ UNCHANGED <<pauses, card, world, runs, troubles, lost>>

\* The person stops the response while it waits.
Stop ==
    /\ run.pc = "idle" /\ Exists /\ owner = "live" /\ Trouble
    /\ run' = IF cont.state = "claimed" /\ FinalStands THEN [Idle EXCEPT !.pc = "owned"]
              ELSE [Idle EXCEPT !.pc = "fence", !.obs = cont, !.then = "stop"]
    /\ UNCHANGED <<pauses, cont, told, delivery, source, woken, world, runs, lost>>

\* The recovery pass for an owner that cannot run any more.
Discard ==
    /\ run.pc = "idle" /\ Exists /\ owner = "removed"
    /\ final.kind = "none" \/ Delivered
    /\ \/ /\ final.kind = "none" \/ final.sent = "refused"
          /\ run' = IF cont.state = "failing" \/ final.kind # "none" THEN [Idle EXCEPT !.pc = "settle"]
                    ELSE [Idle EXCEPT !.pc = "fence", !.obs = cont, !.then = "settle"]
          /\ UNCHANGED <<cont, told, late, source>>
       \/ /\ final.sent = "acked"
          /\ Release /\ UNCHANGED run
    /\ UNCHANGED <<pauses, card, final, woken, world, runs, troubles, lost>>

-----------------------------------------------------------------------------
(* Departures, removal and crashes.                                        *)

Undecided(c) == HasRow(c) /\ card[c].edit = "none"
Complete(c) == card[c].init = "acked" /\ card[c].sent = "acked"

\* A plausible bug: a departure leaves the cards as they are.
LeftAsTheyAre(c, decision) == card[c]

\* What a departure leaves of a card: answered ones are retired, unsent ones
\* go, and the others owe a terminal edit.
Departed(c, decision) ==
    IF Complete(c) THEN [card[c] EXCEPT !.init = "retired"]
    ELSE IF card[c].init = "reserved" THEN NoCard
    ELSE IF Undecided(c) THEN [card[c] EXCEPT !.edit = decision]
    ELSE card[c]

\* The router leaves: nobody can answer its cards, so the pause fails. Nothing
\* wakes the agent's worker.
RouterLeaves ==
    /\ here["router"] /\ Trouble
    /\ here' = [here EXCEPT !["router"] = FALSE]
    /\ cont' = IF cont.state \in {"waiting", "ready"} /\ \E c \in Calls : Undecided(c)
               THEN [cont EXCEPT !.state = "failing", !.lease = 0, !.why = "router"] ELSE cont
    /\ told' = [c \in Calls |-> IF Undecided(c) /\ told[c] = "open" THEN "denied" ELSE told[c]]
    /\ card' = [c \in Calls |-> Departed(c, "denied")]
    /\ late' = {c \in late : told'[c] = "open"}
    /\ UNCHANGED <<pauses, final, source, run, woken, owner, runtime, runs, lost>>

RouterReturns ==
    /\ ~here["router"]
    /\ here' = [here EXCEPT !["router"] = TRUE]
    /\ UNCHANGED <<pauses, cont, told, delivery, source, run, woken, owner, runtime, runs, troubles, lost>>

\* The agent leaves: its pause goes with the membership, its cards do not.
AgentLeaves ==
    /\ here["agent"] /\ Trouble
    /\ here' = [here EXCEPT !["agent"] = FALSE]
    /\ card' = IF Exists THEN [c \in Calls |-> Departed(c, "expired")] ELSE card
    /\ final' = IF final.sent = "frozen" THEN [final EXCEPT !.sent = "retired"] ELSE final
    /\ Release
    /\ UNCHANGED <<pauses, run, woken, owner, runtime, runs, lost>>

\* The configuration drops the agent, once its responses have drained.
Remove ==
    /\ owner = "live" /\ run.pc = "idle" /\ Trouble
    /\ owner' = "removed"
    /\ UNCHANGED <<pauses, cont, told, delivery, source, run, woken, here, runtime, runs, lost>>

\* The process dies. The next one scans every source, and a turn that was not
\* yet a continuation runs again. As another device it has to find in the room's
\* history what it sent before, and may not; as the same one it sends it again.
Crash ==
    /\ Trouble
    /\ runtime' = runtime + 1
    /\ run' = IF ~Exists /\ source = "pending" THEN [Idle EXCEPT !.pc = "paused", !.first = TRUE] ELSE Idle
    /\ woken' = TRUE
    /\ lost' \in [cards : SUBSET {c \in Calls : Outstanding(c)}, answer : {FALSE, final.sent = "attempted"}]
    /\ UNCHANGED <<pauses, cont, told, delivery, source, here, owner, runs>>

-----------------------------------------------------------------------------
RunnerStep ==
    \/ \E plan \in Plans(1) : Create(plan)
    \/ run.obs.gen < Len(pauses) /\ \E plan \in Plans(run.obs.gen + 1) : PauseAgain(plan)
    \/ CreateRefused \/ Publish \/ Published \/ PublicationFails \/ Load \/ Fence
    \/ Claim \/ OwnedWaiting \/ OwnedStarted \/ RunTools \/ Answer \/ Deliver
    \/ Settle \/ Finish

CardStep(c) ==
    SendCard(c) \/ AckCard(c) \/ SendEdit(c) \/ AckEdit(c) \/ RetireCard(c)

FinalStep == SendFinal \/ AckFinal

Next ==
    \/ RunnerStep \/ WorkerPass \/ Discard \/ FinalStep
    \/ \E c \in Calls :
          \/ CardStep(c) \/ BindOnClick(c) \/ Deadline(c) \/ SweepExpires(c)
          \/ \E status \in {"approved", "denied"} : Click(c, status)
    \/ \E then \in {"idle", "settle"} : RunFails(then)
    \/ Unauthorized \/ RefuseFinal \/ SettlementFails \/ Stop
    \/ RouterLeaves \/ RouterReturns \/ AgentLeaves \/ Remove \/ Crash

Spec == Init /\ [][Next]_vars

\* The event loop runs every task that can go on, the worker looks once it is
\* woken, the clock passes deadlines, and the homeserver answers a member. A
\* delivery that is lost is nobody's step: nothing is assumed of it.
FairSpec ==
    /\ Spec
    /\ WF_vars(RunnerStep) /\ WF_vars(WorkerPass) /\ WF_vars(Discard) /\ WF_vars(FinalStep)
    /\ WF_vars(here["router"] /\ \E c \in Calls : CardStep(c))
    /\ WF_vars(\E c \in Calls : Deadline(c)) /\ WF_vars(\E c \in Calls : SweepExpires(c))

-----------------------------------------------------------------------------
(* Properties.                                                             *)

Conts == [state : {"none", "waiting", "ready", "claimed", "failing"}, gen : DOMAIN pauses,
          lease : {0} \cup Runtimes, why : {"none", "other", "router"}]
CardRows == [init : {"none", "reserved", "attempted", "acked", "retired"},
             edit : {"none"} \cup Decisions, sent : {"none", "attempted", "acked"}]
Finals == [kind : {"none", "answer", "note"},
           sent : {"none", "frozen", "attempted", "acked", "refused", "retired"}]
Orders == {NoOrders} \cup UNION {[pauses[g] -> Decisions] : g \in DOMAIN pauses}
Runners == [pc : {"idle", "paused", "publish", "flush", "load", "fence", "owned", "execute", "ran",
                  "deliver", "settle", "finish"},
            first : BOOLEAN, obs : Conts, then : {"idle", "settle", "stop"}, orders : Orders]

\* The state has its type.
TypeOK ==
    /\ pauses \in Turns /\ cont \in Conts
    /\ told \in [Calls -> {"none", "open"} \cup Decisions]
    /\ card \in [Calls -> CardRows]
    /\ late \subseteq {c \in Calls : told[c] = "open"}
    /\ lost \in [cards : SUBSET Calls, answer : BOOLEAN]
    /\ final \in Finals /\ source \in {"pending", "settled"} /\ run \in Runners
    /\ woken \in BOOLEAN /\ here \in [{"agent", "router"} -> BOOLEAN]
    /\ owner \in {"live", "removed"} /\ runtime \in Runtimes
    /\ runs \in [Calls -> Seq(Decisions)]
    /\ troubles \in 0..MaxTroubles

\* A call is executed at most once, however often the process dies, a claim is
\* retried or a delivery fails (claim, _recover_claimed_approval_lifecycle).
RunsOnce == \A c \in Calls : Len(runs[c]) <= 1

\* What the run is told of a call is what its card shows: no tool runs whose card says denied or expired, and no
\* card says approved for a tool that was refused (_resolve_continuation).
RunsAsShown ==
    \A c \in Calls : \A i \in 1..Len(runs[c]) :
        card[c].init # "none" => card[c].edit = runs[c][i]

\* A card that still asks is one whose answer counts: it belongs to the current
\* generation of a continuation that is published and waits for this call
\* (reserve_deliveries, expire_cards_for_departed_continuations).
CardIsAnswerable ==
    \A c \in Calls : Undecided(c) =>
        /\ c \in Open
        /\ cont.state = "failing" \/ (cont.state = "waiting" /\ cont.lease = 0)

\* A source has exactly one owner until it is settled: the turn that paused on
\* it or its continuation (create, finish, discard_unavailable).
SourceIsOwned ==
    /\ source = "pending" => Exists \/ run.pc = "paused"
    /\ Exists => source = "pending" /\ run.pc # "paused"

\* An answer that was frozen is not turned into a failure (request_failure).
AnswerIsKept ==
    final.kind = "answer" /\ final.sent \in {"frozen", "attempted", "acked"} => cont.state \in {"none", "claimed"}

\* The invariant of pauses: types, one owner per source, no card that asks in
\* vain, and no frozen answer lost.
ApprovalsInv == TypeOK /\ SourceIsOwned /\ CardIsAnswerable /\ AnswerIsKept

\* What may keep a pause for good: the router's departure failed it and nothing
\* wakes the worker; its owner is removed and the router is away to say so; it
\* fails, and one of its cards is lost, so that it can neither be edited nor
\* given up; or its FINAL is lost.
MayStay ==
    \/ cont.why = "router" /\ ~woken /\ run.pc = "idle"
    \/ owner = "removed" /\ ~here["router"]
    \/ cont.state = "failing" /\ LostCards # {}
    \/ AnswerLost

\* A pause does not last: it is answered, or it fails and that is shown. One
\* that lasts is from some point on, and for ever, one of those that may stay.
EveryPauseSettles == []<>~Exists \/ <>[]MayStay

\* A card in the room does not go on asking: it is edited to what was decided
\* and retired, unless the router stays away or the card is lost for good.
CardsAreRetired ==
    \A c \in Calls :
        []<>(card[c].init \notin {"attempted", "acked"}) \/ <>[](~here["router"] \/ c \in LostCards)
=============================================================================
