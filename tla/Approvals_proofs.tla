--------------------------- MODULE Approvals_proofs ---------------------------
(***************************************************************************)
(* A tool call is executed at most once and as its card shows, a source    *)
(* has one owner, no card asks in vain and no frozen answer is lost, for   *)
(* any turn: any number of pauses, calls and failures.                     *)
(***************************************************************************)
EXTENDS Approvals, TLAPS

-----------------------------------------------------------------------------
(* The inductive invariant.                                                *)

\* No card asks any more.
NothingAsked == \A c \in Calls : ~Undecided(c)

\* Where there is no continuation there are no decisions, and before there was
\* one nothing has happened.
NoContShape ==
    ~Exists =>
        /\ cont = NoCont /\ told = NoCalls
        /\ source = "pending" => final = NoFinal /\ \A c \in Calls : card[c] = NoCard /\ runs[c] = <<>>

\* The calls of the current generation are planned, all decided once it is ready,
\* and not executed before it is claimed; those of later ones are untouched.
GenerationShape ==
    Exists =>
        /\ \A c \in pauses[cont.gen] :
            /\ told[c] # "none"
            /\ cont.state \in {"ready", "claimed"} => told[c] # "open"
            /\ cont.state \in {"waiting", "ready"} => runs[c] = <<>>
        /\ \A g \in DOMAIN pauses : g > cont.gen =>
            \A c \in pauses[g] : told[c] = "none" /\ card[c] = NoCard /\ runs[c] = <<>>

\* A card and the journal agree on what was decided.
CardShape ==
    \A c \in Calls :
        /\ card[c].init = "none" => card[c] = NoCard
        /\ card[c].sent # "none" \/ card[c].init = "retired" => card[c].edit # "none"
        /\ Exists /\ card[c].init # "none" =>
               told[c] = IF card[c].edit = "none" THEN "open" ELSE card[c].edit

\* What a call is told when it is executed: it was not executed before, and its
\* card shows this.
Ordered(c) ==
    runs[c] = <<>> /\ (card[c].init # "none" => card[c].edit = run.orders[c])

\* A run works on the continuation it claimed, unless that is gone; settling
\* comes to its end when nothing is asked.
RunnerShape ==
    /\ run.pc \in {"execute", "ran"} =>
        run.obs.state = "claimed" /\ (Exists => cont = run.obs) /\ final = NoFinal
    /\ run.pc = "execute" =>
        run.orders \in [pauses[run.obs.gen] -> Decisions] /\ \A c \in pauses[run.obs.gen] : Ordered(c)
    /\ run.pc = "finish" => NothingAsked /\ cont.state \in {"none", "failing"}

\* A FINAL is of a pause that runs or failed, and a note of one that asks nothing.
FinalShape ==
    /\ final.kind = "none" <=> final.sent = "none"
    /\ final.kind # "none" => cont.state \notin {"waiting", "ready"}
    /\ final.kind = "note" => cont.state # "claimed" /\ NothingAsked

\* An agent that left has no pause, and a router that left nobody to ask.
HereShape ==
    /\ ~here["agent"] => ~Exists /\ source = "settled"
    /\ ~here["router"] => NothingAsked

\* The inductive invariant: what is to be shown and what it rests on.
IInv ==
    /\ ApprovalsInv /\ RunsOnce /\ RunsAsShown
    /\ NoContShape /\ GenerationShape /\ CardShape /\ RunnerShape /\ FinalShape /\ HereShape
    /\ runtime <= troubles + 1

-----------------------------------------------------------------------------
(* The turn and the types of what is written.                              *)

\* A turn pauses at least once, on calls that differ from pause to pause.
LEMMA PausesFacts ==
    ASSUME pauses \in Turns
    PROVE  /\ 1 \in DOMAIN pauses /\ DOMAIN pauses \subseteq Nat
           /\ \A g \in DOMAIN pauses : pauses[g] \subseteq Calls
           /\ \A g, h \in DOMAIN pauses : g # h => pauses[g] \cap pauses[h] = {}
           /\ \A g \in DOMAIN pauses : g < Len(pauses) => g + 1 \in DOMAIN pauses
<1>1. pauses \in Seq(SUBSET Calls) /\ pauses # <<>>
  BY ApprovalsAssumption
<1>2. DOMAIN pauses = 1..Len(pauses) /\ Len(pauses) \in Nat \ {0}
  BY <1>1
<1>3. \A g \in DOMAIN pauses : pauses[g] \in SUBSET Calls
  BY <1>1
<1> QED BY <1>2, <1>3, ApprovalsAssumption

\* No step changes the turn.
LEMMA PausesStand ==
    ASSUME [Next]_vars
    PROVE  pauses' = pauses
<1>1. CASE RunnerStep
  BY <1>1 DEF RunnerStep, Create, PauseAgain, CreateRefused, Publish, Published, PublicationFails, Load,
              Fence, Claim, OwnedWaiting, OwnedStarted, RunTools, Answer, Deliver, Settle, Finish
<1>2. CASE WorkerPass \/ Discard \/ FinalStep
  BY <1>2 DEF WorkerPass, Discard, FinalStep, SendFinal, AckFinal, FinalMoves
<1>3. ASSUME NEW c \in Calls,
             CardStep(c) \/ BindOnClick(c) \/ Deadline(c) \/ SweepExpires(c) \/ \E status \in {"approved", "denied"} : Click(c, status)
      PROVE  pauses' = pauses
  BY <1>3 DEF CardStep, SendCard, AckCard, BindOnClick, SendEdit, AckEdit, RetireCard, CardMoves, Deadline,
              SweepExpires, Click
<1>4. CASE (\E then \in {"idle", "settle"} : RunFails(then)) \/ Unauthorized \/ RefuseFinal \/ SettlementFails \/ Stop
  BY <1>4 DEF RunFails, Unauthorized, RefuseFinal, SettlementFails, Stop, FinalMoves
<1>5. CASE RouterLeaves \/ RouterReturns \/ AgentLeaves \/ Remove \/ Crash
  BY <1>5 DEF RouterLeaves, RouterReturns, AgentLeaves, Remove, Crash
<1>6. CASE UNCHANGED vars
  BY <1>6 DEF vars
<1> QED BY <1>1, <1>2, <1>3, <1>4, <1>5, <1>6 DEF Next

\* Only a card that moves and a crash change what is lost.
LEMMA LostStep ==
    ASSUME TypeOK, [Next]_vars
    PROVE  lost' \in [cards : SUBSET Calls, answer : BOOLEAN]
<1>0. lost \in [cards : SUBSET Calls, answer : BOOLEAN]
  BY DEF TypeOK
<1>1. CASE RunnerStep
  BY <1>0, <1>1 DEF RunnerStep, Create, PauseAgain, CreateRefused, Publish, Published, PublicationFails, Load,
              Fence, Claim, OwnedWaiting, OwnedStarted, RunTools, Answer, Deliver, Settle, Finish
<1>2. CASE WorkerPass \/ Discard \/ FinalStep
  BY <1>0, <1>2 DEF WorkerPass, Discard, FinalStep, SendFinal, AckFinal, FinalMoves
<1>3. ASSUME NEW c \in Calls, CardStep(c) \/ BindOnClick(c)
      PROVE  lost' \in [cards : SUBSET Calls, answer : BOOLEAN]
  <2>1. lost' = [lost EXCEPT !.cards = @ \ {c}]
    BY <1>3 DEF CardStep, SendCard, AckCard, BindOnClick, SendEdit, AckEdit, RetireCard, CardMoves
  <2> QED BY <1>0, <2>1
<1>4. ASSUME NEW c \in Calls,
             Deadline(c) \/ SweepExpires(c) \/ \E status \in {"approved", "denied"} : Click(c, status)
      PROVE  lost' = lost
  BY <1>4 DEF Deadline, SweepExpires, Click
<1>5. CASE (\E then \in {"idle", "settle"} : RunFails(then)) \/ Unauthorized \/ RefuseFinal \/ SettlementFails \/ Stop
  BY <1>0, <1>5 DEF RunFails, Unauthorized, RefuseFinal, SettlementFails, Stop, FinalMoves
<1>6. CASE RouterLeaves \/ RouterReturns \/ AgentLeaves \/ Remove
  BY <1>0, <1>6 DEF RouterLeaves, RouterReturns, AgentLeaves, Remove
<1>7. CASE Crash
  BY <1>7 DEF Crash
<1>8. CASE UNCHANGED vars
  BY <1>0, <1>8 DEF vars
<1> QED BY <1>0, <1>1, <1>2, <1>3, <1>4, <1>5, <1>6, <1>7, <1>8 DEF Next

\* So the types that depend on the turn do not change either.
LEMMA TypesStand ==
    ASSUME pauses' = pauses
    PROVE  Conts' = Conts /\ Runners' = Runners
<1>1. Conts' = Conts
  BY DEF Conts
<1>2. Orders' = Orders
  BY DEF Orders
<1> QED BY <1>1, <1>2 DEF Runners

\* What the runner becomes has its type.
LEMMA RunnerTypes ==
    ASSUME TypeOK
    PROVE  /\ NoCont \in Conts /\ Idle \in Runners /\ Idle.pc = "idle"
           /\ \A pc \in {"load", "owned", "settle", "deliver", "finish", "flush", "ran"} :
                  At(pc) \in Runners /\ At(pc).pc = pc
           /\ \A pc \in {"paused", "owned", "settle"} :
                  [Idle EXCEPT !.pc = pc] \in Runners /\ [Idle EXCEPT !.pc = pc].pc = pc
           /\ \A seen \in Conts : \A then \in {"idle", "settle"} :
                  FenceAs(seen, then) \in Runners /\ FenceAs(seen, then).pc = "fence"
<1>1. NoCont \in Conts
  BY PausesFacts DEF TypeOK, NoCont, Conts
<1>2. NoOrders \in Orders
  BY DEF Orders
<1>3. Idle \in Runners /\ Idle.pc = "idle"
  BY <1>1, <1>2 DEF Idle, Runners
<1>4. run \in Runners
  BY DEF TypeOK
<1>5. \A pc \in {"load", "owned", "settle", "deliver", "finish", "flush", "ran"} :
          At(pc) \in Runners /\ At(pc).pc = pc
  BY <1>4 DEF At, Runners
<1>6. \A pc \in {"paused", "owned", "settle"} :
          [Idle EXCEPT !.pc = pc] \in Runners /\ [Idle EXCEPT !.pc = pc].pc = pc
  <2> HIDE DEF Idle
  <2> QED BY <1>3 DEF Runners
<1>7. ASSUME NEW seen \in Conts, NEW then \in {"idle", "settle"}
      PROVE  FenceAs(seen, then) \in Runners /\ FenceAs(seen, then).pc = "fence"
  <2>1. [run EXCEPT !.pc = "fence"] \in Runners
    BY <1>4 DEF Runners
  <2>2. [run EXCEPT !.pc = "fence", !.obs = seen] \in Runners
    BY <2>1 DEF Runners
  <2>3. [run EXCEPT !.pc = "fence", !.obs = seen, !.then = then] \in Runners
    BY <2>2 DEF Runners
  <2>4. [run EXCEPT !.pc = "fence", !.obs = seen, !.then = then].pc = "fence"
    BY <1>4 DEF Runners
  <2> QED BY <2>3, <2>4 DEF FenceAs
<1> QED BY <1>1, <1>3, <1>5, <1>6, <1>7

\* A fence that starts from an idle runner.
LEMMA FenceFromIdle ==
    ASSUME TypeOK, NEW then \in {"settle", "stop"}
    PROVE  /\ [Idle EXCEPT !.pc = "fence", !.obs = cont, !.then = then] \in Runners
           /\ [Idle EXCEPT !.pc = "fence", !.obs = cont, !.then = then].pc = "fence"
<1>1. Idle \in Runners /\ cont \in Conts
  BY RunnerTypes DEF TypeOK
<1> HIDE DEF Idle
<1>2. [Idle EXCEPT !.pc = "fence"] \in Runners
  BY <1>1 DEF Runners
<1>3. [Idle EXCEPT !.pc = "fence", !.obs = cont] \in Runners
  BY <1>1, <1>2 DEF Runners
<1>4. [Idle EXCEPT !.pc = "fence", !.obs = cont, !.then = then] \in Runners
  BY <1>3 DEF Runners
<1> QED BY <1>1, <1>4 DEF Runners

-----------------------------------------------------------------------------
(* What a step may do. Steps of different handlers that have the same       *)
(* effect on the continuation, the cards and the FINAL are one case below.  *)

\* A card or its edit makes its way to the room.
Moves(c) ==
    /\ card[c].init # "none"
    /\ \E new \in CardRows :
        /\ card' = [card EXCEPT ![c] = new]
        /\ new.init # "none" /\ new.edit = card[c].edit
        /\ new.sent # "none" \/ new.init = "retired" => new.edit # "none"
        /\ new.edit = "none" => HasRow(c)
    /\ UNCHANGED <<cont, told, late, final, source, run, here, runs>>

\* Calls are decided, on the card and in the journal alike.
Decides(S) ==
    /\ \A c \in S : c \in Calls /\ Resolvable(c)
    /\ \E d \in [S -> Decisions] :
        /\ told' = [c \in Calls |-> IF c \in S THEN d[c] ELSE told[c]]
        /\ card' = [c \in Calls |-> IF c \in S THEN [card[c] EXCEPT !.edit = d[c]] ELSE card[c]]
    /\ late' = late \ S
    /\ \/ cont' = cont
       \/ /\ cont' = [cont EXCEPT !.state = "ready"] /\ cont.state = "waiting"
          /\ \A c \in pauses[cont.gen] : told'[c] # "open"
    /\ run' = run \/ (run' = Idle /\ run.pc # "paused")
    /\ UNCHANGED <<final, source, here, runs>>

\* A deadline passes.
Lapses ==
    /\ \E c \in Calls : told[c] = "open" /\ late' = late \cup {c}
    /\ UNCHANGED <<cont, told, card, final, source, run, here, runs>>

\* The FINAL makes its way to the room.
Sends ==
    /\ final.sent \in {"frozen", "attempted"}
    /\ \E sent \in {"attempted", "acked", "refused"} : final' = [final EXCEPT !.sent = sent]
    /\ UNCHANGED <<cont, told, card, late, source, run, here, runs>>

\* The runner goes on, and nothing else happens.
Walks ==
    /\ run' \in Runners
    /\ \/ run' = run
       \/ /\ run'.pc \in {"idle", "load", "fence", "owned", "settle", "deliver", "finish"}
          /\ run.pc = "paused" => source = "settled"
          /\ run'.pc = "finish" => NothingAsked /\ cont.state \in {"none", "failing"}
    /\ UNCHANGED <<cont, told, card, late, final, source, here, runs>>

\* The pause fails.
Fails ==
    /\ Exists /\ ~FinalStands /\ run.pc = "fence" /\ run'.pc \in {"settle", "idle"} /\ run' \in Runners
    /\ cont' = Failing("other")
    /\ UNCHANGED <<told, card, late, final, source, here, runs>>

\* The pause is over.
Ends ==
    /\ Release /\ NothingAsked /\ Exists
    /\ run' \in Runners /\ run'.pc = "idle"
    /\ UNCHANGED <<card, final, here, runs>>

\* A failure is about to be shown.
Notes ==
    /\ run.pc = "finish" /\ Exists /\ final.kind = "none"
    /\ final' = [kind |-> "note", sent |-> "frozen"] /\ run' = At("deliver")
    /\ UNCHANGED <<cont, told, card, late, source, here, runs>>

\* The answer is frozen.
Freezes ==
    /\ run.pc = "ran" /\ here["agent"]
    /\ final' = [kind |-> "answer", sent |-> "frozen"] /\ run' = At("deliver")
    /\ UNCHANGED <<cont, told, card, late, source, here, runs>>

\* The next generation is written.
Advances(plan) ==
    /\ run.pc = "ran" /\ cont.state = "claimed" /\ cont.gen = run.obs.gen /\ cont.gen + 1 \in DOMAIN pauses
    /\ plan \in Plans(cont.gen + 1)
    /\ cont' = [cont EXCEPT !.state = "waiting", !.gen = cont.gen + 1]
    /\ told' = Told(plan)
    /\ run' = [run EXCEPT !.pc = "publish", !.obs = cont']
    /\ UNCHANGED <<card, late, final, source, here, runs>>

-----------------------------------------------------------------------------
(* Every step is one of these.                                             *)

\* The delivery of a card.
LEMMA CardCases ==
    ASSUME IInv, NEW c \in Calls, CardStep(c) \/ BindOnClick(c)
    PROVE  Moves(c)
<1>0. card[c] \in CardRows /\ CardShape
  BY DEF IInv, ApprovalsInv, TypeOK
<1>1. PICK new : CardMoves(c, new) /\ \/ HasRow(c) /\ card[c].init = "reserved" /\ new = [card[c] EXCEPT !.init = "attempted"]
                                      \/ HasRow(c) /\ card[c].init = "attempted" /\ new = [card[c] EXCEPT !.init = "acked"]
                                      \/ HasRow(c) /\ card[c].edit # "none" /\ new = [card[c] EXCEPT !.sent = "attempted"]
                                      \/ card[c].sent = "attempted" /\ new = [card[c] EXCEPT !.sent = "acked"]
                                      \/ HasRow(c) /\ card[c].sent = "acked" /\ new = [card[c] EXCEPT !.init = "retired"]
  BY DEF CardStep, SendCard, AckCard, BindOnClick, SendEdit, AckEdit, RetireCard, HasRow
<1>2. card[c].sent # "none" => card[c].edit # "none" /\ card[c].init # "none"
  <2>1. card[c].init = "none" => card[c].sent = "none"
    BY <1>0 DEF CardShape, NoCard
  <2> QED BY <1>0, <2>1 DEF CardShape
<1>3. new \in CardRows /\ new.edit = card[c].edit /\ new.init # "none" /\ card[c].init # "none"
  BY <1>0, <1>1, <1>2 DEF CardRows, HasRow
<1>4. new.sent # "none" \/ new.init = "retired" => new.edit # "none"
  BY <1>0, <1>1, <1>2 DEF CardRows, HasRow
<1>5. new.edit = "none" => HasRow(c)
  BY <1>1, <1>2, <1>3
<1> QED BY <1>1, <1>3, <1>4, <1>5 DEF Moves, CardMoves

\* A decision on some calls.
LEMMA ResolveCases ==
    ASSUME IInv, NEW S \in SUBSET Calls, \A c \in S : Resolvable(c),
           NEW requested \in Decisions, Resolve(S, requested),
           run' = run \/ (run' = Idle /\ run.pc # "paused"),
           UNCHANGED <<final, source, here, runs>>
    PROVE  Decides(S)
<1> DEFINE d == [c \in S |-> Effective(c, requested)]
<1>1. d \in [S -> Decisions]
  BY DEF Effective, Decisions
<1>2. Told(d) = [c \in Calls |-> IF c \in S THEN d[c] ELSE told[c]]
  BY DEF Told
<1>3. told' = Told(d) /\ late' = late \ S
  BY DEF Resolve
<1>4. card' = [c \in Calls |-> IF c \in S THEN [card[c] EXCEPT !.edit = d[c]] ELSE card[c]]
  BY <1>2 DEF Resolve
<1>5. \/ cont' = cont
      \/ /\ cont' = [cont EXCEPT !.state = "ready"] /\ cont.state = "waiting"
         /\ \A c \in pauses[cont.gen] : told'[c] # "open"
  BY <1>3 DEF Resolve
<1> HIDE DEF d
<1> QED BY <1>1, <1>2, <1>3, <1>4, <1>5 DEF Decides

\* A step of a resume that owns the source.
LEMMA OwnedCases ==
    ASSUME IInv, OwnedWaiting \/ OwnedStarted \/ Unauthorized
    PROVE  Walks \/ Ends
<1>0. TypeOK /\ cont \in Conts /\ run \in Runners /\ AnswerIsKept /\ CardIsAnswerable
  BY DEF IInv, ApprovalsInv, TypeOK
<1> USE RunnerTypes
<1>1. CASE OwnedWaiting \/ Unauthorized
  BY <1>0, <1>1 DEF OwnedWaiting, Unauthorized, Done, Walks, delivery, world
<1>2. CASE OwnedStarted /\ final.kind = "answer" /\ FinalStands /\ final.sent = "acked"
  <2>1. Release /\ Done /\ UNCHANGED <<card, final, here, runs>> /\ cont.state \in {"claimed", "failing"}
    BY <1>2 DEF OwnedStarted, world
  <2>2. cont.state = "claimed"
    BY <1>0, <1>2, <2>1 DEF AnswerIsKept
  <2>3. NothingAsked /\ Exists
    BY <1>0, <2>2 DEF CardIsAnswerable, NothingAsked, Exists
  <2> QED BY <1>0, <2>1, <2>3 DEF Ends, Done
<1>3. CASE OwnedStarted /\ ~(final.kind = "answer" /\ FinalStands /\ final.sent = "acked")
  <2>1. UNCHANGED <<cont, told, card, late, final, source, here, runs>> /\ run.pc = "owned"
    BY <1>3 DEF OwnedStarted, world
  <2>2. run' \in {Idle, At("settle"), FenceAs(cont, "settle")}
    BY <1>3 DEF OwnedStarted, Done
  <2> QED BY <1>0, <2>1, <2>2 DEF Walks
<1> QED BY <1>1, <1>2, <1>3

\* A step of a run that has executed its calls.
LEMMA RanCases ==
    ASSUME IInv
    PROVE  /\ Answer => Walks \/ Freezes
           /\ \A then \in {"idle", "settle"} : RunFails(then) => Walks
           /\ Deliver => Walks \/ Ends
           /\ \A plan : run.obs.gen < Len(pauses) /\ plan \in Plans(run.obs.gen + 1) /\ PauseAgain(plan)
                            => Walks \/ Advances(plan)
<1>0. /\ TypeOK /\ cont \in Conts /\ run \in Runners /\ AnswerIsKept /\ CardIsAnswerable /\ FinalShape
      /\ pauses \in Turns /\ final \in Finals /\ run.obs \in Conts
  BY DEF IInv, ApprovalsInv, TypeOK, Runners
<1> USE RunnerTypes
<1>1. ASSUME Answer PROVE Walks \/ Freezes
  BY <1>0, <1>1 DEF Answer, Walks, Freezes, world
<1>2. ASSUME NEW then \in {"idle", "settle"}, RunFails(then) PROVE Walks
  BY <1>0, <1>2 DEF RunFails, Walks, delivery, world
<1>3. ASSUME Deliver PROVE Walks \/ Ends
  <2>1. run.pc = "deliver" /\ run' = Idle /\ UNCHANGED <<card, final, here, runs>>
    BY <1>3 DEF Deliver, Done, world
  <2>2. CASE final.sent = "acked" /\ Exists
    <3>1. final.kind \in {"answer", "note"}
      BY <1>0, <2>2 DEF FinalShape, Finals
    <3>2. NothingAsked
      BY <1>0, <2>2, <3>1 DEF AnswerIsKept, FinalShape, CardIsAnswerable, NothingAsked, Exists
    <3>3. Release
      BY <1>3, <2>2 DEF Deliver
    <3> QED BY <1>0, <2>1, <2>2, <3>2, <3>3 DEF Ends
  <2>3. CASE ~(final.sent = "acked" /\ Exists)
    <3>1. UNCHANGED <<cont, told, late, source>>
      BY <1>3, <2>3 DEF Deliver
    <3> QED BY <1>0, <2>1, <3>1 DEF Walks
  <2> QED BY <2>2, <2>3
<1>4. ASSUME NEW plan, run.obs.gen < Len(pauses), plan \in Plans(run.obs.gen + 1), PauseAgain(plan)
      PROVE  Walks \/ Advances(plan)
  <2>0. run.obs.gen \in DOMAIN pauses /\ run.obs.gen + 1 \in DOMAIN pauses
    BY <1>0, <1>4, PausesFacts DEF Conts
  <2>1. CASE cont.state = "claimed" /\ cont.gen = run.obs.gen
    <3> DEFINE next == [cont EXCEPT !.state = "waiting", !.gen = cont.gen + 1]
    <3>1. next = [cont EXCEPT !.state = "waiting", !.gen = run.obs.gen + 1]
      BY <2>1
    <3> HIDE DEF next
    <3>2. cont' = next /\ told' = Told(plan) /\ run' = [run EXCEPT !.pc = "publish", !.obs = next]
      BY <1>4, <2>1, <3>1 DEF PauseAgain
    <3>3. run.pc = "ran" /\ UNCHANGED <<card, late, final, source, here, runs>>
      BY <1>4 DEF PauseAgain, delivery, world
    <3>4. plan \in Plans(cont.gen + 1) /\ cont.gen + 1 \in DOMAIN pauses
      BY <1>4, <2>0, <2>1
    <3> QED BY <2>1, <3>2, <3>3, <3>4 DEF Advances, next
  <2>2. CASE ~(cont.state = "claimed" /\ cont.gen = run.obs.gen)
    <3>1. /\ UNCHANGED <<cont, told, card, late, final, source, here, runs>>
          /\ run.pc = "ran" /\ run' = FenceAs(run.obs, "settle")
      BY <1>4, <2>2 DEF PauseAgain, delivery, world
    <3> QED BY <1>0, <3>1 DEF Walks
  <2> QED BY <2>1, <2>2
<1> QED BY <1>1, <1>2, <1>3, <1>4

\* A step that settles a failure.
LEMMA SettleCases ==
    ASSUME IInv
    PROVE  /\ Fence => Walks \/ Fails
           /\ Settle => Walks \/ \E S : Decides(S)
           /\ Finish => Walks \/ Ends \/ Notes
           /\ Discard => Walks \/ Ends
<1>0. /\ TypeOK /\ cont \in Conts /\ run \in Runners /\ AnswerIsKept /\ CardIsAnswerable /\ FinalShape
      /\ final \in Finals /\ RunnerShape /\ HereShape /\ card \in [Calls -> CardRows]
  BY DEF IInv, ApprovalsInv, TypeOK
<1> USE RunnerTypes
<1>1. ASSUME Fence PROVE Walks \/ Fails
  <2>1. run.pc = "fence" /\ UNCHANGED <<told, card, late, final, source, here, runs>>
    BY <1>1 DEF Fence, delivery, world
  <2>2. run' \in {At("settle"), Idle}
    BY <1>1 DEF Fence
  <2>3. cont' = cont \/ (StillAs(run.obs) /\ cont' = Failing("other"))
    BY <1>1 DEF Fence
  <2> QED BY <1>0, <2>1, <2>2, <2>3 DEF Walks, Fails, StillAs
<1>2. ASSUME Settle PROVE Walks \/ \E S : Decides(S)
  <2>0. run.pc = "settle" /\ UNCHANGED <<final, source, here, runs>>
    BY <1>2 DEF Settle, world
  <2> DEFINE S == {c \in Calls : Resolvable(c) /\ (card[c].init = "acked" \/ c \in late)}
  <2>1. CASE Resolve(S, "expired") /\ Done
    <3>1. S \in SUBSET Calls /\ \A c \in S : Resolvable(c)
      OBVIOUS
    <3>2. Resolve(S, "expired") /\ run' = Idle
      BY <2>1 DEF Done
    <3> HIDE DEF S
    <3>3. Decides(S)
      BY <2>0, <3>1, <3>2, ResolveCases DEF Decisions
    <3> QED BY <3>3
  <2>2. CASE run' = At("finish") /\ cont.state = "failing" /\ Visible = {} /\ UNCHANGED <<cont, told, late, card>>
    <3>1. NothingAsked
      BY <1>0, <2>2 DEF Visible, HereShape, NothingAsked, Undecided
    <3> QED BY <1>0, <2>0, <2>2, <3>1 DEF Walks
  <2>3. CASE run' \in {Idle, FenceAs(cont, "settle")} /\ UNCHANGED <<cont, told, late, card>>
    BY <1>0, <2>0, <2>3 DEF Walks
  <2> QED BY <1>2, <2>1, <2>2, <2>3 DEF Settle, Done
<1>3. ASSUME Finish PROVE Walks \/ Ends \/ Notes
  <2>1. run.pc = "finish" /\ NothingAsked /\ UNCHANGED <<card, here, runs>>
    BY <1>0, <1>3 DEF Finish, RunnerShape, world
  <2>2. CASE Exists /\ Release /\ run' = Idle /\ UNCHANGED final
    BY <1>0, <2>1, <2>2 DEF Ends
  <2>3. CASE Exists /\ final.kind = "none" /\ final' = [kind |-> "note", sent |-> "frozen"] /\ run' = At("deliver")
             /\ UNCHANGED <<cont, told, late, source>>
    BY <2>1, <2>3 DEF Notes
  <2>4. CASE run' \in {Idle, At("deliver")} /\ UNCHANGED <<cont, told, late, source, final>>
    BY <1>0, <2>1, <2>4 DEF Walks
  <2> QED BY <1>3, <2>2, <2>3, <2>4 DEF Finish, Done
<1>4. ASSUME Discard PROVE Walks \/ Ends
  <2>0. run.pc = "idle" /\ Exists /\ UNCHANGED <<card, final, here, runs>>
    BY <1>4 DEF Discard, world
  <2>1. CASE final.sent = "acked" /\ Release /\ UNCHANGED run
    <3>1. final.kind \in {"answer", "note"}
      BY <1>0, <2>1 DEF FinalShape, Finals
    <3>2. NothingAsked
      BY <1>0, <2>0, <2>1, <3>1 DEF AnswerIsKept, FinalShape, CardIsAnswerable, NothingAsked, Exists
    <3> QED BY <1>0, <2>0, <2>1, <3>2 DEF Ends
  <2>2. CASE /\ run' \in {[Idle EXCEPT !.pc = "settle"], [Idle EXCEPT !.pc = "fence", !.obs = cont, !.then = "settle"]}
             /\ UNCHANGED <<cont, told, late, source>>
    <3>1. /\ [Idle EXCEPT !.pc = "fence", !.obs = cont, !.then = "settle"] \in Runners
          /\ [Idle EXCEPT !.pc = "fence", !.obs = cont, !.then = "settle"].pc = "fence"
      BY <1>0, FenceFromIdle
    <3> QED BY <1>0, <2>0, <2>2, <3>1 DEF Walks
  <2> QED BY <1>4, <2>1, <2>2 DEF Discard
<1> QED BY <1>1, <1>2, <1>3, <1>4

\* Every step is one of the cases above, or one that is a case of its own.
LEMMA StepCases ==
    ASSUME IInv, [Next]_vars
    PROVE  \/ \E c \in Calls : Moves(c)
           \/ \E S : Decides(S)
           \/ Lapses \/ Sends \/ Walks \/ Fails \/ Ends \/ Notes \/ Freezes
           \/ \E plan : Advances(plan)
           \/ \E plan \in Plans(1) : Create(plan)
           \/ Publish \/ Claim \/ RunTools \/ RouterLeaves \/ RouterReturns \/ AgentLeaves \/ Crash
<1>0. TypeOK /\ run \in Runners /\ cont \in Conts /\ HereShape /\ run.obs \in Conts
  BY DEF IInv, ApprovalsInv, TypeOK, Runners
<1> USE RunnerTypes
<1>1. ASSUME CreateRefused \/ Published \/ PublicationFails \/ Load \/ WorkerPass PROVE Walks
  <2>1. CASE CreateRefused
    BY <1>0, <2>1 DEF CreateRefused, Walks, Done, HereShape, delivery, world, TypeOK
  <2>2. CASE Published \/ PublicationFails \/ Load
    BY <1>0, <2>2 DEF Published, PublicationFails, Load, Walks, delivery, world
  <2>3. CASE WorkerPass
    BY <1>0, <2>3 DEF WorkerPass, Walks, delivery, world
  <2> QED BY <1>1, <2>1, <2>2, <2>3
<1>2. ASSUME Stop \/ Remove \/ SettlementFails PROVE Walks
  <2>1. CASE Stop
    <3>1. /\ [Idle EXCEPT !.pc = "fence", !.obs = cont, !.then = "stop"] \in Runners
          /\ [Idle EXCEPT !.pc = "fence", !.obs = cont, !.then = "stop"].pc = "fence"
      BY <1>0, FenceFromIdle
    <3> QED BY <1>0, <2>1, <3>1 DEF Stop, Walks, delivery, world
  <2>2. CASE Remove
    BY <1>0, <2>2 DEF Remove, Walks, delivery
  <2>3. CASE SettlementFails
    BY <1>0, <2>3 DEF SettlementFails, Done, Walks, delivery, world
  <2> QED BY <1>2, <2>1, <2>2, <2>3
<1>3. ASSUME RefuseFinal \/ FinalStep PROVE Sends
  BY <1>3 DEF RefuseFinal, FinalStep, SendFinal, AckFinal, FinalMoves, Sends
<1>4. ASSUME NEW c \in Calls, Deadline(c) PROVE Lapses
  BY <1>4 DEF Deadline, Lapses
<1>5. ASSUME NEW c \in Calls, SweepExpires(c) \/ \E status \in {"approved", "denied"} : Click(c, status)
      PROVE  Decides({c})
  <2>1. PICK r \in Decisions : Resolve({c}, r) /\ Resolvable(c)
    BY <1>5 DEF SweepExpires, Click, Decisions
  <2>2. run' = run /\ UNCHANGED <<final, source, here, runs>>
    BY <1>5 DEF SweepExpires, Click
  <2> QED BY <2>1, <2>2, ResolveCases
<1>6. CASE RunnerStep
  BY <1>1, <1>6, OwnedCases, RanCases, SettleCases DEF RunnerStep
<1>7. CASE UNCHANGED vars
  BY <1>0, <1>7 DEF vars, Walks
<1> QED BY <1>1, <1>2, <1>3, <1>4, <1>5, <1>6, <1>7, CardCases, OwnedCases, RanCases, SettleCases DEF Next

-----------------------------------------------------------------------------
(* Types.                                                                  *)

\* Processes are counted by the crashes, which are troubles.
LEMMA ClockStep ==
    ASSUME IInv, [Next]_vars
    PROVE  /\ woken' \in BOOLEAN /\ owner' \in {"live", "removed"}
           /\ runtime' \in Runtimes /\ troubles' \in 0..MaxTroubles /\ runtime' <= troubles' + 1
<1>0. /\ woken \in BOOLEAN /\ owner \in {"live", "removed"} /\ runtime \in Runtimes
      /\ troubles \in 0..MaxTroubles /\ runtime <= troubles + 1 /\ run.first \in BOOLEAN
  BY DEF IInv, ApprovalsInv, TypeOK, Runners
<1>1. woken' \in BOOLEAN /\ owner' \in {"live", "removed"}
      /\ (troubles' = troubles \/ (troubles < MaxTroubles /\ troubles' = troubles + 1))
      /\ (runtime' = runtime \/ (runtime' = runtime + 1 /\ Trouble))
  <2>1. CASE RunnerStep
    <3>1. ASSUME NEW plan, Create(plan) \/ PauseAgain(plan)
          PROVE  UNCHANGED <<owner, runtime, troubles>> /\ woken' \in BOOLEAN
      BY <1>0, <3>1 DEF Create, PauseAgain, world
    <3>2. CASE CreateRefused \/ Publish \/ Published \/ PublicationFails \/ Load \/ Fence \/ Claim
      BY <1>0, <3>2 DEF CreateRefused, Done, Publish, Published, PublicationFails, Trouble, Load, Fence, Claim, world
    <3>3. CASE OwnedWaiting \/ OwnedStarted \/ RunTools \/ Answer
      BY <1>0, <3>3 DEF OwnedWaiting, OwnedStarted, Done, RunTools, Answer, world
    <3>4. CASE Deliver \/ Settle \/ Finish
      BY <1>0, <3>4 DEF Deliver, Settle, Finish, Done, Trouble, world
    <3> QED BY <1>0, <2>1, <3>1, <3>2, <3>3, <3>4 DEF RunnerStep
  <2>2. CASE WorkerPass \/ Discard \/ FinalStep
    BY <1>0, <2>2 DEF WorkerPass, Discard, FinalStep, SendFinal, AckFinal, FinalMoves, world
  <2>3. ASSUME NEW c \in Calls, CardStep(c) \/ BindOnClick(c) \/ Deadline(c)
        PROVE  UNCHANGED <<woken, owner, runtime, troubles>>
    BY <2>3 DEF CardStep, SendCard, AckCard, BindOnClick, SendEdit, AckEdit, RetireCard, CardMoves, Deadline
  <2>4. ASSUME NEW c \in Calls, SweepExpires(c) \/ \E status \in {"approved", "denied"} : Click(c, status)
        PROVE  UNCHANGED <<owner, runtime, troubles>> /\ woken' \in BOOLEAN
    BY <1>0, <2>4 DEF SweepExpires, Click, WakeIfReady
  <2>5. CASE (\E then \in {"idle", "settle"} : RunFails(then)) \/ Unauthorized \/ RefuseFinal \/ SettlementFails \/ Stop
    BY <1>0, <2>5 DEF RunFails, Unauthorized, RefuseFinal, SettlementFails, Done, Stop, FinalMoves, Trouble, world
  <2>6. CASE RouterLeaves \/ RouterReturns \/ AgentLeaves \/ Remove \/ Crash
    BY <1>0, <2>6 DEF RouterLeaves, RouterReturns, AgentLeaves, Remove, Crash, Trouble
  <2>7. CASE UNCHANGED vars
    BY <1>0, <2>7 DEF vars
  <2> QED BY <1>0, <2>1, <2>2, <2>3, <2>4, <2>5, <2>6, <2>7 DEF Next
<1> QED BY <1>0, <1>1, ApprovalsAssumption DEF Runtimes, Trouble

\* Decisions, cards and the FINAL are decided, moved and written within their types.
LEMMA TableTypes ==
    ASSUME IInv, [Next]_vars
    PROVE  /\ told' \in [Calls -> {"none", "open"} \cup Decisions]
           /\ card' \in [Calls -> CardRows]
           /\ final' \in Finals /\ source' \in {"pending", "settled"}
           /\ here' \in [{"agent", "router"} -> BOOLEAN]
<1> DEFINE Typed == /\ told' \in [Calls -> {"none", "open"} \cup Decisions]
                    /\ card' \in [Calls -> CardRows]
                    /\ final' \in Finals /\ source' \in {"pending", "settled"}
                    /\ here' \in [{"agent", "router"} -> BOOLEAN]
<1>0. /\ TypeOK /\ told \in [Calls -> {"none", "open"} \cup Decisions] /\ card \in [Calls -> CardRows]
      /\ final \in Finals /\ source \in {"pending", "settled"}
      /\ here \in [{"agent", "router"} -> BOOLEAN] /\ pauses \in Turns /\ cont \in Conts
  BY DEF IInv, ApprovalsInv, TypeOK
<1>1. NoCalls \in [Calls -> {"none", "open"} \cup Decisions] /\ NoCard \in CardRows
      /\ [NoCard EXCEPT !.init = "reserved"] \in CardRows
  BY DEF NoCalls, NoCard, CardRows
<1>2. \A c \in Calls : \A d \in Decisions :
          /\ [card[c] EXCEPT !.edit = d] \in CardRows
          /\ [card[c] EXCEPT !.init = "retired"] \in CardRows
          /\ Departed(c, d) \in CardRows
  BY <1>0, <1>1 DEF CardRows, Departed
<1>3. ASSUME NEW g \in DOMAIN pauses, NEW plan \in Plans(g)
      PROVE  Told(plan) \in [Calls -> {"none", "open"} \cup Decisions]
  <2>1. DOMAIN plan = pauses[g] /\ \A c \in pauses[g] : plan[c] \in {"open"} \cup Decisions
    BY DEF Plans, Decisions
  <2> QED BY <1>0, <2>1 DEF Told
<1>4. ASSUME NEW c \in Calls, Moves(c) PROVE Typed
  BY <1>0, <1>4 DEF Moves
<1>5. ASSUME NEW S, Decides(S) PROVE Typed
  <2>1. PICK d \in [S -> Decisions] :
            /\ told' = [c \in Calls |-> IF c \in S THEN d[c] ELSE told[c]]
            /\ card' = [c \in Calls |-> IF c \in S THEN [card[c] EXCEPT !.edit = d[c]] ELSE card[c]]
    BY <1>5 DEF Decides
  <2>2. told' \in [Calls -> {"none", "open"} \cup Decisions]
    BY <1>0, <2>1
  <2>3. card' \in [Calls -> CardRows]
    BY <1>0, <1>2, <2>1
  <2> QED BY <1>0, <1>5, <2>2, <2>3 DEF Decides
<1>6. ASSUME Sends \/ Notes \/ Freezes PROVE Typed
  BY <1>0, <1>6 DEF Sends, Notes, Freezes, Finals
<1>7. ASSUME Ends PROVE Typed
  BY <1>0, <1>1, <1>7 DEF Ends, Release
<1>8. ASSUME NEW plan, Advances(plan) PROVE Typed
  BY <1>0, <1>3, <1>8 DEF Advances
<1>9. ASSUME NEW plan \in Plans(1), Create(plan) PROVE Typed
  BY <1>0, <1>3, <1>9, PausesFacts DEF Create, delivery, world
<1>10. ASSUME Publish PROVE Typed
  BY <1>0, <1>1, <1>10 DEF Publish, world
<1>11. ASSUME RouterLeaves PROVE Typed
  BY <1>0, <1>2, <1>11 DEF RouterLeaves, Decisions
<1>12. ASSUME AgentLeaves PROVE Typed
  <2>1. final' \in Finals
    BY <1>0, <1>12 DEF AgentLeaves, Finals
  <2>2. card' \in [Calls -> CardRows]
    BY <1>0, <1>2, <1>12 DEF AgentLeaves, Decisions
  <2> QED BY <1>0, <1>1, <1>12, <2>1, <2>2 DEF AgentLeaves, Release
<1>13. ASSUME RouterReturns PROVE Typed
  BY <1>0, <1>13 DEF RouterReturns, delivery
<1>14. ASSUME Lapses \/ Walks \/ Fails PROVE Typed
  BY <1>0, <1>14 DEF Lapses, Walks, Fails
<1>15. ASSUME Claim \/ RunTools \/ Crash PROVE Typed
  BY <1>0, <1>15 DEF Claim, RunTools, Crash, delivery, world
<1> HIDE DEF Typed
<1>16. Typed
  BY <1>4, <1>5, <1>6, <1>7, <1>8, <1>9, <1>10, <1>11, <1>12, <1>13, <1>14, <1>15, StepCases
<1> QED BY <1>16 DEF Typed

\* The continuation and the runner are written within their types.
LEMMA ContTypes ==
    ASSUME IInv, [Next]_vars
    PROVE  cont' \in Conts /\ run' \in Runners
<1> DEFINE Typed == cont' \in Conts /\ run' \in Runners
<1>0. /\ TypeOK /\ cont \in Conts /\ run \in Runners /\ pauses \in Turns /\ runtime \in Runtimes
      /\ GenerationShape /\ told \in [Calls -> {"none", "open"} \cup Decisions]
  BY DEF IInv, ApprovalsInv, TypeOK
<1>1. \A q \in {"waiting", "ready", "claimed", "failing"} : [cont EXCEPT !.state = q] \in Conts
  BY <1>0 DEF Conts
<1>2. ASSUME NEW c \in Calls, Moves(c) PROVE Typed
  BY <1>0, <1>2 DEF Moves
<1>3. ASSUME NEW S, Decides(S) PROVE Typed
  <2>1. cont' \in Conts
    BY <1>0, <1>1, <1>3 DEF Decides
  <2>2. run' \in Runners
    BY <1>0, <1>3, RunnerTypes DEF Decides
  <2> QED BY <2>1, <2>2
<1>4. ASSUME Lapses \/ Sends \/ Walks PROVE Typed
  BY <1>0, <1>4 DEF Lapses, Sends, Walks
<1>5. ASSUME Fails PROVE Typed
  <2>1. [cont EXCEPT !.state = "failing", !.why = "other"] \in Conts
    BY <1>0 DEF Conts
  <2> QED BY <1>5, <2>1 DEF Fails, Failing
<1>6. ASSUME Ends PROVE Typed
  BY <1>0, <1>6, RunnerTypes DEF Ends, Release
<1>7. ASSUME Notes \/ Freezes PROVE Typed
  BY <1>0, <1>7, RunnerTypes DEF Notes, Freezes
<1>8. ASSUME NEW plan, Advances(plan) PROVE Typed
  <2>1. cont.gen + 1 \in DOMAIN pauses /\ cont' = [cont EXCEPT !.state = "waiting", !.gen = cont.gen + 1]
        /\ run' = [run EXCEPT !.pc = "publish", !.obs = cont']
    BY <1>8 DEF Advances
  <2>2. [cont EXCEPT !.state = "waiting"] \in Conts
    BY <1>0 DEF Conts
  <2>3. cont' \in Conts
    BY <2>1, <2>2 DEF Conts
  <2>4. [run EXCEPT !.pc = "publish"] \in Runners
    BY <1>0 DEF Runners
  <2>5. run' \in Runners
    BY <2>1, <2>3, <2>4 DEF Runners
  <2> QED BY <2>3, <2>5
<1>9. ASSUME NEW plan \in Plans(1), Create(plan) PROVE Typed
  <2> DEFINE gated == \E c \in pauses[1] : plan[c] = "open"
             new == [state |-> IF gated THEN "waiting" ELSE "ready", gen |-> 1,
                     lease |-> IF gated THEN runtime ELSE 0, why |-> "none"]
  <2>1. cont' = new /\ run' \in {Idle, [run EXCEPT !.pc = "publish", !.obs = new]}
    BY <1>9 DEF Create
  <2>2. new \in Conts
    BY <1>0, PausesFacts DEF Conts
  <2> HIDE DEF new
  <2>3. [run EXCEPT !.pc = "publish"] \in Runners
    BY <1>0 DEF Runners
  <2>4. [run EXCEPT !.pc = "publish", !.obs = new] \in Runners
    BY <2>2, <2>3 DEF Runners
  <2> QED BY <1>0, <2>1, <2>2, <2>4, RunnerTypes
<1>10. ASSUME Publish PROVE Typed
  <2>1. [cont EXCEPT !.lease = 0] \in Conts
    BY <1>0 DEF Conts
  <2>2. \A q \in {"waiting", "ready"} : [cont EXCEPT !.lease = 0, !.state = q] \in Conts
    BY <2>1 DEF Conts
  <2>3. PICK q \in {"waiting", "ready"} : cont' = [cont EXCEPT !.lease = 0, !.state = q]
    BY <1>10 DEF Publish
  <2>4. run' = At("flush")
    BY <1>10 DEF Publish
  <2> QED BY <1>0, <2>2, <2>3, <2>4, RunnerTypes
<1>11. ASSUME Claim PROVE Typed
  <2> DEFINE o == [c \in pauses[cont.gen] |-> told[c]]
  <2>1. [cont EXCEPT !.state = "claimed", !.lease = runtime] \in Conts
    BY <1>0, <1>1 DEF Conts
  <2>2. cont' \in Conts
    BY <1>11, <2>1 DEF Claim
  <2>3. o \in Orders
    <3>1. cont.gen \in DOMAIN pauses /\ pauses[cont.gen] \subseteq Calls /\ cont.state = "ready"
      BY <1>0, <1>11, PausesFacts DEF Conts, Claim
    <3>2. o \in [pauses[cont.gen] -> Decisions]
      BY <1>0, <3>1 DEF GenerationShape, Exists
    <3> HIDE DEF o
    <3> QED BY <3>1, <3>2 DEF Orders
  <2>4. run' = [run EXCEPT !.pc = "execute", !.obs = cont', !.orders = o]
    BY <1>11 DEF Claim
  <2> HIDE DEF o
  <2>5. [run EXCEPT !.pc = "execute"] \in Runners
    BY <1>0 DEF Runners
  <2>6. [run EXCEPT !.pc = "execute", !.obs = cont'] \in Runners
    BY <2>2, <2>5 DEF Runners
  <2>7. run' \in Runners
    BY <2>3, <2>4, <2>6 DEF Runners
  <2> QED BY <2>2, <2>7
<1>12. ASSUME RunTools PROVE Typed
  <2>1. run' = [At("ran") EXCEPT !.orders = NoOrders] /\ cont' = cont
    BY <1>12 DEF RunTools
  <2>2. At("ran") \in Runners /\ NoOrders \in Orders
    BY <1>0, RunnerTypes DEF Orders
  <2> QED BY <1>0, <2>1, <2>2 DEF Runners
<1>13. ASSUME RouterLeaves PROVE Typed
  <2>1. [cont EXCEPT !.state = "failing", !.lease = 0] \in Conts
    BY <1>0, <1>1 DEF Conts
  <2>2. [cont EXCEPT !.state = "failing", !.lease = 0, !.why = "router"] \in Conts
    BY <2>1 DEF Conts
  <2> QED BY <1>0, <1>13, <2>2 DEF RouterLeaves
<1>14. ASSUME RouterReturns PROVE Typed
  BY <1>0, <1>14 DEF RouterReturns
<1>15. ASSUME AgentLeaves PROVE Typed
  BY <1>0, <1>15, RunnerTypes DEF AgentLeaves, Release
<1>16. ASSUME Crash PROVE Typed
  <2>1. [Idle EXCEPT !.pc = "paused", !.first = TRUE] \in Runners
    <3>1. [Idle EXCEPT !.pc = "paused"] \in Runners
      BY <1>0, RunnerTypes
    <3> HIDE DEF Idle
    <3> QED BY <3>1 DEF Runners
  <2> QED BY <1>0, <1>16, <2>1, RunnerTypes DEF Crash
<1> HIDE DEF Typed
<1>17. Typed
  BY <1>2, <1>3, <1>4, <1>5, <1>6, <1>7, <1>8, <1>9, <1>10, <1>11, <1>12, <1>13, <1>14, <1>15, <1>16, StepCases
<1> QED BY <1>17 DEF Typed

\* Every step keeps the types.
LEMMA TypeStep ==
    ASSUME IInv, [Next]_vars
    PROVE  TypeOK'
<1>0. /\ TypeOK /\ pauses' = pauses /\ pauses \in Turns /\ run \in Runners /\ cont \in Conts
      /\ runs \in [Calls -> Seq(Decisions)] /\ late \subseteq {c \in Calls : told[c] = "open"}
      /\ GenerationShape /\ NoContShape /\ SourceIsOwned /\ told \in [Calls -> {"none", "open"} \cup Decisions]
  BY PausesStand DEF IInv, ApprovalsInv, TypeOK
<1>1. runs' \in [Calls -> Seq(Decisions)]
  <2>1. CASE RunTools
    <3>1. \A c \in DOMAIN run.orders : run.orders[c] \in Decisions
      <4>1. run.orders \in Orders
        BY <1>0 DEF Runners
      <4> QED BY <4>1 DEF Orders, NoOrders
    <3>2. \A c \in Calls : c \in DOMAIN run.orders => Append(runs[c], run.orders[c]) \in Seq(Decisions)
      BY <1>0, <3>1
    <3> QED BY <1>0, <2>1, <3>2 DEF RunTools
  <2>2. CASE runs' = runs
    BY <1>0, <2>2
  <2> QED
    BY <2>1, <2>2, StepCases
    DEF Moves, Decides, Lapses, Sends, Walks, Fails, Ends, Notes, Freezes, Advances, Create, Publish, Claim,
        RouterLeaves, RouterReturns, AgentLeaves, Crash
<1>2. late' \subseteq {c \in Calls : told'[c] = "open"}
  <2> DEFINE Kept == late' \subseteq {c \in Calls : told'[c] = "open"}
  <2>1. ASSUME UNCHANGED <<told, late>> PROVE Kept
    BY <1>0, <2>1
  <2>2. ASSUME NEW S, Decides(S) PROVE Kept
    BY <1>0, <2>2 DEF Decides
  <2>3. ASSUME Lapses PROVE Kept
    BY <1>0, <2>3 DEF Lapses
  <2>4. ASSUME Ends \/ AgentLeaves PROVE Kept
    BY <2>4 DEF Ends, AgentLeaves, Release
  <2>5. ASSUME RouterLeaves PROVE Kept
    BY <1>0, <2>5 DEF RouterLeaves
  <2>6. ASSUME NEW plan, Advances(plan) PROVE Kept
    <3>1. cont.state = "claimed" /\ cont.gen \in Nat /\ cont.gen + 1 \in DOMAIN pauses /\ cont.gen + 1 > cont.gen
      BY <1>0, <2>6, PausesFacts DEF Advances, Conts
    <3>2. \A c \in pauses[cont.gen + 1] : told[c] = "none"
      BY <1>0, <3>1 DEF GenerationShape, Exists
    <3>3. DOMAIN plan = pauses[cont.gen + 1]
      BY <2>6 DEF Advances, Plans
    <3>4. \A c \in Calls : told[c] = "open" => told'[c] = "open"
      BY <2>6, <3>2, <3>3 DEF Advances, Told
    <3> QED BY <1>0, <2>6, <3>4 DEF Advances
  <2>7. ASSUME NEW plan \in Plans(1), Create(plan) PROVE Kept
    <3>1. ~Exists
      BY <1>0, <2>7 DEF Create, SourceIsOwned
    <3>2. late = {}
      BY <1>0, <3>1 DEF NoContShape, NoCalls
    <3> QED BY <2>7, <3>2 DEF Create, delivery
  <2> HIDE DEF Kept
  <2>8. Kept
    BY <2>1, <2>2, <2>3, <2>4, <2>5, <2>6, <2>7, StepCases
    DEF Moves, Sends, Walks, Fails, Notes, Freezes, Publish, Claim, RunTools, RouterReturns, Crash, delivery
  <2> QED BY <2>8 DEF Kept
<1>3. cont' \in Conts' /\ run' \in Runners'
  BY <1>0, ContTypes, TypesStand
<1> QED BY <1>0, <1>1, <1>2, <1>3, LostStep, ClockStep, TableTypes DEF TypeOK

-----------------------------------------------------------------------------
(* Which cards ask.                                                        *)

\* A departure leaves no card that asks, and changes no decision that was made.
LEMMA DepartedCard ==
    ASSUME IInv, NEW c \in Calls, NEW d \in Decisions, card'[c] = Departed(c, d)
    PROVE  /\ ~Undecided(c)'
           /\ card'[c].init # "none" => /\ card[c].init # "none" /\ card'[c].edit # "none"
                                        /\ Undecided(c) => card'[c].edit = d
                                        /\ ~Undecided(c) => card'[c].edit = card[c].edit
           /\ card'[c].init = "none" => card'[c] = NoCard
           /\ card[c] = NoCard => card'[c] = NoCard
<1>0. card[c] \in CardRows /\ d # "none"
      /\ (card[c].init = "none" => card[c] = NoCard)
      /\ (card[c].sent # "none" \/ card[c].init = "retired" => card[c].edit # "none")
  BY DEF IInv, ApprovalsInv, TypeOK, CardShape, Decisions
<1>1. CASE Complete(c)
  <2>1. card'[c] = [card[c] EXCEPT !.init = "retired"] /\ card[c].edit # "none" /\ card[c].init = "acked"
    BY <1>0, <1>1 DEF Departed, Complete
  <2>2. card'[c].init = "retired" /\ card'[c].edit = card[c].edit
    BY <1>0, <2>1 DEF CardRows
  <2> QED BY <2>1, <2>2 DEF Undecided, HasRow, NoCard
<1>2. CASE ~Complete(c) /\ card[c].init = "reserved"
  <2>1. card'[c] = NoCard
    BY <1>2 DEF Departed
  <2> QED BY <2>1 DEF Undecided, HasRow, NoCard
<1>3. CASE ~Complete(c) /\ card[c].init # "reserved" /\ Undecided(c)
  <2>1. card'[c] = [card[c] EXCEPT !.edit = d] /\ card[c].init \in {"attempted", "acked"}
    BY <1>3 DEF Departed, Undecided, HasRow
  <2>2. card'[c].init = card[c].init /\ card'[c].edit = d
    BY <1>0, <2>1 DEF CardRows
  <2> QED BY <1>0, <1>3, <2>1, <2>2 DEF Undecided, NoCard
<1>4. CASE ~Complete(c) /\ card[c].init # "reserved" /\ ~Undecided(c)
  <2>1. card'[c] = card[c]
    BY <1>4 DEF Departed
  <2>2. card[c].init # "none" => card[c].edit # "none"
    BY <1>0, <1>4 DEF Undecided, HasRow, CardRows
  <2> QED BY <1>0, <1>4, <2>1, <2>2 DEF Undecided, HasRow
<1> QED BY <1>1, <1>2, <1>3, <1>4

\* Only a publication makes a card ask; departures leave none that does.
LEMMA AskedStep ==
    ASSUME IInv, [Next]_vars, NEW c \in Calls, Undecided(c)'
    PROVE  /\ Undecided(c) \/ (Publish /\ c \in Open)
           /\ ~RouterLeaves /\ ~AgentLeaves
<1> DEFINE Before == Undecided(c)
<1>0. card \in [Calls -> CardRows] /\ CardIsAnswerable /\ card[c] \in CardRows /\ NoContShape
  BY DEF IInv, ApprovalsInv, TypeOK
<1>1. ASSUME RouterLeaves PROVE FALSE
  <2>1. card'[c] = Departed(c, "denied")
    BY <1>1 DEF RouterLeaves
  <2> QED BY <2>1, DepartedCard DEF Decisions
<1>2. ASSUME AgentLeaves PROVE FALSE
  <2>1. CASE Exists
    <3>1. card'[c] = Departed(c, "expired")
      BY <1>2, <2>1 DEF AgentLeaves
    <3> QED BY <3>1, DepartedCard DEF Decisions
  <2>2. CASE ~Exists
    <3>1. card' = card
      BY <1>2, <2>2 DEF AgentLeaves
    <3>2. c \in Open
      BY <1>0, <3>1 DEF CardIsAnswerable, Undecided, HasRow
    <3>3. told[c] = "none"
      BY <1>0, <2>2 DEF NoContShape, NoCalls
    <3> QED BY <3>2, <3>3 DEF Open
  <2> QED BY <2>1, <2>2
<1>3. ASSUME card' = card PROVE Before
  BY <1>3 DEF Undecided, HasRow
<1>4. ASSUME NEW x \in Calls, Moves(x) PROVE Before
  <2>1. PICK new \in CardRows : /\ card' = [card EXCEPT ![x] = new] /\ new.edit = card[x].edit
                                /\ new.edit = "none" => HasRow(x)
    BY <1>4 DEF Moves
  <2>2. CASE x = c
    BY <1>0, <2>1, <2>2 DEF Undecided
  <2>3. CASE x # c
    BY <1>0, <2>1, <2>3 DEF Undecided, HasRow
  <2> QED BY <2>2, <2>3
<1>5. ASSUME NEW S, Decides(S) PROVE Before
  <2>1. PICK d \in [S -> Decisions] :
            card' = [x \in Calls |-> IF x \in S THEN [card[x] EXCEPT !.edit = d[x]] ELSE card[x]]
    BY <1>5 DEF Decides
  <2>2. CASE c \in S
    <3>1. card'[c].edit = d[c] /\ d[c] # "none"
      BY <1>0, <2>1, <2>2 DEF CardRows, Decisions
    <3> QED BY <3>1 DEF Undecided
  <2>3. CASE c \notin S
    BY <2>1, <2>3 DEF Undecided, HasRow
  <2> QED BY <2>2, <2>3
<1>6. ASSUME Publish, c \notin Open PROVE Before
  BY <1>6 DEF Publish, Undecided, HasRow
<1> HIDE DEF Before
<1>7. Before \/ (Publish /\ c \in Open)
  BY <1>1, <1>2, <1>3, <1>4, <1>5, <1>6, StepCases
  DEF Lapses, Sends, Walks, Fails, Ends, Notes, Freezes, Advances, Create, Claim, RunTools, RouterReturns,
      Crash, delivery
<1> QED BY <1>1, <1>2, <1>7 DEF Before

\* Nobody is asked anew except by a publication.
LEMMA NothingAskedStep ==
    ASSUME IInv, [Next]_vars, NothingAsked, ~Publish
    PROVE  NothingAsked'
BY AskedStep DEF NothingAsked

\* A card asks while its call is open in the current generation of a pause that is
\* published, or failing.
LEMMA AnswerableStep ==
    ASSUME IInv, [Next]_vars
    PROVE  CardIsAnswerable'
<1>0. /\ TypeOK /\ CardIsAnswerable /\ NoContShape /\ pauses' = pauses /\ cont \in Conts
      /\ told \in [Calls -> {"none", "open"} \cup Decisions] /\ SourceIsOwned
  BY PausesStand DEF IInv, ApprovalsInv, TypeOK
<1> SUFFICES ASSUME NEW c \in Calls, Undecided(c)'
             PROVE  /\ c \in Open'
                    /\ cont'.state = "failing" \/ (cont'.state = "waiting" /\ cont'.lease = 0)
  BY DEF CardIsAnswerable
<1> DEFINE Good == c \in Open' /\ (cont'.state = "failing" \/ (cont'.state = "waiting" /\ cont'.lease = 0))
<1>1. ~RouterLeaves /\ ~AgentLeaves
  BY AskedStep
<1>2. ASSUME Publish PROVE Good
  <2>1. ~Undecided(c)
    BY <1>0, <1>2 DEF Publish, HoldsLease, CardIsAnswerable
  <2>2. c \in Open
    BY <2>1, AskedStep
  <2>3. /\ cont' = [cont EXCEPT !.lease = 0, !.state = IF Open = {} THEN "ready" ELSE "waiting"]
        /\ told' = told
    BY <1>2 DEF Publish
  <2>4. cont'.gen = cont.gen /\ cont'.state = "waiting" /\ cont'.lease = 0
    BY <1>0, <2>2, <2>3 DEF Conts
  <2> QED BY <1>0, <2>2, <2>3, <2>4 DEF Open
<1>3. ASSUME ~Publish
      PROVE  /\ Undecided(c) /\ c \in Open /\ c \in pauses[cont.gen] /\ told[c] = "open"
             /\ cont.state = "failing" \/ (cont.state = "waiting" /\ cont.lease = 0)
  <2>1. Undecided(c)
    BY <1>3, AskedStep
  <2> QED BY <1>0, <2>1 DEF CardIsAnswerable, Open
<1>4. ASSUME UNCHANGED <<cont, told>>, ~Publish PROVE Good
  BY <1>0, <1>3, <1>4 DEF Open
<1>5. ASSUME NEW S, Decides(S), ~Publish PROVE Good
  <2>1. PICK d \in [S -> Decisions] :
            /\ told' = [x \in Calls |-> IF x \in S THEN d[x] ELSE told[x]]
            /\ card' = [x \in Calls |-> IF x \in S THEN [card[x] EXCEPT !.edit = d[x]] ELSE card[x]]
    BY <1>5 DEF Decides
  <2>2. c \notin S
    <3>1. card[c] \in CardRows
      BY DEF IInv, ApprovalsInv, TypeOK
    <3>2. c \in S => card'[c].edit # "none"
      BY <2>1, <3>1 DEF CardRows, Decisions
    <3> QED BY <3>2 DEF Undecided
  <2>3. told'[c] = "open"
    BY <1>3, <1>5, <2>1, <2>2
  <2>4. cont' = cont
    BY <1>3, <1>5, <2>3 DEF Decides
  <2> QED BY <1>0, <1>3, <1>5, <2>3, <2>4 DEF Open
<1>6. ASSUME Fails, ~Publish PROVE Good
  <2>1. cont' = [cont EXCEPT !.state = "failing", !.why = "other"] /\ told' = told
    BY <1>6 DEF Fails, Failing
  <2>2. cont'.gen = cont.gen /\ cont'.state = "failing"
    BY <1>0, <2>1 DEF Conts
  <2> QED BY <1>0, <1>3, <1>6, <2>1, <2>2 DEF Open
<1>7. ASSUME ~Publish PROVE ~Ends /\ ~Claim /\ ~(\E plan : Advances(plan)) /\ ~(\E plan \in Plans(1) : Create(plan))
  <2>1. ~Ends
    BY <1>3, <1>7 DEF Ends, NothingAsked
  <2>2. ~Claim /\ ~(\E plan : Advances(plan))
    BY <1>3, <1>7 DEF Claim, Advances
  <2>3. ~(\E plan \in Plans(1) : Create(plan))
    BY <1>0, <1>3, <1>7 DEF Create, SourceIsOwned, Exists
  <2> QED BY <2>1, <2>2, <2>3
<1> HIDE DEF Good
<1>8. Good
  BY <1>1, <1>2, <1>4, <1>5, <1>6, <1>7, StepCases
  DEF Moves, Lapses, Sends, Walks, Notes, Freezes, RunTools, RouterReturns, Crash
<1> QED BY <1>8 DEF Good

-----------------------------------------------------------------------------
(* The source, the FINAL and the people in the room.                       *)

\* What a step does to the existence of the continuation.
LEMMA ExistsStep ==
    ASSUME IInv, [Next]_vars
    PROVE  /\ ~Exists /\ Exists' => \E plan \in Plans(1) : Create(plan)
           /\ Exists /\ ~Exists' => Ends \/ AgentLeaves
           /\ Exists /\ Exists' => cont' = cont \/ (\E S : Decides(S)) \/ Fails \/ (\E plan : Advances(plan))
                                     \/ Publish \/ Claim \/ RouterLeaves
<1>0. TypeOK /\ cont \in Conts /\ SourceIsOwned
  BY DEF IInv, ApprovalsInv, TypeOK
<1> DEFINE Good == /\ ~Exists /\ Exists' => \E plan \in Plans(1) : Create(plan)
                   /\ Exists /\ ~Exists' => Ends \/ AgentLeaves
                   /\ Exists /\ Exists' => cont' = cont \/ (\E S : Decides(S)) \/ Fails \/ (\E plan : Advances(plan))
                                             \/ Publish \/ Claim \/ RouterLeaves
<1>1. ASSUME cont' = cont PROVE Good
  BY <1>1 DEF Exists
<1>2. ASSUME NEW S, Decides(S) PROVE Good
  BY <1>0, <1>2 DEF Decides, Exists, Conts
<1>3. ASSUME Fails PROVE Good
  BY <1>0, <1>3 DEF Fails, Failing, Exists, Conts
<1>4. ASSUME Ends \/ AgentLeaves PROVE Good
  BY <1>4 DEF Ends, AgentLeaves, Release, Exists, NoCont
<1>5. ASSUME NEW plan, Advances(plan) PROVE Good
  <2>1. cont' = [cont EXCEPT !.state = "waiting", !.gen = cont.gen + 1] /\ cont.state = "claimed"
    BY <1>5 DEF Advances
  <2>2. cont'.state = "waiting"
    BY <1>0, <2>1 DEF Conts
  <2> QED BY <1>5, <2>1, <2>2 DEF Exists
<1>6. ASSUME NEW plan \in Plans(1), Create(plan) PROVE Good
  BY <1>0, <1>6 DEF Create, Exists, SourceIsOwned
<1>7. ASSUME Publish \/ Claim PROVE Good
  BY <1>0, <1>7 DEF Publish, HoldsLease, Claim, Exists, Conts
<1>8. ASSUME RouterLeaves PROVE Good
  BY <1>0, <1>8 DEF RouterLeaves, Exists, Conts
<1> HIDE DEF Good
<1>9. Good
  BY <1>1, <1>2, <1>3, <1>4, <1>5, <1>6, <1>7, <1>8, StepCases
  DEF Moves, Lapses, Sends, Walks, Notes, Freezes, RunTools, RouterReturns, Crash
<1> QED BY <1>9 DEF Good

\* A source that is pending is owned by the turn that paused or its continuation.
LEMMA SourceStep ==
    ASSUME IInv, [Next]_vars
    PROVE  SourceIsOwned'
<1>0. TypeOK /\ cont \in Conts /\ SourceIsOwned /\ run \in Runners
  BY DEF IInv, ApprovalsInv, TypeOK
<1>1. ASSUME NEW c \in Calls, Moves(c) PROVE SourceIsOwned'
  BY <1>0, <1>1 DEF Moves, SourceIsOwned, Exists
<1>2. ASSUME NEW S, Decides(S) PROVE SourceIsOwned'
  <2>1. Exists <=> Exists'
    BY <1>0, <1>2 DEF Decides, Exists, Conts
  <2>2. run'.pc = "paused" <=> run.pc = "paused"
    BY <1>0, <1>2, RunnerTypes DEF Decides
  <2> QED BY <1>0, <1>2, <2>1, <2>2 DEF Decides, SourceIsOwned
<1>3. ASSUME Lapses \/ Sends \/ RouterReturns PROVE SourceIsOwned'
  BY <1>0, <1>3 DEF Lapses, Sends, RouterReturns, SourceIsOwned, Exists
<1>4. ASSUME Walks PROVE SourceIsOwned'
  BY <1>0, <1>4 DEF Walks, SourceIsOwned, Exists
<1>5. ASSUME Fails \/ Publish \/ Claim \/ (\E plan : Advances(plan)) PROVE SourceIsOwned'
  <2>1. Exists /\ source' = source /\ run'.pc # "paused"
    <3>1. ASSUME Publish PROVE run'.pc # "paused"
      BY <1>0, <3>1, RunnerTypes DEF Publish
    <3>2. ASSUME Claim PROVE run'.pc # "paused"
      <4>1. run'.pc = "execute"
        BY <1>0, <3>2 DEF Claim, Runners
      <4> QED BY <4>1
    <3>3. ASSUME NEW plan, Advances(plan) PROVE run'.pc # "paused"
      <4>1. run'.pc = "publish"
        BY <1>0, <3>3 DEF Advances, Runners
      <4> QED BY <4>1
    <3> QED BY <1>5, <3>1, <3>2, <3>3 DEF Fails, Publish, Claim, Advances, HoldsLease, Exists
  <2>2. Exists'
    <3>1. ASSUME ~Exists' PROVE FALSE
      <4>1. cont' = NoCont
        BY <2>1, <3>1, ExistsStep DEF Ends, AgentLeaves, Release
      <4> QED BY <1>0, <1>5, <4>1 DEF Fails, Failing, Publish, Claim, Advances, NoCont, Conts
    <3> QED BY <3>1
  <2> QED BY <1>0, <2>1, <2>2 DEF SourceIsOwned
<1>6. ASSUME Ends PROVE SourceIsOwned'
  BY <1>6 DEF Ends, Release, SourceIsOwned, Exists, NoCont
<1>7. ASSUME AgentLeaves PROVE SourceIsOwned'
  BY <1>7 DEF AgentLeaves, Release, SourceIsOwned, Exists, NoCont
<1>8. ASSUME Notes \/ Freezes PROVE SourceIsOwned'
  <2>1. run'.pc = "deliver" /\ run.pc # "paused" /\ UNCHANGED <<cont, source>>
    BY <1>0, <1>8, RunnerTypes DEF Notes, Freezes
  <2> QED BY <1>0, <2>1 DEF SourceIsOwned, Exists
<1>9. ASSUME NEW plan \in Plans(1), Create(plan) PROVE SourceIsOwned'
  <2>1. source' = "pending" /\ Exists'
    BY <1>9 DEF Create, Exists
  <2>2. run'.pc # "paused"
    <3>1. \A new : [run EXCEPT !.pc = "publish", !.obs = new].pc = "publish"
      BY <1>0 DEF Runners
    <3> QED BY <1>0, <1>9, <3>1, RunnerTypes DEF Create
  <2> QED BY <2>1, <2>2 DEF SourceIsOwned
<1>10. ASSUME RunTools PROVE SourceIsOwned'
  <2>1. run'.pc = "ran" /\ UNCHANGED <<cont, source>> /\ run.pc = "execute"
    BY <1>0, <1>10 DEF RunTools, At, Runners
  <2> QED BY <1>0, <2>1 DEF SourceIsOwned, Exists
<1>11. ASSUME RouterLeaves PROVE SourceIsOwned'
  BY <1>0, <1>11 DEF RouterLeaves, SourceIsOwned, Exists, Conts
<1>12. ASSUME Crash PROVE SourceIsOwned'
  <2>1. [Idle EXCEPT !.pc = "paused", !.first = TRUE].pc = "paused" /\ Idle.pc = "idle"
    BY DEF Idle
  <2> QED BY <1>0, <1>12, <2>1 DEF Crash, SourceIsOwned, Exists, TypeOK
<1> QED
  BY <1>1, <1>2, <1>3, <1>4, <1>5, <1>6, <1>7, <1>8, <1>9, <1>10, <1>11, <1>12, StepCases

\* Where there is no continuation there is nothing of it.
LEMMA NoContStep ==
    ASSUME IInv, [Next]_vars
    PROVE  NoContShape'
<1>0. TypeOK /\ cont \in Conts /\ SourceIsOwned /\ NoContShape
  BY DEF IInv, ApprovalsInv, TypeOK
<1> SUFFICES ASSUME ~Exists' PROVE NoContShape'
  BY DEF NoContShape
<1>1. CASE Exists
  <2>1. Release
    BY <1>1, ExistsStep DEF Ends, AgentLeaves
  <2> QED BY <2>1 DEF Release, NoContShape
<1>2. CASE ~Exists
  <2> DEFINE Good == NoContShape'
  <2>0. /\ cont = NoCont /\ told = NoCalls
        /\ source = "pending" => /\ run.pc = "paused" /\ final = NoFinal
                                 /\ \A c \in Calls : card[c] = NoCard /\ runs[c] = <<>>
    BY <1>0, <1>2 DEF NoContShape, SourceIsOwned
  <2>1. ASSUME UNCHANGED <<cont, told, source, final, card, runs>> PROVE Good
    BY <2>0, <2>1 DEF NoContShape
  <2>2. ASSUME NEW c \in Calls, Moves(c) PROVE Good
    <3>1. source # "pending"
      BY <2>0, <2>2 DEF Moves, NoCard
    <3> QED BY <2>0, <2>2, <3>1 DEF Moves, NoContShape
  <2>3. ASSUME NEW S, Decides(S) PROVE Good
    <3>1. S = {}
      BY <2>0, <2>3 DEF Decides, Resolvable, NoCont
    <3>2. told' = told /\ cont' = cont
      <4>1. told' = [c \in Calls |-> told[c]]
        BY <2>3, <3>1 DEF Decides
      <4>2. told = [c \in Calls |-> told[c]]
        BY <2>0 DEF NoCalls
      <4> QED BY <2>0, <2>3, <4>1, <4>2 DEF Decides, NoCont
    <3>3. \A c \in Calls : card'[c] = card[c]
      BY <2>3, <3>1 DEF Decides
    <3> QED BY <2>0, <2>3, <3>2, <3>3 DEF Decides, NoContShape
  <2>4. ASSUME Sends PROVE Good
    <3>1. source # "pending"
      BY <2>0, <2>4 DEF Sends, NoFinal
    <3> QED BY <2>0, <2>4, <3>1 DEF Sends, NoContShape
  <2>5. ASSUME Freezes PROVE Good
    <3>1. source # "pending"
      BY <2>0, <2>5 DEF Freezes
    <3> QED BY <2>0, <2>5, <3>1 DEF Freezes, NoContShape
  <2>6. ASSUME RunTools PROVE Good
    <3>1. source # "pending"
      BY <2>0, <2>6 DEF RunTools
    <3> QED BY <2>0, <2>6, <3>1 DEF RunTools, NoContShape, delivery
  <2>7. ASSUME RouterLeaves PROVE Good
    <3>1. cont' = cont
      BY <2>0, <2>7 DEF RouterLeaves, NoCont
    <3>2. told' = [c \in Calls |-> told[c]] /\ told = [c \in Calls |-> told[c]]
      BY <2>0, <2>7 DEF RouterLeaves, NoCalls
    <3>3. \A c \in Calls : card[c] = NoCard => card'[c] = NoCard
      BY <2>7, DepartedCard DEF RouterLeaves, Decisions
    <3> QED BY <2>0, <2>7, <3>1, <3>2, <3>3 DEF RouterLeaves, NoContShape
  <2>8. ASSUME AgentLeaves PROVE Good
    BY <2>8 DEF AgentLeaves, Release, NoContShape
  <2>9. /\ ~Fails /\ ~Ends /\ ~Notes /\ ~(\E plan : Advances(plan)) /\ ~Publish /\ ~Claim
        /\ ~(\E plan \in Plans(1) : Create(plan))
    <3>1. ~Fails /\ ~Ends /\ ~Notes /\ ~(\E plan : Advances(plan)) /\ ~Publish /\ ~Claim
      BY <1>2 DEF Fails, Ends, Notes, Advances, Publish, HoldsLease, Claim, Exists
    <3>2. ASSUME NEW plan \in Plans(1), Create(plan) PROVE FALSE
      BY <3>2 DEF Create, Exists
    <3> QED BY <3>1, <3>2
  <2> HIDE DEF Good
  <2>10. Good
    BY <2>1, <2>2, <2>3, <2>4, <2>5, <2>6, <2>7, <2>8, <2>9, StepCases
    DEF Lapses, Walks, RouterReturns, Crash, delivery
  <2> QED BY <2>10 DEF Good
<1> QED BY <1>1, <1>2

\* An agent that left has no pause, and a router that left nobody to ask.
LEMMA HereStep ==
    ASSUME IInv, [Next]_vars
    PROVE  HereShape'
<1>0. TypeOK /\ HereShape /\ SourceIsOwned' /\ here \in [{"agent", "router"} -> BOOLEAN] /\ source' \in {"pending", "settled"}
  BY SourceStep, TableTypes DEF IInv, ApprovalsInv, TypeOK
<1>1. here' = here \/ RouterLeaves \/ RouterReturns \/ AgentLeaves
  BY StepCases
  DEF Moves, Decides, Lapses, Sends, Walks, Fails, Ends, Notes, Freezes, Advances, Create, Publish, Claim,
      RunTools, Crash, world
<1>2. ~here'["agent"] => ~here["agent"] \/ AgentLeaves
  BY <1>0, <1>1 DEF RouterLeaves, RouterReturns
<1>3. ~here'["router"] => ~here["router"] \/ RouterLeaves
  BY <1>0, <1>1 DEF RouterReturns, AgentLeaves
<1>4. ASSUME ~here'["agent"] PROVE ~Exists' /\ source' = "settled"
  <2>1. CASE AgentLeaves
    BY <2>1 DEF AgentLeaves, Release, Exists, NoCont
  <2>2. CASE ~here["agent"]
    <3>1. ~Exists /\ source = "settled"
      BY <1>0, <2>2 DEF HereShape
    <3>2. ~(\E plan \in Plans(1) : Create(plan))
      BY <2>2 DEF Create
    <3>3. ~Exists'
      BY <3>1, <3>2, ExistsStep
    <3>4. source' = "settled"
      BY <3>1, StepCases
      DEF Moves, Decides, Lapses, Sends, Walks, Fails, Ends, Notes, Freezes, Advances, Create, Publish, Claim,
          RunTools, RouterLeaves, RouterReturns, AgentLeaves, Release, Crash
    <3> QED BY <3>3, <3>4
  <2> QED BY <1>2, <1>4, <2>1, <2>2
<1>5. ASSUME ~here'["router"] PROVE NothingAsked'
  <2>1. CASE RouterLeaves
    BY <2>1, AskedStep DEF NothingAsked
  <2>2. CASE ~here["router"]
    <3>1. NothingAsked
      BY <1>0, <2>2 DEF HereShape
    <3> SUFFICES ASSUME NEW c \in Calls, Undecided(c)' PROVE FALSE
      BY DEF NothingAsked
    <3>2. Publish /\ c \in Open
      BY <3>1, AskedStep DEF NothingAsked
    <3> QED BY <2>2, <3>2 DEF Publish
  <2> QED BY <1>3, <1>5, <2>1, <2>2
<1> QED BY <1>4, <1>5 DEF HereShape

\* What a step does to the FINAL, and to the state of a pause that has one.
LEMMA FinalCases ==
    ASSUME IInv, [Next]_vars
    PROVE  /\ final' = final \/ Sends \/ Notes \/ Freezes \/ AgentLeaves
           /\ final.kind # "none" => ~Publish /\ ~Claim
           /\ final.kind # "none" => cont'.state \in {cont.state, "none"} \/ (~FinalStands /\ cont'.state = "failing")
<1>0. TypeOK /\ cont \in Conts /\ FinalShape /\ RunnerShape /\ NoContShape /\ SourceIsOwned
  BY DEF IInv, ApprovalsInv, TypeOK
<1>1. final' = final \/ Sends \/ Notes \/ Freezes \/ AgentLeaves
  BY StepCases
  DEF Moves, Decides, Lapses, Walks, Fails, Ends, Advances, Create, Publish, Claim,
      RunTools, RouterLeaves, RouterReturns, Crash, delivery
<1>2. ASSUME final.kind # "none"
      PROVE  /\ ~Publish /\ ~Claim
             /\ cont'.state \in {cont.state, "none"} \/ (~FinalStands /\ cont'.state = "failing")
  <2>0. cont.state \notin {"waiting", "ready"}
    BY <1>0, <1>2 DEF FinalShape
  <2>1. ~Publish /\ ~Claim
    BY <2>0 DEF Publish, HoldsLease, Claim
  <2>2. ~(\E plan : Advances(plan))
    BY <1>0, <1>2 DEF Advances, RunnerShape, NoFinal
  <2>3. ASSUME NEW plan \in Plans(1), Create(plan) PROVE FALSE
    <3>1. ~Exists /\ source = "pending"
      BY <1>0, <2>3 DEF Create, SourceIsOwned
    <3> QED BY <1>0, <1>2, <3>1 DEF NoContShape, NoFinal
  <2>4. ASSUME NEW S, Decides(S) PROVE cont' = cont
    BY <2>0, <2>4 DEF Decides
  <2>5. ASSUME RouterLeaves PROVE cont' = cont
    BY <2>0, <2>5 DEF RouterLeaves
  <2>6. ASSUME Fails PROVE ~FinalStands /\ cont'.state = "failing"
    BY <1>0, <2>6 DEF Fails, Failing, Conts
  <2>7. CASE Exists'
    BY <2>1, <2>2, <2>3, <2>4, <2>5, <2>6, <2>7, ExistsStep DEF Exists
  <2>8. CASE ~Exists'
    BY <2>1, <2>8 DEF Exists
  <2> QED BY <2>7, <2>8, <2>1
<1> QED BY <1>1, <1>2

\* A FINAL is of a pause that runs or failed, and a frozen answer is kept.
LEMMA FinalKept ==
    ASSUME IInv, [Next]_vars
    PROVE  FinalShape' /\ AnswerIsKept'
<1>0. TypeOK /\ cont \in Conts /\ FinalShape /\ RunnerShape /\ AnswerIsKept /\ final \in Finals
  BY DEF IInv, ApprovalsInv, TypeOK
<1>1. CASE final' = final
  <2>1. CASE final.kind = "none"
    BY <1>0, <1>1, <2>1 DEF FinalShape, AnswerIsKept
  <2>2. CASE final.kind # "none"
    <3>1. ~Publish
      BY <2>2, FinalCases
    <3>2. NothingAsked => NothingAsked'
      BY <3>1, NothingAskedStep
    <3>3. cont'.state \in {cont.state, "none"} \/ (~FinalStands /\ cont'.state = "failing")
      BY <2>2, FinalCases
    <3>4. FinalShape'
      BY <1>0, <1>1, <2>2, <3>2, <3>3 DEF FinalShape
    <3>5. AnswerIsKept'
      BY <1>0, <1>1, <2>2, <3>3 DEF AnswerIsKept, FinalStands
    <3> QED BY <3>4, <3>5
  <2> QED BY <2>1, <2>2
<1>2. CASE Sends
  <2>1. final'.kind = final.kind /\ final'.sent # "none" /\ final.sent \in {"frozen", "attempted"} /\ cont' = cont
    BY <1>0, <1>2 DEF Sends, Finals
  <2>2. card' = card
    BY <1>2 DEF Sends
  <2>3. NothingAsked => NothingAsked'
    BY <2>2 DEF NothingAsked, Undecided, HasRow
  <2> QED BY <1>0, <2>1, <2>3 DEF FinalShape, AnswerIsKept
<1>3. CASE Notes
  <2>1. final'.kind = "note" /\ final'.sent = "frozen" /\ cont' = cont /\ card' = card
    BY <1>3 DEF Notes
  <2>2. NothingAsked /\ cont.state \in {"none", "failing"}
    BY <1>0, <1>3 DEF Notes, RunnerShape
  <2>3. NothingAsked'
    BY <2>1, <2>2 DEF NothingAsked, Undecided, HasRow
  <2> QED BY <2>1, <2>2, <2>3 DEF FinalShape, AnswerIsKept
<1>4. CASE Freezes
  <2>1. final'.kind = "answer" /\ final'.sent = "frozen" /\ cont' = cont
    BY <1>4 DEF Freezes
  <2>2. cont.state \in {"none", "claimed"}
    BY <1>0, <1>4 DEF Freezes, RunnerShape, Exists
  <2> QED BY <2>1, <2>2 DEF FinalShape, AnswerIsKept
<1>5. CASE AgentLeaves
  <2>1. final'.kind = final.kind /\ (final'.sent = "none" <=> final.sent = "none") /\ cont'.state = "none"
    BY <1>0, <1>5 DEF AgentLeaves, Release, NoCont, Finals
  <2>2. NothingAsked'
    BY <1>5, AskedStep DEF NothingAsked
  <2> QED BY <1>0, <2>1, <2>2 DEF FinalShape, AnswerIsKept
<1> QED BY <1>1, <1>2, <1>3, <1>4, <1>5, FinalCases

-----------------------------------------------------------------------------
(* Cards, decisions and executions.                                        *)

\* What a card shows changes only when it is decided, or put up.
LEMMA EditStep ==
    ASSUME IInv, [Next]_vars, NEW c \in Calls, card'[c].init # "none"
    PROVE  \/ card[c].init # "none" /\ card'[c].edit = card[c].edit
           \/ card[c].init # "none" /\ card[c].edit = "none"
           \/ Publish /\ c \in Open
<1>0. card \in [Calls -> CardRows] /\ card[c] \in CardRows
  BY DEF IInv, ApprovalsInv, TypeOK
<1> DEFINE Good == \/ card[c].init # "none" /\ card'[c].edit = card[c].edit
                   \/ card[c].init # "none" /\ card[c].edit = "none"
                   \/ Publish /\ c \in Open
<1>1. ASSUME card' = card PROVE Good
  BY <1>1
<1>2. ASSUME NEW x \in Calls, Moves(x) PROVE Good
  <2>1. PICK new \in CardRows : card' = [card EXCEPT ![x] = new] /\ new.edit = card[x].edit /\ card[x].init # "none"
    BY <1>2 DEF Moves
  <2>2. CASE x = c
    BY <1>0, <2>1, <2>2
  <2>3. CASE x # c
    BY <1>0, <2>1, <2>3
  <2> QED BY <2>2, <2>3
<1>3. ASSUME NEW S, Decides(S) PROVE Good
  <2>1. PICK d \in [S -> Decisions] :
            card' = [x \in Calls |-> IF x \in S THEN [card[x] EXCEPT !.edit = d[x]] ELSE card[x]]
    BY <1>3 DEF Decides
  <2>2. CASE c \in S
    <3>1. card[c].edit = "none" /\ card[c].init # "none"
      BY <1>3, <2>2 DEF Decides, Resolvable, HasRow
    <3> QED BY <3>1
  <2>3. CASE c \notin S
    BY <2>1, <2>3
  <2> QED BY <2>2, <2>3
<1>4. ASSUME NEW d \in Decisions, card'[c] = Departed(c, d) PROVE Good
  BY <1>4, DepartedCard DEF Undecided
<1>5. ASSUME RouterLeaves PROVE Good
  <2>1. card'[c] = Departed(c, "denied")
    BY <1>5 DEF RouterLeaves
  <2> QED BY <1>4, <2>1 DEF Decisions
<1>6. ASSUME AgentLeaves PROVE Good
  <2>1. card' = card \/ card'[c] = Departed(c, "expired")
    BY <1>6 DEF AgentLeaves
  <2> QED BY <1>1, <1>4, <2>1 DEF Decisions
<1>7. ASSUME Publish PROVE Good
  <2>1. c \notin Open => card'[c] = card[c]
    BY <1>7 DEF Publish
  <2> QED BY <1>7, <2>1
<1> HIDE DEF Good
<1>8. Good
  BY <1>1, <1>2, <1>3, <1>5, <1>6, <1>7, StepCases
  DEF Lapses, Sends, Walks, Fails, Ends, Notes, Freezes, Advances, Create, Claim, RunTools, RouterReturns,
      Crash, delivery
<1> QED BY <1>8 DEF Good

\* Only the execution of a claimed generation adds to the executions.
LEMMA RunsStep ==
    ASSUME IInv, [Next]_vars, ~RunTools
    PROVE  runs' = runs
BY StepCases
DEF Moves, Decides, Lapses, Sends, Walks, Fails, Ends, Notes, Freezes, Advances, Create, Publish, Claim,
    RouterLeaves, RouterReturns, AgentLeaves, Crash

\* What the execution does to each call: one it has orders for was not executed
\* before and is executed as ordered.
LEMMA RunToolsStep ==
    ASSUME IInv, RunTools, NEW c \in Calls
    PROVE  /\ c \in pauses[run.obs.gen] =>
                 /\ runs[c] = <<>> /\ Len(runs'[c]) = 1 /\ runs'[c][1] = run.orders[c]
                 /\ card[c].init # "none" => card[c].edit = run.orders[c]
           /\ c \notin pauses[run.obs.gen] => runs'[c] = runs[c]
           /\ run'.pc = "ran" /\ run'.obs = run.obs /\ UNCHANGED <<cont, told, card, final, source>>
<1>1. RunnerShape /\ run.pc = "execute" /\ run \in Runners
  BY DEF IInv, ApprovalsInv, TypeOK, RunTools
<1>2. run.orders \in [pauses[run.obs.gen] -> Decisions] /\ (c \in pauses[run.obs.gen] => Ordered(c))
  BY <1>1 DEF RunnerShape
<1>3. runs'[c] = IF c \in DOMAIN run.orders THEN Append(runs[c], run.orders[c]) ELSE runs[c]
  BY DEF RunTools
<1>4. CASE c \in pauses[run.obs.gen]
  <2>1. runs[c] = <<>> /\ run.orders[c] \in Decisions /\ (card[c].init # "none" => card[c].edit = run.orders[c])
    BY <1>2, <1>4 DEF Ordered
  <2>2. runs'[c] = Append(<<>>, run.orders[c])
    BY <1>2, <1>3, <1>4, <2>1
  <2>3. Len(runs'[c]) = 1 /\ runs'[c][1] = run.orders[c]
    BY <2>2
  <2>4. run'.pc = "ran" /\ run'.obs = run.obs /\ UNCHANGED <<cont, told, card, final, source>>
    BY <1>1 DEF RunTools, At, Runners, delivery
  <2> QED BY <1>4, <2>1, <2>3, <2>4
<1>5. CASE c \notin pauses[run.obs.gen]
  <2>1. runs'[c] = runs[c]
    BY <1>2, <1>3, <1>5
  <2>2. run'.pc = "ran" /\ run'.obs = run.obs /\ UNCHANGED <<cont, told, card, final, source>>
    BY <1>1 DEF RunTools, At, Runners, delivery
  <2> QED BY <1>5, <2>1, <2>2
<1> QED BY <1>4, <1>5

\* A call is executed at most once, and as its card shows.
LEMMA RunsKept ==
    ASSUME IInv, [Next]_vars
    PROVE  RunsOnce' /\ RunsAsShown'
<1>0. /\ RunsOnce /\ RunsAsShown /\ GenerationShape /\ card \in [Calls -> CardRows]
      /\ runs \in [Calls -> Seq(Decisions)]
  BY DEF IInv, ApprovalsInv, TypeOK
<1>1. CASE RunTools
  <2> SUFFICES ASSUME NEW c \in Calls
               PROVE  /\ Len(runs'[c]) <= 1
                      /\ \A i \in 1..Len(runs'[c]) : card'[c].init # "none" => card'[c].edit = runs'[c][i]
    BY DEF RunsOnce, RunsAsShown
  <2>1. card' = card
    BY <1>1, RunToolsStep
  <2>2. CASE c \in pauses[run.obs.gen]
    <3>1. Len(runs'[c]) = 1 /\ runs'[c][1] = run.orders[c] /\ (card[c].init # "none" => card[c].edit = run.orders[c])
      BY <1>1, <2>2, RunToolsStep
    <3>2. \A i \in 1..1 : i = 1
      OBVIOUS
    <3> QED BY <2>1, <3>1, <3>2
  <2>3. CASE c \notin pauses[run.obs.gen]
    <3>1. runs'[c] = runs[c]
      BY <1>1, <2>3, RunToolsStep
    <3> QED BY <1>0, <2>1, <3>1 DEF RunsOnce, RunsAsShown
  <2> QED BY <2>2, <2>3
<1>2. CASE ~RunTools
  <2>1. runs' = runs
    BY <1>2, RunsStep
  <2>2. RunsOnce'
    BY <1>0, <2>1 DEF RunsOnce
  <2> SUFFICES ASSUME NEW c \in Calls, NEW i \in 1..Len(runs[c]), card'[c].init # "none"
               PROVE  card'[c].edit = runs[c][i]
    BY <2>1, <2>2 DEF RunsAsShown
  <2>3. runs[c][i] \in Decisions /\ runs[c] # <<>>
    BY <1>0
  <2>4. ASSUME card[c].init # "none" PROVE card[c].edit = runs[c][i] /\ card[c].edit # "none"
    BY <1>0, <2>3, <2>4 DEF RunsAsShown, Decisions
  <2>5. ~(Publish /\ c \in Open)
    <3>1. ASSUME Publish, c \in Open PROVE FALSE
      <4>1. cont.state = "waiting" /\ Exists /\ c \in pauses[cont.gen]
        BY <3>1 DEF Publish, HoldsLease, Open
      <4> QED BY <1>0, <2>3, <4>1 DEF GenerationShape
    <3> QED BY <3>1
  <2> QED BY <2>4, <2>5, EditStep
<1> QED BY <1>1, <1>2

\* The plan of a generation changes what its calls are told, and no others.
LEMMA PlanFacts ==
    ASSUME pauses \in Turns, NEW g \in DOMAIN pauses, NEW plan \in Plans(g), told' = Told(plan)
    PROVE  /\ \A c \in pauses[g] : told'[c] = plan[c] /\ told'[c] # "none"
           /\ \A c \in Calls : c \notin pauses[g] => told'[c] = told[c]
<1>1. DOMAIN plan = pauses[g] /\ \A c \in pauses[g] : plan[c] \in {"open", "approved", "denied"}
  BY DEF Plans
<1>2. pauses[g] \subseteq Calls
  BY PausesFacts
<1> QED BY <1>1, <1>2 DEF Told

\* A card and the journal go on agreeing on what was decided.
LEMMA CardShapeStep ==
    ASSUME IInv, [Next]_vars
    PROVE  CardShape'
<1> SUFFICES ASSUME NEW c \in Calls
             PROVE  /\ card'[c].init = "none" => card'[c] = NoCard
                    /\ card'[c].sent # "none" \/ card'[c].init = "retired" => card'[c].edit # "none"
                    /\ Exists' /\ card'[c].init # "none" =>
                           told'[c] = IF card'[c].edit = "none" THEN "open" ELSE card'[c].edit
  BY DEF CardShape
<1> DEFINE Shape == /\ card'[c].init = "none" => card'[c] = NoCard
                    /\ card'[c].sent # "none" \/ card'[c].init = "retired" => card'[c].edit # "none"
           Agree == Exists' /\ card'[c].init # "none" =>
                        told'[c] = IF card'[c].edit = "none" THEN "open" ELSE card'[c].edit
           Good == Shape /\ Agree
<1>0. /\ card \in [Calls -> CardRows] /\ card[c] \in CardRows /\ pauses \in Turns /\ cont \in Conts
      /\ GenerationShape /\ NoContShape /\ SourceIsOwned /\ CardIsAnswerable
      /\ card[c].init = "none" => card[c] = NoCard
      /\ card[c].sent # "none" \/ card[c].init = "retired" => card[c].edit # "none"
      /\ Exists /\ card[c].init # "none" => told[c] = IF card[c].edit = "none" THEN "open" ELSE card[c].edit
  BY DEF IInv, ApprovalsInv, TypeOK, CardShape
<1>1. ASSUME UNCHANGED <<card, told>>, Exists \/ ~Exists' PROVE Good
  BY <1>0, <1>1
<1>2. ASSUME NEW x \in Calls, Moves(x) PROVE Good
  <2>1. PICK new \in CardRows :
            /\ card' = [card EXCEPT ![x] = new] /\ new.init # "none" /\ new.edit = card[x].edit /\ card[x].init # "none"
            /\ new.sent # "none" \/ new.init = "retired" => new.edit # "none"
    BY <1>2 DEF Moves
  <2>2. told' = told /\ cont' = cont
    BY <1>2 DEF Moves
  <2>3. CASE x = c
    BY <1>0, <2>1, <2>2, <2>3 DEF Exists
  <2>4. CASE x # c
    BY <1>0, <2>1, <2>2, <2>4 DEF Exists
  <2> QED BY <2>3, <2>4
<1>3. ASSUME NEW S, Decides(S) PROVE Good
  <2>1. PICK d \in [S -> Decisions] :
            /\ told' = [x \in Calls |-> IF x \in S THEN d[x] ELSE told[x]]
            /\ card' = [x \in Calls |-> IF x \in S THEN [card[x] EXCEPT !.edit = d[x]] ELSE card[x]]
    BY <1>3 DEF Decides
  <2>2. CASE c \in S
    <3>1. card'[c].edit = d[c] /\ card'[c].init = card[c].init /\ told'[c] = d[c] /\ d[c] # "none"
      BY <1>0, <2>1, <2>2 DEF CardRows, Decisions
    <3>2. card[c].init # "none"
      BY <1>3, <2>2 DEF Decides, Resolvable, HasRow
    <3> QED BY <3>1, <3>2
  <2>3. CASE c \notin S
    <3>1. card'[c] = card[c] /\ told'[c] = told[c]
      BY <2>1, <2>3
    <3>2. Exists' => Exists
      BY <1>0, <1>3 DEF Decides, Exists
    <3> QED BY <1>0, <3>1, <3>2
  <2> QED BY <2>2, <2>3
<1>4. ASSUME Ends PROVE Good
  <2>1. card' = card /\ ~Exists'
    BY <1>4 DEF Ends, Release, Exists, NoCont
  <2> QED BY <1>0, <2>1
<1>5. ASSUME AgentLeaves PROVE Good
  <2>1. ~Exists'
    BY <1>5 DEF AgentLeaves, Release, Exists, NoCont
  <2>2. card'[c] = card[c] \/ card'[c] = Departed(c, "expired")
    BY <1>5 DEF AgentLeaves
  <2>3. CASE card'[c] = Departed(c, "expired")
    <3>1. (card'[c].init = "none" => card'[c] = NoCard) /\ (card'[c].init # "none" => card'[c].edit # "none")
      BY <2>3, DepartedCard DEF Decisions
    <3> QED BY <2>1, <3>1 DEF NoCard
  <2> QED BY <1>0, <2>1, <2>2, <2>3
<1>6. ASSUME RouterLeaves PROVE Good
  <2>1. card'[c] = Departed(c, "denied")
    BY <1>6 DEF RouterLeaves
  <2>2. /\ card'[c].init = "none" => card'[c] = NoCard
        /\ card'[c].init # "none" => /\ card[c].init # "none" /\ card'[c].edit # "none"
                                     /\ Undecided(c) => card'[c].edit = "denied"
                                     /\ ~Undecided(c) => card'[c].edit = card[c].edit
    BY <2>1, DepartedCard DEF Decisions
  <2>3. Exists' => Exists
    BY <1>6 DEF RouterLeaves, Exists
  <2>4. told'[c] = IF Undecided(c) /\ told[c] = "open" THEN "denied" ELSE told[c]
    BY <1>6 DEF RouterLeaves
  <2>5. Undecided(c) => told[c] = "open"
    BY <1>0 DEF CardIsAnswerable, Open
  <2> QED BY <1>0, <2>2, <2>3, <2>4, <2>5 DEF NoCard
<1>7. ASSUME NEW plan, Advances(plan) PROVE Good
  <2>1. /\ cont.state = "claimed" /\ cont.gen + 1 \in DOMAIN pauses /\ plan \in Plans(cont.gen + 1)
        /\ told' = Told(plan) /\ card' = card
    BY <1>7 DEF Advances
  <2>2. cont.gen \in Nat /\ cont.gen + 1 > cont.gen
    BY <1>0, PausesFacts DEF Conts
  <2>3. c \in pauses[cont.gen + 1] => card[c].init = "none"
    BY <1>0, <2>1, <2>2 DEF GenerationShape, Exists, NoCard
  <2>4. c \notin pauses[cont.gen + 1] => told'[c] = told[c]
    BY <1>0, <2>1, PlanFacts
  <2> QED BY <1>0, <2>1, <2>3, <2>4 DEF Exists
<1>8. ASSUME NEW plan \in Plans(1), Create(plan) PROVE Good
  <2>1. ~Exists /\ source = "pending" /\ card' = card
    BY <1>0, <1>8 DEF Create, SourceIsOwned, delivery
  <2>2. card'[c] = NoCard
    BY <1>0, <2>1 DEF NoContShape
  <2> QED BY <2>2 DEF NoCard
<1>9. ASSUME Publish PROVE Good
  <2>1. Exists /\ told' = told
    BY <1>9 DEF Publish, HoldsLease
  <2>2. CASE c \in Open
    <3>1. card'[c] = [NoCard EXCEPT !.init = "reserved"]
      BY <1>9, <2>2 DEF Publish
    <3> QED BY <2>1, <2>2, <3>1 DEF NoCard, Open
  <2>3. CASE c \notin Open
    <3>1. card'[c] = card[c]
      BY <1>9, <2>3 DEF Publish
    <3> QED BY <1>0, <2>1, <3>1
  <2> QED BY <2>2, <2>3
<1>10. Exists \/ ~Exists' \/ \E plan \in Plans(1) : Create(plan)
  BY ExistsStep
<1> HIDE DEF Good
<1>11. Good
  BY <1>1, <1>2, <1>3, <1>4, <1>5, <1>6, <1>7, <1>8, <1>9, <1>10, StepCases
  DEF Lapses, Sends, Walks, Fails, Notes, Freezes, Claim, RunTools, RouterReturns, Crash, delivery
<1> QED BY <1>11 DEF Good

\* The generation that runs next is planned, decided before it is ready and not
\* executed before it is claimed.
LEMMA GenerationStep ==
    ASSUME IInv, [Next]_vars
    PROVE  GenerationShape'
<1> SUFFICES ASSUME Exists' PROVE GenerationShape'
  BY DEF GenerationShape
<1>0. /\ pauses \in Turns /\ pauses' = pauses /\ cont \in Conts /\ GenerationShape /\ NoContShape /\ SourceIsOwned
      /\ CardIsAnswerable /\ RunnerShape /\ told \in [Calls -> {"none", "open"} \cup Decisions] /\ card \in [Calls -> CardRows]
  BY PausesStand DEF IInv, ApprovalsInv, TypeOK
<1> DEFINE Gen(k) == \A c \in pauses[k] :
                       /\ told'[c] # "none"
                       /\ cont'.state \in {"ready", "claimed"} => told'[c] # "open"
                       /\ cont'.state \in {"waiting", "ready"} => runs'[c] = <<>>
           Later(k) == \A g \in DOMAIN pauses : g > k =>
                         \A c \in pauses[g] : told'[c] = "none" /\ card'[c] = NoCard /\ runs'[c] = <<>>
           Good == Gen(cont'.gen) /\ Later(cont'.gen)
<1>1. ASSUME Good PROVE GenerationShape'
  BY <1>0, <1>1 DEF GenerationShape
<1>2. ASSUME NEW plan \in Plans(1), Create(plan) PROVE Good
  <2>1. ~Exists /\ source = "pending" /\ told' = Told(plan) /\ UNCHANGED <<card, runs>>
    BY <1>0, <1>2 DEF Create, SourceIsOwned, delivery
  <2>2. cont'.gen = 1 /\ (cont'.state \in {"ready", "claimed"} => \A c \in pauses[1] : plan[c] # "open")
    BY <1>2 DEF Create
  <2>3. \A c \in Calls : told[c] = "none" /\ card[c] = NoCard /\ runs[c] = <<>>
    BY <1>0, <2>1 DEF NoContShape, NoCalls
  <2>4. 1 \in DOMAIN pauses /\ pauses[1] \subseteq Calls
    BY <1>0, PausesFacts
  <2>5. /\ \A c \in pauses[1] : told'[c] = plan[c] /\ told'[c] # "none"
        /\ \A c \in Calls : c \notin pauses[1] => told'[c] = told[c]
    BY <1>0, <2>1, <2>4, PlanFacts
  <2>6. Gen(1)
    BY <2>1, <2>2, <2>3, <2>4, <2>5
  <2>7. \A g \in DOMAIN pauses : g > 1 => \A c \in pauses[g] : c \in Calls /\ c \notin pauses[1]
    BY <1>0, <2>4, PausesFacts
  <2>8. Later(1)
    BY <2>1, <2>3, <2>5, <2>7
  <2> QED BY <2>2, <2>6, <2>8
<1>3. ASSUME ~(\E plan \in Plans(1) : Create(plan))
      PROVE  /\ Exists /\ cont.gen \in DOMAIN pauses /\ pauses[cont.gen] \subseteq Calls
             /\ \A c \in pauses[cont.gen] :
                  /\ told[c] # "none"
                  /\ cont.state \in {"ready", "claimed"} => told[c] # "open"
                  /\ cont.state \in {"waiting", "ready"} => runs[c] = <<>>
             /\ \A g \in DOMAIN pauses : g > cont.gen =>
                  \A c \in pauses[g] : /\ told[c] = "none" /\ card[c] = NoCard /\ runs[c] = <<>>
                                       /\ c \in Calls /\ c \notin pauses[cont.gen]
  <2>1. Exists
    BY <1>3, ExistsStep
  <2>2. cont.gen \in DOMAIN pauses /\ cont.gen \in Nat /\ pauses[cont.gen] \subseteq Calls
    BY <1>0, PausesFacts DEF Conts
  <2>3. \A g \in DOMAIN pauses : g > cont.gen => \A c \in pauses[g] : c \in Calls /\ c \notin pauses[cont.gen]
    BY <1>0, <2>2, PausesFacts
  <2> QED BY <1>0, <2>1, <2>2, <2>3 DEF GenerationShape
<1> DEFINE Old == ~(\E plan \in Plans(1) : Create(plan))
<1>4. ASSUME Old, UNCHANGED <<told, card, runs>>, cont'.gen = cont.gen,
             cont'.state \in {cont.state, "failing"} \/ (cont.state = "ready" /\ cont'.state = "claimed")
      PROVE  Good
  BY <1>3, <1>4
<1>5. ASSUME Old, NEW x \in Calls, Moves(x) PROVE Good
  <2>1. UNCHANGED <<told, runs, cont>> /\ card[x].init # "none" /\ \A c \in Calls : c # x => card'[c] = card[c]
    BY <1>0, <1>5 DEF Moves
  <2>2. \A c \in Calls : card[c] = NoCard => card'[c] = NoCard
    BY <2>1 DEF NoCard
  <2> QED BY <1>3, <1>5, <2>1, <2>2
<1>6. ASSUME Old, NEW S, Decides(S) PROVE Good
  <2>1. /\ \A c \in Calls : c \notin S => told'[c] = told[c] /\ card'[c] = card[c]
        /\ \A c \in S : c \in Calls => told'[c] \in Decisions
    BY <1>6 DEF Decides
  <2>2. \A c \in S : c \in pauses[cont.gen] /\ c \in Calls
    BY <1>6 DEF Decides, Resolvable, Open
  <2>3. /\ cont'.gen = cont.gen /\ runs' = runs
        /\ cont'.state = cont.state
             \/ (cont.state = "waiting" /\ cont'.state = "ready" /\ \A c \in pauses[cont.gen] : told'[c] # "open")
    BY <1>0, <1>6 DEF Decides, Conts
  <2>4. \A c \in pauses[cont.gen] : told'[c] # "none" /\ (told'[c] = "open" => told[c] = "open")
    BY <1>3, <1>6, <2>1, <2>2 DEF Decisions
  <2>5. Gen(cont.gen)
    BY <1>3, <1>6, <2>3, <2>4
  <2>6. Later(cont.gen)
    BY <1>3, <1>6, <2>1, <2>2, <2>3
  <2> QED BY <2>3, <2>5, <2>6
<1>7. ASSUME Old, NEW plan, Advances(plan) PROVE Good
  <2>1. /\ cont.state = "claimed" /\ cont.gen + 1 \in DOMAIN pauses /\ plan \in Plans(cont.gen + 1)
        /\ told' = Told(plan) /\ UNCHANGED <<card, runs>>
        /\ cont' = [cont EXCEPT !.state = "waiting", !.gen = cont.gen + 1]
    BY <1>7 DEF Advances
  <2>2. cont'.gen = cont.gen + 1 /\ cont'.state = "waiting"
    BY <1>0, <2>1 DEF Conts
  <2>3. cont.gen \in Nat /\ cont.gen + 1 > cont.gen /\ \A g \in Nat : g > cont.gen + 1 => g > cont.gen
    BY <1>0, PausesFacts DEF Conts
  <2>4. /\ \A c \in pauses[cont.gen + 1] : told'[c] # "none"
        /\ \A c \in Calls : c \notin pauses[cont.gen + 1] => told'[c] = told[c]
    BY <1>0, <2>1, PlanFacts
  <2>5. Gen(cont.gen + 1)
    BY <1>3, <1>7, <2>1, <2>2, <2>3, <2>4
  <2>6. \A g \in DOMAIN pauses : g > cont.gen + 1 => g > cont.gen /\ \A c \in pauses[g] : c \notin pauses[cont.gen + 1]
    BY <1>0, <2>1, <2>3, PausesFacts
  <2>7. Later(cont.gen + 1)
    BY <1>3, <1>7, <2>1, <2>4, <2>6
  <2> QED BY <2>2, <2>5, <2>7
<1>8. ASSUME Old, Publish PROVE Good
  <2>1. cont'.gen = cont.gen /\ UNCHANGED <<told, runs>> /\ cont.state = "waiting" /\ (cont'.state = "ready" => Open = {})
        /\ cont'.state \in {"waiting", "ready"}
    BY <1>0, <1>8 DEF Publish, HoldsLease, Conts
  <2>2. \A c \in Calls : c \notin pauses[cont.gen] => card'[c] = card[c]
    BY <1>8 DEF Publish, Open
  <2>3. Open = {} => \A c \in pauses[cont.gen] : told[c] # "open"
    BY DEF Open
  <2>4. Gen(cont.gen)
    BY <1>3, <1>8, <2>1, <2>3
  <2>5. Later(cont.gen)
    BY <1>3, <1>8, <2>1, <2>2
  <2> QED BY <2>1, <2>4, <2>5
<1>9. ASSUME Old, RunTools PROVE Good
  <2>1. UNCHANGED <<cont, told, card>> /\ cont = run.obs /\ cont.state = "claimed"
    BY <1>0, <1>3, <1>9, RunToolsStep DEF RunTools, RunnerShape, delivery
  <2>2. \A c \in Calls : c \notin pauses[cont.gen] => runs'[c] = runs[c]
    BY <1>9, <2>1, RunToolsStep
  <2> QED BY <1>3, <1>9, <2>1, <2>2
<1>10. ASSUME Old, RouterLeaves PROVE Good
  <2>1. cont'.gen = cont.gen /\ runs' = runs /\ cont'.state \in {cont.state, "failing"}
    BY <1>0, <1>10 DEF RouterLeaves, Conts
  <2>2. \A c \in Calls : told'[c] = told[c] \/ (told'[c] = "denied" /\ told[c] = "open")
    BY <1>10 DEF RouterLeaves
  <2>3. \A c \in Calls : card[c] = NoCard => card'[c] = NoCard
    BY <1>10, DepartedCard DEF RouterLeaves, Decisions
  <2> QED BY <1>3, <1>10, <2>1, <2>2, <2>3
<1>11. ASSUME Fails \/ Claim
       PROVE  /\ UNCHANGED <<told, card, runs>> /\ cont'.gen = cont.gen
              /\ cont'.state \in {cont.state, "failing"} \/ (cont.state = "ready" /\ cont'.state = "claimed")
  BY <1>0, <1>11 DEF Fails, Failing, Claim, Conts, delivery
<1>12. ~Ends /\ ~AgentLeaves
  BY DEF Ends, AgentLeaves, Release, Exists, NoCont
<1> HIDE DEF Good
<1>13. Good
  <2>1. CASE ~Old
    BY <1>2, <2>1
  <2>2. CASE Old
    <3>1. ASSUME UNCHANGED <<cont, told, card, runs>> PROVE Good
      BY <1>4, <2>2, <3>1
    <3>2. ASSUME Fails \/ Claim PROVE Good
      BY <1>4, <1>11, <2>2, <3>2
    <3> QED
      BY <1>5, <1>6, <1>7, <1>8, <1>9, <1>10, <1>12, <2>2, <3>1, <3>2, StepCases
      DEF Lapses, Sends, Walks, Notes, Freezes, RouterReturns, Crash, delivery
  <2> QED BY <2>1, <2>2
<1> QED BY <1>1, <1>13

-----------------------------------------------------------------------------
(* The runner.                                                             *)

\* How the runner comes to the places that RunnerShape is about.
LEMMA RunnerCases ==
    ASSUME IInv, [Next]_vars, run'.pc \in {"execute", "ran", "finish"}
    PROVE  \/ run' = run /\ ~Publish /\ ~Claim /\ ~RunTools /\ ~Fails /\ ~Notes /\ ~Freezes
                         /\ ~(\E plan : Advances(plan)) /\ ~(\E plan \in Plans(1) : Create(plan))
           \/ run'.pc = "finish" /\ Walks
           \/ Claim \/ RunTools
<1>0. TypeOK /\ run \in Runners
  BY DEF IInv, ApprovalsInv, TypeOK
<1> DEFINE Good == \/ run' = run /\ ~Publish /\ ~Claim /\ ~RunTools /\ ~Fails /\ ~Notes /\ ~Freezes
                                 /\ ~(\E plan : Advances(plan)) /\ ~(\E plan \in Plans(1) : Create(plan))
                   \/ run'.pc = "finish" /\ Walks
                   \/ Claim \/ RunTools
<1>1. Idle.pc = "idle" /\ At("deliver").pc = "deliver" /\ At("flush").pc = "flush"
      /\ [Idle EXCEPT !.pc = "paused", !.first = TRUE].pc = "paused"
  <2>1. [Idle EXCEPT !.pc = "paused", !.first = TRUE].pc = "paused"
    BY DEF Idle
  <2> QED BY <1>0, <2>1, RunnerTypes
<1>2. ~Publish /\ ~Fails /\ ~Ends /\ ~Notes /\ ~Freezes /\ ~Crash
  BY <1>1 DEF Publish, Fails, Ends, Notes, Freezes, Crash
<1>3. ASSUME NEW plan, Advances(plan) PROVE FALSE
  <2>1. run'.pc = "publish"
    BY <1>0, <1>3 DEF Advances, Runners
  <2> QED BY <2>1
<1>4. ASSUME NEW plan \in Plans(1), Create(plan) PROVE FALSE
  <2>1. \A new : [run EXCEPT !.pc = "publish", !.obs = new].pc = "publish"
    BY <1>0 DEF Runners
  <2> QED BY <1>1, <1>4, <2>1 DEF Create
<1>5. ASSUME run' = run, ~Claim, ~RunTools PROVE Good
  BY <1>2, <1>3, <1>4, <1>5
<1>6. ASSUME Walks, ~Claim, ~RunTools PROVE Good
  BY <1>5, <1>6 DEF Walks
<1>7. ASSUME NEW S, Decides(S), ~Claim, ~RunTools PROVE Good
  BY <1>1, <1>5, <1>7 DEF Decides
<1>8. ASSUME Claim \/ RunTools PROVE Good
  BY <1>8
<1> HIDE DEF Good
<1>9. Good
  BY <1>2, <1>3, <1>4, <1>5, <1>6, <1>7, <1>8, StepCases
  DEF Moves, Lapses, Sends, RouterLeaves, RouterReturns, AgentLeaves
<1> QED BY <1>9 DEF Good

\* A claim finds calls that were not executed, and orders what their cards show.
LEMMA ClaimStep ==
    ASSUME IInv, Claim
    PROVE  /\ run'.pc = "execute" /\ run'.obs = cont' /\ cont'.state = "claimed" /\ cont'.gen = cont.gen
           /\ final' = NoFinal /\ run'.orders \in [pauses[cont.gen] -> Decisions]
           /\ \A c \in pauses[cont.gen] : Ordered(c)'
<1>0. /\ TypeOK /\ cont \in Conts /\ run \in Runners /\ pauses \in Turns /\ final \in Finals
      /\ GenerationShape /\ CardShape /\ FinalShape /\ cont.state = "ready" /\ Exists
      /\ told \in [Calls -> {"none", "open"} \cup Decisions]
  BY DEF IInv, ApprovalsInv, TypeOK, Claim, Exists
<1> DEFINE o == [c \in pauses[cont.gen] |-> told[c]]
<1>1. run' = [run EXCEPT !.pc = "execute", !.obs = cont', !.orders = o] /\ UNCHANGED <<card, final, runs>>
      /\ cont' = [cont EXCEPT !.state = "claimed", !.lease = runtime]
  BY DEF Claim, delivery
<1>2. run'.pc = "execute" /\ run'.obs = cont' /\ run'.orders = o
  <2> HIDE DEF o
  <2> QED BY <1>0, <1>1 DEF Runners
<1>3. cont'.state = "claimed" /\ cont'.gen = cont.gen
  BY <1>0, <1>1 DEF Conts
<1>4. final' = NoFinal
  BY <1>0, <1>1 DEF FinalShape, Finals, NoFinal
<1>5. \A c \in pauses[cont.gen] : c \in Calls /\ told[c] \in Decisions /\ runs[c] = <<>>
  <2>1. pauses[cont.gen] \subseteq Calls
    BY <1>0, PausesFacts DEF Conts
  <2> QED BY <1>0, <2>1 DEF GenerationShape
<1>6. o \in [pauses[cont.gen] -> Decisions]
  BY <1>5
<1>7. ASSUME NEW c \in pauses[cont.gen] PROVE Ordered(c)'
  <2>1. card[c].init # "none" => told[c] = IF card[c].edit = "none" THEN "open" ELSE card[c].edit
    BY <1>0, <1>5 DEF CardShape
  <2>2. card[c].init # "none" => card[c].edit = told[c]
    BY <1>5, <2>1 DEF Decisions
  <2>3. run'.orders[c] = told[c]
    BY <1>2
  <2> HIDE DEF o
  <2> QED BY <1>1, <1>5, <2>2, <2>3 DEF Ordered
<1> HIDE DEF o
<1> QED BY <1>2, <1>3, <1>4, <1>6, <1>7

\* A run works on the continuation it claimed, with the decisions it was given.
LEMMA RunnerKept ==
    ASSUME IInv, [Next]_vars
    PROVE  RunnerShape'
<1> SUFFICES ASSUME run'.pc \in {"execute", "ran", "finish"} PROVE RunnerShape'
  BY DEF RunnerShape
<1>0. /\ TypeOK /\ cont \in Conts /\ run \in Runners /\ pauses' = pauses /\ RunnerShape
  BY PausesStand DEF IInv, ApprovalsInv, TypeOK
<1>1. CASE Claim
  <2>1. /\ run'.pc = "execute" /\ run'.obs = cont' /\ cont'.state = "claimed" /\ cont'.gen = cont.gen
        /\ final' = NoFinal /\ run'.orders \in [pauses[cont.gen] -> Decisions]
        /\ \A c \in pauses[cont.gen] : Ordered(c)'
    BY <1>1, ClaimStep
  <2> QED BY <1>0, <2>1 DEF RunnerShape
<1>2. CASE RunTools
  <2>1. run'.pc = "ran" /\ run'.obs = run.obs /\ UNCHANGED <<cont, final>> /\ run.pc = "execute"
    BY <1>0, <1>2 DEF RunTools, At, Runners, delivery
  <2> QED BY <1>0, <2>1 DEF RunnerShape, Exists
<1>3. CASE run'.pc = "finish" /\ Walks
  <2>1. run' = run \/ (NothingAsked /\ cont.state \in {"none", "failing"})
    BY <1>3 DEF Walks
  <2>2. NothingAsked /\ cont.state \in {"none", "failing"}
    BY <1>0, <1>3, <2>1 DEF RunnerShape
  <2>3. card' = card /\ cont' = cont
    BY <1>3 DEF Walks
  <2>4. NothingAsked'
    BY <2>2, <2>3 DEF NothingAsked, Undecided, HasRow
  <2> QED BY <1>3, <2>2, <2>3, <2>4 DEF RunnerShape
<1>4. CASE run' = run /\ ~Publish /\ ~Claim /\ ~RunTools /\ ~Fails /\ ~Notes /\ ~Freezes
                      /\ ~(\E plan : Advances(plan)) /\ ~(\E plan \in Plans(1) : Create(plan))
  <2>1. Exists' => Exists /\ (cont' = cont \/ (\E S : Decides(S)) \/ RouterLeaves)
    BY <1>4, ExistsStep
  <2>2. ASSUME Exists', cont.state \in {"claimed", "failing"} PROVE cont' = cont
    BY <2>1, <2>2 DEF Decides, RouterLeaves
  <2>3. CASE run.pc = "finish"
    <3>1. NothingAsked /\ cont.state \in {"none", "failing"}
      BY <1>0, <2>3 DEF RunnerShape
    <3>2. NothingAsked'
      BY <1>4, <3>1, NothingAskedStep
    <3>3. cont'.state \in {"none", "failing"}
      BY <2>1, <2>2, <3>1 DEF Exists
    <3> QED BY <1>4, <2>3, <3>2, <3>3 DEF RunnerShape
  <2>4. CASE run.pc \in {"execute", "ran"}
    <3>1. run.obs.state = "claimed" /\ (Exists => cont = run.obs) /\ final = NoFinal
      BY <1>0, <2>4 DEF RunnerShape
    <3>2. Exists' => cont' = run.obs
      BY <2>1, <2>2, <3>1
    <3>3. final' = NoFinal
      BY <1>4, <3>1, FinalCases DEF Sends, AgentLeaves, NoFinal
    <3>4. ASSUME run.pc = "execute", NEW c \in pauses[run.obs.gen] PROVE Ordered(c)'
      <4>1. run.orders[c] \in Decisions /\ runs[c] = <<>> /\ (card[c].init # "none" => card[c].edit = run.orders[c])
        BY <1>0, <3>4 DEF RunnerShape, Ordered
      <4>2. runs' = runs
        BY <1>4, RunsStep
      <4>3. c \in Calls
        BY <1>0, PausesFacts DEF TypeOK, Runners, Conts
      <4>4. ASSUME card'[c].init # "none" PROVE card'[c].edit = run.orders[c]
        <5>1. card[c].init # "none" /\ (card'[c].edit = card[c].edit \/ card[c].edit = "none")
          BY <1>4, <4>3, <4>4, EditStep
        <5> QED BY <4>1, <5>1 DEF Decisions
      <4> QED BY <1>4, <4>1, <4>2, <4>4 DEF Ordered
    <3>5. run.pc = "execute" => run.orders \in [pauses[run.obs.gen] -> Decisions]
      BY <1>0 DEF RunnerShape
    <3> QED BY <1>0, <1>4, <2>4, <3>1, <3>2, <3>3, <3>4, <3>5 DEF RunnerShape
  <2> QED BY <1>4, <2>3, <2>4
<1> QED BY <1>1, <1>2, <1>3, <1>4, RunnerCases

-----------------------------------------------------------------------------
(* The theorems.                                                           *)

\* A turn begins in the invariant.
LEMMA InitInv ==
    ASSUME Init
    PROVE  IInv
<1>1. pauses \in Turns /\ cont = NoCont /\ told = NoCalls /\ final = NoFinal /\ source = "pending"
      /\ here = [p \in {"agent", "router"} |-> TRUE] /\ runtime = 1 /\ troubles = 0 /\ ~Exists
      /\ late = {} /\ woken = FALSE /\ owner = "live"
  BY DEF Init, Exists, NoCont
<1>2. \A c \in Calls : card[c] = NoCard /\ runs[c] = <<>> /\ told[c] = "none" /\ ~Undecided(c)
  BY DEF Init, NoCalls, Undecided, HasRow, NoCard
<1>3. NoCont \in Conts
  BY <1>1, PausesFacts DEF NoCont, Conts
<1>4. run \in Runners /\ run.pc = "paused"
  <2>1. Idle \in Runners
    BY <1>3 DEF Idle, Runners, Orders
  <2>2. [Idle EXCEPT !.pc = "paused"] \in Runners
    <3> HIDE DEF Idle
    <3> QED BY <2>1 DEF Runners
  <2>3. [Idle EXCEPT !.pc = "paused", !.first = TRUE] \in Runners
    <3> HIDE DEF Idle
    <3> QED BY <2>2 DEF Runners
  <2>4. [Idle EXCEPT !.pc = "paused", !.first = TRUE].pc = "paused"
    BY DEF Idle
  <2> QED BY <2>3, <2>4 DEF Init
<1>5. TypeOK
  <2>1. card \in [Calls -> CardRows] /\ told \in [Calls -> {"none", "open"} \cup Decisions]
    BY DEF Init, NoCard, NoCalls, CardRows
  <2>2. runs \in [Calls -> Seq(Decisions)]
    BY DEF Init
  <2>3. final \in Finals /\ here \in [{"agent", "router"} -> BOOLEAN]
    BY <1>1 DEF NoFinal, Finals
  <2>4. lost \in [cards : SUBSET Calls, answer : BOOLEAN]
    BY DEF Init, NoneLost
  <2>5. runtime \in Runtimes /\ troubles \in 0..MaxTroubles
    BY <1>1, ApprovalsAssumption DEF Runtimes
  <2> QED BY <1>1, <1>3, <1>4, <2>1, <2>2, <2>3, <2>4, <2>5 DEF TypeOK
<1>6. SourceIsOwned /\ CardIsAnswerable /\ AnswerIsKept
  BY <1>1, <1>2, <1>4 DEF SourceIsOwned, CardIsAnswerable, AnswerIsKept, NoFinal
<1>7. RunsOnce /\ RunsAsShown
  BY <1>2 DEF RunsOnce, RunsAsShown
<1>8. NoContShape /\ GenerationShape
  BY <1>1, <1>2 DEF NoContShape, GenerationShape
<1>9. CardShape
  BY <1>1, <1>2 DEF CardShape, NoCard
<1>10. RunnerShape /\ FinalShape /\ HereShape
  BY <1>1, <1>4 DEF RunnerShape, FinalShape, HereShape, NoFinal
<1> QED BY <1>1, <1>5, <1>6, <1>7, <1>8, <1>9, <1>10 DEF IInv, ApprovalsInv

\* Every step keeps the invariant.
LEMMA InvStep ==
    ASSUME IInv, [Next]_vars
    PROVE  IInv'
<1>1. TypeOK' /\ SourceIsOwned' /\ CardIsAnswerable' /\ AnswerIsKept'
  BY TypeStep, SourceStep, AnswerableStep, FinalKept
<1>2. RunsOnce' /\ RunsAsShown'
  BY RunsKept
<1>3. NoContShape' /\ GenerationShape' /\ CardShape'
  BY NoContStep, GenerationStep, CardShapeStep
<1>4. RunnerShape' /\ FinalShape' /\ HereShape'
  BY RunnerKept, FinalKept, HereStep
<1>5. runtime' <= troubles' + 1
  BY ClockStep
<1> QED BY <1>1, <1>2, <1>3, <1>4, <1>5 DEF IInv, ApprovalsInv

\* The inductive invariant holds in every state of every turn.
LEMMA InvHolds == Spec => []IInv
<1>1. Init => IInv
  BY InitInv
<1>2. IInv /\ [Next]_vars => IInv'
  BY InvStep
<1> QED BY <1>1, <1>2, PTL DEF Spec

\* The state has its type, a source has one owner until it is settled, a card
\* that asks is one whose answer counts, and a frozen answer is not turned into a
\* failure, whatever the turn and however many troubles.
THEOREM ApprovalsCorrect == Spec => []ApprovalsInv
<1>1. IInv => ApprovalsInv
  BY DEF IInv
<1> QED BY <1>1, InvHolds, PTL

\* No tool call is executed twice: not by a claim that is retried, a process that
\* dies after it ran the tools, or a pause that goes on in a next generation.
THEOREM ToolsRunOnce == Spec => []RunsOnce
<1>1. IInv => RunsOnce
  BY DEF IInv
<1> QED BY <1>1, InvHolds, PTL

\* A tool is told what its card shows, before and after the execution, also when
\* the router or the agent has left the room in between.
THEOREM ToolsRunAsShown == Spec => []RunsAsShown
<1>1. IInv => RunsAsShown
  BY DEF IInv
<1> QED BY <1>1, InvHolds, PTL
===============================================================================
