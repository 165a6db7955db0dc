----------------------------- MODULE AnswerOnce -----------------------------
(***************************************************************************)
(* What the delivery machinery promises the rest of the system about the   *)
(* answer of a turn: it is handed over once, it reaches one outcome, the   *)
(* outcome is not taken back for a lesser one, and an answer is reported   *)
(* as delivered only when the homeserver has it. MatrixDelivery implements *)
(* it; nothing here knows of rows, claims, devices or processes.           *)
(***************************************************************************)
CONSTANTS
    Turns,
    Exclusive   \* a single process sends, so nobody acts on an outdated claim

VARIABLES
    phase,      \* what is recorded of the answer of each turn
    posted,     \* whether the homeserver accepted it
    stuck       \* answers for whose fate there is no evidence to be had

vars == <<phase, posted>>

Outcomes == {"refused", "withdrawn", "delivered"}
Phases == {"none", "owed"} \cup Outcomes

Init ==
    /\ phase = [t \in Turns |-> "none"]
    /\ posted = [t \in Turns |-> FALSE]

Becomes(t, p) == phase'[t] = p /\ posted'[t] = posted[t]

\* The answer is handed over; one that can never be sent is refused at once.
HandOver(t) == phase[t] = "none" /\ (Becomes(t, "owed") \/ Becomes(t, "refused"))

\* The homeserver accepts it, whoever offers it and however often.
Post(t) ==
    /\ phase[t] # "none" /\ (Exclusive => phase[t] = "owed")
    /\ posted'[t] /\ phase'[t] = phase[t]

\* Without Exclusive a second sender may yet deliver what the first gave up.
Deliver(t) ==
    /\ phase[t] # "none" /\ (Exclusive => phase[t] = "owed")
    /\ posted[t] /\ Becomes(t, "delivered")

Refuse(t) == phase[t] = "owed" /\ Becomes(t, "refused")

\* With Exclusive only an answer nobody can see is withdrawn.
Withdraw(t) ==
    /\ phase[t] \in {"owed", "refused"} /\ (Exclusive => ~posted[t])
    /\ Becomes(t, "withdrawn")

Advance(t) ==
    \/ Becomes(t, phase[t])
    \/ HandOver(t) \/ Post(t) \/ Deliver(t) \/ Refuse(t) \/ Withdraw(t)

\* Leaving a room withdraws the answers of many turns in one step.
Next ==
    /\ phase' = [t \in Turns |-> phase'[t]] /\ posted' = [t \in Turns |-> posted'[t]]
    /\ \A t \in Turns : Advance(t)

Spec == Init /\ [][Next]_vars

\* No answer is owed for ever, unless its fate stays unknowable for ever.
EverySettles ==
    \A t \in Turns : []<>(phase[t] # "owed") \/ <>[](t \in stuck)

LiveSpec == Spec /\ EverySettles
=============================================================================
