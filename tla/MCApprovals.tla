---- MODULE MCApprovals ----
EXTENDS Approvals

CONSTANTS c1, c2

\* A turn that pauses once, on two calls, and one that pauses twice.
MCTurns == {<<{c1, c2}>>, <<{c1}, {c2}>>}
====
