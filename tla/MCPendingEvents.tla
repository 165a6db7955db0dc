-------------------------- MODULE MCPendingEvents --------------------------
EXTENDS PendingEvents

CONSTANT r1

OneRoomOf == [e \in Events |-> r1]
Batch(admits, settles) == [admits |-> admits, settles |-> settles]

\* Both events at once, on one page, with a trouble.
OneBatch ==
    [batches |-> <<Batch({1, 2}, {})>>, turnBacked |-> {1},
     batchSize |-> 2, maxPages |-> 1, troubles |-> 1]

\* The second batch delivers event 1 again, and redacts it; pages of one row.
Redelivery ==
    [batches |-> <<Batch({1}, {}), Batch({1, 2}, {1})>>, turnBacked |-> {2},
     batchSize |-> 1, maxPages |-> 2, troubles |-> 0]

BothWorkloads == {OneBatch, Redelivery}
============================================================================
