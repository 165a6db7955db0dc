\* Two calls in one pause or in two, and two troubles.
SPECIFICATION FairSpec
CONSTANTS
    c1 = c1
    c2 = c2
    Turns <- MCTurns
    MaxTroubles = 2
INVARIANTS
    ApprovalsInv
    RunsOnce
    RunsAsShown
PROPERTIES
    EveryPauseSettles
    CardsAreRetired
CHECK_DEADLOCK FALSE
