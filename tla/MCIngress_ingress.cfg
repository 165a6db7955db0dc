\* Nine mixes of two or three events, one root at a time.
CONSTANTS
    a = a  b = b  c = c  x = x  y = y  original = original
    Sources = {a, b, c}
    Senders = {x, y}
    NoThread = NoThread
    FollowUp = FollowUp
    Traffics <- MCTraffics
    MaxRoots = 1
SPECIFICATION FairSpec
CHECK_DEADLOCK FALSE
INVARIANTS
    IngressInv
    AnsweredOnce
    BurstInOrder
PROPERTIES
    EveryoneServed
