\* Two processes share the database, each sends as either device, and the account
\* leaves and rejoins the room.
CONSTANTS
    t1 = t1  t2 = t2  p1 = p1  p2 = p2  d1 = d1  d2 = d2  y1 = y1  y2 = y2
    Turns = {t1}
    Processes = {p1, p2}
    Devices = {d1, d2}
    Payloads = {y1}
    NoPayload = NoPayload
    NoEvent = NoEvent
    NoDevice = NoDevice
    Nameless = {}
    Reloggers = {}
    HookTurns = {}
    RecordedTurns = {t1}
    Environment = {}
    MaxEpoch = 1
SPECIFICATION Spec
SYMMETRY Symmetry
INVARIANTS
    RecordNamesAnswer
    OneMembershipPerTurn
    TranscriptIsCurrent
    HandoffKeepsOwner
PROPERTIES
    OutcomeIsStable
    NoAttemptAfterFence
    ImplementsShared
