\* One process that crashes and re-logs in, two payloads, one departure.
CONSTANTS
    t1 = t1  t2 = t2  p1 = p1  p2 = p2  d1 = d1  d2 = d2  y1 = y1  y2 = y2
    Turns = {t1}
    Processes = {p1}
    Devices = {d1, d2}
    Payloads = {y1, y2}
    NoPayload = NoPayload
    NoEvent = NoEvent
    NoDevice = NoDevice
    Nameless = {}
    Reloggers = {p1}
    HookTurns = {}
    RecordedTurns = {t1}
    Environment = {"echo", "delete", "refuse"}
    MaxEpoch = 1
SPECIFICATION Spec
SYMMETRY Symmetry
INVARIANTS
    TypeOK
    RoomShowsRow
    OneCopy
    RetiredIsInvisible
PROPERTIES
    PlaceholderCare
