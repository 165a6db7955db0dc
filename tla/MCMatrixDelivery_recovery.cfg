\* One process that re-logs in, sources redacted and history grown past the bound
\* of a scan, or unreadable, at any moment.
CONSTANTS
    t1 = t1  t2 = t2  p1 = p1  p2 = p2  d1 = d1  d2 = d2  y1 = y1  y2 = y2
    Turns = {t1}
    Processes = {p1}
    Devices = {d1, d2}
    Payloads = {y1}
    NoPayload = NoPayload
    NoEvent = NoEvent
    NoDevice = NoDevice
    Nameless = {}
    Reloggers = {p1}
    HookTurns = {}
    RecordedTurns = {t1}
    Environment = {"echo", "delete", "bury"}
    MaxEpoch = 1
SPECIFICATION FairSpec
PROPERTIES
    DebtIsDischarged
    PlaceholderIsRemoved
    ImplementsSole
