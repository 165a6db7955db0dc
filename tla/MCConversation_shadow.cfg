\* The newer of two edits is redacted between two pages of a walk.
CONSTANTS
    m1 = m1  m2 = m2  e1 = e1  e2 = e2  x1 = x1
    h1 = h1  h2 = h2  r1 = r1  r2 = r2
    NoEvent = NoEvent
    Target <- TargetOfEdits
    Author <- MCAuthor
    Policy <- PromptAndExport
    Rank <- RankOfEvents
    Messages = {m1}
    Edits = {e1, e2}
    Sidecar = {}
    Hydrators = {h1}
    Strict = {}
    Readers = {}
    Redactable = {e2}
    Unreadable = {}
    InOrder = TRUE
    MaxGaps = 1
    MaxEpoch = 0
SPECIFICATION Spec
INVARIANTS
    ReadMatchesServer
