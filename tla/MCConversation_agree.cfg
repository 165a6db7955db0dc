\* A message that is edited and redacted, delivered in any order, walked and refetched
\* across a gap or across a departure.
CONSTANTS
    m1 = m1  m2 = m2  e1 = e1  e2 = e2  x1 = x1
    h1 = h1  h2 = h2  r1 = r1  r2 = r2
    NoEvent = NoEvent
    Target <- TargetOfEdits
    Author <- MCAuthor
    Policy <- PromptAndExport
    Rank <- RankOfEvents
    Messages = {m1}
    Edits = {e1}
    Sidecar = {e1}
    Hydrators = {h1}
    Strict = {}
    Readers = {r1}
    Redactable = {m1, e1}
    Unreadable = {}
    InOrder = FALSE
    MaxGaps = 1
    MaxEpoch = 1
SPECIFICATION Spec
CONSTRAINT GapOrDeparture
INVARIANTS
    ReadMatchesServer
