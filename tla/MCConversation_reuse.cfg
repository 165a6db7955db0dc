\* A gap recorded after a rejoin carries the number of the one a walk was launched for.
CONSTANTS
    m1 = m1  m2 = m2  e1 = e1  e2 = e2  x1 = x1
    h1 = h1  h2 = h2  r1 = r1  r2 = r2
    NoEvent = NoEvent
    Target <- TargetOfEdits
    Author <- MCAuthor
    Policy <- PromptAndExport
    Rank <- RankOfEvents
    Messages = {m1, m2}
    Edits = {}
    Sidecar = {}
    Hydrators = {h1}
    Strict = {}
    Readers = {}
    Redactable = {}
    Unreadable = {}
    InOrder = TRUE
    MaxGaps = 1
    MaxEpoch = 1
SPECIFICATION Spec
INVARIANTS
    CompleteMissesNothing
