\* The bot and an export walk a room that sync skips parts of.
CONSTANTS
    m1 = m1  m2 = m2  e1 = e1  e2 = e2  x1 = x1
    h1 = h1  h2 = h2  r1 = r1  r2 = r2
    NoEvent = NoEvent
    Target <- TargetOfEdits
    Author <- MCAuthor
    Policy <- PromptAndExport
    Rank <- RankOfEvents
    Messages = {m1, m2}
    Edits = {}
    Sidecar = {}
    Hydrators = {h1, h2}
    Strict = {h2}
    Readers = {}
    Redactable = {}
    Unreadable = {m2}
    InOrder = FALSE
    MaxGaps = 1
    MaxEpoch = 0
SPECIFICATION FairSpec
INVARIANTS
    CompleteMissesNothing
PROPERTIES
    CoverageGrows
    ReadsAreServed
