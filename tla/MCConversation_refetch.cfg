\* Two readers refetch while sync delivers edits and redactions in any order.
CONSTANTS
    m1 = m1  m2 = m2  e1 = e1  e2 = e2  x1 = x1
    h1 = h1  h2 = h2  r1 = r1  r2 = r2
    NoEvent = NoEvent
    Target <- TargetOfEdits
    Author <- MCAuthor
    Policy <- PromptAndExport
    Rank <- RankOfEvents
    Messages = {m1}
    Edits = {e1, e2, x1}
    Sidecar = {e1}
    Hydrators = {}
    Strict = {}
    Readers = {r1, r2}
    Redactable = {e2}
    Unreadable = {}
    InOrder = FALSE
    MaxGaps = 0
    MaxEpoch = 1
SPECIFICATION FairSpec
CHECK_DEADLOCK FALSE
INVARIANTS
    TypeOK
    DeletedIsGone
    HeldAwaitsMessage
PROPERTIES
    NewestStands
    DebtIsRepaired
