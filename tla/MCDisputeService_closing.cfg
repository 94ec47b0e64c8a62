SPECIFICATION Spec
CONSTANTS
    w1 = w1
    w2 = w2
    d1 = d1
    d2 = d2
    case1 = case1
    op1 = op1
    ghost = ghost
    NoDispute = NoDispute
    NoCaseNumber = NoCaseNumber
    NoOne = NoOne
    Workers <- TwoWorkers
    DisputeIds <- OneId
    CaseNumbers <- OneNumber
    Operators <- OneOperator
    Actors <- SomeActors
    Requests <- CaseCalls
    MaxSeq = 6
    Statuses <- SeededStatuses
    Terminal <- SeededTerminal
    Transitions <- SeededTransitions
    Fought <- SeededFought
PROPERTIES
    NoEvidenceAfterClosing
