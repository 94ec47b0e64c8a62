SPECIFICATION Spec
CONSTANTS
    w1 = w1
    w2 = w2
    d1 = d1
    d2 = d2
    case1 = case1
    op1 = op1
    ghost = ghost
    NoDispute = NoDispute
    NoCaseNumber = NoCaseNumber
    NoOne = NoOne
    Workers <- TwoWorkers
    DisputeIds <- TwoIds
    CaseNumbers <- OneNumber
    Operators <- OneOperator
    Actors <- SomeActors
    Requests <- ContestedCalls
    MaxSeq = 6
    Statuses <- SeededStatuses
    Terminal <- SeededTerminal
    Transitions <- SeededTransitions
    Fought <- SeededFought
SYMMETRY ConnectionSymmetry
INVARIANTS
    TypeOK
    CaseNumberUnique
    CoreInv
    ClosedIffTerminal
    FoughtAfterEvidence
    TrailExplainsStatus
    NeverConcurrentlyModified
PROPERTIES
    NeitherAlone
    TrailGrowsAtItsEnd
    ImplementsDisputeCase
