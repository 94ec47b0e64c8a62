SPECIFICATION FairReaderSpec
CONSTANTS
    w1 = w1
    w2 = w2
    r1 = r1
    d1 = d1
    case1 = case1
    op1 = op1
    ghost = ghost
    NoDispute = NoDispute
    NoCaseNumber = NoCaseNumber
    NoOne = NoOne
    Workers <- TwoWorkers
    Readers <- OneReader
    DisputeIds <- OneId
    CaseNumbers <- OneNumber
    Operators <- OneOperator
    Actors <- SomeActors
    Requests <- WatchedCalls
    MaxSeq = 4
    Statuses <- SeededStatuses
    Terminal <- SeededTerminal
    Transitions <- SeededTransitions
    Fought <- SeededFought
INVARIANTS
    AnswerIsExplained
    PollsGoForward
    OfferedIsAccepted
PROPERTIES
    EveryCallEnds
