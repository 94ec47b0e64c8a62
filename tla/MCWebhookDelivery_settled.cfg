SPECIFICATION FairDeliverySpec
CONSTANTS
    h1 = h1
    h2 = h2
    e1 = e1
    e2 = e2
    e3 = e3
    case1 = case1
    NoEvent = NoEvent
    Handlers <- TwoHandlers
    EventIds <- ThreeEvents
    EventOf <- WithUnknownType
    MaxAttempts <- FirstTwice
    Faults = FALSE
    Cases <- OneCase
    Statuses <- SeededStatuses
    Terminal <- SeededTerminal
    Transitions <- SeededTransitions
    Fought <- SeededFought
INVARIANTS
    SettledTruthfully
PROPERTIES
    EveryRequestAnswered
    RecordedIsSettled
