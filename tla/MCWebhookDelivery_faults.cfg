SPECIFICATION DeliverySpec
CONSTANTS
    h1 = h1
    h2 = h2
    e1 = e1
    e2 = e2
    e3 = e3
    case1 = case1
    NoEvent = NoEvent
    Handlers <- TwoHandlers
    EventIds <- ThreeEvents
    EventOf <- WithUnknownPayment
    MaxAttempts <- FirstTwice
    Faults = TRUE
    Cases <- OneCase
    Statuses <- SeededStatuses
    Terminal <- SeededTerminal
    Transitions <- SeededTransitions
    Fought <- SeededFought
SYMMETRY HandlerSymmetry
INVARIANTS
    DeliveryTypeOK
    OneHandlerPerEvent
    SignedBeforeApplied
    ProcessedIsApplied
PROPERTIES
    NeverTakenUpAgain
