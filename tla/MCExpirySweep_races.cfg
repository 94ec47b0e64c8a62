SPECIFICATION SweepSpec
CONSTANTS
    case1 = case1
    case2 = case2
    sweep1 = sweep1
    sweep2 = sweep2
    stripe = stripe
    adyen = adyen
    AnyProcessor = AnyProcessor
    NoRule = NoRule
    Cases <- OneCase
    Sweepers <- TwoSweeps
    Rules <- NestedRules
    Merchants <- SomeMerchants
    WarnDays = 1
    MaxNow = 3
    Statuses <- SeededStatuses
    Terminal <- SeededTerminal
    Transitions <- SeededTransitions
    Fought <- SeededFought
SYMMETRY SweepSymmetry
INVARIANTS
    SweepTypeOK
    ExpiredByOne
PROPERTIES
    DeadlineIsMostSpecific
    ExpiredOnlyWhenOverdue
    ContestedIsSpared
    ClosedIsFinal
