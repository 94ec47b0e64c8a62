SPECIFICATION SweepSpec
CONSTANTS
    case1 = case1
    case2 = case2
    sweep1 = sweep1
    sweep2 = sweep2
    stripe = stripe
    adyen = adyen
    AnyProcessor = AnyProcessor
    NoRule = NoRule
    Cases <- OneCase
    Sweepers <- OneSweep
    Rules <- OneRule
    Merchants <- OneMerchant
    WarnDays = 1
    MaxNow = 2
    Statuses <- SeededStatuses
    Terminal <- SeededTerminal
    Transitions <- SeededTransitions
    Fought <- SeededFought
PROPERTIES
    PreArbitrationHasItsWindow
