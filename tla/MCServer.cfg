SPECIFICATION FairSpec
CONSTANTS
    q1 = q1
    q2 = q2
    q3 = q3
    Requests <- ThreeRequests
    PlanOf <- MixedPlans
    PoolSize = 2
INVARIANTS
    CleanExitCutsNothing
PROPERTIES
    EveryRequestEnds
    ShutdownEnds
