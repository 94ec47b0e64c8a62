SPECIFICATION Spec
CONSTANTS
    r1 = r1
    Reports <- OneReport
    Months <- TurnOfTheYear
    Region = "DEFAULT"
    VolumeRows <- AroundTheLines
    InitialFiled <- NearFloors
    InitialVolumes <- SameRows
    MaxChanges = 2
INVARIANTS
    NoBreachMissed
    BreachIsReal
    EachCountedOnce
