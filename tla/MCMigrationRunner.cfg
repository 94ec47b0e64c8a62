SPECIFICATION Spec
CONSTANTS
    run1 = run1
    run2 = run2
    v1 = v1
    v2 = v2
    Absent = Absent
    NoFile = 0
    Runners <- TwoRunners
    Files <- ThreeFiles
    Checksums <- TwoVersions
SYMMETRY RunnerSymmetry
INVARIANTS
    AppliedOnce
    SuccessIsUpToDate
    AppliedInOrder
