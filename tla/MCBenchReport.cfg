SPECIFICATION Spec
CONSTANTS
    Fixtures <- OneFixture
    Outputs <- SmallOutputs
    OutDirs = {"out"}
    Stable = "stable"
    KernelRows = 1
    DeltaRows = 3
    MaxRuns = 3
INVARIANTS
    TypeOK
    ResultsAreVetted
    DeltasCompareRuns
CHECK_DEADLOCK FALSE
