SPECIFICATION Spec
CONSTANTS
    Fixtures <- AllFixtures
    Outputs <- FullOutputs
    OutDirs = {"before", "after"}
    Stable = "stable"
    KernelRows = 14
    DeltaRows = 24
    MaxRuns = 2
INVARIANTS
    EveryDeltaReported
CHECK_DEADLOCK FALSE
