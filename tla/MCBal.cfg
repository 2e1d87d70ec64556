SPECIFICATION Spec
CONSTANTS
    TxCount = 4
    Verdicts = {"evidence", "outcome_mismatch", "claim_not_covered", "artifact_mismatch", "after_hooks"}
    MaxInFlight = 3
    Submission = "concurrent"
    Parallel = TRUE
    HookPlans = {{}, {2, 4}}
    Faults = TRUE
INVARIANTS
    TypeOK
    BatchIsQuiescent
    StagedFollowsFolded
    EveryLaneRan
PROPERTIES
    ImplementsClaimCheck
    CheckEnds
CHECK_DEADLOCK FALSE
