SPECIFICATION Spec
CONSTANTS
    c = c
    e = e
    n = n
    kc = kc
    ke = ke
    t = t
    ParentAccount <- MCParentAccount
    ParentStorage <- MCParentStorage
    Owner <- MCOwner
    Accounts = {c, e}
    Slots = {kc, ke}
    TransientKeys = {}
    Programs <- BlockPrograms
INVARIANTS
    TypeOK
    BlockListsMatchFlags
    BlockDeltaIsComplete
    LifecycleEndsWithAttempt
    ExecutionOriginalIsRootValue
    PendingDeltaIsComplete
    EffectsExplainChanges
PROPERTIES
    RollbackIsExact
    AcceptedViewIsStable
