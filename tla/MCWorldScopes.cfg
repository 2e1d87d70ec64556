SPECIFICATION Spec
CONSTANTS
    c = c
    e = e
    n = n
    kc = kc
    ke = ke
    t = t
    ParentAccount <- MCParentAccount
    ParentStorage <- MCParentStorage
    Owner <- MCOwner
    Accounts = {c, n}
    Slots = {kc}
    TransientKeys = {t}
    Programs <- ScopePrograms
INVARIANTS
    HeldSnapshotsRestorable
    CodeIsAvailable
    TransientEndsWithRoot
PROPERTIES
    RollbackIsExact
    EffectsUnwind
