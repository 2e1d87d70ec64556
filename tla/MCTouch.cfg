SPECIFICATION Spec
CONSTANTS
    c = c
    e = e
    n = n
    kc = kc
    ke = ke
    t = t
    ParentAccount <- MCParentAccount
    ParentStorage <- MCParentStorage
    Owner <- MCOwner
    Accounts = {n}
    Slots = {}
    TransientKeys = {}
    Programs <- TouchPrograms
PROPERTIES
    TouchMaterializes
