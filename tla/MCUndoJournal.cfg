SPECIFICATION Spec
CONSTANTS
    i1 = i1
    i2 = i2
    Ids = {i1, i2}
    Vals = {0, 1}
    Parent <- MCParent
    MaxClock = 4
    MaxDepth = 4
    MaxSnapshots = 1
INVARIANT UndoInv
PROPERTY ImplementsBranchStore
