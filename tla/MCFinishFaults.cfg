SPECIFICATION FaultySpec
CONSTANTS
    StackCapacity = 2
    MaxRows = 3
    MaxWords = 4
    Worlds = {"w0", "w1"}
INVARIANTS
    RestoredOnce
CHECK_DEADLOCK FALSE
