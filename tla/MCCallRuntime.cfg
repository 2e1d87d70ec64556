SPECIFICATION Spec
CONSTANTS
    StackCapacity = 2
    MaxRows = 3
    MaxWords = 4
    Worlds = {w0, w1}
SYMMETRY WorldSymmetry
INVARIANTS
    TypeOK
    MetadataStable
    ScopesBalanced
PROPERTIES
    ImplementsCallStacks
