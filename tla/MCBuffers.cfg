CONSTANTS
    Size = 4
    Bytes = {"a", "b"}
SPECIFICATION BothSpec
INVARIANTS
    PiecesInBounds
    SameContent
PROPERTIES
    ImplementsFifo
