CONSTANTS
    Size = 5
    Orders = {0, 125}
    Chars <- MCChars
    MaxData = 2
SPECIFICATION CodecSpec
PROPERTIES
    ImplementsQueue
    LeavesOfOneOrder
    EventuallyOut
