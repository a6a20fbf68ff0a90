CONSTANTS
    SOMAXCONN = 4
    Fds = {f1, f2, f3}
    Backlog = 1
SPECIFICATION Spec
INVARIANTS
    TableInv
    CommitGathers
    OnlyNewcomerBlocks
PROPERTIES
    ServedUnlessBlocked
