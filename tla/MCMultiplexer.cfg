CONSTANTS
    MaxClients = 4
    REMOVED_CLIENT = REMOVED_CLIENT
    STDIN = STDIN
    Fds = {f1, f2}
SPECIFICATION Spec
INVARIANTS
    LockOwned
    TableInv
    CommitGathers
PROPERTIES
    AcceptsAgain
    NextClientRestarts
