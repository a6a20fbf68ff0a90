CONSTANTS
    MaxClients = 2
    Fds = {f1, f2}
    REMOVED_CLIENT = REMOVED_CLIENT
    Backlog = 1
SPECIFICATION Spec
INVARIANTS
    AioInv
    SearchEndsInBounds
PROPERTIES
    ClosesOnlyEnded
    Served
