CONSTANTS
    MaxClients = 3
    SizeMax = 100
    Backlog = 1
    Fds = {f1, f2, f3, f4}
    Events = {"POLLIN", "POLLOUT", "POLLERR"}
SPECIFICATION Spec
SYMMETRY FdSymmetry
INVARIANTS
    ServerInv
    ReadinessIsFresh
PROPERTIES
    ClosesOnlyEnded
    CommitKeepsMembers
