CONSTANTS
    MaxClients = 2
    SizeMax = 100
    BufferSize = 1
    Backlog = 1
    PeerActs = {"data", "end", "reset"}
    Fds = {f1, f2, f3, f4}
    Events = {"POLLIN", "POLLOUT", "POLLERR"}
SPECIFICATION Spec
SYMMETRY FdSymmetry
INVARIANTS
    ProxyInv
    PolledNeverBlock
    ProxyRegistryInv
PROPERTIES
    DropsOnlyBroken
    ServerClosedWithClient
