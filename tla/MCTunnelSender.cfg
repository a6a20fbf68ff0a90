CONSTANTS
    MaxClients = 2
    Fds = {f1, f2}
    Events = {"POLLIN", "POLLOUT", "POLLERR"}
    BufferSize = 2
    MessageSize = 6
    Cycle = 3
    Reserved = {126}
    Followed = {}
SPECIFICATION Spec
SYMMETRY FdSymmetry
CONSTRAINT ReservedAlone
INVARIANTS
    TablesAgree
    MessageIsBacked
    DeliveredInOrder
    TurnsAreFair
