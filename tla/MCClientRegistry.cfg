CONSTANTS
    MaxClients = 4
    Fds = {f1, f2, f3, f4, f5}
    Events = {IN}
SPECIFICATION RegistrySpec
SYMMETRY FdSymmetry
INVARIANTS
    RegistryInv
    RefusedOnlyWhenFull
PROPERTY ImplementsMap
