\* The datagrams start() sends.
CONSTANTS
    a1 = a1
    a2 = a2
    b = b
    x = x
    Callers = {c1}
    Datagrams = {a1, a2, b, x}
    WellFormed <- MCWellFormed
    Usns <- MCUsns
    UsnOf <- MCUsnOf
    Targets <- MCTargets
    MaxDatagrams = 1
    NDEBUG = TRUE
SPECIFICATION Spec
INVARIANT OneSearchPerDatagram
