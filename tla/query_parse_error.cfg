\* One caller and a datagram that does not parse, debug build.
CONSTANTS
    a1 = a1
    a2 = a2
    b = b
    x = x
    Callers = {c1}
    Datagrams = {a1, a2, b, x}
    WellFormed <- MCWellFormed
    Usns <- MCUsns
    UsnOf <- MCUsnOf
    Targets <- MCTargets
    MaxDatagrams = 2
    NDEBUG = FALSE
SPECIFICATION Spec
INVARIANT ParseErrorsAreReported
