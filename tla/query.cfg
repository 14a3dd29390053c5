\* Two callers, release build: every end of the search.
CONSTANTS
    a1 = a1
    a2 = a2
    b = b
    x = x
    Callers = {c1, c2}
    Datagrams = {a1, a2, b, x}
    WellFormed <- MCWellFormed
    Usns <- MCUsns
    UsnOf <- MCUsnOf
    Targets <- MCTargets
    MaxDatagrams = 3
    NDEBUG = TRUE
SPECIFICATION Spec
INVARIANT TypeOK
INVARIANT UniqueUsns
INVARIANT EndIsFinal
INVARIANT ReceivesOnOpenSocket
INVARIANT WaitersWillBeWoken
INVARIANT OneResumptionPerCaller
PROPERTY StreamOnlyGrows
PROPERTY CallersReturn
PROPERTY SearchEnds
PROPERTY ImplementsStream
