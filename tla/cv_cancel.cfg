\* Two waiters share a cancel_t, one has none; release build.
CONSTANTS
    Waiters = {w1, w2, w3}
    Cancellable = {w1, w2}
    NDEBUG = TRUE
SPECIFICATION Spec
INVARIANT TypeOK
INVARIANT ExactlyOneResumption
INVARIANT NoFaultWithoutCancel
PROPERTY NotifiedWaiterReturns
PROPERTY DestructionReleasesWaiters
