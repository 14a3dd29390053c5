\* Debug build, one waiter with a cancel_t.
CONSTANTS
    Waiters = {w1}
    Cancellable = {w1}
    NDEBUG = FALSE
SPECIFICATION Spec
INVARIANT SlotAssertionHolds
