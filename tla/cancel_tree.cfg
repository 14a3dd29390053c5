\* Three cancel_t's, two clients, debug build.
CONSTANTS
    Cancels = {c1, c2, c3}
    Connections = {k1, k2}
    None = None
    NDEBUG = FALSE
SYMMETRY MCSymmetry
SPECIFICATION Spec
INVARIANT TypeOK
INVARIANT SlotsCallTheirOwners
INVARIANT AssertionNeedsAssignment
PROPERTY MovesKeepReach
