\* Two gateways, one of which answers twice, a printer, a device without a
\* description and a malformed datagram.
CONSTANTS
    r1 = r1
    r2 = r2
    r3 = r3
    r4 = r4
    r5 = r5
    usn1 = usn1
    usn2 = usn2
    usn3 = usn3
    usn4 = usn4
    usn5 = usn5
    Responses = {r1, r2, r3, r4, r5}
    Malformed = {m}
    Usns = {usn1, usn2, usn3, usn4, usn5}
    UsnOf <- MCUsnOf
    Numeral = none
    AddressOf = none
    TreeOf <- MCTreeOf
    Trees <- MCTrees
    Height <- MCHeight
    RootOf <- MCRootOf
    MaxQueue = 3
    NDEBUG = TRUE
SPECIFICATION Spec
INVARIANT TypeOK
INVARIANT NobodyIsSkipped
INVARIANT EveryGatewayIsFound
INVARIANT GatewaysAreFoundOnce
PROPERTY DiscoverReturns
