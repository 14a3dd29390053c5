\* Two igds that discover has found, a third to move into; two requests, of
\* which one adds a port mapping.
CONSTANTS
    igd1 = igd1
    igd2 = igd2
    gateway1 = gateway1
    gateway2 = gateway2
    Igds = {igd1, igd2, igd3}
    Discovered <- MCDiscovered
    Requests = {q1, q2}
    Adds = {q1}
SPECIFICATION Spec
INVARIANT TypeOK
INVARIANT SlotsAreAlive
INVARIANT EveryRequestCanBeStopped
INVARIANT StoppedRequestsDoNotWait
PROPERTY StopsItsRequests
PROPERTY StoppedRequestsReturn
PROPERTY RequestsReturn
