-------------------------- MODULE IgdRequestsProofs --------------------------
(***************************************************************************)
(* Proofs about IgdRequests.  Whoever can be stopped is settled by three   *)
(* facts that every action keeps: a running request whose stream is open   *)
(* is linked in exactly one igd, that igd is alive, and it stands for the  *)
(* request's gateway unless no igd does any more.                          *)
(***************************************************************************)
EXTENDS IgdRequests, TLAPS

(* Each gateway has one igd at most.                                       *)
OneIgdPerGateway ==
    \A i, j \in Igds : gateway[i] \in Gateways /\ gateway[i] = gateway[j] => i = j

(* What is linked is running, its stream is open, and it is linked once.   *)
LinkedOnce ==
    /\ \A i \in Igds : connections[i] \subseteq Unclosed
    /\ \A i, j \in Igds : \A q \in Requests :
          q \in connections[i] /\ q \in connections[j] => i = j

(* An igd has the requests to its own gateway, if it stands for one, and   *)
(* to gateways for which no igd stands.                                    *)
LinkedToItsGateway ==
    \A i \in Igds : \A q \in connections[i] :
        /\ i \in Live
        /\ target[q] \in Gateways
        /\ \A j \in Igds : gateway[j] = target[q] => j = i
        /\ gateway[i] \in Gateways => gateway[i] = target[q]

EveryoneIsLinked == \A q \in Unclosed : \E i \in Igds : q \in connections[i]

(* A request is in a TCP operation exactly while it runs.                  *)
OpsOfRunning ==
    \A q \in Requests : pc[q] \in Stages <=> op[q] \in {"pending", "completed", "failed"}

(* Nothing closes the stream of a request that has not begun.              *)
ReadyIsOpen == \A q \in Requests : pc[q] = "ready" => q \notin closed

IInv ==
    /\ TypeOK
    /\ OneIgdPerGateway
    /\ LinkedOnce
    /\ LinkedToItsGateway
    /\ EveryoneIsLinked
    /\ OpsOfRunning
    /\ ReadyIsOpen
    /\ StoppedRequestsDoNotWait

-----------------------------------------------------------------------------

LEMMA InitIsGood == Init => IInv
  <1> SUFFICES ASSUME Init PROVE IInv
    OBVIOUS
  <1> USE DEF Init, Unborn, MovedFrom, Destroyed, None
  <1>1. TypeOK
    BY DiscoveredAssumption DEF TypeOK, Gateways, Stages
  <1>2. OneIgdPerGateway
    BY DiscoveredAssumption DEF OneIgdPerGateway, Gateways
  <1>3. LinkedOnce /\ LinkedToItsGateway
    BY DEF LinkedOnce, LinkedToItsGateway
  <1>4. Unclosed = {}
    BY DEF Unclosed, Running, Stages
  <1>5. OpsOfRunning /\ ReadyIsOpen /\ StoppedRequestsDoNotWait
    BY DEF OpsOfRunning, ReadyIsOpen, StoppedRequestsDoNotWait, Stages
  <1> QED
    BY <1>1, <1>2, <1>3, <1>4, <1>5 DEF IInv, EveryoneIsLinked

LEMMA BeginKeepsIInv ==
    ASSUME IInv, NEW q \in Requests, NEW i \in Igds, Begin(q, i)
    PROVE  IInv'
  <1> USE DEF Begin
  <1>1. TypeOK'
    BY DEF IInv, TypeOK, Stages
  <1>2. i \in Live /\ Live' = Live
    BY DEF IInv, TypeOK, Live
  <1>3. Unclosed' = Unclosed \cup {q}
    BY DEF IInv, TypeOK, ReadyIsOpen, Unclosed, Running, Stages
  <1>4. \A j \in Igds : q \notin connections[j]
    BY DEF IInv, LinkedOnce, Unclosed, Running, Stages
  <1>5. \A j \in Igds : connections'[j] = IF j = i THEN connections[j] \cup {q} ELSE connections[j]
    BY DEF IInv, TypeOK
  <1>6. OneIgdPerGateway'
    BY DEF IInv, OneIgdPerGateway
  <1>7. LinkedOnce'
    BY <1>3, <1>4, <1>5 DEF IInv, LinkedOnce
  <1>8. LinkedToItsGateway'
    BY <1>2, <1>4, <1>5 DEF IInv, TypeOK, LinkedToItsGateway, OneIgdPerGateway
  <1>9. EveryoneIsLinked'
    BY <1>3, <1>5 DEF IInv, EveryoneIsLinked
  <1>10. OpsOfRunning' /\ ReadyIsOpen' /\ StoppedRequestsDoNotWait'
    BY DEF IInv, TypeOK, OpsOfRunning, ReadyIsOpen, StoppedRequestsDoNotWait, Stages
  <1> QED
    BY <1>1, <1>6, <1>7, <1>8, <1>9, <1>10 DEF IInv

LEMMA NoLocalAddressKeepsIInv ==
    ASSUME IInv, NEW q \in Requests, NEW i \in Igds, NoLocalAddress(q, i)
    PROVE  IInv'
  <1> USE DEF NoLocalAddress, objectVars
  <1>1. TypeOK'
    BY DEF IInv, TypeOK, Stages
  <1>2. Live' = Live /\ Unclosed' = Unclosed
    BY DEF IInv, TypeOK, Live, Unclosed, Running, Stages
  <1>3. \A j \in Igds : q \notin connections[j]
    BY DEF IInv, LinkedOnce, Unclosed, Running, Stages
  <1>4. OneIgdPerGateway' /\ LinkedOnce' /\ EveryoneIsLinked'
    BY <1>2 DEF IInv, OneIgdPerGateway, LinkedOnce, EveryoneIsLinked
  <1>5. LinkedToItsGateway'
    BY <1>2, <1>3 DEF IInv, TypeOK, LinkedToItsGateway
  <1>6. OpsOfRunning' /\ ReadyIsOpen' /\ StoppedRequestsDoNotWait'
    BY DEF IInv, TypeOK, OpsOfRunning, ReadyIsOpen, StoppedRequestsDoNotWait, Stages
  <1> QED
    BY <1>1, <1>4, <1>5, <1>6 DEF IInv

LEMMA OperationEndsKeepsIInv ==
    ASSUME IInv, NEW q \in Requests, OperationEnds(q)
    PROVE  IInv'
  <1> USE DEF OperationEnds, objectVars
  <1>1. TypeOK'
    BY DEF IInv, TypeOK
  <1>2. Live' = Live /\ Unclosed' = Unclosed
    BY DEF Live, Unclosed, Running
  <1>3. OneIgdPerGateway' /\ LinkedOnce' /\ LinkedToItsGateway' /\ EveryoneIsLinked'
    BY <1>2 DEF IInv, OneIgdPerGateway, LinkedOnce, LinkedToItsGateway, EveryoneIsLinked
  <1>4. OpsOfRunning' /\ ReadyIsOpen' /\ StoppedRequestsDoNotWait'
    BY DEF IInv, TypeOK, OpsOfRunning, ReadyIsOpen, StoppedRequestsDoNotWait
  <1> QED
    BY <1>1, <1>3, <1>4 DEF IInv

LEMMA GoesOnKeepsIInv ==
    ASSUME IInv, NEW q \in Requests, NEW next \in Stages, pc[q] \in Stages, GoesOn(q, next),
           UNCHANGED <<gateway, closed, target>>
    PROVE  IInv'
  <1> USE DEF GoesOn, StartsNext
  <1>1. TypeOK'
    BY DEF IInv, TypeOK
  <1>2. Live' = Live /\ Unclosed' = Unclosed
    BY DEF IInv, TypeOK, Live, Unclosed, Running
  <1>3. OneIgdPerGateway' /\ LinkedOnce' /\ LinkedToItsGateway' /\ EveryoneIsLinked'
    BY <1>2 DEF IInv, OneIgdPerGateway, LinkedOnce, LinkedToItsGateway, EveryoneIsLinked
  <1>4. OpsOfRunning' /\ ReadyIsOpen' /\ StoppedRequestsDoNotWait'
    BY DEF IInv, TypeOK, OpsOfRunning, ReadyIsOpen, StoppedRequestsDoNotWait, Stages
  <1> QED
    BY <1>1, <1>3, <1>4 DEF IInv

Results == {"ok", "tcp_connect", "http_request", "http_response", "http_status"}

LEMMA ReturnKeepsIInv ==
    ASSUME IInv, NEW q \in Requests, NEW r \in Results, pc[q] \in Stages, Return(q, r),
           UNCHANGED <<gateway, closed, target>>
    PROVE  IInv'
  <1> USE DEF Return
  <1>1. TypeOK'
    BY DEF IInv, TypeOK, Results
  <1>2. Live' = Live /\ Unclosed' = Unclosed \ {q}
    BY DEF IInv, TypeOK, Live, Unclosed, Running, Stages
  <1>3. \A i \in Igds : connections'[i] = connections[i] \ {q}
    OBVIOUS
  <1>4. OneIgdPerGateway'
    BY DEF IInv, OneIgdPerGateway
  <1>5. LinkedOnce'
    BY <1>2, <1>3 DEF IInv, LinkedOnce
  <1>6. LinkedToItsGateway'
    BY <1>2, <1>3 DEF IInv, LinkedToItsGateway
  <1>7. EveryoneIsLinked'
    BY <1>2, <1>3 DEF IInv, EveryoneIsLinked
  <1>8. OpsOfRunning' /\ ReadyIsOpen' /\ StoppedRequestsDoNotWait'
    BY DEF IInv, TypeOK, OpsOfRunning, ReadyIsOpen, StoppedRequestsDoNotWait, Stages, None
  <1> QED
    BY <1>1, <1>4, <1>5, <1>6, <1>7, <1>8 DEF IInv

LEMMA ResumeKeepsIInv ==
    ASSUME IInv, NEW q \in Requests, Resume(q)
    PROVE  IInv'
  <1> USE DEF Resume
  <1>1. CASE pc[q] = "connect" /\ GoesOn(q, "write")
    BY <1>1, GoesOnKeepsIInv DEF Stages
  <1>2. CASE pc[q] = "write" /\ GoesOn(q, "read")
    BY <1>2, GoesOnKeepsIInv DEF Stages
  <1>3. CASE pc[q] = "read" /\ GetsAnswer(q)
    BY <1>3, ReturnKeepsIInv DEF GetsAnswer, Stages, Results
  <1>4. CASE pc[q] \in Stages /\ Fails(q)
    <2>1. ErrorIn(pc[q]) \in Results
      BY <1>4 DEF ErrorIn, Stages, Results
    <2> QED
      BY <1>4, <2>1, ReturnKeepsIInv DEF Fails
  <1> QED
    BY <1>1, <1>2, <1>3, <1>4

(* Calling the slots of igd i closes what was linked there, whatever       *)
(* becomes of the igd itself.                                              *)
LEMMA CallSlotsKeepsIInv ==
    ASSUME IInv, NEW i \in Igds, CallSlots(i), UNCHANGED <<pc, result, target>>,
           \/ UNCHANGED gateway
           \/ gateway' = [gateway EXCEPT ![i] = Destroyed]
    PROVE  IInv'
  <1>1. TypeOK'
    BY DEF IInv, TypeOK, CallSlots
  <1>2. \A j \in Igds : connections'[j] = IF j = i THEN {} ELSE connections[j]
    BY DEF IInv, TypeOK, CallSlots
  <1>3. \A j \in Igds : j # i => gateway'[j] = gateway[j]
    BY DEF IInv, TypeOK
  <1>4. gateway'[i] = gateway[i] \/ gateway'[i] \notin Gateways
    BY DiscoveredAssumption DEF IInv, TypeOK
  <1>5. Unclosed' = Unclosed \ connections[i]
    BY DEF Unclosed, Running, CallSlots
  <1>6. OneIgdPerGateway'
    BY <1>3, <1>4 DEF IInv, OneIgdPerGateway
  <1>7. LinkedOnce'
    <2>1. \A j \in Igds : connections'[j] \subseteq connections[j]
      BY <1>2
    <2>2. \A j \in Igds : connections'[j] \cap connections[i] = {}
      BY <1>2 DEF IInv, TypeOK, LinkedOnce
    <2>3. LinkedOnce
      BY DEF IInv
    <2> QED
      BY <2>1, <2>2, <2>3, <1>5 DEF LinkedOnce
  <1>8. LinkedToItsGateway'
    <2> SUFFICES ASSUME NEW k \in Igds, NEW q \in connections'[k]
                 PROVE  /\ k \in Live'
                        /\ target[q] \in Gateways
                        /\ \A l \in Igds : gateway'[l] = target[q] => l = k
                        /\ gateway'[k] \in Gateways => gateway'[k] = target[q]
      BY DEF LinkedToItsGateway
    <2>1. k # i /\ q \in connections[k] /\ gateway'[k] = gateway[k]
      BY <1>2, <1>3
    <2>2. /\ k \in Live
          /\ target[q] \in Gateways
          /\ \A l \in Igds : gateway[l] = target[q] => l = k
          /\ gateway[k] \in Gateways => gateway[k] = target[q]
      BY <2>1 DEF IInv, LinkedToItsGateway
    <2>3. \A l \in Igds : gateway'[l] = target[q] => gateway[l] = target[q]
      BY <1>3, <1>4, <2>2
    <2> QED
      BY <2>1, <2>2, <2>3 DEF Live
  <1>9. EveryoneIsLinked'
    BY <1>2, <1>5 DEF IInv, EveryoneIsLinked
  <1>10. OpsOfRunning' /\ ReadyIsOpen' /\ StoppedRequestsDoNotWait'
    <2>1. connections[i] \subseteq Requests /\ \A q \in connections[i] : pc[q] \in Stages
      BY DEF IInv, TypeOK, LinkedOnce, Unclosed, Running
    <2> QED
      BY <2>1 DEF IInv, TypeOK, OpsOfRunning, ReadyIsOpen, StoppedRequestsDoNotWait, Stages, CallSlots
  <1> QED
    BY <1>1, <1>6, <1>7, <1>8, <1>9, <1>10 DEF IInv

(* The two move operations.  An igd that has not been born has nothing     *)
(* linked, so that move construction exchanges the lists too.              *)
Moves(i, j) ==
    /\ gateway' = [gateway EXCEPT ![j] = gateway[i], ![i] = MovedFrom]
    /\ connections' = [connections EXCEPT ![j] = connections[i], ![i] = connections[j]]
    /\ UNCHANGED requestVars

LEMMA MoveKeepsIInv ==
    ASSUME IInv, NEW i \in Live, NEW j \in Igds, i # j,
           j \in Live \/ gateway[j] = Unborn,
           Moves(i, j)
    PROVE  IInv'
  <1>1. i \in Igds
    BY DEF Live
  <1>2. TypeOK'
    BY <1>1 DEF IInv, TypeOK, Moves, requestVars
  <1>3. \A k \in Igds : gateway'[k] = IF k = i THEN MovedFrom
                                      ELSE IF k = j THEN gateway[i] ELSE gateway[k]
    BY <1>1 DEF IInv, TypeOK, Moves, requestVars
  <1> DEFINE Source(k) == IF k = i THEN j ELSE IF k = j THEN i ELSE k
  <1>4. \A k \in Igds : Source(k) \in Igds /\ connections'[k] = connections[Source(k)]
    BY <1>1 DEF IInv, TypeOK, Moves, requestVars
  <1>5. \A k, l \in Igds : Source(k) = Source(l) => k = l
    OBVIOUS
  <1>6. \A k \in Igds : Source(Source(k)) = k
    OBVIOUS
  <1>7. Unclosed' = Unclosed
    BY DEF Unclosed, Running, Moves, requestVars
  <1>8. MovedFrom \notin Gateways
    BY DiscoveredAssumption
  <1>9. target' = target
    BY DEF Moves, requestVars
  <1>10. OneIgdPerGateway'
    BY <1>1, <1>3, <1>8 DEF IInv, OneIgdPerGateway
  <1>11. LinkedOnce'
    <2> HIDE DEF Source
    <2> QED
      BY <1>4, <1>5, <1>7 DEF IInv, LinkedOnce
  <1>12. LinkedToItsGateway'
    <2> SUFFICES ASSUME NEW k \in Igds, NEW q \in connections'[k]
                 PROVE  /\ k \in Live'
                        /\ target[q] \in Gateways
                        /\ \A l \in Igds : gateway'[l] = target[q] => l = k
                        /\ gateway'[k] \in Gateways => gateway'[k] = target[q]
      BY <1>9 DEF LinkedToItsGateway
    <2>1. Source(k) \in Igds /\ q \in connections[Source(k)]
      BY <1>4
    <2> HIDE DEF Source
    <2>2. /\ Source(k) \in Live
          /\ target[q] \in Gateways
          /\ \A l \in Igds : gateway[l] = target[q] => l = Source(k)
          /\ gateway[Source(k)] \in Gateways => gateway[Source(k)] = target[q]
      BY <2>1 DEF IInv, LinkedToItsGateway
    <2> USE DEF Source
    <2>3. k \in Live'
      BY <1>1, <1>3, <2>2 DEF Live
    <2>4. ASSUME NEW l \in Igds, gateway'[l] = target[q] PROVE l = k
      BY <2>4, <1>1, <1>3, <1>8, <2>2
    <2>5. gateway'[k] \in Gateways => gateway'[k] = target[q]
      BY <1>1, <1>3, <1>8, <2>2
    <2> QED
      BY <2>2, <2>3, <2>4, <2>5
  <1>13. EveryoneIsLinked'
    <2> HIDE DEF Source
    <2> QED
      BY <1>4, <1>6, <1>7 DEF IInv, EveryoneIsLinked
  <1>14. OpsOfRunning' /\ ReadyIsOpen' /\ StoppedRequestsDoNotWait'
    BY DEF IInv, OpsOfRunning, ReadyIsOpen, StoppedRequestsDoNotWait, Moves, requestVars
  <1> QED
    BY <1>2, <1>10, <1>11, <1>12, <1>13, <1>14 DEF IInv

LEMMA NextKeepsIInv == IInv /\ [Next]_vars => IInv'
  <1> SUFFICES ASSUME IInv, [Next]_vars PROVE IInv'
    OBVIOUS
  <1>1. ASSUME NEW q \in Requests, NEW i \in Igds, Begin(q, i)
        PROVE  IInv'
    BY <1>1, BeginKeepsIInv
  <1>2. ASSUME NEW q \in Requests, NEW i \in Igds, NoLocalAddress(q, i)
        PROVE  IInv'
    BY <1>2, NoLocalAddressKeepsIInv
  <1>3. ASSUME NEW q \in Requests, OperationEnds(q)
        PROVE  IInv'
    BY <1>3, OperationEndsKeepsIInv
  <1>4. ASSUME NEW q \in Requests, Resume(q)
        PROVE  IInv'
    BY <1>4, ResumeKeepsIInv
  <1>5. ASSUME NEW i \in Igds, Stop(i) \/ Destroy(i)
        PROVE  IInv'
    BY <1>5, CallSlotsKeepsIInv DEF Stop, Destroy
  <1>6. ASSUME NEW i \in Igds, NEW j \in Igds, MoveConstruct(i, j)
        PROVE  IInv'
    <2>1. connections[j] = {} /\ i # j /\ i \in Live
      BY <1>6, DiscoveredAssumption
      DEF MoveConstruct, IInv, LinkedToItsGateway, Live, Unborn, MovedFrom
    <2> QED
      BY <1>6, <2>1, MoveKeepsIInv DEF MoveConstruct, Moves
  <1>7. ASSUME NEW i \in Igds, NEW j \in Igds, MoveAssign(i, j)
        PROVE  IInv'
    BY <1>7, MoveKeepsIInv DEF MoveAssign, Moves
  <1>8. CASE UNCHANGED vars
    BY <1>8 DEF vars, objectVars, requestVars, IInv, TypeOK, OneIgdPerGateway, LinkedOnce,
                LinkedToItsGateway, EveryoneIsLinked, OpsOfRunning, ReadyIsOpen,
                StoppedRequestsDoNotWait, Unclosed, Running, Live
  <1> QED
    BY <1>1, <1>2, <1>3, <1>4, <1>5, <1>6, <1>7, <1>8 DEF Next

LEMMA Invariance == Spec => []IInv
  BY InitIsGood, NextKeepsIInv, PTL DEF Spec

(* The variables of igds and requests keep their types.                    *)
THEOREM Typing == Spec => []TypeOK
  BY Invariance, PTL DEF IInv

(* No list holds the slot of a request that has returned, and the list of  *)
(* an igd that is gone is empty (~igd, igd.h:223).                         *)
THEOREM NoDanglingSlots == Spec => []SlotsAreAlive
  <1>1. IInv => SlotsAreAlive
    BY DEF IInv, LinkedOnce, LinkedToItsGateway, SlotsAreAlive, Unclosed
  <1> QED
    BY <1>1, Invariance, PTL

(* Whatever igds are moved, overwritten, stopped or destroyed, a running   *)
(* request can be stopped through exactly one igd, the one that stands for *)
(* its gateway if there is one (cancel.h:68-99, igd.h:122-123).            *)
THEOREM Stoppable == Spec => []EveryRequestCanBeStopped
  <1>1. ASSUME IInv PROVE EveryRequestCanBeStopped
    <2> SUFFICES ASSUME NEW q \in Unclosed
                 PROVE  \E i \in Live :
                            /\ \A j \in Igds : q \in connections[j] <=> j = i
                            /\ \A j \in Igds : gateway[j] = target[q] => j = i
      BY DEF EveryRequestCanBeStopped
    <2>1. PICK i \in Igds : q \in connections[i]
      BY <1>1 DEF IInv, EveryoneIsLinked
    <2>2. i \in Live /\ \A j \in Igds : gateway[j] = target[q] => j = i
      BY <1>1, <2>1 DEF IInv, LinkedToItsGateway
    <2>3. \A j \in Igds : q \in connections[j] <=> j = i
      BY <1>1, <2>1 DEF IInv, LinkedOnce, Unclosed, Running
    <2> QED
      BY <2>2, <2>3
  <1> QED
    BY <1>1, Invariance, PTL

(* A stopped request is never left waiting for the network (igd.cpp:275).  *)
THEOREM StoppedDoNotWait == Spec => []StoppedRequestsDoNotWait
  BY Invariance, PTL DEF IInv

(* stop() closes the streams of the running requests to its gateway and no *)
(* other ones.                                                             *)
THEOREM StopIsExact == Spec => StopsItsRequests
  <1>1. ASSUME IInv, NEW i \in Igds, gateway[i] \in Gateways, Stop(i)
        PROVE  closed' = closed \cup {q \in Running : target[q] = gateway[i]}
    <2>1. closed' = closed \cup connections[i]
      BY <1>1 DEF Stop, CallSlots
    <2>2. connections[i] \subseteq {q \in Running : target[q] = gateway[i]}
      BY <1>1 DEF IInv, LinkedOnce, LinkedToItsGateway, Unclosed
    <2>3. ASSUME NEW q \in Running, target[q] = gateway[i], q \notin closed
          PROVE  q \in connections[i]
      BY <1>1, <2>3 DEF IInv, EveryoneIsLinked, LinkedToItsGateway, Unclosed
    <2> QED
      BY <2>1, <2>2, <2>3
  <1>2. IInv => [\A i \in Igds : gateway[i] \in Gateways /\ Stop(i) =>
                    closed' = closed \cup {q \in Running : target[q] = gateway[i]}]_vars
    BY <1>1
  <1> QED
    BY <1>2, Invariance, PTL DEF StopsItsRequests
=============================================================================
