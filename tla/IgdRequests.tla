----------------------------- MODULE IgdRequests -----------------------------
(***************************************************************************)
(* igd::soap_request, igd::stop, the destructor and the move operations of *)
(* igd (src/src/igd.cpp, src/include/upnp/igd.h), with the cancel_t inside *)
(* an igd (src/include/upnp/detail/cancel.h).                              *)
(*                                                                         *)
(* Every operation on an igd is one SOAP request over a TCP connection of  *)
(* its own.  While it runs, a slot that closes the connection is linked in *)
(* the igd's cancel_t.  Several coroutines use one igd at a time; the igd  *)
(* may be stopped, moved, overwritten or destroyed under them.  Closing    *)
(* the connection aborts an operation that is pending but cannot take back *)
(* one that has completed and whose handler is queued.                     *)
(*                                                                         *)
(* Running requests do not touch the igd again before they return, so they *)
(* are not disturbed by its moves or its end.  A request is not begun on   *)
(* an igd that has been moved from.                                        *)
(***************************************************************************)
CONSTANTS
    Igds,        \* igd objects
    Discovered,  \* those that discover has returned, with what they stand for
    Requests,    \* coroutines that make one request each
    Adds         \* the requests that add_port_mapping makes

None == "none"

(* What an igd object can hold instead of a gateway.                       *)
Unborn    == "unborn"
MovedFrom == "moved_from"
Destroyed == "destroyed"

(* The connection services of gateways, each with an igd of its own.       *)
Gateways == {Discovered[i] : i \in DOMAIN Discovered}

ASSUME DiscoveredAssumption ==
    /\ DOMAIN Discovered \subseteq Igds
    /\ Gateways \cap {None, Unborn, MovedFrom, Destroyed} = {}
    /\ \A i, j \in DOMAIN Discovered : Discovered[i] = Discovered[j] => i = j

ASSUME AddsAssumption == Adds \subseteq Requests

VARIABLES
    gateway,      \* the gateway each igd object stands for
    connections,  \* _cancel._connections of each igd: requests
    pc,           \* "ready", "connect", "write", "read", "done", of each request
    op,           \* the TCP operation it is in: "pending", "completed", "failed"
    closed,       \* the requests whose stream a slot has closed
    result,       \* what soap_request has returned
    target        \* the gateway a request was made to

objectVars  == <<gateway, connections>>
requestVars == <<pc, op, closed, result, target>>
vars        == <<objectVars, requestVars>>

Stages   == {"connect", "write", "read"}
Running  == {q \in Requests : pc[q] \in Stages}
Unclosed == Running \ closed
Live     == {i \in Igds : gateway[i] \in Gateways \cup {MovedFrom}}

Init ==
    /\ gateway = [i \in Igds |-> IF i \in DOMAIN Discovered THEN Discovered[i] ELSE Unborn]
    /\ connections = [i \in Igds |-> {}]
    /\ pc = [q \in Requests |-> "ready"]
    /\ op = [q \in Requests |-> None]
    /\ closed = {}
    /\ result = [q \in Requests |-> None]
    /\ target = [q \in Requests |-> None]

-----------------------------------------------------------------------------
(* soap_request                                                            *)

BeginAnyway(q, i) ==  \* mutated Begin: also on an igd that has been moved from
    /\ pc[q] = "ready"
    /\ i \in Live
    /\ target' = [target EXCEPT ![q] = gateway[i]]
    /\ pc' = [pc EXCEPT ![q] = "connect"]
    /\ op' = [op EXCEPT ![q] = "pending"]
    /\ connections' = [connections EXCEPT ![i] = @ \cup {q}]
    /\ UNCHANGED <<gateway, closed, result>>

(* The operation builds its request, connects a slot and starts to connect *)
(* to the gateway.  The host of the URL parses: discover has parsed it.    *)
Begin(q, i) ==
    /\ pc[q] = "ready"
    /\ gateway[i] \in Gateways
    /\ target' = [target EXCEPT ![q] = gateway[i]]
    /\ pc' = [pc EXCEPT ![q] = "connect"]
    /\ op' = [op EXCEPT ![q] = "pending"]
    /\ connections' = [connections EXCEPT ![i] = @ \cup {q}]
    /\ UNCHANGED <<gateway, closed, result>>

(* add_port_mapping finds no local address towards the gateway.            *)
NoLocalAddress(q, i) ==
    /\ q \in Adds
    /\ pc[q] = "ready"
    /\ gateway[i] \in Gateways
    /\ target' = [target EXCEPT ![q] = gateway[i]]
    /\ result' = [result EXCEPT ![q] = "no_endpoint_to_igd"]
    /\ pc' = [pc EXCEPT ![q] = "done"]
    /\ UNCHANGED <<objectVars, op, closed>>

(* The peer or the network completes the pending operation, or the five    *)
(* seconds of the stream are over.                                         *)
OperationEnds(q) ==
    /\ op[q] = "pending"
    /\ \E e \in {"completed", "failed"} : op' = [op EXCEPT ![q] = e]
    /\ UNCHANGED <<objectVars, pc, closed, result, target>>

ErrorIn(stage) ==
    CASE stage = "connect" -> "tcp_connect"
      [] stage = "write"   -> "http_request"
      [] stage = "read"    -> "http_response"

ReturnAndForget(q, r) ==  \* mutated Return: the Connection stays in its list
    /\ result' = [result EXCEPT ![q] = r]
    /\ pc' = [pc EXCEPT ![q] = "done"]
    /\ op' = [op EXCEPT ![q] = None]
    /\ UNCHANGED connections

(* soap_request returns; its Connection unlinks itself from its list.      *)
Return(q, r) ==
    /\ result' = [result EXCEPT ![q] = r]
    /\ pc' = [pc EXCEPT ![q] = "done"]
    /\ op' = [op EXCEPT ![q] = None]
    /\ connections' = [i \in Igds |-> connections[i] \ {q}]

StartsAnew(q) == op' = [op EXCEPT ![q] = "pending"]  \* mutated StartsNext

(* An operation that is started on a closed stream fails.                  *)
StartsNext(q) == op' = [op EXCEPT ![q] = IF q \in closed THEN "failed" ELSE "pending"]

GoesOn(q, next) ==
    /\ op[q] = "completed"
    /\ pc' = [pc EXCEPT ![q] = next]
    /\ StartsNext(q)
    /\ UNCHANGED <<connections, result>>

Retries(q) ==  \* mutated Fails
    /\ op[q] = "failed"
    /\ pc' = [pc EXCEPT ![q] = "connect"]
    /\ StartsNext(q)
    /\ UNCHANGED <<connections, result>>

Fails(q) == op[q] = "failed" /\ Return(q, ErrorIn(pc[q]))

GetsAnswer(q) ==
    /\ op[q] = "completed"
    /\ \E r \in {"ok", "http_status"} : Return(q, r)

(* The executor resumes the coroutine with the operation's error code.     *)
Resume(q) ==
    /\ \/ pc[q] = "connect" /\ GoesOn(q, "write")
       \/ pc[q] = "write" /\ GoesOn(q, "read")
       \/ pc[q] = "read" /\ GetsAnswer(q)
       \/ pc[q] \in Stages /\ Fails(q)
    /\ UNCHANGED <<gateway, closed, target>>

-----------------------------------------------------------------------------
(* igd objects                                                             *)

(* Mutated CallSlots: only what is already being talked to is closed.      *)
CallSomeSlots(i) ==
    LET called == {q \in connections[i] : pc[q] # "connect"}
    IN  /\ closed' = closed \cup called
        /\ op' = [q \in Requests |->
                    IF q \in called /\ op[q] = "pending" THEN "failed" ELSE op[q]]
        /\ connections' = [connections EXCEPT ![i] = {}]

(* cancel_t::operator(): every linked slot is taken off the list and       *)
(* closes its stream.                                                      *)
CallSlots(i) ==
    /\ closed' = closed \cup connections[i]
    /\ op' = [q \in Requests |->
                IF q \in connections[i] /\ op[q] = "pending" THEN "failed" ELSE op[q]]
    /\ connections' = [connections EXCEPT ![i] = {}]

Stop(i) ==
    /\ i \in Live
    /\ CallSlots(i)
    /\ UNCHANGED <<gateway, pc, result, target>>

(* ~igd() stops.                                                           *)
Destroy(i) ==
    /\ i \in Live
    /\ CallSlots(i)
    /\ gateway' = [gateway EXCEPT ![i] = Destroyed]
    /\ UNCHANGED <<pc, result, target>>

(* igd j(std::move(i)): the connections go with the gateway.               *)
MoveConstruct(i, j) ==
    /\ i \in Live
    /\ gateway[j] = Unborn
    /\ gateway' = [gateway EXCEPT ![j] = gateway[i], ![i] = MovedFrom]
    /\ connections' = [connections EXCEPT ![j] = connections[i], ![i] = {}]
    /\ UNCHANGED requestVars

MoveDropping(i, j) ==  \* mutated MoveAssign: the list of j is cleared
    /\ {i, j} \subseteq Live
    /\ i # j
    /\ gateway' = [gateway EXCEPT ![j] = gateway[i], ![i] = MovedFrom]
    /\ connections' = [connections EXCEPT ![j] = connections[i], ![i] = {}]
    /\ UNCHANGED requestVars

(* j = std::move(i): the assignment of the intrusive list swaps, so the    *)
(* requests to the gateway that j stood for are now linked in i.           *)
MoveAssign(i, j) ==
    /\ {i, j} \subseteq Live
    /\ i # j
    /\ gateway' = [gateway EXCEPT ![j] = gateway[i], ![i] = MovedFrom]
    /\ connections' = [connections EXCEPT ![j] = connections[i], ![i] = connections[j]]
    /\ UNCHANGED requestVars

Quiet == Running = {} /\ Live = {}

Next ==
    \/ \E q \in Requests :
          \/ \E i \in Igds : Begin(q, i) \/ NoLocalAddress(q, i)
          \/ OperationEnds(q)
          \/ Resume(q)
    \/ \E i \in Igds :
          \/ Stop(i)
          \/ Destroy(i)
          \/ \E j \in Igds : MoveConstruct(i, j) \/ MoveAssign(i, j)
    \/ Quiet /\ UNCHANGED vars

(* The executor resumes the coroutines that can go on.  Nothing is assumed *)
(* of gateways, of the network or of users.                                *)
Fairness == \A q \in Requests : WF_vars(Resume(q))

Spec == Init /\ [][Next]_vars /\ Fairness

-----------------------------------------------------------------------------

TypeOK ==
    /\ gateway \in [Igds -> Gateways \cup {Unborn, MovedFrom, Destroyed}]
    /\ connections \in [Igds -> SUBSET Requests]
    /\ pc \in [Requests -> Stages \cup {"ready", "done"}]
    /\ op \in [Requests -> {None, "pending", "completed", "failed"}]
    /\ closed \subseteq Requests
    /\ result \in [Requests -> {None, "ok", "no_endpoint_to_igd", "tcp_connect",
                                "http_request", "http_response", "http_status"}]
    /\ target \in [Requests -> Gateways \cup {None}]

(* The slot of a request refers to a stream on the coroutine's stack: it   *)
(* is in no list any more when the coroutine has left soap_request, and    *)
(* in none of an igd that is gone (igd.cpp:272-275).                       *)
SlotsAreAlive ==
    /\ \A i \in Igds : connections[i] \subseteq Running
    /\ \A i \in Igds \ Live : connections[i] = {}

(* "Stop all currently running actions" (igd.h:218-221) can be done for    *)
(* every running request that has not been stopped, however igds have been *)
(* moved since it began: it is linked in exactly one live igd, and that is *)
(* the one that stands for its gateway, if one does.                       *)
EveryRequestCanBeStopped ==
    \A q \in Unclosed : \E i \in Live :
        /\ \A j \in Igds : q \in connections[j] <=> j = i
        /\ \A j \in Igds : gateway[j] = target[q] => j = i

(* A request that has been stopped never waits for the network again: it   *)
(* neither stays in the operation that was cut off nor gets into the next  *)
(* one when stop() came between an operation's completion and its handler. *)
StoppedRequestsDoNotWait == \A q \in closed : op[q] # "pending"

(* Stopping an igd stops the running requests to its gateway, all of them  *)
(* and no other ones.                                                      *)
StopsItsRequests ==
    [][\A i \in Igds : gateway[i] \in Gateways /\ Stop(i) =>
           closed' = closed \cup {q \in Running : target[q] = gateway[i]}]_vars

(* A stopped request returns, and so does one whose igd is destroyed,      *)
(* though the gateway never answers and the five seconds never end.        *)
StoppedRequestsReturn == \A q \in Requests : q \in closed ~> pc[q] = "done"

(* No request takes longer than its TCP operations do.                     *)
RequestsReturn ==
    (\A q \in Requests : []<>(op[q] # "pending")) =>
        \A q \in Requests : pc[q] \in Stages ~> pc[q] = "done"
=============================================================================
