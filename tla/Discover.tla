------------------------------- MODULE Discover -------------------------------
(***************************************************************************)
(* igd::discover (src/src/igd.cpp): start an SSDP query, ask every device  *)
(* that answers for its description, and collect the services of the       *)
(* gateways among them, until the query ends.                              *)
(*                                                                         *)
(* The query is the stream that ResponseStream describes, with discover as *)
(* its only reader; SsdpQuery implements that stream.  The search goes on  *)
(* while discover talks to a device, for up to five seconds a device.      *)
(***************************************************************************)
EXTENDS Naturals, SequencesExt

CONSTANTS
    Responses,  \* datagrams that response::parse accepts
    Malformed,  \* datagrams that it does not accept
    Usns,       \* unique service names
    UsnOf,      \* the USN of each response
    RootOf,     \* the root device at each response's LOCATION, if there is one
    MaxQueue,   \* bound: results queued in the query
    NDEBUG      \* TRUE: result.value() throws; FALSE: it terminates

ASSUME DiscoverAssumption ==
    /\ UsnOf \in [Responses -> Usns]
    /\ DOMAIN RootOf \subseteq Responses
    /\ Responses \cap Malformed = {}
    /\ MaxQueue \in Nat
    /\ NDEBUG \in BOOLEAN

(* What a description is read into: vectors of devices and of services.    *)
Services == [id : STRING, type : STRING \X Nat]

IsVector(list) == list \in Seq(ToSet(list))

ASSUME DescriptionsAssumption ==
    \A r \in DOMAIN RootOf :
        /\ IsVector(RootOf[r].devices)
        /\ \A device \in ToSet(RootOf[r].devices) :
              /\ device.udn \in STRING
              /\ IsVector(device.devices)
              /\ \A connection \in ToSet(device.devices) :
                    connection.services \in Seq(Services)

Self     == "discover"
None     == "none"
TimedOut == "timed_out"
Aborted  == "operation_aborted"
RxError  == "rx_error"

VARIABLES
    status, owned, stopped, reason, queue, named, blocked, outcome, dead,
    pc,           \* "start", "reading", "connect", "write", "read", "return", "done"
    rsp,          \* the response whose device is being asked
    alreadySeen,  \* already_seen: UDNs
    igds,         \* the vector that is going to be returned
    result,       \* what discover has returned
    asked         \* history: responses whose description was looked at, in this order

S == INSTANCE ResponseStream WITH
        Readers <- {Self}, Items <- Responses \cup Malformed, Good <- Responses,
        Names <- Usns, NameOf <- UsnOf, EndReasons <- {TimedOut, Aborted, RxError},
        StopReason <- Aborted, TimeReason <- TimedOut, Fatal <- ~NDEBUG

streamVars == <<status, owned, stopped, reason, queue, named, blocked, outcome, dead>>
foundVars  == <<alreadySeen, igds, asked>>
vars       == <<streamVars, pc, rsp, result, foundVars>>

Init ==
    /\ S!Init
    /\ pc = "start"
    /\ rsp = None
    /\ alreadySeen = {}
    /\ igds = <<>>
    /\ result = None
    /\ asked = <<>>

-----------------------------------------------------------------------------
(* Device descriptions.  A type is a name and a version, as in the URNs.   *)

Versions == {1, 2}

IsGatewayOf(root, v) == root.type = <<"InternetGatewayDevice", v>>

(* Mutated IsConnection: PPP connections are forgotten.                    *)
IsIpConnection(service, v) == service.type = <<"WANIPConnection", v>>

IsConnection(service, v) ==
    service.type \in {<<"WANIPConnection", v>>, <<"WANPPPConnection", v>>}

(* The igds of one WAN device: url is rsp.location with another path.      *)
OfService(r, v, udn, service) ==
    IF IsConnection(service, v) THEN <<[response |-> r, udn |-> udn, service |-> service]>>
    ELSE <<>>

OfConnection(r, v, udn, connection) ==
    IF connection.type = <<"WANConnectionDevice", v>>
    THEN LET services == connection.services
         IN  FlattenSeq([i \in DOMAIN services |-> OfService(r, v, udn, services[i])])
    ELSE <<>>

IgdsOf(r, v, device) ==
    LET connections == device.devices
    IN  FlattenSeq([i \in DOMAIN connections |->
                       OfConnection(r, v, device.udn, connections[i])])

(* Mutated Visit: no check for duplicates.                                 *)
VisitAlways(r, v, acc, device) ==
    [acc EXCEPT !.igds = IF device.type = <<"WANDevice", v>>
                         THEN @ \o IgdsOf(r, v, device) ELSE @]

(* One round of the loop over the root's devices.  A UDN counts as seen    *)
(* before the device's type is looked at.                                  *)
Visit(r, v, acc, device) ==
    IF device.udn \in acc.seen THEN acc
    ELSE [seen |-> acc.seen \cup {device.udn},
          igds |-> IF device.type = <<"WANDevice", v>>
                   THEN acc.igds \o IgdsOf(r, v, device) ELSE acc.igds]

Found(r, v) ==
    FoldLeft(LAMBDA acc, device : Visit(r, v, acc, device),
             [seen |-> alreadySeen, igds |-> igds], RootOf[r].devices)

-----------------------------------------------------------------------------
(* discover                                                                *)

StartQuery ==
    /\ pc = "start"
    /\ S!Open
    /\ IF status' = "open"
       THEN pc' = "reading" /\ UNCHANGED result
       ELSE pc' = "return" /\ result' = "start_error"
    /\ UNCHANGED <<rsp, foundVars>>

(* Mutated GetsResponse: does not look whether there is a response.        *)
GetsAnything ==
    /\ pc = "reading"
    /\ S!CanRead(Self)
    /\ S!Take(Self)
    /\ rsp' = Head(queue)
    /\ pc' = "connect"
    /\ UNCHANGED <<result, foundVars>>

(* get_response gives a response, or throws for a parse error.             *)
GetsResponse ==
    /\ pc = "reading"
    /\ S!CanRead(Self)
    /\ S!Take(Self)
    /\ IF Head(queue) \in Responses
       THEN rsp' = Head(queue) /\ pc' = "connect" /\ UNCHANGED result
       ELSE result' = "exception" /\ pc' = "return" /\ UNCHANGED rsp
    /\ UNCHANGED foundVars

(* Mutated GetsEnd: every error but the timeout is taken for a parse error *)
(* and the loop goes on.                                                   *)
GetsEndAndGoesOn ==
    /\ pc = "reading"
    /\ S!CanRead(Self)
    /\ S!ReadEnd(Self)
    /\ IF reason = TimedOut
       THEN result' = (IF igds # <<>> THEN "igds" ELSE reason) /\ pc' = "return"
       ELSE UNCHANGED <<pc, result>>
    /\ UNCHANGED <<rsp, foundVars>>

(* The end of the search: success if it timed out and something was found. *)
GetsEnd ==
    /\ pc = "reading"
    /\ S!CanRead(Self)
    /\ S!ReadEnd(Self)
    /\ result' = IF reason = TimedOut /\ igds # <<>> THEN "igds" ELSE reason
    /\ pc' = "return"
    /\ UNCHANGED <<rsp, foundVars>>

WaitsForResponse ==
    /\ pc = "reading"
    /\ S!CanRead(Self)
    /\ S!Block(Self)
    /\ UNCHANGED <<pc, rsp, result, foundVars>>

(* query_root_device: connect, write the request, read the answer.         *)
QueryAdvances ==
    /\ \/ pc = "connect" /\ pc' = "write"
       \/ pc = "write" /\ pc' = "read"
    /\ UNCHANGED <<streamVars, rsp, result, foundVars>>

(* Each of the three can fail, at the latest when the five seconds of the  *)
(* stream are over; so can parsing the endpoint, the status and the        *)
(* description.  Whatever went wrong, discover returns an I/O error.       *)
QueryFails ==
    /\ pc \in {"connect", "write", "read"}
    /\ result' = "io_error"
    /\ pc' = "return"
    /\ UNCHANGED <<streamVars, rsp, foundVars>>

(* Mutated GotRootDevice: the first gateway is enough.                     *)
GotFirstGateway ==
    /\ pc = "read"
    /\ rsp \in DOMAIN RootOf
    /\ asked' = Append(asked, rsp)
    /\ \E v \in Versions :
          /\ IsGatewayOf(RootOf[rsp], v)
          /\ alreadySeen' = Found(rsp, v).seen
          /\ igds' = Found(rsp, v).igds
    /\ pc' = "return"
    /\ result' = "igds"
    /\ UNCHANGED <<streamVars, rsp>>

(* Mutated GotRootDevice: the devices of what is no gateway count as seen. *)
GotAnyRootDevice ==
    /\ pc = "read"
    /\ rsp \in DOMAIN RootOf
    /\ asked' = Append(asked, rsp)
    /\ IF \E v \in Versions : IsGatewayOf(RootOf[rsp], v)
       THEN \E v \in Versions :
               /\ IsGatewayOf(RootOf[rsp], v)
               /\ alreadySeen' = Found(rsp, v).seen
               /\ igds' = Found(rsp, v).igds
       ELSE /\ alreadySeen' = alreadySeen \cup {d.udn : d \in ToSet(RootOf[rsp].devices)}
            /\ UNCHANGED igds
    /\ pc' = "reading"
    /\ UNCHANGED <<streamVars, rsp, result>>

(* The rest of the loop's body.                                            *)
GotRootDevice ==
    /\ pc = "read"
    /\ rsp \in DOMAIN RootOf
    /\ asked' = Append(asked, rsp)
    /\ IF \E v \in Versions : IsGatewayOf(RootOf[rsp], v)
       THEN \E v \in Versions :
               /\ IsGatewayOf(RootOf[rsp], v)
               /\ alreadySeen' = Found(rsp, v).seen
               /\ igds' = Found(rsp, v).igds
       ELSE UNCHANGED <<alreadySeen, igds>>
    /\ pc' = "reading"
    /\ UNCHANGED <<streamVars, rsp, result>>

(* The locals are destroyed, the query with them: its destructor stops it. *)
Return ==
    /\ pc = "return"
    /\ pc' = "done"
    /\ IF owned THEN S!Release /\ stopped' = TRUE ELSE UNCHANGED streamVars
    /\ UNCHANGED <<rsp, result, foundVars>>

DiscoverStep ==
    \/ StartQuery
    \/ GetsResponse
    \/ GetsEnd
    \/ WaitsForResponse
    \/ QueryAdvances
    \/ QueryFails
    \/ GotRootDevice
    \/ Return

-----------------------------------------------------------------------------
(* The query's coroutine, timer and network.  They run only while discover *)
(* is suspended: in get_response or in an operation on the TCP stream.     *)

Suspended == pc \in {"connect", "write", "read", "done"} \/ Self \in blocked

QueryPuts ==
    /\ Suspended
    /\ Len(queue) < MaxQueue
    /\ \E i \in Responses \cup Malformed : S!Put(i)
    /\ UNCHANGED <<pc, rsp, result, foundVars>>

QueryEnds ==
    /\ Suspended
    /\ \E e \in {TimedOut, Aborted, RxError} : S!End(e)
    /\ UNCHANGED <<pc, rsp, result, foundVars>>

Quiet == dead \/ (pc = "done" /\ (status = "refused" \/ reason # None))

Next ==
    \/ ~dead /\ (DiscoverStep \/ QueryPuts \/ QueryEnds)
    \/ Quiet /\ UNCHANGED vars

(* Operations on the TCP stream end within its five seconds; the query     *)
(* ends by itself.  That is what SsdpQuery is shown to do.                 *)
Fairness ==
    /\ WF_vars(~dead /\ DiscoverStep)
    /\ WF_vars(~dead /\ QueryEnds)

Spec == Init /\ [][Next]_vars /\ Fairness

-----------------------------------------------------------------------------

Igds == [response: Responses, udn: STRING, service: [id: STRING, type: STRING \X Versions]]

TypeOK ==
    /\ pc \in {"start", "reading", "connect", "write", "read", "return", "done"}
    /\ rsp \in Responses \cup {None}
    /\ \A udn \in alreadySeen : udn \in STRING
    /\ \A i \in 1 .. Len(igds) : igds[i] \in Igds
    /\ result \in {None, "igds", "exception", "io_error", "start_error",
                   TimedOut, Aborted, RxError}
    /\ asked \in Seq(Responses)
    /\ owned \in BOOLEAN /\ stopped \in BOOLEAN /\ dead \in BOOLEAN
    /\ queue \in Seq(Responses \cup Malformed)

(* When discover returns because the search is over, it has asked every    *)
(* device that answered, also those whose response was queued while it was *)
(* busy with another one and those still queued when the time was over     *)
(* (igd.cpp:310-323).                                                      *)
SearchWasTimedOut == result \in {"igds", TimedOut}

NobodyIsSkipped == SearchWasTimedOut => queue = <<>> /\ named = {UsnOf[r] : r \in ToSet(asked)}

(* "No duplicates" (igd.cpp:348): although a gateway answers for several   *)
(* of its services, and devices may list others' UDNs, the igds with one   *)
(* UDN are those that one description gives of one WAN device, each once   *)
(* and in that order.                                                      *)
IsListedAt(from, list, udn, found) ==
    /\ {i \in DOMAIN list : list[i].udn = udn} = from + 1 .. from + Len(found)
    /\ \A i \in 1 .. Len(found) : list[from + i] = found[i]

IsListedOnce(igd, list) ==
    LET root == RootOf[igd.response] IN
    \E v \in Versions : \E device \in ToSet(root.devices) : \E from \in 0 .. Len(list) :
        /\ IsGatewayOf(root, v) /\ device.type = <<"WANDevice", v>>
        /\ IsListedAt(from, list, igd.udn, IgdsOf(igd.response, v, device))

GatewaysAreFoundOnce == \A i \in DOMAIN igds : IsListedOnce(igds[i], igds)

(* The first n descriptions that were looked at, those of gateways only.   *)
GatewaysUpTo(n) ==
    {r \in ToSet(SubSeq(asked, 1, n)) : \E v \in Versions : IsGatewayOf(RootOf[r], v)}

(* No two gateways up to the n-th description, nor one gateway for two of  *)
(* its devices, have used the UDN for different things.                    *)
IsUnambiguous(udn, n) ==
    \A q, r \in GatewaysUpTo(n) :
    \A c \in ToSet(RootOf[q].devices), d \in ToSet(RootOf[r].devices) :
        c.udn = udn /\ d.udn = udn => c = d /\ RootOf[q].type = RootOf[r].type

(* discover returns: neither a device that does not answer nor devices     *)
(* that keep answering hold it up for ever.                                *)
DiscoverReturns == <>(pc = "done" \/ dead)
=============================================================================
