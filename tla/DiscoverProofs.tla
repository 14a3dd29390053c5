---------------------------- MODULE DiscoverProofs ----------------------------
(***************************************************************************)
(* Safety of Discover for any responses and descriptions and in either     *)
(* build.  The first invariant, IInv, is about which responses are asked,  *)
(* and when discover ends.  The second, CInv, says what the loop over the  *)
(* descriptions has collected; it goes through the fold round by round.    *)
(***************************************************************************)
EXTENDS DescribedGateways, SequenceLemmas

Ends == {TimedOut, Aborted, RxError}

Queued == {queue[i] : i \in 1 .. Len(queue)} \cap Responses

(* The response that discover is busy with.                                *)
Current == IF pc \in {"connect", "write", "read"} THEN {rsp} ELSE {}

NamesOf(R) == {UsnOf[r] : r \in R}

(* The responses that were asked, in whatever order.                       *)
Asked == ToSet(asked)

(* As long as discover has not given up, each name that the query has seen *)
(* is that of a response asked, being asked or still queued.               *)
Accounted ==
    result \in {None, "igds", TimedOut} => named = NamesOf(Asked \cup Current \cup Queued)

(* Only the end of the drained stream is told as a timeout or a success.   *)
Drained == SearchWasTimedOut => queue = <<>> /\ reason # None /\ Current = {}

Typed ==
    /\ queue \in Seq(Responses \cup Malformed)
    /\ asked \in Seq(Responses)
    /\ Current \subseteq Responses
    /\ reason \in Ends \cup {None}
    /\ pc \in {"start", "reading", "connect", "write", "read", "return", "done"}
    /\ pc \notin {"return", "done"} => result = None

IInv == Typed /\ Accounted /\ Drained

LEMMA TakingFront ==
    ASSUME NEW T, NEW q \in Seq(T), q # <<>>
    PROVE  /\ Head(q) \in T
           /\ Tail(q) \in Seq(T)
           /\ {q[i] : i \in 1 .. Len(q)} =
                 {Head(q)} \cup {Tail(q)[i] : i \in 1 .. Len(Tail(q))}
<1>1. Len(q) \in Nat /\ Len(q) > 0 /\ q[1] = Head(q) /\ Head(q) \in T
  OBVIOUS
<1>2. Tail(q) \in Seq(T) /\ Len(Tail(q)) = Len(q) - 1
  OBVIOUS
<1>3. \A i \in 1 .. Len(Tail(q)) : Tail(q)[i] = q[i + 1]
  OBVIOUS
<1>. DEFINE Whole == {q[i] : i \in 1 .. Len(q)}
            Rest  == {Tail(q)[i] : i \in 1 .. Len(Tail(q))}
<1>4. Whole \subseteq {Head(q)} \cup Rest
  <2>. SUFFICES ASSUME NEW i \in 1 .. Len(q), i # 1 PROVE q[i] \in Rest
    BY <1>1
  <2>1. i - 1 \in 1 .. Len(Tail(q)) /\ Tail(q)[i - 1] = q[i]
    BY <1>1, <1>2, <1>3
  <2>. QED  BY <2>1
<1>5. {Head(q)} \cup Rest \subseteq Whole
  <2>1. Head(q) \in Whole
    BY <1>1
  <2>2. ASSUME NEW i \in 1 .. Len(Tail(q)) PROVE Tail(q)[i] \in Whole
    <3>1. i + 1 \in 1 .. Len(q) /\ Tail(q)[i] = q[i + 1]
      BY <1>1, <1>2, <1>3
    <3>. QED  BY <3>1
  <2>. QED  BY <2>1, <2>2
<1>. QED  BY <1>1, <1>2, <1>4, <1>5

LEMMA PuttingBack ==
    ASSUME NEW T, NEW q \in Seq(T), NEW e \in T
    PROVE  /\ Append(q, e) \in Seq(T)
           /\ {Append(q, e)[i] : i \in 1 .. Len(Append(q, e))} =
                 {q[i] : i \in 1 .. Len(q)} \cup {e}
<1>1. Append(q, e) \in Seq(T) /\ Len(Append(q, e)) = Len(q) + 1 /\ Len(q) \in Nat
  OBVIOUS
<1>2. \A i \in 1 .. Len(q) : Append(q, e)[i] = q[i]
  OBVIOUS
<1>3. Append(q, e)[Len(q) + 1] = e
  OBVIOUS
<1>. QED  BY <1>1, <1>2, <1>3

LEMMA InitIInv == Init => IInv
<1>. SUFFICES ASSUME Init PROVE IInv
  OBVIOUS
<1>1. /\ queue = <<>> /\ named = {} /\ reason = None /\ pc = "start" /\ result = None
      /\ asked = <<>>
  BY DEF Init, S!Init, S!Nothing, None
<1>2. Current = {} /\ Queued = {} /\ Asked = {}
  BY <1>1 DEF Current, Queued, Asked, ToSet
<1>3. Typed
  BY <1>1, <1>2 DEF Typed
<1>4. Accounted
  BY <1>1, <1>2 DEF Accounted, NamesOf
<1>5. Drained
  BY <1>1 DEF Drained, SearchWasTimedOut, None, TimedOut
<1>. QED  BY <1>3, <1>4, <1>5 DEF IInv

-----------------------------------------------------------------------------
(* The steps of the query.                                                 *)

LEMMA QueryPutsKeepsInv == IInv /\ QueryPuts => IInv'
<1>. SUFFICES ASSUME IInv, QueryPuts PROVE IInv'
  OBVIOUS
<1>1. PICK i \in Responses \cup Malformed : S!Put(i)
  BY DEF QueryPuts
<1>2. /\ reason = None /\ queue' = Append(queue, i)
      /\ named' = IF i \in Responses THEN named \cup {UsnOf[i]} ELSE named
      /\ UNCHANGED <<reason, pc, rsp, result, asked>>
  BY <1>1 DEF S!Put, S!Nothing, None, QueryPuts, foundVars
<1>3. queue \in Seq(Responses \cup Malformed)
  BY DEF IInv, Typed
<1>4. /\ queue' \in Seq(Responses \cup Malformed)
      /\ Queued' = Queued \cup ({i} \cap Responses)
  BY <1>2, <1>3, PuttingBack DEF Queued
<1>5. Current' = Current /\ Asked' = Asked
  BY <1>2 DEF Current, Asked
<1>6. Typed'
  BY <1>2, <1>4, <1>5 DEF IInv, Typed
<1>7. Accounted'
  BY <1>2, <1>4, <1>5 DEF IInv, Accounted, NamesOf
<1>8. Drained'
  BY <1>2 DEF IInv, Drained, SearchWasTimedOut
<1>. QED  BY <1>6, <1>7, <1>8 DEF IInv

LEMMA QueryEndsKeepsInv == IInv /\ QueryEnds => IInv'
<1>. SUFFICES ASSUME IInv, QueryEnds PROVE IInv'
  OBVIOUS
<1>1. /\ reason = None /\ reason' \in Ends
      /\ UNCHANGED <<queue, named, pc, rsp, result, asked>>
  BY DEF QueryEnds, S!End, S!Nothing, None, Ends, foundVars
<1>2. Queued' = Queued /\ Current' = Current /\ Asked' = Asked
  BY <1>1 DEF Queued, Current, Asked
<1>3. Typed' /\ Accounted'
  BY <1>1, <1>2 DEF IInv, Typed, Accounted, NamesOf
<1>4. Drained'
  BY <1>1 DEF IInv, Drained, SearchWasTimedOut
<1>. QED  BY <1>3, <1>4 DEF IInv

-----------------------------------------------------------------------------
(* The steps of discover.                                                  *)

(* Steps that take nothing and ask nobody: the response at hand stays in   *)
(* hand, or discover gives up.                                             *)
LEMMA OtherStepsKeepInv ==
    ASSUME IInv, UNCHANGED <<queue, named, reason, asked>>, Typed',
           \/ result' = result /\ Current' = Current
           \/ result' \notin {None, "igds", TimedOut}
    PROVE  IInv'
<1>1. Queued' = Queued /\ Asked' = Asked
  BY DEF Queued, Asked
<1>2. Accounted'
  BY <1>1 DEF IInv, Accounted, NamesOf
<1>3. Drained'
  BY DEF IInv, Drained, SearchWasTimedOut
<1>. QED  BY <1>2, <1>3 DEF IInv

LEMMA StartQueryKeepsInv == IInv /\ StartQuery => IInv'
<1>. SUFFICES ASSUME IInv, StartQuery PROVE IInv'
  OBVIOUS
<1>1. /\ UNCHANGED <<queue, named, reason, asked>>
      /\ pc = "start"
      /\ \/ pc' = "reading" /\ result' = result
         \/ pc' = "return" /\ result' = "start_error"
  BY DEF StartQuery, S!Open, foundVars
<1>2. Current = {} /\ Current' = {}
  BY <1>1 DEF Current
<1>3. Typed'
  BY <1>1, <1>2 DEF IInv, Typed
<1>. QED  BY <1>1, <1>2, <1>3, OtherStepsKeepInv DEF None, TimedOut

LEMMA GetsResponseKeepsInv == IInv /\ GetsResponse => IInv'
<1>. SUFFICES ASSUME IInv, GetsResponse PROVE IInv'
  OBVIOUS
<1>1. /\ queue # <<>> /\ queue' = Tail(queue) /\ pc = "reading"
      /\ UNCHANGED <<named, reason, asked>>
  BY DEF GetsResponse, S!Take, foundVars
<1>2. queue \in Seq(Responses \cup Malformed) /\ result = None
  BY <1>1 DEF IInv, Typed
<1>3. /\ Head(queue) \in Responses \cup Malformed
      /\ queue' \in Seq(Responses \cup Malformed)
      /\ Queued = Queued' \cup ({Head(queue)} \cap Responses)
  <2>. DEFINE T == Responses \cup Malformed
              Whole == {queue[i] : i \in 1 .. Len(queue)}
              Rest == {Tail(queue)[i] : i \in 1 .. Len(Tail(queue))}
  <2>1. Head(queue) \in T /\ Tail(queue) \in Seq(T) /\ Whole = {Head(queue)} \cup Rest
    <3>. HIDE DEF T
    <3>1. queue \in Seq(T)
      BY <1>2 DEF T
    <3>. QED  BY <1>1, <3>1, TakingFront
  <2>2. Queued = Whole \cap Responses /\ Queued' = Rest \cap Responses
    BY <1>1 DEF Queued
  <2>. QED  BY <1>1, <2>1, <2>2
<1>4. Current = {} /\ Asked' = Asked
  BY <1>1 DEF Current, Asked
<1>5. CASE Head(queue) \in Responses
  <2>1. rsp' = Head(queue) /\ pc' = "connect" /\ result' = result
    BY <1>5 DEF GetsResponse
  <2>2. Current' = {Head(queue)}
    BY <2>1 DEF Current
  <2>3. Typed'
    BY <1>1, <1>2, <1>3, <1>5, <2>1, <2>2 DEF IInv, Typed
  <2>4. Accounted'
    BY <1>1, <1>2, <1>3, <1>4, <1>5, <2>1, <2>2 DEF IInv, Accounted, NamesOf
  <2>5. Drained'
    BY <1>2, <2>1 DEF Drained, SearchWasTimedOut, None, TimedOut
  <2>. QED  BY <2>3, <2>4, <2>5 DEF IInv
<1>6. CASE Head(queue) \notin Responses
  <2>1. result' = "exception" /\ pc' = "return"
    BY <1>6 DEF GetsResponse
  <2>2. Current' = {}
    BY <2>1 DEF Current
  <2>3. Typed'
    BY <1>1, <1>3, <2>1, <2>2 DEF IInv, Typed
  <2>4. Accounted' /\ Drained'
    BY <2>1 DEF Accounted, Drained, SearchWasTimedOut, None, TimedOut
  <2>. QED  BY <2>3, <2>4 DEF IInv
<1>. QED  BY <1>5, <1>6

LEMMA GetsEndKeepsInv == IInv /\ GetsEnd => IInv'
<1>. SUFFICES ASSUME IInv, GetsEnd PROVE IInv'
  OBVIOUS
<1>1. /\ queue = <<>> /\ reason # None /\ pc = "reading" /\ pc' = "return"
      /\ UNCHANGED <<queue, named, reason, asked>>
  BY DEF GetsEnd, S!ReadEnd, S!Nothing, None, foundVars
<1>2. Current = {} /\ Current' = {} /\ Queued' = Queued /\ Asked' = Asked
  BY <1>1 DEF Current, Queued, Asked
<1>3. result = None
  BY <1>1 DEF IInv, Typed
<1>4. Typed'
  BY <1>1, <1>2 DEF IInv, Typed
<1>5. Accounted'
  BY <1>1, <1>2, <1>3 DEF IInv, Accounted, NamesOf
<1>6. Drained'
  BY <1>1, <1>2 DEF Drained
<1>. QED  BY <1>4, <1>5, <1>6 DEF IInv

LEMMA AskingNext ==
    ASSUME NEW T, NEW q \in Seq(T), NEW e \in T
    PROVE  /\ Append(q, e) \in Seq(T) /\ ToSet(Append(q, e)) = ToSet(q) \cup {e}
           /\ Len(Append(q, e)) = Len(q) + 1 /\ Append(q, e)[Len(q) + 1] = e
           /\ \A n \in 1 .. Len(q) : Append(q, e)[n] = q[n]
                                     /\ SubSeq(Append(q, e), 1, n) = SubSeq(q, 1, n)
           /\ SubSeq(Append(q, e), 1, Len(q) + 1) = Append(q, e)
<1>1. \A s \in Seq(T) : ToSet(s) = {s[i] : i \in 1 .. Len(s)}
  BY DEF ToSet
<1>2. Append(q, e) \in Seq(T) /\ ToSet(Append(q, e)) = ToSet(q) \cup {e}
  <2>1. PICK longer : longer = Append(q, e)
    OBVIOUS
  <2>2. /\ longer \in Seq(T)
        /\ {longer[i] : i \in 1 .. Len(longer)} = {q[i] : i \in 1 .. Len(q)} \cup {e}
    BY <2>1, PuttingBack
  <2>3. /\ ToSet(longer) = {longer[i] : i \in 1 .. Len(longer)}
        /\ ToSet(q) = {q[i] : i \in 1 .. Len(q)}
    BY <1>1, <2>2
  <2>. QED  BY <2>1, <2>2, <2>3
<1>3. /\ Len(q) \in Nat /\ Len(Append(q, e)) = Len(q) + 1 /\ Append(q, e)[Len(q) + 1] = e
      /\ \A n \in 1 .. Len(q) : Append(q, e)[n] = q[n]
  OBVIOUS
<1>4. ASSUME NEW n \in 1 .. Len(q) PROVE SubSeq(Append(q, e), 1, n) = SubSeq(q, 1, n)
  BY <1>3
<1>5. SubSeq(Append(q, e), 1, Len(q) + 1) = Append(q, e)
  BY <1>2, <1>3
<1>. QED  BY <1>2, <1>3, <1>4, <1>5

LEMMA GotRootDeviceKeepsInv == IInv /\ GotRootDevice => IInv'
<1>. SUFFICES ASSUME IInv, GotRootDevice PROVE IInv'
  OBVIOUS
<1>1. /\ pc = "read" /\ pc' = "reading" /\ asked' = Append(asked, rsp)
      /\ UNCHANGED <<queue, named, reason, rsp, result>>
  BY DEF GotRootDevice, streamVars
<1>2. Current = {rsp} /\ Current' = {} /\ Queued' = Queued /\ result = None
  BY <1>1 DEF Current, Queued, IInv, Typed
<1>3. asked' \in Seq(Responses) /\ Asked' = Asked \cup {rsp}
  <2>1. asked \in Seq(Responses) /\ rsp \in Responses
    BY <1>2 DEF IInv, Typed
  <2>. QED  BY <1>1, <2>1, AskingNext DEF Asked
<1>4. Typed'
  BY <1>1, <1>2, <1>3 DEF IInv, Typed
<1>5. Accounted'
  BY <1>1, <1>2, <1>3 DEF IInv, Accounted, NamesOf
<1>6. Drained'
  BY <1>1, <1>2 DEF Drained, SearchWasTimedOut, None, TimedOut
<1>. QED  BY <1>4, <1>5, <1>6 DEF IInv

LEMMA NextIInv == IInv /\ [Next]_vars => IInv'
<1>. SUFFICES ASSUME IInv, [Next]_vars PROVE IInv'
  OBVIOUS
<1>. USE DEF streamVars, foundVars
<1>1. CASE WaitsForResponse
  <2>1. UNCHANGED <<queue, named, reason, asked, pc, rsp, result>>
    BY <1>1 DEF WaitsForResponse, S!Block
  <2>. QED  BY <2>1, OtherStepsKeepInv DEF IInv, Typed, Current
<1>2. CASE QueryAdvances
  <2>1. /\ UNCHANGED <<queue, named, reason, asked, rsp, result>>
        /\ pc \in {"connect", "write"} /\ pc' \in {"write", "read"}
    BY <1>2 DEF QueryAdvances
  <2>. QED  BY <2>1, OtherStepsKeepInv DEF IInv, Typed, Current
<1>3. CASE QueryFails
  <2>1. /\ UNCHANGED <<queue, named, reason, asked>>
        /\ pc' = "return" /\ result' = "io_error"
    BY <1>3 DEF QueryFails
  <2>2. Typed'
    BY <2>1 DEF IInv, Typed, Current
  <2>. QED  BY <2>1, <2>2, OtherStepsKeepInv DEF None, TimedOut
<1>4. CASE Return
  <2>1. /\ UNCHANGED <<queue, named, reason, asked, result>>
        /\ pc = "return" /\ pc' = "done"
    BY <1>4 DEF Return, S!Release
  <2>. QED  BY <2>1, OtherStepsKeepInv DEF IInv, Typed, Current
<1>5. CASE UNCHANGED vars
  <2>1. UNCHANGED <<queue, named, reason, asked, pc, rsp, result>>
    BY <1>5 DEF vars
  <2>. QED  BY <2>1, OtherStepsKeepInv DEF IInv, Typed, Current
<1>. QED
  BY <1>1, <1>2, <1>3, <1>4, <1>5, StartQueryKeepsInv, GetsResponseKeepsInv, GetsEndKeepsInv,
     GotRootDeviceKeepsInv, QueryPutsKeepsInv, QueryEndsKeepsInv
     DEF Next, DiscoverStep

-----------------------------------------------------------------------------

(* When discover returns what it found, or that the time was over, it has  *)
(* asked every device that answered, however long it was busy with others. *)
THEOREM EverybodyIsAsked == Spec => []NobodyIsSkipped
<1>1. Init => IInv
  BY InitIInv
<1>2. IInv /\ [Next]_vars => IInv'
  BY NextIInv
<1>3. IInv => NobodyIsSkipped
  <2>. SUFFICES ASSUME IInv, SearchWasTimedOut
                PROVE  queue = <<>> /\ named = {UsnOf[r] : r \in ToSet(asked)}
    BY DEF NobodyIsSkipped
  <2>1. queue = <<>> /\ Current = {}
    BY DEF IInv, Drained
  <2>2. Queued = {}
    BY <2>1 DEF Queued
  <2>. QED  BY <2>1, <2>2 DEF IInv, Accounted, SearchWasTimedOut, NamesOf, Asked
<1>. QED  BY <1>1, <1>2, <1>3, PTL DEF Spec

-----------------------------------------------------------------------------
(* What a description adds to the igds.                                    *)

LEMMA IgdsOfDevice ==
    ASSUME NEW r \in DOMAIN RootOf, NEW v \in Versions, NEW device \in ToSet(RootOf[r].devices)
    PROVE  /\ IgdsOf(r, v, device) \in Seq(Igds)
           /\ \A i \in 1 .. Len(IgdsOf(r, v, device)) :
                 /\ IgdsOf(r, v, device)[i].udn = device.udn
                 /\ IgdsOf(r, v, device)[i].response = r
<1>. DEFINE T == {igd \in Igds : igd.udn = device.udn /\ igd.response = r}
<1>1. /\ r \in Responses /\ device.udn \in STRING
      /\ IsVector(device.devices)
      /\ \A connection \in ToSet(device.devices) : connection.services \in Seq(Services)
  BY DiscoverAssumption, DescriptionsAssumption
<1>2. ASSUME NEW service \in Services
      PROVE  OfService(r, v, device.udn, service) \in Seq(T)
  <2>1. PICK igd : igd = [response |-> r, udn |-> device.udn, service |-> service]
    OBVIOUS
  <2>2. ASSUME IsConnection(service, v) PROVE igd \in T
    <3>1. service.type \in STRING \X Versions
      <4>1. service.type \in STRING \X Nat
        BY DEF Services
      <4>2. service.type[2] = v
        BY <2>2 DEF IsConnection
      <4>. QED  BY <4>1, <4>2
    <3>2. service \in [id : STRING, type : STRING \X Versions]
      BY <3>1 DEF Services
    <3>. QED  BY <1>1, <2>1, <3>2 DEF Igds
  <2>. HIDE DEF T
  <2>. QED  BY <2>1, <2>2 DEF OfService
<1>3. ASSUME NEW connection \in ToSet(device.devices)
      PROVE  OfConnection(r, v, device.udn, connection) \in Seq(T)
  <2>. HIDE DEF T
  <2>1. PICK services \in Seq(Services) : services = connection.services
    BY <1>1
  <2>2. [i \in DOMAIN services |-> OfService(r, v, device.udn, services[i])] \in Seq(Seq(T))
    <3>1. PICK U : U = Seq(T)
      OBVIOUS
    <3>2. \A i \in DOMAIN services : OfService(r, v, device.udn, services[i]) \in U
      BY <1>2, <2>1, <3>1
    <3>3. [i \in DOMAIN services |-> OfService(r, v, device.udn, services[i])] \in Seq(U)
      BY <2>1, <3>2
    <3>. QED  BY <3>1, <3>3
  <2>3. FlattenSeq([i \in DOMAIN services |-> OfService(r, v, device.udn, services[i])]) \in Seq(T)
    BY <2>2, FlattenElements
  <2>. QED  BY <2>1, <2>3 DEF OfConnection
<1>4. IgdsOf(r, v, device) \in Seq(T)
  <2>. HIDE DEF T
  <2>1. PICK connections : connections = device.devices
    OBVIOUS
  <2>2. connections \in Seq(ToSet(connections))
    BY <1>1, <2>1 DEF IsVector
  <2>3. [i \in DOMAIN connections |-> OfConnection(r, v, device.udn, connections[i])] \in Seq(Seq(T))
    <3>1. PICK U : U = Seq(T)
      OBVIOUS
    <3>2. \A i \in DOMAIN connections : OfConnection(r, v, device.udn, connections[i]) \in U
      BY <1>3, <2>1, <2>2, <3>1
    <3>3. [i \in DOMAIN connections |-> OfConnection(r, v, device.udn, connections[i])] \in Seq(U)
      BY <2>2, <3>2
    <3>. QED  BY <3>1, <3>3
  <2>4. FlattenSeq([i \in DOMAIN connections |-> OfConnection(r, v, device.udn, connections[i])])
          \in Seq(T)
    BY <2>3, FlattenElements
  <2>. QED  BY <2>1, <2>4 DEF IgdsOf
<1>. QED  BY <1>4

(* The loop over the root's devices, round by round.                       *)
LEMMA Rounds ==
    ASSUME NEW r, NEW v, NEW n \in Nat, DOMAIN RootOf[r].devices = 1 .. n
    PROVE  \E acc : /\ acc[0] = [seen |-> alreadySeen, igds |-> igds]
                    /\ \A k \in 1 .. n :
                          acc[k] = Visit(r, v, acc[k - 1], RootOf[r].devices[k])
                    /\ Found(r, v) = acc[n]
<1>. DEFINE base == [seen |-> alreadySeen, igds |-> igds]
            Step(f, s) == IF s = {} THEN base
                          ELSE Visit(r, v, f[s \ {Max(s)}], RootOf[r].devices[Max(s)])
            Upto(k) == \E f : f = [s \in SUBSET (1 .. k) |-> Step(f, s)]
            K == {k \in Nat : Upto(k)}
            iter == CHOOSE f : f = [s \in SUBSET (1 .. n) |-> Step(f, s)]
<1>1. Found(r, v) = iter[1 .. n]
  BY DEF Found, FoldLeft, MapThenFoldSet
<1>2. Upto(0)
  <2>1. SUBSET (1 .. 0) = {{}}
    OBVIOUS
  <2>2. \A s \in SUBSET (1 .. 0) : Step([t \in SUBSET (1 .. 0) |-> base], s) = base
    BY <2>1
  <2>. HIDE DEF Step
  <2>3. [s \in SUBSET (1 .. 0) |-> base]
          = [s \in SUBSET (1 .. 0) |-> Step([t \in SUBSET (1 .. 0) |-> base], s)]
    BY <2>2
  <2>. QED  BY <2>3
<1>3. ASSUME NEW k \in Nat, Upto(k) PROVE Upto(k + 1)
  <2>1. PICK f : f = [s \in SUBSET (1 .. k) |-> Step(f, s)]
    BY <1>3
  <2>. DEFINE g == [s \in SUBSET (1 .. k + 1) |->
                      IF k + 1 \in s
                      THEN Visit(r, v, f[s \ {k + 1}], RootOf[r].devices[k + 1]) ELSE f[s]]
  <2>2. ASSUME NEW s \in SUBSET (1 .. k + 1) PROVE g[s] = Step(g, s)
    <3>1. s # {} => Max(s) \in s /\ \A x \in s : Max(s) >= x
      <4>1. k + 1 \in Nat /\ s \subseteq 0 .. k + 1
        OBVIOUS
      <4>. QED  BY <4>1, MaxIsIn
    <3>2. g[s] = IF k + 1 \in s
                 THEN Visit(r, v, f[s \ {k + 1}], RootOf[r].devices[k + 1]) ELSE f[s]
      OBVIOUS
    <3>3. ASSUME NEW t \in SUBSET (1 .. k) PROVE g[t] = f[t]
      <4>1. k + 1 \notin t /\ t \in SUBSET (1 .. k + 1)
        OBVIOUS
      <4>. QED  BY <4>1
    <3>. HIDE DEF g
    <3>4. CASE k + 1 \in s
      <4>1. Max(s) = k + 1
        <5>1. PICK m : m = Max(s)
          OBVIOUS
        <5>2. m \in 1 .. k + 1 /\ m >= k + 1
          BY <3>1, <3>4, <5>1
        <5>. QED  BY <5>1, <5>2
      <4>2. s \ {k + 1} \in SUBSET (1 .. k)
        OBVIOUS
      <4>3. g[s \ {k + 1}] = f[s \ {k + 1}]
        BY <3>3, <4>2
      <4>. QED  BY <3>2, <3>4, <4>1, <4>3
    <3>5. CASE k + 1 \notin s
      <4>1. s \in SUBSET (1 .. k)
        BY <3>5
      <4>2. s \ {Max(s)} \in SUBSET (1 .. k)
        BY <4>1
      <4>3. f[s] = Step(f, s)
        <5>. HIDE DEF Step
        <5>. QED  BY <2>1, <4>1
      <4>4. g[s \ {Max(s)}] = f[s \ {Max(s)}]
        BY <3>3, <4>2
      <4>. QED  BY <3>2, <3>5, <4>3, <4>4
    <3>. QED  BY <3>4, <3>5
  <2>3. g = [s \in SUBSET (1 .. k + 1) |-> Step(g, s)]
    <3>1. g = [s \in SUBSET (1 .. k + 1) |-> g[s]]
      OBVIOUS
    <3>. HIDE DEF g, Step
    <3>. QED  BY <2>2, <3>1
  <2>. HIDE DEF g
  <2>. QED  BY <2>3
<1>4. Upto(n)
  <2>. HIDE DEF Upto
  <2>1. 0 \in K /\ \A k \in Nat : k \in K => k + 1 \in K
    BY <1>2, <1>3
  <2>2. n \in K
    <3>. HIDE DEF K
    <3>. QED  BY <2>1, Induction
  <2>. QED  BY <2>2
<1>5. iter = [s \in SUBSET (1 .. n) |-> Step(iter, s)]
  <2>. HIDE DEF Step
  <2>. QED  BY <1>4
<1>6. PICK acc : acc = [k \in 0 .. n |-> iter[1 .. k]]
  OBVIOUS
<1>. HIDE DEF iter
<1>7. acc[0] = base
  <2>1. 1 .. 0 = {} /\ {} \in SUBSET (1 .. n)
    OBVIOUS
  <2>2. iter[{}] = Step(iter, {})
    <3>. HIDE DEF Step
    <3>. QED  BY <1>5, <2>1
  <2>. QED  BY <1>6, <2>1, <2>2
<1>8. ASSUME NEW k \in 1 .. n PROVE acc[k] = Visit(r, v, acc[k - 1], RootOf[r].devices[k])
  <2>1. 1 .. k \in SUBSET (1 .. n) /\ 1 .. k # {} /\ k \in 0 .. n /\ k - 1 \in 0 .. n
    OBVIOUS
  <2>2. Max(1 .. k) = k
    <3>1. k \in Nat /\ 1 .. k \subseteq 0 .. k
      OBVIOUS
    <3>2. Max(1 .. k) \in 1 .. k /\ \A x \in 1 .. k : Max(1 .. k) >= x
      BY <2>1, <3>1, MaxIsIn
    <3>. QED  BY <3>2
  <2>3. (1 .. k) \ {k} = 1 .. k - 1
    OBVIOUS
  <2>4. iter[1 .. k] = Step(iter, 1 .. k)
    <3>. HIDE DEF Step
    <3>. QED  BY <1>5, <2>1
  <2>. QED  BY <1>6, <2>1, <2>2, <2>3, <2>4
<1>9. Found(r, v) = acc[n]
  BY <1>1, <1>6
<1>. QED  BY <1>7, <1>8, <1>9

-----------------------------------------------------------------------------
(* The igds that have been collected: each UDN that was seen is one of a   *)
(* device in a gateway's description that was looked at, and the igds with *)
(* this UDN are those of this device, none if it is not a WAN device.      *)

Listing(q, v, device) ==
    IF device.type = <<"WANDevice", v>> THEN IgdsOf(q, v, device) ELSE <<>>

IsCollected(udn, list, R) ==
    \E q \in R : \E v \in Versions : \E device \in ToSet(RootOf[q].devices) :
    \E from \in 0 .. Len(list) :
        /\ IsGatewayOf(RootOf[q], v) /\ device.udn = udn
        /\ IsListedAt(from, list, udn, Listing(q, v, device))

Collected(acc, R) ==
    /\ acc.igds \in Seq(Igds)
    /\ \A i \in 1 .. Len(acc.igds) : acc.igds[i].udn \in acc.seen
    /\ \A udn \in acc.seen : IsCollected(udn, acc.igds, R)

(* What was collected once, out of whichever descriptions, stays so.       *)
KeepsCollected(old, new) ==
    \A Q \in SUBSET DOMAIN RootOf : \A udn \in old.seen :
        IsCollected(udn, old.igds, Q) => IsCollected(udn, new.igds, Q)

LEMMA ListingsAreTyped ==
    ASSUME NEW r \in DOMAIN RootOf, NEW v \in Versions, NEW device \in ToSet(RootOf[r].devices)
    PROVE  /\ Listing(r, v, device) \in Seq(Igds)
           /\ \A i \in 1 .. Len(Listing(r, v, device)) :
                 /\ Listing(r, v, device)[i].udn = device.udn
                 /\ Listing(r, v, device)[i].response = r
<1>1. CASE device.type = <<"WANDevice", v>>
  BY <1>1, IgdsOfDevice DEF Listing
<1>2. CASE device.type # <<"WANDevice", v>>
  <2>1. Listing(r, v, device) = <<>> /\ <<>> \in Seq(Igds) /\ Len(<<>>) = 0
    BY <1>2 DEF Listing
  <2>. QED  BY <2>1
<1>. QED  BY <1>1, <1>2

(* What is appended for a new UDN is listed once, and nothing else moves.  *)
LEMMA AppendingListing ==
    ASSUME NEW T, NEW list \in Seq(T), NEW found \in Seq(T), NEW udn,
           \A i \in 1 .. Len(list) : list[i].udn # udn,
           \A i \in 1 .. Len(found) : found[i].udn = udn
    PROVE  /\ IsListedAt(Len(list), list \o found, udn, found)
           /\ \A other, from, old :
                 other # udn /\ IsListedAt(from, list, other, old) /\ from \in 0 .. Len(list)
                 /\ old \in Seq(T) =>
                    IsListedAt(from, list \o found, other, old)
<1>1. PICK n \in Nat, m \in Nat, all \in Seq(T) :
         n = Len(list) /\ m = Len(found) /\ all = list \o found
  <2>1. Len(list) \in Nat /\ Len(found) \in Nat /\ list \o found \in Seq(T)
    BY ConcatProperties
  <2>. QED  BY <2>1
<1>2. /\ Len(all) = n + m
      /\ \A i \in 1 .. n : all[i] = list[i]
      /\ \A i \in 1 .. m : all[n + i] = found[i]
  BY <1>1, ConcatProperties
<1>3. \A i \in 1 .. n + m : IF i <= n THEN all[i].udn # udn ELSE all[i].udn = udn
  <2>1. SUFFICES ASSUME NEW i \in 1 .. n + m
                 PROVE  IF i <= n THEN all[i].udn # udn ELSE all[i].udn = udn
    OBVIOUS
  <2>2. CASE i <= n
    BY <1>1, <1>2, <2>2
  <2>3. CASE ~(i <= n)
    <3>1. PICK j \in 1 .. m : i = n + j
      <4>1. i - n \in 1 .. m /\ i = n + (i - n)
        BY <2>3
      <4>. QED  BY <4>1
    <3>. QED  BY <1>1, <1>2, <2>3, <3>1
  <2>. QED  BY <2>2, <2>3
<1>4. DOMAIN all = 1 .. n + m /\ DOMAIN list = 1 .. n
  BY <1>1, <1>2
<1>5. IsListedAt(n, all, udn, found)
  <2>1. {i \in DOMAIN all : all[i].udn = udn} = n + 1 .. n + m
    BY <1>3, <1>4
  <2>. QED  BY <1>1, <1>2, <2>1 DEF IsListedAt
<1>6. ASSUME NEW other, NEW from \in 0 .. n, NEW old \in Seq(T),
             other # udn, IsListedAt(from, list, other, old)
      PROVE  IsListedAt(from, all, other, old)
  <2>1. PICK k \in Nat : k = Len(old)
    OBVIOUS
  <2>2. /\ {i \in 1 .. n : list[i].udn = other} = from + 1 .. from + k
        /\ \A i \in 1 .. k : list[from + i] = old[i]
    BY <1>4, <1>6, <2>1 DEF IsListedAt
  <2>3. \A i \in 1 .. k : from + i \in 1 .. n
    <3>1. SUFFICES ASSUME NEW i \in 1 .. k PROVE from + i \in 1 .. n
      OBVIOUS
    <3>2. from + i \in from + 1 .. from + k
      OBVIOUS
    <3>. QED  BY <2>2, <3>2
  <2>4. \A i \in 1 .. k : all[from + i] = old[i]
    BY <1>2, <2>2, <2>3
  <2>5. {i \in 1 .. n + m : all[i].udn = other} = {i \in 1 .. n : list[i].udn = other}
    <3>1. \A i \in 1 .. n + m : all[i].udn = other => i \in 1 .. n
      BY <1>3, <1>6
    <3>2. \A i \in 1 .. n : i \in 1 .. n + m /\ all[i] = list[i]
      BY <1>2
    <3>. QED  BY <3>1, <3>2
  <2>. QED  BY <1>4, <2>1, <2>2, <2>4, <2>5 DEF IsListedAt
<1>. QED  BY <1>1, <1>5, <1>6

(* One round of the loop.                                                  *)
LEMMA VisitCollects ==
    ASSUME NEW R \in SUBSET DOMAIN RootOf, NEW r \in R, NEW v \in Versions,
           IsGatewayOf(RootOf[r], v),
           NEW device \in ToSet(RootOf[r].devices), NEW acc, Collected(acc, R)
    PROVE  /\ Collected(Visit(r, v, acc, device), R)
           /\ KeepsCollected(acc, Visit(r, v, acc, device))
<1>1. CASE device.udn \in acc.seen
  BY <1>1 DEF Visit, KeepsCollected
<1>2. CASE device.udn \notin acc.seen
  <2>1. PICK udn, list, found, all, new :
           /\ udn = device.udn /\ list = acc.igds /\ found = Listing(r, v, device)
           /\ all = list \o found /\ new = Visit(r, v, acc, device)
    OBVIOUS
  <2>2. list \in Seq(Igds) /\ \A i \in 1 .. Len(list) : list[i].udn # udn
    BY <1>2, <2>1 DEF Collected
  <2>3. found \in Seq(Igds) /\ \A i \in 1 .. Len(found) : found[i].udn = udn
    BY <2>1, ListingsAreTyped
  <2>4. new.seen = acc.seen \cup {udn} /\ new.igds = all
    <3>1. CASE device.type = <<"WANDevice", v>>
      BY <1>2, <2>1, <3>1 DEF Visit, Listing
    <3>2. CASE device.type # <<"WANDevice", v>>
      <4>1. list \o <<>> = list
        BY <2>2
      <4>. QED  BY <1>2, <2>1, <3>2, <4>1 DEF Visit, Listing
    <3>. QED  BY <3>1, <3>2
  <2>5. /\ all \in Seq(Igds) /\ Len(all) = Len(list) + Len(found)
        /\ Len(list) \in Nat /\ Len(found) \in Nat
        /\ \A i \in 1 .. Len(list) : all[i] = list[i]
        /\ \A i \in 1 .. Len(found) : all[Len(list) + i] = found[i]
    BY <2>1, <2>2, <2>3, ConcatProperties
  <2>6. \A i \in 1 .. Len(all) : all[i].udn \in new.seen
    <3>1. SUFFICES ASSUME NEW i \in 1 .. Len(all) PROVE all[i].udn \in new.seen
      OBVIOUS
    <3>2. CASE i <= Len(list)
      <4>1. i \in 1 .. Len(list)
        BY <2>5, <3>2
      <4>2. list[i].udn \in acc.seen
        BY <2>1, <4>1 DEF Collected
      <4>. QED  BY <2>4, <2>5, <4>1, <4>2
    <3>3. CASE ~(i <= Len(list))
      <4>1. PICK j \in 1 .. Len(found) : i = Len(list) + j
        <5>1. i - Len(list) \in 1 .. Len(found) /\ i = Len(list) + (i - Len(list))
          BY <2>5, <3>3
        <5>. QED  BY <5>1
      <4>. QED  BY <2>3, <2>4, <2>5, <4>1
    <3>. QED  BY <3>2, <3>3
  <2>7. IsCollected(udn, all, R)
    <3>1. IsListedAt(Len(list), all, udn, found)
      BY <2>1, <2>2, <2>3, AppendingListing
    <3>2. Len(list) \in 0 .. Len(all)
      BY <2>5
    <3>. QED  BY <2>1, <3>1, <3>2 DEF IsCollected
  <2>8. ASSUME NEW Q \in SUBSET DOMAIN RootOf, NEW other \in acc.seen, IsCollected(other, list, Q)
        PROVE  IsCollected(other, all, Q)
    <3>0. PICK q \in Q, w \in Versions :
             \E d \in ToSet(RootOf[q].devices) : \E from \in 0 .. Len(list) :
                /\ IsGatewayOf(RootOf[q], w) /\ d.udn = other
                /\ IsListedAt(from, list, other, Listing(q, w, d))
      BY <2>8 DEF IsCollected
    <3>1. PICK d \in ToSet(RootOf[q].devices), from \in 0 .. Len(list) :
             /\ IsGatewayOf(RootOf[q], w) /\ d.udn = other
             /\ IsListedAt(from, list, other, Listing(q, w, d))
      BY <3>0
    <3>2. other # udn /\ Listing(q, w, d) \in Seq(Igds) /\ from \in 0 .. Len(all)
      BY <1>2, <2>1, <2>5, ListingsAreTyped
    <3>3. IsListedAt(from, all, other, Listing(q, w, d))
      BY <2>1, <2>2, <2>3, <3>1, <3>2, AppendingListing
    <3>. QED  BY <3>1, <3>2, <3>3 DEF IsCollected
  <2>9. \A other \in acc.seen : IsCollected(other, all, R)
    BY <2>1, <2>8 DEF Collected
  <2>10. Collected(new, R)
    BY <2>1, <2>4, <2>5, <2>6, <2>7, <2>9 DEF Collected
  <2>11. KeepsCollected(acc, new)
    BY <2>1, <2>4, <2>8 DEF KeepsCollected
  <2>. QED  BY <2>1, <2>10, <2>11
<1>. QED  BY <1>1, <1>2

(* The whole loop.                                                         *)
LEMMA FoundIsCollected ==
    ASSUME NEW R \in SUBSET DOMAIN RootOf, NEW r \in R, NEW v \in Versions,
           IsGatewayOf(RootOf[r], v), Collected([seen |-> alreadySeen, igds |-> igds], R)
    PROVE  /\ Collected(Found(r, v), R)
           /\ KeepsCollected([seen |-> alreadySeen, igds |-> igds], Found(r, v))
           /\ alreadySeen \subseteq Found(r, v).seen
           /\ \A device \in ToSet(RootOf[r].devices) : device.udn \in Found(r, v).seen
<1>1. PICK devices : devices = RootOf[r].devices
  OBVIOUS
<1>2. PICK n \in Nat : DOMAIN devices = 1 .. n
  <2>1. devices \in Seq(ToSet(devices))
    BY <1>1, DescriptionsAssumption DEF IsVector
  <2>. QED  BY <2>1
<1>3. PICK acc : /\ acc[0] = [seen |-> alreadySeen, igds |-> igds]
                 /\ \A k \in 1 .. n : acc[k] = Visit(r, v, acc[k - 1], devices[k])
                 /\ Found(r, v) = acc[n]
  <2>1. DOMAIN RootOf[r].devices = 1 .. n
    BY <1>1, <1>2
  <2>2. \E acc : /\ acc[0] = [seen |-> alreadySeen, igds |-> igds]
                 /\ \A k \in 1 .. n :
                       acc[k] = Visit(r, v, acc[k - 1], RootOf[r].devices[k])
                 /\ Found(r, v) = acc[n]
    BY <2>1, Rounds
  <2>. QED  BY <1>1, <2>2
<1>. DEFINE Good(k) == /\ Collected(acc[k], R)
                       /\ KeepsCollected(acc[0], acc[k])
                       /\ alreadySeen \subseteq acc[k].seen
                       /\ \A j \in 1 .. k : devices[j].udn \in acc[k].seen
            K == {k \in Nat : k \in 0 .. n => Good(k)}
<1>4. Good(0)
  BY <1>3 DEF KeepsCollected
<1>5. ASSUME NEW k \in Nat, k + 1 \in 1 .. n, Good(k) PROVE Good(k + 1)
  <2>1. devices[k + 1] \in ToSet(RootOf[r].devices)
    BY <1>1, <1>2, <1>5 DEF ToSet
  <2>2. acc[k + 1] = Visit(r, v, acc[k], devices[k + 1])
    <3>1. PICK j \in 1 .. n : j = k + 1 /\ j - 1 = k
      BY <1>5
    <3>. QED  BY <1>3, <3>1
  <2>3. /\ Collected(acc[k + 1], R)
        /\ KeepsCollected(acc[k], acc[k + 1])
        /\ acc[k + 1].seen = acc[k].seen \cup {devices[k + 1].udn}
    <3>1. PICK old, device : old = acc[k] /\ device = devices[k + 1]
      OBVIOUS
    <3>2. Collected(Visit(r, v, old, device), R) /\ KeepsCollected(old, Visit(r, v, old, device))
      <4>1. Collected(old, R) /\ device \in ToSet(RootOf[r].devices)
        BY <1>5, <2>1, <3>1
      <4>. HIDE DEF Good
      <4>. QED  BY <4>1, VisitCollects
    <3>3. Visit(r, v, old, device).seen = old.seen \cup {device.udn}
      BY DEF Visit
    <3>. QED  BY <2>2, <3>1, <3>2, <3>3
  <2>4. \A j \in 1 .. k + 1 : j = k + 1 \/ j \in 1 .. k
    OBVIOUS
  <2>5. KeepsCollected(acc[0], acc[k + 1])
    BY <1>3, <1>5, <2>3 DEF KeepsCollected
  <2>. QED  BY <1>5, <2>3, <2>4, <2>5
<1>6. 0 \in K /\ \A k \in Nat : k \in K => k + 1 \in K
  <2>. HIDE DEF Good
  <2>1. \A k \in Nat : k + 1 \in 0 .. n => k \in 0 .. n /\ k + 1 \in 1 .. n
    OBVIOUS
  <2>. QED  BY <1>4, <1>5, <2>1
<1>7. Good(n)
  <2>1. n \in K
    <3>. HIDE DEF K
    <3>. QED  BY <1>6, Induction
  <2>. HIDE DEF Good
  <2>. QED  BY <2>1
<1>. QED  BY <1>1, <1>2, <1>3, <1>7 DEF ToSet

-----------------------------------------------------------------------------
(* The invariant of the collection.                                        *)

Results == {None, "igds", "exception", "io_error", "start_error", TimedOut, Aborted, RxError}

Valid ==
    /\ rsp \in Responses \cup {None}
    /\ result \in Results
    /\ owned \in BOOLEAN /\ stopped \in BOOLEAN /\ dead \in BOOLEAN

UpTo(n) == ToSet(SubSeq(asked, 1, n))

(* Every device in the description of a gateway that was asked is seen,    *)
(* and its UDN was collected out of this description or an earlier one.    *)
AllSeen ==
    \A n \in 1 .. Len(asked) : \A v \in Versions :
        IsGatewayOf(RootOf[asked[n]], v) =>
            \A device \in ToSet(RootOf[asked[n]].devices) :
                device.udn \in alreadySeen /\ IsCollected(device.udn, igds, UpTo(n))

CInv ==
    /\ IInv
    /\ Valid
    /\ Asked \subseteq DOMAIN RootOf
    /\ Collected([seen |-> alreadySeen, igds |-> igds], Asked)
    /\ AllSeen

LEMMA MoreAreAsked ==
    ASSUME NEW R, NEW Q, R \subseteq Q, NEW acc, Collected(acc, R)
    PROVE  Collected(acc, Q)
BY DEF Collected, IsCollected

LEMMA InitCInv == Init => CInv
<1>. SUFFICES ASSUME Init PROVE CInv
  OBVIOUS
<1>1. /\ igds = <<>> /\ alreadySeen = {} /\ asked = <<>> /\ rsp = None /\ result = None
      /\ owned \in BOOLEAN /\ stopped \in BOOLEAN /\ dead \in BOOLEAN
  BY DEF Init, S!Init
<1>2. PICK acc : acc = [seen |-> alreadySeen, igds |-> igds]
  OBVIOUS
<1>3. acc.seen = {} /\ acc.igds = <<>> /\ <<>> \in Seq(Igds) /\ Len(<<>>) = 0
  BY <1>1, <1>2
<1>4. Collected(acc, Asked) /\ Asked = {} /\ AllSeen
  BY <1>1, <1>3 DEF Collected, Asked, AllSeen, ToSet
<1>. QED  BY <1>1, <1>2, <1>4, InitIInv DEF CInv, Valid, Results

LEMMA ValidSteps ==
    ASSUME CInv, [Next]_vars
    PROVE  Valid'
<1>. USE DEF Valid, Results, CInv, streamVars, foundVars
<1>1. CASE StartQuery
  BY <1>1 DEF StartQuery, S!Open
<1>2. CASE GetsResponse
  BY <1>2 DEF GetsResponse, S!Take, IInv, Typed
<1>3. CASE GetsEnd
  BY <1>3 DEF GetsEnd, S!ReadEnd, IInv, Typed, Ends
<1>4. CASE WaitsForResponse
  BY <1>4 DEF WaitsForResponse, S!Block
<1>5. CASE QueryAdvances
  BY <1>5 DEF QueryAdvances
<1>6. CASE QueryFails
  BY <1>6 DEF QueryFails
<1>7. CASE GotRootDevice
  BY <1>7 DEF GotRootDevice
<1>8. CASE Return
  BY <1>8 DEF Return, S!Release
<1>9. CASE QueryPuts
  BY <1>9 DEF QueryPuts, S!Put
<1>10. CASE QueryEnds
  BY <1>10 DEF QueryEnds, S!End
<1>11. CASE UNCHANGED vars
  BY <1>11 DEF vars
<1>. QED
  BY <1>1, <1>2, <1>3, <1>4, <1>5, <1>6, <1>7, <1>8, <1>9, <1>10, <1>11 DEF Next, DiscoverStep

(* A device without a gateway is asked for nothing, and a gateway's devices*)
(* are collected.                                                          *)
LEMMA AskedIsCollected ==
    ASSUME CInv, GotRootDevice
    PROVE  /\ Asked' \subseteq DOMAIN RootOf
           /\ Collected([seen |-> alreadySeen', igds |-> igds'], Asked')
           /\ AllSeen'
<1>1. PICK n \in Nat : n = Len(asked) /\ asked \in Seq(Responses)
  BY DEF CInv, IInv, Typed
<1>2. /\ rsp \in DOMAIN RootOf /\ rsp \in Responses
      /\ asked' = Append(asked, rsp) /\ Asked \subseteq DOMAIN RootOf
  BY DiscoverAssumption DEF GotRootDevice, CInv
<1>3. PICK R \in SUBSET DOMAIN RootOf : R = Asked' /\ rsp \in R /\ Asked \subseteq R
  BY <1>1, <1>2, AskingNext DEF Asked
<1>4. /\ Len(asked') = n + 1 /\ asked'[n + 1] = rsp /\ UpTo(n + 1)' = R
      /\ \A k \in 1 .. n : asked'[k] = asked[k] /\ UpTo(k)' = UpTo(k)
  <2>1. /\ Len(asked') = n + 1 /\ asked'[n + 1] = rsp
        /\ SubSeq(asked', 1, n + 1) = asked'
        /\ \A k \in 1 .. n : asked'[k] = asked[k] /\ SubSeq(asked', 1, k) = SubSeq(asked, 1, k)
    BY <1>1, <1>2, AskingNext
  <2>. QED  BY <1>3, <2>1 DEF UpTo, Asked
<1>5. ASSUME NEW k \in 1 .. n PROVE UpTo(k) \in SUBSET DOMAIN RootOf
  <2>1. DOMAIN SubSeq(asked, 1, k) = 1 .. k /\ \A j \in 1 .. k : SubSeq(asked, 1, k)[j] = asked[j]
    BY <1>1
  <2>2. \A j \in 1 .. k : asked[j] \in Asked
    BY <1>1 DEF Asked, ToSet
  <2>. QED  BY <1>2, <2>1, <2>2 DEF UpTo, ToSet
<1>6. Collected([seen |-> alreadySeen, igds |-> igds], R)
  BY <1>3, MoreAreAsked DEF CInv
<1>7. CASE \E v \in Versions : IsGatewayOf(RootOf[rsp], v)
  <2>1. PICK v \in Versions : /\ IsGatewayOf(RootOf[rsp], v)
                              /\ alreadySeen' = Found(rsp, v).seen
                              /\ igds' = Found(rsp, v).igds
    BY <1>7 DEF GotRootDevice
  <2>2. /\ Collected(Found(rsp, v), R)
        /\ KeepsCollected([seen |-> alreadySeen, igds |-> igds], Found(rsp, v))
        /\ alreadySeen \subseteq alreadySeen'
        /\ \A device \in ToSet(RootOf[rsp].devices) : device.udn \in alreadySeen'
    BY <1>3, <1>6, <2>1, FoundIsCollected
  <2>3. Collected([seen |-> alreadySeen', igds |-> igds'], R)
    BY <2>1, <2>2 DEF Collected
  <2>4. ASSUME NEW k \in 1 .. n + 1, NEW w \in Versions, IsGatewayOf(RootOf[asked'[k]], w),
               NEW device \in ToSet(RootOf[asked'[k]].devices)
        PROVE  device.udn \in alreadySeen' /\ IsCollected(device.udn, igds', UpTo(k)')
    <3>1. CASE k = n + 1
      <4>1. device.udn \in alreadySeen'
        BY <1>4, <2>2, <2>4, <3>1
      <4>. QED  BY <1>4, <2>3, <3>1, <4>1 DEF Collected
    <3>2. CASE k \in 1 .. n
      <4>1. device.udn \in alreadySeen /\ IsCollected(device.udn, igds, UpTo(k))
        BY <1>1, <1>4, <2>4, <3>2 DEF CInv, AllSeen
      <4>2. IsCollected(device.udn, Found(rsp, v).igds, UpTo(k))
        BY <1>5, <2>2, <3>2, <4>1 DEF KeepsCollected
      <4>. QED  BY <1>4, <2>1, <2>2, <3>2, <4>1, <4>2
    <3>. QED  BY <3>1, <3>2
  <2>5. AllSeen'
    BY <1>4, <2>4 DEF AllSeen
  <2>. QED  BY <1>3, <2>3, <2>5
<1>8. CASE ~(\E v \in Versions : IsGatewayOf(RootOf[rsp], v))
  <2>1. UNCHANGED <<alreadySeen, igds>>
    BY <1>8 DEF GotRootDevice
  <2>2. ASSUME NEW k \in 1 .. n + 1, NEW w \in Versions, IsGatewayOf(RootOf[asked'[k]], w),
               NEW device \in ToSet(RootOf[asked'[k]].devices)
        PROVE  device.udn \in alreadySeen' /\ IsCollected(device.udn, igds', UpTo(k)')
    <3>1. k \in 1 .. n
      BY <1>4, <1>8, <2>2
    <3>2. device.udn \in alreadySeen /\ IsCollected(device.udn, igds, UpTo(k))
      BY <1>1, <1>4, <2>2, <3>1 DEF CInv, AllSeen
    <3>. QED  BY <1>4, <2>1, <3>1, <3>2
  <2>3. AllSeen'
    BY <1>4, <2>2 DEF AllSeen
  <2>. QED  BY <1>3, <1>6, <2>1, <2>3
<1>. QED  BY <1>7, <1>8

LEMMA NextCInv == CInv /\ [Next]_vars => CInv'
<1>. SUFFICES ASSUME CInv, [Next]_vars PROVE CInv'
  OBVIOUS
<1>1. IInv' /\ Valid'
  BY NextIInv, ValidSteps DEF CInv
<1>2. CASE GotRootDevice
  BY <1>1, <1>2, AskedIsCollected DEF CInv
<1>3. CASE ~GotRootDevice
  <2>1. UNCHANGED foundVars
    BY <1>3 DEF Next, DiscoverStep, StartQuery, GetsResponse, GetsEnd, WaitsForResponse,
                QueryAdvances, QueryFails, Return, QueryPuts, QueryEnds, vars
  <2>2. UNCHANGED <<alreadySeen, igds, asked>>
    BY <2>1 DEF foundVars
  <2>3. Asked' = Asked /\ \A n : UpTo(n)' = UpTo(n)
    BY <2>2 DEF Asked, UpTo
  <2>4. AllSeen'
    BY <2>2, <2>3 DEF CInv, AllSeen
  <2>. QED  BY <1>1, <2>2, <2>3, <2>4 DEF CInv
<1>. QED  BY <1>2, <1>3

LEMMA GatewaysCollected == Spec => []CInv
<1>. QED  BY InitCInv, NextCInv, PTL DEF Spec

(* Whatever the descriptions hold, the vector has the igds it is declared  *)
(* to have, and discover's result is one of those it can give.             *)
THEOREM DiscoverTypes == Spec => []TypeOK
<1>1. CInv => TypeOK
  <2>. SUFFICES ASSUME CInv PROVE TypeOK
    OBVIOUS
  <2>1. igds \in Seq(Igds) /\ \A udn \in alreadySeen : IsCollected(udn, igds, Asked)
    BY DEF CInv, Collected
  <2>2. ASSUME NEW udn \in alreadySeen PROVE udn \in STRING
    <3>1. PICK q \in Asked : \E device \in ToSet(RootOf[q].devices) : device.udn = udn
      BY <2>1 DEF IsCollected
    <3>. QED  BY <3>1, DescriptionsAssumption DEF CInv
  <2>. QED  BY <2>1, <2>2 DEF TypeOK, CInv, IInv, Typed, Valid, Results
<1>. QED  BY <1>1, GatewaysCollected, PTL

(* "No duplicates" (igd.cpp:348), for any responses in any order and any   *)
(* descriptions: the igds with one UDN are the list of one WAN device in   *)
(* one description, however many responses lead to it.                     *)
THEOREM GatewaysAreListedOnce == Spec => []GatewaysAreFoundOnce
<1>1. CInv => GatewaysAreFoundOnce
  <2>. SUFFICES ASSUME CInv, NEW i \in DOMAIN igds PROVE IsListedOnce(igds[i], igds)
    BY DEF GatewaysAreFoundOnce
  <2>1. igds \in Seq(Igds) /\ i \in 1 .. Len(igds)
    BY DEF CInv, Collected
  <2>2. PICK udn : udn = igds[i].udn
    OBVIOUS
  <2>3. IsCollected(udn, igds, Asked)
    BY <2>1, <2>2 DEF CInv, Collected
  <2>4. PICK q \in Asked, v \in Versions :
           \E device \in ToSet(RootOf[q].devices) : \E from \in 0 .. Len(igds) :
              /\ IsGatewayOf(RootOf[q], v) /\ device.udn = udn
              /\ IsListedAt(from, igds, udn, Listing(q, v, device))
    BY <2>3 DEF IsCollected
  <2>5. PICK device \in ToSet(RootOf[q].devices), from \in 0 .. Len(igds) :
           /\ IsGatewayOf(RootOf[q], v) /\ device.udn = udn
           /\ IsListedAt(from, igds, udn, Listing(q, v, device))
    BY <2>4
  <2>6. PICK found : found = Listing(q, v, device)
    OBVIOUS
  <2>7. /\ found \in Seq(Igds)
        /\ \A k \in 1 .. Len(found) : found[k].response = q
    BY <2>6, ListingsAreTyped DEF CInv
  <2>8. i \in from + 1 .. from + Len(found) /\ Len(found) \in Nat
    BY <2>2, <2>5, <2>6, <2>7 DEF IsListedAt
  <2>9. PICK k \in 1 .. Len(found) : i = from + k
    <3>1. i - from \in 1 .. Len(found) /\ i = from + (i - from)
      BY <2>8
    <3>. QED  BY <3>1
  <2>10. igds[i] = found[k]
    BY <2>5, <2>6, <2>9 DEF IsListedAt
  <2>11. igds[i].response = q
    BY <2>7, <2>10
  <2>12. device.type = <<"WANDevice", v>>
    <3>1. SUFFICES ASSUME device.type # <<"WANDevice", v>> PROVE FALSE
      OBVIOUS
    <3>2. found = <<>>
      BY <2>6, <3>1 DEF Listing
    <3>. QED  BY <2>9, <3>2
  <2>13. IsListedAt(from, igds, igds[i].udn, IgdsOf(igds[i].response, v, device))
    BY <2>2, <2>5, <2>11, <2>12 DEF Listing
  <2>. QED  BY <2>5, <2>11, <2>12, <2>13 DEF IsListedOnce
<1>. QED  BY <1>1, GatewaysCollected, PTL

(* Nobody's gateway is passed over: when a gateway has been asked, each    *)
(* WAN device that it lists, and whose UDN no gateway has used otherwise   *)
(* up to then, has all its igds in the vector, out of this description or  *)
(* of an earlier one that has the same device in it (igd.cpp:347-371).     *)
WanDevicesAreCollected ==
    \A n \in DOMAIN asked : \A v \in Versions : \A device \in ToSet(RootOf[asked[n]].devices) :
        /\ IsGatewayOf(RootOf[asked[n]], v) /\ device.type = <<"WANDevice", v>>
        /\ IsUnambiguous(device.udn, n)
        => \E q \in UpTo(n) : /\ device \in ToSet(RootOf[q].devices)
                              /\ \A igd \in ToSet(IgdsOf(q, v, device)) : igd \in ToSet(igds)

LEMMA EarlierAreAsked ==
    ASSUME asked \in Seq(Responses), NEW n \in DOMAIN asked
    PROVE  UpTo(n) \subseteq Asked /\ asked[n] \in UpTo(n)
<1>1. n \in 1 .. Len(asked) /\ Len(asked) \in Nat
  OBVIOUS
<1>2. /\ DOMAIN SubSeq(asked, 1, n) = 1 .. n
      /\ \A j \in 1 .. n : SubSeq(asked, 1, n)[j] = asked[j] /\ j \in DOMAIN asked
  BY <1>1
<1>. QED  BY <1>1, <1>2 DEF UpTo, Asked, ToSet

LEMMA CollectedWanDevices == CInv => WanDevicesAreCollected
<1>. SUFFICES ASSUME CInv, NEW n \in DOMAIN asked, NEW v \in Versions,
                     NEW device \in ToSet(RootOf[asked[n]].devices),
                     IsGatewayOf(RootOf[asked[n]], v), device.type = <<"WANDevice", v>>,
                     IsUnambiguous(device.udn, n)
              PROVE  \E q \in UpTo(n) :
                        /\ device \in ToSet(RootOf[q].devices)
                        /\ \A igd \in ToSet(IgdsOf(q, v, device)) : igd \in ToSet(igds)
  BY DEF WanDevicesAreCollected
<1>1. n \in 1 .. Len(asked) /\ asked \in Seq(Responses) /\ Len(asked) \in Nat
  BY DEF CInv, IInv, Typed
<1>2. IsCollected(device.udn, igds, UpTo(n)) /\ igds \in Seq(Igds)
  BY <1>1 DEF CInv, AllSeen, Collected
<1>3. PICK q \in UpTo(n), w \in Versions :
         \E d \in ToSet(RootOf[q].devices) : \E from \in 0 .. Len(igds) :
            /\ IsGatewayOf(RootOf[q], w) /\ d.udn = device.udn
            /\ IsListedAt(from, igds, device.udn, Listing(q, w, d))
  BY <1>2 DEF IsCollected
<1>4. PICK d \in ToSet(RootOf[q].devices), from \in 0 .. Len(igds) :
         /\ IsGatewayOf(RootOf[q], w) /\ d.udn = device.udn
         /\ IsListedAt(from, igds, device.udn, Listing(q, w, d))
  BY <1>3
<1>5. UpTo(n) \subseteq Asked /\ asked[n] \in UpTo(n)
  BY <1>1, EarlierAreAsked
<1>6. q \in GatewaysUpTo(n) /\ asked[n] \in GatewaysUpTo(n)
  BY <1>4, <1>5 DEF GatewaysUpTo, UpTo
<1>7. d = device /\ RootOf[q].type = RootOf[asked[n]].type
  BY <1>4, <1>6 DEF IsUnambiguous
<1>8. w = v
  BY <1>4, <1>7 DEF IsGatewayOf
<1>9. PICK found : found = IgdsOf(q, v, device)
  OBVIOUS
<1>10. found \in Seq(Igds)
  BY <1>5, <1>7, <1>9, IgdsOfDevice DEF CInv
<1>11. IsListedAt(from, igds, device.udn, found)
  BY <1>4, <1>7, <1>8, <1>9 DEF Listing
<1>12. \A k \in 1 .. Len(found) : from + k \in 1 .. Len(igds) /\ igds[from + k] = found[k]
  <2>1. SUFFICES ASSUME NEW k \in 1 .. Len(found)
                 PROVE  from + k \in 1 .. Len(igds) /\ igds[from + k] = found[k]
    OBVIOUS
  <2>2. from + k \in from + 1 .. from + Len(found)
    BY <1>10
  <2>. QED  BY <1>2, <1>11, <2>2 DEF IsListedAt
<1>13. \A igd \in ToSet(found) : igd \in ToSet(igds)
  <2>1. SUFFICES ASSUME NEW igd \in ToSet(found) PROVE igd \in ToSet(igds)
    OBVIOUS
  <2>2. PICK k \in 1 .. Len(found) : igd = found[k]
    BY <1>10 DEF ToSet
  <2>3. PICK j \in 1 .. Len(igds) : igds[j] = igd
    BY <1>12, <2>2
  <2>. QED  BY <1>2, <2>3 DEF ToSet
<1>. QED  BY <1>7, <1>9, <1>13

(* What collects the igds loses no device, in any order of the answers.    *)
THEOREM GatewaysAreNotLost == Spec => []WanDevicesAreCollected
<1>. QED  BY CollectedWanDevices, GatewaysCollected, PTL
-----------------------------------------------------------------------------
(* Devices that are read from documents.                                   *)

(* What is in one of the sequences is in their concatenation.              *)
LEMMA FlattenHas ==
    ASSUME NEW T, NEW ss \in Seq(Seq(T)), NEW i \in 1 .. Len(ss), NEW x \in ToSet(ss[i])
    PROVE  x \in ToSet(FlattenSeq(ss))
<1>. DEFINE Holds(m, y) == i <= m => x \in ToSet(y)
            I == {p \in Nat \X Seq(T) : Holds(p[1], p[2])}
<1>1. <<0, <<>>>> \in I
  <2>1. PICK nil \in Seq(T) : nil = <<>>
    BY EmptySeq
  <2>2. Holds(0, nil)
    OBVIOUS
  <2>. HIDE DEF Holds
  <2>3. <<0, nil>> \in I
    BY <2>2
  <2>. QED  BY <2>1, <2>3, Zenon
<1>2. ASSUME NEW k \in 1 .. Len(ss), NEW y \in Seq(T), <<k - 1, y>> \in I
      PROVE  <<k, y \o ss[k]>> \in I
  <2>1. PICK z : z = ss[k] /\ z \in Seq(T)
    OBVIOUS
  <2>2. PICK w : w = y \o z /\ w \in Seq(T) /\ ToSet(w) = ToSet(y) \cup ToSet(z)
    <3>1. y \o z \in Seq(T) /\ Range(y \o z) = Range(y) \cup Range(z)
      BY <2>1, ConcatProperties, RangeConcatenation
    <3>2. \A v : ToSet(v) = Range(v)
      BY DEF ToSet, Range
    <3>. QED  BY <3>1, <3>2
  <2>3. Holds(k - 1, y) /\ k \in Nat
    <3>. HIDE DEF Holds
    <3>. QED  BY <1>2
  <2>4. Holds(k, w)
    <3>1. i <= k => i <= k - 1 \/ i = k
      BY <2>3
    <3>. QED  BY <2>1, <2>2, <2>3, <3>1
  <2>. HIDE DEF Holds
  <2>. QED  BY <2>1, <2>2, <2>3, <2>4
<1>3. FlattenSeq(ss) \in Seq(T) /\ <<Len(ss), FlattenSeq(ss)>> \in I
  <2>. HIDE DEF I
  <2>. QED  BY <1>1, <1>2, FlattenInvariant
<1>. QED  BY <1>3

(* The optional values of a list: those that are there are kept.           *)
LEMMA OptionsAreKept ==
    ASSUME NEW n \in Nat, NEW ss, DOMAIN ss = 1 .. n, ss = [i \in 1 .. n |-> ss[i]],
           \A i \in 1 .. n : ss[i] = <<>> \/ \E y : ss[i] = <<y>>,
           NEW k \in 1 .. n, NEW x, ss[k] = <<x>>
    PROVE  x \in ToSet(FlattenSeq(ss))
<1>1. PICK T : T = UNION {ToSet(ss[i]) : i \in 1 .. n}
  OBVIOUS
<1>2. ASSUME NEW i \in 1 .. n PROVE ss[i] \in Seq(T)
  <2>1. CASE ss[i] = <<>>
    BY <2>1
  <2>2. ASSUME NEW y, ss[i] = <<y>> PROVE ss[i] \in Seq(T)
    <3>1. y \in ToSet(ss[i])
      BY <2>2 DEF ToSet
    <3>2. y \in T
      BY <1>1, <3>1
    <3>. QED  BY <2>2, <3>2
  <2>. QED  BY <2>1, <2>2
<1>3. ss \in Seq(Seq(T)) /\ Len(ss) = n
  <2>1. PICK U : U = Seq(T)
    OBVIOUS
  <2>2. ss \in [1 .. n -> U]
    BY <1>2, <2>1
  <2>. QED  BY <2>1, <2>2
<1>4. x \in ToSet(ss[k])
  BY DEF ToSet
<1>. QED  BY <1>3, <1>4, FlattenHas

Low(n) == {tree \in Trees : Height[tree] < n}

IsParse(f, n) == f = [tree \in Low(n) |-> DeviceFrom(tree, f)]

(* Of what is below a device, only the elements of its deviceList matter.  *)
LEMMA SameDevice ==
    ASSUME NEW tree \in Trees, NEW f, NEW g,
           \A child \in ToSet(ChildrenOf(tree, "deviceList")) : f[child.tree] = g[child.tree]
    PROVE  DeviceFrom(tree, f) = DeviceFrom(tree, g)
<1>1. PICK devices : devices = ChildrenOf(tree, "deviceList")
  OBVIOUS
<1>2. devices \in Seq(ToSet(devices))
  BY <1>1, TreesAssumption
<1>3. \A i \in DOMAIN devices : devices[i] \in ToSet(devices)
  BY <1>2
<1>4. [i \in DOMAIN devices |-> f[devices[i].tree]] = [i \in DOMAIN devices |-> g[devices[i].tree]]
  BY <1>1, <1>3
<1>. QED  BY <1>1, <1>4, Zenon DEF DeviceFrom

LEMMA ChildIsLower ==
    ASSUME NEW n, NEW tree \in Low(n + 1), n \in Nat,
           NEW child \in ToSet(ChildrenOf(tree, "deviceList"))
    PROVE  child.tree \in Low(n)
<1>1. tree \in Trees /\ Height[tree] < n + 1
  BY DEF Low
<1>2. child.tree \in Trees /\ Height[child.tree] < Height[tree]
  BY <1>1, TreesAssumption
<1>3. Height[tree] \in Nat /\ Height[child.tree] \in Nat
  BY <1>1, <1>2, TreesAssumption
<1>. QED  BY <1>1, <1>2, <1>3 DEF Low

LEMMA LowIsIn ==
    ASSUME NEW n \in Nat, NEW tree \in Low(n)
    PROVE  tree \in Trees /\ tree \in Low(n + 1)
<1>1. tree \in Trees /\ Height[tree] < n /\ Height[tree] \in Nat
  BY TreesAssumption DEF Low
<1>2. Height[tree] < n + 1
  BY <1>1
<1>. QED  BY <1>1, <1>2 DEF Low

(* Devices of any height are parsed.                                       *)
LEMMA ParsesExist == \A n \in Nat : \E f : IsParse(f, n)
<1>. DEFINE K == {n \in Nat : \E f : IsParse(f, n)}
<1>1. 0 \in K
  <2>1. Low(0) = {}
    BY TreesAssumption DEF Low
  <2>2. IsParse([tree \in {} |-> tree], 0)
    BY <2>1 DEF IsParse
  <2>. QED  BY <2>2
<1>2. ASSUME NEW n \in Nat, n \in K PROVE n + 1 \in K
  <2>1. PICK f : IsParse(f, n)
    BY <1>2
  <2>2. PICK g : g = [tree \in Low(n + 1) |-> DeviceFrom(tree, f)]
    OBVIOUS
  <2>3. ASSUME NEW tree \in Low(n) PROVE g[tree] = f[tree]
    BY <2>1, <2>2, LowIsIn, Zenon DEF IsParse
  <2>4. ASSUME NEW tree \in Low(n + 1) PROVE DeviceFrom(tree, f) = DeviceFrom(tree, g)
    <3>1. tree \in Trees
      BY DEF Low
    <3>2. \A child \in ToSet(ChildrenOf(tree, "deviceList")) : f[child.tree] = g[child.tree]
      BY <2>3, ChildIsLower
    <3>. QED  BY <3>1, <3>2, SameDevice
  <2>5. g = [tree \in Low(n + 1) |-> DeviceFrom(tree, g)]
    BY <2>2, <2>4, Zenon
  <2>6. IsParse(g, n + 1)
    BY <2>5 DEF IsParse
  <2>. QED  BY <2>6
<1>. HIDE DEF K
<1>3. \A n \in Nat : n \in K
  BY <1>1, <1>2, Induction
<1>. QED  BY <1>3 DEF K

LEMMA ParsesAgree ==
    ASSUME NEW m \in Nat, NEW f, IsParse(f, m), NEW n \in Nat, NEW g, IsParse(g, n)
    PROVE  \A tree \in Low(m) \cap Low(n) : f[tree] = g[tree]
<1>. DEFINE K == {k \in Nat : \A tree \in Low(m) \cap Low(n) : Height[tree] < k => f[tree] = g[tree]}
<1>1. 0 \in K
  BY TreesAssumption DEF Low
<1>2. ASSUME NEW k \in Nat, k \in K PROVE k + 1 \in K
  <2>1. SUFFICES ASSUME NEW tree \in Low(m) \cap Low(n), Height[tree] < k + 1
                 PROVE  f[tree] = g[tree]
    OBVIOUS
  <2>2. tree \in Trees /\ Height[tree] \in Nat /\ Height[tree] < m /\ Height[tree] < n
    BY TreesAssumption DEF Low
  <2>3. ASSUME NEW child \in ToSet(ChildrenOf(tree, "deviceList"))
        PROVE  f[child.tree] = g[child.tree]
    <3>1. child.tree \in Trees /\ Height[child.tree] < Height[tree] /\ Height[child.tree] \in Nat
      BY <2>2, TreesAssumption
    <3>2. Height[child.tree] < k /\ Height[child.tree] < m /\ Height[child.tree] < n
      BY <2>1, <2>2, <3>1
    <3>3. child.tree \in Low(m) \cap Low(n)
      BY <3>1, <3>2 DEF Low
    <3>. QED  BY <1>2, <3>2, <3>3
  <2>4. DeviceFrom(tree, f) = DeviceFrom(tree, g)
    BY <2>2, <2>3, SameDevice
  <2>5. f[tree] = DeviceFrom(tree, f) /\ g[tree] = DeviceFrom(tree, g)
    BY Zenon DEF IsParse
  <2>. QED  BY <2>4, <2>5
<1>3. \A k \in Nat : k \in K
  <2>. HIDE DEF K
  <2>. QED  BY <1>1, <1>2, Induction
<1>4. SUFFICES ASSUME NEW tree \in Low(m) \cap Low(n) PROVE f[tree] = g[tree]
  OBVIOUS
<1>5. Height[tree] \in Nat /\ Height[tree] < Height[tree] + 1 /\ Height[tree] + 1 \in Nat
  BY TreesAssumption DEF Low
<1>. QED  BY <1>3, <1>5

(* device_parse is what it says it is, for documents of any depth.         *)
LEMMA DeviceParses ==
    \A tree \in Trees : DeviceParse[tree] = DeviceFrom(tree, DeviceParse)
<1>. DEFINE P(n) == CHOOSE f : IsParse(f, n)
            F == [tree \in Trees |-> P(Height[tree] + 1)[tree]]
<1>1. \A n \in Nat : IsParse(P(n), n)
  BY ParsesExist
<1>. HIDE DEF P
<1>2. ASSUME NEW tree \in Trees PROVE F[tree] = DeviceFrom(tree, F)
  <2>1. PICK n \in Nat : n = Height[tree] + 1 /\ tree \in Low(n)
    <3>1. Height[tree] \in Nat
      BY TreesAssumption
    <3>2. Height[tree] + 1 \in Nat /\ Height[tree] < Height[tree] + 1
      BY <3>1
    <3>. QED  BY <3>2 DEF Low
  <2>2. F[tree] = DeviceFrom(tree, P(n))
    <3>1. IsParse(P(n), n)
      BY <1>1
    <3>2. P(n)[tree] = DeviceFrom(tree, P(n))
      BY <2>1, <3>1, Zenon DEF IsParse
    <3>. QED  BY <2>1, <3>2
  <2>3. ASSUME NEW child \in ToSet(ChildrenOf(tree, "deviceList"))
        PROVE  P(n)[child.tree] = F[child.tree]
    <3>1. PICK below : below = child.tree /\ below \in Trees /\ Height[below] < Height[tree]
      BY TreesAssumption
    <3>2. Height[below] \in Nat /\ Height[tree] \in Nat
      BY <3>1, TreesAssumption
    <3>3. PICK k \in Nat : k = Height[below] + 1
      BY <3>2
    <3>4. below \in Low(k) \cap Low(n)
      BY <2>1, <3>1, <3>2, <3>3 DEF Low
    <3>5. P(n)[below] = P(k)[below]
      BY <1>1, <3>4, ParsesAgree
    <3>6. F[below] = P(k)[below]
      BY <3>1, <3>3
    <3>. QED  BY <3>1, <3>5, <3>6
  <2>. HIDE DEF F
  <2>4. DeviceFrom(tree, P(n)) = DeviceFrom(tree, F)
    BY <2>3, SameDevice
  <2>. QED  BY <2>2, <2>4
<1>3. F = [tree \in Trees |-> DeviceFrom(tree, F)]
  <2>1. F = [tree \in Trees |-> F[tree]]
    OBVIOUS
  <2>. HIDE DEF F
  <2>. QED  BY <1>2, <2>1, Zenon
<1>. HIDE DEF F
<1>4. DeviceParse = [tree \in Trees |-> DeviceFrom(tree, DeviceParse)]
  BY <1>3, Zenon DEF DeviceParse
<1>. QED  BY <1>4, Zenon

(* What becomes of a device element: its own texts, and what it lists.     *)
Parsed(tree) == DeviceParse[tree][1]

LEMMA DeviceIsParsed ==
    ASSUME NEW tree \in Trees
    PROVE  /\ IsDevice(tree) <=> DeviceParse[tree] # Nothing
           /\ IsDevice(tree) =>
                 /\ DeviceParse[tree] = <<Parsed(tree)>>
                 /\ Parsed(tree).type = TextIn(tree, "deviceType")[1]
                 /\ Parsed(tree).udn = TextIn(tree, "UDN")[1]
                 /\ \A k \in Kids(tree, "deviceList") :
                       k \in Trees /\ (IsDevice(k) => Parsed(k) \in ToSet(Parsed(tree).devices))
                 /\ \A s \in Kids(tree, "serviceList") :
                       IsService(s) => ServiceParse(s)[1] \in ToSet(Parsed(tree).services)
<1>1. PICK type, udn, name, services, devices :
         /\ type = TextIn(tree, "deviceType") /\ udn = TextIn(tree, "UDN")
         /\ name = TextIn(tree, "friendlyName")
         /\ services = ChildrenOf(tree, "serviceList") /\ devices = ChildrenOf(tree, "deviceList")
  OBVIOUS
<1>2. PICK one, all, parsed :
         /\ one = [i \in DOMAIN services |-> ServiceParse(services[i].tree)]
         /\ all = [i \in DOMAIN devices |-> DeviceParse[devices[i].tree]]
         /\ parsed = [type |-> type[1], udn |-> udn[1], services |-> FlattenSeq(one),
                      devices |-> FlattenSeq(all)]
  OBVIOUS
<1>3. DeviceParse[tree] = IF type = Nothing \/ udn = Nothing \/ name = Nothing THEN Nothing
                          ELSE <<parsed>>
  BY <1>1, <1>2, DeviceParses, Zenon DEF DeviceFrom
<1>4. IsDevice(tree) <=> type # Nothing /\ udn # Nothing /\ name # Nothing
  BY <1>1 DEF IsDevice, Has
<1>5. <<parsed>> # Nothing /\ <<parsed>>[1] = parsed
  BY DEF Nothing
<1>6. SUFFICES ASSUME IsDevice(tree)
               PROVE  /\ \A k \in Kids(tree, "deviceList") :
                            k \in Trees /\ (IsDevice(k) => Parsed(k) \in ToSet(FlattenSeq(all)))
                      /\ \A s \in Kids(tree, "serviceList") :
                            IsService(s) => ServiceParse(s)[1] \in ToSet(FlattenSeq(one))
  <2>1. IsDevice(tree) => DeviceParse[tree] = <<parsed>> /\ Parsed(tree) = parsed
    BY <1>3, <1>4, <1>5 DEF Parsed
  <2>2. /\ parsed.type = type[1] /\ parsed.udn = udn[1]
        /\ parsed.services = FlattenSeq(one) /\ parsed.devices = FlattenSeq(all)
    BY <1>2
  <2>. QED  BY <1>1, <1>3, <1>4, <1>5, <2>1, <2>2
<1>7. /\ devices \in Seq(ToSet(devices)) /\ services \in Seq(ToSet(services))
      /\ \A child \in ToSet(devices) : child.tree \in Trees
  BY <1>1, TreesAssumption
<1>8. ASSUME NEW k \in Kids(tree, "deviceList")
      PROVE  k \in Trees /\ (IsDevice(k) => Parsed(k) \in ToSet(FlattenSeq(all)))
  <2>0. PICK n \in Nat : n = Len(devices)
    BY <1>7
  <2>1. PICK i \in 1 .. n : n = Len(devices) /\ k = devices[i].tree
    <3>1. PICK child \in ToSet(devices) : k = child.tree
      BY <1>1 DEF Kids
    <3>2. PICK i \in DOMAIN devices : child = devices[i]
      BY DEF ToSet
    <3>3. DOMAIN devices = 1 .. n
      BY <1>7, <2>0
    <3>. QED  BY <2>0, <3>1, <3>2, <3>3
  <2>2. k \in Trees
    BY <1>7, <2>1 DEF ToSet
  <2>3. ASSUME IsDevice(k) PROVE Parsed(k) \in ToSet(FlattenSeq(all))
    <3>1. DOMAIN all = 1 .. n /\ \A j \in 1 .. n : all[j] = DeviceParse[devices[j].tree]
      BY <1>2, <1>7, <2>1
    <3>2. all = [j \in 1 .. n |-> all[j]]
      BY <1>2, <1>7, <2>1
    <3>3. ASSUME NEW j \in 1 .. n PROVE all[j] = <<>> \/ \E y : all[j] = <<y>>
      <4>1. devices[j].tree \in Trees
        BY <1>7, <2>1
      <4>2. DeviceParse[devices[j].tree] = <<>> \/ \E y : DeviceParse[devices[j].tree] = <<y>>
        BY <4>1, DeviceParses, Zenon DEF DeviceFrom, Nothing
      <4>. QED  BY <3>1, <4>2
    <3>4. all[i] = <<Parsed(k)>>
      <4>1. /\ TextIn(k, "deviceType") # Nothing /\ TextIn(k, "UDN") # Nothing
            /\ TextIn(k, "friendlyName") # Nothing
        BY <2>3 DEF IsDevice, Has
      <4>2. \E y : DeviceParse[k] = <<y>>
        BY <2>2, <4>1, DeviceParses, Zenon DEF DeviceFrom
      <4>3. DeviceParse[k] = <<Parsed(k)>>
        BY <4>2 DEF Parsed
      <4>. QED  BY <2>1, <3>1, <4>3
    <3>. QED  BY <3>1, <3>2, <3>3, <3>4, OptionsAreKept
  <2>. QED  BY <2>2, <2>3
<1>9. ASSUME NEW s \in Kids(tree, "serviceList"), IsService(s)
      PROVE  ServiceParse(s)[1] \in ToSet(FlattenSeq(one))
  <2>0. PICK n \in Nat : n = Len(services)
    BY <1>7
  <2>1. PICK i \in 1 .. n : n = Len(services) /\ s = services[i].tree
    <3>1. PICK child \in ToSet(services) : s = child.tree
      BY <1>1 DEF Kids
    <3>2. PICK i \in DOMAIN services : child = services[i]
      BY DEF ToSet
    <3>3. DOMAIN services = 1 .. n
      BY <1>7, <2>0
    <3>. QED  BY <2>0, <3>1, <3>2, <3>3
  <2>2. DOMAIN one = 1 .. n /\ \A j \in 1 .. n : one[j] = ServiceParse(services[j].tree)
    BY <1>2, <1>7, <2>1
  <2>3. one = [j \in 1 .. n |-> one[j]]
    BY <1>2, <1>7, <2>1
  <2>4. \A j \in 1 .. n : one[j] = <<>> \/ \E y : one[j] = <<y>>
    <3>1. \A t : ServiceParse(t) = <<>> \/ \E y : ServiceParse(t) = <<y>>
      BY Zenon DEF ServiceParse, Nothing
    <3>. QED  BY <2>2, <3>1
  <2>5. ServiceParse(s) # <<>>
    BY <1>9 DEF ServiceParse, IsService, Has, Nothing
  <2>6. PICK y : one[i] = <<y>> /\ ServiceParse(s) = <<y>>
    BY <2>1, <2>2, <2>4, <2>5
  <2>7. y \in ToSet(FlattenSeq(one))
    BY <2>2, <2>3, <2>4, <2>6, OptionsAreKept
  <2>. QED  BY <2>6, <2>7
<1>. QED  BY <1>8, <1>9

(* The services of connections in a WAN device become igds of it.          *)
LEMMA ConnectionIsListed ==
    ASSUME NEW r \in DOMAIN RootOf, NEW v \in Versions, NEW device \in ToSet(RootOf[r].devices),
           NEW connection \in ToSet(device.devices),
           connection.type = <<"WANConnectionDevice", v>>,
           NEW service \in ToSet(connection.services), IsConnection(service, v)
    PROVE  [response |-> r, udn |-> device.udn, service |-> service]
             \in ToSet(IgdsOf(r, v, device))
<1>1. PICK igd, udn : udn = device.udn /\ igd = [response |-> r, udn |-> udn, service |-> service]
  OBVIOUS
<1>2. PICK T : T = {[response |-> r, udn |-> udn, service |-> s] : s \in Services}
  OBVIOUS
<1>3. /\ IsVector(device.devices)
      /\ \A c \in ToSet(device.devices) : c.services \in Seq(Services)
  BY DescriptionsAssumption
<1>4. \A s \in Services : OfService(r, v, udn, s) \in Seq(T)
  <2>1. SUFFICES ASSUME NEW s \in Services PROVE OfService(r, v, udn, s) \in Seq(T)
    OBVIOUS
  <2>2. PICK x \in T : x = [response |-> r, udn |-> udn, service |-> s]
    BY <1>2
  <2>3. <<x>> \in Seq(T) /\ <<>> \in Seq(T)
    OBVIOUS
  <2>. QED  BY <2>2, <2>3 DEF OfService
<1>5. ASSUME NEW c \in ToSet(device.devices)
      PROVE  [i \in DOMAIN c.services |-> OfService(r, v, udn, c.services[i])] \in Seq(Seq(T))
  <2>1. PICK services : services = c.services /\ services \in Seq(Services)
    BY <1>3
  <2>2. PICK U : U = Seq(T)
    OBVIOUS
  <2>3. \A i \in DOMAIN services : OfService(r, v, udn, services[i]) \in U
    BY <1>4, <2>1, <2>2
  <2>4. [i \in DOMAIN services |-> OfService(r, v, udn, services[i])] \in Seq(U)
    BY <2>1, <2>3
  <2>. QED  BY <2>1, <2>2, <2>4
<1>6. \A c \in ToSet(device.devices) : OfConnection(r, v, udn, c) \in Seq(T)
  <2>1. SUFFICES ASSUME NEW c \in ToSet(device.devices) PROVE OfConnection(r, v, udn, c) \in Seq(T)
    OBVIOUS
  <2>2. FlattenSeq([i \in DOMAIN c.services |-> OfService(r, v, udn, c.services[i])]) \in Seq(T)
    BY <1>5, FlattenElements
  <2>3. <<>> \in Seq(T)
    OBVIOUS
  <2>. QED  BY <2>2, <2>3 DEF OfConnection
<1>7. igd \in ToSet(OfConnection(r, v, udn, connection))
  <2>1. PICK services : services = connection.services /\ services \in Seq(Services)
    BY <1>3
  <2>2. PICK i \in 1 .. Len(services) : services[i] = service
    BY <2>1 DEF ToSet
  <2>3. PICK ss : ss = [k \in DOMAIN services |-> OfService(r, v, udn, services[k])]
    OBVIOUS
  <2>4. ss \in Seq(Seq(T)) /\ Len(ss) = Len(services)
    <3>1. ss \in Seq(Seq(T))
      BY <1>5, <2>1, <2>3
    <3>2. DOMAIN ss = 1 .. Len(services) /\ Len(services) \in Nat
      BY <2>1, <2>3
    <3>. QED  BY <3>1, <3>2
  <2>5. ss[i] = <<igd>>
    BY <1>1, <2>1, <2>2, <2>3 DEF OfService
  <2>6. igd \in ToSet(ss[i])
    BY <2>5 DEF ToSet
  <2>7. igd \in ToSet(FlattenSeq(ss))
    BY <2>2, <2>4, <2>6, FlattenHas
  <2>. QED  BY <2>1, <2>3, <2>7 DEF OfConnection
<1>8. igd \in ToSet(IgdsOf(r, v, device))
  <2>1. PICK connections : connections = device.devices /\ connections \in Seq(ToSet(connections))
    BY <1>3 DEF IsVector
  <2>2. PICK i \in 1 .. Len(connections) : connections[i] = connection
    BY <2>1 DEF ToSet
  <2>3. PICK ss : ss = [k \in DOMAIN connections |-> OfConnection(r, v, udn, connections[k])]
    OBVIOUS
  <2>4. ss \in Seq(Seq(T)) /\ Len(ss) = Len(connections)
    <3>1. PICK U : U = Seq(T)
      OBVIOUS
    <3>2. \A k \in DOMAIN connections : OfConnection(r, v, udn, connections[k]) \in U
      BY <1>6, <2>1, <3>1
    <3>3. ss \in Seq(U) /\ Len(ss) = Len(connections)
      BY <2>1, <2>3, <3>2
    <3>. QED  BY <3>1, <3>3
  <2>5. igd \in ToSet(ss[i])
    BY <1>7, <2>1, <2>2, <2>3
  <2>6. igd \in ToSet(FlattenSeq(ss))
    BY <2>2, <2>4, <2>5, FlattenHas
  <2>. QED  BY <1>1, <2>1, <2>3, <2>6 DEF IgdsOf
<1>. QED  BY <1>1, <1>8

(* What a description offers is what is read of it.                        *)
LEMMA OfferedIsListed ==
    ASSUME NEW r \in DOMAIN RootOf, NEW v \in Versions, NEW o \in Offered(r, v)
    PROVE  /\ IsGatewayOf(RootOf[r], v)
           /\ \E device \in ToSet(RootOf[r].devices) :
                 /\ device.udn = TextIn(o[1], "UDN")[1]
                 /\ device.type = <<"WANDevice", v>>
                 /\ \E connection \in ToSet(device.devices) :
                       /\ connection.type = <<"WANConnectionDevice", v>>
                       /\ \E service \in ToSet(connection.services) :
                             IsConnection(service, v) /\ <<service>> = ServiceParse(o[2])
<1>1. PICK root : root = GetChild(TreeOf[r], <<Name("root"), Name("device")>>)[1]
  OBVIOUS
<1>2. root \in Trees /\ IsDevice(root) /\ RootOf[r] = Parsed(root)
  <2>1. /\ r \in DOMAIN TreeOf /\ DeviceParseRoot(TreeOf[r]) # Nothing
        /\ RootOf[r] = DeviceParseRoot(TreeOf[r])[1]
    BY DocumentsAssumption
  <2>2. /\ GetChild(TreeOf[r], <<Name("root"), Name("device")>>) # Nothing
        /\ DeviceParseRoot(TreeOf[r]) = DeviceParse[root]
    BY <1>1, <2>1, Zenon DEF DeviceParseRoot
  <2>3. root \in Trees
    BY <1>1, <2>1, <2>2, DocumentsAssumption
  <2>. QED  BY <2>1, <2>2, <2>3, DeviceIsParsed DEF Parsed
<1>3. PICK wan, conn, wanType, connType, types :
         /\ wanType = <<"WANDevice", v>> /\ connType = <<"WANConnectionDevice", v>>
         /\ types = {<<"WANIPConnection", v>>, <<"WANPPPConnection", v>>}
         /\ TextIn(root, "deviceType")[1] = <<"InternetGatewayDevice", v>>
         /\ wan \in Kids(root, "deviceList") /\ IsDevice(wan)
         /\ TextIn(wan, "deviceType")[1] = wanType
         /\ conn \in Kids(wan, "deviceList") /\ IsDevice(conn)
         /\ TextIn(conn, "deviceType")[1] = connType
         /\ o[1] = wan /\ o[2] \in Kids(conn, "serviceList")
         /\ IsService(o[2]) /\ TextIn(o[2], "serviceType")[1] \in types
  <2>1. TextIn(root, "deviceType")[1] = <<"InternetGatewayDevice", v>>
    BY <1>1, Zenon DEF Offered
  <2>2. PICK wan \in Kids(root, "deviceList") :
           /\ IsDevice(wan) /\ TextIn(wan, "deviceType")[1] = <<"WANDevice", v>>
           /\ \E conn \in Kids(wan, "deviceList") :
                 /\ IsDevice(conn) /\ TextIn(conn, "deviceType")[1] = <<"WANConnectionDevice", v>>
                 /\ \E s \in Kids(conn, "serviceList") :
                       /\ IsService(s) /\ o = <<wan, s>>
                       /\ TextIn(s, "serviceType")[1] \in
                             {<<"WANIPConnection", v>>, <<"WANPPPConnection", v>>}
    <3>. DEFINE Wans  == {k \in Kids(root, "deviceList") :
                            IsDevice(k) /\ TextIn(k, "deviceType")[1] = <<"WANDevice", v>>}
                Conns(d) == {k \in Kids(d, "deviceList") :
                               IsDevice(k) /\ TextIn(k, "deviceType")[1] = <<"WANConnectionDevice", v>>}
                Servs(c) == {t \in Kids(c, "serviceList") :
                               /\ IsService(t)
                               /\ TextIn(t, "serviceType")[1] \in
                                     {<<"WANIPConnection", v>>, <<"WANPPPConnection", v>>}}
                Pairs(d, c) == {<<d, s>> : s \in Servs(c)}
                All(d) == UNION {Pairs(d, c) : c \in Conns(d)}
    <3>1. o \in UNION {All(d) : d \in Wans}
      BY <1>1, <2>1, Zenon DEF Offered
    <3>. HIDE DEF Wans, Conns, Servs, Pairs, All
    <3>2. PICK d \in Wans : o \in All(d)
      BY <3>1
    <3>3. PICK c \in Conns(d) : o \in Pairs(d, c)
      BY <3>2 DEF All
    <3>4. PICK s \in Servs(c) : o = <<d, s>>
      BY <3>3 DEF Pairs
    <3>. QED  BY <3>2, <3>3, <3>4, Zenon DEF Wans, Conns, Servs
  <2>3. PICK conn \in Kids(wan, "deviceList") :
           /\ IsDevice(conn) /\ TextIn(conn, "deviceType")[1] = <<"WANConnectionDevice", v>>
           /\ \E s \in Kids(conn, "serviceList") :
                 /\ IsService(s) /\ o = <<wan, s>>
                 /\ TextIn(s, "serviceType")[1] \in
                       {<<"WANIPConnection", v>>, <<"WANPPPConnection", v>>}
    BY <2>2
  <2>4. PICK s \in Kids(conn, "serviceList") :
           /\ IsService(s) /\ o = <<wan, s>>
           /\ TextIn(s, "serviceType")[1] \in {<<"WANIPConnection", v>>, <<"WANPPPConnection", v>>}
    BY <2>3
  <2>. QED  BY <2>1, <2>2, <2>3, <2>4
<1>4. /\ wan \in Trees /\ Parsed(wan) \in ToSet(RootOf[r].devices)
      /\ RootOf[r].type = <<"InternetGatewayDevice", v>>
  BY <1>2, <1>3, DeviceIsParsed
<1>5. /\ conn \in Trees /\ Parsed(conn) \in ToSet(Parsed(wan).devices)
      /\ Parsed(wan).type = wanType /\ Parsed(wan).udn = TextIn(wan, "UDN")[1]
  BY <1>3, <1>4, DeviceIsParsed
<1>6. /\ Parsed(conn).type = connType
      /\ ServiceParse(o[2])[1] \in ToSet(Parsed(conn).services)
  BY <1>3, <1>5, DeviceIsParsed
<1>7. PICK service : ServiceParse(o[2]) = <<service>> /\ service.type \in types
  <2>1. /\ TextIn(o[2], "serviceId") # Nothing /\ TextIn(o[2], "serviceType") # Nothing
        /\ TextIn(o[2], "controlURL") # Nothing
    BY <1>3 DEF IsService, Has
  <2>2. PICK service : /\ service = [id |-> TextIn(o[2], "serviceId")[1],
                                     type |-> TextIn(o[2], "serviceType")[1]]
                       /\ ServiceParse(o[2]) = <<service>>
    BY <2>1, Zenon DEF ServiceParse
  <2>3. service.type = TextIn(o[2], "serviceType")[1]
    BY <2>2
  <2>. QED  BY <1>3, <2>2, <2>3
<1>8. /\ service \in ToSet(Parsed(conn).services) /\ IsConnection(service, v)
      /\ <<service>> = ServiceParse(o[2])
  BY <1>3, <1>6, <1>7 DEF IsConnection
<1>. QED  BY <1>3, <1>4, <1>5, <1>6, <1>8 DEF IsGatewayOf

(* For any documents, of any depth and with whatever else in their lists,  *)
(* and any order of the answers: discover loses none of the connection     *)
(* services that a gateway it has asked describes (igd.cpp:331-371,        *)
(* parse_device.cpp:38-74).                                                *)
THEOREM GatewaysAreFound == Spec => []EveryGatewayIsFound
<1>1. CInv => EveryGatewayIsFound
  <2>. SUFFICES ASSUME CInv, NEW n \in DOMAIN asked, NEW v \in Versions,
                       NEW o \in Offered(asked[n], v),
                       NEW udn, udn = TextIn(o[1], "UDN")[1], IsUnambiguous(udn, n)
                PROVE  \E i \in DOMAIN igds : /\ igds[i].udn = udn
                                              /\ <<igds[i].service>> = ServiceParse(o[2])
    BY DEF EveryGatewayIsFound
  <2>1. PICK r \in DOMAIN RootOf : r = asked[n] /\ Asked \subseteq DOMAIN RootOf
    BY DEF CInv, Asked, ToSet
  <2>2. IsGatewayOf(RootOf[r], v)
    BY <2>1, OfferedIsListed
  <2>3. PICK device \in ToSet(RootOf[r].devices) :
           /\ device.udn = udn
           /\ device.type = <<"WANDevice", v>>
           /\ \E connection \in ToSet(device.devices) :
                 /\ connection.type = <<"WANConnectionDevice", v>>
                 /\ \E service \in ToSet(connection.services) :
                       IsConnection(service, v) /\ <<service>> = ServiceParse(o[2])
    BY <2>1, OfferedIsListed
  <2>4. PICK connection \in ToSet(device.devices) :
           /\ connection.type = <<"WANConnectionDevice", v>>
           /\ \E service \in ToSet(connection.services) :
                 IsConnection(service, v) /\ <<service>> = ServiceParse(o[2])
    BY <2>3
  <2>5. PICK service \in ToSet(connection.services) :
           IsConnection(service, v) /\ <<service>> = ServiceParse(o[2])
    BY <2>4
  <2>6. PICK q \in UpTo(n) : /\ device \in ToSet(RootOf[q].devices)
                             /\ \A igd \in ToSet(IgdsOf(q, v, device)) : igd \in ToSet(igds)
    BY <2>1, <2>2, <2>3, CollectedWanDevices DEF WanDevicesAreCollected
  <2>7. q \in DOMAIN RootOf
    BY <2>1, EarlierAreAsked DEF CInv, IInv, Typed
  <2>8. [response |-> q, udn |-> device.udn, service |-> service] \in ToSet(igds)
    BY <2>4, <2>5, <2>6, <2>7, ConnectionIsListed
  <2>9. PICK i \in DOMAIN igds :
           igds[i] = [response |-> q, udn |-> device.udn, service |-> service]
    BY <2>8 DEF ToSet
  <2>. QED  BY <2>3, <2>5, <2>9
<1>. QED  BY <1>1, GatewaysCollected, PTL
=============================================================================
