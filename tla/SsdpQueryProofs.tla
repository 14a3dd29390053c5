--------------------------- MODULE SsdpQueryProofs ---------------------------
(***************************************************************************)
(* Safety of SsdpQuery for any callers, datagrams, search targets and      *)
(* number of datagrams, in either build, and that it implements the safety *)
(* part of ResponseStream.                                                 *)
(***************************************************************************)
EXTENDS SsdpQueryRefinement, SequenceTheorems, TLAPS


(* The query's waits are those of CancellableWait without any cancel_t.    *)
CVP == INSTANCE CancellableWaitProofs WITH
          Waiters <- Callers, Cancellable <- {}, connections <- {},
          called <- FALSE, alive <- TRUE, fault <- "none"

(* Before the search runs nothing has happened but sends; there is always  *)
(* a target left to send a request for.                                    *)
BeforeTheSearch ==
    /\ phase = "bind" => wire = <<>>
    /\ phase = "search" => Len(wire) < Len(Targets)
    /\ phase \in {"bind", "search"} => socketOpen
    /\ phase # "running" =>
        /\ ~handle
        /\ ~stopped
        /\ rxEc = NoEc
        /\ responses = <<>>
        /\ timer = "unset"
        /\ receiver = "unborn"
        /\ suspended = {}

(* How far receiver and timer are, and why: what _rx_ec, _stopped and the  *)
(* socket say of each other.                                               *)
DuringTheSearch ==
    /\ phase = "running" => receiver # "unborn" /\ timer # "unset"
    /\ handle => ~stopped
    /\ receiver = "receiving" => socketOpen /\ rxEc = NoEc /\ ~stopped
    /\ receiver = "ready" => rx # NoEc
    /\ receiver = "done" => rxEc # NoEc
    /\ timer = "done" => rxEc # NoEc
    /\ ~socketOpen => stopped \/ rxEc # NoEc \/ phase = "failed"
    /\ rx = Aborted => stopped \/ rxEc # NoEc
    /\ rxEc = Aborted => stopped

(* What a caller that was given an error_code knows.                       *)
AfterTheEnd ==
    \A c \in Callers : outcome[c] \in ErrorCodes =>
        /\ responses = <<>>
        /\ rxEc # NoEc
        /\ outcome[c] = Aborted => stopped

IInv ==
    /\ TypeOK
    /\ BeforeTheSearch
    /\ DuringTheSearch
    /\ AfterTheEnd
    /\ WaitersWillBeWoken
    /\ OneResumptionPerCaller

-----------------------------------------------------------------------------
(* The part of IInv that is the condition variable's invariant.            *)
LEMMA CVInvDef ==
    /\ CVP!CVInv <=> /\ suspended \subseteq Callers
                     /\ onNotify \subseteq Callers
                     /\ posted \subseteq CV!Handlers
                     /\ OneResumptionPerCaller
    /\ CVP!CVInv' <=> /\ suspended' \subseteq Callers
                      /\ onNotify' \subseteq Callers
                      /\ posted' \subseteq CV!Handlers
                      /\ OneResumptionPerCaller'
BY DEF CVP!CVInv, CVP!CVTypeOK, CVP!ExactlyOneResumption, CVP!BoundHandlers, CVP!Handlers,
       CVP!Success, CVP!Aborted, CV!Success, CV!Aborted, CV!Handlers,
       OneResumptionPerCaller, CV!ExactlyOneResumption, CV!BoundHandlers

LEMMA WaitKeepsCVInv ==
    ASSUME CVP!CVInv, NEW c \in Callers, CV!Wait(c)
    PROVE  CVP!CVInv'
BY QueryAssumption, CVP!WaitKeepsInv DEF CV!Wait, CVP!Wait

LEMMA NotifyKeepsCVInv ==
    ASSUME CVP!CVInv, CV!Notify(CV!Success)
    PROVE  CVP!CVInv'
<1>1. CVP!Notify(CVP!Success) /\ CVP!Success \in {CVP!Success, CVP!Aborted}
  BY DEF CV!Notify, CVP!Notify, CV!Handler, CVP!Handler, CV!Success, CVP!Success
<1>. QED  BY QueryAssumption, <1>1, CVP!NotifyKeepsInv

LEMMA ResumeKeepsCVInv ==
    ASSUME CVP!CVInv, NEW h, CV!Resume(h)
    PROVE  CVP!CVInv'
BY QueryAssumption, CVP!ResumeKeepsInv DEF CV!Resume, CVP!Resume

LEMMA ResumeAndWaitKeepsCVInv ==
    ASSUME CVP!CVInv, NEW h, CV!ResumeAndWait(h)
    PROVE  CVP!CVInv'
BY QueryAssumption, CVP!ResumeAndWaitKeepsInv DEF CV!ResumeAndWait, CVP!ResumeAndWait

LEMMA StutterKeepsCVInv ==
    ASSUME CVP!CVInv, UNCHANGED cvVars
    PROVE  CVP!CVInv'
BY DEF cvVars, CVP!CVInv, CVP!CVTypeOK, CVP!ExactlyOneResumption, CVP!BoundHandlers

-----------------------------------------------------------------------------

LEMMA InitIInv == Init => IInv
<1>. SUFFICES ASSUME Init PROVE IInv
  OBVIOUS
<1>1. TypeOK
  <2>1. outcome \in [Callers -> ErrorCodes \cup {NoEc, Got, BadAccess}]
    BY DEF Init
  <2>2. wire \in Seq(Seq(STRING)) /\ responses \in Seq(Datagrams) /\ returned \in Seq(Datagrams)
    BY DEF Init
  <2>3. received \in 0 .. MaxDatagrams
    BY QueryAssumption DEF Init
  <2>. QED  BY <2>1, <2>2, <2>3 DEF Init, TypeOK
<1>2. BeforeTheSearch /\ DuringTheSearch
  BY DEF Init, BeforeTheSearch, DuringTheSearch, NoEc, Aborted
<1>3. AfterTheEnd
  BY DEF Init, AfterTheEnd, NoEc, ErrorCodes, TimedOut, Aborted, RxError
<1>4. WaitersWillBeWoken /\ OneResumptionPerCaller
  BY DEF Init, WaitersWillBeWoken, OneResumptionPerCaller, CV!ExactlyOneResumption,
         CV!BoundHandlers
<1>. QED  BY <1>1, <1>2, <1>3, <1>4 DEF IInv

(* query::start: nothing but the first receive and the timer is started.   *)
LEMMA StartKeepsIInv == IInv /\ Start => IInv'
<1>. SUFFICES ASSUME IInv, Start PROVE IInv'
  OBVIOUS
<1>. USE DEF TypeOK, startVars, socketVars, queueVars, resultVars, NoEc
<1>1. TypeOK /\ BeforeTheSearch /\ DuringTheSearch /\ AfterTheEnd /\ WaitersWillBeWoken
      /\ CVP!CVInv
  BY CVInvDef DEF IInv
<1>2. CVP!CVInv' /\ UNCHANGED cvVars
  BY <1>1, StutterKeepsCVInv DEF Start, Bind, SearchSent, StartFails
<1>3. CASE Bind
  <2>1. TypeOK'
    BY <1>1, <1>2, <1>3, CVInvDef DEF Bind
  <2>2. BeforeTheSearch' /\ DuringTheSearch'
    BY <1>1, <1>2, <1>3, QueryAssumption DEF Bind, BeforeTheSearch, DuringTheSearch, cvVars
  <2>3. AfterTheEnd' /\ WaitersWillBeWoken'
    BY <1>1, <1>2, <1>3 DEF Bind, AfterTheEnd, WaitersWillBeWoken, cvVars
  <2>. QED  BY <1>2, <2>1, <2>2, <2>3, CVInvDef DEF IInv
<1>4. CASE SearchSent
  <2>. DEFINE n == Len(wire) + 1
  <2>1. n \in 1 .. Len(Targets) /\ Len(wire) \in Nat
    BY <1>1, <1>4, QueryAssumption DEF SearchSent, BeforeTheSearch
  <2>2. /\ wire' \in Seq(Seq(STRING))
        /\ Len(wire') = n
    <3>1. SubSeq(Targets, 1, n) \in Seq(STRING)
      BY <2>1, QueryAssumption, SubSeqProperties
    <3>. QED  BY <1>1, <1>4, <3>1 DEF SearchSent
  <2>3. TypeOK'
    BY <1>1, <1>2, <1>4, <2>2, CVInvDef DEF SearchSent
  <2>4. BeforeTheSearch' /\ DuringTheSearch'
    BY <1>1, <1>2, <1>4, <2>1, <2>2, QueryAssumption
       DEF SearchSent, BeforeTheSearch, DuringTheSearch, cvVars
  <2>5. AfterTheEnd'
    BY <1>1, <1>4 DEF SearchSent, AfterTheEnd
  <2>6. WaitersWillBeWoken'
    BY <1>1, <1>2, <1>4 DEF SearchSent, WaitersWillBeWoken, BeforeTheSearch, cvVars
  <2>. QED  BY <1>2, <2>3, <2>4, <2>5, <2>6, CVInvDef DEF IInv
<1>5. CASE StartFails
  <2>1. TypeOK'
    BY <1>1, <1>2, <1>5, CVInvDef DEF StartFails
  <2>2. BeforeTheSearch' /\ DuringTheSearch'
    BY <1>1, <1>2, <1>5 DEF StartFails, BeforeTheSearch, DuringTheSearch, cvVars
  <2>3. AfterTheEnd' /\ WaitersWillBeWoken'
    BY <1>1, <1>2, <1>5 DEF StartFails, AfterTheEnd, WaitersWillBeWoken, cvVars
  <2>. QED  BY <1>2, <2>1, <2>2, <2>3, CVInvDef DEF IInv
<1>. QED  BY <1>3, <1>4, <1>5 DEF Start

(* What arrives and the clock.                                             *)
LEMMA EnvironmentKeepsIInv == IInv /\ Environment => IInv'
<1>. SUFFICES ASSUME IInv, Environment PROVE IInv'
  OBVIOUS
<1>. USE DEF TypeOK, startVars, socketVars, queueVars, resultVars,
             NoEc, ErrorCodes, TimedOut, Aborted, RxError
<1>1. TypeOK /\ BeforeTheSearch /\ DuringTheSearch /\ AfterTheEnd /\ WaitersWillBeWoken
      /\ CVP!CVInv
  BY CVInvDef DEF IInv
<1>2. CVP!CVInv' /\ UNCHANGED cvVars
  BY <1>1, StutterKeepsCVInv DEF Environment, DatagramArrives, ReceiveFails, Receives, TimerExpires
<1>3. ASSUME NEW d \in Datagrams \cup {RxError}, Receives(d), received' \in 0 .. MaxDatagrams
      PROVE  IInv'
  <2>1. d # NoEc /\ d # Aborted
    BY DatagramsAreNotErrors
  <2>2. TypeOK'
    BY <1>1, <1>2, <1>3, CVInvDef DEF Receives
  <2>3. BeforeTheSearch' /\ DuringTheSearch'
    BY <1>1, <1>2, <1>3, <2>1 DEF Receives, BeforeTheSearch, DuringTheSearch, cvVars
  <2>4. AfterTheEnd' /\ WaitersWillBeWoken'
    BY <1>1, <1>2, <1>3 DEF Receives, AfterTheEnd, WaitersWillBeWoken, cvVars
  <2>. QED  BY <1>2, <2>2, <2>3, <2>4, CVInvDef DEF IInv
<1>4. CASE DatagramArrives
  <2>1. PICK d \in Datagrams : Receives(d)
    BY <1>4 DEF DatagramArrives
  <2>2. received' \in 0 .. MaxDatagrams
    BY <1>1, <1>4, QueryAssumption DEF DatagramArrives
  <2>. QED  BY <1>3, <2>1, <2>2
<1>5. CASE ReceiveFails
  <2>1. Receives(RxError) /\ received' \in 0 .. MaxDatagrams
    BY <1>1, <1>5 DEF ReceiveFails
  <2>. QED  BY <1>3, <2>1
<1>6. CASE TimerExpires
  <2>1. TypeOK'
    BY <1>1, <1>2, <1>6, CVInvDef DEF TimerExpires
  <2>2. BeforeTheSearch' /\ DuringTheSearch'
    BY <1>1, <1>2, <1>6 DEF TimerExpires, BeforeTheSearch, DuringTheSearch, cvVars
  <2>3. AfterTheEnd' /\ WaitersWillBeWoken'
    BY <1>1, <1>2, <1>6 DEF TimerExpires, AfterTheEnd, WaitersWillBeWoken, cvVars
  <2>. QED  BY <1>2, <2>1, <2>2, <2>3, CVInvDef DEF IInv
<1>. QED  BY <1>4, <1>5, <1>6 DEF Environment

(* The timer sets a reason only if there is none, and closes the socket    *)
(* only then.                                                              *)
LEMMA TimerHandlerKeepsIInv == IInv /\ TimerHandler => IInv'
<1>. SUFFICES ASSUME IInv, TimerHandler PROVE IInv'
  OBVIOUS
<1>. USE DEF TypeOK, startVars, socketVars, queueVars, resultVars,
             NoEc, ErrorCodes, TimedOut, Aborted, RxError
<1>1. TypeOK /\ BeforeTheSearch /\ DuringTheSearch /\ AfterTheEnd /\ WaitersWillBeWoken
      /\ CVP!CVInv
  BY CVInvDef DEF IInv
<1>2. CVP!CVInv' /\ UNCHANGED cvVars
  BY <1>1, StutterKeepsCVInv DEF TimerHandler
<1>3. TypeOK'
  BY <1>1, <1>2, CVInvDef DEF TimerHandler, TimeOut, CloseSocket
<1>4. BeforeTheSearch' /\ DuringTheSearch'
  BY <1>1, <1>2 DEF TimerHandler, TimeOut, CloseSocket, BeforeTheSearch, DuringTheSearch, cvVars
<1>5. AfterTheEnd'
  BY <1>1 DEF TimerHandler, AfterTheEnd
<1>6. WaitersWillBeWoken'
  BY <1>1, <1>2 DEF TimerHandler, TimeOut, CloseSocket, DuringTheSearch, WaitersWillBeWoken, cvVars
<1>. QED  BY <1>2, <1>3, <1>4, <1>5, <1>6, CVInvDef DEF IInv

(* The receiver wakes every waiter when it queues or ends, and goes on to  *)
(* receive only while nothing has ended the search.                        *)
LEMMA ReceiverKeepsIInv == IInv /\ Receiver => IInv'
<1>. SUFFICES ASSUME IInv, Receiver PROVE IInv'
  OBVIOUS
<1>. USE DEF TypeOK, startVars, socketVars, queueVars, resultVars,
             NoEc, ErrorCodes, TimedOut, Aborted, RxError
<1>1. TypeOK /\ BeforeTheSearch /\ DuringTheSearch /\ AfterTheEnd /\ WaitersWillBeWoken
      /\ CVP!CVInv
  BY CVInvDef DEF IInv
<1>2. receiver = "ready" /\ phase = "running" /\ rx \in Datagrams \cup ErrorCodes
  BY <1>1 DEF Receiver, ReceiverEnds, ReceiverDropsDuplicate, ReceiverQueues,
              BeforeTheSearch, DuringTheSearch
<1>3. CASE ReceiverEnds
  <2>1. CVP!CVInv' /\ onNotify' = {} /\ suspended' = suspended
    BY <1>1, <1>3, NotifyKeepsCVInv DEF ReceiverEnds, WakesAll, CV!Notify
  <2>2. rxEc' \in ErrorCodes /\ (rxEc # NoEc => rxEc' = rxEc) /\ (rxEc' = Aborted => stopped)
    BY <1>1, <1>3, DatagramsAreNotErrors DEF ReceiverEnds, RxEcAfterReceive, DuringTheSearch
  <2>3. TypeOK'
    BY <1>1, <1>3, <2>1, <2>2, CVInvDef DEF ReceiverEnds
  <2>4. BeforeTheSearch' /\ DuringTheSearch'
    BY <1>1, <1>2, <1>3, <2>2 DEF ReceiverEnds, BeforeTheSearch, DuringTheSearch
  <2>5. AfterTheEnd'
    BY <1>1, <1>3, <2>2 DEF ReceiverEnds, AfterTheEnd
  <2>. QED  BY <2>1, <2>3, <2>4, <2>5, CVInvDef DEF IInv, WaitersWillBeWoken
<1>4. ASSUME RxEcAfterReceive = NoEc
      PROVE  rxEc = NoEc /\ ~stopped /\ socketOpen /\ rx \in Datagrams /\ timer # "done"
             /\ timer # "unset"
  BY <1>1, <1>2, <1>4 DEF RxEcAfterReceive, DuringTheSearch
<1>5. CASE ReceiverDropsDuplicate
  <2>1. CVP!CVInv' /\ UNCHANGED cvVars
    BY <1>1, <1>5, StutterKeepsCVInv DEF ReceiverDropsDuplicate
  <2>2. TypeOK'
    BY <1>1, <1>5, <2>1, CVInvDef DEF ReceiverDropsDuplicate
  <2>3. BeforeTheSearch' /\ DuringTheSearch'
    BY <1>1, <1>2, <1>4, <1>5, <2>1
       DEF ReceiverDropsDuplicate, BeforeTheSearch, DuringTheSearch, cvVars
  <2>4. AfterTheEnd' /\ WaitersWillBeWoken'
    BY <1>1, <1>4, <1>5, <2>1
       DEF ReceiverDropsDuplicate, AfterTheEnd, WaitersWillBeWoken, cvVars
  <2>. QED  BY <2>1, <2>2, <2>3, <2>4, CVInvDef DEF IInv
<1>6. CASE ReceiverQueues
  <2>1. CVP!CVInv' /\ onNotify' = {} /\ suspended' = suspended
    BY <1>1, <1>6, NotifyKeepsCVInv DEF ReceiverQueues, WakesAll, CV!Notify
  <2>2. rx \in Datagrams
    BY <1>4, <1>6 DEF ReceiverQueues
  <2>3. TypeOK'
    <3>1. seenUsns' \subseteq Usns
      BY <1>1, <1>6, QueryAssumption DEF ReceiverQueues
    <3>2. responses' \in Seq(Datagrams)
      BY <1>1, <1>6, <2>2 DEF ReceiverQueues
    <3>. QED  BY <1>1, <1>6, <2>1, <3>1, <3>2, CVInvDef DEF ReceiverQueues
  <2>4. BeforeTheSearch' /\ DuringTheSearch'
    BY <1>1, <1>2, <1>4, <1>6, <2>1 DEF ReceiverQueues, BeforeTheSearch, DuringTheSearch
  <2>5. AfterTheEnd'
    BY <1>1, <1>4, <1>6 DEF ReceiverQueues, AfterTheEnd
  <2>. QED  BY <2>1, <2>3, <2>4, <2>5, CVInvDef DEF IInv, WaitersWillBeWoken
<1>. QED  BY <1>3, <1>5, <1>6 DEF Receiver

-----------------------------------------------------------------------------

(* The three ways out of the loop of get_response, in a caller that calls  *)
(* or resumes: w is what it does to the condition variable.                *)
LEMMA LoopKeepsOutcomes ==
    ASSUME IInv, NEW c \in Callers, phase = "running",
           TakesFront(c) \/ ReportsEnd(c) \/ FindsNothing,
           UNCHANGED <<startVars, handle, stopped, rxEc, seenUsns, socketVars, timer, received>>,
           CVP!CVInv',
           onNotify' \subseteq onNotify \cup (IF FindsNothing THEN {c} ELSE {})
    PROVE  IInv'
<1>. USE DEF TypeOK, startVars, socketVars, queueVars, resultVars,
             NoEc, ErrorCodes, TimedOut, Aborted, RxError, Got, BadAccess
<1>1. TypeOK /\ BeforeTheSearch /\ DuringTheSearch /\ AfterTheEnd /\ WaitersWillBeWoken
  BY DEF IInv
<1>2. TypeOK'
  <2>1. CASE TakesFront(c)
    <3>1. responses' \in Seq(Datagrams) /\ returned' \in Seq(Datagrams)
      BY <1>1, <2>1 DEF TakesFront
    <3>2. outcome' \in [Callers -> ErrorCodes \cup {NoEc, Got, BadAccess}] /\ died' \in BOOLEAN
      BY <1>1, <2>1, QueryAssumption DEF TakesFront
    <3>. QED  BY <1>1, <3>1, <3>2, CVInvDef
  <2>2. CASE ReportsEnd(c)
    BY <1>1, <2>2, CVInvDef DEF ReportsEnd
  <2>3. CASE FindsNothing
    BY <1>1, <2>3, CVInvDef DEF FindsNothing
  <2>. QED  BY <2>1, <2>2, <2>3
<1>3. BeforeTheSearch' /\ DuringTheSearch'
  BY <1>1 DEF BeforeTheSearch, DuringTheSearch
<1>4. AfterTheEnd'
  <2>1. CASE TakesFront(c)
    BY <1>1, <2>1 DEF TakesFront, AfterTheEnd
  <2>2. CASE ReportsEnd(c)
    BY <1>1, <2>2 DEF ReportsEnd, AfterTheEnd, DuringTheSearch
  <2>3. CASE FindsNothing
    BY <1>1, <2>3 DEF FindsNothing, AfterTheEnd
  <2>. QED  BY <2>1, <2>2, <2>3
<1>5. WaitersWillBeWoken'
  <2>1. CASE FindsNothing
    BY <1>1, <2>1 DEF FindsNothing, WaitersWillBeWoken, DuringTheSearch
  <2>2. CASE ~FindsNothing
    BY <1>1, <2>2 DEF TakesFront, ReportsEnd, WaitersWillBeWoken
  <2>. QED  BY <2>1, <2>2
<1>. QED  BY <1>2, <1>3, <1>4, <1>5, CVInvDef DEF IInv

LEMMA GetResponseKeepsIInv ==
    ASSUME IInv, NEW c \in Callers, GetResponse(c)
    PROVE  IInv'
<1>1. phase = "running" /\ ~stopped /\ CVP!CVInv
  BY CVInvDef DEF IInv, TypeOK, GetResponse, MayCall, BeforeTheSearch, DuringTheSearch
<1>2. TakesFront(c) \/ ReportsEnd(c) \/ FindsNothing
  BY <1>1 DEF GetResponse
<1>3. CVP!CVInv' /\ onNotify' \subseteq onNotify \cup (IF FindsNothing THEN {c} ELSE {})
  <2>1. CASE UNCHANGED cvVars
    BY <1>1, <2>1, StutterKeepsCVInv DEF cvVars
  <2>2. CASE FindsNothing /\ CV!Wait(c)
    <3>1. CVP!CVInv'
      BY <1>1, <2>2, WaitKeepsCVInv
    <3>. QED  BY <2>2, <3>1 DEF CV!Wait
  <2>. QED  BY <1>1, <2>1, <2>2 DEF GetResponse
<1>. QED  BY <1>1, <1>2, <1>3, LoopKeepsOutcomes DEF GetResponse

LEMMA CallerResumesKeepsIInv ==
    ASSUME IInv, NEW c \in Callers, CallerResumes(c)
    PROVE  IInv'
<1>1. CVP!CVInv
  BY CVInvDef DEF IInv, TypeOK
<1>2. PICK h \in posted :
          /\ h.waiter = c
          /\ \/ TakesFront(c) /\ CV!Resume(h)
             \/ ReportsEnd(c) /\ CV!Resume(h)
             \/ FindsNothing /\ CV!ResumeAndWait(h)
  BY DEF CallerResumes
<1>3. c \in suspended
  BY <1>1, <1>2 DEF CV!Resume, CV!ResumeAndWait, CVP!CVInv, CVP!ExactlyOneResumption,
                    CVP!BoundHandlers
<1>4. phase = "running"
  BY <1>3 DEF IInv, BeforeTheSearch
<1>5. CVP!CVInv' /\ onNotify' \subseteq onNotify \cup (IF FindsNothing THEN {c} ELSE {})
  <2>1. CASE CV!Resume(h)
    <3>1. CVP!CVInv'
      BY <1>1, <2>1, ResumeKeepsCVInv
    <3>. QED  BY <2>1, <3>1 DEF CV!Resume
  <2>2. CASE FindsNothing /\ CV!ResumeAndWait(h)
    <3>1. CVP!CVInv'
      BY <1>1, <2>2, ResumeAndWaitKeepsCVInv
    <3>. QED  BY <1>2, <2>2, <3>1 DEF CV!ResumeAndWait
  <2>. QED  BY <1>2, <2>1, <2>2
<1>6. TakesFront(c) \/ ReportsEnd(c) \/ FindsNothing
  BY <1>2
<1>. QED  BY <1>4, <1>5, <1>6, LoopKeepsOutcomes DEF CallerResumes

(* stop() closes the socket, which completes a pending receive; dropping   *)
(* the handle changes nothing that a waiter depends on.                    *)
LEMMA ReleaseKeepsIInv == IInv /\ (Stop \/ Overwrite) => IInv'
<1>. SUFFICES ASSUME IInv, Stop \/ Overwrite PROVE IInv'
  OBVIOUS
<1>. USE DEF TypeOK, startVars, socketVars, queueVars, resultVars,
             NoEc, ErrorCodes, TimedOut, Aborted, RxError
<1>1. TypeOK /\ BeforeTheSearch /\ DuringTheSearch /\ AfterTheEnd /\ WaitersWillBeWoken
      /\ CVP!CVInv
  BY CVInvDef DEF IInv
<1>2. CVP!CVInv' /\ UNCHANGED cvVars
  BY <1>1, StutterKeepsCVInv DEF Stop, Overwrite
<1>3. CASE Stop
  <2>1. TypeOK'
    BY <1>1, <1>2, <1>3, CVInvDef DEF Stop, CloseSocket
  <2>2. BeforeTheSearch' /\ DuringTheSearch'
    BY <1>1, <1>2, <1>3 DEF Stop, CloseSocket, BeforeTheSearch, DuringTheSearch, cvVars
  <2>3. AfterTheEnd'
    BY <1>1, <1>3 DEF Stop, AfterTheEnd
  <2>4. WaitersWillBeWoken'
    BY <1>1, <1>2, <1>3 DEF Stop, CloseSocket, WaitersWillBeWoken, cvVars
  <2>. QED  BY <1>2, <2>1, <2>2, <2>3, <2>4, CVInvDef DEF IInv
<1>4. CASE Overwrite
  <2>1. TypeOK'
    <3>1. handle' \in BOOLEAN /\ received' \in 0 .. MaxDatagrams
      BY <1>1, <1>4 DEF Overwrite
    <3>. QED  BY <1>1, <1>2, <1>4, <3>1 DEF Overwrite, cvVars
  <2>2. BeforeTheSearch' /\ DuringTheSearch'
    BY <1>1, <1>2, <1>4 DEF Overwrite, BeforeTheSearch, DuringTheSearch, cvVars
  <2>3. AfterTheEnd' /\ WaitersWillBeWoken'
    BY <1>1, <1>2, <1>4 DEF Overwrite, AfterTheEnd, WaitersWillBeWoken, cvVars
  <2>. QED  BY <1>2, <2>1, <2>2, <2>3, CVInvDef DEF IInv
<1>. QED  BY <1>3, <1>4

-----------------------------------------------------------------------------

LEMMA NextIInv == IInv /\ [Next]_vars => IInv'
<1>. SUFFICES ASSUME IInv, [Next]_vars PROVE IInv'
  OBVIOUS
<1>1. CASE UNCHANGED vars
  <2>1. UNCHANGED <<phase, wire, handle, stopped, rxEc, responses, seenUsns, socketOpen,
                    receiver, rx, timer, received, suspended, onNotify, posted, outcome,
                    returned, died>>
    BY <1>1 DEF vars, startVars, queueVars, socketVars, cvVars, resultVars
  <2>2. TypeOK' /\ BeforeTheSearch' /\ DuringTheSearch' /\ AfterTheEnd' /\ WaitersWillBeWoken'
    BY <2>1 DEF IInv, TypeOK, BeforeTheSearch, DuringTheSearch, AfterTheEnd, WaitersWillBeWoken
  <2>3. OneResumptionPerCaller'
    BY <2>1 DEF IInv, OneResumptionPerCaller, CV!ExactlyOneResumption, CV!BoundHandlers
  <2>. QED  BY <2>2, <2>3 DEF IInv
<1>. QED  BY <1>1, StartKeepsIInv, EnvironmentKeepsIInv, ReceiverKeepsIInv,
             TimerHandlerKeepsIInv, GetResponseKeepsIInv, CallerResumesKeepsIInv,
             ReleaseKeepsIInv
          DEF Next, User

LEMMA SpecIInv == Spec => []IInv
BY InitIInv, NextIInv, PTL DEF Spec

(* The variables stay in their types.                                      *)
THEOREM Typing == Spec => []TypeOK
BY SpecIInv, PTL DEF IInv

(* No lost wakeup: a caller that is linked in _cv has nothing to take, and *)
(* a completed receive, or one that the timer will end, is still to come.  *)
THEOREM NoLostWakeup == Spec => []WaitersWillBeWoken
BY SpecIInv, PTL DEF IInv

(* A caller inside get_response has exactly one way to be resumed.         *)
THEOREM OneResumption == Spec => []OneResumptionPerCaller
BY SpecIInv, PTL DEF IInv

(* A caller that was given an error_code has left nothing behind, and      *)
(* nothing is queued after it has gone.                                    *)
THEOREM EndsAreFinal == Spec => []EndIsFinal
<1>1. IInv => EndIsFinal
  BY DEF IInv, AfterTheEnd, EndIsFinal
<1>. QED  BY <1>1, SpecIInv, PTL

(* Callers are told operation_aborted only if somebody stopped the query,  *)
(* although the timer's handler aborts the receive as well.                *)
THEOREM AbortsAreStops == Spec => []AbortedOnlyIfStopped
<1>1. IInv => AbortedOnlyIfStopped
  BY DEF IInv, AfterTheEnd, AbortedOnlyIfStopped, ErrorCodes
<1>. QED  BY <1>1, SpecIInv, PTL

(* No receive is pending on a closed socket.                               *)
THEOREM OpenReceives == Spec => []ReceivesOnOpenSocket
<1>1. IInv => ReceivesOnOpenSocket
  BY DEF IInv, DuringTheSearch, ReceivesOnOpenSocket
<1>. QED  BY <1>1, SpecIInv, PTL

(* Once _rx_ec is set it never changes: everybody is told the same reason. *)
THEOREM StableEnd == Spec => EndReasonIsStable
<1>1. IInv /\ [Next]_vars => (rxEc # NoEc => rxEc' = rxEc)
  <2>. SUFFICES ASSUME IInv, [Next]_vars, rxEc # NoEc PROVE rxEc' = rxEc
    OBVIOUS
  <2>1. CASE UNCHANGED vars
    BY <2>1 DEF vars
  <2>2. CASE Start \/ Environment
    BY <2>2 DEF Start, Bind, SearchSent, StartFails, Environment, DatagramArrives,
                ReceiveFails, Receives, TimerExpires
  <2>3. CASE Receiver \/ TimerHandler
    BY <2>3 DEF Receiver, ReceiverEnds, ReceiverDropsDuplicate, ReceiverQueues,
                RxEcAfterReceive, TimerHandler
  <2>4. CASE Stop \/ Overwrite
    BY <2>4 DEF Stop, Overwrite
  <2>5. ASSUME NEW c \in Callers, GetResponse(c) \/ CallerResumes(c) PROVE rxEc' = rxEc
    BY <2>5 DEF GetResponse, CallerResumes
  <2>. QED  BY <2>1, <2>2, <2>3, <2>4, <2>5 DEF Next, User
<1>. QED  BY <1>1, SpecIInv, PTL DEF Spec, EndReasonIsStable

-----------------------------------------------------------------------------
(* The stream of queued responses.                                         *)

(* Popping the front moves it to the end of what has been popped.          *)
LEMMA MoveFront ==
    ASSUME NEW S, NEW s \in Seq(S), NEW t \in Seq(S), t # <<>>
    PROVE  Append(s, Head(t)) \o Tail(t) = s \o t
<1>. DEFINE u == Append(s, Head(t))
            v == Tail(t)
<1>1. /\ Head(t) \in S /\ v \in Seq(S) /\ Len(v) = Len(t) - 1
      /\ \A i \in 1 .. Len(v) : v[i] = t[i + 1]
      /\ Head(t) = t[1]
      /\ Len(t) \in Nat \ {0} /\ Len(s) \in Nat
  BY HeadTailProperties, EmptySeq
<1>2. /\ u \in Seq(S) /\ Len(u) = Len(s) + 1
      /\ \A i \in 1 .. Len(s) : u[i] = s[i]
      /\ u[Len(s) + 1] = t[1]
  BY <1>1, AppendProperties
<1>. HIDE DEF u, v
<1>3. /\ u \o v \in Seq(S) /\ Len(u \o v) = Len(u) + Len(v)
      /\ \A i \in 1 .. Len(u) + Len(v) :
            (u \o v)[i] = IF i <= Len(u) THEN u[i] ELSE v[i - Len(u)]
  BY <1>1, <1>2, ConcatProperties
<1>4. /\ s \o t \in Seq(S) /\ Len(s \o t) = Len(s) + Len(t)
      /\ \A i \in 1 .. Len(s) + Len(t) :
            (s \o t)[i] = IF i <= Len(s) THEN s[i] ELSE t[i - Len(s)]
  BY ConcatProperties
<1>5. Len(u \o v) = Len(s \o t)
  BY <1>1, <1>2, <1>3, <1>4
<1>6. ASSUME NEW i \in 1 .. Len(u \o v) PROVE (u \o v)[i] = (s \o t)[i]
  <2>1. CASE i <= Len(s)
    BY <1>1, <1>2, <1>3, <1>4, <2>1
  <2>2. CASE i = Len(s) + 1
    BY <1>1, <1>2, <1>3, <1>4, <2>2
  <2>3. CASE i > Len(s) + 1
    <3>1. /\ i - Len(u) \in 1 .. Len(v) /\ i - Len(u) + 1 = i - Len(s)
          /\ (u \o v)[i] = v[i - Len(u)]
          /\ (s \o t)[i] = t[i - Len(s)]
      BY <1>1, <1>2, <1>3, <1>4, <2>3
    <3>. QED  BY <1>1, <3>1
  <2>4. i <= Len(s) \/ i = Len(s) + 1 \/ i > Len(s) + 1
    BY <1>1, <1>2, <1>3
  <2>. QED  BY <2>1, <2>2, <2>3, <2>4
<1>7. u \o v = s \o t
  BY <1>3, <1>4, <1>5, <1>6, SeqEqual
<1>. QED  BY <1>7 DEF u, v

LEMMA ConcatAppend ==
    ASSUME NEW S, NEW s \in Seq(S), NEW t \in Seq(S), NEW e \in S
    PROVE  s \o Append(t, e) = Append(s \o t, e)
<1>1. <<e>> \in Seq(S) /\ s \o t \in Seq(S)
  BY ConcatProperties
<1>2. Append(t, e) = t \o <<e>> /\ Append(s \o t, e) = (s \o t) \o <<e>>
  BY <1>1, AppendIsConcat
<1>. QED  BY <1>1, <1>2, ConcatAssociative

(* What a step does to the stream and to the names seen: nothing, unless   *)
(* the receiver queues what is not a duplicate.                            *)
LEMMA StreamSteps ==
    ASSUME IInv, [Next]_vars
    PROVE  \/ Stream' = Stream /\ seenUsns' = seenUsns
           \/ \E d \in Datagrams :
                 /\ Stream' = Append(Stream, d)
                 /\ ~IsDuplicate(d)
                 /\ seenUsns' = IF d \in WellFormed THEN seenUsns \cup {UsnOf[d]} ELSE seenUsns
<1>1. responses \in Seq(Datagrams) /\ returned \in Seq(Datagrams)
  BY DEF IInv, TypeOK
<1>2. CASE UNCHANGED <<responses, returned, seenUsns>>
  BY <1>2 DEF Stream
<1>3. ASSUME NEW c \in Callers, TakesFront(c), seenUsns' = seenUsns
      PROVE  Stream' = Stream /\ seenUsns' = seenUsns
  BY <1>1, <1>3, MoveFront DEF TakesFront, Stream
<1>4. CASE ReceiverQueues
  <2>1. rx \in Datagrams
    BY <1>4 DEF ReceiverQueues, IInv, TypeOK, DuringTheSearch, RxEcAfterReceive, ErrorCodes, NoEc,
                TimedOut, Aborted, RxError
  <2>2. responses' = Append(responses, rx) /\ returned' = returned
    BY <1>4 DEF ReceiverQueues, resultVars
  <2>3. Stream' = Append(Stream, rx)
    BY <1>1, <2>1, <2>2, ConcatAppend DEF Stream
  <2>. QED  BY <1>4, <2>1, <2>3 DEF ReceiverQueues
<1>5. CASE UNCHANGED vars
  BY <1>2, <1>5 DEF vars, queueVars, resultVars
<1>6. CASE Start \/ Environment \/ TimerHandler \/ Stop \/ Overwrite
  BY <1>2, <1>6 DEF Start, Bind, SearchSent, StartFails, Environment, DatagramArrives, ReceiveFails,
                    Receives, TimerExpires, TimerHandler, Stop, Overwrite, queueVars, resultVars
<1>7. CASE ReceiverEnds \/ ReceiverDropsDuplicate
  BY <1>2, <1>7 DEF ReceiverEnds, ReceiverDropsDuplicate, queueVars, resultVars
<1>8. ASSUME NEW c \in Callers, GetResponse(c) \/ CallerResumes(c)
      PROVE  Stream' = Stream /\ seenUsns' = seenUsns
  <2>1. seenUsns' = seenUsns
    BY <1>8 DEF GetResponse, CallerResumes
  <2>2. TakesFront(c) \/ UNCHANGED <<responses, returned>>
    BY <1>8 DEF GetResponse, CallerResumes, ReportsEnd, FindsNothing, resultVars
  <2>. QED  BY <1>3, <2>1, <2>2 DEF Stream
<1>. QED  BY <1>4, <1>5, <1>6, <1>7, <1>8 DEF Next, User, Receiver

(* No interleaving of the receiver with the callers loses, repeats or      *)
(* reorders a queued response.                                             *)
THEOREM StreamGrows == Spec => StreamOnlyGrows
<1>1. IInv /\ [Next]_vars => \/ Stream' = Stream
                             \/ \E d \in Datagrams : Stream' = Append(Stream, d)
  BY StreamSteps
<1>. QED  BY <1>1, SpecIInv, PTL DEF Spec, StreamOnlyGrows

(* Every name in the stream has been seen, by which a second response with *)
(* the name is recognised when the first has long been taken.              *)
SeenInv ==
    \A i \in 1 .. Len(Stream) : Stream[i] \in WellFormed => UsnOf[Stream[i]] \in seenUsns

(* No two queued responses ever carry the same USN.                        *)
THEOREM NoDuplicates == Spec => []UniqueUsns
<1>1. Init => SeenInv /\ UniqueUsns
  <2>1. ASSUME Init PROVE Len(Stream) = 0
    BY <2>1 DEF Init, Stream
  <2>. QED  BY <2>1 DEF SeenInv, UniqueUsns
<1>2. IInv /\ SeenInv /\ UniqueUsns /\ [Next]_vars => SeenInv' /\ UniqueUsns'
  <2>. SUFFICES ASSUME IInv, SeenInv, UniqueUsns, [Next]_vars PROVE SeenInv' /\ UniqueUsns'
    OBVIOUS
  <2>1. CASE Stream' = Stream /\ seenUsns' = seenUsns
    BY <2>1 DEF SeenInv, UniqueUsns
  <2>2. ASSUME NEW d \in Datagrams,
               Stream' = Append(Stream, d),
               ~IsDuplicate(d),
               seenUsns' = IF d \in WellFormed THEN seenUsns \cup {UsnOf[d]} ELSE seenUsns
        PROVE  SeenInv' /\ UniqueUsns'
    <3>1. Stream \in Seq(Datagrams) /\ Len(Stream) \in Nat
      BY ConcatProperties, LenProperties DEF IInv, TypeOK, Stream
    <3>2. /\ Len(Stream') = Len(Stream) + 1
          /\ \A i \in 1 .. Len(Stream) : Stream'[i] = Stream[i]
          /\ Stream'[Len(Stream) + 1] = d
      BY <2>2, <3>1, AppendProperties
    <3>3. \A i \in 1 .. Len(Stream') : i \in 1 .. Len(Stream) \/ i = Len(Stream) + 1
      BY <3>1, <3>2
    <3>4. \A i \in 1 .. Len(Stream) :
              Stream[i] \in WellFormed /\ d \in WellFormed => UsnOf[Stream[i]] # UsnOf[d]
      BY <2>2 DEF SeenInv, IsDuplicate
    <3>5. SeenInv'
      BY <2>2, <3>2, <3>3 DEF SeenInv
    <3>6. UniqueUsns'
      BY <3>2, <3>3, <3>4 DEF UniqueUsns
    <3>. QED  BY <3>5, <3>6
  <2>. QED  BY <2>1, <2>2, StreamSteps
<1>. QED  BY <1>1, <1>2, SpecIInv, PTL DEF Spec

-----------------------------------------------------------------------------
(* Refinement.  Most steps are invisible in the stream; the invariant IInv *)
(* is needed where the stream allows less than the guard of the query's    *)
(* action says: the search cannot end before it runs, a parse error is     *)
(* told from an error code, and whoever is resumed was blocked.            *)

LEMMA InitRefines == Init => RS!Init
BY DEF Init, RS!Init, StreamStatus, RS!Nothing, NoEc

(* Steps that change nothing a user of the stream can see.                 *)
LEMMA InvisibleSteps ==
    ASSUME UNCHANGED <<phase, handle, stopped, rxEc, queueVars, suspended, outcome, died>>
    PROVE  UNCHANGED RS!vars
BY DEF RS!vars, StreamStatus, queueVars

LEMMA StartRefines == IInv /\ ~died /\ Start => RS!Next \/ UNCHANGED RS!vars
<1>. SUFFICES ASSUME IInv, ~died, Start PROVE RS!Next \/ UNCHANGED RS!vars
  OBVIOUS
<1>. USE DEF startVars, queueVars, socketVars, cvVars, resultVars
<1>1. ~handle
  BY DEF Start, Bind, SearchSent, StartFails, IInv, BeforeTheSearch
<1>2. CASE Bind
  BY <1>2 DEF Bind, RS!vars, StreamStatus
<1>3. CASE SearchSent
  <2>1. CASE phase' = phase
    BY <1>3, <2>1 DEF SearchSent, RS!vars, StreamStatus
  <2>2. CASE phase' # phase
    <3>1. RS!Open
      BY <1>3, <2>2 DEF SearchSent, RS!Open, StreamStatus
    <3>. QED  BY <3>1 DEF RS!Next
  <2>. QED  BY <2>1, <2>2
<1>4. CASE StartFails
  <2>1. RS!Open
    BY <1>4 DEF StartFails, RS!Open, StreamStatus
  <2>. QED  BY <2>1 DEF RS!Next
<1>. QED  BY <1>2, <1>3, <1>4 DEF Start

LEMMA EnvironmentRefines == Environment => UNCHANGED RS!vars
BY InvisibleSteps DEF Environment, DatagramArrives, ReceiveFails, Receives, TimerExpires,
                      startVars, queueVars, socketVars, cvVars, resultVars

(* The stream ends when a reason is set, by whichever of the three.        *)
LEMMA EndingRefines ==
    ASSUME IInv, ~died, phase = "running", rxEc = NoEc, rxEc' \in ErrorCodes,
           rxEc' = Aborted => stopped, stopped => rxEc' \in {Aborted, TimedOut},
           UNCHANGED <<phase, handle, stopped, queueVars, suspended, outcome, died>>
    PROVE  RS!Next
<1>1. RS!End(rxEc')
  BY DEF RS!End, RS!Nothing, NoEc, StreamStatus, queueVars
<1>. QED  BY <1>1 DEF RS!Next

LEMMA TimerHandlerRefines ==
    ASSUME IInv, ~died, TimerHandler
    PROVE  RS!Next \/ UNCHANGED RS!vars
<1>. USE DEF startVars, queueVars, socketVars, cvVars, resultVars
<1>1. phase = "running"
  BY DEF TimerHandler, IInv, BeforeTheSearch
<1>2. CASE rxEc # NoEc
  BY <1>2, InvisibleSteps DEF TimerHandler
<1>3. CASE rxEc = NoEc
  BY <1>1, <1>3, EndingRefines DEF TimerHandler, TimeOut, CloseSocket, ErrorCodes, TimedOut, Aborted
<1>. QED  BY <1>2, <1>3

LEMMA ReceiverRefines ==
    ASSUME IInv, ~died, Receiver
    PROVE  RS!Next \/ UNCHANGED RS!vars
<1>. USE DEF startVars, queueVars, socketVars, cvVars, resultVars
<1>1. receiver = "ready" /\ phase = "running" /\ rx \in Datagrams \cup ErrorCodes /\ rx # NoEc
  BY DEF Receiver, ReceiverEnds, ReceiverDropsDuplicate, ReceiverQueues, IInv, TypeOK,
         BeforeTheSearch, DuringTheSearch
<1>2. CASE ReceiverEnds
  <2>1. /\ UNCHANGED <<phase, handle, stopped, queueVars, suspended, outcome, died>>
        /\ rxEc # NoEc => rxEc' = rxEc
    BY <1>2 DEF ReceiverEnds, WakesAll, CV!Notify, RxEcAfterReceive
  <2>2. CASE rxEc # NoEc
    BY <2>1, <2>2, InvisibleSteps
  <2>3. CASE rxEc = NoEc
    <3>1. /\ rxEc' \in ErrorCodes /\ (rxEc' = Aborted => stopped)
          /\ stopped => rxEc' \in {Aborted, TimedOut}
      BY <1>1, <1>2, <2>3, DatagramsAreNotErrors
         DEF ReceiverEnds, RxEcAfterReceive, IInv, DuringTheSearch,
             ErrorCodes, TimedOut, Aborted, RxError, NoEc
    <3>. QED  BY <1>1, <2>1, <2>3, <3>1, EndingRefines
  <2>. QED  BY <2>2, <2>3
<1>3. CASE ReceiverDropsDuplicate
  BY <1>3, InvisibleSteps DEF ReceiverDropsDuplicate
<1>4. CASE ReceiverQueues
  <2>1. rxEc = NoEc /\ ~stopped /\ rx \in Datagrams
    BY <1>1, <1>4 DEF ReceiverQueues, RxEcAfterReceive, ErrorCodes, NoEc,
                      TimedOut, Aborted, RxError
  <2>2. RS!Put(rx)
    BY <1>1, <1>4, <2>1 DEF ReceiverQueues, IsDuplicate, WakesAll, CV!Notify, RS!Put, RS!Nothing, NoEc,
                            StreamStatus
  <2>. QED  BY <2>1, <2>2 DEF RS!Next
<1>. QED  BY <1>2, <1>3, <1>4 DEF Receiver

(* Reading, in a caller that calls or in one that is resumed.              *)
LEMMA ReadingRefines ==
    ASSUME IInv, ~died, NEW c \in Callers, RS!CanRead(c),
           \/ TakesFront(c) /\ suspended' = suspended \ {c}
           \/ ReportsEnd(c) /\ suspended' = suspended \ {c}
           \/ FindsNothing /\ c \notin suspended /\ suspended' = suspended \cup {c},
           UNCHANGED <<phase, handle, stopped, rxEc, seenUsns>>
    PROVE  RS!Next
<1>. USE DEF startVars, queueVars, socketVars, resultVars, StreamStatus, RS!Nothing, NoEc
<1>1. CASE TakesFront(c) /\ suspended' = suspended \ {c}
  <2>1. died \in BOOLEAN /\ NDEBUG \in BOOLEAN
    BY QueryAssumption DEF IInv, TypeOK
  <2>2. died' = (~NDEBUG /\ Head(responses) \notin WellFormed)
    BY <1>1, <2>1 DEF TakesFront
  <2>3. outcome' = [outcome EXCEPT ![c] = IF Head(responses) \in WellFormed
                                          THEN RS!Got ELSE RS!Bad]
    BY <1>1 DEF TakesFront, Got, BadAccess, RS!Got, RS!Bad
  <2>4. RS!Take(c)
    BY <1>1, <2>2, <2>3 DEF TakesFront, RS!Take
  <2>. QED  BY <2>4 DEF RS!Read, RS!Next
<1>2. CASE ReportsEnd(c) /\ suspended' = suspended \ {c}
  <2>1. RS!ReadEnd(c)
    BY <1>2 DEF ReportsEnd, RS!ReadEnd
  <2>. QED  BY <2>1 DEF RS!Read, RS!Next
<1>3. CASE FindsNothing /\ c \notin suspended /\ suspended' = suspended \cup {c}
  <2>1. RS!Block(c)
    BY <1>3 DEF FindsNothing, RS!Block
  <2>. QED  BY <2>1 DEF RS!Read, RS!Next
<1>. QED  BY <1>1, <1>2, <1>3

LEMMA GetResponseRefines ==
    ASSUME IInv, ~died, NEW c \in Callers, GetResponse(c)
    PROVE  RS!Next
<1>1. ~stopped /\ c \notin suspended
  BY DEF GetResponse, MayCall, IInv, DuringTheSearch
<1>2. RS!CanRead(c)
  BY DEF GetResponse, MayCall, RS!CanRead
<1>3. \/ TakesFront(c) /\ suspended' = suspended \ {c}
      \/ ReportsEnd(c) /\ suspended' = suspended \ {c}
      \/ FindsNothing /\ suspended' = suspended \cup {c}
  BY <1>1 DEF GetResponse, CV!Wait, cvVars
<1>. QED  BY <1>1, <1>2, <1>3, ReadingRefines DEF GetResponse, startVars

LEMMA CallerResumesRefines ==
    ASSUME IInv, ~died, NEW c \in Callers, CallerResumes(c)
    PROVE  RS!Next \/ UNCHANGED RS!vars
<1>1. PICK h \in posted :
          /\ h.waiter = c
          /\ \/ TakesFront(c) /\ CV!Resume(h)
             \/ ReportsEnd(c) /\ CV!Resume(h)
             \/ FindsNothing /\ CV!ResumeAndWait(h)
  BY DEF CallerResumes
<1>2. c \in suspended
  BY <1>1 DEF CV!Resume, CV!ResumeAndWait, IInv, OneResumptionPerCaller,
              CV!ExactlyOneResumption, CV!BoundHandlers
<1>3. RS!CanRead(c)
  BY <1>2 DEF RS!CanRead
<1>4. CASE FindsNothing /\ CV!ResumeAndWait(h)
  BY <1>4, InvisibleSteps DEF FindsNothing, CV!ResumeAndWait, CallerResumes, startVars,
                              queueVars, resultVars
<1>5. CASE (TakesFront(c) \/ ReportsEnd(c)) /\ CV!Resume(h)
  <2>1. suspended' = suspended \ {c}
    BY <1>1, <1>5 DEF CV!Resume
  <2>. QED  BY <1>3, <1>5, <2>1, ReadingRefines DEF CallerResumes, startVars
<1>. QED  BY <1>1, <1>4, <1>5

LEMMA ReleaseRefines ==
    ASSUME IInv, ~died, Stop \/ Overwrite
    PROVE  RS!Next
<1>1. RS!Release
  BY DEF Stop, Overwrite, RS!Release, StreamStatus, IInv, TypeOK,
         startVars, queueVars, socketVars, cvVars, resultVars
<1>. QED  BY <1>1 DEF RS!Next

LEMMA NextRefines == IInv /\ [Next]_vars => [RS!Next]_RS!vars
<1>. SUFFICES ASSUME IInv, [Next]_vars PROVE RS!Next \/ UNCHANGED RS!vars
  OBVIOUS
<1>1. CASE UNCHANGED vars
  <2>1. UNCHANGED <<phase, handle, stopped, rxEc, queueVars, suspended, outcome, died>>
    BY <1>1 DEF vars, startVars, cvVars, resultVars
  <2>. QED  BY <2>1, InvisibleSteps
<1>. QED  BY <1>1, StartRefines, EnvironmentRefines, TimerHandlerRefines, ReceiverRefines,
             GetResponseRefines, CallerResumesRefines, ReleaseRefines
          DEF Next, User

(* The query gives its users no more and no other behaviour than the       *)
(* stream: each response once, shared between callers, until it ends once, *)
(* for one reason, for everybody.                                          *)
THEOREM QueryIsAStream == Spec => ImplementsSafeStream
<1>1. Spec => []IInv
  BY SpecIInv
<1>. QED  BY <1>1, InitRefines, NextRefines, PTL DEF Spec, ImplementsSafeStream, RS!SafeSpec
=============================================================================
