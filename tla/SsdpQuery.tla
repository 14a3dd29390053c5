------------------------------ MODULE SsdpQuery ------------------------------
(***************************************************************************)
(* One SSDP search: upnp::ssdp::query and its shared state_t               *)
(* (src/src/ssdp.cpp, src/include/upnp/ssdp.h).                            *)
(*                                                                         *)
(* query::start binds a UDP socket, sends one M-SEARCH datagram for each   *)
(* search target and then spawns the receiver coroutine, which arms a      *)
(* timer and receives until _rx_ec is set.  Callers take responses with    *)
(* get_response, waiting on the condition variable _cv; stop() and the     *)
(* destructor end the search early.                                        *)
(*                                                                         *)
(* Everything runs on one executor that runs one handler at a time, so a   *)
(* handler up to its next suspension is one action.  Handlers that are     *)
(* ready at the same time run in any order: Asio orders completions of     *)
(* different I/O objects in no documented way.                             *)
(***************************************************************************)
EXTENDS Naturals, Sequences

CONSTANTS
    Callers,       \* coroutines that call query::get_response
    Datagrams,     \* the different datagrams that may arrive
    WellFormed,    \* those that response::parse accepts
    Usns,          \* unique service names
    UsnOf,         \* the USN of each well-formed datagram
    Targets,       \* the search targets, in the order they are searched for
    MaxDatagrams,  \* bound: datagrams received while the search is open
    NDEBUG         \* TRUE: result.value() throws; FALSE: it terminates

ASSUME QueryAssumption ==
    /\ WellFormed \subseteq Datagrams
    /\ UsnOf \in [WellFormed -> Usns]
    /\ Targets \in Seq(STRING)
    /\ Targets # <<>>
    /\ MaxDatagrams \in Nat
    /\ NDEBUG \in BOOLEAN

NoEc       == "none"
TimedOut   == "timed_out"
Aborted    == "operation_aborted"
RxError    == "rx_error"           \* any other error of the UDP receive
BadAccess  == "bad_result_access"  \* value() of a result that holds an error
Got        == "response"
ErrorCodes == {TimedOut, Aborted, RxError}

ASSUME DatagramsAreNotErrors == Datagrams \cap (ErrorCodes \cup {NoEc}) = {}

VARIABLES
    phase,       \* progress of query::start
    wire,        \* M-SEARCH datagrams sent: the targets named in each
    handle,      \* query::_state # nullptr
    stopped,     \* _stopped
    rxEc,        \* _rx_ec
    responses,   \* _responses
    seenUsns,    \* _already_seen_usns
    socketOpen,  \* _socket is open
    timer,       \* _timer's wait: "unset", "armed", "queued", "done"
    receiver,    \* receiver coroutine: "unborn", "receiving", "ready", "done"
    rx,          \* what the completed async_receive_from delivers
    received,    \* number of datagrams received (for MaxDatagrams)
    suspended, onNotify, posted,  \* callers in _cv.wait, see ConditionVariable
    outcome,     \* what each caller's last get_response returned
    returned,    \* history: the queue elements popped for callers
    died         \* std::terminate was called

startVars  == <<phase, wire>>
socketVars == <<socketOpen, receiver, rx>>
cvVars     == <<suspended, onNotify, posted>>
queueVars  == <<responses, seenUsns>>
resultVars == <<outcome, returned, died>>
vars == <<startVars, handle, stopped, rxEc, queueVars, socketVars, timer,
          received, cvVars, resultVars>>

(* get_response waits through wait(yield), whose cancel_t nobody calls,    *)
(* and holds the state alive: _cv is not destroyed under a waiter.         *)
CV == INSTANCE ConditionVariable WITH Waiters <- Callers

-----------------------------------------------------------------------------

Init ==
    /\ phase = "bind"
    /\ wire = <<>>
    /\ handle = FALSE
    /\ stopped = FALSE
    /\ rxEc = NoEc
    /\ responses = <<>>
    /\ seenUsns = {}
    /\ socketOpen = TRUE
    /\ timer = "unset"
    /\ receiver = "unborn"
    /\ rx = NoEc
    /\ received = 0
    /\ suspended = {}
    /\ onNotify = {}
    /\ posted = {}
    /\ outcome = [c \in Callers |-> NoEc]
    /\ returned = <<>>
    /\ died = FALSE

(* start() up to the first async_send_to.                                  *)
Bind ==
    /\ phase = "bind"
    /\ phase' = "search"
    /\ UNCHANGED <<wire, handle, stopped, rxEc, queueVars, socketVars, timer,
                   received, cvVars, resultVars>>

(* The next send completes.  The stringstream is never cleared, so the     *)
(* n-th datagram holds the requests for the first n targets.  After the    *)
(* last one the receiver is spawned; it runs at once, arms the timer and   *)
(* starts to receive, and query::start hands the query out.                *)
SearchSent ==
    /\ phase = "search"
    /\ LET n == Len(wire) + 1 IN
       /\ wire' = Append(wire, SubSeq(Targets, 1, n))
       /\ IF n < Len(Targets)
          THEN UNCHANGED <<phase, handle, timer, receiver>>
          ELSE /\ phase' = "running"
               /\ handle' = TRUE
               /\ timer' = "armed"
               /\ receiver' = "receiving"
    /\ UNCHANGED <<stopped, rxEc, queueVars, socketOpen, rx, received, cvVars,
                   resultVars>>

(* bind() or a send reports an error: start() returns it and the state,    *)
(* with its socket, is destroyed.                                          *)
StartFails ==
    /\ phase \in {"bind", "search"}
    /\ phase' = "failed"
    /\ socketOpen' = FALSE
    /\ UNCHANGED <<wire, handle, stopped, rxEc, queueVars, receiver, rx, timer,
                   received, cvVars, resultVars>>

-----------------------------------------------------------------------------
(* The environment.                                                        *)

Receives(x) ==
    /\ receiver = "receiving"
    /\ receiver' = "ready"
    /\ rx' = x
    /\ UNCHANGED <<startVars, handle, stopped, rxEc, queueVars, socketOpen,
                   timer, cvVars, resultVars>>

(* A datagram reaches the pending receive.  Datagrams may be lost,         *)
(* repeated and reordered on the way, or have waited in the kernel.        *)
DatagramArrives ==
    /\ received < MaxDatagrams
    /\ received' = received + 1
    /\ \E d \in Datagrams : Receives(d)

ReceiveFails == Receives(RxError) /\ UNCHANGED received

TimerExpires ==
    /\ timer = "armed"
    /\ timer' = "queued"
    /\ UNCHANGED <<startVars, handle, stopped, rxEc, queueVars, socketVars,
                   received, cvVars, resultVars>>

-----------------------------------------------------------------------------
(* Handlers.                                                               *)

CloseNothing == UNCHANGED socketVars  \* mutated CloseSocket

(* _socket.close(): a receive that is still pending completes with         *)
(* operation_aborted; one that has completed keeps its result.             *)
CloseSocket ==
    /\ socketOpen' = FALSE
    /\ IF receiver = "receiving"
       THEN receiver' = "ready" /\ rx' = Aborted
       ELSE UNCHANGED <<receiver, rx>>

TimeOut == rxEc' = TimedOut /\ CloseSocket

(* The timer's handler.  It ignores its error code: a cancelled timer runs *)
(* the same code as an expired one.                                        *)
TimerHandler ==
    /\ timer = "queued"
    /\ timer' = "done"
    /\ IF rxEc # NoEc THEN UNCHANGED <<rxEc, socketVars>> ELSE TimeOut
    /\ UNCHANGED <<startVars, handle, stopped, queueVars, received, cvVars,
                   resultVars>>

(* Mutated forms of RxEcAfterReceive: without if (_stopped) and without    *)
(* if (ec).                                                                *)
RxEcIgnoringStop ==
    IF rxEc # NoEc THEN rxEc ELSE IF rx \in ErrorCodes THEN rx ELSE NoEc

RxEcUnchecked ==
    IF rxEc # NoEc THEN rxEc ELSE IF stopped THEN Aborted ELSE rx

(* _rx_ec as the receiver leaves it when its receive completes.            *)
RxEcAfterReceive ==
    IF rxEc # NoEc THEN rxEc
    ELSE IF stopped THEN Aborted
    ELSE IF rx \in ErrorCodes THEN rx
    ELSE NoEc

(* Mutated IsDuplicate: only what nobody has taken yet counts as seen.     *)
IsStillQueued(d) ==
    /\ d \in WellFormed
    /\ \E i \in 1 .. Len(responses) :
          responses[i] \in WellFormed /\ UsnOf[responses[i]] = UsnOf[d]

IsDuplicate(d) == d \in WellFormed /\ UsnOf[d] \in seenUsns

WakesNobody == UNCHANGED cvVars  \* mutated WakesAll

(* _cv.notify()                                                            *)
WakesAll == CV!Notify(CV!Success)

(* The receiver's loop from the completed receive to the next suspension:  *)
(* it leaves the loop, or drops a response it has already seen, or queues  *)
(* the parsed response or the parse error and notifies.                    *)
ReceiverEnds ==
    /\ receiver = "ready"
    /\ RxEcAfterReceive # NoEc
    /\ rxEc' = RxEcAfterReceive
    /\ receiver' = "done"
    /\ rx' = NoEc
    /\ WakesAll
    /\ UNCHANGED <<startVars, handle, stopped, queueVars, socketOpen, timer,
                   received, resultVars>>

ReceiverDropsDuplicate ==
    /\ receiver = "ready"
    /\ RxEcAfterReceive = NoEc
    /\ IsDuplicate(rx)
    /\ receiver' = "receiving"
    /\ rx' = NoEc
    /\ UNCHANGED <<startVars, handle, stopped, rxEc, queueVars, socketOpen, timer,
                   received, cvVars, resultVars>>

ReceiverQueues ==
    /\ receiver = "ready"
    /\ RxEcAfterReceive = NoEc
    /\ ~IsDuplicate(rx)
    /\ seenUsns' = IF rx \in WellFormed THEN seenUsns \cup {UsnOf[rx]}
                                        ELSE seenUsns
    /\ responses' = Append(responses, rx)
    /\ receiver' = "receiving"
    /\ rx' = NoEc
    /\ WakesAll
    /\ UNCHANGED <<startVars, handle, stopped, rxEc, socketOpen, timer, received,
                   resultVars>>

-----------------------------------------------------------------------------
(* Callers.                                                                *)

(* Mutated TakesFront: returns the newest response and pops the oldest.    *)
TakesBack(c) ==
    /\ responses # <<>>
    /\ responses' = Tail(responses)
    /\ returned' = Append(returned, responses[Len(responses)])
    /\ outcome' = [outcome EXCEPT ![c] = Got]
    /\ UNCHANGED died

(* The three ways out of get_response's loop when it looks at the queue.   *)
(* value() is called on whatever was queued, a parse error too.            *)
TakesFront(c) ==
    /\ responses # <<>>
    /\ responses' = Tail(responses)
    /\ returned' = Append(returned, Head(responses))
    /\ IF Head(responses) \in WellFormed
       THEN /\ outcome' = [outcome EXCEPT ![c] = Got]
            /\ UNCHANGED died
       ELSE /\ outcome' = [outcome EXCEPT ![c] = BadAccess]
            /\ died' = ~NDEBUG

ReportsEndFirst(c) ==  \* mutated ReportsEnd
    /\ rxEc # NoEc
    /\ outcome' = [outcome EXCEPT ![c] = rxEc]
    /\ UNCHANGED <<responses, returned, died>>

ReportsEnd(c) ==
    /\ responses = <<>>
    /\ rxEc # NoEc
    /\ outcome' = [outcome EXCEPT ![c] = rxEc]
    /\ UNCHANGED <<responses, returned, died>>

FindsNothing ==
    /\ responses = <<>>
    /\ rxEc = NoEc
    /\ UNCHANGED <<responses, resultVars>>

(* A caller may call as long as it has not been given an error_code; a     *)
(* null _state may not be called through.                                  *)
MayCall(c) ==
    /\ handle
    /\ c \notin suspended
    /\ outcome[c] \notin ErrorCodes

GetResponse(c) ==
    /\ MayCall(c)
    /\ IF stopped
       THEN /\ outcome' = [outcome EXCEPT ![c] = Aborted]
            /\ UNCHANGED <<responses, returned, died, cvVars>>
       ELSE \/ TakesFront(c) /\ UNCHANGED cvVars
            \/ ReportsEnd(c) /\ UNCHANGED cvVars
            \/ FindsNothing /\ CV!Wait(c)
    /\ UNCHANGED <<startVars, handle, stopped, rxEc, seenUsns, socketVars, timer,
                   received>>

(* The executor resumes a caller that was notified.                        *)
CallerResumes(c) ==
    /\ \E h \in posted :
          /\ h.waiter = c
          /\ \/ TakesFront(c) /\ CV!Resume(h)
             \/ ReportsEnd(c) /\ CV!Resume(h)
             \/ FindsNothing /\ CV!ResumeAndWait(h)
    /\ UNCHANGED <<startVars, handle, stopped, rxEc, seenUsns, socketVars, timer,
                   received>>

(* query::stop(), also run by the destructor.                              *)
Stop ==
    /\ handle
    /\ handle' = FALSE
    /\ stopped' = TRUE
    /\ CloseSocket
    /\ timer' = IF timer = "armed" THEN "queued" ELSE timer
    /\ UNCHANGED <<startVars, rxEc, queueVars, received, cvVars, resultVars>>

(* The defaulted move assignment drops _state without stopping it.         *)
Overwrite ==
    /\ handle
    /\ handle' = FALSE
    /\ UNCHANGED <<startVars, stopped, rxEc, queueVars, socketVars, timer,
                   received, cvVars, resultVars>>

-----------------------------------------------------------------------------

Start       == Bind \/ SearchSent \/ StartFails
Environment == DatagramArrives \/ ReceiveFails \/ TimerExpires
Receiver    == ReceiverEnds \/ ReceiverDropsDuplicate \/ ReceiverQueues
User        == Stop \/ Overwrite \/ \E c \in Callers : GetResponse(c)

(* Nothing is left to happen: the program has died, start() failed, or the *)
(* receiver and the timer are done and nobody is inside get_response.      *)
Quiet ==
    \/ died
    \/ phase = "failed"
    \/ receiver = "done" /\ timer = "done" /\ suspended = {}

Next ==
    \/ /\ ~died
       /\ \/ Start
          \/ Environment
          \/ Receiver
          \/ TimerHandler
          \/ User
          \/ \E c \in Callers : CallerResumes(c)
    \/ Quiet /\ UNCHANGED vars

(* Sends complete, the clock runs, and the executor runs ready handlers.   *)
(* Datagrams need not arrive, and no user has to call or stop.             *)
Fairness ==
    /\ WF_vars(~died /\ Start)
    /\ WF_vars(~died /\ TimerExpires)
    /\ WF_vars(~died /\ TimerHandler)
    /\ WF_vars(~died /\ Receiver)
    /\ \A c \in Callers : WF_vars(~died /\ CallerResumes(c))

Spec == Init /\ [][Next]_vars /\ Fairness

-----------------------------------------------------------------------------

TypeOK ==
    /\ phase \in {"bind", "search", "running", "failed"}
    /\ wire \in Seq(Seq(STRING))
    /\ handle \in BOOLEAN
    /\ stopped \in BOOLEAN
    /\ rxEc \in ErrorCodes \cup {NoEc}
    /\ responses \in Seq(Datagrams)
    /\ seenUsns \subseteq Usns
    /\ socketOpen \in BOOLEAN
    /\ timer \in {"unset", "armed", "queued", "done"}
    /\ receiver \in {"unborn", "receiving", "ready", "done"}
    /\ rx \in Datagrams \cup ErrorCodes \cup {NoEc}
    /\ received \in 0 .. MaxDatagrams
    /\ suspended \subseteq Callers
    /\ onNotify \subseteq Callers
    /\ posted \subseteq CV!Handlers
    /\ outcome \in [Callers -> ErrorCodes \cup {NoEc, Got, BadAccess}]
    /\ returned \in Seq(Datagrams)
    /\ died \in BOOLEAN

(* Everything the receiver has queued so far, in order: what callers have  *)
(* popped, then what is still in _responses.                               *)
Stream == returned \o responses

(* "Don't add duplicates" (ssdp.cpp:122): over the whole life of a query   *)
(* no two queued responses carry the same USN, however often the device    *)
(* answers and whoever has taken the first answer away meanwhile.          *)
UniqueUsns ==
    \A i, j \in 1 .. Len(Stream) :
        /\ Stream[i] \in WellFormed
        /\ Stream[j] \in WellFormed
        /\ UsnOf[Stream[i]] = UsnOf[Stream[j]]
        => i = j

(* Queueing only appends and taking only moves the front: no interleaving  *)
(* of the receiver with several callers loses, repeats or reorders a       *)
(* queued response (ssdp.cpp:125, 151-152).                                *)
StreamOnlyGrows ==
    [][Stream' = Stream \/ \E d \in Datagrams : Stream' = Append(Stream, d)]_vars

(* An error_code ends the stream for everybody: once one caller has been   *)
(* given one, no response is queued and none will be, so none that was     *)
(* received before the end is lost to a caller that left (ssdp.cpp:145).   *)
EndIsFinal ==
    (\E c \in Callers : outcome[c] \in ErrorCodes) => responses = <<>>

(* _rx_ec is written once.  The timer, stop() and a failed receive race to *)
(* end the search; the first one's reason stays and all callers get it.    *)
EndReasonIsStable == [][rxEc # NoEc => rxEc' = rxEc]_vars

(* The timer's handler closes the socket, which makes the receive fail     *)
(* with operation_aborted too; callers are told operation_aborted only if  *)
(* somebody stopped the query.                                             *)
AbortedOnlyIfStopped ==
    \A c \in Callers : outcome[c] = Aborted => stopped

(* No receive is ever started on, or left pending on, a closed socket: it  *)
(* would fail with an error of its own, and that error, not the timeout or *)
(* the stop, would become the reason that callers are given.               *)
ReceivesOnOpenSocket == receiver = "receiving" => socketOpen

(* No lost wakeup: while a caller is linked in _cv there is nothing for it *)
(* to take, and something that leads to a notification is still to come: a *)
(* completed receive, or a pending one that the timer is going to end.     *)
WaitersWillBeWoken ==
    onNotify # {} =>
        /\ responses = <<>>
        /\ \/ receiver = "ready"
           \/ receiver = "receiving" /\ timer \in {"armed", "queued"}

(* A caller inside get_response has exactly one way to be resumed.         *)
OneResumptionPerCaller == CV!ExactlyOneResumption

(* get_response returns, whatever arrives and whoever stops or overwrites  *)
(* the query meanwhile: at the latest when the search times out.           *)
CallersReturn ==
    \A c \in Callers : (c \in suspended) ~> (c \notin suspended \/ died)

(* The receiver coroutine and the timer's handler, which keep the state    *)
(* alive, both finish, also for a query that nobody stops.                 *)
SearchEnds ==
    (phase = "running") ~> (died \/ (receiver = "done" /\ timer = "done"))

(* "get_response may continue working after reporting `parse` error"       *)
(* (ssdp.h:31): a response that cannot be parsed is reported, it does not  *)
(* make the call itself fail.                                              *)
ParseErrorsAreReported == \A c \in Callers : outcome[c] # BadAccess

(* The format of an M-SEARCH request (ssdp.cpp:77): one request, for one   *)
(* search target, to a datagram.                                           *)
OneSearchPerDatagram == \A i \in 1 .. Len(wire) : Len(wire[i]) = 1
=============================================================================
