--------------------------- MODULE CancellableWait ---------------------------
(***************************************************************************)
(* The life of a condition variable whose waits may be connected to a      *)
(* cancel_t: wait(cancel, yield), wait(yield), notify, the destructor      *)
(* (src/src/condition_variable.h) and the cancel_t's call operator         *)
(* (src/include/upnp/detail/cancel.h).                                     *)
(*                                                                         *)
(* The slot that wait() connects stays connected until wait() returns in   *)
(* the coroutine, that is also after notify() has unlinked the entry.      *)
(***************************************************************************)
EXTENDS ConditionVariable

CONSTANTS
    Cancellable,  \* the waiters that pass a cancel_t to wait()
    NDEBUG        \* TRUE in a build where assert() is compiled out

ASSUME CancellableAssumption ==
    /\ Cancellable \subseteq Waiters
    /\ NDEBUG \in BOOLEAN

VARIABLES
    connections,  \* _connections of the cancel_t the cancellable waiters share
    called,       \* _call_count of that cancel_t is not 0
    alive,        \* the condition variable has not been destroyed
    fault         \* how the program has died, if it has

vars == <<suspended, onNotify, posted, connections, called, alive, fault>>

NoFault      == "none"
Assertion    == "assertion"          \* assert(entry.is_linked()) aborted
BadCall      == "bad_function_call"  \* an empty std::function was called
DeadExecutor == "dead_executor"      \* _exec of a destroyed object was used

Init ==
    /\ CVInit
    /\ connections = {}
    /\ called = FALSE
    /\ alive = TRUE
    /\ fault = NoFault

ConnectAlways(w) == connections' = connections \cup {w}  \* mutated Connect

(* The slot's Connection of a waiter that starts to wait.  wait(yield)     *)
(* connects to a cancel_t of its own, which nobody can call.               *)
Connect(w) ==
    connections' = IF w \in Cancellable THEN connections \cup {w}
                                        ELSE connections

StartWait(w) ==
    /\ alive
    /\ Wait(w)
    /\ Connect(w)
    /\ UNCHANGED <<called, alive, fault>>

NotifyAll ==
    /\ alive
    /\ Notify(Success)
    /\ UNCHANGED <<connections, called, alive, fault>>

DestroySilently ==  \* mutated Destroy
    /\ alive
    /\ alive' = FALSE
    /\ UNCHANGED <<cvVars, connections, called, fault>>

(* ~ConditionVariable()                                                    *)
Destroy ==
    /\ alive
    /\ Notify(Aborted)
    /\ alive' = FALSE
    /\ UNCHANGED <<connections, called, fault>>

(* cancel_t::operator(): the connected slots are taken off the signal and  *)
(* each is called once.                                                    *)
Cancel ==
    /\ connections \subseteq onNotify
    /\ connections' = {}
    /\ called' = TRUE
    /\ CancelWaits(connections)
    /\ UNCHANGED <<alive, fault>>

(* The same when a connected waiter has been notified and has not resumed  *)
(* yet: the slot's assertion aborts or, where it is compiled out, the      *)
(* handler that notify() moved away is moved again and an empty function   *)
(* posted; on a destroyed condition variable _exec itself is gone.         *)
LateCancel ==
    /\ ~(connections \subseteq onNotify)
    /\ connections' = {}
    /\ called' = TRUE
    /\ IF NDEBUG /\ alive
       THEN CancelWaits(connections) /\ UNCHANGED fault
       ELSE /\ fault' = IF NDEBUG THEN DeadExecutor ELSE Assertion
            /\ UNCHANGED cvVars
    /\ UNCHANGED alive

(* wait() returns: the Connection leaves the stack with the WaitEntry.     *)
ReturnFromWait(h) ==
    /\ Resume(h)
    /\ connections' = connections \ {h.waiter}
    /\ UNCHANGED <<called, alive, fault>>

WaitAgain(h) ==
    /\ alive
    /\ ResumeAndWait(h)
    /\ Connect(h.waiter)
    /\ UNCHANGED <<called, alive, fault>>

(* The executor runs a posted handler that is an empty std::function.      *)
RunEmptyHandler(h) ==
    /\ h \in posted
    /\ ~h.bound
    /\ posted' = posted \ {h}
    /\ fault' = BadCall
    /\ UNCHANGED <<suspended, onNotify, connections, called, alive>>

RunHandler(h) == ReturnFromWait(h) \/ WaitAgain(h) \/ RunEmptyHandler(h)

(* The program is over: it has died, or nobody waits and nothing is queued *)
(* on a condition variable that is gone.                                   *)
Finished ==
    \/ fault # NoFault
    \/ ~alive /\ suspended = {} /\ posted = {}

Next ==
    \/ /\ fault = NoFault
       /\ \/ \E w \in Waiters : StartWait(w)
          \/ NotifyAll
          \/ Cancel
          \/ LateCancel
          \/ Destroy
          \/ \E h \in posted : RunHandler(h)
    \/ Finished /\ UNCHANGED vars

(* The executor runs every handler it was given.  Nobody has to notify,    *)
(* cancel or wait.                                                         *)
Fairness ==
    \A w \in Waiters :
        WF_vars(fault = NoFault /\ \E h \in posted : h.waiter = w /\ RunHandler(h))

Spec == Init /\ [][Next]_vars /\ Fairness

-----------------------------------------------------------------------------

TypeOK ==
    /\ CVTypeOK
    /\ connections \subseteq Cancellable
    /\ called \in BOOLEAN /\ alive \in BOOLEAN
    /\ fault \in {NoFault, Assertion, BadCall, DeadExecutor}

(* Until somebody calls a cancel_t (ssdp.cpp only uses the overload        *)
(* wait(yield), whose cancel_t nobody can call) neither the assertion nor  *)
(* an empty handler can kill the program, whatever the order of waits,     *)
(* notifications and destruction.                                          *)
NoFaultWithoutCancel == ~called => fault = NoFault

(* The slot asserts entry.is_linked() (condition_variable.h:83).           *)
SlotAssertionHolds == fault # Assertion

(* A waiter whose entry has been taken out of the list comes back from     *)
(* wait(), unless the program dies.                                        *)
NotifiedWaiterReturns ==
    \A w \in Waiters :
        (w \in suspended \ onNotify) ~> (w \notin suspended \/ w \in onNotify \/ fault # NoFault)

(* Nobody stays suspended on a condition variable that has been destroyed. *)
DestructionReleasesWaiters == ~alive ~> (suspended = {} \/ fault # NoFault)
=============================================================================
