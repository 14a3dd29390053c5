-------------------------- MODULE ConditionVariable --------------------------
(***************************************************************************)
(* upnp::ConditionVariable (src/src/condition_variable.h).                 *)
(*                                                                         *)
(* A coroutine that calls wait() puts a WaitEntry, which lives on its own  *)
(* stack and holds its completion handler, in the intrusive list           *)
(* _on_notify and suspends.  notify() and the slot of a cancel_t both take *)
(* the entry out of the list, move the handler out of it and post the      *)
(* handler on the executor.  The coroutine goes on only when the executor  *)
(* runs that post: between the post and the resumption the entry is        *)
(* unlinked and its handler is empty.                                      *)
(*                                                                         *)
(* The executor runs posted handlers one at a time (an io_context run by   *)
(* one thread) and in any order: net::post on a generic any_io_executor    *)
(* promises no more.  The order of the list is therefore not observable    *)
(* and the list is a set.                                                  *)
(*                                                                         *)
(* This module has the operations as actions for other modules to conjoin; *)
(* CancellableWait and SsdpQuery use it.                                   *)
(***************************************************************************)
CONSTANT Waiters  \* coroutines that wait on this condition variable

VARIABLES
    suspended,    \* waiters whose coroutine is suspended inside wait()
    onNotify,     \* _on_notify: waiters whose WaitEntry is linked
    posted        \* handlers posted on the executor and not run yet

cvVars == <<suspended, onNotify, posted>>

Success == "success"
Aborted == "operation_aborted"

(* A posted completion.  bound is FALSE when the std::function that was    *)
(* moved into the post had been moved from before: a linked entry still    *)
(* has its handler, an unlinked one does not.                              *)
Handlers == [waiter: Waiters, ec: {Success, Aborted}, bound: BOOLEAN]

Handler(w, e) == [waiter |-> w, ec |-> e, bound |-> w \in onNotify]

CVInit ==
    /\ suspended = {}
    /\ onNotify = {}
    /\ posted = {}

(* wait() up to the suspension.                                            *)
Wait(w) ==
    /\ w \notin suspended
    /\ suspended' = suspended \cup {w}
    /\ onNotify' = onNotify \cup {w}
    /\ UNCHANGED posted

(* Mutated Notify: without the post, without the unlinking, and for those  *)
(* too that were notified before and have not resumed.                     *)
NotifyPostsNothing(e) == onNotify' = {} /\ UNCHANGED <<suspended, posted>>

NotifyKeepsLinks(e) ==
    /\ posted' = posted \cup {Handler(w, e) : w \in onNotify}
    /\ UNCHANGED <<suspended, onNotify>>

NotifyAgain(e) ==
    /\ posted' = posted \cup {Handler(w, e) : w \in suspended}
    /\ onNotify' = {}
    /\ UNCHANGED suspended

(* notify(ec): every linked entry is unlinked and its handler posted.      *)
Notify(e) ==
    /\ posted' = posted \cup {Handler(w, e) : w \in onNotify}
    /\ onNotify' = {}
    /\ UNCHANGED suspended

CancelKeepsLinks(ws) ==  \* mutated CancelWaits
    /\ posted' = posted \cup {Handler(w, Aborted) : w \in ws}
    /\ UNCHANGED <<suspended, onNotify>>

(* The slots of the waiters ws unlink their entries and post the handlers  *)
(* they find there.                                                        *)
CancelWaits(ws) ==
    /\ posted' = posted \cup {Handler(w, Aborted) : w \in ws}
    /\ onNotify' = onNotify \ ws
    /\ UNCHANGED suspended

(* The executor runs a posted handler and wait() returns in the coroutine. *)
Resume(h) ==
    /\ h \in posted
    /\ h.bound
    /\ posted' = posted \ {h}
    /\ suspended' = suspended \ {h.waiter}
    /\ UNCHANGED onNotify

(* The same, in a coroutine that finds its condition still false and calls *)
(* wait() again before it gives the executor back.                         *)
ResumeAndWait(h) ==
    /\ h \in posted
    /\ h.bound
    /\ posted' = posted \ {h}
    /\ onNotify' = onNotify \cup {h.waiter}
    /\ UNCHANGED suspended

-----------------------------------------------------------------------------

CVTypeOK ==
    /\ suspended \subseteq Waiters
    /\ onNotify \subseteq Waiters
    /\ posted \subseteq Handlers

BoundHandlers == {h \in posted : h.bound}

(* A suspended coroutine has exactly one way to go on, and a coroutine     *)
(* that is not suspended has none: it is linked in _on_notify or one       *)
(* non-empty handler for it is posted, never both, never two.  Resuming a  *)
(* Boost coroutine twice, or never, is what notify() racing the cancel     *)
(* slot could do wrong (condition_variable.h:62-90).                       *)
ExactlyOneResumption ==
    /\ suspended = onNotify \cup {h.waiter : h \in BoundHandlers}
    /\ \A h \in BoundHandlers : h.waiter \notin onNotify
    /\ \A g, h \in BoundHandlers : g.waiter = h.waiter => g = h
=============================================================================
