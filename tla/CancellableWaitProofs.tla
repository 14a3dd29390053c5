------------------------ MODULE CancellableWaitProofs ------------------------
(***************************************************************************)
(* Safety of CancellableWait for any number of waiters, whichever of them  *)
(* have a cancel_t and in either build.                                    *)
(***************************************************************************)
EXTENDS CancellableWait, TLAPS

(* Each operation of the condition variable keeps its type invariant and   *)
(* leaves every suspended coroutine with exactly one resumption.           *)
CVInv == CVTypeOK /\ ExactlyOneResumption

(* What a posted handler says of the entry it was moved out of.            *)
LEMMA HandlerFields ==
    ASSUME NEW w \in Waiters, NEW e \in {Success, Aborted}
    PROVE  /\ Handler(w, e) \in Handlers
           /\ Handler(w, e).waiter = w
           /\ Handler(w, e).bound <=> w \in onNotify
<1>. DEFINE b == w \in onNotify
<1>1. b \in BOOLEAN
  OBVIOUS
<1>2. Handler(w, e) = [waiter |-> w, ec |-> e, bound |-> b]
  BY DEF Handler
<1>. HIDE DEF b
<1>3. Handler(w, e) \in Handlers /\ Handler(w, e).waiter = w /\ Handler(w, e).bound = b
  BY <1>1, <1>2 DEF Handlers
<1>. QED  BY <1>3 DEF b

(* Taking waiters ws that are linked out of the list, by notification or   *)
(* by cancellation, gives each of them the one handler it did not have.    *)
LEMMA UnlinkKeepsInv ==
    ASSUME CVInv,
           NEW ws \in SUBSET Waiters,
           NEW e \in {Success, Aborted},
           posted' = posted \cup {Handler(w, e) : w \in ws},
           onNotify' = onNotify \ ws,
           suspended' = suspended
    PROVE  CVInv'
<1>. DEFINE New == {Handler(w, e) : w \in ws}
<1>1. \A w \in ws : /\ Handler(w, e) \in Handlers
                    /\ Handler(w, e).waiter = w
                    /\ Handler(w, e).bound <=> w \in onNotify
  BY HandlerFields
<1>2. CVTypeOK'
  <2>1. New \subseteq Handlers
    BY <1>1
  <2>. QED  BY <2>1 DEF CVInv, CVTypeOK
<1>3. \A h \in BoundHandlers' : \/ h \in BoundHandlers
                                \/ h = Handler(h.waiter, e) /\ h.waiter \in ws \cap onNotify
  BY <1>1 DEF BoundHandlers
<1>4. \A h \in BoundHandlers : h \in BoundHandlers'
  BY DEF BoundHandlers
<1>5. \A w \in ws \cap onNotify : Handler(w, e) \in BoundHandlers'
  BY <1>1 DEF BoundHandlers
<1>. HIDE DEF New
<1>6. suspended' = onNotify' \cup {h.waiter : h \in BoundHandlers'}
  <2>1. ASSUME NEW w, w \in suspended'
        PROVE  w \in onNotify' \cup {h.waiter : h \in BoundHandlers'}
    <3>1. w \in onNotify \/ \E h \in BoundHandlers : h.waiter = w
      BY <2>1 DEF CVInv, ExactlyOneResumption
    <3>. QED  BY <3>1, <1>1, <1>4, <1>5
  <2>2. ASSUME NEW w, w \in onNotify' \cup {h.waiter : h \in BoundHandlers'}
        PROVE  w \in suspended'
    BY <2>2, <1>3 DEF CVInv, ExactlyOneResumption
  <2>. QED  BY <2>1, <2>2
<1>7. \A h \in BoundHandlers' : h.waiter \notin onNotify'
  BY <1>3 DEF CVInv, ExactlyOneResumption
<1>8. \A g, h \in BoundHandlers' : g.waiter = h.waiter => g = h
  BY <1>3 DEF CVInv, ExactlyOneResumption
<1>. QED  BY <1>2, <1>6, <1>7, <1>8 DEF CVInv, ExactlyOneResumption

LEMMA WaitKeepsInv ==
    ASSUME CVInv, NEW w \in Waiters, Wait(w)
    PROVE  CVInv'
<1>1. BoundHandlers' = BoundHandlers
  BY DEF Wait, BoundHandlers
<1>. QED  BY <1>1 DEF CVInv, CVTypeOK, ExactlyOneResumption, Wait

LEMMA NotifyKeepsInv ==
    ASSUME CVInv, NEW e \in {Success, Aborted}, Notify(e)
    PROVE  CVInv'
<1>1. onNotify \in SUBSET Waiters /\ onNotify' = onNotify \ onNotify
  BY DEF Notify, CVInv, CVTypeOK
<1>. QED  BY <1>1, UnlinkKeepsInv DEF Notify

LEMMA CancelWaitsKeepsInv ==
    ASSUME CVInv, NEW ws \in SUBSET Waiters, CancelWaits(ws)
    PROVE  CVInv'
BY UnlinkKeepsInv DEF CancelWaits

(* The handler that is run was the only resumption of its waiter.          *)
LEMMA ResumeKeepsInv ==
    ASSUME CVInv, NEW h, Resume(h)
    PROVE  CVInv'
<1>1. BoundHandlers' = BoundHandlers \ {h}
  BY DEF Resume, BoundHandlers
<1>2. h \in BoundHandlers
  BY DEF Resume, BoundHandlers
<1>3. \A g \in BoundHandlers' : g.waiter # h.waiter
  BY <1>1, <1>2 DEF CVInv, ExactlyOneResumption
<1>. QED  BY <1>1, <1>2, <1>3 DEF CVInv, CVTypeOK, ExactlyOneResumption, Resume

LEMMA ResumeAndWaitKeepsInv ==
    ASSUME CVInv, NEW h, ResumeAndWait(h)
    PROVE  CVInv'
<1>1. BoundHandlers' = BoundHandlers \ {h}
  BY DEF ResumeAndWait, BoundHandlers
<1>2. h \in BoundHandlers /\ h.waiter \in Waiters
  BY DEF ResumeAndWait, BoundHandlers, CVInv, CVTypeOK, Handlers
<1>3. \A g \in BoundHandlers' : g.waiter # h.waiter
  BY <1>1, <1>2 DEF CVInv, ExactlyOneResumption
<1>. QED  BY <1>1, <1>2, <1>3 DEF CVInv, CVTypeOK, ExactlyOneResumption, ResumeAndWait

-----------------------------------------------------------------------------

(* The type invariant is only inductive together with the invariant of the *)
(* condition variable: the lemmas on its operations assume both.           *)
IInv == TypeOK /\ ExactlyOneResumption

LEMMA InitIInv == Init => IInv
BY DEF Init, IInv, TypeOK, CVInit, CVTypeOK, ExactlyOneResumption, BoundHandlers, NoFault

(* Every operation of the program is one of the condition variable's, with *)
(* the connections and the fault left in their types.                      *)
LEMMA NextIInv == IInv /\ [Next]_vars => IInv'
<1>. SUFFICES ASSUME IInv, [Next]_vars PROVE IInv'
  OBVIOUS
<1>. USE DEF NoFault, Assertion, BadCall, DeadExecutor
<1>0. /\ CVInv
      /\ connections \subseteq Cancellable /\ Cancellable \subseteq Waiters
      /\ called \in BOOLEAN /\ alive \in BOOLEAN
      /\ fault \in {NoFault, Assertion, BadCall, DeadExecutor}
      /\ Success \in {Success, Aborted} /\ Aborted \in {Success, Aborted}
  BY CancellableAssumption DEF IInv, TypeOK, CVInv
<1>1. (/\ CVInv'
       /\ connections' \subseteq Cancellable
       /\ called' \in BOOLEAN /\ alive' \in BOOLEAN
       /\ fault' \in {NoFault, Assertion, BadCall, DeadExecutor}) => IInv'
  BY DEF IInv, TypeOK, CVInv
<1>2. ASSUME UNCHANGED cvVars PROVE CVInv'
  BY <1>0, <1>2 DEF cvVars, CVInv, CVTypeOK, ExactlyOneResumption, BoundHandlers
<1>3. ASSUME NEW w \in Waiters, StartWait(w) PROVE IInv'
  BY <1>0, <1>1, <1>3, WaitKeepsInv DEF StartWait, Connect
<1>4. CASE NotifyAll
  BY <1>0, <1>1, <1>4, NotifyKeepsInv DEF NotifyAll
<1>5. CASE Cancel
  BY <1>0, <1>1, <1>5, CancelWaitsKeepsInv DEF Cancel
<1>6. CASE LateCancel
  BY <1>0, <1>1, <1>6, <1>2, CancelWaitsKeepsInv DEF LateCancel
<1>7. CASE Destroy
  BY <1>0, <1>1, <1>7, NotifyKeepsInv DEF Destroy
<1>8. ASSUME NEW h \in posted, RunHandler(h) PROVE IInv'
  <2>1. CASE ReturnFromWait(h)
    BY <1>0, <1>1, <2>1, ResumeKeepsInv DEF ReturnFromWait
  <2>2. CASE WaitAgain(h)
    <3>1. connections' \subseteq Cancellable
      BY <1>0, <2>2 DEF WaitAgain, Connect
    <3>. QED  BY <1>0, <1>1, <2>2, <3>1, ResumeAndWaitKeepsInv DEF WaitAgain
  <2>3. CASE RunEmptyHandler(h)
    <3>1. BoundHandlers' = BoundHandlers
      BY <2>3 DEF RunEmptyHandler, BoundHandlers
    <3>2. CVInv'
      BY <1>0, <2>3, <3>1 DEF RunEmptyHandler, CVInv, CVTypeOK, ExactlyOneResumption
    <3>. QED  BY <1>0, <1>1, <2>3, <3>2 DEF RunEmptyHandler
  <2>. QED  BY <1>8, <2>1, <2>2, <2>3 DEF RunHandler
<1>9. CASE UNCHANGED vars
  BY <1>0, <1>1, <1>2, <1>9 DEF vars, cvVars
<1>. QED  BY <1>3, <1>4, <1>5, <1>6, <1>7, <1>8, <1>9 DEF Next

LEMMA SpecIInv == Spec => []IInv
<1>1. Init => IInv
  BY InitIInv
<1>2. IInv /\ [Next]_vars => IInv'
  BY NextIInv
<1>. QED  BY <1>1, <1>2, PTL DEF Spec

(* The variables stay in their types in every behaviour of waits,          *)
(* notifications, cancellations and destruction.                           *)
THEOREM Typing == Spec => []TypeOK
BY SpecIInv, PTL DEF IInv

(* A suspended coroutine has exactly one way to go on, however wait(),     *)
(* notify(), cancellation and the destructor interleave.                   *)
THEOREM OneResumption == Spec => []ExactlyOneResumption
BY SpecIInv, PTL DEF IInv

(* As long as no slot has been called, every handler that is posted comes  *)
(* from a linked entry and is not empty.                                   *)
PlainInv == ~called => fault = NoFault /\ \A h \in posted : h.bound

(* Nothing kills the program before a cancel_t is called, and so nothing   *)
(* when only wait(yield) is used, which is how ssdp.cpp uses the condition *)
(* variable.                                                               *)
THEOREM PlainWaitsAreSafe == Spec => []NoFaultWithoutCancel
<1>1. Init => PlainInv
  BY DEF Init, CVInit, PlainInv
<1>2. IInv /\ PlainInv /\ [Next]_vars => PlainInv'
  <2>. SUFFICES ASSUME IInv, PlainInv, [Next]_vars, ~called'
                PROVE  fault' = NoFault /\ \A h \in posted' : h.bound
    BY DEF PlainInv
  <2>1. \/ ~called
        \/ Cancel \/ LateCancel
    BY DEF Next, vars, StartWait, NotifyAll, Destroy, RunHandler, ReturnFromWait,
           WaitAgain, RunEmptyHandler
  <2>2. /\ ~called /\ fault = NoFault
        /\ \A h \in posted : h.bound
        /\ onNotify \subseteq Waiters
    BY <2>1 DEF Cancel, LateCancel, IInv, TypeOK, CVTypeOK, PlainInv
  <2>3. ASSUME NEW e \in {Success, Aborted}, Notify(e)
        PROVE  \A h \in posted' : h.bound
    BY <2>2, <2>3, HandlerFields DEF Notify
  <2>4. ASSUME NEW w \in Waiters, StartWait(w) PROVE fault' = NoFault /\ posted' = posted
    BY <2>2, <2>4 DEF StartWait, Wait
  <2>5. CASE NotifyAll
    BY <2>2, <2>3, <2>5 DEF NotifyAll
  <2>6. CASE Cancel \/ LateCancel
    BY <2>6 DEF Cancel, LateCancel
  <2>7. CASE Destroy
    BY <2>2, <2>3, <2>7 DEF Destroy
  <2>8. ASSUME NEW h \in posted, RunHandler(h)
        PROVE  fault' = NoFault /\ posted' \subseteq posted
    BY <2>2, <2>8 DEF RunHandler, ReturnFromWait, WaitAgain, RunEmptyHandler,
                      Resume, ResumeAndWait
  <2>9. CASE UNCHANGED vars
    BY <2>2, <2>9 DEF vars
  <2>. QED  BY <2>2, <2>4, <2>5, <2>6, <2>7, <2>8, <2>9 DEF Next
<1>3. PlainInv => NoFaultWithoutCancel
  BY DEF PlainInv, NoFaultWithoutCancel
<1>. QED  BY <1>1, <1>2, <1>3, SpecIInv, PTL DEF Spec
=============================================================================
