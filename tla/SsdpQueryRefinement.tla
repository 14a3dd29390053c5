------------------------- MODULE SsdpQueryRefinement -------------------------
(***************************************************************************)
(* SsdpQuery implements ResponseStream.  The receiver coroutine, timer,    *)
(* socket and condition variable disappear: the stream has ended when      *)
(* _rx_ec is set, even while the receiver has not noticed yet, and a       *)
(* caller is blocked while it is inside wait(), woken or not.              *)
(***************************************************************************)
EXTENDS SsdpQuery

StreamStatus == CASE phase \in {"bind", "search"} -> "opening"
                  [] phase = "running"            -> "open"
                  [] phase = "failed"             -> "refused"

RS == INSTANCE ResponseStream WITH
        Readers    <- Callers,
        Items      <- Datagrams,
        Good       <- WellFormed,
        Names      <- Usns,
        NameOf     <- UsnOf,
        EndReasons <- ErrorCodes,
        StopReason <- Aborted,
        TimeReason <- TimedOut,
        Fatal      <- ~NDEBUG,
        status     <- StreamStatus,
        owned      <- handle,
        reason     <- rxEc,
        queue      <- responses,
        named      <- seenUsns,
        blocked    <- suspended,
        dead       <- died

(* Every step of the query is a step of the stream or invisible in it, and *)
(* the stream's progress follows from the query's fairness: in particular  *)
(* ending is atomic and final although timer, stop() and a failed receive  *)
(* race for it, and every blocked reader is served (ssdp.cpp:97-154).      *)
ImplementsStream == RS!Spec

(* The safety part, which is also proved.                                  *)
ImplementsSafeStream == RS!SafeSpec
=============================================================================
