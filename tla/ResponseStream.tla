--------------------------- MODULE ResponseStream ---------------------------
(***************************************************************************)
(* What an SSDP query promises to the code that uses it (ssdp.h:74-82 and  *)
(* the loop of igd::discover, igd.cpp:310-325): a stream of responses,     *)
(* each device service named once, that readers share, that ends once, for *)
(* one reason, and for every reader only when it has been drained.         *)
(*                                                                         *)
(* Nothing is said of sockets, timers, coroutines or the condition         *)
(* variable: SsdpQuery implements this module (SsdpQueryRefinement).       *)
(***************************************************************************)
EXTENDS Sequences

CONSTANTS
    Readers,      \* coroutines that read the stream
    Items,        \* what can be put into the stream
    Good,         \* the items that are responses; the others are parse errors
    Names,        \* unique service names
    NameOf,       \* the name of each response
    EndReasons,   \* error codes that may end the stream
    StopReason,   \* the one that tells that the query was stopped
    TimeReason,   \* the one that tells that the time for the search is over
    Fatal         \* reading a parse error ends the program

Nothing == "none"              \* neither a result nor an end
Got     == "response"
Bad     == "bad_result_access"

VARIABLES
    status,   \* "opening", "open", "refused": what became of query::start
    owned,    \* a reader may still start to read
    stopped,  \* the owner has asked for the end
    reason,   \* why the stream has ended, or Nothing
    queue,    \* what is to be read
    named,    \* names that have been put into the stream
    blocked,  \* readers waiting for something to read
    outcome,  \* each reader's last result
    dead      \* the program is over

vars == <<status, owned, stopped, reason, queue, named, blocked, outcome, dead>>

Init ==
    /\ status = "opening"
    /\ owned = FALSE
    /\ stopped = FALSE
    /\ reason = Nothing
    /\ queue = <<>>
    /\ named = {}
    /\ blocked = {}
    /\ outcome = [r \in Readers |-> Nothing]
    /\ dead = FALSE

Open ==
    /\ status = "opening"
    /\ \/ status' = "open" /\ owned' = TRUE
       \/ status' = "refused" /\ UNCHANGED owned
    /\ UNCHANGED <<stopped, reason, queue, named, blocked, outcome, dead>>

(* A response with a new name, or a parse error, is put into the stream,   *)
(* but not once the owner has asked for the end (ssdp.cpp:113-116).        *)
Put(i) ==
    /\ status = "open"
    /\ ~stopped
    /\ reason = Nothing
    /\ i \in Good => NameOf[i] \notin named
    /\ named' = IF i \in Good THEN named \cup {NameOf[i]} ELSE named
    /\ queue' = Append(queue, i)
    /\ UNCHANGED <<status, owned, stopped, reason, blocked, outcome, dead>>

(* Only an owner that asks for the end gets StopReason.  It may also be    *)
(* told that the time is over, although it was not: the timer's handler    *)
(* does not look whether the timer was cancelled (ssdp.cpp:99-101).  It is *)
(* never told of a network error, such as that of the closed socket.       *)
End(e) ==
    /\ status = "open"
    /\ reason = Nothing
    /\ e = StopReason => stopped
    /\ stopped => e \in {StopReason, TimeReason}
    /\ reason' = e
    /\ UNCHANGED <<status, owned, stopped, queue, named, blocked, outcome, dead>>

(* The owner lets the query go, stopping it or not.                        *)
Release ==
    /\ owned
    /\ owned' = FALSE
    /\ stopped' \in BOOLEAN
    /\ UNCHANGED <<status, reason, queue, named, blocked, outcome, dead>>

CanRead(r) == r \in blocked \/ (owned /\ outcome[r] \notin EndReasons)

Take(r) ==
    /\ queue # <<>>
    /\ queue' = Tail(queue)
    /\ blocked' = blocked \ {r}
    /\ outcome' = [outcome EXCEPT ![r] = IF Head(queue) \in Good THEN Got ELSE Bad]
    /\ dead' = (Fatal /\ Head(queue) \notin Good)
    /\ UNCHANGED <<status, owned, stopped, reason, named>>

ReadEnd(r) ==
    /\ queue = <<>>
    /\ reason # Nothing
    /\ outcome' = [outcome EXCEPT ![r] = reason]
    /\ blocked' = blocked \ {r}
    /\ UNCHANGED <<status, owned, stopped, reason, queue, named, dead>>

Block(r) ==
    /\ r \notin blocked
    /\ queue = <<>>
    /\ reason = Nothing
    /\ blocked' = blocked \cup {r}
    /\ UNCHANGED <<status, owned, stopped, reason, queue, named, outcome, dead>>

Read(r) == CanRead(r) /\ (Take(r) \/ ReadEnd(r) \/ Block(r))

Next ==
    /\ ~dead
    /\ \/ Open
       \/ \E i \in Items : Put(i)
       \/ \E e \in EndReasons : End(e)
       \/ Release
       \/ \E r \in Readers : Read(r)

(* The stream is opened or refused, it ends, and a reader that is blocked  *)
(* is served as soon as it stays possible to serve it.                     *)
Fairness ==
    /\ WF_vars(~dead /\ Open)
    /\ WF_vars(~dead /\ \E e \in EndReasons : End(e))
    /\ \A r \in Readers : WF_vars(~dead /\ r \in blocked /\ Read(r))

SafeSpec == Init /\ [][Next]_vars
Spec     == SafeSpec /\ Fairness
=============================================================================
