------------------------------ MODULE CancelTree ------------------------------
(***************************************************************************)
(* cancel_t's that are nested, moved and called                            *)
(* (src/include/upnp/detail/cancel.h).  A cancel_t has a list of the       *)
(* connections to it; a client holds a connection, and a cancel_t with a   *)
(* parent holds one to the parent, whose slot calls "this".  A move has to *)
(* put another object in the place of a node of an intrusive list and to   *)
(* bind the slot anew.                                                     *)
(*                                                                         *)
(* A connection held by a cancel_t has the cancel_t's name.  The order of  *)
(* a list is left out: a call goes through all of it.                      *)
(***************************************************************************)
EXTENDS Naturals, FiniteSets

CONSTANTS
    Cancels,      \* cancel_t objects
    Connections,  \* connections held by clients, named as what their slot stops
    None,
    NDEBUG        \* TRUE in a build where assert() is compiled out

ASSUME CancelTreeAssumption ==
    /\ Cancels \cap Connections = {}
    /\ None \notin Cancels \cup Connections
    /\ NDEBUG \in BOOLEAN

Nodes == Cancels \cup Connections

VARIABLES
    alive,     \* the cancel_t's that exist
    list,      \* whose _connections each node is linked in
    slot,      \* what each node's _slot calls: a cancel_t or a client; None if empty
    notified,  \* nodes whose _call_count is not 0
    called,    \* cancel_t's whose _call_count is not 0
    emptied,   \* history: an assignment has left an empty slot in a list
    aborted    \* assert(0) has been reached

vars == <<alive, list, slot, notified, called, emptied, aborted>>

Init ==
    /\ alive = {}
    /\ list = [k \in Nodes |-> None]
    /\ slot = [k \in Nodes |-> None]
    /\ notified = {}
    /\ called = {}
    /\ emptied = FALSE
    /\ aborted = FALSE

(* cancel_t()                                                              *)
Construct(c) ==
    /\ c \notin alive
    /\ alive' = alive \cup {c}
    /\ UNCHANGED <<list, slot, notified, called, emptied, aborted>>

(* cancel_t(cancel_t& parent)                                              *)
ConstructUnder(c, parent) ==
    /\ c \notin alive
    /\ parent \in alive
    /\ alive' = alive \cup {c}
    /\ list' = [list EXCEPT ![c] = parent]
    /\ slot' = [slot EXCEPT ![c] = c]
    /\ notified' = notified \ {c}
    /\ UNCHANGED <<called, emptied, aborted>>

(* There is a connection at k, which may be linked with an empty slot.     *)
IsConnected(k) == slot[k] # None \/ list[k] # None \/ k \in notified

(* connect()                                                               *)
Connect(k, c) ==
    /\ ~IsConnected(k)
    /\ \A j \in Connections : slot[j] # k   \* the client has no other connection
    /\ c \in alive
    /\ list' = [list EXCEPT ![k] = c]
    /\ slot' = [slot EXCEPT ![k] = k]
    /\ UNCHANGED <<alive, notified, called, emptied, aborted>>

(* Mutated Disconnect: the node does not unlink itself.                    *)
DisconnectLinked(k) ==
    /\ IsConnected(k)
    /\ slot' = [slot EXCEPT ![k] = None]
    /\ notified' = notified \ {k}
    /\ UNCHANGED <<alive, list, called, emptied, aborted>>

(* ~Connection()                                                           *)
Disconnect(k) ==
    /\ IsConnected(k)
    /\ list' = [list EXCEPT ![k] = None]
    /\ slot' = [slot EXCEPT ![k] = None]
    /\ notified' = notified \ {k}
    /\ UNCHANGED <<alive, called, emptied, aborted>>

(* Mutated Destroy: the list goes without unlinking its nodes.             *)
DestroyLinked(c) ==
    /\ c \in alive
    /\ alive' = alive \ {c}
    /\ list' = [list EXCEPT ![c] = None]
    /\ slot' = [slot EXCEPT ![c] = None]
    /\ notified' = notified \ {c}
    /\ called' = called \ {c}
    /\ UNCHANGED <<emptied, aborted>>

(* ~cancel_t()                                                             *)
Destroy(c) ==
    /\ c \in alive
    /\ alive' = alive \ {c}
    /\ list' = [k \in Nodes |-> IF k = c \/ list[k] = c THEN None ELSE list[k]]
    /\ slot' = [slot EXCEPT ![c] = None]
    /\ notified' = notified \ {c}
    /\ called' = called \ {c}
    /\ UNCHANGED <<emptied, aborted>>

(* The cancel_t's that are called when c is: c, and those that the slots   *)
(* in the list of one of them call.                                        *)
CalledBy(c) ==
    LET IsClosed(S) == \A k \in Nodes : list[k] \in S /\ slot[k] \in Cancels => slot[k] \in S
        closed      == {S \in SUBSET Cancels : c \in S /\ IsClosed(S)}
    IN  {d \in Cancels : \A S \in closed : d \in S}

(* The nodes in the lists of those.                                        *)
Linked == {k \in Nodes : list[k] # None}

Reached(c) == LET calls == CalledBy(c) IN {k \in Linked : list[k] \in calls}

IsAbove(c, d) == d \in Reached(c) /\ slot[d] = d

-----------------------------------------------------------------------------
(* Moves.                                                                  *)

Transposed(S, j, k) ==
    {n \in Nodes : (n = j /\ k \in S) \/ (n \notin {j, k} /\ n \in S)}

(* Connection::operator=, or the constructor for a fresh j: the slot and   *)
(* the count go over, the places in the lists are swapped (swap_nodes).    *)
SwapNodes(f, j, k) == [f EXCEPT ![j] = f[k], ![k] = f[j]]

MoveConnection(j, k) ==
    /\ j # k
    /\ list' = SwapNodes(list, j, k)
    /\ slot' = [slot EXCEPT ![j] = slot[k], ![k] = None]
    /\ notified' = Transposed(notified, j, k)
    /\ emptied' = (emptied \/ list[j] # None)
    /\ UNCHANGED <<alive, called, aborted>>

(* Moving an intrusive list into another one swaps the two.                *)
SwapLists(f, c, d) ==
    [k \in Nodes |-> CASE f[k] = c -> d [] f[k] = d -> c [] OTHER -> f[k]]

(* Mutated MoveContents: the node keeps the slot it came with.             *)
MoveWithoutRebinding(d, c) ==
    /\ called' = Transposed(called, d, c)
    /\ IF slot[c] # None
       THEN /\ list' = SwapNodes(SwapLists(list, c, d), c, d)
            /\ slot' = [slot EXCEPT ![d] = slot[c], ![c] = None]
            /\ notified' = Transposed(notified, d, c)
            /\ emptied' = (emptied \/ list[d] # None)
       ELSE /\ list' = SwapLists(list, c, d)
            /\ UNCHANGED <<slot, notified, emptied>>

(* Mutated MoveContents: the node is not put into the other's place.       *)
MoveWithoutSwapping(d, c) ==
    /\ called' = Transposed(called, d, c)
    /\ list' = SwapLists(list, c, d)
    /\ IF slot[c] # None
       THEN /\ slot' = [slot EXCEPT ![d] = d, ![c] = None]
            /\ notified' = Transposed(notified, d, c)
            /\ UNCHANGED emptied
       ELSE UNCHANGED <<slot, notified, emptied>>

(* What both moves of a cancel_t do: d takes over what c has, and c's      *)
(* place below its parent if it has one; otherwise d keeps its own.        *)
MoveContents(d, c) ==
    /\ called' = Transposed(called, d, c)
    /\ IF slot[c] # None
       THEN /\ list' = SwapNodes(SwapLists(list, c, d), c, d)
            /\ slot' = [slot EXCEPT ![d] = d, ![c] = None]
            /\ notified' = Transposed(notified, d, c)
            /\ emptied' = (emptied \/ list[d] # None)
       ELSE /\ list' = SwapLists(list, c, d)
            /\ UNCHANGED <<slot, notified, emptied>>

(* cancel_t(cancel_t&&)                                                    *)
MoveConstruct(d, c) ==
    /\ d \notin alive /\ c \in alive
    /\ alive' = alive \cup {d}
    /\ MoveContents(d, c)
    /\ UNCHANGED aborted

(* operator=(cancel_t&&).  Nobody assigns an ancestor to its descendant:   *)
(* each would be below the other.                                          *)
MoveAssign(d, c) ==
    /\ d \in alive /\ c \in alive /\ d # c
    /\ ~IsAbove(c, d)
    /\ MoveContents(d, c)
    /\ UNCHANGED <<alive, aborted>>

-----------------------------------------------------------------------------
(* Calls.                                                                  *)

(* operator(): each list is emptied before its slots are called, so each   *)
(* slot is called once.  An empty slot throws, which assert(0) answers.    *)
Call(c) ==
    /\ c \in alive
    /\ list' = [k \in Nodes |-> IF k \in Reached(c) THEN None ELSE list[k]]
    /\ notified' = notified \cup Reached(c)
    /\ called' = called \cup CalledBy(c)
    /\ aborted' = (~NDEBUG /\ \E k \in Reached(c) : slot[k] = None)
    /\ UNCHANGED <<alive, slot, emptied>>

Next ==
    \/ /\ ~aborted
       /\ \/ \E c \in Cancels : Construct(c) \/ Destroy(c) \/ Call(c)
          \/ \E c, d \in Cancels : ConstructUnder(c, d) \/ MoveConstruct(c, d) \/ MoveAssign(c, d)
          \/ \E k \in Connections : Disconnect(k) \/ \E c \in Cancels : Connect(k, c)
          \/ \E j, k \in Connections : MoveConnection(j, k)
    \/ aborted /\ UNCHANGED vars

Spec == Init /\ [][Next]_vars

-----------------------------------------------------------------------------

TypeOK ==
    /\ alive \subseteq Cancels
    /\ list \in [Nodes -> alive \cup {None}]
    /\ slot \in [Nodes -> Nodes \cup {None}]
    /\ notified \subseteq Nodes
    /\ called \subseteq alive
    /\ emptied \in BOOLEAN /\ aborted \in BOOLEAN

(* The slots capture "this" (cancel.h:112): wherever cancel_t's have been  *)
(* moved to, the slot that a cancel_t holds calls itself and never an      *)
(* object that is gone; and a node that has been called is in no list, so  *)
(* that nothing is stopped twice.                                          *)
SlotsCallTheirOwners ==
    /\ \A c \in Cancels : slot[c] # None => slot[c] = c /\ c \in alive
    /\ \A k \in Connections : slot[k] \in Connections \cup {None}
    /\ \A k \in notified : list[k] = None

(* assert(0) (cancel.h:92) is only reached when a cancel_t or a connection *)
(* that was linked has been assigned to.                                   *)
AssertionNeedsAssignment == ~emptied => ~aborted

(* What a call of c stops.                                                 *)
Stops(c) == {slot[k] : k \in Reached(c)} \cap Connections

(* When d, which is not above c, takes over what c has, d stops what c did *)
(* and no longer what it did; c's ancestors, or d's if c has no parent,    *)
(* stop what c did; and everybody else what they did before, although the  *)
(* nodes in their lists are other objects now (cancel.h:56-80).            *)
MovesKeepReach ==
    [][\A c, d \in Cancels :
          MoveConstruct(d, c) \/ MoveAssign(d, c) =>
              IsAbove(d, c)
                  \/ /\ Stops(d)' = Stops(c)
                     /\ \A p \in alive \ {c, d} :
                           Stops(p)' = (Stops(p) \ (IF IsAbove(p, d) THEN Stops(d) ELSE {}))
                                          \cup (IF IsAbove(p, c) \/ (slot[c] = None /\ IsAbove(p, d))
                                                THEN Stops(c) ELSE {})]_vars
=============================================================================
