--------------------------- MODULE CancelTreeProofs ---------------------------
(***************************************************************************)
(* Safety of CancelTree for any number of cancel_t's and connections and   *)
(* in either build.                                                        *)
(***************************************************************************)
EXTENDS CancelTree, TLAPS

(* As long as nothing linked has been assigned to, no list has an empty    *)
(* slot in it.                                                             *)
NoEmptySlots == ~emptied => ~aborted /\ \A k \in Linked : slot[k] # None

IInv == TypeOK /\ SlotsCallTheirOwners /\ NoEmptySlots

LEMMA InitIInv == Init => IInv
BY CancelTreeAssumption
   DEF Init, IInv, TypeOK, SlotsCallTheirOwners, NoEmptySlots, Linked, Nodes

(* What both moves do to the nodes, when d is alive afterwards.            *)
LEMMA MoveContentsKeepsInv ==
    ASSUME IInv,
           NEW c \in alive, NEW d \in Cancels, c # d,
           alive' = alive \cup {d}, aborted' = aborted,
           MoveContents(d, c)
    PROVE  IInv'
<1>. USE CancelTreeAssumption
<1>1. /\ alive \subseteq Cancels /\ c \in Cancels /\ c \in Nodes /\ d \in Nodes
      /\ list \in [Nodes -> alive \cup {None}]
      /\ slot \in [Nodes -> Nodes \cup {None}]
      /\ notified \subseteq Nodes /\ called \subseteq alive
      /\ emptied \in BOOLEAN /\ aborted \in BOOLEAN
  BY DEF IInv, TypeOK, Nodes
<1>2. called' \subseteq alive'
  BY <1>1 DEF MoveContents, Transposed
<1>3. /\ SwapLists(list, c, d) \in [Nodes -> alive' \cup {None}]
      /\ \A k \in Nodes : SwapLists(list, c, d)[k] = None <=> list[k] = None
  BY <1>1 DEF SwapLists, Nodes
<1>4. CASE slot[c] # None
  <2>1. /\ list' = SwapNodes(SwapLists(list, c, d), c, d)
        /\ slot' = [slot EXCEPT ![d] = d, ![c] = None]
        /\ notified' = Transposed(notified, d, c)
        /\ emptied' = (emptied \/ list[d] # None)
    BY <1>4 DEF MoveContents
  <2>2. /\ list' \in [Nodes -> alive' \cup {None}]
        /\ list'[c] = None <=> list[d] = None
        /\ list'[d] = None <=> list[c] = None
        /\ \A k \in Nodes \ {c, d} : list'[k] = None <=> list[k] = None
    BY <1>1, <1>3, <2>1 DEF SwapNodes
  <2>3. /\ slot' \in [Nodes -> Nodes \cup {None}]
        /\ slot'[d] = d /\ slot'[c] = None
        /\ \A k \in Nodes \ {c, d} : slot'[k] = slot[k]
    BY <1>1, <2>1
  <2>4. TypeOK'
    BY <1>1, <1>2, <2>1, <2>2, <2>3 DEF TypeOK, Transposed, Nodes
  <2>5. SlotsCallTheirOwners'
    <3>1. \A k \in notified' : list'[k] = None
      BY <1>1, <2>1, <2>2 DEF IInv, SlotsCallTheirOwners, Transposed
    <3>2. \A b \in Cancels : slot'[b] # None => slot'[b] = b /\ b \in alive'
      BY <1>1, <2>3 DEF IInv, SlotsCallTheirOwners, Nodes
    <3>3. \A k \in Connections : slot'[k] \in Connections \cup {None}
      BY <1>1, <2>3 DEF IInv, SlotsCallTheirOwners, Nodes
    <3>. QED  BY <3>1, <3>2, <3>3 DEF SlotsCallTheirOwners
  <2>6. NoEmptySlots'
    BY <1>1, <2>1, <2>2, <2>3 DEF IInv, NoEmptySlots, Linked, Nodes
  <2>. QED  BY <2>4, <2>5, <2>6 DEF IInv
<1>5. CASE slot[c] = None
  <2>1. list' = SwapLists(list, c, d) /\ UNCHANGED <<slot, notified, emptied>>
    BY <1>5 DEF MoveContents
  <2>2. TypeOK'
    BY <1>1, <1>2, <1>3, <2>1 DEF TypeOK
  <2>3. SlotsCallTheirOwners'
    BY <1>1, <1>3, <2>1 DEF IInv, SlotsCallTheirOwners, Nodes
  <2>4. NoEmptySlots'
    BY <1>3, <2>1 DEF IInv, NoEmptySlots, Linked
  <2>. QED  BY <2>2, <2>3, <2>4 DEF IInv
<1>. QED  BY <1>4, <1>5

LEMMA NextIInv == IInv /\ [Next]_vars => IInv'
<1>. SUFFICES ASSUME IInv, [Next]_vars PROVE IInv'
  OBVIOUS
<1>. USE CancelTreeAssumption DEF IInv
<1>. USE DEF TypeOK, SlotsCallTheirOwners, NoEmptySlots, Linked, Nodes
<1>1. ASSUME NEW c \in Cancels, Construct(c) PROVE IInv'
  BY <1>1 DEF Construct
<1>2. ASSUME NEW c \in Cancels, Destroy(c) PROVE IInv'
  BY <1>2 DEF Destroy
<1>3. ASSUME NEW c \in Cancels, Call(c) PROVE IInv'
  <2>. DEFINE R == Reached(c)
  <2>1. R \subseteq Linked /\ CalledBy(c) \subseteq alive
    BY <1>3 DEF Reached, CalledBy, Call
  <2>. HIDE DEF R
  <2>2. /\ c \in alive
        /\ list' = [k \in Nodes |-> IF k \in R THEN None ELSE list[k]]
        /\ notified' = notified \cup R
        /\ called' = called \cup CalledBy(c)
        /\ aborted' = (~NDEBUG /\ \E k \in R : slot[k] = None)
        /\ UNCHANGED <<alive, slot, emptied>>
    BY <1>3 DEF Call, R
  <2>3. TypeOK'
    BY <2>1, <2>2
  <2>4. SlotsCallTheirOwners'
    BY <2>1, <2>2
  <2>5. NoEmptySlots'
    BY <2>1, <2>2
  <2>. QED  BY <2>3, <2>4, <2>5
<1>4. ASSUME NEW c \in Cancels, NEW d \in Cancels, ConstructUnder(c, d) PROVE IInv'
  BY <1>4 DEF ConstructUnder
<1>5. ASSUME NEW c \in Cancels, NEW d \in Cancels, MoveConstruct(d, c) PROVE IInv'
  <2>1. c \in alive /\ c # d /\ alive' = alive \cup {d} /\ aborted' = aborted /\ MoveContents(d, c)
    BY <1>5 DEF MoveConstruct
  <2>. QED  BY <2>1, MoveContentsKeepsInv
<1>6. ASSUME NEW c \in Cancels, NEW d \in Cancels, MoveAssign(d, c) PROVE IInv'
  <2>1. c \in alive /\ c # d /\ alive' = alive \cup {d} /\ aborted' = aborted /\ MoveContents(d, c)
    BY <1>6 DEF MoveAssign
  <2>. QED  BY <2>1, MoveContentsKeepsInv
<1>7. ASSUME NEW k \in Connections, Disconnect(k) PROVE IInv'
  BY <1>7 DEF Disconnect, IsConnected
<1>8. ASSUME NEW k \in Connections, NEW c \in Cancels, Connect(k, c) PROVE IInv'
  <2>1. /\ k \in Nodes /\ list' = [list EXCEPT ![k] = c] /\ slot' = [slot EXCEPT ![k] = k]
        /\ k \notin notified /\ c \in alive
        /\ UNCHANGED <<alive, notified, called, emptied, aborted>>
    BY <1>8 DEF Connect, IsConnected
  <2>2. /\ slot'[k] = k
        /\ \A n \in Nodes \ {k} : list'[n] = list[n] /\ slot'[n] = slot[n]
    BY <2>1
  <2>3. TypeOK'
    BY <2>1
  <2>4. SlotsCallTheirOwners'
    BY <2>1, <2>2
  <2>5. NoEmptySlots'
    BY <2>1, <2>2
  <2>. QED  BY <2>3, <2>4, <2>5
<1>9. ASSUME NEW j \in Connections, NEW k \in Connections, MoveConnection(j, k) PROVE IInv'
  <2>1. /\ j # k /\ j \in Nodes /\ k \in Nodes
        /\ list' = [list EXCEPT ![j] = list[k], ![k] = list[j]]
        /\ slot' = [slot EXCEPT ![j] = slot[k], ![k] = None]
        /\ notified' = {n \in Nodes : (n = j /\ k \in notified) \/ (n \notin {j, k} /\ n \in notified)}
        /\ emptied' = (emptied \/ list[j] # None)
        /\ UNCHANGED <<alive, called, aborted>>
    BY <1>9 DEF MoveConnection, SwapNodes, Transposed
  <2>2. /\ list'[j] = list[k] /\ list'[k] = list[j]
        /\ slot'[j] = slot[k] /\ slot'[k] = None
        /\ \A n \in Nodes \ {j, k} : list'[n] = list[n] /\ slot'[n] = slot[n]
    BY <2>1
  <2>3. TypeOK'
    BY <2>1
  <2>4. SlotsCallTheirOwners'
    <3>1. \A n \in notified' : list'[n] = None
      BY <2>1, <2>2
    <3>2. \A c \in Cancels : slot'[c] # None => slot'[c] = c /\ c \in alive'
      BY <2>1, <2>2
    <3>3. \A n \in Connections : slot'[n] \in Connections \cup {None}
      BY <2>1, <2>2
    <3>. QED  BY <3>1, <3>2, <3>3
  <2>5. NoEmptySlots'
    BY <2>1, <2>2
  <2>. QED  BY <2>3, <2>4, <2>5
<1>10. CASE UNCHANGED vars
  BY <1>10 DEF vars
<1>. QED  BY <1>1, <1>2, <1>3, <1>4, <1>5, <1>6, <1>7, <1>8, <1>9, <1>10 DEF Next

LEMMA SpecIInv == Spec => []IInv
<1>1. Init => IInv
  BY InitIInv
<1>2. IInv /\ [Next]_vars => IInv'
  BY NextIInv
<1>. QED  BY <1>1, <1>2, PTL DEF Spec

(* The variables stay in their types: in particular no node is ever left   *)
(* in the list of a cancel_t that has been destroyed.                      *)
THEOREM Typing == Spec => []TypeOK
BY SpecIInv, PTL DEF IInv

(* However cancel_t's and connections are nested, moved, called and        *)
(* destroyed, the slot of a cancel_t calls the object that holds it now,   *)
(* and no node that has been called can be called again.                   *)
THEOREM SlotsFollowMoves == Spec => []SlotsCallTheirOwners
BY SpecIInv, PTL DEF IInv

(* Without an assignment to something linked, assert(0) is not reached.    *)
THEOREM AssertionHolds == Spec => []AssertionNeedsAssignment
<1>1. IInv => AssertionNeedsAssignment
  BY DEF IInv, NoEmptySlots, AssertionNeedsAssignment
<1>. QED  BY <1>1, SpecIInv, PTL
-----------------------------------------------------------------------------
(* Forests: whose parent is who, as functions and sets.                    *)

(* The cancel_t's below x in a tree where the members of h have a parent,  *)
(* the one that l says.                                                    *)
IsClosedUnder(l, h, S) == \A j \in h : l[j] \in S => j \in S

Below(l, h, x) == {d \in Cancels : \A S \in SUBSET Cancels : x \in S /\ IsClosedUnder(l, h, S) => d \in S}

LEMMA BelowIsClosed ==
    ASSUME NEW l, NEW h, h \subseteq Cancels, NEW x \in Cancels
    PROVE  /\ Below(l, h, x) \subseteq Cancels /\ x \in Below(l, h, x)
           /\ IsClosedUnder(l, h, Below(l, h, x))
<1>1. Below(l, h, x) \subseteq Cancels /\ x \in Below(l, h, x)
  BY DEF Below
<1>2. ASSUME NEW j \in h, l[j] \in Below(l, h, x) PROVE j \in Below(l, h, x)
  BY <1>2 DEF Below, IsClosedUnder
<1>. QED  BY <1>1, <1>2 DEF IsClosedUnder

LEMMA BelowIsLeast ==
    ASSUME NEW l, NEW h, NEW x, NEW S, S \subseteq Cancels, x \in S,
           \A j \in h : l[j] \in S => j \in S
    PROVE  Below(l, h, x) \subseteq S
BY DEF Below, IsClosedUnder

(* Who is below x is x or has a parent there.                              *)
LEMMA BelowHasParent ==
    ASSUME NEW l, NEW h, h \subseteq Cancels, NEW x \in Cancels,
           NEW d \in Below(l, h, x), d # x
    PROVE  d \in h /\ l[d] \in Below(l, h, x)
<1>1. PICK B : B = Below(l, h, x)
  OBVIOUS
<1>2. B \subseteq Cancels /\ x \in B /\ \A j \in h : l[j] \in B => j \in B
  BY <1>1, BelowIsClosed DEF IsClosedUnder
<1>3. PICK S : S = {z \in B : z = x \/ (z \in h /\ l[z] \in B)}
  OBVIOUS
<1>4. S \subseteq Cancels /\ x \in S /\ \A j \in h : l[j] \in S => j \in S
  BY <1>2, <1>3
<1>5. B \subseteq S
  BY <1>1, <1>4, BelowIsLeast
<1>. QED  BY <1>1, <1>3, <1>5

LEMMA BelowIsTransitive ==
    ASSUME NEW l, NEW h, h \subseteq Cancels, NEW x \in Cancels, NEW d \in Below(l, h, x)
    PROVE  Below(l, h, d) \subseteq Below(l, h, x)
<1>1. PICK B : B = Below(l, h, x)
  OBVIOUS
<1>2. B \subseteq Cancels /\ d \in B /\ \A j \in h : l[j] \in B => j \in B
  BY <1>1, BelowIsClosed DEF IsClosedUnder
<1>3. Below(l, h, d) \subseteq B
  BY <1>2, BelowIsLeast
<1>. QED  BY <1>1, <1>3

(* Of two that are not below each other, nothing is below both.            *)
LEMMA BelowIsApart ==
    ASSUME NEW l, NEW h, h \subseteq Cancels, NEW x \in Cancels, NEW y \in Cancels,
           x \notin Below(l, h, y), y \notin Below(l, h, x)
    PROVE  Below(l, h, x) \cap Below(l, h, y) = {}
<1>1. PICK B, A : B = Below(l, h, x) /\ A = Below(l, h, y)
  OBVIOUS
<1>2. B \subseteq Cancels /\ x \in B /\ \A j \in h : l[j] \in B => j \in B
  BY <1>1, BelowIsClosed DEF IsClosedUnder
<1>3. \A j \in A : j # y => j \in h /\ l[j] \in A
  BY <1>1, BelowHasParent
<1>4. PICK S : S = B \ A
  OBVIOUS
<1>5. S \subseteq Cancels /\ x \in S /\ \A j \in h : l[j] \in S => j \in S
  BY <1>1, <1>2, <1>3, <1>4
<1>6. B \subseteq S
  BY <1>1, <1>5, BelowIsLeast
<1>. QED  BY <1>1, <1>4, <1>6

IsForest(l, h) == \A x \in h : l[x] \notin Below(l, h, x)

LEMMA BelowInForest ==
    ASSUME NEW l, NEW h, h \subseteq Cancels, IsForest(l, h),
           NEW x \in Cancels, NEW d \in Below(l, h, x), d # x
    PROVE  x \notin Below(l, h, d)
<1>. SUFFICES ASSUME x \in Below(l, h, d) PROVE FALSE
  OBVIOUS
<1>1. d \in Cancels
  BY BelowIsClosed
<1>2. x \in h /\ l[x] \in Below(l, h, d)
  BY <1>1, BelowHasParent
<1>3. Below(l, h, d) \subseteq Below(l, h, x)
  BY BelowIsTransitive
<1>. QED  BY <1>2, <1>3 DEF IsForest

(* A move of c into d, which is not below c: the places of c and d in the  *)
(* tree are swapped, and c has no parent any more; if c had none before, d *)
(* keeps its place and takes what is below c.                              *)
Swap(c, d, x) == IF x = c THEN d ELSE IF x = d THEN c ELSE x

IsMoved(m, g, l, h, c, d) ==
    IF c \in h
    THEN /\ g = (h \ {c}) \cup {d}
         /\ \A j \in Cancels : m[j] = Swap(c, d, l[Swap(c, d, j)])
    ELSE /\ g = h
         /\ \A j \in Cancels : m[j] = Swap(c, d, l[j])

(* What is below x then: not what was below d, but what was below c.       *)
Rest(l, h, c, d, x) ==
    (Below(l, h, x) \ (IF d \in Below(l, h, x) THEN Below(l, h, d) ELSE {}))
        \cup (IF d \in Below(l, h, x) /\ c \notin h THEN Below(l, h, c) ELSE {})

LEMMA SwapTwice ==
    ASSUME NEW c \in Cancels, NEW d \in Cancels
    PROVE  /\ Swap(c, d, c) = d /\ Swap(c, d, d) = c
           /\ \A x : Swap(c, d, Swap(c, d, x)) = x
           /\ \A x : x # c /\ x # d => Swap(c, d, x) = x
           /\ \A x \in Cancels : Swap(c, d, x) \in Cancels
BY DEF Swap

LEMMA MovedWithParent ==
    ASSUME NEW l, NEW h, h \subseteq Cancels, IsForest(l, h),
           NEW c \in Cancels, NEW d \in Cancels, c # d, c \in h,
           NEW m, NEW g, IsMoved(m, g, l, h, c, d), NEW x \in Cancels, x # d
    PROVE  Below(m, g, Swap(c, d, x)) = {z \in Cancels : Swap(c, d, z) \in Rest(l, h, c, d, x)}
<1>1. PICK B, D : B = Below(l, h, x) /\ D = Below(l, h, d)
  OBVIOUS
<1>2. /\ B \subseteq Cancels /\ x \in B /\ \A j \in h : l[j] \in B => j \in B
      /\ D \subseteq Cancels /\ d \in D /\ \A j \in h : l[j] \in D => j \in D
  BY <1>1, BelowIsClosed DEF IsClosedUnder
<1>3. \A j \in D : j # d => j \in h /\ l[j] \in D
  BY <1>1, BelowHasParent
<1>4. PICK U : U = IF d \in B THEN D ELSE {}
  OBVIOUS
<1>5. Rest(l, h, c, d, x) = B \ U
  BY <1>1, <1>4 DEF Rest
<1>6. x \notin U
  BY <1>1, <1>4, BelowInForest
<1>7. /\ g \subseteq Cancels
      /\ \A j \in g : j # c /\ Swap(c, d, j) \in h
      /\ \A j \in h : j # d => Swap(c, d, j) \in g
      /\ \A j \in Cancels : m[j] = Swap(c, d, l[Swap(c, d, j)])
  BY DEF IsMoved, Swap
<1>8. PICK T : T = {z \in Cancels : Swap(c, d, z) \in B \ U}
  OBVIOUS
<1>9. PICK M : M = Below(m, g, Swap(c, d, x))
  OBVIOUS
<1>10. Swap(c, d, x) \in Cancels
  BY SwapTwice
<1>11. M \subseteq Cancels /\ Swap(c, d, x) \in M /\ \A j \in g : m[j] \in M => j \in M
  BY <1>7, <1>9, <1>10, BelowIsClosed DEF IsClosedUnder
<1>12. M \subseteq T
  <2>1. Swap(c, d, x) \in T
    BY <1>2, <1>6, <1>8, <1>10, SwapTwice
  <2>2. ASSUME NEW j \in g, m[j] \in T PROVE j \in T
    <3>1. PICK i \in h : i = Swap(c, d, j) /\ i # d /\ m[j] = Swap(c, d, l[i])
      BY <1>7, SwapTwice
    <3>2. l[i] \in B \ U
      BY <1>8, <2>2, <3>1, SwapTwice
    <3>3. i \in B
      BY <1>2, <3>2
    <3>4. i \notin U
      BY <1>3, <1>4, <3>1, <3>2
    <3>. QED  BY <1>7, <1>8, <3>1, <3>3, <3>4
  <2>3. T \subseteq Cancels
    BY <1>8
  <2>. QED  BY <1>9, <2>1, <2>2, <2>3, BelowIsLeast
<1>13. T \subseteq M
  <2>1. PICK S : S = {z \in B : Swap(c, d, z) \in M \/ z \in U}
    OBVIOUS
  <2>2. ASSUME NEW j \in h, l[j] \in S PROVE j \in S
    <3>1. j \in B
      BY <1>2, <2>1, <2>2
    <3>2. CASE j = d
      BY <1>2, <1>4, <2>1, <3>1, <3>2
    <3>3. CASE j # d /\ l[j] \in U
      BY <1>2, <1>4, <2>1, <3>1, <3>3
    <3>4. CASE j # d /\ Swap(c, d, l[j]) \in M
      <4>1. Swap(c, d, j) \in g
        BY <1>7, <3>4
      <4>2. m[Swap(c, d, j)] = Swap(c, d, l[j])
        BY <1>7, <4>1, SwapTwice
      <4>3. Swap(c, d, j) \in M
        BY <1>11, <3>4, <4>1, <4>2
      <4>. QED  BY <2>1, <3>1, <4>3
    <3>. QED  BY <2>1, <2>2, <3>2, <3>3, <3>4
  <2>3. S \subseteq Cancels /\ x \in S
    BY <1>2, <1>11, <2>1
  <2>4. B \subseteq S
    BY <1>1, <2>2, <2>3, BelowIsLeast
  <2>. QED  BY <1>8, <2>1, <2>4, SwapTwice
<1>. QED  BY <1>5, <1>8, <1>9, <1>12, <1>13

LEMMA MovedWithoutParent ==
    ASSUME NEW l, NEW h, h \subseteq Cancels, IsForest(l, h),
           NEW c \in Cancels, NEW d \in Cancels, c # d, c \notin h,
           d \notin Below(l, h, c),
           NEW m, NEW g, IsMoved(m, g, l, h, c, d), NEW x \in Cancels, x # d
    PROVE  Below(m, g, Swap(c, d, x)) = {z \in Cancels : Swap(c, d, z) \in Rest(l, h, c, d, x)}
<1>1. PICK B, D, C : B = Below(l, h, x) /\ D = Below(l, h, d) /\ C = Below(l, h, c)
  OBVIOUS
<1>2. /\ B \subseteq Cancels /\ x \in B /\ \A j \in h : l[j] \in B => j \in B
      /\ D \subseteq Cancels /\ d \in D /\ \A j \in h : l[j] \in D => j \in D
      /\ C \subseteq Cancels /\ c \in C /\ \A j \in h : l[j] \in C => j \in C
  BY <1>1, BelowIsClosed DEF IsClosedUnder
<1>3. /\ \A j \in D : j # d => j \in h /\ l[j] \in D
      /\ \A j \in C : j # c => j \in h /\ l[j] \in C
      /\ \A j \in B : j # x => j \in h /\ l[j] \in B
  BY <1>1, BelowHasParent
<1>4. PICK U, V : /\ U = (IF d \in B THEN D ELSE {})
                  /\ V = (IF d \in B THEN C ELSE {})
  OBVIOUS
<1>5. PICK R : R = (B \ U) \cup V
  OBVIOUS
<1>6. Rest(l, h, c, d, x) = R
  BY <1>1, <1>4, <1>5 DEF Rest
<1>7. x \notin U
  BY <1>1, <1>4, BelowInForest
<1>8. g = h /\ \A j \in Cancels : m[j] = Swap(c, d, l[j])
  BY DEF IsMoved
<1>9. PICK T : T = {z \in Cancels : Swap(c, d, z) \in R}
  OBVIOUS
<1>10. PICK M, N : M = Below(m, g, Swap(c, d, x)) /\ N = Below(m, g, d)
  OBVIOUS
<1>11. Swap(c, d, x) \in Cancels
  BY SwapTwice
<1>12. /\ M \subseteq Cancels /\ Swap(c, d, x) \in M /\ \A j \in h : m[j] \in M => j \in M
       /\ N \subseteq Cancels /\ d \in N /\ \A j \in h : m[j] \in N => j \in N
  BY <1>8, <1>10, <1>11, BelowIsClosed DEF IsClosedUnder
<1>13. d \notin C /\ \A j \in h : j # c
  BY <1>1
<1>14. M \subseteq T
  <2>1. Swap(c, d, x) \in T
    BY <1>2, <1>5, <1>7, <1>9, <1>11, SwapTwice
  <2>2. ASSUME NEW j \in h, m[j] \in T PROVE j \in T
    <3>1. l[j] \in R
      <4>1. m[j] = Swap(c, d, l[j]) /\ Swap(c, d, m[j]) \in R
        BY <1>8, <1>9, <2>2
      <4>2. Swap(c, d, Swap(c, d, l[j])) = l[j]
        BY SwapTwice
      <4>. QED  BY <4>1, <4>2
    <3>2. Swap(c, d, j) \in R
      <4>1. CASE l[j] \in V
        <5>1. j \in C /\ j # c /\ j # d /\ d \in B
          BY <1>2, <1>4, <1>13, <4>1
        <5>. QED  BY <1>4, <1>5, <5>1, SwapTwice
      <4>2. CASE l[j] \in B \ U /\ j = d
        BY <1>2, <1>4, <1>5, <4>2, SwapTwice
      <4>3. CASE l[j] \in B \ U /\ j # d
        <5>1. j \in B /\ j \notin U
          BY <1>2, <1>3, <1>4, <4>3
        <5>. QED  BY <1>5, <1>13, <4>3, <5>1, SwapTwice
      <4>. QED  BY <1>5, <3>1, <4>1, <4>2, <4>3
    <3>. QED  BY <1>9, <3>2
  <2>3. T \subseteq Cancels
    BY <1>9
  <2>. QED  BY <1>8, <1>10, <2>1, <2>2, <2>3, BelowIsLeast
<1>15. \A z \in B \ U : Swap(c, d, z) \in M
  <2>1. PICK S : S = {z \in B : Swap(c, d, z) \in M \/ z \in U}
    OBVIOUS
  <2>2. ASSUME NEW j \in h, l[j] \in S PROVE j \in S
    <3>1. j \in B /\ j # c
      BY <1>2, <1>13, <2>1, <2>2
    <3>2. CASE j = d
      BY <1>2, <1>4, <2>1, <3>1, <3>2
    <3>3. CASE j # d /\ l[j] \in U
      BY <1>2, <1>4, <2>1, <3>1, <3>3
    <3>4. CASE j # d /\ Swap(c, d, l[j]) \in M
      <4>1. m[j] \in M
        BY <1>8, <3>4
      <4>. QED  BY <1>12, <2>1, <3>1, <3>4, <4>1, SwapTwice
    <3>. QED  BY <2>1, <2>2, <3>2, <3>3, <3>4
  <2>3. S \subseteq Cancels /\ x \in S
    BY <1>2, <1>12, <2>1
  <2>4. B \subseteq S
    BY <1>1, <2>2, <2>3, BelowIsLeast
  <2>. QED  BY <2>1, <2>4
<1>16. \A z \in C : Swap(c, d, z) \in N
  <2>1. PICK S : S = {z \in C : Swap(c, d, z) \in N}
    OBVIOUS
  <2>2. ASSUME NEW j \in h, l[j] \in S PROVE j \in S
    <3>1. j \in C /\ j # c /\ j # d
      BY <1>2, <1>13, <2>1, <2>2
    <3>2. m[j] \in N
      BY <1>8, <2>1, <2>2
    <3>. QED  BY <1>12, <2>1, <3>1, <3>2, SwapTwice
  <2>3. S \subseteq Cancels /\ c \in S
    BY <1>2, <1>12, <2>1, SwapTwice
  <2>4. C \subseteq S
    BY <1>1, <2>2, <2>3, BelowIsLeast
  <2>. QED  BY <2>1, <2>4
<1>17. ASSUME d \in B PROVE N \subseteq M
  <2>1. d \in h /\ l[d] \in B /\ l[d] \notin D
    BY <1>1, <1>3, <1>17 DEF IsForest
  <2>2. m[d] \in M
    BY <1>4, <1>8, <1>15, <2>1
  <2>3. d \in M
    BY <1>12, <2>1, <2>2
  <2>. QED  BY <1>8, <1>10, <1>11, <2>3, BelowIsTransitive
<1>18. T \subseteq M
  <2>1. \A z \in R : Swap(c, d, z) \in M
    BY <1>4, <1>5, <1>15, <1>16, <1>17
  <2>. QED  BY <1>9, <2>1, SwapTwice
<1>. QED  BY <1>6, <1>9, <1>10, <1>14, <1>18

LEMMA MovedIsForest ==
    ASSUME NEW l, NEW h, h \subseteq Cancels, IsForest(l, h),
           NEW c \in Cancels, NEW d \in Cancels, c # d,
           d \notin Below(l, h, c),
           NEW m, NEW g, IsMoved(m, g, l, h, c, d)
    PROVE  /\ IsForest(m, g)
           /\ \A x \in Cancels \ {d} :
                 Below(m, g, Swap(c, d, x)) = {z \in Cancels : Swap(c, d, z) \in Rest(l, h, c, d, x)}
<1>1. \A x \in Cancels \ {d} :
         Below(m, g, Swap(c, d, x)) = {z \in Cancels : Swap(c, d, z) \in Rest(l, h, c, d, x)}
  BY MovedWithParent, MovedWithoutParent
<1>2. ASSUME NEW j \in g, m[j] \in Below(m, g, j) PROVE FALSE
  <2>1. j \in Cancels /\ j # c /\ Swap(c, d, j) # d
    BY <1>2 DEF IsMoved, Swap
  <2>2. PICK x \in Cancels \ {d} : x = Swap(c, d, j) /\ j = Swap(c, d, x)
    BY <2>1, SwapTwice
  <2>3. Swap(c, d, m[j]) \in Rest(l, h, c, d, x)
    BY <1>1, <1>2, <2>2
  <2>4. CASE c \in h
    <3>1. x \in h /\ m[j] = Swap(c, d, l[x])
      BY <1>2, <2>1, <2>2, <2>4, SwapTwice DEF IsMoved
    <3>2. l[x] \in Rest(l, h, c, d, x)
      BY <2>3, <3>1, SwapTwice
    <3>3. l[x] \in Below(l, h, x)
      BY <2>4, <3>2 DEF Rest
    <3>. QED  BY <3>1, <3>3 DEF IsForest
  <2>5. CASE c \notin h
    <3>1. j \in h /\ m[j] = Swap(c, d, l[j])
      BY <1>2, <2>5 DEF IsMoved
    <3>2. l[j] \in Rest(l, h, c, d, x)
      BY <2>3, <3>1, SwapTwice
    <3>3. CASE l[j] \in Below(l, h, c)
      <4>1. j \in Below(l, h, c)
        BY <3>1, <3>3, BelowIsClosed DEF IsClosedUnder
      <4>2. (x = j /\ d \in Below(l, h, x)) \/ l[j] \in Below(l, h, x)
        BY <2>1, <2>2, <3>2, <4>1, SwapTwice DEF Rest
      <4>3. j # d
        BY <4>1
      <4>4. x = j
        BY <2>1, <2>2, <4>3, SwapTwice
      <4>5. CASE d \in Below(l, h, x)
        BY <4>1, <4>4, <4>5, BelowIsTransitive
      <4>6. CASE l[j] \in Below(l, h, x)
        BY <3>1, <4>4, <4>6 DEF IsForest
      <4>. QED  BY <4>2, <4>5, <4>6
    <3>4. CASE l[j] \notin Below(l, h, c)
      <4>1. l[j] \in Below(l, h, x)
        BY <3>2, <3>4 DEF Rest
      <4>2. x # c
        BY <3>4, <4>1
      <4>3. x = j
        BY <2>1, <2>2, <4>2, SwapTwice
      <4>. QED  BY <3>1, <4>1, <4>3 DEF IsForest
    <3>. QED  BY <3>3, <3>4
  <2>. QED  BY <2>4, <2>5
<1>. QED  BY <1>1, <1>2 DEF IsForest

-----------------------------------------------------------------------------
(* The tree of the cancel_t's in a state: those that a slot calls have a   *)
(* parent, the one whose list they are in.                                 *)
Holders == {c \in Cancels : slot[c] = c}

LEMMA CalledIsBelow == IInv => \A x \in Cancels : CalledBy(x) = Below(list, Holders, x)
<1>. SUFFICES ASSUME IInv, NEW x \in Cancels PROVE CalledBy(x) = Below(list, Holders, x)
  OBVIOUS
<1>1. \A k \in Nodes : slot[k] \in Cancels => k \in Holders /\ slot[k] = k
  BY CancelTreeAssumption DEF IInv, SlotsCallTheirOwners, Holders, Nodes
<1>2. \A k \in Holders : k \in Nodes /\ slot[k] = k /\ slot[k] \in Cancels
  BY DEF Holders, Nodes
<1>3. \A S : (\A k \in Nodes : list[k] \in S /\ slot[k] \in Cancels => slot[k] \in S)
                <=> IsClosedUnder(list, Holders, S)
  BY <1>1, <1>2 DEF IsClosedUnder
<1>. QED  BY <1>3 DEF CalledBy, Below

(* The tree has no cycle, and no two connections stop the same client.     *)
TreeInv ==
    /\ IInv
    /\ IsForest(list, Holders)
    /\ \A j, k \in Connections : slot[j] = slot[k] /\ slot[j] # None => j = k

LEMMA AboveIsBelow ==
    TreeInv => \A x, d \in Cancels : IsAbove(x, d) <=> d # x /\ d \in Below(list, Holders, x)
<1>. SUFFICES ASSUME TreeInv, NEW x \in Cancels, NEW d \in Cancels
              PROVE  IsAbove(x, d) <=> d # x /\ d \in Below(list, Holders, x)
  OBVIOUS
<1>0. Holders \subseteq Cancels
  BY DEF Holders
<1>1. IsAbove(x, d) <=> d \in Holders /\ list[d] \in Below(list, Holders, x)
  <2>1. CalledBy(x) = Below(list, Holders, x)
    BY CalledIsBelow DEF TreeInv
  <2>2. None \notin Below(list, Holders, x)
    BY CancelTreeAssumption DEF Below
  <2>. QED  BY <2>1, <2>2 DEF IsAbove, Reached, Linked, Holders, Nodes
<1>2. d \in Holders /\ list[d] \in Below(list, Holders, x)
         => d # x /\ d \in Below(list, Holders, x)
  BY <1>0, BelowIsClosed DEF IsClosedUnder, TreeInv, IsForest
<1>3. d # x /\ d \in Below(list, Holders, x)
         => d \in Holders /\ list[d] \in Below(list, Holders, x)
  BY <1>0, BelowHasParent
<1>. QED  BY <1>1, <1>2, <1>3

(* The clients whose connections are in the lists of S.                    *)
ClientsIn(S) == {slot[k] : k \in {j \in Connections : list[j] \in S}} \cap Connections

StopsBelow == \A x \in Cancels : Stops(x) = ClientsIn(Below(list, Holders, x))

LEMMA StopsAre == IInv => StopsBelow
<1>. SUFFICES ASSUME IInv, NEW x \in Cancels
              PROVE  Stops(x) = ClientsIn(Below(list, Holders, x))
  BY DEF StopsBelow
<1>1. CalledBy(x) = Below(list, Holders, x)
  BY CalledIsBelow
<1>2. None \notin Below(list, Holders, x)
  BY CancelTreeAssumption DEF Below
<1>3. \A k \in Nodes : slot[k] \in Connections => k \in Connections
  BY CancelTreeAssumption DEF IInv, SlotsCallTheirOwners, Nodes
<1>. QED  BY <1>1, <1>2, <1>3 DEF Stops, Reached, Linked, ClientsIn, Nodes

-----------------------------------------------------------------------------

LEMMA FewerEdges ==
    ASSUME NEW l, NEW h, h \subseteq Cancels, IsForest(l, h),
           NEW m, NEW g, g \subseteq h, \A j \in g : m[j] \in {l[j], None}
    PROVE  IsForest(m, g)
<1>. SUFFICES ASSUME NEW j \in g, m[j] \in Below(m, g, j) PROVE FALSE
  BY DEF IsForest
<1>1. PICK B : B = Below(l, h, j)
  OBVIOUS
<1>2. B \subseteq Cancels /\ j \in B /\ \A i \in h : l[i] \in B => i \in B
  BY <1>1, BelowIsClosed DEF IsClosedUnder
<1>3. None \notin B
  BY <1>2, CancelTreeAssumption
<1>4. \A i \in g : m[i] \in B => i \in B
  BY <1>2, <1>3
<1>5. Below(m, g, j) \subseteq B
  BY <1>2, <1>4, BelowIsLeast
<1>. QED  BY <1>1, <1>3, <1>5 DEF IsForest

LEMMA NewLeaf ==
    ASSUME NEW l, NEW h, h \subseteq Cancels, IsForest(l, h),
           NEW m, NEW x \in Cancels, NEW p \in Cancels, p # x, m[x] = p,
           \A j \in h : j # x /\ m[j] = l[j] /\ l[j] # x
    PROVE  IsForest(m, h \cup {x})
<1>1. PICK g : g = h \cup {x}
  OBVIOUS
<1>. SUFFICES ASSUME NEW j \in g, m[j] \in Below(m, g, j) PROVE FALSE
  BY <1>1 DEF IsForest
<1>2. CASE j = x
  <2>1. PICK S : S = {x}
    OBVIOUS
  <2>2. S \subseteq Cancels /\ x \in S /\ \A i \in g : m[i] \in S => i \in S
    BY <1>1, <2>1
  <2>3. Below(m, g, x) \subseteq S
    BY <2>2, BelowIsLeast
  <2>. QED  BY <1>2, <2>1, <2>3
<1>3. CASE j # x
  <2>1. PICK B : B = Below(l, h, j)
    OBVIOUS
  <2>2. B \subseteq Cancels /\ j \in B /\ \A i \in h : l[i] \in B => i \in B
    BY <1>1, <1>3, <2>1, BelowIsClosed DEF IsClosedUnder
  <2>3. PICK S : S = B \cup {x}
    OBVIOUS
  <2>4. S \subseteq Cancels /\ j \in S /\ \A i \in g : m[i] \in S => i \in S
    BY <1>1, <2>2, <2>3
  <2>5. Below(m, g, j) \subseteq S
    BY <2>4, BelowIsLeast
  <2>. QED  BY <1>1, <1>3, <2>1, <2>3, <2>5 DEF IsForest
<1>. QED  BY <1>2, <1>3

(* The moves of cancel_t's are moves in the tree.                          *)
LEMMA MoveContentsMoves ==
    ASSUME IInv, NEW c \in Cancels, NEW d \in Cancels, c # d, MoveContents(d, c)
    PROVE  /\ IsMoved(list', Holders', list, Holders, c, d)
           /\ \A k \in Connections : list'[k] = Swap(c, d, list[k]) /\ slot'[k] = slot[k]
<1>1. /\ c \in Nodes /\ d \in Nodes /\ None # c /\ None # d
      /\ list \in [Nodes -> alive \cup {None}] /\ slot \in [Nodes -> Nodes \cup {None}]
      /\ \A k \in Connections : k \in Nodes /\ k # c /\ k # d
      /\ \A k \in Cancels : k \in Nodes
  BY CancelTreeAssumption DEF IInv, TypeOK, Nodes
<1>2. \A k \in Nodes : SwapLists(list, c, d)[k] = Swap(c, d, list[k])
  BY DEF SwapLists, Swap
<1>3. SwapLists(list, c, d) = [k \in Nodes |-> SwapLists(list, c, d)[k]]
  BY DEF SwapLists
<1>4. c \in Holders <=> slot[c] # None
  BY <1>1 DEF IInv, SlotsCallTheirOwners, Holders
<1>5. CASE slot[c] # None
  <2>1. PICK f : f = SwapLists(list, c, d)
    OBVIOUS
  <2>2. list' = [f EXCEPT ![c] = f[d], ![d] = f[c]]
    BY <1>5, <2>1 DEF MoveContents, SwapNodes
  <2>3. \A k \in Nodes : list'[k] = f[Swap(c, d, k)]
    BY <1>1, <1>3, <2>1, <2>2 DEF Swap
  <2>4. slot' = [slot EXCEPT ![d] = d, ![c] = None]
    BY <1>5 DEF MoveContents
  <2>5. slot'[d] = d /\ slot'[c] = None /\ \A k \in Nodes \ {c, d} : slot'[k] = slot[k]
    BY <1>1, <2>4
  <2>6. Holders' = (Holders \ {c}) \cup {d}
    BY <1>1, <2>5 DEF Holders
  <2>7. \A j \in Cancels : list'[j] = Swap(c, d, list[Swap(c, d, j)])
    BY <1>1, <1>2, <2>1, <2>3, SwapTwice
  <2>8. \A k \in Connections : list'[k] = Swap(c, d, list[k]) /\ slot'[k] = slot[k]
    BY <1>1, <1>2, <2>1, <2>3, <2>5, SwapTwice
  <2>. QED  BY <1>4, <1>5, <2>6, <2>7, <2>8 DEF IsMoved
<1>6. CASE slot[c] = None
  <2>1. list' = SwapLists(list, c, d) /\ UNCHANGED slot
    BY <1>6 DEF MoveContents
  <2>2. Holders' = Holders
    BY <2>1 DEF Holders
  <2>. QED  BY <1>1, <1>2, <1>4, <1>6, <2>1, <2>2 DEF IsMoved
<1>. QED  BY <1>5, <1>6

(* Nothing is below one that is not alive, and it is below nobody.         *)
LEMMA MovesAreMoves ==
    ASSUME TreeInv, NEW c \in Cancels, NEW d \in Cancels,
           MoveConstruct(d, c) \/ MoveAssign(d, c)
    PROVE  /\ c # d /\ d \notin Below(list, Holders, c) /\ MoveContents(d, c)
           /\ IsMoved(list', Holders', list, Holders, c, d)
           /\ \A k \in Connections : list'[k] = Swap(c, d, list[k]) /\ slot'[k] = slot[k]
<1>1. c # d /\ MoveContents(d, c)
  BY DEF MoveConstruct, MoveAssign
<1>2. d \notin Below(list, Holders, c)
  <2>1. CASE MoveConstruct(d, c)
    <3>1. d \notin Holders /\ Holders \subseteq Cancels
      BY <2>1, CancelTreeAssumption
         DEF MoveConstruct, TreeInv, IInv, SlotsCallTheirOwners, Holders
    <3>. QED  BY <1>1, <3>1, BelowHasParent
  <2>2. CASE MoveAssign(d, c)
    BY <1>1, <2>2, AboveIsBelow DEF MoveAssign
  <2>. QED  BY <2>1, <2>2
<1>. QED  BY <1>1, <1>2, MoveContentsMoves DEF TreeInv

LEMMA InitTreeInv == Init => TreeInv
<1>. SUFFICES ASSUME Init PROVE TreeInv
  OBVIOUS
<1>1. IInv
  BY InitIInv
<1>2. Holders = {}
  BY CancelTreeAssumption DEF Init, Holders, Nodes
<1>3. \A k \in Connections : slot[k] = None
  BY DEF Init, Nodes
<1>. QED  BY <1>1, <1>2, <1>3 DEF TreeInv, IsForest

LEMMA NextTreeInv == TreeInv /\ [Next]_vars => TreeInv'
<1>. SUFFICES ASSUME TreeInv, [Next]_vars PROVE TreeInv'
  OBVIOUS
<1>. USE CancelTreeAssumption
<1>1. IInv'
  BY NextIInv DEF TreeInv
<1>2. /\ alive \subseteq Cancels /\ list \in [Nodes -> alive \cup {None}]
      /\ slot \in [Nodes -> Nodes \cup {None}]
      /\ \A c \in Cancels : slot[c] # None => slot[c] = c /\ c \in alive
      /\ \A k \in Connections : slot[k] \in Connections \cup {None}
      /\ \A k \in Cancels : k \in Nodes /\ k \notin Connections
      /\ \A k \in Connections : k \in Nodes
  BY DEF TreeInv, IInv, TypeOK, SlotsCallTheirOwners, Nodes
<1>3. /\ IsForest(list, Holders) /\ Holders \subseteq Cancels
      /\ \A j, k \in Connections : slot[j] = slot[k] /\ slot[j] # None => j = k
  BY DEF TreeInv, Holders
(* Most steps take edges out of the tree or none.                          *)
<1>4. ASSUME \A c \in Cancels : list'[c] \in {list[c], None} /\ slot'[c] \in {slot[c], None},
             \A k \in Connections : slot'[k] \in {slot[k], None}
      PROVE  TreeInv'
  <2>1. Holders' \subseteq Holders /\ Holders' \subseteq Cancels
    BY <1>4 DEF Holders
  <2>2. IsForest(list', Holders')
    BY <1>3, <1>4, <2>1, FewerEdges
  <2>3. \A j, k \in Connections : slot'[j] = slot'[k] /\ slot'[j] # None => j = k
    BY <1>3, <1>4
  <2>. QED  BY <1>1, <2>2, <2>3 DEF TreeInv
<1>5. ASSUME NEW c \in Cancels, Construct(c) PROVE TreeInv'
  BY <1>4, <1>5 DEF Construct
<1>6. ASSUME NEW c \in Cancels, Destroy(c) PROVE TreeInv'
  <2>1. \A n \in Nodes : list'[n] \in {list[n], None} /\ slot'[n] \in {slot[n], None}
    BY <1>2, <1>6 DEF Destroy
  <2>. QED  BY <1>2, <1>4, <2>1
<1>7. ASSUME NEW c \in Cancels, Call(c) PROVE TreeInv'
  <2>1. \A n \in Nodes : list'[n] \in {list[n], None} /\ slot'[n] = slot[n]
    BY <1>7 DEF Call
  <2>. QED  BY <1>2, <1>4, <2>1
<1>8. ASSUME NEW c \in Cancels, NEW d \in Cancels, ConstructUnder(c, d) PROVE TreeInv'
  <2>1. /\ c \notin alive /\ d \in alive /\ c # d
        /\ list' = [list EXCEPT ![c] = d] /\ slot' = [slot EXCEPT ![c] = c]
    BY <1>8 DEF ConstructUnder
  <2>2. /\ list'[c] = d /\ slot'[c] = c
        /\ \A n \in Nodes \ {c} : list'[n] = list[n] /\ slot'[n] = slot[n]
    BY <1>2, <2>1
  <2>3. Holders' = Holders \cup {c}
    BY <1>2, <2>2 DEF Holders
  <2>4. \A j \in Holders : j # c /\ list'[j] = list[j] /\ list[j] # c
    <3>1. c \notin Holders
      BY <1>2, <2>1 DEF Holders
    <3>2. \A n \in Nodes : list[n] # c
      BY <1>2, <2>1
    <3>. QED  BY <1>2, <1>3, <2>2, <3>1, <3>2
  <2>5. IsForest(list', Holders')
    <3>1. PICK m, g : m = list' /\ g = Holders'
      OBVIOUS
    <3>2. g = Holders \cup {c} /\ m[c] = d /\ (\A j \in Holders : j # c /\ m[j] = list[j] /\ list[j] # c)
      BY <2>2, <2>3, <2>4, <3>1
    <3>3. IsForest(m, Holders \cup {c})
      BY <1>3, <2>1, <3>2, NewLeaf
    <3>. QED  BY <3>1, <3>2, <3>3
  <2>6. \A j, k \in Connections : slot'[j] = slot'[k] /\ slot'[j] # None => j = k
    BY <1>2, <1>3, <2>2
  <2>. QED  BY <1>1, <2>5, <2>6 DEF TreeInv
<1>9. ASSUME NEW c \in Cancels, NEW d \in Cancels, MoveConstruct(d, c) \/ MoveAssign(d, c)
      PROVE  TreeInv'
  <2>1. /\ c # d /\ d \notin Below(list, Holders, c)
        /\ IsMoved(list', Holders', list, Holders, c, d)
        /\ \A k \in Connections : slot'[k] = slot[k]
    BY <1>9, MovesAreMoves
  <2>2. IsForest(list', Holders')
    BY <1>3, <2>1, MovedIsForest
  <2>. QED  BY <1>1, <1>3, <2>1, <2>2 DEF TreeInv
<1>10. ASSUME NEW k \in Connections, Disconnect(k) PROVE TreeInv'
  <2>1. \A n \in Nodes : list'[n] \in {list[n], None} /\ slot'[n] \in {slot[n], None}
    BY <1>2, <1>10 DEF Disconnect
  <2>. QED  BY <1>2, <1>4, <2>1
<1>11. ASSUME NEW k \in Connections, NEW c \in Cancels, Connect(k, c) PROVE TreeInv'
  <2>1. /\ list' = [list EXCEPT ![k] = c] /\ slot' = [slot EXCEPT ![k] = k]
        /\ \A j \in Connections : slot[j] # k
    BY <1>11 DEF Connect
  <2>2. /\ slot'[k] = k /\ \A n \in Nodes \ {k} : list'[n] = list[n] /\ slot'[n] = slot[n]
    BY <1>2, <2>1
  <2>3. /\ Holders' = Holders /\ \A n \in Holders : list'[n] = list[n]
    BY <1>2, <2>2 DEF Holders
  <2>4. IsForest(list', Holders')
    BY <1>3, <2>3, FewerEdges
  <2>5. \A i, j \in Connections : slot'[i] = slot'[j] /\ slot'[i] # None => i = j
    BY <1>2, <1>3, <2>1, <2>2
  <2>. QED  BY <1>1, <2>4, <2>5 DEF TreeInv
<1>12. ASSUME NEW j \in Connections, NEW k \in Connections, MoveConnection(j, k) PROVE TreeInv'
  <2>1. /\ j # k /\ list' = [list EXCEPT ![j] = list[k], ![k] = list[j]]
        /\ slot' = [slot EXCEPT ![j] = slot[k], ![k] = None]
    BY <1>12 DEF MoveConnection, SwapNodes
  <2>2. /\ slot'[j] = slot[k] /\ slot'[k] = None
        /\ \A n \in Nodes \ {j, k} : list'[n] = list[n] /\ slot'[n] = slot[n]
    BY <1>2, <2>1
  <2>3. /\ Holders' = Holders /\ \A n \in Holders : list'[n] = list[n]
    BY <1>2, <2>2 DEF Holders
  <2>4. IsForest(list', Holders')
    BY <1>3, <2>3, FewerEdges
  <2>5. \A i, n \in Connections : slot'[i] = slot'[n] /\ slot'[i] # None => i = n
    BY <1>2, <1>3, <2>1, <2>2
  <2>. QED  BY <1>1, <2>4, <2>5 DEF TreeInv
<1>13. CASE UNCHANGED vars
  BY <1>4, <1>13 DEF vars
<1>. QED  BY <1>5, <1>6, <1>7, <1>8, <1>9, <1>10, <1>11, <1>12, <1>13 DEF Next

LEMMA SpecTreeInv == Spec => []TreeInv
BY InitTreeInv, NextTreeInv, PTL DEF Spec

LEMMA StopsAreAfterwards == IInv' => StopsBelow'
BY StopsAre, PTL

(* What the clients see of a move.                                         *)
LEMMA StopsAfterMove ==
    ASSUME TreeInv, TreeInv', NEW c \in Cancels, NEW d \in Cancels,
           MoveConstruct(d, c) \/ MoveAssign(d, c),
           NEW x \in Cancels, x # d, NEW y \in Cancels, y = Swap(c, d, x)
    PROVE  Stops(y)' = ClientsIn(Rest(list, Holders, c, d, x))
<1>0. IInv'
  BY DEF TreeInv
<1>1. \A z \in Cancels : Stops(z)' = ClientsIn(Below(list, Holders, z))'
  BY <1>0, StopsAreAfterwards DEF StopsBelow
<1>2. PICK R : R = Rest(list, Holders, c, d, x)
  OBVIOUS
<1>3. PICK M : M = Below(list', Holders', y)
  OBVIOUS
<1>4. M = {z \in Cancels : Swap(c, d, z) \in R}
  <2>1. IsForest(list, Holders) /\ Holders \subseteq Cancels
    BY DEF TreeInv, Holders
  <2>2. /\ c # d /\ d \notin Below(list, Holders, c)
        /\ IsMoved(list', Holders', list, Holders, c, d)
    BY MovesAreMoves
  <2>3. x \in Cancels \ {d}
    OBVIOUS
  <2>. QED  BY <1>2, <1>3, <2>1, <2>2, <2>3, MovedIsForest
<1>5. R \subseteq Cancels
  BY <1>2 DEF Rest, Below
<1>6. ASSUME NEW k \in Connections
      PROVE  slot'[k] = slot[k] /\ (list'[k] \in M <=> list[k] \in R)
  <2>1. list'[k] = Swap(c, d, list[k]) /\ slot'[k] = slot[k]
    BY MovesAreMoves
  <2>2. Swap(c, d, list'[k]) = list[k] /\ (list[k] \in Cancels => list'[k] \in Cancels)
    BY <2>1, SwapTwice
  <2>. QED  BY <1>4, <1>5, <2>1, <2>2
<1>7. Stops(y)' = {slot'[k] : k \in {j \in Connections : list'[j] \in M}} \cap Connections
  BY <1>1, <1>3 DEF ClientsIn
<1>8. ClientsIn(R) = {slot[k] : k \in {j \in Connections : list[j] \in R}} \cap Connections
  BY DEF ClientsIn
<1>9. {j \in Connections : list'[j] \in M} = {j \in Connections : list[j] \in R}
  BY <1>6
<1>. QED  BY <1>2, <1>6, <1>7, <1>8, <1>9

(* Moving a cancel_t moves what its call stops, and nothing else: for any  *)
(* number of cancel_t's and clients, nested to any depth, linked and moved *)
(* before in whatever way (cancel.h:56-80).                                *)
THEOREM MovesKeepWhatIsStopped == Spec => MovesKeepReach
<1>1. ASSUME TreeInv, TreeInv', NEW c \in Cancels, NEW d \in Cancels,
             MoveConstruct(d, c) \/ MoveAssign(d, c), ~IsAbove(d, c)
      PROVE  /\ Stops(d)' = Stops(c)
             /\ \A p \in alive \ {c, d} :
                   Stops(p)' = (Stops(p) \ (IF IsAbove(p, d) THEN Stops(d) ELSE {}))
                                  \cup (IF IsAbove(p, c) \/ (slot[c] = None /\ IsAbove(p, d))
                                        THEN Stops(c) ELSE {})
  <2>1. c # d /\ d \notin Below(list, Holders, c)
    BY <1>1, MovesAreMoves
  <2>2. c \notin Below(list, Holders, d)
    BY <1>1, <2>1, AboveIsBelow
  <2>3. Holders \subseteq Cancels /\ alive \subseteq Cancels
    BY <1>1 DEF Holders, TreeInv, IInv, TypeOK
  <2>4. \A x \in Cancels : Stops(x) = ClientsIn(Below(list, Holders, x))
    BY <1>1, StopsAre DEF TreeInv, StopsBelow
  <2>5. c \in Holders <=> slot[c] # None
    BY <1>1, CancelTreeAssumption DEF TreeInv, IInv, SlotsCallTheirOwners, Holders
  <2>6. Stops(d)' = Stops(c)
    <3>1. Swap(c, d, c) = d
      BY DEF Swap
    <3>2. Stops(d)' = ClientsIn(Rest(list, Holders, c, d, c))
      BY <1>1, <2>1, <3>1, StopsAfterMove
    <3>3. Rest(list, Holders, c, d, c) = Below(list, Holders, c)
      BY <2>1 DEF Rest
    <3>. QED  BY <2>4, <3>2, <3>3
  <2>7. ASSUME NEW p \in alive \ {c, d}
        PROVE  Stops(p)' = (Stops(p) \ (IF IsAbove(p, d) THEN Stops(d) ELSE {}))
                              \cup (IF IsAbove(p, c) \/ (slot[c] = None /\ IsAbove(p, d))
                                    THEN Stops(c) ELSE {})
    <3>1. p \in Cancels /\ p # c /\ p # d /\ p = Swap(c, d, p)
      BY <2>3 DEF Swap
    <3>2. PICK B, C, D : /\ B = Below(list, Holders, p) /\ C = Below(list, Holders, c)
                         /\ D = Below(list, Holders, d)
      OBVIOUS
    <3>3. (IsAbove(p, d) <=> d \in B) /\ (IsAbove(p, c) <=> c \in B)
      BY <1>1, <3>1, <3>2, AboveIsBelow
    <3>4. Stops(p) = ClientsIn(B) /\ Stops(c) = ClientsIn(C) /\ Stops(d) = ClientsIn(D)
      BY <2>4, <3>1, <3>2
    <3>5. PICK R : R = (B \ (IF d \in B THEN D ELSE {}))
                          \cup (IF d \in B /\ c \notin Holders THEN C ELSE {})
      OBVIOUS
    <3>6. Stops(p)' = ClientsIn(R)
      BY <1>1, <3>1, <3>2, <3>5, StopsAfterMove DEF Rest
    <3>7. C \cap D = {}
      BY <2>1, <2>2, <2>3, <3>2, BelowIsApart
    <3>8. c \in B => C \subseteq B /\ c \in Holders
      BY <2>3, <3>1, <3>2, BelowIsTransitive, BelowHasParent
    <3>9. R = (B \ (IF d \in B THEN D ELSE {}))
                 \cup (IF c \in B \/ (c \notin Holders /\ d \in B) THEN C ELSE {})
      BY <3>5, <3>7, <3>8
    <3>10. \A X, Y, Z : ClientsIn((X \ Y) \cup Z) = (ClientsIn(X) \ ClientsIn(Y)) \cup ClientsIn(Z)
      <4>1. \A j, k \in Connections : slot[j] = slot[k] /\ slot[j] # None => j = k
        BY <1>1 DEF TreeInv
      <4>. QED  BY <4>1, CancelTreeAssumption DEF ClientsIn
    <3>11. ClientsIn({}) = {}
      BY DEF ClientsIn
    <3>12. ClientsIn(R) = (ClientsIn(B) \ (IF d \in B THEN ClientsIn(D) ELSE {}))
              \cup (IF c \in B \/ (c \notin Holders /\ d \in B) THEN ClientsIn(C) ELSE {})
      <4>1. PICK Y, Z : /\ Y = (IF d \in B THEN D ELSE {})
                        /\ Z = (IF c \in B \/ (c \notin Holders /\ d \in B) THEN C ELSE {})
        OBVIOUS
      <4>2. ClientsIn(R) = (ClientsIn(B) \ ClientsIn(Y)) \cup ClientsIn(Z)
        BY <3>9, <3>10, <4>1
      <4>. QED  BY <3>11, <4>1, <4>2
    <3>. QED  BY <2>5, <3>3, <3>4, <3>6, <3>12
  <2>. QED  BY <2>6, <2>7
<1>2. TreeInv /\ TreeInv' /\ [Next]_vars =>
         [\A c, d \in Cancels :
             MoveConstruct(d, c) \/ MoveAssign(d, c) =>
                 IsAbove(d, c)
                     \/ /\ Stops(d)' = Stops(c)
                        /\ \A p \in alive \ {c, d} :
                              Stops(p)' = (Stops(p) \ (IF IsAbove(p, d) THEN Stops(d) ELSE {}))
                                             \cup (IF IsAbove(p, c) \/ (slot[c] = None /\ IsAbove(p, d))
                                                   THEN Stops(c) ELSE {})]_vars
  BY <1>1
<1>. QED  BY <1>2, SpecTreeInv, PTL DEF Spec, MovesKeepReach
=============================================================================
