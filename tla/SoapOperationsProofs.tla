------------------------- MODULE SoapOperationsProofs -------------------------
(***************************************************************************)
(* What the operations make of an answer, for any answers: trees of any    *)
(* depth, with any children in any order.                                  *)
(***************************************************************************)
EXTENDS SoapOperations, SequenceLemmas

Kids == [name : STRING \X STRING, tree : Trees]

LEMMA TreesAreTyped ==
    ASSUME NEW tree \in Trees
    PROVE  tree.text \in STRING /\ tree.parsed \in Optional(Trees) /\ tree.children \in Seq(Kids)
BY SoapOperationsAssumption DEF Kids

LEMMA KidsAreTyped ==
    ASSUME NEW tree \in Trees
    PROVE  \E n \in Nat : /\ n = Len(tree.children) /\ DOMAIN tree.children = 1 .. n
                          /\ \A i \in 1 .. n : tree.children[i].tree \in Trees
<1>1. PICK children \in Seq(Kids) : children = tree.children
  BY TreesAreTyped
<1>2. PICK n \in Nat : n = Len(children) /\ DOMAIN children = 1 .. n
  OBVIOUS
<1>3. \A i \in 1 .. n : children[i] \in Kids
  BY <1>2
<1>4. \A kid \in Kids : kid.tree \in Trees
  BY DEF Kids
<1>. QED  BY <1>1, <1>2, <1>3, <1>4

-----------------------------------------------------------------------------
(* Looking up children.                                                    *)

Named(tree, name) == {i \in 1 .. Len(tree.children) : tree.children[i].name = name}

Matching(tree, pattern) ==
    {i \in 1 .. Len(tree.children) : Matches(tree.children[i].name, pattern)}

(* One step of get_child.                                                  *)
Down(found, pattern) ==
    IF found = Nothing THEN Nothing
    ELSE FirstChild(found[1], LAMBDA name : Matches(name, pattern))

LEMMA TextIs ==
    ASSUME NEW tree, Len(tree.children) \in Nat, NEW name
    PROVE  GetText(tree, name) =
               IF Named(tree, name) = {} THEN Nothing
               ELSE <<tree.children[Min(Named(tree, name))].tree.text>>
<1>1. PICK I : I = Named(tree, name)
  OBVIOUS
<1>2. I # {} => Min(I) \in I /\ Min(I) # 0
  <2>1. I \subseteq Nat /\ 0 \notin I
    BY <1>1 DEF Named
  <2>. QED  BY <2>1, MinIsIn
<1>. QED  BY <1>1, <1>2 DEF GetText, FirstChild, SelectInSeq, Named, Nothing

LEMMA DownIs ==
    ASSUME NEW tree, Len(tree.children) \in Nat, NEW pattern
    PROVE  /\ Down(<<tree>>, pattern) =
               IF Matching(tree, pattern) = {} THEN Nothing
               ELSE <<tree.children[Min(Matching(tree, pattern))].tree>>
           /\ Matching(tree, pattern) # {} =>
                 Min(Matching(tree, pattern)) \in Matching(tree, pattern)
<1>1. PICK I : I = Matching(tree, pattern)
  OBVIOUS
<1>2. I # {} => Min(I) \in I /\ Min(I) # 0
  <2>1. I \subseteq Nat /\ 0 \notin I
    BY <1>1 DEF Matching
  <2>. QED  BY <2>1, MinIsIn
<1>3. FirstChild(tree, LAMBDA name : Matches(name, pattern)) =
         IF I = {} THEN Nothing ELSE <<tree.children[Min(I)].tree>>
  BY <1>1, <1>2 DEF FirstChild, SelectInSeq, Matching
<1>4. <<tree>> # Nothing /\ <<tree>>[1] = tree
  BY DEF Nothing
<1>5. Down(<<tree>>, pattern) = FirstChild(tree, LAMBDA name : Matches(name, pattern))
  BY <1>4 DEF Down
<1>. QED  BY <1>1, <1>2, <1>3, <1>5

(* get_child goes down step by step.                                       *)
LEMMA Steps ==
    ASSUME NEW tree, NEW base, base = <<tree>>,
           NEW path, NEW n \in Nat, DOMAIN path = 1 .. n
    PROVE  \E found : /\ found[0] = base
                      /\ \A k \in 1 .. n : found[k] = Down(found[k - 1], path[k])
                      /\ GetChild(tree, path) = found[n]
<1>. DEFINE Step(f, s) == IF s = {} THEN base
                          ELSE Down(f[s \ {Max(s)}], path[Max(s)])
            Upto(k) == \E f : f = [s \in SUBSET (1 .. k) |-> Step(f, s)]
            K == {k \in Nat : Upto(k)}
            iter == CHOOSE f : f = [s \in SUBSET (1 .. n) |-> Step(f, s)]
<1>1. GetChild(tree, path) = iter[1 .. n]
  BY DEF GetChild, FoldLeft, MapThenFoldSet, Down, FirstChild, SelectInSeq
<1>2. Upto(0)
  <2>1. SUBSET (1 .. 0) = {{}}
    OBVIOUS
  <2>2. \A s \in SUBSET (1 .. 0) : Step([t \in SUBSET (1 .. 0) |-> base], s) = base
    BY <2>1
  <2>. HIDE DEF Step
  <2>3. [s \in SUBSET (1 .. 0) |-> base]
          = [s \in SUBSET (1 .. 0) |-> Step([t \in SUBSET (1 .. 0) |-> base], s)]
    BY <2>2
  <2>. QED  BY <2>3
<1>3. ASSUME NEW k \in Nat, Upto(k) PROVE Upto(k + 1)
  <2>1. PICK f : f = [s \in SUBSET (1 .. k) |-> Step(f, s)]
    BY <1>3
  <2>. DEFINE g == [s \in SUBSET (1 .. k + 1) |->
                      IF k + 1 \in s
                      THEN Down(f[s \ {k + 1}], path[k + 1]) ELSE f[s]]
  <2>2. ASSUME NEW s \in SUBSET (1 .. k + 1) PROVE g[s] = Step(g, s)
    <3>1. s # {} => Max(s) \in s /\ \A x \in s : Max(s) >= x
      <4>1. k + 1 \in Nat /\ s \subseteq 0 .. k + 1
        OBVIOUS
      <4>. QED  BY <4>1, MaxIsIn
    <3>2. g[s] = IF k + 1 \in s
                 THEN Down(f[s \ {k + 1}], path[k + 1]) ELSE f[s]
      OBVIOUS
    <3>3. ASSUME NEW t \in SUBSET (1 .. k) PROVE g[t] = f[t]
      <4>1. k + 1 \notin t /\ t \in SUBSET (1 .. k + 1)
        OBVIOUS
      <4>. QED  BY <4>1
    <3>. HIDE DEF g
    <3>4. CASE k + 1 \in s
      <4>1. Max(s) = k + 1
        <5>1. PICK m : m = Max(s)
          OBVIOUS
        <5>2. m \in 1 .. k + 1 /\ m >= k + 1
          BY <3>1, <3>4, <5>1
        <5>. QED  BY <5>1, <5>2
      <4>2. s \ {k + 1} \in SUBSET (1 .. k)
        OBVIOUS
      <4>3. g[s \ {k + 1}] = f[s \ {k + 1}]
        BY <3>3, <4>2
      <4>. QED  BY <3>2, <3>4, <4>1, <4>3
    <3>5. CASE k + 1 \notin s
      <4>1. s \in SUBSET (1 .. k)
        BY <3>5
      <4>2. s \ {Max(s)} \in SUBSET (1 .. k)
        BY <4>1
      <4>3. f[s] = Step(f, s)
        <5>. HIDE DEF Step
        <5>. QED  BY <2>1, <4>1
      <4>4. g[s \ {Max(s)}] = f[s \ {Max(s)}]
        BY <3>3, <4>2
      <4>. QED  BY <3>2, <3>5, <4>3, <4>4
    <3>. QED  BY <3>4, <3>5
  <2>3. g = [s \in SUBSET (1 .. k + 1) |-> Step(g, s)]
    <3>1. g = [s \in SUBSET (1 .. k + 1) |-> g[s]]
      OBVIOUS
    <3>. HIDE DEF g, Step
    <3>. QED  BY <2>2, <3>1
  <2>. HIDE DEF g
  <2>. QED  BY <2>3
<1>4. Upto(n)
  <2>. HIDE DEF Upto
  <2>1. 0 \in K /\ \A k \in Nat : k \in K => k + 1 \in K
    BY <1>2, <1>3
  <2>2. n \in K
    <3>. HIDE DEF K
    <3>. QED  BY <2>1, Induction
  <2>. QED  BY <2>2
<1>5. iter = [s \in SUBSET (1 .. n) |-> Step(iter, s)]
  <2>. HIDE DEF Step
  <2>. QED  BY <1>4
<1>6. PICK acc : acc = [k \in 0 .. n |-> iter[1 .. k]]
  OBVIOUS
<1>. HIDE DEF iter
<1>7. acc[0] = base
  <2>1. 1 .. 0 = {} /\ {} \in SUBSET (1 .. n)
    OBVIOUS
  <2>2. iter[{}] = Step(iter, {})
    <3>. HIDE DEF Step
    <3>. QED  BY <1>5, <2>1
  <2>. QED  BY <1>6, <2>1, <2>2
<1>8. ASSUME NEW k \in 1 .. n PROVE acc[k] = Down(acc[k - 1], path[k])
  <2>1. 1 .. k \in SUBSET (1 .. n) /\ 1 .. k # {} /\ k \in 0 .. n /\ k - 1 \in 0 .. n
    OBVIOUS
  <2>2. Max(1 .. k) = k
    <3>1. k \in Nat /\ 1 .. k \subseteq 0 .. k
      OBVIOUS
    <3>2. Max(1 .. k) \in 1 .. k /\ \A x \in 1 .. k : Max(1 .. k) >= x
      BY <2>1, <3>1, MaxIsIn
    <3>. QED  BY <3>2
  <2>3. (1 .. k) \ {k} = 1 .. k - 1
    OBVIOUS
  <2>4. iter[1 .. k] = Step(iter, 1 .. k)
    <3>. HIDE DEF Step
    <3>. QED  BY <1>5, <2>1
  <2>. QED  BY <1>6, <2>1, <2>2, <2>3, <2>4
<1>9. GetChild(tree, path) = acc[n]
  BY <1>1, <1>6
<1>. QED  BY <1>7, <1>8, <1>9

LEMMA FourSteps ==
    ASSUME NEW tree, NEW base, base = <<tree>>,
           NEW path, NEW n \in {3, 4}, DOMAIN path = 1 .. n
    PROVE  \E three : /\ three = Down(Down(Down(base, path[1]), path[2]), path[3])
                      /\ GetChild(tree, path) = IF n = 3 THEN three ELSE Down(three, path[4])
<1>1. PICK found : /\ found[0] = base
                   /\ \A k \in 1 .. n : found[k] = Down(found[k - 1], path[k])
                   /\ GetChild(tree, path) = found[n]
  <2>1. n \in Nat
    OBVIOUS
  <2>. QED  BY <2>1, Steps
<1>2. /\ found[1] = Down(found[0], path[1]) /\ found[2] = Down(found[1], path[2])
      /\ found[3] = Down(found[2], path[3])
  <2>1. \A k \in {1, 2, 3} : k \in 1 .. n
    OBVIOUS
  <2>2. 1 - 1 = 0 /\ 2 - 1 = 1 /\ 3 - 1 = 2
    OBVIOUS
  <2>. QED  BY <1>1, <2>1, <2>2
<1>3. n = 4 => found[4] = Down(found[3], path[4])
  <2>1. 4 - 1 = 3 /\ (n = 4 => 4 \in 1 .. n)
    OBVIOUS
  <2>. QED  BY <1>1, <2>1
<1>. QED  BY <1>1, <1>2, <1>3

(* What is found in a tree is a tree.                                      *)
LEMMA DownIsTyped ==
    ASSUME NEW found \in Optional(Trees), NEW pattern
    PROVE  Down(found, pattern) \in Optional(Trees)
<1>1. CASE found = Nothing
  BY <1>1 DEF Down, Optional
<1>2. CASE found # Nothing
  <2>1. PICK tree \in Trees : found = <<tree>>
    BY <1>2 DEF Optional
  <2>2. PICK n \in Nat : /\ n = Len(tree.children)
                         /\ \A i \in 1 .. n : tree.children[i].tree \in Trees
    BY KidsAreTyped
  <2>3. PICK I : I = Matching(tree, pattern)
    OBVIOUS
  <2>4. \A i \in I : tree.children[i].tree \in Trees
    BY <2>2, <2>3 DEF Matching
  <2>5. /\ Down(found, pattern) = IF I = {} THEN Nothing ELSE <<tree.children[Min(I)].tree>>
        /\ I # {} => Min(I) \in I
    BY <2>1, <2>2, <2>3, DownIs
  <2>. QED  BY <2>4, <2>5 DEF Optional
<1>. QED  BY <1>1, <1>2

LEMMA ChildIsTyped ==
    ASSUME NEW tree \in Trees, NEW path, NEW n \in Nat, DOMAIN path = 1 .. n
    PROVE  GetChild(tree, path) \in Optional(Trees)
<1>0. PICK base : base = <<tree>>
  OBVIOUS
<1>1. PICK found : /\ found[0] = base
                   /\ \A k \in 1 .. n : found[k] = Down(found[k - 1], path[k])
                   /\ GetChild(tree, path) = found[n]
  BY <1>0, Steps
<1>. DEFINE K == {k \in Nat : k \in 0 .. n => found[k] \in Optional(Trees)}
<1>2. 0 \in K
  BY <1>0, <1>1 DEF Optional
<1>3. ASSUME NEW k \in Nat, k \in K PROVE k + 1 \in K
  <2>. SUFFICES ASSUME k + 1 \in 0 .. n PROVE found[k + 1] \in Optional(Trees)
    OBVIOUS
  <2>1. found[k] \in Optional(Trees)
    BY <1>3
  <2>2. PICK j \in 1 .. n : j = k + 1 /\ j - 1 = k
    OBVIOUS
  <2>. QED  BY <1>1, <2>1, <2>2, DownIsTyped
<1>4. n \in K
  <2>. HIDE DEF K
  <2>. QED  BY <1>2, <1>3, Induction
<1>. QED  BY <1>1, <1>4

-----------------------------------------------------------------------------
(* Entries.                                                                *)

LEMMA FieldsAreTyped ==
    ASSUME NEW tree \in Trees, NEW name
    PROVE  /\ GetText(tree, name) \in Optional(STRING)
           /\ \A limit \in Nat : GetNum(tree, name, limit) \in Optional(0 .. limit)
           /\ GetAddress(tree, name) \in Optional({AddressOf[t] : t \in DOMAIN AddressOf})
<1>1. GetText(tree, name) \in Optional(STRING)
  <2>1. PICK n \in Nat : /\ n = Len(tree.children)
                         /\ \A i \in 1 .. n : tree.children[i].tree \in Trees
    BY KidsAreTyped
  <2>2. PICK I : I = Named(tree, name)
    OBVIOUS
  <2>3. \A i \in I : tree.children[i].tree \in Trees
    BY <2>1, <2>2 DEF Named
  <2>4. I # {} => Min(I) \in I
    <3>1. I \subseteq Nat
      BY <2>2 DEF Named
    <3>. QED  BY <3>1, MinIsIn
  <2>5. ASSUME I # {} PROVE tree.children[Min(I)].tree.text \in STRING
    BY <2>3, <2>4, <2>5, TreesAreTyped
  <2>6. GetText(tree, name) =
           IF I = {} THEN Nothing ELSE <<tree.children[Min(I)].tree.text>>
    BY <2>1, <2>2, TextIs
  <2>. QED  BY <2>5, <2>6 DEF Optional
<1>2. PICK text \in Optional(STRING) : text = GetText(tree, name)
  BY <1>1
<1>3. ASSUME NEW limit \in Nat PROVE GetNum(tree, name, limit) \in Optional(0 .. limit)
  <2>1. text[1] \in DOMAIN Numeral => Numeral[text[1]] \in Nat
    BY SoapOperationsAssumption
  <2>. QED  BY <1>2, <2>1 DEF GetNum, Optional
<1>4. GetAddress(tree, name) \in Optional({AddressOf[t] : t \in DOMAIN AddressOf})
  BY <1>2 DEF GetAddress, Optional
<1>. QED  BY <1>1, <1>3, <1>4

LEMMA EntriesAreTyped ==
    ASSUME NEW tree \in Trees, NEW names,
           NEW protocols, \A p \in DOMAIN protocols : protocols[p] \in {"tcp", "udp"}
    PROVE  EntryIn(tree, names, protocols) \in Optional(Entries)
<1>1. UINT16_MAX \in Nat /\ UINT32_MAX \in Nat /\ Ports = 0 .. UINT16_MAX
  BY SoapOperationsAssumption DEF UINT16_MAX, Ports
<1>2. PICK description, external, internal, lease, protocol, client, enabled :
         /\ description = GetText(tree, names.description)
         /\ external = GetNum(tree, names.external, UINT16_MAX)
         /\ internal = GetNum(tree, names.internal, UINT16_MAX)
         /\ lease = GetNum(tree, names.lease, UINT32_MAX)
         /\ protocol = GetText(tree, names.protocol)
         /\ client = GetAddress(tree, names.client)
         /\ enabled = GetNum(tree, names.enabled, UINT16_MAX)
  OBVIOUS
<1>3. /\ description \in Optional(STRING) /\ external \in Optional(Ports)
      /\ internal \in Optional(Ports) /\ lease \in Optional(0 .. UINT32_MAX)
      /\ client \in Optional({AddressOf[t] : t \in DOMAIN AddressOf})
      /\ enabled \in Optional(Ports)
  BY <1>1, <1>2, FieldsAreTyped
<1>4. CASE \/ Nothing \in {external, internal, lease, enabled}
           \/ Nothing \in {description, protocol}
           \/ client = Nothing
           \/ protocol[1] \notin DOMAIN protocols
  BY <1>2, <1>4 DEF EntryIn, Optional
<1>5. CASE ~(\/ Nothing \in {external, internal, lease, enabled}
             \/ Nothing \in {description, protocol}
             \/ client = Nothing
             \/ protocol[1] \notin DOMAIN protocols)
  <2>1. PICK e : e = [description |-> description[1], ext_port |-> external[1],
                      int_port |-> internal[1], lease_duration |-> lease[1],
                      proto |-> protocols[protocol[1]], int_client |-> client[1],
                      enabled |-> enabled[1] # 0]
    OBVIOUS
  <2>2. EntryIn(tree, names, protocols) = <<e>>
    BY <1>2, <1>5, <2>1 DEF EntryIn
  <2>3. /\ description[1] \in STRING /\ external[1] \in Ports /\ internal[1] \in Ports
        /\ lease[1] \in Nat /\ client[1] \in {AddressOf[t] : t \in DOMAIN AddressOf}
    BY <1>1, <1>3, <1>5 DEF Optional
  <2>4. protocols[protocol[1]] \in {"tcp", "udp"}
    BY <1>5
  <2>5. e \in Entries
    BY <2>1, <2>3, <2>4 DEF Entries
  <2>. QED  BY <2>2, <2>5 DEF Optional
<1>. QED  BY <1>4, <1>5

LEMMA ListedIsTyped ==
    ASSUME NEW tree \in Trees
    PROVE  ListEntry(tree) \in Optional(Entries)
<1>1. \A p \in DOMAIN UpperCase : UpperCase[p] \in {"tcp", "udp"}
  BY DEF UpperCase
<1>. QED  BY <1>1, EntriesAreTyped DEF ListEntry

LEMMA ListsAreTyped ==
    ASSUME NEW list \in Trees
    PROVE  EntriesOf(list) \in Seq(Entries)
<1>0. PICK children : children = list.children
  OBVIOUS
<1>1. PICK n \in Nat : /\ DOMAIN children = 1 .. n
                       /\ \A i \in 1 .. n : children[i].tree \in Trees
  BY <1>0, KidsAreTyped
<1>2. PICK E : E = Entries
  OBVIOUS
<1>3. PICK T : T = Seq(E)
  OBVIOUS
<1>4. \A i \in 1 .. n : ListEntry(children[i].tree) \in T
  <2>1. \A i \in 1 .. n : ListEntry(children[i].tree) \in Optional(E)
    BY <1>1, <1>2, ListedIsTyped
  <2>2. Optional(E) \subseteq T
    <3>1. <<>> \in Seq(E) /\ \A e \in E : <<e>> \in Seq(E)
      OBVIOUS
    <3>. QED  BY <1>3, <3>1 DEF Optional, Nothing
  <2>. QED  BY <2>1, <2>2
<1>5. PICK ss : ss = [i \in DOMAIN children |->
                         IF children[i].name = Prefixed("PortMappingEntry")
                         THEN ListEntry(children[i].tree) ELSE Nothing]
  OBVIOUS
<1>6. ss \in Seq(T)
  <2>1. Nothing \in T
    BY <1>3 DEF Nothing
  <2>2. \A i \in 1 .. n : ss[i] \in T
    BY <1>1, <1>4, <1>5, <2>1
  <2>. QED  BY <1>1, <1>5, <2>2
<1>7. FlattenSeq(ss) \in Seq(E)
  BY <1>3, <1>6, FlattenElements
<1>. QED  BY <1>0, <1>1, <1>2, <1>5, <1>7 DEF EntriesOf

-----------------------------------------------------------------------------
(* Results.                                                                *)

Reads == {"GetGenericPortMappingEntry", "GetListOfPortMappings"}

IsOutcome(op, o) ==
    \/ o.error \in Errors[op] /\ o.value = Nothing
    \/ o.error = "none" /\ (op \in Reads => \A i \in DOMAIN o.value : o.value[i] \in Entries)

LEMMA ExternalAddressIsOutcome ==
    ASSUME NEW tree
    PROVE  IsOutcome("GetExternalIPAddress", ExternalAddress(tree))
<1>1. "GetExternalIPAddress" \notin Reads
  BY DEF Reads
<1>2. Errors["GetExternalIPAddress"] = {"invalid_xml_body", "invalid_response", "bad_address"}
  BY DEF Errors
<1>3. \/ ExternalAddress(tree).error \in {"invalid_response", "bad_address"}
         /\ ExternalAddress(tree).value = Nothing
      \/ ExternalAddress(tree).error = "none"
  BY DEF ExternalAddress, Error, Value
<1>. QED  BY <1>1, <1>2, <1>3 DEF IsOutcome

LEMMA GenericIsOutcome ==
    ASSUME NEW tree \in Trees
    PROVE  IsOutcome("GetGenericPortMappingEntry", GenericPortMapping(tree))
<1>1. PICK found : found = GetChild(tree, InBody("GetGenericPortMappingEntryResponse"))
  OBVIOUS
<1>2. Errors["GetGenericPortMappingEntry"]
        = {"invalid_xml_body", "invalid_response", "null_dereference"}
  BY DEF Errors, Crash, Error
<1>3. CASE found = Nothing
  BY <1>1, <1>2, <1>3 DEF GenericPortMapping, Crash, Error, IsOutcome
<1>4. CASE found # Nothing
  <2>1. found[1] \in Trees
    <3>1. PICK path : path = InBody("GetGenericPortMappingEntryResponse")
      OBVIOUS
    <3>2. DOMAIN path = 1 .. 3 /\ 3 \in Nat
      BY <3>1 DEF InBody
    <3>3. found \in Optional(Trees)
      BY <1>1, <3>1, <3>2, ChildIsTyped
    <3>. QED  BY <1>4, <3>3 DEF Optional
  <2>2. GenericEntry(found[1]) \in Optional(Entries)
    <3>1. \A p \in DOMAIN AnyCase : AnyCase[p] \in {"tcp", "udp"}
      BY DEF AnyCase
    <3>. QED  BY <2>1, <3>1, EntriesAreTyped DEF GenericEntry
  <2>3. CASE GenericEntry(found[1]) = Nothing
    BY <1>1, <1>2, <1>4, <2>3 DEF GenericPortMapping, Error, IsOutcome
  <2>4. CASE GenericEntry(found[1]) # Nothing
    <3>1. PICK e \in Entries : GenericEntry(found[1]) = <<e>>
      BY <2>2, <2>4 DEF Optional
    <3>2. GenericPortMapping(tree) = Value(<<e>>)
      BY <1>1, <1>4, <2>4, <3>1 DEF GenericPortMapping
    <3>3. \A i \in DOMAIN <<e>> : <<e>>[i] \in Entries
      OBVIOUS
    <3>. QED  BY <3>2, <3>3 DEF Value, IsOutcome
  <2>. QED  BY <2>3, <2>4
<1>. QED  BY <1>3, <1>4

ListingPath ==
    <<<<"s", "Envelope">>, <<"s", "Body">>, <<"u", "GetListOfPortMappingsResponse">>,
      Plain("NewPortListing")>>

(* The listing is missing, or the result is what is read of its list.      *)
LEMMA ListIs ==
    ASSUME NEW tree \in Trees
    PROVE  \/ ListOfPortMappings(tree) = Error("invalid_response")
           \/ \E list \in Trees :
                 /\ ListOfPortMappings(tree) = Value(EntriesOf(list))
                 /\ list = GetChild(GetChild(tree, ListingPath)[1].parsed[1],
                                    <<Prefixed("PortMappingList")>>)[1]
<1>1. PICK listing \in Optional(Trees) : listing = GetChild(tree, ListingPath)
  <2>1. PICK path : path = ListingPath
    OBVIOUS
  <2>2. DOMAIN path = 1 .. 4 /\ 4 \in Nat
    BY <2>1 DEF ListingPath
  <2>. QED  BY <2>1, <2>2, ChildIsTyped
<1>2. CASE listing = Nothing \/ listing[1].parsed = Nothing
  BY <1>1, <1>2 DEF ListOfPortMappings, ListingPath
<1>3. CASE listing # Nothing /\ listing[1].parsed # Nothing
  <2>1. listing[1].parsed[1] \in Trees
    <3>1. listing[1] \in Trees
      BY <1>3 DEF Optional
    <3>2. listing[1].parsed \in Optional(Trees)
      BY <3>1, TreesAreTyped
    <3>. QED  BY <1>3, <3>2 DEF Optional
  <2>2. PICK list \in Optional(Trees) :
           list = GetChild(listing[1].parsed[1], <<Prefixed("PortMappingList")>>)
    <3>1. PICK path : path = <<Prefixed("PortMappingList")>>
      OBVIOUS
    <3>2. DOMAIN path = 1 .. 1 /\ 1 \in Nat
      BY <3>1
    <3>. QED  BY <2>1, <3>1, <3>2, ChildIsTyped
  <2>3. CASE list = Nothing
    BY <1>1, <1>3, <2>2, <2>3 DEF ListOfPortMappings, ListingPath
  <2>4. CASE list # Nothing
    <3>1. list[1] \in Trees
      BY <2>4 DEF Optional
    <3>2. ListOfPortMappings(tree) = Value(EntriesOf(list[1]))
      BY <1>1, <1>3, <2>2, <2>4 DEF ListOfPortMappings, ListingPath
    <3>. QED  BY <1>1, <2>2, <3>1, <3>2
  <2>. QED  BY <2>3, <2>4
<1>. QED  BY <1>2, <1>3

LEMMA ListIsOutcome ==
    ASSUME NEW tree \in Trees
    PROVE  IsOutcome("GetListOfPortMappings", ListOfPortMappings(tree))
<1>1. Errors["GetListOfPortMappings"] = {"invalid_xml_body", "invalid_response"}
  BY DEF Errors
<1>2. CASE ListOfPortMappings(tree) = Error("invalid_response")
  BY <1>1, <1>2 DEF Error, IsOutcome
<1>3. ASSUME NEW list \in Trees, ListOfPortMappings(tree) = Value(EntriesOf(list))
      PROVE  IsOutcome("GetListOfPortMappings", ListOfPortMappings(tree))
  <2>1. \A i \in DOMAIN EntriesOf(list) : EntriesOf(list)[i] \in Entries
    BY ListsAreTyped
  <2>. QED  BY <1>3, <2>1 DEF Value, IsOutcome
<1>. QED  BY <1>2, <1>3, ListIs

LEMMA OutcomesAreTyped ==
    ASSUME NEW op \in Operations, NEW answer \in Bodies
    PROVE  IsOutcome(op, Outcome(op, answer))
<1>1. CASE op \in {"AddPortMapping", "DeletePortMapping"}
  BY <1>1 DEF Outcome, Value, IsOutcome, Reads
<1>2. CASE op \notin {"AddPortMapping", "DeletePortMapping"} /\ answer = Nothing
  <2>1. "invalid_xml_body" \in Errors[op]
    BY <1>2 DEF Operations, Errors
  <2>. QED  BY <1>2, <2>1 DEF Outcome, Error, IsOutcome
<1>3. CASE op \notin {"AddPortMapping", "DeletePortMapping"} /\ answer # Nothing
  <2>1. answer[1] \in Trees
    BY <1>3, SoapOperationsAssumption DEF Optional
  <2>2. CASE op = "GetExternalIPAddress"
    BY <1>3, <2>2, ExternalAddressIsOutcome DEF Outcome
  <2>3. CASE op = "GetGenericPortMappingEntry"
    BY <1>3, <2>1, <2>3, GenericIsOutcome DEF Outcome
  <2>4. CASE op = "GetListOfPortMappings"
    BY <1>3, <2>1, <2>4, ListIsOutcome DEF Outcome
  <2>. QED  BY <1>3, <2>2, <2>3, <2>4 DEF Operations
<1>. QED  BY <1>1, <1>2, <1>3

-----------------------------------------------------------------------------

(* What an operation returns is what it makes of the answer.               *)
SInv ==
    /\ operation \in Operations
    /\ outcome # Nothing => body \in Bodies /\ outcome = <<Outcome(operation, body)>>

LEMMA OutcomesAreOfAnswers == Spec => []SInv
<1>1. Init => SInv
  BY DEF Init, SInv
<1>2. SInv /\ [Next]_vars => SInv'
  <2>. SUFFICES ASSUME SInv, [Next]_vars PROVE SInv'
    OBVIOUS
  <2>1. CASE Send
    BY <2>1 DEF Send, SInv
  <2>2. CASE Receive
    BY <2>2 DEF Receive, SInv
  <2>3. CASE UNCHANGED vars
    BY <2>3 DEF vars, SInv
  <2>. QED  BY <2>1, <2>2, <2>3 DEF Next
<1>. QED  BY <1>1, <1>2, PTL DEF Spec

(* Whatever the answer is, an operation returns one of its errors, or a    *)
(* value of its type: ports fit into 16 bits, and every entry is complete. *)
THEOREM OperationTypes == Spec => []TypeOK
<1>1. SInv => TypeOK
  <2>. SUFFICES ASSUME SInv, outcome # Nothing
                PROVE  \/ outcome[1].error \in Errors[operation] /\ outcome[1].value = Nothing
                       \/ /\ outcome[1].error = "none"
                          /\ operation \in Reads =>
                                \A i \in DOMAIN outcome[1].value : outcome[1].value[i] \in Entries
    BY DEF TypeOK, Reads
  <2>1. outcome[1] = Outcome(operation, body) /\ body \in Bodies /\ operation \in Operations
    BY DEF SInv
  <2>2. IsOutcome(operation, outcome[1])
    BY <2>1, OutcomesAreTyped
  <2>. QED  BY <2>2 DEF IsOutcome
<1>. QED  BY <1>1, OutcomesAreOfAnswers, PTL

LEMMA ListIsOfChildren ==
    ASSUME SInv, Answered("GetListOfPortMappings", "none")
    PROVE  \E list \in Trees : /\ outcome[1].value = EntriesOf(list)
                               /\ ChildrenOfListing = list.children
<1>1. /\ outcome[1] = Outcome(operation, body) /\ operation = "GetListOfPortMappings"
      /\ outcome[1].error = "none" /\ body \in Bodies
  BY DEF SInv, Answered
<1>2. body # Nothing
  <2>. SUFFICES ASSUME body = Nothing PROVE FALSE
    OBVIOUS
  <2>1. outcome[1] = Error("invalid_xml_body")
    BY <1>1 DEF Outcome
  <2>. QED  BY <1>1, <2>1 DEF Error
<1>3. body[1] \in Trees
  BY <1>1, <1>2, SoapOperationsAssumption DEF Optional
<1>4. outcome[1] = ListOfPortMappings(body[1])
  BY <1>1, <1>2 DEF Outcome
<1>5. ListOfPortMappings(body[1]) # Error("invalid_response")
  BY <1>1, <1>4 DEF Error
<1>6. PICK list \in Trees :
         /\ ListOfPortMappings(body[1]) = Value(EntriesOf(list))
         /\ list = GetChild(GetChild(body[1], ListingPath)[1].parsed[1],
                            <<Prefixed("PortMappingList")>>)[1]
  BY <1>3, <1>5, ListIs
<1>7. ChildrenOfListing = list.children
  BY <1>6 DEF ChildrenOfListing, ListingPath
<1>. QED  BY <1>4, <1>6, <1>7 DEF Value

EntryOf(kid) ==
    IF kid.name = Prefixed("PortMappingEntry") THEN ListEntry(kid.tree) ELSE Nothing

LEMMA OneEntry ==
    ASSUME NEW kid
    PROVE  EntriesOf(Inner(<<kid>>)) = EntryOf(kid)
<1>1. PICK kids : kids = <<kid>>
  OBVIOUS
<1>2. DOMAIN kids = 1 .. 1 /\ kids[1] = kid /\ 1 \in 1 .. 1
  BY <1>1
<1>3. PICK ss : ss = [i \in DOMAIN kids |-> EntryOf(kids[i])]
  OBVIOUS
<1>4. Len(ss) = 1 /\ ss[1] = EntryOf(kid)
  BY <1>2, <1>3
<1>5. EntriesOf(Inner(kids)) = FlattenSeq(ss)
  BY <1>3 DEF EntriesOf, Inner, Tree, EntryOf
<1>6. FlattenSeq(ss) = ss[1]
  <2>1. 1 \in Nat \ {0}
    OBVIOUS
  <2>2. PICK f : f[1] = ss[1] /\ FlattenSeq(ss) = f[1]
    BY <1>4, <2>1, FlattenSteps
  <2>. QED  BY <2>2
<1>. QED  BY <1>1, <1>4, <1>5, <1>6

(* An entry of a list that does not parse hides no other one, in a list of *)
(* any length and with anything in it (igd.cpp:185-213): the result is what*)
(* the children give one by one, in the order of the document.             *)
THEOREM EveryEntryIsListed == Spec => []BadEntriesHideNothing
<1>1. SInv => BadEntriesHideNothing
  <2>. SUFFICES ASSUME SInv, Answered("GetListOfPortMappings", "none")
                PROVE  outcome[1].value =
                          FlattenSeq([i \in DOMAIN ChildrenOfListing |->
                                         EntriesOf(Inner(<<ChildrenOfListing[i]>>))])
    BY DEF BadEntriesHideNothing
  <2>1. PICK list : outcome[1].value = EntriesOf(list) /\ ChildrenOfListing = list.children
    BY ListIsOfChildren
  <2>2. PICK kids : kids = list.children
    OBVIOUS
  <2>3. \A i \in DOMAIN kids : EntriesOf(Inner(<<kids[i]>>)) = EntryOf(kids[i])
    BY OneEntry
  <2>4. [i \in DOMAIN kids |-> EntriesOf(Inner(<<kids[i]>>))]
           = [i \in DOMAIN kids |-> EntryOf(kids[i])]
    BY <2>3
  <2>5. EntriesOf(list) = FlattenSeq([i \in DOMAIN kids |-> EntryOf(kids[i])])
    BY <2>2 DEF EntriesOf, EntryOf
  <2>. QED  BY <2>1, <2>2, <2>4, <2>5
<1>. QED  BY <1>1, OutcomesAreOfAnswers, PTL

-----------------------------------------------------------------------------
(* Prefixes.  WithPrefix changes the names of the children of the root and *)
(* of their children, but no local name.                                   *)

LEMMA RenamedIs ==
    ASSUME NEW tree \in Trees, NEW prefix, NEW n, n = Len(tree.children)
    PROVE  /\ n \in Nat /\ Len(Renamed(tree, prefix).children) = n
           /\ \A i \in 1 .. n :
                 /\ Renamed(tree, prefix).children[i].name = <<prefix, tree.children[i].name[2]>>
                 /\ Renamed(tree, prefix).children[i].tree = tree.children[i].tree
<1>1. PICK kids \in Seq(Kids) : kids = tree.children
  BY TreesAreTyped
<1>2. n \in Nat /\ DOMAIN kids = 1 .. n
  BY <1>1
<1>3. PICK new : new = [i \in 1 .. n |-> [name |-> <<prefix, kids[i].name[2]>>,
                                         tree |-> kids[i].tree]]
  OBVIOUS
<1>4. Renamed(tree, prefix).children = new
  BY <1>1, <1>2, <1>3 DEF Renamed, Tree, Child
<1>5. Len(new) = n
  BY <1>2, <1>3
<1>. QED  BY <1>1, <1>2, <1>3, <1>4, <1>5

LEMMA WithPrefixIs ==
    ASSUME NEW tree \in Trees, NEW prefix, NEW n, n = Len(tree.children)
    PROVE  /\ n \in Nat /\ Len(WithPrefix(tree, prefix).children) = n
           /\ \A i \in 1 .. n :
                 /\ WithPrefix(tree, prefix).children[i].name = <<prefix, tree.children[i].name[2]>>
                 /\ WithPrefix(tree, prefix).children[i].tree
                       = Renamed(tree.children[i].tree, prefix)
<1>1. PICK kids \in Seq(Kids) : kids = tree.children
  BY TreesAreTyped
<1>2. n \in Nat /\ DOMAIN kids = 1 .. n
  BY <1>1
<1>3. PICK new : new = [i \in 1 .. n |-> [name |-> <<prefix, kids[i].name[2]>>,
                                         tree |-> Renamed(kids[i].tree, prefix)]]
  OBVIOUS
<1>4. WithPrefix(tree, prefix).children = new
  BY <1>1, <1>2, <1>3 DEF WithPrefix, Tree, Child
<1>5. Len(new) = n
  BY <1>2, <1>3
<1>. QED  BY <1>1, <1>2, <1>3, <1>4, <1>5

LEMMA PrefixesDoNotMatter ==
    ASSUME NEW tree \in Trees, NEW prefix, NEW p, p[1] = "*", NEW q, q[1] = "*"
    PROVE  Down(Down(<<WithPrefix(tree, prefix)>>, p), q) = Down(Down(<<tree>>, p), q)
<1>1. ASSUME NEW t \in Trees PROVE Down(<<Renamed(t, prefix)>>, q) = Down(<<t>>, q)
  <2>1. PICK n, u, kids, new : n = Len(t.children) /\ u = Renamed(t, prefix)
                               /\ kids = t.children /\ new = u.children
    OBVIOUS
  <2>2. /\ n \in Nat /\ Len(new) = n
        /\ \A i \in 1 .. n : /\ new[i].name = <<prefix, kids[i].name[2]>>
                             /\ new[i].tree = kids[i].tree
    BY <2>1, RenamedIs
  <2>3. PICK I : I = Matching(t, q)
    OBVIOUS
  <2>4. Matching(u, q) = I
    BY <2>1, <2>2, <2>3 DEF Matching, Matches
  <2>5. /\ Down(<<u>>, q) = IF I = {} THEN Nothing ELSE <<new[Min(I)].tree>>
        /\ Down(<<t>>, q) = IF I = {} THEN Nothing ELSE <<kids[Min(I)].tree>>
        /\ I # {} => Min(I) \in I
    <3>1. Len(u.children) \in Nat /\ Len(t.children) \in Nat
      BY <2>1, <2>2
    <3>2. Down(<<u>>, q) = IF Matching(u, q) = {} THEN Nothing
                           ELSE <<u.children[Min(Matching(u, q))].tree>>
      BY <3>1, DownIs
    <3>3. /\ Down(<<t>>, q) = IF Matching(t, q) = {} THEN Nothing
                              ELSE <<t.children[Min(Matching(t, q))].tree>>
          /\ Matching(t, q) # {} => Min(Matching(t, q)) \in Matching(t, q)
      BY <3>1, DownIs
    <3>. QED  BY <2>1, <2>3, <2>4, <3>2, <3>3
  <2>6. I # {} => new[Min(I)].tree = kids[Min(I)].tree
    BY <2>1, <2>2, <2>3, <2>5 DEF Matching
  <2>. QED  BY <2>1, <2>5, <2>6
<1>2. PICK n, u, kids, new : n = Len(tree.children) /\ u = WithPrefix(tree, prefix)
                             /\ kids = tree.children /\ new = u.children
  OBVIOUS
<1>3. /\ n \in Nat /\ Len(new) = n
      /\ \A i \in 1 .. n : /\ new[i].name = <<prefix, kids[i].name[2]>>
                           /\ new[i].tree = Renamed(kids[i].tree, prefix)
  BY <1>2, WithPrefixIs
<1>4. PICK I : I = Matching(tree, p)
  OBVIOUS
<1>5. Matching(u, p) = I
  BY <1>2, <1>3, <1>4 DEF Matching, Matches
<1>6. /\ Down(<<u>>, p) = IF I = {} THEN Nothing ELSE <<new[Min(I)].tree>>
      /\ Down(<<tree>>, p) = IF I = {} THEN Nothing ELSE <<kids[Min(I)].tree>>
      /\ I # {} => Min(I) \in I
  <2>1. Len(u.children) \in Nat /\ Len(tree.children) \in Nat
    BY <1>2, <1>3
  <2>2. Down(<<u>>, p) = IF Matching(u, p) = {} THEN Nothing
                         ELSE <<u.children[Min(Matching(u, p))].tree>>
    BY <2>1, DownIs
  <2>3. /\ Down(<<tree>>, p) = IF Matching(tree, p) = {} THEN Nothing
                               ELSE <<tree.children[Min(Matching(tree, p))].tree>>
        /\ Matching(tree, p) # {} => Min(Matching(tree, p)) \in Matching(tree, p)
    BY <2>1, DownIs
  <2>. QED  BY <1>2, <1>4, <1>5, <2>2, <2>3
<1>7. CASE I = {}
  BY <1>2, <1>6, <1>7
<1>8. CASE I # {}
  <2>1. Min(I) \in 1 .. n
    BY <1>2, <1>4, <1>6, <1>8 DEF Matching
  <2>2. PICK t \in Trees : t = kids[Min(I)].tree
    <3>1. \A i \in 1 .. n : kids[i].tree \in Trees
      BY <1>2, KidsAreTyped
    <3>. QED  BY <2>1, <3>1
  <2>3. Down(<<u>>, p) = <<Renamed(t, prefix)>> /\ Down(<<tree>>, p) = <<t>>
    BY <1>3, <1>6, <1>8, <2>1, <2>2
  <2>. QED  BY <1>1, <1>2, <2>3
<1>. QED  BY <1>7, <1>8

LEMMA EnvelopesAreAlike ==
    ASSUME NEW tree \in Trees, NEW prefix, NEW name, NEW last
    PROVE  /\ GetChild(WithPrefix(tree, prefix), InBody(name)) = GetChild(tree, InBody(name))
           /\ GetChild(WithPrefix(tree, prefix), InBody(name) \o <<last>>)
                = GetChild(tree, InBody(name) \o <<last>>)
<1>1. PICK p, q, r : p = <<"*", "Envelope">> /\ q = <<"*", "Body">> /\ r = <<"u", name>>
  OBVIOUS
<1>2. p[1] = "*" /\ q[1] = "*"
  BY <1>1
<1>3. PICK path : path = InBody(name)
  OBVIOUS
<1>4. path = <<p, q, r>>
  BY <1>1, <1>3 DEF InBody
<1>5. PICK longer : longer = path \o <<last>>
  OBVIOUS
<1>6. /\ DOMAIN path = 1 .. 3 /\ path[1] = p /\ path[2] = q /\ path[3] = r
      /\ DOMAIN longer = 1 .. 4 /\ longer[1] = p /\ longer[2] = q /\ longer[3] = r
  <2>1. PICK S : S = {p, q, r, last}
    OBVIOUS
  <2>2. PICK y : y = <<last>>
    OBVIOUS
  <2>3. path \in Seq(S) /\ y \in Seq(S)
    BY <1>4, <2>1, <2>2
  <2>4. Len(path) = 3 /\ Len(y) = 1
    BY <1>4, <2>2
  <2>5. /\ longer \in Seq(S) /\ Len(longer) = Len(path) + Len(y)
        /\ \A i \in 1 .. Len(path) + Len(y) :
              longer[i] = IF i <= Len(path) THEN path[i] ELSE y[i - Len(path)]
    BY <1>5, <2>2, <2>3, ConcatProperties
  <2>6. Len(longer) = 4 /\ DOMAIN longer = 1 .. 4
    BY <2>4, <2>5
  <2>7. longer[1] = path[1] /\ longer[2] = path[2] /\ longer[3] = path[3]
    BY <2>4, <2>5
  <2>. QED  BY <1>4, <2>6, <2>7
<1>7. PICK b, u, c : u = WithPrefix(tree, prefix) /\ b = <<tree>> /\ c = <<u>>
  OBVIOUS
<1>8. Down(Down(c, p), q) = Down(Down(b, p), q)
  BY <1>2, <1>7, PrefixesDoNotMatter
<1>9. GetChild(u, path) = GetChild(tree, path)
  <2>1. PICK x : x = Down(Down(Down(b, p), q), r) /\ GetChild(tree, path) = x
    BY <1>6, <1>7, FourSteps
  <2>2. PICK z : z = Down(Down(Down(c, p), q), r) /\ GetChild(u, path) = z
    BY <1>6, <1>7, FourSteps
  <2>. QED  BY <1>8, <2>1, <2>2
<1>10. GetChild(u, longer) = GetChild(tree, longer)
  <2>1. PICK x : x = Down(Down(Down(b, p), q), r)
                 /\ GetChild(tree, longer) = Down(x, longer[4])
    BY <1>6, <1>7, FourSteps
  <2>2. PICK z : z = Down(Down(Down(c, p), q), r)
                 /\ GetChild(u, longer) = Down(z, longer[4])
    BY <1>6, <1>7, FourSteps
  <2>. QED  BY <1>8, <2>1, <2>2
<1>. QED  BY <1>3, <1>5, <1>7, <1>9, <1>10

(* "ignore the XML namespace prefix" (xml.h:40-44), for every answer and   *)
(* every prefix: the operations that look things up with get_child make    *)
(* the same of an answer whatever its envelope's namespace is called.      *)
THEOREM PrefixesAreIgnored == Spec => []PrefixIsIgnored
<1>1. ASSUME NEW tree \in Trees, NEW prefix, NEW op \in Operations, op # "GetListOfPortMappings"
      PROVE  Outcome(op, <<WithPrefix(tree, prefix)>>) = Outcome(op, <<tree>>)
  <2>1. PICK u : u = WithPrefix(tree, prefix)
    OBVIOUS
  <2>2. ExternalAddress(u) = ExternalAddress(tree)
    BY <2>1, EnvelopesAreAlike DEF ExternalAddress
  <2>3. GenericPortMapping(u) = GenericPortMapping(tree)
    BY <2>1, EnvelopesAreAlike DEF GenericPortMapping
  <2>4. <<u>> # Nothing /\ <<tree>> # Nothing /\ <<u>>[1] = u /\ <<tree>>[1] = tree
    BY DEF Nothing
  <2>. QED  BY <1>1, <2>1, <2>2, <2>3, <2>4 DEF Outcome, Operations
<1>2. SInv => PrefixIsIgnored
  <2>. SUFFICES ASSUME SInv, outcome # Nothing, body # Nothing,
                       operation # "GetListOfPortMappings", NEW prefix
                PROVE  Outcome(operation, <<WithPrefix(body[1], prefix)>>) = outcome[1]
    BY DEF PrefixIsIgnored
  <2>1. operation \in Operations /\ body \in Bodies /\ outcome[1] = Outcome(operation, body)
    BY DEF SInv
  <2>2. PICK tree \in Trees : body = <<tree>> /\ body[1] = tree
    BY <2>1, SoapOperationsAssumption DEF Optional
  <2>. QED  BY <1>1, <2>1, <2>2
<1>. QED  BY <1>2, OutcomesAreOfAnswers, PTL
-----------------------------------------------------------------------------
(* The two readings of a port mapping.                                     *)

Fields == {"description", "external", "internal", "lease", "protocol", "client", "enabled"}

LEMMA NamesDiffer ==
    /\ DOMAIN ListNames = Fields
    /\ \A f, g \in Fields : ListNames[f] = ListNames[g] => f = g
    /\ \A f, g \in Fields : GenericNames[f] = GenericNames[g] => f = g
<1>1. DOMAIN ListNames = Fields
  BY DEF ListNames, Fields
<1>2. ASSUME NEW f \in Fields, NEW g \in Fields, f # g
      PROVE  ListNames[f] # ListNames[g]
  BY <1>2 DEF ListNames, Fields, Prefixed
<1>3. ASSUME NEW f \in Fields, NEW g \in Fields, f # g
      PROVE  GenericNames[f] # GenericNames[g]
  <2>1. \A name : Plain(name)[2] = name
    BY DEF Plain
  <2>. QED  BY <1>3, <2>1 DEF GenericNames, Fields
<1>. QED  BY <1>1, <1>2, <1>3

(* e is increasing, and maps J to all of I.                                *)
Embeds(e, m, n, J, I) ==
    /\ e \in [1 .. m -> 1 .. n]
    /\ \A j, k \in 1 .. m : j < k => e[j] < e[k]
    /\ J = {j \in 1 .. m : e[j] \in I}
    /\ \A i \in I : i \in 1 .. n /\ \E j \in 1 .. m : e[j] = i

LEMMA LeastIsFromLeast ==
    ASSUME NEW m \in Nat, NEW n \in Nat, NEW e, NEW J, NEW I, Embeds(e, m, n, J, I)
    PROVE  /\ I = {} <=> J = {}
           /\ I # {} => Min(J) \in 1 .. m /\ e[Min(J)] = Min(I)
<1>0. /\ e \in [1 .. m -> 1 .. n] /\ \A j, k \in 1 .. m : j < k => e[j] < e[k]
      /\ J = {j \in 1 .. m : e[j] \in I}
      /\ \A i \in I : i \in 1 .. n /\ \E j \in 1 .. m : e[j] = i
  BY DEF Embeds
<1>1. I = {} <=> J = {}
  BY <1>0
<1>2. ASSUME I # {} PROVE Min(J) \in 1 .. m /\ e[Min(J)] = Min(I)
  <2>1. I \subseteq Nat /\ J \subseteq Nat /\ J # {}
    <3>1. 1 .. m \subseteq Nat /\ 1 .. n \subseteq Nat
      OBVIOUS
    <3>. QED  BY <1>0, <1>1, <1>2, <3>1
  <2>2. PICK i \in I : i = Min(I) /\ \A y \in I : i <= y
    BY <1>2, <2>1, MinIsIn
  <2>3. PICK j \in J : j = Min(J) /\ \A y \in J : j <= y
    BY <2>1, MinIsIn
  <2>4. PICK k \in J : e[k] = i
    BY <1>0
  <2>5. /\ j \in 1 .. m /\ k \in 1 .. m /\ j <= k /\ i \in 1 .. n
        /\ e[j] \in I /\ e[j] \in 1 .. n /\ e[k] \in 1 .. n
    BY <1>0, <2>3
  <2>6. e[j] <= e[k]
    <3>1. CASE j = k
      BY <2>5, <3>1
    <3>2. CASE j # k
      <4>1. j < k
        BY <2>5, <3>2
      <4>2. e[j] < e[k]
        BY <1>0, <2>5, <4>1
      <4>. QED  BY <2>5, <4>2
    <3>. QED  BY <3>1, <3>2
  <2>7. e[j] = i
    BY <2>2, <2>4, <2>5, <2>6
  <2>. QED  BY <2>2, <2>3, <2>5, <2>7
<1>. QED  BY <1>1, <1>2

(* A tree with the names of the other operation has the same fields.       *)
LEMMA SameText ==
    ASSUME NEW tree \in Trees, NEW f \in Fields
    PROVE  GetText(AsGeneric(tree), GenericNames[f]) = GetText(tree, ListNames[f])
<1>1. PICK kids \in Seq(Kids) : kids = tree.children
  BY TreesAreTyped
<1>2. PICK n \in Nat : n = Len(kids) /\ DOMAIN kids = 1 .. n
  OBVIOUS
<1>. DEFINE names(field) == {g \in DOMAIN ListNames : ListNames[g] = field}
            Option(i) == IF names(kids[i].name) = {} THEN <<>>
                         ELSE <<Child(GenericNames[CHOOSE g \in names(kids[i].name) : TRUE],
                                      kids[i].tree)>>
            T == {Child(GenericNames[g], kids[i].tree) : g \in Fields, i \in 1 .. n}
<1>3. \A g \in Fields : \A i \in 1 .. n : Child(GenericNames[g], kids[i].tree) \in T
  OBVIOUS
<1>. HIDE DEF T
<1>4. PICK ss : ss = [i \in 1 .. n |-> Option(i)]
  OBVIOUS
<1>5. PICK x : x = FlattenSeq(ss)
  OBVIOUS
<1>6. AsGeneric(tree).children = x
  BY <1>1, <1>2, <1>4, <1>5 DEF AsGeneric, Inner, Tree
<1>7. ASSUME NEW i \in 1 .. n
      PROVE  /\ ss[i] = <<>> => \A g \in Fields : ListNames[g] # kids[i].name
             /\ ss[i] # <<>> => \E g, c : /\ g \in Fields /\ ListNames[g] = kids[i].name
                                        /\ c = Child(GenericNames[g], kids[i].tree)
                                        /\ ss[i] = <<c>>
  <2>1. ss[i] = Option(i)
    BY <1>4
  <2>2. CASE names(kids[i].name) = {}
    BY <2>1, <2>2, NamesDiffer
  <2>3. CASE names(kids[i].name) # {}
    <3>1. PICK g \in names(kids[i].name) : g = CHOOSE h \in names(kids[i].name) : TRUE
      BY <2>3
    <3>2. g \in Fields /\ ListNames[g] = kids[i].name
      BY NamesDiffer
    <3>3. PICK c : c = Child(GenericNames[g], kids[i].tree)
      OBVIOUS
    <3>4. ss[i] = <<c>>
      BY <2>1, <2>3, <3>1, <3>3
    <3>5. ss[i] # <<>>
      BY <3>4
    <3>. QED  BY <3>2, <3>3, <3>4, <3>5
  <2>. QED  BY <2>2, <2>3
<1>. HIDE DEF names, Option
<1>8. /\ ss \in Seq(Seq(T)) /\ Len(ss) = n
      /\ \A i \in 1 .. Len(ss) : Len(ss[i]) <= 1
  <2>1. PICK U : U = Seq(T)
    OBVIOUS
  <2>2. ASSUME NEW i \in 1 .. n PROVE ss[i] \in Seq(T) /\ Len(ss[i]) <= 1
    <3>1. CASE ss[i] = <<>>
      BY <3>1
    <3>2. CASE ss[i] # <<>>
      <4>1. PICK g, c : g \in Fields /\ c = Child(GenericNames[g], kids[i].tree) /\ ss[i] = <<c>>
        BY <1>7, <3>2
      <4>2. PICK t \in T : ss[i] = <<t>>
        BY <1>3, <4>1
      <4>. QED  BY <4>2
    <3>. QED  BY <3>1, <3>2
  <2>3. ss \in [1 .. n -> U]
    BY <1>4, <2>1, <2>2
  <2>4. ss \in Seq(U) /\ Len(ss) = n
    BY <2>3
  <2>. QED  BY <2>1, <2>2, <2>4
<1>9. PICK e : ComeFrom(e, x, ss, n)
  BY <1>5, <1>8, FlattenOptions
<1>10. PICK m \in Nat : m = Len(x)
  <2>1. x \in Seq(T)
    BY <1>5, <1>8, FlattenOptions
  <2>2. Len(x) \in Nat
    BY <2>1, LenProperties
  <2>. QED  BY <2>2
<1>11. /\ e \in [1 .. m -> 1 .. n]
       /\ \A j \in 1 .. m : ss[e[j]] = <<x[j]>>
       /\ \A j, k \in 1 .. m : j < k => e[j] < e[k]
       /\ \A i \in 1 .. n : ss[i] # <<>> => \E j \in 1 .. m : e[j] = i
  BY <1>9, <1>10 DEF ComeFrom
<1>12. ASSUME NEW j \in 1 .. m
       PROVE  /\ x[j].tree = kids[e[j]].tree
              /\ x[j].name = GenericNames[f] <=> kids[e[j]].name = ListNames[f]
  <2>1. PICK i \in 1 .. n : i = e[j] /\ ss[i] = <<x[j]>>
    BY <1>11
  <2>2. PICK g, c : /\ g \in Fields /\ ListNames[g] = kids[i].name
                   /\ c = Child(GenericNames[g], kids[i].tree)
                   /\ ss[i] = <<c>>
    <3>1. ss[i] # <<>>
      BY <2>1
    <3>. QED  BY <1>7, <3>1
  <2>3. x[j] = Child(GenericNames[g], kids[i].tree)
    BY <2>1, <2>2
  <2>4. x[j].name = GenericNames[g] /\ x[j].tree = kids[i].tree
    BY <2>3 DEF Child
  <2>5. GenericNames[g] = GenericNames[f] <=> ListNames[g] = ListNames[f]
    BY <2>2, NamesDiffer
  <2>. QED  BY <2>1, <2>2, <2>4, <2>5
<1>13. PICK I : I = Named(tree, ListNames[f])
  OBVIOUS
<1>14. PICK J : J = {j \in 1 .. m : e[j] \in I}
  OBVIOUS
<1>15. I = {i \in 1 .. n : kids[i].name = ListNames[f]}
  BY <1>1, <1>2, <1>13 DEF Named
<1>16. Named(AsGeneric(tree), GenericNames[f]) = J
  <2>1. \A j \in 1 .. m : e[j] \in 1 .. n
    BY <1>11
  <2>. QED  BY <1>6, <1>10, <1>12, <1>14, <1>15, <2>1 DEF Named
<1>17. \A i \in I : \E j \in 1 .. m : e[j] = i
  <2>. SUFFICES ASSUME NEW i \in I PROVE \E j \in 1 .. m : e[j] = i
    OBVIOUS
  <2>1. i \in 1 .. n /\ kids[i].name = ListNames[f]
    BY <1>15
  <2>2. ss[i] # <<>>
    BY <1>7, <2>1
  <2>. QED  BY <1>11, <2>1, <2>2
<1>18. /\ I = {} <=> J = {}
       /\ I # {} => Min(J) \in 1 .. m /\ e[Min(J)] = Min(I)
  <2>1. \A i \in I : i \in 1 .. n
    BY <1>15
  <2>2. Embeds(e, m, n, J, I)
    BY <1>11, <1>14, <1>17, <2>1 DEF Embeds
  <2>. QED  BY <2>2, LeastIsFromLeast
<1>19. GetText(tree, ListNames[f]) = IF I = {} THEN Nothing ELSE <<kids[Min(I)].tree.text>>
  <2>1. Len(tree.children) \in Nat
    BY <1>1, <1>2
  <2>. QED  BY <1>1, <1>13, <2>1, TextIs
<1>20. GetText(AsGeneric(tree), GenericNames[f]) =
          IF J = {} THEN Nothing ELSE <<x[Min(J)].tree.text>>
  <2>1. PICK u : u = AsGeneric(tree)
    OBVIOUS
  <2>2. u.children = x /\ Named(u, GenericNames[f]) = J /\ Len(u.children) \in Nat
    BY <1>6, <1>10, <1>16, <2>1
  <2>3. GetText(u, GenericNames[f]) =
           IF Named(u, GenericNames[f]) = {} THEN Nothing
           ELSE <<u.children[Min(Named(u, GenericNames[f]))].tree.text>>
    BY <2>2, TextIs
  <2>. QED  BY <2>1, <2>2, <2>3
<1>21. CASE I = {}
  BY <1>18, <1>19, <1>20, <1>21
<1>22. CASE I # {}
  <2>1. x[Min(J)].tree = kids[Min(I)].tree
    BY <1>12, <1>18, <1>22
  <2>. QED  BY <1>18, <1>19, <1>20, <1>22, <2>1
<1>. QED  BY <1>21, <1>22

(* What the list operation takes for an entry, the other one does too: it  *)
(* knows the same protocols, and more ways to write them.                  *)
LEMMA SameEntry ==
    ASSUME NEW tree \in Trees, ListEntry(tree) # Nothing
    PROVE  GenericEntry(AsGeneric(tree)) = ListEntry(tree)
<1>1. PICK u, g, l : u = AsGeneric(tree) /\ g = GenericNames /\ l = ListNames
  OBVIOUS
<1>2. ASSUME NEW f \in Fields
      PROVE  /\ GetText(u, g[f]) = GetText(tree, l[f])
             /\ GetAddress(u, g[f]) = GetAddress(tree, l[f])
             /\ \A limit : GetNum(u, g[f], limit) = GetNum(tree, l[f], limit)
  <2>1. GetText(u, g[f]) = GetText(tree, l[f])
    BY <1>1, SameText
  <2>. QED  BY <2>1 DEF GetAddress, GetNum
<1>3. /\ GetText(u, g.description) = GetText(tree, l.description)
      /\ GetNum(u, g.external, UINT16_MAX) = GetNum(tree, l.external, UINT16_MAX)
      /\ GetNum(u, g.internal, UINT16_MAX) = GetNum(tree, l.internal, UINT16_MAX)
      /\ GetNum(u, g.lease, UINT32_MAX) = GetNum(tree, l.lease, UINT32_MAX)
      /\ GetText(u, g.protocol) = GetText(tree, l.protocol)
      /\ GetAddress(u, g.client) = GetAddress(tree, l.client)
      /\ GetNum(u, g.enabled, UINT16_MAX) = GetNum(tree, l.enabled, UINT16_MAX)
  <2>1. /\ "description" \in Fields /\ "external" \in Fields /\ "internal" \in Fields
        /\ "lease" \in Fields /\ "protocol" \in Fields /\ "client" \in Fields
        /\ "enabled" \in Fields
    BY DEF Fields
  <2>. QED  BY <1>2, <2>1
<1>4. PICK protocol : protocol = GetText(tree, l.protocol)[1]
  OBVIOUS
<1>5. protocol \in DOMAIN UpperCase
  BY <1>1, <1>4 DEF ListEntry, EntryIn
<1>6. protocol \in DOMAIN AnyCase /\ AnyCase[protocol] = UpperCase[protocol]
  BY <1>5 DEF UpperCase, AnyCase
<1>7. EntryIn(u, g, AnyCase) = EntryIn(tree, l, UpperCase)
  BY <1>3, <1>4, <1>5, <1>6 DEF EntryIn
<1>. QED  BY <1>1, <1>7 DEF GenericEntry, ListEntry

(* The two ways to read port mappings agree, on lists of any length with   *)
(* children of any kind in any order: an entry that                        *)
(* get_list_of_port_mappings returns (igd.cpp:185-213) is what             *)
(* get_generic_port_mapping_entry makes of the same fields                 *)
(* (igd.cpp:116-147).                                                      *)
THEOREM ListedEntriesAreReadable == Spec => []ListedIsReadable
<1>1. SInv => ListedIsReadable
  <2>. SUFFICES ASSUME SInv, Answered("GetListOfPortMappings", "none"),
                       NEW h \in DOMAIN outcome[1].value
                PROVE  \E j \in DOMAIN ChildrenOfListing :
                          GenericEntry(AsGeneric(ChildrenOfListing[j].tree))
                             = <<outcome[1].value[h]>>
    BY DEF ListedIsReadable
  <2>1. PICK list \in Trees : /\ outcome[1].value = EntriesOf(list)
                              /\ ChildrenOfListing = list.children
    BY ListIsOfChildren
  <2>2. PICK n \in Nat : /\ n = Len(list.children) /\ DOMAIN list.children = 1 .. n
                         /\ \A i \in 1 .. n : list.children[i].tree \in Trees
    BY KidsAreTyped
  <2>3. PICK kids : kids = list.children
    OBVIOUS
  <2>4. PICK ss : ss = [i \in 1 .. n |-> EntryOf(kids[i])]
    OBVIOUS
  <2>5. PICK x : x = FlattenSeq(ss)
    OBVIOUS
  <2>6. outcome[1].value = x
    BY <2>1, <2>2, <2>3, <2>4, <2>5 DEF EntriesOf, EntryOf
  <2>7. ss \in Seq(Seq(Entries)) /\ Len(ss) = n /\ \A i \in 1 .. Len(ss) : Len(ss[i]) <= 1
    <3>1. PICK U : U = Seq(Entries)
      OBVIOUS
    <3>2. ASSUME NEW i \in 1 .. n PROVE ss[i] \in Seq(Entries) /\ Len(ss[i]) <= 1
      <4>1. ss[i] \in Optional(Entries)
        <5>1. ListEntry(kids[i].tree) \in Optional(Entries)
          BY <2>2, <2>3, ListedIsTyped
        <5>. QED  BY <2>4, <5>1 DEF EntryOf, Optional
      <4>2. CASE ss[i] = Nothing
        BY <4>2 DEF Nothing
      <4>3. CASE ss[i] # Nothing
        <5>1. PICK entry \in Entries : ss[i] = <<entry>>
          BY <4>1, <4>3 DEF Optional
        <5>. QED  BY <5>1
      <4>. QED  BY <4>2, <4>3
    <3>3. ss \in [1 .. n -> U]
      BY <2>4, <3>1, <3>2
    <3>4. ss \in Seq(U) /\ Len(ss) = n
      BY <3>3
    <3>. QED  BY <3>1, <3>2, <3>4
  <2>8. PICK e : ComeFrom(e, x, ss, n)
    BY <2>5, <2>7, FlattenOptions
  <2>9. h \in 1 .. Len(x)
    <3>1. x \in Seq(Entries)
      BY <2>5, <2>7, FlattenOptions
    <3>. QED  BY <2>6, <3>1
  <2>10. PICK j \in 1 .. n : j = e[h] /\ ss[j] = <<x[h]>>
    BY <2>8, <2>9 DEF ComeFrom
  <2>11. EntryOf(kids[j]) = <<x[h]>> /\ EntryOf(kids[j]) # Nothing
    <3>1. ss[j] # Nothing
      BY <2>10 DEF Nothing
    <3>. QED  BY <2>4, <2>10, <3>1
  <2>12. ListEntry(kids[j].tree) = <<x[h]>> /\ ListEntry(kids[j].tree) # Nothing
    BY <2>11 DEF EntryOf
  <2>13. GenericEntry(AsGeneric(kids[j].tree)) = ListEntry(kids[j].tree)
    BY <2>2, <2>3, <2>12, SameEntry
  <2>. QED  BY <2>1, <2>2, <2>3, <2>6, <2>12, <2>13
<1>. QED  BY <1>1, OutcomesAreOfAnswers, PTL

=============================================================================
