---------------------------- MODULE SoapOperations ----------------------------
(***************************************************************************)
(* What the operations of an igd send and what they make of the answer     *)
(* (src/src/igd.cpp).  IgdRequests is about the exchange itself; here it   *)
(* has succeeded, and the operation works on the body of the response, in  *)
(* one go, up to its result.                                               *)
(***************************************************************************)
EXTENDS XmlTree

CONSTANTS
    Trees,      \* XML trees, with all the trees in them
    Bodies,     \* bodies of responses: optional trees, none if not XML
    UINT32_MAX  \* the maximum of uint32_t, the type of a lease

Optional(values) == {Nothing} \cup {<<v>> : v \in values}

ASSUME SoapOperationsAssumption ==
    /\ Trees \subseteq [text : STRING, parsed : Optional(Trees),
                        children : Seq([name : STRING \X STRING, tree : Trees])]
    /\ Bodies \subseteq Optional(Trees)
    /\ Numeral \in [DOMAIN Numeral -> Nat]
    /\ UINT32_MAX \in Nat

Operations == {"AddPortMapping", "GetExternalIPAddress", "GetGenericPortMappingEntry",
               "GetListOfPortMappings", "DeletePortMapping"}

VARIABLES
    operation,  \* the operation that was called
    sent,       \* the request that was sent, as markup
    body,       \* the response to its request
    outcome     \* what the operation has returned, an optional value

vars == <<operation, sent, body, outcome>>

UINT16_MAX == 2^16 - 1

Error(e) == [error |-> e, value |-> Nothing]
Value(v) == [error |-> "none", value |-> v]
Crash    == Error("null_dereference")

-----------------------------------------------------------------------------
(* Port mapping entries.  The two operations that read them use different  *)
(* names for the fields.                                                   *)

Plain(name)    == <<"", name>>
Prefixed(name) == <<"p", name>>

GenericNames ==
    [description |-> Plain("NewPortMappingDescription"), external |-> Plain("NewExternalPort"),
     internal |-> Plain("NewInternalPort"), lease |-> Plain("NewLeaseDuration"),
     protocol |-> Plain("NewProtocol"), client |-> Plain("NewInternalClient"),
     enabled |-> Plain("NewEnabled")]

ListNames ==
    [description |-> Prefixed("NewDescription"), external |-> Prefixed("NewExternalPort"),
     internal |-> Prefixed("NewInternalPort"), lease |-> Prefixed("NewLeaseTime"),
     protocol |-> Prefixed("NewProtocol"), client |-> Prefixed("NewInternalClient"),
     enabled |-> Prefixed("NewEnabled")]

(* The entry in a tree whose fields have these names, if all of them are   *)
(* there and well-formed.                                                  *)
EntryIn(tree, names, protocols) ==
    LET description == GetText(tree, names.description)
        external    == GetNum(tree, names.external, UINT16_MAX)
        internal    == GetNum(tree, names.internal, UINT16_MAX)
        lease       == GetNum(tree, names.lease, UINT32_MAX)
        protocol    == GetText(tree, names.protocol)
        client      == GetAddress(tree, names.client)
        enabled     == GetNum(tree, names.enabled, UINT16_MAX)
    IN  IF \/ Nothing \in {external, internal, lease, enabled}
           \/ Nothing \in {description, protocol}
           \/ client = Nothing
           \/ protocol[1] \notin DOMAIN protocols
        THEN Nothing
        ELSE <<[description |-> description[1], ext_port |-> external[1],
                int_port |-> internal[1], lease_duration |-> lease[1],
                proto |-> protocols[protocol[1]], int_client |-> client[1],
                enabled |-> enabled[1] # 0]>>

(* boost::iequals in one operation, == in the other one.                   *)
AnyCase   == [UDP |-> "udp", udp |-> "udp", TCP |-> "tcp", tcp |-> "tcp"]
UpperCase == [UDP |-> "udp", TCP |-> "tcp"]

GenericEntry(tree) == EntryIn(tree, GenericNames, AnyCase)

(* Mutated ListEntry: what is not UDP is TCP.                              *)
ListEntryOrTcp(tree) == EntryIn(tree, ListNames, UpperCase @@ [sctp |-> "tcp"])

ListEntry(tree) == EntryIn(tree, ListNames, UpperCase)

-----------------------------------------------------------------------------
(* Results                                                                 *)

InBody(name) == <<<<"*", "Envelope">>, <<"*", "Body">>, <<"u", name>>>>

ExternalAddress(tree) ==
    LET found == GetChild(tree, InBody("GetExternalIPAddressResponse") \o
                                    <<Plain("NewExternalIPAddress")>>)
    IN  IF found = Nothing THEN Error("invalid_response")
        ELSE IF found[1].text \notin DOMAIN AddressOf THEN Error("bad_address")
        ELSE Value(<<AddressOf[found[1].text]>>)

(* The child is dereferenced whether there is one or not.                  *)
GenericPortMapping(tree) ==
    LET found == GetChild(tree, InBody("GetGenericPortMappingEntryResponse"))
    IN  IF found = Nothing THEN Crash
        ELSE IF GenericEntry(found[1]) = Nothing THEN Error("invalid_response")
        ELSE Value(GenericEntry(found[1]))

(* Mutated EntriesOf: the first one that is not well-formed ends the list. *)
EntriesUpToABadOne(list) ==
    LET bad == SelectInSeq(list.children, LAMBDA c : ListEntry(c.tree) = Nothing)
        good == IF bad = 0 THEN list.children ELSE SubSeq(list.children, 1, bad - 1)
    IN  FlattenSeq([i \in DOMAIN good |-> ListEntry(good[i].tree)])

(* Children of the list that are not entries, or not well-formed, are left *)
(* out.                                                                    *)
EntriesOf(list) ==
    FlattenSeq([i \in DOMAIN list.children |->
        IF list.children[i].name = Prefixed("PortMappingEntry")
        THEN ListEntry(list.children[i].tree) ELSE Nothing])

(* The listing is a text which is an XML document of its own.              *)
ListOfPortMappings(tree) ==
    LET listing == GetChild(tree, <<<<"s", "Envelope">>, <<"s", "Body">>,
                                    <<"u", "GetListOfPortMappingsResponse">>,
                                    Plain("NewPortListing")>>)
        list == IF listing = Nothing \/ listing[1].parsed = Nothing THEN Nothing
                ELSE GetChild(listing[1].parsed[1], <<Prefixed("PortMappingList")>>)
    IN  IF list = Nothing THEN Error("invalid_response") ELSE Value(EntriesOf(list[1]))

Outcome(op, answer) ==
    IF op \in {"AddPortMapping", "DeletePortMapping"} THEN Value(Nothing)
    ELSE IF answer = Nothing THEN Error("invalid_xml_body")
    ELSE CASE op = "GetExternalIPAddress"       -> ExternalAddress(answer[1])
           [] op = "GetGenericPortMappingEntry" -> GenericPortMapping(answer[1])
           [] op = "GetListOfPortMappings"      -> ListOfPortMappings(answer[1])

-----------------------------------------------------------------------------
(* Requests.  Markup is a sequence of tags and of values between them; the *)
(* values are written as they are.                                         *)

Open(name)  == [tag |-> "open", name |-> name]
Close(name) == [tag |-> "close", name |-> name]
Empty(name) == [tag |-> "empty", name |-> name]
AValue      == [tag |-> "value", name |-> "a number, protocol, address or description"]

Element(name, content) == <<Open(name)>> \o content \o <<Close(name)>>

Arguments(names) ==
    FlattenSeq([i \in DOMAIN names |->
        Element(names[i], IF names[i] = "NewRemoteHost" THEN <<>> ELSE <<AValue>>)])

ArgumentNames ==
    [AddPortMapping |->
         <<"NewRemoteHost", "NewEnabled", "NewExternalPort", "NewProtocol", "NewInternalPort",
           "NewInternalClient", "NewPortMappingDescription", "NewLeaseDuration">>,
     GetGenericPortMappingEntry |-> <<"NewPortMappingIndex">>,
     GetListOfPortMappings |-> <<"NewStartPort", "NewEndPort", "NewProtocol", "NewNumberOfPorts">>,
     DeletePortMapping |-> <<"NewProtocol", "NewExternalPort", "NewRemoteHost">>]

(* The tag that opens a DeletePortMapping is written as an empty one.      *)
Message(op) ==
    CASE op = "GetExternalIPAddress" -> <<Empty(op)>>
      [] op = "DeletePortMapping"    ->
             <<Empty(op)>> \o Arguments(ArgumentNames[op]) \o <<Close(op)>>
      [] OTHER -> Element(op, Arguments(ArgumentNames[op]))

Envelope(message) == Element("Envelope", Element("Body", message))

-----------------------------------------------------------------------------

Init ==
    /\ operation \in Operations
    /\ sent = Nothing
    /\ body = Nothing
    /\ outcome = Nothing

(* soap_request wraps the message and sends it.                            *)
Send ==
    /\ sent = Nothing
    /\ sent' = Envelope(Message(operation))
    /\ UNCHANGED <<operation, body, outcome>>

(* soap_request returns a response, and the operation goes on.             *)
Receive ==
    /\ sent # Nothing
    /\ outcome = Nothing
    /\ body' \in Bodies
    /\ outcome' = <<Outcome(operation, body')>>
    /\ UNCHANGED <<operation, sent>>

Next == Send \/ Receive \/ (outcome # Nothing /\ UNCHANGED vars)

Spec == Init /\ [][Next]_vars

-----------------------------------------------------------------------------

Answered(op, error) == outcome # Nothing /\ operation = op /\ outcome[1].error = error

Ports == 0 .. UINT16_MAX

Entries ==
    [description: STRING, ext_port: Ports, int_port: Ports, lease_duration: Nat,
     proto: {"tcp", "udp"}, int_client: {AddressOf[t] : t \in DOMAIN AddressOf},
     enabled: BOOLEAN]

Errors ==
    [GetExternalIPAddress       |-> {"invalid_xml_body", "invalid_response", "bad_address"},
     GetGenericPortMappingEntry |-> {"invalid_xml_body", "invalid_response", Crash.error},
     GetListOfPortMappings      |-> {"invalid_xml_body", "invalid_response"},
     AddPortMapping             |-> {},
     DeletePortMapping          |-> {}]

TypeOK ==
    outcome # Nothing =>
        \/ outcome[1].error \in Errors[operation] /\ outcome[1].value = Nothing
        \/ /\ outcome[1].error = "none"
           /\ operation \in {"GetGenericPortMappingEntry", "GetListOfPortMappings"} =>
                  \A i \in DOMAIN outcome[1].value : outcome[1].value[i] \in Entries

(* The tree with another prefix on its children, and on theirs: Envelope   *)
(* and Body.                                                               *)
Renamed(tree, prefix) ==
    Tree(tree.text, tree.parsed,
         [i \in DOMAIN tree.children |->
             Child(<<prefix, tree.children[i].name[2]>>, tree.children[i].tree)])

WithPrefix(tree, prefix) ==
    Tree(tree.text, tree.parsed,
         [i \in DOMAIN tree.children |->
             Child(<<prefix, tree.children[i].name[2]>>,
                   Renamed(tree.children[i].tree, prefix))])

(* "ignore the XML namespace prefix" (xml.h:40-44): whatever the gateway   *)
(* calls the envelope's namespace, and if it has no name, the operations   *)
(* that use xml::get_child make the same of the answer.                    *)
PrefixIsIgnored ==
    outcome # Nothing /\ body # Nothing /\ operation # "GetListOfPortMappings" =>
        \A prefix \in {"", "s", "SOAP-ENV"} :
            Outcome(operation, <<WithPrefix(body[1], prefix)>>) = outcome[1]

ChildrenOfListing ==
    LET listing == GetChild(body[1], <<<<"s", "Envelope">>, <<"s", "Body">>,
                                       <<"u", "GetListOfPortMappingsResponse">>,
                                       Plain("NewPortListing")>>)
    IN  GetChild(listing[1].parsed[1], <<Prefixed("PortMappingList")>>)[1].children

(* An entry that is not well-formed hides no other one, wherever it is in  *)
(* the list: the result is what the children give one by one, in order.    *)
BadEntriesHideNothing ==
    Answered("GetListOfPortMappings", "none") =>
        outcome[1].value = FlattenSeq([i \in DOMAIN ChildrenOfListing |->
                                          EntriesOf(Inner(<<ChildrenOfListing[i]>>))])

(* The fields of a tree, with the names of the other operation.            *)
AsGeneric(tree) ==
    LET names(field) == {f \in DOMAIN ListNames : ListNames[f] = field}
    IN  Inner(FlattenSeq([i \in DOMAIN tree.children |->
            IF names(tree.children[i].name) = {} THEN <<>>
            ELSE <<Child(GenericNames[CHOOSE f \in names(tree.children[i].name) : TRUE],
                         tree.children[i].tree)>>]))

(* The two ways to read port mappings agree: an entry that the list        *)
(* operation returns is an entry for the generic operation, the same one.  *)
ListedIsReadable ==
    Answered("GetListOfPortMappings", "none") =>
        \A i \in DOMAIN outcome[1].value : \E j \in DOMAIN ChildrenOfListing :
            GenericEntry(AsGeneric(ChildrenOfListing[j].tree)) = <<outcome[1].value[i]>>

(* The errors that get_generic_port_mapping_entry may return are listed at *)
(* igd.h:110-114; a response without the entry is an invalid_response.     *)
ResponsesAreReported == ~Answered("GetGenericPortMappingEntry", Crash.error)

(* The elements that are open after the markup, or none if a tag closes    *)
(* something else than the innermost one.                                  *)
OpenAfter(markup) ==
    FoldLeft(LAMBDA open, item :
                 IF open = Nothing THEN Nothing
                 ELSE CASE item.tag = "open"  -> <<Append(open[1], item.name)>>
                        [] item.tag = "close" ->
                               IF open[1] # <<>> /\ Last(open[1]) = item.name
                               THEN <<Front(open[1])>> ELSE Nothing
                        [] OTHER -> open,
             <<<<>>>>, markup)

IsWellFormed(markup) == OpenAfter(markup) = <<<<>>>>

(* "deleting of TCP and UDP port mappings" (src/README.md:12) takes a      *)
(* request that is an XML document.                                        *)
DeleteIsWellFormed == operation = "DeletePortMapping" /\ sent # Nothing => IsWellFormed(sent)
=============================================================================
