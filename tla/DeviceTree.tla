------------------------------ MODULE DeviceTree ------------------------------
(***************************************************************************)
(* Device descriptions (src/src/parse_device.cpp): what is read of the     *)
(* tree of an XML document into upnp::device and upnp::service.            *)
(***************************************************************************)
EXTENDS XmlTree

CONSTANTS
    Trees,  \* elements that may be read as a device, with those in their deviceLists
    Height  \* how many levels of deviceLists are below each

Name(local) == <<"", local>>

TextIn(tree, local) == GetText(tree, Name(local))

ChildrenOf(tree, local) ==
    LET list == GetChild(tree, <<Name(local)>>)
    IN  IF list = Nothing THEN <<>> ELSE list[1].children

(* Documents are finite: a list's elements are below the element it is in. *)
ASSUME TreesAssumption ==
    /\ Height \in [Trees -> Nat]
    /\ \A tree \in Trees : \A local \in {"serviceList", "deviceList"} :
          ChildrenOf(tree, local) \in Seq(ToSet(ChildrenOf(tree, local)))
    /\ \A tree \in Trees : \A child \in ToSet(ChildrenOf(tree, "deviceList")) :
          child.tree \in Trees /\ Height[child.tree] < Height[tree]

(* Any text is a control URL: url_t::parse accepts them all.               *)
ServiceParse(tree) ==
    LET id   == TextIn(tree, "serviceId")
        type == TextIn(tree, "serviceType")
    IN  IF id = Nothing \/ type = Nothing \/ TextIn(tree, "controlURL") = Nothing THEN Nothing
        ELSE <<[id |-> id[1], type |-> type[1]]>>

(* Mutated DeviceFrom: a service that does not parse ends the list.        *)
DeviceUntilBad(tree, parse) ==
    LET type     == TextIn(tree, "deviceType")
        udn      == TextIn(tree, "UDN")
        services == ChildrenOf(tree, "serviceList")
        devices  == ChildrenOf(tree, "deviceList")
        bad      == SelectInSeq(services, LAMBDA s : ServiceParse(s.tree) = Nothing)
    IN  IF type = Nothing \/ udn = Nothing \/ TextIn(tree, "friendlyName") = Nothing THEN Nothing
        ELSE <<[type     |-> type[1],
                udn      |-> udn[1],
                services |-> [i \in 1 .. (IF bad = 0 THEN Len(services) ELSE bad - 1) |->
                                 ServiceParse(services[i].tree)[1]],
                devices  |-> FlattenSeq([i \in DOMAIN devices |-> parse[devices[i].tree]])]>>

(* A child of a list that does not parse is left out.                      *)
DeviceFrom(tree, parse) ==
    LET type     == TextIn(tree, "deviceType")
        udn      == TextIn(tree, "UDN")
        services == ChildrenOf(tree, "serviceList")
        devices  == ChildrenOf(tree, "deviceList")
    IN  IF type = Nothing \/ udn = Nothing \/ TextIn(tree, "friendlyName") = Nothing THEN Nothing
        ELSE <<[type     |-> type[1],
                udn      |-> udn[1],
                services |-> FlattenSeq([i \in DOMAIN services |-> ServiceParse(services[i].tree)]),
                devices  |-> FlattenSeq([i \in DOMAIN devices |-> parse[devices[i].tree]])]>>

DeviceParse[tree \in Trees] == DeviceFrom(tree, DeviceParse)

DeviceParseRoot(tree) ==
    LET device == GetChild(tree, <<Name("root"), Name("device")>>)
    IN  IF device = Nothing THEN Nothing ELSE DeviceParse[device[1]]
=============================================================================
