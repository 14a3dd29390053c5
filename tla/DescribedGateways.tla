--------------------------- MODULE DescribedGateways ---------------------------
(***************************************************************************)
(* Discover on devices that are read from the documents at the responses'  *)
(* LOCATIONs (igd.cpp:381-428, parse_device.cpp), and what these documents *)
(* offer.                                                                  *)
(***************************************************************************)
EXTENDS Discover, DeviceTree

CONSTANT
    TreeOf  \* the document at each response's LOCATION, if it can be had

(* query_root_device returns what device_parse_root makes of the document. *)
ASSUME DocumentsAssumption ==
    /\ DOMAIN TreeOf \subseteq Responses
    /\ \A r \in DOMAIN TreeOf :
          LET device == GetChild(TreeOf[r], <<Name("root"), Name("device")>>)
          IN  device # Nothing => device[1] \in Trees
    /\ DOMAIN RootOf = {r \in DOMAIN TreeOf : DeviceParseRoot(TreeOf[r]) # Nothing}
    /\ \A r \in DOMAIN RootOf : RootOf[r] = DeviceParseRoot(TreeOf[r])[1]

Kids(tree, local)  == {c.tree : c \in ToSet(ChildrenOf(tree, local))}
Has(tree, locals)  == \A local \in locals : TextIn(tree, local) # Nothing
IsDevice(tree)     == Has(tree, {"deviceType", "UDN", "friendlyName"})
IsService(tree)    == Has(tree, {"serviceType", "serviceId", "controlURL"})

(* The WAN device and service elements of connections in the document at r *)
(* and in a gateway of version v, whatever else their lists hold.          *)
Offered(r, v) ==
    LET root == GetChild(TreeOf[r], <<Name("root"), Name("device")>>)[1]
        Type(tree) == TextIn(tree, "deviceType")[1]
    IN  IF Type(root) # <<"InternetGatewayDevice", v>> THEN {}
        ELSE UNION {UNION {{<<d, s>> : s \in {t \in Kids(c, "serviceList") :
                                /\ IsService(t)
                                /\ TextIn(t, "serviceType")[1] \in
                                      {<<"WANIPConnection", v>>, <<"WANPPPConnection", v>>}}} :
                           c \in {k \in Kids(d, "deviceList") :
                                     IsDevice(k) /\ Type(k) = <<"WANConnectionDevice", v>>}} :
                    d \in {k \in Kids(root, "deviceList") :
                              IsDevice(k) /\ Type(k) = <<"WANDevice", v>>}}

(* A service of a connection that an asked gateway offers is among the     *)
(* igds unless the UDN of its WAN device was used for something else by a  *)
(* gateway, this one or one asked before it (igd.cpp:331-371).  Nothing    *)
(* else hides it: not an element around it that does not parse             *)
(* (parse_device.cpp:52-68), not a device that is no gateway and lists the *)
(* same UDN, and nothing that is asked later.                              *)
EveryGatewayIsFound ==
    \A n \in DOMAIN asked : \A v \in Versions : \A o \in Offered(asked[n], v) :
        LET udn == TextIn(o[1], "UDN")[1] IN
        IsUnambiguous(udn, n) =>
            \E i \in DOMAIN igds : /\ igds[i].udn = udn
                                   /\ <<igds[i].service>> = ServiceParse(o[2])
=============================================================================
