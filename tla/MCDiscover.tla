------------------------------ MODULE MCDiscover ------------------------------
(* Instances of Discover for TLC, whose devices are parsed from trees.  r1 *)
(* and r2 are the answers of one IGD:2 gateway to both searches.  r3 is an *)
(* IGD:1 gateway with both kinds of connection, in a device the other      *)
(* gateway lists with another type, and r4 a device that is no gateway.    *)
(* r5's description has no device.  The gateways' lists have elements that *)
(* do not parse.                                                           *)
EXTENDS DescribedGateways

CONSTANTS r1, r2, r3, r4, r5, usn1, usn2, usn3, usn4, usn5

Text(local, text)     == Child(Name(local), Leaf(text))
List(local, children) == Child(Name(local), Inner(children))

Service(id, name, v) ==
    Child(Name("service"),
          Inner(<<Text("serviceId", id), Text("controlURL", "/ctl"), Text("serviceType", <<name, v>>)>>))

Device(udn, name, v, lists) ==
    Child(Name("device"),
          Inner(<<Text("deviceType", <<name, v>>), Text("UDN", udn), Text("friendlyName", udn)>> \o lists))

Comment == Child(Name("<xmlcomment>"), Leaf("no more"))
NoType  == Child(Name("service"), Inner(<<Text("serviceId", "x"), Text("controlURL", "/x")>>))
NoUdn   == Child(Name("device"), Inner(<<Text("deviceType", <<"WANDevice", 1>>)>>))

Connection(v, services) ==
    Device("con", "WANConnectionDevice", v, <<List("serviceList", services)>>)

Wan(udn, v, connections) == Device(udn, "WANDevice", v, <<List("deviceList", connections)>>)

Root(name, v, devices) ==
    Inner(<<List("root", <<Device(name, name, v, <<List("deviceList", devices)>>)>>)>>)

GatewayA ==
    Root("InternetGatewayDevice", 2,
         <<Wan("wanA", 2, <<Comment, Connection(2, <<Service("ip", "WANIPConnection", 2)>>)>>),
           Wan("wanC", 1, <<>>)>>)

GatewayB ==
    Root("InternetGatewayDevice", 1,
         <<NoUdn,
           Wan("wanB", 1, <<Connection(1, <<Service("ip", "WANIPConnection", 1), NoType,
                                            Service("layer3", "Layer3Forwarding", 1),
                                            Service("ppp", "WANPPPConnection", 1)>>)>>),
           Wan("wanC", 1, <<Connection(1, <<Service("ip", "WANIPConnection", 1)>>)>>)>>)

Printer == Root("Printer", 1, <<Wan("wanA", 1, <<>>)>>)

MCTreeOf ==
    r1 :> GatewayA @@ r2 :> GatewayA @@ r3 :> GatewayB @@ r4 :> Printer
        @@ r5 :> Inner(<<List("root", <<NoUdn>>)>>)

(* The root devices, and what is in their lists and in the lists of these. *)
RootDevices == {d[1] : d \in {GetChild(MCTreeOf[r], <<Name("root"), Name("device")>>) :
                                  r \in DOMAIN MCTreeOf}}
Listed      == UNION {Kids(d, "deviceList") : d \in RootDevices}
Connections == UNION {Kids(d, "deviceList") : d \in Listed}

MCTrees  == RootDevices \cup Listed \cup Connections
MCHeight == [t \in MCTrees |-> IF t \in Connections THEN 0 ELSE IF t \in Listed THEN 1 ELSE 2]

(* TLC evaluates this once: RootOf is given its value below.               *)
Roots ==
    LET parsed == {r \in DOMAIN MCTreeOf : DeviceParseRoot(MCTreeOf[r]) # Nothing}
    IN  [r \in parsed |-> DeviceParseRoot(MCTreeOf[r])[1]]

MCUsnOf  == r1 :> usn1 @@ r2 :> usn2 @@ r3 :> usn3 @@ r4 :> usn4 @@ r5 :> usn5
MCRootOf == Roots

=============================================================================
