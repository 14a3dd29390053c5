-------------------------- MODULE MCSoapOperations --------------------------
(* Answers for SoapOperations: one good port mapping entry, every field of *)
(* it missing or replaced, lists of up to three entries, envelopes with    *)
(* different prefixes, responses without the element that is looked for.   *)
EXTENDS SoapOperations

MCNumeral == [a80 |-> 80, a80x |-> 80, a65535 |-> 65535, a65536 |-> 65536, a65616 |-> 65616,
              a99999 |-> 99999, a100000 |-> 100000, a0 |-> 0, a1 |-> 1]

MCAddressOf == [home |-> "192.168.0.2", wan |-> "203.0.113.1"]

GoodFields ==
    [description |-> "game", external |-> "a80", internal |-> "a65535", lease |-> "a0",
     protocol |-> "UDP", client |-> "home", enabled |-> "a1"]

OtherTexts(field) ==
    {"missing"} \cup
    CASE field \in {"external", "internal"} -> {"a80x", "a65536", "a65616", "x"}
      [] field = "lease"                    -> {"a99999", "a100000", "x"}
      [] field = "enabled"                  -> {"a65536", "x"}
      [] field = "protocol"                 -> {"udp", "TCP", "sctp"}
      [] field = "client"                   -> {"wan", "x"}
      [] OTHER                              -> {"x"}

FieldSets ==
    {GoodFields} \cup
    UNION {{[GoodFields EXCEPT ![field] = text] : text \in OtherTexts(field)} :
           field \in DOMAIN GoodFields}

FieldNames == <<"description", "external", "internal", "lease", "protocol", "client", "enabled">>

EntryTree(fields, names) ==
    Inner(FlattenSeq([i \in DOMAIN FieldNames |->
        IF fields[FieldNames[i]] = "missing" THEN <<>>
        ELSE <<Child(names[FieldNames[i]], Leaf(fields[FieldNames[i]]))>>]))

ListEntryTree(fields) == Child(Prefixed("PortMappingEntry"), EntryTree(fields, ListNames))

Soap(prefix, response) ==
    <<Inner(<<Child(<<prefix, "Envelope">>, Inner(<<Child(<<prefix, "Body">>, response)>>))>>)>>

Response(prefix, name, tree) == Soap(prefix, Inner(<<Child(<<prefix, "Header">>, Leaf("")),
                                                     Child(name, tree)>>))

GenericBodies ==
    {Response("s", <<"u", "GetGenericPortMappingEntryResponse">>, EntryTree(f, GenericNames)) :
        f \in FieldSets}

ListBody(prefix, parsed) ==
    Response(prefix, <<"u", "GetListOfPortMappingsResponse">>,
             Inner(<<Child(Plain("NewPortListing"), Tree("listing", parsed, <<>>))>>))

Listing(children) == <<Inner(<<Child(Prefixed("PortMappingList"), Inner(children))>>)>>

Good  == ListEntryTree(GoodFields)
Other == ListEntryTree([GoodFields EXCEPT !.external = "a65535", !.protocol = "TCP"])

ListBodies ==
    {ListBody("s", Nothing), ListBody("s", <<Leaf("")>>), ListBody("SOAP-ENV", Listing(<<Good>>)),
     ListBody("s", Listing(<<>>))}
    \cup {ListBody("s", Listing(<<Child(Plain("PortMappingEntry"), Good.tree), Other>>))}
    \cup UNION {{ListBody("s", Listing(<<Good, ListEntryTree(f)>>)),
                 ListBody("s", Listing(<<ListEntryTree(f), Other>>)),
                 ListBody("s", Listing(<<Other, ListEntryTree(f), Good>>))} : f \in FieldSets}

AddressBodies ==
    {Response(prefix, <<ns, "GetExternalIPAddressResponse">>,
              Inner(<<Child(Plain(name), Leaf(text))>>)) :
        prefix \in {"", "s", "SOAP-ENV"}, ns \in {"u", "m"},
        name \in {"NewExternalIPAddress", "ExternalIPAddress"}, text \in {"wan", "x"}}

MCBodies == {Nothing, <<Leaf("")>>} \cup GenericBodies \cup ListBodies \cup AddressBodies

RECURSIVE TreesIn(_)

TreesIn(tree) ==
    {tree} \cup UNION {TreesIn(child.tree) : child \in ToSet(tree.children)}
           \cup UNION {TreesIn(parsed) : parsed \in ToSet(tree.parsed)}

MCTrees == UNION {TreesIn(b[1]) : b \in MCBodies \ {Nothing}}
=============================================================================
