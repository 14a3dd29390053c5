------------------------------- MODULE MCIgdUrls -------------------------------
(* Datagrams and control URLs for IgdUrls, on a machine with small words:  *)
(* a port has 4 bits and uint64_t has 16.                                  *)
EXTENDS IgdUrls

MCSpellings ==
    [USN |-> {"USN", "usn"}, LOCATION |-> {"LOCATION", "Location"}, ST |-> {"ST"},
     uuid |-> {"uuid", "UUID"}] @@ "HTTP/1.1" :> {"HTTP/1.1", "http/1.1"}

Url(scheme, userinfo, host, port, path, query, fragment) ==
    [scheme |-> scheme, userinfo |-> userinfo, host |-> host, port |-> port,
     path |-> path, query |-> query, fragment |-> fragment]

Http(port, path) == Url(<<"http">>, <<>>, <<"A">>, port, path, <<>>, <<>>)

(* The last one stands for an IPv6 address, which has colons of its own.   *)
MCAddresses == {<<"A">>, <<"B">>, <<":", ":", "6">>}

One     == <<"1">>
Desc    == <<"/", "d">>
Zeros   == [i \in 1 .. 12 |-> "0"]

(* Plain URLs, numerals at every limit, and URLs that are misread.         *)
Locations == {
    Http(<<"1", "5">>, Desc), Http(<<"1", "6">>, Desc), Http(<<"0", "7">>, <<"/">>),
    Http(<<"1", "0", "0", "0", "0", "7">>, Desc), Http(<<"3", "x">>, Desc),
    Http(Zeros \o One, Desc), Http(<<"4">> \o Zeros, Desc), Http(<<"8">> \o Append(Zeros, "0"), Desc),
    Http(One, <<"/", "d", "/", "e", ":", "1">>), Http(One, <<"/", "d", "@", "e", "/">>),
    Http(<<>>, Desc), Http(<<>>, <<>>), Http(One, <<>>), Http(<<>>, <<"/", "d", ":", "1">>),
    Http(<<"x">>, Desc),
    Url(<<"http">>, <<"alice", ":", "pw">>, <<"A">>, One, Desc, <<"q", ":", "1">>, <<"f">>),
    Url(<<"http">>, <<>>, <<"A">>, One, Desc, <<>>, <<"f">>),
    Url(<<"http">>, <<>>, <<"A">>, One, Desc, <<>>, <<"f", "?">>),
    Url(<<"http">>, <<>>, <<"name">>, One, Desc, <<>>, <<>>),
    Url(<<"http">>, <<"u">>, <<"A">>, One, Desc, <<"q", "@", "B", ":", "2", "/", "d">>, <<>>),
    Url(<<"http">>, <<>>, <<"A">>, One, Desc, <<"q", "@", "B", ":", "2", "/", "d">>, <<>>),
    Url(<<"http">>, <<>>, <<>>, <<":", "6", ":", "1">>, Desc, <<>>, <<>>),
    Url(<<>>, <<>>, <<>>, <<>>, Desc, <<>>, <<>>),
    Url(<<>>, <<>>, <<"A">>, <<>>, <<>>, <<>>, <<>>)}

ControlPaths == {<<"/">>, <<"/", "ctl", "/", "ip">>, <<"ctl", "/", "ip">>, <<"/", "u", ":", "1", "/", "c">>}

Controls ==
    {Url(<<>>, <<>>, <<>>, <<>>, p, <<>>, <<>>) : p \in ControlPaths}
        \cup {Url(<<"http">>, <<>>, <<"B">>, <<"2">>, p, <<"q">>, <<>>) : p \in ControlPaths}
        \cup {Http(<<>>, <<>>)}

MCDescriptions == UNION {[1 .. n -> Controls] : n \in {0, 1}}
                    \cup {<<Http(One, <<"/", "ctl", "/", "ip">>), Http(<<>>, <<"/">>)>>}

Header(key, before, val, after) ==
    [key |-> <<key>>, before |-> before, val |-> val, after |-> after]

Wan == <<"urn", ":", "wan", ":", "1">>

(* The three headers in two orders and spellings, with others around them. *)
Packet1(c) ==
    LET usn == <<"uuid", ":", "id", ":", ":">> \o Wan
    IN  [status   |-> <<"HTTP/1.1", " ", "200", " ", "OK">>,
         headers  |-> <<Header("ST", <<" ">>, Wan, <<>>), Header("USN", <<" ">>, usn, <<>>),
                        Header("LOCATION", <<" ">>, Printed(c), <<>>)>>,
         rest     |-> <<"\n">>,
         sent     |-> [usn |-> <<usn>>, uuid |-> <<<<"id">>>>, location |-> <<Printed(c)>>,
                       service_type |-> <<Wan>>],
         location |-> c]

Packet2(c) ==
    LET usn == <<"urn", ":", "UUID", ":", "id">>
    IN  [status   |-> <<"http/1.1", " ", " ", "200", " ">>,
         headers  |-> <<Header("Location", <<>>, Printed(c), <<" ">>), Header("EXT", <<>>, <<>>, <<>>),
                        Header("usn", <<" ", " ">>, usn, <<>>)>>,
         rest     |-> <<"\n", "LOCATION", ":", "other", "\n">>,
         sent     |-> [usn |-> <<usn>>, uuid |-> <<<<"id">>>>, location |-> <<Printed(c)>>,
                       service_type |-> <<>>],
         location |-> c]

MCPackets == {Packet1(c) : c \in Locations} \cup {Packet2(c) : c \in Locations}
=============================================================================
