-------------------------------- MODULE IgdUrls --------------------------------
(***************************************************************************)
(* The way of a URL through the library: from a datagram, of which the     *)
(* receiver may have got a part only, through the response and the device  *)
(* description into the igds and the requests they send (ssdp.cpp and      *)
(* igd.cpp).  One response is followed; Discover has the rest.             *)
(***************************************************************************)
EXTENDS Url, SsdpResponse

CONSTANTS
    Packets,       \* answers in their parts, and the fields that were put into them
    Descriptions,  \* sequences of the parts of control URLs
    Bases          \* addresses a buffer can have

(* A datagram: a first line, headers, and the rest.                        *)
HeaderLine(h) == h.key \o <<":">> \o h.before \o h.val \o h.after

Datagram(p) ==
    p.status \o <<"\n">>
        \o FlattenSeq([i \in DOMAIN p.headers |-> HeaderLine(p.headers[i]) \o <<"\n">>])
        \o p.rest

HasNone(text, symbols) == ToSet(text) \cap symbols = {}

(* What "HTTP/1.1 200 OK" is to a reader, and "KEY: value", and what is    *)
(* not a header any more.                                                  *)
IsStatus(s) ==
    /\ HasNone(s, {"\n"})
    /\ \E n \in 2 .. Len(s) - 2 :
          /\ s[1] \in Spellings["HTTP/1.1"] /\ \A i \in 2 .. n : s[i] = " "
          /\ s[n + 1] = "200" /\ s[n + 2] = " "

IsHeader(h) ==
    /\ HasNone(h.key, {":", "\n"}) /\ HasNone(h.val, {"\n"})
    /\ ToSet(h.before) \subseteq {" "} /\ ToSet(h.after) \subseteq {" "}
    /\ h.val # <<>> => Head(h.val) # " " /\ Last(h.val) # " "

IsRest(t) ==
    \/ HasNone(t, {"\n"})
    \/ \E n \in DOMAIN t : t[n] = "\n" /\ HasNone(SubSeq(t, 1, n - 1), {":", "\n"})

(* A UUID is named at j, and id is what follows up to a "::" or the end.   *)
IsNamedAt(usn, j) ==
    /\ j \in 1 .. Len(usn) - 1
    /\ usn[j] \in Spellings["uuid"] /\ usn[j + 1] = ":" /\ (j = 1 \/ usn[j - 1] = ":")

IsColons(usn, i) == i \in 1 .. Len(usn) - 1 /\ usn[i] = ":" /\ usn[i + 1] = ":"

IsUuidOf(id, usn) ==
    \E j \in 1 .. Len(usn), end \in 2 .. Len(usn) + 1 :
        /\ \A i \in 1 .. Len(usn) : IsNamedAt(usn, i) <=> i = j
        /\ j + 2 <= end /\ id = SubSeq(usn, j + 2, end - 1)
        /\ IsColons(usn, end) \/ end = Len(usn) + 1
        /\ \A i \in j + 2 .. end - 1 : ~IsColons(usn, i)

(* The headers whose value is looked at, and all that a response has.      *)
Keys   == [usn |-> "USN", location |-> "LOCATION", service_type |-> "ST"]
Fields == DOMAIN Keys \cup {"uuid"}

Headers == [key : Seq(STRING), before : Seq(STRING), val : Seq(STRING), after : Seq(STRING)]

IsAnswer(p) ==
    /\ p.status \in Seq(STRING) /\ p.headers \in Seq(Headers) /\ p.rest \in Seq(STRING)
    /\ p.sent \in [Fields -> Seq(Seq(STRING))]
    /\ IsStatus(p.status) /\ IsRest(p.rest) /\ \A i \in DOMAIN p.headers : IsHeader(p.headers[i])
    /\ \A f \in DOMAIN Keys :
          LET with == {i \in DOMAIN p.headers : IEquals(p.headers[i].key, Keys[f])}
          IN  /\ p.sent[f] = <<>> <=> with = {}
              /\ \A i \in with : p.sent[f] = <<p.headers[i].val>>
    /\ \/ /\ p.sent.uuid = <<>>
          /\ p.sent.usn # <<>> =>
                \A i \in DOMAIN p.sent.usn[1] : ~IsNamedAt(p.sent.usn[1], i)
       \/ /\ p.sent.usn # <<>> /\ Len(p.sent.uuid) = 1
          /\ IsUuidOf(p.sent.uuid[1], p.sent.usn[1])
    /\ p.location \in [Parts -> Seq(STRING)]
    /\ p.sent.location \in {<<>>, <<Printed(p.location)>>}

ASSUME IgdUrlsAssumption ==
    /\ {"HTTP/1.1", "USN", "LOCATION", "ST", "uuid"} \subseteq DOMAIN Spellings
    /\ \A p \in Packets : IsAnswer(p)
    /\ Descriptions \subseteq Seq([Parts -> Seq(STRING)])
    /\ Bases \subseteq Nat \ {0}

VARIABLES
    pc,        \* "receiving", "querying", "collecting", "over"
    packet,    \* the datagram that was sent
    rsp,       \* what get_response returned
    services,  \* the control URLs in the description that was read
    igds,      \* the _url of each igd in the vector
    requests,  \* history: each request's igd (0: discover), endpoint and path
    thrown     \* std::out_of_range has left replace_path

vars == <<pc, packet, rsp, services, igds, requests, thrown>>

(* There is no response yet, nor a buffer that anybody looks at.           *)
NoResponse ==
    [usn |-> <<>>, uuid |-> <<>>, location |-> <<>>, service_type |-> <<>>, url |-> NoUrl(1)]

Init ==
    /\ pc = "receiving"
    /\ packet \in Packets
    /\ rsp = NoResponse
    /\ services = <<>>
    /\ igds = <<>>
    /\ requests = {}
    /\ thrown = FALSE

(* The first n symbols arrive.  The response is copied into the queue and  *)
(* moved out of it; location is the text of the header, url what has       *)
(* become of it.                                                           *)
Receive ==
    /\ pc = "receiving"
    /\ \E n \in 0 .. Len(Datagram(packet)), from, to \in Bases :
          LET r   == ParseResponse(SubSeq(Datagram(packet), 1, n))
              url == IF r[1].location = <<>> THEN NoUrl(from) ELSE ParseUrl(r[1].location[1], from)
          IN  IF r = <<>> THEN pc' = "over" /\ UNCHANGED rsp
              ELSE /\ pc' = "querying"
                   /\ rsp' = [usn |-> r[1].usn, uuid |-> r[1].uuid, location |-> r[1].location,
                              service_type |-> r[1].service_type,
                              url |-> MovedTo(CopyOf(url, to), from)]
    /\ UNCHANGED <<packet, services, igds, requests, thrown>>

Request(i, url) == [of |-> i, to |-> ConsumeEndpoint(HostAndPort(url)), path |-> TextOf(url, "path")]

(* query_root_device                                                       *)
QueryRootDevice ==
    /\ pc = "querying"
    /\ LET rq == Request(0, rsp.url)
       IN  IF rq.to = <<>>
           THEN pc' = "over" /\ UNCHANGED <<services, requests>>
           ELSE /\ pc' = "collecting"
                /\ services' \in Descriptions
                /\ requests' = {rq}
    /\ UNCHANGED <<packet, rsp, igds, thrown>>

ControlPath(i, base) == TextOf(MovedTo(ParseUrl(Printed(services[i]), base), base), "path")

(* An igd is pushed into the vector; when that grows, all of them move.    *)
CollectGateway ==
    /\ pc = "collecting"
    /\ Len(igds) < Len(services)
    /\ \E from, to \in Bases :
          LET n   == Len(igds) + 1
              url == CopyOf(rsp.url, from)
              new == ReplacePath(url, ControlPath(n, from), to)
              all == Append(igds, CopyOf(new, from))
          IN  IF CanReplacePath(url)
              THEN /\ \E home \in [1 .. n -> Bases] :
                         igds' = [i \in 1 .. n |-> MovedTo(all[i], home[i])]
                   /\ UNCHANGED <<thrown, pc>>
              ELSE thrown' = TRUE /\ pc' = "over" /\ UNCHANGED igds
    /\ UNCHANGED <<packet, rsp, services, requests>>

(* soap_request on a gateway that discover has returned.                   *)
SendRequest ==
    /\ pc = "collecting"
    /\ Len(igds) = Len(services)
    /\ \E i \in DOMAIN igds : requests' = requests \cup {Request(i, igds[i])}
    /\ UNCHANGED <<pc, packet, rsp, services, igds, thrown>>

Finished == pc = "over" \/ (pc = "collecting" /\ services = <<>>)

Next ==
    \/ Receive
    \/ QueryRootDevice
    \/ CollectGateway
    \/ SendRequest
    \/ Finished /\ UNCHANGED vars

Spec == Init /\ [][Next]_vars

-----------------------------------------------------------------------------

(* Every URL that is alive sees its own buffer: a view left behind by a    *)
(* copy, a move or replace_path is a dangling pointer (url.h:14-83).       *)
ViewsAreInside(u) ==
    \A p \in Parts : LET v == u.part[p] IN
        v.len > 0 => v.ptr >= u.base /\ v.ptr + v.len <= u.base + Len(u.buf)

TypeOK ==
    /\ pc \in {"receiving", "querying", "collecting", "over"}
    /\ packet \in Packets
    /\ services \in Descriptions \cup {<<>>}
    /\ thrown \in BOOLEAN
    /\ \A r \in requests : r.of \in 0 .. Len(igds)
    /\ Len(igds) <= Len(services)
    /\ ViewsAreInside(rsp.url) /\ \A i \in DOMAIN igds : ViewsAreInside(igds[i])

(* A datagram that was cut, at 32 KiB or on its way, can be accepted, even *)
(* when its first line is not complete (ssdp.cpp:166).  But each field     *)
(* that the response has is the one that was sent, in whatever order, case *)
(* and spacing; a field that was sent is only missing if it was cut off.   *)
AnswersAreNotMisread ==
    /\ \A f \in Fields : rsp[f] \in {<<>>, packet.sent[f]}
    /\ pc = "receiving" =>
          LET whole == ParseResponse(Datagram(packet))
          IN  whole # <<>> /\ \A f \in Fields : whole[1][f] = packet.sent[f]

(* URLs that url_t::parse takes apart as RFC 3986 does: they have a port,  *)
(* no '@' behind the host, unless one is before it, and no '?' in the      *)
(* fragment without a query.  A control URL may be a path, without ':' and *)
(* '@'.                                                                    *)
Tail3(c) == ToSet(c["path"] \o c["query"] \o c["fragment"])

HasPlainTail(c) ==
    /\ c["path"] # <<>> /\ Head(c["path"]) = "/"
    /\ HasNone(c["path"], {"?", "#"}) /\ HasNone(c["query"], {"#"})
    /\ ~HasNone(c["fragment"], {"?"}) => c["query"] # <<>>

IsPlain(c) ==
    /\ c["scheme"] # <<>> /\ c["port"] # <<>> /\ HasPlainTail(c)
    /\ \A p \in {"scheme", "host", "port"} : HasNone(c[p], {":", "/", "@", "?", "#"})
    /\ HasNone(c["userinfo"], {"/", "@", "?", "#"})
    /\ "@" \in Tail3(c) => c["userinfo"] # <<>>

IsPlainPath(c) ==
    /\ c["scheme"] \o c["userinfo"] \o c["host"] \o c["port"] = <<>>
    /\ HasPlainTail(c) /\ Tail3(c) \cap {"@", ":"} = {}

(* The number a numeral stands for, as far as it matters.                  *)
Value(numeral) ==
    LET v[i \in 0 .. Len(numeral)] ==
            IF i = 0 THEN 0
            ELSE IF v[i - 1] > MaxPort THEN v[i - 1] ELSE 10 * v[i - 1] + Digit(numeral[i])
    IN  v[Len(numeral)]

(* The multiplier of the digits becomes 0 (consume_number.h:36), but in no *)
(* numeral with fewer digits than uint64_t has bits, less two.             *)
IsShort(numeral) == Len(numeral) + 2 < WordBits

(* Every request goes to the address and port in the LOCATION, as a reader *)
(* of the URL would take them, for the path in it or in the control URL.   *)
(* Such a URL is the LOCATION that was sent, and what is printed of the    *)
(* igd's URL is the buffer that its views are into.                        *)
RequestsGoToTheDevice ==
    LET c == packet.location IN
    /\ \A r \in requests :
        /\ IsPlain(c) /\ IsShort(Numeral(c["port"])) =>
              /\ r.to = <<<<c["host"], Value(Numeral(c["port"]))>>>>
              /\ NumericPort(rsp.url) = <<r.to[1][2]>>
        /\ IsPlain(c) /\ r.of = 0 => r.path = c["path"]
        /\ r.of # 0 /\ (IsPlain(services[r.of]) \/ IsPlainPath(services[r.of])) =>
              r.path = services[r.of]["path"]
    /\ \A i \in DOMAIN igds : IsPlain(c) =>
        Texts(rsp.url) = c /\ Printed(Texts(igds[i])) = igds[i].buf

(* A gateway's URL is the LOCATION with the path of its control URL: the   *)
(* parts around the path survive the copies, the replacement and the moves *)
(* of the vector, and each igd keeps its own path (igd.cpp:359-369).  So   *)
(* whatever the LOCATION is taken for, discover asks the device at one     *)
(* endpoint and all its gateways send their requests there.                *)
GatewayUrlsDifferInThePath ==
    /\ \A i \in DOMAIN igds : \A b \in Bases :
          Texts(igds[i]) = [Texts(rsp.url) EXCEPT !["path"] = ControlPath(i, b)]
    /\ \A q, r \in requests : q.to = r.to

(* replace_path needs a path: a URL that is nothing but a host has a null  *)
(* view there, and the position computed from it throws.  What keeps such  *)
(* a URL away is that consume_endpoint insists on a colon (igd.cpp:397).   *)
PathsCanBeReplaced == ~thrown
=============================================================================
