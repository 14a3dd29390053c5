---------------------------------- MODULE Url ----------------------------------
(***************************************************************************)
(* url_t (src/include/upnp/url.h, src/src/url.cpp): a URL is a buffer and  *)
(* seven views into it.  The buffer is at an address, a view is a pointer  *)
(* and a length: copying, moving or changing the buffer gives it another   *)
(* address, and the views have to follow.                                  *)
(***************************************************************************)
EXTENDS Text

Parts == {"scheme", "userinfo", "host", "port", "path", "query", "fragment"}

Null        == [ptr |-> 0, len |-> 0]
NoUrl(base) == [buf |-> <<>>, base |-> base, part |-> [p \in Parts |-> Null]]
TextAt(u, ptr, len) == SubSeq(u.buf, ptr - u.base + 1, ptr - u.base + len)
TextOf(u, p)        == TextAt(u, u.part[p].ptr, u.part[p].len)
Texts(u)            == [p \in Parts |-> TextOf(u, p)]

(* The first of some offsets that has been found.                          *)
FirstFound(offsets) == offsets[SelectInSeq(offsets, LAMBDA i : i # NotFound)]

(* url_t::parse.  '@' and ':' are looked for in all that is left, so that  *)
(* either in a path can end what is taken for the user or the host.        *)
ParseUrl(text, base) ==
    LET View(from, to) == [ptr |-> base + from, len |-> to - from]
        end    == Len(text)
        scheme == Find(text, 0, <<":", "/", "/">>)
        from   == IF scheme = NotFound THEN 0 ELSE scheme + 3
        user   == Find(text, from, <<"@">>)
        host   == IF user = NotFound THEN from ELSE user + 1
        colon  == Find(text, host, <<":">>)
        slash  == Find(text, Max({host, colon + 1}), <<"/">>)
        isLong == colon # NotFound \/ slash # NotFound   \* more than a host
        path   == IF slash # NotFound THEN slash ELSE colon + 1
        query  == Find(text, path, <<"?">>)
        hash   == Find(text, Max({path, query + 1}), <<"#">>)
    IN  [buf  |-> text,
         base |-> base,
         part |-> [scheme   |-> IF scheme # NotFound THEN View(0, scheme) ELSE Null,
                   userinfo |-> IF user # NotFound THEN View(from, user) ELSE Null,
                   host     |-> View(host, FirstFound(<<colon, slash, end>>)),
                   port     |-> IF colon # NotFound /\ slash # NotFound
                                THEN View(colon + 1, slash) ELSE Null,
                   path     |-> IF isLong THEN View(path, FirstFound(<<query, hash, end>>)) ELSE Null,
                   query    |-> IF isLong /\ query # NotFound
                                THEN View(query + 1, FirstFound(<<hash, end>>)) ELSE Null,
                   fragment |-> IF isLong /\ hash # NotFound THEN View(hash + 1, end) ELSE Null]]

(* operator<<, for the texts of the parts.                                 *)
Printed(c) ==
    LET With(before, text, after) == IF text = <<>> THEN <<>> ELSE before \o text \o after
    IN  With(<<>>, c["scheme"], <<":", "/", "/">>) \o With(<<>>, c["userinfo"], <<"@">>)
        \o c["host"] \o With(<<":">>, c["port"], <<>>) \o c["path"]
        \o With(<<"?">>, c["query"], <<>>) \o With(<<"#">>, c["fragment"], <<>>)

HostAndPort(u) ==
    LET host == u.part["host"]
        port == u.part["port"]
    IN  IF port.len = 0 THEN TextOf(u, "host")
        ELSE TextAt(u, host.ptr, port.ptr + port.len - host.ptr)

NumericPort(u) == ConsumeNumber(TextOf(u, "port"), MaxPort)

-----------------------------------------------------------------------------
(* Operations that give a buffer an address.                               *)

Transfer(view, from, to) == [view EXCEPT !.ptr = @ - from + to]

TransferAll(part, from, to) == [p \in Parts |-> Transfer(part[p], from, to)]

CopyOf(u, base) == [buf |-> u.buf, base |-> base, part |-> TransferAll(u.part, u.base, base)]

(* Mutated MovedTo: old_ptr is taken when the buffer has been moved.       *)
MovedAfter(u, base) == [buf |-> u.buf, base |-> base, part |-> u.part]

(* The move assignment, and the move constructor, which calls it.          *)
MovedTo(u, base) == [buf |-> u.buf, base |-> base, part |-> TransferAll(u.part, u.base, base)]

(* std::string::replace throws when the position is not in the buffer.     *)
CanReplacePath(u) == u.part["path"].ptr - u.base \in 0 .. Len(u.buf)

(* Mutated ReplacePath: the new path is put before the old one, which is   *)
(* not erased.                                                             *)
InsertPath(u, path, base) ==
    LET old   == u.part["path"]
        at    == old.ptr - u.base
        delta == Len(path) - old.len
        shifted == [u.part EXCEPT !["path"].len = @ + delta,
                                  !["query"].ptr = @ + delta,
                                  !["fragment"].ptr = @ + delta]
    IN  [buf  |-> SubSeq(u.buf, 1, at) \o path \o SubSeq(u.buf, at + 1, Len(u.buf)),
         base |-> base,
         part |-> TransferAll(shifted, u.base, base)]

ReplacePath(u, path, base) ==
    LET old   == u.part["path"]
        at    == old.ptr - u.base
        delta == Len(path) - old.len
        shifted == [u.part EXCEPT !["path"].len = @ + delta,
                                  !["query"].ptr = @ + delta,
                                  !["fragment"].ptr = @ + delta]
    IN  [buf  |-> SubSeq(u.buf, 1, at) \o path \o SubSeq(u.buf, at + old.len + 1, Len(u.buf)),
         base |-> base,
         part |-> TransferAll(shifted, u.base, base)]
=============================================================================
