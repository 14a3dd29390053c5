----------------------------- MODULE SsdpResponse -----------------------------
(***************************************************************************)
(* query::response::parse (src/src/ssdp.cpp): what the library makes of a  *)
(* datagram.  The response is an optional value, as its fields are.        *)
(***************************************************************************)
EXTENDS Text

(* The line that a line end at i terminates.                               *)
LineBefore(text, i) ==
    SubSeq(text, SelectLastInSubSeq(text, 1, i - 1, LAMBDA c : c = "\n") + 1, i - 1)

(* Mutated LinesOf: the rest behind the last line end is a line too.       *)
AllLinesOf(text) ==
    LET t == Append(text, "\n")
    IN  FlattenSeq([i \in DOMAIN t |-> IF t[i] = "\n" THEN <<LineBefore(t, i)>> ELSE <<>>])

(* The lines of a text that are terminated.                                *)
LinesOf(text) ==
    FlattenSeq([i \in DOMAIN text |->
        IF text[i] = "\n" THEN <<LineBefore(text, i)>> ELSE <<>>])

(* "HTTP/1.x 200 OK": a space has to follow the code.                      *)
IsSuccess(line) ==
    LET rest == TrimPrefix(IF Has(line, <<" ">>) THEN After(line, <<" ">>) ELSE line)
    IN  /\ line # <<>> /\ IEquals(<<line[1]>>, "HTTP/1.1")
        /\ Has(rest, <<" ">>) /\ Before(rest, <<" ">>) = <<"200">>

(* The lines after the first, up to the first that has no colon.           *)
HeadersOf(lines) ==
    LET over == SelectInSubSeq(lines, 2, Len(lines), LAMBDA l : ~Has(l, <<":">>))
        hs   == SubSeq(lines, 2, IF over = 0 THEN Len(lines) ELSE over - 1)
    IN  [k \in DOMAIN hs |-> [key |-> Before(hs[k], <<":">>), val |-> Trim(After(hs[k], <<":">>))]]

(* The values of the headers with a key; the last one overwrites the rest. *)
ValuesOf(headers, key) ==
    FlattenSeq([i \in DOMAIN headers |->
        IF IEquals(headers[i].key, key) THEN <<headers[i].val>> ELSE <<>>])

LastOf(values) == IF values = <<>> THEN <<>> ELSE <<Last(values)>>

(* The UUIDs in a USN: what is between "uuid:" and the next "::".          *)
UuidsOf(usn) ==
    LET from[i \in 0 .. Len(usn)] ==  \* those in what follows offset i
            LET colon == Find(usn, i, <<":">>)
                end   == Find(usn, colon + 1, <<":", ":">>)
            IN  CASE colon = NotFound -> <<>>
                  [] colon # NotFound /\ ~IEquals(SubSeq(usn, i + 1, colon), "uuid") ->
                        from[colon + 1]
                  [] OTHER ->
                        IF end = NotFound
                        THEN <<SubSeq(usn, colon + 2, Len(usn))>> \o from[colon + 1]
                        ELSE <<SubSeq(usn, colon + 2, end)>> \o from[end + 2]
    IN  from[0]

(* A text without a line end is a response without any fields.             *)
ParseResponse(text) ==
    LET lines == LinesOf(text)
        usns  == ValuesOf(HeadersOf(lines), "USN")
    IN  IF lines # <<>> /\ ~IsSuccess(lines[1]) THEN <<>>
        ELSE <<[usn          |-> LastOf(usns),
                uuid         |-> LastOf(FlattenSeq([i \in DOMAIN usns |-> UuidsOf(usns[i])])),
                location     |-> LastOf(ValuesOf(HeadersOf(lines), "LOCATION")),
                service_type |-> LastOf(ValuesOf(HeadersOf(lines), "ST"))]>>
=============================================================================
