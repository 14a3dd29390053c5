----------------------------- MODULE MCSsdpQuery -----------------------------
(* Instances of SsdpQuery small enough for TLC.  What is accepted, and the *)
(* USN it has, is what SsdpResponse makes of four datagrams: a1 and a2 are *)
(* answers of one device service, b was cut in its first line and has no   *)
(* USN, x is not a success.                                                *)
EXTENDS SsdpQueryRefinement, TLC

CONSTANTS a1, a2, b, x

R == INSTANCE SsdpResponse WITH
        Addresses <- {}, WordBits <- 16, PortBits <- 4,
        Spellings <- [USN |-> {"USN", "usn"}, LOCATION |-> {}, ST |-> {"ST"}, uuid |-> {"uuid"}]
                        @@ "HTTP/1.1" :> {"HTTP/1.1"}

Ok(key) == <<"HTTP/1.1", " ", "200", " ", "OK", "\n", key, ":", " ", "uuid", ":", "id", "\n">>

Received ==
    a1 :> Ok("USN") \o <<"ST", ":", "igd", "\n", "\n">>
        @@ a2 :> Ok("usn") \o <<"ST", ":", "wan">>
        @@ b :> <<"HTTP/1.1", " ", "200", " ">>
        @@ x :> <<"HTTP/1.1", " ", "404", " ", "\n", "\n">>

(* TLC evaluates these once: the constants are given their values below.   *)
Accepted == {d \in DOMAIN Received : R!ParseResponse(Received[d]) # <<>>}
UsnIn    == [d \in Accepted |-> R!ParseResponse(Received[d])[1].usn]
UsnsIn   == {UsnIn[d] : d \in Accepted}

MCWellFormed == Accepted
MCUsnOf      == UsnIn
MCUsns       == UsnsIn
MCTargets    == <<"InternetGatewayDevice:1", "InternetGatewayDevice:2">>
=============================================================================
