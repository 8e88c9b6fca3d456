---------------------------- MODULE MCHttpParser ----------------------------
(* The instance of HttpParser for TLC: one or two requests with up to two   *)
(* headers, well-formed or not, in one stream.                              *)
EXTENDS HttpParser

crlf == <<CR, LF>>
ThisLine(unit) == <<unit>> \o crlf
Headers ==
    {<<>>} \cup {ThisLine(h) : h \in HeaderUnits \cup {Text}}
           \cup {ThisLine("length_2") \o ThisLine(h) : h \in {"close", "length_1"}}
           \cup {<<CR, "close", LF, CR, LF>>, <<"close", Text, CR, LF>>,
                 <<Text, "close", CR, LF>>, <<CR, CR, LF>>}
First ==
    {ThisLine("POST") \o h \o crlf \o b :
        h \in Headers, b \in {<<>>, <<Text>>, <<CR, LF>>}}
Second ==
    {ThisLine("GET") \o ThisLine("length_1") \o crlf,
     ThisLine("POST") \o crlf,
     ThisLine("POST") \o ThisLine("length_1") \o crlf \o <<CR>>,
     <<LF, "GET">> \o crlf \o crlf}

MCStreams == {f \o s : f \in First, s \in Second}
=============================================================================
