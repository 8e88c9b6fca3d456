----------------------------- MODULE HttpParser -----------------------------
(***************************************************************************)
(* How the HTTP server turns the bytes of a connection into requests: the  *)
(* receive loop fills the TCP buffer, the message callback calls           *)
(* HttpParser::parse() once, a complete request is answered and the parser *)
(* reset for the next one.                                                 *)
(*                                                                         *)
(* The stream is a sequence of units, each of which stands for a piece of  *)
(* text and counts as one byte: CR, LF, the request lines GET and POST,    *)
(* the headers of HeaderUnits, and Text without a colon or a digit.  The   *)
(* parser may find them in any place.  What arrives once the write end has *)
(* been shut down, or the connection aborted, is in TcpConnectSocketfd.    *)
(***************************************************************************)
EXTENDS TcpBuffer

CONSTANT Streams   \* what a client may send

CR == "CR"
LF == "LF"
Text == "text"

\* "Connection: close", "Connection: keep-alive", "Content-Length: n" for a
\* few n, "Content-Length: " without digits, and any other header
Lengths == [length_0 |-> 0, length_1 |-> 1, length_2 |-> 2]
HeaderUnits == DOMAIN Lengths \cup {"length_none", "close", "keep_alive", "other"}

Units == {CR, LF, Text, "GET", "POST"} \cup HeaderUnits

ASSUME StreamAssumption ==
    /\ InitialCapacity \in Nat
    /\ Streams \subseteq Seq(Units)

NoDigits == 100   \* a Content-Length that strtol() cannot read
NoLength == 101   \* no Content-Length at all

EmptyRequest ==
    [method |-> "unsupported", connection |-> "none", length |-> NoLength,
     body |-> <<>>]

VARIABLES
    stream, received,   \* what the client sends, how much of it was received
    state,              \* _parsing_state
    body_length,        \* _body_length
    request,            \* _request, with the headers that matter
    calling,            \* in the message callback
    fresh,              \* data was received since the last callback
    answered,           \* history: the requests given to the callback
    just_answered,      \* history: the last one by the last message callback
    status              \* of the connection

parserVars == <<state, body_length, request>>
history == <<answered, just_answered>>
vars == <<bufferVars, stream, received, parserVars, calling, fresh, history,
          status>>

Init ==
    /\ BufferInit
    /\ stream \in Streams
    /\ received = 0
    /\ state = "EXPECT_REQUEST_LINE"
    /\ body_length = 0
    /\ request = EmptyRequest
    /\ calling = FALSE
    /\ fresh = FALSE
    /\ answered = <<>>
    /\ just_answered = FALSE
    /\ status = "open"

-----------------------------------------------------------------------------
(* HttpRequest *)

\* parse_request_line(): nothing may precede the method or follow the version.
ParseRequestLine(line, r) ==
    IF line \in {<<"GET">>, <<"POST">>}
    THEN [ok |-> TRUE, request |-> [r EXCEPT !.method = line[1]]]
    ELSE [ok |-> FALSE, request |-> r]

IsSpace(unit) == unit \in {CR, LF}

\* The line without the white space at both ends
Trim(line) ==
    LET text == {i \in DOMAIN line : ~ IsSpace(line[i])}
    IN  IF text = {} THEN <<>> ELSE SubSeq(line, Min(text), Max(text))

\* parse_header_line(): the first colon ends the key.  A header whose key or
\* value has been lengthened by other text is another header or value, but
\* strtol() ignores what follows the digits.
ParseHeaderLine(line, r) ==
    LET trimmed == Trim(line)
        key == Head(trimmed)
        alone == Len(trimmed) = 1
    IN  IF ~ \E i \in DOMAIN line : line[i] \in HeaderUnits
        THEN [ok |-> FALSE, request |-> r]
        ELSE [ok |-> TRUE,
              request |->
                 CASE key \in {"close", "keep_alive"} ->
                        [r EXCEPT !.connection =
                           IF key = "close" /\ alone THEN "close" ELSE "other"]
                   [] key \in DOMAIN Lengths -> [r EXCEPT !.length = Lengths[key]]
                   [] key = "length_none" -> [r EXCEPT !.length = NoDigits]
                   [] OTHER -> r]

\* Mutant: the headers of the last request are kept.
ResetKeepsHeaders(r) == [r EXCEPT !.method = "unsupported", !.body = <<>>]

\* reset()
ResetRequest(r) == EmptyRequest

-----------------------------------------------------------------------------
(* The connection *)

\* One recv() of the receive loop, whatever part of the stream it returns
Receive(size) ==
    /\ status \in {"open", "closing"}
    /\ ~ calling
    /\ size \in 1 .. Len(stream) - received
    /\ AppendData(SubSeq(stream, received + 1, received + size))
    /\ received' = received + size
    /\ fresh' = TRUE
    /\ UNCHANGED <<stream, parserVars, calling, history, status>>

\* The receive loop ends and calls the message callback; parse() does not
\* expect to be called in the state SUCCESS.
MessageCallback ==
    /\ status \in {"open", "closing"}
    /\ ~ calling
    /\ fresh
    /\ fresh' = FALSE
    /\ just_answered' = FALSE
    /\ IF state = "SUCCESS"
       THEN status' = "fatal" /\ UNCHANGED calling
       ELSE calling' = TRUE /\ UNCHANGED status
    /\ UNCHANGED <<bufferVars, stream, received, parserVars, answered>>

Ends == LineEnds(CR, LF)
Line == SubSeq(memory, read_offset + 1, Min(Ends) - 1)

\* parse() fails, which aborts the connection.
Fail ==
    /\ state' = "FAIL"
    /\ calling' = FALSE
    /\ status' = "aborted"
    /\ UNCHANGED <<bufferVars, body_length, request>>

RequestLine ==
    /\ calling
    /\ state = "EXPECT_REQUEST_LINE"
    /\ Ends # {}
    /\ LET parsed == ParseRequestLine(Line, request)
       IN  IF parsed.ok
           THEN /\ request' = parsed.request
                /\ ForwardReadPosition(Len(Line) + 2)
                /\ state' = "EXPECT_HEADERS"
                /\ UNCHANGED <<body_length, calling, status>>
           ELSE Fail
    /\ UNCHANGED <<stream, received, fresh, history>>

HeaderLine ==
    /\ calling
    /\ state = "EXPECT_HEADERS"
    /\ Ends # {} /\ Line # <<>>
    /\ LET parsed == ParseHeaderLine(Line, request)
       IN  IF parsed.ok
           THEN /\ request' = parsed.request
                /\ ForwardReadPosition(Len(Line) + 2)
                /\ UNCHANGED <<state, body_length, calling, status>>
           ELSE Fail
    /\ UNCHANGED <<stream, received, fresh, history>>

\* The empty line: there is a body if the method is POST and the length is
\* given; a length of 0 is none.
EndOfHeaders ==
    /\ calling
    /\ state = "EXPECT_HEADERS"
    /\ Ends # {} /\ Line = <<>>
    /\ ForwardReadPosition(2)
    /\ LET has_length == request.method = "POST" /\ request.length # NoLength
       IN  IF has_length /\ request.length = NoDigits
           THEN /\ state' = "FAIL"
                /\ calling' = FALSE
                /\ status' = "aborted"
                /\ body_length' = 0
           ELSE /\ body_length' = IF has_length THEN request.length ELSE 0
                /\ state' = IF body_length' = 0 THEN "SUCCESS"
                                                ELSE "EXPECT_BODY"
                /\ UNCHANGED <<calling, status>>
    /\ UNCHANGED <<stream, received, request, fresh, history>>

Body ==
    /\ calling
    /\ state = "EXPECT_BODY"
    /\ readable_size >= body_length
    /\ request' = [request EXCEPT !.body = SubSeq(Readable, 1, body_length)]
    /\ ForwardReadPosition(body_length)
    /\ state' = "SUCCESS"
    /\ UNCHANGED <<stream, received, body_length, calling, fresh, history,
                   status>>

\* What the parser waits for has been received.
ElementIsComplete ==
    \/ state \in {"EXPECT_REQUEST_LINE", "EXPECT_HEADERS"} /\ Ends # {}
    \/ state = "EXPECT_BODY" /\ readable_size >= body_length

Incomplete ==
    /\ calling
    /\ state # "SUCCESS"
    /\ ~ ElementIsComplete
    /\ calling' = FALSE
    /\ UNCHANGED <<bufferVars, stream, received, parserVars, fresh, history,
                   status>>

\* The request is answered.  sent tells how that ends: the reply is out, still
\* being written, or could not be sent, which aborts the connection.
Answer(sent) ==
    /\ calling
    /\ state = "SUCCESS"
    /\ calling' = FALSE
    /\ answered' = Append(answered, request)
    /\ just_answered' = TRUE
    /\ IF sent = "aborted" \/ request.connection = "close"
       THEN /\ status' = IF sent = "writing" THEN "closing" ELSE "closed"
            /\ UNCHANGED parserVars
       ELSE /\ state' = "EXPECT_REQUEST_LINE"
            /\ body_length' = 0
            /\ request' = ResetRequest(request)
            /\ UNCHANGED status
    /\ UNCHANGED <<bufferVars, stream, received, fresh>>

\* The write-complete callback shuts the connection down.
WriteCompletes ==
    /\ status = "closing"
    /\ status' = "closed"
    /\ UNCHANGED <<bufferVars, stream, received, parserVars, calling, fresh,
                   history>>

Next ==
    \/ \E size \in 1 .. Len(stream) : Receive(size)
    \/ MessageCallback
    \/ RequestLine
    \/ HeaderLine
    \/ EndOfHeaders
    \/ Body
    \/ Incomplete
    \/ \E sent \in {"sent", "writing", "aborted"} : Answer(sent)
    \/ WriteCompletes

Spec == Init /\ [][Next]_vars

-----------------------------------------------------------------------------
(* The reference: the stream is read one unit at a time.                   *)

StartOfStream ==
    [phase |-> "EXPECT_REQUEST_LINE", line |-> <<>>, request |-> EmptyRequest,
     done |-> <<>>]

\* A request is complete; nothing follows one that closes the connection.
Complete(d, r) ==
    [phase |-> IF r.connection = "close" THEN "closed"
                                         ELSE "EXPECT_REQUEST_LINE",
     line |-> <<>>,
     request |-> EmptyRequest,
     done |-> Append(d.done, r)]

\* A line is complete, and more of the request follows.
Continue(d, phase, r) ==
    [phase |-> phase, line |-> <<>>, request |-> r, done |-> d.done]

\* What follows from the empty line, ...
NoMoreHeaders(d) ==
    LET body == IF d.request.method = "POST" THEN d.request.length ELSE NoLength
    IN  CASE body \in {0, NoLength} -> Complete(d, d.request)
          [] body = NoDigits -> [d EXCEPT !.phase = "FAIL"]
          [] OTHER -> Continue(d, "EXPECT_BODY", d.request)

\* ... and from any line.
Consume(d, line) ==
    LET parsed == IF d.phase = "EXPECT_REQUEST_LINE"
                  THEN ParseRequestLine(line, d.request)
                  ELSE ParseHeaderLine(line, d.request)
    IN  CASE d.phase = "EXPECT_HEADERS" /\ line = <<>> -> NoMoreHeaders(d)
          [] OTHER -> IF parsed.ok
                      THEN Continue(d, "EXPECT_HEADERS", parsed.request)
                      ELSE [d EXCEPT !.phase = "FAIL"]

ReadUnit(d, unit) ==
    LET line == Append(d.line, unit)
        n == Len(line)
        r == [d.request EXCEPT !.body = line]
    IN  CASE d.phase \in {"FAIL", "closed"} -> d
          [] d.phase = "EXPECT_BODY" ->
               IF n = d.request.length THEN Complete(d, r)
                                       ELSE [d EXCEPT !.line = line]
          [] OTHER ->
               IF n >= 2 /\ line[n - 1] = CR /\ line[n] = LF
               THEN Consume(d, SubSeq(line, 1, n - 2))
               ELSE [d EXCEPT !.line = line]

\* Where reading the first n units of s, for each n, leads.
Decode(s) ==
    LET decoded[n \in 0 .. Len(s)] ==
          IF n = 0 THEN StartOfStream ELSE ReadUnit(decoded[n - 1], s[n])
    IN  decoded

-----------------------------------------------------------------------------
(* Properties *)

consumed == received - readable_size

\* append(), _make_space() and forward_read_position(): through extension,
\* compaction and reallocation, at any sizes, the readable part of the buffer
\* stays within the capacity, and it is what was received and not consumed
\* unless memcpy() has copied overlapping ranges in the wrong order.
BufferHoldsStream ==
    /\ read_offset <= write_offset /\ write_offset <= capacity
    /\ ~ garbled => Readable = SubSeq(stream, consumed + 1, received)

\* The requests that are answered, and what the parser has of the next one, are
\* those of the stream that was consumed, read one unit at a time: they do not
\* depend on where recv() cut the stream, a body may contain line ends, and
\* nothing of one request is left in the next.  Only a stream that is no
\* sequence of requests makes parse() fail.  This, too, needs a memcpy() that
\* moves what it copies.
DecodesStream ==
    ~ garbled =>
    LET d == Decode(stream)[consumed]
    IN  /\ ~ calling => answered = d.done
        /\ ~ calling /\ status = "open" =>
              /\ state = d.phase
              /\ request = d.request
              /\ d.line = <<>>
        /\ status = "aborted" =>
              Decode(stream)[received].phase = "FAIL"

\* parse() leaves nothing for later that it could have taken: when the message
\* callback returns, the parser is where reading all that was received leads,
\* unless the callback has just answered a request; the next one waits for
\* another message then, and unless memcpy() has destroyed the data.
NothingOverlooked ==
    ~ calling /\ status = "open" /\ ~ fresh /\ ~ just_answered /\ ~ garbled =>
       LET d == Decode(stream)[received]
       IN  answered = d.done /\ state = d.phase /\ request = d.request
=============================================================================
