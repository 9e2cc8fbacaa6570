------------------------------- MODULE Parser -------------------------------
(***************************************************************************)
(* parser/cparser.c with the contents of its buffer: a client's messages   *)
(* arrive in pieces of any size, and the parser calls on_headers, on_body  *)
(* and on_error.                                                           *)
(*                                                                         *)
(* A byte is its position in the stream the client sends; stream[p] says   *)
(* what picohttpparser sees there.  Methods, paths and header lines are    *)
(* abstracted to the length of the head and to what it announces.          *)
(***************************************************************************)
EXTENDS ParserBuffer, Sequences, SequencesExt

CONSTANTS
    Messages,       \* the messages a client may send
    MaxMessages     \* bound: messages on one connection

\* A head of that many bytes announcing transfer, length and whether the
\* connection closes afterwards; chunks lists the sizes of its chunks.  invalid is
\* the part that does not parse.
Message == [head : Nat \ {0}, transfer : Transfers,
            length : ContentLengths, chunks : Seq(Nat \ {0}), close : BOOLEAN,
            invalid : {"none", "head", "body"}]

ASSUME MessagesAssumption == MaxMessages \in Nat /\ Messages \subseteq Message

VARIABLES
    messages, stream,       \* what the client sends
    fed,                    \* how many bytes of it arrived
    buffer,                 \* positions of the stream; 0 for a byte never read
    connection,             \* "unset", "close" or "keep_alive"
    decoder,                \* struct phr_chunked_decoder
    events                  \* history: the calls of the protocol

content_vars == <<messages, stream, fed, buffer, connection, decoder, events>>
vars == <<buffer_vars, content_vars>>

------------------------------------------------------------------------------
\* The bytes of a message.
Byte(k, is, n) == [message |-> k, is |-> is, n |-> n]
Repeat(k, is, n) == [i \in 1..n |-> Byte(k, is, i)]

EndOfLine(k) == <<Byte(k, "cr", 0), Byte(k, "lf", 0)>>

\* Chunk sizes have two hexadecimal digits, so that one may arrive alone; a line
\* of trailers follows the last chunk.
ChunkBytes(k, size) ==
    <<Byte(k, "digit", 0), Byte(k, "digit", size)>> \o EndOfLine(k)
    \o Repeat(k, "data", size) \o EndOfLine(k)

ChunkedBytes(k, m) ==
    FlattenSeq([i \in DOMAIN m.chunks |-> ChunkBytes(k, m.chunks[i])])
    \o (IF m.invalid = "body" THEN <<Byte(k, "bad", 0)>>
        ELSE <<Byte(k, "digit", 0)>> \o EndOfLine(k)
             \o <<Byte(k, "trailer", 0)>> \o EndOfLine(k) \o EndOfLine(k))

MessageBytes(k, m) ==
    Repeat(k, "head", m.head - 1) \o <<Byte(k, "head_end", 0)>>
    \o (IF m.length # CONTENT_LENGTH_UNSET THEN Repeat(k, "data", m.length)
        ELSE IF m.transfer = "chunked" THEN ChunkedBytes(k, m) ELSE << >>)

NewDecoder == [state |-> "size", digits |-> FALSE, left |-> 0]

Parser_init ==
    /\ BufferInit
    /\ messages \in UNION {[1..n -> Messages] : n \in 1..MaxMessages}
    /\ stream = FlattenSeq([k \in DOMAIN messages |-> MessageBytes(k, messages[k])])
    /\ fed = 0 /\ events = << >>
    /\ buffer = [i \in 0..(PARSER_INITIAL_BUFFER_SIZE - 1) |-> 0]
    /\ connection = "unset" /\ decoder = NewDecoder

------------------------------------------------------------------------------
\* Mutant: moving the bytes to the front forgets the first one.
PlacedShifted(n) ==
    [i \in 0..(buffer_capacity' - 1) |->
        IF i < buffer_start' THEN 0
        ELSE IF i < buffer_start' + Length
        THEN IF Moves(n) /\ i + 1 < Length THEN buffer[buffer_start + i + 1]
             ELSE buffer[buffer_start + i - buffer_start']
        ELSE IF i < buffer_end' THEN fed + 1 + i - (buffer_start' + Length) ELSE 0]

\* memmove, realloc and memcpy of Parser_feed.
Placed(n) ==
    [i \in 0..(buffer_capacity' - 1) |->
        IF i < buffer_start' THEN 0
        ELSE IF i < buffer_start' + Length THEN buffer[buffer_start + i - buffer_start']
        ELSE IF i < buffer_end' THEN fed + 1 + i - (buffer_start' + Length) ELSE 0]

Parser_feed ==
    \E n \in 1..MaxData :
        /\ n <= Len(stream) - fed
        /\ Place(n)
        /\ buffer' = Placed(n)
        /\ fed' = fed + n
        /\ UNCHANGED <<messages, stream, connection, decoder, events>>

Call(is, at) == events' = Append(events, [is |-> is, at |-> at])

\* The bytes between two indexes of a buffer.
Window(b, first, last) == [i \in 1..(last - first) |-> b[first + i - 1]]
Received == Window(buffer, buffer_start, buffer_end)

\* phr_parse_request: the head ends with the first byte that is not "head".
HeadSize == SelectInSeq(Received, LAMBDA p : stream[p].is # "head")
HeadEnd == stream[Received[HeadSize]]
WellFormed == HeadEnd.is = "head_end" /\ messages[HeadEnd.message].invalid # "head"

\* _parse_headers
ParseHeaders ==
    /\ connection # "close" /\ HeadSize # 0 /\ WellFormed
    /\ LET m == messages[HeadEnd.message] IN
        /\ TakeHead(HeadSize, m.transfer, m.length)
        /\ connection' = (IF m.close THEN "close" ELSE "keep_alive")
    /\ Call("headers", <<Received[HeadSize]>>)
    /\ UNCHANGED <<messages, stream, fed, buffer, decoder>>

HeadersIncomplete ==
    /\ TriesHeaders /\ connection # "close" /\ HeadSize = 0
    /\ Wait
    /\ UNCHANGED content_vars

\* excessive_data, malformed_headers and invalid_headers
HeadersFail ==
    /\ TriesHeaders
    /\ connection = "close" \/ (HeadSize # 0 /\ ~WellFormed)
    /\ Fail
    /\ Call("error", << >>)
    /\ connection' = "unset" /\ decoder' = NewDecoder
    /\ UNCHANGED <<messages, stream, fed, buffer>>

------------------------------------------------------------------------------
\* One byte of phr_decode_chunked.
AfterDigits(d, p) ==
    [d EXCEPT !.digits = FALSE,
              !.state = IF stream[p].is # "lf" THEN "ext"
                        ELSE IF d.left = 0 THEN "trailer" ELSE "data"]

DecodeByte(d, p) ==
    CASE d.state = "size" /\ stream[p].is = "digit" ->
            [d EXCEPT !.left = 16 * @ + stream[p].n, !.digits = TRUE]
      [] d.state = "size" /\ stream[p].is # "digit" ->
            IF d.digits THEN AfterDigits(d, p) ELSE [d EXCEPT !.state = "malformed"]
      [] d.state = "ext" -> AfterDigits(d, p)
      [] d.state = "data" ->
            [d EXCEPT !.left = @ - 1, !.out = Append(@, p),
                      !.state = IF d.left = 1 THEN "crlf" ELSE "data"]
      [] d.state \in {"crlf", "trailer"} /\ stream[p].is = "cr" -> d
      [] d.state = "crlf" /\ stream[p].is # "cr" ->
            [d EXCEPT !.state = IF stream[p].is = "lf" THEN "size" ELSE "malformed"]
      [] d.state = "trailer" /\ stream[p].is # "cr" ->
            [d EXCEPT !.state = IF stream[p].is = "lf" THEN "complete" ELSE "line"]
      [] d.state = "line" ->
            [d EXCEPT !.state = IF stream[p].is = "lf" THEN "trailer" ELSE "line"]
      [] d.state \in {"malformed", "complete"} -> [d EXCEPT !.rest = Append(@, p)]

\* phr_decode_chunked on what lies behind the bytes already decoded: out is what it
\* decodes, rest what follows the last chunk.
Decoded ==
    FoldLeft(DecodeByte,
             [state |-> decoder.state, digits |-> decoder.digits, left |-> decoder.left,
              out |-> << >>, rest |-> << >>],
             Window(buffer, buffer_start + chunked_offset, buffer_end))

\* out and rest are moved to the front, in place.
DecodedInPlace(d) ==
    LET at == buffer_start + chunked_offset
        moved == d.out \o d.rest
    IN [i \in DOMAIN buffer |->
            IF i \in at..(at + Len(moved) - 1) THEN moved[i - at + 1] ELSE buffer[i]]

\* _parse_body
BodyWithoutChunks ==
    /\ \/ TakeNoBody /\ Call("body", << >>)
       \/ TakeLength /\ Call("body", Window(buffer, buffer_start, buffer_start'))
    /\ UNCHANGED <<messages, stream, fed, buffer, connection, decoder>>

\* Mutant: the decoder is not reset after a message.
BodyChunksNoReset ==
    /\ Chunked
    /\ LET d == Decoded IN
        /\ d.state = "complete"
        /\ TakeChunks(Len(d.out), Len(d.rest))
        /\ buffer' = DecodedInPlace(d)
        /\ decoder' = [state |-> d.state, digits |-> d.digits, left |-> d.left]
    /\ Call("body", Window(buffer', buffer_start, buffer_start'))
    /\ UNCHANGED <<messages, stream, fed, connection>>

BodyChunks ==
    /\ Chunked
    /\ LET d == Decoded IN
        /\ d.state = "complete"
        /\ TakeChunks(Len(d.out), Len(d.rest))
        /\ buffer' = DecodedInPlace(d)
    /\ decoder' = NewDecoder
    /\ Call("body", Window(buffer', buffer_start, buffer_start'))
    /\ UNCHANGED <<messages, stream, fed, connection>>

BodyIncomplete ==
    /\ TriesBody
    /\ IF content_length = CONTENT_LENGTH_UNSET THEN transfer = "identity"
       ELSE content_length > Length
    /\ Wait
    /\ UNCHANGED content_vars

ChunksIncomplete ==
    /\ Chunked
    /\ LET d == Decoded IN
        /\ d.state \notin {"complete", "malformed"}
        /\ WaitForChunks(Len(d.out))
        /\ buffer' = DecodedInPlace(d)
        /\ decoder' = [state |-> d.state, digits |-> d.digits, left |-> d.left]
    /\ UNCHANGED <<messages, stream, fed, connection, events>>

BodyFails ==
    /\ TriesBody /\ Chunked /\ Decoded.state = "malformed"
    /\ Fail
    /\ Call("error", << >>)
    /\ connection' = "unset" /\ decoder' = NewDecoder
    /\ UNCHANGED <<messages, stream, fed, buffer>>

ReturnFromFeed ==
    /\ FeedReturns
    /\ UNCHANGED content_vars

\* Mutant: a body of which nothing arrived is not missed.
DisconnectOnlyBuffered ==
    /\ IF Length # 0 THEN Call("error", << >>) ELSE UNCHANGED events
    /\ Disconnect
    /\ connection' = "unset" /\ decoder' = NewDecoder
    /\ UNCHANGED <<messages, stream, fed, buffer>>

\* Parser_feed_disconnect: incomplete_headers or incomplete_body.
Parser_feed_disconnect ==
    /\ IF state = "body" \/ Length # 0 THEN Call("error", << >>) ELSE UNCHANGED events
    /\ Disconnect
    /\ connection' = "unset" /\ decoder' = NewDecoder
    /\ UNCHANGED <<messages, stream, fed, buffer>>

\* The run ends with the connection.
Gone == phase = "gone" /\ UNCHANGED vars

Next ==
    \/ Parser_feed
    \/ ParseHeaders
    \/ HeadersIncomplete
    \/ HeadersFail
    \/ BodyWithoutChunks
    \/ BodyChunks
    \/ BodyIncomplete
    \/ ChunksIncomplete
    \/ BodyFails
    \/ ReturnFromFeed
    \/ Parser_feed_disconnect
    \/ Gone

Spec == Parser_init /\ [][Next]_vars

------------------------------------------------------------------------------
TypeOK ==
    /\ BufferTypeOK
    /\ fed \in 0..Len(stream)
    /\ buffer \in [0..(buffer_capacity - 1) -> 0..fed]
    /\ connection \in {"unset", "close", "keep_alive"}
    /\ decoder.left \in Nat /\ decoder.digits \in BOOLEAN
    /\ decoder.state \in {"size", "ext", "data", "crlf", "trailer", "line"}

\* What a parser that sees the bytes in one piece reports at the p-th, up to the
\* byte that does not parse or ends a head whose body has no end.
LastOf(p) == p = Len(stream) \/ stream[p + 1].message # stream[p].message
EndlessAt(p) ==
    LET m == messages[stream[p].message]
    IN LastOf(p) /\ m.length = CONTENT_LENGTH_UNSET /\ m.transfer = "identity"
WrongAt(p) ==
    \/ stream[p].is = "bad"
    \/ stream[p].is = "head_end" /\ messages[stream[p].message].invalid = "head"
    \/ p > 1 /\ LastOf(p - 1) /\ messages[stream[p - 1].message].close
BodyOf(k) ==
    FlattenSeq([p \in DOMAIN stream |->
        IF stream[p].message = k /\ stream[p].is = "data" THEN <<p>> ELSE << >>])
EventsAt(p) ==
    IF WrongAt(p) THEN <<[is |-> "error", at |-> << >>]>>
    ELSE (IF stream[p].is = "head_end" THEN <<[is |-> "headers", at |-> <<p>>]>> ELSE << >>)
         \o (IF LastOf(p) /\ ~EndlessAt(p)
             THEN <<[is |-> "body", at |-> BodyOf(stream[p].message)]>> ELSE << >>)

\* The first of n bytes at which the parser stops for good, 0 when there is none.
StopsAt(n) == SelectInSeq([p \in 1..n |-> p], LAMBDA p : WrongAt(p) \/ EndlessAt(p))
Reference(n) ==
    FlattenSeq([p \in 1..(IF StopsAt(n) = 0 THEN n ELSE StopsAt(n)) |-> EventsAt(p)])
CutShort(n) ==
    IF StopsAt(n) = 0 THEN n > 0 /\ ~LastOf(n) ELSE ~WrongAt(StopsAt(n))

\* Framing does not depend on how the bytes arrive: whenever the event loop has
\* control, on_headers, on_body and on_error were called exactly as for the bytes
\* received so far in one piece, every body with its own bytes, in order.
OnBodyFailed == phase = "closed" /\ state = "body"
FramingExact == phase \in {"loop", "closed"} /\ ~OnBodyFailed => events = Reference(fed)

\* A connection lost in the middle of a message, and only there, is an error.
CutReported ==
    [][phase' = "gone" /\ phase # "gone" /\ ~OnBodyFailed =>
          events' = Reference(fed)
                    \o (IF CutShort(fed) THEN <<[is |-> "error", at |-> << >>]>> ELSE << >>)]_vars
=============================================================================
