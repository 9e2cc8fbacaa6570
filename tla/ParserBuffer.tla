---------------------------- MODULE ParserBuffer ----------------------------
(***************************************************************************)
(* The buffer of parser/cparser.c: which bytes of it hold received data,   *)
(* and the parts of the parser's state that move them.  What the bytes say *)
(* is left open here (see Parser): picohttpparser may find any head and    *)
(* any chunks in them, as long as it stays inside the bytes it was given.  *)
(*                                                                         *)
(* phase says who has control: "loop", the event loop; "feed", the loop in *)
(* Parser_feed; "closed", after an error no more data comes; "gone", after *)
(* feed_disconnect.                                                        *)
(***************************************************************************)
EXTENDS Integers

CONSTANTS
    PARSER_INITIAL_BUFFER_SIZE,
    MaxData,            \* bound: bytes that one call of data_received brings
    MaxLength,          \* bound: largest Content-Length
    CallbackMayFail     \* may on_body fail?

ASSUME BufferAssumption ==
    /\ PARSER_INITIAL_BUFFER_SIZE \in Nat \ {0}
    /\ MaxData \in Nat /\ MaxLength \in Nat
    /\ CallbackMayFail \in BOOLEAN

CONTENT_LENGTH_UNSET == -1      \* ULONG_MAX in the source

VARIABLES
    phase, state, transfer, content_length, chunked_offset,
    buffer_start, buffer_end, buffer_capacity

framing == <<transfer, content_length, chunked_offset>>
indexes == <<buffer_start, buffer_end, buffer_capacity>>
buffer_vars == <<phase, state, framing, indexes>>

BufferInit ==
    /\ phase = "loop" /\ state = "headers"
    /\ transfer = "unset" /\ content_length = CONTENT_LENGTH_UNSET /\ chunked_offset = 0
    /\ buffer_start = 0 /\ buffer_end = 0
    /\ buffer_capacity = PARSER_INITIAL_BUFFER_SIZE

Transfers == {"unset", "identity", "chunked"}
ContentLengths == {CONTENT_LENGTH_UNSET} \union 0..MaxLength

Length == buffer_end - buffer_start     \* bytes not consumed yet
Larger(a, b) == IF a > b THEN a ELSE b

\* _reset_state; with disconnect the buffer is emptied too.
ResetMessage ==
    /\ state' = "headers"
    /\ transfer' = "unset" /\ content_length' = CONTENT_LENGTH_UNSET /\ chunked_offset' = 0

ResetAll ==
    /\ ResetMessage
    /\ buffer_start' = 0 /\ buffer_end' = 0
    /\ UNCHANGED buffer_capacity

\* Parser_feed makes room for n bytes and appends them.  An empty buffer starts
\* over; otherwise what is left moves to the front when the end is too near, and
\* the buffer grows when even that is not enough.
Moves(n) == Length = 0 \/ n > buffer_capacity - buffer_end

\* Mutant: a large piece of data gets twice the old room, not what it needs.
RoomDoubled(n) ==
    IF n > buffer_capacity - Length THEN 2 * buffer_capacity ELSE buffer_capacity

Room(n) ==
    IF n > buffer_capacity - Length
    THEN Larger(2 * buffer_capacity, Length + n) ELSE buffer_capacity

Place(n) ==
    /\ phase = "loop"
    /\ buffer_start' = (IF Moves(n) THEN 0 ELSE buffer_start)
    /\ buffer_end' = buffer_start' + Length + n
    /\ buffer_capacity' = Room(n)
    /\ phase' = "feed"
    /\ UNCHANGED <<state, framing>>

\* The loop of Parser_feed: a body is tried right after its head, a head only
\* when bytes are left.
TriesHeaders == phase = "feed" /\ state = "headers" /\ Length # 0
TriesBody == phase = "feed" /\ state = "body"

\* _parse_headers: a head of size bytes that announces how its body is framed.
TakeHead(size, announced, length) ==
    /\ TriesHeaders
    /\ size \in 1..Length /\ announced \in Transfers /\ length \in ContentLengths
    /\ transfer' = announced /\ content_length' = length
    /\ buffer_start' = buffer_start + size
    /\ state' = "body"
    /\ UNCHANGED <<phase, chunked_offset, buffer_end, buffer_capacity>>

\* Nothing complete in the buffer (-2): back to the event loop.
Wait ==
    /\ TriesHeaders \/ TriesBody
    /\ phase' = "loop"
    /\ UNCHANGED <<state, framing, indexes>>

\* on_error was called (-1): the protocol closes the transport.
Fail ==
    /\ TriesHeaders \/ TriesBody
    /\ ResetAll
    /\ phase' = "closed"

FeedReturns ==
    /\ phase = "feed" /\ state = "headers" /\ Length = 0
    /\ phase' = "loop"
    /\ UNCHANGED <<state, framing, indexes>>

\* on_body gets size bytes and left bytes stay behind them.  When it fails (-3)
\* data_received raises and the transport is closed.
HandOver(size, left) ==
    /\ TriesBody
    /\ buffer_start' = buffer_start + size
    /\ buffer_end' = buffer_start' + left
    /\ UNCHANGED buffer_capacity
    /\ \/ ResetMessage /\ UNCHANGED phase
       \/ CallbackMayFail /\ phase' = "closed" /\ UNCHANGED <<state, framing>>

\* _parse_body without chunks: no body at all, or a Content-Length.
Unframed == transfer = "unset" /\ content_length = CONTENT_LENGTH_UNSET
Chunked == transfer = "chunked" /\ content_length = CONTENT_LENGTH_UNSET

TakeNoBody ==
    /\ Unframed \/ content_length = 0
    /\ HandOver(0, Length)

TakeLength ==
    /\ content_length \in 1..Length
    /\ HandOver(content_length, Length - content_length)

\* _parse_body with chunks: phr_decode_chunked is given what lies behind the bytes
\* already decoded.  It leaves dst more decoded bytes there, in place, and ret
\* bytes that follow the last chunk.
Decodes(dst, ret) ==
    dst \in Nat /\ ret \in Nat /\ dst + ret <= Length - chunked_offset

TakeChunks(dst, ret) ==
    /\ Chunked
    /\ Decodes(dst, ret)
    /\ HandOver(chunked_offset + dst, ret)

WaitForChunks(dst) ==
    /\ TriesBody /\ Chunked
    /\ Decodes(dst, 0)
    /\ chunked_offset' = chunked_offset + dst
    /\ buffer_end' = buffer_start + chunked_offset'
    /\ phase' = "loop"
    /\ UNCHANGED <<state, transfer, content_length, buffer_start, buffer_capacity>>

\* Parser_feed_disconnect
Disconnect ==
    /\ phase \in {"loop", "closed"}
    /\ ResetAll
    /\ phase' = "gone"

BufferNext ==
    \/ \E n \in 1..MaxData : Place(n)
    \/ \E size \in 1..Length, announced \in Transfers, length \in ContentLengths :
          TakeHead(size, announced, length)
    \/ Wait
    \/ Fail
    \/ FeedReturns
    \/ TakeNoBody
    \/ TakeLength
    \/ \E dst, ret \in 0..(Length - chunked_offset) : TakeChunks(dst, ret)
    \/ \E dst \in 0..(Length - chunked_offset) : WaitForChunks(dst)
    \/ Disconnect

BufferSpec == BufferInit /\ [][BufferNext]_buffer_vars

------------------------------------------------------------------------------
BufferTypeOK ==
    /\ phase \in {"loop", "feed", "closed", "gone"}
    /\ state \in {"headers", "body"}
    /\ transfer \in Transfers /\ content_length \in ContentLengths
    /\ chunked_offset \in Nat /\ buffer_start \in Nat /\ buffer_end \in Nat
    /\ buffer_capacity \in Nat \ {0}

\* Whatever arrives, in whatever pieces: the received bytes lie inside the
\* allocated buffer, and the bytes already decoded inside the received ones, so
\* that neither memcpy, memmove nor the unsigned subtractions of Parser_feed and
\* _parse_body leave their range.
WithinBuffer ==
    /\ buffer_start <= buffer_end /\ buffer_end <= buffer_capacity
    /\ phase # "closed" => chunked_offset <= Length
=============================================================================
