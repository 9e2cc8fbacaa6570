----------------------------- MODULE Connection -----------------------------
(***************************************************************************)
(* One connection of a worker: protocol/cprotocol.c with the calls that    *)
(* parser/cparser.c makes into it and the pipeline of cpipeline.c.         *)
(*                                                                         *)
(* The worker is one thread.  While the event loop has control (phase =    *)
(* "loop") it may deliver data, finish a task, run a _task_done callback,  *)
(* report the loss of the connection, or run the reaper or the drain.      *)
(* data_received keeps control (phase = "feed") until Parser_feed returns; *)
(* its loop over the buffer takes one step per parsed request.             *)
(*                                                                         *)
(* Requests are numbered in the order their headers were parsed.  Bytes    *)
(* are abstracted to what decides control: whether any are left, whether   *)
(* they hold a complete, an incomplete or a malformed request, and the     *)
(* size of a response relative to the gather buffer.                       *)
(***************************************************************************)
EXTENDS Integers, Sequences, FiniteSets, SequencesExt

CONSTANTS
    QueueSlots, MaxEntries,     \* see Pipeline
    ReadyMayFail,               \* may rendering or writing a response fail?
    MaxRequests,                \* bound: requests of one connection
    MaxFailures,                \* bound: calls of data_received that raise
    GATHER_MAX_RESP,            \* 24 in cprotocol.h
    GATHER_MAX_LEN,             \* a page minus a header in cprotocol.h
    Sizes,                      \* sizes of rendered responses
    Heads,                      \* the heads of requests, see Head
    Malformed,                  \* may the client send bytes that do not parse?
    CoroCallMayRaise            \* may calling a coroutine handler raise?

\* A head is known by its minor version and by the values of its Connection
\* headers: the token the whole value is when case does not matter, if any, and the
\* tokens that are found inside of it as they are written.
Tokens == {"close", "keep-alive"}

ASSUME ConnectionAssumption ==
    /\ QueueSlots \in Nat \ {0} /\ MaxEntries \in Nat /\ MaxRequests \in Nat
    /\ MaxFailures \in Nat
    /\ GATHER_MAX_RESP \in Nat \ {0} /\ GATHER_MAX_LEN \in Nat
    /\ Sizes \subseteq Nat \ {0}
    /\ \A head \in Heads :
          /\ head.minor_version \in {0, 1}
          /\ head.values \in Seq([whole : Tokens \union {"other"}, inside : SUBSET Tokens])
    /\ {ReadyMayFail, Malformed, CoroCallMayRaise} \subseteq BOOLEAN

VARIABLES
    queue, queue_start, queue_end, queued, finished, cancelled, callbacks,
    protocol_refs, written, ready_failed, aborted   \* see Pipeline

VARIABLES
    phase,              \* who has control: "loop" or "feed"
    buffered,           \* buffer_start # buffer_end
    parser_state,       \* "headers" or "body"
    parser_connection,  \* "unset", "close" or "keep-alive"
    requests,           \* the requests whose headers were parsed
    handled,            \* history: how many of them on_body was called for
    carried,            \* the request each pipeline entry carries
    gather,             \* gather.responses: requests whose response is held back
    gather_len,         \* gather.len
    gather_enabled,     \* gather.enabled
    sent,               \* what transport.write was given, in order
    transport,          \* "open", "closing" after close(), "lost" after connection_lost
    feed_failures       \* history: how often data_received raised

pipeline_vars == <<queue, queue_start, queue_end, queued, finished, cancelled,
                   callbacks, protocol_refs, written, ready_failed, aborted>>
parser_vars == <<buffered, parser_state, parser_connection, requests>>
output_vars == <<gather, gather_len, sent, transport>>
vars == <<pipeline_vars, parser_vars, output_vars, phase, handled, carried,
          gather_enabled, feed_failures>>

Pipe == INSTANCE Pipeline

\* What a request is known for after its headers: its handler is a coroutine
\* function, its response closes the connection, the size of its response.
Request == [is_coro : BOOLEAN, close : BOOLEAN, size : Sizes]
BadRequest == 0     \* the 400 response of protocol_error_handler in `sent`

Protocol_init ==
    /\ Pipe!Pipeline_init
    /\ phase = "loop" /\ buffered = FALSE
    /\ parser_state = "headers" /\ parser_connection = "unset"
    /\ requests = << >> /\ handled = 0 /\ carried = << >>
    /\ gather = << >> /\ gather_len = 0 /\ gather_enabled = FALSE
    /\ sent = << >> /\ transport = "open" /\ feed_failures = 0

------------------------------------------------------------------------------
\* The transport (uvloop): close() stops reading and leads to connection_lost;
\* what is written after connection_lost goes nowhere.
Closed(t) == IF t = "open" THEN "closing" ELSE t
Written(bytes) == IF transport = "lost" THEN sent ELSE sent \o bytes

\* Mutant: one response too many is held back.
WriteResponseOneMore(enabled, out, r) ==
    LET size == requests[r].size
        held == /\ enabled
                /\ Len(out.gather) <= GATHER_MAX_RESP
                /\ out.len + size <= GATHER_MAX_LEN
        t == IF requests[r].close THEN Closed(out.transport) ELSE out.transport
    IN IF held
       THEN [out EXCEPT !.gather = Append(@, r), !.len = @ + size, !.transport = t]
       ELSE [gather |-> << >>, len |-> 0, transport |-> t,
             sent |-> out.sent \o out.gather \o <<r>>]

\* Mutant: the gather is not flushed before a response is written.
WriteResponseFirst(enabled, out, r) ==
    LET size == requests[r].size
        held == /\ enabled
                /\ Len(out.gather) < GATHER_MAX_RESP
                /\ out.len + size <= GATHER_MAX_LEN
        t == IF requests[r].close THEN Closed(out.transport) ELSE out.transport
    IN IF held
       THEN [out EXCEPT !.gather = Append(@, r), !.len = @ + size, !.transport = t]
       ELSE [out EXCEPT !.sent = @ \o <<r>>, !.transport = t]

\* Protocol_write_response_or_err for one rendered response: held back in the
\* gather, or written after whatever the gather holds; then the connection is
\* closed when the response is not keep-alive.
WriteResponse(enabled, out, r) ==
    LET size == requests[r].size
        held == /\ enabled
                /\ Len(out.gather) < GATHER_MAX_RESP
                /\ out.len + size <= GATHER_MAX_LEN
        t == IF requests[r].close THEN Closed(out.transport) ELSE out.transport
    IN IF held
       THEN [out EXCEPT !.gather = Append(@, r), !.len = @ + size, !.transport = t]
       ELSE [gather |-> << >>, len |-> 0, transport |-> t,
             sent |-> out.sent \o out.gather \o <<r>>]

Output == [gather |-> gather, len |-> gather_len, sent |-> sent, transport |-> transport]
Outputs(out) ==
    /\ gather' = out.gather /\ gather_len' = out.len
    /\ sent' = out.sent /\ transport' = out.transport

\* Mutant: what is held back stays there.
KeepGathered == UNCHANGED output_vars

\* Gather_flush and write, from Protocol_on_incomplete.
Protocol_on_incomplete ==
    /\ sent' = Written(gather) /\ gather' = << >> /\ gather_len' = 0
    /\ UNCHANGED transport

\* Protocol_on_error: the 400 goes straight to the transport, then close().  The
\* parser resets itself and leaves its loop without calling on_incomplete.
Protocol_on_error ==
    /\ sent' = Written(<<BadRequest>>)
    /\ transport' = Closed(transport)
    /\ UNCHANGED <<gather, gather_len>>

ParserReset ==
    /\ buffered' = FALSE /\ parser_state' = "headers" /\ parser_connection' = "unset"

------------------------------------------------------------------------------
\* Protocol_data_received: bytes are appended to the buffer of the parser.
Protocol_data_received ==
    /\ phase = "loop" /\ transport = "open" /\ ~aborted
    /\ phase' = "feed" /\ buffered' = TRUE
    /\ UNCHANGED <<pipeline_vars, parser_state, parser_connection, requests,
                   output_vars, handled, carried, gather_enabled, feed_failures>>

ParsingHeaders ==
    phase = "feed" /\ ~aborted /\ buffered /\ parser_state = "headers"

\* The body is tried right after the head, even when no byte is left.
ParsingBody ==
    phase = "feed" /\ ~aborted /\ parser_state = "body"

\* The two readings of the Connection headers.  The parser takes whole values, and
\* the last header that is one; the request, and with it the response, looks into
\* the first header only.
ParserReads(head) ==
    LET said == {i \in DOMAIN head.values : head.values[i].whole # "other"}
    IN IF said # {} THEN head.values[Max(said)].whole
       ELSE IF head.minor_version = 0 THEN "close" ELSE "keep-alive"

Request_get_keep_alive(head) ==
    LET inside == IF head.values = << >> THEN {} ELSE Head(head.values).inside
    IN IF head.minor_version = 0 THEN "keep-alive" \in inside ELSE "close" \notin inside

\* _parse_headers: a complete head; on_headers fills static_request.
Headers ==
    /\ ParsingHeaders
    /\ parser_connection # "close"
    /\ Len(requests) < MaxRequests
    /\ \E head \in Heads, is_coro \in BOOLEAN, size \in Sizes :
          /\ parser_connection' = ParserReads(head)
          /\ requests' = Append(requests,
                [is_coro |-> is_coro, close |-> ~Request_get_keep_alive(head),
                 size |-> size])
    /\ parser_state' = "body"
    /\ buffered' \in BOOLEAN
    /\ UNCHANGED <<pipeline_vars, output_vars, phase, handled, carried,
                   gather_enabled, feed_failures>>

\* Parser_feed ends with -2: part of a request stays in the buffer.
Incomplete ==
    /\ \/ ParsingHeaders /\ parser_connection # "close" /\ UNCHANGED buffered
       \/ ParsingBody /\ buffered' \in {buffered, FALSE}
    /\ Protocol_on_incomplete
    /\ phase' = "loop"
    /\ UNCHANGED <<pipeline_vars, parser_state, parser_connection, requests,
                   handled, carried, gather_enabled, feed_failures>>

\* Parser_feed ends with -1: malformed bytes, or bytes after a request that
\* announced to be the last one (excessive_data).
ParseError ==
    /\ \/ ParsingHeaders /\ (Malformed \/ parser_connection = "close")
       \/ ParsingBody /\ buffered /\ Malformed
    /\ Protocol_on_error
    /\ ParserReset
    /\ phase' = "loop"
    /\ UNCHANGED <<pipeline_vars, requests, handled, carried, gather_enabled, feed_failures>>

\* Parser_feed ends with every byte used; on_incomplete is not called.
FeedEnds ==
    /\ phase = "feed" /\ ~aborted /\ ~buffered /\ parser_state = "headers"
    /\ phase' = "loop"
    /\ UNCHANGED <<pipeline_vars, parser_vars, output_vars, handled, carried,
                   gather_enabled, feed_failures>>

------------------------------------------------------------------------------
\* Protocol_on_body, called by _parse_body for the last request parsed, with the
\* bytes that follow it (tail).  Only a response that is written before anything
\* can overtake it, with more requests behind it, may stay in the gather.
Current == Len(requests)
IsCoro == requests[Current].is_coro

\* Mutant: a coroutine handler leaves the flag of an earlier request.
OnBodyStaleFlag(tail) ==
    /\ ParsingBody
    /\ tail \in {buffered, FALSE}
    /\ buffered' = tail
    /\ gather_enabled' = (IF IsCoro THEN gather_enabled ELSE Pipe!PIPELINE_EMPTY /\ tail)
    /\ handled' = Current

OnBody(tail) ==
    /\ ParsingBody
    /\ tail \in {buffered, FALSE}
    /\ buffered' = tail
    /\ gather_enabled' = (~IsCoro /\ Pipe!PIPELINE_EMPTY /\ tail)
    /\ handled' = Current

\* _parse_body returned 0 or 1: on to the next request in the buffer.
NextRequest ==
    /\ parser_state' = "headers"
    /\ UNCHANGED <<parser_connection, requests, phase, feed_failures>>

\* A coroutine handler: Protocol_handle_coro.  A synchronous handler, a missing
\* route or an exception while earlier requests are pending: its response waits
\* behind them.
\* Mutant: a response is queued although nothing is pending.
QueueRequestAlways(is_task) ==
    /\ IF is_task THEN IsCoro ELSE IsCoro => CoroCallMayRaise
    /\ Pipe!Pipeline_queue(is_task)
    /\ carried' = IF aborted' THEN carried ELSE Append(carried, Current)
    /\ UNCHANGED output_vars

QueueRequest(is_task) ==
    /\ IF is_task THEN IsCoro
       ELSE ~Pipe!PIPELINE_EMPTY /\ (IsCoro => CoroCallMayRaise)
    /\ Pipe!Pipeline_queue(is_task)
    /\ carried' = IF aborted' THEN carried ELSE Append(carried, Current)
    /\ UNCHANGED output_vars

\* Otherwise it is written at once.
WriteNow(enabled) ==
    /\ ~IsCoro /\ Pipe!PIPELINE_EMPTY
    /\ Outputs(WriteResponse(enabled, Output, Current))
    /\ UNCHANGED <<pipeline_vars, carried>>

Protocol_on_body ==
    \E tail \in BOOLEAN :
        /\ OnBody(tail)
        /\ NextRequest
        /\ \/ \E is_task \in BOOLEAN : QueueRequest(is_task)
           \/ WriteNow(gather_enabled')

\* on_body returns NULL and data_received raises: the response cannot be rendered
\* or written, or calling a coroutine handler raised with nothing pending, in
\* which case error_handler is called without the exception (the clone has it).
\* The parser keeps its state, and uvloop may close the transport.
OnBodyFails ==
    \E tail \in BOOLEAN :
        /\ OnBody(tail)
        /\ Pipe!PIPELINE_EMPTY
        /\ feed_failures < MaxFailures
        /\ IF IsCoro THEN CoroCallMayRaise ELSE ReadyMayFail
        /\ \E out \in {Output} \union
                 (IF IsCoro THEN {} ELSE {WriteResponse(gather_enabled', Output, Current)}) :
              \E t \in {out.transport, Closed(out.transport)} :
                 Outputs([out EXCEPT !.transport = t])
        /\ phase' = "loop"
        /\ feed_failures' = feed_failures + 1
        /\ UNCHANGED <<pipeline_vars, carried, parser_state, parser_connection, requests>>

------------------------------------------------------------------------------
\* A callback of the event loop: _task_done drains the pipeline, and
\* Protocol_pipeline_ready writes each response, or drops it when the connection
\* is closed.
Drained == SubSeq(written', Len(written) + 1, Len(written'))
Protocol_pipeline_ready(out, e) == WriteResponse(gather_enabled, out, carried[e])

\* Mutant: callbacks of a closed connection are ignored.
TaskDoneCallbackWhileOpen ==
    /\ phase = "loop" /\ transport # "lost"
    /\ Pipe!Pipeline_task_done
    /\ Outputs(FoldLeft(Protocol_pipeline_ready, Output, Drained))
    /\ UNCHANGED <<parser_vars, phase, handled, carried, gather_enabled, feed_failures>>

TaskDoneCallback ==
    /\ phase = "loop"
    /\ Pipe!Pipeline_task_done
    /\ IF transport = "lost" THEN UNCHANGED output_vars
       ELSE Outputs(FoldLeft(Protocol_pipeline_ready, Output, Drained))
    /\ UNCHANGED <<parser_vars, phase, handled, carried, gather_enabled, feed_failures>>

TaskFinishes ==
    /\ phase = "loop"
    /\ \E i \in Pipe!Waiting : Pipe!TaskFinishes(i)
    /\ UNCHANGED <<parser_vars, output_vars, phase, handled, carried,
                   gather_enabled, feed_failures>>

\* Mutant: the tasks of a lost connection go on.
ConnectionLostNoCancel ==
    /\ phase = "loop" /\ transport # "lost" /\ ~aborted
    /\ transport' = "lost"
    /\ ParserReset
    /\ UNCHANGED <<pipeline_vars, requests, gather, gather_len, sent, phase, handled,
                   carried, gather_enabled, feed_failures>>

\* Protocol_connection_lost: the peer went away or close() took effect.  The
\* parser is told (its 400 for an incomplete request is lost on this transport)
\* and the tasks of the pipeline are cancelled.
Protocol_connection_lost ==
    /\ phase = "loop" /\ transport # "lost"
    /\ Pipe!Pipeline_cancel
    /\ transport' = "lost"
    /\ ParserReset
    /\ UNCHANGED <<requests, gather, gather_len, sent, phase, handled, carried,
                   gather_enabled, feed_failures>>

\* Protocol_close from the reaper, or Application.drain closing an idle connection.
ClosedByServer ==
    /\ phase = "loop" /\ ~aborted /\ transport = "open"
    /\ transport' = "closing"
    /\ UNCHANGED <<pipeline_vars, parser_vars, gather, gather_len, sent, phase,
                   handled, carried, gather_enabled, feed_failures>>

\* Protocol_pipeline_cancel, from Application.drain.
Protocol_pipeline_cancel ==
    /\ phase = "loop" /\ transport # "lost"
    /\ Pipe!Pipeline_cancel
    /\ UNCHANGED <<parser_vars, output_vars, phase, handled, carried,
                   gather_enabled, feed_failures>>

FeedStep ==
    \/ Headers
    \/ Incomplete
    \/ ParseError
    \/ FeedEnds
    \/ Protocol_on_body
    \/ OnBodyFails

Next ==
    \/ Protocol_data_received
    \/ FeedStep
    \/ TaskDoneCallback
    \/ TaskFinishes
    \/ Protocol_connection_lost
    \/ ClosedByServer
    \/ Protocol_pipeline_cancel

Init == Protocol_init

\* Parser_feed runs to its end.  The event loop runs every callback it has
\* scheduled in its next iteration, connection_lost of a closed transport among
\* them, however often data arrives in between: hence strong fairness.
LoopFairness ==
    /\ WF_vars(FeedStep)
    /\ SF_vars(TaskDoneCallback)
    /\ SF_vars(transport = "closing" /\ Protocol_connection_lost)

\* Every handler returns, raises or reacts to its cancellation.
HandlersEnd == SF_vars(TaskFinishes)

Spec == Init /\ [][Next]_vars /\ LoopFairness /\ HandlersEnd

------------------------------------------------------------------------------
TypeOK ==
    /\ Pipe!TypeOK
    /\ phase \in {"loop", "feed"} /\ buffered \in BOOLEAN
    /\ parser_state \in {"headers", "body"}
    /\ parser_connection \in {"unset", "close", "keep-alive"}
    /\ requests \in Seq(Request) /\ handled \in 0..Len(requests)
    /\ carried \in Seq(1..MaxRequests) /\ Len(carried) = queued
    /\ gather \in Seq(1..MaxRequests)
    /\ Len(gather) <= GATHER_MAX_RESP /\ gather_len \in 0..GATHER_MAX_LEN
    /\ gather_enabled \in BOOLEAN
    /\ sent \in Seq(0..MaxRequests)
    /\ transport \in {"open", "closing", "lost"} /\ feed_failures \in 0..MaxFailures

\* The answers given so far, those held back included, and then the requests whose
\* answer still waits in the pipeline.
Answers == sent \o gather
Pending == [k \in 1..(queue_end - queue_start) |->
                carried[queue[queue_start + k - 1].number]]

\* The requests up to the last one each occur in `answers` once and in their order,
\* whatever 400 responses are in between.
OnceInOrder(answers, last) ==
    /\ \A i, j \in DOMAIN answers :
          i < j /\ BadRequest \notin {answers[i], answers[j]} => answers[i] < answers[j]
    /\ \A i \in DOMAIN answers : answers[i] <= last
    /\ \A r \in 1..last : \E i \in DOMAIN answers : answers[i] = r

\* Pipelining: as long as the connection is there, every request whose handler
\* was called has exactly one answer, in the order of the requests, whichever
\* path it took: written at once, held back in the gather, queued as a response
\* or awaited as a task.  (Until a response fails to render.)
AnsweredOnceInOrder ==
    transport # "lost" /\ ~aborted /\ feed_failures = 0 /\ ~ready_failed =>
        OnceInOrder(Answers \o Pending, handled)

\* The sizes of the responses that are held back.
SizesOf(held) == [k \in DOMAIN held |-> requests[held[k]].size]

\* The gather never holds an answer back for good, or out of turn.  Its flag, set
\* by an earlier request, is never left over when _task_done writes; once the event
\* loop has control, what is held back has a pending request behind it whose answer
\* will flush it (the FIXME in _get_idle_and_busy_connections worries about the
\* other case); and it is flushed with the length of what it holds.
GatherOffWhilePending == ~Pipe!PIPELINE_EMPTY => ~gather_enabled
GatherConsistent ==
    /\ GatherOffWhilePending
    /\ phase = "loop" /\ transport = "open" /\ feed_failures = 0 /\ gather # << >> =>
           ~Pipe!PIPELINE_EMPTY
    /\ gather_len = FoldLeft(+, 0, SizesOf(gather))

\* After connection_lost no handler runs on without having been cancelled.
CancelledWhenLost ==
    transport = "lost" =>
        \A i \in Pipe!Waiting : Pipe!Runnable(i) \/ queue[i].number \in cancelled

\* The pipeline of a connection is used the way Pipeline assumes: responses are
\* queued behind other entries only, and every callback is run.
UsesPipeline == Pipe!Spec

\* Every request that was handled is answered, unless the connection goes away.
EventuallyAnswered ==
    \A r \in 1..MaxRequests :
        handled >= r ~> (\E k \in 1..Len(sent) : sent[k] = r) \/ transport # "open" \/ aborted

\* A connection that is gone lets go of everything it had pending.
EventuallyReleased == transport = "lost" ~> Pipe!PIPELINE_EMPTY \/ aborted
=============================================================================
