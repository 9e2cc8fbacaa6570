---------------------------- MODULE ResponseBytes ----------------------------
(***************************************************************************)
(* Rendered responses as the bytes objects they are: who holds a reference *)
(* to which, from Response_render (response/cresponse.c) with its cache,   *)
(* which all connections of a worker share, over the gather buffer of a    *)
(* connection (protocol/cprotocol.c) to the transport, which keeps what it *)
(* cannot send at once.                                                    *)
(*                                                                         *)
(* A bytes object is freed when its reference count drops to zero and its  *)
(* memory is used again by the next one.  A gather buffer is the only one  *)
(* ever written to after it was made: Gather_flush fills it again when     *)
(* nobody else refers to it.                                               *)
(***************************************************************************)
EXTENDS Naturals, Sequences, FiniteSets, SequencesExt, FiniteSetsExt

CONSTANTS
  Connections,
  Responses,      \* what handlers answer: see ResponseType
  CACHE_LEN,      \* 10 in cresponse.c
  CACHE_CUTOFF,   \* 4096 in cresponse.c
  GATHER_MAX_RESP,
  GATHER_MAX_LEN,
  MaxResponses,   \* bound: responses of all connections
  Objects         \* bound: memory for so many bytes objects

ResponseType == [body : STRING,
                 size : Nat \ {0},
                 simple : BOOLEAN,   \* the handler is simple (analyzer.py)
                 plain : BOOLEAN,    \* no code, headers, cookies, mime type, encoding
                 minor_version : {0, 1}]

ASSUME ResponseBytesAssumption ==
  /\ IsFiniteSet(Connections) /\ IsFiniteSet(Objects)
  /\ Responses \subseteq ResponseType
  /\ CACHE_LEN \in Nat /\ CACHE_CUTOFF \in Nat
  /\ GATHER_MAX_RESP \in Nat \ {0} /\ GATHER_MAX_LEN \in Nat
  /\ MaxResponses \in Nat
  /\ Objects \subseteq Nat \ {0}

VARIABLES
  memory,      \* [refs, text] of each bytes object: count and contents
  cache,       \* cache.entries up to cache.end: [body, response_bytes]
  connection,  \* per connection: see NewConnection
  answered,    \* history: the responses of each connection, in order
  leaked       \* history: objects whose last holder went without a DECREF

vars == <<memory, cache, connection, answered, leaked>>

NULL == 0

NewConnection ==
  [responses |-> <<>>,     \* gather.responses
   len |-> 0,              \* gather.len
   prev_buffer |-> NULL,   \* gather.prev_buffer
   queue |-> <<>>,         \* objects the transport holds
   wire |-> <<>>,          \* what it sent
   open |-> TRUE]

-----------------------------------------------------------------------------
(* Bytes objects *)

Incref(m, o) == [m EXCEPT ![o].refs = @ + 1]
Decref(m, o) == [m EXCEPT ![o].refs = @ - 1]

Free(m) == {o \in Objects : m[o].refs = 0}
NewObject(m) == Min(Free(m))
Create(m, text) == [m EXCEPT ![NewObject(m)] = [refs |-> 1, text |-> text]]

\* What they hold, one behind the other
TextOf(m, objects) == [i \in DOMAIN objects |-> m[objects[i]].text]
Texts(m, objects) == FoldLeft(\o, <<>>, TextOf(m, objects))

\* How often an object is among them
Times(o, objects) == Cardinality({i \in DOMAIN objects : objects[i] = o})

-----------------------------------------------------------------------------
(* Response_render *)

\* What is to be sent: all of the response but who made it
Rendering(r) == [body |-> r.body, plain |-> r.plain, minor_version |-> r.minor_version]

\* Mutant: the status code and the headers are not looked at.
Response_cacheable_any(r) ==
  r.simple /\ r.size < CACHE_CUTOFF /\ r.minor_version = 1
Response_cacheable(r) ==
  r.simple /\ r.size < CACHE_CUTOFF /\ r.plain /\ r.minor_version = 1

CachedFor(r) == {i \in DOMAIN cache : cache[i].body = r.body}

Hit(r) == Response_cacheable(r) /\ CachedFor(r) # {}
Kept(r) == Response_cacheable(r) /\ CachedFor(r) = {} /\ Len(cache) < CACHE_LEN

\* The object it returns; the caller owns a reference.
Rendered(r) ==
  IF Hit(r) THEN cache[Min(CachedFor(r))].response_bytes ELSE NewObject(memory)

\* Response_from_cache, or a new object, with one reference more if the cache
\* keeps it (Response_cache)
\* Mutant: a hit hands out the cache's own reference.
Response_render_borrowed(r) ==
  IF Hit(r) THEN memory
  ELSE LET made == Create(memory, <<Rendering(r)>>)
       IN IF Kept(r) THEN Incref(made, Rendered(r)) ELSE made
Response_render(r) ==
  IF Hit(r) THEN Incref(memory, Rendered(r))
  ELSE LET made == Create(memory, <<Rendering(r)>>)
       IN IF Kept(r) THEN Incref(made, Rendered(r)) ELSE made

Response_cache(r) ==
  IF Kept(r) THEN Append(cache, [body |-> r.body, response_bytes |-> Rendered(r)])
  ELSE cache

-----------------------------------------------------------------------------
(* Gathering and writing.  A state of memory and one connection is a pair. *)

\* transport.write: sent at once if nothing waits and the socket takes it,
\* else kept, with a reference
Write(p, o, now) ==
  IF now /\ p.c.queue = <<>>
    THEN [p EXCEPT !.c.wire = @ \o p.m[o].text]
    ELSE [m |-> Incref(p.m, o), c |-> [p.c EXCEPT !.queue = Append(@, o)]]

\* Gather_flush leaves the gathered responses in a buffer to be written, which
\* it has a reference to: the only response itself, or the previous buffer if
\* nobody else has one, or a new one.
\* Mutant: the previous buffer is filled again while others still refer to it.
ReusableAlways(p) == p.c.prev_buffer # NULL
Reusable(p) == p.c.prev_buffer # NULL /\ p.m[p.c.prev_buffer].refs = 1

Emptied(c) == [c EXCEPT !.responses = <<>>, !.len = 0]

DecrefAll(m, objects) == [o \in Objects |-> [m[o] EXCEPT !.refs = @ - Times(o, objects)]]

FlushMany(p) ==
  LET text == Texts(p.m, p.c.responses)
      dropped == IF p.c.prev_buffer # NULL /\ ~Reusable(p)
                   THEN Decref(p.m, p.c.prev_buffer) ELSE p.m
      buffer == IF Reusable(p) THEN p.c.prev_buffer ELSE NewObject(dropped)
      filled == IF Reusable(p) THEN [dropped EXCEPT ![buffer].text = text]
                ELSE Create(dropped, text)
  IN [m |-> Incref(DecrefAll(filled, p.c.responses), buffer),
      c |-> [Emptied(p.c) EXCEPT !.prev_buffer = buffer],
      buffer |-> buffer]

Gather_flush(p) ==
  IF Len(p.c.responses) = 1
    THEN [m |-> p.m, c |-> Emptied(p.c), buffer |-> p.c.responses[1]]
    ELSE FlushMany(p)

\* ... and the caller writes it and drops its reference.
Flushed(p, now) ==
  IF p.c.len = 0 THEN p
  ELSE LET f == Gather_flush(p)
           w == Write([m |-> f.m, c |-> f.c], f.buffer, now)
       IN [w EXCEPT !.m = Decref(@, f.buffer)]

GatherRoom(c, size) ==
  /\ Len(c.responses) < GATHER_MAX_RESP
  /\ c.len + size <= GATHER_MAX_LEN

\* Protocol_write_response_or_err from the rendered response on
Gathered(p, o, size) ==
  [p EXCEPT !.c.responses = Append(@, o), !.c.len = @ + size]

WrittenBehind(p, o, now) ==
  LET w == Write(Flushed(p, now), o, now)
  IN [w EXCEPT !.m = Decref(@, o)]

-----------------------------------------------------------------------------
(* The actions *)

\* Memory for a response and a gather buffer: the bound on objects
MemoryLeft == Cardinality(Free(memory)) >= 2

Init ==
  /\ memory = [o \in Objects |-> [refs |-> 0, text |-> <<>>]]
  /\ cache = <<>>
  /\ connection = [c \in Connections |-> NewConnection]
  /\ answered = [c \in Connections |-> <<>>]
  /\ leaked = <<>>

\* A handler's response is rendered and gathered, when gathering is enabled
\* and there is room, or written behind what is gathered.
Answer(c, r, enabled, now) ==
  /\ connection[c].open /\ MemoryLeft
  /\ SumFunction([d \in Connections |-> Len(answered[d])]) < MaxResponses
  /\ LET o == Rendered(r)
         p == [m |-> Response_render(r), c |-> connection[c]]
         q == IF enabled /\ GatherRoom(connection[c], r.size) THEN Gathered(p, o, r.size)
              ELSE WrittenBehind(p, o, now)
     IN /\ memory' = q.m
        /\ connection' = [connection EXCEPT ![c] = q.c]
  /\ cache' = Response_cache(r)
  /\ answered' = [answered EXCEPT ![c] = Append(@, Rendering(r))]
  /\ UNCHANGED leaked

\* Protocol_on_incomplete: nothing more to parse.
Incomplete(c, now) ==
  /\ connection[c].open /\ connection[c].len > 0 /\ MemoryLeft
  /\ LET p == Flushed([m |-> memory, c |-> connection[c]], now)
     IN /\ memory' = p.m
        /\ connection' = [connection EXCEPT ![c] = p.c]
  /\ UNCHANGED <<cache, answered, leaked>>

\* The socket takes the next object and the transport lets go of it.
Send(c) ==
  /\ connection[c].queue # <<>>
  /\ LET o == Head(connection[c].queue) IN
     /\ connection' = [connection EXCEPT ![c].wire = @ \o memory[o].text,
                                         ![c].queue = Tail(@)]
     /\ memory' = Decref(memory, o)
  /\ UNCHANGED <<cache, answered, leaked>>

\* The connection is lost: the transport drops what it holds, Protocol_dealloc
\* drops the previous buffer, but not what is still gathered.
Dealloc(c) ==
  /\ connection[c].open
  /\ LET dropped == DecrefAll(memory, connection[c].queue)
         prev == connection[c].prev_buffer
     IN memory' = IF prev = NULL THEN dropped ELSE Decref(dropped, prev)
  /\ leaked' = leaked \o connection[c].responses
  /\ connection' = [connection EXCEPT ![c] = [NewConnection EXCEPT !.open = FALSE]]
  /\ UNCHANGED <<cache, answered>>

Next ==
  \E c \in Connections :
    \/ \E r \in Responses, enabled, now \in BOOLEAN :
         Answer(c, r, enabled, now)
    \/ \E now \in BOOLEAN : Incomplete(c, now)
    \/ Send(c)
    \/ Dealloc(c)

Spec == Init /\ [][Next]_vars

-----------------------------------------------------------------------------
(* Properties *)

(* Counts never go below zero and everything that is held is in memory      *)
(* (Py_INCREF and Py_DECREF around Response_render and Gather_flush).       *)
TypeOK ==
  /\ \A o \in Objects : memory[o].refs \in Nat
  /\ Len(cache) <= CACHE_LEN
  /\ \A c \in Connections :
       /\ connection[c].prev_buffer \in Objects \cup {NULL}
       /\ Len(connection[c].responses) <= GATHER_MAX_RESP
       /\ connection[c].len <= GATHER_MAX_LEN

CachedObjects == [i \in DOMAIN cache |-> cache[i].response_bytes]
HeldBy(c, o) ==
  Times(o, c.responses) + Times(o, c.queue) + Times(o, <<c.prev_buffer>>)
HeldByAll(o) == SumFunction([c \in Connections |-> HeldBy(connection[c], o)])
Holders(o) == Times(o, CachedObjects) + Times(o, leaked) + HeldByAll(o)

(* Between two calls an object's reference count is the number of places    *)
(* that hold it, so nothing is freed that the cache, a gather or a transport*)
(* still has, and nothing is kept that none of them has (Response_render,   *)
(* Gather_flush, Protocol_write_response_or_err).                           *)
CountsAreHolders == \A o \in Objects : memory[o].refs = Holders(o)

(* What a connection sent, what its transport holds and what is gathered    *)
(* are its responses, each rendered as it was asked for, in order: neither  *)
(* the cache shared with other connections nor a buffer that is filled      *)
(* again changes bytes that are still to be sent (Response_cacheable,       *)
(* Gather_flush).                                                           *)
WireExact ==
  \A c \in Connections :
    connection[c].open =>
      connection[c].wire \o Texts(memory, connection[c].queue)
        \o Texts(memory, connection[c].responses) = answered[c]
=============================================================================
