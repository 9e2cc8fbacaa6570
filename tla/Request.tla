------------------------------- MODULE Request -------------------------------
(***************************************************************************)
(* The request object of request/crequest.c, used as protocol/cprotocol.c  *)
(* uses it.  What the parser hands over lies in memory that is soon        *)
(* written again, so each part is copied into the request's own buffer:    *)
(* first inside the request (inline_buffer), then in a heap block that     *)
(* grows and may move.  From left to right the buffer holds                *)
(*                                                                         *)
(*    head (method, path, headers)  header entries  match entries  body    *)
(*                                                                         *)
(* and the request keeps pointers into it.  Addresses are integers.  The   *)
(* fields "sent", "text" and "at" are not in the code: they say what the   *)
(* parser saw, what the path and the query are in memory, and at which     *)
(* offset of the buffer each part was really put.  A block that moves      *)
(* keeps its contents, so the pointers must agree with these offsets.      *)
(*                                                                         *)
(* Of the pointers into the head, method, path and the value of the last   *)
(* header stand for all; of those into the match entries' values, one.     *)
(* Sizes are those of a 64 bit build.                                      *)
(***************************************************************************)
EXTENDS Integers

CONSTANTS
  Objects,    \* the requests: static_request and those cloned from it
  Static,     \* Protocol.static_request
  InlineAt,   \* the address of each object's inline_buffer
  HeapAt,     \* addresses malloc and realloc may return
  ParserAt,   \* where the parser has the bytes it hands over
  REQUEST_INITIAL_BUFFER_LEN,
  Heads,      \* what on_headers may be given
  Matches,    \* what the matcher may find
  Bodies      \* lengths of a body, -1 for none

HEADER == 32  \* sizeof(struct phr_header)
ENTRY == 32   \* sizeof(MatchDictEntry)

NULL == 0

\* What the parser saw: offsets and lengths in bytes
HeadType == [path : Nat,          \* offset of the path
             path_len : Nat,      \* of the path as sent, without the query
             escapes : Nat,       \* %XX in it
             nested : Nat,        \* %XX that appear once those are decoded
             qs_len : Nat,        \* of the query with its "?"
             qs_escapes : Nat,    \* %XX in it
             num_headers : Nat,
             value : Nat,         \* offset of the last header's value
             value_len : Nat]

HeadOK(h) ==
  /\ 3 * h.escapes <= h.path_len
  /\ 3 * h.nested <= h.path_len - 2 * h.escapes
  /\ 3 * h.qs_escapes <= h.qs_len
  /\ h.num_headers > 0 => h.path + h.path_len + h.qs_len <= h.value

MatchType == [length : Nat,       \* number of match entries
              value : Nat]        \* offset of a value in the path

ASSUME RequestAssumption ==
  /\ Static \in Objects
  /\ REQUEST_INITIAL_BUFFER_LEN \in Nat
  /\ NULL \notin HeapAt
  /\ InlineAt \in [Objects -> Int \ HeapAt]
  /\ HeapAt \subseteq Int
  /\ \A o \in Objects : InlineAt[o] # NULL
  /\ \A o, p \in Objects : InlineAt[o] = InlineAt[p] => o = p
  /\ ParserAt \in Int
  /\ Heads \subseteq HeadType /\ \A h \in Heads : HeadOK(h)
  /\ Matches \subseteq MatchType
  /\ Bodies \subseteq Nat \cup {-1}

VARIABLES
  request,  \* the request objects
  phase,    \* what was done with each of them
  heap      \* the addresses of the blocks allocated and not freed

vars == <<request, phase, heap>>

ROUNDTO8(v) == ((v + 7) \div 8) * 8

Larger(a, b) == IF a < b THEN b ELSE a

-----------------------------------------------------------------------------
(* bfrcpy: a part is copied behind those already in the buffer.  When it   *)
(* does not fit the buffer grows, first from the inline buffer to a block, *)
(* then with realloc, and every pointer into it moves along.               *)

headers_len(r) ==
  IF r.num_headers > 0 THEN r.value + r.value_len - r.method
  ELSE r.path + r.path_len + r.qs_len - r.method

entries_len(r) == HEADER * r.num_headers

\* Where bfrcpy puts the part it copies, before the buffer moves
HeadersDst(r) == r.buffer
DictDst(r) == r.buffer + ROUNDTO8(headers_len(r) + entries_len(r))
BodyDst(r) == r.dict + ENTRY * r.dict_len

\* Mutant: the entries are not counted.
HeadersSizeShort(r) == ROUNDTO8(headers_len(r))
HeadersSize(r) == ROUNDTO8(headers_len(r)) + entries_len(r)
DictSize(r) == ENTRY * r.dict_len

Fits(r, dst, len) == dst + len <= r.buffer + r.buffer_len

\* The addresses the buffer may have afterwards
Bases(r, inline, dst, len) ==
  IF Fits(r, dst, len) THEN {r.buffer}
  ELSE IF r.buffer = inline THEN HeapAt \ heap
  ELSE HeapAt \ (heap \ {r.buffer})

\* The request with its buffer grown for len bytes at dst, at its new base
Grown(r, dst, len, base) ==
  [r EXCEPT !.buffer = base,
            !.buffer_len = IF Fits(r, dst, len) THEN @ ELSE Larger(2 * @, @ + len)]

\* The pointers into the head, moved
HeadMoved(r, shift) ==
  [r EXCEPT !.method = @ + shift, !.path = @ + shift, !.value = @ + shift]

CopyHeaders(r, base) ==
  LET g == HeadMoved(Grown(r, HeadersDst(r), HeadersSize(r), base), base - r.method)
      end == ROUNDTO8(headers_len(r))
  IN [g EXCEPT !.headers = base + end, !.at.headers = end]

CopyDict(r, base) ==
  LET shift == base - r.buffer
      g == HeadMoved(Grown(r, DictDst(r), DictSize(r), base), shift)
      dst == DictDst(r) + shift
  IN [g EXCEPT !.headers = @ + shift, !.dict = dst, !.dict_value = @ + shift,
               !.at.dict = dst - base]

\* Mutant: the values of the match entries stay behind when the buffer moves.
CopyBodyValuesStay(r, base) ==
  LET shift == base - r.buffer
      g == HeadMoved(Grown(r, BodyDst(r), r.body_length, base), shift)
      dst == BodyDst(r) + shift
  IN [g EXCEPT !.headers = @ + shift, !.dict = @ + shift, !.body = dst, !.at.body = dst - base]
CopyBody(r, base) ==
  LET shift == base - r.buffer
      g == HeadMoved(Grown(r, BodyDst(r), r.body_length, base), shift)
      dst == BodyDst(r) + shift
  IN [g EXCEPT !.headers = @ + shift, !.dict = @ + shift, !.dict_value = @ + shift,
               !.body = dst, !.at.body = dst - base]

-----------------------------------------------------------------------------
(* The operations of Request_CAPI *)

NoHead == [path |-> 0, path_len |-> 0, escapes |-> 0, nested |-> 0, qs_len |-> 0,
           qs_escapes |-> 0, num_headers |-> 0, value |-> 0, value_len |-> 0]

\* The path and the query as they are in memory: their lengths, the escapes left
TextOf(h) == [path |-> h.path_len, escapes |-> h.escapes, nested |-> h.nested,
              qs |-> h.qs_len, qs_escapes |-> h.qs_escapes]

\* Request_new: what the allocator leaves in the other fields does not matter.
Fresh(inline) ==
  [buffer |-> inline, buffer_len |-> REQUEST_INITIAL_BUFFER_LEN,
   method |-> NULL, path |-> NULL, path_len |-> 0, path_decoded |-> FALSE,
   qs_len |-> 0, qs_decoded |-> FALSE,
   headers |-> NULL, num_headers |-> 0, value |-> NULL, value_len |-> 0,
   dict |-> NULL, dict_len |-> 0, dict_value |-> NULL,
   body |-> NULL, body_length |-> 0,
   sent |-> NoHead, text |-> TextOf(NoHead),
   at |-> [headers |-> 0, dict |-> 0, body |-> 0, dict_value |-> 0]]

\* Request_from_raw before its bfrcpy: the pointers are the parser's.
\* path_len is that of the whole target, the query is not told apart yet.
FromRaw(r, h) ==
  [r EXCEPT !.method = ParserAt, !.path = ParserAt + h.path,
            !.path_len = h.path_len + h.qs_len, !.path_decoded = FALSE,
            !.qs_len = 0, !.qs_decoded = FALSE,
            !.num_headers = h.num_headers,
            !.value = ParserAt + h.value, !.value_len = h.value_len,
            !.sent = h, !.text = TextOf(h)]

\* Request_get_decoded_path: percent_decode works in place up to the "?", and
\* moves what follows to the left by two bytes for each escape.
\* Mutant: path_len is overwritten before the query's length is taken from it.
get_decoded_path_early(r) ==
  IF r.path_decoded THEN r
  ELSE LET shifted_bytes == 2 * r.text.escapes
           path_len == r.path_len - shifted_bytes - r.text.qs
       IN [r EXCEPT !.path_decoded = TRUE, !.qs_len = -shifted_bytes, !.path_len = path_len,
                    !.text.path = @ - shifted_bytes,
                    !.text.escapes = r.text.nested, !.text.nested = 0]
\* Mutant: path_decoded is not set.
get_decoded_path_again(r) ==
  LET shifted_bytes == 2 * r.text.escapes
      path_len == IF r.path_decoded THEN r.path_len - shifted_bytes
                  ELSE r.path_len - shifted_bytes - r.text.qs
  IN [r EXCEPT !.path_decoded = TRUE,
               !.qs_len = IF r.path_decoded THEN @ ELSE r.path_len - path_len - shifted_bytes,
               !.path_len = path_len,
               !.text.path = @ - shifted_bytes,
               !.text.escapes = r.text.nested, !.text.nested = 0]
get_decoded_path(r) ==
  IF r.path_decoded THEN r
  ELSE LET shifted_bytes == 2 * r.text.escapes
           path_len == r.path_len - shifted_bytes - r.text.qs
       IN [r EXCEPT !.path_decoded = TRUE,
                    !.qs_len = r.path_len - path_len - shifted_bytes,
                    !.path_len = path_len,
                    !.text.path = @ - shifted_bytes,
                    !.text.escapes = r.text.nested, !.text.nested = 0]

\* Request_get_decoded_qs
get_decoded_qs(r) ==
  IF r.qs_len = 0 \/ r.qs_decoded THEN r
  ELSE [r EXCEPT !.qs_decoded = TRUE,
                 !.qs_len = @ - 2 * r.text.qs_escapes,
                 !.text.qs = @ - 2 * r.text.qs_escapes]

\* The matcher's entries are in a static array, their values in the path.
FromMatcher(r, m) ==
  [r EXCEPT !.dict = ParserAt, !.dict_len = m.length,
            !.dict_value = r.path + m.value, !.at.dict_value = m.value]

FromBody(r, length) == [r EXCEPT !.body = ParserAt, !.body_length = length]

\* Request_clone: an inline buffer is copied and all pointers move with it, a
\* block is taken over.
CloneOf(r, inline, clone) ==
  IF r.buffer = inline THEN
    LET shift == clone - inline
        c == HeadMoved([r EXCEPT !.buffer = clone], shift)
    IN [c EXCEPT !.headers = @ + shift, !.dict = @ + shift, !.dict_value = @ + shift,
                 !.body = IF @ = NULL THEN NULL ELSE @ + shift]
  ELSE r

\* ... and is then no longer the original's.
\* Mutant: it stays the original's too.
RobbedNot(r, inline) == r
Robbed(r, inline) == [r EXCEPT !.buffer = inline]

-----------------------------------------------------------------------------
(* The protocol's use of them *)

\* Request_dealloc frees the buffer unless it is the inline one.
Freed(o) == heap \ ({request[o].buffer} \ {InlineAt[o]})

\* heap after the buffer of r went to base
Allocated(r, inline, base) ==
  (heap \ ({r.buffer} \ {inline})) \cup ({base} \ {inline})

Init ==
  /\ request = [o \in Objects |-> Fresh(InlineAt[o])]
  /\ phase = [o \in Objects |-> IF o = Static THEN "new" ELSE "free"]
  /\ heap = {}

\* Protocol_on_headers: the static request is built anew.
OnHeaders(h) ==
  /\ phase[Static] \in {"new", "handled", "cloned"}
  /\ LET r == FromRaw(Fresh(InlineAt[Static]), h)
         freed == Freed(Static)
     IN \E base \in (IF Fits(r, HeadersDst(r), HeadersSize(r)) THEN {r.buffer}
                     ELSE HeapAt \ freed) :
          /\ request' = [request EXCEPT ![Static] = CopyHeaders(r, base)]
          /\ heap' = freed \cup ({base} \ {InlineAt[Static]})
  /\ phase' = [phase EXCEPT ![Static] = "head"]

\* Protocol_on_body: the matcher asks for the decoded path ...
MatchPath ==
  /\ phase[Static] = "head"
  /\ request' = [request EXCEPT ![Static] = get_decoded_path(@)]
  /\ phase' = [phase EXCEPT ![Static] = "matched"]
  /\ UNCHANGED heap

\* ... the entries found are kept, as many as the pattern has placeholders ...
SetMatchDictEntries(m) ==
  /\ phase[Static] = "matched"
  /\ m.value <= request[Static].text.path
  /\ LET r == FromMatcher(request[Static], m) IN
     \E base \in Bases(r, InlineAt[Static], DictDst(r), DictSize(r)) :
       /\ request' = [request EXCEPT ![Static] = CopyDict(r, base)]
       /\ heap' = Allocated(r, InlineAt[Static], base)
  /\ phase' = [phase EXCEPT ![Static] = "dict"]

\* ... and then the body, if there is one.
SetBody(length) ==
  /\ phase[Static] = "dict"
  /\ IF length = -1
       THEN /\ request' = [request EXCEPT ![Static].body = NULL]
            /\ UNCHANGED heap
       ELSE LET r == FromBody(request[Static], length) IN
            \E base \in Bases(r, InlineAt[Static], BodyDst(r), r.body_length) :
              /\ request' = [request EXCEPT ![Static] = CopyBody(r, base)]
              /\ heap' = Allocated(r, InlineAt[Static], base)
  /\ phase' = [phase EXCEPT ![Static] = "ready"]

\* The handler is a coroutine or the pipeline is not empty: the request lives
\* on in a clone.
Clone(o) ==
  /\ phase[Static] = "ready"
  /\ phase[o] = "free"
  /\ request' = [request EXCEPT
                   ![o] = CloneOf(request[Static], InlineAt[Static], InlineAt[o]),
                   ![Static] = Robbed(@, InlineAt[Static])]
  /\ phase' = [phase EXCEPT ![o] = "handled", ![Static] = "cloned"]
  /\ UNCHANGED heap

\* Or it is handled in place.
Handle ==
  /\ phase[Static] = "ready"
  /\ phase' = [phase EXCEPT ![Static] = "handled"]
  /\ UNCHANGED <<request, heap>>

\* Request_get_path and Request_get_qs, called by the handler at any time
GetPath(o) ==
  /\ phase[o] = "handled"
  /\ request' = [request EXCEPT ![o] = get_decoded_path(@)]
  /\ UNCHANGED <<phase, heap>>

GetQs(o) ==
  /\ phase[o] = "handled"
  /\ request' = [request EXCEPT ![o] = get_decoded_qs(@)]
  /\ UNCHANGED <<phase, heap>>

\* The last reference to a clone goes.
Dealloc(o) ==
  /\ o # Static
  /\ phase[o] = "handled"
  /\ heap' = Freed(o)
  /\ request' = [request EXCEPT ![o] = Fresh(InlineAt[o])]
  /\ phase' = [phase EXCEPT ![o] = "free"]

\* Protocol_dealloc: the static request goes with its connection.
DeallocStatic ==
  /\ phase[Static] # "gone"
  /\ heap' = Freed(Static)
  /\ request' = [request EXCEPT ![Static] = Fresh(InlineAt[Static])]
  /\ phase' = [phase EXCEPT ![Static] = "gone"]

Next ==
  \/ \E h \in Heads : OnHeaders(h)
  \/ MatchPath
  \/ \E m \in Matches : SetMatchDictEntries(m)
  \/ \E length \in Bodies : SetBody(length)
  \/ Handle
  \/ \E o \in Objects : Clone(o) \/ GetPath(o) \/ GetQs(o) \/ Dealloc(o)
  \/ DeallocStatic

Spec == Init /\ [][Next]_vars

-----------------------------------------------------------------------------
(* Properties *)

Requests ==
  [buffer : Int, buffer_len : Nat, method : Int, path : Int, path_len : Nat,
   path_decoded : BOOLEAN, qs_len : Nat, qs_decoded : BOOLEAN,
   headers : Int, num_headers : Nat, value : Int, value_len : Nat,
   dict : Int, dict_len : Nat, dict_value : Int, body : Int, body_length : Nat,
   sent : HeadType,
   text : [path : Nat, escapes : Nat, nested : Nat, qs : Nat, qs_escapes : Nat],
   at : [headers : Nat, dict : Int, body : Int, dict_value : Nat]]

Phases == {"new", "free", "head", "matched", "dict", "ready", "handled", "cloned", "gone"}

(* The request's fields have the types of crequest.h; no length is ever     *)
(* below zero (percent_decode, Request_get_decoded_path).                   *)
TypeOK ==
  /\ request \in [Objects -> Requests]
  /\ phase \in [Objects -> Phases]
  /\ heap \subseteq HeapAt

HasHead(o) == phase[o] \in {"head", "matched", "dict", "ready", "handled"}
HasDict(o) == phase[o] \in {"dict", "ready", "handled"}
HasBody(o) == phase[o] \in {"ready", "handled"} /\ request[o].body # NULL

HeadFollows(r) ==
  /\ r.method = r.buffer
  /\ r.path = r.buffer + r.sent.path
  /\ r.value = r.buffer + r.sent.value
  /\ r.headers = r.buffer + r.at.headers

DictFollows(r) ==
  /\ r.dict = r.buffer + r.at.dict
  /\ r.dict_value = r.path + r.at.dict_value

BodyFollows(r) == r.body = r.buffer + r.at.body

(* However often the buffer grew, moved or went over to a clone, every      *)
(* pointer of the request points to where its part is in the request's own  *)
(* buffer, and none to the parser's (bfrcpy, Request_clone).                *)
PointersFollow ==
  \A o \in Objects :
    /\ HasHead(o) => HeadFollows(request[o])
    /\ HasDict(o) => DictFollows(request[o])
    /\ HasBody(o) => BodyFollows(request[o])

HeadEnd(r) ==
  IF r.num_headers > 0 THEN r.sent.value + r.value_len
  ELSE r.sent.path + r.text.path + r.text.qs

HeadFits(r) ==
  /\ HeadEnd(r) <= r.at.headers
  /\ r.at.headers % 8 = 0
  /\ r.at.headers + entries_len(r) <= r.buffer_len

DictFits(r) ==
  /\ HeadEnd(r) <= r.at.dict
  /\ r.num_headers > 0 => r.at.headers + entries_len(r) <= r.at.dict
  /\ r.at.dict % 8 = 0
  /\ r.at.dict + ENTRY * r.dict_len <= r.buffer_len

BodyFits(r) ==
  /\ r.at.dict + ENTRY * r.dict_len <= r.at.body
  /\ r.at.body + r.body_length <= r.buffer_len

(* The parts lie one behind the other, none on top of another, the structs  *)
(* aligned, and the last one ends within the buffer (bfrcpy).               *)
PartsFit ==
  \A o \in Objects :
    /\ HasHead(o) => HeadFits(request[o])
    /\ HasDict(o) => DictFits(request[o])
    /\ HasBody(o) => BodyFits(request[o])

(* The path is decoded exactly once, by the matcher, whatever is asked of   *)
(* the request later and in whatever order, and the query is found right    *)
(* behind it (Request_get_decoded_path, Request_get_decoded_qs).            *)
DecodedOnce ==
  \A o \in Objects :
    phase[o] \in {"matched", "dict", "ready", "handled"} =>
      LET r == request[o] IN
      /\ r.path_len = r.sent.path_len - 2 * r.sent.escapes
      /\ r.text.path = r.path_len
      /\ r.qs_len = r.sent.qs_len - (IF r.qs_decoded THEN 2 * r.sent.qs_escapes ELSE 0)

Owns(o, block) == request[o].buffer = block /\ block # InlineAt[o]

(* Every block allocated is the buffer of exactly one request, and a        *)
(* request's buffer is its own inline buffer or such a block: none is       *)
(* freed twice, used after it was freed, or forgotten (bfrcpy,              *)
(* Request_clone, Request_dealloc).                                         *)
BlocksOwned ==
  /\ \A o \in Objects : request[o].buffer \in {InlineAt[o]} \cup heap
  /\ \A block \in heap : \E o \in Objects : Owns(o, block)
  /\ \A o, p \in Objects : request[o].buffer = request[p].buffer => o = p
=============================================================================
