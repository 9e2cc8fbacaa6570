--------------------------- MODULE RequestProofs ---------------------------
(***************************************************************************)
(* Proofs about Request, for every layout of the head, every size of the   *)
(* match dictionary and of the body, and every choice of the allocator.    *)
(***************************************************************************)
EXTENDS Request, TLAPS

-----------------------------------------------------------------------------
(* ROUNDTO8 *)

\* ROUNDTO8 does not go below its argument.
LEMMA RoundUp == ASSUME NEW v \in Nat PROVE ROUNDTO8(v) \in Nat /\ v <= ROUNDTO8(v)
  BY DEF ROUNDTO8

\* It is aligned.
LEMMA RoundAligned == ASSUME NEW v \in Nat PROVE ROUNDTO8(v) % 8 = 0
  BY DEF ROUNDTO8

\* The least multiple of eight that is not below v
LEMMA RoundLeast ==
  ASSUME NEW v \in Nat, NEW e \in Nat, e % 8 = 0, v <= e
  PROVE  ROUNDTO8(v) <= e
  BY DEF ROUNDTO8

\* The header entries keep the alignment.
LEMMA RoundEntries ==
  ASSUME NEW v \in Nat, NEW n \in Nat
  PROVE  ROUNDTO8(v + HEADER * n) = ROUNDTO8(v) + HEADER * n
  BY DEF ROUNDTO8, HEADER

-----------------------------------------------------------------------------
(* What the operators do to a request, field by field *)

Fields == {"buffer", "buffer_len", "method", "path", "path_len", "path_decoded",
           "qs_len", "qs_decoded", "headers", "num_headers", "value", "value_len",
           "dict", "dict_len", "dict_value", "body", "body_length", "sent", "text", "at"}

Formed(r) ==
  /\ DOMAIN r = Fields
  /\ DOMAIN r.text = {"path", "escapes", "nested", "qs", "qs_escapes"}
  /\ DOMAIN r.at = {"headers", "dict", "body", "dict_value"}

\* Fields that only on_headers and the decoding set
SameText(c, r) ==
  /\ c.path_len = r.path_len /\ c.path_decoded = r.path_decoded
  /\ c.qs_len = r.qs_len /\ c.qs_decoded = r.qs_decoded
  /\ c.num_headers = r.num_headers /\ c.value_len = r.value_len
  /\ c.sent = r.sent /\ c.text = r.text

\* Growing changes the buffer and its length only.
LEMMA GrownFields ==
  ASSUME NEW r, Formed(r), NEW dst, NEW len, NEW base
  PROVE  LET c == Grown(r, dst, len, base) IN
         /\ Formed(c) /\ SameText(c, r)
         /\ c.buffer = base
         /\ c.buffer_len = IF Fits(r, dst, len) THEN r.buffer_len
                           ELSE Larger(2 * r.buffer_len, r.buffer_len + len)
         /\ c.method = r.method /\ c.path = r.path /\ c.value = r.value
         /\ c.headers = r.headers /\ c.dict = r.dict /\ c.dict_value = r.dict_value
         /\ c.dict_len = r.dict_len /\ c.body = r.body /\ c.body_length = r.body_length
         /\ c.at = r.at
  BY DEF Grown, Formed, Fields, SameText

\* Moving the head changes its three pointers only.
LEMMA HeadMovedFields ==
  ASSUME NEW r, Formed(r), NEW shift
  PROVE  LET c == HeadMoved(r, shift) IN
         /\ Formed(c) /\ SameText(c, r)
         /\ c.buffer = r.buffer /\ c.buffer_len = r.buffer_len
         /\ c.method = r.method + shift /\ c.path = r.path + shift /\ c.value = r.value + shift
         /\ c.headers = r.headers /\ c.dict = r.dict /\ c.dict_value = r.dict_value
         /\ c.dict_len = r.dict_len /\ c.body = r.body /\ c.body_length = r.body_length
         /\ c.at = r.at
  BY DEF HeadMoved, Formed, Fields, SameText

\* The request that Request_from_raw makes, before it copies
IsRaw(c, inline, h) ==
  /\ Formed(c)
  /\ c.buffer = inline /\ c.buffer_len = REQUEST_INITIAL_BUFFER_LEN
  /\ c.method = ParserAt /\ c.path = ParserAt + h.path /\ c.value = ParserAt + h.value
  /\ c.path_len = h.path_len + h.qs_len /\ c.path_decoded = FALSE
  /\ c.qs_len = 0 /\ c.qs_decoded = FALSE
  /\ c.num_headers = h.num_headers /\ c.value_len = h.value_len
  /\ c.sent = h /\ c.text = TextOf(h)

\* Request_from_raw sets what the parser gave.
LEMMA RawFields ==
  ASSUME NEW inline, NEW h
  PROVE  IsRaw(FromRaw(Fresh(inline), h), inline, h)
  BY ZenonT(40) DEF IsRaw, FromRaw, Fresh, Formed, Fields, TextOf, NoHead

\* The buffer's length once len bytes at dst fit
NewLength(r, dst, len) ==
  IF Fits(r, dst, len) THEN r.buffer_len ELSE Larger(2 * r.buffer_len, r.buffer_len + len)

\* bfrcpy of the head, field by field
LEMMA CopyHeadersFields ==
  ASSUME NEW r, Formed(r), NEW base
  PROVE  LET c == CopyHeaders(r, base)
             shift == base - r.method
         IN
         /\ Formed(c) /\ SameText(c, r)
         /\ c.buffer = base
         /\ c.buffer_len = NewLength(r, HeadersDst(r), HeadersSize(r))
         /\ c.method = r.method + shift /\ c.path = r.path + shift /\ c.value = r.value + shift
         /\ c.headers = base + ROUNDTO8(headers_len(r))
         /\ c.at.headers = ROUNDTO8(headers_len(r))
  <1> DEFINE shift == base - r.method
             g == Grown(r, HeadersDst(r), HeadersSize(r), base)
             m == HeadMoved(g, shift)
             end == ROUNDTO8(headers_len(r))
             c == [m EXCEPT !.headers = base + end, !.at.headers = end]
  <1>1. Formed(g) /\ SameText(g, r) /\ g.buffer = base
        /\ g.buffer_len = NewLength(r, HeadersDst(r), HeadersSize(r))
        /\ g.method = r.method /\ g.path = r.path /\ g.value = r.value
    BY GrownFields DEF NewLength
  <1>2. Formed(m) /\ SameText(m, g) /\ m.buffer = g.buffer /\ m.buffer_len = g.buffer_len
        /\ m.method = g.method + shift /\ m.path = g.path + shift /\ m.value = g.value + shift
    BY <1>1, HeadMovedFields
  <1> HIDE DEF g, m, shift
  <1>3. /\ Formed(c) /\ SameText(c, m) /\ c.buffer = m.buffer /\ c.buffer_len = m.buffer_len
        /\ c.method = m.method /\ c.path = m.path /\ c.value = m.value
        /\ c.headers = base + end /\ c.at.headers = end
    BY <1>2 DEF Formed, Fields, SameText
  <1>4. CopyHeaders(r, base) = c
    BY DEF CopyHeaders, g, m, shift
  <1>5. QED
    BY <1>1, <1>2, <1>3, <1>4 DEF SameText, shift

\* bfrcpy of the match entries
IsDictCopy(c, r, base) ==
  LET shift == base - r.buffer
      dst == DictDst(r) + shift
  IN
  /\ Formed(c) /\ SameText(c, r)
  /\ c.buffer = base
  /\ c.buffer_len = NewLength(r, DictDst(r), DictSize(r))
  /\ c.method = r.method + shift /\ c.path = r.path + shift /\ c.value = r.value + shift
  /\ c.headers = r.headers + shift /\ c.at.headers = r.at.headers
  /\ c.dict = dst /\ c.dict_len = r.dict_len /\ c.dict_value = r.dict_value + shift
  /\ c.at.dict = dst - base /\ c.at.dict_value = r.at.dict_value

\* ... as CopyDict does it
LEMMA CopyDictFields ==
  ASSUME NEW r, Formed(r), NEW base
  PROVE  IsDictCopy(CopyDict(r, base), r, base)
  <1> DEFINE shift == base - r.buffer
             dst == DictDst(r) + shift
             g == Grown(r, DictDst(r), DictSize(r), base)
             m == HeadMoved(g, shift)
             c == [m EXCEPT !.headers = @ + shift, !.dict = dst, !.dict_value = @ + shift,
                            !.at.dict = dst - base]
  <1>1. Formed(g) /\ SameText(g, r) /\ g.buffer = base
        /\ g.buffer_len = NewLength(r, DictDst(r), DictSize(r))
        /\ g.method = r.method /\ g.path = r.path /\ g.value = r.value
        /\ g.headers = r.headers /\ g.dict_len = r.dict_len /\ g.dict_value = r.dict_value
        /\ g.at = r.at
    BY GrownFields DEF NewLength
  <1>2. Formed(m) /\ SameText(m, g) /\ m.buffer = g.buffer /\ m.buffer_len = g.buffer_len
        /\ m.method = g.method + shift /\ m.path = g.path + shift /\ m.value = g.value + shift
        /\ m.headers = g.headers /\ m.dict_len = g.dict_len /\ m.dict_value = g.dict_value
        /\ m.at = g.at
    BY <1>1, HeadMovedFields
  <1> HIDE DEF g, m, shift, dst
  <1>3. /\ Formed(c) /\ SameText(c, m) /\ c.buffer = m.buffer /\ c.buffer_len = m.buffer_len
        /\ c.method = m.method /\ c.path = m.path /\ c.value = m.value
        /\ c.headers = m.headers + shift /\ c.at.headers = m.at.headers
        /\ c.dict = dst /\ c.dict_len = m.dict_len /\ c.dict_value = m.dict_value + shift
        /\ c.at.dict = dst - base /\ c.at.dict_value = m.at.dict_value
    BY <1>2 DEF Formed, Fields, SameText
  <1>4. CopyDict(r, base) = c
    BY DEF CopyDict, g, m, shift, dst
  <1>5. QED
    BY <1>1, <1>2, <1>3, <1>4 DEF IsDictCopy, SameText, shift, dst

\* bfrcpy of the body
IsBodyCopy(c, r, base) ==
  LET shift == base - r.buffer
      dst == BodyDst(r) + shift
  IN
  /\ Formed(c) /\ SameText(c, r)
  /\ c.buffer = base
  /\ c.buffer_len = NewLength(r, BodyDst(r), r.body_length)
  /\ c.method = r.method + shift /\ c.path = r.path + shift /\ c.value = r.value + shift
  /\ c.headers = r.headers + shift /\ c.at.headers = r.at.headers
  /\ c.dict = r.dict + shift /\ c.dict_len = r.dict_len
  /\ c.dict_value = r.dict_value + shift
  /\ c.at.dict = r.at.dict /\ c.at.dict_value = r.at.dict_value
  /\ c.body = dst /\ c.body_length = r.body_length /\ c.at.body = dst - base

\* ... as CopyBody does it
LEMMA CopyBodyFields ==
  ASSUME NEW r, Formed(r), NEW base
  PROVE  IsBodyCopy(CopyBody(r, base), r, base)
  <1> DEFINE shift == base - r.buffer
             dst == BodyDst(r) + shift
             g == Grown(r, BodyDst(r), r.body_length, base)
             m == HeadMoved(g, shift)
             c == [m EXCEPT !.headers = @ + shift, !.dict = @ + shift, !.dict_value = @ + shift,
                            !.body = dst, !.at.body = dst - base]
  <1>1. Formed(g) /\ SameText(g, r) /\ g.buffer = base
        /\ g.buffer_len = NewLength(r, BodyDst(r), r.body_length)
        /\ g.method = r.method /\ g.path = r.path /\ g.value = r.value
        /\ g.headers = r.headers /\ g.dict = r.dict /\ g.dict_len = r.dict_len
        /\ g.dict_value = r.dict_value /\ g.body_length = r.body_length /\ g.at = r.at
    BY GrownFields DEF NewLength
  <1>2. Formed(m) /\ SameText(m, g) /\ m.buffer = g.buffer /\ m.buffer_len = g.buffer_len
        /\ m.method = g.method + shift /\ m.path = g.path + shift /\ m.value = g.value + shift
        /\ m.headers = g.headers /\ m.dict = g.dict /\ m.dict_len = g.dict_len
        /\ m.dict_value = g.dict_value /\ m.body_length = g.body_length /\ m.at = g.at
    BY <1>1, HeadMovedFields
  <1> HIDE DEF g, m, shift, dst
  <1>3. /\ Formed(c) /\ SameText(c, m) /\ c.buffer = m.buffer /\ c.buffer_len = m.buffer_len
        /\ c.method = m.method /\ c.path = m.path /\ c.value = m.value
        /\ c.headers = m.headers + shift /\ c.at.headers = m.at.headers
        /\ c.dict = m.dict + shift /\ c.dict_len = m.dict_len
        /\ c.dict_value = m.dict_value + shift
        /\ c.at.dict = m.at.dict /\ c.at.dict_value = m.at.dict_value
        /\ c.body = dst /\ c.body_length = m.body_length /\ c.at.body = dst - base
    BY <1>2 DEF Formed, Fields, SameText
  <1>4. CopyBody(r, base) = c
    BY DEF CopyBody, g, m, shift, dst
  <1>5. QED
    BY <1>1, <1>2, <1>3, <1>4 DEF IsBodyCopy, SameText, shift, dst

\* The request with the matcher's entries, not yet copied
IsFromMatcher(c, r, m) ==
  /\ Formed(c) /\ SameText(c, r)
  /\ c.buffer = r.buffer /\ c.buffer_len = r.buffer_len
  /\ c.method = r.method /\ c.path = r.path /\ c.value = r.value
  /\ c.headers = r.headers /\ c.at.headers = r.at.headers
  /\ c.dict_len = m.length
  /\ c.dict_value = r.path + m.value /\ c.at.dict_value = m.value

\* ... as FromMatcher makes it
LEMMA FromMatcherFields ==
  ASSUME NEW r, Formed(r), NEW m
  PROVE  IsFromMatcher(FromMatcher(r, m), r, m)
  BY DEF IsFromMatcher, FromMatcher, Formed, Fields, SameText

\* The request with a body, not yet copied
IsFromBody(c, r, length) ==
  /\ Formed(c) /\ SameText(c, r)
  /\ c.buffer = r.buffer /\ c.buffer_len = r.buffer_len
  /\ c.method = r.method /\ c.path = r.path /\ c.value = r.value
  /\ c.headers = r.headers /\ c.dict = r.dict /\ c.dict_len = r.dict_len
  /\ c.dict_value = r.dict_value /\ c.at = r.at /\ c.body_length = length

\* ... as FromBody makes it
LEMMA FromBodyFields ==
  ASSUME NEW r, Formed(r), NEW length
  PROVE  IsFromBody(FromBody(r, length), r, length)
  BY DEF IsFromBody, FromBody, Formed, Fields, SameText

-----------------------------------------------------------------------------
(* What holds of a request as its parts are added, one after the other     *)

HeadInv(r) ==
  /\ Formed(r)
  /\ r.sent \in HeadType /\ HeadOK(r.sent)
  /\ r.buffer \in Int /\ r.buffer_len \in Nat /\ r.at.headers \in Nat
  /\ r.num_headers = r.sent.num_headers /\ r.value_len = r.sent.value_len
  /\ HeadFollows(r) /\ HeadFits(r)
  /\ r.num_headers > 0 => r.at.headers = ROUNDTO8(HeadEnd(r))

RawInv(r) ==
  /\ HeadInv(r)
  /\ r.path_decoded = FALSE /\ r.qs_decoded = FALSE
  /\ r.text = TextOf(r.sent)
  /\ r.path_len = r.sent.path_len + r.sent.qs_len /\ r.qs_len = 0

DecodedInv(r) ==
  /\ HeadInv(r)
  /\ r.path_decoded = TRUE /\ r.qs_decoded \in BOOLEAN
  /\ r.path_len = r.sent.path_len - 2 * r.sent.escapes
  /\ r.qs_len = r.sent.qs_len - (IF r.qs_decoded THEN 2 * r.sent.qs_escapes ELSE 0)
  /\ r.text.path = r.path_len /\ r.text.qs = r.qs_len
  /\ r.text.qs_escapes = r.sent.qs_escapes

DictInv(r) ==
  /\ DecodedInv(r)
  /\ DictFollows(r) /\ DictFits(r)
  /\ r.dict_len \in Nat /\ r.at.dict \in Nat /\ r.at.dict_value \in Nat

BodyInv(r) ==
  /\ DictInv(r)
  /\ r.body \in Int
  /\ r.body # NULL => BodyFollows(r) /\ BodyFits(r) /\ r.at.body \in Int

\* A longer buffer holds what the one before did, and what is added.
LEMMA LongEnough ==
  ASSUME NEW r, r.buffer \in Int, r.buffer_len \in Nat, NEW dst \in Int, NEW len \in Nat,
         dst <= r.buffer + r.buffer_len
  PROVE  /\ NewLength(r, dst, len) \in Nat
         /\ r.buffer_len <= NewLength(r, dst, len)
         /\ dst - r.buffer + len <= NewLength(r, dst, len)
  BY DEF NewLength, Fits, Larger

\* on_headers leaves a head that lies in the buffer, aligned and in full.
LEMMA HeadCopied ==
  ASSUME NEW inline \in Int, NEW h \in Heads, NEW base \in Int,
         NEW r, IsRaw(r, inline, h)
  PROVE  LET c == CopyHeaders(r, base) IN RawInv(c) /\ c.buffer = base
  <1>1. /\ h \in HeadType /\ HeadOK(h)
        /\ ParserAt \in Int /\ REQUEST_INITIAL_BUFFER_LEN \in Nat
    BY RequestAssumption
  <1>2. /\ Formed(r)
        /\ r.buffer = inline /\ r.buffer_len = REQUEST_INITIAL_BUFFER_LEN
        /\ r.method = ParserAt /\ r.path = ParserAt + h.path /\ r.value = ParserAt + h.value
        /\ r.path_len = h.path_len + h.qs_len /\ r.path_decoded = FALSE
        /\ r.qs_len = 0 /\ r.qs_decoded = FALSE
        /\ r.num_headers = h.num_headers /\ r.value_len = h.value_len
        /\ r.sent = h /\ r.text = TextOf(h)
    BY DEF IsRaw
  <1> DEFINE c == CopyHeaders(r, base)
             end == headers_len(r)
  <1>3. /\ h.path \in Nat /\ h.path_len \in Nat /\ h.qs_len \in Nat /\ h.num_headers \in Nat
        /\ h.value \in Nat /\ h.value_len \in Nat
    BY <1>1 DEF HeadType
  <1>4. /\ end \in Nat /\ HeadersSize(r) \in Nat
        /\ end = IF h.num_headers > 0 THEN h.value + h.value_len
                 ELSE h.path + h.path_len + h.qs_len
        /\ ROUNDTO8(end) \in Nat /\ end <= ROUNDTO8(end) /\ ROUNDTO8(end) % 8 = 0
        /\ HeadersSize(r) = ROUNDTO8(end) + HEADER * h.num_headers
    <2>1. end \in Nat /\ end = IF h.num_headers > 0 THEN h.value + h.value_len
                               ELSE h.path + h.path_len + h.qs_len
      BY <1>1, <1>2, <1>3 DEF headers_len
    <2>2. ROUNDTO8(end) \in Nat /\ end <= ROUNDTO8(end) /\ ROUNDTO8(end) % 8 = 0
      BY <2>1, RoundUp, RoundAligned
    <2>3. HeadersSize(r) = ROUNDTO8(end) + HEADER * h.num_headers /\ HeadersSize(r) \in Nat
      BY <1>2, <1>3, <2>2 DEF HeadersSize, entries_len, HEADER
    <2>4. QED
      BY <2>1, <2>2, <2>3
  <1>5. /\ Formed(c) /\ SameText(c, r)
        /\ c.buffer = base
        /\ c.buffer_len = NewLength(r, HeadersDst(r), HeadersSize(r))
        /\ c.method = r.method + (base - r.method) /\ c.path = r.path + (base - r.method)
        /\ c.value = r.value + (base - r.method)
        /\ c.headers = base + ROUNDTO8(end)
        /\ c.at.headers = ROUNDTO8(end)
    BY <1>2, CopyHeadersFields
  <1>6. /\ NewLength(r, HeadersDst(r), HeadersSize(r)) \in Nat
        /\ HeadersSize(r) <= NewLength(r, HeadersDst(r), HeadersSize(r))
    BY <1>1, <1>2, <1>4 DEF NewLength, HeadersDst, Fits, Larger
  <1> HIDE DEF c, end
  <1>7. c.method = base /\ c.path = base + h.path /\ c.value = base + h.value
    BY <1>1, <1>2, <1>3, <1>5
  <1>8. /\ c.sent = h /\ c.text = TextOf(h) /\ c.num_headers = h.num_headers
        /\ c.value_len = h.value_len /\ c.path_len = h.path_len + h.qs_len /\ c.qs_len = 0
        /\ c.path_decoded = FALSE /\ c.qs_decoded = FALSE
    BY <1>2, <1>5 DEF SameText
  <1>9. HeadEnd(c) = end
    BY <1>3, <1>4, <1>8 DEF HeadEnd, TextOf
  <1>10. HeadFits(c)
    BY <1>3, <1>4, <1>5, <1>6, <1>8, <1>9 DEF HeadFits, entries_len
  <1>11. HeadFollows(c)
    BY <1>5, <1>7, <1>8 DEF HeadFollows
  <1>12. HeadInv(c)
    BY <1>1, <1>4, <1>5, <1>6, <1>8, <1>9, <1>10, <1>11 DEF HeadInv
  <1>13. QED
    BY <1>5, <1>8, <1>12 DEF RawInv, c

\* The first decoding of the path leaves the query right behind it.
LEMMA PathDecoded ==
  ASSUME NEW r, RawInv(r)
  PROVE  LET c == get_decoded_path(r) IN DecodedInv(c) /\ c.buffer = r.buffer
  <1> DEFINE h == r.sent
             c == get_decoded_path(r)
  <1>1. /\ h.path \in Nat /\ h.path_len \in Nat /\ h.escapes \in Nat /\ h.nested \in Nat
        /\ h.qs_len \in Nat /\ h.qs_escapes \in Nat /\ h.num_headers \in Nat
        /\ h.value \in Nat /\ h.value_len \in Nat
        /\ 3 * h.escapes <= h.path_len
    BY DEF RawInv, HeadInv, HeadType, HeadOK
  <1>2. /\ r.text.path = h.path_len /\ r.text.escapes = h.escapes /\ r.text.nested = h.nested
        /\ r.text.qs = h.qs_len /\ r.text.qs_escapes = h.qs_escapes
    BY DEF RawInv, TextOf
  <1>3. /\ Formed(c) /\ c.buffer = r.buffer /\ c.buffer_len = r.buffer_len
        /\ c.method = r.method /\ c.path = r.path /\ c.value = r.value
        /\ c.headers = r.headers /\ c.at = r.at /\ c.sent = h
        /\ c.num_headers = r.num_headers /\ c.value_len = r.value_len
        /\ c.path_decoded = TRUE /\ c.qs_decoded = r.qs_decoded
        /\ c.path_len = r.path_len - 2 * r.text.escapes - r.text.qs
        /\ c.qs_len = r.path_len - (r.path_len - 2 * r.text.escapes - r.text.qs)
                      - 2 * r.text.escapes
        /\ c.text.path = r.text.path - 2 * r.text.escapes /\ c.text.qs = r.text.qs
        /\ c.text.qs_escapes = r.text.qs_escapes
    BY DEF RawInv, HeadInv, get_decoded_path, Formed, Fields
  <1> HIDE DEF c
  <1>4. /\ c.path_len = h.path_len - 2 * h.escapes /\ c.qs_len = h.qs_len
        /\ c.text.path = c.path_len /\ c.text.qs = h.qs_len
        /\ c.text.qs_escapes = h.qs_escapes /\ c.qs_decoded = FALSE
    BY <1>1, <1>2, <1>3 DEF RawInv
  <1>5. /\ HeadEnd(c) <= HeadEnd(r) /\ (r.num_headers > 0 => HeadEnd(c) = HeadEnd(r))
        /\ HeadEnd(c) \in Nat /\ HeadEnd(r) \in Nat
    BY <1>1, <1>2, <1>3, <1>4 DEF HeadEnd, RawInv, HeadInv
  <1>6. HeadFollows(c)
    BY <1>3 DEF HeadFollows, RawInv, HeadInv
  <1>7. HeadFits(c)
    BY <1>3, <1>5 DEF HeadFits, entries_len, RawInv, HeadInv
  <1>8. HeadInv(c)
    BY <1>3, <1>5, <1>6, <1>7 DEF RawInv, HeadInv
  <1>9. DecodedInv(c)
    <2>1. c.path_decoded = TRUE /\ c.qs_decoded \in BOOLEAN
      BY <1>3, <1>4
    <2>2. /\ c.path_len = c.sent.path_len - 2 * c.sent.escapes
          /\ c.text.path = c.path_len /\ c.text.qs = c.qs_len
          /\ c.text.qs_escapes = c.sent.qs_escapes
      BY <1>3, <1>4
    <2>3. c.qs_len = c.sent.qs_len - (IF c.qs_decoded THEN 2 * c.sent.qs_escapes ELSE 0)
      BY <1>1, <1>3, <1>4
    <2>4. QED
      BY <1>8, <2>1, <2>2, <2>3 DEF DecodedInv
  <1>10. QED
    BY <1>3, <1>9 DEF c

\* Decoding the query keeps all else; the path is not decoded a second time.
LEMMA QsDecoded ==
  ASSUME NEW r, BodyInv(r)
  PROVE  LET c == get_decoded_qs(r) IN BodyInv(c) /\ c.buffer = r.buffer
  <1> DEFINE c == get_decoded_qs(r)
             h == r.sent
  <1>1. CASE r.qs_len = 0 \/ r.qs_decoded
    BY <1>1 DEF get_decoded_qs
  <1>2. CASE ~(r.qs_len = 0 \/ r.qs_decoded)
    <2>1. /\ h.path \in Nat /\ h.path_len \in Nat /\ h.escapes \in Nat
          /\ h.qs_len \in Nat /\ h.qs_escapes \in Nat /\ h.num_headers \in Nat
          /\ h.value \in Nat /\ h.value_len \in Nat
          /\ 3 * h.escapes <= h.path_len /\ 3 * h.qs_escapes <= h.qs_len
      BY DEF BodyInv, DictInv, DecodedInv, HeadInv, HeadType, HeadOK
    <2>2. /\ Formed(r) /\ r.qs_decoded \in BOOLEAN /\ r.qs_len = h.qs_len
          /\ r.text.qs = r.qs_len /\ r.text.qs_escapes = h.qs_escapes
          /\ r.text.path = r.path_len /\ r.path_len = h.path_len - 2 * h.escapes
      BY <1>2, <2>1 DEF BodyInv, DictInv, DecodedInv, HeadInv
    <2>3. /\ Formed(c) /\ c.buffer = r.buffer /\ c.buffer_len = r.buffer_len
          /\ c.method = r.method /\ c.path = r.path /\ c.value = r.value
          /\ c.headers = r.headers /\ c.at = r.at /\ c.sent = h
          /\ c.num_headers = r.num_headers /\ c.value_len = r.value_len
          /\ c.dict = r.dict /\ c.dict_len = r.dict_len /\ c.dict_value = r.dict_value
          /\ c.body = r.body /\ c.body_length = r.body_length
          /\ c.path_decoded = r.path_decoded /\ c.qs_decoded = TRUE
          /\ c.path_len = r.path_len
          /\ c.qs_len = r.qs_len - 2 * r.text.qs_escapes
          /\ c.text.path = r.text.path /\ c.text.qs = r.text.qs - 2 * r.text.qs_escapes
          /\ c.text.qs_escapes = r.text.qs_escapes
      BY <1>2, <2>2 DEF get_decoded_qs, Formed, Fields
    <2> HIDE DEF c
    <2>4. /\ HeadEnd(c) <= HeadEnd(r) /\ (r.num_headers > 0 => HeadEnd(c) = HeadEnd(r))
          /\ HeadEnd(c) \in Nat /\ HeadEnd(r) \in Nat
      BY <2>1, <2>2, <2>3 DEF HeadEnd, BodyInv, DictInv, DecodedInv, HeadInv
    <2>5. HeadFollows(c) /\ DictFollows(c) /\ (r.body # NULL => BodyFollows(c))
      BY <2>3 DEF HeadFollows, DictFollows, BodyFollows, BodyInv, DictInv, DecodedInv, HeadInv
    <2>6. HeadFits(c)
      BY <2>3, <2>4 DEF HeadFits, entries_len, BodyInv, DictInv, DecodedInv, HeadInv
    <2>7. DictFits(c) /\ (r.body # NULL => BodyFits(c))
      BY <2>3, <2>4 DEF DictFits, BodyFits, entries_len, BodyInv, DictInv, DecodedInv, HeadInv
    <2>8. HeadInv(c)
      BY <2>3, <2>4, <2>5, <2>6 DEF BodyInv, DictInv, DecodedInv, HeadInv
    <2>9. DecodedInv(c)
      <3>1. c.path_decoded = TRUE /\ c.qs_decoded \in BOOLEAN
        BY <2>3 DEF BodyInv, DictInv, DecodedInv
      <3>2. /\ c.path_len = c.sent.path_len - 2 * c.sent.escapes
            /\ c.text.path = c.path_len /\ c.text.qs = c.qs_len
            /\ c.text.qs_escapes = c.sent.qs_escapes
        BY <2>2, <2>3
      <3>3. c.qs_len = c.sent.qs_len - (IF c.qs_decoded THEN 2 * c.sent.qs_escapes ELSE 0)
        BY <2>1, <2>2, <2>3
      <3>4. QED
        BY <2>8, <3>1, <3>2, <3>3 DEF DecodedInv
    <2>10. BodyInv(c)
      BY <2>3, <2>5, <2>7, <2>9 DEF BodyInv, DictInv
    <2>11. QED
      BY <2>3, <2>10 DEF c
  <1>3. QED
    BY <1>1, <1>2

\* A request whose path is decoded is left alone.
LEMMA PathOnce ==
  ASSUME NEW r, BodyInv(r)
  PROVE  get_decoded_path(r) = r
  BY DEF get_decoded_path, BodyInv, DictInv, DecodedInv

\* The match entries go behind the header entries.
LEMMA DictCopied ==
  ASSUME NEW q, DecodedInv(q), NEW m \in Matches, NEW base \in Int
  PROVE  LET r == FromMatcher(q, m)
             c == CopyDict(r, base)
         IN DictInv(c) /\ c.buffer = base /\ r.buffer = q.buffer
  <1> DEFINE h == q.sent
             r == FromMatcher(q, m)
             end == HeadEnd(q)
             at == ROUNDTO8(end + HEADER * h.num_headers)
  <1>1. /\ h.path \in Nat /\ h.path_len \in Nat /\ h.escapes \in Nat /\ h.qs_len \in Nat
        /\ h.qs_escapes \in Nat /\ h.num_headers \in Nat /\ h.value \in Nat /\ h.value_len \in Nat
        /\ 3 * h.escapes <= h.path_len /\ 3 * h.qs_escapes <= h.qs_len
        /\ m.length \in Nat /\ m.value \in Nat
    BY RequestAssumption DEF DecodedInv, HeadInv, HeadType, HeadOK, MatchType
  <1>2. /\ Formed(q) /\ HeadFollows(q) /\ HeadFits(q)
        /\ q.buffer \in Int /\ q.buffer_len \in Nat /\ q.at.headers \in Nat
        /\ q.num_headers = h.num_headers /\ q.value_len = h.value_len
        /\ q.path_len \in Int /\ q.qs_len \in Int
        /\ q.text.path = q.path_len /\ q.text.qs = q.qs_len
        /\ q.num_headers > 0 => q.at.headers = ROUNDTO8(HeadEnd(q))
    BY <1>1 DEF DecodedInv, HeadInv
  <1>3. q.path_len \in Nat /\ q.qs_len \in Nat
    BY <1>1 DEF DecodedInv
  <1>4. end \in Nat
    BY <1>1, <1>2, <1>3 DEF HeadEnd
  <1>5. /\ Formed(r) /\ SameText(r, q) /\ r.buffer = q.buffer /\ r.buffer_len = q.buffer_len
        /\ r.method = q.method /\ r.path = q.path /\ r.value = q.value
        /\ r.headers = q.headers /\ r.at.headers = q.at.headers
        /\ r.dict_len = m.length
        /\ r.dict_value = q.path + m.value /\ r.at.dict_value = m.value
    <2>1. IsFromMatcher(FromMatcher(q, m), q, m)
      BY <1>2, FromMatcherFields
    <2>2. QED
      BY <2>1 DEF IsFromMatcher
  <1> HIDE DEF r
  <1>6. headers_len(r) = end
    BY <1>1, <1>2, <1>3, <1>5 DEF headers_len, HeadEnd, HeadFollows, SameText
  <1>7. /\ at \in Nat /\ at % 8 = 0 /\ end <= at /\ at <= q.buffer_len
        /\ h.num_headers > 0 => q.at.headers + HEADER * h.num_headers <= at
    <2>1. end + HEADER * h.num_headers \in Nat /\ HEADER * h.num_headers \in Nat
      BY <1>1, <1>4 DEF HEADER
    <2>2. at \in Nat /\ at % 8 = 0 /\ end + HEADER * h.num_headers <= at
      BY <2>1, RoundUp, RoundAligned
    <2>3. /\ end <= q.at.headers /\ q.at.headers % 8 = 0
          /\ q.at.headers + HEADER * h.num_headers <= q.buffer_len
      BY <1>2 DEF HeadFits, entries_len
    <2> HIDE DEF end
    <2>4. CASE h.num_headers > 0
      <3>1. at = q.at.headers + HEADER * h.num_headers
        BY <1>1, <1>2, <1>4, <2>4, RoundEntries DEF end
      <3>2. QED
        BY <1>2, <1>4, <2>1, <2>2, <2>3, <2>4, <3>1
    <2>5. CASE h.num_headers = 0
      <3>1. at <= q.at.headers
        BY <1>2, <1>4, <2>3, <2>5, RoundLeast DEF HEADER
      <3>2. QED
        BY <1>2, <1>4, <2>1, <2>2, <2>3, <2>5, <3>1
    <2>6. QED
      BY <1>1, <2>4, <2>5
  <1>8. DictDst(r) = q.buffer + at /\ DictSize(r) = ENTRY * m.length /\ DictSize(r) \in Nat
    BY <1>1, <1>2, <1>5, <1>6 DEF DictDst, DictSize, ENTRY, entries_len, SameText
  <1> DEFINE c == CopyDict(r, base)
             len == NewLength(r, DictDst(r), DictSize(r))
  <1>9. /\ Formed(c) /\ SameText(c, r)
        /\ c.buffer = base /\ c.buffer_len = len
        /\ c.method = r.method + (base - r.buffer) /\ c.path = r.path + (base - r.buffer)
        /\ c.value = r.value + (base - r.buffer)
        /\ c.headers = r.headers + (base - r.buffer) /\ c.at.headers = r.at.headers
        /\ c.dict = DictDst(r) + (base - r.buffer) /\ c.dict_len = r.dict_len
        /\ c.dict_value = r.dict_value + (base - r.buffer)
        /\ c.at.dict = DictDst(r) + (base - r.buffer) - base
        /\ c.at.dict_value = r.at.dict_value
    <2>1. IsDictCopy(CopyDict(r, base), r, base)
      BY <1>5, CopyDictFields
    <2>2. r.buffer \in Int /\ DictDst(r) \in Int
      BY <1>2, <1>5, <1>7, <1>8
    <2>3. QED
      BY <2>1, <2>2 DEF IsDictCopy
  <1> HIDE DEF c, at, end
  <1>10. /\ len \in Nat /\ r.buffer_len <= len /\ DictDst(r) - r.buffer + DictSize(r) <= len
    BY <1>2, <1>5, <1>7, <1>8, LongEnough
  <1> HIDE DEF len
  <1>11. /\ c.at.dict = at /\ at + ENTRY * m.length <= c.buffer_len
         /\ q.buffer_len <= c.buffer_len
         /\ c.dict = base + at /\ c.dict_len = m.length
    BY <1>2, <1>5, <1>7, <1>8, <1>9, <1>10 DEF ENTRY
  <1>12. SameText(c, q)
    BY <1>5, <1>9 DEF SameText
  <1>13. HeadEnd(c) = end
    BY <1>12 DEF SameText, HeadEnd, end
  <1>14. HeadFollows(c)
    BY <1>1, <1>2, <1>5, <1>9, <1>12 DEF HeadFollows, SameText
  <1>15. HeadFits(c)
    <2>1. /\ end <= q.at.headers /\ q.at.headers % 8 = 0
          /\ q.at.headers + HEADER * h.num_headers <= q.buffer_len
      BY <1>2 DEF HeadFits, entries_len, end
    <2>2. c.at.headers = q.at.headers /\ c.num_headers = h.num_headers
          /\ c.buffer_len \in Nat /\ HEADER * h.num_headers \in Nat
      BY <1>1, <1>2, <1>5, <1>9, <1>10, <1>12 DEF SameText, HEADER
    <2>3. q.at.headers + HEADER * h.num_headers <= c.buffer_len
      BY <1>2, <1>11, <2>1, <2>2
    <2>4. QED
      BY <1>13, <2>1, <2>2, <2>3 DEF HeadFits, entries_len
  <1>16. HeadInv(c)
    BY <1>2, <1>5, <1>9, <1>10, <1>12, <1>13, <1>14, <1>15
       DEF HeadInv, DecodedInv, SameText, end
  <1>17. DecodedInv(c)
    BY <1>12, <1>16 DEF DecodedInv, SameText
  <1>18. DictFollows(c)
    BY <1>1, <1>2, <1>5, <1>9, <1>11 DEF DictFollows, HeadFollows
  <1>19. DictFits(c)
    BY <1>1, <1>4, <1>5, <1>7, <1>9, <1>11, <1>12, <1>13, <1>2
       DEF DictFits, entries_len, SameText
  <1>20. DictInv(c)
    BY <1>1, <1>5, <1>7, <1>9, <1>11, <1>17, <1>18, <1>19 DEF DictInv
  <1>21. QED
    BY <1>5, <1>9, <1>20 DEF c, r

\* What a request with the same text keeps when all its pointers move by the
\* same distance and its buffer is not shorter
Moved(c, r) ==
  /\ Formed(c) /\ SameText(c, r)
  /\ c.buffer \in Int /\ c.buffer_len \in Nat /\ r.buffer_len <= c.buffer_len
  /\ c.method = r.method + (c.buffer - r.buffer)
  /\ c.path = r.path + (c.buffer - r.buffer)
  /\ c.value = r.value + (c.buffer - r.buffer)
  /\ c.headers = r.headers + (c.buffer - r.buffer)
  /\ c.dict = r.dict + (c.buffer - r.buffer)
  /\ c.dict_value = r.dict_value + (c.buffer - r.buffer)
  /\ c.dict_len = r.dict_len
  /\ c.at.headers = r.at.headers /\ c.at.dict = r.at.dict
  /\ c.at.dict_value = r.at.dict_value

\* Such a request is as good as the one before.
LEMMA MovedKeeps ==
  ASSUME NEW r, DictInv(r), NEW c, Moved(c, r)
  PROVE  DictInv(c)
  <1> DEFINE h == r.sent
  <1>1. /\ h.path \in Nat /\ h.value \in Nat /\ h.num_headers \in Nat /\ h.value_len \in Nat
        /\ h.path_len \in Nat /\ h.escapes \in Nat /\ h.qs_len \in Nat /\ h.qs_escapes \in Nat
    BY DEF DictInv, DecodedInv, HeadInv, HeadType
  <1>2. /\ r.buffer \in Int /\ r.buffer_len \in Nat /\ r.at.headers \in Nat
        /\ r.at.dict \in Nat /\ r.at.dict_value \in Nat /\ r.dict_len \in Nat
        /\ r.num_headers = h.num_headers /\ r.value_len = h.value_len
    BY DEF DictInv, DecodedInv, HeadInv
  <1>3. HeadEnd(c) = HeadEnd(r)
    BY DEF Moved, SameText, HeadEnd
  <1>4. HeadFollows(c) /\ DictFollows(c)
    BY <1>1, <1>2 DEF Moved, SameText, HeadFollows, DictFollows, DictInv, DecodedInv, HeadInv
  <1>5. HeadEnd(r) \in Int
    BY <1>1, <1>2 DEF HeadEnd, DictInv, DecodedInv
  <1>6. /\ HeadEnd(r) <= r.at.headers /\ r.at.headers % 8 = 0
        /\ r.at.headers + HEADER * h.num_headers <= r.buffer_len
        /\ HeadEnd(r) <= r.at.dict /\ r.at.dict % 8 = 0
        /\ h.num_headers > 0 => r.at.headers + HEADER * h.num_headers <= r.at.dict
        /\ r.at.dict + ENTRY * r.dict_len <= r.buffer_len
    BY <1>2 DEF HeadFits, DictFits, entries_len, DictInv, DecodedInv, HeadInv
  <1>7. HeadFits(c) /\ DictFits(c)
    <2>1. /\ c.buffer_len \in Nat /\ r.buffer_len <= c.buffer_len
          /\ c.at.headers = r.at.headers /\ c.at.dict = r.at.dict /\ c.dict_len = r.dict_len
          /\ c.num_headers = h.num_headers
      BY <1>2 DEF Moved, SameText
    <2>2. HEADER * h.num_headers \in Nat /\ ENTRY * r.dict_len \in Nat
      BY <1>1, <1>2 DEF HEADER, ENTRY
    <2>3. /\ r.at.headers + HEADER * h.num_headers <= c.buffer_len
          /\ r.at.dict + ENTRY * r.dict_len <= c.buffer_len
      BY <1>2, <1>6, <2>1, <2>2
    <2>4. QED
      BY <1>1, <1>3, <1>6, <2>1, <2>3 DEF HeadFits, DictFits, entries_len
  <1>8. HeadInv(c)
    BY <1>2, <1>3, <1>4, <1>7 DEF HeadInv, DictInv, DecodedInv, Moved, SameText
  <1>9. DecodedInv(c)
    BY <1>8 DEF DecodedInv, DictInv, Moved, SameText
  <1>10. QED
    BY <1>2, <1>4, <1>7, <1>9 DEF DictInv, Moved

\* The body goes behind the match entries.
LEMMA BodyCopied ==
  ASSUME NEW q, DictInv(q), NEW length \in Nat, NEW base \in Int
  PROVE  LET r == FromBody(q, length)
             c == CopyBody(r, base)
         IN BodyInv(c) /\ c.buffer = base /\ r.buffer = q.buffer
  <1> DEFINE r == FromBody(q, length)
  <1>1. /\ Formed(q) /\ HeadFollows(q) /\ DictFollows(q) /\ DictFits(q)
        /\ q.buffer \in Int /\ q.buffer_len \in Nat
        /\ q.at.dict \in Nat /\ q.dict_len \in Nat
    BY DEF DictInv, DecodedInv, HeadInv
  <1>2. /\ Formed(r) /\ SameText(r, q)
        /\ r.buffer = q.buffer /\ r.buffer_len = q.buffer_len
        /\ r.method = q.method /\ r.path = q.path /\ r.value = q.value
        /\ r.headers = q.headers /\ r.dict = q.dict /\ r.dict_len = q.dict_len
        /\ r.dict_value = q.dict_value /\ r.at = q.at /\ r.body_length = length
    <2>1. IsFromBody(FromBody(q, length), q, length)
      BY <1>1, FromBodyFields
    <2>2. QED
      BY <2>1 DEF IsFromBody
  <1> HIDE DEF r
  <1> DEFINE c == CopyBody(r, base)
             end == q.at.dict + ENTRY * q.dict_len
             len == NewLength(r, BodyDst(r), r.body_length)
  <1>3. /\ BodyDst(r) = q.buffer + end /\ end \in Nat /\ end <= q.buffer_len
    BY <1>1, <1>2 DEF BodyDst, DictFollows, DictFits, ENTRY
  <1>4. IsBodyCopy(c, r, base)
    BY <1>2, CopyBodyFields
  <1> HIDE DEF c, end
  <1>5. len \in Nat /\ r.buffer_len <= len /\ end + length <= len
    BY <1>1, <1>2, <1>3, LongEnough
  <1> HIDE DEF len
  <1>6. /\ c.buffer = base /\ c.buffer_len = len
        /\ c.body = BodyDst(r) + (base - r.buffer)
        /\ c.body_length = length /\ c.at.body = BodyDst(r) + (base - r.buffer) - base
    BY <1>1, <1>2, <1>3, <1>4 DEF IsBodyCopy, len
  <1>7. c.body = base + end /\ c.at.body = end
    BY <1>1, <1>2, <1>3, <1>6
  <1>8. Moved(c, r)
    BY <1>1, <1>2, <1>4, <1>5, <1>6 DEF IsBodyCopy, Moved
  <1>9. Moved(c, q)
    BY <1>1, <1>2, <1>8 DEF Moved, SameText
  <1>10. DictInv(c)
    BY <1>9, MovedKeeps
  <1>11. BodyFollows(c) /\ c.body \in Int /\ c.at.body \in Int
    BY <1>3, <1>6, <1>7 DEF BodyFollows
  <1>12. BodyFits(c)
    <2>1. c.at.dict = q.at.dict /\ c.dict_len = q.dict_len
      BY <1>9 DEF Moved
    <2>2. QED
      BY <2>1, <1>3, <1>5, <1>6, <1>7 DEF BodyFits, end
  <1>13. QED
    BY <1>2, <1>6, <1>10, <1>11, <1>12 DEF BodyInv, c, r

\* No body: the pointer says so.
LEMMA NoBody ==
  ASSUME NEW q, DictInv(q)
  PROVE  LET c == [q EXCEPT !.body = NULL] IN BodyInv(c) /\ c.buffer = q.buffer
  <1> DEFINE c == [q EXCEPT !.body = NULL]
  <1>1. /\ Formed(q) /\ q.buffer \in Int /\ q.buffer_len \in Nat
        /\ HeadFollows(q) /\ DictFollows(q) /\ q.sent \in HeadType
        /\ q.at.dict_value \in Nat /\ q.at.headers \in Nat /\ q.at.dict \in Nat
    BY DEF DictInv, DecodedInv, HeadInv
  <1>2. /\ Formed(c) /\ SameText(c, q) /\ c.body = NULL
        /\ c.buffer = q.buffer /\ c.buffer_len = q.buffer_len
        /\ c.method = q.method /\ c.path = q.path /\ c.value = q.value
        /\ c.headers = q.headers /\ c.dict = q.dict /\ c.dict_len = q.dict_len
        /\ c.dict_value = q.dict_value /\ c.at = q.at
    BY <1>1 DEF Formed, Fields, SameText
  <1> HIDE DEF c
  <1>3. Moved(c, q)
    BY <1>1, <1>2 DEF Moved, HeadFollows, DictFollows, HeadType
  <1>4. DictInv(c)
    BY <1>3, MovedKeeps
  <1>5. QED
    BY <1>2, <1>4 DEF BodyInv, NULL, c

\* A clone is the request, in its own buffer or in the block it took over.
LEMMA Cloned ==
  ASSUME NEW r, BodyInv(r), NEW inline \in Int, NEW clone \in Int
  PROVE  LET c == CloneOf(r, inline, clone) IN
         BodyInv(c) /\ c.buffer = (IF r.buffer = inline THEN clone ELSE r.buffer)
  <1> DEFINE c == CloneOf(r, inline, clone)
  <1>1. CASE r.buffer # inline
    BY <1>1 DEF CloneOf
  <1>2. CASE r.buffer = inline
    <2> DEFINE shift == clone - inline
               b == [r EXCEPT !.buffer = clone]
               m == HeadMoved(b, shift)
               d == [m EXCEPT !.headers = @ + shift, !.dict = @ + shift,
                              !.dict_value = @ + shift,
                              !.body = IF @ = NULL THEN NULL ELSE @ + shift]
    <2>1. /\ Formed(r) /\ r.buffer_len \in Nat
          /\ r.at.dict \in Nat /\ r.dict_len \in Nat /\ r.body \in Int
          /\ r.body # NULL => BodyFollows(r) /\ BodyFits(r) /\ r.at.body \in Int
      BY DEF BodyInv, DictInv, DecodedInv, HeadInv
    <2>2. /\ Formed(b) /\ SameText(b, r) /\ b.buffer = clone /\ b.buffer_len = r.buffer_len
          /\ b.method = r.method /\ b.path = r.path /\ b.value = r.value
          /\ b.headers = r.headers /\ b.dict = r.dict /\ b.dict_len = r.dict_len
          /\ b.dict_value = r.dict_value /\ b.at = r.at
          /\ b.body = r.body /\ b.body_length = r.body_length
      BY <2>1 DEF Formed, Fields, SameText
    <2> HIDE DEF b, shift
    <2>3. /\ Formed(m) /\ SameText(m, b) /\ m.buffer = b.buffer /\ m.buffer_len = b.buffer_len
          /\ m.method = b.method + shift /\ m.path = b.path + shift /\ m.value = b.value + shift
          /\ m.headers = b.headers /\ m.dict = b.dict /\ m.dict_len = b.dict_len
          /\ m.dict_value = b.dict_value /\ m.at = b.at
          /\ m.body = b.body /\ m.body_length = b.body_length
      BY <2>2, HeadMovedFields
    <2> HIDE DEF m
    <2>4. /\ Formed(d) /\ SameText(d, m) /\ d.buffer = m.buffer /\ d.buffer_len = m.buffer_len
          /\ d.method = m.method /\ d.path = m.path /\ d.value = m.value
          /\ d.headers = m.headers + shift /\ d.dict = m.dict + shift
          /\ d.dict_len = m.dict_len /\ d.dict_value = m.dict_value + shift /\ d.at = m.at
          /\ d.body = (IF m.body = NULL THEN NULL ELSE m.body + shift)
          /\ d.body_length = m.body_length
      BY <2>3 DEF Formed, Fields, SameText
    <2>5. c = d
      BY <1>2 DEF CloneOf, b, m, shift
    <2> HIDE DEF c, d
    <2>6. Moved(c, r)
      <3>1. shift = c.buffer - r.buffer /\ c.buffer = clone
        BY <1>2, <2>2, <2>3, <2>4, <2>5 DEF shift
      <3>2. Formed(c) /\ SameText(c, r) /\ c.buffer_len = r.buffer_len
        BY <2>2, <2>3, <2>4, <2>5 DEF SameText
      <3>3. /\ c.method = r.method + shift /\ c.path = r.path + shift
            /\ c.value = r.value + shift /\ c.headers = r.headers + shift
            /\ c.dict = r.dict + shift /\ c.dict_value = r.dict_value + shift
            /\ c.dict_len = r.dict_len /\ c.at = r.at
        BY <2>2, <2>3, <2>4, <2>5
      <3>4. QED
        BY <2>1, <3>1, <3>2, <3>3 DEF Moved
    <2>7. DictInv(c)
      BY <2>6, MovedKeeps DEF BodyInv
    <2>8. /\ c.body = (IF r.body = NULL THEN NULL ELSE r.body + shift)
          /\ c.body_length = r.body_length /\ c.buffer = clone /\ c.buffer_len = r.buffer_len
          /\ c.at = r.at /\ c.dict_len = r.dict_len /\ shift \in Int
          /\ clone = r.buffer + shift
      BY <1>2, <2>1, <2>2, <2>3, <2>4, <2>5 DEF shift
    <2>9. c.body \in Int
      BY <2>1, <2>8 DEF NULL
    <2>10. ASSUME c.body # NULL PROVE BodyFollows(c) /\ BodyFits(c) /\ c.at.body \in Int
      <3>1. r.body # NULL /\ BodyFollows(r) /\ BodyFits(r) /\ r.at.body \in Int
        BY <2>1, <2>8, <2>10
      <3>2. c.body = r.body + shift
        BY <2>8, <3>1
      <3>3. BodyFits(c)
        BY <2>8, <3>1 DEF BodyFits
      <3>4. QED
        BY <1>2, <2>1, <2>8, <3>1, <3>2, <3>3 DEF BodyFollows
    <2>11. QED
      BY <1>2, <2>7, <2>8, <2>9, <2>10 DEF BodyInv, c
  <1>3. QED
    BY <1>1, <1>2

-----------------------------------------------------------------------------
(* The inductive invariant                                                 *)

\* What is known of a request in a phase
PhaseInv(r, p) ==
  /\ Formed(r)
  /\ p = "head" => RawInv(r)
  /\ p = "matched" => DecodedInv(r)
  /\ p = "dict" => DictInv(r)
  /\ p \in {"ready", "handled"} => BodyInv(r)

\* A clone exists only to be handled.
PhaseOK(o, p) ==
  /\ o # Static => p \in {"free", "handled"}
  /\ o = Static => p # "free"

Shape ==
  /\ request = [o \in Objects |-> request[o]]
  /\ phase \in [Objects -> Phases]
  /\ heap \subseteq HeapAt

Inv ==
  /\ Shape
  /\ \A o \in Objects : /\ PhaseInv(request[o], phase[o])
                        /\ PhaseOK(o, phase[o])
                        /\ phase[o] = "free" => request[o].buffer = InlineAt[o]
  /\ BlocksOwned

\* Inline buffers are apart from each other and from the blocks.
LEMMA Addresses ==
  /\ Static \in Objects
  /\ \A o \in Objects : InlineAt[o] \in Int /\ InlineAt[o] \notin HeapAt
  /\ \A o, p \in Objects : InlineAt[o] = InlineAt[p] => o = p
  /\ \A a \in HeapAt : a \in Int
  BY RequestAssumption

\* A new request uses its inline buffer.
LEMMA FreshFields ==
  ASSUME NEW inline
  PROVE  Formed(Fresh(inline)) /\ Fresh(inline).buffer = inline
  BY DEF Fresh, Formed, Fields, TextOf, NoHead

\* The blocks once request o's buffer is at base
SwappedHeap(o, base) ==
  (heap \ ({request[o].buffer} \ {InlineAt[o]})) \cup ({base} \ {InlineAt[o]})

\* Where the allocator may put it
CanGo(o, base) == base = InlineAt[o] \/ base \in HeapAt \ (heap \ {request[o].buffer})

\* The buffer of one request goes elsewhere and its block is freed: the blocks
\* are owned as before.
LEMMA Swap ==
  ASSUME heap \subseteq HeapAt, BlocksOwned,
         NEW o \in Objects, NEW base, CanGo(o, base),
         request'[o].buffer = base,
         \A p \in Objects : p # o => request'[p].buffer = request[p].buffer,
         heap' = SwappedHeap(o, base)
  PROVE  BlocksOwned' /\ heap' \subseteq HeapAt
  <1>1. heap' \subseteq HeapAt
    BY DEF SwappedHeap, CanGo
  <1>2. \A p \in Objects : request'[p].buffer \in {InlineAt[p]} \cup heap'
    <2>1. TAKE p \in Objects
    <2>2. CASE p = o
      BY <2>2 DEF SwappedHeap
    <2>3. CASE p # o
      <3>1. request[p].buffer \in {InlineAt[p]} \cup heap /\ request[p].buffer # request[o].buffer
        BY <2>3 DEF BlocksOwned
      <3>2. QED
        BY <2>3, <3>1 DEF SwappedHeap
    <2>4. QED
      BY <2>2, <2>3
  <1>3. ASSUME NEW block \in heap' PROVE \E p \in Objects : Owns(p, block)'
    <2>1. CASE block \in {base} \ {InlineAt[o]}
      BY <2>1 DEF Owns
    <2>2. CASE block \in heap \ ({request[o].buffer} \ {InlineAt[o]})
      <3>1. PICK p \in Objects : Owns(p, block)
        BY <2>2 DEF BlocksOwned
      <3>2. p # o
        BY <2>2, <3>1 DEF Owns
      <3>3. Owns(p, block)'
        BY <3>1, <3>2 DEF Owns
      <3>4. QED
        BY <3>3
    <2>3. QED
      BY <1>3, <2>1, <2>2 DEF SwappedHeap
  <1>4. ASSUME NEW p \in Objects, NEW q \in Objects, request'[p].buffer = request'[q].buffer
        PROVE  p = q
    <2>1. ASSUME NEW x \in Objects, x # o PROVE request[x].buffer # base
      <3>1. request[x].buffer \in {InlineAt[x]} \cup heap /\ request[x].buffer # request[o].buffer
        BY <2>1 DEF BlocksOwned
      <3>2. InlineAt[x] \notin HeapAt /\ InlineAt[x] # InlineAt[o] /\ InlineAt[o] \notin HeapAt
        BY <2>1, Addresses
      <3>3. QED
        BY <3>1, <3>2 DEF CanGo
    <2>2. CASE p # o /\ q # o
      BY <1>4, <2>2 DEF BlocksOwned
    <2>3. CASE p = o \/ q = o
      BY <1>4, <2>1, <2>3
    <2>4. QED
      BY <2>2, <2>3
  <1>5. QED
    BY <1>1, <1>2, <1>3, <1>4 DEF BlocksOwned

\* One request changes, and with it its buffer: the shape of every step but
\* Clone.
LEMMA OneChanged ==
  ASSUME Inv, NEW o \in Objects, NEW r, NEW p \in Phases,
         request' = [request EXCEPT ![o] = r],
         phase' = [phase EXCEPT ![o] = p],
         heap' = SwappedHeap(o, r.buffer), CanGo(o, r.buffer),
         PhaseInv(r, p), PhaseOK(o, p), p = "free" => r.buffer = InlineAt[o]
  PROVE  Inv'
  <1>1. /\ request'[o] = r /\ \A q \in Objects : q # o => request'[q] = request[q]
        /\ phase'[o] = p /\ \A q \in Objects : q # o => phase'[q] = phase[q]
        /\ request' = [q \in Objects |-> request'[q]]
        /\ phase' \in [Objects -> Phases]
    BY DEF Inv, Shape
  <1>2. BlocksOwned' /\ heap' \subseteq HeapAt
    BY <1>1, Swap DEF Inv, Shape
  <1>3. ASSUME NEW q \in Objects
        PROVE  /\ PhaseInv(request'[q], phase'[q]) /\ PhaseOK(q, phase'[q])
               /\ phase'[q] = "free" => request'[q].buffer = InlineAt[q]
    <2>1. CASE q = o
      BY <1>1, <2>1
    <2>2. CASE q # o
      BY <1>1, <2>2 DEF Inv
    <2>3. QED
      BY <2>1, <2>2
  <1>4. QED
    BY <1>1, <1>2, <1>3 DEF Inv, Shape

\* The buffer stays where it is.
LEMMA Stays ==
  ASSUME Inv, NEW o \in Objects
  PROVE  /\ CanGo(o, request[o].buffer)
         /\ SwappedHeap(o, request[o].buffer) = heap
         /\ request[o].buffer \in Int
  <1>1. request[o].buffer \in {InlineAt[o]} \cup heap /\ heap \subseteq HeapAt
    BY DEF Inv, Shape, BlocksOwned
  <1>2. QED
    BY <1>1, Addresses DEF CanGo, SwappedHeap

\* It goes where bfrcpy lets it.
LEMMA Bfrcpy ==
  ASSUME Inv, NEW o \in Objects, NEW r, r.buffer = request[o].buffer, NEW dst, NEW len,
         NEW base \in Bases(r, InlineAt[o], dst, len)
  PROVE  /\ CanGo(o, base) /\ base \in Int
         /\ Allocated(r, InlineAt[o], base) = SwappedHeap(o, base)
  BY Stays, Addresses DEF Bases, CanGo, Allocated, SwappedHeap

\* The invariant holds at first.
LEMMA InitInv == Init => Inv
  <1> SUFFICES ASSUME Init PROVE Inv
    OBVIOUS
  <1>1. \A o \in Objects : /\ request[o] = Fresh(InlineAt[o])
                           /\ phase[o] = IF o = Static THEN "new" ELSE "free"
    BY DEF Init
  <1>2. Shape
    BY DEF Init, Shape, Phases
  <1>3. ASSUME NEW o \in Objects
        PROVE  /\ PhaseInv(request[o], phase[o]) /\ PhaseOK(o, phase[o])
               /\ phase[o] = "free" => request[o].buffer = InlineAt[o]
    BY <1>1, FreshFields DEF PhaseInv, PhaseOK
  <1>4. BlocksOwned
    BY <1>1, FreshFields, Addresses DEF Init, BlocksOwned
  <1>5. QED
    BY <1>2, <1>3, <1>4 DEF Inv

\* The clone takes over the block, or copies the inline buffer; the original is
\* left with its own.
LEMMA CloneInv ==
  ASSUME Inv, NEW o \in Objects, Clone(o)
  PROVE  Inv'
  <1> DEFINE s == request[Static]
             c == CloneOf(s, InlineAt[Static], InlineAt[o])
             t == Robbed(s, InlineAt[Static])
  <1>1. /\ Static \in Objects /\ o # Static /\ BodyInv(s)
        /\ request[o].buffer = InlineAt[o]
        /\ phase[Static] = "ready" /\ phase[o] = "free"
    BY Addresses DEF Clone, Inv, PhaseInv
  <1>2. InlineAt[o] \in Int /\ InlineAt[Static] \in Int /\ InlineAt[o] # InlineAt[Static]
    BY <1>1, Addresses
  <1>3. /\ BodyInv(c)
        /\ c.buffer = IF s.buffer = InlineAt[Static] THEN InlineAt[o] ELSE s.buffer
    BY <1>1, <1>2, Cloned
  <1>4. Formed(t) /\ t.buffer = InlineAt[Static]
    BY <1>1 DEF Robbed, Formed, Fields, BodyInv, DictInv, DecodedInv, HeadInv
  <1> HIDE DEF c, t, s
  <1>5. /\ request'[o] = c /\ request'[Static] = t
        /\ \A q \in Objects : q # o /\ q # Static => request'[q] = request[q]
        /\ request' = [q \in Objects |-> request'[q]]
    BY <1>1 DEF Clone, Inv, Shape, c, t, s
  <1>6. /\ phase'[o] = "handled" /\ phase'[Static] = "cloned"
        /\ \A q \in Objects : q # o /\ q # Static => phase'[q] = phase[q]
        /\ phase' \in [Objects -> Phases]
    BY <1>1 DEF Clone, Inv, Shape, Phases
  <1>7. heap' = heap /\ heap \subseteq HeapAt
    BY DEF Clone, Inv, Shape
  <1>8. ASSUME NEW q \in Objects
        PROVE  /\ PhaseInv(request'[q], phase'[q]) /\ PhaseOK(q, phase'[q])
               /\ phase'[q] = "free" => request'[q].buffer = InlineAt[q]
    <2>1. CASE q = o
      BY <1>1, <1>3, <1>5, <1>6, <2>1
         DEF PhaseInv, PhaseOK, BodyInv, DictInv, DecodedInv, HeadInv
    <2>2. CASE q = Static
      BY <1>4, <1>5, <1>6, <2>2 DEF PhaseInv, PhaseOK
    <2>3. CASE q # o /\ q # Static
      BY <1>5, <1>6, <2>3 DEF Inv
    <2>4. QED
      BY <2>1, <2>2, <2>3
  <1>9. BlocksOwned'
    <2>1. /\ \A q \in Objects : request[q].buffer \in {InlineAt[q]} \cup heap
          /\ \A block \in heap : \E q \in Objects : Owns(q, block)
          /\ \A p, q \in Objects : request[p].buffer = request[q].buffer => p = q
      BY DEF Inv, BlocksOwned
    <2>2. ASSUME NEW q \in Objects PROVE request'[q].buffer \in {InlineAt[q]} \cup heap'
      BY <1>1, <1>3, <1>4, <1>5, <1>7, <2>1 DEF s
    <2>3. ASSUME NEW block \in heap' PROVE \E q \in Objects : Owns(q, block)'
      <3>1. PICK q \in Objects : Owns(q, block)
        BY <1>7, <2>1
      <3>2. block \in HeapAt /\ block # InlineAt[o]
        BY <1>1, <1>7, Addresses
      <3>3. CASE q = Static
        BY <1>3, <1>5, <3>1, <3>2, <3>3 DEF Owns, s
      <3>4. CASE q # Static
        <4>1. q # o
          BY <1>1, <3>1 DEF Owns
        <4>2. Owns(q, block)'
          BY <1>5, <3>1, <3>4, <4>1 DEF Owns
        <4>3. QED
          BY <4>2
      <3>5. QED
        BY <3>3, <3>4
    <2>4. ASSUME NEW p \in Objects, NEW q \in Objects,
                 request'[p].buffer = request'[q].buffer
          PROVE  p = q
      <3>1. \A x \in Objects : /\ InlineAt[x] \notin heap
                               /\ \A y \in Objects : InlineAt[x] = InlineAt[y] => x = y
        BY <1>7, Addresses
      <3>2. request'[o].buffer # request'[Static].buffer
        BY <1>1, <1>2, <1>3, <1>4, <1>5
      <3>3. ASSUME NEW x \in Objects, x # o, x # Static
            PROVE  request'[x].buffer # request'[o].buffer
                   /\ request'[x].buffer # request'[Static].buffer
        BY <1>1, <1>3, <1>4, <1>5, <2>1, <3>1, <3>3 DEF s
      <3>4. CASE p \in {o, Static} \/ q \in {o, Static}
        BY <2>4, <3>2, <3>3, <3>4
      <3>5. CASE p \notin {o, Static} /\ q \notin {o, Static}
        BY <1>5, <2>1, <2>4, <3>5
      <3>6. QED
        BY <3>4, <3>5
    <2>5. QED
      BY <2>2, <2>3, <2>4 DEF BlocksOwned
  <1>10. QED
    BY <1>5, <1>6, <1>7, <1>8, <1>9 DEF Inv, Shape

\* Every step keeps it.
LEMMA NextInv == Inv /\ [Next]_vars => Inv'
  <1> SUFFICES ASSUME Inv, [Next]_vars PROVE Inv'
    OBVIOUS
  <1> USE Addresses
  <1>0. /\ \A o \in Objects : request[o].buffer \in Int /\ InlineAt[o] \in Int
        /\ \A o \in Objects : phase[o] \in Phases
        /\ \A o \in Objects : PhaseInv(request[o], phase[o]) /\ PhaseOK(o, phase[o])
        /\ \A o \in Objects : phase[o] = "free" => request[o].buffer = InlineAt[o]
    BY Stays DEF Inv, Shape
  <1>1. ASSUME NEW h \in Heads, OnHeaders(h) PROVE Inv'
    <2> DEFINE r == FromRaw(Fresh(InlineAt[Static]), h)
    <2>1. IsRaw(r, InlineAt[Static], h) /\ r.buffer = InlineAt[Static]
      <3>1. IsRaw(r, InlineAt[Static], h)
        BY RawFields
      <3> HIDE DEF r
      <3>2. QED
        BY <3>1 DEF IsRaw
    <2>2. PICK base \in (IF Fits(r, HeadersDst(r), HeadersSize(r)) THEN {r.buffer}
                         ELSE HeapAt \ Freed(Static)) :
            /\ request' = [request EXCEPT ![Static] = CopyHeaders(r, base)]
            /\ heap' = Freed(Static) \cup ({base} \ {InlineAt[Static]})
      BY <1>1 DEF OnHeaders
    <2> HIDE DEF r
    <2>3. base \in Int /\ CanGo(Static, base) /\ heap' = SwappedHeap(Static, base)
      BY <2>1, <2>2 DEF CanGo, Freed, SwappedHeap
    <2>4. RawInv(CopyHeaders(r, base)) /\ CopyHeaders(r, base).buffer = base
      BY <1>0, <2>1, <2>3, HeadCopied
    <2>5. PhaseInv(CopyHeaders(r, base), "head") /\ PhaseOK(Static, "head")
      BY <2>4 DEF PhaseInv, PhaseOK, RawInv, HeadInv
    <2>6. phase' = [phase EXCEPT ![Static] = "head"] /\ "head" \in Phases
      BY <1>1 DEF OnHeaders, Phases
    <2>7. QED
      BY <2>2, <2>3, <2>4, <2>5, <2>6, OneChanged
  <1>2. ASSUME MatchPath PROVE Inv'
    <2> DEFINE c == get_decoded_path(request[Static])
    <2>1. DecodedInv(c) /\ c.buffer = request[Static].buffer
      BY <1>0, <1>2, PathDecoded DEF MatchPath, PhaseInv
    <2>2. PhaseInv(c, "matched") /\ PhaseOK(Static, "matched") /\ "matched" \in Phases
      BY <2>1 DEF PhaseInv, PhaseOK, DecodedInv, HeadInv, Phases
    <2>3. CanGo(Static, c.buffer) /\ heap' = SwappedHeap(Static, c.buffer)
      BY <1>2, <2>1, Stays DEF MatchPath
    <2>4. /\ request' = [request EXCEPT ![Static] = c]
          /\ phase' = [phase EXCEPT ![Static] = "matched"]
      BY <1>2 DEF MatchPath
    <2> HIDE DEF c
    <2>5. QED
      BY <2>2, <2>3, <2>4, OneChanged
  <1>3. ASSUME NEW m \in Matches, SetMatchDictEntries(m) PROVE Inv'
    <2> DEFINE r == FromMatcher(request[Static], m)
    <2>1. PICK base \in Bases(r, InlineAt[Static], DictDst(r), DictSize(r)) :
            /\ request' = [request EXCEPT ![Static] = CopyDict(r, base)]
            /\ heap' = Allocated(r, InlineAt[Static], base)
      BY <1>3 DEF SetMatchDictEntries
    <2>2. DecodedInv(request[Static])
      BY <1>0, <1>3 DEF SetMatchDictEntries, PhaseInv
    <2>3. r.buffer = request[Static].buffer
      BY <2>2, DictCopied, <1>0
    <2> HIDE DEF r
    <2>4. base \in Int /\ CanGo(Static, base) /\ heap' = SwappedHeap(Static, base)
      BY <2>1, <2>3, Bfrcpy
    <2>5. DictInv(CopyDict(r, base)) /\ CopyDict(r, base).buffer = base
      BY <2>2, <2>4, DictCopied DEF r
    <2>6. PhaseInv(CopyDict(r, base), "dict") /\ PhaseOK(Static, "dict") /\ "dict" \in Phases
      BY <2>5 DEF PhaseInv, PhaseOK, DictInv, DecodedInv, HeadInv, Phases
    <2>7. phase' = [phase EXCEPT ![Static] = "dict"]
      BY <1>3 DEF SetMatchDictEntries
    <2>8. QED
      BY <2>1, <2>4, <2>5, <2>6, <2>7, OneChanged
  <1>4. ASSUME NEW length \in Bodies, SetBody(length) PROVE Inv'
    <2>1. DictInv(request[Static])
      BY <1>0, <1>4 DEF SetBody, PhaseInv
    <2>2. phase' = [phase EXCEPT ![Static] = "ready"] /\ "ready" \in Phases
      BY <1>4 DEF SetBody, Phases
    <2>3. CASE length = -1
      <3> DEFINE c == [request[Static] EXCEPT !.body = NULL]
      <3>1. BodyInv(c) /\ c.buffer = request[Static].buffer
        BY <2>1, NoBody
      <3>2. request' = [request EXCEPT ![Static] = c] /\ heap' = heap
        BY <1>4, <2>3 DEF SetBody
      <3> HIDE DEF c
      <3>3. PhaseInv(c, "ready") /\ PhaseOK(Static, "ready")
        BY <3>1 DEF PhaseInv, PhaseOK, BodyInv, DictInv, DecodedInv, HeadInv
      <3>4. CanGo(Static, c.buffer) /\ heap' = SwappedHeap(Static, c.buffer)
        BY <3>1, <3>2, Stays
      <3>5. QED
        BY <2>2, <3>2, <3>3, <3>4, OneChanged
    <2>4. CASE length # -1
      <3> DEFINE r == FromBody(request[Static], length)
      <3>1. PICK base \in Bases(r, InlineAt[Static], BodyDst(r), r.body_length) :
              /\ request' = [request EXCEPT ![Static] = CopyBody(r, base)]
              /\ heap' = Allocated(r, InlineAt[Static], base)
        BY <1>4, <2>4 DEF SetBody
      <3>2. length \in Nat
        BY <2>4, RequestAssumption
      <3>3. r.buffer = request[Static].buffer
        BY <2>1, <3>2, BodyCopied, <1>0
      <3> HIDE DEF r
      <3>4. base \in Int /\ CanGo(Static, base) /\ heap' = SwappedHeap(Static, base)
        BY <3>1, <3>3, Bfrcpy
      <3>5. BodyInv(CopyBody(r, base)) /\ CopyBody(r, base).buffer = base
        BY <2>1, <3>2, <3>4, BodyCopied DEF r
      <3>6. PhaseInv(CopyBody(r, base), "ready") /\ PhaseOK(Static, "ready")
        BY <3>5 DEF PhaseInv, PhaseOK, BodyInv, DictInv, DecodedInv, HeadInv
      <3>7. QED
        BY <2>2, <3>1, <3>4, <3>5, <3>6, OneChanged
    <2>5. QED
      BY <2>3, <2>4
  <1>5. ASSUME Handle PROVE Inv'
    <2>1. PhaseInv(request[Static], "handled") /\ PhaseOK(Static, "handled")
      BY <1>0, <1>5 DEF Handle, PhaseInv, PhaseOK
    <2>2. /\ request' = [request EXCEPT ![Static] = request[Static]]
          /\ phase' = [phase EXCEPT ![Static] = "handled"]
          /\ heap' = heap /\ "handled" \in Phases
      BY <1>5 DEF Handle, Phases, Inv, Shape
    <2>3. CanGo(Static, request[Static].buffer)
          /\ heap' = SwappedHeap(Static, request[Static].buffer)
      BY <2>2, Stays
    <2>4. QED
      BY <2>1, <2>2, <2>3, OneChanged
  <1>6. ASSUME NEW o \in Objects, Clone(o) PROVE Inv'
    BY <1>6, CloneInv
  <1>7. ASSUME NEW o \in Objects, GetPath(o) \/ GetQs(o) PROVE Inv'
    <2>1. /\ phase[o] = "handled" /\ BodyInv(request[o])
          /\ phase' = [phase EXCEPT ![o] = "handled"] /\ heap' = heap
          /\ "handled" \in Phases
      BY <1>0, <1>7 DEF GetPath, GetQs, PhaseInv, Phases, Inv, Shape
    <2>2. PICK c : /\ request' = [request EXCEPT ![o] = c]
                   /\ BodyInv(c) /\ c.buffer = request[o].buffer
      <3>1. CASE GetPath(o)
        BY <2>1, <3>1, PathOnce DEF GetPath
      <3>2. CASE GetQs(o)
        BY <2>1, <3>2, QsDecoded DEF GetQs
      <3>3. QED
        BY <1>7, <3>1, <3>2
    <2>3. PhaseInv(c, "handled") /\ PhaseOK(o, "handled")
      BY <2>2 DEF PhaseInv, PhaseOK, BodyInv, DictInv, DecodedInv, HeadInv
    <2>4. CanGo(o, c.buffer) /\ heap' = SwappedHeap(o, c.buffer)
      BY <2>1, <2>2, Stays
    <2>5. QED
      BY <2>1, <2>2, <2>3, <2>4, OneChanged
  <1>8. ASSUME NEW o \in Objects, Dealloc(o) \/ (o = Static /\ DeallocStatic) PROVE Inv'
    <2> DEFINE r == Fresh(InlineAt[o])
    <2>1. Formed(r) /\ r.buffer = InlineAt[o]
      BY FreshFields
    <2>2. /\ request' = [request EXCEPT ![o] = r] /\ heap' = Freed(o)
      BY <1>8 DEF Dealloc, DeallocStatic
    <2> HIDE DEF r
    <2>3. CanGo(o, r.buffer) /\ heap' = SwappedHeap(o, r.buffer)
      BY <2>1, <2>2 DEF CanGo, SwappedHeap, Freed
    <2>4. PICK p \in Phases : /\ phase' = [phase EXCEPT ![o] = p]
                              /\ PhaseInv(r, p) /\ PhaseOK(o, p)
      <3>1. CASE Dealloc(o)
        <4>1. /\ phase' = [phase EXCEPT ![o] = "free"] /\ "free" \in Phases
              /\ PhaseInv(r, "free") /\ PhaseOK(o, "free")
          BY <2>1, <3>1 DEF Dealloc, PhaseInv, PhaseOK, Phases
        <4>2. QED
          BY <4>1
      <3>2. CASE o = Static /\ DeallocStatic
        <4>1. /\ phase' = [phase EXCEPT ![o] = "gone"] /\ "gone" \in Phases
              /\ PhaseInv(r, "gone") /\ PhaseOK(o, "gone")
          BY <2>1, <3>2 DEF DeallocStatic, PhaseInv, PhaseOK, Phases
        <4>2. QED
          BY <4>1
      <3>3. QED
        BY <1>8, <3>1, <3>2
    <2>5. QED
      BY <2>1, <2>2, <2>3, <2>4, OneChanged
  <1>9. CASE UNCHANGED vars
    BY <1>9 DEF vars, Inv, Shape, BlocksOwned, Owns
  <1>10. QED
    BY <1>1, <1>2, <1>3, <1>4, <1>5, <1>6, <1>7, <1>8, <1>9 DEF Next

\* It gives the four properties.
LEMMA InvImplies == Inv => PointersFollow /\ PartsFit /\ DecodedOnce /\ BlocksOwned
  <1> SUFFICES ASSUME Inv PROVE PointersFollow /\ PartsFit /\ DecodedOnce /\ BlocksOwned
    OBVIOUS
  <1>1. ASSUME NEW o \in Objects PROVE PhaseInv(request[o], phase[o])
    BY DEF Inv
  <1>2. PointersFollow
    BY <1>1 DEF PointersFollow, HasHead, HasDict, HasBody, PhaseInv,
                RawInv, BodyInv, DictInv, DecodedInv, HeadInv
  <1>3. PartsFit
    BY <1>1 DEF PartsFit, HasHead, HasDict, HasBody, PhaseInv,
                RawInv, BodyInv, DictInv, DecodedInv, HeadInv
  <1>4. DecodedOnce
    <2> SUFFICES ASSUME NEW o \in Objects,
                        phase[o] \in {"matched", "dict", "ready", "handled"}
                 PROVE  LET r == request[o] IN
                        /\ r.path_len = r.sent.path_len - 2 * r.sent.escapes
                        /\ r.text.path = r.path_len
                        /\ r.qs_len = r.sent.qs_len - (IF r.qs_decoded THEN 2 * r.sent.qs_escapes
                                                       ELSE 0)
      BY DEF DecodedOnce
    <2>1. DecodedInv(request[o])
      BY <1>1 DEF PhaseInv, BodyInv, DictInv
    <2>2. QED
      BY <2>1 DEF DecodedInv
  <1>5. QED
    BY <1>2, <1>3, <1>4 DEF Inv

\* It holds throughout.
LEMMA InvHolds == Spec => []Inv
  BY InitInv, NextInv, PTL DEF Spec

-----------------------------------------------------------------------------
(* The types of the fields *)

\* Growing keeps the types.
LEMMA GrownTyped ==
  ASSUME NEW r \in Requests, NEW dst \in Int, NEW len \in Nat, NEW base \in Int
  PROVE  Grown(r, dst, len, base) \in Requests
  <1>1. \A n \in Nat : Larger(2 * n, n + len) \in Nat
    BY DEF Larger
  <1>2. QED
    BY <1>1 DEF Grown, Requests

\* Moving the head keeps them.
LEMMA HeadMovedTyped ==
  ASSUME NEW r \in Requests, NEW shift \in Int
  PROVE  HeadMoved(r, shift) \in Requests
  <1>1. r.method + shift \in Int /\ r.path + shift \in Int /\ r.value + shift \in Int
    BY DEF Requests
  <1>2. QED
    BY <1>1 DEF HeadMoved, Requests

\* ROUNDTO8 stays an integer.
LEMMA RoundInt == ASSUME NEW v \in Int PROVE ROUNDTO8(v) \in Int
  BY DEF ROUNDTO8

\* The head is copied to an offset that is not negative.
LEMMA HeadersTyped ==
  ASSUME NEW r \in Requests, NEW base \in Int, HeadersSize(r) \in Nat,
         ROUNDTO8(headers_len(r)) \in Nat
  PROVE  CopyHeaders(r, base) \in Requests
  <1> DEFINE g == HeadMoved(Grown(r, HeadersDst(r), HeadersSize(r), base), base - r.method)
             end == ROUNDTO8(headers_len(r))
  <1>1. HeadersDst(r) \in Int /\ base - r.method \in Int /\ base + end \in Int
    BY DEF HeadersDst, Requests
  <1>2. g \in Requests
    BY <1>1, GrownTyped, HeadMovedTyped
  <1> HIDE DEF g, end
  <1>3. [g EXCEPT !.headers = base + end, !.at.headers = end] \in Requests
    BY <1>1, <1>2 DEF Requests, end
  <1>4. QED
    BY <1>3 DEF CopyHeaders, g, end

\* Where the parts go is an address.
LEMMA DstInt ==
  ASSUME NEW r \in Requests
  PROVE  DictDst(r) \in Int /\ DictSize(r) \in Nat /\ BodyDst(r) \in Int
  <1>1. headers_len(r) + entries_len(r) \in Int
    BY DEF headers_len, entries_len, HEADER, Requests
  <1>2. ROUNDTO8(headers_len(r) + entries_len(r)) \in Int
    BY <1>1, RoundInt
  <1>3. DictDst(r) \in Int
    BY <1>2 DEF DictDst, Requests
  <1>4. DictSize(r) \in Nat /\ BodyDst(r) \in Int
    BY DEF DictSize, BodyDst, ENTRY, Requests
  <1>5. QED
    BY <1>3, <1>4

\* The match entries are copied.
LEMMA DictTyped ==
  ASSUME NEW r \in Requests, NEW base \in Int
  PROVE  CopyDict(r, base) \in Requests
  <1> DEFINE shift == base - r.buffer
             g == HeadMoved(Grown(r, DictDst(r), DictSize(r), base), shift)
             dst == DictDst(r) + shift
  <1>1. shift \in Int /\ DictDst(r) \in Int /\ DictSize(r) \in Nat
    BY DstInt DEF Requests
  <1>2. g \in Requests
    BY <1>1, GrownTyped, HeadMovedTyped
  <1>3. dst \in Int /\ dst - base \in Int
    BY <1>1
  <1> HIDE DEF g, dst, shift
  <1>4. g.headers + shift \in Int /\ g.dict_value + shift \in Int
    BY <1>1, <1>2 DEF Requests
  <1>5. [g EXCEPT !.headers = @ + shift, !.dict = dst, !.dict_value = @ + shift,
                  !.at.dict = dst - base] \in Requests
    BY <1>2, <1>3, <1>4 DEF Requests
  <1>6. QED
    BY <1>5 DEF CopyDict, g, dst, shift

\* The body is copied.
LEMMA BodyTyped ==
  ASSUME NEW r \in Requests, NEW base \in Int
  PROVE  CopyBody(r, base) \in Requests
  <1> DEFINE shift == base - r.buffer
             g == HeadMoved(Grown(r, BodyDst(r), r.body_length, base), shift)
             dst == BodyDst(r) + shift
  <1>1. shift \in Int /\ BodyDst(r) \in Int /\ r.body_length \in Nat
    BY DstInt DEF Requests
  <1>2. g \in Requests
    BY <1>1, GrownTyped, HeadMovedTyped
  <1>3. dst \in Int /\ dst - base \in Int
    BY <1>1
  <1> HIDE DEF g, dst, shift
  <1>4. g.headers + shift \in Int /\ g.dict + shift \in Int /\ g.dict_value + shift \in Int
    BY <1>1, <1>2 DEF Requests
  <1>5. [g EXCEPT !.headers = @ + shift, !.dict = @ + shift, !.dict_value = @ + shift,
                  !.body = dst, !.at.body = dst - base] \in Requests
    BY <1>2, <1>3, <1>4 DEF Requests
  <1>6. QED
    BY <1>5 DEF CopyBody, g, dst, shift

\* The escapes are never more than the bytes they stand for: no length gets
\* negative when the path is decoded ...
LEMMA PathTyped ==
  ASSUME NEW r \in Requests, RawInv(r) PROVE get_decoded_path(r) \in Requests
  <1>1. /\ r.sent.path_len \in Nat /\ r.sent.escapes \in Nat /\ r.sent.nested \in Nat
        /\ r.sent.qs_len \in Nat /\ 3 * r.sent.escapes <= r.sent.path_len
    BY DEF RawInv, HeadInv, HeadType, HeadOK
  <1>2. /\ r.text.path = r.sent.path_len /\ r.text.escapes = r.sent.escapes
        /\ r.text.nested = r.sent.nested /\ r.text.qs = r.sent.qs_len
        /\ r.path_len = r.sent.path_len + r.sent.qs_len /\ r.path_decoded = FALSE
    BY DEF RawInv, TextOf
  <1> DEFINE shifted_bytes == 2 * r.text.escapes
             path_len == r.path_len - shifted_bytes - r.text.qs
  <1>3. /\ path_len \in Nat /\ r.path_len - path_len - shifted_bytes \in Nat
        /\ r.text.path - shifted_bytes \in Nat /\ r.text.nested \in Nat
    BY <1>1, <1>2
  <1> HIDE DEF shifted_bytes, path_len
  <1>4. [r EXCEPT !.path_decoded = TRUE,
                  !.qs_len = r.path_len - path_len - shifted_bytes,
                  !.path_len = path_len,
                  !.text.path = @ - shifted_bytes,
                  !.text.escapes = r.text.nested, !.text.nested = 0] \in Requests
    BY <1>3, ZenonT(40) DEF Requests
  <1>5. QED
    BY <1>2, <1>4 DEF get_decoded_path, shifted_bytes, path_len

\* ... nor when the query is.
LEMMA QsTyped ==
  ASSUME NEW r \in Requests, DecodedInv(r) PROVE get_decoded_qs(r) \in Requests
  <1>1. CASE r.qs_len = 0 \/ r.qs_decoded
    BY <1>1 DEF get_decoded_qs
  <1>2. CASE ~(r.qs_len = 0 \/ r.qs_decoded)
    <2>1. /\ r.sent.qs_len \in Nat /\ r.sent.qs_escapes \in Nat
          /\ 3 * r.sent.qs_escapes <= r.sent.qs_len
      BY DEF DecodedInv, HeadInv, HeadType, HeadOK
    <2>2. /\ r.qs_len = r.sent.qs_len /\ r.text.qs = r.qs_len
          /\ r.text.qs_escapes = r.sent.qs_escapes
      BY <1>2, <2>1 DEF DecodedInv
    <2>3. r.qs_len - 2 * r.text.qs_escapes \in Nat /\ r.text.qs - 2 * r.text.qs_escapes \in Nat
      BY <2>1, <2>2
    <2>4. QED
      BY <1>2, <2>3 DEF get_decoded_qs, Requests
  <1>3. QED
    BY <1>1, <1>2

\* A clone has them.
LEMMA CloneTyped ==
  ASSUME NEW r \in Requests, NEW inline \in Int, NEW clone \in Int
  PROVE  CloneOf(r, inline, clone) \in Requests
  <1> DEFINE shift == clone - inline
             s == [r EXCEPT !.buffer = clone]
             c == HeadMoved(s, shift)
  <1>1. s \in Requests /\ shift \in Int
    BY DEF Requests
  <1>2. c \in Requests
    BY <1>1, HeadMovedTyped
  <1> HIDE DEF c, s, shift
  <1>3. /\ c.headers + shift \in Int /\ c.dict + shift \in Int /\ c.dict_value + shift \in Int
        /\ (IF c.body = NULL THEN NULL ELSE c.body + shift) \in Int
    BY <1>1, <1>2 DEF Requests, NULL
  <1>4. [c EXCEPT !.headers = @ + shift, !.dict = @ + shift, !.dict_value = @ + shift,
                  !.body = IF @ = NULL THEN NULL ELSE @ + shift] \in Requests
    BY <1>2, <1>3, ZenonT(40) DEF Requests
  <1>5. QED
    BY <1>4 DEF CloneOf, c, s, shift

\* A new request has them.
LEMMA FreshTyped ==
  ASSUME NEW inline \in Int PROVE Fresh(inline) \in Requests
  BY RequestAssumption DEF Fresh, Requests, NoHead, TextOf, HeadType, NULL

\* So has one with what the parser gave ...
LEMMA RawTyped ==
  ASSUME NEW r \in Requests, NEW h \in HeadType PROVE FromRaw(r, h) \in Requests
  <1>1. /\ ParserAt \in Int /\ ParserAt + h.path \in Int /\ ParserAt + h.value \in Int
        /\ h.path_len + h.qs_len \in Nat /\ h.num_headers \in Nat /\ h.value_len \in Nat
    BY RequestAssumption DEF HeadType
  <1>2. TextOf(h) \in [path : Nat, escapes : Nat, nested : Nat, qs : Nat, qs_escapes : Nat]
    BY DEF HeadType, TextOf
  <1>3. QED
    BY <1>1, <1>2 DEF FromRaw, Requests

\* ... copied to its own buffer.
LEMMA HeadTyped ==
  ASSUME NEW inline \in Int, NEW h \in Heads, NEW base \in Int
  PROVE  CopyHeaders(FromRaw(Fresh(inline), h), base) \in Requests
  <1> DEFINE r == FromRaw(Fresh(inline), h)
  <1>1. h \in HeadType
    BY RequestAssumption
  <1>2. r \in Requests /\ IsRaw(r, inline, h)
    BY <1>1, FreshTyped, RawTyped, RawFields
  <1> HIDE DEF r
  <1>3. headers_len(r) \in Nat /\ entries_len(r) \in Nat
    BY <1>1, <1>2, RequestAssumption DEF headers_len, entries_len, IsRaw, HeadType, HEADER
  <1>4. ROUNDTO8(headers_len(r)) \in Nat /\ HeadersSize(r) \in Nat
    BY <1>3, RoundUp DEF HeadersSize
  <1>5. QED
    BY <1>2, <1>4, HeadersTyped DEF r

\* The matcher's entries and the body are typed.
LEMMA FromMatcherTyped ==
  ASSUME NEW r \in Requests, NEW m \in MatchType PROVE FromMatcher(r, m) \in Requests
  <1>1. /\ ParserAt \in Int /\ m.length \in Nat /\ m.value \in Nat
        /\ r.path + m.value \in Int
    BY RequestAssumption DEF MatchType, Requests
  <1>2. QED
    BY <1>1 DEF FromMatcher, Requests

\* ... and a body
LEMMA FromBodyTyped ==
  ASSUME NEW r \in Requests, NEW length \in Nat PROVE FromBody(r, length) \in Requests
  BY RequestAssumption DEF FromBody, Requests

\* One request changes.
LEMMA OneTyped ==
  ASSUME TypeOK, NEW o \in Objects, NEW r \in Requests, request' = [request EXCEPT ![o] = r]
  PROVE  request' \in [Objects -> Requests]
  BY DEF TypeOK

\* The types of the requests follow from the invariant, step by step; those of
\* phase and heap are part of it.
LEMMA TypeStep ==
  ASSUME TypeOK, Inv, [Next]_vars
  PROVE  request' \in [Objects -> Requests]
  <1> USE Addresses
  <1>0. /\ request \in [Objects -> Requests]
        /\ \A o \in Objects : /\ request[o] \in Requests /\ request[o].buffer \in Int
                              /\ InlineAt[o] \in Int /\ PhaseInv(request[o], phase[o])
    BY DEF TypeOK, Inv, Requests
  <1>1. ASSUME NEW h \in Heads, OnHeaders(h) PROVE request' \in [Objects -> Requests]
    <2> DEFINE r == FromRaw(Fresh(InlineAt[Static]), h)
    <2>1. r.buffer = InlineAt[Static]
      <3>1. IsRaw(r, InlineAt[Static], h)
        BY RawFields
      <3> HIDE DEF r
      <3>2. QED
        BY <3>1 DEF IsRaw
    <2>2. PICK base \in (IF Fits(r, HeadersDst(r), HeadersSize(r)) THEN {r.buffer}
                         ELSE HeapAt \ Freed(Static)) :
            request' = [request EXCEPT ![Static] = CopyHeaders(r, base)]
      BY <1>1 DEF OnHeaders
    <2>3. base \in Int
      <3> HIDE DEF r
      <3>1. QED
        BY <1>0, <2>1, <2>2
    <2>4. CopyHeaders(r, base) \in Requests
      BY <1>0, <2>3, HeadTyped
    <2> HIDE DEF r
    <2>5. QED
      BY <2>2, <2>4, OneTyped
  <1>2. ASSUME MatchPath PROVE request' \in [Objects -> Requests]
    <2>1. get_decoded_path(request[Static]) \in Requests
      BY <1>0, <1>2, PathTyped DEF MatchPath, PhaseInv
    <2>2. request' = [request EXCEPT ![Static] = get_decoded_path(request[Static])]
      BY <1>2 DEF MatchPath
    <2>3. QED
      BY <2>1, <2>2, OneTyped
  <1>3. ASSUME NEW m \in Matches, SetMatchDictEntries(m)
        PROVE  request' \in [Objects -> Requests]
    <2> DEFINE r == FromMatcher(request[Static], m)
    <2>1. r \in Requests
      BY <1>0, RequestAssumption, FromMatcherTyped
    <2>2. PICK base \in Bases(r, InlineAt[Static], DictDst(r), DictSize(r)) :
            request' = [request EXCEPT ![Static] = CopyDict(r, base)]
      BY <1>3 DEF SetMatchDictEntries
    <2> HIDE DEF r
    <2>3. base \in Int
      BY <2>1 DEF Bases, Requests
    <2>4. QED
      BY <2>1, <2>2, <2>3, DictTyped, OneTyped
  <1>4. ASSUME NEW length \in Bodies, SetBody(length) PROVE request' \in [Objects -> Requests]
    <2>1. CASE length = -1
      <3>1. request' = [request EXCEPT ![Static] = [request[Static] EXCEPT !.body = NULL]]
        BY <1>4, <2>1 DEF SetBody
      <3>2. [request[Static] EXCEPT !.body = NULL] \in Requests
        BY <1>0 DEF Requests, NULL
      <3>3. QED
        BY <3>1, <3>2, OneTyped
    <2>2. CASE length # -1
      <3> DEFINE r == FromBody(request[Static], length)
      <3>1. r \in Requests
        BY <1>0, <2>2, RequestAssumption, FromBodyTyped
      <3>2. PICK base \in Bases(r, InlineAt[Static], BodyDst(r), r.body_length) :
              request' = [request EXCEPT ![Static] = CopyBody(r, base)]
        BY <1>4, <2>2 DEF SetBody
      <3> HIDE DEF r
      <3>3. base \in Int
        BY <3>1 DEF Bases, Requests
      <3>4. QED
        BY <3>1, <3>2, <3>3, BodyTyped, OneTyped
    <2>3. QED
      BY <2>1, <2>2
  <1>5. ASSUME NEW o \in Objects, Clone(o) PROVE request' \in [Objects -> Requests]
    <2> DEFINE c == CloneOf(request[Static], InlineAt[Static], InlineAt[o])
               t == Robbed(request[Static], InlineAt[Static])
    <2>1. c \in Requests
      BY <1>0, CloneTyped
    <2>2. t \in Requests
      BY <1>0 DEF Robbed, Requests
    <2>3. request' = [request EXCEPT ![o] = c, ![Static] = t]
      BY <1>5 DEF Clone
    <2> HIDE DEF c, t
    <2>4. QED
      BY <1>0, <2>1, <2>2, <2>3
  <1>6. ASSUME NEW o \in Objects, GetPath(o) PROVE request' \in [Objects -> Requests]
    <2>1. BodyInv(request[o])
      BY <1>0, <1>6 DEF GetPath, PhaseInv
    <2>2. get_decoded_path(request[o]) \in Requests
      BY <1>0, <2>1 DEF get_decoded_path, BodyInv, DictInv, DecodedInv
    <2>3. request' = [request EXCEPT ![o] = get_decoded_path(request[o])]
      BY <1>6 DEF GetPath
    <2>4. QED
      BY <2>2, <2>3, OneTyped
  <1>7. ASSUME NEW o \in Objects, GetQs(o) PROVE request' \in [Objects -> Requests]
    <2>1. DecodedInv(request[o])
      BY <1>0, <1>7 DEF GetQs, PhaseInv, BodyInv, DictInv
    <2>2. request' = [request EXCEPT ![o] = get_decoded_qs(request[o])]
      BY <1>7 DEF GetQs
    <2>3. QED
      BY <1>0, <2>1, <2>2, QsTyped, OneTyped
  <1>8. ASSUME NEW o \in Objects, Dealloc(o) \/ (o = Static /\ DeallocStatic)
        PROVE  request' \in [Objects -> Requests]
    <2>1. request' = [request EXCEPT ![o] = Fresh(InlineAt[o])]
      BY <1>8 DEF Dealloc, DeallocStatic
    <2>2. QED
      BY <1>0, <2>1, FreshTyped, OneTyped
  <1>9. ASSUME Handle \/ UNCHANGED vars PROVE request' \in [Objects -> Requests]
    BY <1>0, <1>9 DEF Handle, vars
  <1>10. QED
    BY <1>1, <1>2, <1>3, <1>4, <1>5, <1>6, <1>7, <1>8, <1>9 DEF Next

\* The types hold together with the invariant.
LEMMA TypedInv == Spec => [](TypeOK /\ Inv)
  <1>1. Init => TypeOK
    <2> SUFFICES ASSUME Init PROVE TypeOK
      OBVIOUS
    <2>1. \A o \in Objects : Fresh(InlineAt[o]) \in Requests
      BY Addresses, FreshTyped
    <2>2. QED
      BY <2>1, InitInv DEF Init, TypeOK, Inv, Shape
  <1>2. TypeOK /\ Inv /\ [Next]_vars => (TypeOK /\ Inv)'
    <2> SUFFICES ASSUME TypeOK, Inv, [Next]_vars PROVE (TypeOK /\ Inv)'
      OBVIOUS
    <2>1. request' \in [Objects -> Requests]
      BY TypeStep
    <2>2. Inv'
      BY NextInv
    <2>3. QED
      BY <2>1, <2>2 DEF TypeOK, Inv, Shape
  <1>3. QED
    BY <1>1, <1>2, InitInv, PTL DEF Spec

-----------------------------------------------------------------------------
(* The results *)

(* Every pointer of a request leads to its part in the request's own       *)
(* buffer, whatever the sizes and whatever addresses the allocator returns *)
(* (bfrcpy, Request_clone).                                                *)
THEOREM PointersAlwaysFollow == Spec => []PointersFollow
  BY InvHolds, InvImplies, PTL

(* The parts never overlap, are aligned and end within the buffer: the     *)
(* growth by the larger of twice the length and the length needed is       *)
(* always enough (bfrcpy).                                                 *)
THEOREM PartsAlwaysFit == Spec => []PartsFit
  BY InvHolds, InvImplies, PTL

(* The path is decoded once and the query found behind it, for every       *)
(* number of escapes (Request_get_decoded_path, Request_get_decoded_qs).   *)
THEOREM AlwaysDecodedOnce == Spec => []DecodedOnce
  BY InvHolds, InvImplies, PTL

(* Every allocated block has exactly one owner, for any number of clones   *)
(* (bfrcpy, Request_clone, Request_dealloc).                               *)
THEOREM BlocksAlwaysOwned == Spec => []BlocksOwned
  BY InvHolds, InvImplies, PTL

(* No length of a request ever gets below zero, however many escapes its   *)
(* path and its query hold and in whatever order they are decoded, and     *)
(* every pointer stays a pointer (Request_get_decoded_path,                *)
(* Request_get_decoded_qs, bfrcpy, Request_clone).                         *)
THEOREM TypeCorrect == Spec => []TypeOK
  BY TypedInv, PTL
=============================================================================
