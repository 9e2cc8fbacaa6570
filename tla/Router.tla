------------------------------- MODULE Router -------------------------------
(***************************************************************************)
(* Routes and their matcher: router/route.py parses a pattern into         *)
(* segments, router/__init__.py collects routes and compiles a matcher     *)
(* from those added so far, router/cmatcher.c finds the route of a         *)
(* request.                                                                *)
(*                                                                         *)
(* A text is a sequence of characters, a character a one-letter string.    *)
(* In a request target "%2F" is one element and stands for the three bytes *)
(* of an encoded slash.                                                    *)
(***************************************************************************)
EXTENDS Naturals, Sequences, SequencesExt, FiniteSetsExt

CONSTANTS
  Declarations,  \* <<pattern, set of methods>> pairs given to add_route
  Targets,       \* request targets
  Methods,       \* request methods
  MaxRoutes      \* bound on the number of routes

\* A method is a token: without the space that compile puts behind each method.
IsToken(method) == method \in Seq(STRING) /\ ~Contains(method, " ")

ASSUME RouterAssumption ==
  /\ \A declaration \in Declarations :
       /\ declaration[1] \in Seq(STRING)
       /\ IsFiniteSet(declaration[2])
       /\ \A method \in declaration[2] : IsToken(method) /\ method # <<>>
  /\ Targets \subseteq Seq(STRING)
  /\ \A method \in Methods : IsToken(method)
  /\ MaxRoutes \in Nat

VARIABLES
  routes,   \* Router._routes: what was added, with its parsed segments
  matcher,  \* Matcher.buffer: the entries compiled by the last get_matcher
  outcome   \* what the last call of match_request was given and found

vars == <<routes, matcher, outcome>>

-----------------------------------------------------------------------------
(* Patterns *)

Exact(text) == [type |-> "exact", data |-> text]
Placeholder(name) == [type |-> "placeholder", data |-> name]

Flush(p) ==
  IF p.text = <<>> THEN p
  ELSE [p EXCEPT !.segments = Append(@, Exact(p.text)), !.text = <<>>]

\* name, _, rest = rest.partition('}'), with the duplicate check
\* Mutant: a name may be used twice.
CloseNameTwice(p) ==
  [p EXCEPT !.mode = "closed", !.segments = Append(@, Placeholder(p.name))]
CloseName(p) ==
  IF Placeholder(p.name) \in Range(p.segments)
    THEN [p EXCEPT !.mode = "error"]
    ELSE [p EXCEPT !.mode = "closed", !.segments = Append(@, Placeholder(p.name))]

ReadName(p, c) ==
  IF c = "}" THEN CloseName(p) ELSE [p EXCEPT !.name = Append(@, c)]

\* Outside of braces "{{" stands for "{" and "}}" for "}"; half says that the
\* last character is a "}" that is not yet one of a pair.
\* Mutant: "}}" stays as it is.
ReadCharPairKept(p, c) ==
  CASE p.mode = "error" -> p
    [] p.mode = "exact" /\ c = "{" -> [p EXCEPT !.mode = "open"]
    [] p.mode = "exact" /\ c # "{" -> [p EXCEPT !.text = Append(@, c)]
    [] p.mode = "open" /\ c = "{" -> [p EXCEPT !.mode = "exact", !.text = Append(@, "{")]
    [] p.mode = "open" /\ c # "{" ->
         ReadName([Flush(p) EXCEPT !.mode = "name", !.name = <<>>], c)
    [] p.mode = "name" -> ReadName(p, c)
    [] p.mode = "closed" ->
         IF c = "/" THEN [p EXCEPT !.mode = "exact", !.text = <<"/">>]
         ELSE [p EXCEPT !.mode = "error"]
ReadChar(p, c) ==
  CASE p.mode = "error" -> p
    [] p.mode = "exact" /\ c = "{" -> [p EXCEPT !.mode = "open", !.half = FALSE]
    [] p.mode = "exact" /\ c = "}" /\ p.half -> [p EXCEPT !.half = FALSE]
    [] p.mode = "exact" /\ c # "{" /\ ~(c = "}" /\ p.half) ->
         [p EXCEPT !.text = Append(@, c), !.half = (c = "}")]
    [] p.mode = "open" /\ c = "{" ->
         [p EXCEPT !.mode = "exact", !.text = Append(@, "{")]
    [] p.mode = "open" /\ c # "{" ->
         ReadName([Flush(p) EXCEPT !.mode = "name", !.name = <<>>], c)
    [] p.mode = "name" -> ReadName(p, c)
    [] p.mode = "closed" /\ c = "/" ->
         [p EXCEPT !.mode = "exact", !.text = <<"/">>]
    [] p.mode = "closed" /\ c # "/" -> [p EXCEPT !.mode = "error"]

Start == [mode |-> "exact", half |-> FALSE, text |-> <<>>, name |-> <<>>,
          segments |-> <<>>]

\* A lone "{" at the end is dropped: it is still "open" here.
Parse(pattern) == Flush(FoldLeft(ReadChar, Start, pattern))

Parses(pattern) == Parse(pattern).mode \notin {"error", "name"}

\* The text that a list of segments is parsed from
Escape(text) ==
  FlattenSeq([i \in DOMAIN text |->
                IF text[i] \in {"{", "}"} THEN <<text[i], text[i]>> ELSE <<text[i]>>])
Write(segments) ==
  FlattenSeq([i \in DOMAIN segments |->
                IF segments[i].type = "exact" THEN Escape(segments[i].data)
                ELSE <<"{">> \o segments[i].data \o <<"}">>])

IsPlaceholder(segment) == segment.type = "placeholder"
PlaceholderCount(segments) == Cardinality({i \in DOMAIN segments : IsPlaceholder(segments[i])})

-----------------------------------------------------------------------------
(* Matching *)

\* Request_get_decoded_path: up to the "?", with the escapes decoded
Decode(target) ==
  LET cut == {i \in DOMAIN target : target[i] = "?"}
      path == IF cut = {} THEN target ELSE SubSeq(target, 1, Min(cut) - 1)
  IN [i \in DOMAIN path |-> IF path[i] = "%2F" THEN "/" ELSE path[i]]

\* memchr(rest, '/', rest_len): the length of the text before the first slash
ValueLength(rest) ==
  LET slashes == {i \in DOMAIN rest : rest[i] = "/"}
  IN IF slashes = {} THEN Len(rest) ELSE Min(slashes) - 1

\* One turn of SEGMENT_LOOP; left: the loop was left by a break
\* Mutant: an exact segment is not compared, only its length is.
ReadSegmentUnchecked(m, s) ==
  LET n == IF IsPlaceholder(s) THEN ValueLength(m.rest) ELSE Len(s.data)
      rest == SubSeq(m.rest, n + 1, Len(m.rest))
  IN CASE m.left -> m
       [] ~m.left /\ ~IsPlaceholder(s) ->
            IF Len(s.data) <= Len(m.rest) THEN [m EXCEPT !.rest = rest]
            ELSE [m EXCEPT !.left = TRUE]
       [] ~m.left /\ IsPlaceholder(s) ->
            IF n = 0 THEN [m EXCEPT !.left = TRUE, !.empty = TRUE]
            ELSE [m EXCEPT !.rest = rest,
                           !.dict = Append(@, <<s.data, SubSeq(m.rest, 1, n)>>)]
ReadSegment(m, s) ==
  LET n == IF IsPlaceholder(s) THEN ValueLength(m.rest) ELSE Len(s.data)
      rest == SubSeq(m.rest, n + 1, Len(m.rest))
  IN CASE m.left -> m
       [] ~m.left /\ ~IsPlaceholder(s) ->
            IF IsPrefix(s.data, m.rest) THEN [m EXCEPT !.rest = rest]
            ELSE [m EXCEPT !.left = TRUE]
       [] ~m.left /\ IsPlaceholder(s) ->
            IF n = 0 THEN [m EXCEPT !.left = TRUE, !.empty = TRUE]
            ELSE [m EXCEPT !.rest = rest,
                           !.dict = Append(@, <<s.data, SubSeq(m.rest, 1, n)>>)]

MatchSegments(segments, path) ==
  FoldLeft(ReadSegment, [rest |-> path, empty |-> FALSE, left |-> FALSE, dict |-> <<>>],
           segments)

\* memmem finds the method in the joined methods; a space must follow it.
\* Mutant: the character after the method is not looked at.
MethodFoundInside(text, method) == method \in SubSeqs(text)
MethodFound(text, method) ==
  /\ method \in SubSeqs(text)
  /\ text[IndexFirstSubSeq(method, text) + Len(method)] = " "

EntryMatches(entry, path, method) ==
  LET m == MatchSegments(entry.segments, path) IN
  /\ m.rest = <<>>
  /\ ~m.empty
  /\ Len(m.dict) = entry.placeholder_cnt
  /\ entry.methods = <<>> \/ MethodFound(entry.methods, method)

\* Mutant: the last of the matching entries is taken.
MatchLast(entries, path, method) ==
  LET fits == {i \in DOMAIN entries : EntryMatches(entries[i], path, method)}
  IN IF fits = {} THEN 0 ELSE CHOOSE i \in fits : \A j \in fits : j <= i
\* The index of the entry found, 0 for none
Match(entries, path, method) ==
  LET fits == {i \in DOMAIN entries : EntryMatches(entries[i], path, method)}
  IN IF fits = {} THEN 0 ELSE Min(fits)

-----------------------------------------------------------------------------
(* The router *)

NoOutcome == [path |-> <<>>, method |-> <<>>, found |-> 0, dict |-> <<>>]

Init ==
  /\ routes = <<>>
  /\ matcher = <<>>
  /\ outcome = NoOutcome

\* Router.add_route; a pattern that does not parse raises and adds nothing.
\* The methods are a set: the order it is walked in is arbitrary, but fixed.
AddRoute(pattern, methods) ==
  /\ Len(routes) < MaxRoutes
  /\ Parses(pattern)
  /\ \E order \in SetToSeqs(methods) :
       routes' = Append(routes, [segments |-> Parse(pattern).segments,
                                 methods |-> order])
  /\ UNCHANGED <<matcher, outcome>>

\* compile: the methods are joined with spaces, with one at the end.
Compile(route) ==
  [segments |-> route.segments,
   methods |-> FlattenSeq([i \in DOMAIN route.methods |-> Append(route.methods[i], " ")]),
   placeholder_cnt |-> PlaceholderCount(route.segments)]

\* Router.get_matcher: Matcher_init compiles the routes added so far.
GetMatcher ==
  /\ matcher' = [i \in DOMAIN routes |-> Compile(routes[i])]
  /\ outcome' = NoOutcome
  /\ UNCHANGED routes

\* Matcher_match_request
MatchRequest(target, method) ==
  /\ LET path == Decode(target)
         found == Match(matcher, path, method)
     IN outcome' = [path |-> path, method |-> method, found |-> found,
                    dict |-> IF found = 0 THEN <<>>
                             ELSE MatchSegments(matcher[found].segments, path).dict]
  /\ UNCHANGED <<routes, matcher>>

Next ==
  \/ \E declaration \in Declarations : AddRoute(declaration[1], declaration[2])
  \/ GetMatcher
  \/ \E target \in Targets, method \in Methods : MatchRequest(target, method)

Spec == Init /\ [][Next]_vars

-----------------------------------------------------------------------------
(* Properties *)

Found == matcher[outcome.found]

\* The pattern with its placeholders replaced by the values, in order
Filled(segments, values) ==
  FlattenSeq([i \in DOMAIN segments |->
                IF IsPlaceholder(segments[i])
                  THEN values[PlaceholderCount(SubSeq(segments, 1, i))]
                  ELSE segments[i].data])

\* The names of the placeholders, in order
AddName(names, segment) ==
  IF IsPlaceholder(segment) THEN Append(names, segment.data) ELSE names
Names(segments) == FoldLeft(AddName, <<>>, segments)

ValueOK(value) == value # <<>> /\ ~Contains(value, "/")

\* Segments alternate: no two exact ones in a row, none of them empty, and
\* after a placeholder comes nothing or a slash.
WellFormed(segments) ==
  /\ \A i \in DOMAIN segments : IsPlaceholder(segments[i]) \/ segments[i].data # <<>>
  /\ \A i \in 2..Len(segments) :
       IF IsPlaceholder(segments[i]) THEN ~IsPlaceholder(segments[i - 1])
       ELSE IsPlaceholder(segments[i - 1]) /\ segments[i].data[1] = "/"

(* Router._routes, Matcher.buffer and the result of match_request have the  *)
(* shape the matcher relies on (parse, Matcher_match_request).              *)
TypeOK ==
  /\ Len(routes) <= MaxRoutes
  /\ \A i \in DOMAIN routes : /\ WellFormed(routes[i].segments)
                              /\ IsInjective(Names(routes[i].segments))
  /\ Len(matcher) <= Len(routes)
  /\ outcome.found \in 0..Len(matcher)

(* A parsed pattern loses nothing: its segments, written with the braces    *)
(* doubled, parse to the same segments (parse in route.py).                 *)
ParseKeepsMeaning ==
  \A i \in DOMAIN routes :
    Parse(Write(routes[i].segments)).segments = routes[i].segments

\* A request reaches a route only when its path is the pattern with nonempty
\* values without a slash in place of the placeholders, and the match dictionary
\* holds these values under their names, where at most the segments after the last
\* placeholder may be missing (Matcher_match_request looks at what is left of the
\* path, not of the pattern).
FoundCoversPath ==
  outcome.found # 0 =>
    LET segments == Found.segments
        values == [i \in DOMAIN outcome.dict |-> outcome.dict[i][2]]
    IN /\ [i \in DOMAIN outcome.dict |-> outcome.dict[i][1]] = Names(segments)
       /\ \A i \in DOMAIN values : ValueOK(values[i])
       /\ \E n \in 0..Len(segments) :
            /\ \A i \in n+1..Len(segments) : ~IsPlaceholder(segments[i])
            /\ Filled(SubSeq(segments, 1, n), values) = outcome.path

\* A request reaches a route with methods only when its method is one of them or
\* ends one of them: memmem looks for it in the joined text.
FoundAcceptsMethod ==
  outcome.found # 0 =>
    LET methods == Range(routes[outcome.found].methods)
    IN methods = {} \/ \E m \in methods : IsSuffix(outcome.method, m)

(* The route that a request reaches is one for it: what the compiled bytes  *)
(* and lengths lead Matcher_match_request to, with the dictionary it fills. *)
FoundFits == FoundCoversPath /\ FoundAcceptsMethod

\* The route was declared for this request, and no other method of it has the
\* request's method inside.
Declared(route, path, method) ==
  /\ \E values \in [1..PlaceholderCount(route.segments) ->
                      {v \in SubSeqs(path) : ValueOK(v)}] :
       Filled(route.segments, values) = path
  /\ \/ route.methods = <<>>
     \/ /\ method \in Range(route.methods)
        /\ \A other \in Range(route.methods) \ {method} : method \notin SubSeqs(other)

(* The first route declared for a request is found unless an earlier one    *)
(* is: none of the routes before the one found, and none at all when none   *)
(* is found, was declared for it (Matcher_match_request).                   *)
NoneSkipped ==
  outcome # NoOutcome =>
    \A i \in DOMAIN matcher :
      Declared(routes[i], outcome.path, outcome.method) =>
        outcome.found # 0 /\ outcome.found <= i

(* What the tutorial says of a route: a request that reaches it has a path  *)
(* that is the whole pattern, the placeholders replaced by the values.      *)
PathIsPattern ==
  outcome.found # 0 =>
    Filled(Found.segments, [i \in DOMAIN outcome.dict |-> outcome.dict[i][2]])
      = outcome.path
=============================================================================
