------------------------------ MODULE MCRouter ------------------------------
(***************************************************************************)
(* TLC instance of Router.                                                 *)
(***************************************************************************)
EXTENDS Router

\* A method is inside another (LOCK in UNLOCK) or begins another.
LOCK == <<"L">>
UNLOCK == <<"U", "L">>
LOCKS == <<"L", "S">>

MCMethods == {LOCK, UNLOCK, LOCKS}

Root == <<"/">>
Love == <<"/", "a">>
OneValue == <<"/", "{", "p", "}">>
TwoValues == <<"/", "{", "p", "}", "/", "{", "q", "}">>
ValueAndTail == <<"/", "{", "p", "}", "/", "a">>
SameName == <<"/", "{", "p", "}", "/", "{", "p", "}">>
Braces == <<"/", "{", "{", "a", "}", "}">>

\* Every text of up to three of these characters that begins with a slash or a
\* brace as a pattern, and the longer ones with methods.
ShortPatterns ==
  {c \o text : c \in {<<"/">>, <<"{">>}, text \in SeqOf({"/", "{", "}", "a"}, 2)}
MCDeclarations ==
  (ShortPatterns \X {{}})
  \cup ({Love, OneValue} \X {{UNLOCK}, {LOCKS}, {LOCK, LOCKS}})
  \cup ({Love, OneValue, TwoValues, ValueAndTail} \X {{}})
  \cup ({Braces, SameName} \X {{}})

MCTargets ==
  {<<"/">>, <<"/", "b">>, <<"/", "b", "/", "a">>, <<"/", "b", "%2F", "a">>,
   <<"/", "b", "/">>, <<"/", "/", "a">>, <<"/", "a", "?", "b">>, <<"?", "a">>,
   <<"/", "{", "a", "}">>}
=============================================================================
