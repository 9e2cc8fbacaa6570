----------------------------- MODULE MCRequest -----------------------------
(***************************************************************************)
(* TLC instance of Request, with the sizes of crequest.h.                  *)
(***************************************************************************)
EXTENDS Request

MCInlineAt == [o \in Objects |-> 4096 * o]
MCHeapAt == {65536, 131072, 262144}

\* A target without headers, one with headers and a query, and a head that
\* does not fit the inline buffer.
MCHeads ==
  {[path |-> 4, path_len |-> 12, escapes |-> 2, nested |-> 1, qs_len |-> 9, qs_escapes |-> 2,
    num_headers |-> 0, value |-> 0, value_len |-> 0],
   [path |-> 5, path_len |-> 7, escapes |-> 1, nested |-> 0, qs_len |-> 5, qs_escapes |-> 1,
    num_headers |-> 3, value |-> 91, value_len |-> 12],
   [path |-> 4, path_len |-> 1, escapes |-> 0, nested |-> 0, qs_len |-> 0, qs_escapes |-> 0,
    num_headers |-> 30, value |-> 700, value_len |-> 3]}

MCBodies == {-1, 0, 800, 5000}
MCMatches == {[length |-> 0, value |-> 0], [length |-> 1, value |-> 1], [length |-> 10, value |-> 1]}
=============================================================================
