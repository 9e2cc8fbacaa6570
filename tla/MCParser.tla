------------------------------ MODULE MCParser ------------------------------
(***************************************************************************)
(* TLC instances of Parser.                                                *)
(***************************************************************************)
EXTENDS Parser

Plain == [head |-> 2, transfer |-> "unset", length |-> CONTENT_LENGTH_UNSET,
          chunks |-> << >>, close |-> FALSE, invalid |-> "none"]

\* Every way to frame a body, every way to fail.
AllMessages == {
    Plain,
    [Plain EXCEPT !.head = 1, !.length = 0],
    [Plain EXCEPT !.length = 3],
    [Plain EXCEPT !.transfer = "chunked", !.chunks = <<2, 1>>],
    [Plain EXCEPT !.transfer = "chunked"],
    [Plain EXCEPT !.transfer = "chunked", !.chunks = <<1>>, !.invalid = "body"],
    [Plain EXCEPT !.transfer = "identity"],
    [Plain EXCEPT !.close = TRUE],
    [Plain EXCEPT !.invalid = "head"]}
=============================================================================
