---------------------------- MODULE MCConnection ----------------------------
(***************************************************************************)
(* TLC instances of Connection.                                            *)
(***************************************************************************)
EXTENDS Connection

\* "close", "Close", "close, TE", "keep-alive" and "Keep-Alive".
Value(whole, inside) == [whole |-> whole, inside |-> inside]
MCValues ==
    {Value("close", {"close"}), Value("close", {}), Value("other", {"close"}),
     Value("keep-alive", {"keep-alive"}), Value("keep-alive", {})}

\* HTTP/1.0 and HTTP/1.1 with no, one or two Connection headers.
MCHeads == [minor_version : {0, 1}, values : SeqOf(MCValues, 2)]

\* HTTP/1.1 without the header.
KeepAliveOnly == {[minor_version |-> 1, values |-> << >>]}
=============================================================================
