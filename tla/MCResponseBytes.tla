-------------------------- MODULE MCResponseBytes --------------------------
(***************************************************************************)
(* TLC instance of ResponseBytes.                                          *)
(***************************************************************************)
EXTENDS ResponseBytes

Clients == Permutations(Connections)

Hello == [body |-> "hello", size |-> 1, simple |-> TRUE, plain |-> TRUE, minor_version |-> 1]

\* Two bodies that may be cached where there is place for one, and one of them
\* with a code or headers of its own, and for a client of HTTP/1.0.
MCResponses ==
  {Hello, [Hello EXCEPT !.plain = FALSE], [Hello EXCEPT !.minor_version = 0],
   [Hello EXCEPT !.body = "bye", !.size = 2]}
=============================================================================
