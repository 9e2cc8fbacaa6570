---------------------------- MODULE PipelineFifo ----------------------------
(***************************************************************************)
(* What a pipeline promises to the protocol that uses it, without slots,   *)
(* indexes, callbacks or references: entries are accepted in request       *)
(* order, complete in any order, and are handed to the writer strictly in  *)
(* the order they were accepted, each exactly once, never before they are  *)
(* complete.  While the process is alive an entry that is next in line and *)
(* complete is eventually handed over.                                     *)
(***************************************************************************)
EXTENDS Naturals, FiniteSets

CONSTANT MaxEntries     \* bound: entries accepted in one behaviour

VARIABLES
    accepted,   \* how many entries were accepted; they are numbered 1..accepted
    complete,   \* the numbers of the accepted entries that hold a result
    handed,     \* how many entries were handed over, always a prefix
    alive       \* FALSE once the process has aborted

vars == <<accepted, complete, handed, alive>>

Init == accepted = 0 /\ complete = {} /\ handed = 0 /\ alive = TRUE

\* An entry joins the line; one that is not a task is complete at once.
Accept ==
    /\ alive
    /\ accepted < MaxEntries
    /\ accepted' = accepted + 1
    /\ complete' \in {complete, complete \union {accepted + 1}}
    /\ UNCHANGED <<handed, alive>>

\* A task returns, raises or is cancelled.
Complete(e) ==
    /\ alive
    /\ e \notin complete
    /\ complete' = complete \union {e}
    /\ UNCHANGED <<accepted, handed, alive>>

\* The writer is given a batch: the next entries in line, all complete.
HandOver(upto) ==
    /\ alive
    /\ upto > handed
    /\ (handed + 1)..upto \subseteq complete
    /\ handed' = upto
    /\ UNCHANGED <<accepted, complete, alive>>

Abort == alive /\ alive' = FALSE /\ UNCHANGED <<accepted, complete, handed>>

Next ==
    \/ Accept
    \/ \E e \in 1..accepted : Complete(e)
    \/ \E upto \in 1..accepted : HandOver(upto)
    \/ Abort

Safety == Init /\ [][Next]_vars
Fairness == WF_vars(\E upto \in 1..accepted : HandOver(upto))

Spec == Safety /\ Fairness
=============================================================================
