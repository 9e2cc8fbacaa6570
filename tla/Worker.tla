------------------------------- MODULE Worker -------------------------------
(***************************************************************************)
(* A worker process from the first connection to its end: Application.serve*)
(* and Application.drain (app/__init__.py), with the reaper, which runs    *)
(* until the drain is over.                                                *)
(*                                                                         *)
(* SIGTERM stops the event loop; serve then closes the listening socket    *)
(* and runs the loop again for drain: it closes the connections with       *)
(* nothing in their pipeline, looks again every second and after           *)
(* DRAIN_SECONDS cancels what is still running.  Until then the busy       *)
(* connections are read and may start more work.  pending is the length of *)
(* a connection's pipeline, see Pipeline.                                  *)
(***************************************************************************)
EXTENDS Reaper

CONSTANTS
    DRAIN_SECONDS,  \* 5 in drain
    MaxPending      \* bound: entries of a pipeline

ASSUME WorkerAssumption == DRAIN_SECONDS \in Nat \ {0} /\ MaxPending \in Nat

VARIABLES
    phase,      \* how far serve is; "aborted" when it ended by an exception
    countdown,  \* x in drain
    due,        \* drain's sleep of a second is over
    pending,    \* entries in the pipeline of each connection
    cancelled,  \* history: connections whose work drain cancelled
    drained     \* history: seconds since drain began

drain_vars == <<phase, countdown, due, pending, cancelled, drained>>
all_vars == <<reaper_vars, drain_vars>>

LoopRuns == phase \in {"serving", "stopping", "draining"}

\* _get_idle_and_busy_connections
idle_connections == {c \in Present : pending[c] = 0}
busy_connections == {c \in Present : pending[c] > 0}

\* What drain closes: closing twice changes nothing.
IdleToClose == {c \in idle_connections : state[c] = "open"}

WorkerInit ==
    /\ ReaperInit
    /\ phase = "serving"
    /\ countdown = DRAIN_SECONDS
    /\ due = FALSE
    /\ pending = [c \in Connections |-> 0]
    /\ cancelled = {}
    /\ drained = 0

\* The listening socket is closed first: no connection is made after SIGTERM.
Connect(c) ==
    /\ phase = "serving"
    /\ ConnectionMade(c)
    /\ UNCHANGED drain_vars

\* A request is read; started: it is in the pipeline, not answered at once.
Read(c, started) ==
    /\ LoopRuns
    /\ DataReceived(c)
    /\ pending[c] + started <= MaxPending
    /\ pending' = [pending EXCEPT ![c] = @ + started]
    /\ UNCHANGED <<phase, countdown, due, cancelled, drained>>

\* A handler is done and its response leaves the pipeline.
Finish(c) ==
    /\ LoopRuns
    /\ pending[c] > 0
    /\ pending' = [pending EXCEPT ![c] = @ - 1]
    /\ UNCHANGED <<reaper_vars, phase, countdown, due, cancelled, drained>>

\* A response without keep-alive, or an error of the parser, closes.
CloseOne(c) ==
    /\ LoopRuns
    /\ state[c] = "open" /\ CloseSome({c})
    /\ UNCHANGED drain_vars

\* connection_lost cancels what is in the pipeline.
Lost(c) ==
    /\ LoopRuns
    /\ ConnectionLost(c)
    /\ pending' = [pending EXCEPT ![c] = 0]
    /\ UNCHANGED <<phase, countdown, due, cancelled, drained>>

Check ==
    /\ LoopRuns
    /\ CheckIdle
    /\ UNCHANGED drain_vars

\* Time passes: in seconds, and never past the end of drain's sleep.
Second ==
    /\ phase \in {"serving", "draining"}
    /\ ~due
    /\ Tick
    /\ phase = "serving" => \A c \in Present : silent[c] + DRAIN_SECONDS < MaxSilence
    /\ due' = (phase = "draining")
    /\ drained' = IF phase = "draining" THEN drained + 1 ELSE drained
    /\ UNCHANGED <<phase, countdown, pending, cancelled>>

\* SIGTERM or SIGINT: loop.stop ends run_forever ...
Terminate ==
    /\ phase = "serving"
    /\ phase' = "stopping"
    /\ UNCHANGED <<reaper_vars, countdown, due, pending, cancelled, drained>>

\* ... and, a second time, run_until_complete, with a RuntimeError: drain and
\* what follows it are not done.
TerminateAgain ==
    /\ phase \in {"stopping", "draining"}
    /\ phase' = "aborted"
    /\ UNCHANGED <<reaper_vars, countdown, due, pending, cancelled, drained>>

\* drain begins, once the server is closed: without connections it is over.
DrainBegins ==
    /\ phase = "stopping"
    /\ CloseSome(IdleToClose)
    /\ phase' = IF Present = {} THEN "drained" ELSE "draining"
    /\ UNCHANGED <<countdown, due, pending, cancelled, drained>>

\* The body of drain's loop, and what follows it when none is busy or the time
\* is up.
\* Mutant: the busy connections are not looked at.
DrainSecondHasty ==
    /\ phase = "draining" /\ due
    /\ CloseSome(IdleToClose)
    /\ countdown' = countdown - 1
    /\ due' = FALSE
    /\ phase' = IF countdown = 1 \/ idle_connections # {} THEN "drained" ELSE "draining"
    /\ cancelled' = IF countdown = 1 THEN busy_connections ELSE {}
    /\ UNCHANGED <<pending, drained>>

\* Mutant: the range ends a second early.
DrainSecondShort ==
    /\ phase = "draining" /\ due
    /\ CloseSome(IdleToClose)
    /\ countdown' = countdown - 1
    /\ due' = FALSE
    /\ phase' = IF busy_connections = {} \/ countdown <= 2 THEN "drained" ELSE "draining"
    /\ cancelled' = IF countdown <= 2 THEN busy_connections ELSE {}
    /\ UNCHANGED <<pending, drained>>

\* Mutant: the loop runs on while a connection is busy.
DrainSecondPatient ==
    /\ phase = "draining" /\ due
    /\ CloseSome(IdleToClose)
    /\ due' = FALSE
    /\ phase' = IF busy_connections = {} THEN "drained" ELSE "draining"
    /\ UNCHANGED <<countdown, pending, cancelled, drained>>

\* Mutant: the range counts down past 1.
DrainSecondPast ==
    /\ phase = "draining" /\ due
    /\ CloseSome(IdleToClose)
    /\ countdown' = countdown - 1
    /\ due' = FALSE
    /\ phase' = IF busy_connections = {} \/ countdown = 0 THEN "drained" ELSE "draining"
    /\ cancelled' = IF countdown = 0 THEN busy_connections ELSE {}
    /\ UNCHANGED <<pending, drained>>

DrainSecond ==
    /\ phase = "draining" /\ due
    /\ CloseSome(IdleToClose)
    /\ countdown' = countdown - 1
    /\ due' = FALSE
    /\ phase' = IF busy_connections = {} \/ countdown = 1 THEN "drained" ELSE "draining"
    /\ cancelled' = IF countdown = 1 THEN busy_connections ELSE {}
    /\ UNCHANGED <<pending, drained>>

\* The rest of serve: the reaper is stopped and the loop closed.
StopReaper ==
    /\ phase = "drained"
    /\ Stop
    /\ phase' = "stopped"
    /\ UNCHANGED <<countdown, due, pending, cancelled, drained>>

WorkerNext ==
    \/ \E c \in Connections :
          \/ Connect(c) \/ Finish(c) \/ CloseOne(c) \/ Lost(c)
          \/ \E started \in {0, 1} : Read(c, started)
    \/ Check
    \/ Second
    \/ Terminate \/ TerminateAgain
    \/ DrainBegins \/ DrainSecond
    \/ StopReaper

\* The event loop is never blocked for good: timers fire and coroutines go on.
WorkerFairness ==
    /\ WF_all_vars(Second) /\ WF_all_vars(Check)
    /\ WF_all_vars(DrainBegins) /\ WF_all_vars(DrainSecond) /\ WF_all_vars(StopReaper)

WorkerSpec == WorkerInit /\ [][WorkerNext]_all_vars /\ WorkerFairness

------------------------------------------------------------------------------
DrainTypeOK ==
    /\ phase \in {"serving", "stopping", "draining", "drained", "stopped", "aborted"}
    /\ countdown \in 0..DRAIN_SECONDS
    /\ due \in BOOLEAN
    /\ pending \in [Connections -> 0..MaxPending]
    /\ cancelled \subseteq Connections
    /\ drained \in 0..DRAIN_SECONDS

WorkerTypeOK == ReaperTypeOK /\ DrainTypeOK

\* A worker that stopped left nothing behind: every connection it still has was
\* closed, or had work that drain cancelled, and what runs on was cancelled (drain
\* in app/__init__.py; requests may arrive while it waits).
NothingLeftBehind ==
    phase = "stopped" =>
        /\ \A c \in Present : state[c] # "open" \/ c \in cancelled
        /\ busy_connections \subseteq cancelled

\* Work is cancelled only after all of the time drain gives it, and drain does not
\* wait longer than that (the loop over range(5, 0, -1) in drain).
GraceGiven ==
    /\ cancelled # {} => drained = DRAIN_SECONDS
    /\ phase = "draining" => drained + countdown = DRAIN_SECONDS + (IF due THEN 1 ELSE 0)

\* A worker told to terminate does, whatever its connections do (serve, drain).
Terminates == phase = "stopping" ~> phase \in {"stopped", "aborted"}
=============================================================================
