------------------------------ MODULE Processes ------------------------------
(***************************************************************************)
(* The processes of a running application and the signals between them:    *)
(* the reloader (reloader.py), the master (Application._run), its workers  *)
(* (Application.serve) and the change detector, a thread of each worker.   *)
(*                                                                         *)
(* A signal is pending until the process handles it between two of its     *)
(* steps; one that is pending already is not queued again, and those that  *)
(* are pending when the process ends are gone.  What a worker does         *)
(* between loop.stop and its end is Worker's drain, which ends by itself,  *)
(* see Worker!Terminates.                                                  *)
(***************************************************************************)
EXTENDS Naturals

CONSTANTS
    worker_num,
    MaxGenerations,  \* bound: children of the reloader
    MaxRequests      \* bound: signals and edits from outside

ASSUME ProcessesAssumption ==
    /\ worker_num \in Nat \ {0}
    /\ MaxGenerations \in Nat \ {0} /\ MaxRequests \in Nat

Workers == 1..worker_num  \* in the order they are started
Signals == {"SIGINT", "SIGTERM", "SIGHUP"}

VARIABLES
    reload,      \* --reload was given
    reloader,    \* "none" without it
    quitting,    \* the reloader's terminating
    child,       \* which child the reloader's name stands for, 0: unbound
    generation,  \* children started
    master,
    returncode,  \* the master's once it exited
    workers,     \* the master's set
    worker,
    dirty,       \* workers whose detector is going to see a changed file
    notifying,   \* workers whose detector has still to signal the master
    to_reloader, to_master, to_worker,  \* pending signals
    requests,    \* signals and edits from outside so far
    interrupted, \* history: one was a ctrl-C, which every process gets
    heeded,      \* history: the system was told to end when it was up
    renewing     \* history: the generation told to reload when it was up

reloader_vars == <<reload, reloader, quitting, child, generation>>
master_vars == <<master, returncode, workers>>
worker_vars == <<worker, dirty, notifying>>
signal_vars == <<to_reloader, to_master, to_worker>>
history_vars == <<requests, interrupted, heeded, renewing>>
vars == <<reloader_vars, master_vars, worker_vars, signal_vars, history_vars>>

LiveReloader == reloader \in {"launching", "waiting"}
LiveMaster == master \in {"booting", "forking", "joining"}
Live(w) == worker[w] \in {"starting", "serving", "stopping", "draining"}

\* Everything is running, nothing has been told to stop.
Up ==
    /\ master = "joining" /\ \A w \in Workers : worker[w] = "serving"
    /\ reload => reloader = "waiting"

Ended == ~LiveReloader /\ ~LiveMaster /\ \A w \in Workers : ~Live(w)

Init ==
    /\ reload \in BOOLEAN
    /\ reloader = (IF reload THEN "launching" ELSE "none")
    /\ quitting = FALSE /\ child = 0
    /\ generation = (IF reload THEN 0 ELSE 1)
    /\ master = (IF reload THEN "absent" ELSE "booting")
    /\ returncode = 0 /\ workers = {}
    /\ worker = [w \in Workers |-> "absent"]
    /\ dirty = {} /\ notifying = {}
    /\ to_reloader = {} /\ to_master = {}
    /\ to_worker = [w \in Workers |-> {}]
    /\ requests = 0 /\ interrupted = FALSE /\ heeded = FALSE /\ renewing = 0

\* Process.terminate for each worker of W: nothing happens to one that ended.
Terminated(W) ==
    [w \in Workers |-> to_worker[w] \cup
        (IF w \in W /\ Live(w) THEN {"SIGTERM"} ELSE {})]

------------------------------------------------------------------------------
\* Outside: a signal for the process that was started by hand, which treats
\* SIGINT as it does SIGTERM ...
Ask(sig) ==
    /\ requests < MaxRequests
    /\ IF reload
       THEN /\ LiveReloader
            /\ to_reloader' = to_reloader \cup {sig}
            /\ UNCHANGED to_master
       ELSE /\ LiveMaster
            /\ to_master' = to_master \cup {sig}
            /\ UNCHANGED to_reloader
    /\ requests' = requests + 1
    /\ UNCHANGED <<reloader_vars, master_vars, worker_vars, to_worker,
                   interrupted, heeded, renewing>>

\* ... a ctrl-C in the terminal ...
Interrupt ==
    /\ requests < MaxRequests /\ ~Ended
    /\ to_reloader' = to_reloader \cup {s \in {"SIGINT"} : LiveReloader}
    /\ to_master' = to_master \cup {s \in {"SIGINT"} : LiveMaster}
    /\ to_worker' = [w \in Workers |-> to_worker[w] \cup {s \in {"SIGINT"} : Live(w)}]
    /\ requests' = requests + 1 /\ interrupted' = TRUE
    /\ UNCHANGED <<reloader_vars, master_vars, worker_vars, heeded, renewing>>

\* ... and a source file that is written: a detector that has looked at the
\* files before sees the change.
Edit ==
    /\ reload /\ requests < MaxRequests
    /\ dirty' = {w \in Workers : worker[w] = "serving"}
    /\ dirty' # {}
    /\ requests' = requests + 1
    /\ renewing' = IF Up THEN generation ELSE renewing
    /\ UNCHANGED <<reloader_vars, master_vars, worker, notifying, signal_vars,
                   interrupted, heeded>>

------------------------------------------------------------------------------
\* The reloader: subprocess.Popen starts the child before it is bound to a name.
Popen ==
    /\ reloader = "launching" /\ child = generation
    /\ generation < MaxGenerations
    /\ generation' = generation + 1
    /\ master' = "booting" /\ returncode' = 0 /\ workers' = {}
    /\ worker' = [w \in Workers |-> "absent"]
    /\ dirty' = {} /\ notifying' = {}
    /\ to_master' = {} /\ to_worker' = [w \in Workers |-> {}]
    /\ UNCHANGED <<reload, reloader, quitting, child, to_reloader, history_vars>>

PopenReturns ==
    /\ reloader = "launching" /\ child # generation
    /\ child' = generation /\ reloader' = "waiting"
    /\ UNCHANGED <<reload, quitting, generation, master_vars, worker_vars,
                   signal_vars, history_vars>>

\* Mutant: the loop does not look at terminating.
ChildDoneAgain ==
    /\ reloader = "waiting" /\ ~LiveMaster
    /\ reloader' = IF returncode = 0 THEN "launching" ELSE "exited"
    /\ UNCHANGED <<reload, quitting, child, generation, master_vars, worker_vars,
                   signal_vars, history_vars>>

\* child.wait returned: another round, or the end.
ChildDone ==
    /\ reloader = "waiting" /\ ~LiveMaster
    /\ reloader' = IF returncode = 0 /\ ~quitting THEN "launching" ELSE "exited"
    /\ UNCHANGED <<reload, quitting, child, generation, master_vars, worker_vars,
                   signal_vars, history_vars>>

\* signal_received in the reloader.  It hands the signal to the child it knows,
\* which may be the one before; with none the handler raises and ends it.
ReloaderSignal(sig) ==
    /\ LiveReloader /\ sig \in to_reloader
    /\ to_reloader' = to_reloader \ {sig}
    /\ quitting' = (quitting \/ sig # "SIGHUP")
    /\ reloader' = IF child = 0 THEN "crashed" ELSE reloader
    /\ to_master' = to_master \cup
          {s \in {IF sig = "SIGHUP" THEN "SIGHUP" ELSE "SIGTERM"} :
              child # 0 /\ child = generation /\ LiveMaster}
    /\ heeded' = (heeded \/ (Up /\ sig # "SIGHUP"))
    /\ UNCHANGED <<reload, child, generation, master_vars, worker_vars, to_worker,
                   requests, interrupted, renewing>>

------------------------------------------------------------------------------
\* The master, until its handlers are set: any signal ends it, and so may the
\* application's own code.
BootFails ==
    /\ master = "booting"
    /\ master' = "exited" /\ returncode' = 1
    /\ to_master' = {}
    /\ UNCHANGED <<reloader_vars, workers, worker_vars, to_reloader, to_worker,
                   history_vars>>

BootSignal ==
    /\ to_master # {} /\ BootFails

SetHandlers ==
    /\ master = "booting"
    /\ master' = "forking"
    /\ UNCHANGED <<reloader_vars, returncode, workers, worker_vars, signal_vars,
                   history_vars>>

\* worker.start(), in turn ...
StartWorker(w) ==
    /\ master = "forking"
    /\ workers = 1..(w - 1) /\ worker[w] = "absent"
    /\ worker' = [worker EXCEPT ![w] = "starting"]
    /\ UNCHANGED <<reloader_vars, master_vars, dirty, notifying, signal_vars,
                   history_vars>>

\* ... and workers.add(worker).
AddWorker(w) ==
    /\ master = "forking"
    /\ workers = 1..(w - 1) /\ worker[w] # "absent"
    /\ workers' = workers \cup {w}
    /\ UNCHANGED <<reloader_vars, master, returncode, worker_vars, signal_vars,
                   history_vars>>

JoinBegins ==
    /\ master = "forking" /\ workers = Workers
    /\ master' = "joining"
    /\ UNCHANGED <<reloader_vars, returncode, workers, worker_vars, signal_vars,
                   history_vars>>

\* Mutant: the workers are sent the signal the master received.
MasterSignalForwards(sig) ==
    /\ master \in {"forking", "joining"} /\ sig \in to_master
    /\ to_master' = to_master \ {sig}
    /\ to_worker' = [w \in Workers |-> to_worker[w] \cup
                        {s \in {sig} : w \in workers /\ Live(w)}]
    /\ heeded' = (heeded \/ (Up /\ ~reload))
    /\ renewing' = IF Up /\ reload /\ sig = "SIGHUP" THEN generation ELSE renewing
    /\ UNCHANGED <<reloader_vars, master_vars, worker_vars, to_reloader,
                   requests, interrupted>>

\* Mutant: the request is not marked as done.
MasterSignalKept(sig) ==
    /\ master \in {"forking", "joining"} /\ sig \in to_master
    /\ to_worker' = Terminated(workers)
    /\ heeded' = (heeded \/ (Up /\ ~reload))
    /\ renewing' = IF Up /\ reload /\ sig = "SIGHUP" THEN generation ELSE renewing
    /\ UNCHANGED <<reloader_vars, master_vars, worker_vars, to_reloader, to_master,
                   requests, interrupted>>

\* Mutant: a reload request is printed and that is all.
MasterSignalPrinted(sig) ==
    /\ master \in {"forking", "joining"} /\ sig \in to_master
    /\ to_master' = to_master \ {sig}
    /\ to_worker' = IF reload /\ sig = "SIGHUP" THEN to_worker ELSE Terminated(workers)
    /\ heeded' = (heeded \/ (Up /\ ~reload))
    /\ renewing' = IF Up /\ reload /\ sig = "SIGHUP" THEN generation ELSE renewing
    /\ UNCHANGED <<reloader_vars, master_vars, worker_vars, to_reloader,
                   requests, interrupted>>

\* stop in the master, whatever the signal: terminating is for printing only.
MasterSignal(sig) ==
    /\ master \in {"forking", "joining"} /\ sig \in to_master
    /\ to_master' = to_master \ {sig}
    /\ to_worker' = Terminated(workers)
    /\ heeded' = (heeded \/ (Up /\ ~reload))
    /\ renewing' = IF Up /\ reload /\ sig = "SIGHUP" THEN generation ELSE renewing
    /\ UNCHANGED <<reloader_vars, master_vars, worker_vars, to_reloader,
                   requests, interrupted>>

\* Mutant: the loop ends at the first worker that failed.
JoinedHasty ==
    /\ master = "joining"
    /\ \/ \A w \in workers : ~Live(w)
       \/ \E w \in workers : worker[w] \in {"aborted", "crashed"}
    /\ master' = "exited"
    /\ to_master' = {}
    /\ UNCHANGED <<reloader_vars, returncode, workers, worker_vars, to_reloader,
                   to_worker, history_vars>>

\* Every worker is joined: however they ended, the master's exit code is 0.
Joined ==
    /\ master = "joining"
    /\ \A w \in workers : ~Live(w)
    /\ master' = "exited"
    /\ to_master' = {}
    /\ UNCHANGED <<reloader_vars, returncode, workers, worker_vars, to_reloader,
                   to_worker, history_vars>>

------------------------------------------------------------------------------
\* serve has set the worker's own handlers.
Serves(w) ==
    /\ worker[w] = "starting"
    /\ worker' = [worker EXCEPT ![w] = "serving"]
    /\ UNCHANGED <<reloader_vars, master_vars, dirty, notifying, signal_vars,
                   history_vars>>

\* Until then it has the master's: stop is for the workers started before it.
EarlySignal(w, sig) ==
    /\ worker[w] = "starting" /\ sig \in to_worker[w]
    /\ to_worker' = [Terminated(1..(w - 1)) EXCEPT ![w] = @ \ {sig}]
    /\ UNCHANGED <<reloader_vars, master_vars, worker_vars, to_reloader, to_master,
                   history_vars>>

\* loop.stop: once the loop has ended a further one aborts what serve does last.
WorkerSignal(w, sig) ==
    /\ worker[w] \in {"serving", "stopping", "draining"} /\ sig \in to_worker[w]
    /\ to_worker' = [to_worker EXCEPT
          ![w] = IF worker[w] = "draining" THEN {} ELSE @ \ {sig}]
    /\ worker' = [worker EXCEPT
          ![w] = IF @ = "draining" THEN "aborted" ELSE "stopping"]
    /\ UNCHANGED <<reloader_vars, master_vars, dirty, notifying, to_reloader,
                   to_master, history_vars>>

\* run_forever returns.
LoopEnds(w) ==
    /\ worker[w] = "stopping"
    /\ worker' = [worker EXCEPT ![w] = "draining"]
    /\ UNCHANGED <<reloader_vars, master_vars, dirty, notifying, signal_vars,
                   history_vars>>

\* serve is done, see Worker; its detector's thread ends with it.
Drained(w) ==
    /\ worker[w] = "draining"
    /\ worker' = [worker EXCEPT ![w] = "exited"]
    /\ dirty' = dirty \ {w} /\ notifying' = notifying \ {w}
    /\ to_worker' = [to_worker EXCEPT ![w] = {}]
    /\ UNCHANGED <<reloader_vars, master_vars, to_reloader, to_master, history_vars>>

\* A worker may crash at any time.
Crash(w) ==
    /\ Live(w)
    /\ worker' = [worker EXCEPT ![w] = "crashed"]
    /\ dirty' = dirty \ {w} /\ notifying' = notifying \ {w}
    /\ to_worker' = [to_worker EXCEPT ![w] = {}]
    /\ UNCHANGED <<reloader_vars, master_vars, to_reloader, to_master, history_vars>>

\* ChangeDetector.run: first the worker's own loop is stopped ...
Detect(w) ==
    /\ w \in dirty /\ Live(w)
    /\ worker' = [worker EXCEPT ![w] = IF @ = "serving" THEN "stopping" ELSE @]
    /\ dirty' = dirty \ {w} /\ notifying' = notifying \cup {w}
    /\ UNCHANGED <<reloader_vars, master_vars, signal_vars, history_vars>>

\* ... then the master is told.
NotifyMaster(w) ==
    /\ w \in notifying
    /\ notifying' = notifying \ {w}
    /\ to_master' = to_master \cup {s \in {"SIGHUP"} : LiveMaster}
    /\ UNCHANGED <<reloader_vars, master_vars, worker, dirty, to_reloader, to_worker,
                   history_vars>>

------------------------------------------------------------------------------
ReloaderStep ==
    \/ Popen \/ PopenReturns \/ ChildDone
    \/ \E sig \in Signals : ReloaderSignal(sig)

MasterStep ==
    \/ BootSignal \/ SetHandlers \/ JoinBegins \/ Joined
    \/ \E w \in Workers : StartWorker(w) \/ AddWorker(w)
    \/ \E sig \in Signals : MasterSignal(sig)

WorkerStep(w) ==
    \/ Serves(w) \/ LoopEnds(w) \/ Drained(w)
    \/ \E sig \in Signals : EarlySignal(w, sig) \/ WorkerSignal(w, sig)

DetectorStep(w) == Detect(w) \/ NotifyMaster(w)

Next ==
    \/ \E sig \in {"SIGTERM", "SIGHUP"} : Ask(sig)
    \/ Interrupt \/ Edit \/ BootFails
    \/ ReloaderStep \/ MasterStep
    \/ \E w \in Workers : WorkerStep(w) \/ DetectorStep(w) \/ Crash(w)

\* Each process and each detector's thread is scheduled again and again.
Fairness ==
    /\ WF_vars(ReloaderStep) /\ WF_vars(MasterStep)
    /\ \A w \in Workers : WF_vars(WorkerStep(w)) /\ WF_vars(DetectorStep(w))

Spec == Init /\ [][Next]_vars /\ Fairness

------------------------------------------------------------------------------
TypeOK ==
    /\ reload \in BOOLEAN /\ quitting \in BOOLEAN
    /\ reloader \in {"none", "launching", "waiting", "exited", "crashed"}
    /\ child \in 0..generation /\ generation \in 0..MaxGenerations
    /\ master \in {"absent", "booting", "forking", "joining", "exited"}
    /\ returncode \in {0, 1}
    /\ workers \subseteq Workers /\ dirty \subseteq Workers /\ notifying \subseteq Workers
    /\ worker \in [Workers -> {"absent", "starting", "serving", "stopping", "draining",
                               "exited", "aborted", "crashed"}]
    /\ to_reloader \subseteq Signals /\ to_master \subseteq Signals
    /\ to_worker \in [Workers -> SUBSET {"SIGINT", "SIGTERM"}]
    /\ requests \in 0..MaxRequests /\ renewing \in 0..MaxGenerations
    /\ interrupted \in BOOLEAN /\ heeded \in BOOLEAN

\* No worker outlives its master: the next generation, which binds the same
\* address, is started when the last listener of the one before is gone (_run
\* joins, main in reloader.py waits).
NoWorkerLeft == ~LiveMaster => \A w \in Workers : ~Live(w)

\* Without the reloader a single request to an application that is up reaches
\* each worker once: it never cuts the drain short (stop in _run).
OnceIsGraceful ==
    ~reload /\ heeded /\ requests = 1 /\ ~interrupted =>
        \A w \in Workers : worker[w] # "aborted"

\* An application that is up when it is told to end ends, reloader and workers
\* included, whatever is edited or crashes meanwhile.
TerminationHeeded == heeded ~> Ended

\* Told to reload when it is up, by SIGHUP or by a changed file, the generation
\* makes room for the next one, unless the reloader ends.
ReloadCompletes ==
    \A g \in 1..(MaxGenerations - 1) :
        renewing = g ~> (generation > g \/ ~LiveReloader)
=============================================================================
