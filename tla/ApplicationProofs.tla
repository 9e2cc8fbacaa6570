--------------------------- MODULE ApplicationProofs ---------------------------
(***************************************************************************)
(* Proofs about app/__init__.py: a worker with its reaper and its drain    *)
(* (Reaper, Worker), and the processes around it (Processes).              *)
(*                                                                         *)
(* A worker is a reaper with a drain around it: what is shown of           *)
(* ReaperSpec holds of a worker, too.                                      *)
(*                                                                         *)
(* That no worker outlives its master rests on the order of _run: the      *)
(* workers are started one by one, each is in the set before the next is   *)
(* started, and the master leaves only over all of the set.  That one      *)
(* request ends an application gracefully rests on the master handing it   *)
(* on to each worker once.                                                 *)
(***************************************************************************)
EXTENDS Worker, Processes, TLAPS

-----------------------------------------------------------------------------
(* The reaper *)

\* How the counters of a connection relate to the silence a clock would show.
\* Lower bounds: since the last check that saw a read, silence and idle time grew
\* together; a connection never read may have one interval too much.  Upper
\* bounds: the idle time lags behind by less than one interval.
ClockInv(c) ==
    /\ last_read_ops[c] <= read_ops[c]
    /\ Idle(c) => silent[c] + (IF read_ops[c] = 0 THEN CheckInterval ELSE 0)
                      >= idle_time[c] + since_check
    /\ state[c] = "open" /\ running =>
          silent[c] <= since_check + (IF Idle(c) THEN idle_time[c] + CheckInterval ELSE 0)
    /\ state[c] = "open" => idle_time[c] < IdleTimeout \/ idle_time[c] = 0

ReaperInv == ReaperTypeOK /\ \A c \in Present : ClockInv(c)

\* Every action keeps the types.
LEMMA ReaperTypeStep == ReaperTypeOK /\ [ReaperNext]_reaper_vars => ReaperTypeOK'
  <1> SUFFICES ASSUME ReaperTypeOK, [ReaperNext]_reaper_vars PROVE ReaperTypeOK'
    OBVIOUS
  <1> USE ReaperAssumption DEF ReaperTypeOK
  <1>1. ASSUME NEW c \in Connections, ConnectionMade(c) PROVE ReaperTypeOK'
    BY <1>1 DEF ConnectionMade
  <1>2. ASSUME NEW c \in Connections, DataReceived(c) PROVE ReaperTypeOK'
    BY <1>2 DEF DataReceived
  <1>3. ASSUME NEW c \in Connections, ConnectionLost(c) PROVE ReaperTypeOK'
    BY <1>3 DEF ConnectionLost
  <1>4. CASE CheckIdle
    BY <1>4 DEF CheckIdle, IdleAfterCheck
  <1>5. CASE Stop
    BY <1>5 DEF Stop
  <1>6. CASE Tick
    BY <1>6 DEF Tick
  <1>7. ASSUME NEW S \in SUBSET Connections, CloseSome(S) PROVE ReaperTypeOK'
    BY <1>7 DEF CloseSome
  <1>8. CASE UNCHANGED reaper_vars
    BY <1>8 DEF reaper_vars
  <1>9. QED
    BY <1>1, <1>2, <1>3, <1>4, <1>5, <1>6, <1>7, <1>8 DEF ReaperNext

\* Every action keeps the relation between the counters and the clock.
LEMMA ClockStep ==
    ASSUME ReaperInv, [ReaperNext]_reaper_vars, NEW c \in Connections, state'[c] # "absent"
    PROVE  ClockInv(c)'
  <1> USE ReaperAssumption DEF ReaperTypeOK, ClockInv, Idle
  <1>0. ReaperTypeOK /\ (state[c] # "absent" => ClockInv(c))
    BY DEF ReaperInv, Present
  <1>1. ASSUME NEW d \in Connections, ConnectionMade(d) PROVE ClockInv(c)'
    BY <1>0, <1>1 DEF ConnectionMade
  <1>2. ASSUME NEW d \in Connections, DataReceived(d) PROVE ClockInv(c)'
    BY <1>0, <1>2 DEF DataReceived
  <1>3. ASSUME NEW d \in Connections, ConnectionLost(d) PROVE ClockInv(c)'
    BY <1>0, <1>3 DEF ConnectionLost
  <1>4. CASE CheckIdle
    BY <1>0, <1>4 DEF CheckIdle, IdleAfterCheck, Overdue, Present
  <1>5. CASE Stop
    BY <1>0, <1>5 DEF Stop
  <1>6. CASE Tick
    BY <1>0, <1>6 DEF Tick, Present
  <1>7. ASSUME NEW S \in SUBSET Connections, CloseSome(S) PROVE ClockInv(c)'
    BY <1>0, <1>7 DEF CloseSome
  <1>8. CASE UNCHANGED reaper_vars
    BY <1>0, <1>8 DEF reaper_vars
  <1>9. QED
    BY <1>1, <1>2, <1>3, <1>4, <1>5, <1>6, <1>7, <1>8 DEF ReaperNext

\* That relation holds in every reachable state.
THEOREM ReaperInductive == ReaperSpec => []ReaperInv
  <1>1. ReaperInit => ReaperInv
    BY ReaperAssumption DEF ReaperInit, ReaperInv, ReaperTypeOK, Present
  <1>2. ReaperInv /\ [ReaperNext]_reaper_vars => ReaperInv'
    BY ReaperTypeStep, ClockStep DEF ReaperInv, Present
  <1>3. QED
    BY <1>1, <1>2, PTL DEF ReaperSpec

\* The counters and the timer stay well-typed.
THEOREM ReaperTypeCorrect == ReaperSpec => []ReaperTypeOK
  <1>1. ReaperInv => ReaperTypeOK
    BY DEF ReaperInv
  <1>2. QED
    BY <1>1, ReaperInductive, PTL

\* No open connection outlives the timeout by two intervals.
THEOREM PromptReaping == ReaperSpec => []ReapedInTime
  <1>1. ReaperInv => ReapedInTime
    BY ReaperAssumption DEF ReaperInv, ReaperTypeOK, Present, ClockInv, ReapedInTime
  <1>2. QED
    BY <1>1, ReaperInductive, PTL

\* No connection is reaped before it was silent for the timeout, less one interval
\* when nothing was ever read.
THEOREM NoEarlyReaping == ReaperSpec => ReapedOnlyWhenSilent
  <1>1. ASSUME ReaperInv, [ReaperNext]_reaper_vars, NEW c \in Connections,
               state[c] = "open", state'[c] = "reaped"
        PROVE  silent[c] + (IF read_ops[c] = 0 THEN CheckInterval ELSE 0) >= IdleTimeout
    <2>1. ReaperTypeOK /\ ClockInv(c)
      BY <1>1 DEF ReaperInv, Present
    <2>2. CheckIdle
      BY <1>1, <2>1 DEF ReaperNext, reaper_vars, ConnectionMade, DataReceived, ConnectionLost,
                        CloseSome, Stop, Tick, ReaperTypeOK
    <2>3. Idle(c) /\ idle_time[c] + CheckInterval >= IdleTimeout /\ since_check = CheckInterval
      BY <1>1, <2>1, <2>2 DEF CheckIdle, Overdue, IdleAfterCheck
    <2>4. QED
      BY <2>1, <2>3, ReaperAssumption DEF ClockInv, ReaperTypeOK
  <1>2. ReaperInv /\ [ReaperNext]_reaper_vars =>
          [\A c \in Connections : state[c] = "open" /\ state'[c] = "reaped" =>
              silent[c] + (IF read_ops[c] = 0 THEN CheckInterval ELSE 0) >= IdleTimeout]_reaper_vars
    BY <1>1
  <1>3. QED
    BY <1>2, ReaperInductive, PTL DEF ReaperSpec, ReapedOnlyWhenSilent

-----------------------------------------------------------------------------
(* The worker around it *)

\* Each step of a worker is a step of its reaper or leaves the reaper alone.
THEOREM WorkerIsReaper == WorkerSpec => ReaperSpec
  <1>1. WorkerInit => ReaperInit
    BY DEF WorkerInit
  <1>2. [WorkerNext]_all_vars => [ReaperNext]_reaper_vars
    <2> SUFFICES ASSUME [WorkerNext]_all_vars PROVE [ReaperNext]_reaper_vars
      OBVIOUS
    <2>1. ASSUME NEW c \in Connections,
                 Connect(c) \/ Finish(c) \/ Lost(c)
                   \/ \E started \in {0, 1} : Read(c, started)
          PROVE  [ReaperNext]_reaper_vars
      BY <2>1 DEF Connect, Finish, Lost, Read, ReaperNext
    <2>2. ASSUME NEW c \in Connections, CloseOne(c) PROVE [ReaperNext]_reaper_vars
      <3>1. {c} \in SUBSET Connections /\ CloseSome({c})
        BY <2>2 DEF CloseOne
      <3>2. QED
        BY <3>1 DEF ReaperNext
    <2>3. CASE Check \/ Second \/ StopReaper
      BY <2>3 DEF Check, Second, StopReaper, ReaperNext
    <2>4. CASE Terminate \/ TerminateAgain
      BY <2>4 DEF Terminate, TerminateAgain
    <2>5. CASE DrainBegins \/ DrainSecond
      <3>1. IdleToClose \in SUBSET Connections /\ CloseSome(IdleToClose)
        BY <2>5 DEF DrainBegins, DrainSecond, IdleToClose, idle_connections, Present
      <3>2. QED
        BY <3>1 DEF ReaperNext
    <2>6. CASE UNCHANGED all_vars
      BY <2>6 DEF all_vars
    <2>7. QED
      BY <2>1, <2>2, <2>3, <2>4, <2>5, <2>6 DEF WorkerNext
  <1>3. QED
    BY <1>1, <1>2, PTL DEF WorkerSpec, ReaperSpec

\* A worker's reaper leaves no silent connection open for long, before SIGTERM
\* and while the worker drains.
THEOREM WorkerReapsInTime == WorkerSpec => []ReapedInTime
  BY WorkerIsReaper, PromptReaping, PTL

\* Before drain has begun its variables are untouched; while it waits, the
\* seconds gone and those left add up; afterwards what it promises holds.
BeforeDrain == countdown = DRAIN_SECONDS /\ drained = 0 /\ ~due /\ cancelled = {}
WhileDraining ==
    /\ countdown >= 1 /\ cancelled = {}
    /\ drained + countdown = DRAIN_SECONDS + (IF due THEN 1 ELSE 0)
AfterDrain ==
    /\ cancelled # {} => drained = DRAIN_SECONDS
    /\ \A c \in Present : state[c] # "open" \/ c \in cancelled
    /\ busy_connections \subseteq cancelled

DrainInv ==
    /\ DrainTypeOK
    /\ phase \in {"serving", "stopping"} => BeforeDrain
    /\ phase = "draining" => WhileDraining
    /\ phase \in {"drained", "stopped"} => AfterDrain
    /\ phase = "aborted" => cancelled = {}

LEMMA DrainInit == WorkerInit => DrainInv
  <1> SUFFICES ASSUME WorkerInit PROVE DrainInv
    OBVIOUS
  <1>1. 0 \in 0..DRAIN_SECONDS /\ DRAIN_SECONDS \in 0..DRAIN_SECONDS /\ 0 \in 0..MaxPending
    BY WorkerAssumption
  <1>2. pending \in [Connections -> 0..MaxPending]
    BY <1>1 DEF WorkerInit
  <1>3. phase = "serving" /\ BeforeDrain
    BY DEF WorkerInit, BeforeDrain
  <1>4. /\ phase = "serving" /\ countdown = DRAIN_SECONDS /\ due = FALSE
        /\ cancelled = {} /\ drained = 0
    BY DEF WorkerInit
  <1>5. DrainTypeOK
    BY <1>1, <1>2, <1>4 DEF DrainTypeOK
  <1>6. QED
    BY <1>3, <1>5 DEF DrainInv

LEMMA DrainStep == DrainInv /\ [WorkerNext]_all_vars => DrainInv'
  <1> SUFFICES ASSUME DrainInv, [WorkerNext]_all_vars PROVE DrainInv'
    OBVIOUS
  <1> USE WorkerAssumption DEF DrainInv, DrainTypeOK, LoopRuns
  \* What runs while the loop does touches no variable of drain but pending.
  <1>1. ASSUME NEW c \in Connections,
               Connect(c) \/ Finish(c) \/ CloseOne(c) \/ Lost(c)
                 \/ \E started \in {0, 1} : Read(c, started)
        PROVE  DrainInv'
    <2>1. pending' \in [Connections -> 0..MaxPending]
      BY <1>1 DEF Connect, Finish, CloseOne, Lost, Read, drain_vars
    <2>2. LoopRuns /\ UNCHANGED <<phase, countdown, due, cancelled, drained>>
      BY <1>1 DEF Connect, Finish, CloseOne, Lost, Read, drain_vars
    <2>3. QED
      BY <2>1, <2>2 DEF BeforeDrain, WhileDraining
  <1>2. CASE Check
    BY <1>2 DEF Check, drain_vars, BeforeDrain, WhileDraining
  <1>3. CASE Second
    <2>1. CASE phase = "serving"
      <3>1. due' = FALSE /\ drained' = drained
        BY <1>3, <2>1 DEF Second
      <3>2. QED
        BY <1>3, <2>1, <3>1 DEF Second, BeforeDrain
    <2>2. CASE phase = "draining"
      <3>1. due = FALSE /\ due' = TRUE /\ countdown' = countdown /\ cancelled' = cancelled
        BY <1>3, <2>2 DEF Second
      <3>2. drained + countdown = DRAIN_SECONDS /\ countdown >= 1
        BY <2>2, <3>1 DEF WhileDraining
      <3>3. drained' = drained + 1
        BY <1>3, <2>2 DEF Second
      <3>4. drained' + countdown' = DRAIN_SECONDS + 1 /\ drained' \in 0..DRAIN_SECONDS
        BY <3>1, <3>2, <3>3
      <3>5. WhileDraining'
        BY <2>2, <3>1, <3>2, <3>4 DEF WhileDraining
      <3>6. DrainTypeOK'
        BY <1>3, <3>1, <3>4 DEF Second
      <3>7. QED
        BY <1>3, <2>2, <3>5, <3>6 DEF Second
    <2>3. QED
      BY <1>3, <2>1, <2>2 DEF Second
  <1>4. CASE Terminate \/ TerminateAgain
    BY <1>4 DEF Terminate, TerminateAgain, BeforeDrain, WhileDraining
  <1>5. CASE DrainBegins
    <2>1. CASE Present = {}
      <3>1. Present' = {}
        BY <1>5, <2>1 DEF DrainBegins, CloseSome, IdleToClose, idle_connections, Present
      <3>2. QED
        BY <1>5, <2>1, <3>1 DEF DrainBegins, BeforeDrain, AfterDrain, busy_connections
    <2>2. CASE Present # {}
      BY <1>5, <2>2 DEF DrainBegins, BeforeDrain, WhileDraining
    <2>3. QED
      BY <2>1, <2>2
  <1>6. CASE DrainSecond
    <2>1. /\ Present' = Present /\ busy_connections' = busy_connections
          /\ \A c \in Present : state'[c] = "open" => c \in busy_connections
      BY <1>6 DEF DrainSecond, CloseSome, IdleToClose, idle_connections,
                  busy_connections, Present
    <2> phase = "draining" /\ due = TRUE /\ due' = FALSE
      BY <1>6 DEF DrainSecond
    <2>5. /\ countdown >= 1 /\ drained + countdown = DRAIN_SECONDS + 1
          /\ countdown' = countdown - 1 /\ drained' = drained
      BY <1>6 DEF DrainSecond, WhileDraining
    <2>6. countdown' \in 0..DRAIN_SECONDS /\ drained' + countdown' = DRAIN_SECONDS
      BY <2>5
    <2>7. DrainTypeOK'
      <3>1. phase' \in {"draining", "drained"}
        BY <1>6 DEF DrainSecond
      <3>2. cancelled' \subseteq Connections
        BY <1>6 DEF DrainSecond, busy_connections, Present
      <3>3. pending' = pending
        BY <1>6 DEF DrainSecond
      <3>4. QED
        BY <2>5, <2>6, <3>1, <3>2, <3>3
    <2>2. CASE phase' = "draining"
      <3>1. countdown # 1 /\ cancelled' = {}
        BY <1>6, <2>2 DEF DrainSecond
      <3>2. countdown' >= 1
        BY <2>5, <3>1
      <3>3. WhileDraining'
        BY <2>6, <3>1, <3>2 DEF WhileDraining
      <3>4. QED
        BY <2>2, <2>7, <3>3
    <2>3. CASE phase' = "drained"
      <3>1. countdown = 1 => drained = DRAIN_SECONDS
        BY <2>5
      <3>2. busy_connections \subseteq cancelled'
        BY <1>6, <2>3 DEF DrainSecond
      <3>3. cancelled' # {} => drained' = DRAIN_SECONDS
        BY <1>6, <2>5, <3>1 DEF DrainSecond
      <3>4. AfterDrain'
        BY <2>1, <3>2, <3>3 DEF AfterDrain
      <3>5. QED
        BY <2>3, <2>7, <3>4
    <2>4. QED
      BY <1>6, <2>2, <2>3 DEF DrainSecond
  <1>7. CASE StopReaper
    BY <1>7 DEF StopReaper, Stop, AfterDrain, busy_connections, Present
  <1>8. CASE UNCHANGED all_vars
    BY <1>8 DEF all_vars, reaper_vars, drain_vars, BeforeDrain, WhileDraining, AfterDrain,
                busy_connections, Present
  <1>9. QED
    BY <1>1, <1>2, <1>3, <1>4, <1>5, <1>6, <1>7, <1>8 DEF WorkerNext

THEOREM DrainInductive == WorkerSpec => []DrainInv
  BY DrainInit, DrainStep, PTL DEF WorkerSpec

\* A worker's variables keep their types.
THEOREM WorkerTypeCorrect == WorkerSpec => []WorkerTypeOK
  <1>1. DrainInv /\ ReaperTypeOK => WorkerTypeOK
    BY DEF DrainInv, WorkerTypeOK
  <1>2. WorkerSpec => []ReaperTypeOK
    BY WorkerIsReaper, ReaperTypeCorrect, PTL
  <1>3. QED
    BY <1>1, <1>2, DrainInductive, PTL

\* A worker that stopped by itself has closed or cancelled everything, however
\* many requests came in while it drained.
THEOREM NothingIsLeftBehind == WorkerSpec => []NothingLeftBehind
  <1>1. DrainInv => NothingLeftBehind
    BY DEF DrainInv, AfterDrain, NothingLeftBehind
  <1>2. QED
    BY <1>1, DrainInductive, PTL

\* No work is cancelled before its time, for every grace period.
THEOREM GraceIsGiven == WorkerSpec => []GraceGiven
  <1>1. DrainInv => GraceGiven
    BY DEF DrainInv, DrainTypeOK, BeforeDrain, WhileDraining, AfterDrain, GraceGiven
  <1>2. QED
    BY <1>1, DrainInductive, PTL

-----------------------------------------------------------------------------
(* The processes *)

StillAbsent(W) == \A w \in W : worker[w] = "absent"

MasterInv ==
    /\ worker \in [Workers -> {"absent", "starting", "serving", "stopping", "draining",
                               "exited", "aborted", "crashed"}]
    /\ master \in {"absent", "booting", "forking", "joining", "exited"}
    /\ master \in {"absent", "booting"} => StillAbsent(Workers) /\ workers = {}
    /\ master = "forking" =>
          \E n \in 0..worker_num :
             /\ workers = 1..n
             /\ StillAbsent({w \in Workers : w > n + 1})
    /\ master = "joining" => workers = Workers
    /\ master = "exited" => \A w \in Workers : ~Live(w)

\* Before anything is started there is nothing to leave behind.
LEMMA MasterInvInit == Init => MasterInv
  BY DEF Init, MasterInv, StillAbsent

\* What a worker, its detector or its end does is a step of a live worker.
LEMMA WorkerKeeps ==
  ASSUME MasterInv, UNCHANGED <<master, workers>>,
         NEW w \in Workers, Live(w),
         NEW to \in {"starting", "serving", "stopping", "draining",
                     "exited", "aborted", "crashed"},
         worker' = [worker EXCEPT ![w] = to]
  PROVE  MasterInv'
  <1>1. worker[w] # "absent" /\ \A v \in Workers : v # w => worker'[v] = worker[v]
    BY DEF MasterInv, Live
  <1>2. master \in {"forking", "joining"}
    BY <1>1 DEF MasterInv, StillAbsent
  <1>3. \A W \in SUBSET Workers : StillAbsent(W) => StillAbsent(W)'
    BY <1>1 DEF StillAbsent
  <1>4. CASE master = "forking"
    <2>1. PICK n \in 0..worker_num :
             workers = 1..n /\ StillAbsent({v \in Workers : v > n + 1})
      BY <1>4 DEF MasterInv
    <2>2. workers' = 1..n /\ StillAbsent({v \in Workers : v > n + 1})'
      BY <2>1, <1>3
    <2>3. QED
      BY <1>4, <2>2 DEF MasterInv
  <1>5. CASE master = "joining"
    BY <1>5 DEF MasterInv
  <1>6. QED
    BY <1>2, <1>4, <1>5

\* A step that leaves the master, its set and the workers alone.
LEMMA OthersKeep ==
  ASSUME MasterInv, UNCHANGED <<master, workers, worker>>
  PROVE  MasterInv'
  BY DEF MasterInv, StillAbsent, Live

\* The workers are started and joined in turn.
LEMMA MasterInvStep == MasterInv /\ [Next]_vars => MasterInv'
  <1> SUFFICES ASSUME MasterInv, [Next]_vars PROVE MasterInv'
    OBVIOUS
  <1> USE DEF reloader_vars, master_vars, worker_vars, signal_vars, history_vars
  <1>1. ASSUME \/ \E sig \in Signals : Ask(sig) \/ ReloaderSignal(sig) \/ MasterSignal(sig)
               \/ Interrupt \/ Edit \/ PopenReturns \/ ChildDone
               \/ \E w \in Workers, sig \in Signals : EarlySignal(w, sig)
               \/ \E w \in Workers : NotifyMaster(w)
               \/ UNCHANGED vars
        PROVE  MasterInv'
    <2>1. UNCHANGED <<master, workers, worker>>
      BY <1>1 DEF Ask, ReloaderSignal, MasterSignal, Interrupt, Edit, PopenReturns,
                  ChildDone, EarlySignal, NotifyMaster, vars
    <2>2. QED
      BY <2>1, OthersKeep
  <1>2. CASE Popen
    BY <1>2 DEF Popen, MasterInv, StillAbsent
  <1>3. CASE BootFails \/ BootSignal
    <2>1. master = "booting" /\ master' = "exited" /\ worker' = worker
      BY <1>3 DEF BootFails, BootSignal
    <2>2. \A w \in Workers : worker'[w] = "absent"
      BY <2>1 DEF MasterInv, StillAbsent
    <2>3. QED
      BY <2>1, <2>2 DEF MasterInv, Live
  <1>4. CASE SetHandlers
    <2>1. /\ master' = "forking" /\ workers' = 1..0 /\ worker' = worker
          /\ StillAbsent(Workers)
      BY <1>4 DEF SetHandlers, MasterInv
    <2>2. 0 \in 0..worker_num /\ StillAbsent({w \in Workers : w > 0 + 1})'
      BY <2>1, ProcessesAssumption DEF StillAbsent
    <2>3. QED
      BY <2>1, <2>2 DEF MasterInv
  <1>5. ASSUME NEW w \in Workers, StartWorker(w) PROVE MasterInv'
    <2>1. PICK n \in 0..worker_num :
             workers = 1..n /\ StillAbsent({v \in Workers : v > n + 1})
      BY <1>5 DEF StartWorker, MasterInv
    <2>2. w = n + 1
      BY <1>5, <2>1, ProcessesAssumption DEF StartWorker, Workers
    <2>3. StillAbsent({v \in Workers : v > n + 1})'
      BY <1>5, <2>1, <2>2 DEF StartWorker, StillAbsent, MasterInv, Workers
    <2>4. QED
      BY <1>5, <2>1, <2>3 DEF StartWorker, MasterInv
  <1>6. ASSUME NEW w \in Workers, AddWorker(w) PROVE MasterInv'
    <2>1. PICK n \in 0..worker_num :
             workers = 1..n /\ StillAbsent({v \in Workers : v > n + 1})
      BY <1>6 DEF AddWorker, MasterInv
    <2>2. w = n + 1 /\ n + 1 \in 0..worker_num
      BY <1>6, <2>1, ProcessesAssumption DEF AddWorker, Workers
    <2>3. workers' = 1..(n + 1)
      BY <1>6, <2>1, <2>2 DEF AddWorker
    <2>4. StillAbsent({v \in Workers : v > (n + 1) + 1})'
      BY <1>6, <2>1, ProcessesAssumption DEF AddWorker, StillAbsent, Workers
    <2>5. QED
      BY <1>6, <2>2, <2>3, <2>4 DEF AddWorker, MasterInv
  <1>7. CASE JoinBegins
    BY <1>7 DEF JoinBegins, MasterInv
  <1>8. CASE Joined
    BY <1>8 DEF Joined, MasterInv, Live
  <1>9. ASSUME NEW w \in Workers, Serves(w) \/ LoopEnds(w) \/ Drained(w) \/ Crash(w)
        PROVE  MasterInv'
    BY <1>9, WorkerKeeps DEF Serves, LoopEnds, Drained, Crash, Live
  <1>10. ASSUME NEW w \in Workers, NEW sig \in Signals, WorkerSignal(w, sig)
         PROVE  MasterInv'
    BY <1>10, WorkerKeeps DEF WorkerSignal, Live
  <1>11. ASSUME NEW w \in Workers, Detect(w) PROVE MasterInv'
    <2>1. worker[w] \in {"starting", "serving", "stopping", "draining"}
      BY <1>11 DEF Detect, Live
    <2>2. QED
      BY <1>11, <2>1, WorkerKeeps DEF Detect
  <1>12. QED
    BY <1>1, <1>2, <1>3, <1>4, <1>5, <1>6, <1>7, <1>8, <1>9, <1>10, <1>11
       DEF Next, ReloaderStep, MasterStep, WorkerStep, DetectorStep, Signals

\* However the workers, the signals and the crashes interleave, a master that is
\* gone has no worker left: the address is free for the next generation.
THEOREM NoWorkerOutlivesMaster == Spec => []NoWorkerLeft
  <1>1. MasterInv => NoWorkerLeft
    BY DEF MasterInv, NoWorkerLeft, LiveMaster, StillAbsent, Live
  <1>2. QED
    BY <1>1, MasterInvInit, MasterInvStep, PTL DEF Spec

------------------------------------------------------------------------------
(* Types *)

States == {"absent", "starting", "serving", "stopping", "draining",
           "exited", "aborted", "crashed"}

\* Signals are only taken away, or SIGTERM is added by Process.terminate.
LEMMA TerminatedType ==
  ASSUME TypeOK, NEW W
  PROVE  /\ Terminated(W) \in [Workers -> SUBSET {"SIGINT", "SIGTERM"}]
         /\ \A w \in Workers : Terminated(W)[w] \subseteq to_worker[w] \cup {"SIGTERM"}
  BY DEF Terminated, TypeOK

\* What the reloader does keeps the types.
LEMMA ReloaderTypes == TypeOK /\ ReloaderStep => TypeOK'
  <1> SUFFICES ASSUME TypeOK, ReloaderStep PROVE TypeOK'
    OBVIOUS
  <1> USE ProcessesAssumption
          DEF TypeOK, master_vars, worker_vars, signal_vars, history_vars
  <1>1. CASE Popen
    <2>1. /\ child' \in 0..generation' /\ generation' \in 0..MaxGenerations
          /\ renewing' = renewing /\ requests' = requests
      BY <1>1 DEF Popen
    <2>2. /\ worker' \in [Workers -> States] /\ to_worker' \in [Workers -> SUBSET {"SIGINT", "SIGTERM"}]
      BY <1>1 DEF Popen, States
    <2>3. QED
      BY <1>1, <2>1, <2>2 DEF Popen, States
  <1>2. CASE PopenReturns \/ ChildDone
    BY <1>2 DEF PopenReturns, ChildDone
  <1>3. ASSUME NEW sig \in Signals, ReloaderSignal(sig) PROVE TypeOK'
    <2>1. /\ to_reloader' \subseteq Signals /\ to_master' \subseteq Signals
          /\ quitting' \in BOOLEAN /\ heeded' \in BOOLEAN
      BY <1>3 DEF ReloaderSignal, Signals
    <2>2. QED
      BY <1>3, <2>1 DEF ReloaderSignal
  <1>4. QED
    BY <1>1, <1>2, <1>3 DEF ReloaderStep

\* So does what the master does.
LEMMA MasterTypes == TypeOK /\ (MasterStep \/ BootFails) => TypeOK'
  <1> SUFFICES ASSUME TypeOK, MasterStep \/ BootFails PROVE TypeOK'
    OBVIOUS
  <1> USE ProcessesAssumption
          DEF TypeOK, reloader_vars, master_vars, worker_vars, signal_vars, history_vars
  <1>1. CASE BootSignal \/ BootFails \/ SetHandlers \/ JoinBegins \/ Joined
    BY <1>1 DEF BootSignal, BootFails, SetHandlers, JoinBegins, Joined
  <1>2. ASSUME NEW w \in Workers, StartWorker(w) \/ AddWorker(w) PROVE TypeOK'
    BY <1>2 DEF StartWorker, AddWorker
  <1>3. ASSUME NEW sig \in Signals, MasterSignal(sig) PROVE TypeOK'
    <2>1. to_worker' \in [Workers -> SUBSET {"SIGINT", "SIGTERM"}]
      BY <1>3, TerminatedType DEF MasterSignal
    <2>2. heeded' \in BOOLEAN /\ renewing' \in 0..MaxGenerations /\ to_master' \subseteq Signals
      BY <1>3 DEF MasterSignal
    <2>3. QED
      BY <1>3, <2>1, <2>2 DEF MasterSignal
  <1>4. QED
    BY <1>1, <1>2, <1>3 DEF MasterStep

\* And what a worker and its detector do.
LEMMA WorkerTypes ==
  ASSUME TypeOK, NEW w \in Workers, WorkerStep(w) \/ DetectorStep(w) \/ Crash(w)
  PROVE  TypeOK'
  <1> USE ProcessesAssumption
          DEF TypeOK, reloader_vars, master_vars, worker_vars, signal_vars, history_vars
  <1>1. CASE Serves(w) \/ LoopEnds(w)
    BY <1>1 DEF Serves, LoopEnds
  <1>2. CASE Drained(w) \/ Crash(w)
    BY <1>2 DEF Drained, Crash
  <1>3. ASSUME NEW sig \in Signals, EarlySignal(w, sig) PROVE TypeOK'
    <2> DEFINE T == Terminated(1..(w - 1))
    <2>1. T \in [Workers -> SUBSET {"SIGINT", "SIGTERM"}]
      BY TerminatedType
    <2> HIDE DEF T
    <2>2. to_worker' \in [Workers -> SUBSET {"SIGINT", "SIGTERM"}]
      <3>1. to_worker' = [T EXCEPT ![w] = @ \ {sig}]
        BY <1>3 DEF EarlySignal, T
      <3>2. QED
        BY <2>1, <3>1
    <2>3. QED
      BY <1>3, <2>2 DEF EarlySignal
  <1>4. ASSUME NEW sig \in Signals, WorkerSignal(w, sig) PROVE TypeOK'
    <2>1. to_worker' \in [Workers -> SUBSET {"SIGINT", "SIGTERM"}]
      BY <1>4 DEF WorkerSignal
    <2>2. worker' \in [Workers -> States]
      BY <1>4 DEF WorkerSignal, States
    <2>3. QED
      BY <1>4, <2>1, <2>2 DEF WorkerSignal, States
  <1>5. CASE Detect(w)
    <2>1. worker' \in [Workers -> States]
      BY <1>5 DEF Detect, States
    <2>2. QED
      BY <1>5, <2>1 DEF Detect, States
  <1>6. CASE NotifyMaster(w)
    <2>1. to_master' \subseteq Signals
      BY <1>6 DEF NotifyMaster, Signals
    <2>2. QED
      BY <1>6, <2>1 DEF NotifyMaster
  <1>7. QED
    BY <1>1, <1>2, <1>3, <1>4, <1>5, <1>6 DEF WorkerStep, DetectorStep

\* Signals from outside and edits keep them too.
LEMMA TypeStep == TypeOK /\ [Next]_vars => TypeOK'
  <1> SUFFICES ASSUME TypeOK, [Next]_vars PROVE TypeOK'
    OBVIOUS
  <1> USE ProcessesAssumption
          DEF reloader_vars, master_vars, worker_vars, signal_vars, history_vars
  <1>1. ASSUME NEW sig \in {"SIGTERM", "SIGHUP"}, Ask(sig) PROVE TypeOK'
    <2>1. to_reloader' \subseteq Signals /\ to_master' \subseteq Signals
      BY <1>1 DEF Ask, TypeOK, Signals
    <2>2. QED
      BY <1>1, <2>1 DEF Ask, TypeOK
  <1>2. CASE Interrupt
    <2>1. /\ to_reloader' \subseteq Signals /\ to_master' \subseteq Signals
          /\ to_worker' \in [Workers -> SUBSET {"SIGINT", "SIGTERM"}]
      BY <1>2 DEF Interrupt, TypeOK, Signals
    <2>2. QED
      BY <1>2, <2>1 DEF Interrupt, TypeOK
  <1>3. CASE Edit
    BY <1>3 DEF Edit, TypeOK
  <1>4. CASE UNCHANGED vars
    BY <1>4 DEF vars, TypeOK
  <1>5. QED
    BY <1>1, <1>2, <1>3, <1>4, ReloaderTypes, MasterTypes, WorkerTypes DEF Next

\* Nothing is running yet.
LEMMA InitTypes == Init => TypeOK
  <1> SUFFICES ASSUME Init PROVE TypeOK
    OBVIOUS
  <1>1. /\ worker \in [Workers -> States]
        /\ to_worker \in [Workers -> SUBSET {"SIGINT", "SIGTERM"}]
    BY DEF Init, States
  <1>2. generation \in 0..MaxGenerations /\ child \in 0..generation
    BY ProcessesAssumption DEF Init
  <1>3. /\ requests \in 0..MaxRequests /\ renewing \in 0..MaxGenerations
        /\ workers \subseteq Workers /\ dirty \subseteq Workers /\ notifying \subseteq Workers
        /\ to_reloader \subseteq Signals /\ to_master \subseteq Signals
    BY ProcessesAssumption DEF Init
  <1>4. /\ reload \in BOOLEAN /\ quitting \in BOOLEAN /\ returncode \in {0, 1}
        /\ reloader \in {"none", "launching", "waiting", "exited", "crashed"}
        /\ master \in {"absent", "booting", "forking", "joining", "exited"}
        /\ interrupted \in BOOLEAN /\ heeded \in BOOLEAN
    BY DEF Init
  <1>5. QED
    BY <1>1, <1>2, <1>3, <1>4 DEF TypeOK, States

\* Every variable of the processes keeps its type.
THEOREM TypeCorrect == Spec => []TypeOK
  BY InitTypes, TypeStep, PTL DEF Spec

------------------------------------------------------------------------------
(* One request ends a running application gracefully *)

\* One signal from outside at most, and no reloader to pass on more.
OneAtMost == ~reload /\ ~interrupted /\ requests <= 1

\* No detector signals the master unless it runs with the reloader, and only a ctrl-C
\* gives a worker another signal than SIGTERM.
NoOthers ==
  /\ ~reload => reloader = "none" /\ dirty = {} /\ notifying = {}
  /\ ~interrupted => \A w \in Workers : to_worker[w] \subseteq {"SIGTERM"}

\* Until the master handles the one signal no worker was sent any; afterwards there is
\* none for the master, and each worker got its own when all of them were serving.
OneHeeded ==
  OneAtMost =>
     /\ requests = 0 => to_master = {} /\ ~heeded /\ \A w \in Workers : to_worker[w] = {}
     /\ to_master # {} =>
           /\ ~heeded /\ \A w \in Workers : to_worker[w] = {}
           /\ \E sig \in Signals : to_master = {sig}
     /\ heeded =>
           \A w \in Workers :
              /\ worker[w] \notin {"absent", "starting", "aborted"}
              /\ worker[w] # "serving" => to_worker[w] = {}

Graceful == TypeOK /\ NoOthers /\ OneHeeded

\* Nothing but a signal from outside counts as a request, and a second one is not
\* what the invariant is about.
LEMMA OneBefore ==
  ASSUME TypeOK, [Next]_vars, OneAtMost'
  PROVE  OneAtMost
  BY DEF OneAtMost, Next, ReloaderStep, MasterStep, WorkerStep, DetectorStep, TypeOK, vars,
         Ask, Interrupt, Edit, Popen, PopenReturns, ChildDone, ReloaderSignal, BootFails,
         BootSignal, SetHandlers, StartWorker, AddWorker, JoinBegins, MasterSignal, Joined,
         Serves, EarlySignal, WorkerSignal, LoopEnds, Drained, Crash, Detect, NotifyMaster,
         reloader_vars, master_vars, worker_vars, signal_vars, history_vars

\* No step of a process adds another.
LEMMA NoOthersStep ==
  ASSUME TypeOK, NoOthers, [Next]_vars
  PROVE  NoOthers'
  <1> USE DEF reloader_vars, master_vars, worker_vars, signal_vars, history_vars
  <1>1. ~reload' => reloader' = "none" /\ dirty' = {} /\ notifying' = {}
    BY DEF NoOthers, Next, ReloaderStep, MasterStep, WorkerStep, DetectorStep, vars,
         Ask, Interrupt, Edit, Popen, PopenReturns, ChildDone, ReloaderSignal, BootFails,
         BootSignal, SetHandlers, StartWorker, AddWorker, JoinBegins, MasterSignal, Joined,
         Serves, EarlySignal, WorkerSignal, LoopEnds, Drained, Crash, Detect, NotifyMaster,
         LiveReloader
  <1>2. ASSUME ~interrupted', NEW v \in Workers PROVE to_worker'[v] \subseteq {"SIGTERM"}
    <2>1. ASSUME to_worker' = to_worker, interrupted' = interrupted PROVE to_worker'[v] \subseteq {"SIGTERM"}
      BY <1>2, <2>1 DEF NoOthers
    <2>2. CASE Popen
      BY <2>2 DEF Popen
    <2>3. ASSUME NEW sig \in Signals, MasterSignal(sig) PROVE to_worker'[v] \subseteq {"SIGTERM"}
      BY <1>2, <2>3, TerminatedType DEF MasterSignal, NoOthers
    <2>4. ASSUME NEW w \in Workers, NEW sig \in Signals, EarlySignal(w, sig)
          PROVE  to_worker'[v] \subseteq {"SIGTERM"}
      <3> DEFINE T == Terminated(1..(w - 1))
      <3>1. /\ T \in [Workers -> SUBSET {"SIGINT", "SIGTERM"}]
            /\ T[v] \subseteq to_worker[v] \cup {"SIGTERM"}
        BY TerminatedType
      <3> HIDE DEF T
      <3>2. to_worker' = [T EXCEPT ![w] = @ \ {sig}] /\ interrupted' = interrupted
        BY <2>4 DEF EarlySignal, T
      <3>3. to_worker'[v] \subseteq T[v]
        BY <3>1, <3>2
      <3>4. QED
        BY <1>2, <3>1, <3>2, <3>3 DEF NoOthers
    <2>5. ASSUME NEW w \in Workers, NEW sig \in Signals, WorkerSignal(w, sig)
          PROVE  to_worker'[v] \subseteq {"SIGTERM"}
      <3>1. to_worker'[v] \subseteq to_worker[v] /\ interrupted' = interrupted
        BY <2>5 DEF WorkerSignal, TypeOK
      <3>2. QED
        BY <1>2, <3>1 DEF NoOthers
    <2>6. ASSUME NEW w \in Workers, Drained(w) \/ Crash(w)
          PROVE  to_worker'[v] \subseteq {"SIGTERM"}
      <3>1. to_worker'[v] \subseteq to_worker[v] /\ interrupted' = interrupted
        BY <2>6 DEF Drained, Crash, TypeOK
      <3>2. QED
        BY <1>2, <3>1 DEF NoOthers
    <2>7. CASE Interrupt
      BY <1>2, <2>7 DEF Interrupt
    <2>8. ASSUME \/ \E sig \in Signals : Ask(sig) \/ ReloaderSignal(sig)
                 \/ Edit \/ BootFails \/ BootSignal \/ PopenReturns \/ ChildDone \/ SetHandlers
                 \/ JoinBegins \/ Joined \/ UNCHANGED vars
                 \/ \E w \in Workers : StartWorker(w) \/ AddWorker(w) \/ Serves(w) \/ LoopEnds(w)
                                        \/ Detect(w) \/ NotifyMaster(w)
          PROVE  to_worker' = to_worker /\ interrupted' = interrupted
      BY <2>8 DEF Ask, Edit, BootFails, BootSignal, PopenReturns, ChildDone, ReloaderSignal,
                  SetHandlers, JoinBegins, Joined, StartWorker, AddWorker, Serves, LoopEnds,
                  Detect, NotifyMaster, vars
    <2>9. QED
      BY <2>1, <2>2, <2>3, <2>4, <2>5, <2>6, <2>7, <2>8
         DEF Next, ReloaderStep, MasterStep, WorkerStep, DetectorStep, Signals
  <1>3. QED
    BY <1>1, <1>2 DEF NoOthers

\* The one signal goes from the master to the workers, and each handles its own.
LEMMA OneHeededStep ==
  ASSUME TypeOK, NoOthers, OneHeeded, [Next]_vars
  PROVE  OneHeeded'
  <1> SUFFICES ASSUME OneAtMost'
               PROVE  /\ requests' = 0 => /\ to_master' = {} /\ ~heeded'
                                          /\ \A w \in Workers : to_worker'[w] = {}
                      /\ to_master' # {} =>
                            /\ ~heeded' /\ \A w \in Workers : to_worker'[w] = {}
                            /\ \E sig \in Signals : to_master' = {sig}
                      /\ heeded' =>
                            \A w \in Workers :
                               /\ worker'[w] \notin {"absent", "starting", "aborted"}
                               /\ worker'[w] # "serving" => to_worker'[w] = {}
    BY DEF OneHeeded
  <1> USE DEF reloader_vars, master_vars, worker_vars, signal_vars, history_vars
  <1>0. /\ OneAtMost /\ reloader = "none" /\ dirty = {} /\ notifying = {}
        /\ \A w \in Workers : to_worker[w] \subseteq {"SIGTERM"}
        /\ requests \in Nat
    BY OneBefore DEF NoOthers, OneAtMost, TypeOK
  <1>1. /\ requests = 0 => to_master = {} /\ ~heeded /\ \A w \in Workers : to_worker[w] = {}
        /\ to_master # {} =>
              /\ ~heeded /\ \A w \in Workers : to_worker[w] = {}
              /\ \E sig \in Signals : to_master = {sig}
        /\ heeded =>
              \A w \in Workers :
                 /\ worker[w] \notin {"absent", "starting", "aborted"}
                 /\ worker[w] # "serving" => to_worker[w] = {}
    BY <1>0 DEF OneHeeded
  <1>2. ASSUME NEW sig \in {"SIGTERM", "SIGHUP"}, Ask(sig) PROVE OneHeeded'
    <2>1. requests = 0 /\ requests' = 1
      BY <1>0, <1>2 DEF Ask, OneAtMost
    <2>2. /\ to_master' = {sig} /\ sig \in Signals
          /\ UNCHANGED <<heeded, worker, to_worker>>
      BY <1>0, <1>1, <1>2, <2>1 DEF Ask, OneAtMost, Signals
    <2>3. QED
      BY <1>1, <2>1, <2>2 DEF OneHeeded
  <1>3. ASSUME NEW sig \in Signals, MasterSignal(sig) PROVE OneHeeded'
    <2>1. /\ to_master' = {} /\ ~heeded /\ requests' = requests /\ requests # 0
          /\ worker' = worker
      BY <1>1, <1>3 DEF MasterSignal
    <2>2. heeded' => \A w \in Workers : worker'[w] = "serving"
      BY <1>3, <2>1 DEF MasterSignal, Up
    <2>3. QED
      BY <2>1, <2>2 DEF OneHeeded
  <1>4. ASSUME NEW w \in Workers, NEW sig \in Signals, EarlySignal(w, sig) PROVE OneHeeded'
    <2>1. /\ to_master = {} /\ ~heeded /\ requests # 0
      BY <1>1, <1>4 DEF EarlySignal
    <2>2. UNCHANGED <<to_master, heeded, requests>>
      BY <1>4 DEF EarlySignal
    <2>3. QED
      BY <2>1, <2>2 DEF OneHeeded
  <1>5. ASSUME NEW w \in Workers, NEW sig \in Signals, WorkerSignal(w, sig) PROVE OneHeeded'
    <2>1. /\ to_master = {} /\ requests # 0 /\ UNCHANGED <<to_master, heeded, requests>>
      BY <1>1, <1>5 DEF WorkerSignal
    <2>2. ASSUME heeded
          PROVE  /\ worker[w] = "serving" /\ worker' = [worker EXCEPT ![w] = "stopping"]
                 /\ to_worker' = [to_worker EXCEPT ![w] = {}]
      <3>1. worker[w] = "serving"
        BY <1>1, <1>5, <2>2 DEF WorkerSignal
      <3>2. to_worker[w] \ {sig} = {}
        BY <1>0, <1>5 DEF WorkerSignal
      <3>3. QED
        BY <1>5, <3>1, <3>2 DEF WorkerSignal
    <2>3. heeded => \A v \in Workers :
              /\ worker'[v] \notin {"absent", "starting", "aborted"}
              /\ worker'[v] # "serving" => to_worker'[v] = {}
      BY <1>1, <2>2 DEF TypeOK
    <2>4. QED
      BY <2>1, <2>3 DEF OneHeeded
  <1>6. ASSUME NEW w \in Workers, Drained(w) \/ Crash(w) PROVE OneHeeded'
    <2>1. /\ UNCHANGED <<to_master, heeded, requests>>
          /\ to_worker' = [to_worker EXCEPT ![w] = {}]
          /\ \E s \in {"exited", "crashed"} : worker' = [worker EXCEPT ![w] = s]
      BY <1>6 DEF Drained, Crash
    <2>2. QED
      BY <1>1, <2>1 DEF OneHeeded, TypeOK
  <1>7. ASSUME NEW w \in Workers, Serves(w) \/ LoopEnds(w) \/ StartWorker(w) PROVE OneHeeded'
    <2>1. UNCHANGED <<to_master, heeded, requests, to_worker>>
      BY <1>7 DEF Serves, LoopEnds, StartWorker
    <2>2. ASSUME heeded, NEW v \in Workers
          PROVE  /\ worker'[v] \notin {"absent", "starting", "aborted"}
                 /\ worker'[v] # "serving" => to_worker'[v] = {}
      <3>1. worker[w] \notin {"absent", "starting"}
        BY <1>1, <2>2
      <3>2. worker[w] = "stopping" /\ worker' = [worker EXCEPT ![w] = "draining"]
        BY <1>7, <3>1 DEF Serves, LoopEnds, StartWorker
      <3>3. QED
        BY <1>1, <2>1, <2>2, <3>2 DEF TypeOK
    <2>3. QED
      BY <1>1, <2>1, <2>2 DEF OneHeeded
  <1>8. ASSUME BootFails \/ BootSignal \/ Joined PROVE OneHeeded'
    <2>1. to_master' = {} /\ UNCHANGED <<heeded, requests, worker, to_worker>>
      BY <1>8 DEF BootFails, BootSignal, Joined
    <2>2. QED
      BY <1>1, <2>1 DEF OneHeeded
  <1>9. ASSUME \/ Edit \/ Interrupt \/ ReloaderStep
               \/ \E w \in Workers : DetectorStep(w)
        PROVE  FALSE
    BY <1>0, <1>9 DEF Edit, Interrupt, ReloaderStep, Popen, PopenReturns, ChildDone,
       ReloaderSignal, LiveReloader, DetectorStep, Detect, NotifyMaster, OneAtMost
  <1>10. ASSUME \/ SetHandlers \/ JoinBegins \/ UNCHANGED vars
                \/ \E w \in Workers : AddWorker(w)
         PROVE  OneHeeded'
    <2>1. UNCHANGED <<to_master, heeded, requests, worker, to_worker>>
      BY <1>10 DEF SetHandlers, JoinBegins, AddWorker, vars
    <2>2. QED
      BY <1>1, <2>1 DEF OneHeeded
  <1>11. OneHeeded'
    <2>1. ASSUME MasterStep PROVE OneHeeded'
      BY <2>1, <1>3, <1>7, <1>8, <1>10 DEF MasterStep
    <2>2. ASSUME NEW w \in Workers, WorkerStep(w) PROVE OneHeeded'
      BY <2>2, <1>4, <1>5, <1>6, <1>7 DEF WorkerStep
    <2>3. QED
      BY <2>1, <2>2, <1>2, <1>6, <1>8, <1>9, <1>10 DEF Next
  <1>12. QED
    BY <1>11 DEF OneHeeded

\* Without the reloader a single signal to an application that is up reaches each worker
\* exactly once: none is cut short in its drain, for every number of workers.
THEOREM OneSignalIsGraceful == Spec => []OnceIsGraceful
  <1>1. Init => Graceful
    <2>1. Init => TypeOK
      BY InitTypes
    <2>2. Init => NoOthers /\ OneHeeded
      BY DEF Init, NoOthers, OneHeeded
    <2>3. QED
      BY <2>1, <2>2 DEF Graceful
  <1>2. Graceful /\ [Next]_vars => Graceful'
    BY TypeStep, NoOthersStep, OneHeededStep DEF Graceful
  <1>3. Graceful => OnceIsGraceful
    BY DEF Graceful, OneHeeded, OneAtMost, OnceIsGraceful
  <1>4. QED
    BY <1>1, <1>2, <1>3, PTL DEF Spec
=============================================================================
