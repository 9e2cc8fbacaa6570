------------------------------- MODULE Reaper -------------------------------
(***************************************************************************)
(* protocol/creaper.c: the timer of a worker that closes connections on    *)
(* which nothing was read for a while, and the counters it keeps in every  *)
(* protocol (cprotocol.h).                                                 *)
(*                                                                         *)
(* Time passes in ticks of one second.  The event loop runs the timer on   *)
(* time: no tick passes while a check is due.  silent is what a clock next *)
(* to the connection would show, the code knows only the counters.         *)
(***************************************************************************)
EXTENDS Integers

CONSTANTS
    Connections,    \* the connections that may exist
    CheckInterval,  \* check_interval, 10 by default
    IdleTimeout,    \* idle_timeout, 60 by default
    MaxReads,       \* bound: reads on one connection
    MaxSilence      \* bound: silence on one connection

\* The code only asserts check_interval >= 0; with 0 idle_time would never grow.
ASSUME ReaperAssumption ==
    /\ CheckInterval \in Nat \ {0}
    /\ IdleTimeout \in Nat
    /\ MaxReads \in Nat
    /\ MaxSilence \in Nat

VARIABLES
    state,          \* "absent" from app._connections, "open", or closed but not yet
                    \* lost: "reaped" by the reaper, "closing" otherwise
    read_ops,       \* calls of data_received
    last_read_ops,  \* read_ops at the last check that saw it change
    idle_time,      \* seconds of idleness the checks have added up
    silent,         \* history: seconds since the last read, or since connection_made
    since_check,    \* seconds since the last check, or since the timer was started
    running         \* FALSE after Reaper.stop

reaper_vars == <<state, read_ops, last_read_ops, idle_time, silent, since_check, running>>

Present == {c \in Connections : state[c] # "absent"}

\* Reaper_init schedules the first check.
ReaperInit ==
    /\ state = [c \in Connections |-> "absent"]
    /\ read_ops = [c \in Connections |-> 0]
    /\ last_read_ops = [c \in Connections |-> 0]
    /\ idle_time = [c \in Connections |-> 0]
    /\ silent = [c \in Connections |-> 0]
    /\ since_check = 0
    /\ running = TRUE

\* Protocol_connection_made
ConnectionMade(c) ==
    /\ state[c] = "absent"
    /\ state' = [state EXCEPT ![c] = "open"]
    /\ idle_time' = [idle_time EXCEPT ![c] = 0]
    /\ read_ops' = [read_ops EXCEPT ![c] = 0]
    /\ last_read_ops' = [last_read_ops EXCEPT ![c] = 0]
    /\ silent' = [silent EXCEPT ![c] = 0]
    /\ UNCHANGED <<since_check, running>>

\* Protocol_data_received; a closing transport does not read.
DataReceived(c) ==
    /\ state[c] = "open"
    /\ read_ops[c] < MaxReads
    /\ read_ops' = [read_ops EXCEPT ![c] = @ + 1]
    /\ silent' = [silent EXCEPT ![c] = 0]
    /\ UNCHANGED <<state, last_read_ops, idle_time, since_check, running>>

\* Protocol_connection_lost: on its own, or as the effect of close(), which a slow
\* peer may delay.
ConnectionLost(c) ==
    /\ state[c] # "absent"
    /\ state' = [state EXCEPT ![c] = "absent"]
    /\ UNCHANGED <<read_ops, last_read_ops, idle_time, silent, since_check, running>>

\* Something else closes connections: a response without keep-alive, an error of
\* the parser, the drain.
CloseSome(S) ==
    /\ \A c \in S : state[c] = "open"
    /\ state' = [c \in Connections |-> IF c \in S THEN "closing" ELSE state[c]]
    /\ UNCHANGED <<read_ops, last_read_ops, idle_time, silent, since_check, running>>

Idle(c) == read_ops[c] = last_read_ops[c]

\* Mutant: the interval is taken off, not added.
IdleTakenOff(c) == IF Idle(c) THEN idle_time[c] - CheckInterval ELSE 0

\* Mutant: a read is noticed but the idle time is kept.
IdleKept(c) == IF Idle(c) THEN idle_time[c] + CheckInterval ELSE idle_time[c]

IdleAfterCheck(c) == IF Idle(c) THEN idle_time[c] + CheckInterval ELSE 0

\* Mutant: the timeout is compared before the interval is added.
OverdueLate(c) == Idle(c) /\ idle_time[c] > IdleTimeout

\* The connections a check closes.
Overdue(c) == Idle(c) /\ IdleAfterCheck(c) >= IdleTimeout

\* Reaper__check_idle: every connection of the set, then the next check is
\* scheduled.  Closing a connection that is closing already changes nothing.
CheckIdle ==
    /\ running
    /\ since_check = CheckInterval
    /\ idle_time' = [c \in Connections |->
                        IF c \in Present THEN IdleAfterCheck(c) ELSE idle_time[c]]
    /\ last_read_ops' = [c \in Connections |->
                        IF c \in Present THEN read_ops[c] ELSE last_read_ops[c]]
    /\ state' = [c \in Connections |->
                        IF state[c] = "open" /\ Overdue(c) THEN "reaped" ELSE state[c]]
    /\ since_check' = 0
    /\ UNCHANGED <<read_ops, silent, running>>

\* Reaper_stop cancels the timer.
Stop ==
    /\ running
    /\ running' = FALSE
    /\ UNCHANGED <<state, read_ops, last_read_ops, idle_time, silent, since_check>>

Tick ==
    /\ running => since_check < CheckInterval
    /\ \A c \in Present : silent[c] < MaxSilence
    /\ silent' = [c \in Connections |-> IF c \in Present THEN silent[c] + 1 ELSE silent[c]]
    /\ since_check' = IF running THEN since_check + 1 ELSE since_check
    /\ UNCHANGED <<state, read_ops, last_read_ops, idle_time, running>>

ReaperNext ==
    \/ \E c \in Connections : ConnectionMade(c) \/ DataReceived(c) \/ ConnectionLost(c)
    \/ \E S \in SUBSET Connections : CloseSome(S)
    \/ CheckIdle
    \/ Stop
    \/ Tick

ReaperSpec == ReaperInit /\ [][ReaperNext]_reaper_vars

------------------------------------------------------------------------------
ReaperTypeOK ==
    /\ state \in [Connections -> {"absent", "open", "closing", "reaped"}]
    /\ read_ops \in [Connections -> Nat]
    /\ last_read_ops \in [Connections -> Nat]
    /\ idle_time \in [Connections -> Nat]
    /\ silent \in [Connections -> Nat]
    /\ since_check \in 0..CheckInterval
    /\ running \in BOOLEAN

\* A connection is reaped only after real silence: at least the timeout once
\* something was read on it, and no more than one interval less when nothing ever
\* was (its first check counts a full interval whenever it was made).
ReapedOnlyWhenSilent ==
    [][\A c \in Connections :
          state[c] = "open" /\ state'[c] = "reaped" =>
              silent[c] + (IF read_ops[c] = 0 THEN CheckInterval ELSE 0) >= IdleTimeout]_reaper_vars

\* A silent connection does not survive: counting in whole intervals delays the
\* close by less than two of them.
ReapedInTime ==
    running => \A c \in Connections :
        state[c] = "open" => silent[c] <= IdleTimeout + 2 * CheckInterval
=============================================================================
