------------------------------ MODULE Pipeline ------------------------------
(***************************************************************************)
(* pipeline/cpipeline.c as cprotocol.c builds it (PIPELINE_PAIR): the      *)
(* array of responses that wait for an earlier request of the connection.  *)
(*                                                                         *)
(* An entry is known by its number, the order in which Pipeline_queue took *)
(* it.  The entry carries a task (an asynchronous handler is running) or a *)
(* finished response (a synchronous handler ran while earlier requests     *)
(* were still pending).  The ready callback is Protocol_pipeline_ready: it *)
(* writes the response of one entry and may fail, before or after the      *)
(* write.  Tasks and the callbacks they schedule belong to the event loop  *)
(* (asyncio), modelled from the way this code uses them.                   *)
(***************************************************************************)
EXTENDS Integers, Sequences

CONSTANTS
    QueueSlots,     \* length of the array queue, 10 in cpipeline.h
    MaxEntries,     \* bound: entries queued in one behaviour
    ReadyMayFail    \* may the ready callback return NULL?

ASSUME PipelineAssumption ==
    /\ QueueSlots \in Nat \ {0}
    /\ MaxEntries \in Nat
    /\ ReadyMayFail \in BOOLEAN

VARIABLES
    queue,          \* the slots; slot i holds the entry queue[i]
    queue_start,    \* index of the oldest entry still waiting
    queue_end,      \* index of the first free slot
    queued,         \* number of entries taken by Pipeline_queue so far
    finished,       \* entries whose task is done(), by result, exception or cancel
    cancelled,      \* entries whose task got cancel() while it was not done
    callbacks,      \* calls of _task_done the event loop still has to make
    protocol_refs,  \* references to the protocol the pipeline holds
    written,        \* history: the entries the ready callback wrote, in order
    ready_failed,   \* history: some call of ready returned NULL
    aborted         \* assert() stopped the process

vars == <<queue, queue_start, queue_end, queued, finished, cancelled,
          callbacks, protocol_refs, written, ready_failed, aborted>>

Entries == 1..MaxEntries
NoEntry == [number |-> 0, is_task |-> FALSE]
PipelineEntry == [number : 0..MaxEntries, is_task : BOOLEAN]
Slots == 0..(QueueSlots - 1)

Pipeline_init ==
    /\ queue = [i \in Slots |-> NoEntry]
    /\ queue_start = 0
    /\ queue_end = 0
    /\ queued = 0
    /\ finished = {}
    /\ cancelled = {}
    /\ callbacks = 0
    /\ protocol_refs = 0
    /\ written = << >>
    /\ ready_failed = FALSE
    /\ aborted = FALSE

PIPELINE_EMPTY == queue_start = queue_end

\* The slots between the indexes.
Waiting == queue_start..(queue_end - 1)

\* Mutant: the loop forgets to ask the task whether it is done.
RunnableUnasked(i) == i >= 0
\* An entry ready() may be called for: a response, or a task that is done.
Runnable(i) == ~queue[i].is_task \/ queue[i].number \in finished

------------------------------------------------------------------------------
\* Mutant: a full array is reused from the first slot.
QueueResetWraps == IF PIPELINE_EMPTY \/ queue_end = QueueSlots THEN 0 ELSE queue_end
\* Pipeline_queue.  The indexes go back to the first slot only when the
\* pipeline is empty; the assert on queue_end comes after that reset and after
\* the reference is taken.
QueueReset == IF PIPELINE_EMPTY THEN 0 ELSE queue_end

PipelineOverflow ==
    /\ QueueReset = QueueSlots
    /\ aborted' = TRUE
    /\ UNCHANGED <<queue, queue_start, queue_end, queued, finished, cancelled,
                   callbacks, protocol_refs, written, ready_failed>>

\* Mutant: the assert compares with <=.
PipelineStoreOffByOne(is_task) ==
    /\ QueueReset <= QueueSlots
    /\ queue_start' = IF PIPELINE_EMPTY THEN 0 ELSE queue_start
    /\ queue_end' = QueueReset + 1
    /\ queue' = [queue EXCEPT ![QueueReset % QueueSlots] =
                    [number |-> queued + 1, is_task |-> is_task]]
    /\ queued' = queued + 1
    /\ protocol_refs' = protocol_refs + (IF PIPELINE_EMPTY THEN 1 ELSE 0)
    /\ UNCHANGED <<finished, cancelled, callbacks, written, ready_failed, aborted>>

PipelineStore(is_task) ==
    /\ QueueReset < QueueSlots
    /\ queue_start' = IF PIPELINE_EMPTY THEN 0 ELSE queue_start
    /\ queue_end' = QueueReset + 1
    /\ queue' = [queue EXCEPT ![QueueReset] =
                    [number |-> queued + 1, is_task |-> is_task]]
    /\ queued' = queued + 1
    /\ protocol_refs' = protocol_refs + (IF PIPELINE_EMPTY THEN 1 ELSE 0)
    /\ UNCHANGED <<finished, cancelled, callbacks, written, ready_failed, aborted>>

Pipeline_queue(is_task) ==
    /\ ~aborted
    /\ queued < MaxEntries
    /\ PipelineOverflow \/ PipelineStore(is_task)

\* Mutant: a response is queued although nothing is ahead of it.
ProtocolQueuesAlways(is_task) == is_task \in BOOLEAN /\ Pipeline_queue(is_task)

\* The protocol queues a task at any time and a response only behind other
\* entries (Protocol_on_body and Protocol_handle_coro).
ProtocolQueues(is_task) ==
    /\ is_task \/ ~PIPELINE_EMPTY
    /\ Pipeline_queue(is_task)

------------------------------------------------------------------------------
\* Pipeline__task_done.  The loop hands over the runnable entries from
\* queue_start up to `stop`, the first one that is not runnable.  When ready
\* fails at `stop` before that, the entries already handed over were written
\* and released, yet queue_start is not moved past them: the function leaves
\* by its error path before the assignment.
NumbersOf(first, last) == [k \in 1..(last - first) |-> queue[first + k - 1].number]

\* Mutant: queue_start stays on the entry before the one that stopped the loop.
DrainToShort(stop) ==
    /\ stop < queue_end => ~Runnable(stop)
    /\ written' = written \o NumbersOf(queue_start, stop)
    /\ queue_start' = IF stop > queue_start + 1 THEN stop - 1 ELSE stop
    /\ protocol_refs' = protocol_refs - (IF stop = queue_end THEN 1 ELSE 0)
    /\ UNCHANGED ready_failed

DrainTo(stop) ==
    /\ stop < queue_end => ~Runnable(stop)
    /\ written' = written \o NumbersOf(queue_start, stop)
    /\ queue_start' = stop
    /\ protocol_refs' = protocol_refs - (IF stop = queue_end THEN 1 ELSE 0)
    /\ UNCHANGED ready_failed

\* Mutant: the error path steps over the entry whose ready failed.
FailAtSkips(stop) ==
    /\ ReadyMayFail
    /\ stop < queue_end /\ Runnable(stop)
    /\ \E wrote \in {0, 1} :
          written' = written \o NumbersOf(queue_start, stop + wrote)
    /\ ready_failed' = TRUE
    /\ queue_start' = stop + 1
    /\ UNCHANGED protocol_refs

FailAt(stop) ==
    /\ ReadyMayFail
    /\ stop < queue_end /\ Runnable(stop)
    /\ \E wrote \in {0, 1} :
          written' = written \o NumbersOf(queue_start, stop + wrote)
    /\ ready_failed' = TRUE
    /\ UNCHANGED <<queue_start, protocol_refs>>

Pipeline_task_done ==
    /\ ~aborted
    /\ callbacks > 0
    /\ callbacks' = callbacks - 1
    /\ \E stop \in queue_start..queue_end :
          /\ \A i \in queue_start..(stop - 1) : Runnable(i)
          /\ DrainTo(stop) \/ FailAt(stop)
    /\ UNCHANGED <<queue, queue_end, queued, finished, cancelled, aborted>>

------------------------------------------------------------------------------
\* Pipeline_cancel, from Protocol_connection_lost and from Application.drain:
\* cancel() on the task of every waiting entry; a task already done ignores it.
Pipeline_cancel ==
    /\ ~aborted
    /\ cancelled' = cancelled \union
          {queue[i].number : i \in {j \in Waiting :
               queue[j].is_task /\ queue[j].number \notin finished}}
    /\ UNCHANGED <<queue, queue_start, queue_end, queued, finished, callbacks,
                   protocol_refs, written, ready_failed, aborted>>

\* The event loop: the coroutine of a queued task returns or raises, and
\* asyncio schedules the callback add_done_callback registered.
TaskFinishes(i) ==
    /\ ~aborted
    /\ queue[i].is_task
    /\ queue[i].number \notin finished
    /\ finished' = finished \union {queue[i].number}
    /\ callbacks' = callbacks + 1
    /\ UNCHANGED <<queue, queue_start, queue_end, queued, cancelled,
                   protocol_refs, written, ready_failed, aborted>>

Next ==
    \/ \E is_task \in BOOLEAN : ProtocolQueues(is_task)
    \/ Pipeline_task_done
    \/ Pipeline_cancel
    \/ \E i \in Waiting : TaskFinishes(i)

\* The event loop runs every callback it scheduled.
Spec == Pipeline_init /\ [][Next]_vars /\ WF_vars(Pipeline_task_done)

------------------------------------------------------------------------------
TypeOK ==
    /\ queue \in [Slots -> PipelineEntry]
    /\ queue_end \in 0..QueueSlots
    /\ queue_start \in 0..queue_end
    /\ queued \in 0..MaxEntries
    /\ finished \subseteq 1..queued
    /\ cancelled \subseteq 1..queued
    /\ callbacks \in Nat
    /\ protocol_refs \in Int
    /\ written \in Seq(Entries)
    /\ ready_failed \in BOOLEAN
    /\ aborted \in BOOLEAN

\* The entries before queue_start, in the order they were queued.
LeftQueue == queued - (queue_end - queue_start)

\* Responses leave in the order the requests were queued and each of them
\* exactly once, whatever the order in which tasks finish and callbacks run, as
\* long as no ready() call fails: the contract of _task_done and Pipeline_queue.
WrittenInOrder ==
    ~ready_failed => /\ Len(written) = LeftQueue
                     /\ \A k \in 1..Len(written) : written[k] = k

\* No response waits for an event that will not come: whenever the oldest entry
\* could be written, a _task_done call is already scheduled.  Responses without
\* a task register no callback, so this rests on where they may be queued.
NoLostWakeup ==
    ~ready_failed /\ ~PIPELINE_EMPTY /\ Runnable(queue_start) => callbacks > 0

\* Even when ready() fails, _task_done never drops a response: every entry that
\* left the queue was written at least once.
NeverDropped == \A e \in 1..LeftQueue : \E k \in 1..Len(written) : written[k] = e

\* Queueing never overwrites the slot of an entry that is still waiting, although
\* the array is not circular and is reused from its first slot.
WaitingNeverOverwritten ==
    [][\A i \in Waiting : queue'[i] = queue[i]]_vars

\* The pipeline holds one reference to the protocol exactly while it is not
\* empty, as the comments in Pipeline_queue and Pipeline__task_done say.
ProtocolHeldWhileBusy ==
    protocol_refs = IF PIPELINE_EMPTY THEN 0 ELSE 1

\* The assert in Pipeline_queue: there is always a free slot for a request.
NeverOverflows == ~aborted

\* The pipeline implements ordered, exactly-once hand-over of complete entries.
PendingTasks == {queue[i].number : i \in {j \in Waiting : ~Runnable(j)}}
Fifo == INSTANCE PipelineFifo WITH
            accepted <- queued,
            complete <- (1..queued) \ PendingTasks,
            handed <- LeftQueue,
            alive <- ~aborted

\* Refinement: every behaviour of the slot array, the scheduled callbacks and the
\* indexes is one of the ordered hand-over, and, unless a ready() fails, the
\* callbacks the event loop runs are enough to hand over what is complete.
ImplementsFifo == Fifo!Safety /\ (<>ready_failed \/ Fifo!Fairness)
==============================================================================
