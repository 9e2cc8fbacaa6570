--------------------------- MODULE PipelineProofs ---------------------------
(***************************************************************************)
(* Proofs about Pipeline for every number of slots and entries.            *)
(***************************************************************************)
EXTENDS Pipeline, TLAPS

\* The waiting entries carry consecutive numbers that end with the last one
\* queued: slot i holds the entry that is queue_end - i places from the end.
ConsecutiveNumbers ==
    \A i \in Waiting : queue[i].number = queued + 1 - (queue_end - i)

\* What the indexes mean: the entries in the array are the last ones queued.
WindowInv ==
    /\ TypeOK
    /\ LeftQueue >= 0
    /\ ConsecutiveNumbers

\* The inductive invariant.
IInv == WindowInv /\ WrittenInOrder /\ NoLostWakeup

------------------------------------------------------------------------------
\* The slots drained by one _task_done call hold the next numbers in line.
LEMMA DrainedNumbers ==
    ASSUME WindowInv,
           NEW stop \in queue_start..queue_end
    PROVE  /\ NumbersOf(queue_start, stop) \in Seq(Entries)
           /\ Len(NumbersOf(queue_start, stop)) = stop - queue_start
           /\ \A k \in 1..(stop - queue_start) :
                 NumbersOf(queue_start, stop)[k] = LeftQueue + k
  <1>0. /\ queue_start \in Nat /\ queue_end \in Nat /\ queued \in Nat /\ QueueSlots \in Nat
        /\ queue_start <= stop /\ stop <= queue_end /\ queue_end <= QueueSlots
        /\ queued <= MaxEntries /\ MaxEntries \in Nat /\ stop \in Nat
    BY PipelineAssumption DEF WindowInv, TypeOK
  <1>1. \A k \in 1..(stop - queue_start) :
            queue[queue_start + k - 1].number = LeftQueue + k
    BY <1>0 DEF WindowInv, ConsecutiveNumbers, Waiting, LeftQueue
  <1>2. \A k \in 1..(stop - queue_start) : LeftQueue + k \in Entries
    BY <1>0 DEF WindowInv, LeftQueue, Entries
  <1>3. stop - queue_start \in Nat
    BY <1>0
  <1>4. NumbersOf(queue_start, stop) \in [1..(stop - queue_start) -> Entries]
    BY <1>1, <1>2 DEF NumbersOf
  <1>5. NumbersOf(queue_start, stop) \in Seq(Entries)
    BY <1>3, <1>4
  <1>6. Len(NumbersOf(queue_start, stop)) = stop - queue_start
    BY <1>3, <1>4 DEF NumbersOf
  <1>7. QED
    BY <1>1, <1>5, <1>6 DEF NumbersOf

\* An empty pipeline satisfies the invariant.
THEOREM InitInductive == Pipeline_init => IInv
  <1> SUFFICES ASSUME Pipeline_init PROVE IInv
    OBVIOUS
  <1>1. TypeOK
    <2>1. queue \in [Slots -> PipelineEntry]
      BY PipelineAssumption DEF Pipeline_init, PipelineEntry, NoEntry
    <2>2. written \in Seq(Entries)
      BY DEF Pipeline_init
    <2>3. /\ queue_end \in 0..QueueSlots /\ queue_start \in 0..queue_end
          /\ queued \in 0..MaxEntries /\ callbacks \in Nat /\ protocol_refs \in Int
      BY PipelineAssumption DEF Pipeline_init
    <2>4. finished \subseteq 1..queued /\ cancelled \subseteq 1..queued
      BY DEF Pipeline_init
    <2>5. ready_failed \in BOOLEAN /\ aborted \in BOOLEAN
      BY DEF Pipeline_init
    <2>6. QED
      BY <2>1, <2>2, <2>3, <2>4, <2>5 DEF TypeOK
  <1>2. LeftQueue >= 0 /\ ConsecutiveNumbers
    BY DEF Pipeline_init, LeftQueue, ConsecutiveNumbers, Waiting
  <1>3. WrittenInOrder /\ NoLostWakeup
    BY DEF Pipeline_init, WrittenInOrder, NoLostWakeup, LeftQueue, PIPELINE_EMPTY
  <1>4. QED
    BY <1>1, <1>2, <1>3 DEF IInv, WindowInv

------------------------------------------------------------------------------
\* Pipeline_queue keeps the invariant when there is a free slot.
LEMMA StoreInductive ==
    ASSUME IInv, NEW is_task \in BOOLEAN, queued < MaxEntries,
           is_task \/ ~PIPELINE_EMPTY, PipelineStore(is_task)
    PROVE  IInv'
  <1> DEFINE new == [number |-> queued + 1, is_task |-> is_task]
  <1>0. /\ queue_start \in Nat /\ queue_end \in Nat /\ queued \in Nat /\ QueueSlots \in Nat
        /\ queue_start <= queue_end /\ queue_end <= QueueSlots /\ MaxEntries \in Nat
        /\ queued < MaxEntries
    BY PipelineAssumption DEF IInv, WindowInv, TypeOK
  <1>1. /\ QueueReset \in Slots
        /\ queue_end' = QueueReset + 1
        /\ queue_start' = (IF PIPELINE_EMPTY THEN 0 ELSE queue_start)
        /\ queue' = [queue EXCEPT ![QueueReset] = new]
        /\ queued' = queued + 1
        /\ finished' = finished /\ cancelled' = cancelled /\ callbacks' = callbacks
        /\ written' = written /\ ready_failed' = ready_failed /\ aborted' = aborted
    BY <1>0 DEF PipelineStore, QueueReset, Slots
  <1>2. new \in PipelineEntry
    BY <1>0 DEF PipelineEntry
  <1>3. queue \in [Slots -> PipelineEntry] /\ queue' \in [Slots -> PipelineEntry]
    BY <1>1, <1>2 DEF IInv, WindowInv, TypeOK
  <1>4. queue_end' - queue_start' = queue_end - queue_start + 1
    BY <1>0, <1>1 DEF QueueReset, PIPELINE_EMPTY
  <1>5. TypeOK'
    <2>1. /\ queue_end' \in 0..QueueSlots /\ queue_start' \in 0..queue_end'
          /\ queued' \in 0..MaxEntries /\ callbacks' \in Nat
      BY <1>0, <1>1 DEF QueueReset, PIPELINE_EMPTY, Slots, IInv, WindowInv, TypeOK
    <2>2. finished' \subseteq 1..queued' /\ cancelled' \subseteq 1..queued'
      BY <1>0, <1>1 DEF IInv, WindowInv, TypeOK
    <2>3. protocol_refs' \in Int
      BY DEF PipelineStore, IInv, WindowInv, TypeOK
    <2>4. written' \in Seq(Entries) /\ ready_failed' \in BOOLEAN /\ aborted' \in BOOLEAN
      BY <1>1 DEF IInv, WindowInv, TypeOK
    <2>5. QED
      BY <1>3, <2>1, <2>2, <2>3, <2>4 DEF TypeOK
  <1>6. (LeftQueue >= 0)' /\ LeftQueue' = LeftQueue
    BY <1>0, <1>1, <1>4 DEF LeftQueue, IInv, WindowInv
  <1>7. ConsecutiveNumbers'
    <2> SUFFICES ASSUME NEW i \in Waiting'
                 PROVE  queue'[i].number = queued' + 1 - (queue_end' - i)
      BY DEF ConsecutiveNumbers
    <2>1. i \in queue_start'..QueueReset /\ i \in Slots
      BY <1>0, <1>1 DEF Waiting, Slots
    <2>2. CASE i = QueueReset
      <3>1. queue'[i].number = queued + 1
        BY <2>2, <1>1, <1>3
      <3>2. queued' + 1 - (queue_end' - i) = queued + 1
        BY <2>1, <2>2, <1>0, <1>1 DEF Slots
      <3>3. QED
        BY <3>1, <3>2
    <2>3. CASE i # QueueReset
      <3>1. ~PIPELINE_EMPTY
        BY <2>1, <2>3, <1>0, <1>1 DEF QueueReset, PIPELINE_EMPTY
      <3>2. i \in Waiting /\ QueueReset = queue_end
        BY <2>1, <2>3, <3>1, <1>0, <1>1 DEF QueueReset, Waiting
      <3>3. queue'[i] = queue[i]
        BY <1>1, <1>3, <2>1, <2>3
      <3>4. queue[i].number = queued + 1 - (queue_end - i)
        BY <3>2 DEF IInv, WindowInv, ConsecutiveNumbers
      <3>5. queued' + 1 - (queue_end' - i) = queued + 1 - (queue_end - i)
        BY <2>1, <3>2, <1>0, <1>1 DEF Slots
      <3>6. QED
        BY <3>3, <3>4, <3>5
    <2>4. QED
      BY <2>2, <2>3
  <1>8. WrittenInOrder'
    BY <1>1, <1>6 DEF IInv, WrittenInOrder
  <1>9. NoLostWakeup'
    <2> SUFFICES ASSUME ~ready_failed, Runnable(queue_start)'
                 PROVE  callbacks > 0
      BY <1>1 DEF NoLostWakeup
    <2>1. CASE PIPELINE_EMPTY
      <3>1. is_task /\ queue_start' = QueueReset
        BY <2>1, <1>1 DEF QueueReset
      <3>2. queue'[queue_start'] = new
        BY <3>1, <1>1, <1>3
      <3>3. queued + 1 \notin finished
        BY <1>0 DEF IInv, WindowInv, TypeOK
      <3>4. QED
        BY <3>1, <3>2, <3>3, <1>1 DEF Runnable
    <2>2. CASE ~PIPELINE_EMPTY
      <3>1. queue_start' = queue_start /\ queue_start \in Slots /\ queue_start # QueueReset
        BY <2>2, <1>0, <1>1 DEF QueueReset, PIPELINE_EMPTY, Slots
      <3>2. queue'[queue_start'] = queue[queue_start]
        BY <3>1, <1>1, <1>3
      <3>3. Runnable(queue_start)
        BY <3>2, <1>1 DEF Runnable
      <3>4. QED
        BY <3>3, <2>2 DEF IInv, NoLostWakeup
    <2>3. QED
      BY <2>1, <2>2
  <1>10. QED
    BY <1>5, <1>6, <1>7, <1>8, <1>9 DEF IInv, WindowInv

\* _task_done keeps the invariant when it drains up to `stop`.
LEMMA DrainInductive ==
    ASSUME IInv, callbacks > 0, callbacks' = callbacks - 1,
           NEW stop \in queue_start..queue_end, DrainTo(stop),
           UNCHANGED <<queue, queue_end, queued, finished, cancelled, aborted>>
    PROVE  IInv'
  <1> DEFINE numbers == NumbersOf(queue_start, stop)
  <1>0. /\ queue_start \in Nat /\ queue_end \in Nat /\ queued \in Nat /\ callbacks \in Nat
        /\ stop \in Nat /\ queue_start <= stop /\ stop <= queue_end
        /\ queue_end <= QueueSlots /\ QueueSlots \in Nat
    BY PipelineAssumption DEF IInv, WindowInv, TypeOK
  <1>1. /\ queue_start' = stop /\ written' = written \o numbers
        /\ ready_failed' = ready_failed
    BY DEF DrainTo
  <1>2. /\ numbers \in Seq(Entries) /\ Len(numbers) = stop - queue_start
        /\ \A k \in 1..(stop - queue_start) : numbers[k] = LeftQueue + k
    BY DrainedNumbers DEF IInv
  <1>3. written \in Seq(Entries) /\ written' \in Seq(Entries)
    BY <1>1, <1>2 DEF IInv, WindowInv, TypeOK
  <1>4. TypeOK'
    <2>1. queue_start' \in 0..queue_end' /\ callbacks' \in Nat /\ protocol_refs' \in Int
      BY <1>0, <1>1 DEF DrainTo, IInv, WindowInv, TypeOK
    <2>2. /\ queue' = queue /\ queue_end' = queue_end /\ queued' = queued
          /\ finished' = finished /\ cancelled' = cancelled /\ aborted' = aborted
      OBVIOUS
    <2>3. QED
      BY <2>1, <2>2, <1>1, <1>3 DEF IInv, WindowInv, TypeOK
  <1>5. LeftQueue' = LeftQueue + (stop - queue_start) /\ LeftQueue' >= 0 /\ LeftQueue \in Nat
    BY <1>0, <1>1 DEF LeftQueue, IInv, WindowInv
  <1>6. ConsecutiveNumbers'
    BY <1>0, <1>1 DEF IInv, WindowInv, ConsecutiveNumbers, Waiting
  <1>7. WrittenInOrder'
    <2> SUFFICES ASSUME ~ready_failed
                 PROVE  /\ Len(written') = LeftQueue'
                        /\ \A k \in 1..Len(written') : written'[k] = k
      BY <1>1 DEF WrittenInOrder
    <2>1. Len(written) = LeftQueue /\ \A k \in 1..Len(written) : written[k] = k
      BY DEF IInv, WrittenInOrder
    <2>2. Len(written') = LeftQueue'
      <3>0. Len(written \o numbers) = Len(written) + Len(numbers)
        BY <1>2, <1>3
      <3>1. Len(written') = Len(written) + Len(numbers)
        BY <3>0, <1>1
      <3>2. QED
        BY <3>1, <1>2, <1>5, <2>1
    <2>3. ASSUME NEW k \in 1..Len(written')
          PROVE  written'[k] = k
      <3>1. CASE k <= Len(written)
        <4>1. written'[k] = written[k] /\ k \in 1..Len(written)
          BY <3>1, <1>1, <1>2, <1>3
        <4>2. QED
          BY <4>1, <2>1
      <3>2. CASE k > Len(written)
        <4>1. k - LeftQueue \in 1..(stop - queue_start)
          BY <3>2, <2>1, <2>2, <1>0, <1>5
        <4>2. written'[k] = numbers[k - LeftQueue]
          BY <3>2, <2>1, <1>1, <1>2, <1>3
        <4>3. QED
          BY <4>1, <4>2, <1>2, <1>5
      <3>3. QED
        BY <3>1, <3>2, <1>3
    <2>4. QED
      BY <2>2, <2>3
  <1>8. NoLostWakeup'
    BY <1>0, <1>1 DEF DrainTo, NoLostWakeup, PIPELINE_EMPTY, Runnable
  <1>9. QED
    BY <1>4, <1>5, <1>6, <1>7, <1>8 DEF IInv, WindowInv

\* _task_done keeps the invariant when ready fails at `stop`.
LEMMA FailInductive ==
    ASSUME IInv, callbacks > 0, callbacks' = callbacks - 1,
           NEW stop \in queue_start..queue_end, FailAt(stop),
           UNCHANGED <<queue, queue_end, queued, finished, cancelled, aborted>>
    PROVE  IInv'
  <1>1. stop < queue_end /\ ready_failed' = TRUE
        /\ queue_start' = queue_start /\ protocol_refs' = protocol_refs
    BY DEF FailAt
  <1>2. PICK wrote \in {0, 1} :
            written' = written \o NumbersOf(queue_start, stop + wrote)
    BY DEF FailAt
  <1>3. stop + wrote \in queue_start..queue_end
    BY <1>1, PipelineAssumption DEF IInv, WindowInv, TypeOK
  <1>4. NumbersOf(queue_start, stop + wrote) \in Seq(Entries)
    BY <1>3, DrainedNumbers DEF IInv
  <1>5. written' \in Seq(Entries)
    BY <1>2, <1>4 DEF IInv, WindowInv, TypeOK
  <1>6. TypeOK'
    <2>1. callbacks' \in Nat
      BY DEF IInv, WindowInv, TypeOK
    <2>2. QED
      BY <1>1, <1>5, <2>1 DEF IInv, WindowInv, TypeOK
  <1>7. LeftQueue' = LeftQueue /\ ConsecutiveNumbers'
    BY <1>1 DEF LeftQueue, IInv, WindowInv, ConsecutiveNumbers, Waiting
  <1>8. WrittenInOrder' /\ NoLostWakeup'
    BY <1>1 DEF WrittenInOrder, NoLostWakeup
  <1>9. QED
    BY <1>6, <1>7, <1>8 DEF IInv, WindowInv

\* The steps that do not move the indexes.
LEMMA CancelInductive ==
    ASSUME IInv, Pipeline_cancel
    PROVE  IInv'
  <1>1. cancelled' \subseteq 1..queued
    <2>1. \A i \in Waiting : queue[i].number \in 1..queued
      BY PipelineAssumption
         DEF IInv, WindowInv, TypeOK, ConsecutiveNumbers, Waiting, LeftQueue
    <2>2. QED
      BY <2>1 DEF Pipeline_cancel, IInv, WindowInv, TypeOK
  <1>2. TypeOK'
    <2>1. /\ queue' = queue /\ queue_end' = queue_end /\ queue_start' = queue_start
          /\ queued' = queued /\ finished' = finished /\ callbacks' = callbacks
          /\ protocol_refs' = protocol_refs /\ written' = written
          /\ ready_failed' = ready_failed /\ aborted' = aborted
      BY DEF Pipeline_cancel
    <2>2. QED
      BY <1>1, <2>1 DEF IInv, WindowInv, TypeOK
  <1>3. LeftQueue' = LeftQueue /\ ConsecutiveNumbers'
    BY DEF Pipeline_cancel, LeftQueue, IInv, WindowInv, ConsecutiveNumbers, Waiting
  <1>4. WrittenInOrder' /\ NoLostWakeup'
    BY <1>3 DEF Pipeline_cancel, IInv, WrittenInOrder, NoLostWakeup, PIPELINE_EMPTY, Runnable
  <1>5. QED
    BY <1>2, <1>3, <1>4 DEF IInv, WindowInv

\* A task that finishes schedules the callback that keeps NoLostWakeup.
LEMMA TaskFinishesInductive ==
    ASSUME IInv, NEW i \in Waiting, TaskFinishes(i)
    PROVE  IInv'
  <1>1. queue[i].number \in 1..queued
    BY PipelineAssumption
       DEF IInv, WindowInv, TypeOK, ConsecutiveNumbers, Waiting, LeftQueue
  <1>2. TypeOK'
    <2>1. /\ queue' = queue /\ queue_end' = queue_end /\ queue_start' = queue_start
          /\ queued' = queued /\ cancelled' = cancelled
          /\ protocol_refs' = protocol_refs /\ written' = written
          /\ ready_failed' = ready_failed /\ aborted' = aborted
      BY DEF TaskFinishes
    <2>2. finished' \subseteq 1..queued
      BY <1>1 DEF TaskFinishes, IInv, WindowInv, TypeOK
    <2>3. callbacks' \in Nat
      BY DEF TaskFinishes, IInv, WindowInv, TypeOK
    <2>4. QED
      BY <2>1, <2>2, <2>3 DEF IInv, WindowInv, TypeOK
  <1>3. LeftQueue' = LeftQueue /\ ConsecutiveNumbers'
    BY DEF TaskFinishes, LeftQueue, IInv, WindowInv, ConsecutiveNumbers, Waiting
  <1>4. WrittenInOrder'
    BY <1>3 DEF TaskFinishes, IInv, WrittenInOrder
  <1>5. NoLostWakeup'
    BY DEF TaskFinishes, NoLostWakeup, IInv, WindowInv, TypeOK
  <1>6. QED
    BY <1>2, <1>3, <1>4, <1>5 DEF IInv, WindowInv

\* The assert of Pipeline_queue stops the process and changes nothing else.
LEMMA OverflowInductive ==
    ASSUME IInv, PipelineOverflow
    PROVE  IInv'
  <1>1. TypeOK'
    BY DEF PipelineOverflow, IInv, WindowInv, TypeOK
  <1>2. LeftQueue' = LeftQueue /\ ConsecutiveNumbers'
    BY DEF PipelineOverflow, LeftQueue, IInv, WindowInv, ConsecutiveNumbers, Waiting
  <1>3. WrittenInOrder' /\ NoLostWakeup'
    BY <1>2 DEF PipelineOverflow, IInv, WrittenInOrder, NoLostWakeup, PIPELINE_EMPTY, Runnable
  <1>4. QED
    BY <1>1, <1>2, <1>3 DEF IInv, WindowInv

\* The invariant reads nothing but the variables.
LEMMA StutterInductive ==
    ASSUME IInv, UNCHANGED vars
    PROVE  IInv'
  <1>1. TypeOK'
    BY DEF vars, IInv, WindowInv, TypeOK
  <1>2. LeftQueue' = LeftQueue /\ ConsecutiveNumbers'
    BY DEF vars, LeftQueue, IInv, WindowInv, ConsecutiveNumbers, Waiting
  <1>3. WrittenInOrder' /\ NoLostWakeup'
    BY <1>2 DEF vars, IInv, WrittenInOrder, NoLostWakeup, PIPELINE_EMPTY, Runnable
  <1>4. QED
    BY <1>1, <1>2, <1>3 DEF IInv, WindowInv

------------------------------------------------------------------------------
\* Every step of the pipeline keeps the invariant.
LEMMA StepInductive ==
    ASSUME IInv, [Next]_vars
    PROVE  IInv'
  <1>1. ASSUME NEW is_task \in BOOLEAN, ProtocolQueues(is_task)
        PROVE  IInv'
    BY <1>1, StoreInductive, OverflowInductive DEF ProtocolQueues, Pipeline_queue
  <1>2. CASE Pipeline_task_done
    BY <1>2, DrainInductive, FailInductive DEF Pipeline_task_done
  <1>3. CASE Pipeline_cancel
    BY <1>3, CancelInductive
  <1>4. ASSUME NEW i \in Waiting, TaskFinishes(i)
        PROVE  IInv'
    BY <1>4, TaskFinishesInductive
  <1>5. CASE UNCHANGED vars
    BY <1>5, StutterInductive
  <1>6. QED
    BY <1>1, <1>2, <1>3, <1>4, <1>5 DEF Next

\* The invariant holds in every reachable state, for any number of slots and
\* entries and whether or not ready may fail.
THEOREM Inductive == Spec => []IInv
  BY InitInductive, StepInductive, PTL DEF Spec

\* Type correctness: in particular the indexes stay within the array.
THEOREM TypeCorrect == Spec => []TypeOK
  <1>1. IInv => TypeOK
    BY DEF IInv, WindowInv
  <1>2. QED
    BY <1>1, Inductive, PTL

\* Responses are written in the order the requests were queued, each once.
THEOREM OrderedDelivery == Spec => []WrittenInOrder
  <1>1. IInv => WrittenInOrder
    BY DEF IInv
  <1>2. QED
    BY <1>1, Inductive, PTL

\* A response that could be written always has a _task_done call on its way.
THEOREM WakeupNeverLost == Spec => []NoLostWakeup
  <1>1. IInv => NoLostWakeup
    BY DEF IInv
  <1>2. QED
    BY <1>1, Inductive, PTL

------------------------------------------------------------------------------
\* One action of the pipeline keeps NeverDropped.
LEMMA NeverDroppedStep ==
    ASSUME IInv, NeverDropped, [Next]_vars
    PROVE  NeverDropped'
  <1>0. /\ queue_start \in Nat /\ queue_end \in Nat /\ queued \in Nat /\ LeftQueue \in Nat
        /\ queue_start <= queue_end /\ written \in Seq(Entries)
    BY DEF IInv, WindowInv, TypeOK, LeftQueue
  <1>1. ASSUME LeftQueue' = LeftQueue, written' = written
        PROVE  NeverDropped'
    BY <1>1 DEF NeverDropped
  <1>2. ASSUME NEW n \in Nat, NEW stop \in queue_start..queue_end,
               LeftQueue' = LeftQueue + n, n <= stop - queue_start,
               written' = written \o NumbersOf(queue_start, stop)
        PROVE  NeverDropped'
    <2> DEFINE numbers == NumbersOf(queue_start, stop)
    <2> SUFFICES ASSUME NEW e \in 1..LeftQueue'
                 PROVE  \E k \in 1..Len(written') : written'[k] = e
      BY DEF NeverDropped
    <2>1. /\ numbers \in Seq(Entries) /\ Len(numbers) = stop - queue_start
          /\ \A k \in 1..(stop - queue_start) : numbers[k] = LeftQueue + k
      BY DrainedNumbers DEF IInv
    <2>2. Len(written \o numbers) = Len(written) + Len(numbers)
      BY <2>1, <1>0
    <2>3. CASE e <= LeftQueue
      <3>1. PICK k \in 1..Len(written) : written[k] = e
        BY <2>3, <1>0 DEF NeverDropped
      <3>2. k \in 1..Len(written') /\ written'[k] = written[k]
        BY <2>1, <2>2, <1>0, <1>2
      <3>3. QED
        BY <3>1, <3>2
    <2>4. CASE e > LeftQueue
      <3> DEFINE j == e - LeftQueue
      <3>1. j \in 1..(stop - queue_start) /\ e = LeftQueue + j
        BY <2>4, <1>0, <1>2
      <3>2. Len(written) + j \in 1..Len(written')
        BY <3>1, <2>1, <2>2, <1>0, <1>2
      <3>3. written'[Len(written) + j] = numbers[j]
        BY <3>1, <2>1, <2>2, <1>0, <1>2
      <3>4. QED
        BY <3>1, <3>2, <3>3, <2>1
    <2>5. QED
      BY <2>3, <2>4, <1>0, <1>2
  <1>3. ASSUME NEW is_task \in BOOLEAN, ProtocolQueues(is_task)
        PROVE  NeverDropped'
    <2>1. CASE PipelineOverflow
      BY <2>1, <1>1 DEF PipelineOverflow, LeftQueue
    <2>2. CASE PipelineStore(is_task)
      <3>1. LeftQueue' = LeftQueue /\ written' = written
        BY <2>2, <1>0 DEF PipelineStore, QueueReset, PIPELINE_EMPTY, LeftQueue
      <3>2. QED
        BY <3>1, <1>1
    <2>3. QED
      BY <1>3, <2>1, <2>2 DEF ProtocolQueues, Pipeline_queue
  <1>4. CASE Pipeline_task_done
    <2>1. PICK stop \in queue_start..queue_end : DrainTo(stop) \/ FailAt(stop)
      BY <1>4 DEF Pipeline_task_done
    <2>2. queue_end' = queue_end /\ queued' = queued
      BY <1>4 DEF Pipeline_task_done
    <2>3. CASE DrainTo(stop)
      <3>1. LeftQueue' = LeftQueue + (stop - queue_start) /\ stop - queue_start \in Nat
        BY <2>2, <2>3, <1>0 DEF DrainTo, LeftQueue
      <3>2. stop - queue_start <= stop - queue_start
        BY <3>1
      <3>3. written' = written \o NumbersOf(queue_start, stop)
        BY <2>3 DEF DrainTo
      <3>4. QED
        BY <3>1, <3>2, <3>3, <1>2
    <2>4. CASE FailAt(stop)
      <3>1. LeftQueue' = LeftQueue + 0
        BY <2>2, <2>4, <1>0 DEF FailAt, LeftQueue
      <3>2. PICK wrote \in {0, 1} :
                written' = written \o NumbersOf(queue_start, stop + wrote)
        BY <2>4 DEF FailAt
      <3>3. stop + wrote \in queue_start..queue_end /\ 0 <= (stop + wrote) - queue_start
        BY <2>4, <1>0 DEF FailAt
      <3>4. QED
        BY <3>1, <3>2, <3>3, <1>2
    <2>5. QED
      BY <2>1, <2>3, <2>4
  <1>5. CASE Pipeline_cancel
    BY <1>5, <1>1 DEF Pipeline_cancel, LeftQueue
  <1>6. ASSUME NEW i \in Waiting, TaskFinishes(i)
        PROVE  NeverDropped'
    BY <1>6, <1>1 DEF TaskFinishes, LeftQueue
  <1>7. CASE UNCHANGED vars
    BY <1>7, <1>1 DEF vars, LeftQueue
  <1>8. QED
    BY <1>3, <1>4, <1>5, <1>6, <1>7 DEF Next

\* No response is dropped, even when ready fails in the middle of a drain.
THEOREM ResponsesNeverDropped == Spec => []NeverDropped
  <1>1. Pipeline_init => NeverDropped
    BY DEF Pipeline_init, NeverDropped, LeftQueue
  <1>2. IInv /\ NeverDropped /\ [Next]_vars => NeverDropped'
    BY NeverDroppedStep
  <1>3. QED
    BY <1>1, <1>2, Inductive, PTL DEF Spec

\* The slot of a waiting entry is never written again while it waits.
THEOREM SlotsKept == Spec => WaitingNeverOverwritten
  <1>1. IInv /\ [Next]_vars => \A i \in Waiting : queue'[i] = queue[i]
    <2> SUFFICES ASSUME IInv, [Next]_vars, NEW i \in Waiting
                 PROVE  queue'[i] = queue[i]
      OBVIOUS
    <2>0. /\ queue \in [Slots -> PipelineEntry] /\ queue_start \in Nat /\ queue_end \in Nat
          /\ i \in Slots /\ ~PIPELINE_EMPTY /\ i # queue_end
      BY PipelineAssumption DEF IInv, WindowInv, TypeOK, Waiting, Slots, PIPELINE_EMPTY
    <2>5. QueueReset = queue_end
      BY <2>0 DEF QueueReset
    <2>1. ASSUME NEW is_task \in BOOLEAN, PipelineStore(is_task)
          PROVE  queue'[i] = queue[i]
      <3>1. \E e : queue' = [queue EXCEPT ![QueueReset] = e]
        BY <2>1 DEF PipelineStore
      <3>2. QED
        BY <3>1, <2>0, <2>5
    <2>2. ASSUME NEW is_task \in BOOLEAN, ProtocolQueues(is_task)
          PROVE  queue'[i] = queue[i]
      BY <2>1, <2>2 DEF ProtocolQueues, Pipeline_queue, PipelineOverflow
    <2>3. CASE UNCHANGED queue
      BY <2>3
    <2>4. QED
      BY <2>2, <2>3 DEF Next, vars, Pipeline_task_done, Pipeline_cancel, TaskFinishes
  <1>2. IInv /\ [Next]_vars => [\A i \in Waiting : queue'[i] = queue[i]]_vars
    BY <1>1
  <1>3. QED
    BY <1>2, Inductive, PTL DEF Spec, WaitingNeverOverwritten

------------------------------------------------------------------------------
\* The slot array implements the ordered hand-over of PipelineFifo, for every number
\* of slots and entries and whether or not ready may fail.  The refinement mapping is
\* the one of Fifo: what is complete is what is not the number of a waiting task that
\* still runs.
CompleteEntries == (1..queued) \ PendingTasks

\* A step that changes nothing of a waiting entry is a stutter.
LEMMA Stutters ==
  ASSUME UNCHANGED <<queue, queue_start, queue_end, queued, finished, aborted>>
  PROVE  UNCHANGED Fifo!vars
  BY DEF Fifo!vars, PendingTasks, Waiting, Runnable, LeftQueue

\* An empty pipeline is an empty hand-over.
LEMMA InitMaps == Pipeline_init => Fifo!Init
  <1> SUFFICES ASSUME Pipeline_init PROVE Fifo!Init
    OBVIOUS
  <1>1. queued = 0 /\ LeftQueue = 0 /\ (1..queued) \ PendingTasks = {}
    BY DEF Pipeline_init, LeftQueue
  <1>2. aborted = FALSE
    BY DEF Pipeline_init
  <1>3. (~aborted) = TRUE
    BY <1>2
  <1>4. QED
    BY <1>1, <1>3, Zenon DEF Fifo!Init

\* Where the numbers of the waiting entries lie, and that they are distinct.
LEMMA WaitingNumbers ==
  ASSUME IInv
  PROVE  /\ \A i \in Waiting : queue[i].number \in (LeftQueue + 1)..queued
         /\ \A i, j \in Waiting : queue[i].number = queue[j].number => i = j
  BY PipelineAssumption
     DEF IInv, WindowInv, TypeOK, ConsecutiveNumbers, Waiting, LeftQueue

\* A free slot is filled: an entry is accepted, complete when it is a response.
LEMMA StoreMaps ==
  ASSUME IInv, NEW is_task \in BOOLEAN, queued < MaxEntries, ~aborted,
         PipelineStore(is_task)
  PROVE  Fifo!Accept
  <1> DEFINE new == [number |-> queued + 1, is_task |-> is_task]
  <1>0. /\ queue_start \in Nat /\ queue_end \in Nat /\ queued \in Nat
        /\ queue_start <= queue_end /\ QueueSlots \in Nat
        /\ queue \in [Slots -> PipelineEntry] /\ finished \subseteq 1..queued
        /\ queue_end <= QueueSlots
    BY PipelineAssumption DEF IInv, WindowInv, TypeOK
  <1>a. PICK slot \in Slots : slot = QueueReset
    BY <1>0 DEF PipelineStore, QueueReset, Slots
  <1>1. /\ queue_end' = slot + 1
        /\ queue_start' = (IF PIPELINE_EMPTY THEN 0 ELSE queue_start)
        /\ queue' = [queue EXCEPT ![slot] = new]
        /\ queued' = queued + 1 /\ finished' = finished /\ aborted' = aborted
    BY <1>0, <1>a DEF PipelineStore
  <1>2. LeftQueue' = LeftQueue
    BY <1>0, <1>1, <1>a DEF LeftQueue, QueueReset, PIPELINE_EMPTY
  <1>3. /\ Waiting' = Waiting \cup {slot} /\ slot \notin Waiting
        /\ Waiting \subseteq Slots
    BY <1>0, <1>1, <1>a DEF Waiting, QueueReset, PIPELINE_EMPTY, Slots
  <1>4. /\ \A i \in Waiting : queue'[i] = queue[i]
        /\ queue'[slot].number = queued + 1
        /\ queue'[slot].is_task = is_task
    BY <1>0, <1>1, <1>3
  <1>5. queued + 1 \notin finished /\ queued + 1 \notin PendingTasks
    BY <1>0, WaitingNumbers DEF PendingTasks
  <1>6. PendingTasks' = PendingTasks \cup {e \in {queued + 1} : is_task}
    <2>1. ASSUME NEW i \in Waiting PROVE Runnable(i)' <=> Runnable(i)
      <3>1. queue'[i] = queue[i] /\ finished' = finished
        BY <1>1, <1>4
      <3>2. QED
        BY <3>1, Zenon DEF Runnable
    <2>2. Runnable(slot)' <=> ~is_task
      <3>1. queue'[slot].number \notin finished'
        BY <1>1, <1>4, <1>5
      <3>2. queue'[slot].is_task = is_task
        BY <1>4
      <3>3. QED
        BY <3>1, <3>2, Zenon DEF Runnable
    <2>3. \A i \in Waiting : queue'[i].number = queue[i].number
      BY <1>4
    <2>4. ASSUME NEW e PROVE e \in PendingTasks' <=> \E i \in Waiting' :
                                ~Runnable(i)' /\ e = queue'[i].number
      BY Zenon DEF PendingTasks
    <2>5. ASSUME NEW e PROVE e \in PendingTasks <=> \E i \in Waiting :
                                ~Runnable(i) /\ e = queue[i].number
      BY Zenon DEF PendingTasks
    <2>6. ASSUME NEW e
          PROVE  e \in PendingTasks' <=> e \in PendingTasks \/ (is_task /\ e = queued + 1)
      <3>1. e \in PendingTasks' <=> \/ \E i \in Waiting : ~Runnable(i)' /\ e = queue'[i].number
                                    \/ ~Runnable(slot)' /\ e = queue'[slot].number
        BY <2>4, <1>3, Zenon
      <3>2. (\E i \in Waiting : ~Runnable(i)' /\ e = queue'[i].number) <=> e \in PendingTasks
        BY <2>1, <2>3, <2>5, ZenonT(30)
      <3>3. QED
        BY <3>1, <3>2, <2>2, <1>4, Zenon
    <2>7. QED
      BY <2>6, Zenon
  <1>7. 1..queued' = (1..queued) \cup {queued + 1}
    BY <1>0, <1>1
  <1>8. (1..queued') \ PendingTasks' \in
            {CompleteEntries, CompleteEntries \cup {queued + 1}}
    <2>1. CASE is_task
      BY <2>1, <1>0, <1>5, <1>6, <1>7 DEF CompleteEntries
    <2>2. CASE ~is_task
      BY <2>2, <1>5, <1>6, <1>7 DEF CompleteEntries
    <2>3. QED
      BY <2>1, <2>2
  <1>9. (~aborted)' = ~aborted
    BY <1>1
  <1>10. QED
    BY <1>1, <1>2, <1>8, <1>9, Zenon DEF Fifo!Accept, CompleteEntries

\* The assert of Pipeline_queue stops the hand-over.
LEMMA OverflowMaps ==
  ASSUME ~aborted, PipelineOverflow
  PROVE  Fifo!Abort
  <1>1. UNCHANGED <<queue, queue_start, queue_end, queued, finished>> /\ aborted' = TRUE
    BY DEF PipelineOverflow
  <1>2. UNCHANGED <<queued, (1..queued) \ PendingTasks, LeftQueue>>
    BY <1>1 DEF PendingTasks, Waiting, Runnable, LeftQueue
  <1>3. (~aborted)' = FALSE
    BY <1>1
  <1>4. QED
    BY <1>2, <1>3, Zenon DEF Fifo!Abort

\* What one call hands over is the next in line and complete.
LEMMA DrainMaps ==
  ASSUME IInv, ~aborted, NEW stop \in queue_start..queue_end,
         \A i \in queue_start..(stop - 1) : Runnable(i), DrainTo(stop),
         UNCHANGED <<queue, queue_end, queued, finished, cancelled, aborted>>
  PROVE  (\E upto \in 1..queued : Fifo!HandOver(upto)) \/ UNCHANGED Fifo!vars
  <1>0. /\ queue_start \in Nat /\ queue_end \in Nat /\ queued \in Nat /\ stop \in Nat
        /\ queue_start <= stop /\ stop <= queue_end
        /\ queue_start' = stop /\ LeftQueue \in Nat /\ LeftQueue <= queued
    BY PipelineAssumption DEF IInv, WindowInv, TypeOK, DrainTo, LeftQueue
  <1>1. CASE stop = queue_start
    BY <1>0, <1>1, Stutters
  <1>2. CASE stop > queue_start
    <2> DEFINE upto == LeftQueue + (stop - queue_start)
    <2>1. LeftQueue' = upto /\ upto \in 1..queued /\ upto > LeftQueue
      BY <1>0, <1>2 DEF LeftQueue
    <2>2. PendingTasks' = PendingTasks
      BY <1>0 DEF PendingTasks, Waiting, Runnable
    <2>3. (LeftQueue + 1)..upto \subseteq (1..queued) \ PendingTasks
      <3> SUFFICES ASSUME NEW e \in (LeftQueue + 1)..upto PROVE e \notin PendingTasks
        BY <1>0, <2>1
      <3>1. \A i \in Waiting : queue[i].number = LeftQueue + 1 + (i - queue_start)
        BY <1>0 DEF IInv, WindowInv, ConsecutiveNumbers, LeftQueue, Waiting
      <3>2. \A i \in Waiting : queue[i].number = e => i \in queue_start..(stop - 1)
        BY <1>0, <3>1 DEF Waiting
      <3>3. QED
        BY <3>2 DEF PendingTasks
    <2>4. (~aborted)' = ~aborted /\ queued' = queued
      OBVIOUS
    <2>5. ((1..queued) \ PendingTasks)' = (1..queued) \ PendingTasks
      BY <2>2
    <2>6. Fifo!HandOver(upto)
      BY <2>1, <2>3, <2>4, <2>5, Zenon DEF Fifo!HandOver
    <2>7. QED
      BY <2>1, <2>6
  <1>3. QED
    BY <1>0, <1>1, <1>2

\* The entry of a task that finishes becomes complete.
LEMMA TaskFinishesMaps ==
  ASSUME IInv, NEW i \in Waiting, TaskFinishes(i)
  PROVE  \E e \in 1..queued : Fifo!Complete(e)
  <1> DEFINE e == queue[i].number
  <1>1. /\ queue' = queue /\ queue_start' = queue_start /\ queue_end' = queue_end
        /\ queued' = queued /\ aborted' = aborted /\ finished' = finished \cup {e}
        /\ queue[i].is_task /\ e \notin finished
    BY DEF TaskFinishes
  <1>2. LeftQueue' = LeftQueue /\ (~aborted)' = ~aborted
    BY <1>1 DEF LeftQueue
  <1>3. queued \in Nat /\ LeftQueue \in Nat
    BY DEF IInv, WindowInv, TypeOK, LeftQueue
  <1>4. e \in 1..queued
    BY <1>3, WaitingNumbers
  <1>5. e \in PendingTasks
    BY <1>1 DEF PendingTasks, Runnable
  <1>6. PendingTasks' = PendingTasks \ {e}
    <2>1. \A j \in Waiting : ~Runnable(j)' <=> ~Runnable(j) /\ queue[j].number # e
      BY <1>1 DEF Runnable
    <2>2. Waiting' = Waiting
      BY <1>1 DEF Waiting
    <2>3. QED
      BY <1>1, <2>1, <2>2 DEF PendingTasks
  <1>7. ((1..queued) \ PendingTasks)' = ((1..queued) \ PendingTasks) \cup {e}
    BY <1>1, <1>4, <1>6
  <1>8. ~aborted /\ e \notin (1..queued) \ PendingTasks
    BY <1>5 DEF TaskFinishes
  <1>9. Fifo!Complete(e)
    BY <1>1, <1>2, <1>7, <1>8, Zenon DEF Fifo!Complete
  <1>10. QED
    BY <1>4, <1>9

\* Every step is one of the hand-over or changes nothing of it.
LEMMA StepMaps == IInv /\ [Next]_vars => [Fifo!Next]_Fifo!vars
  <1> SUFFICES ASSUME IInv, [Next]_vars PROVE Fifo!Next \/ UNCHANGED Fifo!vars
    OBVIOUS
  <1>1. ASSUME NEW is_task \in BOOLEAN, ProtocolQueues(is_task)
        PROVE  Fifo!Next
    BY <1>1, StoreMaps, OverflowMaps DEF ProtocolQueues, Pipeline_queue, Fifo!Next
  <1>2. CASE Pipeline_task_done
    <2>1. PICK stop \in queue_start..queue_end :
             /\ \A i \in queue_start..(stop - 1) : Runnable(i)
             /\ DrainTo(stop) \/ FailAt(stop)
      BY <1>2 DEF Pipeline_task_done
    <2>2. ~aborted /\ UNCHANGED <<queue, queue_end, queued, finished, cancelled, aborted>>
      BY <1>2 DEF Pipeline_task_done
    <2>3. CASE DrainTo(stop)
      BY <2>1, <2>2, <2>3, DrainMaps DEF Fifo!Next
    <2>4. CASE FailAt(stop)
      BY <2>2, <2>4, Stutters DEF FailAt
    <2>5. QED
      BY <2>1, <2>3, <2>4
  <1>3. CASE Pipeline_cancel
    BY <1>3, Stutters DEF Pipeline_cancel
  <1>4. ASSUME NEW i \in Waiting, TaskFinishes(i)
        PROVE  Fifo!Next
    BY <1>4, TaskFinishesMaps DEF Fifo!Next
  <1>5. CASE UNCHANGED vars
    BY <1>5, Stutters DEF vars
  <1>6. QED
    BY <1>1, <1>2, <1>3, <1>4, <1>5 DEF Next

\* Every behaviour of the slot array is one of the ordered hand-over: entries leave
\* in the order they came, each once and only when complete.
THEOREM PipelineImplementsFifo == Spec => Fifo!Safety
  BY InitMaps, StepMaps, Inductive, PTL DEF Spec, Fifo!Safety
=============================================================================
