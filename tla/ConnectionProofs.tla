-------------------------- MODULE ConnectionProofs --------------------------
(***************************************************************************)
(* Proofs about Connection: for every number of slots, requests and        *)
(* failures, every size of the gather buffer and of the responses, and     *)
(* every choice of what the client sends, the answers of a connection are  *)
(* given once and in order, and the gather never keeps one back.           *)
(*                                                                         *)
(* The proofs of the pipeline are reused: every step of a connection is    *)
(* one of its pipeline.  What _task_done writes is a fold over the entries *)
(* it drains, and the length of the gather is a fold over what it holds:   *)
(* FoldLaws is instantiated for both.                                      *)
(***************************************************************************)
EXTENDS Connection, SequenceTheorems, TLAPS

PP == INSTANCE PipelineProofs

Plus(m, n) == m + n
Summed == INSTANCE FoldLaws WITH Op <- Plus
Handed == INSTANCE FoldLaws WITH Op <- Protocol_pipeline_ready

\* The sum over the gather is the fold FoldLaws is about.
LEMMA SumIsFold ==
  ASSUME NEW s
  PROVE  FoldLeft(+, 0, s) = Summed!Fold(0, s)
  BY DEF Summed!Fold, Summed!FoldLeft, Summed!MapThenFoldSet, Summed!Max, Plus,
         FoldLeft, MapThenFoldSet, Max

\* The drain is the other one.
LEMMA DrainIsFold ==
  ASSUME NEW out, NEW s
  PROVE  FoldLeft(Protocol_pipeline_ready, out, s) = Handed!Fold(out, s)
  BY DEF Handed!Fold, Handed!FoldLeft, Handed!MapThenFoldSet, Handed!Max,
         FoldLeft, MapThenFoldSet, Max

------------------------------------------------------------------------------
(* The pipeline of the connection *)

\* The constants of the pipeline are as Pipeline assumes.
LEMMA InstanceAssumption == PP!PipelineAssumption
  BY ConnectionAssumption DEF PP!PipelineAssumption

\* What is used of the pipeline's inductive invariant.
LEMMA PipelineInvMeans ==
  ASSUME PP!IInv
  PROVE  /\ Pipe!TypeOK
         /\ Pipe!LeftQueue >= 0
         /\ \A i \in Pipe!Waiting : queue[i].number = queued + 1 - (queue_end - i)
  BY DEF PP!IInv, PP!WindowInv, PP!TypeOK, PP!Slots, PP!PipelineEntry, PP!Entries,
     PP!LeftQueue, PP!ConsecutiveNumbers, PP!Waiting,
     Pipe!TypeOK, Pipe!Slots, Pipe!PipelineEntry, Pipe!Entries,
     Pipe!LeftQueue, Pipe!Waiting

\* Every connection starts with an empty pipeline.
LEMMA PipelineInit == Pipe!Pipeline_init => PP!IInv
  <1>1. Pipe!Pipeline_init => PP!Pipeline_init
    BY DEF Pipe!Pipeline_init, Pipe!Slots, Pipe!NoEntry, PP!Pipeline_init, PP!Slots, PP!NoEntry
  <1>2. QED
    BY <1>1, PP!InitInductive, InstanceAssumption

\* A step of the pipeline keeps its invariant.
LEMMA PipelineStep ==
  ASSUME PP!IInv, [Pipe!Next]_Pipe!vars
  PROVE  PP!IInv'
  <1>1. [PP!Next]_PP!vars
    BY DEF Pipe!Next, Pipe!vars, Pipe!ProtocolQueues, Pipe!Pipeline_queue, Pipe!PIPELINE_EMPTY,
       Pipe!PipelineOverflow, Pipe!PipelineStore, Pipe!QueueReset, Pipe!Pipeline_task_done,
       Pipe!DrainTo, Pipe!FailAt, Pipe!NumbersOf, Pipe!Runnable, Pipe!Pipeline_cancel,
       Pipe!Waiting, Pipe!TaskFinishes,
       PP!Next, PP!vars, PP!ProtocolQueues, PP!Pipeline_queue, PP!PIPELINE_EMPTY,
       PP!PipelineOverflow, PP!PipelineStore, PP!QueueReset, PP!Pipeline_task_done,
       PP!DrainTo, PP!FailAt, PP!NumbersOf, PP!Runnable, PP!Pipeline_cancel,
       PP!Waiting, PP!TaskFinishes
  <1>2. QED
    BY <1>1, PP!StepInductive, InstanceAssumption

\* Every step of the connection is a step of its pipeline or leaves it alone.
LEMMA StepIsPipelineStep == [Next]_vars => [Pipe!Next]_Pipe!vars
  <1> SUFFICES ASSUME [Next]_vars PROVE [Pipe!Next]_Pipe!vars
    OBVIOUS
  <1> USE DEF pipeline_vars, Pipe!vars
  <1>1. CASE Protocol_data_received
    BY <1>1 DEF Protocol_data_received
  <1>2. CASE Headers
    BY <1>2 DEF Headers
  <1>3. CASE Incomplete
    BY <1>3 DEF Incomplete
  <1>4. CASE ParseError
    BY <1>4 DEF ParseError
  <1>5. CASE FeedEnds
    BY <1>5 DEF FeedEnds
  <1>6. CASE Protocol_on_body
    <2>1. ASSUME NEW is_task \in BOOLEAN, QueueRequest(is_task) PROVE Pipe!Next
      BY <2>1 DEF QueueRequest, Pipe!Next, Pipe!ProtocolQueues
    <2>2. ASSUME NEW enabled, WriteNow(enabled) PROVE UNCHANGED Pipe!vars
      BY <2>2 DEF WriteNow
    <2>3. QED
      BY <1>6, <2>1, <2>2 DEF Protocol_on_body
  <1>7. CASE OnBodyFails
    BY <1>7 DEF OnBodyFails
  <1>8. CASE TaskDoneCallback
    BY <1>8 DEF TaskDoneCallback, Pipe!Next
  <1>9. CASE TaskFinishes
    BY <1>9 DEF TaskFinishes, Pipe!Next
  <1>10. CASE Protocol_connection_lost
    BY <1>10 DEF Protocol_connection_lost, Pipe!Next
  <1>11. CASE ClosedByServer
    BY <1>11 DEF ClosedByServer
  <1>12. CASE Protocol_pipeline_cancel
    BY <1>12 DEF Protocol_pipeline_cancel, Pipe!Next
  <1>13. CASE UNCHANGED vars
    BY <1>13 DEF vars
  <1>14. QED
    BY <1>1, <1>2, <1>3, <1>4, <1>5, <1>6, <1>7, <1>8, <1>9, <1>10, <1>11, <1>12, <1>13
       DEF Next, FeedStep

------------------------------------------------------------------------------
(* Sequences *)

\* A function on 1..n is a sequence of length n.
LEMMA FunctionIsSeq ==
  ASSUME NEW S, NEW n \in Nat, NEW f \in [1..n -> S]
  PROVE  f \in Seq(S) /\ Len(f) = n
  OBVIOUS

\* Where the elements of two sequences are once the second follows the first.
LEMMA ConcatAt ==
  ASSUME NEW S, NEW a \in Seq(S), NEW b \in Seq(S), NEW m, NEW n, Len(a) = m, Len(b) = n
  PROVE  /\ a \o b \in Seq(S) /\ Len(a \o b) = m + n
         /\ \A k \in 1..m : (a \o b)[k] = a[k]
         /\ \A k \in 1..n : (a \o b)[m + k] = b[k]
  OBVIOUS

\* An element appended to the second of two sequences is appended to both.
LEMMA ConcatAppend ==
  ASSUME NEW S, NEW a \in Seq(S), NEW b \in Seq(S), NEW e \in S
  PROVE  a \o Append(b, e) = Append(a \o b, e)
  <1>1. a \o b \in Seq(S) /\ <<e>> \in Seq(S)
    OBVIOUS
  <1>2. Append(b, e) = b \o <<e>> /\ Append(a \o b, e) = (a \o b) \o <<e>>
    BY <1>1, AppendIsConcat
  <1>3. QED
    BY <1>1, <1>2, ConcatAssociative

------------------------------------------------------------------------------
(* Writing responses *)

\* What the output of a connection may be.
Outs ==
  {out \in [gather : Seq(1..MaxRequests), len : 0..GATHER_MAX_LEN,
            sent : Seq(0..MaxRequests), transport : {"open", "closing", "lost"}] :
     /\ Len(out.gather) <= GATHER_MAX_RESP
     /\ \A k \in 1..Len(out.gather) : out.gather[k] <= Len(requests)
     /\ out.len = Summed!Fold(0, SizesOf(out.gather))}

Given(out) == out.sent \o out.gather

\* A response may close an open connection and do nothing else to it.
ClosesOnly(t, u) == u = t \/ (t = "open" /\ u = "closing")

RequestsOK == requests \in Seq(Request) /\ Len(requests) <= MaxRequests

\* The gather grows by the size of the response it takes.
LEMMA SizesGrow ==
  ASSUME RequestsOK, NEW held \in Seq(1..MaxRequests),
         \A k \in 1..Len(held) : held[k] <= Len(requests),
         NEW r \in 1..Len(requests)
  PROVE  /\ Summed!Fold(0, SizesOf(Append(held, r)))
                = Summed!Fold(0, SizesOf(held)) + requests[r].size
         /\ Summed!Fold(0, SizesOf(<< >>)) = 0
  <1>0. /\ requests \in Seq(Request) /\ Len(requests) \in Nat /\ MaxRequests \in Nat
        /\ Len(requests) <= MaxRequests
    BY ConnectionAssumption DEF RequestsOK
  <1>1. ASSUME NEW q \in 1..Len(requests) PROVE requests[q].size \in Sizes
    <2>1. requests[q] \in Request
      BY <1>0
    <2>2. QED
      BY <2>1 DEF Request
  <1>2. SizesOf(held) \in Seq(Sizes)
    BY <1>0, <1>1, SMTT(30) DEF SizesOf
  <1>3. SizesOf(Append(held, r)) = Append(SizesOf(held), requests[r].size)
    <2>1. /\ Append(held, r) \in Seq(1..MaxRequests) /\ Len(Append(held, r)) = Len(held) + 1
          /\ \A k \in 1..Len(held) : Append(held, r)[k] = held[k]
          /\ Append(held, r)[Len(held) + 1] = r
      BY <1>0
    <2>2. Len(SizesOf(held)) = Len(held)
      BY DEF SizesOf
    <2>3. QED
      BY <1>0, <1>1, <1>2, <2>1, <2>2 DEF SizesOf
  <1>4. Summed!Fold(0, Append(SizesOf(held), requests[r].size))
            = Plus(Summed!Fold(0, SizesOf(held)), requests[r].size)
    BY <1>1, <1>2, Summed!FoldAppend
  <1>5. SizesOf(<< >>) = << >>
    BY DEF SizesOf
  <1>6. QED
    BY <1>3, <1>4, <1>5, Summed!FoldEmpty DEF Plus

\* A response that is held back or written is given after those before it; nothing
\* is held back while the gather is off.
LEMMA WriteResponseGives ==
  ASSUME RequestsOK, NEW enabled \in BOOLEAN, NEW out \in Outs, NEW r \in 1..Len(requests)
  PROVE  /\ WriteResponse(enabled, out, r) \in Outs
         /\ Given(WriteResponse(enabled, out, r)) = Append(Given(out), r)
         /\ ~enabled => WriteResponse(enabled, out, r).gather = << >>
         /\ ClosesOnly(out.transport, WriteResponse(enabled, out, r).transport)
  <1> DEFINE size == requests[r].size
             held == /\ enabled
                     /\ Len(out.gather) < GATHER_MAX_RESP
                     /\ out.len + size <= GATHER_MAX_LEN
             t == IF requests[r].close THEN Closed(out.transport) ELSE out.transport
             new == WriteResponse(enabled, out, r)
  <1>0. /\ MaxRequests \in Nat /\ GATHER_MAX_RESP \in Nat /\ GATHER_MAX_LEN \in Nat
        /\ Len(requests) \in Nat /\ r \in 1..MaxRequests /\ r \in 0..MaxRequests
    BY ConnectionAssumption DEF RequestsOK
  <1>1. /\ out.gather \in Seq(1..MaxRequests) /\ out.len \in 0..GATHER_MAX_LEN
        /\ out.sent \in Seq(0..MaxRequests) /\ out.transport \in {"open", "closing", "lost"}
        /\ Len(out.gather) <= GATHER_MAX_RESP
        /\ \A k \in 1..Len(out.gather) : out.gather[k] <= Len(requests)
        /\ out.len = Summed!Fold(0, SizesOf(out.gather))
        /\ out = [gather |-> out.gather, len |-> out.len, sent |-> out.sent,
                  transport |-> out.transport]
    BY DEF Outs
  <1>2. size \in Nat
    <2>1. requests[r] \in Request
      BY DEF RequestsOK
    <2>2. QED
      BY <2>1, ConnectionAssumption DEF Request
  <1>3. t \in {"open", "closing", "lost"} /\ ClosesOnly(out.transport, t)
    BY <1>1 DEF Closed, ClosesOnly
  <1>4. /\ Summed!Fold(0, SizesOf(Append(out.gather, r)))
                = Summed!Fold(0, SizesOf(out.gather)) + size
        /\ Summed!Fold(0, SizesOf(<< >>)) = 0
    BY <1>1, SizesGrow
  <1>5. out.gather \in Seq(0..MaxRequests)
    BY <1>0, <1>1
  <1>6. CASE held
    <2>1. new = [gather |-> Append(out.gather, r), len |-> out.len + size,
                 sent |-> out.sent, transport |-> t]
      BY <1>1, <1>6 DEF WriteResponse
    <2> HIDE DEF new, t, size
    <2>2. /\ Append(out.gather, r) \in Seq(1..MaxRequests)
          /\ Len(Append(out.gather, r)) <= GATHER_MAX_RESP
          /\ \A k \in 1..Len(Append(out.gather, r)) : Append(out.gather, r)[k] <= Len(requests)
      BY <1>0, <1>1, <1>6
    <2>3. out.len + size \in 0..GATHER_MAX_LEN
      BY <1>0, <1>1, <1>2, <1>6
    <2>4. new \in Outs
      BY <1>1, <1>3, <1>4, <2>1, <2>2, <2>3 DEF Outs
    <2>5. out.sent \o Append(out.gather, r) = Append(out.sent \o out.gather, r)
      BY <1>0, <1>1, <1>5, ConcatAppend, SMTT(30)
    <2>6. new.sent = out.sent /\ new.gather = Append(out.gather, r) /\ new.transport = t
      BY <2>1
    <2>7. new \in Outs /\ Given(new) = Append(Given(out), r)
      BY <2>4, <2>5, <2>6 DEF Given
    <2>8. QED
      BY <1>3, <1>6, <2>6, <2>7 DEF new
  <1>7. CASE ~held
    <2>1. new = [gather |-> << >>, len |-> 0, transport |-> t,
                 sent |-> out.sent \o out.gather \o <<r>>]
      BY <1>1, <1>7 DEF WriteResponse
    <2> HIDE DEF new, t, size
    <2>2. /\ out.sent \o out.gather \in Seq(0..MaxRequests)
          /\ out.sent \o out.gather \o <<r>> \in Seq(0..MaxRequests)
      BY <1>0, <1>1, <1>5
    <2>3. new \in Outs
      BY <1>0, <1>3, <1>4, <2>1, <2>2 DEF Outs
    <2>4. out.sent \o out.gather \o <<r>> \o << >> = out.sent \o out.gather \o <<r>>
      BY <2>2, ConcatEmptySeq
    <2>5. out.sent \o out.gather \o <<r>> = Append(out.sent \o out.gather, r)
      BY <1>0, <2>2, AppendIsConcat
    <2>6. new.sent = out.sent \o out.gather \o <<r>> /\ new.gather = << >> /\ new.transport = t
      BY <2>1
    <2>7. new \in Outs /\ Given(new) = Append(Given(out), r) /\ new.gather = << >>
      BY <2>3, <2>4, <2>5, <2>6 DEF Given
    <2>8. QED
      BY <1>3, <2>6, <2>7 DEF new
  <1>8. QED
    BY <1>6, <1>7

------------------------------------------------------------------------------
(* Draining the pipeline *)

\* The requests that entries first + 1 .. first + n carry.
Window(s, first, n) == [k \in 1..n |-> s[first + k]]
CarriedFrom(first, n) == Window(carried, first, n)

\* They are requests.
LEMMA CarriedTypes ==
  ASSUME carried \in Seq(1..MaxRequests),
         NEW first \in Nat, NEW n \in Nat, first + n <= Len(carried)
  PROVE  /\ CarriedFrom(first, n) \in Seq(1..MaxRequests)
         /\ CarriedFrom(first, n) \in Seq(0..MaxRequests)
         /\ Len(CarriedFrom(first, n)) = n
         /\ \A k \in 1..n : CarriedFrom(first, n)[k] = carried[first + k]
  <1>0. Len(carried) \in Nat /\ MaxRequests \in Nat
    BY ConnectionAssumption
  <1>1. CarriedFrom(first, n) \in [1..n -> 1..MaxRequests]
    BY <1>0 DEF CarriedFrom, Window
  <1>2. CarriedFrom(first, n) \in [1..n -> 0..MaxRequests]
    BY <1>0, <1>1
  <1>3. CarriedFrom(first, n) \in Seq(1..MaxRequests) /\ Len(CarriedFrom(first, n)) = n
    BY <1>1, FunctionIsSeq
  <1>4. CarriedFrom(first, n) \in Seq(0..MaxRequests)
    BY <1>2, FunctionIsSeq
  <1>5. QED
    BY <1>3, <1>4 DEF CarriedFrom, Window

\* The entries of two adjacent windows are those of both.
LEMMA CarriedSplit ==
  ASSUME carried \in Seq(1..MaxRequests),
         NEW first \in Nat, NEW m \in Nat, NEW n \in Nat, first + m + n <= Len(carried)
  PROVE  CarriedFrom(first, m + n) = CarriedFrom(first, m) \o CarriedFrom(first + m, n)
  <1> DEFINE all == CarriedFrom(first, m + n)
             a == CarriedFrom(first, m)
             b == CarriedFrom(first + m, n)
             both == a \o b
  <1>0. Len(carried) \in Nat /\ first + m \in Nat /\ m + n \in Nat
        /\ first + m <= Len(carried)
    OBVIOUS
  <1>1. /\ all \in Seq(1..MaxRequests) /\ Len(all) = m + n
        /\ \A k \in 1..(m + n) : all[k] = carried[first + k]
    <2>1. PICK l \in Nat : l = m + n /\ first + l <= Len(carried)
      BY <1>0
    <2>2. /\ CarriedFrom(first, l) \in Seq(1..MaxRequests) /\ Len(CarriedFrom(first, l)) = l
          /\ \A k \in 1..l : CarriedFrom(first, l)[k] = carried[first + k]
      BY <2>1, CarriedTypes
    <2>3. QED
      BY <2>1, <2>2
  <1>2. /\ a \in Seq(1..MaxRequests) /\ Len(a) = m
        /\ \A k \in 1..m : a[k] = carried[first + k]
    BY <1>0, CarriedTypes
  <1>3. /\ b \in Seq(1..MaxRequests) /\ Len(b) = n
        /\ \A k \in 1..n : b[k] = carried[first + m + k]
    BY <1>0, CarriedTypes
  <1> HIDE DEF all, a, b
  <1>4. /\ both \in Seq(1..MaxRequests) /\ Len(both) = m + n
        /\ \A k \in 1..m : both[k] = a[k]
        /\ \A k \in 1..n : both[m + k] = b[k]
    <2>1. /\ a \in Seq(1..MaxRequests) /\ b \in Seq(1..MaxRequests)
          /\ Len(a) = m /\ Len(b) = n
      BY <1>2, <1>3
    <2>2. QED
      BY <2>1, ConcatAt, SMTT(30)
  <1> HIDE DEF both
  <1>5. ASSUME NEW k \in 1..(m + n) PROVE all[k] = both[k]
    <2>1. CASE k <= m
      <3>1. k \in 1..m
        BY <2>1
      <3>2. both[k] = carried[first + k]
        BY <1>2, <1>4, <3>1
      <3>3. QED
        BY <1>1, <3>2
    <2>2. CASE ~(k <= m)
      <3>1. PICK j \in 1..n : k = m + j
        BY <2>2
      <3>2. both[m + j] = carried[first + m + j]
        BY <1>3, <1>4
      <3>3. first + m + j = first + k
        BY <3>1
      <3>4. QED
        BY <1>1, <3>1, <3>2, <3>3
    <2>3. QED
      BY <2>1, <2>2
  <1>6. all = both
    BY <1>1, <1>4, <1>5, SeqEqual
  <1>7. QED
    BY <1>6 DEF all, both, a, b

\* A window that reaches the end of a sequence grows with it.
LEMMA WindowAppend ==
  ASSUME NEW S, NEW s \in Seq(S), NEW first \in Nat, NEW n \in Nat, first + n = Len(s), NEW r \in S
  PROVE  Window(Append(s, r), first, n + 1) = Append(Window(s, first, n), r)
  <1> DEFINE t == Append(s, r)
             w == Window(s, first, n)
             x == Window(t, first, n + 1)
  <1>1. /\ t \in Seq(S) /\ t[first + (n + 1)] = r
        /\ \A k \in 1..(first + n) : t[k] = s[k] /\ s[k] \in S
    OBVIOUS
  <1> HIDE DEF t
  <1>2. ASSUME NEW k \in 1..n PROVE t[first + k] = s[first + k] /\ s[first + k] \in S
    BY <1>1
  <1>3. w \in [1..n -> S] /\ \A k \in 1..n : w[k] = s[first + k]
    BY <1>2 DEF Window
  <1>4. x \in [1..(n + 1) -> S] /\ \A k \in 1..(n + 1) : x[k] = t[first + k]
    <2>1. ASSUME NEW k \in 1..(n + 1) PROVE t[first + k] \in S
      <3>1. k \in 1..n \/ k = n + 1
        OBVIOUS
      <3>2. QED
        BY <1>1, <1>2, <3>1
    <2>2. QED
      BY <2>1 DEF Window
  <1> HIDE DEF w, x
  <1>5. w \in Seq(S) /\ Len(w) = n
    BY <1>3, FunctionIsSeq
  <1>6. n + 1 \in Nat /\ x \in Seq(S) /\ Len(x) = n + 1
    <2>1. n + 1 \in Nat
      OBVIOUS
    <2>2. QED
      BY <1>4, <2>1, FunctionIsSeq
  <1>7. /\ Append(w, r) \in Seq(S) /\ Len(Append(w, r)) = n + 1
        /\ \A k \in 1..n : Append(w, r)[k] = w[k]
        /\ Append(w, r)[n + 1] = r
    BY <1>5
  <1>8. ASSUME NEW k \in 1..(n + 1) PROVE x[k] = Append(w, r)[k]
    <2>1. k \in 1..n \/ k = n + 1
      OBVIOUS
    <2>2. QED
      BY <1>1, <1>2, <1>3, <1>4, <1>7, <2>1
  <1>9. x = Append(w, r)
    BY <1>6, <1>7, <1>8, SeqEqual
  <1>10. QED
    BY <1>9 DEF x, w, t

\* The entries that wait are the last ones queued.
LEMMA PendingIsLast ==
  ASSUME PP!IInv
  PROVE  Pending = CarriedFrom(Pipe!LeftQueue, queue_end - queue_start)
  <1>1. /\ queue_start \in Nat /\ queue_end \in Nat /\ queued \in Nat
        /\ queue_start <= queue_end
        /\ \A i \in Pipe!Waiting : queue[i].number = queued + 1 - (queue_end - i)
    BY PipelineInvMeans, ConnectionAssumption DEF Pipe!TypeOK
  <1>2. ASSUME NEW k \in 1..(queue_end - queue_start)
        PROVE  queue[queue_start + k - 1].number = Pipe!LeftQueue + k
    <2>1. queue_start + k - 1 \in Pipe!Waiting
      BY <1>1 DEF Pipe!Waiting
    <2>2. QED
      BY <1>1, <2>1 DEF Pipe!LeftQueue
  <1>3. QED
    BY <1>2 DEF Pending, CarriedFrom, Window

\* _task_done hands over the next entries in line; its queue_start follows them
\* unless ready failed.
LEMMA TaskDoneDrains ==
  ASSUME PP!IInv, Pipe!Pipeline_task_done
  PROVE  \E n \in Nat :
            /\ n <= queue_end - queue_start
            /\ Drained = [k \in 1..n |-> Pipe!LeftQueue + k]
            /\ (ready_failed' = TRUE /\ queue_start' = queue_start) \/ queue_start' = queue_start + n
            /\ queue_start' \in queue_start..queue_end
  <1>1. /\ queue_start \in Nat /\ queue_end \in Nat /\ queued \in Nat
        /\ queue_start <= queue_end /\ MaxEntries \in Nat /\ queued <= MaxEntries
        /\ Pipe!LeftQueue >= 0 /\ written \in Seq(1..MaxEntries)
        /\ \A i \in Pipe!Waiting : queue[i].number = queued + 1 - (queue_end - i)
    BY PipelineInvMeans, ConnectionAssumption DEF Pipe!TypeOK, Pipe!Entries
  <1>2. ASSUME NEW stop \in queue_start..queue_end,
               written' = written \o Pipe!NumbersOf(queue_start, stop)
        PROVE  Drained = [k \in 1..(stop - queue_start) |-> Pipe!LeftQueue + k]
    <2> DEFINE n == stop - queue_start
               numbers == Pipe!NumbersOf(queue_start, stop)
    <2>1. n \in Nat
      BY <1>1
    <2>2. ASSUME NEW k \in 1..n
          PROVE  /\ queue[queue_start + k - 1].number = Pipe!LeftQueue + k
                 /\ Pipe!LeftQueue + k \in 1..MaxEntries
      <3>1. queue_start + k - 1 \in Pipe!Waiting
        BY <1>1 DEF Pipe!Waiting
      <3>2. QED
        BY <1>1, <3>1 DEF Pipe!LeftQueue
    <2>3. numbers = [k \in 1..n |-> Pipe!LeftQueue + k]
      BY <2>2 DEF Pipe!NumbersOf
    <2>a. numbers \in [1..n -> 1..MaxEntries]
      BY <2>2, <2>3
    <2>4. numbers \in Seq(1..MaxEntries) /\ Len(numbers) = n
      BY <2>1, <2>a, FunctionIsSeq
    <2> HIDE DEF numbers, n
    <2>5. Drained = SubSeq(written \o numbers, Len(written) + 1, Len(written \o numbers))
      BY <1>2 DEF Drained, numbers
    <2>6. Drained = numbers
      BY <1>1, <2>4, <2>5, SubSeqOfConcat2, SubSeqFull, SMTT(30)
    <2>7. QED
      BY <2>3, <2>6 DEF n
  <1>3. PICK stop \in queue_start..queue_end : Pipe!DrainTo(stop) \/ Pipe!FailAt(stop)
    BY DEF Pipe!Pipeline_task_done
  <1>4. CASE Pipe!DrainTo(stop)
    <2>1. stop - queue_start \in Nat /\ stop - queue_start <= queue_end - queue_start
      BY <1>1
    <2>2. queue_start' = queue_start + (stop - queue_start)
      BY <1>1, <1>4 DEF Pipe!DrainTo
    <2>3. QED
      BY <1>1, <1>2, <1>4, <2>1, <2>2 DEF Pipe!DrainTo
  <1>5. CASE Pipe!FailAt(stop)
    <2>1. PICK wrote \in {0, 1} : written' = written \o Pipe!NumbersOf(queue_start, stop + wrote)
      BY <1>5 DEF Pipe!FailAt
    <2>2. stop + wrote \in queue_start..queue_end
      BY <1>1, <1>5 DEF Pipe!FailAt
    <2>3. /\ (stop + wrote) - queue_start \in Nat
          /\ (stop + wrote) - queue_start <= queue_end - queue_start
      BY <1>1, <2>2
    <2>4. Drained = [k \in 1..((stop + wrote) - queue_start) |-> Pipe!LeftQueue + k]
      BY <1>2, <2>1, <2>2
    <2>5. /\ ready_failed' = TRUE /\ queue_start' = queue_start
          /\ queue_start' \in queue_start..queue_end
      BY <1>1, <1>5 DEF Pipe!FailAt
    <2>6. QED
      BY <2>3, <2>4, <2>5
  <1>6. QED
    BY <1>3, <1>4, <1>5

\* The output after the entries first + 1 .. first + n were handed over: their responses
\* follow those already given, and nothing is held back when the gather is off.
HandedOver(out, first, n) ==
  /\ out \in Outs
  /\ Given(out) = Given(Output) \o CarriedFrom(first, n)
  /\ n > 0 /\ ~gather_enabled => out.gather = << >>
  /\ n = 0 => out = Output
  /\ ClosesOnly(transport, out.transport)

\* An answer appended to those of some entries is appended to all that were given.
LEMMA AnswerAppended ==
  ASSUME NEW g \in Seq(0..MaxRequests), NEW c \in Seq(0..MaxRequests), NEW e \in 0..MaxRequests
  PROVE  g \o Append(c, e) = Append(g \o c, e)
  BY ConcatAppend

\* That is what the fold over n entries gives.
LEMMA DrainGives ==
  ASSUME RequestsOK, Output \in Outs, gather_enabled \in BOOLEAN,
         carried \in Seq(1..MaxRequests),
         \A e \in 1..Len(carried) : carried[e] <= Len(requests),
         NEW first \in Nat, NEW n \in Nat, first + n <= Len(carried),
         NEW s \in Seq(Nat), Len(s) = n, \A k \in 1..n : s[k] = first + k,
         NEW out, out = Handed!Fold(Output, s)
  PROVE  HandedOver(out, first, n)
  <1> DEFINE After(k) == {o \in Outs :
                            /\ Given(o) = Given(Output) \o CarriedFrom(first, k)
                            /\ k > 0 /\ ~gather_enabled => o.gather = << >>
                            /\ k = 0 => o = Output
                            /\ ClosesOnly(transport, o.transport)}
             I == [k \in 0..n |-> After(k)]
  <1>0. /\ Len(requests) \in Nat /\ MaxRequests \in Nat /\ Len(requests) <= MaxRequests
        /\ Len(carried) \in Nat
    BY ConnectionAssumption DEF RequestsOK
  <1>2. Given(Output) \in Seq(0..MaxRequests)
    <2>1. Output.sent \in Seq(0..MaxRequests) /\ Output.gather \in Seq(0..MaxRequests)
      BY <1>0 DEF Outs
    <2>2. QED
      BY <2>1 DEF Given
  <1>3. ASSUME NEW k \in 1..n
        PROVE  /\ carried[first + k] \in 1..Len(requests)
               /\ carried[first + k] \in 0..MaxRequests
               /\ CarriedFrom(first, k - 1) \in Seq(0..MaxRequests)
               /\ CarriedFrom(first, k) = Append(CarriedFrom(first, k - 1), carried[first + k])
    <2>1. /\ first + k \in 1..Len(carried) /\ k - 1 \in Nat /\ first + (k - 1) \in Nat
          /\ first + (k - 1) + 1 <= Len(carried) /\ (k - 1) + 1 = k
          /\ first + (k - 1) <= Len(carried)
      BY <1>0
    <2>2. carried[first + k] \in 1..Len(requests) /\ carried[first + k] \in 0..MaxRequests
      BY <1>0, <2>1, SMTT(30)
    <2>3. CarriedFrom(first, k - 1) \in Seq(0..MaxRequests)
      BY <2>1, CarriedTypes
    <2>4. CarriedFrom(first, k) = CarriedFrom(first, k - 1) \o CarriedFrom(first + (k - 1), 1)
      <3>1. PICK m \in Nat : m = k - 1
        BY <2>1
      <3>a. first + m + 1 <= Len(carried) /\ 1 \in Nat
        BY <1>0, <2>1, <3>1
      <3>2. CarriedFrom(first, m + 1) = CarriedFrom(first, m) \o CarriedFrom(first + m, 1)
        BY <3>a, CarriedSplit, ZenonT(30)
      <3>3. QED
        BY <2>1, <3>1, <3>2
    <2>5. CarriedFrom(first + (k - 1), 1) = <<carried[first + k]>>
      <3>1. \A j \in 1..1 : first + (k - 1) + j = first + k
        OBVIOUS
      <3>2. CarriedFrom(first + (k - 1), 1) = [j \in 1..1 |-> carried[first + k]]
        BY <3>1 DEF CarriedFrom, Window
      <3>3. QED
        BY <3>2
    <2>6. QED
      BY <2>1, <2>2, <2>3, <2>4, <2>5, AppendIsConcat
  <1>4. Output \in I[0]
    <2>1. CarriedFrom(first, 0) = << >>
      BY DEF CarriedFrom, Window
    <2>2. ClosesOnly(transport, Output.transport)
      BY DEF ClosesOnly, Output
    <2>3. QED
      BY <1>2, <2>1, <2>2, ConcatEmptySeq
  <1>5. ASSUME NEW k \in 1..n, NEW o \in I[k - 1]
        PROVE  Protocol_pipeline_ready(o, s[k]) \in I[k]
    <2> DEFINE new == WriteResponse(gather_enabled, o, carried[first + k])
    <2>1. k - 1 \in 0..n /\ o \in After(k - 1)
      OBVIOUS
    <2>2. /\ new \in Outs /\ Given(new) = Append(Given(o), carried[first + k])
          /\ ~gather_enabled => new.gather = << >>
          /\ ClosesOnly(o.transport, new.transport)
      BY <2>1, <1>3, WriteResponseGives
    <2>3. Given(new) = Given(Output) \o CarriedFrom(first, k)
      <3>1. PICK g \in Seq(0..MaxRequests), c \in Seq(0..MaxRequests), e \in 0..MaxRequests :
                g = Given(Output) /\ c = CarriedFrom(first, k - 1) /\ e = carried[first + k]
        BY <1>2, <1>3
      <3>2. g \o Append(c, e) = Append(g \o c, e)
        BY AnswerAppended
      <3>3. Given(new) = Append(g \o c, e) /\ CarriedFrom(first, k) = Append(c, e)
        BY <2>1, <2>2, <1>3, <3>1
      <3>4. QED
        BY <3>1, <3>2, <3>3
    <2> HIDE DEF new
    <2>a. ClosesOnly(transport, new.transport)
      BY <2>1, <2>2 DEF ClosesOnly
    <2>4. new \in After(k)
      BY <2>2, <2>3, <2>a, SMTT(30)
    <2>5. Protocol_pipeline_ready(o, s[k]) = new
      BY DEF Protocol_pipeline_ready, new
    <2> HIDE DEF After
    <2>6. k \in 0..n /\ I[k] = After(k)
      OBVIOUS
    <2>7. QED
      BY <2>4, <2>5, <2>6
  <1> HIDE DEF I
  <1>6. Handed!Fold(Output, s) \in I[Len(s)]
    BY <1>4, <1>5, Handed!FoldInvariant
  <1>7. out \in I[n]
    BY <1>6
  <1>8. QED
    BY <1>7 DEF I, HandedOver

------------------------------------------------------------------------------
(* The inductive invariant *)

\* Who has control and what the parser knows.
ControlOK ==
  /\ phase \in {"loop", "feed"} /\ buffered \in BOOLEAN
  /\ parser_state \in {"headers", "body"}
  /\ parser_connection \in {"unset", "close", "keep-alive"}
  /\ gather_enabled \in BOOLEAN /\ feed_failures \in 0..MaxFailures
  /\ phase = "feed" => transport # "lost"

HandledOK ==
  /\ RequestsOK /\ handled \in 0..Len(requests)
  /\ parser_state = "body" => requests # << >>

\* Every entry of the pipeline carries a request.
CarriedOK ==
  /\ carried \in Seq(1..MaxRequests) /\ Len(carried) = queued
  /\ \A e \in 1..Len(carried) : carried[e] <= Len(requests)

OutputOK == Output \in Outs

\* As long as no call of data_received raised and more requests may be taken, only
\* the request whose body is being parsed is not handled yet.
Going == feed_failures = 0 /\ (phase = "feed" \/ transport = "open")
HandledAll ==
  Going => handled = IF parser_state = "body" THEN Len(requests) - 1 ELSE Len(requests)

\* What is held back with nothing pending has more bytes behind it.
HeldBackBriefly ==
  Going /\ gather # << >> /\ Pipe!PIPELINE_EMPTY =>
      phase = "feed" /\ (buffered \/ parser_state = "body")

IInv ==
  /\ PP!IInv /\ ControlOK /\ HandledOK /\ CarriedOK /\ OutputOK
  /\ HandledAll /\ GatherOffWhilePending /\ HeldBackBriefly
  /\ AnsweredOnceInOrder /\ CancelledWhenLost

\* What the parser makes of the Connection headers is one of its two readings.
LEMMA ParserReadsToken ==
  ASSUME NEW head \in Heads
  PROVE  ParserReads(head) \in {"close", "keep-alive"}
  <1> DEFINE said == {i \in DOMAIN head.values : head.values[i].whole # "other"}
  <1>1. /\ Len(head.values) \in Nat /\ said \subseteq 0..Len(head.values)
        /\ \A i \in said : head.values[i].whole \in {"close", "keep-alive"}
    <2>1. head.values \in Seq([whole : Tokens \union {"other"}, inside : SUBSET Tokens])
      BY ConnectionAssumption
    <2>2. DOMAIN head.values = 1..Len(head.values) /\ Len(head.values) \in Nat
      BY <2>1
    <2>3. ASSUME NEW i \in DOMAIN head.values
          PROVE  head.values[i].whole \in Tokens \union {"other"}
      <3>1. head.values[i] \in [whole : Tokens \union {"other"}, inside : SUBSET Tokens]
        BY <2>1, ElementOfSeq, <2>2
      <3>2. QED
        BY <3>1
    <2>4. QED
      BY <2>2, <2>3 DEF Tokens
  <1> HIDE DEF said
  <1>2. said # {} => Max(said) \in said
    BY <1>1, Summed!GreatestElement DEF Summed!Max, Max
  <1>3. QED
    BY <1>1, <1>2 DEF ParserReads, said

\* Control passes between the loop and the parser, which runs only on a connection that
\* is not lost.
LEMMA ControlStep ==
  ASSUME ControlOK, HandledOK, [Next]_vars
  PROVE  ControlOK'
  <1> USE DEF ControlOK, parser_vars, output_vars
  <1>1. CASE Protocol_data_received
    BY <1>1 DEF Protocol_data_received
  <1>2. CASE Headers
    <2>1. parser_connection' \in {"close", "keep-alive"}
      BY <1>2, ParserReadsToken DEF Headers
    <2>2. QED
      BY <1>2, <2>1 DEF Headers
  <1>3. CASE Incomplete
    BY <1>3 DEF Incomplete
  <1>4. CASE ParseError
    BY <1>4 DEF ParseError, ParserReset
  <1>5. CASE FeedEnds
    BY <1>5 DEF FeedEnds
  <1>6. CASE Protocol_on_body
    <2>1. /\ buffered' \in BOOLEAN /\ parser_state' = "headers" /\ phase' = phase
          /\ gather_enabled' \in BOOLEAN /\ feed_failures' = feed_failures
          /\ parser_connection' = parser_connection
      BY <1>6 DEF Protocol_on_body, OnBody, NextRequest
    <2>2. transport' = transport \/ (transport # "lost" => transport' # "lost")
      BY <1>6 DEF Protocol_on_body, QueueRequest, WriteNow, Outputs, WriteResponse, Output, Closed
    <2>3. QED
      BY <2>1, <2>2
  <1>7. CASE OnBodyFails
    <2>1. feed_failures' \in 0..MaxFailures
      BY <1>7, ConnectionAssumption DEF OnBodyFails
    <2>2. /\ phase' = "loop" /\ gather_enabled' \in BOOLEAN /\ buffered' \in BOOLEAN
          /\ UNCHANGED <<parser_state, parser_connection>>
      BY <1>7 DEF OnBodyFails, OnBody
    <2>3. QED
      BY <2>1, <2>2
  <1>8. CASE TaskDoneCallback
    BY <1>8 DEF TaskDoneCallback
  <1>9. CASE TaskFinishes
    BY <1>9 DEF TaskFinishes
  <1>10. CASE Protocol_connection_lost
    BY <1>10 DEF Protocol_connection_lost, ParserReset
  <1>11. CASE ClosedByServer
    BY <1>11 DEF ClosedByServer
  <1>12. CASE Protocol_pipeline_cancel
    BY <1>12 DEF Protocol_pipeline_cancel
  <1>13. CASE UNCHANGED vars
    BY <1>13 DEF vars
  <1>14. QED
    BY <1>1, <1>2, <1>3, <1>4, <1>5, <1>6, <1>7, <1>8, <1>9, <1>10, <1>11, <1>12, <1>13
       DEF Next, FeedStep

\* Requests are only ever added, and handled in the step that parsed their body.
LEMMA HandledStep ==
  ASSUME ControlOK, HandledOK, [Next]_vars
  PROVE  HandledOK'
  <1> USE DEF HandledOK, RequestsOK
  <1>1. CASE Headers
    <2>1. PICK head \in Heads, is_coro \in BOOLEAN, size \in Sizes :
              requests' = Append(requests, [is_coro |-> is_coro,
                            close |-> ~Request_get_keep_alive(head), size |-> size])
      BY <1>1 DEF Headers
    <2> DEFINE new == [is_coro |-> is_coro, close |-> ~Request_get_keep_alive(head),
                       size |-> size]
    <2>2. new \in Request
      BY DEF Request
    <2> HIDE DEF new
    <2>3. /\ requests' \in Seq(Request) /\ Len(requests') = Len(requests) + 1
          /\ requests' # << >>
      BY <2>1, <2>2 DEF new
    <2>4. handled' = handled /\ Len(requests) < MaxRequests
      BY <1>1 DEF Headers
    <2>5. QED
      BY <2>3, <2>4, ConnectionAssumption
  <1>2. ASSUME requests' = requests, handled' = handled,
               parser_state' = parser_state \/ parser_state' = "headers"
        PROVE  HandledOK'
    BY <1>2
  <1>3. ASSUME NEW tail, OnBody(tail), requests' = requests,
               parser_state' = parser_state \/ parser_state' = "headers"
        PROVE  HandledOK'
    BY <1>3 DEF OnBody, Current
  <1>4. CASE Protocol_data_received
    BY <1>4, <1>2 DEF Protocol_data_received
  <1>5. CASE Incomplete
    BY <1>5, <1>2 DEF Incomplete
  <1>6. CASE ParseError
    BY <1>6, <1>2 DEF ParseError, ParserReset
  <1>7. CASE FeedEnds
    BY <1>7, <1>2 DEF FeedEnds, parser_vars
  <1>8. CASE Protocol_on_body
    BY <1>8, <1>3 DEF Protocol_on_body, NextRequest
  <1>9. CASE OnBodyFails
    BY <1>9, <1>3 DEF OnBodyFails
  <1>10. CASE TaskDoneCallback \/ TaskFinishes
    BY <1>10, <1>2 DEF TaskDoneCallback, TaskFinishes, parser_vars
  <1>11. CASE Protocol_connection_lost
    BY <1>11, <1>2 DEF Protocol_connection_lost, ParserReset
  <1>12. CASE ClosedByServer \/ Protocol_pipeline_cancel \/ UNCHANGED vars
    BY <1>12, <1>2 DEF ClosedByServer, Protocol_pipeline_cancel, vars, parser_vars
  <1>13. QED
    BY <1>1, <1>4, <1>5, <1>6, <1>7, <1>8, <1>9, <1>10, <1>11, <1>12
       DEF Next, FeedStep

\* What is held back means the same when only more requests are known.
LEMMA OutsKept ==
  ASSUME HandledOK, NEW out \in Outs,
         requests' = requests \/ (\E new : requests' = Append(requests, new))
  PROVE  out \in Outs'
  <1>0. requests \in Seq(Request) /\ MaxRequests \in Nat
    BY ConnectionAssumption DEF HandledOK, RequestsOK
  <1>1. /\ Len(requests) \in Nat /\ Len(requests') \in Nat /\ Len(requests) <= Len(requests')
        /\ \A r \in 1..Len(requests) : requests'[r] = requests[r]
    BY <1>0
  <1>2. /\ out.gather \in Seq(1..MaxRequests)
        /\ \A k \in 1..Len(out.gather) : out.gather[k] <= Len(requests)
    BY DEF Outs
  <1>3. \A k \in 1..Len(out.gather) : out.gather[k] \in 1..Len(requests)
    BY <1>0, <1>2
  <1>4. SizesOf(out.gather)' = SizesOf(out.gather)
    BY <1>1, <1>2, <1>3 DEF SizesOf
  <1>5. \A k \in 1..Len(out.gather) : out.gather[k] <= Len(requests')
    BY <1>0, <1>1, <1>3
  <1>6. out.len = Summed!Fold(0, SizesOf(out.gather)')
    BY <1>4 DEF Outs
  <1>7. QED
    BY <1>5, <1>6 DEF Outs

\* Outputs assigns all of the output.
LEMMA OutputsMeans ==
  ASSUME NEW out \in Outs, Outputs(out)
  PROVE  Output' = out
  <1>1. out = [gather |-> out.gather, len |-> out.len, sent |-> out.sent,
               transport |-> out.transport]
    BY DEF Outs
  <1>2. QED
    BY <1>1 DEF Outputs, Output

\* What a callback of the event loop gives: the next n responses in line.
LEMMA TaskDoneGives ==
  ASSUME PP!IInv, ControlOK, HandledOK, CarriedOK, OutputOK,
         TaskDoneCallback, transport # "lost"
  PROVE  \E n \in Nat :
            /\ n <= queue_end - queue_start
            /\ HandedOver(Output', Pipe!LeftQueue, n)
            /\ (ready_failed' = TRUE /\ queue_start' = queue_start) \/ queue_start' = queue_start + n
            /\ queue_start' \in queue_start..queue_end
  <1>1. /\ queue_start \in Nat /\ queue_end \in Nat /\ queued \in Nat
        /\ queue_start <= queue_end /\ Pipe!LeftQueue >= 0
    BY PipelineInvMeans, ConnectionAssumption DEF Pipe!TypeOK
  <1>2. PICK n \in Nat :
            /\ n <= queue_end - queue_start
            /\ Drained = [k \in 1..n |-> Pipe!LeftQueue + k]
            /\ (ready_failed' = TRUE /\ queue_start' = queue_start) \/ queue_start' = queue_start + n
            /\ queue_start' \in queue_start..queue_end
    BY TaskDoneDrains DEF TaskDoneCallback
  <1> DEFINE out == FoldLeft(Protocol_pipeline_ready, Output, Drained)
  <1>3. /\ Pipe!LeftQueue \in Nat /\ n \in Nat /\ Pipe!LeftQueue + n <= queued
    BY <1>1, <1>2 DEF Pipe!LeftQueue
  <1>4. out = Handed!Fold(Output, Drained)
    BY DrainIsFold
  <1>a. /\ Drained \in Seq(Nat) /\ Len(Drained) = n
        /\ \A k \in 1..n : Drained[k] = Pipe!LeftQueue + k
    BY <1>2, <1>3
  <1>5. Outputs(out)
    BY DEF TaskDoneCallback
  <1> HIDE DEF out
  <1>6. /\ RequestsOK /\ Output \in Outs /\ gather_enabled \in BOOLEAN
        /\ carried \in Seq(1..MaxRequests) /\ Len(carried) = queued
        /\ \A e \in 1..Len(carried) : carried[e] <= Len(requests)
    BY DEF HandledOK, OutputOK, ControlOK, CarriedOK
  <1>7. HandedOver(out, Pipe!LeftQueue, n)
    <2>1. Pipe!LeftQueue + n <= Len(carried)
      BY <1>3, <1>6
    <2>2. QED
      BY <1>3, <1>4, <1>a, <1>6, <2>1, DrainGives
  <1>8. Output' = out
    BY <1>5, <1>7, OutputsMeans DEF HandedOver
  <1>9. QED
    BY <1>2, <1>7, <1>8

\* A step writes, holds back or flushes only what fits, and keeps the length right.
LEMMA OutputStep ==
  ASSUME PP!IInv, ControlOK, HandledOK, CarriedOK, OutputOK, [Next]_vars
  PROVE  OutputOK'
  <1> USE DEF OutputOK
  <1>0. /\ MaxRequests \in Nat /\ GATHER_MAX_LEN \in Nat /\ GATHER_MAX_RESP \in Nat
        /\ gather \in Seq(1..MaxRequests) /\ sent \in Seq(0..MaxRequests)
        /\ transport \in {"open", "closing", "lost"}
    BY ConnectionAssumption DEF Outs, Output
  <1>1. ASSUME NEW out \in Outs, Outputs(out), requests' = requests
        PROVE  OutputOK'
    BY <1>1, OutsKept, OutputsMeans
  <1>2. ASSUME UNCHANGED output_vars, requests' = requests
        PROVE  OutputOK'
    <2>1. Output' = Output
      BY <1>2 DEF Output, output_vars
    <2>2. QED
      BY <2>1, <1>2, OutsKept
  <1>3. ASSUME NEW out \in Outs, NEW t \in {"open", "closing", "lost"}
        PROVE  [out EXCEPT !.transport = t] \in Outs
    BY DEF Outs
  <1>4. CASE Headers
    <2>1. Output' = Output
      BY <1>4 DEF Headers, Output, output_vars
    <2>2. \E new : requests' = Append(requests, new)
      BY <1>4 DEF Headers
    <2>3. QED
      BY <2>1, <2>2, OutsKept
  <1>5. CASE Incomplete
    <2>1. sent \o gather \in Seq(0..MaxRequests)
      <3>1. gather \in Seq(0..MaxRequests)
        BY <1>0
      <3>2. QED
        BY <1>0, <3>1
    <2> DEFINE out == [gather |-> << >>, len |-> 0, sent |-> Written(gather),
                       transport |-> transport]
    <2>2. 0 = Summed!Fold(0, SizesOf(<< >>))
      <3>1. SizesOf(<< >>) = << >>
        BY DEF SizesOf
      <3>2. QED
        BY <3>1, Summed!FoldEmpty
    <2>a. Written(gather) \in Seq(0..MaxRequests)
      BY <1>0, <2>1 DEF Written
    <2>3. out \in Outs
      <3>1. out \in [gather : Seq(1..MaxRequests), len : 0..GATHER_MAX_LEN,
                     sent : Seq(0..MaxRequests), transport : {"open", "closing", "lost"}]
        BY <1>0, <2>a
      <3>2. Len(out.gather) = 0 /\ out.len = Summed!Fold(0, SizesOf(out.gather))
        BY <2>2
      <3>3. QED
        BY <1>0, <3>1, <3>2 DEF Outs
    <2>4. Outputs(out) /\ requests' = requests
      BY <1>5 DEF Incomplete, Protocol_on_incomplete, Outputs
    <2>5. QED
      BY <2>3, <2>4, <1>1
  <1>6. CASE ParseError
    <2> DEFINE out == [gather |-> gather, len |-> gather_len,
                       sent |-> Written(<<BadRequest>>), transport |-> Closed(transport)]
    <2>1. Written(<<BadRequest>>) \in Seq(0..MaxRequests)
      <3>1. <<BadRequest>> \in Seq(0..MaxRequests)
        BY <1>0 DEF BadRequest
      <3>2. sent \o <<BadRequest>> \in Seq(0..MaxRequests)
        BY <1>0, <3>1, ConcatProperties
      <3>3. QED
        BY <1>0, <3>2 DEF Written
    <2>2. Closed(transport) \in {"open", "closing", "lost"}
      BY <1>0 DEF Closed
    <2>3. out \in Outs
      BY <2>1, <2>2 DEF Outs, Output
    <2>4. Outputs(out) /\ requests' = requests
      BY <1>6 DEF ParseError, Protocol_on_error, Outputs
    <2>5. QED
      BY <2>3, <2>4, <1>1
  <1>7. ASSUME NEW tail, OnBody(tail)
        PROVE  /\ gather_enabled' \in BOOLEAN /\ Current \in 1..Len(requests)
               /\ WriteResponse(gather_enabled', Output, Current) \in Outs
    <2>1. gather_enabled' \in BOOLEAN /\ Current \in 1..Len(requests)
      BY <1>7 DEF OnBody, ParsingBody, Current, HandledOK, RequestsOK
    <2>2. QED
      BY <2>1, WriteResponseGives DEF HandledOK
  <1>8. CASE Protocol_on_body
    <2>1. PICK tail \in BOOLEAN :
              /\ OnBody(tail) /\ NextRequest
              /\ (\E is_task \in BOOLEAN : QueueRequest(is_task)) \/ WriteNow(gather_enabled')
      BY <1>8 DEF Protocol_on_body
    <2>2. CASE \E is_task \in BOOLEAN : QueueRequest(is_task)
      BY <2>1, <2>2, <1>2 DEF QueueRequest, NextRequest
    <2>3. CASE WriteNow(gather_enabled')
      BY <2>1, <2>3, <1>1, <1>7 DEF WriteNow, NextRequest
    <2>4. QED
      BY <2>1, <2>2, <2>3
  <1>9. CASE OnBodyFails
    <2>1. PICK tail \in BOOLEAN :
              /\ OnBody(tail)
              /\ \E out \in {Output} \union
                     (IF IsCoro THEN {} ELSE {WriteResponse(gather_enabled', Output, Current)}) :
                   \E t \in {out.transport, Closed(out.transport)} :
                      Outputs([out EXCEPT !.transport = t])
      BY <1>9 DEF OnBodyFails
    <2>2. PICK out \in Outs : \E t \in {out.transport, Closed(out.transport)} :
              Outputs([out EXCEPT !.transport = t])
      BY <2>1, <1>7
    <2>a. PICK t \in {out.transport, Closed(out.transport)} :
              Outputs([out EXCEPT !.transport = t])
      BY <2>2
    <2>3. t \in {"open", "closing", "lost"}
      BY DEF Outs, Closed
    <2>4. requests' = requests
      BY <1>9 DEF OnBodyFails
    <2>5. QED
      BY <2>a, <2>3, <2>4, <1>1, <1>3
  <1>10. CASE TaskDoneCallback
    <2>1. requests' = requests
      BY <1>10 DEF TaskDoneCallback, parser_vars
    <2>2. CASE transport = "lost"
      BY <1>10, <2>1, <2>2, <1>2 DEF TaskDoneCallback
    <2>3. CASE transport # "lost"
      <3>1. Output' \in Outs
        BY <1>10, <2>3, TaskDoneGives DEF HandedOver
      <3>2. QED
        BY <2>1, <3>1, OutsKept
    <2>4. QED
      BY <2>2, <2>3
  <1>11. ASSUME NEW t \in {"open", "closing", "lost"}, transport' = t,
                UNCHANGED <<gather, gather_len, sent, requests>>
         PROVE  OutputOK'
    <2>1. Output' = [Output EXCEPT !.transport = t]
      BY <1>11 DEF Output
    <2>2. QED
      BY <2>1, <1>3, <1>11, OutsKept
  <1>12. CASE Protocol_connection_lost
    BY <1>12, <1>11 DEF Protocol_connection_lost
  <1>13. CASE ClosedByServer
    BY <1>13, <1>11 DEF ClosedByServer, parser_vars
  <1>14. CASE Protocol_data_received \/ FeedEnds \/ TaskFinishes \/ Protocol_pipeline_cancel
              \/ UNCHANGED vars
    BY <1>14, <1>2 DEF Protocol_data_received, FeedEnds, TaskFinishes,
                       Protocol_pipeline_cancel, vars, parser_vars
  <1>15. QED
    BY <1>4, <1>5, <1>6, <1>8, <1>9, <1>10, <1>12, <1>13, <1>14 DEF Next, FeedStep

------------------------------------------------------------------------------
(* Entries and the requests they carry *)

\* A full pipeline stops the process; otherwise one entry joins the window.
Grown ==
  /\ queued' = queued + 1 /\ Pipe!LeftQueue' = Pipe!LeftQueue
  /\ queue_end' - queue_start' = (queue_end - queue_start) + 1

\* Pipeline_queue never leaves the pipeline empty.
LEMMA QueueGives ==
  ASSUME PP!IInv, NEW is_task, Pipe!Pipeline_queue(is_task)
  PROVE  /\ \/ aborted' = TRUE /\ queued' = queued
            \/ aborted' = FALSE /\ Grown
         /\ ~Pipe!PIPELINE_EMPTY'
  <1>0. /\ queue_start \in Nat /\ queue_end \in Nat /\ queued \in Nat
        /\ queue_start <= queue_end /\ QueueSlots \in Nat \ {0}
    BY PipelineInvMeans, ConnectionAssumption DEF Pipe!TypeOK
  <1>1. CASE Pipe!PipelineOverflow
    BY <1>0, <1>1 DEF Pipe!PipelineOverflow, Pipe!QueueReset, Pipe!PIPELINE_EMPTY
  <1>2. CASE Pipe!PipelineStore(is_task)
    <2>1. aborted' = FALSE
      BY <1>2, PipelineInvMeans DEF Pipe!PipelineStore, Pipe!Pipeline_queue, Pipe!TypeOK
    <2>2. Grown
      BY <1>0, <1>2 DEF Pipe!PipelineStore, Pipe!QueueReset, Pipe!PIPELINE_EMPTY, Grown,
                        Pipe!LeftQueue
    <2>3. ~Pipe!PIPELINE_EMPTY'
      BY <1>0, <1>2 DEF Pipe!PipelineStore, Pipe!QueueReset, Pipe!PIPELINE_EMPTY
    <2>4. QED
      BY <2>1, <2>2, <2>3
  <1>3. QED
    BY <1>1, <1>2 DEF Pipe!Pipeline_queue

\* An entry and the request it carries are added together.
LEMMA CarriedStep ==
  ASSUME PP!IInv, HandledOK, CarriedOK, [Next]_vars
  PROVE  CarriedOK'
  <1>0. /\ requests \in Seq(Request) /\ Len(requests) \in Nat /\ Len(requests) <= MaxRequests
        /\ MaxRequests \in Nat /\ queued \in Nat
    BY PipelineInvMeans, ConnectionAssumption DEF HandledOK, RequestsOK, Pipe!TypeOK
  <1>1. ASSUME carried' = carried, queued' = queued, requests' = requests
        PROVE  CarriedOK'
    BY <1>1 DEF CarriedOK
  <1>2. CASE Headers
    <2>1. PICK new : requests' = Append(requests, new)
      BY <1>2 DEF Headers
    <2>2. Len(requests') = Len(requests) + 1
      BY <1>0, <2>1
    <2>3. carried' = carried /\ queued' = queued
      BY <1>2 DEF Headers, pipeline_vars
    <2>4. QED
      BY <1>0, <2>2, <2>3 DEF CarriedOK
  <1>3. CASE Protocol_on_body
    <2>1. PICK tail \in BOOLEAN :
              /\ OnBody(tail) /\ NextRequest
              /\ (\E is_task \in BOOLEAN : QueueRequest(is_task)) \/ WriteNow(gather_enabled')
      BY <1>3 DEF Protocol_on_body
    <2>2. requests' = requests /\ Current \in 1..Len(requests)
      BY <1>0, <2>1 DEF NextRequest, OnBody, ParsingBody, Current, HandledOK
    <2>3. ASSUME NEW is_task \in BOOLEAN, QueueRequest(is_task)
          PROVE  CarriedOK'
      <3>1. CASE aborted' = TRUE /\ queued' = queued
        BY <1>1, <2>2, <2>3, <3>1 DEF QueueRequest
      <3>2. CASE aborted' = FALSE /\ Grown
        <4>1. carried' = Append(carried, Current) /\ queued' = queued + 1
          BY <2>3, <3>2 DEF QueueRequest, Grown
        <4>2. Current \in 1..MaxRequests
          BY <1>0, <2>2
        <4>3. QED
          BY <1>0, <2>2, <4>1, <4>2 DEF CarriedOK
      <3>3. QED
        BY <2>3, <3>1, <3>2, QueueGives DEF QueueRequest
    <2>4. CASE WriteNow(gather_enabled')
      BY <1>1, <2>2, <2>4 DEF WriteNow, pipeline_vars
    <2>5. QED
      BY <2>1, <2>3, <2>4
  <1>4. CASE OnBodyFails
    BY <1>1, <1>4 DEF OnBodyFails, pipeline_vars
  <1>5. CASE TaskDoneCallback \/ TaskFinishes
    BY <1>1, <1>5 DEF TaskDoneCallback, TaskFinishes, Pipe!Pipeline_task_done,
                      Pipe!TaskFinishes, parser_vars
  <1>6. CASE Protocol_connection_lost \/ Protocol_pipeline_cancel
    BY <1>1, <1>6 DEF Protocol_connection_lost, Protocol_pipeline_cancel,
                      Pipe!Pipeline_cancel, parser_vars
  <1>7. CASE Protocol_data_received \/ Incomplete \/ ParseError \/ FeedEnds \/ ClosedByServer
             \/ UNCHANGED vars
    BY <1>1, <1>7 DEF Protocol_data_received, Incomplete, ParseError, FeedEnds, ClosedByServer,
                      vars, pipeline_vars, parser_vars
  <1>8. QED
    BY <1>2, <1>3, <1>4, <1>5, <1>6, <1>7 DEF Next, FeedStep

------------------------------------------------------------------------------
(* Which requests are handled, and what is held back *)

\* As long as the connection goes on, a request is handled as soon as its body was
\* parsed: Headers opens the gap, Protocol_on_body closes it, and a step that leaves
\* it open raises or closes the connection.
LEMMA HandledAllStep ==
  ASSUME PP!IInv, ControlOK, HandledOK, CarriedOK, OutputOK, HandledAll, [Next]_vars
  PROVE  HandledAll'
  <1> USE DEF HandledAll, Going
  <1>0. requests \in Seq(Request) /\ Len(requests) \in Nat
    BY DEF HandledOK, RequestsOK
  <1>1. ASSUME UNCHANGED <<requests, handled, parser_state>>, Going' => Going
        PROVE  HandledAll'
    BY <1>1
  <1>2. CASE Headers
    <2>1. PICK new : requests' = Append(requests, new)
      BY <1>2 DEF Headers
    <2>2. Len(requests') - 1 = Len(requests)
      BY <1>0, <2>1
    <2>3. /\ phase = "feed" /\ feed_failures' = feed_failures /\ handled' = handled
          /\ parser_state = "headers" /\ parser_state' = "body"
      BY <1>2 DEF Headers, ParsingHeaders
    <2>4. QED
      BY <2>2, <2>3
  <1>3. CASE Protocol_on_body
    BY <1>3 DEF Protocol_on_body, OnBody, NextRequest, Current
  <1>4. CASE OnBodyFails
    <2>1. feed_failures' # 0
      BY <1>4, ConnectionAssumption DEF OnBodyFails, ControlOK
    <2>2. QED
      BY <2>1
  <1>5. CASE ParseError
    <2>1. phase' = "loop" /\ transport' # "open"
      BY <1>5 DEF ParseError, Protocol_on_error, Closed
    <2>2. QED
      BY <2>1
  <1>6. CASE TaskDoneCallback
    <2>1. UNCHANGED <<requests, handled, parser_state, feed_failures, phase>> /\ phase = "loop"
      BY <1>6 DEF TaskDoneCallback, parser_vars
    <2>2. transport' = "open" => transport = "open"
      <3>1. CASE transport = "lost"
        BY <1>6, <3>1 DEF TaskDoneCallback, output_vars
      <3>2. CASE transport # "lost"
        <4>1. ClosesOnly(transport, Output'.transport)
          BY <1>6, <3>2, TaskDoneGives DEF HandedOver
        <4>2. QED
          BY <4>1 DEF ClosesOnly, Output
      <3>3. QED
        BY <3>1, <3>2
    <2>3. QED
      BY <1>1, <2>1, <2>2
  <1>7. CASE Protocol_connection_lost
    BY <1>7 DEF Protocol_connection_lost
  <1>8. CASE ClosedByServer
    BY <1>8 DEF ClosedByServer
  <1>9. CASE Protocol_data_received
    BY <1>1, <1>9 DEF Protocol_data_received
  <1>10. CASE Incomplete
    BY <1>1, <1>10 DEF Incomplete, Protocol_on_incomplete, ParsingHeaders, ParsingBody
  <1>11. CASE FeedEnds
    BY <1>1, <1>11 DEF FeedEnds, parser_vars, output_vars
  <1>12. CASE TaskFinishes \/ Protocol_pipeline_cancel \/ UNCHANGED vars
    BY <1>1, <1>12 DEF TaskFinishes, Protocol_pipeline_cancel, vars, parser_vars, output_vars
  <1>13. QED
    BY <1>2, <1>3, <1>4, <1>5, <1>6, <1>7, <1>8, <1>9, <1>10, <1>11, <1>12
       DEF Next, FeedStep

\* The gather is only on after a synchronous request with nothing pending, and is off
\* again as soon as something is: what a callback writes is not held back.
LEMMA GatherOffStep ==
  ASSUME PP!IInv, GatherOffWhilePending, [Next]_vars
  PROVE  GatherOffWhilePending'
  <1> USE DEF GatherOffWhilePending
  <1>0. /\ queue_start \in Nat /\ queue_end \in Nat /\ queue_start <= queue_end
    BY PipelineInvMeans, ConnectionAssumption DEF Pipe!TypeOK
  <1>1. ASSUME UNCHANGED <<queue_start, queue_end, gather_enabled>>
        PROVE  GatherOffWhilePending'
    BY <1>1 DEF Pipe!PIPELINE_EMPTY
  <1>2. ASSUME NEW tail, OnBody(tail), UNCHANGED <<queue_start, queue_end>>
        PROVE  GatherOffWhilePending'
    BY <1>2 DEF OnBody, Pipe!PIPELINE_EMPTY
  <1>3. CASE Protocol_on_body
    <2>1. PICK tail \in BOOLEAN :
              /\ OnBody(tail)
              /\ (\E is_task \in BOOLEAN : QueueRequest(is_task)) \/ WriteNow(gather_enabled')
      BY <1>3 DEF Protocol_on_body
    <2>2. ASSUME NEW is_task \in BOOLEAN, QueueRequest(is_task)
          PROVE  GatherOffWhilePending'
      <3>1. IsCoro \/ ~Pipe!PIPELINE_EMPTY
        BY <2>2 DEF QueueRequest
      <3>2. gather_enabled' = FALSE
        BY <2>1, <3>1 DEF OnBody
      <3>3. QED
        BY <3>2
    <2>3. CASE WriteNow(gather_enabled')
      BY <1>2, <2>1, <2>3 DEF WriteNow, pipeline_vars
    <2>4. QED
      BY <2>1, <2>2, <2>3
  <1>4. CASE OnBodyFails
    BY <1>2, <1>4 DEF OnBodyFails, pipeline_vars
  <1>5. CASE TaskDoneCallback
    <2>1. queue_end' = queue_end /\ gather_enabled' = gather_enabled
      BY <1>5 DEF TaskDoneCallback, Pipe!Pipeline_task_done
    <2>2. queue_start' \in queue_start..queue_end
      BY <1>5, TaskDoneDrains DEF TaskDoneCallback
    <2>3. Pipe!PIPELINE_EMPTY => Pipe!PIPELINE_EMPTY'
      BY <1>0, <2>1, <2>2 DEF Pipe!PIPELINE_EMPTY
    <2>4. QED
      BY <2>1, <2>3
  <1>6. CASE TaskFinishes \/ Protocol_connection_lost \/ Protocol_pipeline_cancel
    BY <1>1, <1>6 DEF TaskFinishes, Protocol_connection_lost, Protocol_pipeline_cancel,
                      Pipe!TaskFinishes, Pipe!Pipeline_cancel
  <1>7. CASE Protocol_data_received \/ Headers \/ Incomplete \/ ParseError \/ FeedEnds
             \/ ClosedByServer \/ UNCHANGED vars
    BY <1>1, <1>7 DEF Protocol_data_received, Headers, Incomplete, ParseError, FeedEnds,
                      ClosedByServer, vars, pipeline_vars
  <1>8. QED
    BY <1>3, <1>4, <1>5, <1>6, <1>7 DEF Next, FeedStep

\* A response is held back only while more bytes follow its request, and the loop of
\* the parser does not end before they are parsed, flushed or answered with an error;
\* once entries are pending, the first response a callback writes flushes it.
LEMMA HeldBackStep ==
  ASSUME PP!IInv, ControlOK, HandledOK, CarriedOK, OutputOK, GatherOffWhilePending,
         HeldBackBriefly, [Next]_vars
  PROVE  HeldBackBriefly'
  <1> USE DEF HeldBackBriefly, Going
  <1>0. /\ queue_start \in Nat /\ queue_end \in Nat /\ queue_start <= queue_end
    BY PipelineInvMeans, ConnectionAssumption DEF Pipe!TypeOK
  <1>1. ASSUME UNCHANGED <<gather, queue_start, queue_end>>, Going' => Going,
               (phase = "feed" /\ (buffered \/ parser_state = "body")
                  => phase' = "feed" /\ (buffered' \/ parser_state' = "body"))
                 \/ ~Going'
        PROVE  HeldBackBriefly'
    BY <1>1 DEF Pipe!PIPELINE_EMPTY
  <1>2. ASSUME ~Going' \/ gather' = << >> \/ ~Pipe!PIPELINE_EMPTY' PROVE HeldBackBriefly'
    BY <1>2
  <1>3. CASE Protocol_on_body
    <2>1. PICK tail \in BOOLEAN :
              /\ OnBody(tail) /\ NextRequest
              /\ (\E is_task \in BOOLEAN : QueueRequest(is_task)) \/ WriteNow(gather_enabled')
      BY <1>3 DEF Protocol_on_body
    <2>2. ASSUME NEW is_task \in BOOLEAN, QueueRequest(is_task)
          PROVE  HeldBackBriefly'
      BY <1>2, <2>2, QueueGives DEF QueueRequest
    <2>3. CASE WriteNow(gather_enabled')
      <3>1. gather_enabled' \in BOOLEAN /\ Current \in 1..Len(requests)
        BY <2>1 DEF OnBody, ParsingBody, Current, HandledOK, RequestsOK
      <3>2. ~gather_enabled' => WriteResponse(gather_enabled', Output, Current).gather = << >>
        BY <3>1, WriteResponseGives DEF HandledOK, OutputOK
      <3>3. gather' # << >> => buffered'
        BY <2>1, <2>3, <3>2 DEF WriteNow, Outputs, OnBody
      <3>4. phase' = "feed"
        BY <2>1 DEF OnBody, ParsingBody, NextRequest
      <3>5. QED
        BY <3>3, <3>4
    <2>4. QED
      BY <2>1, <2>2, <2>3
  <1>4. CASE OnBodyFails
    <2>1. feed_failures' # 0
      BY <1>4, ConnectionAssumption DEF OnBodyFails, ControlOK
    <2>2. QED
      BY <1>2, <2>1
  <1>5. CASE TaskDoneCallback
    <2>1. /\ UNCHANGED <<queue_end, buffered, parser_state, phase, feed_failures>>
          /\ phase = "loop"
      BY <1>5 DEF TaskDoneCallback, Pipe!Pipeline_task_done, parser_vars
    <2>2. CASE transport = "lost"
      BY <1>2, <1>5, <2>1, <2>2 DEF TaskDoneCallback, output_vars
    <2>3. CASE transport # "lost"
      <3>1. PICK n \in Nat :
                /\ n <= queue_end - queue_start
                /\ HandedOver(Output', Pipe!LeftQueue, n)
                /\ (ready_failed' = TRUE /\ queue_start' = queue_start) \/ queue_start' = queue_start + n
        BY <1>5, <2>3, TaskDoneGives
      <3>2. CASE n = 0
        <4>1. Output' = Output /\ queue_start' = queue_start
          BY <1>0, <3>1, <3>2 DEF HandedOver
        <4>2. gather' = gather /\ transport' = transport
          BY <4>1 DEF Output
        <4>3. QED
          BY <1>1, <2>1, <4>1, <4>2
      <3>3. CASE n > 0
        <4>1. ~Pipe!PIPELINE_EMPTY
          BY <1>0, <3>1, <3>3 DEF Pipe!PIPELINE_EMPTY
        <4>2. Output'.gather = << >>
          BY <3>1, <3>3, <4>1 DEF HandedOver, GatherOffWhilePending
        <4>3. QED
          BY <1>2, <4>2 DEF Output
      <3>4. QED
        BY <3>2, <3>3
    <2>4. QED
      BY <2>2, <2>3
  <1>6. CASE ParseError
    <2>1. phase' = "loop" /\ transport' # "open"
      BY <1>6 DEF ParseError, Protocol_on_error, Closed
    <2>2. QED
      BY <1>2, <2>1
  <1>7. CASE Incomplete
    BY <1>2, <1>7 DEF Incomplete, Protocol_on_incomplete
  <1>8. CASE FeedEnds
    BY <1>1, <1>8 DEF FeedEnds, pipeline_vars, parser_vars, output_vars
  <1>9. CASE Headers
    BY <1>1, <1>9 DEF Headers, pipeline_vars, output_vars
  <1>10. CASE Protocol_data_received
    BY <1>1, <1>10 DEF Protocol_data_received, pipeline_vars, output_vars
  <1>11. CASE Protocol_connection_lost
    BY <1>2, <1>11 DEF Protocol_connection_lost
  <1>12. CASE ClosedByServer
    BY <1>2, <1>12 DEF ClosedByServer
  <1>13. CASE TaskFinishes \/ Protocol_pipeline_cancel \/ UNCHANGED vars
    BY <1>1, <1>13 DEF TaskFinishes, Protocol_pipeline_cancel, Pipe!TaskFinishes,
                       Pipe!Pipeline_cancel, vars, pipeline_vars, parser_vars, output_vars
  <1>14. QED
    BY <1>3, <1>4, <1>5, <1>6, <1>7, <1>8, <1>9, <1>10, <1>11, <1>12, <1>13
       DEF Next, FeedStep

------------------------------------------------------------------------------
(* Tasks of a lost connection *)

\* Only connection_lost, which cancels what is pending, loses the connection; after
\* that tasks only finish and callbacks only drain.
LEMMA LostStep ==
  ASSUME PP!IInv, ControlOK, HandledOK, CarriedOK, OutputOK, [Next]_vars,
         transport' = "lost"
  PROVE  \/ Protocol_connection_lost
         \/ /\ transport = "lost"
            /\ TaskDoneCallback \/ TaskFinishes \/ UNCHANGED vars
  <1>1. CASE TaskDoneCallback
    <2>1. ASSUME transport # "lost" PROVE FALSE
      <3>1. ClosesOnly(transport, Output'.transport)
        BY <1>1, <2>1, TaskDoneGives DEF HandedOver
      <3>2. QED
        BY <2>1, <3>1 DEF ClosesOnly, Output
    <2>2. QED
      BY <1>1, <2>1
  <1>2. ASSUME Protocol_on_body PROVE FALSE
    <2>1. ControlOK' /\ phase' = "feed"
      BY <1>2, ControlStep DEF Protocol_on_body, OnBody, ParsingBody, NextRequest
    <2>2. QED
      BY <2>1 DEF ControlOK
  <1>3. ASSUME OnBodyFails PROVE FALSE
    <2>1. phase = "feed" /\ transport # "lost"
      BY <1>3 DEF OnBodyFails, OnBody, ParsingBody, ControlOK
    <2>2. WriteResponse(gather_enabled', Output, Current).transport # "lost"
      BY <2>1 DEF WriteResponse, Output, Closed
    <2>3. PICK out \in {Output, WriteResponse(gather_enabled', Output, Current)} :
              \E t \in {out.transport, Closed(out.transport)} :
                 Outputs([out EXCEPT !.transport = t])
      BY <1>3 DEF OnBodyFails
    <2>a. out.transport # "lost"
      BY <2>1, <2>2 DEF Output
    <2>4. PICK t : t # "lost" /\ Outputs([out EXCEPT !.transport = t])
      BY <2>3, <2>a DEF Closed
    <2>b. out \in Outs
      <3>1. gather_enabled' \in BOOLEAN /\ Current \in 1..Len(requests)
        BY <1>3 DEF OnBodyFails, OnBody, ParsingBody, Current, HandledOK, RequestsOK
      <3>2. QED
        BY <3>1, WriteResponseGives DEF HandledOK, OutputOK
    <2>5. transport' = t
      BY <2>4, <2>b DEF Outputs, Outs
    <2>6. QED
      BY <2>4, <2>5
  <1>4. ASSUME ParseError PROVE FALSE
    <2>1. phase = "feed" /\ transport' = Closed(transport)
      BY <1>4 DEF ParseError, ParsingHeaders, ParsingBody, Protocol_on_error
    <2>2. QED
      BY <2>1 DEF ControlOK, Closed
  <1>5. ASSUME Headers \/ Incomplete \/ FeedEnds PROVE FALSE
    <2>1. phase = "feed" /\ transport' = transport
      BY <1>5 DEF Headers, Incomplete, FeedEnds, ParsingHeaders, ParsingBody,
                  Protocol_on_incomplete, output_vars
    <2>2. QED
      BY <2>1 DEF ControlOK
  <1>6. ASSUME Protocol_data_received \/ ClosedByServer \/ Protocol_pipeline_cancel PROVE FALSE
    BY <1>6 DEF Protocol_data_received, ClosedByServer, Protocol_pipeline_cancel, output_vars
  <1>7. CASE TaskFinishes \/ UNCHANGED vars
    BY <1>7 DEF TaskFinishes, vars, output_vars
  <1>8. QED
    BY <1>1, <1>2, <1>3, <1>4, <1>5, <1>6, <1>7 DEF Next, FeedStep

\* What was cancelled stays so, and no entry is queued on a lost connection.
LEMMA CancelledStep ==
  ASSUME PP!IInv, ControlOK, HandledOK, CarriedOK, OutputOK, CancelledWhenLost, [Next]_vars
  PROVE  CancelledWhenLost'
  <1> SUFFICES ASSUME transport' = "lost", NEW i \in Pipe!Waiting'
               PROVE  Pipe!Runnable(i)' \/ queue'[i].number \in cancelled'
    BY DEF CancelledWhenLost
  <1> USE DEF Pipe!Runnable
  <1>0. queue_start \in Nat /\ queue_end \in Nat /\ queue_start <= queue_end
    BY PipelineInvMeans, ConnectionAssumption DEF Pipe!TypeOK
  <1>1. CASE Protocol_connection_lost
    <2>1. Pipe!Pipeline_cancel
      BY <1>1 DEF Protocol_connection_lost
    <2>2. /\ UNCHANGED <<queue, queue_start, queue_end, finished>>
          /\ cancelled' = cancelled \union
                {queue[j].number : j \in {k \in Pipe!Waiting :
                     queue[k].is_task /\ queue[k].number \notin finished}}
      BY <2>1 DEF Pipe!Pipeline_cancel
    <2>3. i \in Pipe!Waiting
      BY <2>2 DEF Pipe!Waiting
    <2>4. QED
      BY <2>2, <2>3
  <1>2. CASE transport = "lost" /\ TaskDoneCallback
    <2>1. UNCHANGED <<queue, queue_end, finished, cancelled>>
      BY <1>2 DEF TaskDoneCallback, Pipe!Pipeline_task_done
    <2>2. queue_start' \in queue_start..queue_end
      BY <1>2, TaskDoneDrains DEF TaskDoneCallback
    <2>3. i \in Pipe!Waiting
      BY <1>0, <2>1, <2>2 DEF Pipe!Waiting
    <2>4. QED
      BY <1>2, <2>1, <2>3 DEF CancelledWhenLost
  <1>3. CASE transport = "lost" /\ TaskFinishes
    <2>1. UNCHANGED <<queue, queue_start, queue_end, cancelled>> /\ finished \subseteq finished'
      BY <1>3 DEF TaskFinishes, Pipe!TaskFinishes
    <2>2. i \in Pipe!Waiting
      BY <2>1 DEF Pipe!Waiting
    <2>3. QED
      BY <1>3, <2>1, <2>2 DEF CancelledWhenLost
  <1>4. CASE transport = "lost" /\ UNCHANGED vars
    <2>1. UNCHANGED <<queue, queue_start, queue_end, cancelled, finished>>
      BY <1>4 DEF vars, pipeline_vars
    <2>2. i \in Pipe!Waiting
      BY <2>1 DEF Pipe!Waiting
    <2>3. QED
      BY <1>4, <2>1, <2>2 DEF CancelledWhenLost
  <1>5. QED
    BY <1>1, <1>2, <1>3, <1>4, LostStep

------------------------------------------------------------------------------
(* The answers of a connection *)

\* The answer of the next request keeps the order.
LEMMA AppendInOrder ==
  ASSUME NEW s \in Seq(Nat), NEW last \in Nat, OnceInOrder(s, last)
  PROVE  OnceInOrder(Append(s, last + 1), last + 1)
  <1> DEFINE t == Append(s, last + 1)
  <1>1. /\ Len(s) \in Nat /\ DOMAIN s = 1..Len(s) /\ DOMAIN t = 1..(Len(s) + 1)
        /\ \A i \in 1..Len(s) : t[i] = s[i] /\ s[i] \in Nat
        /\ t[Len(s) + 1] = last + 1
    OBVIOUS
  <1> HIDE DEF t
  <1>2. /\ \A i, j \in 1..Len(s) :
              i < j /\ BadRequest \notin {s[i], s[j]} => s[i] < s[j]
        /\ \A i \in 1..Len(s) : s[i] <= last
        /\ \A r \in 1..last : \E i \in 1..Len(s) : s[i] = r
    BY <1>1 DEF OnceInOrder
  <1>3. ASSUME NEW i \in 1..(Len(s) + 1) PROVE i \in 1..Len(s) \/ i = Len(s) + 1
    BY <1>1
  <1>4. \A i \in DOMAIN t : t[i] <= last + 1
    BY <1>1, <1>2, <1>3
  <1>5. ASSUME NEW i \in DOMAIN t, NEW j \in DOMAIN t, i < j, BadRequest \notin {t[i], t[j]}
        PROVE  t[i] < t[j]
    <2>1. i \in 1..Len(s)
      BY <1>1, <1>5
    <2>2. CASE j \in 1..Len(s)
      BY <1>1, <1>2, <1>5, <2>1, <2>2
    <2>3. CASE j = Len(s) + 1
      BY <1>1, <1>2, <2>1, <2>3
    <2>4. QED
      BY <1>1, <1>3, <2>2, <2>3
  <1>6. ASSUME NEW r \in 1..(last + 1) PROVE \E i \in DOMAIN t : t[i] = r
    <2>1. CASE r = last + 1
      BY <1>1, <2>1
    <2>2. CASE r # last + 1
      <3>1. r \in 1..last
        BY <2>2
      <3>2. PICK i \in 1..Len(s) : s[i] = r
        BY <1>2, <3>1
      <3>3. QED
        BY <1>1, <3>2
    <2>3. QED
      BY <2>1, <2>2
  <1>7. QED
    BY <1>4, <1>5, <1>6 DEF OnceInOrder, t

\* A 400 response may come in between.
LEMMA BadRequestInOrder ==
  ASSUME NEW a \in Seq(Nat), NEW b \in Seq(Nat), NEW last \in Nat, OnceInOrder(a \o b, last)
  PROVE  OnceInOrder((a \o <<BadRequest>>) \o b, last)
  <1> DEFINE s == a \o b
             t == (a \o <<BadRequest>>) \o b
             m == Len(a)
             n == Len(b)
             Was(i) == IF i <= m THEN i ELSE i - 1
             Is(i) == IF i <= m THEN i ELSE i + 1
  <1>0. m \in Nat /\ n \in Nat /\ BadRequest \in Nat /\ <<BadRequest>> \in Seq(Nat)
    BY DEF BadRequest
  <1>1. /\ s \in Seq(Nat) /\ Len(s) = m + n
        /\ \A k \in 1..m : s[k] = a[k]
        /\ \A k \in 1..n : s[m + k] = b[k]
    BY ConcatAt
  <1>2. /\ t \in Seq(Nat) /\ Len(t) = m + 1 + n
        /\ \A k \in 1..m : t[k] = a[k]
        /\ t[m + 1] = BadRequest
        /\ \A k \in 1..n : t[m + 1 + k] = b[k]
    BY <1>0
  <1> HIDE DEF s, t, m, n
  <1>3. DOMAIN s = 1..(m + n) /\ DOMAIN t = 1..(m + 1 + n)
    BY <1>1, <1>2
  <1>4. ASSUME NEW i \in DOMAIN t, i # m + 1
        PROVE  Was(i) \in DOMAIN s /\ t[i] = s[Was(i)]
    <2>1. CASE i <= m
      BY <1>0, <1>1, <1>2, <1>3, <2>1
    <2>2. CASE ~(i <= m)
      <3>a. i - (m + 1) \in 1..n /\ i = m + 1 + (i - (m + 1))
        BY <1>0, <1>3, <1>4, <2>2
      <3>1. PICK k \in 1..n : i = m + 1 + k
        BY <3>a
      <3>2. Was(i) = m + k /\ m + k \in 1..(m + n)
        BY <1>0, <3>1
      <3>3. QED
        BY <1>1, <1>2, <1>3, <3>1, <3>2
    <2>3. QED
      BY <2>1, <2>2
  <1>5. ASSUME NEW i \in DOMAIN s
        PROVE  Is(i) \in DOMAIN t /\ t[Is(i)] = s[i]
    <2>1. CASE i <= m
      BY <1>0, <1>1, <1>2, <1>3, <2>1
    <2>2. CASE ~(i <= m)
      <3>a. i - m \in 1..n /\ i = m + (i - m)
        BY <1>0, <1>3, <2>2
      <3>1. PICK k \in 1..n : i = m + k
        BY <3>a
      <3>2. Is(i) = m + 1 + k /\ m + 1 + k \in 1..(m + 1 + n)
        BY <1>0, <3>1
      <3>3. QED
        BY <1>1, <1>2, <1>3, <3>1, <3>2
    <2>3. QED
      BY <2>1, <2>2
  <1>6. OnceInOrder(s, last)
    BY DEF s
  <1>7. ASSUME NEW i \in DOMAIN t PROVE t[i] <= last
    <2>1. CASE i = m + 1
      BY <1>2, <2>1 DEF BadRequest
    <2>2. CASE i # m + 1
      BY <1>4, <1>6, <2>2 DEF OnceInOrder
    <2>3. QED
      BY <2>1, <2>2
  <1>8. ASSUME NEW i \in DOMAIN t, NEW j \in DOMAIN t, i < j, BadRequest \notin {t[i], t[j]}
        PROVE  t[i] < t[j]
    <2>1. i # m + 1 /\ j # m + 1
      BY <1>2, <1>8
    <2>2. Was(i) < Was(j)
      BY <1>0, <1>3, <1>8, <2>1
    <2>3. QED
      BY <1>4, <1>6, <1>8, <2>1, <2>2 DEF OnceInOrder
  <1>9. ASSUME NEW r \in 1..last PROVE \E i \in DOMAIN t : t[i] = r
    <2>1. PICK i \in DOMAIN s : s[i] = r
      BY <1>6 DEF OnceInOrder
    <2>2. QED
      BY <1>5, <2>1
  <1>10. QED
    BY <1>7, <1>8, <1>9 DEF OnceInOrder, t

\* The condition of AnsweredOnceInOrder, and its sequence with the entries that wait
\* numbered by their place in the line.
Alive == transport # "lost" /\ ~aborted /\ feed_failures = 0 /\ ~ready_failed
AllAnswers == Given(Output) \o CarriedFrom(Pipe!LeftQueue, queue_end - queue_start)

\* It is the invariant.
LEMMA OrderMeans ==
  PP!IInv => (AnsweredOnceInOrder <=> (Alive => OnceInOrder(AllAnswers, handled)))
  <1>1. ASSUME PP!IInv PROVE Answers \o Pending = AllAnswers
    BY <1>1, PendingIsLast DEF Answers, AllAnswers, Given, Output
  <1>2. QED
    BY <1>1 DEF AnsweredOnceInOrder, Alive

\* What was lost, stopped or failed stays so.
LEMMA AliveBefore ==
  ASSUME ControlOK, [Next]_vars, Alive'
  PROVE  Alive
  <1>1. [Pipe!Next]_Pipe!vars
    BY StepIsPipelineStep
  <1>2. ~aborted /\ ~ready_failed
    BY <1>1 DEF Alive, Pipe!Next, Pipe!vars, Pipe!ProtocolQueues, Pipe!Pipeline_queue,
                Pipe!PipelineOverflow, Pipe!PipelineStore, Pipe!Pipeline_task_done,
                Pipe!DrainTo, Pipe!FailAt, Pipe!Pipeline_cancel, Pipe!TaskFinishes
  <1>3. feed_failures = 0 /\ transport # "lost"
    <2>1. CASE FeedStep
      <3>1. phase = "feed"
        BY <2>1 DEF FeedStep, Headers, Incomplete, ParseError, FeedEnds, Protocol_on_body,
                    OnBodyFails, OnBody, ParsingHeaders, ParsingBody
      <3>2. feed_failures' \in {feed_failures, feed_failures + 1}
        BY <2>1 DEF FeedStep, Headers, Incomplete, ParseError, FeedEnds, Protocol_on_body,
                    OnBodyFails, NextRequest
      <3>3. QED
        BY <3>1, <3>2, ConnectionAssumption DEF ControlOK, Alive
    <2>2. CASE TaskDoneCallback
      BY <2>2 DEF TaskDoneCallback, output_vars, Alive
    <2>3. CASE Protocol_data_received \/ TaskFinishes \/ Protocol_connection_lost
               \/ ClosedByServer \/ Protocol_pipeline_cancel \/ UNCHANGED vars
      BY <2>3 DEF Protocol_data_received, TaskFinishes, Protocol_connection_lost, ClosedByServer,
                  Protocol_pipeline_cancel, vars, output_vars, Alive
    <2>4. QED
      BY <2>1, <2>2, <2>3 DEF Next
  <1>4. QED
    BY <1>2, <1>3 DEF Alive

\* What the answers are made of.
LEMMA AnswersTypes ==
  ASSUME PP!IInv, CarriedOK, OutputOK
  PROVE  /\ sent \in Seq(0..MaxRequests) /\ gather \in Seq(0..MaxRequests)
         /\ Given(Output) = sent \o gather /\ Given(Output) \in Seq(0..MaxRequests)
         /\ Pipe!LeftQueue \in Nat /\ queue_end - queue_start \in Nat
         /\ Pipe!LeftQueue + (queue_end - queue_start) = Len(carried)
         /\ CarriedFrom(Pipe!LeftQueue, queue_end - queue_start) \in Seq(0..MaxRequests)
         /\ AllAnswers \in Seq(0..MaxRequests) /\ AllAnswers \in Seq(Nat)
  <1>0. MaxRequests \in Nat
    BY ConnectionAssumption
  <1>1. sent \in Seq(0..MaxRequests) /\ gather \in Seq(0..MaxRequests)
    <2>1. sent \in Seq(0..MaxRequests) /\ gather \in Seq(1..MaxRequests)
      BY DEF OutputOK, Outs, Output
    <2>2. QED
      BY <1>0, <2>1
  <1>2. Given(Output) = sent \o gather /\ Given(Output) \in Seq(0..MaxRequests)
    BY <1>1 DEF Given, Output
  <1>3. /\ queue_start \in Nat /\ queue_end \in Nat /\ queued \in Nat
        /\ queue_start <= queue_end /\ Pipe!LeftQueue >= 0
    BY PipelineInvMeans, ConnectionAssumption DEF Pipe!TypeOK
  <1>4. /\ Pipe!LeftQueue \in Nat /\ queue_end - queue_start \in Nat
        /\ Pipe!LeftQueue + (queue_end - queue_start) = Len(carried)
    BY <1>3 DEF Pipe!LeftQueue, CarriedOK
  <1>5. CarriedFrom(Pipe!LeftQueue, queue_end - queue_start) \in Seq(0..MaxRequests)
    <2>1. PICK first \in Nat, n \in Nat :
              /\ first = Pipe!LeftQueue /\ n = queue_end - queue_start
              /\ first + n <= Len(carried)
      <3>1. Pipe!LeftQueue + (queue_end - queue_start) <= Len(carried)
        BY <1>3, <1>4
      <3>2. QED
        BY <1>4, <3>1, Zenon
    <2>2. CarriedFrom(first, n) \in Seq(0..MaxRequests)
      BY <2>1, CarriedTypes DEF CarriedOK
    <2>3. QED
      BY <2>1, <2>2
  <1>6. AllAnswers \in Seq(0..MaxRequests)
    BY <1>2, <1>5 DEF AllAnswers
  <1>7. AllAnswers \in Seq(Nat)
    BY <1>0, <1>6
  <1>8. QED
    BY <1>1, <1>2, <1>4, <1>5, <1>6, <1>7

\* A request that on_body takes is answered at once or queued behind all others.
LEMMA TakenIsLast ==
  ASSUME PP!IInv, ControlOK, HandledOK, CarriedOK, OutputOK, Protocol_on_body, ~aborted'
  PROVE  AllAnswers' = Append(AllAnswers, Current) /\ Current \in 1..Len(requests)
  <1> DEFINE first == Pipe!LeftQueue
             n == queue_end - queue_start
  <1>0. /\ first \in Nat /\ n \in Nat /\ first + n = Len(carried)
        /\ Given(Output) \in Seq(0..MaxRequests)
        /\ CarriedFrom(first, n) \in Seq(0..MaxRequests)
        /\ carried \in Seq(1..MaxRequests) /\ MaxRequests \in Nat
    BY AnswersTypes, ConnectionAssumption DEF CarriedOK
  <1>1. PICK tail \in BOOLEAN :
            /\ OnBody(tail) /\ NextRequest
            /\ (\E is_task \in BOOLEAN : QueueRequest(is_task)) \/ WriteNow(gather_enabled')
    BY DEF Protocol_on_body
  <1>2. /\ Current \in 1..Len(requests) /\ Current \in 1..MaxRequests
        /\ Current \in 0..MaxRequests /\ gather_enabled' \in BOOLEAN
    BY <1>0, <1>1 DEF OnBody, ParsingBody, Current, HandledOK, RequestsOK
  <1>3. ASSUME NEW is_task \in BOOLEAN, QueueRequest(is_task)
        PROVE  AllAnswers' = Append(AllAnswers, Current)
    <2>1. Grown
      BY <1>3, QueueGives DEF QueueRequest
    <2>2. carried' = Append(carried, Current) /\ Output' = Output
      BY <1>3 DEF QueueRequest, output_vars, Output
    <2>3. AllAnswers' = Given(Output) \o Window(carried', first, n + 1)
      BY <2>1, <2>2 DEF AllAnswers, Grown, Given, Output, CarriedFrom
    <2>4. Window(carried', first, n + 1) = Append(CarriedFrom(first, n), Current)
      <3> HIDE DEF first, n
      <3>1. Window(Append(carried, Current), first, n + 1) = Append(Window(carried, first, n), Current)
        BY <1>0, <1>2, WindowAppend, SMTT(30)
      <3>2. QED
        BY <2>2, <3>1 DEF CarriedFrom
    <2>5. Given(Output) \o Append(CarriedFrom(first, n), Current)
              = Append(Given(Output) \o CarriedFrom(first, n), Current)
      BY <1>0, <1>2, AnswerAppended
    <2>6. QED
      BY <2>3, <2>4, <2>5 DEF AllAnswers
  <1>4. CASE WriteNow(gather_enabled')
    <2> DEFINE out == WriteResponse(gather_enabled', Output, Current)
    <2>1. out \in Outs /\ Given(out) = Append(Given(Output), Current)
      BY <1>2, WriteResponseGives DEF HandledOK, OutputOK
    <2>2. Outputs(out) /\ UNCHANGED <<pipeline_vars, carried>> /\ n = 0
      BY <1>0, <1>4, PipelineInvMeans DEF WriteNow, Pipe!PIPELINE_EMPTY, Pipe!TypeOK
    <2> HIDE DEF out
    <2>3. Output' = out
      BY <2>1, <2>2, OutputsMeans
    <2>4. CarriedFrom(first, n) = << >> /\ CarriedFrom(first, n)' = << >>
      BY <2>2 DEF CarriedFrom, Window, pipeline_vars
    <2>5. AllAnswers = Given(Output) \o << >> /\ AllAnswers' = Given(out) \o << >>
      BY <2>3, <2>4 DEF AllAnswers, Given
    <2>6. Given(out) \in Seq(0..MaxRequests)
      BY <1>0, <1>2, <2>1
    <2>7. Given(out) \o << >> = Given(out) /\ Given(Output) \o << >> = Given(Output)
      BY <1>0, <2>6, ConcatEmptySeq
    <2>8. AllAnswers = Given(Output) /\ AllAnswers' = Given(out)
      BY <2>5, <2>7
    <2>9. QED
      BY <1>2, <2>1, <2>8
  <1>5. QED
    BY <1>1, <1>2, <1>3, <1>4

\* The entries a callback hands over are those next in line.
LEMMA DrainedKeepOrder ==
  ASSUME PP!IInv, ControlOK, HandledOK, CarriedOK, OutputOK,
         TaskDoneCallback, transport # "lost", ~ready_failed'
  PROVE  AllAnswers' = AllAnswers
  <1>1. /\ queue_start \in Nat /\ queue_end \in Nat /\ queued \in Nat
        /\ queue_start <= queue_end /\ Pipe!LeftQueue \in Nat
        /\ carried \in Seq(1..MaxRequests) /\ Len(carried) = queued
        /\ Pipe!LeftQueue + (queue_end - queue_start) = Len(carried)
        /\ Given(Output) \in Seq(0..MaxRequests) /\ MaxRequests \in Nat
    BY AnswersTypes, PipelineInvMeans, ConnectionAssumption DEF Pipe!TypeOK, CarriedOK
  <1>2. PICK n \in Nat :
            /\ n <= queue_end - queue_start
            /\ HandedOver(Output', Pipe!LeftQueue, n)
            /\ queue_start' = queue_start + n
    BY TaskDoneGives
  <1>3. carried' = carried /\ queue_end' = queue_end /\ queued' = queued
    BY DEF TaskDoneCallback, Pipe!Pipeline_task_done
  <1>4. PICK first \in Nat, left \in Nat :
            first = Pipe!LeftQueue /\ left = queue_end - queue_start - n
    <2>1. queue_end - queue_start - n \in Nat
      BY <1>1, <1>2
    <2>2. QED
      BY <1>1, <2>1, Zenon
  <1>5. /\ Pipe!LeftQueue' = first + n /\ queue_end' - queue_start' = left
        /\ queue_end - queue_start = n + left /\ first + n + left <= Len(carried)
        /\ first + n <= Len(carried) /\ first + n \in Nat
    BY <1>1, <1>2, <1>3, <1>4 DEF Pipe!LeftQueue
  <1>6. PICK g \in Seq(0..MaxRequests), a \in Seq(0..MaxRequests), b \in Seq(0..MaxRequests) :
            g = Given(Output) /\ a = CarriedFrom(first, n) /\ b = CarriedFrom(first + n, left)
    <2>1. CarriedFrom(first, n) \in Seq(0..MaxRequests)
      BY <1>1, <1>5, CarriedTypes
    <2>2. CarriedFrom(first + n, left) \in Seq(0..MaxRequests)
      BY <1>1, <1>5, CarriedTypes
    <2>3. QED
      BY <1>1, <2>1, <2>2, Zenon
  <1>7. AllAnswers' = (g \o a) \o b
    <2>1. Given(Output') = g \o a
      BY <1>2, <1>4, <1>6 DEF HandedOver
    <2>2. CarriedFrom(Pipe!LeftQueue, queue_end - queue_start)' = b
      BY <1>3, <1>5, <1>6 DEF CarriedFrom
    <2>3. QED
      BY <2>1, <2>2 DEF AllAnswers, Given
  <1>8. AllAnswers = g \o (a \o b)
    <2>1. CarriedFrom(first, n + left) = a \o b
      <3>1. carried \in Seq(1..MaxRequests) /\ first + n + left <= Len(carried)
        BY <1>1, <1>5
      <3>2. CarriedFrom(first, n + left) = CarriedFrom(first, n) \o CarriedFrom(first + n, left)
        BY <3>1, CarriedSplit
      <3>3. QED
        BY <1>6, <3>2
    <2>2. QED
      BY <1>4, <1>5, <1>6, <2>1 DEF AllAnswers
  <1>9. QED
    BY <1>7, <1>8, ConcatAssociative, SMTT(30)

\* Pipelining keeps the order.
LEMMA OrderStep ==
  ASSUME PP!IInv, PP!IInv', ControlOK, HandledOK, CarriedOK, OutputOK, HandledAll,
         AnsweredOnceInOrder, [Next]_vars
  PROVE  AnsweredOnceInOrder'
  <1>1. (PP!IInv => (AnsweredOnceInOrder <=> (Alive => OnceInOrder(AllAnswers, handled))))'
    BY OrderMeans, PTL
  <1> SUFFICES ASSUME Alive' PROVE OnceInOrder(AllAnswers', handled')
    BY <1>1
  <1>2. Alive /\ OnceInOrder(AllAnswers, handled)
    BY AliveBefore, OrderMeans
  <1>3. /\ AllAnswers \in Seq(Nat) /\ sent \in Seq(Nat) /\ gather \in Seq(Nat)
        /\ CarriedFrom(Pipe!LeftQueue, queue_end - queue_start) \in Seq(Nat)
        /\ Given(Output) = sent \o gather /\ handled \in Nat /\ Len(requests) \in Nat
    <2>1. Seq(0..MaxRequests) \subseteq Seq(Nat)
      BY ConnectionAssumption
    <2>2. QED
      BY <2>1, AnswersTypes DEF HandledOK, RequestsOK
  <1>4. ASSUME UNCHANGED <<sent, gather, queue_start, queue_end, queued, carried, handled>>
        PROVE  OnceInOrder(AllAnswers', handled')
    <2>1. AllAnswers' = AllAnswers
      BY <1>4 DEF AllAnswers, Given, Output, CarriedFrom, Pipe!LeftQueue
    <2>2. QED
      BY <1>2, <1>4, <2>1
  <1>5. CASE Protocol_on_body
    <2>1. AllAnswers' = Append(AllAnswers, Current) /\ Current \in 1..Len(requests)
      BY <1>5, TakenIsLast DEF Alive
    <2>2. handled' = Current /\ handled = Current - 1
      BY <1>2, <1>5 DEF Protocol_on_body, OnBody, ParsingBody, Current, HandledAll, Going, Alive
    <2>3. AllAnswers' = Append(AllAnswers, handled + 1) /\ handled' = handled + 1
      BY <1>3, <2>1, <2>2
    <2>4. QED
      BY <1>2, <1>3, <2>3, AppendInOrder
  <1>6. CASE OnBodyFails
    <2>1. feed_failures' # 0
      BY <1>6, ConnectionAssumption DEF OnBodyFails, ControlOK
    <2>2. QED
      BY <2>1 DEF Alive
  <1>7. CASE Incomplete
    <2>1. /\ sent' = sent \o gather /\ gather' = << >>
          /\ UNCHANGED <<queue_start, queue_end, queued, carried, handled>>
      BY <1>2, <1>7 DEF Incomplete, Protocol_on_incomplete, Written, Alive, pipeline_vars
    <2>2. Given(Output)' = (sent \o gather) \o << >>
      BY <2>1 DEF Given, Output
    <2>3. sent \o gather \in Seq(Nat)
      BY <1>3
    <2>4. Given(Output)' = Given(Output)
      BY <1>3, <2>2, <2>3, ConcatEmptySeq
    <2>5. AllAnswers' = AllAnswers
      BY <2>1, <2>4 DEF AllAnswers, CarriedFrom, Pipe!LeftQueue
    <2>6. QED
      BY <1>2, <2>1, <2>5
  <1>8. CASE ParseError
    <2> DEFINE p == CarriedFrom(Pipe!LeftQueue, queue_end - queue_start)
    <2>1. /\ sent' = sent \o <<BadRequest>> /\ gather' = gather
          /\ UNCHANGED <<queue_start, queue_end, queued, carried, handled>>
      BY <1>2, <1>8 DEF ParseError, Protocol_on_error, Written, Alive, pipeline_vars
    <2>2. /\ AllAnswers = (sent \o gather) \o p
          /\ AllAnswers' = ((sent \o <<BadRequest>>) \o gather) \o p
      BY <2>1 DEF AllAnswers, Given, Output, CarriedFrom, Pipe!LeftQueue
    <2> HIDE DEF p
    <2>3. PICK g \in Seq(Nat), q \in Seq(Nat) : g = gather /\ q = p
      BY <1>3 DEF p
    <2>4. sent \o <<BadRequest>> \in Seq(Nat) /\ g \o q \in Seq(Nat)
      <3>1. <<BadRequest>> \in Seq(Nat)
        BY DEF BadRequest
      <3>2. QED
        BY <1>3, <3>1, ConcatProperties
    <2>5. /\ (sent \o g) \o q = sent \o (g \o q)
          /\ ((sent \o <<BadRequest>>) \o g) \o q = (sent \o <<BadRequest>>) \o (g \o q)
      <3>1. ASSUME NEW x \in Seq(Nat) PROVE (x \o g) \o q = x \o (g \o q)
        BY ConcatAssociative, SMTT(30)
      <3>2. QED
        BY <1>3, <2>4, <3>1
    <2>6. OnceInOrder(sent \o (g \o q), handled)
      BY <1>2, <2>2, <2>3, <2>5
    <2>7. OnceInOrder((sent \o <<BadRequest>>) \o (g \o q), handled)
      BY <1>3, <2>4, <2>6, BadRequestInOrder
    <2>8. QED
      BY <2>1, <2>2, <2>3, <2>5, <2>7
  <1>9. CASE TaskDoneCallback
    <2>1. ~ready_failed' /\ handled' = handled
      BY <1>9 DEF TaskDoneCallback, Alive
    <2>2. AllAnswers' = AllAnswers
      BY <1>2, <1>9, <2>1, DrainedKeepOrder DEF Alive
    <2>3. QED
      BY <1>2, <2>1, <2>2
  <1>10. CASE TaskFinishes \/ Protocol_pipeline_cancel
    BY <1>4, <1>10 DEF TaskFinishes, Protocol_pipeline_cancel, Pipe!TaskFinishes,
                       Pipe!Pipeline_cancel, output_vars
  <1>11. CASE Protocol_connection_lost
    BY <1>11 DEF Protocol_connection_lost, Alive
  <1>12. CASE Protocol_data_received \/ Headers \/ FeedEnds \/ ClosedByServer \/ UNCHANGED vars
    BY <1>4, <1>12 DEF Protocol_data_received, Headers, FeedEnds, ClosedByServer,
                       vars, pipeline_vars, output_vars
  <1>13. QED
    BY <1>5, <1>6, <1>7, <1>8, <1>9, <1>10, <1>11, <1>12 DEF Next, FeedStep

------------------------------------------------------------------------------
(* The theorems *)

\* A new connection satisfies the inductive invariant.
LEMMA InitInductive == Init => IInv
  <1> SUFFICES ASSUME Init PROVE IInv
    OBVIOUS
  <1> USE DEF Init, Protocol_init
  <1>0. /\ MaxRequests \in Nat /\ GATHER_MAX_RESP \in Nat /\ GATHER_MAX_LEN \in Nat
        /\ MaxFailures \in Nat
    BY ConnectionAssumption
  <1>1. PP!IInv
    BY PipelineInit
  <1>2. queue_start = queue_end /\ queued = 0
    BY DEF Pipe!Pipeline_init
  <1>3. OutputOK
    <2>1. 0 = Summed!Fold(0, SizesOf(<< >>))
      <3>1. SizesOf(<< >>) = << >>
        BY DEF SizesOf
      <3>2. QED
        BY <3>1, Summed!FoldEmpty
    <2>2. Output = [gather |-> << >>, len |-> 0, sent |-> << >>, transport |-> "open"]
      BY DEF Output
    <2>3. QED
      BY <1>0, <2>1, <2>2 DEF OutputOK, Outs
  <1>4. ControlOK /\ HandledOK /\ CarriedOK
    <2>1. ControlOK
      <3>1. 0 \in 0..MaxFailures /\ FALSE \in BOOLEAN
        BY <1>0
      <3>2. phase = "loop" /\ buffered = FALSE /\ parser_state = "headers"
            /\ parser_connection = "unset" /\ gather_enabled = FALSE /\ feed_failures = 0
        OBVIOUS
      <3>3. QED
        BY <3>1, <3>2 DEF ControlOK
    <2>2. HandledOK
      BY <1>0 DEF HandledOK, RequestsOK
    <2>3. CarriedOK
      BY <1>2 DEF CarriedOK
    <2>4. QED
      BY <2>1, <2>2, <2>3
  <1>5. HandledAll /\ GatherOffWhilePending /\ HeldBackBriefly /\ CancelledWhenLost
    BY DEF HandledAll, GatherOffWhilePending, HeldBackBriefly, CancelledWhenLost
  <1>6. AnsweredOnceInOrder
    <2>1. Answers = << >>
      BY DEF Answers
    <2>2. Pending = << >>
      BY <1>2 DEF Pending, Pipe!Pipeline_init
    <2>3. Answers \o Pending = << >>
      BY <2>1, <2>2
    <2>4. QED
      BY <2>3 DEF AnsweredOnceInOrder, OnceInOrder
  <1>7. QED
    BY <1>1, <1>3, <1>4, <1>5, <1>6 DEF IInv

\* Every step of a connection, whoever takes it, keeps the inductive invariant.
LEMMA StepInductive == IInv /\ [Next]_vars => IInv'
  <1> SUFFICES ASSUME IInv, [Next]_vars PROVE IInv'
    OBVIOUS
  <1> USE DEF IInv
  <1>1. PP!IInv'
    BY StepIsPipelineStep, PipelineStep
  <1>2. ControlOK'
    BY ControlStep
  <1>3. HandledOK'
    BY HandledStep
  <1>4. CarriedOK'
    BY CarriedStep
  <1>5. OutputOK'
    BY OutputStep
  <1>6. HandledAll'
    BY HandledAllStep
  <1>7. GatherOffWhilePending'
    BY GatherOffStep
  <1>8. HeldBackBriefly'
    BY HeldBackStep
  <1>9. AnsweredOnceInOrder'
    BY <1>1, OrderStep
  <1>10. CancelledWhenLost'
    BY CancelledStep
  <1>11. QED
    BY <1>1, <1>2, <1>3, <1>4, <1>5, <1>6, <1>7, <1>8, <1>9, <1>10

\* The conjunction is an invariant: parsing, handling, draining, finishing, losing and
\* closing keep each part of it.
THEOREM Inductive == Spec => []IInv
  BY InitInductive, StepInductive, PTL DEF Spec

\* Every variable of a connection keeps its type; the gather never holds more responses
\* or bytes than Gather has room for, and no more requests are handled than parsed.
THEOREM TypeCorrect == Spec => []TypeOK
  <1>1. IInv => TypeOK
    <2> SUFFICES ASSUME IInv PROVE TypeOK
      OBVIOUS
    <2>1. Pipe!TypeOK
      BY PipelineInvMeans DEF IInv
    <2>2. /\ gather \in Seq(1..MaxRequests) /\ Len(gather) <= GATHER_MAX_RESP
          /\ gather_len \in 0..GATHER_MAX_LEN /\ sent \in Seq(0..MaxRequests)
          /\ transport \in {"open", "closing", "lost"}
      BY DEF IInv, OutputOK, Outs, Output
    <2>3. QED
      BY <2>1, <2>2 DEF IInv, ControlOK, HandledOK, RequestsOK, CarriedOK, TypeOK
  <1>2. QED
    BY <1>1, Inductive, PTL

\* Pipelining: as long as the connection is there and no response failed, the requests
\* whose handler was called are answered once each and in their order, whichever of
\* the four paths the answer of each took.
THEOREM AnswersInOrder == Spec => []AnsweredOnceInOrder
  <1>1. IInv => AnsweredOnceInOrder
    BY DEF IInv
  <1>2. QED
    BY <1>1, Inductive, PTL

\* The gather is off while entries are pending, is never left with a response that nothing
\* will flush when the event loop takes over, and is flushed with its true length.
THEOREM GatherKept == Spec => []GatherConsistent
  <1>1. IInv => GatherConsistent
    <2> SUFFICES ASSUME IInv PROVE GatherConsistent
      OBVIOUS
    <2>1. gather_len = Summed!Fold(0, SizesOf(gather))
      BY DEF IInv, OutputOK, Outs, Output
    <2>2. gather_len = FoldLeft(+, 0, SizesOf(gather))
      BY <2>1, SumIsFold
    <2>3. QED
      BY <2>2 DEF IInv, HeldBackBriefly, Going, GatherConsistent
  <1>2. QED
    BY <1>1, Inductive, PTL

\* No handler of a lost connection runs on without having been cancelled.
THEOREM LostIsCancelled == Spec => []CancelledWhenLost
  <1>1. IInv => CancelledWhenLost
    BY DEF IInv
  <1>2. QED
    BY <1>1, Inductive, PTL

\* A connection uses its pipeline as Pipeline assumes: it never queues a response without
\* an entry ahead of it, and changes it by the operations of Pipeline only.  With that,
\* the theorems of PipelineProofs hold of the pipeline of every connection.
THEOREM PipelineUsedAsAssumed == Spec => Pipe!Pipeline_init /\ [][Pipe!Next]_Pipe!vars
  <1>1. Init => Pipe!Pipeline_init
    BY DEF Init, Protocol_init
  <1>2. QED
    BY <1>1, StepIsPipelineStep, PTL DEF Spec
=============================================================================
