-------------------------- MODULE LogRuntimeProofs --------------------------
(***************************************************************************)
(* Proofs about the logging runtime, for any number of producers, any      *)
(* capacity and reserve of its queue, and any number of records.           *)
(***************************************************************************)
EXTENDS LogRuntime, SequenceTheorems, TLAPS

Item == [sequence : Nat, critical : BOOLEAN]

ItemsTyped ==
    /\ sequence \in Nat
    /\ current \in Item
    /\ record \in [Producer -> Item]
    /\ queue \in Seq(Item) /\ accepted \in Seq(Item)
    /\ written \in Seq(Item) /\ flushing \in Seq(Item)

\* Accepted records are written, in the hands of the worker, or queued, in this order.
InHand == IF worker = "write" THEN <<current>> ELSE <<>>
Accounted == accepted = (written \o InHand) \o queue

\* dispatching_ is set for as long as the worker holds a record.
HandIsDispatching == worker = "write" => dispatching

\* The worker leaves when nothing is queued and nothing will be.
ExitIsFinal ==
    /\ worker = "exited" => ~running /\ queue = <<>>
    /\ stop = "done" => worker = "exited"

IInv ==
    /\ ItemsTyped
    /\ Accounted
    /\ HandIsDispatching
    /\ ExitIsFinal
    /\ IsPrefix(flushing, accepted)
    /\ FlushComplete

-----------------------------------------------------------------------------
(***************************************************************************)
(* What is a prefix stays one when the sequence grows.                     *)
(***************************************************************************)
LEMMA PrefixOfAppend ==
    ASSUME NEW s \in Seq(Item), NEW t \in Seq(Item), NEW x \in Item, IsPrefix(s, t)
    PROVE  IsPrefix(s, Append(t, x))
  <1>1. /\ Append(t, x) \in Seq(Item) /\ Len(Append(t, x)) = Len(t) + 1
        /\ \A i \in 1..Len(t) : Append(t, x)[i] = t[i]
    BY AppendProperties
  <1>2. Len(s) \in Nat /\ Len(t) \in Nat /\ Len(s) <= Len(t)
    BY LenProperties DEF IsPrefix
  <1>3. SubSeq(Append(t, x), 1, Len(s)) = SubSeq(t, 1, Len(s))
    BY <1>1, <1>2
  <1> QED BY <1>1, <1>2, <1>3 DEF IsPrefix

(***************************************************************************)
(* A record appended to the queue is appended to the whole.                *)
(***************************************************************************)
LEMMA AppendToQueue ==
    ASSUME NEW a \in Seq(Item), NEW q \in Seq(Item), NEW x \in Item
    PROVE  Append(a \o q, x) = a \o Append(q, x)
  <1>1. a \o q \in Seq(Item) /\ <<x>> \in Seq(Item)
    BY ConcatProperties
  <1>2. Append(a \o q, x) = (a \o q) \o <<x>> /\ Append(q, x) = q \o <<x>>
    BY <1>1, AppendIsConcat
  <1> QED BY <1>1, <1>2, ConcatAssociative

(***************************************************************************)
(* The first of the queue moves into the worker's hands.                   *)
(***************************************************************************)
LEMMA HeadToHand ==
    ASSUME NEW w \in Seq(Item), NEW q \in Seq(Item), q # <<>>
    PROVE  (w \o <<Head(q)>>) \o Tail(q) = w \o q
  <1>1. Head(q) \in Item /\ Tail(q) \in Seq(Item) /\ <<Head(q)>> \in Seq(Item)
    BY HeadTailProperties
  <1>2. <<Head(q)>> \o Tail(q) = q
    BY <1>1, HeadTailProperties
  <1> QED BY <1>1, <1>2, ConcatAssociative

-----------------------------------------------------------------------------
(***************************************************************************)
(* At first nothing is accepted, queued or written, and nobody flushes.    *)
(***************************************************************************)
LEMMA InitInv == Init => IInv
  <1> SUFFICES ASSUME Init PROVE IInv
    OBVIOUS
  <1>1. ItemsTyped
    BY EmptySeq DEF Init, ItemsTyped, Item, NoRecord
  <1>2. Accounted
    BY ConcatEmptySeq, EmptySeq DEF Init, Accounted, InHand
  <1>3. IsPrefix(flushing, accepted)
    BY DEF Init, IsPrefix
  <1> QED BY <1>1, <1>2, <1>3 DEF Init, IInv, HandIsDispatching, ExitIsFinal, FlushComplete

(***************************************************************************)
(* The end of Submit: a record is queued only while running_ is set, so    *)
(* never behind a worker that has left; being woken changes neither what   *)
(* the worker holds nor that it has left.                                  *)
(***************************************************************************)
LEMMA EnqueuePreserves ==
    ASSUME IInv, NEW p \in Producer, Enqueue(p),
           UNCHANGED <<running, dispatching, current, flush, stop, sequence, written, flushing>>
    PROVE  IInv'
  <1> USE DEF IInv
  <1>1. record[p] \in Item /\ NoRecord \in Item
    BY DEF ItemsTyped, Item, NoRecord
  <1>2. record' \in [Producer -> Item]
    BY <1>1 DEF Enqueue, Return, ItemsTyped
  <1>3. CASE ~running /\ UNCHANGED <<queue, accepted, worker>>
    BY <1>2, <1>3 DEF ItemsTyped, Accounted, InHand, HandIsDispatching, ExitIsFinal, FlushComplete
  <1>4. CASE /\ running
             /\ queue' = Append(queue, record[p])
             /\ accepted' = Append(accepted, record[p])
             /\ WakeWorker
    <2>1. ItemsTyped'
      BY <1>1, <1>2, <1>4, AppendProperties DEF ItemsTyped
    <2>2. /\ InHand' = InHand
          /\ worker' = "exited" <=> worker = "exited"
          /\ worker' = "write" <=> worker = "write"
      BY <1>4 DEF WakeWorker, InHand
    <2>3. Accounted'
      <3>1. InHand \in Seq(Item) /\ written \o InHand \in Seq(Item)
        BY EmptySeq, ConcatProperties DEF InHand, ItemsTyped
      <3>2. Append((written \o InHand) \o queue, record[p])
              = (written \o InHand) \o Append(queue, record[p])
        <4>1. record[p] \in Item /\ queue \in Seq(Item)
          BY <1>1 DEF ItemsTyped
        <4> QED BY <3>1, <4>1, AppendToQueue
      <3> QED BY <1>4, <2>2, <3>2 DEF Accounted
    <2>4. IsPrefix(flushing, accepted)'
      BY <1>1, <1>4, PrefixOfAppend DEF ItemsTyped
    <2> QED BY <1>4, <2>1, <2>2, <2>3, <2>4 DEF HandIsDispatching, ExitIsFinal, FlushComplete
  <1> QED BY <1>3, <1>4 DEF Enqueue

(***************************************************************************)
(* The invariant is kept by every step.                                    *)
(***************************************************************************)
LEMMA NextInv == IInv /\ [Next]_vars => IInv'
  <1> SUFFICES ASSUME IInv, [Next]_vars PROVE IInv'
    OBVIOUS
  <1> USE DEF IInv
  \* A step that changes none of what the invariant is about.
  <1>0. ASSUME UNCHANGED <<running, queue, dispatching, worker, current, flush, stop, history>>,
               sequence' \in Nat, record' \in [Producer -> Item]
        PROVE  IInv'
    BY <1>0 DEF ItemsTyped, Accounted, InHand, HandIsDispatching, ExitIsFinal, FlushComplete, history
  <1> NoRecord \in Item
    BY DEF Item, NoRecord
  <1>1. CASE WorkerLooks
    <2>1. CASE /\ queue # <<>>
               /\ current' = Head(queue) /\ queue' = Tail(queue) /\ dispatching' = TRUE
               /\ worker' = "write"
      <3>1. ItemsTyped'
        BY <1>1, <2>1, HeadTailProperties DEF WorkerLooks, ItemsTyped, history
      <3>2. Accounted'
        <4>1. accepted = written \o queue
          BY <1>1, ConcatEmptySeq DEF WorkerLooks, Accounted, InHand, ItemsTyped
        <4> QED BY <1>1, <2>1, <4>1, HeadToHand
                DEF WorkerLooks, Accounted, InHand, ItemsTyped, history
      <3> QED BY <1>1, <2>1, <3>1, <3>2
              DEF WorkerLooks, HandIsDispatching, ExitIsFinal, FlushComplete, history
    <2>2. CASE /\ queue = <<>> /\ worker' \in {"exited", "deciding"}
               /\ worker' = "exited" => ~running
               /\ UNCHANGED <<current, queue, dispatching>>
      BY <1>1, <2>2 DEF WorkerLooks, ItemsTyped, Accounted, InHand, HandIsDispatching, ExitIsFinal,
                        FlushComplete, history
    <2> QED BY <1>1, <2>1, <2>2 DEF WorkerLooks
  <1>2. CASE WorkerBlocks
    BY <1>2 DEF WorkerBlocks, ItemsTyped, Accounted, InHand, HandIsDispatching, ExitIsFinal,
                FlushComplete, submission, history
  <1>3. CASE WorkerWrites
    <2>1. written' = written \o <<current>> /\ written' \in Seq(Item)
      BY <1>3, AppendIsConcat, AppendProperties DEF WorkerWrites, ItemsTyped
    <2>2. ItemsTyped'
      BY <1>3, <2>1 DEF WorkerWrites, ItemsTyped, submission
    <2>3. Accounted'
      BY <1>3, <2>1, ConcatEmptySeq DEF WorkerWrites, Accounted, InHand, ItemsTyped
    <2>4. FlushComplete'
      BY <1>3, PrefixOfAppend DEF WorkerWrites, FlushComplete, ItemsTyped
    <2> QED BY <1>3, <2>2, <2>3, <2>4 DEF WorkerWrites, HandIsDispatching, ExitIsFinal
  <1>4. CASE WorkerFinishes
    BY <1>4 DEF WorkerFinishes, ItemsTyped, Accounted, InHand, HandIsDispatching, ExitIsFinal,
                FlushComplete, submission, history
  <1>5. ASSUME NEW p \in Producer, SubmitBegin(p) \/ SubmitRefused(p) \/ SubmitBuild(p) \/ SubmitBlocks(p)
        PROVE  IInv'
    <2>1. UNCHANGED <<running, queue, dispatching, worker, current, flush, stop, history>>
      BY <1>5 DEF SubmitBegin, SubmitRefused, SubmitBuild, SubmitBlocks
    <2>2. sequence' \in Nat
      BY <1>5 DEF SubmitBegin, SubmitRefused, SubmitBuild, SubmitBlocks, ItemsTyped
    <2>3. record' \in [Producer -> Item]
      <3>1. CASE SubmitBuild(p)
        <4>1. PICK critical \in BOOLEAN :
                record' = [record EXCEPT ![p] = [sequence |-> sequence', critical |-> critical]]
          BY <3>1 DEF SubmitBuild
        <4>2. [sequence |-> sequence', critical |-> critical] \in Item
          BY <2>2 DEF Item
        <4> QED BY <4>1, <4>2 DEF ItemsTyped
      <3>2. CASE UNCHANGED record
        BY <3>2 DEF ItemsTyped
      <3> QED BY <1>5, <3>1, <3>2 DEF SubmitBegin, SubmitRefused, SubmitBlocks
    <2> QED BY <1>0, <2>1, <2>2, <2>3
  <1>6. ASSUME NEW p \in Producer, SubmitLocked(p) \/ SubmitWakes(p) \/ SubmitExpires(p)
        PROVE  IInv'
    <2>1. UNCHANGED <<running, dispatching, current, flush, stop, sequence, written, flushing>>
      BY <1>6 DEF SubmitLocked, SubmitWakes, SubmitExpires
    <2>2. CASE Enqueue(p)
      BY <2>1, <2>2, EnqueuePreserves
    <2>3. CASE Drop(p) \/ Decide(p)
      <3>1. UNCHANGED <<queue, accepted, worker>> /\ record' \in [Producer -> Item]
        BY <2>3 DEF Drop, Decide, Return, ItemsTyped
      <3> QED BY <1>0, <2>1, <3>1 DEF ItemsTyped, history
    <2> QED BY <1>6, <2>2, <2>3 DEF SubmitLocked, SubmitWakes, SubmitExpires
  <1>7. CASE FlushBegin \/ FlushReturns
    <2>1. UNCHANGED <<running, queue, dispatching, worker, current, stop, submission, accepted, written>>
      BY <1>7 DEF FlushBegin, FlushReturns, history
    <2>2. flushing' \in {flushing, accepted} /\ IsPrefix(flushing', accepted)
      BY <1>7 DEF FlushBegin, FlushReturns, history, IsPrefix, ItemsTyped
    <2>3. ASSUME Drained PROVE accepted = written
      BY <2>3, ConcatEmptySeq DEF Drained, HandIsDispatching, Accounted, InHand, ItemsTyped
    <2>4. FlushComplete'
      BY <1>7, <2>1, <2>2, <2>3 DEF FlushBegin, FlushReturns, FlushComplete
    <2> QED BY <2>1, <2>2, <2>4 DEF ItemsTyped, Accounted, InHand, HandIsDispatching, ExitIsFinal, submission
  <1>8. CASE StopBegin \/ StopReturns
    <2>1. UNCHANGED <<queue, dispatching, worker, current, flush, submission, history>>
      BY <1>8 DEF StopBegin, StopReturns
    <2>2. ExitIsFinal'
      <3>1. CASE StopBegin
        <4>1. running' = FALSE /\ stop' = "notify"
          BY <3>1 DEF StopBegin
        <4> QED BY <2>1, <4>1 DEF ExitIsFinal
      <3>2. CASE StopReturns
        BY <3>2 DEF StopReturns, ExitIsFinal
      <3> QED BY <1>8, <3>1, <3>2
    <2> QED BY <2>1, <2>2 DEF ItemsTyped, Accounted, InHand, HandIsDispatching, FlushComplete,
                              submission, history
  <1>9. CASE StopNotifies
    BY <1>9 DEF StopNotifies, WakeWorker, ItemsTyped, Accounted, InHand, HandIsDispatching, ExitIsFinal,
                FlushComplete, history
  <1>10. CASE UNCHANGED vars
    BY <1>0, <1>10 DEF vars, submission, history, ItemsTyped
  <1> QED BY <1>1, <1>2, <1>3, <1>4, <1>5, <1>6, <1>7, <1>8, <1>9, <1>10
          DEF Next, WorkerStep, SubmitStep

(***************************************************************************)
(* The strengthened invariant holds in every reachable state.              *)
(***************************************************************************)
THEOREM LogInvariant == Spec => []IInv
  <1> QED BY InitInv, NextInv, PTL DEF Spec

(***************************************************************************)
(* Whatever the number of producers and the size of the queue, what Submit *)
(* accepted is written once and in order, and all of it when Stop returns. *)
(***************************************************************************)
THEOREM LogNothingLost == Spec => []NothingLost
  <1>1. IInv => NothingLost
    BY ConcatEmptySeq
    DEF IInv, ItemsTyped, Accounted, InHand, ExitIsFinal, NothingLost
  <1> QED BY <1>1, LogInvariant, PTL

(***************************************************************************)
(* A Flush that returns true has seen everything accepted before its call  *)
(* reach the sink.                                                         *)
(***************************************************************************)
THEOREM LogFlushComplete == Spec => []FlushComplete
  <1>1. IInv => FlushComplete
    BY DEF IInv
  <1> QED BY <1>1, LogInvariant, PTL
=============================================================================
