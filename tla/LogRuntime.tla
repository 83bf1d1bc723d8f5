----------------------------- MODULE LogRuntime -----------------------------
(***************************************************************************)
(* RuntimeState of log/src/log.cpp: producers put records into a bounded   *)
(* queue, one worker hands them to the sink, Flush and Stop wait for the   *)
(* worker.  A record is its sequence number and whether its level is       *)
(* critical.  The critical sections are single steps, except that a wait   *)
(* on a condition variable is two: evaluating the predicate and blocking.  *)
(* Both hold mutex_, but Stop, which does not take it, fits in between.    *)
(***************************************************************************)
EXTENDS Naturals, Sequences, SequencesExt, FiniteSets

CONSTANTS
    Producer,
    Capacity, Reserve,   \* queue_capacity, critical_reserve
    MaxSequence          \* bound: sequence numbers given out

ASSUME LogAssumption == Capacity \in Nat /\ Reserve \in 0 .. Capacity - 1 /\ MaxSequence \in Nat

VARIABLES
    running,        \* running_
    queue,          \* the count_ records from head_ on
    dispatching,    \* dispatching_
    sequence,       \* sequence_
    mutex,          \* who holds mutex_ across steps: a thread about to block, or "free"
    worker,         \* where the thread of Dispatch is
    current,        \* the record it is writing
    producer,       \* where each producer is in Submit
    record,         \* and the record it built
    flush,          \* where a caller of Flush is
    stop,           \* where the caller of Stop is
    accepted,       \* history: records accepted, in order
    written,        \* history: records given to the sink, in order
    flushing        \* history: what had been accepted when Flush was called

submission == <<producer, record, sequence>>
history == <<accepted, written, flushing>>
vars == <<running, queue, dispatching, mutex, worker, current, flush, stop, submission, history>>

Record == [sequence : 1 .. MaxSequence, critical : BOOLEAN]
NoRecord == [sequence |-> 0, critical |-> FALSE]

\* After Start.
Init ==
    /\ running = TRUE /\ queue = <<>> /\ dispatching = FALSE
    /\ sequence = 0
    /\ mutex = "free"
    /\ worker = "loop" /\ current = NoRecord
    /\ producer = [p \in Producer |-> "idle"]
    /\ record = [p \in Producer |-> NoRecord]
    /\ flush = "idle" /\ stop = "idle"
    /\ accepted = <<>> /\ written = <<>> /\ flushing = <<>>

-----------------------------------------------------------------------------
\* Mutant: nobody is told of new data.
WakeWorkerDropped == UNCHANGED worker

\* data_.notify_one and notify_all: only a thread that has blocked hears them.
WakeWorker == worker' = IF worker = "blocked" THEN "loop" ELSE worker

Woken(at) == [p \in Producer |-> IF at[p] = "blocked" THEN "woken" ELSE at[p]]

\* Submit up to the lock.  Nothing happens unless running_ is set; if the level
\* is enabled, Build takes a sequence number before it checks the fields.
SubmitBegin(p) ==
    /\ producer[p] = "idle" /\ running
    /\ producer' = [producer EXCEPT ![p] = "build"]
    /\ UNCHANGED <<running, queue, dispatching, mutex, worker, current, flush, stop, record,
                   sequence, history>>

SubmitRefused(p) ==     \* filtered, or invalid before or after the sequence number
    /\ producer[p] = "build"
    /\ producer' = [producer EXCEPT ![p] = "idle"]
    /\ sequence' \in {sequence, sequence + 1} /\ sequence' <= MaxSequence
    /\ UNCHANGED <<running, queue, dispatching, mutex, worker, current, flush, stop, record,
                   history>>

SubmitBuild(p) ==
    /\ producer[p] = "build" /\ sequence < MaxSequence
    /\ sequence' = sequence + 1
    /\ \E critical \in BOOLEAN :
         record' = [record EXCEPT ![p] = [sequence |-> sequence', critical |-> critical]]
    /\ producer' = [producer EXCEPT ![p] = "lock"]
    /\ UNCHANGED <<running, queue, dispatching, mutex, worker, current, flush, stop, history>>

Usable(p) == IF record[p].critical THEN Capacity ELSE Capacity - Reserve

\* Submit returns and its record goes out of scope.
Return(p) ==
    /\ producer' = [producer EXCEPT ![p] = "idle"]
    /\ record' = [record EXCEPT ![p] = NoRecord]

\* The end of Submit: shutting_down, or the record goes to the tail.
Enqueue(p) ==
    /\ Return(p)
    /\ \/ ~running /\ UNCHANGED <<queue, accepted, worker>>
       \/ /\ running
          /\ queue' = Append(queue, record[p])
          /\ accepted' = Append(accepted, record[p])
          /\ WakeWorker

Drop(p) == Return(p) /\ UNCHANGED <<queue, accepted, worker>>

\* The predicate of space_.wait_for was false; the thread is about to block.
Decide(p) ==
    /\ producer' = [producer EXCEPT ![p] = "deciding"] /\ mutex' = p
    /\ UNCHANGED <<queue, accepted, worker, record>>

SubmitLocked(p) ==
    /\ producer[p] = "lock" /\ mutex = "free"
    /\ \/ Len(queue) < Usable(p) /\ Enqueue(p) /\ UNCHANGED mutex
       \/ Len(queue) >= Usable(p) /\ ~record[p].critical /\ Drop(p) /\ UNCHANGED mutex
       \/ Len(queue) >= Usable(p) /\ record[p].critical /\ running /\ Decide(p)
       \/ Len(queue) >= Usable(p) /\ record[p].critical /\ ~running /\ Enqueue(p) /\ UNCHANGED mutex
    /\ UNCHANGED <<running, dispatching, current, flush, stop, sequence, written, flushing>>

SubmitBlocks(p) ==
    /\ producer[p] = "deciding"
    /\ producer' = [producer EXCEPT ![p] = "blocked"] /\ mutex' = "free"
    /\ UNCHANGED <<running, queue, dispatching, worker, current, flush, stop, record, sequence,
                   history>>

SpaceOrStopped == Len(queue) < Capacity \/ ~running

\* A notified producer looks again ...
SubmitWakes(p) ==
    /\ producer[p] = "woken" /\ mutex = "free"
    /\ \/ SpaceOrStopped /\ Enqueue(p) /\ UNCHANGED mutex
       \/ ~SpaceOrStopped /\ Decide(p)
    /\ UNCHANGED <<running, dispatching, current, flush, stop, sequence, written, flushing>>

\* ... and when producer_wait is over looks for the last time, then drops.
SubmitExpires(p) ==
    /\ producer[p] \in {"blocked", "woken"} /\ mutex = "free"
    /\ \/ SpaceOrStopped /\ Enqueue(p)
       \/ ~SpaceOrStopped /\ Drop(p)
    /\ UNCHANGED <<running, dispatching, mutex, current, flush, stop, sequence, written, flushing>>

-----------------------------------------------------------------------------
\* Dispatch: the predicate of data_.wait, and the rest of its critical section.
WorkerLooks ==
    /\ worker = "loop" /\ mutex = "free"
    /\ \/ /\ queue # <<>>
          /\ current' = Head(queue) /\ queue' = Tail(queue) /\ dispatching' = TRUE
          /\ worker' = "write" /\ producer' = Woken(producer)
          /\ UNCHANGED mutex
       \/ /\ queue = <<>> /\ ~running
          /\ worker' = "exited"
          /\ UNCHANGED <<current, queue, dispatching, producer, mutex>>
       \/ /\ queue = <<>> /\ running
          /\ worker' = "deciding" /\ mutex' = "worker"
          /\ UNCHANGED <<current, queue, dispatching, producer>>
    /\ UNCHANGED <<running, flush, stop, record, sequence, history>>

WorkerBlocks ==
    /\ worker = "deciding"
    /\ worker' = "blocked" /\ mutex' = "free"
    /\ UNCHANGED <<running, queue, dispatching, current, flush, stop, submission, history>>

\* sink_->Write; an error only counts.
WorkerWrites ==
    /\ worker = "write"
    /\ written' = Append(written, current) /\ current' = NoRecord
    /\ worker' = "finish"
    /\ UNCHANGED <<running, queue, dispatching, mutex, flush, stop, submission, accepted, flushing>>

WorkerFinishes ==
    /\ worker = "finish" /\ mutex = "free"
    /\ dispatching' = FALSE
    /\ worker' = "loop"
    /\ UNCHANGED <<running, queue, mutex, current, flush, stop, submission, history>>

\* Mutant: an empty queue is enough.
DrainedQueue == queue = <<>>

Drained == queue = <<>> /\ ~dispatching

FlushBegin ==
    /\ flush = "idle" /\ mutex = "free"
    /\ flush' = IF Drained THEN "true" ELSE "blocked"
    /\ flushing' = accepted
    /\ UNCHANGED <<running, queue, dispatching, mutex, worker, current, stop, submission,
                   accepted, written>>

\* Notified or out of time, Flush looks again; the sink's own Flush follows.
FlushReturns ==
    /\ flush = "blocked" /\ mutex = "free"
    /\ flush' = IF Drained THEN "true" ELSE "false"
    /\ UNCHANGED <<running, queue, dispatching, mutex, worker, current, stop, submission, history>>

\* Stop, which does not take mutex_.  A second call returns at once.
StopBegin ==
    /\ stop = "idle"
    /\ running' = FALSE
    /\ stop' = "notify"
    /\ UNCHANGED <<queue, dispatching, mutex, worker, current, flush, submission, history>>

StopNotifies ==
    /\ stop = "notify"
    /\ WakeWorker /\ producer' = Woken(producer)
    /\ stop' = "join"
    /\ UNCHANGED <<running, queue, dispatching, mutex, current, flush, record, sequence, history>>

\* Mutant: does not wait for the worker.
StopReturnsEarly ==
    /\ stop = "join"
    /\ stop' = "done"
    /\ UNCHANGED <<running, queue, dispatching, mutex, worker, current, flush, submission, history>>

\* The join; the sink is flushed and stopped after it.
StopReturns ==
    /\ stop = "join" /\ worker = "exited"
    /\ stop' = "done"
    /\ UNCHANGED <<running, queue, dispatching, mutex, worker, current, flush, submission, history>>

WorkerStep == WorkerLooks \/ WorkerBlocks \/ WorkerWrites \/ WorkerFinishes

\* What a producer in Submit does without being called again.
SubmitStep(p) ==
    SubmitBuild(p) \/ SubmitLocked(p) \/ SubmitBlocks(p) \/ SubmitWakes(p) \/ SubmitExpires(p)

Next ==
    \/ WorkerStep
    \/ \E p \in Producer : SubmitBegin(p) \/ SubmitRefused(p) \/ SubmitStep(p)
    \/ FlushBegin \/ FlushReturns
    \/ StopBegin \/ StopNotifies \/ StopReturns

\* Every thread that can go on does; nobody has to call anything.
Fairness ==
    /\ WF_vars(WorkerStep)
    /\ \A p \in Producer : WF_vars(SubmitStep(p))
    /\ WF_vars(StopNotifies \/ StopReturns)

Spec == Init /\ [][Next]_vars /\ Fairness

-----------------------------------------------------------------------------
(***************************************************************************)
(* What Submit accepted goes to the sink once, in the order of acceptance: *)
(* written, then the record in the worker's hands, then the queue, are the *)
(* accepted records; and after Stop has returned all have been written,    *)
(* also those of a producer that passed the first test of running_ before  *)
(* Stop.                                                                   *)
(***************************************************************************)
NothingLost ==
    /\ accepted = written \o (IF worker = "write" THEN <<current>> ELSE <<>>) \o queue
    /\ stop = "done" => written = accepted

(***************************************************************************)
(* When Flush returns true, everything accepted before it was called has   *)
(* reached the sink, the record the worker was holding included.           *)
(***************************************************************************)
FlushComplete ==
    flush = "true" => IsPrefix(flushing, written)

(***************************************************************************)
(* An accepted record does not wait for the next one: once the producers   *)
(* have made their last call, everything accepted gets written, with Stop  *)
(* or without it (data_.notify_one of Submit).                             *)
(***************************************************************************)
AcceptedGetWritten == <>[](written = accepted)

(***************************************************************************)
(* A call of Stop returns (dlt_e2e_test.cpp calls Stop after Flush and     *)
(* goes on).                                                               *)
(***************************************************************************)
StopTerminates == stop # "idle" ~> stop = "done"
=============================================================================
