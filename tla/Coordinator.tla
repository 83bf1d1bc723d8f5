---------------------------- MODULE Coordinator ----------------------------
(***************************************************************************)
(* exec/src/coordinator.cpp on top of the engine: clients request mode     *)
(* changes, the coordinator plans them under its mutex_, queues them, and  *)
(* a pool of workers executes them.  Clients may cancel and wait.          *)
(*                                                                         *)
(* Request keeps mutex_ locked while the engine accepts and journals the   *)
(* transition, so it is a sequence of steps during which "call" is set and *)
(* no other section of mutex_ runs; engine steps of workers go on.         *)
(* Permissions, events and the shape of snapshots are left out.            *)
(***************************************************************************)
EXTENDS ExecutionEngine, Sequences

(***************************************************************************)
(* A setup also has replacement[d], the replacement policy of domain d,    *)
(* capacity, which is queue_capacity_, and what clients do: the domains    *)
(* that their requests name, and the transitions of which some client      *)
(* waits for the end (waiters) or asks for the cancellation (cancellers).  *)
(***************************************************************************)
Policy == {"reject_while_busy", "queue", "supersede_if_safe"}

ASSUME CoordinatorAssumption ==
    \A s \in Setups :
        /\ s.replacement \in [Domain -> Policy]
        /\ s.capacity \in Nat /\ s.workers <= s.capacity
        /\ s.domains \subseteq Domain
        /\ s.waiters \cup s.cancellers \subseteq Transition

VARIABLES
    queue,       \* queue_
    projected,   \* projected_: the configuration once everything queued has run
    active,      \* active_domains_, 0 for a domain that is not in the map
    call,        \* the Request that holds mutex_; its id is 0 until the engine assigns one
    busy,        \* transitions popped by a worker whose completion is not processed
    stopping,    \* stopping_
    wait,        \* wait[t]: where a call of Wait(t) is
    overtaken    \* history: a transition took its lease before an earlier one of its domain

service == <<queue, projected, active, call, busy, stopping, wait>>
allvars == <<vars, service>>

NoCall == [domain |-> CHOOSE d \in Domain : TRUE, mode |-> NoMode, id |-> 0]
MutexFree == call = NoCall

Replacement == setup.replacement
QueueCapacity == setup.capacity
Waiters == setup.waiters

CoordinatorInit ==
    /\ Init
    /\ queue = <<>>
    /\ projected = InitialConfiguration
    /\ active = [d \in Domain |-> 0]
    /\ call = NoCall
    /\ busy = {}
    /\ stopping = FALSE
    /\ wait = [t \in Transition |-> "none"]
    /\ overtaken = FALSE

\* changed_.notify_all
NotifyAll == wait' = [t \in Transition |-> IF wait[t] = "sleep" THEN "check" ELSE wait[t]]

-----------------------------------------------------------------------------
(***************************************************************************)
(* Request up to the engine call.  Superseding cancels the active          *)
(* transition before it is known whether the new request can be queued.    *)
(***************************************************************************)
Supersedes(d) ==
    /\ active[d] # 0 /\ Replacement[d] = "supersede_if_safe"
    /\ Cancellable(active[d])
    /\ cancellation' = cancellation \cup {active[d]}
    /\ projected' = Configuration

Request(d, m) ==
    /\ ~stopping /\ MutexFree /\ NextTransition # {}
    /\ \/ /\ active[d] = 0 \/ Replacement[d] = "queue"
          /\ UNCHANGED <<cancellation, projected>>
       \/ Supersedes(d)
    /\ Len(queue) < QueueCapacity
    /\ call' = [domain |-> d, mode |-> m, id |-> 0]
    /\ UNCHANGED <<up, committed, running, phase, thread, ready, journal, faults, queue, active,
                   busy, stopping, wait>>

RequestQueueFull(d) ==
    /\ ~stopping /\ MutexFree /\ Len(queue) >= QueueCapacity
    /\ Supersedes(d)
    /\ UNCHANGED <<up, committed, running, phase, thread, ready, journal, faults, queue, active,
                   call, busy, stopping, wait>>

\* Mutant: every request is planned against what is committed now.
BaselineCommitted(d) == Configuration

\* AcceptModeFrom(projected_) for a queued request, AcceptMode otherwise.
Baseline(d) ==
    IF active[d] # 0 /\ Replacement[d] = "queue" THEN projected ELSE Configuration

RequestAccept(t) ==
    /\ ~MutexFree /\ call.id = 0
    /\ AcceptModeFrom(t, Baseline(call.domain), call.domain, call.mode)
    /\ call' = [call EXCEPT !.id = t]
    /\ UNCHANGED <<queue, projected, active, busy, stopping, wait>>

\* The engine has accepted: queue it, remember it, wake workers and waiters.
RequestReturns(t) ==
    /\ ~MutexFree /\ call.id = t /\ pc[t] = "accepted"
    /\ projected' = [committed |-> [projected.committed EXCEPT ![call.domain] = call.mode],
                     running |-> (projected.running \ plan[t].stop) \cup plan[t].start]
    /\ queue' = Append(queue, t)
    /\ active' = [active EXCEPT ![call.domain] = t]
    /\ call' = NoCall
    /\ NotifyAll
    /\ UNCHANGED <<vars, busy, stopping>>

RequestFails(t) ==
    /\ ~MutexFree /\ call.id = t /\ pc[t] = "done"
    /\ call' = NoCall
    /\ UNCHANGED <<vars, queue, projected, active, busy, stopping, wait>>

-----------------------------------------------------------------------------
\* Mutant: a worker leaves as soon as the service is stopping.
TakeWorkUnlessStopping(t) ==
    /\ ~stopping
    /\ MutexFree /\ queue # <<>> /\ t = Head(queue)
    /\ Cardinality(busy) < Workers
    /\ Execute(t)
    /\ queue' = Tail(queue)
    /\ busy' = busy \cup {t}
    /\ UNCHANGED <<projected, active, call, stopping, wait>>

\* A worker pops the queue, also when the service is stopping, and executes.
TakeWork(t) ==
    /\ MutexFree /\ queue # <<>> /\ t = Head(queue)
    /\ Cardinality(busy) < Workers
    /\ Execute(t)
    /\ queue' = Tail(queue)
    /\ busy' = busy \cup {t}
    /\ UNCHANGED <<projected, active, call, stopping, wait>>

\* Mutant: the entry of a superseded transition's domain is not kept apart
\* from that of its successor.
CompleteKeepsEntry(t) ==
    /\ MutexFree /\ t \in busy /\ pc[t] = "done"
    /\ busy' = busy \ {t}
    /\ active' = IF phase[t] = "succeeded" THEN [active EXCEPT ![plan[t].domain] = 0] ELSE active
    /\ projected' = IF queue = <<>> THEN Configuration ELSE projected
    /\ NotifyAll
    /\ UNCHANGED <<vars, queue, call, stopping>>

\* After Execute has returned.
Complete(t) ==
    /\ MutexFree /\ t \in busy /\ pc[t] = "done"
    /\ busy' = busy \ {t}
    /\ active' = [d \in Domain |-> IF d = plan[t].domain /\ active[d] = t THEN 0 ELSE active[d]]
    /\ projected' = IF queue = <<>> /\ \A d \in Domain : active'[d] = 0
                    THEN Configuration ELSE projected
    /\ NotifyAll
    /\ UNCHANGED <<vars, queue, call, stopping>>

EngineStep(t) ==
    /\ Step(t) \/ Fault(t) \/ (t \in setup.cancellers /\ Cancel(t))
    /\ UNCHANGED service

-----------------------------------------------------------------------------
\* Wait: look at the phase without mutex_, then lock and wait for a change.
BeginWait(t) ==
    /\ t \in Waiters /\ wait[t] = "none" /\ ~stopping
    /\ \E d \in Domain : active[d] = t
    /\ wait' = [wait EXCEPT ![t] = "check"]
    /\ UNCHANGED <<vars, queue, projected, active, call, busy, stopping>>

WaitCheck(t) ==
    /\ wait[t] = "check"
    /\ wait' = [wait EXCEPT ![t] = IF phase[t] \in Terminal THEN "returned" ELSE "lock"]
    /\ UNCHANGED <<vars, queue, projected, active, call, busy, stopping>>

WaitSleep(t) ==
    /\ wait[t] = "lock" /\ MutexFree
    /\ wait' = [wait EXCEPT ![t] = "sleep"]
    /\ UNCHANGED <<vars, queue, projected, active, call, busy, stopping>>

WaitExpires(t) ==
    /\ wait[t] = "sleep"
    /\ wait' = [wait EXCEPT ![t] = "expired"]
    /\ UNCHANGED <<vars, queue, projected, active, call, busy, stopping>>

\* The destructor, which runs once no client holds the service any more.
Stop ==
    /\ ~stopping /\ MutexFree
    /\ \A t \in Transition : wait[t] \notin {"check", "lock", "sleep"}
    /\ stopping' = TRUE
    /\ UNCHANGED <<vars, queue, projected, active, call, busy, wait>>

ClientStep(t) ==
    \/ RequestAccept(t) \/ RequestReturns(t) \/ RequestFails(t)
    \/ WaitCheck(t) \/ WaitSleep(t) \/ WaitExpires(t)

CoordinatorNext ==
    \/ \E d \in setup.domains : RequestQueueFull(d) \/ \E m \in Requested[d] : Request(d, m)
    \/ \E t \in Transition : ClientStep(t) \/ BeginWait(t) \/ TakeWork(t) \/ Complete(t)
                             \/ EngineStep(t)
    \/ Stop

\* The steps a worker makes for t, and those of the engine in a Request that accepts t.
WorkStep(t) == TakeWork(t) \/ Complete(t) \/ (Step(t) /\ UNCHANGED service)

(***************************************************************************)
(* Fairness: threads that can run do; mutex_ is handed on, because clients *)
(* make finitely many requests.  Nothing obliges a client to make one, to  *)
(* cancel or to destroy the service.                                       *)
(***************************************************************************)
CoordinatorFairness ==
    \A t \in Transition : WF_allvars(ClientStep(t)) /\ WF_allvars(WorkStep(t))

Overtakes(t) ==
    /\ pc[t] = "acquire" /\ t \in leased'
    /\ \E x \in Transition : x < t /\ plan[x].domain = plan[t].domain /\ pc[x] \in {"accepted", "acquire"}

Remember ==
    UNCHANGED setup /\ overtaken' = (overtaken \/ \E t \in Transition : Overtakes(t))

CoordinatorSpec ==
    CoordinatorInit /\ [][CoordinatorNext /\ Remember]_<<allvars, setup, overtaken>>
        /\ CoordinatorFairness

-----------------------------------------------------------------------------
Pending(d) == {t \in busy \cup {queue[i] : i \in DOMAIN queue} : plan[t].domain = d}

(***************************************************************************)
(* active_domains_ names the newest unfinished transition of a domain and  *)
(* nothing else, although completions arrive in any order and every one    *)
(* of them may erase an entry.                                             *)
(***************************************************************************)
ActiveIsNewest ==
    \A d \in Domain : active[d] # 0 =>
        active[d] \in Pending(d) /\ \A t \in Pending(d) : t <= active[d]

(***************************************************************************)
(* A queued request is planned against the target of the one before it and *)
(* then runs as planned (coordinator_test.cpp,                             *)
(* PlansQueuedRequestAgainstEarlierAcceptedTarget), for any number of      *)
(* workers: when clients change one domain, an accepted change of units    *)
(* fails or is superseded only after a cancellation, a fault, a deadline,  *)
(* or after one worker has overtaken another between popping the queue     *)
(* and taking the lease, where nothing keeps the order.                    *)
(***************************************************************************)
InOrder ==
    /\ Cardinality(setup.domains) = 1 /\ ~overtaken
    /\ cancellation = {} /\ faults = FaultBudget
    /\ \A t \in Transition : outcome[t] # "deadline_exceeded"

QueuedRunsAsPlanned ==
    InOrder => \A t \in Transition : plan[t].start \cup plan[t].stop # {} =>
                   phase[t] \notin {"failed", "superseded"}

(***************************************************************************)
(* Everything that was accepted is executed, the destruction of the        *)
(* service included: again and again no accepted transition is unfinished. *)
(***************************************************************************)
RequestsFinish ==
    []<>(\A t \in Transition : pc[t] # "none" => phase[t] \in Terminal /\ t \notin busy)
=============================================================================
