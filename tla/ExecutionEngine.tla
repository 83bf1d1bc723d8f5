-------------------------- MODULE ExecutionEngine --------------------------
(***************************************************************************)
(* exec/src/engine.cpp: the engine that carries out mode transitions.      *)
(* Several worker threads execute transitions at once.  Each transition is *)
(* planned when it is accepted, leases what it changes, is planned again,  *)
(* stops and starts units through the process backend, commits the target  *)
(* mode, and journals every phase before it becomes visible.  The daemon   *)
(* may crash at any point and is recreated from the journal.               *)
(*                                                                         *)
(* A step is one critical section of mutex_, one backend call or one       *)
(* journal append.  The scheduler appears as what it implements            *)
(* (ResourceLocks): leases are all-or-nothing and disjoint.  The journal   *)
(* appears as what Replay computes from it, a fold over its records, so    *)
(* that an append updates the fold.                                        *)
(***************************************************************************)
EXTENDS TransitionPlanner, Naturals

CONSTANTS
    Transition,       \* transition identifiers, 1 .. n
    Requested,        \* Requested[d]: what clients ask of d; ids are not checked up front
    FallbackMode,     \* FallbackMode[d]: used by enter_fallback_mode
    Readiness,        \* Readiness[u]: the unit's readiness policy
    NoMode,
    Setups            \* the deployments looked at; each has
                      \*   workers: how many transitions execute at once
                      \*   recovery[d]: domain->recovery.action
                      \*   faults: how many crashes, unit exits, backend and journal errors occur

Terminal == {"succeeded", "rejected", "failed", "cancelled", "superseded",
             "deadline_exceeded", "recovery_failed"}
Phase == Terminal \cup {"none", "received", "validated", "planned", "stopping", "starting",
                        "awaiting_readiness", "committing", "recovering"}
ReadinessPolicy == {"lifecycle_channel", "process_started", "supervisor_notification",
                    "successful_exit", "socket_available", "mount_present"}
FailureAction == {"hold_observed_configuration", "enter_fallback_mode",
                  "rollback_if_declared_safe", "stop_domain", "request_system_recovery"}

ASSUME EngineAssumption ==
    /\ IsFiniteSet(Transition) /\ Transition = 1 .. Cardinality(Transition)
    /\ Requested \in [Domain -> SUBSET Mode]
    /\ \A setup \in Setups :
         /\ setup.workers \in Nat \ {0}
         /\ setup.recovery \in [Domain -> FailureAction]
         /\ \A d \in Domain :
              setup.recovery[d] = "enter_fallback_mode" => FallbackMode[d] \in ModesOf[d]
         /\ setup.faults \in [{"crash", "exit", "backend", "journal"} -> Nat]
    /\ Readiness \in [Unit -> ReadinessPolicy]
    /\ NoMode \notin Mode

VARIABLES
    setup,         \* the deployment, which does not change while the daemon exists
    up,            \* the daemon process is running
    committed,     \* configuration_.committed_modes
    running,       \* configuration_.running_units
    phase,         \* transitions_[t].phase, "none" before t exists
    plan,          \* plans_[t] (domain, source and target also when planning failed)
    cancellation,  \* transitions whose cancellation flag is set
    pc,            \* what the thread working on t does next
    todo,          \* units it has still to stop and to start
    outcome,       \* the terminal phase Fail or Recover is about to record
    leased,        \* transitions that hold their scheduler lease
    recovery,      \* failure->recovered_mode and recovery_{stopped,started}_applications
    ready,         \* external: the units the process backend reports ready
    journal,       \* what Replay yields: modes, units, last phases, and whether it succeeds
    faults         \* faults that may still happen

memory == <<committed, running, phase, cancellation>>
thread == <<plan, pc, todo, outcome, leased, recovery>>
vars == <<up, memory, thread, ready, journal, faults>>

Workers == setup.workers
RecoveryAction == setup.recovery
FaultBudget == setup.faults

NoPlan == [domain |-> CHOOSE d \in Domain : TRUE, source |-> NoMode, target |-> NoMode,
           start |-> {}, stop |-> {}]
NoTodo == [stop |-> {}, start |-> {}]
NoRecovery == [mode |-> NoMode, stopped |-> {}, started |-> {}]

Init ==
    /\ setup \in Setups
    /\ up = TRUE
    /\ committed = InitialMode
    /\ running = RequiredUnits(InitialMode)
    /\ ready = RequiredUnits(InitialMode)
    /\ phase = [t \in Transition |-> "none"]
    /\ plan = [t \in Transition |-> NoPlan]
    /\ cancellation = {}
    /\ pc = [t \in Transition |-> "none"]
    /\ todo = [t \in Transition |-> NoTodo]
    /\ outcome = [t \in Transition |-> "none"]
    /\ leased = {}
    /\ recovery = [t \in Transition |-> NoRecovery]
    /\ journal = [committed |-> InitialMode, running |-> RequiredUnits(InitialMode),
                  phase |-> phase, valid |-> TRUE]
    /\ faults = FaultBudget

-----------------------------------------------------------------------------
Configuration == [committed |-> committed, running |-> running]

Goto(t, location) == pc' = [pc EXCEPT ![t] = location]

\* Fail: the terminal phase depends on the error; its record comes next.
Fail(t, terminal) ==
    /\ outcome' = [outcome EXCEPT ![t] = terminal]
    /\ Goto(t, "rec_terminal")

\* valid_progress over the order in which TransitionPhase declares phases.
Rank(ph) ==
    CASE ph = "received" -> 0 [] ph = "validated" -> 1 [] ph = "planned" -> 2
      [] ph = "stopping" -> 3 [] ph = "starting" -> 4 [] ph = "awaiting_readiness" -> 5
      [] ph = "committing" -> 6 [] ph \in Terminal -> 7 [] ph = "recovering" -> 8

ValidProgress(previous, next) ==
    \/ previous \in {"none", next}
    \/ previous = "recovering" /\ next \in {"failed", "recovery_failed"}
    \/ previous \notin Terminal \cup {"recovering"} /\ Rank(previous) < Rank(next)

\* Mutant: a replayed success does not install the target mode.
ReplayKeepsMode(j, t, ph) ==
    [j EXCEPT !.phase[t] = ph,
              !.valid = /\ @
                        /\ plan[t].target \in ModesOf[plan[t].domain]
                        /\ ValidProgress(j.phase[t], ph)]

(***************************************************************************)
(* Replaying one more record.  A success installs the target mode and the  *)
(* planned units; a failure installs only what its recovery did.           *)
(***************************************************************************)
Replay(j, t, ph) ==
    [committed |->
        IF ph = "succeeded" THEN [j.committed EXCEPT ![plan[t].domain] = plan[t].target]
        ELSE IF recovery[t].mode # NoMode
             THEN [j.committed EXCEPT ![plan[t].domain] = recovery[t].mode]
             ELSE j.committed,
     running |->
        IF ph = "succeeded" THEN (j.running \ plan[t].stop) \cup plan[t].start
        ELSE (j.running \ recovery[t].stopped) \cup recovery[t].started,
     phase |-> [j.phase EXCEPT ![t] = ph],
     valid |-> /\ j.valid
               /\ plan[t].target \in ModesOf[plan[t].domain]
               /\ ValidProgress(j.phase[t], ph)]

-----------------------------------------------------------------------------
\* fetch_add on next_transition_, which a restart sets past the journalled ids.
NextTransition ==
    {t \in Transition : /\ \A s \in Transition : s >= t => pc[s] = "none"
                        /\ t > 1 => pc[t - 1] # "none"}

AcceptModeFrom(t, baseline, d, target) ==
    /\ up
    /\ t \in NextTransition
    /\ phase' = [phase EXCEPT ![t] = "received"]
    /\ \/ /\ Plannable(baseline, d, target, FALSE)
          /\ plan' = [plan EXCEPT ![t] = BuildPlan(baseline, d, target)]
          /\ Goto(t, "rec_validated")
          /\ UNCHANGED outcome
       \/ /\ ~Plannable(baseline, d, target, FALSE)
          /\ plan' = [plan EXCEPT ![t] = [domain |-> d, source |-> baseline.committed[d],
                                          target |-> target, start |-> {}, stop |-> {}]]
          /\ Fail(t, "failed")
    /\ UNCHANGED <<up, committed, running, cancellation, todo, leased, recovery, ready,
                   journal, faults>>

AcceptMode(t, d, target) == AcceptModeFrom(t, Configuration, d, target)

-----------------------------------------------------------------------------
AfterStops(p) == IF p.start # {} THEN "rec_starting" ELSE "rec_committing"

\* The phase written at a rec_ location and where the thread goes next.
Recording(t) ==
    CASE pc[t] = "rec_validated"  -> <<"validated", "rec_planned">>
      [] pc[t] = "rec_planned"    -> <<"planned", "accepted">>
      [] pc[t] = "rec_stopping"   -> <<"stopping", "stop">>
      [] pc[t] = "rec_starting"   ->
           <<"starting", IF \A u \in plan[t].start : Readiness[u] = "process_started"
                         THEN "start" ELSE "rec_awaiting">>
      [] pc[t] = "rec_awaiting"   -> <<"awaiting_readiness", "start">>
      [] pc[t] = "rec_committing" -> <<"committing", "commit">>
      [] pc[t] = "rec_succeeded"  -> <<"succeeded", "done">>
      [] pc[t] = "rec_recovering" -> <<"recovering", "plan_recovery">>
      [] pc[t] = "rec_terminal"   -> <<outcome[t], "done">>

AtRecord(t) ==
    pc[t] \in {"rec_validated", "rec_planned", "rec_stopping", "rec_starting", "rec_awaiting",
               "rec_committing", "rec_succeeded", "rec_recovering", "rec_terminal"}

\* Append to the journal, then publish the phase in transitions_.
Record(t) ==
    /\ up /\ AtRecord(t)
    /\ LET written == Recording(t)[1]
           next == Recording(t)[2] IN
       /\ journal' = Replay(journal, t, written)
       /\ phase' = [phase EXCEPT ![t] = written]
       /\ Goto(t, next)
       /\ leased' = IF next = "done" THEN leased \ {t} ELSE leased
    /\ UNCHANGED <<up, committed, running, cancellation, plan, todo, outcome, recovery, ready,
                   faults>>

(***************************************************************************)
(* The append reports an error: a failed write leaves no record, a failed  *)
(* fsync leaves the record in the file.  Every phase but a terminal one    *)
(* then goes through Fail, which starts a fresh failure description.       *)
(***************************************************************************)
RecordFails(t, in_file) ==
    /\ up /\ AtRecord(t) /\ faults.journal > 0
    /\ faults' = [faults EXCEPT !.journal = @ - 1]
    /\ journal' = IF in_file THEN Replay(journal, t, Recording(t)[1]) ELSE journal
    /\ \/ /\ pc[t] = "rec_terminal"
          /\ Goto(t, "done") /\ leased' = leased \ {t}
          /\ UNCHANGED <<outcome, recovery>>
       \/ /\ pc[t] # "rec_terminal"
          /\ Fail(t, "failed")
          /\ recovery' = [recovery EXCEPT ![t] = NoRecovery]
          /\ UNCHANGED leased
    /\ UNCHANGED <<up, memory, plan, todo, ready>>

-----------------------------------------------------------------------------
Executing == {t \in Transition :
                pc[t] \notin {"none", "rec_validated", "rec_planned", "accepted", "done"}
                /\ phase[t] \notin {"received", "validated"}}

\* A worker thread takes an accepted transition.
Execute(t) ==
    /\ up /\ pc[t] = "accepted" /\ Cardinality(Executing) < Workers
    /\ Goto(t, "acquire")
    /\ UNCHANGED <<up, memory, plan, todo, outcome, leased, recovery, ready, journal, faults>>

LeaseFree(t) == \A s \in leased : LeaseItems(plan[s]) \cap LeaseItems(plan[t]) = {}

\* scheduler_.Acquire, then planning again against what is committed by now.
Acquire(t) ==
    /\ up /\ pc[t] = "acquire" /\ LeaseFree(t)
    /\ leased' = leased \cup {t}
    /\ LET p == plan[t]
           now == BuildPlan(Configuration, p.domain, p.target) IN
       \/ /\ ~Plannable(Configuration, p.domain, p.target, FALSE)
          /\ Fail(t, "failed") /\ UNCHANGED todo
       \/ /\ Plannable(Configuration, p.domain, p.target, FALSE)
          /\ now.start # p.start \/ now.stop # p.stop
          /\ Fail(t, "superseded") /\ UNCHANGED todo
       \/ /\ Plannable(Configuration, p.domain, p.target, FALSE)
          /\ now.start = p.start /\ now.stop = p.stop
          /\ todo' = [todo EXCEPT ![t] = [stop |-> p.stop, start |-> p.start]]
          /\ Goto(t, IF p.stop # {} THEN "rec_stopping" ELSE AfterStops(p))
          /\ UNCHANGED outcome
    /\ UNCHANGED <<up, memory, plan, recovery, ready, journal, faults>>

AcquireExpires(t) ==
    /\ up /\ pc[t] = "acquire" /\ ~LeaseFree(t)
    /\ Fail(t, "deadline_exceeded")
    /\ UNCHANGED <<up, memory, plan, todo, leased, recovery, ready, journal, faults>>

\* IsCancelled is looked at before each unit and nowhere else.
ObserveCancel(t) ==
    /\ up /\ pc[t] \in {"stop", "start"} /\ t \in cancellation
    /\ Fail(t, "cancelled")
    /\ UNCHANGED <<up, memory, plan, todo, leased, recovery, ready, journal, faults>>

\* Mutant: no cancellation point before a start.
NextUnitUnchecked(t) ==
    /\ up /\ pc[t] \in {"stop", "start"} /\ (pc[t] = "stop" => t \notin cancellation)
    /\ Goto(t, IF pc[t] = "stop" THEN "stopping" ELSE "starting")
    /\ UNCHANGED <<up, memory, plan, todo, outcome, leased, recovery, ready, journal, faults>>

\* Not cancelled: the backend call for the next unit begins.
NextUnit(t) ==
    /\ up /\ pc[t] \in {"stop", "start"} /\ t \notin cancellation
    /\ Goto(t, IF pc[t] = "stop" THEN "stopping" ELSE "starting")
    /\ UNCHANGED <<up, memory, plan, todo, outcome, leased, recovery, ready, journal, faults>>

StopUnit(t, u) ==
    /\ up /\ pc[t] = "stopping"
    /\ u \in NextStop(todo[t].stop)
    /\ ready' = ready \ {u}
    /\ running' = running \ {u}
    /\ todo' = [todo EXCEPT ![t].stop = @ \ {u}]
    /\ Goto(t, IF todo[t].stop = {u} THEN AfterStops(plan[t]) ELSE "stop")
    /\ UNCHANGED <<up, committed, phase, cancellation, plan, outcome, leased, recovery, journal,
                   faults>>

\* Mutant: a unit that is not ready yet is not entered into running_units.
StartUnitReadyOnly(t, u) ==
    /\ up /\ pc[t] = "starting"
    /\ u \in NextStart(todo[t].start)
    /\ \/ ready' = ready \cup {u}
       \/ Readiness[u] = "process_started" /\ UNCHANGED ready
    /\ running' = running \cup ({u} \cap ready')
    /\ todo' = [todo EXCEPT ![t].start = @ \ {u}]
    /\ Goto(t, IF todo[t].start = {u} THEN "rec_committing" ELSE "start")
    /\ UNCHANGED <<up, committed, phase, cancellation, plan, outcome, leased, recovery, journal,
                   faults>>

\* A process_started unit is accepted before the backend reports it ready.
StartUnit(t, u) ==
    /\ up /\ pc[t] = "starting"
    /\ u \in NextStart(todo[t].start)
    /\ \/ ready' = ready \cup {u}
       \/ Readiness[u] = "process_started" /\ UNCHANGED ready
    /\ running' = running \cup {u}
    /\ todo' = [todo EXCEPT ![t].start = @ \ {u}]
    /\ Goto(t, IF todo[t].start = {u} THEN "rec_committing" ELSE "start")
    /\ UNCHANGED <<up, committed, phase, cancellation, plan, outcome, leased, recovery, journal,
                   faults>>

\* Recover, up to its first record.
Recover(t) ==
    \/ /\ RecoveryAction[plan[t].domain] = "hold_observed_configuration"
       /\ \E terminal \in {"failed", "deadline_exceeded"} : Fail(t, terminal)
    \/ /\ RecoveryAction[plan[t].domain] # "hold_observed_configuration"
       /\ Goto(t, "rec_recovering")
       /\ UNCHANGED outcome

(***************************************************************************)
(* A stop, or the last of the permitted start attempts, fails or times     *)
(* out: the unit is in either state afterwards.  Earlier attempts are      *)
(* cleaned up with a Stop and leave no trace.                              *)
(***************************************************************************)
UnitFails(t, u) ==
    /\ up /\ faults.backend > 0
    /\ \/ pc[t] = "stopping" /\ u \in NextStop(todo[t].stop)
       \/ pc[t] = "starting" /\ u \in NextStart(todo[t].start)
    /\ faults' = [faults EXCEPT !.backend = @ - 1]
    /\ ready' \in {ready \ {u}, ready \cup {u}}
    /\ Recover(t)
    /\ UNCHANGED <<up, memory, plan, todo, leased, recovery, journal>>

Commit(t) ==
    /\ up /\ pc[t] = "commit"
    /\ committed' = [committed EXCEPT ![plan[t].domain] = plan[t].target]
    /\ Goto(t, "rec_succeeded")
    /\ UNCHANGED <<up, running, phase, cancellation, plan, todo, outcome, leased, recovery, ready,
                   journal, faults>>

-----------------------------------------------------------------------------
\* The recovery plan comes from the configuration of this moment.
PlanRecovery(t) ==
    /\ up /\ pc[t] = "plan_recovery"
    /\ LET d == plan[t].domain
           action == RecoveryAction[d]
           fallback == BuildPlan(Configuration, d, FallbackMode[d])
           steps == IF action = "enter_fallback_mode"
                    THEN [stop |-> fallback.stop, start |-> fallback.start]
                    ELSE [stop |-> StopDomainUnits(Configuration, d), start |-> {}]
           possible == IF action = "enter_fallback_mode"
                       THEN Plannable(Configuration, d, FallbackMode[d], TRUE)
                       ELSE /\ action = "stop_domain"
                            /\ DependenciesPresent(RemainingUnits(committed, d)) IN
       \/ /\ action = "request_system_recovery"
          /\ \E terminal \in {"failed", "recovery_failed"} : Fail(t, terminal)
          /\ UNCHANGED todo
       \/ /\ action # "request_system_recovery" /\ ~possible
          /\ Fail(t, "recovery_failed") /\ UNCHANGED todo
       \/ /\ action # "request_system_recovery" /\ possible
          /\ todo' = [todo EXCEPT ![t] = steps]
          /\ Goto(t, "recover") /\ UNCHANGED outcome
    /\ UNCHANGED <<up, memory, plan, leased, recovery, ready, journal, faults>>

(***************************************************************************)
(* ApplyRecoveryPlan: one unit stopped or, once none is left, started.     *)
(* Unlike Execute it takes "starting" for an answer from every unit that   *)
(* does not report through the lifecycle channel.                          *)
(***************************************************************************)
RecoverStop(t, u) ==
    /\ up /\ pc[t] = "recover" /\ u \in NextStop(todo[t].stop)
    /\ ready' = ready \ {u}
    /\ running' = running \ {u}
    /\ todo' = [todo EXCEPT ![t].stop = @ \ {u}]
    /\ recovery' = [recovery EXCEPT ![t].stopped = @ \cup {u}]
    /\ UNCHANGED <<up, committed, phase, cancellation, plan, pc, outcome, leased, journal, faults>>

RecoverStart(t, u) ==
    /\ up /\ pc[t] = "recover" /\ todo[t].stop = {} /\ u \in NextStart(todo[t].start)
    /\ \/ ready' = ready \cup {u}
       \/ Readiness[u] # "lifecycle_channel" /\ UNCHANGED ready
    /\ running' = running \cup {u}
    /\ todo' = [todo EXCEPT ![t].start = @ \ {u}]
    /\ recovery' = [recovery EXCEPT ![t].started = @ \cup {u}]
    /\ UNCHANGED <<up, committed, phase, cancellation, plan, pc, outcome, leased, journal, faults>>

RecoverUnitFails(t, u) ==
    /\ up /\ pc[t] = "recover" /\ faults.backend > 0
    /\ u \in NextStop(todo[t].stop) \/ (todo[t].stop = {} /\ u \in NextStart(todo[t].start))
    /\ faults' = [faults EXCEPT !.backend = @ - 1]
    /\ ready' \in {ready \ {u}, ready \cup {u}}
    /\ Fail(t, "recovery_failed")
    /\ UNCHANGED <<up, memory, plan, todo, leased, recovery, journal>>

\* Recovery succeeded; the transition itself still ends as failed.
RecoverDone(t) ==
    /\ up /\ pc[t] = "recover" /\ todo[t] = NoTodo
    /\ LET d == plan[t].domain IN
       \/ /\ RecoveryAction[d] = "enter_fallback_mode"
          /\ committed' = [committed EXCEPT ![d] = FallbackMode[d]]
          /\ recovery' = [recovery EXCEPT ![t].mode = FallbackMode[d]]
       \/ /\ RecoveryAction[d] = "stop_domain"
          /\ UNCHANGED <<committed, recovery>>
    /\ Fail(t, "failed")
    /\ UNCHANGED <<up, running, phase, cancellation, plan, todo, leased, ready, journal, faults>>

\* Cancel is accepted while the transition waits, stops, starts or recovers.
Cancellable(t) == phase[t] \notin Terminal \cup {"none", "committing"}

Cancel(t) ==
    /\ up /\ Cancellable(t)
    /\ cancellation' = cancellation \cup {t}
    /\ UNCHANGED <<up, committed, running, phase, thread, ready, journal, faults>>

-----------------------------------------------------------------------------
\* The daemon dies.  Only the backend's units and the journal survive.
Crash ==
    /\ up /\ faults.crash > 0
    /\ faults' = [faults EXCEPT !.crash = @ - 1]
    /\ up' = FALSE
    /\ committed' = journal.committed
    /\ running' = journal.running
    /\ phase' = journal.phase
    /\ cancellation' = {}
    /\ plan' = [t \in Transition |-> IF journal.phase[t] = "none" THEN NoPlan ELSE plan[t]]
    /\ pc' = [t \in Transition |-> IF journal.phase[t] = "none" THEN "none" ELSE "done"]
    /\ todo' = [t \in Transition |-> NoTodo]
    /\ outcome' = [t \in Transition |-> "none"]
    /\ leased' = {}
    /\ recovery' = [t \in Transition |-> NoRecovery]
    /\ UNCHANGED <<ready, journal>>

\* External: a unit ends by itself; the engine is not told.
UnitExits(u) ==
    /\ faults.exit > 0 /\ u \in ready
    /\ faults' = [faults EXCEPT !.exit = @ - 1]
    /\ ready' = ready \ {u}
    /\ UNCHANGED <<up, memory, thread, journal>>

\* External: a unit accepted as started reports readiness later on.
BecomesReady(u) ==
    /\ u \in running \ ready /\ Readiness[u] # "lifecycle_channel"
    /\ ready' = ready \cup {u}
    /\ UNCHANGED <<up, memory, thread, journal, faults>>

Journalled == {t \in Transition : journal.phase[t] # "none"}
\* Mutant: no journalled transition counts as interrupted.
InterruptedNone == {}

Interrupted == {t \in Journalled : journal.phase[t] \notin Terminal}

\* Create, journal without interrupted transitions: reconcile unit by unit.
RestoreUnit(u) ==
    /\ ~up /\ journal.valid /\ Journalled # {} /\ Interrupted = {}
    /\ \/ u \in journal.running \ ready /\ ready' = ready \cup {u}
       \/ u \in ready \ journal.running /\ ready' = ready \ {u}
    /\ UNCHANGED <<up, memory, thread, journal, faults>>

\* Create succeeds.  Interrupted transitions are recorded as failed.
Restart ==
    /\ ~up /\ journal.valid
    /\ \/ Journalled = {} /\ journal.running \subseteq ready /\ UNCHANGED running
       \/ Journalled # {} /\ Interrupted = {} /\ journal.running = ready /\ UNCHANGED running
       \/ Interrupted # {} /\ running' = ready
    /\ up' = TRUE
    /\ phase' = [t \in Transition |-> IF t \in Interrupted THEN "failed" ELSE phase[t]]
    /\ journal' = [journal EXCEPT !.phase = phase']
    /\ UNCHANGED <<committed, cancellation, thread, ready, faults>>

-----------------------------------------------------------------------------
Step(t) ==
    \/ Record(t)
    \/ Acquire(t)
    \/ AcquireExpires(t)
    \/ ObserveCancel(t) \/ NextUnit(t)
    \/ \E u \in Unit : StopUnit(t, u) \/ StartUnit(t, u)
    \/ Commit(t)
    \/ PlanRecovery(t)
    \/ \E u \in Unit : RecoverStop(t, u) \/ RecoverStart(t, u)
    \/ RecoverDone(t)

Fault(t) ==
    \/ \E in_file \in BOOLEAN : RecordFails(t, in_file)
    \/ \E u \in Unit : UnitFails(t, u) \/ RecoverUnitFails(t, u)

Daemon ==
    \/ Crash
    \/ \E u \in Unit : UnitExits(u) \/ BecomesReady(u) \/ RestoreUnit(u)
    \/ Restart

Next ==
    \/ \E t \in Transition :
         \/ \E d \in Domain : \E m \in Requested[d] : AcceptMode(t, d, m)
         \/ Execute(t)
         \/ Step(t)
         \/ Cancel(t)
         \/ Fault(t)
    \/ Daemon

(***************************************************************************)
(* Fairness: worker threads run, backend calls and lease waits return (each *)
(* has a deadline), and the supervisor restarts the daemon after a crash.  *)
(***************************************************************************)
Fairness ==
    /\ \A t \in Transition : WF_vars(Step(t)) /\ WF_vars(Execute(t))
    /\ WF_vars(Restart \/ \E u \in Unit : RestoreUnit(u))

Spec == Init /\ [][Next /\ UNCHANGED setup]_<<vars, setup>> /\ Fairness

-----------------------------------------------------------------------------
(***************************************************************************)
(* The committed modes satisfy every requires/excludes constraint, also    *)
(* after a fallback or a restart, although transitions of different        *)
(* domains are validated and committed by different threads.               *)
(***************************************************************************)
ModesConsistent == ValidateConstraints(committed)

(***************************************************************************)
(* A unit stays up until the last domain that needs it lets go of it       *)
(* (planner_test.cpp, StopsOnlyAfterLastDomainReleasesSharedApplication):  *)
(* as long as only successful transitions touched a domain and none is     *)
(* under way, the units of its committed mode run.  It needs a single      *)
(* worker: two domains that let go of a unit at once do not.               *)
(***************************************************************************)
Undisturbed(d) ==
    \A t \in Transition : plan[t].domain = d =>
        /\ t \notin leased
        /\ \/ phase[t] \in {"none", "received", "validated", "planned", "succeeded", "superseded"}
           \/ plan[t].start \cup plan[t].stop = {}

SharedUnitsKept ==
    Workers = 1 /\ up /\ faults.crash = FaultBudget.crash =>
        \A d \in Domain : Undisturbed(d) => UnitsOf[d][committed[d]] \subseteq running

(***************************************************************************)
(* Dependency order: mid-transition, after a cancelled or failed one and   *)
(* during recovery, the engine never believes a unit to run without the    *)
(* units it depends on, with one exception.  Execute leases the units a    *)
(* plan changes and not those it retains (engine.cpp:317), so that a       *)
(* transition can start a unit while another one, of a domain that no      *)
(* constraint links with it, stops what that unit depends on.              *)
(***************************************************************************)
Started(t) == plan[t].start \cup recovery[t].started
Stopped(t) == plan[t].stop \cup recovery[t].stopped

StoppedBeside(u, v) ==
    /\ Workers > 1
    /\ \E t, x \in Transition :
         /\ plan[x].domain \notin GuardedDomains(plan[t].domain)
         /\ u \in Started(t) /\ v \in Stopped(x)

RunningDependencies ==
    up /\ faults.crash = FaultBudget.crash =>
        \A u \in running : \A v \in Dependencies[u] \ running : StoppedBeside(u, v)

(***************************************************************************)
(* Durability: unless an append has reported an error, the journal can be  *)
(* replayed at any moment the daemon may have to restart exactly when no   *)
(* request for a mode that its domain does not define has been journalled  *)
(* (AcceptModeFrom journals those as failed, and Replay refuses them).     *)
(* For a domain without a transition under way it gives the committed mode *)
(* clients see, and for every transition that is over its phase.           *)
(***************************************************************************)
AppendsSucceed == faults.journal = FaultBudget.journal
TargetsDefined == \A t \in Journalled : plan[t].target \in ModesOf[plan[t].domain]

JournalFaithful ==
    AppendsSucceed =>
      /\ journal.valid <=> TargetsDefined
      /\ up => \A d \in Domain : (\A t \in leased : plan[t].domain # d) =>
           journal.committed[d] = committed[d]
      /\ up => \A t \in Transition : pc[t] = "done" => journal.phase[t] = phase[t]

(***************************************************************************)
(* Once Cancel has been accepted while a unit is left whose stop or start  *)
(* the engine has not begun, the transition never succeeds.                *)
(***************************************************************************)
UnitsAhead(t) ==
    \/ pc[t] \in {"accepted", "acquire"} /\ plan[t].stop \cup plan[t].start # {}
    \/ pc[t] \in {"rec_stopping", "stop", "rec_starting", "rec_awaiting", "start"}
    \/ pc[t] = "stopping" /\ Cardinality(todo[t].stop \cup plan[t].start) > 1
    \/ pc[t] = "starting" /\ Cardinality(todo[t].start) > 1

CancelEffective ==
    \A t \in Transition :
        [](t \in cancellation /\ UnitsAhead(t) => [](phase[t] # "succeeded"))

(***************************************************************************)
(* Every accepted transition ends, or was never journalled before a crash: *)
(* again and again none is unfinished, unless an append reports an error   *)
(* (a terminal phase that cannot be recorded is not published either) or a *)
(* request for an undefined mode was journalled (after a crash the daemon  *)
(* then does not come up).                                                 *)
(***************************************************************************)
TransitionsFinish ==
    []<>(AppendsSucceed /\ TargetsDefined =>
           \A t \in Transition : phase[t] \in Terminal \cup {"none"})
=============================================================================
