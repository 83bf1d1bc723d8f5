------------------------ MODULE EngineJournalProofs ------------------------
(***************************************************************************)
(* When the journal of the engine can be replayed, and that it says what   *)
(* clients see, for any execution model, number of transitions, workers    *)
(* and crashes: module ExecutionEngineProofs has it for the modes, this    *)
(* one for the phases.                                                     *)
(***************************************************************************)
EXTENDS ExecutionEngineProofs

\* The last journalled phase of a transition whose thread is at a location.
Before(location) ==
    CASE location \in {"none", "rec_validated"} -> {"none"}
      [] location = "rec_planned" -> {"validated"}
      [] location \in {"accepted", "acquire", "rec_stopping"} -> {"planned"}
      [] location \in {"stop", "stopping"} -> {"stopping"}
      [] location = "rec_starting" -> {"planned", "stopping"}
      [] location = "rec_awaiting" -> {"starting"}
      [] location \in {"start", "starting"} -> {"starting", "awaiting_readiness"}
      [] location = "rec_committing" -> {"planned", "stopping", "starting", "awaiting_readiness"}
      [] location \in {"commit", "rec_succeeded"} -> {"committing"}
      [] location = "rec_recovering" -> {"stopping", "starting", "awaiting_readiness"}
      [] location \in {"plan_recovery", "recover"} -> {"recovering"}
      [] location = "rec_terminal" ->
           {"none", "planned", "stopping", "starting", "awaiting_readiness", "recovering"}
      [] location = "done" -> Phase \ {"none"}

\* A request is visible before its first record; otherwise phases are journalled first.
InStep(t) ==
    /\ journal.phase[t] \in Before(pc[t]) /\ journal.phase[t] \in Phase
    /\ \/ phase[t] = journal.phase[t]
       \/ phase[t] = "received" /\ pc[t] \in {"rec_validated", "rec_terminal"}
    /\ pc[t] = "rec_terminal" =>
         /\ outcome[t] \in Terminal
         /\ journal.phase[t] = "recovering" => outcome[t] \in {"failed", "recovery_failed"}

JInv ==
    /\ ~up => \A t \in Transition : pc[t] \in {"none", "done"}
    /\ AppendsSucceed =>
         /\ journal.valid <=> TargetsDefined
         /\ DOMAIN phase = Transition /\ DOMAIN journal.phase = Transition
         /\ \A t \in Transition : InStep(t)

-----------------------------------------------------------------------------
\* A step of one thread leaves the others where they are.
OthersStay(t) ==
    \A s \in Transition \ {t} :
        /\ pc'[s] = pc[s] /\ phase'[s] = phase[s] /\ plan'[s] = plan[s]
        /\ outcome'[s] = outcome[s] /\ journal'.phase[s] = journal.phase[s]

(***************************************************************************)
(* It is enough to look at the transition that moves.                      *)
(***************************************************************************)
LEMMA OneThread ==
    ASSUME JInv, NEW t \in Transition, up, UNCHANGED up,
           AppendsSucceed' => /\ AppendsSucceed
                              /\ journal'.valid <=> TargetsDefined'
                              /\ DOMAIN phase' = Transition /\ DOMAIN journal'.phase = Transition
                              /\ OthersStay(t)
                              /\ InStep(t)'
    PROVE  JInv'
  <1>1. ASSUME AppendsSucceed', NEW s \in Transition PROVE InStep(s)'
    <2>1. CASE s = t
      BY <1>1, <2>1
    <2>2. CASE s # t
      BY <1>1, <2>2 DEF JInv, InStep, OthersStay
    <2> QED BY <2>1, <2>2
  <1> QED BY <1>1 DEF JInv

(***************************************************************************)
(* A thread that goes on without a record.                                 *)
(***************************************************************************)
LEMMA UnrecordedMove ==
    ASSUME IInv, JInv, NEW t \in Transition, NEW location, up,
           UNCHANGED <<up, journal, phase, plan, setup>>, faults'.journal = faults.journal,
           Goto(t, location),
           \A s \in Transition \ {t} : outcome'[s] = outcome[s],
           pc[t] \notin {"none", "done", "rec_validated", "rec_terminal"},
           location \notin {"none", "done"},
           Before(pc[t]) \subseteq Before(location) \/ journal.phase[t] \in Before(location),
           location = "rec_terminal" =>
               /\ outcome'[t] \in Terminal
               /\ \/ pc[t] \in {"acquire", "stop", "stopping", "start", "starting"}
                  \/ outcome'[t] \in {"failed", "recovery_failed"}
    PROVE  JInv'
  <1>1. /\ \A s \in Transition : pc'[s] = IF s = t THEN location ELSE pc[s]
        /\ AppendsSucceed' = AppendsSucceed
    BY DEF Goto, IInv, Types, AppendsSucceed, FaultBudget
  <1>2. OthersStay(t)
    BY <1>1 DEF OthersStay
  <1>3. ASSUME AppendsSucceed PROVE InStep(t)'
    <2>1. InStep(t)
      BY <1>3 DEF JInv
    <2>2. pc[t] \in {"acquire", "stop", "stopping", "start", "starting"} =>
            journal.phase[t] # "recovering"
      BY <2>1 DEF InStep, Before
    <2> QED BY <1>1, <2>1, <2>2 DEF InStep
  <1>4. TargetsDefined' = TargetsDefined
    BY DEF TargetsDefined, Journalled
  <1> QED BY <1>1, <1>2, <1>3, <1>4, OneThread DEF JInv

(***************************************************************************)
(* Outside the threads.                                                    *)
(***************************************************************************)
LEMMA UnrecordedStill ==
    ASSUME IInv, JInv, UNCHANGED <<up, journal, phase, plan, pc, outcome, setup>>,
           faults'.journal = faults.journal
    PROVE  JInv'
  <1>1. TargetsDefined' = TargetsDefined
    BY DEF TargetsDefined, Journalled
  <1> QED BY <1>1 DEF JInv, InStep, AppendsSucceed, FaultBudget

(***************************************************************************)
(* A new request has no record yet, whatever mode it is for.               *)
(***************************************************************************)
LEMMA AcceptInStep ==
    ASSUME IInv, JInv, NEW t \in Transition, NEW d \in Domain, NEW target,
           AcceptMode(t, d, target), UNCHANGED setup
    PROVE  JInv'
  <1>1. pc[t] = "none"
    <2>1. Transition = 1 .. Cardinality(Transition) /\ Cardinality(Transition) \in Nat
      BY EngineAssumption, FS_CardinalityType
    <2>2. t >= t
      BY <2>1
    <2> QED BY <2>2 DEF AcceptMode, AcceptModeFrom, NextTransition
  <1>2. PICK p : plan' = [plan EXCEPT ![t] = p] /\ p.domain = d /\ p.target = target
    <2>1. CASE plan' = [plan EXCEPT ![t] = BuildPlan(Configuration, d, target)]
      <3>1. /\ BuildPlan(Configuration, d, target).domain = d
            /\ BuildPlan(Configuration, d, target).target = target
        BY DEF BuildPlan
      <3> QED BY <2>1, <3>1
    <2>2. CASE plan' = [plan EXCEPT ![t] = [domain |-> d, source |-> Configuration.committed[d],
                                            target |-> target, start |-> {}, stop |-> {}]]
      <3> DEFINE p == [domain |-> d, source |-> Configuration.committed[d],
                       target |-> target, start |-> {}, stop |-> {}]
      <3>1. plan' = [plan EXCEPT ![t] = p] /\ p.domain = d /\ p.target = target
        BY <2>2
      <3> HIDE DEF p
      <3> QED BY <3>1
    <2> QED BY <2>1, <2>2 DEF AcceptMode, AcceptModeFrom
  <1>3. /\ up /\ UNCHANGED <<up, journal, faults>>
        /\ phase' = [phase EXCEPT ![t] = "received"]
    BY DEF AcceptMode, AcceptModeFrom
  <1>4. PICK location \in {"rec_validated", "rec_terminal"} :
          /\ pc' = [pc EXCEPT ![t] = location]
          /\ location = "rec_terminal" => outcome' = [outcome EXCEPT ![t] = "failed"]
          /\ location = "rec_validated" => outcome' = outcome
    BY DEF AcceptMode, AcceptModeFrom, Goto, Fail
  <1>5. AppendsSucceed' = AppendsSucceed
    BY <1>3 DEF AppendsSucceed, FaultBudget
  <1>6. ASSUME AppendsSucceed
        PROVE  /\ OthersStay(t) /\ InStep(t)' /\ DOMAIN phase' = Transition
               /\ TargetsDefined' = TargetsDefined
    <2>1. journal.phase[t] = "none" /\ DOMAIN phase = Transition
      BY <1>1, <1>6 DEF JInv, InStep, Before
    <2>2. /\ pc'[t] = location /\ phase'[t] = "received" /\ plan'[t] = p
          /\ location = "rec_terminal" => outcome'[t] = "failed"
      BY <1>2, <1>3, <1>4, <2>1 DEF IInv, Types
    <2>3. OthersStay(t)
      BY <1>2, <1>3, <1>4, <2>1 DEF OthersStay, IInv, Types
    <2>4. journal'.phase[t] \in Before(location)
      BY <1>3, <2>1 DEF Before
    <2>5. InStep(t)'
      BY <1>2, <1>3, <2>1, <2>2, <2>4 DEF InStep, Terminal, Phase
    <2>6. TargetsDefined' = TargetsDefined
      BY <1>3, <2>1, <2>3 DEF TargetsDefined, Journalled, OthersStay
    <2> QED BY <1>3, <2>1, <2>3, <2>5, <2>6
  <1> QED BY <1>3, <1>5, <1>6, OneThread DEF JInv

-----------------------------------------------------------------------------
(***************************************************************************)
(* The order in which TransitionPhase declares phases, value by value.     *)
(***************************************************************************)
LEMMA Ranks ==
    /\ Rank("validated") = 1 /\ Rank("planned") = 2 /\ Rank("stopping") = 3
    /\ Rank("starting") = 4 /\ Rank("awaiting_readiness") = 5 /\ Rank("committing") = 6
    /\ Rank("succeeded") = 7 /\ Rank("recovering") = 8
    /\ \A ph \in Terminal : Rank(ph) = 7
  <1>1. \A ph \in Terminal : Rank(ph) = 7
    BY DEF Rank, Terminal
  <1>2. /\ Rank("validated") = 1 /\ Rank("planned") = 2 /\ Rank("stopping") = 3
        /\ Rank("starting") = 4 /\ Rank("awaiting_readiness") = 5 /\ Rank("committing") = 6
        /\ Rank("recovering") = 8
    BY DEF Rank, Terminal
  <1> QED BY <1>1, <1>2 DEF Terminal

(***************************************************************************)
(* The record a thread is about to append continues the transition's last  *)
(* one, and is what the thread's next location expects.                    *)
(***************************************************************************)
LEMMA Continues ==
    ASSUME NEW t \in Transition, InStep(t), AtRecord(t)
    PROVE  /\ ValidProgress(journal.phase[t], Recording(t)[1])
           /\ Recording(t)[1] \in Before(Recording(t)[2])
           /\ Recording(t)[1] \in Phase
           /\ Recording(t)[1] # "none"
           /\ Recording(t)[2] \notin {"none", "rec_terminal"}
  <1>1. CASE pc[t] = "rec_validated"
    <2>1. Recording(t)[1] = "validated" /\ Recording(t)[2] \in {"rec_planned"}
      BY <1>1 DEF Recording
    <2>2. journal.phase[t] \in {"none"}
      BY <1>1 DEF InStep, Before
    <2>3. ValidProgress(journal.phase[t], "validated")
      BY <2>2, Ranks DEF ValidProgress, Terminal
    <2>4. "validated" \in Before(Recording(t)[2]) /\ "validated" \in Phase
      BY <2>1 DEF Before, Phase, Terminal
    <2> QED BY <2>1, <2>3, <2>4
  <1>2. CASE pc[t] = "rec_planned"
    <2>1. Recording(t)[1] = "planned" /\ Recording(t)[2] \in {"accepted"}
      BY <1>2 DEF Recording
    <2>2. journal.phase[t] \in {"validated"}
      BY <1>2 DEF InStep, Before
    <2>3. ValidProgress(journal.phase[t], "planned")
      BY <2>2, Ranks DEF ValidProgress, Terminal
    <2>4. "planned" \in Before(Recording(t)[2]) /\ "planned" \in Phase
      BY <2>1 DEF Before, Phase, Terminal
    <2> QED BY <2>1, <2>3, <2>4
  <1>3. CASE pc[t] = "rec_stopping"
    <2>1. Recording(t)[1] = "stopping" /\ Recording(t)[2] \in {"stop"}
      BY <1>3 DEF Recording
    <2>2. journal.phase[t] \in {"planned"}
      BY <1>3 DEF InStep, Before
    <2>3. ValidProgress(journal.phase[t], "stopping")
      BY <2>2, Ranks DEF ValidProgress, Terminal
    <2>4. "stopping" \in Before(Recording(t)[2]) /\ "stopping" \in Phase
      BY <2>1 DEF Before, Phase, Terminal
    <2> QED BY <2>1, <2>3, <2>4
  <1>4. CASE pc[t] = "rec_starting"
    <2>1. Recording(t)[1] = "starting" /\ Recording(t)[2] \in {"start", "rec_awaiting"}
      BY <1>4 DEF Recording
    <2>2. journal.phase[t] \in {"planned", "stopping"}
      BY <1>4 DEF InStep, Before
    <2>3. ValidProgress(journal.phase[t], "starting")
      BY <2>2, Ranks DEF ValidProgress, Terminal
    <2>4. "starting" \in Before(Recording(t)[2]) /\ "starting" \in Phase
      BY <2>1 DEF Before, Phase, Terminal
    <2> QED BY <2>1, <2>3, <2>4
  <1>5. CASE pc[t] = "rec_awaiting"
    <2>1. Recording(t)[1] = "awaiting_readiness" /\ Recording(t)[2] \in {"start"}
      BY <1>5 DEF Recording
    <2>2. journal.phase[t] \in {"starting"}
      BY <1>5 DEF InStep, Before
    <2>3. ValidProgress(journal.phase[t], "awaiting_readiness")
      BY <2>2, Ranks DEF ValidProgress, Terminal
    <2>4. "awaiting_readiness" \in Before(Recording(t)[2]) /\ "awaiting_readiness" \in Phase
      BY <2>1 DEF Before, Phase, Terminal
    <2> QED BY <2>1, <2>3, <2>4
  <1>6. CASE pc[t] = "rec_committing"
    <2>1. Recording(t)[1] = "committing" /\ Recording(t)[2] \in {"commit"}
      BY <1>6 DEF Recording
    <2>2. journal.phase[t] \in {"planned", "stopping", "starting", "awaiting_readiness"}
      BY <1>6 DEF InStep, Before
    <2>3. ValidProgress(journal.phase[t], "committing")
      BY <2>2, Ranks DEF ValidProgress, Terminal
    <2>4. "committing" \in Before(Recording(t)[2]) /\ "committing" \in Phase
      BY <2>1 DEF Before, Phase, Terminal
    <2> QED BY <2>1, <2>3, <2>4
  <1>7. CASE pc[t] = "rec_succeeded"
    <2>1. Recording(t)[1] = "succeeded" /\ Recording(t)[2] \in {"done"}
      BY <1>7 DEF Recording
    <2>2. journal.phase[t] \in {"committing"}
      BY <1>7 DEF InStep, Before
    <2>3. ValidProgress(journal.phase[t], "succeeded")
      BY <2>2, Ranks DEF ValidProgress, Terminal
    <2>4. "succeeded" \in Before(Recording(t)[2]) /\ "succeeded" \in Phase
      BY <2>1 DEF Before, Phase, Terminal
    <2> QED BY <2>1, <2>3, <2>4
  <1>8. CASE pc[t] = "rec_recovering"
    <2>1. Recording(t)[1] = "recovering" /\ Recording(t)[2] \in {"plan_recovery"}
      BY <1>8 DEF Recording
    <2>2. journal.phase[t] \in {"stopping", "starting", "awaiting_readiness"}
      BY <1>8 DEF InStep, Before
    <2>3. ValidProgress(journal.phase[t], "recovering")
      BY <2>2, Ranks DEF ValidProgress, Terminal
    <2>4. "recovering" \in Before(Recording(t)[2]) /\ "recovering" \in Phase
      BY <2>1 DEF Before, Phase, Terminal
    <2> QED BY <2>1, <2>3, <2>4
  <1>9. CASE pc[t] = "rec_terminal"
    <2>1. Recording(t)[1] = outcome[t] /\ Recording(t)[2] = "done"
      BY <1>9 DEF Recording
    <2>2. /\ outcome[t] \in Terminal
          /\ journal.phase[t] = "recovering" => outcome[t] \in {"failed", "recovery_failed"}
          /\ journal.phase[t] \in {"none", "planned", "stopping", "starting", "awaiting_readiness",
                                  "recovering"}
      BY <1>9 DEF InStep, Before
    <2>3. ValidProgress(journal.phase[t], outcome[t])
      <3>1. Rank(outcome[t]) = 7
        BY <2>2, Ranks
      <3> QED BY <2>2, <3>1, Ranks DEF ValidProgress, Terminal
    <2>4. outcome[t] \in Phase /\ outcome[t] # "none"
      BY <2>2 DEF Phase, Terminal
    <2>5. outcome[t] \in Before("done")
      BY <2>4 DEF Before
    <2> QED BY <2>1, <2>3, <2>4, <2>5
  <1> QED BY <1>1, <1>2, <1>3, <1>4, <1>5, <1>6, <1>7, <1>8, <1>9 DEF AtRecord

(***************************************************************************)
(* A record: the journal stays valid and the phase is published.           *)
(***************************************************************************)
LEMMA RecordInStep ==
    ASSUME IInv, JInv, NEW t \in Transition, Record(t), UNCHANGED setup
    PROVE  JInv'
  <1> DEFINE written == Recording(t)[1]
             next == Recording(t)[2]
  <1>1. /\ up /\ AtRecord(t) /\ UNCHANGED <<up, plan, outcome, faults>>
        /\ journal' = Replay(journal, t, written)
        /\ phase' = [phase EXCEPT ![t] = written]
        /\ pc' = [pc EXCEPT ![t] = next]
    BY DEF Record, Goto
  <1>2. AppendsSucceed' = AppendsSucceed
    BY <1>1 DEF AppendsSucceed, FaultBudget
  <1>3. ASSUME AppendsSucceed
        PROVE  /\ journal'.valid <=> TargetsDefined'
               /\ DOMAIN phase' = Transition /\ DOMAIN journal'.phase = Transition
               /\ OthersStay(t) /\ InStep(t)'
    <2>1. /\ journal.valid <=> TargetsDefined
          /\ DOMAIN phase = Transition /\ DOMAIN journal.phase = Transition
          /\ InStep(t)
      BY <1>3 DEF JInv
    <2>2. /\ ValidProgress(journal.phase[t], written) /\ written \in Before(next)
          /\ written \in Phase \ {"none"} /\ next \notin {"none", "rec_terminal"}
      BY <1>1, <2>1, Continues
    <2> HIDE DEF written, next
    <2>4. /\ journal'.phase = [journal.phase EXCEPT ![t] = written]
          /\ journal'.valid <=> /\ journal.valid
                               /\ plan[t].target \in ModesOf[plan[t].domain]
                               /\ ValidProgress(journal.phase[t], written)
      BY <1>1 DEF Replay
    <2>5. pc'[t] = next /\ phase'[t] = written /\ journal'.phase[t] = written
      BY <1>1, <2>1, <2>4 DEF IInv, Types
    <2>6. OthersStay(t)
      BY <1>1, <2>1, <2>4 DEF IInv, Types, OthersStay
    <2>7. InStep(t)'
      BY <1>1, <2>2, <2>5 DEF InStep
    <2>8. TargetsDefined' <=> TargetsDefined /\ plan[t].target \in ModesOf[plan[t].domain]
      <3>1. Journalled' = Journalled \cup {t}
        BY <2>2, <2>5, <2>6 DEF Journalled, OthersStay
      <3> QED BY <1>1, <3>1 DEF TargetsDefined
    <2> QED BY <1>1, <2>1, <2>2, <2>4, <2>6, <2>7, <2>8
  <1> QED BY <1>1, <1>2, <1>3, OneThread

(***************************************************************************)
(* After an error the journal is not spoken of any more.                   *)
(***************************************************************************)
LEMMA RecordFailsInStep ==
    ASSUME IInv, JInv, NEW t \in Transition, NEW in_file \in BOOLEAN, RecordFails(t, in_file),
           UNCHANGED setup
    PROVE  JInv'
  <1>1. up /\ UNCHANGED up /\ faults.journal > 0 /\ faults' = [faults EXCEPT !.journal = @ - 1]
    BY DEF RecordFails
  <1>2. faults'.journal < FaultBudget.journal
    BY <1>1, EngineAssumption DEF IInv, Types, FaultType, FaultBudget
  <1>3. ~AppendsSucceed'
    BY <1>2, EngineAssumption DEF AppendsSucceed, FaultBudget, IInv, Types
  <1> QED BY <1>1, <1>3 DEF JInv

-----------------------------------------------------------------------------
(***************************************************************************)
(* A thread that fails, is cancelled or expires.                           *)
(***************************************************************************)
LEMMA FailInStep ==
    ASSUME IInv, JInv, NEW t \in Transition, NEW terminal \in Terminal, up,
           UNCHANGED <<up, journal, phase, plan, setup>>, faults'.journal = faults.journal,
           Fail(t, terminal),
           \/ pc[t] \in {"acquire", "stop", "stopping", "start", "starting"}
           \/ pc[t] \in {"plan_recovery", "recover"} /\ terminal \in {"failed", "recovery_failed"}
    PROVE  JInv'
  <1>1. /\ Goto(t, "rec_terminal") /\ outcome'[t] = terminal
        /\ \A s \in Transition \ {t} : outcome'[s] = outcome[s]
    BY DEF Fail, IInv, Types
  <1>2. Before(pc[t]) \subseteq Before("rec_terminal")
    BY DEF Before
  <1> QED BY <1>1, <1>2, UnrecordedMove

(***************************************************************************)
(* A thread that goes on.                                                  *)
(***************************************************************************)
LEMMA GotoInStep ==
    ASSUME IInv, JInv, NEW t \in Transition, NEW location, up,
           UNCHANGED <<up, journal, phase, plan, outcome, setup>>, faults'.journal = faults.journal,
           Goto(t, location),
           \/ pc[t] = "accepted" /\ location = "acquire"
           \/ pc[t] = "acquire" /\ location \in {"rec_stopping", "rec_starting", "rec_committing"}
           \/ pc[t] = "stop" /\ location = "stopping"
           \/ pc[t] = "start" /\ location = "starting"
           \/ pc[t] = "stopping" /\ location \in {"stop", "rec_starting", "rec_committing",
                                                "rec_recovering"}
           \/ pc[t] = "starting" /\ location \in {"start", "rec_committing", "rec_recovering"}
           \/ pc[t] = "commit" /\ location = "rec_succeeded"
           \/ pc[t] = "plan_recovery" /\ location = "recover"
    PROVE  JInv'
  <1>1. Before(pc[t]) \subseteq Before(location)
    BY DEF Before
  <1>2. \A s \in Transition \ {t} : outcome'[s] = outcome[s]
    OBVIOUS
  <1> QED BY <1>1, <1>2, UnrecordedMove

(***************************************************************************)
(* The steps of a thread between its records.                              *)
(***************************************************************************)
LEMMA UnitStepInStep ==
    ASSUME IInv, JInv, NEW t \in Transition, UNCHANGED setup,
           \/ Execute(t) \/ Acquire(t) \/ AcquireExpires(t) \/ ObserveCancel(t) \/ NextUnit(t)
           \/ Commit(t)
           \/ \E u \in Unit : StopUnit(t, u) \/ StartUnit(t, u) \/ UnitFails(t, u)
    PROVE  JInv'
  <1>0. {"failed", "superseded", "deadline_exceeded", "cancelled"} \subseteq Terminal
    BY DEF Terminal
  <1>1. CASE Execute(t)
    BY <1>1, GotoInStep DEF Execute, memory
  <1>2. CASE Acquire(t)
    <2>1. /\ up /\ UNCHANGED <<up, journal, phase, plan, setup>> /\ faults'.journal = faults.journal
          /\ pc[t] = "acquire"
      BY <1>2 DEF Acquire, memory
    <2>2. CASE \E terminal \in {"failed", "superseded"} : Fail(t, terminal)
      BY <1>0, <2>1, <2>2, FailInStep
    <2>3. CASE Goto(t, IF plan[t].stop # {} THEN "rec_stopping" ELSE AfterStops(plan[t])) /\ UNCHANGED outcome
      BY <2>1, <2>3, GotoInStep DEF AfterStops
    <2> QED BY <1>2, <2>2, <2>3 DEF Acquire
  <1>3. CASE AcquireExpires(t)
    BY <1>0, <1>3, FailInStep DEF AcquireExpires, memory
  <1>4. CASE ObserveCancel(t)
    BY <1>0, <1>4, FailInStep DEF ObserveCancel, memory
  <1>5. CASE NextUnit(t)
    BY <1>5, GotoInStep DEF NextUnit, memory
  <1>6. CASE Commit(t)
    BY <1>6, GotoInStep DEF Commit
  <1>7. ASSUME NEW u \in Unit, StopUnit(t, u) PROVE JInv'
    BY <1>7, GotoInStep DEF StopUnit, AfterStops
  <1>8. ASSUME NEW u \in Unit, StartUnit(t, u) PROVE JInv'
    BY <1>8, GotoInStep DEF StartUnit
  <1>9. ASSUME NEW u \in Unit, UnitFails(t, u) PROVE JInv'
    <2>1. /\ up /\ UNCHANGED <<up, journal, phase, plan, setup>>
          /\ pc[t] \in {"stopping", "starting"} /\ faults'.journal = faults.journal
      BY <1>9 DEF UnitFails, memory, IInv, Types, FaultType
    <2>2. CASE \E terminal \in {"failed", "deadline_exceeded"} : Fail(t, terminal)
      BY <1>0, <2>1, <2>2, FailInStep
    <2>3. CASE Goto(t, "rec_recovering") /\ UNCHANGED outcome
      BY <2>1, <2>3, GotoInStep
    <2> QED BY <1>9, <2>2, <2>3 DEF UnitFails, Recover
  <1> QED BY <1>1, <1>2, <1>3, <1>4, <1>5, <1>6, <1>7, <1>8, <1>9

(***************************************************************************)
(* The steps of a recovery.                                                *)
(***************************************************************************)
LEMMA RecoveryInStep ==
    ASSUME IInv, JInv, NEW t \in Transition, UNCHANGED setup,
           \/ PlanRecovery(t) \/ RecoverDone(t)
           \/ \E u \in Unit : RecoverStop(t, u) \/ RecoverStart(t, u) \/ RecoverUnitFails(t, u)
    PROVE  JInv'
  <1>0. {"failed", "recovery_failed"} \subseteq Terminal
    BY DEF Terminal
  <1>1. CASE PlanRecovery(t)
    <2>1. /\ up /\ UNCHANGED <<up, journal, phase, plan, setup>> /\ faults'.journal = faults.journal
          /\ pc[t] = "plan_recovery"
      BY <1>1 DEF PlanRecovery, memory
    <2>2. CASE \E terminal \in {"failed", "recovery_failed"} : Fail(t, terminal)
      BY <1>0, <2>1, <2>2, FailInStep
    <2>3. CASE Goto(t, "recover") /\ UNCHANGED outcome
      BY <2>1, <2>3, GotoInStep
    <2> QED BY <1>1, <2>2, <2>3 DEF PlanRecovery
  <1>2. CASE RecoverDone(t)
    BY <1>0, <1>2, FailInStep DEF RecoverDone
  <1>3. ASSUME NEW u \in Unit, RecoverStop(t, u) \/ RecoverStart(t, u) PROVE JInv'
    BY <1>3, UnrecordedStill DEF RecoverStop, RecoverStart
  <1>4. ASSUME NEW u \in Unit, RecoverUnitFails(t, u) PROVE JInv'
    <2>1. /\ up /\ UNCHANGED <<up, journal, phase, plan, setup>> /\ faults'.journal = faults.journal
          /\ pc[t] = "recover" /\ Fail(t, "recovery_failed")
      BY <1>4 DEF RecoverUnitFails, memory, IInv, Types, FaultType
    <2> QED BY <1>0, <2>1, FailInStep
  <1> QED BY <1>1, <1>2, <1>3, <1>4

(***************************************************************************)
(* A crash leaves the journalled phases; a restart adds a failure for each *)
(* interrupted transition.                                                 *)
(***************************************************************************)
LEMMA DaemonInStep ==
    ASSUME IInv, JInv, Daemon, UNCHANGED setup
    PROVE  JInv'
  <1>1. CASE Crash
    <2>1. /\ faults' = [faults EXCEPT !.crash = @ - 1] /\ UNCHANGED journal
          /\ phase' = journal.phase
          /\ pc' = [t \in Transition |-> IF journal.phase[t] = "none" THEN "none" ELSE "done"]
          /\ plan' = [t \in Transition |-> IF journal.phase[t] = "none" THEN NoPlan ELSE plan[t]]
      BY <1>1 DEF Crash
    <2>2. faults'.journal = faults.journal
      BY <2>1 DEF IInv, Types, FaultType
    <2>3. AppendsSucceed' = AppendsSucceed
      BY <2>2 DEF AppendsSucceed, FaultBudget
    <2>4. ASSUME AppendsSucceed, NEW t \in Transition PROVE InStep(t)'
      <3>1. journal.phase[t] \in Phase
        BY <2>4 DEF JInv, InStep
      <3>2. CASE journal.phase[t] = "none"
        BY <2>1, <3>1, <3>2 DEF InStep, Before
      <3>3. CASE journal.phase[t] # "none"
        BY <2>1, <3>1, <3>3 DEF InStep, Before
      <3> QED BY <3>2, <3>3
    <2>5. TargetsDefined' = TargetsDefined
      BY <2>1 DEF TargetsDefined, Journalled
    <2> QED BY <2>1, <2>3, <2>4, <2>5 DEF JInv
  <1>2. ASSUME NEW u \in Unit, UnitExits(u) \/ BecomesReady(u) \/ RestoreUnit(u) PROVE JInv'
    <2>1. /\ UNCHANGED <<up, journal, phase, plan, pc, outcome, setup>>
          /\ faults'.journal = faults.journal
      BY <1>2 DEF UnitExits, BecomesReady, RestoreUnit, memory, thread, IInv, Types, FaultType
    <2> QED BY <2>1, UnrecordedStill
  <1>3. CASE Restart
    <2>1. /\ ~up /\ journal.valid /\ up' = TRUE /\ UNCHANGED <<plan, pc, outcome, faults>>
          /\ phase' = [t \in Transition |-> IF t \in Interrupted THEN "failed" ELSE phase[t]]
          /\ journal' = [journal EXCEPT !.phase = phase']
      BY <1>3 DEF Restart, thread
    <2>2. journal'.phase = phase' /\ journal'.valid = journal.valid
      BY <2>1 DEF IInv, Types
    <2>3. AppendsSucceed' = AppendsSucceed
      BY <2>1 DEF AppendsSucceed, FaultBudget
    <2>4. ASSUME AppendsSucceed, NEW t \in Transition PROVE InStep(t)'
      <3>1. InStep(t) /\ pc[t] \in {"none", "done"} /\ phase[t] = journal.phase[t]
        BY <2>1, <2>4 DEF JInv, InStep
      <3>2. CASE t \in Interrupted
        <4>1. journal.phase[t] # "none"
          BY <3>2 DEF Interrupted, Journalled
        <4>2. pc[t] = "done"
          BY <3>1, <4>1 DEF InStep, Before
        <4> QED BY <2>1, <2>2, <3>2, <4>2 DEF InStep, Before, Phase, Terminal
      <3>3. CASE t \notin Interrupted
        BY <2>1, <2>2, <3>1, <3>3 DEF InStep
      <3> QED BY <3>2, <3>3
    <2>5. ASSUME AppendsSucceed PROVE TargetsDefined' = TargetsDefined
      <3>1. \A t \in Transition : phase[t] = journal.phase[t]
        BY <2>1, <2>5 DEF JInv, InStep
      <3>2. Journalled' = Journalled
        BY <2>1, <2>2, <3>1 DEF Journalled, Interrupted
      <3> QED BY <2>1, <3>2 DEF TargetsDefined
    <2> QED BY <2>1, <2>2, <2>3, <2>4, <2>5 DEF JInv
  <1> QED BY <1>1, <1>2, <1>3 DEF Daemon

-----------------------------------------------------------------------------
(***************************************************************************)
(* Nothing is journalled at the start.                                     *)
(***************************************************************************)
LEMMA InitInStep == Init => JInv
  <1> SUFFICES ASSUME Init PROVE JInv
    OBVIOUS
  <1>1. /\ up /\ journal.valid /\ journal.phase = phase /\ phase = [t \in Transition |-> "none"]
        /\ pc = [t \in Transition |-> "none"]
    BY DEF Init
  <1>2. \A t \in Transition : InStep(t)
    BY <1>1 DEF InStep, Before, Phase
  <1>3. TargetsDefined
    BY <1>1 DEF TargetsDefined, Journalled
  <1> QED BY <1>1, <1>2, <1>3 DEF JInv

(***************************************************************************)
(* Every step keeps the phases and the journal in step.                    *)
(***************************************************************************)
LEMMA NextInStep ==
    ASSUME IInv, JInv, [Next /\ UNCHANGED setup]_<<vars, setup>>
    PROVE  JInv'
  <1>1. ASSUME NEW t \in Transition, NEW d \in Domain, NEW m \in Requested[d], AcceptMode(t, d, m),
               UNCHANGED setup
        PROVE  JInv'
    BY <1>1, AcceptInStep
  <1>2. ASSUME NEW t \in Transition, Execute(t) \/ Step(t), UNCHANGED setup
        PROVE  JInv'
    BY <1>2, RecordInStep, UnitStepInStep, RecoveryInStep DEF Step
  <1>3. ASSUME NEW t \in Transition, Cancel(t), UNCHANGED setup
        PROVE  JInv'
    BY <1>3, UnrecordedStill DEF Cancel, thread
  <1>4. ASSUME NEW t \in Transition, Fault(t), UNCHANGED setup
        PROVE  JInv'
    BY <1>4, RecordFailsInStep, UnitStepInStep, RecoveryInStep DEF Fault
  <1>5. ASSUME Daemon, UNCHANGED setup
        PROVE  JInv'
    BY <1>5, DaemonInStep
  <1>6. CASE UNCHANGED <<vars, setup>>
    BY <1>6, UnrecordedStill DEF vars, memory, thread
  <1> QED BY <1>1, <1>2, <1>3, <1>4, <1>5, <1>6 DEF Next

(***************************************************************************)
(* JournalFaithful holds, for any number of transitions, workers, crashes  *)
(* and backend errors and whatever modes are requested: as long as appends *)
(* succeed the journal can be replayed exactly when no request for an      *)
(* undefined mode was journalled, and agrees with the committed mode of    *)
(* every domain without a transition under way and with the phase of every *)
(* transition that is over.  It needs initial modes that satisfy the       *)
(* constraints.                                                            *)
(***************************************************************************)
THEOREM JournalStaysFaithful ==
    ASSUME ValidateConstraints(InitialMode)
    PROVE  Spec => []JournalFaithful
  <1>1. Init => IInv /\ JInv
    BY InitInv, InitInStep
  <1>2. IInv /\ JInv /\ [Next /\ UNCHANGED setup]_<<vars, setup>> => IInv' /\ JInv'
    BY NextInv, NextInStep
  <1>3. IInv /\ JInv => JournalFaithful
    <2> SUFFICES ASSUME IInv, JInv, AppendsSucceed PROVE JournalFaithful
      BY DEF JournalFaithful
    <2>1. \A d \in Domain : (\A t \in leased : plan[t].domain # d) =>
            journal.committed[d] = committed[d]
      BY DEF IInv, Recorded
    <2>2. \A t \in Transition : pc[t] = "done" => journal.phase[t] = phase[t]
      BY DEF JInv, InStep
    <2> QED BY <2>1, <2>2 DEF JournalFaithful, JInv
  <1> QED BY <1>1, <1>2, <1>3, PTL DEF Spec
=============================================================================
