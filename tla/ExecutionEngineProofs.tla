----------------------- MODULE ExecutionEngineProofs -----------------------
(***************************************************************************)
(* Proofs about the execution engine, for any execution model, any number  *)
(* of transitions and of workers, and any number of crashes, unit exits    *)
(* and backend errors.                                                     *)
(***************************************************************************)
EXTENDS ExecutionEngine, FiniteSetTheorems, TLAPS

RecoveryType == [Transition -> [mode : Mode \cup {NoMode}, stopped : SUBSET Unit, started : SUBSET Unit]]
FaultType == [{"crash", "exit", "backend", "journal"} -> Nat]

\* The part of the types the arguments below need.
Types ==
    /\ committed \in [Domain -> Mode]
    /\ journal.committed \in [Domain -> Mode]
    /\ DOMAIN journal = {"committed", "running", "phase", "valid"}
    /\ DOMAIN pc = Transition /\ DOMAIN plan = Transition /\ DOMAIN outcome = Transition
    /\ recovery \in RecoveryType
    /\ leased \subseteq Transition
    /\ setup \in Setups
    /\ faults \in FaultType
    /\ faults.crash <= FaultBudget.crash /\ faults.journal <= FaultBudget.journal

Known(t) == plan[t].domain \in Domain /\ plan[t].target \in Mode

\* Where a transition that was validated under its lease is on its way to commit.
OnItsWay == {"rec_stopping", "stop", "stopping", "rec_starting", "rec_awaiting", "start",
             "starting", "rec_committing", "commit"}
Holding == OnItsWay \cup {"rec_succeeded", "rec_recovering", "plan_recovery", "recover"}

Leases ==
    /\ \A t \in Transition : pc[t] \notin {"none", "done"} => Known(t)
    /\ \A t \in Transition : pc[t] \in Holding => t \in leased
    /\ \A t \in leased : pc[t] \in Holding \cup {"rec_terminal"}
    /\ \A t \in leased, s \in leased :
         s # t => GuardedDomains(plan[s].domain) \cap GuardedDomains(plan[t].domain) = {}

\* What a leased transition was validated for still holds when it commits.
Validated ==
    /\ ValidateConstraints(committed)
    /\ \A t \in Transition : pc[t] \in OnItsWay =>
         ValidateConstraints(Proposed(committed, plan[t].domain, plan[t].target))
    /\ \A t \in Transition :
         pc[t] = "recover" /\ RecoveryAction[plan[t].domain] = "enter_fallback_mode" =>
           ValidateConstraints(Proposed(committed, plan[t].domain, FallbackMode[plan[t].domain]))

\* A mode is committed and not yet in the journal.
Unrecorded(t) ==
    \/ pc[t] = "rec_succeeded"
    \/ pc[t] = "rec_terminal" /\ recovery[t].mode # NoMode

ModeToRecord(t) == IF pc[t] = "rec_succeeded" THEN plan[t].target ELSE recovery[t].mode

Recorded ==
    /\ ValidateConstraints(journal.committed)
    /\ \A d \in Domain : journal.committed[d] # committed[d] =>
         \E t \in leased : Unrecorded(t) /\ plan[t].domain = d
    /\ \A t \in Transition : Unrecorded(t) =>
         t \in leased /\ committed[plan[t].domain] = ModeToRecord(t)
    /\ \A t \in Transition : recovery[t].mode # NoMode => pc[t] \in {"rec_terminal", "done"}
    /\ \A t \in Transition : pc[t] = "rec_terminal" => outcome[t] # "succeeded"

\* The journal says what is committed, or nothing has had to be read back from it.
Trusted == AppendsSucceed \/ faults.crash = FaultBudget.crash

IInv ==
    /\ Types
    /\ Leases
    /\ Trusted => Validated
    /\ AppendsSucceed => Recorded

-----------------------------------------------------------------------------
(***************************************************************************)
(* Constraints are between domains of the model.                           *)
(***************************************************************************)
LEMMA ConstraintDomains ==
    ASSUME NEW k \in Constraint
    PROVE  k.domain \in Domain /\ k.other_domain \in Domain
  BY ModelAssumption DEF ValidModel, ConstraintType

(***************************************************************************)
(* GuardedDomains has both ends of every constraint a domain occurs in.    *)
(***************************************************************************)
LEMMA Guarded ==
    ASSUME NEW d \in Domain
    PROVE  /\ d \in GuardedDomains(d) /\ GuardedDomains(d) \subseteq Domain
           /\ \A k \in Constraint : d \in {k.domain, k.other_domain} =>
                k.domain \in GuardedDomains(d) /\ k.other_domain \in GuardedDomains(d)
  BY ConstraintDomains DEF GuardedDomains

(***************************************************************************)
(* Disjoint leases guard disjoint sets of domains.                         *)
(***************************************************************************)
LEMMA DisjointGuards ==
    ASSUME NEW p, NEW q, LeaseItems(p) \cap LeaseItems(q) = {}
    PROVE  GuardedDomains(p.domain) \cap GuardedDomains(q.domain) = {}
  <1> SUFFICES ASSUME NEW d \in GuardedDomains(p.domain), d \in GuardedDomains(q.domain)
               PROVE  FALSE
    OBVIOUS
  <1>1. <<"domain", d>> \in LeaseItems(p) /\ <<"domain", d>> \in LeaseItems(q)
    BY DEF LeaseItems
  <1> QED BY <1>1

(***************************************************************************)
(* Two changes that are valid by themselves are valid together when their  *)
(* domains guard disjoint sets: no constraint sees both.                   *)
(***************************************************************************)
LEMMA IndependentChanges ==
    ASSUME NEW modes \in [Domain -> Mode], NEW d \in Domain, NEW e \in Domain, NEW m, NEW n,
           GuardedDomains(d) \cap GuardedDomains(e) = {},
           ValidateConstraints(Proposed(modes, d, m)), ValidateConstraints(Proposed(modes, e, n))
    PROVE  ValidateConstraints(Proposed(Proposed(modes, e, n), d, m))
  <1> DEFINE one == Proposed(modes, d, m)
             other == Proposed(modes, e, n)
             both == Proposed(other, d, m)
  <1>1. d # e
    BY Guarded
  <1>2. \A x \in Domain : (x # e => both[x] = one[x]) /\ (x # d => both[x] = other[x])
    BY <1>1 DEF Proposed
  <1>3. ValidateConstraints(one) /\ ValidateConstraints(other)
    OBVIOUS
  <1> HIDE DEF one, other, both
  <1>4. ASSUME NEW k \in Constraint, both[k.domain] = k.mode
        PROVE  both[k.other_domain] = k.other_mode <=> k.kind = "requires_mode"
    <2>1. k.domain \in Domain /\ k.other_domain \in Domain
      BY ConstraintDomains
    <2>2. CASE d \in {k.domain, k.other_domain}
      <3>1. k.domain # e /\ k.other_domain # e
        BY <2>2, Guarded
      <3>2. both[k.domain] = one[k.domain] /\ both[k.other_domain] = one[k.other_domain]
        BY <1>2, <2>1, <3>1
      <3> QED BY <1>3, <1>4, <3>2 DEF ValidateConstraints
    <2>3. CASE d \notin {k.domain, k.other_domain}
      <3>1. both[k.domain] = other[k.domain] /\ both[k.other_domain] = other[k.other_domain]
        BY <1>2, <2>1, <2>3
      <3> QED BY <1>3, <1>4, <3>1 DEF ValidateConstraints
    <2> QED BY <2>2, <2>3
  <1>5. ValidateConstraints(both)
    BY <1>4 DEF ValidateConstraints
  <1> QED BY <1>5 DEF both, other

(***************************************************************************)
(* Writing one committed mode into the journal keeps it valid when it      *)
(* agrees with the committed modes on what that domain guards.             *)
(***************************************************************************)
LEMMA RecordedChange ==
    ASSUME NEW old \in [Domain -> Mode], NEW modes \in [Domain -> Mode], NEW d \in Domain,
           ValidateConstraints(old), ValidateConstraints(modes),
           \A e \in GuardedDomains(d) \ {d} : old[e] = modes[e]
    PROVE  ValidateConstraints([old EXCEPT ![d] = modes[d]])
  <1> DEFINE new == [old EXCEPT ![d] = modes[d]]
  <1>1. \A x \in Domain : /\ x # d => new[x] = old[x]
                          /\ x \in GuardedDomains(d) => new[x] = modes[x]
    OBVIOUS
  <1>2. ASSUME NEW k \in Constraint, new[k.domain] = k.mode
        PROVE  new[k.other_domain] = k.other_mode <=> k.kind = "requires_mode"
    <2>1. k.domain \in Domain /\ k.other_domain \in Domain
      BY ConstraintDomains
    <2>2. CASE d \in {k.domain, k.other_domain}
      <3>1. k.domain \in GuardedDomains(d) /\ k.other_domain \in GuardedDomains(d)
        BY <2>2, Guarded
      <3> QED BY <1>1, <1>2, <2>1, <3>1 DEF ValidateConstraints
    <2>3. CASE d \notin {k.domain, k.other_domain}
      BY <1>1, <1>2, <2>1, <2>3 DEF ValidateConstraints
    <2> QED BY <2>2, <2>3
  <1> HIDE DEF new
  <1>3. ValidateConstraints(new)
    BY <1>2 DEF ValidateConstraints
  <1> QED BY <1>3 DEF new

-----------------------------------------------------------------------------
(***************************************************************************)
(* The steps by what they leave alone.  Most commit nothing and record no  *)
(* mode; the thread of one transition goes from one location to another.   *)
(***************************************************************************)
Kept ==
    /\ UNCHANGED <<committed, plan, setup>>
    /\ journal'.committed \in [Domain -> Mode] /\ DOMAIN journal' = DOMAIN journal
    /\ AppendsSucceed => journal'.committed = journal.committed
    /\ recovery' \in RecoveryType
    /\ \A s \in Transition : recovery'[s].mode = recovery[s].mode
    /\ faults' \in FaultType /\ faults'.crash = faults.crash /\ faults'.journal = faults.journal

Moves(t, location) ==
    /\ Kept
    /\ UNCHANGED leased
    /\ Goto(t, location)
    /\ DOMAIN outcome' = Transition
    /\ \A s \in Transition \ {t} : outcome'[s] = outcome[s]

FallbackValid(t) ==
    RecoveryAction[plan[t].domain] = "enter_fallback_mode" =>
        ValidateConstraints(Proposed(committed, plan[t].domain, FallbackMode[plan[t].domain]))

\* The moves that need no commit: nothing was unrecorded before, nothing is afterwards.
Allowed(t, location) ==
    /\ pc[t] \notin {"none", "rec_succeeded", "rec_terminal", "done"}
    /\ location \notin {"none", "rec_succeeded", "done"}
    /\ location \in OnItsWay => pc[t] \in OnItsWay
    /\ location \in Holding => t \in leased
    /\ t \in leased => location \in Holding \cup {"rec_terminal"}
    /\ location = "recover" /\ Trusted => FallbackValid(t)
    /\ location = "rec_terminal" => outcome'[t] # "succeeded"

(***************************************************************************)
(* Such a step is no failed append and no crash.                           *)
(***************************************************************************)
LEMMA KeptFaults ==
    ASSUME Kept
    PROVE  AppendsSucceed' = AppendsSucceed /\ Trusted' = Trusted
  BY DEF Kept, AppendsSucceed, Trusted, FaultBudget

(***************************************************************************)
(* What is unrecorded stays so when nothing is committed or recorded.      *)
(***************************************************************************)
LEMMA KeptRecorded ==
    ASSUME Types, Recorded, AppendsSucceed, Kept, UNCHANGED leased,
           \A s \in Transition : /\ Unrecorded(s)' <=> Unrecorded(s)
                                 /\ Unrecorded(s) => ModeToRecord(s)' = ModeToRecord(s),
           \A s \in Transition : /\ recovery'[s].mode # NoMode => pc'[s] \in {"rec_terminal", "done"}
                                 /\ pc'[s] = "rec_terminal" => outcome'[s] # "succeeded"
    PROVE  Recorded'
  <1>1. journal'.committed = journal.committed /\ committed' = committed /\ plan' = plan
    BY DEF Kept
  <1>2. ValidateConstraints(journal'.committed)
    BY <1>1 DEF Recorded
  <1>3. ASSUME NEW d \in Domain, journal'.committed[d] # committed'[d]
        PROVE  \E t \in leased' : Unrecorded(t)' /\ plan'[t].domain = d
    <2>1. PICK t \in leased : Unrecorded(t) /\ plan[t].domain = d
      BY <1>1, <1>3 DEF Recorded
    <2>2. t \in leased' /\ Unrecorded(t)' /\ plan'[t].domain = d
      BY <1>1, <2>1 DEF Types
    <2> QED BY <2>2
  <1>4. \A t \in Transition : Unrecorded(t)' =>
          t \in leased' /\ committed'[plan'[t].domain] = ModeToRecord(t)'
    BY <1>1 DEF Recorded
  <1> QED BY <1>2, <1>3, <1>4 DEF Recorded

(***************************************************************************)
(* A step that only touches units, flags and faults of other kinds.        *)
(***************************************************************************)
LEMMA KeptPreserves ==
    ASSUME IInv, Kept, UNCHANGED <<pc, outcome, leased>>
    PROVE  IInv'
  <1>1. Types'
    BY DEF IInv, Types, Kept, FaultBudget
  <1>2. Leases'
    BY DEF IInv, Leases, Known, Kept
  <1>3. Validated => Validated'
    BY DEF Validated, Kept, RecoveryAction
  <1>4. AppendsSucceed /\ Recorded => Recorded'
    <2> SUFFICES ASSUME AppendsSucceed, Recorded PROVE Recorded'
      OBVIOUS
    <2>1. \A s \in Transition : /\ Unrecorded(s)' <=> Unrecorded(s)
                                /\ ModeToRecord(s)' = ModeToRecord(s)
      BY DEF Unrecorded, ModeToRecord, Kept
    <2>2. \A s \in Transition : /\ recovery'[s].mode # NoMode => pc'[s] \in {"rec_terminal", "done"}
                                /\ pc'[s] = "rec_terminal" => outcome'[s] # "succeeded"
      BY DEF Recorded, Kept
    <2> QED BY <2>1, <2>2, KeptRecorded DEF IInv
  <1> QED BY <1>1, <1>2, <1>3, <1>4, KeptFaults DEF IInv

(***************************************************************************)
(* An allowed move keeps the invariant.                                    *)
(***************************************************************************)
LEMMA MovePreserves ==
    ASSUME IInv, NEW t \in Transition, NEW location, Moves(t, location), Allowed(t, location)
    PROVE  IInv'
  <1> USE DEF Moves, Goto
  <1>0. /\ \A s \in Transition : pc'[s] = IF s = t THEN location ELSE pc[s]
        /\ DOMAIN pc' = Transition
    BY DEF IInv, Types
  <1>1. Types'
    BY <1>0 DEF IInv, Types, Kept, FaultBudget
  <1>2. Leases'
    BY <1>0 DEF IInv, Types, Leases, Known, Kept, Allowed
  <1>3. Trusted /\ Validated => Validated'
    BY <1>0 DEF Validated, Kept, Allowed, FallbackValid, RecoveryAction
  <1>4. ASSUME AppendsSucceed, Recorded PROVE Recorded'
    <2>1. recovery[t].mode = NoMode /\ ~Unrecorded(t) /\ ~Unrecorded(t)'
      BY <1>0, <1>4 DEF Recorded, Unrecorded, Kept, Allowed
    <2>2. \A s \in Transition : /\ recovery'[s].mode # NoMode => pc'[s] \in {"rec_terminal", "done"}
                                /\ pc'[s] = "rec_terminal" => outcome'[s] # "succeeded"
      BY <1>0, <1>4, <2>1 DEF Recorded, Kept, Allowed
    <2>3. \A s \in Transition : /\ Unrecorded(s)' <=> Unrecorded(s)
                                /\ Unrecorded(s) => ModeToRecord(s)' = ModeToRecord(s)
      BY <1>0, <2>1 DEF Unrecorded, ModeToRecord, Kept
    <2>4. Types /\ Kept /\ UNCHANGED leased
      BY DEF IInv
    <2> QED BY <1>4, <2>2, <2>3, <2>4, KeptRecorded
  <1> QED BY <1>1, <1>2, <1>3, <1>4, KeptFaults DEF IInv

-----------------------------------------------------------------------------
(***************************************************************************)
(* Accepting a request touches no transition that holds a lease.           *)
(***************************************************************************)
LEMMA AcceptPreserves ==
    ASSUME IInv, NEW t \in Transition, NEW d \in Domain, NEW target \in Requested[d],
           AcceptMode(t, d, target), UNCHANGED setup
    PROVE  IInv'
  <1>1. pc[t] = "none"
    <2>1. Transition = 1 .. Cardinality(Transition) /\ Cardinality(Transition) \in Nat
      BY EngineAssumption, FS_CardinalityType
    <2>2. t >= t
      BY <2>1
    <2> QED BY <2>2 DEF AcceptMode, AcceptModeFrom, NextTransition
  <1>2. t \notin leased
    BY <1>1 DEF IInv, Leases, Holding, OnItsWay
  <1>3. PICK location \in {"rec_validated", "rec_terminal"} :
          /\ pc' = [pc EXCEPT ![t] = location]
          /\ location = "rec_terminal" => outcome' = [outcome EXCEPT ![t] = "failed"]
          /\ location = "rec_validated" => outcome' = outcome
    BY DEF AcceptMode, AcceptModeFrom, Goto, Fail
  <1>4. /\ UNCHANGED <<committed, leased, recovery, journal, faults, setup>>
        /\ DOMAIN plan' = Transition
        /\ \A s \in Transition \ {t} : plan'[s] = plan[s]
        /\ plan'[t].domain = d /\ plan'[t].target = target
    <2>1. UNCHANGED <<committed, leased, recovery, journal, faults, setup>>
      BY DEF AcceptMode, AcceptModeFrom
    <2>2. PICK p : plan' = [plan EXCEPT ![t] = p] /\ p.domain = d /\ p.target = target
      <3>1. CASE plan' = [plan EXCEPT ![t] = BuildPlan(Configuration, d, target)]
        <4>1. /\ BuildPlan(Configuration, d, target).domain = d
              /\ BuildPlan(Configuration, d, target).target = target
          BY DEF BuildPlan
        <4> QED BY <3>1, <4>1
      <3>2. CASE plan' = [plan EXCEPT ![t] = [domain |-> d, source |-> Configuration.committed[d],
                                              target |-> target, start |-> {}, stop |-> {}]]
        <4> DEFINE p == [domain |-> d, source |-> Configuration.committed[d],
                         target |-> target, start |-> {}, stop |-> {}]
        <4>1. plan' = [plan EXCEPT ![t] = p] /\ p.domain = d /\ p.target = target
          BY <3>2
        <4> HIDE DEF p
        <4> QED BY <4>1
      <3> QED BY <3>1, <3>2 DEF AcceptMode, AcceptModeFrom
    <2> QED BY <2>1, <2>2 DEF IInv, Types
  <1>5. /\ \A s \in Transition : pc'[s] = IF s = t THEN location ELSE pc[s]
        /\ DOMAIN pc' = Transition /\ DOMAIN outcome' = Transition
        /\ \A s \in Transition \ {t} : outcome'[s] = outcome[s]
        /\ location = "rec_terminal" => outcome'[t] = "failed"
    BY <1>3 DEF IInv, Types
  <1>6. Types'
    BY <1>4, <1>5 DEF IInv, Types, FaultBudget
  <1>7. Leases'
    <2>1. target \in Mode
      BY EngineAssumption
    <2>2. \A s \in Transition : pc'[s] \notin {"none", "done"} => Known(s)'
      BY <1>4, <1>5, <2>1 DEF IInv, Leases, Known
    <2>3. \A s \in Transition : pc'[s] \in Holding => s \in leased'
      BY <1>4, <1>5 DEF IInv, Leases, Holding, OnItsWay
    <2>4. \A s \in leased' : pc'[s] \in Holding \cup {"rec_terminal"}
      BY <1>2, <1>4, <1>5 DEF IInv, Leases, Types
    <2>5. \A r \in leased', s \in leased' :
            s # r => GuardedDomains(plan'[s].domain) \cap GuardedDomains(plan'[r].domain) = {}
      BY <1>2, <1>4 DEF IInv, Leases, Types
    <2> QED BY <2>2, <2>3, <2>4, <2>5 DEF Leases
  <1>8. Validated => Validated'
    BY <1>4, <1>5 DEF Validated, OnItsWay, RecoveryAction
  <1>9. ASSUME Recorded PROVE Recorded'
    <2>1. recovery[t].mode = NoMode
      BY <1>1, <1>9 DEF Recorded
    <2>2. \A s \in Transition : /\ Unrecorded(s)' <=> Unrecorded(s)
                                /\ Unrecorded(s) => s # t /\ ModeToRecord(s)' = ModeToRecord(s)
      BY <1>1, <1>4, <1>5, <2>1 DEF Unrecorded, ModeToRecord
    <2>3. \A e \in Domain : journal'.committed[e] # committed'[e] =>
            \E s \in leased' : Unrecorded(s)' /\ plan'[s].domain = e
      BY <1>2, <1>4, <1>9, <2>2 DEF Recorded, IInv, Types
    <2>4. \A s \in Transition : Unrecorded(s)' =>
            s \in leased' /\ committed'[plan'[s].domain] = ModeToRecord(s)'
      <3> SUFFICES ASSUME NEW s \in Transition, Unrecorded(s)'
                   PROVE  s \in leased' /\ committed'[plan'[s].domain] = ModeToRecord(s)'
        OBVIOUS
      <3>1. Unrecorded(s) /\ s # t /\ ModeToRecord(s)' = ModeToRecord(s)
        BY <2>2
      <3>2. s \in leased /\ committed[plan[s].domain] = ModeToRecord(s)
        BY <1>9, <3>1 DEF Recorded
      <3>3. leased' = leased /\ committed' = committed /\ plan'[s] = plan[s]
        BY <1>4, <3>1
      <3> QED BY <3>1, <3>2, <3>3
    <2>5. \A s \in Transition : /\ recovery'[s].mode # NoMode => pc'[s] \in {"rec_terminal", "done"}
                                /\ pc'[s] = "rec_terminal" => outcome'[s] # "succeeded"
      BY <1>4, <1>5, <1>9, <2>1 DEF Recorded
    <2>6. ValidateConstraints(journal'.committed)
      BY <1>4, <1>9 DEF Recorded
    <2> QED BY <2>3, <2>4, <2>5, <2>6 DEF Recorded
  <1>10. AppendsSucceed' = AppendsSucceed /\ Trusted' = Trusted
    BY <1>4 DEF AppendsSucceed, Trusted, FaultBudget
  <1> QED BY <1>6, <1>7, <1>8, <1>9, <1>10 DEF IInv

(***************************************************************************)
(* A granted lease guards none of the domains of the others, and planning  *)
(* again under it validates the target against what is committed now.      *)
(***************************************************************************)
LEMMA AcquirePreserves ==
    ASSUME IInv, NEW t \in Transition, Acquire(t), UNCHANGED setup
    PROVE  IInv'
  <1>1. pc[t] = "acquire" /\ t \notin leased
    BY DEF Acquire, IInv, Leases, Holding, OnItsWay
  <1>2. /\ UNCHANGED <<committed, plan, recovery, journal, faults, setup>>
        /\ leased' = leased \cup {t}
    BY DEF Acquire, memory
  <1>3. PICK location \in OnItsWay \cup {"rec_terminal"} :
          /\ pc' = [pc EXCEPT ![t] = location]
          /\ location \in OnItsWay =>
                ValidateConstraints(Proposed(committed, plan[t].domain, plan[t].target))
          /\ location = "rec_terminal" => \E terminal \in {"failed", "superseded"} :
                                             outcome' = [outcome EXCEPT ![t] = terminal]
          /\ location # "rec_terminal" => outcome' = outcome
    BY DEF Acquire, Goto, Fail, AfterStops, OnItsWay, Plannable, Configuration
  <1>4. /\ \A s \in Transition : pc'[s] = IF s = t THEN location ELSE pc[s]
        /\ DOMAIN pc' = Transition /\ DOMAIN outcome' = Transition
        /\ \A s \in Transition \ {t} : outcome'[s] = outcome[s]
        /\ location = "rec_terminal" => outcome'[t] # "succeeded"
    BY <1>3 DEF IInv, Types
  <1>5. Types'
    BY <1>2, <1>4 DEF IInv, Types, FaultBudget
  <1>6. Leases'
    <2>1. \A s \in leased : GuardedDomains(plan[s].domain) \cap GuardedDomains(plan[t].domain) = {}
      BY DisjointGuards DEF Acquire, LeaseFree
    <2>2. \A r \in leased', s \in leased' :
            s # r => GuardedDomains(plan'[s].domain) \cap GuardedDomains(plan'[r].domain) = {}
      BY <1>2, <2>1 DEF IInv, Leases
    <2>3. \A s \in Transition : pc'[s] \notin {"none", "done"} => Known(s)'
      BY <1>1, <1>2, <1>4 DEF IInv, Leases, Known
    <2>4. \A s \in Transition : pc'[s] \in Holding => s \in leased'
      BY <1>2, <1>4 DEF IInv, Leases
    <2>5. \A s \in leased' : pc'[s] \in Holding \cup {"rec_terminal"}
      BY <1>1, <1>2, <1>4 DEF IInv, Leases, Types, Holding
    <2> QED BY <2>2, <2>3, <2>4, <2>5 DEF Leases
  <1>7. Validated => Validated'
    BY <1>2, <1>3, <1>4 DEF Validated, OnItsWay, RecoveryAction
  <1>8. ASSUME Recorded PROVE Recorded'
    <2>1. recovery[t].mode = NoMode
      BY <1>1, <1>8 DEF Recorded
    <2>2. \A s \in Transition : /\ Unrecorded(s)' <=> Unrecorded(s)
                                /\ Unrecorded(s) => s # t /\ ModeToRecord(s)' = ModeToRecord(s)
      BY <1>1, <1>2, <1>4, <2>1 DEF Unrecorded, ModeToRecord, OnItsWay
    <2>3. \A e \in Domain : journal'.committed[e] # committed'[e] =>
            \E s \in leased' : Unrecorded(s)' /\ plan'[s].domain = e
      BY <1>2, <1>8, <2>2 DEF Recorded, IInv, Types
    <2>4. \A s \in Transition : Unrecorded(s)' =>
            s \in leased' /\ committed'[plan'[s].domain] = ModeToRecord(s)'
      BY <1>2, <1>8, <2>2 DEF Recorded
    <2>5. \A s \in Transition : /\ recovery'[s].mode # NoMode => pc'[s] \in {"rec_terminal", "done"}
                                /\ pc'[s] = "rec_terminal" => outcome'[s] # "succeeded"
      BY <1>2, <1>4, <1>8, <2>1 DEF Recorded
    <2>6. ValidateConstraints(journal'.committed)
      BY <1>2, <1>8 DEF Recorded
    <2> QED BY <2>3, <2>4, <2>5, <2>6 DEF Recorded
  <1>9. AppendsSucceed' = AppendsSucceed /\ Trusted' = Trusted
    BY <1>2 DEF AppendsSucceed, Trusted, FaultBudget
  <1> QED BY <1>5, <1>6, <1>7, <1>8, <1>9 DEF IInv

(***************************************************************************)
(* A commit under the lease: no constraint links its domain with one that  *)
(* another lease guards, so the other transitions stay validated and what  *)
(* they have not recorded stays committed.                                 *)
(***************************************************************************)
LEMMA CommitPreserves ==
    ASSUME IInv, NEW t \in Transition, NEW mode \in Mode, NEW location \in {"rec_succeeded", "rec_terminal"},
           pc[t] \in {"commit", "recover"},
           Trusted => ValidateConstraints(Proposed(committed, plan[t].domain, mode)),
           committed' = Proposed(committed, plan[t].domain, mode),
           UNCHANGED <<plan, leased, journal, faults, setup>>,
           Goto(t, location),
           recovery' \in RecoveryType,
           \A s \in Transition \ {t} : recovery'[s] = recovery[s],
           DOMAIN outcome' = Transition,
           \A s \in Transition \ {t} : outcome'[s] = outcome[s],
           location = "rec_terminal" => recovery'[t].mode = mode /\ outcome'[t] # "succeeded",
           location = "rec_succeeded" => recovery' = recovery /\ mode = plan[t].target
    PROVE  IInv'
  <1> DEFINE d == plan[t].domain
  <1>1. /\ \A s \in Transition : pc'[s] = IF s = t THEN location ELSE pc[s]
        /\ DOMAIN pc' = Transition
    BY DEF IInv, Types, Goto
  <1>2. d \in Domain /\ t \in leased /\ leased \subseteq Transition
    BY DEF IInv, Types, Leases, Known, Holding, OnItsWay
  <1>3. \A e \in Domain : committed'[e] = IF e = d THEN mode ELSE committed[e]
    BY <1>2 DEF Proposed, IInv, Types
  <1>4. \A s \in leased \ {t} : /\ GuardedDomains(plan[s].domain) \cap GuardedDomains(d) = {}
                                /\ plan[s].domain \in Domain /\ plan[s].domain # d
    <2> SUFFICES ASSUME NEW s \in leased \ {t}
                 PROVE  /\ GuardedDomains(plan[s].domain) \cap GuardedDomains(d) = {}
                        /\ plan[s].domain \in Domain /\ plan[s].domain # d
      OBVIOUS
    <2>1. GuardedDomains(plan[s].domain) \cap GuardedDomains(d) = {}
      BY <1>2 DEF IInv, Leases
    <2>2. plan[s].domain \in Domain
      BY <1>2 DEF IInv, Leases, Known, Holding, OnItsWay
    <2>3. d \in GuardedDomains(d)
      BY <1>2, Guarded
    <2> QED BY <2>1, <2>2, <2>3
  <1>5. Types'
    BY <1>1, <1>2 DEF IInv, Types, FaultBudget, Proposed
  <1>6. Leases'
    BY <1>1, <1>2 DEF IInv, Leases, Known, Holding, OnItsWay
  <1>7. ASSUME Trusted, Validated PROVE Validated'
    <2>1. ValidateConstraints(committed')
      BY <1>7
    <2>2. ASSUME NEW s \in Transition, pc'[s] \in OnItsWay
          PROVE  ValidateConstraints(Proposed(committed', plan[s].domain, plan[s].target))
      <3>1. s # t /\ pc[s] \in OnItsWay
        BY <1>1, <2>2 DEF OnItsWay
      <3>2. s \in leased
        BY <3>1 DEF IInv, Leases, Holding
      <3>3. ValidateConstraints(Proposed(committed, plan[s].domain, plan[s].target))
        BY <1>7, <3>1 DEF Validated
      <3> QED BY <1>2, <1>4, <1>7, <3>1, <3>2, <3>3, IndependentChanges DEF IInv, Types
    <2>3. ASSUME NEW s \in Transition, pc'[s] = "recover",
                 RecoveryAction[plan[s].domain] = "enter_fallback_mode"
          PROVE  ValidateConstraints(Proposed(committed', plan[s].domain, FallbackMode[plan[s].domain]))
      <3>1. s # t /\ pc[s] = "recover"
        BY <1>1, <2>3
      <3>2. s \in leased
        BY <3>1 DEF IInv, Leases, Holding
      <3>3. ValidateConstraints(Proposed(committed, plan[s].domain, FallbackMode[plan[s].domain]))
        BY <1>7, <2>3, <3>1 DEF Validated
      <3> QED BY <1>2, <1>4, <1>7, <3>1, <3>2, <3>3, IndependentChanges DEF IInv, Types
    <2> QED BY <2>1, <2>2, <2>3 DEF Validated, RecoveryAction
  <1>8. ASSUME Recorded PROVE Recorded'
    <2>1. recovery[t].mode = NoMode /\ ~Unrecorded(t)
      BY <1>8 DEF Recorded, Unrecorded
    <2>2. \A s \in Transition : s # t => /\ Unrecorded(s)' <=> Unrecorded(s)
                                         /\ ModeToRecord(s)' = ModeToRecord(s)
      BY <1>1 DEF Unrecorded, ModeToRecord
    <2>3. Unrecorded(t)' /\ ModeToRecord(t)' = mode
      BY <1>1, EngineAssumption DEF Unrecorded, ModeToRecord
    <2>4. ASSUME NEW e \in Domain, journal'.committed[e] # committed'[e]
          PROVE  \E s \in leased' : Unrecorded(s)' /\ plan'[s].domain = e
      <3>1. CASE e = d
        BY <1>2, <2>3, <3>1
      <3>2. CASE e # d
        <4>1. PICK s \in leased : Unrecorded(s) /\ plan[s].domain = e
          BY <1>3, <1>8, <2>4, <3>2 DEF Recorded
        <4>2. s \in Transition \ {t}
          BY <1>2, <2>1, <4>1
        <4>3. Unrecorded(s)'
          BY <2>2, <4>1, <4>2
        <4> QED BY <4>1, <4>3
      <3> QED BY <3>1, <3>2
    <2>5. ASSUME NEW s \in Transition, Unrecorded(s)'
          PROVE  s \in leased' /\ committed'[plan'[s].domain] = ModeToRecord(s)'
      <3>1. CASE s = t
        BY <1>2, <1>3, <2>3, <3>1
      <3>2. CASE s # t
        <4>1. Unrecorded(s) /\ s \in leased /\ committed[plan[s].domain] = ModeToRecord(s)
          BY <1>8, <2>2, <2>5, <3>2 DEF Recorded
        <4>2. ModeToRecord(s)' = ModeToRecord(s)
          BY <2>2, <3>2
        <4>3. committed'[plan[s].domain] = committed[plan[s].domain]
          BY <1>3, <1>4, <3>2, <4>1
        <4> QED BY <4>1, <4>2, <4>3
      <3> QED BY <3>1, <3>2
    <2>6. \A s \in Transition : /\ recovery'[s].mode # NoMode => pc'[s] \in {"rec_terminal", "done"}
                                /\ pc'[s] = "rec_terminal" => outcome'[s] # "succeeded"
      BY <1>1, <1>8, <2>1 DEF Recorded
    <2>7. ValidateConstraints(journal'.committed)
      BY <1>8 DEF Recorded
    <2> QED BY <2>4, <2>5, <2>6, <2>7 DEF Recorded
  <1>9. AppendsSucceed' = AppendsSucceed /\ Trusted' = Trusted
    BY DEF AppendsSucceed, Trusted, FaultBudget
  <1> QED BY <1>5, <1>6, <1>7, <1>8, <1>9 DEF IInv

-----------------------------------------------------------------------------
(***************************************************************************)
(* What the journal holds after one more record.                           *)
(***************************************************************************)
LEMMA ReplayEffect ==
    ASSUME IInv, NEW t \in Transition, pc[t] \notin {"none", "done"}, NEW ph
    PROVE  /\ Replay(journal, t, ph).committed \in [Domain -> Mode]
           /\ DOMAIN Replay(journal, t, ph) = DOMAIN journal
           /\ Replay(journal, t, ph).committed =
                IF ph = "succeeded" THEN [journal.committed EXCEPT ![plan[t].domain] = plan[t].target]
                ELSE IF recovery[t].mode # NoMode
                     THEN [journal.committed EXCEPT ![plan[t].domain] = recovery[t].mode]
                     ELSE journal.committed
  <1>1. plan[t].domain \in Domain /\ plan[t].target \in Mode /\ recovery[t].mode \in Mode \cup {NoMode}
    BY DEF IInv, Leases, Known, Types, RecoveryType
  <1> QED BY <1>1 DEF Replay, IInv, Types

(***************************************************************************)
(* The terminal record: it writes what was unrecorded and gives the lease  *)
(* back.  The journal agrees with the committed modes on what the domain   *)
(* guards, because what it lacks belongs to other leases.                  *)
(***************************************************************************)
LEMMA EndPreserves ==
    ASSUME IInv, NEW t \in Transition, pc[t] \in {"rec_succeeded", "rec_terminal"},
           Record(t), UNCHANGED setup
    PROVE  IInv'
  <1> DEFINE d == plan[t].domain
             written == IF pc[t] = "rec_succeeded" THEN "succeeded" ELSE outcome[t]
  <1>1. /\ UNCHANGED <<committed, plan, outcome, recovery, faults, setup>>
        /\ leased' = leased \ {t} /\ Goto(t, "done")
        /\ journal' = Replay(journal, t, written)
    <2>1. Recording(t) = <<written, "done">>
      BY DEF Recording
    <2> QED BY <2>1 DEF Record
  <1>2. /\ \A s \in Transition : pc'[s] = IF s = t THEN "done" ELSE pc[s]
        /\ DOMAIN pc' = Transition
    BY <1>1 DEF IInv, Types, Goto
  <1>3. Types'
    BY <1>1, <1>2, ReplayEffect DEF IInv, Types, FaultBudget
  <1>4. Leases'
    BY <1>1, <1>2 DEF IInv, Leases, Known, Types, Holding, OnItsWay
  <1>5. Validated => Validated'
    BY <1>1, <1>2 DEF Validated, OnItsWay, RecoveryAction
  <1>6. ASSUME AppendsSucceed, Recorded PROVE Recorded'
    <2>1. d \in Domain /\ leased \subseteq Transition /\ \A s \in leased : plan[s].domain \in Domain
      BY DEF IInv, Leases, Known, Types, Holding, OnItsWay
    <2>2. journal'.committed = IF Unrecorded(t) THEN [journal.committed EXCEPT ![d] = ModeToRecord(t)]
                               ELSE journal.committed
      <3>0. pc[t] \notin {"none", "done"}
        OBVIOUS
      <3>1. CASE pc[t] = "rec_succeeded"
        <4>1. journal'.committed = [journal.committed EXCEPT ![d] = plan[t].target]
          BY <1>1, <3>0, <3>1, ReplayEffect
        <4> QED BY <3>1, <4>1 DEF Unrecorded, ModeToRecord
      <3>2. CASE pc[t] = "rec_terminal"
        <4>1. written # "succeeded"
          BY <1>6, <3>2 DEF Recorded
        <4>2. journal'.committed = IF recovery[t].mode # NoMode
                                   THEN [journal.committed EXCEPT ![d] = recovery[t].mode]
                                   ELSE journal.committed
          BY <1>1, <3>0, <4>1, ReplayEffect
        <4> QED BY <3>2, <4>2 DEF Unrecorded, ModeToRecord
      <3> QED BY <3>1, <3>2
    <2>3. \A s \in Transition : s # t => /\ Unrecorded(s)' <=> Unrecorded(s)
                                         /\ ModeToRecord(s)' = ModeToRecord(s)
      BY <1>1, <1>2 DEF Unrecorded, ModeToRecord
    <2>4. ~Unrecorded(t)'
      BY <1>2 DEF Unrecorded
    <2>5. ValidateConstraints(journal'.committed)
      <3>1. CASE ~Unrecorded(t)
        BY <1>6, <2>2, <3>1 DEF Recorded
      <3>2. CASE Unrecorded(t)
        <4>1. t \in leased /\ committed[d] = ModeToRecord(t)
          BY <1>6, <3>2 DEF Recorded
        <4>2. ASSUME NEW e \in GuardedDomains(d) \ {d} PROVE journal.committed[e] = committed[e]
          <5>1. e \in Domain
            BY <2>1, Guarded
          <5>2. ASSUME NEW s \in leased, plan[s].domain = e PROVE FALSE
            <6>1. s # t
              BY <4>2, <5>2
            <6>2. GuardedDomains(plan[s].domain) \cap GuardedDomains(d) = {}
              BY <4>1, <6>1 DEF IInv, Leases
            <6>3. e \in GuardedDomains(plan[s].domain)
              BY <5>1, <5>2, Guarded
            <6> QED BY <4>2, <6>2, <6>3
          <5> QED BY <1>6, <5>1, <5>2 DEF Recorded
        <4>3. ValidateConstraints(committed)
          BY <1>6 DEF IInv, Trusted, Validated
        <4>4. ValidateConstraints([journal.committed EXCEPT ![d] = committed[d]])
          BY <1>6, <2>1, <4>2, <4>3, RecordedChange DEF Recorded, IInv, Types
        <4> QED BY <2>2, <3>2, <4>1, <4>4
      <3> QED BY <3>1, <3>2
    <2>6. ASSUME NEW e \in Domain, journal'.committed[e] # committed'[e]
          PROVE  \E s \in leased' : Unrecorded(s)' /\ plan'[s].domain = e
      <3>0. committed' = committed /\ journal.committed \in [Domain -> Mode]
        BY <1>1 DEF IInv, Types
      <3>1. journal.committed[e] # committed[e] /\ (Unrecorded(t) => e # d)
        <4>1. CASE Unrecorded(t)
          <5>1. committed[d] = ModeToRecord(t)
            BY <1>6, <4>1 DEF Recorded
          <5>2. journal'.committed[d] = committed[d]
            BY <2>1, <2>2, <3>0, <4>1, <5>1
          <5>3. e # d
            BY <2>6, <3>0, <5>2
          <5> QED BY <2>2, <2>6, <3>0, <4>1, <5>3
        <4>2. CASE ~Unrecorded(t)
          BY <2>2, <2>6, <3>0, <4>2
        <4> QED BY <4>1, <4>2
      <3>2. PICK s \in leased : Unrecorded(s) /\ plan[s].domain = e
        BY <1>6, <3>1 DEF Recorded
      <3>3. s # t /\ s \in Transition
        BY <2>1, <3>1, <3>2
      <3>4. Unrecorded(s)'
        BY <2>3, <3>2, <3>3
      <3> QED BY <1>1, <3>2, <3>3, <3>4
    <2>7. ASSUME NEW s \in Transition, Unrecorded(s)'
          PROVE  s \in leased' /\ committed'[plan'[s].domain] = ModeToRecord(s)'
      <3>1. s # t
        BY <2>4, <2>7
      <3>2. Unrecorded(s) /\ ModeToRecord(s)' = ModeToRecord(s)
        BY <2>3, <2>7, <3>1
      <3> QED BY <1>1, <1>6, <3>1, <3>2 DEF Recorded
    <2>8. \A s \in Transition : /\ recovery'[s].mode # NoMode => pc'[s] \in {"rec_terminal", "done"}
                                /\ pc'[s] = "rec_terminal" => outcome'[s] # "succeeded"
      BY <1>1, <1>2, <1>6 DEF Recorded
    <2> QED BY <2>5, <2>6, <2>7, <2>8 DEF Recorded
  <1>7. AppendsSucceed' = AppendsSucceed /\ Trusted' = Trusted
    BY <1>1 DEF AppendsSucceed, Trusted, FaultBudget
  <1> QED BY <1>3, <1>4, <1>5, <1>6, <1>7 DEF IInv

(***************************************************************************)
(* A record of a phase that is not terminal writes no mode.                *)
(***************************************************************************)
LEMMA ProgressPreserves ==
    ASSUME IInv, NEW t \in Transition, pc[t] \notin {"rec_succeeded", "rec_terminal"},
           Record(t), UNCHANGED setup
    PROVE  IInv'
  <1>1. /\ UNCHANGED <<committed, plan, outcome, recovery, faults, setup>>
        /\ journal' = Replay(journal, t, Recording(t)[1])
        /\ Goto(t, Recording(t)[2])
        /\ leased' = IF Recording(t)[2] = "done" THEN leased \ {t} ELSE leased
        /\ AtRecord(t)
    BY DEF Record
  <1>2. /\ Recording(t)[1] # "succeeded"
        /\ \/ pc[t] = "rec_validated" /\ Recording(t)[2] = "rec_planned"
           \/ pc[t] = "rec_planned" /\ Recording(t)[2] = "accepted"
           \/ /\ pc[t] \in {"rec_stopping", "rec_starting", "rec_awaiting", "rec_committing"}
              /\ Recording(t)[2] \in {"stop", "start", "rec_awaiting", "commit"}
           \/ pc[t] = "rec_recovering" /\ Recording(t)[2] = "plan_recovery"
    BY <1>1 DEF AtRecord, Recording
  <1>3. pc[t] \notin {"none", "done"} /\ recovery \in RecoveryType
    BY <1>2 DEF IInv, Types
  <1>4. AppendsSucceed => recovery[t].mode = NoMode
    BY <1>2 DEF IInv, Recorded
  <1>5. Kept
    BY <1>1, <1>2, <1>3, <1>4, ReplayEffect DEF Kept, IInv, Types
  <1>6. Moves(t, Recording(t)[2])
    BY <1>1, <1>2, <1>5 DEF Moves, IInv, Types
  <1>7. Allowed(t, Recording(t)[2])
    BY <1>2 DEF Allowed, IInv, Leases, Holding, OnItsWay
  <1> QED BY <1>6, <1>7, MovePreserves

(***************************************************************************)
(* After an append that reported an error the journal is not relied on any *)
(* more; the committed modes stay as they are.                             *)
(***************************************************************************)
LEMMA RecordFailsPreserves ==
    ASSUME IInv, NEW t \in Transition, NEW in_file \in BOOLEAN, RecordFails(t, in_file),
           UNCHANGED setup
    PROVE  IInv'
  <1>1. /\ UNCHANGED <<committed, plan, setup>>
        /\ faults' = [faults EXCEPT !.journal = @ - 1] /\ faults.journal > 0
        /\ AtRecord(t)
        /\ journal' \in {journal, Replay(journal, t, Recording(t)[1])}
    BY DEF RecordFails, memory
  <1>2. /\ faults' \in FaultType /\ faults'.crash = faults.crash
        /\ faults'.journal < FaultBudget.journal /\ FaultBudget.journal \in Nat
        /\ FaultBudget' = FaultBudget
    BY <1>1, EngineAssumption DEF IInv, Types, FaultType, FaultBudget
  <1>3. ~AppendsSucceed' /\ (Trusted' => Trusted)
    BY <1>2 DEF AppendsSucceed, Trusted
  <1>4. pc[t] \notin {"none", "done"}
    BY <1>1 DEF AtRecord
  <1>5. PICK location \in {"done", "rec_terminal"} :
          /\ pc' = [pc EXCEPT ![t] = location]
          /\ leased' = IF location = "done" THEN leased \ {t} ELSE leased
          /\ location = "done" => pc[t] = "rec_terminal"
    BY DEF RecordFails, Goto, Fail
  <1>6. /\ \A s \in Transition : pc'[s] = IF s = t THEN location ELSE pc[s]
        /\ DOMAIN pc' = Transition
    BY <1>5 DEF IInv, Types
  <1>7. Types'
    <2>1. journal'.committed \in [Domain -> Mode] /\ DOMAIN journal' = DOMAIN journal
      <3>1. CASE journal' = journal
        BY <3>1 DEF IInv, Types
      <3>2. CASE journal' = Replay(journal, t, Recording(t)[1])
        BY <1>4, <3>2, ReplayEffect
      <3> QED BY <1>1, <3>1, <3>2
    <2>2. recovery' \in RecoveryType /\ DOMAIN outcome' = Transition
      BY DEF RecordFails, Fail, NoRecovery, RecoveryType, IInv, Types
    <2>3. faults'.journal <= FaultBudget'.journal /\ faults'.crash <= FaultBudget'.crash
      BY <1>2 DEF IInv, Types, FaultType
    <2>4. leased' \subseteq Transition /\ DOMAIN plan' = Transition /\ setup' \in Setups
          /\ committed' \in [Domain -> Mode]
      BY <1>1, <1>5 DEF IInv, Types
    <2> QED BY <1>2, <1>6, <2>1, <2>2, <2>3, <2>4 DEF IInv, Types
  <1>8. Leases'
    BY <1>1, <1>4, <1>5, <1>6 DEF IInv, Leases, Known, Types, Holding, OnItsWay
  <1>9. Validated => Validated'
    BY <1>1, <1>6 DEF Validated, OnItsWay, RecoveryAction
  <1> QED BY <1>3, <1>7, <1>8, <1>9 DEF IInv

(***************************************************************************)
(* A crash leaves no lease and the modes of the journal.                   *)
(***************************************************************************)
LEMMA CrashPreserves ==
    ASSUME IInv, Crash, UNCHANGED setup
    PROVE  IInv'
  <1>1. /\ committed' = journal.committed /\ journal' = journal /\ setup' = setup
        /\ faults' = [faults EXCEPT !.crash = @ - 1] /\ faults.crash > 0
        /\ plan' = [t \in Transition |-> IF journal.phase[t] = "none" THEN NoPlan ELSE plan[t]]
        /\ pc' = [t \in Transition |-> IF journal.phase[t] = "none" THEN "none" ELSE "done"]
        /\ outcome' = [t \in Transition |-> "none"]
        /\ leased' = {}
        /\ recovery' = [t \in Transition |-> NoRecovery]
    BY DEF Crash
  <1>2. /\ faults' \in FaultType /\ faults'.journal = faults.journal
        /\ faults'.crash < FaultBudget.crash /\ FaultBudget.crash \in Nat
        /\ FaultBudget' = FaultBudget
    BY <1>1, EngineAssumption DEF IInv, Types, FaultType, FaultBudget
  <1>3. AppendsSucceed' = AppendsSucceed /\ (Trusted' => AppendsSucceed)
    BY <1>2 DEF AppendsSucceed, Trusted
  <1>4. Types'
    <2>1. recovery' \in RecoveryType
      BY <1>1 DEF NoRecovery, RecoveryType
    <2>2. faults'.journal <= FaultBudget'.journal /\ faults'.crash <= FaultBudget'.crash
      BY <1>2 DEF IInv, Types, FaultType
    <2> QED BY <1>1, <1>2, <2>1, <2>2 DEF IInv, Types
  <1>5. \A t \in Transition : pc'[t] \in {"none", "done"} /\ recovery'[t].mode = NoMode
    BY <1>1 DEF NoRecovery
  <1>6. Leases'
    BY <1>1, <1>5 DEF Leases, Holding, OnItsWay
  <1>7. ASSUME AppendsSucceed PROVE Validated'
    <2>1. ValidateConstraints(committed')
      BY <1>1, <1>7 DEF IInv, Recorded
    <2> QED BY <1>5, <2>1 DEF Validated, OnItsWay
  <1>8. ASSUME AppendsSucceed PROVE Recorded'
    <2>1. ValidateConstraints(journal'.committed)
      BY <1>1, <1>8 DEF IInv, Recorded
    <2> QED BY <1>1, <1>5, <2>1 DEF Recorded, Unrecorded
  <1> QED BY <1>3, <1>4, <1>6, <1>7, <1>8 DEF IInv

-----------------------------------------------------------------------------
(***************************************************************************)
(* A unit of work that fails, is cancelled or expires goes to the terminal *)
(* record with the lease it has or has not.                                *)
(***************************************************************************)
LEMMA FailPreserves ==
    ASSUME IInv, NEW t \in Transition, NEW terminal, terminal # "succeeded",
           Kept, UNCHANGED leased, Fail(t, terminal),
           pc[t] \notin {"none", "rec_succeeded", "rec_terminal", "done"}
    PROVE  IInv'
  <1>1. Moves(t, "rec_terminal") /\ outcome'[t] = terminal
    BY DEF Moves, Fail, IInv, Types
  <1>2. Allowed(t, "rec_terminal")
    BY <1>1 DEF Allowed, Holding, OnItsWay
  <1> QED BY <1>1, <1>2, MovePreserves

(***************************************************************************)
(* A thread that goes on without an error.                                 *)
(***************************************************************************)
LEMMA GotoPreserves ==
    ASSUME IInv, NEW t \in Transition, NEW location,
           Kept, UNCHANGED <<leased, outcome>>, Goto(t, location),
           \/ pc[t] = "accepted" /\ location = "acquire"
           \/ pc[t] \in OnItsWay /\ location \in OnItsWay \cup {"rec_recovering"}
           \/ pc[t] = "plan_recovery" /\ location = "recover" /\ FallbackValid(t)
    PROVE  IInv'
  <1>1. Moves(t, location)
    BY DEF Moves, IInv, Types
  <1>2. Allowed(t, location)
    BY DEF Allowed, IInv, Leases, Holding, OnItsWay
  <1> QED BY <1>1, <1>2, MovePreserves

(***************************************************************************)
(* Where nothing but the units and the faults of units changes.            *)
(***************************************************************************)
LEMMA KeptSteps ==
    ASSUME IInv, UNCHANGED <<committed, plan, recovery, journal, setup>>,
           \/ UNCHANGED faults
           \/ faults.backend > 0 /\ faults' = [faults EXCEPT !.backend = @ - 1]
           \/ faults.exit > 0 /\ faults' = [faults EXCEPT !.exit = @ - 1]
    PROVE  Kept
  <1>1. faults' \in FaultType /\ faults'.crash = faults.crash /\ faults'.journal = faults.journal
    BY DEF IInv, Types, FaultType
  <1> QED BY <1>1 DEF Kept, IInv, Types

(***************************************************************************)
(* The steps of a thread on a unit.                                        *)
(***************************************************************************)
LEMMA UnitStepPreserves ==
    ASSUME IInv, NEW t \in Transition, UNCHANGED setup,
           \/ Execute(t) \/ AcquireExpires(t) \/ ObserveCancel(t) \/ NextUnit(t)
           \/ \E u \in Unit : StopUnit(t, u) \/ StartUnit(t, u) \/ UnitFails(t, u)
    PROVE  IInv'
  <1>1. CASE Execute(t)
    BY <1>1, KeptSteps, GotoPreserves DEF Execute, memory
  <1>2. CASE AcquireExpires(t)
    BY <1>2, KeptSteps, FailPreserves DEF AcquireExpires, memory
  <1>3. CASE ObserveCancel(t)
    BY <1>3, KeptSteps, FailPreserves DEF ObserveCancel, memory
  <1>4. CASE NextUnit(t)
    BY <1>4, KeptSteps, GotoPreserves DEF NextUnit, memory, OnItsWay
  <1>5. ASSUME NEW u \in Unit, StopUnit(t, u) PROVE IInv'
    BY <1>5, KeptSteps, GotoPreserves DEF StopUnit, AfterStops, OnItsWay
  <1>6. ASSUME NEW u \in Unit, StartUnit(t, u) PROVE IInv'
    BY <1>6, KeptSteps, GotoPreserves DEF StartUnit, OnItsWay
  <1>7. ASSUME NEW u \in Unit, UnitFails(t, u) PROVE IInv'
    <2>1. Kept /\ UNCHANGED leased /\ pc[t] \in {"stopping", "starting"}
      BY <1>7, KeptSteps DEF UnitFails, memory
    <2>2. CASE \E terminal \in {"failed", "deadline_exceeded"} : Fail(t, terminal)
      BY <2>1, <2>2, FailPreserves
    <2>3. CASE Goto(t, "rec_recovering") /\ UNCHANGED outcome
      BY <2>1, <2>3, GotoPreserves DEF OnItsWay
    <2> QED BY <1>7, <2>2, <2>3 DEF UnitFails, Recover
  <1> QED BY <1>1, <1>2, <1>3, <1>4, <1>5, <1>6, <1>7

(***************************************************************************)
(* The steps of a recovery; a fallback is validated when it is planned and *)
(* stays valid under the lease.                                            *)
(***************************************************************************)
LEMMA RecoveryPreserves ==
    ASSUME IInv, NEW t \in Transition, UNCHANGED setup,
           \/ PlanRecovery(t) \/ RecoverDone(t)
           \/ \E u \in Unit : RecoverStop(t, u) \/ RecoverStart(t, u) \/ RecoverUnitFails(t, u)
    PROVE  IInv'
  <1>1. CASE PlanRecovery(t)
    <2>1. Kept /\ UNCHANGED leased /\ pc[t] = "plan_recovery"
      BY <1>1, KeptSteps DEF PlanRecovery, memory
    <2>2. CASE \E terminal \in {"failed", "recovery_failed"} : Fail(t, terminal)
      BY <2>1, <2>2, FailPreserves
    <2>3. CASE /\ Goto(t, "recover") /\ UNCHANGED outcome
               /\ RecoveryAction[plan[t].domain] = "enter_fallback_mode" =>
                     Plannable(Configuration, plan[t].domain, FallbackMode[plan[t].domain], TRUE)
      <3>1. FallbackValid(t)
        BY <2>3 DEF FallbackValid, Plannable, Configuration
      <3> QED BY <2>1, <2>3, <3>1, GotoPreserves
    <2> QED BY <1>1, <2>2, <2>3 DEF PlanRecovery
  <1>2. CASE RecoverDone(t)
    <2>1. pc[t] = "recover" /\ UNCHANGED <<plan, leased, journal, faults, setup>> /\ Fail(t, "failed")
      BY <1>2 DEF RecoverDone
    <2>2. CASE UNCHANGED <<committed, recovery>>
      BY <2>1, <2>2, KeptSteps, FailPreserves
    <2>3. CASE /\ RecoveryAction[plan[t].domain] = "enter_fallback_mode"
               /\ committed' = [committed EXCEPT ![plan[t].domain] = FallbackMode[plan[t].domain]]
               /\ recovery' = [recovery EXCEPT ![t].mode = FallbackMode[plan[t].domain]]
      <3> DEFINE mode == FallbackMode[plan[t].domain]
      <3>1. plan[t].domain \in Domain
        BY <2>1 DEF IInv, Leases, Known
      <3>2. mode \in Mode
        BY <2>3, <3>1, EngineAssumption, ModelAssumption DEF ValidModel, RecoveryAction, IInv, Types
      <3>3. Trusted => ValidateConstraints(Proposed(committed, plan[t].domain, mode))
        BY <2>1, <2>3 DEF IInv, Validated
      <3>4. /\ recovery' \in RecoveryType /\ recovery'[t].mode = mode
            /\ \A s \in Transition \ {t} : recovery'[s] = recovery[s]
        BY <2>3, <3>2 DEF IInv, Types, RecoveryType
      <3>5. /\ DOMAIN outcome' = Transition /\ outcome'[t] # "succeeded"
            /\ \A s \in Transition \ {t} : outcome'[s] = outcome[s]
            /\ Goto(t, "rec_terminal")
        BY <2>1 DEF Fail, IInv, Types
      <3>6. committed' = Proposed(committed, plan[t].domain, mode)
        BY <2>3 DEF Proposed
      <3> QED BY <2>1, <3>2, <3>3, <3>4, <3>5, <3>6, CommitPreserves
    <2> QED BY <1>2, <2>2, <2>3 DEF RecoverDone
  <1>3. ASSUME NEW u \in Unit, RecoverStop(t, u) \/ RecoverStart(t, u) PROVE IInv'
    <2>1. /\ UNCHANGED <<committed, plan, journal, faults, setup, pc, outcome, leased>>
          /\ \/ recovery' = [recovery EXCEPT ![t].stopped = @ \cup {u}]
             \/ recovery' = [recovery EXCEPT ![t].started = @ \cup {u}]
      BY <1>3 DEF RecoverStop, RecoverStart
    <2>2. recovery' \in RecoveryType /\ \A s \in Transition : recovery'[s].mode = recovery[s].mode
      BY <2>1 DEF IInv, Types, RecoveryType
    <2>3. Kept
      BY <2>1, <2>2 DEF Kept, IInv, Types
    <2> QED BY <2>1, <2>3, KeptPreserves
  <1>4. ASSUME NEW u \in Unit, RecoverUnitFails(t, u) PROVE IInv'
    BY <1>4, KeptSteps, FailPreserves DEF RecoverUnitFails, memory
  <1> QED BY <1>1, <1>2, <1>3, <1>4

(***************************************************************************)
(* Outside the threads: the units, and the daemon's return.                *)
(***************************************************************************)
LEMMA DaemonPreserves ==
    ASSUME IInv, Daemon, UNCHANGED setup
    PROVE  IInv'
  <1>1. CASE Crash
    BY <1>1, CrashPreserves
  <1>2. ASSUME NEW u \in Unit, UnitExits(u) \/ BecomesReady(u) \/ RestoreUnit(u) PROVE IInv'
    <2>1. Kept /\ UNCHANGED <<pc, outcome, leased>>
      BY <1>2, KeptSteps DEF UnitExits, BecomesReady, RestoreUnit, memory, thread
    <2> QED BY <2>1, KeptPreserves
  <1>3. CASE Restart
    <2>1. /\ UNCHANGED <<committed, plan, recovery, faults, setup, pc, outcome, leased>>
          /\ journal' = [journal EXCEPT !.phase = phase']
      BY <1>3 DEF Restart, thread
    <2>2. journal'.committed = journal.committed /\ DOMAIN journal' = DOMAIN journal
      BY <2>1 DEF IInv, Types
    <2>3. Kept
      BY <2>1, <2>2 DEF Kept, IInv, Types
    <2> QED BY <2>1, <2>3, KeptPreserves
  <1> QED BY <1>1, <1>2, <1>3 DEF Daemon

-----------------------------------------------------------------------------
(***************************************************************************)
(* The invariant at the start, when the initial modes satisfy the          *)
(* constraints.                                                            *)
(***************************************************************************)
LEMMA InitInv ==
    ASSUME ValidateConstraints(InitialMode), Init
    PROVE  IInv
  <1>1. /\ InitialMode \in [Domain -> Mode]
        /\ setup \in Setups /\ faults = FaultBudget /\ FaultBudget \in FaultType
    BY EngineAssumption, ModelAssumption DEF Init, ValidModel, FaultBudget, FaultType
  <1>2. journal.committed = InitialMode /\ DOMAIN journal = {"committed", "running", "phase", "valid"}
    BY DEF Init
  <1>3. /\ DOMAIN pc = Transition /\ DOMAIN plan = Transition /\ DOMAIN outcome = Transition
        /\ \A t \in Transition : pc[t] = "none" /\ recovery[t].mode = NoMode
        /\ recovery \in RecoveryType /\ leased = {} /\ committed = InitialMode
    BY DEF Init, NoRecovery, RecoveryType
  <1>4. faults.crash <= FaultBudget.crash /\ faults.journal <= FaultBudget.journal
    BY <1>1 DEF FaultType
  <1>5. Types
    BY <1>1, <1>2, <1>3, <1>4 DEF Types
  <1>6. Leases
    BY <1>3 DEF Leases, Holding, OnItsWay
  <1>7. Validated
    BY <1>3 DEF Validated, OnItsWay
  <1>8. Recorded
    BY <1>2, <1>3 DEF Recorded, Unrecorded
  <1> QED BY <1>5, <1>6, <1>7, <1>8 DEF IInv

(***************************************************************************)
(* The invariant is kept by every step.                                    *)
(***************************************************************************)
LEMMA NextInv ==
    ASSUME IInv, [Next /\ UNCHANGED setup]_<<vars, setup>>
    PROVE  IInv'
  <1>1. CASE UNCHANGED <<vars, setup>>
    <2>1. Kept /\ UNCHANGED <<pc, outcome, leased>>
      BY <1>1, KeptSteps DEF vars, memory, thread
    <2> QED BY <2>1, KeptPreserves
  <1>2. ASSUME UNCHANGED setup, NEW t \in Transition,
               NEW d \in Domain, NEW m \in Requested[d], AcceptMode(t, d, m)
        PROVE  IInv'
    BY <1>2, AcceptPreserves
  <1>3. ASSUME UNCHANGED setup, NEW t \in Transition, Record(t) PROVE IInv'
    BY <1>3, EndPreserves, ProgressPreserves
  <1>4. ASSUME UNCHANGED setup, NEW t \in Transition, Commit(t) PROVE IInv'
    <2>1. /\ pc[t] = "commit" /\ Goto(t, "rec_succeeded")
          /\ committed' = Proposed(committed, plan[t].domain, plan[t].target)
          /\ UNCHANGED <<plan, leased, journal, faults, recovery, outcome>>
      BY <1>4 DEF Commit, Proposed
    <2>2. plan[t].target \in Mode
      BY <2>1 DEF IInv, Leases, Known
    <2>3. Trusted => ValidateConstraints(Proposed(committed, plan[t].domain, plan[t].target))
      BY <2>1 DEF IInv, Validated, OnItsWay
    <2> QED BY <1>4, <2>1, <2>2, <2>3, CommitPreserves DEF IInv, Types
  <1>5. ASSUME UNCHANGED setup, NEW t \in Transition, Cancel(t) PROVE IInv'
    <2>1. Kept /\ UNCHANGED <<pc, outcome, leased>>
      BY <1>5, KeptSteps DEF Cancel, thread
    <2> QED BY <2>1, KeptPreserves
  <1>6. ASSUME UNCHANGED setup, NEW t \in Transition, Step(t) \/ Execute(t) \/ Fault(t) PROVE IInv'
    BY <1>3, <1>4, <1>6, AcquirePreserves, UnitStepPreserves, RecoveryPreserves, RecordFailsPreserves
    DEF Step, Fault
  <1>7. ASSUME UNCHANGED setup, Daemon PROVE IInv'
    BY <1>7, DaemonPreserves
  <1> QED BY <1>1, <1>2, <1>5, <1>6, <1>7 DEF Next

(***************************************************************************)
(* Whatever the execution model and the number of workers, the committed   *)
(* modes satisfy every constraint: also after fallbacks and restarts, as   *)
(* long as the initial modes do, and unless a crash follows an append that *)
(* reported an error (then the journal may lack a mode the others were     *)
(* validated against).                                                     *)
(***************************************************************************)
THEOREM ModesStayConsistent ==
    ASSUME ValidateConstraints(InitialMode)
    PROVE  Spec => [](Trusted => ModesConsistent)
  <1>1. Init => IInv
    BY InitInv
  <1>2. IInv /\ [Next /\ UNCHANGED setup]_<<vars, setup>> => IInv'
    BY NextInv
  <1>3. IInv => (Trusted => ModesConsistent)
    BY DEF IInv, Validated, ModesConsistent
  <1> QED BY <1>1, <1>2, <1>3, PTL DEF Spec

(***************************************************************************)
(* Unless an append reports an error, what a crash would bring back        *)
(* satisfies the constraints at every moment, and it is the committed mode *)
(* of every domain that no transition under way has its lease on.          *)
(***************************************************************************)
JournalModes ==
    AppendsSucceed =>
        /\ ValidateConstraints(journal.committed)
        /\ \A d \in Domain : (\A t \in leased : plan[t].domain # d) =>
             journal.committed[d] = committed[d]

(***************************************************************************)
(* JournalModes holds, for any execution model, requests, workers and      *)
(* faults: the modes that Create replays after a crash are consistent and  *)
(* the ones that were committed.                                           *)
(***************************************************************************)
THEOREM JournalModesFaithful ==
    ASSUME ValidateConstraints(InitialMode)
    PROVE  Spec => []JournalModes
  <1>1. Init => IInv
    BY InitInv
  <1>2. IInv /\ [Next /\ UNCHANGED setup]_<<vars, setup>> => IInv'
    BY NextInv
  <1>3. IInv => JournalModes
    BY DEF IInv, Recorded, JournalModes
  <1> QED BY <1>1, <1>2, <1>3, PTL DEF Spec
=============================================================================
