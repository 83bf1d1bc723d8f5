------------------------- MODULE TransitionPlanner -------------------------
(***************************************************************************)
(* exec/src/planner.cpp over the execution model of exec/src/model.cpp.    *)
(* A configuration is a record [committed |-> modes, running |-> units].   *)
(* Model generations are left out: one daemon runs one generation.         *)
(***************************************************************************)
EXTENDS FiniteSets

CONSTANTS
    Domain, Mode, Unit, Resource,
    ModesOf,             \* ModesOf[d]: the modes domain d defines
    InitialMode,         \* InitialMode[d]
    UnitsOf,             \* UnitsOf[d][m]: the units mode m of domain d selects
    Bootstrap,           \* units that run in every configuration
    Dependencies,        \* Dependencies[u]: units that u needs
    ExclusiveResources,  \* ExclusiveResources[u]
    Constraint           \* mode constraints, see ConstraintType

ConstraintType ==
    [domain : Domain, mode : Mode, kind : {"requires_mode", "excludes_mode"},
     other_domain : Domain, other_mode : Mode]

(***************************************************************************)
(* What InspectModel accepts.  It checks neither that the initial modes    *)
(* satisfy the constraints nor that a mode brings the dependencies of its  *)
(* units along.                                                            *)
(***************************************************************************)
Assigned == UNION {UnitsOf[d][m] : d \in Domain, m \in Mode}

ValidModel ==
    /\ ModesOf \in [Domain -> SUBSET Mode]
    /\ InitialMode \in [Domain -> Mode]
    /\ \A d \in Domain : InitialMode[d] \in ModesOf[d]
    /\ UnitsOf \in [Domain -> [Mode -> SUBSET Unit]]
    /\ Dependencies \in [Unit -> SUBSET Unit]
    /\ \A units \in SUBSET Unit \ {{}} :                       \* no dependency cycle
         \E u \in units : Dependencies[u] \cap units = {}
    /\ ExclusiveResources \in [Unit -> SUBSET Resource]
    /\ Bootstrap = Unit \ Assigned
    /\ \A u \in Bootstrap : Dependencies[u] \subseteq Bootstrap
    /\ Constraint \subseteq ConstraintType
    /\ \A k \in Constraint :
         /\ k.mode \in ModesOf[k.domain] /\ k.other_mode \in ModesOf[k.other_domain]
         /\ <<k.domain, k.mode>> # <<k.other_domain, k.other_mode>>
    /\ \A k, l \in Constraint :
         (/\ k.domain = l.domain /\ k.mode = l.mode
          /\ k.other_domain = l.other_domain /\ k.other_mode = l.other_mode) => k.kind = l.kind

ASSUME ModelAssumption == ValidModel

-----------------------------------------------------------------------------
RequiredUnits(modes) == Bootstrap \cup UNION {UnitsOf[d][modes[d]] : d \in Domain}

DependenciesPresent(units) == \A u \in units : Dependencies[u] \subseteq units

ValidateConstraints(modes) ==
    \A k \in Constraint : modes[k.domain] = k.mode =>
        (modes[k.other_domain] = k.other_mode <=> k.kind = "requires_mode")

InitialConfiguration ==
    [committed |-> InitialMode, running |-> RequiredUnits(InitialMode)]

\* Mutant: only the domain itself is guarded.
GuardedDomainsSelf(d) == {d}

\* The domains linked with d by any constraint, in either direction.
GuardedDomains(d) ==
    {d} \cup UNION {{k.domain, k.other_domain} :
                    k \in {l \in Constraint : d \in {l.domain, l.other_domain}}}

Proposed(modes, d, target) == [modes EXCEPT ![d] = target]

\* Where BuildPlan returns a plan rather than an error.
Plannable(current, d, target, allow_current_mode) ==
    /\ target \in ModesOf[d]
    /\ allow_current_mode \/ current.committed[d] # target
    /\ ValidateConstraints(Proposed(current.committed, d, target))
    /\ DependenciesPresent(RequiredUnits(Proposed(current.committed, d, target)))

(***************************************************************************)
(* The start and stop lists as sets; Order sorts them (UnitGraph.tla), and *)
(* whoever executes a plan picks the next unit with NextStart or NextStop. *)
(***************************************************************************)
BuildPlan(current, d, target) ==
    LET required == RequiredUnits(Proposed(current.committed, d, target)) IN
    [domain |-> d, source |-> current.committed[d], target |-> target,
     start |-> required \ current.running, stop |-> current.running \ required]

\* A unit whose listed dependencies are all earlier in the start list ...
NextStart(pending) == {u \in pending : Dependencies[u] \cap pending = {}}

\* Mutant: the stop list is not ordered.
NextStopAnyOrder(pending) == pending

\* ... and its mirror image for the reversed stop list.
NextStop(pending) == {u \in pending : \A v \in pending : u \notin Dependencies[v]}

\* StopDomainUnits: what the other domains still need once d runs nothing.
RemainingUnits(modes, d) ==
    Bootstrap \cup UNION {UnitsOf[e][modes[e]] : e \in Domain \ {d}}

StopDomainUnits(current, d) == current.running \ RemainingUnits(current.committed, d)

\* The items Execute leases for a plan.
LeaseItems(plan) ==
    LET changed == plan.start \cup plan.stop IN
    ({"domain"} \X GuardedDomains(plan.domain)) \cup ({"unit"} \X changed)
        \cup ({"resource"} \X UNION {ExclusiveResources[u] : u \in changed})
=============================================================================
