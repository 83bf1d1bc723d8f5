----------------------------- MODULE UnitGraph -----------------------------
(***************************************************************************)
(* The two depth-first searches over the dependencies of execution units:  *)
(* InspectDependencyCycles (exec/src/model.cpp), by which a model is       *)
(* accepted, and TransitionPlanner::Order (exec/src/planner.cpp), which    *)
(* sorts the start and stop lists of a plan.  Units are 1 .. N, so that    *)
(* they can be sorted as the code sorts their identifiers.                 *)
(***************************************************************************)
EXTENDS Naturals, Sequences, SequencesExt, FiniteSets

CONSTANT N       \* bound: the number of units

ASSUME GraphAssumption == N \in Nat

Unit == 1 .. N

VARIABLES
    dependencies,   \* the dependency lists, sets here
    accepted,       \* the verdict of InspectDependencyCycles, "unknown" before it
    units,          \* the set Order was last asked to sort, and its result
    ordered

vars == <<dependencies, accepted, units, ordered>>

Sorted(set) == SetToSortSeq(set, LAMBDA a, b : a < b)

-----------------------------------------------------------------------------
\* Mutant: a dependency is only looked at when it is unseen or the unit itself.
RECURSIVE VisitCycleDirect(_, _, _)
VisitCycleDirect(deps, found, u) ==
    LET entered == [found EXCEPT !.visits[u] = "active"]
        Follow(at, v) == IF at.visits[v] = "unseen" THEN VisitCycleDirect(deps, at, v)
                         ELSE IF v = u THEN [at EXCEPT !.cycle = TRUE]
                         ELSE at
        left == FoldLeft(Follow, entered, Sorted(deps[u])) IN
    [left EXCEPT !.visits[u] = "complete"]

\* visit of InspectDependencyCycles; "cycle" stands for the reported issues.
RECURSIVE VisitCycle(_, _, _)
VisitCycle(deps, found, u) ==
    LET entered == [found EXCEPT !.visits[u] = "active"]
        Follow(at, v) == IF at.visits[v] = "unseen" THEN VisitCycle(deps, at, v)
                         ELSE IF at.visits[v] = "active" THEN [at EXCEPT !.cycle = TRUE]
                         ELSE at
        left == FoldLeft(Follow, entered, Sorted(deps[u])) IN
    [left EXCEPT !.visits[u] = "complete"]

InspectDependencyCycles(deps) ==
    LET Follow(at, u) == IF at.visits[u] = "unseen" THEN VisitCycle(deps, at, u) ELSE at IN
    FoldLeft(Follow, [visits |-> [u \in Unit |-> "unseen"], cycle |-> FALSE], Sorted(Unit)).cycle

\* visit of Order.
RECURSIVE VisitOrder(_, _, _, _)
VisitOrder(deps, set, done, u) ==
    IF u \notin set \/ u \in done.visited THEN done
    ELSE LET Follow(at, v) == VisitOrder(deps, set, at, v)
             left == FoldLeft(Follow, [done EXCEPT !.visited = @ \cup {u}], Sorted(deps[u])) IN
         [left EXCEPT !.ordered = Append(@, u)]

\* Mutant: sorts by identifier alone.
OrderByIdentifier(deps, set, reverse) ==
    IF reverse THEN Reverse(Sorted(set)) ELSE Sorted(set)

Order(deps, set, reverse) ==
    LET Follow(at, u) == VisitOrder(deps, set, at, u)
        all == FoldLeft(Follow, [visited |-> {}, ordered |-> <<>>], Sorted(set)).ordered IN
    IF reverse THEN Reverse(all) ELSE all

-----------------------------------------------------------------------------
Init ==
    /\ dependencies \in [Unit -> SUBSET Unit]
    /\ accepted = "unknown"
    /\ units = {} /\ ordered = [start |-> <<>>, stop |-> <<>>]

Inspect ==
    /\ accepted = "unknown"
    /\ accepted' = IF InspectDependencyCycles(dependencies) THEN "no" ELSE "yes"
    /\ UNCHANGED <<dependencies, units, ordered>>

\* A plan of an accepted model that starts, or that stops, the units of a set.
Plan(set) ==
    /\ accepted = "yes"
    /\ units' = set
    /\ ordered' = [start |-> Order(dependencies, set, FALSE),
                   stop |-> Order(dependencies, set, TRUE)]
    /\ UNCHANGED <<dependencies, accepted>>

Next == Inspect \/ \E set \in SUBSET Unit : Plan(set)

Spec == Init /\ [][Next]_vars

-----------------------------------------------------------------------------
(***************************************************************************)
(* InspectDependencyCycles accepts exactly the models in which every       *)
(* non-empty set of units has one without a dependency in the set.         *)
(***************************************************************************)
AcceptedIffAcyclic ==
    accepted # "unknown" =>
        (accepted = "yes" <=> \A set \in SUBSET Unit \ {{}} :
                                 \E u \in set : dependencies[u] \cap set = {})

(***************************************************************************)
(* The start list holds each unit once and a unit after the dependencies   *)
(* it shares the list with: at each position stands a unit all of whose    *)
(* remaining dependencies are outside the rest of the list (NextStart of   *)
(* TransitionPlanner.tla, which the engine's module takes units with).     *)
(***************************************************************************)
StartTopological ==
    /\ Len(ordered.start) = Cardinality(units) /\ ToSet(ordered.start) = units
    /\ \A i \in DOMAIN ordered.start :
         \A j \in i .. Len(ordered.start) : ordered.start[j] \notin dependencies[ordered.start[i]]

\* The stop list is a start list backwards: no unit is stopped before a unit
\* of the list that depends on it (NextStop).
StopReverseTopological ==
    /\ Len(ordered.stop) = Cardinality(units) /\ ToSet(ordered.stop) = units
    /\ \A i \in DOMAIN ordered.stop :
         \A j \in i .. Len(ordered.stop) : ordered.stop[i] \notin dependencies[ordered.stop[j]]

\* Order sorts every set of units of an accepted model, for starts and for stops.
ListsOrdered == StartTopological /\ StopReverseTopological
=============================================================================
