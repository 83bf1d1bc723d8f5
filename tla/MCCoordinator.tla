--------------------------- MODULE MCCoordinator ---------------------------
(***************************************************************************)
(* Small instances of the coordinator: up to two domains whose second mode *)
(* selects one unit of the domain's own.                                   *)
(***************************************************************************)
EXTENDS Coordinator

CONSTANTS d1, d2, m1, m2, a, b

TwoModes == [d \in Domain |-> {m1, m2}]
FirstMode == [d \in Domain |-> m1]
OwnUnits ==
    [d \in Domain |-> [m \in Mode |-> IF m = m1 THEN {} ELSE IF d = d1 THEN {a} ELSE {b}]]
NoDependencies == [u \in Unit |-> {}]
NoResources == [u \in Unit |-> {}]
LifecycleChannel == [u \in Unit |-> "lifecycle_channel"]
Hold == [d \in Domain |-> "hold_observed_configuration"]

NoFaults == [crash |-> 0, exit |-> 0, backend |-> 0, journal |-> 0]
BackendError == [NoFaults EXCEPT !.backend = 1]

Queueing == [d \in Domain |-> "queue"]
Mixed == [d \in Domain |-> IF d = d1 THEN "supersede_if_safe" ELSE "reject_while_busy"]

MixedService ==
    [workers |-> 2, recovery |-> Hold, faults |-> BackendError,
     replacement |-> Mixed, capacity |-> 2, domains |-> {d1, d2},
     waiters |-> {}, cancellers |-> {2}]
QueueingService ==
    [workers |-> 2, recovery |-> Hold, faults |-> NoFaults,
     replacement |-> Queueing, capacity |-> 2, domains |-> {d1},
     waiters |-> {1}, cancellers |-> Transition]
BothServices == {MixedService, QueueingService}

ThreeTransitions == 1 .. 3
=============================================================================
