------------------------- MODULE MCExecutionEngine -------------------------
(***************************************************************************)
(* A small execution model for the engine.  All domains use unit s, on     *)
(* which a of the first and b of the others depend; a and b also need the  *)
(* same exclusive resource.  The second modes of d1 and d2 exclude each    *)
(* other and the fallback of d2 needs the first mode of d1, so that their  *)
(* transitions never overlap.  No constraint links d3 with them: its       *)
(* transitions run beside theirs.  Clients also ask d3 for a mode that it  *)
(* does not define.                                                        *)
(***************************************************************************)
EXTENDS ExecutionEngine

CONSTANTS d1, d2, d3, m1, m2, m3, a, b, s, r

DefinedModes == [d \in Domain |-> IF d = d3 THEN {m1, m2} ELSE {m1, m2, m3}]
RequestedModes == [d \in Domain |-> IF d = d2 THEN {m2} ELSE {m2, m3}]
FirstMode == [d \in Domain |-> m1]
Fallback == [d \in Domain |-> IF d = d1 THEN m2 ELSE IF d = d2 THEN m3 ELSE m1]

Units == [d \in Domain |-> [m \in Mode |->
    IF m = m2 THEN {s, IF d = d1 THEN a ELSE b}
    ELSE IF m = m1 /\ d = d1 THEN {s} ELSE {}]]
NeedsShared == [u \in Unit |-> IF u = s THEN {} ELSE {s}]
OneResource == [u \in Unit |-> IF u = s THEN {} ELSE {r}]
Constraints ==
    {[domain |-> d1, mode |-> m2, kind |-> "excludes_mode", other_domain |-> d2,
      other_mode |-> m2],
     [domain |-> d2, mode |-> m3, kind |-> "requires_mode", other_domain |-> d1,
      other_mode |-> m1]}
MixedReadiness ==
    [u \in Unit |-> IF u = a THEN "process_started"
                    ELSE IF u = b THEN "supervisor_notification" ELSE "lifecycle_channel"]

Recovery(first, others) == [d \in Domain |-> IF d = d1 THEN first ELSE others]

\* Two workers with a crash at any step, two with a failing call, and one worker with a failing
\* call and a crash, with two failing calls, and with a failing call and a failing append.
Deployment(workers, first, others, crash, exit, backend, append) ==
    [workers |-> workers, recovery |-> Recovery(first, others),
     faults |-> [crash |-> crash, exit |-> exit, backend |-> backend, journal |-> append]]
Deployments ==
    {Deployment(2, "request_system_recovery", "enter_fallback_mode", 1, 1, 0, 0),
     Deployment(2, "hold_observed_configuration", "enter_fallback_mode", 0, 0, 1, 0),
     Deployment(1, "request_system_recovery", "enter_fallback_mode", 1, 0, 1, 0),
     Deployment(1, "enter_fallback_mode", "stop_domain", 0, 0, 2, 0),
     Deployment(1, "enter_fallback_mode", "stop_domain", 0, 0, 1, 1)}

TwoTransitions == 1 .. 2
=============================================================================
