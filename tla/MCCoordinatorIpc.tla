-------------------------- MODULE MCCoordinatorIpc --------------------------
(* Instances of CoordinatorIpc, with its threads as model values. *)
EXTENDS CoordinatorIpc

CONSTANTS c1, s, w1
=============================================================================
