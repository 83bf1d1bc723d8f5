----------------------- MODULE MCTransitionScheduler -----------------------
(***************************************************************************)
(* Three callers and three transitions over two domains, one shared unit   *)
(* and one shared exclusive resource: the requests overlap pairwise in     *)
(* every kind of item, and two of them are disjoint.                       *)
(***************************************************************************)
EXTENDS TransitionScheduler

CONSTANTS d1, d2, u1, r1

MCRequest ==
    {[domains |-> {d1}, units |-> {u1}, exclusive_resources |-> {}, duplicates |-> FALSE],
     [domains |-> {d2}, units |-> {u1}, exclusive_resources |-> {r1}, duplicates |-> FALSE],
     [domains |-> {d1}, units |-> {}, exclusive_resources |-> {r1}, duplicates |-> FALSE],
     [domains |-> {d2}, units |-> {}, exclusive_resources |-> {}, duplicates |-> FALSE],
     [domains |-> {}, units |-> {u1}, exclusive_resources |-> {}, duplicates |-> FALSE],
     [domains |-> {d1}, units |-> {}, exclusive_resources |-> {}, duplicates |-> TRUE]}
=============================================================================
