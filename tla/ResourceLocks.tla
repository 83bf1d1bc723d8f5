--------------------------- MODULE ResourceLocks ---------------------------
(***************************************************************************)
(* What the transition scheduler promises its callers: a caller holds a    *)
(* whole set of items or none, and no item is held by two callers at once. *)
(* How callers wait, time out and wake up is no part of the promise.       *)
(***************************************************************************)
CONSTANTS Caller, Item

VARIABLE held   \* held[c]: the items caller c has been granted

TypeOK == held \in [Caller -> SUBSET Item]

Init == held = [c \in Caller |-> {}]

Grant(c, items) ==
    /\ held[c] = {}
    /\ \A other \in Caller \ {c} : held[other] \cap items = {}
    /\ held' = [held EXCEPT ![c] = items]

Drop(c) == held' = [held EXCEPT ![c] = {}]

Next ==
    \E c \in Caller :
        \/ Drop(c)
        \/ \E items \in SUBSET Item : Grant(c, items)

Spec == Init /\ [][Next]_held
=============================================================================
