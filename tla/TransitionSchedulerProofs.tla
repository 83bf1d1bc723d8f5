--------------------- MODULE TransitionSchedulerProofs ---------------------
(***************************************************************************)
(* Proofs about the transition scheduler, for any number of callers,       *)
(* transitions, domains, units and exclusive resources.                    *)
(***************************************************************************)
EXTENDS TransitionScheduler, TLAPS

Waiting(c) == pc[c] \in {"asleep", "awake"}

\* A caller inside Acquire or holding a Lease acts for a real transition.
BusyOwner ==
    \A c \in Caller : pc[c] # "idle" => owner[c] \in Owner /\ request[c] \in Request

\* No two busy callers act for the same transition.
OwnersDistinct ==
    \A c, other \in Caller :
        pc[c] # "idle" /\ pc[other] # "idle" /\ owner[c] = owner[other] => c = other

\* leases_ has the transitions of the holding callers and no waiting one.
LeasesRegistered ==
    /\ \A c \in Caller : pc[c] = "holding" => owner[c] \in leases
    /\ \A c \in Caller : Waiting(c) => owner[c] \notin leases

\* A holder owns every item of its request ...
HolderOwns ==
    \A c \in Caller : pc[c] = "holding" =>
        /\ \A d \in request[c].domains : domains[d] = owner[c]
        /\ \A u \in request[c].units : units[u] = owner[c]
        /\ \A r \in request[c].exclusive_resources : exclusive_resources[r] = owner[c]

\* ... and every owned item belongs to a holder that asked for it.
OwnedByHolder ==
    /\ \A d \in Domain : domains[d] # NoOwner =>
         \E c \in Caller : pc[c] = "holding" /\ owner[c] = domains[d] /\ d \in request[c].domains
    /\ \A u \in Unit : units[u] # NoOwner =>
         \E c \in Caller : pc[c] = "holding" /\ owner[c] = units[u] /\ u \in request[c].units
    /\ \A r \in Resource : exclusive_resources[r] # NoOwner =>
         \E c \in Caller : /\ pc[c] = "holding" /\ owner[c] = exclusive_resources[r]
                           /\ r \in request[c].exclusive_resources

IInv ==
    /\ TypeOK
    /\ BusyOwner
    /\ OwnersDistinct
    /\ LeasesRegistered
    /\ HolderOwns
    /\ OwnedByHolder
    /\ NoLostWakeup

-----------------------------------------------------------------------------
(***************************************************************************)
(* Claim on free items gives them to the owner and touches nothing else.   *)
(***************************************************************************)
LEMMA ClaimEffect ==
    ASSUME NEW S, NEW owners \in [S -> Owner \cup {NoOwner}], NEW requested \in SUBSET S,
           NEW o \in Owner, Available(requested, owners)
    PROVE  /\ Claim(requested, o, owners) \in [S -> Owner \cup {NoOwner}]
           /\ \A id \in S :
                Claim(requested, o, owners)[id] = IF id \in requested THEN o ELSE owners[id]
  BY DEF Claim, Available

(***************************************************************************)
(* ReleaseOwned frees exactly what the owner had.                          *)
(***************************************************************************)
LEMMA ReleaseEffect ==
    ASSUME NEW S, NEW owners \in [S -> Owner \cup {NoOwner}], NEW o \in Owner
    PROVE  /\ ReleaseOwned(o, owners) \in [S -> Owner \cup {NoOwner}]
           /\ \A id \in S :
                ReleaseOwned(o, owners)[id] = IF owners[id] = o THEN NoOwner ELSE owners[id]
  BY DEF ReleaseOwned

(***************************************************************************)
(* What NotifyAll does to each caller.                                     *)
(***************************************************************************)
LEMMA NotifyEffect ==
    ASSUME NEW table \in [Caller -> Location]
    PROVE  /\ NotifyAll(table) \in [Caller -> Location]
           /\ \A c \in Caller :
                NotifyAll(table)[c] = IF table[c] = "asleep" THEN "awake" ELSE table[c]
  BY DEF NotifyAll, Location

(***************************************************************************)
(* A request names domains, units and resources.                           *)
(***************************************************************************)
LEMMA RequestType ==
    ASSUME NEW r \in Request \cup {NoRequest}
    PROVE  /\ r.domains \in SUBSET Domain
           /\ r.units \in SUBSET Unit
           /\ r.exclusive_resources \in SUBSET Resource
  BY SchedulerAssumption DEF NoRequest

(***************************************************************************)
(* Granting free items to a caller whose owner nobody else acts for keeps  *)
(* the invariant: the end of Acquire, whichever way its wait ended.        *)
(***************************************************************************)
LEMMA GrantStep ==
    ASSUME IInv, NEW c \in Caller, NEW o \in Owner, NEW r \in Request,
           pc[c] # "holding", o \notin leases,
           \A other \in Caller : other # c /\ pc[other] # "idle" => owner[other] # o,
           AllAvailable(r), Grant(c, o, r),
           owner' = [owner EXCEPT ![c] = o], request' = [request EXCEPT ![c] = r]
    PROVE  IInv'
<1> USE DEF IInv
<1>1. /\ r.domains \in SUBSET Domain /\ r.units \in SUBSET Unit
      /\ r.exclusive_resources \in SUBSET Resource
  BY RequestType
<1>2. /\ domains' \in [Domain -> Owner \cup {NoOwner}]
      /\ \A d \in Domain : domains'[d] = IF d \in r.domains THEN o ELSE domains[d]
  BY <1>1, ClaimEffect DEF Grant, AllAvailable, TypeOK
<1>3. /\ units' \in [Unit -> Owner \cup {NoOwner}]
      /\ \A u \in Unit : units'[u] = IF u \in r.units THEN o ELSE units[u]
  BY <1>1, ClaimEffect DEF Grant, AllAvailable, TypeOK
<1>4. /\ exclusive_resources' \in [Resource -> Owner \cup {NoOwner}]
      /\ \A x \in Resource : exclusive_resources'[x] =
           IF x \in r.exclusive_resources THEN o ELSE exclusive_resources[x]
  BY <1>1, ClaimEffect DEF Grant, AllAvailable, TypeOK
<1>5. /\ pc' \in [Caller -> Location] /\ pc'[c] = "holding"
      /\ \A other \in Caller : other # c => pc'[other] = pc[other]
  BY DEF Grant, TypeOK, Location
<1>6. /\ owner' \in [Caller -> Owner \cup {NoOwner}]
      /\ owner'[c] = o
      /\ \A other \in Caller : other # c => owner'[other] = owner[other]
  BY DEF TypeOK
<1>7. /\ request' \in [Caller -> Request \cup {NoRequest}]
      /\ request'[c] = r
      /\ \A other \in Caller : other # c => request'[other] = request[other]
  BY DEF TypeOK
<1>8. leases' = leases \cup {o}
  BY DEF Grant
<1>9. TypeOK'
  BY <1>2, <1>3, <1>4, <1>5, <1>6, <1>7, <1>8 DEF TypeOK
<1>10. BusyOwner'
  BY <1>5, <1>6, <1>7 DEF BusyOwner
<1>11. OwnersDistinct'
  BY <1>5, <1>6 DEF OwnersDistinct
<1>12. LeasesRegistered'
  BY <1>5, <1>6, <1>8 DEF LeasesRegistered, Waiting
<1>13. \A other \in Caller : other # c /\ pc[other] = "holding" =>
         /\ r.domains \cap request[other].domains = {}
         /\ r.units \cap request[other].units = {}
         /\ r.exclusive_resources \cap request[other].exclusive_resources = {}
  BY SchedulerAssumption DEF HolderOwns, AllAvailable, Available, BusyOwner
<1>14. HolderOwns'
  <2> SUFFICES ASSUME NEW e \in Caller, pc'[e] = "holding"
               PROVE  /\ \A d \in request'[e].domains : domains'[d] = owner'[e]
                      /\ \A u \in request'[e].units : units'[u] = owner'[e]
                      /\ \A x \in request'[e].exclusive_resources :
                           exclusive_resources'[x] = owner'[e]
    BY DEF HolderOwns
  <2>1. CASE e = c
    BY <2>1, <1>1, <1>2, <1>3, <1>4, <1>6, <1>7
  <2>2. CASE e # c
    <3>1. /\ request[e].domains \in SUBSET Domain /\ request[e].units \in SUBSET Unit
          /\ request[e].exclusive_resources \in SUBSET Resource
      BY RequestType DEF TypeOK
    <3>2. QED
      BY <2>2, <3>1, <1>2, <1>3, <1>4, <1>5, <1>6, <1>7, <1>13 DEF HolderOwns
  <2>3. QED
    BY <2>1, <2>2
<1>15. OwnedByHolder'
  BY <1>2, <1>3, <1>4, <1>5, <1>6, <1>7 DEF OwnedByHolder
<1>16. NoLostWakeup'
  <2> SUFFICES ASSUME NEW e \in Caller, pc'[e] = "asleep"
               PROVE  ~AllAvailable(request[e])'
    BY <1>5, <1>7 DEF NoLostWakeup, AllAvailable
  <2>1. /\ request[e].domains \in SUBSET Domain /\ request[e].units \in SUBSET Unit
        /\ request[e].exclusive_resources \in SUBSET Resource
    BY RequestType DEF TypeOK
  <2>2. e # c /\ request'[e] = request[e] /\ ~AllAvailable(request[e])
    BY <1>5, <1>7 DEF NoLostWakeup
  <2>3. QED
    BY <2>1, <2>2, <1>2, <1>3, <1>4, SchedulerAssumption DEF AllAvailable, Available
<1>17. QED
  BY <1>9, <1>10, <1>11, <1>12, <1>14, <1>15, <1>16

(***************************************************************************)
(* Going to sleep because something is taken keeps the invariant.          *)
(***************************************************************************)
LEMMA SleepStep ==
    ASSUME IInv, NEW c \in Caller, NEW o \in Owner, NEW r \in Request,
           pc[c] # "holding", o \notin leases,
           \A other \in Caller : other # c /\ pc[other] # "idle" => owner[other] # o,
           ~AllAvailable(r), Sleep(c),
           owner' = [owner EXCEPT ![c] = o], request' = [request EXCEPT ![c] = r]
    PROVE  IInv'
<1> USE DEF IInv, Sleep, maps
<1>1. /\ pc' \in [Caller -> Location] /\ pc'[c] = "asleep"
      /\ \A other \in Caller : other # c => pc'[other] = pc[other]
  BY DEF TypeOK, Location
<1>2. /\ owner' \in [Caller -> Owner \cup {NoOwner}]
      /\ owner'[c] = o
      /\ \A other \in Caller : other # c => owner'[other] = owner[other]
  BY DEF TypeOK
<1>3. /\ request' \in [Caller -> Request \cup {NoRequest}]
      /\ request'[c] = r
      /\ \A other \in Caller : other # c => request'[other] = request[other]
  BY DEF TypeOK
<1>4. TypeOK'
  BY <1>1, <1>2, <1>3 DEF TypeOK
<1>5. BusyOwner' /\ OwnersDistinct'
  BY <1>1, <1>2, <1>3 DEF BusyOwner, OwnersDistinct
<1>6. LeasesRegistered'
  BY <1>1, <1>2 DEF LeasesRegistered, Waiting
<1>7. HolderOwns'
  BY <1>1, <1>2, <1>3 DEF HolderOwns
<1>8. OwnedByHolder'
  BY <1>1, <1>2, <1>3 DEF OwnedByHolder
<1>9. NoLostWakeup'
  BY <1>1, <1>3 DEF NoLostWakeup, AllAvailable
<1>10. QED
  BY <1>4, <1>5, <1>6, <1>7, <1>8, <1>9

(***************************************************************************)
(* A waiting caller that looks again acts for an owner of its own.         *)
(***************************************************************************)
LEMMA WaiterFacts ==
    ASSUME IInv, NEW c \in Caller, Waiting(c)
    PROVE  /\ owner[c] \in Owner /\ request[c] \in Request
           /\ pc[c] # "holding" /\ owner[c] \notin leases
           /\ \A other \in Caller : other # c /\ pc[other] # "idle" => owner[other] # owner[c]
           /\ owner = [owner EXCEPT ![c] = owner[c]]
           /\ request = [request EXCEPT ![c] = request[c]]
  BY DEF IInv, TypeOK, BusyOwner, OwnersDistinct, LeasesRegistered, Waiting

(***************************************************************************)
(* Giving up at the deadline keeps the invariant.                          *)
(***************************************************************************)
LEMMA GiveUpStep ==
    ASSUME IInv, NEW c \in Caller, Waiting(c),
           pc' = [pc EXCEPT ![c] = "idle"], Forget(c), UNCHANGED <<leases, maps>>
    PROVE  IInv'
<1> USE DEF IInv, Forget, maps, Waiting
<1>1. /\ pc' \in [Caller -> Location] /\ pc'[c] = "idle"
      /\ \A other \in Caller : other # c => pc'[other] = pc[other]
  BY DEF TypeOK, Location
<1>2. /\ owner' \in [Caller -> Owner \cup {NoOwner}]
      /\ \A other \in Caller : other # c => owner'[other] = owner[other]
  BY DEF TypeOK
<1>3. /\ request' \in [Caller -> Request \cup {NoRequest}]
      /\ \A other \in Caller : other # c => request'[other] = request[other]
  BY DEF TypeOK
<1>4. TypeOK'
  BY <1>1, <1>2, <1>3 DEF TypeOK
<1>5. BusyOwner' /\ OwnersDistinct' /\ LeasesRegistered'
  BY <1>1, <1>2, <1>3 DEF BusyOwner, OwnersDistinct, LeasesRegistered
<1>6. HolderOwns' /\ OwnedByHolder'
  BY <1>1, <1>2, <1>3 DEF HolderOwns, OwnedByHolder
<1>7. NoLostWakeup'
  BY <1>1, <1>3 DEF NoLostWakeup, AllAvailable
<1>8. QED
  BY <1>4, <1>5, <1>6, <1>7

(***************************************************************************)
(* Destroying a lease keeps the invariant: it frees its own items only and *)
(* leaves nobody asleep.                                                   *)
(***************************************************************************)
LEMMA ReleaseStep ==
    ASSUME IInv, NEW c \in Caller, Release(c)
    PROVE  IInv'
<1> USE DEF IInv
<1>1. /\ owner[c] \in Owner
      /\ \A other \in Caller : other # c /\ pc[other] # "idle" => owner[other] # owner[c]
  BY DEF Release, BusyOwner, OwnersDistinct
<1>2. /\ domains' \in [Domain -> Owner \cup {NoOwner}]
      /\ \A d \in Domain : domains'[d] = IF domains[d] = owner[c] THEN NoOwner ELSE domains[d]
  BY <1>1, ReleaseEffect DEF Release, TypeOK
<1>3. /\ units' \in [Unit -> Owner \cup {NoOwner}]
      /\ \A u \in Unit : units'[u] = IF units[u] = owner[c] THEN NoOwner ELSE units[u]
  BY <1>1, ReleaseEffect DEF Release, TypeOK
<1>4. /\ exclusive_resources' \in [Resource -> Owner \cup {NoOwner}]
      /\ \A x \in Resource : exclusive_resources'[x] =
           IF exclusive_resources[x] = owner[c] THEN NoOwner ELSE exclusive_resources[x]
  BY <1>1, ReleaseEffect DEF Release, TypeOK
<1>5. /\ pc' \in [Caller -> Location] /\ pc'[c] = "idle"
      /\ \A other \in Caller : other # c =>
           pc'[other] = IF pc[other] = "asleep" THEN "awake" ELSE pc[other]
  <2>1. [pc EXCEPT ![c] = "idle"] \in [Caller -> Location]
    BY DEF TypeOK, Location
  <2>2. QED
    BY <2>1, NotifyEffect DEF Release, TypeOK
<1>6. /\ owner' \in [Caller -> Owner \cup {NoOwner}]
      /\ \A other \in Caller : other # c => owner'[other] = owner[other]
      /\ request' \in [Caller -> Request \cup {NoRequest}]
      /\ \A other \in Caller : other # c => request'[other] = request[other]
      /\ leases' = leases \ {owner[c]}
  BY DEF Release, Forget, TypeOK
<1>7. TypeOK'
  BY <1>2, <1>3, <1>4, <1>5, <1>6 DEF TypeOK
<1>8. BusyOwner' /\ OwnersDistinct'
  BY <1>5, <1>6 DEF BusyOwner, OwnersDistinct
<1>9. LeasesRegistered'
  BY <1>1, <1>5, <1>6 DEF LeasesRegistered, Waiting
<1>10. HolderOwns'
  <2> SUFFICES ASSUME NEW e \in Caller, pc'[e] = "holding"
               PROVE  /\ \A d \in request'[e].domains : domains'[d] = owner'[e]
                      /\ \A u \in request'[e].units : units'[u] = owner'[e]
                      /\ \A x \in request'[e].exclusive_resources :
                           exclusive_resources'[x] = owner'[e]
    BY DEF HolderOwns
  <2>1. /\ request[e].domains \in SUBSET Domain /\ request[e].units \in SUBSET Unit
        /\ request[e].exclusive_resources \in SUBSET Resource
    BY RequestType DEF TypeOK
  <2>2. e # c /\ pc[e] = "holding" /\ owner'[e] = owner[e] /\ request'[e] = request[e]
    BY <1>5, <1>6
  <2>3. QED
    BY <2>1, <2>2, <1>1, <1>2, <1>3, <1>4 DEF HolderOwns
<1>11. OwnedByHolder'
  BY <1>1, <1>2, <1>3, <1>4, <1>5, <1>6 DEF OwnedByHolder
<1>12. NoLostWakeup'
  BY <1>5 DEF NoLostWakeup
<1>13. QED
  BY <1>7, <1>8, <1>9, <1>10, <1>11, <1>12

-----------------------------------------------------------------------------
(***************************************************************************)
(* The strengthened invariant holds initially and every step keeps it.     *)
(***************************************************************************)
THEOREM InvariantInductive == Spec => []IInv
<1>1. Init => IInv
  <2> SUFFICES ASSUME Init PROVE IInv
    OBVIOUS
  <2>1. TypeOK
    BY DEF Init, TypeOK, Location
  <2>2. BusyOwner /\ OwnersDistinct /\ LeasesRegistered /\ HolderOwns /\ NoLostWakeup
    BY DEF Init, BusyOwner, OwnersDistinct, LeasesRegistered, HolderOwns, NoLostWakeup, Waiting
  <2>3. OwnedByHolder
    BY DEF Init, OwnedByHolder
  <2>4. QED
    BY <2>1, <2>2, <2>3 DEF IInv
<1>2. IInv /\ [Next]_vars => IInv'
  <2> SUFFICES ASSUME IInv, [Next]_vars PROVE IInv'
    OBVIOUS
  <2>1. ASSUME NEW c \in Caller, NEW o \in Owner \cup {NoOwner}, NEW r \in Request,
               Acquire(c, o, r)
        PROVE  IInv'
    <3>1. /\ o \in Owner /\ pc[c] # "holding" /\ o \notin leases
          /\ \A other \in Caller : other # c /\ pc[other] # "idle" => owner[other] # o
      BY <2>1 DEF Acquire, WellFormed, NotWaiting, IInv, TypeOK, Location, LeasesRegistered
    <3>2. CASE AllAvailable(r) /\ Grant(c, o, r)
      BY <2>1, <3>1, <3>2, GrantStep DEF Acquire
    <3>3. CASE ~AllAvailable(r) /\ Sleep(c)
      BY <2>1, <3>1, <3>3, SleepStep DEF Acquire
    <3>4. QED
      BY <2>1, <3>2, <3>3 DEF Acquire
  <2>2. ASSUME NEW c \in Caller, NEW o \in Owner \cup {NoOwner}, NEW r \in Request,
               AcquireRejected(c, o, r)
        PROVE  IInv'
    <3>1. UNCHANGED vars
      BY <2>2 DEF AcquireRejected
    <3>2. QED
      BY <3>1 DEF vars, maps, IInv, TypeOK, BusyOwner, OwnersDistinct, LeasesRegistered, Waiting,
                  HolderOwns, OwnedByHolder, NoLostWakeup, AllAvailable
  <2>3. ASSUME NEW c \in Caller, Wake(c)
        PROVE  IInv'
    <3>1. Waiting(c) /\ UNCHANGED <<owner, request>>
      BY <2>3 DEF Wake, Waiting
    <3>2. CASE AllAvailable(request[c]) /\ Grant(c, owner[c], request[c])
      BY <3>1, <3>2, WaiterFacts, GrantStep
    <3>3. CASE ~AllAvailable(request[c]) /\ Sleep(c)
      BY <3>1, <3>3, WaiterFacts, SleepStep
    <3>4. QED
      BY <2>3, <3>2, <3>3 DEF Wake
  <2>4. ASSUME NEW c \in Caller, DeadlineExpires(c)
        PROVE  IInv'
    <3>1. Waiting(c)
      BY <2>4 DEF DeadlineExpires, Waiting
    <3>2. CASE AllAvailable(request[c])
      BY <2>4, <3>1, <3>2, WaiterFacts, GrantStep DEF DeadlineExpires
    <3>3. CASE ~AllAvailable(request[c])
      BY <2>4, <3>1, <3>3, GiveUpStep DEF DeadlineExpires
    <3>4. QED
      BY <3>2, <3>3
  <2>5. ASSUME NEW c \in Caller, Release(c)
        PROVE  IInv'
    BY <2>5, ReleaseStep
  <2>6. CASE UNCHANGED vars
    BY <2>6 DEF vars, maps, IInv, TypeOK, BusyOwner, OwnersDistinct, LeasesRegistered, Waiting,
                HolderOwns, OwnedByHolder, NoLostWakeup, AllAvailable
  <2>7. QED
    BY <2>1, <2>2, <2>3, <2>4, <2>5, <2>6 DEF Next
<1>3. QED
  BY <1>1, <1>2, PTL DEF Spec

(***************************************************************************)
(* Two live leases never overlap: a shared item would be owned by both     *)
(* transitions, and owners of busy callers are distinct.                   *)
(***************************************************************************)
LEMMA DisjointFromInvariant == IInv => LeasesDisjoint
<1> SUFFICES ASSUME IInv, NEW c \in Caller, NEW other \in Caller, c # other,
                    pc[c] = "holding", pc[other] = "holding"
             PROVE  /\ request[c].domains \cap request[other].domains = {}
                    /\ request[c].units \cap request[other].units = {}
                    /\ request[c].exclusive_resources
                         \cap request[other].exclusive_resources = {}
  BY DEF LeasesDisjoint, Holding
<1>1. owner[c] # owner[other]
  BY DEF IInv, OwnersDistinct
<1>2. QED
  BY <1>1 DEF IInv, HolderOwns

(***************************************************************************)
(* The variables keep their types.                                         *)
(***************************************************************************)
THEOREM TypeCorrect == Spec => []TypeOK
  BY InvariantInductive, PTL DEF IInv

(***************************************************************************)
(* Mutual exclusion of leases, for every number of callers and items.      *)
(***************************************************************************)
THEOREM MutualExclusion == Spec => []LeasesDisjoint
  BY InvariantInductive, DisjointFromInvariant, PTL

(***************************************************************************)
(* Every live lease is registered under an owner of its own, so Release's  *)
(* early return is never taken.                                            *)
(***************************************************************************)
THEOREM LeaseRegistered == Spec => []HolderHasLease
<1>1. IInv => HolderHasLease
  BY DEF IInv, LeasesRegistered, OwnersDistinct, HolderHasLease, Holding
<1>2. QED
  BY <1>1, InvariantInductive, PTL

(***************************************************************************)
(* The owner maps hold exactly the items of the live leases.               *)
(***************************************************************************)
THEOREM MapsExact == Spec => []OwnerMapsExact
<1>1. IInv => OwnerMapsExact
  <2> SUFFICES ASSUME IInv PROVE OwnerMapsExact
    OBVIOUS
  <2>1. \A c \in Caller : pc[c] = "holding" => owner[c] # NoOwner
    BY SchedulerAssumption DEF IInv, BusyOwner
  <2>2. QED
    BY <2>1 DEF IInv, HolderOwns, OwnedByHolder, OwnerMapsExact, Holding
<1>2. QED
  BY <1>1, InvariantInductive, PTL

(***************************************************************************)
(* No lost wakeup: whoever sleeps un-notified still has to wait.           *)
(***************************************************************************)
THEOREM WakeupSafety == Spec => []NoLostWakeup
  BY InvariantInductive, PTL DEF IInv

-----------------------------------------------------------------------------
Held == [c \in Caller |-> IF pc[c] = "holding" THEN Items(request[c]) ELSE {}]

AllItems == ({"domain"} \X Domain) \cup ({"unit"} \X Unit) \cup ({"resource"} \X Resource)

(***************************************************************************)
(* Granting a lease is a Grant of the abstract locks.                      *)
(***************************************************************************)
LEMMA GrantImplements ==
    ASSUME IInv, NEW c \in Caller, NEW o \in Owner, NEW r \in Request,
           pc[c] # "holding", AllAvailable(r), Grant(c, o, r),
           request' = [request EXCEPT ![c] = r]
    PROVE  Locks!Next
<1> USE DEF IInv
<1>1. Held[c] = {}
  BY DEF Held
<1>2. ASSUME NEW other \in Caller \ {c}
      PROVE  Held[other] \cap Items(r) = {}
  <2>1. CASE pc[other] # "holding"
    BY <2>1 DEF Held
  <2>2. CASE pc[other] = "holding"
    <3>1. /\ r.domains \cap request[other].domains = {}
          /\ r.units \cap request[other].units = {}
          /\ r.exclusive_resources \cap request[other].exclusive_resources = {}
      BY <2>2, SchedulerAssumption DEF HolderOwns, AllAvailable, Available, BusyOwner
    <3>2. Held[other] = Items(request[other])
      BY <2>2 DEF Held
    <3>3. QED
      BY <3>1, <3>2 DEF Items
  <2>3. QED
    BY <2>1, <2>2
<1>3. Held' = [Held EXCEPT ![c] = Items(r)]
  BY DEF Held, Grant, TypeOK
<1>4. Items(r) \in SUBSET AllItems
  BY RequestType DEF Items, AllItems
<1>5. QED
  BY <1>1, <1>2, <1>3, <1>4 DEF Locks!Next, Locks!Grant, Held, AllItems

(***************************************************************************)
(* The scheduler implements exclusive all-or-nothing locks: grants and     *)
(* releases are Grant and Drop steps, everything else is a stutter.        *)
(***************************************************************************)
THEOREM Refinement == Spec => ImplementsLocks
<1>1. Init => Locks!Init
  BY DEF Init, Locks!Init
<1>2. IInv /\ [Next]_vars => [Locks!Next]_Held
  <2> SUFFICES ASSUME IInv, [Next]_vars PROVE [Locks!Next]_Held
    OBVIOUS
  <2>1. ASSUME NEW c \in Caller, NEW o \in Owner \cup {NoOwner}, NEW r \in Request,
               Acquire(c, o, r)
        PROVE  [Locks!Next]_Held
    <3>1. o \in Owner /\ pc[c] = "idle" /\ request' = [request EXCEPT ![c] = r]
      BY <2>1 DEF Acquire, WellFormed
    <3>2. CASE AllAvailable(r) /\ Grant(c, o, r)
      BY <3>1, <3>2, GrantImplements
    <3>3. CASE Sleep(c)
      BY <3>1, <3>3 DEF Sleep, Held, IInv, TypeOK
    <3>4. QED
      BY <2>1, <3>2, <3>3 DEF Acquire
  <2>2. ASSUME NEW c \in Caller, Wake(c) \/ DeadlineExpires(c)
        PROVE  [Locks!Next]_Held
    <3>1. Waiting(c)
      BY <2>2 DEF Wake, DeadlineExpires, Waiting
    <3>2. CASE AllAvailable(request[c]) /\ Grant(c, owner[c], request[c])
      <4>1. request' = request
        BY <2>2, <3>2 DEF Wake, DeadlineExpires
      <4>2. QED
        BY <3>1, <3>2, <4>1, WaiterFacts, GrantImplements
    <3>3. CASE ~AllAvailable(request[c])
      <4>1. /\ pc' \in [Caller -> Location] /\ pc'[c] # "holding"
            /\ \A other \in Caller :
                 other # c => pc'[other] = pc[other] /\ request'[other] = request[other]
        BY <2>2, <3>3 DEF Wake, DeadlineExpires, Sleep, Forget, IInv, TypeOK, Location
      <4>2. QED
        BY <3>1, <4>1 DEF Held, Waiting
    <3>4. QED
      BY <2>2, <3>2, <3>3 DEF Wake, DeadlineExpires
  <2>3. ASSUME NEW c \in Caller, Release(c)
        PROVE  [Locks!Next]_Held
    <3>1. [pc EXCEPT ![c] = "idle"] \in [Caller -> Location]
      BY DEF IInv, TypeOK, Location
    <3>2. /\ pc'[c] = "idle"
          /\ \A other \in Caller : other # c =>
               /\ pc'[other] = "holding" <=> pc[other] = "holding"
               /\ request'[other] = request[other]
      BY <2>3, <3>1, NotifyEffect DEF Release, Forget, IInv, TypeOK
    <3>3. Held' = [Held EXCEPT ![c] = {}]
      BY <3>2 DEF Held
    <3>4. QED
      BY <3>3 DEF Locks!Next, Locks!Drop, Held
  <2>4. CASE UNCHANGED vars
    BY <2>4 DEF vars, Held
  <2>5. QED
    BY <2>1, <2>2, <2>3, <2>4 DEF Next, AcquireRejected
<1>3. QED
  BY <1>1, <1>2, InvariantInductive, PTL DEF Spec, ImplementsLocks, Locks!Spec, Held
=============================================================================
