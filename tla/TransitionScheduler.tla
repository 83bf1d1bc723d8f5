------------------------ MODULE TransitionScheduler ------------------------
(***************************************************************************)
(* exec/src/scheduler.cpp: the lease table that keeps concurrent mode      *)
(* transitions apart.  A caller (a worker thread inside Engine::Execute)   *)
(* asks for a set of domains, execution units and exclusive resources on   *)
(* behalf of a transition.  Acquire grants all of them or none, sleeping   *)
(* on one condition variable until they are free or a deadline passes.     *)
(* Each action is one critical section of State::mutex_.                   *)
(***************************************************************************)
EXTENDS FiniteSets

CONSTANTS
    Caller,     \* threads that call Acquire
    Owner,      \* transition identifiers
    NoOwner,    \* TransitionId{}, the reserved identifier zero
    Domain, Unit, Resource,
    Request     \* the TransitionResources that callers ask for

ASSUME SchedulerAssumption ==
    /\ NoOwner \notin Owner
    /\ Request \subseteq
         [domains : SUBSET Domain, units : SUBSET Unit,
          exclusive_resources : SUBSET Resource, duplicates : BOOLEAN]

VARIABLES
    leases,               \* owners that have an entry in leases_
    domains,              \* domains_: who owns each domain
    units,                \* units_
    exclusive_resources,  \* exclusive_resources_
    pc,                   \* where each caller is
    owner,                \* the owner a caller acts for
    request               \* what it asked for

maps == <<domains, units, exclusive_resources>>
vars == <<leases, maps, pc, owner, request>>

NoRequest ==
    [domains |-> {}, units |-> {}, exclusive_resources |-> {}, duplicates |-> FALSE]

(* asleep: inside condition_.wait_until.  awake: notified, the mutex not   *)
(* yet retaken.  holding: owns a live Lease object.                        *)
Location == {"idle", "asleep", "awake", "holding"}

TypeOK ==
    /\ leases \subseteq Owner
    /\ domains \in [Domain -> Owner \cup {NoOwner}]
    /\ units \in [Unit -> Owner \cup {NoOwner}]
    /\ exclusive_resources \in [Resource -> Owner \cup {NoOwner}]
    /\ pc \in [Caller -> Location]
    /\ owner \in [Caller -> Owner \cup {NoOwner}]
    /\ request \in [Caller -> Request \cup {NoRequest}]

Init ==
    /\ leases = {}
    /\ domains = [d \in Domain |-> NoOwner]
    /\ units = [u \in Unit |-> NoOwner]
    /\ exclusive_resources = [r \in Resource |-> NoOwner]
    /\ pc = [c \in Caller |-> "idle"]
    /\ owner = [c \in Caller |-> NoOwner]
    /\ request = [c \in Caller |-> NoRequest]

-----------------------------------------------------------------------------
Available(requested, owners) == \A id \in requested : owners[id] = NoOwner

\* emplace never replaces an entry that exists.
Claim(requested, o, owners) ==
    [id \in DOMAIN owners |->
        IF id \in requested /\ owners[id] = NoOwner THEN o ELSE owners[id]]

ReleaseOwned(o, owners) ==
    [id \in DOMAIN owners |-> IF owners[id] = o THEN NoOwner ELSE owners[id]]

\* Mutant: the units of a request are not checked.
AllAvailableNoUnits(r) ==
    /\ Available(r.domains, domains)
    /\ Available(r.exclusive_resources, exclusive_resources)

AllAvailable(r) ==
    /\ Available(r.domains, domains)
    /\ Available(r.units, units)
    /\ Available(r.exclusive_resources, exclusive_resources)

WellFormed(o, r) == o # NoOwner /\ r.domains # {} /\ ~r.duplicates

\* What Acquire does once its wait ends with the predicate true.
Grant(c, o, r) ==
    /\ domains' = Claim(r.domains, o, domains)
    /\ units' = Claim(r.units, o, units)
    /\ exclusive_resources' = Claim(r.exclusive_resources, o, exclusive_resources)
    /\ leases' = leases \cup {o}
    /\ pc' = [pc EXCEPT ![c] = "holding"]

Sleep(c) ==
    /\ pc' = [pc EXCEPT ![c] = "asleep"]
    /\ UNCHANGED <<leases, maps>>

(***************************************************************************)
(* One thread at a time waits for a given transition: ids come from a      *)
(* fetch_add and the coordinator executes each accepted transition once.   *)
(* A second Acquire for an owner that already holds a lease may happen and *)
(* is refused (AcquireRejected).                                           *)
(***************************************************************************)
NotWaiting(o) == \A c \in Caller : owner[c] = o => pc[c] \notin {"asleep", "awake"}

Acquire(c, o, r) ==
    /\ pc[c] = "idle"
    /\ WellFormed(o, r) /\ o \notin leases /\ NotWaiting(o)
    /\ owner' = [owner EXCEPT ![c] = o]
    /\ request' = [request EXCEPT ![c] = r]
    /\ \/ AllAvailable(r) /\ Grant(c, o, r)
       \/ ~AllAvailable(r) /\ Sleep(c)

\* Malformed requests and a second lease for the same owner return an error.
AcquireRejected(c, o, r) ==
    /\ pc[c] = "idle"
    /\ ~WellFormed(o, r) \/ o \in leases
    /\ UNCHANGED vars

\* A notified caller retakes the mutex and evaluates the predicate again.
Wake(c) ==
    /\ pc[c] = "awake"
    /\ \/ AllAvailable(request[c]) /\ Grant(c, owner[c], request[c])
       \/ ~AllAvailable(request[c]) /\ Sleep(c)
    /\ UNCHANGED <<owner, request>>

\* The arguments live in the frame of the call and of the Lease it returns.
Forget(c) ==
    /\ owner' = [owner EXCEPT ![c] = NoOwner]
    /\ request' = [request EXCEPT ![c] = NoRequest]

\* wait_until returns the predicate's value at the deadline.
DeadlineExpires(c) ==
    /\ pc[c] \in {"asleep", "awake"}
    /\ \/ /\ AllAvailable(request[c])
          /\ Grant(c, owner[c], request[c])
          /\ UNCHANGED <<owner, request>>
       \/ /\ ~AllAvailable(request[c])
          /\ pc' = [pc EXCEPT ![c] = "idle"]
          /\ Forget(c)
          /\ UNCHANGED <<leases, maps>>

\* Mutant: Release does not notify.
NotifyNobody(table) == table

\* Mutant: Release notifies one waiter (notify_one).
NotifyOne(table) ==
    LET asleep == {c \in Caller : table[c] = "asleep"}
    IN  IF asleep = {} THEN table
        ELSE [table EXCEPT ![CHOOSE c \in asleep : TRUE] = "awake"]

NotifyAll(table) == [c \in Caller |-> IF table[c] = "asleep" THEN "awake" ELSE table[c]]

\* Mutant: the exclusive resources stay claimed.
ReleaseKeepsResources(c) ==
    /\ pc[c] = "holding"
    /\ leases' = leases \ {owner[c]}
    /\ domains' = ReleaseOwned(owner[c], domains)
    /\ units' = ReleaseOwned(owner[c], units)
    /\ pc' = NotifyAll([pc EXCEPT ![c] = "idle"])
    /\ Forget(c)
    /\ UNCHANGED exclusive_resources

(***************************************************************************)
(* Lease::Reset, run by the destructor at the end of Execute.  Release's   *)
(* early return for an owner without a lease is unreachable (see           *)
(* HolderHasLease), so the action has no branch for it.                    *)
(***************************************************************************)
Release(c) ==
    /\ pc[c] = "holding"
    /\ leases' = leases \ {owner[c]}
    /\ domains' = ReleaseOwned(owner[c], domains)
    /\ units' = ReleaseOwned(owner[c], units)
    /\ exclusive_resources' = ReleaseOwned(owner[c], exclusive_resources)
    /\ pc' = NotifyAll([pc EXCEPT ![c] = "idle"])
    /\ Forget(c)

Next ==
    \E c \in Caller :
        \/ \E o \in Owner \cup {NoOwner}, r \in Request :
             Acquire(c, o, r) \/ AcquireRejected(c, o, r)
        \/ Wake(c)
        \/ DeadlineExpires(c)
        \/ Release(c)

(***************************************************************************)
(* Fairness: a notified thread is scheduled, and Execute returns,          *)
(* destroying its lease.  Deadlines may pass but are not relied on: they   *)
(* can be as far away as the client chose.                                 *)
(***************************************************************************)
Fairness == \A c \in Caller : WF_vars(Wake(c)) /\ WF_vars(Release(c))

Spec == Init /\ [][Next]_vars /\ Fairness
-----------------------------------------------------------------------------
Holding == {c \in Caller : pc[c] = "holding"}

(***************************************************************************)
(* Two live leases never share a domain, a unit or an exclusive resource:  *)
(* the reason Execute may stop and start units without holding mutex_.     *)
(***************************************************************************)
LeasesDisjoint ==
    \A c, other \in Holding : c # other =>
        /\ request[c].domains \cap request[other].domains = {}
        /\ request[c].units \cap request[other].units = {}
        /\ request[c].exclusive_resources \cap request[other].exclusive_resources = {}

(***************************************************************************)
(* Every live Lease is registered under an owner of its own, so that       *)
(* destroying it never hits Release's early return nor frees what another  *)
(* caller relies on.                                                       *)
(***************************************************************************)
HolderHasLease ==
    /\ \A c \in Holding : owner[c] \in leases
    /\ \A c, other \in Holding : owner[c] = owner[other] => c = other

(***************************************************************************)
(* The three owner maps hold exactly what the live leases asked for: no    *)
(* item stays locked after its lease is gone, none is lost while held.     *)
(***************************************************************************)
OwnerMapsExact ==
    /\ \A d \in Domain : domains[d] # NoOwner
         <=> \E c \in Holding : d \in request[c].domains /\ owner[c] = domains[d]
    /\ \A u \in Unit : units[u] # NoOwner
         <=> \E c \in Holding : u \in request[c].units /\ owner[c] = units[u]
    /\ \A r \in Resource : exclusive_resources[r] # NoOwner
         <=> \E c \in Holding :
               r \in request[c].exclusive_resources /\ owner[c] = exclusive_resources[r]

(***************************************************************************)
(* No lost wakeup: a caller asleep on the condition variable that nobody   *)
(* has notified still waits for something another lease owns.              *)
(***************************************************************************)
NoLostWakeup == \A c \in Caller : pc[c] = "asleep" => ~AllAvailable(request[c])

Items(r) ==
    ({"domain"} \X r.domains) \cup ({"unit"} \X r.units)
        \cup ({"resource"} \X r.exclusive_resources)

(***************************************************************************)
(* A caller waits for ever only because it is overtaken: one other caller  *)
(* takes, gives back and takes again something that it asked for.  No      *)
(* lease that stays and no wake-up that went to the wrong waiter can keep  *)
(* it waiting.  (scheduler.cpp has no queue, so overtaking is possible;    *)
(* the deadline is what ends it.)                                          *)
(***************************************************************************)
OnlyOvertaken ==
    \A c \in Caller : <>[](pc[c] \in {"asleep", "awake"}) =>
        \E other \in Caller \ {c} :
            /\ []<>(pc[other] = "holding" /\ Items(request[other]) \cap Items(request[c]) # {})
            /\ []<>(pc[other] # "holding")

Locks == INSTANCE ResourceLocks WITH
    Item <- ({"domain"} \X Domain) \cup ({"unit"} \X Unit) \cup ({"resource"} \X Resource),
    held <- [c \in Caller |-> IF pc[c] = "holding" THEN Items(request[c]) ELSE {}]

(***************************************************************************)
(* The scheduler implements all-or-nothing exclusive locking               *)
(* (ResourceLocks): waiting, waking and timing out are invisible.          *)
(***************************************************************************)
ImplementsLocks == Locks!Spec
=============================================================================
