--------------------------- MODULE InprocTransport ---------------------------
(***************************************************************************)
(* The in-process transport (com/transports/inproc/src/                    *)
(* inproc_transport.cpp).  A function of its ABI is a section under the    *)
(* mutex of the transport followed by steps outside it: tasks handed to    *)
(* the dispatcher of the host, and the deactivation of a watch, of a       *)
(* subscription or of a server under the gate of its callbacks.  An        *)
(* operator here is the section under the mutex: it answers with the new   *)
(* transport, the status and the steps the caller still has to take.       *)
(*                                                                         *)
(* All endpoints are of one service, instance, element and route epoch.    *)
(***************************************************************************)
EXTENDS Naturals, Sequences, SequencesExt, FiniteSets, TLC

CONSTANTS
    MaxEndpoints, MaxOperations,   \* the limits of the configuration
    None

EventPublisher == "event_publisher"
EventSubscriber == "event_subscriber"
MethodClient == "method_client"
MethodServer == "method_server"
Announced == {EventPublisher, MethodServer}

\* "gated" holds the Watch, Subscription and Server objects.  A task keeps the one it was made
\* for alive, so an object outlives its entry in the tables.
Stopped == [running |-> FALSE, lock |-> None, next |-> 1, health |-> "stopped", health_sequence |-> 0,
            endpoints |-> <<>>, subscriptions |-> <<>>, watches |-> {}, servers |-> <<>>,
            pending |-> <<>>, loans |-> {}, gated |-> <<>>]

Gated(user) == [active |-> TRUE, holder |-> None, depth |-> 0, user |-> user, state_handler |-> FALSE]

Answer(t, status, value, steps) == [t |-> t, status |-> status, value |-> value, steps |-> steps]
Refuse(t, status) == Answer(t, status, 0, <<>>)

Erase(f, keys) == [k \in DOMAIN f \ keys |-> f[k]]
Insert(f, key, value) == (key :> value) @@ f
InOrder(handles) == SetToSortSeq(handles, <)

\* A step that hands tasks to the dispatcher, one by one; "strict" stops at the first refusal.
Dispatching(tasks, strict) ==
    IF tasks = <<>> THEN <<>> ELSE <<[at |-> "dispatch", tasks |-> tasks, strict |-> strict]>>
Task(kind, handle, value) == [kind |-> kind, handle |-> handle, value |-> value]
Completion(user) == Task("completion", user, 0)     \* whatever its status
Notices(handles, available) ==
    Dispatching([i \in 1..Len(handles) |-> Task("discovery", handles[i], available)], FALSE)
Deactivating(handles) == [i \in 1..Len(handles) |-> [at |-> "deactivate", handle |-> handles[i]]]
HealthNotice(t) == <<[at |-> "health", state |-> t.health, sequence |-> t.health_sequence]>>

Start(t) ==
    LET started == [t EXCEPT !.running = TRUE, !.health = "ready", !.health_sequence = @ + 1]
    IN  IF t.running THEN Refuse(t, "invalid_state")
        ELSE Answer(started, "ok", 0, HealthNotice(started))

\* Mutant: the pending requests are forgotten with the rest.
StopDropsPending(t) ==
    LET stopped == [Stopped EXCEPT !.next = t.next, !.gated = t.gated,
                                   !.health_sequence = t.health_sequence + 1]
    IN  IF ~t.running THEN Refuse(t, "ok")
        ELSE Answer(stopped, "ok", 0,
                    Deactivating(InOrder(DOMAIN t.subscriptions) \o InOrder(t.watches)
                                   \o InOrder({t.servers[e] : e \in DOMAIN t.servers}))
                    \o HealthNotice(stopped))

\* Everything is forgotten under the mutex; the gates are closed and the pending requests
\* completed afterwards.
Stop(t) ==
    LET stopped == [Stopped EXCEPT !.next = t.next, !.gated = t.gated,
                                   !.health_sequence = t.health_sequence + 1]
        requests == InOrder(DOMAIN t.pending)
        closing == InOrder(DOMAIN t.subscriptions) \o InOrder(t.watches)
                      \o InOrder({t.servers[e] : e \in DOMAIN t.servers})
        completions == [i \in 1..Len(requests) |-> Completion(t.pending[requests[i]])]
    IN  IF ~t.running THEN Refuse(t, "ok")
        ELSE Answer(stopped, "ok", 0,
                    Deactivating(closing) \o Dispatching(completions, FALSE) \o HealthNotice(stopped))

-----------------------------------------------------------------------------
\* Mutant: a watch learns of later announcements only.
WatchStartWithoutSnapshot(t, user) ==
    IF ~t.running THEN Refuse(t, "invalid_state")
    ELSE Answer([t EXCEPT !.next = @ + 1, !.watches = @ \cup {t.next},
                          !.gated = Insert(@, t.next, Gated(user))], "ok", t.next, <<>>)

WatchStart(t, user) ==
    LET watching == [t EXCEPT !.next = @ + 1, !.watches = @ \cup {t.next},
                              !.gated = Insert(@, t.next, Gated(user))]
        available == {e \in DOMAIN t.endpoints : t.endpoints[e] \in Announced}
    IN  IF ~t.running THEN Refuse(t, "invalid_state")
        ELSE Answer(watching, "ok", t.next,
                    Notices([i \in 1..Len(InOrder(available)) |-> t.next], TRUE))

WatchStop(t, watch) ==
    IF watch \notin t.watches THEN Refuse(t, "not_found")
    ELSE Answer([t EXCEPT !.watches = @ \ {watch}], "ok", 0, Deactivating(<<watch>>))

EndpointCreate(t, kind) ==
    LET created == [t EXCEPT !.next = @ + 1, !.endpoints = Insert(@, t.next, kind)]
        notify == IF kind \in Announced THEN InOrder(t.watches) ELSE <<>>
    IN  IF ~t.running THEN Refuse(t, "invalid_state")
        ELSE IF Cardinality(DOMAIN t.endpoints) >= MaxEndpoints THEN Refuse(t, "resource_exhausted")
        ELSE Answer(created, "ok", t.next, Notices(notify, TRUE))

EndpointDestroy(t, endpoint) ==
    LET destroyed == [t EXCEPT !.endpoints = Erase(@, {endpoint}), !.servers = Erase(@, {endpoint})]
        server == IF endpoint \in DOMAIN t.servers THEN <<t.servers[endpoint]>> ELSE <<>>
        notify == IF t.running /\ t.endpoints[endpoint] \in Announced THEN InOrder(t.watches) ELSE <<>>
    IN  IF \E s \in DOMAIN t.subscriptions : t.subscriptions[s] = endpoint THEN Refuse(t, "invalid_state")
        ELSE IF endpoint \notin DOMAIN t.endpoints THEN Refuse(t, "not_found")
        ELSE Answer(destroyed, "ok", 0, Deactivating(server) \o Notices(notify, FALSE))

-----------------------------------------------------------------------------
Subscribe(t, endpoint, user) ==
    LET subscribed == [t EXCEPT !.next = @ + 1, !.subscriptions = Insert(@, t.next, endpoint),
                                !.gated = Insert(@, t.next, Gated(user))]
    IN  IF endpoint \notin DOMAIN t.endpoints THEN Refuse(t, "not_found")
        ELSE IF t.endpoints[endpoint] # EventSubscriber THEN Refuse(t, "invalid_argument")
        ELSE Answer(subscribed, "ok", t.next, <<>>)

\* Mutant: the entry is erased and the callbacks are not waited for.
UnsubscribeWithoutGate(t, subscription) ==
    IF subscription \notin DOMAIN t.subscriptions THEN Refuse(t, "not_found")
    ELSE Answer([t EXCEPT !.subscriptions = Erase(@, {subscription})], "ok", 0, <<>>)

Unsubscribe(t, subscription) ==
    IF subscription \notin DOMAIN t.subscriptions THEN Refuse(t, "not_found")
    ELSE Answer([t EXCEPT !.subscriptions = Erase(@, {subscription})], "ok", 0,
                Deactivating(<<subscription>>))

\* The one function that waits for a gate with the mutex in its hand; see StateHandlerGate.
SetSubscriptionStateHandler(t, subscription, caller) ==
    IF subscription \notin DOMAIN t.subscriptions THEN Refuse(t, "not_found")
    ELSE Answer([t EXCEPT !.lock = caller], "ok", 0,
                <<[at |-> "state_handler", handle |-> subscription]>>)

StateHandlerGate(t, subscription) ==
    IF ~t.gated[subscription].active THEN Refuse([t EXCEPT !.lock = None], "not_found")
    ELSE Answer([t EXCEPT !.lock = None, !.gated[subscription].state_handler = TRUE], "ok", 0,
                <<[at |-> "state", user |-> t.gated[subscription].user, state |-> "active"]>>)

Deliver(t, publisher) ==
    LET Receives(s) == t.subscriptions[s] \in DOMAIN t.endpoints
        targets == InOrder({s \in DOMAIN t.subscriptions : Receives(s)})
    IN  IF ~t.running THEN Refuse(t, "invalid_state")
        ELSE IF publisher \notin DOMAIN t.endpoints THEN Refuse(t, "not_found")
        ELSE Answer(t, "ok", 0,
                    Dispatching([i \in 1..Len(targets) |-> Task("sample", targets[i], publisher)], TRUE))

LoanAcquire(t, endpoint) ==
    IF ~t.running THEN Refuse(t, "invalid_state")
    ELSE IF endpoint \notin DOMAIN t.endpoints THEN Refuse(t, "not_found")
    ELSE Answer([t EXCEPT !.next = @ + 1, !.loans = @ \cup {t.next}], "ok", t.next, <<>>)

\* The loan is given up under the mutex, whatever Deliver answers then.
LoanPublish(t, endpoint, loan) ==
    IF loan \notin t.loans THEN Refuse(t, "not_found")
    ELSE Answer([t EXCEPT !.loans = @ \ {loan}], "ok", 0,
                <<[at |-> "deliver", endpoint |-> endpoint]>>)

LoanRelease(t, loan) ==
    IF ~t.running THEN Refuse(t, "invalid_state")
    ELSE IF loan \notin t.loans THEN Refuse(t, "not_found")
    ELSE Answer([t EXCEPT !.loans = @ \ {loan}], "ok", 0, <<>>)

-----------------------------------------------------------------------------
\* A user of None withdraws the handler.
SetRequestHandler(t, endpoint, user) ==
    LET handled == [t EXCEPT !.next = @ + 1, !.servers = Insert(@, endpoint, t.next),
                             !.gated = Insert(@, t.next, Gated(user))]
        removed == IF endpoint \in DOMAIN t.servers THEN <<t.servers[endpoint]>> ELSE <<>>
    IN  IF ~t.running THEN Refuse(t, "invalid_state")
        ELSE IF endpoint \notin DOMAIN t.endpoints THEN Refuse(t, "not_found")
        ELSE IF user # None THEN Answer(handled, "ok", 0, <<>>)
        ELSE Answer([t EXCEPT !.servers = Erase(@, {endpoint})], "ok", 0, Deactivating(removed))

\* late: the deadline has passed.  The request stays pending when the dispatcher refuses its task.
Request(t, client, user, late) ==
    LET candidates == {e \in DOMAIN t.servers : e \in DOMAIN t.endpoints}
        accepted == [t EXCEPT !.next = @ + 1, !.pending = Insert(@, t.next, user)]
        server == t.servers[CHOOSE e \in candidates : TRUE]
    IN  IF late THEN Refuse(t, "deadline_exceeded")
        ELSE IF ~t.running THEN Refuse(t, "invalid_state")
        ELSE IF client \notin DOMAIN t.endpoints THEN Refuse(t, "not_found")
        ELSE IF Cardinality(DOMAIN t.pending) >= MaxOperations THEN Refuse(t, "resource_exhausted")
        ELSE IF candidates = {} THEN Refuse(t, "not_found")
        ELSE Answer(accepted, "ok", t.next, Dispatching(<<Task("request", server, t.next)>>, TRUE))

Complete(t, operation) ==
    IF operation \notin DOMAIN t.pending THEN Refuse(t, "not_found")
    ELSE Answer([t EXCEPT !.pending = Erase(@, {operation})], "ok", 0,
                Dispatching(<<Completion(t.pending[operation])>>, TRUE))

Cancel(t, operation) == Complete(t, operation)
Respond(t, operation) == Complete(t, operation)
=============================================================================
