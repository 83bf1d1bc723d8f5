--------------------------- MODULE ProviderBinding ---------------------------
(***************************************************************************)
(* The bindings of the communication runtime (com/src/provider_binding.cpp)*)
(* over the in-process transport: operations, subscriptions, discovery     *)
(* watches and server bindings, with the threads of the application that   *)
(* use them and the threads of the host that run the callbacks.            *)
(*                                                                         *)
(* A thread is a stack of steps.  A step is what the code does under one   *)
(* lock, or one piece of code of the application called back; its first    *)
(* step is the one it takes next.  A function of the transport is called   *)
(* by a step that pushes what the transport still has to do and then what  *)
(* the binding does with the answer.                                       *)
(***************************************************************************)
EXTENDS InprocTransport

CONSTANTS
    Clients,        \* application threads, each with one client object at a time
    Workers,        \* threads of the dispatcher of the host
    Roles,          \* what the application does: "event", "method", "discovery", or "runtime"
    Dispatchers,    \* "pool": the workers run the tasks; "inline": the thread that dispatches
    QueueLimit,     \* in each role, the tasks the dispatcher holds before it refuses one
    MaxHandle,      \* bound on the handles
    MaxSamples,     \* bound on the samples published
    StopAnytime     \* whether Runtime::Stop and other calls may overlap

Provider == "provider"
Owner == "owner"
Runner == "runner"     \* the thread of a native transport
Thread == Clients \cup Workers \cup {Provider, Owner, Runner}

VARIABLES
    role, dispatcher,
    t,           \* the transport
    stack,       \* what each thread still has to do
    queue,       \* tasks the dispatcher holds
    client,      \* the subscription, operation or watch of each client
    server,      \* the server binding
    samples

vars == <<role, dispatcher, t, stack, queue, client, server, samples>>
app == <<client, server, samples>>

\* A client object; each role uses the fields its class has.
Absent == [phase |-> "none", endpoint |-> 0, handle |-> 0, callback |-> FALSE, state_callback |-> FALSE,
           in_flight |-> 0, closed |-> FALSE, count |-> 0, retained |-> FALSE, complete |-> FALSE]

\* A server binding, with the endpoint of its event and of its method; "method" is the Method
\* object the transport calls back, "mutex" who holds the mutex of the binding from one step to the
\* next.
Offered == [phase |-> "open", event |-> 0, method_endpoint |-> 0, method |-> "none", mutex |-> None]

Init ==
    /\ role \in Roles /\ dispatcher \in Dispatchers
    /\ t = IF role = "runtime" THEN Stopped ELSE Start(Stopped).t
    /\ stack = [th \in Thread |-> <<>>]
    /\ queue = <<>>
    /\ client = [c \in Clients |-> Absent]
    /\ server = Offered
    /\ samples = 0

-----------------------------------------------------------------------------
Idle(th) == stack[th] = <<>>
At(th, at) == stack[th] # <<>> /\ Head(stack[th]).at = at
Top(th) == Head(stack[th])
Bounded == t.next <= MaxHandle

\* A thread of the application that makes a call.  Unless StopAnytime, none is made while
\* Runtime::Stop runs.
Stopping == stack[Owner] # <<>> /\ Last(stack[Owner]).at = "stopped"
Ready(th) == Idle(th) /\ (StopAnytime \/ ~Stopping)

\* An idle thread begins with a call; any other goes on from its first step.
Rest(steps) == IF steps = <<>> THEN <<>> ELSE Tail(steps)
Step(at, arg) == [at |-> at, arg |-> arg]
Push(th, steps) == stack' = [stack EXCEPT ![th] = steps \o @]
Then(th, steps) == stack' = [stack EXCEPT ![th] = steps \o Rest(@)]
Local(th, next) == Then(th, next) /\ UNCHANGED <<role, dispatcher, t, queue>>

\* A step of "th" that calls the transport and reads no answer.
Calls(th, answer, next) ==
    /\ t.lock = None
    /\ t' = answer.t
    /\ Then(th, answer.steps \o next)
    /\ UNCHANGED <<role, dispatcher, queue>>

\* A call whose answer is read by the step "at" that follows.
Asks(th, answer, at, arg) ==
    Calls(th, answer, <<[at |-> at, arg |-> arg, status |-> answer.status, value |-> answer.value]>>)
Ok(th) == Top(th).status = "ok"
Value(th) == Top(th).value

\* A status found late becomes the answer of the function that is under way.
Answering(steps, status) ==
    IF steps # <<>> /\ "status" \in DOMAIN Head(steps)
    THEN <<[Head(steps) EXCEPT !.status = status]>> \o Tail(steps)
    ELSE steps

-----------------------------------------------------------------------------
\* The dispatcher of the host (Runtime::Impl::host.dispatch) and the tasks.
Run(task) == IF task.kind = "completion" THEN <<Step("complete", task.handle)>>
             ELSE <<[at |-> "enter", task |-> task]>>

\* A refused task is dropped; where the function is strict the refusal is its status.
Dispatch(th) ==
    /\ At(th, "dispatch")
    /\ LET task == Head(Top(th).tasks)
           rest == Dispatching(Tail(Top(th).tasks), Top(th).strict)
       IN  \/ /\ dispatcher = "inline"
              /\ Then(th, Run(task) \o rest)
              /\ queue' = queue
           \/ /\ dispatcher = "pool" /\ Len(queue) < QueueLimit[role]
              /\ queue' = Append(queue, task)
              /\ Then(th, rest)
           \/ /\ dispatcher = "pool" /\ Len(queue) >= QueueLimit[role]
              /\ IF Top(th).strict
                 THEN stack' = [stack EXCEPT ![th] = Answering(Tail(@), "resource_exhausted")]
                 ELSE Then(th, rest)
              /\ queue' = queue
    /\ UNCHANGED <<role, dispatcher, t, app>>

TakeTask(w) ==
    /\ Idle(w) /\ queue # <<>>
    /\ Push(w, Run(Head(queue)))
    /\ queue' = Tail(queue)
    /\ UNCHANGED <<role, dispatcher, t, app>>

\* The gates are recursive.
Free(th, handle) == t.gated[handle].holder \in {th, None}
Held(th, handle) == [t EXCEPT !.gated[handle].holder = th, !.gated[handle].depth = @ + 1]
Released(handle) == [t EXCEPT !.gated[handle].depth = @ - 1,
                              !.gated[handle].holder = IF t.gated[handle].depth = 1 THEN None ELSE @]

Callback(task) ==
    LET user == t.gated[task.handle].user
    IN  <<Step(task.kind, <<user, task.value>>), Step("leave", task.handle)>>

Enter(th) ==
    /\ At(th, "enter")
    /\ LET task == Top(th).task
       IN  /\ Free(th, task.handle)
           /\ IF t.gated[task.handle].active
              THEN t' = Held(th, task.handle) /\ Then(th, Callback(task))
              ELSE t' = t /\ Then(th, <<>>)
    /\ UNCHANGED <<role, dispatcher, queue, app>>

Leave(th) ==
    /\ At(th, "leave")
    /\ t' = Released(Top(th).arg)
    /\ Then(th, <<>>)
    /\ UNCHANGED <<role, dispatcher, queue, app>>

\* A subscription with a state handler is told that it is withdrawn, under its gate.
Deactivate(th) ==
    /\ At(th, "deactivate")
    /\ LET handle == Top(th).handle
           object == t.gated[handle]
       IN  /\ Free(th, handle)
           /\ IF object.active /\ object.state_handler
              THEN /\ t' = Held(th, handle)
                   /\ Then(th, <<[at |-> "state", user |-> object.user, state |-> "withdrawn"],
                                 Step("deactivated", handle)>>)
              ELSE t' = [t EXCEPT !.gated[handle].active = FALSE] /\ Then(th, <<>>)
    /\ UNCHANGED <<role, dispatcher, queue, app>>

Deactivated(th) ==
    /\ At(th, "deactivated")
    /\ t' = [Released(Top(th).arg) EXCEPT !.gated[Top(th).arg].active = FALSE]
    /\ Then(th, <<>>)
    /\ UNCHANGED <<role, dispatcher, queue, app>>

\* The end of SetSubscriptionStateHandler, which holds the mutex until it has the gate.
StateHandler(th) ==
    /\ At(th, "state_handler") /\ Free(th, Top(th).handle)
    /\ LET answer == StateHandlerGate(t, Top(th).handle)
       IN  /\ t' = answer.t
           /\ stack' = [stack EXCEPT ![th] = answer.steps \o Answering(Tail(@), answer.status)]
    /\ UNCHANGED <<role, dispatcher, queue, app>>

\* Publish and LoanPublish end in Deliver, whose answer is theirs.
Delivering(th) ==
    /\ At(th, "deliver")
    /\ LET answer == Deliver(t, Top(th).endpoint)
       IN  /\ t.lock = None
           /\ stack' = [stack EXCEPT ![th] = answer.steps \o Answering(Tail(@), answer.status)]
    /\ UNCHANGED <<role, dispatcher, t, queue, app>>

Transport(th) ==
    \/ Dispatch(th) \/ Enter(th) \/ Leave(th) \/ Deactivate(th) \/ Deactivated(th)
    \/ StateHandler(th) \/ Delivering(th)

-----------------------------------------------------------------------------
\* ProviderSubscriptionState.
Changed(c, object) == client' = [client EXCEPT ![c] = object] /\ UNCHANGED <<server, samples>>

\* Mutant: the callback is in place before the transport is asked for the state.
FreshWithCallback(endpoint) == [Absent EXCEPT !.phase = "open", !.endpoint = endpoint, !.callback = TRUE]

\* A subscription starts without callbacks: SetCallback comes after start().
Fresh(endpoint) == [Absent EXCEPT !.phase = "open", !.endpoint = endpoint]

Subscribing(c) ==
    \/ /\ role = "event" /\ Ready(c) /\ client[c].phase = "none" /\ Bounded
       /\ Asks(c, EndpointCreate(t, EventSubscriber), "subscribe", c)
       /\ Changed(c, Absent)
    \/ /\ At(c, "subscribe") /\ Ok(c)
       /\ Asks(c, Subscribe(t, Value(c), c), "set_state", c)
       /\ Changed(c, Fresh(Value(c)))
    \/ /\ At(c, "set_state") /\ Ok(c)
       /\ Asks(c, SetSubscriptionStateHandler(t, Value(c), c), "started", c)
       /\ Changed(c, [client[c] EXCEPT !.handle = Value(c)])
    \/ /\ At(c, "started") /\ Ok(c) /\ Local(c, <<>>) /\ UNCHANGED app
    \/ /\ At(c, "subscribe") /\ ~Ok(c) /\ Local(c, <<>>) /\ UNCHANGED app
    \/ /\ (At(c, "set_state") \/ At(c, "started")) /\ ~Ok(c)
       /\ Local(c, <<Step("close", c)>>) /\ UNCHANGED app

SetCallback(c) ==
    /\ role = "event" /\ Ready(c) /\ client[c].phase = "open" /\ ~client[c].callback
    /\ Changed(c, [client[c] EXCEPT !.callback = TRUE])
    /\ UNCHANGED <<role, dispatcher, t, stack, queue>>

\* The callback is told the state known so far.
SetStateCallback(c) ==
    /\ role = "event" /\ Ready(c) /\ client[c].phase = "open" /\ ~client[c].state_callback
    /\ Changed(c, [client[c] EXCEPT !.state_callback = TRUE])
    /\ Push(c, <<Step("user_state", c)>>)
    /\ UNCHANGED <<role, dispatcher, t, queue>>

\* OnSample and OnState: the callback is taken, and counted, under the mutex of the object.
OnSample(th) ==
    LET c == Top(th).arg[1]
        user == IF client[c].callback THEN <<Step("user_sample", c)>> ELSE <<>>
    IN  /\ At(th, "sample")
        /\ IF client[c].closed
           THEN Local(th, <<>>) /\ UNCHANGED app
           ELSE /\ Local(th, user \o <<Step("finish", c)>>)
                /\ Changed(c, [client[c] EXCEPT !.in_flight = @ + 1])

OnState(th) ==
    LET c == Top(th).user
        user == IF client[c].state_callback THEN <<Step("user_state", c)>> ELSE <<>>
    IN  /\ At(th, "state")
        /\ IF client[c].closed
           THEN Local(th, <<>>) /\ UNCHANGED app
           ELSE /\ Local(th, user \o <<Step("finish", c)>>)
                /\ Changed(c, [client[c] EXCEPT !.in_flight = @ + 1])

FinishDispatch(th) ==
    LET c == Top(th).arg
    IN  /\ At(th, "finish")
        /\ Local(th, <<>>)
        /\ Changed(c, [client[c] EXCEPT !.in_flight = @ - 1])

\* The callback of the application returns, or publishes before it does.
Publishes(th) ==
    /\ samples < MaxSamples
    /\ Local(th, <<Step("lookup", "publish")>>)
    /\ samples' = samples + 1 /\ UNCHANGED <<client, server>>

UserSample(th) ==
    /\ At(th, "user_sample")
    /\ \/ Local(th, <<>>) /\ UNCHANGED app
       \/ Publishes(th)

UserState(th) == At(th, "user_state") /\ Local(th, <<>>) /\ UNCHANGED app

CloseSubscription(c) ==
    /\ role = "event" /\ Ready(c) /\ client[c].phase = "open"
    /\ Push(c, <<Step("close", c)>>)
    /\ Changed(c, [client[c] EXCEPT !.phase = "closing"])
    /\ UNCHANGED <<role, dispatcher, t, queue>>

\* close(): take the handles and the callbacks, wait until no callback is in flight, report the
\* withdrawal, then leave the transport.
Closing(c) ==
    \/ /\ At(c, "close")
       /\ Local(c, <<Step("drain", client[c].state_callback)>>)
       /\ Changed(c, [client[c] EXCEPT !.callback = FALSE, !.state_callback = FALSE, !.closed = TRUE])
    \/ /\ At(c, "drain") /\ client[c].in_flight = 0
       /\ Local(c, (IF Top(c).arg /\ client[c].handle # 0 THEN <<Step("user_state", c)>> ELSE <<>>)
                     \o <<Step("unsubscribe", c)>>)
       /\ UNCHANGED app
    \/ /\ At(c, "unsubscribe")
       /\ Calls(c, Unsubscribe(t, client[c].handle), <<Step("destroy", c)>>)
       /\ UNCHANGED app
    \/ /\ At(c, "destroy")
       /\ Calls(c, EndpointDestroy(t, client[c].endpoint), <<Step("closed", c)>>)
       /\ UNCHANGED app
    \/ /\ At(c, "closed") /\ Local(c, <<>>) /\ Changed(c, [Absent EXCEPT !.phase = "freed", !.closed = TRUE])

Subscription(c) ==
    Subscribing(c) \/ SetCallback(c) \/ SetStateCallback(c) \/ CloseSubscription(c) \/ Closing(c)

-----------------------------------------------------------------------------
\* OperationState, held by the application and, from retain() on, by itself.
Invoke(c) ==
    \/ /\ role = "method" /\ Ready(c) /\ client[c].phase = "none" /\ Bounded
       /\ Asks(c, EndpointCreate(t, MethodClient), "invoke", c)
       /\ Changed(c, [Absent EXCEPT !.phase = "held"])
    \/ /\ At(c, "invoke") /\ Ok(c)
       /\ \E late \in BOOLEAN : Asks(c, Request(t, Value(c), c, late), "accepted", c)
       /\ Changed(c, [client[c] EXCEPT !.endpoint = Value(c), !.retained = TRUE])
    \/ /\ At(c, "accepted") /\ Ok(c)
       /\ Local(c, <<>>)
       /\ Changed(c, [client[c] EXCEPT !.handle = Value(c)])
    \/ /\ (At(c, "invoke") \/ At(c, "accepted")) /\ ~Ok(c)
       /\ Local(c, <<>>)
       /\ Changed(c, [client[c] EXCEPT !.complete = TRUE, !.retained = FALSE])

CallWait(c) ==
    /\ role = "method" /\ Ready(c) /\ client[c].phase = "held"
    /\ Push(c, <<Step("wait", c)>>)
    /\ UNCHANGED <<role, dispatcher, t, queue, app>>

\* wait() returns with the result, or at the deadline, when it cancels the operation.
Wait(c) ==
    \/ At(c, "wait") /\ client[c].complete /\ Local(c, <<>>) /\ UNCHANGED app
    \/ /\ At(c, "wait") /\ ~client[c].complete
       /\ Local(c, <<Step("cancel", c)>>)
       /\ Changed(c, [client[c] EXCEPT !.complete = TRUE])

CallCancel(c) ==
    /\ role = "method" /\ Ready(c) /\ client[c].phase = "held" /\ ~client[c].complete
    /\ Push(c, <<Step("cancel", c)>>)
    /\ UNCHANGED <<role, dispatcher, t, queue, app>>

CancelOperation(c) ==
    /\ At(c, "cancel")
    /\ Calls(c, Cancel(t, client[c].handle), <<>>)
    /\ UNCHANGED app

Kept(c) == \E th \in Thread : \E i \in 1..Len(stack[th]) : stack[th][i] = Step("unkeep", c)

\* The last owner of the object runs its destructor.
Drop(c) ==
    /\ role = "method" /\ Ready(c) /\ client[c].phase = "held"
    /\ Changed(c, [client[c] EXCEPT !.phase = "dropped"])
    /\ Push(c, IF client[c].retained \/ Kept(c) THEN <<>> ELSE <<Step("free", c)>>)
    /\ UNCHANGED <<role, dispatcher, t, queue>>

OnComplete(th) ==
    LET c == Top(th).arg
    IN  /\ At(th, "complete")
        /\ Local(th, IF client[c].retained THEN <<Step("unkeep", c)>> ELSE <<>>)
        /\ Changed(c, [client[c] EXCEPT !.complete = TRUE, !.retained = FALSE])

Unkeep(th) ==
    LET c == Top(th).arg
    IN  /\ At(th, "unkeep")
        /\ Local(th, IF client[c].phase = "dropped" THEN <<Step("free", c)>> ELSE <<>>)
        /\ UNCHANGED app

\* ~OperationState.
FreeOperation(th) ==
    LET c == Top(th).arg
    IN  \/ /\ At(th, "free")
           /\ Calls(th, Cancel(t, client[c].handle), <<Step("free_endpoint", c)>>)
           /\ UNCHANGED app
        \/ /\ At(th, "free_endpoint")
           /\ Calls(th, EndpointDestroy(t, client[c].endpoint), <<Step("freed", c)>>)
           /\ UNCHANGED app
        \/ At(th, "freed") /\ Local(th, <<>>) /\ Changed(c, [Absent EXCEPT !.phase = "freed"])

Operation(c) == Invoke(c) \/ CallWait(c) \/ Wait(c) \/ CallCancel(c) \/ CancelOperation(c) \/ Drop(c)

-----------------------------------------------------------------------------
\* DiscoveryWatch over one candidate, and FindService, which waits for it.
Discover(c) ==
    \/ /\ role = "discovery" /\ Ready(c) /\ client[c].phase = "none" /\ Bounded
       /\ \E next \in {"watch", "find"} : Asks(c, WatchStart(t, c), "discovered", next)
       /\ Changed(c, [Absent EXCEPT !.phase = "open"])
    \/ /\ At(c, "discovered") /\ Ok(c)
       /\ Local(c, IF Top(c).arg = "find" THEN <<Step("find", c)>> ELSE <<>>)
       /\ Changed(c, [client[c] EXCEPT !.handle = Value(c), !.callback = TRUE])
    \/ /\ At(c, "discovered") /\ ~Ok(c)
       /\ Local(c, <<>>) /\ Changed(c, [Absent EXCEPT !.phase = "freed"])

\* The predicate and the block of the condition variable; the callback that notifies it does
\* not hold its mutex.  At the timeout the predicate decides.
Find(c) ==
    \/ At(c, "find") /\ client[c].count # 0 /\ Local(c, <<Step("close_watch", c)>>) /\ UNCHANGED app
    \/ At(c, "find") /\ client[c].count = 0 /\ Local(c, <<Step("block", c)>>) /\ UNCHANGED app
    \/ At(c, "block") /\ Local(c, <<Step("blocked", c)>>) /\ UNCHANGED app
    \/ At(c, "blocked") /\ Local(c, <<Step("close_watch", c)>>) /\ UNCHANGED app

OnDiscovery(th) ==
    LET c == Top(th).arg[1]
        counted == IF Top(th).arg[2] THEN client[c].count + 1
                   ELSE IF client[c].count # 0 THEN client[c].count - 1 ELSE 0
    IN  /\ At(th, "discovery")
        /\ IF client[c].closed
           THEN Local(th, <<>>) /\ UNCHANGED app
           ELSE /\ Local(th, IF client[c].callback THEN <<Step("notify", c)>> ELSE <<>>)
                /\ Changed(c, [client[c] EXCEPT !.count = counted])

Notify(th) ==
    LET c == Top(th).arg
    IN  /\ At(th, "notify")
        /\ stack' = [x \in Thread |-> IF x = th THEN Tail(stack[x])
                                      ELSE IF x = c /\ At(c, "blocked") THEN <<Step("find", c)>>
                                      ELSE stack[x]]
        /\ UNCHANGED <<role, dispatcher, t, queue, app>>

CloseWatch(c) ==
    \/ /\ role = "discovery" /\ Ready(c) /\ client[c].phase = "open"
       /\ Push(c, <<Step("close_watch", c)>>)
       /\ UNCHANGED <<role, dispatcher, t, queue, app>>
    \/ /\ At(c, "close_watch")
       /\ Local(c, <<Step("watch_stop", c)>>)
       /\ Changed(c, [client[c] EXCEPT !.closed = TRUE, !.callback = FALSE])
    \/ /\ At(c, "watch_stop")
       /\ Calls(c, WatchStop(t, client[c].handle), <<Step("closed", c)>>)
       /\ UNCHANGED app

Watch(c) == Discover(c) \/ Find(c) \/ CloseWatch(c)

-----------------------------------------------------------------------------
\* ProviderServerBinding with one event and one method, each added once.  The thread "provider"
\* uses it while the owner of the runtime may close it.
Serves(binding) == server' = binding /\ UNCHANGED <<client, samples>>
Unlocked == server.mutex = None

\* A binding that was closed meanwhile takes back what it added, with its mutex held.
AddEvent ==
    \/ /\ role \in {"event", "discovery"} /\ Ready(Provider) /\ server.phase = "open" /\ server.event = 0 /\ Bounded
       /\ Asks(Provider, EndpointCreate(t, EventPublisher), "add_event", 0)
       /\ UNCHANGED app
    \/ /\ At(Provider, "add_event") /\ Ok(Provider) /\ server.phase = "open"
       /\ Local(Provider, <<>>)
       /\ Serves([server EXCEPT !.event = Value(Provider)])
    \/ /\ At(Provider, "add_event") /\ Ok(Provider) /\ server.phase # "open" /\ Unlocked
       /\ Local(Provider, <<Step("remove", Value(Provider)), Step("unlock", 0)>>)
       /\ Serves([server EXCEPT !.mutex = Provider])
    \/ At(Provider, "add_event") /\ ~Ok(Provider) /\ Local(Provider, <<>>) /\ UNCHANGED app

AddMethod ==
    LET endpoint == Top(Provider).arg
    IN  \/ /\ role = "method" /\ Ready(Provider) /\ server.phase = "open" /\ server.method = "none" /\ Bounded
           /\ Asks(Provider, EndpointCreate(t, MethodServer), "handler", 0)
           /\ Serves([server EXCEPT !.method = "live"])
        \/ /\ At(Provider, "handler") /\ Ok(Provider)
           /\ Asks(Provider, SetRequestHandler(t, Value(Provider), Provider), "register", Value(Provider))
           /\ UNCHANGED app
        \/ /\ At(Provider, "register") /\ Ok(Provider) /\ server.phase = "open"
           /\ Local(Provider, <<>>)
           /\ Serves([server EXCEPT !.method_endpoint = endpoint])
        \/ /\ At(Provider, "register") /\ Ok(Provider) /\ server.phase # "open" /\ Unlocked
           /\ Local(Provider, <<Step("withdraw", endpoint), Step("remove", endpoint),
                                Step("unlock", 0), Step("unmethod", 0)>>)
           /\ Serves([server EXCEPT !.mutex = Provider])
        \/ /\ At(Provider, "register") /\ ~Ok(Provider)
           /\ Local(Provider, <<Step("remove", endpoint), Step("unmethod", 0)>>)
           /\ UNCHANGED app
        \/ /\ At(Provider, "handler") /\ ~Ok(Provider)
           /\ Local(Provider, <<Step("unmethod", 0)>>) /\ UNCHANGED app

Publish ==
    /\ role = "event" /\ Ready(Provider) /\ server.event # 0 /\ samples < MaxSamples
    /\ \E at \in {"publish", "loan"} : Push(Provider, <<Step("lookup", at)>>)
    /\ samples' = samples + 1
    /\ UNCHANGED <<role, dispatcher, t, queue, client, server>>

\* The endpoint is looked up with the mutex of the binding held, and used after that.
LookupEvent(th) ==
    /\ At(th, "lookup") /\ Unlocked
    /\ Local(th, IF server.event = 0 THEN <<>> ELSE <<Step(Top(th).arg, server.event)>>)
    /\ UNCHANGED app

PublishBytes(th) ==
    /\ At(th, "publish")
    /\ Calls(th, Deliver(t, Top(th).arg), <<>>)
    /\ UNCHANGED app

\* PublishLoaned: the encoder of the application may fail, and so may the transport.
PublishLoaned ==
    LET endpoint == Top(Provider).arg
        loan == Value(Provider)
    IN  \/ /\ At(Provider, "loan")
           /\ Asks(Provider, LoanAcquire(t, endpoint), "encode", endpoint)
           /\ UNCHANGED app
        \/ At(Provider, "encode") /\ ~Ok(Provider) /\ Local(Provider, <<>>) /\ UNCHANGED app
        \/ /\ At(Provider, "encode") /\ Ok(Provider)
           /\ Asks(Provider, LoanPublish(t, endpoint, loan), "loan_published", loan)
           /\ UNCHANGED app
        \/ /\ At(Provider, "encode") /\ Ok(Provider)
           /\ Calls(Provider, LoanRelease(t, loan), <<>>)
           /\ UNCHANGED app
        \/ At(Provider, "loan_published") /\ Ok(Provider) /\ Local(Provider, <<>>) /\ UNCHANGED app
        \/ /\ At(Provider, "loan_published") /\ ~Ok(Provider)
           /\ Calls(Provider, LoanRelease(t, Top(Provider).arg), <<>>)
           /\ UNCHANGED app

\* The Method objects are freed when the transport has withdrawn them.
CloseServer(th) ==
    /\ role # "runtime" /\ Idle(th) /\ server.phase = "open"
    /\ Push(th, (IF server.method_endpoint = 0 THEN <<>>
                 ELSE <<Step("withdraw", server.method_endpoint), Step("remove", server.method_endpoint)>>)
                \o (IF server.event = 0 THEN <<>> ELSE <<Step("remove", server.event)>>)
                \o (IF server.method_endpoint = 0 THEN <<>> ELSE <<Step("unmethod", 0)>>))
    /\ Serves([server EXCEPT !.phase = "closed", !.event = 0, !.method_endpoint = 0])
    /\ UNCHANGED <<role, dispatcher, t, queue>>

Removing(th) ==
    \/ /\ At(th, "withdraw")
       /\ Calls(th, SetRequestHandler(t, Top(th).arg, None), <<>>)
       /\ UNCHANGED app
    \/ /\ At(th, "remove")
       /\ Calls(th, EndpointDestroy(t, Top(th).arg), <<>>)
       /\ UNCHANGED app
    \/ At(th, "unlock") /\ Local(th, <<>>) /\ Serves([server EXCEPT !.mutex = None])
    \/ At(th, "unmethod") /\ Local(th, <<>>) /\ Serves([server EXCEPT !.method = "freed"])

\* The service is offered again.
Offer ==
    /\ role = "discovery" /\ Ready(Provider) /\ Idle(Owner) /\ server.phase = "closed" /\ Bounded
    /\ Serves(Offered)
    /\ UNCHANGED <<role, dispatcher, t, stack, queue>>

\* OnRequest: the handler of the application, then the response.
OnRequest(th) ==
    /\ At(th, "request")
    /\ Local(th, <<Step("user_request", 0), Step("respond", Top(th).arg[2])>>)
    /\ UNCHANGED app

UserRequest(th) ==
    /\ At(th, "user_request")
    /\ \/ Local(th, <<>>) /\ UNCHANGED app
       \/ Publishes(th)

Responding(th) ==
    /\ At(th, "respond")
    /\ Calls(th, Respond(t, Top(th).arg), <<>>)
    /\ UNCHANGED app

\* What a thread does when the transport calls it back, and what it does with what it was given.
Callbacks(th) ==
    \/ OnSample(th) \/ OnState(th) \/ FinishDispatch(th) \/ UserSample(th) \/ UserState(th)
    \/ OnComplete(th) \/ Unkeep(th) \/ FreeOperation(th) \/ OnDiscovery(th) \/ Notify(th)
    \/ OnRequest(th) \/ UserRequest(th) \/ Responding(th) \/ LookupEvent(th) \/ PublishBytes(th)
=============================================================================
