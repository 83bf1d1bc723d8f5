------------------------ MODULE CommunicationRuntime ------------------------
(***************************************************************************)
(* The communication runtime (com/src/runtime.cpp): it starts its          *)
(* transports in order, waits until each is ready, stops what it started   *)
(* when one fails, and keeps the health each of them reports.  The bindings*)
(* of ProviderBinding use the first transport, the in-process one; the     *)
(* second, in the role "runtime", is the vSomeIP transport with its start, *)
(* stop and state handler (com/transports/vsomeip/src/                     *)
(* vsomeip_transport.cpp), whose thread reports health on its own.         *)
(***************************************************************************)
EXTENDS ProviderBinding

CONSTANTS
    MaxReports      \* bound on the health reports of the native transport

VARIABLES
    running,     \* Runtime::Impl::running
    health,      \* the health of each transport, as OnProviderHealth has it
    native       \* the vSomeIP transport

runtime == <<running, health, native>>
all == <<vars, runtime>>

Inproc == 1
Vsomeip == 2
Loaded == IF role = "runtime" THEN Vsomeip ELSE Inproc

RuntimeInit ==
    /\ Init
    /\ running = (role # "runtime")
    /\ health = [i \in {Inproc, Vsomeip} |-> [state |-> "stopped", sequence |-> 0]]
    /\ native = [running |-> FALSE, started_once |-> FALSE, thread |-> FALSE,
                 health |-> "stopped", sequence |-> 0]

\* A step of a thread that touches the runtime and not the first transport.
Runs(th, next) == Then(th, next) /\ UNCHANGED <<role, dispatcher, t, queue, app>>
Report(transport, state, sequence) ==
    [at |-> "report", transport |-> transport, state |-> state, sequence |-> sequence]

OnProviderHealth(th) ==
    \/ /\ At(th, "report")
       /\ Runs(th, <<>>)
       /\ health' = [health EXCEPT ![Top(th).transport] =
                        [state |-> Top(th).state, sequence |-> Top(th).sequence]]
       /\ UNCHANGED <<running, native>>
    \/ /\ At(th, "health")
       /\ Runs(th, <<Report(Inproc, Top(th).state, Top(th).sequence)>>)
       /\ UNCHANGED runtime

-----------------------------------------------------------------------------
\* The vSomeIP transport.  It can be started once.  Its thread runs from the end of Start until
\* Stop has joined it.
NativeStart(next) ==
    LET returns(status) == <<[next EXCEPT !.status = status]>>
        fresh == ~native.running /\ ~native.started_once
    IN  /\ \/ /\ ~fresh
              /\ Runs(Owner, returns("invalid_state"))
              /\ native' = native
           \/ /\ fresh
              /\ Runs(Owner, <<Report(Vsomeip, "failed", native.sequence + 2)>> \o returns("transport_error"))
              /\ native' = [native EXCEPT !.health = "failed", !.sequence = @ + 2]
           \/ /\ fresh
              /\ Runs(Owner, <<Report(Vsomeip, "initializing", native.sequence + 1), Step("launch", 0)>>
                             \o returns("ok"))
              /\ native' = [native EXCEPT !.running = TRUE, !.started_once = TRUE,
                                          !.health = "initializing", !.sequence = @ + 1]
        /\ UNCHANGED <<running, health>>

NativeLaunch ==
    /\ At(Owner, "launch")
    /\ Runs(Owner, <<>>)
    /\ native' = [native EXCEPT !.thread = TRUE]
    /\ UNCHANGED <<running, health>>

\* The state handler: the routing manager of vSomeIP registers the application, or loses it.
NativeState ==
    /\ Idle(Runner) /\ native.thread /\ native.sequence < MaxReports
    /\ \E registered \in BOOLEAN :
          LET state == IF registered THEN "ready" ELSE IF native.running THEN "degraded" ELSE "stopped"
          IN  /\ native' = [native EXCEPT !.health = state, !.sequence = @ + 1]
              /\ Push(Runner, <<Report(Vsomeip, state, native.sequence + 1)>>)
    /\ UNCHANGED <<role, dispatcher, t, queue, app, running, health>>

NativeStop ==
    /\ IF native.running
       THEN /\ Runs(Owner, <<Step("join", 0), Report(Vsomeip, "stopped", native.sequence + 1)>>)
            /\ native' = [native EXCEPT !.running = FALSE, !.health = "stopped", !.sequence = @ + 1]
       ELSE Runs(Owner, <<>>) /\ native' = native
    /\ UNCHANGED <<running, health>>

NativeJoin ==
    /\ At(Owner, "join") /\ Idle(Runner)
    /\ Runs(Owner, <<>>)
    /\ native' = [native EXCEPT !.thread = FALSE]
    /\ UNCHANGED <<running, health>>

-----------------------------------------------------------------------------
\* Runtime::Start and Runtime::Stop, on the thread that owns the runtime.
Stops(n) == [k \in 1..n |-> Step("stop", n + 1 - k)]

StartRuntime ==
    /\ Idle(Owner) /\ ~running /\ role = "runtime" /\ t.health_sequence < MaxReports
    /\ Push(Owner, <<Step("start", Inproc)>>)
    /\ UNCHANGED <<role, dispatcher, t, queue, app, runtime>>

StartTransport ==
    /\ At(Owner, "start")
    /\ \/ /\ Top(Owner).arg = Inproc
          /\ Asks(Owner, Start(t), "started", Inproc)
          /\ UNCHANGED <<app, runtime>>
       \/ Top(Owner).arg = Vsomeip /\ NativeStart([at |-> "started", arg |-> Vsomeip, status |-> "ok", value |-> 0])

StartedTransport ==
    /\ At(Owner, "started")
    /\ Runs(Owner, IF Ok(Owner) THEN <<Step("ready", Top(Owner).arg)>> ELSE Stops(Top(Owner).arg - 1))
    /\ UNCHANGED runtime

\* Mutant: only the transports before the one that did not become ready are stopped.
AwaitReadyKeepsFailed ==
    LET i == Top(Owner).arg
        ready == health[i].state = "ready"
    IN  /\ At(Owner, "ready")
        /\ Runs(Owner, IF ~ready THEN Stops(i - 1) ELSE IF i < Loaded THEN <<Step("start", i + 1)>> ELSE <<>>)
        /\ running' = (ready /\ i = Loaded)
        /\ UNCHANGED <<health, native>>

\* The transport is ready, or has failed, or start_timeout has passed.
AwaitReady ==
    LET i == Top(Owner).arg
        ready == health[i].state = "ready"
    IN  /\ At(Owner, "ready")
        /\ Runs(Owner, IF ~ready THEN Stops(i) ELSE IF i < Loaded THEN <<Step("start", i + 1)>> ELSE <<>>)
        /\ running' = (ready /\ i = Loaded)
        /\ UNCHANGED <<health, native>>

\* Unless StopAnytime, the runtime is stopped when the other threads are done or wait for an answer.
StopRuntime ==
    /\ Idle(Owner) /\ running
    /\ StopAnytime \/ \A th \in Clients \cup {Provider} : Idle(th) \/ At(th, "wait")
    /\ Push(Owner, Stops(Loaded) \o <<Step("stopped", 0)>>)
    /\ UNCHANGED <<role, dispatcher, t, queue, app, runtime>>

StopTransport ==
    \/ /\ At(Owner, "stop") /\ Top(Owner).arg = Inproc
       /\ Calls(Owner, Stop(t), <<>>)
       /\ UNCHANGED <<app, runtime>>
    \/ At(Owner, "stop") /\ Top(Owner).arg = Vsomeip /\ NativeStop
    \/ /\ At(Owner, "stopped")
       /\ Runs(Owner, <<>>) /\ running' = FALSE /\ UNCHANGED <<health, native>>

-----------------------------------------------------------------------------
\* The steps of a thread, with the bindings and with the runtime.
Uses(th) ==
    \/ Transport(th) \/ Callbacks(th)
    \/ th \in Clients /\ (Subscription(th) \/ Operation(th) \/ Watch(th))
    \/ th \in Workers /\ TakeTask(th)
    \/ th = Provider /\ (AddEvent \/ AddMethod \/ Publish \/ PublishLoaned \/ Offer \/ Removing(th))
    \/ th = Owner /\ (CloseServer(th) \/ Removing(th))

Runtime(th) ==
    \/ OnProviderHealth(th)
    \/ th = Owner /\ (StartRuntime \/ StartTransport \/ StartedTransport \/ AwaitReady \/ StopRuntime
                         \/ StopTransport \/ NativeLaunch \/ NativeJoin)
    \/ th = Runner /\ NativeState

Acts(th) == (Uses(th) /\ UNCHANGED runtime) \/ Runtime(th)

RuntimeNext == \E th \in Thread : Acts(th)

\* A thread that has something to do does it, and a worker takes the tasks of the dispatcher.
Goes(th) == (~Idle(th) /\ Acts(th)) \/ (th \in Workers /\ TakeTask(th) /\ UNCHANGED runtime)

RuntimeSpec ==
    /\ RuntimeInit /\ [][RuntimeNext]_all
    /\ \A th \in Thread : WF_all(Goes(th))

-----------------------------------------------------------------------------
Some(P(_)) == \E th \in Thread : \E i \in 1..Len(stack[th]) : P(stack[th][i])
Among(tasks, P(_)) == \E i \in 1..Len(tasks) : P(tasks[i])

\* A step in a callback of the object of c, and a completion on its way to it.
About(step, c) ==
    \/ step.at \in {"sample", "discovery"} /\ step.arg[1] = c
    \/ step.at = "state" /\ step.user = c
    \/ step.at \in {"user_sample", "user_state", "finish", "notify", "complete", "unkeep"} /\ step.arg = c
CompletionOf(c) ==
    LET Completes(task) == task.kind = "completion" /\ task.handle = c
        Hands(step) == step.at = "dispatch" /\ Among(step.tasks, Completes)
    IN  Among(queue, Completes) \/ Some(Hands)

\* Nothing is called back after its end.  Once close() of a subscription or of a watch has
\* returned, once ~OperationState has run and once the Method objects of a server are freed, no
\* thread is in a callback of the object or about to enter one, no request of the transport
\* points to it and no completion for it is on its way (the quiescence of transport_abi.h and of
\* close() in generated.hpp).
NothingCalledBackAfterEnd ==
    /\ \A c \in Clients : client[c].phase = "freed" =>
          /\ ~Some(LAMBDA step : About(step, c))
          /\ \A r \in DOMAIN t.pending : t.pending[r] # c
          /\ ~CompletionOf(c)
    /\ server.method = "freed" => ~Some(LAMBDA step : step.at \in {"request", "user_request"})

\* An operation that keeps itself alive is let go: its request is pending, or its completion is on
\* its way, or the call that made it has yet to learn that it was refused.  Otherwise the object
\* would never be freed (OperationState::retain and complete).
RetainedIsAwaited ==
    \A c \in Clients : client[c].retained =>
       \/ \E r \in DOMAIN t.pending : t.pending[r] = c
       \/ CompletionOf(c)
       \/ Some(LAMBDA step : step.at = "complete" /\ step.arg = c)
       \/ At(c, "accepted") /\ ~Ok(c)

\* When nothing is under way, an open watch has counted at least the endpoints that announce the
\* service: no announcement is lost between the snapshot of WatchStart and the notices of
\* EndpointCreate and EndpointDestroy.
DiscoveryComplete ==
    \A c \in Clients :
       (/\ role = "discovery" /\ client[c].phase = "open" /\ client[c].handle # 0
        /\ t.running /\ queue = <<>> /\ \A th \in Thread : Idle(th))
       => client[c].count >= Cardinality({e \in DOMAIN t.endpoints : t.endpoints[e] \in Announced})

\* Between calls of the owner the runtime is up as a whole or down as a whole: after a Start that
\* fails, since a transport returned an error, reported a failure or was not ready in time, and after
\* Stop, no transport runs and no thread of one is left.
AllOrNothing ==
    (role = "runtime" /\ Idle(Owner)) =>
       /\ t.running = running
       /\ native.running = running /\ native.thread = running

\* AddMethod, in a binding that was closed meanwhile, holds the mutex of the binding while it waits
\* for the handler it takes back, and the handler publishes, for which it needs the mutex.
HandlerWaits ==
    /\ server.mutex = Provider /\ At(Provider, "deactivate")
    /\ LET handler == t.gated[Top(Provider).handle].holder
       IN  handler \in Thread \ {Provider} /\ At(handler, "lookup")

\* Every call returns: no thread waits forever for the mutex of the transport or of a server binding,
\* for a gate, for the callbacks of a subscription or for the thread of a transport, even when
\* callbacks publish, with one exception, which the code has: a handler that publishes while AddMethod
\* finds its binding closed.
CallsReturn == (\A th \in Thread : []<>Idle(th)) \/ <>[]HandlerWaits
=============================================================================
