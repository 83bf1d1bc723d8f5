--------------------------- MODULE CoordinatorIpc ---------------------------
(***************************************************************************)
(* The coordinator behind its socket (exec/src/coordinator_ipc.cpp): the   *)
(* client, one connection for every call; the server with its acceptor,    *)
(* its workers and its history of events; the destructor of the server.    *)
(* The coordinator itself (module Coordinator) is reduced to what the      *)
(* server sees of it: transitions that end, a revision, and threads that   *)
(* call the event handler of the server after they left the mutex.         *)
(*                                                                         *)
(* A message is its operation and arguments; its JSON is left out, and so  *)
(* are the user ids: every peer may observe and mutate.                    *)
(***************************************************************************)
EXTENDS Naturals, Sequences, SequencesExt, FiniteSets

CONSTANTS
    Callers,            \* threads that call the coordinator
    Subscriber,         \* the polling thread of one event subscription
    Clients,            \* the sets of them that may be connected to one server
    Workers,            \* workers of the server
    Capacity,           \* connection_capacity
    History,            \* the events the server keeps, 16 for each connection in the code
    Descriptors,        \* bound: descriptors of connections
    MaxTransitions,     \* bound: transitions requested
    None

Peers == Callers \cup {Subscriber}
Descriptor == 1..Descriptors

VARIABLES
    phase,          \* the transitions of the coordinator: "active" or "terminal"
    revision,       \* CoordinatorService::revision_
    emitting,       \* for each thread with handlers to call: the events it has left
    events,         \* IpcCoordinatorServer::events_
    peer,           \* what each peer is doing
    subscription,   \* what the handler of the subscription was given, and its revision
    conn,           \* the connection of each descriptor
    backlog,        \* connections the acceptor has not accepted
    queue, active,  \* queue_ and active_
    acceptor, worker,
    stage           \* how far the destructor of the server is

coordinator == <<phase, revision, emitting>>
server == <<events, backlog, queue, active, acceptor, worker, stage>>
vars == <<coordinator, server, peer, subscription, conn>>

Idle == [at |-> "idle", fd |-> 0, operation |-> "none", argument |-> 0]
Absent == [Idle EXCEPT !.at = "absent"]
\* late is history: the connection was accepted after the destructor had shut down the others.
Free == [state |-> "free", peer |-> None, request |-> <<>>, reply |-> <<>>, shut |-> FALSE,
         late |-> FALSE]
Reply(ok, value, list) == [ok |-> ok, value |-> value, list |-> list]
Failure == Reply(FALSE, 0, <<>>)

Init ==
    /\ phase = <<>> /\ revision = 0 /\ emitting = {}
    /\ events = <<>>
    /\ \E present \in Clients : peer = [p \in Peers |-> IF p \in present THEN Idle ELSE Absent]
    /\ subscription = [state |-> "none", revision |-> 0, handled |-> <<>>, since |-> 0]
    /\ conn = [fd \in Descriptor |-> Free]
    /\ backlog = <<>> /\ queue = <<>> /\ active = {}
    /\ acceptor = "poll"
    /\ worker = [w \in Workers |-> [at |-> "idle", fd |-> 0, reply |-> Failure]]
    /\ stage = "up"

Stopping == stage # "up"

-----------------------------------------------------------------------------
\* The coordinator.  A change takes a revision and a copy of the handlers under the mutex; its
\* events, which share the revision, are handed to that copy afterwards, one by one: for a
\* transition that has ended, transition_changed, and then what came of it
\* (configuration_changed, recovery_changed).  The destructor withdraws the handler of the server.
Emits(kinds) ==
    /\ revision' = revision + 1
    /\ emitting' = emitting \cup
          (IF stage = "down" THEN {}
           ELSE {[i \in 1..Len(kinds) |-> [revision |-> revision + 1, kind |-> kinds[i]]]})

\* The process of the coordinator requests transitions too.
RequestLocally ==
    /\ Len(phase) < MaxTransitions
    /\ phase' = Append(phase, "active") /\ Emits(<<"transition">>)
    /\ UNCHANGED <<server, peer, subscription, conn>>

Finish(id) ==
    /\ phase[id] = "active"
    /\ phase' = [phase EXCEPT ![id] = "terminal"]
    /\ Emits(<<"transition">>) \/ Emits(<<"transition", "outcome">>)
    /\ UNCHANGED <<server, peer, subscription, conn>>

\* The handler of the server.  A copy that was taken before it was withdrawn is still called, also
\* when the destructor has returned.
HandleEvent ==
    \E pending \in emitting :
       LET grown == Append(events, Head(pending))
       IN  /\ emitting' = (emitting \ {pending}) \cup (IF Len(pending) = 1 THEN {} ELSE {Tail(pending)})
           /\ events' = IF Len(grown) > History THEN Tail(grown) ELSE grown
           /\ UNCHANGED <<phase, revision, backlog, queue, active, acceptor, worker, stage,
                          peer, subscription, conn>>

-----------------------------------------------------------------------------
\* The end of a call, with what the subscription makes of it: the handler is called with every
\* event of the answer, and the highest revision among them is the one to go on from.
Returned(p, reply) ==
    /\ peer' = [peer EXCEPT ![p] = Idle]
    /\ subscription' =
          IF p # Subscriber \/ ~reply.ok THEN subscription
          ELSE IF subscription.state = "none"
          THEN [subscription EXCEPT !.state = "polling", !.revision = reply.value, !.since = reply.value]
          ELSE [subscription EXCEPT !.handled = @ \o reply.list,
                   !.revision = Max({@} \cup {reply.list[i].revision : i \in 1..Len(reply.list)})]

FreeDescriptors == {fd \in Descriptor : conn[fd].state = "free"}

\* IpcCoordinatorClient::Call: connect, send, read one line, close.  Every wait has a timeout.  A
\* call that cannot connect has no effect.
Call(p, operation, argument) ==
    /\ peer[p] = Idle
    /\ stage \in {"up", "stopping", "acceptor"} /\ Len(backlog) < Capacity /\ FreeDescriptors # {}
    /\ LET fd == Min(FreeDescriptors)
       IN  /\ peer' = [peer EXCEPT ![p] = [at |-> "send", fd |-> fd, operation |-> operation, argument |-> argument]]
           /\ conn' = [conn EXCEPT ![fd] = [Free EXCEPT !.state = "backlog", !.peer = p]]
           /\ backlog' = Append(backlog, fd)
    /\ UNCHANGED <<coordinator, events, queue, active, acceptor, worker, stage, subscription>>

CallCoordinator(c) ==
    \/ Len(phase) < MaxTransitions /\ Call(c, "request", 0)
    \/ \E id \in 1..Len(phase) : Call(c, "wait", id)

\* The connection is gone for the server, or for both.
Closed(c) == IF c.peer = None THEN Free ELSE [c EXCEPT !.state = "closed"]
Left(c) == IF c.state = "closed" THEN Free ELSE [c EXCEPT !.peer = None]
Broken(c) == c.shut \/ c.state = "closed"

Send(p) ==
    /\ peer[p].at = "send"
    /\ LET fd == peer[p].fd
       IN  IF Broken(conn[fd])
           THEN Returned(p, Failure) /\ conn' = [conn EXCEPT ![fd] = Left(@)]
           ELSE /\ peer' = [peer EXCEPT ![p] = [Idle EXCEPT !.at = "read", !.fd = fd]]
                /\ conn' = [conn EXCEPT ![fd].request = <<peer[p].operation, peer[p].argument>>]
                /\ subscription' = subscription
    /\ UNCHANGED <<coordinator, server>>

\* ReadLine: the answer if there is one, a failure when the connection is broken or time is up.
Receive(p) ==
    /\ peer[p].at = "read"
    /\ LET fd == peer[p].fd
       IN  /\ \/ conn[fd].reply # <<>> /\ Returned(p, conn[fd].reply[1])
              \/ conn[fd].reply = <<>> /\ Returned(p, Failure)
           /\ conn' = [conn EXCEPT ![fd] = Left(@)]
    /\ UNCHANGED <<coordinator, server>>

-----------------------------------------------------------------------------
\* IpcCoordinatorClient::Subscribe: a snapshot, then a thread that asks for the events after the
\* highest revision it was given, and goes on asking when the answer is a failure.
Subscribe == subscription.state = "none" /\ Call(Subscriber, "snapshot", 0)

Poll == subscription.state = "polling" /\ Call(Subscriber, "events", subscription.revision)

\* Reset of the subscription: the thread sees the flag between two calls, and is joined.
Unsubscribe ==
    /\ subscription.state = "polling" /\ peer[Subscriber] = Idle
    /\ subscription' = [subscription EXCEPT !.state = "ended"]
    /\ UNCHANGED <<coordinator, server, peer, conn>>

-----------------------------------------------------------------------------
\* The acceptor polls, takes a connection or not, and looks at stopping_.  What it accepts is
\* queued, or closed at once when the queue is full.
Accept ==
    /\ acceptor = "poll"
    /\ acceptor' = IF Stopping THEN "exit" ELSE "poll"
    /\ IF backlog = <<>> THEN Stopping /\ UNCHANGED <<conn, backlog, queue, active>>
       ELSE LET fd == Head(backlog)
            IN  /\ backlog' = Tail(backlog)
                /\ IF Len(queue) >= Capacity
                   THEN conn' = [conn EXCEPT ![fd] = Closed(@)] /\ UNCHANGED <<queue, active>>
                   ELSE /\ conn' = [conn EXCEPT ![fd].state = "open", ![fd].late = stage = "acceptor"]
                        /\ queue' = Append(queue, fd)
                        /\ active' = active \cup {fd}
    /\ UNCHANGED <<coordinator, events, worker, stage, peer, subscription>>

\* A worker, from one step of its loop to the next.
Works(w, next) == worker' = [worker EXCEPT ![w] = next]
Responds(w, reply) == Works(w, [worker[w] EXCEPT !.at = "respond", !.reply = reply])

Take(w) ==
    /\ worker[w].at = "idle"
    /\ \/ /\ queue # <<>>
          /\ Works(w, [at |-> "read", fd |-> Head(queue), reply |-> Failure])
          /\ queue' = Tail(queue)
       \/ queue = <<>> /\ Stopping /\ Works(w, [worker[w] EXCEPT !.at = "exit"]) /\ queue' = queue
    /\ UNCHANGED <<coordinator, events, backlog, active, acceptor, stage, peer, subscription, conn>>

\* Mutant: the events from the revision on.
EventsFrom(after) ==
    IF events # <<>> /\ after + 1 < Head(events).revision THEN Failure
    ELSE Reply(TRUE, 0, SelectSeq(events, LAMBDA event : event.revision >= after))

\* The events after a revision, unless some before the first one kept may be missing.
EventsAfter(after) ==
    IF events # <<>> /\ after + 1 < Head(events).revision THEN Failure
    ELSE Reply(TRUE, 0, SelectSeq(events, LAMBDA event : event.revision > after))

Dispatch(w) ==
    LET fd == worker[w].fd
        operation == conn[fd].request[1]
        argument == conn[fd].request[2]
    IN  /\ worker[w].at = "read"
        /\ \/ /\ conn[fd].request = <<>> /\ (conn[fd].peer = None \/ Broken(conn[fd]))
              /\ Responds(w, Failure) /\ UNCHANGED coordinator
           \/ /\ conn[fd].request # <<>> /\ operation = "snapshot"
              /\ Responds(w, Reply(TRUE, revision, <<>>)) /\ UNCHANGED coordinator
           \/ /\ conn[fd].request # <<>> /\ operation = "events"
              /\ Responds(w, EventsAfter(argument)) /\ UNCHANGED coordinator
           \/ /\ conn[fd].request # <<>> /\ operation = "request" /\ Len(phase) < MaxTransitions
              /\ Responds(w, Reply(TRUE, Len(phase) + 1, <<>>))
              /\ phase' = Append(phase, "active") /\ Emits(<<"transition">>)
           \/ /\ conn[fd].request # <<>> /\ operation = "request" /\ Len(phase) >= MaxTransitions
              /\ Responds(w, Failure) /\ UNCHANGED coordinator
           \/ /\ conn[fd].request # <<>> /\ operation = "wait"
              /\ IF phase[argument] = "terminal"
                 THEN Responds(w, Reply(TRUE, argument, <<>>))
                 ELSE Works(w, [worker[w] EXCEPT !.at = "waiting", !.reply = Reply(FALSE, argument, <<>>)])
              /\ UNCHANGED coordinator
        /\ conn' = [conn EXCEPT ![fd].request = <<>>]
        /\ UNCHANGED <<events, backlog, queue, active, acceptor, stage, peer, subscription>>

\* The worker sleeps and looks again until the transition is terminal or the deadline of the
\* caller has passed.
Waiting(w) ==
    LET id == worker[w].reply.value
    IN  /\ worker[w].at = "waiting"
        /\ Responds(w, IF phase[id] = "terminal" THEN Reply(TRUE, id, <<>>) ELSE Failure)
        /\ UNCHANGED <<coordinator, events, backlog, queue, active, acceptor, stage, peer, subscription, conn>>

\* Mutant: the descriptor is closed before it is taken from active_.
ClosesBeforeErasing(w) ==
    LET fd == worker[w].fd
        reaches == ~Broken(conn[fd]) /\ conn[fd].peer # None
    IN  /\ \/ /\ worker[w].at = "respond"
              /\ conn' = [conn EXCEPT ![fd] = Closed(IF reaches THEN [@ EXCEPT !.reply = <<worker[w].reply>>] ELSE @)]
              /\ active' = active
              /\ Works(w, [worker[w] EXCEPT !.at = "close", !.reply = Failure])
           \/ /\ worker[w].at = "close"
              /\ conn' = conn /\ active' = active \ {fd}
              /\ Works(w, [worker[w] EXCEPT !.at = "idle", !.fd = 0])
        /\ UNCHANGED <<coordinator, events, backlog, queue, acceptor, stage, peer, subscription>>

\* The answer is written and the descriptor taken from active_; only then is it closed.
Respond(w) ==
    LET fd == worker[w].fd
        reaches == ~Broken(conn[fd]) /\ conn[fd].peer # None
    IN  /\ \/ /\ worker[w].at = "respond"
              /\ conn' = IF reaches THEN [conn EXCEPT ![fd].reply = <<worker[w].reply>>] ELSE conn
              /\ active' = active \ {fd}
              /\ Works(w, [worker[w] EXCEPT !.at = "close", !.reply = Failure])
           \/ /\ worker[w].at = "close"
              /\ conn' = [conn EXCEPT ![fd] = Closed(@)]
              /\ active' = active
              /\ Works(w, [worker[w] EXCEPT !.at = "idle", !.fd = 0])
        /\ UNCHANGED <<coordinator, events, backlog, queue, acceptor, stage, peer, subscription>>

\* Mutant: the connections are not shut down.
DestroyKeepingOpen ==
    /\ \/ stage = "up" /\ stage' = "stopping" /\ UNCHANGED <<conn, backlog>>
       \/ stage = "stopping" /\ stage' = "acceptor" /\ UNCHANGED <<conn, backlog>>
       \/ /\ stage = "acceptor" /\ acceptor = "exit" /\ stage' = "workers"
          /\ conn' = [fd \in Descriptor |-> IF conn[fd].state = "backlog" THEN Closed(conn[fd]) ELSE conn[fd]]
          /\ backlog' = <<>>
       \/ /\ stage = "workers" /\ \A w \in Workers : worker[w].at = "exit"
          /\ stage' = "down" /\ UNCHANGED <<conn, backlog>>
    /\ UNCHANGED <<coordinator, events, queue, active, acceptor, worker, peer, subscription>>

\* ~IpcCoordinatorServer.
Destroy ==
    /\ \/ stage = "up" /\ stage' = "stopping" /\ UNCHANGED <<conn, backlog>>
       \/ /\ stage = "stopping" /\ stage' = "acceptor"
          /\ conn' = [fd \in Descriptor |-> IF fd \in active THEN [conn[fd] EXCEPT !.shut = TRUE] ELSE conn[fd]]
          /\ backlog' = backlog
       \/ /\ stage = "acceptor" /\ acceptor = "exit" /\ stage' = "workers"
          /\ conn' = [fd \in Descriptor |-> IF conn[fd].state = "backlog" THEN Closed(conn[fd]) ELSE conn[fd]]
          /\ backlog' = <<>>
       \/ /\ stage = "workers" /\ \A w \in Workers : worker[w].at = "exit"
          /\ stage' = "down" /\ UNCHANGED <<conn, backlog>>
    /\ UNCHANGED <<coordinator, events, queue, active, acceptor, worker, peer, subscription>>

-----------------------------------------------------------------------------
Continues(p) == Send(p) \/ Receive(p)
WorkerStep(w) == Take(w) \/ Dispatch(w) \/ Waiting(w) \/ Respond(w)

Next ==
    \/ \E id \in 1..Len(phase) : Finish(id)
    \/ RequestLocally \/ HandleEvent
    \/ \E c \in Callers : CallCoordinator(c)
    \/ \E p \in Peers : Continues(p)
    \/ Subscribe \/ Poll \/ Unsubscribe
    \/ Accept \/ \E w \in Workers : WorkerStep(w)
    \/ Destroy

\* The threads of the server run.  Nothing is assumed of its peers, which may stop at any point.
Spec ==
    /\ Init /\ [][Next]_vars
    /\ WF_vars(Accept) /\ WF_vars(Destroy /\ Stopping)
    /\ \A w \in Workers : WF_vars(WorkerStep(w))

-----------------------------------------------------------------------------
\* The destructor shuts down no descriptor that was closed, which might by then be that of another
\* file: what active_ holds is open, and what a worker or the queue holds is in it until the worker
\* is about to close it.
ActiveIsOpen ==
    /\ \A fd \in active : conn[fd].state = "open"
    /\ \A i \in 1..Len(queue) : queue[i] \in active

\* The handler of a subscription is given no event twice and none from before it subscribed, though
\* every poll is a new connection whose answer may be lost.
EventsOnce ==
    \A i \in 1..Len(subscription.handled) :
       /\ subscription.handled[i].revision > subscription.since
       /\ \A j \in 1..(i - 1) : subscription.handled[j] # subscription.handled[i]

\* A peer that was accepted after the others were shut down, and sends nothing.
Silent(w) ==
    LET fd == worker[w].fd
    IN  /\ worker[w].at = "read" /\ conn[fd].late
        /\ conn[fd].request = <<>> /\ conn[fd].peer # None /\ ~Broken(conn[fd])

\* The destructor of the server returns, whatever its peers do with their connections, with one
\* exception: accepted sockets have no receive timeout, so that one connection that the acceptor
\* took after the others were shut down keeps a worker, and the destructor, for as long as its
\* peer neither sends nor closes.
ServerStops ==
    <>[](stage \in {"stopping", "acceptor", "workers"}) => \E w \in Workers : <>[]Silent(w)
=============================================================================
