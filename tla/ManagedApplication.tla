------------------------- MODULE ManagedApplication -------------------------
(***************************************************************************)
(* An application under the supervisor: the daemon asks the supervisor to  *)
(* start and to stop a service (module ProcessBackend), the supervisor     *)
(* launches its process and signals it (module DinitLifecycle).            *)
(*                                                                         *)
(* The supervisor is dinit, which is not part of the repository; it is     *)
(* modelled from its use: services without automatic restart, a readiness  *)
(* descriptor, a start timeout and a stop timeout.  It takes the commands  *)
(* of its connections in the order they were sent.                         *)
(***************************************************************************)
EXTENDS ProcessBackend

CONSTANT MaxLaunches    \* bound: processes launched

VARIABLES
    service,    \* the service: its state, why it stopped, is it to start again, the processes launched
    process

INSTANCE DinitLifecycle WITH process <- process

vars == <<host, op, service, process>>

Init ==
    /\ host = NoHost /\ op = NoOperation
    /\ service = [state |-> "STOPPED", reason |-> "NORMAL", wanted |-> FALSE, launches |-> 0]
    /\ process = NoProcess

-----------------------------------------------------------------------------
Launch(s) == [s EXCEPT !.state = "STARTING", !.wanted = FALSE, !.launches = @ + 1]

\* STARTSERVICE launches the process of a stopped service, and one that is stopping is to start again
\* after that; STOPSERVICE sends SIGTERM to the process of one that is started or starting, and takes
\* the other back.  Anything else is there already, or is coming.
StartService ==
    /\ service.state \in {"STOPPED", "STOPPING"} => service.launches < MaxLaunches
    /\ service' = CASE service.state = "STOPPED" -> Launch(service)
                    [] service.state = "STOPPING" -> [service EXCEPT !.wanted = TRUE]
                    [] OTHER -> service
    /\ process' = IF service.state = "STOPPED" THEN Launched ELSE process

StopService ==
    LET running == service.state \in {"STARTING", "STARTED"}
    IN  /\ service' = IF running THEN [service EXCEPT !.state = "STOPPING", !.reason = "NORMAL"]
                      ELSE [service EXCEPT !.wanted = FALSE]
        /\ process' = IF running /\ Alive THEN SignalDelivered ELSE process

\* A start that takes too long is ended, and a process that does not end is killed.
StartTimesOut ==
    /\ service.state = "STARTING"
    /\ service' = [service EXCEPT !.state = "STOPPING", !.reason = "TIMEDOUT"]
    /\ process' = IF Alive THEN SignalDelivered ELSE process

StopTimesOut ==
    /\ service.state = "STOPPING" /\ Alive
    /\ process' = Exited(process, "signal") /\ UNCHANGED service

Readied ==
    /\ service.state = "STARTING" /\ process.readied
    /\ service' = [service EXCEPT !.state = "STARTED"] /\ UNCHANGED process

ProcessEnded ==
    /\ process.main = "exited" /\ service.state # "STOPPED"
    /\ service' = IF service.wanted THEN Launch(service)
                  ELSE [service EXCEPT !.state = "STOPPED",
                           !.reason = CASE service.state = "STARTING" -> "FAILED"
                                        [] service.state = "STARTED" -> "TERMINATED"
                                        [] OTHER -> @]
    /\ process' = IF service.wanted THEN Launched ELSE process

Supervisor == Readied \/ ProcessEnded

-----------------------------------------------------------------------------
\* The operations of the daemon.
Ask == \E kind \in {"start", "stop", "inspect", "recover"} : Issue(kind)

Change ==
    \/ op.kind = "start" /\ Command(TRUE) /\ StartService
    \/ op.kind = "stop" /\ Command(TRUE) /\ StopService
    \/ op.kind = "recover" /\ Command(TRUE) /\ UNCHANGED <<service, process>>
    \/ Command(FALSE) /\ UNCHANGED <<service, process>>

Daemon ==
    \/ (RunDaemon \/ Terminate) /\ UNCHANGED <<op, service, process>>
    \/ (Ask \/ Connect \/ PollStatus(service.state, service.reason)) /\ UNCHANGED <<host, service, process>>
    \/ Change /\ UNCHANGED host

Inside(action) == action /\ UNCHANGED <<host, op, service>>

Next ==
    \/ Daemon
    \/ (StartTimesOut \/ StopTimesOut \/ Supervisor) /\ UNCHANGED <<host, op>>
    \/ Inside(Alive /\ (Main \/ DispatchStops \/ User))

\* The threads of the process run, and the supervisor reads what they write.
Spec ==
    /\ Init /\ [][Next]_vars
    /\ WF_vars(Inside(Alive /\ Main)) /\ WF_vars(Inside(Alive /\ DispatchStops))
    /\ WF_vars(Supervisor /\ UNCHANGED <<host, op>>)

-----------------------------------------------------------------------------
\* A stop request the signal handler has put into the pipe ends the process: no wake-up of
\* WaitForStop is lost between the flag, which is set without mutex_, and the notification, and the
\* destructor does not wait for a dispatcher that waits itself.
StopHeard == (Alive /\ process.token) ~> ~Alive

\* The destructor of the backend leaves nothing behind that still uses it: once the pipe is closed no
\* signal handler writes into it, and the dispatcher, which polls it and calls the stop handlers, has
\* returned.
EndIsClean ==
    /\ ~process.stray
    /\ (Alive /\ process.pipe = "closed") => (process.dispatcher \in {"none", "exit"} /\ ~process.fd)

\* What the daemon is told of the application is so, whether the start or stop was the first or a
\* retry of one whose answer was lost: a start is ready only when the process of this start wrote its
\* token, and a stop is stopped, and either is failed, only when the process is gone.
AnswerIsTrue ==
    /\ (op.kind = "start" /\ op.result = "ready") => process.readied
    /\ (op.kind \in {"start", "stop"} /\ op.result \in {"stopped", "failed"}) => ~Alive

\* The daemon destroys the backend it created once, on every way out, and unloads the library only
\* then: the functions of the backend are code of the library.
BackendReleased ==
    /\ host.backend = "created" => host.library = "loaded"
    /\ host.at = "exited" => (host.backend = "none" /\ host.library = "none")
    /\ host.destroyed <= 1
=============================================================================
