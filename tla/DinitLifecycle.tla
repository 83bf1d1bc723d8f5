--------------------------- MODULE DinitLifecycle ---------------------------
(***************************************************************************)
(* One process of a managed application: ovf::app::Run on its main thread  *)
(* (app/include/ovf/app/run.hpp), the Application it creates               *)
(* (exec/src/application.cpp), the dispatcher of stop requests and the     *)
(* signal handler (exec/src/dinit_lifecycle.cpp), and a thread of the user *)
(* that subscribes a stop handler.                                         *)
(*                                                                         *)
(* A signal handler runs between two steps of the thread it interrupts,    *)
(* which is the main thread or the dispatcher.  The stop pipe is the fact  *)
(* that it holds a byte.                                                   *)
(***************************************************************************)
EXTENDS Naturals, Sequences

Facilities == <<"communication", "logging", "persistence", "crypto">>

VARIABLE process

\* main, dispatcher, observer: what the threads are doing; mutex: who holds mutex_; handlers: is the
\* handler of the user in handlers_, copied: is it in the dispatcher's copy, called: was it called;
\* stop, reported, shutting: stop_requested_, ready_reported_, shutting_down_; pipe, token: the
\* descriptors and what is in them; fd: signal_write_fd is that of the pipe; handled: the signals
\* have the handler of the backend; up: the facilities that were created; readied: the readiness
\* token is in the descriptor of the supervisor.
NoProcess ==
    [main |-> "absent", dispatcher |-> "none", observer |-> "none", mutex |-> "none",
     handlers |-> FALSE, copied |-> FALSE, called |-> FALSE,
     stop |-> FALSE, reported |-> FALSE, shutting |-> FALSE, pipe |-> "none", token |-> FALSE,
     fd |-> FALSE, handled |-> FALSE, stray |-> FALSE, up |-> 0, readied |-> FALSE,
     exit |-> "none"]

Launched == [NoProcess EXCEPT !.main = "create"]
Alive == process.main \notin {"absent", "exited"}
At(step) == process.main = step

\* The end of the process, whose other threads go wherever they are.
Exited(p, code) == [p EXCEPT !.main = "exited", !.exit = code, !.observer = "none", !.mutex = "none"]

\* An early return: what was created is destroyed on the way out.
Returns(code) == process' = [process EXCEPT !.main = "teardown", !.exit = code]

-----------------------------------------------------------------------------
\* DinitLifecycleBackend::Create: the environment, the pipe, the signal handlers, the dispatcher.
\* An exception of the thread's creation destroys the backend, which closes the pipe, and the
\* handler of the exception closes it again.
CreateEnvironment ==
    /\ At("create")
    /\ \/ process' = Exited(process, "execution_init_failed")
       \/ process' = [process EXCEPT !.main = "install", !.pipe = "open"]

InstallSignalHandlers ==
    \/ /\ At("install")
       /\ \/ process' = Exited([process EXCEPT !.pipe = "closed"], "execution_init_failed")
          \/ process' = [process EXCEPT !.main = "assign", !.handled = TRUE]
    \/ At("assign") /\ process' = [process EXCEPT !.main = "thread", !.fd = TRUE]

CreateDispatcher ==
    /\ At("thread")
    /\ \/ process' = [process EXCEPT !.main = "facilities", !.dispatcher = "poll"]
       \/ process' = Exited([process EXCEPT !.pipe = "closed", !.fd = FALSE, !.handled = FALSE],
                            "execution_init_failed")

\* The facilities of Run, in order; the first that fails ends it.
CreateFacility ==
    /\ At("facilities")
    /\ IF process.up = Len(Facilities) THEN process' = [process EXCEPT !.main = "body"]
       ELSE \/ process' = [process EXCEPT !.up = @ + 1]
            \/ Returns("init_failed")

\* The body reports readiness, or fails before.  The flag is taken back when the write fails.
ReportReady ==
    /\ At("body") /\ ~process.reported
    /\ \/ process' = [process EXCEPT !.reported = TRUE, !.readied = TRUE, !.main = "running"]
       \/ Returns("ready_failed")
       \/ Returns("application_error")

-----------------------------------------------------------------------------
\* Context::Run is WaitForStop without a deadline: the predicate is read, and the wait begun, with
\* mutex_ held.
WaitForStop ==
    \/ At("running") /\ process.mutex = "none"
       /\ process' = [process EXCEPT !.main = "check", !.mutex = "main"]
    \/ /\ At("check")
       /\ process' = IF process.stop THEN [process EXCEPT !.main = "teardown", !.mutex = "none", !.exit = "ok"]
                     ELSE [process EXCEPT !.main = "block"]
    \/ At("block") /\ process' = [process EXCEPT !.main = "blocked", !.mutex = "none"]
    \/ At("woken") /\ process.mutex = "none"
       /\ process' = [process EXCEPT !.main = "check", !.mutex = "main"]

\* Context::Tick looks at the flag between two calls of the body, which may end the loop too.
Tick ==
    \/ At("running") /\ process' = [process EXCEPT !.main = "tick"]
    \/ At("tick") /\ process.stop /\ Returns("ok")

TickActionStop == At("tick") /\ Returns("ok")

\* DispatchStops, from the poll to the calls of the handlers.
Dispatcher(step) == process.dispatcher = step

PollStops ==
    \/ Dispatcher("poll") /\ process.shutting /\ process' = [process EXCEPT !.dispatcher = "exit"]
    \/ Dispatcher("poll") /\ process.token /\ process' = [process EXCEPT !.dispatcher = "read", !.token = FALSE]
    \/ /\ Dispatcher("read")
       /\ process' = IF process.shutting THEN [process EXCEPT !.dispatcher = "exit"]
                     ELSE [process EXCEPT !.dispatcher = "collect", !.stop = TRUE]

\* Mutant: the waiter is notified before mutex_ is taken.
NotifyBeforeCollecting ==
    \/ /\ Dispatcher("collect")
       /\ process' = [process EXCEPT !.dispatcher = "notify", !.main = IF @ = "blocked" THEN "woken" ELSE @]
    \/ /\ Dispatcher("notify") /\ process.mutex = "none"
       /\ process' = [process EXCEPT !.dispatcher = "call", !.copied = process.handlers]

CollectAndNotify ==
    \/ /\ Dispatcher("collect") /\ process.mutex = "none"
       /\ process' = [process EXCEPT !.dispatcher = "notify", !.copied = process.handlers]
    \/ /\ Dispatcher("notify")
       /\ process' = [process EXCEPT !.dispatcher = "call", !.main = IF @ = "blocked" THEN "woken" ELSE @]

CallHandlers ==
    \/ /\ Dispatcher("call") /\ process.copied
       /\ process' = [process EXCEPT !.dispatcher = "calling", !.copied = FALSE]
    \/ /\ Dispatcher("calling")
       /\ process' = [process EXCEPT !.dispatcher = "call", !.called = TRUE]
    \/ Dispatcher("call") /\ ~process.copied /\ process' = [process EXCEPT !.dispatcher = "poll"]

DispatchStops == PollStops \/ CollectAndNotify \/ CallHandlers

\* OnStop and the Reset of its subscription, which finds no application once that is destroyed.  The
\* reference Reset holds for the time of the call is left out.
OnStop ==
    /\ process.observer = "none" /\ process.mutex = "none" /\ ~process.called
    /\ process.main \in {"running", "blocked", "tick"}
    /\ process' = [process EXCEPT !.observer = "subscribed", !.handlers = TRUE]

ResetSubscription ==
    /\ process.observer = "subscribed"
    /\ \/ process.shutting /\ process' = [process EXCEPT !.observer = "none"]
       \/ /\ ~process.shutting /\ process.mutex = "none"
          /\ process' = [process EXCEPT !.observer = "none", !.handlers = FALSE]

\* HandleTerminationSignal, or the end of the process where the signal has its default action.
SignalDelivered ==
    IF ~process.handled THEN Exited(process, "signal")
    ELSE IF ~process.fd THEN process
    ELSE IF process.pipe = "open" THEN [process EXCEPT !.token = TRUE]
    ELSE [process EXCEPT !.stray = TRUE]

-----------------------------------------------------------------------------
\* The facilities in the reverse order, then ~DinitLifecycleBackend.
Teardown ==
    /\ At("teardown")
    /\ process' = IF process.up > 0 THEN [process EXCEPT !.up = @ - 1] ELSE [process EXCEPT !.main = "shutdown"]

\* Mutant: the pipe is closed to wake the dispatcher, which is joined after that.
DestroyClosingFirst ==
    \/ At("shutdown") /\ process' = [process EXCEPT !.main = "close", !.shutting = TRUE, !.fd = FALSE]
    \/ At("close") /\ process' = [process EXCEPT !.main = "restore", !.pipe = "closed", !.token = TRUE]
    \/ At("restore") /\ process' = [process EXCEPT !.main = "join", !.handled = FALSE]
    \/ At("join") /\ process.dispatcher = "exit" /\ process' = [process EXCEPT !.main = "destroyed"]
    \/ At("destroyed") /\ process' = Exited(process, process.exit)

\* The steps of the destructor; main returns after it.
Destroy ==
    \/ At("shutdown") /\ process' = [process EXCEPT !.main = "join", !.shutting = TRUE, !.token = TRUE]
    \/ At("join") /\ process.dispatcher = "exit" /\ process' = [process EXCEPT !.main = "restore", !.fd = FALSE]
    \/ At("restore") /\ process' = [process EXCEPT !.main = "close", !.handled = FALSE]
    \/ At("close") /\ process' = [process EXCEPT !.main = "destroyed", !.pipe = "closed"]
    \/ At("destroyed") /\ process' = Exited(process, process.exit)

Main ==
    \/ CreateEnvironment \/ InstallSignalHandlers \/ CreateDispatcher \/ CreateFacility
    \/ ReportReady \/ WaitForStop \/ Tick \/ Teardown \/ Destroy
User == OnStop \/ ResetSubscription \/ TickActionStop
=============================================================================
