--------------------------- MODULE ProcessBackend ---------------------------
(***************************************************************************)
(* The execution daemon on its way to a service of the supervisor: Run of  *)
(* exec/daemon/main.cpp, which loads the backend library and owns what it  *)
(* creates, BindBackend and the adapter of the backend ABI                 *)
(* (exec/src/backend_binding.cpp, backend_loader.cpp), the plugin on the   *)
(* other side of it (exec/backends/dinit_plugin.cpp), and the operations   *)
(* of DinitBackend over the control socket (exec/backends/dinit.cpp).      *)
(***************************************************************************)
EXTENDS Naturals, Sequences

VARIABLES
    host,       \* Run of the daemon: its step, and what it owns
    op          \* the operation on the application

\* library and backend: loaded, created, destroyed or unloaded, and how often the latter.
NoHost == [at |-> "verify", library |-> "none", backend |-> "none", destroyed |-> 0]
NoOperation == [kind |-> "none", at |-> "idle", result |-> "none"]

-----------------------------------------------------------------------------
\* An error of the backend as a status of the ABI, and that status as an error of the engine.
Status(code) ==
    CASE code \in {"invalid_argument", "configuration_error"} -> "INVALID_ARGUMENT"
      [] code \in {"invalid_transition", "already_exists"} -> "INVALID_STATE"
      [] code \in {"backend_unavailable", "communication_error", "backend_error"} -> "BACKEND_ERROR"
      [] OTHER -> code

StatusError(status) ==
    CASE status = "INVALID_ARGUMENT" -> "invalid_argument"
      [] status = "INVALID_STATE" -> "invalid_transition"
      [] status = "BACKEND_ERROR" -> "backend_error"
      [] OTHER -> status

\* Mutant: a service that starts is taken for one that is ready.
EvidenceOfStarting(state, reason) ==
    CASE state = "STARTING" -> "ready"
      [] state = "STARTED" -> "ready"
      [] state = "STOPPING" -> "stopping"
      [] state = "STOPPED" -> IF reason \in {"FAILED", "TIMEDOUT"} THEN "failed" ELSE "stopped"

\* The state of a service as the state of an application.
Evidence(state, reason) ==
    CASE state = "STARTING" -> "starting"
      [] state = "STARTED" -> "ready"
      [] state = "STOPPING" -> "stopping"
      [] state = "STOPPED" -> IF reason \in {"FAILED", "TIMEDOUT"} THEN "failed" ELSE "stopped"

\* Invoke of the adapter, and the plugin's function under it.
Succeeds(result) == op' = [op EXCEPT !.at = "idle", !.result = result]
Fails(code) == op' = [op EXCEPT !.at = "idle", !.result = StatusError(Status(code))]

-----------------------------------------------------------------------------
\* Run of the daemon: one step for each thing it creates.  A step that fails returns, and what was
\* created is destroyed in the reverse order: the backend, owned by the engine, before the library.
Host(step) == host.at = step
Unwind(h) == [h EXCEPT !.at = "unwind"]

LoadDeployment ==
    /\ Host("verify")
    /\ host' = [host EXCEPT !.at = "library"] \/ host' = Unwind(host)

LoadBackendLibrary ==
    /\ Host("library")
    /\ host' = [host EXCEPT !.at = "create", !.library = "loaded"] \/ host' = Unwind(host)

\* Create of the plugin: the configuration is parsed and checked before anything is allocated.
CreateBackend ==
    /\ Host("create")
    /\ host' = [host EXCEPT !.at = "bind", !.backend = "created"] \/ host' = Unwind(host)

\* Mutant: a backend without the required capabilities is not destroyed.
BindBackendKeeping ==
    /\ Host("bind")
    /\ host' = [host EXCEPT !.at = "engine"] \/ host' = Unwind([host EXCEPT !.backend = "abandoned"])

\* The rest of BindBackend: its table, its capabilities, the adapter; a failure destroys it.
BindBackend ==
    /\ Host("bind")
    /\ \/ host' = [host EXCEPT !.at = "engine"]
       \/ host' = Unwind([host EXCEPT !.backend = "none", !.destroyed = @ + 1])

\* The journal, the engine, which takes the backend, the coordinator and the server.
CreateEngine ==
    /\ Host("engine")
    /\ host' = [host EXCEPT !.at = "up"] \/ host' = Unwind(host)

\* sigwait returns, with no operation of the engine under way: the coordinator joins its workers.
Terminate == Host("up") /\ op.at = "idle" /\ host' = Unwind(host)

UnwindHost ==
    /\ Host("unwind")
    /\ host' = IF host.backend = "created" THEN [host EXCEPT !.backend = "none", !.destroyed = @ + 1]
               ELSE IF host.library = "loaded" THEN [host EXCEPT !.library = "none"]
               ELSE [host EXCEPT !.at = "exited"]

RunDaemon ==
    \/ LoadDeployment \/ LoadBackendLibrary \/ CreateBackend \/ BindBackend \/ CreateEngine \/ UnwindHost

-----------------------------------------------------------------------------
\* Connection::Open and Load: neither changes the service.
Issue(kind) ==
    /\ Host("up") /\ op.at = "idle"
    /\ op' = [kind |-> kind, at |-> "connect", result |-> "none"]

Connect ==
    /\ op.at = "connect"
    /\ \/ Fails("backend_unavailable") \/ Fails("deadline_exceeded") \/ Fails("communication_error")
       \/ op' = [op EXCEPT !.at = IF op.kind = "inspect" THEN "status" ELSE "command"]

\* Command, but for what the supervisor makes of it; the answer may not come in time.  To
\* RequestSystemRecovery its acknowledgement is enough.
Command(sent) ==
    /\ op.at = "command"
    /\ \/ sent /\ (IF op.kind = "recover" THEN Succeeds("none") ELSE op' = [op EXCEPT !.at = "status"])
       \/ Fails("deadline_exceeded")
       \/ ~sent /\ Fails("communication_error")
       \/ ~sent /\ Fails("permission_denied")

\* One turn of the loop of Change, or the Status of Inspect.  The target of a start is ready, that
\* of a stop is stopped.
PollStatus(state, reason) ==
    LET evidence == Evidence(state, reason)
        target == IF op.kind = "start" THEN "ready" ELSE "stopped"
    IN  /\ op.at = "status"
        /\ \/ (op.kind = "inspect" \/ evidence \in {target, "failed"}) /\ Succeeds(evidence)
           \/ Fails("deadline_exceeded")
           \/ Fails("communication_error")
=============================================================================
