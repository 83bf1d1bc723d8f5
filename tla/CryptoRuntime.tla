--------------------------- MODULE CryptoRuntime ---------------------------
(* The cryptographic runtime: Key, InputStream, AeadRecordStream and        *)
(* AsyncOperation objects over one provider.  Every call but those of       *)
(* AsyncOperation holds RuntimeState::mutex_ from its first call on the     *)
(* backend to its last, so it is one step; Stop holds it until the worker   *)
(* of the provider has ended, and the worker, Cancel and Wait go on         *)
(* meanwhile.                                                               *)
EXTENDS BotanProvider
CONSTANTS
    Clients,     \* threads of the application
    Workloads,   \* what the application does: "keys", "input", "records", "async"
    MaxUpdates,  \* bound: updates of a stream
    MaxRecords,  \* bound: records sealed
    MaxNonces,   \* bound: encryption streams opened
    MaxTickets   \* bound: jobs submitted
VARIABLES
    workload,
    p,           \* the backend
    running,     \* RuntimeState::running_
    stopper,     \* the step Stop is at; mutex_ is held unless it is "none"
    worker,      \* AsyncWorker: its step, its job and the result of the job
    client,      \* what each client holds
    wire         \* the base nonces given out, and the records sealed, in order

vars == <<workload, p, running, stopper, worker, client, wire>>

NoJob == [ticket |-> 0, user_data |-> 0]

(* key, made: the handles of a Key and of the Key that is to be assigned to *)
(* it; usage: what the policies of the two permit; answer: the usage of the *)
(* last operation the key served; stream, operation: an InputStream or an   *)
(* AeadRecordStream; count: its updates or records; output, expected: what  *)
(* the last Finish covered, and count when it was called; opened: the texts *)
(* of the records it opened; op, done: the ticket and done of the State of  *)
(* an AsyncOperation; pc: where the client is in it.                        *)
Unused ==
    [key |-> NoHandle, made |-> NoHandle, usage |-> {}, making |-> {}, answer |-> "none",
     stream |-> NoHandle, operation |-> "none", count |-> 0, output |-> 0, expected |-> 0,
     opened |-> <<>>, op |-> 0, done |-> FALSE, pc |-> "idle"]

Init ==
    /\ workload \in Workloads
    /\ p = Backend
    /\ running = TRUE
    /\ stopper = "none"
    /\ worker = [pc |-> "wait", job |-> NoJob, stopping |-> FALSE]
    /\ client = [c \in Clients |-> Unused]
    /\ wire = [nonces |-> 0, records |-> <<>>]

Calls(c) == client[c].pc = "idle" /\ stopper = "none"

Released(table) == FoldFunction(+, 0, table.uses)

Bounded == Released(p.keys) + Released(p.streams) < MaxReleases

Untouched == UNCHANGED <<workload, running, stopper, worker>>
-----------------------------------------------------------------------------
(* Key.                                                                     *)
Policies ==
    CASE workload = "keys" -> {<<"signature", {"sign"}>>, <<"agreement", {"derive"}>>}
      [] workload = "records" -> {<<"cipher", {"encrypt", "decrypt"}>>}
      [] OTHER -> {<<"signature", {"sign", "verify"}>>}

(* A Key is constructed, or is made to be assigned to the one that is held. *)
Made(c, a, usage) ==
    /\ p' = a.p
    /\ client' =
         IF a.handle = NoHandle THEN client
         ELSE IF client[c].key = NoHandle
         THEN [client EXCEPT ![c].key = a.handle, ![c].usage = usage]
         ELSE [client EXCEPT ![c].made = a.handle, ![c].making = usage]
    /\ UNCHANGED wire /\ Untouched

Makes(c) == Calls(c) /\ client[c].made = NoHandle /\ Bounded

(* Bound: keys are imported, agreed on, replaced and used in the "keys"     *)
(* workload; in the others a client generates the one it needs.             *)
Needs(c) == workload = "keys" \/ client[c].key = NoHandle

RuntimeImportKey(c) ==
    /\ workload = "keys" /\ Makes(c)
    /\ \E k \in Policies, m \in {"secret", "private", "public"} :
         Made(c, ImportKey(p, k[1], k[2], m), k[2])

RuntimeGenerateKey(c) ==
    /\ Makes(c) /\ Needs(c)
    /\ \E k \in Policies : Made(c, GenerateKey(p, k[1], k[2]), k[2])

RuntimeAgree(c) ==
    /\ workload = "keys" /\ Makes(c) /\ client[c].key # NoHandle
    /\ \E u \in {"mac", "derive"} :
         Made(c, Agree(p, client[c].key, IF u = "mac" THEN "hmac" ELSE "hkdf", {u}), {u})

ValidateAndImportPublicKey(c) ==
    /\ workload = "keys" /\ Makes(c)
    /\ \E valid, matches \in BOOLEAN :
         Made(c, ValidateAndImportCertificatePublicKey(p, valid, matches), {"verify"})

(* RuntimeState::DestroyKey and DestroyStream.                              *)
KeyDestroyed(handle) ==
    IF running /\ handle # NoHandle THEN DestroyKey(p, handle).p ELSE p

StreamDestroyed(handle) ==
    IF running /\ handle # NoHandle THEN DestroyStream(p, handle).p ELSE p

(* operator=: the key that is held goes, the one that was made is held.     *)
MoveKey(c) ==
    /\ Calls(c) /\ client[c].made # NoHandle
    /\ p' = KeyDestroyed(client[c].key)
    /\ client' = [client EXCEPT ![c].key = client[c].made, ![c].usage = client[c].making,
                                ![c].made = NoHandle, ![c].making = {}, ![c].answer = "none"]
    /\ UNCHANGED wire /\ Untouched

DropKey(c) ==
    /\ workload # "async" /\ Calls(c) /\ client[c].key # NoHandle
    /\ p' = KeyDestroyed(client[c].key)
    /\ client' = [client EXCEPT ![c].key = NoHandle, ![c].usage = {}, ![c].answer = "none"]
    /\ UNCHANGED wire /\ Untouched

(* The calls that compute from a key and store nothing.                     *)
Serves(handle, usage) ==
    CASE usage = "mac" -> Mac(p, handle)
      [] usage = "sign" -> Sign(p, handle)
      [] usage = "verify" -> Verify(p, handle)
      [] usage = "derive" -> Derive(p, handle) \/ PublicValue(p, handle)
      [] OTHER -> Aead(p, handle, usage)

UseKey(c) ==
    /\ workload = "keys" /\ Calls(c) /\ client[c].key # NoHandle
    /\ \E u \in {"mac", "sign", "verify", "derive", "encrypt", "decrypt"} :
         client' = [client EXCEPT ![c].answer = IF Serves(client[c].key, u) THEN u ELSE "none"]
    /\ UNCHANGED <<p, wire>> /\ Untouched
-----------------------------------------------------------------------------
(* InputStream.                                                             *)
NoStream(s) == [s EXCEPT !.stream = NoHandle, !.operation = "none", !.count = 0]

Opened(c, a, operation) ==
    /\ p' = a.p
    /\ client' = [client EXCEPT ![c].stream = a.handle,
                                ![c].operation = IF a.handle = NoHandle THEN "none" ELSE operation,
                                ![c].count = 0, ![c].opened = <<>>]
    /\ Untouched

BeginStream(c) ==
    /\ workload = "input" /\ Calls(c) /\ client[c].stream = NoHandle /\ Bounded
    /\ \E operation \in InputOperations :
         /\ operation # "hash" => client[c].key # NoHandle
         /\ Opened(c, CreateStream(p, operation,
                                   IF operation = "hash" THEN NoHandle ELSE client[c].key, 0),
                   operation)
    /\ UNCHANGED wire

Streams(c, operations) ==
    Calls(c) /\ client[c].stream # NoHandle /\ client[c].operation \in operations

Update(c) ==
    /\ Streams(c, InputOperations) /\ client[c].count < MaxUpdates
    /\ \E fails \in BOOLEAN :
         LET a == UpdateStream(p, client[c].stream, fails)
         IN  /\ p' = a.p
             /\ client' = [client EXCEPT ![c].count = IF a.status = "ok" THEN @ + 1 ELSE @]
    /\ UNCHANGED wire /\ Untouched

(* A stream that could not be finished is still held.                       *)
Finished(c, a) ==
    /\ p' = a.p
    /\ client' = IF a.status # "ok" THEN client
                 ELSE [client EXCEPT ![c] = [NoStream(@) EXCEPT !.output = a.output,
                                                               !.expected = client[c].count]]
    /\ UNCHANGED wire /\ Untouched

(* The provider is asked for the size, and then for the output.             *)
Finish(c) ==
    /\ Streams(c, InputOperations \ {"verify"})
    /\ \E fails \in BOOLEAN :
         LET size == FinishStream(p, client[c].stream, FALSE, FALSE)
         IN  Finished(c, IF size.status # "too_small" THEN size
                         ELSE FinishStream(size.p, client[c].stream, TRUE, fails))

FinishVerify(c) ==
    /\ Streams(c, {"verify"})
    /\ \E fails \in BOOLEAN : Finished(c, FinishStream(p, client[c].stream, FALSE, fails))

(* InputStream::Cancel and AeadRecordStream::Close.                         *)
CloseStream(c) ==
    /\ Calls(c) /\ client[c].stream # NoHandle
    /\ p' = StreamDestroyed(client[c].stream)
    /\ client' = [client EXCEPT ![c] = NoStream(@)]
    /\ UNCHANGED wire /\ Untouched
-----------------------------------------------------------------------------
(* AeadRecordStream.  The application gives every encryption stream a base  *)
(* nonce of its own, and carries the records: a decryption stream is given  *)
(* any record that was sealed, in any order and any number of times.        *)
Encrypting(c) ==
    LET a == CreateStream(p, "encrypt", client[c].key, wire.nonces + 1)
    IN  /\ wire.nonces < MaxNonces
        /\ Opened(c, a, "encrypt")
        /\ wire' = [wire EXCEPT !.nonces = @ + 1]

Decrypting(c) ==
    /\ \E nonce \in 1 .. wire.nonces :
         Opened(c, CreateStream(p, "decrypt", client[c].key, nonce), "decrypt")
    /\ UNCHANGED wire

BeginRecordStream(c) ==
    /\ workload = "records" /\ Calls(c) /\ Bounded
    /\ client[c].stream = NoHandle /\ client[c].key # NoHandle
    /\ Encrypting(c) \/ Decrypting(c)

(* VariableOutput: the size, and then the output.                           *)
Processed(c, record, fails) ==
    LET size == ProcessRecord(p, client[c].stream, record, FALSE, FALSE)
    IN  IF size.status # "too_small" THEN size
        ELSE ProcessRecord(size.p, client[c].stream, record, TRUE, fails)

ProcessEncrypt(c) ==
    /\ Streams(c, {"encrypt"}) /\ Len(wire.records) < MaxRecords
    /\ \E fails \in BOOLEAN :
         LET text == Len(wire.records) + 1
             a == Processed(c, [text |-> text], fails)
         IN  /\ p' = a.p
             /\ wire' = IF a.status # "ok" THEN wire
                        ELSE [wire EXCEPT !.records =
                                Append(@, Sealed(FindStream(p, client[c].stream), text))]
    /\ UNCHANGED client /\ Untouched

ProcessDecrypt(c) ==
    /\ Streams(c, {"decrypt"})
    /\ \E record \in Range(wire.records), fails \in BOOLEAN :
         LET a == Processed(c, record, fails)
         IN  /\ p' = a.p
             /\ client' = [client EXCEPT ![c].opened =
                             IF a.status = "ok" THEN Append(@, record) ELSE @]
    /\ UNCHANGED wire /\ Untouched
-----------------------------------------------------------------------------
(* AsyncOperation.  Its State is the user_data of the job: it is there from *)
(* the submission to the return of Wait.                                    *)
Submit(c) ==
    /\ workload = "async" /\ Calls(c) /\ client[c].op = 0 /\ p.ticket <= MaxTickets
    /\ \E operation \in AsyncOperations, late \in BOOLEAN :
         LET handle == IF operation = "hash" THEN NoHandle ELSE client[c].key
             a == SubmitAsync(p, operation, handle, c, late)
         IN  /\ operation # "hash" => handle # NoHandle
             /\ p' = a.p
             /\ client' = [client EXCEPT ![c].op = a.output, ![c].done = FALSE]
    /\ UNCHANGED wire /\ Untouched

(* Cancel reads done and the ticket, and then asks the provider.  From the  *)
(* destructor (drop) a Wait follows.                                        *)
BeginCancel(c) ==
    /\ client[c].pc = "idle" /\ client[c].op # 0
    /\ \E drop \in BOOLEAN :
         client' = [client EXCEPT ![c].pc =
           IF client[c].done THEN IF drop THEN "waiting" ELSE "idle"
           ELSE IF drop THEN "dropping" ELSE "cancelling"]
    /\ UNCHANGED <<p, wire>> /\ Untouched

(* Mutant: the destructor cancels and does not wait.                        *)
CancelAndForget(c) ==
    /\ client[c].pc \in {"cancelling", "dropping"}
    /\ p' = CancelAsync(p, client[c].op).p
    /\ client' = [client EXCEPT ![c].pc = "idle",
                                ![c].op = IF client[c].pc = "dropping" THEN 0 ELSE @]
    /\ UNCHANGED wire /\ Untouched

Cancel(c) ==
    /\ client[c].pc \in {"cancelling", "dropping"}
    /\ p' = CancelAsync(p, client[c].op).p
    /\ client' = [client EXCEPT ![c].pc = IF @ = "dropping" THEN "waiting" ELSE "idle"]
    /\ UNCHANGED wire /\ Untouched

BeginWait(c) ==
    /\ client[c].pc = "idle" /\ client[c].op # 0
    /\ client' = [client EXCEPT ![c].pc = "waiting"]
    /\ UNCHANGED <<p, wire>> /\ Untouched

(* The State goes with the AsyncOperation that Wait has moved it out of.    *)
Wait(c) ==
    /\ client[c].pc = "waiting" /\ client[c].done
    /\ client' = [client EXCEPT ![c].pc = "idle", ![c].op = 0, ![c].done = FALSE]
    /\ UNCHANGED <<p, wire>> /\ Untouched
-----------------------------------------------------------------------------
(* AsyncWorker.                                                             *)
Works(step) == worker.pc = step /\ UNCHANGED <<workload, running, stopper, wire>>

TakeJob ==
    /\ Works("wait") /\ p.queue # <<>>
    /\ worker' = [pc |-> "check", job |-> Head(p.queue), stopping |-> p.stopping]
    /\ p' = [p EXCEPT !.queue = Tail(@)]
    /\ UNCHANGED client

ExitWorker ==
    /\ Works("wait") /\ p.queue = <<>> /\ p.stopping
    /\ worker' = [worker EXCEPT !.pc = "exited"]
    /\ UNCHANGED <<p, client>>

(* The job is answered without being run when the provider stops, when it   *)
(* was cancelled or when it is late; otherwise it is run.                   *)
CheckJob ==
    /\ Works("check")
    /\ \E late \in BOOLEAN :
         worker' = [worker EXCEPT !.pc =
           IF worker.stopping \/ worker.job.ticket \in p.cancelled \/ late
           THEN "complete" ELSE "run"]
    /\ UNCHANGED <<p, client>>

RunJob ==
    /\ Works("run")
    /\ worker' = [worker EXCEPT !.pc = "complete"]
    /\ UNCHANGED <<p, client>>

(* CompleteAsync calls AsyncOperation::State::Complete.                     *)
CompleteJob ==
    /\ Works("complete")
    /\ worker' = [worker EXCEPT !.pc = "erase"]
    /\ client' = [client EXCEPT ![worker.job.user_data].done = TRUE]
    /\ UNCHANGED p

EraseJob ==
    /\ Works("erase")
    /\ p' = [p EXCEPT !.outstanding = @ \ {worker.job}, !.cancelled = @ \ {worker.job.ticket}]
    /\ worker' = [pc |-> "wait", job |-> NoJob, stopping |-> FALSE]
    /\ UNCHANGED client
-----------------------------------------------------------------------------
(* Runtime::Stop, and the destructor of the Runtime.                        *)
StopRuntime(c) ==
    /\ Calls(c) /\ running
    /\ p' = StopTables(p)
    /\ stopper' = "tables"
    /\ UNCHANGED <<workload, running, worker, client, wire>>

StopQueue ==
    /\ stopper = "tables"
    /\ p' = StopAsync(p)
    /\ stopper' = "join"
    /\ UNCHANGED <<workload, running, worker, client, wire>>

StopJoins ==
    /\ stopper = "join" /\ worker.pc = "exited"
    /\ stopper' = "none" /\ running' = FALSE
    /\ UNCHANGED <<workload, p, worker, client, wire>>
-----------------------------------------------------------------------------
KeyCalls(c) ==
    \/ RuntimeImportKey(c) \/ RuntimeGenerateKey(c) \/ RuntimeAgree(c)
    \/ ValidateAndImportPublicKey(c) \/ MoveKey(c) \/ DropKey(c) \/ UseKey(c)

StreamCalls(c) ==
    \/ BeginStream(c) \/ Update(c) \/ Finish(c) \/ FinishVerify(c) \/ CloseStream(c)
    \/ BeginRecordStream(c) \/ ProcessEncrypt(c) \/ ProcessDecrypt(c)

AsyncCalls(c) == Submit(c) \/ BeginCancel(c) \/ BeginWait(c)

Returns(c) == Cancel(c) \/ Wait(c)

AsyncWorker == TakeJob \/ ExitWorker \/ CheckJob \/ RunJob \/ CompleteJob \/ EraseJob

Stops == StopQueue \/ StopJoins

Next ==
    \/ \E c \in Clients :
         KeyCalls(c) \/ StreamCalls(c) \/ AsyncCalls(c) \/ Returns(c) \/ StopRuntime(c)
    \/ AsyncWorker
    \/ Stops

(* The worker and the thread in Stop are scheduled, and so is a thread that *)
(* is inside Cancel or Wait.  Nobody has to call anything.                  *)
Spec ==
    /\ Init /\ [][Next]_vars
    /\ WF_vars(AsyncWorker) /\ WF_vars(Stops)
    /\ \A c \in Clients : WF_vars(Returns(c))
-----------------------------------------------------------------------------
(* The handle of a Key or of a stream reaches the entry that was stored for *)
(* it or none: also when the provider gave the slot to somebody else after  *)
(* the stream failed.  A key serves only what its own policy permits        *)
(* (FindKey, FindStream, ReleaseStream, Permits).                           *)
HandlesExact ==
    \A c \in Clients :
        LET Own(table, handle) ==
                \/ Find(table, handle) = NoEntry
                \/ Find(table, handle).uses = handle.uses
        IN  /\ Own(p.keys, client[c].key) /\ Own(p.keys, client[c].made)
            /\ Own(p.streams, client[c].stream)
            /\ client[c].answer \in client[c].usage \cup {"none"}

(* What Finish returns covers all the updates of the stream and only them:  *)
(* the call that asks for the size consumes nothing (InputStream::Finish,   *)
(* FinishStream).                                                           *)
FinishCoversUpdates ==
    \A c \in Clients : client[c].output = client[c].expected

(* What a decryption stream lets through is a prefix of what the encryption *)
(* stream sealed, whichever records the application loses, repeats or       *)
(* reorders: a record out of its place ends the stream, and no sequence     *)
(* number comes back (AeadRecordStream::Process, ProcessRecord).            *)
RecordsInOrder ==
    \A c \in Clients :
        LET opened == client[c].opened
        IN  opened # <<>> =>
              IsPrefix(opened, SelectSeq(wire.records,
                                         LAMBDA r : r.nonce = opened[1].nonce))

(* The State a job is to be completed into is there and is not done until   *)
(* the worker gets to it, and when Stop has returned every operation is     *)
(* done (AsyncOperation::State::Complete, ~AsyncOperation, Stop).           *)
CompletionsLand ==
    /\ \A job \in Range(p.queue)
                  \cup {j \in {worker.job} : worker.pc \in {"check", "run", "complete"}} :
          client[job.user_data].op = job.ticket /\ ~client[job.user_data].done
    /\ ~running => \A c \in Clients : client[c].op # 0 => client[c].done

(* Wait, and with it the destructor of an operation, returns, and so does   *)
(* Stop, whichever of them overlap (AsyncWorker drains the queue).          *)
OperationsReturn ==
    /\ \A c \in Clients : client[c].pc = "waiting" ~> client[c].pc = "idle"
    /\ stopper # "none" ~> stopper = "none"
====
