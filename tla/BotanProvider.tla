--------------------------- MODULE BotanProvider ---------------------------
(* The software provider behind the cryptographic ABI: two tables of slots, *)
(* one for keys and one for streams, whose handles carry the generation of  *)
(* the slot, and the queue of asynchronous jobs.  Each operator is one call *)
(* on the backend; p is the backend, the call is made under backend.mutex   *)
(* (or async_mutex) and is one step.  An operator that answers returns the  *)
(* status, and the backend after the call.                                  *)
EXTENDS Integers, Sequences, FiniteSets, SequencesExt
CONSTANTS
    MaxKeys,       \* config->max_keys
    MaxContexts,   \* config->max_contexts: streams, and outstanding jobs
    Generations,   \* 2^32 in the code: a generation is 1 .. Generations - 1
    Sequences,     \* 2^64 in the code: a sequence is 0 .. Sequences - 1
    MaxReleases    \* bound: slots released in one behaviour
ASSUME BotanAssumption ==
    /\ MaxKeys \in Nat \ {0} /\ MaxContexts \in Nat \ {0}
    /\ Sequences \in Nat \ {0} /\ MaxReleases \in Nat
    /\ Generations \in Nat /\ Generations > MaxReleases + 1

NoHandle == [index |-> 0, generation |-> 0, uses |-> 0]

NoEntry == [generation |-> 0]

(* A table of slots.  uses counts the releases of a slot without wrapping;  *)
(* it is not in the code, and only the properties read it.                  *)
Table(size) ==
    [entry |-> [i \in 1 .. size |-> NoEntry],
     generation |-> [i \in 1 .. size |-> 1],
     uses |-> [i \in 1 .. size |-> 0]]

Backend ==
    [running |-> TRUE, keys |-> Table(MaxKeys), streams |-> Table(MaxContexts),
     stopping |-> FALSE, queue |-> <<>>, outstanding |-> {}, cancelled |-> {},
     ticket |-> 1]

Answer(status, p) == [status |-> status, p |-> p, handle |-> NoHandle, output |-> 0]

Fail(p) == Answer("failed", p)

Find(table, handle) ==
    IF /\ handle.index \in DOMAIN table.entry
       /\ table.entry[handle.index].generation = handle.generation
    THEN table.entry[handle.index] ELSE NoEntry

FindKey(p, handle) == Find(p.keys, handle)

FindStream(p, handle) == Find(p.streams, handle)

Free(table) == {i \in DOMAIN table.entry : table.entry[i] = NoEntry}

FirstFree(table) == CHOOSE i \in Free(table) : \A j \in Free(table) : i <= j

(* The entry e in slot i, under the generation the slot has now.            *)
Placed(table, i, e) ==
    [table EXCEPT !.entry[i] =
        e @@ [generation |-> table.generation[i], uses |-> table.uses[i]]]

HandleOf(table, i) ==
    [index |-> i, generation |-> table.generation[i], uses |-> table.uses[i]]

StoreKey(p, e) ==
    IF Free(p.keys) = {} THEN Fail(p)
    ELSE LET i == FirstFree(p.keys)
         IN  [Answer("ok", [p EXCEPT !.keys = Placed(@, i, e)])
                EXCEPT !.handle = HandleOf(p.keys, i)]

StoreStream(p, e) ==
    IF Free(p.streams) = {} THEN Fail(p)
    ELSE LET i == FirstFree(p.streams)
         IN  [Answer("ok", [p EXCEPT !.streams = Placed(@, i, e)])
                EXCEPT !.handle = HandleOf(p.streams, i)]

(* ++generation, and 1 after the last one.                                  *)
NextGeneration(g) == IF g + 1 = Generations THEN 1 ELSE g + 1

ReleaseSlot(table, i) ==
    [table EXCEPT !.entry[i] = NoEntry, !.generation[i] = NextGeneration(@),
                  !.uses[i] = @ + 1]

DestroyKey(p, handle) ==
    IF FindKey(p, handle) = NoEntry THEN Fail(p)
    ELSE Answer("ok", [p EXCEPT !.keys = ReleaseSlot(@, handle.index)])

(* Mutant: the slot is emptied and keeps its generation.                    *)
ReleaseKeepsGeneration(p, handle) ==
    [p EXCEPT !.streams.entry[handle.index] = NoEntry,
              !.streams.uses[handle.index] = @ + 1]

ReleaseStream(p, handle) == [p EXCEPT !.streams = ReleaseSlot(@, handle.index)]

DestroyStream(p, handle) ==
    IF FindStream(p, handle) = NoEntry THEN Fail(p)
    ELSE Answer("ok", ReleaseStream(p, handle))
-----------------------------------------------------------------------------
(* Keys.  The material of an entry is its secret, its private key or its    *)
(* public key; usage is the set of permitted usages.                        *)
Symmetric == {"hmac", "cipher", "hkdf"}

Material(algorithm) == IF algorithm \in Symmetric THEN "secret" ELSE "private"

KeyEntry(algorithm, usage, material) ==
    [algorithm |-> algorithm, usage |-> usage, material |-> material]

(* Raw material is a secret of a symmetric algorithm; an encoded key is     *)
(* private or public, and is not compared with the algorithm.               *)
ImportKey(p, algorithm, usage, material) ==
    IF ~p.running \/ (material = "secret" /\ algorithm \notin Symmetric) THEN Fail(p)
    ELSE StoreKey(p, KeyEntry(algorithm, usage, material))

GenerateKey(p, algorithm, usage) ==
    IF ~p.running THEN Fail(p)
    ELSE StoreKey(p, KeyEntry(algorithm, usage, Material(algorithm)))

(* valid: what Botan's path validation says of the certificate.             *)
ValidateCertificate(p, valid) ==
    IF ~p.running THEN "failed" ELSE IF valid THEN "ok" ELSE "invalid"

ValidateAndImportCertificatePublicKey(p, valid, matches) ==
    LET status == ValidateCertificate(p, valid)
    IN  IF status # "ok" THEN Answer(status, p)
        ELSE IF ~matches THEN Fail(p)
        ELSE StoreKey(p, KeyEntry("signature", {"verify"}, "public"))

Permits(key, algorithm, usage) ==
    key # NoEntry /\ key.algorithm = algorithm /\ usage \in key.usage

Mac(p, handle) == Permits(FindKey(p, handle), "hmac", "mac")

Aead(p, handle, usage) == Permits(FindKey(p, handle), "cipher", usage)

Sign(p, handle) ==
    LET key == FindKey(p, handle)
    IN  Permits(key, "signature", "sign") /\ key.material = "private"

Verify(p, handle) == Permits(FindKey(p, handle), "signature", "verify")

Derive(p, handle) == Permits(FindKey(p, handle), "hkdf", "derive")

PublicValue(p, handle) ==
    LET key == FindKey(p, handle)
    IN  Permits(key, "agreement", "derive") /\ key.material = "private"

Agree(p, handle, algorithm, usage) ==
    IF ~PublicValue(p, handle) \/ algorithm \notin Symmetric THEN Fail(p)
    ELSE StoreKey(p, KeyEntry(algorithm, usage, "secret"))
-----------------------------------------------------------------------------
(* Streams.  input counts the updates the primitive has absorbed; sequence  *)
(* is the number of the next record; nonce is the base nonce of a record    *)
(* stream.  The two ends of a record stream hold the same secret.           *)
InputOperations == {"hash", "mac", "sign", "verify"}

RecordOperations == {"encrypt", "decrypt"}

StreamEntry(operation, nonce) ==
    [operation |-> operation, input |-> 0, sequence |-> 0, nonce |-> nonce]

(* The check of the key policy of the branch of the operation.              *)
StreamPermitted(p, operation, handle) ==
    CASE operation = "hash" -> handle = NoHandle
      [] operation = "mac" -> Mac(p, handle)
      [] operation = "sign" -> Sign(p, handle)
      [] operation = "verify" -> Verify(p, handle)
      [] OTHER -> Aead(p, handle, operation)

(* A stream takes its own copy of the key, and outlives it.                 *)
CreateStream(p, operation, handle, nonce) ==
    IF ~p.running \/ ~StreamPermitted(p, operation, handle) THEN Fail(p)
    ELSE StoreStream(p, StreamEntry(operation, nonce))

(* fails: the primitive throws.  The stream stays.                          *)
UpdateStream(p, handle, fails) ==
    LET stream == FindStream(p, handle)
    IN  IF ~p.running \/ stream = NoEntry THEN Fail(p)
        ELSE IF stream.operation \in RecordOperations \/ fails THEN Fail(p)
        ELSE Answer("ok", [p EXCEPT !.streams.entry[handle.index].input = @ + 1])

(* Mutant: the primitive is finalised before the buffer is measured, which  *)
(* leaves it reset for the call that follows the size query.                *)
FinishBeforeMeasuring(p, handle, buffer, fails) ==
    LET stream == FindStream(p, handle)
    IN  IF ~p.running \/ stream = NoEntry THEN Fail(p)
        ELSE IF stream.operation \in RecordOperations THEN Fail(p)
        ELSE IF stream.operation # "verify" /\ ~buffer
        THEN Answer("too_small", [p EXCEPT !.streams.entry[handle.index].input = 0])
        ELSE IF fails THEN Fail(ReleaseStream(p, handle))
        ELSE [Answer("ok", ReleaseStream(p, handle)) EXCEPT !.output = stream.input]

(* Without a buffer the call measures; a verifier has no output to measure. *)
(* The primitive that throws takes the stream with it.                      *)
FinishStream(p, handle, buffer, fails) ==
    LET stream == FindStream(p, handle)
    IN  IF ~p.running \/ stream = NoEntry THEN Fail(p)
        ELSE IF stream.operation \in RecordOperations THEN Fail(p)
        ELSE IF stream.operation # "verify" /\ ~buffer THEN Answer("too_small", p)
        ELSE IF fails THEN Fail(ReleaseStream(p, handle))
        ELSE [Answer("ok", ReleaseStream(p, handle)) EXCEPT !.output = stream.input]

(* A record is sealed under the base nonce and the sequence of its stream,  *)
(* and opens only under the same two (external: Botan's AEAD).              *)
Sealed(stream, text) ==
    [nonce |-> stream.nonce, sequence |-> stream.sequence, text |-> text]

Opens(stream, record) == Sealed(stream, record.text) = record

(* Mutant: the sequence wraps after its last value.                         *)
AdvanceWrapping(p, handle) ==
    [p EXCEPT !.streams.entry[handle.index].sequence = (@ + 1) % Sequences]

(* The stream is released after the last sequence number.                   *)
Advance(p, handle) ==
    IF p.streams.entry[handle.index].sequence = Sequences - 1
    THEN ReleaseStream(p, handle)
    ELSE [p EXCEPT !.streams.entry[handle.index].sequence = @ + 1]

(* A record that is not authentic takes the stream with it, and so does the *)
(* cipher that throws or returns another size (fails).                      *)
ProcessRecord(p, handle, record, buffer, fails) ==
    LET stream == FindStream(p, handle)
    IN  IF ~p.running \/ stream = NoEntry THEN Fail(p)
        ELSE IF stream.operation \notin RecordOperations THEN Fail(p)
        ELSE IF ~buffer THEN Answer("too_small", p)
        ELSE IF fails \/ (stream.operation = "decrypt" /\ ~Opens(stream, record))
        THEN Fail(ReleaseStream(p, handle))
        ELSE [Answer("ok", Advance(p, handle)) EXCEPT !.output = stream.sequence]
-----------------------------------------------------------------------------
(* Asynchronous jobs.  A job is its ticket and the State (user_data) its    *)
(* completion is written to.                                                *)
AsyncOperations == {"hash", "sign", "verify"}

AsyncPermitted(p, operation, handle) ==
    CASE operation = "hash" -> handle = NoHandle
      [] operation = "sign" -> Sign(p, handle)
      [] operation = "verify" -> Verify(p, handle)

(* late: the deadline has passed.                                           *)
SubmitAsync(p, operation, handle, user_data, late) ==
    IF late \/ ~p.running \/ ~AsyncPermitted(p, operation, handle) THEN Fail(p)
    ELSE IF p.stopping \/ Cardinality(p.outstanding) >= MaxContexts THEN Fail(p)
    ELSE LET job == [ticket |-> p.ticket, user_data |-> user_data]
         IN  [Answer("ok", [p EXCEPT !.ticket = @ + 1, !.queue = Append(@, job),
                                     !.outstanding = @ \cup {job}])
                EXCEPT !.output = job.ticket]

CancelAsync(p, ticket) ==
    IF \A job \in p.outstanding : job.ticket # ticket THEN Fail(p)
    ELSE Answer("ok", [p EXCEPT !.cancelled = @ \cup {ticket}])

(* Stop, up to async_stopping; the generations of the slots stay.           *)
StopTables(p) ==
    [p EXCEPT !.running = FALSE,
              !.keys.entry = [i \in DOMAIN @ |-> NoEntry],
              !.streams.entry = [i \in DOMAIN @ |-> NoEntry]]

(* Mutant: the worker is not told.                                          *)
StopForgetsWorker(p) == p

StopAsync(p) == [p EXCEPT !.stopping = TRUE]
====
