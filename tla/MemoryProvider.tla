--------------------------- MODULE MemoryProvider ---------------------------
(***************************************************************************)
(* The calls of per/backends/memory.cpp.  Every call holds the mutex of    *)
(* the backend, so it is one step.                                         *)
(***************************************************************************)
EXTENDS StoreAbi

OpenStore(s, c, schema, access) ==
    LET store == IF s.store = None THEN NewStore(schema) ELSE s.store
    IN  IF s.running[c] /\ store.schema = schema
        THEN Done([s EXCEPT !.store = store, !.access[c] = access])
        ELSE Refused(s)

CloseStore(s, c) == [s EXCEPT !.access[c] = None]

\* A transaction works on its own copy of the values.
Begin(s, c, write, expected) ==
    IF /\ s.access[c] # None
       /\ Cardinality(Open(s.txn)) < MaxTransactions
       /\ write => /\ s.access[c] = "read_write"
                   /\ ~s.store.writer_active
                   /\ s.store.migration = None
                   /\ expected \in {None, s.store.generation}
    THEN Done([s EXCEPT !.txn[c] = Transaction(write, s.store.values, s.store.generation),
                        !.store.writer_active = @ \/ write])
    ELSE Refused(s)

Writable(s, c) == s.txn[c] # None /\ s.txn[c].write /\ ~s.txn[c].finished

Put(s, c, key, value) ==
    LET candidate == [s.txn[c].values EXCEPT ![key] = value]
    IN  IF Writable(s, c) /\ Size(candidate) + s.store.blob <= Capacity
        THEN Done([s EXCEPT !.txn[c].values = candidate])
        ELSE Refused(s)

Erase(s, c, key) ==
    IF Writable(s, c) THEN Done([s EXCEPT !.txn[c].values[key] = 0]) ELSE Refused(s)

\* Mutant: a conflict leaves the store with a writer that is gone.
ConflictKeepsWriter(s, c) == [s EXCEPT !.txn[c].finished = TRUE]

\* The store moved on under the transaction: it is finished and the writer released.
Conflicted(s, c) == [s EXCEPT !.txn[c].finished = TRUE, !.store.writer_active = FALSE]

Commit(s, c) ==
    IF ~Writable(s, c) THEN Refused(s)
    ELSE IF s.store.generation # s.txn[c].generation THEN Refused(Conflicted(s, c))
    ELSE Done([Conflicted(s, c) EXCEPT
                   !.store = [Published(@, s.txn[c].values, @.blob) EXCEPT
                                  !.writer_active = FALSE]])

\* An unfinished writer gives the store back.
Release(s, operation) ==
    [s EXCEPT !.store.writer_active = @ /\ ~(operation.write /\ ~operation.finished)]

Abort(s, c) ==
    IF s.txn[c] = None THEN s
    ELSE [Release(s, s.txn[c]) EXCEPT !.txn[c].finished = TRUE]

CloseTransaction(s, c) ==
    IF s.txn[c] = None THEN s ELSE [Release(s, s.txn[c]) EXCEPT !.txn[c] = None]

OpenBlobRead(s, c) ==
    IF s.access[c] # None /\ s.store.blob # 0
    THEN Done([s EXCEPT !.blob[c] = BlobOperation(FALSE, s.store.blob, s.store.generation,
                                                  s.store.blob)])
    ELSE Refused(s)

BeginBlobReplace(s, c, size) ==
    IF /\ s.access[c] = "read_write"
       /\ ~s.store.writer_active
       /\ s.store.migration = None
       /\ Size(s.store.values) + size <= Capacity
    THEN Done([s EXCEPT !.blob[c] = BlobOperation(TRUE, size, s.store.generation, 0),
                        !.store.writer_active = TRUE])
    ELSE Refused(s)

BlobWritable(s, c) == s.blob[c] # None /\ s.blob[c].write /\ ~s.blob[c].finished

\* The next byte, at the offset up to which the blob is written.
WriteBlob(s, c) ==
    IF BlobWritable(s, c) /\ s.blob[c].written < s.blob[c].value
    THEN Done([s EXCEPT !.blob[c].written = @ + 1])
    ELSE Refused(s)

CommitBlob(s, c) ==
    LET finished == [s EXCEPT !.blob[c].finished = TRUE, !.store.writer_active = FALSE]
    IN  IF ~(BlobWritable(s, c) /\ s.blob[c].written = s.blob[c].value) THEN Refused(s)
        ELSE IF s.store.generation # s.blob[c].generation THEN Refused(finished)
        ELSE Done([finished EXCEPT !.store = Published(@, @.values, s.blob[c].value)])

AbortBlob(s, c) ==
    IF s.blob[c] = None THEN s
    ELSE [Release(s, s.blob[c]) EXCEPT !.blob[c].finished = TRUE]

CloseBlob(s, c) ==
    IF s.blob[c] = None THEN s ELSE [Release(s, s.blob[c]) EXCEPT !.blob[c] = None]

\* A cursor has its own copy of the entries.
OpenCursor(s, c) ==
    IF s.txn[c] # None /\ ~s.txn[c].finished /\ ~s.txn[c].write
    THEN Done([s EXCEPT !.cursor[c] = [values |-> s.txn[c].values, position |-> 0]])
    ELSE Refused(s)

\* The key the cursor moves to; not found, 0, both at the end and for a cursor that is gone.
NextCursor(s, c) ==
    IF s.cursor[c] = None THEN 0 ELSE NextKey(s.cursor[c].values, s.cursor[c].position)

CursorValue(s, c, key) == s.cursor[c].values[key]
CloseCursor(s, c) == [s EXCEPT !.cursor[c] = None]

ResetStore(s, c, values) ==
    IF /\ s.access[c] = "read_write"
       /\ ~s.store.writer_active
       /\ s.store.migration = None
       /\ Size(values) <= Capacity
    THEN Done([s EXCEPT !.store = Published(@, values, 0)])
    ELSE Refused(s)

\* Starts the migration, or resumes the one a previous handle left.
BeginMigration(s, c) ==
    IF /\ s.access[c] = "read_write"
       /\ ~s.store.writer_active /\ ~s.store.migration_active
       /\ s.store.migration # None \/ s.store.schema = 1
    THEN LET migration == IF s.store.migration # None THEN s.store.migration
                          ELSE [generation |-> s.store.generation, values |-> NoValues,
                                checkpoint |-> 0]
         IN  Done([s EXCEPT !.store.migration = migration,
                            !.store.migration_active = TRUE,
                            !.migration[c] = [generation |-> migration.generation]])
    ELSE Refused(s)

ApplyMigration(s, c, source, target) ==
    LET staged == s.store.migration.values
        candidate == IF target = 0 THEN staged ELSE [staged EXCEPT ![source] = target]
    IN  IF /\ s.migration[c] # None
           /\ s.store.migration # None /\ source > s.store.migration.checkpoint
           /\ Size(candidate) <= Capacity
        THEN Done([s EXCEPT !.store.migration.values = candidate,
                            !.store.migration.checkpoint = source])
        ELSE Refused(s)

CommitMigration(s, c) ==
    IF s.migration[c] # None /\ s.store.generation = s.store.migration.generation
    THEN Done([s EXCEPT
                   !.store = [Published(@, @.migration.values, @.blob) EXCEPT
                                  !.rollback = [values |-> s.store.values, blob |-> s.store.blob,
                                                schema |-> s.store.schema],
                                  !.schema = 2,
                                  !.migration = None,
                                  !.migration_active = FALSE]])
    ELSE Refused(s)

AbortMigration(s, c) ==
    IF s.migration[c] = None THEN s ELSE [s EXCEPT !.store.migration_active = FALSE]

CloseMigration(s, c) ==
    IF s.migration[c] = None THEN s
    ELSE [s EXCEPT !.store.migration_active = FALSE, !.migration[c] = None]

\* Neither a writer nor a migration keeps the store from going back.
RollbackStore(s, c) ==
    IF s.access[c] = "read_write" /\ s.store.rollback # None
    THEN Done([s EXCEPT
                   !.store = [Published(@, @.rollback.values, @.rollback.blob) EXCEPT
                                  !.schema = s.store.rollback.schema,
                                  !.rollback = None]])
    ELSE Refused(s)

\* Everything that is open goes; the store stays in the backend.
Stop(s, c) ==
    [s EXCEPT !.running = [d \in Client |-> FALSE],
              !.store = IF @ = None THEN @
                        ELSE [@ EXCEPT !.writer_active =
                                           @ /\ Writing(s.txn) \cup Writing(s.blob) = {},
                                       !.migration_active = @ /\ Open(s.migration) = {}],
              !.access = NoHandles, !.txn = NoHandles, !.blob = NoHandles,
              !.cursor = NoHandles, !.migration = NoHandles]

\* Create and Start of a new backend: nothing of the old one is left.
Restart(s, c) == Started(s.mode)
=============================================================================
