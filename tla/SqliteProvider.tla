--------------------------- MODULE SqliteProvider ---------------------------
(***************************************************************************)
(* The calls of per/backends/sqlite.cpp.  Transactions and blob operations *)
(* have a connection each; the other calls open one, run one database      *)
(* transaction and close it.  SQLite itself is external and enters as its  *)
(* locks.  In "persist" mode a reader holds SHARED and sees the file, so a *)
(* COMMIT must wait for the readers and one that was refused holds PENDING,*)
(* which keeps new readers out.  In "wal" mode a reader keeps its snapshot.*)
(* BEGIN IMMEDIATE has one holder in both.  A wait ends in SQLITE_BUSY     *)
(* when it lasts longer than busy_timeout_ms, and the call is refused.     *)
(***************************************************************************)
EXTENDS StoreAbi

Writers(s) == Writing(s.txn) \cup Writing(s.blob)
Readers(s) == Reading(s.txn) \cup Reading(s.blob)
CanReserve(s) == Writers(s) = {}
CanShare(s) ==
    s.mode = "persist" => \A table \in {s.txn, s.blob} : \A c \in Writing(table) : ~table[c].prepared
CanCommit(s) == s.mode = "persist" => Readers(s) = {}
CanExclude(s) == CanReserve(s) /\ CanCommit(s)

\* The schema in the database is the one this process has cached for the store.
MetadataMatches(s, c) == s.store.schema = s.schema[c]

\* Creates what is missing under BEGIN EXCLUSIVE, then compares with the deployment.
OpenStore(s, c, schema, access) ==
    LET store == IF s.store = None THEN NewStore(schema) ELSE s.store
        opened == [s EXCEPT !.store = store, !.schema[c] = schema, !.access[c] = access]
    IN  IF s.running[c] /\ CanExclude(s) /\ MetadataMatches(opened, c)
        THEN Done(opened)
        ELSE Refused(s)

\* The last handle takes the cached StoreData with it.
CloseStore(s, c) == [s EXCEPT !.access[c] = None, !.schema[c] = None]


Begin(s, c, write, expected) ==
    IF /\ s.access[c] # None
       /\ Cardinality(Open(s.txn) \cap Peers(s, c)) < MaxTransactions
       /\ MetadataMatches(s, c)
       /\ CanShare(s)
       /\ write => /\ s.access[c] = "read_write"
                   /\ CanReserve(s)
                   /\ s.store.migration = None
                   /\ expected \in {None, s.store.generation}
    THEN Done([s EXCEPT !.txn[c] = Transaction(write, s.store.values, s.store.generation)])
    ELSE Refused(s)

Writable(s, c) == s.txn[c] # None /\ s.txn[c].write /\ ~s.txn[c].finished

\* In a savepoint, rolled back when the quota is exceeded.
Put(s, c, key, value) ==
    LET candidate == [s.txn[c].values EXCEPT ![key] = value]
    IN  IF Writable(s, c) /\ Size(candidate) + s.store.blob <= Capacity
        THEN Done([s EXCEPT !.txn[c].values = candidate])
        ELSE Refused(s)

Erase(s, c, key) ==
    IF Writable(s, c) THEN Done([s EXCEPT !.txn[c].values[key] = 0]) ELSE Refused(s)

\* The generation is advanced once; a COMMIT that is busy can be tried again.
Commit(s, c) ==
    LET t == s.txn[c]
        prepared == [s EXCEPT !.txn[c].prepared = TRUE]
    IN  IF ~Writable(s, c) \/ ~(t.prepared \/ s.store.generation = t.generation) THEN Refused(s)
        ELSE IF ~CanCommit(s) THEN Refused(prepared)
        ELSE Done([prepared EXCEPT !.txn[c].finished = TRUE,
                                   !.store = Published(@, t.values, @.blob)])

Abort(s, c) == IF s.txn[c] = None THEN s ELSE [s EXCEPT !.txn[c].finished = TRUE]

\* Takes the cursors of the transaction along.
CloseTransaction(s, c) == [s EXCEPT !.txn[c] = None, !.cursor[c] = None]

OpenBlobRead(s, c) ==
    IF s.access[c] # None /\ MetadataMatches(s, c) /\ CanShare(s) /\ s.store.blob # 0
    THEN Done([s EXCEPT !.blob[c] = BlobOperation(FALSE, s.store.blob, s.store.generation,
                                                  s.store.blob)])
    ELSE Refused(s)

BeginBlobReplace(s, c, size) ==
    IF /\ s.access[c] = "read_write"
       /\ CanReserve(s)
       /\ MetadataMatches(s, c)
       /\ Size(s.store.values) + size <= Capacity
    THEN Done([s EXCEPT !.blob[c] = BlobOperation(TRUE, size, s.store.generation, 0)])
    ELSE Refused(s)

BlobWritable(s, c) == s.blob[c] # None /\ s.blob[c].write /\ ~s.blob[c].finished

WriteBlob(s, c) ==
    IF BlobWritable(s, c) /\ s.blob[c].written < s.blob[c].value
    THEN Done([s EXCEPT !.blob[c].written = @ + 1])
    ELSE Refused(s)

CommitBlob(s, c) ==
    LET b == s.blob[c]
        prepared == [s EXCEPT !.blob[c].prepared = TRUE]
    IN  IF ~(BlobWritable(s, c) /\ b.written = b.value) THEN Refused(s)
        ELSE IF ~(b.prepared \/ s.store.generation = b.generation) THEN Refused(s)
        ELSE IF ~CanCommit(s) THEN Refused(prepared)
        ELSE Done([prepared EXCEPT !.blob[c].finished = TRUE,
                                   !.store = Published(@, @.values, b.value)])

AbortBlob(s, c) == IF s.blob[c] = None THEN s ELSE [s EXCEPT !.blob[c].finished = TRUE]

CloseBlob(s, c) == [s EXCEPT !.blob[c] = None]

\* A cursor is a statement on the connection of its transaction.
OpenCursor(s, c) ==
    IF s.txn[c] # None /\ ~s.txn[c].finished /\ ~s.txn[c].write
    THEN Done([s EXCEPT !.cursor[c] = [position |-> 0]])
    ELSE Refused(s)

\* What the connection of an open transaction reads.
View(s, c) ==
    IF s.mode = "persist" /\ ~s.txn[c].write THEN s.store.values ELSE s.txn[c].values

NextCursor(s, c) == IF s.cursor[c] = None THEN 0 ELSE NextKey(View(s, c), s.cursor[c].position)
CursorValue(s, c, key) == View(s, c)[key]
CloseCursor(s, c) == [s EXCEPT !.cursor[c] = None]

ResetStore(s, c, values) ==
    IF /\ s.access[c] = "read_write"
       /\ CanReserve(s) /\ CanCommit(s)
       /\ MetadataMatches(s, c)
       /\ Size(values) <= Capacity
    THEN Done([s EXCEPT !.store = Published(@, values, 0)])
    ELSE Refused(s)

BeginMigration(s, c) ==
    IF /\ s.access[c] = "read_write"
       /\ s.schema[c] = 1
       /\ CanReserve(s) /\ MetadataMatches(s, c)
       \* Resuming changes no page, so that its COMMIT needs no lock beyond the one it has.
       /\ s.store.migration = None => CanCommit(s)
    THEN LET migration == IF s.store.migration # None THEN s.store.migration
                          ELSE [generation |-> s.store.generation, values |-> NoValues,
                                checkpoint |-> 0]
         IN  Done([s EXCEPT !.store.migration = migration,
                            !.migration[c] = [generation |-> migration.generation]])
    ELSE Refused(s)

\* One database transaction that updates the row of the migration, which must be there.
ApplyMigration(s, c, source, target) ==
    LET staged == s.store.migration.values
        candidate == IF target = 0 THEN staged ELSE [staged EXCEPT ![source] = target]
    IN  IF /\ s.migration[c] # None
           /\ CanReserve(s) /\ CanCommit(s)
           /\ s.store.migration # None
           /\ Size(candidate) <= Capacity
        THEN Done([s EXCEPT !.store.migration.values = candidate,
                            !.store.migration.checkpoint = source])
        ELSE Refused(s)

\* Mutant: the generation the migration started from is not compared.
ActivateAnyGeneration(s, c) ==
    IF s.migration[c] # None /\ CanExclude(s) /\ s.store.migration # None
    THEN Done([s EXCEPT
                   !.store = [Published(@, @.migration.values, @.blob) EXCEPT
                                  !.rollback = [values |-> s.store.values, blob |-> s.store.blob,
                                                schema |-> s.schema[c]],
                                  !.schema = 2,
                                  !.migration = None],
                   !.schema[c] = 2])
    ELSE Refused(s)

\* Under BEGIN EXCLUSIVE, when the store still has the generation the handle was opened at.
CommitMigration(s, c) ==
    IF /\ s.migration[c] # None
       /\ CanExclude(s)
       /\ s.store.generation = s.migration[c].generation
    THEN Done([s EXCEPT
                   !.store = [Published(@, @.migration.values, @.blob) EXCEPT
                                  !.rollback = [values |-> s.store.values, blob |-> s.store.blob,
                                                schema |-> s.schema[c]],
                                  !.schema = 2,
                                  !.migration = None],
                   !.schema[c] = 2])
    ELSE Refused(s)

AbortMigration(s, c) == s
CloseMigration(s, c) == [s EXCEPT !.migration[c] = None]

\* Does not ask whether a migration has been staged.
RollbackStore(s, c) ==
    IF s.access[c] = "read_write" /\ CanExclude(s) /\ s.store.rollback # None
    THEN Done([s EXCEPT
                   !.store = [Published(@, @.rollback.values, @.rollback.blob) EXCEPT
                                  !.schema = s.store.rollback.schema,
                                  !.rollback = None],
                   !.schema[c] = s.store.rollback.schema])
    ELSE Refused(s)

\* The connections of this process are closed, which rolls their transactions back.
Disconnected(s, c, running) ==
    [s EXCEPT !.running[c] = running, !.schema[c] = None, !.access[c] = None, !.txn[c] = None,
              !.blob[c] = None, !.cursor[c] = None, !.migration[c] = None]

Stop(s, c) == Disconnected(s, c, FALSE)

\* A new process, after Stop or after a crash: the file holds what was committed.
Restart(s, c) == Disconnected(s, c, TRUE)
=============================================================================
