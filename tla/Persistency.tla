----------------------------- MODULE Persistency -----------------------------
(***************************************************************************)
(* The persistency runtime (per/src/runtime.cpp) over a provider.  Each    *)
(* client is a thread with one Store and at most one transaction, blob     *)
(* operation or migration at a time.  A method of the runtime holds the    *)
(* mutex of RuntimeState from its first call of the provider to its last,  *)
(* so it is one step; Migrate, which releases it to run the transform of   *)
(* the application, is several.                                            *)
(***************************************************************************)
EXTENDS StoreAbi

CONSTANTS
    Modes,            \* the providers to consider
    MaxGeneration,    \* bound on the generations
    MaxRestarts       \* bound on the processes that end and start again

VARIABLES
    s,           \* the provider and what is open in it
    migrate,     \* where the Migrate call of each client is
    restarts,
    overlaid     \* history: a migration was staged into the copy of a later one

vars == <<s, migrate, restarts, overlaid>>

Memory == INSTANCE MemoryProvider
Sqlite == INSTANCE SqliteProvider

InMemory == s.mode = "memory"

\* The transform of the application: an entry changes its value or is dropped.
Transform(v) == IF v = 1 THEN MaxValue ELSE 0

\* The initial data of the deployment, for Reset.
InitialData == [k \in Key |-> 1]

Init ==
    /\ s \in {Started(mode) : mode \in Modes}
    /\ migrate = NoHandles
    /\ restarts = 0
    /\ overlaid = FALSE

Idle(c) == s.txn[c] = None /\ s.blob[c] = None /\ migrate[c] = None

\* One generation more is left to a migration, so that one can follow a rollback of another.
Bounded == s.store # None => s.store.generation < MaxGeneration
MigrationBounded == s.store # None => s.store.generation <= MaxGeneration

\* A call that takes effect and leaves the Migrate calls alone.
Becomes(state) == s' = state /\ UNCHANGED <<migrate, restarts>>

OpenStore(c, schema, access) ==
    /\ Idle(c) /\ s.access[c] = None
    /\ Becomes(IF InMemory THEN Memory!OpenStore(s, c, schema, access).s
                           ELSE Sqlite!OpenStore(s, c, schema, access).s)

CloseStore(c) ==
    /\ Idle(c) /\ s.access[c] # None
    /\ Becomes(IF InMemory THEN Memory!CloseStore(s, c) ELSE Sqlite!CloseStore(s, c))

BeginTransaction(c, write, expected) ==
    IF InMemory THEN Memory!Begin(s, c, write, expected) ELSE Sqlite!Begin(s, c, write, expected)

BeginRead(c) ==
    LET answer == BeginTransaction(c, FALSE, None)
    IN  Idle(c) /\ answer.ok /\ Becomes(answer.s)

\* BeginWrite without, and BeginWriteAt with, the generation the caller has seen.
BeginWrite(c, expected) ==
    LET answer == BeginTransaction(c, TRUE, expected)
    IN  Idle(c) /\ answer.ok /\ Becomes(answer.s)

CloseTransaction(state, c) ==
    IF InMemory THEN Memory!CloseTransaction(state, c) ELSE Sqlite!CloseTransaction(state, c)

CloseRead(c) ==
    /\ s.txn[c] # None /\ ~s.txn[c].write /\ migrate[c] = None
    /\ Becomes(CloseTransaction(s, c))

Put(c, key, value) ==
    /\ s.txn[c] # None
    /\ Becomes(IF InMemory THEN Memory!Put(s, c, key, value).s ELSE Sqlite!Put(s, c, key, value).s)

Erase(c, key) ==
    /\ s.txn[c] # None
    /\ Becomes(IF InMemory THEN Memory!Erase(s, c, key).s ELSE Sqlite!Erase(s, c, key).s)

\* The handle is closed on success and stays with the caller on failure.
Commit(c) ==
    LET answer == IF InMemory THEN Memory!Commit(s, c) ELSE Sqlite!Commit(s, c)
    IN  /\ s.txn[c] # None /\ s.txn[c].write /\ Bounded
        /\ Becomes(IF answer.ok THEN CloseTransaction(answer.s, c) ELSE answer.s)

Abort(c) ==
    LET aborted == IF InMemory THEN Memory!Abort(s, c) ELSE Sqlite!Abort(s, c)
    IN  /\ s.txn[c] # None /\ s.txn[c].write
        /\ Becomes(CloseTransaction(aborted, c))

OpenBlob(c) ==
    /\ Idle(c)
    /\ Becomes(IF InMemory THEN Memory!OpenBlobRead(s, c).s ELSE Sqlite!OpenBlobRead(s, c).s)

BeginBlobReplace(c, size) ==
    /\ Idle(c)
    /\ Becomes(IF InMemory THEN Memory!BeginBlobReplace(s, c, size).s
                           ELSE Sqlite!BeginBlobReplace(s, c, size).s)

WriteBlob(c) ==
    /\ s.blob[c] # None
    /\ Becomes(IF InMemory THEN Memory!WriteBlob(s, c).s ELSE Sqlite!WriteBlob(s, c).s)

CloseBlob(state, c) ==
    IF InMemory THEN Memory!CloseBlob(state, c) ELSE Sqlite!CloseBlob(state, c)

CommitBlob(c) ==
    LET answer == IF InMemory THEN Memory!CommitBlob(s, c) ELSE Sqlite!CommitBlob(s, c)
    IN  /\ s.blob[c] # None /\ s.blob[c].write /\ Bounded
        /\ Becomes(IF answer.ok THEN CloseBlob(answer.s, c) ELSE answer.s)

\* Abort of a writer; a reader is only closed.
AbortBlob(c) ==
    LET aborted == IF InMemory THEN Memory!AbortBlob(s, c) ELSE Sqlite!AbortBlob(s, c)
    IN  /\ s.blob[c] # None
        /\ Becomes(CloseBlob(IF s.blob[c].write THEN aborted ELSE s, c))

Reset(c) ==
    /\ Idle(c) /\ Bounded
    /\ Becomes(IF InMemory THEN Memory!ResetStore(s, c, InitialData).s
                           ELSE Sqlite!ResetStore(s, c, InitialData).s)

Rollback(c) ==
    /\ Idle(c) /\ Bounded
    /\ Becomes(IF InMemory THEN Memory!RollbackStore(s, c).s ELSE Sqlite!RollbackStore(s, c).s)

-----------------------------------------------------------------------------
\* Migrate.  After migration_begin it reads the store, and between two entries it is in the
\* transform of the application.
At(c, step) == migrate[c] # None /\ migrate[c].at = step
Migrating(c, state, next) ==
    s' = state /\ migrate' = [migrate EXCEPT ![c] = next] /\ UNCHANGED restarts

MigrateBegin(c) ==
    LET answer == IF InMemory THEN Memory!BeginMigration(s, c) ELSE Sqlite!BeginMigration(s, c)
    IN  /\ Idle(c) /\ answer.ok
        /\ Migrating(c, answer.s, [at |-> "read", checkpoint |-> answer.s.store.migration.checkpoint,
                                   key |-> 0, value |-> 0])

CloseMigration(state, c) ==
    IF InMemory THEN Memory!CloseMigration(Memory!AbortMigration(state, c), c)
                ELSE Sqlite!CloseMigration(Sqlite!AbortMigration(state, c), c)

\* The cursor and the read transaction go when Migrate leaves their scope.
CloseCursor(state, c) ==
    CloseTransaction(IF InMemory THEN Memory!CloseCursor(state, c)
                                 ELSE Sqlite!CloseCursor(state, c), c)

\* Returns; with an error, what has been staged stays for the next call.
Leave(c, state) ==
    Migrating(c, CloseMigration(state, c), [at |-> "close", checkpoint |-> 0, key |-> 0, value |-> 0])

MigrateClose(c) == At(c, "close") /\ Migrating(c, CloseCursor(s, c), None)

MigrateRead(c) ==
    LET read == BeginTransaction(c, FALSE, None)
        cursor == IF InMemory THEN Memory!OpenCursor(read.s, c) ELSE Sqlite!OpenCursor(read.s, c)
    IN  /\ At(c, "read")
        /\ IF read.ok THEN Migrating(c, cursor.s, [migrate[c] EXCEPT !.at = "next"])
                      ELSE Leave(c, s)

NextKeyOf(c) == IF InMemory THEN Memory!NextCursor(s, c) ELSE Sqlite!NextCursor(s, c)
ValueOf(c, key) == IF InMemory THEN Memory!CursorValue(s, c, key) ELSE Sqlite!CursorValue(s, c, key)

\* The next entry; one up to the checkpoint has been staged by an earlier call.
MigrateNext(c) ==
    LET key == NextKeyOf(c)
    IN  /\ At(c, "next") /\ key # 0
        /\ Migrating(c, [s EXCEPT !.cursor[c].position = key],
                     IF key <= migrate[c].checkpoint THEN migrate[c]
                     ELSE [migrate[c] EXCEPT !.at = "apply", !.key = key, !.value = ValueOf(c, key)])

\* The transform returned an error or raised an exception.
TransformFails(c) == At(c, "apply") /\ Leave(c, s)

MigrateApply(c) ==
    LET key == migrate[c].key
        target == Transform(migrate[c].value)
        answer == IF InMemory THEN Memory!ApplyMigration(s, c, key, target)
                              ELSE Sqlite!ApplyMigration(s, c, key, target)
    IN  /\ At(c, "apply")
        /\ IF answer.ok
           THEN Migrating(c, answer.s, [migrate[c] EXCEPT !.at = "next", !.key = 0, !.value = 0])
           ELSE Leave(c, s)

\* At the end of the data, or when the cursor is gone, the read transaction is closed.
MigrateEnd(c) ==
    /\ At(c, "next") /\ NextKeyOf(c) = 0
    /\ Migrating(c, CloseCursor(s, c), [migrate[c] EXCEPT !.at = "commit"])

MigrateCommit(c) ==
    LET answer == IF InMemory THEN Memory!CommitMigration(s, c) ELSE Sqlite!CommitMigration(s, c)
    IN  /\ At(c, "commit") /\ (answer.ok => MigrationBounded)
        /\ Leave(c, answer.s)

Migrate(c) ==
    \/ MigrateBegin(c) \/ MigrateRead(c) \/ MigrateNext(c) \/ TransformFails(c)
    \/ MigrateApply(c) \/ MigrateEnd(c) \/ MigrateCommit(c) \/ MigrateClose(c)

-----------------------------------------------------------------------------
\* Runtime::Stop from another thread, at any moment.
Stop(c) ==
    /\ s.running[c]
    /\ Becomes(IF InMemory THEN Memory!Stop(s, c) ELSE Sqlite!Stop(s, c))

\* The process ends, in whatever it was doing, and a new one creates its runtime.
Restart(c) ==
    /\ restarts < MaxRestarts
    /\ s' = IF InMemory THEN Memory!Restart(s, c) ELSE Sqlite!Restart(s, c)
    /\ migrate' = [d \in Client |-> IF d \in Peers(s, c) THEN None ELSE migrate[d]]
    /\ restarts' = restarts + 1

Next == \E c \in Client :
    \/ \E schema \in Schema, access \in Access : OpenStore(c, schema, access)
    \/ CloseStore(c)
    \/ BeginRead(c) \/ CloseRead(c)
    \/ \E expected \in {None} \cup 0 .. MaxGeneration : BeginWrite(c, expected)
    \/ \E key \in Key : Erase(c, key) \/ \E value \in Value : Put(c, key, value)
    \/ Commit(c) \/ Abort(c)
    \/ OpenBlob(c) \/ BeginBlobReplace(c, MaxValue)
    \/ WriteBlob(c) \/ CommitBlob(c) \/ AbortBlob(c)
    \/ Reset(c) \/ Rollback(c)
    \/ Migrate(c)
    \/ Stop(c) \/ Restart(c)

Staged(state) == state.store # None /\ state.store.migration # None

\* ApplyMigration of SQLite finds the row by the name of the migration: a call that began before that
\* was committed by another process and rolled back stages into its successor.
Overlays(c) ==
    /\ At(c, "apply") /\ s.migration[c] # None /\ s.migration[c].generation # s.store.migration.generation
    /\ MigrateApply(c) /\ migrate'[c].at = "next"

Remember == overlaid' = (Staged(s') /\ (overlaid \/ (Staged(s) /\ \E c \in Client : Overlays(c))))

Spec == Init /\ [][Next /\ Remember]_vars

-----------------------------------------------------------------------------
Writers == Writing(s.txn) \cup Writing(s.blob)

\* There is never more than one unfinished writer, of values or of a blob, on a store.  In the
\* memory provider writer_active and migration_handle_active say so at every moment, also after
\* conflicts, Stop and commits that failed: a flag left behind would lock the store for good.
WriterExclusive ==
    /\ Cardinality(Writers) <= 1
    /\ InMemory /\ s.store # None =>
          /\ s.store.writer_active <=> Writers # {}
          /\ s.store.migration_active <=> Open(s.migration) # {}


Content == IF s.store = None THEN NewStore(0) ELSE s.store

Store == INSTANCE TransactionalStore WITH
    durable <- ~InMemory,
    values <- Content.values,
    blob <- Content.blob,
    generation <- Content.generation,
    schema <- Content.schema,
    saved <- Content.rollback,
    overlaid <- overlaid,
    draft <- [c \in Client |-> IF c \in Writing(s.txn)
                               THEN [base |-> s.txn[c].generation, values |-> s.txn[c].values]
                               ELSE None]

\* Both providers under the runtime implement the store that applications are promised: commits
\* follow the generation they began at and none is lost, a migration that is resumed, repeated
\* or run by two processes publishes exactly the transformed content, and a rollback brings
\* back exactly the content before it.  What a migration publishes is left open when a call for an
\* earlier one, since rolled back, was still running in another process and staged into it.
ImplementsStore == Store!Spec
=============================================================================
