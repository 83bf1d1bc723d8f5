------------------------------ MODULE StoreAbi ------------------------------
(***************************************************************************)
(* What both persistency providers keep behind ovf_per_backend_v1 for one  *)
(* logical store.  A provider state is one record, so that the runtime can *)
(* make several calls of the table in one step under its mutex: a call     *)
(* takes the state and answers whether its status was OVF_PER_STATUS_OK    *)
(* together with the state it leaves.  The other statuses are one refusal. *)
(*                                                                         *)
(* Keys are numbers in their byte order.  A value is a number too, its     *)
(* size, and 0 stands for no entry: quotas compare sums of sizes.  One     *)
(* blob key and one migration plan, from schema 1 to schema 2, are used.   *)
(* Health counters and the recovery state are only reported, and left out. *)
(***************************************************************************)
EXTENDS Naturals, FiniteSets, FiniteSetsExt

CONSTANTS
    Client,            \* users of a Store object
    Access,            \* the access a client may open the store with
    Keys,              \* number of keys
    MaxValue,          \* largest value
    Capacity,          \* capacity_bytes of the store
    MaxTransactions,   \* max_transactions of the backend
    None

ASSUME StoreAssumption ==
    /\ IsFiniteSet(Client) /\ Access \subseteq {"read_only", "read_write"}
    /\ Keys \in Nat /\ MaxValue \in Nat /\ Capacity \in Nat /\ MaxTransactions \in Nat

Key == 1 .. Keys
Value == 1 .. MaxValue
Values == [Key -> 0 .. MaxValue]
NoValues == [k \in Key |-> 0]
Schema == {1, 2}

\* Sum of the sizes of the entries.
Size(values) == MapThenSumSet(LAMBDA k : values[k], Key)

\* StoreData as OpenStore creates it for a name that is not there yet.
NewStore(schema) ==
    [values |-> NoValues, blob |-> 0, generation |-> 0, schema |-> schema,
     writer_active |-> FALSE, migration_active |-> FALSE, migration |-> None, rollback |-> None]

Transaction(write, values, generation) ==
    [write |-> write, values |-> values, generation |-> generation, finished |-> FALSE,
     prepared |-> FALSE]

BlobOperation(write, value, generation, written) ==
    [write |-> write, value |-> value, generation |-> generation, written |-> written,
     finished |-> FALSE, prepared |-> FALSE]

\* The tables of a backend in which nothing is open.
NoHandles == [c \in Client |-> None]

\* A backend after Start.  mode is "memory", or the journal mode of SQLite.
Started(mode) ==
    [mode |-> mode, running |-> [c \in Client |-> TRUE], store |-> None, schema |-> NoHandles,
     access |-> NoHandles, txn |-> NoHandles, blob |-> NoHandles, cursor |-> NoHandles,
     migration |-> NoHandles]

\* The clients whose runtime uses the same backend: the memory provider lives in one process,
\* every user of the SQLite file is a process of its own.
Peers(s, c) == IF s.mode = "memory" THEN Client ELSE {c}

Open(table) == {c \in Client : table[c] # None}
Writing(table) == {c \in Open(table) : table[c].write /\ ~table[c].finished}
Reading(table) == {c \in Open(table) : ~table[c].write /\ ~table[c].finished}

Done(s) == [ok |-> TRUE, s |-> s]
Refused(s) == [ok |-> FALSE, s |-> s]

\* A commit that replaces the content of the store.
Published(store, values, blob) ==
    [store EXCEPT !.values = values, !.blob = blob, !.generation = @ + 1]

\* The first key after a position in key order, 0 when there is none.
NextKey(values, position) ==
    LET rest == {k \in Key : k > position /\ values[k] # 0}
    IN  IF rest = {} THEN 0 ELSE Min(rest)
=============================================================================
