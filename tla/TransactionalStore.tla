------------------------- MODULE TransactionalStore -------------------------
(***************************************************************************)
(* What a Store of ovf::per promises, whatever provider is behind it: one  *)
(* sequence of generations, each of which replaces the whole content.  A   *)
(* write transaction is a draft that was taken from one generation and can *)
(* only follow that generation; a migration transforms the content it      *)
(* started from entry by entry and keeps it for one rollback.              *)
(***************************************************************************)
EXTENDS Naturals

CONSTANTS Client, Key, MaxValue, None,
          Transform(_)     \* the value an entry has in schema 2, 0 when it is dropped

VARIABLES
    durable,       \* whether the content survives the processes
    values, blob,  \* the content
    generation,
    schema,        \* 0 before the store is created
    saved,         \* what a rollback goes back to
    draft,         \* the write transaction of each client
    overlaid       \* whether the migration under way shares its copy with another; not under control

Values == [Key -> 0 .. MaxValue]

Init ==
    /\ durable \in BOOLEAN
    /\ values = [k \in Key |-> 0] /\ blob = 0 /\ generation = 0
    /\ schema = 0
    /\ saved = None
    /\ draft = [c \in Client |-> None]

Create ==
    /\ schema = 0 /\ schema' \in {1, 2}
    /\ UNCHANGED <<durable, values, blob, generation, saved, draft>>

Begin(c) ==
    /\ draft[c] = None
    /\ draft' = [draft EXCEPT ![c] = [base |-> generation, values |-> values]]
    /\ UNCHANGED <<durable, values, blob, generation, schema, saved>>

Edit(c) ==
    /\ draft[c] # None
    /\ \E k \in Key, v \in 0 .. MaxValue : draft' = [draft EXCEPT ![c].values[k] = v]
    /\ UNCHANGED <<durable, values, blob, generation, schema, saved>>

Abandon ==
    /\ \E C \in SUBSET Client : draft' = [c \in Client |-> IF c \in C THEN None ELSE draft[c]]
    /\ UNCHANGED <<durable, values, blob, generation, schema, saved>>

\* The draft follows the generation it was taken from, so that no commit is lost.
Commit(c) ==
    /\ draft[c] # None /\ draft[c].base = generation
    /\ values' = draft[c].values
    /\ generation' = generation + 1
    /\ draft' = [draft EXCEPT ![c] = None]
    /\ UNCHANGED <<durable, blob, schema, saved>>

ReplaceBlob ==
    /\ blob' \in Nat
    /\ generation' = generation + 1
    /\ UNCHANGED <<durable, values, schema, saved, draft>>

Reset ==
    /\ values' \in Values /\ blob' = 0
    /\ generation' = generation + 1
    /\ UNCHANGED <<durable, schema, saved, draft>>

Migrate ==
    /\ schema = 1 /\ schema' = 2
    /\ \/ values' = [k \in Key |-> Transform(values[k])]
       \/ overlaid /\ values' \in Values
    /\ saved' = [values |-> values, blob |-> blob, schema |-> schema]
    /\ generation' = generation + 1
    /\ UNCHANGED <<durable, blob, draft>>

Rollback ==
    /\ saved # None
    /\ values' = saved.values /\ blob' = saved.blob /\ schema' = saved.schema
    /\ saved' = None
    /\ generation' = generation + 1
    /\ UNCHANGED <<durable, draft>>

\* Buffered durability: the content goes with the process.
Lose ==
    /\ ~durable
    /\ Init'
    /\ UNCHANGED durable

Next ==
    \/ \E c \in Client : Begin(c) \/ Edit(c) \/ Commit(c)
    \/ Create \/ Abandon \/ ReplaceBlob \/ Reset \/ Migrate \/ Rollback \/ Lose

vars == <<durable, values, blob, generation, schema, saved, draft>>

Spec == Init /\ [][Next]_vars
=============================================================================
