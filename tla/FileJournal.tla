---------------------------- MODULE FileJournal ----------------------------
(***************************************************************************)
(* exec/src/file_journal.cpp: the append-only file of transition records.  *)
(* A frame is a header followed by a payload.  The file is a sequence of   *)
(* cells <<n, i>>, cell i of the frame of record n; where a frame ends and *)
(* which parts of it are in the file is what crashes and failed writes     *)
(* vary.  Cells 1 and 2 are the header: magic, version and reserved field, *)
(* then size and checksum.  Records are numbered in the order of Append;   *)
(* what they contain (Encode, Decode) is left out.                         *)
(*                                                                         *)
(* The operating system keeps written cells over the death of the process; *)
(* a power loss keeps what fsync has confirmed and any further prefix.     *)
(***************************************************************************)
EXTENDS Naturals, Sequences

CONSTANTS
    Synchronize,     \* options_.synchronize
    MaxRecords,      \* bound: calls of Append
    Budget           \* bound: deaths of the process, power losses, failed writes and fsyncs

HeaderCells == 2
FrameCells == 4

ASSUME JournalAssumption ==
    /\ Synchronize \in BOOLEAN /\ MaxRecords \in Nat
    /\ Budget \in [{"death", "power", "write", "fsync"} -> Nat]

VARIABLES
    file,           \* the cells the operating system holds
    synced,         \* how many of them are certain to survive a power loss
    up,             \* a process has opened the journal and replayed it
    appending,      \* the record whose Append holds mutex_, 0 if none
    written,        \* cells of its frame written so far
    appended,       \* records numbered so far
    acknowledged,   \* records whose Append reported success
    faults

vars == <<file, synced, up, appending, written, appended, acknowledged, faults>>

Record == 1 .. MaxRecords
Error == [ok |-> FALSE, events |-> <<>>, keep |-> 0]

Init ==
    /\ file = <<>> /\ synced = 0
    /\ up = TRUE
    /\ appending = 0 /\ written = 0 /\ appended = 0
    /\ acknowledged = {}
    /\ faults = Budget

-----------------------------------------------------------------------------
\* The header is accepted by its fields, the payload by its checksum.
HeaderValid(f, at) == f[at + 1][2] = 1 /\ f[at + 2][2] = 2
ChecksumValid(f, at) ==
    \A i \in HeaderCells + 1 .. FrameCells : f[at + i] = <<f[at + 2][1], i>>

\* Mutant: a torn payload counts as a damaged frame.
RECURSIVE ReplayFromStrict(_, _, _)
ReplayFromStrict(f, at, events) ==
    LET rest == Len(f) - at IN
    IF rest < HeaderCells
    THEN [ok |-> TRUE, events |-> events, keep |-> at]
    ELSE IF ~HeaderValid(f, at) \/ rest < FrameCells \/ ~ChecksumValid(f, at)
    THEN Error
    ELSE ReplayFromStrict(f, at + FrameCells, Append(events, f[at + 1][1]))

\* Replay's loop, from frame_start = at on; "keep" is the length after repair.
RECURSIVE ReplayFrom(_, _, _)
ReplayFrom(f, at, events) ==
    LET rest == Len(f) - at IN
    IF rest < HeaderCells
    THEN [ok |-> TRUE, events |-> events, keep |-> at]
    ELSE IF ~HeaderValid(f, at)
    THEN Error
    ELSE IF rest < FrameCells
    THEN [ok |-> TRUE, events |-> events, keep |-> at]
    ELSE IF ~ChecksumValid(f, at)
    THEN Error
    ELSE ReplayFrom(f, at + FrameCells, Append(events, f[at + 1][1]))

\* The daemon starts: open, lock, Replay with the repair of a torn tail.  When
\* Replay reports an error the daemon does not come up and the file stays.
Replay ==
    LET read == ReplayFrom(file, 0, <<>>) IN
    /\ ~up /\ read.ok
    /\ up' = TRUE
    /\ file' = SubSeq(file, 1, read.keep)
    /\ synced' = IF read.keep < Len(file) /\ (Synchronize \/ synced > read.keep)
                 THEN read.keep ELSE synced
    /\ UNCHANGED <<appending, written, appended, acknowledged, faults>>

-----------------------------------------------------------------------------
BeginAppend ==
    /\ up /\ appending = 0 /\ appended < MaxRecords
    /\ appended' = appended + 1
    /\ appending' = appended + 1 /\ written' = 0
    /\ UNCHANGED <<file, synced, up, acknowledged, faults>>

\* WriteAll, which goes on after a short write.
WriteCell ==
    /\ up /\ appending # 0 /\ written < FrameCells
    /\ file' = Append(file, <<appending, written + 1>>)
    /\ written' = written + 1
    /\ UNCHANGED <<synced, up, appending, appended, acknowledged, faults>>

\* Append returns an error; what was written stays where it is.
WriteFails ==
    /\ up /\ appending # 0 /\ written < FrameCells /\ faults.write > 0
    /\ faults' = [faults EXCEPT !.write = @ - 1]
    /\ appending' = 0 /\ written' = 0
    /\ UNCHANGED <<file, synced, up, appended, acknowledged>>

\* Mutant: success is reported before fsync.
AppendReturnsUnsynced ==
    /\ up /\ appending # 0 /\ written = FrameCells
    /\ acknowledged' = acknowledged \cup {appending}
    /\ appending' = 0 /\ written' = 0
    /\ UNCHANGED <<file, synced, up, appended, faults>>

AppendReturns ==
    /\ up /\ appending # 0 /\ written = FrameCells
    /\ synced' = IF Synchronize THEN Len(file) ELSE synced
    /\ acknowledged' = acknowledged \cup {appending}
    /\ appending' = 0 /\ written' = 0
    /\ UNCHANGED <<file, up, appended, faults>>

FsyncFails ==
    /\ up /\ appending # 0 /\ written = FrameCells /\ Synchronize /\ faults.fsync > 0
    /\ faults' = [faults EXCEPT !.fsync = @ - 1]
    /\ appending' = 0 /\ written' = 0
    /\ UNCHANGED <<file, synced, up, appended, acknowledged>>

-----------------------------------------------------------------------------
Down == up' = FALSE /\ appending' = 0 /\ written' = 0

ProcessDies ==
    /\ up /\ faults.death > 0
    /\ faults' = [faults EXCEPT !.death = @ - 1]
    /\ Down
    /\ UNCHANGED <<file, synced, appended, acknowledged>>

PowerFails ==
    /\ faults.power > 0
    /\ faults' = [faults EXCEPT !.power = @ - 1]
    /\ \E n \in synced .. Len(file) : file' = SubSeq(file, 1, n) /\ synced' = n
    /\ Down
    /\ UNCHANGED <<appended, acknowledged>>

Next ==
    \/ Replay
    \/ BeginAppend \/ WriteCell \/ WriteFails \/ AppendReturns \/ FsyncFails
    \/ ProcessDies \/ PowerFails

Spec == Init /\ [][Next]_vars

-----------------------------------------------------------------------------
NoFailedWrite == faults.write = Budget.write

(***************************************************************************)
(* Whenever the journal might be replayed, Replay succeeds, whatever       *)
(* deaths, power losses and failed fsyncs went before (a record after a    *)
(* torn tail included: file_journal_test.cpp,                              *)
(* RepairsTornTailBeforeLaterAppends).  A write that failed part-way is    *)
(* the exception: the next Append writes behind what it left.              *)
(***************************************************************************)
ReplaySucceeds == NoFailedWrite => ReplayFrom(file, 0, <<>>).ok

(***************************************************************************)
(* Replay never passes over a record in silence: also after failed writes  *)
(* it returns every record whose Append reported success, in the order of  *)
(* the calls and without duplicates, or it reports an error.               *)
(***************************************************************************)
AcknowledgedReplayed ==
    LET read == ReplayFrom(file, 0, <<>>) IN
    read.ok =>
        /\ acknowledged \subseteq {read.events[i] : i \in DOMAIN read.events}
        /\ \A i, j \in DOMAIN read.events : i < j => read.events[i] < read.events[j]
=============================================================================
