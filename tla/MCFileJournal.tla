--------------------------- MODULE MCFileJournal ---------------------------
\* A small instance of the file journal.
EXTENDS FileJournal

EveryFault == [death |-> 2, power |-> 1, write |-> 2, fsync |-> 1]
=============================================================================
