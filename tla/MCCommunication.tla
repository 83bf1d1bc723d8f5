--------------------------- MODULE MCCommunication ---------------------------
(* Instances of CommunicationRuntime: one client and one worker, named here *)
(* as model values.  The dispatcher refuses tasks of events only.           *)
EXTENDS CommunicationRuntime

CONSTANTS c1, w1

QueueLimits == [r \in Roles |-> IF r = "event" THEN 1 ELSE 20]
=============================================================================
