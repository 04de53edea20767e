------------------------------ MODULE MCQueue -------------------------------
(* Instances of Queue for TLC.                                             *)
EXTENDS Queue

MCPrio == [t \in Tasks |-> IF t = "low" THEN 1 ELSE 2]
=============================================================================
