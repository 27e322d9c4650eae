--------------------------- MODULE MCEnforcement ---------------------------
(* Values for the constants of Enforcement.                           *)
EXTENDS Enforcement

\* The local threshold is 2; a peer relays at its own threshold of 1.
MCActionThreshold == [o \in Origin |-> IF o = LOCALHOST THEN 2 ELSE 1]

\* Consistent configuration: time_interval <= purge_after.
MCTimeInterval == [o \in Origin |-> 1]
MCPurgeAfter == [o \in Origin |-> 1]

=============================================================================
