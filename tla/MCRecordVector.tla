--------------------------- MODULE MCRecordVector ---------------------------
(* Values for the constants of RecordVector and symmetry of the hosts.     *)
EXTENDS RecordVector, TLC

\* One sighting makes a host an offender, so every path is short.
MCActionThreshold == [o \in Origin |-> 1]

\* A record is stale one tick after the host was seen.
MCTimeInterval == [o \in Origin |-> 0]
MCPurgeAfter == [o \in Origin |-> 0]

Symmetry == Permutations(Ip)
=============================================================================
