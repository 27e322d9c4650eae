------------------------------ MODULE MCServer ------------------------------
(* Small instances of Server for TLC. *)
EXTENDS Server, TLC

CONSTANTS c1, c2, c3

\* Two listening sockets, two connections on the first.
MCFdOf == (c1 :> 1) @@ (c2 :> 1) @@ (c3 :> 2)
=============================================================================
