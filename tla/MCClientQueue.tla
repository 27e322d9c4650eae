--------------------------- MODULE MCClientQueue ---------------------------
(* Small instances of ClientQueue for TLC. *)
EXTENDS ClientQueue
=============================================================================
