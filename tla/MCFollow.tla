------------------------------ MODULE MCFollow ------------------------------
(* Small instances of Follow for TLC. *)
EXTENDS Follow
=============================================================================
