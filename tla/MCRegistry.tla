----------------------------- MODULE MCRegistry -----------------------------
(* Instance of Registry for TLC. *)
EXTENDS Registry
=============================================================================
