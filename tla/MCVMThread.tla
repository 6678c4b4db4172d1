----------------------------- MODULE MCVMThread -----------------------------
(* Instance of VMThread for TLC. *)
EXTENDS VMThread
=============================================================================
