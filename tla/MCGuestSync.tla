---------------------------- MODULE MCGuestSync ----------------------------
(* Instance of GuestSync for TLC. *)
EXTENDS GuestSync
=============================================================================
