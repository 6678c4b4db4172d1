---------------------------- MODULE MCShadowStack ----------------------------
(* Instance of ShadowStack for TLC: every program of CodeLen instructions. *)
EXTENDS ShadowStack

AllPrograms == [Code -> Instruction]
=============================================================================
