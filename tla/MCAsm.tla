-------------------------------- MODULE MCAsm --------------------------------
(* Instance of Asm for TLC.  The names are interchangeable. *)
EXTENDS Asm, TLC

Symmetry == Permutations(Names)
=============================================================================
