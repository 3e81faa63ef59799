------------------------------- MODULE MCFarm -------------------------------
(***************************************************************************)
(* One name and the same with a zero, and four requests of two handlers,   *)
(* one call of which fails.                                                *)
(***************************************************************************)
EXTENDS Farm, TLC

Symmetry == Permutations(Handlers)
=============================================================================
