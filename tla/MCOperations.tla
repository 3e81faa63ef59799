---------------------------- MODULE MCOperations ----------------------------
(***************************************************************************)
(* Two operations: one can fail or end while the other is applied.  With   *)
(* four changes an operation is added, replaced, and removed or replaced  *)
(* once more; the second configuration the cloud makes cannot be read.     *)
(***************************************************************************)
EXTENDS Operations
============================================================================
