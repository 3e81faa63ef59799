---------------------------- MODULE MCTransport ----------------------------
(***************************************************************************)
(* Two connections of one device behind a readLimiter with one slot.  The  *)
(* first is asked for a security token, the second has a handler that      *)
(* dispatches replies.                                                     *)
(***************************************************************************)
EXTENDS Transport

MCHome == [t \in Tasks |-> IF t = "other" THEN "c2" ELSE "c1"]
MCHomeOne == [t \in Tasks |-> "c1"]
MCDevice == [c \in Conns |-> "dev"]
============================================================================
