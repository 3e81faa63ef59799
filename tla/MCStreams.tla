----------------------------- MODULE MCStreams -----------------------------
(***************************************************************************)
(* Two start messages for names of one type, two operations that wait for  *)
(* that type and two sessions: enough for two starts of a name to overlap, *)
(* and for an operation of the old session to leave while one of the new   *)
(* session waits.                                                          *)
(***************************************************************************)
EXTENDS Streams

CONSTANTS n1, n2, t1, o1, o2

MCTypeOf == [n \in {n1, n2} |-> t1]
MCOpType == [o \in {o1, o2} |-> t1]
=============================================================================
