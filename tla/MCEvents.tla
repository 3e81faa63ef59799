------------------------------ MODULE MCEvents ------------------------------
(***************************************************************************)
(* Two topics of one device and one of another, four messages and two      *)
(* batches a topic: a subscription can end and come back between batches,  *)
(* and the eventer can end and start while a plugin is entered.            *)
(***************************************************************************)
EXTENDS Events

CONSTANTS d1, d2, t1, t2, t3

MCDeviceOf == [t \in Topics |-> IF t = t3 THEN d2 ELSE d1]
=============================================================================
