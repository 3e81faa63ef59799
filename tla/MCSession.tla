----------------------------- MODULE MCSession -----------------------------
(***************************************************************************)
(* Session with small windows: one message, which the acknowledgement uses *)
(* up, and three messages of which the byte limit stops one.               *)
(***************************************************************************)
EXTENDS Session

MCGrants == {[msgs |-> 1, bytes |-> 4], [msgs |-> 3, bytes |-> 2]}
============================================================================
