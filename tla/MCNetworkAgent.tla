--------------------------- MODULE MCNetworkAgent ---------------------------
(***************************************************************************)
(* Two goroutines that handle two messages about one port, or one message  *)
(* and a request, an answer or a session that fails, the two jobs of the   *)
(* inventories, and a process that ends after it has told the cloud of a   *)
(* server.                                                                 *)
(***************************************************************************)
EXTENDS NetworkAgent
=============================================================================
