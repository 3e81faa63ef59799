---------------------------- MODULE MCTerminals ----------------------------
(***************************************************************************)
(* One session of either kind, opened or not, and a handler with input     *)
(* that can be there while another input is forwarded or written.          *)
(***************************************************************************)
EXTENDS Terminals
=============================================================================
