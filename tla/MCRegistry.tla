----------------------------- MODULE MCRegistry -----------------------------
(***************************************************************************)
(* One connection and a server that it manages, and a crash after which    *)
(* the stored ones of them are restored.  Either three registrations and a *)
(* control message or fewer registrations and more messages, two of which  *)
(* may be handled at the same time.                                        *)
(***************************************************************************)
EXTENDS Registry
=============================================================================
