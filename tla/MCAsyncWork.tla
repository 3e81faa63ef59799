---------------------------- MODULE MCAsyncWork ----------------------------
(***************************************************************************)
(* AsyncWork with a queue of two and enough keys to fill it twice over.    *)
(***************************************************************************)
EXTENDS AsyncWork
============================================================================
