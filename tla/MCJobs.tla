------------------------------- MODULE MCJobs -------------------------------
(***************************************************************************)
(* Two devices with two jobs and two sessions each: the runner may belong  *)
(* to either of them, end, and be started by the other one.                *)
(***************************************************************************)
EXTENDS Jobs
=============================================================================
