------------------------------- MODULE Link -------------------------------
(***************************************************************************)
(* What one emulated connection promises to the rest of the emulator,      *)
(* whatever the interleaving of its goroutines: it is down, up, or         *)
(* closing; it opens only when no goroutine of the previous websocket is   *)
(* left; it never goes from up straight to down; and a connection that     *)
(* starts closing loses its goroutines one after the other and ends down.  *)
(*                                                                         *)
(*   phase     where the connection stands                                 *)
(*   routines  the goroutines attached to the current websocket: "reader"  *)
(*             is the connection's own loop inside readLoop, "writer" runs *)
(*             writeLoop, "breaker" runs disconnectLoop                    *)
(*                                                                         *)
(* Session implements this specification.                                  *)
(***************************************************************************)
VARIABLES phase, routines

vars == <<phase, routines>>

Init ==
  /\ phase = "down"
  /\ routines = {}

\* A websocket is dialled and its goroutines start.  Somebody may have asked
\* for the connection to close while it was being dialled.
Open ==
  /\ phase = "down"
  /\ routines = {}
  /\ phase' \in {"up", "closing"}
  /\ routines' \in {{"reader", "writer"}, {"reader", "writer", "breaker"}}

\* The websocket or the context of the session is gone; whoever noticed may
\* leave at once.
Break ==
  /\ phase = "up"
  /\ phase' = "closing"
  /\ routines' \in SUBSET routines

Leave ==
  /\ phase = "closing"
  /\ routines' \in (SUBSET routines) \ {routines}
  /\ UNCHANGED phase

Close ==
  /\ phase = "closing"
  /\ routines = {}
  /\ phase' = "down"
  /\ UNCHANGED routines

Next == Open \/ Break \/ Leave \/ Close

\* Without the promise that a closing connection ends down.
Safety == Init /\ [][Next]_vars

Spec == Safety /\ WF_vars(Leave) /\ WF_vars(Close)
============================================================================
