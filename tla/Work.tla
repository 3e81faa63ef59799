-------------------------------- MODULE Work --------------------------------
(***************************************************************************)
(* What an asynchronous worker promises to its client: a unit of work whose*)
(* key is busy is dropped; every other one is accepted, and each accepted  *)
(* unit is answered exactly once, unless the stream is closed first.       *)
(*                                                                         *)
(*   busy   keys that are queued or being worked on                        *)
(*   owed   answers per key that are still to be given: that of the busy   *)
(*          unit, and those of finished units that are not published yet   *)
(*   open   the stream is not closed                                       *)
(*                                                                         *)
(* AsyncWork implements this specification.                                *)
(***************************************************************************)
EXTENDS Naturals

CONSTANT Keys

VARIABLES busy, owed, open

vars == <<busy, owed, open>>

Init ==
  /\ busy = {}
  /\ owed = [k \in Keys |-> 0]
  /\ open = TRUE

Accept(k) ==
  /\ k \notin busy
  /\ busy' = busy \cup {k}
  /\ owed' = [owed EXCEPT ![k] = @ + 1]
  /\ UNCHANGED open

\* The unit is done, or there was no room for it.
Complete(k) ==
  /\ k \in busy
  /\ busy' = busy \ {k}
  /\ UNCHANGED <<owed, open>>

\* Never an answer for a unit that is still busy.  After Close the answer may
\* be given up instead: the client learns that the stream is closed.
Publish(k) ==
  /\ owed[k] > (IF k \in busy THEN 1 ELSE 0)
  /\ owed' = [owed EXCEPT ![k] = @ - 1]
  /\ UNCHANGED <<busy, open>>

Close == open /\ open' = FALSE /\ UNCHANGED <<busy, owed>>

Next == Close \/ \E k \in Keys : Accept(k) \/ Complete(k) \/ Publish(k)

Safety == Init /\ [][Next]_vars

Spec ==
  /\ Safety
  /\ \A k \in Keys : WF_vars(open /\ Complete(k)) /\ WF_vars(open /\ Publish(k))
============================================================================
