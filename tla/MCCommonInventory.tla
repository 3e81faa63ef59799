------------------------- MODULE MCCommonInventory -------------------------
(***************************************************************************)
(* Two streams and three types with one object, and batches of two: as     *)
(* with the 100 objects and batches of 100 of the code, a batch is full    *)
(* when items that were held back are added to those of a type, and the    *)
(* types may be reported in the worst order.  In the rich message a board  *)
(* has three relationships, two of them to a blade: enough to be written   *)
(* over another item and past the last.  In the plain one each type        *)
(* relates to the next, and blades change.  The second stream has either,  *)
(* and finds what a rich one left.                                         *)
(***************************************************************************)
EXTENDS CommonInventory

CONSTANTS board, blade, chassis, slot, twin, frame, shelf

MCRelType == (slot :> blade) @@ (twin :> blade) @@ (frame :> chassis) @@ (shelf :> chassis)

Boards(rs) == (board :> rs) @@ (blade :> {shelf}) @@ (chassis :> {})
Plainly == [rels |-> Boards({slot}), volatile |-> {blade}]
Richly == [rels |-> Boards({slot, twin, frame}), volatile |-> {}]
MCInits == <<{Richly}, {Plainly, Richly}>>
=============================================================================
