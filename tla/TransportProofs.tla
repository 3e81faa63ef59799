-------------------------- MODULE TransportProofs --------------------------
(***************************************************************************)
(* Proofs about Transport for any number of connections and tasks, any     *)
(* assignment of tasks to connections and any limit on readers.            *)
(***************************************************************************)
EXTENDS Transport, TLAPS

LEMMA InitInv == Init => TransportInv
BY TasksAssumption, SharedAssumption
DEF Init, TransportInv, TypeOK, TaskTypes, BoundToSession, RoomLeft, OneDispatch

\* A task that ends or returns from Dispatch leaves well-typed variables.
LEMMA EndTypes ==
  ASSUME TaskTypes, NEW t \in Tasks, End(t)
  PROVE  TaskTypes'
BY DEF TaskTypes, End

LEMMA ReturnTypes ==
  ASSUME TypeOK, NEW t \in Tasks, NEW arrived \in BOOLEAN, Return(t, arrived)
  PROVE  TaskTypes' /\ flateMu' = NoTask /\ ch' \in [Tasks -> {"current", "past"}]
<1>1. flateMu' = NoTask /\ ch' \in [Tasks -> {"current", "past"}]
  BY DEF TypeOK, Return
<1>2. CASE t \in Asks
  BY <1>2 DEF TypeOK, TaskTypes, Return
<1>3. CASE t \notin Asks
  BY <1>3, EndTypes DEF TypeOK, Return
<1> QED
  BY <1>1, <1>2, <1>3

\* A session that is cancelled takes its contexts with it.
LEMMA CancelBound ==
  ASSUME TypeOK, BoundToSession, NEW c \in Conns, Cancel(c)
  PROVE  BoundToSession'
<1> USE DEF TypeOK, TaskTypes, Cancel
<1>1. ASSUME NEW t \in Tasks, pc'[t] # "idle", ~ctxDone'[t], t \notin Deadline
      PROVE  phase'[Home[t]] = "up" /\ (pc'[t] = "offer" => ch'[t] = "current")
  <2>1. ~ctxDone[t] /\ Home[t] # c /\ Home[t] \in Conns
    BY <1>1, TasksAssumption
  <2> QED
    BY <1>1, <2>1 DEF BoundToSession
<1>2. \A d \in Conns :
        /\ phase'[d] = "up" => reader'[d] # "none" /\ writer'[d] # "none"
        /\ phase'[d] = "down" => reader'[d] = "none" /\ writer'[d] = "none"
  BY DEF BoundToSession
<1> QED
  BY <1>1, <1>2 DEF BoundToSession

LEMMA NextInv == TransportInv /\ [Next]_vars => TransportInv'
<1> SUFFICES ASSUME TransportInv, [Next]_vars PROVE TransportInv'
  OBVIOUS
<1> USE TasksAssumption, SharedAssumption
<1> USE DEF TransportInv, TypeOK, TaskTypes, BoundToSession, RoomLeft, OneDispatch,
        connVars, taskVars
<1>1. ASSUME NEW c \in Conns, Connect(c)
  PROVE  TransportInv'
  <2>1. TypeOK'
    BY <1>1 DEF Connect
  <2>2. BoundToSession'
    BY <1>1 DEF Connect
  <2>3. RoomLeft'
    BY <1>1 DEF Connect
  <2>4. OneDispatch'
    BY <1>1 DEF Connect
  <2> QED
    BY <2>1, <2>2, <2>3, <2>4
<1>2. ASSUME NEW c \in Conns, Break(c)
  PROVE  TransportInv'
  <2>1. TypeOK'
    BY <1>2 DEF Break, Cancel
  <2>2. BoundToSession'
    BY <1>2, CancelBound DEF Break
  <2>3. RoomLeft'
    BY <1>2 DEF Break, Cancel
  <2>4. OneDispatch'
    BY <1>2 DEF Break, Cancel
  <2> QED
    BY <2>1, <2>2, <2>3, <2>4
<1>3. ASSUME NEW c \in Conns, FlowTimeout(c)
  PROVE  TransportInv'
  <2>1. TypeOK'
    BY <1>3 DEF FlowTimeout, Cancel
  <2>2. BoundToSession'
    BY <1>3, CancelBound DEF FlowTimeout
  <2>3. RoomLeft'
    BY <1>3 DEF FlowTimeout, Cancel
  <2>4. OneDispatch'
    BY <1>3 DEF FlowTimeout, Cancel
  <2> QED
    BY <2>1, <2>2, <2>3, <2>4
<1>4. ASSUME NEW c \in Conns, ReaderLeaves(c)
  PROVE  TransportInv'
  <2>1. TypeOK'
    BY <1>4 DEF ReaderLeaves
  <2>2. BoundToSession'
    BY <1>4 DEF ReaderLeaves
  <2>3. RoomLeft'
    BY <1>4 DEF ReaderLeaves
  <2>4. OneDispatch'
    BY <1>4 DEF ReaderLeaves
  <2> QED
    BY <2>1, <2>2, <2>3, <2>4
<1>5. ASSUME NEW c \in Conns, WriterLeaves(c)
  PROVE  TransportInv'
  <2>1. TypeOK'
    BY <1>5 DEF WriterLeaves
  <2>2. BoundToSession'
    BY <1>5 DEF WriterLeaves
  <2>3. RoomLeft'
    BY <1>5 DEF WriterLeaves
  <2>4. OneDispatch'
    BY <1>5 DEF WriterLeaves
  <2> QED
    BY <2>1, <2>2, <2>3, <2>4
<1>6. ASSUME NEW c \in Conns, Reset(c)
  PROVE  TransportInv'
  <2>1. TypeOK'
    BY <1>6 DEF Reset
  <2>2. BoundToSession'
    BY <1>6 DEF Reset
  <2>3. RoomLeft'
    BY <1>6 DEF Reset
  <2>4. OneDispatch'
    BY <1>6 DEF Reset
  <2> QED
    BY <2>1, <2>2, <2>3, <2>4
<1>7. ASSUME NEW c \in Conns, TakeFlow(c)
  PROVE  TransportInv'
  <2>1. TypeOK'
    BY <1>7 DEF TakeFlow
  <2>2. BoundToSession'
    BY <1>7 DEF TakeFlow
  <2>3. RoomLeft'
    BY <1>7 DEF TakeFlow
  <2>4. OneDispatch'
    BY <1>7 DEF TakeFlow
  <2> QED
    BY <2>1, <2>2, <2>3, <2>4
<1>8. ASSUME NEW c \in Conns, NEW t \in Tasks, TakeAnswer(c, t)
  PROVE  TransportInv'
  <2>1. TypeOK'
    BY <1>8 DEF TakeAnswer
  <2>2. BoundToSession'
    BY <1>8 DEF TakeAnswer
  <2>3. RoomLeft'
    BY <1>8 DEF TakeAnswer
  <2>4. OneDispatch'
    BY <1>8 DEF TakeAnswer
  <2> QED
    BY <2>1, <2>2, <2>3, <2>4
<1>9. ASSUME NEW c \in Conns, NEW n \in 0..MaxWindow, Deliver(c, n)
  PROVE  TransportInv'
  <2>1. TypeOK'
    BY <1>9 DEF Deliver
  <2>2. BoundToSession'
    BY <1>9 DEF Deliver
  <2>3. RoomLeft'
    BY <1>9 DEF Deliver
  <2>4. OneDispatch'
    BY <1>9 DEF Deliver
  <2> QED
    BY <2>1, <2>2, <2>3, <2>4
<1>10. ASSUME NEW t \in Tasks, Start(t)
  PROVE  TransportInv'
  <2>1. TypeOK'
    BY <1>10 DEF Start
  <2>2. BoundToSession'
    BY <1>10 DEF Start
  <2>3. RoomLeft'
    BY <1>10 DEF Start
  <2>4. OneDispatch'
    BY <1>10 DEF Start
  <2> QED
    BY <2>1, <2>2, <2>3, <2>4
<1>11. ASSUME NEW t \in Tasks, Expire(t)
  PROVE  TransportInv'
  <2>1. TypeOK'
    BY <1>11 DEF Expire
  <2>2. BoundToSession'
    BY <1>11 DEF Expire
  <2>3. RoomLeft'
    BY <1>11 DEF Expire
  <2>4. OneDispatch'
    BY <1>11 DEF Expire
  <2> QED
    BY <2>1, <2>2, <2>3, <2>4
<1>12. ASSUME NEW t \in Tasks, Lock(t)
  PROVE  TransportInv'
  <2>1. TypeOK'
    BY <1>12 DEF Lock
  <2>2. BoundToSession'
    BY <1>12 DEF Lock
  <2>3. RoomLeft'
    BY <1>12 DEF Lock
  <2>4. OneDispatch'
    BY <1>12 DEF Lock
  <2> QED
    BY <2>1, <2>2, <2>3, <2>4
<1>13. ASSUME NEW t \in Tasks, Write(t)
  PROVE  TransportInv'
  <2>1. TypeOK'
    <3>1. PICK arrived \in BOOLEAN : Return(t, arrived)
      BY <1>13 DEF Write
    <3>2. window[Home[t]] - 1 \in 0..MaxWindow
      BY <1>13 DEF Write
    <3>3. window' \in [Conns -> 0..MaxWindow]
      BY <1>13, <3>2 DEF Write
    <3>4. phase' = phase /\ reader' = reader
            /\ writer' \in [Conns -> {"none", "send", "flow"}]
      BY <1>13 DEF Write
    <3> HIDE DEF TransportInv, BoundToSession, RoomLeft, OneDispatch
    <3> QED
      BY <3>1, <3>3, <3>4, ReturnTypes DEF TransportInv
  <2>2. BoundToSession'
    BY <1>13 DEF Write, Return, End
  <2>3. RoomLeft'
    BY <1>13 DEF Write, Return, End
  <2>4. OneDispatch'
    BY <1>13 DEF Write, Return, End
  <2> QED
    BY <2>1, <2>2, <2>3, <2>4
<1>14. ASSUME NEW t \in Tasks, GiveUp(t)
  PROVE  TransportInv'
  <2>1. TypeOK'
    BY <1>14, ReturnTypes DEF GiveUp
  <2>2. BoundToSession'
    BY <1>14 DEF GiveUp, Return, End
  <2>3. RoomLeft'
    BY <1>14 DEF GiveUp, Return, End
  <2>4. OneDispatch'
    BY <1>14 DEF GiveUp, Return, End
  <2> QED
    BY <2>1, <2>2, <2>3, <2>4
<1>15. ASSUME NEW t \in Tasks, Answered(t)
  PROVE  TransportInv'
  <2>1. TypeOK'
    <3>1. CASE End(t)
      BY <1>15, <3>1, EndTypes DEF Answered
    <3>2. CASE ~End(t)
      <4>1. /\ pc' = [pc EXCEPT ![t] = "lock"]
            /\ mail' = [mail EXCEPT ![t] = FALSE]
            /\ stage' = [stage EXCEPT ![t] = 2]
            /\ entry' = [entry EXCEPT ![t] = TRUE]
            /\ ctxDone' = ctxDone /\ asked' = asked
        BY <1>15, <3>2 DEF Answered
      <4>2. stage' \in [Tasks -> 1..2] /\ pc' \in [Tasks -> {"idle", "lock", "offer", "wait"}]
        BY <4>1
      <4>3. mail' \in [Tasks -> BOOLEAN] /\ entry' \in [Tasks -> BOOLEAN]
        BY <4>1
      <4> QED
        BY <1>15, <4>1, <4>2, <4>3 DEF Answered
    <3> QED
      BY <3>1, <3>2
  <2>2. BoundToSession'
    BY <1>15 DEF Answered, End
  <2>3. RoomLeft'
    BY <1>15 DEF Answered, End
  <2>4. OneDispatch'
    BY <1>15 DEF Answered, End
  <2> QED
    BY <2>1, <2>2, <2>3, <2>4
<1>16. ASSUME NEW t \in Tasks, Unanswered(t)
  PROVE  TransportInv'
  <2>1. TypeOK'
    BY <1>16, EndTypes DEF Unanswered
  <2>2. BoundToSession'
    BY <1>16 DEF Unanswered, End
  <2>3. RoomLeft'
    BY <1>16 DEF Unanswered, End
  <2>4. OneDispatch'
    BY <1>16 DEF Unanswered, End
  <2> QED
    BY <2>1, <2>2, <2>3, <2>4
<1>17. CASE UNCHANGED vars
  BY <1>17 DEF vars
<1>18. QED
  BY <1>1, <1>2, <1>3, <1>4, <1>5, <1>6, <1>7, <1>8, <1>9, <1>10, <1>11, <1>12, <1>13, <1>14, <1>15, <1>16, <1>17 DEF Next, ConnNext, TaskNext

LEMMA Inductive == SafeSpec => []TransportInv
BY InitInv, NextInv, PTL DEF SafeSpec

----------------------------------------------------------------------------

\* The variables keep their types, for any number of connections and tasks.
THEOREM TypeCorrect == Spec => []TypeOK
<1>1. TransportInv => TypeOK
  BY DEF TransportInv
<1> QED
  BY <1>1, Inductive, PTL DEF Spec

\* Whoever holds flateMu can be released: its context is done or has a
\* deadline, or a living writer reads the channel it offers on.
THEOREM NobodyOrphaned == Spec => []NoOrphan
<1>1. TransportInv => NoOrphan
  <2> SUFFICES ASSUME TransportInv, NEW t \in Tasks, pc[t] = "offer",
                      ~ctxDone[t], t \notin Deadline
               PROVE  /\ phase[Home[t]] = "up"
                      /\ ch[t] = "current"
                      /\ writer[Home[t]] # "none"
    BY DEF NoOrphan
  <2>1. phase[Home[t]] = "up" /\ ch[t] = "current"
    BY DEF TransportInv, BoundToSession
  <2>2. Home[t] \in Conns
    BY TasksAssumption
  <2> QED
    BY <2>1, <2>2 DEF TransportInv, BoundToSession
<1> QED
  BY <1>1, Inductive, PTL DEF Spec

\* A connection that stands still is a stutter of Link; one that was up or
\* closing, is closing now and gained no goroutine took a step of Link.
LEMMA LinkStutter ==
  ASSUME NEW c \in Conns, UNCHANGED <<phase[c], Routines(c)>>
  PROVE  [LinkOf(c)!Next]_(LinkOf(c)!vars)
BY DEF LinkOf!vars

LEMMA LinkCloses ==
  ASSUME NEW c \in Conns, phase[c] \in {"up", "closing"},
         phase'[c] = "closing", Routines(c)' \subseteq Routines(c)
  PROVE  [LinkOf(c)!Next]_(LinkOf(c)!vars)
BY DEF LinkOf!vars, LinkOf!Next, LinkOf!Break, LinkOf!Leave

LEMMA LinkStep ==
  ASSUME TransportInv, [Next]_vars, NEW d \in Conns
  PROVE  [LinkOf(d)!Next]_(LinkOf(d)!vars)
<1> USE TasksAssumption
<1> USE DEF TransportInv, TypeOK, BoundToSession, connVars, taskVars
<1>1. ASSUME NEW c \in Conns, Connect(c)
  PROVE  [LinkOf(d)!Next]_(LinkOf(d)!vars)
  <2>1. CASE d # c
    BY <1>1, <2>1, LinkStutter DEF Connect, Routines
  <2>2. CASE d = c
    <3>1. phase[d] = "down" /\ Routines(d) = {}
      BY <1>1, <2>2 DEF Connect, Routines
    <3>2. phase'[d] = "up" /\ Routines(d)' = {"reader", "writer"}
      BY <1>1, <2>2 DEF Connect, Routines
    <3> QED
      BY <3>1, <3>2 DEF LinkOf!Next, LinkOf!Open
  <2> QED
    BY <2>1, <2>2
<1>2. ASSUME NEW c \in Conns, Break(c)
  PROVE  [LinkOf(d)!Next]_(LinkOf(d)!vars)
  <2>1. CASE d # c
    BY <1>2, <2>1, LinkStutter DEF Break, Cancel, Routines
  <2>2. CASE d = c
    <3>1. phase[d] \in {"up", "closing"} /\ phase'[d] = "closing"
      BY <1>2, <2>2 DEF Break, Cancel
    <3>2. Routines(d)' \subseteq Routines(d)
      BY <1>2, <2>2 DEF Break, Cancel, Routines
    <3> QED
      BY <3>1, <3>2, LinkCloses
  <2> QED
    BY <2>1, <2>2
<1>3. ASSUME NEW c \in Conns, FlowTimeout(c)
  PROVE  [LinkOf(d)!Next]_(LinkOf(d)!vars)
  <2>1. CASE d # c
    BY <1>3, <2>1, LinkStutter DEF FlowTimeout, Cancel, Routines
  <2>2. CASE d = c
    <3>1. phase[d] \in {"up", "closing"} /\ phase'[d] = "closing"
      BY <1>3, <2>2 DEF FlowTimeout, Cancel
    <3>2. Routines(d)' \subseteq Routines(d)
      BY <1>3, <2>2 DEF FlowTimeout, Cancel, Routines
    <3> QED
      BY <3>1, <3>2, LinkCloses
  <2> QED
    BY <2>1, <2>2
<1>4. ASSUME NEW c \in Conns, ReaderLeaves(c)
  PROVE  [LinkOf(d)!Next]_(LinkOf(d)!vars)
  <2>1. CASE d # c
    BY <1>4, <2>1, LinkStutter DEF ReaderLeaves, Routines
  <2>2. CASE d = c
    <3>1. phase[d] \in {"up", "closing"} /\ phase'[d] = "closing"
      BY <1>4, <2>2 DEF ReaderLeaves
    <3>2. Routines(d)' \subseteq Routines(d)
      BY <1>4, <2>2 DEF ReaderLeaves, Routines
    <3> QED
      BY <3>1, <3>2, LinkCloses
  <2> QED
    BY <2>1, <2>2
<1>5. ASSUME NEW c \in Conns, WriterLeaves(c)
  PROVE  [LinkOf(d)!Next]_(LinkOf(d)!vars)
  <2>1. CASE d # c
    BY <1>5, <2>1, LinkStutter DEF WriterLeaves, Routines
  <2>2. CASE d = c
    <3>1. phase[d] \in {"up", "closing"} /\ phase'[d] = "closing"
      BY <1>5, <2>2 DEF WriterLeaves
    <3>2. Routines(d)' \subseteq Routines(d)
      BY <1>5, <2>2 DEF WriterLeaves, Routines
    <3> QED
      BY <3>1, <3>2, LinkCloses
  <2> QED
    BY <2>1, <2>2
<1>6. ASSUME NEW c \in Conns, Reset(c)
  PROVE  [LinkOf(d)!Next]_(LinkOf(d)!vars)
  <2>1. CASE d # c
    BY <1>6, <2>1, LinkStutter DEF Reset, Routines
  <2>2. CASE d = c
    <3>1. phase[d] = "closing" /\ Routines(d) = {}
      BY <1>6, <2>2 DEF Reset, Routines
    <3>2. phase'[d] = "down" /\ Routines(d)' = {}
      BY <1>6, <2>2 DEF Reset, Routines
    <3> QED
      BY <3>1, <3>2 DEF LinkOf!Next, LinkOf!Close
  <2> QED
    BY <2>1, <2>2
<1>7. ASSUME NEW c \in Conns, TakeFlow(c)
  PROVE  [LinkOf(d)!Next]_(LinkOf(d)!vars)
  BY <1>7, LinkStutter DEF TakeFlow, Routines
<1>8. ASSUME NEW c \in Conns, NEW t \in Tasks, TakeAnswer(c, t)
  PROVE  [LinkOf(d)!Next]_(LinkOf(d)!vars)
  BY <1>8, LinkStutter DEF TakeAnswer, Routines
<1>9. ASSUME NEW c \in Conns, NEW n \in 0..MaxWindow, Deliver(c, n)
  PROVE  [LinkOf(d)!Next]_(LinkOf(d)!vars)
  BY <1>9, LinkStutter DEF Deliver, Routines
<1>10. ASSUME NEW t \in Tasks, Start(t)
  PROVE  [LinkOf(d)!Next]_(LinkOf(d)!vars)
  BY <1>10, LinkStutter DEF Start, Routines
<1>11. ASSUME NEW t \in Tasks, Expire(t)
  PROVE  [LinkOf(d)!Next]_(LinkOf(d)!vars)
  BY <1>11, LinkStutter DEF Expire, Routines
<1>12. ASSUME NEW t \in Tasks, Lock(t)
  PROVE  [LinkOf(d)!Next]_(LinkOf(d)!vars)
  BY <1>12, LinkStutter DEF Lock, Routines
<1>13. ASSUME NEW t \in Tasks, Write(t)
  PROVE  [LinkOf(d)!Next]_(LinkOf(d)!vars)
  BY <1>13, LinkStutter DEF Write, Routines
<1>14. ASSUME NEW t \in Tasks, GiveUp(t)
  PROVE  [LinkOf(d)!Next]_(LinkOf(d)!vars)
  BY <1>14, LinkStutter DEF GiveUp, Routines
<1>15. ASSUME NEW t \in Tasks, Answered(t)
  PROVE  [LinkOf(d)!Next]_(LinkOf(d)!vars)
  BY <1>15, LinkStutter DEF Answered, Routines
<1>16. ASSUME NEW t \in Tasks, Unanswered(t)
  PROVE  [LinkOf(d)!Next]_(LinkOf(d)!vars)
  BY <1>16, LinkStutter DEF Unanswered, Routines
<1>17. CASE UNCHANGED vars
  BY <1>17, LinkStutter DEF vars, Routines
<1>18. QED
  BY <1>1, <1>2, <1>3, <1>4, <1>5, <1>6, <1>7,
     <1>8, <1>9, <1>10, <1>11, <1>12, <1>13, <1>14, <1>15, <1>16, <1>17
  DEF Next, ConnNext, TaskNext

\* Every connection of the process behaves as Link promises, which is all the
\* rest of Transport relies on.
THEOREM ConnectionsAreLinks == Spec => UsesLinks
<1>1. Init => \A c \in Conns : LinkOf(c)!Init
  BY DEF Init, LinkOf!Init, Routines
<1>2. TransportInv /\ [Next]_vars =>
        [\A c \in Conns : [LinkOf(c)!Next]_(LinkOf(c)!vars)]_vars
  BY LinkStep
<1> QED
  BY <1>1, <1>2, Inductive, PTL DEF Spec, SafeSpec, UsesLinks
============================================================================
