---------------------------- MODULE SessionProofs ----------------------------
(***************************************************************************)
(* Proofs about Session for all windows, message sizes, handler limits and *)
(* backoffs, and after them about Registry for all numbers of connections, *)
(* devices, registrations, crashes and handlers.  The two share no state.  *)
(***************************************************************************)
EXTENDS Session, Registry, FiniteSetTheorems, TLAPS

LEMMA InitInv == Init => SessionInv
<1> SUFFICES ASSUME Init PROVE SessionInv
  OBVIOUS
<1>1. TypeOK
  <2>1. slots \in 0..HandlerLimit /\ timeouts \in 0..MaxTimeouts
    BY LimitsAssumption DEF Init
  <2>2. sent \in Nat /\ bytes \in Nat /\ credit \in Int /\ replying \in Nat
          /\ leaving \in Nat
    BY DEF Init
  <2>3. first \in BOOLEAN /\ ctxDone \in BOOLEAN /\ flowEnabled \in BOOLEAN
    BY Zenon DEF Init
  <2> QED
    BY Zenon, <2>1, <2>2, <2>3 DEF Init, TypeOK, Reading
<1>2. RoutinesInv
  BY DEF Init, RoutinesInv, Reading
<1>3. WindowInv /\ SlotAccounting
  BY DEF Init, WindowInv, SlotAccounting
<1> QED
  BY <1>1, <1>2, <1>3 DEF SessionInv

LEMMA NextInv == SessionInv /\ [Next]_vars => SessionInv'
<1> SUFFICES ASSUME SessionInv, [Next]_vars PROVE SessionInv'
  OBVIOUS
<1> USE GrantsAssumption, SizesAssumption, CreditAssumption, LimitsAssumption,
        BackoffAssumption
<1> USE DEF SessionInv, TypeOK, RoutinesInv, WindowInv, SlotAccounting, Reading,
        NoWindow, loopVars, dialVars, wireVars, writeVars, flowVars, handlerVars

<1>1. CASE Setup
  <2>1. TypeOK'
    <3>1. sleep' \in Backoffs \cup {0, ReconnectRate}
      BY <1>1 DEF Setup, BackoffFor
    <3>2. run' \in {"dial", "backoff"} /\ toggle' \in {"none", "current", "stale"}
      BY <1>1 DEF Setup
    <3>3. first' \in BOOLEAN /\ ctxDone' \in BOOLEAN /\ flowEnabled' \in BOOLEAN
      BY Zenon, <1>1 DEF Setup
    <3>4. /\ sent' \in Nat /\ bytes' \in Nat /\ credit' \in Int
          /\ slots' \in 0..HandlerLimit /\ timeouts' \in 0..MaxTimeouts
          /\ replying' \in Nat /\ leaving' \in Nat
      BY <1>1 DEF Setup
    <3> QED
      BY Zenon, <1>1, <3>1, <3>2, <3>3, <3>4 DEF Setup
  <2>2. RoutinesInv'
    BY <1>1 DEF Setup
  <2>3. WindowInv' /\ SlotAccounting'
    BY <1>1 DEF Setup
  <2> QED
    BY <2>1, <2>2, <2>3
<1>2. CASE WakeUp
  BY <1>2 DEF WakeUp
<1>3. ASSUME NEW b \in Backoffs \cup {0}, NEW s \in {"NotConnected", "Rejected"}, DialFail(b, s) PROVE SessionInv'
  BY <1>3 DEF DialFail
<1>4. ASSUME NEW f \in BOOLEAN, DialOk(f) PROVE SessionInv'
  <2>1. writer = "none" /\ writer' = "none" /\ run' = "up" /\ ws' = "open"
    BY <1>4 DEF DialOk
  <2>2. TypeOK'
    BY <1>4 DEF DialOk
  <2>3. RoutinesInv'
    BY <1>4, <2>1 DEF DialOk
  <2>4. WindowInv' /\ SlotAccounting'
    BY <1>4, <2>1 DEF DialOk
  <2> QED
    BY <2>2, <2>3, <2>4
<1>5. ASSUME NEW f \in BOOLEAN, AuthFail(f) PROVE SessionInv'
  <2>1. writer = "none" /\ writer' = "none" /\ run' = "setup" /\ ws' = "nil"
    BY <1>5 DEF AuthFail
  <2>2. TypeOK'
    BY <1>5 DEF AuthFail
  <2>3. RoutinesInv'
    BY <1>5, <2>1 DEF AuthFail
  <2>4. WindowInv' /\ SlotAccounting'
    BY <1>5, <2>1 DEF AuthFail
  <2> QED
    BY <2>2, <2>3, <2>4
<1>6. CASE Spawn
  <2>1. breaker' \in {"none", "on", "done"} /\ writer' = "ping" /\ run' = "read"
    BY <1>6 DEF Spawn
  <2>2. TypeOK'
    BY <1>6, <2>1 DEF Spawn
  <2>3. RoutinesInv'
    BY <1>6, <2>1 DEF Spawn
  <2>4. WindowInv' /\ SlotAccounting'
    BY <1>6, <2>1 DEF Spawn
  <2> QED
    BY <2>2, <2>3, <2>4
<1>7. CASE Drained
  BY <1>7 DEF Drained
<1>8. CASE NextMessage
  BY <1>8 DEF NextMessage
<1>9. ASSUME NEW state \in {"broken", "closed"}, ReadFail(state) PROVE SessionInv'
  BY <1>9 DEF ReadFail, ReadDone
<1>10. CASE Unreadable
  BY <1>10 DEF Unreadable, ReadDone
<1>11. ASSUME NEW g \in Grants, GotFlow(g) PROVE SessionInv'
  BY <1>11 DEF GotFlow
<1>12. CASE GotRequest
  BY <1>12 DEF GotRequest
<1>13. CASE HandleCancelled
  BY <1>13 DEF HandleCancelled, ReadDone
<1>14. CASE DeliverCancelled
  BY <1>14 DEF DeliverCancelled
<1>15. ASSUME NEW r \in BOOLEAN, SlotAcquired(r) PROVE SessionInv'
  BY <1>15 DEF SlotAcquired, Handle
<1>16. ASSUME NEW r \in BOOLEAN, SlotTimeout(r) PROVE SessionInv'
  BY <1>16 DEF SlotTimeout, Handle
<1>17. CASE Release
  BY <1>17 DEF Release
<1>18. CASE ReplyCancelled
  BY <1>18 DEF ReplyCancelled
<1>19. CASE PingOk
  BY <1>19 DEF PingOk, WindowStart
<1>20. CASE PingFail
  BY <1>20 DEF PingFail, Dead
<1>21. CASE FlowTimeout
  BY <1>21 DEF FlowTimeout
<1>22. CASE WriterCancelled
  BY <1>22 DEF WriterCancelled
<1>23. CASE FlowReceived
  BY <1>23 DEF FlowReceived, Written, WindowOpen, CreditMin, Entitled
<1>24. ASSUME NEW n \in Sizes, WriteReply(n) PROVE SessionInv'
  BY <1>24 DEF WriteReply, WriteMessage, Written, WindowOpen
<1>25. ASSUME NEW n \in Sizes, WriteLocal(n) PROVE SessionInv'
  BY <1>25 DEF WriteLocal, WriteMessage, Written, WindowOpen
<1>26. CASE WriteFail
  BY <1>26 DEF WriteFail, Dead
<1>27. CASE WriterClose
  BY <1>27 DEF WriterClose
<1>28. CASE WriterCancel
  BY <1>28 DEF WriterCancel
<1>29. CASE BreakerFire
  BY <1>29 DEF BreakerFire
<1>30. CASE BreakerCancelled
  BY <1>30 DEF BreakerCancelled
<1>31. CASE PeerBreaks
  BY <1>31 DEF PeerBreaks
<1>32. CASE ToggleRead
  BY <1>32 DEF ToggleRead
<1>33. CASE ToggleCall
  BY <1>33 DEF ToggleCall
<1>34. CASE UNCHANGED vars
  BY <1>34 DEF vars
<1>35. QED
  BY <1>1, <1>2, <1>3, <1>4, <1>5, <1>6, <1>7, <1>8, <1>9, <1>10, <1>11, <1>12, <1>13, <1>14, <1>15, <1>16, <1>17, <1>18, <1>19, <1>20, <1>21, <1>22, <1>23, <1>24, <1>25, <1>26, <1>27, <1>28, <1>29, <1>30, <1>31, <1>32, <1>33, <1>34
  DEF Next, RunNext, ReadNext, HandlerNext, WriterNext, OtherNext

LEMMA Inductive == SafeSpec => []SessionInv
BY InitInv, NextInv, PTL DEF SafeSpec

----------------------------------------------------------------------------

\* The variables of the connection keep their types in every reachable state,
\* whatever windows, sizes, limits and backoffs are chosen.
THEOREM TypeCorrect == Spec => []TypeOK
<1>1. SessionInv => TypeOK
  BY DEF SessionInv
<1> QED
  BY <1>1, Inductive, PTL DEF Spec

\* run replaces the fields of a session only when writeLoop and disconnectLoop
\* have returned, the websocket is closed and the context is cancelled.
THEOREM SetupIsClean == Spec => []CleanSlate
<1>1. SessionInv => CleanSlate
  BY DEF SessionInv, TypeOK, RoutinesInv, CleanSlate
<1> QED
  BY <1>1, Inductive, PTL DEF Spec

\* writeLoop never writes a message the cloud has not granted, for all windows
\* the cloud may grant and all sizes the device may send.
THEOREM CreditIsRespected == Spec => []CreditRespected
<1>1. SessionInv => CreditRespected
  BY DEF SessionInv, WindowInv, CreditRespected
<1> QED
  BY <1>1, Inductive, PTL DEF Spec

\* Running handlers are the taken slots plus the handlers that timed out
\* waiting for one, for every capacity of the handler channel.
THEOREM SlotsAccounted == Spec => []SlotAccounting
<1>1. SessionInv => SlotAccounting
  BY DEF SessionInv
<1> QED
  BY <1>1, Inductive, PTL DEF Spec

----------------------------------------------------------------------------
(* Session implements the safety part of Link. *)

\* The steps that Link sees as its own or as a stutter when a goroutine may
\* have left, the websocket broken or the context ended.
LEMMA LinkStutter ==
  ASSUME UNCHANGED <<LinkPhase, LinkRoutines>>
  PROVE  [L!Next]_(L!vars)
BY DEF L!vars

\* A session that stays between Spawn and Drained can only close.
LEMMA LinkCloses ==
  ASSUME LinkPhase \in {"up", "closing"}, LinkPhase' = "closing",
         LinkRoutines' \subseteq LinkRoutines
  PROVE  [L!Next]_(L!vars)
BY DEF L!vars, L!Next, L!Break, L!Leave

LEMMA LinkStep == SessionInv /\ [Next]_vars => [L!Next]_(L!vars)
<1> SUFFICES ASSUME SessionInv, [Next]_vars PROVE [L!Next]_(L!vars)
  OBVIOUS
<1> USE DEF SessionInv, TypeOK, RoutinesInv, Reading, Online, LinkPhase,
        LinkRoutines, loopVars, dialVars, wireVars, writeVars, flowVars,
        handlerVars

<1>1. CASE Setup
  BY <1>1, LinkStutter DEF Setup
<1>2. CASE WakeUp
  BY <1>2, LinkStutter DEF WakeUp
<1>3. ASSUME NEW b \in Backoffs \cup {0}, NEW s \in {"NotConnected", "Rejected"}, DialFail(b, s)
  PROVE  [L!Next]_(L!vars)
  BY <1>3, LinkStutter DEF DialFail
<1>4. ASSUME NEW f \in BOOLEAN, DialOk(f)
  PROVE  [L!Next]_(L!vars)
  BY <1>4, LinkStutter DEF DialOk
<1>5. ASSUME NEW f \in BOOLEAN, AuthFail(f)
  PROVE  [L!Next]_(L!vars)
  BY <1>5, LinkStutter DEF AuthFail
<1>6. CASE Spawn
  <2>1. LinkPhase = "down" /\ LinkRoutines = {}
    BY <1>6 DEF Spawn
  <2>2. LinkPhase' \in {"up", "closing"}
    BY <1>6 DEF Spawn
  <2>3. LinkRoutines' \in {{"reader", "writer"}, {"reader", "writer", "breaker"}}
    BY <1>6 DEF Spawn
  <2> QED
    BY <2>1, <2>2, <2>3 DEF L!Next, L!Open
<1>7. CASE Drained
  <2>1. LinkPhase = "closing" /\ LinkRoutines = {}
    BY <1>7 DEF Drained
  <2>2. LinkPhase' = "down" /\ LinkRoutines' = {}
    BY <1>7 DEF Drained
  <2> QED
    BY <2>1, <2>2 DEF L!Next, L!Close
<1>8. CASE NextMessage
  BY <1>8, LinkStutter DEF NextMessage
<1>9. ASSUME NEW state \in {"broken", "closed"}, ReadFail(state)
  PROVE  [L!Next]_(L!vars)
  <2>1. LinkPhase \in {"up", "closing"} /\ LinkPhase' = "closing"
    BY <1>9 DEF ReadFail, ReadDone
  <2>2. LinkRoutines' \subseteq LinkRoutines
    BY <1>9 DEF ReadFail, ReadDone
  <2> QED
    BY <2>1, <2>2, LinkCloses
<1>10. CASE Unreadable
  <2>1. LinkPhase \in {"up", "closing"} /\ LinkPhase' = "closing"
    BY <1>10 DEF Unreadable, ReadDone
  <2>2. LinkRoutines' \subseteq LinkRoutines
    BY <1>10 DEF Unreadable, ReadDone
  <2> QED
    BY <2>1, <2>2, LinkCloses
<1>11. ASSUME NEW g \in Grants, GotFlow(g)
  PROVE  [L!Next]_(L!vars)
  BY <1>11, LinkStutter DEF GotFlow
<1>12. CASE GotRequest
  BY <1>12, LinkStutter DEF GotRequest
<1>13. CASE HandleCancelled
  <2>1. LinkPhase \in {"up", "closing"} /\ LinkPhase' = "closing"
    BY <1>13 DEF HandleCancelled, ReadDone
  <2>2. LinkRoutines' \subseteq LinkRoutines
    BY <1>13 DEF HandleCancelled, ReadDone
  <2> QED
    BY <2>1, <2>2, LinkCloses
<1>14. CASE DeliverCancelled
  BY <1>14, LinkStutter DEF DeliverCancelled
<1>15. ASSUME NEW r \in BOOLEAN, SlotAcquired(r)
  PROVE  [L!Next]_(L!vars)
  BY <1>15, LinkStutter DEF SlotAcquired, Handle
<1>16. ASSUME NEW r \in BOOLEAN, SlotTimeout(r)
  PROVE  [L!Next]_(L!vars)
  BY <1>16, LinkStutter DEF SlotTimeout, Handle
<1>17. CASE Release
  BY <1>17, LinkStutter DEF Release
<1>18. CASE ReplyCancelled
  BY <1>18, LinkStutter DEF ReplyCancelled
<1>19. CASE PingOk
  BY <1>19, LinkStutter DEF PingOk, WindowStart
<1>20. CASE PingFail
  BY <1>20, LinkStutter DEF PingFail
<1>21. CASE FlowTimeout
  BY <1>21, LinkStutter DEF FlowTimeout
<1>22. CASE WriterCancelled
  BY <1>22, LinkStutter DEF WriterCancelled
<1>23. CASE FlowReceived
  BY <1>23, LinkStutter DEF FlowReceived, Written
<1>24. ASSUME NEW n \in Sizes, WriteReply(n)
  PROVE  [L!Next]_(L!vars)
  BY <1>24, LinkStutter DEF WriteReply, WriteMessage, Written
<1>25. ASSUME NEW n \in Sizes, WriteLocal(n)
  PROVE  [L!Next]_(L!vars)
  BY <1>25, LinkStutter DEF WriteLocal, WriteMessage, Written
<1>26. CASE WriteFail
  BY <1>26, LinkStutter DEF WriteFail
<1>27. CASE WriterClose
  <2>1. LinkRoutines' = LinkRoutines
    BY <1>27 DEF WriterClose
  <2>2. \/ LinkPhase' = LinkPhase
        \/ LinkPhase \in {"up", "closing"} /\ LinkPhase' = "closing"
    BY <1>27 DEF WriterClose
  <2> QED
    BY <2>1, <2>2, LinkCloses, LinkStutter
<1>28. CASE WriterCancel
  <2>1. LinkPhase \in {"up", "closing"} /\ LinkPhase' = "closing"
    BY <1>28 DEF WriterCancel
  <2>2. LinkRoutines' \subseteq LinkRoutines
    BY <1>28 DEF WriterCancel
  <2> QED
    BY <2>1, <2>2, LinkCloses
<1>29. CASE BreakerFire
  <2>1. LinkPhase \in {"up", "closing"} /\ LinkPhase' = "closing"
    BY <1>29 DEF BreakerFire
  <2>2. LinkRoutines' \subseteq LinkRoutines
    BY <1>29 DEF BreakerFire
  <2> QED
    BY <2>1, <2>2, LinkCloses
<1>30. CASE BreakerCancelled
  <2>1. LinkPhase \in {"up", "closing"} /\ LinkPhase' = "closing"
    BY <1>30 DEF BreakerCancelled
  <2>2. LinkRoutines' \subseteq LinkRoutines
    BY <1>30 DEF BreakerCancelled
  <2> QED
    BY <2>1, <2>2, LinkCloses
<1>31. CASE PeerBreaks
  <2>1. LinkRoutines' = LinkRoutines
    BY <1>31 DEF PeerBreaks
  <2>2. \/ LinkPhase' = LinkPhase
        \/ LinkPhase \in {"up", "closing"} /\ LinkPhase' = "closing"
    BY <1>31 DEF PeerBreaks
  <2> QED
    BY <2>1, <2>2, LinkCloses, LinkStutter
<1>32. CASE ToggleRead
  BY <1>32, LinkStutter DEF ToggleRead
<1>33. CASE ToggleCall
  <2>1. LinkRoutines' = LinkRoutines
    BY <1>33 DEF ToggleCall
  <2>2. \/ LinkPhase' = LinkPhase
        \/ LinkPhase \in {"up", "closing"} /\ LinkPhase' = "closing"
    BY <1>33 DEF ToggleCall
  <2> QED
    BY <2>1, <2>2, LinkCloses, LinkStutter
<1>34. CASE UNCHANGED vars
  BY <1>34, LinkStutter DEF vars
<1>35. QED
  BY <1>1, <1>2, <1>3, <1>4, <1>5, <1>6, <1>7, <1>8, <1>9, <1>10, <1>11, <1>12,
     <1>13, <1>14, <1>15, <1>16, <1>17, <1>18, <1>19, <1>20, <1>21, <1>22,
     <1>23, <1>24, <1>25, <1>26, <1>27, <1>28, <1>29, <1>30, <1>31, <1>32,
     <1>33, <1>34
  DEF Next, RunNext, ReadNext, HandlerNext, WriterNext, OtherNext

\* The initial states and every step of the connection are those of Link: it
\* opens with no goroutine left over and its goroutines leave before it is down.
THEOREM SafelyImplementsLink == Spec => L!Safety
<1>1. Init => L!Init
  BY DEF Init, L!Init, LinkPhase, LinkRoutines, Online, Reading
<1> QED
  BY <1>1, Inductive, LinkStep, PTL DEF Spec, SafeSpec, L!Safety

(***************************************************************************)
(* Registry: the invariant.                                                *)
(***************************************************************************)
\* Types, without the bounds that have to be counted.
PlainTypes ==
  /\ spawner \in {"load", "restore", "spawn", "done"}
  /\ spawned \in Nat
  /\ todo \subseteq Records
  /\ exists \subseteq Objects

PlainCloud ==
  /\ storage \subseteq Records
  /\ regs \in 0 .. MaxRegs /\ tops \in Nat /\ lost \in Nat
  /\ unread \in Nat /\ crashes \in 0 .. MaxCrashes /\ controls \in 0 .. MaxCloud

\* A deviceConnector that is not in use has nothing, and while the stored
\* records are loaded none is.
Unused ==
  /\ \A g \in Starts : g[1] \notin exists => at[g] = "none"
  /\ \A o \in Objects : o \notin exists =>
       id[o] = None /\ parent[o] = None /\ parentId[o] = None
Loading == spawner = "load" => exists = {} /\ spawned = 0

\* A parent has an identity, and so has a device that was restored; a device
\* that is a child or started twice has a parent.
ParentKnown == \A o \in Objects : parent[o] # None => id[parent[o]] # None
RestoredKnown == \A o \in Objects : parentId[o] # None => id[o] # None
Kin ==
  /\ \A o, p \in Objects : o \in children[p] => parent[o] # None
  /\ \A g \in Starts : g[2] = 2 /\ at[g] # "none" => parent[g[1]] # None

\* What is known at each place of start.
Identified == \A g \in Starts :
  at[g] \in {"write", "list", "connect", "started"} => id[g[1]] # None
Waiting == \A g \in Starts : at[g] = "parent" => ParentIdOf(g[1]) # None
TopsPlain == \A g \in Starts :
  at[g] \in {"register", "write"} /\ parent[g[1]] = None => parentId[g[1]] = None

\* A device with an identity or that registers has a key; one that is listed has an identity.
Keyed ==
  /\ \A o \in Objects : id[o] # None => o \in hasKey
  /\ \A g \in Starts : at[g] = "register" => g[1] \in hasKey
ListedKnown == \A i \in Ids : emulators[i] # None => id[emulators[i]] # None

\* Every handler at work has a device that has an identity.
Handled == \A h \in Handlers :
  \/ ctl[h] = Idle
  \/ /\ ctl[h].at \in {"id", "rename"}
     /\ ctl[h].obj \in Objects /\ id[ctl[h].obj] # None
     /\ ctl[h].new \in Ids
     /\ IF ctl[h].at = "rename" THEN ctl[h].old \in Ids ELSE ctl[h].old = None

\* All keys are those of registrations, and no key of a record without a parent
\* is written again.
KeysKnown ==
  /\ \A g \in Starts : access[g] # None => access[g] <= regs
  /\ \A r \in storage \cup todo : r.key <= regs
KeysApart == \A g \in Starts : at[g] = "write" =>
  /\ access[g] # None
  /\ \A r \in storage : r.parent = None => r.key # access[g]
  /\ \A k \in Starts : at[k] = "write" /\ k # g => access[k] # access[g]

\* The registrations of a device: that of its identity, and those of the
\* identities that its handlers hold.
Bears(o, n) ==
  \/ id[o] # None /\ id[o][1] = n
  \/ \E h \in Handlers :
       /\ ctl[h].obj = o
       /\ ctl[h].new[1] = n \/ (ctl[h].at = "rename" /\ ctl[h].old[1] = n)

\* It has one registration.
Single(o) == \A m, n \in Regs : Bears(o, m) /\ Bears(o, n) => m = n

\* No other device has one of its registrations, or will have when restored.
Own(o) == \A n \in Regs : Bears(o, n) =>
  /\ \A p \in Objects \ {o} : ~Bears(p, n)
  /\ \A r \in todo : r.moid[1] # n

Origins ==
  /\ \A o \in Objects : Single(o) \/ Own(o)
  /\ \A g \in Starts : at[g] = "register" => Own(g[1])

NumbersKnown ==
  /\ \A o \in Objects, n \in Regs : Bears(o, n) => n <= regs
  /\ \A r \in storage \cup todo : r.moid[1] <= regs

Alone(o) == \A p \in Objects \ {o} : id[p] # None => id[p][1] # id[o][1]

\* Findable, from the time on that the device is listed.
Enrolled == \A o \in Objects :
  /\ \E g \in Starts : g[1] = o /\ at[g] \in {"connect", "started"}
  /\ \A g \in Starts : g[1] = o => at[g] \notin {"write", "list"}
  /\ Alone(o)
  => emulators[id[o]] = o

\* The records of devices that have no parent.
StoredTops == {r \in storage : r.parent = None}

\* The starts of such devices that are to be stored, and that are to register.
Writing == {g \in Starts : at[g] = "write" /\ parent[g[1]] = None}
Fresh == {g \in Starts :
  /\ parent[g[1]] = None
  /\ at[g] = "register" \/ (at[g] \in {"spawned", "parent", "key"} /\ id[g[1]] = None)}

\* A bound on the devices that StartEmulators has yet to start anew.
Remaining(n) ==
  /\ spawner \in {"load", "done"} => n = 0
  /\ spawner = "spawn" => n >= Connections - spawned
  /\ spawner = "restore" => n >= Connections - spawned - Cardinality(todo)

Finite ==
  /\ IsFiniteSet(storage) /\ IsFiniteSet(todo)
  /\ spawned <= Cardinality(exists)
TopsCounted ==
  /\ tops <= regs
  /\ tops = Cardinality(StoredTops) + Cardinality(Writing) + lost
UnreadBound == unread <= crashes + (IF spawner = "load" THEN 0 ELSE 1)
Allowance == \E n \in Nat :
  /\ Remaining(n)
  /\ Cardinality(StoredTops) + Cardinality(Writing) + Cardinality(Fresh) + n
       <= Connections * (unread + 1)

RegInv ==
  /\ PlainTypes /\ StartTypes /\ FamilyTypes /\ ListTypes /\ PlainCloud
  /\ Unused /\ Loading /\ ParentKnown /\ RestoredKnown /\ Kin
  /\ Identified /\ Waiting /\ TopsPlain /\ Keyed /\ ListedKnown /\ Handled
  /\ KeysKnown /\ KeysApart /\ Origins /\ NumbersKnown /\ Enrolled
  /\ Finite /\ TopsCounted /\ UnreadBound /\ Allowance

(***************************************************************************)
(* Registry: the steps, and the types.                                     *)
(***************************************************************************)

LEMMA Gone == ASSUME at \in [Starts -> Labels], NEW g \in Starts, NEW l \in Labels, Goto(g, l)
  PROVE /\ at' \in [Starts -> Labels] /\ at'[g] = l
        /\ \A k \in Starts : k # g => at'[k] = at[k]
  BY DEF Goto

LEMMA Places == {"none", "spawned", "parent", "key", "register", "write", "list", "connect",
           "started"} \subseteq Labels
  BY DEF Labels

LEMMA StartOf == \A o \in Objects : <<o, 1>> \in Starts /\ <<o, 2>> \in Starts
  BY DEF Starts

LEMMA ObjectOf == \A g \in Starts :
  /\ g[1] \in Objects
  /\ (g = <<g[1], 1>> /\ g[2] = 1) \/ (g = <<g[1], 2>> /\ g[2] = 2)
  BY DEF Starts

LEMMA NoneApart == None \notin Objects /\ None \notin Ids /\ None \notin Regs
  BY RegistryAssumption DEF Objects, Ids, Regs

LEMMA NumberOf == \A i \in Ids : i[1] \in Regs
  BY DEF Ids

LEMMA StartsFinite == IsFiniteSet(Starts)
<1>1. IsFiniteSet(Objects)
  BY FS_Interval, RegistryAssumption DEF Objects
<1>2. IsFiniteSet({1, 2})
  <2>1. {1, 2} = 1 .. 2
    OBVIOUS
  <2> QED
    BY <2>1, FS_Interval, 1 \in Int, 2 \in Int
<1> QED
  BY <1>1, <1>2, FS_Product DEF Starts

LEMMA RGSteps == [RGNext]_rgVars =>
  \/ Load
  \/ Restored
  \/ Spawned
  \/ \E o \in Objects, r \in todo : Restore(o, r)
  \/ \E o \in Objects : SpawnNew(o)
  \/ \E g \in Starts : Begin(g)
  \/ \E g \in Starts : ParentFound(g)
  \/ \E g \in Starts : Key(g)
  \/ \E g \in Starts : Registers(g)
  \/ \E g \in Starts : Write(g)
  \/ \E g \in Starts : List(g)
  \/ \E g \in Starts : Connect(g)
  \/ \E o \in Objects : Token(o)
  \/ \E o \in Objects, c \in Objects : PrepInvEvents(o, c)
  \/ \E o \in Objects, g \in Starts : StartChildDc(o, g)
  \/ \E h \in Handlers, o \in Objects, i \in Ids : Control(h, o, i)
  \/ \E h \in Handlers : CheckId(h)
  \/ \E h \in Handlers : Rename(h)
  \/ GetEmulatorTokens
  \/ Crash
  \/ UNCHANGED rgVars
  BY Zenon DEF RGNext, Spawner, Start, Starts

LEMMA PlainTypesStep == RegInv /\ [RGNext]_rgVars => PlainTypes'
<1> SUFFICES ASSUME RegInv, [RGNext]_rgVars PROVE PlainTypes'
  OBVIOUS
<1> USE DEF RegInv, PlainTypes, PlainCloud, SpawnDevice, Goto, spawnVars, familyVars,
            identityVars, cloudVars
<1>1. CASE Load
  BY <1>1 DEF Load
<1>2. CASE Restored
  BY <1>2 DEF Restored
<1>3. CASE Spawned
  BY <1>3 DEF Spawned
<1>4. ASSUME NEW o \in Objects, NEW r \in todo, Restore(o, r) PROVE PlainTypes'
  BY <1>4 DEF Restore
<1>5. ASSUME NEW o \in Objects, SpawnNew(o) PROVE PlainTypes'
  BY <1>5 DEF SpawnNew
<1>6. ASSUME NEW g \in Starts, Begin(g) PROVE PlainTypes'
  BY <1>6 DEF Begin
<1>7. ASSUME NEW g \in Starts, ParentFound(g) PROVE PlainTypes'
  BY <1>7 DEF ParentFound
<1>8. ASSUME NEW g \in Starts, Key(g) PROVE PlainTypes'
  BY <1>8 DEF Key
<1>9. ASSUME NEW g \in Starts, Registers(g) PROVE PlainTypes'
  BY <1>9 DEF Registers
<1>10. ASSUME NEW g \in Starts, Write(g) PROVE PlainTypes'
  BY <1>10 DEF Write
<1>11. ASSUME NEW g \in Starts, List(g) PROVE PlainTypes'
  BY <1>11 DEF List
<1>12. ASSUME NEW g \in Starts, Connect(g) PROVE PlainTypes'
  BY <1>12 DEF Connect
<1>13. ASSUME NEW o \in Objects, Token(o) PROVE PlainTypes'
  BY <1>13 DEF Token
<1>14. ASSUME NEW o \in Objects, NEW c \in Objects, PrepInvEvents(o, c) PROVE PlainTypes'
  BY <1>14 DEF PrepInvEvents
<1>15. ASSUME NEW o \in Objects, NEW g \in Starts, StartChildDc(o, g) PROVE PlainTypes'
  BY <1>15 DEF StartChildDc
<1>16. ASSUME NEW h \in Handlers, NEW o \in Objects, NEW i \in Ids, Control(h, o, i)
       PROVE PlainTypes'
  BY <1>16 DEF Control
<1>17. ASSUME NEW h \in Handlers, CheckId(h) PROVE PlainTypes'
  BY <1>17 DEF CheckId
<1>18. ASSUME NEW h \in Handlers, Rename(h) PROVE PlainTypes'
  BY <1>18 DEF Rename
<1>19. CASE GetEmulatorTokens
  BY <1>19 DEF GetEmulatorTokens
<1>20. CASE Crash
  BY <1>20 DEF Crash
<1>21. CASE UNCHANGED rgVars
  BY <1>21 DEF rgVars
<1> QED
  BY Zenon, RGSteps, <1>1, <1>2, <1>3, <1>4, <1>5, <1>6, <1>7, <1>8, <1>9, <1>10, <1>11,
     <1>12, <1>13, <1>14, <1>15, <1>16, <1>17, <1>18, <1>19, <1>20, <1>21

LEMMA StartTypesStep == RegInv /\ [RGNext]_rgVars => StartTypes'
<1> SUFFICES ASSUME RegInv, [RGNext]_rgVars PROVE StartTypes'
  OBVIOUS
<1> USE DEF RegInv, StartTypes, SpawnDevice, Goto, spawnVars, familyVars, identityVars,
            cloudVars
<1>1. CASE Load
  BY <1>1 DEF Load
<1>2. CASE Restored
  BY <1>2 DEF Restored
<1>3. CASE Spawned
  BY <1>3 DEF Spawned
<1>4. ASSUME NEW o \in Objects, NEW r \in todo, Restore(o, r) PROVE StartTypes'
  <2>1. at' \in [Starts -> Labels]
    BY <1>4, StartOf DEF RegInv, StartTypes, Restore, SpawnDevice, Labels
  <2>2. r.moid \in Ids
    BY <1>4 DEF RegInv, PlainTypes, Records
  <2> QED
    BY <1>4, <2>1, <2>2 DEF RegInv, StartTypes, Restore
<1>5. ASSUME NEW o \in Objects, SpawnNew(o) PROVE StartTypes'
  BY <1>5, StartOf DEF RegInv, StartTypes, Labels, SpawnNew, SpawnDevice, identityVars
<1>6. ASSUME NEW g \in Starts, Begin(g) PROVE StartTypes'
  BY <1>6, Gone, Places DEF RegInv, StartTypes, identityVars, Begin
<1>7. ASSUME NEW g \in Starts, ParentFound(g) PROVE StartTypes'
  BY <1>7, Gone, Places DEF RegInv, StartTypes, identityVars, ParentFound
<1>8. ASSUME NEW g \in Starts, Key(g) PROVE StartTypes'
  <2>1. at' \in [Starts -> Labels]
    BY <1>8, Gone, Places DEF RegInv, StartTypes, Key
  <2>2. hasKey' \subseteq Objects
    BY <1>8, ObjectOf DEF RegInv, StartTypes, Key
  <2> QED
    BY <1>8, <2>1, <2>2 DEF RegInv, StartTypes, Key
<1>9. ASSUME NEW g \in Starts, Registers(g) PROVE StartTypes'
  <2>1. at' \in [Starts -> Labels]
    BY <1>9, Gone, Places DEF RegInv, StartTypes, Registers
  <2>2. regs' \in Regs /\ <<regs', 1>> \in Ids
    BY <1>9, RegistryAssumption DEF RegInv, PlainCloud, Registers, NoMore, Regs, Ids
  <2> QED
    BY <1>9, <2>1, <2>2, ObjectOf DEF RegInv, StartTypes, Registers
<1>10. ASSUME NEW g \in Starts, Write(g) PROVE StartTypes'
  BY <1>10, Gone, Places DEF RegInv, StartTypes, identityVars, Write
<1>11. ASSUME NEW g \in Starts, List(g) PROVE StartTypes'
  BY <1>11, Gone, Places DEF RegInv, StartTypes, identityVars, List
<1>12. ASSUME NEW g \in Starts, Connect(g) PROVE StartTypes'
  BY <1>12, Gone, Places DEF RegInv, StartTypes, identityVars, Connect
<1>13. ASSUME NEW o \in Objects, Token(o) PROVE StartTypes'
  BY <1>13 DEF Token
<1>14. ASSUME NEW o \in Objects, NEW c \in Objects, PrepInvEvents(o, c) PROVE StartTypes'
  BY <1>14 DEF PrepInvEvents
<1>15. ASSUME NEW o \in Objects, NEW g \in Starts, StartChildDc(o, g) PROVE StartTypes'
  BY <1>15, Gone, Places DEF RegInv, StartTypes, identityVars, StartChildDc
<1>16. ASSUME NEW h \in Handlers, NEW o \in Objects, NEW i \in Ids, Control(h, o, i)
       PROVE StartTypes'
  BY <1>16 DEF Control
<1>17. ASSUME NEW h \in Handlers, CheckId(h) PROVE StartTypes'
  BY <1>17 DEF CheckId
<1>18. ASSUME NEW h \in Handlers, Rename(h) PROVE StartTypes'
  BY <1>18 DEF RegInv, StartTypes, Rename, Handled, Idle
<1>19. CASE GetEmulatorTokens
  BY <1>19 DEF GetEmulatorTokens
<1>20. CASE Crash
  BY <1>20 DEF RegInv, StartTypes, Crash, Labels
<1>21. CASE UNCHANGED rgVars
  BY <1>21 DEF rgVars
<1> QED
  BY Zenon, RGSteps, <1>1, <1>2, <1>3, <1>4, <1>5, <1>6, <1>7, <1>8, <1>9, <1>10, <1>11,
     <1>12, <1>13, <1>14, <1>15, <1>16, <1>17, <1>18, <1>19, <1>20, <1>21

LEMMA FamilyTypesStep == RegInv /\ [RGNext]_rgVars => FamilyTypes'
<1> SUFFICES ASSUME RegInv, [RGNext]_rgVars PROVE FamilyTypes'
  OBVIOUS
<1> USE DEF RegInv, FamilyTypes, SpawnDevice, Goto, spawnVars, familyVars, identityVars,
            cloudVars
<1>1. CASE Load
  BY <1>1 DEF Load
<1>2. CASE Restored
  BY <1>2 DEF Restored
<1>3. CASE Spawned
  BY <1>3 DEF Spawned
<1>4. ASSUME NEW o \in Objects, NEW r \in todo, Restore(o, r) PROVE FamilyTypes'
  BY <1>4 DEF RegInv, PlainTypes, FamilyTypes, Records, Restore
<1>5. ASSUME NEW o \in Objects, SpawnNew(o) PROVE FamilyTypes'
  BY <1>5 DEF SpawnNew
<1>6. ASSUME NEW g \in Starts, Begin(g) PROVE FamilyTypes'
  BY <1>6 DEF Begin
<1>7. ASSUME NEW g \in Starts, ParentFound(g) PROVE FamilyTypes'
  <2>1. g[1] \in Objects
    BY <1>7, ObjectOf
  <2>2. emulators[ParentIdOf(g[1])] \in Objects
    BY <1>7, <2>1 DEF RegInv, StartTypes, FamilyTypes, ListTypes, ParentFound, ParentIdOf
  <2> QED
    BY <1>7, <2>1, <2>2 DEF RegInv, FamilyTypes, ParentFound
<1>8. ASSUME NEW g \in Starts, Key(g) PROVE FamilyTypes'
  BY <1>8 DEF Key
<1>9. ASSUME NEW g \in Starts, Registers(g) PROVE FamilyTypes'
  BY <1>9 DEF Registers
<1>10. ASSUME NEW g \in Starts, Write(g) PROVE FamilyTypes'
  BY <1>10 DEF Write
<1>11. ASSUME NEW g \in Starts, List(g) PROVE FamilyTypes'
  BY <1>11 DEF List
<1>12. ASSUME NEW g \in Starts, Connect(g) PROVE FamilyTypes'
  BY <1>12 DEF Connect
<1>13. ASSUME NEW o \in Objects, Token(o) PROVE FamilyTypes'
  BY <1>13 DEF Token
<1>14. ASSUME NEW o \in Objects, NEW c \in Objects, PrepInvEvents(o, c) PROVE FamilyTypes'
  BY <1>14 DEF PrepInvEvents
<1>15. ASSUME NEW o \in Objects, NEW g \in Starts, StartChildDc(o, g) PROVE FamilyTypes'
  BY <1>15 DEF StartChildDc
<1>16. ASSUME NEW h \in Handlers, NEW o \in Objects, NEW i \in Ids, Control(h, o, i)
       PROVE FamilyTypes'
  BY <1>16 DEF Control
<1>17. ASSUME NEW h \in Handlers, CheckId(h) PROVE FamilyTypes'
  BY <1>17 DEF CheckId
<1>18. ASSUME NEW h \in Handlers, Rename(h) PROVE FamilyTypes'
  BY <1>18 DEF Rename
<1>19. CASE GetEmulatorTokens
  BY <1>19 DEF GetEmulatorTokens
<1>20. CASE Crash
  BY <1>20 DEF Crash
<1>21. CASE UNCHANGED rgVars
  BY <1>21 DEF rgVars
<1> QED
  BY Zenon, RGSteps, <1>1, <1>2, <1>3, <1>4, <1>5, <1>6, <1>7, <1>8, <1>9, <1>10, <1>11,
     <1>12, <1>13, <1>14, <1>15, <1>16, <1>17, <1>18, <1>19, <1>20, <1>21

LEMMA ListTypesStep == RegInv /\ [RGNext]_rgVars => ListTypes'
<1> SUFFICES ASSUME RegInv, [RGNext]_rgVars PROVE ListTypes'
  OBVIOUS
<1> USE DEF RegInv, ListTypes, SpawnDevice, Goto, spawnVars, familyVars, identityVars,
            cloudVars
<1>1. CASE Load
  BY <1>1 DEF Load
<1>2. CASE Restored
  BY <1>2 DEF Restored
<1>3. CASE Spawned
  BY <1>3 DEF Spawned
<1>4. ASSUME NEW o \in Objects, NEW r \in todo, Restore(o, r) PROVE ListTypes'
  BY <1>4 DEF Restore
<1>5. ASSUME NEW o \in Objects, SpawnNew(o) PROVE ListTypes'
  BY <1>5 DEF SpawnNew
<1>6. ASSUME NEW g \in Starts, Begin(g) PROVE ListTypes'
  BY <1>6 DEF Begin
<1>7. ASSUME NEW g \in Starts, ParentFound(g) PROVE ListTypes'
  BY <1>7 DEF ParentFound
<1>8. ASSUME NEW g \in Starts, Key(g) PROVE ListTypes'
  <2>1. g[1] \in Objects /\ id[g[1]] \in Ids \cup {None}
    BY <1>8, ObjectOf DEF RegInv, StartTypes
  <2>2. emulators' \in [Ids \cup {None} -> Objects \cup {None}]
    BY <1>8, <2>1 DEF RegInv, ListTypes, Key
  <2> QED
    BY <1>8, <2>2 DEF RegInv, ListTypes, Key
<1>9. ASSUME NEW g \in Starts, Registers(g) PROVE ListTypes'
  BY <1>9 DEF Registers
<1>10. ASSUME NEW g \in Starts, Write(g) PROVE ListTypes'
  BY <1>10 DEF Write
<1>11. ASSUME NEW g \in Starts, List(g) PROVE ListTypes'
  <2>1. g[1] \in Objects /\ id[g[1]] \in Ids \cup {None}
    BY <1>11, ObjectOf DEF RegInv, StartTypes
  <2>2. emulators' \in [Ids \cup {None} -> Objects \cup {None}]
    BY <1>11, <2>1 DEF RegInv, ListTypes, List
  <2> QED
    BY <1>11, <2>2 DEF RegInv, ListTypes, List
<1>12. ASSUME NEW g \in Starts, Connect(g) PROVE ListTypes'
  BY <1>12 DEF Connect
<1>13. ASSUME NEW o \in Objects, Token(o) PROVE ListTypes'
  BY <1>13 DEF Token
<1>14. ASSUME NEW o \in Objects, NEW c \in Objects, PrepInvEvents(o, c) PROVE ListTypes'
  BY <1>14 DEF PrepInvEvents
<1>15. ASSUME NEW o \in Objects, NEW g \in Starts, StartChildDc(o, g) PROVE ListTypes'
  BY <1>15 DEF StartChildDc
<1>16. ASSUME NEW h \in Handlers, NEW o \in Objects, NEW i \in Ids, Control(h, o, i)
       PROVE ListTypes'
  <2>1. [at |-> "id", obj |-> o, new |-> i, old |-> None] \in Handler
    BY DEF Handler
  <2>2. ctl' \in [Handlers -> Handler]
    BY <1>16, <2>1 DEF RegInv, ListTypes, Control
  <2> QED
    BY <1>16, <2>2 DEF RegInv, ListTypes, Control
<1>17. ASSUME NEW h \in Handlers, CheckId(h) PROVE ListTypes'
  <2>1. Idle \in Handler
    BY DEF Handler, Idle
  <2>2. ctl[h].obj \in Objects /\ ctl[h].new \in Ids
    BY <1>17 DEF RegInv, Handled, CheckId, Idle
  <2>3. id[ctl[h].obj] \in Ids \cup {None}
    BY <2>2 DEF RegInv, StartTypes
  <2>4. [ctl[h] EXCEPT !.at = "rename", !.old = id[ctl[h].obj]] \in Handler
    BY <2>3 DEF RegInv, ListTypes, Handler
  <2>5. ctl' \in [Handlers -> Handler]
    BY <1>17, <2>1, <2>4 DEF RegInv, ListTypes, CheckId
  <2> QED
    BY <1>17, <2>5 DEF RegInv, ListTypes, CheckId
<1>18. ASSUME NEW h \in Handlers, Rename(h) PROVE ListTypes'
  <2>1. Idle \in Handler
    BY DEF Handler, Idle
  <2>2. ctl[h].obj \in Objects /\ ctl[h].new \in Ids /\ ctl[h].old \in Ids
    BY <1>18 DEF RegInv, Handled, Rename, Idle
  <2>3. ctl' \in [Handlers -> Handler]
    BY <1>18, <2>1 DEF RegInv, ListTypes, Rename
  <2>4. emulators' \in [Ids \cup {None} -> Objects \cup {None}]
    BY <1>18, <2>2 DEF RegInv, ListTypes, Rename
  <2> QED
    BY <1>18, <2>3, <2>4 DEF RegInv, ListTypes, Rename
<1>19. CASE GetEmulatorTokens
  BY <1>19 DEF GetEmulatorTokens
<1>20. CASE Crash
  <2>1. Idle \in Handler
    BY DEF Handler, Idle
  <2> QED
    BY <1>20, <2>1 DEF RegInv, ListTypes, Crash
<1>21. CASE UNCHANGED rgVars
  BY <1>21 DEF rgVars
<1> QED
  BY Zenon, RGSteps, <1>1, <1>2, <1>3, <1>4, <1>5, <1>6, <1>7, <1>8, <1>9, <1>10, <1>11,
     <1>12, <1>13, <1>14, <1>15, <1>16, <1>17, <1>18, <1>19, <1>20, <1>21

LEMMA PlainCloudStep == RegInv /\ [RGNext]_rgVars => PlainCloud'
<1> SUFFICES ASSUME RegInv, [RGNext]_rgVars PROVE PlainCloud'
  OBVIOUS
<1> USE DEF RegInv, PlainCloud, SpawnDevice, Goto, spawnVars, familyVars, identityVars,
            cloudVars
<1>1. CASE Load
  BY <1>1 DEF Load
<1>2. CASE Restored
  BY <1>2 DEF Restored
<1>3. CASE Spawned
  BY <1>3 DEF Spawned
<1>4. ASSUME NEW o \in Objects, NEW r \in todo, Restore(o, r) PROVE PlainCloud'
  BY <1>4 DEF Restore
<1>5. ASSUME NEW o \in Objects, SpawnNew(o) PROVE PlainCloud'
  BY <1>5 DEF SpawnNew
<1>6. ASSUME NEW g \in Starts, Begin(g) PROVE PlainCloud'
  BY <1>6 DEF Begin
<1>7. ASSUME NEW g \in Starts, ParentFound(g) PROVE PlainCloud'
  BY <1>7 DEF ParentFound
<1>8. ASSUME NEW g \in Starts, Key(g) PROVE PlainCloud'
  BY <1>8 DEF Key
<1>9. ASSUME NEW g \in Starts, Registers(g) PROVE PlainCloud'
  <2>1. regs' \in 0 .. MaxRegs
    BY <1>9, RegistryAssumption DEF RegInv, PlainCloud, Registers, NoMore
  <2>2. tops' \in Nat
    BY <1>9 DEF RegInv, PlainCloud, Registers
  <2> QED
    BY <1>9, <2>1, <2>2 DEF RegInv, PlainCloud, Registers
<1>10. ASSUME NEW g \in Starts, Write(g) PROVE PlainCloud'
  <2> DEFINE n == [key |-> access[g], moid |-> id[g[1]], parent |-> ParentIdOf(g[1])]
  <2>1. g[1] \in Objects
    BY <1>10, ObjectOf
  <2>2. access[g] \in Regs
    BY <1>10, <2>1 DEF RegInv, StartTypes, KeysApart, Write
  <2>3. id[g[1]] \in Ids
    BY <1>10, <2>1 DEF RegInv, StartTypes, Identified, Write
  <2>4. ParentIdOf(g[1]) \in Ids \cup {None}
    BY <2>1 DEF RegInv, StartTypes, FamilyTypes, ParentIdOf
  <2>5. n \in Records
    BY <2>2, <2>3, <2>4 DEF Records
  <2>6. storage' \subseteq Records
    BY <1>10, <2>5 DEF RegInv, PlainCloud, Write
  <2>7. lost' \in Nat
    BY <1>10 DEF RegInv, PlainCloud, Write
  <2> QED
    BY <1>10, <2>6, <2>7 DEF RegInv, PlainCloud, Write, cloudVars
<1>11. ASSUME NEW g \in Starts, List(g) PROVE PlainCloud'
  BY <1>11 DEF List
<1>12. ASSUME NEW g \in Starts, Connect(g) PROVE PlainCloud'
  BY <1>12 DEF Connect
<1>13. ASSUME NEW o \in Objects, Token(o) PROVE PlainCloud'
  BY <1>13 DEF Token
<1>14. ASSUME NEW o \in Objects, NEW c \in Objects, PrepInvEvents(o, c) PROVE PlainCloud'
  BY <1>14 DEF PrepInvEvents
<1>15. ASSUME NEW o \in Objects, NEW g \in Starts, StartChildDc(o, g) PROVE PlainCloud'
  BY <1>15 DEF StartChildDc
<1>16. ASSUME NEW h \in Handlers, NEW o \in Objects, NEW i \in Ids, Control(h, o, i)
       PROVE PlainCloud'
  <2>1. controls' \in 0 .. MaxCloud
    BY <1>16, RegistryAssumption DEF RegInv, PlainCloud, Control
  <2> QED
    BY <1>16, <2>1 DEF RegInv, PlainCloud, Control, cloudVars
<1>17. ASSUME NEW h \in Handlers, CheckId(h) PROVE PlainCloud'
  BY <1>17 DEF CheckId
<1>18. ASSUME NEW h \in Handlers, Rename(h) PROVE PlainCloud'
  BY <1>18 DEF Rename
<1>19. CASE GetEmulatorTokens
  BY <1>19 DEF GetEmulatorTokens
<1>20. CASE Crash
  <2>1. IsFiniteSet({g \in Starts : at[g] = "write" /\ parent[g[1]] = None})
    BY StartsFinite, FS_Subset
  <2>2. lost' \in Nat
    BY <1>20, <2>1, FS_CardinalityType DEF RegInv, PlainCloud, Crash
  <2>3. crashes' \in 0 .. MaxCrashes
    BY <1>20, RegistryAssumption DEF RegInv, PlainCloud, Crash
  <2> QED
    BY <1>20, <2>2, <2>3 DEF RegInv, PlainCloud, Crash, cloudVars
<1>21. CASE UNCHANGED rgVars
  BY <1>21 DEF rgVars
<1> QED
  BY Zenon, RGSteps, <1>1, <1>2, <1>3, <1>4, <1>5, <1>6, <1>7, <1>8, <1>9, <1>10, <1>11,
     <1>12, <1>13, <1>14, <1>15, <1>16, <1>17, <1>18, <1>19, <1>20, <1>21
(***************************************************************************)
(* Registry: what each action does, element by element.                    *)
(***************************************************************************)
Moves(g) == \A k \in Starts : k # g => at'[k] = at[k]
Spawns(o) ==
  /\ o \notin exists /\ exists' = exists \cup {o}
  /\ \A k \in Starts : k[1] # o => at'[k] = at[k]
  /\ \A k \in Starts : k[1] = o =>
       at[k] = "none" /\ at'[k] = (IF k[2] = 1 THEN "spawned" ELSE "none")
  /\ id[o] = None /\ parent[o] = None /\ parentId[o] = None
SameIds == hasKey' = hasKey /\ id' = id /\ access' = access
SameFamily == parent' = parent /\ parentId' = parentId /\ children' = children
SameStorage == storage' = storage /\ todo' = todo /\ regs' = regs

QuietEffect ==
  /\ exists' = exists /\ at' = at /\ SameIds /\ SameFamily
  /\ emulators' = emulators /\ ctl' = ctl /\ storage' = storage /\ regs' = regs
  /\ todo' = todo \/ (spawner = "load" /\ todo' \subseteq storage)
RestoreEffect(o, r) ==
  /\ Spawns(o)
  /\ r \in todo /\ todo' = todo \ {r} /\ r.moid \in Ids /\ r.moid # None
  /\ hasKey' = hasKey \cup {o}
  /\ id'[o] = r.moid /\ access' = access /\ parentId'[o] = r.parent
  /\ \A p \in Objects : p # o => id'[p] = id[p] /\ parentId'[p] = parentId[p]
  /\ parent' = parent /\ children' = children
  /\ emulators' = emulators /\ ctl' = ctl /\ storage' = storage /\ regs' = regs
SpawnNewEffect(o) ==
  /\ Spawns(o)
  /\ SameIds /\ SameFamily /\ SameStorage /\ emulators' = emulators /\ ctl' = ctl
BeginEffect(g) ==
  /\ exists' = exists /\ Moves(g) /\ at[g] = "spawned"
  /\ at'[g] = (IF ParentIdOf(g[1]) = None THEN "key" ELSE "parent")
  /\ SameIds /\ SameFamily /\ SameStorage /\ emulators' = emulators /\ ctl' = ctl
ParentFoundEffect(g) ==
  /\ exists' = exists /\ Moves(g) /\ at[g] = "parent" /\ at'[g] = "key"
  /\ ParentIdOf(g[1]) \in Ids /\ emulators[ParentIdOf(g[1])] \in Objects
  /\ parent'[g[1]] = emulators[ParentIdOf(g[1])]
  /\ \A p \in Objects : p # g[1] => parent'[p] = parent[p]
  /\ \A p \in Objects : \A c \in children'[p] : c \in children[p] \/ c = g[1]
  /\ parentId' = parentId
  /\ SameIds /\ SameStorage /\ emulators' = emulators /\ ctl' = ctl
KeyEffect(g) ==
  /\ exists' = exists /\ Moves(g) /\ at[g] = "key"
  /\ at'[g] = (IF id[g[1]] = None THEN "register" ELSE "connect")
  /\ hasKey' = hasKey \cup {g[1]}
  /\ g[1] \in hasKey => emulators'[id[g[1]]] = g[1]
  /\ \A i \in Ids : i # id[g[1]] \/ g[1] \notin hasKey => emulators'[i] = emulators[i]
  /\ id' = id /\ access' = access
  /\ SameFamily /\ SameStorage /\ ctl' = ctl
RegistersEffect(g) ==
  /\ exists' = exists /\ Moves(g) /\ at[g] = "register" /\ at'[g] = "write"
  /\ regs' = regs + 1 /\ regs' \in Regs
  /\ id'[g[1]] = <<regs', 1>> /\ id'[g[1]] \in Ids /\ id'[g[1]] # None
  /\ access'[g] = regs'
  /\ \A p \in Objects : p # g[1] => id'[p] = id[p]
  /\ \A k \in Starts : k # g => access'[k] = access[k]
  /\ hasKey' = hasKey /\ storage' = storage /\ todo' = todo
  /\ SameFamily /\ emulators' = emulators /\ ctl' = ctl
WriteEffect(g) ==
  /\ exists' = exists /\ Moves(g) /\ at[g] = "write" /\ at'[g] = "list"
  /\ SameIds /\ SameFamily /\ emulators' = emulators /\ ctl' = ctl
  /\ todo' = todo /\ regs' = regs
  /\ \A r \in storage' : r \in storage \/
       (r.key = access[g] /\ r.moid = id[g[1]] /\ r.parent = ParentIdOf(g[1]))
ListEffect(g) ==
  /\ exists' = exists /\ Moves(g) /\ at[g] = "list" /\ at'[g] = "connect"
  /\ id[g[1]] \in Ids /\ emulators'[id[g[1]]] = g[1]
  /\ \A i \in Ids : i # id[g[1]] => emulators'[i] = emulators[i]
  /\ SameIds /\ SameFamily /\ SameStorage /\ ctl' = ctl
ConnectEffect(g) ==
  /\ exists' = exists /\ Moves(g) /\ at[g] = "connect" /\ at'[g] = "started"
  /\ SameIds /\ SameFamily /\ SameStorage /\ emulators' = emulators /\ ctl' = ctl
PrepInvEventsEffect(o, c) ==
  /\ c \notin exists /\ exists' = exists \cup {c}
  /\ id[o] # None /\ id[c] = None /\ parent[c] = None /\ parentId[c] = None
  /\ \A g \in Starts : g[1] = c => at[g] = "none"
  /\ parent'[c] = o
  /\ \A p \in Objects : p # c => parent'[p] = parent[p]
  /\ \A p \in Objects : \A k \in children'[p] : k \in children[p] \/ k = c
  /\ parentId' = parentId /\ at' = at
  /\ SameIds /\ SameStorage /\ emulators' = emulators /\ ctl' = ctl
StartChildDcEffect(o, g) ==
  /\ exists' = exists /\ Moves(g) /\ at[g] = "none" /\ at'[g] = "spawned"
  /\ g[1] \in exists /\ parent[g[1]] # None
  /\ SameIds /\ SameFamily /\ SameStorage /\ emulators' = emulators /\ ctl' = ctl
ControlEffect(h, o, i) ==
  /\ exists' = exists /\ at' = at
  /\ id[o] # None /\ id[o][1] = i[1]
  /\ ctl'[h].at = "id" /\ ctl'[h].obj = o /\ ctl'[h].new = i /\ ctl'[h].old = None
  /\ \A k \in Handlers : k # h => ctl'[k] = ctl[k]
  /\ SameIds /\ SameFamily /\ SameStorage /\ emulators' = emulators
CheckIdEffect(h) ==
  /\ exists' = exists /\ at' = at
  /\ ctl[h].obj \in Objects /\ id[ctl[h].obj] \in Ids /\ ctl[h].new \in Ids
  /\ \/ ctl'[h] = Idle
     \/ /\ ctl'[h].at = "rename" /\ ctl'[h].obj = ctl[h].obj /\ ctl'[h].new = ctl[h].new
        /\ ctl'[h].old = id[ctl[h].obj]
  /\ \A k \in Handlers : k # h => ctl'[k] = ctl[k]
  /\ SameIds /\ SameFamily /\ SameStorage /\ emulators' = emulators
RenameEffect(h) ==
  /\ exists' = exists /\ at' = at
  /\ ctl[h].obj \in Objects /\ ctl[h].obj \in exists /\ id[ctl[h].obj] # None
  /\ ctl[h].at = "rename" /\ ctl[h].new \in Ids /\ ctl[h].old \in Ids /\ ctl'[h] = Idle
  /\ id'[ctl[h].obj] = ctl[h].new /\ id'[ctl[h].obj] # None
  /\ \A p \in Objects : p # ctl[h].obj => id'[p] = id[p]
  /\ emulators'[ctl[h].new] = ctl[h].obj
  /\ \A i \in Ids : i # ctl[h].new => emulators'[i] \in {emulators[i], None}
  /\ \A i \in Ids : i # ctl[h].new /\ i # ctl[h].old => emulators'[i] = emulators[i]
  /\ \A k \in Handlers : k # h => ctl'[k] = ctl[k]
  /\ hasKey' = hasKey /\ access' = access /\ SameFamily /\ SameStorage
CrashEffect ==
  /\ exists' = {}
  /\ \A g \in Starts : at'[g] = "none"
  /\ \A g \in Starts : access'[g] = None
  /\ \A o \in Objects :
       /\ id'[o] = None /\ parent'[o] = None /\ parentId'[o] = None /\ children'[o] = {}
  /\ \A i \in Ids : emulators'[i] = None
  /\ \A h \in Handlers : ctl'[h] = Idle
  /\ storage' = storage /\ todo' = {} /\ regs' = regs

LEMMA QuietDoes ==
  ASSUME RegInv, \/ Load \/ Restored \/ Spawned \/ GetEmulatorTokens \/ UNCHANGED rgVars
                 \/ \E o \in Objects : Token(o)
  PROVE QuietEffect
<1>1. CASE Load
  BY <1>1
     DEF QuietEffect, SameIds, SameFamily, Load, identityVars, familyVars, spawnVars,
         cloudVars
<1>2. CASE Restored
  BY <1>2
     DEF QuietEffect, SameIds, SameFamily, Restored, identityVars, familyVars, spawnVars,
         cloudVars
<1>3. CASE Spawned
  BY <1>3
     DEF QuietEffect, SameIds, SameFamily, Spawned, identityVars, familyVars, spawnVars,
         cloudVars
<1>4. CASE GetEmulatorTokens
  BY <1>4
     DEF QuietEffect, SameIds, SameFamily, GetEmulatorTokens, identityVars, familyVars,
         spawnVars, cloudVars
<1>5. CASE UNCHANGED rgVars
  BY <1>5
     DEF QuietEffect, SameIds, SameFamily, rgVars, identityVars, familyVars, spawnVars,
         cloudVars
<1>6. CASE \E o \in Objects : Token(o)
  BY <1>6
     DEF QuietEffect, SameIds, SameFamily, Token, identityVars, familyVars, spawnVars,
         cloudVars
<1> QED
  BY <1>1, <1>2, <1>3, <1>4, <1>5, <1>6

LEMMA SpawnDoes == ASSUME RegInv, NEW o \in Objects, SpawnDevice(o) PROVE Spawns(o)
<1>1. o \notin exists /\ exists' = exists \cup {o}
  BY DEF SpawnDevice, Free
<1>2. \A k \in Starts : k[1] # o => at'[k] = at[k]
  BY StartOf DEF RegInv, StartTypes, SpawnDevice
<1>3. \A k \in Starts : k[1] = o => at[k] = "none"
  BY <1>1 DEF RegInv, Unused
<1>4. \A k \in Starts : k[1] = o => at'[k] = (IF k[2] = 1 THEN "spawned" ELSE "none")
  <2> SUFFICES ASSUME NEW k \in Starts, k[1] = o
               PROVE at'[k] = (IF k[2] = 1 THEN "spawned" ELSE "none")
    OBVIOUS
  <2>1. (k = <<o, 1>> /\ k[2] = 1) \/ (k = <<o, 2>> /\ k[2] = 2)
    BY ObjectOf
  <2> QED
    BY <2>1, <1>3, StartOf DEF RegInv, StartTypes, SpawnDevice
<1>5. id[o] = None /\ parent[o] = None /\ parentId[o] = None
  BY <1>1 DEF RegInv, Unused
<1> QED
  BY <1>1, <1>2, <1>3, <1>4, <1>5 DEF Spawns

LEMMA RestoreDoes ==
  ASSUME RegInv, NEW o \in Objects, NEW r \in todo, Restore(o, r)
  PROVE RestoreEffect(o, r)
<1>1. Spawns(o)
  BY SpawnDoes DEF Restore
<1>2. r.moid \in Ids /\ r.moid # None
  BY NoneApart DEF RegInv, PlainTypes, Records
<1> QED
  BY <1>1, <1>2
     DEF RegInv, StartTypes, FamilyTypes, Restore, RestoreEffect, identityVars, familyVars,
         spawnVars, cloudVars

LEMMA SpawnNewDoes ==
  ASSUME RegInv, NEW o \in Objects, SpawnNew(o)
  PROVE SpawnNewEffect(o)
<1>1. Spawns(o)
  BY SpawnDoes DEF SpawnNew
<1> QED
  BY <1>1
     DEF SpawnNew, SpawnNewEffect, SpawnDevice, SameIds, SameFamily, SameStorage,
         identityVars, familyVars, spawnVars, cloudVars

LEMMA BeginDoes ==
  ASSUME RegInv, NEW g \in Starts, Begin(g)
  PROVE BeginEffect(g)
<1>1. Moves(g) /\ at'[g] = (IF ParentIdOf(g[1]) = None THEN "key" ELSE "parent")
  BY Gone, Places DEF RegInv, StartTypes, Begin, Moves
<1> QED
  BY <1>1
     DEF Begin, BeginEffect, SameIds, SameFamily, SameStorage, identityVars, familyVars,
         spawnVars, cloudVars

LEMMA ParentFoundDoes ==
  ASSUME RegInv, NEW g \in Starts, ParentFound(g)
  PROVE ParentFoundEffect(g)
<1>1. Moves(g) /\ at'[g] = "key"
  BY Gone, Places DEF RegInv, StartTypes, ParentFound, Moves
<1>2. g[1] \in Objects /\ at[g] = "parent"
  BY ObjectOf DEF ParentFound
<1>3. ParentIdOf(g[1]) \in Ids
  BY <1>2 DEF RegInv, Waiting, StartTypes, FamilyTypes, ParentIdOf
<1>4. emulators[ParentIdOf(g[1])] \in Objects
  BY <1>3 DEF RegInv, ListTypes, ParentFound
<1>5. /\ parent'[g[1]] = emulators[ParentIdOf(g[1])]
      /\ \A p \in Objects : p # g[1] => parent'[p] = parent[p]
  BY <1>2, <1>4 DEF RegInv, FamilyTypes, ParentFound
<1>6. \A p \in Objects : \A c \in children'[p] : c \in children[p] \/ c = g[1]
  BY <1>2, <1>4 DEF RegInv, FamilyTypes, ParentFound
<1> QED
  BY <1>1, <1>2, <1>3, <1>4, <1>5, <1>6
     DEF ParentFound, ParentFoundEffect, SameIds, SameStorage, identityVars, familyVars,
         spawnVars, cloudVars

LEMMA KeyDoes ==
  ASSUME RegInv, NEW g \in Starts, Key(g)
  PROVE KeyEffect(g)
<1>1. Moves(g) /\ at'[g] = (IF id[g[1]] = None THEN "register" ELSE "connect")
  BY Gone, Places DEF RegInv, StartTypes, Key, Moves
<1>2. g[1] \in Objects /\ id[g[1]] \in Ids \cup {None}
  BY ObjectOf DEF RegInv, StartTypes
<1>3. /\ g[1] \in hasKey => emulators'[id[g[1]]] = g[1]
      /\ \A i \in Ids : i # id[g[1]] \/ g[1] \notin hasKey => emulators'[i] = emulators[i]
  BY <1>2 DEF RegInv, ListTypes, Key
<1> QED
  BY <1>1, <1>3
     DEF Key, KeyEffect, SameFamily, SameStorage, identityVars, familyVars, spawnVars,
         cloudVars

LEMMA RegistersDoes ==
  ASSUME RegInv, NEW g \in Starts, Registers(g)
  PROVE RegistersEffect(g)
<1>1. Moves(g) /\ at'[g] = "write"
  BY Gone, Places DEF RegInv, StartTypes, Registers, Moves
<1>2. g[1] \in Objects
  BY ObjectOf
<1>3. regs' = regs + 1 /\ regs' \in Regs
  BY RegistryAssumption DEF RegInv, PlainCloud, Registers, NoMore, Regs
<1>4. <<regs', 1>> \in Ids
  BY <1>3 DEF Ids
<1>5. id'[g[1]] = <<regs', 1>> /\ access'[g] = regs'
  BY <1>2 DEF RegInv, StartTypes, Registers
<1>6. /\ \A p \in Objects : p # g[1] => id'[p] = id[p]
      /\ \A k \in Starts : k # g => access'[k] = access[k]
  BY <1>2 DEF RegInv, StartTypes, Registers
<1> QED
  BY <1>1, <1>3, <1>4, <1>5, <1>6, NoneApart
     DEF Registers, RegistersEffect, SameFamily, identityVars, familyVars, spawnVars,
         cloudVars

LEMMA WriteDoes ==
  ASSUME RegInv, NEW g \in Starts, Write(g)
  PROVE WriteEffect(g)
<1>1. Moves(g) /\ at'[g] = "list"
  BY Gone, Places DEF RegInv, StartTypes, Write, Moves
<1>2. \A r \in storage' : r \in storage \/
       (r.key = access[g] /\ r.moid = id[g[1]] /\ r.parent = ParentIdOf(g[1]))
  BY DEF Write
<1> QED
  BY <1>1, <1>2
     DEF Write, WriteEffect, SameIds, SameFamily, identityVars, familyVars, spawnVars,
         cloudVars

LEMMA ListDoes ==
  ASSUME RegInv, NEW g \in Starts, List(g)
  PROVE ListEffect(g)
<1>1. Moves(g) /\ at'[g] = "connect" /\ at[g] = "list"
  BY Gone, Places DEF RegInv, StartTypes, List, Moves
<1>2. g[1] \in Objects /\ id[g[1]] \in Ids
  BY <1>1, ObjectOf DEF RegInv, StartTypes, Identified
<1>3. /\ emulators'[id[g[1]]] = g[1]
      /\ \A i \in Ids : i # id[g[1]] => emulators'[i] = emulators[i]
  BY <1>2 DEF RegInv, ListTypes, List
<1> QED
  BY <1>1, <1>2, <1>3
     DEF List, ListEffect, SameIds, SameFamily, SameStorage, identityVars, familyVars,
         spawnVars, cloudVars

LEMMA ConnectDoes ==
  ASSUME RegInv, NEW g \in Starts, Connect(g)
  PROVE ConnectEffect(g)
<1>1. Moves(g) /\ at'[g] = "started"
  BY Gone, Places DEF RegInv, StartTypes, Connect, Moves
<1> QED
  BY <1>1
     DEF Connect, ConnectEffect, SameIds, SameFamily, SameStorage, identityVars, familyVars,
         spawnVars, cloudVars

LEMMA PrepInvEventsDoes ==
  ASSUME RegInv, NEW o \in Objects, NEW c \in Objects, PrepInvEvents(o, c)
  PROVE PrepInvEventsEffect(o, c)
<1>1. c \notin exists /\ exists' = exists \cup {c}
  BY DEF PrepInvEvents, Free
<1>2. id[c] = None /\ parent[c] = None /\ parentId[c] = None
  BY <1>1 DEF RegInv, Unused
<1>3. \A g \in Starts : g[1] = c => at[g] = "none"
  BY <1>1 DEF RegInv, Unused
<1>4. id[o] # None
  <2>1. PICK n \in {1, 2} : at[<<o, n>>] = "started"
    BY DEF PrepInvEvents, Up
  <2>2. <<o, n>> \in Starts
    BY DEF Starts
  <2> QED
    BY <2>1, <2>2 DEF RegInv, Identified
<1>5. parent'[c] = o /\ \A p \in Objects : p # c => parent'[p] = parent[p]
  BY DEF RegInv, FamilyTypes, PrepInvEvents
<1>6. \A p \in Objects : \A k \in children'[p] : k \in children[p] \/ k = c
  BY DEF RegInv, FamilyTypes, PrepInvEvents
<1> QED
  BY <1>1, <1>2, <1>3, <1>4, <1>5, <1>6
     DEF PrepInvEvents, PrepInvEventsEffect, SameIds, SameStorage, identityVars, familyVars,
         spawnVars, cloudVars

LEMMA StartChildDcDoes ==
  ASSUME RegInv, NEW o \in Objects, NEW g \in Starts, StartChildDc(o, g)
  PROVE StartChildDcEffect(o, g)
<1>1. Moves(g) /\ at'[g] = "spawned" /\ at[g] = "none"
  BY Gone, Places DEF RegInv, StartTypes, StartChildDc, Moves
<1>2. g[1] \in Objects /\ g[1] \in children[o]
  BY ObjectOf DEF StartChildDc
<1>3. parent[g[1]] # None
  BY <1>2 DEF RegInv, Kin
<1>4. g[1] \in exists
  BY <1>2, <1>3 DEF RegInv, Unused
<1> QED
  BY <1>1, <1>3, <1>4
     DEF StartChildDc, StartChildDcEffect, SameIds, SameFamily, SameStorage, identityVars,
         familyVars, spawnVars, cloudVars

LEMMA ControlDoes ==
  ASSUME RegInv, NEW h \in Handlers, NEW o \in Objects, NEW i \in Ids, Control(h, o, i)
  PROVE ControlEffect(h, o, i)
<1>1. ctl'[h] = [at |-> "id", obj |-> o, new |-> i, old |-> None]
  BY DEF RegInv, ListTypes, Control
<1>2. \A k \in Handlers : k # h => ctl'[k] = ctl[k]
  BY DEF RegInv, ListTypes, Control
<1> QED
  BY <1>1, <1>2
     DEF Control, ControlEffect, SameIds, SameFamily, SameStorage, identityVars, familyVars,
         spawnVars, cloudVars

LEMMA CheckIdDoes ==
  ASSUME RegInv, NEW h \in Handlers, CheckId(h)
  PROVE CheckIdEffect(h)
<1>1. ctl[h].at = "id"
  BY DEF CheckId
<1>2. ctl[h].obj \in Objects /\ id[ctl[h].obj] # None /\ ctl[h].new \in Ids
  BY <1>1 DEF RegInv, Handled, Idle
<1>3. id[ctl[h].obj] \in Ids
  BY <1>2 DEF RegInv, StartTypes
<1>4. ctl'[h] = IF ctl[h].new = id[ctl[h].obj] THEN Idle
                ELSE [ctl[h] EXCEPT !.at = "rename", !.old = id[ctl[h].obj]]
  BY DEF RegInv, ListTypes, CheckId
<1>5. \/ ctl'[h] = Idle
      \/ /\ ctl'[h].at = "rename" /\ ctl'[h].obj = ctl[h].obj /\ ctl'[h].new = ctl[h].new
         /\ ctl'[h].old = id[ctl[h].obj]
  BY <1>4 DEF RegInv, ListTypes, Handler
<1>6. \A k \in Handlers : k # h => ctl'[k] = ctl[k]
  BY DEF RegInv, ListTypes, CheckId
<1> QED
  BY <1>2, <1>3, <1>5, <1>6
     DEF CheckId, CheckIdEffect, SameIds, SameFamily, SameStorage, identityVars, familyVars,
         spawnVars, cloudVars

LEMMA RenameDoes ==
  ASSUME RegInv, NEW h \in Handlers, Rename(h)
  PROVE RenameEffect(h)
<1>1. ctl[h].at = "rename"
  BY DEF Rename
<1>2. /\ ctl[h].obj \in Objects /\ id[ctl[h].obj] # None
      /\ ctl[h].new \in Ids /\ ctl[h].old \in Ids
  BY <1>1 DEF RegInv, Handled, Idle
<1>3. ctl[h].obj \in exists
  BY <1>2 DEF RegInv, Unused
<1>4. ctl'[h] = Idle /\ \A k \in Handlers : k # h => ctl'[k] = ctl[k]
  BY DEF RegInv, ListTypes, Rename
<1>5. /\ id'[ctl[h].obj] = ctl[h].new
      /\ \A p \in Objects : p # ctl[h].obj => id'[p] = id[p]
  BY <1>2 DEF RegInv, StartTypes, Rename
<1>6. /\ emulators'[ctl[h].new] = ctl[h].obj
      /\ \A i \in Ids : i # ctl[h].new => emulators'[i] \in {emulators[i], None}
      /\ \A i \in Ids : i # ctl[h].new /\ i # ctl[h].old => emulators'[i] = emulators[i]
  BY <1>2 DEF RegInv, ListTypes, Rename
<1> QED
  BY <1>1, <1>2, <1>3, <1>4, <1>5, <1>6, NoneApart
     DEF Rename, RenameEffect, SameFamily, SameStorage, identityVars, familyVars, spawnVars,
         cloudVars

LEMMA CrashDoes ==
  ASSUME RegInv, Crash
  PROVE CrashEffect
BY DEF Crash, CrashEffect, cloudVars
RGEffect ==
  \/ QuietEffect
  \/ \E o \in Objects, r \in todo : RestoreEffect(o, r)
  \/ \E o \in Objects : SpawnNewEffect(o)
  \/ \E g \in Starts : BeginEffect(g)
  \/ \E g \in Starts : ParentFoundEffect(g)
  \/ \E g \in Starts : KeyEffect(g)
  \/ \E g \in Starts : RegistersEffect(g)
  \/ \E g \in Starts : WriteEffect(g)
  \/ \E g \in Starts : ListEffect(g)
  \/ \E g \in Starts : ConnectEffect(g)
  \/ \E o \in Objects, c \in Objects : PrepInvEventsEffect(o, c)
  \/ \E o \in Objects, g \in Starts : StartChildDcEffect(o, g)
  \/ \E h \in Handlers, o \in Objects, i \in Ids : ControlEffect(h, o, i)
  \/ \E h \in Handlers : CheckIdEffect(h)
  \/ \E h \in Handlers : RenameEffect(h)
  \/ CrashEffect

LEMMA RGEffects == RegInv /\ [RGNext]_rgVars => RGEffect
<1> SUFFICES ASSUME RegInv, [RGNext]_rgVars PROVE RGEffect
  OBVIOUS
<1>1. ASSUME Load PROVE RGEffect
  BY <1>1, QuietDoes DEF RGEffect
<1>2. ASSUME Restored PROVE RGEffect
  BY <1>2, QuietDoes DEF RGEffect
<1>3. ASSUME Spawned PROVE RGEffect
  BY <1>3, QuietDoes DEF RGEffect
<1>4. ASSUME NEW o \in Objects, NEW r \in todo, Restore(o, r) PROVE RGEffect
  BY <1>4, RestoreDoes DEF RGEffect
<1>5. ASSUME NEW o \in Objects, SpawnNew(o) PROVE RGEffect
  BY <1>5, SpawnNewDoes DEF RGEffect
<1>6. ASSUME NEW g \in Starts, Begin(g) PROVE RGEffect
  BY <1>6, BeginDoes DEF RGEffect
<1>7. ASSUME NEW g \in Starts, ParentFound(g) PROVE RGEffect
  BY <1>7, ParentFoundDoes DEF RGEffect
<1>8. ASSUME NEW g \in Starts, Key(g) PROVE RGEffect
  BY <1>8, KeyDoes DEF RGEffect
<1>9. ASSUME NEW g \in Starts, Registers(g) PROVE RGEffect
  BY <1>9, RegistersDoes DEF RGEffect
<1>10. ASSUME NEW g \in Starts, Write(g) PROVE RGEffect
  BY <1>10, WriteDoes DEF RGEffect
<1>11. ASSUME NEW g \in Starts, List(g) PROVE RGEffect
  BY <1>11, ListDoes DEF RGEffect
<1>12. ASSUME NEW g \in Starts, Connect(g) PROVE RGEffect
  BY <1>12, ConnectDoes DEF RGEffect
<1>13. ASSUME NEW o \in Objects, Token(o) PROVE RGEffect
  BY <1>13, QuietDoes DEF RGEffect
<1>14. ASSUME NEW o \in Objects, NEW c \in Objects, PrepInvEvents(o, c) PROVE RGEffect
  BY <1>14, PrepInvEventsDoes DEF RGEffect
<1>15. ASSUME NEW o \in Objects, NEW g \in Starts, StartChildDc(o, g) PROVE RGEffect
  BY <1>15, StartChildDcDoes DEF RGEffect
<1>16. ASSUME NEW h \in Handlers, NEW o \in Objects, NEW i \in Ids, Control(h, o, i)
       PROVE RGEffect
  BY <1>16, ControlDoes DEF RGEffect
<1>17. ASSUME NEW h \in Handlers, CheckId(h) PROVE RGEffect
  BY <1>17, CheckIdDoes DEF RGEffect
<1>18. ASSUME NEW h \in Handlers, Rename(h) PROVE RGEffect
  BY <1>18, RenameDoes DEF RGEffect
<1>19. ASSUME GetEmulatorTokens PROVE RGEffect
  BY <1>19, QuietDoes DEF RGEffect
<1>20. ASSUME Crash PROVE RGEffect
  BY <1>20, CrashDoes DEF RGEffect
<1>21. ASSUME UNCHANGED rgVars PROVE RGEffect
  BY <1>21, QuietDoes DEF RGEffect
<1> QED
  BY Zenon, RGSteps, <1>1, <1>2, <1>3, <1>4, <1>5, <1>6, <1>7, <1>8, <1>9, <1>10, <1>11,
     <1>12, <1>13, <1>14, <1>15, <1>16, <1>17, <1>18, <1>19, <1>20, <1>21

LEMMA UnusedStep == RegInv /\ [RGNext]_rgVars => Unused'
<1> SUFFICES ASSUME RegInv, [RGNext]_rgVars PROVE Unused'
  OBVIOUS
<1>i. Unused
  BY DEF RegInv
<1> USE ObjectOf, NoneApart DEF Unused, Moves, Spawns, SameIds, SameFamily, SameStorage
<1>q. CASE QuietEffect
  BY <1>i, <1>q DEF QuietEffect
<1>1. ASSUME NEW o \in Objects, NEW r \in todo, RestoreEffect(o, r) PROVE Unused'
  BY <1>i, <1>1 DEF RestoreEffect
<1>2. ASSUME NEW o \in Objects, SpawnNewEffect(o) PROVE Unused'
  BY <1>i, <1>2 DEF SpawnNewEffect
<1>3. ASSUME NEW g \in Starts, BeginEffect(g) PROVE Unused'
  BY <1>i, <1>3 DEF BeginEffect
<1>4. ASSUME NEW g \in Starts, ParentFoundEffect(g) PROVE Unused'
  BY <1>i, <1>4 DEF ParentFoundEffect
<1>5. ASSUME NEW g \in Starts, KeyEffect(g) PROVE Unused'
  BY <1>i, <1>5 DEF KeyEffect
<1>6. ASSUME NEW g \in Starts, RegistersEffect(g) PROVE Unused'
  BY <1>i, <1>6 DEF RegistersEffect
<1>7. ASSUME NEW g \in Starts, WriteEffect(g) PROVE Unused'
  BY <1>i, <1>7 DEF WriteEffect
<1>8. ASSUME NEW g \in Starts, ListEffect(g) PROVE Unused'
  BY <1>i, <1>8 DEF ListEffect
<1>9. ASSUME NEW g \in Starts, ConnectEffect(g) PROVE Unused'
  BY <1>i, <1>9 DEF ConnectEffect
<1>10. ASSUME NEW o \in Objects, NEW c \in Objects, PrepInvEventsEffect(o, c) PROVE Unused'
  BY <1>i, <1>10 DEF PrepInvEventsEffect
<1>11. ASSUME NEW o \in Objects, NEW g \in Starts, StartChildDcEffect(o, g) PROVE Unused'
  BY <1>i, <1>11 DEF StartChildDcEffect
<1>12. ASSUME NEW h \in Handlers, NEW o \in Objects, NEW i \in Ids, ControlEffect(h, o, i)
       PROVE Unused'
  BY <1>i, <1>12 DEF ControlEffect
<1>13. ASSUME NEW h \in Handlers, CheckIdEffect(h) PROVE Unused'
  BY <1>i, <1>13 DEF CheckIdEffect
<1>14. ASSUME NEW h \in Handlers, RenameEffect(h) PROVE Unused'
  BY <1>i, <1>14 DEF RenameEffect
<1>15. CASE CrashEffect
  BY <1>i, <1>15 DEF CrashEffect
<1> QED
  BY Zenon, RGEffects, <1>q, <1>1, <1>2, <1>3, <1>4, <1>5, <1>6, <1>7, <1>8, <1>9, <1>10,
     <1>11, <1>12, <1>13, <1>14, <1>15
     DEF RGEffect
\* What a device has it keeps, unless the process ends.
Kept == \A o \in Objects : /\ id[o] # None => id'[o] # None
                           /\ parent[o] # None => parent'[o] # None

LEMMA KeptStep == RegInv /\ [RGNext]_rgVars => (CrashEffect \/ Kept)
<1> SUFFICES ASSUME RegInv, [RGNext]_rgVars PROVE (CrashEffect \/ Kept)
  OBVIOUS
<1>i. Unused /\ StartTypes
  BY DEF RegInv
<1> USE ObjectOf, NoneApart DEF Kept, Moves, Spawns, SameIds, SameFamily, SameStorage
<1>q. CASE QuietEffect
  BY <1>i, <1>q DEF QuietEffect
<1>1. ASSUME NEW o \in Objects, NEW r \in todo, RestoreEffect(o, r)
      PROVE (CrashEffect \/ Kept)
  BY <1>i, <1>1 DEF RestoreEffect
<1>2. ASSUME NEW o \in Objects, SpawnNewEffect(o) PROVE (CrashEffect \/ Kept)
  BY <1>i, <1>2 DEF SpawnNewEffect
<1>3. ASSUME NEW g \in Starts, BeginEffect(g) PROVE (CrashEffect \/ Kept)
  BY <1>i, <1>3 DEF BeginEffect
<1>4. ASSUME NEW g \in Starts, ParentFoundEffect(g) PROVE (CrashEffect \/ Kept)
  BY <1>i, <1>4 DEF ParentFoundEffect
<1>5. ASSUME NEW g \in Starts, KeyEffect(g) PROVE (CrashEffect \/ Kept)
  BY <1>i, <1>5 DEF KeyEffect
<1>6. ASSUME NEW g \in Starts, RegistersEffect(g) PROVE (CrashEffect \/ Kept)
  BY <1>i, <1>6 DEF RegistersEffect
<1>7. ASSUME NEW g \in Starts, WriteEffect(g) PROVE (CrashEffect \/ Kept)
  BY <1>i, <1>7 DEF WriteEffect
<1>8. ASSUME NEW g \in Starts, ListEffect(g) PROVE (CrashEffect \/ Kept)
  BY <1>i, <1>8 DEF ListEffect
<1>9. ASSUME NEW g \in Starts, ConnectEffect(g) PROVE (CrashEffect \/ Kept)
  BY <1>i, <1>9 DEF ConnectEffect
<1>10. ASSUME NEW o \in Objects, NEW c \in Objects, PrepInvEventsEffect(o, c)
       PROVE (CrashEffect \/ Kept)
  BY <1>i, <1>10 DEF PrepInvEventsEffect
<1>11. ASSUME NEW o \in Objects, NEW g \in Starts, StartChildDcEffect(o, g)
       PROVE (CrashEffect \/ Kept)
  BY <1>i, <1>11 DEF StartChildDcEffect
<1>12. ASSUME NEW h \in Handlers, NEW o \in Objects, NEW i \in Ids, ControlEffect(h, o, i)
       PROVE (CrashEffect \/ Kept)
  BY <1>i, <1>12 DEF ControlEffect
<1>13. ASSUME NEW h \in Handlers, CheckIdEffect(h) PROVE (CrashEffect \/ Kept)
  BY <1>i, <1>13 DEF CheckIdEffect
<1>14. ASSUME NEW h \in Handlers, RenameEffect(h) PROVE (CrashEffect \/ Kept)
  BY <1>i, <1>14 DEF RenameEffect
<1>15. CASE CrashEffect
  BY <1>15
<1> QED
  BY Zenon, RGEffects, <1>q, <1>1, <1>2, <1>3, <1>4, <1>5, <1>6, <1>7, <1>8, <1>9, <1>10,
     <1>11, <1>12, <1>13, <1>14, <1>15
     DEF RGEffect

LEMMA ParentKnownStep == RegInv /\ [RGNext]_rgVars => ParentKnown'
<1> SUFFICES ASSUME RegInv, [RGNext]_rgVars PROVE ParentKnown'
  OBVIOUS
<1>i. ParentKnown /\ FamilyTypes /\ ListedKnown
  BY DEF RegInv
<1>c. CASE CrashEffect
  BY <1>i, <1>c, ObjectOf, NoneApart
     DEF ParentKnown, FamilyTypes, ListedKnown, Kept, CrashEffect
<1> SUFFICES ASSUME Kept PROVE ParentKnown'
  BY <1>c, KeptStep
<1> USE ObjectOf, NoneApart
        DEF ParentKnown, FamilyTypes, ListedKnown, Kept, Moves, Spawns, SameIds, SameFamily,
            SameStorage
<1>q. CASE QuietEffect
  BY <1>i, <1>q DEF QuietEffect
<1>1. ASSUME NEW o \in Objects, NEW r \in todo, RestoreEffect(o, r) PROVE ParentKnown'
  BY <1>i, <1>1 DEF RestoreEffect
<1>2. ASSUME NEW o \in Objects, SpawnNewEffect(o) PROVE ParentKnown'
  BY <1>i, <1>2 DEF SpawnNewEffect
<1>3. ASSUME NEW g \in Starts, BeginEffect(g) PROVE ParentKnown'
  BY <1>i, <1>3 DEF BeginEffect
<1>4. ASSUME NEW g \in Starts, ParentFoundEffect(g) PROVE ParentKnown'
  BY <1>i, <1>4 DEF ParentFoundEffect
<1>5. ASSUME NEW g \in Starts, KeyEffect(g) PROVE ParentKnown'
  BY <1>i, <1>5 DEF KeyEffect
<1>6. ASSUME NEW g \in Starts, RegistersEffect(g) PROVE ParentKnown'
  BY <1>i, <1>6 DEF RegistersEffect
<1>7. ASSUME NEW g \in Starts, WriteEffect(g) PROVE ParentKnown'
  BY <1>i, <1>7 DEF WriteEffect
<1>8. ASSUME NEW g \in Starts, ListEffect(g) PROVE ParentKnown'
  BY <1>i, <1>8 DEF ListEffect
<1>9. ASSUME NEW g \in Starts, ConnectEffect(g) PROVE ParentKnown'
  BY <1>i, <1>9 DEF ConnectEffect
<1>10. ASSUME NEW o \in Objects, NEW c \in Objects, PrepInvEventsEffect(o, c)
       PROVE ParentKnown'
  BY <1>i, <1>10 DEF PrepInvEventsEffect
<1>11. ASSUME NEW o \in Objects, NEW g \in Starts, StartChildDcEffect(o, g)
       PROVE ParentKnown'
  BY <1>i, <1>11 DEF StartChildDcEffect
<1>12. ASSUME NEW h \in Handlers, NEW o \in Objects, NEW i \in Ids, ControlEffect(h, o, i)
       PROVE ParentKnown'
  BY <1>i, <1>12 DEF ControlEffect
<1>13. ASSUME NEW h \in Handlers, CheckIdEffect(h) PROVE ParentKnown'
  BY <1>i, <1>13 DEF CheckIdEffect
<1>14. ASSUME NEW h \in Handlers, RenameEffect(h) PROVE ParentKnown'
  BY <1>i, <1>14 DEF RenameEffect
<1>15. CASE CrashEffect
  BY <1>c, <1>15
<1> QED
  BY Zenon, RGEffects, <1>q, <1>1, <1>2, <1>3, <1>4, <1>5, <1>6, <1>7, <1>8, <1>9, <1>10,
     <1>11, <1>12, <1>13, <1>14, <1>15
     DEF RGEffect

LEMMA RestoredKnownStep == RegInv /\ [RGNext]_rgVars => RestoredKnown'
<1> SUFFICES ASSUME RegInv, [RGNext]_rgVars PROVE RestoredKnown'
  OBVIOUS
<1>i. RestoredKnown
  BY DEF RegInv
<1>c. CASE CrashEffect
  BY <1>i, <1>c, ObjectOf, NoneApart DEF RestoredKnown, Kept, CrashEffect
<1> SUFFICES ASSUME Kept PROVE RestoredKnown'
  BY <1>c, KeptStep
<1> USE ObjectOf, NoneApart
        DEF RestoredKnown, Kept, Moves, Spawns, SameIds, SameFamily, SameStorage
<1>q. CASE QuietEffect
  BY <1>i, <1>q DEF QuietEffect
<1>1. ASSUME NEW o \in Objects, NEW r \in todo, RestoreEffect(o, r) PROVE RestoredKnown'
  BY <1>i, <1>1 DEF RestoreEffect
<1>2. ASSUME NEW o \in Objects, SpawnNewEffect(o) PROVE RestoredKnown'
  BY <1>i, <1>2 DEF SpawnNewEffect
<1>3. ASSUME NEW g \in Starts, BeginEffect(g) PROVE RestoredKnown'
  BY <1>i, <1>3 DEF BeginEffect
<1>4. ASSUME NEW g \in Starts, ParentFoundEffect(g) PROVE RestoredKnown'
  BY <1>i, <1>4 DEF ParentFoundEffect
<1>5. ASSUME NEW g \in Starts, KeyEffect(g) PROVE RestoredKnown'
  BY <1>i, <1>5 DEF KeyEffect
<1>6. ASSUME NEW g \in Starts, RegistersEffect(g) PROVE RestoredKnown'
  BY <1>i, <1>6 DEF RegistersEffect
<1>7. ASSUME NEW g \in Starts, WriteEffect(g) PROVE RestoredKnown'
  BY <1>i, <1>7 DEF WriteEffect
<1>8. ASSUME NEW g \in Starts, ListEffect(g) PROVE RestoredKnown'
  BY <1>i, <1>8 DEF ListEffect
<1>9. ASSUME NEW g \in Starts, ConnectEffect(g) PROVE RestoredKnown'
  BY <1>i, <1>9 DEF ConnectEffect
<1>10. ASSUME NEW o \in Objects, NEW c \in Objects, PrepInvEventsEffect(o, c)
       PROVE RestoredKnown'
  BY <1>i, <1>10 DEF PrepInvEventsEffect
<1>11. ASSUME NEW o \in Objects, NEW g \in Starts, StartChildDcEffect(o, g)
       PROVE RestoredKnown'
  BY <1>i, <1>11 DEF StartChildDcEffect
<1>12. ASSUME NEW h \in Handlers, NEW o \in Objects, NEW i \in Ids, ControlEffect(h, o, i)
       PROVE RestoredKnown'
  BY <1>i, <1>12 DEF ControlEffect
<1>13. ASSUME NEW h \in Handlers, CheckIdEffect(h) PROVE RestoredKnown'
  BY <1>i, <1>13 DEF CheckIdEffect
<1>14. ASSUME NEW h \in Handlers, RenameEffect(h) PROVE RestoredKnown'
  BY <1>i, <1>14 DEF RenameEffect
<1>15. CASE CrashEffect
  BY <1>c, <1>15
<1> QED
  BY Zenon, RGEffects, <1>q, <1>1, <1>2, <1>3, <1>4, <1>5, <1>6, <1>7, <1>8, <1>9, <1>10,
     <1>11, <1>12, <1>13, <1>14, <1>15
     DEF RGEffect

LEMMA KinStep == RegInv /\ [RGNext]_rgVars => Kin'
<1> SUFFICES ASSUME RegInv, [RGNext]_rgVars PROVE Kin'
  OBVIOUS
<1>i. Kin /\ Unused
  BY DEF RegInv
<1>c. CASE CrashEffect
  BY <1>i, <1>c, ObjectOf, NoneApart DEF Kin, Unused, Kept, CrashEffect
<1> SUFFICES ASSUME Kept PROVE Kin'
  BY <1>c, KeptStep
<1> USE ObjectOf, NoneApart
        DEF Kin, Unused, Kept, Moves, Spawns, SameIds, SameFamily, SameStorage
<1>q. CASE QuietEffect
  BY <1>i, <1>q DEF QuietEffect
<1>1. ASSUME NEW o \in Objects, NEW r \in todo, RestoreEffect(o, r) PROVE Kin'
  BY <1>i, <1>1 DEF RestoreEffect
<1>2. ASSUME NEW o \in Objects, SpawnNewEffect(o) PROVE Kin'
  BY <1>i, <1>2 DEF SpawnNewEffect
<1>3. ASSUME NEW g \in Starts, BeginEffect(g) PROVE Kin'
  BY <1>i, <1>3 DEF BeginEffect
<1>4. ASSUME NEW g \in Starts, ParentFoundEffect(g) PROVE Kin'
  BY <1>i, <1>4 DEF ParentFoundEffect
<1>5. ASSUME NEW g \in Starts, KeyEffect(g) PROVE Kin'
  BY <1>i, <1>5 DEF KeyEffect
<1>6. ASSUME NEW g \in Starts, RegistersEffect(g) PROVE Kin'
  BY <1>i, <1>6 DEF RegistersEffect
<1>7. ASSUME NEW g \in Starts, WriteEffect(g) PROVE Kin'
  BY <1>i, <1>7 DEF WriteEffect
<1>8. ASSUME NEW g \in Starts, ListEffect(g) PROVE Kin'
  BY <1>i, <1>8 DEF ListEffect
<1>9. ASSUME NEW g \in Starts, ConnectEffect(g) PROVE Kin'
  BY <1>i, <1>9 DEF ConnectEffect
<1>10. ASSUME NEW o \in Objects, NEW c \in Objects, PrepInvEventsEffect(o, c) PROVE Kin'
  BY <1>i, <1>10 DEF PrepInvEventsEffect
<1>11. ASSUME NEW o \in Objects, NEW g \in Starts, StartChildDcEffect(o, g) PROVE Kin'
  BY <1>i, <1>11 DEF StartChildDcEffect
<1>12. ASSUME NEW h \in Handlers, NEW o \in Objects, NEW i \in Ids, ControlEffect(h, o, i)
       PROVE Kin'
  BY <1>i, <1>12 DEF ControlEffect
<1>13. ASSUME NEW h \in Handlers, CheckIdEffect(h) PROVE Kin'
  BY <1>i, <1>13 DEF CheckIdEffect
<1>14. ASSUME NEW h \in Handlers, RenameEffect(h) PROVE Kin'
  BY <1>i, <1>14 DEF RenameEffect
<1>15. CASE CrashEffect
  BY <1>c, <1>15
<1> QED
  BY Zenon, RGEffects, <1>q, <1>1, <1>2, <1>3, <1>4, <1>5, <1>6, <1>7, <1>8, <1>9, <1>10,
     <1>11, <1>12, <1>13, <1>14, <1>15
     DEF RGEffect

LEMMA IdentifiedStep == RegInv /\ [RGNext]_rgVars => Identified'
<1> SUFFICES ASSUME RegInv, [RGNext]_rgVars PROVE Identified'
  OBVIOUS
<1>i. Identified
  BY DEF RegInv
<1>c. CASE CrashEffect
  BY <1>i, <1>c, ObjectOf, NoneApart DEF Identified, Kept, CrashEffect
<1> SUFFICES ASSUME Kept PROVE Identified'
  BY <1>c, KeptStep
<1> USE ObjectOf, NoneApart
        DEF Identified, Kept, Moves, Spawns, SameIds, SameFamily, SameStorage
<1>q. CASE QuietEffect
  BY <1>i, <1>q DEF QuietEffect
<1>1. ASSUME NEW o \in Objects, NEW r \in todo, RestoreEffect(o, r) PROVE Identified'
  BY <1>i, <1>1 DEF RestoreEffect
<1>2. ASSUME NEW o \in Objects, SpawnNewEffect(o) PROVE Identified'
  BY <1>i, <1>2 DEF SpawnNewEffect
<1>3. ASSUME NEW g \in Starts, BeginEffect(g) PROVE Identified'
  BY <1>i, <1>3 DEF BeginEffect
<1>4. ASSUME NEW g \in Starts, ParentFoundEffect(g) PROVE Identified'
  BY <1>i, <1>4 DEF ParentFoundEffect
<1>5. ASSUME NEW g \in Starts, KeyEffect(g) PROVE Identified'
  BY <1>i, <1>5 DEF KeyEffect
<1>6. ASSUME NEW g \in Starts, RegistersEffect(g) PROVE Identified'
  BY <1>i, <1>6 DEF RegistersEffect
<1>7. ASSUME NEW g \in Starts, WriteEffect(g) PROVE Identified'
  BY <1>i, <1>7 DEF WriteEffect
<1>8. ASSUME NEW g \in Starts, ListEffect(g) PROVE Identified'
  BY <1>i, <1>8 DEF ListEffect
<1>9. ASSUME NEW g \in Starts, ConnectEffect(g) PROVE Identified'
  BY <1>i, <1>9 DEF ConnectEffect
<1>10. ASSUME NEW o \in Objects, NEW c \in Objects, PrepInvEventsEffect(o, c)
       PROVE Identified'
  BY <1>i, <1>10 DEF PrepInvEventsEffect
<1>11. ASSUME NEW o \in Objects, NEW g \in Starts, StartChildDcEffect(o, g)
       PROVE Identified'
  BY <1>i, <1>11 DEF StartChildDcEffect
<1>12. ASSUME NEW h \in Handlers, NEW o \in Objects, NEW i \in Ids, ControlEffect(h, o, i)
       PROVE Identified'
  BY <1>i, <1>12 DEF ControlEffect
<1>13. ASSUME NEW h \in Handlers, CheckIdEffect(h) PROVE Identified'
  BY <1>i, <1>13 DEF CheckIdEffect
<1>14. ASSUME NEW h \in Handlers, RenameEffect(h) PROVE Identified'
  BY <1>i, <1>14 DEF RenameEffect
<1>15. CASE CrashEffect
  BY <1>c, <1>15
<1> QED
  BY Zenon, RGEffects, <1>q, <1>1, <1>2, <1>3, <1>4, <1>5, <1>6, <1>7, <1>8, <1>9, <1>10,
     <1>11, <1>12, <1>13, <1>14, <1>15
     DEF RGEffect

LEMMA WaitingStep == RegInv /\ [RGNext]_rgVars => Waiting'
<1> SUFFICES ASSUME RegInv, [RGNext]_rgVars PROVE Waiting'
  OBVIOUS
<1>i. Waiting /\ ParentKnown /\ FamilyTypes /\ ListedKnown
  BY DEF RegInv
<1>c. CASE CrashEffect
  BY <1>i, <1>c, ObjectOf, NoneApart
     DEF Waiting, ParentIdOf, FamilyTypes, ParentKnown, Kept, CrashEffect
<1> SUFFICES ASSUME Kept PROVE Waiting'
  BY <1>c, KeptStep
<1> USE ObjectOf, NoneApart
        DEF Waiting, ParentIdOf, FamilyTypes, ParentKnown, Kept, Moves, Spawns, SameIds,
            SameFamily, SameStorage
<1>q. CASE QuietEffect
  BY <1>i, <1>q DEF QuietEffect
<1>1. ASSUME NEW o \in Objects, NEW r \in todo, RestoreEffect(o, r) PROVE Waiting'
  BY <1>i, <1>1 DEF RestoreEffect
<1>2. ASSUME NEW o \in Objects, SpawnNewEffect(o) PROVE Waiting'
  BY <1>i, <1>2 DEF SpawnNewEffect
<1>3. ASSUME NEW g \in Starts, BeginEffect(g) PROVE Waiting'
  BY <1>i, <1>3 DEF BeginEffect
<1>4. ASSUME NEW g \in Starts, ParentFoundEffect(g) PROVE Waiting'
  <2> SUFFICES ASSUME NEW k \in Starts, at'[k] = "parent" PROVE ParentIdOf(k[1])' # None
    BY DEF Waiting
  <2>1. at[k] = "parent" /\ ParentIdOf(k[1]) # None /\ k[1] \in Objects /\ g[1] \in Objects
    BY <1>i, <1>4, ObjectOf DEF Waiting, ParentFoundEffect, Moves
  <2>2. id' = id /\ parentId' = parentId
    BY <1>4 DEF ParentFoundEffect, SameIds
  <2>3. CASE k[1] = g[1]
    <3>1. parent'[k[1]] \in Objects /\ id[parent'[k[1]]] # None
      BY <1>i, <1>4, <2>3, NoneApart DEF ListedKnown, ParentFoundEffect
    <3> QED
      BY <3>1, <2>2, NoneApart DEF ParentIdOf
  <2>4. CASE k[1] # g[1]
    <3>1. parent'[k[1]] = parent[k[1]]
      BY <1>4, <2>1, <2>4 DEF ParentFoundEffect
    <3> QED
      BY <2>1, <2>2, <3>1 DEF ParentIdOf
  <2> QED
    BY <2>3, <2>4
<1>5. ASSUME NEW g \in Starts, KeyEffect(g) PROVE Waiting'
  BY <1>i, <1>5 DEF KeyEffect
<1>6. ASSUME NEW g \in Starts, RegistersEffect(g) PROVE Waiting'
  BY <1>i, <1>6 DEF RegistersEffect
<1>7. ASSUME NEW g \in Starts, WriteEffect(g) PROVE Waiting'
  BY <1>i, <1>7 DEF WriteEffect
<1>8. ASSUME NEW g \in Starts, ListEffect(g) PROVE Waiting'
  BY <1>i, <1>8 DEF ListEffect
<1>9. ASSUME NEW g \in Starts, ConnectEffect(g) PROVE Waiting'
  BY <1>i, <1>9 DEF ConnectEffect
<1>10. ASSUME NEW o \in Objects, NEW c \in Objects, PrepInvEventsEffect(o, c) PROVE Waiting'
  BY <1>i, <1>10 DEF PrepInvEventsEffect
<1>11. ASSUME NEW o \in Objects, NEW g \in Starts, StartChildDcEffect(o, g) PROVE Waiting'
  BY <1>i, <1>11 DEF StartChildDcEffect
<1>12. ASSUME NEW h \in Handlers, NEW o \in Objects, NEW i \in Ids, ControlEffect(h, o, i)
       PROVE Waiting'
  BY <1>i, <1>12 DEF ControlEffect
<1>13. ASSUME NEW h \in Handlers, CheckIdEffect(h) PROVE Waiting'
  BY <1>i, <1>13 DEF CheckIdEffect
<1>14. ASSUME NEW h \in Handlers, RenameEffect(h) PROVE Waiting'
  BY <1>i, <1>14 DEF RenameEffect
<1>15. CASE CrashEffect
  BY <1>c, <1>15
<1> QED
  BY Zenon, RGEffects, <1>q, <1>1, <1>2, <1>3, <1>4, <1>5, <1>6, <1>7, <1>8, <1>9, <1>10,
     <1>11, <1>12, <1>13, <1>14, <1>15
     DEF RGEffect

LEMMA TopsPlainStep == RegInv /\ [RGNext]_rgVars => TopsPlain'
<1> SUFFICES ASSUME RegInv, [RGNext]_rgVars PROVE TopsPlain'
  OBVIOUS
<1>i. TopsPlain /\ RestoredKnown /\ Unused
  BY DEF RegInv
<1>c. CASE CrashEffect
  BY <1>i, <1>c, ObjectOf, NoneApart DEF TopsPlain, ParentIdOf, Kept, CrashEffect
<1> SUFFICES ASSUME Kept PROVE TopsPlain'
  BY <1>c, KeptStep
<1> USE ObjectOf, NoneApart
        DEF TopsPlain, ParentIdOf, Kept, Moves, Spawns, SameIds, SameFamily, SameStorage
<1>q. CASE QuietEffect
  BY <1>i, <1>q DEF QuietEffect
<1>1. ASSUME NEW o \in Objects, NEW r \in todo, RestoreEffect(o, r) PROVE TopsPlain'
  BY <1>i, <1>1 DEF RestoreEffect
<1>2. ASSUME NEW o \in Objects, SpawnNewEffect(o) PROVE TopsPlain'
  BY <1>i, <1>2 DEF SpawnNewEffect
<1>3. ASSUME NEW g \in Starts, BeginEffect(g) PROVE TopsPlain'
  BY <1>i, <1>3 DEF BeginEffect
<1>4. ASSUME NEW g \in Starts, ParentFoundEffect(g) PROVE TopsPlain'
  BY <1>i, <1>4 DEF ParentFoundEffect
<1>5. ASSUME NEW g \in Starts, KeyEffect(g) PROVE TopsPlain'
  <2> SUFFICES ASSUME NEW k \in Starts, at'[k] \in {"register", "write"}, parent'[k[1]] = None
               PROVE parentId'[k[1]] = None
    BY DEF TopsPlain
  <2>1. CASE k = g
    BY <1>i, <1>5, <2>1, ObjectOf DEF RestoredKnown, KeyEffect, SameFamily
  <2>2. CASE k # g
    BY <1>i, <1>5, <2>2 DEF TopsPlain, KeyEffect, SameFamily, Moves
  <2> QED
    BY <2>1, <2>2
<1>6. ASSUME NEW g \in Starts, RegistersEffect(g) PROVE TopsPlain'
  BY <1>i, <1>6 DEF RegistersEffect
<1>7. ASSUME NEW g \in Starts, WriteEffect(g) PROVE TopsPlain'
  BY <1>i, <1>7 DEF WriteEffect
<1>8. ASSUME NEW g \in Starts, ListEffect(g) PROVE TopsPlain'
  BY <1>i, <1>8 DEF ListEffect
<1>9. ASSUME NEW g \in Starts, ConnectEffect(g) PROVE TopsPlain'
  BY <1>i, <1>9 DEF ConnectEffect
<1>10. ASSUME NEW o \in Objects, NEW c \in Objects, PrepInvEventsEffect(o, c)
       PROVE TopsPlain'
  BY <1>i, <1>10 DEF PrepInvEventsEffect
<1>11. ASSUME NEW o \in Objects, NEW g \in Starts, StartChildDcEffect(o, g) PROVE TopsPlain'
  BY <1>i, <1>11 DEF StartChildDcEffect
<1>12. ASSUME NEW h \in Handlers, NEW o \in Objects, NEW i \in Ids, ControlEffect(h, o, i)
       PROVE TopsPlain'
  BY <1>i, <1>12 DEF ControlEffect
<1>13. ASSUME NEW h \in Handlers, CheckIdEffect(h) PROVE TopsPlain'
  BY <1>i, <1>13 DEF CheckIdEffect
<1>14. ASSUME NEW h \in Handlers, RenameEffect(h) PROVE TopsPlain'
  BY <1>i, <1>14 DEF RenameEffect
<1>15. CASE CrashEffect
  BY <1>c, <1>15
<1> QED
  BY Zenon, RGEffects, <1>q, <1>1, <1>2, <1>3, <1>4, <1>5, <1>6, <1>7, <1>8, <1>9, <1>10,
     <1>11, <1>12, <1>13, <1>14, <1>15
     DEF RGEffect

LEMMA KeyedStep == RegInv /\ [RGNext]_rgVars => Keyed'
<1> SUFFICES ASSUME RegInv, [RGNext]_rgVars PROVE Keyed'
  OBVIOUS
<1>i. Keyed
  BY DEF RegInv
<1>c. CASE CrashEffect
  BY <1>i, <1>c, ObjectOf, NoneApart DEF Keyed, Kept, CrashEffect
<1> SUFFICES ASSUME Kept PROVE Keyed'
  BY <1>c, KeptStep
<1> USE ObjectOf, NoneApart DEF Keyed, Kept, Moves, Spawns, SameIds, SameFamily, SameStorage
<1>q. CASE QuietEffect
  BY <1>i, <1>q DEF QuietEffect
<1>1. ASSUME NEW o \in Objects, NEW r \in todo, RestoreEffect(o, r) PROVE Keyed'
  BY <1>i, <1>1 DEF RestoreEffect
<1>2. ASSUME NEW o \in Objects, SpawnNewEffect(o) PROVE Keyed'
  BY <1>i, <1>2 DEF SpawnNewEffect
<1>3. ASSUME NEW g \in Starts, BeginEffect(g) PROVE Keyed'
  BY <1>i, <1>3 DEF BeginEffect
<1>4. ASSUME NEW g \in Starts, ParentFoundEffect(g) PROVE Keyed'
  BY <1>i, <1>4 DEF ParentFoundEffect
<1>5. ASSUME NEW g \in Starts, KeyEffect(g) PROVE Keyed'
  BY <1>i, <1>5 DEF KeyEffect
<1>6. ASSUME NEW g \in Starts, RegistersEffect(g) PROVE Keyed'
  BY <1>i, <1>6 DEF RegistersEffect
<1>7. ASSUME NEW g \in Starts, WriteEffect(g) PROVE Keyed'
  BY <1>i, <1>7 DEF WriteEffect
<1>8. ASSUME NEW g \in Starts, ListEffect(g) PROVE Keyed'
  BY <1>i, <1>8 DEF ListEffect
<1>9. ASSUME NEW g \in Starts, ConnectEffect(g) PROVE Keyed'
  BY <1>i, <1>9 DEF ConnectEffect
<1>10. ASSUME NEW o \in Objects, NEW c \in Objects, PrepInvEventsEffect(o, c) PROVE Keyed'
  BY <1>i, <1>10 DEF PrepInvEventsEffect
<1>11. ASSUME NEW o \in Objects, NEW g \in Starts, StartChildDcEffect(o, g) PROVE Keyed'
  BY <1>i, <1>11 DEF StartChildDcEffect
<1>12. ASSUME NEW h \in Handlers, NEW o \in Objects, NEW i \in Ids, ControlEffect(h, o, i)
       PROVE Keyed'
  BY <1>i, <1>12 DEF ControlEffect
<1>13. ASSUME NEW h \in Handlers, CheckIdEffect(h) PROVE Keyed'
  BY <1>i, <1>13 DEF CheckIdEffect
<1>14. ASSUME NEW h \in Handlers, RenameEffect(h) PROVE Keyed'
  BY <1>i, <1>14 DEF RenameEffect
<1>15. CASE CrashEffect
  BY <1>c, <1>15
<1> QED
  BY Zenon, RGEffects, <1>q, <1>1, <1>2, <1>3, <1>4, <1>5, <1>6, <1>7, <1>8, <1>9, <1>10,
     <1>11, <1>12, <1>13, <1>14, <1>15
     DEF RGEffect

LEMMA ListedKnownStep == RegInv /\ [RGNext]_rgVars => ListedKnown'
<1> SUFFICES ASSUME RegInv, [RGNext]_rgVars PROVE ListedKnown'
  OBVIOUS
<1>i. ListedKnown /\ Keyed /\ ListTypes
  BY DEF RegInv
<1>c. CASE CrashEffect
  BY <1>i, <1>c, ObjectOf, NoneApart DEF ListedKnown, Keyed, ListTypes, Kept, CrashEffect
<1> SUFFICES ASSUME Kept PROVE ListedKnown'
  BY <1>c, KeptStep
<1> USE ObjectOf, NoneApart
        DEF ListedKnown, Keyed, ListTypes, Kept, Moves, Spawns, SameIds, SameFamily,
            SameStorage
<1>q. CASE QuietEffect
  BY <1>i, <1>q DEF QuietEffect
<1>1. ASSUME NEW o \in Objects, NEW r \in todo, RestoreEffect(o, r) PROVE ListedKnown'
  BY <1>i, <1>1 DEF RestoreEffect
<1>2. ASSUME NEW o \in Objects, SpawnNewEffect(o) PROVE ListedKnown'
  BY <1>i, <1>2 DEF SpawnNewEffect
<1>3. ASSUME NEW g \in Starts, BeginEffect(g) PROVE ListedKnown'
  BY <1>i, <1>3 DEF BeginEffect
<1>4. ASSUME NEW g \in Starts, ParentFoundEffect(g) PROVE ListedKnown'
  BY <1>i, <1>4 DEF ParentFoundEffect
<1>5. ASSUME NEW g \in Starts, KeyEffect(g) PROVE ListedKnown'
  BY <1>i, <1>5 DEF KeyEffect
<1>6. ASSUME NEW g \in Starts, RegistersEffect(g) PROVE ListedKnown'
  BY <1>i, <1>6 DEF RegistersEffect
<1>7. ASSUME NEW g \in Starts, WriteEffect(g) PROVE ListedKnown'
  BY <1>i, <1>7 DEF WriteEffect
<1>8. ASSUME NEW g \in Starts, ListEffect(g) PROVE ListedKnown'
  BY <1>i, <1>8 DEF ListEffect
<1>9. ASSUME NEW g \in Starts, ConnectEffect(g) PROVE ListedKnown'
  BY <1>i, <1>9 DEF ConnectEffect
<1>10. ASSUME NEW o \in Objects, NEW c \in Objects, PrepInvEventsEffect(o, c)
       PROVE ListedKnown'
  BY <1>i, <1>10 DEF PrepInvEventsEffect
<1>11. ASSUME NEW o \in Objects, NEW g \in Starts, StartChildDcEffect(o, g)
       PROVE ListedKnown'
  BY <1>i, <1>11 DEF StartChildDcEffect
<1>12. ASSUME NEW h \in Handlers, NEW o \in Objects, NEW i \in Ids, ControlEffect(h, o, i)
       PROVE ListedKnown'
  BY <1>i, <1>12 DEF ControlEffect
<1>13. ASSUME NEW h \in Handlers, CheckIdEffect(h) PROVE ListedKnown'
  BY <1>i, <1>13 DEF CheckIdEffect
<1>14. ASSUME NEW h \in Handlers, RenameEffect(h) PROVE ListedKnown'
  BY <1>i, <1>14 DEF RenameEffect
<1>15. CASE CrashEffect
  BY <1>c, <1>15
<1> QED
  BY Zenon, RGEffects, <1>q, <1>1, <1>2, <1>3, <1>4, <1>5, <1>6, <1>7, <1>8, <1>9, <1>10,
     <1>11, <1>12, <1>13, <1>14, <1>15
     DEF RGEffect

LEMMA HandledStep == RegInv /\ [RGNext]_rgVars => Handled'
<1> SUFFICES ASSUME RegInv, [RGNext]_rgVars PROVE Handled'
  OBVIOUS
<1>i. Handled
  BY DEF RegInv
<1>c. CASE CrashEffect
  BY <1>i, <1>c, ObjectOf, NoneApart DEF Handled, Kept, CrashEffect
<1> SUFFICES ASSUME Kept PROVE Handled'
  BY <1>c, KeptStep
<1> USE ObjectOf, NoneApart
        DEF Handled, Kept, Moves, Spawns, SameIds, SameFamily, SameStorage
<1>q. CASE QuietEffect
  BY <1>i, <1>q DEF QuietEffect
<1>1. ASSUME NEW o \in Objects, NEW r \in todo, RestoreEffect(o, r) PROVE Handled'
  BY <1>i, <1>1 DEF RestoreEffect
<1>2. ASSUME NEW o \in Objects, SpawnNewEffect(o) PROVE Handled'
  BY <1>i, <1>2 DEF SpawnNewEffect
<1>3. ASSUME NEW g \in Starts, BeginEffect(g) PROVE Handled'
  BY <1>i, <1>3 DEF BeginEffect
<1>4. ASSUME NEW g \in Starts, ParentFoundEffect(g) PROVE Handled'
  BY <1>i, <1>4 DEF ParentFoundEffect
<1>5. ASSUME NEW g \in Starts, KeyEffect(g) PROVE Handled'
  BY <1>i, <1>5 DEF KeyEffect
<1>6. ASSUME NEW g \in Starts, RegistersEffect(g) PROVE Handled'
  BY <1>i, <1>6 DEF RegistersEffect
<1>7. ASSUME NEW g \in Starts, WriteEffect(g) PROVE Handled'
  BY <1>i, <1>7 DEF WriteEffect
<1>8. ASSUME NEW g \in Starts, ListEffect(g) PROVE Handled'
  BY <1>i, <1>8 DEF ListEffect
<1>9. ASSUME NEW g \in Starts, ConnectEffect(g) PROVE Handled'
  BY <1>i, <1>9 DEF ConnectEffect
<1>10. ASSUME NEW o \in Objects, NEW c \in Objects, PrepInvEventsEffect(o, c) PROVE Handled'
  BY <1>i, <1>10 DEF PrepInvEventsEffect
<1>11. ASSUME NEW o \in Objects, NEW g \in Starts, StartChildDcEffect(o, g) PROVE Handled'
  BY <1>i, <1>11 DEF StartChildDcEffect
<1>12. ASSUME NEW h \in Handlers, NEW o \in Objects, NEW i \in Ids, ControlEffect(h, o, i)
       PROVE Handled'
  BY <1>i, <1>12 DEF ControlEffect
<1>13. ASSUME NEW h \in Handlers, CheckIdEffect(h) PROVE Handled'
  BY <1>i, <1>13 DEF CheckIdEffect
<1>14. ASSUME NEW h \in Handlers, RenameEffect(h) PROVE Handled'
  BY <1>i, <1>14 DEF RenameEffect
<1>15. CASE CrashEffect
  BY <1>c, <1>15
<1> QED
  BY Zenon, RGEffects, <1>q, <1>1, <1>2, <1>3, <1>4, <1>5, <1>6, <1>7, <1>8, <1>9, <1>10,
     <1>11, <1>12, <1>13, <1>14, <1>15
     DEF RGEffect

LEMMA Numbers == ASSUME RegInv PROVE
  /\ regs \in Nat
  /\ \A g \in Starts : access[g] # None => access[g] \in Nat
  /\ \A r \in storage \cup todo : r.key \in Nat /\ r.moid \in Ids /\ r.moid[1] \in Nat
  /\ \A n \in Regs : n \in Nat
<1>1. regs \in Nat /\ \A n \in Regs : n \in Nat
  BY RegistryAssumption DEF RegInv, PlainCloud, Regs
<1>2. \A g \in Starts : access[g] # None => access[g] \in Nat
  BY <1>1 DEF RegInv, StartTypes
<1>3. \A r \in storage \cup todo : r.key \in Nat /\ r.moid \in Ids
  BY <1>1 DEF RegInv, PlainTypes, PlainCloud, Records
<1> QED
  BY <1>1, <1>2, <1>3, NumberOf

LEMMA KeysKnownStep == RegInv /\ [RGNext]_rgVars => KeysKnown'
<1> SUFFICES ASSUME RegInv, [RGNext]_rgVars PROVE KeysKnown'
  OBVIOUS
<1>i. KeysKnown /\ RegInv
  BY DEF RegInv
<1> USE ObjectOf, NoneApart, Numbers
        DEF KeysKnown, Moves, Spawns, SameIds, SameFamily, SameStorage
<1>q. CASE QuietEffect
  BY <1>i, <1>q DEF QuietEffect
<1>1. ASSUME NEW o \in Objects, NEW r \in todo, RestoreEffect(o, r) PROVE KeysKnown'
  BY <1>i, <1>1 DEF RestoreEffect
<1>2. ASSUME NEW o \in Objects, SpawnNewEffect(o) PROVE KeysKnown'
  BY <1>i, <1>2 DEF SpawnNewEffect
<1>3. ASSUME NEW g \in Starts, BeginEffect(g) PROVE KeysKnown'
  BY <1>i, <1>3 DEF BeginEffect
<1>4. ASSUME NEW g \in Starts, ParentFoundEffect(g) PROVE KeysKnown'
  BY <1>i, <1>4 DEF ParentFoundEffect
<1>5. ASSUME NEW g \in Starts, KeyEffect(g) PROVE KeysKnown'
  BY <1>i, <1>5 DEF KeyEffect
<1>6. ASSUME NEW g \in Starts, RegistersEffect(g) PROVE KeysKnown'
  BY <1>i, <1>6 DEF RegistersEffect
<1>7. ASSUME NEW g \in Starts, WriteEffect(g) PROVE KeysKnown'
  <2>1. access[g] # None
    BY <1>i, <1>7 DEF KeysApart, WriteEffect, RegInv
  <2> QED
    BY <1>i, <1>7, <2>1, ObjectOf DEF KeysKnown, WriteEffect, SameIds
<1>8. ASSUME NEW g \in Starts, ListEffect(g) PROVE KeysKnown'
  BY <1>i, <1>8 DEF ListEffect
<1>9. ASSUME NEW g \in Starts, ConnectEffect(g) PROVE KeysKnown'
  BY <1>i, <1>9 DEF ConnectEffect
<1>10. ASSUME NEW o \in Objects, NEW c \in Objects, PrepInvEventsEffect(o, c)
       PROVE KeysKnown'
  BY <1>i, <1>10 DEF PrepInvEventsEffect
<1>11. ASSUME NEW o \in Objects, NEW g \in Starts, StartChildDcEffect(o, g) PROVE KeysKnown'
  BY <1>i, <1>11 DEF StartChildDcEffect
<1>12. ASSUME NEW h \in Handlers, NEW o \in Objects, NEW i \in Ids, ControlEffect(h, o, i)
       PROVE KeysKnown'
  BY <1>i, <1>12 DEF ControlEffect
<1>13. ASSUME NEW h \in Handlers, CheckIdEffect(h) PROVE KeysKnown'
  BY <1>i, <1>13 DEF CheckIdEffect
<1>14. ASSUME NEW h \in Handlers, RenameEffect(h) PROVE KeysKnown'
  BY <1>i, <1>14 DEF RenameEffect
<1>15. CASE CrashEffect
  BY <1>i, <1>15 DEF CrashEffect
<1> QED
  BY Zenon, RGEffects, <1>q, <1>1, <1>2, <1>3, <1>4, <1>5, <1>6, <1>7, <1>8, <1>9, <1>10,
     <1>11, <1>12, <1>13, <1>14, <1>15
     DEF RGEffect

LEMMA KeysApartStep == RegInv /\ [RGNext]_rgVars => KeysApart'
<1> SUFFICES ASSUME RegInv, [RGNext]_rgVars PROVE KeysApart'
  OBVIOUS
<1>i. KeysApart /\ KeysKnown /\ Unused /\ RegInv
  BY DEF RegInv
<1> USE ObjectOf, NoneApart
        DEF KeysApart, Unused, Moves, Spawns, SameIds, SameFamily, SameStorage
<1>q. CASE QuietEffect
  BY <1>i, <1>q DEF QuietEffect
<1>1. ASSUME NEW o \in Objects, NEW r \in todo, RestoreEffect(o, r) PROVE KeysApart'
  BY <1>i, <1>1 DEF RestoreEffect
<1>2. ASSUME NEW o \in Objects, SpawnNewEffect(o) PROVE KeysApart'
  BY <1>i, <1>2 DEF SpawnNewEffect
<1>3. ASSUME NEW g \in Starts, BeginEffect(g) PROVE KeysApart'
  BY <1>i, <1>3 DEF BeginEffect
<1>4. ASSUME NEW g \in Starts, ParentFoundEffect(g) PROVE KeysApart'
  BY <1>i, <1>4 DEF ParentFoundEffect
<1>5. ASSUME NEW g \in Starts, KeyEffect(g) PROVE KeysApart'
  BY <1>i, <1>5 DEF KeyEffect
<1>6. ASSUME NEW g \in Starts, RegistersEffect(g) PROVE KeysApart'
  <2>1. access'[g] = regs + 1 /\ access'[g] # None
    BY <1>6, NoneApart DEF RegistersEffect
  <2>2. \A r \in storage' : r.key # regs + 1
    BY <1>i, <1>6, Numbers DEF KeysKnown, RegistersEffect
  <2>3. \A k \in Starts : access[k] # regs + 1
    BY <1>i, Numbers, <1>6, NoneApart DEF KeysKnown, RegistersEffect
  <2>4. \A k \in Starts : k # g => at'[k] = at[k]
    BY <1>6 DEF RegistersEffect, Moves
  <2>5. \A k \in Starts : k # g => access'[k] = access[k]
    BY <1>6 DEF RegistersEffect
  <2>6. storage' = storage
    BY <1>6 DEF RegistersEffect
  <2> QED
    BY <1>i, <2>1, <2>2, <2>3, <2>4, <2>5, <2>6 DEF KeysApart
<1>7. ASSUME NEW g \in Starts, WriteEffect(g) PROVE KeysApart'
  <2>1. at[g] = "write" /\ at'[g] = "list" /\ \A k \in Starts : k # g => at'[k] = at[k]
    BY <1>7 DEF WriteEffect, Moves
  <2>2. access' = access
    BY <1>7 DEF WriteEffect, SameIds
  <2>3. \A k \in Starts, r \in storage' :
          at'[k] = "write" /\ r.parent = None => r.key # access[k]
    <3> SUFFICES ASSUME NEW k \in Starts, NEW r \in storage', at'[k] = "write", r.parent = None
                 PROVE r.key # access[k]
      OBVIOUS
    <3>1. at[k] = "write" /\ k # g
      BY <2>1
    <3>2. CASE r \in storage
      BY <1>i, <3>1, <3>2 DEF KeysApart
    <3>3. CASE r.key = access[g]
      BY <1>i, <3>1, <3>3, <2>1 DEF KeysApart
    <3> QED
      BY <3>2, <3>3, <1>7 DEF WriteEffect
  <2> QED
    BY <1>i, <2>1, <2>2, <2>3 DEF KeysApart
<1>8. ASSUME NEW g \in Starts, ListEffect(g) PROVE KeysApart'
  BY <1>i, <1>8 DEF ListEffect
<1>9. ASSUME NEW g \in Starts, ConnectEffect(g) PROVE KeysApart'
  BY <1>i, <1>9 DEF ConnectEffect
<1>10. ASSUME NEW o \in Objects, NEW c \in Objects, PrepInvEventsEffect(o, c)
       PROVE KeysApart'
  BY <1>i, <1>10 DEF PrepInvEventsEffect
<1>11. ASSUME NEW o \in Objects, NEW g \in Starts, StartChildDcEffect(o, g) PROVE KeysApart'
  BY <1>i, <1>11 DEF StartChildDcEffect
<1>12. ASSUME NEW h \in Handlers, NEW o \in Objects, NEW i \in Ids, ControlEffect(h, o, i)
       PROVE KeysApart'
  BY <1>i, <1>12 DEF ControlEffect
<1>13. ASSUME NEW h \in Handlers, CheckIdEffect(h) PROVE KeysApart'
  BY <1>i, <1>13 DEF CheckIdEffect
<1>14. ASSUME NEW h \in Handlers, RenameEffect(h) PROVE KeysApart'
  BY <1>i, <1>14 DEF RenameEffect
<1>15. CASE CrashEffect
  BY <1>i, <1>15 DEF CrashEffect
<1> QED
  BY Zenon, RGEffects, <1>q, <1>1, <1>2, <1>3, <1>4, <1>5, <1>6, <1>7, <1>8, <1>9, <1>10,
     <1>11, <1>12, <1>13, <1>14, <1>15
     DEF RGEffect
(***************************************************************************)
(* Registry: the registrations of a device.                                *)
(***************************************************************************)
Forgets == \A p \in Objects, n \in Regs : Bears(p, n)' => Bears(p, n)

LEMMA UnusedBearNone == ASSUME RegInv, NEW o \in Objects, id[o] = None, NEW n \in Regs
  PROVE ~Bears(o, n)
  BY NoneApart DEF RegInv, Handled, Idle, Bears

LEMMA RestoreBears == ASSUME RegInv, NEW o \in Objects, NEW r \in todo, RestoreEffect(o, r)
  PROVE \A p \in Objects, n \in Regs :
          Bears(p, n)' <=> IF p = o THEN n = r.moid[1] ELSE Bears(p, n)
<1> SUFFICES ASSUME NEW p \in Objects, NEW n \in Regs
             PROVE Bears(p, n)' <=> IF p = o THEN n = r.moid[1] ELSE Bears(p, n)
  OBVIOUS
<1>1. ctl' = ctl
  BY DEF RestoreEffect
<1>2. CASE p = o
  <2>1. id[o] = None /\ ~Bears(o, n)
    BY UnusedBearNone DEF RestoreEffect, Spawns
  <2>2. id'[o] = r.moid /\ r.moid # None
    BY DEF RestoreEffect
  <2> QED
    BY <1>1, <1>2, <2>1, <2>2 DEF Bears
<1>3. CASE p # o
  <2>1. id'[p] = id[p]
    BY <1>3 DEF RestoreEffect
  <2> QED
    BY <1>1, <1>3, <2>1 DEF Bears
<1> QED
  BY <1>2, <1>3

LEMMA RegistersBears == ASSUME RegInv, NEW g \in Starts, RegistersEffect(g)
  PROVE \A p \in Objects, n \in Regs :
          Bears(p, n)' => IF p = g[1] THEN Bears(p, n) \/ n = regs + 1 ELSE Bears(p, n)
<1> SUFFICES ASSUME NEW p \in Objects, NEW n \in Regs, Bears(p, n)'
             PROVE IF p = g[1] THEN Bears(p, n) \/ n = regs + 1 ELSE Bears(p, n)
  OBVIOUS
<1>1. ctl' = ctl
  BY DEF RegistersEffect
<1>2. CASE p = g[1]
  <2>1. id'[p][1] = regs + 1
    BY <1>2 DEF RegistersEffect
  <2> QED
    BY <1>1, <1>2, <2>1 DEF Bears
<1>3. CASE p # g[1]
  <2>1. id'[p] = id[p]
    BY <1>3 DEF RegistersEffect
  <2> QED
    BY <1>1, <1>3, <2>1 DEF Bears
<1> QED
  BY <1>2, <1>3

LEMMA SameBears == ASSUME id' = id, ctl' = ctl PROVE Forgets
  BY DEF Forgets, Bears

LEMMA ControlBears ==
  ASSUME NEW h \in Handlers, NEW o \in Objects, NEW i \in Ids, ControlEffect(h, o, i)
  PROVE Forgets
<1> SUFFICES ASSUME NEW p \in Objects, NEW n \in Regs, Bears(p, n)' PROVE Bears(p, n)
  BY DEF Forgets
<1>1. id' = id
  BY DEF ControlEffect, SameIds
<1>2. CASE id'[p] # None /\ id'[p][1] = n
  BY <1>1, <1>2 DEF Bears
<1>3. ASSUME NEW k \in Handlers, ctl'[k].obj = p,
             ctl'[k].new[1] = n \/ (ctl'[k].at = "rename" /\ ctl'[k].old[1] = n)
      PROVE Bears(p, n)
  <2>1. CASE k = h
    BY <1>3, <2>1 DEF ControlEffect, Bears
  <2>2. CASE k # h
    BY <1>3, <2>2 DEF ControlEffect, Bears
  <2> QED
    BY <2>1, <2>2
<1> QED
  BY <1>2, <1>3 DEF Bears

LEMMA CheckIdBears == ASSUME RegInv, NEW h \in Handlers, CheckIdEffect(h) PROVE Forgets
<1> SUFFICES ASSUME NEW p \in Objects, NEW n \in Regs, Bears(p, n)' PROVE Bears(p, n)
  BY DEF Forgets
<1>1. id' = id
  BY DEF CheckIdEffect, SameIds
<1>2. CASE id'[p] # None /\ id'[p][1] = n
  BY <1>1, <1>2 DEF Bears
<1>3. ASSUME NEW k \in Handlers, ctl'[k].obj = p,
             ctl'[k].new[1] = n \/ (ctl'[k].at = "rename" /\ ctl'[k].old[1] = n)
      PROVE Bears(p, n)
  <2>1. CASE k = h /\ ctl'[h] = Idle
    BY <1>3, <2>1, NoneApart DEF Idle
  <2>2. CASE k = h /\ ctl'[h] # Idle
    <3>1. /\ ctl[h].obj = p /\ ctl'[h].new = ctl[h].new
          /\ ctl'[h].old = id[p] /\ id[p] \in Ids
      BY <1>3, <2>2 DEF CheckIdEffect
    <3> QED
      BY <1>3, <2>2, <3>1, NoneApart DEF Bears
  <2>3. CASE k # h
    BY <1>3, <2>3 DEF CheckIdEffect, Bears
  <2> QED
    BY <2>1, <2>2, <2>3
<1> QED
  BY <1>2, <1>3 DEF Bears

LEMMA RenameBears == ASSUME RegInv, NEW h \in Handlers, RenameEffect(h) PROVE Forgets
<1> SUFFICES ASSUME NEW p \in Objects, NEW n \in Regs, Bears(p, n)' PROVE Bears(p, n)
  BY DEF Forgets
<1>1. CASE id'[p] # None /\ id'[p][1] = n
  <2>1. CASE p = ctl[h].obj
    BY <1>1, <2>1 DEF RenameEffect, Bears
  <2>2. CASE p # ctl[h].obj
    BY <1>1, <2>2 DEF RenameEffect, Bears
  <2> QED
    BY <2>1, <2>2
<1>2. ASSUME NEW k \in Handlers, ctl'[k].obj = p,
             ctl'[k].new[1] = n \/ (ctl'[k].at = "rename" /\ ctl'[k].old[1] = n)
      PROVE Bears(p, n)
  <2>1. CASE k = h
    BY <1>2, <2>1, NoneApart DEF RenameEffect, Idle
  <2>2. CASE k # h
    BY <1>2, <2>2 DEF RenameEffect, Bears
  <2> QED
    BY <2>1, <2>2
<1> QED
  BY <1>1, <1>2 DEF Bears

LEMMA CrashBears == ASSUME CrashEffect PROVE \A p \in Objects, n \in Regs : ~Bears(p, n)'
  BY NoneApart DEF CrashEffect, Bears, Idle

LEMMA OriginsKept == ASSUME Origins, Forgets, todo' \subseteq todo,
    \A g \in Starts : at'[g] = "register" =>
      at[g] = "register" \/ \A n \in Regs : ~Bears(g[1], n)
  PROVE Origins'
<1>1. ASSUME NEW o \in Objects, Single(o) PROVE Single(o)'
  BY <1>1 DEF Forgets, Single
<1>2. ASSUME NEW o \in Objects, Own(o) PROVE Own(o)'
  BY <1>2 DEF Forgets, Own
<1>3. ASSUME NEW o \in Objects, \A n \in Regs : ~Bears(o, n) PROVE Own(o)
  BY <1>3 DEF Own
<1> QED
  BY <1>1, <1>2, <1>3, ObjectOf DEF Origins

LEMMA OriginsNone == ASSUME \A p \in Objects, n \in Regs : ~Bears(p, n)' PROVE Origins'
  BY ObjectOf DEF Origins, Own

LEMMA OriginsStep == RegInv /\ [RGNext]_rgVars => Origins'
<1> SUFFICES ASSUME RegInv, [RGNext]_rgVars PROVE Origins'
  OBVIOUS
<1>i. RegInv /\ Origins /\ NumbersKnown
  BY DEF RegInv
<1>q. CASE QuietEffect
  <2>1. Forgets
    BY <1>q, SameBears DEF QuietEffect, SameIds
  <2>2. CASE todo' = todo
    <3>1. at' = at
      BY <1>q DEF QuietEffect
    <3> QED
      BY <1>i, <2>1, <2>2, <3>1, OriginsKept
  <2>3. CASE spawner = "load"
    <3>1. \A o \in Objects : id[o] = None
      BY <2>3 DEF RegInv, Loading, Unused
    <3>2. \A p \in Objects, n \in Regs : ~Bears(p, n)'
      BY <1>i, <2>1, <3>1, UnusedBearNone DEF Forgets
    <3> QED
      BY <3>2, OriginsNone
  <2> QED
    BY <1>q, <2>2, <2>3 DEF QuietEffect
<1>1. ASSUME NEW o \in Objects, NEW r \in todo, RestoreEffect(o, r) PROVE Origins'
  <2>1. \A p \in Objects, n \in Regs :
          Bears(p, n)' <=> IF p = o THEN n = r.moid[1] ELSE Bears(p, n)
    BY <1>i, <1>1, RestoreBears
  <2>2. r \in todo /\ todo' \subseteq todo
    BY <1>1 DEF RestoreEffect
  <2>3. Single(o)'
    BY <2>1 DEF Single
  <2>4. ASSUME NEW p \in Objects, p # o, Single(p) PROVE Single(p)'
    BY <2>1, <2>4 DEF Single
  <2>5. ASSUME NEW p \in Objects, p # o, Own(p) PROVE Own(p)'
    <3> SUFFICES ASSUME NEW n \in Regs, Bears(p, n)'
                 PROVE /\ \A q \in Objects \ {p} : ~Bears(q, n)'
                       /\ \A s \in todo' : s.moid[1] # n
      BY DEF Own
    <3>1. Bears(p, n)
      BY <2>1, <2>5
    <3>2. /\ \A q \in Objects \ {p} : ~Bears(q, n)
          /\ \A s \in todo : s.moid[1] # n
      BY <3>1, <2>5 DEF Own
    <3> QED
      BY <3>2, <2>1, <2>2
  <2>6. \A k \in Starts : at'[k] = "register" => at[k] = "register" /\ k[1] # o
    BY <1>1 DEF RestoreEffect, Spawns
  <2> QED
    BY <1>i, <2>3, <2>4, <2>5, <2>6, ObjectOf DEF Origins
<1>2. ASSUME NEW o \in Objects, SpawnNewEffect(o) PROVE Origins'
  <2>1. Forgets
    BY <1>2, SameBears DEF SpawnNewEffect, SameIds
  <2>2. todo' \subseteq todo
    BY <1>2 DEF SpawnNewEffect, SameStorage
  <2>3. \A k \in Starts : at'[k] = "register" => at[k] = "register"
    BY <1>2 DEF SpawnNewEffect, Moves, Spawns
  <2> QED
    BY <1>i, <2>1, <2>2, <2>3, OriginsKept
<1>3. ASSUME NEW g \in Starts, BeginEffect(g) PROVE Origins'
  <2>1. Forgets
    BY <1>3, SameBears DEF BeginEffect, SameIds
  <2>2. todo' \subseteq todo
    BY <1>3 DEF BeginEffect, SameStorage
  <2>3. \A k \in Starts : at'[k] = "register" => at[k] = "register"
    BY <1>3 DEF BeginEffect, Moves, Spawns
  <2> QED
    BY <1>i, <2>1, <2>2, <2>3, OriginsKept
<1>4. ASSUME NEW g \in Starts, ParentFoundEffect(g) PROVE Origins'
  <2>1. Forgets
    BY <1>4, SameBears DEF ParentFoundEffect, SameIds
  <2>2. todo' \subseteq todo
    BY <1>4 DEF ParentFoundEffect, SameStorage
  <2>3. \A k \in Starts : at'[k] = "register" => at[k] = "register"
    BY <1>4 DEF ParentFoundEffect, Moves, Spawns
  <2> QED
    BY <1>i, <2>1, <2>2, <2>3, OriginsKept
<1>5. ASSUME NEW g \in Starts, KeyEffect(g) PROVE Origins'
  <2>1. Forgets
    BY <1>5, SameBears DEF KeyEffect
  <2>2. todo' \subseteq todo
    BY <1>5 DEF KeyEffect, SameStorage
  <2>3. \A k \in Starts : at'[k] = "register" => at[k] = "register" \/ id[k[1]] = None
    BY <1>5 DEF KeyEffect, Moves
  <2>4. \A k \in Starts : at'[k] = "register" =>
          at[k] = "register" \/ \A n \in Regs : ~Bears(k[1], n)
    BY <1>i, <2>3, UnusedBearNone, ObjectOf
  <2> QED
    BY <1>i, <2>1, <2>2, <2>4, OriginsKept
<1>6. ASSUME NEW g \in Starts, RegistersEffect(g) PROVE Origins'
  <2> DEFINE o == g[1]
  <2>1. o \in Objects /\ Own(o) /\ regs + 1 \in Regs
    BY <1>i, <1>6, ObjectOf DEF Origins, RegistersEffect
  <2>2. \A p \in Objects, n \in Regs :
          Bears(p, n)' => IF p = o THEN Bears(p, n) \/ n = regs + 1 ELSE Bears(p, n)
    BY <1>i, <1>6, RegistersBears
  <2>3. \A p \in Objects : ~Bears(p, regs + 1)
    BY <1>i, <2>1, Numbers DEF NumbersKnown
  <2>4. \A s \in todo : s.moid[1] # regs + 1
    BY <1>i, Numbers DEF NumbersKnown
  <2>5. todo' = todo
    BY <1>6 DEF RegistersEffect
  <2>6. Own(o)'
    <3> SUFFICES ASSUME NEW n \in Regs, Bears(o, n)'
                 PROVE /\ \A q \in Objects \ {o} : ~Bears(q, n)'
                       /\ \A s \in todo' : s.moid[1] # n
      BY DEF Own
    <3>1. CASE n = regs + 1
      BY <3>1, <2>2, <2>3, <2>4, <2>5
    <3>2. CASE n # regs + 1
      <4>1. Bears(o, n)
        BY <3>2, <2>1, <2>2
      <4> QED
        BY <4>1, <2>1, <2>2, <2>5 DEF Own
    <3> QED
      BY <3>1, <3>2
  <2>7. ASSUME NEW p \in Objects, p # o, Single(p) PROVE Single(p)'
    BY <2>2, <2>7 DEF Single
  <2>8. ASSUME NEW p \in Objects, p # o, Own(p) PROVE Own(p)'
    <3> SUFFICES ASSUME NEW n \in Regs, Bears(p, n)'
                 PROVE /\ \A q \in Objects \ {p} : ~Bears(q, n)'
                       /\ \A s \in todo' : s.moid[1] # n
      BY DEF Own
    <3>1. Bears(p, n) /\ n # regs + 1
      BY <2>2, <2>3, <2>8
    <3>2. /\ \A q \in Objects \ {p} : ~Bears(q, n)
          /\ \A s \in todo : s.moid[1] # n
      BY <3>1, <2>8 DEF Own
    <3> QED
      BY <3>1, <3>2, <2>2, <2>5
  <2>9. \A k \in Starts : at'[k] = "register" => at[k] = "register"
    BY <1>6 DEF RegistersEffect, Moves
  <2> QED
    BY <1>i, <2>1, <2>6, <2>7, <2>8, <2>9, ObjectOf DEF Origins
<1>7. ASSUME NEW g \in Starts, WriteEffect(g) PROVE Origins'
  <2>1. Forgets
    BY <1>7, SameBears DEF WriteEffect, SameIds
  <2>2. todo' \subseteq todo
    BY <1>7 DEF WriteEffect, SameStorage
  <2>3. \A k \in Starts : at'[k] = "register" => at[k] = "register"
    BY <1>7 DEF WriteEffect, Moves, Spawns
  <2> QED
    BY <1>i, <2>1, <2>2, <2>3, OriginsKept
<1>8. ASSUME NEW g \in Starts, ListEffect(g) PROVE Origins'
  <2>1. Forgets
    BY <1>8, SameBears DEF ListEffect, SameIds
  <2>2. todo' \subseteq todo
    BY <1>8 DEF ListEffect, SameStorage
  <2>3. \A k \in Starts : at'[k] = "register" => at[k] = "register"
    BY <1>8 DEF ListEffect, Moves, Spawns
  <2> QED
    BY <1>i, <2>1, <2>2, <2>3, OriginsKept
<1>9. ASSUME NEW g \in Starts, ConnectEffect(g) PROVE Origins'
  <2>1. Forgets
    BY <1>9, SameBears DEF ConnectEffect, SameIds
  <2>2. todo' \subseteq todo
    BY <1>9 DEF ConnectEffect, SameStorage
  <2>3. \A k \in Starts : at'[k] = "register" => at[k] = "register"
    BY <1>9 DEF ConnectEffect, Moves, Spawns
  <2> QED
    BY <1>i, <2>1, <2>2, <2>3, OriginsKept
<1>10. ASSUME NEW o \in Objects, NEW c \in Objects, PrepInvEventsEffect(o, c) PROVE Origins'
  <2>1. Forgets
    BY <1>10, SameBears DEF PrepInvEventsEffect, SameIds
  <2>2. todo' \subseteq todo
    BY <1>10 DEF PrepInvEventsEffect, SameStorage
  <2>3. \A k \in Starts : at'[k] = "register" => at[k] = "register"
    BY <1>10 DEF PrepInvEventsEffect, Moves, Spawns
  <2> QED
    BY <1>i, <2>1, <2>2, <2>3, OriginsKept
<1>11. ASSUME NEW o \in Objects, NEW g \in Starts, StartChildDcEffect(o, g) PROVE Origins'
  <2>1. Forgets
    BY <1>11, SameBears DEF StartChildDcEffect, SameIds
  <2>2. todo' \subseteq todo
    BY <1>11 DEF StartChildDcEffect, SameStorage
  <2>3. \A k \in Starts : at'[k] = "register" => at[k] = "register"
    BY <1>11 DEF StartChildDcEffect, Moves, Spawns
  <2> QED
    BY <1>i, <2>1, <2>2, <2>3, OriginsKept
<1>12. ASSUME NEW h \in Handlers, NEW o \in Objects, NEW i \in Ids, ControlEffect(h, o, i)
       PROVE Origins'
  <2>1. Forgets
    BY <1>12, ControlBears DEF ControlEffect, SameIds
  <2>2. todo' \subseteq todo
    BY <1>12 DEF ControlEffect, SameStorage
  <2>3. \A k \in Starts : at'[k] = "register" => at[k] = "register"
    BY <1>12 DEF ControlEffect, Moves, Spawns
  <2> QED
    BY <1>i, <2>1, <2>2, <2>3, OriginsKept
<1>13. ASSUME NEW h \in Handlers, CheckIdEffect(h) PROVE Origins'
  <2>1. Forgets
    BY <1>13, CheckIdBears DEF CheckIdEffect, SameIds
  <2>2. todo' \subseteq todo
    BY <1>13 DEF CheckIdEffect, SameStorage
  <2>3. \A k \in Starts : at'[k] = "register" => at[k] = "register"
    BY <1>13 DEF CheckIdEffect, Moves, Spawns
  <2> QED
    BY <1>i, <2>1, <2>2, <2>3, OriginsKept
<1>14. ASSUME NEW h \in Handlers, RenameEffect(h) PROVE Origins'
  <2>1. Forgets
    BY <1>14, RenameBears DEF RenameEffect, SameIds
  <2>2. todo' \subseteq todo
    BY <1>14 DEF RenameEffect, SameStorage
  <2>3. \A k \in Starts : at'[k] = "register" => at[k] = "register"
    BY <1>14 DEF RenameEffect, Moves, Spawns
  <2> QED
    BY <1>i, <2>1, <2>2, <2>3, OriginsKept
<1>15. CASE CrashEffect
  BY <1>15, CrashBears, OriginsNone
<1> QED
  BY Zenon, RGEffects, <1>q, <1>1, <1>2, <1>3, <1>4, <1>5, <1>6, <1>7, <1>8, <1>9, <1>10,
     <1>11, <1>12, <1>13, <1>14, <1>15
     DEF RGEffect

LEMMA NumbersKept ==
  ASSUME NumbersKnown, Forgets, regs' = regs, storage' \cup todo' \subseteq storage \cup todo
  PROVE NumbersKnown'
<1>1. \A o \in Objects, n \in Regs : Bears(o, n)' => n <= regs'
  BY DEF NumbersKnown, Forgets
<1>2. \A r \in (storage \cup todo)' : r.moid[1] <= regs'
  BY DEF NumbersKnown
<1> QED
  BY <1>1, <1>2 DEF NumbersKnown

LEMMA NumbersKnownStep == RegInv /\ [RGNext]_rgVars => NumbersKnown'
<1> SUFFICES ASSUME RegInv, [RGNext]_rgVars PROVE NumbersKnown'
  OBVIOUS
<1>i. RegInv /\ NumbersKnown
  BY DEF RegInv
<1>q. CASE QuietEffect
  <2>1. Forgets
    BY <1>q, SameBears DEF QuietEffect, SameIds
  <2>2. regs' = regs /\ storage' \cup todo' \subseteq storage \cup todo
    BY <1>q DEF QuietEffect, SameStorage
  <2> QED
    BY <1>i, <2>1, <2>2, NumbersKept
<1>1. ASSUME NEW o \in Objects, NEW r \in todo, RestoreEffect(o, r) PROVE NumbersKnown'
  <2>1. \A p \in Objects, n \in Regs :
          Bears(p, n)' <=> IF p = o THEN n = r.moid[1] ELSE Bears(p, n)
    BY <1>i, <1>1, RestoreBears
  <2>2. r \in todo /\ regs' = regs /\ storage' = storage /\ todo' \subseteq todo
    BY <1>1 DEF RestoreEffect
  <2> QED
    BY <1>i, <2>1, <2>2 DEF NumbersKnown
<1>2. ASSUME NEW o \in Objects, SpawnNewEffect(o) PROVE NumbersKnown'
  <2>1. Forgets
    BY <1>2, SameBears DEF SpawnNewEffect, SameIds
  <2>2. regs' = regs /\ storage' \cup todo' \subseteq storage \cup todo
    BY <1>2 DEF SpawnNewEffect, SameStorage
  <2> QED
    BY <1>i, <2>1, <2>2, NumbersKept
<1>3. ASSUME NEW g \in Starts, BeginEffect(g) PROVE NumbersKnown'
  <2>1. Forgets
    BY <1>3, SameBears DEF BeginEffect, SameIds
  <2>2. regs' = regs /\ storage' \cup todo' \subseteq storage \cup todo
    BY <1>3 DEF BeginEffect, SameStorage
  <2> QED
    BY <1>i, <2>1, <2>2, NumbersKept
<1>4. ASSUME NEW g \in Starts, ParentFoundEffect(g) PROVE NumbersKnown'
  <2>1. Forgets
    BY <1>4, SameBears DEF ParentFoundEffect, SameIds
  <2>2. regs' = regs /\ storage' \cup todo' \subseteq storage \cup todo
    BY <1>4 DEF ParentFoundEffect, SameStorage
  <2> QED
    BY <1>i, <2>1, <2>2, NumbersKept
<1>5. ASSUME NEW g \in Starts, KeyEffect(g) PROVE NumbersKnown'
  <2>1. Forgets
    BY <1>5, SameBears DEF KeyEffect, SameIds
  <2>2. regs' = regs /\ storage' \cup todo' \subseteq storage \cup todo
    BY <1>5 DEF KeyEffect, SameStorage
  <2> QED
    BY <1>i, <2>1, <2>2, NumbersKept
<1>6. ASSUME NEW g \in Starts, RegistersEffect(g) PROVE NumbersKnown'
  <2>1. \A p \in Objects, n \in Regs :
          Bears(p, n)' => IF p = g[1] THEN Bears(p, n) \/ n = regs + 1 ELSE Bears(p, n)
    BY <1>i, <1>6, RegistersBears
  <2>2. regs' = regs + 1 /\ storage' = storage /\ todo' = todo
    BY <1>6 DEF RegistersEffect
  <2>3. \A p \in Objects, n \in Regs : Bears(p, n)' => n <= regs + 1
    BY <1>i, <2>1, Numbers DEF NumbersKnown
  <2>4. \A r \in storage \cup todo : r.moid[1] <= regs + 1
    BY <1>i, Numbers DEF NumbersKnown
  <2> QED
    BY <2>2, <2>3, <2>4 DEF NumbersKnown
<1>7. ASSUME NEW g \in Starts, WriteEffect(g) PROVE NumbersKnown'
  <2>1. Forgets
    BY <1>7, SameBears DEF WriteEffect, SameIds
  <2>2. regs' = regs /\ todo' = todo
    BY <1>7 DEF WriteEffect
  <2>3. Bears(g[1], id[g[1]][1]) /\ id[g[1]][1] \in Regs
    <3>1. g[1] \in Objects /\ id[g[1]] # None
      BY <1>7, ObjectOf DEF WriteEffect, RegInv, Identified
    <3>2. id[g[1]] \in Ids
      BY <3>1 DEF RegInv, StartTypes
    <3> QED
      BY <3>1, <3>2, NumberOf DEF Bears
  <2>4. \A r \in storage' : r.moid[1] <= regs
    BY <1>i, <1>7, <2>3, ObjectOf DEF NumbersKnown, WriteEffect
  <2>5. \A o \in Objects, n \in Regs : Bears(o, n)' => n <= regs
    BY <1>i, <2>1 DEF NumbersKnown, Forgets
  <2> QED
    BY <1>i, <2>2, <2>4, <2>5 DEF NumbersKnown
<1>8. ASSUME NEW g \in Starts, ListEffect(g) PROVE NumbersKnown'
  <2>1. Forgets
    BY <1>8, SameBears DEF ListEffect, SameIds
  <2>2. regs' = regs /\ storage' \cup todo' \subseteq storage \cup todo
    BY <1>8 DEF ListEffect, SameStorage
  <2> QED
    BY <1>i, <2>1, <2>2, NumbersKept
<1>9. ASSUME NEW g \in Starts, ConnectEffect(g) PROVE NumbersKnown'
  <2>1. Forgets
    BY <1>9, SameBears DEF ConnectEffect, SameIds
  <2>2. regs' = regs /\ storage' \cup todo' \subseteq storage \cup todo
    BY <1>9 DEF ConnectEffect, SameStorage
  <2> QED
    BY <1>i, <2>1, <2>2, NumbersKept
<1>10. ASSUME NEW o \in Objects, NEW c \in Objects, PrepInvEventsEffect(o, c)
       PROVE NumbersKnown'
  <2>1. Forgets
    BY <1>10, SameBears DEF PrepInvEventsEffect, SameIds
  <2>2. regs' = regs /\ storage' \cup todo' \subseteq storage \cup todo
    BY <1>10 DEF PrepInvEventsEffect, SameStorage
  <2> QED
    BY <1>i, <2>1, <2>2, NumbersKept
<1>11. ASSUME NEW o \in Objects, NEW g \in Starts, StartChildDcEffect(o, g)
       PROVE NumbersKnown'
  <2>1. Forgets
    BY <1>11, SameBears DEF StartChildDcEffect, SameIds
  <2>2. regs' = regs /\ storage' \cup todo' \subseteq storage \cup todo
    BY <1>11 DEF StartChildDcEffect, SameStorage
  <2> QED
    BY <1>i, <2>1, <2>2, NumbersKept
<1>12. ASSUME NEW h \in Handlers, NEW o \in Objects, NEW i \in Ids, ControlEffect(h, o, i)
       PROVE NumbersKnown'
  <2>1. Forgets
    BY <1>12, ControlBears DEF ControlEffect, SameIds
  <2>2. regs' = regs /\ storage' \cup todo' \subseteq storage \cup todo
    BY <1>12 DEF ControlEffect, SameStorage
  <2> QED
    BY <1>i, <2>1, <2>2, NumbersKept
<1>13. ASSUME NEW h \in Handlers, CheckIdEffect(h) PROVE NumbersKnown'
  <2>1. Forgets
    BY <1>13, CheckIdBears DEF CheckIdEffect, SameIds
  <2>2. regs' = regs /\ storage' \cup todo' \subseteq storage \cup todo
    BY <1>13 DEF CheckIdEffect, SameStorage
  <2> QED
    BY <1>i, <2>1, <2>2, NumbersKept
<1>14. ASSUME NEW h \in Handlers, RenameEffect(h) PROVE NumbersKnown'
  <2>1. Forgets
    BY <1>14, RenameBears DEF RenameEffect, SameIds
  <2>2. regs' = regs /\ storage' \cup todo' \subseteq storage \cup todo
    BY <1>14 DEF RenameEffect, SameStorage
  <2> QED
    BY <1>i, <2>1, <2>2, NumbersKept
<1>15. CASE CrashEffect
  <2>1. \A o \in Objects, n \in Regs : ~Bears(o, n)'
    BY <1>15, CrashBears
  <2>2. regs' = regs /\ storage' = storage /\ todo' = {}
    BY <1>15 DEF CrashEffect
  <2> QED
    BY <1>i, <2>1, <2>2 DEF NumbersKnown
<1> QED
  BY Zenon, RGEffects, <1>q, <1>1, <1>2, <1>3, <1>4, <1>5, <1>6, <1>7, <1>8, <1>9, <1>10,
     <1>11, <1>12, <1>13, <1>14, <1>15
     DEF RGEffect
(***************************************************************************)
(* Registry: a device that is listed stays listed.                         *)
(***************************************************************************)
Placed(o) ==
  /\ \E g \in Starts : g[1] = o /\ at[g] \in {"connect", "started"}
  /\ \A g \in Starts : g[1] = o => at[g] \notin {"write", "list"}

LEMMA PlacedKnown == ASSUME RegInv, NEW o \in Objects, Placed(o) PROVE id[o] \in Ids
<1>1. id[o] # None
  BY DEF RegInv, Identified, Placed
<1> QED
  BY <1>1 DEF RegInv, StartTypes

LEMMA PlacedInUse == ASSUME RegInv, NEW o \in Objects, Placed(o) PROVE o \in exists
  BY DEF RegInv, Unused, Placed

\* A device keeps its place on the list if no other one is put on or taken off there.

LEMMA EnrolledKept == ASSUME RegInv,
    \A o \in Objects : Placed(o)' => Placed(o),
    \A o \in Objects : Placed(o) =>
      /\ id'[o] = id[o] /\ (Alone(o)' => Alone(o))
      /\ Alone(o) => emulators'[id[o]] = emulators[id[o]]
  PROVE Enrolled'
<1> SUFFICES ASSUME NEW o \in Objects, Placed(o)', Alone(o)' PROVE emulators'[id'[o]] = o
  BY DEF Enrolled, Placed
<1>1. Placed(o) /\ Alone(o)
  OBVIOUS
<1>2. emulators[id[o]] = o
  BY <1>1 DEF RegInv, Enrolled, Placed
<1> QED
  BY <1>1, <1>2

LEMMA SameAlone == ASSUME id' = id, NEW o \in Objects PROVE Alone(o)' => Alone(o)
  BY DEF Alone

LEMMA EnrolledStep == RegInv /\ [RGNext]_rgVars => Enrolled'
<1> SUFFICES ASSUME RegInv, [RGNext]_rgVars PROVE Enrolled'
  OBVIOUS
<1>i. RegInv
  BY DEF RegInv
<1>q. CASE QuietEffect
  <2>1. \A o \in Objects : Placed(o)' => Placed(o)
    BY <1>i, <1>q, ObjectOf
       DEF Placed, QuietEffect, Moves, Spawns, SameIds, SameFamily, SameStorage
  <2>2. id' = id /\ emulators' = emulators
    BY <1>q DEF QuietEffect, SameIds
  <2> QED
    BY <1>i, <2>1, <2>2, SameAlone, EnrolledKept
<1>1. ASSUME NEW o \in Objects, NEW r \in todo, RestoreEffect(o, r) PROVE Enrolled'
  <2>1. \A p \in Objects : Placed(p)' => Placed(p)
    BY <1>1, ObjectOf DEF Placed, RestoreEffect, Spawns
  <2>2. \A p \in Objects : Placed(p) => p # o
    BY <1>i, <1>1, PlacedInUse DEF RestoreEffect, Spawns
  <2>3. /\ emulators' = emulators /\ id[o] = None
        /\ \A p \in Objects : p # o => id'[p] = id[p]
    BY <1>1 DEF RestoreEffect, Spawns
  <2>4. \A p \in Objects : p # o /\ Alone(p)' => Alone(p)
    BY <2>3 DEF Alone
  <2> QED
    BY <1>i, <2>1, <2>2, <2>3, <2>4, EnrolledKept
<1>2. ASSUME NEW o \in Objects, SpawnNewEffect(o) PROVE Enrolled'
  <2>1. \A p \in Objects : Placed(p)' => Placed(p)
    BY <1>i, <1>2, ObjectOf
       DEF Placed, SpawnNewEffect, Moves, Spawns, SameIds, SameFamily, SameStorage
  <2>2. id' = id /\ emulators' = emulators
    BY <1>2 DEF SpawnNewEffect, SameIds
  <2> QED
    BY <1>i, <2>1, <2>2, SameAlone, EnrolledKept
<1>3. ASSUME NEW g \in Starts, BeginEffect(g) PROVE Enrolled'
  <2>1. \A o \in Objects : Placed(o)' => Placed(o)
    BY <1>i, <1>3, ObjectOf
       DEF Placed, BeginEffect, Moves, Spawns, SameIds, SameFamily, SameStorage
  <2>2. id' = id /\ emulators' = emulators
    BY <1>3 DEF BeginEffect, SameIds
  <2> QED
    BY <1>i, <2>1, <2>2, SameAlone, EnrolledKept
<1>4. ASSUME NEW g \in Starts, ParentFoundEffect(g) PROVE Enrolled'
  <2>1. \A o \in Objects : Placed(o)' => Placed(o)
    BY <1>i, <1>4, ObjectOf
       DEF Placed, ParentFoundEffect, Moves, Spawns, SameIds, SameFamily, SameStorage
  <2>2. id' = id /\ emulators' = emulators
    BY <1>4 DEF ParentFoundEffect, SameIds
  <2> QED
    BY <1>i, <2>1, <2>2, SameAlone, EnrolledKept
<1>5. ASSUME NEW g \in Starts, KeyEffect(g) PROVE Enrolled'
  <2>1. id' = id /\ g[1] \in Objects
    BY <1>5, ObjectOf DEF KeyEffect, SameIds
  <2> SUFFICES ASSUME NEW o \in Objects, Placed(o)', Alone(o)' PROVE emulators'[id'[o]] = o
    BY DEF Enrolled, Placed
  <2>2. Alone(o)
    BY <2>1 DEF Alone
  <2>3. CASE o = g[1]
    <3>1. CASE id[g[1]] # None
      BY <1>5, <1>i, <2>1, <2>3, <3>1 DEF KeyEffect, RegInv, Keyed
    <3>2. CASE id[g[1]] = None
      <4>1. at'[g] = "register" /\ Moves(g)
        BY <1>5, <3>2 DEF KeyEffect
      <4>2. PICK k \in Starts : k[1] = o /\ at'[k] \in {"connect", "started"}
        BY DEF Placed
      <4>3. at[k] \in {"connect", "started"}
        BY <4>1, <4>2 DEF Moves
      <4> QED
        BY <1>i, <2>3, <3>2, <4>2, <4>3 DEF RegInv, Identified
    <3> QED
      BY <3>1, <3>2
  <2>4. CASE o # g[1]
    <3>1. Placed(o)
      BY <1>5, <2>4 DEF Placed, KeyEffect, Moves
    <3>2. id[o] \in Ids
      BY <1>i, <3>1, PlacedKnown
    <3>3. id[o] # id[g[1]]
      BY <2>1, <2>2, <2>4, <3>2, NoneApart DEF Alone
    <3>4. emulators'[id[o]] = emulators[id[o]]
      BY <1>5, <3>2, <3>3 DEF KeyEffect
    <3>5. emulators[id[o]] = o
      BY <1>i, <3>1, <2>2 DEF RegInv, Enrolled, Placed
    <3> QED
      BY <3>4, <3>5, <2>1
  <2> QED
    BY <2>3, <2>4
<1>6. ASSUME NEW g \in Starts, RegistersEffect(g) PROVE Enrolled'
  <2>1. \A p \in Objects : Placed(p)' => Placed(p) /\ p # g[1]
    BY <1>6, ObjectOf DEF Placed, RegistersEffect, Moves
  <2>2. emulators' = emulators /\ \A p \in Objects : p # g[1] => id'[p] = id[p]
    BY <1>6 DEF RegistersEffect
  <2>3. Own(g[1]) /\ g[1] \in Objects
    BY <1>i, <1>6, ObjectOf DEF RegInv, Origins, RegistersEffect
  <2> SUFFICES ASSUME NEW o \in Objects, Placed(o)', Alone(o)' PROVE emulators'[id'[o]] = o
    BY DEF Enrolled, Placed
  <2>4. Placed(o) /\ o # g[1] /\ id[o] \in Ids /\ id'[o] = id[o]
    BY <1>i, <2>1, <2>2, PlacedKnown
  <2>5. Bears(o, id[o][1]) /\ id[o][1] \in Regs
    BY <2>4, NumberOf, NoneApart DEF Bears
  <2>6. id[g[1]] # None => id[g[1]][1] # id[o][1]
    <3> SUFFICES ASSUME id[g[1]] # None, id[g[1]][1] = id[o][1] PROVE FALSE
      OBVIOUS
    <3>1. Bears(g[1], id[o][1])
      BY DEF Bears
    <3> QED
      BY <3>1, <2>3, <2>4, <2>5 DEF Own
  <2>7. Alone(o)
    BY <2>2, <2>4, <2>6 DEF Alone
  <2>8. emulators[id[o]] = o
    BY <1>i, <2>4, <2>7 DEF RegInv, Enrolled, Placed
  <2> QED
    BY <2>2, <2>4, <2>8
<1>7. ASSUME NEW g \in Starts, WriteEffect(g) PROVE Enrolled'
  <2>1. \A o \in Objects : Placed(o)' => Placed(o)
    BY <1>i, <1>7, ObjectOf
       DEF Placed, WriteEffect, Moves, Spawns, SameIds, SameFamily, SameStorage
  <2>2. id' = id /\ emulators' = emulators
    BY <1>7 DEF WriteEffect, SameIds
  <2> QED
    BY <1>i, <2>1, <2>2, SameAlone, EnrolledKept
<1>8. ASSUME NEW g \in Starts, ListEffect(g) PROVE Enrolled'
  <2>1. id' = id /\ g[1] \in Objects
    BY <1>8, ObjectOf DEF ListEffect, SameIds
  <2> SUFFICES ASSUME NEW o \in Objects, Placed(o)', Alone(o)' PROVE emulators'[id'[o]] = o
    BY DEF Enrolled, Placed
  <2>2. Alone(o)
    BY <2>1 DEF Alone
  <2>3. CASE o = g[1]
    BY <1>8, <2>1, <2>3 DEF ListEffect
  <2>4. CASE o # g[1]
    <3>1. Placed(o)
      BY <1>8, <2>4 DEF Placed, ListEffect, Moves
    <3>2. id[o] \in Ids
      BY <1>i, <3>1, PlacedKnown
    <3>3. id[o] # id[g[1]]
      BY <2>1, <2>2, <2>4, <3>2, NoneApart DEF Alone
    <3>4. emulators'[id[o]] = emulators[id[o]]
      BY <1>8, <3>2, <3>3 DEF ListEffect
    <3>5. emulators[id[o]] = o
      BY <1>i, <3>1, <2>2 DEF RegInv, Enrolled, Placed
    <3> QED
      BY <3>4, <3>5, <2>1
  <2> QED
    BY <2>3, <2>4
<1>9. ASSUME NEW g \in Starts, ConnectEffect(g) PROVE Enrolled'
  <2>1. \A o \in Objects : Placed(o)' => Placed(o)
    BY <1>i, <1>9, ObjectOf
       DEF Placed, ConnectEffect, Moves, Spawns, SameIds, SameFamily, SameStorage
  <2>2. id' = id /\ emulators' = emulators
    BY <1>9 DEF ConnectEffect, SameIds
  <2> QED
    BY <1>i, <2>1, <2>2, SameAlone, EnrolledKept
<1>10. ASSUME NEW o \in Objects, NEW c \in Objects, PrepInvEventsEffect(o, c)
       PROVE Enrolled'
  <2>1. \A p \in Objects : Placed(p)' => Placed(p)
    BY <1>i, <1>10, ObjectOf
       DEF Placed, PrepInvEventsEffect, Moves, Spawns, SameIds, SameFamily, SameStorage
  <2>2. id' = id /\ emulators' = emulators
    BY <1>10 DEF PrepInvEventsEffect, SameIds
  <2> QED
    BY <1>i, <2>1, <2>2, SameAlone, EnrolledKept
<1>11. ASSUME NEW o \in Objects, NEW g \in Starts, StartChildDcEffect(o, g) PROVE Enrolled'
  <2>1. \A p \in Objects : Placed(p)' => Placed(p)
    BY <1>i, <1>11, ObjectOf
       DEF Placed, StartChildDcEffect, Moves, Spawns, SameIds, SameFamily, SameStorage
  <2>2. id' = id /\ emulators' = emulators
    BY <1>11 DEF StartChildDcEffect, SameIds
  <2> QED
    BY <1>i, <2>1, <2>2, SameAlone, EnrolledKept
<1>12. ASSUME NEW h \in Handlers, NEW o \in Objects, NEW i \in Ids, ControlEffect(h, o, i)
       PROVE Enrolled'
  <2>1. \A p \in Objects : Placed(p)' => Placed(p)
    BY <1>i, <1>12, ObjectOf
       DEF Placed, ControlEffect, Moves, Spawns, SameIds, SameFamily, SameStorage
  <2>2. id' = id /\ emulators' = emulators
    BY <1>12 DEF ControlEffect, SameIds
  <2> QED
    BY <1>i, <2>1, <2>2, SameAlone, EnrolledKept
<1>13. ASSUME NEW h \in Handlers, CheckIdEffect(h) PROVE Enrolled'
  <2>1. \A o \in Objects : Placed(o)' => Placed(o)
    BY <1>i, <1>13, ObjectOf
       DEF Placed, CheckIdEffect, Moves, Spawns, SameIds, SameFamily, SameStorage
  <2>2. id' = id /\ emulators' = emulators
    BY <1>13 DEF CheckIdEffect, SameIds
  <2> QED
    BY <1>i, <2>1, <2>2, SameAlone, EnrolledKept
<1>14. ASSUME NEW h \in Handlers, RenameEffect(h) PROVE Enrolled'
  <2> DEFINE q == ctl[h].obj
  <2>1. at' = at /\ q \in Objects /\ id[q] # None /\ ctl[h].new \in Ids /\ ctl[h].old \in Ids
    BY <1>14 DEF RenameEffect
  <2>2. id'[q] = ctl[h].new /\ \A p \in Objects : p # q => id'[p] = id[p]
    BY <1>14 DEF RenameEffect
  <2> SUFFICES ASSUME NEW o \in Objects, Placed(o)', Alone(o)' PROVE emulators'[id'[o]] = o
    BY DEF Enrolled, Placed
  <2>3. Placed(o) /\ id[o] \in Ids
    <3>1. Placed(o)
      BY <2>1 DEF Placed
    <3> QED
      BY <1>i, <3>1, PlacedKnown
  <2>4. CASE o = q
    BY <1>14, <2>2, <2>4 DEF RenameEffect
  <2>5. CASE o # q
    <3>1. id'[o] = id[o] /\ ctl[h].new[1] # id[o][1]
      BY <2>1, <2>2, <2>5, NoneApart DEF Alone
    <3>2. Bears(q, ctl[h].new[1]) /\ Bears(q, ctl[h].old[1]) /\ ctl[h].new[1] \in Regs
      BY <1>14, <2>1, NumberOf DEF Bears, RenameEffect
    <3>3. Bears(o, id[o][1]) /\ id[o][1] \in Regs
      BY <2>3, NumberOf, NoneApart DEF Bears
    <3>4. ~Bears(q, id[o][1])
      <4>1. CASE Own(q)
        BY <4>1, <2>5, <3>3 DEF Own
      <4>2. CASE Single(q)
        BY <4>2, <3>1, <3>2, <3>3 DEF Single
      <4> QED
        BY <1>i, <2>1, <4>1, <4>2 DEF RegInv, Origins
    <3>5. id[o] # ctl[h].new /\ id[o] # ctl[h].old
      BY <3>2, <3>4
    <3>6. emulators'[id[o]] = emulators[id[o]]
      BY <1>14, <2>3, <3>5 DEF RenameEffect
    <3>7. Alone(o)
      <4>1. id[q][1] # id[o][1]
        BY <2>1, <3>4 DEF Bears
      <4> QED
        BY <2>1, <2>2, <3>1, <4>1 DEF Alone
    <3>8. emulators[id[o]] = o
      BY <1>i, <2>3, <3>7 DEF RegInv, Enrolled, Placed
    <3> QED
      BY <3>1, <3>6, <3>8
  <2> QED
    BY <2>4, <2>5
<1>15. CASE CrashEffect
  <2>1. \A o \in Objects : ~Placed(o)'
    BY <1>15 DEF Placed, CrashEffect
  <2> QED
    BY <2>1 DEF Enrolled, Placed
<1> QED
  BY Zenon, RGEffects, <1>q, <1>1, <1>2, <1>3, <1>4, <1>5, <1>6, <1>7, <1>8, <1>9, <1>10,
     <1>11, <1>12, <1>13, <1>14, <1>15
     DEF RGEffect
(***************************************************************************)
(* Registry: the count of the registrations.                               *)
(***************************************************************************)

LEMMA LoadingStep == RegInv /\ [RGNext]_rgVars => Loading'
<1> SUFFICES ASSUME RegInv, [RGNext]_rgVars PROVE Loading'
  OBVIOUS
<1> USE DEF RegInv, Loading, SpawnDevice, Goto, spawnVars, familyVars, identityVars,
            cloudVars
<1>1. CASE Load
  BY <1>1 DEF Load
<1>2. CASE Restored
  BY <1>2 DEF Restored
<1>3. CASE Spawned
  BY <1>3 DEF Spawned
<1>4. ASSUME NEW o \in Objects, NEW r \in todo, Restore(o, r) PROVE Loading'
  BY <1>4 DEF Restore
<1>5. ASSUME NEW o \in Objects, SpawnNew(o) PROVE Loading'
  BY <1>5 DEF SpawnNew
<1>6. ASSUME NEW g \in Starts, Begin(g) PROVE Loading'
  BY <1>6 DEF Begin
<1>7. ASSUME NEW g \in Starts, ParentFound(g) PROVE Loading'
  BY <1>7 DEF ParentFound
<1>8. ASSUME NEW g \in Starts, Key(g) PROVE Loading'
  BY <1>8 DEF Key
<1>9. ASSUME NEW g \in Starts, Registers(g) PROVE Loading'
  BY <1>9 DEF Registers
<1>10. ASSUME NEW g \in Starts, Write(g) PROVE Loading'
  BY <1>10 DEF Write
<1>11. ASSUME NEW g \in Starts, List(g) PROVE Loading'
  BY <1>11 DEF List
<1>12. ASSUME NEW g \in Starts, Connect(g) PROVE Loading'
  BY <1>12 DEF Connect
<1>13. ASSUME NEW o \in Objects, Token(o) PROVE Loading'
  BY <1>13 DEF Token
<1>14. ASSUME NEW o \in Objects, NEW c \in Objects, PrepInvEvents(o, c) PROVE Loading'
  <2>1. spawner # "load" /\ spawner' = spawner
    BY <1>14, PrepInvEventsDoes
       DEF RegInv, Loading, Unused, PrepInvEvents, PrepInvEventsEffect, spawnVars
  <2> QED
    BY <2>1 DEF Loading
<1>15. ASSUME NEW o \in Objects, NEW g \in Starts, StartChildDc(o, g) PROVE Loading'
  BY <1>15 DEF StartChildDc
<1>16. ASSUME NEW h \in Handlers, NEW o \in Objects, NEW i \in Ids, Control(h, o, i)
       PROVE Loading'
  BY <1>16 DEF Control
<1>17. ASSUME NEW h \in Handlers, CheckId(h) PROVE Loading'
  BY <1>17 DEF CheckId
<1>18. ASSUME NEW h \in Handlers, Rename(h) PROVE Loading'
  BY <1>18 DEF Rename
<1>19. CASE GetEmulatorTokens
  BY <1>19 DEF GetEmulatorTokens
<1>20. CASE Crash
  BY <1>20 DEF Loading, Crash
<1>21. CASE UNCHANGED rgVars
  BY <1>21 DEF rgVars
<1> QED
  BY Zenon, RGSteps, <1>1, <1>2, <1>3, <1>4, <1>5, <1>6, <1>7, <1>8, <1>9, <1>10, <1>11,
     <1>12, <1>13, <1>14, <1>15, <1>16, <1>17, <1>18, <1>19, <1>20, <1>21

LEMMA SetsFinite == ASSUME IsFiniteSet(storage) PROVE
  /\ IsFiniteSet(StoredTops) /\ IsFiniteSet(Writing) /\ IsFiniteSet(Fresh)
  /\ Cardinality(StoredTops) \in Nat /\ Cardinality(Writing) \in Nat
  /\ Cardinality(Fresh) \in Nat /\ Cardinality(StoredTops) <= Cardinality(storage)
  /\ Cardinality(storage) \in Nat
<1>1. StoredTops \in SUBSET storage /\ Writing \in SUBSET Starts /\ Fresh \in SUBSET Starts
  BY DEF StoredTops, Writing, Fresh
<1>2. IsFiniteSet(StoredTops) /\ Cardinality(StoredTops) <= Cardinality(storage)
  BY <1>1, FS_Subset
<1>3. IsFiniteSet(Writing) /\ IsFiniteSet(Fresh)
  BY <1>1, FS_Subset, StartsFinite
<1> QED
  BY <1>2, <1>3, FS_CardinalityType

LEMMA ExistsFinite == ASSUME exists \subseteq Objects PROVE
  IsFiniteSet(exists) /\ Cardinality(exists) \in Nat /\ Cardinality(exists) <= MaxObjects
<1>1. IsFiniteSet(Objects) /\ Cardinality(Objects) = MaxObjects
  BY FS_Interval, RegistryAssumption DEF Objects
<1> QED
  BY <1>1, FS_Subset, FS_CardinalityType

LEMMA SpawnCounts == ASSUME RegInv, NEW o \in Objects, SpawnDevice(o)
  PROVE spawned' <= Cardinality(exists') /\ spawned' = spawned + 1
<1>1. exists \subseteq Objects /\ spawned \in Nat
  BY DEF RegInv, PlainTypes
<1>2. exists' = exists \cup {o} /\ o \notin exists /\ spawned' = spawned + 1
  BY DEF SpawnDevice, Free
<1>3. Cardinality(exists') = Cardinality(exists) + 1
  BY <1>1, <1>2, ExistsFinite, FS_AddElement
<1> QED
  BY <1>1, <1>2, <1>3, ExistsFinite DEF RegInv, Finite

LEMMA TodoCounts == ASSUME IsFiniteSet(todo), NEW r \in todo
  PROVE /\ IsFiniteSet(todo \ {r}) /\ Cardinality(todo \ {r}) = Cardinality(todo) - 1
        /\ Cardinality(todo) \in Nat
  BY FS_RemoveElement, FS_CardinalityType

LEMMA FiniteStep == RegInv /\ [RGNext]_rgVars => Finite'
<1> SUFFICES ASSUME RegInv, [RGNext]_rgVars PROVE Finite'
  OBVIOUS
<1> USE DEF RegInv, Finite, SpawnDevice, Goto, spawnVars, familyVars, identityVars,
            cloudVars
<1>1. CASE Load
  <2>1. IsFiniteSet(todo')
    BY <1>1, FS_EmptySet DEF RegInv, Finite, Load
  <2> QED
    BY <1>1, <2>1 DEF RegInv, Finite, Load
<1>2. CASE Restored
  BY <1>2 DEF Restored
<1>3. CASE Spawned
  BY <1>3 DEF Spawned
<1>4. ASSUME NEW o \in Objects, NEW r \in todo, Restore(o, r) PROVE Finite'
  <2>1. IsFiniteSet(todo')
    BY <1>4, TodoCounts DEF RegInv, Finite, Restore
  <2>2. spawned' <= Cardinality(exists')
    BY <1>4, SpawnCounts DEF Restore
  <2> QED
    BY <1>4, <2>1, <2>2 DEF RegInv, Finite, Restore
<1>5. ASSUME NEW o \in Objects, SpawnNew(o) PROVE Finite'
  <2>1. spawned' <= Cardinality(exists')
    BY <1>5, SpawnCounts DEF SpawnNew
  <2> QED
    BY <1>5, <2>1 DEF RegInv, Finite, SpawnNew
<1>6. ASSUME NEW g \in Starts, Begin(g) PROVE Finite'
  BY <1>6 DEF Begin
<1>7. ASSUME NEW g \in Starts, ParentFound(g) PROVE Finite'
  BY <1>7 DEF ParentFound
<1>8. ASSUME NEW g \in Starts, Key(g) PROVE Finite'
  BY <1>8 DEF Key
<1>9. ASSUME NEW g \in Starts, Registers(g) PROVE Finite'
  BY <1>9 DEF Registers
<1>10. ASSUME NEW g \in Starts, Write(g) PROVE Finite'
  <2>1. IsFiniteSet(storage')
    <3>1. IsFiniteSet({r \in storage : r.key # access[g]})
      BY FS_Subset DEF RegInv, Finite
    <3>2. IsFiniteSet({r \in storage : r.key # access[g]} \cup
           {[key |-> access[g], moid |-> id[g[1]], parent |-> ParentIdOf(g[1])]})
      BY <3>1, FS_AddElement
    <3> QED
      BY <1>10, <3>2 DEF RegInv, Finite, Write
  <2> QED
    BY <1>10, <2>1 DEF RegInv, Finite, Write, spawnVars
<1>11. ASSUME NEW g \in Starts, List(g) PROVE Finite'
  BY <1>11 DEF List
<1>12. ASSUME NEW g \in Starts, Connect(g) PROVE Finite'
  BY <1>12 DEF Connect
<1>13. ASSUME NEW o \in Objects, Token(o) PROVE Finite'
  BY <1>13 DEF Token
<1>14. ASSUME NEW o \in Objects, NEW c \in Objects, PrepInvEvents(o, c) PROVE Finite'
  <2>1. exists' = exists \cup {c} /\ exists \subseteq Objects
    BY <1>14 DEF RegInv, PlainTypes, PrepInvEvents
  <2>2. /\ Cardinality(exists) \in Nat
        /\ Cardinality(exists') \in {Cardinality(exists), Cardinality(exists) + 1}
    BY <2>1, ExistsFinite, FS_AddElement
  <2>3. spawned \in Nat /\ spawned <= Cardinality(exists)
    BY DEF RegInv, PlainTypes, Finite
  <2>4. spawned' <= Cardinality(exists')
    BY <1>14, <2>2, <2>3 DEF PrepInvEvents, spawnVars
  <2> QED
    BY <1>14, <2>4 DEF RegInv, Finite, PrepInvEvents, spawnVars
<1>15. ASSUME NEW o \in Objects, NEW g \in Starts, StartChildDc(o, g) PROVE Finite'
  BY <1>15 DEF StartChildDc
<1>16. ASSUME NEW h \in Handlers, NEW o \in Objects, NEW i \in Ids, Control(h, o, i)
       PROVE Finite'
  BY <1>16 DEF Control
<1>17. ASSUME NEW h \in Handlers, CheckId(h) PROVE Finite'
  BY <1>17 DEF CheckId
<1>18. ASSUME NEW h \in Handlers, Rename(h) PROVE Finite'
  BY <1>18 DEF Rename
<1>19. CASE GetEmulatorTokens
  BY <1>19 DEF GetEmulatorTokens
<1>20. CASE Crash
  <2>1. IsFiniteSet({}) /\ Cardinality({}) = 0
    BY FS_EmptySet
  <2> QED
    BY <1>20, <2>1 DEF RegInv, Finite, Crash
<1>21. CASE UNCHANGED rgVars
  BY <1>21 DEF rgVars
<1> QED
  BY Zenon, RGSteps, <1>1, <1>2, <1>3, <1>4, <1>5, <1>6, <1>7, <1>8, <1>9, <1>10, <1>11,
     <1>12, <1>13, <1>14, <1>15, <1>16, <1>17, <1>18, <1>19, <1>20, <1>21

LEMMA UnreadBoundStep == RegInv /\ [RGNext]_rgVars => UnreadBound'
<1> SUFFICES ASSUME RegInv, [RGNext]_rgVars PROVE UnreadBound'
  OBVIOUS
<1> USE DEF RegInv, UnreadBound, PlainCloud, SpawnDevice, Goto, spawnVars, familyVars,
            identityVars, cloudVars
<1>1. CASE Load
  <2>1. unread \in Nat /\ crashes \in Nat /\ unread <= crashes
    BY <1>1, RegistryAssumption DEF RegInv, PlainCloud, UnreadBound, Load
  <2> QED
    BY <1>1, <2>1 DEF UnreadBound, Load
<1>2. CASE Restored
  BY <1>2 DEF Restored
<1>3. CASE Spawned
  BY <1>3 DEF Spawned
<1>4. ASSUME NEW o \in Objects, NEW r \in todo, Restore(o, r) PROVE UnreadBound'
  BY <1>4 DEF Restore
<1>5. ASSUME NEW o \in Objects, SpawnNew(o) PROVE UnreadBound'
  BY <1>5 DEF SpawnNew
<1>6. ASSUME NEW g \in Starts, Begin(g) PROVE UnreadBound'
  BY <1>6 DEF Begin
<1>7. ASSUME NEW g \in Starts, ParentFound(g) PROVE UnreadBound'
  BY <1>7 DEF ParentFound
<1>8. ASSUME NEW g \in Starts, Key(g) PROVE UnreadBound'
  BY <1>8 DEF Key
<1>9. ASSUME NEW g \in Starts, Registers(g) PROVE UnreadBound'
  BY <1>9 DEF Registers
<1>10. ASSUME NEW g \in Starts, Write(g) PROVE UnreadBound'
  BY <1>10 DEF Write
<1>11. ASSUME NEW g \in Starts, List(g) PROVE UnreadBound'
  BY <1>11 DEF List
<1>12. ASSUME NEW g \in Starts, Connect(g) PROVE UnreadBound'
  BY <1>12 DEF Connect
<1>13. ASSUME NEW o \in Objects, Token(o) PROVE UnreadBound'
  BY <1>13 DEF Token
<1>14. ASSUME NEW o \in Objects, NEW c \in Objects, PrepInvEvents(o, c) PROVE UnreadBound'
  BY <1>14 DEF PrepInvEvents
<1>15. ASSUME NEW o \in Objects, NEW g \in Starts, StartChildDc(o, g) PROVE UnreadBound'
  BY <1>15 DEF StartChildDc
<1>16. ASSUME NEW h \in Handlers, NEW o \in Objects, NEW i \in Ids, Control(h, o, i)
       PROVE UnreadBound'
  BY <1>16 DEF Control
<1>17. ASSUME NEW h \in Handlers, CheckId(h) PROVE UnreadBound'
  BY <1>17 DEF CheckId
<1>18. ASSUME NEW h \in Handlers, Rename(h) PROVE UnreadBound'
  BY <1>18 DEF Rename
<1>19. CASE GetEmulatorTokens
  BY <1>19 DEF GetEmulatorTokens
<1>20. CASE Crash
  <2>1. unread \in Nat /\ crashes \in Nat /\ unread <= crashes + 1
    BY RegistryAssumption DEF RegInv, PlainCloud, UnreadBound
  <2> QED
    BY <1>20, <2>1 DEF UnreadBound, Crash
<1>21. CASE UNCHANGED rgVars
  BY <1>21 DEF rgVars
<1> QED
  BY Zenon, RGSteps, <1>1, <1>2, <1>3, <1>4, <1>5, <1>6, <1>7, <1>8, <1>9, <1>10, <1>11,
     <1>12, <1>13, <1>14, <1>15, <1>16, <1>17, <1>18, <1>19, <1>20, <1>21
Calm ==
  /\ spawner' = spawner /\ spawned' = spawned /\ todo' = todo /\ storage' = storage
  /\ tops' = tops /\ lost' = lost /\ regs' = regs /\ unread' = unread
SameStarts == \A g \in Starts :
  /\ at'[g] = "write" /\ parent'[g[1]] = None <=> at[g] = "write" /\ parent[g[1]] = None
  /\ g \in Fresh' => g \in Fresh

LEMMA SameWriting == ASSUME SameStarts PROVE Writing' = Writing /\ Fresh' \subseteq Fresh
  BY DEF SameStarts, Writing, Fresh

LEMMA BeginStarts ==
  ASSUME RegInv, NEW g \in Starts, BeginEffect(g)
  PROVE SameStarts
  BY ObjectOf, NoneApart DEF SameStarts, Fresh, BeginEffect, Moves, SameIds, SameFamily

LEMMA KeyStarts ==
  ASSUME RegInv, NEW g \in Starts, KeyEffect(g)
  PROVE SameStarts
  BY ObjectOf, NoneApart DEF SameStarts, Fresh, KeyEffect, Moves, SameIds, SameFamily

LEMMA ListStarts ==
  ASSUME RegInv, NEW g \in Starts, ListEffect(g)
  PROVE SameStarts
  BY ObjectOf, NoneApart DEF SameStarts, Fresh, ListEffect, Moves, SameIds, SameFamily

LEMMA ConnectStarts ==
  ASSUME RegInv, NEW g \in Starts, ConnectEffect(g)
  PROVE SameStarts
  BY ObjectOf, NoneApart DEF SameStarts, Fresh, ConnectEffect, Moves, SameIds, SameFamily

LEMMA PrepInvEventsStarts ==
  ASSUME RegInv, NEW o \in Objects, NEW c \in Objects, PrepInvEventsEffect(o, c)
  PROVE SameStarts
  BY ObjectOf, NoneApart
     DEF SameStarts, Fresh, PrepInvEventsEffect, Moves, SameIds, SameFamily

LEMMA StartChildDcStarts ==
  ASSUME RegInv, NEW o \in Objects, NEW g \in Starts, StartChildDcEffect(o, g)
  PROVE SameStarts
  BY ObjectOf, NoneApart
     DEF SameStarts, Fresh, StartChildDcEffect, Moves, SameIds, SameFamily

LEMMA ControlStarts ==
  ASSUME RegInv, NEW h \in Handlers, NEW o \in Objects, NEW i \in Ids, ControlEffect(h, o, i)
  PROVE SameStarts
  BY ObjectOf, NoneApart DEF SameStarts, Fresh, ControlEffect, Moves, SameIds, SameFamily

LEMMA CheckIdStarts ==
  ASSUME RegInv, NEW h \in Handlers, CheckIdEffect(h)
  PROVE SameStarts
  BY ObjectOf, NoneApart DEF SameStarts, Fresh, CheckIdEffect, Moves, SameIds, SameFamily

LEMMA RenameStarts ==
  ASSUME RegInv, NEW h \in Handlers, RenameEffect(h)
  PROVE SameStarts
  BY ObjectOf, NoneApart DEF SameStarts, Fresh, RenameEffect, Moves, SameIds, SameFamily

LEMMA QuietStarts ==
  ASSUME RegInv, QuietEffect
  PROVE SameStarts
  BY ObjectOf, NoneApart DEF SameStarts, Fresh, QuietEffect, Moves, SameIds, SameFamily

LEMMA ParentFoundStarts == ASSUME RegInv, NEW g \in Starts, ParentFoundEffect(g)
  PROVE SameStarts
<1>1. \A k \in Starts : k # g /\ k[1] = g[1] /\ parent[g[1]] = None => at[k] = "none"
  <2> SUFFICES ASSUME NEW k \in Starts, k # g, k[1] = g[1], parent[g[1]] = None, at[k] # "none"
               PROVE FALSE
    OBVIOUS
  <2>1. g[2] # 2 /\ k[2] # 2
    BY DEF RegInv, Kin, ParentFoundEffect
  <2> QED
    BY <2>1, ObjectOf
<1>2. at[g] = "parent" /\ at'[g] = "key" /\ \A k \in Starts : k # g => at'[k] = at[k]
  BY DEF ParentFoundEffect, Moves
<1>3. id' = id /\ parent'[g[1]] # None /\ \A p \in Objects : p # g[1] => parent'[p] = parent[p]
  BY NoneApart DEF ParentFoundEffect, SameIds
<1> SUFFICES ASSUME NEW k \in Starts
             PROVE /\ at'[k] = "write" /\ parent'[k[1]] = None
                         <=> at[k] = "write" /\ parent[k[1]] = None
                   /\ k \in Fresh' => k \in Fresh
  BY DEF SameStarts
<1>4. CASE k[1] = g[1]
  BY <1>1, <1>2, <1>3, <1>4, ObjectOf DEF Fresh
<1>5. CASE k[1] # g[1]
  BY <1>2, <1>3, <1>5, ObjectOf DEF Fresh
<1> QED
  BY <1>4, <1>5

LEMMA RestoreStarts ==
  ASSUME RegInv, NEW o \in Objects, NEW r \in todo, RestoreEffect(o, r) PROVE SameStarts
  BY ObjectOf, NoneApart DEF SameStarts, Fresh, RestoreEffect, Spawns

LEMMA SpawnNewStarts == ASSUME RegInv, NEW o \in Objects, SpawnNewEffect(o)
  PROVE Writing' = Writing /\ Fresh' \subseteq Fresh \cup {<<o, 1>>}
<1>1. \A g \in Starts : at'[g] = "write" /\ parent'[g[1]] = None
                          <=> at[g] = "write" /\ parent[g[1]] = None
  BY ObjectOf DEF SpawnNewEffect, Spawns, SameFamily
<1>2. \A g \in Starts : g \in Fresh' => g \in Fresh \/ g = <<o, 1>>
  BY ObjectOf DEF Fresh, SpawnNewEffect, Spawns, SameFamily, SameIds
<1> QED
  BY <1>1, <1>2 DEF Writing, Fresh

LEMMA RegistersStarts == ASSUME RegInv, NEW g \in Starts, RegistersEffect(g)
  PROVE IF parent[g[1]] = None
        THEN /\ Writing' = Writing \cup {g} /\ g \notin Writing
             /\ Fresh' \subseteq Fresh \ {g} /\ g \in Fresh
        ELSE Writing' = Writing /\ Fresh' \subseteq Fresh
<1>1. /\ at[g] = "register" /\ at'[g] = "write" /\ parent' = parent
      /\ \A k \in Starts : k # g => at'[k] = at[k]
      /\ \A p \in Objects : id'[p] = None => id[p] = None
  BY DEF RegistersEffect, Moves, SameFamily
<1>2. \A k \in Starts : k # g =>
        /\ at'[k] = "write" /\ parent'[k[1]] = None <=> at[k] = "write" /\ parent[k[1]] = None
        /\ k \in Fresh' => k \in Fresh
  BY <1>1, ObjectOf DEF Fresh
<1>3. g \notin Writing /\ g \notin Fresh' /\ (g \in Fresh <=> parent[g[1]] = None)
        /\ (g \in Writing' <=> parent[g[1]] = None)
  BY <1>1 DEF Writing, Fresh
<1> QED
  BY <1>2, <1>3 DEF Writing, Fresh

LEMMA WriteStarts == ASSUME RegInv, NEW g \in Starts, WriteEffect(g)
  PROVE /\ IF parent[g[1]] = None
           THEN Writing' = Writing \ {g} /\ g \in Writing
           ELSE Writing' = Writing
        /\ Fresh' \subseteq Fresh
<1>1. /\ at[g] = "write" /\ at'[g] = "list" /\ parent' = parent /\ id' = id
      /\ \A k \in Starts : k # g => at'[k] = at[k]
  BY DEF WriteEffect, Moves, SameFamily, SameIds
<1>2. \A k \in Starts : k # g =>
        /\ at'[k] = "write" /\ parent'[k[1]] = None <=> at[k] = "write" /\ parent[k[1]] = None
        /\ k \in Fresh' => k \in Fresh
  BY <1>1, ObjectOf DEF Fresh
<1>3. g \notin Writing' /\ g \notin Fresh' /\ (g \in Writing <=> parent[g[1]] = None)
  BY <1>1 DEF Writing, Fresh
<1> QED
  BY <1>2, <1>3 DEF Writing, Fresh

LEMMA WriteTops == ASSUME RegInv, NEW g \in Starts, Write(g)
  PROVE IF parent[g[1]] = None
        THEN \/ StoredTops' = StoredTops /\ lost' = lost + 1
             \/ /\ \E n : StoredTops' = StoredTops \cup {n} /\ n \notin StoredTops
                /\ lost' = lost
        ELSE StoredTops' = StoredTops /\ lost' = lost
<1> DEFINE n == [key |-> access[g], moid |-> id[g[1]], parent |-> ParentIdOf(g[1])]
<1>1. at[g] = "write" /\ g[1] \in Objects
  BY ObjectOf DEF Write
<1>2. \A r \in storage : r.parent = None => r.key # access[g]
  BY <1>1 DEF RegInv, KeysApart
<1>3. n.key = access[g] /\ n.parent = ParentIdOf(g[1])
  OBVIOUS
<1>4. parent[g[1]] = None <=> ParentIdOf(g[1]) = None
  BY <1>1 DEF RegInv, TopsPlain, ParentKnown, ParentIdOf
<1>5. CASE storage' = storage /\ lost' = IF parent[g[1]] = None THEN lost + 1 ELSE lost
  BY <1>5 DEF StoredTops
<1>6. CASE storage' = {r \in storage : r.key # access[g]} \cup {n} /\ lost' = lost
  <2>1. CASE parent[g[1]] = None
    <3>1. n \notin StoredTops
      BY <1>2, <1>3 DEF StoredTops
    <3>2. StoredTops' = StoredTops \cup {n}
      BY <1>2, <1>3, <1>4, <1>6, <2>1 DEF StoredTops
    <3> QED
      BY <1>6, <2>1, <3>1, <3>2
  <2>2. CASE parent[g[1]] # None
    <3>1. StoredTops' = StoredTops
      BY <1>2, <1>3, <1>4, <1>6, <2>2 DEF StoredTops
    <3> QED
      BY <1>6, <2>2, <3>1
  <2> QED
    BY <2>1, <2>2
<1> QED
  BY <1>5, <1>6 DEF Write

LEMMA CrashStarts == ASSUME CrashEffect PROVE Writing' = {} /\ Fresh' = {}
  BY DEF CrashEffect, Writing, Fresh

LEMMA SameTops == ASSUME storage' = storage PROVE StoredTops' = StoredTops
  BY DEF StoredTops

LEMMA CalmCounts ==
  ASSUME RegInv, SameStarts, storage' = storage
  PROVE /\ Cardinality(StoredTops') = Cardinality(StoredTops)
        /\ Cardinality(Writing') = Cardinality(Writing)
        /\ Cardinality(Fresh') \in Nat /\ Cardinality(Fresh') <= Cardinality(Fresh)
<1>1. IsFiniteSet(Fresh)
  BY SetsFinite DEF RegInv, Finite
<1>2. Fresh' \subseteq Fresh /\ Writing' = Writing
  BY SameWriting
<1>3. StoredTops' = StoredTops
  BY SameTops
<1> QED
  BY <1>1, <1>2, <1>3, FS_Subset, FS_CardinalityType

LEMMA CountSizes == ASSUME RegInv PROVE
  /\ IsFiniteSet(StoredTops) /\ IsFiniteSet(Writing) /\ IsFiniteSet(Fresh)
  /\ Cardinality(StoredTops) \in Nat /\ Cardinality(Writing) \in Nat
  /\ Cardinality(Fresh) \in Nat /\ Cardinality(StoredTops) <= Cardinality(storage)
  /\ Cardinality(storage) \in Nat /\ Cardinality(todo) \in Nat
  /\ spawned \in Nat /\ tops \in Nat /\ lost \in Nat /\ regs \in Nat /\ unread \in Nat
  /\ Connections \in Nat
<1>1. IsFiniteSet(storage) /\ IsFiniteSet(todo)
  BY DEF RegInv, Finite
<1>2. spawned \in Nat /\ tops \in Nat /\ lost \in Nat /\ regs \in Nat /\ unread \in Nat
  BY RegistryAssumption DEF RegInv, PlainTypes, PlainCloud
<1> QED
  BY <1>1, <1>2, SetsFinite, FS_CardinalityType, RegistryAssumption

LEMMA CalmTops ==
  ASSUME RegInv, SameStarts, storage' = storage, tops' = tops, lost' = lost, regs' = regs
  PROVE TopsCounted'
  BY CalmCounts DEF RegInv, TopsCounted

LEMMA TopsCountedStep == RegInv /\ [RGNext]_rgVars => TopsCounted'
<1> SUFFICES ASSUME RegInv, [RGNext]_rgVars PROVE TopsCounted'
  OBVIOUS
<1> USE DEF TopsCounted
<1>1. CASE Load
  <2>1. SameStarts
    BY <1>1, QuietDoes, QuietStarts
  <2>2. storage' = storage /\ tops' = tops /\ lost' = lost /\ regs' = regs
    BY <1>1 DEF Load, cloudVars
  <2> QED
    BY <2>1, <2>2, CalmTops
<1>2. CASE Restored
  <2>1. SameStarts
    BY <1>2, QuietDoes, QuietStarts
  <2>2. storage' = storage /\ tops' = tops /\ lost' = lost /\ regs' = regs
    BY <1>2 DEF Restored, cloudVars
  <2> QED
    BY <2>1, <2>2, CalmTops
<1>3. CASE Spawned
  <2>1. SameStarts
    BY <1>3, QuietDoes, QuietStarts
  <2>2. storage' = storage /\ tops' = tops /\ lost' = lost /\ regs' = regs
    BY <1>3 DEF Spawned, cloudVars
  <2> QED
    BY <2>1, <2>2, CalmTops
<1>4. ASSUME NEW o \in Objects, NEW r \in todo, Restore(o, r) PROVE TopsCounted'
  <2>1. SameStarts
    BY <1>4, RestoreDoes, RestoreStarts
  <2>2. storage' = storage /\ tops' = tops /\ lost' = lost /\ regs' = regs
    BY <1>4 DEF Restore, cloudVars
  <2> QED
    BY <2>1, <2>2, CalmTops
<1>5. ASSUME NEW o \in Objects, SpawnNew(o) PROVE TopsCounted'
  <2>1. Writing' = Writing
    BY <1>5, SpawnNewDoes, SpawnNewStarts
  <2>2. StoredTops' = StoredTops
    BY <1>5, SameTops DEF SpawnNew
  <2> QED
    BY <1>5, <2>1, <2>2 DEF RegInv, TopsCounted, SpawnNew, cloudVars
<1>6. ASSUME NEW g \in Starts, Begin(g) PROVE TopsCounted'
  <2>1. SameStarts
    BY <1>6, BeginDoes, BeginStarts
  <2>2. storage' = storage /\ tops' = tops /\ lost' = lost /\ regs' = regs
    BY <1>6 DEF Begin, cloudVars
  <2> QED
    BY <2>1, <2>2, CalmTops
<1>7. ASSUME NEW g \in Starts, ParentFound(g) PROVE TopsCounted'
  <2>1. SameStarts
    BY <1>7, ParentFoundDoes, ParentFoundStarts
  <2>2. storage' = storage /\ tops' = tops /\ lost' = lost /\ regs' = regs
    BY <1>7 DEF ParentFound, cloudVars
  <2> QED
    BY <2>1, <2>2, CalmTops
<1>8. ASSUME NEW g \in Starts, Key(g) PROVE TopsCounted'
  <2>1. SameStarts
    BY <1>8, KeyDoes, KeyStarts
  <2>2. storage' = storage /\ tops' = tops /\ lost' = lost /\ regs' = regs
    BY <1>8 DEF Key, cloudVars
  <2> QED
    BY <2>1, <2>2, CalmTops
<1>9. ASSUME NEW g \in Starts, Registers(g) PROVE TopsCounted'
  <2>1. regs' = regs + 1 /\ lost' = lost /\ storage' = storage
    BY <1>9 DEF Registers
  <2>2. StoredTops' = StoredTops
    BY <2>1, SameTops
  <2>3. RegistersEffect(g)
    BY <1>9, RegistersDoes
  <2>4. CASE parent[g[1]] = None
    <3>1. Writing' = Writing \cup {g} /\ g \notin Writing
      BY <2>3, <2>4, RegistersStarts
    <3>2. Cardinality(Writing') = Cardinality(Writing) + 1
      BY <3>1, CountSizes, FS_AddElement
    <3>3. tops' = tops + 1
      BY <1>9, <2>4 DEF Registers
    <3> QED
      BY <2>1, <2>2, <3>2, <3>3, CountSizes DEF RegInv, TopsCounted
  <2>5. CASE parent[g[1]] # None
    <3>1. Writing' = Writing
      BY <2>3, <2>5, RegistersStarts
    <3>2. tops' = tops
      BY <1>9, <2>5 DEF Registers
    <3> QED
      BY <2>1, <2>2, <3>1, <3>2, CountSizes DEF RegInv, TopsCounted
  <2> QED
    BY <2>4, <2>5
<1>10. ASSUME NEW g \in Starts, Write(g) PROVE TopsCounted'
  <2>1. WriteEffect(g) /\ tops' = tops /\ regs' = regs
    BY <1>10, WriteDoes DEF Write, cloudVars
  <2>2. CASE parent[g[1]] = None
    <3>1. Writing' = Writing \ {g} /\ g \in Writing
      BY <2>1, <2>2, WriteStarts
    <3>2. Cardinality(Writing') = Cardinality(Writing) - 1
      BY <3>1, CountSizes, FS_RemoveElement
    <3>3. CASE StoredTops' = StoredTops /\ lost' = lost + 1
      BY <2>1, <3>2, <3>3, CountSizes DEF RegInv, TopsCounted
    <3>4. CASE (\E n : StoredTops' = StoredTops \cup {n} /\ n \notin StoredTops) /\ lost' = lost
      <4>1. Cardinality(StoredTops') = Cardinality(StoredTops) + 1
        BY <3>4, CountSizes, FS_AddElement
      <4> QED
        BY <2>1, <3>2, <3>4, <4>1, CountSizes DEF RegInv, TopsCounted
    <3> QED
      BY <1>10, <2>2, <3>3, <3>4, WriteTops
  <2>3. CASE parent[g[1]] # None
    <3>1. Writing' = Writing
      BY <2>1, <2>3, WriteStarts
    <3>2. StoredTops' = StoredTops /\ lost' = lost
      BY <1>10, <2>3, WriteTops
    <3> QED
      BY <2>1, <3>1, <3>2 DEF RegInv, TopsCounted
  <2> QED
    BY <2>2, <2>3
<1>11. ASSUME NEW g \in Starts, List(g) PROVE TopsCounted'
  <2>1. SameStarts
    BY <1>11, ListDoes, ListStarts
  <2>2. storage' = storage /\ tops' = tops /\ lost' = lost /\ regs' = regs
    BY <1>11 DEF List, cloudVars
  <2> QED
    BY <2>1, <2>2, CalmTops
<1>12. ASSUME NEW g \in Starts, Connect(g) PROVE TopsCounted'
  <2>1. SameStarts
    BY <1>12, ConnectDoes, ConnectStarts
  <2>2. storage' = storage /\ tops' = tops /\ lost' = lost /\ regs' = regs
    BY <1>12 DEF Connect, cloudVars
  <2> QED
    BY <2>1, <2>2, CalmTops
<1>13. ASSUME NEW o \in Objects, Token(o) PROVE TopsCounted'
  <2>1. SameStarts
    BY <1>13, QuietDoes, QuietStarts
  <2>2. storage' = storage /\ tops' = tops /\ lost' = lost /\ regs' = regs
    BY <1>13 DEF Token, cloudVars
  <2> QED
    BY <2>1, <2>2, CalmTops
<1>14. ASSUME NEW o \in Objects, NEW c \in Objects, PrepInvEvents(o, c) PROVE TopsCounted'
  <2>1. SameStarts
    BY <1>14, PrepInvEventsDoes, PrepInvEventsStarts
  <2>2. storage' = storage /\ tops' = tops /\ lost' = lost /\ regs' = regs
    BY <1>14 DEF PrepInvEvents, cloudVars
  <2> QED
    BY <2>1, <2>2, CalmTops
<1>15. ASSUME NEW o \in Objects, NEW g \in Starts, StartChildDc(o, g) PROVE TopsCounted'
  <2>1. SameStarts
    BY <1>15, StartChildDcDoes, StartChildDcStarts
  <2>2. storage' = storage /\ tops' = tops /\ lost' = lost /\ regs' = regs
    BY <1>15 DEF StartChildDc, cloudVars
  <2> QED
    BY <2>1, <2>2, CalmTops
<1>16. ASSUME NEW h \in Handlers, NEW o \in Objects, NEW i \in Ids, Control(h, o, i)
       PROVE TopsCounted'
  <2>1. SameStarts
    BY <1>16, ControlDoes, ControlStarts
  <2>2. storage' = storage /\ tops' = tops /\ lost' = lost /\ regs' = regs
    BY <1>16 DEF Control, cloudVars
  <2> QED
    BY <2>1, <2>2, CalmTops
<1>17. ASSUME NEW h \in Handlers, CheckId(h) PROVE TopsCounted'
  <2>1. SameStarts
    BY <1>17, CheckIdDoes, CheckIdStarts
  <2>2. storage' = storage /\ tops' = tops /\ lost' = lost /\ regs' = regs
    BY <1>17 DEF CheckId, cloudVars
  <2> QED
    BY <2>1, <2>2, CalmTops
<1>18. ASSUME NEW h \in Handlers, Rename(h) PROVE TopsCounted'
  <2>1. SameStarts
    BY <1>18, RenameDoes, RenameStarts
  <2>2. storage' = storage /\ tops' = tops /\ lost' = lost /\ regs' = regs
    BY <1>18 DEF Rename, cloudVars
  <2> QED
    BY <2>1, <2>2, CalmTops
<1>19. CASE GetEmulatorTokens
  <2>1. SameStarts
    BY <1>19, QuietDoes, QuietStarts
  <2>2. storage' = storage /\ tops' = tops /\ lost' = lost /\ regs' = regs
    BY <1>19 DEF GetEmulatorTokens, cloudVars
  <2> QED
    BY <2>1, <2>2, CalmTops
<1>20. CASE Crash
  <2>1. Writing' = {} /\ Cardinality({}) = 0
    BY <1>20, CrashDoes, CrashStarts, FS_EmptySet
  <2>2. StoredTops' = StoredTops
    BY <1>20, SameTops DEF Crash
  <2>3. lost' = lost + Cardinality(Writing) /\ tops' = tops /\ regs' = regs
    BY <1>20 DEF Crash, Writing, cloudVars
  <2>4. Cardinality(Writing') = 0
    BY <2>1
  <2> QED
    BY <2>2, <2>3, <2>4, CountSizes DEF RegInv, TopsCounted
<1>21. CASE UNCHANGED rgVars
  <2>1. SameStarts
    BY <1>21, QuietDoes, QuietStarts
  <2>2. storage' = storage /\ tops' = tops /\ lost' = lost /\ regs' = regs
    BY <1>21 DEF rgVars, cloudVars
  <2> QED
    BY <2>1, <2>2, CalmTops
<1> QED
  BY Zenon, RGSteps, <1>1, <1>2, <1>3, <1>4, <1>5, <1>6, <1>7, <1>8, <1>9, <1>10, <1>11,
     <1>12, <1>13, <1>14, <1>15, <1>16, <1>17, <1>18, <1>19, <1>20, <1>21

LEMMA CalmAllowance ==
  ASSUME RegInv, SameStarts, storage' = storage, unread' = unread, spawner' = spawner,
         spawned' = spawned, todo' = todo
  PROVE Allowance'
<1>1. PICK n \in Nat :
        /\ Remaining(n)
        /\ Cardinality(StoredTops) + Cardinality(Writing) + Cardinality(Fresh) + n
             <= Connections * (unread + 1)
  BY DEF RegInv, Allowance
<1>2. Remaining(n)'
  BY <1>1 DEF Remaining
<1>3. Cardinality(StoredTops') + Cardinality(Writing') + Cardinality(Fresh') + n
        <= Connections * (unread' + 1)
  <2> DEFINE b == Connections * (unread + 1)
  <2>1. b \in Nat
    BY CountSizes
  <2> HIDE DEF b
  <2>2. Cardinality(StoredTops') + Cardinality(Writing') + Cardinality(Fresh') + n <= b
    BY <1>1, <2>1, CalmCounts, CountSizes DEF b
  <2> QED
    BY <2>2 DEF b
<1> QED
  BY <1>2, <1>3 DEF Allowance

LEMMA AllowanceStep == RegInv /\ [RGNext]_rgVars => Allowance'
<1> SUFFICES ASSUME RegInv, [RGNext]_rgVars PROVE Allowance'
  OBVIOUS
<1> USE DEF Allowance
<1>1. CASE Load
  <2> DEFINE b == Connections * (unread + 1)
  <2>b. b \in Nat
    BY CountSizes
  <2>n. PICK n \in Nat :
          /\ Remaining(n)
          /\ Cardinality(StoredTops) + Cardinality(Writing) + Cardinality(Fresh) + n <= b
    BY DEF RegInv, Allowance
  <2>1. StoredTops' = StoredTops
    BY <1>1, SameTops DEF Load
  <2>2. Writing' = {} /\ Fresh' = {} /\ Cardinality({}) = 0
    <3>1. \A g \in Starts : at'[g] = "none"
      BY <1>1, ObjectOf DEF RegInv, Loading, Unused, Load
    <3> QED
      BY <3>1, FS_EmptySet DEF Writing, Fresh
  <2>3. Cardinality(Writing') = 0 /\ Cardinality(Fresh') = 0
    BY <2>2
  <2>4. Cardinality(StoredTops) <= b
    <3> HIDE DEF b
    <3> QED
      BY <2>b, <2>n, CountSizes
  <2>5. spawner' = "restore" /\ spawned' = 0
    BY <1>1 DEF RegInv, Loading, Load
  <2>6. CASE todo' = storage /\ unread' = unread
    <3>1. CASE Connections <= Cardinality(storage)
      <4>1. Remaining(0)'
        BY <2>5, <2>6, <3>1, CountSizes DEF Remaining
      <4>2. Cardinality(StoredTops') + Cardinality(Writing') + Cardinality(Fresh') + 0
              <= Connections * (unread' + 1)
        BY <2>1, <2>3, <2>4, <2>6, CountSizes
      <4> QED
        BY <4>1, <4>2 DEF Allowance
    <3>2. CASE Connections > Cardinality(storage)
      <4>1. PICK m \in Nat : m = Connections - Cardinality(storage)
        BY <3>2, CountSizes
      <4>2. m >= Connections - spawned' - Cardinality(todo')
        BY <2>5, <2>6, <4>1, CountSizes
      <4>3. Connections <= b
        BY CountSizes
      <4>4. Cardinality(StoredTops) + m <= b
        <5> HIDE DEF b
        <5> QED
          BY <4>1, <4>3, <2>4, <2>b, CountSizes
      <4>5. Cardinality(StoredTops') + Cardinality(Writing') + Cardinality(Fresh') + m
              <= Connections * (unread' + 1)
        BY <2>1, <2>3, <2>6, <4>1, <4>4, CountSizes
      <4>6. Remaining(m)'
        BY <2>5, <4>2 DEF Remaining
      <4> QED
        BY <4>1, <4>5, <4>6 DEF Allowance
    <3> QED
      BY <3>1, <3>2, CountSizes
  <2>7. CASE todo' = {} /\ unread' = unread + 1
    <3>1. Cardinality(todo') = 0
      BY <2>2, <2>7
    <3>2. Remaining(Connections)'
      BY <2>5, <3>1, CountSizes DEF Remaining
    <3>3. Connections * (unread' + 1) = b + Connections
      BY <2>7, CountSizes
    <3>4. Cardinality(StoredTops') + Cardinality(Writing') + Cardinality(Fresh') + Connections
            <= b + Connections
      <4> HIDE DEF b
      <4> QED
        BY <2>b, <2>1, <2>3, <2>4, CountSizes
    <3> QED
      BY <3>2, <3>3, <3>4, CountSizes DEF Allowance
  <2> QED
    BY <1>1, <2>6, <2>7 DEF Load
<1>2. CASE Restored
  <2> DEFINE b == Connections * (unread + 1)
  <2>b. b \in Nat
    BY CountSizes
  <2>n. PICK n \in Nat :
          /\ Remaining(n)
          /\ Cardinality(StoredTops) + Cardinality(Writing) + Cardinality(Fresh) + n <= b
    BY DEF RegInv, Allowance
  <2>1. SameStarts /\ storage' = storage
    BY <1>2, QuietDoes, QuietStarts DEF Restored
  <2>2. Remaining(n)'
    <3>1. Cardinality(todo) = 0
      BY <1>2, FS_EmptySet DEF Restored
    <3> QED
      BY <1>2, <2>n, <3>1, CountSizes DEF Restored, Remaining
  <2> HIDE DEF b
  <2>3. Cardinality(StoredTops') + Cardinality(Writing') + Cardinality(Fresh') + n <= b
    BY <2>b, <2>n, <2>1, CalmCounts, CountSizes
  <2>4. b = Connections * (unread' + 1)
    BY <1>2 DEF Restored, b
  <2> QED
    BY <2>2, <2>3, <2>4 DEF Allowance
<1>3. CASE Spawned
  <2> DEFINE b == Connections * (unread + 1)
  <2>b. b \in Nat
    BY CountSizes
  <2>n. PICK n \in Nat :
          /\ Remaining(n)
          /\ Cardinality(StoredTops) + Cardinality(Writing) + Cardinality(Fresh) + n <= b
    BY DEF RegInv, Allowance
  <2>1. SameStarts /\ storage' = storage
    BY <1>3, QuietDoes, QuietStarts DEF Spawned
  <2>2. Remaining(0)'
    BY <1>3 DEF Spawned, Remaining
  <2> HIDE DEF b
  <2>3. Cardinality(StoredTops') + Cardinality(Writing') + Cardinality(Fresh') + 0 <= b
    BY <2>b, <2>n, <2>1, CalmCounts, CountSizes
  <2>4. b = Connections * (unread' + 1)
    BY <1>3 DEF Spawned, b
  <2> QED
    BY <2>2, <2>3, <2>4 DEF Allowance
<1>4. ASSUME NEW o \in Objects, NEW r \in todo, Restore(o, r) PROVE Allowance'
  <2> DEFINE b == Connections * (unread + 1)
  <2>b. b \in Nat
    BY CountSizes
  <2>n. PICK n \in Nat :
          /\ Remaining(n)
          /\ Cardinality(StoredTops) + Cardinality(Writing) + Cardinality(Fresh) + n <= b
    BY DEF RegInv, Allowance
  <2>1. SameStarts /\ storage' = storage
    BY <1>4, RestoreDoes, RestoreStarts DEF Restore
  <2>2. spawned' = spawned + 1
    BY <1>4, SpawnCounts DEF Restore
  <2>3. Cardinality(todo') = Cardinality(todo) - 1
    BY <1>4, TodoCounts DEF RegInv, Finite, Restore
  <2>4. Remaining(n)'
    BY <1>4, <2>n, <2>2, <2>3, CountSizes DEF Restore, Remaining
  <2> HIDE DEF b
  <2>5. Cardinality(StoredTops') + Cardinality(Writing') + Cardinality(Fresh') + n <= b
    BY <2>b, <2>n, <2>1, CalmCounts, CountSizes
  <2>6. b = Connections * (unread' + 1)
    BY <1>4 DEF Restore, b
  <2> QED
    BY <2>4, <2>5, <2>6 DEF Allowance
<1>5. ASSUME NEW o \in Objects, SpawnNew(o) PROVE Allowance'
  <2> DEFINE b == Connections * (unread + 1)
  <2>b. b \in Nat
    BY CountSizes
  <2>n. PICK n \in Nat :
          /\ Remaining(n)
          /\ Cardinality(StoredTops) + Cardinality(Writing) + Cardinality(Fresh) + n <= b
    BY DEF RegInv, Allowance
  <2>1. Writing' = Writing /\ Fresh' \subseteq Fresh \cup {<<o, 1>>}
    BY <1>5, SpawnNewDoes, SpawnNewStarts
  <2>2. StoredTops' = StoredTops
    BY <1>5, SameTops DEF SpawnNew
  <2>3. Cardinality(Fresh') \in Nat /\ Cardinality(Fresh') <= Cardinality(Fresh) + 1
    <3>1. /\ IsFiniteSet(Fresh \cup {<<o, 1>>})
          /\ Cardinality(Fresh \cup {<<o, 1>>}) <= Cardinality(Fresh) + 1
      <4>1. IsFiniteSet(Fresh) /\ Cardinality(Fresh) \in Nat
        BY CountSizes
      <4>2. IsFiniteSet(Fresh \cup {<<o, 1>>})
        BY <4>1, FS_AddElement
      <4>3. \/ Cardinality(Fresh \cup {<<o, 1>>}) = Cardinality(Fresh)
            \/ Cardinality(Fresh \cup {<<o, 1>>}) = Cardinality(Fresh) + 1
        BY Zenon, <4>1, FS_AddElement
      <4> QED
        BY <4>1, <4>2, <4>3
    <3>2. /\ IsFiniteSet(Fresh')
          /\ Cardinality(Fresh') <= Cardinality(Fresh \cup {<<o, 1>>})
      BY <2>1, <3>1, FS_Subset
    <3> QED
      BY <3>1, <3>2, FS_CardinalityType, CountSizes
  <2>4. /\ spawner' = "spawn" /\ spawner = "spawn"
        /\ spawned' = spawned + 1 /\ spawned < Connections
    BY <1>5 DEF SpawnNew, SpawnDevice
  <2>5. n >= Connections - spawned
    BY <2>n, <2>4 DEF Remaining
  <2>6. n - 1 \in Nat /\ n - 1 >= Connections - spawned'
    BY <2>4, <2>5, CountSizes
  <2>7. Remaining(n - 1)'
    BY <2>4, <2>6 DEF Remaining
  <2> HIDE DEF b
  <2>8. Cardinality(StoredTops') + Cardinality(Writing') + Cardinality(Fresh') + (n - 1) <= b
    BY <2>b, <2>n, <2>1, <2>2, <2>3, <2>6, CountSizes
  <2>9. b = Connections * (unread' + 1)
    BY <1>5 DEF SpawnNew, b
  <2> QED
    BY <2>6, <2>7, <2>8, <2>9 DEF Allowance
<1>6. ASSUME NEW g \in Starts, Begin(g) PROVE Allowance'
  <2>1. SameStarts
    BY <1>6, BeginDoes, BeginStarts
  <2>2. /\ storage' = storage /\ unread' = unread /\ spawner' = spawner
        /\ spawned' = spawned /\ todo' = todo
    BY <1>6 DEF Begin, spawnVars
  <2> QED
    BY <2>1, <2>2, CalmAllowance
<1>7. ASSUME NEW g \in Starts, ParentFound(g) PROVE Allowance'
  <2>1. SameStarts
    BY <1>7, ParentFoundDoes, ParentFoundStarts
  <2>2. /\ storage' = storage /\ unread' = unread /\ spawner' = spawner
        /\ spawned' = spawned /\ todo' = todo
    BY <1>7 DEF ParentFound, spawnVars
  <2> QED
    BY <2>1, <2>2, CalmAllowance
<1>8. ASSUME NEW g \in Starts, Key(g) PROVE Allowance'
  <2>1. SameStarts
    BY <1>8, KeyDoes, KeyStarts
  <2>2. /\ storage' = storage /\ unread' = unread /\ spawner' = spawner
        /\ spawned' = spawned /\ todo' = todo
    BY <1>8 DEF Key, spawnVars
  <2> QED
    BY <2>1, <2>2, CalmAllowance
<1>9. ASSUME NEW g \in Starts, Registers(g) PROVE Allowance'
  <2> DEFINE b == Connections * (unread + 1)
  <2>b. b \in Nat
    BY CountSizes
  <2>n. PICK n \in Nat :
          /\ Remaining(n)
          /\ Cardinality(StoredTops) + Cardinality(Writing) + Cardinality(Fresh) + n <= b
    BY DEF RegInv, Allowance
  <2>1. StoredTops' = StoredTops
    BY <1>9, SameTops DEF Registers
  <2>2. RegistersEffect(g)
    BY <1>9, RegistersDoes
  <2>3. Remaining(n)'
    BY <1>9, <2>n DEF Registers, Remaining, spawnVars
  <2>4. /\ Cardinality(Writing') \in Nat /\ Cardinality(Fresh') \in Nat
        /\ Cardinality(Writing') + Cardinality(Fresh')
             <= Cardinality(Writing) + Cardinality(Fresh)
    <3>1. CASE parent[g[1]] = None
      <4>1. /\ Writing' = Writing \cup {g} /\ g \notin Writing
            /\ Fresh' \subseteq Fresh \ {g} /\ g \in Fresh
        BY <2>2, <3>1, RegistersStarts
      <4>2. Cardinality(Writing') = Cardinality(Writing) + 1
        BY <4>1, CountSizes, FS_AddElement
      <4>3. IsFiniteSet(Fresh \ {g}) /\ Cardinality(Fresh \ {g}) = Cardinality(Fresh) - 1
        BY <4>1, CountSizes, FS_RemoveElement
      <4>4. IsFiniteSet(Fresh') /\ Cardinality(Fresh') <= Cardinality(Fresh \ {g})
        BY <4>1, <4>3, FS_Subset
      <4>5. Cardinality(Fresh') \in Nat
        BY <4>4, FS_CardinalityType
      <4>6. Cardinality(Writing) \in Nat /\ Cardinality(Fresh) \in Nat
        BY CountSizes
      <4>7. Cardinality(Fresh') <= Cardinality(Fresh) - 1
        BY <4>3, <4>4
      <4> QED
        BY <4>2, <4>5, <4>6, <4>7
    <3>2. CASE parent[g[1]] # None
      <4>1. Writing' = Writing /\ Fresh' \subseteq Fresh
        BY <2>2, <3>2, RegistersStarts
      <4>2. IsFiniteSet(Fresh') /\ Cardinality(Fresh') <= Cardinality(Fresh)
        BY <4>1, CountSizes, FS_Subset
      <4> QED
        BY <4>1, <4>2, FS_CardinalityType, CountSizes
    <3> QED
      BY <3>1, <3>2
  <2> HIDE DEF b
  <2>5. Cardinality(StoredTops') + Cardinality(Writing') + Cardinality(Fresh') + n <= b
    BY <2>b, <2>n, <2>1, <2>4, CountSizes
  <2>6. b = Connections * (unread' + 1)
    BY <1>9 DEF Registers, b
  <2> QED
    BY <2>3, <2>5, <2>6 DEF Allowance
<1>10. ASSUME NEW g \in Starts, Write(g) PROVE Allowance'
  <2> DEFINE b == Connections * (unread + 1)
  <2>b. b \in Nat
    BY CountSizes
  <2>n. PICK n \in Nat :
          /\ Remaining(n)
          /\ Cardinality(StoredTops) + Cardinality(Writing) + Cardinality(Fresh) + n <= b
    BY DEF RegInv, Allowance
  <2>1. WriteEffect(g)
    BY <1>10, WriteDoes
  <2>2. Cardinality(Fresh') \in Nat /\ Cardinality(Fresh') <= Cardinality(Fresh)
    <3>1. Fresh' \subseteq Fresh
      BY <2>1, WriteStarts
    <3> QED
      BY <3>1, CountSizes, FS_Subset, FS_CardinalityType
  <2>3. Remaining(n)'
    BY <1>10, <2>n DEF Write, Remaining, spawnVars
  <2>4. /\ Cardinality(StoredTops') \in Nat /\ Cardinality(Writing') \in Nat
        /\ Cardinality(StoredTops') + Cardinality(Writing')
             <= Cardinality(StoredTops) + Cardinality(Writing)
    <3>1. CASE parent[g[1]] = None
      <4>1. Writing' = Writing \ {g} /\ g \in Writing
        BY <2>1, <3>1, WriteStarts
      <4>2. Cardinality(Writing') = Cardinality(Writing) - 1 /\ Cardinality(Writing') \in Nat
        BY <4>1, CountSizes, FS_RemoveElement, FS_CardinalityType
      <4>3. Cardinality(StoredTops') \in {Cardinality(StoredTops), Cardinality(StoredTops) + 1}
        BY <1>10, <3>1, WriteTops, CountSizes, FS_AddElement
      <4> QED
        BY <4>2, <4>3, CountSizes
    <3>2. CASE parent[g[1]] # None
      BY <1>10, <2>1, <3>2, WriteStarts, WriteTops, CountSizes
    <3> QED
      BY <3>1, <3>2
  <2> HIDE DEF b
  <2>5. Cardinality(StoredTops') + Cardinality(Writing') + Cardinality(Fresh') + n <= b
    BY <2>b, <2>n, <2>2, <2>4, CountSizes
  <2>6. b = Connections * (unread' + 1)
    BY <1>10 DEF Write, b
  <2> QED
    BY <2>3, <2>5, <2>6 DEF Allowance
<1>11. ASSUME NEW g \in Starts, List(g) PROVE Allowance'
  <2>1. SameStarts
    BY <1>11, ListDoes, ListStarts
  <2>2. /\ storage' = storage /\ unread' = unread /\ spawner' = spawner
        /\ spawned' = spawned /\ todo' = todo
    BY <1>11 DEF List, spawnVars
  <2> QED
    BY <2>1, <2>2, CalmAllowance
<1>12. ASSUME NEW g \in Starts, Connect(g) PROVE Allowance'
  <2>1. SameStarts
    BY <1>12, ConnectDoes, ConnectStarts
  <2>2. /\ storage' = storage /\ unread' = unread /\ spawner' = spawner
        /\ spawned' = spawned /\ todo' = todo
    BY <1>12 DEF Connect, spawnVars
  <2> QED
    BY <2>1, <2>2, CalmAllowance
<1>13. ASSUME NEW o \in Objects, Token(o) PROVE Allowance'
  <2>1. SameStarts
    BY <1>13, QuietDoes, QuietStarts
  <2>2. /\ storage' = storage /\ unread' = unread /\ spawner' = spawner
        /\ spawned' = spawned /\ todo' = todo
    BY <1>13 DEF Token, spawnVars
  <2> QED
    BY <2>1, <2>2, CalmAllowance
<1>14. ASSUME NEW o \in Objects, NEW c \in Objects, PrepInvEvents(o, c) PROVE Allowance'
  <2>1. SameStarts
    BY <1>14, PrepInvEventsDoes, PrepInvEventsStarts
  <2>2. /\ storage' = storage /\ unread' = unread /\ spawner' = spawner
        /\ spawned' = spawned /\ todo' = todo
    BY <1>14 DEF PrepInvEvents, spawnVars
  <2> QED
    BY <2>1, <2>2, CalmAllowance
<1>15. ASSUME NEW o \in Objects, NEW g \in Starts, StartChildDc(o, g) PROVE Allowance'
  <2>1. SameStarts
    BY <1>15, StartChildDcDoes, StartChildDcStarts
  <2>2. /\ storage' = storage /\ unread' = unread /\ spawner' = spawner
        /\ spawned' = spawned /\ todo' = todo
    BY <1>15 DEF StartChildDc, spawnVars
  <2> QED
    BY <2>1, <2>2, CalmAllowance
<1>16. ASSUME NEW h \in Handlers, NEW o \in Objects, NEW i \in Ids, Control(h, o, i)
       PROVE Allowance'
  <2>1. SameStarts
    BY <1>16, ControlDoes, ControlStarts
  <2>2. /\ storage' = storage /\ unread' = unread /\ spawner' = spawner
        /\ spawned' = spawned /\ todo' = todo
    BY <1>16 DEF Control, spawnVars
  <2> QED
    BY <2>1, <2>2, CalmAllowance
<1>17. ASSUME NEW h \in Handlers, CheckId(h) PROVE Allowance'
  <2>1. SameStarts
    BY <1>17, CheckIdDoes, CheckIdStarts
  <2>2. /\ storage' = storage /\ unread' = unread /\ spawner' = spawner
        /\ spawned' = spawned /\ todo' = todo
    BY <1>17 DEF CheckId, spawnVars
  <2> QED
    BY <2>1, <2>2, CalmAllowance
<1>18. ASSUME NEW h \in Handlers, Rename(h) PROVE Allowance'
  <2>1. SameStarts
    BY <1>18, RenameDoes, RenameStarts
  <2>2. /\ storage' = storage /\ unread' = unread /\ spawner' = spawner
        /\ spawned' = spawned /\ todo' = todo
    BY <1>18 DEF Rename, spawnVars
  <2> QED
    BY <2>1, <2>2, CalmAllowance
<1>19. CASE GetEmulatorTokens
  <2>1. SameStarts
    BY <1>19, QuietDoes, QuietStarts
  <2>2. /\ storage' = storage /\ unread' = unread /\ spawner' = spawner
        /\ spawned' = spawned /\ todo' = todo
    BY <1>19 DEF GetEmulatorTokens, spawnVars
  <2> QED
    BY <2>1, <2>2, CalmAllowance
<1>20. CASE Crash
  <2> DEFINE b == Connections * (unread + 1)
  <2>b. b \in Nat
    BY CountSizes
  <2>n. PICK n \in Nat :
          /\ Remaining(n)
          /\ Cardinality(StoredTops) + Cardinality(Writing) + Cardinality(Fresh) + n <= b
    BY DEF RegInv, Allowance
  <2>1. Writing' = {} /\ Fresh' = {} /\ Cardinality({}) = 0
    BY <1>20, CrashDoes, CrashStarts, FS_EmptySet
  <2>2. StoredTops' = StoredTops
    BY <1>20, SameTops DEF Crash
  <2>3. Remaining(0)'
    BY <1>20 DEF Crash, Remaining
  <2>4. Cardinality(Writing') = 0 /\ Cardinality(Fresh') = 0
    BY <2>1
  <2> HIDE DEF b
  <2>5. Cardinality(StoredTops') + Cardinality(Writing') + Cardinality(Fresh') + 0 <= b
    BY <2>b, <2>n, <2>2, <2>4, CountSizes
  <2>6. b = Connections * (unread' + 1)
    BY <1>20 DEF Crash, b
  <2> QED
    BY <2>3, <2>5, <2>6 DEF Allowance
<1>21. CASE UNCHANGED rgVars
  <2>1. SameStarts
    BY <1>21, QuietDoes, QuietStarts
  <2>2. /\ storage' = storage /\ unread' = unread /\ spawner' = spawner
        /\ spawned' = spawned /\ todo' = todo
    BY <1>21 DEF rgVars, spawnVars
  <2> QED
    BY <2>1, <2>2, CalmAllowance
<1> QED
  BY Zenon, RGSteps, <1>1, <1>2, <1>3, <1>4, <1>5, <1>6, <1>7, <1>8, <1>9, <1>10, <1>11,
     <1>12, <1>13, <1>14, <1>15, <1>16, <1>17, <1>18, <1>19, <1>20, <1>21

LEMMA RegInit == RGInit => RegInv
<1> SUFFICES ASSUME RGInit PROVE RegInv
  OBVIOUS
<1>1. IsFiniteSet({}) /\ Cardinality({}) = 0
  BY FS_EmptySet
<1>2. PlainTypes /\ StartTypes /\ FamilyTypes
  BY DEF RGInit, PlainTypes, StartTypes, FamilyTypes, Labels
<1>3. ListTypes
  BY DEF RGInit, ListTypes, Handler, Idle
<1>4. PlainCloud
  BY RegistryAssumption DEF RGInit, PlainCloud
<1>5. Unused /\ Loading
  BY ObjectOf DEF RGInit, Unused, Loading
<1>6. ParentKnown /\ RestoredKnown /\ Kin
  BY ObjectOf DEF RGInit, ParentKnown, RestoredKnown, Kin
<1>7. Identified /\ Waiting /\ TopsPlain
  BY ObjectOf DEF RGInit, Identified, Waiting, TopsPlain
<1>8. Keyed /\ ListedKnown /\ Handled
  BY ObjectOf DEF RGInit, Keyed, ListedKnown, Handled
<1>9. KeysKnown /\ KeysApart
  BY ObjectOf DEF RGInit, KeysKnown, KeysApart
<1>10. \A o \in Objects, n \in Regs : ~Bears(o, n)
  BY NoneApart DEF RGInit, Bears, Idle
<1>11. Origins /\ NumbersKnown
  BY <1>10, ObjectOf DEF RGInit, Origins, Own, NumbersKnown
<1>12. Enrolled
  BY DEF RGInit, Enrolled
<1>13. Finite
  BY <1>1 DEF RGInit, Finite
<1>14. StoredTops = {} /\ Writing = {} /\ Fresh = {}
  BY DEF RGInit, StoredTops, Writing, Fresh
<1>15. Cardinality(StoredTops) = 0 /\ Cardinality(Writing) = 0 /\ Cardinality(Fresh) = 0
  BY <1>1, <1>14
<1>16. TopsCounted /\ UnreadBound
  BY <1>15 DEF RGInit, TopsCounted, UnreadBound
<1>17. Allowance
  BY <1>15, RegistryAssumption DEF RGInit, Allowance, Remaining
<1> QED
  BY Zenon, <1>2, <1>3, <1>4, <1>5, <1>6, <1>7, <1>8, <1>9, <1>11, <1>12, <1>13, <1>16,
     <1>17
     DEF RegInv

LEMMA RegStep == RegInv /\ [RGNext]_rgVars => RegInv'
  BY Zenon, PlainTypesStep, StartTypesStep, FamilyTypesStep, ListTypesStep, PlainCloudStep,
     UnusedStep, LoadingStep, ParentKnownStep, RestoredKnownStep, KinStep, IdentifiedStep,
     WaitingStep, TopsPlainStep, KeyedStep, ListedKnownStep, HandledStep, KeysKnownStep,
     KeysApartStep, OriginsStep, NumbersKnownStep, EnrolledStep, FiniteStep,
     TopsCountedStep, UnreadBoundStep, AllowanceStep
     DEF RegInv

LEMMA RegAlways == RGSpec => []RegInv
  BY RegInit, RegStep, PTL DEF RGSpec
\* Registry is type correct, with every count within its bound.
THEOREM RegistryTypeCorrect == RGSpec => []RGTypeOK
<1>1. RegInv => RGTypeOK
  <2> SUFFICES ASSUME RegInv PROVE RGTypeOK
    OBVIOUS
  <2>1. spawned \in 0 .. MaxObjects
    <3>1. exists \subseteq Objects /\ spawned \in Nat /\ spawned <= Cardinality(exists)
      BY DEF RegInv, PlainTypes, Finite
    <3> QED
      BY <3>1, ExistsFinite, RegistryAssumption
  <2>2. tops \in 0 .. MaxRegs /\ lost \in 0 .. MaxRegs
    <3>1. regs \in 0 .. MaxRegs /\ tops <= regs
      BY DEF RegInv, PlainCloud, TopsCounted
    <3>2. lost <= tops
      BY CountSizes DEF RegInv, TopsCounted
    <3> QED
      BY <3>1, <3>2, CountSizes, RegistryAssumption
  <2>3. unread \in 0 .. MaxCrashes + 1
    <3>1. unread \in Nat /\ crashes \in 0 .. MaxCrashes /\ unread <= crashes + 1
      BY RegistryAssumption DEF RegInv, PlainCloud, UnreadBound
    <3> QED
      BY <3>1, RegistryAssumption
  <2>4. SpawnTypes
    BY <2>1 DEF RegInv, PlainTypes, SpawnTypes
  <2>5. CloudTypes
    BY <2>2, <2>3 DEF RegInv, PlainCloud, CloudTypes
  <2> QED
    BY <2>4, <2>5 DEF RegInv, RGTypeOK
<1> QED
  BY <1>1, RegAlways, PTL
\* A device that runs is found in emulators by its identity, unless it registers
\* again or another device has its registration: every change of the list is one of
\* a device that has registrations of its own, or only one.
THEOREM DevicesAreFound == RGSpec => []Findable
<1>1. RegInv => Findable
  <2> SUFFICES ASSUME RegInv, NEW o \in Objects, Up(o),
                      \A n \in {1, 2} : at[<<o, n>>] \notin {"write", "list"},
                      \A p \in Objects \ {o} : id[p] # None => id[p][1] # id[o][1]
               PROVE emulators[id[o]] = o
    BY DEF Findable
  <2>1. \E g \in Starts : g[1] = o /\ at[g] \in {"connect", "started"}
    <3>1. PICK n \in {1, 2} : at[<<o, n>>] = "started"
      BY DEF Up
    <3> QED
      BY <3>1 DEF Starts
  <2>2. \A g \in Starts : g[1] = o => at[g] \notin {"write", "list"}
    BY ObjectOf
  <2> QED
    BY <2>1, <2>2 DEF RegInv, Enrolled, Alone
<1> QED
  BY <1>1, RegAlways, PTL
\* However often the process crashes, what is stored, about to be stored, about to
\* register and yet to be started is never more than the devices it is to emulate,
\* once for every start at which the storage could not be read.
THEOREM BudgetIsKept == RGSpec => []Budget
<1>1. RegInv => Budget
  <2> SUFFICES ASSUME RegInv PROVE Budget
    OBVIOUS
  <2> DEFINE b == Connections * (unread + 1)
  <2>1. b \in Nat
    BY CountSizes
  <2>2. PICK n \in Nat :
        Cardinality(StoredTops) + Cardinality(Writing) + Cardinality(Fresh) + n <= b
    BY DEF RegInv, Allowance
  <2>3. tops = Cardinality(StoredTops) + Cardinality(Writing) + lost
    BY DEF RegInv, TopsCounted
  <2> HIDE DEF b
  <2>4. tops <= b + lost
    BY <2>1, <2>2, <2>3, CountSizes
  <2> QED
    BY <2>4 DEF Budget, b
<1> QED
  BY <1>1, RegAlways, PTL
=============================================================================
