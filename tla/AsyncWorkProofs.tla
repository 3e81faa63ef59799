-------------------------- MODULE AsyncWorkProofs --------------------------
(***************************************************************************)
(* Proofs about the work done behind the messages: AsyncWork for any set   *)
(* of keys and any size of the queue, and Events for any devices, topics   *)
(* and number of messages and batches.                                     *)
(***************************************************************************)
EXTENDS AsyncWork, Events, TLAPS

(***************************************************************************)
(* AsyncWork.                                                              *)
(***************************************************************************)

\* What the sequence operations of the queue do to the set of queued keys.
LEMMA AppendQueued ==
  ASSUME NEW q \in Seq(Keys), NEW k \in Keys
  PROVE  /\ Append(q, k) \in Seq(Keys)
         /\ Len(Append(q, k)) = Len(q) + 1
         /\ \A i \in DOMAIN q : Append(q, k)[i] = q[i]
         /\ Append(q, k)[Len(q) + 1] = k
         /\ DOMAIN Append(q, k) = DOMAIN q \cup {Len(q) + 1}
OBVIOUS

LEMMA TailQueued ==
  ASSUME NEW q \in Seq(Keys), q # <<>>
  PROVE  /\ Head(q) \in Keys /\ Head(q) = q[1]
         /\ Tail(q) \in Seq(Keys)
         /\ Len(Tail(q)) = Len(q) - 1
         /\ \A i \in DOMAIN Tail(q) : i + 1 \in DOMAIN q /\ Tail(q)[i] = q[i + 1]
         /\ \A i \in DOMAIN q : i # 1 => i - 1 \in DOMAIN Tail(q)
OBVIOUS

LEMMA InitInv == Init => WorkInv
<1> SUFFICES ASSUME Init PROVE WorkInv
  OBVIOUS
<1>1. workQueue \in Seq(Keys) /\ Len(workQueue) = 0 /\ DOMAIN workQueue = {}
  BY DEF Init
<1>2. TypeOK
  <2>1. Len(workQueue) <= QueueSize
    BY <1>1, WorkAssumption
  <2> QED
    BY Zenon, <1>1, <2>1 DEF Init, TypeOK
<1>3. DedupExact
  BY <1>1 DEF Init, DedupExact, Queued, Running, Marked
<1> QED
  BY <1>2, <1>3 DEF WorkInv

LEMMA NextInv == WorkInv /\ [Next]_vars => WorkInv'
<1> SUFFICES ASSUME WorkInv, [Next]_vars PROVE WorkInv'
  OBVIOUS
<1> USE WorkAssumption
<1> USE DEF WorkInv, TypeOK, DedupExact, Queued, Running, Marked
<1>1. ASSUME NEW k \in Keys, Receive(k) PROVE WorkInv'
  BY <1>1 DEF Receive
<1>2. CASE Drop
  BY <1>2 DEF Drop
<1>3. CASE Mark
  BY <1>3 DEF Mark
<1>4. CASE Enqueue
  <2>1. TypeOK'
    BY <1>4, AppendQueued DEF Enqueue
  <2>2. Queued' = Queued \cup {input}
    BY <1>4, AppendQueued DEF Enqueue
  <2>3. \A i, j \in DOMAIN workQueue' : workQueue'[i] = workQueue'[j] => i = j
    BY <1>4, AppendQueued DEF Enqueue
  <2> QED
    BY <1>4, <2>1, <2>2, <2>3 DEF Enqueue
<1>5. CASE QueueFull
  BY <1>5 DEF QueueFull
<1>6. CASE PublishFull
  BY <1>6 DEF PublishFull
<1>7. CASE HandlerCancelled
  BY <1>7 DEF HandlerCancelled
<1>8. CASE Take
  <2>1. TypeOK'
    BY <1>8, TailQueued DEF Take
  <2>2. Queued' = Queued \ {Head(workQueue)} /\ Head(workQueue) \in Queued
    <3> DEFINE q == workQueue
    <3>1. q \in Seq(Keys) /\ q # <<>> /\ workQueue' = Tail(q)
      BY <1>8 DEF Take
    <3>2. Head(q) = q[1] /\ 1 \in DOMAIN q
      BY <3>1
    <3>3. \A i \in DOMAIN Tail(q) :
            i + 1 \in DOMAIN q /\ Tail(q)[i] = q[i + 1] /\ i + 1 # 1
      BY <3>1
    <3>4. \A i \in DOMAIN q : i # 1 => i - 1 \in DOMAIN Tail(q) /\ Tail(q)[i - 1] = q[i]
      BY <3>1
    <3>5. Queued' \subseteq Queued \ {q[1]}
      BY <3>1, <3>2, <3>3
    <3>6. Queued \ {q[1]} \subseteq Queued'
      BY <3>1, <3>2, <3>4
    <3> QED
      BY <3>2, <3>5, <3>6
  <2>3. \A i, j \in DOMAIN workQueue' : workQueue'[i] = workQueue'[j] => i = j
    BY <1>8, TailQueued DEF Take
  <2> QED
    BY <1>8, <2>1, <2>2, <2>3 DEF Take
<1>9. CASE Finish
  BY <1>9 DEF Finish
<1>10. CASE PublishResult
  BY <1>10 DEF PublishResult
<1>11. CASE WorkerCancelled
  BY <1>11 DEF WorkerCancelled
<1>12. CASE Emit
  BY <1>12 DEF Emit
<1>13. CASE SinkCancelled
  BY <1>13 DEF SinkCancelled
<1>14. CASE CloseStream
  BY <1>14 DEF CloseStream
<1>15. CASE UNCHANGED vars
  BY <1>15 DEF vars
<1>16. QED
  BY <1>1, <1>2, <1>3, <1>4, <1>5, <1>6, <1>7, <1>8, <1>9, <1>10, <1>11, <1>12,
     <1>13, <1>14, <1>15
  DEF Next, HandlerNext, WorkerNext, StreamNext

LEMMA Inductive == SafeSpec => []WorkInv
BY InitInv, NextInv, PTL DEF SafeSpec

----------------------------------------------------------------------------

\* The variables keep their types, and the queue its bound.
THEOREM TypeCorrect == Spec => []TypeOK
<1>1. WorkInv => TypeOK
  BY DEF WorkInv
<1> QED
  BY <1>1, Inductive, PTL DEF Spec

\* dedupQueue holds exactly the keys of the work that is queued or running,
\* each of them once.
THEOREM DedupIsExact == Spec => []DedupExact
<1>1. WorkInv => DedupExact
  BY DEF WorkInv
<1> QED
  BY <1>1, Inductive, PTL DEF Spec

----------------------------------------------------------------------------
(* AsyncWork implements the safety part of Work. *)

\* A function that differs from another one at one key, by one.
LEMMA OneMore ==
  ASSUME NEW f \in [Keys -> Nat], NEW g \in [Keys -> Nat], NEW k \in Keys,
         g[k] = f[k] + 1, \A j \in Keys : j # k => g[j] = f[j]
  PROVE  g = [f EXCEPT ![k] = @ + 1]
OBVIOUS

LEMMA OneLess ==
  ASSUME NEW f \in [Keys -> Nat], NEW g \in [Keys -> Nat], NEW k \in Keys,
         g[k] = f[k] - 1, \A j \in Keys : j # k => g[j] = f[j]
  PROVE  g = [f EXCEPT ![k] = @ - 1]
OBVIOUS

LEMMA WorkStep == WorkInv /\ [Next]_vars => [W!Next]_(W!vars)
<1> SUFFICES ASSUME WorkInv, [Next]_vars PROVE [W!Next]_(W!vars)
  OBVIOUS
<1> USE WorkAssumption
<1> DEFINE Unchanged == UNCHANGED <<dedupQueue, Owed, ctxDone>>
<1>a. Owed \in [Keys -> Nat] /\ Owed' \in [Keys -> Nat]
  BY DEF Owed, Count
<1>b. Unchanged => [W!Next]_(W!vars)
  BY DEF W!vars
<1>c. ASSUME NEW k \in Keys, W!Accept(k) \/ W!Complete(k) \/ W!Publish(k)
      PROVE  [W!Next]_(W!vars)
  BY <1>c DEF W!Next
<1>d. W!Close => [W!Next]_(W!vars)
  BY DEF W!Next
<1> HIDE DEF Unchanged
<1>e. ASSUME NEW k \in Keys, handler = "full", input = k, handler' = "idle",
             UNCHANGED <<worker, work>>,
             UNCHANGED <<ctxDone, dedupQueue>>
      PROVE  W!Publish(k)
  <2>1. Owed[k] > IF k \in dedupQueue THEN 1 ELSE 0
    BY <1>e DEF Owed, Count
  <2>2. Owed'[k] = Owed[k] - 1
    BY <1>e DEF Owed, Count
  <2>3. \A j \in Keys : j # k => Owed'[j] = Owed[j]
    BY <1>e DEF Owed, Count
  <2>4. Owed' = [Owed EXCEPT ![k] = @ - 1]
    BY <1>a, <2>2, <2>3, OneLess
  <2> QED
    BY <1>e, <2>1, <2>4 DEF W!Publish
<1>f. ASSUME NEW k \in Keys, worker = "publish", work = k, worker' = "idle",
             UNCHANGED <<handler, input>>,
             UNCHANGED <<ctxDone, dedupQueue>>
      PROVE  W!Publish(k)
  <2>1. Owed[k] > IF k \in dedupQueue THEN 1 ELSE 0
    BY <1>f DEF Owed, Count
  <2>2. Owed'[k] = Owed[k] - 1
    BY <1>f DEF Owed, Count
  <2>3. \A j \in Keys : j # k => Owed'[j] = Owed[j]
    BY <1>f DEF Owed, Count
  <2>4. Owed' = [Owed EXCEPT ![k] = @ - 1]
    BY <1>a, <2>2, <2>3, OneLess
  <2> QED
    BY <1>f, <2>1, <2>4 DEF W!Publish
<1>1. ASSUME NEW k \in Keys, Receive(k) PROVE Unchanged
  BY <1>1 DEF Unchanged, Receive, Owed, Count
<1>2. CASE Drop
  <2>1. Unchanged
    BY <1>2 DEF Unchanged, Drop, Owed, Count
  <2> QED
    BY <1>b, <2>1
<1>3. CASE Mark
  <2>1. input \in Keys
    BY <1>3 DEF Mark, WorkInv, TypeOK
  <2>2. Owed'[input] = Owed[input] + 1
    BY <1>3, <2>1 DEF Mark, Owed, Count
  <2>3. \A j \in Keys : j # input => Owed'[j] = Owed[j]
    BY <1>3, <2>1 DEF Mark, Owed, Count
  <2>4. Owed' = [Owed EXCEPT ![input] = @ + 1]
    BY <1>a, <2>1, <2>2, <2>3, OneMore
  <2>5. W!Accept(input)
    BY <1>3, <2>4 DEF Mark, W!Accept
  <2> QED
    BY <1>c, <2>1, <2>5
<1>4. CASE Enqueue
  <2>1. Unchanged
    BY <1>4 DEF Unchanged, Enqueue, Owed, Count
  <2> QED
    BY <1>b, <2>1
<1>5. CASE QueueFull
  <2>1. W!Complete(input) /\ input \in Keys
    BY <1>5 DEF QueueFull, W!Complete, Owed, Count, WorkInv, TypeOK, DedupExact,
                Marked
  <2> QED
    BY <1>c, <2>1
<1>6. CASE PublishFull
  <2>1. input \in Keys
    BY <1>6 DEF PublishFull, WorkInv, TypeOK
  <2>2. W!Publish(input)
    BY <1>e, <1>6, <2>1 DEF PublishFull
  <2> QED
    BY <1>c, <2>1, <2>2
<1>7. CASE HandlerCancelled
  <2>1. CASE handler = "idle"
    <3>1. Unchanged
      BY <1>7, <2>1 DEF Unchanged, HandlerCancelled, Owed, Count
    <3> QED
      BY <1>b, <3>1
  <2>2. CASE handler = "full"
    <3>1. input \in Keys
      BY <2>2 DEF WorkInv, TypeOK
    <3>2. W!Publish(input)
      BY <1>e, <1>7, <2>2, <3>1 DEF HandlerCancelled
    <3> QED
      BY <1>c, <3>1, <3>2
  <2> QED
    BY <1>7, <2>1, <2>2 DEF HandlerCancelled
<1>8. CASE Take
  <2>1. worker = "idle" /\ worker' = "run"
    BY <1>8 DEF Take
  <2>2. Unchanged
    BY <1>8, <2>1 DEF Unchanged, Take, Owed, Count
  <2> QED
    BY <1>b, <2>2
<1>9. CASE Finish
  <2>1. work \in Keys /\ work \in dedupQueue
    BY <1>9 DEF Finish, WorkInv, TypeOK, DedupExact, Running
  <2>2. \A j \in Keys : Owed'[j] = Owed[j]
    BY <1>9, <2>1 DEF Finish, Owed, Count
  <2>3. Owed' = Owed
    BY <1>a, <2>2
  <2>4. W!Complete(work)
    BY <1>9, <2>1, <2>3 DEF Finish, W!Complete
  <2> QED
    BY <1>c, <2>1, <2>4
<1>10. CASE PublishResult
  <2>1. work \in Keys
    BY <1>10 DEF PublishResult, WorkInv, TypeOK
  <2>2. W!Publish(work)
    BY <1>f, <1>10, <2>1 DEF PublishResult
  <2> QED
    BY <1>c, <2>1, <2>2
<1>11. CASE WorkerCancelled
  <2>1. CASE worker = "idle"
    <3>1. Unchanged
      BY <1>11, <2>1 DEF Unchanged, WorkerCancelled, Owed, Count
    <3> QED
      BY <1>b, <3>1
  <2>2. CASE worker = "publish"
    <3>1. work \in Keys
      BY <2>2 DEF WorkInv, TypeOK
    <3>2. W!Publish(work)
      BY <1>f, <1>11, <2>2, <3>1 DEF WorkerCancelled
    <3> QED
      BY <1>c, <3>1, <3>2
  <2> QED
    BY <1>11, <2>1, <2>2 DEF WorkerCancelled
<1>12. CASE Emit
  <2>1. Unchanged
    BY <1>12 DEF Unchanged, Emit, Owed, Count
  <2> QED
    BY <1>b, <2>1
<1>13. CASE SinkCancelled
  <2>1. Unchanged
    BY <1>13 DEF Unchanged, SinkCancelled, Owed, Count
  <2> QED
    BY <1>b, <2>1
<1>14. CASE CloseStream
  <2>1. W!Close
    BY <1>14 DEF CloseStream, W!Close, Owed, Count
  <2> QED
    BY <1>d, <2>1
<1>15. CASE UNCHANGED vars
  <2>1. Unchanged
    BY <1>15 DEF Unchanged, vars, Owed, Count
  <2> QED
    BY <1>b, <2>1
<1>16. QED
  BY <1>b, <1>1, <1>2, <1>3, <1>4, <1>5, <1>6, <1>7, <1>8, <1>9, <1>10, <1>11,
     <1>12, <1>13, <1>14, <1>15
  DEF Next, HandlerNext, WorkerNext, StreamNext

\* Every step of the worker is one that Work allows: no unit is answered twice,
\* or before it is done, and no duplicate of a busy unit is accepted.
THEOREM SafelyImplementsWork == Spec => W!Safety
<1>1. Init => W!Init
  BY WorkAssumption DEF Init, W!Init, Owed, Count
<1> QED
  BY <1>1, Inductive, WorkStep, PTL DEF Spec, SafeSpec, W!Safety

(***************************************************************************)
(* Events.                                                                 *)
(***************************************************************************)

\* The counter of a topic is the number of its batches, received or lost; that
\* of the subscriber the eventer is at is the one the eventer counts with.
InTurn ==
  /\ topic # None => count = received[topic] + lost[topic]
  /\ \A t \in Topics : t # topic => counters[t] = received[t] + lost[t]

\* What the eventer says of itself is true, and a plugin that was entered has
\* an eventer, or a goroutine that is to start one.
Attended ==
  /\ started <=> pc # "none"
  /\ eventPlugins # {} => started \/ starts > 0

EventsInv == EVTypeOK /\ InTurn /\ Attended

LEMMA EventsInit == EVInit => EventsInv
<1> SUFFICES ASSUME EVInit PROVE EventsInv
  OBVIOUS
<1> USE EventsAssumption DEF EVInit
<1>1. MessageTypes
  BY DEF MessageTypes
<1>2. EventerTypes
  BY DEF EventerTypes
<1>3. EmitTypes
  BY DEF EmitTypes
<1>4. InTurn /\ Attended
  BY DEF InTurn, Attended
<1> QED
  BY <1>1, <1>2, <1>3, <1>4 DEF EventsInv, EVTypeOK

\* A batch of the topic that the eventer is at arrives or is lost.
LEMMA EmitBatchCounts ==
  ASSUME EVTypeOK, topic # None, count = received[topic] + lost[topic],
         count < MaxSent, EmitBatch
  PROVE  /\ received' \in [Topics -> 0 .. MaxSent] /\ lost' \in [Topics -> 0 .. MaxSent]
         /\ got' \in [Topics -> SUBSET Topics]
         /\ received'[topic] + lost'[topic] = count + 1
         /\ \A t \in Topics : t # topic => received'[t] = received[t] /\ lost'[t] = lost[t]
<1> USE EventsAssumption DEF EVTypeOK, EmitTypes
<1>1. topic \in Topics /\ received[topic] \in 0 .. MaxSent /\ lost[topic] \in 0 .. MaxSent
  OBVIOUS
<1>2. received[topic] + 1 \in 0 .. MaxSent /\ lost[topic] + 1 \in 0 .. MaxSent
  BY <1>1
<1>3. CASE Arrive
  BY <1>1, <1>2, <1>3 DEF Arrive
<1>4. CASE Lose
  BY <1>1, <1>2, <1>4 DEF Lose
<1> QED
  BY <1>3, <1>4 DEF EmitBatch

\* A message, and a goroutine that a message has started, do not touch what the
\* eventer counts with.
LEMMA MessagesInv ==
  ASSUME EventsInv, NEW t \in Topics, Start(t) \/ Stop(t) PROVE EventsInv'
<1>1. /\ UNCHANGED <<outVars, starts, eventPlugins, started, pc, left, device, emitVars>>
      /\ messages' = messages + 1 /\ messages < MaxMessages
      /\ subscribers' = subscribers \cup {t} \/ subscribers' = subscribers \ {t}
      /\ adds' = adds \/ adds' = [adds EXCEPT ![DeviceOf[t]] = @ + 1]
      /\ removes' = removes \/ removes' = [removes EXCEPT ![DeviceOf[t]] = @ + 1]
  BY DEF Start, Stop
<1>2. MessageTypes'
  BY <1>1, EventsAssumption DEF EventsInv, EVTypeOK, MessageTypes
<1> QED
  BY <1>1, <1>2
     DEF EventsInv, EVTypeOK, EventerTypes, EmitTypes, InTurn, Attended, outVars, emitVars

LEMMA PluginsInv ==
  ASSUME EventsInv, NEW d \in Devices, AddPlugin(d) \/ RemovePlugin(d) PROVE EventsInv'
<1> USE DEF AddPlugin, RemovePlugin
<1>1. MessageTypes'
  BY DEF EventsInv, EVTypeOK, MessageTypes
<1>2. EventerTypes' /\ Attended'
  BY DEF EventsInv, EVTypeOK, MessageTypes, EventerTypes, Attended
<1> QED
  BY <1>1, <1>2 DEF EventsInv, EVTypeOK, EmitTypes, InTurn, outVars, emitVars

LEMMA EventerInv == ASSUME EventsInv, StartEventer \/ Wake \/ Change PROVE EventsInv'
<1> USE DEF EventsInv, EVTypeOK, MessageTypes, EventerTypes, EmitTypes, InTurn, Attended,
            messageVars, outVars, emitVars
<1>1. CASE StartEventer
  BY <1>1 DEF StartEventer
<1>2. CASE Wake
  BY <1>2 DEF Wake
<1>3. CASE Change
  BY <1>3 DEF Change
<1> QED
  BY <1>1, <1>2, <1>3

LEMMA EmitInv == ASSUME EventsInv, Eventer PROVE EventsInv'
<1> USE EventsAssumption
    DEF EventsInv, EVTypeOK, MessageTypes, EventerTypes, EmitTypes, InTurn, Attended,
        messageVars, outVars, emitVars
<1>1. ASSUME NEW d \in Devices, EmitEvents(d) PROVE EventsInv'
  BY <1>1 DEF EmitEvents
<1>2. ASSUME NEW t \in Topics, Subscriber(t) PROVE EventsInv'
  BY <1>2 DEF Subscriber
<1>3. CASE Flush
  BY <1>3, EmitBatchCounts DEF Flush
<1>4. CASE SubscriberDone
  BY <1>4, EmitBatchCounts DEF SubscriberDone
<1>5. CASE PluginDone
  BY <1>5 DEF PluginDone
<1>6. CASE RoundDone
  BY <1>6 DEF RoundDone
<1> QED
  BY <1>1, <1>2, <1>3, <1>4, <1>5, <1>6 DEF Eventer

LEMMA EventsStep == EventsInv /\ [EVNext]_evVars => EventsInv'
<1>1. EventsInv /\ UNCHANGED evVars => EventsInv'
  BY DEF evVars, messageVars, outVars, emitVars, EventsInv, EVTypeOK, MessageTypes,
         EventerTypes, EmitTypes, InTurn, Attended
<1> QED
  BY <1>1, MessagesInv, PluginsInv, EventerInv, EmitInv DEF EVNext

LEMMA EventsInvariance == EVSpec => []EventsInv
BY EventsInit, EventsStep, PTL DEF EVSpec

-----------------------------------------------------------------------------
\* The type invariant of the event channels and the eventer.
THEOREM EventsTypeCorrect == EVSpec => []EVTypeOK
<1>1. EventsInv => EVTypeOK
  BY DEF EventsInv
<1> QED
  BY <1>1, EventsInvariance, PTL

\* A plugin that was entered is never left without an eventer: one runs, or a
\* goroutine is to start it, although the eventer may just be ending.
THEOREM PluginsAreAttended == EVSpec => [](eventPlugins # {} => pc # "none" \/ starts > 0)
<1>1. EventsInv => (eventPlugins # {} => pc # "none" \/ starts > 0)
  BY DEF EventsInv, Attended
<1> QED
  BY <1>1, EventsInvariance, PTL

\* A topic receives batches with rising numbers, and misses only the numbers of
\* batches that were lost, for any number of devices, topics, messages and
\* batches, over a Stop and a Start.
THEOREM BatchesAreNumbered == EVSpec => Numbered
<1>1. EventsInv /\ [EVNext]_evVars =>
        [\A t \in Topics : received'[t] # received[t] => count = received[t] + lost[t]]_received
  <2> SUFFICES ASSUME EventsInv, EVNext, NEW t \in Topics, received'[t] # received[t]
               PROVE  count = received[t] + lost[t]
    BY DEF evVars, outVars
  <2>1. Flush \/ SubscriberDone
    BY DEF EVNext, Start, Stop, AddPlugin, RemovePlugin, StartEventer, Wake, Change, Eventer,
           EmitEvents, Subscriber, PluginDone, RoundDone, outVars
  <2>2. topic # None /\ EmitBatch
    BY <2>1 DEF Flush, SubscriberDone
  <2> QED
    BY <2>2 DEF EmitBatch, Arrive, Lose, EventsInv, EVTypeOK, EmitTypes, InTurn
<1> QED
  BY <1>1, EventsInvariance, PTL DEF EVSpec, Numbered
============================================================================
