----------------------------- MODULE AsyncWork -----------------------------
(***************************************************************************)
(* The asynchronous worker of a stream: inputHandler reads units of work,  *)
(* drops duplicates and queues the rest; worker executes them one by one;  *)
(* both publish results on the stream's output channel, which the stream's *)
(* goroutine reads and passes on to the streamer of the process.           *)
(***************************************************************************)
EXTENDS Naturals, Sequences, FiniteSets

CONSTANTS
  Keys,       \* keys of units of work
  QueueSize,  \* capacity of workQueue
  NoKey       \* no unit

ASSUME WorkAssumption == QueueSize \in Nat \ {0} /\ NoKey \notin Keys

VARIABLES
  ctxDone,    \* the stream is closed
  dedupQueue, \* keys the map dedupQueue holds
  workQueue,  \* keys of the queued units
  handler,    \* inputHandler: idle, read (before the lookup), marked (the key
              \* is in the map), full (publishes an error), gone
  input,      \* the key inputHandler has read
  worker,     \* worker: idle, run, publish, gone
  work,       \* the key worker has taken
  sink        \* the goroutine that reads outputCh: free, emit (blocked on the
              \* streamer's channel), gone

vars == <<ctxDone, dedupQueue, workQueue, handler, input, worker, work, sink>>

TypeOK ==
  /\ ctxDone \in BOOLEAN
  /\ dedupQueue \subseteq Keys
  /\ workQueue \in Seq(Keys)
  /\ Len(workQueue) <= QueueSize
  /\ handler \in {"idle", "read", "marked", "full", "gone"}
  /\ input \in Keys \cup {NoKey}
  /\ worker \in {"idle", "run", "publish", "gone"}
  /\ work \in Keys \cup {NoKey}
  /\ sink \in {"free", "emit", "gone"}
  /\ (input = NoKey) <=> handler \in {"idle", "gone"}
  /\ (work = NoKey) <=> worker \in {"idle", "gone"}

Init ==
  /\ ctxDone = FALSE
  /\ dedupQueue = {}
  /\ workQueue = <<>>
  /\ handler = "idle" /\ input = NoKey
  /\ worker = "idle" /\ work = NoKey
  /\ sink = "free"

----------------------------------------------------------------------------
(* inputHandler. *)

\* The cloud sends a unit; the stream forwards it on inputCh.
Receive(k) ==
  /\ handler = "idle"
  /\ handler' = "read"
  /\ input' = k
  /\ UNCHANGED <<ctxDone, dedupQueue, workQueue, worker, work, sink>>

\* Under the mutex: a key that is queued or running is dropped.
Drop ==
  /\ handler = "read"
  /\ input \in dedupQueue
  /\ handler' = "idle" /\ input' = NoKey
  /\ UNCHANGED <<ctxDone, dedupQueue, workQueue, worker, work, sink>>

Mark ==
  /\ handler = "read"
  /\ input \notin dedupQueue
  /\ dedupQueue' = dedupQueue \cup {input}
  /\ handler' = "marked"
  /\ UNCHANGED <<ctxDone, workQueue, input, worker, work, sink>>

Enqueue ==
  /\ handler = "marked"
  /\ Len(workQueue) < QueueSize
  /\ workQueue' = Append(workQueue, input)
  /\ handler' = "idle" /\ input' = NoKey
  /\ UNCHANGED <<ctxDone, dedupQueue, worker, work, sink>>

\* Mutant: the key of a rejected unit stays in the map.
QueueFullKeepsKey ==
  /\ handler = "marked"
  /\ Len(workQueue) = QueueSize
  /\ handler' = "full"
  /\ UNCHANGED <<ctxDone, dedupQueue, workQueue, input, worker, work, sink>>

\* The key leaves the map before the error is published (publishResult removes
\* it again, which changes nothing: only inputHandler adds keys).
QueueFull ==
  /\ handler = "marked"
  /\ Len(workQueue) = QueueSize
  /\ dedupQueue' = dedupQueue \ {input}
  /\ handler' = "full"
  /\ UNCHANGED <<ctxDone, workQueue, input, worker, work, sink>>

PublishFull ==
  /\ handler = "full"
  /\ sink = "free"
  /\ handler' = "idle" /\ input' = NoKey
  /\ sink' = "emit"
  /\ UNCHANGED <<ctxDone, dedupQueue, workQueue, worker, work>>

\* ctx.Done in one of its selects; publishResult only gives up the result.
HandlerCancelled ==
  /\ ctxDone
  /\ \/ handler = "idle" /\ handler' = "gone"
     \/ handler = "full" /\ handler' = "idle"
  /\ input' = NoKey
  /\ UNCHANGED <<ctxDone, dedupQueue, workQueue, worker, work, sink>>

----------------------------------------------------------------------------
(* worker. *)

\* Mutant: the key leaves the map when the unit is taken off the queue.
TakeUnmarks ==
  /\ worker = "idle"
  /\ workQueue # <<>>
  /\ work' = Head(workQueue)
  /\ workQueue' = Tail(workQueue)
  /\ dedupQueue' = dedupQueue \ {Head(workQueue)}
  /\ worker' = "run"
  /\ UNCHANGED <<ctxDone, handler, input, sink>>

Take ==
  /\ worker = "idle"
  /\ workQueue # <<>>
  /\ work' = Head(workQueue)
  /\ workQueue' = Tail(workQueue)
  /\ worker' = "run"
  /\ UNCHANGED <<ctxDone, dedupQueue, handler, input, sink>>

\* The deadline has passed, there is no such plugin, or Delegate returned; the
\* key leaves the map before the result is published.
Finish ==
  /\ worker = "run"
  /\ dedupQueue' = dedupQueue \ {work}
  /\ worker' = "publish"
  /\ UNCHANGED <<ctxDone, workQueue, handler, input, work, sink>>

PublishResult ==
  /\ worker = "publish"
  /\ sink = "free"
  /\ worker' = "idle" /\ work' = NoKey
  /\ sink' = "emit"
  /\ UNCHANGED <<ctxDone, dedupQueue, workQueue, handler, input>>

\* As in inputHandler.  The result that is given up was never published.
WorkerCancelled ==
  /\ ctxDone
  /\ \/ worker = "idle" /\ worker' = "gone"
     \/ worker = "publish" /\ worker' = "idle"
  /\ work' = NoKey
  /\ UNCHANGED <<ctxDone, dedupQueue, workQueue, handler, input, sink>>

----------------------------------------------------------------------------
(* The stream. *)

\* The process-wide streamer takes the output (and dispatches it).
Emit ==
  /\ sink = "emit"
  /\ sink' = "free"
  /\ UNCHANGED <<ctxDone, dedupQueue, workQueue, handler, input, worker, work>>

SinkCancelled ==
  /\ ctxDone
  /\ sink = "free"
  /\ sink' = "gone"
  /\ UNCHANGED <<ctxDone, dedupQueue, workQueue, handler, input, worker, work>>

\* CloseStream, the start of another stream of the type, the end of the session.
CloseStream ==
  /\ ~ctxDone
  /\ ctxDone' = TRUE
  /\ UNCHANGED <<dedupQueue, workQueue, handler, input, worker, work, sink>>

HandlerNext ==
  \/ \E k \in Keys : Receive(k)
  \/ Drop
  \/ Mark
  \/ Enqueue
  \/ QueueFull
  \/ PublishFull
  \/ HandlerCancelled

WorkerNext == Take \/ Finish \/ PublishResult \/ WorkerCancelled

StreamNext == Emit \/ SinkCancelled \/ CloseStream

\* A closed stream whose goroutines are gone stays as it is.
Next == HandlerNext \/ WorkerNext \/ StreamNext

\* Every goroutine that can go on does; plugins return, and the streamer takes
\* what a stream offers because every Dispatch returns (Transport).  The output
\* channel serves its waiting senders in order.
Fairness ==
  /\ WF_vars(Drop \/ Mark \/ Enqueue \/ QueueFull)
  /\ SF_vars(PublishFull)
  /\ WF_vars(Take)
  /\ WF_vars(Finish)
  /\ SF_vars(PublishResult)
  /\ WF_vars(Emit)

SafeSpec == Init /\ [][Next]_vars
Spec == SafeSpec /\ Fairness

----------------------------------------------------------------------------
(* Properties. *)

\* The keys of units that are queued, running, or about to be queued.
Marked == IF handler = "marked" THEN {input} ELSE {}
Running == IF worker = "run" THEN {work} ELSE {}
Queued == {workQueue[i] : i \in DOMAIN workQueue}

\* The map holds exactly the keys of the work that is queued or running (the
\* comment on dedupQueue), and no key is there twice: no interleaving of
\* inputHandler and worker leaves a key behind, which would block its work for
\* the life of the stream, or lets a duplicate through.
DedupExact ==
  /\ dedupQueue = Queued \cup Running \cup Marked
  /\ Queued \cap Running = {} /\ Queued \cap Marked = {}
  /\ Running \cap Marked = {}
  /\ \A i, j \in DOMAIN workQueue : workQueue[i] = workQueue[j] => i = j

WorkInv == TypeOK /\ DedupExact

\* AsyncWork implements Work.
Count(b) == IF b THEN 1 ELSE 0

Owed == [k \in Keys |->
  Count(k \in dedupQueue) + Count(handler = "full" /\ input = k)
    + Count(worker = "publish" /\ work = k)]

W == INSTANCE Work WITH busy <- dedupQueue, owed <- Owed, open <- ~ctxDone

\* Each unit that is accepted is answered exactly once, by its result or by an
\* error, and not before it is done; while it is queued or running, further
\* units with its key are dropped.
ImplementsWork == W!Spec
============================================================================
