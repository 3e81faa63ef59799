------------------------------ MODULE Streams ------------------------------
(***************************************************************************)
(* The stream plugin of a device: StartStream and CloseStream messages,    *)
(* the goroutines of the streams they start, the one goroutine of the      *)
(* process that emits what streams produce, and the operations that ask    *)
(* the cloud for a stream and wait until it is started.                    *)
(*                                                                         *)
(* StartStream looks a name up, lets go of the lock, and takes it again to *)
(* register the stream.  A stream is identified with its start message.    *)
(* Only streams that collect batches are modelled here, with what they     *)
(* collect abstracted: a tick emits a message or does not.  Terminals has  *)
(* the interactive ones.                                                   *)
(***************************************************************************)
EXTENDS Naturals

CONSTANTS
  Starts,      \* StartStream messages
  Ops,         \* calls of StartOperation
  Names,       \* names of streams
  Types,       \* types: the names up to the first separator
  TypeOf,      \* type of each name
  OpType,      \* type of the stream that an operation asks for
  MaxSessions, \* bound on the sessions of the device
  None         \* nil

ASSUME StreamsAssumption ==
  /\ TypeOf \in [Names -> Types]
  /\ OpType \in [Ops -> Types]
  /\ MaxSessions \in Nat \ {0}
  /\ None \notin Starts \cup Ops \cup Names

VARIABLES
  session,     \* the session the device is in
  pc,          \* of each start message: idle, found or missing (looked up),
               \* answered (name exists), run, emit (offers on outCh), ended
  name,        \* the StreamName of each start message
  born,        \* the session it was received in
  es,          \* the stream its look-up found
  closed,      \* streams whose cancel function was called
  streams,     \* the map by name
  streamTypes, \* the map by type
  streamOps,   \* the map of operations that wait, by type
  opPc,        \* idle, waiting, leaving, active, over
  streamNotif, \* its channel, of capacity one
  stream       \* the stream it was told of

vars == <<session, pc, name, born, es, closed, streams, streamTypes,
          streamOps, opPc, streamNotif, stream>>

startVars == <<name, born, es>>
mapVars == <<streams, streamTypes, streamOps>>
opVars == <<opPc, streamNotif, stream>>

TypeOK ==
  /\ session \in 1 .. MaxSessions
  /\ pc \in [Starts -> {"idle", "found", "missing", "answered", "run",
                        "emit", "ended"}]
  /\ name \in [Starts -> Names \cup {None}]
  /\ born \in [Starts -> 1 .. MaxSessions]
  /\ es \in [Starts -> Starts \cup {None}]
  /\ closed \subseteq Starts
  /\ streams \in [Names -> Starts \cup {None}]
  /\ streamTypes \in [Types -> Starts \cup {None}]
  /\ streamOps \in [Types -> Ops \cup {None}]
  /\ opPc \in [Ops -> {"idle", "waiting", "leaving", "active", "over"}]
  /\ streamNotif \in [Ops -> Starts \cup {None}]
  /\ stream \in [Ops -> Starts \cup {None}]

Init ==
  /\ session = 1
  /\ pc = [s \in Starts |-> "idle"]
  /\ name = [s \in Starts |-> None]
  /\ born = [s \in Starts |-> 1]
  /\ es = [s \in Starts |-> None]
  /\ closed = {}
  /\ streams = [n \in Names |-> None]
  /\ streamTypes = [t \in Types |-> None]
  /\ streamOps = [t \in Types |-> None]
  /\ opPc = [o \in Ops |-> "idle"]
  /\ streamNotif = [o \in Ops |-> None]
  /\ stream = [o \in Ops |-> None]

Running(s) == pc[s] \in {"run", "emit"}

\* The context of a stream is done: cancelled, or that of a session gone by.
Cancelled(s) == s \in closed \/ born[s] < session

\* The type of the stream that a start message names.
Kind(s) == TypeOf[name[s]]

(***************************************************************************)
(* StartStream.  The name is looked up under the lock, which is then given *)
(* back.                                                                   *)
(***************************************************************************)
Lookup(s, n) ==
  /\ pc[s] = "idle"
  /\ name' = [name EXCEPT ![s] = n]
  /\ born' = [born EXCEPT ![s] = session]
  /\ es' = [es EXCEPT ![s] = streams[n]]
  /\ pc' = [pc EXCEPT ![s] = IF streams[n] = None THEN "missing" ELSE "found"]
  /\ UNCHANGED <<session, closed, mapVars, opVars>>

\* A waiting operation of the type is told of stream e, unless its channel is full.
Notify(t, e) ==
  LET o == streamOps[t] IN
    streamNotif' = IF o # None /\ streamNotif[o] = None
                   THEN [streamNotif EXCEPT ![o] = e]
                   ELSE streamNotif

\* The name existed when it was looked up: only an operation is told of it.
Answer(s) ==
  /\ pc[s] = "found"
  /\ Notify(Kind(s), es[s])
  /\ pc' = [pc EXCEPT ![s] = "answered"]
  /\ es' = [es EXCEPT ![s] = None]
  /\ UNCHANGED <<session, name, born, closed, mapVars, opPc, stream>>

\* It did not: the last stream of the type is cancelled, and this one started.
\* Mutant: a stream of the same type is left alone.
RegisterBeside(s) ==
  /\ pc[s] = "missing"
  /\ Notify(Kind(s), s)
  /\ streams' = [streams EXCEPT ![name[s]] = s]
  /\ streamTypes' = [streamTypes EXCEPT ![Kind(s)] = s]
  /\ pc' = [pc EXCEPT ![s] = "run"]
  /\ UNCHANGED <<session, startVars, closed, streamOps, opPc, stream>>

Register(s) ==
  /\ pc[s] = "missing"
  /\ closed' = closed \cup ({streamTypes[Kind(s)]} \ {None})
  /\ Notify(Kind(s), s)
  /\ streams' = [streams EXCEPT ![name[s]] = s]
  /\ streamTypes' = [streamTypes EXCEPT ![Kind(s)] = s]
  /\ pc' = [pc EXCEPT ![s] = "run"]
  /\ UNCHANGED <<session, startVars, streamOps, opPc, stream>>

CloseStream(n) ==
  /\ closed' = closed \cup ({streams[n]} \ {None})
  /\ UNCHANGED <<session, pc, startVars, mapVars, opVars>>

(***************************************************************************)
(* The goroutine of a stream.  It looks at its context only between ticks: *)
(* an output is offered until it is taken.                                 *)
(***************************************************************************)
Emit(s) ==
  /\ pc[s] = "run"
  /\ pc' = [pc EXCEPT ![s] = "emit"]
  /\ UNCHANGED <<session, startVars, closed, mapVars, opVars>>

\* Mutant: a stream that ends stays in the map.
EndListed(s) ==
  /\ pc[s] = "run"
  /\ Cancelled(s)
  /\ pc' = [pc EXCEPT ![s] = "ended"]
  /\ UNCHANGED <<session, startVars, closed, mapVars, opVars>>

\* Whatever stream has the name by now is taken out of the map.
Return(s) ==
  /\ pc[s] = "run"
  /\ pc' = [pc EXCEPT ![s] = "ended"]
  /\ streams' = [streams EXCEPT ![name[s]] = None]
  /\ UNCHANGED <<session, startVars, closed, streamTypes, streamOps, opVars>>

End(s) == Cancelled(s) /\ Return(s)

\* No message can be made of what was collected: the stream returns without a cancel.
EmitFails(s) == Return(s)

\* gstreamer takes the output of a stream and dispatches it; that Dispatch
\* returns is a property of Transport.
\* Mutant: the stream offers the same output again.
TakeAgain(s) == pc[s] = "emit" /\ UNCHANGED vars

Take(s) ==
  /\ pc[s] = "emit"
  /\ pc' = [pc EXCEPT ![s] = "run"]
  /\ UNCHANGED <<session, startVars, closed, mapVars, opVars>>

(***************************************************************************)
(* StartOperation: the operation puts itself into streamOps, asks the      *)
(* cloud for the stream and waits; when it leaves it takes out whatever    *)
(* operation is there.                                                     *)
(***************************************************************************)
StartOperation(o) ==
  /\ opPc[o] = "idle"
  /\ opPc' = [opPc EXCEPT ![o] = "waiting"]
  /\ streamOps' = [streamOps EXCEPT ![OpType[o]] = o]
  /\ UNCHANGED <<session, pc, startVars, closed, streams, streamTypes,
                 streamNotif, stream>>

Told(o) ==
  /\ opPc[o] = "waiting"
  /\ streamNotif[o] # None
  /\ stream' = [stream EXCEPT ![o] = streamNotif[o]]
  /\ streamNotif' = [streamNotif EXCEPT ![o] = None]
  /\ opPc' = [opPc EXCEPT ![o] = "leaving"]
  /\ UNCHANGED <<session, pc, startVars, closed, mapVars>>

\* The minute is over, or the session is.
TimedOut(o) ==
  /\ opPc[o] = "waiting"
  /\ opPc' = [opPc EXCEPT ![o] = "leaving"]
  /\ UNCHANGED <<session, pc, startVars, closed, mapVars, streamNotif,
                 stream>>

Leave(o) ==
  /\ opPc[o] = "leaving"
  /\ streamOps' = [streamOps EXCEPT ![OpType[o]] = None]
  /\ opPc' = [opPc EXCEPT ![o] = IF stream[o] = None THEN "over" ELSE "active"]
  /\ streamNotif' = [streamNotif EXCEPT ![o] = None]
  /\ UNCHANGED <<session, pc, startVars, closed, streams, streamTypes, stream>>

\* What Active answers: it looks for the name of its stream.
Active(o) == stream[o] # None /\ streams[name[stream[o]]] # None

\* The runner asks, and the operation is not active any more.
Inactive(o) ==
  /\ opPc[o] = "active"
  /\ ~Active(o)
  /\ stream' = [stream EXCEPT ![o] = None]
  /\ opPc' = [opPc EXCEPT ![o] = "over"]
  /\ UNCHANGED <<session, pc, startVars, closed, mapVars, streamNotif>>

Stop(o) ==
  /\ opPc[o] = "active"
  /\ closed' = closed \cup {stream[o]}
  /\ stream' = [stream EXCEPT ![o] = None]
  /\ opPc' = [opPc EXCEPT ![o] = "over"]
  /\ UNCHANGED <<session, pc, startVars, mapVars, streamNotif>>

(***************************************************************************)
(* The connection is lost and comes back: every context of the session     *)
(* that was is done.                                                       *)
(***************************************************************************)
NewSession ==
  /\ session < MaxSessions
  /\ session' = session + 1
  /\ UNCHANGED <<pc, startVars, closed, mapVars, opVars>>

Next ==
  \/ \E s \in Starts, n \in Names : Lookup(s, n)
  \/ \E s \in Starts : \/ Answer(s) \/ Register(s) \/ Emit(s) \/ End(s)
                       \/ EmitFails(s) \/ Take(s)
  \/ \E n \in Names : CloseStream(n)
  \/ \E o \in Ops : \/ StartOperation(o) \/ Told(o) \/ TimedOut(o) \/ Leave(o)
                    \/ Inactive(o) \/ Stop(o)
  \/ NewSession

(***************************************************************************)
(* A handler goes on, gstreamer goes on with the outputs of every stream   *)
(* (Go's channels are first come, first served), and a select that finds   *)
(* its context done again and again takes that branch at some time.        *)
(***************************************************************************)
Fairness ==
  /\ \A s \in Starts : /\ WF_vars(Answer(s) \/ Register(s))
                       /\ WF_vars(Take(s))
                       /\ SF_vars(End(s))
  /\ \A o \in Ops : WF_vars(Told(o) \/ TimedOut(o) \/ Leave(o))

Spec == Init /\ [][Next]_vars /\ Fairness

-----------------------------------------------------------------------------
\* However StartStream messages, ends and closes interleave, at most one
\* stream of a type is live, the one in streamTypes: a stream that was pushed
\* out of the map by name is still cancelled by the next one of its type.
OneLivePerType ==
  \A s \in Starts : Running(s) /\ ~Cancelled(s) => streamTypes[Kind(s)] = s

\* The maps hold nothing that is over: a name leads to a stream that runs, an
\* entry for an operation to one that is still in StartOperation.
MapsExact ==
  /\ \A n \in Names : streams[n] # None =>
       Running(streams[n]) /\ name[streams[n]] = n
  /\ \A t \in Types : streamOps[t] # None => opPc[streamOps[t]] \in {"waiting", "leaving"}

\* A cancelled stream ends, although it may be offering an output when it is
\* cancelled and shares the emitter with all streams of the process.
CancelledEnds == \A s \in Starts : Running(s) /\ Cancelled(s) ~> pc[s] = "ended"

\* "Check if stream is still active and is currently running within the
\* stream plugin" (stream.go:364): an operation that answers it is active has
\* a stream that runs.
ActiveRuns == \A o \in Ops : opPc[o] = "active" /\ Active(o) => Running(stream[o])
=============================================================================
