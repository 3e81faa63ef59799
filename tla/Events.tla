------------------------------- MODULE Events -------------------------------
(***************************************************************************)
(* The event channels of the devices and the eventer of the process.  A    *)
(* Start message subscribes a topic and a Stop message takes it out; the   *)
(* goroutines they start enter the plugin with the eventer or remove it.   *)
(* The eventer wakes up every few minutes and lets every plugin emit what  *)
(* has changed to its subscribers, in batches that carry a counter.        *)
(*                                                                         *)
(* An event is identified with the topic whose filter it was found by.     *)
(***************************************************************************)
EXTENDS Naturals

CONSTANTS
  Devices,
  Topics,
  DeviceOf,    \* the device of each topic
  MaxMessages, \* bound on the Start and Stop messages
  MaxSent,     \* bound on the batches of a topic
  None

ASSUME EventsAssumption ==
  /\ DeviceOf \in [Topics -> Devices]
  /\ MaxMessages \in Nat /\ MaxSent \in Nat \ {0}
  /\ None \notin Devices \cup Topics

VARIABLES
  messages,     \* number of messages so far
  subscribers,  \* topics that are subscribed
  counters,     \* next counter of each topic
  adds,         \* goroutines that are to enter a plugin
  starts,       \* goroutines that are to start the eventer
  removes,      \* goroutines that are to remove a plugin
  eventPlugins, \* devices whose plugin was entered
  started,      \* what the eventer says of itself
  pc,           \* the eventer: none, sleep, plugins, emit; it holds e.mu unless
                \* it sleeps
  left,         \* plugins it has yet to come to
  device,       \* the plugin that emits, and holds p.mu
  topics,       \* its subscribers it has yet to come to
  topic,        \* the subscriber it is at
  batch,        \* the batch
  count,        \* the counter
  received,     \* number of batches that each topic has received
  lost,         \* number of its batches that were lost
  got           \* events that each topic has received

messageVars == <<messages, subscribers, adds, removes>>
emitVars == <<topics, topic, batch, count>>
outVars == <<counters, received, lost, got>>
evVars == <<messageVars, outVars, starts, eventPlugins, started, pc, left, device, emitVars>>

MessageTypes ==
  /\ messages \in 0 .. MaxMessages
  /\ subscribers \subseteq Topics
  /\ adds \in [Devices -> 0 .. messages]
  /\ starts \in Nat
  /\ removes \in [Devices -> 0 .. messages]

EventerTypes ==
  /\ eventPlugins \subseteq Devices
  /\ started \in BOOLEAN
  /\ pc \in {"none", "sleep", "plugins", "emit"}
  /\ left \subseteq Devices
  /\ device \in Devices \cup {None}

EmitTypes ==
  /\ topics \subseteq Topics
  /\ topic \in Topics \cup {None}
  /\ batch \subseteq Topics
  /\ count \in 0 .. MaxSent
  /\ counters \in [Topics -> 0 .. MaxSent]
  /\ received \in [Topics -> 0 .. MaxSent]
  /\ lost \in [Topics -> 0 .. MaxSent]
  /\ got \in [Topics -> SUBSET Topics]

EVTypeOK == MessageTypes /\ EventerTypes /\ EmitTypes

EVInit ==
  /\ messages = 0 /\ subscribers = {}
  /\ counters = [t \in Topics |-> 0]
  /\ adds = [d \in Devices |-> 0] /\ removes = [d \in Devices |-> 0]
  /\ starts = 0
  /\ eventPlugins = {} /\ started = FALSE
  /\ pc = "none" /\ left = {} /\ device = None
  /\ topics = {} /\ topic = None /\ batch = {} /\ count = 0
  /\ received = [t \in Topics |-> 0]
  /\ lost = [t \in Topics |-> 0]
  /\ got = [t \in Topics |-> {}]

(***************************************************************************)
(* Delegate, which waits while the plugin emits.                           *)
(***************************************************************************)
Start(t) ==
  /\ messages < MaxMessages
  /\ device # DeviceOf[t]
  /\ messages' = messages + 1
  /\ subscribers' = subscribers \cup {t}
  /\ adds' = [adds EXCEPT ![DeviceOf[t]] = @ + 1]
  /\ UNCHANGED <<removes, outVars, starts, eventPlugins, started, pc, left, device, emitVars>>

Stop(t) ==
  LET d == DeviceOf[t] IN
  /\ messages < MaxMessages
  /\ device # d
  /\ messages' = messages + 1
  /\ subscribers' = subscribers \ {t}
  /\ removes' = IF \A u \in subscribers \ {t} : DeviceOf[u] # d
                THEN [removes EXCEPT ![d] = @ + 1] ELSE removes
  /\ UNCHANGED <<adds, outVars, starts, eventPlugins, started, pc, left, device, emitVars>>

Unlocked == pc \in {"none", "sleep"}

AddPlugin(d) ==
  /\ Unlocked
  /\ adds[d] > 0
  /\ adds' = [adds EXCEPT ![d] = @ - 1]
  /\ eventPlugins' = eventPlugins \cup {d}
  /\ starts' = starts + 1
  /\ UNCHANGED <<messages, subscribers, removes, outVars, started, pc, left, device, emitVars>>

RemovePlugin(d) ==
  /\ Unlocked
  /\ removes[d] > 0
  /\ removes' = [removes EXCEPT ![d] = @ - 1]
  /\ eventPlugins' = eventPlugins \ {d}
  /\ UNCHANGED <<messages, subscribers, adds, outVars, starts, started, pc, left, device, emitVars>>

StartEventer ==
  /\ Unlocked
  /\ starts > 0
  /\ starts' = starts - 1
  /\ started' = TRUE
  /\ pc' = IF started THEN pc ELSE "sleep"
  /\ UNCHANGED <<messageVars, outVars, eventPlugins, left, device, emitVars>>

(***************************************************************************)
(* The eventer ends when there is no plugin.                               *)
(***************************************************************************)
\* Mutant: it does not say that it has ended.
WakeSilent ==
  /\ pc = "sleep"
  /\ pc' = IF eventPlugins = {} THEN "none" ELSE "plugins"
  /\ left' = eventPlugins
  /\ UNCHANGED <<messageVars, outVars, starts, eventPlugins, started, device, emitVars>>

Wake ==
  /\ pc = "sleep"
  /\ started' = (eventPlugins # {})
  /\ pc' = IF eventPlugins = {} THEN "none" ELSE "plugins"
  /\ left' = eventPlugins
  /\ UNCHANGED <<messageVars, outVars, starts, eventPlugins, device, emitVars>>

EmitEvents(d) ==
  /\ pc = "plugins"
  /\ d \in left
  /\ left' = left \ {d}
  /\ device' = d
  /\ topics' = {t \in subscribers : DeviceOf[t] = d}
  /\ batch' = {}
  /\ pc' = "emit"
  /\ UNCHANGED <<messageVars, outVars, starts, eventPlugins, started, topic, count>>

Subscriber(t) ==
  /\ pc = "emit" /\ topic = None
  /\ t \in topics
  /\ topics' = topics \ {t}
  /\ topic' = t
  /\ count' = counters[t]
  /\ UNCHANGED <<messageVars, outVars, starts, eventPlugins, started, pc, left, device, batch>>

\* An object of a class that the subscriber asked for has changed.
Change ==
  /\ topic # None
  /\ count + 1 < MaxSent
  /\ batch' = batch \cup {topic}
  /\ UNCHANGED <<messageVars, outVars, starts, eventPlugins, started, pc, left, device,
                 topics, topic, count>>

\* The batch cannot be made into a message, or is dispatched on the context of
\* the device's last message, whose session may be over: nobody is told.
Lose ==
  /\ lost' = [lost EXCEPT ![topic] = @ + 1]
  /\ UNCHANGED <<received, got>>

Arrive ==
  /\ received' = [received EXCEPT ![topic] = @ + 1]
  /\ got' = [got EXCEPT ![topic] = @ \cup batch]
  /\ UNCHANGED lost

EmitBatch == Arrive \/ Lose

\* The batch holds more than a hundred events.
Flush ==
  /\ topic # None /\ batch # {}
  /\ count + 1 < MaxSent
  /\ EmitBatch
  /\ batch' = {}
  /\ count' = count + 1
  /\ UNCHANGED <<messageVars, counters, starts, eventPlugins, started, pc, left, device,
                 topics, topic>>

\* Mutant: the counter goes on from the one before the last batch.
SubscriberDoneEarly ==
  /\ topic # None
  /\ counters' = [counters EXCEPT ![topic] = count]
  /\ IF batch # {} /\ count < MaxSent THEN EmitBatch ELSE UNCHANGED <<received, lost, got>>
  /\ topic' = None
  /\ count' = 0
  /\ UNCHANGED <<messageVars, starts, eventPlugins, started, pc, left, device, topics, batch>>

\* What is left is sent, and stays in the batch.  The counter goes on whether or
\* not a batch has arrived.
SubscriberDone ==
  /\ topic # None
  /\ IF batch # {} /\ count < MaxSent
     THEN EmitBatch /\ counters' = [counters EXCEPT ![topic] = count + 1]
     ELSE UNCHANGED <<received, lost, got>> /\ counters' = [counters EXCEPT ![topic] = count]
  /\ topic' = None
  /\ count' = 0
  /\ UNCHANGED <<messageVars, starts, eventPlugins, started, pc, left, device, topics, batch>>

PluginDone ==
  /\ pc = "emit" /\ topic = None /\ topics = {}
  /\ pc' = "plugins"
  /\ device' = None
  /\ batch' = {}
  /\ UNCHANGED <<messageVars, outVars, starts, eventPlugins, started, left, topics, topic, count>>

RoundDone ==
  /\ pc = "plugins" /\ left = {}
  /\ pc' = "sleep"
  /\ UNCHANGED <<messageVars, outVars, starts, eventPlugins, started, left, device, emitVars>>

Eventer ==
  \/ \E d \in Devices : EmitEvents(d)
  \/ \E t \in Topics : Subscriber(t)
  \/ Flush \/ SubscriberDone \/ PluginDone \/ RoundDone

EVNext ==
  \/ \E t \in Topics : Start(t) \/ Stop(t)
  \/ \E d \in Devices : AddPlugin(d) \/ RemovePlugin(d)
  \/ StartEventer \/ Wake \/ Change \/ Eventer

\* A goroutine that is to start the eventer does when nobody holds its lock, and
\* the eventer goes on and comes to the end of a subscriber's objects.
EVFairness ==
  WF_evVars(StartEventer) /\ WF_evVars(Wake) /\ WF_evVars(Eventer) /\ WF_evVars(SubscriberDone)

EVSpec == EVInit /\ [][EVNext]_evVars /\ EVFairness

-----------------------------------------------------------------------------
\* The counter of a batch that a subscriber receives is the number of batches
\* before it, those it has received and those that were lost: it sees no number
\* twice, none out of order, and a gap exactly where batches were lost, over
\* wakeups, a Stop, and another Start.
Numbered ==
  [][\A t \in Topics : received'[t] # received[t] => count = received[t] + lost[t]]_received

\* A plugin that is entered comes to emit, although the eventer may be ending,
\* seeing no plugin, just when the plugin is entered.
Served == \A d \in Devices : d \in eventPlugins ~> device = d \/ d \notin eventPlugins

\* "Map of subsribers to their propclass filters" (eventChannel.go:131).
Filtered == \A t \in Topics : got[t] \subseteq {t}
=============================================================================
