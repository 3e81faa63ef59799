-------------------------- MODULE CommonInventory --------------------------
(***************************************************************************)
(* The inventory plugin of a device: each inventory stream that the cloud  *)
(* opens creates an inventory, replaces the one processor, which compares  *)
(* what a collector reports with diffCache, and sends the differences.  An *)
(* object is held back until the object it relates to is in diffCache.     *)
(* The cloud's copy is modelled by what the message types say.             *)
(*                                                                         *)
(* A stream is started when the contexts of those before it are done (see  *)
(* OneLivePerType of Streams).  Objects have random identities, so every   *)
(* inventory has keys of its own.  Which relations the objects of a type   *)
(* have is an input: the init message of the stream says it.  Property     *)
(* values are a version.  A panic ends the process, and all of this.       *)
(***************************************************************************)
EXTENDS Integers, Sequences, FiniteSets, SequencesExt

CONSTANTS
  MaxStreams, \* bound on the streams opened
  Types,      \* object types of the init message
  PerType,    \* objsPerType
  Rels,       \* relationships
  RelType,    \* the type that each is to, or NoType when its selector names no key
  Inits,      \* the init messages that each stream may be opened with
  Batch,      \* upserts that one message holds
  MaxVersion, \* bound on the changes of an object
  NoType

Streams == 1 .. MaxStreams
Objects == Types \X (1 .. PerType)
Keys == Streams \X Types \X (1 .. PerType)

\* The relationships of each type, and the types with properties that do not identify
\* an object.
InitMessages == [rels : [Types -> SUBSET Rels], volatile : SUBSET Types]

ASSUME CommonInventoryAssumption ==
  /\ MaxStreams \in Nat \ {0} /\ PerType \in Nat \ {0}
  /\ Batch \in Nat \ {0} /\ MaxVersion \in Nat \ {0}
  /\ IsFiniteSet(Types) /\ IsFiniteSet(Rels)
  /\ RelType \in [Rels -> Types \cup {NoType}]
  /\ Inits \in [Streams -> SUBSET InitMessages]
  /\ NoType \notin Types

VARIABLES
  inventory, \* the inventory that each stream created: versions of its objects
  msg,       \* the init message of each
  peer,      \* index of the object that each relationship of an object is to
  current,   \* whose inventory p.inventory is, 0 before the first one
  del,       \* StreamDelegate: idle, lock, wait, started
  mu,        \* who holds p.mu, or 0
  cancel,    \* whose processor p.cancel cancels, or 0
  cancelled, \* processors that were cancelled
  done,      \* streams whose context is done
  col,       \* collectors: none, start, types, sleep, or gone: it has returned
             \* or offers a report that no processor will ever take
  todo,      \* types a collector has yet to report
  gen,       \* whose inventory a collector ranges over
  proc,      \* processors
  sink,      \* the sinks of the streams: none, recv, ended
  cache,     \* diffCache: the version of each key, 0 if it has none
  cloud,     \* the copy of the cloud
  seen,      \* keys the cloud received in the full inventory it is being sent
  crash      \* a processor has panicked

inventoryVars == <<inventory, msg, peer, current>>
lockVars == <<mu, cancel, cancelled>>
colVars == <<col, todo, gen>>
cloudVars == <<cloud, seen>>
ciVars == <<inventoryVars, del, lockVars, done, colVars, proc, sink, cache, cloudVars, crash>>

\* A processor: where it is, relmissing, fullInventoryKeys, sendFull, and the
\* type, upserts and deletes of what it sends.
Processor(l) == [at |-> l, missing |-> <<>>, keys |-> {}, full |-> TRUE,
                 type |-> "none", ups |-> <<>>, dels |-> {}]

Items == Keys \X (1 .. MaxVersion)
Messages == {"none", "fullStart", "fullSegment", "fullEnd"}
Processors == [at : {"none", "select", "send", "gone"}, missing : Seq(Items),
               keys : SUBSET Keys, full : BOOLEAN,
               type : Messages, ups : Seq(Items), dels : SUBSET Keys]

InventoryTypes ==
  /\ inventory \in [Streams -> [Objects -> 0 .. MaxVersion]]
  /\ msg \in [Streams -> InitMessages]
  /\ peer \in [Streams -> [Objects -> [Rels -> 1 .. PerType]]]
  /\ current \in 0 .. MaxStreams

LockTypes ==
  /\ del \in [Streams -> {"idle", "lock", "wait", "started"}]
  /\ mu \in 0 .. MaxStreams /\ cancel \in 0 .. MaxStreams
  /\ cancelled \subseteq Streams /\ done \subseteq Streams

CollectorTypes ==
  /\ col \in [Streams -> {"none", "start", "types", "sleep", "gone"}]
  /\ todo \in [Streams -> SUBSET Types]
  /\ gen \in [Streams -> 0 .. MaxStreams]

CloudTypes ==
  /\ sink \in [Streams -> {"none", "recv", "ended"}]
  /\ cache \in [Keys -> 0 .. MaxVersion] /\ cloud \in [Keys -> 0 .. MaxVersion]
  /\ seen \subseteq Keys /\ crash \in BOOLEAN

CITypeOK ==
  /\ InventoryTypes /\ LockTypes /\ CollectorTypes /\ CloudTypes
  /\ proc \in [Streams -> Processors]

CIInit ==
  /\ inventory = [s \in Streams |-> [o \in Objects |-> 0]]
  /\ msg = [s \in Streams |-> [rels |-> [t \in Types |-> {}], volatile |-> {}]]
  /\ peer = [s \in Streams |-> [o \in Objects |-> [r \in Rels |-> 1]]]
  /\ current = 0
  /\ del = [s \in Streams |-> "idle"]
  /\ mu = 0 /\ cancel = 0 /\ cancelled = {} /\ done = {}
  /\ col = [s \in Streams |-> "none"]
  /\ todo = [s \in Streams |-> {}]
  /\ gen = [s \in Streams |-> 0]
  /\ proc = [s \in Streams |-> Processor("none")]
  /\ sink = [s \in Streams |-> "none"]
  /\ cache = [k \in Keys |-> 0] /\ cloud = [k \in Keys |-> 0]
  /\ seen = {} /\ crash = FALSE

(***************************************************************************)
(* StreamDelegate.  The inventory is created before the lock is taken.     *)
(***************************************************************************)
Create(s) ==
  /\ del[s] = "idle"
  /\ \A r \in Streams : r < s => r \in done
  /\ del' = [del EXCEPT ![s] = "lock"]
  /\ current' = s
  /\ inventory' = [inventory EXCEPT ![s] = [o \in Objects |-> 1]]
  /\ \E m \in Inits[s] : msg' = [msg EXCEPT ![s] = m]
  /\ \E f \in [Objects -> [Rels -> 1 .. PerType]] : peer' = [peer EXCEPT ![s] = f]
  /\ UNCHANGED <<lockVars, done, colVars, proc, sink, cache, cloudVars, crash>>

\* The wait group is not zero.
Working == \E s \in Streams : proc[s].at \in {"select", "send"}

\* Mutant: the lock is not given back.
StartKeepsLock(s) ==
  /\ del' = [del EXCEPT ![s] = "started"]
  /\ mu' = s
  /\ cancel' = s
  /\ col' = [col EXCEPT ![s] = "start"]
  /\ proc' = [proc EXCEPT ![s] = Processor("select")]
  /\ sink' = [sink EXCEPT ![s] = "recv"]

\* A collector, a processor and (in stream.run) a sink are started.
Start(s) ==
  /\ del' = [del EXCEPT ![s] = "started"]
  /\ mu' = 0
  /\ cancel' = s
  /\ col' = [col EXCEPT ![s] = "start"]
  /\ proc' = [proc EXCEPT ![s] = Processor("select")]
  /\ sink' = [sink EXCEPT ![s] = "recv"]

First(s) ==
  /\ del[s] = "lock" /\ mu = 0 /\ cancel = 0
  /\ Start(s)
  /\ UNCHANGED <<inventoryVars, cancelled, done, todo, gen, cache, cloudVars, crash>>

Lock(s) ==
  /\ del[s] = "lock" /\ mu = 0 /\ cancel # 0
  /\ mu' = s
  /\ del' = [del EXCEPT ![s] = "wait"]
  /\ cancelled' = cancelled \cup {cancel}
  /\ UNCHANGED <<inventoryVars, cancel, done, colVars, proc, sink, cache, cloudVars, crash>>

\* Mutant: the processor that was cancelled is not waited for.
ReplaceAtOnce(s) ==
  /\ del[s] = "wait"
  /\ cache' = [k \in Keys |-> 0]
  /\ Start(s)
  /\ UNCHANGED <<inventoryVars, cancelled, done, todo, gen, cloudVars, crash>>

Replace(s) ==
  /\ del[s] = "wait"
  /\ ~Working
  /\ cache' = [k \in Keys |-> 0]
  /\ Start(s)
  /\ UNCHANGED <<inventoryVars, cancelled, done, todo, gen, cloudVars, crash>>

(***************************************************************************)
(* processInventory takes a report.  An item is a key and a version.  What *)
(* becomes of the items is in an accumulator: the diff cache, the items    *)
(* held back (relmissing), the upserts, and of reProcessMissingRelations   *)
(* stillmissing and whether it has panicked.  (An accumulator is bound by  *)
(* a set in a step: TLC then evaluates it once.)                           *)
(***************************************************************************)
\* The relationships of the object of a key, what one is to, those that resolve.
Relations(k) == msg[k[1]].rels[k[2]]
Related(k, r) == <<k[1], RelType[r], peer[k[1]][<<k[2], k[3]>>][r]>>
Found(c, k) == {r \in Relations(k) : RelType[r] # NoType /\ c[Related(k, r)] # 0}
Resolves(c, k) == Found(c, k) = Relations(k)

Put(a, x) == [a EXCEPT !.cache[x[1]] = x[2], !.ups = Append(@, x)]
Hold(a, x) == [a EXCEPT !.missing = Append(@, x)]

\* Mutant: relations are only looked at when items are retried.
UpsertUnchecked(acc, x) == CHOOSE b \in
  {IF a.cache[x[1]] # x[2] THEN Put(a, x) ELSE a : a \in {acc}} : TRUE

\* An item of a report: it is held back unless all its relationships resolve.
Upsert(acc, x) == CHOOSE b \in
  {IF ~Resolves(a.cache, x[1]) THEN Hold(a, x)
   ELSE IF a.cache[x[1]] # x[2] THEN Put(a, x) ELSE a : a \in {acc}} : TRUE

Upserts(p, items) ==
  FoldLeft(Upsert, [cache |-> cache, missing |-> p.missing, ups |-> <<>>,
                    still |-> 0, panic |-> FALSE], items)

\* relmissing[stillmissing++] = inv, for n relationships that do not resolve.  The
\* item may be written over the next ones, and past the last: then it panics.
Keep(a, x, n) ==
  IF a.still + n > Len(a.missing) THEN [a EXCEPT !.panic = TRUE]
  ELSE [a EXCEPT !.still = @ + n,
        !.missing = [j \in DOMAIN @ |-> IF j \in a.still + 1 .. a.still + n THEN x ELSE @[j]]]

\* The item at index i, its relationships in the random order of a map: it is kept for
\* each that does not resolve, and put at the first that does, the last it looks at.
Retry(a, i) ==
  LET x == a.missing[i]
      found == Found(a.cache, x[1])
      unresolved == Cardinality(Relations(x[1]) \ found)
  IN CASE a.panic -> {a}
       [] ~a.panic /\ found = {} -> {Keep(a, x, unresolved)}
       [] ~a.panic /\ found # {} -> {Put(Keep(a, x, n), x) : n \in 0 .. unresolved}
RetryAll(S, i) == UNION {Retry(a, i) : a \in S}

\* relmissing[0:stillmissing]
Rest(a) == [a EXCEPT !.missing = SubSeq(@, 1, a.still), !.still = 0]

\* What one pass over the items that are held back may make of them.
Pass(a) ==
  {Rest(b) : b \in FoldLeft(RetryAll, {a}, [i \in 1 .. Len(a.missing) |-> i])}
PassAll(S, type) == UNION {Pass(a) : a \in S}

\* Mutant: one pass only.
ReProcessOnce(a) == Pass(a)

\* As many passes as the items held back have types.
ReProcess(a) ==
  LET types == {x[1][2] : x \in ToSet(a.missing)} IN
    FoldLeft(PassAll, {a}, SetToSeq(types))

\* What a full end finds in the cache that was not reported is deleted, and
\* what is held back then is dropped.
Deleted(b, keys, type) ==
  IF type = "fullEnd" THEN {k \in Keys \ keys : b.cache[k] # 0} ELSE {}

\* The processor then: it sends the differences, and a full start or end.
Processed(p, b, keys, dels, type) ==
  LET end == type = "fullEnd"
      send == b.ups # <<>> \/ dels # {} \/ (p.full /\ type # "fullSegment")
  IN [at |-> IF send THEN "send" ELSE "select",
      missing |-> IF end THEN <<>> ELSE b.missing,
      keys |-> IF end THEN {} ELSE keys,
      full |-> p.full,
      type |-> IF send THEN type ELSE "none",
      ups |-> b.ups,
      dels |-> dels]

Receive(s, type, items) ==
  LET p == proc[s]
      keys == p.keys \cup {x[1] : x \in ToSet(items)}
  IN /\ p.at = "select"
     /\ \E a \in {Upserts(p, items)} :
        \E b \in IF type = "fullEnd" THEN ReProcess(a) ELSE {a} :
        \E dels \in {Deleted(b, keys, type)} :
          \/ /\ b.panic
             /\ crash' = TRUE
             /\ UNCHANGED <<cache, proc>>
          \/ /\ ~b.panic
             /\ cache' = [k \in Keys |-> IF k \in dels THEN 0 ELSE b.cache[k]]
             /\ proc' = [proc EXCEPT ![s] = Processed(p, b, keys, dels, type)]
             /\ UNCHANGED crash
     /\ UNCHANGED <<inventoryVars, del, lockVars, done, sink, cloudVars>>

(***************************************************************************)
(* collectInventory: a full start, then the objects of one type after      *)
(* another, the last of them as the full end.                              *)
(***************************************************************************)
CollectStart(s) ==
  /\ col[s] = "start"
  /\ col' = [col EXCEPT ![s] = "types"]
  /\ todo' = [todo EXCEPT ![s] = Types]
  /\ gen' = [gen EXCEPT ![s] = current]
  /\ Receive(s, "fullStart", <<>>)

CollectType(s, t) ==
  /\ col[s] = "types"
  /\ t \in todo[s]
  /\ todo' = [todo EXCEPT ![s] = @ \ {t}]
  /\ col' = [col EXCEPT ![s] = IF todo[s] = {t} THEN "sleep" ELSE "types"]
  /\ gen' = IF todo[s] = {t} THEN [gen EXCEPT ![s] = 0] ELSE gen
  /\ \E items \in {[i \in 1 .. PerType |-> <<<<gen[s], t, i>>, inventory[gen[s]][<<t, i>>]>>]} :
       Receive(s, IF todo[s] = {t} THEN "fullEnd" ELSE "fullSegment", items)

Modified(objects, S) == [o \in Objects |-> IF o \in S THEN objects[o] + 1 ELSE objects[o]]

\* Ten minutes later: the inventory that is current then is modified.
Modify(s) ==
  /\ col[s] = "sleep"
  /\ col' = [col EXCEPT ![s] = IF proc[s].at = "gone" THEN "gone" ELSE "start"]
  /\ \E S \in SUBSET {o \in msg[s].volatile \X (1 .. PerType) :
                     inventory[current][o] < MaxVersion} :
       inventory' = [inventory EXCEPT ![current] = Modified(@, S)]
  /\ UNCHANGED <<msg, peer, current, del, lockVars, done, todo, gen>>
  /\ UNCHANGED <<proc, sink, cache, cloudVars, crash>>

CollectorEnds(s) ==
  /\ col[s] = "sleep"
  /\ s \in done
  /\ col' = [col EXCEPT ![s] = "gone"]
  /\ UNCHANGED <<inventoryVars, del, lockVars, done, todo, gen>>
  /\ UNCHANGED <<proc, sink, cache, cloudVars, crash>>

(***************************************************************************)
(* Sending.  The sink takes a message; that of a stream whose context is   *)
(* done may be lost.                                                       *)
(***************************************************************************)
\* The cloud, given a message.
Deliver(type, ups, dels) ==
  LET keys == {x[1] : x \in ToSet(ups)}
      got == (IF type = "fullStart" THEN {} ELSE seen) \cup keys
      gone == dels \cup IF type = "fullEnd" THEN Keys \ got ELSE {}
  IN /\ seen' = IF type \in {"fullStart", "fullSegment"} THEN got ELSE {}
     /\ cloud' = [k \in Keys |->
          IF k \in keys THEN (CHOOSE x \in ToSet(ups) : x[1] = k)[2]
          ELSE IF k \in gone THEN 0 ELSE cloud[k]]

Send(s) ==
  LET p == proc[s]
      more == Len(p.ups) > Batch
      type == IF ~p.full THEN "incremental" ELSE IF more THEN "fullSegment" ELSE p.type
      batch == SubSeq(p.ups, 1, IF more THEN Batch ELSE Len(p.ups))
  IN /\ p.at = "send" /\ sink[s] = "recv"
     /\ proc' = [proc EXCEPT ![s] =
          IF more THEN [p EXCEPT !.ups = SubSeq(@, Batch + 1, Len(@))]
          ELSE [p EXCEPT !.at = "select", !.ups = <<>>, !.dels = {}, !.type = "none",
                         !.full = @ /\ p.type # "fullEnd"]]
     /\ \/ Deliver(type, batch, p.dels)
        \/ s \in done /\ UNCHANGED cloudVars
     /\ UNCHANGED <<inventoryVars, del, lockVars, done, colVars, sink, cache, crash>>

\* The processor looks at its context only where it waits for a report.
ProcessorEnds(s) ==
  /\ proc[s].at = "select"
  /\ s \in done \cup cancelled
  /\ proc' = [proc EXCEPT ![s] = Processor("gone")]
  /\ col' = [col EXCEPT ![s] = IF @ = "sleep" THEN "sleep" ELSE "gone"]
  /\ todo' = [todo EXCEPT ![s] = {}]
  /\ gen' = [gen EXCEPT ![s] = 0]
  /\ UNCHANGED <<inventoryVars, del, lockVars, done, sink, cache, cloudVars, crash>>

\* The sink ends with the context of the stream or the processor.
SinkEnds(s) ==
  /\ sink[s] = "recv"
  /\ s \in done \/ proc[s].at = "gone"
  /\ sink' = [sink EXCEPT ![s] = "ended"]
  /\ UNCHANGED <<inventoryVars, del, lockVars, done, colVars, proc, cache, cloudVars, crash>>

\* The stream is closed, replaced, or loses its session.
Cancel(s) ==
  /\ del[s] # "idle" /\ s \notin done
  /\ done' = done \cup {s}
  /\ UNCHANGED <<inventoryVars, del, lockVars, colVars, proc, sink, cache, cloudVars, crash>>

StreamDelegate(s) == First(s) \/ Lock(s) \/ Replace(s)
Collect(s) == CollectStart(s) \/ \E t \in Types : CollectType(s, t)

CINext == ~crash /\ \E s \in Streams :
  \/ Create(s) \/ StreamDelegate(s) \/ Collect(s) \/ Modify(s) \/ CollectorEnds(s)
  \/ Send(s) \/ ProcessorEnds(s) \/ SinkEnds(s) \/ Cancel(s)

(***************************************************************************)
(* Goroutines that can go on do, and the ten minutes pass, unless the      *)
(* process has ended.                                                      *)
(***************************************************************************)
CIFairness == \A s \in Streams :
  /\ WF_ciVars(~crash /\ StreamDelegate(s))
  /\ WF_ciVars(~crash /\ (Collect(s) \/ Modify(s) \/ CollectorEnds(s)))
  /\ WF_ciVars(~crash /\ (Send(s) \/ ProcessorEnds(s)))

CISpec == CIInit /\ [][CINext]_ciVars /\ CIFairness

-----------------------------------------------------------------------------
Live(s) == del[s] = "started" /\ s \notin done

\* The processors of two streams, which share diffCache, never work at the
\* same time, although the contexts of both may be done.
OneProcessor == \A s, r \in Streams :
  proc[s].at \in {"select", "send"} /\ proc[r].at \in {"select", "send"} => s = r

\* The cloud has the objects of stream s, all of them, and no others.
Complete(s) == \A k \in Keys : cloud[k] # 0 <=> k[1] = s

\* The init message gives a type one relationship at most, whose selector names a key,
\* and no chain of them comes back to a type.
Plain(s) == \E rank \in [Types -> 0 .. Cardinality(Types)] :
  \A t \in Types : \A r \in msg[s].rels[t] :
    msg[s].rels[t] = {r} /\ RelType[r] # NoType /\ rank[RelType[r]] < rank[t]

\* Between two collections of a stream that is up the cloud's copy is the one that
\* differences are taken against and has no object of another stream, whatever the
\* order of types, the items held back and put twice, the batches sent, and what
\* earlier streams left there.  It is complete if the relationships are plain;
\* others may make the processor forget objects until the next collection.
InSync == \A s \in Streams :
  ~crash /\ Live(s) /\ proc[s].at = "select" /\ col[s] = "sleep" =>
    /\ cloud = cache
    /\ \A k \in Keys : cloud[k] # 0 => k[1] = s
    /\ Plain(s) => Complete(s)

\* A stream that is up never gives the cloud an object before one that it relates to:
\* with one relationship, the one, and with several any of them.
RelationsFirst == [][\A s \in Streams :
  Live(s) /\ proc[s].at = "send" /\ proc'[s] # proc[s] =>
    \A k \in Keys : cloud'[k] # 0 /\ cloud'[k] # cloud[k] =>
      Relations(k) = {} \/ Found(cloud', k) # {}]_cloud

\* "Adding the objects to the cache if they now resolve all relations"
\* (commoninventory.go:535), whatever the number of relationships.
AllResolved == [][\A s \in Streams :
  Live(s) /\ proc[s].at = "send" /\ proc'[s] # proc[s] =>
    \A k \in Keys : cloud'[k] # 0 /\ cloud'[k] # cloud[k] => Resolves(cloud', k)]_cloud

\* A processor offers a message to a stream that has ended.
Stuck == \E s \in Streams : proc[s].at = "send" /\ sink[s] = "ended"

\* A stream that is opened is collected, unless it ends first, waits for a
\* processor that will never go on, is overtaken by an older one that took
\* the lock after it, or the process panics.
Collected == [](\A s \in Streams : del[s] = "lock" =>
  <>(s \in done \/ Stuck \/ s \in cancelled \/ crash \/ Complete(s)))

\* "This is a temporary workaround to get to a clean state and re-collect when
\* cloud re-opens stream" (commoninventory.go:514).
Reopened == \A s \in Streams : del[s] = "lock" ~> s \in done \/ crash \/ Complete(s)
=============================================================================
