------------------------------ MODULE Registry ------------------------------
(***************************************************************************)
(* The devices of a process: how StartEmulators restores the ones that are *)
(* stored and starts new ones, how a device registers with the cloud, is   *)
(* stored and is listed by its identity in emulators, how the cloud gives  *)
(* it another identity, and how it starts the servers it manages, which    *)
(* are devices themselves.  The process may crash and come back with what  *)
(* is stored.                                                              *)
(*                                                                         *)
(* A registration has two identities, the one it was given and the one a   *)
(* control message may give it.  All servers of a device are alike here.   *)
(* Accounts are left out.                                                  *)
(***************************************************************************)
EXTENDS FiniteSets, Naturals

CONSTANTS
  Connections, \* EMU_CONNECTIONS
  MaxObjects,  \* bound on the devices of one life of the process
  MaxRegs,     \* bound on the registrations
  MaxCrashes,  \* bound on the crashes
  MaxCloud,    \* bound on these and the control messages
  Handlers,    \* goroutines that handle control messages
  None

ASSUME RegistryAssumption ==
  /\ Connections \in Nat /\ MaxObjects \in Nat /\ MaxRegs \in Nat
  /\ MaxCrashes \in Nat /\ MaxCloud \in Nat
  /\ None \notin Nat /\ None \notin (1 .. MaxRegs) \X {1, 2}

Objects == 1 .. MaxObjects
Regs == 1 .. MaxRegs
Ids == Regs \X {1, 2}
Starts == Objects \X {1, 2}

VARIABLES
  spawner,   \* StartEmulators: load, restore, spawn, done
  spawned,   \* devices it has started
  todo,      \* records it has yet to restore
  exists,    \* deviceConnectors
  at,        \* goroutines of start: none, spawned, parent, key, register,
             \* write, list, connect, started
  hasKey,    \* devices with a private key
  id,        \* of a device
  access,    \* the registration that a start has made, whose accessKey it stores
  parent,    \* its parentDevice
  parentId,  \* the identity of the parent, of one that was restored
  children,
  emulators, \* the devices by identity, but for those that register
  fetching,  \* devices that GetEmulatorTokens, holding emulatorsMu, waits for
  ctl,       \* handlers of control messages
  storage,   \* records of devices
  regs,      \* registrations the cloud has made and answered
  \* The rest counts.
  crashes, controls,
  tops,      \* registrations of devices without a parent
  lost,      \* of these, the ones that were not stored
  unread     \* starts at which the storage did not answer

spawnVars == <<spawner, spawned, todo>>
familyVars == <<parent, parentId, children>>
identityVars == <<hasKey, id, access>>
cloudVars == <<regs, tops>>
rgVars == <<spawnVars, exists, at, identityVars, familyVars, emulators, fetching, ctl,
            storage, cloudVars, lost, unread, crashes, controls>>

Records == [key : Regs, moid : Ids, parent : Ids \cup {None}]

\* A handler: where it is, its device, the identity in the message, and oldid.
Handler == [at : {"idle", "id", "rename"}, obj : Objects \cup {None},
            new : Ids \cup {None}, old : Ids \cup {None}]
Idle == [at |-> "idle", obj |-> None, new |-> None, old |-> None]

Labels == {"none", "spawned", "parent", "key", "register", "write", "list", "connect",
           "started"}

SpawnTypes ==
  /\ spawner \in {"load", "restore", "spawn", "done"}
  /\ spawned \in 0 .. MaxObjects
  /\ todo \subseteq Records
  /\ exists \subseteq Objects

StartTypes ==
  /\ at \in [Starts -> Labels]
  /\ hasKey \subseteq Objects
  /\ id \in [Objects -> Ids \cup {None}]
  /\ access \in [Starts -> Regs \cup {None}]

FamilyTypes ==
  /\ parent \in [Objects -> Objects \cup {None}]
  /\ parentId \in [Objects -> Ids \cup {None}]
  /\ children \in [Objects -> SUBSET Objects]

ListTypes ==
  /\ emulators \in [Ids \cup {None} -> Objects \cup {None}]
  /\ fetching \subseteq Objects
  /\ ctl \in [Handlers -> Handler]

CloudTypes ==
  /\ storage \subseteq Records
  /\ regs \in 0 .. MaxRegs /\ tops \in 0 .. MaxRegs /\ lost \in 0 .. MaxRegs
  /\ unread \in 0 .. MaxCrashes + 1
  /\ crashes \in 0 .. MaxCrashes /\ controls \in 0 .. MaxCloud

RGTypeOK == SpawnTypes /\ StartTypes /\ FamilyTypes /\ ListTypes /\ CloudTypes

RGInit ==
  /\ spawned = 0 /\ todo = {} /\ exists = {} /\ hasKey = {} /\ fetching = {}
  /\ at = [g \in Starts |-> "none"]
  /\ id = [o \in Objects |-> None] /\ access = [g \in Starts |-> None]
  /\ parent = [o \in Objects |-> None] /\ parentId = [o \in Objects |-> None]
  /\ children = [o \in Objects |-> {}]
  /\ emulators = [i \in Ids \cup {None} |-> None]
  /\ ctl = [h \in Handlers |-> Idle]
  /\ spawner = "load"
  /\ storage = {}
  /\ regs = 0 /\ tops = 0 /\ lost = 0 /\ unread = 0 /\ crashes = 0 /\ controls = 0

\* A deviceConnector that is not in use.
Free(o) == o \notin exists /\ \A p \in Objects : p < o => p \in exists

\* emulatorsMu can be taken.
Unlocked == fetching = {}

\* A device that runs its connections.
Up(o) == \E n \in {1, 2} : at[<<o, n>>] = "started"

(***************************************************************************)
(* StartEmulators.                                                         *)
(***************************************************************************)
Load ==
  /\ spawner = "load"
  /\ \/ todo' = storage /\ UNCHANGED unread
     \/ storage # {} /\ todo' = {} /\ unread' = unread + 1
  /\ spawner' = "restore"
  /\ UNCHANGED <<spawned, exists, at, identityVars, familyVars, emulators, fetching, ctl,
                 storage, cloudVars, lost, crashes, controls>>

SpawnDevice(o) ==
  /\ Free(o)
  /\ exists' = exists \cup {o}
  /\ at' = [at EXCEPT ![<<o, 1>>] = "spawned"]
  /\ spawned' = spawned + 1

\* Mutant: devices that were restored are not counted.
RestoreUncounted(o, r) ==
  /\ spawner = "restore"
  /\ r \in todo
  /\ Free(o)
  /\ exists' = exists \cup {o}
  /\ at' = [at EXCEPT ![<<o, 1>>] = "spawned"]
  /\ todo' = todo \ {r}
  /\ hasKey' = hasKey \cup {o}
  /\ id' = [id EXCEPT ![o] = r.moid]
  /\ parentId' = [parentId EXCEPT ![o] = r.parent]
  /\ UNCHANGED <<spawner, spawned, access, parent, children, emulators, fetching, ctl,
                 storage, cloudVars, lost, unread, crashes, controls>>

Restore(o, r) ==
  /\ spawner = "restore"
  /\ r \in todo
  /\ SpawnDevice(o)
  /\ todo' = todo \ {r}
  /\ hasKey' = hasKey \cup {o}
  /\ id' = [id EXCEPT ![o] = r.moid]
  /\ parentId' = [parentId EXCEPT ![o] = r.parent]
  /\ UNCHANGED <<spawner, access, parent, children, emulators, fetching, ctl, storage,
                 cloudVars, lost, unread, crashes, controls>>

Restored ==
  /\ spawner = "restore" /\ todo = {}
  /\ spawner' = "spawn"
  /\ UNCHANGED <<spawned, todo, exists, at, identityVars, familyVars, emulators, fetching,
                 ctl, storage, cloudVars, lost, unread, crashes, controls>>

SpawnNew(o) ==
  /\ spawner = "spawn" /\ spawned < Connections
  /\ SpawnDevice(o)
  /\ UNCHANGED <<spawner, todo, identityVars, familyVars, emulators, fetching, ctl, storage,
                 cloudVars, lost, unread, crashes, controls>>

Spawned ==
  /\ spawner = "spawn" /\ spawned >= Connections
  /\ spawner' = "done"
  /\ UNCHANGED <<spawned, todo, exists, at, identityVars, familyVars, emulators, fetching,
                 ctl, storage, cloudVars, lost, unread, crashes, controls>>

(***************************************************************************)
(* start.                                                                  *)
(***************************************************************************)
Goto(g, l) == at' = [at EXCEPT ![g] = l]

\* The identity it knows its parent by.
ParentIdOf(o) == IF parent[o] # None THEN id[parent[o]] ELSE parentId[o]

Begin(g) ==
  /\ at[g] = "spawned"
  /\ Goto(g, IF ParentIdOf(g[1]) = None THEN "key" ELSE "parent")
  /\ UNCHANGED <<spawnVars, exists, identityVars, familyVars, emulators, fetching, ctl,
                 storage, cloudVars, lost, unread, crashes, controls>>

\* The loop that waits for the parent to be listed.
ParentFound(g) ==
  LET o == g[1]
      p == emulators[ParentIdOf(o)]
  IN /\ at[g] = "parent"
     /\ Unlocked
     /\ p # None
     /\ parent' = [parent EXCEPT ![o] = p]
     /\ children' = [children EXCEPT ![p] = @ \cup {o}]
     /\ Goto(g, "key")
     /\ UNCHANGED <<spawnVars, exists, identityVars, parentId, emulators, fetching, ctl,
                    storage, cloudVars, lost, unread, crashes, controls>>

\* A device that has a key is listed; one that has none makes one.  If it is to
\* register it is listed under a name that nobody knows.
Key(g) ==
  LET o == g[1] IN
  /\ at[g] = "key"
  /\ Unlocked
  /\ emulators' = IF o \in hasKey THEN [emulators EXCEPT ![id[o]] = o] ELSE emulators
  /\ hasKey' = hasKey \cup {o}
  /\ Goto(g, IF id[o] = None THEN "register" ELSE "connect")
  /\ UNCHANGED <<spawnVars, exists, id, access, familyVars, fetching, ctl, storage, cloudVars,
                 lost, unread, crashes, controls>>

\* The bounds on the registrations are reached.
NoMore == regs = MaxRegs \/ regs + controls >= MaxCloud

\* The cloud accepts the registration, at the first or a later attempt.
Registers(g) ==
  LET o == g[1] IN
  /\ at[g] = "register"
  /\ ~NoMore
  /\ regs' = regs + 1
  /\ tops' = IF parent[o] = None THEN tops + 1 ELSE tops
  /\ id' = [id EXCEPT ![o] = <<regs', 1>>]
  /\ access' = [access EXCEPT ![g] = regs']
  /\ Goto(g, "write")
  /\ UNCHANGED <<spawnVars, exists, hasKey, familyVars, emulators, fetching, ctl, storage,
                 lost, unread, crashes, controls>>

\* It stores its own accessKey with the identity the device has by now.  That a
\* record could not be written is only logged.
Write(g) ==
  LET o == g[1] IN
  /\ at[g] = "write"
  /\ \/ /\ storage' = {r \in storage : r.key # access[g]} \cup
             {[key |-> access[g], moid |-> id[o], parent |-> ParentIdOf(o)]}
        /\ UNCHANGED lost
     \/ /\ lost' = IF parent[o] = None THEN lost + 1 ELSE lost
        /\ UNCHANGED storage
  /\ Goto(g, "list")
  /\ UNCHANGED <<spawnVars, exists, identityVars, familyVars, emulators, fetching, ctl,
                 cloudVars, unread, crashes, controls>>

List(g) ==
  /\ at[g] = "list"
  /\ Unlocked
  /\ emulators' = [emulators EXCEPT ![id[g[1]]] = g[1]]
  /\ Goto(g, "connect")
  /\ UNCHANGED <<spawnVars, exists, identityVars, familyVars, fetching, ctl, storage,
                 cloudVars, lost, unread, crashes, controls>>

\* The connections are set up and run.  Those of the parent are looked at, who
\* is listed before it has any when it was restored, which is a panic.
Connect(g) ==
  /\ at[g] = "connect"
  /\ parent[g[1]] # None => Up(parent[g[1]])
  /\ Goto(g, "started")
  /\ UNCHANGED <<spawnVars, exists, identityVars, familyVars, emulators, fetching, ctl,
                 storage, cloudVars, lost, unread, crashes, controls>>

(***************************************************************************)
(* The servers of a device: an inventory event makes one known, a later    *)
(* message starts it, and is a panic if there is none.                     *)
(***************************************************************************)
PrepInvEvents(o, c) ==
  /\ Up(o) /\ parent[o] = None /\ o \notin fetching
  /\ children[o] = {}
  /\ Free(c)
  /\ exists' = exists \cup {c}
  /\ parent' = [parent EXCEPT ![c] = o]
  /\ children' = [children EXCEPT ![o] = {c}]
  /\ UNCHANGED <<spawnVars, at, identityVars, parentId, emulators, fetching, ctl, storage,
                 cloudVars, lost, unread, crashes, controls>>

\* No start of c has come to say that it is starting.
Created(c) == \A n \in {1, 2} : at[<<c, n>>] \in {"none", "spawned"}

StartChildDc(o, g) ==
  /\ Up(o)
  /\ g[1] \in children[o]
  /\ Created(g[1])
  /\ at[g] = "none"
  /\ g[2] = 2 => at[<<g[1], 1>>] # "none"
  /\ Goto(g, "spawned")
  /\ UNCHANGED <<spawnVars, exists, identityVars, familyVars, emulators, fetching, ctl,
                 storage, cloudVars, lost, unread, crashes, controls>>

(***************************************************************************)
(* handleControlMessage, in goroutines of its own.  Two that change the    *)
(* account may close the channel claim twice, which is a panic.            *)
(***************************************************************************)
Control(h, o, i) ==
  /\ regs + controls < MaxCloud
  /\ ctl[h].at = "idle" /\ h = CHOOSE k \in Handlers : ctl[k].at = "idle"
  /\ Up(o) /\ o \notin fetching
  /\ id[o] # None /\ i[1] = id[o][1]
  /\ ctl' = [ctl EXCEPT ![h] = [at |-> "id", obj |-> o, new |-> i, old |-> None]]
  /\ controls' = controls + 1
  /\ UNCHANGED <<spawnVars, exists, at, identityVars, familyVars, emulators, fetching,
                 storage, cloudVars, lost, unread, crashes>>

\* The account is set, and the identity looked at.
CheckId(h) ==
  LET o == ctl[h].obj IN
  /\ ctl[h].at = "id"
  /\ o \notin fetching
  /\ ctl' = [ctl EXCEPT ![h] = IF ctl[h].new = id[o] THEN Idle
                               ELSE [@ EXCEPT !.at = "rename", !.old = id[o]]]
  /\ UNCHANGED <<spawnVars, exists, at, identityVars, familyVars, emulators, fetching,
                 storage, cloudVars, lost, unread, crashes, controls>>

\* Mutant: the identity that is taken out last is read again, and is the new one.
RenameDeletesLast(h) ==
  LET o == ctl[h].obj IN
  /\ ctl[h].at = "rename"
  /\ Unlocked
  /\ emulators' = [emulators EXCEPT ![ctl[h].new] = None]
  /\ id' = [id EXCEPT ![o] = ctl[h].new]
  /\ ctl' = [ctl EXCEPT ![h] = Idle]
  /\ UNCHANGED <<spawnVars, exists, at, hasKey, access, familyVars, fetching, storage,
                 cloudVars, lost, unread, crashes, controls>>

Rename(h) ==
  LET o == ctl[h].obj IN
  /\ ctl[h].at = "rename"
  /\ Unlocked
  /\ emulators' = [emulators EXCEPT ![ctl[h].old] = None, ![ctl[h].new] = o]
  /\ id' = [id EXCEPT ![o] = ctl[h].new]
  /\ ctl' = [ctl EXCEPT ![h] = Idle]
  /\ UNCHANGED <<spawnVars, exists, at, hasKey, access, familyVars, fetching, storage,
                 cloudVars, lost, unread, crashes, controls>>

(***************************************************************************)
(* GetEmulatorTokens reads the list and waits, holding its lock, for the   *)
(* tokens of devices that are not claimed, whose own locks are held.       *)
(***************************************************************************)
GetEmulatorTokens ==
  /\ Unlocked
  /\ \E S \in SUBSET {o \in Objects : Up(o) /\ \E i \in Ids : emulators[i] = o} :
       S # {} /\ fetching' = S
  /\ UNCHANGED <<spawnVars, exists, at, identityVars, familyVars, emulators, ctl, storage,
                 cloudVars, lost, unread, crashes, controls>>

\* Mutant: the device that has its token is waited for.
TokenKeepsLock(o) == o \in fetching /\ UNCHANGED rgVars

Token(o) ==
  /\ o \in fetching
  /\ fetching' = fetching \ {o}
  /\ UNCHANGED <<spawnVars, exists, at, identityVars, familyVars, emulators, ctl, storage,
                 cloudVars, lost, unread, crashes, controls>>

(***************************************************************************)
(* The process ends, by itself or because of a panic, and starts again.    *)
(***************************************************************************)
Crash ==
  /\ crashes < MaxCrashes
  /\ spawner # "load"
  /\ spawned' = 0 /\ todo' = {} /\ exists' = {} /\ hasKey' = {} /\ fetching' = {}
  /\ at' = [g \in Starts |-> "none"]
  /\ id' = [o \in Objects |-> None] /\ access' = [g \in Starts |-> None]
  /\ parent' = [o \in Objects |-> None] /\ parentId' = [o \in Objects |-> None]
  /\ children' = [o \in Objects |-> {}]
  /\ emulators' = [i \in Ids \cup {None} |-> None]
  /\ ctl' = [h \in Handlers |-> Idle]
  /\ spawner' = "load"
  /\ crashes' = crashes + 1
  /\ lost' = lost + Cardinality({g \in Starts : at[g] = "write" /\ parent[g[1]] = None})
  /\ UNCHANGED <<storage, cloudVars, unread, controls>>

Spawner == Load \/ Restored \/ Spawned
Start(o) == \E n \in {1, 2} : LET g == <<o, n>> IN
  \/ Begin(g) \/ ParentFound(g) \/ Key(g) \/ Registers(g) \/ Write(g) \/ List(g) \/ Connect(g)

RGNext ==
  \/ Spawner
  \/ \E o \in Objects : \/ \E r \in todo : Restore(o, r)
                        \/ SpawnNew(o) \/ Start(o) \/ Token(o)
                        \/ \E c \in Objects : PrepInvEvents(o, c)
                        \/ \E g \in Starts : StartChildDc(o, g)
                        \/ \E h \in Handlers, i \in Ids : Control(h, o, i)
  \/ \E h \in Handlers : CheckId(h) \/ Rename(h)
  \/ GetEmulatorTokens \/ Crash

\* The cloud accepts a registration at some time and answers a request for a
\* token, or lets it time out; a writer gets emulatorsMu although readers come.
RGFairness == \A o \in Objects : SF_rgVars(Start(o)) /\ WF_rgVars(Token(o))

RGSpec == RGInit /\ [][RGNext]_rgVars /\ RGFairness

-----------------------------------------------------------------------------
\* A device that runs is found by the identity it has, whatever identities the
\* cloud gives it and in whatever order two messages are applied, also when it
\* was started twice, unless it is being registered again then.  (A device that
\* registers twice is two devices when the process comes back.  If the stored
\* identities of these are two of one registration, a message may give one of
\* them the identity of the other, and the next one takes that off the list.)
Findable == \A o \in Objects :
  /\ Up(o)
  /\ \A n \in {1, 2} : at[<<o, n>>] \notin {"write", "list"}
  /\ \A p \in Objects \ {o} : id[p] # None => id[p][1] # id[o][1]
  => emulators[id[o]] = o

\* However often the process crashes, it registers no more devices than it is
\* to emulate but for those that it could not store, or that it could not read
\* when it started.
Budget == tops <= Connections * (unread + 1) + lost

\* No device has the identity by which this one waits for its parent.
Orphan(g) == at[g] = "parent" /\ \A p \in Objects : id[p] # ParentIdOf(g[1])

\* A device that is started comes up, although its parent has to be there
\* first and everybody needs the lock that is held while tokens are fetched;
\* it may wait for ever for a parent that has got another identity since the
\* child was stored, or was not stored itself.
ComesUp == \A g \in Starts :
  []<>(at[g] \in {"none", "started"} \/ Orphan(g) \/ (at[g] = "register" /\ NoMore))
=============================================================================
