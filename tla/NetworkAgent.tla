---------------------------- MODULE NetworkAgent ----------------------------
(***************************************************************************)
(* The network agent of a fabric interconnect.  The cloud's messages, each *)
(* in a goroutine of its own, read, change and write the inventories that  *)
(* are in the storage, and the cloud's inventory jobs are answered with    *)
(* them, each until it is marked as sent, in the order in which they came  *)
(* first, and again a day later.  Messages also make the servers behind    *)
(* the ports known, and start them.  The process may end and come back.    *)
(*                                                                         *)
(* A port is an entry of the inventory of Ethernet ports or of that of the *)
(* FC ports; of its fields there is the role.  There are one port channel, *)
(* one chassis, and a rack server at each port.  A message is about one    *)
(* port, about the channel, or about both.                                 *)
(***************************************************************************)
EXTENDS Naturals, Sequences, SequencesExt

CONSTANTS
  Ports,
  Jobs,        \* of "eth", "fc", "pc": the inventories that the cloud asks for
  Handlers,    \* goroutines that handle messages
  MaxInputs,   \* bound on the messages, and on the failures: of requests to the
               \* storage, of answers and of sessions
  None

ASSUME NetworkAgentAssumption ==
  /\ Jobs \subseteq {"eth", "fc", "pc"}
  /\ MaxInputs \in Nat
  /\ "chassis" \notin Ports

VARIABLES
  own,     \* the inventories that the device has written to the storage
  sync,    \* inventorySyncState: the inventories that are marked as sent
  order,   \* inventoryJobOrder
  asking,  \* the job that runs and the inventory that it has read; it holds mu
           \* until it has marked the inventory
  dead,    \* jobs whose context is done: that of the message that started them
  cloud,   \* what the account was sent of each inventory
  handler, \* the messages that are handled
  events,  \* of sendInventoryEventPerChild: servers to prepare, and to send
  known,   \* servers that are children of the device, and the chassis
  online,  \* onlineIomSerials: the module of the chassis is in it
  told,    \* what events of this process have told the cloud of
  before,  \* what only events of an earlier process have
  \* The rest counts.
  inputs,
  torn     \* a message that moves a port overlapped another, or failed half way

jobVars == <<sync, order, asking, dead>>
serverVars == <<events, known, online, told, before>>
countVars == <<inputs, torn>>
vars == <<own, cloud, handler, jobVars, serverVars, countVars>>

EthRoles == {"off", "server", "uplink"}
FcRoles == {"down", "up"}
EthPorts == [Ports -> EthRoles \cup {None}]
FcPorts == [Ports -> FcRoles \cup {None}]
Channel == {"none", "new", "member"}
NoFc == [p \in Ports |-> None]
CopiesOf == [eth |-> EthPorts, fc |-> FcPorts, pc |-> Channel]

\* A message: what it is about, where it is, and its copies of the ports.
Ops == {"ports", "fcoe", "pc", "fc", "fcpc", "unified", "rack", "mux", "blades"}
Args == EthRoles \cup {"configured", "unconfigured", "deleted"}
Message == [op : Ops, port : Ports, arg : Args, eth : EthPorts, fc : FcPorts,
            at : {"start", "eth", "write", "writeEth", "unsync", "lock", "panic", "send"}]

ASSUME NoneAssumption ==
  None \notin EthPorts \cup FcPorts \cup Channel \cup EthRoles \cup FcRoles \cup Message

TypeOK ==
  /\ own \in [eth : EthPorts \cup {None}, fc : FcPorts \cup {None}, pc : Channel \cup {None}]
  /\ sync \subseteq Jobs
  /\ order \in Seq(Jobs)
  /\ asking # None => /\ asking.job \in Jobs
                      /\ asking \in [job : Jobs, copy : CopiesOf[asking.job], marked : BOOLEAN]
  /\ dead \subseteq Jobs
  /\ DOMAIN cloud = Jobs /\ \A j \in Jobs : cloud[j] \in CopiesOf[j] \cup {None}
  /\ handler \in [Handlers -> Message \cup {None}]
  /\ events \subseteq Ports \X {"prepare", "send"}
  /\ known \cup told \cup before \subseteq Ports \cup {"chassis"}
  /\ online \in BOOLEAN /\ torn \in BOOLEAN
  /\ inputs \in 0 .. MaxInputs

Init ==
  /\ own = [eth |-> None, fc |-> None, pc |-> None]
  /\ cloud = [j \in Jobs |-> None]
  /\ handler = [h \in Handlers |-> None]
  /\ sync = {} /\ order = <<>> /\ asking = None /\ dead = {}
  /\ events = {} /\ known = {} /\ online = FALSE /\ told = {} /\ before = {}
  /\ inputs = 0 /\ torn = FALSE

(***************************************************************************)
(* The storage: an inventory is the one in the database until the device   *)
(* writes it.                                                              *)
(***************************************************************************)
Default == [eth |-> [p \in Ports |-> "off"], fc |-> NoFc, pc |-> "none"]
GetInventory(i) == IF own[i] = None THEN Default[i] ELSE own[i]

Fails == inputs < MaxInputs /\ inputs' = inputs + 1

WriteInventory(i, v) ==
  \/ own' = [own EXCEPT ![i] = v] /\ UNCHANGED inputs
  \/ Fails /\ UNCHANGED own

(***************************************************************************)
(* A message comes.  The cloud asks to start a server, and the servers of  *)
(* the chassis, when an event has told it of them, of this process or of   *)
(* one before it.                                                          *)
(***************************************************************************)
At(h, ops, l) == handler[h] # None /\ handler[h].op \in ops /\ handler[h].at = l
Goto(h, l) == handler' = [handler EXCEPT ![h].at = l]
Done(h) == handler' = [handler EXCEPT ![h] = None]

ArgsOf(op) == CASE op = "ports" -> {"off", "server"}
                [] op = "unified" -> {"configured", "unconfigured", "deleted"}
                [] OTHER -> {"uplink"}

Delegate(h, op, p, a) ==
  /\ inputs < MaxInputs
  /\ inputs' = inputs + 1
  /\ handler[h] = None /\ h = CHOOSE k \in Handlers : handler[k] = None
  /\ a \in ArgsOf(op)
  /\ op = "rack" => p \in told \cup before
  /\ op = "blades" => "chassis" \in told \cup before
  /\ handler' = [handler EXCEPT ![h] =
       [op |-> op, port |-> p, arg |-> a, eth |-> Default.eth, fc |-> NoFc,
        at |-> IF op = "pc" THEN "lock" ELSE "start"]]
  /\ torn' = (torn \/ \E k \in Handlers : handler[k] # None /\ "unified" \in {op, handler[k].op})
  /\ UNCHANGED <<own, cloud, jobVars, serverVars>>

(***************************************************************************)
(* configurePorts: the events about servers are sent by another goroutine, *)
(* which does not wait for the inventory to be written.                    *)
(***************************************************************************)
ReadPorts(h) ==
  LET m == handler[h]
      eth == GetInventory("eth")
  IN /\ At(h, {"ports", "fcoe"}, "start")
     /\ \/ /\ eth[m.port] # None
           /\ handler' = [handler EXCEPT ![h].at = "write",
                ![h].eth = IF m.arg = "off" THEN eth ELSE [eth EXCEPT ![m.port] = m.arg]]
           /\ events' = IF m.arg = "server" THEN events \cup {<<m.port, "prepare">>} ELSE events
           /\ UNCHANGED inputs
        \/ /\ (eth[m.port] = None /\ UNCHANGED inputs) \/ Fails
           /\ Done(h)
           /\ UNCHANGED events
     /\ UNCHANGED <<own, cloud, jobVars, known, online, told, before, torn>>

\* If the write fails, a message that is also about the channel ends, too.
WritePorts(h) ==
  /\ At(h, {"ports", "fcoe"}, "write")
  /\ WriteInventory("eth", handler[h].eth)
  /\ handler' = [handler EXCEPT ![h].at = "unsync",
                                ![h].op = IF inputs' # inputs THEN "ports" ELSE @]
  /\ UNCHANGED <<cloud, jobVars, serverVars, torn>>

UnsyncPorts(h) ==
  /\ At(h, {"ports", "fcoe"}, "unsync")
  /\ sync' = sync \ {"eth"}
  /\ IF handler[h].op = "fcoe" THEN Goto(h, "lock") ELSE Done(h)
  /\ UNCHANGED <<own, cloud, order, asking, dead, serverVars, countVars>>

(***************************************************************************)
(* configurePortChannel, which holds mu.                                   *)
(***************************************************************************)
Unlocked == asking # None => asking.marked

createPortChannel == "new"

ConfigurePortChannel(h) ==
  /\ At(h, {"fcoe", "pc"}, "lock")
  /\ Unlocked
  /\ \/ /\ WriteInventory("pc", IF GetInventory("pc") = "none" THEN createPortChannel ELSE "member")
        /\ sync' = sync \ {"pc"}
     \/ Fails /\ UNCHANGED <<own, sync>>
  /\ Done(h)
  /\ UNCHANGED <<cloud, order, asking, dead, serverVars, torn>>

(***************************************************************************)
(* configureFcUplinks: the FC ports, and the FC channel, at which it       *)
(* panics, since it looks for a field that no message has.                 *)
(***************************************************************************)
ReadFcPorts(h) ==
  LET fc == GetInventory("fc") IN
  /\ At(h, {"fc", "fcpc"}, "start")
  /\ \/ /\ handler' = [handler EXCEPT ![h].at = "write",
             ![h].fc = [p \in Ports |-> IF p = handler[h].port /\ fc[p] # None THEN "up" ELSE fc[p]]]
        /\ UNCHANGED inputs
     \/ Fails /\ Done(h)
  /\ UNCHANGED <<own, cloud, jobVars, serverVars, torn>>

WriteFcPorts(h) ==
  /\ At(h, {"fc", "fcpc"}, "write")
  /\ WriteInventory("fc", handler[h].fc)
  /\ handler' = [handler EXCEPT ![h].at = "unsync",
                                ![h].op = IF inputs' # inputs THEN "fc" ELSE @]
  /\ UNCHANGED <<cloud, jobVars, serverVars, torn>>

UnsyncFcPorts(h) ==
  /\ At(h, {"fc", "fcpc"}, "unsync")
  /\ sync' = sync \ {"fc"}
  /\ IF handler[h].op = "fcpc" THEN Goto(h, "panic") ELSE Done(h)
  /\ UNCHANGED <<own, cloud, order, asking, dead, serverVars, countVars>>

(***************************************************************************)
(* configureUnifiedports, which moves a port from the one inventory to the *)
(* other.  If it cannot read the FC ports it goes on with none, and if it  *)
(* cannot write them it writes the Ethernet ports all the same.            *)
(***************************************************************************)
createFcPort(state) == IF state = "configured" THEN "up" ELSE "down"
createetherPort == "off"

ReadUnified(h) ==
  /\ At(h, {"unified"}, "start")
  /\ \/ /\ handler' = [handler EXCEPT ![h].at = "eth", ![h].fc = GetInventory("fc")]
        /\ UNCHANGED <<inputs, torn>>
     \/ /\ Fails
        /\ Goto(h, "eth")
        /\ torn' = TRUE
  /\ UNCHANGED <<own, cloud, jobVars, serverVars>>

\* Mutant: the port is not taken out of the inventory in which it was.
MovePortKeeps(h) ==
  LET m == handler[h]
      eth == GetInventory("eth")
  IN /\ At(h, {"unified"}, "eth")
     /\ eth[m.port] # None \/ m.fc[m.port] # None
     /\ handler' = [handler EXCEPT ![h] = [m EXCEPT !.at = "write",
          !.eth = IF m.arg = "deleted" THEN [eth EXCEPT ![m.port] = createetherPort] ELSE eth,
          !.fc = IF m.arg = "deleted" THEN @ ELSE [@ EXCEPT ![m.port] = createFcPort(m.arg)]]]
     /\ UNCHANGED <<own, cloud, jobVars, serverVars, countVars>>

MovePort(h) ==
  LET m == handler[h]
      eth == GetInventory("eth")
  IN /\ At(h, {"unified"}, "eth")
     /\ \/ /\ eth[m.port] # None \/ m.fc[m.port] # None
           /\ handler' = [handler EXCEPT ![h] = [m EXCEPT !.at = "write",
                !.eth = [eth EXCEPT ![m.port] =
                           IF m.arg = "deleted" THEN createetherPort ELSE None],
                !.fc = [m.fc EXCEPT ![m.port] =
                          IF m.arg # "deleted" THEN createFcPort(m.arg)
                          ELSE IF eth[m.port] = None THEN None ELSE m.fc[m.port]]]]
           /\ UNCHANGED inputs
        \/ /\ \/ eth[m.port] = None /\ m.fc[m.port] = None /\ UNCHANGED inputs
              \/ Fails
           /\ Done(h)
     /\ UNCHANGED <<own, cloud, jobVars, serverVars, torn>>

WriteUnified(h) ==
  /\ \/ /\ At(h, {"unified"}, "write")
        /\ WriteInventory("fc", handler[h].fc)
        /\ Goto(h, "writeEth")
     \/ /\ At(h, {"unified"}, "writeEth")
        /\ WriteInventory("eth", handler[h].eth)
        /\ Goto(h, "unsync")
  /\ torn' = (torn \/ inputs' # inputs)
  /\ UNCHANGED <<cloud, jobVars, serverVars>>

UnsyncUnified(h) ==
  /\ At(h, {"unified"}, "unsync")
  /\ sync' = sync \ {"eth", "fc"}
  /\ Done(h)
  /\ UNCHANGED <<own, cloud, order, asking, dead, serverVars, countVars>>

(***************************************************************************)
(* Servers: an event about a rack server is prepared by making it a child  *)
(* of the device; the cloud then starts it.  A message about the module of *)
(* the chassis makes the chassis known and is answered by an event, after  *)
(* which the cloud starts the servers in it.                               *)
(***************************************************************************)
\* Mutant: the event is sent before the server is a child.
PrepareEventsSends(p) ==
  /\ <<p, "prepare">> \in events
  /\ events' = (events \ {<<p, "prepare">>}) \cup {<<p, "send">>}
  /\ told' = told \cup {p} /\ before' = before \ {p}
  /\ UNCHANGED <<own, cloud, handler, jobVars, known, online, countVars>>

PrepareEvents(p) ==
  /\ <<p, "prepare">> \in events
  /\ known' = known \cup {p}
  /\ \/ events' = (events \ {<<p, "prepare">>}) \cup {<<p, "send">>}
     \/ events' = events \ {<<p, "prepare">>} \* The server cannot be asked.
  /\ UNCHANGED <<own, cloud, handler, jobVars, online, told, before, countVars>>

SendEvent(p) ==
  /\ <<p, "send">> \in events
  /\ events' = events \ {<<p, "send">>}
  /\ told' = told \cup {p} /\ before' = before \ {p}
  /\ UNCHANGED <<own, cloud, handler, jobVars, known, online, countVars>>

\* The process ends and comes back: the cloud remembers what it was told of, and
\* what was about to be written is lost.
Crash ==
  /\ handler' = [h \in Handlers |-> None]
  /\ sync' = {} /\ order' = <<>> /\ asking' = None /\ dead' = {}
  /\ events' = {} /\ known' = {} /\ online' = FALSE
  /\ told' = {} /\ before' = before \cup told
  /\ torn' = (torn \/ \E h \in Handlers : At(h, {"unified"}, "writeEth"))
  /\ UNCHANGED <<own, cloud>>

\* Bounded, so that it ends once for each time the cloud is told.
ProcessEnds == told # {} /\ Crash /\ UNCHANGED inputs

\* A server that is a child is started (see Registry); one that is none is a panic.
ConfigRackPort(h) ==
  /\ At(h, {"rack"}, "start")
  /\ \/ /\ handler[h].port \in known
        /\ Done(h)
        /\ UNCHANGED <<own, cloud, jobVars, serverVars, countVars>>
     \/ /\ handler[h].port \notin known
        /\ Crash
        /\ UNCHANGED inputs

CheckMux(h) ==
  /\ At(h, {"mux"}, "start")
  /\ \/ online /\ Done(h) /\ UNCHANGED known
     \/ ~online /\ Goto(h, "send") /\ known' = known \cup {"chassis"}
  /\ UNCHANGED <<own, cloud, jobVars, events, online, told, before, countVars>>

SendMuxOnline(h) ==
  /\ At(h, {"mux"}, "send")
  /\ told' = told \cup {"chassis"} /\ before' = before \ {"chassis"}
  /\ online' = TRUE
  /\ Done(h)
  /\ UNCHANGED <<own, cloud, jobVars, events, known, countVars>>

\* An error if the chassis is not known.
EnableBladeServerDCs(h) ==
  /\ At(h, {"blades"}, "start")
  /\ Done(h)
  /\ UNCHANGED <<own, cloud, jobVars, serverVars, countVars>>

(***************************************************************************)
(* getValueFromInventory, which holds mu, and what the job that calls it   *)
(* does with the answer.  One job runs at a time.                          *)
(***************************************************************************)
Order(j) == IF Contains(order, j) THEN order ELSE Append(order, j)

\* The job before this one, in the order, has been sent.
Turn(j) == \A i \in DOMAIN Order(j) : i > 1 /\ Order(j)[i] = j => Order(j)[i - 1] \in sync

Waits(j) ==
  /\ asking = None /\ ~Turn(j)
  /\ order' = Order(j)
  /\ UNCHANGED <<own, cloud, handler, sync, asking, dead, serverVars, countVars>>

GetValue(j) ==
  /\ asking = None
  /\ Turn(j) /\ j \notin sync
  /\ order' = Order(j)
  /\ \/ /\ asking' = [job |-> j, copy |-> GetInventory(j), marked |-> FALSE]
        /\ UNCHANGED inputs
     \/ Fails /\ UNCHANGED asking
  /\ UNCHANGED <<own, cloud, handler, sync, dead, serverVars, torn>>

MarkSent(j) ==
  /\ asking # None /\ asking.job = j /\ ~asking.marked
  /\ sync' = sync \cup {j}
  /\ asking' = [asking EXCEPT !.marked = TRUE]
  /\ UNCHANGED <<own, cloud, handler, order, dead, serverVars, countVars>>

\* The answer is dispatched, unless no message can be made of it.  Dispatch may
\* drop it when the context of the job is done.
Answer(j) ==
  /\ asking # None /\ asking.job = j /\ asking.marked
  /\ \/ cloud' = [cloud EXCEPT ![j] = asking.copy] /\ UNCHANGED inputs
     \/ j \in dead /\ UNCHANGED <<cloud, inputs>>
     \/ Fails /\ UNCHANGED cloud
  /\ asking' = None
  /\ UNCHANGED <<own, handler, sync, order, dead, serverVars, torn>>

\* The session ends, and with it the contexts of the jobs that it has started;
\* those are never renewed.
SessionEnds ==
  /\ Fails /\ order # <<>>
  /\ dead' = {j \in Jobs : Contains(order, j)}
  /\ UNCHANGED <<own, cloud, handler, sync, order, asking, serverVars, torn>>

\* Mutant: the inventories that were sent stay marked.
ResetTimerNot == FALSE /\ UNCHANGED vars

ResetTimer ==
  /\ sync' = {}
  /\ UNCHANGED <<own, cloud, handler, order, asking, dead, serverVars, countVars>>

\* The device is claimed to another account, which has no inventory yet.
ResetInventoryStatusMaps ==
  /\ inputs < MaxInputs
  /\ inputs' = inputs + 1
  /\ sync' = {}
  /\ cloud' = [j \in Jobs |-> None]
  /\ UNCHANGED <<own, handler, order, asking, dead, serverVars, torn>>

(***************************************************************************)
(* configureFcPc: if it can read the channels it panics.                   *)
(***************************************************************************)
ConfigureFcPc(h) ==
  /\ At(h, {"fcpc"}, "panic")
  /\ \/ Crash /\ UNCHANGED inputs
     \/ Fails /\ Done(h) /\ UNCHANGED <<own, cloud, jobVars, serverVars, torn>>

Next ==
  \/ \E h \in Handlers :
       \/ \E op \in Ops, p \in Ports, a \in Args : Delegate(h, op, p, a)
       \/ ReadPorts(h) \/ WritePorts(h) \/ UnsyncPorts(h) \/ ConfigurePortChannel(h)
       \/ ReadFcPorts(h) \/ WriteFcPorts(h) \/ UnsyncFcPorts(h) \/ ConfigureFcPc(h)
       \/ ReadUnified(h) \/ MovePort(h) \/ WriteUnified(h) \/ UnsyncUnified(h)
       \/ ConfigRackPort(h) \/ CheckMux(h) \/ SendMuxOnline(h) \/ EnableBladeServerDCs(h)
  \/ \E p \in Ports : PrepareEvents(p) \/ SendEvent(p)
  \/ \E j \in Jobs : Waits(j) \/ GetValue(j) \/ MarkSent(j) \/ Answer(j)
  \/ SessionEnds \/ ResetTimer \/ ResetInventoryStatusMaps \/ ProcessEnds

\* The cloud asks again and again, so that it asks for a job some time when it
\* is its turn, jobs that run go on, and the day passes, but not every time just
\* while an answer is on its way.
Fairness ==
  /\ \A j \in Jobs : /\ SF_vars(GetValue(j))
                    /\ WF_vars(MarkSent(j) \/ Answer(j))
                    /\ SF_vars(j \in sync /\ Answer(j))
  /\ WF_vars(ResetTimer)

Spec == Init /\ [][Next]_vars /\ Fairness

-----------------------------------------------------------------------------
\* A port is in one of the two inventories, also when messages are handled at
\* the same time, requests to the storage fail, or the process crashes, unless
\* this happens to a message that moves a port: these may lose one for ever.
EachOnce == \A p \in Ports :
  ~torn /\ (\A h \in Handlers : ~At(h, {"unified"}, "writeEth"))
    => (GetInventory("eth")[p] = None) # (GetInventory("fc")[p] = None)

\* A rack server that the cloud wants started is a child of the device, although
\* its event is sent by a goroutine of its own, and a chassis is known, unless the
\* cloud has only heard of it from a process that has ended: then the request for
\* a rack server ends this one, too.
StartsChildren == \A h \in Handlers :
  /\ At(h, {"rack"}, "start") => handler[h].port \in known \cup before
  /\ At(h, {"blades"}, "start") => "chassis" \in known \cup before

\* Whatever a message writes while a job reads and is marked as sent, to whichever
\* account the device is claimed, and although an answer that is marked may be
\* lost, the cloud comes to have the inventories as they are, unless the context
\* of their job is done for good.
Refreshed == \A j \in Jobs : <>[](j \in dead) \/ []<>(cloud[j] = GetInventory(j))
=============================================================================
