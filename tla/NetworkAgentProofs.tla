------------------------- MODULE NetworkAgentProofs -------------------------
(***************************************************************************)
(* Proofs about NetworkAgent for any ports, jobs and handlers and any      *)
(* number of inputs.                                                       *)
(***************************************************************************)
EXTENDS NetworkAgent, TLAPS

\* The inventories as they are.
Eth == GetInventory("eth")
Fc == GetInventory("fc")

\* Two inventories, of which either kind, have the same ports; each port is in
\* one of the two.
Same(a, b) == \A p \in Ports : a[p] = None <=> b[p] = None
Split(a, b) == \A p \in Ports : a[p] = None <=> b[p] # None

Is(h, ops) == handler[h] # None /\ handler[h].op \in ops

\* A message that moves a port is handled alone.
Alone == \A h, k \in Handlers : Is(h, {"unified"}) /\ k # h => handler[k] = None

\* What a message is about to write has the ports that are there, but for the
\* one it moves.
Agrees(m, eth, fc) ==
  /\ m.op \in {"ports", "fcoe"} /\ m.at = "write" => Same(m.eth, eth)
  /\ m.op \in {"fc", "fcpc"} /\ m.at = "write" => Same(m.fc, fc)
  /\ m.op = "unified" /\ m.at = "eth" => Same(m.fc, fc)
  /\ m.op = "unified" /\ m.at = "write" => Split(m.eth, m.fc)
  /\ m.op = "unified" /\ m.at = "writeEth" => Split(m.eth, fc)

CopiesAgree == \A h \in Handlers : handler[h] # None => Agrees(handler[h], Eth, Fc)

Moving == \E h \in Handlers : At(h, {"unified"}, "writeEth")

PortInv == ~torn => Alone /\ CopiesAgree /\ (~Moving => Split(Eth, Fc))

\* Servers that this process has told the cloud of, or is about to, are known; what
\* the cloud asks to start is known, or it was told of it by an earlier process.
Announced ==
  /\ \A p \in Ports : <<p, "send">> \in events => p \in known
  /\ \A h \in Handlers : At(h, {"mux"}, "send") => "chassis" \in known
  /\ told \subseteq known
  /\ \A h \in Handlers :
       /\ Is(h, {"rack"}) => handler[h].port \in known \cup before
       /\ Is(h, {"blades"}) => "chassis" \in known \cup before

ServerInv == Announced /\ StartsChildren

-----------------------------------------------------------------------------
LEMMA InventoryTypes ==
  ASSUME TypeOK
  PROVE  Eth \in EthPorts /\ Fc \in FcPorts /\ GetInventory("pc") \in Channel
BY DEF TypeOK, Eth, Fc, GetInventory, Default, EthPorts, FcPorts, EthRoles, FcRoles, Channel, NoFc

LEMMA Reading ==
  ASSUME TypeOK, NEW h \in Handlers, handler[h] # None
  PROVE  /\ handler[h] \in Message
         /\ handler[h].port \in Ports /\ handler[h].eth \in EthPorts /\ handler[h].fc \in FcPorts
BY DEF TypeOK, Message

LEMMA Defaults == Default.eth \in EthPorts /\ NoFc \in FcPorts
BY DEF Default, EthPorts, EthRoles, NoFc, FcPorts

LEMMA InitTypes == Init => TypeOK
<1> SUFFICES ASSUME Init PROVE TypeOK
  OBVIOUS
<1>1. order \in Seq(Jobs) /\ sync \subseteq Jobs
  BY DEF Init
<1>2. own \in [eth : EthPorts \cup {None}, fc : FcPorts \cup {None}, pc : Channel \cup {None}]
  BY DEF Init
<1>3. /\ DOMAIN cloud = Jobs /\ \A j \in Jobs : cloud[j] \in CopiesOf[j] \cup {None}
      /\ handler \in [Handlers -> Message \cup {None}]
  BY DEF Init
<1>4. inputs \in 0 .. MaxInputs
  BY NetworkAgentAssumption DEF Init
<1> QED
  BY <1>1, <1>2, <1>3, <1>4 DEF Init, TypeOK

\* The argument of a message about a port is a role of it.
ArgsOK == \A h \in Handlers : Is(h, {"ports", "fcoe"}) => handler[h].arg \in EthRoles

Types == TypeOK /\ ArgsOK

\* What a step may do to the messages, and to the inventories.
HandlersOK == handler' \in [Handlers -> Message \cup {None}]
OwnOK == own' \in [eth : EthPorts \cup {None}, fc : FcPorts \cup {None}, pc : Channel \cup {None}]

LEMMA FailsType == ASSUME TypeOK, Fails PROVE inputs' \in 0 .. MaxInputs
BY NetworkAgentAssumption DEF Fails, TypeOK

LEMMA WriteType ==
  ASSUME TypeOK, NEW v,
         \/ WriteInventory("eth", v) /\ v \in EthPorts
         \/ WriteInventory("fc", v) /\ v \in FcPorts
         \/ WriteInventory("pc", v) /\ v \in Channel
  PROVE  OwnOK /\ inputs' \in 0 .. MaxInputs
<1>1. CASE Fails /\ UNCHANGED own
  BY <1>1, FailsType DEF OwnOK, TypeOK
<1>2. CASE UNCHANGED inputs
  <2> QED
    BY <1>2 DEF WriteInventory, OwnOK, TypeOK, Fails
<1> QED
  BY <1>1, <1>2 DEF WriteInventory

\* A handler of a message may change it, or be done with it.
LEMMA StepsOn ==
  ASSUME Types, NEW h \in Handlers, handler[h] # None,
         NEW r \in Message \cup {None}, handler' = [handler EXCEPT ![h] = r],
         r # None => r.arg = handler[h].arg /\ (r.op \in {"ports", "fcoe"} => handler[h].op \in {"ports", "fcoe"})
  PROVE  HandlersOK /\ ArgsOK'
<1>1. HandlersOK
  BY DEF HandlersOK, Types, TypeOK
<1>2. ASSUME NEW k \in Handlers, handler'[k] # None, handler'[k].op \in {"ports", "fcoe"}
      PROVE  handler'[k].arg \in EthRoles
  <2>1. handler \in [Handlers -> Message \cup {None}]
    BY DEF Types, TypeOK
  <2>2. CASE k = h
    BY <1>2, <2>1, <2>2 DEF Types, ArgsOK, Is
  <2>3. CASE k # h
    BY <1>2, <2>1, <2>3 DEF Types, ArgsOK, Is
  <2> QED
    BY <2>2, <2>3
<1> QED
  BY <1>1, <1>2 DEF ArgsOK, Is

LEMMA GotoType ==
  ASSUME Types, NEW h \in Handlers, handler[h] # None,
         NEW l \in {"start", "eth", "write", "writeEth", "unsync", "lock", "panic", "send"}, Goto(h, l)
  PROVE  HandlersOK /\ ArgsOK'
<1> DEFINE r == [handler[h] EXCEPT !.at = l]
<1>1. handler[h] \in Message
  BY Reading DEF Types
<1>2. r \in Message /\ r.arg = handler[h].arg /\ r.op = handler[h].op
  BY <1>1 DEF Message
<1>3. handler' = [handler EXCEPT ![h] = r]
  BY DEF Goto
<1> HIDE DEF r
<1> QED
  BY <1>2, <1>3, StepsOn

LEMMA DoneType ==
  ASSUME Types, NEW h \in Handlers, handler[h] # None, Done(h) PROVE HandlersOK /\ ArgsOK'
BY StepsOn DEF Done

\* A message that comes.
LEMMA DelegateType ==
  ASSUME Types, NEW h \in Handlers, NEW op \in Ops, NEW p \in Ports, NEW a \in Args,
         Delegate(h, op, p, a)
  PROVE  Types'
<1> DEFINE r == [op |-> op, port |-> p, arg |-> a, eth |-> Default.eth, fc |-> NoFc,
                 at |-> IF op = "pc" THEN "lock" ELSE "start"]
<1>t. TypeOK /\ ArgsOK /\ handler \in [Handlers -> Message \cup {None}]
  BY DEF Types, TypeOK
<1>1. r \in Message /\ (r.op \in {"ports", "fcoe"} => r.arg \in EthRoles)
  <2>1. op \in {"ports", "fcoe"} => a \in EthRoles
    BY DEF Delegate, ArgsOf, EthRoles
  <2> QED
    BY <2>1, Defaults DEF Message
<1>2. HandlersOK /\ ArgsOK'
  <2>1. handler' = [handler EXCEPT ![h] = r]
    BY DEF Delegate
  <2> HIDE DEF r
  <2>2. HandlersOK
    BY <1>t, <1>1, <2>1 DEF HandlersOK
  <2>3. ASSUME NEW k \in Handlers, handler'[k] # None, handler'[k].op \in {"ports", "fcoe"}
        PROVE  handler'[k].arg \in EthRoles
    BY <1>t, <1>1, <2>1, <2>3 DEF ArgsOK, Is
  <2> QED
    BY <2>2, <2>3 DEF ArgsOK, Is
<1>3. inputs' \in 0 .. MaxInputs
  BY <1>t, NetworkAgentAssumption DEF Delegate, TypeOK
<1>4. torn' \in BOOLEAN
  <2>1. torn' = (torn \/ \E k \in Handlers : handler[k] # None /\ "unified" \in {op, handler[k].op})
    BY Zenon DEF Delegate
  <2> QED
    BY <2>1
<1>5. UNCHANGED <<own, cloud, jobVars, serverVars>>
  BY Zenon DEF Delegate
<1> QED
  BY <1>t, <1>2, <1>3, <1>4, <1>5 DEF Types, TypeOK, HandlersOK, jobVars, serverVars

\* Steps of configurePorts.
LEMMA PortsType ==
  ASSUME Types, NEW h \in Handlers, ReadPorts(h) \/ WritePorts(h) \/ UnsyncPorts(h)
  PROVE  Types'
<1> DEFINE m == handler[h]
<1>0. /\ m \in Message /\ m # None
      /\ m.port \in Ports /\ m.eth \in EthPorts /\ m.op \in {"ports", "fcoe"} /\ m.arg \in EthRoles
  BY Reading DEF At, ReadPorts, WritePorts, UnsyncPorts, Types, ArgsOK, Is
<1>t. TypeOK /\ ArgsOK /\ handler \in [Handlers -> Message \cup {None}]
  BY DEF Types, TypeOK
<1> USE DEF jobVars, serverVars, countVars
<1>1. CASE ReadPorts(h)
  <2> DEFINE e == IF m.arg = "off" THEN Eth ELSE [Eth EXCEPT ![m.port] = m.arg]
  <2>1. e \in EthPorts
    BY <1>0, <1>t, InventoryTypes DEF EthPorts
  <2>2. [m EXCEPT !.at = "write", !.eth = e] \in Message
    BY <1>0, <2>1 DEF Message
  <2>3. \/ handler' = [handler EXCEPT ![h] = [m EXCEPT !.at = "write", !.eth = e]]
        \/ handler' = [handler EXCEPT ![h] = None]
    BY <1>1, <1>0 DEF ReadPorts, Done, Eth
  <2>4. HandlersOK /\ ArgsOK'
    <3>1. CASE handler' = [handler EXCEPT ![h] = [m EXCEPT !.at = "write", !.eth = e]]
      BY <1>0, <1>t, <2>2, <3>1, StepsOn DEF Message
    <3>2. CASE handler' = [handler EXCEPT ![h] = None]
      BY <1>0, <1>t, <3>2, StepsOn
    <3> QED
      BY <2>3, <3>1, <3>2
  <2>5. inputs' \in 0 .. MaxInputs
    BY <1>1, <1>t, FailsType DEF ReadPorts, TypeOK
  <2>6. events' \subseteq Ports \X {"prepare", "send"}
    BY <1>1, <1>0, <1>t DEF ReadPorts, TypeOK
  <2>7. UNCHANGED <<own, cloud, jobVars, known, online, told, before, torn>>
    BY <1>1, Zenon DEF ReadPorts
  <2> QED
    BY <1>t, <2>4, <2>5, <2>6, <2>7 DEF Types, TypeOK, HandlersOK
<1>2. CASE WritePorts(h)
  <2> DEFINE r == [m EXCEPT !.at = "unsync", !.op = IF inputs' # inputs THEN "ports" ELSE m.op]
  <2>1. r \in Message /\ r.arg = m.arg
    BY <1>0 DEF Message, Ops
  <2>2. handler' = [handler EXCEPT ![h] = r]
    BY <1>2 DEF WritePorts
  <2> HIDE DEF r
  <2>3. HandlersOK /\ ArgsOK'
    BY <1>0, <2>1, <2>2, StepsOn
  <2>4. OwnOK /\ inputs' \in 0 .. MaxInputs
    BY <1>2, <1>0, <1>t, WriteType DEF WritePorts
  <2>5. UNCHANGED <<cloud, jobVars, serverVars, torn>>
    BY <1>2, Zenon DEF WritePorts
  <2> QED
    BY <1>t, <2>3, <2>4, <2>5 DEF Types, TypeOK, HandlersOK, OwnOK
<1>3. CASE UnsyncPorts(h)
  <2>1. HandlersOK /\ ArgsOK'
    BY <1>3, <1>0, GotoType, DoneType DEF UnsyncPorts
  <2>2. UNCHANGED <<own, cloud, order, asking, dead, serverVars, countVars>> /\ sync' \subseteq sync
    BY <1>3 DEF UnsyncPorts
  <2> QED
    BY <1>t, <2>1, <2>2 DEF Types, TypeOK, HandlersOK
<1> QED
  BY <1>1, <1>2, <1>3

\* Steps of configureFcUplinks.
LEMMA FcType ==
  ASSUME Types, NEW h \in Handlers, ReadFcPorts(h) \/ WriteFcPorts(h) \/ UnsyncFcPorts(h)
  PROVE  Types'
<1> DEFINE m == handler[h]
<1>0. /\ m \in Message /\ m # None
      /\ m.fc \in FcPorts /\ m.op \in {"fc", "fcpc"}
  BY Reading DEF At, ReadFcPorts, WriteFcPorts, UnsyncFcPorts, Types
<1>t. TypeOK /\ ArgsOK /\ handler \in [Handlers -> Message \cup {None}]
  BY DEF Types, TypeOK
<1> USE DEF jobVars, serverVars, countVars
<1>1. CASE ReadFcPorts(h)
  <2> DEFINE e == [p \in Ports |-> IF p = m.port /\ Fc[p] # None THEN "up" ELSE Fc[p]]
             r == [m EXCEPT !.at = "write", !.fc = e]
  <2>1. e \in FcPorts
    BY <1>t, InventoryTypes DEF FcPorts, FcRoles
  <2>2. r \in Message /\ r.arg = m.arg /\ r.op = m.op
    BY <1>0, <2>1 DEF Message
  <2>3. handler' = [handler EXCEPT ![h] = r] \/ Done(h)
    BY <1>1, <1>0 DEF ReadFcPorts, Fc
  <2> HIDE DEF r
  <2>4. HandlersOK /\ ArgsOK'
    BY <1>0, <2>2, <2>3, StepsOn, DoneType
  <2>5. inputs' \in 0 .. MaxInputs
    BY <1>1, <1>t, FailsType DEF ReadFcPorts, TypeOK
  <2>6. UNCHANGED <<own, cloud, jobVars, serverVars, torn>>
    BY <1>1, Zenon DEF ReadFcPorts
  <2> QED
    BY <1>t, <2>4, <2>5, <2>6 DEF Types, TypeOK, HandlersOK
<1>2. CASE WriteFcPorts(h)
  <2> DEFINE r == [m EXCEPT !.at = "unsync", !.op = IF inputs' # inputs THEN "fc" ELSE m.op]
  <2>1. r \in Message /\ r.arg = m.arg /\ r.op \in {"fc", "fcpc"}
    BY <1>0 DEF Message, Ops
  <2>2. handler' = [handler EXCEPT ![h] = r]
    BY <1>2 DEF WriteFcPorts
  <2> HIDE DEF r
  <2>3. HandlersOK /\ ArgsOK'
    BY <1>0, <2>1, <2>2, StepsOn
  <2>4. OwnOK /\ inputs' \in 0 .. MaxInputs
    BY <1>2, <1>0, <1>t, WriteType DEF WriteFcPorts
  <2>5. UNCHANGED <<cloud, jobVars, serverVars, torn>>
    BY <1>2, Zenon DEF WriteFcPorts
  <2> QED
    BY <1>t, <2>3, <2>4, <2>5 DEF Types, TypeOK, HandlersOK, OwnOK
<1>3. CASE UnsyncFcPorts(h)
  <2>1. HandlersOK /\ ArgsOK'
    BY <1>3, <1>0, GotoType, DoneType DEF UnsyncFcPorts
  <2>2. UNCHANGED <<own, cloud, order, asking, dead, serverVars, countVars>> /\ sync' \subseteq sync
    BY <1>3 DEF UnsyncFcPorts
  <2> QED
    BY <1>t, <2>1, <2>2 DEF Types, TypeOK, HandlersOK
<1> QED
  BY <1>1, <1>2, <1>3

\* The process ends, and comes back with nothing in its memory.
LEMMA CrashType == ASSUME Types, Crash, inputs' \in 0 .. MaxInputs PROVE Types'
<1>t. TypeOK /\ ArgsOK
  BY DEF Types
<1>1. handler' = [k \in Handlers |-> None]
  BY Zenon DEF Crash
<1>2. sync' = {} /\ order' = <<>> /\ asking' = None /\ dead' = {}
  BY Zenon DEF Crash
<1>3. /\ events' = {} /\ known' = {} /\ online' = FALSE
      /\ told' = {} /\ before' = before \cup told
  BY Zenon DEF Crash
<1>4. torn' \in BOOLEAN
  <2>1. torn' = (torn \/ \E k \in Handlers : At(k, {"unified"}, "writeEth"))
    BY Zenon DEF Crash
  <2> QED
    BY <2>1
<1>5. UNCHANGED <<own, cloud>>
  BY Zenon DEF Crash
<1>6. order' \in Seq(Jobs) /\ handler' \in [Handlers -> Message \cup {None}]
  BY <1>1, <1>2
<1>7. TypeOK'
  BY <1>t, <1>2, <1>3, <1>4, <1>5, <1>6 DEF TypeOK
<1>8. ArgsOK'
  BY <1>1 DEF ArgsOK, Is
<1> QED
  BY <1>7, <1>8 DEF Types

\* Steps of configurePortChannel, and those that answer about servers.
LEMMA OthersType ==
  ASSUME Types, NEW h \in Handlers,
         ConfigurePortChannel(h) \/ ConfigRackPort(h) \/ CheckMux(h) \/ SendMuxOnline(h)
           \/ EnableBladeServerDCs(h)
  PROVE  Types'
<1> DEFINE m == handler[h]
<1>0. m \in Message /\ m # None /\ m.port \in Ports
  BY Reading DEF At, ConfigurePortChannel, ConfigRackPort, CheckMux, SendMuxOnline,
       EnableBladeServerDCs, Types
<1>t. TypeOK /\ ArgsOK /\ handler \in [Handlers -> Message \cup {None}]
  BY DEF Types, TypeOK
<1>d. Done(h) \/ Goto(h, "send") => HandlersOK /\ ArgsOK'
  BY <1>0, GotoType, DoneType
<1> USE DEF jobVars, serverVars, countVars
<1>1. CASE ConfigurePortChannel(h)
  <2>1. HandlersOK /\ ArgsOK'
    BY <1>1, <1>d DEF ConfigurePortChannel
  <2>2. OwnOK /\ inputs' \in 0 .. MaxInputs
    <3>1. CASE WriteInventory("pc", IF GetInventory("pc") = "none" THEN createPortChannel ELSE "member")
      BY <1>t, <3>1, WriteType DEF Channel, createPortChannel
    <3>2. CASE Fails /\ UNCHANGED own
      BY <1>t, <3>2, FailsType DEF OwnOK, TypeOK
    <3> QED
      BY <1>1, <3>1, <3>2 DEF ConfigurePortChannel
  <2>3. UNCHANGED <<cloud, order, asking, dead, serverVars, torn>> /\ sync' \subseteq sync
    BY <1>1 DEF ConfigurePortChannel
  <2> QED
    BY <1>t, <2>1, <2>2, <2>3 DEF Types, TypeOK, HandlersOK, OwnOK
<1>2. CASE ConfigRackPort(h)
  <2>1. CASE Crash /\ UNCHANGED inputs
    BY <1>t, <2>1, CrashType DEF TypeOK
  <2>2. CASE Done(h) /\ UNCHANGED <<own, cloud, jobVars, serverVars, countVars>>
    BY <1>t, <1>0, <1>d, <2>2 DEF Types, TypeOK, HandlersOK
  <2> QED
    BY <1>2, <2>1, <2>2, Zenon DEF ConfigRackPort
<1>3. CASE CheckMux(h)
  <2>1. HandlersOK /\ ArgsOK' /\ known' \subseteq known \cup {"chassis"}
    BY <1>3, <1>0, <1>d DEF CheckMux
  <2>2. UNCHANGED <<own, cloud, jobVars, events, online, told, before, countVars>>
    BY <1>3, Zenon DEF CheckMux
  <2> QED
    BY <1>t, <2>1, <2>2 DEF Types, TypeOK, HandlersOK
<1>4. CASE SendMuxOnline(h)
  <2>1. /\ HandlersOK /\ ArgsOK' /\ online' = TRUE
        /\ told' = told \cup {"chassis"} /\ before' = before \ {"chassis"}
    BY <1>4, <1>0, <1>d DEF SendMuxOnline
  <2>2. UNCHANGED <<own, cloud, jobVars, events, known, countVars>>
    BY <1>4, Zenon DEF SendMuxOnline
  <2> QED
    BY <1>t, <2>1, <2>2 DEF Types, TypeOK, HandlersOK
<1>5. CASE EnableBladeServerDCs(h)
  <2>1. HandlersOK /\ ArgsOK'
    BY <1>5, <1>0, <1>d DEF EnableBladeServerDCs
  <2>2. UNCHANGED <<own, cloud, jobVars, serverVars, countVars>>
    BY <1>5, Zenon DEF EnableBladeServerDCs
  <2> QED
    BY <1>t, <2>1, <2>2 DEF Types, TypeOK, HandlersOK
<1> QED
  BY <1>1, <1>2, <1>3, <1>4, <1>5

\* Steps of configureUnifiedports.
LEMMA UnifiedType ==
  ASSUME Types, NEW h \in Handlers,
         ReadUnified(h) \/ MovePort(h) \/ WriteUnified(h) \/ UnsyncUnified(h)
  PROVE  Types'
<1> DEFINE m == handler[h]
<1>0. /\ m \in Message /\ m # None /\ m.op = "unified"
      /\ m.port \in Ports /\ m.eth \in EthPorts /\ m.fc \in FcPorts
  BY Reading DEF At, ReadUnified, MovePort, WriteUnified, UnsyncUnified, Types
<1>t. TypeOK /\ ArgsOK /\ handler \in [Handlers -> Message \cup {None}]
  BY DEF Types, TypeOK
<1> USE DEF jobVars, serverVars, countVars
<1>1. CASE ReadUnified(h)
  <2> DEFINE r == [m EXCEPT !.at = "eth", !.fc = Fc]
  <2>1. r \in Message /\ r.arg = m.arg /\ r.op = m.op
    BY <1>0, <1>t, InventoryTypes DEF Message
  <2>2. handler' = [handler EXCEPT ![h] = r] \/ Goto(h, "eth")
    BY <1>1 DEF ReadUnified, Fc
  <2> HIDE DEF r
  <2>3. HandlersOK /\ ArgsOK'
    BY <1>0, <2>1, <2>2, StepsOn, GotoType
  <2>4. inputs' \in 0 .. MaxInputs /\ torn' \in BOOLEAN
    BY <1>1, <1>t, FailsType DEF ReadUnified, TypeOK
  <2>5. UNCHANGED <<own, cloud, jobVars, serverVars>>
    BY <1>1, Zenon DEF ReadUnified
  <2> QED
    BY <1>t, <2>3, <2>4, <2>5 DEF Types, TypeOK, HandlersOK
<1>2. CASE MovePort(h)
  <2> DEFINE e == [Eth EXCEPT ![m.port] = IF m.arg = "deleted" THEN createetherPort ELSE None]
             c == [m.fc EXCEPT ![m.port] = 
                    IF m.arg # "deleted" THEN createFcPort(m.arg)
                    ELSE IF Eth[m.port] = None THEN None ELSE m.fc[m.port]]
             r == [m EXCEPT !.at = "write", !.eth = e, !.fc = c]
  <2>1. e \in EthPorts
    BY <1>0, <1>t, InventoryTypes DEF EthPorts, EthRoles, createetherPort
  <2>2. c \in FcPorts
    <3>1. (IF m.arg # "deleted" THEN createFcPort(m.arg)
           ELSE IF Eth[m.port] = None THEN None ELSE m.fc[m.port]) \in FcRoles \cup {None}
      BY <1>0 DEF FcPorts, FcRoles, createFcPort
    <3> QED
      BY <1>0, <3>1 DEF FcPorts
  <2>3. handler' = [handler EXCEPT ![h] = r] \/ Done(h)
    BY <1>2 DEF MovePort, Eth
  <2> HIDE DEF e, c
  <2>4. r \in Message /\ r.arg = m.arg /\ r.op = m.op
    BY <1>0, <2>1, <2>2 DEF Message
  <2> HIDE DEF r
  <2>5. HandlersOK /\ ArgsOK'
    BY <1>0, <2>3, <2>4, StepsOn, DoneType
  <2>6. inputs' \in 0 .. MaxInputs
    BY <1>2, <1>t, FailsType DEF MovePort, TypeOK
  <2>7. UNCHANGED <<own, cloud, jobVars, serverVars, torn>>
    BY <1>2, Zenon DEF MovePort
  <2> QED
    BY <1>t, <2>5, <2>6, <2>7 DEF Types, TypeOK, HandlersOK
<1>3. CASE WriteUnified(h)
  <2>1. HandlersOK /\ ArgsOK'
    BY <1>3, <1>0, GotoType DEF WriteUnified
  <2>2. OwnOK /\ inputs' \in 0 .. MaxInputs
    BY <1>3, <1>0, <1>t, WriteType DEF WriteUnified
  <2>3. torn' \in BOOLEAN
    <3>1. torn' = (torn \/ inputs' # inputs)
      BY <1>3, Zenon DEF WriteUnified
    <3> QED
      BY <3>1
  <2>4. UNCHANGED <<cloud, jobVars, serverVars>>
    BY <1>3, Zenon DEF WriteUnified
  <2> QED
    BY <1>t, <2>1, <2>2, <2>3, <2>4 DEF Types, TypeOK, HandlersOK, OwnOK
<1>4. CASE UnsyncUnified(h)
  <2>1. HandlersOK /\ ArgsOK'
    BY <1>4, <1>0, DoneType DEF UnsyncUnified
  <2>2. UNCHANGED <<own, cloud, order, asking, dead, serverVars, countVars>> /\ sync' \subseteq sync
    BY <1>4 DEF UnsyncUnified
  <2> QED
    BY <1>t, <2>1, <2>2 DEF Types, TypeOK, HandlersOK
<1> QED
  BY <1>1, <1>2, <1>3, <1>4

\* Steps of the cloud's jobs.
LEMMA JobsType ==
  ASSUME Types, NEW j \in Jobs, Waits(j) \/ GetValue(j) \/ MarkSent(j) \/ Answer(j)
  PROVE  Types'
<1>t. TypeOK /\ ArgsOK
  BY DEF Types
<1> USE DEF serverVars, countVars
<1>o. Order(j) \in Seq(Jobs)
  BY <1>t DEF TypeOK, Order
<1>1. CASE Waits(j)
  BY <1>1, <1>t, <1>o DEF Waits, Types, TypeOK, ArgsOK, Is
<1>2. CASE GetValue(j)
  <2>1. GetInventory(j) \in CopiesOf[j]
    BY <1>t, InventoryTypes, NetworkAgentAssumption DEF CopiesOf, Eth, Fc
  <2>2. inputs' \in 0 .. MaxInputs
    BY <1>2, <1>t, FailsType DEF GetValue, TypeOK
  <2>3. asking' = asking \/ asking' = [job |-> j, copy |-> GetInventory(j), marked |-> FALSE]
    BY <1>2 DEF GetValue
  <2>4. asking' # None =>
          /\ asking'.job \in Jobs
          /\ asking' \in [job : Jobs, copy : CopiesOf[asking'.job], marked : BOOLEAN]
    <3>1. CASE asking' = asking
      BY <1>t, <3>1 DEF TypeOK
    <3>2. CASE asking' = [job |-> j, copy |-> GetInventory(j), marked |-> FALSE]
      BY <2>1, <3>2
    <3> QED
      BY <2>3, <3>1, <3>2
  <2>5. UNCHANGED <<own, cloud, handler, sync, dead, serverVars, torn>> /\ order' = Order(j)
    BY <1>2 DEF GetValue
  <2> QED
    BY <1>t, <1>o, <2>2, <2>4, <2>5 DEF Types, TypeOK, ArgsOK, Is
<1>3. CASE Answer(j)
  <2>1. asking.copy \in CopiesOf[j]
    BY <1>3, <1>t DEF Answer, TypeOK
  <2>2. DOMAIN cloud' = Jobs /\ \A i \in Jobs : cloud'[i] \in CopiesOf[i] \cup {None}
    BY <1>3, <1>t, <2>1 DEF Answer, TypeOK
  <2>3. UNCHANGED <<own, handler, sync, order, dead, serverVars, torn>> /\ asking' = None
    BY <1>3 DEF Answer
  <2>4. inputs' \in 0 .. MaxInputs
    BY <1>3, <1>t, FailsType DEF Answer, TypeOK
  <2> QED
    BY <1>t, <2>2, <2>3, <2>4 DEF Types, TypeOK, ArgsOK, Is
<1>4. CASE MarkSent(j)
  <2>1. asking # None /\ asking' = [asking EXCEPT !.marked = TRUE]
    BY <1>4 DEF MarkSent
  <2>2. /\ asking.job \in Jobs
        /\ asking \in [job : Jobs, copy : CopiesOf[asking.job], marked : BOOLEAN]
    BY <1>t, <2>1 DEF TypeOK
  <2>3. asking'.job = asking.job
    BY <2>1, <2>2
  <2>4. asking' \in [job : Jobs, copy : CopiesOf[asking.job], marked : BOOLEAN]
    BY <2>1, <2>2
  <2>5. UNCHANGED <<own, cloud, handler, order, dead, serverVars, countVars>> /\ sync' = sync \cup {j}
    BY <1>4 DEF MarkSent
  <2> QED
    BY <1>t, <2>2, <2>3, <2>4, <2>5 DEF Types, TypeOK, ArgsOK, Is
<1> QED
  BY <1>1, <1>2, <1>3, <1>4

\* Steps of events, the end of a session and that of the process.
LEMMA EventsType ==
  ASSUME Types,
         \/ \E p \in Ports : PrepareEvents(p) \/ SendEvent(p)
         \/ SessionEnds \/ ResetTimer \/ ResetInventoryStatusMaps \/ ProcessEnds
         \/ \E h \in Handlers : ConfigureFcPc(h)
  PROVE  Types'
<1>t. TypeOK /\ ArgsOK
  BY DEF Types
<1> USE DEF jobVars, serverVars, countVars, Types, ArgsOK, Is
<1>1. ASSUME NEW p \in Ports, PrepareEvents(p) PROVE Types'
  BY <1>1, <1>t DEF PrepareEvents, TypeOK
<1>2. ASSUME NEW p \in Ports, SendEvent(p) PROVE Types'
  BY <1>2, <1>t DEF SendEvent, TypeOK
<1>3. CASE ResetTimer
  BY <1>3, <1>t DEF ResetTimer, TypeOK
<1>4. CASE ResetInventoryStatusMaps
  <2>1. inputs' \in 0 .. MaxInputs
    BY <1>4, <1>t, NetworkAgentAssumption DEF ResetInventoryStatusMaps, TypeOK
  <2>2. /\ sync' \subseteq Jobs /\ DOMAIN cloud' = Jobs
      /\ \A j \in Jobs : cloud'[j] \in CopiesOf[j] \cup {None}
    BY <1>4 DEF ResetInventoryStatusMaps
  <2>3. UNCHANGED <<own, handler, order, asking, dead, serverVars, torn>>
    BY <1>4, Zenon DEF ResetInventoryStatusMaps
  <2> QED
    BY <1>t, <2>1, <2>2, <2>3 DEF TypeOK
<1>5. ASSUME NEW h \in Handlers, ConfigureFcPc(h) PROVE Types'
  <2>1. CASE Crash /\ UNCHANGED inputs
    BY <1>t, <2>1, CrashType DEF TypeOK
  <2>2. CASE Fails /\ Done(h) /\ UNCHANGED <<own, cloud, jobVars, serverVars, torn>>
    <3>1. HandlersOK /\ ArgsOK'
      BY <1>5, <2>2, DoneType DEF ConfigureFcPc, At
    <3> QED
      BY <1>t, <2>2, <3>1, FailsType DEF TypeOK, HandlersOK
  <2> QED
    BY <1>5, <2>1, <2>2, Zenon DEF ConfigureFcPc
<1>6. CASE SessionEnds
  <2>1. inputs' \in 0 .. MaxInputs /\ dead' \subseteq Jobs
    BY <1>6, <1>t, FailsType DEF SessionEnds
  <2>2. UNCHANGED <<own, cloud, handler, sync, order, asking, serverVars, torn>>
    BY <1>6, Zenon DEF SessionEnds
  <2> QED
    BY <1>t, <2>1, <2>2 DEF TypeOK
<1>7. CASE ProcessEnds
  BY <1>t, <1>7, CrashType, Zenon DEF ProcessEnds, TypeOK
<1> QED
  BY <1>1, <1>2, <1>3, <1>4, <1>5, <1>6, <1>7

LEMMA TypesStep == Types /\ [Next]_vars => Types'
<1> SUFFICES ASSUME Types, [Next]_vars PROVE Types'
  OBVIOUS
<1>1. CASE UNCHANGED vars
  BY <1>1 DEF vars, jobVars, serverVars, countVars, Types, TypeOK, ArgsOK, Is
<1>2. CASE Next
  BY <1>2, DelegateType, PortsType, FcType, OthersType, UnifiedType, JobsType, EventsType DEF Next
<1> QED
  BY <1>1, <1>2

-----------------------------------------------------------------------------
LEMMA OwnUnchanged == UNCHANGED own => UNCHANGED <<Eth, Fc>>
BY DEF Eth, Fc, GetInventory

LEMMA AgreesStill ==
  ASSUME NEW m, NEW eth, NEW fc, NEW eth2, NEW fc2, Agrees(m, eth, fc), Same(eth2, eth), Same(fc2, fc)
  PROVE  Agrees(m, eth2, fc2)
BY DEF Agrees, Same, Split

\* A handler goes on, and the inventories keep their ports.
LEMMA GoesOn ==
  ASSUME Types, PortInv, ~torn, NEW h \in Handlers, handler[h] # None,
         NEW r, handler' = [handler EXCEPT ![h] = r],
         r # None => (r.op = "unified" <=> handler[h].op = "unified") /\ Agrees(r, Eth', Fc'),
         handler[h].at # "writeEth", r # None => r.at # "writeEth",
         Same(Eth', Eth), Same(Fc', Fc)
  PROVE  PortInv'
<1>t. handler \in [Handlers -> Message \cup {None}]
  BY DEF Types, TypeOK
<1>1. /\ handler'[h] = r
      /\ \A k \in Handlers : k # h => handler'[k] = handler[k]
  BY <1>t
<1>2. Alone /\ CopiesAgree /\ (~Moving => Split(Eth, Fc))
  BY DEF PortInv
<1>3. Alone'
  BY <1>1, <1>2 DEF Alone, Is
<1>4. CopiesAgree'
  <2> SUFFICES ASSUME NEW k \in Handlers, handler'[k] # None
               PROVE  Agrees(handler'[k], Eth', Fc')
    BY DEF CopiesAgree
  <2>1. CASE k = h
    BY <1>1, <2>1
  <2>2. CASE k # h
    BY <1>1, <1>2, <2>2, AgreesStill DEF CopiesAgree
  <2> QED
    BY <2>1, <2>2
<1>5. Moving => Moving'
  BY <1>1 DEF Moving, At
<1>6. ~Moving' => Split(Eth', Fc')
  BY <1>2, <1>5 DEF Split, Same
<1> QED
  BY <1>3, <1>4, <1>6 DEF PortInv

\* The same, without a change of the inventories.
LEMMA GoesOnAlone ==
  ASSUME Types, PortInv, ~torn, NEW h \in Handlers, handler[h] # None, UNCHANGED own,
         NEW r, handler' = [handler EXCEPT ![h] = r],
         r # None => (r.op = "unified" <=> handler[h].op = "unified") /\ Agrees(r, Eth, Fc),
         handler[h].at # "writeEth", r # None => r.at # "writeEth"
  PROVE  PortInv'
<1>1. Eth' = Eth /\ Fc' = Fc
  BY OwnUnchanged
<1>2. Same(Eth', Eth) /\ Same(Fc', Fc)
  BY <1>1 DEF Same
<1> QED
  BY <1>1, <1>2, GoesOn

\* Nothing that matters here changes.
LEMMA NothingMoves == ASSUME PortInv, UNCHANGED <<own, handler, torn>> PROVE PortInv'
<1>1. Eth' = Eth /\ Fc' = Fc
  BY OwnUnchanged
<1> QED
  BY <1>1 DEF PortInv, Alone, CopiesAgree, Moving, Is, At

LEMMA DonePorts ==
  ASSUME Types, PortInv, ~torn, NEW h \in Handlers, handler[h] # None, UNCHANGED own, Done(h),
         handler[h].at # "writeEth"
  PROVE  PortInv'
BY GoesOnAlone DEF Done

LEMMA GotoPorts ==
  ASSUME Types, PortInv, ~torn, NEW h \in Handlers, handler[h] # None, UNCHANGED own,
         NEW l \in {"send", "lock", "unsync", "panic"}, Goto(h, l), handler[h].at # "writeEth"
  PROVE  PortInv'
<1> DEFINE r == [handler[h] EXCEPT !.at = l]
<1>1. handler[h] \in Message
  BY Reading DEF Types
<1>2. r.op = handler[h].op /\ r.at = l /\ handler' = [handler EXCEPT ![h] = r]
  BY <1>1 DEF Message, Goto
<1> HIDE DEF r
<1>3. Agrees(r, Eth, Fc)
  BY <1>2 DEF Agrees
<1> QED
  BY <1>2, <1>3, GoesOnAlone

LEMMA Written ==
  ASSUME TypeOK, NEW v
  PROVE  /\ v \in EthPorts /\ own' = [own EXCEPT !["eth"] = v] => Eth' = v /\ Fc' = Fc
         /\ v \in FcPorts /\ own' = [own EXCEPT !["fc"] = v] => Eth' = Eth /\ Fc' = v
         /\ own' = [own EXCEPT !["pc"] = v] => Eth' = Eth /\ Fc' = Fc
<1>1. own \in [eth : EthPorts \cup {None}, fc : FcPorts \cup {None}, pc : Channel \cup {None}]
  BY DEF TypeOK
<1>2. None \notin EthPorts /\ None \notin FcPorts
  BY NoneAssumption
<1> QED
  BY <1>1, <1>2 DEF Eth, Fc, GetInventory

\* A write, of which the request may fail.
LEMMA Writing ==
  ASSUME NEW i, NEW v, WriteInventory(i, v)
  PROVE  own' = [own EXCEPT ![i] = v] \/ own' = own
BY DEF WriteInventory

\* configurePorts and configureFcUplinks keep every port where it is.
LEMMA PortsPorts ==
  ASSUME Types, PortInv, NEW h \in Handlers, ReadPorts(h) \/ WritePorts(h) \/ UnsyncPorts(h)
  PROVE  PortInv'
<1> DEFINE m == handler[h]
<1>0. /\ m \in Message /\ m # None /\ m.at # "writeEth"
      /\ m.port \in Ports /\ m.eth \in EthPorts /\ m.op \in {"ports", "fcoe"} /\ m.arg \in EthRoles
  BY Reading DEF At, ReadPorts, WritePorts, UnsyncPorts, Types, ArgsOK, Is
<1>t. TypeOK /\ Eth \in EthPorts
  BY InventoryTypes DEF Types
<1>u. torn' = torn
  BY DEF ReadPorts, WritePorts, UnsyncPorts, countVars
<1> SUFFICES ASSUME ~torn PROVE PortInv'
  BY <1>u DEF PortInv
<1>1. CASE ReadPorts(h)
  <2> DEFINE e == IF m.arg = "off" THEN Eth ELSE [Eth EXCEPT ![m.port] = m.arg]
             r == [m EXCEPT !.at = "write", !.eth = e]
  <2>1. own' = own
    BY <1>1 DEF ReadPorts
  <2>2. CASE Eth[m.port] # None /\ handler' = [handler EXCEPT ![h] = r]
    <3>1. Same(e, Eth)
      <4>1. m.arg # None
        BY <1>0, NoneAssumption
      <4> QED
        BY <4>1, <1>0, <1>t, <2>2 DEF Same, EthPorts
    <3> HIDE DEF e
    <3>2. r.op = m.op /\ r.at = "write" /\ r.eth = e
      BY <1>0 DEF Message
    <3> HIDE DEF r
    <3>3. Agrees(r, Eth, Fc)
      BY <1>0, <3>1, <3>2 DEF Agrees
    <3> QED
      BY <1>0, <2>1, <2>2, <3>2, <3>3, GoesOnAlone
  <2>3. CASE Done(h)
    BY <1>0, <2>1, <2>3, DonePorts
  <2> QED
    BY <1>1, <1>0, <2>2, <2>3 DEF ReadPorts, Eth
<1>2. CASE WritePorts(h)
  <2> DEFINE r == [m EXCEPT !.at = "unsync", !.op = IF inputs' # inputs THEN "ports" ELSE m.op]
  <2>1. handler' = [handler EXCEPT ![h] = r]
    BY <1>2 DEF WritePorts
  <2>2. r.op \in {"ports", "fcoe"} /\ r.at = "unsync"
    BY <1>0 DEF Message
  <2> HIDE DEF r
  <2>3. Agrees(r, Eth', Fc')
    BY <2>2 DEF Agrees
  <2>4. Same(m.eth, Eth)
    BY <1>2, <1>0 DEF PortInv, CopiesAgree, Agrees, WritePorts, At
  <2>5. Same(Eth', Eth) /\ Same(Fc', Fc)
    <3>1. own' = [own EXCEPT !["eth"] = m.eth] \/ own' = own
      BY <1>2, Writing DEF WritePorts
    <3>2. (Eth' = m.eth \/ Eth' = Eth) /\ Fc' = Fc
      BY <3>1, <1>0, <1>t, Written, OwnUnchanged
    <3> QED
      BY <2>4, <3>2 DEF Same
  <2> QED
    BY <1>0, <2>1, <2>2, <2>3, <2>5, GoesOn
<1>3. CASE UnsyncPorts(h)
  BY <1>3, <1>0, DonePorts, GotoPorts DEF UnsyncPorts
<1> QED
  BY <1>1, <1>2, <1>3

LEMMA FcPortsPorts ==
  ASSUME Types, PortInv, NEW h \in Handlers, ReadFcPorts(h) \/ WriteFcPorts(h) \/ UnsyncFcPorts(h)
  PROVE  PortInv'
<1> DEFINE m == handler[h]
<1>0. /\ m \in Message /\ m # None /\ m.at # "writeEth"
      /\ m.port \in Ports /\ m.fc \in FcPorts /\ m.op \in {"fc", "fcpc"}
  BY Reading DEF At, ReadFcPorts, WriteFcPorts, UnsyncFcPorts, Types
<1>t. TypeOK /\ Fc \in FcPorts
  BY InventoryTypes DEF Types
<1>u. torn' = torn
  BY DEF ReadFcPorts, WriteFcPorts, UnsyncFcPorts, countVars
<1> SUFFICES ASSUME ~torn PROVE PortInv'
  BY <1>u DEF PortInv
<1>1. CASE ReadFcPorts(h)
  <2> DEFINE e == [p \in Ports |-> IF p = m.port /\ Fc[p] # None THEN "up" ELSE Fc[p]]
             r == [m EXCEPT !.at = "write", !.fc = e]
  <2>1. own' = own
    BY <1>1 DEF ReadFcPorts
  <2>2. CASE handler' = [handler EXCEPT ![h] = r]
    <3>1. Same(e, Fc)
      <4>1. "up" # None
        BY NoneAssumption DEF FcRoles
      <4> QED
        BY <4>1 DEF Same
    <3> HIDE DEF e
    <3>2. r.op = m.op /\ r.at = "write" /\ r.fc = e
      BY <1>0 DEF Message
    <3> HIDE DEF r
    <3>3. Agrees(r, Eth, Fc)
      BY <1>0, <3>1, <3>2 DEF Agrees
    <3> QED
      BY <1>0, <2>1, <2>2, <3>2, <3>3, GoesOnAlone
  <2>3. CASE Done(h)
    BY <1>0, <2>1, <2>3, DonePorts
  <2> QED
    BY <1>1, <1>0, <2>2, <2>3 DEF ReadFcPorts, Fc
<1>2. CASE WriteFcPorts(h)
  <2> DEFINE r == [m EXCEPT !.at = "unsync", !.op = IF inputs' # inputs THEN "fc" ELSE m.op]
  <2>1. handler' = [handler EXCEPT ![h] = r]
    BY <1>2 DEF WriteFcPorts
  <2>2. r.op \in {"fc", "fcpc"} /\ r.at = "unsync"
    BY <1>0 DEF Message
  <2> HIDE DEF r
  <2>3. Agrees(r, Eth', Fc')
    BY <2>2 DEF Agrees
  <2>4. Same(m.fc, Fc)
    BY <1>2, <1>0 DEF PortInv, CopiesAgree, Agrees, WriteFcPorts, At
  <2>5. Same(Eth', Eth) /\ Same(Fc', Fc)
    <3>1. own' = [own EXCEPT !["fc"] = m.fc] \/ own' = own
      BY <1>2, Writing DEF WriteFcPorts
    <3>2. (Fc' = m.fc \/ Fc' = Fc) /\ Eth' = Eth
      BY <3>1, <1>0, <1>t, Written, OwnUnchanged
    <3> QED
      BY <2>4, <3>2 DEF Same
  <2> QED
    BY <1>0, <2>1, <2>2, <2>3, <2>5, GoesOn
<1>3. CASE UnsyncFcPorts(h)
  BY <1>3, <1>0, DonePorts, GotoPorts DEF UnsyncFcPorts
<1> QED
  BY <1>1, <1>2, <1>3

\* The process does not come back with half a move, unless it is torn.
LEMMA CrashPorts == ASSUME PortInv, Crash PROVE PortInv'
<1>1. handler' = [k \in Handlers |-> None] /\ own' = own
  BY Zenon DEF Crash
<1>2. torn' = (torn \/ Moving)
  BY Zenon DEF Crash, Moving
<1> SUFFICES ASSUME ~torn, ~Moving PROVE PortInv'
  BY <1>2 DEF PortInv
<1>3. Eth' = Eth /\ Fc' = Fc
  BY <1>1, OwnUnchanged
<1>4. \A k \in Handlers : handler'[k] = None
  BY <1>1
<1> QED
  BY <1>3, <1>4 DEF PortInv, Alone, CopiesAgree, Moving, Is, At

\* So do the messages about the channel, FC ports that cannot be read, and servers.
LEMMA OthersPorts ==
  ASSUME Types, PortInv, NEW h \in Handlers,
         ConfigurePortChannel(h) \/ ConfigureFcPc(h) \/ ConfigRackPort(h) \/ CheckMux(h)
           \/ SendMuxOnline(h) \/ EnableBladeServerDCs(h)
  PROVE  PortInv'
<1> DEFINE m == handler[h]
<1>0. m \in Message /\ m # None /\ m.at # "writeEth" /\ m.op # "unified"
  BY Reading DEF At, ConfigurePortChannel, ConfigureFcPc, ConfigRackPort, CheckMux, SendMuxOnline,
       EnableBladeServerDCs, Types
<1>c. SUFFICES ASSUME ~Crash PROVE PortInv'
  BY CrashPorts
<1>u. torn' = torn
  BY <1>c, Zenon DEF ConfigurePortChannel, ConfigureFcPc, ConfigRackPort, CheckMux, SendMuxOnline,
       EnableBladeServerDCs, countVars
<1> SUFFICES ASSUME ~torn PROVE PortInv'
  BY <1>u DEF PortInv
<1>1. CASE ConfigurePortChannel(h)
  <2>1. own' = own \/ \E v : own' = [own EXCEPT !["pc"] = v]
    BY <1>1, Writing DEF ConfigurePortChannel
  <2>2. Eth' = Eth /\ Fc' = Fc
    BY <2>1, Written, OwnUnchanged DEF Types
  <2>3. Same(Eth', Eth) /\ Same(Fc', Fc)
    BY <2>2 DEF Same
  <2>4. handler' = [handler EXCEPT ![h] = None]
    BY <1>1 DEF ConfigurePortChannel, Done
  <2> QED
    BY <1>0, <2>3, <2>4, GoesOn
<1>2. CASE ConfigureFcPc(h) \/ ConfigRackPort(h) \/ SendMuxOnline(h) \/ EnableBladeServerDCs(h)
  <2>1. Done(h) /\ UNCHANGED own
    BY <1>2, <1>c, Zenon DEF ConfigureFcPc, ConfigRackPort, SendMuxOnline, EnableBladeServerDCs
  <2> QED
    BY <1>0, <2>1, DonePorts
<1>3. CASE CheckMux(h)
  BY <1>3, <1>0, DonePorts, GotoPorts DEF CheckMux
<1> QED
  BY <1>1, <1>2, <1>3

LEMMA FailsCounts == ASSUME TypeOK, NEW i, NEW v, WriteInventory(i, v), inputs' = inputs
                     PROVE  own' = [own EXCEPT ![i] = v]
<1>1. inputs \in Nat
  BY NetworkAgentAssumption DEF TypeOK
<1> QED
  BY <1>1 DEF WriteInventory, Fails

\* A message that moves a port is alone, so that its copies are the inventories.
LEMMA UnifiedPorts ==
  ASSUME Types, PortInv, NEW h \in Handlers,
         ReadUnified(h) \/ MovePort(h) \/ WriteUnified(h) \/ UnsyncUnified(h)
  PROVE  PortInv'
<1> DEFINE m == handler[h]
<1>0. /\ m \in Message /\ m # None /\ m.op = "unified"
      /\ m.port \in Ports /\ m.eth \in EthPorts /\ m.fc \in FcPorts
  BY Reading DEF At, ReadUnified, MovePort, WriteUnified, UnsyncUnified, Types
<1>t. TypeOK /\ Eth \in EthPorts /\ Fc \in FcPorts /\ handler \in [Handlers -> Message \cup {None}]
  BY InventoryTypes DEF Types, TypeOK
<1>u. torn => torn'
  BY DEF ReadUnified, MovePort, WriteUnified, UnsyncUnified, countVars
<1> SUFFICES ASSUME ~torn, ~torn' PROVE PortInv'
  BY <1>u DEF PortInv
<1>i. Alone /\ CopiesAgree /\ (~Moving => Split(Eth, Fc))
  BY DEF PortInv
<1>a. \A k \in Handlers : k # h => handler[k] = None
  BY <1>0, <1>i DEF Alone, Is
<1>g. Agrees(m, Eth, Fc)
  BY <1>0, <1>i DEF CopiesAgree
<1>1. CASE ReadUnified(h)
  <2> DEFINE r == [m EXCEPT !.at = "eth", !.fc = Fc]
  <2>1. own' = own /\ handler' = [handler EXCEPT ![h] = r]
    BY <1>1 DEF ReadUnified, Fc
  <2>2. r.op = "unified" /\ r.at = "eth" /\ r.fc = Fc
    BY <1>0 DEF Message
  <2>3. m.at = "start"
    BY <1>1 DEF ReadUnified, At
  <2> HIDE DEF r
  <2>4. Agrees(r, Eth, Fc)
    BY <2>2 DEF Agrees, Same
  <2> QED
    BY <1>0, <2>1, <2>2, <2>3, <2>4, GoesOnAlone
<1>2. CASE MovePort(h)
  <2> DEFINE e == [Eth EXCEPT ![m.port] = IF m.arg = "deleted" THEN createetherPort ELSE None]
             c == [m.fc EXCEPT ![m.port] =
                    IF m.arg # "deleted" THEN createFcPort(m.arg)
                    ELSE IF Eth[m.port] = None THEN None ELSE m.fc[m.port]]
             r == [m EXCEPT !.at = "write", !.eth = e, !.fc = c]
  <2>1. m.at = "eth" /\ own' = own
    BY <1>2 DEF MovePort, At
  <2>2. Split(Eth, Fc) /\ Same(m.fc, Fc)
    BY <1>0, <1>a, <1>g, <1>i, <2>1 DEF Moving, At, Agrees
  <2>3. createetherPort # None /\ createFcPort(m.arg) # None
    BY NoneAssumption DEF createetherPort, createFcPort, EthRoles, FcRoles
  <2>4. Split(e, c)
    <3> SUFFICES ASSUME NEW p \in Ports PROVE e[p] = None <=> c[p] # None
      BY DEF Split
    <3>1. CASE p # m.port
      BY <1>0, <1>t, <2>2, <3>1 DEF EthPorts, FcPorts, Split, Same
    <3>2. CASE p = m.port /\ m.arg # "deleted"
      BY <1>0, <1>t, <2>3, <3>2 DEF EthPorts, FcPorts
    <3>3. CASE p = m.port /\ m.arg = "deleted"
      <4>1. e[p] # None
        BY <1>0, <1>t, <2>3, <3>3 DEF EthPorts
      <4>2. c[p] = IF Eth[p] = None THEN None ELSE m.fc[p]
        BY <1>0, <3>3 DEF FcPorts
      <4>3. Eth[p] = None \/ m.fc[p] = None
        BY <2>2 DEF Split, Same
      <4> QED
        BY <4>1, <4>2, <4>3
    <3> QED
      BY <3>1, <3>2, <3>3
  <2>5. handler' = [handler EXCEPT ![h] = r] \/ Done(h)
    BY <1>2 DEF MovePort, Eth
  <2> HIDE DEF e, c
  <2>6. r.op = "unified" /\ r.at = "write" /\ r.eth = e /\ r.fc = c
    BY <1>0 DEF Message
  <2> HIDE DEF r
  <2>7. Agrees(r, Eth, Fc)
    BY <2>4, <2>6 DEF Agrees
  <2>8. CASE handler' = [handler EXCEPT ![h] = r]
    BY <1>0, <2>1, <2>6, <2>7, <2>8, GoesOnAlone
  <2>9. CASE Done(h)
    BY <1>0, <2>1, <2>9, DonePorts
  <2> QED
    BY <2>5, <2>8, <2>9
<1>3. CASE WriteUnified(h)
  <2>1. inputs' = inputs
    BY <1>3 DEF WriteUnified
  <2>2. \A k \in Handlers : k # h => handler'[k] = None
    BY <1>3, <1>a, <1>t DEF WriteUnified, Goto
  <2>3. handler'[h] # None => handler'[h].op = "unified" /\ handler'[h].eth = m.eth
    BY <1>3, <1>0, <1>t DEF WriteUnified, Goto, Message
  <2>4. Alone'
    BY <2>2 DEF Alone, Is
  <2>5. CASE m.at = "write"
    <3>1. Eth' = Eth /\ Fc' = m.fc
      BY <1>3, <1>0, <1>t, <2>1, <2>5, FailsCounts, Written DEF WriteUnified, At
    <3>2. handler'[h] # None /\ handler'[h].at = "writeEth"
      <4>1. handler' = [handler EXCEPT ![h] = [m EXCEPT !.at = "writeEth"]]
        BY <1>3, <2>5 DEF WriteUnified, At, Goto
      <4>2. [m EXCEPT !.at = "writeEth"] \in Message
        BY <1>0 DEF Message
      <4> QED
        BY <4>1, <4>2, <1>t, <1>0, NoneAssumption DEF Message
    <3>3. Split(m.eth, Fc')
      BY <1>0, <1>g, <2>5, <3>1 DEF Agrees
    <3>4. Agrees(handler'[h], Eth', Fc')
      BY <2>3, <3>2, <3>3 DEF Agrees
    <3>5. CopiesAgree'
      BY <2>2, <3>4 DEF CopiesAgree
    <3>6. Moving'
      BY <2>3, <3>2 DEF Moving, At
    <3> QED
      BY <2>4, <3>5, <3>6 DEF PortInv
  <2>6. CASE m.at = "writeEth"
    <3>1. Eth' = m.eth /\ Fc' = Fc
      BY <1>3, <1>0, <1>t, <2>1, <2>6, FailsCounts, Written DEF WriteUnified, At
    <3>2. Split(Eth', Fc')
      BY <1>0, <1>g, <2>6, <3>1 DEF Agrees
    <3>3. handler'[h] # None => handler'[h].at = "unsync"
      BY <1>3, <1>0, <1>t, <2>6 DEF WriteUnified, At, Goto, Message
    <3>4. CopiesAgree'
      BY <2>2, <2>3, <3>3 DEF CopiesAgree, Agrees
    <3> QED
      BY <2>4, <3>2, <3>4 DEF PortInv
  <2> QED
    BY <1>3, <2>5, <2>6 DEF WriteUnified, At
<1>4. CASE UnsyncUnified(h)
  BY <1>4, <1>0, DonePorts DEF UnsyncUnified, At
<1> QED
  BY <1>1, <1>2, <1>3, <1>4

LEMMA DelegatePorts ==
  ASSUME Types, PortInv, NEW h \in Handlers, NEW op \in Ops, NEW p \in Ports, NEW a \in Args,
         Delegate(h, op, p, a)
  PROVE  PortInv'
<1> DEFINE r == [op |-> op, port |-> p, arg |-> a, eth |-> Default.eth, fc |-> NoFc,
                 at |-> IF op = "pc" THEN "lock" ELSE "start"]
<1>1. torn' = (torn \/ \E k \in Handlers : handler[k] # None /\ "unified" \in {op, handler[k].op})
  BY Zenon DEF Delegate
<1> SUFFICES ASSUME ~torn, ~torn' PROVE PortInv'
  BY <1>1 DEF PortInv
<1>2. \A k \in Handlers : handler[k] # None => op # "unified" /\ handler[k].op # "unified"
  BY <1>1
<1>3. handler' = [handler EXCEPT ![h] = r] /\ own' = own /\ handler[h] = None
  BY Zenon DEF Delegate
<1>4. r.op = op /\ r.at \in {"start", "lock"}
  OBVIOUS
<1> HIDE DEF r
<1>5. /\ handler'[h] = r
      /\ \A k \in Handlers : k # h => handler'[k] = handler[k]
  BY <1>3 DEF Types, TypeOK
<1>6. Eth' = Eth /\ Fc' = Fc
  BY <1>3, OwnUnchanged
<1>7. Alone'
  BY <1>2, <1>4, <1>5 DEF Alone, Is
<1>8. CopiesAgree'
  <2> SUFFICES ASSUME NEW k \in Handlers, handler'[k] # None
               PROVE  Agrees(handler'[k], Eth, Fc)
    BY <1>6 DEF CopiesAgree
  <2>1. CASE k = h
    BY <1>4, <1>5, <2>1 DEF Agrees
  <2>2. CASE k # h
    BY <1>5, <2>2 DEF PortInv, CopiesAgree
  <2> QED
    BY <2>1, <2>2
<1>9. Moving => Moving'
  BY <1>3, <1>5 DEF Moving, At
<1> QED
  BY <1>6, <1>7, <1>8, <1>9 DEF PortInv

LEMMA PortsStep == Types /\ PortInv /\ [Next]_vars => PortInv'
<1> SUFFICES ASSUME Types, PortInv, [Next]_vars PROVE PortInv'
  OBVIOUS
<1>1. CASE UNCHANGED vars
  BY <1>1, NothingMoves DEF vars, countVars
<1>2. ASSUME NEW p \in Ports, PrepareEvents(p) \/ SendEvent(p) PROVE PortInv'
  BY <1>2, NothingMoves DEF PrepareEvents, SendEvent, countVars
<1>3. ASSUME NEW j \in Jobs, Waits(j) \/ GetValue(j) \/ MarkSent(j) \/ Answer(j) PROVE PortInv'
  BY <1>3, NothingMoves DEF Waits, GetValue, MarkSent, Answer, countVars
<1>4. CASE SessionEnds \/ ResetTimer \/ ResetInventoryStatusMaps
  BY <1>4, NothingMoves DEF SessionEnds, ResetTimer, ResetInventoryStatusMaps, countVars
<1>6. CASE ProcessEnds
  BY <1>6, CrashPorts DEF ProcessEnds
<1>5. CASE Next
  BY <1>2, <1>3, <1>4, <1>5, <1>6, DelegatePorts, PortsPorts, FcPortsPorts, OthersPorts, UnifiedPorts
     DEF Next
<1> QED
  BY <1>1, <1>5

-----------------------------------------------------------------------------
\* Nothing that matters to the servers changes.
LEMMA ServersSame == ASSUME ServerInv, UNCHANGED <<handler, serverVars>> PROVE ServerInv'
BY DEF serverVars, ServerInv, Announced, StartsChildren, At, Is

\* The process ends: there is nothing left to be told.
LEMMA CrashServers == ASSUME Crash PROVE ServerInv'
<1>1. \A k \in Handlers : handler'[k] = None
  BY Zenon DEF Crash
<1>2. events' = {} /\ told' = {}
  BY Zenon DEF Crash
<1> QED
  BY <1>1, <1>2 DEF ServerInv, Announced, StartsChildren, At, Is

\* A handler goes on, and every server that it comes to be about is known.
LEMMA ServersGoOn ==
  ASSUME Types, ServerInv, NEW h \in Handlers, NEW r, handler' = [handler EXCEPT ![h] = r],
         r # None => /\ r.op = "rack" => r.port \in known \cup before
                     /\ r.op = "blades" => "chassis" \in known \cup before
                     /\ r.op = "mux" /\ r.at = "send" => "chassis" \in known',
         \A p \in Ports : <<p, "send">> \in events' => <<p, "send">> \in events,
         known \subseteq known', told' \subseteq known', before \subseteq known' \cup before'
  PROVE  ServerInv'
<1>1. /\ handler'[h] = r
      /\ \A k \in Handlers : k # h => handler'[k] = handler[k]
  BY DEF Types, TypeOK
<1>2. \A k \in Handlers : handler'[k] # None /\ handler'[k].op = "mux" /\ handler'[k].at = "send"
                           => "chassis" \in known'
  BY <1>1 DEF ServerInv, Announced, At
<1>3. \A k \in Handlers : handler'[k] # None =>
        /\ handler'[k].op = "rack" => handler'[k].port \in known' \cup before'
        /\ handler'[k].op = "blades" => "chassis" \in known' \cup before'
  BY <1>1 DEF ServerInv, Announced, Is
<1>4. \A p \in Ports : <<p, "send">> \in events' => p \in known'
  BY DEF ServerInv, Announced
<1>5. StartsChildren'
  BY <1>3 DEF StartsChildren, At, Is
<1>6. Announced'
  BY <1>2, <1>3, <1>4 DEF Announced, At, Is
<1> QED
  BY <1>5, <1>6 DEF ServerInv

\* Steps of messages that are about ports leave the servers alone, but for the
\* preparation of events.
LEMMA PortsServers ==
  ASSUME Types, ServerInv, NEW h \in Handlers,
         \/ ReadPorts(h) \/ WritePorts(h) \/ UnsyncPorts(h) \/ ConfigurePortChannel(h)
         \/ ReadFcPorts(h) \/ WriteFcPorts(h) \/ UnsyncFcPorts(h)
         \/ ReadUnified(h) \/ MovePort(h) \/ WriteUnified(h) \/ UnsyncUnified(h)
  PROVE  ServerInv'
<1> DEFINE m == handler[h]
<1>0. m \in Message /\ m # None /\ m.op \notin {"rack", "mux", "blades"}
  BY Reading DEF At, ReadPorts, WritePorts, UnsyncPorts, ConfigurePortChannel, ReadFcPorts,
       WriteFcPorts, UnsyncFcPorts, ReadUnified, MovePort, WriteUnified, UnsyncUnified, Types
<1>1. \E r : handler' = [handler EXCEPT ![h] = r] /\ (r # None => r.op \notin {"rack", "mux", "blades"})
  <2>1. CASE Done(h)
    BY <2>1 DEF Done
  <2>2. ASSUME NEW l, Goto(h, l)
        PROVE  \E r : handler' = [handler EXCEPT ![h] = r] /\ (r # None => r.op \notin {"rack", "mux", "blades"})
    <3>1. [m EXCEPT !.at = l].op = m.op
      BY <1>0 DEF Message
    <3> QED
      BY <1>0, <2>2, <3>1 DEF Goto
  <2>3. CASE ReadPorts(h)
    <3>1. ASSUME NEW e, handler' = [handler EXCEPT ![h] = [m EXCEPT !.at = "write", !.eth = e]]
          PROVE  \E r : handler' = [handler EXCEPT ![h] = r] /\ (r # None => r.op \notin {"rack", "mux", "blades"})
      <4>1. [m EXCEPT !.at = "write", !.eth = e].op = m.op
        BY <1>0 DEF Message
      <4> QED
        BY <1>0, <3>1, <4>1
    <3> QED
      BY <2>1, <2>3, <3>1 DEF ReadPorts
  <2>4. CASE WritePorts(h)
    <3> DEFINE r == [m EXCEPT !.at = "unsync", !.op = IF inputs' # inputs THEN "ports" ELSE m.op]
    <3>1. handler' = [handler EXCEPT ![h] = r] /\ r.op \notin {"rack", "mux", "blades"}
      BY <2>4, <1>0 DEF WritePorts, Message
    <3> QED
      BY <3>1
  <2>5. CASE WriteFcPorts(h)
    <3> DEFINE r == [m EXCEPT !.at = "unsync", !.op = IF inputs' # inputs THEN "fc" ELSE m.op]
    <3>1. handler' = [handler EXCEPT ![h] = r] /\ r.op \notin {"rack", "mux", "blades"}
      BY <2>5, <1>0 DEF WriteFcPorts, Message
    <3> QED
      BY <3>1
  <2>6. CASE ReadFcPorts(h) \/ ReadUnified(h)
    <3>1. ASSUME NEW l, NEW c, handler' = [handler EXCEPT ![h] = [m EXCEPT !.at = l, !.fc = c]]
          PROVE  \E r : handler' = [handler EXCEPT ![h] = r] /\ (r # None => r.op \notin {"rack", "mux", "blades"})
      <4>1. [m EXCEPT !.at = l, !.fc = c].op = m.op
        BY <1>0 DEF Message
      <4> QED
        BY <1>0, <3>1, <4>1
    <3>2. \/ Done(h) \/ Goto(h, "eth")
          \/ \E l, c : handler' = [handler EXCEPT ![h] = [m EXCEPT !.at = l, !.fc = c]]
      <4>1. CASE ReadFcPorts(h)
        BY <4>1, <1>0 DEF ReadFcPorts
      <4>2. CASE ReadUnified(h)
        BY <4>2, <1>0 DEF ReadUnified
      <4> QED
        BY <2>6, <4>1, <4>2
    <3> QED
      BY <2>1, <2>2, <3>1, <3>2
  <2>7. CASE MovePort(h)
    <3>1. ASSUME NEW e, NEW c,
                 handler' = [handler EXCEPT ![h] = [m EXCEPT !.at = "write", !.eth = e, !.fc = c]]
          PROVE  \E r : handler' = [handler EXCEPT ![h] = r] /\ (r # None => r.op \notin {"rack", "mux", "blades"})
      <4>1. [m EXCEPT !.at = "write", !.eth = e, !.fc = c].op = m.op
        BY <1>0 DEF Message
      <4> QED
        BY <1>0, <3>1, <4>1
    <3>2. \/ Done(h)
          \/ \E e, c : handler' = [handler EXCEPT ![h] = [m EXCEPT !.at = "write", !.eth = e, !.fc = c]]
      BY <2>7 DEF MovePort
    <3> QED
      BY <2>1, <3>1, <3>2
  <2>8. CASE UnsyncPorts(h) \/ ConfigurePortChannel(h) \/ UnsyncFcPorts(h) \/ WriteUnified(h)
              \/ UnsyncUnified(h)
    BY <2>1, <2>2, <2>8 DEF UnsyncPorts, ConfigurePortChannel, UnsyncFcPorts, WriteUnified, UnsyncUnified
  <2> QED
    BY <2>3, <2>4, <2>5, <2>6, <2>7, <2>8
<1>2. /\ UNCHANGED <<known, told, before>>
      /\ \A p \in Ports : <<p, "send">> \in events' => <<p, "send">> \in events
  <2>1. CASE ReadPorts(h)
    <3>1. UNCHANGED <<known, told, before>>
      BY <2>1 DEF ReadPorts
    <3>2. events' = events \/ events' = events \cup {<<m.port, "prepare">>}
      BY <2>1 DEF ReadPorts
    <3> QED
      BY <3>1, <3>2
  <2>2. CASE ~ReadPorts(h)
    BY <2>2 DEF WritePorts, UnsyncPorts, ConfigurePortChannel, ReadFcPorts, WriteFcPorts,
       UnsyncFcPorts, ReadUnified, MovePort, WriteUnified, UnsyncUnified, serverVars
  <2> QED
    BY <2>1, <2>2
<1>3. told \subseteq known
  BY DEF ServerInv, Announced
<1>4. PICK r : handler' = [handler EXCEPT ![h] = r] /\ (r # None => r.op \notin {"rack", "mux", "blades"})
  BY <1>1
<1> QED
  BY <1>2, <1>3, <1>4, ServersGoOn

LEMMA DelegateServers ==
  ASSUME Types, ServerInv, NEW h \in Handlers, NEW op \in Ops, NEW p \in Ports, NEW a \in Args,
         Delegate(h, op, p, a)
  PROVE  ServerInv'
<1> DEFINE r == [op |-> op, port |-> p, arg |-> a, eth |-> Default.eth, fc |-> NoFc,
                 at |-> IF op = "pc" THEN "lock" ELSE "start"]
<1>1. /\ handler' = [handler EXCEPT ![h] = r]
      /\ (op = "rack" => p \in told \cup before)
      /\ (op = "blades" => "chassis" \in told \cup before)
  BY Zenon DEF Delegate
<1>2. UNCHANGED serverVars
  BY Zenon DEF Delegate
<1>3. r.op = op /\ r.port = p /\ r.at # "send"
  OBVIOUS
<1> HIDE DEF r
<1>4. told \subseteq known
  BY DEF ServerInv, Announced
<1> QED
  BY <1>1, <1>2, <1>3, <1>4, ServersGoOn DEF serverVars

\* Steps of the messages about servers.
LEMMA ServersServers ==
  ASSUME Types, ServerInv, NEW h \in Handlers,
         ConfigRackPort(h) \/ CheckMux(h) \/ SendMuxOnline(h) \/ EnableBladeServerDCs(h)
  PROVE  ServerInv'
<1> DEFINE m == handler[h]
<1>0. m \in Message /\ m # None
  BY Reading DEF At, ConfigRackPort, CheckMux, SendMuxOnline, EnableBladeServerDCs, Types
<1>i. told \subseteq known
  BY DEF ServerInv, Announced
<1>1. CASE ConfigRackPort(h)
  <2>1. CASE Done(h) /\ UNCHANGED serverVars
    BY <1>i, <2>1, ServersGoOn DEF Done, serverVars
  <2> QED
    BY <1>1, <2>1, CrashServers, Zenon DEF ConfigRackPort
<1>2. CASE CheckMux(h)
  <2>1. UNCHANGED <<events, told, before>> /\ known \subseteq known'
    BY <1>2 DEF CheckMux
  <2>2. CASE Done(h)
    BY <1>i, <2>1, <2>2, ServersGoOn DEF Done
  <2>3. CASE Goto(h, "send") /\ "chassis" \in known'
    <3> DEFINE r == [m EXCEPT !.at = "send"]
    <3>1. r.op = "mux"
      BY <1>2, <1>0 DEF CheckMux, At, Message
    <3>2. handler' = [handler EXCEPT ![h] = r]
      BY <2>3 DEF Goto
    <3> HIDE DEF r
    <3> QED
      BY <1>i, <2>1, <2>3, <3>1, <3>2, ServersGoOn
  <2> QED
    BY <1>2, <2>2, <2>3 DEF CheckMux
<1>3. CASE SendMuxOnline(h)
  <2>1. "chassis" \in known
    BY <1>3 DEF SendMuxOnline, ServerInv, Announced
  <2>2. /\ told' \subseteq known' /\ before \subseteq known' \cup before'
        /\ UNCHANGED <<events, known>>
    BY <1>3, <1>i, <2>1 DEF SendMuxOnline
  <2> QED
    BY <1>3, <1>i, <2>2, ServersGoOn DEF SendMuxOnline, Done
<1>4. CASE EnableBladeServerDCs(h)
  <2>1. Done(h) /\ UNCHANGED serverVars
    BY <1>4 DEF EnableBladeServerDCs
  <2> QED
    BY <1>i, <2>1, ServersGoOn DEF Done, serverVars
<1> QED
  BY <1>1, <1>2, <1>3, <1>4

LEMMA ServersStep == Types /\ ServerInv /\ [Next]_vars => ServerInv'
<1> SUFFICES ASSUME Types, ServerInv, [Next]_vars PROVE ServerInv'
  OBVIOUS
<1>1. CASE UNCHANGED vars
  BY <1>1, ServersSame DEF vars
<1>2. ASSUME NEW p \in Ports, PrepareEvents(p) PROVE ServerInv'
  <2>1. known' = known \cup {p} /\ UNCHANGED <<handler, told, before>>
    BY <1>2 DEF PrepareEvents
  <2>2. events' \subseteq events \cup {<<p, "send">>}
    BY <1>2 DEF PrepareEvents
  <2> QED
    BY <2>1, <2>2 DEF ServerInv, Announced, StartsChildren, At, Is
<1>3. ASSUME NEW p \in Ports, SendEvent(p) PROVE ServerInv'
  <2>1. /\ told' = told \cup {p} /\ before' = before \ {p}
        /\ UNCHANGED <<handler, known>> /\ events' \subseteq events
    BY <1>3 DEF SendEvent
  <2>2. p \in known
    BY <1>3 DEF SendEvent, ServerInv, Announced
  <2> QED
    BY <2>1, <2>2 DEF ServerInv, Announced, StartsChildren, At, Is
<1>4. ASSUME NEW j \in Jobs, Waits(j) \/ GetValue(j) \/ MarkSent(j) \/ Answer(j) PROVE ServerInv'
  BY <1>4, ServersSame DEF Waits, GetValue, MarkSent, Answer
<1>5. CASE SessionEnds \/ ResetTimer \/ ResetInventoryStatusMaps \/ ProcessEnds
  BY <1>5, ServersSame, CrashServers DEF SessionEnds, ResetTimer, ResetInventoryStatusMaps, ProcessEnds
<1>6. ASSUME NEW h \in Handlers, ConfigureFcPc(h) PROVE ServerInv'
  <2>1. CASE Done(h) /\ UNCHANGED serverVars
    BY <2>1, ServersGoOn DEF Done, serverVars, ServerInv, Announced
  <2> QED
    BY <1>6, <2>1, CrashServers, Zenon DEF ConfigureFcPc
<1>7. CASE Next
  BY <1>2, <1>3, <1>4, <1>5, <1>6, <1>7, DelegateServers, PortsServers, ServersServers DEF Next
<1> QED
  BY <1>1, <1>7

-----------------------------------------------------------------------------
Inv == Types /\ PortInv /\ ServerInv

LEMMA InitInv == Init => Inv
<1> SUFFICES ASSUME Init PROVE Inv
  OBVIOUS
<1>1. \A h \in Handlers : handler[h] = None
  BY DEF Init
<1>2. Types
  BY <1>1, InitTypes DEF Types, ArgsOK, Is
<1>3. Split(Eth, Fc)
  <2>1. own.eth = None /\ own.fc = None
    BY DEF Init
  <2>2. "off" # None
    BY NoneAssumption DEF EthRoles
  <2> QED
    BY <2>1, <2>2 DEF Split, Eth, Fc, GetInventory, Default, NoFc
<1>4. PortInv
  BY <1>1, <1>3 DEF PortInv, Alone, CopiesAgree, Is
<1>5. ServerInv
  BY <1>1 DEF Init, ServerInv, Announced, StartsChildren, At, Is
<1> QED
  BY <1>2, <1>4, <1>5 DEF Inv

LEMMA InvStep == Inv /\ [Next]_vars => Inv'
BY TypesStep, PortsStep, ServersStep DEF Inv

LEMMA Invariance == Spec => []Inv
BY InitInv, InvStep, PTL DEF Spec

\* Every variable keeps its type.
THEOREM TypeCorrect == Spec => []TypeOK
<1>1. Inv => TypeOK
  BY DEF Inv, Types
<1> QED
  BY <1>1, Invariance, PTL

\* A port is in one of the two inventories, whatever messages are handled at
\* the same time, unless a message that moves a port was torn.
THEOREM PortsOnce == Spec => []EachOnce
<1>1. Inv => EachOnce
  BY DEF Inv, PortInv, Moving, EachOnce, Split, Eth, Fc
<1> QED
  BY <1>1, Invariance, PTL

\* A server that the cloud asks to start is a child of the device, or the cloud
\* was told of it by an earlier process only.
THEOREM ChildrenFirst == Spec => []StartsChildren
<1>1. Inv => StartsChildren
  BY DEF Inv, ServerInv
<1> QED
  BY <1>1, Invariance, PTL
=============================================================================
