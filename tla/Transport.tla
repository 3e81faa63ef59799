----------------------------- MODULE Transport -----------------------------
(***************************************************************************)
(* The way of messages through an emulator process: goroutines that        *)
(* Dispatch (handlers, plugins, requests to the cloud), the connections    *)
(* they dispatch to, and what all connections of the process share: the    *)
(* mutex flateMu, held by Dispatch until its message is written, and the   *)
(* readLimiter, held by a reader until it has handled its message.         *)
(*                                                                         *)
(* A connection is what Link says (Session shows that it is), with one     *)
(* reader and one writer.  A task is a goroutine that dispatches, again    *)
(* and again; its context is that of the session it was started in, or it  *)
(* has a deadline of its own.                                              *)
(***************************************************************************)
EXTENDS Naturals, FiniteSets

CONSTANTS
  Conns,      \* connections
  Tasks,      \* goroutines that dispatch
  Home,       \* Home[t]: the connection task t dispatches to
  Device,     \* Device[c]: the device connection c belongs to
  Deadline,   \* tasks whose context has a deadline (GetRaw, PostRaw)
  Asks,       \* tasks that wait for a response in rspMap
  Tokens,     \* GetSecurityToken: two requests, under the device's mutex
  ReadLimit,  \* capacity of readLimiter
  MaxWindow,  \* bound: messages a window grants besides its acknowledgement
  NoTask      \* flateMu is free

ASSUME TasksAssumption ==
  /\ Home \in [Tasks -> Conns]
  /\ Deadline \subseteq Tasks
  /\ Asks \subseteq Tasks
  /\ Tokens \subseteq Deadline \cap Asks
  /\ NoTask \notin Tasks
ASSUME SharedAssumption ==
  /\ ReadLimit \in Nat \ {0}
  /\ MaxWindow \in Nat \ {0}
  /\ DOMAIN Device = Conns

VARIABLES
  phase,     \* of each connection: down, up, closing (context cancelled)
  reader,    \* readLoop: gone, reading, or with a flow message for the writer
  writer,    \* writeLoop: gone, sending, waiting for a window
  window,    \* messages left in the writer's window
  flateMu,   \* the task in Dispatch
  pc,        \* of each task: idle, lock, offer, wait
  ch,        \* whose writeCh Dispatch offers on: the current or a past one
  ctxDone,   \* of each task: its context is done
  entry,     \* its response channel is in the current rspMap
  asked,     \* the cloud has its request and has not answered
  mail,      \* a response is in its response channel
  stage      \* which of its requests it is at

connVars == <<phase, reader, writer, window>>
taskVars == <<pc, ch, ctxDone, entry, asked, mail, stage>>
vars == <<connVars, flateMu, taskVars>>

----------------------------------------------------------------------------
TaskTypes ==
  /\ pc \in [Tasks -> {"idle", "lock", "offer", "wait"}]
  /\ ctxDone \in [Tasks -> BOOLEAN]
  /\ entry \in [Tasks -> BOOLEAN]
  /\ asked \in [Tasks -> BOOLEAN]
  /\ mail \in [Tasks -> BOOLEAN]
  /\ stage \in [Tasks -> 1..2]

TypeOK ==
  /\ phase \in [Conns -> {"down", "up", "closing"}]
  /\ reader \in [Conns -> {"none", "read", "deliver"}]
  /\ writer \in [Conns -> {"none", "send", "flow"}]
  /\ window \in [Conns -> 0..MaxWindow]
  /\ flateMu \in Tasks \cup {NoTask}
  /\ ch \in [Tasks -> {"current", "past"}]
  /\ TaskTypes

Init ==
  /\ phase = [c \in Conns |-> "down"]
  /\ reader = [c \in Conns |-> "none"]
  /\ writer = [c \in Conns |-> "none"]
  /\ window = [c \in Conns |-> 0]
  /\ flateMu = NoTask
  /\ pc = [t \in Tasks |-> "idle"]
  /\ ch = [t \in Tasks |-> "past"]
  /\ ctxDone = [t \in Tasks |-> TRUE]
  /\ entry = [t \in Tasks |-> FALSE]
  /\ asked = [t \in Tasks |-> FALSE]
  /\ mail = [t \in Tasks |-> FALSE]
  /\ stage = [t \in Tasks |-> 1]

----------------------------------------------------------------------------
(* Connections. *)

\* GetSecurityToken holds the mutex of the device while it waits.
DeviceLocked(c) ==
  \E t \in Tokens : Device[Home[t]] = Device[c] /\ pc[t] # "idle"

\* The dial needs the device's mutex (GetAccount); then the goroutines start.
Connect(c) ==
  /\ phase[c] = "down"
  /\ ~DeviceLocked(c)
  /\ phase' = [phase EXCEPT ![c] = "up"]
  /\ reader' = [reader EXCEPT ![c] = "read"]
  /\ writer' = [writer EXCEPT ![c] = "flow"]
  /\ window' = [window EXCEPT ![c] = 0]
  /\ UNCHANGED <<flateMu, taskVars>>

\* Mutant: run does not cancel the context of a session that ended.
CancelNobody(c) ==
  /\ phase[c] = "up"
  /\ phase' = [phase EXCEPT ![c] = "closing"]
  /\ UNCHANGED <<reader, writer, window, flateMu, taskVars>>

\* The session's context is cancelled, and with it that of its tasks.
Cancel(c) ==
  /\ phase[c] = "up"
  /\ phase' = [phase EXCEPT ![c] = "closing"]
  /\ ctxDone' = [t \in Tasks |->
       ctxDone[t] \/ (Home[t] = c /\ t \notin Deadline)]
  /\ UNCHANGED <<reader, writer, window, flateMu, pc, ch, entry, asked,
                 mail, stage>>

\* A read or write fails, or somebody toggles the connection.
Break(c) == Cancel(c)

\* Mutant: the wait for a window has no limit.
FlowTimeoutNever(c) == FALSE /\ Cancel(c)

\* An hour without a window.
FlowTimeout(c) == writer[c] = "flow" /\ Cancel(c)

\* A reader that waits for the limiter or for the writer sees the cancelled
\* context, one that waits for a message the closed websocket.
ReaderLeaves(c) ==
  /\ phase[c] = "closing"
  /\ reader[c] # "none"
  /\ reader' = [reader EXCEPT ![c] = "none"]
  /\ UNCHANGED <<phase, writer, window, flateMu, taskVars>>

WriterLeaves(c) ==
  /\ phase[c] = "closing"
  /\ writer[c] # "none"
  /\ writer' = [writer EXCEPT ![c] = "none"]
  /\ UNCHANGED <<phase, reader, window, flateMu, taskVars>>

\* Mutant: run does not wait for writeLoop.
ResetEarly(c) ==
  /\ phase[c] = "closing"
  /\ reader[c] = "none"
  /\ phase' = [phase EXCEPT ![c] = "down"]
  /\ ch' = [t \in Tasks |-> IF Home[t] = c THEN "past" ELSE ch[t]]
  /\ entry' = [t \in Tasks |-> entry[t] /\ Home[t] # c]
  /\ UNCHANGED <<reader, writer, window, flateMu, pc, ctxDone, asked, mail,
                 stage>>

\* The top of run's loop: a new writeCh and an empty rspMap.  Whoever offers on
\* the old writeCh will never find a writer there.
Reset(c) ==
  /\ phase[c] = "closing"
  /\ reader[c] = "none" /\ writer[c] = "none"
  /\ phase' = [phase EXCEPT ![c] = "down"]
  /\ ch' = [t \in Tasks |-> IF Home[t] = c THEN "past" ELSE ch[t]]
  /\ entry' = [t \in Tasks |-> entry[t] /\ Home[t] # c]
  /\ UNCHANGED <<reader, writer, window, flateMu, pc, ctxDone, asked,
                 mail, stage>>

----------------------------------------------------------------------------
(* Readers. *)

\* Readers that hold a slot of readLimiter.
Holders == {c \in Conns : reader[c] = "deliver"}

\* The next message is a flow message.
TakeFlow(c) ==
  /\ reader[c] = "read"
  /\ Cardinality(Holders) < ReadLimit
  /\ reader' = [reader EXCEPT ![c] = "deliver"]
  /\ UNCHANGED <<phase, writer, window, flateMu, taskVars>>

\* The next message is the response task t waits for.  The handler, a goroutine
\* of its own, finds the channel in the current rspMap or drops the response.
TakeAnswer(c, t) ==
  /\ reader[c] = "read"
  /\ Cardinality(Holders) < ReadLimit
  /\ Home[t] = c
  /\ asked[t]
  /\ asked' = [asked EXCEPT ![t] = FALSE]
  /\ mail' = [mail EXCEPT ![t] = @ \/ entry[t]]
  /\ UNCHANGED <<connVars, flateMu, pc, ch, ctxDone, entry, stage>>

\* flowChannel.  The new window has room for n messages besides its own
\* acknowledgement.  One that the acknowledgement uses up sends the writer back
\* to wait for the next, and the hour it waits at most starts anew.
Deliver(c, n) ==
  /\ reader[c] = "deliver"
  /\ writer[c] = "flow"
  /\ reader' = [reader EXCEPT ![c] = "read"]
  /\ window' = [window EXCEPT ![c] = n]
  /\ writer' = [writer EXCEPT ![c] = IF n = 0 THEN "flow" ELSE "send"]
  /\ UNCHANGED <<phase, flateMu, taskVars>>

----------------------------------------------------------------------------
(* Tasks. *)

\* GetRaw, PostRaw and GetSecurityToken look at the status first, which stays
\* Connected until the top of run's loop.  A job or a stream may still run
\* with the cancelled context of an earlier session.
Start(t) ==
  /\ pc[t] = "idle"
  /\ t \in Deadline => phase[Home[t]] # "down"
  /\ pc' = [pc EXCEPT ![t] = "lock"]
  /\ \E old \in BOOLEAN :
       /\ t \in Deadline => ~old
       /\ t \notin Deadline /\ phase[Home[t]] # "up" => old
       /\ ctxDone' = [ctxDone EXCEPT ![t] = old]
  /\ entry' = [entry EXCEPT ![t] = t \in Asks]
  /\ UNCHANGED <<connVars, flateMu, ch, asked, mail, stage>>

\* The caller goes on.  What is left of its request (the entry in rspMap, a
\* response that is on its way) reaches nobody: ids and channels are not used
\* again.
End(t) ==
  /\ pc' = [pc EXCEPT ![t] = "idle"]
  /\ ctxDone' = [ctxDone EXCEPT ![t] = TRUE]
  /\ entry' = [entry EXCEPT ![t] = FALSE]
  /\ asked' = [asked EXCEPT ![t] = FALSE]
  /\ mail' = [mail EXCEPT ![t] = FALSE]
  /\ stage' = [stage EXCEPT ![t] = 1]

\* Mutant: the request is made with the context of the connection.
ExpireNever(t) == FALSE /\ UNCHANGED vars

\* Thirty seconds.
Expire(t) ==
  /\ t \in Deadline
  /\ ~ctxDone[t]
  /\ ctxDone' = [ctxDone EXCEPT ![t] = TRUE]
  /\ UNCHANGED <<connVars, flateMu, pc, ch, entry, asked, mail, stage>>

\* flateMu.Lock does not look at the context.  The field writeCh is read when
\* the select starts.
Lock(t) ==
  /\ pc[t] = "lock"
  /\ flateMu = NoTask
  /\ flateMu' = t
  /\ pc' = [pc EXCEPT ![t] = "offer"]
  /\ ch' = [ch EXCEPT ![t] = "current"]
  /\ UNCHANGED <<connVars, ctxDone, entry, asked, mail, stage>>

\* Dispatch returns to a caller that waits for a response, or to one that does
\* not.  It does not tell whether the message was written.
Return(t, arrived) ==
  /\ pc[t] = "offer"
  /\ flateMu' = NoTask
  /\ ch' = [ch EXCEPT ![t] = "past"]
  /\ IF t \in Asks
       THEN /\ pc' = [pc EXCEPT ![t] = "wait"]
            /\ asked' = [asked EXCEPT ![t] = arrived]
            /\ UNCHANGED <<ctxDone, entry, mail, stage>>
       ELSE End(t)

\* The writer takes the message and writes it; the cloud may get it.
Write(t) ==
  LET c == Home[t] IN
  /\ ch[t] = "current"
  /\ writer[c] = "send"
  /\ \E arrived \in BOOLEAN : Return(t, arrived)
  /\ window' = [window EXCEPT ![c] = @ - 1]
  /\ writer' = [writer EXCEPT ![c] = IF window[c] > 1 THEN "send" ELSE "flow"]
  /\ UNCHANGED <<phase, reader>>

\* ctx.Done in Dispatch.
GiveUp(t) ==
  /\ ctxDone[t]
  /\ Return(t, FALSE)
  /\ UNCHANGED connVars

\* A response: the end of the request, or, for a security token, the start of
\* the second request, which waits on the same channel under a new id.
Answered(t) ==
  /\ pc[t] = "wait"
  /\ mail[t]
  /\ \/ End(t)
     \/ /\ t \in Tokens /\ stage[t] = 1
        /\ pc' = [pc EXCEPT ![t] = "lock"]
        /\ mail' = [mail EXCEPT ![t] = FALSE]
        /\ stage' = [stage EXCEPT ![t] = 2]
        /\ entry' = [entry EXCEPT ![t] = TRUE]
        /\ UNCHANGED <<ctxDone, asked>>
  /\ UNCHANGED <<connVars, flateMu, ch>>

\* Mutant: the response is waited for without looking at the context.
UnansweredNever(t) ==
  FALSE /\ End(t) /\ UNCHANGED <<connVars, flateMu, ch>>

Unanswered(t) ==
  /\ pc[t] = "wait"
  /\ ctxDone[t]
  /\ End(t)
  /\ UNCHANGED <<connVars, flateMu, ch>>

----------------------------------------------------------------------------
ConnNext(c) ==
  \/ Connect(c)
  \/ Break(c)
  \/ FlowTimeout(c)
  \/ ReaderLeaves(c)
  \/ WriterLeaves(c)
  \/ Reset(c)
  \/ TakeFlow(c)
  \/ \E t \in Tasks : TakeAnswer(c, t)
  \/ \E n \in 0..MaxWindow : Deliver(c, n)

TaskNext(t) ==
  \/ Start(t)
  \/ Expire(t)
  \/ Lock(t)
  \/ Write(t)
  \/ GiveUp(t)
  \/ Answered(t)
  \/ Unanswered(t)

Next == (\E c \in Conns : ConnNext(c)) \/ (\E t \in Tasks : TaskNext(t))

\* Timers fire and goroutines that can go on do.  The mutexes and channels
\* are fair: who keeps asking gets its turn (a starving waiter of a sync.Mutex
\* is served first, waiting senders of a channel are served in order).  Not
\* assumed: that the cloud answers or grants anything, that a session ends.
Fairness ==
  /\ \A c \in Conns :
       /\ SF_vars(Connect(c))
       /\ WF_vars(FlowTimeout(c) \/ \E n \in 0..MaxWindow : Deliver(c, n))
       /\ WF_vars(ReaderLeaves(c) \/ WriterLeaves(c) \/ Reset(c))
  /\ \A t \in Tasks :
       /\ SF_vars(Lock(t))
       /\ WF_vars(Expire(t) \/ Write(t) \/ GiveUp(t) \/ Answered(t) \/ Unanswered(t))

SafeSpec == Init /\ [][Next]_vars
Spec == SafeSpec /\ Fairness

----------------------------------------------------------------------------
(* Properties. *)

\* A task that holds flateMu, and with it stops every connection of the process
\* from sending, can always be released: its context is done, or will be by a
\* deadline, or its session is up and the writer of that session reads the very
\* channel it offers on.
NoOrphan ==
  \A t \in Tasks :
    pc[t] = "offer" /\ ~ctxDone[t] /\ t \notin Deadline =>
      /\ phase[Home[t]] = "up"
      /\ ch[t] = "current"
      /\ writer[Home[t]] # "none"

\* What NoOrphan rests on: a context of a session that is not cancelled is that
\* of a session that is up, which has a reader and a writer; Dispatch offers on
\* the current channel unless the session was replaced meanwhile.
BoundToSession ==
  /\ \A t \in Tasks :
       pc[t] # "idle" /\ ~ctxDone[t] /\ t \notin Deadline =>
         /\ phase[Home[t]] = "up"
         /\ pc[t] = "offer" => ch[t] = "current"
  /\ \A c \in Conns :
       /\ phase[c] = "up" => reader[c] # "none" /\ writer[c] # "none"
       /\ phase[c] = "down" => reader[c] = "none" /\ writer[c] = "none"

\* A writer that sends has room in its window.
RoomLeft == \A c \in Conns : writer[c] = "send" => window[c] > 0

\* flateMu belongs to the one task that is past its Lock.
OneDispatch == \A t \in Tasks : pc[t] = "offer" <=> flateMu = t

TransportInv == TypeOK /\ BoundToSession /\ RoomLeft /\ OneDispatch

\* The cloud grants a connection window after window, none with room for more
\* than its own acknowledgement: the one way to keep a writer, and with it
\* whoever holds flateMu, waiting for good.
Starved ==
  \E c \in Conns : []<><<Deliver(c, 0)>>_vars /\ <>[](writer[c] = "flow")

\* Unless the cloud starves a connection, every Dispatch returns, on whatever
\* connection: although the mutex is held while another connection waits for a
\* window, and the flow message that would open it may be stuck behind the
\* readLimiter, whose slots are held by readers that wait for a window to be
\* used up by tasks that wait for the mutex.
DispatchReturns ==
  \/ Starved
  \/ \A t \in Tasks : pc[t] \in {"lock", "offer"} ~> pc[t] \notin {"lock", "offer"}

\* Unless the cloud starves a connection, a request with a deadline ends,
\* whatever happens to the sessions, the response or the connections of other
\* devices.
RequestReturns == Starved \/ \A t \in Deadline : pc[t] # "idle" ~> pc[t] = "idle"

\* Unless the cloud starves a connection, one that is down comes back:
\* GetSecurityToken, which holds the device's mutex that the dial needs, cannot
\* keep it for good.
ComesBack == Starved \/ \A c \in Conns : phase[c] = "down" ~> phase[c] = "up"

\* The new window starts with the receipt of the flow message that grants it
\* (the comment on the window in writeLoop): a reader that has read one hands
\* it to the writer, or the session ends.
WindowStarts == \A c \in Conns : reader[c] = "deliver" ~> reader[c] # "deliver"

\* What Transport takes a connection to be is what Link promises.
Routines(c) ==
  (IF reader[c] = "none" THEN {} ELSE {"reader"})
    \cup (IF writer[c] = "none" THEN {} ELSE {"writer"})

LinkOf(c) == INSTANCE Link WITH phase <- phase[c], routines <- Routines(c)

UsesLinks ==
  /\ \A c \in Conns : LinkOf(c)!Init
  /\ [][\A c \in Conns : [LinkOf(c)!Next]_(LinkOf(c)!vars)]_vars
============================================================================
