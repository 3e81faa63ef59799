------------------------------ MODULE Session ------------------------------
(***************************************************************************)
(* One emulated connection: the loop of connectionEmulator.run and the     *)
(* goroutines it starts for every websocket (writeLoop, disconnectLoop,    *)
(* the handlers of readLoop).                                              *)
(*                                                                         *)
(* A session is one pass of the loop: it gets a fresh context, websocket   *)
(* and channels.  Sessions are not numbered, so there is no bound on how   *)
(* often the connection reconnects; a function value read from ce.cancel   *)
(* becomes "stale" when the loop replaces it.                              *)
(*                                                                         *)
(* Handlers of an earlier session may still run, but they hold the         *)
(* handler channel of their own session and meet the new one only as       *)
(* senders, which WriteLocal stands for.                                   *)
(***************************************************************************)
EXTENDS Integers

CONSTANTS
  Grants,         \* windows the cloud may grant: records [msgs, bytes]
  Sizes,          \* sizes of the messages the device sends
  AckSize,        \* size of a flow-control acknowledgement
  CreditCap,      \* the ghost "credit" saturates here
  HandlerLimit,   \* capacity of the handler channel (100 in the code)
  MaxTimeouts,    \* bound: handler timeouts per session
  Backoffs,       \* backoffs the cloud may ask for
  ReconnectRate,  \* RECONNECT_RATE
  HonorServer,    \* HONOR_SERVER_BACKOFF
  Disconnects     \* DISCONNECT_RATE is not zero

ASSUME GrantsAssumption == Grants \subseteq [msgs : Nat, bytes : Nat]
ASSUME SizesAssumption == Sizes \subseteq Nat /\ AckSize \in Nat
ASSUME CreditAssumption ==
  CreditCap \in Nat \ {0} /\ \A g \in Grants : g.msgs <= CreditCap
ASSUME LimitsAssumption == HandlerLimit \in Nat \ {0} /\ MaxTimeouts \in Nat
ASSUME BackoffAssumption ==
  /\ Backoffs \subseteq Nat \ {0}
  /\ ReconnectRate \in Nat
  /\ HonorServer \in BOOLEAN
  /\ Disconnects \in BOOLEAN

VARIABLES
  run,            \* where the loop of run stands
  first,          \* run's local: no session was attempted yet
  status,         \* connectionStatus
  ws,             \* the websocket: nil, open, broken (by the peer), closed
  ctxDone,        \* the context of the session is cancelled
  serverBackoff,  \* serverBackoffDur
  sleep,          \* the backoff run sleeps for
  asked,          \* ghost: the backoff the last dial was asked to keep
  toggle,         \* a caller of ce.cancel: which session's function it read
  breaker,        \* goroutine of disconnectLoop
  writer,         \* goroutine of writeLoop
  flowEnabled,    \* flowControlEnabled
  pending,        \* the flow message the reader offers on flowChannel
  window,         \* writeLoop's local flow
  sent,           \* writeLoop's local msgsSentThisWindow
  bytes,          \* writeLoop's local bytesSentThisWindow
  credit,         \* ghost: messages granted and not yet written
  slots,          \* tokens in the channel handler of readLoop
  replying,       \* handlers that still have to Dispatch their response
  leaving,        \* handlers that only have to give their slot back
  timeouts        \* ghost: handlers started without a slot

dialVars    == <<first, status, serverBackoff, sleep, asked>>
loopVars    == <<run, dialVars>>
wireVars    == <<ws, ctxDone, toggle, breaker, flowEnabled>>
flowVars    == <<window, sent, bytes, credit>>
handlerVars == <<slots, replying, leaving, timeouts>>
writeVars   == <<writer, flowVars>>
vars == <<loopVars, wireVars, pending, writeVars, handlerVars>>

----------------------------------------------------------------------------
NoWindow == [msgs |-> 0, bytes |-> 0]

\* Where run stands while it is inside readLoop.
Reading == {"read", "limiter", "deliver", "slot"}
Online  == run \in Reading

Dead == ws \in {"broken", "closed"}

TypeOK ==
  /\ run \in {"setup", "backoff", "dial", "up", "drain"} \cup Reading
  /\ first \in BOOLEAN
  /\ status \in {"NotConnected", "Rejected", "Connected"}
  /\ ws \in {"nil", "open", "broken", "closed"}
  /\ ctxDone \in BOOLEAN
  /\ serverBackoff \in Backoffs \cup {0}
  /\ asked \in Backoffs \cup {0}
  /\ sleep \in Backoffs \cup {0, ReconnectRate}
  /\ toggle \in {"none", "current", "stale"}
  /\ breaker \in {"none", "on", "done"}
  /\ writer \in {"none", "ping", "flow", "send", "close", "cancel", "done"}
  /\ flowEnabled \in BOOLEAN
  /\ pending \in Grants \cup {NoWindow}
  /\ window \in Grants \cup {NoWindow}
  /\ sent \in Nat
  /\ bytes \in Nat
  /\ credit \in Int
  /\ slots \in 0..HandlerLimit
  /\ replying \in Nat
  /\ leaving \in Nat
  /\ timeouts \in 0..MaxTimeouts

Init ==
  /\ run = "setup"
  /\ first = TRUE
  /\ status = "NotConnected"
  /\ ws = "nil"
  /\ ctxDone = FALSE
  /\ serverBackoff = 0
  /\ sleep = 0
  /\ asked = 0
  /\ toggle = "none"
  /\ breaker = "none"
  /\ writer = "none"
  /\ flowEnabled = FALSE
  /\ pending = NoWindow
  /\ window = NoWindow
  /\ sent = 0
  /\ bytes = 0
  /\ credit = 0
  /\ slots = 0
  /\ replying = 0
  /\ leaving = 0
  /\ timeouts = 0

----------------------------------------------------------------------------
(* The loop of run. *)

\* What run sleeps for, given the serverBackoffDur it finds.
BackoffFor(asking) ==
  IF asking # 0 /\ HonorServer THEN asking ELSE ReconnectRate

\* The top of the loop: every field of the session is replaced, and the
\* serverBackoffDur the last dial stored is cleared before it is looked at.
Setup ==
  /\ run = "setup"
  /\ serverBackoff' = 0
  /\ status' = "NotConnected"
  /\ ws' = "nil"
  /\ ctxDone' = FALSE
  /\ toggle' = IF toggle = "current" THEN "stale" ELSE toggle
  /\ IF first
       THEN run' = "dial" /\ UNCHANGED sleep
       ELSE run' = "backoff" /\ sleep' = BackoffFor(serverBackoff')
  /\ first' = FALSE
  /\ writer' = "none" /\ breaker' = "none" /\ pending' = NoWindow
  /\ window' = NoWindow /\ sent' = 0 /\ bytes' = 0 /\ credit' = 0
  /\ slots' = 0 /\ replying' = 0 /\ leaving' = 0 /\ timeouts' = 0
  /\ UNCHANGED <<asked, flowEnabled>>

WakeUp ==
  /\ run = "backoff"
  /\ run' = "dial"
  /\ UNCHANGED <<dialVars, wireVars, pending, writeVars, handlerVars>>

\* dialWebsocket returns false; run cancels the context it made.  The cloud
\* may ask for a backoff only with a 503, which also sets the status.
DialFail(asking, newStatus) ==
  /\ run = "dial"
  /\ asking # 0 => newStatus = "Rejected"
  /\ serverBackoff' = IF asking # 0 THEN asking ELSE serverBackoff
  /\ asked' = asking
  /\ status' = newStatus
  /\ ctxDone' = TRUE
  /\ run' = "setup"
  /\ UNCHANGED <<first, sleep, ws, toggle, breaker,
                 flowEnabled, pending, writeVars, handlerVars>>

\* The capabilities the server sends are only ever added.
DialOk(offersFlow) ==
  /\ run = "dial"
  /\ ws' = "open"
  /\ flowEnabled' = (flowEnabled \/ offersFlow)
  /\ asked' = 0
  /\ run' = "up"
  /\ UNCHANGED <<first, status, serverBackoff, sleep, ctxDone, toggle,
                 breaker, pending, writeVars, handlerVars>>

\* The cloud answered the dial but does not authenticate: the capabilities it
\* sent stay, the websocket is neither kept nor closed.
AuthFail(offersFlow) ==
  /\ run = "dial"
  /\ flowEnabled' = (flowEnabled \/ offersFlow)
  /\ asked' = 0
  /\ ctxDone' = TRUE
  /\ run' = "setup"
  /\ UNCHANGED <<first, status, serverBackoff, sleep, ws, toggle, breaker,
                 pending, writeVars, handlerVars>>

Spawn ==
  /\ run = "up"
  /\ status' = "Connected"
  /\ writer' = "ping"
  /\ breaker' = IF Disconnects THEN "on" ELSE "none"
  /\ run' = "read"
  /\ UNCHANGED <<first, serverBackoff, sleep, asked, ws, ctxDone,
                 toggle, flowEnabled, pending, flowVars, handlerVars>>

\* Mutant: disconnectLoop is left out of the wait group.
DrainedEarly ==
  /\ run = "drain"
  /\ writer = "done"
  /\ run' = "setup"
  /\ UNCHANGED <<dialVars, wireVars, pending, writeVars, handlerVars>>

\* Mutant: run does not wait for writeLoop.
DrainedNoWriter ==
  /\ run = "drain"
  /\ breaker # "on"
  /\ run' = "setup"
  /\ UNCHANGED <<dialVars, wireVars, pending, writeVars, handlerVars>>

\* wg.Wait returns once writeLoop and disconnectLoop have called wg.Done.
Drained ==
  /\ run = "drain"
  /\ writer = "done"
  /\ breaker # "on"
  /\ run' = "setup"
  /\ UNCHANGED <<dialVars, wireVars, pending, writeVars, handlerVars>>

----------------------------------------------------------------------------
(* readLoop and handleMessage. *)

\* Mutant: run does not cancel the session when readLoop returns.
ReadDoneNoCancel ==
  /\ run' = "drain"
  /\ pending' = NoWindow
  /\ UNCHANGED ctxDone

\* handleMessage or NextReader failed: readLoop returns and run cancels.
ReadDone ==
  /\ run' = "drain"
  /\ pending' = NoWindow
  /\ ctxDone' = TRUE

\* Messages that were buffered are still read from a dead websocket.
NextMessage ==
  /\ run = "read"
  /\ run' = "limiter"
  /\ UNCHANGED <<dialVars, wireVars, pending, writeVars, handlerVars>>

\* NextReader returns an error on a websocket this side closed once the buffer
\* is empty; on one the peer broke it may or may not notice.
ReadFail(state) ==
  /\ run = "read"
  /\ ws = state
  /\ ReadDone
  /\ UNCHANGED <<dialVars, ws, toggle, breaker,
                 flowEnabled, writeVars, handlerVars>>

\* A slot of the process-wide readLimiter is free; the message turns out to be
\* unreadable, a flow-control message, or a request for a plugin.
Unreadable ==
  /\ run = "limiter"
  /\ ReadDone
  /\ UNCHANGED <<dialVars, ws, toggle, breaker,
                 flowEnabled, writeVars, handlerVars>>

GotFlow(grant) ==
  /\ run = "limiter"
  /\ IF flowEnabled
       THEN run' = "deliver" /\ pending' = grant
       ELSE run' = "read" /\ UNCHANGED pending
  /\ UNCHANGED <<dialVars, wireVars, writeVars, handlerVars>>

GotRequest ==
  /\ run = "limiter"
  /\ run' = "slot"
  /\ UNCHANGED <<dialVars, wireVars, pending, writeVars, handlerVars>>

\* ctx.Done while waiting for the limiter or for a handler slot.
HandleCancelled ==
  /\ run \in {"limiter", "slot"}
  /\ ctxDone
  /\ ReadDone
  /\ UNCHANGED <<dialVars, ws, toggle, breaker,
                 flowEnabled, writeVars, handlerVars>>

\* ctx.Done while the flow message is offered: the message is dropped and
\* readLoop goes on.
DeliverCancelled ==
  /\ run = "deliver"
  /\ ctxDone
  /\ run' = "read"
  /\ pending' = NoWindow
  /\ UNCHANGED <<dialVars, wireVars, writeVars, handlerVars>>

\* A handler goroutine starts; some requests want a response dispatched.
Handle(wantsReply) ==
  /\ run' = "read"
  /\ replying' = IF wantsReply THEN replying + 1 ELSE replying
  /\ leaving' = IF wantsReply THEN leaving ELSE leaving + 1
  /\ UNCHANGED <<dialVars, wireVars, pending, writeVars>>

SlotAcquired(wantsReply) ==
  /\ run = "slot"
  /\ slots < HandlerLimit
  /\ slots' = slots + 1
  /\ Handle(wantsReply)
  /\ UNCHANGED timeouts

\* Ten seconds without a free slot: the error is logged and the handler is
\* started all the same.
SlotTimeout(wantsReply) ==
  /\ run = "slot"
  /\ slots = HandlerLimit
  /\ timeouts < MaxTimeouts
  /\ timeouts' = timeouts + 1
  /\ Handle(wantsReply)
  /\ UNCHANGED slots

\* Mutant: the deferred receive does not wait for a token.
ReleaseDefault ==
  /\ leaving > 0
  /\ leaving' = leaving - 1
  /\ slots' = IF slots > 0 THEN slots - 1 ELSE slots
  /\ UNCHANGED <<loopVars, wireVars, pending, writeVars, replying, timeouts>>

\* A handler's deferred receive: it takes any token of the channel, and waits
\* for one if there is none.
Release ==
  /\ leaving > 0
  /\ slots > 0
  /\ leaving' = leaving - 1
  /\ slots' = slots - 1
  /\ UNCHANGED <<loopVars, wireVars, pending, writeVars, replying, timeouts>>

----------------------------------------------------------------------------
(* writeLoop. *)

\* Mutant: the window is open while either limit is not reached.
WindowOpenEither(m, b, w) ==
  ~flowEnabled \/ m < w.msgs \/ b < w.bytes

\* The condition of the send loop.
WindowOpen(m, b, w) ==
  ~flowEnabled \/ (m < w.msgs /\ b < w.bytes)

\* Where writeLoop goes at the top of its outer loop.
WindowStart == IF flowEnabled THEN "flow" ELSE "send"

\* The counters after writing n bytes in window w; the locals of an exhausted
\* window are dropped.  Without flow control nobody looks at them.
Written(m, b, w) ==
  IF ~flowEnabled
    THEN UNCHANGED <<writer, window, sent, bytes>>
    ELSE IF WindowOpen(m, b, w)
      THEN writer' = "send" /\ window' = w /\ sent' = m /\ bytes' = b
      ELSE writer' = "flow" /\ window' = NoWindow /\ sent' = 0 /\ bytes' = 0

\* The first ping.
PingOk ==
  /\ writer = "ping"
  /\ ws # "closed"
  /\ writer' = WindowStart
  /\ UNCHANGED <<loopVars, wireVars, pending, flowVars, handlerVars>>

\* Mutant: only the first ping is checked.
PingFailFirst ==
  /\ writer = "ping"
  /\ Dead
  /\ writer' = "close"
  /\ UNCHANGED <<loopVars, wireVars, pending, flowVars, handlerVars>>

\* The first ping, or the ping of the minute ticker, fails: the only way an
\* idle writer learns that the websocket is gone.
PingFail ==
  /\ writer \in {"ping", "flow", "send"}
  /\ Dead
  /\ writer' = "close"
  /\ UNCHANGED <<loopVars, wireVars, pending, flowVars, handlerVars>>

\* An hour without a flow-control message.
FlowTimeout ==
  /\ writer = "flow"
  /\ writer' = "close"
  /\ UNCHANGED <<loopVars, wireVars, pending, flowVars, handlerVars>>

WriterCancelled ==
  /\ writer \in {"flow", "send"}
  /\ ctxDone
  /\ writer' = "close"
  /\ UNCHANGED <<loopVars, wireVars, pending, flowVars, handlerVars>>

CreditMin(c) == IF c < CreditCap THEN c ELSE CreditCap

\* Every flow message entitles at least its own acknowledgement.
Entitled(grant) == IF grant.msgs = 0 THEN 1 ELSE grant.msgs

\* The reader hands a flow message over flowChannel; writeLoop acknowledges it
\* and counts the acknowledgement.  A failed write of it is only logged.
FlowReceived ==
  /\ run = "deliver"
  /\ writer = "flow"
  /\ run' = "read"
  /\ pending' = NoWindow
  /\ credit' = CreditMin(credit + Entitled(pending)) - 1
  /\ Written(1, AckSize, pending)
  /\ UNCHANGED <<dialVars, wireVars, handlerVars>>

\* writeLoop takes a message off writeCh and writes it.
WriteMessage(size) ==
  /\ writer = "send"
  /\ ws # "closed"
  /\ Written(sent + 1, bytes + size, window)
  /\ credit' = IF flowEnabled THEN credit - 1 ELSE credit
  /\ UNCHANGED <<loopVars, wireVars, pending, slots, timeouts>>

\* The message is the response of a handler of this session ...
WriteReply(size) ==
  /\ replying > 0
  /\ replying' = replying - 1
  /\ leaving' = leaving + 1
  /\ WriteMessage(size)

\* ... or comes from elsewhere: a plugin, an operation, an older handler.
WriteLocal(size) ==
  /\ WriteMessage(size)
  /\ UNCHANGED <<replying, leaving>>

\* writeMessage fails; the sender is let go all the same.
WriteFail ==
  /\ writer = "send"
  /\ Dead
  /\ writer' = "close"
  /\ \/ replying > 0 /\ replying' = replying - 1 /\ leaving' = leaving + 1
     \/ UNCHANGED <<replying, leaving>>
  /\ UNCHANGED <<loopVars, wireVars, pending, flowVars, slots, timeouts>>

\* Dispatch gives up when the context of the session is cancelled.
ReplyCancelled ==
  /\ replying > 0
  /\ ctxDone
  /\ replying' = replying - 1
  /\ leaving' = leaving + 1
  /\ UNCHANGED <<loopVars, wireVars, pending, writeVars, slots, timeouts>>

\* The deferred functions of writeLoop: close the websocket, then cancel.
WriterClose ==
  /\ writer = "close"
  /\ ws' = "closed"
  /\ writer' = "cancel"
  /\ UNCHANGED <<loopVars, ctxDone, toggle, breaker, flowEnabled,
                 pending, flowVars, handlerVars>>

WriterCancel ==
  /\ writer = "cancel"
  /\ ctxDone' = TRUE
  /\ writer' = "done"
  /\ UNCHANGED <<loopVars, ws, toggle, breaker, flowEnabled,
                 pending, flowVars, handlerVars>>

----------------------------------------------------------------------------
(* disconnectLoop. *)

BreakerFire ==
  /\ breaker = "on"
  /\ ws' = "closed"
  /\ breaker' = "done"
  /\ UNCHANGED <<loopVars, ctxDone, toggle, flowEnabled,
                 pending, writeVars, handlerVars>>

BreakerCancelled ==
  /\ breaker = "on"
  /\ ctxDone
  /\ breaker' = "done"
  /\ UNCHANGED <<loopVars, ws, ctxDone, toggle, flowEnabled,
                 pending, writeVars, handlerVars>>

----------------------------------------------------------------------------
(* Everybody else. *)

\* The network or the cloud drops the connection.
PeerBreaks ==
  /\ ws = "open"
  /\ ws' = "broken"
  /\ UNCHANGED <<loopVars, ctxDone, toggle, breaker, flowEnabled,
                 pending, writeVars, handlerVars>>

\* ToggleConnection and UpdateVersion read the field ce.cancel, which run
\* replaces without a lock, and then call what they read.
ToggleRead ==
  /\ ~first
  /\ toggle = "none"
  /\ toggle' = "current"
  /\ UNCHANGED <<loopVars, ws, ctxDone, breaker, flowEnabled,
                 pending, writeVars, handlerVars>>

ToggleCall ==
  /\ toggle # "none"
  /\ ctxDone' = (ctxDone \/ toggle = "current")
  /\ toggle' = "none"
  /\ UNCHANGED <<loopVars, ws, breaker, flowEnabled,
                 pending, writeVars, handlerVars>>

----------------------------------------------------------------------------
RunNext ==
  \/ Setup
  \/ WakeUp
  \/ \E b \in Backoffs \cup {0}, s \in {"NotConnected", "Rejected"} : DialFail(b, s)
  \/ \E f \in BOOLEAN : DialOk(f) \/ AuthFail(f)
  \/ Spawn
  \/ Drained

ReadNext ==
  \/ NextMessage
  \/ \E state \in {"broken", "closed"} : ReadFail(state)
  \/ Unreadable
  \/ \E g \in Grants : GotFlow(g)
  \/ GotRequest
  \/ HandleCancelled
  \/ DeliverCancelled
  \/ \E r \in BOOLEAN : SlotAcquired(r) \/ SlotTimeout(r)

HandlerNext == Release \/ ReplyCancelled

WriterNext ==
  \/ PingOk
  \/ PingFail
  \/ FlowTimeout
  \/ WriterCancelled
  \/ FlowReceived
  \/ \E n \in Sizes : WriteReply(n) \/ WriteLocal(n)
  \/ WriteFail
  \/ WriterClose
  \/ WriterCancel

OtherNext ==
  \/ BreakerFire
  \/ BreakerCancelled
  \/ PeerBreaks
  \/ ToggleRead
  \/ ToggleCall

Next == RunNext \/ ReadNext \/ HandlerNext \/ WriterNext \/ OtherNext

\* Every goroutine that can go on does.  Not assumed: that the cloud sends
\* anything, that a broken websocket fails a read, that anybody toggles.
\* The cloud accepts a dial now and then, and the buffer of a websocket this
\* side closed is finite.
Fairness ==
  /\ WF_vars(Setup)
  /\ WF_vars(WakeUp)
  /\ SF_vars(\E f \in BOOLEAN : DialOk(f))
  /\ WF_vars(\E b \in Backoffs \cup {0}, s \in {"NotConnected", "Rejected"} : DialFail(b, s))
  /\ WF_vars(Spawn)
  /\ WF_vars(Drained)
  /\ SF_vars(ReadFail("closed"))
  /\ WF_vars(Unreadable \/ GotRequest \/ \E g \in Grants : GotFlow(g))
  /\ WF_vars(HandleCancelled)
  /\ WF_vars(DeliverCancelled)
  /\ WF_vars(\E r \in BOOLEAN : SlotAcquired(r))
  /\ WF_vars(PingOk)
  /\ WF_vars(PingFail)
  /\ WF_vars(WriterCancelled)
  /\ WF_vars(FlowReceived)
  /\ WF_vars(WriterClose)
  /\ WF_vars(WriterCancel)
  /\ WF_vars(BreakerCancelled)

SafeSpec == Init /\ [][Next]_vars
Spec == SafeSpec /\ Fairness

----------------------------------------------------------------------------
(* Properties. *)

\* When run replaces the fields of the session (which it does without a lock)
\* nothing of the previous session is left that uses them: writeLoop and
\* disconnectLoop have returned, the websocket is closed, the context is
\* cancelled.
CleanSlate ==
  run = "setup" =>
    /\ writer \in {"none", "done"}
    /\ breaker # "on"
    /\ ws \in {"nil", "closed"}
    /\ first \/ ctxDone

\* Over a whole session, however flow messages and sends interleave, the
\* device never writes a message the cloud has not granted.
CreditRespected == credit >= 0

\* Handlers and handler slots: each handler that ran without a slot (the ten
\* second timeout) later takes the slot of another one, so the limit on
\* concurrent handlers is raised by one for the rest of the session, and by no
\* more.
SlotAccounting == replying + leaving = slots + timeouts

\* A session whose websocket died or whose context was cancelled is torn down
\* wherever its goroutines are blocked: in a read, on flowChannel, on the
\* limiter, on a handler slot, or waiting for a window.
DeadSessionEnds == (ctxDone \/ Dead) ~> run = "setup"

\* The connection always comes back: no interleaving of failures leaves run
\* waiting for goroutines that never return.
Reconnects == []<>Online

\* The sleep before a dial is the one the cloud asked for when it refused the
\* dial before, if such requests are honoured (comment of reconnectRate).
BackoffHonoured ==
  run = "backoff" /\ HonorServer /\ asked # 0 => sleep = asked

\* What CleanSlate and CreditRespected rest on: which goroutines can exist at
\* each point of run, what a writer that is leaving has done already, and that
\* the ghost credit covers the rest of the current window.
RoutinesInv ==
  /\ run \in {"setup", "backoff", "dial", "up"} =>
       writer \in {"none", "done"} /\ breaker # "on"
  /\ run \in {"backoff", "dial", "up"} => writer = "none"
  /\ run \in {"backoff", "dial"} => ws = "nil"
  /\ run = "setup" => ws \in {"nil", "closed"}
  /\ run = "up" => ws # "nil"
  /\ run \in Reading \cup {"drain"} => writer # "none" /\ ws # "nil"
  /\ writer \in {"cancel", "done"} => ws = "closed"
  /\ writer = "done" => ctxDone
  /\ run = "drain" => ctxDone
  /\ run = "setup" => first \/ ctxDone

WindowInv ==
  /\ credit >= 0
  /\ flowEnabled /\ writer = "send" =>
       sent < window.msgs /\ credit >= window.msgs - sent

SessionInv == TypeOK /\ RoutinesInv /\ WindowInv /\ SlotAccounting

\* Session implements Link.
LinkPhase ==
  IF run \in {"setup", "backoff", "dial", "up"} THEN "down"
  ELSE IF ws = "open" /\ ~ctxDone /\ Online THEN "up"
  ELSE "closing"

LinkRoutines ==
  (IF Online THEN {"reader"} ELSE {})
    \cup (IF writer \in {"none", "done"} THEN {} ELSE {"writer"})
    \cup (IF breaker = "on" THEN {"breaker"} ELSE {})

L == INSTANCE Link WITH phase <- LinkPhase, routines <- LinkRoutines

\* Every behaviour of the session is one of Link: it opens only with no
\* goroutine left over, never skips the closing phase, and once closing its
\* goroutines leave one by one until it is down.
ImplementsLink == L!Spec
============================================================================
