---------------------------- MODULE StreamsProofs ---------------------------
(***************************************************************************)
(* Proofs about the streams of a device: Streams for any start messages,   *)
(* operations, names, types and number of sessions, and Terminals for any  *)
(* capacity of the status channel and any number of inputs.                *)
(***************************************************************************)
EXTENDS Streams, Terminals, TLAPS

(***************************************************************************)
(* Streams.                                                                *)
(***************************************************************************)

\* A start message that was received has a name, and an operation that is
\* active a stream.
Named ==
  /\ \A s \in Starts : pc[s] # "idle" => name[s] \in Names
  /\ \A o \in Ops : opPc[o] = "active" => stream[o] \in Starts

\* An operation waits under the type that it asks for.
UnderItsType == \A t \in Types : streamOps[t] # None => OpType[streamOps[t]] = t

WellFormed == TypeOK /\ Named

Inv == WellFormed /\ UnderItsType /\ OneLivePerType /\ MapsExact

-----------------------------------------------------------------------------
LEMMA InitInv == Init => Inv
<1> SUFFICES ASSUME Init PROVE Inv
  OBVIOUS
<1> USE StreamsAssumption DEF Init
<1>1. 1 \in 1 .. MaxSessions
  OBVIOUS
<1>2. TypeOK
  BY <1>1 DEF TypeOK
<1>3. Named /\ UnderItsType /\ OneLivePerType /\ MapsExact
  BY DEF Named, UnderItsType, OneLivePerType, MapsExact, Running
<1> QED
  BY <1>2, <1>3 DEF Inv, WellFormed

LEMMA KindIs == ASSUME WellFormed, NEW s \in Starts, pc[s] # "idle"
                PROVE  name[s] \in Names /\ Kind(s) \in Types
BY StreamsAssumption DEF WellFormed, Named, Kind

LEMMA NotifyType ==
  ASSUME WellFormed, NEW t \in Types, NEW e \in Starts \cup {None}, Notify(t, e)
  PROVE  streamNotif' \in [Ops -> Starts \cup {None}]
<1>1. streamOps[t] \in Ops \cup {None}
  BY DEF WellFormed, TypeOK
<1> QED
  BY <1>1 DEF Notify, WellFormed, TypeOK

LEMMA TypesStep == WellFormed /\ [Next]_vars => WellFormed'
<1> SUFFICES ASSUME WellFormed, [Next]_vars PROVE WellFormed'
  OBVIOUS
<1> USE StreamsAssumption DEF WellFormed, TypeOK, Named, startVars, mapVars, opVars
<1>1. CASE UNCHANGED vars
  BY <1>1 DEF vars
<1>2. ASSUME NEW s \in Starts, NEW n \in Names, Lookup(s, n) PROVE WellFormed'
  BY <1>2 DEF Lookup
<1>3. ASSUME NEW s \in Starts, Answer(s) PROVE WellFormed'
  <2>1. streamNotif' \in [Ops -> Starts \cup {None}]
    BY <1>3, NotifyType, KindIs DEF Answer
  <2> QED
    BY <1>3, <2>1 DEF Answer
<1>4. ASSUME NEW s \in Starts, Register(s) PROVE WellFormed'
  <2>1. streamNotif' \in [Ops -> Starts \cup {None}]
    BY <1>4, NotifyType, KindIs DEF Register
  <2>2. closed' \subseteq Starts
    BY <1>4, KindIs DEF Register
  <2> QED
    BY <1>4, <2>1, <2>2 DEF Register
<1>5. ASSUME NEW s \in Starts, Emit(s) PROVE WellFormed'
  BY <1>5 DEF Emit
<1>6. ASSUME NEW s \in Starts, End(s) \/ EmitFails(s) PROVE WellFormed'
  BY <1>6 DEF End, EmitFails, Return
<1>7. ASSUME NEW s \in Starts, Take(s) PROVE WellFormed'
  BY <1>7 DEF Take
<1>8. ASSUME NEW n \in Names, CloseStream(n) PROVE WellFormed'
  BY <1>8 DEF CloseStream
<1>9. ASSUME NEW o \in Ops, StartOperation(o) PROVE WellFormed'
  BY <1>9 DEF StartOperation
<1>10. ASSUME NEW o \in Ops, Told(o) PROVE WellFormed'
  BY <1>10 DEF Told
<1>11. ASSUME NEW o \in Ops, TimedOut(o) PROVE WellFormed'
  BY <1>11 DEF TimedOut
<1>12. ASSUME NEW o \in Ops, Leave(o) PROVE WellFormed'
  BY <1>12 DEF Leave
<1>13. ASSUME NEW o \in Ops, Inactive(o) PROVE WellFormed'
  BY <1>13 DEF Inactive
<1>14. ASSUME NEW o \in Ops, Stop(o) PROVE WellFormed'
  BY <1>14 DEF Stop
<1>15. CASE NewSession
  BY <1>15 DEF NewSession
<1> QED
  BY <1>1, <1>2, <1>3, <1>4, <1>5, <1>6, <1>7, <1>8, <1>9, <1>10, <1>11, <1>12,
     <1>13, <1>14, <1>15 DEF Next

LEMMA InvStep == Inv /\ [Next]_vars => Inv'
<1> SUFFICES ASSUME Inv, [Next]_vars PROVE Inv'
  OBVIOUS
<1>0. WellFormed /\ WellFormed'
  BY TypesStep DEF Inv
<1> DEFINE Rest == UnderItsType /\ OneLivePerType /\ MapsExact
<1> SUFFICES Rest'
  BY <1>0 DEF Inv
<1>r. Rest
  BY DEF Inv
<1> USE <1>0, <1>r, StreamsAssumption
    DEF WellFormed, TypeOK, Named, UnderItsType, OneLivePerType, MapsExact, Running,
        Cancelled, Kind, startVars, mapVars, opVars
<1>1. CASE UNCHANGED vars
  BY <1>1 DEF vars
<1>2. ASSUME NEW s \in Starts, NEW n \in Names, Lookup(s, n) PROVE Rest'
  BY <1>2 DEF Lookup
<1>3. ASSUME NEW s \in Starts, Answer(s) PROVE Rest'
  BY <1>3 DEF Answer
<1>4. ASSUME NEW s \in Starts, Register(s) PROVE Rest'
  <2>1. UnderItsType' /\ OneLivePerType'
    BY <1>4 DEF Register
  <2>2. MapsExact'
    BY <1>4 DEF Register
  <2> QED
    BY <2>1, <2>2
<1>5. ASSUME NEW s \in Starts, Emit(s) PROVE Rest'
  BY <1>5 DEF Emit
<1>6. ASSUME NEW s \in Starts, End(s) \/ EmitFails(s) PROVE Rest'
  BY <1>6 DEF End, EmitFails, Return
<1>7. ASSUME NEW s \in Starts, Take(s) PROVE Rest'
  BY <1>7 DEF Take
<1>8. ASSUME NEW n \in Names, CloseStream(n) PROVE Rest'
  BY <1>8 DEF CloseStream
<1>9. ASSUME NEW o \in Ops, StartOperation(o) PROVE Rest'
  BY <1>9 DEF StartOperation
<1>10. ASSUME NEW o \in Ops, Told(o) PROVE Rest'
  BY <1>10 DEF Told
<1>11. ASSUME NEW o \in Ops, TimedOut(o) PROVE Rest'
  BY <1>11 DEF TimedOut
<1>12. ASSUME NEW o \in Ops, Leave(o) PROVE Rest'
  BY <1>12 DEF Leave
<1>13. ASSUME NEW o \in Ops, Inactive(o) PROVE Rest'
  BY <1>13 DEF Inactive
<1>14. ASSUME NEW o \in Ops, Stop(o) PROVE Rest'
  BY <1>14 DEF Stop
<1>15. CASE NewSession
  BY <1>15 DEF NewSession
<1> QED
  BY <1>1, <1>2, <1>3, <1>4, <1>5, <1>6, <1>7, <1>8, <1>9, <1>10, <1>11, <1>12,
     <1>13, <1>14, <1>15 DEF Next

LEMMA Invariance == Spec => []Inv
BY InitInv, InvStep, PTL DEF Spec

-----------------------------------------------------------------------------
\* The type invariant of the stream plugin.
THEOREM TypeCorrect == Spec => []TypeOK
<1>1. Inv => TypeOK
  BY DEF Inv, WellFormed
<1> QED
  BY <1>1, Invariance, PTL

\* At most one stream of a type is live, however many start messages are
\* handled at the same time, although the lookup and the registration of a
\* name are two critical sections.
THEOREM OneLiveStream == Spec => []OneLivePerType
<1>1. Inv => OneLivePerType
  BY DEF Inv
<1> QED
  BY <1>1, Invariance, PTL

\* A name leads to a stream that runs, and an entry for an operation to one
\* that waits, although streams and operations take out what others have put
\* there.
THEOREM MapsAreExact == Spec => []MapsExact
<1>1. Inv => MapsExact
  BY DEF Inv
<1> QED
  BY <1>1, Invariance, PTL
-----------------------------------------------------------------------------
(***************************************************************************)
(* Terminals.  The argument is about the wait group: it is the number of   *)
(* goroutines that owe it a Done, so that at zero nobody is left who could *)
(* offer an output.                                                        *)
(***************************************************************************)
\* Where each goroutine of a session can be: those of the other kind of session
\* never run.
Places ==
  /\ at["pty"] \in {"gone", "start", "loop", "read", "push", "check", "close", "wait"}
  /\ at["buffer"] \in {"gone", "select", "send", "drain"}
  /\ at["terminal"] \in {"gone", "select", "write", "return", "reap", "stop", "check",
                         "close", "wait"}
  /\ at["command"] \in {"gone", "read", "send", "wait command", "check", "close", "wait"}
  /\ at["stdin"] \in {"gone", "select", "write"}
  /\ mode = "terminal" => at["command"] = "gone" /\ at["stdin"] = "gone"
  /\ mode = "command" =>
       at["pty"] = "gone" /\ at["buffer"] = "gone" /\ at["terminal"] = "gone"
  /\ at["pty"] = "start" => at["buffer"] = "gone"
  /\ inner => at["terminal"] \in {"check", "close", "wait", "return"}

\* The goroutines that owe the wait group a Done.  runTerminal calls sendClose
\* before its own Done when a write fails, and after it otherwise.
Owing(g) ==
  \/ g = "pty" /\ at[g] \in {"start", "loop", "read", "push"}
  \/ g = "buffer" /\ at[g] # "gone"
  \/ g = "terminal" /\ (at[g] \in {"select", "write", "return"} \/ inner)
  \/ g = "command" /\ at[g] \in {"read", "send", "wait command"}
  \/ g = "stdin" /\ at[g] # "gone"

Owes(g) == IF Owing(g) THEN 1 ELSE 0

WaitGroup ==
  wg = Owes("pty") + Owes("buffer") + Owes("terminal") + Owes("command") + Owes("stdin")

\* Only the goroutine that closed quit waits to close the output, and it is
\* closed after the last Done.
ClosedInOrder ==
  /\ \A g \in Closers : at[g] = "wait" => quit = g /\ ~outClosed
  /\ outClosed => quit # "open" /\ wg = 0
  /\ crash # "output closed twice"

\* A reader that closed quit reads no more.  Unless the context is done, the
\* buffering goroutine starts with the reader, ends only after quit was closed,
\* and then has emptied the channel, and what it sends last is all there is.
Drained ==
  /\ quit = "pty" => at["pty"] \in {"wait", "gone"}
  /\ quit = "open" /\ ~done /\ mode = "terminal" =>
       /\ at["buffer"] # "drain"
       /\ at["buffer"] = "gone" => at["pty"] = "start"
  /\ quit = "pty" /\ ~done =>
       /\ at["buffer"] = "drain" => ~bufCh
       /\ at["buffer"] = "gone" => ~bufCh /\ ~allBuf

\* Past its wait for the process, runTerminal has reaped it, or could not signal
\* it: then it is past the wait too, and the kill timer is set until it fires.
PastReap ==
  /\ mode = "terminal" /\ at["terminal"] \in {"stop", "gone"} => proc = "reaped" \/ ~signalled
  /\ at["terminal"] \in {"check", "close", "wait"} /\ ~inner => proc = "reaped" \/ ~signalled
  /\ ~signalled => /\ mode = "terminal" /\ ~inner
                   /\ at["terminal"] \in {"check", "close", "wait", "gone"}
  /\ ~signalled /\ crash = "no" => killTimer \/ proc = "exited"

TerminalInv == TMTypeOK /\ Places /\ WaitGroup /\ ClosedInOrder /\ Drained /\ PastReap

-----------------------------------------------------------------------------
LEMMA TerminalInit == TMInit => TerminalInv
<1> SUFFICES ASSUME TMInit PROVE TerminalInv
  OBVIOUS
<1> USE TerminalsAssumption DEF TMInit, Opened, Goroutine, Goroutines, Closers
<1>1. ControlTypes
  BY DEF ControlTypes, Labels
<1>2. IoTypes
  <2>1. ptyOpen \in BOOLEAN
    BY Zenon
  <2>2. proc \in {"none", "running", "exited", "reaped"}
    OBVIOUS
  <2>3. 0 \in 0 .. ErrCap
    OBVIOUS
  <2> QED
    BY <2>1, <2>2, <2>3 DEF IoTypes
<1>3. StreamTypes
  <2>1. run \in {"idle", "feed", "ended"} /\ sink \in {"recv", "emit", "final", "done"}
    OBVIOUS
  <2>2. 0 \in 0 .. MaxInputs
    OBVIOUS
  <2> QED
    BY <2>1, <2>2 DEF StreamTypes
<1>4. wg \in 0 .. 3
  OBVIOUS
<1>5. Places /\ ClosedInOrder /\ Drained /\ PastReap
  BY DEF Places, ClosedInOrder, Drained, PastReap
<1>6. WaitGroup
  <2>1. CASE mode = "terminal"
    <3>1. at["pty"] = "start" /\ at["terminal"] = "select" /\ wg = 2
      BY <2>1
    <3>2. at["buffer"] = "gone" /\ at["command"] = "gone" /\ at["stdin"] = "gone"
      BY <2>1
    <3> QED
      BY <3>1, <3>2 DEF WaitGroup, Owes, Owing
  <2>2. CASE mode = "command"
    <3>1. /\ at["pty"] = "gone" /\ at["buffer"] = "gone" /\ at["terminal"] = "gone"
          /\ ~inner /\ at["stdin"] = "select"
          /\ \/ at["command"] = "read" /\ wg = 2
             \/ at["command"] = "gone" /\ wg = 1
      BY <2>2
    <3>2. ~Owing("pty") /\ ~Owing("buffer") /\ ~Owing("terminal") /\ Owing("stdin")
      BY <3>1 DEF Owing
    <3>3. CASE at["command"] = "read" /\ wg = 2
      <4>1. Owing("command")
        BY <3>3 DEF Owing
      <4> QED
        BY <3>2, <3>3, <4>1 DEF WaitGroup, Owes
    <3>4. CASE at["command"] = "gone" /\ wg = 1
      <4>1. ~Owing("command")
        BY <3>4 DEF Owing
      <4> QED
        BY <3>2, <3>4, <4>1 DEF WaitGroup, Owes
    <3> QED
      BY <3>1, <3>3, <3>4
  <2> QED
    BY <2>1, <2>2
<1> QED
  BY <1>1, <1>2, <1>3, <1>4, <1>5, <1>6 DEF TerminalInv, TMTypeOK

\* The steps that move no goroutine of the session.
Quiet ==
  \/ KillTimer \/ Exit
  \/ StreamInput \/ RunTakes \/ RunCancelled \/ Sink \/ Cancel
\* What they leave alone: all but the process, the stream and the status.
LEMMA QuietFrame ==
  ASSUME Quiet \/ UNCHANGED tmVars
  PROVE  /\ UNCHANGED <<mode, at, wg, quit, inner, outClosed, ptyOpen, bufCh, allBuf,
                        signalled>>
         /\ done => done'
         /\ proc = "reaped" => proc' = "reaped"
         /\ killTimer \/ proc = "exited" => killTimer' \/ proc' = "exited" \/ crash' # "no"
         /\ crash' \in {crash, "kill failed"}
<1> USE DEF Quiet, tmVars, killVars, ioVars, streamVars, KillTimer, Exit, StreamInput, RunTakes,
            RunCancelled, Sink, SinkEmit, SinkEnds, SinkFinal, Cancel
<1>1. UNCHANGED <<mode, at, wg, quit, inner, outClosed, ptyOpen, bufCh, allBuf, signalled>>
  OBVIOUS
<1>2. done => done'
  OBVIOUS
<1>3. proc = "reaped" => proc' = "reaped"
  OBVIOUS
<1>4. crash' \in {crash, "kill failed"}
  OBVIOUS
<1>5. killTimer \/ proc = "exited" => killTimer' \/ proc' = "exited" \/ crash' # "no"
  OBVIOUS
<1> QED
  BY <1>1, <1>2, <1>3, <1>4, <1>5
\* A goroutine moves alone.
LEMMA Moved ==
  ASSUME TMTypeOK, NEW g \in Goroutines, NEW l, Goto(g, l)
  PROVE  at'[g] = l /\ \A h \in Goroutines \ {g} : at'[h] = at[h]
BY DEF TMTypeOK, ControlTypes, Goto

\* A goroutine owes the wait group one Done or none.
LEMMA Debts == ASSUME NEW g PROVE Owes(g) \in {0, 1} /\ Owes(g)' \in {0, 1}
BY DEF Owes

\* What the other goroutines owe does not change when one moves.
LEMMA OthersOwe ==
  ASSUME TMTypeOK, WaitGroup, NEW g \in Goroutines, NEW l, Goto(g, l),
         g = "terminal" \/ inner' = inner
  PROVE  \A h \in Goroutines \ {g} : Owes(h)' = Owes(h)
<1>1. at'[g] = l /\ \A h \in Goroutines \ {g} : at'[h] = at[h]
  BY Moved
<1> SUFFICES ASSUME NEW h \in Goroutines \ {g} PROVE Owes(h)' = Owes(h)
  OBVIOUS
<1>2. at'[h] = at[h]
  BY <1>1
<1>3. Owing(h)' <=> Owing(h)
  <2>1. CASE h = "terminal"
    <3>1. inner' = inner
      BY <2>1
    <3> QED
      BY <1>2, <3>1, Zenon DEF Owing
  <2>2. CASE h # "terminal"
    BY <1>2, <2>2, Zenon DEF Owing
  <2> QED
    BY <2>1, <2>2
<1> QED
  BY <1>3, Zenon DEF Owes

\* A goroutine that moves and owes what it owed before leaves the wait group alone.
LEMMA StillOwes ==
  ASSUME TMTypeOK, WaitGroup, NEW g \in Goroutines, NEW l, Goto(g, l),
         g = "terminal" \/ inner' = inner, wg' = wg, Owing(g)' <=> Owing(g)
  PROVE  WaitGroup'
<1>1. Owes(g)' = Owes(g)
  BY Zenon DEF Owes
<1> QED
  BY <1>1, OthersOwe, Debts DEF WaitGroup, Goroutines

\* A goroutine that stops owing calls Done.
LEMMA PaysBack ==
  ASSUME TMTypeOK, WaitGroup, NEW g \in Goroutines, NEW l, Goto(g, l),
         g = "terminal" \/ inner' = inner, wg' = wg - 1, Owing(g), ~Owing(g)'
  PROVE  WaitGroup'
<1>1. Owes(g) = 1 /\ Owes(g)' = 0
  BY Zenon DEF Owes
<1> QED
  BY <1>1, OthersOwe, Debts DEF WaitGroup, Goroutines

\* While somebody owes a Done the wait group is not zero.
LEMMA SomebodyOwes ==
  ASSUME WaitGroup, NEW g \in Goroutines, Owing(g)
  PROVE  wg # 0
<1>1. Owes(g) = 1
  BY Zenon DEF Owes
<1> QED
  BY <1>1, Debts DEF WaitGroup, Goroutines

\* The wait group goes up and down with what is owed.
LEMMA WaitGroupStep == TerminalInv /\ [TMNext]_tmVars => WaitGroup'
<1> SUFFICES ASSUME TerminalInv, [TMNext]_tmVars PROVE WaitGroup'
  OBVIOUS
<1> USE DEF killVars, ioVars, streamVars
<1>0. TMTypeOK /\ Places /\ WaitGroup
  BY DEF TerminalInv
<1> USE <1>0
<1>1. CASE Quiet \/ UNCHANGED tmVars
  <2>1. UNCHANGED <<at, wg, inner>>
    BY <1>1, QuietFrame
  <2> QED
    BY <2>1 DEF WaitGroup, Owes, Owing
<1>2. ASSUME NEW g \in Closers, Check(g) PROVE WaitGroup'
  <2>1. Goto(g, IF Closed THEN After(g) ELSE "close") /\ UNCHANGED <<wg, inner>> /\ g \in Goroutines
    BY <1>2 DEF Check, Closers, Goroutines
  <2>2. at'[g] = IF Closed THEN After(g) ELSE "close"
    BY <2>1, Moved
  <2>3. Owing(g)' <=> Owing(g)
    BY <1>2, <2>1, <2>2 DEF Check, After, Owing, Closers
  <2> QED
    BY <2>1, <2>3, StillOwes
<1>3. ASSUME NEW g \in Closers, CloseQuit(g) PROVE WaitGroup'
  <2>1. UNCHANGED <<wg, inner>> /\ (at' = at \/ Goto(g, "wait"))
    BY <1>3 DEF CloseQuit
  <2>2. CASE at' = at
    BY <2>1, <2>2 DEF WaitGroup, Owes, Owing
  <2>3. CASE Goto(g, "wait")
    <3>1. at'[g] = "wait" /\ g \in Goroutines
      BY <2>3, Moved DEF Goroutines, Closers
    <3>2. at[g] = "close" /\ inner' = inner
      BY <1>3, <2>1 DEF CloseQuit
    <3>3. Owing(g)' <=> Owing(g)
      BY <3>1, <3>2, Zenon DEF Owing
    <3> QED
      BY <2>1, <2>3, <3>1, <3>3, StillOwes
  <2> QED
    BY <2>1, <2>2, <2>3
<1>4. ASSUME NEW g \in Closers, CloseOutput(g) PROVE WaitGroup'
  <2>1. Goto(g, After(g)) /\ UNCHANGED <<wg, inner>> /\ g \in Goroutines
    BY <1>4 DEF CloseOutput, Closers, Goroutines
  <2>2. at'[g] = After(g)
    BY <2>1, Moved
  <2>3. Owing(g)' <=> Owing(g)
    <3>1. at[g] = "wait" /\ inner' = inner
      BY <1>4, <2>1 DEF CloseOutput
    <3>2. CASE g = "terminal" /\ inner
      BY <2>2, <3>1, <3>2 DEF After, Owing
    <3>3. CASE ~(g = "terminal" /\ inner)
      <4>1. at'[g] = "gone"
        BY <2>2, <3>3 DEF After
      <4> QED
        BY <3>1, <3>3, <4>1 DEF Owing, Closers
    <3> QED
      BY <3>2, <3>3
  <2> QED
    BY <2>1, <2>3, StillOwes
<1>5. CASE PtyStart
  <2>1. at' = [at EXCEPT !["pty"] = "loop", !["buffer"] = "select"]
    BY <1>5 DEF PtyStart
  <2>2. at'["pty"] = "loop" /\ at'["buffer"] = "select" /\ at["buffer"] = "gone"
    BY <1>5, <2>1 DEF TMTypeOK, ControlTypes, Goroutines, PtyStart, Places
  <2>3. \A h \in {"terminal", "command", "stdin"} : at'[h] = at[h]
    BY <2>1 DEF TMTypeOK, ControlTypes, Goroutines
  <2>4. Owes("buffer") = 0 /\ Owes("buffer")' = 1
    BY <2>2 DEF Owes, Owing
  <2>5. Owes("pty")' = Owes("pty")
    BY <1>5, <2>2 DEF Owes, Owing, PtyStart
  <2>6. ASSUME NEW h \in {"terminal", "command", "stdin"} PROVE Owes(h)' = Owes(h)
    <3>1. at'[h] = at[h] /\ inner' = inner
      BY <1>5, <2>3 DEF PtyStart
    <3> QED
      BY <3>1, Zenon DEF Owes, Owing
  <2> QED
    BY <1>5, <2>4, <2>5, <2>6, Debts DEF WaitGroup, PtyStart
<1>6. CASE PtyReturns
  <2>1. Goto("pty", "check") /\ wg' = wg - 1 /\ inner' = inner
    BY <1>6 DEF PtyReturns
  <2>2. at'["pty"] = "check"
    BY <2>1, Moved DEF Goroutines
  <2>3. Owing("pty") /\ ~Owing("pty")'
    BY <1>6, <2>2 DEF PtyReturns, Owing
  <2> QED
    BY <2>1, <2>3, PaysBack DEF Goroutines
<1>7. CASE PtyLoop
  <2>1. Goto("pty", "read") /\ wg' = wg /\ inner' = inner
    BY <1>7 DEF PtyLoop
  <2>2. at'["pty"] = "read"
    BY <2>1, Moved DEF Goroutines
  <2>3. Owing("pty")' <=> Owing("pty")
    BY <1>7, <2>2 DEF PtyLoop, Owing
  <2> QED
    BY <2>1, <2>3, StillOwes DEF Goroutines
<1>8. CASE PtyPush
  <2>1. Goto("pty", "loop") /\ wg' = wg /\ inner' = inner
    BY <1>8 DEF PtyPush
  <2>2. at'["pty"] = "loop"
    BY <2>1, Moved DEF Goroutines
  <2>3. Owing("pty")' <=> Owing("pty")
    BY <1>8, <2>2 DEF PtyPush, Owing
  <2> QED
    BY <2>1, <2>3, StillOwes DEF Goroutines
<1>9. CASE PtyRead
  <2>1. Goto("pty", "push") /\ wg' = wg /\ inner' = inner
    BY <1>9 DEF PtyRead
  <2>2. at'["pty"] = "push"
    BY <2>1, Moved DEF Goroutines
  <2>3. Owing("pty")' <=> Owing("pty")
    BY <1>9, <2>2 DEF PtyRead, Owing
  <2> QED
    BY <2>1, <2>3, StillOwes DEF Goroutines
<1>10. CASE BufferTimer
  <2>1. Goto("buffer", "send") /\ wg' = wg /\ inner' = inner
    BY <1>10 DEF BufferTimer
  <2>2. at'["buffer"] = "send"
    BY <2>1, Moved DEF Goroutines
  <2>3. Owing("buffer")' <=> Owing("buffer")
    BY <1>10, <2>2 DEF BufferTimer, Owing
  <2> QED
    BY <2>1, <2>3, StillOwes DEF Goroutines
<1>11. CASE BufferSend
  <2>1. Goto("buffer", "select") /\ wg' = wg /\ inner' = inner
    BY <1>11 DEF BufferSend, Output
  <2>2. at'["buffer"] = "select"
    BY <2>1, Moved DEF Goroutines
  <2>3. Owing("buffer")' <=> Owing("buffer")
    BY <1>11, <2>2 DEF BufferSend, Output, Owing
  <2> QED
    BY <2>1, <2>3, StillOwes DEF Goroutines
<1>12. CASE BufferDrained
  <2>1. Goto("buffer", "gone") /\ wg' = wg - 1 /\ inner' = inner
    BY <1>12 DEF BufferDrained, Output
  <2>2. at'["buffer"] = "gone"
    BY <2>1, Moved DEF Goroutines
  <2>3. Owing("buffer") /\ ~Owing("buffer")'
    BY <1>12, <2>2 DEF BufferDrained, Output, Owing
  <2> QED
    BY <2>1, <2>3, PaysBack DEF Goroutines
<1>13. CASE BufferCancelled
  <2>1. Goto("buffer", "gone") /\ wg' = wg - 1 /\ inner' = inner
    BY <1>13 DEF BufferCancelled
  <2>2. at'["buffer"] = "gone"
    BY <2>1, Moved DEF Goroutines
  <2>3. Owing("buffer") /\ ~Owing("buffer")'
    BY <1>13, <2>2 DEF BufferCancelled, Owing
  <2> QED
    BY <2>1, <2>3, PaysBack DEF Goroutines
<1>14. CASE TerminalQuit
  <2>1. Goto("terminal", "return") /\ wg' = wg
    BY <1>14 DEF TerminalQuit
  <2>2. at'["terminal"] = "return"
    BY <2>1, Moved DEF Goroutines
  <2>3. Owing("terminal")' <=> Owing("terminal")
    BY <1>14, <2>2 DEF TerminalQuit, Owing
  <2> QED
    BY <2>1, <2>3, StillOwes DEF Goroutines
<1>15. CASE TerminalReturn
  <2>1. PICK l \in {"reap", "check"} : Goto("terminal", l) /\ wg' = wg - 1
    BY <1>15 DEF TerminalReturn
  <2>2. at'["terminal"] = l
    BY <2>1, Moved DEF Goroutines
  <2>3. Owing("terminal") /\ ~Owing("terminal")'
    BY <1>15, <2>2 DEF TerminalReturn, Owing
  <2> QED
    BY <2>1, <2>3, PaysBack DEF Goroutines
<1>16. CASE TerminalReap
  <2>1. Goto("terminal", "stop") /\ wg' = wg
    BY <1>16 DEF TerminalReap
  <2>2. at'["terminal"] = "stop"
    BY <2>1, Moved DEF Goroutines
  <2>3. Owing("terminal")' <=> Owing("terminal")
    BY <1>16, <2>2 DEF TerminalReap, Owing
  <2> QED
    BY <2>1, <2>3, StillOwes DEF Goroutines
<1>17. CASE TerminalStopTimer
  <2>1. Goto("terminal", "check") /\ wg' = wg
    BY <1>17 DEF TerminalStopTimer
  <2>2. at'["terminal"] = "check"
    BY <2>1, Moved DEF Goroutines
  <2>3. Owing("terminal")' <=> Owing("terminal")
    BY <1>17, <2>2 DEF TerminalStopTimer, Owing, Places
  <2> QED
    BY <2>1, <2>3, StillOwes DEF Goroutines
<1>18. CASE TerminalWriteFails
  <2>1. Goto("terminal", "check") /\ wg' = wg
    BY <1>18 DEF TerminalWriteFails
  <2>2. at'["terminal"] = "check"
    BY <2>1, Moved DEF Goroutines
  <2>3. Owing("terminal")' <=> Owing("terminal")
    BY <1>18, <2>2 DEF TerminalWriteFails, Owing
  <2> QED
    BY <2>1, <2>3, StillOwes DEF Goroutines
<1>19. CASE TerminalResizeFails
  <2>1. Goto("terminal", "return") /\ wg' = wg
    BY <1>19 DEF TerminalResizeFails
  <2>2. at'["terminal"] = "return"
    BY <2>1, Moved DEF Goroutines
  <2>3. Owing("terminal")' <=> Owing("terminal")
    BY <1>19, <2>2 DEF TerminalResizeFails, Owing
  <2> QED
    BY <2>1, <2>3, StillOwes DEF Goroutines
<1>20. CASE TerminalTimeout
  <2>1. Goto("terminal", "return") /\ wg' = wg
    BY <1>20 DEF TerminalTimeout
  <2>2. at'["terminal"] = "return"
    BY <2>1, Moved DEF Goroutines
  <2>3. Owing("terminal")' <=> Owing("terminal")
    BY <1>20, <2>2 DEF TerminalTimeout, Owing
  <2> QED
    BY <2>1, <2>3, StillOwes DEF Goroutines
<1>21. CASE StdinQuit
  <2>1. Goto("stdin", "gone") /\ wg' = wg - 1 /\ inner' = inner
    BY <1>21 DEF StdinQuit
  <2>2. at'["stdin"] = "gone"
    BY <2>1, Moved DEF Goroutines
  <2>3. Owing("stdin") /\ ~Owing("stdin")'
    BY <1>21, <2>2 DEF StdinQuit, Owing
  <2> QED
    BY <2>1, <2>3, PaysBack DEF Goroutines
<1>22. CASE CommandSend
  <2>1. Goto("command", "read") /\ wg' = wg /\ inner' = inner
    BY <1>22 DEF CommandSend, Output
  <2>2. at'["command"] = "read"
    BY <2>1, Moved DEF Goroutines
  <2>3. Owing("command")' <=> Owing("command")
    BY <1>22, <2>2 DEF CommandSend, Output, Owing
  <2> QED
    BY <2>1, <2>3, StillOwes DEF Goroutines
<1>23. CASE CommandExit
  <2>1. Goto("command", "check") /\ wg' = wg - 1 /\ inner' = inner
    BY <1>23 DEF CommandExit
  <2>2. at'["command"] = "check"
    BY <2>1, Moved DEF Goroutines
  <2>3. Owing("command") /\ ~Owing("command")'
    BY <1>23, <2>2 DEF CommandExit, Owing
  <2> QED
    BY <2>1, <2>3, PaysBack DEF Goroutines
<1>24. CASE CommandCancelled
  <2>1. Goto("command", "check") /\ wg' = wg - 1 /\ inner' = inner
    BY <1>24 DEF CommandCancelled
  <2>2. at'["command"] = "check"
    BY <2>1, Moved DEF Goroutines
  <2>3. Owing("command") /\ ~Owing("command")'
    BY <1>24, <2>2 DEF CommandCancelled, Owing
  <2> QED
    BY <2>1, <2>3, PaysBack DEF Goroutines
<1>25. CASE BufferTake
  <2>1. PICK l \in {"select", "send"} : Goto("buffer", l) /\ UNCHANGED <<wg, inner>>
    BY <1>25 DEF BufferTake
  <2>2. at'["buffer"] = l
    BY <2>1, Moved DEF Goroutines
  <2>3. Owing("buffer")' <=> Owing("buffer")
    BY <1>25, <2>2 DEF BufferTake, Owing
  <2> QED
    BY <2>1, <2>3, StillOwes DEF Goroutines
<1>26. CASE CommandRead
  <2>1. PICK l \in {"send", "wait command"} : Goto("command", l) /\ UNCHANGED <<wg, inner>>
    BY <1>26 DEF CommandRead
  <2>2. at'["command"] = l
    BY <2>1, Moved DEF Goroutines
  <2>3. Owing("command")' <=> Owing("command")
    BY <1>26, <2>2 DEF CommandRead, Owing
  <2> QED
    BY <2>1, <2>3, StillOwes DEF Goroutines
<1>27. CASE BufferQuit
  <2>1. \/ Goto("buffer", "drain") /\ wg' = wg
        \/ Goto("buffer", "gone") /\ wg' = wg - 1
    BY <1>27 DEF BufferQuit
  <2>2. inner' = inner /\ at["buffer"] = "select"
    BY <1>27 DEF BufferQuit
  <2>3. CASE Goto("buffer", "drain") /\ wg' = wg
    <3>1. at'["buffer"] = "drain"
      BY <2>3, Moved DEF Goroutines
    <3>2. Owing("buffer")' <=> Owing("buffer")
      BY <2>2, <3>1 DEF Owing
    <3> QED
      BY <2>2, <2>3, <3>2, StillOwes DEF Goroutines
  <2>4. CASE Goto("buffer", "gone") /\ wg' = wg - 1
    <3>1. at'["buffer"] = "gone"
      BY <2>4, Moved DEF Goroutines
    <3>2. Owing("buffer") /\ ~Owing("buffer")'
      BY <2>2, <3>1 DEF Owing
    <3> QED
      BY <2>2, <2>4, <3>2, PaysBack DEF Goroutines
  <2> QED
    BY <2>1, <2>3, <2>4
<1>28. CASE StdinTimeout \/ StdinFails
  <2>1. Kill("stdin") /\ inner' = inner /\ at["stdin"] \in {"select", "write"}
    BY <1>28 DEF StdinTimeout, StdinFails
  <2>2. CASE UNCHANGED <<at, wg>>
    <3>1. \A g : Owing(g)' <=> Owing(g)
      BY <2>1, <2>2, Zenon DEF Owing
    <3>2. \A g : Owes(g)' = Owes(g)
      BY <3>1, Zenon DEF Owes
    <3> QED
      BY <2>2, <3>2 DEF WaitGroup
  <2>3. CASE Goto("stdin", "gone") /\ wg' = wg - 1
    <3>1. at'["stdin"] = "gone"
      BY <2>3, Moved DEF Goroutines
    <3>2. Owing("stdin") /\ ~Owing("stdin")'
      BY <2>1, <3>1 DEF Owing
    <3> QED
      BY <2>1, <2>3, <3>2, PaysBack DEF Goroutines
  <2> QED
    BY <2>1, <2>2, <2>3 DEF Kill
<1>29. CASE TerminalInput
  <2>1. PICK l \in {"select", "write"} : Goto("terminal", l) /\ UNCHANGED <<wg, inner>>
    BY <1>29 DEF TerminalInput
  <2>2. at'["terminal"] = l
    BY <2>1, Moved DEF Goroutines
  <2>3. Owing("terminal")' <=> Owing("terminal")
    BY <1>29, <2>2 DEF TerminalInput, Owing
  <2> QED
    BY <2>1, <2>3, StillOwes DEF Goroutines
<1>30. CASE TerminalWritten
  <2>1. Goto("terminal", "select") /\ wg' = wg
    BY <1>30 DEF TerminalWritten
  <2>2. at'["terminal"] = "select"
    BY <2>1, Moved DEF Goroutines
  <2>3. Owing("terminal")' <=> Owing("terminal")
    BY <1>30, <2>2 DEF TerminalWritten, Owing
  <2> QED
    BY <2>1, <2>3, StillOwes DEF Goroutines
<1>31. CASE StdinInput
  <2>1. Goto("stdin", "write") /\ wg' = wg /\ inner' = inner
    BY <1>31 DEF StdinInput
  <2>2. at'["stdin"] = "write"
    BY <2>1, Moved DEF Goroutines
  <2>3. Owing("stdin")' <=> Owing("stdin")
    BY <1>31, <2>2 DEF StdinInput, Owing
  <2> QED
    BY <2>1, <2>3, StillOwes DEF Goroutines
<1>32. CASE StdinWritten
  <2>1. Goto("stdin", "select") /\ wg' = wg /\ inner' = inner
    BY <1>32 DEF StdinWritten
  <2>2. at'["stdin"] = "select"
    BY <2>1, Moved DEF Goroutines
  <2>3. Owing("stdin")' <=> Owing("stdin")
    BY <1>32, <2>2 DEF StdinWritten, Owing
  <2> QED
    BY <2>1, <2>3, StillOwes DEF Goroutines
<1> QED
  BY <1>1, <1>2, <1>3, <1>4, <1>5, <1>6, <1>7, <1>8, <1>9, <1>10, <1>11, <1>12,
     <1>13, <1>14, <1>15, <1>16, <1>17, <1>18, <1>19, <1>20, <1>21, <1>22, <1>23,
     <1>24, <1>25, <1>26, <1>27, <1>28, <1>29, <1>30, <1>31, <1>32
     DEF TMNext, Quiet, Closing, Pty, Buffer, Terminal, Stdin, Command, Sink

\* No goroutine gets to a place of another one.
LEMMA PlacesStep == TerminalInv /\ [TMNext]_tmVars => Places'
<1> SUFFICES ASSUME TerminalInv, [TMNext]_tmVars PROVE Places'
  OBVIOUS
<1>0. at = [g \in Goroutines |-> at[g]]
  BY DEF TerminalInv, TMTypeOK, ControlTypes
<1>p. Places
  BY DEF TerminalInv
<1>1. CASE Quiet \/ UNCHANGED tmVars
  <2>1. UNCHANGED <<mode, at, inner>>
    BY <1>1, QuietFrame
  <2>2. mode' = mode /\ (inner' => inner)
    BY <2>1
  <2>3. \A g \in Goroutines : at'[g] = at[g]
    BY <2>1
  <2> QED
    BY <1>p, <2>2, <2>3 DEF Places, Goroutines
<1> USE <1>0, <1>p DEF Places, Goroutines, Closers, Goto, killVars, ioVars, streamVars
<1>2. ASSUME NEW g \in Closers, Check(g) PROVE Places'
  BY <1>2 DEF Check, After
<1>3. ASSUME NEW g \in Closers, CloseQuit(g) PROVE Places'
  BY <1>3 DEF CloseQuit, After
<1>4. ASSUME NEW g \in Closers, CloseOutput(g) PROVE Places'
  BY <1>4 DEF CloseOutput, After
<1>5. CASE PtyStart
  BY <1>5 DEF PtyStart
<1>6. CASE PtyReturns
  BY <1>6 DEF PtyReturns
<1>7. CASE PtyLoop
  BY <1>7 DEF PtyLoop
<1>8. CASE PtyPush
  BY <1>8 DEF PtyPush
<1>9. CASE PtyRead
  BY <1>9 DEF PtyRead
<1>10. CASE BufferTimer
  BY <1>10 DEF BufferTimer
<1>11. CASE BufferSend
  BY <1>11 DEF BufferSend, Output
<1>12. CASE BufferQuit
  BY <1>12 DEF BufferQuit
<1>13. CASE BufferDrained
  BY <1>13 DEF BufferDrained, Output
<1>14. CASE BufferCancelled
  BY <1>14 DEF BufferCancelled
<1>15. CASE BufferTake
  BY <1>15 DEF BufferTake
<1>16. CASE TerminalQuit
  BY <1>16 DEF TerminalQuit
<1>17. CASE TerminalReturn
  BY <1>17 DEF TerminalReturn
<1>18. CASE TerminalReap
  BY <1>18 DEF TerminalReap
<1>19. CASE TerminalStopTimer
  BY <1>19 DEF TerminalStopTimer
<1>20. CASE TerminalWriteFails
  BY <1>20 DEF TerminalWriteFails
<1>21. CASE TerminalResizeFails
  BY <1>21 DEF TerminalResizeFails
<1>22. CASE TerminalTimeout
  BY <1>22 DEF TerminalTimeout, SendError
<1>23. CASE StdinTimeout
  BY <1>23 DEF StdinTimeout, Kill, SendError
<1>24. CASE StdinQuit
  BY <1>24 DEF StdinQuit
<1>25. CASE StdinFails
  BY <1>25 DEF StdinFails, Kill
<1>26. CASE CommandSend
  BY <1>26 DEF CommandSend, Output
<1>27. CASE CommandExit
  BY <1>27 DEF CommandExit, SendError
<1>28. CASE CommandCancelled
  BY <1>28 DEF CommandCancelled
<1>29. CASE CommandRead
  BY <1>29 DEF CommandRead
<1>30. CASE TerminalInput
  BY <1>30 DEF TerminalInput
<1>31. CASE TerminalWritten
  BY <1>31 DEF TerminalWritten
<1>32. CASE StdinInput
  BY <1>32 DEF StdinInput
<1>33. CASE StdinWritten
  BY <1>33 DEF StdinWritten
<1> QED
  BY <1>1, <1>2, <1>3, <1>4, <1>5, <1>6, <1>7, <1>8, <1>9, <1>10, <1>11, <1>12,
     <1>13, <1>14, <1>15, <1>16, <1>17, <1>18, <1>19, <1>20, <1>21, <1>22, <1>23,
     <1>24, <1>25, <1>26, <1>27, <1>28, <1>29, <1>30, <1>31, <1>32, <1>33
     DEF TMNext, Quiet, Closing, Pty, Buffer, Terminal, Stdin, Command

\* A goroutine that owes a Done keeps the output open.
LEMMA ClosedStep == TerminalInv /\ [TMNext]_tmVars => ClosedInOrder'
<1> SUFFICES ASSUME TerminalInv, [TMNext]_tmVars PROVE ClosedInOrder'
  OBVIOUS
<1>0. at = [g \in Goroutines |-> at[g]]
  BY DEF TerminalInv, TMTypeOK, ControlTypes
<1>p. Places /\ ClosedInOrder /\ WaitGroup
  BY DEF TerminalInv
<1>1. CASE Quiet \/ UNCHANGED tmVars
  <2>1. UNCHANGED <<at, wg, quit, outClosed>> /\ crash' \in {crash, "kill failed"}
    BY <1>1, QuietFrame
  <2> QED
    BY <1>p, <2>1 DEF ClosedInOrder
<1> USE <1>0, <1>p
    DEF ClosedInOrder, Places, Goroutines, Closers, Closed, Goto, killVars, ioVars, streamVars
<1>2. ASSUME NEW g \in Closers, Check(g) PROVE ClosedInOrder'
  BY <1>2 DEF Check, After
<1>3. ASSUME NEW g \in Closers, CloseQuit(g) PROVE ClosedInOrder'
  BY <1>3 DEF CloseQuit, After
<1>4. ASSUME NEW g \in Closers, CloseOutput(g) PROVE ClosedInOrder'
  BY <1>4 DEF CloseOutput, After
<1>5. CASE PtyStart
  <2>1. Owing("pty")
    BY <1>5 DEF PtyStart, Owing
  <2>2. ~outClosed
    BY <2>1, SomebodyOwes
  <2> QED
    BY <1>5, <2>2 DEF PtyStart
<1>6. CASE PtyReturns
  <2>1. Owing("pty")
    BY <1>6 DEF PtyReturns, Owing
  <2>2. ~outClosed
    BY <2>1, SomebodyOwes
  <2> QED
    BY <1>6, <2>2 DEF PtyReturns
<1>7. CASE PtyLoop
  BY <1>7 DEF PtyLoop
<1>8. CASE PtyPush
  BY <1>8 DEF PtyPush
<1>9. CASE PtyRead
  BY <1>9 DEF PtyRead
<1>10. CASE BufferTimer
  BY <1>10 DEF BufferTimer
<1>11. CASE BufferSend
  BY <1>11 DEF BufferSend, Output
<1>12. CASE BufferQuit
  <2>1. Owing("buffer")
    BY <1>12 DEF BufferQuit, Owing
  <2>2. ~outClosed
    BY <2>1, SomebodyOwes
  <2> QED
    BY <1>12, <2>2 DEF BufferQuit
<1>13. CASE BufferDrained
  <2>1. Owing("buffer")
    BY <1>13 DEF BufferDrained, Owing
  <2>2. ~outClosed
    BY <2>1, SomebodyOwes
  <2> QED
    BY <1>13, <2>2 DEF BufferDrained, Output
<1>14. CASE BufferCancelled
  <2>1. Owing("buffer")
    BY <1>14 DEF BufferCancelled, Owing
  <2>2. ~outClosed
    BY <2>1, SomebodyOwes
  <2> QED
    BY <1>14, <2>2 DEF BufferCancelled
<1>15. CASE BufferTake
  BY <1>15 DEF BufferTake
<1>16. CASE TerminalQuit
  BY <1>16 DEF TerminalQuit
<1>17. CASE TerminalReturn
  <2>1. Owing("terminal")
    BY <1>17 DEF TerminalReturn, Owing
  <2>2. ~outClosed
    BY <2>1, SomebodyOwes
  <2> QED
    BY <1>17, <2>2 DEF TerminalReturn
<1>18. CASE TerminalReap
  BY <1>18 DEF TerminalReap
<1>19. CASE TerminalStopTimer
  BY <1>19 DEF TerminalStopTimer
<1>20. CASE TerminalWriteFails
  BY <1>20 DEF TerminalWriteFails
<1>21. CASE TerminalResizeFails
  BY <1>21 DEF TerminalResizeFails
<1>22. CASE TerminalTimeout
  BY <1>22 DEF TerminalTimeout, SendError
<1>23. CASE StdinTimeout
  <2>1. Owing("stdin")
    BY <1>23 DEF StdinTimeout, Owing
  <2>2. ~outClosed
    BY <2>1, SomebodyOwes
  <2> QED
    BY <1>23, <2>2 DEF StdinTimeout, Kill, SendError
<1>24. CASE StdinQuit
  <2>1. Owing("stdin")
    BY <1>24 DEF StdinQuit, Owing
  <2>2. ~outClosed
    BY <2>1, SomebodyOwes
  <2> QED
    BY <1>24, <2>2 DEF StdinQuit
<1>25. CASE StdinFails
  <2>1. Owing("stdin")
    BY <1>25 DEF StdinFails, Owing
  <2>2. ~outClosed
    BY <2>1, SomebodyOwes
  <2> QED
    BY <1>25, <2>2 DEF StdinFails, Kill
<1>26. CASE CommandSend
  BY <1>26 DEF CommandSend, Output
<1>27. CASE CommandExit
  <2>1. Owing("command")
    BY <1>27 DEF CommandExit, Owing
  <2>2. ~outClosed
    BY <2>1, SomebodyOwes
  <2> QED
    BY <1>27, <2>2 DEF CommandExit, SendError
<1>28. CASE CommandCancelled
  <2>1. Owing("command")
    BY <1>28 DEF CommandCancelled, Owing
  <2>2. ~outClosed
    BY <2>1, SomebodyOwes
  <2> QED
    BY <1>28, <2>2 DEF CommandCancelled
<1>29. CASE CommandRead
  BY <1>29 DEF CommandRead
<1>30. CASE TerminalInput
  BY <1>30 DEF TerminalInput
<1>31. CASE TerminalWritten
  BY <1>31 DEF TerminalWritten
<1>32. CASE StdinInput
  BY <1>32 DEF StdinInput
<1>33. CASE StdinWritten
  BY <1>33 DEF StdinWritten
<1> QED
  BY <1>1, <1>2, <1>3, <1>4, <1>5, <1>6, <1>7, <1>8, <1>9, <1>10, <1>11, <1>12,
     <1>13, <1>14, <1>15, <1>16, <1>17, <1>18, <1>19, <1>20, <1>21, <1>22, <1>23,
     <1>24, <1>25, <1>26, <1>27, <1>28, <1>29, <1>30, <1>31, <1>32, <1>33
     DEF TMNext, Quiet, Closing, Pty, Buffer, Terminal, Stdin, Command

\* The buffering goroutine drains what the reader that closed quit has left.
LEMMA DrainedStep == TerminalInv /\ [TMNext]_tmVars => Drained'
<1> SUFFICES ASSUME TerminalInv, [TMNext]_tmVars PROVE Drained'
  OBVIOUS
<1>0. at = [g \in Goroutines |-> at[g]]
  BY DEF TerminalInv, TMTypeOK, ControlTypes
<1>p. /\ Places /\ Drained
      /\ mode \in {"terminal", "command"} /\ done \in BOOLEAN
      /\ quit \in Closers \cup {"open"}
  BY DEF TerminalInv, TMTypeOK, ControlTypes, StreamTypes
<1>1. CASE Quiet \/ UNCHANGED tmVars
  <2>1. UNCHANGED <<mode, at, quit, bufCh, allBuf>> /\ (done => done')
    BY <1>1, QuietFrame
  <2> QED
    BY <1>p, <2>1 DEF Drained
<1> USE <1>0, <1>p
    DEF Drained, Places, Goroutines, Closers, Closed, Goto, killVars, ioVars, streamVars
<1>2. ASSUME NEW g \in Closers, Check(g) PROVE Drained'
  BY <1>2 DEF Check, After
<1>3. ASSUME NEW g \in Closers, CloseQuit(g) PROVE Drained'
  BY <1>3 DEF CloseQuit, After
<1>4. ASSUME NEW g \in Closers, CloseOutput(g) PROVE Drained'
  BY <1>4 DEF CloseOutput, After
<1>5. CASE PtyStart
  BY <1>5 DEF PtyStart
<1>6. CASE PtyReturns
  BY <1>6 DEF PtyReturns
<1>7. CASE PtyLoop
  BY <1>7 DEF PtyLoop
<1>8. CASE PtyPush
  BY <1>8 DEF PtyPush
<1>9. CASE PtyRead
  BY <1>9 DEF PtyRead
<1>10. CASE BufferTimer
  BY <1>10 DEF BufferTimer
<1>11. CASE BufferSend
  BY <1>11 DEF BufferSend, Output
<1>12. CASE BufferQuit
  BY <1>12 DEF BufferQuit
<1>13. CASE BufferDrained
  BY <1>13 DEF BufferDrained, Output
<1>14. CASE BufferCancelled
  BY <1>14 DEF BufferCancelled
<1>15. CASE BufferTake
  BY <1>15 DEF BufferTake
<1>16. CASE TerminalQuit
  BY <1>16 DEF TerminalQuit
<1>17. CASE TerminalReturn
  BY <1>17 DEF TerminalReturn
<1>18. CASE TerminalReap
  BY <1>18 DEF TerminalReap
<1>19. CASE TerminalStopTimer
  BY <1>19 DEF TerminalStopTimer
<1>20. CASE TerminalWriteFails
  BY <1>20 DEF TerminalWriteFails
<1>21. CASE TerminalResizeFails
  BY <1>21 DEF TerminalResizeFails
<1>22. CASE TerminalTimeout
  BY <1>22 DEF TerminalTimeout, SendError
<1>23. CASE StdinTimeout
  BY <1>23 DEF StdinTimeout, Kill, SendError
<1>24. CASE StdinQuit
  BY <1>24 DEF StdinQuit
<1>25. CASE StdinFails
  BY <1>25 DEF StdinFails, Kill
<1>26. CASE CommandSend
  BY <1>26 DEF CommandSend, Output
<1>27. CASE CommandExit
  BY <1>27 DEF CommandExit, SendError
<1>28. CASE CommandCancelled
  BY <1>28 DEF CommandCancelled
<1>29. CASE CommandRead
  BY <1>29 DEF CommandRead
<1>30. CASE TerminalInput
  BY <1>30 DEF TerminalInput
<1>31. CASE TerminalWritten
  BY <1>31 DEF TerminalWritten
<1>32. CASE StdinInput
  BY <1>32 DEF StdinInput
<1>33. CASE StdinWritten
  BY <1>33 DEF StdinWritten
<1> QED
  BY <1>1, <1>2, <1>3, <1>4, <1>5, <1>6, <1>7, <1>8, <1>9, <1>10, <1>11, <1>12,
     <1>13, <1>14, <1>15, <1>16, <1>17, <1>18, <1>19, <1>20, <1>21, <1>22, <1>23,
     <1>24, <1>25, <1>26, <1>27, <1>28, <1>29, <1>30, <1>31, <1>32, <1>33
     DEF TMNext, Quiet, Closing, Pty, Buffer, Terminal, Stdin, Command

\* runTerminal passes its wait only with a process that is reaped, or one that
\* could not be signalled.
LEMMA PastReapStep == TerminalInv /\ [TMNext]_tmVars => PastReap'
<1> SUFFICES ASSUME TerminalInv, [TMNext]_tmVars PROVE PastReap'
  OBVIOUS
<1>0. at = [g \in Goroutines |-> at[g]]
  BY DEF TerminalInv, TMTypeOK, ControlTypes
<1>p. Places /\ PastReap /\ mode \in {"terminal", "command"}
  BY DEF TerminalInv, TMTypeOK, ControlTypes
<1>1. CASE Quiet \/ UNCHANGED tmVars
  <2>1. /\ UNCHANGED <<mode, at, inner, signalled>>
        /\ proc = "reaped" => proc' = "reaped"
        /\ killTimer \/ proc = "exited" => killTimer' \/ proc' = "exited" \/ crash' # "no"
        /\ crash' = "no" => crash = "no"
    BY <1>1, QuietFrame
  <2> QED
    BY <1>p, <2>1 DEF PastReap
<1> USE <1>0, <1>p
    DEF PastReap, Places, Goroutines, Closers, Closed, Goto, killVars, ioVars, streamVars
<1>2. ASSUME NEW g \in Closers, Check(g) PROVE PastReap'
  BY <1>2 DEF Check, After
<1>3. ASSUME NEW g \in Closers, CloseQuit(g) PROVE PastReap'
  BY <1>3 DEF CloseQuit, After
<1>4. ASSUME NEW g \in Closers, CloseOutput(g) PROVE PastReap'
  BY <1>4 DEF CloseOutput, After
<1>5. CASE PtyStart
  BY <1>5 DEF PtyStart
<1>6. CASE PtyReturns
  BY <1>6 DEF PtyReturns
<1>7. CASE PtyLoop
  BY <1>7 DEF PtyLoop
<1>8. CASE PtyPush
  BY <1>8 DEF PtyPush
<1>9. CASE PtyRead
  BY <1>9 DEF PtyRead
<1>10. CASE BufferTimer
  BY <1>10 DEF BufferTimer
<1>11. CASE BufferSend
  BY <1>11 DEF BufferSend, Output
<1>12. CASE BufferQuit
  BY <1>12 DEF BufferQuit
<1>13. CASE BufferDrained
  BY <1>13 DEF BufferDrained, Output
<1>14. CASE BufferCancelled
  BY <1>14 DEF BufferCancelled
<1>15. CASE BufferTake
  BY <1>15 DEF BufferTake
<1>16. CASE TerminalQuit
  BY <1>16 DEF TerminalQuit
<1>17. CASE TerminalReturn
  BY <1>17 DEF TerminalReturn
<1>18. CASE TerminalReap
  BY <1>18 DEF TerminalReap
<1>19. CASE TerminalStopTimer
  <2>1. at["terminal"] = "stop" /\ ~inner
    BY <1>19 DEF TerminalStopTimer
  <2>2. mode = "terminal"
    BY <2>1
  <2>3. UNCHANGED <<mode, inner, proc, signalled>> /\ signalled
    BY <1>19 DEF TerminalStopTimer
  <2> QED
    BY <2>1, <2>2, <2>3
<1>20. CASE TerminalWriteFails
  BY <1>20 DEF TerminalWriteFails
<1>21. CASE TerminalResizeFails
  BY <1>21 DEF TerminalResizeFails
<1>22. CASE TerminalTimeout
  BY <1>22 DEF TerminalTimeout, SendError
<1>23. CASE StdinTimeout
  BY <1>23 DEF StdinTimeout, Kill, SendError
<1>24. CASE StdinQuit
  BY <1>24 DEF StdinQuit
<1>25. CASE StdinFails
  BY <1>25 DEF StdinFails, Kill
<1>26. CASE CommandSend
  BY <1>26 DEF CommandSend, Output
<1>27. CASE CommandExit
  BY <1>27 DEF CommandExit, SendError
<1>28. CASE CommandCancelled
  BY <1>28 DEF CommandCancelled
<1>29. CASE CommandRead
  BY <1>29 DEF CommandRead
<1>30. CASE TerminalInput
  BY <1>30 DEF TerminalInput
<1>31. CASE TerminalWritten
  BY <1>31 DEF TerminalWritten
<1>32. CASE StdinInput
  BY <1>32 DEF StdinInput
<1>33. CASE StdinWritten
  BY <1>33 DEF StdinWritten
<1> QED
  BY <1>1, <1>2, <1>3, <1>4, <1>5, <1>6, <1>7, <1>8, <1>9, <1>10, <1>11, <1>12,
     <1>13, <1>14, <1>15, <1>16, <1>17, <1>18, <1>19, <1>20, <1>21, <1>22, <1>23,
     <1>24, <1>25, <1>26, <1>27, <1>28, <1>29, <1>30, <1>31, <1>32, <1>33
     DEF TMNext, Quiet, Closing, Pty, Buffer, Terminal, Stdin, Command

\* The types of the control state, of the channels and the process, and of the stream.
LEMMA ControlTypesStep == TerminalInv /\ [TMNext]_tmVars => ControlTypes'
<1> SUFFICES ASSUME ControlTypes, [TMNext]_tmVars PROVE ControlTypes'
  BY DEF TerminalInv, TMTypeOK
<1> USE TerminalsAssumption DEF ControlTypes, Labels, Goto, killVars, ioVars, streamVars
<1>1. CASE UNCHANGED tmVars
  BY <1>1 DEF tmVars
<1>2. ASSUME NEW g \in Closers, Check(g) PROVE ControlTypes'
  BY <1>2 DEF Check, After
<1>3. ASSUME NEW g \in Closers, CloseQuit(g) PROVE ControlTypes'
  BY <1>3 DEF CloseQuit, After
<1>4. ASSUME NEW g \in Closers, CloseOutput(g) PROVE ControlTypes'
  BY <1>4 DEF CloseOutput, After
<1>5. CASE PtyStart
  BY <1>5 DEF PtyStart
<1>6. CASE PtyReturns
  BY <1>6 DEF PtyReturns
<1>7. CASE PtyLoop
  BY <1>7 DEF PtyLoop
<1>8. CASE PtyPush
  BY <1>8 DEF PtyPush
<1>9. CASE PtyRead
  BY <1>9 DEF PtyRead
<1>10. CASE BufferTimer
  BY <1>10 DEF BufferTimer
<1>11. CASE BufferSend
  BY <1>11 DEF BufferSend, Output
<1>12. CASE BufferQuit
  BY <1>12 DEF BufferQuit
<1>13. CASE BufferDrained
  BY <1>13 DEF BufferDrained, Output
<1>14. CASE BufferCancelled
  BY <1>14 DEF BufferCancelled
<1>15. CASE BufferTake
  BY <1>15 DEF BufferTake
<1>16. CASE TerminalQuit
  BY <1>16 DEF TerminalQuit
<1>17. CASE TerminalReturn
  BY <1>17 DEF TerminalReturn
<1>18. CASE TerminalReap
  BY <1>18 DEF TerminalReap
<1>19. CASE TerminalStopTimer
  BY <1>19 DEF TerminalStopTimer
<1>20. CASE TerminalWriteFails
  BY <1>20 DEF TerminalWriteFails
<1>21. CASE TerminalResizeFails
  BY <1>21 DEF TerminalResizeFails
<1>22. CASE TerminalTimeout
  BY <1>22 DEF TerminalTimeout, SendError
<1>23. CASE StdinTimeout
  BY <1>23 DEF StdinTimeout, Kill, SendError
<1>24. CASE StdinQuit
  BY <1>24 DEF StdinQuit
<1>25. CASE StdinFails
  BY <1>25 DEF StdinFails, Kill
<1>26. CASE CommandSend
  BY <1>26 DEF CommandSend, Output
<1>27. CASE CommandExit
  BY <1>27 DEF CommandExit, SendError
<1>28. CASE CommandCancelled
  BY <1>28 DEF CommandCancelled
<1>29. CASE CommandRead
  BY <1>29 DEF CommandRead
<1>30. CASE TerminalInput
  BY <1>30 DEF TerminalInput
<1>31. CASE KillTimer
  BY <1>31 DEF KillTimer
<1>32. CASE StdinInput
  BY <1>32 DEF StdinInput
<1>33. CASE Exit
  BY <1>33 DEF Exit
<1>34. CASE StreamInput
  BY <1>34 DEF StreamInput
<1>35. CASE RunTakes
  BY <1>35 DEF RunTakes
<1>36. CASE RunCancelled
  BY <1>36 DEF RunCancelled
<1>37. CASE SinkEmit
  BY <1>37 DEF SinkEmit
<1>38. CASE SinkEnds
  BY <1>38 DEF SinkEnds
<1>39. CASE SinkFinal
  BY <1>39 DEF SinkFinal
<1>40. CASE Cancel
  BY <1>40 DEF Cancel
<1>41. CASE TerminalWritten
  BY <1>41 DEF TerminalWritten
<1>42. CASE StdinWritten
  BY <1>42 DEF StdinWritten
<1> QED
  BY <1>1, <1>2, <1>3, <1>4, <1>5, <1>6, <1>7, <1>8, <1>9, <1>10, <1>11, <1>12,
     <1>13, <1>14, <1>15, <1>16, <1>17, <1>18, <1>19, <1>20, <1>21, <1>22, <1>23,
     <1>24, <1>25, <1>26, <1>27, <1>28, <1>29, <1>30, <1>31, <1>32, <1>33, <1>34,
     <1>35, <1>36, <1>37, <1>38, <1>39, <1>40, <1>41, <1>42
     DEF TMNext, Closing, Pty, Buffer, Terminal, Stdin, Command, Sink

LEMMA IoTypesStep == TerminalInv /\ [TMNext]_tmVars => IoTypes'
<1> SUFFICES ASSUME IoTypes, [TMNext]_tmVars PROVE IoTypes'
  BY DEF TerminalInv, TMTypeOK
<1> USE TerminalsAssumption DEF IoTypes, Goto, killVars, ioVars, streamVars
<1>1. CASE UNCHANGED tmVars
  BY <1>1 DEF tmVars
<1>2. ASSUME NEW g \in Closers, Check(g) PROVE IoTypes'
  BY <1>2 DEF Check, After
<1>3. ASSUME NEW g \in Closers, CloseQuit(g) PROVE IoTypes'
  BY <1>3 DEF CloseQuit, After
<1>4. ASSUME NEW g \in Closers, CloseOutput(g) PROVE IoTypes'
  BY <1>4 DEF CloseOutput, After
<1>5. CASE PtyStart
  BY <1>5 DEF PtyStart
<1>6. CASE PtyReturns
  BY <1>6 DEF PtyReturns
<1>7. CASE PtyLoop
  BY <1>7 DEF PtyLoop
<1>8. CASE PtyPush
  BY <1>8 DEF PtyPush
<1>9. CASE PtyRead
  BY <1>9 DEF PtyRead
<1>10. CASE BufferTimer
  BY <1>10 DEF BufferTimer
<1>11. CASE BufferSend
  BY <1>11 DEF BufferSend, Output
<1>12. CASE BufferQuit
  BY <1>12 DEF BufferQuit
<1>13. CASE BufferDrained
  BY <1>13 DEF BufferDrained, Output
<1>14. CASE BufferCancelled
  BY <1>14 DEF BufferCancelled
<1>15. CASE BufferTake
  BY <1>15 DEF BufferTake
<1>16. CASE TerminalQuit
  BY <1>16 DEF TerminalQuit
<1>17. CASE TerminalReturn
  BY <1>17 DEF TerminalReturn
<1>18. CASE TerminalReap
  BY <1>18 DEF TerminalReap
<1>19. CASE TerminalStopTimer
  BY <1>19 DEF TerminalStopTimer
<1>20. CASE TerminalWriteFails
  BY <1>20 DEF TerminalWriteFails
<1>21. CASE TerminalResizeFails
  BY <1>21 DEF TerminalResizeFails
<1>22. CASE TerminalTimeout
  BY <1>22 DEF TerminalTimeout, SendError
<1>23. CASE StdinTimeout
  <2>1. SendError
    BY <1>23 DEF StdinTimeout
  <2>2. errors' \in 0 .. ErrCap
    BY <2>1 DEF SendError
  <2> QED
    BY <1>23, <2>2 DEF StdinTimeout, Kill
<1>24. CASE StdinQuit
  BY <1>24 DEF StdinQuit
<1>25. CASE StdinFails
  BY <1>25 DEF StdinFails, Kill
<1>26. CASE CommandSend
  BY <1>26 DEF CommandSend, Output
<1>27. CASE CommandExit
  <2>1. SendError
    BY <1>27 DEF CommandExit
  <2>2. errors' \in 0 .. ErrCap
    BY <2>1 DEF SendError
  <2> QED
    BY <1>27, <2>2 DEF CommandExit
<1>28. CASE CommandCancelled
  BY <1>28 DEF CommandCancelled
<1>29. CASE CommandRead
  BY <1>29 DEF CommandRead
<1>30. CASE TerminalInput
  BY <1>30 DEF TerminalInput
<1>31. CASE KillTimer
  BY <1>31 DEF KillTimer
<1>32. CASE StdinInput
  BY <1>32 DEF StdinInput
<1>33. CASE Exit
  BY <1>33 DEF Exit
<1>34. CASE StreamInput
  BY <1>34 DEF StreamInput
<1>35. CASE RunTakes
  BY <1>35 DEF RunTakes
<1>36. CASE RunCancelled
  BY <1>36 DEF RunCancelled
<1>37. CASE SinkEmit
  BY <1>37 DEF SinkEmit
<1>38. CASE SinkEnds
  BY <1>38 DEF SinkEnds
<1>39. CASE SinkFinal
  BY <1>39 DEF SinkFinal
<1>40. CASE Cancel
  BY <1>40 DEF Cancel
<1>41. CASE TerminalWritten
  BY <1>41 DEF TerminalWritten
<1>42. CASE StdinWritten
  BY <1>42 DEF StdinWritten
<1> QED
  BY <1>1, <1>2, <1>3, <1>4, <1>5, <1>6, <1>7, <1>8, <1>9, <1>10, <1>11, <1>12,
     <1>13, <1>14, <1>15, <1>16, <1>17, <1>18, <1>19, <1>20, <1>21, <1>22, <1>23,
     <1>24, <1>25, <1>26, <1>27, <1>28, <1>29, <1>30, <1>31, <1>32, <1>33, <1>34,
     <1>35, <1>36, <1>37, <1>38, <1>39, <1>40, <1>41, <1>42
     DEF TMNext, Closing, Pty, Buffer, Terminal, Stdin, Command, Sink

LEMMA StreamTypesStep == TerminalInv /\ [TMNext]_tmVars => StreamTypes'
<1> SUFFICES ASSUME StreamTypes, [TMNext]_tmVars PROVE StreamTypes'
  BY DEF TerminalInv, TMTypeOK
<1> USE TerminalsAssumption DEF StreamTypes, Goto, killVars, ioVars, streamVars
<1>1. CASE UNCHANGED tmVars
  BY <1>1 DEF tmVars
<1>2. ASSUME NEW g \in Closers, Check(g) PROVE StreamTypes'
  BY <1>2 DEF Check, After
<1>3. ASSUME NEW g \in Closers, CloseQuit(g) PROVE StreamTypes'
  BY <1>3 DEF CloseQuit, After
<1>4. ASSUME NEW g \in Closers, CloseOutput(g) PROVE StreamTypes'
  BY <1>4 DEF CloseOutput, After
<1>5. CASE PtyStart
  BY <1>5 DEF PtyStart
<1>6. CASE PtyReturns
  BY <1>6 DEF PtyReturns
<1>7. CASE PtyLoop
  BY <1>7 DEF PtyLoop
<1>8. CASE PtyPush
  BY <1>8 DEF PtyPush
<1>9. CASE PtyRead
  BY <1>9 DEF PtyRead
<1>10. CASE BufferTimer
  BY <1>10 DEF BufferTimer
<1>11. CASE BufferSend
  BY <1>11 DEF BufferSend, Output
<1>12. CASE BufferQuit
  BY <1>12 DEF BufferQuit
<1>13. CASE BufferDrained
  BY <1>13 DEF BufferDrained, Output
<1>14. CASE BufferCancelled
  BY <1>14 DEF BufferCancelled
<1>15. CASE BufferTake
  BY <1>15 DEF BufferTake
<1>16. CASE TerminalQuit
  BY <1>16 DEF TerminalQuit
<1>17. CASE TerminalReturn
  BY <1>17 DEF TerminalReturn
<1>18. CASE TerminalReap
  BY <1>18 DEF TerminalReap
<1>19. CASE TerminalStopTimer
  BY <1>19 DEF TerminalStopTimer
<1>20. CASE TerminalWriteFails
  BY <1>20 DEF TerminalWriteFails
<1>21. CASE TerminalResizeFails
  BY <1>21 DEF TerminalResizeFails
<1>22. CASE TerminalTimeout
  BY <1>22 DEF TerminalTimeout, SendError
<1>23. CASE StdinTimeout
  BY <1>23 DEF StdinTimeout, Kill, SendError
<1>24. CASE StdinQuit
  BY <1>24 DEF StdinQuit
<1>25. CASE StdinFails
  BY <1>25 DEF StdinFails, Kill
<1>26. CASE CommandSend
  BY <1>26 DEF CommandSend, Output
<1>27. CASE CommandExit
  BY <1>27 DEF CommandExit, SendError
<1>28. CASE CommandCancelled
  BY <1>28 DEF CommandCancelled
<1>29. CASE CommandRead
  BY <1>29 DEF CommandRead
<1>30. CASE TerminalInput
  BY <1>30 DEF TerminalInput
<1>31. CASE KillTimer
  BY <1>31 DEF KillTimer
<1>32. CASE StdinInput
  BY <1>32 DEF StdinInput
<1>33. CASE Exit
  BY <1>33 DEF Exit
<1>34. CASE StreamInput
  BY <1>34 DEF StreamInput
<1>35. CASE RunTakes
  BY <1>35 DEF RunTakes
<1>36. CASE RunCancelled
  BY <1>36 DEF RunCancelled
<1>37. CASE SinkEmit
  BY <1>37 DEF SinkEmit
<1>38. CASE SinkEnds
  BY <1>38 DEF SinkEnds
<1>39. CASE SinkFinal
  BY <1>39 DEF SinkFinal
<1>40. CASE Cancel
  BY <1>40 DEF Cancel
<1>41. CASE TerminalWritten
  BY <1>41 DEF TerminalWritten
<1>42. CASE StdinWritten
  BY <1>42 DEF StdinWritten
<1> QED
  BY <1>1, <1>2, <1>3, <1>4, <1>5, <1>6, <1>7, <1>8, <1>9, <1>10, <1>11, <1>12,
     <1>13, <1>14, <1>15, <1>16, <1>17, <1>18, <1>19, <1>20, <1>21, <1>22, <1>23,
     <1>24, <1>25, <1>26, <1>27, <1>28, <1>29, <1>30, <1>31, <1>32, <1>33, <1>34,
     <1>35, <1>36, <1>37, <1>38, <1>39, <1>40, <1>41, <1>42
     DEF TMNext, Closing, Pty, Buffer, Terminal, Stdin, Command, Sink

LEMMA TerminalStep == TerminalInv /\ [TMNext]_tmVars => TerminalInv'
<1> SUFFICES ASSUME TerminalInv, [TMNext]_tmVars PROVE TerminalInv'
  OBVIOUS
<1>1. /\ ControlTypes' /\ IoTypes' /\ StreamTypes' /\ Places' /\ WaitGroup'
      /\ ClosedInOrder' /\ Drained' /\ PastReap'
  BY ControlTypesStep, IoTypesStep, StreamTypesStep, PlacesStep, WaitGroupStep,
     ClosedStep, DrainedStep, PastReapStep
<1>2. wg' \in 0 .. 3
  <2>1. CASE mode' = "terminal"
    <3>1. at'["command"] = "gone" /\ at'["stdin"] = "gone"
      BY <1>1, <2>1 DEF Places
    <3>2. Owes("command")' = 0 /\ Owes("stdin")' = 0
      BY <3>1 DEF Owes, Owing
    <3> QED
      BY <1>1, <3>2, Debts DEF WaitGroup
  <2>2. CASE mode' = "command"
    <3>1. at'["pty"] = "gone" /\ at'["buffer"] = "gone"
      BY <1>1, <2>2 DEF Places
    <3>2. Owes("pty")' = 0 /\ Owes("buffer")' = 0
      BY <3>1 DEF Owes, Owing
    <3> QED
      BY <1>1, <3>2, Debts DEF WaitGroup
  <2> QED
    BY <1>1, <2>1, <2>2 DEF ControlTypes
<1> QED
  BY <1>1, <1>2 DEF TerminalInv, TMTypeOK

LEMMA TerminalInvariance == TMSpec => []TerminalInv
BY TerminalInit, TerminalStep, PTL DEF TMSpec

-----------------------------------------------------------------------------
\* The type invariant of a command session: in particular the wait group stays
\* between zero and three.
THEOREM TerminalsTypeCorrect == TMSpec => []TMTypeOK
<1>1. TerminalInv => TMTypeOK
  BY DEF TerminalInv
<1> QED
  BY <1>1, TerminalInvariance, PTL

\* The output of a session is closed once, and only when nobody offers one any
\* more, for every capacity of the status channel and any amount of input.
THEOREM OutputIsClosedLast == TMSpec => []OutputClosedLast
<1>1. TerminalInv => OutputClosedLast
  <2> SUFFICES ASSUME TerminalInv PROVE OutputClosedLast
    OBVIOUS
  <2>1. ASSUME outClosed PROVE at["buffer"] = "gone" /\ at["command"] # "send"
    <3>1. ~Owing("buffer") /\ ~Owing("command")
      BY <2>1, SomebodyOwes DEF TerminalInv, ClosedInOrder, Goroutines
    <3> QED
      BY <3>1 DEF Owing
  <2> QED
    BY <2>1 DEF TerminalInv, ClosedInOrder, OutputClosedLast
<1> QED
  BY <1>1, TerminalInvariance, PTL

\* What the reader has read is sent before the output is closed.
THEOREM NothingIsLost == TMSpec => []NothingLost
<1>1. TerminalInv => NothingLost
  <2> SUFFICES ASSUME TerminalInv, outClosed, quit = "pty", ~done PROVE ~bufCh /\ ~allBuf
    BY DEF NothingLost
  <2>1. ~Owing("buffer")
    BY SomebodyOwes DEF TerminalInv, ClosedInOrder, Goroutines
  <2>2. at["buffer"] = "gone"
    BY <2>1 DEF Owing
  <2> QED
    BY <2>2 DEF TerminalInv, Drained
<1> QED
  BY <1>1, TerminalInvariance, PTL

\* A terminal session that is over has waited for its process, or could not
\* signal it and has set the timer that kills it.
THEOREM ProcessIsReaped == TMSpec => []Reaped
<1>1. TerminalInv => Reaped
  BY DEF TerminalInv, PastReap, Reaped, Over, Goroutines
<1> QED
  BY <1>1, TerminalInvariance, PTL
=============================================================================
