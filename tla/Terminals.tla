----------------------------- MODULE Terminals -----------------------------
(***************************************************************************)
(* A command session and the interactive stream it belongs to.  In a       *)
(* terminal session readPty reads the pseudo terminal and hands what it    *)
(* reads to a goroutine that buffers it, and runTerminal writes input; in  *)
(* a command session runCommand reads the pipes of the process, and a      *)
(* goroutine of startCommand writes its input.  The stream forwards input  *)
(* and emits output.  Whoever ends first calls sendClose, which is to let  *)
(* all of them end and then close the output.                              *)
(*                                                                         *)
(* Bytes are abstracted: a buffer holds something or nothing.  A panic, or *)
(* a Fatal, ends the process that emulates all devices.                    *)
(***************************************************************************)
EXTENDS Naturals

CONSTANTS MaxInputs, \* bound on the StreamInput handlers
          ErrCap     \* capacity of errch, 0 in stream.run

ASSUME TerminalsAssumption == MaxInputs \in Nat /\ ErrCap \in Nat

Goroutines == {"pty", "buffer", "terminal", "command", "stdin"}
Closers == {"pty", "terminal", "command"}
Labels == {"gone", "start", "loop", "read", "push", "select", "write", "send", "drain",
           "return", "reap", "stop", "wait command", "check", "close", "wait"}

VARIABLES
  mode,      \* terminal or command
  at,        \* where each goroutine is; "gone" if it has ended or never ran
  killTimer, \* the timer that kills the command is set
  signalled, \* no signal to the command has failed
  wg,        \* the wait group
  quit,      \* who closed quit, or "open"
  inner,     \* the call of sendClose is that of the input loop of runTerminal
  outClosed, \* the channel output is closed
  errors,    \* number of statuses in errch
  ptyOpen,   \* the pseudo terminal is open
  proc,      \* none, running, exited, reaped: the command
  bufCh,     \* the channel of readPty, of capacity one, is full
  allBuf,    \* the buffer of its goroutine holds something
  done,      \* the context of the stream is done
  run,       \* the stream: idle, feed (offers an input), ended
  sink,      \* its sink: recv, emit, final, done
  inputs,    \* StreamInput handlers that offer an input
  reported,  \* a status was taken out of errch
  crash      \* why the process has ended, or "no"

killVars == <<killTimer, signalled>>
ioVars == <<outClosed, errors, ptyOpen, proc, bufCh, allBuf>>
streamVars == <<done, run, sink, inputs, reported>>
tmVars == <<mode, killVars, at, wg, quit, inner, ioVars, streamVars, crash>>

ControlTypes ==
  /\ mode \in {"terminal", "command"}
  /\ at \in [Goroutines -> Labels]
  /\ killTimer \in BOOLEAN
  /\ signalled \in BOOLEAN
  /\ quit \in Closers \cup {"open"}
  /\ inner \in BOOLEAN
  /\ crash \in {"no", "quit closed twice", "output closed twice", "kill failed",
                "kill of no process"}

IoTypes ==
  /\ outClosed \in BOOLEAN
  /\ errors \in 0 .. ErrCap
  /\ ptyOpen \in BOOLEAN
  /\ proc \in {"none", "running", "exited", "reaped"}
  /\ bufCh \in BOOLEAN
  /\ allBuf \in BOOLEAN

StreamTypes ==
  /\ done \in BOOLEAN
  /\ run \in {"idle", "feed", "ended"}
  /\ sink \in {"recv", "emit", "final", "done"}
  /\ inputs \in 0 .. MaxInputs
  /\ reported \in BOOLEAN

TMTypeOK == ControlTypes /\ wg \in 0 .. 3 /\ IoTypes /\ StreamTypes

(***************************************************************************)
(* openSession has succeeded, or, for a command, may have failed after the *)
(* goroutine that writes input was started.                                *)
(***************************************************************************)
Goroutine(l) == [g \in Goroutines |-> IF g \in DOMAIN l THEN l[g] ELSE "gone"]

Opened ==
  \/ /\ mode = "terminal"
     /\ at = Goroutine([pty |-> "start", terminal |-> "select"])
     /\ wg = 2 /\ proc = "running" /\ run = "idle" /\ sink = "recv"
  \/ /\ mode = "command"
     /\ at = Goroutine([command |-> "read", stdin |-> "select"])
     /\ wg = 2 /\ proc = "running" /\ run = "idle" /\ sink = "recv"
  \/ /\ mode = "command"
     /\ at = Goroutine([stdin |-> "select"])
     /\ wg = 1 /\ proc = "none" /\ run = "ended" /\ sink = "done"

TMInit ==
  /\ Opened
  /\ killTimer = FALSE
  /\ signalled = TRUE
  /\ quit = "open"
  /\ inner = FALSE
  /\ outClosed = FALSE
  /\ errors = 0
  /\ ptyOpen = (mode = "terminal")
  /\ bufCh = FALSE
  /\ allBuf = FALSE
  /\ done = FALSE
  /\ inputs = 0
  /\ reported = FALSE
  /\ crash = "no"

Goto(g, l) == at' = [at EXCEPT ![g] = l]
Closed == quit # "open"

\* sendError: the status is lost unless errch has room (or somebody waits for
\* it, which nobody does: the sink only polls).
SendError == errors' = IF errors < ErrCap THEN errors + 1 ELSE errors

\* The sink takes an output that goroutine g offers, which goes on at l.
Output(g, l) ==
  /\ sink = "recv"
  /\ sink' = "emit"
  /\ Goto(g, l)

(***************************************************************************)
(* sendClose.                                                              *)
(***************************************************************************)
After(g) == IF g = "terminal" /\ inner THEN "return" ELSE "gone"

Check(g) ==
  /\ at[g] = "check"
  /\ Goto(g, IF Closed THEN After(g) ELSE "close")
  /\ ptyOpen' = IF g = "pty" /\ Closed THEN FALSE ELSE ptyOpen
  /\ UNCHANGED <<mode, killVars, wg, quit, inner, outClosed, errors, proc, bufCh, allBuf,
                 streamVars, crash>>

\* Of two goroutines that found quit open the second one panics.
CloseQuit(g) ==
  /\ at[g] = "close"
  /\ IF Closed THEN /\ crash' = "quit closed twice"
                    /\ UNCHANGED <<at, quit>>
               ELSE /\ quit' = g
                    /\ Goto(g, "wait")
                    /\ UNCHANGED crash
  /\ UNCHANGED <<mode, killVars, wg, inner, ioVars, streamVars>>

\* Mutant: the output is closed although goroutines of the session go on.
CloseOutputEarly(g) ==
  /\ at[g] = "wait"
  /\ outClosed' = TRUE
  /\ Goto(g, After(g))
  /\ ptyOpen' = IF g = "pty" THEN FALSE ELSE ptyOpen
  /\ UNCHANGED <<mode, killVars, wg, quit, inner, errors, proc, bufCh, allBuf, streamVars, crash>>

CloseOutput(g) ==
  /\ at[g] = "wait"
  /\ wg = 0
  /\ IF outClosed THEN crash' = "output closed twice" /\ UNCHANGED outClosed
                  ELSE outClosed' = TRUE /\ UNCHANGED crash
  /\ Goto(g, After(g))
  /\ ptyOpen' = IF g = "pty" THEN FALSE ELSE ptyOpen
  /\ UNCHANGED <<mode, killVars, wg, quit, inner, errors, proc, bufCh, allBuf, streamVars>>

(***************************************************************************)
(* readPty: the loop that reads.  A read fails once the command has exited *)
(* or the pseudo terminal was closed.                                      *)
(***************************************************************************)
PtyStart ==
  /\ at["pty"] = "start"
  /\ wg' = wg + 1
  /\ at' = [at EXCEPT !["pty"] = "loop", !["buffer"] = "select"]
  /\ UNCHANGED <<mode, killVars, quit, inner, ioVars, streamVars, crash>>

\* The deferred Done, then sendClose.
PtyReturns ==
  /\ \/ at["pty"] = "loop" /\ (done \/ Closed)
     \/ at["pty"] = "read" /\ (~ptyOpen \/ proc # "running")
     \/ at["pty"] = "push" /\ done
  /\ wg' = wg - 1
  /\ Goto("pty", "check")
  /\ UNCHANGED <<mode, killVars, quit, inner, ioVars, streamVars, crash>>

PtyLoop ==
  /\ at["pty"] = "loop"
  /\ ~done /\ ~Closed
  /\ Goto("pty", "read")
  /\ UNCHANGED <<mode, killVars, wg, quit, inner, ioVars, streamVars, crash>>

PtyRead ==
  /\ at["pty"] = "read"
  /\ ptyOpen /\ proc = "running"
  /\ Goto("pty", "push")
  /\ UNCHANGED <<mode, killVars, wg, quit, inner, ioVars, streamVars, crash>>

PtyPush ==
  /\ at["pty"] = "push"
  /\ ~bufCh
  /\ bufCh' = TRUE
  /\ Goto("pty", "loop")
  /\ UNCHANGED <<mode, killVars, wg, quit, inner, outClosed, errors, ptyOpen, proc, allBuf,
                 streamVars, crash>>

(***************************************************************************)
(* The goroutine that buffers: it sends when its buffer is large or every  *)
(* 20 milliseconds, and what is left when quit is closed.                  *)
(***************************************************************************)
BufferTake ==
  /\ at["buffer"] = "select"
  /\ bufCh
  /\ bufCh' = FALSE
  /\ allBuf' = TRUE
  /\ \E l \in {"select", "send"} : Goto("buffer", l)
  /\ UNCHANGED <<mode, killVars, wg, quit, inner, outClosed, errors, ptyOpen, proc,
                 streamVars, crash>>

BufferTimer ==
  /\ at["buffer"] = "select"
  /\ allBuf
  /\ Goto("buffer", "send")
  /\ UNCHANGED <<mode, killVars, wg, quit, inner, ioVars, streamVars, crash>>

BufferSend ==
  /\ at["buffer"] = "send"
  /\ Output("buffer", "select")
  /\ allBuf' = FALSE
  /\ UNCHANGED <<mode, killVars, wg, quit, inner, outClosed, errors, ptyOpen, proc, bufCh,
                 done, run, inputs, reported, crash>>

\* Mutant: what the channel still holds is left there.
BufferQuitLeaves ==
  /\ at["buffer"] = "select"
  /\ Closed
  /\ IF allBuf THEN Goto("buffer", "drain") /\ UNCHANGED wg
               ELSE Goto("buffer", "gone") /\ wg' = wg - 1
  /\ UNCHANGED <<mode, killVars, quit, inner, ioVars, streamVars, crash>>

BufferQuit ==
  /\ at["buffer"] = "select"
  /\ Closed
  /\ bufCh' = FALSE
  /\ allBuf' = (allBuf \/ bufCh)
  /\ IF allBuf' THEN Goto("buffer", "drain") /\ UNCHANGED wg
                ELSE Goto("buffer", "gone") /\ wg' = wg - 1
  /\ UNCHANGED <<mode, killVars, quit, inner, outClosed, errors, ptyOpen, proc, streamVars, crash>>

BufferDrained ==
  /\ at["buffer"] = "drain"
  /\ Output("buffer", "gone")
  /\ allBuf' = FALSE
  /\ wg' = wg - 1
  /\ UNCHANGED <<mode, killVars, quit, inner, outClosed, errors, ptyOpen, proc, bufCh,
                 done, run, inputs, reported, crash>>

BufferCancelled ==
  /\ at["buffer"] \in {"send", "drain"}
  /\ done
  /\ Goto("buffer", "gone")
  /\ wg' = wg - 1
  /\ UNCHANGED <<mode, killVars, quit, inner, ioVars, streamVars, crash>>

(***************************************************************************)
(* runTerminal.                                                            *)
(***************************************************************************)
\* Input that is to be written, one that is to no avail, or a resize.
TerminalInput ==
  /\ at["terminal"] = "select"
  /\ run = "feed"
  /\ run' = "idle"
  /\ \E l \in {"select"} \cup (IF ptyOpen THEN {"write"} ELSE {}) : Goto("terminal", l)
  /\ UNCHANGED <<mode, killVars, wg, quit, inner, ioVars, done, sink, inputs, reported, crash>>

\* A write blocks for as long as the command does not read.
TerminalWritten ==
  /\ at["terminal"] = "write"
  /\ Goto("terminal", "select")
  /\ UNCHANGED <<mode, killVars, wg, quit, inner, ioVars, streamVars, crash>>

\* A write that fails: sendClose is called from the loop.
TerminalWriteFails ==
  /\ \/ at["terminal"] = "write" /\ proc # "running" /\ UNCHANGED run
     \/ at["terminal"] = "select" /\ run = "feed" /\ ~ptyOpen /\ run' = "idle"
  /\ inner' = TRUE
  /\ Goto("terminal", "check")
  /\ UNCHANGED <<mode, killVars, wg, quit, ioVars, done, sink, inputs, reported, crash>>

\* A resize that fails.
TerminalResizeFails ==
  /\ at["terminal"] = "select"
  /\ run = "feed"
  /\ ~ptyOpen
  /\ run' = "idle"
  /\ Goto("terminal", "return")
  /\ UNCHANGED <<mode, killVars, wg, quit, inner, ioVars, done, sink, inputs, reported, crash>>

\* No input for ten minutes.
TerminalTimeout ==
  /\ at["terminal"] = "select"
  /\ SendError
  /\ Goto("terminal", "return")
  /\ UNCHANGED <<mode, killVars, wg, quit, inner, outClosed, ptyOpen, proc, bufCh, allBuf,
                 streamVars, crash>>

\* Mutant: quit alone ends the loop, the context is not looked at.
TerminalQuitOnly ==
  /\ at["terminal"] = "select"
  /\ Closed
  /\ Goto("terminal", "return")
  /\ UNCHANGED <<mode, killVars, wg, quit, inner, ioVars, streamVars, crash>>

TerminalQuit ==
  /\ at["terminal"] = "select"
  /\ Closed \/ done
  /\ Goto("terminal", "return")
  /\ UNCHANGED <<mode, killVars, wg, quit, inner, ioVars, streamVars, crash>>

\* The deferred functions: Done, the pseudo terminal is closed, SIGTERM sent
\* and the kill timer started.  The process is not waited for, nor the timer
\* stopped, if the signal fails.
TerminalReturn ==
  /\ at["terminal"] = "return"
  /\ wg' = wg - 1
  /\ ptyOpen' = FALSE
  /\ inner' = FALSE
  /\ killTimer' = TRUE
  /\ \/ Goto("terminal", "reap") /\ UNCHANGED signalled
     \/ Goto("terminal", "check") /\ signalled' = FALSE
  /\ UNCHANGED <<mode, quit, outClosed, errors, proc, bufCh, allBuf, streamVars, crash>>

\* Mutant: the session is closed without waiting for its process.
TerminalNoReap ==
  /\ at["terminal"] = "reap"
  /\ Goto("terminal", "check")
  /\ UNCHANGED <<mode, killVars, wg, quit, inner, ioVars, streamVars, crash>>

TerminalReap ==
  /\ at["terminal"] = "reap"
  /\ proc = "exited"
  /\ proc' = "reaped"
  /\ Goto("terminal", "stop")
  /\ UNCHANGED <<mode, killVars, wg, quit, inner, outClosed, errors, ptyOpen, bufCh, allBuf,
                 streamVars, crash>>

TerminalStopTimer ==
  /\ at["terminal"] = "stop"
  /\ Goto("terminal", "check")
  /\ killTimer' = FALSE
  /\ UNCHANGED <<mode, signalled, wg, quit, inner, ioVars, streamVars, crash>>

\* After five seconds: a process that was reaped just then cannot be killed,
\* nor perhaps one that could not be signalled, which is fatal.
KillTimer ==
  /\ killTimer
  /\ killTimer' = FALSE
  /\ \/ proc # "reaped" /\ proc' = "exited" /\ UNCHANGED crash
     \/ (proc = "reaped" \/ ~signalled) /\ crash' = "kill failed" /\ UNCHANGED proc
  /\ UNCHANGED <<mode, signalled, at, wg, quit, inner, outClosed, errors, ptyOpen, bufCh, allBuf,
                 streamVars>>

(***************************************************************************)
(* startCommand: the goroutine that writes input.  A write that fails and  *)
(* ten minutes without input kill the process.                             *)
(***************************************************************************)
StdinInput ==
  /\ at["stdin"] = "select"
  /\ run = "feed"
  /\ run' = "idle"
  /\ Goto("stdin", "write")
  /\ UNCHANGED <<mode, killVars, wg, quit, inner, ioVars, done, sink, inputs, reported, crash>>

\* A write blocks for as long as the process does not read.
StdinWritten ==
  /\ at["stdin"] = "write"
  /\ proc = "running"
  /\ Goto("stdin", "select")
  /\ UNCHANGED <<mode, killVars, wg, quit, inner, ioVars, streamVars, crash>>

Kill(g) ==
  IF proc = "none" THEN crash' = "kill of no process" /\ UNCHANGED <<at, wg, proc>>
  ELSE /\ proc' = IF proc = "running" THEN "exited" ELSE proc
       /\ Goto(g, "gone")
       /\ wg' = wg - 1
       /\ UNCHANGED crash

StdinFails ==
  /\ at["stdin"] = "write"
  /\ proc # "running"
  /\ Kill("stdin")
  /\ UNCHANGED <<mode, killVars, quit, inner, outClosed, errors, ptyOpen, bufCh, allBuf,
                 streamVars>>

StdinTimeout ==
  /\ at["stdin"] = "select"
  /\ SendError
  /\ Kill("stdin")
  /\ UNCHANGED <<mode, killVars, quit, inner, outClosed, ptyOpen, bufCh, allBuf, streamVars>>

StdinQuit ==
  /\ at["stdin"] = "select"
  /\ Closed
  /\ Goto("stdin", "gone")
  /\ wg' = wg - 1
  /\ UNCHANGED <<mode, killVars, quit, inner, ioVars, streamVars, crash>>

(***************************************************************************)
(* runCommand: output and then error output until their ends, and the      *)
(* status of the process.                                                  *)
(***************************************************************************)
CommandRead ==
  /\ at["command"] = "read"
  /\ \/ proc = "running" /\ Goto("command", "send")
     \/ proc = "exited" /\ Goto("command", "wait command")
  /\ UNCHANGED <<mode, killVars, wg, quit, inner, ioVars, streamVars, crash>>

CommandSend ==
  /\ at["command"] = "send"
  /\ Output("command", "read")
  /\ UNCHANGED <<mode, killVars, wg, quit, inner, ioVars, done, run, inputs, reported, crash>>

CommandExit ==
  /\ at["command"] = "wait command"
  /\ proc' = "reaped"
  /\ SendError
  /\ wg' = wg - 1
  /\ Goto("command", "check")
  /\ UNCHANGED <<mode, killVars, quit, inner, outClosed, ptyOpen, bufCh, allBuf, streamVars, crash>>

CommandCancelled ==
  /\ at["command"] = "send"
  /\ done
  /\ wg' = wg - 1
  /\ Goto("command", "check")
  /\ UNCHANGED <<mode, killVars, quit, inner, ioVars, streamVars, crash>>

\* The command ends by itself, or because of a signal.
Exit ==
  /\ proc = "running"
  /\ proc' = "exited"
  /\ UNCHANGED <<mode, killVars, at, wg, quit, inner, outClosed, errors, ptyOpen, bufCh, allBuf,
                 streamVars, crash>>

(***************************************************************************)
(* The stream: a handler of StreamInput looks the stream up and offers its *)
(* input; run forwards it; the sink emits the output.                      *)
(***************************************************************************)
StreamInput ==
  /\ run # "ended"
  /\ inputs < MaxInputs
  /\ inputs' = inputs + 1
  /\ UNCHANGED <<mode, killVars, at, wg, quit, inner, ioVars, done, run, sink, reported, crash>>

RunTakes ==
  /\ run = "idle"
  /\ inputs > 0
  /\ inputs' = inputs - 1
  /\ run' = "feed"
  /\ UNCHANGED <<mode, killVars, at, wg, quit, inner, ioVars, done, sink, reported, crash>>

RunCancelled ==
  /\ done
  /\ \/ run = "feed" /\ run' = "idle"
     \/ run = "idle" /\ run' = "ended"
  /\ UNCHANGED <<mode, killVars, at, wg, quit, inner, ioVars, done, sink, inputs, reported, crash>>

SinkEmit ==
  /\ sink = "emit"
  /\ sink' = "recv"
  /\ UNCHANGED <<mode, killVars, at, wg, quit, inner, ioVars, done, run, inputs, reported, crash>>

\* The sink ends: it looks whether there is a status to send along.
SinkEnds ==
  /\ sink = "recv"
  /\ outClosed \/ done
  /\ sink' = "final"
  /\ reported' = (errors > 0)
  /\ errors' = IF errors > 0 THEN errors - 1 ELSE errors
  /\ UNCHANGED <<mode, killVars, at, wg, quit, inner, outClosed, ptyOpen, proc, bufCh, allBuf,
                 done, run, inputs, crash>>

SinkFinal ==
  /\ sink = "final"
  /\ sink' = "done"
  /\ UNCHANGED <<mode, killVars, at, wg, quit, inner, ioVars, done, run, inputs, reported, crash>>

\* The stream is closed by the cloud, replaced, or loses its session.
Cancel ==
  /\ ~done
  /\ done' = TRUE
  /\ UNCHANGED <<mode, killVars, at, wg, quit, inner, ioVars, run, sink, inputs, reported, crash>>

-----------------------------------------------------------------------------
Closing == \E g \in Closers : Check(g) \/ CloseQuit(g) \/ CloseOutput(g)
Pty == PtyStart \/ PtyReturns \/ PtyLoop \/ PtyPush
Buffer == BufferTimer \/ BufferSend \/ BufferQuit \/ BufferDrained \/ BufferCancelled
Terminal ==
  TerminalQuit \/ TerminalReturn \/ TerminalReap \/ TerminalStopTimer \/ KillTimer
WriteEnds == proc # "running" /\ (TerminalWritten \/ TerminalWriteFails)
Stdin == StdinTimeout \/ StdinQuit \/ StdinFails
Command == CommandSend \/ CommandExit \/ CommandCancelled
Sink == SinkEmit \/ SinkEnds \/ SinkFinal

TMNext ==
  /\ crash = "no"
  /\ \/ Closing \/ Pty \/ PtyRead \/ Buffer \/ BufferTake
     \/ Terminal \/ TerminalInput \/ TerminalWritten \/ TerminalWriteFails
     \/ TerminalResizeFails \/ TerminalTimeout
     \/ Stdin \/ StdinInput \/ StdinWritten
     \/ Command \/ CommandRead \/ Exit
     \/ StreamInput \/ RunTakes \/ RunCancelled \/ Sink \/ Cancel

(***************************************************************************)
(* Goroutines go on and timers expire; a select whose context or quit is   *)
(* ready again and again takes that case; a write does not block once the  *)
(* command has exited.  Nothing is assumed about the command, the cloud,   *)
(* and who sends input.                                                    *)
(***************************************************************************)
Step(A) == crash = "no" /\ A

TMFairness ==
  /\ \A g \in Closers : WF_tmVars(Step(Check(g) \/ CloseQuit(g) \/ CloseOutput(g)))
  /\ WF_tmVars(Step(Pty))
  /\ SF_tmVars(Step(BufferQuit))
  /\ WF_tmVars(Step(Buffer \/ BufferTake))
  /\ WF_tmVars(Step(Terminal))
  /\ WF_tmVars(Step(WriteEnds))
  /\ WF_tmVars(Step(Stdin))
  /\ WF_tmVars(Step(Command))
  /\ SF_tmVars(Step(CommandCancelled))
  /\ WF_tmVars(Step(at["command"] = "read" /\ proc = "exited" /\ CommandRead))
  /\ SF_tmVars(Step(TerminalQuit))
  /\ SF_tmVars(Step(StdinQuit))
  /\ WF_tmVars(Step(RunCancelled))
  /\ SF_tmVars(Step(run = "idle" /\ RunCancelled))
  /\ WF_tmVars(Step(Sink))
  /\ SF_tmVars(Step(SinkEnds))

TMSpec == TMInit /\ [][TMNext]_tmVars /\ TMFairness

-----------------------------------------------------------------------------
\* The goroutines of the session, and the session, are over.
Over == outClosed /\ \A g \in Goroutines : at[g] = "gone"

\* runTerminal waits for the wait group it is counted in itself.
SelfWait == inner /\ at["terminal"] = "wait"

\* Nobody offers an output once the channel is closed, and it is closed once;
\* both would panic.  quit may be closed twice, output may not.
OutputClosedLast ==
  /\ outClosed => /\ at["buffer"] = "gone"
                  /\ at["command"] # "send"
  /\ crash # "output closed twice"

\* A terminal whose command ends by itself loses no output: when the reader
\* closed the session, all it had read was sent before the output was closed.
NothingLost == outClosed /\ quit = "pty" /\ ~done => ~bufCh /\ ~allBuf

\* A terminal session that is over leaves no process behind, not even one that
\* has exited and was not waited for.  If the signal to its process failed, the
\* kill timer is still to fire, or the process has exited and is not waited for.
Reaped ==
  mode = "terminal" /\ Over /\ crash = "no" =>
    \/ proc = "reaped"
    \/ ~signalled /\ (killTimer \/ proc = "exited")

\* A write of input that never ends, because the command reads none and lives.
Blocked == <>[]("write" \in {at["terminal"], at["stdin"]})

\* Once its stream is cancelled, or its command has exited, the goroutines of
\* a session that was opened end, unless a failed write made runTerminal wait
\* for itself, or a write blocks for good.
SessionEnds ==
  \/ Blocked
  \/ (done \/ proc = "exited") /\ proc # "none" ~> Over \/ SelfWait \/ crash # "no"

\* "Report exit code status and error to the stream" (command.go:304): the last
\* message of the stream of a command that exited carries its status.
StatusReported ==
  mode = "command" /\ sink = "done" /\ proc = "reaped" /\ ~done => reported

\* "On any input error close the session" (command.go:232).
InputErrorCloses == inner ~> Over \/ crash # "no"
=============================================================================
