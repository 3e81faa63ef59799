-------------------------------- MODULE Jobs --------------------------------
(***************************************************************************)
(* The job plugins of the devices and the one runner of the process that   *)
(* runs their jobs.  The cloud starts a job, or asks for it again; the     *)
(* runner runs the jobs that have not run and those whose interval is due. *)
(*                                                                         *)
(* The runner has the context of the message that started it, whatever its *)
(* device, and ends when that device loses its session.  A device's jobs   *)
(* have one interval.  A job takes its time, and the mark that it has run  *)
(* is set when it has.  What jobs answer is not modelled.                  *)
(***************************************************************************)
EXTENDS Naturals

CONSTANTS
  Devices,     \* devices of the process
  Names,       \* names of jobs
  MaxSessions, \* bound on the sessions of a device
  None

Sessions == 1 .. MaxSessions
Jobs == Devices \X Names

ASSUME JobsAssumption ==
  /\ MaxSessions \in Nat \ {0}
  /\ None \notin Devices \X Sessions
  /\ None \notin Jobs

VARIABLES
  session,  \* the session each device is in
  jobs,     \* jobs that were started
  firstRun, \* the job has run since it was asked for
  due,      \* the wakeup time of a device's interval is past
  plugs,    \* devices whose plugin the runner knows
  running,  \* what the runner says of itself
  pc,       \* the runner: none, scan, sleep, plugins, run, return
  owner,    \* device and session of its context
  left,     \* devices it has yet to look at in this round
  device,   \* the device it is at
  toRun,    \* jobs of that device it has yet to run
  executing, \* the job it runs
  wakeup,   \* the channel wakeup, of capacity one, is full
  asked     \* jobs that were asked for since they last began to run, and
            \* not while they ran (for the properties)

jobVars == <<jobs, firstRun, asked>>
runnerVars == <<pc, owner, left, device, toRun, executing>>
vars == <<session, jobVars, due, plugs, running, runnerVars, wakeup>>

TypeOK ==
  /\ session \in [Devices -> Sessions]
  /\ jobs \subseteq Jobs
  /\ firstRun \in [Jobs -> BOOLEAN]
  /\ due \in [Devices -> BOOLEAN]
  /\ plugs \subseteq Devices
  /\ running \in BOOLEAN
  /\ pc \in {"none", "scan", "sleep", "plugins", "run", "return"}
  /\ owner \in (Devices \X Sessions) \cup {None}
  /\ left \subseteq Devices
  /\ device \in Devices \cup {None}
  /\ toRun \subseteq Jobs
  /\ executing \in Jobs \cup {None}
  /\ wakeup \in BOOLEAN
  /\ asked \subseteq Jobs

Init ==
  /\ session = [d \in Devices |-> 1]
  /\ jobs = {}
  /\ firstRun = [j \in Jobs |-> FALSE]
  /\ due = [d \in Devices |-> FALSE]
  /\ plugs = {}
  /\ running = FALSE
  /\ pc = "none" /\ owner = None /\ left = {} /\ device = None /\ toRun = {}
  /\ executing = None
  /\ wakeup = FALSE
  /\ asked = {}

(***************************************************************************)
(* Delegate: the runner is started unless it runs, and is told of the      *)
(* plugin, which a round that goes on may come to or not; the job is       *)
(* started, or marked to be run again if the message says so.              *)
(***************************************************************************)
\* Mutant: every message starts a runner.
StartRunnerAlways(d) ==
  /\ plugs' = plugs \cup {d}
  /\ running' = TRUE
  /\ pc' = "scan" /\ owner' = <<d, session[d]>>
  /\ UNCHANGED left

StartRunner(d) ==
  /\ plugs' = plugs \cup {d}
  /\ running' = TRUE
  /\ IF running THEN UNCHANGED <<pc, owner>>
                ELSE pc' = "scan" /\ owner' = <<d, session[d]>>
  /\ left' \in {left} \cup IF pc \in {"plugins", "run"} /\ d \notin plugs
                         THEN {left \cup {d}} ELSE {}

\* Somebody wants job j to run.
Ask(j) == asked' = asked \cup ({j} \ {executing})

\* Mutant: the runner is woken for new jobs only.
DelegateNoWakeup(j, update) ==
  /\ StartRunner(j[1])
  /\ jobs' = jobs \cup {j}
  /\ firstRun' = [firstRun EXCEPT ![j] = @ /\ ~update]
  /\ wakeup' = (wakeup \/ j \notin jobs)
  /\ IF update \/ j \notin jobs THEN Ask(j) ELSE UNCHANGED asked
  /\ UNCHANGED <<session, due, device, toRun, executing>>

Delegate(j, update) ==
  /\ StartRunner(j[1])
  /\ jobs' = jobs \cup {j}
  /\ firstRun' = [firstRun EXCEPT ![j] = @ /\ ~update]
  /\ wakeup' = (wakeup \/ update \/ j \notin jobs)
  /\ IF update \/ j \notin jobs THEN Ask(j) ELSE UNCHANGED asked
  /\ UNCHANGED <<session, due, device, toRun, executing>>

\* A write to the XML API that sets off a job.
RunJobNow(j) ==
  /\ j \in jobs
  /\ firstRun' = [firstRun EXCEPT ![j] = FALSE]
  /\ wakeup' = TRUE
  /\ Ask(j)
  /\ UNCHANGED <<session, jobs, due, plugs, running, runnerVars>>

(***************************************************************************)
(* The runner.                                                             *)
(***************************************************************************)
\* It sleeps unless an interval is due.
Scan ==
  /\ pc = "scan"
  /\ IF \E d \in plugs : due[d]
     THEN pc' = "plugins" /\ left' = plugs
     ELSE pc' = "sleep" /\ UNCHANGED left
  /\ UNCHANGED <<session, jobVars, due, plugs, running, owner, device, toRun, executing,
                 wakeup>>

Wake ==
  /\ pc = "sleep"
  /\ \/ wakeup /\ wakeup' = FALSE
     \/ (\E d \in plugs : due[d]) /\ UNCHANGED wakeup
  /\ pc' = "plugins"
  /\ left' = plugs
  /\ UNCHANGED <<session, jobVars, due, plugs, running, owner, device, toRun,
                 executing>>

OwnerGone == session[owner[1]] # owner[2]

\* The runner ends with its context, and says so a little later.
Leave ==
  /\ pc = "sleep" /\ OwnerGone
  /\ pc' = "return"
  /\ UNCHANGED <<session, jobVars, due, plugs, running, owner, left, device, toRun,
                 executing, wakeup>>

Return ==
  /\ pc = "return"
  /\ pc' = "none"
  /\ running' = FALSE
  /\ owner' = None
  /\ UNCHANGED <<session, jobVars, due, plugs, left, device, toRun, executing,
                 wakeup>>

\* The jobs of a device that it is to run.
\* Mutant: only jobs whose interval is due are run.
PluginDueOnly(d) ==
  /\ pc = "plugins"
  /\ d \in left
  /\ left' = left \ {d}
  /\ device' = d
  /\ toRun' = {j \in {d} \X Names : j \in jobs /\ due[d]}
  /\ pc' = "run"
  /\ UNCHANGED <<session, jobVars, due, plugs, running, owner, executing, wakeup>>

Plugin(d) ==
  /\ pc = "plugins"
  /\ d \in left
  /\ left' = left \ {d}
  /\ device' = d
  /\ toRun' = {j \in {d} \X Names : j \in jobs /\ (~firstRun[j] \/ due[d])}
  /\ pc' = "run"
  /\ UNCHANGED <<session, jobVars, due, plugs, running, owner, executing, wakeup>>

\* The job is run, without a lock and for as long as it takes.
Execute(j) ==
  /\ pc = "run" /\ executing = None
  /\ j \in toRun
  /\ toRun' = toRun \ {j}
  /\ executing' = j
  /\ asked' = asked \ {j}
  /\ UNCHANGED <<session, jobs, firstRun, due, plugs, running, pc, owner, left,
                 device, wakeup>>

\* It has run, and is marked so, whoever asked for it meanwhile.
Executed(j) ==
  /\ pc = "run" /\ executing = j
  /\ executing' = None
  /\ firstRun' = [firstRun EXCEPT ![j] = TRUE]
  /\ UNCHANGED <<session, jobs, asked, due, plugs, running, pc, owner, left,
                 device, toRun, wakeup>>

\* The next wakeup time of its interval, which may be past as well.
PluginDone ==
  /\ pc = "run" /\ toRun = {} /\ executing = None
  /\ pc' = "plugins"
  /\ \E b \in {FALSE, due[device]} : due' = [due EXCEPT ![device] = b]
  /\ device' = None
  /\ UNCHANGED <<session, jobVars, plugs, running, owner, left, toRun, executing,
                 wakeup>>

RoundDone ==
  /\ pc = "plugins" /\ left = {}
  /\ pc' = "scan"
  /\ UNCHANGED <<session, jobVars, due, plugs, running, owner, left, device, toRun,
                 executing, wakeup>>

Tick(d) ==
  /\ \E n \in Names : <<d, n>> \in jobs
  /\ due' = [due EXCEPT ![d] = TRUE]
  /\ UNCHANGED <<session, jobVars, plugs, running, runnerVars, wakeup>>

\* The device loses its session and is connected again.
Reconnect(d) ==
  /\ session[d] < MaxSessions
  /\ session' = [session EXCEPT ![d] = @ + 1]
  /\ UNCHANGED <<jobVars, due, plugs, running, runnerVars, wakeup>>

Runner ==
  \/ Scan \/ Wake \/ Leave \/ Return \/ PluginDone \/ RoundDone
  \/ \E d \in Devices : Plugin(d)
  \/ \E j \in Jobs : Execute(j) \/ Executed(j)

Next ==
  \/ \E j \in Jobs : (\E u \in BOOLEAN : Delegate(j, u)) \/ RunJobNow(j)
  \/ Runner
  \/ \E d \in Devices : Tick(d) \/ Reconnect(d)

\* The runner goes on, and what it runs returns.
Spec == Init /\ [][Next]_vars /\ WF_vars(Runner)

-----------------------------------------------------------------------------
\* A runner is never started while another one works, although messages of
\* several devices find it running or not while it ends.
OneRunner == [][owner' # owner => owner = None \/ owner' = None]_vars

\* A job that was asked for is not forgotten, unless it was asked for while it
\* ran itself: it is marked to run, and the wakeup of the one channel that all
\* devices share is there, or the runner has yet to come to the job in this
\* round, whatever was added while it was at it.
NotForgotten == \A j \in asked :
  /\ j \in jobs /\ ~firstRun[j]
  /\ wakeup \/ j \in toRun \/ j[1] \in left

\* It does run, unless the runner ends because the device that started it,
\* which need not be the job's, lost its session.
Runs == \A j \in Jobs : j \in asked ~> executing = j \/ ~running
=============================================================================
