----------------------------- MODULE Operations -----------------------------
(***************************************************************************)
(* The operations runner of a session: it fetches its device, then polls   *)
(* the cloud for the operations configured for the device, and starts,     *)
(* restarts and stops operations of plugins accordingly.  The cloud skips  *)
(* the answer when the hash the runner sends is that of the configuration  *)
(* it holds.                                                               *)
(*                                                                         *)
(* A configuration of an operation is a version, 0 is none.  The hash over *)
(* the sorted configurations is the function it is computed from (each     *)
(* configuration holds the name of its operation).                         *)
(***************************************************************************)
EXTENDS Naturals

CONSTANTS
  Names,      \* names of operations
  MaxChanges, \* bound on the changes the cloud makes
  Reuse,      \* the cloud may go back to a configuration it had before
  Unreadable, \* versions that do not deserialize into a deviceOperation
  NoHash      \* the empty opHashHeader

Version == 1 .. MaxChanges
Configs == [Names -> Version \cup {0}]

ASSUME OperationsAssumption ==
  /\ MaxChanges \in Nat
  /\ Reuse \in BOOLEAN
  /\ Unreadable \subseteq Version
  /\ NoHash \notin Configs

None == [n \in Names |-> 0]

VARIABLES
  cloud,            \* the configurations the cloud holds for the device
  changes,          \* how often it has changed them
  up,               \* the session of the runner lasts
  pc,               \* delay, device (fetches the device), pause (waits for
                    \* pollTimer), wait, poll, fetch (waits for the answer),
                    \* apply, start, gone
  timer,            \* the pollTimer of getOperationsDevice has yet to fire
  claim,            \* the claim channel the runner waits on is closed
  running,          \* version of each operation in the map running
  operationConfigs, \* version whose hash is in the map of that name
  opHashHeader,     \* what the overall hash was computed from
  reply,            \* the configurations of the answer being applied
  changedConfigs,   \* those of them to start or restart
  alive             \* operations that were handed to the runner, and live

vars == <<cloud, changes, up, pc, timer, claim, running, operationConfigs,
          opHashHeader, reply, changedConfigs, alive>>

cloudVars == <<cloud, changes>>
sessionVars == <<up, timer, claim>>
opVars == <<running, operationConfigs, opHashHeader, reply, changedConfigs, alive>>

TypeOK ==
  /\ cloud \in Configs
  /\ changes \in 0 .. MaxChanges
  /\ up \in BOOLEAN
  /\ pc \in {"delay", "device", "pause", "wait", "poll", "fetch", "apply",
             "start", "gone"}
  /\ timer \in BOOLEAN
  /\ claim \in BOOLEAN
  /\ running \in Configs
  /\ operationConfigs \in Configs
  /\ opHashHeader \in Configs \cup {NoHash}
  /\ reply \in Configs
  /\ changedConfigs \subseteq Names
  /\ alive \subseteq Names \X Version

Init ==
  /\ cloud = None
  /\ changes = 0
  /\ up = TRUE
  /\ pc = "delay"
  /\ timer = TRUE
  /\ claim = FALSE
  /\ running = None
  /\ operationConfigs = None
  /\ opHashHeader = NoHash
  /\ reply = None
  /\ changedConfigs = {}
  /\ alive = {}

\* The operation of name n that is in the map running, as a set.
Op(n) == {<<n, running[n]>>}

\* f without the names in S.
Without(f, S) == [n \in Names |-> IF n \in S THEN 0 ELSE f[n]]

----------------------------------------------------------------------------
(* The cloud, the session and the plugins. *)

\* The configuration of an operation is added, replaced or removed.
Configure(n, v) ==
  /\ changes < MaxChanges
  /\ v # cloud[n]
  /\ v \in {0, changes + 1} \cup (IF Reuse THEN 1 .. changes ELSE {})
  /\ cloud' = [cloud EXCEPT ![n] = v]
  /\ changes' = changes + 1
  /\ UNCHANGED <<pc, sessionVars, opVars>>

\* handleControlMessage for another account closes the channel and makes a new
\* one; only a runner that waits notices.
Claim ==
  /\ pc = "wait"
  /\ claim' = TRUE
  /\ UNCHANGED <<cloudVars, pc, up, timer, opVars>>

\* The stream of an operation ends.
Die(op) ==
  /\ alive' = alive \ {op}
  /\ UNCHANGED <<cloudVars, pc, sessionVars, running, operationConfigs,
                 opHashHeader, reply, changedConfigs>>

Disconnect ==
  /\ up
  /\ up' = FALSE
  /\ UNCHANGED <<cloudVars, pc, timer, claim, opVars>>

\* The next session has a runner of its own; what the last one started has
\* ended with its context.
NewSession ==
  /\ ~up
  /\ up' = TRUE
  /\ pc' = "delay" /\ timer' = TRUE /\ claim' = FALSE
  /\ running' = None /\ operationConfigs' = None /\ opHashHeader' = NoHash
  /\ reply' = None /\ changedConfigs' = {} /\ alive' = {}
  /\ UNCHANGED cloudVars

----------------------------------------------------------------------------
(* getOperationsDevice, and run around it. *)

Delay ==
  /\ pc = "delay"
  /\ pc' = "device"
  /\ timer' = TRUE
  /\ UNCHANGED <<cloudVars, up, claim, opVars>>

DeviceOk ==
  /\ pc = "device" /\ up
  /\ pc' = "poll"
  /\ UNCHANGED <<cloudVars, sessionVars, opVars>>

DeviceFail ==
  /\ pc = "device"
  /\ pc' = "pause"
  /\ UNCHANGED <<cloudVars, sessionVars, opVars>>

\* The timer is not reset: it fires once in a call.
PauseOver ==
  /\ pc = "pause" /\ timer
  /\ pc' = "device"
  /\ timer' = FALSE
  /\ UNCHANGED <<cloudVars, up, claim, opVars>>

\* ctx.Done in a select.
RunnerLeaves ==
  /\ ~up
  /\ pc \in {"delay", "pause", "wait"}
  /\ pc' = "gone"
  /\ UNCHANGED <<cloudVars, sessionVars, opVars>>

\* The polling interval is over.  The next select reads the channel anew.
Timer ==
  /\ pc = "wait"
  /\ pc' = "poll"
  /\ claim' = FALSE
  /\ UNCHANGED <<cloudVars, up, timer, opVars>>

\* The device was claimed: run starts over with the same maps.
Restart ==
  /\ pc = "wait" /\ claim
  /\ pc' = "delay"
  /\ claim' = FALSE
  /\ UNCHANGED <<cloudVars, up, timer, opVars>>

----------------------------------------------------------------------------
(* poll. *)

Inactive == {n \in Names : running[n] # 0 /\ <<n, running[n]>> \notin alive}

\* Mutant: the hash is not reset when an operation has ended.
PurgeKeepsHash ==
  /\ pc = "poll"
  /\ running' = Without(running, Inactive)
  /\ operationConfigs' = Without(operationConfigs, Inactive)
  /\ pc' = IF up THEN "fetch" ELSE "wait"
  /\ UNCHANGED <<cloudVars, sessionVars, opHashHeader, reply, changedConfigs, alive>>

\* Operations that are no longer active are forgotten, and with them the hash.
Purge ==
  /\ pc = "poll"
  /\ running' = Without(running, Inactive)
  /\ operationConfigs' = Without(operationConfigs, Inactive)
  /\ opHashHeader' = IF Inactive = {} THEN opHashHeader ELSE NoHash
  /\ pc' = IF up THEN "fetch" ELSE "wait"
  /\ UNCHANGED <<cloudVars, sessionVars, reply, changedConfigs, alive>>

\* Status 208.
NoChange ==
  /\ pc = "fetch" /\ up
  /\ opHashHeader = cloud
  /\ pc' = "wait"
  /\ UNCHANGED <<cloudVars, sessionVars, opVars>>

\* Status 200, with all the configurations.
Changed ==
  /\ pc = "fetch" /\ up
  /\ opHashHeader # cloud
  /\ reply' = cloud
  /\ pc' = "apply"
  /\ UNCHANGED <<cloudVars, sessionVars, running, operationConfigs,
                 opHashHeader, changedConfigs, alive>>

\* An error, another status, or an answer that cannot be read.
FetchFail ==
  /\ pc = "fetch"
  /\ pc' = "wait"
  /\ UNCHANGED <<cloudVars, sessionVars, opVars>>

\* Running operations that the cloud no longer has.
Removed == {n \in Names : operationConfigs[n] # 0 /\ reply[n] = 0 /\ running[n] # 0}

\* What the answer configures anew, and what of it can be deserialized.
New == {n \in Names : reply[n] \notin {0, operationConfigs[n]} \cup Unreadable}

\* Mutant: operations that are configured anew are stopped, removed ones stay.
RemoveKeeps ==
  /\ pc = "apply"
  /\ changedConfigs' = New
  /\ pc' = "start"
  /\ UNCHANGED <<cloudVars, sessionVars, running, operationConfigs,
                 opHashHeader, reply, alive>>

\* Find what has changed, and stop what was removed; the hash of a removed
\* operation that is not running stays.  An operation whose new configuration
\* cannot be read is left as it is, with the hash of the old one.
Remove ==
  /\ pc = "apply"
  /\ changedConfigs' = New
  /\ alive' = alive \ UNION {Op(n) : n \in Removed}
  /\ running' = Without(running, Removed)
  /\ operationConfigs' = Without(operationConfigs, Removed)
  /\ pc' = "start"
  /\ UNCHANGED <<cloudVars, sessionVars, opHashHeader, reply>>

\* Mutant: a restart does not stop the old operation.
StartOkBeside(n) ==
  /\ pc = "start" /\ n \in changedConfigs
  /\ alive' = alive \cup {<<n, reply[n]>>}
  /\ running' = [running EXCEPT ![n] = reply[n]]
  /\ operationConfigs' = [operationConfigs EXCEPT ![n] = reply[n]]
  /\ changedConfigs' = changedConfigs \ {n}
  /\ UNCHANGED <<cloudVars, pc, sessionVars, opHashHeader, reply>>

\* The operation is stopped if it runs, and started.
StartOk(n) ==
  /\ pc = "start" /\ n \in changedConfigs
  /\ alive' = (alive \ Op(n)) \cup {<<n, reply[n]>>}
  /\ running' = [running EXCEPT ![n] = reply[n]]
  /\ operationConfigs' = [operationConfigs EXCEPT ![n] = reply[n]]
  /\ changedConfigs' = changedConfigs \ {n}
  /\ UNCHANGED <<cloudVars, pc, sessionVars, opHashHeader, reply>>

\* There is no such plugin, or it fails to start the operation: the old one is
\* stopped, and its hash stays.
StartFail(n) ==
  /\ pc = "start" /\ n \in changedConfigs
  /\ alive' = alive \ Op(n)
  /\ running' = [running EXCEPT ![n] = 0]
  /\ changedConfigs' = changedConfigs \ {n}
  /\ UNCHANGED <<cloudVars, pc, sessionVars, operationConfigs, opHashHeader, reply>>

\* The overall hash.
Finish ==
  /\ pc = "start" /\ changedConfigs = {}
  /\ opHashHeader' = operationConfigs
  /\ reply' = None
  /\ pc' = "wait"
  /\ UNCHANGED <<cloudVars, sessionVars, running, operationConfigs,
                 changedConfigs, alive>>

----------------------------------------------------------------------------

Environment ==
  \/ \E n \in Names, v \in Version \cup {0} : Configure(n, v)
  \/ Claim
  \/ \E op \in alive : Die(op)
  \/ Disconnect
  \/ NewSession

Runner ==
  \/ Delay
  \/ DeviceOk
  \/ DeviceFail
  \/ PauseOver
  \/ RunnerLeaves
  \/ Timer
  \/ Restart
  \/ Purge
  \/ NoChange
  \/ Changed
  \/ FetchFail
  \/ Remove
  \/ \E n \in Names : StartOk(n)
  \/ \E n \in Names : StartFail(n)
  \/ Finish

Next == Environment \/ Runner

\* The runner goes on: its requests return (RequestReturns of Transport), and so
\* do plugins.  For the cloud and the plugins: what is asked again and again
\* succeeds at last.
Fairness ==
  /\ WF_vars(Runner)
  /\ SF_vars(DeviceOk)
  /\ SF_vars(NoChange \/ Changed)
  /\ \A n \in Names : SF_vars(StartOk(n))

SafeSpec == Init /\ [][Next]_vars
Spec == SafeSpec /\ Fairness

----------------------------------------------------------------------------
(* Properties. *)

\* No operation is leaked: whatever lives is in the map running, so that it can
\* be stopped, in one version only, and the hash of that version is recorded.
Tracked ==
  /\ \A op \in alive : running[op[1]] = op[2]
  /\ \A n \in Names : running[n] # 0 => running[n] = operationConfigs[n]

\* Once an answer is applied nothing lives that it does not ask for, whatever
\* failed on the way, and even though operations end and the cloud changes its
\* mind while it is applied: except an earlier version of an operation that it
\* does ask for, in a configuration that cannot be read.
OnlyWhatIsAsked ==
  pc = "start" /\ changedConfigs = {} =>
    \A op \in alive : reply[op[1]] \in {op[2]} \cup Unreadable

\* What OnlyWhatIsAsked rests on: while an answer is applied, what is left
\* to start is asked for, and nothing else runs that is not.
Applying ==
  pc = "start" => /\ \A n \in changedConfigs : reply[n] # 0
                  /\ \A n \in Names \ changedConfigs :
                       running[n] \in {0, reply[n]} \/ reply[n] \in Unreadable

OpInv == TypeOK /\ Tracked /\ Applying

\* As long as the session lasts and the runner polls, the configuration and the
\* operations agree again and again, for each operation whose configuration can
\* be read, beside others that cannot: one that failed to start or has ended is
\* started again, one that was removed is stopped, and the hash never hides a
\* difference.
Agree(n) ==
  IF cloud[n] = 0 THEN \A v \in Version : <<n, v>> \notin alive
                  ELSE <<n, cloud[n]>> \in alive

Converges ==
  <>[]up /\ []<>(pc = "poll") =>
    \A n \in Names : []<>(cloud[n] \in Unreadable \/ Agree(n))

\* "Polls the cloud service periodically" (run): while the session lasts, the
\* runner polls again and again.
PollsGoOn == <>[]up => []<>(pc = "poll")
============================================================================
