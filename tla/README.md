# Verification of the device emulator ("spewer")

The program in `src/` emulates many Intersight devices in one process. Each
emulated device keeps one or more websocket connections to the cloud, receives
requests on them, hands the requests to plugins, and sends responses, stream
messages and requests of its own back. This directory holds TLA+ modules that
model its core, TLC configurations that check small instances, and proofs,
checked by TLAPS, that hold for every value of the constants.

Source paths below are relative to `src/`; `EC`, `MR`, `MW` and `OP` stand for
`emulatorConnection.go`, `msgReader.go`, `msgWriter.go` and `operations.go` in
`dcSpewer/emulatorConnection/`. `PROJECT.json` maps every definition of the
modules to the lines it models.

A second program, the emulator farm, creates such processes in a cluster.

## 1. Inventory

| Component | State | Operations | Interacts with | What is hard |
|---|---|---|---|---|
| Connection session (`EC` run, dialWebsocket, disconnectLoop; `MR`; `MW` writeLoop) | websocket, context, channels, window, handler slots | dial, read, hand over to a handler, write under flow control, tear down | cloud, plugins, all senders | goroutines of one session that outlive it, blocked goroutines at the end of a session, window accounting |
| Message transport (`MW` Dispatch; `EC` GetRaw, PostRaw, SendRestStim, getSecurityToken) | `flateMu`, `readLimiter`, `rspMap`, device mutex | dispatch a message, wait for a response | every connection and plugin of the process | locks held while waiting for the network; responses lost on reconnect |
| Asynchronous worker (`plugins/asyncWork.go`) | dedup map, bounded queue | accept, drop, refuse, execute, publish | a stream | two goroutines on one map, full queue |
| Operations runner (`OP`) | running operations, their hashes, the overall hash | fetch the device, poll, stop, start, restart | cloud, stream and upgrade plugins, claims | stale hashes, failing starts, retries |
| Registration, start, identity (`EC` StartEmulators, start, register, handleControlMessage, StartChildDc) | `emulators` map, identities, children | restore, register, start, rename, start a child | storage, API server, all connections | crashes, failed writes, concurrent starts, control messages in any order |
| Streams (`plugins/stream.go`) | maps of streams, stream types and stream operations | start, close, input, emit, stream operation | operations runner, all stream plugins, transport | look-ups used after an unlock, deletion by name, one emitter for all |
| Terminal and command sessions (`plugins/command.go`) | process, quit channel, wait group | open, write, resize, kill, close | a stream | several goroutines closing one session |
| Inventory plugin (`plugins/commoninventory.go`) | inventory, diff cache, current processor | create, collect, compare, send | a stream | a replaced stream, objects held back for relations |
| Jobs (`plugins/jobs.go`) | job maps, wake-up times | start, run again, run now | process-wide runner | runner bound to one session, one wakeup for all |
| Event channel (`plugins/eventChannel.go`) | subscribers, counters | subscribe, unsubscribe, emit | process-wide eventer | start and stop handled out of order |
| Network agent (`plugins/networkAgent.go`) | inventories of ports, `inventorySyncState`, order of jobs | configure ports, channels, unified ports, answer jobs, start servers | storage, jobs, registration | read, change and write back without a lock |
| Storage client and server (`dcSpewer/storage`) | devices, shared and local inventories | read, write, list | registration, network agent | failed writes and reads |
| Emulator farm (`cmd/emulatorfarm`) | that of the Kubernetes cluster | create, update, delete, list | cluster | partly failed operations, handlers without a lock |
| Upgrade and downloads | cancel function, semaphore | start, report | transport, operations | replaced downloads |
| Other plugins, utilities, API server | little | look up and render | storage | formatting, hardly any control |
| Redfish emulator, build scripts, command line tools | documents | serve, convert | - | separate programs |

What makes each part correct:

- *Session*: nothing of a session is left when the next one replaces its
  fields; no message is written that the cloud has not granted; handler slots
  are accounted for; a dead session ends and the connection comes back.
- *Transport*: whoever holds a process-wide lock can be released; every
  Dispatch returns; every request with a deadline ends; a token request cannot
  keep a connection offline.
- *Async worker*: the dedup map is exact; each accepted unit is answered once.
- *Operations*: no started operation is lost; what runs is what was asked for;
  the configuration and what runs agree again and again.
- *Registration*: a device is found by its identity; crashes register no more
  devices than configured; a start comes to its end.
- *Streams*: one live stream of a type, and exact maps; a cancelled stream ends.
  *Terminals*: the output closes once, last, and complete; processes are reaped;
  sessions end. *Inventory*: the cloud's copy is the one that differences are
  taken against, whatever streams were replaced, and is built in the order of relations.
- *Jobs*: none is forgotten while one runner serves all devices. *Events*:
  batches have their numbers, with gaps where some were lost; a plugin that is
  entered emits.
- *Network agent*: a port is in one inventory; servers are children before they
  are started; the cloud comes to have the inventories as they are.
- *Farm*: an emulator has its service, a service its emulator.

The list of `hazards` in `PROJECT.json` names the lines where each of these can
go wrong and the property that covers it.

## 2. Modules

    Link  <-- Session (SessionProofs)         one connection implements Link
     ^
     +------ Transport (TransportProofs)      many Links that share locks and limits
    Work  <-- AsyncWork (AsyncWorkProofs)     the worker implements Work
              Operations (OperationsProofs)   asks for operations of ...
              Streams (StreamsProofs)         the streams of a device, above which are
              Terminals (StreamsProofs)         an interactive one
              CommonInventory (JobsProofs)      the one that collects
              Jobs (JobsProofs)               the runner of all devices' jobs, which
              NetworkAgent (NetworkAgentProofs) answers, besides its messages
              Events (AsyncWorkProofs)        the eventer of all devices
              Registry (SessionProofs)        the devices of a process, and crashes
              Farm (FarmProofs)               the processes of a cluster

An arrow reads "implements" or, for Transport, "is built on". `MC...` modules
and `.cfg` files instantiate them for TLC. A definition whose comment starts
with "Mutant:" is a plausible bug that is not part of any specification; each
breaks one property and shows that the property depends on the code.

Four proof modules hold the proofs of two modules, of what runs in the background
or holds the others together next to what it serves. They extend both, so the
names of the second one have a prefix where they would be the same: `TM` in
Terminals, `EV` in Events, `RG` in Registry, `CI` in CommonInventory.

**Link** is what a connection promises: it is down, up or closing, opens only
when no goroutine of the last websocket is left, never skips closing, and ends
down once it closes.

**Session** is one `connectionEmulator`: `run` is the program counter of `run`
inlined with `dialWebsocket` and `readLoop`; `writer` and `breaker` are the
goroutines `writeLoop` and `disconnectLoop`; handlers are counted by what they
still have to do. Sessions are not numbered: a `cancel` function that somebody
read before it was replaced is "stale", so there is no bound on reconnects.
`credit` and `asked` are ghosts, used only by properties. The windows keep
the two limits of the code, messages and bytes, and a writer that has used one up
waits for the next flow message or its timeout.

**Transport** is the process: connections (each a Link with a reader and a
writer) and tasks, the goroutines that dispatch: handlers of a session, requests
with a deadline, and token requests that hold the device's mutex over two
requests. It has `flateMu`, the `readLimiter`, and `rspMap` as a flag per task.
The reader stops for a flow message only, since every other message it reads
goes on to a handler or a buffered channel. `Deliver(c, 0)` is a window that its own
acknowledgement uses up, after which the writer waits anew. A write to the websocket is taken to
return: the code sets no deadline on it, and a peer that stops reading without
closing would block the writer, a case the models leave out.

**Work** and **AsyncWork**: the promise and the code of the asynchronous worker.
`owed` counts, for each key, the answers the worker still has to publish.

**Operations**: the runner of a session. Configurations are version numbers;
the hash over the sorted configurations is the function it is computed from. That
loses nothing, because a configuration contains its operation's name. The cloud
answers 208 exactly when the hash it is sent is that of its configuration, a
snapshot otherwise. The cloud may change its mind at any time, starts may fail,
and operations may end by themselves; `alive` holds the operations that plugins
handed over and that have not ended. A configuration in `Unreadable` is one that does
not deserialize: its operation is neither stopped nor started. A stream that starts after its operation
gave up is not in `alive`; Streams has the other end of it.

**Streams**: start messages are in the pc of the handler that looks the name up
(`found`, `missing`) and registers later, so that two of them overlap as they do
in the code; afterwards the same record is the stream. `Take` is the loop of the
one streamer. A session of the device ends with `NewSession`, which cancels the
contexts of its streams and operations.

**Terminals**: one session of either kind; `at` has a position for each of its
five goroutines, `wg` and `quit` are those of the code, and `crash` records a
panic or a `Fatal`, which ends everything. `run` and `sink` are the two
goroutines of `stream.run` for an interactive stream. Writes to the process block, fail
or succeed, timers fire or not, the process may ignore the first signal, or the
signal fail, which leaves it to the timer that kills it.

**CommonInventory**: a stream is a call of StreamDelegate with a collector and a
processor. Versions stand for values of properties. The cloud's copy is what the
types of messages say it is: an upsert, a deletion, and the end of a full
inventory, which drops what was not in it. A stream is opened with an init message,
which gives each type any number of relationships; one whose selector names no key
(`NoType`) never resolves. A report is processed item by item:
`Upsert` and `Retry` are the bodies of the two loops of the code, an accumulator
has the cache, the items held back and the upserts, and a pass is made for
each type of what is held back. `Retry` goes through the properties of an object in
the order of a Go map until one relationship resolves, and writes the object once more into
`relmissing` for each that did not: over items that are yet to be retried, or past the
end, which is a panic (`crash`). So its result is a set, of which the map's order
picks one. A type is reported whole: `objsPerType` is 100 and so is a segment, but for
init messages of more than 50 types, where line 441 splits a type in two. The contract with Streams, that a
stream starts when those before it are cancelled, is `OneLivePerType`.

**Jobs**: `left`, `device` and `toRun` are the loops of the runner between its
locks; `wakeup` is the channel, which is full or not. `executing` is the job that runs,
which takes the time of the network; what is asked for meanwhile goes on.

**Events**: messages leave goroutines behind (`adds`, `starts`, `removes`), which
take effect at any later time, in any order. A batch arrives or is lost, as Dispatch and
the fetch of its events may fail; the counter goes on in any case.

**Registry**: objects are values of `deviceConnector`, a start is a goroutine of
`start`, of which an object may have two. The storage survives `Crash`, the
rest does not. Registrations are numbered; an identity is a registration and
which of its two names is meant, as a control message can give it the other one.
`access` belongs to a start: each stores the key of its own registration, with the
identity that the device has by then.

**NetworkAgent**: handlers are goroutines in the middle of a message, with the
copies of the inventories they have read. `torn` is a ghost: a message that moves
a port between inventories overlapped another one, failed half way, or crashed
half way. A failed read of the FC inventory counts as torn, as the code goes on
with an empty one. `ProcessEnds` takes the children (`known`) and the marks with it, but not
what the cloud has been told, which is in `before`. A job marks what it has read
(`MarkSent`) before jobs.go offers the answer (`Answer`), which is lost when the
context of the job is done (`dead`): that of the first message that started it.

**Farm**: handlers with one call to the cluster at a time; a call may fail, and
may then have had its effect. Names are pairs (what `TrimRight` leaves, the zeros
it takes), which is how the code confuses two emulators. The goroutines in which
createEmulator creates several emulators share its `err`: one that has the result of a
call may test that of another, which `raced` remembers. A panic in
`MustParse` while it builds a set ends the process with what was in progress (`cut`). The deletion of a
namespace is asynchronous: it is `terminating`, and found, until it is gone.

## 3. Runs

| Run | Shows | States |
|---|---|---|
| `session` | `CleanSlate`, `CreditRespected`, `SlotAccounting`, `DeadSessionEnds`, `Reconnects`, `ImplementsLink` for one connection | 35 417 |
| `transport` | `NoOrphan`, `DispatchReturns`, `RequestReturns`, `ComesBack`, `UsesLinks` for two connections of one device | 21 504 |
| `asyncwork` | `DedupExact`, `ImplementsWork` | 6 506 |
| `operations` | `Tracked`, `OnlyWhatIsAsked`, `Converges` when the cloud never goes back to an old configuration, and one cannot be read | 28 392 |
| `streams` | `OneLivePerType`, `MapsExact`, `CancelledEnds` for overlapping starts, closes, operations and a reconnect | 191 648 |
| `terminals` | `OutputClosedLast`, `NothingLost`, `Reaped`, `SessionEnds` for a session of either kind | 64 690 |
| `inventory` | `OneProcessor`, `InSync`, `RelationsFirst`, `Collected` for a stream and the one that replaces it, with one relationship of a type or several | 200 356 |
| `jobs` | `NotForgotten`, `OneRunner`, `Runs` for two devices that share a runner | 104 920 |
| `events` | `Numbered`, `Served` for three subscriptions of two devices | 259 918 |
| `registry` | `Findable`, `Budget`, `ComesUp` for a device, a server it manages, and a crash | 381 617 |
| `network_agent` | `EachOnce`, `StartsChildren`, `Refreshed` for two messages, two jobs and a restart | 520 603 |
| `farm` | `HasService`, `NoLeak` for four requests, a failing call and a restart | 2 108 202 |

Each module has a type invariant `TypeOK` (with its prefix) as well. The runs leave it out: it is
proved where there are proofs, and holds of the other instances when it is added
to a cfg.

### Bounds and why they are enough

- `session`: two kinds of windows (one message, which the acknowledgement
  itself uses up; three messages with a byte limit that stops one of them) and two
  sizes of messages, so that each limit closes a window; two handler slots,
  so that one handler can wait while another runs; one handler timeout in a
  session (`MaxTimeouts`), which is what makes slots and handlers differ. The
  number of sessions is not bounded. `CreditCap` saturates the ghost.
- `transport`: the smallest process in which one connection can block another:
  two connections, a `readLimiter` of one, a token request on the first
  and a handler's replies on the second. A window grants at most one message
  besides its acknowledgement (`MaxWindow`), or none, so windows close all the time.
- `asyncwork`: four keys and a queue of two: one unit runs, two are queued and
  the fourth is refused.
- `operations`: two operations, so that one can fail or end while the other is
  being applied; four changes (`MaxChanges`) add, replace and remove or
  replace again, and the second one makes a configuration that cannot be read.
- `streams`: two names of one type, two start messages, two operations and two
  sessions: two starts of a name overlap or one replaces the other, and an
  operation of the old session leaves while one of the new one waits.
- `terminals`: one session, as sessions share nothing; a handler with input
  (`MaxInputs`), which may be there while another input blocks in a write, or be left
  when the session is over; `ErrCap` is 0 as in the code.
- `inventory`: a second stream replaces the first at any point. Three types with one
  object each, batches of two, which are full when what was held back is added. The
  first stream has a type with three relationships, two of them to one type, enough to be
  written over another item and past the last one; the second has these, or one
  for each type, in a chain: an object is held back behind one that is held back itself.
  Two versions, so that an incremental collection finds a difference.
- `jobs`, `events`: two devices, since what is hard is that one serves the
  other's; two jobs each so that one is asked for while the other runs. In `events`
  four messages stop and start a subscription again.
- `registry`: one connection, a child, one crash; three registrations in all, and
  `MaxCloud` trades registrations against control messages, of which two may be
  handled at the same time. All bounds are on what the environment does.
- `network_agent`: two inputs (`MaxInputs`) of any kind: messages in any two
  goroutines about one port, failed requests, and restarts. The proofs cover more
  ports and messages.
- `farm`: one base name and the same with a zero, four requests by two
  handlers, which are interchangeable: create both, delete one, create it again; one
  call that fails (`MaxFailures`).

`asyncwork`, `terminals`, `inventory`, `events`, `registry`, `network_agent` and
`farm` do not check deadlock: closed streams, used-up messages and finished
requests leave systems that stay as they are. In the others the environment can
always go on.

### Fairness

- *Session*: goroutines that can take a step do; timers fire; a dial that is
  tried again and again succeeds at last; a read from a closed websocket fails
  (strongly fair, as the reader may be elsewhere in between). Not assumed: that
  the cloud sends or grants anything, that the peer ever breaks the connection,
  or that any handler makes progress.
- *Transport*: the same for its tasks; mutexes and channels serve their waiters
  in turn (Go's `sync.Mutex` hands itself to a waiter that starves, and channels
  queue their senders), hence strong fairness of `Lock`. Not assumed: that the
  cloud answers or grants windows, or that a window it grants has room.
- *AsyncWork*: goroutines go on, plugins return, the streamer of the process
  takes what a stream offers because every Dispatch returns (`DispatchReturns`
  of Transport). Nothing is assumed of input, or of the stream being closed.
- *Operations*: the runner goes on, as requests return (`RequestReturns` of
  Transport); and, of the cloud and the plugins, that what is asked again and
  again succeeds at last. Without these `Converges` says nothing of the code; with
  them its violations are the code's.
- *Streams*: handlers and operations go on, and the streamer of the process takes
  what a stream offers, because every Dispatch returns. The end of a cancelled
  stream is strongly fair: Go's select chooses among the cases that are ready, so
  ticks do not hide the context for ever. Nothing is assumed of messages or ticks.
- *Terminals*: goroutines go on, timers fire (one that kills a process which ignores
  the first signal among them), and, for the same reason, a select sees the context or
  `quit` some time. A write that blocks returns when the process has exited. Nothing is
  assumed of input, output, failures, or of a command ending or reading by itself.
- *CommonInventory*: goroutines go on and the stream's sink takes what is sent
  while the stream is up. Not assumed: that a stream ends, or is opened again, or that
  the process panics where it may.
- *Jobs*: the runner goes on: jobs return, as requests do. *Events*: the eventer
  goes on, and the goroutines that are to start it do. Not assumed: that a batch arrives.
- *Registry*: goroutines of `start` go on, strongly fair as the cloud may refuse a
  registration for a while and readers may hold `emulatorsMu` in between; a request
  for a token is answered or times out. Nothing is assumed of crashes, control
  messages or writes to the storage that succeed.
- *NetworkAgent*: a job gets its turn when it is asked for again and again (strongly
  fair, because `mu` and the order of jobs come in between), what was read is
  answered or lost with its context, and the day that marks inventories as not sent
  passes, but not every time just while an answer is on its way. Messages are not assumed
  to go on.
- *Farm* has no liveness property: a client that gets an error is not obliged to
  try again.

## 4. Disagreements with comments, and what does not hold

The modules define these properties, too. Each says what a comment of the code
promises, no run lists it, and TLC refutes it when it replaces the properties of
the cfg named:

| Property (cfg) | The code |
|---|---|
| `BackoffHonoured` (`MCSession`, invariant) | `EC:637` clears `serverBackoffDur` before line 649 reads it: the pause that a refused dial asked for is never kept (comment of `reconnectRate`). |
| `WindowStarts` (`MCTransport`) | `MR:125`: a window starts when the writer has used up the last one, not on receipt of the flow message (comment at `MW:58`). |
| `Converges` (`MCOperations` with `Reuse = TRUE`) | `OP:302`: a failed restart leaves the hash of the stopped operation in `operationConfigs` ("Set of running operations configuration hashes"); when the cloud goes back to that configuration the hashes agree, and the operation stays stopped. |
| `PollsGoOn` (`MCOperations`) | `OP:38`: the retry timer of `getOperationsDevice` fires once in a call, so the runner, which "polls the cloud service periodically", stops for the rest of the session after the second failure. |
| `ActiveRuns` (`MCStreams`, invariant) | `stream.go:371`: Active ("Check if stream is still active", 364) looks up the name, which may be that of another stream by now. |
| `StatusReported` (`MCTerminals`, invariant) | `command.go:312`: the status ("Report exit code status and error to the stream", 304) is offered once on a channel without a buffer, whose receiver may be busy with the last output. |
| `InputErrorCloses` (`MCTerminals`) | `command.go:235`: "On any input error close the session" (232), but runTerminal waits for the wait group it is counted in. |
| `Reopened` (`MCCommonInventory`) | `commoninventory.go:519`: a clean state "when cloud re-opens stream" (514) needs the old processor to end, which may be offering a message to a stream that has ended. |
| `AllResolved` (`MCCommonInventory`) | `commoninventory.go:577`: an object is sent when one of its relationships resolves, not "if they now resolve all relations" (535). |
| `Filtered` (`MCEvents`, invariant) | `eventChannel.go:241`: the batch is not emptied between subscribers, each of which has its own filters (131). |

The properties of the runs state how far a promise holds instead. Each of these names a case
in which the code does not keep it, and TLC refutes the property without that case:

| Property | The case it excepts |
|---|---|
| `DispatchReturns`, `RequestReturns`, `ComesBack` (`Starved`) | `MW:144`: a window that its own acknowledgement uses up starts the flow timeout anew (67), so a cloud that grants nothing but such windows keeps the writer waiting for ever, and with it whoever holds `flateMu`. |
| `OnlyWhatIsAsked`, `Converges` (`Unreadable`) | `OP:276`: an operation whose new configuration does not deserialize goes on in its old version. |
| `NotForgotten`, `Runs` (`Ask`) | `jobs.go:214`: `firstRun` is set when a job has run, and a request made while it ran (213) is overwritten. |
| `Numbered` (`lost`) | `eventChannel.go:242`: the counter goes on although the batch was not sent (265-278). |
| `Reaped` | `command.go:195`: when SIGTERM fails the function returns without waiting for the process; the timer that kills it is left. |
| `SessionEnds` (`Blocked`, `SelfWait`) | `command.go:231` and 357: a write to a command that reads nothing has no limit; and after a failed one runTerminal waits for itself (235). |
| `StartsChildren` (`before`) | `EC:591`: a server that the cloud was told of by a process that has ended is no child of the new one, which takes a nil connector. |
| `Refreshed` (`dead`) | `jobs.go:303`: a job has the context of the message that first started it, with which Dispatch drops its answers once that session is over, though they are marked as sent. |
| `HasService`, `NoLeak` (`raced`) | `emulatorfarm.go:797`: the goroutines of a request assign and test one `err` (683), so one may take the success or the failure of another for its own. |
| `NoLeak` (`cut`) | `emulatorfarm.go:852`: `MustParse` panics on a quantity that does not parse, when the service is there. |
| `InSync` (`Plain`, `crash`) | `commoninventory.go:585`: `relmissing` is written once for each relationship that does not resolve, over items yet to be retried: with several relationships objects are forgotten until the next collection, or the index is out of range. |
| `Collected` (`Stuck`) | `commoninventory.go:519`, as above. |

`Findable`, `EachOnce` and `ComesUp` have the condition they need in their comment.

## 5. Proofs

All proofs hold for arbitrary constants under the named assumptions of the
modules. Each is by an inductive invariant; the parts that are properties of runs,
and the type invariants, TLC finds true on the instances.

- **SessionProofs** (`SessionInv` = types, `RoutinesInv`, `WindowInv`,
  `SlotAccounting`): `TypeCorrect`, `SetupIsClean`, `CreditIsRespected`,
  `SlotsAccounted`, `SafelyImplementsLink`. `CleanSlate` speaks of one point of
  `run` only and is not inductive; `RoutinesInv` says which goroutines can exist
  at each point, and that a writer closes the websocket and cancels before it
  is done. `CreditRespected` needs `WindowInv`: the credit covers the
  rest of the window in use. The refinement proof maps every step to a step of
  Link or to a stutter.
- **TransportProofs** (`TransportInv` = types, `BoundToSession`, `RoomLeft`,
  `OneDispatch`): `TypeCorrect`, `NobodyOrphaned`, `ConnectionsAreLinks`.
  `NoOrphan` follows from `BoundToSession`: a context that is not done belongs to
  a session that is up, and such a session has a reader and a writer.
- **AsyncWorkProofs** (`WorkInv` = types and `DedupExact`, which is inductive as
  it stands): `TypeCorrect`, `DedupIsExact`, `SafelyImplementsWork`. The
  refinement goes key by key: a step adds or takes one answer of one key.
- **OperationsProofs** (`OpInv` = types, `Tracked`, `Applying`): `TypeCorrect`,
  `NothingLeaks`, `AppliedAsAsked`. `OnlyWhatIsAsked` speaks of the end of an
  application; `Applying` says of every moment of it that what is not waiting to
  be started is stopped, as asked, or asked for in a way that cannot be read, which in turn needs `Tracked`
  to know that an unchanged hash means an unchanged operation.
- **StreamsProofs**: `TypeCorrect`, `OneLiveStream`, `MapsAreExact`. A stream that
  runs and is not cancelled is the one in `streamTypes`, because Register holds the
  lock from the cancellation of the last one to the registration of the
  next. `MapsExact` is inductive with `UnderItsType` (an operation waits under the type
  it asks for): a stream that ends removes the entry of its name whoever has it, so
  what is left leads to streams that run.
- **StreamsProofs**, of Terminals (`TerminalInv`): `TerminalsTypeCorrect`,
  `OutputIsClosedLast`, `NothingIsLost`, `ProcessIsReaped`. `WaitGroup` says that the
  counter is the number of goroutines that owe a Done, in either order in which
  runTerminal calls `sendClose`; so the output is closed after the last
  of them (`ClosedInOrder`). What the process wrote is not lost because the buffering
  goroutine ends only after `quit` is closed and it has emptied its channel (`Drained`).
- **SessionProofs**, of Registry (`RegInv`): `RegistryTypeCorrect`, `DevicesAreFound`,
  `BudgetIsKept`. `Findable` is about the moment at which a device is up; `Enrolled` is
  its inductive form, from the time that the device is listed. It needs `Origins`, of the
  registrations that a device bears (that of its identity, and those of the
  identities that handlers hold between their steps on the map): it has one only, or
  else shares none with another device or with a record that is to be restored. So a
  handler that takes an identity off the list takes off its own. The proof showed that
  `Findable` had been stated too strongly: a device whose two registrations are
  restored as two devices can lose its place to its twin, beyond the bounds of the run,
  and the property now excepts it. `Budget` counts the records, the starts that are to
  write one, those that are to register, and those that StartEmulators has yet to make
  (`Allowance`); each action moves one of them to the next or, with a crash, to `lost`.
  `KeysApart` makes the records differ that are counted.
- **AsyncWorkProofs**, of Events (`EventsInv`): `EventsTypeCorrect`, `PluginsAreAttended`,
  `BatchesAreNumbered`. The eventer keeps a counter of its own while it is at a topic; `InTurn`
  ties it to the subscriber's and to the batches sent, those that were lost included. `Attended` is the safety
  half of `Served`: a plugin that was entered has an eventer, or somebody is
  to start one.
- **JobsProofs**: `TypeCorrect`, `NoJobForgotten`, `AtMostOneRunner`. The invariant
  ties the flag `running`, which Delegate reads, to the runner (`Accounted`), and says
  that the runner knows the plugin of every job (`Known`), so that a new round
  comes to all of them. The job that is executing is accounted for apart, as its mark is yet
  to come.
- **JobsProofs**, of CommonInventory (`CISafe`, `Feeding`, `Covering`): `InventoryTypeCorrect`,
  `ProcessorsTakeTurns`, `RelatedFirst`, `CloudInSync`. `CISafe` holds whatever is
  cancelled: one holder of the lock, one processor at work, one stream up (`Opened`), and
  it is the one whose inventory is current. `Feeding` is about the stream that is up.
  `PendingSound` compares the cache with what the cloud will keep of this
  collection (`Got`: nothing before the full start is delivered, what the full
  inventory has named while it is being sent, then all): they differ by the
  upserts that are not sent yet, and these are in an order in which an object comes after
  one that it relates to, wherever a batch is cut. `Covering` says, of a stream whose
  relationships are `Plain`, that what was reported has a version or is held back. The
  lemmas about `Upsert`, `Retry`, `Pass` and `ReProcess`, whose results are sets, are by
  induction over the items of a report. They need nothing of the relationships where
  they are about what is put into the cache and the upserts: an item held back may be
  overwritten, dropped or put twice, and the cloud still has what the cache has.
  `ReProcessCompletes` is the interesting one: the code makes as many passes as types
  are held back, and each pass settles a type at least, as one of the types held back
  relates to none of the others. That is so for `Plain` init messages: a type has one
  relationship at most, to a type, and no chain of them comes back to it. The
  cloud decides that and the code does not check it, hence the hypothesis in `InSync`.
  With several relationships objects are overwritten in `relmissing` and forgotten; in a
  cycle they are held back until the full end and then dropped.
- **NetworkAgentProofs** (`Inv` = `TypeOK`, `ArgsOK`, `PortInv`, `ServerInv`):
  `TypeCorrect`, `PortsOnce`, `ChildrenFirst`. `EachOnce` is not inductive: what a
  handler is about to write was read earlier. `PortInv` says of every copy that it
  has the ports of the inventory it will replace (`Agrees`), unless its message
  moves a port, and that such a message is handled alone while nothing is torn.
  `ServerInv` follows an announcement from the event that is prepared to the
  message that starts the server, and through the end of the process, which moves what
  was told to `before`.
- **FarmProofs**: `TypeCorrect`, `EmulatorsHaveServices`, `NoServiceLeaks`. A handler that
  is to create a set has created its service (`Holds`), and one that is to delete a
  service has deleted its set (`Removes`); of these there is one at most for a name, and
  meanwhile the service is there and the set is not (`Guarded`), as long as the namespace is
  not deleted under them and no goroutine took another's result for its own. `raced` has the names whose call and whose test of `err` disagree,
  and nothing else, so the theorems cover every schedule in which they agree.

Only model-checked: all liveness properties (`DeadSessionEnds`, `Reconnects`,
`DispatchReturns`, `RequestReturns`, `ComesBack`, `Converges`, `CancelledEnds`,
`SessionEnds`, `Collected`, `Runs`, `Served`, `ComesUp`, `Refreshed`, and the liveness
halves of `ImplementsLink` and `ImplementsWork`), since liveness under fairness is out of
reach of the prover. Every safety property that a run checks is proved.

The induction theorems of the library take an operator as a parameter, which the
provers cannot instantiate, so no theorem is proved by induction over an operator.
Where induction over data was needed, for the folds of CommonInventory, it is over a set of
naturals, which the provers handle: `Counting` of JobsProofs follows from the fact
that `<` is well-founded on them.

## 6. Not modelled

Contents of messages, compression, framing, the ping and pong handlers, keys and
signatures, logging, the lengths of intervals, data races whose outcome is a
crash of the Go runtime (two goroutines in one map), and panics of single
expressions: a nil `cancel` (`EC:939`), a negative queue size (`asyncWork.go:117`),
a claim channel closed twice (`EC:1171`), a restored parent without connections
(`EC:567`), the error of another variable in `writeDevice` (`server.go:161`). In the
farm the environment of the emulators, which the goroutines of createEmulator
append to one slice (`emulatorfarm.go:779`), the status, the certificates and the proxy.
A stored record whose key cannot be decoded (`client.go:217-231`), which a device does not
write: the client skips its key and the device makes a new one. An inventory with more than
50 types, whose segments are halves of a type (`commoninventory.go:441`).
The cache of sent stream messages (off unless `ENABLE_STREAM_CACHE` is set), the
database behind the storage server, the plugins that only look up and render
documents, the upgrade and download plugins, the Redfish emulator and the build
scripts: see `components` in `PROJECT.json` for the reason of each.

## 7. Plan

Done: Link, Session, Transport, Work, AsyncWork, Operations; Streams, Terminals,
CommonInventory, Jobs, Events, Registry, NetworkAgent, Farm; proofs of the safety
properties of all of them. Left, in this order:

1. What the liveness properties rest on, as action properties: that what `Collected`,
   `Served` and `SessionEnds` say of a goroutine that waits stays true until it goes on,
   so that only fairness is left to the model checker.
2. The composition of Operations and Streams, in which an operation that gave up
   finds its stream running when it is polled again.
3. The work limiter by kind of work in Transport, and the semaphore of downloads.
4. The cache of sent messages in Streams, and the import of inventories in the storage.
