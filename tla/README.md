# Verification of the IoT gateway

TLA+ models of the gateway's core logic, model-checked with TLC, and theorems about
them checked by the TLA+ proof system. Paths are relative to the root of the repository;
`scheduler.go` is `internal/core/scheduler.go`, `manager.go` is `internal/output/manager.go`.

## 1. The system

The gateway is one Go process with an SQLite database. Data flows in one direction:

    devices -> scheduler -> dataPoints (channel of 1024) -> pipeline -> processing -> alert
            -> output manager -> one slot for each output (channel of 1024) -> broker
                                   |                          |
                                   +--> durable queue (SQLite) <--+   full channel, failed send
                                        durable queue -> replay (1 s) -> slot's channel

Configuration flows the other way: the REST API and the platform synchronisation edit the
database; every edit signals the subscribers (scheduler, processing, alert) through a
buffered channel of one element, and the handlers of the output table call
`Manager.Reload` themselves.

| Component | State | Operations | What makes it correct |
|---|---|---|---|
| Scheduler, hot reload (`scheduler.go`) | `runtimes`, the device connections | `Run`, `reload`, `reconcile`, `openAndRegisterBatch`, `stopDevice` | What runs is what is stored; nothing leaks; unchanged devices are left alone |
| Polling timer (`pollsched.go`) | `byID`, heap | `schedule`, `remove`, `run`, `stop` | A running device is polled, no other is; the timer never waits |
| Workers and reports (`scheduler.go`) | task queue, worker pool | `collectOnce`, `pushData`, `emit`, `markOnline`, `markOffline`, `stopCollectors` | No send on a closed channel, no read of a closed connection, shutdown ends, notifications agree with the status |
| Status, values (`status`, `values`) | last status and value of each device | set and get | Copies for display; the status decides on notifications |
| Pipeline (`pipeline.go`) | none | `RunPipeline` | Hands every point on until cancelled |
| Processing (`processing/engine.go`) | rules, deadband baselines, windows | `Process`, `reload`, `flushLoop` | Filters as configured, every window is emitted once, rules follow the store |
| Alerts (`alert/engine.go`) | rules with their state, pending alerts | `Process`, `reload` | One pending alert for each active rule, each resolved in the end |
| Output manager (`manager.go`, `buildset.go`) | active slots | `Publish`, `Reload`, `replayOnce`, `Close` | No point vanishes, slots are stopped once, outputs do not hold each other up |
| Durable queue (`backfill/backfill.go`) | table `gw_backfill_queue` | `Save`, `Peek`, `Ack`, `DropOutput` | Bounded, oldest first, acknowledges what was read |
| Batch outputs (`output/mqtt`, `thingsboard`, `tdengine`, `smardaten`) | pending points, devices to announce, flusher, client | `Publish`, `DeviceOnline`, `DeviceOffline`, `flush`, `Close` | A point is sent, pending or saved; the platform shows a device as it was last reported |
| Sparkplug B (`output/sparkplugb`) | who is born, aliases | `birthSequence`, `sendDeviceBirth`, `Publish` | No undeclared alias; no device shown alive that is not |
| Platform synchronisation (`output/smardaten/sync.go`) | the file of the platform's configuration | `syncToGateway`, `deleteOrphanSynced` | The store becomes what the platform ordered; what is a user's stays |
| Platform commands (`thingsboard.go`, `smardaten.go`, `core/writer.go`) | queue of commands, writer | RPCs, attributes, service calls, `WritePoint` | Carried out once, in order, answered as it was |
| Drivers (`driver/modbus`, `modbus_listen`, `opcua`) | pools of shared connections, subscriptions, routes | `Open`, `Read`, `Write`, `Subscribe`, `Listen`, `Close` | One link while somebody holds the connection; answers and notifications reach the device they are about; a value is that of the point's registers |
| Store (`store/sqlite.go`) | configuration tables, subscribers | edits, `notify` | Every edit is followed by a signal |
| API, auth (`api`, `auth`) | sessions | request handlers | Edit, then reload; sessions expire |
| Main (`cmd/gateway/main.go`) | | start, shutdown | Order of start and shutdown |

Hard to test, and therefore what the models are about: edits during a reload; several reloads
at once; slots that were read before a reload and are used after it; rows that were read from
the database and acknowledged later; full channels and queues; brokers and platforms that come
and go; connections shared by devices, workers and one-shot users; two syncs and a user on the
same rows; the end of the 16-bit address space; the shutdown against blocked goroutines; crash
and restart between any two steps. `PROJECT.json` lists these hazards at their lines, with the
properties that guard them.

## 2. Modules

| Module | Models | Depends on |
|---|---|---|
| `HotReload` | incremental reload of the scheduler, the store it follows, the schedule table | |
| `Collector` | polling timer, workers, online and offline reports, data channel, shutdown | |
| `Backfill` | the durable queue: the abstract specification of what the delivery path may do to it | |
| `Delivery` | fan-out, slots, replay, reloads of the outputs, shutdown, crash, restart | extends `Backfill` |
| `Processing` | filters, aggregation windows, flusher, reload of the processing rules | |
| `Alert` | evaluation of the alert rules, alert table, reload of the rules | |
| `SharedPool` | the abstract specification of a shared connection | |
| `Drivers` | the connection pools of the three drivers with their users | implements `SharedPool` |
| `ReadPlan` | one reading of a Modbus device: blocks, requests, decoding, in 16 bits | |
| `Outputs` | the batch outputs: pending points, flusher, durable queue, reported devices | |
| `Sparkplug` | births, deaths, aliases and points of the Sparkplug output | |
| `AllOutputs` | both of them side by side, with names of their own | extends `Outputs`, instantiates `Sparkplug` |
| `Platform` | the configuration tables, with the platforms' syncs and the users of the API | |
| `Downlink` | the commands of the platforms | |
| `AllPlatform` | what the platforms order: syncs, readings and commands side by side | extends `Platform`, `ReadPlan`, `Downlink` |
| `HotReloadProofs`, `CollectorProofs`, `DeliveryProofs`, `ProcessingProofs`, `AlertProofs`, `DriversProofs` | theorems | extend `HotReload`, `Collector`, `Delivery`, `Processing`, `Alert`, `Drivers` |
| `OutputsProofs` | theorems | extends `AllOutputs` |
| `PlatformProofs` | theorems | extends `AllPlatform` |
| `MCHotReload`, `MCCollector`, `MCDelivery`, `MCProcessing`, `MCAlert`, `MCDrivers` | small instances for TLC | extend the above |
| `MCOutputs` | small instances of the outputs | extends `AllOutputs` |
| `MCPlatform` | small instances of what the platforms order | extends `AllPlatform` |

How they fit together. `HotReload` decides which connections are opened and closed; `Drivers` says what
that does to the links (with a reload of one connection group, reduced from `HotReload`); `Collector`
says who reads them and when they are closed. What is collected goes to `Processing`, `Alert` and
`Delivery`. `Delivery` calls an output, which `Outputs` and `Sparkplug` open up: they take from it that
`Publish` is called by one goroutine, and not in or after `Close` (`ClosedIsQuiet`). `Platform` makes the
edits that `HotReload` follows, `Downlink` the writes that are one-shot users in `Drivers`.

### HotReload

`rows` and `conns` are the tables, `changed` is the scheduler's signal channel. The goroutine
`Scheduler.Run` goes through `pc`: `ReceiveChange`, `ListDevices`, `BuildDesired`, one
`ReconcileGroup` for each connection key, `FinishReload`. Store edits interleave with each of
these. `ReconcileGroup` has the four cases of `reconcile`: `OpenGroup`, `StopGroup`,
`RestartGroup` and `UpdateGroup`; all of them go through `Apply`, which is the effect of the
opens, registrations, updates in place and stops of the group in the order of the code: for a
device reopened in place first the new schedule entry, then the removal by device ID. The order
of the groups is the code's: groups that ran before come first, and within the two halves Go's
map order is a choice. A connection of a device is the pair of the device and a number, so that
a connection that is leaked, or closed twice, can be told from its successor. Opening or
registering any of the devices may fail. A point list, a parameter set or an interval is a
model value. The connections are read in one step, and the two statements of `ListDevices` are
one step.

`reopened`, `moved`, `failed`, `twice` and `readFailed` are history variables: two behaviours of
the code break the invariants as one would first state them, which therefore exempt exactly the
devices concerned, so that they still say everything about all other devices. One is the finding
`hot_reload_gap`. The other: a device moved to a connection group that already runs is looked up
in the runtimes of all groups (`scheduler.go:293`), keeps the runtime of its old connection, and
may be closed with its old group, although `docs/incremental-hot-reload-design.md:57` says that a
changed key stops the old group and opens the new one. From it follows `Panic`: a pushing device
moved into a running polled group and changed at the same time is updated in place, and its
runtime has no job. `TableFollowsRuntimes` says that this is the only way there.

### Collector

One program counter for each worker, each pushing driver goroutine and `Run`. The timer collects
due entries (`Tick`) and fires them later (`Fire`) without a lock. `markOnline` and `markOffline`
are the three steps they are: read the status, write it, notify. The items of one read are one
item, and the times are left out: any scheduled device may be due at any time. The shutdown is
`BeginStop`, `CloseQueue`, `CloseConnections`.

`raced` records the devices that two threads reported at the same time. The last notification of such
a device may contradict its recorded status, although `scheduler.go:513` says that the outputs are
notified when the status turns: it is read, written and notified under no common lock.
`NotifiedFollowsStatus` is about all other devices.

### Backfill and Delivery

A slot has a channel, a goroutine with at most one point in hand, and a phase. `Publish` and the
replay copy the list of active slots and then serve it slot by slot, so a slot may be stopped in
between. The reloads of several goroutines overlap freely: build, swap, stop slot by slot, drop
queues; only the swap is atomic, as in the code. `Close`, exit, crash and the next start are
actions; a restart keeps the database and nothing else. Every save may fail.

An output is one that sends each point at once: the MQTT output in its immediate mode. Its
broker is reachable or not (`up`). Alerts have a channel of their own and are not part of this
module. All outputs that are registered implement `BackfillHealthy` and `main` always wires the
queue, so the drop-and-count path of `Publish` is unreachable and left out. A late delivery by
the client library after a timeout, which the design accepts as a duplicate, is left out as well.

`accepted`, `sent` and `lost` are history variables; `lost` records each point that is given up,
with the cause: evicted over the limit, not saved because the database failed, queue dropped,
exit of the process, or left in the channel of a stopped slot. `NothingVanishes` says that there
is no other way for a point to be neither sent nor pending. The causes are known to the code
(logged, or documented as the risk of an exit), except for the last one, which is the finding
`delivery_reload`, and for the queue of an output that was only disabled, or could not be built this
time: `dropRemoved` drops it as well, although `manager.go:113` speaks of deleted outputs.

### Processing

`rules`, `last` and `aggs` are the engine's maps; `Process`, `Flush` (a tick of `flushLoop`) and
`SwapRules` are one step each because each holds `e.mu` throughout, and `handing` is what each of
the two goroutines hands on afterwards without the lock. `Process` has the code's outcomes: no rule
(`PassThrough`), a filter drops the point (`Drop`), no aggregate (`PassOn`), a window
(`Aggregate`, which flushes a window that is due first). `Filtered` folds the filters in their
order, so a deadband filter takes its baseline before a later filter drops the point. `Added` is
the arithmetic of the accumulators; the average is a pair of sum and count. `RulesOf` applies
`validProcessing`. Times are left out: a window with data may be due whenever it is looked at; the
length of a window is a name, of which one stands for those that do not parse.

`items` of a window, `passed` and `mixed` are history. `mixed` holds the points that had another
filter next to the deadband: for these the baseline may be a number that was dropped
(`engine.go:270`), although the field's comment calls it the last value passed on
(`engine.go:47`); `BaselineIsLastPassed` is about all other points.

### Alert

The callers of `alert.Engine.Process` are the pipeline and `flushLoop` (`main.go` hands `Process`
to the processing engine as its output). `Evaluate` is `evaluateRulesLocked` under `e.mu`; the
writes it decides on are in `acting`, and each caller makes them without the lock, in any order:
Go's slice has an order, but the actions of one evaluation are about different rules.
`reload` reads the rules (`ReadRules`), copies the state of each rule without the lock in two
steps (`CopyActive`, `CopyRest`), swaps (`SwapRules`) and resolves the alerts of rules that are
gone (`ResolveOrphan`). The map of the latest values is shared by the copies, as in the code, and
is therefore not copied (`seen`). A value too old for the rule's freshness is forgotten
(`Expires`); the end of a cooldown is a step (`CooldownEnds`). Edits that change the freshness only
are not modelled. An expression is its value for each assignment of values to the points it
refers to: true, false, or an error; a rule that does not compile is not `usable`. A random ID is
the pair of its rule and a number. The alert message, and the point that goes on to the output
manager, change nothing here.

`forgotten` records the alerts that stay pending for a known reason: the rule's state had been
copied by a reload, the resolution came before the alert was saved, a statement failed, or the
process ended. `outdated` records the rules that turned after a reload had copied them. The first
two reasons contradict `docs/alert-engine-design.md:211`, by which an alert that is over is resolved,
and `engine.go:52`, by which one goroutine calls `Process`. The invariants say that there are no
other reasons.

### Drivers and SharedPool

One connection, of one driver (`kind`) for a whole behaviour: the pools of the drivers share nothing.
A link is the physical connection behind a shared connection: the Modbus client, the OPC UA session,
the listening socket. Devices hold the connection, which the reload stops, opens and registers one
after the other, and one-shot users (`WritePoint`, `ProbeDevice`, `Browse`), which read the stored
configuration, open, ask and close at any time. `acquire` and `release` are one step each because they
hold the pool's lock, except for the release of an OPC UA session, which waits for the dispatcher while
it keeps the lock (`mu`). A Modbus request takes the bus, sets the unit ID, and is answered; the OPC UA
server answers, rejects or loses a Monitor request; the listener's peer connects, sends frames and
leaves. A refused registration closes the connection that was opened for it. Link names that nothing
refers to any more are used again (`Unused`).

`SharedPool` is what the users of a connection rely on. The refinement `RefinesPool` maps `held` to the
connection each holder has and `open` to the links that are open. The listener is left out of it: its
last release returns before the socket is closed, and until then the address is taken
(`AddressTaken`), which may refuse the next registration.

Two histories exempt known behaviours. `survived`: the pool finds a connection by its ID and does not
compare the configuration; when a one-shot user holds it through a restart of its group, the devices
use the old one, with the old targets, until the next restart. `lost`: the handles of a Monitor request
whose answer was lost are given again to the next one, though the server may monitor the items.

### ReadPlan

`Sorted` is one of the orders by register, always the same. `PlanBlocks` are the driver's blocks, a fold
over the sorted points (`Merged`) with ends that wrap at 16 bits; `PollBlocks` are the blocks that the
platform's sync declares (`JoinedRanges`), with unbounded numbers, and `ReadPollBlocks` is how the
driver uses them. Each block is a request that is answered or fails.
`FillResult` cuts a point out of the answer; register r holds the value r, so that a value tells where
it came from. `ReadIsExact` says that a good value is the point's own, and that without a failure every
point has one but for those that cannot: an address or a type that is refused (64-bit types are read as
one register and are never good), a point at the very end of the address space, whose end wraps to
zero, and a declared block that is longer than one request may be, because the sync merges ranges
without a limit.

### Outputs

One output of one `kind`, with its pending points, the two sets of devices to announce and to take
leave of, the flusher and what the other side received (`peer`). `FlushBegins` takes everything, as the
code does under the lock; then the devices are handled one by one in any order (Go's maps), the
disconnects first: `Disconnect`, `Connect`, `Prepare`, and one of `PublishBatch` (mqtt, in parts),
`PublishAll` and `ReportChange` (smardaten, the newest value if it changed). `Publish` saves what does
not fit. A message that fails may have come through. An output that is closed is built anew by
`New`; nobody tells it which devices are online.

`lost` records points with the reason: the database failed, the platform does not know the device,
mqtt was closed without a connection (`flushOnce` returns at once, so what is pending is gone), or
smardaten skipped a value as unchanged after a report of it had failed: the value is noted before it
is sent. `skewed` records the devices whose last notification was lost or overtaken.

### Sparkplug

`birthSequence` (one at a time), the threads that report devices and the goroutine of the slot; none
holds the lock while it sends. A birth declares an alias for each point (`WithAliases`), goes out, and is
then marked; an offline report unmarks and sends the death. `raced` and `unsent` record the devices that
two threads worked on at the same time, and those whose birth or death could not be sent: for all
others `HostViewIsRight` holds.

### Platform

Tables of connections and devices, and everybody who writes them. Each statement is a step. A sync
compares (`Compare`), saves (`Save`), lists the rows with its mark (`NextPhase`) and deletes those that
the platform has dropped (`PickOrphan`, `DeleteOrphan`); a handler of the API reads and then writes
(`PutConnection`, `Finish`). The content of a row is a model value. `undisturbed` becomes false when
somebody else writes one of the rows that a sync is about, or a statement of it fails; `written` records
which outputs have ever written a row. One output may have two syncs at once, when it is built and when
the platform pushes a file: nothing orders them.

### Downlink

A reload of the outputs builds one instance and closes the other; only one of them has the connection. A
command arrives at the owner of the connection, is queued or dropped (`Enqueue`), taken by the writer
(`Take`), carried out with one of the outcomes of `WritePoint`, and answered (`Reply`). Smardaten's calls
come one at a time from its client. `AnsweredAsItWas` has to admit that a command is answered with
success although the driver rejected its value: the callback of `main.go:143` drops the results in which
the drivers note that, although `docs/output-development.md:490` asks for a correct answer. `overlapped`
records that two instances had commands at the same time: then an old command may be carried out after
a newer one.

## 3. Runs

| Run | Result | Question |
|---|---|---|
| `hot_reload` | holds | Does the running set follow the store, with no leak, orphan or disturbance? |
| `hot_reload_gap` | violated | Is every running polled device scheduled? (`scheduler.go:308`) |
| `collector` | holds | Are the threads and the shutdown safe, do the notifications follow the status, and does the shutdown end? |
| `delivery` | holds | Does any point vanish, is any acknowledgment inexact or out of order, is an output used after its close? |
| `delivery_live` | holds | Do fan-outs and reloads end, and does the queue drain? |
| `delivery_reload` | violated | Does a hot reload keep the queue? (`docs/offline-backfill-design.md:23`) |
| `processing` | holds | Are windows and baselines exact across reloads, and is every window emitted? |
| `alert` | holds | Does every pending alert belong to an active rule, and does every alarm get raised? |
| `drivers` | holds | Do the pools keep the promise of a shared link, do answers and notifications reach their device, does a Close end? |
| `outputs` | holds | Does any point vanish in an output, and does the other side show what was last reported? |
| `sparkplug_loss` | violated | Is a point saved that is published while not connected? (`docs/sparkplugb.md:120`) |
| `platform` | holds | Does a sync leave what the platform ordered and spare the rest, is every value read its own, is every command carried out once and in order? |

### Bounds, and why they are enough

- `hot_reload`: two devices, two connections, two connection configurations (one polling, one
  pushing), two values of each field of a row, the representative rows `MCSavedRows`, at most
  three edits (`MaxEdits`). Two devices are needed for groups in which one changes and the other
  does not; two connections for moves; three edits for one before, one during and one after a
  reload. The two devices are interchangeable: symmetry.
- `collector`: a polled device and a pushing one, queues of one element, so that both are full
  at once; one worker and one pusher. `Reopened` bounds the devices that reloads report; it has the
  pushing device, so that a reload and the pusher report one device at once.
- `delivery`: one output, three points, a durable queue of two rows, a channel of one and a
  replay batch of two, so that channel, batch and queue all overflow and a batch breaks off in
  the middle; two API handlers and main for overlapping reloads; three slot objects, a slot that
  nothing refers to being used again. `Troubles` = 2 bounds the edits, calls of `Close`, outages,
  database errors and crashes together. `Settings` bounds what an edit may make of an output. Points
  and handlers are interchangeable: symmetry. The other outputs are independent but for the
  durable queue's ids and the manager's lists; the theorems cover any number.
- `delivery_live`: two points, a queue of one row, one handler and one trouble, no symmetry.

- `processing`: one point with five settings (`MCSettings`): a deadband alone, with other filters
  after it, with a window, invalid, and a window alone, so that an edit changes the aggregate, adds
  or removes it, or leaves it; numbers on both sides of the delta and of zero, and a text. Three
  points in a window (`MaxWindow`), for a minimum and a maximum that are neither first nor last; two
  edits or failed reads (`MaxEdits`), for one during a reload and one after.
- `alert`: one rule over one point or over two, with and without cooldown, compiling or not; two
  callers; two alerts (`MaxFires`), for one that is over and its successor; one edit and one fault.
  The rules are independent but for the lock; the theorems cover any number.
- `drivers`: two devices with unit IDs of their own, one worker and one one-shot user, so that two
  requests compete for the bus; three links, for one in use, one being closed, and the next one; two
  configurations; one edit (`MaxEdits`), which restarts the group, and one lost answer (`MaxLost`).
- `outputs`: two devices (interchangeable: symmetry), three points, a buffer of two, messages of one
  point, one outage, one failure of the database, one rebuild, two notifications: the buffer
  overflows, a batch has two parts of which the second fails, and a device comes and goes. For
  `thingsboard` and `smardaten`, which have all of these events, three of points, notifications,
  rebuilds and mappings together (`MaxEvents`). Sparkplug: one device with two points, so that one can
  be added after the birth, one reporting thread beside the birth sequence, two connections, two
  reports. Devices of Sparkplug are independent but for the counter of the aliases.
- `platform`: syncs: two connections and a device that can move between them, two outputs, two syncs,
  one request of the API, four files (`MCFiles`), two events; two syncs overlap only while at most one
  event has happened (`Overlap`). Reading: every set of up to three points with registers at 0, at 17
  (the gap of the merge and one more), at 124 and 125 (the limit of one request) and around 65535, with
  three widths, as coils and registers, with and without declared blocks. Commands: two instances, a
  queue of one, three commands.

A behaviour of `outputs` is one of a batch output or of Sparkplug, one of `platform` a sync, a read or
commands: they share no state, and are composed so that one run covers what belongs together.

Deadlock is not checked: every one of the systems may come to rest (all points published, all
edits made, the process stopped).

### Fairness

- `Collector`: workers, the firing of collected entries and `Run` step when they can: a driver's
  read returns at the latest at its timeout. `select` chooses between ready cases at random, so a
  case that is ready again and again is taken in the end: strong fairness of `TimerExits` and
  `BeginStop`. The timer is not assumed to tick nor the pipeline to consume.
- `Delivery`: publishers, slot goroutines, the replay and the reloading handlers step when they
  can: their waits are for each other or have a timeout (`mqttutil.PublishTimeout`), and the
  replay has a ticker. Brokers are not assumed to come back, and nobody is assumed to publish.
- `Processing`: the flusher has a ticker and a window is due in the end (`FlushSome`); what it hands
  on is taken, since its takers wait for the database at most. Points are not assumed to come.
- `Drivers`: the dispatcher of a subscription steps when it can: its callback hands a point on without
  waiting for ever, and `select` hears the cancellation in the end (strong fairness of
  `DispatchExits`); the `Close` that waits for it goes on. Nobody is assumed to open, ask or close.
- The other modules have safety properties only.

## 4. Findings

1. `hot_reload_gap`. Changing a parameter (such as the slave ID) of a polled device while
   another device or nothing else of its connection changes: the new job is scheduled under the
   device ID, then the old runtime is stopped, which removes the entry of that ID, the new one.
   The device runs and is never polled, until its parameters change or its runtime is dropped.
2. `delivery_reload`. Replayed rows are deleted when they are in a slot's channel; a reload of
   the outputs loses what is in that channel.
3. `sparkplug_loss`. A device that is born stays born when the connection goes: its points are then
   sent, which fails, and they are not saved.

Other behaviours that differ from what the documents or comments say, or that a user would not
expect, are exempted by name in the invariants and described with their modules above: the moved
device and the nil pointer (`HotReload`), notifications of two threads (`Collector`), the dropped
queue of a disabled output (`Delivery`), alerts that stay pending (`Alert`), the configuration that
survives a restart (`Drivers`), points at the end of the address space and blocks that are too long
(`ReadPlan`), pending points at the close of a disconnected mqtt output and reports that are skipped
after a failure (`Outputs`), and success that is answered for a rejected value (`Downlink`). One is modelled and has
no property of its own: an output runs on after its deletion when the reload of another request read the
configuration before and swaps later (`Build` and `Swap` of `Delivery`), until the next edit.

## 5. Proofs

The theorems hold for every value of the constants: any number of devices, points, slots, threads,
commands, syncs, and any capacities and bounds. Few of the invariants that the runs check are
inductive; each part below names what had to be added, and why.

`DeliveryProofs`. The durable queue first, then the path through it.

- `QueueInvariant` (of `Backfill`): rows well formed, at most `Max` for each output, ids unique.
  Uniqueness needs "every id is at most `lastId`", and the bound needs the cardinality of what an
  eviction leaves (`EvictionBounds`).
- `TypeCorrect`, `ImplementsQueue`: the delivery path implements `QueueSpec`; the refinement mapping is
  the identity on `rows` and `lastId`. `DurableQueueBounded` follows.
- `AckExact`: the replay's stale copies of rows stay exact. Needs `CopiesExact`: the id of a copy
  is at most `lastId`, so no row saved later can have it, which is what `AUTOINCREMENT` is for.
- `ReplayKeepsOrder`: `BatchOldest` says that the batch was the oldest rows of its output when it was
  read, so that no older row can be outside it; `HandedOldest` that what is handed over precedes what is
  still to be.
- `NothingIsForgotten`: `NothingVanishes` does not survive the acknowledgment, which deletes rows. A
  point is `Covered` without a set of rows if something else accounts for it; `AckedKept` says that the
  points of the rows handed over are covered without these rows, also while a reload stops their slot.
- `ClosedQuiet`: an output is never used in or after its `Close`; inductive as it stands.

`HotReloadProofs`. `ReloadInv` has a part for each question: `PlanInv` and `ServedInv` say what a reload
in progress has done, `LiveInv` and `TableInv` which connections are open and which devices are
scheduled meanwhile (those of groups not reconciled yet, and the new ones of the others), `StoreInv` how
what was read relates to the store unless an edit has signalled since, `PanicInv` and `CarriedInv` the
rest. `TableFollows`, `ConnectionsAreOwned`, `NoEditIsLost` and the action property
`UnchangedAreLeftAlone` follow when no reload is in progress.

`CollectorProofs`. `ShutdownIsSafe`: `StopInv` adds the order in which the shutdown goes: the timer has
ended before the queue is closed, a worker ends only when the closed queue is empty, and connections
are closed after that. `NotificationsFollowStatus`: `ReportInv` says that one thread at most reports a
device that is not raced, and what it knows at each of its three steps.

`ProcessingProofs`. `RulesFollow` as in `Alert`. `WindowsFollowRules` with the types of the windows.
`WindowsAreExact` and `BaselinesAreLastPassed` are about a window's whole history: the accumulators are
compared with the sum, number, minimum and maximum over a sequence, which are recursive functions. The
library's induction theorems cannot be used, but the library's well-foundedness of the natural numbers
can: the lemma `LeastNumber` gives the least number for which a claim fails, and the induction is
carried out by hand as a proof that there is none.

`AlertProofs`. `RulesFollow` holds between reloads only; `FollowInv` says that the copy lacks only the
rules left to do, and that what was read is the table or a signal is waiting. For `PendingOwned` and
`ActivePending` the invariant `OwnerInv` adds that IDs are given out once and stay with their rule, that
an alert still to be saved is in no table and with one caller, and two facts about the copy of a rule
during a reload: it keeps the alert unless the rule fired since, and it adds none unless it turned since.

`DriversProofs`. `PoolInv` is the reason for reference counting: everybody who holds anything holds the
pool's entry, and the count is the cardinality of the holders; `CallerInv` says who holds during a
restart, `LinkInv` that at most one link is open, also while a `Close` waits. From these follows
`PoolIsShared`, the refinement of `SharedPool`. `RequestsAreOwn` needs who has the bus, and that the
unit ID set on it is the requester's (`BusInv`); `RestartsAreFresh` what is already true in the middle of a restart
(`FreshInv`); `NotificationsReachTheirDevice` that handles are given once and that a callback runs for a
target that is still there (`NotifyInv`).

`OutputsProofs`. `PointsAreAccountedFor`: `SafeInv` says of each point where it is, and `HeldOnce`, that
no point is held twice, keeps the counter equal to what is pending through flushes and failed batches.
`StatusIsShown`: `StatusInv` relates what was announced, what the flush took with it, and what the
other side shows. For Sparkplug: `SparkTypeCorrect`, with aliases numbered from 1 without a repetition
(`Numbered`), and `HostIsRight`, from `ViewInv`: for a device that is not raced one thread works at
most, what the host shows follows its place in the code, and each alias is declared or in the
birth that is about to be sent.

`PlatformProofs`. `SyncsAreExact`: `Progress` says how far a sync has come: what is not as its file says
is on the list it still works on. The lemma `Stable` shows that the steps of the others keep this unless
they write the rows of the sync, which `undisturbed` records. `CleanupIsOwn`: `SyncOK` and `TablesInv`
carry from which output each marked row can have its mark, through stale reads of the API's handlers.
`CommandsExact` (of `Downlink`): a command is in one place only (a queue, the hand of a writer, or
decided), queues are in the order of sending, and while instances do not overlap everything that waits is
later than everything that was carried out.
`ReadsAreExact` (of `ReadPlan`) is about every finite list of points. That a sorted order exists, and
what the two folds yield, is proved from the least counterexample as in `ProcessingProofs`: `MergedOK`
and `JoinedOK` say after each point that the blocks so far hold the points so far, start at one of them,
and, for the driver's, end behind the last unless that touches the end of the address space. From there
`BlockServes` and `ReadPollBlocksServe` show that a request is allowed and its answer long enough
whenever it holds a usable point, in spite of the 16 bits, and `ReadInv` carries that through answers
and failures.

Which assumptions: the `ASSUME` of each module (shapes of the data, positive capacities, names that
differ), which TLC evaluates in the runs. One theorem has a hypothesis of its own:
`NotificationsReachTheirDevice` assumes that the devices of a listener have different unit IDs
(`UnitsDiffer`), by which the listener tells them apart; the instance that TLC checks satisfies it.
Restrictions of the code that are bounds of the model (`MaxEdits`, `MaxEvents`, ...) occur
in guards and are arbitrary in the proofs.

TLC checked the inductive invariants named in this section on the instances of the runs, with the same
bounds.

The leaves that combine arithmetic with sequences or long definitions name a prover and a longer time
(`SMTT(30)`, `ZenonT(30)`); arithmetic on words is done with a general modulus (`Remainder`) before
2^16 is put in, which the provers handle badly as a literal.

Every safety invariant and every action property of the passing runs is proved. Only model-checked: the
liveness properties `ShutdownCompletes`, `CallersReturn`, `QueueDrains`, `TimerNeverBlocks`,
`QuietWindowIsEmitted` and `ReleaseEnds`, since liveness under fairness and `ENABLED` are out of the
proof system's reach; and the three runs that show a violation.

## 6. Not modelled

- Sessions, passwords and API clients (`auth`): each request is decided by itself, under one lock.
- Logging, metrics and health probes, the configuration file, the web interface, request decoding,
  masking and encryption in the API, certificates of OPC UA, migrations, the benchmark under `hack/`:
  pure input and output, or run once before anything else.
- The numbers in a value (scale, byte order, rounding), payloads and topics of the outputs, and the
  SQL texts; the sequence numbers of Sparkplug messages.
- The alert channel of the output manager, the quality attributes of ThingsBoard, the timely mode, the
  reads by service call and the diagnosis of smardaten.
- Points saved for an output after its queue was dropped (`manager.go:127`); points published while
  the process shuts down, which `main` does not wait for (`main.go:238`); devices that are removed and
  stay online in the status registry (`scheduler.go:422`); a device read while its points are being
  saved (`sqlite.go:291`).

## 7. What is left

The composition of `Collector`, the engines and `Delivery` at shutdown, which needs a model of what
`main` leaves running. For the proofs: the liveness properties, once the proof system can reason about
fairness and `ENABLED`.
