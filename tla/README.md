# A TLA+ verification of multiple-protocol-controller

The controller (MPC) reads a device list from Redis, collects values from Modbus,
BACnet, OPC UA and MQTT devices, writes them to Redis and InfluxDB, publishes them as
Judge source events, and carries out control commands. This directory holds TLA+
modules of its concurrent core, the TLC runs that check them, and proofs that TLAPS
checks. `PROJECT.json` maps every definition to the Go lines it translates.

## The system

| Part | State | Operations | What is hard |
| --- | --- | --- | --- |
| Judge source publisher (`collector/judge_source_publisher.go`) | queue per device, channel of ready devices, four admission counters | `enqueue`, workers (`nextPublication`, PUBLISH, `completePublication`), `stop` | one token per device, a channel send under a mutex, limits released at two moments |
| Judge failure log (`judge_source_failure_log.go`) | counters and report state per reason, wake channel | `record`, `success`, `run`, `flushAt` | callers race with the log; recovery must be confirmed |
| TCP pool (`conn/manager.go`) | devices, gateways, entries, guards, generation | `ExclusiveConnection`, release, `ResetConnection`, `ApplyConfig`, `Close` | two lock levels, dials under a lock, refreshes in the middle of a transaction |
| Gateway health (`conn/gateway_health.go`) | failed-dial counters; shares the pool's entries and guards | `CheckGateway` | must not disturb business connections |
| Gateway status (`collector/gateway_status.go`) | Redis keys with a TTL | `runOnce`, `checkTarget` | results of an old configuration |
| Result writer (`collector/result_writer.go`) | snapshot per device | `recordValue`, `applyConfig`, `ensureSnapshot`, `remove` | reload beside recording |
| History writer (`history_writer.go`) | bounded queue, batch | `writeAsync`, `run`, `stop` | full queue, retries, drain at exit |
| Configuration (`service/getIoTCfg.go`, `subRedisChannel.go`, `store/redis.go`, `app/app.go`) | `IotCfgStore`, the subscription | `GetIoTCfg`, `SubscribeWithRetry` | two loads at once, lost messages |
| Collector manager (`collector/collector.go`) and workers (`modbus.go`, `bacnet.go`, `opcua.go`) | a worker per device | `update`, `collectOnce` | stop and restart at a reload |
| MQTT (`conn/mqtt_manager.go`, `collector/mqtt.go`) | clients, filters and owners, publishes in flight | `Watch`, `Publish`, `run`, `reconcile`, `Close` | reconnects, restart against publishes, hand-over |
| Control (`control/control.go`, `verification.go`, `collector/gateway_pause.go`) | pause counters | `ProcessCommand`, `dispatchModbus`, `verifyControlReadback` | partial batches, readback against deadlines |
| BACnet and OPC UA managers | sockets and invoke identifiers; client sessions | read and write a property | late answers |
| Batch planner, data types, encoders | none | pure functions | widths, gaps, byte order |

How they interact. A configuration load refreshes, in this order, the result writer, the
store, the TCP pool and the collector manager; nothing makes the four one step.
A collected value passes, under its device's snapshot lock, to the Judge publisher
(which never waits), to Redis, and if Redis took it to the history writer (which never
waits). Collectors, control commands and health checks meet in the TCP pool. The
failure log is called by the publisher's callers and workers after they release the
publisher's mutex.

What makes each part correct: the publisher keeps one publication per device in flight, in
order, within its limits and without starving a device; the failure log counts every failure once
and recovers only what has recovered; the pool gives an endpoint to one owner at a time and
holds no connection of an old configuration; the history writer tries each queued point once,
in order, even at exit; status keys speak of the present configuration; a reload ends
with the last published configuration in force; an MQTT filter has the broker state its
owners want; a control result says what was read back.

## The modules

| Module | Models | Checked by |
| --- | --- | --- |
| `JudgeDelivery` | the abstract promise: a FIFO stream per device, one publication at a time | refinement in `judge_publisher` |
| `JudgePublisher` | the publisher | `judge_publisher` |
| `JudgePublisherProofs` | its theorems | TLAPS |
| `FailureLog` | the failure log | `failure_log` |
| `FailureLogProofs` | its theorems | TLAPS |
| `GatewayPool` | the TCP pool with its three kinds of users | `gateway_pool`, `late_reset`, `reset_clears_unclosed` |
| `GatewayPoolProofs` | its theorems | TLAPS |
| `HistoryWriter` | the history writer | `history_writer` |
| `GatewayStatus` | status rounds and the verdicts of health checks, over a pool reduced to one connection and a guard per endpoint | `gateway_status` |
| `MqttManager` | one shared MQTT client, the workers and commands that use it, a reload, the broker | `mqtt_manager` |
| `MqttManagerProofs` | its theorems | TLAPS |
| `ConfigReload` | loads at start and on notification, snapshots, recording workers | `config_reload` |
| `CollectorProofs` | the theorems of `HistoryWriter`, `GatewayStatus`, `ConfigReload` and `ModbusPoints` | TLAPS |
| `ModbusControl` | control commands, the pause and a polling worker on one Modbus gateway | `modbus_control` |
| `ModbusControlProofs` | its theorems | TLAPS |
| `BacnetExchange` | requests of BACnet workers and commands on one UDP socket | `bacnet_exchange` |
| `BacnetExchangeProofs` | its theorem | TLAPS |
| `ModbusPoints` | batch planner, decoding, command encoding and readback of Modbus | `modbus_points` |
| `Sums` | lemmas on sums, folds and concatenations | TLAPS |

How the modules fit together. Each of `GatewayStatus` and `ModbusControl` sees of the TCP
pool only what it depends on, a guard and a connection per endpoint that others may replace or close;
`GatewayPool` has the pool itself. `ModbusControl` reads points one by one and leaves to `ModbusPoints`
what the bytes of a batch mean. `ConfigReload` has of the pool only the version it was given. The
modules of the collector prefix their specifications (`HistorySpec`, `StatusSpec`, `ReloadSpec`, `PointsSpec`),
as one proof module extends several of them.

The `MC*` modules only give constants their values. A definition named after a mutant
in a comment is a deliberate bug: used in place of the definition that follows it, it must break
the property listed for it in `PROJECT.json`. No behaviour of the model uses it.

### JudgePublisher

`deviceQueues` is the Go map, a missing entry being `NoQueue`; `readyDevices` is the
channel. Holding `queueMu` shows only where the code holds it over something that can
block, the two channel sends: `Enqueue`/`EnqueueSend` and
`CompletePublication`/`RequeueSend`. All other critical sections are one action. PUBLISH
is the time a worker spends in `publish`; its outcome changes only what the failure log is told.
`TokenDiscipline`, `SendNeverBlocks` and `Accounting` are invariants;
`ImplementsDelivery` says that the publisher implements `JudgeDelivery` under the mapping that joins
a device's publication in flight with its pending ones; `EventuallyPublished` is the
promise of the README that a busy device does not keep others out.

Fairness: the Go scheduler runs runnable goroutines (WF); `sync.Mutex` hands over to a
waiter after 1 ms, so a worker that needs it again and again gets it (SF); PUBLISH has
a timeout. Nobody is obliged to enqueue or cancel.

### FailureLog

A caller decides its outcome in one step (`Operate`) and reports it in another, as the
publisher does after it unlocks. `Flush` is `flushAt` up to its unlock and `Write` one call of
the sink. `due` stands for the thirty seconds since the last line. `written` folds the log
into what a reader can know: the sum of the counts and whether an outage is open.
Fairness: the ticker ticks, the sink returns, callers report.

### GatewayPool

Actions are the critical sections of `m.mu`, `guardMu` and `entry.mu`. A lock is visible
where it is kept over something slow: `sweep` is `ApplyConfig` or `Close` holding `m.mu` while it
visits the entries, a user in `dialling` holds `entry.mu`, and a user in `clear` holds `m.mu`
between the two halves of `ResetConnection`. Entries and connections have identity,
so an entry that a refresh has removed from the map can still be used by whoever holds
it. `link` says of a connection whether it is closed and whether its dial began under the present
configuration. An unreachable connection may be allocated again, as Go's finalizer closes its
socket. The verdict of a socket inspection, and every dial and transaction, may go
either way.

`SoleOwner` covers the guard on every error path; `PoolMatchesConfig` the rechecks under the
write lock, the generation test and the closing of everything at a refresh;
`OneConnection` counts connections the pool, an owner or a check can reach, not those that
`ResetConnection` has forgotten; `HealthSparesBusiness` is the promise that a check closes nothing a transaction uses;
`EveryCallReturns` the lock order. Fairness: dials and transactions have deadlines, locks are fair
to waiters. Health checks get no fairness: transactions and refreshes end without it.

Two runs show disagreements between comments and code (`findings`):

- `late_reset`: a control command releases the endpoint and then resets it
  (`control.go:316-318`). In between a collector can acquire the cached connection, which the
  reset then closes under it.
- `reset_clears_unclosed`: `ResetConnection` closes under `entry.mu` and clears without it
  (`manager.go:379-380`). A dial that ends in between is forgotten by the pool while it is in use.
  The first shows with an ordinary schedule; the second needs a goroutine to be
  suspended between two statements for the length of a dial.

### HistoryWriter

`WriteAsync` and `TurnAway` are the cases of `writeAsync`'s select, which may enqueue after the
context is done. A failed request may have been applied. `accepted`, `settled` and
`late` are history variables. Points carry only whether they can be encoded: one that
cannot fails its whole batch. Fairness: the goroutine runs, requests time out, and select
is random, so that `ctx.Done` is taken at last (SF on `SeeDone`).

### GatewayStatus

`round` is `runOnce`: the targets it read, those not yet started, and `Room`, the semaphore. `check`
has one record per endpoint, from `gatewayTarget` (`PickTarget`) over guard, socket inspection
and dial to the writes. The three moments that a refresh may separate are separate actions:
reading the targets, probing, and each write with the generation test before it. `ApplyConfig` is `Refresh` (under `m.mu`)
and `Purge` (under `healthMu`). A transaction in `Shared` endpoints holds the guard, dials with
or without keepalive and resets; `Weather` breaks and heals the network, `Expire` is the TTL.
A transaction may reset a connection
whether or not the network is at fault. A socket inspection of a broken network may still find the connection
healthy, find it dead, or say nothing.

`NoForeignStatus` is a step property: the status a check writes for an ID comes from an endpoint
that was that ID's own in the configuration of the probe. It does not say that a write cannot land
just after a refresh: the generation is read before the write, and the code accepts that;
so it would not notice if the tests of the generation before a write (`gateway_status.go:142`, `:163`) were gone.
`OnlineIsRefreshed` says that a gateway which stays reachable is online again and again. It assumes
that Redis does not refuse every write (SF on `Set`) and that not every dial of a check fails to set its
keepalive (SF on `DialSucceeds`), and excepts a gateway whose pooled connection has no
keepalive, which is no evidence by the code's own comment, and one whose transactions go on resetting their
connection: a check that always comes between a reset and the release finds the guard taken and no connection to look at.

### MqttManager

`entry` is the `MqttClient` record with `owners`, `known`, `applied` and its `generation`; `run` is its
goroutine, `op` the one subscription change in flight, `client` and `old` the Paho client and the one
a restart has just replaced, `wire` and `session` the packets and filters of the broker. `OnConnect`
callbacks run at any time after the connection (`greetings`), those of the replaced client too
(`OldOnConnect`). A `plan` chooses two configurations, how many publishes, troubles (lost connections,
refused or lost acknowledgements) and whether the manager may be closed. `leaked` is a history variable:
topics whose final UNSUBSCRIBE was not confirmed. The code logs that where it sent one; where the last owner
leaves offline it sends nothing and logs nothing (`mqtt_manager.go:325-327`), a leftover that `src/README.md:123` documents.

`AppliedIsSubscribed`: what the manager believes to be subscribed is, at that QoS, or the entry is
on its way to find out. `NoForgottenFilter`: every filter of a persistent session is known to the entry or
unconfirmed in this sense. `PublishPinsClient`: a publish waits on a greeted client that nobody replaces or disconnects.
`OwnersServed`: in the end every device of the configuration in force owns its topic and the broker
has the QoS it wants. Fairness is weak: goroutines, Paho's calls and its reconnects go on, and workers
are restarted by a reload.

### ConfigReload

Two loaders, the start's and the notifications', go through `GetIoTCfg` step by step: read the document,
reset the snapshots in three steps (`applyConfig` copies the map, rebuilds, swaps), store, refresh or
create the pool, and `update`, which keeps `m.mu` from its first stop to its last start. Workers record
all the while: `EnsureSnapshot` and `RecordValue` are two steps, as the code looks the snapshot up before it locks it.
The subscription may be lost with the messages in it. `complete` and `alone` are history variables: a load
that overlapped no other has ended, and a load that began while no other was under way.

`LoadIsComplete` and `KeysShowSnapshots` speak of `complete` states only: two overlapping loads may leave
parts at different versions until the next load, as the hazards list says. `LoadsPropagate` is liveness: a load
that begins alone brings every part to its version or a later one. Fairness: loads and workers run
on; a worker whose ticker and cancelled context are both ready takes one at random, hence SF on `Leave`.

`KeysShowSnapshots` holds where IDs move only away from devices that go (`IdsMoveAway`, which the instance
asserts of its histories). Nothing in the code enforces that. With two devices that exchange their IDs and keep
their protocol, as in `<<[s1 |-> A, s2 |-> B], [s1 |-> A', s2 |-> B']>>` with the IDs of `A` and `B` swapped in
`A'` and `B'`, TLC finds it violated: `update` restarts the workers one after the other (`collector.go:107-151`), so
that the new worker of `s1` records under its new ID while the old worker of `s2` still writes its own snapshot to the
same key. The load ends with the key of one device showing the snapshot of the other, until the next value is recorded.
The same happens, for as long as both run, to two devices of one ID.

### ModbusControl

`job` is the command in progress with the key it is at, `link` the connection as a pair of
queues: requests not served and answers not read. Every message names its sender, which the code
cannot see, so that the properties can say whose it was; a reader takes whatever comes first.
The device serves late or never, its values drift, the connection breaks. An item of an MQTT device goes through its
keys as well, with the wait for the token of its publish as a place of its own: `Publish` waits without a deadline
(`mqtt_manager.go:500-501`), so `PublishReturns` is nobody's duty and has no fairness. An OPC UA item, whose calls have
deadlines, is one step with the results it may give. `pause` counts commands and names
the open resume channel; `waits` is the channel a worker picked.

`HonestReport`: a published report lists every attribute once, in the order they were dispatched (the envelope then groups them
by device, `control.go:472-482`, so that A, B, A is published as A, A, B), is a success only if all are, and a
Modbus attribute is verified only by answers to this very write and its readbacks. `CleanHandover`: whoever
takes the connection finds no leftovers, except between a failed command's release and its reset, which is the
finding of `late_reset`. `EveryoneMovesOn`: a command ends unless it waits for a publish for ever, paused workers resume, stopped ones leave. The
goroutine that waits is also the one that would handle every later command and configuration notification
(`subRedisChannel.go:20-30`). Fairness: goroutines and timers run; the gateway, the device and the broker owe nothing. A batch that stops in the
middle (no TCP manager) publishes nothing; it is an outcome of its own, `aborted`.

### BacnetExchange

A call is `EnsureConn`, the holder's mutex (`Begin`), and reading until a datagram of the expected kind
with the right invoke ID, any other kind, or the deadline. Answers name their object and the age of their request, neither of which the
code compares. Time is counted in invoke IDs: a datagram outlives at most `MaxAge` later requests. The
assumption `MaxAge < MaxId` says that 255 requests to an endpoint take longer than any datagram lives;
without it an old answer to the same ID is taken for the new one, by the protocol's design. The run has
`MaxId = 2`, `MaxAge = 1`; `OwnAnswers` was also checked with 3 and 2 (4 million states). Fairness: a mutex is handed to a starved
waiter (SF on `Begin`), a deadline passes. Resolving the address of an endpoint, which the code does under the
manager's mutex and without a deadline, is taken to end: for an IP address it is no call to anyone, a host name
(`bacnet_manager.go:178` would take one) is looked up within the resolver's own limits.

### ModbusPoints

Pure functions with a small state machine around them: plan a device's points into batches, collect each
batch from a device that answers, then write one command. A register is two opaque bytes named after their address and a value is the
bytes it is made of, so a value decoded from the wrong place or in the wrong order differs from the right one.
Quantities have 16 bits and addresses their own width.

`BatchingIsInvisible` compares what is recorded with `Own`, the point's own address decoded as its type. It states what
the code does not do: a point the device refuses takes its whole batch with it; coils 0 and 65535 may share a batch
whose quantity comes round to zero, which is never requested; and a point's `bit` is not looked at in a batch, though a
readback by itself does look.

`PointsFit` says of which devices it speaks; the instance asserts it of its own. The configuration checks neither part
(`runtime.go:355-383`), and outside of it the code does other things than reading points. A register point with a
quantity of 65536 has one of zero when cut to 16 bits, and nothing is ever recorded for it although its batch is served. A
discrete point may end beyond 65535: coils 0, 3 and 65536 share a batch whose quantity comes round to one, and coil 3 is
recorded as the padding bit of the one byte that answers. For register points beyond the address space there is no such
condition: the device refuses them, or they are not recorded.

`WritesReadBack` puts the encoder and the decoder, which are written in two packages, against each other for
every type, byte order and function code: the point that mirrors a command, and that the device serves, reads back the bytes that were
written. Whether that verifies the command is another matter, which it states as well: exactly where `Comparable` says that
the comparison can succeed. A list of coils is no point's value. And where both types are inherited from the property and have
a newer name (`int16`, `uint64`), `reflect.DeepEqual` compares the `json.Number` of the command (`control.go:312`) with a
number (`verification.go:102-103`, `:196-197`): the device obeys, and the command is reported as failed, as
`control_test.go:192-194` asserts of the comparison. It is a statement about bytes; tolerance, rounding and other spellings of
a value are not modelled, and the target of a coil command is a `bool` (`PointAssumption`).

## Runs and bounds

| Run | Bounds | Why they are enough |
| --- | --- | --- |
| `judge_publisher` | 4 devices, 2 workers, 3 tokens, payloads of two sizes, 2 events and 3 bytes per device | more devices than tokens and than workers, each of the four limits reached |
| `failure_log` | 2 callers, 2 stages, a reason each, 2 failures per reason | failure, recovery and failure again in every order with a flush |
| `gateway_pool` | a collector and a control command, 2 endpoints, one refresh from either configuration to either, and `Close` | the refresh removes or keeps the endpoint at every step of a transaction and a check |
| `late_reset`, `reset_clears_unclosed` | the same | |
| `history_writer` | 4 points, queue 2, batch 2, one retry | full queue, full and partial batches, retry and drain |
| `gateway_status` | 2 endpoints, 2 IDs, one refresh that moves an ID, one place in the semaphore, threshold 2 | each write before and after the refresh, a check that waits for the other's place, failures below and at the threshold |
| `mqtt_manager` | 2 workers with QoS 1 and 2, 2 topics, one reload of four kinds, one trouble, at most one publish, `Close` in one plan | options changed under a publish, topics swapped, an owner replaced, the last owner gone, each with a fault at every step |
| `config_reload` | 2 serials, 2 IDs, 2 versions, 5 snapshot records | an ID that moves, a device that goes, comes or changes its protocol; both loaders at once |
| `modbus_control` | 1 worker reading twice, 2 commands of up to 3 items | two writes of one command to the polled point, two commands in a row on one connection, each kind of item, a publish that never returns |
| `bacnet_exchange` | 1 worker with two points (one unreadable), commands with and without readback | both users on the socket, IDs that come round, every lost and late datagram |
| `modbus_points` | up to 3 of 24 points, at 0, at the limits 24 and 32, and at 65535 and beyond; 50 commands: 12 types and orders, explicit and inherited, and coils | each comparison of the planner on both sides, each width and byte order, types that can be compared and that cannot |

`gateway_status`, `modbus_control` and `bacnet_exchange` never stop. In `mqtt_manager` a
closed manager, in `config_reload` a program that has lost its subscription, and in `modbus_points` a device that was
written have nothing left to do, so these runs do not check deadlock.

`MaxGeneration` bounds refreshes and `MaxFailures` failures; they are bounds of the models,
not of the code. The safety properties of `gateway_pool` also hold with
`MaxGeneration = 3` (two refreshes, hence an endpoint removed and brought back; about a million states).
The instances use no symmetry, as they check liveness.

## Proofs

The `*Proofs` modules state theorems about the models for every value of their
constants: any number of devices, workers, points and endpoints, any limits and any
payloads that meet the module's assumption. The proofs are inductive: an
invariant (`IInv` in most modules) holds in `Init`, every action keeps it, and it implies the property. Each
invariant was first checked by TLC on the module's instance. What it adds to the property is the part worth reading;
the header of each module and the comments at its parts tell why they hold.

**`JudgePublisherProofs`**, from `PublisherAssumption` (what `newJudgeSourcePublisher` checks;
devices and workers are finite sets).
`TypeCorrect`, `TokenDisciplineHolds` and `SendNeverBlocksHolds` rest on `TypeOK`, `TokenDiscipline` and
`CountInv`. `TokenDiscipline` alone says which tokens exist; that a send never blocks also needs that there are no
more tokens than queued publications, so `CountInv` states that `queuedPublications` is the number of
occupied places of all queues. Each token in the channel maps to the head of
its device's queue; the mapping is injective since tokens are not doubled, and it leaves out the place of
the token being sent. `AccountingHolds` and `ImplementsDeliveryHolds` follow each device's stream, the publication in
flight and then the queue: admission appends to it, a completion takes its head, everything else leaves it alone.
The counters are sums of the streams' lengths and weights; the refinement is proved action by
action, each a step of `JudgeDelivery` or a stutter.

**`FailureLogProofs`**, from `FailureLogAssumption` (a finite number of reasons). `TypeCorrect` needs
`PendingInv`, that what callers have decided and not yet reported stays within the bound `MaxFailures` of the model.
`CountsAddUpHolds` needs `BalancedInv`: every line's total is the sum of the counts up to it, so that taking
a line off the outbox keeps the sums. `LogAlternatesHolds` needs `OrderedInv`, the same for the outage being open, and `ReportedInv`;
`RecoveryConfirmedHolds` needs `ConfirmedInv`, that a recovery still to be written has its success behind it.

**`GatewayPoolProofs`**, from `PoolAssumption`. `SoleOwnerHolds`, `PoolMatchesConfigHolds`, `OneConnectionHolds` and the
step property `HealthSparesBusinessHolds` share one invariant, as the two lock levels of the code protect more than they say:
who owns a guard alone holds the entry (`GuardInv`, `EntryInv`); a connection is one user's, in one entry, or still
a check's own (`ConnInv`, `CheckInv`); what is pooled or about to be is of the present configuration unless the sweep has yet to come by
(`SweepInv`, `WantedInv`, `OpenInv`). That `ResetConnection` may forget a connection (`reset_clears_unclosed`) breaks none of it,
as every part speaks of connections somebody can reach. The attempt showed that the statement
is false without a configuration to begin with, hence `MaxGeneration >= 1` in the assumption.

**`CollectorProofs`** has four parts. *The history writer*, from `HistoryAssumption`. `InOrderOnceHolds` is inductive given the
types: each step moves a piece of `settled \o batch \o queue` across a seam. `HistoryTypeCorrect` and `DrainedAtExitHolds`
need `EndingInv`, what holds on the way to the end of the goroutine: past the select the context is done, and once the
drain has seen the queue empty only late points are in it.

*Gateway status*, from `StatusAssumption`. `NoForeignStatusHolds` rests on `StatusInv`: from the moment a check has picked its
target until it ends, its IDs are those of one configuration, the one whose generation it carries, and what it has still to write is
among them. The round's own list may be older; that the check compares the bindings again before it writes is what the proof uses
at `Accept`.

*Loading the configuration*, from `ReloadAssumption` (finitely many serial numbers and snapshot records).
`LoadIsCompleteHolds` needs `ReloadInv`, of four parts. `Phases` holds of every load, alone or not: one update at a time; which workers
an update has removed and started so far (`RemovalAt`, `StartAt`); a worker is cancelled only by an update that waits
for it, so that none is lost between two loads. `OwnSerial`: no snapshot record is referred to for two serial numbers, by the map, by
a load's copy or by a worker in the middle of a value, so that one device's reset or record never touches another's. `AloneInv` follows the
load that no other overlaps from place to place, under the steps of old workers that still record: from the swap on the snapshots
are those of its version except where the worker of a device that went has yet to be removed (`SnapshotsAt`), from the start phase on
the workers started are those of its version (`WorkersAt`). `CompleteInv` is where this leads, and
that it stays so until the next load begins. A point that took some care: a worker that is cancelled may be in the middle of a
value and create the snapshot of a device that went once more; the removal that waits for it takes that one, too.
`KeysShowSnapshotsHolds` adds `KeysInv`: the key of each worker the load has started shows its snapshot once the worker has
recorded. It has the hypothesis `IdsMoveAway`, without which the property is false as described above; the lemma
`WorkersKeys` shows where it is needed, when an older worker records.

*The points of a Modbus device*, from `PointAssumption`. `BatchingIsInvisibleHolds` has the hypothesis `PointsFit` (above) and
no other: any devices, any number of points, several of one address in any order. The planner's part of `PointsInv` says
that the batch being built, and each batch built, covers its points (`Covers`): they are enabled points of one function
code, none begins before the batch or ends after it, one ends where it ends, and it is within the limit unless one point alone has its
span. Numbers are those before they are cut to 16 bits, so that the lemma `SpanAsked` can say when the cut changes
nothing: when the batch ends within the address space and its quantity is not zero. The collector's part says of the
batches collected so far that each of their points has its own value, or no value and a batch that excuses it. `FlattenPairs`
follows the bytes of an answer register by register, which makes a point's piece of it (`CutBytes`) its own
registers. `WritesReadBackHolds` has no hypothesis beyond `PointAssumption`: the byte orders of two, four and eight bytes are their own
inverses (`EndianTwice`), the registers of a command are the pieces of its bytes (`RegistersWritten`), and reading
them puts the pieces together again (`WrittenBytes`). That a command which reads back is verified exactly where it is comparable
is the definition of `Verifies`; for lists of coils, whose comparison always fails, nothing is claimed of the bytes.

**`BacnetExchangeProofs`**, from `BacnetAssumption`, whose part `MaxAge < MaxId` is the protocol's limit described above. For
`OwnAnswersHold`: ID and age of a datagram add up to the ID drawn last, or to one round more (`IdInv`), so a datagram with
that ID is of age zero; the mutex makes the caller that drew it the only one that receives (`MutexInv`); and every datagram of age
zero repeats its request (`FreshInv`).

**`MqttManagerProofs`**, from `MqttAssumption`. `AppliedIsSubscribedHolds` and `NoForgottenFilterHolds` need to know
what the packets on the wire still do to the broker: they are read in the order they were written and the one a token waits for
is the last of them (`WireInv`), so once it is answered nothing is left to undo it (`TokenInv`). A reconnect nobody has
heard of shows as a callback still to run, one that was heard of as another generation with nothing believed (`FreshInv`, `BeliefInv`).
`PublishPinsClientHolds` needs `PinInv`. `RunInv`, `GoneInv` and `OpInv` say where the entry's goroutine may be in each state of the entry.

**`ModbusControlProofs`**, from `ControlAssumption`: commands are sequences of any length over devices and keys, and a worker reads at least
one point (`collector.go:170` starts none for a device without parameters). `CleanHandoverHolds` needs to know how much is under way: the owner has at most one message on the connection, and none when it
hands it over in good order (`LoadInv`), whoever that is (`OwnerInv`). So what a command receives answers its own request,
which is the evidence of a verified result (`Evident`, `AllGrounded`) and one part of `HonestReportHolds`. Another is that
the results so far are labelled like the items and keys that are done (`Labelled`): `Expected` concatenates over the
items and is followed one item at a time (`FlattenSteps`). The last is that one result that is not verified is never made up for
(`OverallVerified`), from the outcomes that the fold of `Overall` passes through. For TLC the concatenation in `Labelled` was written out.

**`Sums`** has what these proofs need of the folds of the community modules: a sum over a finite set as the cardinality of a
set of dots, and `FoldLeft` and `FlattenSeq` followed step by step. The induction is stated with sets of numbers (`UpTo`).

Only model-checked: every liveness property and whatever else rests on fairness or ENABLED, which TLAPS does not
reach: of the passing runs `EventuallyPublished`, `FailureReported`, `RecoveryReported`, `EveryCallReturns`, `EventuallySettled`,
`StopEnds`, `OwnersServed`, `OnlineIsRefreshed`, `EveryoneMovesOn`, `LoadsPropagate` and `CallsReturn`. Each of their other properties,
the invariants, the action properties and the refinement, is stated by a theorem.

## Plan

The components of the first plan are modelled and their safety properties proved. What is left:
`recordValue` in detail (Judge event, snapshot, history point in one order) as a composition of `ConfigReload`,
`JudgePublisher` and `HistoryWriter`; and a detailed model of the OPC UA session's reconnects, which is a third-party client's.

## Not modelled

Wording and layout of payloads and logs, line protocol, event validation, configuration
parsing and the heartbeat keep no shared state. The OPC UA manager and worker are a mutex and a polling loop around a
third-party client. The Runtime configuration is one pass over one document: what it yields enters the models
as their configurations. Coercion, rounding and the tolerance of comparisons (`protocol/datatypes`,
`pkg/utils`, `controlValuesEqual`) are sequential; models compare values exactly, and of `controlValuesEqual` only
which types it can compare is modelled. Clocks are not modelled: a
timeout is an action that may happen at any time, so that a round of status checks lasting
longer than its TTL is not seen. The loss of a Redis subscription is modelled, its
retry without a pause (`store/redis.go:141`) is not, nor is the shutdown of the program as a whole. Third-party clients (Redis, MQTT, OPC UA, HTTP) appear as calls that succeed,
fail or time out.
