---------------------------- MODULE ConfigReload -----------------------------
(***************************************************************************)
(* Loading the device configuration, at start and on every notification,   *)
(* while the workers of the earlier configuration still record values: the *)
(* realtime snapshots, the stored configuration, the connection pool and   *)
(* the workers are brought to the new version one after the other.         *)
(*                                                                         *)
(* Source: src/internal/service/getIoTCfg.go and subRedisChannel.go,       *)
(* store/redis.go (SubscribeWithRetry), app/app.go, collector/             *)
(* result_writer.go and collector.go (update); the pool is its version     *)
(* only, GatewayPool has the rest.  A step holds no lock across its end,   *)
(* except that recordValue keeps the snapshot's mutex while it writes to   *)
(* Redis, which makes it one step, and update keeps m.mu from its first    *)
(* stop to its last start.  applyConfig resets the snapshots one by one; a *)
(* reset touches one device only, so the resets are taken together.  A     *)
(* serial number belongs to one device of a configuration.  Values are     *)
(* left out: a snapshot is the set of the points it shows.                 *)
(***************************************************************************)
EXTENDS Integers, SequencesExt, FiniteSetsExt

CONSTANTS
  Serials, DeviceIds, DevicePoints, Protocols,
  Histories,     \* the versions that may be published in turn: of each serial its device
  Snapshots,     \* deviceSnapshot records
  NoSnapshot, NoDevice

Device == [id : DeviceIds, protocol : Protocols, points : SUBSET DevicePoints \ {{}}]

ASSUME ReloadAssumption ==
  /\ IsFiniteSet(Serials) /\ IsFiniteSet(Snapshots)
  /\ Histories \subseteq Seq([Serials -> Device \cup {NoDevice}]) \ {<<>>}
  /\ NoSnapshot \notin Snapshots

VARIABLES
  config,      \* the history of this behaviour
  published,   \* the version under the configuration key
  subscription,\* the Redis subscription: whether it is up, and the messages in its channel
  loader,      \* the two goroutines that run GetIoTCfg: at start, and for notifications
  snapshots,   \* w.snapshots: of each serial its snapshot
  content,     \* each record: meta.DeviceID, the version of pointNames, the points with a value
  iotCfg,      \* IotCfgStore
  poolVersion, \* version of the default TCP manager, 0 while there is none
  worker,      \* of each serial and protocol the collector's worker
  keys,        \* device:data:<id>
  complete     \* the last load has ended, and it overlapped no other

reloadVars == <<config, published, subscription, loader, snapshots, content, iotCfg, poolVersion, worker, keys, complete>>

Loaders == {"boot", "sub"}

DevicesOf(v) == {s \in Serials : config[v][s] # NoDevice}

NoSnapshots == [s \in Serials |-> NoSnapshot]

NoWorker == [at |-> "none", version |-> 0, ref |-> NoSnapshot, cancelled |-> FALSE, shown |-> FALSE]

NoLoad == [at |-> "idle", version |-> 0, copy |-> NoSnapshots, todo |-> {}, key |-> <<>>, alone |-> FALSE]

\* The start's goroutine loads once.
Over(l) == [NoLoad EXCEPT !.at = IF l = "boot" THEN "done" ELSE "idle"]

Unwritten == [id |-> "none", names |-> 0, points |-> {}]

Versions == 1 .. Max({Len(h) : h \in Histories})

ReloadInit ==
  /\ config \in Histories
  /\ published = 1
  /\ subscription = [up |-> FALSE, inbox |-> 0]
  /\ loader = [boot |-> [NoLoad EXCEPT !.at = "read"], sub |-> NoLoad]
  /\ snapshots = NoSnapshots
  /\ content = [x \in Snapshots |-> Unwritten]
  /\ iotCfg = 0
  /\ poolVersion = 0
  /\ worker = [k \in Serials \X Protocols |-> NoWorker]
  /\ keys = [i \in DeviceIds |-> Unwritten]
  /\ complete = FALSE

-----------------------------------------------------------------------------
(* The publisher, and the subscription's goroutine. *)

\* Bound of the model: the subscription matters until the last version is out.
MoreToCome == published < Len(config)

\* Another program stores a configuration and notifies; who is not subscribed misses it.
Publish ==
  /\ MoreToCome
  /\ published' = published + 1
  /\ subscription' = [subscription EXCEPT !.inbox = IF subscription.up THEN @ + 1 ELSE @]
  /\ UNCHANGED <<config, loader, snapshots, content, iotCfg, poolVersion, worker, keys, complete>>

\* The loop subscribes; after a lost subscription once it has taken what was left in the
\* channel and has slept.  A Receive that fails leads straight back here.
Subscribe ==
  /\ MoreToCome
  /\ ~ subscription.up
  /\ subscription.inbox = 0
  /\ loader["sub"].at = "idle"
  /\ subscription' = [subscription EXCEPT !.up = TRUE]
  /\ UNCHANGED <<config, published, loader, snapshots, content, iotCfg, poolVersion, worker, keys, complete>>

SubscriptionLost ==
  /\ MoreToCome
  /\ subscription.up
  /\ subscription' = [subscription EXCEPT !.up = FALSE]
  /\ UNCHANGED <<config, published, loader, snapshots, content, iotCfg, poolVersion, worker, keys, complete>>

Step(l, place) == loader' = [loader EXCEPT ![l].at = place]

\* A handler runs to its end before the next message is taken.
Notified ==
  /\ loader["sub"].at = "idle"
  /\ subscription.inbox > 0
  /\ subscription' = [subscription EXCEPT !.inbox = @ - 1]
  /\ Step("sub", "read")
  /\ UNCHANGED <<config, published, snapshots, content, iotCfg, poolVersion, worker, keys, complete>>

-----------------------------------------------------------------------------
(* GetIoTCfg. *)

\* Redis or the builder fails: the notification is gone and nothing tries again.
LoadFails(l) ==
  /\ loader[l].at = "read"
  /\ loader' = [loader EXCEPT ![l] = Over(l)]
  /\ UNCHANGED <<config, published, subscription, snapshots, content, iotCfg, poolVersion, worker, keys, complete>>

Loading(l) == loader[l].at \notin {"idle", "done", "read"}

Read(l) ==
  /\ loader[l].at = "read"
  /\ loader' = [m \in Loaders |->
       IF m = l THEN [NoLoad EXCEPT !.at = "copy", !.version = published,
                                  !.alone = ~ \E o \in Loaders : Loading(o)]
       ELSE [loader[m] EXCEPT !.alone = FALSE]]
  /\ complete' = FALSE
  /\ UNCHANGED <<config, published, subscription, snapshots, content, iotCfg, poolVersion, worker, keys>>

\* applyConfig: the map is copied under the read lock.
CopySnapshots(l) ==
  /\ loader[l].at = "copy"
  /\ loader' = [loader EXCEPT ![l].at = "rebuild", ![l].copy = snapshots]
  /\ UNCHANGED <<config, published, subscription, snapshots, content, iotCfg, poolVersion, worker, keys, complete>>

Referenced == Range(snapshots)
              \cup (UNION {Range(loader[l].copy) : l \in Loaders})
              \cup {worker[k].ref : k \in DOMAIN worker}

FreshSnapshots == Snapshots \ Referenced

\* A record nobody refers to any more is garbage.
Collected(c) == [x \in Snapshots |-> IF x \in Referenced' THEN c[x] ELSE Unwritten]

\* A snapshot is kept, and emptied, where the device kept its ID.
Kept(l, s) == /\ loader[l].copy[s] # NoSnapshot
              /\ content[loader[l].copy[s]].id = config[loader[l].version][s].id

\* The new map: the snapshots that are kept, and new ones; loader.copy now holds it.
Rebuild(l) ==
  LET devices == DevicesOf(loader[l].version)
      kept == {s \in devices : Kept(l, s)}
      fresh == SetToSeq(FreshSnapshots)
      new == SetToSeq(devices \ kept)
      built == [s \in Serials |->
                  IF s \in kept THEN loader[l].copy[s]
                  ELSE IF s \in devices THEN fresh[CHOOSE i \in DOMAIN new : new[i] = s]
                  ELSE NoSnapshot]
  IN
  /\ loader[l].at = "rebuild"
  /\ Len(new) <= Len(fresh)
  /\ loader' = [loader EXCEPT ![l].at = "swap", ![l].copy = built]
  /\ UNCHANGED <<snapshots, worker>>
  /\ content' = Collected([x \in Snapshots |->
                   IF \E s \in devices : built[s] = x
                     THEN [id |-> config[loader[l].version][CHOOSE s \in devices : built[s] = x].id,
                           names |-> loader[l].version, points |-> {}]
                     ELSE content[x]])
  /\ UNCHANGED <<config, published, subscription, iotCfg, poolVersion, keys, complete>>

SwapSnapshots(l) ==
  /\ loader[l].at = "swap"
  /\ snapshots' = loader[l].copy
  /\ loader' = [loader EXCEPT ![l].at = "store", ![l].copy = NoSnapshots]
  /\ UNCHANGED worker
  /\ content' = Collected(content)
  /\ UNCHANGED <<config, published, subscription, iotCfg, poolVersion, keys, complete>>

StoreConfig(l) ==
  /\ loader[l].at = "store"
  /\ iotCfg' = loader[l].version
  /\ Step(l, "sync")
  /\ UNCHANGED <<config, published, subscription, snapshots, content, poolVersion, worker, keys, complete>>

\* syncConnectionManager looks for a manager, then creates or refreshes one.
FindManager(l) ==
  /\ loader[l].at = "sync"
  /\ Step(l, IF poolVersion = 0 THEN "init" ELSE "refresh")
  /\ UNCHANGED <<config, published, subscription, snapshots, content, iotCfg, poolVersion, worker, keys, complete>>

\* Mutant: a load that finds a manager keeps its configuration.
KeepsPool(l) == IF poolVersion = 0 THEN loader[l].version ELSE poolVersion

PoolAfter(l) == loader[l].version

\* InitDefault closes a manager that was created meanwhile and takes its place.
SyncManager(l) ==
  /\ loader[l].at \in {"init", "refresh"}
  /\ poolVersion' = PoolAfter(l)
  /\ Step(l, "update")
  /\ UNCHANGED <<config, published, subscription, snapshots, content, iotCfg, worker, keys, complete>>

-----------------------------------------------------------------------------
(* Manager.update: the workers of devices that went are stopped, with their snapshots; *)
(* then every device of the configuration gets a new worker.                           *)

Updating == \E l \in Loaders : loader[l].at \in {"remove", "removing", "start", "restarting"}

RunningWorkers == {k \in DOMAIN worker : worker[k].at # "none"}

Specs(v) == {<<s, config[v][s].protocol>> : s \in DevicesOf(v)}

\* m.mu is taken; it is free again when the last worker has been started.
LockUpdate(l) ==
  /\ loader[l].at = "update"
  /\ ~ Updating
  /\ loader' = [loader EXCEPT ![l].at = "remove", ![l].todo = RunningWorkers \ Specs(loader[l].version)]
  /\ UNCHANGED <<config, published, subscription, snapshots, content, iotCfg, poolVersion, worker, keys, complete>>

\* worker.stop cancels the worker's context; it returns when the worker is gone.
StopRemoved(l) ==
  /\ loader[l].at = "remove"
  /\ \E k \in loader[l].todo :
       /\ worker' = [worker EXCEPT ![k].cancelled = TRUE]
       /\ loader' = [loader EXCEPT ![l].at = "removing", ![l].key = k]
  /\ UNCHANGED <<config, published, subscription, snapshots, content, iotCfg, poolVersion, keys, complete>>

\* Mutant: stop cancels the worker and does not wait.
AtOnce(k) == k \in DOMAIN worker

Gone(k) == k \notin RunningWorkers

\* Mutant: the snapshot of a removed device stays.
KeepsSnapshot(s) == snapshots

WithoutSnapshot(s) == [snapshots EXCEPT ![s] = NoSnapshot]

RemovedIsGone(l) ==
  /\ loader[l].at = "removing"
  /\ Gone(loader[l].key)
  /\ snapshots' = WithoutSnapshot(loader[l].key[1])
  /\ loader' = [loader EXCEPT ![l].at = "remove", ![l].todo = @ \ {loader[l].key},
                              ![l].key = <<>>]
  /\ UNCHANGED worker
  /\ content' = Collected(content)
  /\ UNCHANGED <<config, published, subscription, iotCfg, poolVersion, keys, complete>>

NoneLeftToRemove(l) ==
  /\ loader[l].at = "remove"
  /\ loader[l].todo = {}
  /\ loader' = [loader EXCEPT ![l].at = "start", ![l].todo = Specs(loader[l].version)]
  /\ UNCHANGED <<config, published, subscription, snapshots, content, iotCfg, poolVersion, worker, keys, complete>>

StopStale(l) ==
  /\ loader[l].at = "start"
  /\ \E k \in loader[l].todo :
       /\ worker' = IF k \in RunningWorkers THEN [worker EXCEPT ![k].cancelled = TRUE] ELSE worker
       /\ loader' = [loader EXCEPT ![l].at = "restarting", ![l].key = k]
  /\ UNCHANGED <<config, published, subscription, snapshots, content, iotCfg, poolVersion, keys, complete>>

StartWorker(l) ==
  /\ loader[l].at = "restarting"
  /\ Gone(loader[l].key)
  /\ worker' = [worker EXCEPT ![loader[l].key] =
                  [NoWorker EXCEPT !.at = "run", !.version = loader[l].version]]
  /\ loader' = [loader EXCEPT ![l].at = "start", ![l].todo = @ \ {loader[l].key},
                              ![l].key = <<>>]
  /\ UNCHANGED <<config, published, subscription, snapshots, content, iotCfg, poolVersion, keys, complete>>

LoadEnds(l) ==
  /\ loader[l].at = "start"
  /\ loader[l].todo = {}
  /\ loader' = [loader EXCEPT ![l] = Over(l)]
  /\ complete' = loader[l].alone
  /\ UNCHANGED <<config, published, subscription, snapshots, content, iotCfg, poolVersion, worker, keys>>

-----------------------------------------------------------------------------
(* A worker records a value. *)

DeviceOf(k) == config[worker[k].version][k[1]]

\* ensureSnapshot: the snapshot of the serial number, or a new one without names.
EnsureSnapshot(k) ==
  /\ worker[k].at = "run"
  /\ IF snapshots[k[1]] # NoSnapshot
       THEN /\ worker' = [worker EXCEPT ![k].at = "record", ![k].ref = snapshots[k[1]]]
            /\ UNCHANGED <<snapshots, content>>
       ELSE \E x \in FreshSnapshots :
              /\ x = Head(SetToSeq(FreshSnapshots))
              /\ worker' = [worker EXCEPT ![k].at = "record", ![k].ref = x]
              /\ snapshots' = [snapshots EXCEPT ![k[1]] = x]
              /\ content' = [content EXCEPT ![x] = [id |-> DeviceOf(k).id, names |-> 0, points |-> {}]]
  /\ UNCHANGED <<config, published, subscription, loader, iotCfg, poolVersion, keys, complete>>

\* The value, the copy and the SET are under the snapshot's mutex; the key is that of the
\* worker's own device, the payload that of the snapshot.  The SET may fail.
RecordValue(k) ==
  /\ worker[k].at = "record"
  /\ \E p \in DeviceOf(k).points, ok \in BOOLEAN :
       LET x == worker[k].ref
           shown == [content[x] EXCEPT !.points = @ \cup {p}]
       IN
       /\ keys' = IF ok THEN [keys EXCEPT ![DeviceOf(k).id] = shown] ELSE keys
       /\ worker' = [worker EXCEPT ![k].at = "run", ![k].ref = NoSnapshot, ![k].shown = ok]
       /\ UNCHANGED <<loader, snapshots>>
       /\ content' = Collected([content EXCEPT ![x] = shown])
  /\ UNCHANGED <<config, published, subscription, iotCfg, poolVersion, complete>>

Leave(k) ==
  /\ worker[k].cancelled
  /\ worker[k].at = "run"
  /\ worker' = [worker EXCEPT ![k] = NoWorker]
  /\ UNCHANGED <<config, published, subscription, loader, snapshots, content, iotCfg, poolVersion, keys, complete>>

-----------------------------------------------------------------------------

LoadStep(l) ==
  \/ Read(l) \/ CopySnapshots(l) \/ Rebuild(l) \/ SwapSnapshots(l) \/ StoreConfig(l)
  \/ FindManager(l) \/ SyncManager(l) \/ LockUpdate(l) \/ StopRemoved(l) \/ RemovedIsGone(l)
  \/ NoneLeftToRemove(l) \/ StopStale(l) \/ StartWorker(l) \/ LoadEnds(l)

WorkerStep(k) == EnsureSnapshot(k) \/ RecordValue(k) \/ Leave(k)

ReloadNext ==
  \/ Publish \/ Subscribe \/ SubscriptionLost \/ Notified
  \/ \E l \in Loaders : LoadStep(l) \/ LoadFails(l)
  \/ \E k \in Serials \X Protocols : WorkerStep(k)

ReloadSpec == ReloadInit /\ [][ReloadNext]_reloadVars

\* The workers there can be.
Needed == {k \in Serials \X Protocols : \E h \in Histories : \E v \in DOMAIN h :
  h[v][k[1]] # NoDevice /\ h[v][k[1]].protocol = k[2]}

\* Loads and workers run on; a cancelled worker that has both a tick and its context
\* ready picks one at random.  Nothing is owed by the publisher or by Redis.
ReloadFairSpec ==
  /\ ReloadSpec
  /\ \A l \in Loaders : WF_reloadVars(LoadStep(l))
  /\ \A k \in Needed : WF_reloadVars(WorkerStep(k)) /\ SF_reloadVars(Leave(k))

-----------------------------------------------------------------------------
(* Properties. *)

\* When a load that overlapped no other has ended, everything is at its version: the
\* stored configuration, the pool, exactly one worker for each device, and no snapshot of
\* a device that went, under an ID the device no longer has or with the point names of an
\* earlier version, although its workers recorded values all the while.  A snapshot may
\* be without names: that of a device whose protocol changed is removed with its old
\* worker (getIoTCfg.go:58-72, result_writer.go:228-297, :385-413, collector.go:76-120).
LoadIsComplete ==
  complete =>
    /\ poolVersion = iotCfg
    /\ RunningWorkers = Specs(iotCfg)
    /\ \A k \in RunningWorkers :
         /\ worker[k].version = iotCfg /\ ~ worker[k].cancelled
         /\ worker[k].ref \in {NoSnapshot, snapshots[k[1]]}
    /\ \A s \in Serials : snapshots[s] # NoSnapshot =>
         /\ s \in DevicesOf(iotCfg)
         /\ content[snapshots[s]].id = config[iotCfg][s].id
         /\ content[snapshots[s]].names \in {0, iotCfg}

\* Whether a history is one of those KeysShowSnapshots speaks of: the IDs of one version
\* differ, and an ID that a new version gives to another serial number was that of a device
\* that goes or changes its protocol, whose worker is gone before the first new one starts.
\* The code checks neither; two devices that exchange their IDs are restarted one after the
\* other (collector.go:107-151), and until the second one is, its old worker writes its
\* snapshot to the key of the first.
IdsMoveAway ==
  \A h \in Histories : \A u, v \in DOMAIN h : \A s, t \in Serials :
    /\ u <= v /\ s # t
    /\ NoDevice \notin {h[u][t], h[v][t], h[v][s]}
    /\ h[u][t].protocol = h[v][t].protocol
    => h[u][t].id # h[v][s].id

\* From then on a device's key shows its snapshot, whole and under its own ID, as soon as
\* the last SET succeeded: no late write of an earlier worker comes after it
\* (result_writer.go:336-383, collector.go:76-152).
KeysShowSnapshots ==
  complete => \A k \in RunningWorkers :
    worker[k].shown =>
      snapshots[k[1]] # NoSnapshot /\ keys[DeviceOf(k).id] = content[snapshots[k[1]]]

\* A load that begins while no other is under way brings every part to its version or a
\* later one, even when workers it has to stop are in the middle of a record, or another
\* load overtakes it (getIoTCfg.go:58-72, collector.go:67-152, app.go:135-141).
LoadsPropagate ==
  \A v \in Versions :
    (\E l \in Loaders : loader[l].alone /\ loader[l].version = v)
      ~> (iotCfg >= v /\ poolVersion >= v /\ \A k \in RunningWorkers : worker[k].version >= v)
=============================================================================
