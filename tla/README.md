# A TLA+ model of dskit

dskit is a Go library of the building blocks of a horizontally scaled service:
a life cycle for long-running services, a hash ring of instances kept in a
key-value store, several such stores (one of them gossiped), and helpers. This
directory models the parts with protocols in them, checks the models with TLC on
small instances, and proves what matters most with TLAPS for all instances.

`PROJECT.json` lists components, runs, mutants, findings, hazards and theorems,
and maps every definition that models code to the lines it models.

## Inventory

| Component | State it keeps | Operations | Talks to | Modelled in |
|---|---|---|---|---|
| `services.BasicService` | state, failure case, context, waiter channels, listener queues | `StartAsync`, `StopAsync`, `main()` with three user functions, `AddListener`, `AwaitRunning`, `AwaitTerminated` | its listeners, each in a goroutine of its own | `ServiceContract`, `BasicService` |
| `services.Manager`, `FailureWatcher` | services by state, manager state, `healthyCh`, `stoppedCh`, listeners | `StartAsync`, `StopAsync`, `serviceStateChanged`, `AddListener`, `AwaitHealthy`, `AwaitStopped` | is a listener of every service | `ServiceManager` |
| `modules.Manager`, `moduleService` | module graph, services map | `InitModuleServices`; start after dependencies, stop before them | wraps services | `ModuleServices` |
| `ring.Desc` | instances with state, timestamp, tokens | `Merge`, `RemoveTombstones`, `ClaimTokens`, queries | value in a KV store | `RingDesc`, `RingReplicas` |
| `kv/memberlist` KV | value and version per key, broadcast queue, watchers | `CAS`, `Get`, `WatchKey`, `NotifyMsg`, `GetBroadcasts`, `LocalState`/`MergeRemoteState`, stop | other nodes by gossip and push/pull; a `Service` | `MemberlistKV` |
| `kv/consul`, `kv/etcd` | none but the store's index | `CAS` loop, `WatchKey`, `WatchPrefix` | the store | `RemoteStore` |
| `kv.MultiClient` | primary, cancel functions | run on primary, switch primary, mirror writes | two or more stores; runtime configuration | `MultiClient` |
| `runtimeconfig.Manager` | config, listener channels | reload, notify, stop | a `Service`, its listeners | `RuntimeConfig` |
| `ring.Lifecycler` | own state, tokens, readiness | join, observe, heartbeat, claim tokens, leave | CAS on the ring | `Lifecycler` |
| `ring.BasicLifecycler` | own entry | register, heartbeat, change state, unregister through a delegate | CAS on the ring | `BasicLifecycler` |
| `ring.Ring` | last descriptor, token index, subring cache | `Get`, replication sets, `ShuffleShard` | `WatchKey` on the ring | `RingClient`, `ShuffleShard` |
| `ring.ReplicationSet.Do`, `ring.DoBatch` | trackers per call | parallel requests, quorum of answers | clients | `ReplicationSetDo`, `DoBatch`, `QuorumOps` |
| `ring/client.Pool` | clients by address | get or create, health check, remove | ring discovery | |
| `concurrency`, `backoff`, `limiter` | workers; delays; limiters per tenant | `ForEach`; `NextDelay`; `AllowN` | | |
| flags, gRPC, TLS, tracing, codecs, transport, generated code | | I/O and configuration | | |

What is hard in this code is nearly always concurrency: callbacks that run
later and elsewhere (service listeners, the manager's view of its services),
checks and actions under different locks (`StopAsync`, CAS, the primary
switch, the subring cache), updates that arrive in any order or not at all
(gossip), restarts that find their own traces in the ring, and counts that
decide who may close or send on a channel. The hazards of `PROJECT.json` list
each place with the properties that cover it.

What makes the parts correct:

* a service only takes the documented transitions, tells every listener and
  waiter exactly what happened, never blocks under its lock, ends when told to;
* a manager reports health and end only when they hold, and its channels are
  closed once; modules start after what they depend on and stop before it;
* merging descriptors is idempotent, never goes back in time, leaves every
  token with one owner, and depends on what was merged, not on the order;
* the gossiped store makes a CAS work on the value it read, loses no update
  that anybody still knows, tells its watchers of the last value, and converges;
* the other stores lose no update, whatever fails between the attempts, and a
  change of the primary loses neither watches nor writes;
* a lifecycler publishes what it holds, keeps what it has registered through
  restarts, joins, and leaves for good;
* writes and reads reach quorums that intersect, and their answers come once,
  rightly, and eventually;
* a tenant's shard is balanced and stable, and its lookback misses no instance.

## Modules

| Module | Models | Notes |
|---|---|---|
| `ServiceContract` | `services/service.go` | abstract specification: states, transitions, failure case |
| `BasicService` | `services/basic_service.go` | detailed; implements `ServiceContract` |
| `ServiceManager` | `services/manager.go`, `failure_watcher.go` | built on the transitions of `ServiceContract` |
| `ModuleServices` | `modules/` | dependencies, wrappers and the services in them |
| `RingDesc`, `RingReplicas` | `ring/model.go` merge; `mergeable.go`'s requirements | operators; replicas merging updates and each other |
| `MemberlistKV` | `kv/memberlist/memberlist_client.go`, `broadcast.go` | the cluster; extends `RingDesc` |
| `RingClient` | `ring/ring.go`, `replication_strategy.go` | operators: the walk, the filter, replication sets |
| `DoBatch`, `ReplicationSetDo` | `ring/batch.go`; `ring/replication_set*.go` | one call each |
| `QuorumOps` | | composes the three: a batch is written and read back while the ring changes |
| `ShuffleShard` | `ring/ring.go`, `ring/shard/` | subrings, lookback, cache; extends `RingClient` |
| `RingStore` | the ring in a KV store, `model.go`, `tokens.go`, `util.go` | CAS with its failures; shared by the lifecyclers |
| `Lifecycler`, `BasicLifecycler` | the files of these names, `basic_lifecycler_delegates.go`, `flush.go` | |
| `Lifecyclers` | | instances of either kind over one ring |
| `RemoteStore` | `kv/consul`, `kv/etcd` | the clients over the packages' in-memory stores |
| `RuntimeConfig`, `MultiClient` | `runtimeconfig/manager.go`, `kv/multi.go` | the second listens to the first |
| `KVConf`, `KVClients` | | configuration and bounds; composition of the store clients |
| `BasicServiceProofs`, `ServiceManagerProofs`, `ModuleServicesProofs`, `RingReplicasProofs`, `MemberlistKVProofs`, `KVClientsProofs`, `LifecyclersProofs`, `QuorumOpsProofs` | | theorems |
| `MC...` | | instances for TLC |

An operator whose name ends in `_Something` after a comment `Fault:` is a
mutated form of the definition below it. Some property of a run fails when it
takes that definition's place (`mutants` in `PROJECT.json`).

Several modules choose their configuration in `Init` from a set `Confs` (or
`Scenarios`): one run then covers switches, sizes and bounds that are never
useful all at once, and every configuration comes with the bounds that make
its cases happen.

### BasicService

Variables are the fields of `BasicService` and the local variables of `main()`.
What is done under `stateMu` is one step; every test outside of it (the first
line of `StopAsync`, `serviceContext.Err()`, the two reads of `awaitState`) is a
step of its own. The user's functions return with or without an error. A panic
sets `panicked` and ends the behaviour. `history`, `added` and `delivered` record
what listeners should get and got. Names and the context passed to user
functions are left out.

### ServiceManager

Each service is a `ServiceContract` machine that appends its transitions to the
queue of the manager's listener; `HandleEvent` runs `serviceStateChanged` on
the head of a queue, so the manager's view trails. The loops of `StartAsync` and
`StopAsync` take one service per step. A `FailureWatcher` is a manager listener
whose callback may wait for ever for a reader. `IsHealthy` answers from this
trailing view: it may be true for a moment after a service has stopped, which
its comment ("all services are currently in the Running state") does not say.

### ModuleServices

`initModule` initialises one target per step; `stopDeps` is what
`findInverseDependencies` answers for a module when that happens. A wrapper
takes one dependency per step, in any order (a map is ranged over), and of the
service inside only the state is kept. `DependenciesForModule` is the least set
with the direct dependencies that is closed under dependencies, which is what
`listDeps` collects. Dependencies are assumed to be modules, and acyclic:
`listDeps` panics, or does not return, otherwise. The stop order is stated for an
application with one target whose modules all have a service: the inverse
dependencies are only searched among those of the target that brought a module
in, and only direct ones, so with several targets, or with a module without a
service in between, a dependency may stop while something above it runs. A
start that its context interrupts leaves the service inside as it is
(`orphans`), and a wrapper whose own service has ended does not wait for others.
The manager above stops all services with one `StopAsync` after the other:
`StopAll` begins, and `StopNext` takes the services in any order.

### RingDesc and RingReplicas

A descriptor is a function from instance names (numbers, as names are compared)
to entries of state, timestamp and token set; addresses, zones and
registration times do not take part in merging decisions. `Merged` and
`MergeChange` are the two results of `mergeWithTime`: the receiver and the
change that is returned. Conflict resolution in the code walks a map in
arbitrary order and decides pairwise; `Precedes` is a strict order on the
owners of a token, so the winner does not depend on the order.

### MemberlistKV

One key holding a descriptor, on every node. `CasRead` and `CasMerge`/
`CasMismatch` are the two lock sections of `trySingleCas`. A merge leaves a task
in `todo`: the goroutine that merged still has to notify the watchers and to
queue a broadcast, in any order with other goroutines'. What is sent, a change
(`Gossip`) or the full state of push/pull (`LocalState`), stays in `net` for
ever and may be delivered to anybody at any time (`NotifyMsg`,
`MergeRemoteState`), which covers loss, repetition, delay and reordering: a full
state may be out of date, and its node down, when it is merged. Watchers are
registered from the start of their node; one that comes later hears nothing
until the next change, as `WatchKey` calls its function for changes only. A node
stops or crashes at any step and
comes back empty. `MergeValue` keeps two details of `mergeValueForKey`: the
old value is merged into in place, before the early returns, and a version of
0 means that nothing is compared.

### RingClient, DoBatch, ReplicationSetDo, QuorumOps

`RingClient` has what the ring computes under its read lock as operators on one
descriptor. `DoBatch` keeps the counters of each key and of the batch apart and
takes the increment of the one, that of the other and the send on the channel
as three steps of an instance's goroutine. `ReplicationSetDo` has the requests
that are held back, the forced starts and both trackers; a timer may fire or
not. `QuorumOps` lets a writer finish a batch, then a reader ask the replicas
of a key (`Get` with `Read`) or all instances
(`GetReplicationSetForOperation`), while instances move on or lose their
heartbeats between the lookups and between the two operations. Tokens do not
change: reads through `Get` find what was written only with the tokens of the
write. At most one instance is not ACTIVE at the beginning: with two LEAVING
replicas the set of the write is extended by two instances of which the read
knows nothing, and the quorums need not meet. Either all instances have a zone
or none has. A batch without keys waits for its context; it is left out.

### ShuffleShard

The random numbers of a tenant depend on its identifier only, so they are
chosen once, for all values over a small token space. `lastUsed` records when an
instance was last in the shard. The shard size only grows. `reshaped` marks
what TLC shows the lookback not to follow, although the comment of
`ShuffleShardWithLookback` ("includes all instances that have been part of the
identifier's shard") has no such exception: a zone that comes or comes back
(every zone then gives fewer instances), and, with zone awareness, a ring of
unbalanced zones that outgrows the shard (three instances in one zone and one
in the other, all of them in a shard of four; a fifth registers).
`Consistency` is compared where the set of zones stays the same. A
`ShuffleShard` call with the cache takes the steps of the code: look into the
cache, compute, store under another lock, while the ring changes in between.

### RingStore, Lifecycler, BasicLifecycler

The store is linearizable. A CAS ends in one of four ways (`Outcomes`): `ok`;
`unreached`, its function did not run; `lost`, the function ran, and may have set
local variables and written the tokens file, and nothing was stored; `late`, the
result was stored although the caller is told of an error. The ring starts nil,
or with the entries of an older version that knew no registration times
(`conf.old`). It may be lost as a whole, heartbeats age, and gossip may give a
token to another instance while it is observed.

`Lifecycler` has one action per case of the select in `loop`, and the handover
between two instances as a `transfer`. A claim (`ClaimTokensFor`) is made while
its sender waits; if its CAS fails, the error is logged, the local tokens are
what its function saw and the caller goes on, as in the code; `unclaimed`
remembers it. Either side may be stopped or die in mid-handover; the calls to a
receiver that is stopped fail. `CheckReady` reads the local tokens in one step
(`probe`) and the ring, if the store answers, in another. `BasicLifecycler` has
the two goroutines of a lifecycler that stops, and the CAS and the assignment of
its result to `currInstanceDesc` as separate steps, verification included. Files
are always written; metrics and the counters of healthy instances are left out.
Properties about ownership exclude a ring that was lost, and what the proofs
showed to be different:

* `TokensHaveOneOwner` is not about tokens files and `AutoForget`: both let an
  instance register tokens that another one has been given meanwhile;
* `ActiveKnowsTokens` and `ReadyHasTokens` except an instance whose claim has
  failed (see the finding `claim_fails`), and `Unobserved`, a gossiped ring with
  handovers: tokens that are handed over are not observed, and one that is lost
  to another instance before the receiver is ACTIVE is never noticed.

### RemoteStore, RuntimeConfig, MultiClient

A value is the set of the CAS calls that went into it. `RemoteStore` keeps
what the two clients do differently (index or version, a blocking query or a
stream of events with two bounded channels) over the stores of `mock.go`. In
`MultiClient` a store is atomic, as `RemoteStore` shows; the switch of the
primary, the registration of a watch and the mirroring of a write are sequences
of steps. Exceptions the properties name:

* `Counted`, of `NoLostUpdate`: etcd's version starts at 1 again when a key was
  deleted, so a CAS cannot tell two entries apart (`KVClients_etcd.cfg`);
* `KeepsOldRevision`, of `RefusedOnlyIfDisturbed`: an attempt of etcd's client
  that does not find the key keeps the version of an earlier attempt that did,
  and is refused although nobody came in between; it is the only such case;
* index resets: after one, a Consul watcher may wait for an index it has
  already passed;
* `lost`: etcd events before registration, after a break, or when a channel
  is full and no later event of the key follows in it;
* `late`: a watch that reads the primary before a switch and registers after
  its cancelling is over stays with the old store (`KVClients_late.cfg`);
* `disturbed`: CAS calls under way together are mirrored in any order, and a
  mirror that fails is not repeated.

Entries have a creation index besides the modify index, as the watch of a
prefix tests both. Stale reads, the rate limiter and `Client.Put` of Consul are
left out.

## Runs

| Run | Instance | Shows |
|---|---|---|
| `service` | 2 stoppers, 2 listeners, 1 waiter | all safety properties, the refinement of `ServiceContract`, and liveness: a stop request ends the service, the end releases everybody |
| `service_double_stop` | 2 stoppers | violation: two `StopAsync` calls on a New service, the second finds a nil cancel function |
| `manager` | 2 services, a failure watcher, 1 waiter | channels closed once, events in order, no blocking under the lock, answers that hold; `StopAsync` leads to Stopped against a racing `StartAsync`, waiters return |
| `modules` | a chain and a diamond, two targets, a module without a service, an unknown target | start and stop order; stopping all ends all, starting all runs all |
| `merge` | 3 replicas, 6 updates of 2 instances, one disputed token | idempotent, monotone, one owner per token, agreement on all that is not disputed |
| `kv_safety` | 2 nodes, 2 instances with the same token, 2 CAS calls, 1 stop; or 3 calls, 1 instance, no stop | what a node has learnt is on its way to the others, the store never goes back, one owner per token, a CAS that passes the version check works on the value it has read |
| `kv_convergence` | 2 nodes, an instance each in one second, or 1 instance in two; 1 watcher | the watcher has seen the last value; the stores become equal |
| `quorum` | rings of 2 to 4 instances, with and without zones, 1 or 2 keys, 1 change | reads see acknowledged writes; both operations answer once, rightly, always; cleanup is last; no blocked send |
| `shuffle_shard` | up to 5 instances in 2 zones, 3 or 4 random numbers, 4 changes | lookback, balance, consistency, a fresh cache |
| `lifecyclers` | 2 instances, 3 tokens, up to 3 starts, 1 failing CAS, 1 lost ring, entries of an older version | tokens have one owner and are known, an entry stays registered, joining, readiness, leaving, coming back |
| `claim_fails` | as `lifecyclers` | violation: a claim that failed is reported as a success |
| `stores` | 2 callers with up to 3 calls, 2 keys; 2 stores, 2 edits of the file | no lost update, watchers see the last value, migration, channels closed once, a CAS refused only if disturbed |

Properties that answer one question are checked as one named conjunction; the
parts are definitions of the same module, each with its comment:

| Checked | Parts |
|---|---|
| `BasicService!StateIsConsistent` | `TypeOK`, `WaitersMatchState`, `FailureCaseIffFailed`, `ContextCancelledBeforeStopping` |
| `BasicService!StopEnds` | `StopLeadsToTerminal`, `NothingLeftBehind` |
| `ServiceManager!AnswersHold` | `TypeOK`, `ByStateIsView`, `HealthyChMeaning`, `StoppedIsReal`, `NotHealthyIsFinal` |
| `ServiceManager!ListenersAreServed` | `ListenersNeverBlock`, `EventOrder`, `WatchersSendErrors` |
| `ServiceManager!StopReturns` | `StopLeadsToStopped`, `AwaitsReturn` |
| `ModuleServices!DependencyOrder` | `StartsAfterDependencies`, `StopsBeforeDependencies` |
| `ModuleServices!NobodyWaitsForEver` | `StopOfAllEnds`, `StartOfAllRuns` |
| `RingReplicas!ReplicaIsSound` | `ReplicasTypeOK`, `MergeIdempotent`, `ReplicasHaveOneOwner` |
| `MemberlistKV!NodesAreSound` | `TypeOK`, `TokensHaveOneOwner`, `NothingIsKeptBack` |
| `QuorumOps!SendsNeverBlock` | `OneAnswer`, `ForceStartHasRoom` |
| `QuorumOps!BatchIsRight` | `BatchTypeOK`, `AnswerIsRight`, `CleanupIsLast` |
| `QuorumOps!GetFindsReplicas` | `SetsAreTyped`, the replicas found |
| `QuorumOps!CallsReturn` | `BatchAnswers`, `DoAnswers` |
| `Lifecyclers!TokensAreKept` | `LifecyclersTypeOK`, `TokensHaveOneOwner`, `ActiveKnowsTokens`, `LostTokensAreReplaced` |
| `Lifecyclers!EntriesAreKept` | `RegistrationIsKept`, `LeavingStays`, `ReadyHasTokens` |
| `Lifecyclers!GetsIntoRing` | `Joins`, `ComesBack` |
| `KVClients!ClientsAreSound` | `StoresTypeOK`, `ListenerClosedOnce`, `RefusedOnlyIfDisturbed` |
| `KVClients!FollowsFile` | `FileIsApplied`, `SwitchRestartsWatches` |

The bounds are small and reach the cases that matter. Two stoppers are what a
race of `StopAsync` with itself takes, two listeners what registration before
and after an event takes; the capacity of a listener's channel, 4, is reached.
Two services are the least for which "all" and "some" differ, and the manager
buffer of 2 + 2 fills up. Three modules in a chain are the least for an indirect
dependency, four for a diamond. Three replicas are needed for grouping, six updates
give an instance that leaves in the second of its last heartbeat and one that
comes back. In `MemberlistKV`, two seconds (`MaxTime`) tell equal timestamps
from later ones, `MaxRetries` = 2 lets a call retry once, and with one stop a
node forgets everything while its messages are still under way. A
version mismatch takes a third call. Two constraints of `MCMemberlistKV` keep its
runs small: `FewValuesAndCalls` allows three different values to be sent, two if
a node stops, and a third call only with one instance, in the first second and
without stops; `OneInstanceLater` lets time go on, in `kv_convergence`, where
only one instance is written. The latter holds back clients and the clock, and
no step that is assumed to be fair.
In `quorum` three replicas of four instances leave one that is not a replica,
two replicas make a quorum of all, and two instances are fewer than the
replication factor; two keys with overlapping replicas share goroutines. In
`shuffle_shard` three seconds outlast the lookback, and four changes let an
instance leave, come back and be displaced. Three starts let an instance
restart after a restart, and one failing CAS may be any of them. Two calls race;
the third lets one of them retry. Two edits switch to another store and back.
Deadlock is not checked where the system may come to rest: a service that has
ended, clients that have made their calls.

### Fairness

* `BasicService`: goroutines that can take a step do. The user's starting and
  stopping functions return, the running function returns once its context is
  cancelled, as the package asks of them. Nobody has to call anything.
* `ServiceManager`: services keep what `BasicService` shows of them, the
  goroutines that deliver events proceed, as do the loop of `StopAsync` and
  waiters whose channel is closed. Nothing is assumed of manager listeners.
* `ModuleServices`: wrappers run, no service hangs in starting or stopping, and
  the loop that stops all services goes on (`StopNext`): `StopOfAllEnds` is about
  everything from the call of `StopAsync` on.
* `MemberlistKV`: goroutines proceed, and each node pulls from each other
  again and again (memberlist's periodic push/pull picks a random peer): what a
  node holds for good is sent and merged by the others, whatever old states
  arrive in between. Nothing is assumed of broadcasts. `Converges` is checked
  for instances that are written on one node each and do not share tokens: entries of one instance
  written by two nodes in the same second are never reconciled, and for tokens
  see "Findings".
* `QuorumOps`: callbacks and requests return, goroutines run. Timers of
  requests that are held back need not fire.
* `Lifecyclers`: both goroutines run and the store does not fail for ever; what
  waits in a select next to the heartbeat's ticker is not passed over for ever
  (strong fairness: Go chooses among ready cases at random).
* `KVClients`: watch goroutines run, queries return, the manager's ticker ticks.

Liveness of a service says "or the process has panicked": the panic is the one
of `service_double_stop`, and `NoInternalPanic` shows that there is no other.

## Proofs

`BasicServiceProofs`, for any number of stoppers, listeners and waiters. The
invariant `IInv` adds to the checked properties what makes them inductive:
`MainInv`, the position of `main()` determines the state, because nobody else
moves a started service; and `ChanInv`, a listener's channel holds at most one
event per transition made so far (`Rank`), which bounds it by its capacity.
One lemma per action shows that `IInv` is kept. From it follow type correctness,
absence of internal panics, no blocking under the lock, the meaning of the
waiter channels and of the failure case, the cancelled context (together
`Consistent`), and the refinement of `ServiceContract`. Two further invariants
rest on it: one about waiters (`AwaitAnswersHold`) and one that relates what a
listener was given and what it still has queued to the history
(`ListenersSeeAll`).

`RingReplicasProofs` begins with all descriptors: `Rank` orders what can be said about an
instance, by timestamp and LEFT last; `Accepted` takes over exactly the entries
of higher rank. So a merge keeps the more recent entry (`MergeKeepsMostRecent`)
and ignores what is known (`MergeOfKnown`). `MergeKeepsOneOwner` is the subtle
one: the code looks for conflicts only when the tokens of an accepted entry
have changed, and a ring without conflicts stays one nevertheless.

Then, for any replicas and updates: the invariant (well-formed,
normalised, free of conflicts, and at least as recent as everything that was
merged) gives `ReplicasTypeCorrect`, `Idempotent`, `ReplicasOneOwner`
(together `Sound`) and `ReplicasGoForward`. For `Agreement` (`SameUpdatesAgree`) a second invariant,
`Origins`, says where an entry comes from: an update the replica has got, whose
tokens it has, except for disputed ones, since `resolveConflicts` takes a token
only from an instance when another one has it too (`LostToAnother`). Two
replicas with the same updates then name sources of the same rank, and an
instance publishes one entry per second (`OncePerSecond`). The other
assumptions are those of the modules: instance names are numbers, updates are
descriptors.

`ServiceManagerProofs`, for any services, listeners, watchers and waiters. All
that the manager keeps is a function of `View`, the states of the services as
far as it has heard of them; only `HandleEvent` changes `View`, and it is
treated as a whole in `HandleEventEffect`. The invariant says that the queued
events of a service follow on one another up to its state (`Chain`), what the
two channels mean (`ManagerFollows`), that an event in a listener's channel is
true (`EventsHold`), and that there are at most as many of them as services
that have failed, and two (`EventsAreFew`): so the buffer suffices
(`ListenersServed`), nothing is closed twice (`NoPanic`), and what was answered
holds (`AnswersAreRight`). The counting rests on `FiniteSetTheorems`; services
are a finite set.

`ModuleServicesProofs`, for any finite application without cycles. First
`DependenciesForModule` is shown to be the transitive closure (`DepsFacts`)
that never contains the module itself (`NotItself`, by the rank of
`AcyclicAssumption`). The invariant says of every wrapper what its position
implies, what it has waited for when it starts (`StartInv`) and stops
(`StopInv`), and `NobodyUsesTheStopped`: if nothing has failed, nothing
above a stopped module is in use or still going to start. The crux is `NoDependantLeft`: starting waits for all dependencies,
stopping only for the direct dependants; a dependant further up that were in use
would have one in between that is neither stopped nor allowed to stop. From it
follows `ModulesAreOrdered`.

`MemberlistKVProofs`, for any nodes, callers, watchers, updates and bounds, on
top of what `RingReplicasProofs` says of descriptors (its replicas and updates
play no part). `IInv` says that values in stores, calls, tasks,
queues and on the network are normalised, free of conflicts and not from the
future; it gives `TypeCorrect` and `OneOwner` whether tombstones expire or not.
The others assume that none expires (`LeftTimeout = 0`, as in the runs; see
"Findings" for what happens otherwise): then a merge that reports no change
makes none, and one that reports a change counts the version up (`MergeEffect`).
`GoesForward` follows at once. `CasIsCurrent` needs that a version in the hands
of a call determines the value (`CasInv`), `WatchersSeeTheLatest` that a value
not yet seen is owed a notification (`WatchInv`). `KnowledgeSpreads` is the
hardest: a broadcast may invalidate queued ones although several goroutines
queue theirs in another order than they merged. `Spread` says that, for every
instance a running node knows, some pending task, queued broadcast or sent
message is as recent as the store (`KnownAt`), that a pending change of a later
version knows no less of the instances it shares with an earlier one
(`OrderedAt`), and that none is ahead of the store (`BelowAt`). `NodesStaySound` combines the three.

`KVClientsProofs`, for any stores, keys, callers, writers, watchers and
configurations. Of Consul and etcd: as long as indexes count up
(`ConsulCounts`, `EtcdCounts`), the index of a new value exceeds every index
that a call has read, so equal indexes mean equal values
(`SameIndexSameValue`); a write that passes its comparison contains what it
replaces (`NoUpdateIsLost`). A CAS that is refused although its key is as it was
read can only be one of etcd with a version from an earlier attempt
(`RefusedOnlyIfDisturbed`), whatever was deleted or reset. Of `MultiClient` and
`runtimeconfig.Manager`:
`ListenerInv` says that the listener is registered only while its channel is
open, and `MirrorInv` that, undisturbed, every store has what was acknowledged,
one call writes at a time, and what it is about to mirror contains it all
(`MigrationLosesNothing`, `ClientsSound`).

`LifecyclersProofs`, for any instances, tokens, configurations of either kind
of lifecycler, starts and failing or late updates, over a store that may lose
the ring. From `NumTokensAssumption`, `NamesAssumption` (the tokens are finitely
many), `OldAssumption` and `KindAssumption`. `Inv` has a part for each kind and
relates every instance to its entry. Of the full lifecycler: while the store keeps the ring
the entry is there with the registration time the lifecycler knows (`EntryOK`);
an entry gets ACTIVE or LEAVING by its lifecycler only (`StateOK`), which then
knows its tokens unless its claim has failed (`TokensOK`, also between the end
of the observation and the CAS); and the two sides of a handover keep still until it is over
or broken off (`ReceiverOK`, `SenderOK`), without which a claim could take tokens
from a sender that is ACTIVE again. Of the basic one: a delegate that has yet to change the
state means that the service is still stopping (`BlOK`), so that no late update
puts an unregistered instance back; nobody else removes an entry, unless
heartbeats make others forget (`StaysOK`); and without heartbeats no incomplete
set of tokens reaches `currInstanceDesc`, an update under way or the file
(`CompleteOK`). Every step edits one entry and leaves the others alone
(`FullEdit`, `BasicEdit`), but for claims and lost tokens, which have lemmas of
their own; `TokensGenerated` counts generated tokens. The theorems are
`TokensAreKeptHolds`, `UnregisteredStaysAwayHolds` and `EntriesAreKeptHolds`.
They cover claims that fail and registration times that are unknown.

`QuorumOpsProofs`, for any ring, keys, callbacks, requests and timers, from
`ScenariosAssumption` (the keys are a sequence). The theorems have a hypothesis,
`[]SetsAreTyped`: what the walk returns are replication sets, that is sequences
of instances with integer limits. It is part of `GetFindsReplicas`, which TLC
checks; nothing else is used of the walk. `Working` says of a batch in progress
that a key's two counters count the goroutines that are done with the key
(`KeyOK`), and that `rpcsPending` is the number of keys without enough successes
plus those whose last success is not yet taken off (`CountersOK`); whoever makes
it 0, and whoever counts the first failed key, is the one to send. The crux is
`OutcomesExclude`: an instance is counted as a success or a failure of a key,
never as both, so a key with more than `maxFailures` failures never has
`minSuccess` successes, and `done` excludes `err` (`AnswersOnce`) although the
counters of the batch are incremented apart from those of the keys. Of `Do`:
every start in `forceStart` stands for a received error that was not fatal
(`DoInv`). The theorems are `BatchIsRightHolds` and `SendsNeverBlockHolds`.

Only model-checked: everything temporal beyond invariants and action
properties; `ReadsSeeWrites` and `GetFindsReplicas` of `QuorumOps`; and all of
`ShuffleShard`. Liveness under fairness, and what a recursive definition or a
fold (the walk along the ring, the shards) computes for every input, are outside
of what the prover does; with them go `GetFindsReplicas`, `LookbackIncludes`,
`ShardIsBalanced` and `Consistency`, and `ReadsSeeWrites`, which depends on how
the walks of a write and of a read overlap.

## Findings

`service_double_stop`: `StopAsync` tests for New without the lock; two calls
race for the switch to Terminated, and the one that loses calls
`serviceCancel`, which is nil as the service was never started.

`claim_fails`: `ClaimTokensFor` logs an error of its CAS, takes what its function
saw for its tokens, and returns nil. The receiver becomes ACTIVE, the sender
leaves, and the tokens are in nobody's entry; heartbeats do not write tokens.

### Where the code does less than a comment says

A property that has an exception is stated with it, and the code behaves as the
exception says. For each there is a configuration that checks what the comment
says, without the exception, and that TLC refutes
(`tlc -config X.cfg M`; they are no runs of `PROJECT.json`):

| Configuration | Module | Refuted | What the comment says, and what happens |
|---|---|---|---|
| `RingReplicas_order.cfg` | `MCRingReplicas` | `MergeOrderDoesNotMatter` | `mergeable.go` asks for commutative and associative merging; who owns a disputed token depends on the order, as `resolveConflicts` takes it away under an unchanged timestamp |
| `MemberlistKV_expiry.cfg` | `MCMemberlistKV` | `CasSeesCurrentValue` | "state hasn't changed since running 'f'"; with `LeftTimeout` > 0 a merge of nothing but expired tombstones changes the stored value in place, not the version, and watchers are not told |
| `ShuffleShard_lookback.cfg` | `MCShuffleShard` | `LookbackIncludesAlways` | "includes all instances that have been part of the identifier's shard"; not when a zone has appeared since |
| `Lifecyclers_unknown.cfg` | `MCLifecyclers` | `UnknownIsLeft` | "If unknown (0), it should be left as is" (`ring.proto`); the heartbeat of `Lifecycler` writes the `Unix()` of the zero time. `RegistrationIsKept` shows that it is still read as unknown |
| `Lifecyclers_verify.cfg` | `MCLifecyclers` | `VerifiedIsComplete` | an instance that "doesn't own its tokens anymore" gets new ones; after a heartbeat `verifyTokens` compares the ring with itself |
| `KVClients_index.cfg` | `MCKVClients` | `MissingKeyHasIndexZero` | "If key doesn't exist, index will be 0" in Consul's client; not if an earlier attempt has found it |
| `KVClients_etcd.cfg` | `MCKVClients` | `SingleCASSucceeds` | "only a single concurrent CAS succeeds"; two do when the key is deleted in between, as versions start again |
| `KVClients_late.cfg` | `MCKVClients` | `WatchFollowsPrimary` | "If primary client changes, fn is restarted"; not one that registers when the cancelling is over |

The drawn state diagram of `services/service.go` has no arrow from Starting to
Stopping; `main()` takes it when the context is cancelled during start, and
`ServiceContract` has it.

### Known limits

Exceptions that no comment of the code contradicts:

* `ActiveKnowsTokens` and `ReadyHasTokens` except claims that have failed
  (`claim_fails`) and handovers in a gossiped ring (`Unobserved`); the latter
  also a sender without tokens whose handover comes between the two reads of
  `CheckReady`.
* `TokensHaveOneOwner` of the lifecyclers excepts tokens files and `AutoForget`.
* The exceptions of `ModuleServices`, `QuorumOps`, `ShuffleShard` and
  `KVClients` are given with the modules above.

## Not modelled

* `ring/client.Pool`: a map under a lock; what a removed and closed client
  does to its holder is inside gRPC.
* `concurrency.ForEach`, `backoff`, `limiter.RateLimiter`: thin layers over
  `errgroup`, a random delay and `golang.org/x/time/rate`.
* `KVInitService`: a `BasicService` that starts the KV behind a `sync.Once` and
  watches it with a `FailureWatcher`, both modelled.
* `ring.GetAllHealthy` (a filter of the descriptor that nothing here calls) and
  `HasReplicationSetChanged`, a comparison for the wait functions of `util.go`.
* `memberlist`'s `WatchPrefix` (several keys), registration and end of a
  `WatchKey` call, cluster join and rejoin,
  message history, codecs, the TCP transport: `MemberlistKV` assumes less of
  the network than the transport gives.
* Serialisation, generated code, metrics, HTTP pages, flags, gRPC, TLS and
  tracing helpers: I/O or configuration.

Worth proving next: that the quorums of a write and a read of one set of
replicas intersect (what the walk returns remains with TLC); of `ShuffleShard`,
`CacheIsFresh`, once it is known that a fold over the walk does not depend on
states and heartbeats.
