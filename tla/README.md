# TLA+ models of the Arktos global scheduler

This directory holds TLA+ specifications of the stateful components of the
global scheduler and resource collector of `futurewei-cloud/arktos-1`, the TLC
models that check them, and the record of what the checks show
(`PROJECT.json`). Everything is checked with TLC; nothing is proved.

Run a model from this directory with

    tlc -workers 2 -config <cfg> <MC module>

`PROJECT.json` lists every run with its cfg, its module and the result to
expect.

## 1. The system

| Part | Source | What it is |
|---|---|---|
| SiteCache | `resourcecollector/pkg/collector/internal/cache/cache.go` | `collectorCache`: the sites with their resource state and the stacks placed on them, behind one `sync.RWMutex`; hands delta snapshots to the scheduling cycle; expires assumed stacks on a timer |
| SiteTree | not in the repository's sources here | sites grouped by region and zone; gives the order of the snapshot's list |
| ResourceAccounting | not in the sources here | `SiteCacheInfo`: per-site resource totals and the stacks counted on the site |
| Scheduler controller | `globalscheduler/controllers/scheduler/scheduler_controller.go` | reconciler: keeps the consistent-hash ring of scheduler instances, assigns every cluster a home scheduler, starts and stops scheduler processes |
| RingRouter | not in the sources here (`controllers/util/consistenthashing`) | consistent-hash ring: `Add`, `Remove`, `Get(ip)` |
| WorkQueue | not in the sources here (client-go `workqueue`) | rate-limited queue between informer handlers and workers |
| Cluster controller | `globalscheduler/controllers/cluster/cluster_controller.go` | reconciler for cluster objects: queues an item per create, update and delete event and performs it (`perform` is the place of the gRPC request to the resource collector; in this version it logs) |
| Dispatcher process | `globalscheduler/controllers/dispatcher/dispatcher_process.go` | fan-out: watches bound and deleted pods of its clusters and creates or deletes instances at the cluster's API |
| Listers | `.../listers/coordination/v1/lease.go`, `.../listers/dispatcher/v1/dispatcher.go`, `.../listers/apiextensions/v1beta1/customresourcedefinition.go` | generated readers of an informer's indexer: `List` by selector, `Get` by name, for all objects or for those of one tenant and namespace |
| Fake clients, deep copies | `.../fake/fake_*.go`, `.../distributor/v1/zz_generated.deepcopy.go` | generated test doubles of typed clients, and copy functions |
| Custom resource strategy | `staging/src/k8s.io/apiextensions-apiserver/pkg/registry/customresource/strategy.go` | create/update preparation of custom resources (status reset, generation bump) |
| Scheduling client | `staging/src/k8s.io/client-go/kubernetes/typed/scheduling/v1/scheduling_client.go` | `SchedulingV1Client`: one REST client per API server, replaced by a goroutine when the membership of API servers changes |

How the parts interact. The informers watch the API server and call event
handlers; the handlers of the controllers put work items in their queues;
worker goroutines take items and run `syncHandler`, which reads the informers'
listers, talks to the ring and the API server and starts or stops processes.
Inside a scheduler process the collector's cache is called concurrently by the
site informer (`AddSite`, `UpdateSite`, `RemoveSite`), the stack informer
(`AddStack`, `UpdateStack`, `RemoveStack`), the resource collector
(`Update...`), the scheduling cycle (`UpdateSnapshot`, `AssumeStack`,
`ForgetStack`, `FinishBinding`) and the cache's own expiry goroutine
(`cleanupAssumedStacks`).

### Inventory

**SiteCache.** State: `siteCacheInfos` (site ID -> list item), the doubly
linked list through `next`/`prev` with `headSiteCacheInfo`, `assumedStacks`,
`stackStates` (stack, deadline, bindingFinished), `regionToSite`, `siteTree`,
the package-wide generation counter, and the caller's `Snapshot`. Operations:
the six stack methods, the three site methods, eight resource updates, the
readers (`Dump`, `GetStack`, `IsAssumedStack`, `GetRegions`, `List`,
`FilteredList`, `PrintString`), `UpdateSnapshot` and the expiry run. What makes
it hard: the snapshot protocol copies only the list prefix that is newer than
the snapshot, so it is right only if every update both stamps and moves its
item; stacks and sites are reported by independent informers, so a stack event
can name a site that is not there yet or no longer there; the timer races the
confirmation of a binding. What it must guarantee: the list and the map are one
structure; the list is ordered by generation; a snapshot is a point-in-time
copy of every site; a stack is counted on at most one site; every assumed key
has a state; every method returns.

**Scheduler controller.** State: the ring, the work queue, what each worker is
doing, the listers' view and the objects in the API server (schedulers with
status and cluster list, clusters with home scheduler), the scheduler
processes. Operations: five event handlers, `processNextWorkItem`, the four
branches of `syncHandler`. Hard: two workers act on the same objects with reads
and writes that are separate API calls; the lister lags behind the API server,
and for a delete event it no longer has the object; a sync that fails is only
logged; an update can fail between the two writes of one branch. Must
guarantee: at quiescence every cluster's home scheduler is what the ring says;
a scheduler process is started and stopped once; a cluster is listed by its
home scheduler only.

**Cluster controller.** State: work queue of `KeyWithEventType` values, the
lister, what each worker holds, `stopCh`. Operations: three event handlers,
`Enqueue`, `processNextWorkItem`, `syncHandler`, `perform`, `Run`. Hard:
handlers, timers and several workers use one de-duplicating queue; `Done` and
`Forget` are called with the string key and not with the item; an item is
re-queued both by `syncHandler` and by `processNextWorkItem`; workers that wait
in `Get` end only through `ShutDown`. Must guarantee: an item is held by one
worker at a time; every event is handed to a worker; an item leaves the
queue's processing set; the workers end when `stopCh` is closed.

**Dispatcher process.** State: the pod queue and the reset channel, the token
cache, the owned clusters. Operations: `NewProcess`, `Run`, the two pod
watchers, `SendPodToCluster`, `getToken`. Hard: the channels are closed by
deferred calls of the constructor; the token map is never made; the watchers
are restarted on an update while pods are in the channel. Must guarantee: every
bound pod is sent to its cluster once; a deleted pod is deleted there.

**Listers.** State: none of their own; they read the indexer their
informer writes. Operations: `List` and `Get` of the lister and of the lister
for one tenant and namespace, the constructors with and without tenant. Hard:
`Get` writes the key of the object a second time, with the rule that the
tenant `system` leaves no trace in it; the informer's key function has its
own copy of that rule. Must guarantee: `Get` finds what `List` lists; one
tenant's objects never answer for another's.

**Fake clients, deep copies.** No state of their own: a fake hands an action
to the tracker of client-go's `testing` package, a deep copy returns its
argument's value.

**Custom resource strategy.** State: none of its own but the `status` and
`scale` it was made with; it is applied by the generic registry to every
create and update of a custom resource. Operations: `PrepareForCreate`,
`PrepareForUpdate`, `copyNonMetadata`, validation, `GetAttrs`, which gives
the fields a watch may select by. Hard: clients
send whole objects they read some time ago, with whatever status and
generation their copy has; the status is to be written through its own
endpoint only, and the generation is to count the changes of the rest. Must
guarantee: the stored status is never one the main endpoint was sent; the
generation goes up exactly when something outside the metadata changes.

**Scheduling client.** State: `configs`, `restClients`, the goroutine of
`run()`, the channel `member.Read` and the watcher that counts `NotifyDone`.
Operations: `NewForConfig`, `NewForConfigOrDie`, `New`, `setConfigDefaults`,
`run`, `RESTClient`, `RESTClients`. Hard: the goroutine replaces
`c.restClients` while any goroutine reads it without a lock, and `RESTClient`
reads it twice; whoever sent the update waits for `NotifyDone`. Must
guarantee: after `NotifyDone` the clients are those of the new membership;
every update is answered; `RESTClient` returns a client of the list.

## 2. Plan

Order: the most intricate state first.

1. `CollectorCache` (done): the whole cache, with the site tree and
   `SiteCacheInfo` from the specification.
2. `SchedulerController` (done, section 4): API server objects with resource
   versions, informers that lag, the FIFO work queue with pointer items,
   workers whose `syncHandler` branches are split at every API call, the ring
   as a ranking of schedulers per cluster address; `Run` with its wait for
   the scheduler informer, `stopCh` and the shutdown of the queue; a restart
   of the process (the ring is lost, the informers list everything again);
   a watch that breaks and the new list that follows it, with a
   `DeletedFinalStateUnknown` for what was deleted meanwhile.
3. `ClusterController` (done, section 5) with the work queue's
   de-duplicating contract (dirty, processing, queue, timers, shutdown) as
   operators on a queue record. The queue is not a module of its own: the
   scheduler controller's queue never merges items, so the two controllers
   would share nothing but a sequence.
4. `DispatcherProcess` (done as far as the code runs, section 7): the
   life of the two channels from `NewProcess` to the first send. The token
   cache and the restart of the watchers are behind a statement that
   panics in every execution.
5. `CustomResourceStrategy` (done, section 6): `PrepareForCreate` and
   `PrepareForUpdate` as operators, applied by a storage that two clients
   write and watches select from, `GetAttrs` included.
   The two controllers share the cluster objects of the store but only the
   scheduler controller writes them, and only the home scheduler. They are
   not composed in one module: to the cluster controller such a write is an
   update that leaves `State` as it is, which `UpdateCluster` of
   `ClusterController` is for every cluster at every moment, and the
   scheduler controller reads nothing the cluster controller writes.
6. `StackAccounting` (done, section 3): the life cycle of a stack as the
   specification's design notes give it, which `CollectorCache` implements.
   An abstract list of site IDs with move-to-front and remove, under the
   mapping `order <- MRU(Cur)`, was considered and left out: a method may
   move two items in one call (`UpdateStack`), so its steps would be any
   two moves, and what such a specification still forbids (a lost item, a
   changed order of the others) is what `ListMatchesMap` and
   `MRUByGeneration` check in every state.
7. `SchedulingClient` (done, section 8): the typed client that follows the
   membership of API servers, with its readers.
8. `Listers` (done, section 9): the three generated listers over the
   indexers of one informer each, checked against what their interfaces
   promise.

## 3. Module `CollectorCache`

`cache.go`, 855 lines. Every exported method takes `cache.mu` for its whole
body, so each method is one atomic action. A method that returns an error
before it changed anything is the disjunct `Rejected` of its action.

| Code | Model |
|---|---|
| `siteCacheInfos`, `headSiteCacheInfo`, item `next`/`prev` | `siteCacheInfos` (function from site ID to `[info, next, prev]`), `headSiteCacheInfo`; pointers are site IDs or `NULL` |
| `nextGeneration()` | `generation`, bounded by `MaxGeneration` |
| `assumedStacks`, `stackStates` | the same names; a stack is its key and the ID of the site it selected |
| `regionToSite` | `regionToSite`, a region without an entry is the empty set |
| `siteTree` | `siteTree = [zones, sites]`; `TreeOrder` is one full round of `next()` |
| the `*Snapshot` argument of `UpdateSnapshot` | `snapshot` (one scheduling cycle owns one snapshot) |
| `time.Now()` | `now`, advanced by `Tick`, bounded by `MaxTime` |
| `cache.mu`, the process | `proc`: `"running"`, `"deadlocked"` (a method waits for the mutex its caller holds), `"panicked"` |
| `moveSiteCacheInfoToHead`, `removeSiteCacheInfoFromList` | operators of the same names, pointer assignment by pointer assignment |
| `addStack`, `removeStack`, `updateStack`, `expireStack` | operators of the same names on `[items, head, gen]` |
| `AssumeStack`, `ForgetStack`, `AddStack`, `UpdateStack`, `RemoveStack` | actions of the same names; `AddStack` is the disjunction of its three `switch` cases and the error |
| `AddSite`, `UpdateSite`, `RemoveSite` | actions of the same names |
| `UpdateEipPool`, `UpdateVolumePool` (with `UpdateSiteWith...Pool`) | `UpdatePool(region)`: every cached site of the region index is stamped and moved, in any order |
| `UpdateSiteWithResInfo`, `UpdateQos` | `UpdateSiteInfo(id)` |
| `UpdateSiteWithRatio`, `UpdateSpotResources` | `UpdateZoneInfo(region, az)`: the first match of a map range in any order |
| `GetRegions`, `PrintString` | actions that change nothing or panic |
| `UpdateSnapshot` | `UpdateSnapshot` (returns nil) and `UpdateSnapshotInconsistent` (returns the error after rebuilding the list) |
| `run`, `cleanupExpiredAssumedStacks`, `cleanupAssumedStacks` | `cleanupAssumedStacks` |
| `Dump`, `GetStack`, `IsAssumedStack`, `List`/`FilteredList` | state functions of the same names |

Data abstraction. Resource quantities, pools, QoS, ratios and flavors are not
modelled: the cache never looks at them, it passes them to `SiteCacheInfo` and
moves the item. What is kept of an info is its site, the stacks counted on it
(a bag, since `SiteCacheInfo` does not refuse a stack twice) and its
generation.

Assumptions about code that is not in the sources, taken from the
specification:

- every mutating method of `SiteCacheInfo`, `SetSite` included, sets its
  generation to the next value of a global counter; `NewSiteCacheInfo` too;
- `SiteCacheInfo.RemoveStack` returns an error for a stack the info does not
  have;
- `siteTree.removeSite` returns an error for a site that is not in the tree,
  and also for a nil site (the code would more likely panic; the model takes
  the outcome that lets the cache go on);
- `FinishBinding` exists and sets `bindingFinished` and
  `deadline = now + ttl` of an assumed stack. `cache.go` has no method that
  sets either field, so without it `cleanupAssumedStacks` expires nothing.

Two next-state relations:

- `Spec` composes the cache with its callers: `Scheduler` (snapshot; assume
  on a site of its snapshot; forget and finish binding for the stack it
  assumed), `StackInformer` (add with any site; update with the stack it
  delivered last as the old object; remove), `SiteInformer` (add for a site
  not announced, update with the announced site as the old object, remove for
  an announced site), `Collector` (resource updates and readers), the expiry
  timer and the clock. The callers are concurrent, so any interleaving of
  their calls is possible, including a stack event before the add event of its
  site and an assume on a site that was removed after the snapshot.
- `SpecAnyCaller` calls every method with any argument in any order. The
  structural invariants are checked here, where the error paths that only
  misuse reaches are taken as well (`RemoveSite` of a site the tree does not
  have).

### What the cache promises: `StackAccounting`

The design notes of the specification describe the life of a stack as a state
machine with an orthogonal `bindingFinished` flag. `StackAccounting` is that
machine and nothing else: for every key a `phase` (`Absent`, `Assumed`,
`Bound`, `Added`) and `countedOn`, the set of sites whose resources account
for the stack. Its actions are the transitions the cache's interface allows:

| Abstract action | Phase | `countedOn` | Cache methods that take it |
|---|---|---|---|
| `Assume(key, site)` | `Absent` to `Assumed` | `{site}` | `AssumeStack` |
| `FinishBinding(key)` | `Assumed` to `Bound` | unchanged | `FinishBinding` |
| `Forget(key)` | `Assumed` or `Bound` to `Absent` | `{}` | `ForgetStack` |
| `Confirm(key)` | `Assumed` or `Bound` to `Added` | unchanged | `AddStack` of an assumed stack on its site |
| `AddFresh(key, site)` | `Absent` to `Added` | `{site}` | `AddStack` of an expired or unknown stack |
| `Update(key, site)` | `Added` | `{site}` | `UpdateStack` |
| `Remove(key)` | `Added` to `Absent` | `{}` | `RemoveStack` |
| `Expire` | some `Bound` keys to `Absent` | `{}` for each | `cleanupAssumedStacks` |
| `DropSite(site)` | unchanged | without `site`, for every key | `RemoveSite` |
| `Stop` | unchanged | may shrink | a method that never returns |

`CollectorCache` instantiates it with the refinement mapping

    phase     <- PhaseOf     (from assumedStacks and stackStates)
    countedOn <- CountedOn   (the cached sites whose bag holds the key)
    serving   <- Running

and `ImplementsAccounting == Accounting!Spec` is checked as a property of run
`cache_callers`: every step of every method, with the callers interleaved, is
one of the transitions above or changes nothing the abstraction sees. What TLC
had to be told while the mapping was found, and what the abstract module
therefore says openly:

- `Update` has no condition on `countedOn`: after `RemoveSite` an added stack
  is counted nowhere, and `UpdateStack` counts it again (its `removeStack`
  on a site the cache does not have is not an error);
- `Stop`: `AddStack` of a stack assumed on another site takes the stack off
  that site and then waits for the mutex it holds; the promise is made for as
  long as the cache serves calls;
- the refinement holds with the callers of `Spec` only. With any caller
  (`SpecAnyCaller`) `ForgetStack` may be given a stack object that names
  another site than the assumed one, and then forgets the key while its count
  stays.

The abstract `Next` begins with the disjunct `UNCHANGED vars`: most steps of
the cache (resource updates, snapshots, site updates) are stuttering steps of
the abstraction, and TLC decides them there.

## 4. Module `SchedulerController`

`scheduler_controller.go` (445 lines) and the scheduler client. The
controller's goroutines are the two informers and `threadiness` workers; they
share the work queue, the ring, the informers' indexers and, through the API
server, the objects.

| Code | Model |
|---|---|
| the API server: Scheduler and Cluster objects, `resourceVersion` | `apiserver[kind][name]`, `revision`; an object is `[name, status, clusters, rv]` or `[name, home, rv]` |
| the watch connections of the informers | `watch[kind]`, the events not handled yet, in the order of the writes |
| `schedulerInformer`, `clusterInformer` (listers) | `informer[kind]`, changed by `Handle` before the handler is called |
| `addScheduler`, `updateScheduler`, `deleteScheduler`, `addClusterToScheduler`, `deleteClusterFromScheduler`, `enqueue` | operators of the same names; the informer actions `SchedulerAdded`, ..., `ClusterDeleted` call them; `ClusterModified` has no handler (commented out at line 121) |
| `workqueue` | a sequence of `[EventType, Value]`; `AddRateLimited` of a new pointer is an append |
| `consistentHash` | the set of members; `Lookup` ranks them per cluster |
| `runCommand` of `start_scheduler.sh` and `close_scheduler.sh` | `processes[tag]`: `"none"`, `"running"`, `"closed"`; a script may fail |
| a worker in `processNextWorkItem` | `workers[w] = [pc, item, scheduler, cluster, home, todo]`: the item taken, the copies and names `syncHandler` holds in local variables |
| `workqueue.Get()` | `Get(w)`: the worker takes the oldest item and is at `"sync"`; `Exit(w)`: the queue is shut down and empty, `runWorker` ends |
| `Run`: `WaitForCacheSync(stopCh, sc.schedulerSynced)`, the loop of `go wait.Until(sc.runWorker, ...)` | `run = [phase, unsynced, faults]`; `StartWorkers` when the scheduler informer has handled the events of its first list (`unsynced = 0`); no worker takes an item before |
| `<-stopCh`, `defer sc.workqueue.ShutDown()` | `Stop`: from `"working"` to `"draining"`, from `"syncing"` to `"returned"` (the error return of line 142); `ShutDown` holds in both, `enqueue` then drops what it is given and the workers empty the queue |
| `NewSchedulerController` | `Init`, and `Started` for the process after a restart: empty ring, empty queue, empty listers, idle workers |
| the process ends and is started again | `Restart`: `Started`, with `InitialList(kind)` in each watch (one `Added` for every stored object); the store and the scheduler processes stay |
| the watch of an informer breaks | `Relist(kind)`: the events not yet handled are lost and `watch[kind]` becomes `Replaced(kind)`, what the new list and the indexer differ in |
| `deleteScheduler`: `DeletionHandlingMetaNamespaceKeyFunc` | `SchedulerDeleted` takes a `"Deleted"` and a `"DeletedFinalStateUnknown"` event alike |
| `deleteClusterFromScheduler`: `clusterObj.(*clustercrdv1.Cluster)` | `ClusterDeleted` for a `"Deleted"` event; `ClusterDeletedUnknown` for a `"DeletedFinalStateUnknown"`: the assertion panics, `run.phase = "panicked"`, and no goroutine of the process takes another step (`Alive`) until `Recover` starts the process again |
| `syncHandler`, `switch key.EventType` | `Syncs(w, eventType)`, the guard of the first step of every branch |
| case `EventTypeCreateScheduler` | `CreateScheduler` (lister, `consistentHash.Add`), `StartScheduler` (script), `ActivateScheduler` (Update) |
| case `EventTypeAddCluster` | `AddCluster` (lister, `consistentHash.Get`), `SetHomeScheduler` (Update of the cluster), `GetHomeScheduler` (Get), `AppendCluster` (Update of the scheduler) |
| case `EventTypeDeleteCluster` | `DeleteCluster`, `GetOwner`, `RemoveCluster` |
| case `EventTypeDeleteScheduler` | `DeleteScheduler` (lister, `consistentHash.Remove`, first lookup of the loop), `RehomeCluster` (one Update of the loop and the next lookup, `Reassign`), `CloseScheduler` |
| no case for `EventTypeUpdateScheduler` | `UpdateScheduler` |
| `return err`, `return nil`, `defer Done`, `Forget` | `Return(w)`: the worker is idle again; an error is only logged, so both returns are the same step |

Granularity. A worker's step is one call that leaves the process together
with the code up to the next such call. Taking an item is a step of its
own, so two workers that hold items reach the lister and the ring in either
order; within a branch the read of the lister and the call of the ring that
follows it are one step (the ring's call is decided by what the lister
answered, and nothing the worker does in between is seen by another
goroutine). The handler of
an informer runs in the same step as the change of the indexer: a handler
only appends to the queue, and a later append is the same as a later `Get`.

Data abstraction. A scheduler's tag is its name, a cluster's address is fixed
by its name, the union of a scheduler is left out (it is computed from the
list in the same Update). Events recorded for `kubectl describe` are left
out.

Assumptions about code that is not in the sources:

- the store gives every write the next value of one resource version and
  refuses an Update whose object does not carry the stored version; it keeps
  the `metadata` of the cluster objects embedded in a scheduler's list as
  they were written;
- an informer takes a deleted object out of its indexer before it calls the
  delete handler, and handles the events of its kind in order; the two
  informers are independent of each other;
- the work queue is first-in first-out and compares items as Go compares
  interface values, so two pointers are two items;
- the ring's `Add`, `Remove` and `Get` are atomic, `Get` fails only on an
  empty ring, and removing a member changes the answer only for the keys it
  had;
- `union.RemoveCluster` removes by name;
- `WaitForCacheSync` returns true once the scheduler informer has called the
  add handler for every object of its first list, and false when `stopCh` is
  closed before; the cluster informer is not waited for (`Run` names only
  `schedulerSynced`);
- `wait.Until` ends a worker whose `runWorker` has returned once `stopCh` is
  closed. A worker that `Run` started and that has not reached `Get` when
  `stopCh` is closed returns without taking an item; the module does not
  tell it from a worker in `Get` that takes no further step, which every
  behaviour of `Spec` allows;
- a scheduler process outlives the controller that started it (the scripts
  are not part of the sources);
- after a broken watch an informer lists the store and hands over, in the
  order of the names, an update for every listed object its indexer has (the
  handler of the scheduler informer drops it when the resource version is
  the same), an add for every listed object it has not, and then a
  `DeletedFinalStateUnknown` with the last object seen for everything else
  in its indexer. The module takes the case where every event not yet
  handled was still on the wire and is lost; an informer that is still
  taking its first list does not list again;
- a panic in a handler ends the process (the informer calls the handlers in
  a goroutine whose crash handler logs the panic and panics again), and the
  process is started again as after any other end;
- the users create objects with status `Pending`, an empty list and no home,
  and may delete an object and create it again under the same name.

## 5. Module `ClusterController`

`cluster_controller.go`, 299 lines. The goroutines are the informer of the
Cluster resource, the workers `Run` starts, the timers of the queue and `Run`
itself, which waits for `stopCh`. They share the work queue and the
informer's indexer. The controller writes nothing to the store.

| Code | Model |
|---|---|
| the Cluster objects of the store | `apiserver`: name to `State` (the one field besides the name `determineEventType` reads) |
| the watch of the informer | `watch`, the events not handled yet |
| the watch breaks | `Relist`: the events not yet handled are lost, `watch` becomes one of `Replaced`, what the new list and the indexer differ in, with a `"DeletedFinalStateUnknown"` for a cluster that is gone |
| `clusterlister` | `informer`, changed in the step that calls the handler |
| `EventType`, `KeyWithEventType` | `EventTypes` (0, 1, 2), records `[EventType, Key]` |
| `workqueue` | a record `[queue, dirty, processing, waiting, failures, shuttingDown]`; `Add`, `Done`, `AddRateLimited`, `Forget`, `ShutDown` are operators from queue to queue, `Get` and `AddAfter` (a timer fires) are steps |
| `addCluster`, `updateCluster`, `deleteCluster`, `Enqueue`, `determineEventType`, `getclusterInfo` | operators of the same names, taken by `Informer`; `updateCluster` has the two outcomes `ClusterUpdateYes` and `ClusterUpdateNo`; `deleteCluster` takes both kinds of deletion, as `controller.KeyFunc` has a key for both |
| `runWorker`, `processNextWorkItem` | `runWorker(w) == Get(w) \/ processNextWorkItem(w)`: the call of `Get`, which may wait, and everything after it |
| `syncHandler`, `perform` | operators: the queue as `syncHandler` leaves it and whether it returns an error |
| `defer c.workqueue.Done(key)`, `c.workqueue.Forget(key)` | `Release(q, item)`, which passes `item.Key` as the code does |
| `Run`: `<-stopCh`, `defer c.workqueue.ShutDown()` | `Run`; afterwards a worker that finds the queue empty leaves (`pc = "exited"`) |

Granularity. After `Get` a worker calls nothing that leaves the process: the
lister is memory and `perform` logs. So the rest of `processNextWorkItem` is
one step; the other goroutines can only add to the queue meanwhile, and the
queue's lock orders their calls with the worker's.

The key and the item. Items are Go values of a struct type, so the queue
compares them field by field; a key string is equal to no item. In the model
a key is a model value and an item a record, which TLC compares the same way:
`Done(q, item.Key)` takes nothing out of `processing` and finds nothing in
`dirty`.

Assumptions about code that is not in the sources (client-go), from the
specification's section on the work queue:

- `Add` drops an item that is in `dirty`, marks an item that is in
  `processing` dirty without queuing it, and is a no-op after `ShutDown`;
- `Get` takes the head, moves it to `processing` and out of `dirty`; at an
  empty queue it waits, and answers `shutdown` once the queue is shut down;
- `Done` takes the item out of `processing` and queues it if it is dirty;
- `AddRateLimited` is an `Add` after a delay: the item waits in `waiting`
  until its timer fires, at any later time; the length of the delay and the
  number of failures are left out, `failures` is the set of items that have
  any;
- the informer takes a deleted object out of its indexer before it calls the
  delete handler, and stops handing events over when `stopCh` is closed;
- after a broken watch the informer lists the store and hands over an update
  for every listed cluster its indexer has, an add for every listed cluster
  it has not, and after them a `DeletedFinalStateUnknown` for every other
  cluster of its indexer, each group in any order. The module takes the case
  where every event not yet handled is lost.

Left out: `Run` before its workers exist (the failure of `WaitForCacheSync`
makes `Run` return and shut the queue down with no worker started); the one
second `wait.Until` waits before it calls `runWorker` again, which never
happens, since `runWorker` returns only after `ShutDown`; the errors of
`KeyFunc`, of a nil cluster and of an empty name, and the `default` cases of
the two `switch` statements, which no object of the store and no item of
`Enqueue` reaches (`syncHandler`'s test for a negative event type is in the
model and never true).

## 6. Module `CustomResourceStrategy`

`strategy.go`, 255 lines. Schedulers, clusters and dispatchers are custom
resources, so every write of a user or of a controller is prepared by this
strategy before it is stored.

| Code | Model |
|---|---|
| the content of an `unstructured.Unstructured` | a function from the top-level keys to values: `metadata` and `spec` always, `status` when the object has one. `spec` stands for every key but `metadata` and `status` |
| `metadata` | a record of `labels` (what a client may change without a new generation), `generation`, `resourceVersion` |
| the feature gate `CustomResourceSubresources` and `a.status != nil` | `strategy.status`, chosen in `Init` and constant afterwards |
| `namespaceScoped`, `tenantScoped` | fields of `strategy`, taken from `Scopes` in `Init` |
| `PrepareForCreate` | `PrepareForCreate(obj)`: without `status` when the endpoint is installed, generation 1 |
| the `switch` of `PrepareForUpdate` | `KeepStatus(obj, old)` |
| `PrepareForUpdate` | `PrepareForUpdate(obj, old)`: `KeepStatus`, then the comparison of `copyNonMetadata` of both and the generation of `old` plus one |
| `copyNonMetadata` | `copyNonMetadata(original)`: the function without its key `metadata` |
| `AllowCreateOnUpdate`, `AllowUnconditionalUpdate` | constants `FALSE`, guards of `Update` |
| `Validate`, `ValidateUpdate` | the set of errors: the spec of the object when the validators reject it (`InvalidSpecs`); guards of `Create` and `Update`, after the preparation as in the registry |
| `Canonicalize` | `Canonicalize(obj)`, the object as it is (the method is empty) |
| a status, `map[string]interface{}` | a function from keys (`phase`, `scheduler_name`, `dispatcher_name`, `cluster_names`, ...) to strings and lists of strings |
| `objectMetaFieldsSet` | `objectMetaFieldsSet(objectMeta, namespaceScoped, tenantScoped)`: four, three or two fields by scope |
| `GetAttrs` | `GetAttrs(obj)`: the labels, and the fields of the metadata with `status.phase`, `status.distributor_name`, `status.scheduler_name`, `status.dispatcher_name` for the keys the status has (`Field`) and `status.cluster_name` for the first of `cluster_names` (`ClusterName`) |
| `MatchCustomResourceDefinitionStorage` | the predicate `[Label, Field]`; `Matches(predicate, obj)` and `WatchEvent(predicate, old, new)` are the storage's use of it |

The storage is not in the sources; it is modelled from the contract of the
generic registry. It holds one object and a resource version. `Create(c, obj)`
stores `PrepareForCreate(obj)`; `Get(c)` gives the client a copy; `Update(c,
draft)` is accepted when the client's copy has the stored resource version
(no unconditional update), gives the draft the generation of the stored
object, as the registry does before it calls the strategy, and stores
`PrepareForUpdate` of it; `UpdateStatus(c, status)` is the status endpoint
(the stored object with the status of the request); `Delete(c)` removes the
object. A draft is any object: the client may send any spec, labels, status
and generation. A request the validators reject changes nothing.

A watch is a predicate: a label selector (a set of accepted label values)
and a field selector (a function from field names to the values asked for; a
field the object has not counts as the empty string, as in `fields.Set.Get`).
The storage sends a watch `ADDED` when a write makes the object match,
`DELETED` when it stops matching, `MODIFIED` when it matches before and
after. Watches have no state in the module: what a watch is sent is a
function of the stored object before and after a step, and the property
about it is an action property.

`reported` is a history variable: the status the status endpoint wrote last
for the object now stored. No action reads it.

Left out: what the validators check (they are not in the sources; a
validator that looked at the status would see it after `PrepareForCreate`
has removed it), values of the status that are not strings (`%v` prints
them), a status that is not a map (`GetAttrs` then adds no field), and the
getters `NamespaceScoped` and `TenantScoped`.

## 7. Module `DispatcherProcess`

`dispatcher_process.go`, 252 lines, of which the module models `NewProcess`,
`convertClustersToMap`, the goroutine `NewProcess` starts, and `Run` up to
the first statement of `initPodInformer`.

| Code | Model |
|---|---|
| `podQueue`, `resetCh` | records `[closed]`, `NULL` before `NewProcess`; nothing is ever in a channel, see below |
| `quit` | `quit`, `TRUE` when the caller has closed it |
| `dispatcher.Spec.Cluster` | a sequence of entries, each the parts `strings.Split(cluster, "&")` gives: one part or two |
| `convertClustersToMap` | `convertClustersToMap(clusters)`: `clusterIdList` as long as the input and filled with `""` (the loop writes the IDs into the input), `clusterIpMap` with the address of the last well-formed entry of every ID |
| `NewProcess` | `NewProcess(clusters)`: one step that makes both channels, starts the goroutine and, by the two `defer close(...)`, closes both channels as it returns |
| `klog.Fatal` at lines 55, 60, 67 | `NewProcessFatal`: a client set cannot be made or the store has no such dispatcher; `process = "exited"` and no `Process` exists |
| `case <-quit: resetCh <- struct{}{}` | `Quit` |
| `Run`, its call of `addBoundedPodsToQueue` (line 127), to `initPodInformer`, line 134 | `Run` |
| `resetCh <- struct{}{}` | `SendReset(goroutine)` with `Send(ch)`: a send on a closed channel panics; a send on an open channel without buffer and without receiver waits |
| a panic in a goroutine | `process = "panicked"`; no action is enabled afterwards |

`Run` builds the dispatcher informer and its handlers first (lines 96-125);
the informer is started at line 129, after line 127 has called
`addBoundedPodsToQueue`. Nothing of lines 96-125 changes state another
statement reads before line 134, so they are left out and `Run` is the one
step from line 127 to line 134.

Not reached, and so not modelled: the pod handlers (lines 150-160, 166-182),
`SendPodToCluster`, `getToken`, the update and delete handlers of the
dispatcher informer. Section 10 says why.

## 8. Module `SchedulingClient`

`scheduling_client.go`, 159 lines: the client of the `scheduling.k8s.io`
group in a deployment with several API servers. The goroutines are the one
`run()` starts, the callers of `RESTClient` and `RESTClients`, and the
sender of membership updates.

| Code | Model |
|---|---|
| `c.configs.GetAllConfigs()` | `configs`: a sequence of `[host, defaulted]`; `NULL` for a client made by `New` |
| `c.restClients` | `restClients`: a sequence of clients, a client being the host it talks to |
| `setConfigDefaults` | `setConfigDefaults(cfgs)`: every config is marked `defaulted` |
| `rest.RESTClientFor` | `RESTClientFor(config)`: an error for a config without defaults or for a host of `BadServers` |
| lines 55-62 and 145-153, `make` and the loop | `NewClients(cfgs)`, `Failed(clients)` |
| `NewForConfig`, `NewForConfigOrDie` | `NewForConfig(onError)`: `process` is `"running"` with the goroutine started, or `"failed"` (the error is returned) or `"panic"` (`OrDie`) |
| `New(c)` | `New(server)`: one client, no configs, no goroutine |
| `run()`: `WatchUpdate`, `AddWatcher` | `WatchUpdate`: the goroutine is registered with the sender and counted in `updateComplete.watchers` |
| `for range member.Read` and the loop body to line 153 | `Receive`: `Take`, which takes an update and builds the clients of the configs as they are now (`klog.Fatalf` when one fails), or `Leave` at a channel closed and empty |
| `c.restClients = clients` | `Install` |
| `NotifyDone()` | `NotifyDone`: `updateComplete.done` goes up |
| `RESTClient`: `len(c.restClients)`, `rand.Intn(max)` | `RESTClient(c)`: `nil` at once, or an index `ran` drawn below the length read |
| `return c.restClients[ran]` | `Index(c)`: the second read; a panic when the list is shorter by now |
| `RESTClients` | `RESTClients(c)` |

Environment, not in the sources: `UpdateMembership(m)` replaces the configs
and sends one value to the registered member; `CloseRead` closes the channel.
Two assumptions are made about it. An update reaches the members that
`WatchUpdate` has registered, so an update sent between `NewForConfig`'s
read of the configs (line 55) and the goroutine's registration (line 139)
is not in the model: it would leave the client with the old membership and
nobody to report to. And the sender waits for `NotifyDone` before the next
update, which is what `ClientSetsWatcher` is for; under it the two calls of
`GetAllConfigs` at lines 145 and 146 see one list. The new configs are used
as the sender left them: only `NewForConfig` passes configs through
`setConfigDefaults`, `run()` does not (lines 145-152). Nothing in the
sources says what the sender fills in, so `UpdateMembership` sends configs
with or without the defaults; for a config without them `RESTClientFor`
returns an error, as for a host that cannot be used, and the process ends
at `klog.Fatalf` (line 149).

The unlocked reads of `c.restClients` are a data race in Go. The module
takes each read as atomic (a slice header is read whole on the platforms the
code is built for) and lets the write fall between any two of them.

## 9. Module `Listers`

`lease.go`, `dispatcher.go` and `customresourcedefinition.go`: what the
lister generator makes of a kind that lives in a namespace of a tenant
(leases, dispatchers) and of a kind that lives in a tenant (custom resource
definitions). The module has one variable, `indexer`, with the indexer of
each kind as a function from keys to objects. A key is the sequence of the
parts of its string: `"t1/n1/a"` is `<<"t1", "n1", "a">>`. Names, namespaces
and tenants hold no `/` (the API server refuses them), so the sequence
stands for one string and one string only.

| Code | Model |
|---|---|
| an object's `Tenant`, `Namespace`, `Name`, `Labels` | a record `[tenant, namespace, name, label]`; the namespace of a custom resource definition is `""` |
| `labels.Selector` | the set of label values it accepts; `Everything` accepts all |
| `leaseLister.List`, `dispatcherLister.List`, `customResourceDefinitionLister.List` | `..._List(selector)`: `ListAll` of the kind's indexer, a set (the order of the slice is the order of a Go map) |
| `Leases(namespace)`, `LeasesWithMultiTenancy(namespace, tenant)`, and the same for the other two kinds | the lister value `[namespace, tenant]` or `[tenant]`, with `"system"` where the code writes it |
| `leaseNamespaceLister.List`, `dispatcherNamespaceLister.List` | `ListAllByNamespace` of the lister's tenant and namespace |
| `customResourceDefinitionTenantLister.List` | `ListAllByTenant` |
| `Get` of the three, lines 92-95, 91-94, 105-108 | `..._Get(s, name)`: `GetByKey` of the key the code writes, with two or three parts (one or two for a custom resource definition), and `NotFound` |
| `customResourceDefinitionLister.Get` | `customResourceDefinitionLister_Get(name)`: the key is the bare name |

From the specification and the comments of the interfaces, not from the
sources: the informer's side. `Add`, `Update` and `Delete` store and remove
an object under `MetaNamespaceKeyFunc`, "`tenant/namespace/name`, or
`namespace/name` when tenant is `system`" in the specification's words;
`ListAll`, `ListAllByTenant` and `ListAllByNamespace` give the objects of the
indexer, of a tenant and of a namespace of a tenant that the selector
accepts, as the interfaces' comments say of `List`.

What the constructors without tenant mean for their callers. `Leases(namespace)`
is the lister of the tenant `system` and of no other. The controllers have
listers of the same make: they split the key of an item with
`SplitMetaNamespaceKey` into namespace and name and call
`Clusters(namespace).Get(name)` (`cluster_controller.go:232`) and
`Schedulers(namespace).Get(name)` (`scheduler_controller.go:235`), so the
objects they find are those of `system`; the controllers' modules have one
tenant.

Not in the module: a tenant or a namespace that is the empty string. No
object has one, and what `ListAllByNamespace` makes of it is not in the
sources.

## 10. Runs

### The cache

Bounds. `MaxGeneration = 7` lets two sites be announced (2 generations each)
and three more stamps happen, or three sites be announced and one be touched;
`TTL = 1`, `MaxTime = 2` let a binding finish at time 0 and the stack be
unexpired at time 1 and expired at time 2. One availability zone and two
regions give two zones of the tree, so a site can change zone.

| Run | Model | Result | Shows |
|---|---|---|---|
| `cache_any_caller` | `SpecAnyCaller`, 3 sites, 1 stack, 1 region | pass | `TypeOK`; `ListMatchesMap`: list and map are one structure, with unlinking at head, middle and tail; `MRUByGeneration`: the list is ordered by generation; `AssumedHaveState`: the expiry run never meets an assumed key without state or a finished binding without deadline |
| `cache_callers` | `Spec`, 2 sites, 2 stacks, 2 regions | pass | `SnapshotFresh`: an info not newer than the snapshot's generation is in the snapshot as it is in the cache; `StackCountedOnce`; `IndexesMatchSites`: tree and region index hold the announced sites; `ImplementsAccounting`: the cache implements `StackAccounting` (section 3) |
| `cache_deleted_site` | `Spec` | violation | a removed site stays in the snapshot's map (`cache.go:226`) |

Seen in the model and not kept as runs of their own:

- `AddStack` of a stack that is assumed on another site never returns: it
  holds `cache.mu`, calls `removeStack` (whose error it only logs,
  `:397-399`) and then the exported `AddStack`, which locks `cache.mu`
  again (`cache.go:400`). In the module the process is then
  stuck (`AddStackElsewhere`), and with `cache_callers`' cfg the action
  property `[][\A key \in Stacks, id \in Sites : IsAssumed(key) /\
  AddStack(key, id) => key \notin assumedStacks' /\ BagIn(key,
  siteCacheInfos'[id].info.stacks)]_vars` fails in four steps: a site is
  announced, a snapshot taken, a stack assumed on the site, and the stack
  informer adds the stack for another site;
- `GetRegions`, `UpdateSiteWithRatio`, `UpdateSpotResources` and
  `PrintString` read `GetSite()` of every info and panic on an info that
  `addStack` made for a site not announced yet (`cache.go:347`, `:715`); in
  the module the process is then `"panicked"`, which `Spec` reaches after
  one stack event;
- after a site is removed and cached again, the stacks assumed on it are
  assumed but not counted (`cache.go:563`): `ForgetStack` and the expiry
  fail at `removeStack` for them every time, and their keys can never be
  assumed again. With `cache_callers`' cfg the invariant `Running => \A key
  \in assumedStacks : GetStack(key) \in Cached(Cur) => BagIn(key,
  siteCacheInfos[GetStack(key)].info.stacks)` fails in five steps:
  a stack is assumed on a site, the site is removed, and `AddSite` or a
  stack event that names the site caches it again. `StackCountedOnce` and `ImplementsAccounting`
  hold all the same: the stack is counted nowhere, which the abstract
  specification allows as `DropSite`.

Deadlock checking is off in all runs of the cache: a process that has panicked
or is stuck in the mutex has stopped, and once the clock has reached `MaxTime`
such a state has no successor.

Symmetry. Sites, stacks and regions are model values that the specification
only compares for equality, so the runs use the permutations of each set as
symmetry. The properties checked are invariants and action properties (the
refinement is one: `StackAccounting` has no fairness condition), for which
symmetry reduction is sound.

Fairness. No liveness property is checked for the cache yet; its `Spec` has
no fairness condition.

### The scheduler controller

Bounds. `MaxUserOps` bounds the creations and deletions of the users,
`MaxFaults` the stops and restarts of the controller and the broken watches
of its informers, `MaxEvents` the two together; every other counter (the resource version, the queue, the
watches) is bounded by them, since the controller writes only in answer to
an event of a user's write or of a list, and its own update events
write nothing. `controller` has `MaxUserOps = 4`, `MaxFaults = 1`,
`MaxEvents = 4`: four operations of the users with a controller that stays
up, or three and a stop, a restart or a broken watch at any point between
them and between any two steps of the workers. Three operations and a
restart reach: a process started and the controller gone before the status
is written, a cluster homed and listed and then listed again, a scheduler
deleted while the controller is away. Three operations and a broken watch
reach: the deletion of a scheduler or of a cluster lost and found by the
new list, the creation of one lost and found, a deletion and a second
creation lost together (the new list shows an update), the update event of
the controller's own write lost. The runs that look for one counterexample, and the
liveness run, have no faults. Four operations reach: a cluster
before and after a scheduler, a scheduler deleted and created again while
items of its first life are queued, a deletion that empties the ring with a
cluster on the list. The fifth operation (runs with one worker) adds a second
scheduler to that, so that the loop of `DeleteScheduler` finds a new home and
sends its Update. Two workers are the default `threadiness`. The ring prefers
`s1` for `c1` and `s2` for `c2`.

| Run | Model | Result | Shows |
|---|---|---|---|
| `controller` | 2 workers, 2 schedulers, 1 cluster, 4 events of which at most 1 stop, restart or broken watch | pass | `TypeOK` (with: no home is written from an empty ring); `NoLostClusterUpdate`: no Update of a scheduler drops a cluster another worker appended; `ActiveWasStarted` |
| `controller_quiesces` | `FairSpec`, 1 worker, 2 schedulers, 1 cluster, 5 operations, no faults | pass | `EventuallyQuiescent`: every event and item is worked off and the controller comes to rest |
| `controller_home_is_lookup` | as `controller`, no faults | violation | invariant 1 of the specification: a cluster seen while the ring is empty never gets a home, the failed item is dropped (`scheduler_controller.go:210`) |

Seen in the model and not kept as runs of their own:

- a deleted scheduler stays in the ring: `DeleteScheduler` asks the lister
  for the scheduler of its item (`:342`), the lister has dropped it with the
  delete event, and the branch returns at NotFound before `Remove`. With
  `controller`'s cfg the invariant `Quiescent => consistentHash \subseteq
  DOMAIN apiserver.scheduler` fails after a scheduler is created and
  deleted. The ring then gives clusters a home that does not exist;
- a scheduler of the store is missing from the ring: the scheduler is
  created, deleted and created again; one worker takes the
  `DeleteScheduler` item of the first life, another the `CreateScheduler`
  item of the second; the lister has the new object for both, and `Remove`
  comes after `Add`. With `controller`'s cfg the invariant `Quiescent =>
  DOMAIN apiserver.scheduler \subseteq consistentHash` fails in 14 steps.
  No cluster gets this scheduler as its home until the controller is
  started again;
- two workers hold items of the same event type and key at the same time
  (a scheduler created, deleted and created again gives two
  `CreateScheduler` items; the queue holds pointers, `:431`), against the
  comment at lines 71-75;
- the item of an old deletion closes the process of a scheduler created
  again under the same name: `DeleteScheduler` finds the new object in the
  lister, takes its name out of the ring and runs `close_scheduler.sh`, while
  the store goes on showing the scheduler as Active (`:342`). The cause, the
  lister read at the time the item is worked on, is the one of the first
  point;
- `AddCluster` reads the scheduler (`:288`), `CreateScheduler`'s Update lands,
  and the Update of the list (`:301`) is refused and dropped: the cluster has
  a home that does not list it. The cause, the dropped item, is the one of
  `controller_home_is_lookup`;
- two workers append two clusters to one scheduler's list, each from its
  own `Get` (`:288`, `:301`). With one cluster the `controller` run does not
  have this case, and with two clusters its bounds are out of reach (with
  four operations and no fault, more than 4 million states after five
  minutes). With two clusters,
  `MaxUserOps = 3`, `MaxEvents = 3` and `MaxFaults = 1` both workers are at
  the Update of line 301 for the same scheduler in 19 states, and
  `NoLostClusterUpdate` holds over the 155,783 states of that instance: the
  store refuses the second Update, whose item is then dropped as in
  `controller_home_is_lookup`;
- the ring keeps a scheduler whose start script failed. With `controller`'s
  cfg the invariant `Quiescent => \A s \in consistentHash : processes[s] #
  "none"` fails in 7 states: a scheduler is created, `CreateScheduler` adds
  it to the ring (`:246`), `start_scheduler.sh` fails (`:250`) and the
  branch returns. The ring then gives clusters a home that has no process;
  `ActiveWasStarted` says only that the store never shows it as Active;
- `start_scheduler.sh` runs for a scheduler whose process is running. The
  invariant `\A w \in Workers : At(w, "start") =>
  processes[workers[w].scheduler.name] # "running"` fails with
  `controller`'s cfg in 12 states: a scheduler is created and started, the
  controller is restarted, the first list brings the scheduler as an add
  event, and `CreateScheduler` does not look at its status (`:233`).
  Without a restart the same is reached in 15 states by a scheduler created,
  deleted and created again;
- a cluster is twice on its scheduler's list. The invariant that the
  names on a list are distinct fails in 24 states: a scheduler and a
  cluster are created, the cluster is homed and appended, the controller is
  restarted, and `AddCluster` for the add event of the first list appends
  it again (`:294`). Without a restart it takes a cluster deleted and
  created again (25 states), since `DeleteCluster` returns at NotFound
  (`:310`);
- the controller panics after a lost deletion of a cluster. With
  `controller`'s cfg the invariant `Alive` fails in six states: a cluster
  is created and deleted, the informer has handled the creation when its
  watch breaks, the new list lacks the cluster, and
  `deleteClusterFromScheduler` asserts that the `DeletedFinalStateUnknown`
  it is given is a `*Cluster` (`:389`). `deleteScheduler`, twenty lines
  below, takes the key of either. Started again, the controller has lost
  the deletion for good: the first list of the new process has no event
  for a cluster that is gone;
- `Run` does not wait for its workers, against its comment (lines
  128-131): after `Stop` the phase is `"draining"` with workers at any step
  of `syncHandler`, and they go on writing to the store. The events the
  informers handle from then on are dropped by the queue.

`RehomeCluster` has two outcomes in the module, as in the code; in every
behaviour of the model the store refuses the Update, because the cluster
object on the scheduler's list is the lister's object from before
`AddCluster` wrote the home (`:296`). So `DeleteScheduler` gives no cluster
its new home and never closes the process of a scheduler that has clusters,
where the specification has "for each cluster owned by this scheduler,
recompute home and persist it". With one worker, five operations and no
faults the action property `[][\A w \in Workers : At(w, "rehome") /\
~At(w, "rehome")' /\ Head(workers[w].todo).name \in DOMAIN apiserver.cluster
=> apiserver'.cluster[Head(workers[w].todo).name].home =
workers[w].home]_vars` fails in 27 states: a scheduler is created, deleted
and created again, with a second scheduler and a cluster beside it; the
cluster is homed and listed; the item of the deletion finds the scheduler in
the lister and takes it out of the ring, and the loop's first Update comes
back refused. `HomeIsLookup` fails in that state too; its run stops at a shorter
counterexample.

Deadlock checking is off: when the users have stopped and the controller has
worked off its items, nothing is enabled but an informer's resync, and
without a scheduler not even that. That state is the controller at rest, not
a deadlock.

Symmetry. The workers are interchangeable and the safety runs use their
permutations. Schedulers and clusters are not symmetric (the ring ranks
them). The liveness run uses no symmetry.

Fairness. `FairSpec` assumes weak fairness of the informers' steps, of
`StartWorkers` and of each worker's steps. The code justifies it: `Run` is
a goroutine that polls `schedulerSynced` and goes on when it holds; `Run` starts every worker with
`wait.Until(runWorker, ...)`, a worker loops on `processNextWorkItem`, every
step of a worker that is enabled stays enabled until the worker takes it (no
other goroutine changes a worker's program counter, and `Get` of a non-empty
queue by an idle worker can only be disabled by another worker taking the
item, in which case the item is being worked on). The assumption that every
store call and both scripts return is part of it; `cmd.Run()` has no timeout,
so a script that does not exit would hold its worker for ever. The
liveness run has no stop and no restart: after `Stop` the process is about
to end, and whether the workers empty the queue before it does is not
something `Run` waits for.

### The cluster controller

Bounds. Two clusters, two values of `State`, two workers, `MaxUserOps = 4`
writes of the users, which bounds the watch, the queue and the timers, and
`MaxRelists = 1` broken watch at any point (none in `cluster_stranded`,
whose counterexample needs none). One broken watch reaches: a creation, a
change of `State` or a deletion lost and found by the new list; a deletion
and a second creation lost together, which the new list shows as an update
or as nothing; two changes that cancel out; a new list that differs in
nothing. Four
writes reach: a cluster created, updated twice (an equal item added while the
first is held, and after it was released), updated without a change of
`State`, deleted and created again; events of two clusters in the hands of
two workers; `stopCh` closed with items queued, held and waiting for a timer.

| Run | Model | Result | Shows |
|---|---|---|---|
| `cluster` | `FairSpec`, 2 workers, 2 clusters, 2 states, 4 writes, 1 broken watch | pass | `TypeOK`; `OneWorkerPerItem`: no two workers hold equal items and no held item is in the queue; `ShutdownCompletes`: once `stopCh` is closed every worker leaves `runWorker`; `EveryChangeIsQueued`: whenever the lister's view of a cluster changes while the queue is open, by an event of the watch or by a new list after a broken one, the item of that change is queued or marked to be queued again |
| `cluster_stranded` | `Spec`, same bounds | violation | an item stays in the queue's processing set after its worker has returned; an equal item added later is marked dirty and never handed out (`cluster_controller.go:209`) |

What `cluster_stranded` shows, in its shortest form: a cluster is created and
deleted; a worker takes the Create item and returns, `Done(key)` releasing
nothing; a worker takes the Delete item, the lister no longer has the cluster,
`syncHandler` fails and `AddRateLimited` schedules the retry; the timer's
`Add` finds the item in `processing` and marks it dirty. Nothing is queued,
no timer is pending, every worker waits, and the item is dirty for good. The
same happens to the second update of any cluster. Two things follow that are
not properties of a run: the retry of a Delete item, which would fail at the
lister every time, is stopped by this very fault; and `perform` is never
called for a deletion (`:232`), where the specification takes NotFound as
success for a Delete.

Deadlock checking is off: after `ShutDown` the workers have exited and
nothing is left to do.

Fairness. `FairSpec` assumes weak fairness of each worker's steps and of
nothing else: whether and when `stopCh` is closed and when a timer fires is
left open. A worker is a goroutine in a loop. Weak fairness is enough for
`ShutdownCompletes`: after `ShutDown` a worker that holds an item can always
finish it, and a worker that waits can always take the head of the queue or,
at an empty queue, the answer `shutdown`; nothing is added to the queue any
more, so every `Get` shortens it. No symmetry is used, as the run checks a
liveness property.

### The custom resource strategy

Bounds. Two clients, two valid specs and one the validators reject, two
statuses (an object assigned to a scheduler; an object bound to two
clusters and given to a dispatcher), two values of the labels, three
scopes, and `MaxRevision = 4` writes the storage accepts. Both values of
`strategy.status` are initial states. The watches are the three label
selectors (everything, one value, the other) with six field selectors:
everything, a scheduler's (`status.phase=Assigned,status.scheduler_name=s1`),
a dispatcher's, a cluster's (`status.cluster_name=k1`), a namespace's, and
`status.phase=` with the empty value, which objects without a status match. Four writes reach: a create with a
status, an update by one client between the read and the update of the
other (refused), an update that changes the labels only, the status only,
the spec only or all of them, a status written by the endpoint and then an
update that carries the older status or none, a delete and a second create.

| Run | Model | Result | Shows |
|---|---|---|---|
| `strategy` | `Spec`, 2 clients, 3 specs, 2 statuses, 2 labels, 3 scopes, 18 watches, 4 writes | pass | `SelectionFollowsEndpoint`: with the status endpoint installed a created object is in no watch that asks for a value of the status, and an update of the main endpoint moves an object into or out of a watch only by its labels, whatever status the request carried; `TypeOK` (with: no update stores a status that is no status); `StatusIsReported`: with the status endpoint installed the stored status is the one the endpoint wrote last, whatever the creates and updates carried; `GenerationCountsChanges`: the generation starts at 1 and goes up by one with exactly the writes that change what is desired (the spec; without the endpoint the status too), whatever generation the clients sent |

What follows for the controllers: where the status endpoint is installed,
the Update by which the scheduler controller sets `Status` to Active
(`scheduler_controller.go:256`) succeeds and stores the old status. Where it
is not, that Update raises the generation of the scheduler.

Deadlock checking is off: after `MaxRevision` writes and a delete nothing
can be stored. No symmetry (it would save little at this size) and no
fairness: both properties are safety properties.

### The scheduling client

Bounds. Three API servers, of which one cannot be reached by a REST client;
two callers; `MaxUpdates = 2` membership updates. The first membership is
any non-empty list of servers, as are the later ones. Two updates reach: a
list that shrinks between the two reads of `RESTClient`, a list that grows
and shrinks again, an update whose clients cannot be built (a bad server,
or configs without the defaults), the channel closed with an update in it,
and two callers at different steps.

| Run | Model | Result | Shows |
|---|---|---|---|
| `scheduling_client` | `FairSpec`, 3 servers (1 bad), 2 callers, 2 updates | pass | `TypeOK` (with: `NotifyDone` is never reported more often than updates were sent); `AdoptedWhenAcknowledged`: whenever every update has been reported done, the installed clients are those of the current configs; `UpdateIsAcknowledged`: every update is reported done unless the process has ended |

Seen in the model and not kept as a run of its own: `RESTClient` panics.
The invariant `\A c \in Callers : callers[c].pc # "panic"` fails in 8
states: `NewForConfig` with two servers, `WatchUpdate`, an update to one
server, `Receive`, `RESTClient` reads the length 2 and draws the index 1,
`Install` puts the list of one client in place, and `Index` reads element 1
of it (`scheduling_client.go:123`). A panic in a goroutine without recover
ends the process.

Deadlock checking is off: a process that has failed, panicked or been ended
by `klog.Fatalf` has stopped, and after `MaxUpdates` updates and the close
of the channel the goroutine has ended.

Fairness. `FairSpec` assumes weak fairness of the goroutine of `run()` and
of nothing else: it is a goroutine in a `for range` loop whose steps, once
enabled, stay enabled until it takes them. Nothing is assumed of the
callers or of the sender. No symmetry is used: the run checks a liveness
property, and the order of the servers in a membership is fixed.

### The listers

Bounds. The tenant `system` and two others, so that keys without a tenant
and the keys of two tenants are stored side by side; two namespaces and two
names, so that `Get` has to tell both apart; two label values, so that a
selector accepts an object or not; `MaxObjects = 3` objects in the three
indexers together, enough for the same name under all three tenants. 34,281
states.

| Run | Model | Result | Shows |
|---|---|---|---|
| `listers` | `Spec`, 3 tenants, 2 namespaces, 2 names, 2 labels, 3 objects | pass | `TypeOK`: the indexers hold objects of their kind under keys of their kind; `GetFindsWhatListLists`: `Get(name)` of a lister is the object of that name its `List` lists, for every selector, and `NotFound` when there is none, so it never is an object of another tenant or namespace; for the lister of custom resource definitions itself, `Get` is the object of that name and of the tenant `system` its `List` lists |

Seen in the model and not kept as a run of its own: `Get` of
`customResourceDefinitionLister` does not find what its `List` lists. `List`
(`:51`) gives the definitions of every tenant, `Get` (`:60`) looks the bare
name up, which is the key of a definition of the tenant `system`: with one
definition `a` of the tenant `t1` in the indexer, `List` has it and
`Get("a")` is `NotFound`. The interface's comment, "retrieves the
CustomResourceDefinition from the index for a given name", leaves open
whose. The run checks what the code does: this `Get` agrees with the
definitions of the tenant `system` in its `List`.

That an informer's write changes `Get` only for the lister of the object's
own tenant and namespace follows from `GetFindsWhatListLists` (with the
selector `Everything` it makes `Get` a function of the stored objects of
that tenant, namespace and name), so it is not checked as a property of its
own.

Deadlock is checked: the informer can always add, change or delete an
object. No fairness is assumed and no liveness is claimed, a lister being a
function of the indexer. No symmetry: `system` is not like the other
tenants, and the sets are small.

### The dispatcher process

| Run | Model | Result | Shows |
|---|---|---|---|
| `dispatcher_starts` | `Spec`, dispatchers with up to 2 entries | violation | `ProcessKeepsRunning` (a process `NewProcess` has constructed is running): it panics at its first send on `resetCh`, which `NewProcess` closed before returning (`dispatcher_process.go:71`, `:134`) |

The counterexample is `NewProcess`, `Run`. A start-up that ends at
`klog.Fatal` constructs no process and is not what the property is about.
There is no other behaviour of a constructed process: after
`NewProcess` the two enabled steps are `Run`, which panics, and the closing
of `quit` followed by `Quit`, which panics. So no pod informer is ever
started, no pod reaches `podQueue`, and `SendPodToCluster` is never called.
That is why the module ends at line 134, and why it has no passing run: a
property of the states after it would be a property of code that does not
run. Were the channels open, `Run` would wait at the same statement for
ever, since `resetCh` has no buffer and its only receiver, the pod informer,
is started after the send (`Send(ch) = "wait"` in the module).

Two more faults are behind that statement and are recorded as hazards only:
`getToken` writes to `tokenMap`, which is never made (`:248`), and
`convertClustersToMap` returns a list of empty strings (`:224`, `:228`).

### Faults

Every property of a passing run has a fault in `PROJECT.json` ("mutants"): a
variant of a definition, written next to it in the module and marked `Fault`,
with which TLC finds the property violated.

## 11. Not modelled

- The data race of `PrintString` and of the exported, unlocked
  `UpdateSiteWithEipPool`/`UpdateSiteWithVolumePool` with the locked methods:
  methods are atomic here.
- Flavor tables of the snapshot (step 7 of `UpdateSnapshot`): read from an
  informer and stored, nothing depends on them.
- The generated fake clients (`fake_storagecluster.go`,
  `fake_runtimeclass.go`, `fake_testtype.go`, `fake_extensions_client.go`):
  every method builds an action value (verb, resource, namespace, tenant,
  name) and hands it to `testing.Fake.Invokes`; what is recorded and what
  comes back is decided by the reaction chain and the object tracker of
  client-go's `testing` package, which are not in the sources here and which
  the specification leaves out with the generated client stubs. A module
  would be a model of that package as imagined, with the fakes as its
  argument lists.
- The deep-copy functions of `Distributor` (`zz_generated.deepcopy.go`): the
  structs hold strings, numbers and the object metadata, and the one slice,
  the items of a list, is copied item by item. On TLA+ values a copy is the
  value, so there is nothing for a model to say.
- Of the listers: the empty tenant and the empty namespace as arguments
  (section 9).
- `clientset.go` (the client set of the cluster API) and the methods of
  `client.go` the scheduler controller does not call (`Create`, `Delete`,
  `List`, `SchedulerNums`): constructors of, and one-line calls to, the typed
  clients, which are not in the sources here. One remark on
  `clientset.go:56-60`: the loop sets a rate limiter in every config that has
  none, through the elements of `GetAllConfigs()`. With elements that are
  pointers (`setConfigDefaults` in `scheduling_client.go` writes its defaults
  through them too) these are the configs of the caller's `rest.Config`, and
  `configShallowCopy` copies only the struct around them. What a limiter
  shared by all client sets of one config does is a matter of request rates,
  which no module here has.
- Of the scheduler controller: a new list that finds events still queued
  inside the informer (the module loses all undelivered events of the broken
  watch or none), the rate limiter's delays (an item
  is available as soon as it is added; the order of the items is kept), the
  branch of `processNextWorkItem` for an item that is not a
  `*KeyWithEventType` and the branch of `syncHandler` for a key that cannot
  be split, which no item of `enqueue` reaches.
- Of the cluster controller: see the end of section 5.
- Of the custom resource strategy: what the validators check, see the end
  of section 6.
- Of the dispatcher process: everything after line 134, which no execution
  reaches (sections 7 and 10).
- Of the scheduling client: a membership update sent before the goroutine
  of `run()` has registered, and a sender that does not wait for
  `NotifyDone` (section 8).
- A composition of the scheduler controller and the cluster controller over
  one store, and of the strategy with either: the controllers' modules take
  the store's answers (accepted, refused by resource version) as they are.
