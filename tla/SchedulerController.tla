------------------------ MODULE SchedulerController ------------------------
(***************************************************************************)
(* The scheduler controller of globalscheduler/controllers/scheduler: two   *)
(* informers turn the store's watch events into work items, and a pool of   *)
(* workers runs syncHandler on them.  syncHandler keeps the ring of         *)
(* schedulers, starts and closes scheduler processes, gives every cluster   *)
(* a home scheduler and keeps every scheduler's list of clusters.           *)
(*                                                                          *)
(* A worker takes one step to take an item from the queue and one for each  *)
(* call that leaves the process (a store Get or Update, a script); the code *)
(* between two such calls belongs to the step of the call before it.  The   *)
(* store, the informers' indexers, the work queue and the ring are          *)
(* libraries outside this repository and are modelled by their contracts.   *)
(***************************************************************************)
EXTENDS Integers, Sequences, FiniteSets, SequencesExt, Functions, TLC

CONSTANTS Schedulers,   \* names of Scheduler objects (a scheduler's tag is its name)
          Clusters,     \* names of Cluster objects (a cluster's address is fixed by its name)
          Workers,      \* the goroutines Run starts, "threadiness" of them
          NULL,         \* the empty string, nil
          Preference,   \* Preference[c]: the schedulers in the order the ring prefers them for c
          MaxUserOps,   \* bound: objects the users create and delete in a behaviour
          MaxFaults,    \* bound: stops, restarts and broken watches in a behaviour
          MaxEvents     \* bound: what the users do and the faults, together

VARIABLES apiserver,      \* apiserver[kind][name]: the object stored under that name
          revision,       \* the store's resource version, one for all objects
          watch,          \* watch[kind]: events the informer of that kind has not handled yet
          informer,       \* informer[kind][name]: the informer's indexer, read through the lister
          workqueue,      \* the items added and not yet taken, oldest first
          consistentHash, \* the members of the ring
          processes,      \* processes[tag]: what the scripts made of the scheduler process
          workers,        \* workers[w]: where w is in processNextWorkItem, and its locals
          userOps,        \* objects created and deleted so far
          run             \* where Run is, the initial events schedulerSynced waits
                          \* for, and the stops and restarts so far

store == <<apiserver, revision, watch>>
vars  == <<apiserver, revision, watch, informer, workqueue, consistentHash,
           processes, workers, userOps, run>>

\* the environment may act once more
Bounded == userOps + run.faults < MaxEvents

\* the deferred workqueue.ShutDown of Run has been called
ShutDown == run.phase \in {"draining", "returned"}

\* no goroutine of the process has panicked
Alive == run.phase # "panicked"

Kinds == {"scheduler", "cluster"}

\* the events a DeleteFunc is called for: with the deleted object, or with a
\* DeletedFinalStateUnknown that holds the key and the last object seen
Deletions == {"Deleted", "DeletedFinalStateUnknown"}

schedulerInformer == informer.scheduler
clusterInformer   == informer.cluster

-----------------------------------------------------------------------------
(* The store and the clients.                                               *)

NewScheduler(name) == [name |-> name, status |-> "Pending", clusters |-> <<>>, rv |-> 0]
NewCluster(name)   == [name |-> name, home |-> NULL, rv |-> 0]

Without(objects, name) == Restrict(objects, DOMAIN objects \ {name})

\* The store takes obj: it gets the next resource version and the watchers hear of it.
Write(kind, type, obj) ==
    LET written == [obj EXCEPT !.rv = revision + 1]
    IN /\ apiserver' = [apiserver EXCEPT ![kind] = (obj.name :> written) @@ @]
       /\ revision' = revision + 1
       /\ watch' = [watch EXCEPT ![kind] = Append(@, [type |-> type, obj |-> written])]

Erase(kind, name) ==
    /\ apiserver' = [apiserver EXCEPT ![kind] = Without(@, name)]
    /\ revision' = revision + 1
    /\ watch' = [watch EXCEPT ![kind] = Append(@, [type |-> "Deleted", obj |-> apiserver[kind][name]])]

\* Fault: the copy is sent without its resource version, and replaces whatever is stored.
AcceptsAnyVersion(kind, obj) == obj.name \in DOMAIN apiserver[kind]

\* An Update replaces the stored object only when the copy carries its version.
Accepts(kind, obj) ==
    /\ obj.name \in DOMAIN apiserver[kind]
    /\ apiserver[kind][obj.name].rv = obj.rv

\* The ring's answer for a cluster's address: the member it ranks first.
Lookup(ring, cluster) ==
    LET members == SelectSeq(Preference[cluster], LAMBDA s : s \in ring)
    IN IF members = <<>> THEN NULL ELSE Head(members)

-----------------------------------------------------------------------------
(* The informers' handlers.                                                 *)

\* workqueue.AddRateLimited of a new pointer item (lines 418, 432): no
\* failure is counted for a new pointer, the delay is left out and the
\* item is appended at once; a queue that is shut down drops it
enqueue(obj, eventType) ==
    workqueue' = IF ShutDown THEN workqueue
                 ELSE Append(workqueue, [EventType |-> eventType, Value |-> obj.name])

addScheduler(obj)               == enqueue(obj, "CreateScheduler")
deleteScheduler(obj)            == enqueue(obj, "DeleteScheduler")
addClusterToScheduler(obj)      == enqueue(obj, "AddCluster")
deleteClusterFromScheduler(obj) == enqueue(obj, "DeleteCluster")

updateScheduler(old, new) ==
    \/ old.rv = new.rv /\ UNCHANGED workqueue
    \/ old.rv # new.rv /\ enqueue(new, "UpdateScheduler")

\* An informer takes its next event: the indexer first, the handler after it.
\* The scheduler informer has synced when it has taken its initial list.
Handle(kind, type) ==
    /\ Alive
    /\ watch[kind] # <<>>
    /\ Head(watch[kind]).type = type
    /\ watch' = [watch EXCEPT ![kind] = Tail(@)]
    /\ informer' = [informer EXCEPT ![kind] =
                       IF type \in Deletions THEN Without(@, Head(watch[kind]).obj.name)
                                           ELSE (Head(watch[kind]).obj.name :> Head(watch[kind]).obj) @@ @]
    /\ run' = IF kind = "scheduler" /\ run.unsynced > 0
              THEN [run EXCEPT !.unsynced = @ - 1] ELSE run
    /\ UNCHANGED <<apiserver, revision, consistentHash, processes, workers, userOps>>

Event(kind) == Head(watch[kind]).obj

SchedulerAdded    == Handle("scheduler", "Added") /\ addScheduler(Event("scheduler"))
\* DeletionHandlingMetaNamespaceKeyFunc has the key of both
SchedulerDeleted ==
    \E type \in Deletions : Handle("scheduler", type) /\ deleteScheduler(Event("scheduler"))
SchedulerModified ==
    /\ Handle("scheduler", "Modified")
    /\ updateScheduler(schedulerInformer[Event("scheduler").name], Event("scheduler"))
SchedulerResync ==
    /\ Alive
    /\ \E name \in DOMAIN schedulerInformer :
          updateScheduler(schedulerInformer[name], schedulerInformer[name])
    /\ UNCHANGED <<store, informer, consistentHash, processes, workers, userOps, run>>

ClusterAdded    == Handle("cluster", "Added") /\ addClusterToScheduler(Event("cluster"))
ClusterDeleted  == Handle("cluster", "Deleted") /\ deleteClusterFromScheduler(Event("cluster"))
ClusterModified == Handle("cluster", "Modified") /\ UNCHANGED workqueue

\* deleteClusterFromScheduler asserts that it is given a *Cluster: for a
\* DeletedFinalStateUnknown the assertion panics in the informer's goroutine
\* and the process ends.
ClusterDeletedUnknown ==
    /\ Alive
    /\ watch.cluster # <<>>
    /\ Head(watch.cluster).type = "DeletedFinalStateUnknown"
    /\ run' = [run EXCEPT !.phase = "panicked"]
    /\ UNCHANGED <<store, informer, workqueue, consistentHash, processes, workers, userOps>>

Informers == \/ SchedulerAdded \/ SchedulerModified \/ SchedulerDeleted \/ SchedulerResync
             \/ ClusterAdded \/ ClusterModified \/ ClusterDeleted \/ ClusterDeletedUnknown

-----------------------------------------------------------------------------
(* The workers: processNextWorkItem and the branches of syncHandler.        *)

Idle == [pc |-> "idle", item |-> NULL, scheduler |-> NULL, cluster |-> NULL,
         home |-> NULL, todo |-> <<>>]

At(w, pc) == workers[w].pc = pc

Goto(w, locals) == workers' = [workers EXCEPT ![w] = locals]

\* workqueue.Get by an idle worker of a controller that has started its
\* workers: it takes the oldest item, also of a queue that is shut down
Get(w) ==
    /\ At(w, "idle")
    /\ run.phase \in {"working", "draining"}
    /\ workqueue # <<>>
    /\ workqueue' = Tail(workqueue)
    /\ Goto(w, [Idle EXCEPT !.pc = "sync", !.item = Head(workqueue)])
    /\ UNCHANGED <<store, informer, consistentHash, processes, userOps, run>>

\* the switch of syncHandler
Syncs(w, eventType) == At(w, "sync") /\ workers[w].item.EventType = eventType

Key(w) == workers[w].item.Value

\* syncHandler returns, with an error or without: Done, and the item is not added again.
Return(w) == Goto(w, Idle)

\* schedulerclient.Update or clusterclient.Update, the last call of a branch
LastUpdate(w, kind, copy) ==
    /\ \/ Accepts(kind, copy) /\ Write(kind, "Modified", copy)
       \/ ~Accepts(kind, copy) /\ UNCHANGED store
    /\ Return(w)

\* Fault: the Get is tried until the scheduler is there.
GetSchedulerWaits(w, name, pc) ==
    /\ name \in DOMAIN apiserver.scheduler
    /\ Goto(w, [workers[w] EXCEPT !.pc = pc, !.scheduler = apiserver.scheduler[name]])

\* schedulerclient.Get of the scheduler called name
GetScheduler(w, name, pc) ==
    \/ /\ name \in DOMAIN apiserver.scheduler
       /\ Goto(w, [workers[w] EXCEPT !.pc = pc, !.scheduler = apiserver.scheduler[name]])
    \/ /\ name \notin DOMAIN apiserver.scheduler
       /\ Return(w)

CreateScheduler(w) ==
    /\ Syncs(w, "CreateScheduler")
    /\ \/ /\ Key(w) \notin DOMAIN schedulerInformer
          /\ Return(w)
          /\ UNCHANGED consistentHash
       \/ /\ Key(w) \in DOMAIN schedulerInformer
          /\ consistentHash' = consistentHash \cup {Key(w)}
          /\ Goto(w, [workers[w] EXCEPT !.pc = "start", !.scheduler = schedulerInformer[Key(w)]])
    /\ UNCHANGED <<store, informer, workqueue, processes, userOps, run>>

\* runCommand: the script has run to its end and the process is in this state.
runCommand(tag, state) == processes' = [processes EXCEPT ![tag] = state]

\* Fault: the script's error is not looked at.
StartIgnoresError(w) ==
    /\ At(w, "start")
    /\ Goto(w, [workers[w] EXCEPT !.pc = "activate"])
    /\ UNCHANGED <<store, informer, workqueue, consistentHash, processes, userOps, run>>

\* runCommand of start_scheduler.sh
StartScheduler(w) ==
    /\ At(w, "start")
    /\ \/ /\ runCommand(workers[w].scheduler.name, "running")
          /\ Goto(w, [workers[w] EXCEPT !.pc = "activate"])
       \/ /\ UNCHANGED processes
          /\ Return(w)
    /\ UNCHANGED <<store, informer, workqueue, consistentHash, userOps, run>>

ActivateScheduler(w) ==
    /\ At(w, "activate")
    /\ LastUpdate(w, "scheduler", [workers[w].scheduler EXCEPT !.status = "Active"])
    /\ UNCHANGED <<informer, workqueue, consistentHash, processes, userOps, run>>

AddCluster(w) ==
    /\ Syncs(w, "AddCluster")
    /\ \/ /\ Key(w) \notin DOMAIN clusterInformer
          /\ Return(w)
       \/ /\ Key(w) \in DOMAIN clusterInformer
          /\ consistentHash = {}
          /\ Return(w)
       \/ /\ Key(w) \in DOMAIN clusterInformer
          /\ consistentHash # {}
          /\ Goto(w, [workers[w] EXCEPT !.pc = "home", !.cluster = clusterInformer[Key(w)],
                                   !.home = Lookup(consistentHash, Key(w))])
    /\ UNCHANGED <<store, informer, workqueue, consistentHash, processes, userOps, run>>

SetHomeScheduler(w) ==
    /\ At(w, "home")
    /\ LET clusterCopy == [workers[w].cluster EXCEPT !.home = workers[w].home]
       IN \/ /\ Accepts("cluster", clusterCopy)
             /\ Write("cluster", "Modified", clusterCopy)
             /\ Goto(w, [workers[w] EXCEPT !.pc = "getHome"])
          \/ /\ ~Accepts("cluster", clusterCopy)
             /\ UNCHANGED store
             /\ Return(w)
    /\ UNCHANGED <<informer, workqueue, consistentHash, processes, userOps, run>>

GetHomeScheduler(w) ==
    /\ At(w, "getHome")
    /\ GetScheduler(w, workers[w].home, "append")
    /\ UNCHANGED <<store, informer, workqueue, consistentHash, processes, userOps, run>>

AppendCluster(w) ==
    /\ At(w, "append")
    /\ LastUpdate(w, "scheduler",
                  [workers[w].scheduler EXCEPT !.clusters = Append(@, workers[w].cluster)])
    /\ UNCHANGED <<informer, workqueue, consistentHash, processes, userOps, run>>

DeleteCluster(w) ==
    /\ Syncs(w, "DeleteCluster")
    /\ \/ /\ Key(w) \notin DOMAIN clusterInformer
          /\ Return(w)
       \/ /\ Key(w) \in DOMAIN clusterInformer
          /\ Goto(w, [workers[w] EXCEPT !.pc = "getOwner", !.cluster = clusterInformer[Key(w)]])
    /\ UNCHANGED <<store, informer, workqueue, consistentHash, processes, userOps, run>>

GetOwner(w) ==
    /\ At(w, "getOwner")
    /\ GetScheduler(w, workers[w].cluster.home, "remove")
    /\ UNCHANGED <<store, informer, workqueue, consistentHash, processes, userOps, run>>

RemoveCluster(w) ==
    /\ At(w, "remove")
    /\ LastUpdate(w, "scheduler",
                  [workers[w].scheduler EXCEPT !.clusters =
                      SelectSeq(@, LAMBDA c : c.name # workers[w].cluster.name)])
    /\ UNCHANGED <<informer, workqueue, consistentHash, processes, userOps, run>>

\* Fault: the ring's error for an empty ring is not looked at.
ReassignUnchecked(locals, todo, ring) ==
    IF todo = <<>> THEN [locals EXCEPT !.pc = "close", !.todo = <<>>, !.home = NULL]
    ELSE [locals EXCEPT !.pc = "rehome", !.todo = todo, !.home = Lookup(ring, Head(todo).name)]

\* The loop of DeleteScheduler up to its next clusterclient.Update.
Reassign(locals, todo, ring) ==
    CASE todo = <<>> -> [locals EXCEPT !.pc = "close", !.todo = <<>>, !.home = NULL]
      [] ring = {}   -> Idle
      [] OTHER       -> [locals EXCEPT !.pc = "rehome", !.todo = todo,
                                       !.home = Lookup(ring, Head(todo).name)]

DeleteScheduler(w) ==
    /\ Syncs(w, "DeleteScheduler")
    /\ \/ /\ Key(w) \notin DOMAIN schedulerInformer
          /\ Return(w)
          /\ UNCHANGED consistentHash
       \/ /\ Key(w) \in DOMAIN schedulerInformer
          /\ consistentHash' = consistentHash \ {Key(w)}
          /\ Goto(w, Reassign([workers[w] EXCEPT !.scheduler = schedulerInformer[Key(w)]],
                              schedulerInformer[Key(w)].clusters, consistentHash'))
    /\ UNCHANGED <<store, informer, workqueue, processes, userOps, run>>

RehomeCluster(w) ==
    /\ At(w, "rehome")
    /\ LET clusterCopy == [Head(workers[w].todo) EXCEPT !.home = workers[w].home]
       IN \/ /\ Accepts("cluster", clusterCopy)
             /\ Write("cluster", "Modified", clusterCopy)
             /\ Goto(w, Reassign(workers[w], Tail(workers[w].todo), consistentHash))
          \/ /\ ~Accepts("cluster", clusterCopy)
             /\ UNCHANGED store
             /\ Return(w)
    /\ UNCHANGED <<informer, workqueue, consistentHash, processes, userOps, run>>

\* runCommand of close_scheduler.sh
CloseScheduler(w) ==
    /\ At(w, "close")
    /\ \/ runCommand(workers[w].scheduler.name, "closed")
       \/ UNCHANGED processes
    /\ Return(w)
    /\ UNCHANGED <<store, informer, workqueue, consistentHash, userOps, run>>

\* syncHandler has no case for an update of a scheduler.
UpdateScheduler(w) ==
    /\ Syncs(w, "UpdateScheduler")
    /\ Return(w)
    /\ UNCHANGED <<store, informer, workqueue, consistentHash, processes, userOps, run>>

\* workqueue.Get answers shutdown once the queue is shut down and empty:
\* processNextWorkItem returns false and runWorker ends
Exit(w) ==
    /\ At(w, "idle")
    /\ run.phase = "draining"
    /\ workqueue = <<>>
    /\ Goto(w, [Idle EXCEPT !.pc = "exited"])
    /\ UNCHANGED <<store, informer, workqueue, consistentHash, processes, userOps, run>>

processNextWorkItem(w) ==
    /\ Alive
    /\ \/ Get(w) \/ Exit(w)
       \/ CreateScheduler(w) \/ StartScheduler(w) \/ ActivateScheduler(w)
       \/ AddCluster(w) \/ SetHomeScheduler(w) \/ GetHomeScheduler(w) \/ AppendCluster(w)
       \/ DeleteCluster(w) \/ GetOwner(w) \/ RemoveCluster(w)
       \/ DeleteScheduler(w) \/ RehomeCluster(w) \/ CloseScheduler(w)
       \/ UpdateScheduler(w)

-----------------------------------------------------------------------------
(* The users of the store.                                                  *)

Create(kind, obj) ==
    /\ userOps < MaxUserOps /\ Bounded
    /\ obj.name \notin DOMAIN apiserver[kind]
    /\ Write(kind, "Added", obj)
    /\ userOps' = userOps + 1
    /\ UNCHANGED <<informer, workqueue, consistentHash, processes, workers, run>>

Delete(kind, name) ==
    /\ userOps < MaxUserOps /\ Bounded
    /\ name \in DOMAIN apiserver[kind]
    /\ Erase(kind, name)
    /\ userOps' = userOps + 1
    /\ UNCHANGED <<informer, workqueue, consistentHash, processes, workers, run>>

Users == \/ \E s \in Schedulers : Create("scheduler", NewScheduler(s)) \/ Delete("scheduler", s)
         \/ \E c \in Clusters : Create("cluster", NewCluster(c)) \/ Delete("cluster", c)

-----------------------------------------------------------------------------
(* Run, and the life of the controller's process.                           *)

\* WaitForCacheSync has seen schedulerSynced, and Run starts the workers
StartWorkers ==
    /\ run.phase = "syncing"
    /\ run.unsynced = 0
    /\ run' = [run EXCEPT !.phase = "working"]
    /\ UNCHANGED <<store, informer, workqueue, consistentHash, processes, workers, userOps>>

\* stopCh is closed: Run returns, from WaitForCacheSync with an error or
\* from its wait for stopCh, and its deferred call shuts the queue down
Stop ==
    /\ run.faults < MaxFaults /\ Bounded
    /\ run.phase \in {"syncing", "working"}
    /\ run' = [run EXCEPT !.faults = @ + 1,
                          !.phase = IF @ = "working" THEN "draining" ELSE "returned"]
    /\ UNCHANGED <<store, informer, workqueue, consistentHash, processes, workers, userOps>>

\* The events of an informer's first list: one Added for every stored object.
InitialList(kind) ==
    LET names == SetToSeq(DOMAIN apiserver[kind])
    IN [i \in DOMAIN names |-> [type |-> "Added", obj |-> apiserver[kind][names[i]]]]

\* What NewSchedulerController and the informers start from
Started(faults) ==
    /\ watch' = [kind \in Kinds |-> InitialList(kind)]
    /\ informer' = [kind \in Kinds |-> <<>>]
    /\ workqueue' = <<>>
    /\ consistentHash' = {}
    /\ workers' = [w \in Workers |-> Idle]
    /\ run' = [phase |-> "syncing", unsynced |-> Len(InitialList("scheduler")),
               faults |-> faults]

\* The process ends, at any step of any goroutine, and is started again:
\* the store and the scheduler processes are what they were
Restart ==
    /\ run.faults < MaxFaults /\ Bounded
    /\ Alive
    /\ Started(run.faults + 1)
    /\ UNCHANGED <<apiserver, revision, processes, userOps>>

\* The process that ended in a panic is started again.
Recover ==
    /\ ~Alive
    /\ Started(run.faults)
    /\ UNCHANGED <<apiserver, revision, processes, userOps>>

\* What an informer is handed after a new list: every listed object, as an
\* update when its indexer has the object and as an add when not, and after
\* them a DeletedFinalStateUnknown for every object of the indexer that the
\* list has not.
Replaced(kind) ==
    LET listed == SetToSeq(DOMAIN apiserver[kind])
        gone   == SetToSeq(DOMAIN informer[kind] \ DOMAIN apiserver[kind])
    IN [i \in DOMAIN listed |->
           [type |-> IF listed[i] \in DOMAIN informer[kind] THEN "Modified" ELSE "Added",
            obj  |-> apiserver[kind][listed[i]]]]
       \o [i \in DOMAIN gone |->
              [type |-> "DeletedFinalStateUnknown", obj |-> informer[kind][gone[i]]]]

\* The watch of a synced informer breaks, the events it had not delivered
\* are lost, and the informer lists again.
Relist(kind) ==
    /\ run.faults < MaxFaults /\ Bounded
    /\ run.phase \in {"syncing", "working"}
    /\ run.unsynced = 0
    /\ watch' = [watch EXCEPT ![kind] = Replaced(kind)]
    /\ run' = [run EXCEPT !.faults = @ + 1]
    /\ UNCHANGED <<apiserver, revision, informer, workqueue, consistentHash, processes,
                   workers, userOps>>

Run == StartWorkers \/ Stop

-----------------------------------------------------------------------------

Init == /\ apiserver = [kind \in Kinds |-> <<>>]
        /\ revision = 0
        /\ watch = [kind \in Kinds |-> <<>>]
        /\ informer = [kind \in Kinds |-> <<>>]
        /\ workqueue = <<>>
        /\ consistentHash = {}
        /\ processes = [tag \in Schedulers |-> "none"]
        /\ workers = [w \in Workers |-> Idle]
        /\ userOps = 0
        /\ run = [phase |-> "syncing", unsynced |-> 0, faults |-> 0]

Next == \/ Users \/ Informers \/ Run \/ Restart \/ Recover
        \/ \E kind \in Kinds : Relist(kind)
        \/ \E w \in Workers : processNextWorkItem(w)

Spec == Init /\ [][Next]_vars

\* The informers' and the workers' goroutines keep running, and every call returns.
FairSpec == /\ Spec
            /\ WF_vars(Informers)
            /\ WF_vars(StartWorkers)
            /\ \A w \in Workers : WF_vars(processNextWorkItem(w))

-----------------------------------------------------------------------------
(* What is checked.                                                         *)

ClusterObjects   == [name : Clusters, home : Schedulers \cup {NULL}, rv : 0..revision]
SchedulerObjects == [name : Schedulers, status : {"Pending", "Active"},
                     clusters : Seq(ClusterObjects), rv : 0..revision]
Objects == [scheduler |-> SchedulerObjects, cluster |-> ClusterObjects]
Names   == [scheduler |-> Schedulers, cluster |-> Clusters]
Items   == [EventType : {"CreateScheduler", "UpdateScheduler", "DeleteScheduler",
                         "AddCluster", "DeleteCluster"},
            Value : Schedulers \cup Clusters]

\* The variables have their types, every stored or cached object is filed
\* under its own name, and a worker that is about to write a home scheduler
\* (clusterCopy.Spec.HomeScheduler in AddCluster and in DeleteScheduler's
\* loop) holds a scheduler's name, never the empty answer of an empty ring.
TypeOK ==
    /\ revision \in Nat /\ userOps \in 0..MaxUserOps
    /\ \A kind \in Kinds :
        /\ \A cache \in {apiserver[kind], informer[kind]} :
            /\ DOMAIN cache \subseteq Names[kind]
            /\ \A name \in DOMAIN cache : cache[name] \in Objects[kind] /\ cache[name].name = name
        /\ watch[kind] \in Seq([type : {"Added", "Modified"} \cup Deletions, obj : Objects[kind]])
    /\ workqueue \in Seq(Items)
    /\ consistentHash \subseteq Schedulers
    /\ processes \in [Schedulers -> {"none", "running", "closed"}]
    /\ run \in [phase : {"syncing", "working", "draining", "returned", "panicked"},
                unsynced : 0..Cardinality(Schedulers), faults : 0..MaxFaults]
    /\ workers \in [Workers -> [pc : {"idle", "exited", "sync", "start", "activate", "home", "getHome", "append",
                                      "getOwner", "remove", "rehome", "close"},
                                item : Items \cup {NULL},
                                scheduler : SchedulerObjects \cup {NULL},
                                cluster : ClusterObjects \cup {NULL},
                                home : Schedulers \cup {NULL},
                                todo : Seq(ClusterObjects)]]
    /\ \A w \in Workers : workers[w].pc \in {"home", "rehome"} => workers[w].home \in Schedulers

\* Nothing is left to do: no event undelivered, no item queued, no worker busy.
Quiescent ==
    /\ \A kind \in Kinds : watch[kind] = <<>>
    /\ workqueue = <<>>
    /\ \A w \in Workers : workers[w] = Idle

Listed(scheduler) == {scheduler.clusters[i].name : i \in DOMAIN scheduler.clusters}

\* No Update of a scheduler loses a cluster that another worker appended to
\* its list: a worker writes the copy it read (from the lister in
\* CreateScheduler, from the store in AddCluster and DeleteCluster) steps
\* after reading it, and only the worker of a DeleteCluster that names the
\* cluster may take it off the list.
NoLostClusterUpdate ==
    [][\A s \in DOMAIN apiserver.scheduler \cap DOMAIN apiserver'.scheduler :
          \A c \in Listed(apiserver.scheduler[s]) \ Listed(apiserver'.scheduler[s]) :
              \E w \in Workers : At(w, "remove") /\ workers[w].cluster.name = c]_vars

\* A scheduler the store shows as Active had its process started: in
\* CreateScheduler the status is written only after start_scheduler.sh
\* succeeded.
ActiveWasStarted ==
    \A s \in DOMAIN apiserver.scheduler :
        apiserver.scheduler[s].status = "Active" => processes[s] # "none"

\* Once the users stop, the informers and the workers work off every event
\* and every item and come to rest: no branch of syncHandler waits, loops or
\* feeds the queue for ever (its own Updates come back as UpdateScheduler
\* items, which write nothing).
EventuallyQuiescent == <>[]Quiescent

\* Specification, invariant 1: after the controller has worked off its events
\* every cluster's home scheduler is the ring's answer for its address.
HomeIsLookup ==
    Quiescent => \A c \in DOMAIN apiserver.cluster :
                     apiserver.cluster[c].home = Lookup(consistentHash, c)

=============================================================================
