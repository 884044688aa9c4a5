-------------------------- MODULE ClusterController --------------------------
(***************************************************************************)
(* The cluster controller                                                  *)
(* (globalscheduler/controllers/cluster/cluster_controller.go).            *)
(*                                                                         *)
(* The informer of the Cluster resource calls addCluster, updateCluster    *)
(* and deleteCluster; each puts a KeyWithEventType into a rate limited     *)
(* work queue.  Workers take the items, look the cluster up in the lister  *)
(* and perform the event.  The controller writes nothing to the store.     *)
(*                                                                         *)
(* The work queue is client-go's, which is not part of this repository:    *)
(* Add, Get, Done, AddRateLimited, Forget and ShutDown are its contract as *)
(* the specification of the system gives it (section WorkQueue).  The      *)
(* delay of AddRateLimited is a timer that fires at any later time; of the *)
(* backoff only whether an item has any is kept.                           *)
(*                                                                         *)
(* A worker takes two steps for an item: Get, which may wait, and the rest *)
(* of processNextWorkItem, which reads the lister and calls no one else.   *)
(* An informer's handler is one step with the change of its indexer.       *)
(*                                                                         *)
(* The watch of the informer may break with events undelivered.  The       *)
(* informer then lists the store again and hands the handlers what the     *)
(* list and its indexer differ in; for a cluster that is gone it has only  *)
(* the last state it saw, wrapped as a DeletedFinalStateUnknown.           *)
(***************************************************************************)
EXTENDS Integers, Sequences, FiniteSets, SequencesExt, TLC

CONSTANTS
    Clusters,       \* names of Cluster objects, which are also their keys
    States,         \* values of Cluster.State
    Workers,        \* the goroutines Run starts
    NULL,           \* Go's nil
    MaxUserOps,     \* bound on the writes of the users of the store
    MaxRelists      \* bound on the watches that break, each followed by a new list

ASSUME MaxUserOps \in Nat /\ MaxRelists \in Nat /\ NULL \notin Clusters

VARIABLES
    apiserver,      \* the Cluster objects of the store: name -> State
    watch,          \* the events the store has sent and the informer not yet handled
    informer,       \* the informer's indexer, read through c.clusterlister
    workqueue,      \* c.workqueue
    workers,        \* where each worker is, and the item it holds
    stopCh,         \* TRUE when stopCh is closed
    userOps,        \* number of writes so far
    relists         \* number of broken watches so far

vars == <<apiserver, watch, informer, workqueue, workers, stopCh, userOps, relists>>

EventType_Create == 0
EventType_Update == 1
EventType_Delete == 2

EventTypes == {EventType_Create, EventType_Update, EventType_Delete}

KeyWithEventType == [EventType : EventTypes, Key : Clusters]

-----------------------------------------------------------------------------
(* The work queue.  Each operator takes the queue and returns it changed,  *)
(* so that a step of the controller can make several calls.                *)

NewNamedRateLimitingQueue ==
    [queue |-> <<>>, dirty |-> {}, processing |-> {}, waiting |-> {},
     failures |-> {}, shuttingDown |-> FALSE]

\* Add for an item that is equal to none the queue holds.
AddAlways(q, item) ==
    IF q.shuttingDown THEN q
    ELSE [q EXCEPT !.dirty = @ \cup {item}, !.queue = Append(@, item)]

\* An item that is queued is not queued again; one that is being processed
\* is only marked dirty, for Done to queue it.
Add(q, item) ==
    CASE q.shuttingDown \/ item \in q.dirty -> q
      [] item \in q.processing -> [q EXCEPT !.dirty = @ \cup {item}]
      [] OTHER -> [q EXCEPT !.dirty = @ \cup {item}, !.queue = Append(@, item)]

Done(q, item) ==
    [q EXCEPT !.processing = @ \ {item},
              !.queue = IF item \in q.dirty THEN Append(@, item) ELSE @]

AddRateLimited(q, item) ==
    [q EXCEPT !.failures = @ \cup {item},
              !.waiting = IF q.shuttingDown THEN @ ELSE @ \cup {item}]

Forget(q, item) == [q EXCEPT !.failures = @ \ {item}]

ShutDown(q) == [q EXCEPT !.shuttingDown = TRUE]

-----------------------------------------------------------------------------
(* The store and the informer *)

Without(f, key) == [k \in DOMAIN f \ {key} |-> f[k]]

Event(type, name, state) == [type |-> type, name |-> name, state |-> state]

\* the events a handler's DeleteFunc is called for
Deletions == {"Deleted", "DeletedFinalStateUnknown"}

UserWrites(type, name, state) ==
    /\ userOps < MaxUserOps
    /\ userOps' = userOps + 1
    /\ watch' = Append(watch, Event(type, name, state))
    /\ UNCHANGED <<informer, workqueue, workers, stopCh, relists>>

CreateCluster(name, state) ==
    /\ name \notin DOMAIN apiserver
    /\ apiserver' = (name :> state) @@ apiserver
    /\ UserWrites("Added", name, state)

\* An update may leave the State as it is and change another field.
UpdateCluster(name, state) ==
    /\ name \in DOMAIN apiserver
    /\ apiserver' = [apiserver EXCEPT ![name] = state]
    /\ UserWrites("Modified", name, state)

DeleteCluster(name) ==
    /\ name \in DOMAIN apiserver
    /\ apiserver' = Without(apiserver, name)
    /\ UserWrites("Deleted", name, apiserver[name])

Users ==
    \E name \in Clusters :
        \/ \E state \in States : CreateCluster(name, state) \/ UpdateCluster(name, state)
        \/ DeleteCluster(name)

-----------------------------------------------------------------------------
(* The handlers NewClusterController registers *)

\* Fault: the item is added as a pointer to a new KeyWithEventType, which
\* is equal to no item the queue holds.
EnqueuePointer(key, eventType) ==
    workqueue' = AddAlways(workqueue, [EventType |-> eventType, Key |-> key])

\* Fault: the key is added by itself, as most controllers do, and the
\* worker expects a KeyWithEventType.
EnqueueKey(key, eventType) == workqueue' = Add(workqueue, key)

Enqueue(key, eventType) ==
    workqueue' = Add(workqueue, [EventType |-> eventType, Key |-> key])

\* getclusterInfo: the name and the State of a cluster; its errors are for
\* nil and for an empty name, which no object of the store has.
getclusterInfo(name, state) == <<name, state>>

determineEventType(name1, state1, name2, state2) ==
    IF getclusterInfo(name1, state1) = getclusterInfo(name2, state2)
    THEN "ClusterUpdateNo" ELSE "ClusterUpdateYes"

addCluster(e) ==
    /\ e.type = "Added"
    /\ informer' = (e.name :> e.state) @@ informer
    /\ Enqueue(e.name, EventType_Create)

updateCluster(e) ==
    /\ e.type = "Modified"
    /\ informer' = [informer EXCEPT ![e.name] = e.state]
    /\ \/ /\ determineEventType(e.name, informer[e.name], e.name, e.state) = "ClusterUpdateYes"
          /\ Enqueue(e.name, EventType_Update)
       \/ /\ determineEventType(e.name, informer[e.name], e.name, e.state) = "ClusterUpdateNo"
          /\ UNCHANGED workqueue

\* Fault: the key is taken with MetaNamespaceKeyFunc, which has no key
\* for a DeletedFinalStateUnknown.
deleteClusterOfObject(e) ==
    /\ e.type \in Deletions
    /\ informer' = Without(informer, e.name)
    /\ \/ e.type = "Deleted" /\ Enqueue(e.name, EventType_Delete)
       \/ e.type # "Deleted" /\ UNCHANGED workqueue

\* controller.KeyFunc has the key of a deleted object and of the
\* DeletedFinalStateUnknown that stands for one.
deleteCluster(e) ==
    /\ e.type \in Deletions
    /\ informer' = Without(informer, e.name)
    /\ Enqueue(e.name, EventType_Delete)

\* The informer hands the events over in the order of the store, until
\* stopCh is closed.
Informer ==
    /\ ~stopCh
    /\ watch # <<>>
    /\ watch' = Tail(watch)
    /\ addCluster(Head(watch)) \/ updateCluster(Head(watch)) \/ deleteCluster(Head(watch))
    /\ UNCHANGED <<apiserver, workers, stopCh, userOps, relists>>

\* What the informer hands over after a new list: every listed cluster, as
\* an update when the indexer has it and as an add when not, and after them
\* every cluster of the indexer that the list has not.
Replaced ==
    LET listed == {Event(IF name \in DOMAIN informer THEN "Modified" ELSE "Added",
                         name, apiserver[name]) : name \in DOMAIN apiserver}
        gone   == {Event("DeletedFinalStateUnknown", name, informer[name]) :
                         name \in DOMAIN informer \ DOMAIN apiserver}
    IN {sync \o deleted : sync \in SetToSeqs(listed), deleted \in SetToSeqs(gone)}

\* The watch breaks and the events it had not delivered are lost; the
\* informer lists again.
Relist ==
    /\ ~stopCh
    /\ relists < MaxRelists
    /\ relists' = relists + 1
    /\ watch' \in Replaced
    /\ UNCHANGED <<apiserver, informer, workqueue, workers, stopCh, userOps>>

-----------------------------------------------------------------------------
(* The workers *)

Waiting == [pc |-> "get", item |-> NULL]

\* workqueue.Get: the head of the queue, when there is one; at an empty
\* queue the call waits, and returns shutdown after ShutDown, which ends
\* runWorker and the wait.Until around it.
Get(w) ==
    /\ workers[w] = Waiting
    /\ \/ /\ workqueue.queue # <<>>
          /\ LET item == Head(workqueue.queue) IN
                /\ workqueue' = [workqueue EXCEPT !.queue = Tail(@),
                                                  !.processing = @ \cup {item},
                                                  !.dirty = @ \ {item}]
                /\ workers' = [workers EXCEPT ![w] = [pc |-> "sync", item |-> item]]
       \/ /\ workqueue.queue = <<>>
          /\ workqueue.shuttingDown
          /\ workers' = [workers EXCEPT ![w] = [pc |-> "exited", item |-> NULL]]
          /\ UNCHANGED workqueue
    /\ UNCHANGED <<apiserver, watch, informer, stopCh, userOps, relists>>

\* perform: the request is sent for the three events there are.
perform(event) == event \in EventTypes

\* syncHandler: the queue as it leaves it, and whether it returns an error.
syncHandler(q, item) ==
    CASE item.EventType < 0 \/ item.Key \notin DOMAIN informer -> [q |-> q, err |-> TRUE]
      [] perform(item.EventType) -> [q |-> Forget(q, item.Key), err |-> FALSE]
      [] OTHER -> [q |-> AddRateLimited(q, item), err |-> FALSE]

\* "defer c.workqueue.Done(key)" and "c.workqueue.Forget(key)", with the
\* key string of the item.
Release(q, item) == Done(Forget(q, item.Key), item.Key)

\* processNextWorkItem after Get.
processNextWorkItem(w) ==
    /\ workers[w].pc = "sync"
    /\ LET item == workers[w].item
           synced == syncHandler(workqueue, item)
           limited == IF synced.err THEN AddRateLimited(synced.q, item) ELSE synced.q
       IN workqueue' = Release(limited, item)
    /\ workers' = [workers EXCEPT ![w] = Waiting]
    /\ UNCHANGED <<apiserver, watch, informer, stopCh, userOps, relists>>

runWorker(w) == Get(w) \/ processNextWorkItem(w)

\* The timer of an AddRateLimited fires; the queue's timers end with it.
AddAfter ==
    /\ ~workqueue.shuttingDown
    /\ \E item \in workqueue.waiting :
          workqueue' = Add([workqueue EXCEPT !.waiting = @ \ {item}], item)
    /\ UNCHANGED <<apiserver, watch, informer, workers, stopCh, userOps, relists>>

\* Fault: Run returns without shutting the queue down.
RunLeavesQueueOpen ==
    /\ ~stopCh
    /\ stopCh' = TRUE
    /\ UNCHANGED <<apiserver, watch, informer, workqueue, workers, userOps, relists>>

\* Run, from the moment its workers are started: it waits for stopCh to be
\* closed and returns through the deferred ShutDown.
Run ==
    /\ ~stopCh
    /\ stopCh' = TRUE
    /\ workqueue' = ShutDown(workqueue)
    /\ UNCHANGED <<apiserver, watch, informer, workers, userOps, relists>>

-----------------------------------------------------------------------------
(* Specification *)

\* NewClusterController on an empty store, and Run up to its workers.
Init ==
    /\ apiserver = <<>>
    /\ watch = <<>>
    /\ informer = <<>>
    /\ workqueue = NewNamedRateLimitingQueue
    /\ workers = [w \in Workers |-> Waiting]
    /\ stopCh = FALSE
    /\ userOps = 0
    /\ relists = 0

Next ==
    \/ Users
    \/ Informer
    \/ Relist
    \/ \E w \in Workers : runWorker(w)
    \/ AddAfter
    \/ Run

Spec == Init /\ [][Next]_vars

\* The goroutine of a worker is scheduled again and again.
FairSpec == Spec /\ \A w \in Workers : WF_vars(runWorker(w))

-----------------------------------------------------------------------------
(* Properties *)

Held == {workers[w].item : w \in {v \in Workers : workers[v].pc = "sync"}}

TypeOK ==
    /\ apiserver \in [DOMAIN apiserver -> States] /\ DOMAIN apiserver \subseteq Clusters
    /\ informer \in [DOMAIN informer -> States] /\ DOMAIN informer \subseteq Clusters
    /\ watch \in Seq([type : {"Added", "Modified"} \cup Deletions, name : Clusters, state : States])
    /\ workqueue.queue \in Seq(KeyWithEventType)
    /\ workqueue.dirty \subseteq KeyWithEventType
    /\ workqueue.processing \subseteq KeyWithEventType
    /\ workqueue.waiting \subseteq KeyWithEventType
    /\ workqueue.failures \subseteq KeyWithEventType
    /\ workqueue.shuttingDown \in BOOLEAN
    /\ \A w \in Workers :
          \/ workers[w] \in [pc : {"get", "exited"}, item : {NULL}]
          \/ workers[w] \in [pc : {"sync"}, item : KeyWithEventType]
    /\ stopCh \in BOOLEAN
    /\ userOps \in 0..MaxUserOps
    /\ relists \in 0..MaxRelists

\* The queue hands an item to one worker at a time (the specification,
\* WorkQueue: "at most once concurrently per key"): however the handlers'
\* Adds, the timers' Adds and the workers' Gets and releases interleave, no
\* two workers of processNextWorkItem hold equal items, and no held item
\* is also waiting in the queue.
OneWorkerPerItem ==
    /\ \A v, w \in Workers :
          workers[v].pc = "sync" /\ workers[w].pc = "sync" /\ v # w
              => workers[v].item # workers[w].item
    /\ \A i \in 1..Len(workqueue.queue) : workqueue.queue[i] \notin Held

\* Once stopCh is closed every worker leaves runWorker: Run's deferred
\* ShutDown wakes the workers waiting in Get, and the items still queued
\* are worked off first.
ShutdownCompletes ==
    stopCh ~> \A w \in Workers : workers[w].pc = "exited"

\* what became of cluster name in a step of the informer
Change(name) ==
    CASE name \notin DOMAIN informer /\ name \in DOMAIN informer' -> EventType_Create
      [] name \in DOMAIN informer /\ name \notin DOMAIN informer' -> EventType_Delete
      [] name \in DOMAIN informer \cap DOMAIN informer' /\ informer[name] # informer'[name]
                                                                   -> EventType_Update
      [] OTHER -> NULL

\* No change of a cluster goes by without an item, also when the watch lost
\* its event: whenever the lister's view of a cluster changes while the
\* queue is open, the item of that change is in the queue or marked to be
\* queued again.  After a lost event the change comes from the new list, the
\* State is compared by updateCluster with the one the lister had, and
\* deleteCluster takes the key of a DeletedFinalStateUnknown.
EveryChangeIsQueued ==
    [][~workqueue.shuttingDown =>
          \A name \in Clusters :
              Change(name) # NULL =>
                  [EventType |-> Change(name), Key |-> name] \in workqueue'.dirty]_vars

AtRest ==
    /\ watch = <<>>
    /\ workqueue.queue = <<>>
    /\ workqueue.waiting = {}
    /\ \A w \in Workers : workers[w] = Waiting

\* Every item the handlers add is handed to a worker (the specification,
\* WorkQueue: Done releases the item, and an item added again while it was
\* processed becomes available again): when no event, no timer and no
\* worker is under way, no item of Enqueue is left marked dirty in the
\* queue of processNextWorkItem.
NoEventIsStranded == AtRest => workqueue.dirty = {}

=============================================================================
