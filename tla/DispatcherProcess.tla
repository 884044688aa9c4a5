-------------------------- MODULE DispatcherProcess --------------------------
(***************************************************************************)
(* The dispatcher process                                                  *)
(* (globalscheduler/controllers/dispatcher/dispatcher_process.go), from    *)
(* NewProcess to the first statement of Run that uses a channel.           *)
(*                                                                         *)
(* Two goroutines exist by then: the caller of NewProcess and Run, and the *)
(* goroutine NewProcess starts to wait for quit.  Channels follow Go: a    *)
(* send on a closed channel panics, a send on an open channel without      *)
(* buffer waits for a receiver, a receive on a closed channel returns at   *)
(* once.  A panic in any goroutine ends the process.                       *)
(***************************************************************************)
EXTENDS Integers, Sequences, FiniteSets

CONSTANTS
    ClusterIds,     \* the IDs in the entries of dispatcher.Spec.Cluster
    ClusterIps,     \* the addresses in the entries
    MaxClusters,    \* bound on the length of dispatcher.Spec.Cluster
    NULL            \* Go's nil

ASSUME MaxClusters \in Nat

VARIABLES
    main,           \* where the goroutine of NewProcess and Run is
    watcher,        \* where the goroutine of NewProcess that waits for quit is
    quit,           \* the channel quit: TRUE when it is closed
    podQueue,       \* p.podQueue
    resetCh,        \* p.resetCh
    clusterIdList,  \* p.clusterIdList
    clusterIpMap,   \* p.clusterIpMap
    process         \* "running", "exited" (klog.Fatal) or "panicked"

vars == <<main, watcher, quit, podQueue, resetCh, clusterIdList, clusterIpMap, process>>

\* An entry of Spec.Cluster as strings.Split(cluster, "&") sees it: its
\* parts, two when it is well formed.
Entries == {<<id>> : id \in ClusterIds} \cup (ClusterIds \X ClusterIps)

SpecClusters == UNION {[1..n -> Entries] : n \in 0..MaxClusters}

\* make(chan ...) and close; of a channel only whether it is closed is
\* kept, since nothing is sent before the first send fails.
MakeChan == [closed |-> FALSE]

Close(ch) == [ch EXCEPT !.closed = TRUE]

\* A send on a channel no goroutine receives from.
Send(ch) == IF ch.closed THEN "panic" ELSE "wait"

\* convertClustersToMap: the list is made with the length of the input and
\* never written (the IDs go into the input instead); the map has the
\* address of every well-formed entry, the last one of an ID.
convertClustersToMap(clusters) ==
    [clusterIdList |-> [idx \in DOMAIN clusters |-> ""],
     clusterIpMap |->
        [id \in {clusters[idx][1] : idx \in {i \in DOMAIN clusters : Len(clusters[i]) = 2}} |->
            LET last == CHOOSE idx \in DOMAIN clusters :
                            /\ clusters[idx][1] = id /\ Len(clusters[idx]) = 2
                            /\ \A later \in DOMAIN clusters :
                                  clusters[later][1] = id /\ Len(clusters[later]) = 2 => later <= idx
            IN clusters[last][2]]]

\* NewProcess for a dispatcher the store has: both channels are made, the
\* goroutine that waits for quit is started, and the deferred calls close
\* both channels when NewProcess returns the Process that holds them.
NewProcess(clusters) ==
    /\ process = "running"
    /\ main = "start"
    /\ LET converted == convertClustersToMap(clusters) IN
          /\ clusterIdList' = converted.clusterIdList
          /\ clusterIpMap' = converted.clusterIpMap
    /\ podQueue' = Close(MakeChan)
    /\ resetCh' = Close(MakeChan)
    /\ watcher' = "select"
    /\ main' = "constructed"
    /\ UNCHANGED <<quit, process>>

\* The klog.Fatal exits of NewProcess: no client set can be made of the
\* config, or the store has no dispatcher of that name.
NewProcessFatal ==
    /\ process = "running"
    /\ main = "start"
    /\ process' = "exited"
    /\ UNCHANGED <<main, watcher, quit, podQueue, resetCh, clusterIdList, clusterIpMap>>

\* "resetCh <- struct{}{}" by one of the two goroutines.
SendReset(goroutine) ==
    \/ /\ Send(resetCh) = "panic"
       /\ process' = "panicked"
       /\ UNCHANGED <<main, watcher>>
    \/ /\ Send(resetCh) = "wait"
       /\ main' = IF goroutine = "main" THEN "sending" ELSE main
       /\ watcher' = IF goroutine = "watcher" THEN "sending" ELSE watcher
       /\ UNCHANGED process

\* Run from its call of addBoundedPodsToQueue to the first statement of
\* initPodInformer, which comes before any informer is started.  The
\* handlers Run registers before it never get an event.
Run ==
    /\ process = "running"
    /\ main = "constructed"
    /\ SendReset("main")
    /\ UNCHANGED <<quit, podQueue, resetCh, clusterIdList, clusterIpMap>>

\* The goroutine of NewProcess: "case <-quit: resetCh <- struct{}{}".
Quit ==
    /\ process = "running"
    /\ watcher = "select"
    /\ quit
    /\ SendReset("watcher")
    /\ UNCHANGED <<quit, podQueue, resetCh, clusterIdList, clusterIpMap>>

\* The caller of NewProcess closes quit to stop the dispatcher.
CloseQuit ==
    /\ process = "running"
    /\ ~quit
    /\ quit' = TRUE
    /\ UNCHANGED <<main, watcher, podQueue, resetCh, clusterIdList, clusterIpMap, process>>

Init ==
    /\ main = "start"
    /\ watcher = "none"
    /\ quit = FALSE
    /\ podQueue = NULL
    /\ resetCh = NULL
    /\ clusterIdList = NULL
    /\ clusterIpMap = NULL
    /\ process = "running"

Next ==
    \/ \E clusters \in SpecClusters : NewProcess(clusters)
    \/ NewProcessFatal
    \/ Run
    \/ Quit
    \/ CloseQuit

Spec == Init /\ [][Next]_vars

-----------------------------------------------------------------------------
(* What the specification says, and the code does not do. *)

\* The dispatcher fan-out "runs two long-lived watchers on workloads"
\* that "feed a single bounded channel": a process that NewProcess has
\* constructed goes on running when Run and the goroutine that waits for
\* quit use its channels.
ProcessKeepsRunning == main # "start" => process = "running"

=============================================================================
