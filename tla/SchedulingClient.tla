-------------------------- MODULE SchedulingClient --------------------------
(***************************************************************************)
(* The client of the scheduling.k8s.io group for several API servers       *)
(* (client-go/kubernetes/typed/scheduling/v1/scheduling_client.go).        *)
(*                                                                         *)
(* A SchedulingV1Client holds one REST client per API server of its        *)
(* rest.Config.  NewForConfig builds them and starts a goroutine (run)     *)
(* that waits for membership updates, builds the clients of the new        *)
(* membership, installs them in c.restClients and reports NotifyDone.      *)
(* RESTClient and RESTClients read c.restClients from any goroutine, with  *)
(* no lock: RESTClient reads it twice, once for the length and once for    *)
(* the element, and each read is a step of its own here.                   *)
(*                                                                         *)
(* What is abstracted                                                      *)
(*  - a KubeConfig is its host and whether setConfigDefaults has filled    *)
(*    it; a REST client is the host it talks to;                           *)
(*  - the loops that build the clients touch local state only and are one  *)
(*    step;                                                                *)
(*  - rest.Config, the broadcaster behind WatchUpdate and the watcher of   *)
(*    apiserverupdate are not part of the sources.  They are modelled by   *)
(*    UpdateMembership and CloseRead under two assumptions: an update      *)
(*    reaches the members WatchUpdate has registered, and the sender       *)
(*    waits for NotifyDone before the next update.  Under the second one   *)
(*    the two calls of GetAllConfigs (lines 145 and 146) see one list.     *)
(***************************************************************************)
EXTENDS Naturals, Sequences, FiniteSets, SequencesExt

CONSTANTS
    Servers,        \* the API servers a membership may name
    BadServers,     \* servers for which rest.RESTClientFor returns an error
    Callers,        \* goroutines that call RESTClient and RESTClients
    MaxUpdates,     \* bound on the membership updates of a behaviour
    NULL

ASSUME /\ BadServers \subseteq Servers
       /\ MaxUpdates \in Nat

VARIABLES
    process,        \* "new", "running", "failed" (NewForConfig returned an
                    \* error), "panic" or "fatal" (klog.Fatalf)
    configs,        \* c.configs.GetAllConfigs(), NULL for a client made by New
    restClients,    \* c.restClients, NULL while there is no client object
    Read,           \* member.Read: updates not yet received, and closed
    updateComplete, \* the ClientSetsWatcher: AddWatcher, updates, NotifyDone
    watcher,        \* the goroutine of run(): its pc and its local clients
    callers,        \* per caller of RESTClient: pc and the index drawn
    returned        \* per caller: the client and the list it got last

vars == <<process, configs, restClients, Read, updateComplete, watcher, callers, returned>>

\* the lists of API servers a rest.Config may hold: no list is empty
Memberships == {SetToSeq(S) : S \in (SUBSET Servers) \ {{}}}

KubeConfigs(m, defaulted) ==
    [i \in DOMAIN m |-> [host |-> m[i], defaulted |-> defaulted]]

\* GroupVersion, APIPath, NegotiatedSerializer and UserAgent of every config
setConfigDefaults(cfgs) ==
    [i \in DOMAIN cfgs |-> [cfgs[i] EXCEPT !.defaulted = TRUE]]

\* rest.RESTClientFor: an error (NULL) without GroupVersion and serializer,
\* or when the host cannot be used
RESTClientFor(config) ==
    IF config.defaulted /\ config.host \notin BadServers
    THEN [host |-> config.host] ELSE NULL

\* `clients := make(...)' and the loop that fills it (lines 55-62, 145-153)
NewClients(cfgs) == [i \in DOMAIN cfgs |-> RESTClientFor(cfgs[i])]

Failed(clients) == \E i \in DOMAIN clients : clients[i] = NULL

Idle == [pc |-> "idle", ran |-> 0]

NoWatcher == [pc |-> "none", clients |-> <<>>]

Init ==
    /\ process = "new"
    /\ configs \in {KubeConfigs(m, FALSE) : m \in Memberships}
    /\ restClients = NULL
    /\ Read = [pending |-> 0, closed |-> FALSE]
    /\ updateComplete = [watchers |-> 0, updates |-> 0, done |-> 0]
    /\ watcher = NoWatcher
    /\ callers = [c \in Callers |-> Idle]
    /\ returned = [c \in Callers |-> [client |-> NULL, clients |-> NULL]]

----------------------------------------------------------------------------
(* Constructors *)

\* run(): the `go func' statement; the goroutine's body is the Watcher below
run == watcher' = [watcher EXCEPT !.pc = "start"]

\* NewForConfig; onError is what the caller makes of a returned error
NewForConfig(onError) ==
    /\ process = "new"
    /\ LET cfgs    == setConfigDefaults(configs)
           clients == NewClients(cfgs)
       IN  IF Failed(clients)
           THEN /\ process' = onError
                /\ UNCHANGED <<configs, restClients, watcher>>
           ELSE /\ process' = "running"
                /\ configs' = cfgs
                /\ restClients' = clients
                /\ run
    /\ UNCHANGED <<Read, updateComplete, callers, returned>>

NewForConfigOrDie == NewForConfig("panic")

\* New: one client, given by the caller; no configs and no goroutine
New(server) ==
    /\ process = "new"
    /\ process' = "running"
    /\ restClients' = <<[host |-> server]>>
    /\ configs' = NULL
    /\ UNCHANGED <<Read, updateComplete, watcher, callers, returned>>

----------------------------------------------------------------------------
(* The goroutine of run() *)

Registered == watcher.pc \notin {"none", "start"}

\* member := c.configs.WatchUpdate(); watcherForUpdateComplete.AddWatcher()
WatchUpdate ==
    /\ process = "running"
    /\ watcher.pc = "start"
    /\ watcher' = [watcher EXCEPT !.pc = "receive"]
    /\ updateComplete' = [updateComplete EXCEPT !.watchers = @ + 1]
    /\ UNCHANGED <<process, configs, restClients, Read, callers, returned>>

\* One value is taken from member.Read and the clients of the current
\* configs are built: run() does not call setConfigDefaults, so a config
\* the sender has not filled ends the process like a host that cannot be
\* used does
Take ==
    /\ Read' = [Read EXCEPT !.pending = @ - 1]
    /\ LET clients == NewClients(configs)
       IN  IF Failed(clients)
           THEN process' = "fatal" /\ UNCHANGED watcher
           ELSE /\ watcher' = [pc |-> "install", clients |-> clients]
                /\ UNCHANGED process

\* The loop ends
Leave ==
    /\ watcher' = [watcher EXCEPT !.pc = "done"]
    /\ UNCHANGED <<process, Read>>

\* Fault: a closed channel ends the loop although a value is still in it
ReceiveUnlessClosed ==
    /\ process = "running"
    /\ watcher.pc = "receive"
    /\ \/ Read.pending > 0 /\ ~Read.closed /\ Take
       \/ Read.closed /\ Leave
    /\ UNCHANGED <<configs, restClients, updateComplete, callers, returned>>

\* `for range member.Read' and the body up to the last client: an update is
\* received, or the channel is closed and drained and the goroutine ends
Receive ==
    /\ process = "running"
    /\ watcher.pc = "receive"
    /\ \/ Read.pending > 0 /\ Take
       \/ Read.pending = 0 /\ Read.closed /\ Leave
    /\ UNCHANGED <<configs, restClients, updateComplete, callers, returned>>

\* Fault: the new clients are installed only when their number has changed
InstallWhenResized ==
    /\ process = "running"
    /\ watcher.pc = "install"
    /\ restClients' = IF Len(watcher.clients) # Len(restClients)
                      THEN watcher.clients ELSE restClients
    /\ watcher' = [pc |-> "notify", clients |-> <<>>]
    /\ UNCHANGED <<process, configs, Read, updateComplete, callers, returned>>

\* c.restClients = clients
Install ==
    /\ process = "running"
    /\ watcher.pc = "install"
    /\ restClients' = watcher.clients
    /\ watcher' = [pc |-> "notify", clients |-> <<>>]
    /\ UNCHANGED <<process, configs, Read, updateComplete, callers, returned>>

\* Fault: NotifyDone is called in the inner loop, once for every client
NotifyDonePerClient ==
    /\ process = "running"
    /\ watcher.pc = "notify"
    /\ updateComplete' = [updateComplete EXCEPT !.done = @ + Len(restClients)]
    /\ watcher' = [watcher EXCEPT !.pc = "receive"]
    /\ UNCHANGED <<process, configs, restClients, Read, callers, returned>>

\* watcherForUpdateComplete.NotifyDone(), and back to the head of the loop
NotifyDone ==
    /\ process = "running"
    /\ watcher.pc = "notify"
    /\ updateComplete' = [updateComplete EXCEPT !.done = @ + 1]
    /\ watcher' = [watcher EXCEPT !.pc = "receive"]
    /\ UNCHANGED <<process, configs, restClients, Read, callers, returned>>

Watcher == WatchUpdate \/ Receive \/ Install \/ NotifyDone

----------------------------------------------------------------------------
(* The API server membership, outside the sources *)

\* the membership becomes m: the configs are replaced, with or without the
\* defaults of this group, and the registered member is told, once the
\* update before it has been reported done
UpdateMembership(m) ==
    /\ process = "running"
    /\ Registered
    /\ ~Read.closed
    /\ updateComplete.updates < MaxUpdates
    /\ updateComplete.done = updateComplete.updates
    /\ configs' \in {KubeConfigs(m, defaulted) : defaulted \in BOOLEAN} \ {configs}
    /\ Read' = [Read EXCEPT !.pending = @ + 1]
    /\ updateComplete' = [updateComplete EXCEPT !.updates = @ + 1]
    /\ UNCHANGED <<process, restClients, watcher, callers, returned>>

\* the broadcaster closes the member's channel
CloseRead ==
    /\ process = "running"
    /\ Registered
    /\ ~Read.closed
    /\ Read' = [Read EXCEPT !.closed = TRUE]
    /\ UNCHANGED <<process, configs, restClients, updateComplete, watcher, callers, returned>>

----------------------------------------------------------------------------
(* RESTClient and RESTClients, called from any goroutine *)

Alive == process \in {"new", "running"}

Return(c, client) ==
    /\ callers' = [callers EXCEPT ![c] = Idle]
    /\ returned' = [returned EXCEPT ![c].client = client]

\* RESTClient up to rand.Intn: nil for a nil client or an empty list, else
\* the index to read, 0 for one client and a random one for more
RESTClient(c) ==
    /\ Alive
    /\ callers[c].pc = "idle"
    /\ LET max == IF restClients = NULL THEN 0 ELSE Len(restClients)
       IN  \/ max = 0 /\ Return(c, NULL)
           \/ \E ran \in 0 .. max - 1 :
                /\ callers' = [callers EXCEPT ![c] = [pc |-> "index", ran |-> ran]]
                /\ UNCHANGED returned
    /\ UNCHANGED <<process, configs, restClients, Read, updateComplete, watcher>>

\* `return c.restClients[0]' and `return c.restClients[ran]': the second read
\* of the field; an index past the end of the list of now panics
Index(c) ==
    /\ Alive
    /\ callers[c].pc = "index"
    /\ IF callers[c].ran < Len(restClients)
       THEN Return(c, restClients[callers[c].ran + 1]) /\ UNCHANGED process
       ELSE /\ callers' = [callers EXCEPT ![c].pc = "panic"]
            /\ process' = "panic"
            /\ UNCHANGED returned
    /\ UNCHANGED <<configs, restClients, Read, updateComplete, watcher>>

\* RESTClients: the list as it is now, nil for a nil client
RESTClients(c) ==
    /\ Alive
    /\ callers[c].pc = "idle"
    /\ returned' = [returned EXCEPT ![c].clients = restClients]
    /\ UNCHANGED <<process, configs, restClients, Read, updateComplete, watcher, callers>>

----------------------------------------------------------------------------
Next ==
    \/ NewForConfig("failed")
    \/ NewForConfigOrDie
    \/ \E s \in Servers : New(s)
    \/ Watcher
    \/ \E m \in Memberships : UpdateMembership(m)
    \/ CloseRead
    \/ \E c \in Callers : RESTClient(c) \/ Index(c) \/ RESTClients(c)

Spec == Init /\ [][Next]_vars

\* the Go scheduler runs the goroutine of run() whenever it can take a step
FairSpec == Spec /\ WF_vars(Watcher)

----------------------------------------------------------------------------
Clients == [host : Servers]

TypeOK ==
    /\ process \in {"new", "running", "failed", "panic", "fatal"}
    /\ configs \in {NULL} \cup Seq([host : Servers, defaulted : BOOLEAN])
    /\ restClients \in {NULL} \cup Seq(Clients)
    /\ Read \in [pending : 0 .. MaxUpdates, closed : BOOLEAN]
    /\ updateComplete \in [watchers : 0 .. 1, updates : 0 .. MaxUpdates,
                           done : 0 .. updateComplete.updates]
    /\ watcher \in [pc : {"none", "start", "receive", "install", "notify", "done"},
                    clients : Seq(Clients)]
    /\ callers \in [Callers -> [pc : {"idle", "index", "panic"},
                                ran : 0 .. Cardinality(Servers)]]
    /\ returned \in [Callers -> [client : {NULL} \cup Clients,
                                 clients : {NULL} \cup Seq(Clients)]]

\* NotifyDone means what it says: whenever every membership update has been
\* reported done, the installed clients are those of the current configs,
\* one per API server and in their order.  It is about the order of lines
\* 154 and 155 of run() and about NewForConfig installing the first clients
\* before it starts the goroutine.
AdoptedWhenAcknowledged ==
    (configs # NULL /\ restClients # NULL
        /\ updateComplete.done = updateComplete.updates)
    => restClients = NewClients(configs)

\* Every membership update is reported done unless the process has ended:
\* the loop of run() reaches NotifyDone for every value it reads, also from
\* a channel that has been closed with a value still in it.
UpdateIsAcknowledged ==
    [](updateComplete.done < updateComplete.updates
        => <>(updateComplete.done = updateComplete.updates \/ process # "running"))

=============================================================================
