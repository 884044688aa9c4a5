--------------------------- MODULE StackAccounting ---------------------------
(***************************************************************************)
(* What the site cache promises about a stack, as the specification of the *)
(* system gives it (SiteCache, operations and background expiry): a key is *)
(* absent, assumed, assumed with its binding finished, or added, and the   *)
(* stack is counted on the site it selected.  The cache of                 *)
(* resourcecollector/pkg/collector/internal/cache/cache.go is shown to     *)
(* implement this specification (CollectorCache, ImplementsAccounting).    *)
(***************************************************************************)
CONSTANTS
    Stacks,     \* stack keys
    Sites       \* site IDs

VARIABLES
    phase,      \* key -> where the stack is in its life
    countedOn,  \* key -> the sites whose resources count the stack
    serving     \* the cache answers calls

vars == <<phase, countedOn, serving>>

Phases == {"Absent", "Assumed", "Bound", "Added"}

TypeOK ==
    /\ phase \in [Stacks -> Phases]
    /\ countedOn \in [Stacks -> SUBSET Sites]
    /\ serving \in BOOLEAN

Init ==
    /\ phase = [key \in Stacks |-> "Absent"]
    /\ countedOn = [key \in Stacks |-> {}]
    /\ serving = TRUE

\* One key goes from one of the phases of from to the phase to, counted on
\* the sites of on.
Becomes(key, from, to, on) ==
    /\ phase[key] \in from
    /\ phase' = [phase EXCEPT ![key] = to]
    /\ countedOn' = [countedOn EXCEPT ![key] = on]
    /\ UNCHANGED serving

\* The scheduler places a stack tentatively.
Assume(key, site) == Becomes(key, {"Absent"}, "Assumed", {site})

\* The binding succeeded: the time to live of the assumption starts.
FinishBinding(key) == Becomes(key, {"Assumed"}, "Bound", countedOn[key])

\* The binding failed.
Forget(key) == Becomes(key, {"Assumed", "Bound"}, "Absent", {})

\* The store confirms the stack on the site it was assumed on, or reports a
\* stack whose assumption has expired.
Confirm(key) == Becomes(key, {"Assumed", "Bound"}, "Added", countedOn[key])
AddFresh(key, site) == Becomes(key, {"Absent"}, "Added", {site})

\* An added stack is counted on the site of its new object.
Update(key, site) == Becomes(key, {"Added"}, "Added", {site})

Remove(key) == Becomes(key, {"Added"}, "Absent", {})

\* One sweep of the expiry: some assumptions whose binding has finished.
Expire ==
    \E expired \in SUBSET {key \in Stacks : phase[key] = "Bound"} \ {{}} :
        /\ phase' = [key \in Stacks |-> IF key \in expired THEN "Absent" ELSE phase[key]]
        /\ countedOn' = [key \in Stacks |-> IF key \in expired THEN {} ELSE countedOn[key]]
        /\ UNCHANGED serving

\* A site leaves the cache with the counts of its stacks; the stacks keep
\* their phase until their own events arrive.
DropSite(site) ==
    /\ \E key \in Stacks : site \in countedOn[key]
    /\ countedOn' = [key \in Stacks |-> countedOn[key] \ {site}]
    /\ UNCHANGED <<phase, serving>>

\* The process stops in the middle of a call: counts may be lost with it,
\* and nothing changes afterwards.
Stop ==
    /\ serving' = FALSE
    /\ \A key \in Stacks : countedOn'[key] \subseteq countedOn[key]
    /\ UNCHANGED phase

\* A call that is refused, a read, or a call about the sites alone.
Other == UNCHANGED vars

Next ==
    /\ serving
    /\ \/ Other
       \/ \E key \in Stacks :
            \/ FinishBinding(key) \/ Forget(key) \/ Confirm(key) \/ Remove(key)
            \/ \E site \in Sites : Assume(key, site) \/ AddFresh(key, site) \/ Update(key, site)
       \/ Expire
       \/ \E site \in Sites : DropSite(site)
       \/ Stop

Spec == Init /\ [][Next]_vars

=============================================================================
