--------------------------- MODULE CollectorCache ---------------------------
(***************************************************************************)
(* The resource collector's site cache                                     *)
(* (resourcecollector/pkg/collector/internal/cache/cache.go).              *)
(*                                                                         *)
(* collectorCache keeps one SiteCacheInfo per site in a map whose values   *)
(* are the items of a doubly linked list ordered most-recently-updated     *)
(* first, the states of the stacks placed or assumed on the sites, an      *)
(* index from region to sites and a tree of the sites.  Every exported     *)
(* method takes the one mutex cache.mu for its whole body, so a method is  *)
(* one atomic action here.  The methods can be called in any order with    *)
(* any argument: the module is the cache as a library, and the error       *)
(* returns of the code are its only protection.                            *)
(*                                                                         *)
(* SiteCacheInfo and siteTree are defined in other packages; what they do  *)
(* is taken from the specification of the system (the SiteInfo... and     *)
(* Tree... definitions).                                                   *)
(***************************************************************************)
EXTENDS Integers, Sequences, FiniteSets, SequencesExt

CONSTANTS
    Sites,          \* site IDs
    Regions,        \* RegionAzMap.Region
    AZs,            \* RegionAzMap.AvailabilityZone
    Stacks,         \* stack keys (GetStackKey)
    NULL,           \* Go's nil
    TTL,            \* cache.ttl, in ticks of the clock
    MaxGeneration,  \* bound on the generation counter
    MaxTime         \* bound on the clock

ASSUME /\ TTL \in Nat /\ MaxGeneration \in Nat /\ MaxTime \in Nat
       /\ NULL \notin Sites \cup Stacks

VARIABLES
    siteCacheInfos,     \* cache.siteCacheInfos: site ID -> list item
    headSiteCacheInfo,  \* cache.headSiteCacheInfo: site ID of the head item
    generation,         \* the package-wide counter behind nextGeneration()
    assumedStacks,      \* cache.assumedStacks: the keys mapped to true
    stackStates,        \* cache.stackStates: key -> StackState
    regionToSite,       \* cache.regionToSite: region -> set of site IDs
    siteTree,           \* cache.siteTree
    snapshot,           \* the Snapshot a scheduling cycle passes in
    now,                \* the clock read by the expiry goroutine
    proc                \* "running", or how the process stopped

vars == <<siteCacheInfos, headSiteCacheInfo, generation, assumedStacks,
          stackStates, regionToSite, siteTree, snapshot, now, proc>>

-----------------------------------------------------------------------------
(* Data *)

\* types.Site, as far as the cache reads it.
Site == [SiteID : Sites, Region : Regions, AvailabilityZone : AZs]

\* The group of the site tree a site belongs to.
ZoneOf(site) == <<site.Region, site.AvailabilityZone>>

\* NewSiteCacheInfo(): no site yet, no stacks, a fresh generation.
SiteInfoNew(g) == [site |-> NULL, stacks |-> EmptyBag, generation |-> g]

\* SiteCacheInfo.AddStack, SetSite and the Update* methods: each one stamps
\* the info with the next generation.
SiteInfoAddStack(info, key, g) ==
    [info EXCEPT !.stacks = @ (+) SetToBag({key}), !.generation = g]

SiteInfoRemoveStack(info, key, g) ==
    [info EXCEPT !.stacks = @ (-) SetToBag({key}), !.generation = g]

SiteInfoSetSite(info, site, g) ==
    [info EXCEPT !.site = site, !.generation = g]

SiteInfoUpdate(info, g) == [info EXCEPT !.generation = g]

\* newSiteCacheInfoListItem: an item that is in no list.
newSiteCacheInfoListItem(info) == [info |-> info, next |-> NULL, prev |-> NULL]

-----------------------------------------------------------------------------
(* The list of items.  The helpers below take and return the part of the   *)
(* cache they work on, so that a method can chain them under its lock.     *)

Cur == [items |-> siteCacheInfos, head |-> headSiteCacheInfo, gen |-> generation]

Install(S) ==
    /\ siteCacheInfos' = S.items
    /\ headSiteCacheInfo' = S.head
    /\ generation' = S.gen

Cached(S) == DOMAIN S.items

RECURSIVE WalkFrom(_, _, _)
WalkFrom(items, id, fuel) ==
    IF id = NULL \/ id \notin DOMAIN items \/ fuel = 0
    THEN <<>>
    ELSE <<id>> \o WalkFrom(items, items[id].next, fuel - 1)

\* The site IDs met when following next from the head.  One step more than
\* there are items, so that a cycle shows as a repeated ID.
MRU(S) == WalkFrom(S.items, S.head, Cardinality(Cached(S)) + 1)

moveSiteCacheInfoToHead(S, id) ==
    IF id \notin Cached(S) \/ S.head = id
    THEN S
    ELSE LET ni == S.items[id]
             i1 == IF ni.prev # NULL
                   THEN [S.items EXCEPT ![ni.prev].next = ni.next] ELSE S.items
             i2 == IF ni.next # NULL
                   THEN [i1 EXCEPT ![ni.next].prev = ni.prev] ELSE i1
             i3 == IF S.head # NULL
                   THEN [i2 EXCEPT ![S.head].prev = id] ELSE i2
         IN [S EXCEPT !.items = [i3 EXCEPT ![id].next = S.head, ![id].prev = NULL],
                      !.head = id]

\* Fault: the head is left on the removed item.
removeSiteCacheInfoFromListKeepsHead(S, id) ==
    IF id \notin Cached(S)
    THEN S
    ELSE LET ni == S.items[id]
             i1 == IF ni.prev # NULL
                   THEN [S.items EXCEPT ![ni.prev].next = ni.next] ELSE S.items
             i2 == IF ni.next # NULL
                   THEN [i1 EXCEPT ![ni.next].prev = ni.prev] ELSE i1
         IN [S EXCEPT !.items = [s \in Cached(S) \ {id} |-> i2[s]]]

removeSiteCacheInfoFromList(S, id) ==
    IF id \notin Cached(S)
    THEN S
    ELSE LET ni == S.items[id]
             i1 == IF ni.prev # NULL
                   THEN [S.items EXCEPT ![ni.prev].next = ni.next] ELSE S.items
             i2 == IF ni.next # NULL
                   THEN [i1 EXCEPT ![ni.next].prev = ni.prev] ELSE i1
         IN [S EXCEPT !.items = [s \in Cached(S) \ {id} |-> i2[s]],
                      !.head = IF S.head = id THEN ni.next ELSE S.head]

\* "n, ok := cache.siteCacheInfos[id]; if !ok { n = new item; store it }"
EnsureItem(S, id) ==
    IF id \in Cached(S)
    THEN S
    ELSE [S EXCEPT
            !.items = (id :> newSiteCacheInfoListItem(SiteInfoNew(S.gen + 1))) @@ @,
            !.gen = @ + 1]

\* Apply a SiteCacheInfo method that stamps a generation to the item of id.
Stamp(S, id, Method(_, _)) ==
    [S EXCEPT !.items[id].info = Method(@, S.gen + 1), !.gen = @ + 1]

\* Fault: the stack is added and the item stays where it is in the list.
addStackInPlace(S, key, id) ==
    LET created == EnsureItem(S, id)
    IN IF id \in Cached(S)
       THEN Stamp(created, id, LAMBDA info, g : SiteInfoAddStack(info, key, g))
       ELSE moveSiteCacheInfoToHead(
               Stamp(created, id, LAMBDA info, g : SiteInfoAddStack(info, key, g)), id)

addStack(S, key, id) ==
    LET created == EnsureItem(S, id)
        added   == Stamp(created, id, LAMBDA info, g : SiteInfoAddStack(info, key, g))
    IN moveSiteCacheInfoToHead(added, id)

\* removeStack returns the error of SiteCacheInfo.RemoveStack: the site is
\* cached and does not hold the stack.
removeStackFails(S, key, id) ==
    id \in Cached(S) /\ ~BagIn(key, S.items[id].info.stacks)

\* The cache after a removeStack that returned nil.
removeStack(S, key, id) ==
    IF id \notin Cached(S)
    THEN S
    ELSE moveSiteCacheInfoToHead(
            Stamp(S, id, LAMBDA info, g : SiteInfoRemoveStack(info, key, g)), id)

\* Fault: the stack is added to the new site and left on the old one.
updateStackAddsOnly(S, key, oldId, newId) == addStack(S, key, newId)

updateStack(S, key, oldId, newId) == addStack(removeStack(S, key, oldId), key, newId)

-----------------------------------------------------------------------------
(* The site tree: the zones in the order they appeared and, for each zone, *)
(* its sites in the order they were added.                                 *)

TreeEmpty == [zones |-> <<>>, sites |-> <<>>]

\* A nil site is in no group.
TreeHas(tree, site) ==
    /\ site # NULL
    /\ ZoneOf(site) \in DOMAIN tree.sites
    /\ Contains(tree.sites[ZoneOf(site)], site.SiteID)

TreeAddSite(tree, site) ==
    LET zone == ZoneOf(site) IN
    IF zone \notin DOMAIN tree.sites
    THEN [zones |-> Append(tree.zones, zone),
          sites |-> (zone :> <<site.SiteID>>) @@ tree.sites]
    ELSE IF TreeHas(tree, site)
    THEN tree
    ELSE [tree EXCEPT !.sites[zone] = Append(@, site.SiteID)]

\* removeSite fails for a site that is not in the group its zone names.
TreeRemoveFails(tree, site) == ~TreeHas(tree, site)

\* The tree after a removeSite that returned nil; an emptied zone goes too.
TreeRemoveSite(tree, site) ==
    LET zone == ZoneOf(site)
        left == SelectSeq(tree.sites[zone], LAMBDA id : id # site.SiteID)
    IN IF left # <<>>
       THEN [tree EXCEPT !.sites[zone] = left]
       ELSE [zones |-> SelectSeq(tree.zones, LAMBDA z : z # zone),
             sites |-> [z \in DOMAIN tree.sites \ {zone} |-> tree.sites[z]]]

\* updateSite does nothing when the zone is the same, else it removes the
\* old site, whether it finds it or not, and adds the new one.
TreeUpdateSite(tree, old, new) ==
    IF ZoneOf(old) = ZoneOf(new)
    THEN tree
    ELSE TreeAddSite(IF TreeRemoveFails(tree, old) THEN tree
                     ELSE TreeRemoveSite(tree, old), new)

TreeNumSites(tree) ==
    FoldLeft(LAMBDA n, zone : n + Len(tree.sites[zone]), 0, tree.zones)

\* numSites calls of next(): round-robin over the zones, each zone in the
\* order of insertion.
TreeOrder(tree) ==
    LET Round(r) ==
            LET zs == SelectSeq(tree.zones, LAMBDA z : Len(tree.sites[z]) >= r)
            IN [i \in 1..Len(zs) |-> tree.sites[zs[i]][r]]
    IN FlattenSeq([r \in 1..TreeNumSites(tree) |-> Round(r)])

-----------------------------------------------------------------------------
(* The region index *)

updateRegionToSite(index, site) ==
    [index EXCEPT ![site.Region] = @ \cup {site.SiteID}]

\* Fault: the site stays in the index of its old region.
deleteRegionToSiteNot(index, site) == index

deleteRegionToSite(index, site) ==
    [index EXCEPT ![site.Region] = @ \ {site.SiteID}]

-----------------------------------------------------------------------------
(* Guards shared by the methods *)

\* cache.mu can be taken: no method is stuck inside it, the process lives.
Running == proc = "running"

\* The counter has room for n more generations.
GenRoom(n) == generation + n <= MaxGeneration

IsAssumed(key) == key \in DOMAIN stackStates /\ key \in assumedStacks
IsAdded(key)   == key \in DOMAIN stackStates /\ key \notin assumedStacks

\* Fault: the entry is set to nil and stays in the map.
WithoutAsNil(f, key) == [f EXCEPT ![key] = NULL]

\* stackStates without one key: delete(cache.stackStates, key).
Without(f, key) == [k \in DOMAIN f \ {key} |-> f[k]]

\* GetStack: the site of the stack the cache has for the key, nil with the
\* error for a key it does not have.
GetStack(key) == IF key \in DOMAIN stackStates THEN stackStates[key].stack ELSE NULL

StackState(id) == [stack |-> id, deadline |-> NULL, bindingFinished |-> FALSE]

-----------------------------------------------------------------------------
(* Stacks.  A stack is its key and the site it selected; key and id below  *)
(* are the two fields of the *types.Stack a method is called with.  A      *)
(* method that returns an error before it changed anything is the disjunct *)
(* Rejected.                                                               *)

\* What no stack method touches.
SitesUntouched == UNCHANGED <<regionToSite, siteTree, snapshot, now>>

Rejected == UNCHANGED vars

AssumeStack(key, id) ==
    /\ Running
    /\ \/ key \in DOMAIN stackStates /\ Rejected
       \/ /\ key \notin DOMAIN stackStates
          /\ GenRoom(2)
          /\ Install(addStack(Cur, key, id))
          /\ stackStates' = (key :> StackState(id)) @@ stackStates
          /\ assumedStacks' = assumedStacks \cup {key}
          /\ UNCHANGED proc /\ SitesUntouched

\* FinishBinding starts the time to live of an assumed stack; for any other
\* key it returns without a change.
FinishBinding(key) ==
    /\ Running
    /\ IsAssumed(key)
    /\ stackStates' = [stackStates EXCEPT ![key].bindingFinished = TRUE,
                                          ![key].deadline = now + TTL]
    /\ UNCHANGED <<siteCacheInfos, headSiteCacheInfo, generation, assumedStacks, proc>>
    /\ SitesUntouched

\* Fault: the state of the stack is deleted and its key stays assumed.
ForgetStackKeepsAssumed(key, id) ==
    /\ Running
    /\ IsAssumed(key)
    /\ ~removeStackFails(Cur, key, id)
    /\ GenRoom(1)
    /\ Install(removeStack(Cur, key, id))
    /\ stackStates' = Without(stackStates, key)
    /\ UNCHANGED <<assumedStacks, proc>> /\ SitesUntouched

ForgetStack(key, id) ==
    /\ Running
    /\ \/ (~IsAssumed(key) \/ removeStackFails(Cur, key, id)) /\ Rejected
       \/ /\ IsAssumed(key)
          /\ ~removeStackFails(Cur, key, id)
          /\ GenRoom(1)
          /\ Install(removeStack(Cur, key, id))
          /\ assumedStacks' = assumedStacks \ {key}
          /\ stackStates' = Without(stackStates, key)
          /\ UNCHANGED proc /\ SitesUntouched

\* AddStack of a stack that was assumed on the site it is confirmed on.
AddStackConfirmed(key, id) ==
    /\ IsAssumed(key)
    /\ stackStates[key].stack = id
    /\ assumedStacks' = assumedStacks \ {key}
    /\ stackStates' = [stackStates EXCEPT ![key].deadline = NULL, ![key].stack = id]
    /\ UNCHANGED <<siteCacheInfos, headSiteCacheInfo, generation, proc>>
    /\ SitesUntouched

\* AddStack of a stack that was assumed on another site: it is taken off the
\* assumed site (an error of removeStack is only logged), and then the
\* method calls the exported AddStack, which waits for the mutex its caller
\* holds.  Neither returns; no other method gets the mutex again.
AddStackElsewhere(key, id) ==
    /\ IsAssumed(key)
    /\ stackStates[key].stack # id
    /\ GenRoom(1)
    /\ LET assumedOn == stackStates[key].stack
       IN Install(IF removeStackFails(Cur, key, assumedOn) THEN Cur
                  ELSE removeStack(Cur, key, assumedOn))
    /\ proc' = "deadlocked"
    /\ UNCHANGED <<assumedStacks, stackStates>> /\ SitesUntouched

\* AddStack of a stack the cache does not know: its assumption expired.
AddStackExpired(key, id) ==
    /\ key \notin DOMAIN stackStates
    /\ GenRoom(2)
    /\ Install(addStack(Cur, key, id))
    /\ stackStates' = (key :> StackState(id)) @@ stackStates
    /\ UNCHANGED <<assumedStacks, proc>> /\ SitesUntouched

AddStack(key, id) ==
    /\ Running
    /\ \/ AddStackConfirmed(key, id)
       \/ AddStackElsewhere(key, id)
       \/ AddStackExpired(key, id)
       \/ IsAdded(key) /\ Rejected

UpdateStack(key, oldId, newId) ==
    /\ Running
    /\ \/ (~IsAdded(key) \/ removeStackFails(Cur, key, oldId)) /\ Rejected
       \/ /\ IsAdded(key)
          /\ ~removeStackFails(Cur, key, oldId)
          /\ GenRoom(3)
          /\ Install(updateStack(Cur, key, oldId, newId))
          /\ stackStates' = [stackStates EXCEPT ![key].stack = newId]
          /\ UNCHANGED <<assumedStacks, proc>> /\ SitesUntouched

\* RemoveStack takes the stack off the site the cache has for it; the site
\* of its argument is only compared for the log.
RemoveStack(key) ==
    /\ Running
    /\ \/ (~IsAdded(key) \/ removeStackFails(Cur, key, GetStack(key))) /\ Rejected
       \/ /\ IsAdded(key)
          /\ ~removeStackFails(Cur, key, GetStack(key))
          /\ GenRoom(1)
          /\ Install(removeStack(Cur, key, GetStack(key)))
          /\ stackStates' = Without(stackStates, key)
          /\ UNCHANGED <<assumedStacks, proc>> /\ SitesUntouched

-----------------------------------------------------------------------------
(* Sites *)

StacksUntouched == UNCHANGED <<assumedStacks, stackStates, snapshot, now, proc>>

\* SetSite on the item of the site, as the last step of AddSite and UpdateSite.
SetSite(S, site) ==
    Stamp(S, site.SiteID, LAMBDA info, g : SiteInfoSetSite(info, site, g))

AddSite(site) ==
    /\ Running
    /\ GenRoom(2)
    /\ Install(SetSite(moveSiteCacheInfoToHead(EnsureItem(Cur, site.SiteID),
                                               site.SiteID), site))
    /\ siteTree' = TreeAddSite(siteTree, site)
    /\ regionToSite' = updateRegionToSite(regionToSite, site)
    /\ StacksUntouched

\* old and new are two versions of one site.
UpdateSite(old, new) ==
    /\ Running
    /\ old.SiteID = new.SiteID
    /\ GenRoom(2)
    /\ Install(SetSite(moveSiteCacheInfoToHead(EnsureItem(Cur, new.SiteID),
                                               new.SiteID), new))
    /\ siteTree' = TreeUpdateSite(IF new.SiteID \in Cached(Cur) THEN siteTree
                                  ELSE TreeAddSite(siteTree, new), old, new)
    /\ regionToSite' = updateRegionToSite(deleteRegionToSite(regionToSite, old), new)
    /\ StacksUntouched

\* RemoveSite drops the item with the stacks it counts; stackStates keeps
\* them.  When the tree does not have the site the method returns the
\* tree's error with the item gone and the region index as it was.
RemoveSite(id) ==
    /\ Running
    /\ \/ id \notin Cached(Cur) /\ Rejected
       \/ /\ id \in Cached(Cur)
          /\ Install(removeSiteCacheInfoFromList(Cur, id))
          /\ LET site == siteCacheInfos[id].info.site IN
                \/ /\ TreeRemoveFails(siteTree, site)
                   /\ UNCHANGED <<siteTree, regionToSite>>
                \/ /\ ~TreeRemoveFails(siteTree, site)
                   /\ siteTree' = TreeRemoveSite(siteTree, site)
                   /\ regionToSite' = deleteRegionToSite(regionToSite, site)
          /\ StacksUntouched

\* Fault: the info is updated and the item stays where it is in the list.
TouchInPlace(S, id) == Stamp(S, id, SiteInfoUpdate)

\* One update of the resources of a cached site: the info takes the data
\* and a generation, the item goes to the head.
Touch(S, id) == moveSiteCacheInfoToHead(Stamp(S, id, SiteInfoUpdate), id)

\* UpdateEipPool and UpdateVolumePool: the pool of a region goes to every
\* site the index has for the region, in the order the set is ranged over;
\* a site of the index that is not cached is logged and skipped.
UpdatePool(region) ==
    /\ Running
    /\ LET targets == regionToSite[region] \cap Cached(Cur) IN
          /\ GenRoom(Cardinality(targets))
          /\ \E order \in SetToSeqs(targets) : Install(FoldLeft(Touch, Cur, order))
    /\ UNCHANGED <<regionToSite, siteTree>> /\ StacksUntouched

\* UpdateSiteWithResInfo and UpdateQos: one site; nothing for an unknown one.
UpdateSiteInfo(id) ==
    /\ Running
    /\ \/ id \notin Cached(Cur) /\ Rejected
       \/ /\ id \in Cached(Cur)
          /\ GenRoom(1)
          /\ Install(Touch(Cur, id))
          /\ UNCHANGED <<regionToSite, siteTree>> /\ StacksUntouched

\* The cached infos that have no site: made by addStack for a site that
\* AddSite has not announced.
SiteLess(S) == {id \in Cached(S) : S.items[id].info.site = NULL}

InZone(S, region, az) ==
    {id \in Cached(S) \ SiteLess(S) :
        /\ S.items[id].info.site.Region = region
        /\ S.items[id].info.site.AvailabilityZone = az}

\* A method that reads GetSite().RegionAzMap of the infos it ranges over
\* dereferences nil at an info without a site.
NilSitePanic ==
    /\ SiteLess(Cur) # {}
    /\ proc' = "panicked"
    /\ UNCHANGED <<siteCacheInfos, headSiteCacheInfo, generation, assumedStacks,
                   stackStates, regionToSite, siteTree, snapshot, now>>

\* UpdateSiteWithRatio and UpdateSpotResources: the first info of the map
\* in the zone is updated, and the loop ends there.  The map is ranged over
\* in any order, so any site of the zone can be the first, and an info
\* without a site can come before it.
UpdateZoneInfo(region, az) ==
    /\ Running
    /\ \/ \E id \in InZone(Cur, region, az) :
            /\ GenRoom(1)
            /\ Install(Touch(Cur, id))
            /\ UNCHANGED <<regionToSite, siteTree>> /\ StacksUntouched
       \/ InZone(Cur, region, az) = {} /\ SiteLess(Cur) = {} /\ Rejected
       \/ NilSitePanic

\* GetRegions reads the zone of every cached info.
GetRegions ==
    /\ Running
    /\ \/ SiteLess(Cur) = {} /\ Rejected
       \/ NilSitePanic

\* PrintString reads the site of every cached info and takes no lock: a
\* method stuck inside the mutex does not stop it.
PrintString ==
    /\ proc # "panicked"
    /\ \/ SiteLess(Cur) = {} /\ Rejected
       \/ NilSitePanic

-----------------------------------------------------------------------------
(* UpdateSnapshot *)

SnapshotEmpty == [generation |-> 0, SiteCacheInfoMap |-> <<>>, SiteCacheInfoList |-> <<>>]

\* The items the walk from the head visits before it meets one that is not
\* newer than the snapshot.
UpdatedSince(S, g) ==
    LET order == MRU(S)
        Newer(i) == S.items[order[i]].info.generation > g
    IN {order[i] : i \in {j \in DOMAIN order : \A h \in 1..j : Newer(h)}}

\* Fault: the walk ends at the first info without a site.
WalkedMapToSiteLess(S, snap) ==
    LET order  == MRU(S)
        sited  == {j \in DOMAIN order : \A h \in 1..j : order[h] \notin SiteLess(S)}
        cloned == UpdatedSince(S, snap.generation) \cap {order[j] : j \in sited}
    IN [id \in DOMAIN snap.SiteCacheInfoMap \cup cloned |->
            IF id \in cloned THEN S.items[id].info ELSE snap.SiteCacheInfoMap[id]]

\* The snapshot's map after the walk: a clone of every visited info that
\* has a site, the entries of the others as they were.
WalkedMap(S, snap) ==
    LET cloned == UpdatedSince(S, snap.generation) \ SiteLess(S)
    IN [id \in DOMAIN snap.SiteCacheInfoMap \cup cloned |->
            IF id \in cloned THEN S.items[id].info ELSE snap.SiteCacheInfoMap[id]]

\* updateSiteCacheInfoSnapshotList: the sites of the tree, in its order,
\* that the snapshot's map has.
ListOf(map) == SelectSeq(TreeOrder(siteTree), LAMBDA id : id \in DOMAIN map)

\* The snapshot UpdateSnapshot leaves when removeDeletedSiteCacheInfosFromSnapshot
\* deletes the entries of gone: as many entries of uncached sites as the
\* snapshot's map is larger than the cache's, whichever the range over the
\* map meets first.
Refreshed(S, snap, gone) ==
    LET walked == WalkedMap(S, snap)
        kept   == [id \in DOMAIN walked \ gone |-> walked[id]]
        anyNew == DOMAIN walked # DOMAIN snap.SiteCacheInfoMap
    IN [generation |-> IF S.head # NULL THEN S.items[S.head].info.generation
                       ELSE snap.generation,
        SiteCacheInfoMap |-> kept,
        SiteCacheInfoList |-> IF anyNew \/ gone # {} THEN ListOf(kept)
                              ELSE snap.SiteCacheInfoList]

\* The sets of entries removeDeletedSiteCacheInfosFromSnapshot can delete.
Deletable(S, snap) ==
    LET walked == DOMAIN WalkedMap(S, snap)
        excess == Max({0, Cardinality(walked) - Cardinality(Cached(S))})
    IN kSubset(excess, walked \ Cached(S))

Consistent(snap) == Len(snap.SiteCacheInfoList) = TreeNumSites(siteTree)

\* UpdateSnapshot returns nil.
UpdateSnapshot ==
    /\ Running
    /\ \E gone \in Deletable(Cur, snapshot) :
        /\ Consistent(Refreshed(Cur, snapshot, gone))
        /\ snapshot' = Refreshed(Cur, snapshot, gone)
    /\ UNCHANGED <<siteCacheInfos, headSiteCacheInfo, generation, assumedStacks,
                   stackStates, regionToSite, siteTree, now, proc>>

\* UpdateSnapshot finds the list and the tree of different lengths: it
\* builds the list again and returns the error.
UpdateSnapshotInconsistent ==
    /\ Running
    /\ \E gone \in Deletable(Cur, snapshot) :
        LET snap == Refreshed(Cur, snapshot, gone) IN
        /\ ~Consistent(snap)
        /\ snapshot' = [snap EXCEPT !.SiteCacheInfoList = ListOf(snap.SiteCacheInfoMap)]
    /\ UNCHANGED <<siteCacheInfos, headSiteCacheInfo, generation, assumedStacks,
                   stackStates, regionToSite, siteTree, now, proc>>

-----------------------------------------------------------------------------
(* Expiry *)

\* The assumed stacks cleanupAssumedStacks(now) passes to expireStack.
Expiring ==
    {key \in assumedStacks :
        /\ stackStates[key].bindingFinished
        /\ now > stackStates[key].deadline}

\* Fault: the expired stack stays counted on its site.
expireStackKeepsCount(S, key) == S

expireStack(S, key) == removeStack(S, key, stackStates[key].stack)

\* One run of the expiry goroutine: the expiring stacks whose site still
\* holds them are removed, in the order the set is ranged over; the error
\* of the others is logged and they stay assumed.
cleanupAssumedStacks ==
    /\ Running
    /\ LET expired == {key \in Expiring :
                          ~removeStackFails(Cur, key, stackStates[key].stack)} IN
          /\ GenRoom(Cardinality(expired))
          /\ \E order \in SetToSeqs(expired) : Install(FoldLeft(expireStack, Cur, order))
          /\ assumedStacks' = assumedStacks \ expired
          /\ stackStates' = [key \in DOMAIN stackStates \ expired |-> stackStates[key]]
    /\ UNCHANGED <<regionToSite, siteTree, snapshot, now, proc>>

Tick ==
    /\ now < MaxTime
    /\ now' = now + 1
    /\ UNCHANGED <<siteCacheInfos, headSiteCacheInfo, generation, assumedStacks,
                   stackStates, regionToSite, siteTree, snapshot, proc>>

-----------------------------------------------------------------------------
(* What the read-locked methods return *)

IsAssumedStack(key) == key \in assumedStacks

\* Dump: a copy of the infos and of the assumed keys.
Dump == [SiteCacheInfos |-> [id \in Cached(Cur) |-> siteCacheInfos[id].info],
         AssumedStacks |-> assumedStacks]

\* List: the stacks of all cached infos, each as often as it is counted.
List == FoldLeft(LAMBDA bag, id : bag (+) siteCacheInfos[id].info.stacks,
                 EmptyBag, SetToSeq(DOMAIN siteCacheInfos))

-----------------------------------------------------------------------------
(* Specification *)

Init ==
    /\ siteCacheInfos = <<>>
    /\ headSiteCacheInfo = NULL
    /\ generation = 0
    /\ assumedStacks = {}
    /\ stackStates = <<>>
    /\ regionToSite = [r \in Regions |-> {}]
    /\ siteTree = TreeEmpty
    /\ snapshot = SnapshotEmpty
    /\ now = 0
    /\ proc = "running"

(* The callers.  The scheduler takes snapshots, assumes a stack on a site  *)
(* of its snapshot and finishes or forgets the binding; the informers      *)
(* report the sites and the stacks of the store; the collector reports     *)
(* resources; a timer runs the expiry.  They run concurrently, so their    *)
(* calls come in any order, but each passes the objects it holds: the      *)
(* stack it gave the cache last, the site it announced last.               *)

\* The sites of the stack object a caller can hold for a key.
HeldSites(key) == IF key \in DOMAIN stackStates THEN {GetStack(key)} ELSE Sites

\* The site informer has announced the site and not deleted it.
Announced(id) == id \in Cached(Cur) \ SiteLess(Cur)

\* The old object of an update event is the one the add or update event
\* before it delivered.
IsUpdateEvent(old, new) ==
    /\ Announced(new.SiteID)
    /\ old = siteCacheInfos[new.SiteID].info.site

Scheduler ==
    \/ UpdateSnapshot
    \/ UpdateSnapshotInconsistent
    \/ \E key \in Stacks :
        \/ \E id \in DOMAIN snapshot.SiteCacheInfoMap : AssumeStack(key, id)
        \/ \E id \in HeldSites(key) : ForgetStack(key, id)
        \/ FinishBinding(key)

StackInformer ==
    \E key \in Stacks :
        \/ \E id \in Sites : AddStack(key, id)
        \/ \E id \in HeldSites(key), newId \in Sites : UpdateStack(key, id, newId)
        \/ RemoveStack(key)

SiteInformer ==
    \/ \E site \in Site : ~Announced(site.SiteID) /\ AddSite(site)
    \/ \E old, new \in Site : IsUpdateEvent(old, new) /\ UpdateSite(old, new)
    \/ \E id \in Sites : Announced(id) /\ RemoveSite(id)

Collector ==
    \/ \E id \in Sites : UpdateSiteInfo(id)
    \/ \E region \in Regions : UpdatePool(region)
    \/ \E region \in Regions, az \in AZs : UpdateZoneInfo(region, az)
    \/ GetRegions
    \/ PrintString

Next ==
    \/ Scheduler
    \/ StackInformer
    \/ SiteInformer
    \/ Collector
    \/ cleanupAssumedStacks
    \/ Tick

Spec == Init /\ [][Next]_vars

\* The cache as a library: every method, with any argument, in any order.
\* Only the error returns of the methods protect the cache here.
NextAnyCaller ==
    \/ \E key \in Stacks, id \in Sites :
        \/ AssumeStack(key, id)
        \/ ForgetStack(key, id)
        \/ AddStack(key, id)
        \/ \E newId \in Sites : UpdateStack(key, id, newId)
    \/ \E key \in Stacks : FinishBinding(key) \/ RemoveStack(key)
    \/ \E site \in Site : AddSite(site)
    \/ \E old, new \in Site : UpdateSite(old, new)
    \/ \E id \in Sites : RemoveSite(id)
    \/ Collector
    \/ UpdateSnapshot
    \/ UpdateSnapshotInconsistent
    \/ cleanupAssumedStacks
    \/ Tick

SpecAnyCaller == Init /\ [][NextAnyCaller]_vars

-----------------------------------------------------------------------------
(* Properties *)

SiteCacheInfoType ==
    [site : Site \cup {NULL},
     stacks : UNION {[held -> 1..MaxGeneration] : held \in SUBSET Stacks},
     generation : 1..MaxGeneration]

\* The type invariant: every variable holds what its Go type holds, a nil
\* pointer as NULL.
TypeOK ==
    /\ DOMAIN siteCacheInfos \subseteq Sites
    /\ \A id \in DOMAIN siteCacheInfos :
        /\ siteCacheInfos[id].info \in SiteCacheInfoType
        /\ {siteCacheInfos[id].next, siteCacheInfos[id].prev} \subseteq Sites \cup {NULL}
    /\ headSiteCacheInfo \in Sites \cup {NULL}
    /\ generation \in 0..MaxGeneration
    /\ assumedStacks \subseteq Stacks
    /\ DOMAIN stackStates \subseteq Stacks
    /\ \A key \in DOMAIN stackStates :
        stackStates[key] \in [stack : Sites, deadline : Nat \cup {NULL},
                              bindingFinished : BOOLEAN]
    /\ regionToSite \in [Regions -> SUBSET Sites]
    /\ siteTree.zones \in Seq(Regions \X AZs)
    /\ DOMAIN siteTree.sites = ToSet(siteTree.zones)
    /\ \A zone \in DOMAIN siteTree.sites : siteTree.sites[zone] \in Seq(Sites)
    /\ snapshot.generation \in 0..MaxGeneration
    /\ DOMAIN snapshot.SiteCacheInfoMap \subseteq Sites
    /\ \A id \in DOMAIN snapshot.SiteCacheInfoMap :
        snapshot.SiteCacheInfoMap[id] \in SiteCacheInfoType
    /\ snapshot.SiteCacheInfoList \in Seq(Sites)
    /\ now \in 0..MaxTime
    /\ proc \in {"running", "deadlocked", "panicked"}

\* The doubly linked list and the map hold the same items: following next
\* from headSiteCacheInfo meets every item of siteCacheInfos once and ends
\* at nil, and prev of every item is the item before it.  This is what
\* moveSiteCacheInfoToHead and removeSiteCacheInfoFromList must keep through
\* every order of site and stack calls, with items unlinked at the head, in
\* the middle and at the tail.
ListMatchesMap ==
    LET order == MRU(Cur) IN
    /\ Len(order) = Cardinality(Cached(Cur))
    /\ ToSet(order) = Cached(Cur)
    /\ \A i \in DOMAIN order :
        /\ siteCacheInfos[order[i]].prev = IF i = 1 THEN NULL ELSE order[i - 1]
        /\ i = Len(order) => siteCacheInfos[order[i]].next = NULL

\* The list is ordered by generation, newest first, and no info is newer
\* than the counter: every method that stamps an info (addStack,
\* removeStack, AddSite, UpdateSite, the Update... methods) also moves its
\* item to the head.  UpdateSnapshot's early break depends on it.
MRUByGeneration ==
    LET order == MRU(Cur)
        gen(i) == siteCacheInfos[order[i]].info.generation
    IN /\ \A i, j \in DOMAIN order : i < j => gen(i) > gen(j)
       /\ \A i \in DOMAIN order : gen(i) <= generation

\* The delta protocol of UpdateSnapshot loses no update: an info with a
\* site that has not changed since the snapshot's generation is in the
\* snapshot exactly as it is in the cache.  So right after UpdateSnapshot,
\* when the snapshot's generation is the head's, the snapshot has every
\* site of the cache in its present state, although only the items before
\* the break were copied.
SnapshotFresh ==
    \A id \in Cached(Cur) \ SiteLess(Cur) :
        siteCacheInfos[id].info.generation <= snapshot.generation
            => /\ id \in DOMAIN snapshot.SiteCacheInfoMap
               /\ snapshot.SiteCacheInfoMap[id] = siteCacheInfos[id].info

\* Every assumed key has a state, and an assumed stack whose binding has
\* finished has a deadline: cleanupAssumedStacks calls klog.Fatalf on the
\* first and dereferences the deadline of the second.
AssumedHaveState ==
    \A key \in assumedStacks :
        /\ key \in DOMAIN stackStates
        /\ stackStates[key].bindingFinished => stackStates[key].deadline # NULL

\* No stack is counted twice, on one site or on two (with the callers of
\* Spec): whichever way a stack moves between sites while sites come and
\* go (UpdateStack, AddStack after an expiry, a site removed with its
\* stacks and added again), the cache takes it off the site its state names
\* before it counts it anywhere else.
StackCountedOnce == \A key \in Stacks : CopiesIn(key, List) <= 1

\* The site tree and the region index hold the sites the informer has
\* announced, each once and in its present zone (with the callers of Spec),
\* through zone changes by UpdateSite and removals of sites next to infos
\* that addStack made for sites not yet announced.
IndexesMatchSites ==
    LET listed == TreeOrder(siteTree) IN
    /\ ToSet(listed) = {id \in Sites : Announced(id)}
    /\ Len(listed) = Cardinality(ToSet(listed))
    /\ \A id \in ToSet(listed) : TreeHas(siteTree, siteCacheInfos[id].info.site)
    /\ \A region \in Regions :
        regionToSite[region] =
            {id \in Sites : Announced(id) /\ siteCacheInfos[id].info.site.Region = region}

\* The phase of a key and the sites that count its stack, as the cache
\* keeps them in assumedStacks, stackStates and the infos of the sites.
PhaseOf ==
    [key \in Stacks |->
        CASE IsAdded(key) -> "Added"
          [] IsAssumed(key) /\ stackStates[key].bindingFinished -> "Bound"
          [] IsAssumed(key) -> "Assumed"
          [] OTHER -> "Absent"]

CountedOn ==
    [key \in Stacks |->
        {id \in Cached(Cur) : BagIn(key, siteCacheInfos[id].info.stacks)}]

Accounting ==
    INSTANCE StackAccounting WITH phase <- PhaseOf, countedOn <- CountedOn, serving <- Running

\* The cache implements the life of a stack the specification describes
\* (with the callers of Spec): every method call, expiry sweep and site
\* removal changes the phases of the keys and the sites that count them as
\* one step of StackAccounting does, or not at all, until the process stops.
\* AssumeStack, AddStack,
\* UpdateStack, RemoveStack, ForgetStack, RemoveSite and
\* cleanupAssumedStacks keep stackStates, assumedStacks and the stacks of
\* the site infos in step: no key is absent and still counted, counted on
\* two sites, or assumed again after it was added.
ImplementsAccounting == Accounting!Spec

-----------------------------------------------------------------------------
(* What the specification and the comments of the code say, and the code   *)
(* does not do.                                                            *)

\* The snapshot is one UpdateSnapshot returns nil for and leaves as it is.
SnapshotCurrent ==
    \E gone \in Deletable(Cur, snapshot) :
        /\ Refreshed(Cur, snapshot, gone) = snapshot
        /\ Consistent(snapshot)

\* "If certain siteCacheInfos were deleted after the last snapshot was
\* taken, we should remove them from the snapshot" (comment of
\* removeDeletedSiteCacheInfosFromSnapshot): a snapshot UpdateSnapshot
\* accepts has an entry only for sites the cache has.
SnapshotDropsDeletedSites ==
    SnapshotCurrent => DOMAIN snapshot.SiteCacheInfoMap \subseteq Cached(Cur)

=============================================================================
