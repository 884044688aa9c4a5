------------------------------ MODULE Listers ------------------------------
(***************************************************************************)
(* The generated listers of three kinds of object: Lease                   *)
(* (client-go/listers/coordination/v1/lease.go), Dispatcher                *)
(* (globalscheduler/pkg/apis/dispatcher/client/listers/dispatcher/v1) and  *)
(* CustomResourceDefinition (apiextensions-apiserver/pkg/client/listers).  *)
(*                                                                         *)
(* A lister reads the indexer an informer fills.  The informer stores an   *)
(* object under the key MetaNamespaceKeyFunc gives it; a lister's Get      *)
(* writes the key again, from the tenant and the namespace it was made for *)
(* and the name it is asked for.  Leases and dispatchers live in a         *)
(* namespace of a tenant, custom resource definitions in a tenant.         *)
(*                                                                         *)
(* A key is the sequence of the parts its string has between the "/".      *)
(***************************************************************************)
EXTENDS Integers, Sequences, FiniteSets, Functions, TLC

CONSTANTS
    Tenants,        \* the tenants of the objects, "system" among them
    Namespaces,     \* the namespaces of leases and dispatchers
    Names,          \* the names of the objects
    Labels,         \* the values of the one label selectors look at
    MaxObjects      \* bound on the objects the indexers hold together

TenantSystem == "system"
Kinds == {"lease", "dispatcher", "customresourcedefinition"}
Namespaced == {"lease", "dispatcher"}

ASSUME TenantSystem \in Tenants /\ "" \notin Namespaces /\ MaxObjects \in Nat

VARIABLE indexer    \* for every kind, the informer's indexer: key -> object

Objects(kind) == [tenant : Tenants, name : Names, label : Labels,
                  namespace : IF kind \in Namespaced THEN Namespaces ELSE {""}]

\* errors.NewNotFound
NotFound == [error |-> "NotFound"]

\* labels.Everything() and label.Matches: a selector is the set of label
\* values it accepts.
Everything == Labels
Matches(selector, obj) == obj.label \in selector

Part(string) == IF string \in {"", TenantSystem} THEN <<>> ELSE <<string>>

\* The key of an object in the indexer: tenant/namespace/name, without the
\* tenant when it is "system" and without the namespace when it has none.
MetaNamespaceKeyFunc(obj) == Part(obj.tenant) \o Part(obj.namespace) \o <<obj.name>>

\* indexer.GetByKey followed by the "if !exists" of every Get.
GetByKey(kind, key) ==
    IF key \in DOMAIN indexer[kind] THEN indexer[kind][key] ELSE NotFound

Stored(idx) == {idx[key] : key \in DOMAIN idx}

ListAll(kind, selector) == {obj \in Stored(indexer[kind]) : Matches(selector, obj)}

ListAllByTenant(kind, tenant, selector) ==
    {obj \in ListAll(kind, selector) : obj.tenant = tenant}

ListAllByNamespace(kind, tenant, namespace, selector) ==
    {obj \in ListAllByTenant(kind, tenant, selector) : obj.namespace = namespace}

-----------------------------------------------------------------------------
(* Leases *)

leaseLister_List(selector) == ListAll("lease", selector)

leaseNamespaceLister == [namespace : Namespaces, tenant : Tenants]

Leases(namespace) == [namespace |-> namespace, tenant |-> TenantSystem]

LeasesWithMultiTenancy(namespace, tenant) == [namespace |-> namespace, tenant |-> tenant]

leaseNamespaceLister_List(s, selector) ==
    ListAllByNamespace("lease", s.tenant, s.namespace, selector)

\* Fault: the key is written without the rule for the tenant "system".
leaseGetAnyTenant(s, name) == GetByKey("lease", <<s.tenant, s.namespace, name>>)

leaseNamespaceLister_Get(s, name) ==
    GetByKey("lease", IF s.tenant = TenantSystem THEN <<s.namespace, name>>
                        ELSE <<s.tenant, s.namespace, name>>)

-----------------------------------------------------------------------------
(* Dispatchers *)

dispatcherLister_List(selector) == ListAll("dispatcher", selector)

dispatcherNamespaceLister == [namespace : Namespaces, tenant : Tenants]

Dispatchers(namespace) == [namespace |-> namespace, tenant |-> TenantSystem]

DispatchersWithMultiTenancy(namespace, tenant) == [namespace |-> namespace, tenant |-> tenant]

dispatcherNamespaceLister_List(s, selector) ==
    ListAllByNamespace("dispatcher", s.tenant, s.namespace, selector)

dispatcherNamespaceLister_Get(s, name) ==
    GetByKey("dispatcher", IF s.tenant = TenantSystem THEN <<s.namespace, name>>
                             ELSE <<s.tenant, s.namespace, name>>)

-----------------------------------------------------------------------------
(* Custom resource definitions *)

customResourceDefinitionLister_List(selector) == ListAll("customresourcedefinition", selector)

\* Get of the lister itself looks the bare name up.
customResourceDefinitionLister_Get(name) == GetByKey("customresourcedefinition", <<name>>)

customResourceDefinitionTenantLister == [tenant : Tenants]

CustomResourceDefinitions == [tenant |-> TenantSystem]

CustomResourceDefinitionsWithMultiTenancy(tenant) == [tenant |-> tenant]

customResourceDefinitionTenantLister_List(s, selector) ==
    ListAllByTenant("customresourcedefinition", s.tenant, selector)

customResourceDefinitionTenantLister_Get(s, name) ==
    GetByKey("customresourcedefinition",
             IF s.tenant = TenantSystem THEN <<name>> ELSE <<s.tenant, name>>)

-----------------------------------------------------------------------------
(* The informer: the only writer of an indexer. *)

Held == Cardinality(UNION {{<<kind, key>> : key \in DOMAIN indexer[kind]} : kind \in Kinds})

\* Fault: the indexer's key function keeps the tenant "system" in the key.
StoreUnderFullKey(kind, obj) ==
    indexer' = [indexer EXCEPT ![kind] =
                   (<<obj.tenant>> \o Part(obj.namespace) \o <<obj.name>> :> obj) @@ @]

Store(kind, obj) ==
    indexer' = [indexer EXCEPT ![kind] = (MetaNamespaceKeyFunc(obj) :> obj) @@ @]

Add(kind, obj) ==
    /\ MetaNamespaceKeyFunc(obj) \notin DOMAIN indexer[kind]
    /\ Held < MaxObjects
    /\ Store(kind, obj)

Update(kind, obj) ==
    /\ MetaNamespaceKeyFunc(obj) \in DOMAIN indexer[kind]
    /\ indexer[kind][MetaNamespaceKeyFunc(obj)] # obj
    /\ Store(kind, obj)

Delete(kind, obj) ==
    /\ obj \in Stored(indexer[kind])
    /\ indexer' = [indexer EXCEPT ![kind] = Restrict(@, DOMAIN @ \ {MetaNamespaceKeyFunc(obj)})]

Init == indexer = [kind \in Kinds |-> <<>>]

Next == \E kind \in Kinds : \E obj \in Objects(kind) :
            Add(kind, obj) \/ Update(kind, obj) \/ Delete(kind, obj)

Spec == Init /\ [][Next]_indexer

-----------------------------------------------------------------------------
(* Properties *)

\* The keys of every kind, as the listers write them.
Keys(kind) ==
    LET names == {<<name>> : name \in Names}
        inNamespace == IF kind \in Namespaced
                         THEN {<<ns>> \o n : ns \in Namespaces, n \in names}
                         ELSE names
    IN inNamespace \cup {<<t>> \o k : t \in Tenants \ {TenantSystem}, k \in inNamespace}

\* Type invariant: an indexer maps keys of its kind to objects of its kind,
\* and the indexers hold at most MaxObjects objects.
TypeOK ==
    /\ DOMAIN indexer = Kinds
    /\ \A kind \in Kinds :
          /\ DOMAIN indexer[kind] \subseteq Keys(kind)
          /\ \A key \in DOMAIN indexer[kind] : indexer[kind][key] \in Objects(kind)
    /\ Held <= MaxObjects

\* get(s, name) answers with the object of that name that list(s, selector)
\* lists, for the selectors that accept it, and with NotFound when list(s,
\* Everything) has no object of that name.
Agree(get(_, _), list(_, _), listers) ==
    \A s \in listers, name \in Names, selector \in SUBSET Labels :
        {obj \in list(s, selector) : obj.name = name} =
            {obj \in {get(s, name)} : obj # NotFound /\ Matches(selector, obj)}

\* Get and List of one lister agree (the comments of the interfaces: "List
\* lists all ... in the indexer for a given tenant/namespace", "Get
\* retrieves the ... from the indexer for a given tenant/namespace and
\* name"): the key Get writes (lease.go:92-95, dispatcher.go:91-94,
\* customresourcedefinition.go:105-108) is the key the informer stored the
\* object under, for the tenant "system" and for every other tenant, and
\* the keys of two tenants never fall together.  The lister of custom
\* resource definitions itself lists every tenant and looks the bare name
\* up (customresourcedefinition.go:59): its Get agrees with the part of its
\* List that is of the tenant "system".
GetFindsWhatListLists ==
    /\ Agree(leaseNamespaceLister_Get, leaseNamespaceLister_List, leaseNamespaceLister)
    /\ Agree(dispatcherNamespaceLister_Get, dispatcherNamespaceLister_List,
             dispatcherNamespaceLister)
    /\ Agree(customResourceDefinitionTenantLister_Get,
             customResourceDefinitionTenantLister_List,
             customResourceDefinitionTenantLister)
    /\ LET get(s, name) == customResourceDefinitionLister_Get(name)
           list(s, selector) ==
               {obj \in customResourceDefinitionLister_List(selector) : obj.tenant = s.tenant}
       IN  Agree(get, list, {CustomResourceDefinitions})

=============================================================================
