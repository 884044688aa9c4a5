----------------------- MODULE CustomResourceStrategy -----------------------
(***************************************************************************)
(* How the API server prepares a custom resource for storage               *)
(* (staging/src/k8s.io/apiextensions-apiserver/pkg/registry/               *)
(* customresource/strategy.go).  The resources of the global scheduler     *)
(* (schedulers, clusters, dispatchers) are custom resources, so every      *)
(* write of a user or of a controller passes through this strategy.        *)
(*                                                                         *)
(* PrepareForCreate, PrepareForUpdate and copyNonMetadata are operators on *)
(* the content of an object.  A custom resource is unstructured: a map     *)
(* from top-level keys to values, here a function whose domain has         *)
(* "metadata" and "spec" and may have "status".  A status is a map too;    *)
(* GetAttrs makes some of its keys fields that a watch may select by,      *)
(* which is how the distributor, the schedulers and the dispatchers find   *)
(* the objects that are theirs.                                            *)
(*                                                                         *)
(* The storage around the strategy (the generic registry) is not part of   *)
(* the sources; it is one object with a resource version, written by       *)
(* clients that read, change their copy and send it back.                  *)
(***************************************************************************)
EXTENDS Integers, Sequences, FiniteSets, Functions, TLC

CONSTANTS
    Clients,        \* users and controllers that write the resource
    Specs,          \* values of "spec", which stands for every key but metadata and status
    InvalidSpecs,   \* the values of "spec" the validators find an error in
    Statuses,       \* values of "status": maps from keys to strings and lists
    Scopes,         \* the scopes of the resources: [namespaceScoped, tenantScoped]
    FieldSelectors, \* the field selectors of the watches: field -> required value
    Labels,         \* values of the metadata a client may change
    NULL,           \* no object, no value
    MaxRevision     \* bound on the writes the storage accepts

ASSUME /\ MaxRevision \in Nat /\ NULL \notin Statuses
       /\ InvalidSpecs \subseteq Specs
       /\ Scopes \subseteq [namespaceScoped : BOOLEAN, tenantScoped : BOOLEAN]

VARIABLES
    strategy,       \* the customResourceStrategy NewStrategy returned
    stored,         \* the object in the storage, or NULL
    revision,       \* the storage's resource version
    held,           \* client -> the copy it read last, or NULL
    reported        \* the status the status endpoint wrote last, or NULL

vars == <<strategy, stored, revision, held, reported>>

Metadata ==
    [labels : Labels, generation : 0..(MaxRevision + 1), resourceVersion : 0..MaxRevision]

Unstructured ==
    [metadata : Metadata, spec : Specs] \cup [metadata : Metadata, spec : Specs, status : Statuses]

HasStatus(obj) == "status" \in DOMAIN obj

StatusOf(obj) == IF HasStatus(obj) THEN obj.status ELSE NULL

WithStatus(obj, status) ==
    [key \in DOMAIN obj \cup {"status"} |-> IF key = "status" THEN status ELSE obj[key]]

WithoutStatus(obj) == Restrict(obj, DOMAIN obj \ {"status"})

SetGeneration(obj, generation) == [obj EXCEPT !.metadata.generation = generation]

-----------------------------------------------------------------------------
(* The strategy *)

\* status: the feature gate CustomResourceSubresources is on and the
\* definition of the resource installs the status endpoint.
NewStrategy ==
    {[status |-> status, namespaceScoped |-> scope.namespaceScoped,
      tenantScoped |-> scope.tenantScoped] : status \in BOOLEAN, scope \in Scopes}

\* Fault: the status a client sends is stored at creation.
PrepareForCreateKeepsStatus(obj) == SetGeneration(obj, 1)

PrepareForCreate(obj) ==
    SetGeneration(IF strategy.status THEN WithoutStatus(obj) ELSE obj, 1)

copyNonMetadata(original) == Restrict(original, DOMAIN original \ {"metadata"})

\* Fault: the status of the request is stored.
KeepStatusOfRequest(obj, old) == obj

\* Fault: the stored status is copied without asking whether there is one.
KeepStatusUnchecked(obj, old) ==
    IF strategy.status THEN WithStatus(obj, StatusOf(old)) ELSE obj

\* The switch of PrepareForUpdate: with the status endpoint installed an
\* update keeps the stored status, or has none.
KeepStatus(obj, old) ==
    CASE ~strategy.status -> obj
      [] HasStatus(old) -> WithStatus(obj, old.status)
      [] OTHER -> WithoutStatus(obj)

\* Fault: the contents are compared before the status is put back.
PrepareForUpdateComparesFirst(obj, old) ==
    IF copyNonMetadata(obj) # copyNonMetadata(old)
    THEN SetGeneration(KeepStatus(obj, old), old.metadata.generation + 1)
    ELSE KeepStatus(obj, old)

PrepareForUpdate(obj, old) ==
    LET new == KeepStatus(obj, old) IN
    IF copyNonMetadata(new) # copyNonMetadata(old)
    THEN SetGeneration(new, old.metadata.generation + 1)
    ELSE new

\* The errors of a.validator and of the validation of embedded objects: the
\* values the validators object to.
Validate(obj) == {obj.spec} \cap InvalidSpecs

ValidateUpdate(obj, old) == {obj.spec} \cap InvalidSpecs

Canonicalize(obj) == obj

AllowCreateOnUpdate == FALSE

AllowUnconditionalUpdate == FALSE

-----------------------------------------------------------------------------
(* Selection: what a watch with label and field selectors is sent *)

\* GetName, GetNamespace, GetTenant and the hash key as strconv.FormatInt
\* prints it: the identity of the one object of the model never changes.
ObjectMeta ==
    [name |-> "name", namespace |-> "namespace", tenant |-> "tenant", hashkey |-> "hashkey"]

objectMetaFieldsSet(objectMeta, namespaceScoped, tenantScoped) ==
    LET name      == "metadata.name" :> objectMeta.name
        namespace == "metadata.namespace" :> objectMeta.namespace
        tenant    == "metadata.tenant" :> objectMeta.tenant
        hashkey   == "metadata.hashkey" :> objectMeta.hashkey
    IN CASE namespaceScoped -> name @@ namespace @@ tenant @@ hashkey
         [] tenantScoped    -> name @@ tenant @@ hashkey
         [] OTHER           -> name @@ hashkey

\* `if value, ok := statusRes[key]; ok': the field, when the status has the key
Field(status, key, field) ==
    IF key \in DOMAIN status THEN field :> status[key] ELSE <<>>

\* the first of cluster_names, when there is one
ClusterName(status) ==
    IF "cluster_names" \in DOMAIN status /\ status.cluster_names # <<>>
    THEN "status.cluster_name" :> Head(status.cluster_names) ELSE <<>>

\* The values of the model are strings, which fmt.Sprintf("%v") leaves as
\* they are.
GetAttrs(obj) ==
    LET status == IF HasStatus(obj) THEN obj.status ELSE <<>>
    IN [labels |-> obj.metadata.labels,
        fields |-> objectMetaFieldsSet(ObjectMeta, strategy.namespaceScoped, strategy.tenantScoped)
                     @@ Field(status, "phase", "status.phase")
                     @@ Field(status, "distributor_name", "status.distributor_name")
                     @@ Field(status, "scheduler_name", "status.scheduler_name")
                     @@ Field(status, "dispatcher_name", "status.dispatcher_name")
                     @@ ClusterName(status)]

\* A label selector is the set of label values it accepts.
LabelSelectors == {Labels} \cup {{label} : label \in Labels}

MatchCustomResourceDefinitionStorage(label, field) == [Label |-> label, Field |-> field]

Predicates ==
    {MatchCustomResourceDefinitionStorage(label, field) :
        label \in LabelSelectors, field \in FieldSelectors}

\* fields.Set.Get: a field the set has not is the empty string
Value(fieldSet, field) == IF field \in DOMAIN fieldSet THEN fieldSet[field] ELSE ""

Matches(predicate, obj) ==
    /\ obj # NULL
    /\ LET attrs == GetAttrs(obj)
       IN /\ attrs.labels \in predicate.Label
          /\ \A field \in DOMAIN predicate.Field :
                Value(attrs.fields, field) = predicate.Field[field]

\* What a watch with the predicate is sent when old becomes new.
WatchEvent(predicate, old, new) ==
    LET was == Matches(predicate, old)
        is  == Matches(predicate, new)
    IN CASE ~was /\ is -> "ADDED"
         [] was /\ ~is -> "DELETED"
         [] was /\ is /\ old # new -> "MODIFIED"
         [] OTHER -> NULL

-----------------------------------------------------------------------------
(* The storage and its clients *)

\* What a client may send: any content, with the generation it likes.
Drafts == {obj \in Unstructured : obj.metadata.resourceVersion = 0}

Stored(obj) ==
    /\ revision < MaxRevision
    /\ revision' = revision + 1
    /\ stored' = [obj EXCEPT !.metadata.resourceVersion = revision + 1]
    /\ UNCHANGED <<strategy, held>>

\* rest.BeforeCreate: PrepareForCreate, Validate, Canonicalize
Create(c, obj) ==
    /\ stored = NULL
    /\ Validate(PrepareForCreate(obj)) = {}
    /\ Stored(Canonicalize(PrepareForCreate(obj)))
    /\ reported' = NULL

Get(c) ==
    /\ stored # NULL
    /\ held' = [held EXCEPT ![c] = stored]
    /\ UNCHANGED <<strategy, stored, revision, reported>>

\* The copy a client sends back carries the resource version it read; the
\* registry gives it the generation of the stored object before the
\* strategy sees it (rest.BeforeUpdate: PrepareForUpdate, ValidateUpdate,
\* Canonicalize).
Update(c, draft) ==
    /\ held[c] # NULL
    /\ ~AllowCreateOnUpdate /\ stored # NULL
    /\ AllowUnconditionalUpdate
          \/ held[c].metadata.resourceVersion = stored.metadata.resourceVersion
    /\ LET obj == PrepareForUpdate(SetGeneration(draft, stored.metadata.generation), stored)
       IN /\ ValidateUpdate(obj, stored) = {}
          /\ Stored(Canonicalize(obj))
    /\ UNCHANGED reported

\* The status endpoint: the stored object with the status of the request.
UpdateStatus(c, status) ==
    /\ strategy.status
    /\ held[c] # NULL /\ stored # NULL
    /\ held[c].metadata.resourceVersion = stored.metadata.resourceVersion
    /\ Stored(WithStatus(stored, status))
    /\ reported' = status

Delete(c) ==
    /\ stored # NULL
    /\ stored' = NULL
    /\ reported' = NULL
    /\ UNCHANGED <<strategy, revision, held>>

Init ==
    /\ strategy \in NewStrategy
    /\ stored = NULL
    /\ revision = 0
    /\ held = [c \in Clients |-> NULL]
    /\ reported = NULL

Next ==
    \E c \in Clients :
        \/ \E draft \in Drafts : Create(c, draft) \/ Update(c, draft)
        \/ \E status \in Statuses : UpdateStatus(c, status)
        \/ Get(c)
        \/ Delete(c)

Spec == Init /\ [][Next]_vars

-----------------------------------------------------------------------------
(* Properties *)

TypeOK ==
    /\ strategy \in NewStrategy
    /\ stored \in Unstructured \cup {NULL}
    /\ revision \in 0..MaxRevision
    /\ held \in [Clients -> Unstructured \cup {NULL}]
    /\ reported \in Statuses \cup {NULL}

\* What the owner of the resource asked for: the spec, and the status too
\* when no status endpoint keeps the two apart.
Desired(obj) == IF strategy.status THEN <<obj.spec>> ELSE <<obj.spec, StatusOf(obj)>>

\* "except for the changes to metadata, any other changes cause the
\* generation to increment" (PrepareForUpdate), and PrepareForCreate starts
\* at 1: whatever generation, status and labels the clients send, the
\* generation of the stored object goes up by one with every write that
\* changes what is desired, and with no other write.
GenerationCountsChanges ==
    [][/\ stored = NULL /\ stored' # NULL => stored'.metadata.generation = 1
       /\ stored # NULL /\ stored' # NULL =>
             stored'.metadata.generation =
                 stored.metadata.generation
                     + (IF Desired(stored') # Desired(stored) THEN 1 ELSE 0)]_vars

\* "create cannot set status", "update is not allowed to set status"
\* (PrepareForCreate, PrepareForUpdate): with the status endpoint installed
\* the stored status is the one that endpoint wrote last, whatever status
\* the writes of the main endpoint carried since.
StatusIsReported ==
    strategy.status /\ stored # NULL => StatusOf(stored) = reported

\* The field selectors that ask for a value of the status.
ByStatus == {field \in FieldSelectors :
                \E name \in DOMAIN field :
                    /\ name \notin DOMAIN objectMetaFieldsSet(ObjectMeta, TRUE, TRUE)
                    /\ field[name] # ""}

\* With the status endpoint installed an object comes into a watch and
\* leaves it as the endpoint says: what PrepareForCreate stores is in no
\* watch that selects by the status (GetAttrs finds no status fields), and
\* an Update of the main endpoint, whatever status it carries, brings the
\* object into a watch or takes it out of one only by its labels
\* (PrepareForUpdate keeps the status GetAttrs reads).  A dispatcher that
\* watches `status.phase=Bound,status.dispatcher_name=...' is sent only
\* what the scheduler reported.
SelectionFollowsEndpoint ==
    [][strategy.status =>
          \A predicate \in Predicates :
              WatchEvent(predicate, stored, stored') \in {"ADDED", "DELETED"} =>
                  \/ reported' # reported
                  \/ stored = NULL /\ predicate.Field \notin ByStatus
                  \/ stored' = NULL
                  \/ /\ stored # NULL
                     /\ stored'.metadata.labels # stored.metadata.labels
                     /\ predicate.Label # Labels]_vars

=============================================================================
