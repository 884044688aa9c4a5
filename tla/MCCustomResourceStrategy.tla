---------------------- MODULE MCCustomResourceStrategy ----------------------
(* The custom resource strategy for TLC: two clients, two values of each   *)
(* part of an object.                                                      *)
EXTENDS CustomResourceStrategy

CONSTANTS u1, u2, p1, p2, p3, l1, l2

TwoClients == {u1, u2}
ThreeSpecs == {p1, p2, p3}
OneInvalidSpec == {p3}
TwoLabels == {l1, l2}

\* resources of a namespace, of a tenant, of the whole cluster
ThreeScopes == {[namespaceScoped |-> TRUE, tenantScoped |-> TRUE],
                [namespaceScoped |-> FALSE, tenantScoped |-> TRUE],
                [namespaceScoped |-> FALSE, tenantScoped |-> FALSE]}

\* an object on its way: given to a scheduler, and bound to two clusters
\* and given to a dispatcher
Assigned == [phase |-> "Assigned", scheduler_name |-> "s1"]
Bound    == [phase |-> "Bound", scheduler_name |-> "s1", dispatcher_name |-> "d1",
             cluster_names |-> <<"k1", "k2">>]
TwoStatuses == {Assigned, Bound}

\* every object; the watch of a scheduler and of a dispatcher; the objects
\* of a cluster; the objects of a namespace; the objects without a phase
Watches ==
    { <<>>,
      ("status.phase" :> "Assigned") @@ ("status.scheduler_name" :> "s1"),
      ("status.phase" :> "Bound") @@ ("status.dispatcher_name" :> "d1"),
      "status.cluster_name" :> "k1",
      "metadata.namespace" :> "namespace",
      "status.phase" :> "" }

=============================================================================
