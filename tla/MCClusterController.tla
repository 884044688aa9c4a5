------------------------- MODULE MCClusterController -------------------------
(***************************************************************************)
(* ClusterController for TLC: two clusters, so that items of two keys are  *)
(* queued together; two values of State, so that an update changes it or  *)
(* leaves it; two workers, so that two items are worked on at once.        *)
(***************************************************************************)
EXTENDS ClusterController

CONSTANTS c1, c2, up, down, w1, w2

TwoClusters == {c1, c2}
TwoStates == {up, down}
TwoWorkers == {w1, w2}

=============================================================================
