---------------------- MODULE MCSchedulerController ----------------------
(* SchedulerController for TLC: two schedulers, one or two clusters, two    *)
(* workers.  The ring prefers s1 for c1 and s2 for c2.                      *)
EXTENDS SchedulerController

CONSTANTS s1, s2, c1, c2, w1, w2

OneScheduler  == {s1}
TwoSchedulers == {s1, s2}
OneCluster    == {c1}
TwoClusters   == {c1, c2}
OneWorker     == {w1}
TwoWorkers    == {w1, w2}

RingOrder == (c1 :> <<s1, s2>>) @@ (c2 :> <<s2, s1>>)

SymmetryWorkers == Permutations(TwoWorkers)

=============================================================================
