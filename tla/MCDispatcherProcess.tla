------------------------ MODULE MCDispatcherProcess ------------------------
(* The dispatcher process for TLC: a dispatcher with up to two clusters.   *)
EXTENDS DispatcherProcess

CONSTANTS c1, c2, ip1

TwoClusterIds == {c1, c2}
OneClusterIp == {ip1}

=============================================================================
