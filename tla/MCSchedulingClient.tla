------------------------- MODULE MCSchedulingClient -------------------------
(* SchedulingClient for TLC: three API servers, one of which cannot be     *)
(* reached, two callers and two membership updates.                        *)
EXTENDS SchedulingClient

CONSTANTS a1, a2, a3, g1, g2

ThreeServers == {a1, a2, a3}
OneBadServer == {a3}
TwoCallers == {g1, g2}
=============================================================================
