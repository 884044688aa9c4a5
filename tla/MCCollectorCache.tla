-------------------------- MODULE MCCollectorCache --------------------------
(***************************************************************************)
(* CollectorCache for TLC.  Two models:                                    *)
(*   - the callers of Spec with two sites, two stacks and two regions, so  *)
(*     that a stack can move between sites, two stacks can expire in one   *)
(*     run of cleanupAssumedStacks and a site can change its zone;         *)
(*   - any caller with three sites, one stack and one region, so that the  *)
(*     list has a head, a middle and a tail.                               *)
(***************************************************************************)
EXTENDS CollectorCache, TLC

CONSTANTS s1, s2, s3, k1, k2, r1, r2

TwoSites == {s1, s2}
ThreeSites == {s1, s2, s3}
OneStack == {k1}
TwoStacks == {k1, k2}
OneRegion == {r1}
TwoRegions == {r1, r2}

\* Sites, stacks and regions are only compared for equality.
SymmetryCallers ==
    Permutations(TwoSites) \cup Permutations(TwoStacks) \cup Permutations(TwoRegions)

SymmetryAnyCaller == Permutations(ThreeSites)

=============================================================================
