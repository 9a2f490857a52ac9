---------------------------- MODULE MCScheduler ----------------------------
(* ThreadLists on two CPUs: three threads, two resources in one bucket.        *)
EXTENDS ThreadLists, TLC

CONSTANTS c1, c2, r1, r2, b1

MCCPUs == {c1, c2}
MCResources == {r1, r2}
MCBuckets == {b1}
MCHash == [r \in MCResources |-> b1]
MCWakeKinds == {<<FALSE, FALSE>>, <<TRUE, TRUE>>}

Symmetry == Permutations(MCCPUs) \cup Permutations(MCResources)
=============================================================================
