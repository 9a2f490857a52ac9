-------------------------- MODULE MCKernelSemaphore --------------------------
(* KernelSemaphore on two CPUs with two semaphores in one bucket.              *)
EXTENDS KernelSemaphore, TLC

CONSTANTS c1, c2, s1, s2, b1

MCCPUs == {c1, c2}
MCSemaphores == {s1, s2}
MCBuckets == {b1}
MCHash == [s \in MCSemaphores |-> b1]

Symmetry == Permutations(MCCPUs) \cup Permutations(MCSemaphores)
=============================================================================
