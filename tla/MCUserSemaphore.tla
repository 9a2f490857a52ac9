--------------------------- MODULE MCUserSemaphore ---------------------------
(* UserSemaphore with three processes, a table of two entries, two names that  *)
(* fit into it and a long one of which it keeps the first.                     *)
EXTENDS UserSemaphore, TLC

CONSTANTS p1, p2, p3, nameA, nameB, longA

MCProcesses == {p1, p2, p3}
MCNames == {nameA, nameB, longA, NoName}
MCCut == [n \in MCNames |-> IF n = longA THEN nameA ELSE n]

Symmetry == Permutations(MCProcesses)
=============================================================================
