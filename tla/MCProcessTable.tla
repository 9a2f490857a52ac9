---------------------------- MODULE MCProcessTable ----------------------------
(* ProcessTable with the startup thread and four more rows in the thread       *)
(* table, for four slots in the process table and two programs.                *)
EXTENDS ProcessTable, TLC

CONSTANTS startup, t1, t2, t3, t4, progA, progB

MCThreads == {startup, t1, t2, t3, t4}
MCPrograms == {progA, progB}

Symmetry == Permutations({t1, t2, t3, t4}) \cup Permutations(MCPrograms)
=============================================================================
