------------------------------- MODULE MCVfs -------------------------------
(* Vfs with two threads, two names and a volume of four blocks beside the     *)
(* system's: a file of three bytes takes three of them, an empty one takes one.*)
EXTENDS Vfs, TLC

CONSTANTS t1, t2, nameA, nameB, h1, h2

MCThreads == {t1, t2}
MCNames == {nameA, nameB}
MCHandles == {h1}

Symmetry == Permutations(MCThreads) \cup Permutations(MCNames)
=============================================================================
