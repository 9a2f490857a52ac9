--------------------------- MODULE MCAddressSpace ---------------------------
(* AddressSpace with two processors and two rows in the thread table.  The one   *)
(* program fills two rows of its pagetable, the other only one, so that a handler *)
(* looks behind it into the second row of the one before.  The network leaves     *)
(* rows in a page that lead the thread in row a to the last page, and others who  *)
(* find them in a TLB too.                                                        *)
EXTENDS AddressSpace, TLC

CONSTANTS c1, c2, a, b

MCCPUs == {c1, c2}
MCTids == {a, b}
MCPrograms == {[pages |-> <<1, 2>>, ro |-> {1}], [pages |-> <<0>>, ro |-> {}]}
MCPages == 0 .. 4
Foreign ==
    [pair |-> 1, asid |-> a, global |-> TRUE, vm |-> FALSE,
     half |-> [k \in 0 .. 1 |-> [frame |-> 4, dirty |-> TRUE]]]
MCLeftovers == {[i \in 1 .. 2 |-> Foreign]}

\* What a page holds matters while it is free, a pagetable or a buffer: the frames of a
\* process are never given back.  The number of entries is set when a page is taken.
Matters(p) ==
    IF p \notin reserved THEN table[p].entries
    ELSE IF p \in buffers \/ \E t \in MCTids : pagetable[t] = p THEN table[p] ELSE {}
View == <<[p \in Pages |-> Matters(p)], poolVars, buffers, pagetable, toMap, readOnly, place,
          running, asid, tlb>>
OneBuffer == Cardinality(buffers) <= 1
Symmetry == Permutations(MCCPUs)
=============================================================================
