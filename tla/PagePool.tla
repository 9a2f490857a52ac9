------------------------------ MODULE PagePool ------------------------------
(***************************************************************************)
(* The pool of physical pages, vm/pagepool.c: a bitmap of the pages in use *)
(* and beside it a count of the free ones, both under pagepool_slock, so   *)
(* that each call is one action of the module that makes it.               *)
(***************************************************************************)
EXTENDS Integers, FiniteSets

CONSTANTS
    Pages,        \* the physical pages, pagepool_num_pages of them
    StaticPages,  \* those below pagepool_static_end: the kernel's
    NoPage        \* page zero, returned when there is no page left

ASSUME PagePoolAssumption ==
    /\ IsFiniteSet(Pages)
    /\ NoPage \in StaticPages
    /\ StaticPages \subseteq Pages

VARIABLES
    reserved,   \* the bits of pagepool_free_pages
    freePages   \* pagepool_num_free_pages

poolVars == <<reserved, freePages>>

PoolInit ==
    /\ reserved = StaticPages
    /\ freePages = Cardinality(Pages) - Cardinality(StaticPages)

\* Mutant of GetPage: the page is marked but not counted.
GetPageUncounted(p) ==
    /\ p \in Pages \ reserved
    /\ reserved' = reserved \cup {p}
    /\ UNCHANGED freePages

\* pagepool_get_phys_page returns page p, a free one.  (The code's is the first,
\* see AddressSpace: elsewhere nothing depends on which.)  With no free page it
\* returns zero and changes nothing.
GetPage(p) ==
    /\ freePages > 0
    /\ p \in Pages \ reserved
    /\ reserved' = reserved \cup {p}
    /\ freePages' = freePages - 1

\* pagepool_free_phys_page.  With a page that is free, or the kernel's, an assertion
\* fails and the kernel stops.
FreePage(p) ==
    /\ p \in reserved \ StaticPages
    /\ reserved' = reserved \ {p}
    /\ freePages' = freePages + 1
=============================================================================
