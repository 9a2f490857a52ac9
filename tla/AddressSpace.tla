---------------------------- MODULE AddressSpace ----------------------------
(***************************************************************************)
(* Pagetables and TLBs (vm/vm.c, and of G4 vm/tlb.c, proc/process.c and    *)
(* kernel/interrupt.c): processes that are started, run on any processor   *)
(* and finish, with TLBs that are refilled by exceptions, one row of the   *)
(* pagetable at a time, and that nobody ever clears.                       *)
(*                                                                         *)
(* The address space identifier is the thread's row in the thread table,   *)
(* which a later process inherits, and a pagetable lies in a page of the   *)
(* pool, behind whatever an earlier pagetable, a frame of the network or a *)
(* buffer of the file system has left there.  Pages 2k and 2k + 1 of the   *)
(* virtual memory share an entry.                                          *)
(***************************************************************************)
EXTENDS PagePool, Sequences

CONSTANTS
    CPUs,
    Tids,      \* rows of the thread table
    Idle,      \* IDLE_THREAD_TID
    Programs,  \* the pages of an executable in the order in which process_start
               \* maps them, and those of them that are read-only
    MaxRows,   \* PAGETABLE_ENTRIES
    Leftovers, \* what the rows of a pagetable would be in a page that others used (Idle
               \* for an identifier, and NoPage for a frame, that there is not)
    TlbSize    \* rows of a TLB

ASSUME AddressSpaceAssumption ==
    /\ Idle \notin Tids
    /\ Pages \subseteq Nat
    /\ \A prog \in Programs : prog.pages \in Seq(Nat) /\ prog.pages # <<>>
    /\ MaxRows \in Nat \ {0} /\ TlbSize \in Nat \ {0}
    /\ Leftovers \subseteq
           [1 .. MaxRows -> [pair : Nat, asid : Tids \cup {Idle}, global : BOOLEAN, vm : {FALSE},
                             half : [0 .. 1 -> [frame : Pages, dirty : BOOLEAN]]]]

VARIABLES
    table,      \* the bytes in a page, as a pagetable
    buffers,    \* the pages that the network and the file system have
    pagetable,  \* the page of t's pagetable, NoPage for NULL
    toMap,      \* the pages that t's process_start has yet to map
    readOnly,   \* the read-only pages of the executable that t loads
    place,      \* where t is: "free", "starting", "mapping", "loading" (all three in
                \* process_start), "userland" or "dying"
    running,    \* the thread that a processor runs
    asid,       \* the identifier in its register
    tlb         \* the rows of its TLB

spaceVars == <<table, buffers, pagetable, toMap, readOnly, place, running, asid, tlb>>
vars == <<poolVars, spaceVars>>

Pair(v) == v \div 2
Half(v) == v % 2

\* An entry of a pagetable or a TLB; a half is valid if it has a frame, and an entry
\* global if both its halves are.  In vm the model notes whether vm_map has written it.
NoHalf == [frame |-> NoPage, dirty |-> FALSE]
NewEntry(t, v, half) ==
    [pair |-> Pair(v), asid |-> t, global |-> FALSE, vm |-> TRUE,
     half |-> [k \in 0 .. 1 |-> IF k = Half(v) THEN half ELSE NoHalf]]
Blank == [NewEntry(Idle, 0, NoHalf) EXCEPT !.vm = FALSE]
Maps(e, v) == e.pair = Pair(v) /\ e.half[Half(v)].frame # NoPage

\* thread_table_init, and memory that is zero.
Init ==
    /\ PoolInit
    /\ table = [p \in Pages |->
                   [valid |-> 0, entries |-> [i \in 1 .. MaxRows |-> Blank]]]
    /\ buffers = {}
    /\ pagetable = [t \in Tids |-> NoPage]
    /\ toMap = [t \in Tids |-> <<>>]
    /\ readOnly = [t \in Tids |-> {}]
    /\ place = [t \in Tids |-> "free"]
    /\ running = [c \in CPUs |-> Idle]
    /\ asid = [c \in CPUs |-> Idle]
    /\ tlb = [c \in CPUs |-> {}]

MoveTo(t, there) == place' = [place EXCEPT ![t] = there]
TableOf(t) == table[pagetable[t]]

-----------------------------------------------------------------------------
GetFirstPage(p) == GetPage(p) /\ \A q \in Pages \ reserved : p <= q

\* The network gets a page for a frame (network_send, network_receive_thread), or
\* tfs_init one for a buffer, and fills it...
GetBuffer ==
    /\ \E p \in Pages, L \in Leftovers :
           /\ GetFirstPage(p)
           /\ buffers' = buffers \cup {p}
           /\ table' = [table EXCEPT ![p].entries = L]
    /\ UNCHANGED <<pagetable, toMap, readOnly, place, running, asid, tlb>>

\* ... and gives it back as it is (network_free_frame, tfs_unmount).
FreeBuffer ==
    /\ \E p \in buffers : FreePage(p) /\ buffers' = buffers \ {p}
    /\ UNCHANGED <<table, pagetable, toMap, readOnly, place, running, asid, tlb>>

-----------------------------------------------------------------------------
\* A process is spawned in a thread of its own.
Spawn(t) ==
    /\ place[t] = "free"
    /\ MoveTo(t, "starting")
    /\ UNCHANGED <<poolVars, table, buffers, pagetable, toMap, readOnly, running, asid, tlb>>

\* vm_create_pagetable: only the number of valid entries is set.
CreatePagetable(t, prog) ==
    /\ place[t] = "starting"
    /\ \E p \in Pages :
           /\ GetFirstPage(p)
           /\ pagetable' = [pagetable EXCEPT ![t] = p]
           /\ table' = [table EXCEPT ![p].valid = 0]
    /\ toMap' = [toMap EXCEPT ![t] = prog.pages]
    /\ readOnly' = [readOnly EXCEPT ![t] = prog.ro]
    /\ MoveTo(t, "mapping")
    /\ UNCHANGED <<buffers, running, asid, tlb>>

RowsOf(T, v) == {i \in 1 .. T.valid : T.entries[i].pair = Pair(v)}

\* vm_map of page v, writable, to frame f: in the entry of its pair, or a new one.
VmMap(T, t, v, f) ==
    LET half == [frame |-> f, dirty |-> TRUE]
    IN IF RowsOf(T, v) = {}
       THEN [valid |-> T.valid + 1,
             entries |-> [T.entries EXCEPT ![T.valid + 1] = NewEntry(t, v, half)]]
       ELSE [T EXCEPT !.entries = [i \in 1 .. MaxRows |->
                IF i \in RowsOf(T, v) THEN [T.entries[i] EXCEPT !.half[Half(v)] = half]
                ELSE T.entries[i]]]

\* process_start gets a frame for the next page.  (Without one, or without a row for
\* it in the table, the kernel panics.)
MapPage(t) ==
    LET T == TableOf(t)
        v == Head(toMap[t])
    IN /\ place[t] = "mapping"
       /\ T.valid < MaxRows \/ RowsOf(T, v) # {}
       /\ \E f \in Pages :
              /\ GetFirstPage(f)
              /\ table' = [table EXCEPT ![pagetable[t]] = VmMap(T, t, v, f)]
       /\ toMap' = [toMap EXCEPT ![t] = Tail(@)]
       /\ MoveTo(t, IF Tail(toMap[t]) = <<>> THEN "loading" ELSE "mapping")
       /\ UNCHANGED <<buffers, pagetable, readOnly, running, asid, tlb>>

\* vm_set_dirty(v, 0) of the pages vs.
VmWriteProtect(T, vs) ==
    [T EXCEPT !.entries = [i \in 1 .. MaxRows |->
        [T.entries[i] EXCEPT !.half = [k \in 0 .. 1 |->
            [T.entries[i].half[k] EXCEPT !.dirty =
                @ /\ ~\E v \in vs : i \in RowsOf(T, v) /\ k = Half(v)]]]]]

\* The segments are loaded: read-only pages are protected, and userland is entered.
EnterUserland(t) ==
    /\ place[t] = "loading"
    /\ table' = [table EXCEPT ![pagetable[t]] = VmWriteProtect(@, readOnly[t])]
    /\ readOnly' = [readOnly EXCEPT ![t] = {}]
    /\ MoveTo(t, "userland")
    /\ UNCHANGED <<poolVars, buffers, pagetable, toMap, running, asid, tlb>>

\* process_finish: the pagetable is destroyed, its frames stay allocated.
ProcessFinish(t) ==
    /\ FreePage(pagetable[t])
    /\ pagetable' = [pagetable EXCEPT ![t] = NoPage]
    /\ readOnly' = [readOnly EXCEPT ![t] = {}]
    /\ MoveTo(t, "dying")
    /\ UNCHANGED <<table, buffers, toMap, running, asid, tlb>>

Exit(t) == place[t] = "userland" /\ ProcessFinish(t)

-----------------------------------------------------------------------------
\* The addresses that t uses: those of its segments while it loads them, any in userland.
Uses(t, v) ==
    \/ place[t] = "userland"
    \/ place[t] = "loading" /\ \E i \in RowsOf(TableOf(t), v) : Maps(TableOf(t).entries[i], v)

Matches(c, v) == {e \in tlb[c] : (e.global \/ e.asid = asid[c]) /\ e.pair = Pair(v)}

\* tlb_modified_exception: a write to a page that its TLB row protects.
Modified(c, v) ==
    /\ Uses(running[c], v)
    /\ \E e \in Matches(c, v) : Maps(e, v) /\ ~e.half[Half(v)].dirty
    /\ ProcessFinish(running[c])

\* The row that the exception handlers find, of those up to PAGETABLE_ENTRIES.
FoundRows(c, v) ==
    LET E == TableOf(running[c]).entries
    IN {E[i] : i \in {i \in 1 .. MaxRows :
            /\ E[i].asid = asid[c] /\ E[i].pair = Pair(v)
            /\ \A j \in 1 .. i - 1 : ~(E[j].asid = asid[c] /\ E[j].pair = Pair(v))}}

\* There is no row in the TLB, or an invalid half in it.
Misses(c, v) ==
    /\ Uses(running[c], v)
    /\ Matches(c, v) = {} \/ \E e \in Matches(c, v) : ~Maps(e, v)

\* tlb_load_exception and tlb_store_exception: the row is written over any other...
Refill(c, v) ==
    /\ Misses(c, v)
    /\ \E e \in FoundRows(c, v) :
           /\ Maps(e, v)
           /\ \E victims \in SUBSET tlb[c] :
                  /\ Cardinality(victims) <= 1
                  /\ Cardinality((tlb[c] \ victims) \cup {e}) <= TlbSize
                  /\ tlb' = [tlb EXCEPT ![c] = (@ \ victims) \cup {e}]
    /\ UNCHANGED <<poolVars, table, buffers, pagetable, toMap, readOnly, place, running, asid>>

\* ... or there is none, and the process is terminated.
AccessViolation(c, v) ==
    /\ Misses(c, v)
    /\ \A e \in FoundRows(c, v) : ~Maps(e, v)
    /\ ProcessFinish(running[c])

\* Mutant of AsidFor: _tlb_set_asid is called before the scheduler.
AsidOfOutgoing(c, t) == running[c]

\* _tlb_set_asid(thread_get_current_thread())
AsidFor(c, t) == t

\* interrupt_handle: the scheduler lets the processor run another thread; one that has
\* finished leaves its row.
ContextSwitch(c, t) ==
    /\ t \in Tids => place[t] \notin {"free", "dying"} /\ \A d \in CPUs \ {c} : running[d] # t
    /\ running' = [running EXCEPT ![c] = t]
    /\ asid' = [asid EXCEPT ![c] = AsidFor(c, t)]
    /\ place' = [u \in Tids |-> IF u = running[c] /\ place[u] = "dying" THEN "free" ELSE place[u]]
    /\ UNCHANGED <<poolVars, table, buffers, pagetable, toMap, readOnly, tlb>>

Addresses == UNION {{prog.pages[i] : i \in DOMAIN prog.pages} : prog \in Programs}

Run(c) ==
    LET t == running[c]
    IN /\ t \in Tids
       /\ \/ \E prog \in Programs : CreatePagetable(t, prog)
          \/ MapPage(t) \/ EnterUserland(t) \/ Exit(t)
          \/ \E v \in Addresses : Modified(c, v) \/ Refill(c, v) \/ AccessViolation(c, v)

Next ==
    \/ GetBuffer \/ FreeBuffer
    \/ \E t \in Tids : Spawn(t)
    \/ \E c \in CPUs : Run(c) \/ \E t \in Tids \cup {Idle} : ContextSwitch(c, t)

Spec == Init /\ [][Next]_vars

-----------------------------------------------------------------------------
Frames(e) == {e.half[k].frame : k \in 0 .. 1} \ {NoPage}

\* What t, which runs on c, can reach by the work of vm_map: through the TLB, and
\* through each row that an exception would load, valid or left by an earlier pagetable.
Reach(c, t) ==
    (UNION {Frames(e) : e \in {e \in tlb[c] : e.vm /\ e.asid = asid[c]}})
    \cup (IF pagetable[t] = NoPage THEN {}
          ELSE LET E == TableOf(t).entries
               IN UNION {Frames(E[i]) : i \in {i \in 1 .. MaxRows : E[i].vm /\ E[i].asid = asid[c]}})

Owns(u) ==
    IF pagetable[u] = NoPage THEN {}
    ELSE {pagetable[u]} \cup UNION {Frames(TableOf(u).entries[i]) : i \in 1 .. TableOf(u).valid}

\* The mappings that vm_map has made never lead one process to another, although no TLB
\* is ever cleared, identifiers are used again and old rows are found in pagetables: what
\* a running thread reaches by them is allocated, is no pagetable and no buffer of the
\* network or the file system, and is not a frame of another process.  (It may be a frame
\* of the process that had its row in the thread table before: these are never freed, and
\* so never given to anyone else.)  Nothing is said of rows that are not vm_map's, see
\* MappingsLoaded: they are as good as what the page held before.
ProcessesIsolated ==
    \A c \in CPUs : running[c] \in Tids =>
        /\ Reach(c, running[c]) \subseteq reserved \ buffers
        /\ \A u \in Tids : Reach(c, running[c]) \cap
               (IF u = running[c] THEN {pagetable[u]} ELSE Owns(u)) \subseteq {NoPage}

\* "In case the TLB was not found in the thread - We handle this as an access violation"
\* (tlb.c:107): what the handlers load for a page is a mapping of the process, one of the
\* "valid consecutive mappings" of its pagetable (pagetable.h:51).
MappingsLoaded ==
    \A c \in CPUs : \A v \in Addresses :
        running[c] \in Tids /\ place[running[c]] = "userland" =>
            \A e \in FoundRows(c, v) : Maps(e, v) =>
                \E i \in 1 .. TableOf(running[c]).valid : TableOf(running[c]).entries[i] = e
=============================================================================
