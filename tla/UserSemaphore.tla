---------------------------- MODULE UserSemaphore ----------------------------
(***************************************************************************)
(* The named semaphores of userland processes, proc/semaphore.c: a table   *)
(* of semaphores with a lock of its own, and a lock in every semaphore.    *)
(*                                                                         *)
(* A section under one of the locks is one action, unless another lock     *)
(* would be needed to keep the section whole: userland_semaphore_destroy   *)
(* writes a table entry under the semaphore's lock only, so that its two   *)
(* assignments can be seen apart.  Sleeping on a semaphore is used through *)
(* the promise of the sleep queue, which module Scheduler checks.          *)
(***************************************************************************)
EXTENDS Integers, Sequences, FiniteSets

CONSTANTS
    MaxSemaphores,   \* MAX_SEMAPHORES, entries of userland_sem_table
    Processes,       \* userland processes, each with one thread
    NoProcess,       \* the creator of an entry that is not in use, -1
    Names,           \* the strings that programs name semaphores by
    NoName,          \* the empty one
    Cut,             \* what stringcopy keeps of a name, see Fits
    InitialValues,   \* values a semaphore is created with
    MaxValue,        \* bound on a semaphore's value
    Careful          \* bound: programs open and close semaphores one at a time,
                     \* forget a handle when its semaphore is closed, and do not
                     \* look for a semaphore without a name

ASSUME UserSemaphoreAssumption ==
    /\ MaxSemaphores \in Nat \ {0}
    /\ NoProcess \notin Processes
    /\ NoName \in Names
    /\ Cut \in [Names -> Names] /\ \A n \in Names : Cut[n] = NoName <=> n = NoName
    /\ MaxValue \in Nat
    /\ InitialValues \subseteq 0 .. MaxValue
    /\ Careful \in BOOLEAN

Slots == 0 .. MaxSemaphores - 1
NoSlot == -1

VARIABLES
    name,       \* userland_sem_table[s].name
    cut,        \* the entries whose name is only the beginning of what was asked for (ghost)
    creator,    \* userland_sem_table[s].creator
    value,      \* userland_sem_table[s].value
    slock,      \* is userland_sem_table[s].slock held between two actions?
    sleepers,   \* the processes asleep on entry s, in the order they came
    at,         \* where process p is
    hand,       \* the entry that p is creating or destroying
    handles     \* the entries p's program has a handle of

table == <<name, cut, creator, value, slock>>
vars == <<table, sleepers, at, hand, handles>>

\* user: in its program.  value, lock: in create_fresh_semaphore after the table
\* lock was released; unname: in userland_semaphore_destroy between its two
\* assignments; asleep: in userland_semaphore_P.
Places == {"user", "value", "lock", "unname", "asleep"}

\* userland_semaphore_init.  The memory of the table is zero before.
Init ==
    /\ name = [s \in Slots |-> NoName]
    /\ cut = {}
    /\ creator = [s \in Slots |-> NoProcess]
    /\ value = [s \in Slots |-> 0]
    /\ slock = [s \in Slots |-> FALSE]
    /\ sleepers = [s \in Slots |-> <<>>]
    /\ at = [p \in Processes |-> "user"]
    /\ hand = [p \in Processes |-> NoSlot]
    /\ handles = [p \in Processes |-> {}]

MoveTo(p, place) == at' = [at EXCEPT ![p] = place]

\* A program that is careful waits until no other opens or closes a semaphore.
MayOpenOrClose ==
    Careful => \A q \in Processes : at[q] \notin {"value", "lock", "unname"}

-----------------------------------------------------------------------------
\* Mutant of NameTaken: the loop of create_fresh_semaphore stops looking at names.
NameNotTaken(n) == FALSE

NameTaken(n) == \E s \in Slots : name[s] = n

\* An entry has room for MAX_SEMAPHORE_NAME - 1 characters of a name; what a program
\* asks for is compared in full.
Fits(n) == Cut[n] = n

\* The loop of create_fresh_semaphore keeps the last free entry it sees.
LastFree(s) ==
    /\ creator[s] = NoProcess
    /\ \A r \in Slots : creator[r] = NoProcess => r <= s

\* create_fresh_semaphore under the table's lock.  If the name is taken or no
\* entry is free it returns NULL and changes nothing.
CreateFresh(p, n) ==
    /\ at[p] = "user" /\ MayOpenOrClose
    /\ ~NameTaken(n)
    /\ \E s \in Slots :
           /\ LastFree(s)
           /\ name' = [name EXCEPT ![s] = Cut[n]]
           /\ cut' = IF Fits(n) THEN cut \ {s} ELSE cut \cup {s}
           /\ creator' = [creator EXCEPT ![s] = p]
           /\ hand' = [hand EXCEPT ![p] = s]
    /\ MoveTo(p, "value")
    /\ UNCHANGED <<value, slock, sleepers, handles>>

\* Without a lock: the value...
CreateValue(p) ==
    /\ at[p] = "value"
    /\ \E v \in InitialValues : value' = [value EXCEPT ![hand[p]] = v]
    /\ MoveTo(p, "lock")
    /\ UNCHANGED <<name, cut, creator, slock, sleepers, hand, handles>>

\* ... and spinlock_reset, which frees the lock whoever holds it.
CreateLock(p) ==
    /\ at[p] = "lock"
    /\ slock' = [slock EXCEPT ![hand[p]] = FALSE]
    /\ handles' = [handles EXCEPT ![p] = @ \cup {hand[p]}]
    /\ hand' = [hand EXCEPT ![p] = NoSlot]
    /\ MoveTo(p, "user")
    /\ UNCHANGED <<name, cut, creator, value, sleepers>>

\* find_existing_semaphore: the first entry of that name.  (For the empty one, the
\* first that is free.)
FindExisting(p, n) ==
    /\ at[p] = "user" /\ MayOpenOrClose /\ (Careful => n # NoName)
    /\ \E s \in Slots :
           /\ name[s] = n
           /\ \A r \in 0 .. s - 1 : name[r] # n
           /\ handles' = [handles EXCEPT ![p] = @ \cup {s}]
    /\ UNCHANGED <<table, sleepers, at, hand>>

-----------------------------------------------------------------------------
\* A call on entry s that gets its lock and finds the semaphore not destroyed;
\* one that finds it destroyed returns FAILURE and changes nothing.
Enters(p, s) ==
    /\ at[p] = "user" /\ s \in handles[p]
    /\ ~slock[s]
    /\ creator[s] # NoProcess

\* userland_semaphore_P
P(p, s) ==
    /\ Enters(p, s)
    /\ value' = [value EXCEPT ![s] = @ - 1]
    /\ IF value[s] - 1 < 0
       THEN MoveTo(p, "asleep") /\ sleepers' = [sleepers EXCEPT ![s] = Append(@, p)]
       ELSE UNCHANGED <<at, sleepers>>
    /\ UNCHANGED <<name, cut, creator, slock, hand, handles>>

\* Mutant of FindsWaiter: off by one, the last waiter is forgotten.
FindsWaiterButOne(s) == value[s] + 1 < 0

FindsWaiter(s) == value[s] + 1 <= 0

\* userland_semaphore_V; sleepq_wake of an entry nobody sleeps on does nothing.
V(p, s) ==
    /\ Enters(p, s)
    /\ value[s] < MaxValue
    /\ value' = [value EXCEPT ![s] = @ + 1]
    /\ IF FindsWaiter(s) /\ sleepers[s] # <<>>
       THEN MoveTo(Head(sleepers[s]), "user") /\ sleepers' = [sleepers EXCEPT ![s] = Tail(@)]
       ELSE UNCHANGED <<at, sleepers>>
    /\ UNCHANGED <<name, cut, creator, slock, hand, handles>>

\* Mutant of NobodyWaits: a semaphore that somebody waits for is closed too.
AnybodyWaits(s) == TRUE

NobodyWaits(s) == value[s] >= 0

\* userland_semaphore_destroy up to its first assignment.  If somebody waits it
\* returns FAILURE and changes nothing.
DestroyCreator(p, s) ==
    /\ Enters(p, s) /\ MayOpenOrClose
    /\ NobodyWaits(s)
    /\ creator' = [creator EXCEPT ![s] = NoProcess]
    /\ slock' = [slock EXCEPT ![s] = TRUE]
    /\ hand' = [hand EXCEPT ![p] = s]
    /\ MoveTo(p, "unname")
    /\ handles' = [q \in Processes |->
                       IF Careful \/ q = p THEN handles[q] \ {s} ELSE handles[q]]
    /\ UNCHANGED <<name, cut, value, sleepers>>

\* The second assignment, and the release of the lock.
DestroyName(p) ==
    /\ at[p] = "unname"
    /\ name' = [name EXCEPT ![hand[p]] = NoName]
    /\ cut' = cut \ {hand[p]}
    /\ slock' = [slock EXCEPT ![hand[p]] = FALSE]
    /\ hand' = [hand EXCEPT ![p] = NoSlot]
    /\ MoveTo(p, "user")
    /\ UNCHANGED <<creator, value, sleepers, handles>>

-----------------------------------------------------------------------------
Next ==
    \E p \in Processes :
        \/ CreateValue(p) \/ CreateLock(p) \/ DestroyName(p)
        \/ \E n \in Names : CreateFresh(p, n) \/ FindExisting(p, n)
        \/ \E s \in Slots : P(p, s) \/ V(p, s) \/ DestroyCreator(p, s)

Spec == Init /\ [][Next]_vars
-----------------------------------------------------------------------------
\* The value of an entry counts the processes asleep on it when it is negative:
\* a token given by userland_semaphore_V is neither lost nor given to nobody,
\* over the entry's whole life of creations, destructions and re-creations.
ValueCountsSleepers ==
    \A s \in Slots :
        Len(sleepers[s]) = (IF value[s] < 0 THEN -value[s] ELSE 0)

\* Nobody is asleep on a semaphore that was closed: no userland_semaphore_V will
\* be let in to wake them.
ClosedUnused ==
    \A s \in Slots : creator[s] = NoProcess => sleepers[s] = <<>>

\* No two entries have the same name, even while entries are created, closed and taken
\* again by several processes at once: of those that do, all but one were asked for by a
\* name too long for the table (which is compared in full, so that it is never found
\* taken, and never found).  And of careful programs, an entry in use has a name; one
\* that is free has none, or it would keep its name taken.
NamesLeadToOne ==
    /\ \A r, s \in Slots : name[r] = name[s] /\ name[r] # NoName => r = s \/ r \in cut \/ s \in cut
    /\ Careful => \A s \in Slots :
           (\A p \in Processes : hand[p] # s) =>
               (name[s] = NoName <=> creator[s] = NoProcess)

\* "These actions can be done outside lock because the semaphore is not available
\* to any other thread/process" (proc/semaphore.c:93): while
\* create_fresh_semaphore sets the value and the lock of its entry, no other
\* process has a handle of it.
FreshNotAvailable ==
    \A p, q \in Processes :
        p # q /\ at[p] \in {"value", "lock"} => hand[p] \notin handles[q]
=============================================================================
