----------------------------- MODULE ThreadLists -----------------------------
(***************************************************************************)
(* The linked lists behind the sequences of module Scheduler.  The ready   *)
(* list (scheduler.c) and the chains of the sleep queue's hash table       *)
(* (sleepq.c) are threaded through one field, thread_table[t].next, under  *)
(* two different locks: a thread linked in two lists at once, or a stale   *)
(* next left in a row, would corrupt both.  Each step of Scheduler is      *)
(* taken together with the assignments to the links that the code makes.   *)
(***************************************************************************)
EXTENDS Scheduler

CONSTANT
    WakeKinds      \* bound: which wake-ups the model has, <<wakes all, handler>>

ASSUME ThreadListsAssumption == WakeKinds \subseteq BOOLEAN \X BOOLEAN

VARIABLES
    next,       \* thread_table[t].next, -1 at the end of a list
    head,       \* scheduler_ready_to_run.head, negative if none
    tail,       \* scheduler_ready_to_run.tail
    bucket      \* sleepq_hashtable[b], the first thread of each chain

links == <<next, head, tail, bucket>>
listVars == <<vars, links>>

None == -1

TLInit ==
    /\ Init
    /\ next = [t \in Tids |-> None]
    /\ head = 1
    /\ tail = 1
    /\ bucket = [b \in Buckets |-> None]

-----------------------------------------------------------------------------
\* The ready list as scheduler.c handles it.
ReadyLinks == [next |-> next, head |-> head, tail |-> tail]

SetReadyLinks(l) == next' = l.next /\ head' = l.head /\ tail' = l.tail

\* Mutant of AddToReadyList: the new last thread keeps its old link.
AddKeepingLink(l, t) ==
    IF l.tail < 0
    THEN [l EXCEPT !.head = t, !.tail = t]
    ELSE [l EXCEPT !.next = [@ EXCEPT ![l.tail] = t], !.tail = t]

\* scheduler_add_to_ready_list
AddToReadyList(l, t) ==
    IF l.tail < 0
    THEN [next |-> [l.next EXCEPT ![t] = None], head |-> t, tail |-> t]
    ELSE [l EXCEPT !.next = [@ EXCEPT ![l.tail] = t, ![t] = None], !.tail = t]

\* scheduler_remove_first_ready
RemoveFirstReady(l) ==
    IF l.head < 0 THEN l
    ELSE [l EXCEPT !.tail = IF l.tail = l.head THEN None ELSE @,
                   !.head = l.next[l.head]]

\* What it returns.
FirstLinked(l) == IF l.head < 0 THEN Idle ELSE l.head

TLSchedule(c) ==
    LET t == currentThread[c]
        left == IF StateLeft(t) = "READY" /\ t # Idle
                THEN AddToReadyList(ReadyLinks, t) ELSE ReadyLinks
    IN  /\ Schedule(c)
        /\ target'[c] = FirstLinked(left)
        /\ SetReadyLinks(RemoveFirstReady(left))
        /\ UNCHANGED bucket

TLThreadRun(c, t) ==
    /\ ThreadRun(c, t)
    /\ SetReadyLinks(AddToReadyList(ReadyLinks, child[t]))
    /\ UNCHANGED bucket

TLThreadInitialise(c, t) ==
    /\ ThreadInitialise(c, t)
    /\ next' = [next EXCEPT ![child[t]] = None]
    /\ UNCHANGED <<head, tail, bucket>>

-----------------------------------------------------------------------------
\* The threads reached from t along next, as far as the sleep queue follows it:
\* a link that is not positive ends a chain.
Reached(t) ==
    LET step[k \in 0 .. MaxThreads] ==
            IF k = 0 THEN t ELSE IF step[k - 1] <= 0 THEN None ELSE next[step[k - 1]]
        n == CHOOSE k \in 0 .. MaxThreads :
                 /\ step[k] <= 0 \/ k = MaxThreads
                 /\ \A j \in 0 .. k - 1 : step[j] > 0
    IN  [i \in 1 .. n |-> step[i - 1]]

\* sleepq_add writes its own row before it takes sleepq_slock...
TLSleepqMark(c, t, r) ==
    /\ SleepqMark(c, t, r)
    /\ next' = [next EXCEPT ![t] = None]
    /\ UNCHANGED <<head, tail, bucket>>

\* ... and is chained to the last thread of the bucket under it.
TLSleepqLink(c) ==
    LET t == currentThread[c]
        b == Hash[sleepsOn[t]]
        chain == Reached(bucket[b])
    IN  /\ SleepqLink(c)
        /\ IF bucket[b] <= 0
           THEN bucket' = [bucket EXCEPT ![b] = t] /\ UNCHANGED next
           ELSE next' = [next EXCEPT ![chain[Len(chain)]] = t] /\ UNCHANGED bucket
        /\ UNCHANGED <<head, tail>>

\* sleepq_wake unlinks the first thread of the chain that waits for its
\* resource.  sleepq_wake_all keeps walking from the place it had reached, which
\* is where a walk from the start arrives: no thread before it waits for wakes[c].
TLWakeFind(c) ==
    LET b == Hash[wakes[c]]
        chain == Reached(bucket[b])
    IN  /\ WakeFind(c)
        /\ \E i \in DOMAIN chain :
               /\ sleepsOn[chain[i]] = wakes[c]
               /\ \A j \in 1 .. i - 1 : sleepsOn[chain[j]] # wakes[c]
               /\ target'[c] = chain[i]
               /\ IF i = 1
                  THEN bucket' = [bucket EXCEPT ![b] = next[chain[i]]] /\ UNCHANGED next
                  ELSE /\ next' = [next EXCEPT ![chain[i - 1]] = next[chain[i]]]
                       /\ UNCHANGED bucket
        /\ UNCHANGED <<head, tail>>

\* The woken thread's link is cleared, and it goes on the ready list if it was
\* asleep.
TLWakeReady(c) ==
    LET t == target[c]
        cleared == [ReadyLinks EXCEPT !.next = [@ EXCEPT ![t] = None]]
    IN  /\ WakeReady(c)
        /\ SetReadyLinks(IF threadState[t] = "SLEEPING"
                         THEN AddToReadyList(cleared, t) ELSE cleared)
        /\ UNCHANGED bucket

-----------------------------------------------------------------------------
\* The steps that touch no link.
Unlinked(c) ==
    /\ \/ Dispatch(c) \/ TimerInterrupt(c) \/ SoftwareInterrupt(c)
       \/ ThreadSwitch(c) \/ WakeNone(c) \/ WakeReturn(c)
       \/ \E r \in Resources, k \in WakeKinds : StartWake(c, r, k[1], k[2])
       \/ \E t \in Tids :
              \/ ThreadFinish(c, t)
              \/ \E u \in Tids : ThreadCreate(c, t, u)
    /\ UNCHANGED links

TLNext ==
    \E c \in CPUs :
        \/ TLSchedule(c) \/ TLSleepqLink(c) \/ TLWakeFind(c) \/ TLWakeReady(c)
        \/ Unlinked(c)
        \/ \E t \in Tids :
               \/ TLThreadRun(c, t) \/ TLThreadInitialise(c, t)
               \/ \E r \in Resources : TLSleepqMark(c, t, r)

TLSpec == TLInit /\ [][TLNext]_listVars
-----------------------------------------------------------------------------
\* The ready list, from head along next, is the sequence of Scheduler and ends
\* at tail; each chain of the hash table is its bucket's sequence.  Neither list
\* runs into the other although they share their links, and none is cyclic.
ListsRepresentQueues ==
    /\ Reached(head) = ready
    /\ tail = IF ready = <<>> THEN None ELSE ready[Len(ready)]
    /\ \A b \in Buckets : Reached(bucket[b]) = hashtable[b]
=============================================================================
