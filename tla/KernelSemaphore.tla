--------------------------- MODULE KernelSemaphore ---------------------------
(***************************************************************************)
(* semaphore_P and semaphore_V of kernel/semaphore.c on top of the         *)
(* scheduler and the sleep queue: the resource a thread sleeps on is the   *)
(* address of the semaphore, and each semaphore's spinlock is held over    *)
(* the call into the sleep queue.                                          *)
(***************************************************************************)
EXTENDS Scheduler

CONSTANTS
    InitialValues,  \* what semaphore_create may be given
    MaxValue        \* bound on a semaphore's value in the model

Semaphores == Resources

ASSUME KernelSemaphoreAssumption ==
    /\ MaxValue \in Nat
    /\ InitialValues \subseteq 0 .. MaxValue

VARIABLES
    value,      \* sem->value: negative when threads wait
    slock       \* the CPU holding sem->slock, or NoCpu

semVars == <<value, slock>>
allVars == <<vars, semVars>>

KSInit ==
    /\ Init
    /\ value \in [Semaphores -> InitialValues]
    /\ slock = [s \in Semaphores |-> NoCpu]

-----------------------------------------------------------------------------
\* semaphore_P with a token left: one section under the semaphore's lock.
SemaphorePass(c, t, s) ==
    /\ Executes(c, t) /\ at[t] = "run"
    /\ slock[s] = NoCpu
    /\ value[s] - 1 >= 0
    /\ value' = [value EXCEPT ![s] = @ - 1]
    /\ UNCHANGED <<vars, slock>>

\* Mutant of SemaphoreBlock: the lock is released before sleepq_add.
SemaphoreBlockUnlocked(c, t, s) ==
    /\ slock[s] = NoCpu
    /\ value[s] - 1 < 0
    /\ value' = [value EXCEPT ![s] = @ - 1]
    /\ SleepqMark(c, t, s)
    /\ UNCHANGED slock

\* semaphore_P without one: the lock is kept while the thread enters the sleep
\* queue.
SemaphoreBlock(c, t, s) ==
    /\ slock[s] = NoCpu
    /\ value[s] - 1 < 0
    /\ value' = [value EXCEPT ![s] = @ - 1]
    /\ slock' = [slock EXCEPT ![s] = c]
    /\ SleepqMark(c, t, s)

\* Mutant of SemaphoreSwitch: the lock is still held over thread_switch.
SemaphoreSwitchLocked(c) == ThreadSwitch(c) /\ UNCHANGED semVars

\* semaphore_P releases the lock and switches threads.
SemaphoreSwitch(c) ==
    /\ ThreadSwitch(c)
    /\ slock' = [slock EXCEPT ![sleepsOn[currentThread[c]]] = NoCpu]
    /\ UNCHANGED value

\* Mutant of FindsWaiter: off by one, the last waiter is forgotten.
FindsWaiterButOne(s) == value[s] + 1 < 0

\* The incremented value says that a thread waits.
FindsWaiter(s) == value[s] + 1 <= 0

\* semaphore_V that finds no waiter.
SemaphoreRaise(c, s, handler) ==
    /\ mode[c] = "thread"
    /\ \/ handler
       \/ Executes(c, currentThread[c]) /\ at[currentThread[c]] = "run"
    /\ slock[s] = NoCpu
    /\ ~FindsWaiter(s)
    /\ value[s] < MaxValue
    /\ value' = [value EXCEPT ![s] = @ + 1]
    /\ UNCHANGED <<vars, slock>>

\* semaphore_V that has to wake one: the lock is kept over sleepq_wake.
SemaphoreWake(c, s, handler) ==
    /\ slock[s] = NoCpu
    /\ FindsWaiter(s)
    /\ value' = [value EXCEPT ![s] = @ + 1]
    /\ slock' = [slock EXCEPT ![s] = c]
    /\ StartWake(c, s, FALSE, handler)

\* semaphore_V releases the lock after sleepq_wake.
SemaphoreWoken(c) ==
    /\ WakeReturn(c)
    /\ slock' = [slock EXCEPT ![wakes[c]] = NoCpu]
    /\ UNCHANGED value

-----------------------------------------------------------------------------
\* The sleep queue's own steps, which leave the semaphores alone.
SleepqInnerStep(c) ==
    /\ SleepqLink(c) \/ WakeFind(c) \/ WakeNone(c) \/ WakeReady(c)
    /\ UNCHANGED semVars

ThreadLifeStep(c) ==
    /\ \E t \in Tids :
           \/ \E u \in Tids : ThreadCreate(c, t, u)
           \/ ThreadInitialise(c, t) \/ ThreadRun(c, t) \/ ThreadFinish(c, t)
    /\ UNCHANGED semVars

KernelStep(c) == SleepqInnerStep(c) \/ SemaphoreSwitch(c) \/ SemaphoreWoken(c)

SwitchStep(c) == SchedulerStep(c) /\ UNCHANGED semVars
TimerStep(c) == TimerInterrupt(c) /\ UNCHANGED semVars
SoftwareStep(c) == SoftwareInterrupt(c) /\ UNCHANGED semVars

P(c, s) == \E t \in Tids : SemaphorePass(c, t, s) \/ SemaphoreBlock(c, t, s)
V(c, s) == \E handler \in BOOLEAN : SemaphoreRaise(c, s, handler) \/ SemaphoreWake(c, s, handler)

KSNext ==
    \E c \in CPUs :
        \/ SwitchStep(c) \/ TimerStep(c) \/ SoftwareStep(c)
        \/ KernelStep(c) \/ ThreadLifeStep(c)
        \/ \E s \in Semaphores : P(c, s) \/ V(c, s)

KSSpec == KSInit /\ [][KSNext]_allVars

\* As in Scheduler: a CPU goes on inside the kernel, a pending timer interrupt
\* is taken.  Nothing makes a thread call semaphore_P or semaphore_V.
KSFairness ==
    \A c \in CPUs :
        /\ WF_allVars(SwitchStep(c))
        /\ WF_allVars(KernelStep(c))
        /\ SF_allVars(TimerStep(c))

KSFairSpec == KSSpec /\ KSFairness
-----------------------------------------------------------------------------
KSTypeOK ==
    /\ TypeOK
    /\ value \in [Semaphores -> Int]
    /\ slock \in [Semaphores -> CPUs \cup {NoCpu}]

Waiters(s) == {t \in Tids : sleepsOn[t] = s}

\* A semaphore_V on s has counted its token and not yet cleared the sleeper's
\* sleeps_on.
Releasing(s) == \E c \in CPUs : slock[s] = c /\ mode[c] \in {"wake", "ready"}

\* A negative value counts the threads that wait, exactly: semaphore_V wakes one
\* if and only if the value says there is one, so neither a wake-up nor a token
\* is lost, whatever the order of the CPUs.
ValueCountsWaiters ==
    \A s \in Semaphores :
        Cardinality(Waiters(s)) = (IF value[s] < 0 THEN -value[s] ELSE 0)
                                  + (IF Releasing(s) THEN 1 ELSE 0)

\* A semaphore's lock is held by a CPU that is inside semaphore_P or
\* semaphore_V, with interrupts disabled, and by no other: an interrupt handler
\* that calls semaphore_V never finds its own CPU holding the lock it spins on.
LockHolderInKernel ==
    \A s \in Semaphores : slock[s] # NoCpu =>
        \/ /\ mode[slock[s]] \in {"mark", "linked"}
           /\ sleepsOn[currentThread[slock[s]]] = s
        \/ /\ mode[slock[s]] \in {"wake", "ready", "woken"}
           /\ wakes[slock[s]] = s

\* semaphore_V always finds the sleeper its value promises.
NoWakeMisses ==
    \A c \in CPUs : mode[c] = "wake" => Waiting(Hash[wakes[c]], wakes[c]) # {}

\* The threads of a chain that wait for r, in the order of the chain (SelectSeq,
\* as a recursive function that a proof can unfold).
Selected(chain, wants, r) ==
    LET upTo[i \in 0 .. Len(chain)] ==
            IF i = 0 THEN <<>>
            ELSE IF wants[chain[i]] = r THEN Append(upTo[i - 1], chain[i])
            ELSE upTo[i - 1]
    IN  upTo[Len(chain)]

\* The queue of a semaphore: the waiters linked in its chain, without the one
\* that a semaphore_V in progress is about to unlink, and with the one that a
\* semaphore_P in progress is about to link.
WaitsFor(s) == Selected(hashtable[Hash[s]], sleepsOn, s)

QueueOf(s) ==
    LET h == slock[s]
        linked == WaitsFor(s)
    IN  IF h = NoCpu THEN linked
        ELSE IF mode[h] = "mark" THEN Append(linked, currentThread[h])
        ELSE IF mode[h] = "wake" /\ linked # <<>> THEN Tail(linked)
        ELSE linked

TokensOf(s) == IF value[s] > 0 THEN value[s] ELSE 0

Abstract == INSTANCE AbstractSemaphore WITH
    Threads <- Tids \ {Idle},
    tokens <- [s \in Semaphores |-> TokensOf(s)],
    queue <- [s \in Semaphores |-> QueueOf(s)]

\* Every behaviour of the kernel's semaphores on top of the sleep queue is one
\* of the abstract semaphore: tokens are conserved and waiters are released in
\* the order in which they blocked, although two semaphores share a bucket.
ImplementsSemaphore == Abstract!Spec

\* A thread released by semaphore_V runs again: it is not left off the ready
\* list by a wake-up that comes before, during or after its thread_switch.
ReleasedRuns ==
    \A t \in Tids : InHand(t) ~> \E c \in CPUs : Executes(c, t)
=============================================================================
