------------------------------ MODULE Scheduler ------------------------------
(***************************************************************************)
(* The thread table, the scheduler and the sleep queue of the Buenos       *)
(* kernel: kernel/thread.c, kernel/scheduler.c, kernel/sleepq.c and the    *)
(* part of kernel/interrupt.c that calls the scheduler.                    *)
(*                                                                         *)
(* Code that runs with interrupts disabled belongs to a CPU, so its place  *)
(* is mode[c]; where a thread stands when interrupts are enabled, and      *)
(* hence what it resumes after a preemption, is at[t].  A section under    *)
(* thread_table_slock is one action.  sleepq_slock is a variable, because  *)
(* sleepq_wake holds it while it takes thread_table_slock.                 *)
(*                                                                         *)
(* The ready list and the chains of the sleep queue are sequences here;    *)
(* module ThreadLists has the linked lists, threaded through the single    *)
(* `next' field of the thread table, that implement them.                  *)
(***************************************************************************)
EXTENDS Integers, Sequences, FiniteSets

CONSTANTS
    CPUs,          \* the processors
    NoCpu,         \* "no processor": a spinlock that is free
    MaxThreads,    \* CONFIG_MAX_THREADS, rows of the thread table
    Resources,     \* addresses threads may sleep on
    NoResource,    \* 0, the sleeps_on of a thread that is not waiting
    Buckets,       \* slots of the sleep queue's hash table
    Hash           \* SLEEPQ_HASH: Resources -> Buckets

ASSUME SchedulerAssumption ==
    /\ NoCpu \notin CPUs
    /\ MaxThreads \in Nat \ {0, 1}
    /\ NoResource \notin Resources
    /\ Hash \in [Resources -> Buckets]

Idle == 0                        \* IDLE_THREAD_TID
Tids == 0 .. MaxThreads - 1

States == {"FREE", "RUNNING", "READY", "SLEEPING", "NONREADY", "DYING"}

\* Places of a CPU: "thread" executes currentThread[c] with interrupts enabled;
\* every other place is inside the kernel with interrupts disabled.
Modes == {"thread", "mark", "linked", "wake", "ready", "woken",
          "schedule", "dispatch"}

\* Places of a thread with interrupts enabled.
Places == {"run", "switch", "created", "initialised", "dying"}

VARIABLES
    threadState,    \* thread_table[t].state
    sleepsOn,       \* thread_table[t].sleeps_on
    ready,          \* scheduler_ready_to_run, from head to tail
    hashtable,      \* sleepq_hashtable, each bucket's chain from its head
    nextTid,        \* next_tid of thread_create
    currentThread,  \* scheduler_current_thread[c]
    sleepqSlock,    \* the CPU holding sleepq_slock, or NoCpu
    mode,           \* what CPU c is executing
    target,         \* the thread a CPU's scheduler or wake-up has in hand
    wakes,          \* the resource CPU c is waking sleepers of
    wakesAll,       \* c is in sleepq_wake_all rather than sleepq_wake
    inHandler,      \* c is in an interrupt handler called by interrupt_handle
    at,             \* where thread t stands when interrupts are enabled
    child           \* the thread t is creating

vars == <<threadState, sleepsOn, ready, hashtable, nextTid, currentThread,
          sleepqSlock, mode, target, wakes, wakesAll, inHandler, at, child>>

\* The state of the CPUs' calls into the sleep queue.
wakeVars == <<sleepqSlock, wakes, wakesAll, inHandler>>
createVars == <<nextTid, child>>

-----------------------------------------------------------------------------
\* After init(): thread_table_init, sleepq_init and scheduler_init have run,
\* thread_create has made the startup thread in row 1 and thread_run queued it;
\* every CPU is about to take its first software interrupt as the idle thread.
Init ==
    /\ threadState = [t \in Tids |-> IF t \in {Idle, 1} THEN "READY" ELSE "FREE"]
    /\ sleepsOn = [t \in Tids |-> NoResource]
    /\ ready = <<1>>
    /\ hashtable = [b \in Buckets |-> <<>>]
    /\ nextTid = 2 % MaxThreads
    /\ currentThread = [c \in CPUs |-> Idle]
    /\ sleepqSlock = NoCpu
    /\ mode = [c \in CPUs |-> "schedule"]
    /\ target = [c \in CPUs |-> Idle]
    /\ wakes = [c \in CPUs |-> NoResource]
    /\ wakesAll = [c \in CPUs |-> FALSE]
    /\ inHandler = [c \in CPUs |-> FALSE]
    /\ at = [t \in Tids |-> "run"]
    /\ child = [t \in Tids |-> Idle]

\* CPU c executes kernel or user code of a thread other than the idle thread.
Executes(c, t) == mode[c] = "thread" /\ currentThread[c] = t /\ t # Idle

MoveTo(c, m) == mode' = [mode EXCEPT ![c] = m]

-----------------------------------------------------------------------------
\* scheduler_schedule, under thread_table_slock: put the current thread away
\* and take the first ready thread, the idle thread if there is none.

\* Mutant of StateLeft: a dying thread is put back like any other.
StateLeftDyingReady(t) == IF sleepsOn[t] # NoResource THEN "SLEEPING" ELSE "READY"

\* The current thread is free if it was dying, asleep if it wants to sleep.
StateLeft(t) ==
    IF threadState[t] = "DYING" THEN "FREE"
    ELSE IF sleepsOn[t] # NoResource THEN "SLEEPING"
    ELSE "READY"

\* Mutant of ReadyAfterLeaving: the idle thread is queued too.
ReadyWithIdle(t) == IF StateLeft(t) = "READY" THEN Append(ready, t) ELSE ready

\* Mutant of ReadyAfterLeaving: the preempted thread is queued at the head.
ReadyLastInFirstOut(t) ==
    IF StateLeft(t) = "READY" /\ t # Idle THEN <<t>> \o ready ELSE ready

ReadyAfterLeaving(t) ==
    IF StateLeft(t) = "READY" /\ t # Idle THEN Append(ready, t) ELSE ready

FirstReady(queue) == IF queue = <<>> THEN Idle ELSE Head(queue)
RestReady(queue) == IF queue = <<>> THEN queue ELSE Tail(queue)

Schedule(c) ==
    LET t == currentThread[c]
        queue == ReadyAfterLeaving(t)
        first == FirstReady(queue)
    IN  /\ mode[c] = "schedule"
        /\ threadState' = [[threadState EXCEPT ![t] = StateLeft(t)]
                                        EXCEPT ![first] = "RUNNING"]
        /\ ready' = RestReady(queue)
        /\ target' = [target EXCEPT ![c] = first]
        /\ MoveTo(c, "dispatch")
        /\ UNCHANGED <<sleepsOn, hashtable, currentThread, wakeVars, at, createVars>>

\* scheduler_schedule after the lock is released, and the return from the
\* interrupt: only now does this CPU's current thread change.
Dispatch(c) ==
    /\ mode[c] = "dispatch"
    /\ currentThread' = [currentThread EXCEPT ![c] = target[c]]
    /\ target' = [target EXCEPT ![c] = Idle]
    /\ MoveTo(c, "thread")
    /\ UNCHANGED <<threadState, sleepsOn, ready, hashtable, wakeVars, at, createVars>>

\* The timer (hardware interrupt 5) preempts whatever runs with interrupts
\* enabled; so does any interrupt of the idle thread.
TimerInterrupt(c) ==
    /\ mode[c] = "thread"
    /\ MoveTo(c, "schedule")
    /\ UNCHANGED <<threadState, sleepsOn, ready, hashtable, currentThread, target,
                   wakeVars, at, createVars>>

\* _interrupt_generate_sw0 in thread_switch and thread_finish.
SoftwareInterrupt(c) ==
    \E t \in Tids :
        /\ Executes(c, t)
        /\ at[t] \in {"switch", "dying"}
        /\ at' = IF at[t] = "switch" THEN [at EXCEPT ![t] = "run"] ELSE at
        /\ MoveTo(c, "schedule")
        /\ UNCHANGED <<threadState, sleepsOn, ready, hashtable, currentThread,
                       target, wakeVars, createVars>>

-----------------------------------------------------------------------------
\* sleepq_add: the caller has disabled interrupts.  The thread's own row is
\* written before sleepq_slock is taken.
SleepqMark(c, t, r) ==
    /\ Executes(c, t)
    /\ at[t] = "run"
    /\ sleepsOn' = [sleepsOn EXCEPT ![t] = r]
    /\ MoveTo(c, "mark")
    /\ UNCHANGED <<threadState, ready, hashtable, currentThread, target,
                   wakeVars, at, createVars>>

\* The rest of sleepq_add: append to the bucket's chain under sleepq_slock.
SleepqLink(c) ==
    LET t == currentThread[c]
        b == Hash[sleepsOn[t]]
    IN  /\ mode[c] = "mark"
        /\ sleepqSlock = NoCpu
        /\ hashtable' = [hashtable EXCEPT ![b] = Append(@, t)]
        /\ MoveTo(c, "linked")
        /\ UNCHANGED <<threadState, sleepsOn, ready, currentThread, target,
                       wakeVars, at, createVars>>

\* The caller has released the lock of its resource and calls thread_switch,
\* which enables interrupts: from here the timer may come first.
ThreadSwitch(c) ==
    /\ mode[c] = "linked"
    /\ MoveTo(c, "thread")
    /\ at' = [at EXCEPT ![currentThread[c]] = "switch"]
    /\ UNCHANGED <<threadState, sleepsOn, ready, hashtable, currentThread, target,
                   wakeVars, createVars>>

-----------------------------------------------------------------------------
\* A call of sleepq_wake (all = FALSE) or sleepq_wake_all, by a thread or by a
\* device's interrupt handler, which runs on top of whatever was interrupted.
StartWake(c, r, all, handler) ==
    /\ mode[c] = "thread"
    /\ \/ handler
       \/ Executes(c, currentThread[c]) /\ at[currentThread[c]] = "run"
    /\ MoveTo(c, "wake")
    /\ wakes' = [wakes EXCEPT ![c] = r]
    /\ wakesAll' = [wakesAll EXCEPT ![c] = all]
    /\ inHandler' = [inHandler EXCEPT ![c] = handler]
    /\ UNCHANGED <<threadState, sleepsOn, ready, hashtable, currentThread,
                   sleepqSlock, target, at, createVars>>

\* Positions in bucket b's chain of the threads that wait for r.
Waiting(b, r) == {i \in DOMAIN hashtable[b] : sleepsOn[hashtable[b][i]] = r}

RemoveIndex(s, i) == [j \in 1 .. Len(s) - 1 |-> IF j < i THEN s[j] ELSE s[j + 1]]

\* Mutant of WakeFind: the thread found stays in the chain.
WakeFindNotUnlinked(c) ==
    LET b == Hash[wakes[c]]
    IN  /\ mode[c] = "wake"
        /\ sleepqSlock \in {NoCpu, c}
        /\ \E i \in Waiting(b, wakes[c]) :
               /\ \A j \in Waiting(b, wakes[c]) : i <= j
               /\ target' = [target EXCEPT ![c] = hashtable[b][i]]
        /\ sleepqSlock' = c
        /\ MoveTo(c, "ready")
        /\ UNCHANGED <<threadState, sleepsOn, ready, hashtable, currentThread, wakes,
                       wakesAll, inHandler, at, createVars>>

\* Mutant of WakeFind: the last waiter of the chain is woken, not the first.
WakeFindLast(c) ==
    LET b == Hash[wakes[c]]
    IN  /\ mode[c] = "wake"
        /\ sleepqSlock \in {NoCpu, c}
        /\ \E i \in Waiting(b, wakes[c]) :
               /\ \A j \in Waiting(b, wakes[c]) : i >= j
               /\ target' = [target EXCEPT ![c] = hashtable[b][i]]
               /\ hashtable' = [hashtable EXCEPT ![b] = RemoveIndex(@, i)]
        /\ sleepqSlock' = c
        /\ MoveTo(c, "ready")
        /\ UNCHANGED <<threadState, sleepsOn, ready, currentThread, wakes, wakesAll,
                       inHandler, at, createVars>>

\* Under sleepq_slock: unlink the first thread of the chain that waits for the
\* resource, past the ones that wait for another resource of the same bucket.
WakeFind(c) ==
    LET b == Hash[wakes[c]]
    IN  /\ mode[c] = "wake"
        /\ sleepqSlock \in {NoCpu, c}
        /\ \E i \in Waiting(b, wakes[c]) :
               /\ \A j \in Waiting(b, wakes[c]) : i <= j
               /\ target' = [target EXCEPT ![c] = hashtable[b][i]]
               /\ hashtable' = [hashtable EXCEPT ![b] = RemoveIndex(@, i)]
        /\ sleepqSlock' = c
        /\ MoveTo(c, "ready")
        /\ UNCHANGED <<threadState, sleepsOn, ready, currentThread, wakes, wakesAll,
                       inHandler, at, createVars>>

\* No thread of the chain waits for the resource: sleepq_slock is released.
WakeNone(c) ==
    /\ mode[c] = "wake"
    /\ sleepqSlock \in {NoCpu, c}
    /\ Waiting(Hash[wakes[c]], wakes[c]) = {}
    /\ sleepqSlock' = NoCpu
    /\ MoveTo(c, "woken")
    /\ UNCHANGED <<threadState, sleepsOn, ready, hashtable, currentThread, target,
                   wakes, wakesAll, inHandler, at, createVars>>

\* Where a wake-up goes once it has handled the thread it had in hand.
WakeContinue(c) ==
    /\ target' = [target EXCEPT ![c] = Idle]
    /\ IF wakesAll[c]
       THEN MoveTo(c, "wake") /\ UNCHANGED sleepqSlock
       ELSE MoveTo(c, "woken") /\ sleepqSlock' = NoCpu

\* Mutant of WakeReady: sleeps_on is cleared only if the thread was asleep.
WakeReadyOnlySleeping(c) ==
    LET t == target[c]
    IN  /\ mode[c] = "ready"
        /\ IF threadState[t] = "SLEEPING"
           THEN /\ sleepsOn' = [sleepsOn EXCEPT ![t] = NoResource]
                /\ threadState' = [threadState EXCEPT ![t] = "READY"]
                /\ ready' = Append(ready, t)
           ELSE UNCHANGED <<sleepsOn, threadState, ready>>
        /\ WakeContinue(c)
        /\ UNCHANGED <<hashtable, currentThread, wakes, wakesAll, inHandler, at,
                       createVars>>

\* Mutant of WakeReady: the woken thread is not put on the ready list.
WakeReadyNotQueued(c) ==
    LET t == target[c]
    IN  /\ mode[c] = "ready"
        /\ sleepsOn' = [sleepsOn EXCEPT ![t] = NoResource]
        /\ threadState' = [threadState EXCEPT
               ![t] = IF @ = "SLEEPING" THEN "READY" ELSE @]
        /\ WakeContinue(c)
        /\ UNCHANGED <<ready, hashtable, currentThread, wakes, wakesAll, inHandler,
                       at, createVars>>

\* Under thread_table_slock, inside sleepq_slock: the thread no longer wants to
\* sleep; it joins the ready list only if it got as far as sleeping.
WakeReady(c) ==
    LET t == target[c]
    IN  /\ mode[c] = "ready"
        /\ sleepsOn' = [sleepsOn EXCEPT ![t] = NoResource]
        /\ IF threadState[t] = "SLEEPING"
           THEN /\ threadState' = [threadState EXCEPT ![t] = "READY"]
                /\ ready' = Append(ready, t)
           ELSE UNCHANGED <<threadState, ready>>
        /\ WakeContinue(c)
        /\ UNCHANGED <<hashtable, currentThread, wakes, wakesAll, inHandler, at,
                       createVars>>

\* The caller of sleepq_wake goes on: a thread with interrupts enabled again; an
\* interrupt handler to the scheduler, if the idle thread was interrupted or the
\* timer fired too, and else back to the interrupted thread.
WakeReturn(c) ==
    /\ mode[c] = "woken"
    /\ \/ ~inHandler[c] /\ MoveTo(c, "thread")
       \/ inHandler[c] /\ currentThread[c] # Idle /\ MoveTo(c, "thread")
       \/ inHandler[c] /\ MoveTo(c, "schedule")
    /\ wakes' = [wakes EXCEPT ![c] = NoResource]
    /\ wakesAll' = [wakesAll EXCEPT ![c] = FALSE]
    /\ inHandler' = [inHandler EXCEPT ![c] = FALSE]
    /\ UNCHANGED <<threadState, sleepsOn, ready, hashtable, currentThread,
                   sleepqSlock, target, at, createVars>>

-----------------------------------------------------------------------------
\* Mutant of NextTid: next_tid is not wrapped around.
NextTidUnwrapped(u) == u + 1

\* next_tid after row u was taken.
NextTid(u) == (u + 1) % MaxThreads

\* Mutant of FreeRows: a row that is being initialised counts as free.
FreeRowsNonready ==
    {t \in Tids \ {Idle} : threadState[t] \in {"FREE", "NONREADY"}}

\* Mutant of FreeRows: a row whose thread is still dying counts as free.
FreeRowsDying == {t \in Tids \ {Idle} : threadState[t] \in {"FREE", "DYING"}}

\* How far row t is from next_tid, in the order thread_create looks at rows.
Distance(t) == (t - nextTid) % MaxThreads
FreeRows == {t \in Tids \ {Idle} : threadState[t] = "FREE"}

\* thread_create under thread_table_slock.  With no free row it returns -1 and
\* changes nothing.
ThreadCreate(c, t, u) ==
    /\ Executes(c, t)
    /\ at[t] = "run"
    /\ u \in FreeRows
    /\ \A v \in FreeRows : Distance(u) <= Distance(v)
    /\ threadState' = [threadState EXCEPT ![u] = "NONREADY"]
    /\ nextTid' = NextTid(u)
    /\ child' = [child EXCEPT ![t] = u]
    /\ at' = [at EXCEPT ![t] = "created"]
    /\ UNCHANGED <<sleepsOn, ready, hashtable, currentThread, mode, target, wakeVars>>

\* thread_create after the lock is released, interrupts enabled: the new row is
\* initialised.  Its context starts it in its function.
ThreadInitialise(c, t) ==
    /\ Executes(c, t)
    /\ at[t] = "created"
    /\ sleepsOn' = [sleepsOn EXCEPT ![child[t]] = NoResource]
    /\ at' = [at EXCEPT ![t] = "initialised", ![child[t]] = "run"]
    /\ UNCHANGED <<threadState, ready, hashtable, currentThread, mode, target,
                   wakeVars, createVars>>

\* thread_run, scheduler_add_ready.
ThreadRun(c, t) ==
    /\ Executes(c, t)
    /\ at[t] = "initialised"
    /\ ready' = Append(ready, child[t])
    /\ threadState' = [threadState EXCEPT ![child[t]] = "READY"]
    /\ child' = [child EXCEPT ![t] = Idle]
    /\ at' = [at EXCEPT ![t] = "run"]
    /\ UNCHANGED <<sleepsOn, hashtable, nextTid, currentThread, mode, target, wakeVars>>

\* thread_finish up to _interrupt_enable.
ThreadFinish(c, t) ==
    /\ Executes(c, t)
    /\ at[t] = "run"
    /\ threadState' = [threadState EXCEPT ![t] = "DYING"]
    /\ at' = [at EXCEPT ![t] = "dying"]
    /\ UNCHANGED <<sleepsOn, ready, hashtable, currentThread, mode, target, wakeVars,
                   createVars>>

-----------------------------------------------------------------------------
\* Steps a CPU takes by itself once it is inside the kernel.
SchedulerStep(c) == Schedule(c) \/ Dispatch(c)

SleepqStep(c) ==
    \/ SleepqLink(c) \/ ThreadSwitch(c)
    \/ WakeFind(c) \/ WakeNone(c) \/ WakeReady(c) \/ WakeReturn(c)

\* Steps of the thread that runs on c.
ThreadStep(c) ==
    \E t \in Tids :
        \/ \E r \in Resources : SleepqMark(c, t, r)
        \/ \E u \in Tids : ThreadCreate(c, t, u)
        \/ ThreadInitialise(c, t) \/ ThreadRun(c, t) \/ ThreadFinish(c, t)

WakeCall(c) ==
    \E r \in Resources, all, handler \in BOOLEAN : StartWake(c, r, all, handler)

Next ==
    \E c \in CPUs :
        \/ SchedulerStep(c) \/ TimerInterrupt(c) \/ SoftwareInterrupt(c)
        \/ SleepqStep(c) \/ ThreadStep(c) \/ WakeCall(c)

Spec == Init /\ [][Next]_vars

\* A CPU inside the kernel goes on, and a thread in the middle of a kernel call
\* makes its next step when it runs.  The timer stays pending until interrupts
\* are enabled, so an interrupt that is possible again and again is taken.
Fairness ==
    \A c \in CPUs :
        /\ WF_vars(SchedulerStep(c))
        /\ WF_vars(SleepqStep(c))
        /\ SF_vars(TimerInterrupt(c))

FairSpec == Spec /\ Fairness
-----------------------------------------------------------------------------
TypeOK ==
    /\ threadState \in [Tids -> States]
    /\ sleepsOn \in [Tids -> Resources \cup {NoResource}]
    /\ ready \in Seq(Tids)
    /\ hashtable \in [Buckets -> Seq(Tids)]
    /\ nextTid \in Tids
    /\ currentThread \in [CPUs -> Tids]
    /\ sleepqSlock \in CPUs \cup {NoCpu}
    /\ mode \in [CPUs -> Modes]
    /\ target \in [CPUs -> Tids]
    /\ wakes \in [CPUs -> Resources \cup {NoResource}]
    /\ wakesAll \in [CPUs -> BOOLEAN]
    /\ inHandler \in [CPUs -> BOOLEAN]
    /\ at \in [Tids -> Places]
    /\ child \in [Tids -> Tids]

Elements(s) == {s[i] : i \in DOMAIN s}
NoDuplicates(s) == \A i, j \in DOMAIN s : s[i] = s[j] => i = j

\* The ready list holds every READY thread but the idle thread, once, and no
\* thread in another state: scheduler_remove_first_ready asserts as much of the
\* head it takes (scheduler.c:121-125).
ReadyListExact ==
    /\ NoDuplicates(ready)
    /\ Elements(ready) = {t \in Tids \ {Idle} : threadState[t] = "READY"}

\* The thread CPU c is executing, or is switching to once it has chosen.
Holds(c) == IF mode[c] = "dispatch" THEN target[c] ELSE currentThread[c]

\* No two CPUs ever execute the same thread.  A thread put back on the ready
\* list can be taken by another CPU while this one still names it as its
\* current thread (scheduler.c:211-213); its stack must not be in use by then.
OneCpuPerThread ==
    \A c, d \in CPUs : c # d /\ Holds(c) = Holds(d) => Holds(c) = Idle

\* A wake-up on CPU c has unlinked t and not yet made it ready.
InHand(t) == \E c \in CPUs : mode[c] = "ready" /\ target[c] = t

\* A thread is in at most one chain, once, and there only while it waits for a
\* resource of that chain's bucket: sleepq_wake reads sleeps_on of every thread
\* it passes.
ChainsExact ==
    \A b \in Buckets :
        /\ NoDuplicates(hashtable[b])
        /\ \A t \in Elements(hashtable[b]) :
               /\ sleepsOn[t] \in Resources /\ Hash[sleepsOn[t]] = b
               /\ ~InHand(t)

\* No lost sleeper: a SLEEPING thread can be found by a wake-up of what it waits
\* for, or is being woken.  A wake-up that came between sleepq_add and
\* thread_switch must have kept the thread from sleeping.
SleepersFindable ==
    \A t \in Tids :
        threadState[t] = "SLEEPING" =>
            /\ sleepsOn[t] \in Resources
            /\ t \in Elements(hashtable[Hash[sleepsOn[t]]]) \/ InHand(t)

\* thread_create hands out a row only when its thread is gone: no CPU executes
\* a FREE or NONREADY row's thread, nothing queues it, and at most one thread is
\* initialising it.
RowsReusedSafely ==
    \A u \in Tids \ {Idle} :
        threadState[u] \in {"FREE", "NONREADY"} =>
            /\ \A c \in CPUs : Holds(c) # u
            /\ \A b \in Buckets : u \notin Elements(hashtable[b])
            /\ \A s, t \in Tids : child[s] = u /\ child[t] = u => s = t

\* A thread changes state only along these edges (thread.h:47-54): in particular
\* only a wake-up ends a sleep, and a dying thread never runs again.
Edges == {<<"FREE", "NONREADY">>, <<"NONREADY", "READY">>, <<"READY", "RUNNING">>,
          <<"RUNNING", "READY">>, <<"RUNNING", "SLEEPING">>, <<"RUNNING", "DYING">>,
          <<"SLEEPING", "READY">>, <<"DYING", "FREE">>}

ThreadLifeCycle ==
    [][\A t \in Tids : threadState'[t] # threadState[t] =>
                           <<threadState[t], threadState'[t]>> \in Edges]_vars

\* A ready thread is eventually run: the list is first-in first-out and every
\* time slice ends.
ReadyRuns ==
    \A t \in Tids \ {Idle} : threadState[t] = "READY" ~> threadState[t] = "RUNNING"
=============================================================================
