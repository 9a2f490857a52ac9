------------------------ MODULE KernelSemaphoreProofs ------------------------
(***************************************************************************)
(* Proofs about module KernelSemaphore.  A step of the kernel with         *)
(* semaphores is a step of the scheduler and the sleep queue, so what      *)
(* SchedulerProofs establishes holds here too; on top of it stands who     *)
(* holds which semaphore's lock, and what a semaphore's value counts.      *)
(***************************************************************************)
EXTENDS KernelSemaphore, SchedulerProofs, FiniteSetTheorems

LEMMA StepIsSchedulerStep == [KSNext]_allVars => [Next]_vars
<1> SUFFICES ASSUME [KSNext]_allVars PROVE [Next]_vars
  OBVIOUS
<1>1. CASE UNCHANGED allVars
  BY <1>1 DEF allVars
<1>2. CASE KSNext
  <2>1. PICK c \in CPUs :
            \/ SwitchStep(c) \/ TimerStep(c) \/ SoftwareStep(c)
            \/ KernelStep(c) \/ ThreadLifeStep(c)
            \/ \E s \in Semaphores : P(c, s) \/ V(c, s)
    BY <1>2 DEF KSNext
  <2>2. CASE SwitchStep(c) \/ TimerStep(c) \/ SoftwareStep(c)
    BY <2>2 DEF SwitchStep, TimerStep, SoftwareStep, Next
  <2>3. CASE KernelStep(c)
    BY <2>3 DEF KernelStep, SleepqInnerStep, SemaphoreSwitch, SemaphoreWoken,
                SleepqStep, Next
  <2>4. CASE ThreadLifeStep(c)
    BY <2>4 DEF ThreadLifeStep, ThreadStep, Next
  <2>5. CASE \E s \in Semaphores : P(c, s)
    BY <2>5 DEF P, SemaphorePass, SemaphoreBlock, Semaphores, ThreadStep, Next
  <2>6. CASE \E s \in Semaphores : V(c, s)
    BY <2>6 DEF V, SemaphoreRaise, SemaphoreWake, Semaphores, WakeCall, Next
  <2>7. QED
    BY <2>1, <2>2, <2>3, <2>4, <2>5, <2>6
<1>3. QED
  BY <1>1, <1>2

\* What the scheduler and the sleep queue keep true, with or without semaphores.
KernelInv == TypeInv /\ SchedInv /\ SleepInv /\ LifeInv /\ ChainInv

LEMMA KernelInvariance == KSSpec => []KernelInv
<1>1. KSInit => KernelInv
  BY TypeInit, SchedInit, SleepInit, LifeInit, ChainInit DEF KSInit, KernelInv
<1>2. KernelInv /\ [KSNext]_allVars => KernelInv'
  BY StepIsSchedulerStep, TypeStep, SchedStep, WantersStep, SleepersWantStep, LifeStep,
     ChainStep DEF KernelInv, SleepInv
<1>3. QED
  BY <1>1, <1>2, PTL DEF KSSpec

-----------------------------------------------------------------------------
\* Type correctness.
SemTypes ==
    /\ value \in [Semaphores -> Int]
    /\ slock \in [Semaphores -> CPUs \cup {NoCpu}]

LEMMA SemTypesInit == KSInit => SemTypes
<1> SUFFICES ASSUME KSInit PROVE SemTypes
  OBVIOUS
<1>1. InitialValues \subseteq Int
  BY KernelSemaphoreAssumption
<1>2. value \in [Semaphores -> Int]
  BY <1>1 DEF KSInit
<1>3. slock \in [Semaphores -> CPUs \cup {NoCpu}]
  BY DEF KSInit
<1>4. QED
  BY <1>2, <1>3 DEF SemTypes

LEMMA SemTypesStep == SemTypes /\ [KSNext]_allVars => SemTypes'
<1> SUFFICES ASSUME SemTypes, [KSNext]_allVars PROVE SemTypes'
  OBVIOUS
<1>1. CASE UNCHANGED semVars
  BY <1>1 DEF SemTypes, semVars
<1>2. ASSUME NEW c \in CPUs, SemaphoreSwitch(c) PROVE SemTypes'
  BY <1>2 DEF SemTypes, SemaphoreSwitch
<1>3. ASSUME NEW c \in CPUs, SemaphoreWoken(c) PROVE SemTypes'
  BY <1>3 DEF SemTypes, SemaphoreWoken
<1>4. ASSUME NEW c \in CPUs, NEW s \in Semaphores, P(c, s) PROVE SemTypes'
  BY <1>4 DEF SemTypes, P, SemaphorePass, SemaphoreBlock
<1>5. ASSUME NEW c \in CPUs, NEW s \in Semaphores, V(c, s) PROVE SemTypes'
  <2>1. /\ value' = [value EXCEPT ![s] = @ + 1]
        /\ UNCHANGED slock \/ slock' = [slock EXCEPT ![s] = c]
    BY <1>5 DEF V, SemaphoreRaise, SemaphoreWake
  <2>2. QED
    BY <2>1 DEF SemTypes
<1>6. QED
  BY <1>1, <1>2, <1>3, <1>4, <1>5
  DEF KSNext, SwitchStep, TimerStep, SoftwareStep, KernelStep, SleepqInnerStep,
      ThreadLifeStep, allVars, semVars

\* Every variable of the kernel's semaphores keeps its type (semaphore.h:43-48).
THEOREM KernelSemaphoreTypes == KSSpec => []KSTypeOK
<1>1. KSSpec => []SemTypes
  BY SemTypesInit, SemTypesStep, PTL DEF KSSpec
<1>2. KernelInv /\ SemTypes => KSTypeOK
  BY DEF KernelInv, TypeInv, SemTypes, KSTypeOK
<1>3. QED
  BY <1>1, <1>2, KernelInvariance, PTL

-----------------------------------------------------------------------------
\* Who holds the locks.  LockHolderInKernel is not inductive: that a wake-up on
\* another CPU cannot take the thread this one is putting to sleep, and so cannot
\* make it forget whose lock it holds, needs the converse, that each call has the
\* lock of its semaphore, and that a wake-up has in hand a waiter of its own.

\* Where a CPU is inside semaphore_P or semaphore_V.
CallModes == {"mark", "linked", "wake", "ready", "woken"}

NeverWakesAll == \A c \in CPUs : ~wakesAll[c]

CallHasLock ==
    \A c \in CPUs :
        /\ mode[c] \in {"mark", "linked"} =>
               /\ sleepsOn[currentThread[c]] \in Semaphores
               /\ slock[sleepsOn[currentThread[c]]] = c
        /\ mode[c] \in {"wake", "ready", "woken"} =>
               wakes[c] \in Semaphores /\ slock[wakes[c]] = c

TargetWaits == \A c \in CPUs : mode[c] = "ready" => sleepsOn[target[c]] = wakes[c]

LocksInv == NeverWakesAll /\ CallHasLock /\ TargetWaits /\ LockHolderInKernel

LEMMA LocksInit == KSInit => LocksInv
BY DEF KSInit, Init, LocksInv, NeverWakesAll, CallHasLock, TargetWaits,
       LockHolderInKernel

\* A step of CPU c outside the calls, which no sleeper notices.
OutsideStep(c) ==
    /\ mode[c] \notin CallModes /\ mode'[c] \notin CallModes
    /\ \A d \in CPUs \ {c} : /\ mode'[d] = mode[d]
                             /\ currentThread'[d] = currentThread[d]
                             /\ target'[d] = target[d]
    /\ \A t \in Tids : sleepsOn'[t] = sleepsOn[t]
    /\ UNCHANGED <<hashtable, wakes, wakesAll, slock>>

LEMMA ThreadLifeOutside ==
    ASSUME KernelInv, NEW c \in CPUs, ThreadLifeStep(c)
    PROVE  OutsideStep(c) /\ UNCHANGED semVars
<1> USE DEF KernelInv, CallModes
<1>1. /\ mode[c] = "thread" /\ UNCHANGED <<mode, hashtable, currentThread, target, wakes, wakesAll>>
      /\ UNCHANGED semVars
  BY DEF ThreadLifeStep, ThreadCreate, ThreadInitialise, ThreadRun, ThreadFinish,
         Executes, wakeVars
<1>2. \A t \in Tids : sleepsOn'[t] = sleepsOn[t]
  <2>1. CASE UNCHANGED sleepsOn
    BY <2>1
  <2>2. ASSUME NEW t \in Tids, ThreadInitialise(c, t)
        PROVE  \A u \in Tids : sleepsOn'[u] = sleepsOn[u]
    <3>1. at[t] = "created" /\ sleepsOn' = [sleepsOn EXCEPT ![child[t]] = NoResource]
      BY <2>2 DEF ThreadInitialise
    <3>2. threadState[child[t]] = "NONREADY"
      BY <3>1 DEF SchedInv, ChildrenApart, Creating
    <3>3. child[t] \in Tids /\ sleepsOn \in [Tids -> Resources \cup {NoResource}]
      BY DEF TypeInv, TypeOK
    <3>4. sleepsOn[child[t]] = NoResource
      BY <3>2, <3>3 DEF LifeInv, WantersLive
    <3>5. QED
      BY <3>1, <3>3, <3>4
  <2>3. QED
    BY <2>1, <2>2 DEF ThreadLifeStep, ThreadCreate, ThreadRun, ThreadFinish
<1>3. QED
  BY <1>1, <1>2 DEF OutsideStep, semVars

LEMMA SwitchingOutside ==
    ASSUME KernelInv, NEW c \in CPUs, SwitchStep(c) \/ TimerStep(c) \/ SoftwareStep(c)
    PROVE  OutsideStep(c) /\ UNCHANGED semVars
<1>1. mode \in [CPUs -> Modes]
  BY DEF KernelInv, TypeInv, TypeOK
<1>2. CASE SwitchStep(c)
  <2>1. /\ \/ mode[c] = "schedule" /\ mode' = [mode EXCEPT ![c] = "dispatch"]
           \/ mode[c] = "dispatch" /\ mode' = [mode EXCEPT ![c] = "thread"]
        /\ \A d \in CPUs \ {c} : currentThread'[d] = currentThread[d] /\ target'[d] = target[d]
        /\ UNCHANGED <<sleepsOn, hashtable, wakes, wakesAll, semVars>>
    <3>1. CASE Schedule(c)
      BY <1>2, <3>1 DEF SwitchStep, Schedule, MoveTo, wakeVars
    <3>2. CASE Dispatch(c)
      BY <1>2, <3>2 DEF SwitchStep, Dispatch, MoveTo, wakeVars
    <3>3. QED
      BY <1>2, <3>1, <3>2 DEF SwitchStep, SchedulerStep
  <2>2. QED
    BY <1>1, <2>1 DEF semVars, OutsideStep, CallModes
<1>3. CASE TimerStep(c)
  BY <1>1, <1>3 DEF TimerStep, TimerInterrupt, MoveTo, wakeVars, semVars, OutsideStep,
                    CallModes
<1>4. CASE SoftwareStep(c)
  BY <1>1, <1>4 DEF SoftwareStep, SoftwareInterrupt, Executes, MoveTo, wakeVars, semVars,
                    OutsideStep, CallModes
<1>5. QED
  BY <1>2, <1>3, <1>4

\* semaphore_P and semaphore_V that only count.
LEMMA CountingOutside ==
    ASSUME NEW c \in CPUs, NEW s \in Semaphores,
           \/ \E t \in Tids : SemaphorePass(c, t, s)
           \/ \E handler \in BOOLEAN : SemaphoreRaise(c, s, handler)
    PROVE  OutsideStep(c)
BY DEF SemaphorePass, SemaphoreRaise, Executes, vars, wakeVars, OutsideStep, CallModes

LEMMA LocksOutside ==
    ASSUME TypeInv, SemTypes, LocksInv, NEW c \in CPUs, OutsideStep(c)
    PROVE  LocksInv'
<1> USE DEF OutsideStep
<1>1. \A d \in CPUs : currentThread[d] \in Tids /\ target[d] \in Tids
  BY DEF TypeInv, TypeOK
<1>2. \A s \in Semaphores : slock[s] # c
  BY SchedulerAssumption DEF LocksInv, LockHolderInKernel, CallModes
<1>3. NeverWakesAll'
  BY DEF LocksInv, NeverWakesAll
<1>4. CallHasLock'
  BY <1>1 DEF LocksInv, CallHasLock, CallModes
<1>5. TargetWaits'
  BY <1>1 DEF LocksInv, TargetWaits, CallModes
<1>6. LockHolderInKernel'
  BY <1>1, <1>2 DEF SemTypes, LocksInv, LockHolderInKernel
<1>7. QED
  BY <1>3, <1>4, <1>5, <1>6 DEF LocksInv

\* semaphore_P that blocks: the caller did not want to sleep, so nobody has it in
\* hand or in its way into a chain.
LEMMA LocksBlock ==
    ASSUME KernelInv, SemTypes, LocksInv, NEW c \in CPUs, NEW t \in Tids,
           NEW s \in Semaphores, SemaphoreBlock(c, t, s)
    PROVE  LocksInv' /\ sleepsOn[t] = NoResource
<1> USE DEF KernelInv
<1>1. mode[c] = "thread" /\ currentThread[c] = t /\ at[t] = "run" /\ Executes(c, t)
  BY DEF SemaphoreBlock, SleepqMark, Executes
<1>2. sleepsOn[t] = NoResource
  BY <1>1, ExecutesAwake
<1>3. /\ sleepsOn' = [sleepsOn EXCEPT ![t] = s] /\ mode' = [mode EXCEPT ![c] = "mark"]
      /\ slock[s] = NoCpu /\ slock' = [slock EXCEPT ![s] = c]
      /\ UNCHANGED <<currentThread, target, wakes, wakesAll>>
  BY DEF SemaphoreBlock, SleepqMark, MoveTo, wakeVars
<1>4. /\ \A d \in CPUs : currentThread[d] \in Tids /\ target[d] \in Tids
      /\ sleepsOn \in [Tids -> Resources \cup {NoResource}] /\ mode \in [CPUs -> Modes]
  BY DEF TypeInv, TypeOK
<1>5. \A d \in CPUs : mode[d] \in {"mark", "linked"} => currentThread[d] # t
  BY <1>1, ExecutesHeld DEF Holds
<1>6. \A d \in CPUs : mode[d] = "ready" => target[d] # t
  BY <1>2, SchedulerAssumption DEF ChainInv, HandsLocked
<1>7. \A r \in Semaphores : slock[r] # c
  BY <1>1, SchedulerAssumption DEF LocksInv, LockHolderInKernel
<1>8. NeverWakesAll'
  BY <1>3 DEF LocksInv, NeverWakesAll
<1>9. CallHasLock'
  BY <1>1, <1>3, <1>4, <1>5, SchedulerAssumption
  DEF LocksInv, CallHasLock, SemTypes, Semaphores
<1>10. TargetWaits'
  BY <1>1, <1>3, <1>4, <1>6 DEF LocksInv, TargetWaits
<1>11. LockHolderInKernel'
  BY <1>1, <1>3, <1>4, <1>5, <1>7, SchedulerAssumption
  DEF LocksInv, LockHolderInKernel, SemTypes, Semaphores
<1>12. QED
  BY <1>2, <1>8, <1>9, <1>10, <1>11 DEF LocksInv

\* sleepq_add goes on to the chain.
LEMMA LocksLink ==
    ASSUME KernelInv, SemTypes, LocksInv, NEW c \in CPUs, SleepqLink(c), UNCHANGED semVars
    PROVE  LocksInv'
<1>1. /\ mode[c] = "mark" /\ mode' = [mode EXCEPT ![c] = "linked"]
      /\ UNCHANGED <<sleepsOn, currentThread, target, wakes, wakesAll, slock>>
  BY DEF SleepqLink, MoveTo, wakeVars, semVars
<1>2. mode \in [CPUs -> Modes]
  BY DEF KernelInv, TypeInv, TypeOK
<1>3. NeverWakesAll' /\ CallHasLock' /\ TargetWaits'
  BY <1>1, <1>2 DEF LocksInv, NeverWakesAll, CallHasLock, TargetWaits
<1>4. LockHolderInKernel'
  BY <1>1, <1>2 DEF LocksInv, LockHolderInKernel, SemTypes
<1>5. QED
  BY <1>3, <1>4 DEF LocksInv

\* The lock is released before thread_switch.
LEMMA LocksSwitch ==
    ASSUME KernelInv, SemTypes, LocksInv, NEW c \in CPUs, SemaphoreSwitch(c)
    PROVE  LocksInv'
<1> DEFINE s == sleepsOn[currentThread[c]]
<1>1. /\ mode[c] = "linked" /\ mode' = [mode EXCEPT ![c] = "thread"]
      /\ UNCHANGED <<sleepsOn, currentThread, target, wakes, wakesAll>>
      /\ slock' = [slock EXCEPT ![s] = NoCpu]
  BY DEF SemaphoreSwitch, ThreadSwitch, MoveTo, wakeVars
<1>2. mode \in [CPUs -> Modes]
  BY DEF KernelInv, TypeInv, TypeOK
<1>3. s \in Semaphores /\ slock[s] = c
  BY <1>1 DEF LocksInv, CallHasLock
<1>4. \A r \in Semaphores : slock[r] = c => r = s
  BY <1>1, SchedulerAssumption DEF LocksInv, LockHolderInKernel
<1> HIDE DEF s
<1>5. NeverWakesAll' /\ TargetWaits'
  BY <1>1, <1>2 DEF LocksInv, NeverWakesAll, TargetWaits
<1>6. CallHasLock'
  BY <1>1, <1>2, <1>3 DEF LocksInv, CallHasLock, SemTypes
<1>7. LockHolderInKernel'
  BY <1>1, <1>2, <1>3, <1>4 DEF LocksInv, LockHolderInKernel, SemTypes
<1>8. QED
  BY <1>5, <1>6, <1>7 DEF LocksInv

\* semaphore_V takes the lock and calls sleepq_wake.
LEMMA LocksWake ==
    ASSUME KernelInv, SemTypes, LocksInv, NEW c \in CPUs, NEW s \in Semaphores,
           NEW handler, SemaphoreWake(c, s, handler)
    PROVE  LocksInv'
<1>1. /\ mode[c] = "thread" /\ mode' = [mode EXCEPT ![c] = "wake"]
      /\ wakes' = [wakes EXCEPT ![c] = s] /\ wakesAll' = [wakesAll EXCEPT ![c] = FALSE]
      /\ slock[s] = NoCpu /\ slock' = [slock EXCEPT ![s] = c]
      /\ UNCHANGED <<sleepsOn, currentThread, target>>
  BY DEF SemaphoreWake, StartWake, MoveTo
<1>2. /\ mode \in [CPUs -> Modes] /\ wakesAll \in [CPUs -> BOOLEAN]
      /\ wakes \in [CPUs -> Resources \cup {NoResource}]
  BY DEF KernelInv, TypeInv, TypeOK
<1>3. \A r \in Semaphores : slock[r] # c
  BY <1>1, SchedulerAssumption DEF LocksInv, LockHolderInKernel
<1>4. NeverWakesAll'
  BY <1>1, <1>2 DEF LocksInv, NeverWakesAll
<1>5. TargetWaits'
  BY <1>1, <1>2 DEF LocksInv, TargetWaits
<1>6. CallHasLock'
  BY <1>1, <1>2, SchedulerAssumption DEF LocksInv, CallHasLock, SemTypes
<1>7. LockHolderInKernel'
  BY <1>1, <1>2, <1>3 DEF LocksInv, LockHolderInKernel, SemTypes
<1>8. QED
  BY <1>4, <1>5, <1>6, <1>7 DEF LocksInv

\* sleepq_wake takes a waiter of its own resource out of the chain.
LEMMA LocksFind ==
    ASSUME KernelInv, SemTypes, LocksInv, NEW c \in CPUs, WakeFind(c), UNCHANGED semVars
    PROVE  LocksInv'
<1> DEFINE b == Hash[wakes[c]]
<1>1. /\ mode[c] = "wake" /\ mode' = [mode EXCEPT ![c] = "ready"]
      /\ UNCHANGED <<sleepsOn, currentThread, wakes, wakesAll, slock>>
  BY DEF WakeFind, MoveTo, semVars
<1>2. PICK i \in Waiting(b, wakes[c]) : target' = [target EXCEPT ![c] = hashtable[b][i]]
  BY DEF WakeFind
<1>3. mode \in [CPUs -> Modes] /\ target \in [CPUs -> Tids]
  BY DEF KernelInv, TypeInv, TypeOK
<1>4. sleepsOn[hashtable[b][i]] = wakes[c]
  BY <1>2 DEF Waiting
<1>5. TargetWaits'
  BY <1>1, <1>2, <1>3, <1>4 DEF LocksInv, TargetWaits
<1>6. NeverWakesAll' /\ CallHasLock'
  BY <1>1, <1>3 DEF LocksInv, NeverWakesAll, CallHasLock
<1>7. LockHolderInKernel'
  BY <1>1, <1>3 DEF LocksInv, LockHolderInKernel, SemTypes
<1>8. QED
  BY <1>5, <1>6, <1>7 DEF LocksInv

\* The thread in hand no longer wants to sleep: no call on another semaphore
\* concerns it.
LEMMA LocksReady ==
    ASSUME KernelInv, SemTypes, LocksInv, NEW c \in CPUs, WakeReady(c), UNCHANGED semVars
    PROVE  LocksInv'
<1> DEFINE u == target[c]
<1>1. /\ mode[c] = "ready" /\ mode' = [mode EXCEPT ![c] = "woken"]
      /\ sleepsOn' = [sleepsOn EXCEPT ![u] = NoResource]
      /\ target' = [target EXCEPT ![c] = Idle]
      /\ UNCHANGED <<currentThread, wakes, wakesAll, slock>>
  BY DEF WakeReady, WakeContinue, MoveTo, semVars, LocksInv, NeverWakesAll
<1>2. /\ mode \in [CPUs -> Modes] /\ target \in [CPUs -> Tids]
      /\ currentThread \in [CPUs -> Tids]
      /\ sleepsOn \in [Tids -> Resources \cup {NoResource}]
  BY DEF KernelInv, TypeInv, TypeOK
<1>3. sleepsOn[u] = wakes[c] /\ slock[wakes[c]] = c
  BY <1>1 DEF LocksInv, TargetWaits, CallHasLock
<1>4. \A d \in CPUs : mode[d] \in {"mark", "linked"} => currentThread[d] # u
  BY <1>1, <1>3 DEF LocksInv, CallHasLock
<1>5. \A d \in CPUs : mode[d] = "ready" => d = c
  BY <1>1 DEF KernelInv, ChainInv, HandsLocked
<1>6. NeverWakesAll'
  BY <1>1 DEF LocksInv, NeverWakesAll
<1>7. TargetWaits'
  BY <1>1, <1>2, <1>5 DEF LocksInv, TargetWaits
<1>8. CallHasLock'
  BY <1>1, <1>2, <1>4 DEF LocksInv, CallHasLock
<1>9. LockHolderInKernel'
  BY <1>1, <1>2, <1>4 DEF LocksInv, LockHolderInKernel, SemTypes
<1>10. QED
  BY <1>6, <1>7, <1>8, <1>9 DEF LocksInv

\* semaphore_V releases the lock.
LEMMA LocksWoken ==
    ASSUME KernelInv, SemTypes, LocksInv, NEW c \in CPUs, SemaphoreWoken(c)
    PROVE  LocksInv'
<1> DEFINE s == wakes[c]
<1>1. /\ mode[c] = "woken" /\ mode' \in {[mode EXCEPT ![c] = m] : m \in {"thread", "schedule"}}
      /\ UNCHANGED <<sleepsOn, currentThread, target>>
      /\ wakes' = [wakes EXCEPT ![c] = NoResource]
      /\ wakesAll' = [wakesAll EXCEPT ![c] = FALSE]
      /\ slock' = [slock EXCEPT ![s] = NoCpu]
  BY DEF SemaphoreWoken, WakeReturn, MoveTo
<1>2. /\ mode \in [CPUs -> Modes] /\ wakesAll \in [CPUs -> BOOLEAN]
      /\ wakes \in [CPUs -> Resources \cup {NoResource}]
  BY DEF KernelInv, TypeInv, TypeOK
<1>3. s \in Semaphores /\ slock[s] = c
  BY <1>1 DEF LocksInv, CallHasLock
<1>4. \A r \in Semaphores : slock[r] = c => r = s
  BY <1>1, SchedulerAssumption DEF LocksInv, LockHolderInKernel
<1> HIDE DEF s
<1>5. NeverWakesAll' /\ TargetWaits'
  BY <1>1, <1>2 DEF LocksInv, NeverWakesAll, TargetWaits
<1>6. CallHasLock'
  BY <1>1, <1>2, <1>3 DEF LocksInv, CallHasLock, SemTypes
<1>7. LockHolderInKernel'
  BY <1>1, <1>2, <1>3, <1>4 DEF LocksInv, LockHolderInKernel, SemTypes
<1>8. QED
  BY <1>5, <1>6, <1>7 DEF LocksInv

-----------------------------------------------------------------------------
\* What a value counts.

LEMMA WaitersFinite == \A s : IsFiniteSet(Waiters(s)) /\ Cardinality(Waiters(s)) \in Nat
<1>1. IsFiniteSet(Tids)
  BY SchedulerAssumption, FS_Interval DEF Tids
<1>2. \A s : Waiters(s) \subseteq Tids
  BY DEF Waiters
<1>3. QED
  BY <1>1, <1>2, FS_Subset, FS_CardinalityType

\* A semaphore_V in progress has a waiter: the sleep queue finds it.
LEMMA WaiterThere ==
    ASSUME KernelInv, SemTypes, LocksInv, ValueCountsWaiters
    PROVE  NoWakeMisses
<1> SUFFICES ASSUME NEW c \in CPUs, mode[c] = "wake"
             PROVE  Waiting(Hash[wakes[c]], wakes[c]) # {}
  BY DEF NoWakeMisses
<1> DEFINE s == wakes[c]
<1>1. s \in Semaphores /\ slock[s] = c
  BY DEF LocksInv, CallHasLock
<1>2. Releasing(s)
  BY <1>1 DEF Releasing
<1>3. Cardinality(Waiters(s)) >= 1
  <2>1. Cardinality(Waiters(s)) = (IF value[s] < 0 THEN -value[s] ELSE 0) + 1
    BY <1>1, <1>2 DEF ValueCountsWaiters
  <2>2. value[s] \in Int
    BY <1>1 DEF SemTypes
  <2>3. QED
    BY <2>1, <2>2
<1>4. PICK t \in Tids : sleepsOn[t] = s
  BY <1>3, FS_EmptySet DEF Waiters
<1>5. ~Marking(t) /\ ~InHand(t)
  BY <1>1, <1>4 DEF Marking, InHand, LocksInv, CallHasLock, TargetWaits
<1>6. Chained(t)
  BY <1>1, <1>4, <1>5 DEF KernelInv, SleepInv, WantersFindable, Semaphores
<1>7. QED
  BY <1>4, <1>6 DEF Chained, Elements, Waiting

\* A step that leaves the sleepers, the values and the calls of semaphore_V alone.
LEMMA CountsUnchanged ==
    ASSUME ValueCountsWaiters,
           \A t \in Tids : sleepsOn'[t] = sleepsOn[t],
           \A s \in Semaphores : Releasing(s)' <=> Releasing(s),
           UNCHANGED value
    PROVE  ValueCountsWaiters'
<1>1. \A s \in Semaphores : Waiters(s)' = Waiters(s)
  BY DEF Waiters
<1>2. QED
  BY <1>1 DEF ValueCountsWaiters

\* No other CPU's call of semaphore_V is concerned by a step of c.
LEMMA ReleasingSame ==
    ASSUME SemTypes, NEW c \in CPUs, UNCHANGED slock,
           \A d \in CPUs \ {c} : mode'[d] = mode[d],
           mode'[c] \in {"wake", "ready"} <=> mode[c] \in {"wake", "ready"}
    PROVE  \A s \in Semaphores : Releasing(s)' <=> Releasing(s)
BY DEF Releasing

\* A thread blocks: one more waiter, one less in value.
LEMMA CountsBlock ==
    ASSUME KernelInv, SemTypes, LocksInv, ValueCountsWaiters,
           NEW c \in CPUs, NEW t \in Tids, NEW s \in Semaphores, SemaphoreBlock(c, t, s)
    PROVE  ValueCountsWaiters'
<1>1. /\ mode[c] = "thread" /\ mode' = [mode EXCEPT ![c] = "mark"]
      /\ sleepsOn' = [sleepsOn EXCEPT ![t] = s] /\ sleepsOn[t] = NoResource
      /\ slock[s] = NoCpu /\ slock' = [slock EXCEPT ![s] = c]
      /\ value[s] - 1 < 0 /\ value' = [value EXCEPT ![s] = @ - 1]
  BY LocksBlock DEF SemaphoreBlock, SleepqMark, Executes, MoveTo
<1>2. /\ mode \in [CPUs -> Modes] /\ value[s] \in Int
      /\ sleepsOn \in [Tids -> Resources \cup {NoResource}]
  BY DEF KernelInv, TypeInv, TypeOK, SemTypes
<1>3. \A r \in Semaphores : r # NoResource
  BY SchedulerAssumption DEF Semaphores
<1>4. ASSUME NEW r \in Semaphores
      PROVE  Cardinality(Waiters(r)') = (IF value'[r] < 0 THEN -value'[r] ELSE 0)
                                        + (IF Releasing(r)' THEN 1 ELSE 0)
  <2>1. Cardinality(Waiters(r)) = (IF value[r] < 0 THEN -value[r] ELSE 0)
                                  + (IF Releasing(r) THEN 1 ELSE 0)
    BY DEF ValueCountsWaiters
  <2>2. CASE r = s
    <3>1. Waiters(s)' = Waiters(s) \cup {t} /\ t \notin Waiters(s)
      BY <1>1, <1>2, <1>3 DEF Waiters
    <3>2. Cardinality(Waiters(s)') = Cardinality(Waiters(s)) + 1
      BY <3>1, WaitersFinite, FS_AddElement
    <3>3. ~Releasing(s)
      BY <1>1, SchedulerAssumption DEF Releasing
    <3>4. ~Releasing(s)'
      BY <1>1, <1>2 DEF Releasing, SemTypes
    <3>5. value'[s] = value[s] - 1
      BY <1>1 DEF SemTypes
    <3>6. QED
      BY <1>1, <1>2, <2>1, <2>2, <3>2, <3>3, <3>4, <3>5, WaitersFinite
  <2>3. CASE r # s
    <3>1. Waiters(r)' = Waiters(r)
      BY <1>1, <1>2, <1>3, <2>3 DEF Waiters
    <3>2. Releasing(r)' <=> Releasing(r)
      BY <1>1, <1>2, <2>3 DEF Releasing, SemTypes
    <3>3. value'[r] = value[r]
      BY <1>1, <2>3 DEF SemTypes
    <3>4. QED
      BY <2>1, <3>1, <3>2, <3>3
  <2>4. QED
    BY <2>2, <2>3
<1>5. QED
  BY <1>4 DEF ValueCountsWaiters

\* A semaphore_V has counted the token it is going to hand over.
LEMMA CountsWake ==
    ASSUME KernelInv, SemTypes, LocksInv, ValueCountsWaiters,
           NEW c \in CPUs, NEW s \in Semaphores, NEW handler, SemaphoreWake(c, s, handler)
    PROVE  ValueCountsWaiters'
<1>1. /\ mode[c] = "thread" /\ mode' = [mode EXCEPT ![c] = "wake"]
      /\ UNCHANGED sleepsOn
      /\ slock[s] = NoCpu /\ slock' = [slock EXCEPT ![s] = c]
      /\ value[s] + 1 <= 0 /\ value' = [value EXCEPT ![s] = @ + 1]
  BY DEF SemaphoreWake, StartWake, FindsWaiter, MoveTo
<1>2. mode \in [CPUs -> Modes] /\ value[s] \in Int
  BY DEF KernelInv, TypeInv, TypeOK, SemTypes
<1>3. ASSUME NEW r \in Semaphores
      PROVE  Cardinality(Waiters(r)') = (IF value'[r] < 0 THEN -value'[r] ELSE 0)
                                        + (IF Releasing(r)' THEN 1 ELSE 0)
  <2>1. Cardinality(Waiters(r)) = (IF value[r] < 0 THEN -value[r] ELSE 0)
                                  + (IF Releasing(r) THEN 1 ELSE 0)
    BY DEF ValueCountsWaiters
  <2>2. Waiters(r)' = Waiters(r)
    BY <1>1 DEF Waiters
  <2>3. CASE r = s
    <3>1. ~Releasing(s)
      BY <1>1, SchedulerAssumption DEF Releasing
    <3>2. Releasing(s)'
      BY <1>1, <1>2 DEF Releasing, SemTypes
    <3>3. value'[s] = value[s] + 1
      BY <1>1 DEF SemTypes
    <3>4. QED
      BY <1>1, <1>2, <2>1, <2>2, <2>3, <3>1, <3>2, <3>3
  <2>4. CASE r # s
    <3>1. Releasing(r)' <=> Releasing(r)
      <4>1. slock'[r] = slock[r]
        BY <1>1, <2>4 DEF SemTypes
      <4>2. slock[r] # c
        BY <1>1, SchedulerAssumption DEF LocksInv, LockHolderInKernel
      <4>3. QED
        BY <1>1, <4>1, <4>2 DEF Releasing
    <3>2. value'[r] = value[r]
      BY <1>1, <2>4 DEF SemTypes
    <3>3. QED
      BY <2>1, <2>2, <3>1, <3>2
  <2>5. QED
    BY <2>3, <2>4
<1>4. QED
  BY <1>3 DEF ValueCountsWaiters

\* The waiter in hand is released: the semaphore_V is done with it.
LEMMA CountsReady ==
    ASSUME KernelInv, SemTypes, LocksInv, ValueCountsWaiters,
           NEW c \in CPUs, WakeReady(c), UNCHANGED semVars
    PROVE  ValueCountsWaiters'
<1> DEFINE u == target[c]
           s == wakes[c]
<1>1. /\ mode[c] = "ready" /\ mode' = [mode EXCEPT ![c] = "woken"]
      /\ sleepsOn' = [sleepsOn EXCEPT ![u] = NoResource]
      /\ UNCHANGED <<value, slock>>
  BY DEF WakeReady, WakeContinue, MoveTo, semVars, LocksInv, NeverWakesAll
<1>2. /\ mode \in [CPUs -> Modes] /\ u \in Tids
      /\ sleepsOn \in [Tids -> Resources \cup {NoResource}]
  BY DEF KernelInv, TypeInv, TypeOK
<1>3. s \in Semaphores /\ sleepsOn[u] = s /\ slock[s] = c
  BY <1>1 DEF LocksInv, TargetWaits, CallHasLock
<1>4. \A r \in Semaphores : slock[r] = c => r = s
  BY <1>1, SchedulerAssumption DEF LocksInv, LockHolderInKernel
<1>5. \A r \in Semaphores : r # NoResource
  BY SchedulerAssumption DEF Semaphores
<1> HIDE DEF s, u
<1>6. ASSUME NEW r \in Semaphores
      PROVE  Cardinality(Waiters(r)') = (IF value'[r] < 0 THEN -value'[r] ELSE 0)
                                        + (IF Releasing(r)' THEN 1 ELSE 0)
  <2>1. Cardinality(Waiters(r)) = (IF value[r] < 0 THEN -value[r] ELSE 0)
                                  + (IF Releasing(r) THEN 1 ELSE 0)
    BY DEF ValueCountsWaiters
  <2>2. CASE r = s
    <3>1. Waiters(r)' = Waiters(r) \ {u} /\ u \in Waiters(r)
      BY <1>1, <1>2, <1>3, <1>5, <2>2 DEF Waiters
    <3>2. Cardinality(Waiters(r)') = Cardinality(Waiters(r)) - 1
      BY <3>1, WaitersFinite, FS_RemoveElement
    <3>3. Releasing(r)
      BY <1>1, <1>3, <2>2 DEF Releasing
    <3>4. ~Releasing(r)'
      BY <1>1, <1>2, <1>3, <2>2 DEF Releasing
    <3>5. value'[r] = value[r] /\ value[r] \in Int
      BY <1>1, <1>3 DEF SemTypes
    <3>6. QED
      BY <2>1, <2>2, <3>2, <3>3, <3>4, <3>5, WaitersFinite
  <2>3. CASE r # s
    <3>1. Waiters(r)' = Waiters(r)
      BY <1>1, <1>2, <1>3, <1>5, <2>3 DEF Waiters
    <3>2. Releasing(r)' <=> Releasing(r)
      BY <1>1, <1>2, <1>4, <2>3 DEF Releasing
    <3>3. QED
      BY <1>1, <2>1, <3>1, <3>2
  <2>4. QED
    BY <2>2, <2>3
<1>7. QED
  BY <1>6 DEF ValueCountsWaiters

\* The inductive invariant: the locks, and the count that they protect.
CallsInv == SemTypes /\ LocksInv /\ ValueCountsWaiters

LEMMA CallsInit == KSInit => CallsInv
<1> SUFFICES ASSUME KSInit PROVE CallsInv
  OBVIOUS
<1>1. \A s \in Semaphores : Waiters(s) = {} /\ ~Releasing(s) /\ value[s] \in Nat
  <2>1. InitialValues \subseteq Nat
    BY KernelSemaphoreAssumption
  <2>2. QED
    BY <2>1, SchedulerAssumption DEF KSInit, Init, Waiters, Releasing, Semaphores
<1>2. ValueCountsWaiters
  BY <1>1, FS_EmptySet DEF ValueCountsWaiters
<1>3. QED
  BY <1>2, SemTypesInit, LocksInit DEF CallsInv

LEMMA CallsStep == KernelInv /\ CallsInv /\ [KSNext]_allVars => CallsInv'
<1> SUFFICES ASSUME KernelInv, CallsInv, [KSNext]_allVars PROVE CallsInv'
  OBVIOUS
<1> USE DEF CallsInv
<1>1. SemTypes'
  BY SemTypesStep
<1>2. mode \in [CPUs -> Modes] /\ TypeInv
  BY DEF KernelInv, TypeInv, TypeOK
\* A step outside the calls that does not count.
<1>3. ASSUME NEW c \in CPUs, OutsideStep(c), UNCHANGED semVars PROVE CallsInv'
  <2>1. LocksInv'
    BY <1>2, <1>3, LocksOutside
  <2>2. \A s \in Semaphores : Releasing(s)' <=> Releasing(s)
    BY <1>3, ReleasingSame DEF OutsideStep, CallModes
  <2>3. ValueCountsWaiters'
    BY <1>3, <2>2, CountsUnchanged DEF OutsideStep, semVars
  <2>4. QED
    BY <1>1, <2>1, <2>3
<1>4. ASSUME NEW c \in CPUs, SwitchStep(c) \/ TimerStep(c) \/ SoftwareStep(c)
      PROVE  CallsInv'
  BY <1>3, <1>4, SwitchingOutside
<1>5. ASSUME NEW c \in CPUs, ThreadLifeStep(c) PROVE CallsInv'
  BY <1>3, <1>5, ThreadLifeOutside
<1>6. ASSUME NEW c \in CPUs, SleepqLink(c), UNCHANGED semVars PROVE CallsInv'
  <2>1. /\ mode[c] = "mark" /\ mode' = [mode EXCEPT ![c] = "linked"]
        /\ UNCHANGED <<sleepsOn, slock, value>>
    BY <1>6 DEF SleepqLink, MoveTo, semVars
  <2>2. \A s \in Semaphores : Releasing(s)' <=> Releasing(s)
    BY <1>2, <2>1, ReleasingSame
  <2>3. QED
    BY <1>1, <1>6, <2>1, <2>2, LocksLink, CountsUnchanged
<1>7. ASSUME NEW c \in CPUs, WakeFind(c), UNCHANGED semVars PROVE CallsInv'
  <2>1. /\ mode[c] = "wake" /\ mode' = [mode EXCEPT ![c] = "ready"]
        /\ UNCHANGED <<sleepsOn, slock, value>>
    BY <1>7 DEF WakeFind, MoveTo, semVars
  <2>2. \A s \in Semaphores : Releasing(s)' <=> Releasing(s)
    BY <1>2, <2>1, ReleasingSame
  <2>3. QED
    BY <1>1, <1>7, <2>1, <2>2, LocksFind, CountsUnchanged
\* sleepq_wake never comes back without a thread.
<1>8. ASSUME NEW c \in CPUs, WakeNone(c) PROVE FALSE
  BY <1>8, WaiterThere DEF WakeNone, NoWakeMisses
<1>9. ASSUME NEW c \in CPUs, WakeReady(c), UNCHANGED semVars PROVE CallsInv'
  BY <1>1, <1>9, LocksReady, CountsReady
<1>10. ASSUME NEW c \in CPUs, SemaphoreSwitch(c) PROVE CallsInv'
  <2>1. /\ mode[c] = "linked" /\ mode' = [mode EXCEPT ![c] = "thread"]
        /\ UNCHANGED <<sleepsOn, value>>
        /\ slock' = [slock EXCEPT ![sleepsOn[currentThread[c]]] = NoCpu]
    BY <1>10 DEF SemaphoreSwitch, ThreadSwitch, MoveTo
  <2>2. \A s \in Semaphores : slock[s] = c => s = sleepsOn[currentThread[c]]
    BY <2>1, SchedulerAssumption DEF LocksInv, LockHolderInKernel
  <2>3. slock[sleepsOn[currentThread[c]]] = c
    BY <2>1 DEF LocksInv, CallHasLock
  <2>4. \A s \in Semaphores : Releasing(s)' <=> Releasing(s)
    BY <1>2, <2>1, <2>2, <2>3, SchedulerAssumption DEF Releasing, SemTypes
  <2>5. QED
    BY <1>1, <1>10, <2>1, <2>4, LocksSwitch, CountsUnchanged
<1>11. ASSUME NEW c \in CPUs, SemaphoreWoken(c) PROVE CallsInv'
  <2>1. /\ mode[c] = "woken"
        /\ mode' = [mode EXCEPT ![c] = "thread"] \/ mode' = [mode EXCEPT ![c] = "schedule"]
        /\ UNCHANGED <<sleepsOn, value>>
        /\ slock' = [slock EXCEPT ![wakes[c]] = NoCpu]
    BY <1>11 DEF SemaphoreWoken, WakeReturn, MoveTo
  <2>2. slock[wakes[c]] = c
    BY <2>1 DEF LocksInv, CallHasLock
  <2>3. \A s \in Semaphores : Releasing(s)' <=> Releasing(s)
    BY <1>2, <2>1, <2>2, SchedulerAssumption DEF Releasing, SemTypes
  <2>4. QED
    BY <1>1, <1>11, <2>1, <2>3, LocksWoken, CountsUnchanged
<1>12. ASSUME NEW c \in CPUs, NEW s \in Semaphores, NEW t \in Tids, SemaphoreBlock(c, t, s)
       PROVE  CallsInv'
  BY <1>1, <1>12, LocksBlock, CountsBlock
<1>13. ASSUME NEW c \in CPUs, NEW s \in Semaphores, NEW handler, SemaphoreWake(c, s, handler)
       PROVE  CallsInv'
  BY <1>1, <1>13, LocksWake, CountsWake
\* A value that stays non-negative counts nobody.
<1>14. ASSUME NEW c \in CPUs, NEW s \in Semaphores,
              \/ \E t \in Tids : SemaphorePass(c, t, s)
              \/ \E handler \in BOOLEAN : SemaphoreRaise(c, s, handler)
       PROVE  CallsInv'
  <2>1. OutsideStep(c)
    BY <1>14, CountingOutside
  <2>2. LocksInv'
    BY <1>2, <2>1, LocksOutside
  <2>3. /\ UNCHANGED slock
        /\ \/ value[s] - 1 >= 0 /\ value' = [value EXCEPT ![s] = @ - 1]
           \/ ~(value[s] + 1 <= 0) /\ value' = [value EXCEPT ![s] = @ + 1]
    BY <1>14 DEF SemaphorePass, SemaphoreRaise, FindsWaiter
  <2>4. \A r \in Semaphores : Releasing(r)' <=> Releasing(r)
    BY <2>1, ReleasingSame DEF OutsideStep, CallModes
  <2>5. \A r \in Semaphores : Waiters(r)' = Waiters(r)
    BY <2>1 DEF OutsideStep, Waiters
  <2>6. \A r \in Semaphores : value[r] \in Int /\ value'[r] \in Int
    BY <1>1 DEF SemTypes
  <2>7. ASSUME NEW r \in Semaphores
        PROVE  value'[r] = value[r] \/ (value[r] >= 0 /\ value'[r] >= 0)
    <3>1. value \in [Semaphores -> Int]
      BY DEF SemTypes
    <3>2. CASE r = s
      BY <2>3, <3>1, <3>2
    <3>3. CASE r # s
      BY <2>3, <3>1, <3>3
    <3>4. QED
      BY <3>2, <3>3
  <2>8. ValueCountsWaiters'
    BY <2>4, <2>5, <2>6, <2>7 DEF ValueCountsWaiters
  <2>9. QED
    BY <1>1, <2>2, <2>8
<1>15. CASE UNCHANGED allVars
  BY <1>1, <1>15 DEF allVars, vars, semVars, LocksInv, NeverWakesAll, CallHasLock,
                     TargetWaits, LockHolderInKernel, ValueCountsWaiters, Waiters, Releasing
<1>16. ASSUME NEW c \in CPUs, KernelStep(c) PROVE CallsInv'
  BY <1>16, <1>6, <1>7, <1>8, <1>9, <1>10, <1>11 DEF KernelStep, SleepqInnerStep
<1>17. ASSUME NEW c \in CPUs, NEW s \in Semaphores, P(c, s) \/ V(c, s) PROVE CallsInv'
  BY <1>17, <1>12, <1>13, <1>14 DEF P, V
<1>18. QED
  BY <1>4, <1>5, <1>15, <1>16, <1>17 DEF KSNext

LEMMA CallsInvariance == KSSpec => [](KernelInv /\ CallsInv)
<1>1. KSSpec => []CallsInv
  BY CallsInit, CallsStep, KernelInvariance, PTL DEF KSSpec
<1>2. QED
  BY <1>1, KernelInvariance, PTL

\* A negative value counts the waiters exactly, whatever the order of the CPUs:
\* no wake-up and no token is lost (semaphore.c:142-185).
THEOREM ValueCountsWaitersAlways == KSSpec => []ValueCountsWaiters
<1>1. CallsInv => ValueCountsWaiters
  BY DEF CallsInv
<1>2. QED
  BY <1>1, CallsInvariance, PTL

\* A semaphore's spinlock is held only by a CPU inside semaphore_P or semaphore_V
\* with interrupts disabled, so a handler's semaphore_V cannot find its own CPU
\* holding it (semaphore.c:142-185).
THEOREM LockHolderInKernelAlways == KSSpec => []LockHolderInKernel
<1>1. CallsInv => LockHolderInKernel
  BY DEF CallsInv, LocksInv
<1>2. QED
  BY <1>1, CallsInvariance, PTL

\* semaphore_V that counted a waiter finds it in the sleep queue, also when
\* another CPU's semaphore_P has only just put it there (semaphore.c:171-185).
THEOREM NoWakeMissesAlways == KSSpec => []NoWakeMisses
<1>1. KernelInv /\ CallsInv => NoWakeMisses
  BY WaiterThere DEF CallsInv
<1>2. QED
  BY <1>1, CallsInvariance, PTL

-----------------------------------------------------------------------------
\* The threads of a chain that wait for a resource.  Selected is recursive; its
\* properties are proved by SetInduction.

\* One step of Selected, and the function that does them all.
SelectedNext(chain, wants, r, q, i) ==
    IF wants[chain[i]] = r THEN Append(q, chain[i]) ELSE q

Selects(f, chain, wants, r) ==
    /\ f \in [0 .. Len(chain) -> Seq(Tids)]
    /\ f[0] = <<>>
    /\ \A i \in 1 .. Len(chain) : f[i] = SelectedNext(chain, wants, r, f[i - 1], i)

LEMMA SelectedUnfolds ==
    ASSUME NEW chain \in Seq(Tids), NEW wants, NEW r
    PROVE  \E f : Selects(f, chain, wants, r) /\ Selected(chain, wants, r) = f[Len(chain)]
<1> DEFINE n == Len(chain)
           next(q, i) == SelectedNext(chain, wants, r, q, i)
           partial(k, f) == /\ f \in [0 .. k -> Seq(Tids)]
                            /\ f[0] = <<>>
                            /\ \A i \in 1 .. k : f[i] = next(f[i - 1], i)
           S == {k \in 0 .. n : \E f : partial(k, f)}
           body(f) == [i \in 0 .. n |-> IF i = 0 THEN <<>>
                                       ELSE IF wants[chain[i]] = r THEN Append(f[i - 1], chain[i])
                                       ELSE f[i - 1]]
           upTo == CHOOSE f : f = body(f)
<1>1. n \in Nat /\ \A i \in 1 .. n : chain[i] \in Tids
  OBVIOUS
<1>2. \A q \in Seq(Tids), i \in 1 .. n : next(q, i) \in Seq(Tids)
  BY <1>1 DEF SelectedNext
<1>3. 0 \in S
  <2>1. partial(0, [i \in 0 .. 0 |-> <<>>])
    OBVIOUS
  <2> HIDE DEF partial, n
  <2>2. QED
    BY <1>1, <2>1
<1>4. ASSUME NEW k \in 0 .. n - 1, k \in S PROVE k + 1 \in S
  <2>1. PICK f : partial(k, f)
    BY <1>4
  <2> DEFINE g == [i \in 0 .. k + 1 |-> IF i = k + 1 THEN next(f[k], k + 1) ELSE f[i]]
  <2>2. next(f[k], k + 1) \in Seq(Tids)
    <3>1. f[k] \in Seq(Tids) /\ k + 1 \in 1 .. n
      BY <1>1, <2>1
    <3> HIDE DEF next
    <3>2. QED
      BY <1>2, <3>1
  <2> HIDE DEF next
  <2>3. g \in [0 .. k + 1 -> Seq(Tids)]
    BY <1>1, <2>1, <2>2
  <2>4. g[0] = <<>>
    BY <1>1, <2>1
  <2>5. ASSUME NEW i \in 1 .. k + 1 PROVE g[i] = next(g[i - 1], i)
    <3>1. g[i - 1] = f[i - 1]
      BY <1>1
    <3>2. CASE i = k + 1
      BY <1>1, <3>1, <3>2
    <3>3. CASE i # k + 1
      BY <1>1, <2>1, <3>1, <3>3
    <3>4. QED
      BY <3>2, <3>3
  <2>6. partial(k + 1, g)
    <3> HIDE DEF g
    <3>1. QED
      BY <2>3, <2>4, <2>5
  <2> HIDE DEF partial, n
  <2>7. QED
    BY <1>1, <2>6
<1>5. n \in S
  <2> HIDE DEF S, n
  <2>1. \A i \in 0 .. n : i \in S
    BY <1>1, <1>3, <1>4, SetInduction
  <2>2. QED
    BY <1>1, <2>1
<1>6. PICK f : partial(n, f)
  BY <1>5
<1>7. f = body(f)
  <2>1. f = [i \in 0 .. n |-> f[i]]
    BY <1>6
  <2>2. ASSUME NEW i \in 0 .. n PROVE f[i] = body(f)[i]
    <3>1. CASE i = 0
      BY <1>1, <1>6, <3>1
    <3>2. CASE i # 0
      <4>1. i \in 1 .. n
        BY <1>1, <3>2
      <4>2. f[i] = next(f[i - 1], i)
        BY <1>6, <4>1
      <4>3. body(f)[i] = next(f[i - 1], i)
        BY <3>2 DEF SelectedNext
      <4>4. QED
        BY <4>2, <4>3
    <3>3. QED
      BY <3>1, <3>2
  <2>3. QED
    BY <2>1, <2>2
<1>8. upTo = body(upTo)
  <2> HIDE DEF body
  <2>1. QED
    BY <1>7
<1>9. Selected(chain, wants, r) = upTo[n]
  BY DEF Selected
<1> HIDE DEF upTo
<1>10. upTo[0] = <<>> /\ \A i \in 1 .. n : upTo[i] = next(upTo[i - 1], i)
  <2>1. \A g : \A i \in 0 .. n : body(g)[i] = IF i = 0 THEN <<>> ELSE next(g[i - 1], i)
    BY DEF SelectedNext
  <2> HIDE DEF body, next
  <2>2. \A i \in 0 .. n : upTo[i] = IF i = 0 THEN <<>> ELSE next(upTo[i - 1], i)
    BY <1>8, <2>1
  <2>3. QED
    BY <1>1, <2>2
<1>11. \A i \in 0 .. n : upTo[i] = f[i]
  <2> DEFINE U == {i \in 0 .. n : upTo[i] = f[i]}
  <2>1. 0 \in U /\ \A i \in 0 .. n - 1 : i \in U => i + 1 \in U
    BY <1>1, <1>6, <1>10
  <2> HIDE DEF U
  <2>2. \A i \in 0 .. n : i \in U
    BY <1>1, <2>1, SetInduction
  <2>3. QED
    BY <2>2 DEF U
<1>12. QED
  BY <1>1, <1>6, <1>9, <1>11 DEF Selects

\* Only whether the elements of the chain wait for r matters.
LEMMA SelectedSame ==
    ASSUME NEW chain \in Seq(Tids), NEW wants, NEW other, NEW r,
           \A x \in Elements(chain) : wants[x] = r <=> other[x] = r
    PROVE  Selected(chain, wants, r) = Selected(chain, other, r)
<1> DEFINE n == Len(chain)
<1>1. PICK f : Selects(f, chain, wants, r) /\ Selected(chain, wants, r) = f[n]
  BY SelectedUnfolds
<1>2. PICK g : Selects(g, chain, other, r) /\ Selected(chain, other, r) = g[n]
  BY SelectedUnfolds
<1>3. n \in Nat /\ \A i \in 1 .. n : wants[chain[i]] = r <=> other[chain[i]] = r
  BY DEF Elements
<1> DEFINE U == {i \in 0 .. n : f[i] = g[i]}
<1>4. 0 \in U
  BY <1>1, <1>2, <1>3 DEF Selects
<1>5. ASSUME NEW i \in 0 .. n - 1, i \in U PROVE i + 1 \in U
  <2>1. i + 1 \in 1 .. n /\ (i + 1) - 1 = i
    BY <1>3
  <2>2. /\ f[i + 1] = SelectedNext(chain, wants, r, f[i], i + 1)
        /\ g[i + 1] = SelectedNext(chain, other, r, g[i], i + 1)
    BY <1>1, <1>2, <2>1 DEF Selects
  <2>3. QED
    BY <1>3, <1>5, <2>1, <2>2 DEF SelectedNext
<1> HIDE DEF U
<1>6. \A i \in 0 .. n : i \in U
  BY <1>3, <1>4, <1>5, SetInduction
<1>7. QED
  BY <1>1, <1>2, <1>3, <1>6 DEF U

\* A thread that is appended comes last.
LEMMA SelectedAppend ==
    ASSUME NEW chain \in Seq(Tids), NEW x \in Tids, NEW wants, NEW r
    PROVE  Selected(Append(chain, x), wants, r) =
               IF wants[x] = r THEN Append(Selected(chain, wants, r), x)
               ELSE Selected(chain, wants, r)
<1> DEFINE n == Len(chain)
           longer == Append(chain, x)
<1>1. PICK f : Selects(f, chain, wants, r) /\ Selected(chain, wants, r) = f[n]
  BY SelectedUnfolds
<1>2. longer \in Seq(Tids) /\ Len(longer) = n + 1 /\ n \in Nat
  OBVIOUS
<1>3. PICK g : Selects(g, longer, wants, r) /\ Selected(longer, wants, r) = g[n + 1]
  <2> HIDE DEF longer
  <2>1. QED
    BY <1>2, SelectedUnfolds
<1>4. longer[n + 1] = x /\ \A i \in 1 .. n : longer[i] = chain[i]
  OBVIOUS
<1> HIDE DEF longer
<1> DEFINE U == {i \in 0 .. n : f[i] = g[i]}
<1>5. 0 \in U
  BY <1>1, <1>2, <1>3 DEF Selects
<1>6. ASSUME NEW i \in 0 .. n - 1, i \in U PROVE i + 1 \in U
  <2>1. i + 1 \in 1 .. n /\ i + 1 \in 1 .. n + 1 /\ (i + 1) - 1 = i
    BY <1>2
  <2>2. /\ f[i + 1] = SelectedNext(chain, wants, r, f[i], i + 1)
        /\ g[i + 1] = SelectedNext(longer, wants, r, g[i], i + 1)
    BY <1>1, <1>2, <1>3, <2>1 DEF Selects
  <2>3. QED
    BY <1>4, <1>6, <2>1, <2>2 DEF SelectedNext
<1>7. f[n] = g[n]
  <2> HIDE DEF U
  <2>1. \A i \in 0 .. n : i \in U
    BY <1>2, <1>5, <1>6, SetInduction
  <2>2. QED
    BY <1>2, <2>1 DEF U
<1>8. g[n + 1] = SelectedNext(longer, wants, r, g[n], n + 1)
  <2>1. n + 1 \in 1 .. n + 1 /\ (n + 1) - 1 = n
    BY <1>2
  <2>2. QED
    BY <1>2, <1>3, <2>1 DEF Selects
<1>9. QED
  BY <1>1, <1>3, <1>4, <1>7, <1>8 DEF SelectedNext, longer

\* What is selected waits for r, and nothing is selected only if nobody does.
LEMMA SelectedWait ==
    ASSUME NEW chain \in Seq(Tids), NEW wants, NEW r
    PROVE  LET q == Selected(chain, wants, r)
           IN  /\ q \in Seq(Tids)
               /\ \A k \in DOMAIN q : wants[q[k]] = r
               /\ q = <<>> <=> \A x \in Elements(chain) : wants[x] # r
<1> DEFINE n == Len(chain)
<1>1. PICK f : Selects(f, chain, wants, r) /\ Selected(chain, wants, r) = f[n]
  BY SelectedUnfolds
<1>2. n \in Nat /\ \A i \in 1 .. n : chain[i] \in Tids
  OBVIOUS
<1> DEFINE U == {i \in 0 .. n :
                    /\ \A k \in DOMAIN f[i] : wants[f[i][k]] = r
                    /\ f[i] = <<>> <=> \A j \in 1 .. i : wants[chain[j]] # r}
<1>3. 0 \in U
  BY <1>1, <1>2 DEF Selects
<1>4. ASSUME NEW i \in 0 .. n - 1, i \in U PROVE i + 1 \in U
  <2>1. i + 1 \in 1 .. n /\ (i + 1) - 1 = i /\ i \in 0 .. n /\ i \in Nat
    BY <1>2
  <2>2. f[i + 1] = SelectedNext(chain, wants, r, f[i], i + 1) /\ f[i] \in Seq(Tids)
    BY <1>1, <2>1 DEF Selects
  <2>3. CASE wants[chain[i + 1]] = r
    <3>1. f[i + 1] = Append(f[i], chain[i + 1])
      BY <2>2, <2>3 DEF SelectedNext
    <3>2. f[i + 1] # <<>> /\ \A k \in DOMAIN f[i + 1] : wants[f[i + 1][k]] = r
      <4>1. chain[i + 1] \in Tids /\ f[i] \in Seq(Tids)
        BY <1>2, <2>1, <2>2
      <4>2. \A k \in DOMAIN f[i] : wants[f[i][k]] = r
        BY <1>4
      <4> HIDE DEF U
      <4>3. ASSUME NEW k \in DOMAIN f[i + 1] PROVE wants[f[i + 1][k]] = r
        <5>1. CASE k \in DOMAIN f[i]
          BY <3>1, <4>1, <4>2, <5>1
        <5>2. CASE k = Len(f[i]) + 1
          BY <2>3, <3>1, <4>1, <5>2
        <5>3. QED
          BY <3>1, <4>1, <5>1, <5>2
      <4>4. QED
        BY <3>1, <4>1, <4>3
    <3>3. QED
      BY <2>1, <2>3, <3>2
  <2>4. CASE wants[chain[i + 1]] # r
    <3>1. f[i + 1] = f[i]
      BY <2>2, <2>4 DEF SelectedNext
    <3>2. \A j \in 1 .. i + 1 : j \in 1 .. i \/ j = i + 1
      BY <2>1
    <3>3. QED
      BY <1>4, <2>1, <2>4, <3>1, <3>2
  <2>5. QED
    BY <2>3, <2>4
<1>5. n \in U
  <2> HIDE DEF U
  <2>1. \A i \in 0 .. n : i \in U
    BY <1>2, <1>3, <1>4, SetInduction
  <2>2. QED
    BY <1>2, <2>1
<1>6. f[n] \in Seq(Tids)
  BY <1>1, <1>2 DEF Selects
<1>7. QED
  BY <1>1, <1>2, <1>5, <1>6 DEF Elements

LEMMA TailAppend ==
    ASSUME NEW S, NEW q \in Seq(S), q # <<>>, NEW x \in S
    PROVE  Append(q, x) # <<>> /\ Tail(Append(q, x)) = Append(Tail(q), x)
<1>1. Len(q) \in Nat \ {0}
  OBVIOUS
<1>2. /\ Tail(Append(q, x)) \in Seq(S) /\ Append(Tail(q), x) \in Seq(S)
      /\ Len(Tail(Append(q, x))) = Len(q) /\ Len(Append(Tail(q), x)) = Len(q)
  BY <1>1
<1>3. \A i \in 1 .. Len(q) : Tail(Append(q, x))[i] = Append(Tail(q), x)[i]
  BY <1>1
<1>4. QED
  BY <1>2, <1>3

\* A thread that does not wait for r can leave the chain unnoticed.
LEMMA SelectedRemoveOther ==
    ASSUME NEW chain \in Seq(Tids), NEW k \in DOMAIN chain, NEW wants, NEW r,
           wants[chain[k]] # r
    PROVE  Selected(RemoveIndex(chain, k), wants, r) = Selected(chain, wants, r)
<1> DEFINE n == Len(chain)
           shorter == RemoveIndex(chain, k)
<1>1. n \in Nat /\ k \in 1 .. n
  OBVIOUS
<1>2. shorter \in Seq(Tids) /\ Len(shorter) = n - 1
  <2>1. shorter \in Seq(Tids)
    BY RemoveIndexSeq
  <2>2. DOMAIN shorter = 1 .. n - 1
    BY DEF RemoveIndex
  <2>3. QED
    BY <1>1, <2>1, <2>2
<1>3. \A i \in 1 .. n - 1 : shorter[i] = IF i < k THEN chain[i] ELSE chain[i + 1]
  BY DEF RemoveIndex
<1> HIDE DEF shorter
<1>4. PICK f : Selects(f, chain, wants, r) /\ Selected(chain, wants, r) = f[n]
  BY SelectedUnfolds
<1>5. PICK g : Selects(g, shorter, wants, r) /\ Selected(shorter, wants, r) = g[n - 1]
  BY <1>2, SelectedUnfolds
<1>6. f[k] = f[k - 1]
  BY <1>1, <1>4 DEF Selects, SelectedNext
<1> DEFINE U == {i \in 0 .. n - 1 : g[i] = IF i < k THEN f[i] ELSE f[i + 1]}
<1>7. 0 \in U
  BY <1>1, <1>2, <1>4, <1>5 DEF Selects
<1>8. ASSUME NEW i \in 0 .. (n - 1) - 1, i \in U PROVE i + 1 \in U
  <2>1. /\ i + 1 \in 1 .. n - 1 /\ (i + 1) - 1 = i /\ i + 2 \in 1 .. n /\ (i + 2) - 1 = i + 1
        /\ i + 1 \in 1 .. n /\ i \in Nat
    BY <1>1
  <2>2. /\ g[i + 1] = SelectedNext(shorter, wants, r, g[i], i + 1)
        /\ f[i + 1] = SelectedNext(chain, wants, r, f[i], i + 1)
        /\ f[i + 2] = SelectedNext(chain, wants, r, f[i + 1], i + 2)
    BY <1>2, <1>4, <1>5, <2>1 DEF Selects
  <2>3. CASE i + 1 < k
    BY <1>1, <1>3, <1>8, <2>1, <2>2, <2>3 DEF SelectedNext
  <2>4. CASE i + 1 = k
    <3>1. g[i] = f[i] /\ f[i + 1] = f[i] /\ shorter[i + 1] = chain[i + 2]
      BY <1>1, <1>3, <1>6, <1>8, <2>1, <2>4
    <3>2. QED
      BY <1>1, <2>1, <2>2, <2>4, <3>1 DEF SelectedNext
  <2>5. CASE i + 1 > k
    <3>1. g[i] = f[i + 1] /\ shorter[i + 1] = chain[i + 2]
      BY <1>1, <1>3, <1>8, <2>1, <2>5
    <3>2. QED
      BY <1>1, <2>1, <2>2, <2>5, <3>1 DEF SelectedNext
  <2>6. QED
    BY <1>1, <2>1, <2>3, <2>4, <2>5
<1>9. n - 1 \in U
  <2> HIDE DEF U
  <2> DEFINE m == n - 1
  <2>1. m \in Nat /\ \A i \in 0 .. m - 1 : i \in U => i + 1 \in U
    BY <1>1, <1>8
  <2> HIDE DEF m
  <2>2. \A i \in 0 .. m : i \in U
    BY <1>7, <2>1, SetInduction
  <2>3. QED
    BY <1>1, <2>2 DEF m
<1>10. CASE k = n
  BY <1>1, <1>4, <1>5, <1>6, <1>9, <1>10 DEF shorter
<1>11. CASE k < n
  BY <1>1, <1>4, <1>5, <1>9, <1>11 DEF shorter
<1>12. QED
  BY <1>1, <1>10, <1>11

\* The first one that waits for r is the first one selected.
LEMMA SelectedRemoveFirst ==
    ASSUME NEW chain \in Seq(Tids), NEW k \in DOMAIN chain, NEW wants, NEW r,
           wants[chain[k]] = r, \A j \in DOMAIN chain : wants[chain[j]] = r => k <= j
    PROVE  /\ Selected(chain, wants, r) # <<>>
           /\ Selected(RemoveIndex(chain, k), wants, r) = Tail(Selected(chain, wants, r))
<1> DEFINE n == Len(chain)
           shorter == RemoveIndex(chain, k)
<1>1. n \in Nat /\ k \in 1 .. n /\ \A i \in 1 .. n : chain[i] \in Tids
  OBVIOUS
<1>2. shorter \in Seq(Tids) /\ Len(shorter) = n - 1
  <2>1. shorter \in Seq(Tids)
    BY RemoveIndexSeq
  <2>2. DOMAIN shorter = 1 .. n - 1
    BY DEF RemoveIndex
  <2>3. QED
    BY <1>1, <2>1, <2>2
<1>3. \A i \in 1 .. n - 1 : shorter[i] = IF i < k THEN chain[i] ELSE chain[i + 1]
  BY DEF RemoveIndex
<1> HIDE DEF shorter
<1>4. PICK f : Selects(f, chain, wants, r) /\ Selected(chain, wants, r) = f[n]
  BY SelectedUnfolds
<1>5. PICK g : Selects(g, shorter, wants, r) /\ Selected(shorter, wants, r) = g[n - 1]
  BY <1>2, SelectedUnfolds
<1> DEFINE U == {i \in 0 .. n - 1 :
                    IF i < k - 1 THEN f[i] = <<>> /\ g[i] = <<>>
                    ELSE f[i + 1] # <<>> /\ g[i] = Tail(f[i + 1])}
<1>6. f[0] = <<>> /\ g[0] = <<>>
  BY <1>2, <1>4, <1>5 DEF Selects
<1>7. \A i \in 1 .. k - 1 : wants[chain[i]] # r
  BY <1>1
<1>8. ASSUME f[k - 1] = <<>>
      PROVE  f[k] # <<>> /\ Tail(f[k]) = <<>>
  <2>1. f[k] = Append(<<>>, chain[k])
    BY <1>1, <1>4, <1>8 DEF Selects, SelectedNext
  <2>2. QED
    BY <1>1, <2>1
<1>9. 0 \in U
  <2>1. CASE k = 1
    <3>1. f[0 + 1] # <<>> /\ g[0] = Tail(f[0 + 1]) /\ ~(0 < k - 1)
      BY <1>6, <1>8, <2>1
    <3>2. QED
      BY <1>1, <3>1
  <2>2. CASE k > 1
    BY <1>1, <1>6, <2>2
  <2>3. QED
    BY <1>1, <2>1, <2>2
<1>10. ASSUME NEW i \in 0 .. (n - 1) - 1, i \in U PROVE i + 1 \in U
  <2>1. /\ i + 1 \in 1 .. n - 1 /\ (i + 1) - 1 = i /\ i + 2 \in 1 .. n /\ (i + 2) - 1 = i + 1
        /\ i + 1 \in 1 .. n /\ i + 1 \in 0 .. n /\ i \in Nat /\ (i + 1) + 1 = i + 2
    BY <1>1
  <2>2. /\ g[i + 1] = SelectedNext(shorter, wants, r, g[i], i + 1)
        /\ f[i + 1] = SelectedNext(chain, wants, r, f[i], i + 1)
        /\ f[i + 2] = SelectedNext(chain, wants, r, f[i + 1], i + 2)
        /\ f[i + 1] \in Seq(Tids)
    BY <1>2, <1>4, <1>5, <2>1 DEF Selects
  <2>3. CASE i + 1 < k
    <3>1. /\ wants[chain[i + 1]] # r /\ shorter[i + 1] = chain[i + 1]
          /\ f[i] = <<>> /\ g[i] = <<>>
      BY <1>1, <1>3, <1>7, <1>10, <2>1, <2>3
    <3>2. f[i + 1] = <<>> /\ g[i + 1] = <<>>
      BY <2>2, <3>1 DEF SelectedNext
    <3>3. CASE i + 1 = k - 1
      <4>1. f[i + 2] # <<>> /\ Tail(f[i + 2]) = <<>>
        BY <1>1, <1>8, <2>1, <3>2, <3>3
      <4>2. f[(i + 1) + 1] # <<>> /\ g[i + 1] = Tail(f[(i + 1) + 1])
        BY <2>1, <3>2, <4>1
      <4>3. ~(i + 1 < k - 1) /\ i + 1 \in 0 .. n - 1
        BY <1>1, <2>1, <3>3
      <4>4. QED
        BY <4>2, <4>3
    <3>4. CASE i + 1 < k - 1
      BY <1>1, <2>1, <3>2, <3>4
    <3>5. QED
      BY <1>1, <2>1, <2>3, <3>3, <3>4
  <2>4. CASE i + 1 >= k
    <3>1. f[i + 1] # <<>> /\ g[i] = Tail(f[i + 1]) /\ shorter[i + 1] = chain[i + 2]
      BY <1>1, <1>3, <1>10, <2>1, <2>4
    <3>2. f[i + 2] # <<>> /\ g[i + 1] = Tail(f[i + 2])
      <4>1. CASE wants[chain[i + 2]] = r
        <5>1. /\ f[i + 2] = Append(f[i + 1], chain[i + 2])
              /\ g[i + 1] = Append(Tail(f[i + 1]), chain[i + 2])
          BY <2>2, <3>1, <4>1 DEF SelectedNext
        <5>2. chain[i + 2] \in Tids
          BY <1>1, <2>1
        <5>3. QED
          BY <2>2, <3>1, <5>1, <5>2, TailAppend
      <4>2. CASE wants[chain[i + 2]] # r
        BY <2>2, <3>1, <4>2 DEF SelectedNext
      <4>3. QED
        BY <4>1, <4>2
    <3>3. QED
      BY <1>1, <2>1, <2>4, <3>2
  <2>5. QED
    BY <1>1, <2>1, <2>3, <2>4
<1>11. n - 1 \in U
  <2> HIDE DEF U
  <2> DEFINE m == n - 1
  <2>1. m \in Nat /\ \A i \in 0 .. m - 1 : i \in U => i + 1 \in U
    BY <1>1, <1>10
  <2> HIDE DEF m
  <2>2. \A i \in 0 .. m : i \in U
    BY <1>9, <2>1, SetInduction
  <2>3. QED
    BY <1>1, <2>2 DEF m
<1>12. f[n] # <<>> /\ g[n - 1] = Tail(f[n])
  BY <1>1, <1>11
<1>13. QED
  BY <1>4, <1>5, <1>12 DEF shorter

-----------------------------------------------------------------------------
\* The kernel's semaphores implement the abstract one.

LEMMA ChainTypes ==
    ASSUME TypeInv, NEW r \in Semaphores
    PROVE  Hash[r] \in Buckets /\ hashtable[Hash[r]] \in Seq(Tids)
BY SchedulerAssumption DEF TypeInv, TypeOK, Semaphores

LEMMA ElementsTids ==
    ASSUME NEW chain \in Seq(Tids) PROVE Elements(chain) \subseteq Tids
BY DEF Elements

\* A step of c is no matter for the queue of a semaphore that c does not work on,
\* as long as the same threads of its chain wait for it.
LEMMA QueueUnchanged ==
    ASSUME SemTypes, NEW c \in CPUs, NEW r \in Semaphores,
           slock[r] # c, slock'[r] = slock[r],
           \A d \in CPUs \ {c} : mode'[d] = mode[d] /\ currentThread'[d] = currentThread[d],
           WaitsFor(r)' = WaitsFor(r)
    PROVE  QueueOf(r)' = QueueOf(r)
<1>1. slock[r] = NoCpu \/ slock[r] \in CPUs \ {c}
  BY DEF SemTypes
<1>2. CASE slock[r] = NoCpu
  BY <1>2 DEF QueueOf
<1>3. CASE slock[r] \in CPUs \ {c}
  BY <1>3 DEF QueueOf
<1>4. QED
  BY <1>1, <1>2, <1>3

\* A change of what a thread outside the chains waits for is no matter.
LEMMA WaitsUnchanged ==
    ASSUME KernelInv, NEW r \in Semaphores, UNCHANGED hashtable,
           \A b \in Buckets : \A x \in Elements(hashtable[b]) : sleepsOn'[x] = sleepsOn[x]
    PROVE  WaitsFor(r)' = WaitsFor(r)
<1>1. Hash[r] \in Buckets /\ hashtable[Hash[r]] \in Seq(Tids)
  BY ChainTypes DEF KernelInv
<1>2. Selected(hashtable[Hash[r]], sleepsOn, r) = Selected(hashtable[Hash[r]], sleepsOn', r)
  BY <1>1, SelectedSame
<1>3. QED
  BY <1>2 DEF WaitsFor

LEMMA SteppedOutside ==
    ASSUME KernelInv, CallsInv, NEW c \in CPUs, OutsideStep(c)
    PROVE  \A r \in Semaphores : QueueOf(r)' = QueueOf(r)
<1> SUFFICES ASSUME NEW r \in Semaphores PROVE QueueOf(r)' = QueueOf(r)
  OBVIOUS
<1>1. slock[r] # c
  BY SchedulerAssumption DEF OutsideStep, CallsInv, LocksInv, LockHolderInKernel, CallModes
<1>2. \A b \in Buckets : \A x \in Elements(hashtable[b]) : sleepsOn'[x] = sleepsOn[x]
  BY ElementsTids DEF OutsideStep, KernelInv, TypeInv, TypeOK
<1>3. WaitsFor(r)' = WaitsFor(r)
  BY <1>2, WaitsUnchanged DEF OutsideStep
<1>4. QED
  BY <1>1, <1>3, QueueUnchanged DEF OutsideStep, CallsInv

\* A thread that blocks joins its queue as soon as it is marked.
LEMMA SteppedBlock ==
    ASSUME KernelInv, CallsInv, NEW c \in CPUs, NEW t \in Tids, NEW s \in Semaphores,
           SemaphoreBlock(c, t, s)
    PROVE  /\ QueueOf(s)' = Append(QueueOf(s), t)
           /\ \A r \in Semaphores \ {s} : QueueOf(r)' = QueueOf(r)
<1> USE DEF CallsInv
<1>1. /\ mode[c] = "thread" /\ mode' = [mode EXCEPT ![c] = "mark"]
      /\ sleepsOn' = [sleepsOn EXCEPT ![t] = s] /\ sleepsOn[t] = NoResource
      /\ slock[s] = NoCpu /\ slock' = [slock EXCEPT ![s] = c]
      /\ UNCHANGED <<hashtable, currentThread>> /\ currentThread[c] = t
  BY LocksBlock DEF SemaphoreBlock, SleepqMark, Executes, MoveTo
<1>2. /\ mode \in [CPUs -> Modes] /\ sleepsOn \in [Tids -> Resources \cup {NoResource}]
      /\ hashtable \in [Buckets -> Seq(Tids)] /\ slock \in [Semaphores -> CPUs \cup {NoCpu}]
  BY DEF KernelInv, TypeInv, TypeOK, SemTypes
<1>3. \A b \in Buckets : t \notin Elements(hashtable[b])
  BY <1>1, SchedulerAssumption DEF KernelInv, ChainInv, ChainsExact
<1>4. \A b \in Buckets : \A x \in Elements(hashtable[b]) : sleepsOn'[x] = sleepsOn[x]
  BY <1>1, <1>2, <1>3, ElementsTids
<1>5. \A r \in Semaphores : WaitsFor(r)' = WaitsFor(r)
  BY <1>1, <1>4, WaitsUnchanged
<1>6. QueueOf(s) = WaitsFor(s)
  BY <1>1 DEF QueueOf
<1>7. QueueOf(s)' = Append(WaitsFor(s)', t)
  BY <1>1, <1>2, SchedulerAssumption DEF QueueOf
<1>8. ASSUME NEW r \in Semaphores \ {s} PROVE QueueOf(r)' = QueueOf(r)
  <2>1. slock[r] # c
    BY <1>1, SchedulerAssumption DEF LocksInv, LockHolderInKernel
  <2>2. QED
    BY <1>1, <1>2, <1>5, <2>1, QueueUnchanged
<1>9. QED
  BY <1>5, <1>6, <1>7, <1>8

\* Linking the thread that is marked already, and releasing the lock, change no queue.
LEMMA SteppedLink ==
    ASSUME KernelInv, CallsInv, NEW c \in CPUs, SleepqLink(c), UNCHANGED semVars
    PROVE  \A r \in Semaphores : QueueOf(r)' = QueueOf(r)
<1> USE DEF CallsInv
<1> DEFINE t == currentThread[c]
           s == sleepsOn[t]
<1>1. /\ mode[c] = "mark" /\ mode' = [mode EXCEPT ![c] = "linked"]
      /\ hashtable' = [hashtable EXCEPT ![Hash[s]] = Append(@, t)]
      /\ UNCHANGED <<sleepsOn, currentThread, slock>>
  BY DEF SleepqLink, MoveTo, semVars
<1>2. /\ mode \in [CPUs -> Modes] /\ t \in Tids
      /\ hashtable \in [Buckets -> Seq(Tids)] /\ slock \in [Semaphores -> CPUs \cup {NoCpu}]
  BY DEF KernelInv, TypeInv, TypeOK, SemTypes
<1>3. s \in Semaphores /\ slock[s] = c
  BY <1>1 DEF LocksInv, CallHasLock
<1>4. \A r \in Semaphores : slock[r] = c => r = s
  BY <1>1, SchedulerAssumption DEF LocksInv, LockHolderInKernel
<1>5. WaitsFor(s)' = Append(WaitsFor(s), t)
  <2>1. hashtable[Hash[s]] \in Seq(Tids) /\ hashtable'[Hash[s]] = Append(hashtable[Hash[s]], t)
    BY <1>1, <1>2, <1>3, ChainTypes DEF KernelInv
  <2>2. Selected(Append(hashtable[Hash[s]], t), sleepsOn, s)
            = Append(Selected(hashtable[Hash[s]], sleepsOn, s), t)
    BY <1>2, <2>1, SelectedAppend
  <2>3. QED
    BY <1>1, <2>1, <2>2 DEF WaitsFor
<1>6. ASSUME NEW r \in Semaphores, r # s PROVE WaitsFor(r)' = WaitsFor(r)
  <2>1. hashtable[Hash[r]] \in Seq(Tids) /\ Hash[r] \in Buckets
    BY ChainTypes DEF KernelInv
  <2>2. CASE Hash[r] = Hash[s]
    <3>1. hashtable'[Hash[r]] = Append(hashtable[Hash[r]], t)
      BY <1>1, <1>2, <2>1, <2>2
    <3>2. Selected(Append(hashtable[Hash[r]], t), sleepsOn, r)
              = Selected(hashtable[Hash[r]], sleepsOn, r)
      BY <1>2, <1>6, <2>1, SelectedAppend
    <3>3. QED
      BY <1>1, <3>1, <3>2 DEF WaitsFor
  <2>3. CASE Hash[r] # Hash[s]
    BY <1>1, <1>2, <2>1, <2>3 DEF WaitsFor
  <2>4. QED
    BY <2>2, <2>3
<1>7. ASSUME NEW r \in Semaphores, r # s PROVE QueueOf(r)' = QueueOf(r)
  BY <1>1, <1>2, <1>4, <1>6, <1>7, QueueUnchanged
<1>8. ASSUME NEW r \in Semaphores, r = s PROVE QueueOf(r)' = QueueOf(r)
  <2>1. slock[r] = c /\ slock'[r] = c /\ c # NoCpu
    BY <1>1, <1>3, <1>8, SchedulerAssumption
  <2>2. WaitsFor(r)' = Append(WaitsFor(r), t)
    BY <1>1, <1>5, <1>8
  <2>3. mode'[c] = "linked"
    BY <1>1, <1>2
  <2>4. QueueOf(r) = Append(WaitsFor(r), t)
    BY <1>1, <2>1 DEF QueueOf
  <2>5. QueueOf(r)' = WaitsFor(r)'
    BY <2>1, <2>3 DEF QueueOf
  <2>6. QED
    BY <2>2, <2>4, <2>5
<1>9. QED
  BY <1>7, <1>8

LEMMA SteppedSwitch ==
    ASSUME KernelInv, CallsInv, NEW c \in CPUs, SemaphoreSwitch(c)
    PROVE  \A r \in Semaphores : QueueOf(r)' = QueueOf(r)
<1> USE DEF CallsInv
<1> DEFINE s == sleepsOn[currentThread[c]]
<1>1. /\ mode[c] = "linked" /\ mode' = [mode EXCEPT ![c] = "thread"]
      /\ UNCHANGED <<hashtable, sleepsOn, currentThread>>
      /\ slock' = [slock EXCEPT ![s] = NoCpu]
  BY DEF SemaphoreSwitch, ThreadSwitch, MoveTo
<1>2. mode \in [CPUs -> Modes] /\ slock \in [Semaphores -> CPUs \cup {NoCpu}]
  BY DEF KernelInv, TypeInv, TypeOK, SemTypes
<1>3. s \in Semaphores /\ slock[s] = c
  BY <1>1 DEF LocksInv, CallHasLock
<1>4. \A r \in Semaphores : slock[r] = c => r = s
  BY <1>1, SchedulerAssumption DEF LocksInv, LockHolderInKernel
<1>5. \A r \in Semaphores : WaitsFor(r)' = WaitsFor(r)
  BY <1>1 DEF WaitsFor
<1>6. ASSUME NEW r \in Semaphores, r # s PROVE QueueOf(r)' = QueueOf(r)
  BY <1>1, <1>2, <1>4, <1>5, <1>6, QueueUnchanged
<1>7. ASSUME NEW r \in Semaphores, r = s PROVE QueueOf(r)' = QueueOf(r)
  <2>1. slock[r] = c /\ slock'[r] = NoCpu /\ c # NoCpu
    BY <1>1, <1>2, <1>3, <1>7, SchedulerAssumption
  <2>2. QED
    BY <1>1, <1>5, <2>1 DEF QueueOf
<1>8. QED
  BY <1>6, <1>7

\* A semaphore_V takes the first waiter as soon as it has counted its token.
LEMMA SteppedWake ==
    ASSUME KernelInv, KernelInv', CallsInv, CallsInv',
           NEW c \in CPUs, NEW s \in Semaphores, NEW handler, SemaphoreWake(c, s, handler)
    PROVE  /\ QueueOf(s) # <<>> /\ QueueOf(s)' = Tail(QueueOf(s))
           /\ \A r \in Semaphores \ {s} : QueueOf(r)' = QueueOf(r)
<1>1. /\ mode[c] = "thread" /\ mode' = [mode EXCEPT ![c] = "wake"]
      /\ wakes' = [wakes EXCEPT ![c] = s]
      /\ UNCHANGED <<hashtable, sleepsOn, currentThread>>
      /\ slock[s] = NoCpu /\ slock' = [slock EXCEPT ![s] = c]
  BY DEF SemaphoreWake, StartWake, MoveTo
<1>2. /\ mode \in [CPUs -> Modes] /\ slock \in [Semaphores -> CPUs \cup {NoCpu}]
      /\ wakes \in [CPUs -> Resources \cup {NoResource}]
  BY DEF KernelInv, TypeInv, TypeOK, CallsInv, SemTypes
<1>3. \A r \in Semaphores : WaitsFor(r)' = WaitsFor(r)
  BY <1>1 DEF WaitsFor
<1>4. Waiting(Hash[s], s) # {}
  <2>1. NoWakeMisses'
    BY WaiterThere, PTL DEF CallsInv
  <2>2. mode'[c] = "wake" /\ wakes'[c] = s
    BY <1>1, <1>2
  <2>3. Waiting(Hash[s], s)' # {}
    BY <2>1, <2>2 DEF NoWakeMisses
  <2>4. QED
    BY <1>1, <2>3 DEF Waiting
<1>5. WaitsFor(s) # <<>>
  <2>1. hashtable[Hash[s]] \in Seq(Tids)
    BY ChainTypes DEF KernelInv
  <2>2. \E x \in Elements(hashtable[Hash[s]]) : sleepsOn[x] = s
    BY <1>4 DEF Waiting, Elements
  <2>3. QED
    BY <2>1, <2>2, SelectedWait DEF WaitsFor
<1>6. QueueOf(s) = WaitsFor(s)
  BY <1>1 DEF QueueOf
<1>7. QueueOf(s)' = Tail(WaitsFor(s))
  <2>1. slock'[s] = c /\ c # NoCpu /\ mode'[c] = "wake" /\ WaitsFor(s)' = WaitsFor(s)
    BY <1>1, <1>2, <1>3, SchedulerAssumption
  <2>2. QED
    BY <1>5, <2>1 DEF QueueOf
<1>8. ASSUME NEW r \in Semaphores \ {s} PROVE QueueOf(r)' = QueueOf(r)
  <2>1. slock[r] # c
    BY <1>1, SchedulerAssumption DEF CallsInv, LocksInv, LockHolderInKernel
  <2>2. QED
    BY <1>1, <1>2, <1>3, <2>1, QueueUnchanged DEF CallsInv
<1>9. QED
  BY <1>5, <1>6, <1>7, <1>8

\* sleepq_wake unlinks the very thread that the queue has lost already.
LEMMA SteppedFind ==
    ASSUME KernelInv, CallsInv, NEW c \in CPUs, WakeFind(c), UNCHANGED semVars
    PROVE  \A r \in Semaphores : QueueOf(r)' = QueueOf(r)
<1> USE DEF CallsInv
<1> DEFINE s == wakes[c]
           b == Hash[s]
<1>1. /\ mode[c] = "wake" /\ mode' = [mode EXCEPT ![c] = "ready"]
      /\ UNCHANGED <<sleepsOn, currentThread, wakes, slock>>
  BY DEF WakeFind, MoveTo, semVars
<1>2. PICK i \in Waiting(b, s) :
          /\ \A j \in Waiting(b, s) : i <= j
          /\ hashtable' = [hashtable EXCEPT ![b] = RemoveIndex(@, i)]
  BY DEF WakeFind
<1>3. /\ mode \in [CPUs -> Modes] /\ hashtable \in [Buckets -> Seq(Tids)]
      /\ slock \in [Semaphores -> CPUs \cup {NoCpu}]
  BY DEF KernelInv, TypeInv, TypeOK, SemTypes
<1>4. s \in Semaphores /\ slock[s] = c
  BY <1>1 DEF LocksInv, CallHasLock
<1>5. \A r \in Semaphores : slock[r] = c => r = s
  BY <1>1, SchedulerAssumption DEF LocksInv, LockHolderInKernel
<1>6. b \in Buckets /\ hashtable[b] \in Seq(Tids) /\ hashtable'[b] = RemoveIndex(hashtable[b], i)
  BY <1>2, <1>3, <1>4, ChainTypes DEF KernelInv
<1>7. /\ i \in DOMAIN hashtable[b] /\ sleepsOn[hashtable[b][i]] = s
      /\ \A j \in DOMAIN hashtable[b] : sleepsOn[hashtable[b][j]] = s => i <= j
  BY <1>2 DEF Waiting
<1> HIDE DEF b
<1>8. WaitsFor(s) # <<>> /\ Selected(RemoveIndex(hashtable[b], i), sleepsOn, s) = Tail(WaitsFor(s))
  BY <1>6, <1>7, SelectedRemoveFirst DEF WaitsFor, b
<1>9. ASSUME NEW r \in Semaphores, r # s PROVE WaitsFor(r)' = WaitsFor(r)
  <2>1. hashtable[Hash[r]] \in Seq(Tids) /\ Hash[r] \in Buckets
    BY ChainTypes DEF KernelInv
  <2>2. CASE Hash[r] = b
    <3>1. Selected(RemoveIndex(hashtable[b], i), sleepsOn, r) = Selected(hashtable[b], sleepsOn, r)
      BY <1>6, <1>7, <1>9, SelectedRemoveOther
    <3>2. QED
      BY <1>1, <1>6, <2>2, <3>1 DEF WaitsFor
  <2>3. CASE Hash[r] # b
    BY <1>1, <1>2, <1>3, <2>1, <2>3 DEF WaitsFor
  <2>4. QED
    BY <2>2, <2>3
<1>10. ASSUME NEW r \in Semaphores, r # s PROVE QueueOf(r)' = QueueOf(r)
  BY <1>1, <1>3, <1>5, <1>9, <1>10, QueueUnchanged
<1>11. ASSUME NEW r \in Semaphores, r = s PROVE QueueOf(r)' = QueueOf(r)
  <2>1. slock[r] = c /\ slock'[r] = c /\ c # NoCpu /\ mode'[c] = "ready"
    BY <1>1, <1>3, <1>4, <1>11, SchedulerAssumption
  <2>2. WaitsFor(r)' = Tail(WaitsFor(r)) /\ WaitsFor(r) # <<>>
    BY <1>1, <1>6, <1>8, <1>11 DEF WaitsFor, b
  <2>3. QueueOf(r) = Tail(WaitsFor(r))
    BY <1>1, <2>1, <2>2 DEF QueueOf
  <2>4. QueueOf(r)' = WaitsFor(r)'
    BY <2>1 DEF QueueOf
  <2>5. QED
    BY <2>2, <2>3, <2>4
<1>12. QED
  BY <1>10, <1>11

\* The thread in hand is in no chain.
LEMMA SteppedReady ==
    ASSUME KernelInv, CallsInv, NEW c \in CPUs, WakeReady(c), UNCHANGED semVars
    PROVE  \A r \in Semaphores : QueueOf(r)' = QueueOf(r)
<1> USE DEF CallsInv
<1> DEFINE s == wakes[c]
           u == target[c]
<1>1. /\ mode[c] = "ready" /\ mode' = [mode EXCEPT ![c] = "woken"]
      /\ sleepsOn' = [sleepsOn EXCEPT ![u] = NoResource]
      /\ UNCHANGED <<hashtable, currentThread, slock>>
  BY DEF WakeReady, WakeContinue, MoveTo, semVars, LocksInv, NeverWakesAll
<1>2. /\ mode \in [CPUs -> Modes] /\ slock \in [Semaphores -> CPUs \cup {NoCpu}]
      /\ sleepsOn \in [Tids -> Resources \cup {NoResource}] /\ u \in Tids
      /\ hashtable \in [Buckets -> Seq(Tids)]
  BY DEF KernelInv, TypeInv, TypeOK, SemTypes
<1>3. InHand(u)
  BY <1>1 DEF InHand
<1> HIDE DEF u, s
<1>4. \A b \in Buckets : u \notin Elements(hashtable[b])
  BY <1>3 DEF KernelInv, ChainInv, ChainsExact
<1>5. \A b \in Buckets : \A x \in Elements(hashtable[b]) : sleepsOn'[x] = sleepsOn[x]
  BY <1>1, <1>2, <1>4, ElementsTids
<1>6. \A r \in Semaphores : WaitsFor(r)' = WaitsFor(r)
  BY <1>1, <1>5, WaitsUnchanged
<1>7. ASSUME NEW r \in Semaphores, slock[r] # c PROVE QueueOf(r)' = QueueOf(r)
  BY <1>1, <1>2, <1>6, <1>7, QueueUnchanged
<1>8. ASSUME NEW r \in Semaphores, slock[r] = c PROVE QueueOf(r)' = QueueOf(r)
  <2>1. slock'[r] = c /\ c # NoCpu /\ mode'[c] = "woken"
    BY <1>1, <1>2, <1>8, SchedulerAssumption
  <2>2. QED
    BY <1>1, <1>6, <1>8, <2>1 DEF QueueOf
<1>9. QED
  BY <1>7, <1>8

LEMMA SteppedWoken ==
    ASSUME KernelInv, CallsInv, NEW c \in CPUs, SemaphoreWoken(c)
    PROVE  \A r \in Semaphores : QueueOf(r)' = QueueOf(r)
<1> USE DEF CallsInv
<1> DEFINE s == wakes[c]
<1>1. /\ mode[c] = "woken"
      /\ mode' = [mode EXCEPT ![c] = "thread"] \/ mode' = [mode EXCEPT ![c] = "schedule"]
      /\ UNCHANGED <<hashtable, sleepsOn, currentThread>>
      /\ slock' = [slock EXCEPT ![s] = NoCpu]
  BY DEF SemaphoreWoken, WakeReturn, MoveTo
<1>2. mode \in [CPUs -> Modes] /\ slock \in [Semaphores -> CPUs \cup {NoCpu}]
  BY DEF KernelInv, TypeInv, TypeOK, SemTypes
<1>3. s \in Semaphores /\ slock[s] = c
  BY <1>1 DEF LocksInv, CallHasLock
<1>4. \A r \in Semaphores : slock[r] = c => r = s
  BY <1>1, SchedulerAssumption DEF LocksInv, LockHolderInKernel
<1> HIDE DEF s
<1>5. \A r \in Semaphores : WaitsFor(r)' = WaitsFor(r)
  BY <1>1 DEF WaitsFor
<1>6. ASSUME NEW r \in Semaphores, r # s PROVE QueueOf(r)' = QueueOf(r)
  BY <1>1, <1>2, <1>4, <1>5, <1>6, QueueUnchanged
<1>7. ASSUME NEW r \in Semaphores, r = s PROVE QueueOf(r)' = QueueOf(r)
  <2>1. slock[r] = c /\ slock'[r] = NoCpu /\ c # NoCpu
    BY <1>1, <1>2, <1>3, <1>7, SchedulerAssumption
  <2>2. QED
    BY <1>1, <1>5, <2>1 DEF QueueOf
<1>8. QED
  BY <1>6, <1>7

LEMMA TokensType == ASSUME SemTypes, NEW r \in Semaphores PROVE TokensOf(r) \in Nat
BY DEF SemTypes, TokensOf

\* The queues and the counts that the abstract semaphore sees.
LEMMA Mapped ==
    /\ Abstract!Init <=> /\ [r \in Semaphores |-> TokensOf(r)] \in [Semaphores -> Nat]
                         /\ [r \in Semaphores |-> QueueOf(r)] = [r \in Semaphores |-> <<>>]
    /\ (\A r \in Semaphores : TokensOf(r)' = TokensOf(r)) =>
           [r \in Semaphores |-> TokensOf(r)]' = [r \in Semaphores |-> TokensOf(r)]
    /\ (\A r \in Semaphores : QueueOf(r)' = QueueOf(r)) =>
           [r \in Semaphores |-> QueueOf(r)]' = [r \in Semaphores |-> QueueOf(r)]
BY DEF Abstract!Init

LEMMA MappedInit == KSInit => Abstract!Init
<1> SUFFICES ASSUME KSInit PROVE Abstract!Init
  OBVIOUS
<1>1. TypeInv /\ SemTypes
  BY TypeInit, SemTypesInit DEF KSInit
<1>2. ASSUME NEW r \in Semaphores PROVE QueueOf(r) = <<>>
  <2>1. hashtable[Hash[r]] \in Seq(Tids) /\ Hash[r] \in Buckets
    BY <1>1, ChainTypes
  <2>2. Elements(hashtable[Hash[r]]) = {}
    BY <2>1 DEF Elements, KSInit, Init
  <2>3. WaitsFor(r) = <<>>
    BY <2>1, <2>2, SelectedWait DEF WaitsFor
  <2>4. QED
    BY <2>3 DEF QueueOf, KSInit
<1>3. QED
  BY <1>1, <1>2, TokensType, Mapped

\* A step that changes no queue and no count of tokens.
LEMMA MappedStutter ==
    ASSUME \A r \in Semaphores : TokensOf(r)' = TokensOf(r) /\ QueueOf(r)' = QueueOf(r)
    PROVE  UNCHANGED Abstract!vars
BY Mapped DEF Abstract!vars

\* semaphore_P passes, or blocks its caller at the end of the queue.
LEMMA MappedP ==
    ASSUME KernelInv, CallsInv, NEW c \in CPUs, NEW s \in Semaphores, P(c, s)
    PROVE  Abstract!Next
<1> USE DEF CallsInv
<1> DEFINE T == [r \in Semaphores |-> TokensOf(r)]
           Q == [r \in Semaphores |-> QueueOf(r)]
<1>1. value \in [Semaphores -> Int]
  BY DEF SemTypes
<1>2. ASSUME NEW t \in Tids, SemaphorePass(c, t, s) PROVE Abstract!Pass(s)
  <2>1. OutsideStep(c)
    BY <1>2, CountingOutside
  <2>2. Q' = Q
    BY <2>1, SteppedOutside, Mapped
  <2>3. value[s] - 1 >= 0 /\ value' = [value EXCEPT ![s] = @ - 1]
    BY <1>2 DEF SemaphorePass
  <2>4. T[s] > 0 /\ T' = [T EXCEPT ![s] = @ - 1]
    <3>1. T[s] = value[s] /\ value[s] > 0
      BY <1>1, <2>3 DEF TokensOf
    <3>2. \A r \in Semaphores : T'[r] = IF r = s THEN T[s] - 1 ELSE T[r]
      BY <1>1, <2>3, <3>1 DEF TokensOf
    <3>3. QED
      BY <3>1, <3>2
  <2>5. QED
    BY <2>2, <2>4 DEF Abstract!Pass
<1>3. ASSUME NEW t \in Tids, SemaphoreBlock(c, t, s) PROVE Abstract!Block(t, s) /\ t # Idle
  <2>1. t # Idle /\ slock[s] = NoCpu /\ value[s] - 1 < 0 /\ value' = [value EXCEPT ![s] = @ - 1]
    BY <1>3 DEF SemaphoreBlock, SleepqMark, Executes
  <2>2. T[s] = 0 /\ T' = T
    <3>1. \A r \in Semaphores : TokensOf(r)' = TokensOf(r)
      BY <1>1, <2>1 DEF TokensOf
    <3>2. T' = T
      BY <3>1, Mapped
    <3>3. T[s] = 0
      BY <1>1, <2>1 DEF TokensOf
    <3>4. QED
      BY <3>2, <3>3
  <2>3. Q' = [Q EXCEPT ![s] = Append(@, t)]
    BY <1>3, SteppedBlock
  <2>4. ASSUME NEW r \in Semaphores, NEW i \in DOMAIN QueueOf(r) PROVE QueueOf(r)[i] # t
    <3>1. sleepsOn[t] = NoResource /\ r # NoResource
      BY <1>3, LocksBlock, SchedulerAssumption DEF Semaphores
    <3>2. hashtable[Hash[r]] \in Seq(Tids)
      BY ChainTypes DEF KernelInv
    <3>3. WaitsFor(r) \in Seq(Tids) /\ \A k \in DOMAIN WaitsFor(r) : sleepsOn[WaitsFor(r)[k]] = r
      BY <3>2, SelectedWait DEF WaitsFor
    <3>4. ASSUME slock[r] # NoCpu, mode[slock[r]] = "mark"
          PROVE  sleepsOn[currentThread[slock[r]]] = r /\ currentThread[slock[r]] \in Tids
      <4>1. slock[r] \in CPUs
        BY <3>4 DEF SemTypes
      <4>2. currentThread[slock[r]] \in Tids
        BY <4>1 DEF KernelInv, TypeInv, TypeOK
      <4>3. sleepsOn[currentThread[slock[r]]] = r
        BY <3>4 DEF LocksInv, LockHolderInKernel
      <4>4. QED
        BY <4>2, <4>3
    <3>5. sleepsOn[QueueOf(r)[i]] = r
      <4>1. CASE QueueOf(r) = WaitsFor(r)
        BY <2>4, <3>3, <4>1
      <4>2. CASE slock[r] # NoCpu /\ mode[slock[r]] = "mark"
        <5>1. QueueOf(r) = Append(WaitsFor(r), currentThread[slock[r]])
          BY <4>2 DEF QueueOf
        <5>2. i \in DOMAIN WaitsFor(r) \/ i = Len(WaitsFor(r)) + 1
          BY <2>4, <3>3, <3>4, <4>2, <5>1
        <5>3. CASE i \in DOMAIN WaitsFor(r)
          BY <3>3, <3>4, <4>2, <5>1, <5>3
        <5>4. CASE i = Len(WaitsFor(r)) + 1
          BY <3>3, <3>4, <4>2, <5>1, <5>4
        <5>5. QED
          BY <5>2, <5>3, <5>4
      <4>3. CASE QueueOf(r) = Tail(WaitsFor(r)) /\ WaitsFor(r) # <<>>
        <5>1. Len(WaitsFor(r)) \in Nat \ {0} /\ DOMAIN WaitsFor(r) = 1 .. Len(WaitsFor(r))
          BY <3>3, <4>3
        <5>2. i + 1 \in DOMAIN WaitsFor(r) /\ QueueOf(r)[i] = WaitsFor(r)[i + 1]
          BY <2>4, <3>3, <4>3, <5>1
        <5>3. QED
          BY <3>3, <5>2
      <4>4. QED
        BY <4>1, <4>2, <4>3 DEF QueueOf
    <3>6. QED
      BY <3>1, <3>5
  <2>5. ~Abstract!Blocked(t)
    BY <2>4 DEF Abstract!Blocked
  <2>6. QED
    BY <2>1, <2>2, <2>3, <2>5 DEF Abstract!Block
<1>4. QED
  BY <1>2, <1>3 DEF P, Abstract!Next

\* semaphore_V leaves a token, or releases the first of the queue.
LEMMA MappedV ==
    ASSUME KernelInv, KernelInv', CallsInv, CallsInv', NEW c \in CPUs, NEW s \in Semaphores,
           V(c, s)
    PROVE  Abstract!Next
<1> DEFINE T == [r \in Semaphores |-> TokensOf(r)]
           Q == [r \in Semaphores |-> QueueOf(r)]
<1>1. value \in [Semaphores -> Int]
  BY DEF CallsInv, SemTypes
<1>2. ASSUME NEW handler \in BOOLEAN, SemaphoreRaise(c, s, handler) PROVE Abstract!Leave(s)
  <2>1. OutsideStep(c)
    BY <1>2, CountingOutside
  <2>2. Q' = Q
    BY <2>1, SteppedOutside, Mapped
  <2>3. slock[s] = NoCpu /\ ~(value[s] + 1 <= 0) /\ value' = [value EXCEPT ![s] = @ + 1]
    BY <1>2 DEF SemaphoreRaise, FindsWaiter
  <2>4. T' = [T EXCEPT ![s] = @ + 1]
    <3>1. value[s] >= 0 /\ T[s] = value[s]
      BY <1>1, <2>3 DEF TokensOf
    <3>2. \A r \in Semaphores : T'[r] = IF r = s THEN T[s] + 1 ELSE T[r]
      BY <1>1, <2>3, <3>1 DEF TokensOf
    <3>3. QED
      BY <3>2
  <2>5. Waiters(s) = {}
    <3>1. ~Releasing(s)
      BY <2>3, SchedulerAssumption DEF Releasing
    <3>2. Cardinality(Waiters(s)) = 0
      BY <1>1, <2>3, <3>1 DEF CallsInv, ValueCountsWaiters
    <3>3. QED
      BY <3>2, WaitersFinite, FS_EmptySet
  <2>6. WaitsFor(s) = <<>>
    <3>1. hashtable[Hash[s]] \in Seq(Tids)
      BY ChainTypes DEF KernelInv
    <3>2. QED
      BY <2>5, <3>1, ElementsTids, SelectedWait DEF WaitsFor, Waiters
  <2>7. Q[s] = <<>>
    BY <2>3, <2>6 DEF QueueOf
  <2>8. QED
    BY <2>2, <2>4, <2>7 DEF Abstract!Leave
<1>3. ASSUME NEW handler \in BOOLEAN, SemaphoreWake(c, s, handler) PROVE Abstract!Release(s)
  <2>1. value[s] + 1 <= 0 /\ value' = [value EXCEPT ![s] = @ + 1]
    BY <1>3 DEF SemaphoreWake, FindsWaiter
  <2>2. T' = T
    <3>1. \A r \in Semaphores : TokensOf(r)' = TokensOf(r)
      BY <1>1, <2>1 DEF TokensOf
    <3>2. QED
      BY <3>1, Mapped
  <2>3. Q[s] # <<>> /\ Q' = [Q EXCEPT ![s] = Tail(@)]
    BY <1>3, SteppedWake
  <2>4. QED
    BY <2>2, <2>3 DEF Abstract!Release
<1>4. QED
  BY <1>2, <1>3 DEF V, Abstract!Next

LEMMA MappedStep ==
    KernelInv /\ KernelInv' /\ CallsInv /\ CallsInv' /\ [KSNext]_allVars
        => [Abstract!Next]_(Abstract!vars)
<1> SUFFICES ASSUME KernelInv, KernelInv', CallsInv, CallsInv', [KSNext]_allVars
             PROVE  [Abstract!Next]_(Abstract!vars)
  OBVIOUS
<1>1. ASSUME UNCHANGED value, \A r \in Semaphores : QueueOf(r)' = QueueOf(r)
      PROVE  UNCHANGED Abstract!vars
  BY <1>1, MappedStutter DEF TokensOf
<1>2. CASE UNCHANGED allVars
  BY <1>1, <1>2 DEF allVars, vars, semVars, QueueOf, WaitsFor
<1>3. ASSUME NEW c \in CPUs, SwitchStep(c) \/ TimerStep(c) \/ SoftwareStep(c) \/ ThreadLifeStep(c)
      PROVE  UNCHANGED Abstract!vars
  BY <1>1, <1>3, SwitchingOutside, ThreadLifeOutside, SteppedOutside DEF semVars
<1>4. ASSUME NEW c \in CPUs, KernelStep(c) PROVE UNCHANGED Abstract!vars
  <2>1. CASE SleepqLink(c) /\ UNCHANGED semVars
    BY <1>1, <2>1, SteppedLink DEF semVars
  <2>2. CASE WakeFind(c) /\ UNCHANGED semVars
    BY <1>1, <2>2, SteppedFind DEF semVars
  <2>3. CASE WakeReady(c) /\ UNCHANGED semVars
    BY <1>1, <2>3, SteppedReady DEF semVars
  <2>4. CASE WakeNone(c)
    BY <2>4, WaiterThere DEF WakeNone, NoWakeMisses, CallsInv
  <2>5. CASE SemaphoreSwitch(c)
    BY <1>1, <2>5, SteppedSwitch DEF SemaphoreSwitch
  <2>6. CASE SemaphoreWoken(c)
    BY <1>1, <2>6, SteppedWoken DEF SemaphoreWoken
  <2>7. QED
    BY <1>4, <2>1, <2>2, <2>3, <2>4, <2>5, <2>6 DEF KernelStep, SleepqInnerStep
<1>5. ASSUME NEW c \in CPUs, NEW s \in Semaphores, P(c, s) \/ V(c, s) PROVE Abstract!Next
  BY <1>5, MappedP, MappedV
<1>6. QED
  BY <1>2, <1>3, <1>4, <1>5 DEF KSNext

\* The kernel's semaphores implement the abstract ones of AbstractSemaphore: tokens
\* are conserved, and waiters are released in the order in which they blocked,
\* whatever shares their bucket (semaphore.c:142-185, sleepq.c:99-206).
THEOREM ImplementsSemaphoreAlways == KSSpec => ImplementsSemaphore
<1>1. KSSpec => Abstract!Init
  BY MappedInit DEF KSSpec
<1>2. KSSpec => [][Abstract!Next]_(Abstract!vars)
  BY MappedStep, CallsInvariance, PTL DEF KSSpec
<1>3. QED
  BY <1>1, <1>2 DEF ImplementsSemaphore, Abstract!Spec
=============================================================================
