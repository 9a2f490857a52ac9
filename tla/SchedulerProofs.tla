--------------------------- MODULE SchedulerProofs ---------------------------
(***************************************************************************)
(* Proofs about module Scheduler, for any number of processors, threads    *)
(* and resources and any hash function.                                    *)
(***************************************************************************)
EXTENDS Scheduler, WellFoundedInduction, TLAPS

-----------------------------------------------------------------------------
\* Induction up to n: from the least element of a set of natural numbers.
LEMMA SetInduction ==
    ASSUME NEW n \in Nat, NEW S, 0 \in S, \A i \in 0 .. n - 1 : i \in S => i + 1 \in S
    PROVE  \A i \in 0 .. n : i \in S
<1> DEFINE R == {p \in Nat \X Nat : p[1] < p[2]}
           T == {i \in 0 .. n : i \notin S}
<1>1. IsWellFoundedOn(R, Nat)
  BY NatLessThanWellFounded DEF OpToRel
<1>2. ASSUME T # {} PROVE FALSE
  <2>1. T \subseteq Nat
    OBVIOUS
  <2>2. PICK k \in T : \A i \in T : ~(<<i, k>> \in R)
    <3> HIDE DEF R, T
    <3>1. QED
      BY <1>1, <1>2, <2>1, WFMin
  <2>3. k # 0
    OBVIOUS
  <2>4. k - 1 \in 0 .. n - 1 /\ <<k - 1, k>> \in R
    BY <2>3
  <2>5. k - 1 \in S
    BY <2>2, <2>4
  <2>6. QED
    BY <2>4, <2>5
<1>3. QED
  BY <1>2

-----------------------------------------------------------------------------
\* Sequences as the kernel uses them: a thread is added at the end and taken
\* from the front.

\* RemoveIndex drops one element of a sequence and keeps its type.
LEMMA RemoveIndexSeq ==
    ASSUME NEW S, NEW s \in Seq(S), NEW i \in DOMAIN s
    PROVE  RemoveIndex(s, i) \in Seq(S)
<1>1. Len(s) \in Nat /\ DOMAIN s = 1 .. Len(s) /\ \A j \in 1 .. Len(s) : s[j] \in S
  OBVIOUS
<1>2. Len(s) - 1 \in Nat
  BY <1>1
<1>3. RemoveIndex(s, i) \in [1 .. Len(s) - 1 -> S]
  BY <1>1 DEF RemoveIndex
<1>4. QED
  BY <1>2, <1>3

\* RemoveIndex keeps every element other than the one it drops.
LEMMA RemoveIndexKeeps ==
    ASSUME NEW S, NEW s \in Seq(S), NEW i \in DOMAIN s,
           NEW x \in Elements(s), x # s[i]
    PROVE  x \in Elements(RemoveIndex(s, i))
<1>1. /\ Len(s) \in Nat /\ DOMAIN s = 1 .. Len(s)
      /\ DOMAIN RemoveIndex(s, i) = 1 .. Len(s) - 1
  BY DEF RemoveIndex
<1>2. PICK j \in 1 .. Len(s) : x = s[j] /\ j # i
  BY <1>1 DEF Elements
<1>3. CASE j < i
  <2>1. j \in 1 .. Len(s) - 1 /\ RemoveIndex(s, i)[j] = x
    BY <1>1, <1>2, <1>3 DEF RemoveIndex
  <2>2. QED
    BY <1>1, <2>1 DEF Elements
<1>4. CASE j > i
  <2>1. j - 1 \in 1 .. Len(s) - 1 /\ RemoveIndex(s, i)[j - 1] = x
    BY <1>1, <1>2, <1>4 DEF RemoveIndex
  <2>2. QED
    BY <1>1, <2>1 DEF Elements
<1>5. QED
  BY <1>1, <1>2, <1>3, <1>4

\* Appending adds one element, and no duplicate if it is new.
LEMMA AppendElements ==
    ASSUME NEW S, NEW s \in Seq(S), NEW e \in S
    PROVE  /\ Append(s, e) \in Seq(S)
           /\ Elements(Append(s, e)) = Elements(s) \cup {e}
           /\ NoDuplicates(s) /\ e \notin Elements(s) => NoDuplicates(Append(s, e))
<1>1. /\ Len(Append(s, e)) = Len(s) + 1
      /\ \A i \in 1 .. Len(s) : Append(s, e)[i] = s[i]
      /\ Append(s, e)[Len(s) + 1] = e
      /\ Append(s, e) \in Seq(S)
  OBVIOUS
<1>2. /\ DOMAIN s = 1 .. Len(s)
      /\ DOMAIN Append(s, e) = 1 .. Len(s) + 1
      /\ Len(s) \in Nat
  BY <1>1
<1>3. Elements(Append(s, e)) = Elements(s) \cup {e}
  BY <1>1, <1>2 DEF Elements
<1>4. NoDuplicates(s) /\ e \notin Elements(s) => NoDuplicates(Append(s, e))
  BY <1>1, <1>2 DEF Elements, NoDuplicates
<1>5. QED
  BY <1>1, <1>3, <1>4

\* Taking the first of a sequence without duplicates removes exactly that one.
LEMMA TailElements ==
    ASSUME NEW S, NEW s \in Seq(S), s # <<>>, NoDuplicates(s)
    PROVE  /\ Head(s) \in Elements(s)
           /\ Tail(s) \in Seq(S)
           /\ Elements(Tail(s)) = Elements(s) \ {Head(s)}
           /\ NoDuplicates(Tail(s))
<1>1. /\ Len(s) \in Nat \ {0}
      /\ DOMAIN s = 1 .. Len(s)
      /\ Head(s) = s[1]
      /\ Tail(s) \in Seq(S)
      /\ Len(Tail(s)) = Len(s) - 1
      /\ \A i \in 1 .. Len(s) - 1 : Tail(s)[i] = s[i + 1]
  OBVIOUS
<1>2. DOMAIN Tail(s) = 1 .. Len(s) - 1
  BY <1>1
<1>3. Head(s) \in Elements(s)
  BY <1>1 DEF Elements
<1>4. Elements(Tail(s)) = Elements(s) \ {Head(s)}
  <2>1. ASSUME NEW x \in Elements(Tail(s)) PROVE x \in Elements(s) \ {Head(s)}
    <3>1. PICK i \in 1 .. Len(s) - 1 : x = s[i + 1]
      BY <1>1, <1>2 DEF Elements
    <3>2. QED
      BY <1>1, <3>1 DEF Elements, NoDuplicates
  <2>2. ASSUME NEW x \in Elements(s) \ {Head(s)} PROVE x \in Elements(Tail(s))
    <3>1. PICK i \in 1 .. Len(s) : x = s[i]
      BY <1>1 DEF Elements
    <3>2. i - 1 \in 1 .. Len(s) - 1 /\ Tail(s)[i - 1] = x
      BY <1>1, <3>1
    <3>3. QED
      BY <1>2, <3>2 DEF Elements
  <2>3. QED
    BY <2>1, <2>2
<1>5. NoDuplicates(Tail(s))
  BY <1>1, <1>2 DEF NoDuplicates
<1>6. QED
  BY <1>1, <1>3, <1>4, <1>5

-----------------------------------------------------------------------------
\* Type correctness.  TypeOK is not inductive by itself: what a wake-up finds
\* has a type because the wake-up is for a resource, whose bucket is one of
\* Buckets.

\* A CPU in sleepq_wake or sleepq_wake_all wakes sleepers of some resource.
WakesSomething ==
    \A c \in CPUs : mode[c] \in {"wake", "ready", "woken"} => wakes[c] \in Resources

TypeInv == TypeOK /\ WakesSomething

LEMMA TypeInit == Init => TypeInv
<1> SUFFICES ASSUME Init PROVE TypeInv
  OBVIOUS
<1>1. Idle \in Tids /\ 1 \in Tids
  BY SchedulerAssumption DEF Idle, Tids
<1>2. 2 % MaxThreads \in Tids
  BY SchedulerAssumption DEF Tids
<1>3. TypeOK
  BY <1>1, <1>2, SchedulerAssumption DEF Init, TypeOK, States, Modes, Places
<1>4. WakesSomething
  BY DEF Init, WakesSomething
<1>5. QED
  BY <1>3, <1>4 DEF TypeInv

LEMMA TypeStep == TypeInv /\ [Next]_vars => TypeInv'
<1> SUFFICES ASSUME TypeInv, [Next]_vars PROVE TypeInv'
  OBVIOUS
<1> USE SchedulerAssumption DEF TypeInv
<1>0. Idle \in Tids /\ 1 \in Tids
  BY DEF Idle, Tids
<1>1. ASSUME NEW c \in CPUs, Schedule(c) PROVE TypeInv'
  <2>1. currentThread[c] \in Tids
    BY DEF TypeOK
  <2>2. ReadyAfterLeaving(currentThread[c]) \in Seq(Tids)
    BY <2>1 DEF TypeOK, ReadyAfterLeaving
  <2>3. FirstReady(ReadyAfterLeaving(currentThread[c])) \in Tids
    BY <1>0, <2>2 DEF FirstReady
  <2>4. RestReady(ReadyAfterLeaving(currentThread[c])) \in Seq(Tids)
    BY <2>2 DEF RestReady
  <2>5. StateLeft(currentThread[c]) \in States
    BY DEF StateLeft, States
  <2>6. TypeOK'
    BY <1>1, <2>1, <2>3, <2>4, <2>5
    DEF TypeOK, Schedule, MoveTo, Modes, States, wakeVars, createVars
  <2>7. WakesSomething'
    BY <1>1 DEF TypeOK, WakesSomething, Schedule, MoveTo, wakeVars
  <2>8. QED
    BY <2>6, <2>7
<1>2. ASSUME NEW c \in CPUs, Dispatch(c) PROVE TypeInv'
  BY <1>0, <1>2
  DEF TypeOK, WakesSomething, Dispatch, MoveTo, Modes, wakeVars, createVars
<1>3. ASSUME NEW c \in CPUs, TimerInterrupt(c) PROVE TypeInv'
  BY <1>3 DEF TypeOK, WakesSomething, TimerInterrupt, MoveTo, Modes, wakeVars, createVars
<1>4. ASSUME NEW c \in CPUs, SoftwareInterrupt(c) PROVE TypeInv'
  BY <1>4 DEF TypeOK, WakesSomething, SoftwareInterrupt, MoveTo, Modes, Places,
              wakeVars, createVars
<1>5. ASSUME NEW c \in CPUs, NEW t \in Tids, NEW r \in Resources, SleepqMark(c, t, r)
      PROVE  TypeInv'
  BY <1>5 DEF TypeOK, WakesSomething, SleepqMark, MoveTo, Modes, wakeVars, createVars
<1>6. ASSUME NEW c \in CPUs, SleepqLink(c) PROVE TypeInv'
  <2>1. \A b \in Buckets : Append(hashtable[b], currentThread[c]) \in Seq(Tids)
    BY DEF TypeOK
  <2>2. hashtable' \in [Buckets -> Seq(Tids)]
    BY <1>6, <2>1 DEF TypeOK, SleepqLink
  <2>3. TypeOK'
    BY <1>6, <2>2 DEF TypeOK, SleepqLink, MoveTo, Modes, wakeVars, createVars
  <2>4. WakesSomething'
    BY <1>6 DEF TypeOK, WakesSomething, SleepqLink, MoveTo, wakeVars
  <2>5. QED
    BY <2>3, <2>4
<1>7. ASSUME NEW c \in CPUs, ThreadSwitch(c) PROVE TypeInv'
  BY <1>7 DEF TypeOK, WakesSomething, ThreadSwitch, MoveTo, Modes, Places, wakeVars,
              createVars
<1>8. ASSUME NEW c \in CPUs, NEW r \in Resources, NEW all \in BOOLEAN,
             NEW handler \in BOOLEAN, StartWake(c, r, all, handler)
      PROVE  TypeInv'
  BY <1>8 DEF TypeOK, WakesSomething, StartWake, MoveTo, Modes, createVars
<1>9. ASSUME NEW c \in CPUs, WakeFind(c) PROVE TypeInv'
  <2>1. wakes[c] \in Resources /\ Hash[wakes[c]] \in Buckets
    BY <1>9 DEF WakesSomething, WakeFind
  <2> DEFINE b == Hash[wakes[c]]
  <2>2. PICK i \in Waiting(b, wakes[c]) :
            /\ target' = [target EXCEPT ![c] = hashtable[b][i]]
            /\ hashtable' = [hashtable EXCEPT ![b] = RemoveIndex(@, i)]
    BY <1>9 DEF WakeFind
  <2>3. hashtable[b] \in Seq(Tids) /\ i \in DOMAIN hashtable[b]
    BY <2>1 DEF TypeOK, Waiting
  <2>4. hashtable[b][i] \in Tids
    BY <2>3
  <2>5. RemoveIndex(hashtable[b], i) \in Seq(Tids)
    BY <2>3, RemoveIndexSeq
  <2>6. TypeOK'
    BY <1>9, <2>2, <2>4, <2>5 DEF TypeOK, WakeFind, MoveTo, Modes, createVars
  <2>7. WakesSomething'
    BY <1>9, <2>1 DEF TypeOK, WakesSomething, WakeFind, MoveTo
  <2>8. QED
    BY <2>6, <2>7
<1>10. ASSUME NEW c \in CPUs, WakeNone(c) PROVE TypeInv'
  BY <1>10 DEF TypeOK, WakesSomething, WakeNone, MoveTo, Modes, createVars
<1>11. ASSUME NEW c \in CPUs, WakeReady(c) PROVE TypeInv'
  <2>1. target[c] \in Tids
    BY DEF TypeOK
  <2>2. Append(ready, target[c]) \in Seq(Tids)
    BY <2>1 DEF TypeOK
  <2>3. TypeOK'
    BY <1>0, <1>11, <2>1, <2>2
    DEF TypeOK, WakeReady, WakeContinue, MoveTo, Modes, States, createVars
  <2>4. WakesSomething'
    BY <1>11 DEF TypeOK, WakesSomething, WakeReady, WakeContinue, MoveTo
  <2>5. QED
    BY <2>3, <2>4
<1>12. ASSUME NEW c \in CPUs, WakeReturn(c) PROVE TypeInv'
  BY <1>12 DEF TypeOK, WakesSomething, WakeReturn, MoveTo, Modes, createVars
<1>13. ASSUME NEW c \in CPUs, NEW t \in Tids, NEW u \in Tids, ThreadCreate(c, t, u)
       PROVE  TypeInv'
  <2>1. NextTid(u) \in Tids
    BY DEF NextTid, Tids
  <2>2. QED
    BY <1>13, <2>1 DEF TypeOK, WakesSomething, ThreadCreate, States, Places, wakeVars
<1>14. ASSUME NEW c \in CPUs, NEW t \in Tids, ThreadInitialise(c, t) PROVE TypeInv'
  BY <1>14 DEF TypeOK, WakesSomething, ThreadInitialise, Places, wakeVars, createVars
<1>15. ASSUME NEW c \in CPUs, NEW t \in Tids, ThreadRun(c, t) PROVE TypeInv'
  <2>1. child[t] \in Tids /\ Append(ready, child[t]) \in Seq(Tids)
    BY DEF TypeOK
  <2>2. QED
    BY <1>0, <1>15, <2>1 DEF TypeOK, WakesSomething, ThreadRun, States, Places, wakeVars
<1>16. ASSUME NEW c \in CPUs, NEW t \in Tids, ThreadFinish(c, t) PROVE TypeInv'
  BY <1>16 DEF TypeOK, WakesSomething, ThreadFinish, States, Places, wakeVars, createVars
<1>17. CASE UNCHANGED vars
  BY <1>17 DEF TypeOK, WakesSomething, vars
<1>18. QED
  BY <1>1, <1>2, <1>3, <1>4, <1>5, <1>6, <1>7, <1>8, <1>9, <1>10, <1>11, <1>12, <1>13,
     <1>14, <1>15, <1>16, <1>17
  DEF Next, SchedulerStep, SleepqStep, ThreadStep, WakeCall

\* Every variable keeps its type.
THEOREM TypeCorrect == Spec => []TypeOK
<1>1. Spec => []TypeInv
  BY TypeInit, TypeStep, PTL DEF Spec
<1>2. TypeInv => TypeOK
  BY DEF TypeInv
<1>3. QED
  BY <1>1, <1>2, PTL

-----------------------------------------------------------------------------
\* Mutual exclusion of the CPUs.  That a thread which left the ready list is in
\* no other CPU's hands depends on the states of all threads: the ready list
\* holds READY threads only, once; a thread that a CPU holds is not READY; and a
\* row that is being initialised is NONREADY and has one creator.

\* Thread t is creating another and has not made it ready.
Creating(t) == at[t] \in {"created", "initialised"}

\* The idle thread is never put to sleep, so it is never woken either.
IdleNeverSleeps ==
    sleepsOn[Idle] = NoResource /\ threadState[Idle] \in {"READY", "RUNNING"}

\* What a CPU holds, unless it is idle, is running or has just finished.
HeldRuns ==
    \A c \in CPUs : Holds(c) # Idle => threadState[Holds(c)] \in {"RUNNING", "DYING"}

\* Each row that is being initialised has one thread that does it.
ChildrenApart ==
    /\ \A t \in Tids : Creating(t) =>
           child[t] # Idle /\ threadState[child[t]] = "NONREADY"
    /\ \A s, t \in Tids : Creating(s) /\ Creating(t) /\ child[s] = child[t] => s = t

SchedInv ==
    /\ IdleNeverSleeps
    /\ ReadyListExact
    /\ HeldRuns
    /\ OneCpuPerThread
    /\ ChildrenApart

LEMMA SchedInit == Init => SchedInv
<1> SUFFICES ASSUME Init PROVE SchedInv
  OBVIOUS
<1> USE SchedulerAssumption
<1>1. Idle \in Tids /\ 1 \in Tids /\ Idle = 0
  BY DEF Idle, Tids
<1>2. IdleNeverSleeps
  BY <1>1 DEF Init, IdleNeverSleeps
<1>3. ReadyListExact
  <2>1. ready = <<1>> /\ DOMAIN ready = {1} /\ ready[1] = 1
    BY DEF Init
  <2>2. Elements(ready) = {1} /\ NoDuplicates(ready)
    BY <2>1 DEF Elements, NoDuplicates
  <2>3. {t \in Tids \ {Idle} : threadState[t] = "READY"} = {1}
    BY <1>1 DEF Init
  <2>4. QED
    BY <2>2, <2>3 DEF ReadyListExact
<1>4. \A c \in CPUs : Holds(c) = Idle
  BY DEF Init, Holds
<1>5. HeldRuns /\ OneCpuPerThread
  BY <1>4 DEF HeldRuns, OneCpuPerThread
<1>6. ChildrenApart
  BY DEF Init, ChildrenApart, Creating
<1>7. QED
  BY <1>2, <1>3, <1>5, <1>6 DEF SchedInv

LEMMA IdleTid == Idle \in Tids
BY SchedulerAssumption DEF Idle, Tids

LEMMA HoldsType == ASSUME TypeInv, NEW c \in CPUs PROVE Holds(c) \in Tids
BY DEF TypeInv, TypeOK, Holds

\* A thread that executes is held by its CPU, and no other.
LEMMA ExecutesHeld ==
    ASSUME TypeInv, SchedInv, NEW c \in CPUs, NEW t \in Tids, Executes(c, t)
    PROVE  /\ Holds(c) = t /\ t # Idle
           /\ threadState[t] \in {"RUNNING", "DYING"}
           /\ t \notin Elements(ready)
           /\ \A d \in CPUs \ {c} : Holds(d) # t
<1>1. Holds(c) = t /\ t # Idle
  BY DEF Executes, Holds
<1>2. threadState[t] \in {"RUNNING", "DYING"}
  BY <1>1 DEF SchedInv, HeldRuns
<1>3. t \notin Elements(ready)
  BY <1>2 DEF SchedInv, ReadyListExact
<1>4. \A d \in CPUs \ {c} : Holds(d) # t
  BY <1>1 DEF SchedInv, OneCpuPerThread
<1>5. QED
  BY <1>1, <1>2, <1>3, <1>4

\* A row that is not running is in no CPU's hands.
LEMMA OthersNotHeld ==
    ASSUME TypeInv, SchedInv, NEW u \in Tids \ {Idle},
           threadState[u] \notin {"RUNNING", "DYING"}
    PROVE  \A d \in CPUs : Holds(d) # u
BY DEF SchedInv, HeldRuns

\* A step that leaves the states, the ready list and what the CPUs hold alone
\* preserves the invariant.
LEMMA SchedUnchanged ==
    ASSUME SchedInv,
           UNCHANGED <<threadState, ready, child>>,
           sleepsOn'[Idle] = sleepsOn[Idle],
           \A d \in CPUs : Holds(d)' = Holds(d),
           \A t \in Tids : Creating(t)' => Creating(t)
    PROVE  SchedInv'
<1>1. IdleNeverSleeps' /\ ReadyListExact'
  BY DEF SchedInv, IdleNeverSleeps, ReadyListExact
<1>2. HeldRuns' /\ OneCpuPerThread'
  BY DEF SchedInv, HeldRuns, OneCpuPerThread
<1>3. ChildrenApart'
  BY DEF SchedInv, ChildrenApart
<1>4. QED
  BY <1>1, <1>2, <1>3 DEF SchedInv

\* What scheduler_schedule works on: the states once the current thread is put
\* away, the ready list with it, and the thread it picks.
LeftStates(c) == [threadState EXCEPT ![currentThread[c]] = StateLeft(currentThread[c])]
LeftQueue(c) == ReadyAfterLeaving(currentThread[c])
Picked(c) == FirstReady(LeftQueue(c))

\* scheduler_schedule picks the idle thread or one that is ready, and takes it
\* from the list.
LEMMA SchedulePicks ==
    ASSUME TypeInv, SchedInv, NEW c \in CPUs, Schedule(c)
    PROVE  LET t == currentThread[c]
           IN  /\ t \in Tids /\ Holds(c) = t /\ Idle \in Tids
               /\ t # Idle => threadState[t] \in {"RUNNING", "DYING"}
               /\ t = Idle => StateLeft(t) = "READY"
               /\ LeftStates(c) \in [Tids -> States]
               /\ Elements(LeftQueue(c)) = {u \in Tids \ {Idle} : LeftStates(c)[u] = "READY"}
               /\ Picked(c) \in Tids
               /\ Picked(c) # Idle => Picked(c) \in Elements(LeftQueue(c))
               /\ NoDuplicates(ready')
               /\ Elements(ready') = Elements(LeftQueue(c)) \ {Picked(c)}
               /\ threadState' = [LeftStates(c) EXCEPT ![Picked(c)] = "RUNNING"]
<1> DEFINE t == currentThread[c]
           queue == LeftQueue(c)
           first == Picked(c)
           left == LeftStates(c)
<1>1. /\ t \in Tids /\ Holds(c) = t /\ Idle \in Tids
      /\ threadState \in [Tids -> States]
      /\ ready \in Seq(Tids)
  BY IdleTid DEF TypeInv, TypeOK, Schedule, Holds
<1>2. t # Idle => threadState[t] \in {"RUNNING", "DYING"}
  BY <1>1 DEF SchedInv, HeldRuns
<1>3. t = Idle => StateLeft(t) = "READY"
  BY DEF SchedInv, IdleNeverSleeps, StateLeft
<1>4. t \notin Elements(ready)
  BY <1>2 DEF SchedInv, ReadyListExact
<1>5. left \in [Tids -> States] /\ left[t] = StateLeft(t)
  BY <1>1 DEF LeftStates, StateLeft, States
<1>6. /\ queue \in Seq(Tids) /\ NoDuplicates(queue)
      /\ Elements(queue) = {u \in Tids \ {Idle} : left[u] = "READY"}
  <2>1. CASE StateLeft(t) = "READY" /\ t # Idle
    <3>1. queue = Append(ready, t)
      BY <2>1 DEF LeftQueue, ReadyAfterLeaving
    <3>2. /\ queue \in Seq(Tids) /\ NoDuplicates(queue)
          /\ Elements(queue) = Elements(ready) \cup {t}
      BY <1>1, <1>4, <3>1, AppendElements DEF SchedInv, ReadyListExact
    <3>3. QED
      BY <1>1, <2>1, <3>2 DEF SchedInv, ReadyListExact, LeftStates
  <2>2. CASE ~(StateLeft(t) = "READY" /\ t # Idle)
    <3>1. queue = ready
      BY <2>2 DEF LeftQueue, ReadyAfterLeaving
    <3>2. QED
      BY <1>1, <1>2, <2>2, <3>1 DEF SchedInv, ReadyListExact, LeftStates
  <2>3. QED
    BY <2>1, <2>2
<1>7. /\ first \in Tids
      /\ first # Idle => first \in Elements(queue)
      /\ NoDuplicates(RestReady(queue))
      /\ Elements(RestReady(queue)) = Elements(queue) \ {first}
  <2>1. CASE queue = <<>>
    <3>1. first = Idle /\ RestReady(queue) = queue
      BY <2>1 DEF Picked, FirstReady, RestReady
    <3>2. QED
      BY <1>1, <1>6, <3>1
  <2>2. CASE queue # <<>>
    <3>1. first = Head(queue) /\ RestReady(queue) = Tail(queue)
      BY <2>2 DEF Picked, FirstReady, RestReady
    <3>2. QED
      BY <1>6, <2>2, <3>1, TailElements
  <2>3. QED
    BY <2>1, <2>2
<1>8. threadState' = [left EXCEPT ![first] = "RUNNING"] /\ ready' = RestReady(queue)
  BY DEF Schedule, LeftStates, LeftQueue, Picked
<1>9. QED
  BY <1>1, <1>2, <1>3, <1>5, <1>6, <1>7, <1>8

\* scheduler_schedule: the thread it picks is in no other CPU's hands.
LEMMA SchedSchedule ==
    ASSUME TypeInv, SchedInv, NEW c \in CPUs, Schedule(c)
    PROVE  SchedInv'
<1> DEFINE t == currentThread[c]
           queue == LeftQueue(c)
           first == Picked(c)
           left == LeftStates(c)
<1>1. /\ t \in Tids /\ Holds(c) = t /\ Idle \in Tids
      /\ t # Idle => threadState[t] \in {"RUNNING", "DYING"}
      /\ t = Idle => StateLeft(t) = "READY"
      /\ left \in [Tids -> States]
      /\ Elements(queue) = {u \in Tids \ {Idle} : left[u] = "READY"}
      /\ first \in Tids /\ (first # Idle => first \in Elements(queue))
      /\ NoDuplicates(ready')
      /\ Elements(ready') = Elements(queue) \ {first}
      /\ threadState' = [left EXCEPT ![first] = "RUNNING"]
  BY SchedulePicks
<1>2. UNCHANGED <<sleepsOn, at, child>>
  BY DEF Schedule, createVars
<1>3. /\ left = [threadState EXCEPT ![t] = StateLeft(t)]
      /\ threadState \in [Tids -> States]
  BY DEF LeftStates, TypeInv, TypeOK
<1>4. /\ Holds(c)' = first
      /\ \A d \in CPUs \ {c} : Holds(d)' = Holds(d)
  BY DEF Schedule, Holds, MoveTo, TypeInv, TypeOK, Picked, LeftQueue
<1>5. \A d \in CPUs \ {c} : Holds(d) # Idle => Holds(d) # t /\ Holds(d) # first
  <2> SUFFICES ASSUME NEW d \in CPUs \ {c}, Holds(d) # Idle
               PROVE  Holds(d) # t /\ Holds(d) # first
    OBVIOUS
  <2>1. Holds(d) # t
    BY <1>1 DEF SchedInv, OneCpuPerThread
  <2>2. threadState[Holds(d)] \in {"RUNNING", "DYING"}
    BY DEF SchedInv, HeldRuns
  <2>3. Holds(d) \notin Elements(queue)
    BY <1>1, <1>3, <2>1, <2>2
  <2>4. QED
    BY <1>1, <2>1, <2>3
<1>6. IdleNeverSleeps'
  BY <1>1, <1>2, <1>3 DEF SchedInv, IdleNeverSleeps
<1>7. ReadyListExact'
  BY <1>1 DEF ReadyListExact
<1>8. HeldRuns'
  <2> SUFFICES ASSUME NEW d \in CPUs, Holds(d)' # Idle
               PROVE  threadState'[Holds(d)'] \in {"RUNNING", "DYING"}
    BY DEF HeldRuns
  <2>1. CASE d = c
    BY <1>1, <1>4, <2>1
  <2>2. CASE d # c
    <3>1. Holds(d)' = Holds(d) /\ Holds(d) \in Tids
      BY <1>4, <2>2, HoldsType
    <3>2. Holds(d) # t /\ Holds(d) # first
      BY <1>5, <2>2, <3>1
    <3>3. threadState'[Holds(d)] = threadState[Holds(d)]
      BY <1>1, <1>3, <3>1, <3>2
    <3>4. QED
      BY <3>1, <3>3 DEF SchedInv, HeldRuns
  <2>3. QED
    BY <2>1, <2>2
<1>9. OneCpuPerThread'
  BY <1>4, <1>5 DEF SchedInv, OneCpuPerThread
<1>10. ChildrenApart'
  <2>1. ASSUME NEW s \in Tids, Creating(s) PROVE threadState'[child[s]] = "NONREADY"
    <3>1. /\ child[s] \in Tids /\ child[s] # Idle
          /\ threadState[child[s]] = "NONREADY"
      BY <2>1 DEF SchedInv, ChildrenApart, TypeInv, TypeOK
    <3>2. child[s] # t
      BY <1>1, <3>1
    <3>3. child[s] # first
      BY <1>1, <1>3, <3>1, <3>2
    <3>4. QED
      BY <1>1, <1>3, <3>1, <3>2, <3>3
  <2>2. QED
    BY <1>2, <2>1 DEF SchedInv, ChildrenApart, Creating
<1>11. QED
  BY <1>6, <1>7, <1>8, <1>9, <1>10 DEF SchedInv

\* A step that changes the state of one thread, which no CPU holds and nobody
\* creates, and queues it if it becomes ready.
LEMMA SchedOneThread ==
    ASSUME TypeInv, SchedInv,
           NEW u \in Tids \ {Idle}, NEW st \in States,
           threadState' = [threadState EXCEPT ![u] = st],
           \/ st = "READY" /\ u \notin Elements(ready) /\ ready' = Append(ready, u)
           \/ st # "READY" /\ u \notin Elements(ready) /\ ready' = ready,
           \A d \in CPUs : Holds(d)' = Holds(d)
                           /\ (Holds(d) = u => st \in {"RUNNING", "DYING"}),
           sleepsOn'[Idle] = sleepsOn[Idle]
    PROVE  IdleNeverSleeps' /\ ReadyListExact' /\ HeldRuns' /\ OneCpuPerThread'
<1>1. threadState \in [Tids -> States] /\ ready \in Seq(Tids) /\ Idle \in Tids
  BY IdleTid DEF TypeInv, TypeOK
<1>2. IdleNeverSleeps'
  BY <1>1 DEF SchedInv, IdleNeverSleeps
<1>3. ReadyListExact'
  <2>1. CASE st = "READY"
    <3>1. /\ Elements(ready') = Elements(ready) \cup {u}
          /\ NoDuplicates(ready')
      <4>1. u \in Tids /\ u \notin Elements(ready) /\ ready' = Append(ready, u)
        BY <2>1
      <4>2. NoDuplicates(ready)
        BY DEF SchedInv, ReadyListExact
      <4>3. QED
        BY <1>1, <4>1, <4>2, AppendElements
    <3>2. QED
      BY <1>1, <2>1, <3>1 DEF SchedInv, ReadyListExact
  <2>2. CASE st # "READY"
    BY <1>1, <2>2 DEF SchedInv, ReadyListExact
  <2>3. QED
    BY <2>1, <2>2
<1>4. HeldRuns'
  <2> SUFFICES ASSUME NEW d \in CPUs, Holds(d) # Idle
               PROVE  threadState'[Holds(d)] \in {"RUNNING", "DYING"}
    BY DEF HeldRuns
  <2>1. Holds(d) \in Tids /\ threadState[Holds(d)] \in {"RUNNING", "DYING"}
    BY HoldsType DEF SchedInv, HeldRuns
  <2>2. QED
    BY <1>1, <2>1
<1>5. OneCpuPerThread'
  BY DEF SchedInv, OneCpuPerThread
<1>6. QED
  BY <1>2, <1>3, <1>4, <1>5

\* sleepq_wake makes ready only a thread that sleeps.
LEMMA SchedWakeReady ==
    ASSUME TypeInv, SchedInv, NEW c \in CPUs, WakeReady(c)
    PROVE  SchedInv'
<1> DEFINE u == target[c]
<1>0. /\ u \in Tids /\ Idle \in Tids
      /\ sleepsOn \in [Tids -> Resources \cup {NoResource}]
      /\ threadState \in [Tids -> States]
      /\ sleepsOn' = [sleepsOn EXCEPT ![u] = NoResource]
      /\ UNCHANGED <<at, child>>
  BY SchedulerAssumption DEF TypeInv, TypeOK, WakeReady, createVars, Idle, Tids
<1>1. sleepsOn'[Idle] = sleepsOn[Idle]
  BY <1>0 DEF SchedInv, IdleNeverSleeps
<1>2. \A d \in CPUs : Holds(d)' = Holds(d)
  BY DEF WakeReady, WakeContinue, MoveTo, Holds, TypeInv, TypeOK
<1>3. CASE threadState[u] = "SLEEPING"
  <2>1. u # Idle /\ u \notin Elements(ready)
    BY <1>3 DEF SchedInv, IdleNeverSleeps, ReadyListExact
  <2>2. \A d \in CPUs : Holds(d) # u
    BY <1>0, <1>3, <2>1, OthersNotHeld
  <2>3. threadState' = [threadState EXCEPT ![u] = "READY"] /\ ready' = Append(ready, u)
    BY <1>3 DEF WakeReady
  <2>4. IdleNeverSleeps' /\ ReadyListExact' /\ HeldRuns' /\ OneCpuPerThread'
    <3>1. "READY" \in States
      BY DEF States
    <3>2. QED
      BY <1>0, <1>1, <1>2, <2>1, <2>2, <2>3, <3>1, SchedOneThread
  <2>5. ChildrenApart'
    BY <1>0, <1>3, <2>3 DEF SchedInv, ChildrenApart, Creating, TypeInv, TypeOK
  <2>6. QED
    BY <2>4, <2>5 DEF SchedInv
<1>4. CASE threadState[u] # "SLEEPING"
  <2>1. UNCHANGED <<threadState, ready, child>>
    BY <1>0, <1>4 DEF WakeReady
  <2>2. QED
    BY <1>0, <1>1, <1>2, <2>1, SchedUnchanged DEF Creating
<1>5. QED
  BY <1>3, <1>4

\* thread_create takes a row that is free and has no other creator.
LEMMA SchedThreadCreate ==
    ASSUME TypeInv, SchedInv, NEW c \in CPUs, NEW t \in Tids, NEW u \in Tids,
           ThreadCreate(c, t, u)
    PROVE  SchedInv'
<1>1. /\ u # Idle /\ threadState[u] = "FREE"
      /\ threadState' = [threadState EXCEPT ![u] = "NONREADY"]
      /\ child' = [child EXCEPT ![t] = u]
      /\ at' = [at EXCEPT ![t] = "created"]
      /\ UNCHANGED <<sleepsOn, ready, currentThread, mode, target>>
  BY DEF ThreadCreate, FreeRows
<1>2. /\ threadState \in [Tids -> States] /\ at \in [Tids -> Places]
      /\ child \in [Tids -> Tids] /\ Idle \in Tids
  BY IdleTid DEF TypeInv, TypeOK
<1>3. u \notin Elements(ready)
  BY <1>1 DEF SchedInv, ReadyListExact
<1>4. \A d \in CPUs : Holds(d)' = Holds(d) /\ Holds(d) # u
  BY <1>1, OthersNotHeld DEF Holds
<1>5. IdleNeverSleeps' /\ ReadyListExact' /\ HeldRuns' /\ OneCpuPerThread'
  <2>1. "NONREADY" \in States
    BY DEF States
  <2>2. QED
    BY <1>1, <1>3, <1>4, <2>1, SchedOneThread
<1>6. ChildrenApart'
  <2>1. \A s \in Tids \ {t} : /\ Creating(s)' <=> Creating(s)
                              /\ child'[s] = child[s]
                              /\ Creating(s) => child[s] # u
    BY <1>1, <1>2 DEF SchedInv, ChildrenApart, Creating
  <2>2. child'[t] = u /\ threadState'[u] = "NONREADY"
    BY <1>1, <1>2
  <2>3. \A s \in Tids \ {t} : Creating(s) =>
            child[s] # Idle /\ threadState'[child[s]] = "NONREADY"
    BY <1>1, <1>2, <2>1 DEF SchedInv, ChildrenApart
  <2>4. \A s \in Tids : Creating(s)' =>
            child'[s] # Idle /\ threadState'[child'[s]] = "NONREADY"
    BY <1>1, <2>1, <2>2, <2>3
  <2>5. \A r, s \in Tids : Creating(r)' /\ Creating(s)' /\ child'[r] = child'[s] => r = s
    BY <2>1, <2>2 DEF SchedInv, ChildrenApart
  <2>6. QED
    BY <2>4, <2>5 DEF ChildrenApart
<1>7. QED
  BY <1>5, <1>6 DEF SchedInv

\* thread_run queues a row that nobody else initialises, queues or executes.
LEMMA SchedThreadRun ==
    ASSUME TypeInv, SchedInv, NEW c \in CPUs, NEW t \in Tids, ThreadRun(c, t)
    PROVE  SchedInv'
<1> DEFINE u == child[t]
<1>1. /\ threadState' = [threadState EXCEPT ![u] = "READY"]
      /\ ready' = Append(ready, u)
      /\ child' = [child EXCEPT ![t] = Idle]
      /\ at' = [at EXCEPT ![t] = "run"]
      /\ UNCHANGED <<sleepsOn, currentThread, mode, target>>
      /\ Creating(t)
  BY DEF ThreadRun, Creating
<1>2. /\ threadState \in [Tids -> States] /\ at \in [Tids -> Places]
      /\ child \in [Tids -> Tids] /\ Idle \in Tids
  BY IdleTid DEF TypeInv, TypeOK
<1>3. u \in Tids \ {Idle} /\ threadState[u] = "NONREADY"
  BY <1>1, <1>2 DEF SchedInv, ChildrenApart
<1>4. u \notin Elements(ready)
  BY <1>3 DEF SchedInv, ReadyListExact
<1>5. \A d \in CPUs : Holds(d)' = Holds(d) /\ Holds(d) # u
  BY <1>1, <1>3, OthersNotHeld DEF Holds
<1>6. IdleNeverSleeps' /\ ReadyListExact' /\ HeldRuns' /\ OneCpuPerThread'
  <2>1. "READY" \in States
    BY DEF States
  <2>2. QED
    BY <1>1, <1>3, <1>4, <1>5, <2>1, SchedOneThread
<1>7. ChildrenApart'
  <2>1. \A s \in Tids : Creating(s)' => s # t /\ Creating(s) /\ child'[s] = child[s]
    BY <1>1, <1>2 DEF Creating
  <2>2. \A s \in Tids : Creating(s)' => child[s] # u
    BY <1>1, <2>1 DEF SchedInv, ChildrenApart
  <2>3. \A s \in Tids : Creating(s)' =>
            child'[s] # Idle /\ threadState'[child'[s]] = "NONREADY"
    BY <1>1, <1>2, <2>1, <2>2 DEF SchedInv, ChildrenApart
  <2>4. \A r, s \in Tids : Creating(r)' /\ Creating(s)' /\ child'[r] = child'[s] => r = s
    BY <2>1 DEF SchedInv, ChildrenApart
  <2>5. QED
    BY <2>3, <2>4 DEF ChildrenApart
<1>8. QED
  BY <1>6, <1>7 DEF SchedInv

\* thread_finish marks the thread that executes.
LEMMA SchedThreadFinish ==
    ASSUME TypeInv, SchedInv, NEW c \in CPUs, NEW t \in Tids, ThreadFinish(c, t)
    PROVE  SchedInv'
<1>1. /\ threadState' = [threadState EXCEPT ![t] = "DYING"]
      /\ at' = [at EXCEPT ![t] = "dying"]
      /\ UNCHANGED <<sleepsOn, ready, child, currentThread, mode, target>>
      /\ Executes(c, t)
  BY DEF ThreadFinish, createVars
<1>2. /\ threadState \in [Tids -> States] /\ at \in [Tids -> Places]
      /\ child \in [Tids -> Tids]
  BY DEF TypeInv, TypeOK
<1>3. t # Idle /\ t \notin Elements(ready) /\ threadState[t] \in {"RUNNING", "DYING"}
  BY <1>1, ExecutesHeld
<1>4. IdleNeverSleeps' /\ ReadyListExact' /\ HeldRuns' /\ OneCpuPerThread'
  <2>1. "DYING" \in States /\ "DYING" # "READY"
    BY DEF States
  <2>2. \A d \in CPUs : Holds(d)' = Holds(d)
    BY <1>1 DEF Holds
  <2>3. QED
    BY <1>1, <1>3, <2>1, <2>2, SchedOneThread
<1>5. ChildrenApart'
  <2>1. \A s \in Tids : Creating(s)' => Creating(s)
    BY <1>1, <1>2 DEF Creating
  <2>2. \A s \in Tids : Creating(s) => child[s] # t
    BY <1>3 DEF SchedInv, ChildrenApart
  <2>3. QED
    BY <1>1, <1>2, <2>1, <2>2 DEF SchedInv, ChildrenApart
<1>6. QED
  BY <1>4, <1>5 DEF SchedInv

LEMMA SchedStep == TypeInv /\ SchedInv /\ [Next]_vars => SchedInv'
<1> SUFFICES ASSUME TypeInv, SchedInv, [Next]_vars PROVE SchedInv'
  OBVIOUS
<1> USE IdleTid
<1>1. ASSUME NEW c \in CPUs, Schedule(c) PROVE SchedInv'
  BY <1>1, SchedSchedule
<1>2. ASSUME NEW c \in CPUs, Dispatch(c) PROVE SchedInv'
  <2>1. \A d \in CPUs : Holds(d)' = Holds(d)
    BY <1>2 DEF Dispatch, MoveTo, Holds, TypeInv, TypeOK
  <2>2. QED
    BY <1>2, <2>1, SchedUnchanged DEF Dispatch, Creating, createVars
<1>3. ASSUME NEW c \in CPUs, TimerInterrupt(c) PROVE SchedInv'
  <2>1. \A d \in CPUs : Holds(d)' = Holds(d)
    BY <1>3 DEF TimerInterrupt, MoveTo, Holds, TypeInv, TypeOK
  <2>2. QED
    BY <1>3, <2>1, SchedUnchanged DEF TimerInterrupt, Creating, createVars
<1>4. ASSUME NEW c \in CPUs, SoftwareInterrupt(c) PROVE SchedInv'
  <2>1. \A d \in CPUs : Holds(d)' = Holds(d)
    BY <1>4 DEF SoftwareInterrupt, Executes, MoveTo, Holds, TypeInv, TypeOK
  <2>2. \A t \in Tids : Creating(t)' => Creating(t)
    BY <1>4 DEF SoftwareInterrupt, Creating, TypeInv, TypeOK
  <2>3. QED
    BY <1>4, <2>1, <2>2, SchedUnchanged DEF SoftwareInterrupt, createVars
<1>5. ASSUME NEW c \in CPUs, NEW t \in Tids, NEW r \in Resources, SleepqMark(c, t, r)
      PROVE  SchedInv'
  <2>1. \A d \in CPUs : Holds(d)' = Holds(d)
    BY <1>5 DEF SleepqMark, Executes, MoveTo, Holds, TypeInv, TypeOK
  <2>2. sleepsOn'[Idle] = sleepsOn[Idle]
    BY <1>5 DEF SleepqMark, Executes, TypeInv, TypeOK
  <2>3. QED
    BY <1>5, <2>1, <2>2, SchedUnchanged DEF SleepqMark, Creating, createVars
<1>6. ASSUME NEW c \in CPUs, SleepqLink(c) PROVE SchedInv'
  <2>1. \A d \in CPUs : Holds(d)' = Holds(d)
    BY <1>6 DEF SleepqLink, MoveTo, Holds, TypeInv, TypeOK
  <2>2. QED
    BY <1>6, <2>1, SchedUnchanged DEF SleepqLink, Creating, createVars
<1>7. ASSUME NEW c \in CPUs, ThreadSwitch(c) PROVE SchedInv'
  <2>1. \A d \in CPUs : Holds(d)' = Holds(d)
    BY <1>7 DEF ThreadSwitch, MoveTo, Holds, TypeInv, TypeOK
  <2>2. \A t \in Tids : Creating(t)' => Creating(t)
    BY <1>7 DEF ThreadSwitch, Creating, TypeInv, TypeOK
  <2>3. QED
    BY <1>7, <2>1, <2>2, SchedUnchanged DEF ThreadSwitch, createVars
<1>8. ASSUME NEW c \in CPUs, NEW r \in Resources, NEW all \in BOOLEAN,
             NEW handler \in BOOLEAN, StartWake(c, r, all, handler)
      PROVE  SchedInv'
  <2>1. \A d \in CPUs : Holds(d)' = Holds(d)
    BY <1>8 DEF StartWake, MoveTo, Holds, TypeInv, TypeOK
  <2>2. QED
    BY <1>8, <2>1, SchedUnchanged DEF StartWake, Creating, createVars
<1>9. ASSUME NEW c \in CPUs, WakeFind(c) PROVE SchedInv'
  <2>1. \A d \in CPUs : Holds(d)' = Holds(d)
    BY <1>9 DEF WakeFind, MoveTo, Holds, TypeInv, TypeOK
  <2>2. QED
    BY <1>9, <2>1, SchedUnchanged DEF WakeFind, Creating, createVars
<1>10. ASSUME NEW c \in CPUs, WakeNone(c) PROVE SchedInv'
  <2>1. \A d \in CPUs : Holds(d)' = Holds(d)
    BY <1>10 DEF WakeNone, MoveTo, Holds, TypeInv, TypeOK
  <2>2. QED
    BY <1>10, <2>1, SchedUnchanged DEF WakeNone, Creating, createVars
<1>11. ASSUME NEW c \in CPUs, WakeReady(c) PROVE SchedInv'
  BY <1>11, SchedWakeReady
<1>12. ASSUME NEW c \in CPUs, WakeReturn(c) PROVE SchedInv'
  <2>1. \A d \in CPUs : Holds(d)' = Holds(d)
    BY <1>12 DEF WakeReturn, MoveTo, Holds, TypeInv, TypeOK
  <2>2. QED
    BY <1>12, <2>1, SchedUnchanged DEF WakeReturn, Creating, createVars
<1>13. ASSUME NEW c \in CPUs, NEW t \in Tids, NEW u \in Tids, ThreadCreate(c, t, u)
       PROVE  SchedInv'
  BY <1>13, SchedThreadCreate
<1>14. ASSUME NEW c \in CPUs, NEW t \in Tids, ThreadInitialise(c, t) PROVE SchedInv'
  <2>1. \A d \in CPUs : Holds(d)' = Holds(d)
    BY <1>14 DEF ThreadInitialise, Holds
  <2>2. \A s \in Tids : Creating(s)' => Creating(s)
    BY <1>14 DEF ThreadInitialise, Creating, TypeInv, TypeOK
  <2>3. sleepsOn'[Idle] = sleepsOn[Idle]
    BY <1>14 DEF ThreadInitialise, TypeInv, TypeOK, SchedInv, IdleNeverSleeps
  <2>4. QED
    BY <1>14, <2>1, <2>2, <2>3, SchedUnchanged DEF ThreadInitialise, createVars
<1>15. ASSUME NEW c \in CPUs, NEW t \in Tids, ThreadRun(c, t) PROVE SchedInv'
  BY <1>15, SchedThreadRun
<1>16. ASSUME NEW c \in CPUs, NEW t \in Tids, ThreadFinish(c, t) PROVE SchedInv'
  BY <1>16, SchedThreadFinish
<1>17. CASE UNCHANGED vars
  BY <1>17, SchedUnchanged DEF vars, Holds, Creating
<1>18. QED
  BY <1>1, <1>2, <1>3, <1>4, <1>5, <1>6, <1>7, <1>8, <1>9, <1>10, <1>11, <1>12, <1>13,
     <1>14, <1>15, <1>16, <1>17
  DEF Next, SchedulerStep, SleepqStep, ThreadStep, WakeCall

LEMMA Invariance == Spec => [](TypeInv /\ SchedInv)
<1>1. Init => TypeInv /\ SchedInv
  BY TypeInit, SchedInit
<1>2. TypeInv /\ SchedInv /\ [Next]_vars => (TypeInv /\ SchedInv)'
  BY TypeStep, SchedStep
<1>3. QED
  BY <1>1, <1>2, PTL DEF Spec

\* No two CPUs ever execute the same thread (thread.c, scheduler.c:186-218).
THEOREM OneCpuPerThreadAlways == Spec => []OneCpuPerThread
<1>1. SchedInv => OneCpuPerThread
  BY DEF SchedInv
<1>2. QED
  BY <1>1, Invariance, PTL

\* The ready list holds the READY threads, each once: what
\* scheduler_remove_first_ready asserts always holds.
THEOREM ReadyListExactAlways == Spec => []ReadyListExact
<1>1. SchedInv => ReadyListExact
  BY DEF SchedInv
<1>2. QED
  BY <1>1, Invariance, PTL

-----------------------------------------------------------------------------
\* The life cycle of a thread, from the same invariant: each handler moves a
\* thread along one of the edges of thread.h.

\* What ThreadLifeCycle says of one step.
OnEdges == \A t \in Tids : threadState'[t] # threadState[t] =>
                               <<threadState[t], threadState'[t]>> \in Edges

LEMMA EdgesSchedule ==
    ASSUME TypeInv, SchedInv, NEW c \in CPUs, Schedule(c)
    PROVE  OnEdges
<1> DEFINE t == currentThread[c]
           first == Picked(c)
           left == LeftStates(c)
<1>1. /\ t \in Tids /\ Idle \in Tids
      /\ t # Idle => threadState[t] \in {"RUNNING", "DYING"}
      /\ t = Idle => StateLeft(t) = "READY"
      /\ first \in Tids
      /\ first # Idle => left[first] = "READY"
      /\ threadState' = [left EXCEPT ![first] = "RUNNING"]
  BY SchedulePicks
<1>2. /\ left = [threadState EXCEPT ![t] = StateLeft(t)]
      /\ threadState \in [Tids -> States]
      /\ threadState[Idle] \in {"READY", "RUNNING"}
  BY DEF LeftStates, TypeInv, TypeOK, SchedInv, IdleNeverSleeps
<1> SUFFICES ASSUME NEW u \in Tids, threadState'[u] # threadState[u]
             PROVE  <<threadState[u], threadState'[u]>> \in Edges
  BY DEF OnEdges
<1>3. CASE u = first
  <2>1. threadState'[u] = "RUNNING"
    BY <1>1, <1>2, <1>3
  <2>2. CASE first = Idle
    BY <1>2, <1>3, <2>1, <2>2 DEF Edges
  <2>3. CASE first # Idle /\ first # t
    BY <1>1, <1>2, <1>3, <2>1, <2>3 DEF Edges
  <2>4. CASE first # Idle /\ first = t
    <3>1. StateLeft(t) = "READY"
      BY <1>1, <1>2, <2>4
    <3>2. threadState[t] = "RUNNING"
      BY <1>1, <2>4, <3>1 DEF StateLeft
    <3>3. QED
      BY <1>3, <2>1, <2>4, <3>2
  <2>5. QED
    BY <2>2, <2>3, <2>4
<1>4. CASE u # first /\ u = t
  <2>1. threadState'[t] = StateLeft(t)
    BY <1>1, <1>2, <1>4
  <2>2. CASE t = Idle
    BY <1>1, <1>2, <1>4, <2>1, <2>2 DEF Edges
  <2>3. CASE t # Idle /\ threadState[t] = "DYING"
    BY <1>4, <2>1, <2>3 DEF StateLeft, Edges
  <2>4. CASE t # Idle /\ threadState[t] = "RUNNING"
    BY <1>4, <2>1, <2>4 DEF StateLeft, Edges
  <2>5. QED
    BY <1>1, <2>2, <2>3, <2>4
<1>5. CASE u # first /\ u # t
  BY <1>1, <1>2, <1>5
<1>6. QED
  BY <1>3, <1>4, <1>5

LEMMA EdgesStep == TypeInv /\ SchedInv /\ [Next]_vars => OnEdges
<1> SUFFICES ASSUME TypeInv, SchedInv, [Next]_vars PROVE OnEdges
  OBVIOUS
<1>1. ASSUME NEW c \in CPUs, Schedule(c) PROVE OnEdges
  BY <1>1, EdgesSchedule
<1>2. ASSUME NEW c \in CPUs, WakeReady(c) PROVE OnEdges
  BY <1>2 DEF WakeReady, OnEdges, Edges, TypeInv, TypeOK
<1>3. ASSUME NEW c \in CPUs, NEW t \in Tids, NEW u \in Tids, ThreadCreate(c, t, u)
      PROVE  OnEdges
  BY <1>3 DEF ThreadCreate, FreeRows, OnEdges, Edges, TypeInv, TypeOK
<1>4. ASSUME NEW c \in CPUs, NEW t \in Tids, ThreadRun(c, t) PROVE OnEdges
  <2>1. threadState[child[t]] = "NONREADY"
    BY <1>4 DEF ThreadRun, SchedInv, ChildrenApart, Creating
  <2>2. QED
    BY <1>4, <2>1 DEF ThreadRun, OnEdges, Edges, TypeInv, TypeOK
<1>5. ASSUME NEW c \in CPUs, NEW t \in Tids, ThreadFinish(c, t) PROVE OnEdges
  <2>1. threadState[t] \in {"RUNNING", "DYING"}
    BY <1>5, ExecutesHeld DEF ThreadFinish
  <2>2. QED
    BY <1>5, <2>1 DEF ThreadFinish, OnEdges, Edges, TypeInv, TypeOK
<1>6. CASE UNCHANGED threadState
  BY <1>6 DEF OnEdges
<1>7. QED
  BY <1>1, <1>2, <1>3, <1>4, <1>5, <1>6
  DEF Next, SchedulerStep, SleepqStep, ThreadStep, WakeCall, Dispatch, TimerInterrupt,
      SoftwareInterrupt, SleepqMark, SleepqLink, ThreadSwitch, StartWake, WakeFind,
      WakeNone, WakeReturn, ThreadInitialise, vars

\* A thread changes state only along the edges of thread.h:47-54: only a wake-up
\* ends a sleep, and a dying thread never runs again.
THEOREM ThreadLifeCycleAlways == Spec => ThreadLifeCycle
<1>1. TypeInv /\ SchedInv /\ [Next]_vars => [OnEdges]_vars
  BY EdgesStep
<1>2. Spec => [][OnEdges]_vars
  BY <1>1, Invariance, PTL DEF Spec
<1>3. QED
  BY <1>2 DEF ThreadLifeCycle, OnEdges

-----------------------------------------------------------------------------
\* No lost sleeper.  A thread wants to sleep from the moment sleepq_add writes
\* sleeps_on, before it is in a chain; so the invariant speaks of the threads
\* that want to sleep, asleep or not.

\* CPU c is in sleepq_add for t, before sleepq_slock is taken.
Marking(t) == \E c \in CPUs : mode[c] = "mark" /\ currentThread[c] = t

Chained(t) == t \in Elements(hashtable[Hash[sleepsOn[t]]])

\* A thread that wants to sleep is on its way into a chain, in it, or being woken.
WantersFindable ==
    \A t \in Tids : sleepsOn[t] \in Resources => Marking(t) \/ Chained(t) \/ InHand(t)

\* A thread that sleeps wants to.
SleepersWant == \A t \in Tids : threadState[t] = "SLEEPING" => sleepsOn[t] \in Resources

SleepInv == WantersFindable /\ SleepersWant

LEMMA SleepInit == Init => SleepInv
BY SchedulerAssumption DEF Init, SleepInv, WantersFindable, SleepersWant

\* A step of CPU c that leaves the sleep queue alone and c neither in sleepq_add
\* nor with a thread in hand, as it was before.
LEMMA WantersUnchanged ==
    ASSUME TypeInv, WantersFindable, NEW c \in CPUs,
           mode[c] \notin {"mark", "ready"},
           \A d \in CPUs \ {c} : /\ mode'[d] = mode[d]
                                 /\ currentThread'[d] = currentThread[d]
                                 /\ target'[d] = target[d],
           UNCHANGED hashtable,
           \A t \in Tids : sleepsOn'[t] = sleepsOn[t] \/ sleepsOn'[t] \notin Resources
    PROVE  WantersFindable'
<1> SUFFICES ASSUME NEW t \in Tids, sleepsOn'[t] \in Resources
             PROVE  Marking(t)' \/ Chained(t)' \/ InHand(t)'
  BY DEF WantersFindable
<1>1. sleepsOn'[t] = sleepsOn[t]
  OBVIOUS
<1>2. CASE Marking(t)
  BY <1>2 DEF Marking
<1>3. CASE Chained(t)
  BY <1>1, <1>3 DEF Chained
<1>4. CASE InHand(t)
  BY <1>4 DEF InHand
<1>5. QED
  BY <1>1, <1>2, <1>3, <1>4 DEF WantersFindable

LEMMA WantersStep == TypeInv /\ SchedInv /\ SleepInv /\ [Next]_vars => WantersFindable'
<1> SUFFICES ASSUME TypeInv, SchedInv, SleepInv, [Next]_vars PROVE WantersFindable'
  OBVIOUS
<1>0. /\ WantersFindable /\ mode \in [CPUs -> Modes]
      /\ sleepsOn \in [Tids -> Resources \cup {NoResource}]
      /\ currentThread \in [CPUs -> Tids] /\ target \in [CPUs -> Tids]
      /\ NoResource \notin Resources
  BY SchedulerAssumption DEF SleepInv, TypeInv, TypeOK
<1>1. ASSUME NEW c \in CPUs,
             \/ Schedule(c) \/ Dispatch(c) \/ TimerInterrupt(c) \/ SoftwareInterrupt(c)
             \/ ThreadSwitch(c) \/ WakeNone(c) \/ WakeReturn(c)
      PROVE  WantersFindable'
  <2>1. mode[c] \notin {"mark", "ready"}
    BY <1>1 DEF Schedule, Dispatch, TimerInterrupt, SoftwareInterrupt, Executes,
                ThreadSwitch, WakeNone, WakeReturn
  <2>2. \A d \in CPUs \ {c} : /\ mode'[d] = mode[d]
                              /\ currentThread'[d] = currentThread[d]
                              /\ target'[d] = target[d]
    BY <1>0, <1>1
    DEF Schedule, Dispatch, TimerInterrupt, SoftwareInterrupt, ThreadSwitch, WakeNone,
        WakeReturn, MoveTo
  <2>3. UNCHANGED <<hashtable, sleepsOn>>
    BY <1>1 DEF Schedule, Dispatch, TimerInterrupt, SoftwareInterrupt, ThreadSwitch,
                WakeNone, WakeReturn
  <2>4. QED
    BY <1>0, <2>1, <2>2, <2>3, WantersUnchanged
<1>2. ASSUME NEW c \in CPUs, NEW r \in Resources, NEW all \in BOOLEAN,
             NEW handler \in BOOLEAN, StartWake(c, r, all, handler)
      PROVE  WantersFindable'
  <2>1. mode[c] \notin {"mark", "ready"} /\ UNCHANGED <<hashtable, sleepsOn>>
    BY <1>2 DEF StartWake
  <2>2. \A d \in CPUs \ {c} : /\ mode'[d] = mode[d]
                              /\ currentThread'[d] = currentThread[d]
                              /\ target'[d] = target[d]
    BY <1>0, <1>2 DEF StartWake, MoveTo
  <2>3. QED
    BY <1>0, <2>1, <2>2, WantersUnchanged
<1>3. ASSUME NEW c \in CPUs, NEW t \in Tids, NEW r \in Resources, SleepqMark(c, t, r)
      PROVE  WantersFindable'
  <2> SUFFICES ASSUME NEW u \in Tids, sleepsOn'[u] \in Resources
               PROVE  Marking(u)' \/ Chained(u)' \/ InHand(u)'
    BY DEF WantersFindable
  <2>1. CASE u = t
    BY <1>0, <1>3, <2>1 DEF SleepqMark, Executes, MoveTo, Marking
  <2>2. CASE u # t
    <3>1. sleepsOn'[u] = sleepsOn[u] /\ mode[c] = "thread"
      BY <1>0, <1>3, <2>2 DEF SleepqMark, Executes
    <3>2. Marking(u) => Marking(u)'
      BY <1>0, <1>3, <3>1 DEF SleepqMark, MoveTo, Marking
    <3>3. Chained(u) => Chained(u)'
      BY <1>3, <3>1 DEF SleepqMark, Chained
    <3>4. InHand(u) => InHand(u)'
      BY <1>0, <1>3, <3>1 DEF SleepqMark, MoveTo, InHand
    <3>5. QED
      BY <1>0, <3>1, <3>2, <3>3, <3>4 DEF WantersFindable
  <2>3. QED
    BY <2>1, <2>2
<1>4. ASSUME NEW c \in CPUs, SleepqLink(c) PROVE WantersFindable'
  <2> DEFINE t == currentThread[c]
             b == Hash[sleepsOn[t]]
  <2> SUFFICES ASSUME NEW u \in Tids, sleepsOn[u] \in Resources
               PROVE  Marking(u)' \/ Chained(u)' \/ InHand(u)'
    BY <1>4 DEF WantersFindable, SleepqLink
  <2>1. /\ hashtable' = [hashtable EXCEPT ![b] = Append(@, t)]
        /\ mode' = [mode EXCEPT ![c] = "linked"] /\ mode[c] = "mark"
        /\ UNCHANGED <<sleepsOn, currentThread, target>>
    BY <1>4 DEF SleepqLink, MoveTo
  <2>2. /\ hashtable \in [Buckets -> Seq(Tids)] /\ t \in Tids
        /\ Hash[sleepsOn[u]] \in Buckets
    BY SchedulerAssumption DEF TypeInv, TypeOK
  <2>3. \A e \in Buckets : Elements(hashtable[e]) \subseteq Elements(hashtable'[e])
    <3> SUFFICES ASSUME NEW e \in Buckets
                 PROVE  Elements(hashtable[e]) \subseteq Elements(hashtable'[e])
      OBVIOUS
    <3>1. Elements(Append(hashtable[e], t)) = Elements(hashtable[e]) \cup {t}
      BY <2>2, AppendElements
    <3>2. QED
      BY <2>1, <2>2, <3>1
  <2>4. CASE u = t
    <3>1. hashtable'[b] = Append(hashtable[b], t)
      BY <2>1, <2>2, <2>4
    <3>2. t \in Elements(hashtable'[b])
      BY <2>2, <2>4, <3>1, AppendElements
    <3>3. QED
      BY <2>1, <2>4, <3>2 DEF Chained
  <2>5. CASE u # t
    <3>1. Marking(u) => Marking(u)'
      BY <1>0, <2>1, <2>5 DEF Marking
    <3>2. Chained(u) => Chained(u)'
      BY <2>1, <2>2, <2>3 DEF Chained
    <3>3. InHand(u) => InHand(u)'
      BY <1>0, <2>1 DEF InHand
    <3>4. QED
      BY <1>0, <3>1, <3>2, <3>3 DEF WantersFindable
  <2>6. QED
    BY <2>4, <2>5
<1>5. ASSUME NEW c \in CPUs, WakeFind(c) PROVE WantersFindable'
  <2> DEFINE b == Hash[wakes[c]]
  <2>1. PICK i \in Waiting(b, wakes[c]) :
            /\ target' = [target EXCEPT ![c] = hashtable[b][i]]
            /\ hashtable' = [hashtable EXCEPT ![b] = RemoveIndex(@, i)]
    BY <1>5 DEF WakeFind
  <2>2. /\ mode' = [mode EXCEPT ![c] = "ready"] /\ mode[c] = "wake"
        /\ UNCHANGED <<sleepsOn, currentThread>>
    BY <1>5 DEF WakeFind, MoveTo
  <2>3. /\ b \in Buckets /\ hashtable \in [Buckets -> Seq(Tids)]
        /\ hashtable[b] \in Seq(Tids) /\ i \in DOMAIN hashtable[b]
    BY <2>2, SchedulerAssumption DEF TypeInv, TypeOK, WakesSomething, Waiting
  <2> SUFFICES ASSUME NEW u \in Tids, sleepsOn[u] \in Resources
               PROVE  Marking(u)' \/ Chained(u)' \/ InHand(u)'
    BY <2>2 DEF WantersFindable
  <2>4. CASE u = hashtable[b][i]
    <3>1. mode'[c] = "ready" /\ target'[c] = u
      BY <1>0, <2>1, <2>2, <2>4
    <3>2. QED
      BY <3>1 DEF InHand
  <2>5. CASE u # hashtable[b][i]
    <3>1. Marking(u) => Marking(u)'
      BY <1>0, <2>2 DEF Marking
    <3>2. Chained(u) => Chained(u)'
      <4> SUFFICES ASSUME Chained(u) PROVE Chained(u)'
        OBVIOUS
      <4>1. CASE Hash[sleepsOn[u]] = b
        <5>1. u \in Elements(RemoveIndex(hashtable[b], i))
          BY <2>3, <2>5, <4>1, RemoveIndexKeeps DEF Chained
        <5>2. QED
          BY <2>1, <2>2, <2>3, <4>1, <5>1 DEF Chained
      <4>2. CASE Hash[sleepsOn[u]] # b
        BY <2>1, <2>2, <2>3, <4>2, SchedulerAssumption DEF Chained
      <4>3. QED
        BY <4>1, <4>2
    <3>3. InHand(u) => InHand(u)'
      BY <1>0, <2>1, <2>2 DEF InHand
    <3>4. QED
      BY <1>0, <3>1, <3>2, <3>3 DEF WantersFindable
  <2>6. QED
    BY <2>4, <2>5
<1>6. ASSUME NEW c \in CPUs, WakeReady(c) PROVE WantersFindable'
  <2>1. /\ sleepsOn' = [sleepsOn EXCEPT ![target[c]] = NoResource]
        /\ target' = [target EXCEPT ![c] = Idle]
        /\ mode[c] = "ready"
        /\ \A d \in CPUs \ {c} : mode'[d] = mode[d]
        /\ UNCHANGED <<hashtable, currentThread>>
    BY <1>0, <1>6 DEF WakeReady, WakeContinue, MoveTo
  <2> SUFFICES ASSUME NEW u \in Tids, sleepsOn'[u] \in Resources
               PROVE  Marking(u)' \/ Chained(u)' \/ InHand(u)'
    BY DEF WantersFindable
  <2>2. u # target[c] /\ sleepsOn'[u] = sleepsOn[u]
    BY <1>0, <2>1
  <2>3. Marking(u) => Marking(u)'
    BY <2>1 DEF Marking
  <2>4. Chained(u) => Chained(u)'
    BY <2>1, <2>2 DEF Chained
  <2>5. InHand(u) => InHand(u)'
    BY <1>0, <2>1, <2>2 DEF InHand
  <2>6. QED
    BY <1>0, <2>2, <2>3, <2>4, <2>5 DEF WantersFindable
<1>7. ASSUME NEW c \in CPUs, NEW t \in Tids,
             \/ \E u \in Tids : ThreadCreate(c, t, u)
             \/ ThreadInitialise(c, t) \/ ThreadRun(c, t) \/ ThreadFinish(c, t)
      PROVE  WantersFindable'
  <2>1. mode[c] \notin {"mark", "ready"} /\ UNCHANGED <<hashtable, mode, currentThread, target>>
    BY <1>7 DEF ThreadCreate, ThreadInitialise, ThreadRun, ThreadFinish, Executes
  <2>2. \A u \in Tids : sleepsOn'[u] = sleepsOn[u] \/ sleepsOn'[u] \notin Resources
    BY <1>0, <1>7 DEF ThreadCreate, ThreadInitialise, ThreadRun, ThreadFinish
  <2>3. QED
    BY <1>0, <2>1, <2>2, WantersUnchanged
<1>8. CASE UNCHANGED vars
  BY <1>0, <1>8 DEF vars, WantersFindable, Marking, Chained, InHand
<1>9. QED
  BY <1>1, <1>2, <1>3, <1>4, <1>5, <1>6, <1>7, <1>8
  DEF Next, SchedulerStep, SleepqStep, ThreadStep, WakeCall

LEMMA SleepersWantStep == TypeInv /\ SchedInv /\ SleepInv /\ [Next]_vars => SleepersWant'
<1> SUFFICES ASSUME TypeInv, SchedInv, SleepInv, [Next]_vars PROVE SleepersWant'
  OBVIOUS
<1>0. /\ SleepersWant
      /\ sleepsOn \in [Tids -> Resources \cup {NoResource}]
      /\ threadState \in [Tids -> States]
  BY DEF SleepInv, TypeInv, TypeOK
<1>1. ASSUME NEW c \in CPUs, Schedule(c) PROVE SleepersWant'
  <2>1. /\ threadState' = [LeftStates(c) EXCEPT ![Picked(c)] = "RUNNING"]
        /\ LeftStates(c) \in [Tids -> States]
    BY <1>1, SchedulePicks
  <2>2. \A t \in Tids : LeftStates(c)[t] = "SLEEPING" => sleepsOn[t] \in Resources
    BY <1>0 DEF LeftStates, StateLeft, SleepersWant
  <2>3. QED
    BY <1>1, <2>1, <2>2 DEF Schedule, SleepersWant
<1>2. ASSUME NEW c \in CPUs, NEW t \in Tids, NEW r \in Resources, SleepqMark(c, t, r)
      PROVE  SleepersWant'
  BY <1>0, <1>2 DEF SleepqMark, SleepersWant
<1>3. ASSUME NEW c \in CPUs, WakeReady(c) PROVE SleepersWant'
  BY <1>0, <1>3 DEF WakeReady, SleepersWant, TypeInv, TypeOK
<1>4. ASSUME NEW c \in CPUs, NEW t \in Tids, ThreadInitialise(c, t) PROVE SleepersWant'
  <2>1. threadState[child[t]] = "NONREADY"
    BY <1>4 DEF ThreadInitialise, SchedInv, ChildrenApart, Creating
  <2>2. QED
    BY <1>0, <1>4, <2>1 DEF ThreadInitialise, SleepersWant
<1>5. ASSUME NEW c \in CPUs, NEW t \in Tids,
             \/ \E u \in Tids : ThreadCreate(c, t, u)
             \/ ThreadRun(c, t) \/ ThreadFinish(c, t)
      PROVE  SleepersWant'
  BY <1>0, <1>5 DEF ThreadCreate, ThreadRun, ThreadFinish, SleepersWant
<1>6. CASE UNCHANGED <<threadState, sleepsOn>>
  BY <1>0, <1>6 DEF SleepersWant
<1>7. QED
  BY <1>1, <1>2, <1>3, <1>4, <1>5, <1>6
  DEF Next, SchedulerStep, SleepqStep, ThreadStep, WakeCall, Dispatch, TimerInterrupt,
      SoftwareInterrupt, SleepqLink, ThreadSwitch, StartWake, WakeFind, WakeNone,
      WakeReturn, vars

\* No sleeper is lost (sleepq.c:99-206): a sleeping thread is in the chain of what
\* it waits for, or a wake-up has it in hand.
THEOREM SleepersFindableAlways == Spec => []SleepersFindable
<1>1. Spec => []SleepInv
  <2>1. Init => SleepInv
    BY SleepInit
  <2>2. TypeInv /\ SchedInv /\ SleepInv /\ [Next]_vars => SleepInv'
    BY WantersStep, SleepersWantStep DEF SleepInv
  <2>3. QED
    BY <2>1, <2>2, Invariance, PTL DEF Spec
<1>2. TypeInv /\ SchedInv /\ SleepInv => SleepersFindable
  <2> SUFFICES ASSUME TypeInv, SchedInv, SleepInv,
                      NEW t \in Tids, threadState[t] = "SLEEPING"
               PROVE  sleepsOn[t] \in Resources /\ (Chained(t) \/ InHand(t))
    BY DEF SleepersFindable, Chained
  <2>1. sleepsOn[t] \in Resources
    BY DEF SleepInv, SleepersWant
  <2>2. t # Idle
    BY DEF SchedInv, IdleNeverSleeps
  <2>3. ~Marking(t)
    BY <2>2, OthersNotHeld DEF Marking, Holds
  <2>4. QED
    BY <2>1, <2>3 DEF SleepInv, WantersFindable
<1>3. QED
  BY <1>1, <1>2, Invariance, PTL

-----------------------------------------------------------------------------

\* A dying thread stays where thread_finish left it.
DyingStay == \A t \in Tids : threadState[t] = "DYING" => at[t] = "dying"

\* Only threads that are alive and in the middle of thread_create own a new row.
ParentsLive ==
    \A t \in Tids : child[t] # Idle =>
        Creating(t) /\ threadState[t] \in {"READY", "RUNNING", "SLEEPING"}

\* Only a thread that sleeps, or runs and is about to, wants to.
WantersLive ==
    \A t \in Tids : sleepsOn[t] # NoResource => threadState[t] \in {"RUNNING", "SLEEPING"}

\* A thread that a CPU holds wants to sleep only from sleepq_add to the switch.
WantersPlaced ==
    \A c \in CPUs : sleepsOn[Holds(c)] # NoResource =>
        \/ mode[c] \in {"mark", "linked", "schedule"}
        \/ mode[c] \in {"thread", "wake", "ready", "woken"} /\ at[Holds(c)] = "switch"

\* A thread inside sleepq_add, or between it and thread_switch, does nothing else.
AddersRun ==
    \A c \in CPUs : mode[c] \in {"mark", "linked"} =>
        at[currentThread[c]] = "run" /\ currentThread[c] # Idle

LifeInv == DyingStay /\ ParentsLive /\ WantersLive /\ WantersPlaced /\ AddersRun

\* A wake-up that has a thread in hand has sleepq_slock and has not yet cleared
\* the thread's sleeps_on.
HandsLocked ==
    \A c \in CPUs : mode[c] = "ready" =>
        sleepqSlock = c /\ sleepsOn[target[c]] \in Resources

\* A thread between the two halves of sleepq_add is in no chain yet.
MarkedUnchained ==
    \A c \in CPUs : mode[c] = "mark" =>
        /\ sleepsOn[currentThread[c]] \in Resources
        /\ ~InHand(currentThread[c])
        /\ \A b \in Buckets : currentThread[c] \notin Elements(hashtable[b])

ChainInv == HandsLocked /\ MarkedUnchained /\ ChainsExact

-----------------------------------------------------------------------------
LEMMA LifeInit == Init => LifeInv
<1> SUFFICES ASSUME Init PROVE LifeInv
  OBVIOUS
<1>1. \A c \in CPUs : Holds(c) = Idle
  BY DEF Init, Holds
<1>2. QED
  BY <1>1, IdleTid DEF Init, LifeInv, DyingStay, ParentsLive, WantersLive, WantersPlaced,
                            AddersRun, Creating

\* What the invariant says of a thread that executes with interrupts enabled and
\* is not on its way to a switch.
LEMMA ExecutesAwake ==
    ASSUME TypeInv, SchedInv, LifeInv, NEW c \in CPUs, NEW t \in Tids, Executes(c, t),
           at[t] # "switch"
    PROVE  sleepsOn[t] = NoResource /\ (at[t] # "dying" => threadState[t] = "RUNNING")
<1>1. Holds(c) = t /\ mode[c] = "thread" /\ threadState[t] \in {"RUNNING", "DYING"}
  BY ExecutesHeld DEF Executes
<1>2. QED
  BY <1>1 DEF LifeInv, WantersPlaced, DyingStay

\* scheduler_schedule: what it puts away stays alive or is free, and what it picks
\* does not want to sleep.
LEMMA LifeSchedule ==
    ASSUME TypeInv, SchedInv, LifeInv, NEW c \in CPUs, Schedule(c)
    PROVE  LifeInv'
<1> DEFINE t == currentThread[c]
           first == Picked(c)
<1>1. /\ t \in Tids /\ first \in Tids /\ Idle \in Tids
      /\ LeftStates(c) \in [Tids -> States]
      /\ t # Idle => threadState[t] \in {"RUNNING", "DYING"}
      /\ t = Idle => StateLeft(t) = "READY"
      /\ first # Idle => LeftStates(c)[first] = "READY"
      /\ threadState' = [LeftStates(c) EXCEPT ![first] = "RUNNING"]
  BY SchedulePicks
<1>2. /\ UNCHANGED <<sleepsOn, currentThread, at, child>>
      /\ target' = [target EXCEPT ![c] = first]
      /\ mode' = [mode EXCEPT ![c] = "dispatch"]
  BY DEF Schedule, MoveTo, wakeVars, createVars, Picked, LeftQueue
<1>3. /\ threadState \in [Tids -> States] /\ mode \in [CPUs -> Modes]
      /\ target \in [CPUs -> Tids] /\ currentThread \in [CPUs -> Tids]
  BY DEF TypeInv, TypeOK
<1>4. /\ threadState'[first] = "RUNNING"
      /\ t # first => threadState'[t] = StateLeft(t)
      /\ \A u \in Tids \ {t, first} : threadState'[u] = threadState[u]
  BY <1>1, <1>3 DEF LeftStates
<1>5. /\ sleepsOn[first] = NoResource /\ threadState'[first] = "RUNNING"
      /\ child[first] # Idle => Creating(first)
      /\ first # Idle => threadState[first] = "READY" \/ first = t
  BY <1>1, <1>3 DEF SchedInv, IdleNeverSleeps, LifeInv, ParentsLive, WantersLive, LeftStates, StateLeft
<1>6. DyingStay'
  BY <1>1, <1>2, <1>4 DEF LifeInv, DyingStay, StateLeft
<1>7. ParentsLive'
  BY <1>1, <1>2, <1>4, <1>5 DEF LifeInv, ParentsLive, DyingStay, Creating, StateLeft
<1>8. WantersLive'
  BY <1>1, <1>2, <1>4, <1>5 DEF LifeInv, WantersLive, StateLeft
<1>9. WantersPlaced'
  <2>1. Holds(c)' = first
    BY <1>2, <1>3 DEF Holds
  <2>2. \A d \in CPUs \ {c} : Holds(d)' = Holds(d) /\ mode'[d] = mode[d]
    BY <1>2, <1>3 DEF Holds
  <2>3. QED
    BY <1>2, <1>5, <2>1, <2>2 DEF LifeInv, WantersPlaced
<1>10. AddersRun'
  BY <1>2, <1>3 DEF LifeInv, AddersRun
<1>11. QED
  BY <1>6, <1>7, <1>8, <1>9, <1>10 DEF LifeInv

\* A step of a CPU that leaves the states, the rows and what the CPUs hold alone,
\* and moves no held thread but its own, preserves the invariant.
LEMMA LifeQuiet ==
    ASSUME TypeInv, LifeInv, NEW c \in CPUs,
           UNCHANGED <<threadState, currentThread, child>>,
           \A t \in Tids : sleepsOn'[t] \in {sleepsOn[t], NoResource},
           \A d \in CPUs : Holds(d)' = Holds(d),
           \A d \in CPUs \ {c} : mode'[d] = mode[d] /\ at'[Holds(d)] = at[Holds(d)],
           \A t \in Tids : at'[t] = at[t] \/ at[t] \in {"run", "switch"},
           sleepsOn'[Holds(c)] # NoResource =>
               \/ mode'[c] \in {"mark", "linked", "schedule"}
               \/ mode'[c] \in {"thread", "wake", "ready", "woken"} /\ at'[Holds(c)] = "switch",
           mode'[c] \in {"mark", "linked"} =>
               at'[currentThread[c]] = "run" /\ currentThread[c] # Idle
    PROVE  LifeInv'
<1>1. DyingStay' /\ ParentsLive' /\ WantersLive'
  BY DEF LifeInv, DyingStay, ParentsLive, WantersLive, Creating
<1>2. WantersPlaced'
  <2>1. ASSUME NEW d \in CPUs \ {c}, sleepsOn'[Holds(d)] # NoResource
        PROVE  \/ mode'[d] \in {"mark", "linked", "schedule"}
               \/ mode'[d] \in {"thread", "wake", "ready", "woken"} /\ at'[Holds(d)] = "switch"
    <3>1. Holds(d) \in Tids /\ sleepsOn[Holds(d)] # NoResource
      BY <2>1, HoldsType
    <3>2. QED
      BY <3>1, <2>1 DEF LifeInv, WantersPlaced
  <2>2. QED
    BY <2>1 DEF WantersPlaced
<1>3. AddersRun'
  BY DEF LifeInv, AddersRun, Holds
<1>4. QED
  BY <1>1, <1>2, <1>3 DEF LifeInv

\* The other steps do not break the invariant either.
LEMMA LifeStep == TypeInv /\ SchedInv /\ LifeInv /\ [Next]_vars => LifeInv'
<1> SUFFICES ASSUME TypeInv, SchedInv, LifeInv, [Next]_vars PROVE LifeInv'
  OBVIOUS
<1> USE IdleTid
<1>0. /\ TypeOK /\ DyingStay /\ ParentsLive /\ WantersLive /\ WantersPlaced /\ AddersRun
      /\ \A c \in CPUs : Holds(c) \in Tids
      /\ sleepsOn[Idle] = NoResource
  BY HoldsType DEF TypeInv, LifeInv, SchedInv, IdleNeverSleeps
<1>1. ASSUME NEW c \in CPUs, Schedule(c) PROVE LifeInv'
  BY <1>1, LifeSchedule
<1>2. ASSUME NEW c \in CPUs, Dispatch(c) PROVE LifeInv'
  <2>1. \A d \in CPUs : Holds(d)' = Holds(d)
    BY <1>0, <1>2 DEF TypeOK, Dispatch, MoveTo, Holds
  <2>2. sleepsOn[Holds(c)] = NoResource
    BY <1>0, <1>2 DEF WantersPlaced, Dispatch
  <2>3. WantersPlaced' /\ AddersRun'
    BY <1>0, <1>2, <2>1, <2>2 DEF TypeOK, WantersPlaced, AddersRun, Dispatch, MoveTo
  <2>4. DyingStay' /\ ParentsLive' /\ WantersLive'
    BY <1>0, <1>2 DEF DyingStay, ParentsLive, WantersLive, Creating, Dispatch, createVars
  <2>5. QED
    BY <2>3, <2>4 DEF LifeInv
<1>3. ASSUME NEW c \in CPUs, TimerInterrupt(c) PROVE LifeInv'
  <2>1. \A d \in CPUs : Holds(d)' = Holds(d)
    BY <1>0, <1>3 DEF TypeOK, TimerInterrupt, MoveTo, Holds
  <2>2. mode' = [mode EXCEPT ![c] = "schedule"] /\ UNCHANGED <<threadState, sleepsOn, currentThread, at, child>>
    BY <1>3 DEF TimerInterrupt, MoveTo, createVars
  <2>3. QED
    BY <1>0, <2>1, <2>2, LifeQuiet DEF TypeOK
<1>4. ASSUME NEW c \in CPUs, SoftwareInterrupt(c) PROVE LifeInv'
  <2>1. PICK t \in Tids : /\ Executes(c, t) /\ at[t] \in {"switch", "dying"}
                          /\ at' = IF at[t] = "switch" THEN [at EXCEPT ![t] = "run"] ELSE at
    BY <1>4 DEF SoftwareInterrupt
  <2>2. /\ Holds(c) = t /\ t # Idle /\ \A d \in CPUs \ {c} : Holds(d) # t
        /\ mode' = [mode EXCEPT ![c] = "schedule"]
        /\ UNCHANGED <<threadState, sleepsOn, currentThread, target, child>>
    BY <1>4, <2>1, ExecutesHeld DEF SoftwareInterrupt, MoveTo, createVars
  <2>3. \A d \in CPUs : Holds(d)' = Holds(d)
    BY <1>0, <2>1, <2>2 DEF TypeOK, Holds, Executes
  <2>4. \A d \in CPUs \ {c} : mode'[d] = mode[d] /\ at'[Holds(d)] = at[Holds(d)]
    BY <1>0, <2>1, <2>2 DEF TypeOK
  <2>5. \A u \in Tids : at'[u] = at[u] \/ at[u] \in {"run", "switch"}
    BY <1>0, <2>1 DEF TypeOK
  <2>6. mode'[c] = "schedule"
    BY <1>0, <2>2 DEF TypeOK
  <2>7. QED
    BY <2>2, <2>3, <2>4, <2>5, <2>6, LifeQuiet
<1>5. ASSUME NEW c \in CPUs, NEW t \in Tids, NEW r \in Resources, SleepqMark(c, t, r)
      PROVE  LifeInv'
  <2>1. /\ Holds(c) = t /\ currentThread[c] = t /\ t # Idle /\ at[t] = "run"
        /\ \A d \in CPUs \ {c} : Holds(d) # t
        /\ threadState[t] = "RUNNING"
        /\ mode' = [mode EXCEPT ![c] = "mark"] /\ sleepsOn' = [sleepsOn EXCEPT ![t] = r]
        /\ UNCHANGED <<threadState, currentThread, target, at, child>>
    BY <1>5, ExecutesHeld, ExecutesAwake DEF SleepqMark, MoveTo, createVars, Executes
  <2>2. \A d \in CPUs : Holds(d)' = Holds(d)
    BY <1>0, <1>5, <2>1 DEF TypeOK, Holds, SleepqMark, Executes
  <2>3. WantersPlaced' /\ AddersRun'
    BY <1>0, <2>1, <2>2 DEF TypeOK, WantersPlaced, AddersRun
  <2>4. DyingStay' /\ ParentsLive' /\ WantersLive'
    BY <1>0, <2>1 DEF TypeOK, DyingStay, ParentsLive, WantersLive, Creating
  <2>5. QED
    BY <2>3, <2>4 DEF LifeInv
<1>6. ASSUME NEW c \in CPUs, SleepqLink(c) PROVE LifeInv'
  <2>1. \A d \in CPUs : Holds(d)' = Holds(d)
    BY <1>0, <1>6 DEF TypeOK, SleepqLink, MoveTo, Holds
  <2>2. /\ mode[c] = "mark" /\ mode' = [mode EXCEPT ![c] = "linked"]
        /\ UNCHANGED <<threadState, sleepsOn, currentThread, at, child>>
    BY <1>6 DEF SleepqLink, MoveTo, createVars
  <2>3. QED
    BY <1>0, <2>1, <2>2, LifeQuiet DEF TypeOK, AddersRun
<1>7. ASSUME NEW c \in CPUs, ThreadSwitch(c) PROVE LifeInv'
  <2>1. /\ mode[c] = "linked" /\ mode' = [mode EXCEPT ![c] = "thread"]
        /\ at' = [at EXCEPT ![currentThread[c]] = "switch"]
        /\ UNCHANGED <<threadState, sleepsOn, currentThread, target, child>>
    BY <1>7 DEF ThreadSwitch, MoveTo, createVars
  <2>2. /\ at[currentThread[c]] = "run" /\ currentThread[c] # Idle /\ Holds(c) = currentThread[c]
        /\ currentThread[c] \in Tids
    BY <1>0, <2>1 DEF AddersRun, Holds, TypeOK
  <2>3. \A d \in CPUs : Holds(d)' = Holds(d)
    BY <1>0, <2>1 DEF TypeOK, Holds
  <2>4. \A d \in CPUs \ {c} : mode'[d] = mode[d] /\ at'[Holds(d)] = at[Holds(d)]
    BY <1>0, <2>1, <2>2 DEF TypeOK, SchedInv, OneCpuPerThread
  <2>5. \A u \in Tids : at'[u] = at[u] \/ at[u] \in {"run", "switch"}
    BY <1>0, <2>1, <2>2 DEF TypeOK
  <2>6. mode'[c] = "thread" /\ at'[Holds(c)] = "switch"
    BY <1>0, <2>1, <2>2 DEF TypeOK
  <2>7. QED
    BY <2>1, <2>3, <2>4, <2>5, <2>6, LifeQuiet
<1>8. ASSUME NEW c \in CPUs, NEW r \in Resources, NEW all \in BOOLEAN,
             NEW handler \in BOOLEAN, StartWake(c, r, all, handler)
      PROVE  LifeInv'
  <2>1. /\ mode[c] = "thread" /\ mode' = [mode EXCEPT ![c] = "wake"]
        /\ UNCHANGED <<threadState, sleepsOn, currentThread, target, at, child>>
    BY <1>8 DEF StartWake, MoveTo, createVars
  <2>2. \A d \in CPUs : Holds(d)' = Holds(d)
    BY <1>0, <2>1 DEF TypeOK, Holds
  <2>3. QED
    BY <1>0, <2>1, <2>2, LifeQuiet DEF TypeOK, WantersPlaced
<1>9. ASSUME NEW c \in CPUs, WakeFind(c) \/ WakeNone(c) PROVE LifeInv'
  <2>1. /\ mode[c] = "wake"
        /\ mode' = [mode EXCEPT ![c] = "ready"] \/ mode' = [mode EXCEPT ![c] = "woken"]
        /\ UNCHANGED <<threadState, sleepsOn, currentThread, at, child>>
    BY <1>9 DEF WakeFind, WakeNone, MoveTo, createVars
  <2>2. \A d \in CPUs : Holds(d)' = Holds(d)
    <3>1. mode'[c] # "dispatch" /\ \A d \in CPUs \ {c} : mode'[d] = mode[d] /\ target'[d] = target[d]
      BY <1>0, <1>9, <2>1 DEF TypeOK, WakeFind, WakeNone
    <3>2. QED
      BY <2>1, <3>1 DEF Holds
  <2>3. QED
    BY <1>0, <2>1, <2>2, LifeQuiet DEF TypeOK, WantersPlaced
<1>10. ASSUME NEW c \in CPUs, WakeReady(c) PROVE LifeInv'
  <2> DEFINE t == target[c]
  <2>1. /\ mode[c] = "ready" /\ t \in Tids
        /\ mode' = [mode EXCEPT ![c] = "wake"] \/ mode' = [mode EXCEPT ![c] = "woken"]
        /\ sleepsOn' = [sleepsOn EXCEPT ![t] = NoResource]
        /\ \/ threadState[t] = "SLEEPING" /\ threadState' = [threadState EXCEPT ![t] = "READY"]
           \/ threadState[t] # "SLEEPING" /\ threadState' = threadState
        /\ target' = [target EXCEPT ![c] = Idle]
        /\ UNCHANGED <<currentThread, at, child>>
    BY <1>0, <1>10 DEF TypeOK, WakeReady, WakeContinue, MoveTo, createVars
  <2>2. \A d \in CPUs : Holds(d)' = Holds(d)
    BY <1>0, <2>1 DEF TypeOK, Holds
  <2>3. DyingStay' /\ ParentsLive' /\ WantersLive'
    BY <1>0, <2>1 DEF TypeOK, DyingStay, ParentsLive, WantersLive, Creating
  <2>4. WantersPlaced' /\ AddersRun'
    <3>1. \A d \in CPUs : mode'[d] = mode[d] \/ (d = c /\ mode'[c] \in {"wake", "woken"})
      BY <1>0, <2>1 DEF TypeOK
    <3>2. \A d \in CPUs : sleepsOn'[Holds(d)] \in {sleepsOn[Holds(d)], NoResource}
      BY <1>0, <2>1 DEF TypeOK
    <3>3. WantersPlaced'
      BY <1>0, <2>1, <2>2, <3>1, <3>2 DEF WantersPlaced
    <3>4. AddersRun'
      BY <1>0, <2>1, <3>1 DEF AddersRun
    <3>5. QED
      BY <3>3, <3>4
  <2>5. QED
    BY <2>3, <2>4 DEF LifeInv
<1>11. ASSUME NEW c \in CPUs, WakeReturn(c) PROVE LifeInv'
  <2>1. /\ mode[c] = "woken"
        /\ mode' = [mode EXCEPT ![c] = "thread"] \/ mode' = [mode EXCEPT ![c] = "schedule"]
        /\ UNCHANGED <<threadState, sleepsOn, currentThread, target, at, child>>
    BY <1>11 DEF WakeReturn, MoveTo, createVars
  <2>2. \A d \in CPUs : Holds(d)' = Holds(d)
    BY <1>0, <2>1 DEF TypeOK, Holds
  <2>3. QED
    BY <1>0, <2>1, <2>2, LifeQuiet DEF TypeOK, WantersPlaced
<1>12. ASSUME NEW c \in CPUs, NEW t \in Tids, NEW u \in Tids, ThreadCreate(c, t, u)
       PROVE  LifeInv'
  <2>1. /\ Holds(c) = t /\ mode[c] = "thread" /\ sleepsOn[t] = NoResource
        /\ threadState[t] = "RUNNING" /\ at[t] = "run"
        /\ \A d \in CPUs \ {c} : Holds(d) # t
        /\ u # Idle /\ threadState[u] = "FREE"
        /\ threadState' = [threadState EXCEPT ![u] = "NONREADY"]
        /\ child' = [child EXCEPT ![t] = u] /\ at' = [at EXCEPT ![t] = "created"]
        /\ UNCHANGED <<sleepsOn, currentThread, mode, target>>
    BY <1>12, ExecutesHeld, ExecutesAwake DEF ThreadCreate, FreeRows, Executes
  <2>2. \A d \in CPUs : Holds(d)' = Holds(d)
    BY <2>1 DEF Holds
  <2>3. DyingStay' /\ ParentsLive' /\ WantersLive'
    BY <1>0, <2>1 DEF TypeOK, DyingStay, ParentsLive, WantersLive, Creating
  <2>4. WantersPlaced' /\ AddersRun'
    BY <1>0, <2>1, <2>2 DEF TypeOK, WantersPlaced, AddersRun, Holds
  <2>5. QED
    BY <2>3, <2>4 DEF LifeInv
<1>13. ASSUME NEW c \in CPUs, NEW t \in Tids, ThreadInitialise(c, t) PROVE LifeInv'
  <2> DEFINE u == child[t]
  <2>1. /\ Holds(c) = t /\ mode[c] = "thread" /\ sleepsOn[t] = NoResource
        /\ threadState[t] = "RUNNING" /\ at[t] = "created"
        /\ \A d \in CPUs \ {c} : Holds(d) # t
        /\ sleepsOn' = [sleepsOn EXCEPT ![u] = NoResource]
        /\ at' = [at EXCEPT ![t] = "initialised", ![u] = "run"]
        /\ UNCHANGED <<threadState, currentThread, mode, target, child>>
    BY <1>13, ExecutesHeld, ExecutesAwake DEF ThreadInitialise, Executes, createVars
  <2>2. u \in Tids /\ u # Idle /\ u # t /\ threadState[u] = "NONREADY"
    BY <1>0, <2>1 DEF TypeOK, SchedInv, ChildrenApart, Creating
  <2>3. \A d \in CPUs : Holds(d)' = Holds(d) /\ Holds(d) # u
    BY <2>1, <2>2, OthersNotHeld DEF Holds
  <2>4. DyingStay' /\ ParentsLive' /\ WantersLive'
    BY <1>0, <2>1, <2>2 DEF TypeOK, DyingStay, ParentsLive, WantersLive, Creating
  <2>5. WantersPlaced' /\ AddersRun'
    BY <1>0, <2>1, <2>2, <2>3 DEF TypeOK, WantersPlaced, AddersRun, Holds
  <2>6. QED
    BY <2>4, <2>5 DEF LifeInv
<1>14. ASSUME NEW c \in CPUs, NEW t \in Tids, ThreadRun(c, t) PROVE LifeInv'
  <2> DEFINE u == child[t]
  <2>1. /\ Holds(c) = t /\ mode[c] = "thread" /\ sleepsOn[t] = NoResource
        /\ threadState[t] = "RUNNING" /\ at[t] = "initialised"
        /\ \A d \in CPUs \ {c} : Holds(d) # t
        /\ threadState' = [threadState EXCEPT ![u] = "READY"]
        /\ child' = [child EXCEPT ![t] = Idle] /\ at' = [at EXCEPT ![t] = "run"]
        /\ UNCHANGED <<sleepsOn, currentThread, mode, target>>
    BY <1>14, ExecutesHeld, ExecutesAwake DEF ThreadRun, Executes
  <2>2. u \in Tids /\ u # Idle /\ u # t /\ threadState[u] = "NONREADY"
    BY <1>0, <2>1 DEF TypeOK, SchedInv, ChildrenApart, Creating
  <2>3. \A d \in CPUs : Holds(d)' = Holds(d)
    BY <2>1 DEF Holds
  <2>4. DyingStay' /\ ParentsLive' /\ WantersLive'
    BY <1>0, <2>1, <2>2 DEF TypeOK, DyingStay, ParentsLive, WantersLive, Creating
  <2>5. WantersPlaced' /\ AddersRun'
    BY <1>0, <2>1, <2>3 DEF TypeOK, WantersPlaced, AddersRun, Holds
  <2>6. QED
    BY <2>4, <2>5 DEF LifeInv
<1>15. ASSUME NEW c \in CPUs, NEW t \in Tids, ThreadFinish(c, t) PROVE LifeInv'
  <2>1. /\ Holds(c) = t /\ mode[c] = "thread" /\ sleepsOn[t] = NoResource
        /\ at[t] = "run"
        /\ \A d \in CPUs \ {c} : Holds(d) # t
        /\ threadState' = [threadState EXCEPT ![t] = "DYING"]
        /\ at' = [at EXCEPT ![t] = "dying"]
        /\ UNCHANGED <<sleepsOn, currentThread, mode, target, child>>
    BY <1>15, ExecutesHeld, ExecutesAwake DEF ThreadFinish, Executes, createVars
  <2>2. \A d \in CPUs : Holds(d)' = Holds(d)
    BY <2>1 DEF Holds
  <2>3. DyingStay' /\ ParentsLive' /\ WantersLive'
    BY <1>0, <2>1 DEF TypeOK, DyingStay, ParentsLive, WantersLive, Creating
  <2>4. WantersPlaced' /\ AddersRun'
    BY <1>0, <2>1, <2>2 DEF TypeOK, WantersPlaced, AddersRun, Holds
  <2>5. QED
    BY <2>3, <2>4 DEF LifeInv
<1>16. CASE UNCHANGED vars
  BY <1>0, <1>16 DEF vars, LifeInv, DyingStay, ParentsLive, WantersLive, WantersPlaced, AddersRun,
              Creating, Holds
<1>17. QED
  BY <1>1, <1>2, <1>3, <1>4, <1>5, <1>6, <1>7, <1>8, <1>9, <1>10, <1>11, <1>12, <1>13,
     <1>14, <1>15, <1>16
  DEF Next, SchedulerStep, SleepqStep, ThreadStep, WakeCall

-----------------------------------------------------------------------------
\* RemoveIndex takes exactly one element out of a sequence without duplicates.
LEMMA RemoveIndexElements ==
    ASSUME NEW S, NEW s \in Seq(S), NEW i \in DOMAIN s, NoDuplicates(s)
    PROVE  /\ NoDuplicates(RemoveIndex(s, i))
           /\ Elements(RemoveIndex(s, i)) = Elements(s) \ {s[i]}
<1> DEFINE q == RemoveIndex(s, i)
<1>1. /\ Len(s) \in Nat /\ DOMAIN s = 1 .. Len(s) /\ DOMAIN q = 1 .. Len(s) - 1
      /\ \A j \in 1 .. Len(s) - 1 : q[j] = IF j < i THEN s[j] ELSE s[j + 1]
  BY DEF RemoveIndex
<1> HIDE DEF q
<1>2. ASSUME NEW j \in DOMAIN q
      PROVE  \E k \in DOMAIN s : k # i /\ q[j] = s[k] /\ k = IF j < i THEN j ELSE j + 1
  BY <1>1
<1>3. NoDuplicates(q)
  <2>1. SUFFICES ASSUME NEW j \in DOMAIN q, NEW m \in DOMAIN q, q[j] = q[m]
                 PROVE  j = m
    BY DEF NoDuplicates
  <2>2. PICK k \in DOMAIN s : q[j] = s[k] /\ k = IF j < i THEN j ELSE j + 1
    BY <1>2
  <2>3. PICK l \in DOMAIN s : q[m] = s[l] /\ l = IF m < i THEN m ELSE m + 1
    BY <1>2
  <2>4. k = l
    BY <2>1, <2>2, <2>3 DEF NoDuplicates
  <2>5. QED
    BY <1>1, <2>2, <2>3, <2>4
<1>4. Elements(q) \subseteq Elements(s) \ {s[i]}
  BY <1>2 DEF Elements, NoDuplicates
<1>5. Elements(s) \ {s[i]} \subseteq Elements(q)
  BY RemoveIndexKeeps DEF q
<1>6. QED
  BY <1>3, <1>4, <1>5 DEF q

LEMMA ChainInit == Init => ChainInv
<1> SUFFICES ASSUME Init PROVE ChainInv
  OBVIOUS
<1>1. \A b \in Buckets : hashtable[b] = <<>> /\ DOMAIN hashtable[b] = {}
  BY DEF Init
<1>2. \A b \in Buckets : NoDuplicates(hashtable[b]) /\ Elements(hashtable[b]) = {}
  BY <1>1 DEF NoDuplicates, Elements
<1>3. QED
  BY <1>2 DEF Init, ChainInv, HandsLocked, MarkedUnchained, ChainsExact

\* A step that leaves the chains alone, wakes nobody and marks nobody.
LEMMA ChainQuiet ==
    ASSUME ChainInv,
           UNCHANGED <<hashtable, sleepsOn, sleepqSlock>>,
           \A d \in CPUs : mode'[d] = "ready" => mode[d] = "ready" /\ target'[d] = target[d],
           \A d \in CPUs : mode'[d] = "mark" =>
               mode[d] = "mark" /\ currentThread'[d] = currentThread[d]
    PROVE  ChainInv'
<1>1. HandsLocked'
  BY DEF ChainInv, HandsLocked
<1>2. \A t : InHand(t)' => InHand(t)
  BY DEF InHand
<1>3. MarkedUnchained'
  BY <1>2 DEF ChainInv, MarkedUnchained
<1>4. ChainsExact'
  BY <1>2 DEF ChainInv, ChainsExact
<1>5. QED
  BY <1>1, <1>3, <1>4 DEF ChainInv

\* A thread that marks itself was in no chain, nor in a wake-up's hand.
LEMMA ChainMark ==
    ASSUME TypeInv, SchedInv, LifeInv, ChainInv,
           NEW c \in CPUs, NEW t \in Tids, NEW r \in Resources, SleepqMark(c, t, r)
    PROVE  ChainInv'
<1>1. /\ sleepsOn[t] = NoResource /\ currentThread[c] = t /\ Holds(c) = t /\ t # Idle
      /\ mode' = [mode EXCEPT ![c] = "mark"] /\ sleepsOn' = [sleepsOn EXCEPT ![t] = r]
      /\ UNCHANGED <<hashtable, sleepqSlock, target, currentThread>>
      /\ NoResource \notin Resources
  BY ExecutesHeld, ExecutesAwake, SchedulerAssumption DEF SleepqMark, MoveTo, wakeVars, Executes
<1>2. sleepsOn \in [Tids -> Resources \cup {NoResource}] /\ mode \in [CPUs -> Modes]
  BY DEF TypeInv, TypeOK
<1>3. \A b \in Buckets : t \notin Elements(hashtable[b])
  BY <1>1 DEF ChainInv, ChainsExact
<1>4. ~InHand(t)
  BY <1>1 DEF ChainInv, HandsLocked, InHand
<1>5. \A u : InHand(u)' => InHand(u)
  BY <1>1, <1>2 DEF InHand
<1>6. \A u \in Tids \ {t} : sleepsOn'[u] = sleepsOn[u]
  BY <1>1, <1>2
<1>7. HandsLocked'
  BY <1>1, <1>2 DEF ChainInv, HandsLocked
<1>8. MarkedUnchained'
  <2>1. ASSUME NEW d \in CPUs, mode'[d] = "mark", d # c
        PROVE  mode[d] = "mark" /\ sleepsOn'[currentThread[d]] \in Resources
    <3>1. mode[d] = "mark" /\ sleepsOn[currentThread[d]] \in Resources
      BY <1>1, <1>2, <2>1 DEF ChainInv, MarkedUnchained
    <3>2. QED
      BY <1>1, <1>2, <3>1
  <2>2. sleepsOn'[t] = r
    BY <1>1, <1>2
  <2>3. QED
    BY <1>1, <1>3, <1>4, <1>5, <2>1, <2>2 DEF ChainInv, MarkedUnchained
<1>9. ChainsExact'
  <2>1. ASSUME NEW b \in Buckets, NEW u \in Elements(hashtable[b])
        PROVE  sleepsOn'[u] = sleepsOn[u]
    <3>1. u # t /\ sleepsOn[u] \in Resources
      BY <1>3 DEF ChainInv, ChainsExact
    <3>2. u \in Tids
      BY DEF TypeInv, TypeOK, Elements
    <3>3. QED
      BY <1>6, <3>1, <3>2
  <2>2. QED
    BY <1>1, <1>5, <2>1 DEF ChainInv, ChainsExact
<1>10. QED
  BY <1>7, <1>8, <1>9 DEF ChainInv

\* sleepq_add puts the marked thread at the end of its resource's chain, once.
LEMMA ChainLink ==
    ASSUME TypeInv, SchedInv, LifeInv, ChainInv, NEW c \in CPUs, SleepqLink(c)
    PROVE  ChainInv'
<1> DEFINE t == currentThread[c]
           b == Hash[sleepsOn[t]]
<1>1. /\ mode[c] = "mark" /\ sleepqSlock = NoCpu /\ t \in Tids
      /\ mode' = [mode EXCEPT ![c] = "linked"]
      /\ hashtable' = [hashtable EXCEPT ![b] = Append(@, t)]
      /\ UNCHANGED <<sleepsOn, sleepqSlock, target, currentThread>>
      /\ hashtable \in [Buckets -> Seq(Tids)] /\ mode \in [CPUs -> Modes]
  BY DEF SleepqLink, MoveTo, wakeVars, TypeInv, TypeOK
<1>2. /\ sleepsOn[t] \in Resources /\ b \in Buckets /\ ~InHand(t)
      /\ \A x \in Buckets : t \notin Elements(hashtable[x])
  BY <1>1, SchedulerAssumption DEF ChainInv, MarkedUnchained
<1>3. \A d \in CPUs : mode[d] # "ready" /\ mode'[d] # "ready"
  BY <1>1, SchedulerAssumption DEF ChainInv, HandsLocked
<1>4. \A u : ~InHand(u)'
  BY <1>3 DEF InHand
<1>5. /\ Elements(hashtable'[b]) = Elements(hashtable[b]) \cup {t}
      /\ NoDuplicates(hashtable'[b])
      /\ \A x \in Buckets \ {b} : hashtable'[x] = hashtable[x]
  <2>1. hashtable'[b] = Append(hashtable[b], t) /\ hashtable[b] \in Seq(Tids)
    BY <1>1, <1>2
  <2>2. NoDuplicates(hashtable[b])
    BY <1>2 DEF ChainInv, ChainsExact
  <2>3. /\ Elements(Append(hashtable[b], t)) = Elements(hashtable[b]) \cup {t}
        /\ NoDuplicates(Append(hashtable[b], t))
    <3> HIDE DEF b, t
    <3>1. QED
      BY <1>1, <1>2, <2>1, <2>2, AppendElements
  <2>4. \A x \in Buckets \ {b} : hashtable'[x] = hashtable[x]
    BY <1>1
  <2>5. QED
    BY <2>1, <2>3, <2>4
<1>6. HandsLocked'
  BY <1>3 DEF HandsLocked
<1>7. MarkedUnchained'
  <2>1. SUFFICES ASSUME NEW d \in CPUs, mode'[d] = "mark"
                 PROVE  /\ sleepsOn[currentThread[d]] \in Resources
                        /\ \A x \in Buckets : currentThread[d] \notin Elements(hashtable'[x])
    BY <1>1, <1>4 DEF MarkedUnchained
  <2>2. d # c /\ mode[d] = "mark"
    BY <1>1, <2>1
  <2>3. currentThread[d] # t
    BY <1>1, <2>2 DEF SchedInv, OneCpuPerThread, Holds, LifeInv, AddersRun
  <2>4. QED
    BY <1>5, <2>2, <2>3 DEF ChainInv, MarkedUnchained
<1>8. ChainsExact'
  <2>1. ASSUME NEW x \in Buckets
        PROVE  /\ NoDuplicates(hashtable'[x])
               /\ \A u \in Elements(hashtable'[x]) :
                      sleepsOn[u] \in Resources /\ Hash[sleepsOn[u]] = x
    BY <1>2, <1>5 DEF ChainInv, ChainsExact
  <2>2. QED
    BY <1>1, <1>4, <2>1 DEF ChainsExact
<1>9. QED
  BY <1>6, <1>7, <1>8 DEF ChainInv

\* While one CPU walks or changes a chain, no other has a thread in hand.
LEMMA OneHand ==
    ASSUME ChainInv, NEW c \in CPUs, sleepqSlock \in {NoCpu, c}
    PROVE  \A d \in CPUs \ {c} : mode[d] # "ready"
BY SchedulerAssumption DEF ChainInv, HandsLocked

\* A wake-up takes a waiting thread out of the one chain that it is in.
LEMMA ChainFind ==
    ASSUME TypeInv, ChainInv, NEW c \in CPUs, WakeFind(c)
    PROVE  ChainInv'
<1> DEFINE b == Hash[wakes[c]]
<1>1. /\ mode[c] = "wake" /\ sleepqSlock \in {NoCpu, c} /\ sleepqSlock' = c
      /\ mode' = [mode EXCEPT ![c] = "ready"]
      /\ UNCHANGED <<sleepsOn, currentThread>>
      /\ hashtable \in [Buckets -> Seq(Tids)] /\ mode \in [CPUs -> Modes]
      /\ target \in [CPUs -> Tids]
      /\ wakes[c] \in Resources /\ b \in Buckets
  BY SchedulerAssumption DEF WakeFind, MoveTo, TypeInv, TypeOK, WakesSomething
<1>2. PICK i \in Waiting(b, wakes[c]) :
          /\ target' = [target EXCEPT ![c] = hashtable[b][i]]
          /\ hashtable' = [hashtable EXCEPT ![b] = RemoveIndex(@, i)]
  BY DEF WakeFind
<1> DEFINE t == hashtable[b][i]
<1>3. /\ i \in DOMAIN hashtable[b] /\ t \in Elements(hashtable[b])
      /\ sleepsOn[t] \in Resources /\ Hash[sleepsOn[t]] = b
      /\ NoDuplicates(hashtable[b]) /\ hashtable[b] \in Seq(Tids)
  BY <1>1, <1>2 DEF Waiting, Elements, ChainInv, ChainsExact
<1>4. /\ NoDuplicates(hashtable'[b])
      /\ Elements(hashtable'[b]) = Elements(hashtable[b]) \ {t}
      /\ \A x \in Buckets \ {b} : hashtable'[x] = hashtable[x]
  <2>1. hashtable'[b] = RemoveIndex(hashtable[b], i)
    BY <1>1, <1>2
  <2>2. /\ NoDuplicates(RemoveIndex(hashtable[b], i))
        /\ Elements(RemoveIndex(hashtable[b], i)) = Elements(hashtable[b]) \ {t}
    <3> HIDE DEF b
    <3>1. QED
      BY <1>3, RemoveIndexElements
  <2>3. \A x \in Buckets \ {b} : hashtable'[x] = hashtable[x]
    BY <1>1, <1>2
  <2>4. QED
    BY <2>1, <2>2, <2>3
<1>5. /\ target'[c] = t /\ mode'[c] = "ready"
      /\ \A d \in CPUs \ {c} : mode'[d] = mode[d] /\ mode[d] # "ready"
  BY <1>1, <1>2, OneHand
<1> HIDE DEF b, t
<1>6. \A u : InHand(u)' => u = t
  BY <1>5 DEF InHand
<1>7. HandsLocked'
  BY <1>1, <1>3, <1>5 DEF HandsLocked
<1>8. MarkedUnchained'
  <2>1. SUFFICES ASSUME NEW d \in CPUs, mode'[d] = "mark"
                 PROVE  /\ sleepsOn[currentThread[d]] \in Resources
                        /\ ~InHand(currentThread[d])'
                        /\ \A x \in Buckets : currentThread[d] \notin Elements(hashtable'[x])
    BY <1>1 DEF MarkedUnchained
  <2>2. mode[d] = "mark"
    BY <1>5, <2>1
  <2>3. /\ sleepsOn[currentThread[d]] \in Resources
        /\ \A x \in Buckets : currentThread[d] \notin Elements(hashtable[x])
    BY <2>2 DEF ChainInv, MarkedUnchained
  <2>4. ~InHand(currentThread[d])'
    <3>1. currentThread'[d] = currentThread[d] /\ currentThread[d] # t
      BY <1>1, <1>3, <2>3
    <3>2. QED
      BY <1>1, <1>6, <3>1 DEF InHand
  <2>5. QED
    BY <1>4, <2>3, <2>4
<1>9. ChainsExact'
  <2>1. ASSUME NEW x \in Buckets
        PROVE  /\ NoDuplicates(hashtable'[x])
               /\ \A u \in Elements(hashtable'[x]) :
                      sleepsOn[u] \in Resources /\ Hash[sleepsOn[u]] = x /\ u # t
    BY <1>3, <1>4 DEF ChainInv, ChainsExact
  <2>2. QED
    BY <1>1, <1>6, <2>1 DEF ChainsExact
<1>10. QED
  BY <1>7, <1>8, <1>9 DEF ChainInv

\* The thread in hand, in no chain any more, is let go.
LEMMA ChainReady ==
    ASSUME TypeInv, ChainInv, NEW c \in CPUs, WakeReady(c)
    PROVE  ChainInv'
<1> DEFINE t == target[c]
<1>1. /\ mode[c] = "ready" /\ sleepqSlock = c /\ t \in Tids /\ InHand(t)
      /\ mode' = [mode EXCEPT ![c] = "wake"] \/ mode' = [mode EXCEPT ![c] = "woken"]
      /\ sleepsOn' = [sleepsOn EXCEPT ![t] = NoResource]
      /\ UNCHANGED <<hashtable, currentThread>>
      /\ hashtable \in [Buckets -> Seq(Tids)] /\ mode \in [CPUs -> Modes]
      /\ sleepsOn \in [Tids -> Resources \cup {NoResource}]
  BY DEF WakeReady, WakeContinue, MoveTo, TypeInv, TypeOK, ChainInv, HandsLocked, InHand
<1>2. \A d \in CPUs : mode'[d] # "ready" /\ (mode'[d] = "mark" => mode[d] = "mark")
  BY <1>1, OneHand
<1> HIDE DEF t
<1>3. \A u : ~InHand(u)'
  BY <1>2 DEF InHand
<1>4. \A u : u # t => sleepsOn'[u] = sleepsOn[u]
  BY <1>1
<1>5. HandsLocked'
  BY <1>2 DEF HandsLocked
<1>6. MarkedUnchained'
  <2>1. ASSUME NEW d \in CPUs, mode'[d] = "mark"
        PROVE  sleepsOn'[currentThread[d]] \in Resources
    <3>1. currentThread[d] # t /\ sleepsOn[currentThread[d]] \in Resources
      BY <1>1, <1>2, <2>1 DEF ChainInv, MarkedUnchained
    <3>2. QED
      BY <1>4, <3>1
  <2>2. QED
    BY <1>1, <1>2, <1>3, <2>1 DEF ChainInv, MarkedUnchained
<1>7. ChainsExact'
  <2>1. ASSUME NEW b \in Buckets, NEW u \in Elements(hashtable[b])
        PROVE  sleepsOn'[u] = sleepsOn[u]
    BY <1>1, <1>4 DEF ChainInv, ChainsExact
  <2>2. QED
    BY <1>1, <1>3, <2>1 DEF ChainInv, ChainsExact
<1>8. QED
  BY <1>5, <1>6, <1>7 DEF ChainInv

LEMMA ChainStep == TypeInv /\ SchedInv /\ LifeInv /\ ChainInv /\ [Next]_vars => ChainInv'
<1> SUFFICES ASSUME TypeInv, SchedInv, LifeInv, ChainInv, [Next]_vars PROVE ChainInv'
  OBVIOUS
<1>0. /\ mode \in [CPUs -> Modes] /\ target \in [CPUs -> Tids]
      /\ currentThread \in [CPUs -> Tids]
  BY DEF TypeInv, TypeOK
<1>1. ASSUME NEW c \in CPUs, Schedule(c) PROVE ChainInv'
  <2>1. /\ mode' = [mode EXCEPT ![c] = "dispatch"]
        /\ \A d \in CPUs \ {c} : target'[d] = target[d]
        /\ UNCHANGED <<hashtable, sleepsOn, sleepqSlock, currentThread>>
    BY <1>0, <1>1 DEF Schedule, MoveTo, wakeVars
  <2>2. QED
    BY <1>0, <2>1, ChainQuiet
<1>2. ASSUME NEW c \in CPUs, Dispatch(c) PROVE ChainInv'
  BY <1>0, <1>2, ChainQuiet DEF Dispatch, MoveTo, wakeVars
<1>3. ASSUME NEW c \in CPUs, TimerInterrupt(c) \/ SoftwareInterrupt(c) \/ ThreadSwitch(c)
      PROVE  ChainInv'
  <2>1. /\ mode' = [mode EXCEPT ![c] = "schedule"] \/ mode' = [mode EXCEPT ![c] = "thread"]
        /\ UNCHANGED <<hashtable, sleepsOn, sleepqSlock, currentThread, target>>
    BY <1>3 DEF TimerInterrupt, SoftwareInterrupt, ThreadSwitch, MoveTo, wakeVars
  <2>2. QED
    BY <1>0, <2>1, ChainQuiet
<1>4. ASSUME NEW c \in CPUs, NEW t \in Tids, NEW r \in Resources, SleepqMark(c, t, r)
      PROVE  ChainInv'
  BY <1>4, ChainMark
<1>5. ASSUME NEW c \in CPUs, SleepqLink(c) PROVE ChainInv'
  BY <1>5, ChainLink
<1>6. ASSUME NEW c \in CPUs, NEW r \in Resources, NEW all \in BOOLEAN,
             NEW handler \in BOOLEAN, StartWake(c, r, all, handler)
      PROVE  ChainInv'
  BY <1>0, <1>6, ChainQuiet DEF StartWake, MoveTo
<1>7. ASSUME NEW c \in CPUs, WakeFind(c) PROVE ChainInv'
  BY <1>7, ChainFind
<1>8. ASSUME NEW c \in CPUs, WakeNone(c) PROVE ChainInv'
  <2>1. /\ \A d \in CPUs : mode'[d] # "ready" /\ mode[d] # "ready"
        /\ \A d \in CPUs : mode'[d] = "mark" => mode[d] = "mark"
        /\ UNCHANGED <<hashtable, sleepsOn, currentThread>>
    BY <1>0, <1>8, OneHand DEF WakeNone, MoveTo
  <2>2. \A u : ~InHand(u)'
    BY <2>1 DEF InHand
  <2>3. QED
    BY <2>1, <2>2 DEF ChainInv, HandsLocked, MarkedUnchained, ChainsExact
<1>9. ASSUME NEW c \in CPUs, WakeReady(c) PROVE ChainInv'
  BY <1>9, ChainReady
<1>10. ASSUME NEW c \in CPUs, WakeReturn(c) PROVE ChainInv'
  <2>1. /\ mode' = [mode EXCEPT ![c] = "schedule"] \/ mode' = [mode EXCEPT ![c] = "thread"]
        /\ UNCHANGED <<hashtable, sleepsOn, sleepqSlock, currentThread, target>>
    BY <1>10 DEF WakeReturn, MoveTo
  <2>2. QED
    BY <1>0, <2>1, ChainQuiet
<1>11. ASSUME NEW c \in CPUs, NEW t \in Tids,
              \/ \E u \in Tids : ThreadCreate(c, t, u)
              \/ ThreadRun(c, t) \/ ThreadFinish(c, t)
       PROVE  ChainInv'
  <2>1. UNCHANGED <<hashtable, sleepsOn, sleepqSlock, mode, currentThread, target>>
    BY <1>11 DEF ThreadCreate, ThreadRun, ThreadFinish, wakeVars
  <2>2. QED
    BY <2>1, ChainQuiet
<1>12. ASSUME NEW c \in CPUs, NEW t \in Tids, ThreadInitialise(c, t) PROVE ChainInv'
  <2>1. child[t] \in Tids /\ sleepsOn \in [Tids -> Resources \cup {NoResource}]
    BY DEF TypeInv, TypeOK
  <2>2. threadState[child[t]] = "NONREADY"
    BY <1>12 DEF ThreadInitialise, SchedInv, ChildrenApart, Creating
  <2>3. sleepsOn[child[t]] = NoResource
    BY <2>1, <2>2 DEF LifeInv, WantersLive
  <2>4. UNCHANGED <<hashtable, sleepsOn, sleepqSlock, mode, currentThread, target>>
    BY <1>12, <2>1, <2>3 DEF ThreadInitialise, wakeVars
  <2>5. QED
    BY <2>4, ChainQuiet
<1>13. CASE UNCHANGED vars
  BY <1>13, ChainQuiet DEF vars
<1>14. QED
  BY <1>1, <1>2, <1>3, <1>4, <1>5, <1>6, <1>7, <1>8, <1>9, <1>10, <1>11, <1>12, <1>13
  DEF Next, SchedulerStep, SleepqStep, ThreadStep, WakeCall

LEMMA ChainInvariance == Spec => [](TypeInv /\ SchedInv /\ LifeInv /\ ChainInv)
<1>1. Init => TypeInv /\ SchedInv /\ LifeInv /\ ChainInv
  BY TypeInit, SchedInit, LifeInit, ChainInit
<1>2. TypeInv /\ SchedInv /\ LifeInv /\ ChainInv /\ [Next]_vars
          => (TypeInv /\ SchedInv /\ LifeInv /\ ChainInv)'
  BY TypeStep, SchedStep, LifeStep, ChainStep
<1>3. QED
  BY <1>1, <1>2, PTL DEF Spec

\* The chains of the sleep queue hold threads that wait for their resources, each
\* once, and never one that a wake-up has taken (sleepq.c).
THEOREM ChainsExactAlways == Spec => []ChainsExact
<1>1. ChainInv => ChainsExact
  BY DEF ChainInv
<1>2. QED
  BY <1>1, ChainInvariance, PTL

\* A row of the thread table that is free, or being initialised, has left every
\* CPU, chain and other creator (thread_create, scheduler_schedule).
THEOREM RowsReusedSafelyAlways == Spec => []RowsReusedSafely
<1>1. TypeInv /\ SchedInv /\ LifeInv /\ ChainInv => RowsReusedSafely
  <2>1. SUFFICES ASSUME TypeInv, SchedInv, LifeInv, ChainInv,
                        NEW u \in Tids \ {Idle}, threadState[u] \in {"FREE", "NONREADY"}
                 PROVE  /\ \A c \in CPUs : Holds(c) # u
                        /\ \A b \in Buckets : u \notin Elements(hashtable[b])
                        /\ \A s, t \in Tids : child[s] = u /\ child[t] = u => s = t
    BY DEF RowsReusedSafely
  <2>2. \A c \in CPUs : Holds(c) # u
    BY <2>1, OthersNotHeld
  <2>3. \A b \in Buckets : u \notin Elements(hashtable[b])
    <3>1. sleepsOn[u] \notin Resources
      BY <2>1, SchedulerAssumption DEF LifeInv, WantersLive
    <3>2. QED
      BY <2>1, <3>1 DEF ChainInv, ChainsExact
  <2>4. \A s, t \in Tids : child[s] = u /\ child[t] = u => s = t
    BY <2>1 DEF LifeInv, ParentsLive, SchedInv, ChildrenApart
  <2>5. QED
    BY <2>2, <2>3, <2>4
<1>2. QED
  BY <1>1, ChainInvariance, PTL
=============================================================================
