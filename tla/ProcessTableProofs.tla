-------------------------- MODULE ProcessTableProofs --------------------------
(***************************************************************************)
(* Proofs about module ProcessTable, for tables of any size and any number *)
(* of threads and programs.  Type correctness holds of every program; what *)
(* else is proved here is about programs that join the children they know  *)
(* of before they exit: without that, process_finish gives away slots that *)
(* are still in use, and the runs of the model checker find all of it      *)
(* false.                                                                  *)
(***************************************************************************)
EXTENDS ProcessTable, FiniteSetTheorems, TLAPS

-----------------------------------------------------------------------------
\* Type correctness.  The slot a thread works on is read from its hand.
Spawning == {"name", "parent", "create"}

HandsFull ==
    \A t \in Threads :
        at[t] \in Spawning \cup {"start", "join", "asleep"} => hand[t] \in Pids

TypeInv == TypeOK /\ HandsFull

LEMMA TypeInit == Init => TypeInv
<1> SUFFICES ASSUME Init PROVE TypeInv
  OBVIOUS
<1>1. TypeOK
  BY DEF Init, TypeOK, Places, NoChildren
<1>2. HandsFull
  BY DEF Init, HandsFull, Spawning
<1>3. QED
  BY <1>1, <1>2 DEF TypeInv

LEMMA TypeStep == TypeInv /\ [Next]_vars => TypeInv'
<1> SUFFICES ASSUME TypeInv, [Next]_vars PROVE TypeInv'
  OBVIOUS
<1> USE DEF TypeInv, TypeOK, HandsFull, Spawning, Running, MoveTo, table, threads
<1>1. ASSUME NEW t \in Threads, SpawnAlloc(t) PROVE TypeInv'
  <2>1. PICK p \in Pids : /\ state' = [state EXCEPT ![p] = "RUNNING"]
                          /\ hand' = [hand EXCEPT ![t] = p]
    BY <1>1 DEF SpawnAlloc
  <2>2. /\ at' = [at EXCEPT ![t] = "name"]
        /\ UNCHANGED <<executable, retval, parent, processId, runs, started, panicked>>
    BY <1>1 DEF SpawnAlloc
  <2>3. QED
    BY <2>1, <2>2 DEF Places
<1>2. ASSUME NEW t \in Threads, NEW program \in Programs, SpawnName(t, program) PROVE TypeInv'
  <2>1. started' \in [Threads -> [Pids -> Programs \cup {NoProgram}]]
    BY <1>2 DEF SpawnName
  <2>2. QED
    BY <1>2, <2>1 DEF SpawnName, Places
<1>3. ASSUME NEW t \in Threads, SpawnParent(t) PROVE TypeInv'
  BY <1>3 DEF SpawnParent, Places
<1>4. ASSUME NEW t \in Threads, NEW u \in Threads, SpawnThread(t, u) PROVE TypeInv'
  BY <1>4 DEF SpawnThread, Places
<1>5. ASSUME NEW t \in Threads, SpawnNoThread(t) PROVE TypeInv'
  BY <1>5 DEF SpawnNoThread
<1>6. ASSUME NEW t \in Threads, ProcessStart(t) PROVE TypeInv'
  <2>1. executable[hand[t]] \in Programs \cup {NoProgram} /\ hand[t] \in Pids
    BY <1>6 DEF ProcessStart
  <2>2. NoChildren \in [Pids -> Programs \cup {NoProgram}]
    BY DEF NoChildren
  <2>3. QED
    BY <1>6, <2>1, <2>2 DEF ProcessStart, Places
<1>7. ASSUME NEW t \in Threads, ProcessFinish(t) PROVE TypeInv'
  <2>1. /\ state' \in [Pids -> {"FREE", "RUNNING", "ZOMBIE"}]
        /\ retval' \in [Pids -> Programs \cup {NoProgram}]
    BY <1>7 DEF ProcessFinish
  <2>2. /\ executable' \in [Pids -> Programs \cup {NoProgram}]
        /\ parent' \in [Pids -> Pids \cup {NoPid}]
    BY <1>7 DEF ProcessFinish, Reset
  <2>3. /\ at' \in [Threads -> Places]
        /\ \A s \in Threads : at'[s] = at[s] \/ at'[s] = "dying"
                                  \/ (at'[s] = "join" /\ at[s] = "asleep")
    BY <1>7 DEF ProcessFinish, SleepersOn, Places
  <2>4. UNCHANGED <<processId, hand, runs, started, panicked>>
    BY <1>7 DEF ProcessFinish
  <2>5. HandsFull'
    BY <2>3, <2>4
  <2>6. QED
    BY <2>1, <2>2, <2>3, <2>4, <2>5
<1>8. ASSUME NEW t \in Threads, RowFreed(t) PROVE TypeInv'
  BY <1>8 DEF RowFreed, Places, NoChildren
<1>9. ASSUME NEW t \in Threads, NEW p \in Pids, JoinCheck(t, p) PROVE TypeInv'
  BY <1>9 DEF JoinCheck, Places
<1>10. ASSUME NEW t \in Threads, JoinSleep(t) PROVE TypeInv'
  BY <1>10 DEF JoinSleep, Places
<1>11. ASSUME NEW t \in Threads, JoinReturn(t) PROVE TypeInv'
  <2>1. started' \in [Threads -> [Pids -> Programs \cup {NoProgram}]]
    BY <1>11 DEF JoinReturn
  <2>2. /\ executable' \in [Pids -> Programs \cup {NoProgram}]
        /\ parent' \in [Pids -> Pids \cup {NoPid}]
    BY <1>11 DEF JoinReturn, Reset
  <2>3. panicked' \in BOOLEAN
    BY <1>11 DEF JoinReturn
  <2>4. /\ state' \in [Pids -> {"FREE", "RUNNING", "ZOMBIE"}]
        /\ retval' \in [Pids -> Programs \cup {NoProgram}]
        /\ hand' \in [Threads -> Pids \cup {NoPid}] /\ at' \in [Threads -> Places]
        /\ UNCHANGED <<processId, runs>>
    BY <1>11 DEF JoinReturn, Places
  <2>5. HandsFull'
    BY <1>11 DEF JoinReturn
  <2>6. QED
    BY <2>1, <2>2, <2>3, <2>4, <2>5
<1>12. CASE UNCHANGED vars
  BY <1>12 DEF vars
<1>13. QED
  BY <1>1, <1>2, <1>3, <1>4, <1>5, <1>6, <1>7, <1>8, <1>9, <1>10, <1>11, <1>12 DEF Next

\* Every field of the process table and of its users keeps its type, also when
\* programs leave their children (process.h:53-76).
THEOREM TypeCorrect == Spec => []TypeOK
<1>1. Spec => []TypeInv
  BY TypeInit, TypeStep, PTL DEF Spec
<1>2. TypeInv => TypeOK
  BY DEF TypeInv
<1>3. QED
  BY <1>1, <1>2, PTL

-----------------------------------------------------------------------------
\* The table and the threads.  That a slot has one owner is not inductive: when a
\* process exits, its slot and those of its children change hands, so the
\* invariant also says who knows whose child, and that a slot's parent, the
\* program in it and what its parent remembers agree.

\* The program of t has spawned p and not joined it.
Knows(t, p) == started[t][p] # NoProgram

\* Threads that have no program yet, or no longer.
Unborn == {"free", "dying", "start"}

\* Only the startup thread and a thread before process_start are no process; a
\* thread does not spawn into its own slot.
Numbered ==
    /\ at[StartupThread] \notin Unborn /\ processId[StartupThread] = NoPid
    /\ \A t \in Threads :
           /\ at[t] = "start" => processId[t] = NoPid
           /\ at[t] \notin Unborn /\ t # StartupThread => processId[t] # NoPid
           /\ at[t] \in Spawning => hand[t] # processId[t]

Owns(t, p) ==
    \/ at[t] \in Spawning \cup {"start"} /\ hand[t] = p
    \/ at[t] \notin {"free", "dying"} /\ processId[t] = p

\* A running slot has an owner, and a slot that has one runs and has no other.
OneOwner ==
    \A p \in Pids :
        /\ state[p] = "RUNNING" => \E t \in Threads : Owns(t, p)
        /\ \A t \in Threads : Owns(t, p) => state[p] = "RUNNING"
        /\ \A s, t \in Threads : Owns(s, p) /\ Owns(t, p) => s = t

\* A child that a program knows of is in its slot, with the program it was
\* spawned with, and names the thread's process as its parent as soon as
\* process_spawn has come that far.
ChildrenKept ==
    \A t \in Threads, p \in Pids : Knows(t, p) =>
        /\ at[t] \notin Unborn
        /\ state[p] # "FREE"
        /\ executable[p] = started[t][p]
        /\ \/ parent[p] = processId[t]
           \/ at[t] = "parent" /\ hand[t] = p /\ parent[p] = NoPid

OneKnower == \A p \in Pids, s, t \in Threads : Knows(s, p) /\ Knows(t, p) => s = t

\* A slot's parent knows it.
ParentsKnow ==
    \A p \in Pids : parent[p] # NoPid =>
        \E t \in Threads : Knows(t, p) /\ processId[t] = parent[p]

\* A thread does not know the slot it has just taken; from there to the end of
\* process_spawn, and in process_join, it knows the slot it has in hand.
CallersKnow ==
    \A t \in Threads :
        /\ at[t] = "name" =>
               parent[hand[t]] = NoPid /\ \A s \in Threads : ~Knows(s, hand[t])
        /\ at[t] \in {"parent", "create", "join", "asleep"} => Knows(t, hand[t])

\* Somebody has not forgotten a slot that is in use.
SlotsKnown ==
    \A p \in Pids : state[p] # "FREE" =>
        \E t \in Threads : (at[t] = "name" /\ hand[t] = p) \/ Knows(t, p)

SleepersWait == \A t \in Threads : at[t] = "asleep" => state[hand[t]] = "RUNNING"

ZombiesTell == \A p \in Pids : state[p] = "ZOMBIE" => retval[p] = executable[p]

TableInv ==
    /\ TypeInv /\ Numbered /\ OneOwner /\ ChildrenKept /\ OneKnower /\ ParentsKnow
    /\ CallersKnow /\ SlotsKnown /\ SleepersWait /\ ZombiesTell /\ RunsWhatWasSpawned

LEMMA NoPidIsNone == NoPid \notin Pids
BY ProcessTableAssumption DEF NoPid, Pids

LEMMA TableInit == Init => TableInv
<1> SUFFICES ASSUME Init PROVE TableInv
  OBVIOUS
<1>1. TypeInv
  BY TypeInit
<1>2. \A t \in Threads, p \in Pids : ~Knows(t, p) /\ ~Owns(t, p)
  BY NoPidIsNone DEF Init, NoChildren, Knows, Owns, Spawning
<1>3. Numbered
  BY ProcessTableAssumption DEF Init, Numbered, Unborn, Spawning
<1>4. QED
  BY <1>1, <1>2, <1>3, ProcessTableAssumption
  DEF Init, TableInv, OneOwner, ChildrenKept, OneKnower, ParentsKnow, CallersKnow,
      SlotsKnown, SleepersWait, ZombiesTell, RunsWhatWasSpawned

\* alloc_process_id: a slot that nobody knows is taken.
LEMMA TableSpawnAlloc ==
    ASSUME TableInv, NEW t \in Threads, SpawnAlloc(t)
    PROVE  TableInv'
<1> USE DEF TableInv
<1>1. PICK p \in Pids : /\ state[p] = "FREE" /\ state' = [state EXCEPT ![p] = "RUNNING"]
                        /\ hand' = [hand EXCEPT ![t] = p]
  BY DEF SpawnAlloc, FirstFree
<1>2. /\ at[t] = "user" /\ at' = [at EXCEPT ![t] = "name"]
      /\ UNCHANGED <<executable, retval, parent, processId, runs, started>>
  BY DEF SpawnAlloc, Running, MoveTo
<1>3. /\ \A q \in Pids : state'[q] = IF q = p THEN "RUNNING" ELSE state[q]
      /\ \A s \in Threads : hand'[s] = IF s = t THEN p ELSE hand[s]
      /\ \A s \in Threads : at'[s] = IF s = t THEN "name" ELSE at[s]
  BY <1>1, <1>2 DEF TypeInv, TypeOK
<1>4. /\ TypeInv'
      /\ \A s \in Threads : ~Owns(s, p) /\ ~Knows(s, p)
      /\ parent[p] = NoPid
  <2>1. TypeInv'
    BY TypeStep DEF Next
  <2>2. \A s \in Threads : ~Owns(s, p) /\ ~Knows(s, p)
    BY <1>1 DEF OneOwner, ChildrenKept
  <2>3. parent[p] = NoPid
    BY <2>2 DEF ParentsKnow
  <2>4. QED
    BY <2>1, <2>2, <2>3
<1>5. \A s \in Threads, q \in Pids : Knows(s, q)' <=> Knows(s, q)
  BY <1>2 DEF Knows
<1>6. \A s \in Threads, q \in Pids : Owns(s, q)' <=> Owns(s, q) \/ (s = t /\ q = p)
  BY <1>1, <1>2, <1>3 DEF Owns, Spawning
<1>7. Numbered'
  <2>1. processId[t] # p
    BY <1>2, <1>4 DEF Owns
  <2>2. QED
    BY <1>2, <1>3, <2>1, ProcessTableAssumption DEF Numbered, Unborn, Spawning
<1>8. OneOwner'
  BY <1>3, <1>4, <1>6 DEF OneOwner
<1>9. ChildrenKept' /\ OneKnower' /\ ParentsKnow'
  BY <1>2, <1>3, <1>4, <1>5 DEF ChildrenKept, OneKnower, ParentsKnow, Unborn
<1>10. CallersKnow'
  BY <1>2, <1>3, <1>4, <1>5 DEF CallersKnow, TypeInv, HandsFull, Spawning
<1>11. SlotsKnown'
  BY <1>2, <1>3, <1>5 DEF SlotsKnown
<1>12. SleepersWait' /\ ZombiesTell' /\ RunsWhatWasSpawned'
  BY <1>2, <1>3 DEF SleepersWait, ZombiesTell, RunsWhatWasSpawned, TypeInv, HandsFull
<1>13. QED
  BY <1>4, <1>7, <1>8, <1>9, <1>10, <1>11, <1>12

\* process_spawn fills in the name: from now on the caller knows its child.
LEMMA TableSpawnName ==
    ASSUME TableInv, NEW t \in Threads, NEW program \in Programs, SpawnName(t, program)
    PROVE  TableInv'
<1> USE DEF TableInv
<1> DEFINE p == hand[t]
<1>1. /\ at[t] = "name" /\ at' = [at EXCEPT ![t] = "parent"]
      /\ executable' = [executable EXCEPT ![p] = program]
      /\ started' = [started EXCEPT ![t] = [@ EXCEPT ![p] = program]]
      /\ UNCHANGED <<state, retval, parent, processId, hand, runs>>
  BY DEF SpawnName, Running, MoveTo
<1>2. p \in Pids /\ program # NoProgram
  BY <1>1, ProcessTableAssumption DEF TypeInv, HandsFull, Spawning
<1>3. /\ \A q \in Pids : executable'[q] = IF q = p THEN program ELSE executable[q]
      /\ \A s \in Threads : at'[s] = IF s = t THEN "parent" ELSE at[s]
      /\ \A s \in Threads, q \in Pids :
             started'[s][q] = IF s = t /\ q = p THEN program ELSE started[s][q]
  BY <1>1, <1>2 DEF TypeInv, TypeOK
<1>4. TypeInv'
  BY TypeStep DEF Next
<1>5. Owns(t, p) /\ state[p] = "RUNNING" /\ parent[p] = NoPid /\ processId[t] # p
  BY <1>1, <1>2 DEF Owns, OneOwner, CallersKnow, Numbered, Spawning
<1>6. \A s \in Threads : ~Knows(s, p)
  BY <1>1 DEF CallersKnow
<1> HIDE DEF p
<1>7. \A s \in Threads, q \in Pids : Knows(s, q)' <=> Knows(s, q) \/ (s = t /\ q = p)
  BY <1>2, <1>3 DEF Knows
<1>8. \A s \in Threads, q \in Pids : Owns(s, q)' <=> Owns(s, q)
  BY <1>1, <1>3 DEF Owns, Spawning
<1>9. \A s \in Threads : at[s] \notin {"free", "dying"} => processId[s] # p
  BY <1>2, <1>5 DEF Owns, OneOwner
<1>10. Numbered'
  BY <1>1, <1>3 DEF Numbered, Unborn, Spawning
<1>11. OneOwner'
  BY <1>1, <1>8 DEF OneOwner
<1>12. ChildrenKept'
  BY <1>1, <1>2, <1>3, <1>5, <1>6, <1>7 DEF ChildrenKept, Unborn, p
<1>13. OneKnower' /\ ParentsKnow' /\ SlotsKnown'
  BY <1>1, <1>3, <1>6, <1>7 DEF OneKnower, ParentsKnow, SlotsKnown, p
<1>14. CallersKnow'
  <2>1. \A s \in Threads : at[s] = "name" /\ hand[s] = p => s = t
    BY <1>1, <1>2, <1>5 DEF OneOwner, Owns, Spawning, p
  <2>2. \A s \in Threads : at[s] \in {"name", "join", "asleep", "parent", "create"} => hand[s] \in Pids
    BY DEF TypeInv, HandsFull, Spawning
  <2>3. QED
    BY <1>1, <1>2, <1>3, <1>7, <2>1, <2>2 DEF CallersKnow, p
<1>15. SleepersWait' /\ ZombiesTell'
  BY <1>1, <1>3, <1>5 DEF SleepersWait, ZombiesTell
<1>16. RunsWhatWasSpawned'
  BY <1>1, <1>3, <1>9 DEF RunsWhatWasSpawned, TypeInv, TypeOK
<1>17. QED
  BY <1>4, <1>10, <1>11, <1>12, <1>13, <1>14, <1>15, <1>16

\* ... and the parent.
LEMMA TableSpawnParent ==
    ASSUME TableInv, NEW t \in Threads, SpawnParent(t)
    PROVE  TableInv'
<1> USE DEF TableInv
<1> DEFINE p == hand[t]
<1>1. /\ at[t] = "parent" /\ at' = [at EXCEPT ![t] = "create"]
      /\ parent' = [parent EXCEPT ![p] = processId[t]]
      /\ UNCHANGED <<state, executable, retval, processId, hand, runs, started>>
  BY DEF SpawnParent, Running, MoveTo
<1>2. p \in Pids /\ Knows(t, p)
  BY <1>1 DEF TypeInv, HandsFull, Spawning, CallersKnow
<1>3. /\ \A q \in Pids : parent'[q] = IF q = p THEN processId[t] ELSE parent[q]
      /\ \A s \in Threads : at'[s] = IF s = t THEN "create" ELSE at[s]
  BY <1>1, <1>2 DEF TypeInv, TypeOK
<1>4. TypeInv'
  BY TypeStep DEF Next
<1>5. \A s \in Threads, q \in Pids : Knows(s, q)' <=> Knows(s, q)
  BY <1>1 DEF Knows
<1>6. \A s \in Threads, q \in Pids : Owns(s, q)' <=> Owns(s, q)
  BY <1>1, <1>3 DEF Owns, Spawning
<1>7. \A s \in Threads : at[s] = "name" => hand[s] # p /\ hand[s] \in Pids
  BY <1>2 DEF CallersKnow, TypeInv, HandsFull, Spawning
<1>8. Numbered'
  BY <1>1, <1>3 DEF Numbered, Unborn, Spawning
<1>9. OneOwner'
  BY <1>1, <1>6 DEF OneOwner
<1>10. ChildrenKept'
  BY <1>1, <1>2, <1>3, <1>5 DEF ChildrenKept, OneKnower, Unborn
<1>11. OneKnower' /\ ParentsKnow' /\ SlotsKnown'
  BY <1>1, <1>2, <1>3, <1>5 DEF OneKnower, ParentsKnow, SlotsKnown
<1>12. CallersKnow'
  BY <1>1, <1>2, <1>3, <1>5, <1>7 DEF CallersKnow, Knows
<1>13. SleepersWait' /\ ZombiesTell' /\ RunsWhatWasSpawned'
  BY <1>1, <1>3 DEF SleepersWait, ZombiesTell, RunsWhatWasSpawned
<1>14. QED
  BY <1>4, <1>8, <1>9, <1>10, <1>11, <1>12, <1>13

\* The new thread takes the slot over.
LEMMA TableSpawnThread ==
    ASSUME TableInv, NEW t \in Threads, NEW u \in Threads, SpawnThread(t, u)
    PROVE  TableInv'
<1> USE DEF TableInv
<1> DEFINE p == hand[t]
<1>1. /\ at[t] = "create" /\ at[u] = "free" /\ u # t
      /\ at' = [at EXCEPT ![t] = "user", ![u] = "start"]
      /\ hand' = [hand EXCEPT ![t] = NoPid, ![u] = p]
      /\ processId' = [processId EXCEPT ![u] = NoPid]
      /\ UNCHANGED <<state, executable, retval, parent, runs, started>>
  BY DEF SpawnThread, Running, table
<1>2. p \in Pids /\ Knows(t, p) /\ p # NoPid
  BY <1>1, NoPidIsNone DEF TypeInv, HandsFull, Spawning, CallersKnow
<1>3. \A s \in Threads :
          /\ at'[s] = IF s = u THEN "start" ELSE IF s = t THEN "user" ELSE at[s]
          /\ hand'[s] = IF s = u THEN p ELSE IF s = t THEN NoPid ELSE hand[s]
          /\ processId'[s] = IF s = u THEN NoPid ELSE processId[s]
  BY <1>1 DEF TypeInv, TypeOK
<1>4. TypeInv'
  BY TypeStep DEF Next
<1>5. \A s \in Threads, q \in Pids : Knows(s, q)' <=> Knows(s, q)
  BY <1>1 DEF Knows
<1>6. Owns(t, p) /\ processId[t] # p
  BY <1>1 DEF Owns, Numbered, Spawning
<1>7. \A q \in Pids : ~Knows(u, q)
  BY <1>1 DEF ChildrenKept, Unborn
<1> HIDE DEF p
<1>8. /\ \A q \in Pids : q # NoPid
      /\ at[t] = "create" /\ at[u] = "free" /\ u # t /\ hand[t] = p
      /\ UNCHANGED <<state, executable, retval, parent, runs, started>>
  BY <1>1, NoPidIsNone DEF p
<1>9. \A q \in Pids : /\ ~Owns(u, q) /\ (Owns(u, q)' <=> q = p)
                      /\ \A s \in Threads \ {u} : Owns(s, q)' <=> Owns(s, q) /\ ~(s = t /\ q = p)
  BY <1>2, <1>3, <1>6, <1>8 DEF Owns, Spawning
<1>10. Numbered'
  BY <1>3, <1>8, ProcessTableAssumption DEF Numbered, Unborn, Spawning
<1>11. OneOwner'
  BY <1>8, <1>2, <1>6, <1>9 DEF OneOwner
<1>12. ChildrenKept'
  BY <1>8, <1>3, <1>5, <1>7 DEF ChildrenKept, Unborn
<1>13. OneKnower' /\ ParentsKnow' /\ SlotsKnown'
  BY <1>8, <1>2, <1>3, <1>5, <1>7 DEF OneKnower, ParentsKnow, SlotsKnown
<1>14. CallersKnow'
  BY <1>8, <1>3, <1>5 DEF CallersKnow, Knows
<1>15. SleepersWait' /\ ZombiesTell' /\ RunsWhatWasSpawned'
  BY <1>8, <1>3 DEF SleepersWait, ZombiesTell, RunsWhatWasSpawned
<1>16. QED
  BY <1>4, <1>10, <1>11, <1>12, <1>13, <1>14, <1>15

\* process_start: the slot's owner becomes the process.
LEMMA TableStart ==
    ASSUME TableInv, NEW u \in Threads, ProcessStart(u)
    PROVE  TableInv'
<1> USE DEF TableInv
<1> DEFINE p == hand[u]
<1>1. /\ at[u] = "start" /\ at' = [at EXCEPT ![u] = "user"]
      /\ processId' = [processId EXCEPT ![u] = p] /\ hand' = [hand EXCEPT ![u] = NoPid]
      /\ runs' = [runs EXCEPT ![u] = executable[p]]
      /\ started' = [started EXCEPT ![u] = NoChildren]
      /\ UNCHANGED <<state, executable, retval, parent>>
  BY DEF ProcessStart, Running, MoveTo, table
<1>2. p \in Pids /\ p # NoPid /\ u # StartupThread /\ Owns(u, p)
  BY <1>1, NoPidIsNone DEF TypeInv, HandsFull, Numbered, Unborn, Owns
<1>3. \A s \in Threads :
          /\ at'[s] = IF s = u THEN "user" ELSE at[s]
          /\ hand'[s] = IF s = u THEN NoPid ELSE hand[s]
          /\ processId'[s] = IF s = u THEN p ELSE processId[s]
          /\ runs'[s] = IF s = u THEN executable[p] ELSE runs[s]
          /\ started'[s] = IF s = u THEN NoChildren ELSE started[s]
  BY <1>1 DEF TypeInv, TypeOK
<1>4. TypeInv'
  BY TypeStep DEF Next
<1>5. \A q \in Pids : ~Knows(u, q)
  BY <1>1 DEF ChildrenKept, Unborn
<1>6. \A s \in Threads, q \in Pids : Knows(s, q)' <=> Knows(s, q)
  BY <1>3, <1>5 DEF Knows, NoChildren
<1> HIDE DEF p
<1>7. \A s \in Threads, q \in Pids : Owns(s, q)' <=> Owns(s, q)
  <2>1. processId[u] = NoPid /\ \A q \in Pids : q # NoPid
    BY <1>1, NoPidIsNone DEF Numbered
  <2>2. QED
    BY <1>1, <1>3, <2>1 DEF Owns, Spawning, p
<1>8. Numbered'
  BY <1>1, <1>2, <1>3 DEF Numbered, Unborn, Spawning
<1>9. OneOwner'
  BY <1>1, <1>7 DEF OneOwner
<1>10. ChildrenKept'
  <2>1. \A s \in Threads \ {u}, q \in Pids : started'[s][q] = started[s][q]
    BY <1>3
  <2>2. QED
    BY <1>1, <1>3, <1>5, <1>6, <2>1 DEF ChildrenKept, Unborn
<1>11. OneKnower' /\ ParentsKnow' /\ SlotsKnown'
  BY <1>1, <1>3, <1>5, <1>6 DEF OneKnower, ParentsKnow, SlotsKnown
<1>12. CallersKnow'
  BY <1>1, <1>3, <1>6 DEF CallersKnow, TypeInv, HandsFull, Spawning
<1>13. SleepersWait' /\ ZombiesTell' /\ RunsWhatWasSpawned'
  BY <1>1, <1>2, <1>3 DEF SleepersWait, ZombiesTell, RunsWhatWasSpawned
<1>14. QED
  BY <1>4, <1>8, <1>9, <1>10, <1>11, <1>12, <1>13

\* Nothing but the panic: there is no row for a thread.
LEMMA TableSpawnNoThread ==
    ASSUME TableInv, NEW t \in Threads, SpawnNoThread(t)
    PROVE  TableInv'
<1>1. UNCHANGED <<state, executable, retval, parent, processId, at, hand, runs, started>>
  BY DEF SpawnNoThread, table, threads
<1>2. TypeInv'
  BY TypeStep DEF Next, TableInv
<1>3. QED
  BY <1>1, <1>2
  DEF TableInv, Numbered, OneOwner, ChildrenKept, OneKnower, ParentsKnow, CallersKnow,
      SlotsKnown, SleepersWait, ZombiesTell, RunsWhatWasSpawned, Knows, Owns

\* A program that has joined its children leaves no slot behind it.
LEMMA ExitLosesNothing ==
    ASSUME TableInv, NEW t \in Threads, at[t] = "user", started[t] = NoChildren,
           t # StartupThread
    PROVE  processId[t] \in Pids /\ ChildrenOf(processId[t]) = {}
<1> USE DEF TableInv
<1>1. processId[t] \in Pids
  BY DEF Numbered, Unborn, TypeInv, TypeOK
<1>2. ASSUME NEW q \in Pids, parent[q] = processId[t] PROVE FALSE
  <2>1. PICK s \in Threads : Knows(s, q) /\ processId[s] = processId[t]
    BY <1>1, <1>2, NoPidIsNone DEF ParentsKnow
  <2>2. Owns(s, processId[t]) /\ Owns(t, processId[t])
    BY <2>1 DEF ChildrenKept, Unborn, Owns
  <2>3. s = t
    BY <1>1, <2>2 DEF OneOwner
  <2>4. QED
    BY <2>1, <2>3 DEF Knows, NoChildren
<1>3. QED
  BY <1>1, <1>2 DEF ChildrenOf

\* process_finish of such a program: its slot becomes a zombie, with the value of
\* the program, and the joiner goes on.
LEMMA TableFinish ==
    ASSUME TableInv, ~OrphansAllowed, NEW t \in Threads, ProcessFinish(t)
    PROVE  TableInv'
<1> USE DEF TableInv
<1> DEFINE p == processId[t]
<1>1. /\ at[t] = "user" /\ t # StartupThread /\ started[t] = NoChildren
      /\ UNCHANGED <<processId, hand, runs, started>>
  BY DEF ProcessFinish, Running, MayExit
<1>2. p \in Pids /\ ChildrenOf(p) = {}
  BY <1>1, ExitLosesNothing
<1>3. /\ \A q \in Pids : state'[q] = IF q = p THEN "ZOMBIE" ELSE state[q]
      /\ \A q \in Pids : retval'[q] = IF q = p THEN runs[t] ELSE retval[q]
      /\ \A q \in Pids : executable'[q] = executable[q] /\ parent'[q] = parent[q]
      /\ \A s \in Threads :
             at'[s] = IF s = t THEN "dying"
                      ELSE IF at[s] = "asleep" /\ hand[s] = p THEN "join" ELSE at[s]
  BY <1>2 DEF ProcessFinish, Reset, SleepersOn
<1>4. TypeInv'
  BY TypeStep DEF Next
<1>5. /\ Owns(t, p) /\ state[p] = "RUNNING" /\ runs[t] = executable[p]
      /\ \A s \in Threads : Owns(s, p) => s = t
      /\ \A q \in Pids : Owns(t, q) => q = p
      /\ \A q \in Pids : ~Knows(t, q)
  <2>1. Owns(t, p) /\ runs[t] = executable[p]
    BY <1>1, <1>2, NoPidIsNone DEF Owns, RunsWhatWasSpawned
  <2>2. \A q \in Pids : Owns(t, q) => q = p
    BY <1>1 DEF Owns, Spawning
  <2>3. \A q \in Pids : ~Knows(t, q)
    BY <1>1 DEF Knows, NoChildren
  <2>4. QED
    BY <1>2, <2>1, <2>2, <2>3 DEF OneOwner
<1> HIDE DEF p
<1>6. \A s \in Threads, q \in Pids : Knows(s, q)' <=> Knows(s, q)
  BY <1>1 DEF Knows
<1>7. \A s \in Threads, q \in Pids : Owns(s, q)' <=> Owns(s, q) /\ s # t
  BY <1>1, <1>3 DEF Owns, Spawning
<1>8. Numbered'
  BY <1>1, <1>3, ProcessTableAssumption DEF Numbered, Unborn, Spawning
<1>9. OneOwner'
  BY <1>2, <1>3, <1>5, <1>7 DEF OneOwner
<1>10. ChildrenKept'
  BY <1>1, <1>3, <1>5, <1>6 DEF ChildrenKept, Unborn
<1>11. OneKnower' /\ ParentsKnow' /\ SlotsKnown'
  BY <1>1, <1>3, <1>5, <1>6 DEF OneKnower, ParentsKnow, SlotsKnown
<1>12. CallersKnow'
  BY <1>1, <1>3, <1>6 DEF CallersKnow, TypeInv, HandsFull, Spawning
<1>13. SleepersWait' /\ ZombiesTell'
  BY <1>1, <1>3, <1>5 DEF SleepersWait, ZombiesTell, TypeInv, HandsFull
<1>14. RunsWhatWasSpawned'
  BY <1>1, <1>3 DEF RunsWhatWasSpawned, TypeInv, TypeOK
<1>15. QED
  BY <1>4, <1>8, <1>9, <1>10, <1>11, <1>12, <1>13, <1>14

\* The row of a dying thread is free.
LEMMA TableRowFreed ==
    ASSUME TableInv, NEW t \in Threads, RowFreed(t)
    PROVE  TableInv'
<1> USE DEF TableInv
<1>1. /\ at[t] = "dying" /\ at' = [at EXCEPT ![t] = "free"]
      /\ started' = [started EXCEPT ![t] = NoChildren]
      /\ runs' = [runs EXCEPT ![t] = NoProgram]
      /\ UNCHANGED <<state, executable, retval, parent, processId, hand>>
  BY DEF RowFreed, Running, MoveTo, table
<1>2. \A s \in Threads :
          /\ at'[s] = IF s = t THEN "free" ELSE at[s]
          /\ started'[s] = IF s = t THEN NoChildren ELSE started[s]
          /\ runs'[s] = IF s = t THEN NoProgram ELSE runs[s]
  BY <1>1 DEF TypeInv, TypeOK
<1>3. TypeInv'
  BY TypeStep DEF Next
<1>4. \A q \in Pids : ~Knows(t, q)
  BY <1>1 DEF ChildrenKept, Unborn
<1>5. \A s \in Threads, q \in Pids : Knows(s, q)' <=> Knows(s, q)
  BY <1>2, <1>4 DEF Knows, NoChildren
<1>6. \A s \in Threads, q \in Pids : Owns(s, q)' <=> Owns(s, q)
  BY <1>1, <1>2 DEF Owns, Spawning
<1>7. Numbered'
  BY <1>1, <1>2, ProcessTableAssumption DEF Numbered, Unborn, Spawning
<1>8. OneOwner'
  BY <1>1, <1>6 DEF OneOwner
<1>9. ChildrenKept'
  BY <1>1, <1>2, <1>4, <1>5 DEF ChildrenKept, Unborn
<1>10. OneKnower' /\ ParentsKnow' /\ SlotsKnown'
  BY <1>1, <1>2, <1>5 DEF OneKnower, ParentsKnow, SlotsKnown
<1>11. CallersKnow'
  BY <1>1, <1>2, <1>5 DEF CallersKnow, TypeInv, HandsFull, Spawning
<1>12. SleepersWait' /\ ZombiesTell' /\ RunsWhatWasSpawned'
  BY <1>1, <1>2 DEF SleepersWait, ZombiesTell, RunsWhatWasSpawned
<1>13. QED
  BY <1>3, <1>7, <1>8, <1>9, <1>10, <1>11, <1>12

\* process_join lets through who knows the child.
LEMMA TableJoinCheck ==
    ASSUME TableInv, NEW t \in Threads, NEW p \in Pids, JoinCheck(t, p)
    PROVE  TableInv'
<1> USE DEF TableInv
<1>1. /\ at[t] = "user" /\ at' = [at EXCEPT ![t] = "join"]
      /\ hand' = [hand EXCEPT ![t] = p] /\ parent[p] = processId[t]
      /\ t = StartupThread => Knows(t, p)
      /\ UNCHANGED <<state, executable, retval, parent, processId, runs, started>>
  BY DEF JoinCheck, Running, MoveTo, table, Knows
<1>2. \A s \in Threads : /\ at'[s] = IF s = t THEN "join" ELSE at[s]
                         /\ hand'[s] = IF s = t THEN p ELSE hand[s]
  BY <1>1 DEF TypeInv, TypeOK
<1>3. TypeInv'
  BY TypeStep DEF Next
<1>4. Knows(t, p)
  <2>1. CASE t = StartupThread
    BY <1>1, <2>1
  <2>2. CASE t # StartupThread
    <3>1. processId[t] # NoPid /\ processId[t] \in Pids
      BY <1>1, <2>2 DEF Numbered, Unborn, TypeInv, TypeOK
    <3>2. PICK s \in Threads : Knows(s, p) /\ processId[s] = processId[t]
      BY <1>1, <3>1 DEF ParentsKnow
    <3>3. Owns(s, processId[t]) /\ Owns(t, processId[t])
      BY <1>1, <3>2 DEF ChildrenKept, Unborn, Owns
    <3>4. QED
      BY <3>1, <3>2, <3>3 DEF OneOwner
  <2>3. QED
    BY <2>1, <2>2
<1>5. \A s \in Threads, q \in Pids : Knows(s, q)' <=> Knows(s, q)
  BY <1>1 DEF Knows
<1>6. \A s \in Threads, q \in Pids : Owns(s, q)' <=> Owns(s, q)
  BY <1>1, <1>2 DEF Owns, Spawning
<1>7. Numbered'
  BY <1>1, <1>2, ProcessTableAssumption DEF Numbered, Unborn, Spawning
<1>8. OneOwner'
  BY <1>1, <1>6 DEF OneOwner
<1>9. ChildrenKept'
  BY <1>1, <1>2, <1>5 DEF ChildrenKept, Unborn
<1>10. OneKnower' /\ ParentsKnow' /\ SlotsKnown'
  BY <1>1, <1>2, <1>5 DEF OneKnower, ParentsKnow, SlotsKnown
<1>11. CallersKnow'
  BY <1>1, <1>2, <1>4, <1>5 DEF CallersKnow, TypeInv, HandsFull, Spawning
<1>12. SleepersWait' /\ ZombiesTell' /\ RunsWhatWasSpawned'
  BY <1>1, <1>2 DEF SleepersWait, ZombiesTell, RunsWhatWasSpawned
<1>13. QED
  BY <1>3, <1>7, <1>8, <1>9, <1>10, <1>11, <1>12

\* Who goes to sleep has seen, under the lock, that the child is no zombie.
LEMMA TableJoinSleep ==
    ASSUME TableInv, NEW t \in Threads, JoinSleep(t)
    PROVE  TableInv'
<1> USE DEF TableInv
<1>1. /\ at[t] = "join" /\ at' = [at EXCEPT ![t] = "asleep"] /\ state[hand[t]] # "ZOMBIE"
      /\ UNCHANGED <<state, executable, retval, parent, processId, hand, runs, started>>
  BY DEF JoinSleep, Running, MoveTo, table
<1>2. \A s \in Threads : at'[s] = IF s = t THEN "asleep" ELSE at[s]
  BY <1>1 DEF TypeInv, TypeOK
<1>3. TypeInv'
  BY TypeStep DEF Next
<1>4. hand[t] \in Pids /\ Knows(t, hand[t]) /\ state[hand[t]] = "RUNNING"
  <2>1. hand[t] \in Pids /\ Knows(t, hand[t])
    BY <1>1 DEF TypeInv, HandsFull, CallersKnow
  <2>2. QED
    BY <1>1, <2>1 DEF ChildrenKept, TypeInv, TypeOK
<1>5. \A s \in Threads, q \in Pids : Knows(s, q)' <=> Knows(s, q)
  BY <1>1 DEF Knows
<1>6. \A s \in Threads, q \in Pids : Owns(s, q)' <=> Owns(s, q)
  BY <1>1, <1>2 DEF Owns, Spawning
<1>7. Numbered'
  BY <1>1, <1>2, ProcessTableAssumption DEF Numbered, Unborn, Spawning
<1>8. OneOwner'
  BY <1>1, <1>6 DEF OneOwner
<1>9. ChildrenKept'
  BY <1>1, <1>2, <1>5 DEF ChildrenKept, Unborn
<1>10. OneKnower' /\ ParentsKnow' /\ SlotsKnown'
  BY <1>1, <1>2, <1>5 DEF OneKnower, ParentsKnow, SlotsKnown
<1>11. CallersKnow'
  BY <1>1, <1>2, <1>5 DEF CallersKnow, TypeInv, HandsFull, Spawning
<1>12. SleepersWait'
  BY <1>1, <1>2, <1>4 DEF SleepersWait
<1>13. ZombiesTell' /\ RunsWhatWasSpawned'
  BY <1>1, <1>2 DEF ZombiesTell, RunsWhatWasSpawned
<1>14. QED
  BY <1>3, <1>7, <1>8, <1>9, <1>10, <1>11, <1>12, <1>13

\* The joiner frees the zombie's slot and forgets it; nobody else had it in hand.
LEMMA TableJoinReturn ==
    ASSUME TableInv, NEW t \in Threads, JoinReturn(t)
    PROVE  TableInv'
<1> USE DEF TableInv
<1> DEFINE p == hand[t]
<1>1. /\ at[t] = "join" /\ at' = [at EXCEPT ![t] = "user"] /\ state[p] = "ZOMBIE"
      /\ state' = [state EXCEPT ![p] = "FREE"]
      /\ retval' = [retval EXCEPT ![p] = NoProgram]
      /\ hand' = [hand EXCEPT ![t] = NoPid]
      /\ started' = [started EXCEPT ![t] = [@ EXCEPT ![p] = NoProgram]]
      /\ Reset({p}) /\ UNCHANGED <<processId, runs>>
  BY DEF JoinReturn, Running, MoveTo, ChildIsDone
<1>2. p \in Pids /\ Knows(t, p)
  BY <1>1 DEF TypeInv, HandsFull, CallersKnow
<1>3. /\ \A s \in Threads : /\ at'[s] = IF s = t THEN "user" ELSE at[s]
                            /\ hand'[s] = IF s = t THEN NoPid ELSE hand[s]
      /\ \A q \in Pids : /\ state'[q] = IF q = p THEN "FREE" ELSE state[q]
                         /\ retval'[q] = IF q = p THEN NoProgram ELSE retval[q]
                         /\ executable'[q] = IF q = p THEN NoProgram ELSE executable[q]
                         /\ parent'[q] = IF q = p THEN NoPid ELSE parent[q]
      /\ \A s \in Threads, q \in Pids :
             started'[s][q] = IF s = t /\ q = p THEN NoProgram ELSE started[s][q]
      /\ \A s \in Threads : processId'[s] = processId[s] /\ runs'[s] = runs[s]
  BY <1>1, <1>2 DEF TypeInv, TypeOK, Reset
<1>4. TypeInv'
  BY TypeStep DEF Next
<1>5. /\ at[t] = "join" /\ state[p] = "ZOMBIE" /\ hand[t] = p
      /\ \A q \in Pids : q # NoPid
      /\ \A s \in Threads : Knows(s, p) => s = t
      /\ \A s \in Threads : ~Owns(s, p)
  BY <1>1, <1>2, NoPidIsNone DEF OneKnower, OneOwner
<1> HIDE DEF p
<1>6. \A s \in Threads, q \in Pids : Knows(s, q)' <=> Knows(s, q) /\ ~(s = t /\ q = p)
  BY <1>3 DEF Knows
<1>7. \A s \in Threads, q \in Pids : Owns(s, q)' <=> Owns(s, q)
  BY <1>3, <1>5 DEF Owns, Spawning
<1>8. Numbered'
  BY <1>3, <1>5, ProcessTableAssumption DEF Numbered, Unborn, Spawning
<1>9. OneOwner'
  BY <1>3, <1>5, <1>7 DEF OneOwner
<1>10. ChildrenKept'
  BY <1>3, <1>5, <1>6 DEF ChildrenKept, Unborn
<1>11. OneKnower' /\ ParentsKnow' /\ SlotsKnown'
  BY <1>2, <1>3, <1>5, <1>6 DEF OneKnower, ParentsKnow, SlotsKnown
<1>12. CallersKnow'
  <2>1. \A s \in Threads \ {t} :
            at[s] \in {"name", "parent", "create", "join", "asleep"} =>
                hand[s] # p /\ hand[s] \in Pids
    <3>1. \A s \in Threads \ {t} : at[s] = "name" => hand[s] # p
      BY <1>2 DEF CallersKnow
    <3>2. QED
      BY <1>5, <3>1 DEF CallersKnow, TypeInv, HandsFull, Spawning
  <2>2. QED
    BY <1>3, <1>5, <1>6, <2>1 DEF CallersKnow
<1>13. SleepersWait' /\ ZombiesTell'
  BY <1>3, <1>5 DEF SleepersWait, ZombiesTell, TypeInv, HandsFull
<1>14. RunsWhatWasSpawned'
  <2>1. \A s \in Threads : at[s] \notin {"free", "dying"} => processId[s] # p
    BY <1>5 DEF Owns
  <2>2. QED
    BY <1>3, <1>5, <2>1 DEF RunsWhatWasSpawned, TypeInv, TypeOK
<1>15. QED
  BY <1>4, <1>8, <1>9, <1>10, <1>11, <1>12, <1>13, <1>14

LEMMA TableStep == ASSUME ~OrphansAllowed PROVE TableInv /\ [Next]_vars => TableInv'
<1> SUFFICES ASSUME TableInv, [Next]_vars PROVE TableInv'
  OBVIOUS
<1>1. CASE UNCHANGED vars
  <2>1. TypeInv'
    BY TypeStep DEF TableInv
  <2>2. QED
    BY <1>1, <2>1
    DEF vars, table, threads, TableInv, Numbered, OneOwner, ChildrenKept, OneKnower,
        ParentsKnow, CallersKnow, SlotsKnown, SleepersWait, ZombiesTell,
        RunsWhatWasSpawned, Knows, Owns
<1>2. CASE Next
  BY <1>2, TableSpawnAlloc, TableSpawnName, TableSpawnParent, TableSpawnThread,
     TableSpawnNoThread, TableStart, TableFinish, TableRowFreed, TableJoinCheck,
     TableJoinSleep, TableJoinReturn
  DEF Next
<1>3. QED
  BY <1>1, <1>2

LEMMA TableInvariance == ASSUME ~OrphansAllowed PROVE Spec => []TableInv
<1>1. TableInv /\ [Next]_vars => TableInv'
  BY TableStep
<1>2. QED
  BY <1>1, TableInit, PTL DEF Spec

-----------------------------------------------------------------------------
\* A running slot has exactly one thread, a free one none, and a zombie exactly one
\* parent that can collect it: no interleaving of process_spawn, process_start,
\* process_finish and process_join loses or shares a slot (process.c:60-344).
THEOREM SlotsOwnedOnceAlways == ASSUME ~OrphansAllowed PROVE Spec => []SlotsOwnedOnce
<1>1. TableInv => SlotsOwnedOnce
  <2> SUFFICES ASSUME TableInv, NEW p \in Pids
               PROVE  /\ Cardinality(OwnersOf(p)) = (IF state[p] = "RUNNING" THEN 1 ELSE 0)
                      /\ state[p] = "ZOMBIE" => Cardinality(ParentsOf(p)) = 1
    BY DEF SlotsOwnedOnce
  <2> USE DEF TableInv
  <2>1. OwnersOf(p) = {t \in Threads : Owns(t, p)}
    BY DEF OwnersOf, Owns, Spawning
  <2>2. Cardinality(OwnersOf(p)) = (IF state[p] = "RUNNING" THEN 1 ELSE 0)
    <3>1. CASE state[p] = "RUNNING"
      <4>1. PICK t \in Threads : Owns(t, p)
        BY <3>1 DEF OneOwner
      <4>2. OwnersOf(p) = {t}
        BY <2>1, <4>1 DEF OneOwner
      <4>3. QED
        BY <3>1, <4>2, FS_Singleton
    <3>2. CASE state[p] # "RUNNING"
      <4>1. OwnersOf(p) = {}
        BY <2>1, <3>2 DEF OneOwner
      <4>2. QED
        BY <3>2, <4>1, FS_EmptySet
    <3>3. QED
      BY <3>1, <3>2
  <2>3. ASSUME state[p] = "ZOMBIE" PROVE Cardinality(ParentsOf(p)) = 1
    <3>1. \A t \in Threads : ~Owns(t, p)
      BY <2>3 DEF OneOwner
    <3>2. PICK t \in Threads : Knows(t, p)
      BY <2>3, <3>1 DEF SlotsKnown, Owns, Spawning
    <3>3. at[t] \notin {"free", "dying"} /\ parent[p] = processId[t]
      BY <3>1, <3>2 DEF ChildrenKept, Unborn, Owns, Spawning
    <3>4. ParentsOf(p) = {t}
      BY <3>2, <3>3 DEF ParentsOf, OneKnower, Knows
    <3>5. QED
      BY <3>4, FS_Singleton
  <2>4. QED
    BY <2>2, <2>3
<1>2. QED
  BY <1>1, TableInvariance, PTL

\* The child a thread sleeps for in process_join still runs and is its own: the
\* wake-up of process_finish was not missed (process.c:272-325).
THEOREM JoinersNotForgottenAlways ==
    ASSUME ~OrphansAllowed PROVE Spec => []JoinersNotForgotten
<1>1. TableInv => JoinersNotForgotten
  <2> SUFFICES ASSUME TableInv, NEW t \in Threads, at[t] = "asleep"
               PROVE  state[hand[t]] = "RUNNING" /\ parent[hand[t]] = processId[t]
    BY DEF JoinersNotForgotten
  <2> USE DEF TableInv
  <2>1. state[hand[t]] = "RUNNING"
    BY DEF SleepersWait
  <2>2. hand[t] \in Pids /\ Knows(t, hand[t])
    BY DEF TypeInv, HandsFull, CallersKnow
  <2>3. QED
    BY <2>1, <2>2 DEF ChildrenKept
<1>2. QED
  BY <1>1, TableInvariance, PTL

\* A process runs the program that process_spawn put into its slot: process_start
\* reads it without the lock, and nobody reset or refilled the slot (process.c:92-128).
THEOREM RunsWhatWasSpawnedAlways ==
    ASSUME ~OrphansAllowed PROVE Spec => []RunsWhatWasSpawned
<1>1. TableInv => RunsWhatWasSpawned
  BY DEF TableInv
<1>2. QED
  BY <1>1, TableInvariance, PTL

\* process_join returns the value of the program that the caller spawned, whatever
\* happened to the slot in between (process.c:313).
THEOREM JoinReturnsOwnChildAlways ==
    ASSUME ~OrphansAllowed PROVE Spec => JoinReturnsOwnChild
<1> DEFINE Returned ==
        \A t \in Threads :
            at[t] = "join" /\ at'[t] = "user" => retval[hand[t]] = started[t][hand[t]]
<1>1. TableInv /\ [Next]_vars => [Returned]_vars
  <2> SUFFICES ASSUME TableInv, [Next]_vars, NEW t \in Threads,
                      at[t] = "join", at'[t] = "user"
               PROVE  retval[hand[t]] = started[t][hand[t]]
    OBVIOUS
  <2> USE DEF TableInv
  <2>1. hand[t] \in Pids /\ Knows(t, hand[t])
    BY DEF TypeInv, HandsFull, CallersKnow
  <2>2. JoinReturn(t)
    <3>1. Next /\ at \in [Threads -> Places]
      BY DEF vars, threads, TypeInv, TypeOK
    <3>2. PICK s \in Threads :
            \/ SpawnAlloc(s) \/ SpawnParent(s) \/ SpawnNoThread(s)
            \/ \E program \in Programs : SpawnName(s, program)
            \/ \E u \in Threads : SpawnThread(s, u)
            \/ ProcessStart(s) \/ ProcessFinish(s) \/ RowFreed(s)
            \/ \E p \in Pids : JoinCheck(s, p)
            \/ JoinSleep(s) \/ JoinReturn(s)
      BY <3>1 DEF Next
    <3>3. ~(SpawnAlloc(s) \/ SpawnParent(s) \/ SpawnNoThread(s) \/ JoinSleep(s)
            \/ ProcessStart(s) \/ RowFreed(s))
      BY <3>1 DEF SpawnAlloc, SpawnParent, SpawnNoThread, JoinSleep, ProcessStart,
                  RowFreed, Running, MoveTo, threads
    <3>4. ~ProcessFinish(s)
      BY <3>1 DEF ProcessFinish, Running
    <3>5. /\ \A program \in Programs : ~SpawnName(s, program)
          /\ \A u \in Threads : ~SpawnThread(s, u)
          /\ \A p \in Pids : ~JoinCheck(s, p)
      BY <3>1 DEF SpawnName, SpawnThread, JoinCheck, Running, MoveTo
    <3>6. JoinReturn(s)
      BY <3>2, <3>3, <3>4, <3>5
    <3>7. QED
      BY <3>1, <3>6 DEF JoinReturn, Running, MoveTo
  <2>3. state[hand[t]] = "ZOMBIE"
    BY <2>2 DEF JoinReturn, ChildIsDone
  <2>4. QED
    BY <2>1, <2>3 DEF ZombiesTell, ChildrenKept
<1>2. QED
  BY <1>1, TableInvariance, PTL DEF Spec, JoinReturnsOwnChild
=============================================================================
