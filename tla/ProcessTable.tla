----------------------------- MODULE ProcessTable -----------------------------
(***************************************************************************)
(* The process table of proc/process.c: process_spawn, process_start,      *)
(* process_finish and process_join, called by the threads of userland      *)
(* processes through proc/syscall.c and by the startup thread of           *)
(* init/main.c.                                                            *)
(*                                                                         *)
(* A section under process_table_slock is one action; what the code reads  *)
(* or writes in the table without the lock is an action of its own.  The   *)
(* sleep queue is used through its promise, which module Scheduler checks: *)
(* a thread that called sleepq_add under the lock sleeps until a           *)
(* sleepq_wake_all on the same slot.                                       *)
(***************************************************************************)
EXTENDS Integers, FiniteSets

CONSTANTS
    MaxProcesses,    \* PROCESS_MAX_PROCESSES
    Threads,         \* rows of the thread table, without the idle thread's
    StartupThread,   \* the thread of init_startup_thread
    Programs,        \* executables; each exits with a value that names it
    NoProgram,       \* the empty name, and the retval of a slot that was reset
    OrphansAllowed   \* bound: may a program exit without joining its children?

ASSUME ProcessTableAssumption ==
    /\ MaxProcesses \in Nat \ {0}
    /\ StartupThread \in Threads
    /\ NoProgram \notin Programs
    /\ OrphansAllowed \in BOOLEAN

Pids == 0 .. MaxProcesses - 1
NoPid == -1

\* Places of a thread.  free, dying: its row of the thread table is unused, or
\* not yet given back; start: before process_start; user: in its program;
\* name, parent, create: in process_spawn; join, asleep: in process_join.
Places == {"free", "dying", "start", "user", "name", "parent", "create",
           "join", "asleep"}

VARIABLES
    state,        \* process_table[p].state
    executable,   \* process_table[p].executable
    retval,       \* process_table[p].retval
    parent,       \* process_table[p].parent
    processId,    \* thread_table[t].process_id
    at,           \* where thread t is
    hand,         \* the pid that t is starting as, spawning or joining
    runs,         \* the program in t's memory
    started,      \* the children t's program knows of: the program of each
    panicked      \* KERNEL_PANIC or a failed KERNEL_ASSERT

table == <<state, executable, retval, parent>>
threads == <<processId, at, hand, runs>>
vars == <<table, threads, started, panicked>>

NoChildren == [p \in Pids |-> NoProgram]

\* process_init; the startup thread is about to spawn the initial program.
Init ==
    /\ state = [p \in Pids |-> "FREE"]
    /\ executable = [p \in Pids |-> NoProgram]
    /\ retval = [p \in Pids |-> NoProgram]
    /\ parent = [p \in Pids |-> NoPid]
    /\ processId = [t \in Threads |-> NoPid]
    /\ at = [t \in Threads |-> IF t = StartupThread THEN "user" ELSE "free"]
    /\ hand = [t \in Threads |-> NoPid]
    /\ runs = [t \in Threads |-> NoProgram]
    /\ started = [t \in Threads |-> NoChildren]
    /\ panicked = FALSE

Running(t, place) == ~panicked /\ at[t] = place

MoveTo(t, place) == at' = [at EXCEPT ![t] = place]

\* process_reset of every slot in a set.
Reset(slots) ==
    /\ executable' = [p \in Pids |-> IF p \in slots THEN NoProgram ELSE executable[p]]
    /\ parent' = [p \in Pids |-> IF p \in slots THEN NoPid ELSE parent[p]]

-----------------------------------------------------------------------------
\* alloc_process_id: the first free slot; MaxProcesses, and then
\* PROCESS_PTABLE_FULL with nothing changed, if there is none.
FirstFree(p) == state[p] = "FREE" /\ \A q \in 0 .. p - 1 : state[q] # "FREE"

\* Mutant of SpawnAlloc: the slot is found but not marked.
SpawnAllocUnmarked(t) ==
    /\ Running(t, "user")
    /\ t = StartupThread => started[t] = NoChildren
    /\ \E p \in Pids : FirstFree(p) /\ hand' = [hand EXCEPT ![t] = p]
    /\ MoveTo(t, "name")
    /\ UNCHANGED <<table, processId, runs, started, panicked>>

\* Mutant of SpawnAlloc: the full table is not noticed.
SpawnAllocUnbounded(t) ==
    /\ Running(t, "user")
    /\ t = StartupThread => started[t] = NoChildren
    /\ IF \E p \in Pids : FirstFree(p)
       THEN \E p \in Pids :
                /\ FirstFree(p)
                /\ state' = [state EXCEPT ![p] = "RUNNING"]
                /\ hand' = [hand EXCEPT ![t] = p]
       ELSE hand' = [hand EXCEPT ![t] = MaxProcesses] /\ UNCHANGED state
    /\ MoveTo(t, "name")
    /\ UNCHANGED <<executable, retval, parent, processId, runs, started, panicked>>

\* The startup thread spawns one process only.
SpawnAlloc(t) ==
    /\ Running(t, "user")
    /\ t = StartupThread => started[t] = NoChildren
    /\ \E p \in Pids :
           /\ FirstFree(p)
           /\ state' = [state EXCEPT ![p] = "RUNNING"]
           /\ hand' = [hand EXCEPT ![t] = p]
    /\ MoveTo(t, "name")
    /\ UNCHANGED <<executable, retval, parent, processId, runs, started, panicked>>

\* process_spawn goes on without the lock: the name...
SpawnName(t, program) ==
    /\ Running(t, "name")
    /\ executable' = [executable EXCEPT ![hand[t]] = program]
    /\ started' = [started EXCEPT ![t] = [@ EXCEPT ![hand[t]] = program]]
    /\ MoveTo(t, "parent")
    /\ UNCHANGED <<state, retval, parent, processId, hand, runs, panicked>>

\* ... the parent...
SpawnParent(t) ==
    /\ Running(t, "parent")
    /\ parent' = [parent EXCEPT ![hand[t]] = processId[t]]
    /\ MoveTo(t, "create")
    /\ UNCHANGED <<state, executable, retval, processId, hand, runs, started, panicked>>

\* ... and thread_create and thread_run.  The new thread has no process_id yet.
SpawnThread(t, u) ==
    /\ Running(t, "create")
    /\ at[u] = "free"
    /\ at' = [at EXCEPT ![t] = "user", ![u] = "start"]
    /\ hand' = [hand EXCEPT ![t] = NoPid, ![u] = hand[t]]
    /\ processId' = [processId EXCEPT ![u] = NoPid]
    /\ UNCHANGED <<table, runs, started, panicked>>

\* With the thread table full thread_create returns -1, which process_spawn
\* hands to thread_run: an assertion of scheduler_add_to_ready_list fails.
SpawnNoThread(t) ==
    /\ Running(t, "create")
    /\ \A u \in Threads : at[u] # "free"
    /\ panicked' = TRUE
    /\ UNCHANGED <<table, threads, started>>

\* process_start, up to the program's first instruction.  The name is read
\* without the lock; a name that was reset opens no file, which is asserted.
ProcessStart(u) ==
    /\ Running(u, "start")
    /\ processId' = [processId EXCEPT ![u] = hand[u]]
    /\ hand' = [hand EXCEPT ![u] = NoPid]
    /\ runs' = [runs EXCEPT ![u] = executable[hand[u]]]
    /\ started' = [started EXCEPT ![u] = NoChildren]
    /\ panicked' = (executable[hand[u]] = NoProgram)
    /\ MoveTo(u, "user")
    /\ UNCHANGED table

-----------------------------------------------------------------------------
\* The processes whose slot process_finish of process p gives away.
ChildrenOf(p) == {q \in Pids : parent[q] = p}

\* A program exits; by itself only when it has joined the children it knows of.
MayExit(t) == t # StartupThread /\ (OrphansAllowed \/ started[t] = NoChildren)

SleepersOn(p) == {s \in Threads : at[s] = "asleep" /\ hand[s] = p}

\* Mutant of ProcessFinish: sleepq_wake_all is missing.
ProcessFinishNoWake(t) ==
    LET p == processId[t]
        lost == ChildrenOf(p)
    IN  /\ Running(t, "user") /\ MayExit(t)
        /\ state' = [q \in Pids |-> IF q \in lost THEN "FREE"
                                    ELSE IF q = p THEN "ZOMBIE" ELSE state[q]]
        /\ retval' = [q \in Pids |-> IF q \in lost THEN NoProgram
                                     ELSE IF q = p THEN runs[t] ELSE retval[q]]
        /\ Reset(lost)
        /\ MoveTo(t, "dying")
        /\ UNCHANGED <<processId, hand, runs, started, panicked>>

\* process_finish: one section, in which the slot becomes a zombie, the joiner is
\* woken, and the slots of the children are reset; then thread_finish.
ProcessFinish(t) ==
    LET p == processId[t]
        lost == ChildrenOf(p)
    IN  /\ Running(t, "user") /\ MayExit(t)
        /\ state' = [q \in Pids |-> IF q \in lost THEN "FREE"
                                    ELSE IF q = p THEN "ZOMBIE" ELSE state[q]]
        /\ retval' = [q \in Pids |-> IF q \in lost THEN NoProgram
                                     ELSE IF q = p THEN runs[t] ELSE retval[q]]
        /\ Reset(lost)
        /\ at' = [s \in Threads |-> IF s = t THEN "dying"
                                    ELSE IF s \in SleepersOn(p) THEN "join" ELSE at[s]]
        /\ UNCHANGED <<processId, hand, runs, started, panicked>>

\* scheduler_schedule gives back the row of a dying thread.
RowFreed(t) ==
    /\ Running(t, "dying")
    /\ MoveTo(t, "free")
    /\ runs' = [runs EXCEPT ![t] = NoProgram]
    /\ started' = [started EXCEPT ![t] = NoChildren]
    /\ UNCHANGED <<table, processId, hand, panicked>>

-----------------------------------------------------------------------------
\* process_join checks its argument without the lock.  PROCESS_ILLEGAL_JOIN
\* changes nothing.  The startup thread joins the process it spawned.
JoinCheck(t, p) ==
    /\ Running(t, "user")
    /\ parent[p] = processId[t]
    /\ t = StartupThread => started[t][p] # NoProgram
    /\ hand' = [hand EXCEPT ![t] = p]
    /\ MoveTo(t, "join")
    /\ UNCHANGED <<table, processId, runs, started, panicked>>

\* Under the lock, the first time and after each wake-up: sleep...
JoinSleep(t) ==
    /\ Running(t, "join")
    /\ state[hand[t]] # "ZOMBIE"
    /\ MoveTo(t, "asleep")
    /\ UNCHANGED <<table, processId, hand, runs, started, panicked>>

\* Mutant of ChildIsDone: the child's state is not looked at.
ChildIsAnything(p) == TRUE

ChildIsDone(p) == state[p] = "ZOMBIE"

\* ... or take the value and free the slot.  The startup thread then panics.
JoinReturn(t) ==
    LET p == hand[t]
    IN  /\ Running(t, "join")
        /\ ChildIsDone(p)
        /\ state' = [state EXCEPT ![p] = "FREE"]
        /\ retval' = [retval EXCEPT ![p] = NoProgram]
        /\ Reset({p})
        /\ started' = [started EXCEPT ![t] = [@ EXCEPT ![p] = NoProgram]]
        /\ hand' = [hand EXCEPT ![t] = NoPid]
        /\ panicked' = (t = StartupThread)
        /\ MoveTo(t, "user")
        /\ UNCHANGED <<processId, runs>>

-----------------------------------------------------------------------------
Next ==
    \E t \in Threads :
        \/ SpawnAlloc(t) \/ SpawnParent(t) \/ SpawnNoThread(t)
        \/ \E program \in Programs : SpawnName(t, program)
        \/ \E u \in Threads : SpawnThread(t, u)
        \/ ProcessStart(t) \/ ProcessFinish(t) \/ RowFreed(t)
        \/ \E p \in Pids : JoinCheck(t, p)
        \/ JoinSleep(t) \/ JoinReturn(t)

Spec == Init /\ [][Next]_vars
-----------------------------------------------------------------------------
TypeOK ==
    /\ state \in [Pids -> {"FREE", "RUNNING", "ZOMBIE"}]
    /\ executable \in [Pids -> Programs \cup {NoProgram}]
    /\ retval \in [Pids -> Programs \cup {NoProgram}]
    /\ parent \in [Pids -> Pids \cup {NoPid}]
    /\ processId \in [Threads -> Pids \cup {NoPid}]
    /\ at \in [Threads -> Places]
    /\ hand \in [Threads -> Pids \cup {NoPid}]
    /\ runs \in [Threads -> Programs \cup {NoProgram}]
    /\ started \in [Threads -> [Pids -> Programs \cup {NoProgram}]]
    /\ panicked \in BOOLEAN

\* The threads that are making process p, or are p.
OwnersOf(p) ==
    {t \in Threads :
        \/ at[t] \in {"name", "parent", "create", "start"} /\ hand[t] = p
        \/ at[t] \notin {"free", "dying"} /\ processId[t] = p}

\* The threads whose program knows p as its child and that process_join lets
\* join it.
ParentsOf(p) ==
    {t \in Threads :
        /\ at[t] \notin {"free", "dying"}
        /\ parent[p] = processId[t] /\ started[t][p] # NoProgram}

\* A running slot has exactly one thread, a free one none; a zombie has no thread
\* but exactly one parent that can still collect it, so no slot is lost.
SlotsOwnedOnce ==
    ~panicked =>
        \A p \in Pids :
            /\ Cardinality(OwnersOf(p)) = (IF state[p] = "RUNNING" THEN 1 ELSE 0)
            /\ state[p] = "ZOMBIE" => Cardinality(ParentsOf(p)) = 1

\* The child a thread is asleep for has not finished: process_finish makes the
\* zombie and wakes the joiner under one lock.  It is its own child still.
JoinersNotForgotten ==
    \A t \in Threads : at[t] = "asleep" =>
        state[hand[t]] = "RUNNING" /\ parent[hand[t]] = processId[t]

\* A process runs the program that its slot was filled with: nothing reset or
\* refilled the slot between process_spawn and process_start, nor while it runs.
RunsWhatWasSpawned ==
    \A t \in Threads :
        at[t] \notin {"free", "dying"} /\ processId[t] # NoPid =>
            runs[t] = executable[processId[t]]

\* process_join returns the return value of the child it was called for
\* (process.c:313): the value of the program that the caller spawned.
JoinReturnsOwnChild ==
    [][\A t \in Threads :
           at[t] = "join" /\ at'[t] = "user" =>
               retval[hand[t]] = started[t][hand[t]]]_vars
=============================================================================
