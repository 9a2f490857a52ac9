-------------------------------- MODULE Disk --------------------------------
(***************************************************************************)
(* The disk driver and its scheduler (drivers/disk.c, drivers/disksched.c):*)
(* threads that make synchronous requests, the request queue, the device   *)
(* and its interrupt handler, on any number of processors.                 *)
(*                                                                         *)
(* What disk_submit_request does under the device's spinlock with the      *)
(* interrupts disabled is one action.  The handler is taken apart, for the *)
(* thread that it wakes may go on, and come back with another request,     *)
(* before the handler has let go of the lock.  No caller brings a          *)
(* semaphore of its own.                                                   *)
(***************************************************************************)
EXTENDS Integers, Sequences, FiniteSets

CONSTANTS
    Threads,     \* threads that use the disk; the request of t is on t's stack
    Semaphores,  \* the rows that semaphore_create may use
    None         \* NULL

ASSUME DiskAssumption == None \notin Threads \cup Semaphores

VARIABLES
    requestQueue,   \* the requests of these threads wait for the device
    requestServed,  \* the request under work
    handler,        \* where the interrupt handler is; it holds the lock unless "out"
    device,         \* "idle", "busy", or "irq": done and the flag raised
    transferred,    \* threads whose last request has been carried out
    returnValue,    \* return_value of t's request
    sem,            \* its semaphore
    semValue,       \* the value of a semaphore
    dAt,            \* where t is
    returned        \* what t's last call returned

diskVars == <<requestQueue, requestServed, handler, device, transferred, returnValue, sem,
              semValue, dAt, returned>>

\* disk_init
DiskInit ==
    /\ requestQueue = <<>>
    /\ requestServed = None
    /\ handler = "out"
    /\ device = "idle"
    /\ transferred = Threads
    /\ returnValue = [t \in Threads |-> 0]
    /\ sem = [t \in Threads |-> None]
    /\ semValue = [e \in Semaphores |-> 0]
    /\ dAt = [t \in Threads |-> "user"]
    /\ returned = [t \in Threads |-> 1]

FreeSemaphores == {e \in Semaphores : \A t \in Threads : sem[t] # e}

\* The request is initialised, and given a semaphore...
CreateSemaphore(t) ==
    /\ dAt[t] = "user"
    /\ \E e \in FreeSemaphores :
           /\ sem' = [sem EXCEPT ![t] = e]
           /\ semValue' = [semValue EXCEPT ![e] = 0]
    /\ returnValue' = [returnValue EXCEPT ![t] = -1]
    /\ transferred' = transferred \ {t}
    /\ dAt' = [dAt EXCEPT ![t] = "submit"]
    /\ UNCHANGED <<requestQueue, requestServed, handler, device, returned>>

\* ... or there is none, and the call fails.
NoSemaphore(t) ==
    /\ dAt[t] = "user" /\ FreeSemaphores = {}
    /\ returned' = [returned EXCEPT ![t] = 0]
    /\ returnValue' = [returnValue EXCEPT ![t] = -1]
    /\ transferred' = transferred \ {t}
    /\ UNCHANGED <<requestQueue, requestServed, handler, device, sem, semValue, dAt>>

\* disk_next_request: the first of the queue, if any, is put to work.
NextRequest(queue) ==
    IF queue = <<>> THEN /\ requestQueue' = queue
                         /\ requestServed' = None
                         /\ device' = "idle"
                    ELSE /\ requestQueue' = Tail(queue)
                         /\ requestServed' = Head(queue)
                         /\ device' = "busy"

\* Mutant of DriverIdle: an empty queue is taken for an idle driver.
QueueEmpty == requestQueue = <<>>

DriverIdle == requestServed = None

\* The request is queued at the end, and started if the driver is idle.
Submit(t) ==
    /\ dAt[t] = "submit" /\ handler = "out"
    /\ IF DriverIdle
       THEN NextRequest(Append(requestQueue, t))
       ELSE /\ requestQueue' = Append(requestQueue, t)
            /\ UNCHANGED <<requestServed, device>>
    /\ dAt' = [dAt EXCEPT ![t] = "wait"]
    /\ UNCHANGED <<handler, transferred, returnValue, sem, semValue, returned>>

\* semaphore_P(request->sem)
Waited(t) ==
    /\ dAt[t] = "wait" /\ semValue[sem[t]] > 0
    /\ semValue' = [semValue EXCEPT ![sem[t]] = @ - 1]
    /\ dAt' = [dAt EXCEPT ![t] = "destroy"]
    /\ UNCHANGED <<requestQueue, requestServed, handler, device, transferred, returnValue,
                   sem, returned>>

\* The semaphore is destroyed and the call returns.
Complete(t) ==
    /\ dAt[t] = "destroy"
    /\ sem' = [sem EXCEPT ![t] = None]
    /\ returned' = [returned EXCEPT ![t] = IF returnValue[t] = 0 THEN 1 ELSE 0]
    /\ dAt' = [dAt EXCEPT ![t] = "user"]
    /\ UNCHANGED <<requestQueue, requestServed, handler, device, transferred, returnValue, semValue>>

-----------------------------------------------------------------------------
\* The device has transferred the block.
Transfer ==
    /\ device = "busy"
    /\ transferred' = transferred \cup {requestServed}
    /\ device' = "irq"
    /\ UNCHANGED <<requestQueue, requestServed, handler, returnValue, sem, semValue, dAt, returned>>

\* disk_interrupt_handle, with the lock held from here: the device is reset (for
\* an interrupt that is not the disk's nothing happens), the value is set...
InterruptReset ==
    /\ device = "irq" /\ handler = "out"
    /\ device' = "idle"
    /\ returnValue' = [returnValue EXCEPT ![requestServed] = 0]
    /\ handler' = "wake"
    /\ UNCHANGED <<requestQueue, requestServed, transferred, sem, semValue, dAt, returned>>

\* ... the caller is woken...
InterruptWake ==
    /\ handler = "wake"
    /\ semValue' = [semValue EXCEPT ![sem[requestServed]] = @ + 1]
    /\ handler' = "next"
    /\ UNCHANGED <<requestQueue, requestServed, device, transferred, returnValue, sem, dAt,
                   returned>>

\* ... and the next request put to work.
InterruptNext ==
    /\ handler = "next"
    /\ NextRequest(requestQueue)
    /\ handler' = "out"
    /\ UNCHANGED <<transferred, returnValue, sem, semValue, dAt, returned>>

DiskCall(t) == CreateSemaphore(t) \/ NoSemaphore(t)
DiskStep(t) == Submit(t) \/ Waited(t) \/ Complete(t)
DiskInterrupt == InterruptReset \/ InterruptWake \/ InterruptNext

DiskNext ==
    \/ \E t \in Threads : DiskCall(t) \/ DiskStep(t)
    \/ Transfer \/ DiskInterrupt

DiskSpec == DiskInit /\ [][DiskNext]_diskVars

\* A thread in a call is scheduled (see MCKernelSemaphoreLive), the device finishes
\* a transfer, and its interrupt is handled.  Nobody has to make a request.
DiskFairness ==
    /\ \A t \in Threads : WF_diskVars(DiskStep(t))
    /\ WF_diskVars(Transfer \/ DiskInterrupt)

-----------------------------------------------------------------------------
Pending == {requestQueue[i] : i \in DOMAIN requestQueue}

\* The request that the handler has not finished with belongs to a call that is
\* not over; the one it has answered may be gone.
Unanswered == Pending \cup
    (IF requestServed # None /\ handler # "next" THEN {requestServed} ELSE {})

\* No thread is queued twice.
QueuedOnce ==
    \A i, j \in DOMAIN requestQueue : requestQueue[i] = requestQueue[j] => i = j

\* A request is known to the driver from its submission until its semaphore is
\* raised, which happens once and after its value has been set: nothing refers to
\* the stack of a call that is over, no wakeup goes to a semaphore that another
\* call has been given, and a call succeeds exactly if its block was transferred.
EachRequestAnsweredOnce ==
    /\ QueuedOnce
    /\ handler # "next" => requestServed \notin Pending
    /\ \A t \in Threads :
           /\ t \in Unanswered <=> dAt[t] = "wait" /\ semValue[sem[t]] = 0
           /\ dAt[t] = "wait" => semValue[sem[t]] \in {0, 1}
           /\ dAt[t] = "destroy" => semValue[sem[t]] = 0
           /\ dAt[t] = "user" => (returned[t] = 1 <=> t \in transferred)
    /\ \A t, u \in Threads : sem[t] = sem[u] /\ t # u => sem[t] = None

\* A request that is queued or under work is answered and its call returns: the
\* device is started again as long as requests wait.  (Before, the thread competes
\* for a spinlock, which is not fair.)
RequestsReturn ==
    \A t \in Threads : dAt[t] = "wait" ~> dAt[t] = "user"
=============================================================================
