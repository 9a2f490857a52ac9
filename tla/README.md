# A TLA+ model of the Buenos kernel of this repository

The repository holds a course's assignments on Buenos, a small multiprocessor
operating system for a simulated MIPS machine (`G1` .. `G4/buenos`), and some
stand-alone C exercises (`G*/c-code`). `G3/buenos` has everything the groups
wrote on top of the original kernel except the TLB handlers of `G4`, so it is
the reference here: paths below are relative to `src/G3/buenos` unless they
begin with another directory.

## Inventory

| Component | State | Operations | What makes it correct |
|---|---|---|---|
| Thread table, scheduler (`kernel/thread.c`, `scheduler.c`, `interrupt.c`) | `thread_table`, the ready list, each CPU's current thread | create, run, switch, finish; schedule on timer and software interrupts | a ready thread is on the list once; no thread on two CPUs; rows reused only when dead; no starvation |
| Sleep queue (`kernel/sleepq.c`) | hash table of chains linked through `thread_table[t].next` | `sleepq_add`, `sleepq_wake`, `sleepq_wake_all` | no lost wake-up, even between `sleepq_add` and `thread_switch`; chains of different resources do not disturb each other |
| Kernel semaphores (`kernel/semaphore.c`) | value, spinlock | create, destroy, P, V | tokens are conserved, waiters served in order, V is safe in interrupt handlers |
| Process table (`proc/process.c`) | a row per process: state, executable, return value, parent | spawn, start, finish, join | rows neither lost nor shared; a join returns its child's value |
| Userland semaphores (`proc/semaphore.c`) | a row per semaphore: name, creator, value, spinlock | create/open, P, V, destroy | one row per name; no sleeper left on a closed row |
| System calls, startup (`proc/syscall.c`, `init/main.c`) | none of their own | dispatch to the above | – |
| Spinlocks, interrupt masking, context switch (`kernel/*.S`) | lock words, registers | acquire, release, save, restore | mutual exclusion |
| Page pool, bitmap, pagetables, TLB (`vm/`, `lib/bitmap.c`, `G4/buenos/vm/tlb.c`) | bitmap and counter, page pairs, TLB rows | allocate, free, map, unmap, fill, handle exceptions | a page has one owner; the TLB agrees with the running thread's table |
| VFS, TFS (`fs/`) | mount table, open files, operation counter; blocks on disk | mount, unmount, open, close, read, write, create, remove | no operation on an unmounted volume; directory and bitmap agree after a stop |
| Disk, terminals (`drivers/`) | request queue, ring buffers | submit, interrupt handlers, read, write | each request is served once; no character is overwritten |
| Network (`net/`) | sockets, POP's receive queue | open, close, send, receive, service thread | a frame is delivered or dropped once, and freed once |
| Exercises (`G3/c-code/queue2`, `G1/c-code/heap.c`) | array with a lock per element; array heap | put, get, expand; insert, pop | elements are neither lost nor doubled; no thread waits for ever |

How they interact: threads enter the kernel by system calls; every blocking
operation ends in `sleepq_add` followed by `thread_switch`, whose software
interrupt calls `scheduler_schedule`; interrupt handlers call `sleepq_wake*` and
`semaphore_V`, which take `sleepq_slock` and, nested in it, `thread_table_slock`.
Processes are kernel threads with a row in the process table; `process_join` and
`process_finish` meet in the sleep queue. Drivers, VFS and network are built from
kernel semaphores and spinlocks.

Hard behaviours: several CPUs in the kernel at once; interrupt handlers that wake
threads; two locks over one `next` field; what is read or written outside a lock
(process names and parents, values of fresh semaphores, TFS's directory buffer,
sockets and slots of POP's queue); rows that are recycled (threads, processes,
semaphores, pages, address space identifiers); a stop or a disk error between two
block writes; a halt while calls are in flight; frames lost or replaced.
`PROJECT.json` lists them as hazards, each at its line.

## The modules

| Module | Models | State and actions |
|---|---|---|
| `Scheduler` | thread table, scheduler, sleep queue on any number of CPUs | `threadState`, `sleepsOn`, `ready`, `hashtable`, `nextTid`, `currentThread`, `sleepqSlock` are the variables of the C code; `mode[c]` is the place of a CPU inside the kernel (interrupts disabled), `at[t]` the place of a thread with interrupts enabled |
| `ThreadLists` | the same with the linked lists the code has | adds `next`, `head`, `tail`, `bucket`; each action of `Scheduler` that moves a thread is joined with the code's assignments to the links |
| `KernelSemaphore` | `semaphore_P`, `semaphore_V` | extends `Scheduler` with `value`, `slock`; the lock is kept over the call into the sleep queue, as in the code |
| `AbstractSemaphore` | what semaphores promise | a counter and a first-in first-out queue; `KernelSemaphore` implements it |
| `ProcessTable` | `proc/process.c` with its callers | the four fields of a row, the place of each thread, the program it runs, and what its program believes about its children |
| `UserSemaphore` | `proc/semaphore.c` with its callers | the four fields of a row, sleepers, the place of each process, the handles it holds; `Cut` is what `stringcopy` keeps of a name, and `cut` remembers the rows whose name was too long |
| `Tfs` | `fs/tfs.c` | the bitmap, directory and other blocks on the disk, the buffers in memory, the lock; an operation up to its first write is an action, and so is each write |
| `Vfs` | `fs/vfs.c` on a volume of `Tfs` | mount table, open files, the count of operations and `vfs_deinit`; its actions include those of `Tfs`, failing disk requests and power failures |
| `AbstractVolume` | what `vfs_create` and `vfs_remove` promise | a set of names with sizes, and the request each thread is in; a request changes the set at one moment or not at all, and a fault in the middle of it tears the volume; `Vfs` implements it |
| `PagePool` | `vm/pagepool.c` | bitmap and counter of free pages, used by the next two |
| `Pop` | `net/socket.c`, `pop.c`, `network.c` | sockets, each used by one thread or by several, POP's queue, the service thread's place, one interface; a section under a semaphore is an action. Two variables only remember: `stale`, the slots whose socket was reopened, and `overtaken`, whether a frame was replaced while it was being discarded |
| `AddressSpace` | `vm/vm.c`, and of `G4` `tlb.c` and its callers | what lies in each page of the pool, read as a pagetable; the pagetables, and the buffers of network and file system, which leave any of `Leftovers` in their pages; the rows of each CPU's TLB, its address space identifier |
| `Disk` | `drivers/disk.c`, and the kernel semaphores it creates and destroys | request queue, request under work, the device, the interrupt handler in its three steps |
| `Tty` | `drivers/tty.c` | both ring buffers with head and count, the terminal, sleepers, handlers |
| `SchedulerProofs`, `ThreadListsProofs`, `KernelSemaphoreProofs`, `ProcessTableProofs`, `UserSemaphoreProofs`, `PopProofs`, `VfsProofs`, `HardwareProofs` | theorems and their proofs (the last about `Disk`, `Tty` and `AddressSpace`) | – |
| `MC*` | the instances for TLC. `MCServices` has three that share no variable, `Disk`, `Tty` and `UserSemaphore`: a variable `part` says whose behaviour is explored, so that the states add up and do not multiply | – |

**Grain.** A section of code under one lock with no call that takes another is one
action; what is done without a lock is an action for each assignment that another
CPU could see. Thus `sleepq_add` is two actions (it writes its own row, then takes
`sleepq_slock`), `sleepq_wake` is four (take the lock; find and unlink; the nested
section of `thread_table_slock`; release), `scheduler_schedule` is two (the
section; then `scheduler_current_thread` is written with the lock released). Code
with interrupts disabled cannot be preempted, so its place is the CPU's; a
`TimerInterrupt` is possible in mode "thread" only. Spinning on a lock is a
disabled action. `sleepq_wake` and `sleepq_wake_all` share their actions:
`wakesAll` says which is running. The same holds for calls from threads and
from interrupt handlers (`inHandler`): after a handler the idle thread is
rescheduled, as `interrupt_handle` does.

In `Tfs` the grain is the disk's: everything an operation does in memory under
`tfs->lock` before its first write cannot be seen by anyone, so it is one action;
between two writes the machine may stop, or the request fail, and the variable
`struck` remembers between which. The properties say for which such places they
hold: that is what the order of the writes in the code is good for, and where it
is not good enough. In `Pop` the service thread takes a frame out of the queue
under both locks and goes on without one, so its steps after `Scan` are actions.

**Interfaces.** `ProcessTable`, `UserSemaphore` and `Tty` use the sleep queue through
what `Scheduler` shows of it: a thread that went to sleep under a lock sleeps
until a wake-up under the same lock, and the wake-up finds it. `Vfs`, `Pop` and
`Disk` use semaphores through `AbstractSemaphore`. `Tfs` uses the disk through
`Disk`: a request returns once, with its block transferred or an error.

**Environment.** `Scheduler` lets every thread do anything the kernel's interface
offers, in any order, and lets interrupt handlers wake anything at any time. The
others restrict the callers, each in one place:

* `ProcessTable`, by `OrphansAllowed`: may a program exit with children it has not
  joined?
* `UserSemaphore`, by `Careful`: are semaphores opened and closed one at a time, closed
  handles forgotten, and no semaphore without a name looked for (`find_existing_semaphore`
  returns a free row for it)? Only a part of `NamesLeadToOne` holds, and `FreshNotAvailable`
  is asked, without it.
* `Vfs`: a program does not read or write a file while it is removed or after
  (`vfs_remove` does not look at the table of open files, so such a handle leads to
  blocks that may belong to another file), and makes no call on a disk that a fault
  has torn.
* `Pop`: the threads that use a socket do not close it under each other's calls
  (`socket.c:171`: "The socket must not be used after this operation").
* `AddressSpace`: the bytes that others leave in a page are those in `Leftovers`, which the
  theorem takes to be any.

The passing runs show that the code keeps its promises to callers that behave. Two of the
four violation runs show, against the code's own comments, what happens to those that do
not; in the other two nobody misbehaves but the code.

## What the runs check

| Run | Instance | Shows |
|---|---|---|
| `MCScheduler` | 2 CPUs, 4 thread rows, 2 resources in 1 bucket; `sleepq_wake` in threads and `sleepq_wake_all` in handlers | `ThreadLists`, and with it `Scheduler`: the linked lists are the queues (`ListsRepresentQueues`); type invariant; `ReadyListExact`, `OneCpuPerThread`, `ChainsExact`, `SleepersFindable`, `RowsReusedSafely`, and the life cycle of `thread.h` as an action property |
| `MCKernelSemaphore` | 2 CPUs, 4 rows, 2 semaphores in 1 bucket, initial values 0 and 1 | the value counts the waiters; a lock's holder is in the kernel; V finds the waiter it was promised; refinement of `AbstractSemaphore` |
| `MCKernelSemaphoreLive` | the same on 1 CPU | under fairness, a released waiter runs, and so does every ready thread |
| `MCProcessTable` | startup thread and 4 rows, 4 processes, 2 programs | no process slot lost or shared; joiners not forgotten; processes run what was spawned; joins return their child's value |
| `MCProcessOrphans` | the same with `OrphansAllowed` | **violation** of `JoinReturnsOwnChild`: see below |
| `MCUserSemaphoreFresh` | `UserSemaphore` as in `MCServices`, without `Careful` | **violation** of `FreshNotAvailable`: see below |
| `MCVfs` | 2 threads, 2 names, 1 open file, 7 blocks of 2 bytes, 5 calls, 1 fault | the disk is sound after a stop or an error at any write but two; nothing leaks but in one; files show no other file's bytes; unmounts find no one inside; calls and halt never get stuck; refinement of `AbstractVolume` |
| `MCPop` | 2 users, 2 sockets, 2 slots, 4 pages; explored until a frame is `overtaken` | frames are freed once; as many answers as threads that wait, whether they share a socket or not; no signal of the service thread lost; frames reach their port |
| `MCPopDiscard` | the same | **violation** of `FreesReservedPages`: see below |
| `MCServices` | disk: 3 threads, 2 semaphores; terminal: 2 users, buffers of 2 characters, writes of 3; `UserSemaphore`: 3 processes, 2 rows, 4 names, one of them too long and one empty | disk requests are answered once; the read ring holds what was typed; under fairness calls return; a userland semaphore's value counts its sleepers, over re-creations, closed rows have no sleepers, a name leads to one row |
| `MCAddressSpace` | 2 CPUs, 2 thread rows, 2 executables, 5 pages, 2 pagetable rows, 1 TLB row, one foreign buffer at a time | no process reaches a page of another by a mapping of `vm_map`, though TLBs are never cleared, identifiers come again and old rows are loaded |
| `MCAddressSpaceOldRows` | the same, without foreign buffers | **violation** of `MappingsLoaded`: see below |

**Bounds and why they are enough.** `MaxThreads = 4` gives three threads beside
the idle thread: one to wake, one to be woken and one that waits for something
else in the same chain, or one that dies while its row is wanted. Two CPUs are
all that any two sections can need to interleave; two resources in one bucket
force a wake-up to walk past a waiter of the other. A wake-up by a handler
includes everything a wake-up by a thread does to the lists, and `sleepq_wake_all`
everything that `sleepq_wake` does, so of the four `WakeKinds` the run has two, each caller
and each function once (the other two kinds found no error either). `MaxValue` caps a semaphore's value from above; below, the number
of threads does. Four processes and four thread rows give a parent, a child, a
grandchild, and a slot that is reused, with tables that fill up.

In `MCVfs` four blocks beside the system's three hold one file of two blocks with its
inode and one empty file, so `tfs_create` also runs out of space after it has
changed the buffers, and blocks of a removed file go to the next one; a write of
three bytes covers a whole block and part of the next. Five calls (six were tried as
well) let a file be created, removed and created again with a handle open; one fault
is enough because no call follows a tearing one, and any other leaves at most blocks
that stay marked or hold old bytes. In `MCPop` four pages let the queue be full while both
senders hold one; two slots make replacement, and the loop over the slots, real. `MaxSignals`
is one there and two in `MCPopDiscard`; a semaphore that is positive stays so until the
service thread has looked at the whole queue again, so more signals tell it nothing new.
In `MCServices` the disk has fewer semaphores than threads, so that one is
created again while others wait; two characters of buffer are filled twice by a
write of three; two rows and three processes let a row be closed and created again while
another is waited for, and a name that is cut to one that is in use. In `MCAddressSpace`
frames are never given back, so five pages bound
the processes to three, enough for a row of the thread table to be used twice on both
CPUs and for a pagetable to lie where another, or a frame of the network, did; one
executable fills two rows of its pagetable and one only the first, so that a handler looks
behind it and finds what was there. The foreign rows are the worst there can be: they have
a thread's identifier and match every other's too. `View` leaves out what a page held once nobody
can read it any more. With two TLB rows the run is too long to be repeated often, but it found
no error (four million states).

Deadlock is not checked where the system may stop: in `ProcessTable` when
`thread_create` fails (the kernel panics), in `UserSemaphore` when all programs wait
for each other, in `Vfs` after the last call or the halt, in `AddressSpace` when the
pool is empty (an assertion fails). `MCServices` does not check it because of `UserSemaphore`;
that the two drivers do not get stuck is what `RequestsReturn` and `CallsServed` say. It is
checked in all other passing runs. Symmetry is used where no property distinguishes
the values and no liveness is checked. Pids, thread ids, slots and pages that the code
searches in order are numbers.

**Fairness.** A CPU in kernel code goes on (weak fairness of `SchedulerStep` and
of the inner steps): its code loops only on spinlocks. Strong fairness of the
timer: a timer interrupt stays pending until interrupts are enabled, so one that
is possible again and again is taken; `scheduler_schedule` sets the timer at
every dispatch. Nothing forces a thread to call anything. Liveness of semaphores is
checked on one CPU: with several, the fairness of spinlocks (`_spinlock.S` has none)
would have to be assumed. In `Disk` and `Tty` a thread inside a call is scheduled
(which `MCKernelSemaphoreLive` shows of ready threads), the device finishes what it was
given and its interrupt is handled; nobody has to call or to type. There, too, no
fairness among spinlock users is assumed, so `RequestsReturn` begins when the request is
in the queue. The halt needs no fairness between threads: by `NobodyStuck` somebody who
is in a call, or the halt itself, always has a step to take, and by `EveryStepAdvances`
(proved, see below) each of these steps brings a call nearer to its end and throws none back.

**The violations.** `process_finish` frees the slots of an exiting process's
children while their threads go on (a comment there says so), and the
slots are reused; an orphan's `process_finish` then marks the new owner's slot as a
zombie with the orphan's value, and `process_join` returns it, although its
comment promises the child's value (`proc/process.c:313`). `create_fresh_semaphore`
publishes the name before it sets value and lock, although its comment says that
nobody can have the semaphore yet (`proc/semaphore.c:93`).

The service thread of POP discards a frame without marking its slot busy, as it does when it
copies one, and without a lock; `pop_push_frame` may replace and free that frame in
between. The frame is old already if it waited under an open socket that has been
closed since, and `CONFIG_POP_QUEUE_MIN_AGE` may be 0. The page is freed twice, although
`pagepool_free_phys_page` wants it reserved (`vm/pagepool.c:134`, `152`). In `G4` the TLB exception
handlers search all rows of a pagetable, and not only the "valid consecutive mappings"
(`vm/pagetable.h:51`) that the process has made; `vm_create_pagetable` clears none. A process
of the same thread row that touches a page it never mapped gets what its predecessor, or a
network frame, has left there, where the comment says that it is terminated (`vm/tlb.c:107`).

**What else the models taught.** These are stated as exceptions in the properties, or
as restrictions of the environment:

* `tfs_create` writes the bitmap, the directory and then the inode, `tfs_remove` the
  bitmap and then the directory. A stop between directory and inode, or between
  bitmap and directory, leaves an entry that shares blocks or has no inode
  (`Tearing`); one between bitmap and directory of a new file loses blocks (`Leaking`).
* `tfs_open` reads the directory buffer after it has released the lock; this goes wrong
  only together with a removal.
* A volume that was unmounted cannot be mounted again under its name: the row keeps its
  mountpoint (`vfs.c:444`), which `Mount` models by `named`.
* `process_start` never closes the executable it opened (`process.c:104`).
* The test for a full read buffer is off by one (`tty.c:172`): `RingHoldsTyped` shows
  that exactly the oldest character is lost then, and the newest is read twice.
* `create_fresh_semaphore` cuts a name to what fits into a row (`semaphore.c:86`) and compares it
  in full (`42`, `71`). A name that is too long is therefore never found, neither as taken nor to
  be opened, and creating it twice makes two rows of one name: `NamesLeadToOne` exempts the rows
  in `cut`, and shows that there is no other way to two.
* `socket_recvfrom` relies on there being one call at a time on a socket (`pop.c:204-208`), but the
  service thread clears `rbuf` some steps before it signals the caller: the next call is let in,
  has its variables zeroed, and either of the two may return first. `Zero` and `Share` model it;
  `OneAnswerPerReceive` shows that there is still an answer for each, and that a thread which
  shares its socket with nobody is safe.
* A frame remembers the index of its socket, which may be another's by the time it is
  copied (`stale`).
* In `G4` a process may find TLB rows that its predecessor in the thread table left. They, and the
  old rows of pagetables, lead to frames of dead processes only, because frames are never freed:
  `ProcessesIsolated` rests on that leak. It says nothing of rows that `vm_map` has not
  written: the bytes of a network frame may look like any. A process can also be
  terminated for a read-only row of its predecessor.

Each property of a passing run has a mutant: a definition of the model changed as a
plausible bug would change the code, for which TLC finds the property violated. The
mutated forms stand before the definitions they change, each named in its comment.

## What is proved

Every theorem is for all values of the constants that satisfy the module's
assumptions, infinite sets included. Each has the same form: an inductive invariant, given
as a conjunction of named parts, with one lemma for each action and under it one step for
each part the action can disturb.

**`Scheduler`** (`SchedulerProofs`; assumed: at least two rows, `NoCpu`
not a CPU, `NoResource` not a resource, `Hash` a function):

* `TypeCorrect`: `Spec => []TypeOK`. The inductive form is `TypeInv`, which adds
  `WakesSomething`: a CPU in the middle of a wake-up has a resource to wake, or
  `hashtable[Hash[wakes[c]]]` would not be a sequence.
* `OneCpuPerThreadAlways`, `ReadyListExactAlways`: from `SchedInv`. Neither is
  inductive. The scheduler may take the head of the list only because the list
  holds READY threads and nothing else, and what a CPU holds is RUNNING
  or DYING (`HeldRuns`); that a thread made ready by `thread_run` is held by no
  CPU and in no list needs that a created row is NONREADY and belongs to one creator
  (`ChildrenApart`); that the idle thread is never queued by a wake-up needs
  `IdleNeverSleeps`.
* `ThreadLifeCycleAlways`: the action property, from the same invariant, one case
  for each action.
* `SleepersFindableAlways`: no sleeper is out of reach of a wake-up. `SleepInv`
  strengthens it from sleeping threads to all that want to sleep: a thread whose
  `sleepsOn` is set is in its chain, in the hand of a wake-up, or its CPU is on its way
  from `sleepq_add`'s first assignment to the chain (`WantersFindable`). This is the
  argument against the lost wake-up between `sleepq_add` and `thread_switch`.
* `ChainsExactAlways`: the chains hold those that sleep, once, in the right bucket.
  Inductive with `LifeInv` and `ChainInv`: a thread calls `sleepq_add` only while it
  runs and is in no chain (`WantersPlaced`, `MarkedUnchained`), and a wake-up that has
  unlinked a thread still has the lock while the thread's `sleeps_on` is set
  (`HandsLocked`), so that no other finds the mark without the link.
* `RowsReusedSafelyAlways`: from all of these. `LifeInv` is what it needs beside: a dying
  thread goes nowhere, and only a live thread in `thread_create` owns a new row.

**`ThreadLists`** (`ThreadListsProofs`): `ListsRepresentQueuesAlways`. Every step is a step of
`Scheduler` (`StepOfScheduler`), so its invariants hold here, and the proof needs two of
them: the ready list and the chains share no thread, each of which is in one once
(`ListsApart`), or an assignment to a thread's only link field would disturb another
list. `ListInv` states the same of heads and tails in a form that can be followed link by
link (`Represents`, `Linked`) and adds `MarkedEnds`: the link of a thread that `sleepq_add` has marked
and not yet chained ends a list already, because `next` is reset before the lock is taken.

**`KernelSemaphore`** (`KernelSemaphoreProofs`): `KernelSemaphoreTypes`,
`LockHolderInKernelAlways`, `ValueCountsWaitersAlways`, `NoWakeMissesAlways`, and
`ImplementsSemaphoreAlways`, the refinement of `AbstractSemaphore`. Again each step is one of
`Scheduler` (`StepIsSchedulerStep`), whose invariants are `KernelInv`. `CallsInv` adds
that a semaphore's lock is held by the CPU that is in its P or V, all the way into the sleep
queue (`LocksInv`), and that the value, together with a V that has incremented it and not yet
woken anybody, counts the waiters. The refinement maps a semaphore's queue to the threads of
its chain that wait for it, in the order of the chain; `Selected` computes them by a
recursive function, and the lemmas about it go by induction.

**`ProcessTable`** (`ProcessTableProofs`): `TypeCorrect`; and, assuming `~OrphansAllowed`,
`SlotsOwnedOnceAlways`, `JoinersNotForgottenAlways`, `RunsWhatWasSpawnedAlways`,
`JoinReturnsOwnChildAlways`. The assumption is needed: the run `MCProcessOrphans` shows a join
go wrong without it. `TableInv` says that a running slot has one owner (`OneOwner`), and
that slot, parent and the parent's program agree about each child: a child that is known is
in its slot with its program and parent (`ChildrenKept`), one thread knows it
(`OneKnower`), and a slot in use is known to somebody (`SlotsKnown`), so that
`process_finish` frees the slots of an exiting parent's children only when there are none.

**`UserSemaphore`** (`UserSemaphoreProofs`): `ValueCountsSleepersAlways` and
`ClosedUnusedAlways`, which assume `Careful` and are false without it, and
`NamesLeadToOneAlways`, which does not. That no two rows have one name, but for cut ones, is
inductive for all programs (`NamesApart`): a name is compared and written under the table's
lock, and everything else only wipes names. The rest comes from `USInv`: that one
process at a time edits the table (`OneEditor`) and what it has half done (`EditedEntry`)
make a row have a name exactly when it is in use; that handles lead to complete
entries (`HandlesOpen`) keeps P and V away from those being edited; that a process
sleeps in one place (`SleepersApart`) makes V wake one sleeper and no more.

**`Pop`** (`PopProofs`): `PopTypeCorrect`, `PagesHeldOnceAlways`, `OneAnswerPerReceiveAlways`,
`NoMailForgottenAlways`, `MailReachesItsPortAlways`, with no assumption but those on the
constants. The invariant has two halves. `PopCore` holds whatever happens: the pool has counted
right, the service thread transfers a frame only from a slot that is busy, so that
nobody replaces it (`ServiceKnows`), the socket stays open while a thread waits in it
(`SocketsOwned`), and there are as many answers under way as callers (`CallsAnswered`,
`SoleCaller`). `PopRest` holds until a frame is `overtaken`: a page has one holder
(`PagesOwned`), the frame the service thread discards is the one in its slot (`DiscardKnows`), a
packet's socket is its port's (`MailBound`), and `MailSeen`, the argument against the lost
signal: a service thread that sleeps without a signal to come has looked at everything in the
queue. After a double free a page may have two holders, and nothing of the second half
is left; that is why the theorems name it.

**`Vfs`** with the steps of `Tfs` (`VfsProofs`; assumed: the thread table is finite). Faults
and power failures are steps like others, and each theorem names the faults that can break
what it states.

* `UnmountedWhenQuietAlways`. `QuietInv` adds to the property: `vfs_ops` is the number of
  threads between `vfs_start_op` and `vfs_end_op`, and the halt waits for a signal exactly
  while one is to come (`HaltWaits`); who is in a filesystem holds either the mount table or
  an entry of the open file table (`PlacesHeld`); an entry in use is open and has one user,
  and a volume with open entries is mounted (`HandlesHeld`). From these `vfs_unmount`, under
  both semaphores and with no open entry, finds nobody inside, and `vfs_deinit` nobody at all.
* `VfsTypeOKAlways`, from `TypedInv`, which has to hold on a torn disk too. The directory in the
  buffer may have an entry whose inode is -1 (`HalfEntries`), left by a `tfs_create` that ran
  out of blocks; `AtWrite` says that the buffer has none when it is written.
* `HandleNamesItsFileAlways`, from `NamesInv`. `tfs_open` reads the inode from the shared
  buffer after it has released the lock. `Finds`: whatever has been put in the buffer since,
  the entry it found is the same, unless its file has been removed. This needs that the
  directory in the buffer differs from the one on the disk in one entry, which
  `tfs_create` takes from the free ones (`Changing`), and that nobody removes a file that is
  read or written (`Given`, the rule for programs stated above).
* `DiskSoundUnlessTornAlways` and `NothingLeaksAlways`, from `SoundInv` and `KnownInv`. For each
  write still to be done they say what the writes before it have prepared: the blocks of
  a new file are in nobody's file, marked before the entry is written, and in its inode before
  they are filled (`CreateSound`); those of a removed one are unmarked as it had them
  (`RemoveSound`); a write stays in the blocks of its file (`WriteSound`, by the arithmetic of
  block numbers, `LastBlock`). Every marked block belongs to a file or to the one that is being
  created (`Accounted`). The two pairs of writes between which this fails are `Tearing`.
* `FilesKeepToThemselvesAlways`, from `BytesInv`: a file's blocks are filled (`Filled`), or
  its creator is filling them (`Filling`) and has filled those before block `k` (`Zeroed`). It
  leans on `SoundInv`: a write changes one block of one file (`OneBlockWritten`).

* `ImplementsVolumeAlways`, the refinement of `AbstractVolume`, with faults. The set of files is
  read off the disk (`Listing`), a thread's request off its place (`Stage`). The moment of a
  creation is the write of the inode, the third of its writes; that of a removal is the write
  of the bitmap, the first: the entry is still in the directory then, but
  half written (`HalfWritten`), and nobody else can see it under the lock. All other
  steps leave the files as they are, which is what the invariants above are for: the blocks a
  new file takes are in nobody's inode, a removal drops the one entry of its name, and zeros and
  data go to blocks that are no inodes. `SizeKept` is added for the size the inode announces. A
  failed request or a stop counts as one that came before or after that moment, unless it
  is between the two writes of `Tearing`; `AbstractVolume` promises nothing from then on.
* `SomebodyGoesOnAlways`: no deadlock. The semaphores are taken in one order (mount table, open
  files, the filesystem's lock), and `HoldersInv` says where their holders are: a holder of
  the mount table is before or at the open files or in the filesystem, one of the
  open files at the unmount, one of the lock (`AtWrite`) at a write. Follow them and one is
  found that waits for nothing (`HoldersGoOn`); if nothing is held, only calls that end while
  `vfs_deinit` has `vfs_op_sem` wait, and it can go on; and when it waits for the calls in flight
  there are some, or `HaltWaits` has its signal ready.
* `EveryStepAdvancesAlways`: a measure for the end of calls, the place (`Phase`) and then
  the blocks that the loop at that place has left (`Remaining`), gets smaller with each step of the
  call and never larger by another's. `LoopsInv` keeps the loops' counters before their last
  block, on a torn disk too. With the theorem before, no call and no halt
  runs or waits for ever, as far as this can be said without ENABLED and fairness.

**`Disk`, `Tty`, `AddressSpace`** (`HardwareProofs`).

* `RequestsAnsweredOnce` (assumed: `None` is neither a thread nor a semaphore).
  `EachRequestAnsweredOnce` says nothing of who starts the device
  or what a woken thread will find; `DiskInv` adds that an idle driver has an empty queue
  (`IdleMeansEmpty`), that handler and device take turns and the handler answers what was
  transferred (`AnsweredWasTransferred`), and for each place of a thread the value of its
  semaphore and of its request (`CallInv`). The recycled semaphore is safe because the
  handler raises it last and no two calls have the same one (`SemaphoresApart`).
* `RingHoldsTypedAlways`: for buffers of any size. The property is inductive with the types;
  the work is in the arithmetic of head and count modulo the size (`ModApart`,
  `ModShift`).
* `ProcessesIsolatedAlways`. The argument is about all rows that `vm_map` has written, in every
  TLB and in every page that was ever a pagetable, valid or left over: such a row *names* a frame
  under an identifier (`Names`), names come into being only when `MapPage` writes a fresh frame, and
  whatever copies a row, or lets an old one be valid again, makes no new ones. So a frame is
  named under one identifier (`OneIdentifier`) and stays with it when the thread dies
  (`FramesKept`). Other bytes in a page, whatever they are, name nothing: `vm_map` and
  `vm_set_dirty` change only rows below `valid_count`, and those are the process's own.

**Only model-checked.** Of `NobodyStuck`, that who does not wait has a step to take, which needs
ENABLED; and liveness under fairness (`ReleasedRuns`, `RequestsReturn` and the like): both out
of this prover's reach. Every other invariant and action property of a passing run is proved, and
so are both refinements. What `KernelSemaphoreTypes` and
`EveryStepAdvancesAlways` state is only proved.

The library's induction theorems have an operator as a parameter, which the provers cannot
instantiate. Where a proof goes along a list or a recursive function it uses
`SetInduction` instead, a lemma about a set of numbers that contains 0 and the successor of each
of its members.

## Not modelled

* The exercises. `queue2` is a program of its own; its flag `is_updating` and its count of
  users are tested and set in different sections, so with more than one thread no property
  of the queue holds (its hazard says how). The heap is sequential and a unit test reaches it.
* `tlb_fill` of the assignments before `G4` (it rewrites the TLB at each switch and so has
  none of the problems that `AddressSpace` is about); the contents of memory.
* `polltty.c`, SOP sockets, addresses and payloads of frames, asynchronous disk requests
  (they have no caller).
* Context switch, exceptions, boot, `kmalloc`, ELF parsing, formatting, the simulator's
  hardware: code without state of its own, or that runs alone.
* Processes that exit with open semaphores: `process_finish` does not call into
  `proc/semaphore.c`.
* `G1`, `G2`, `G3/c-code`, `G4/buenos-g4*` and `G2/final` hold earlier or other copies of the
  files modelled here; nothing in the models is about them, so only one copy is named.

Assumed: spinlocks exclude each other, memory is sequentially consistent, a CPU with
interrupts disabled is not interrupted.

## Plan

1. Abstract specifications: a process tree for `ProcessTable`, a partial map for
   pagetables, each with its refinement proved from the invariants above; the bytes of files
   in `AbstractVolume`.
2. `queue2` with its races as what may happen, and the heap against sorting.
