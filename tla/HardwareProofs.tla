---------------------------- MODULE HardwareProofs ----------------------------
(***************************************************************************)
(* Proofs about the code next to the hardware: about module Disk for any   *)
(* set of threads and of semaphores, about the ring of typed characters of *)
(* module Tty for buffers of any size, and about module AddressSpace for   *)
(* any number of processors, threads and pages, and TLBs and pagetables of *)
(* any size.                                                               *)
(***************************************************************************)
EXTENDS Disk, Tty, AddressSpace, TLAPS

-----------------------------------------------------------------------------
(* The disk driver. *)
DiskTypeOK ==
    /\ requestQueue \in Seq(Threads)
    /\ requestServed \in Threads \cup {None}
    /\ handler \in {"out", "wake", "next"}
    /\ device \in {"idle", "busy", "irq"}
    /\ transferred \subseteq Threads
    /\ returnValue \in [Threads -> {-1, 0}]
    /\ sem \in [Threads -> Semaphores \cup {None}]
    /\ semValue \in [Semaphores -> Nat]
    /\ dAt \in [Threads -> {"user", "submit", "wait", "destroy"}]
    /\ returned \in [Threads -> {0, 1}]

\* A driver that serves no request has none: whoever finds it idle starts it.
IdleMeansEmpty ==
    requestServed = None => requestQueue = <<>> /\ handler = "out" /\ device = "idle"

\* The device and the handler take turns, and what the handler answers with
\* success was transferred.
AnsweredWasTransferred ==
    /\ handler # "out" => device = "idle"
    /\ requestServed # None /\ handler = "out" => device # "idle"
    /\ device = "irq" => requestServed \in transferred
    /\ handler = "wake" => requestServed \in transferred /\ returnValue[requestServed] = 0

QueueInv ==
    /\ QueuedOnce
    /\ handler # "next" => requestServed \notin Pending

\* What the place of a thread says of its request and its semaphore.
CallInv(t) ==
    /\ dAt[t] = "user" <=> sem[t] = None
    /\ t \in Unanswered <=> dAt[t] = "wait" /\ semValue[sem[t]] = 0
    /\ dAt[t] = "wait" => semValue[sem[t]] \in {0, 1}
    /\ dAt[t] \in {"submit", "destroy"} => semValue[sem[t]] = 0
    /\ dAt[t] = "user" => (returned[t] = 1 <=> t \in transferred)
    /\ (dAt[t] = "wait" /\ semValue[sem[t]] = 1) \/ dAt[t] = "destroy" =>
           returnValue[t] = 0 /\ t \in transferred

SemaphoresApart ==
    \A t, u \in Threads : sem[t] = sem[u] /\ t # u => sem[t] = None

\* EachRequestAnsweredOnce is not inductive: it does not say who starts the
\* device, nor what a woken thread will find.
DiskInv ==
    /\ DiskTypeOK /\ IdleMeansEmpty /\ AnsweredWasTransferred /\ QueueInv /\ SemaphoresApart
    /\ \A t \in Threads : CallInv(t)

-----------------------------------------------------------------------------
\* Queueing a request adds it, and keeps a queue without duplicates such.
LEMMA AppendHolds ==
    ASSUME NEW s \in Seq(Threads), NEW t \in Threads
    PROVE  LET q == Append(s, t)
           IN  /\ q \in Seq(Threads)
               /\ {q[i] : i \in DOMAIN q} = {s[i] : i \in DOMAIN s} \cup {t}
               /\ (\A i, j \in DOMAIN s : s[i] = s[j] => i = j)
                      /\ t \notin {s[i] : i \in DOMAIN s}
                  => \A i, j \in DOMAIN q : q[i] = q[j] => i = j
<1> DEFINE q == Append(s, t)
<1>1. /\ q \in Seq(Threads) /\ Len(s) \in Nat
      /\ DOMAIN s = 1 .. Len(s) /\ DOMAIN q = 1 .. Len(s) + 1
      /\ \A i \in 1 .. Len(s) : q[i] = s[i]
      /\ q[Len(s) + 1] = t
  OBVIOUS
<1> HIDE DEF q
<1>2. {q[i] : i \in DOMAIN q} = {s[i] : i \in DOMAIN s} \cup {t}
  BY <1>1
<1>3. ASSUME \A i, j \in DOMAIN s : s[i] = s[j] => i = j,
             t \notin {s[i] : i \in DOMAIN s}
      PROVE  \A i, j \in DOMAIN q : q[i] = q[j] => i = j
  BY <1>1, <1>3
<1>4. QED
  BY <1>1, <1>2, <1>3 DEF q

\* Taking the first request of a queue without duplicates removes exactly that one.
LEMMA TailHolds ==
    ASSUME NEW s \in Seq(Threads), s # <<>>,
           \A i, j \in DOMAIN s : s[i] = s[j] => i = j
    PROVE  LET q == Tail(s)
           IN  /\ q \in Seq(Threads) /\ Head(s) \in Threads
               /\ {s[i] : i \in DOMAIN s} = {q[i] : i \in DOMAIN q} \cup {Head(s)}
               /\ Head(s) \notin {q[i] : i \in DOMAIN q}
               /\ \A i, j \in DOMAIN q : q[i] = q[j] => i = j
<1> DEFINE q == Tail(s)
<1>1. /\ q \in Seq(Threads) /\ Len(s) \in Nat \ {0} /\ Head(s) = s[1]
      /\ DOMAIN s = 1 .. Len(s) /\ DOMAIN q = 1 .. Len(s) - 1
      /\ \A i \in 1 .. Len(s) : s[i] \in Threads
      /\ \A i \in 1 .. Len(s) - 1 : q[i] = s[i + 1]
  OBVIOUS
<1> HIDE DEF q
<1>2. Head(s) \in Threads /\ Head(s) \notin {q[i] : i \in DOMAIN q}
  BY <1>1
<1>3. ASSUME NEW i \in DOMAIN q, NEW j \in DOMAIN q, q[i] = q[j] PROVE i = j
  <2>1. i + 1 \in DOMAIN s /\ j + 1 \in DOMAIN s /\ s[i + 1] = s[j + 1]
    BY <1>1, <1>3
  <2>2. i + 1 = j + 1
    BY <2>1
  <2>3. QED
    BY <1>1, <2>2
<1>4. {s[i] : i \in DOMAIN s} = {q[i] : i \in DOMAIN q} \cup {Head(s)}
  <2>1. ASSUME NEW i \in DOMAIN s
        PROVE  s[i] \in {q[k] : k \in DOMAIN q} \cup {Head(s)}
    <3>1. CASE i = 1
      BY <1>1, <3>1
    <3>2. CASE i # 1
      <4>1. i - 1 \in DOMAIN q /\ q[i - 1] = s[i]
        BY <1>1, <3>2
      <4>2. QED
        BY <4>1
    <3>3. QED
      BY <3>1, <3>2
  <2>2. ASSUME NEW k \in DOMAIN q
        PROVE  q[k] \in {s[i] : i \in DOMAIN s}
    <3>1. k + 1 \in DOMAIN s /\ q[k] = s[k + 1]
      BY <1>1
    <3>2. QED
      BY <3>1
  <2>3. Head(s) \in {s[i] : i \in DOMAIN s}
    BY <1>1
  <2>4. QED
    BY <2>1, <2>2, <2>3
<1>5. QED
  BY <1>1, <1>2, <1>3, <1>4 DEF q

-----------------------------------------------------------------------------
\* disk_init leaves an idle driver and no calls.
LEMMA DiskInitInv == DiskInit => DiskInv
<1> SUFFICES ASSUME DiskInit PROVE DiskInv
  OBVIOUS
<1>1. DOMAIN requestQueue = {} /\ requestQueue \in Seq(Threads)
  BY DEF DiskInit
<1>2. QED
  BY <1>1, DiskAssumption
     DEF DiskInit, DiskInv, DiskTypeOK, IdleMeansEmpty, AnsweredWasTransferred, QueueInv,
         QueuedOnce, SemaphoresApart, CallInv, Unanswered, Pending

\* A call begins with a semaphore of its own.
LEMMA CreateSemaphoreInv ==
    ASSUME DiskInv, NEW t \in Threads, CreateSemaphore(t)
    PROVE  DiskInv'
<1>1. PICK e \in FreeSemaphores : sem' = [sem EXCEPT ![t] = e] /\ semValue' = [semValue EXCEPT ![e] = 0]
  BY DEF CreateSemaphore
<1>2. e \in Semaphores /\ e # None /\ \A u \in Threads : sem[u] # e
  BY <1>1, DiskAssumption DEF FreeSemaphores
<1>3. DiskTypeOK' /\ IdleMeansEmpty' /\ QueueInv' /\ Unanswered' = Unanswered
  BY <1>1, <1>2 DEF DiskInv, DiskTypeOK, IdleMeansEmpty, QueueInv, QueuedOnce, Pending, Unanswered,
                    CreateSemaphore
<1>4. t \notin Unanswered
  BY DEF DiskInv, CallInv, CreateSemaphore
<1>5. AnsweredWasTransferred'
  <2>1. device = "irq" \/ handler = "wake" => requestServed # t
    BY <1>4, DiskAssumption DEF DiskInv, DiskTypeOK, Unanswered, IdleMeansEmpty, AnsweredWasTransferred
  <2>2. QED
    BY <2>1 DEF DiskInv, DiskTypeOK, AnsweredWasTransferred, CreateSemaphore
<1>6. SemaphoresApart'
  BY <1>1, <1>2 DEF DiskInv, DiskTypeOK, SemaphoresApart
<1>7. ASSUME NEW u \in Threads PROVE CallInv(u)'
  <2>1. CASE u = t
    BY <1>1, <1>2, <1>3, <1>4, <2>1 DEF DiskInv, DiskTypeOK, CallInv, CreateSemaphore
  <2>2. CASE u # t
    <3>1. sem[u] # None => sem[u] \in Semaphores /\ semValue'[sem[u]] = semValue[sem[u]]
      BY <1>1, <1>2 DEF DiskInv, DiskTypeOK
    <3>2. QED
      BY <1>1, <1>2, <1>3, <2>2, <3>1 DEF DiskInv, DiskTypeOK, CallInv, CreateSemaphore
  <2>3. QED
    BY <2>1, <2>2
<1>8. QED
  BY <1>3, <1>5, <1>6, <1>7 DEF DiskInv

\* A call for which there is no semaphore changes nothing but its result.
LEMMA NoSemaphoreInv ==
    ASSUME DiskInv, NEW t \in Threads, NoSemaphore(t)
    PROVE  DiskInv'
<1>1. DiskTypeOK' /\ IdleMeansEmpty' /\ QueueInv' /\ SemaphoresApart' /\ Unanswered' = Unanswered
  BY DEF DiskInv, DiskTypeOK, IdleMeansEmpty, QueueInv, QueuedOnce, SemaphoresApart, Pending,
         Unanswered, NoSemaphore
<1>2. t \notin Unanswered
  BY DEF DiskInv, CallInv, NoSemaphore
<1>3. AnsweredWasTransferred'
  <2>1. device = "irq" \/ handler = "wake" => requestServed # t
    BY <1>2, DiskAssumption DEF DiskInv, DiskTypeOK, Unanswered, IdleMeansEmpty, AnsweredWasTransferred
  <2>2. QED
    BY <2>1 DEF DiskInv, DiskTypeOK, AnsweredWasTransferred, NoSemaphore
<1>4. ASSUME NEW u \in Threads PROVE CallInv(u)'
  BY <1>1, <1>2 DEF DiskInv, DiskTypeOK, CallInv, NoSemaphore
<1>5. QED
  BY <1>1, <1>3, <1>4 DEF DiskInv

\* The request of a thread that submits it is known to nobody yet; it is put to
\* work at once if the driver is idle, for then none waits.
LEMMA SubmitInv ==
    ASSUME DiskInv, NEW t \in Threads, Submit(t)
    PROVE  DiskInv'
<1> USE DEF DiskInv, DiskTypeOK
<1>1. t \notin Unanswered /\ t \notin Pending /\ requestServed # t
  BY DiskAssumption DEF CallInv, Unanswered, Submit
<1>2. /\ requestQueue' \in Seq(Threads) /\ requestServed' \in Threads \cup {None}
      /\ QueueInv' /\ Unanswered' = Unanswered \cup {t}
      /\ requestServed' # None
  <2> DEFINE q == Append(requestQueue, t)
  <2>1. /\ q \in Seq(Threads)
        /\ {q[i] : i \in DOMAIN q} = Pending \cup {t}
        /\ \A i, j \in DOMAIN q : q[i] = q[j] => i = j
    BY <1>1, AppendHolds DEF Pending, QueueInv, QueuedOnce
  <2>2. CASE requestServed = None
    <3>1. requestQueue = <<>> /\ Pending = {}
      BY <2>2 DEF IdleMeansEmpty, Pending
    <3>2. requestQueue' = <<>> /\ requestServed' = t /\ DOMAIN requestQueue' = {}
      BY <2>2, <3>1 DEF Submit, DriverIdle, NextRequest
    <3>3. QED
      BY <2>2, <3>1, <3>2, DiskAssumption DEF Submit, QueueInv, QueuedOnce, Pending, Unanswered
  <2>3. CASE requestServed # None
    <3>1. requestQueue' = q /\ requestServed' = requestServed
      BY <2>3 DEF Submit, DriverIdle
    <3>2. Pending' = Pending \cup {t} /\ QueuedOnce'
      <4> HIDE DEF q
      <4>1. Pending' = {q[i] : i \in DOMAIN q}
        BY <3>1 DEF Pending
      <4>2. QED
        BY <2>1, <3>1, <4>1 DEF QueuedOnce
    <3>3. QED
      BY <1>1, <2>1, <2>3, <3>1, <3>2 DEF Submit, QueueInv, Unanswered
  <2>4. QED
    BY <2>2, <2>3
<1>3. DiskTypeOK' /\ IdleMeansEmpty' /\ SemaphoresApart'
  BY <1>2 DEF IdleMeansEmpty, SemaphoresApart, Submit, NextRequest
<1>4. AnsweredWasTransferred'
  <2>1. CASE requestServed = None
    <3>1. device' = "busy" /\ handler' = "out"
      BY <1>2, <2>1 DEF Submit, DriverIdle, NextRequest
    <3>2. QED
      BY <3>1 DEF AnsweredWasTransferred
  <2>2. CASE requestServed # None
    BY <2>2 DEF AnsweredWasTransferred, Submit, DriverIdle
  <2>3. QED
    BY <2>1, <2>2
<1>5. ASSUME NEW u \in Threads PROVE CallInv(u)'
  BY <1>1, <1>2 DEF CallInv, Submit
<1>6. QED
  BY <1>2, <1>3, <1>4, <1>5

\* A thread that waits takes the one token that its semaphore gets.
LEMMA WaitedInv ==
    ASSUME DiskInv, NEW t \in Threads, Waited(t)
    PROVE  DiskInv'
<1> USE DEF DiskInv, DiskTypeOK
<1>1. /\ sem[t] \in Semaphores /\ semValue[sem[t]] = 1 /\ t \notin Unanswered
      /\ returnValue[t] = 0 /\ t \in transferred
  BY DEF CallInv, Waited
<1>2. /\ DiskTypeOK' /\ IdleMeansEmpty' /\ AnsweredWasTransferred' /\ QueueInv'
      /\ SemaphoresApart' /\ Unanswered' = Unanswered
  BY <1>1 DEF IdleMeansEmpty, AnsweredWasTransferred, QueueInv, QueuedOnce, SemaphoresApart,
              Pending, Unanswered, Waited
<1>3. ASSUME NEW u \in Threads PROVE CallInv(u)'
  <2>1. CASE u = t
    BY <1>1, <1>2, <2>1 DEF CallInv, Waited
  <2>2. CASE u # t
    <3>1. sem[u] # None => sem[u] \in Semaphores /\ semValue'[sem[u]] = semValue[sem[u]]
      BY <1>1, <2>2 DEF SemaphoresApart, Waited
    <3>2. QED
      BY <1>2, <2>2, <3>1 DEF CallInv, Waited
  <2>3. QED
    BY <2>1, <2>2
<1>4. QED
  BY <1>2, <1>3

\* A call returns success exactly because its block was transferred.
LEMMA CompleteInv ==
    ASSUME DiskInv, NEW t \in Threads, Complete(t)
    PROVE  DiskInv'
<1> USE DEF DiskInv, DiskTypeOK
<1>1. t \notin Unanswered /\ returnValue[t] = 0 /\ t \in transferred
  BY DEF CallInv, Complete
<1>2. /\ DiskTypeOK' /\ IdleMeansEmpty' /\ AnsweredWasTransferred' /\ QueueInv'
      /\ SemaphoresApart' /\ Unanswered' = Unanswered
  BY DEF IdleMeansEmpty, AnsweredWasTransferred, QueueInv, QueuedOnce, SemaphoresApart,
         Pending, Unanswered, Complete
<1>3. ASSUME NEW u \in Threads PROVE CallInv(u)'
  BY <1>1, <1>2 DEF CallInv, Complete
<1>4. QED
  BY <1>2, <1>3

\* The device has carried out the request under work.
LEMMA TransferInv ==
    ASSUME DiskInv, Transfer
    PROVE  DiskInv'
<1> USE DEF DiskInv, DiskTypeOK
<1>1. requestServed \in Threads /\ handler = "out" /\ requestServed \in Unanswered
  BY DEF Transfer, IdleMeansEmpty, AnsweredWasTransferred, Unanswered
<1>2. /\ DiskTypeOK' /\ IdleMeansEmpty' /\ AnsweredWasTransferred' /\ QueueInv'
      /\ SemaphoresApart' /\ Unanswered' = Unanswered
  BY <1>1 DEF IdleMeansEmpty, AnsweredWasTransferred, QueueInv, QueuedOnce, SemaphoresApart,
              Pending, Unanswered, Transfer
<1>3. ASSUME NEW u \in Threads PROVE CallInv(u)'
  BY <1>1, <1>2 DEF CallInv, Transfer
<1>4. QED
  BY <1>2, <1>3

\* The interrupt handler sets the result of a request that is still waited for.
LEMMA InterruptResetInv ==
    ASSUME DiskInv, InterruptReset
    PROVE  DiskInv'
<1> USE DEF DiskInv, DiskTypeOK
<1>1. requestServed \in Threads /\ requestServed \in transferred
  BY DEF InterruptReset, IdleMeansEmpty, AnsweredWasTransferred
<1>2. /\ DiskTypeOK' /\ IdleMeansEmpty' /\ AnsweredWasTransferred' /\ QueueInv'
      /\ SemaphoresApart' /\ Unanswered' = Unanswered
  BY <1>1, DiskAssumption
     DEF IdleMeansEmpty, AnsweredWasTransferred, QueueInv, QueuedOnce, SemaphoresApart,
         Pending, Unanswered, InterruptReset
<1>3. ASSUME NEW u \in Threads PROVE CallInv(u)'
  BY <1>1, <1>2 DEF CallInv, InterruptReset
<1>4. QED
  BY <1>2, <1>3

\* The handler raises the semaphore of the one thread that waits for this request.
LEMMA InterruptWakeInv ==
    ASSUME DiskInv, InterruptWake
    PROVE  DiskInv'
<1> USE DEF DiskInv, DiskTypeOK
<1> DEFINE t == requestServed
<1>1. /\ t \in Threads /\ t \in Unanswered /\ t \notin Pending
      /\ t \in transferred /\ returnValue[t] = 0
  BY DEF InterruptWake, IdleMeansEmpty, AnsweredWasTransferred, Unanswered, QueueInv
<1>2. dAt[t] = "wait" /\ semValue[sem[t]] = 0 /\ sem[t] \in Semaphores
  BY <1>1 DEF CallInv
<1>3. /\ DiskTypeOK' /\ IdleMeansEmpty' /\ AnsweredWasTransferred' /\ QueueInv'
      /\ SemaphoresApart' /\ Unanswered' = Unanswered \ {t}
  BY <1>1, <1>2, DiskAssumption
     DEF IdleMeansEmpty, AnsweredWasTransferred, QueueInv, QueuedOnce, SemaphoresApart,
         Pending, Unanswered, InterruptWake
<1>4. ASSUME NEW u \in Threads PROVE CallInv(u)'
  <2>1. CASE u = t
    BY <1>1, <1>2, <1>3, <2>1 DEF CallInv, InterruptWake
  <2>2. CASE u # t
    <3>1. sem[u] # None => sem[u] \in Semaphores /\ semValue'[sem[u]] = semValue[sem[u]]
      BY <1>1, <1>2, <2>2 DEF SemaphoresApart, InterruptWake
    <3>2. QED
      BY <1>3, <2>2, <3>1 DEF CallInv, InterruptWake
  <2>3. QED
    BY <2>1, <2>2
<1>5. QED
  BY <1>3, <1>4

\* The first of the waiting requests goes to work, or the driver is idle.
LEMMA InterruptNextInv ==
    ASSUME DiskInv, InterruptNext
    PROVE  DiskInv'
<1> USE DEF DiskInv, DiskTypeOK
<1>1. Unanswered = Pending
  BY DEF InterruptNext, Unanswered
<1>2. /\ requestQueue' \in Seq(Threads) /\ requestServed' \in Threads \cup {None}
      /\ QueueInv' /\ Unanswered' = Unanswered
      /\ requestServed' = None => requestQueue' = <<>>
  <2>1. CASE requestQueue = <<>>
    <3>1. requestQueue' = requestQueue /\ requestServed' = None /\ DOMAIN requestQueue = {}
      BY <2>1 DEF InterruptNext, NextRequest
    <3>2. QED
      BY <1>1, <2>1, <3>1, DiskAssumption DEF QueueInv, QueuedOnce, Pending, Unanswered
  <2>2. CASE requestQueue # <<>>
    <3>1. requestQueue' = Tail(requestQueue) /\ requestServed' = Head(requestQueue)
          /\ handler' = "out"
      BY <2>2 DEF InterruptNext, NextRequest
    <3>2. \A i, j \in DOMAIN requestQueue : requestQueue[i] = requestQueue[j] => i = j
      BY DEF QueueInv, QueuedOnce
    <3> DEFINE q == Tail(requestQueue)
    <3>3. /\ q \in Seq(Threads) /\ Head(requestQueue) \in Threads
          /\ Pending = {q[i] : i \in DOMAIN q} \cup {Head(requestQueue)}
          /\ Head(requestQueue) \notin {q[i] : i \in DOMAIN q}
          /\ \A i, j \in DOMAIN q : q[i] = q[j] => i = j
      BY <2>2, <3>2, TailHolds DEF Pending
    <3>4. /\ requestQueue' = q
          /\ Pending' = {q[i] : i \in DOMAIN q} /\ QueuedOnce'
      <4> HIDE DEF q
      <4>1. requestQueue' = q
        BY <3>1 DEF q
      <4>2. QED
        BY <3>3, <4>1 DEF Pending, QueuedOnce
    <3>5. QED
      BY <1>1, <3>1, <3>3, <3>4, DiskAssumption DEF QueueInv, Unanswered
  <2>3. QED
    BY <2>1, <2>2
<1>3. DiskTypeOK' /\ IdleMeansEmpty' /\ AnsweredWasTransferred' /\ SemaphoresApart'
  <2>1. handler' = "out" /\ device' \in {"idle", "busy"} /\ (device' = "idle" <=> requestServed' = None)
    <3>1. requestQueue # <<>> => Head(requestQueue) # None
      BY DiskAssumption
    <3>2. QED
      BY <3>1 DEF InterruptNext, NextRequest
  <2>2. QED
    BY <1>2, <2>1 DEF IdleMeansEmpty, AnsweredWasTransferred, SemaphoresApart, InterruptNext
<1>4. ASSUME NEW u \in Threads PROVE CallInv(u)'
  BY <1>2 DEF CallInv, InterruptNext
<1>5. QED
  BY <1>2, <1>3, <1>4

\* No step of the driver, the device or its callers breaks the invariant.
LEMMA DiskStepInv == DiskInv /\ [DiskNext]_diskVars => DiskInv'
<1> SUFFICES ASSUME DiskInv, [DiskNext]_diskVars PROVE DiskInv'
  OBVIOUS
<1>1. ASSUME NEW t \in Threads, DiskCall(t) PROVE DiskInv'
  BY <1>1, CreateSemaphoreInv, NoSemaphoreInv DEF DiskCall
<1>2. ASSUME NEW t \in Threads, DiskStep(t) PROVE DiskInv'
  BY <1>2, SubmitInv, WaitedInv, CompleteInv DEF DiskStep
<1>3. CASE Transfer
  BY <1>3, TransferInv
<1>4. CASE DiskInterrupt
  BY <1>4, InterruptResetInv, InterruptWakeInv, InterruptNextInv DEF DiskInterrupt
<1>5. CASE UNCHANGED diskVars
  BY <1>5 DEF diskVars, DiskInv, DiskTypeOK, IdleMeansEmpty, AnsweredWasTransferred, QueueInv,
              QueuedOnce, SemaphoresApart, CallInv, Pending, Unanswered
<1>6. QED
  BY <1>1, <1>2, <1>3, <1>4, <1>5 DEF DiskNext

\* Every request that a thread hands to the disk is answered once, while the thread
\* still waits for it, and its call returns success exactly if the block was
\* transferred (disk_submit_request and disk_interrupt_handle): for any number of
\* threads and semaphores, and however semaphores are used again.
THEOREM RequestsAnsweredOnce == DiskSpec => []EachRequestAnsweredOnce
<1>1. DiskInv => EachRequestAnsweredOnce
  BY DEF DiskInv, DiskTypeOK, QueueInv, SemaphoresApart, CallInv, EachRequestAnsweredOnce
<1>2. QED
  BY <1>1, DiskInitInv, DiskStepInv, PTL DEF DiskSpec

-----------------------------------------------------------------------------
\* The remainder of a division, and the only one.
LEMMA ModBounds ==
    ASSUME NEW a \in Int, NEW m \in Nat \ {0}
    PROVE  /\ (a % m) \in 0 .. m - 1 /\ (a \div m) \in Int
           /\ a = m * (a \div m) + (a % m)
  OBVIOUS

LEMMA ModUnique ==
    ASSUME NEW m \in Nat \ {0}, NEW q \in Int, NEW r \in 0 .. m - 1,
           NEW p \in Int, NEW s \in 0 .. m - 1, m * q + r = m * p + s
    PROVE  q = p /\ r = s
<1>1. m * (q - p) = s - r
  OBVIOUS
<1>2. CASE q - p >= 1
  <2>1. m * (q - p) >= m
    BY <1>2
  <2>2. QED BY <1>1, <2>1
<1>3. CASE q - p <= -1
  <2>1. m * (p - q) >= m
    BY <1>3
  <2>2. m * (q - p) = - (m * (p - q))
    OBVIOUS
  <2>3. QED BY <1>1, <2>1, <2>2
<1>4. CASE q = p
  BY <1>1, <1>4
<1>5. QED
  BY <1>2, <1>3, <1>4

\* A place in the ring may be reduced before or after it is moved.
LEMMA ModShift ==
    ASSUME NEW a \in Int, NEW k \in Int, NEW m \in Nat \ {0}
    PROVE  ((a % m) + k) % m = (a + k) % m
<1> DEFINE q == a \div m
           x == (a % m) + k
           p == q + (x \div m)
           b == a + k
<1>1. q \in Int /\ a = m * q + (a % m) /\ x \in Int /\ b = m * q + x
  BY ModBounds
<1>2. x = m * (x \div m) + (x % m) /\ x \div m \in Int /\ (x % m) \in 0 .. m - 1
  BY <1>1, ModBounds
<1>3. b = m * (b \div m) + (b % m) /\ (b \div m) \in Int /\ (b % m) \in 0 .. m - 1
  <2>1. b \in Int
    OBVIOUS
  <2> HIDE DEF b
  <2>2. QED BY <2>1, ModBounds
<1>4. b = m * p + (x % m)
  BY <1>1, <1>2
<1>5. p \in Int
  BY <1>1, <1>2
<1> HIDE DEF q, x, p, b
<1>6. x % m = b % m
  BY <1>2, <1>3, <1>4, <1>5, ModUnique
<1>7. QED BY <1>6 DEF x, b

\* Places that are less than a round apart are different.
LEMMA ModApart ==
    ASSUME NEW m \in Nat \ {0}, NEW a \in Int, NEW b \in Int, a < b, b < a + m
    PROVE  a % m # b % m
<1> SUFFICES ASSUME a % m = b % m PROVE FALSE
  OBVIOUS
<1> DEFINE p == a \div m
           q == b \div m
<1>1. /\ p \in Int /\ q \in Int /\ (a % m) \in 0 .. m - 1
      /\ a = m * p + (a % m) /\ b = m * q + (a % m)
  BY ModBounds
<1>2. b - a \in 0 .. m - 1 /\ 0 \in 0 .. m - 1
  OBVIOUS
<1>3. m * q + 0 = m * p + (b - a)
  BY <1>1
<1> HIDE DEF p, q
<1>4. 0 = b - a
  BY <1>1, <1>2, <1>3, ModUnique
<1>5. QED BY <1>4

LEMMA ModSmall == ASSUME NEW m \in Nat \ {0}, NEW a \in 0 .. m - 1 PROVE a % m = a
<1>1. (a % m) \in 0 .. m - 1 /\ (a \div m) \in Int /\ a = m * (a \div m) + (a % m)
  BY ModBounds
<1>2. m * (a \div m) + (a % m) = m * 0 + a
  BY <1>1
<1>3. QED BY <1>1, <1>2, ModUnique

-----------------------------------------------------------------------------
RingTypeOK ==
    /\ readBuf \in [Ring -> Int]
    /\ readHead \in Ring
    /\ readCount \in 0 .. BufSize + 1
    /\ typed \in 0 .. Serials - 1

\* RingHoldsTyped needs only that head and count stay in their ranges.
RingInv == RingTypeOK /\ RingHoldsTyped

LEMMA RingInit == TtyInit => RingInv
<1> SUFFICES ASSUME TtyInit PROVE RingInv
  OBVIOUS
<1>1. /\ readBuf = [k \in Ring |-> 0] /\ readHead = 0 /\ readCount = 0 /\ typed = 0
  BY DEF TtyInit
<1>2. QED
  BY <1>1, TtyAssumption DEF RingInv, RingTypeOK, RingHoldsTyped, Ring

\* A character goes behind those that are there; with BufSize of them there, on top
\* of the oldest.
LEMMA RingInterrupt == ASSUME RingInv, ReadInterrupt PROVE RingInv'
<1>1. CASE Full
  <2>1. UNCHANGED <<readBuf, readHead, readCount, typed>>
    BY <1>1 DEF ReadInterrupt
  <2>2. QED BY <2>1 DEF RingInv, RingTypeOK, RingHoldsTyped
<1>2. CASE ~Full
  <2> DEFINE end == (readHead + readCount) % BufSize
  <2>1. /\ readBuf' = [readBuf EXCEPT ![end] = typed]
        /\ readCount' = readCount + 1 /\ typed' = (typed + 1) % Serials
        /\ readHead' = readHead
    BY <1>2 DEF ReadInterrupt, Modulo
  <2>2. /\ BufSize \in Nat \ {0} /\ Serials \in Nat \ {0}
        /\ readBuf \in [Ring -> Int] /\ readHead \in 0 .. BufSize - 1
        /\ readCount \in 0 .. BufSize /\ typed \in 0 .. Serials - 1
    BY <1>2, TtyAssumption DEF RingInv, RingTypeOK, Ring, Full
  <2>3. end \in Ring
    BY <2>2, ModBounds DEF Ring
  <2>4. typed' \in 0 .. Serials - 1
    BY <2>1, <2>2, ModBounds
  <2> HIDE DEF end
  <2>5. /\ readBuf' \in [Ring -> Int]
        /\ \A j \in Ring : readBuf'[j] = IF j = end THEN typed ELSE readBuf[j]
    BY <2>1, <2>2, <2>3
  <2>6. RingTypeOK'
    BY <2>1, <2>2, <2>4, <2>5 DEF RingTypeOK, Ring
  <2>7. ASSUME NEW k \in 0 .. readCount' - 1, k > 0 \/ readCount' <= BufSize
        PROVE  readBuf'[(readHead' + k) % BufSize] = Modulo(typed' - readCount' + k)
    <3> DEFINE j == (readHead + k) % BufSize
    <3>1. j \in Ring
      BY <2>1, <2>2, ModBounds DEF Ring
    <3>2. Modulo(typed' - readCount' + k) = (typed - readCount + k) % Serials
      <4> DEFINE d == k - (readCount + 1)
      <4>1. d \in Int /\ typed' - readCount' + k = ((typed + 1) % Serials) + d
        BY <2>1, <2>2, <2>4
      <4>2. (((typed + 1) % Serials) + d) % Serials = ((typed + 1) + d) % Serials
        <5> HIDE DEF d
        <5>1. typed + 1 \in Int
          BY <2>2
        <5> DEFINE a == typed + 1
        <5> HIDE DEF a
        <5>2. ((a % Serials) + d) % Serials = (a + d) % Serials
          BY <2>2, <4>1, <5>1, ModShift DEF a
        <5>3. QED BY <5>2 DEF a
      <4>3. (typed + 1) + d = typed - readCount + k
        BY <2>1, <2>2
      <4>4. QED BY <4>1, <4>2, <4>3 DEF Modulo
    <3>3. CASE k = readCount
      <4>1. j = end
        BY <3>3 DEF end
      <4>2. readBuf'[j] = typed
        BY <2>5, <3>1, <4>1
      <4>3. typed - readCount + k = typed /\ typed % Serials = typed
        BY <2>2, <3>3, ModSmall
      <4>4. QED BY <2>1, <3>2, <4>2, <4>3
    <3>4. CASE k # readCount
      <4>1. k \in 0 .. readCount - 1 /\ (k > 0 \/ readCount < BufSize)
        BY <2>1, <2>2, <2>7, <3>4
      <4>2. j # end
        <5>1. readHead + k < readHead + readCount
              /\ readHead + readCount < (readHead + k) + BufSize
          BY <2>2, <4>1
        <5>2. readHead + k \in Int /\ readHead + readCount \in Int
          BY <2>2, <4>1
        <5>3. (readHead + k) % BufSize # (readHead + readCount) % BufSize
          BY <2>2, <5>1, <5>2, ModApart
        <5>4. QED BY <5>3 DEF end
      <4>3. readBuf[j] = Modulo(typed - readCount + k)
        <5>1. k > 0 \/ readCount <= BufSize
          BY <2>2
        <5>2. QED BY <4>1, <5>1 DEF RingInv, RingHoldsTyped
      <4>4. QED BY <2>1, <2>5, <3>1, <3>2, <4>2, <4>3 DEF Modulo
    <3>5. QED BY <3>3, <3>4
  <2>8. readCount' <= BufSize + 1
    BY <2>1, <2>2
  <2>9. QED BY <2>6, <2>7, <2>8 DEF RingInv, RingHoldsTyped
<1>3. QED
  BY <1>1, <1>2

\* tty_read takes the oldest characters.
LEMMA RingTake ==
    ASSUME RingInv, NEW u \in Users, NEW len \in 1 .. MaxLength, ReadTake(u, len)
    PROVE  RingInv'
<1> DEFINE n == IF readCount < len THEN readCount ELSE len
<1>1. /\ readCount > 0 /\ readHead' = (readHead + n) % BufSize /\ readCount' = readCount - n
      /\ UNCHANGED <<readBuf, typed>>
  BY DEF ReadTake
<1>2. /\ BufSize \in Nat \ {0} /\ Serials \in Nat \ {0}
      /\ readHead \in 0 .. BufSize - 1 /\ readCount \in 0 .. BufSize + 1
      /\ typed \in 0 .. Serials - 1
  BY TtyAssumption DEF RingInv, RingTypeOK, Ring
<1>3. n \in 1 .. readCount
  BY <1>1, <1>2
<1> HIDE DEF n
<1>4. readHead' \in Ring
  BY <1>1, <1>2, <1>3, ModBounds DEF Ring
<1>5. RingTypeOK'
  BY <1>1, <1>2, <1>3, <1>4 DEF RingInv, RingTypeOK
<1>6. ASSUME NEW k \in 0 .. readCount' - 1
      PROVE  readBuf'[(readHead' + k) % BufSize] = Modulo(typed' - readCount' + k)
  <2>1. n + k \in 0 .. readCount - 1 /\ n + k > 0
    BY <1>1, <1>2, <1>3
  <2>2. (readHead' + k) % BufSize = (readHead + (n + k)) % BufSize
    <3>1. (((readHead + n) % BufSize) + k) % BufSize = ((readHead + n) + k) % BufSize
      <4>1. readHead + n \in Int /\ k \in Int
        BY <1>1, <1>2, <1>3
      <4> DEFINE a == readHead + n
      <4> HIDE DEF a
      <4>2. ((a % BufSize) + k) % BufSize = (a + k) % BufSize
        BY <1>2, <4>1, ModShift DEF a
      <4>3. QED BY <4>2 DEF a
    <3>2. (readHead + n) + k = readHead + (n + k)
      BY <1>1, <1>2, <1>3
    <3>3. QED BY <1>1, <3>1, <3>2
  <2>3. typed' - readCount' + k = typed - readCount + (n + k)
    BY <1>1, <1>2, <1>3
  <2>4. readBuf[(readHead + (n + k)) % BufSize] = Modulo(typed - readCount + (n + k))
    BY <2>1 DEF RingInv, RingHoldsTyped
  <2>5. QED BY <1>1, <2>2, <2>3, <2>4
<1>7. readCount' <= BufSize + 1
  BY <1>1, <1>2, <1>3
<1>8. QED
  BY <1>5, <1>6, <1>7 DEF RingInv, RingHoldsTyped

LEMMA RingStep == RingInv /\ [TtyNext]_ttyVars => RingInv'
<1> SUFFICES ASSUME RingInv, [TtyNext]_ttyVars PROVE RingInv'
  OBVIOUS
<1>1. CASE ReadInterrupt
  BY <1>1, RingInterrupt
<1>2. CASE \E u \in Users, len \in 1 .. MaxLength : ReadTake(u, len)
  BY <1>2, RingTake
<1>3. CASE UNCHANGED <<readBuf, readHead, readCount, typed>>
  BY <1>3 DEF RingInv, RingTypeOK, RingHoldsTyped
<1>4. ASSUME NEW u \in Users, TtyCall(u) \/ WriteSleep(u) \/ Fill(u) \/ ReadSleep(u)
      PROVE  UNCHANGED <<readBuf, readHead, readCount, typed>>
  BY <1>4 DEF TtyCall, WriteCall, ReadCall, WriteSleep, Fill, ReadSleep, readVars
<1>5. CASE WriteInterrupt \/ TerminalReady \/ ReadWake \/ UNCHANGED ttyVars
  BY <1>3, <1>5 DEF WriteInterrupt, TerminalReady, ReadWake, readVars, ttyVars
<1>6. QED
  BY <1>1, <1>2, <1>3, <1>4, <1>5 DEF TtyNext, TtyStep

\* Whatever the order of interrupts and readers, and the sizes of buffer and reads:
\* the ring holds what was typed and not read yet, in order; when it overflows, only
\* the oldest character is lost (tty.c:160-184, 259-291).
THEOREM RingHoldsTypedAlways == TtyInit /\ [][TtyNext]_ttyVars => []RingHoldsTyped
<1>1. RingInv => RingHoldsTyped
  BY DEF RingInv
<1>2. QED
  BY <1>1, RingInit, RingStep, PTL

-----------------------------------------------------------------------------
(* The pagetables and the TLBs. *)
Identifiers == Tids \cup {Idle}
Halves == [frame : Pages, dirty : BOOLEAN]
Rows == [pair : Nat, asid : Identifiers, global : BOOLEAN, vm : BOOLEAN, half : [0 .. 1 -> Halves]]
Pagetables == [valid : 0 .. MaxRows, entries : [1 .. MaxRows -> Rows]]
Places == {"free", "starting", "mapping", "loading", "userland", "dying"}

SpaceTypeOK ==
    /\ reserved \subseteq Pages /\ buffers \subseteq Pages
    /\ table \in [Pages -> Pagetables]
    /\ pagetable \in [Tids -> Pages]
    /\ toMap \in [Tids -> Seq(Nat)]
    /\ place \in [Tids -> Places]
    /\ running \in [CPUs -> Identifiers] /\ asid \in [CPUs -> Identifiers]
    /\ tlb \in [CPUs -> SUBSET Rows]

\* A thread has a pagetable from vm_create_pagetable to process_finish, in a page that
\* is allocated and that no other thread has, nor the network or the file system.
TablesHeld ==
    /\ NoPage \in reserved \ buffers /\ buffers \subseteq reserved
    /\ \A t \in Tids : pagetable[t] \notin buffers
    /\ \A t \in Tids : pagetable[t] \in reserved
    /\ \A t \in Tids : pagetable[t] # NoPage <=> place[t] \in {"mapping", "loading", "userland"}
    /\ \A t, u \in Tids : pagetable[t] = pagetable[u] /\ pagetable[t] # NoPage => t = u

\* There is a page to map as long as process_start maps pages.
MappingLeft == \A t \in Tids : place[t] = "mapping" => toMap[t] # <<>>

\* The identifier in a processor's register is that of the thread it runs.
AsidInv == \A c \in CPUs : asid[c] = running[c]

\* The row is vm_map's, and carries identifier a.
Written(e, a) == e.vm /\ e.asid = a

\* The valid rows of a pagetable carry the identifier of the thread that has it.
OwnRows ==
    \A t \in Tids : pagetable[t] # NoPage =>
        \A i \in 1 .. TableOf(t).valid : Written(TableOf(t).entries[i], t)

\* A row of vm_map's in memory or in a TLB, valid or left over, names frame f under
\* identifier a.
InTable(f, a) ==
    \E p \in Pages, i \in 1 .. MaxRows :
        f \in Frames(table[p].entries[i]) /\ Written(table[p].entries[i], a)
InTlb(f, a) == \E c \in CPUs : \E e \in tlb[c] : f \in Frames(e) /\ Written(e, a)
Names(f, a) == InTable(f, a) \/ InTlb(f, a)

\* What any such row names stays allocated and is no pagetable and no buffer...
Kept(f) == f \in reserved \ buffers /\ \A t \in Tids : pagetable[t] # f
FramesKept == \A f \in Pages, a \in Identifiers : Names(f, a) => Kept(f)

\* ... and is named under one identifier only.
OneIdentifier ==
    \A f \in Pages, a, b \in Identifiers : Names(f, a) /\ Names(f, b) => a = b

\* ProcessesIsolated is not inductive: it does not speak of rows that no processor
\* reaches now, but may when their identifier, or their page, is used again.
SpaceInv ==
    /\ SpaceTypeOK /\ TablesHeld /\ MappingLeft /\ AsidInv /\ OwnRows
    /\ FramesKept /\ OneIdentifier

-----------------------------------------------------------------------------
LEMMA PairTypes == ASSUME NEW v \in Nat PROVE Pair(v) \in Nat /\ Half(v) \in 0 .. 1
  BY DEF Pair, Half

\* The frames of a row are those of its two halves.
LEMMA FramesOf ==
    ASSUME NEW e \in Rows, NEW f
    PROVE  f \in Frames(e) <=> f # NoPage /\ \E k \in 0 .. 1 : e.half[k].frame = f
  BY DEF Frames

LEMMA FramesArePages == ASSUME NEW e \in Rows PROVE Frames(e) \subseteq Pages
  BY DEF Frames, Rows, Halves

LEMMA NoPageIsPage == NoPage \in Pages
  BY PagePoolAssumption

\* A new row names the frame of its one half.
LEMMA NewEntryNames ==
    ASSUME NEW t \in Identifiers, NEW v \in Nat, NEW half \in Halves
    PROVE  /\ NewEntry(t, v, half) \in Rows
           /\ Written(NewEntry(t, v, half), t)
           /\ \A f \in Frames(NewEntry(t, v, half)) : f = half.frame
<1>1. NoHalf \in Halves
  BY NoPageIsPage DEF NoHalf, Halves
<1>2. Pair(v) \in Nat
  BY PairTypes
<1>3. NewEntry(t, v, half) \in Rows
  BY <1>1, <1>2 DEF NewEntry, Rows
<1>4. \A k \in 0 .. 1 : NewEntry(t, v, half).half[k] \in {half, NoHalf}
  BY DEF NewEntry
<1>5. QED
  BY <1>3, <1>4, FramesOf DEF NewEntry, NoHalf, Written

LEMMA SpaceInit == Init => SpaceInv
<1> SUFFICES ASSUME Init PROVE SpaceInv
  OBVIOUS
<1> DEFINE old == Blank
<1>1. NoHalf \in Halves
  BY NoPageIsPage DEF NoHalf, Halves
<1>2. old \in Rows /\ ~old.vm
  <2>1. NewEntry(Idle, 0, NoHalf) \in Rows
    BY <1>1, NewEntryNames DEF Identifiers
  <2>2. QED BY <2>1 DEF Blank, Rows
<1>4. table = [p \in Pages |-> [valid |-> 0, entries |-> [i \in 1 .. MaxRows |-> old]]]
  BY DEF Init
<1> HIDE DEF old
<1>5. table \in [Pages -> Pagetables]
  BY <1>2, <1>4, AddressSpaceAssumption DEF Pagetables
<1>6. SpaceTypeOK
  <2>1. reserved \subseteq Pages /\ buffers \subseteq Pages
    BY PagePoolAssumption DEF Init, PoolInit
  <2>2. pagetable \in [Tids -> Pages]
    BY NoPageIsPage DEF Init
  <2>3. toMap \in [Tids -> Seq(Nat)]
    BY DEF Init
  <2>4. place \in [Tids -> Places]
    BY DEF Init, Places
  <2>5. running \in [CPUs -> Identifiers] /\ asid \in [CPUs -> Identifiers]
        /\ tlb \in [CPUs -> SUBSET Rows]
    BY DEF Init, Identifiers
  <2>6. QED BY <1>5, <2>1, <2>2, <2>3, <2>4, <2>5 DEF SpaceTypeOK
<1>7. TablesHeld
  BY PagePoolAssumption DEF Init, PoolInit, TablesHeld
<1>8. \A f, a : ~Names(f, a)
  <2>1. \A p \in Pages, i \in 1 .. MaxRows : table[p].entries[i] = old
    BY <1>4
  <2>2. \A f, a : ~InTable(f, a)
    BY <1>2, <2>1 DEF InTable, Written
  <2>3. \A f, a : ~InTlb(f, a)
    BY DEF Init, InTlb
  <2>4. QED BY <2>2, <2>3 DEF Names
<1>9. QED
  BY <1>6, <1>7, <1>8 DEF SpaceInv, Init, MappingLeft, AsidInv, OwnRows, FramesKept, OneIdentifier

-----------------------------------------------------------------------------
\* vm_map changes the rows of one pair, or adds one: what they name beside the new
\* frame they named before.
LEMMA VmMapRows ==
    ASSUME NEW T \in Pagetables, NEW t \in Tids, NEW v \in Nat, NEW f \in Pages,
           T.valid < MaxRows \/ RowsOf(T, v) # {},
           \A i \in 1 .. T.valid : Written(T.entries[i], t)
    PROVE  LET new == VmMap(T, t, v, f)
           IN  /\ new \in Pagetables
               /\ \A i \in 1 .. new.valid : Written(new.entries[i], t)
               /\ \A i \in 1 .. MaxRows : \A g \in Frames(new.entries[i]) :
                      \/ g = f /\ new.entries[i].asid = t
                      \/ g \in Frames(T.entries[i])
                         /\ new.entries[i].asid = T.entries[i].asid
                         /\ new.entries[i].vm = T.entries[i].vm
<1> DEFINE half == [frame |-> f, dirty |-> TRUE]
           new == VmMap(T, t, v, f)
<1>1. half \in Halves /\ half.frame = f
  BY DEF Halves
<1>2. T.valid \in 0 .. MaxRows /\ T.entries \in [1 .. MaxRows -> Rows]
  BY DEF Pagetables
<1>3. Half(v) \in 0 .. 1
  BY PairTypes
<1>4. CASE RowsOf(T, v) = {}
  <2> DEFINE e == NewEntry(t, v, half)
             n == T.valid + 1
  <2>1. n \in 1 .. MaxRows
    BY <1>2, <1>4, AddressSpaceAssumption
  <2>2. e \in Rows /\ Written(e, t) /\ \A g \in Frames(e) : g = f
    BY <1>1, NewEntryNames DEF Identifiers
  <2>3. new = [valid |-> n, entries |-> [T.entries EXCEPT ![n] = e]]
    BY <1>4 DEF VmMap
  <2> DEFINE rows == [T.entries EXCEPT ![n] = e]
  <2> HIDE DEF e, half, new
  <2>a. rows \in [1 .. MaxRows -> Rows]
        /\ \A i \in 1 .. MaxRows : rows[i] = IF i = n THEN e ELSE T.entries[i]
    BY <1>2, <2>1, <2>2
  <2>b. new.valid = n /\ new.entries = rows
    BY <2>3
  <2>4. /\ new.valid = n /\ new.entries \in [1 .. MaxRows -> Rows]
        /\ \A i \in 1 .. MaxRows : new.entries[i] = IF i = n THEN e ELSE T.entries[i]
    BY <2>a, <2>b
  <2>5. new \in Pagetables
    BY <2>1, <2>3, <2>4 DEF Pagetables
  <2>6. ASSUME NEW i \in 1 .. new.valid PROVE Written(new.entries[i], t)
    <3>1. i \in 1 .. MaxRows /\ (i = n \/ i \in 1 .. T.valid)
      BY AddressSpaceAssumption, <1>2, <2>1, <2>4
    <3>2. QED BY <2>2, <2>4, <3>1
  <2>7. QED BY <2>2, <2>4, <2>5, <2>6 DEF new, Written
<1>5. CASE RowsOf(T, v) # {}
  <2> DEFINE changed(i) == [T.entries[i] EXCEPT !.half[Half(v)] = half]
  <2>1. new = [T EXCEPT !.entries = [i \in 1 .. MaxRows |->
                  IF i \in RowsOf(T, v) THEN changed(i) ELSE T.entries[i]]]
    BY <1>5 DEF VmMap
  <2>2. ASSUME NEW i \in 1 .. MaxRows
        PROVE  /\ changed(i) \in Rows /\ changed(i).asid = T.entries[i].asid
               /\ changed(i).vm = T.entries[i].vm
               /\ \A g \in Frames(changed(i)) : g = f \/ g \in Frames(T.entries[i])
    <3>1. T.entries[i] \in Rows
      BY <1>2
    <3>2. /\ changed(i) \in Rows /\ changed(i).asid = T.entries[i].asid
          /\ changed(i).vm = T.entries[i].vm
          /\ \A k \in 0 .. 1 : changed(i).half[k] =
                 IF k = Half(v) THEN half ELSE T.entries[i].half[k]
      BY <1>1, <1>3, <3>1 DEF Rows
    <3> HIDE DEF changed, half
    <3>3. QED BY <1>1, <3>1, <3>2, FramesOf
  <2> DEFINE rows == [i \in 1 .. MaxRows |->
                  IF i \in RowsOf(T, v) THEN changed(i) ELSE T.entries[i]]
  <2> HIDE DEF changed, half, new
  <2>a. rows \in [1 .. MaxRows -> Rows]
    BY <1>2, <2>2
  <2>b. new.valid = T.valid /\ new.entries = rows
    BY <2>1 DEF Pagetables
  <2>3. /\ new.valid = T.valid /\ new.entries \in [1 .. MaxRows -> Rows]
        /\ \A i \in 1 .. MaxRows :
               new.entries[i] = IF i \in RowsOf(T, v) THEN changed(i) ELSE T.entries[i]
    BY <2>a, <2>b
  <2>4. new \in Pagetables
    BY <1>2, <2>1, <2>3 DEF Pagetables
  <2>5. \A i \in RowsOf(T, v) : i \in 1 .. T.valid
    BY DEF RowsOf
  <2>6. ASSUME NEW i \in 1 .. new.valid PROVE Written(new.entries[i], t)
    <3>1. i \in 1 .. MaxRows /\ i \in 1 .. T.valid
      BY AddressSpaceAssumption, <1>2, <2>3
    <3>2. QED BY <2>2, <2>3, <3>1 DEF Written
  <2>7. \A i \in 1 .. MaxRows : \A g \in Frames(new.entries[i]) :
            \/ g = f /\ new.entries[i].asid = t
            \/ /\ g \in Frames(T.entries[i]) /\ new.entries[i].asid = T.entries[i].asid
               /\ new.entries[i].vm = T.entries[i].vm
    BY <1>2, <2>2, <2>3, <2>5, <2>6 DEF Written
  <2>8. QED BY <2>4, <2>6, <2>7 DEF new
<1>6. QED
  BY <1>4, <1>5

\* vm_set_dirty changes no frame and no identifier.
LEMMA VmWriteProtectRows ==
    ASSUME NEW T \in Pagetables, NEW vs
    PROVE  LET new == VmWriteProtect(T, vs)
           IN  /\ new \in Pagetables /\ new.valid = T.valid
               /\ \A i \in 1 .. MaxRows :
                      /\ new.entries[i].asid = T.entries[i].asid
                      /\ new.entries[i].vm = T.entries[i].vm
                      /\ Frames(new.entries[i]) = Frames(T.entries[i])
<1> DEFINE halfOf(i, k) == [T.entries[i].half[k] EXCEPT !.dirty =
                @ /\ ~\E v \in vs : i \in RowsOf(T, v) /\ k = Half(v)]
           row(i) == [T.entries[i] EXCEPT !.half = [k \in 0 .. 1 |-> halfOf(i, k)]]
           new == VmWriteProtect(T, vs)
<1>1. T.valid \in 0 .. MaxRows /\ T.entries \in [1 .. MaxRows -> Rows]
  BY DEF Pagetables
<1>2. new = [T EXCEPT !.entries = [i \in 1 .. MaxRows |-> row(i)]]
  BY DEF VmWriteProtect
<1>3. ASSUME NEW i \in 1 .. MaxRows
      PROVE  row(i) \in Rows /\ row(i).asid = T.entries[i].asid /\ row(i).vm = T.entries[i].vm
             /\ Frames(row(i)) = Frames(T.entries[i])
  <2>1. T.entries[i] \in Rows
    BY <1>1
  <2>2. \A k \in 0 .. 1 : T.entries[i].half[k] \in Halves
    BY <2>1 DEF Rows
  <2>3. \A k \in 0 .. 1 : halfOf(i, k) \in Halves
                          /\ halfOf(i, k).frame = T.entries[i].half[k].frame
    BY <2>2 DEF Halves
  <2> HIDE DEF halfOf
  <2>4. /\ row(i) \in Rows /\ row(i).asid = T.entries[i].asid /\ row(i).vm = T.entries[i].vm
        /\ \A k \in 0 .. 1 : row(i).half[k] = halfOf(i, k)
    BY <2>1, <2>3 DEF Rows
  <2> HIDE DEF row
  <2>5. QED BY <2>1, <2>3, <2>4 DEF Frames
<1> HIDE DEF row
<1>4. /\ new.valid = T.valid /\ new.entries \in [1 .. MaxRows -> Rows]
      /\ \A i \in 1 .. MaxRows : new.entries[i] = row(i)
  BY <1>1, <1>2, <1>3 DEF Pagetables
<1>5. new \in Pagetables
  BY <1>1, <1>2, <1>4 DEF Pagetables
<1>6. QED
  BY <1>3, <1>4, <1>5 DEF new

-----------------------------------------------------------------------------
\* What becomes of FramesKept and OneIdentifier when the rows name no more than they
\* did, but for pages that are new.
LEMMA NamesKept ==
    ASSUME SpaceInv, NEW fresh \in SUBSET (Pages \ reserved), NEW t,
           \A f \in Pages, a \in Identifiers :
               Names(f, a)' => Names(f, a) \/ (f \in fresh /\ a = t),
           \A f \in Pages : Kept(f) \/ f \in fresh => Kept(f)'
    PROVE  FramesKept' /\ OneIdentifier'
<1>1. ASSUME NEW f \in Pages, NEW a \in Identifiers, Names(f, a)'
      PROVE  Kept(f)'
  BY <1>1 DEF SpaceInv, FramesKept
<1>2. ASSUME NEW f \in Pages, NEW a \in Identifiers, NEW b \in Identifiers,
             Names(f, a)', Names(f, b)'
      PROVE  a = b
  BY <1>2 DEF SpaceInv, FramesKept, OneIdentifier, Kept
<1>3. QED
  BY <1>1, <1>2 DEF FramesKept, OneIdentifier

\* Rows of pagetables that name what they named.
LEMMA SameNames ==
    ASSUME SpaceTypeOK, UNCHANGED tlb,
           \A p \in Pages, i \in 1 .. MaxRows :
               /\ table'[p].entries[i].asid = table[p].entries[i].asid
               /\ table'[p].entries[i].vm = table[p].entries[i].vm
               /\ Frames(table'[p].entries[i]) = Frames(table[p].entries[i])
    PROVE  \A f, a : Names(f, a)' => Names(f, a)
<1> SUFFICES ASSUME NEW f, NEW a, Names(f, a)' PROVE Names(f, a)
  OBVIOUS
<1>1. CASE InTable(f, a)'
  <2>1. PICK p \in Pages, i \in 1 .. MaxRows :
            f \in Frames(table'[p].entries[i]) /\ Written(table'[p].entries[i], a)
    BY <1>1 DEF InTable
  <2>2. InTable(f, a)
    BY <2>1 DEF InTable, Written
  <2>3. QED BY <2>2 DEF Names
<1>2. CASE InTlb(f, a)'
  BY <1>2 DEF InTlb, Names, Written
<1>3. QED
  BY <1>1, <1>2 DEF Names

\* Steps that leave pagetables, TLBs and the pool alone.
LEMMA SpaceUnchanged ==
    ASSUME SpaceInv, UNCHANGED <<reserved, buffers, table, pagetable, tlb>>, TablesHeld',
           SpaceTypeOK', MappingLeft', AsidInv'
    PROVE  SpaceInv'
<1>1. \A f, a : Names(f, a)' => Names(f, a)
  BY SameNames DEF SpaceInv
<1>2. FramesKept' /\ OneIdentifier'
  <2>1. {} \in SUBSET (Pages \ reserved)
    OBVIOUS
  <2>2. \A f \in Pages : Kept(f) \/ f \in {} => Kept(f)'
    BY DEF Kept
  <2>3. \A f \in Pages, a \in Identifiers :
            Names(f, a)' => Names(f, a) \/ (f \in {} /\ a = Idle)
    BY <1>1
  <2>4. QED BY <2>1, <2>2, <2>3, NamesKept
<1>3. OwnRows'
  BY DEF SpaceInv, OwnRows, TableOf
<1>4. QED
  BY <1>2, <1>3 DEF SpaceInv

LEMMA SpaceSpawn == ASSUME SpaceInv, NEW t \in Tids, Spawn(t) PROVE SpaceInv'
<1>1. /\ place[t] = "free" /\ place' = [place EXCEPT ![t] = "starting"]
      /\ UNCHANGED <<reserved, buffers, table, pagetable, toMap, running, asid, tlb>>
  BY DEF Spawn, MoveTo, poolVars
<1>2. place' \in [Tids -> Places]
      /\ \A u \in Tids : place'[u] = IF u = t THEN "starting" ELSE place[u]
  BY <1>1 DEF SpaceInv, SpaceTypeOK, Places
<1>3. SpaceTypeOK'
  BY <1>1, <1>2 DEF SpaceInv, SpaceTypeOK
<1>4. TablesHeld'
  BY <1>1, <1>2 DEF SpaceInv, TablesHeld
<1>5. MappingLeft' /\ AsidInv'
  BY <1>1, <1>2 DEF SpaceInv, MappingLeft, AsidInv
<1>6. QED
  BY <1>1, <1>3, <1>4, <1>5, SpaceUnchanged

LEMMA SpaceSwitch ==
    ASSUME SpaceInv, NEW c \in CPUs, NEW t \in Identifiers, ContextSwitch(c, t)
    PROVE  SpaceInv'
<1>1. /\ running' = [running EXCEPT ![c] = t]
      /\ asid' = [asid EXCEPT ![c] = t]
      /\ place' = [u \in Tids |->
                      IF u = running[c] /\ place[u] = "dying" THEN "free" ELSE place[u]]
      /\ UNCHANGED <<reserved, buffers, table, pagetable, toMap, tlb>>
  BY DEF ContextSwitch, AsidFor, poolVars
<1>2. \A u \in Tids : place'[u] = place[u] \/ (place'[u] = "free" /\ place[u] = "dying")
  BY <1>1
<1>3. place' \in [Tids -> Places] /\ running' \in [CPUs -> Identifiers]
      /\ asid' \in [CPUs -> Identifiers]
  BY <1>1 DEF SpaceInv, SpaceTypeOK, Places
<1>4. SpaceTypeOK'
  BY <1>1, <1>3 DEF SpaceInv, SpaceTypeOK
<1>5. TablesHeld'
  BY <1>1, <1>2 DEF SpaceInv, TablesHeld
<1>6. MappingLeft'
  BY <1>1, <1>2 DEF SpaceInv, MappingLeft
<1>7. AsidInv'
  BY <1>1 DEF SpaceInv, SpaceTypeOK, AsidInv
<1>8. QED
  BY <1>1, <1>4, <1>5, <1>6, <1>7, SpaceUnchanged

\* vm_create_pagetable gets a page that no row names and no thread has.
LEMMA SpaceCreate ==
    ASSUME SpaceInv, NEW t \in Tids, NEW prog \in Programs, CreatePagetable(t, prog)
    PROVE  SpaceInv'
<1>1. PICK p \in Pages : /\ GetFirstPage(p)
                         /\ pagetable' = [pagetable EXCEPT ![t] = p]
                         /\ table' = [table EXCEPT ![p].valid = 0]
  BY DEF CreatePagetable
<1>2. p \in Pages \ reserved /\ reserved' = reserved \cup {p}
  BY <1>1 DEF GetFirstPage, GetPage
<1>3. /\ place[t] = "starting" /\ place' = [place EXCEPT ![t] = "mapping"]
      /\ toMap' = [toMap EXCEPT ![t] = prog.pages]
      /\ UNCHANGED <<buffers, running, asid, tlb>>
  BY DEF CreatePagetable, MoveTo
<1>4. prog.pages \in Seq(Nat) /\ prog.pages # <<>>
  BY AddressSpaceAssumption
<1>5. pagetable' \in [Tids -> Pages]
      /\ \A u \in Tids : pagetable'[u] = IF u = t THEN p ELSE pagetable[u]
  BY <1>1 DEF SpaceInv, SpaceTypeOK
<1>6. place' \in [Tids -> Places]
      /\ \A u \in Tids : place'[u] = IF u = t THEN "mapping" ELSE place[u]
  BY <1>3 DEF SpaceInv, SpaceTypeOK, Places
<1>7. toMap' \in [Tids -> Seq(Nat)]
      /\ \A u \in Tids : toMap'[u] = IF u = t THEN prog.pages ELSE toMap[u]
  BY <1>3, <1>4 DEF SpaceInv, SpaceTypeOK
<1>8. /\ table' \in [Pages -> Pagetables]
      /\ \A q \in Pages : table'[q].entries = table[q].entries
                          /\ table'[q].valid = IF q = p THEN 0 ELSE table[q].valid
  <2>1. table \in [Pages -> Pagetables] /\ 0 \in 0 .. MaxRows
    BY AddressSpaceAssumption DEF SpaceInv, SpaceTypeOK
  <2>2. QED BY <1>1, <2>1 DEF Pagetables
<1>9. SpaceTypeOK'
  BY <1>2, <1>3, <1>5, <1>6, <1>7, <1>8 DEF SpaceInv, SpaceTypeOK
<1>10. /\ NoPage \in reserved /\ buffers \subseteq reserved
       /\ \A u \in Tids : pagetable[u] \in reserved
  BY DEF SpaceInv, TablesHeld
<1>11. TablesHeld'
  BY <1>2, <1>3, <1>5, <1>6, <1>10 DEF SpaceInv, TablesHeld
<1>12. MappingLeft' /\ AsidInv'
  BY <1>3, <1>4, <1>6, <1>7 DEF SpaceInv, MappingLeft, AsidInv
<1>13. OwnRows'
  <2>1. ASSUME NEW u \in Tids, pagetable'[u] # NoPage,
               NEW i \in 1 .. table'[pagetable'[u]].valid
        PROVE  Written(table'[pagetable'[u]].entries[i], u)
    <3>1. CASE u = t
      BY <1>5, <1>8, <2>1, <3>1
    <3>2. CASE u # t
      <4>1. pagetable'[u] = pagetable[u] /\ pagetable[u] \in Pages /\ pagetable[u] # p
        BY <1>2, <1>5, <1>10, <3>2
           DEF SpaceInv, SpaceTypeOK
      <4>2. /\ table'[pagetable[u]].entries = table[pagetable[u]].entries
            /\ i \in 1 .. table[pagetable[u]].valid /\ pagetable[u] # NoPage
        BY <1>8, <2>1, <4>1
      <4>3. QED BY <4>1, <4>2 DEF SpaceInv, OwnRows, TableOf
    <3>3. QED BY <3>1, <3>2
  <2>2. QED BY <2>1 DEF OwnRows, TableOf
<1>14. \A f, a : Names(f, a)' => Names(f, a)
  BY <1>3, <1>8, SameNames DEF SpaceInv
<1>15. FramesKept' /\ OneIdentifier'
  <2>1. {} \in SUBSET (Pages \ reserved)
    OBVIOUS
  <2>2. \A f \in Pages : Kept(f) \/ f \in {} => Kept(f)'
    BY <1>2, <1>3, <1>5 DEF Kept
  <2>3. \A f \in Pages, a \in Identifiers :
            Names(f, a)' => Names(f, a) \/ (f \in {} /\ a = Idle)
    BY <1>14
  <2>4. QED BY <2>1, <2>2, <2>3, NamesKept
<1>16. QED
  BY <1>9, <1>11, <1>12, <1>13, <1>15 DEF SpaceInv

\* process_start maps a page: its frame is new, and the rows that name it are rows of
\* its own pagetable.
LEMMA SpaceMap == ASSUME SpaceInv, NEW t \in Tids, MapPage(t) PROVE SpaceInv'
<1> DEFINE q == pagetable[t]
           v == Head(toMap[t])
<1>1. PICK f \in Pages : /\ GetFirstPage(f)
                         /\ table' = [table EXCEPT ![q] = VmMap(TableOf(t), t, v, f)]
  BY DEF MapPage
<1> DEFINE new == VmMap(TableOf(t), t, v, f)
<1>2. f \in Pages \ reserved /\ reserved' = reserved \cup {f}
  BY <1>1 DEF GetFirstPage, GetPage
<1>3. PICK there \in {"loading", "mapping"} :
          /\ there = IF Tail(toMap[t]) = <<>> THEN "loading" ELSE "mapping"
          /\ place[t] = "mapping" /\ place' = [place EXCEPT ![t] = there]
          /\ toMap' = [toMap EXCEPT ![t] = Tail(toMap[t])]
          /\ UNCHANGED <<buffers, pagetable, running, asid, tlb>>
  BY DEF MapPage, MoveTo
<1>4. toMap[t] \in Seq(Nat) /\ toMap[t] # <<>>
  BY <1>3 DEF SpaceInv, SpaceTypeOK, MappingLeft
<1>5. v \in Nat /\ Tail(toMap[t]) \in Seq(Nat)
  BY <1>4
<1>6. q \in Pages /\ q # NoPage /\ TableOf(t) = table[q]
  BY <1>3 DEF SpaceInv, SpaceTypeOK, TablesHeld, TableOf
<1>7. /\ TableOf(t) \in Pagetables
      /\ \A i \in 1 .. TableOf(t).valid : Written(TableOf(t).entries[i], t)
  BY <1>6 DEF SpaceInv, SpaceTypeOK, OwnRows
<1>8. TableOf(t).valid < MaxRows \/ RowsOf(TableOf(t), v) # {}
  BY DEF MapPage
<1>9. /\ new \in Pagetables
      /\ \A i \in 1 .. new.valid : Written(new.entries[i], t)
      /\ \A i \in 1 .. MaxRows : \A g \in Frames(new.entries[i]) :
             \/ g = f /\ new.entries[i].asid = t
             \/ /\ g \in Frames(table[q].entries[i])
                /\ new.entries[i].asid = table[q].entries[i].asid
                /\ new.entries[i].vm = table[q].entries[i].vm
  <2> DEFINE T == TableOf(t)
  <2>1. /\ T \in Pagetables /\ v \in Nat /\ f \in Pages
        /\ T.valid < MaxRows \/ RowsOf(T, v) # {}
        /\ \A i \in 1 .. T.valid : Written(T.entries[i], t)
    BY <1>2, <1>5, <1>7, <1>8
  <2>2. T = table[q]
    BY <1>6
  <2> HIDE DEF T, v
  <2>3. LET n == VmMap(T, t, v, f)
        IN  /\ n \in Pagetables
            /\ \A i \in 1 .. n.valid : Written(n.entries[i], t)
            /\ \A i \in 1 .. MaxRows : \A g \in Frames(n.entries[i]) :
                   \/ g = f /\ n.entries[i].asid = t
                   \/ g \in Frames(T.entries[i])
                      /\ n.entries[i].asid = T.entries[i].asid
                      /\ n.entries[i].vm = T.entries[i].vm
    BY <2>1, VmMapRows
  <2>4. QED BY <2>2, <2>3 DEF T
<1>10. /\ table' \in [Pages -> Pagetables]
       /\ \A p \in Pages : table'[p] = IF p = q THEN new ELSE table[p]
  <2> HIDE DEF new
  <2>1. QED BY <1>1, <1>6, <1>9 DEF SpaceInv, SpaceTypeOK, new
<1> HIDE DEF new, q, v
<1>11. place' \in [Tids -> Places]
       /\ \A u \in Tids : place'[u] = IF u = t THEN there ELSE place[u]
  BY <1>3 DEF SpaceInv, SpaceTypeOK, Places
<1>12. toMap' \in [Tids -> Seq(Nat)]
       /\ \A u \in Tids : toMap'[u] = IF u = t THEN Tail(toMap[t]) ELSE toMap[u]
  BY <1>3, <1>5 DEF SpaceInv, SpaceTypeOK
<1>13. SpaceTypeOK'
  BY <1>2, <1>3, <1>10, <1>11, <1>12 DEF SpaceInv, SpaceTypeOK
<1>14. TablesHeld'
  BY <1>2, <1>3, <1>11 DEF SpaceInv, TablesHeld
<1>15. MappingLeft' /\ AsidInv'
  BY <1>3, <1>11, <1>12 DEF SpaceInv, MappingLeft, AsidInv
<1>16. OwnRows'
  <2>1. ASSUME NEW u \in Tids, pagetable[u] # NoPage, NEW i \in 1 .. table'[pagetable[u]].valid
        PROVE  Written(table'[pagetable[u]].entries[i], u)
    <3>1. CASE u = t
      BY <1>6, <1>9, <1>10, <2>1, <3>1 DEF q
    <3>2. CASE u # t
      <4>1. pagetable[u] # q /\ pagetable[u] \in Pages
        BY <1>6, <2>1, <3>2 DEF SpaceInv, SpaceTypeOK, TablesHeld, q
      <4>2. QED BY <1>10, <2>1, <4>1 DEF SpaceInv, OwnRows, TableOf
    <3>3. QED BY <3>1, <3>2
  <2>2. QED BY <1>3, <2>1 DEF OwnRows, TableOf
<1>17. \A g \in Pages, a \in Identifiers :
           Names(g, a)' => Names(g, a) \/ (g \in {f} /\ a = t)
  <2> SUFFICES ASSUME NEW g \in Pages, NEW a \in Identifiers, Names(g, a)', ~(g = f /\ a = t)
               PROVE  Names(g, a)
    OBVIOUS
  <2>1. CASE InTable(g, a)'
    <3>1. PICK p \in Pages, i \in 1 .. MaxRows :
              g \in Frames(table'[p].entries[i]) /\ Written(table'[p].entries[i], a)
      BY <2>1 DEF InTable
    <3>2. g \in Frames(table[p].entries[i]) /\ Written(table[p].entries[i], a)
      BY <1>9, <1>10, <3>1 DEF Written
    <3>3. QED BY <3>2 DEF InTable, Names
  <2>2. CASE InTlb(g, a)'
    BY <1>3, <2>2 DEF InTlb, Names
  <2>3. QED BY <2>1, <2>2 DEF Names
<1>18. FramesKept' /\ OneIdentifier'
  <2> DEFINE fresh == {f}
  <2>1. fresh \in SUBSET (Pages \ reserved)
    BY <1>2
  <2>2. \A g \in Pages : Kept(g) \/ g \in fresh => Kept(g)'
    BY <1>2, <1>3 DEF SpaceInv, TablesHeld, Kept
  <2>3. \A g \in Pages, a \in Identifiers :
            Names(g, a)' => Names(g, a) \/ (g \in fresh /\ a = t)
    BY <1>17
  <2> HIDE DEF fresh
  <2>4. QED BY <2>1, <2>2, <2>3, NamesKept
<1>19. QED
  BY <1>13, <1>14, <1>15, <1>16, <1>18 DEF SpaceInv

\* The segments are loaded; no row changes its frames.
LEMMA SpaceEnter == ASSUME SpaceInv, NEW t \in Tids, EnterUserland(t) PROVE SpaceInv'
<1> DEFINE q == pagetable[t]
           new == VmWriteProtect(table[q], readOnly[t])
<1>1. /\ place[t] = "loading" /\ place' = [place EXCEPT ![t] = "userland"]
      /\ table' = [table EXCEPT ![q] = new]
      /\ UNCHANGED <<reserved, buffers, pagetable, toMap, running, asid, tlb>>
  BY DEF EnterUserland, MoveTo, poolVars
<1>2. q \in Pages /\ table[q] \in Pagetables
  BY DEF SpaceInv, SpaceTypeOK
<1>3. /\ new \in Pagetables /\ new.valid = table[q].valid
      /\ \A i \in 1 .. MaxRows : /\ new.entries[i].asid = table[q].entries[i].asid
                                 /\ new.entries[i].vm = table[q].entries[i].vm
                                 /\ Frames(new.entries[i]) = Frames(table[q].entries[i])
  BY <1>2, VmWriteProtectRows
<1> HIDE DEF new, q
<1>4. /\ table' \in [Pages -> Pagetables]
      /\ \A p \in Pages : table'[p] = IF p = q THEN new ELSE table[p]
  BY <1>1, <1>2, <1>3 DEF SpaceInv, SpaceTypeOK
<1>5. \A p \in Pages : /\ table'[p].valid = table[p].valid
                       /\ \A i \in 1 .. MaxRows :
                              /\ table'[p].entries[i].asid = table[p].entries[i].asid
                              /\ table'[p].entries[i].vm = table[p].entries[i].vm
                              /\ Frames(table'[p].entries[i]) = Frames(table[p].entries[i])
  BY <1>3, <1>4
<1>6. place' \in [Tids -> Places]
      /\ \A u \in Tids : place'[u] = IF u = t THEN "userland" ELSE place[u]
  BY <1>1 DEF SpaceInv, SpaceTypeOK, Places
<1>7. SpaceTypeOK'
  BY <1>1, <1>4, <1>6 DEF SpaceInv, SpaceTypeOK
<1>8. TablesHeld'
  BY <1>1, <1>6 DEF SpaceInv, TablesHeld
<1>9. MappingLeft' /\ AsidInv'
  BY <1>1, <1>6 DEF SpaceInv, MappingLeft, AsidInv
<1>10. OwnRows'
  <2>1. ASSUME NEW u \in Tids, pagetable[u] # NoPage, NEW i \in 1 .. table'[pagetable[u]].valid
        PROVE  Written(table'[pagetable[u]].entries[i], u)
    <3>1. pagetable[u] \in Pages /\ table[pagetable[u]].valid \in 0 .. MaxRows
      BY DEF SpaceInv, SpaceTypeOK, Pagetables
    <3>2. i \in 1 .. table[pagetable[u]].valid /\ i \in 1 .. MaxRows
      <4>1. table'[pagetable[u]].valid = table[pagetable[u]].valid
        BY <1>5, <3>1
      <4>2. QED BY <2>1, <3>1, <4>1, AddressSpaceAssumption
    <3>3. QED BY <1>5, <2>1, <3>1, <3>2 DEF SpaceInv, OwnRows, TableOf, Written
  <2>2. QED BY <1>1, <2>1 DEF OwnRows, TableOf
<1>11. \A f, a : Names(f, a)' => Names(f, a)
  BY <1>1, <1>5, SameNames DEF SpaceInv
<1>12. FramesKept' /\ OneIdentifier'
  <2>1. {} \in SUBSET (Pages \ reserved)
    OBVIOUS
  <2>2. \A f \in Pages : Kept(f) \/ f \in {} => Kept(f)'
    BY <1>1 DEF Kept
  <2>3. \A f \in Pages, a \in Identifiers :
            Names(f, a)' => Names(f, a) \/ (f \in {} /\ a = Idle)
    BY <1>11
  <2>4. QED BY <2>1, <2>2, <2>3, NamesKept
<1>13. QED
  BY <1>7, <1>8, <1>9, <1>10, <1>12 DEF SpaceInv

\* process_finish frees the page of the pagetable only, which no row names.
LEMMA SpaceFinish ==
    ASSUME SpaceInv, NEW t \in Tids, place[t] \in {"loading", "userland"}, ProcessFinish(t)
    PROVE  SpaceInv'
<1>1. /\ reserved' = reserved \ {pagetable[t]}
      /\ pagetable' = [pagetable EXCEPT ![t] = NoPage]
      /\ place' = [place EXCEPT ![t] = "dying"]
      /\ UNCHANGED <<table, buffers, toMap, running, asid, tlb>>
  BY DEF ProcessFinish, FreePage, MoveTo
<1>2. pagetable' \in [Tids -> Pages]
      /\ \A u \in Tids : pagetable'[u] = IF u = t THEN NoPage ELSE pagetable[u]
  BY <1>1, NoPageIsPage DEF SpaceInv, SpaceTypeOK
<1>3. place' \in [Tids -> Places]
      /\ \A u \in Tids : place'[u] = IF u = t THEN "dying" ELSE place[u]
  BY <1>1 DEF SpaceInv, SpaceTypeOK, Places
<1>4. pagetable[t] # NoPage
  BY DEF SpaceInv, TablesHeld
<1>5. SpaceTypeOK'
  BY <1>1, <1>2, <1>3 DEF SpaceInv, SpaceTypeOK
<1>6. TablesHeld'
  BY <1>1, <1>2, <1>3, <1>4 DEF SpaceInv, TablesHeld
<1>7. MappingLeft' /\ AsidInv'
  BY <1>1, <1>3 DEF SpaceInv, MappingLeft, AsidInv
<1>8. OwnRows'
  BY <1>1, <1>2 DEF SpaceInv, OwnRows, TableOf
<1>9. \A f, a : Names(f, a)' => Names(f, a)
  BY <1>1, SameNames DEF SpaceInv
<1>10. ASSUME NEW f \in Pages, NEW a \in Identifiers, Names(f, a)'
       PROVE  Kept(f)'
  <2>1. Kept(f) /\ f # NoPage
    <3>1. Names(f, a)
      BY <1>9, <1>10
    <3>2. f # NoPage
      BY <3>1 DEF Names, InTable, InTlb, Frames
    <3>3. QED BY <3>1, <3>2 DEF SpaceInv, FramesKept
  <2>2. QED BY <1>1, <1>2, <2>1 DEF Kept
<1>11. FramesKept' /\ OneIdentifier'
  BY <1>9, <1>10 DEF SpaceInv, FramesKept, OneIdentifier
<1>12. QED
  BY <1>5, <1>6, <1>7, <1>8, <1>11 DEF SpaceInv

\* An exception copies a row of the running thread's pagetable into the TLB.
LEMMA SpaceRefill ==
    ASSUME SpaceInv, NEW c \in CPUs, running[c] \in Tids, NEW v, Refill(c, v)
    PROVE  SpaceInv'
<1> DEFINE q == pagetable[running[c]]
<1>1. PICK e \in FoundRows(c, v), victims \in SUBSET tlb[c] :
          tlb' = [tlb EXCEPT ![c] = (tlb[c] \ victims) \cup {e}]
  BY DEF Refill
<1>2. UNCHANGED <<reserved, buffers, table, pagetable, toMap, place, running, asid>>
  BY DEF Refill, poolVars
<1>3. PICK i \in 1 .. MaxRows : e = table[q].entries[i]
  BY <1>1 DEF FoundRows, TableOf
<1>4. q \in Pages /\ e \in Rows
  BY <1>3 DEF SpaceInv, SpaceTypeOK, Pagetables
<1> HIDE DEF q
<1>5. /\ tlb' \in [CPUs -> SUBSET Rows]
      /\ \A d \in CPUs : tlb'[d] \subseteq tlb[d] \cup {e}
  BY <1>1, <1>4 DEF SpaceInv, SpaceTypeOK
<1>6. SpaceTypeOK'
  BY <1>2, <1>5 DEF SpaceInv, SpaceTypeOK
<1>7. TablesHeld' /\ MappingLeft' /\ AsidInv' /\ OwnRows'
  BY <1>2 DEF SpaceInv, TablesHeld, MappingLeft, AsidInv, OwnRows, TableOf
<1>8. ASSUME NEW f, NEW a, Names(f, a)' PROVE Names(f, a)
  <2>1. CASE InTable(f, a)'
    BY <1>2, <2>1 DEF InTable, Names
  <2>2. CASE InTlb(f, a)'
    <3> PICK d \in CPUs : \E r \in tlb'[d] : f \in Frames(r) /\ Written(r, a)
      BY <2>2 DEF InTlb
    <3>1. PICK r \in tlb'[d] : f \in Frames(r) /\ Written(r, a)
      OBVIOUS
    <3>2. CASE r \in tlb[d]
      BY <3>1, <3>2 DEF InTlb, Names
    <3>3. CASE r = e
      BY <1>3, <1>4, <3>1, <3>3 DEF InTable, Names
    <3>4. QED BY <1>5, <3>1, <3>2, <3>3
  <2>3. QED BY <1>8, <2>1, <2>2 DEF Names
<1>9. FramesKept' /\ OneIdentifier'
  BY <1>2, <1>8 DEF SpaceInv, FramesKept, OneIdentifier, Kept
<1>10. QED
  BY <1>6, <1>7, <1>9 DEF SpaceInv

\* The network or the file system gets a page that no row names and no thread has, and
\* what it writes there is not vm_map's.
LEMMA SpaceGetBuffer == ASSUME SpaceInv, GetBuffer PROVE SpaceInv'
<1>1. PICK p \in Pages, L \in Leftovers : /\ GetFirstPage(p)
                                         /\ buffers' = buffers \cup {p}
                                         /\ table' = [table EXCEPT ![p].entries = L]
  BY DEF GetBuffer
<1>2. p \in Pages \ reserved /\ reserved' = reserved \cup {p}
  BY <1>1 DEF GetFirstPage, GetPage
<1>3. UNCHANGED <<pagetable, toMap, place, running, asid, tlb>>
  BY DEF GetBuffer
<1>4. L \in [1 .. MaxRows -> Rows] /\ \A i \in 1 .. MaxRows : ~L[i].vm
  <2>1. L \in [1 .. MaxRows -> [pair : Nat, asid : Identifiers, global : BOOLEAN, vm : {FALSE},
                                half : [0 .. 1 -> Halves]]]
    BY AddressSpaceAssumption DEF Identifiers, Halves
  <2>2. [pair : Nat, asid : Identifiers, global : BOOLEAN, vm : {FALSE},
         half : [0 .. 1 -> Halves]] \subseteq Rows
    BY DEF Rows
  <2>3. \A i \in 1 .. MaxRows : L[i] \in Rows /\ L[i].vm = FALSE
    BY <2>1, <2>2
  <2>4. QED BY <2>1, <2>3
<1>5. /\ table' \in [Pages -> Pagetables]
      /\ \A q \in Pages : table'[q].valid = table[q].valid
                          /\ table'[q].entries = IF q = p THEN L ELSE table[q].entries
  <2>1. table \in [Pages -> Pagetables]
    BY DEF SpaceInv, SpaceTypeOK
  <2>2. QED BY <1>1, <1>4, <2>1 DEF Pagetables
<1>6. SpaceTypeOK'
  BY <1>1, <1>2, <1>3, <1>5 DEF SpaceInv, SpaceTypeOK
<1>7. TablesHeld'
  BY <1>1, <1>2, <1>3 DEF SpaceInv, TablesHeld
<1>8. MappingLeft' /\ AsidInv'
  BY <1>3 DEF SpaceInv, MappingLeft, AsidInv
<1>9. OwnRows'
  <2>1. ASSUME NEW u \in Tids, pagetable[u] # NoPage
        PROVE  table'[pagetable[u]].valid = table[pagetable[u]].valid
               /\ table'[pagetable[u]].entries = table[pagetable[u]].entries
    BY <1>2, <1>5 DEF SpaceInv, SpaceTypeOK, TablesHeld
  <2>2. QED BY <1>3, <2>1 DEF SpaceInv, OwnRows, TableOf
<1>10. ASSUME NEW f, NEW a, Names(f, a)' PROVE Names(f, a)
  <2>1. CASE InTable(f, a)'
    <3>1. PICK q \in Pages, i \in 1 .. MaxRows :
              f \in Frames(table'[q].entries[i]) /\ Written(table'[q].entries[i], a)
      BY <2>1 DEF InTable
    <3>2. q # p
      BY <1>4, <1>5, <3>1 DEF Written
    <3>3. QED BY <1>5, <3>1, <3>2 DEF InTable, Names
  <2>2. CASE InTlb(f, a)'
    BY <1>3, <2>2 DEF InTlb, Names
  <2>3. QED BY <1>10, <2>1, <2>2 DEF Names
<1>11. FramesKept' /\ OneIdentifier'
  <2>1. {} \in SUBSET (Pages \ reserved)
    OBVIOUS
  <2>2. \A f \in Pages : Kept(f) \/ f \in {} => Kept(f)'
    BY <1>1, <1>2, <1>3 DEF Kept
  <2>3. \A f \in Pages, a \in Identifiers :
            Names(f, a)' => Names(f, a) \/ (f \in {} /\ a = Idle)
    BY <1>10
  <2>4. QED BY <2>1, <2>2, <2>3, NamesKept
<1>12. QED
  BY <1>6, <1>7, <1>8, <1>9, <1>11 DEF SpaceInv

\* It frees a page that no row names and no thread has.
LEMMA SpaceFreeBuffer == ASSUME SpaceInv, FreeBuffer PROVE SpaceInv'
<1>1. PICK p \in buffers : reserved' = reserved \ {p} /\ buffers' = buffers \ {p}
  BY DEF FreeBuffer, FreePage
<1>2. UNCHANGED <<table, pagetable, toMap, place, running, asid, tlb>>
  BY DEF FreeBuffer
<1>3. SpaceTypeOK' /\ TablesHeld' /\ MappingLeft' /\ AsidInv' /\ OwnRows'
  BY <1>1, <1>2
     DEF SpaceInv, SpaceTypeOK, TablesHeld, MappingLeft, AsidInv, OwnRows, TableOf
<1>4. \A f, a : Names(f, a)' => Names(f, a)
  BY <1>2, SameNames DEF SpaceInv
<1>5. FramesKept' /\ OneIdentifier'
  <2>1. {} \in SUBSET (Pages \ reserved)
    OBVIOUS
  <2>2. \A f \in Pages : Kept(f) \/ f \in {} => Kept(f)'
    BY <1>1, <1>2 DEF Kept
  <2>3. \A f \in Pages, a \in Identifiers :
            Names(f, a)' => Names(f, a) \/ (f \in {} /\ a = Idle)
    BY <1>4
  <2>4. QED BY <2>1, <2>2, <2>3, NamesKept
<1>6. QED
  BY <1>3, <1>5 DEF SpaceInv

-----------------------------------------------------------------------------
LEMMA SpaceStep == SpaceInv /\ [Next]_vars => SpaceInv'
<1> SUFFICES ASSUME SpaceInv, [Next]_vars PROVE SpaceInv'
  OBVIOUS
<1>1. ASSUME NEW t \in Tids, Spawn(t) PROVE SpaceInv'
  BY <1>1, SpaceSpawn
<1>2. ASSUME NEW c \in CPUs, NEW t \in Identifiers, ContextSwitch(c, t) PROVE SpaceInv'
  BY <1>2, SpaceSwitch
<1>3. ASSUME NEW c \in CPUs, Run(c) PROVE SpaceInv'
  <2> DEFINE t == running[c]
  <2>1. t \in Tids
    BY <1>3 DEF Run
  <2>2. CASE \E prog \in Programs : CreatePagetable(t, prog)
    BY <2>1, <2>2, SpaceCreate
  <2>3. CASE MapPage(t) \/ EnterUserland(t)
    BY <2>1, <2>3, SpaceMap, SpaceEnter
  <2>4. CASE Exit(t)
    BY <2>1, <2>4, SpaceFinish DEF Exit
  <2>5. ASSUME NEW v \in Addresses, Modified(c, v) \/ AccessViolation(c, v)
        PROVE  SpaceInv'
    <3>1. ProcessFinish(t) /\ place[t] \in {"loading", "userland"}
      BY <2>5 DEF Modified, AccessViolation, Misses, Uses
    <3>2. QED BY <2>1, <3>1, SpaceFinish
  <2>6. ASSUME NEW v \in Addresses, Refill(c, v) PROVE SpaceInv'
    BY <2>1, <2>6, SpaceRefill
  <2>7. QED
    BY <1>3, <2>2, <2>3, <2>4, <2>5, <2>6 DEF Run
<1>4. CASE UNCHANGED vars
  BY <1>4, SpaceUnchanged
     DEF vars, spaceVars, poolVars, SpaceInv, SpaceTypeOK, TablesHeld, MappingLeft, AsidInv
<1>5. QED
  BY <1>1, <1>2, <1>3, <1>4, SpaceGetBuffer, SpaceFreeBuffer DEF Next, Identifiers

LEMMA SpaceInvariance == Spec => []SpaceInv
  BY SpaceInit, SpaceStep, PTL DEF Spec

\* What a running thread can reach by the mappings of vm_map, through its TLB or through any
\* row that an exception would load, is allocated, is no pagetable, no buffer of the network
\* or the file system and no frame of another process, on any number of processors, however
\* often rows, pages and identifiers are used again, and whatever other users of the pool
\* leave in its pages (src/G4/buenos/vm/tlb.c:49-108, src/G4/buenos/kernel/interrupt.c:182-202).
\* Of rows that are not vm_map's it says nothing: an exception loads them, see MappingsLoaded.
THEOREM ProcessesIsolatedAlways == Spec => []ProcessesIsolated
<1>1. SpaceInv => ProcessesIsolated
  <2> SUFFICES ASSUME SpaceInv, NEW c \in CPUs, running[c] \in Tids,
                      NEW f \in Reach(c, running[c])
               PROVE  /\ f \in reserved \ buffers
                      /\ \A u \in Tids :
                             f \in (IF u = running[c] THEN {pagetable[u]} ELSE Owns(u))
                             => f = NoPage
    BY DEF ProcessesIsolated
  <2> DEFINE t == running[c]
  <2>1. asid[c] = t /\ t \in Identifiers
    BY DEF SpaceInv, AsidInv, Identifiers
  <2>2. Names(f, t) /\ f \in Pages
    <3>1. CASE \E e \in tlb[c] : Written(e, asid[c]) /\ f \in Frames(e)
      <4>1. PICK e \in tlb[c] : Written(e, asid[c]) /\ f \in Frames(e)
        BY <3>1
      <4>2. e \in Rows
        BY DEF SpaceInv, SpaceTypeOK
      <4>3. f \in Pages
        BY <4>1, <4>2, FramesArePages
      <4>4. QED BY <2>1, <4>1, <4>3 DEF Names, InTlb
    <3>2. CASE \E i \in 1 .. MaxRows :
                   Written(TableOf(t).entries[i], asid[c]) /\ f \in Frames(TableOf(t).entries[i])
      <4>1. PICK i \in 1 .. MaxRows :
                Written(TableOf(t).entries[i], asid[c]) /\ f \in Frames(TableOf(t).entries[i])
        BY <3>2
      <4>2. pagetable[t] \in Pages /\ TableOf(t) = table[pagetable[t]]
        BY DEF SpaceInv, SpaceTypeOK, TableOf
      <4>3. TableOf(t).entries[i] \in Rows
        BY <4>2 DEF SpaceInv, SpaceTypeOK, Pagetables
      <4>4. f \in Pages
        BY <4>1, <4>3, FramesArePages
      <4>5. QED BY <2>1, <4>1, <4>2, <4>4 DEF Names, InTable
    <3>3. f \in UNION {Frames(e) : e \in {e \in tlb[c] : e.vm /\ e.asid = asid[c]}} =>
              \E e \in tlb[c] : Written(e, asid[c]) /\ f \in Frames(e)
      BY DEF Written
    <3>4. f \in UNION {Frames(TableOf(t).entries[i]) :
                          i \in {i \in 1 .. MaxRows : TableOf(t).entries[i].vm
                                                       /\ TableOf(t).entries[i].asid = asid[c]}} =>
              \E i \in 1 .. MaxRows :
                  Written(TableOf(t).entries[i], asid[c]) /\ f \in Frames(TableOf(t).entries[i])
      BY DEF Written
    <3>5. f \in Reach(c, t)
      OBVIOUS
    <3> HIDE DEF t
    <3>6. \/ f \in UNION {Frames(e) : e \in {e \in tlb[c] : e.vm /\ e.asid = asid[c]}}
          \/ f \in UNION {Frames(TableOf(t).entries[i]) :
                            i \in {i \in 1 .. MaxRows : TableOf(t).entries[i].vm
                                                         /\ TableOf(t).entries[i].asid = asid[c]}}
      BY <3>5 DEF Reach
    <3>7. QED BY <3>1, <3>2, <3>3, <3>4, <3>6
  <2>3. f \in reserved \ buffers /\ \A u \in Tids : pagetable[u] # f
    BY <2>1, <2>2 DEF SpaceInv, FramesKept, Kept
  <2>4. ASSUME NEW u \in Tids, u # t PROVE f \notin Owns(u)
    <3> SUFFICES ASSUME f \in Owns(u) PROVE FALSE
      OBVIOUS
    <3>1. pagetable[u] # NoPage
      BY DEF Owns
    <3>2. PICK i \in 1 .. TableOf(u).valid : f \in Frames(TableOf(u).entries[i])
      BY <2>3, <3>1 DEF Owns
    <3>3. Written(TableOf(u).entries[i], u) /\ u \in Identifiers
      BY <3>1 DEF SpaceInv, OwnRows, Identifiers
    <3>4. pagetable[u] \in Pages /\ table[pagetable[u]].valid \in 0 .. MaxRows
      BY DEF SpaceInv, SpaceTypeOK, Pagetables
    <3>5. i \in 1 .. MaxRows
      BY <3>4, AddressSpaceAssumption DEF TableOf
    <3>6. Names(f, u)
      BY <3>2, <3>3, <3>4, <3>5 DEF Names, InTable, TableOf
    <3>7. QED BY <2>1, <2>2, <2>4, <3>3, <3>6 DEF SpaceInv, OneIdentifier
  <2>5. QED BY <2>3, <2>4
<1>2. QED
  BY <1>1, SpaceInvariance, PTL
=============================================================================
