-------------------------------- MODULE Pop --------------------------------
(***************************************************************************)
(* Sockets and the POP protocol (net/socket.c, net/pop.c) over the frame   *)
(* layer (net/network.c): threads that open sockets, send through the      *)
(* loopback address or an interface, receive and close; the receive thread *)
(* of an interface; the POP queue; and the service thread, which takes a   *)
(* frame out of the queue under both locks and handles it without a lock.  *)
(*                                                                         *)
(* What runs under open_sockets_sem or pop_queue_sem does not block, so    *)
(* each such section is one action.  A frame is a page of the page pool; a *)
(* packet is known by the port it is sent to.                              *)
(***************************************************************************)
EXTENDS PagePool

CONSTANTS
    Users,         \* threads that use sockets
    NoUser,        \* rbuf is NULL
    MaxSockets,    \* CONFIG_MAX_OPEN_SOCKETS
    QueueSize,     \* CONFIG_POP_QUEUE_SIZE
    Ports,         \* port numbers
    ClosedPort,    \* the port 0, of no socket
    MaxSignals     \* bound on the value of pop_service_thread_sem

Interface == "interface"   \* network_receive_thread of the only interface
Senders == Users \cup {Interface}

ASSUME PopAssumption ==
    /\ IsFiniteSet(Users) /\ NoUser \notin Users /\ Interface \notin Users
    /\ MaxSockets \in Nat \ {0} /\ QueueSize \in Nat \ {0}
    /\ ClosedPort \notin Ports
    /\ MaxSignals \in Nat \ {0}

Sockets == 0 .. MaxSockets - 1
NoSocket == -1
Slots == 0 .. QueueSize - 1
NoSlot == -1

VARIABLES
    port,       \* open_sockets[s].port, ClosedPort if its protocol is 0
    rbuf,       \* open_sockets[s].rbuf: the thread whose buffer it is
    sender,     \* open_sockets[s].sender, copied and sport: the thread whose they are
    complete,   \* value of open_sockets[s].receive_complete
    queue,      \* pop_queue: frame, socket, busy
    serviceSem, \* value of pop_service_thread_sem
    sendBuf,    \* who holds pop_send_buffer_sem
    service,    \* where the service thread is, with its slot and f
    packet,     \* the destination port in a page that holds a frame, ClosedPort
                \* (nothing is known) in another
    at,         \* where a user or the interface's thread is
    page,       \* its local variable phys_frame
    mine,       \* the socket that user u uses
    stale,      \* slots whose socket was reopened after their frame found it
    overtaken   \* has a frame been replaced while the service thread discarded it?

socketVars == <<port, rbuf, sender, complete>>
traces == <<stale, overtaken>>
vars == <<poolVars, socketVars, queue, serviceSem, sendBuf, service, packet, at, page,
          mine, traces>>

EmptySlot == [frame |-> NoPage, socket |-> NoSocket, busy |-> FALSE]
Idle(place) == [at |-> place, slot |-> NoSlot, frame |-> NoPage]

\* socket_init, pop_init and network_init.  The page of the send buffer is never
\* freed and counts as one of the kernel's.
Init ==
    /\ PoolInit
    /\ port = [s \in Sockets |-> ClosedPort]
    /\ rbuf = [s \in Sockets |-> NoUser]
    /\ sender = [s \in Sockets |-> NoUser]
    /\ complete = [s \in Sockets |-> 0]
    /\ queue = [i \in Slots |-> EmptySlot]
    /\ serviceSem = 0
    /\ sendBuf = NoUser
    /\ service = Idle("scan")
    /\ packet = [p \in Pages |-> ClosedPort]
    /\ at = [t \in Senders |-> IF t = Interface THEN "get" ELSE "user"]
    /\ page = [t \in Senders |-> NoPage]
    /\ mine = [u \in Users |-> NoSocket]
    /\ stale = {}
    /\ overtaken = FALSE

MoveTo(t, place) == at' = [at EXCEPT ![t] = place]

-----------------------------------------------------------------------------
(* Sockets.  A socket is used by the thread that opened it and by those it is     *)
(* handed to, each with one call at a time.  "The socket must not be used after    *)
(* this operation" (socket_close, socket.c:171): the threads that have it keep to  *)
(* that, and none closes it under a call of another.                               *)

PortInUse(n) == \E s \in Sockets : port[s] = n

\* socket_open; port n is asked for, or the lowest unused one (the \E covers both).
Open(u, n) ==
    /\ at[u] = "user" /\ mine[u] = NoSocket
    /\ ~PortInUse(n)
    /\ \E s \in Sockets :
           /\ port[s] = ClosedPort /\ \A r \in 0 .. s - 1 : port[r] # ClosedPort
           /\ port' = [port EXCEPT ![s] = n]
           /\ rbuf' = [rbuf EXCEPT ![s] = NoUser]
           /\ sender' = [sender EXCEPT ![s] = NoUser]
           /\ complete' = [complete EXCEPT ![s] = 0]
           /\ mine' = [mine EXCEPT ![u] = s]
           /\ stale' = stale \cup {i \in Slots : queue[i].frame # NoPage /\ queue[i].socket = s}
    /\ UNCHANGED <<poolVars, queue, serviceSem, sendBuf, service, packet, at, page, overtaken>>

\* A thread is handed the socket that another one uses.
Share(u, v) ==
    /\ at[u] = "user" /\ mine[u] = NoSocket
    /\ mine[v] # NoSocket
    /\ mine' = [mine EXCEPT ![u] = mine[v]]
    /\ UNCHANGED <<poolVars, socketVars, queue, serviceSem, sendBuf, service, packet, at, page, traces>>

\* socket_close.
Close(u) ==
    LET s == mine[u]
    IN /\ s # NoSocket /\ \A v \in Users : mine[v] = s => at[v] = "user"
       /\ port' = [port EXCEPT ![s] = ClosedPort]
       /\ rbuf' = [rbuf EXCEPT ![s] = NoUser]
       /\ sender' = [sender EXCEPT ![s] = NoUser]
       /\ complete' = [complete EXCEPT ![s] = 0]
       /\ mine' = [v \in Users |-> IF mine[v] = s THEN NoSocket ELSE mine[v]]
       /\ UNCHANGED <<poolVars, queue, serviceSem, sendBuf, service, packet, at, page, traces>>

\* socket_recvfrom: the buffer and the variables for the results are announced under
\* the lock.  (If another thread's buffer is, the call returns an error.)
Receive(u) ==
    /\ at[u] = "user" /\ mine[u] # NoSocket /\ rbuf[mine[u]] = NoUser
    /\ rbuf' = [rbuf EXCEPT ![mine[u]] = u]
    /\ sender' = [sender EXCEPT ![mine[u]] = u]
    /\ MoveTo(u, "announced")
    /\ UNCHANGED <<poolVars, port, complete, queue, serviceSem, sendBuf, service, packet, page, mine, traces>>

\* Mutant of SignalFor: socket_recvfrom relies on the frames still to come.
SignalForFrames(t) == IF at[t] = "announced" THEN 0 ELSE 1

\* What the semaphore_V of socket_recvfrom and of pop_push_frame adds.
SignalFor(t) == 1

\* ... the service thread is signalled...
ReceiveSignal(u) ==
    /\ at[u] = "announced" /\ serviceSem < MaxSignals
    /\ serviceSem' = serviceSem + SignalFor(u)
    /\ MoveTo(u, "receiving")
    /\ UNCHANGED <<poolVars, socketVars, queue, sendBuf, service, packet, page, mine, traces>>

\* ... and the thread waits until a packet has been copied, to its buffer or another's.
ReceiveDone(u) ==
    /\ at[u] = "receiving" /\ complete[mine[u]] > 0
    /\ complete' = [complete EXCEPT ![mine[u]] = @ - 1]
    /\ MoveTo(u, "user")
    /\ UNCHANGED <<poolVars, port, rbuf, sender, queue, serviceSem, sendBuf, service, packet, page, mine, traces>>

-----------------------------------------------------------------------------
\* socket_sendto: the send buffer is taken and its contents go to port n in a
\* frame of network_send's (which returns an error when there is no page: nothing
\* has changed then).
Send(u, n) ==
    /\ at[u] = "user" /\ mine[u] # NoSocket
    /\ sendBuf = NoUser
    /\ \E p \in Pages :
           /\ GetPage(p)
           /\ page' = [page EXCEPT ![u] = p]
           /\ packet' = [packet EXCEPT ![p] = n]
    /\ sendBuf' = u
    /\ MoveTo(u, "send")
    /\ UNCHANGED <<socketVars, queue, serviceSem, service, mine, traces>>

\* network_send frees the page of a frame that was sent or refused.
FreeFrame(u) ==
    /\ FreePage(page[u])
    /\ packet' = [packet EXCEPT ![page[u]] = ClosedPort]
    /\ page' = [page EXCEPT ![u] = NoPage]
    /\ sendBuf' = NoUser
    /\ MoveTo(u, "user")
    /\ UNCHANGED <<socketVars, queue, serviceSem, service, mine, traces>>

\* The frame has gone out through the interface; what becomes of it is not seen.
\* (The loopback address leads to pop_push_frame instead.)
SendOut(u) == at[u] = "send" /\ FreeFrame(u)

\* network_receive_thread gets a page when it has none (and fails an assertion
\* when there is none left)...
ReceivePage ==
    /\ at[Interface] = "get"
    /\ \E p \in Pages :
           /\ GetPage(p)
           /\ page' = [page EXCEPT ![Interface] = p]
    /\ MoveTo(Interface, "recv")
    /\ UNCHANGED <<socketVars, queue, serviceSem, sendBuf, service, packet, mine, traces>>

\* ... and gnd->recv puts a packet for any port into it, at any time or never.
FrameArrives(n) ==
    /\ at[Interface] = "recv"
    /\ packet' = [packet EXCEPT ![page[Interface]] = n]
    /\ MoveTo(Interface, "send")
    /\ UNCHANGED <<poolVars, socketVars, queue, serviceSem, sendBuf, service, page, mine, traces>>

-----------------------------------------------------------------------------
FreeSlots == {i \in Slots : queue[i].frame = NoPage}

\* Mutant of Replaceable: the busy flag is not looked at.
AnySlot(i) == TRUE

\* The slot that pop_push_frame may take from another frame: not busy (and the
\* oldest, and old enough; which slot that is, is left open).
Replaceable(i) == ~queue[i].busy

\* Mutant of Entry: the socket of the slot's last frame is not reset.
EntryKept(t, i) == [queue[i] EXCEPT !.frame = page[t]]

\* The slot's new contents.
Entry(t, i) == [frame |-> page[t], socket |-> NoSocket, busy |-> FALSE]

Enqueued(t, i) ==
    /\ queue' = [queue EXCEPT ![i] = Entry(t, i)]
    /\ page' = [page EXCEPT ![t] = NoPage]
    /\ stale' = stale \ {i}
    /\ MoveTo(t, "signal")
    /\ UNCHANGED <<socketVars, serviceSem, sendBuf, service, mine>>

\* pop_push_frame: the first free slot...
Push(t) ==
    /\ at[t] = "send"
    /\ \E i \in FreeSlots :
           /\ \A j \in FreeSlots : i <= j
           /\ Enqueued(t, i)
    /\ UNCHANGED <<poolVars, packet, overtaken>>

Discarding(i) == service.at \in {"discard", "clear"} /\ service.slot = i

\* ... or that of another frame, which is freed, even one that the service thread is
\* about to discard or has freed just now.  (What that does without the locks has, if it
\* falls into this section, the same effect as before or after it.)
PushReplace(t) ==
    /\ at[t] = "send" /\ FreeSlots = {}
    /\ \E i \in Slots :
           /\ Replaceable(i)
           /\ FreePage(queue[i].frame)
           /\ packet' = [packet EXCEPT ![queue[i].frame] = ClosedPort]
           /\ overtaken' = (overtaken \/ Discarding(i))
           /\ Enqueued(t, i)

\* ... or the packet is dropped; network_receive_thread uses its page again.
PushRefused(t) ==
    /\ at[t] = "send" /\ FreeSlots = {}
    /\ \/ t # Interface /\ FreeFrame(t)
       \/ /\ t = Interface
          /\ packet' = [packet EXCEPT ![page[t]] = ClosedPort]
          /\ MoveTo(t, "recv")
          /\ UNCHANGED <<poolVars, socketVars, queue, serviceSem, sendBuf, service, page,
                         mine, traces>>

\* An accepted frame: the service thread is signalled.
PushSignal(t) ==
    /\ at[t] = "signal" /\ serviceSem < MaxSignals
    /\ serviceSem' = serviceSem + SignalFor(t)
    /\ sendBuf' = IF t = Interface THEN sendBuf ELSE NoUser
    /\ MoveTo(t, IF t = Interface THEN "get" ELSE "user")
    /\ UNCHANGED <<poolVars, socketVars, queue, service, packet, page, mine, traces>>

-----------------------------------------------------------------------------
\* The socket a frame belongs to: found once, by the port, and then kept.
OpenSockets == {s \in Sockets : port[s] # ClosedPort}
Listening(n) == {s \in OpenSockets : port[s] = n}
SocketOf(i) ==
    IF queue[i].socket # NoSocket THEN queue[i].socket
    ELSE IF Listening(packet[queue[i].frame]) = {} THEN NoSocket
    ELSE CHOOSE s \in Listening(packet[queue[i].frame]) : TRUE

Awaited == {s \in OpenSockets : rbuf[s] # NoUser}

\* Nobody listens, or the socket has been closed: the frame is discarded.
Discards(i) == SocketOf(i) \notin OpenSockets
Transfers(i) == SocketOf(i) \in Awaited
Acts(i) == queue[i].frame # NoPage /\ SocketOf(i) \notin OpenSockets \ Awaited

\* The slots that the loop passes up to and with the first it can act on find
\* their socket; that one becomes busy if it is to be transferred.
Scanned(stop) ==
    [i \in Slots |->
        IF queue[i].frame = NoPage \/ i > stop THEN queue[i]
        ELSE [queue[i] EXCEPT !.socket = SocketOf(i),
                              !.busy = @ \/ Transfers(i)]]

\* pop_service_thread under both locks.
Scan ==
    /\ service.at = "scan"
    /\ \/ \E i \in Slots :
              /\ Acts(i) /\ \A j \in 0 .. i - 1 : ~Acts(j)
              /\ queue' = Scanned(i)
              /\ service' = [at |-> IF Discards(i) THEN "discard" ELSE "copy",
                             slot |-> i, frame |-> queue[i].frame]
       \/ /\ \A i \in Slots : ~Acts(i)
          /\ queue' = Scanned(QueueSize)
          /\ service' = Idle("sleep")
    /\ UNCHANGED <<poolVars, socketVars, serviceSem, sendBuf, packet, at, page, mine, traces>>

\* semaphore_P(pop_service_thread_sem)
Wake ==
    /\ service.at = "sleep" /\ serviceSem > 0
    /\ serviceSem' = serviceSem - 1
    /\ service' = Idle("scan")
    /\ UNCHANGED <<poolVars, socketVars, queue, sendBuf, packet, at, page, mine, traces>>

\* Mutant of Answered: the buffer stays announced after the copy.
StillAnnounced(s) == rbuf

\* open_sockets[s].rbuf = NULL
Answered(s) == [rbuf EXCEPT ![s] = NoUser]

\* The payload and the return values are copied, and the buffer taken out of the
\* socket: from now on socket_recvfrom lets the next thread in...
Copy ==
    LET s == queue[service.slot].socket
    IN /\ service.at = "copy"
       /\ rbuf' = Answered(s)
       /\ service' = [service EXCEPT !.at = "zero"]
       /\ UNCHANGED <<poolVars, port, sender, complete, queue, serviceSem, sendBuf, packet,
                      at, page, mine, traces>>

\* ... and then the receiver's variables, which may be the next one's already.  (The copy
\* to that one then writes through a NULL pointer: OneAnswerPerReceive says which sockets
\* are safe from that.)
Zero ==
    LET s == queue[service.slot].socket
    IN /\ service.at = "zero"
       /\ sender' = [sender EXCEPT ![s] = NoUser]
       /\ service' = [service EXCEPT !.at = "free"]
       /\ UNCHANGED <<poolVars, port, rbuf, complete, queue, serviceSem, sendBuf, packet,
                      at, page, mine, traces>>

\* network_free_frame, of a frame that is discarded or has been copied.
ServiceFree ==
    /\ service.at \in {"discard", "free"}
    /\ FreePage(service.frame)
    /\ packet' = [packet EXCEPT ![service.frame] = ClosedPort]
    /\ service' = [service EXCEPT !.at = IF @ = "free" THEN "wake" ELSE "clear"]
    /\ UNCHANGED <<socketVars, queue, serviceSem, sendBuf, at, page, mine, traces>>

\* The caller of socket_recvfrom is woken...
WakeReceiver ==
    LET s == queue[service.slot].socket
    IN /\ service.at = "wake"
       /\ complete' = [complete EXCEPT ![s] = @ + 1]
       /\ service' = [service EXCEPT !.at = "clear"]
       /\ UNCHANGED <<poolVars, port, rbuf, sender, queue, serviceSem, sendBuf, packet, at, page,
                      mine, traces>>

\* ... and the slot is free again (its other fields are not read until
\* pop_push_frame has set them).
ClearSlot ==
    /\ service.at = "clear"
    /\ queue' = [queue EXCEPT ![service.slot] = EmptySlot]
    /\ service' = Idle("scan")
    /\ UNCHANGED <<poolVars, socketVars, serviceSem, sendBuf, packet, at, page, mine, traces>>

Service == Scan \/ Wake \/ Copy \/ Zero \/ ServiceFree \/ WakeReceiver \/ ClearSlot

Push_(t) == Push(t) \/ PushReplace(t) \/ PushRefused(t) \/ PushSignal(t)

User(u) ==
    \/ \E n \in Ports : Open(u, n) \/ Send(u, n)
    \/ Close(u) \/ \E v \in Users : Share(u, v)
    \/ Receive(u) \/ ReceiveSignal(u) \/ ReceiveDone(u)
    \/ SendOut(u) \/ Push_(u)

Next ==
    \/ \E u \in Users : User(u)
    \/ ReceivePage \/ (\E n \in Ports : FrameArrives(n)) \/ Push_(Interface)
    \/ Service

Spec == Init /\ [][Next]_vars

-----------------------------------------------------------------------------
\* The variables have their types; frames are in pages that are not the kernel's.
PopTypeOK ==
    /\ reserved \subseteq Pages /\ freePages \in 0 .. Cardinality(Pages)
    /\ port \in [Sockets -> Ports \cup {ClosedPort}]
    /\ rbuf \in [Sockets -> Users \cup {NoUser}]
    /\ sender \in [Sockets -> Users \cup {NoUser}]
    /\ complete \in [Sockets -> 0 .. Cardinality(Users)]
    /\ queue \in [Slots -> [frame : {NoPage} \cup (Pages \ StaticPages),
                            socket : Sockets \cup {NoSocket}, busy : BOOLEAN]]
    /\ serviceSem \in 0 .. MaxSignals
    /\ page \in [Senders -> {NoPage} \cup (Pages \ StaticPages)]
    /\ \A u \in Users : mine[u] # NoSocket => port[mine[u]] \in Ports

\* The slot of a frame that the service thread has freed already.
Spent(i) == service.slot = i /\ service.at \in {"wake", "clear"}

Holders(p) ==
    {t \in Senders : page[t] = p} \cup {i \in Slots : queue[i].frame = p /\ ~Spent(i)}

\* "Given page should be reserved" and "Check that the page was reserved"
\* (pagepool.c:134, 152): what pop_service_thread is about to free is in use.
FreesReservedPages ==
    service.at \in {"discard", "free"} => service.frame \in reserved

\* Every page in use has one holder, a sender, the interface or a slot of the
\* queue: a frame is freed exactly once, whether it is sent, refused, discarded,
\* replaced or delivered.  The one exception is pop_push_frame replacing a frame that
\* pop_service_thread discards without a lock: FreesReservedPages fails then, and all
\* of this may.  The count of free pages agrees with the bitmap in any case.
PagesHeldOnce ==
    /\ ~overtaken =>
           /\ FreesReservedPages
           /\ \A p \in Pages \ StaticPages :
                  Cardinality(Holders(p)) = IF p \in reserved THEN 1 ELSE 0
    /\ freePages = Cardinality(Pages \ reserved)

Receiving(u) == at[u] \in {"announced", "receiving"}
Receivers(s) == {u \in Users : mine[u] = s /\ Receiving(u)}

\* The service thread has taken a buffer out of socket s and not yet said so.
Served(s) == service.at \in {"zero", "free", "wake"} /\ queue[service.slot].socket = s

\* The answers that are under way to the callers of socket_recvfrom on s.
Answers(s) ==
    (IF rbuf[s] # NoUser THEN 1 ELSE 0) + (IF Served(s) THEN 1 ELSE 0) + complete[s]

\* There are as many answers under way for a socket as threads wait on it, however
\* their calls, the service thread and frames come together: no call waits for ever
\* for want of an answer, and no answer is left for a later call.  If only one thread
\* uses the socket, the buffer and the variables in it are those of the call that
\* waits, and nothing is written into them after it.  ("there can be only one active
\* recvfrom at a time", pop.c:206, is not so: between Copy and WakeReceiver the next
\* thread is let in, and which of the two returns first is left to the semaphore.)
OneAnswerPerReceive ==
    \A u \in Users : mine[u] # NoSocket =>
        LET s == mine[u]
        IN /\ Answers(s) = Cardinality(Receivers(s))
           /\ (\A v \in Users \ {u} : mine[v] # s) =>
                  rbuf[s] \in {NoUser, u} /\ (rbuf[s] = u => sender[s] = u)

ServiceWillScan ==
    \/ service.at # "sleep" \/ serviceSem > 0
    \/ \E t \in Senders : at[t] \in {"announced", "signal"}

\* No wakeup is lost: while a buffer is announced and a frame for its socket is in the
\* queue, the service thread is at work or will be signalled.
NoMailForgotten ==
    ~overtaken =>
        \A s \in Awaited : \A i \in Slots :
            queue[i].frame # NoPage /\ SocketOf(i) = s => ServiceWillScan

\* A frame is copied to the socket that is bound to its port, unless the socket
\* was closed and reopened while the frame waited: the queue keeps the socket's
\* index, which then means another socket.
MailReachesItsPort ==
    service.at = "copy" /\ ~overtaken =>
        LET i == service.slot
        IN port[queue[i].socket] = packet[queue[i].frame] \/ i \in stale
=============================================================================
