------------------------------ MODULE PopProofs ------------------------------
(***************************************************************************)
(* Proofs about module Pop, for any number of users, sockets, slots of the *)
(* queue, ports and pages.  pop_push_frame may replace a frame that        *)
(* pop_service_thread discards, and from then on a page may be freed under *)
(* its owner; what depends on that is proved until it happens (PopRest),   *)
(* the rest of every state (PopCore).                                      *)
(***************************************************************************)
EXTENDS Pop, FiniteSetTheorems, TLAPS

-----------------------------------------------------------------------------
UserPlaces == {"user", "announced", "receiving", "send", "signal"}
InterfacePlaces == {"get", "recv", "send", "signal"}
Resting == {"scan", "sleep"}
Transferring == {"copy", "zero", "free", "wake"}
ServicePlaces == Resting \cup {"discard", "clear"} \cup Transferring

\* The types of the variables that PopTypeOK leaves out.
Fields ==
    /\ sendBuf \in Users \cup {NoUser}
    /\ service \in [at : ServicePlaces, slot : Slots \cup {NoSlot}, frame : Pages]
    /\ packet \in [Pages -> Ports \cup {ClosedPort}]
    /\ at \in [Senders -> UserPlaces \cup InterfacePlaces]
    /\ at[Interface] \in InterfacePlaces /\ \A u \in Users : at[u] \in UserPlaces
    /\ mine \in [Users -> Sockets \cup {NoSocket}]
    /\ stale \subseteq Slots /\ overtaken \in BOOLEAN

\* Who sends or waits for a frame has a page.
PagesAtHand == \A t \in Senders : page[t] # NoPage <=> at[t] \in {"send", "recv"}

\* The kernel keeps its pages, and the pool has counted the others.
PoolCounted ==
    /\ StaticPages \subseteq reserved
    /\ freePages = Cardinality(Pages \ reserved)

\* What the service thread remembers of the slot it works on is still so: only that slot
\* is busy, so that no frame is replaced while it is transferred.
ServiceKnows ==
    /\ service.at \in Resting => service.slot = NoSlot
    /\ service.at \notin Resting =>
           service.slot \in Slots /\ queue[service.slot].frame # NoPage
    /\ service.at \in Transferring =>
           /\ queue[service.slot].busy /\ queue[service.slot].socket \in Sockets
           /\ port[queue[service.slot].socket] # ClosedPort
    /\ service.at \in {"copy", "free"} => service.frame = queue[service.slot].frame
    /\ service.at = "zero" => service.frame = queue[service.slot].frame
    /\ service.at = "copy" => rbuf[queue[service.slot].socket] # NoUser
    /\ \A i \in Slots :
           /\ queue[i].busy => service.slot = i /\ service.at \notin {"discard"} \cup Resting
           /\ queue[i].frame = NoPage => queue[i] = EmptySlot

\* An open socket has a port of its own; a buffer in it is of a thread that uses it, and
\* a closed one has none.
SocketsOwned ==
    /\ \A u \in Users : Receiving(u) => mine[u] # NoSocket
    /\ \A r, s \in Sockets : port[r] = port[s] /\ port[r] # ClosedPort => r = s
    /\ \A s \in Sockets : port[s] = ClosedPort => rbuf[s] = NoUser /\ complete[s] = 0
    /\ \A s \in Sockets : rbuf[s] # NoUser => mine[rbuf[s]] = s

\* As many answers are under way for a socket as calls wait on it.
CallsAnswered == \A s \in Sockets : Answers(s) = Cardinality(Receivers(s))

\* The variables in a socket that only one thread uses are those of its call.
SoleCaller ==
    \A u \in Users :
        /\ mine[u] # NoSocket /\ \A v \in Users \ {u} : mine[v] # mine[u]
        /\ rbuf[mine[u]] = u
        => sender[mine[u]] = u

PopCore ==
    /\ PopTypeOK /\ Fields /\ PagesAtHand /\ PoolCounted
    /\ ServiceKnows /\ SocketsOwned /\ CallsAnswered /\ SoleCaller

-----------------------------------------------------------------------------
\* A slot whose frame has not been freed by the service thread.
Live(i) == queue[i].frame # NoPage /\ ~Spent(i)

\* The pages in use are the kernel's, the senders' and those of the live slots, each of
\* one holder.
PagesOwned ==
    /\ \A t \in Senders : page[t] # NoPage => page[t] \in reserved
    /\ \A i \in Slots : Live(i) => queue[i].frame \in reserved
    /\ \A s, t \in Senders : page[s] = page[t] /\ page[s] # NoPage => s = t
    /\ \A t \in Senders, i \in Slots : Live(i) => page[t] # queue[i].frame
    /\ \A i, j \in Slots : Live(i) /\ Live(j) /\ queue[i].frame = queue[j].frame => i = j
    /\ \A p \in reserved \ StaticPages :
           \/ \E t \in Senders : page[t] = p
           \/ \E i \in Slots : Live(i) /\ queue[i].frame = p

\* A frame that is to be pushed or is in the queue holds a packet.
PacketsKnown ==
    /\ \A t \in Senders : at[t] = "send" => packet[page[t]] \in Ports
    /\ \A i \in Slots : Live(i) => packet[queue[i].frame] \in Ports

\* A frame that the service thread discards is still the slot's.
DiscardKnows == service.at = "discard" => service.frame = queue[service.slot].frame

\* A socket that a live slot remembers is bound to its packet's port, has been
\* closed, or has been opened again since.
MailBound ==
    \A i \in Slots : Live(i) /\ queue[i].socket # NoSocket /\ i \notin stale =>
        port[queue[i].socket] \in {ClosedPort, packet[queue[i].frame]}

\* The frame in slot i is for socket s, when the service thread looks for it.
Fits(i, s) ==
    \/ queue[i].socket = s
    \/ queue[i].socket = NoSocket /\ port[s] = packet[queue[i].frame]

\* A service thread that sleeps and will not be signalled has nothing to transfer.
MailSeen ==
    \/ ServiceWillScan
    \/ \A i \in Slots, s \in Sockets :
           queue[i].frame # NoPage /\ Fits(i, s) /\ port[s] # ClosedPort => rbuf[s] = NoUser

PopRest == PagesOwned /\ PacketsKnown /\ DiscardKnows /\ MailBound /\ MailSeen

PopInv == PopCore /\ (~overtaken => PopRest)

-----------------------------------------------------------------------------
\* The indices that stand for none.
LEMMA NoneIsNone ==
    /\ NoSocket \notin Sockets /\ NoSlot \notin Slots
    /\ NoPage \in Pages /\ NoPage \in StaticPages /\ ClosedPort \notin Ports
    /\ Interface \notin Users /\ NoUser \notin Users
    /\ Users \subseteq Senders /\ Interface \in Senders
    /\ \A t \in Senders : t # Interface => t \in Users
BY PopAssumption, PagePoolAssumption
DEF NoSocket, Sockets, NoSlot, Slots, Senders

LEMMA EmptySlotIsEmpty ==
    EmptySlot.frame = NoPage /\ EmptySlot.socket = NoSocket /\ EmptySlot.busy = FALSE
BY DEF EmptySlot

\* The pool's count is right after each of its calls, and no call takes the kernel's pages.
LEMMA PoolBounds ==
    ASSUME freePages = Cardinality(Pages \ reserved)
    PROVE  freePages \in 0 .. Cardinality(Pages)
<1>1. IsFiniteSet(Pages) /\ Pages \ reserved \subseteq Pages
  BY PagePoolAssumption
<1>2. /\ Cardinality(Pages \ reserved) <= Cardinality(Pages)
      /\ Cardinality(Pages \ reserved) \in Nat /\ Cardinality(Pages) \in Nat
  BY <1>1, FS_Subset, FS_CardinalityType
<1>3. QED
  BY <1>2

LEMMA PoolGet ==
    ASSUME PoolCounted, NEW p, GetPage(p)
    PROVE  /\ p \in Pages \ reserved /\ p \notin StaticPages /\ reserved' = reserved \cup {p}
           /\ PoolCounted' /\ freePages' \in 0 .. Cardinality(Pages)
<1>1. p \in Pages \ reserved /\ reserved' = reserved \cup {p} /\ freePages' = freePages - 1
  BY DEF GetPage
<1>2. IsFiniteSet(Pages \ reserved)
  BY PagePoolAssumption, FS_Subset
<1>3. Pages \ reserved' = (Pages \ reserved) \ {p}
  BY <1>1
<1>4. Cardinality(Pages \ reserved') = Cardinality(Pages \ reserved) - 1
  BY <1>1, <1>2, <1>3, FS_RemoveElement
<1>5. PoolCounted' /\ p \notin StaticPages
  BY <1>1, <1>4 DEF PoolCounted
<1>6. freePages' \in 0 .. Cardinality(Pages)
  <2>1. IsFiniteSet(Pages) /\ Pages \ reserved' \subseteq Pages
    BY PagePoolAssumption
  <2>2. /\ Cardinality(Pages \ reserved') <= Cardinality(Pages)
        /\ Cardinality(Pages \ reserved') \in Nat /\ Cardinality(Pages) \in Nat
    BY <2>1, FS_Subset, FS_CardinalityType
  <2>3. QED
    BY <1>5, <2>2 DEF PoolCounted
<1>7. QED
  BY <1>1, <1>5, <1>6

LEMMA PoolFree ==
    ASSUME PoolCounted, reserved \subseteq Pages, NEW p, FreePage(p)
    PROVE  /\ p \in reserved \ StaticPages /\ reserved' = reserved \ {p}
           /\ PoolCounted' /\ freePages' \in 0 .. Cardinality(Pages)
<1>1. p \in reserved \ StaticPages /\ reserved' = reserved \ {p} /\ freePages' = freePages + 1
  BY DEF FreePage
<1>2. IsFiniteSet(Pages \ reserved)
  BY PagePoolAssumption, FS_Subset
<1>3. Pages \ reserved' = (Pages \ reserved) \cup {p} /\ p \notin Pages \ reserved
  BY <1>1
<1>4. Cardinality(Pages \ reserved') = Cardinality(Pages \ reserved) + 1
  BY <1>2, <1>3, FS_AddElement
<1>5. PoolCounted'
  BY <1>1, <1>4 DEF PoolCounted
<1>6. freePages' \in 0 .. Cardinality(Pages)
  <2>1. IsFiniteSet(Pages) /\ Pages \ reserved' \subseteq Pages
    BY PagePoolAssumption
  <2>2. /\ Cardinality(Pages \ reserved') <= Cardinality(Pages)
        /\ Cardinality(Pages \ reserved') \in Nat /\ Cardinality(Pages) \in Nat
    BY <2>1, FS_Subset, FS_CardinalityType
  <2>3. QED
    BY <1>5, <2>2 DEF PoolCounted
<1>7. QED
  BY <1>1, <1>5, <1>6

\* The threads that wait on a socket can be counted.
LEMMA ReceiversCounted ==
    ASSUME NEW s
    PROVE  /\ IsFiniteSet(Receivers(s)) /\ Cardinality(Users) \in Nat
           /\ Cardinality(Receivers(s)) \in 0 .. Cardinality(Users)
<1>1. IsFiniteSet(Users) /\ Receivers(s) \subseteq Users
  BY PopAssumption DEF Receivers
<1>2. QED
  BY <1>1, FS_Subset, FS_CardinalityType

\* Nothing is under way for a socket on which nobody waits.
LEMMA NobodyWaits ==
    ASSUME PopCore, NEW s \in Sockets, Receivers(s) = {}
    PROVE  rbuf[s] = NoUser /\ ~Served(s) /\ complete[s] = 0
<1>1. Answers(s) = 0
  BY FS_EmptySet DEF PopCore, CallsAnswered
<1>2. complete[s] \in Nat
  BY ReceiversCounted DEF PopCore, PopTypeOK
<1>3. QED
  BY <1>1, <1>2 DEF Answers

\* Steps that leave the sockets and their users alone.
LEMMA SocketsStay ==
    ASSUME PopCore, UNCHANGED <<port, rbuf, sender, complete, mine>>,
           \A s \in Sockets : Served(s)' <=> Served(s),
           \A v \in Users : Receiving(v)' <=> Receiving(v)
    PROVE  SocketsOwned' /\ CallsAnswered' /\ SoleCaller'
<1>1. SocketsOwned'
  <2>1. \A s \in Sockets : rbuf[s] # NoUser => rbuf[s] \in Users
    BY DEF PopCore, PopTypeOK
  <2>2. QED
    BY <2>1 DEF PopCore, SocketsOwned
<1>2. ASSUME NEW s \in Sockets PROVE Answers(s)' = Cardinality(Receivers(s))'
  <2>1. Receivers(s)' = Receivers(s)
    BY DEF Receivers
  <2>2. Answers(s)' = Answers(s)
    BY DEF Answers
  <2>3. Answers(s) = Cardinality(Receivers(s))
    BY DEF PopCore, CallsAnswered
  <2>4. QED
    BY <2>1, <2>2, <2>3
<1>3. QED
  BY <1>1, <1>2 DEF PopCore, CallsAnswered, SoleCaller

\* Pages that are in use do not concern who holds them beyond PagesOwned: a page fresh
\* from the pool is nobody's.
LEMMA FreshPage ==
    ASSUME PopCore, PopRest, NEW p \in Pages, p \notin reserved
    PROVE  /\ \A t \in Senders : page[t] # p
           /\ \A i \in Slots : Live(i) => queue[i].frame # p
BY NoneIsNone DEF PopCore, PopRest, PagesOwned, PoolCounted

LEMMA PopInit == Init => PopInv
<1> SUFFICES ASSUME Init PROVE PopInv
  OBVIOUS
<1>1. reserved = StaticPages /\ PoolCounted /\ freePages \in 0 .. Cardinality(Pages)
  <2>1. IsFiniteSet(Pages) /\ StaticPages \subseteq Pages /\ reserved = StaticPages
    BY PagePoolAssumption DEF Init, PoolInit
  <2>2. IsFiniteSet(StaticPages) /\ Pages \cap StaticPages = StaticPages
    BY <2>1, FS_Subset
  <2>3. Cardinality(Pages \ StaticPages) = Cardinality(Pages) - Cardinality(StaticPages)
    BY <2>1, <2>2, FS_Difference
  <2>4. PoolCounted
    BY <2>1, <2>3 DEF PoolCounted, Init, PoolInit
  <2>5. QED
    BY <2>1, <2>4, PoolBounds DEF PoolCounted
<1>2. \A i \in Slots : queue[i] = EmptySlot /\ ~Live(i)
  BY DEF Init, Live, EmptySlot
<1>3. PopTypeOK /\ Fields
  <2>1. 0 \in 0 .. MaxSignals /\ 0 \in 0 .. Cardinality(Users)
    BY PopAssumption, ReceiversCounted
  <2>2. PopTypeOK
    BY <1>1, <2>1, NoneIsNone, PagePoolAssumption DEF Init, PopTypeOK, EmptySlot, Senders
  <2>3. Fields
    BY NoneIsNone DEF Init, Fields, Idle, UserPlaces, InterfacePlaces, ServicePlaces,
                      Resting, Senders
  <2>4. QED
    BY <2>2, <2>3
<1>4. PagesAtHand /\ PagesOwned /\ PacketsKnown
  BY <1>1, <1>2 DEF Init, PagesAtHand, PagesOwned, PacketsKnown
<1>5. ServiceKnows
  BY <1>2 DEF Init, ServiceKnows, Idle, Resting, Transferring, EmptySlot
<1>6. SocketsOwned /\ SoleCaller
  BY NoneIsNone DEF Init, SocketsOwned, SoleCaller, Receiving, Senders
<1>7. CallsAnswered
  <2> SUFFICES ASSUME NEW s \in Sockets PROVE Answers(s) = Cardinality(Receivers(s))
    BY DEF CallsAnswered
  <2>1. Answers(s) = 0
    BY DEF Init, Answers, Served, Idle
  <2>2. Receivers(s) = {}
    BY NoneIsNone DEF Init, Receivers
  <2>3. QED
    BY <2>1, <2>2, FS_EmptySet
<1>8. MailBound /\ MailSeen /\ DiscardKnows
  BY <1>2 DEF Init, MailBound, MailSeen, DiscardKnows, ServiceWillScan, Idle
<1>9. QED
  BY <1>1, <1>3, <1>4, <1>5, <1>6, <1>7, <1>8 DEF PopInv, PopCore, PopRest

-----------------------------------------------------------------------------
\* socket_open: the socket was closed, so nothing is left in it.
LEMMA PopOpen ==
    ASSUME PopInv, NEW u \in Users, NEW n \in Ports, Open(u, n)
    PROVE  PopInv'
<1> USE DEF PopInv, PopCore
<1>1. PICK s \in Sockets :
          /\ port[s] = ClosedPort
          /\ port' = [port EXCEPT ![s] = n]
          /\ rbuf' = [rbuf EXCEPT ![s] = NoUser]
          /\ sender' = [sender EXCEPT ![s] = NoUser]
          /\ complete' = [complete EXCEPT ![s] = 0]
          /\ mine' = [mine EXCEPT ![u] = s]
          /\ stale' = stale \cup {i \in Slots : queue[i].frame # NoPage /\ queue[i].socket = s}
  BY DEF Open
<1>2. /\ at[u] = "user" /\ mine[u] = NoSocket /\ \A r \in Sockets : port[r] # n
      /\ UNCHANGED <<reserved, freePages, queue, serviceSem, sendBuf, service, packet, at, page,
                     overtaken>>
  BY DEF Open, PortInUse, poolVars
<1>3. /\ \A r \in Sockets : /\ port'[r] = IF r = s THEN n ELSE port[r]
                            /\ rbuf'[r] = IF r = s THEN NoUser ELSE rbuf[r]
                            /\ sender'[r] = IF r = s THEN NoUser ELSE sender[r]
                            /\ complete'[r] = IF r = s THEN 0 ELSE complete[r]
      /\ \A v \in Users : mine'[v] = IF v = u THEN s ELSE mine[v]
      /\ n # ClosedPort /\ s # NoSocket
      /\ \A v \in Users : mine[v] # s
      /\ rbuf[s] = NoUser /\ complete[s] = 0
  <2>1. \A v \in Users : mine[v] # s
    BY <1>1, NoneIsNone DEF PopTypeOK
  <2>2. QED
    BY <1>1, <2>1, NoneIsNone DEF PopTypeOK, Fields, SocketsOwned
<1>4. /\ \A r \in Sockets : Served(r)' <=> Served(r)
      /\ \A v \in Users : Receiving(v)' <=> Receiving(v)
      /\ ~Served(s) /\ ~Receiving(u)
  <2>1. ~Served(s)
    BY <1>1 DEF Served, ServiceKnows, Transferring
  <2>2. QED
    BY <1>2, <2>1 DEF Served, Receiving
<1>5. PopTypeOK' /\ Fields'
  <2>1. 0 \in 0 .. Cardinality(Users)
    BY ReceiversCounted
  <2>2. PopTypeOK'
    BY <1>1, <1>2, <1>3, <2>1 DEF PopTypeOK
  <2>3. Fields'
    BY <1>1, <1>2 DEF Fields
  <2>4. QED
    BY <2>2, <2>3
<1>6. PagesAtHand' /\ PoolCounted'
  BY <1>2 DEF PagesAtHand, PoolCounted
<1>7. ServiceKnows'
  BY <1>1, <1>2, <1>3 DEF ServiceKnows
<1>8. SocketsOwned'
  <2>1. \A r \in Sockets : rbuf[r] # NoUser => rbuf[r] \in Users /\ rbuf[r] # u
    BY <1>2, NoneIsNone DEF PopTypeOK, SocketsOwned
  <2>2. /\ \A v \in Users : Receiving(v)' => mine'[v] # NoSocket
        /\ \A r, q \in Sockets : port'[r] = port'[q] /\ port'[r] # ClosedPort => r = q
        /\ \A r \in Sockets : port'[r] = ClosedPort => rbuf'[r] = NoUser /\ complete'[r] = 0
    BY <1>2, <1>3, <1>4 DEF SocketsOwned
  <2>3. \A r \in Sockets : rbuf'[r] # NoUser => mine'[rbuf'[r]] = r
    BY <1>3, <2>1 DEF SocketsOwned
  <2>4. QED
    BY <2>2, <2>3 DEF SocketsOwned
<1>9. CallsAnswered'
  <2> SUFFICES ASSUME NEW r \in Sockets PROVE Answers(r)' = Cardinality(Receivers(r))'
    BY DEF CallsAnswered
  <2>1. Receivers(r)' = Receivers(r)
    BY <1>3, <1>4 DEF Receivers
  <2>2. Answers(r)' = Answers(r)
    BY <1>3, <1>4 DEF Answers
  <2>3. QED
    BY <2>1, <2>2 DEF CallsAnswered
<1>10. SoleCaller'
  <2> SUFFICES ASSUME NEW v \in Users, mine'[v] # NoSocket,
                      \A w \in Users \ {v} : mine'[w] # mine'[v], rbuf'[mine'[v]] = v
               PROVE  sender'[mine'[v]] = v
    BY DEF SoleCaller
  <2>1. mine'[v] \in Sockets /\ mine'[v] # s
    BY <1>1, <1>3, <1>5, NoneIsNone DEF Fields
  <2>2. /\ v # u /\ mine'[v] = mine[v] /\ rbuf[mine[v]] = v
        /\ sender'[mine'[v]] = sender[mine[v]]
    BY <1>3, <2>1
  <2>3. \A w \in Users \ {v} : mine[w] # mine[v]
    BY <1>2, <1>3, <2>2
  <2>4. QED
    BY <2>2, <2>3 DEF SoleCaller
<1>11. ASSUME ~overtaken PROVE PopRest'
  <2> USE <1>11 DEF PopRest
  <2>1. \A i \in Slots : (Live(i)' <=> Live(i)) /\ queue'[i] = queue[i]
    BY <1>2 DEF Live, Spent
  <2>2. PagesOwned' /\ PacketsKnown' /\ DiscardKnows'
    BY <1>2, <2>1 DEF PagesOwned, PacketsKnown, DiscardKnows
  <2>3. MailBound'
    <3>1. \A i \in Slots : Live(i) => queue[i].frame # NoPage
      BY DEF Live
    <3>2. \A i \in Slots : queue[i].socket \in Sockets \cup {NoSocket}
      BY DEF PopTypeOK
    <3>3. QED
      BY <1>1, <1>2, <1>3, <2>1, <3>1, <3>2 DEF MailBound
  <2>4. MailSeen'
    <3>1. ServiceWillScan' <=> ServiceWillScan
      BY <1>2 DEF ServiceWillScan
    <3>2. ASSUME NEW i \in Slots, NEW r \in Sockets, r # s, Fits(i, r)' PROVE Fits(i, r)
      BY <1>2, <1>3, <3>2 DEF Fits
    <3>3. QED
      BY <1>2, <1>3, <3>1, <3>2 DEF MailSeen
  <2>5. QED
    BY <2>2, <2>3, <2>4
<1>12. QED
  BY <1>2, <1>5, <1>6, <1>7, <1>8, <1>9, <1>10, <1>11

\* A second thread uses a socket, which has no call of its yet.
LEMMA PopShare ==
    ASSUME PopInv, NEW u \in Users, NEW v \in Users, Share(u, v)
    PROVE  PopInv'
<1> USE DEF PopInv, PopCore
<1>1. /\ at[u] = "user" /\ mine[u] = NoSocket /\ mine[v] # NoSocket
      /\ mine' = [mine EXCEPT ![u] = mine[v]]
      /\ UNCHANGED <<reserved, freePages, port, rbuf, sender, complete, queue, serviceSem, sendBuf,
                     service, packet, at, page, stale, overtaken>>
  BY DEF Share, poolVars, socketVars, traces
<1>2. /\ \A w \in Users : mine'[w] = IF w = u THEN mine[v] ELSE mine[w]
      /\ \A w \in Users : Receiving(w)' <=> Receiving(w)
      /\ ~Receiving(u)
  BY <1>1 DEF Fields, Receiving
<1>3. PopTypeOK' /\ Fields' /\ PagesAtHand' /\ PoolCounted' /\ ServiceKnows'
  <2>1. PopTypeOK'
    BY <1>1, <1>2 DEF PopTypeOK
  <2>2. Fields'
    BY <1>1 DEF Fields
  <2>3. PagesAtHand' /\ PoolCounted' /\ ServiceKnows'
    BY <1>1 DEF PagesAtHand, PoolCounted, ServiceKnows
  <2>4. QED
    BY <2>1, <2>2, <2>3
<1>4. SocketsOwned'
  <2>1. \A r \in Sockets : rbuf[r] # NoUser => rbuf[r] \in Users /\ rbuf[r] # u
    BY <1>1, NoneIsNone DEF PopTypeOK, SocketsOwned
  <2>2. QED
    BY <1>1, <1>2, <2>1 DEF SocketsOwned
<1>5. CallsAnswered'
  <2> SUFFICES ASSUME NEW r \in Sockets PROVE Answers(r)' = Cardinality(Receivers(r))'
    BY DEF CallsAnswered
  <2>1. Receivers(r)' = Receivers(r)
    BY <1>2 DEF Receivers
  <2>2. Answers(r)' = Answers(r)
    BY <1>1 DEF Answers, Served
  <2>3. QED
    BY <2>1, <2>2 DEF CallsAnswered
<1>6. SoleCaller'
  BY <1>1, <1>2 DEF SoleCaller
<1>7. ASSUME ~overtaken PROVE PopRest'
  <2> USE <1>7 DEF PopRest
  <2>1. \A i \in Slots : Live(i)' <=> Live(i)
    BY <1>1 DEF Live, Spent
  <2>2. QED
    BY <1>1, <2>1
    DEF PagesOwned, PacketsKnown, DiscardKnows, MailBound, MailSeen, Fits, ServiceWillScan
<1>8. QED
  BY <1>1, <1>3, <1>4, <1>5, <1>6, <1>7

\* socket_close: outside a call, so nothing is under way for the socket.
LEMMA PopClose ==
    ASSUME PopInv, NEW u \in Users, Close(u)
    PROVE  PopInv'
<1> USE DEF PopInv, PopCore
<1> DEFINE s == mine[u]
<1>1. /\ s # NoSocket /\ \A v \in Users : mine[v] = s => at[v] = "user"
      /\ port' = [port EXCEPT ![s] = ClosedPort]
      /\ rbuf' = [rbuf EXCEPT ![s] = NoUser]
      /\ sender' = [sender EXCEPT ![s] = NoUser]
      /\ complete' = [complete EXCEPT ![s] = 0]
      /\ mine' = [v \in Users |-> IF mine[v] = s THEN NoSocket ELSE mine[v]]
      /\ UNCHANGED <<reserved, freePages, queue, serviceSem, sendBuf, service, packet, at,
                     page, stale, overtaken>>
  BY DEF Close, poolVars, traces
<1>2. s \in Sockets
  BY <1>1 DEF Fields
<1> HIDE DEF s
<1>3. /\ \A r \in Sockets : /\ port'[r] = IF r = s THEN ClosedPort ELSE port[r]
                            /\ rbuf'[r] = IF r = s THEN NoUser ELSE rbuf[r]
                            /\ sender'[r] = IF r = s THEN NoUser ELSE sender[r]
                            /\ complete'[r] = IF r = s THEN 0 ELSE complete[r]
      /\ \A v \in Users : mine'[v] = IF mine[v] = s THEN NoSocket ELSE mine[v]
  BY <1>1, <1>2 DEF PopTypeOK, Fields
<1>4. rbuf[s] = NoUser /\ ~Served(s) /\ complete[s] = 0
  <2>1. Receivers(s) = {}
    BY <1>1 DEF Receivers, Receiving
  <2>2. QED
    BY <1>2, <2>1, NobodyWaits
<1>5. /\ \A r \in Sockets : Served(r)' <=> Served(r)
      /\ \A v \in Users : Receiving(v)' <=> Receiving(v)
      /\ \A v \in Users : mine[v] = s => ~Receiving(v)
  BY <1>1 DEF Served, Receiving
<1>6. PopTypeOK' /\ Fields'
  <2>1. 0 \in 0 .. Cardinality(Users)
    BY ReceiversCounted
  <2>2. \A v \in Users : mine'[v] # NoSocket => port'[mine'[v]] \in Ports
    BY <1>3 DEF PopTypeOK, Fields
  <2>3. PopTypeOK'
    BY <1>1, <2>1, <2>2 DEF PopTypeOK
  <2>4. Fields'
    BY <1>1 DEF Fields
  <2>5. QED
    BY <2>3, <2>4
<1>7. PagesAtHand' /\ PoolCounted'
  BY <1>1 DEF PagesAtHand, PoolCounted
<1>8. ServiceKnows'
  <2>1. service.at \in Transferring => queue[service.slot].socket # s
    BY <1>4 DEF Served, ServiceKnows, Transferring
  <2>2. QED
    BY <1>1, <1>3, <2>1 DEF ServiceKnows, Transferring
<1>9. SocketsOwned'
  <2>1. \A r \in Sockets : rbuf[r] # NoUser => rbuf[r] \in Users
    BY DEF PopTypeOK
  <2>2. QED
    BY <1>2, <1>3, <1>5, <2>1 DEF SocketsOwned
<1>10. CallsAnswered'
  <2> SUFFICES ASSUME NEW r \in Sockets PROVE Answers(r)' = Cardinality(Receivers(r))'
    BY DEF CallsAnswered
  <2>1. Receivers(r)' = Receivers(r)
    BY <1>2, <1>3, <1>5, NoneIsNone DEF Receivers
  <2>2. Answers(r)' = Answers(r)
    BY <1>3, <1>4, <1>5 DEF Answers
  <2>3. QED
    BY <2>1, <2>2 DEF CallsAnswered
<1>11. SoleCaller'
  <2> SUFFICES ASSUME NEW v \in Users, mine'[v] # NoSocket,
                      \A w \in Users \ {v} : mine'[w] # mine'[v], rbuf'[mine'[v]] = v
               PROVE  sender'[mine'[v]] = v
    BY DEF SoleCaller
  <2>1. mine[v] # s /\ mine'[v] = mine[v] /\ mine[v] \in Sockets
    BY <1>3 DEF Fields
  <2>2. \A w \in Users \ {v} : mine[w] # mine[v]
    BY <1>3, <2>1
  <2>3. QED
    BY <1>3, <2>1, <2>2 DEF SoleCaller
<1>12. ASSUME ~overtaken PROVE PopRest'
  <2> USE <1>12 DEF PopRest
  <2>1. \A i \in Slots : (Live(i)' <=> Live(i)) /\ queue'[i] = queue[i]
    BY <1>1 DEF Live, Spent
  <2>2. PagesOwned' /\ PacketsKnown' /\ DiscardKnows'
    BY <1>1, <2>1 DEF PagesOwned, PacketsKnown, DiscardKnows
  <2>3. MailBound'
    <3>1. \A i \in Slots : queue[i].socket \in Sockets \cup {NoSocket}
      BY DEF PopTypeOK
    <3>2. QED
      BY <1>1, <1>3, <2>1, <3>1 DEF MailBound
  <2>4. MailSeen'
    <3>1. ServiceWillScan' <=> ServiceWillScan
      BY <1>1 DEF ServiceWillScan
    <3>2. ASSUME NEW i \in Slots, NEW r \in Sockets, r # s, Fits(i, r)' PROVE Fits(i, r)
      BY <1>1, <1>3, <3>2 DEF Fits
    <3>3. QED
      BY <1>1, <1>3, <3>1, <3>2 DEF MailSeen
  <2>5. QED
    BY <2>2, <2>3, <2>4
<1>13. QED
  BY <1>1, <1>6, <1>7, <1>8, <1>9, <1>10, <1>11, <1>12

\* socket_recvfrom announces its buffer: the service thread is at work or will be
\* signalled before the caller waits.
LEMMA PopReceive ==
    ASSUME PopInv, NEW u \in Users, Receive(u)
    PROVE  PopInv'
<1> USE DEF PopInv, PopCore
<1> DEFINE s == mine[u]
<1>1. /\ at[u] = "user" /\ s # NoSocket /\ rbuf[s] = NoUser
      /\ rbuf' = [rbuf EXCEPT ![s] = u]
      /\ sender' = [sender EXCEPT ![s] = u]
      /\ at' = [at EXCEPT ![u] = "announced"]
      /\ UNCHANGED <<reserved, freePages, port, complete, queue, serviceSem, sendBuf,
                     service, packet, page, mine, stale, overtaken>>
  BY DEF Receive, MoveTo, poolVars, traces
<1>2. s \in Sockets /\ s = mine[u]
  BY <1>1 DEF Fields
<1> HIDE DEF s
<1>3. /\ \A r \in Sockets : /\ rbuf'[r] = IF r = s THEN u ELSE rbuf[r]
                            /\ sender'[r] = IF r = s THEN u ELSE sender[r]
      /\ \A t \in Senders : at'[t] = IF t = u THEN "announced" ELSE at[t]
      /\ u # NoUser /\ u \in Senders /\ u # Interface
  BY <1>1, <1>2, NoneIsNone DEF PopTypeOK, Fields
<1>4. /\ \A r \in Sockets : Served(r)' <=> Served(r)
      /\ \A v \in Users : Receiving(v)' <=> Receiving(v) \/ v = u
      /\ ~Receiving(u) /\ port[s] # ClosedPort
  <2>1. port[s] # ClosedPort
    BY <1>1, <1>2, NoneIsNone DEF PopTypeOK
  <2>2. QED
    BY <1>1, <1>3, <2>1, NoneIsNone DEF Served, Receiving
<1>5. PopTypeOK' /\ Fields'
  <2>1. PopTypeOK'
    BY <1>1, <1>2 DEF PopTypeOK
  <2>2. Fields'
    BY <1>1, <1>3, NoneIsNone DEF Fields, UserPlaces
  <2>3. QED
    BY <2>1, <2>2
<1>6. PagesAtHand' /\ PoolCounted'
  BY <1>1, <1>3 DEF PagesAtHand, PoolCounted
<1>7. ServiceKnows'
  BY <1>1, <1>3 DEF ServiceKnows, Transferring
<1>8. SocketsOwned'
  <2>1. \A r \in Sockets : rbuf[r] # NoUser => rbuf[r] \in Users
    BY DEF PopTypeOK
  <2>2. QED
    BY <1>1, <1>2, <1>3, <1>4, <2>1 DEF SocketsOwned
<1>9. CallsAnswered'
  <2> SUFFICES ASSUME NEW r \in Sockets PROVE Answers(r)' = Cardinality(Receivers(r))'
    BY DEF CallsAnswered
  <2>1. complete[r] \in Nat /\ Answers(r) = Cardinality(Receivers(r))
    BY ReceiversCounted DEF PopTypeOK, CallsAnswered
  <2>2. CASE r # s
    <3>1. Receivers(r)' = Receivers(r)
      BY <1>1, <1>2, <1>4, <2>2 DEF Receivers
    <3>2. Answers(r)' = Answers(r)
      BY <1>1, <1>3, <1>4, <2>2 DEF Answers
    <3>3. QED
      BY <2>1, <3>1, <3>2
  <2>3. CASE r = s
    <3>1. Receivers(r)' = Receivers(r) \cup {u} /\ u \notin Receivers(r)
      BY <1>1, <1>2, <1>4, <2>3 DEF Receivers
    <3>2. Answers(r)' = Answers(r) + 1
      <4>1. rbuf[r] = NoUser /\ rbuf'[r] # NoUser /\ complete'[r] = complete[r]
        BY <1>1, <1>3, <2>3
      <4>2. Served(r)' <=> Served(r)
        BY <1>4
      <4>3. QED
        BY <2>1, <4>1, <4>2 DEF Answers
    <3>3. Cardinality(Receivers(r)') = Cardinality(Receivers(r)) + 1
      BY <3>1, FS_AddElement, ReceiversCounted
    <3>4. QED
      BY <2>1, <3>2, <3>3
  <2>4. QED
    BY <2>2, <2>3
<1>10. SoleCaller'
  <2> SUFFICES ASSUME NEW v \in Users, mine[v] # NoSocket,
                      \A w \in Users \ {v} : mine[w] # mine[v], rbuf'[mine[v]] = v
               PROVE  sender'[mine[v]] = v
    BY <1>1 DEF SoleCaller
  <2>1. mine[v] \in Sockets
    BY DEF Fields
  <2>2. QED
    BY <1>3, <2>1 DEF SoleCaller
<1>11. ASSUME ~overtaken PROVE PopRest'
  <2> USE <1>11 DEF PopRest
  <2>1. \A i \in Slots : Live(i)' <=> Live(i)
    BY <1>1 DEF Live, Spent
  <2>2. PagesOwned' /\ PacketsKnown' /\ DiscardKnows' /\ MailBound'
    BY <1>1, <1>3, <2>1 DEF PagesOwned, PacketsKnown, DiscardKnows, MailBound
  <2>3. MailSeen'
    BY <1>3 DEF MailSeen, ServiceWillScan
  <2>4. QED
    BY <2>2, <2>3
<1>12. QED
  BY <1>1, <1>5, <1>6, <1>7, <1>8, <1>9, <1>10, <1>11

\* ... signals the service thread...
LEMMA PopReceiveSignal ==
    ASSUME PopInv, NEW u \in Users, ReceiveSignal(u)
    PROVE  PopInv'
<1> USE DEF PopInv, PopCore
<1>1. /\ at[u] = "announced" /\ serviceSem < MaxSignals
      /\ serviceSem' = serviceSem + 1
      /\ at' = [at EXCEPT ![u] = "receiving"]
      /\ UNCHANGED <<reserved, freePages, port, rbuf, sender, complete, queue, sendBuf, service,
                     packet, page, mine, stale, overtaken>>
  BY DEF ReceiveSignal, SignalFor, MoveTo, poolVars, socketVars, traces
<1>2. /\ \A t \in Senders : at'[t] = IF t = u THEN "receiving" ELSE at[t]
      /\ u \in Senders /\ u # Interface
      /\ serviceSem' \in 0 .. MaxSignals /\ serviceSem' > 0
  BY <1>1, NoneIsNone, PopAssumption DEF PopTypeOK, Fields
<1>3. /\ \A r \in Sockets : Served(r)' <=> Served(r)
      /\ \A v \in Users : Receiving(v)' <=> Receiving(v)
  BY <1>1, <1>2, NoneIsNone DEF Served, Receiving
<1>4. PopTypeOK' /\ Fields'
  <2>1. PopTypeOK'
    BY <1>1, <1>2 DEF PopTypeOK
  <2>2. Fields'
    BY <1>1, <1>2, NoneIsNone DEF Fields, UserPlaces
  <2>3. QED
    BY <2>1, <2>2
<1>5. PagesAtHand' /\ PoolCounted' /\ ServiceKnows'
  BY <1>1, <1>2 DEF PagesAtHand, PoolCounted, ServiceKnows
<1>6. SocketsOwned' /\ CallsAnswered' /\ SoleCaller'
  BY <1>1, <1>3, SocketsStay
<1>7. ASSUME ~overtaken PROVE PopRest'
  <2> USE <1>7 DEF PopRest
  <2>1. \A i \in Slots : Live(i)' <=> Live(i)
    BY <1>1 DEF Live, Spent
  <2>2. PagesOwned' /\ PacketsKnown' /\ DiscardKnows' /\ MailBound'
    BY <1>1, <1>2, <2>1 DEF PagesOwned, PacketsKnown, DiscardKnows, MailBound
  <2>3. MailSeen'
    BY <1>2 DEF MailSeen, ServiceWillScan
  <2>4. QED
    BY <2>2, <2>3
<1>8. QED
  BY <1>1, <1>4, <1>5, <1>6, <1>7

\* ... and returns when one of the answers is there.
LEMMA PopReceiveDone ==
    ASSUME PopInv, NEW u \in Users, ReceiveDone(u)
    PROVE  PopInv'
<1> USE DEF PopInv, PopCore
<1> DEFINE s == mine[u]
<1>1. /\ at[u] = "receiving" /\ complete[s] > 0
      /\ complete' = [complete EXCEPT ![s] = @ - 1]
      /\ at' = [at EXCEPT ![u] = "user"]
      /\ UNCHANGED <<reserved, freePages, port, rbuf, sender, queue, serviceSem, sendBuf, service,
                     packet, page, mine, stale, overtaken>>
  BY DEF ReceiveDone, MoveTo, poolVars, traces
<1>2. Receiving(u) /\ s # NoSocket /\ s \in Sockets /\ s = mine[u]
  BY <1>1 DEF Receiving, Fields, SocketsOwned
<1> HIDE DEF s
<1>3. /\ complete[s] \in 1 .. Cardinality(Users) /\ Cardinality(Users) \in Nat
      /\ \A r \in Sockets : complete'[r] = IF r = s THEN complete[s] - 1 ELSE complete[r]
      /\ \A t \in Senders : at'[t] = IF t = u THEN "user" ELSE at[t]
      /\ u \in Senders /\ u # Interface
  <2>1. Cardinality(Users) \in Nat
    BY ReceiversCounted
  <2>2. complete[s] \in 0 .. Cardinality(Users)
    BY <1>2 DEF PopTypeOK
  <2>3. complete[s] \in 1 .. Cardinality(Users)
    BY <1>1, <2>1, <2>2
  <2>4. QED
    BY <1>1, <1>2, <2>1, <2>3, NoneIsNone DEF PopTypeOK, Fields
<1>4. /\ \A r \in Sockets : Served(r)' <=> Served(r)
      /\ \A v \in Users : Receiving(v)' <=> Receiving(v) /\ v # u
  BY <1>1, <1>3, NoneIsNone DEF Served, Receiving
<1>5. PopTypeOK' /\ Fields'
  <2>1. complete[s] - 1 \in 0 .. Cardinality(Users)
    BY <1>3
  <2>2. complete' \in [Sockets -> 0 .. Cardinality(Users)]
    BY <1>1, <2>1 DEF PopTypeOK
  <2>3. PopTypeOK'
    BY <1>1, <2>2 DEF PopTypeOK
  <2>4. Fields'
    BY <1>1, <1>3, NoneIsNone DEF Fields, UserPlaces
  <2>5. QED
    BY <2>3, <2>4
<1>6. PagesAtHand' /\ PoolCounted'
  BY <1>1, <1>3 DEF PagesAtHand, PoolCounted
<1>7. ServiceKnows'
  BY <1>1 DEF ServiceKnows
<1>8. CallsAnswered'
  <2> SUFFICES ASSUME NEW r \in Sockets PROVE Answers(r)' = Cardinality(Receivers(r))'
    BY DEF CallsAnswered
  <2>1. complete[r] \in Nat /\ Answers(r) = Cardinality(Receivers(r))
    BY ReceiversCounted DEF PopTypeOK, CallsAnswered
  <2>2. CASE r = s
    <3>1. Receivers(r)' = Receivers(r) \ {u} /\ u \in Receivers(r)
      BY <1>1, <1>2, <1>4, <2>2 DEF Receivers
    <3>2. Cardinality(Receivers(r)') = Cardinality(Receivers(r)) - 1
      BY <3>1, FS_RemoveElement, ReceiversCounted
    <3>3. Answers(r)' = Answers(r) - 1
      <4>1. rbuf'[r] = rbuf[r] /\ complete'[r] = complete[r] - 1
        BY <1>1, <1>3, <2>2
      <4>2. Served(r)' <=> Served(r)
        BY <1>4
      <4>3. QED
        BY <2>1, <4>1, <4>2 DEF Answers
    <3>4. QED
      BY <2>1, <3>2, <3>3
  <2>3. CASE r # s
    <3>1. Receivers(r)' = Receivers(r)
      BY <1>1, <1>2, <1>4, <2>3 DEF Receivers
    <3>2. Answers(r)' = Answers(r)
      BY <1>1, <1>3, <1>4, <2>3 DEF Answers
    <3>3. QED
      BY <2>1, <3>1, <3>2
  <2>4. QED
    BY <2>2, <2>3
<1>9. SocketsOwned'
  <2>1. \A r \in Sockets : complete[r] = 0 => r # s
    BY <1>3
  <2>2. QED
    BY <1>1, <1>3, <1>4, <2>1 DEF SocketsOwned
<1>10. SoleCaller'
  BY <1>1 DEF SoleCaller
<1>11. ASSUME ~overtaken PROVE PopRest'
  <2> USE <1>11 DEF PopRest
  <2>1. \A i \in Slots : Live(i)' <=> Live(i)
    BY <1>1 DEF Live, Spent
  <2>2. PagesOwned' /\ PacketsKnown' /\ DiscardKnows' /\ MailBound'
    BY <1>1, <1>3, <2>1 DEF PagesOwned, PacketsKnown, DiscardKnows, MailBound
  <2>3. MailSeen'
    <3>1. ServiceWillScan => ServiceWillScan'
      BY <1>1, <1>3 DEF ServiceWillScan
    <3>2. QED
      BY <1>1, <3>1 DEF MailSeen, Fits
  <2>4. QED
    BY <2>2, <2>3
<1>12. QED
  BY <1>1, <1>5, <1>6, <1>7, <1>8, <1>9, <1>10, <1>11


\* socket_sendto, up to the frame that is to be sent.
LEMMA PopSend ==
    ASSUME PopInv, NEW u \in Users, NEW n \in Ports, Send(u, n)
    PROVE  PopInv'
<1> USE DEF PopInv, PopCore
<1>1. PICK p \in Pages : /\ GetPage(p)
                         /\ page' = [page EXCEPT ![u] = p]
                         /\ packet' = [packet EXCEPT ![p] = n]
  BY DEF Send
<1>2. /\ at[u] = "user" /\ sendBuf' = u
      /\ at' = [at EXCEPT ![u] = "send"]
      /\ UNCHANGED <<port, rbuf, sender, complete, queue, serviceSem, service, mine, stale,
                     overtaken>>
  BY DEF Send, MoveTo, socketVars, traces
<1>3. /\ p \notin reserved /\ reserved' = reserved \cup {p}
      /\ PoolCounted' /\ freePages' \in 0 .. Cardinality(Pages)
      /\ p # NoPage /\ p \notin StaticPages
  BY <1>1, PoolGet, NoneIsNone
<1>4. /\ \A t \in Senders : /\ page'[t] = IF t = u THEN p ELSE page[t]
                            /\ at'[t] = IF t = u THEN "send" ELSE at[t]
      /\ \A q \in Pages : packet'[q] = IF q = p THEN n ELSE packet[q]
      /\ u \in Senders /\ u # Interface
      /\ page[u] = NoPage
  BY <1>1, <1>2, NoneIsNone DEF PopTypeOK, Fields, PagesAtHand
<1>5. /\ \A i \in Slots : Live(i)' <=> Live(i)
      /\ \A r \in Sockets : Served(r)' <=> Served(r)
      /\ \A v \in Users : Receiving(v)' <=> Receiving(v)
  BY <1>2, <1>4, NoneIsNone DEF Live, Spent, Served, Receiving
<1>6. PopTypeOK' /\ Fields'
  <2>1. PopTypeOK'
    BY <1>1, <1>2, <1>3 DEF PopTypeOK
  <2>2. Fields'
    BY <1>1, <1>2, <1>4, NoneIsNone DEF Fields, UserPlaces
  <2>3. QED
    BY <2>1, <2>2
<1>7. PagesAtHand' /\ ServiceKnows'
  BY <1>2, <1>3, <1>4 DEF PagesAtHand, ServiceKnows
<1>8. SocketsOwned' /\ CallsAnswered' /\ SoleCaller'
  BY <1>2, <1>5, SocketsStay
<1>9. ASSUME ~overtaken PROVE PopRest'
  <2> USE <1>9 DEF PopRest
  <2>1. /\ \A t \in Senders : page[t] # p /\ page[t] \in Pages
        /\ \A i \in Slots : queue[i].frame \in Pages /\ (Live(i) => queue[i].frame # p)
    BY <1>3, FreshPage, NoneIsNone DEF PopTypeOK
  <2>2. PagesOwned'
    BY <1>2, <1>3, <1>4, <1>5, <2>1, NoneIsNone DEF PagesOwned
  <2>3. PacketsKnown' /\ DiscardKnows' /\ MailBound'
    BY <1>2, <1>4, <1>5, <2>1 DEF PacketsKnown, DiscardKnows, MailBound
  <2>4. MailSeen'
    <3>1. ServiceWillScan => ServiceWillScan'
      BY <1>2, <1>4 DEF ServiceWillScan
    <3>2. CASE ~ServiceWillScan
      <4>1. \A i \in Slots : queue[i].frame # NoPage => queue[i].frame # p
        BY <2>1, <3>2 DEF ServiceWillScan, Live, Spent
      <4>2. QED
        BY <1>2, <1>4, <2>1, <3>2, <4>1 DEF MailSeen, Fits
    <3>3. QED
      BY <3>1, <3>2 DEF MailSeen
  <2>5. QED
    BY <2>2, <2>3, <2>4
<1>10. QED
  BY <1>2, <1>3, <1>6, <1>7, <1>8, <1>9

\* network_receive_thread takes a page.
LEMMA PopReceivePage == PopInv /\ ReceivePage => PopInv'
<1> SUFFICES ASSUME PopInv, ReceivePage PROVE PopInv'
  OBVIOUS
<1> USE DEF PopInv, PopCore
<1>1. PICK p \in Pages : GetPage(p) /\ page' = [page EXCEPT ![Interface] = p]
  BY DEF ReceivePage
<1>2. /\ at[Interface] = "get"
      /\ at' = [at EXCEPT ![Interface] = "recv"]
      /\ UNCHANGED <<port, rbuf, sender, complete, queue, serviceSem, sendBuf, service, packet,
                     mine, stale, overtaken>>
  BY DEF ReceivePage, MoveTo, socketVars, traces
<1>3. /\ p \notin reserved /\ reserved' = reserved \cup {p}
      /\ PoolCounted' /\ freePages' \in 0 .. Cardinality(Pages)
      /\ p # NoPage /\ p \notin StaticPages
  BY <1>1, PoolGet, NoneIsNone
<1>4. /\ \A t \in Senders : /\ page'[t] = IF t = Interface THEN p ELSE page[t]
                            /\ at'[t] = IF t = Interface THEN "recv" ELSE at[t]
      /\ Interface \in Senders /\ page[Interface] = NoPage
  BY <1>1, <1>2, NoneIsNone DEF PopTypeOK, Fields, PagesAtHand
<1>5. /\ \A i \in Slots : Live(i)' <=> Live(i)
      /\ \A r \in Sockets : Served(r)' <=> Served(r)
      /\ \A v \in Users : Receiving(v)' <=> Receiving(v)
  BY <1>2, <1>4, NoneIsNone DEF Live, Spent, Served, Receiving
<1>6. PopTypeOK' /\ Fields'
  <2>1. PopTypeOK'
    BY <1>1, <1>2, <1>3 DEF PopTypeOK
  <2>2. Fields'
    BY <1>2, <1>4, NoneIsNone DEF Fields, InterfacePlaces
  <2>3. QED
    BY <2>1, <2>2
<1>7. PagesAtHand' /\ ServiceKnows'
  BY <1>2, <1>3, <1>4 DEF PagesAtHand, ServiceKnows
<1>8. SocketsOwned' /\ CallsAnswered' /\ SoleCaller'
  BY <1>2, <1>5, SocketsStay
<1>9. ASSUME ~overtaken PROVE PopRest'
  <2> USE <1>9 DEF PopRest
  <2>1. /\ \A t \in Senders : page[t] # p
        /\ \A i \in Slots : Live(i) => queue[i].frame # p
    BY <1>3, FreshPage
  <2>2. PagesOwned'
    BY <1>2, <1>3, <1>4, <1>5, <2>1, NoneIsNone DEF PagesOwned
  <2>3. PacketsKnown' /\ DiscardKnows' /\ MailBound'
    BY <1>2, <1>4, <1>5 DEF PacketsKnown, DiscardKnows, MailBound
  <2>4. MailSeen'
    <3>1. ServiceWillScan => ServiceWillScan'
      BY <1>2, <1>4 DEF ServiceWillScan
    <3>2. QED
      BY <1>2, <3>1 DEF MailSeen, Fits
  <2>5. QED
    BY <2>2, <2>3, <2>4
<1>10. QED
  BY <1>2, <1>3, <1>6, <1>7, <1>8, <1>9

\* A page that a sender has is in use, and in no live slot.
LEMMA PageAtHand ==
    ASSUME PopCore, NEW t \in Senders, at[t] \in {"send", "recv"}
    PROVE  /\ page[t] # NoPage /\ page[t] \in Pages \ StaticPages
           /\ \A s \in Senders : page[s] \in Pages
           /\ \A i \in Slots : queue[i].frame \in Pages
           /\ PopRest => /\ page[t] \in reserved
                         /\ \A s \in Senders : page[s] = page[t] => s = t
                         /\ \A i \in Slots : Live(i) => queue[i].frame # page[t]
BY NoneIsNone DEF PopCore, PopRest, PopTypeOK, PagesAtHand, PagesOwned

\* Steps that change nothing but the packet in the page of sender t, and where t is.
LEMMA MailStays ==
    ASSUME PopCore, PopRest, NEW t \in Senders, at[t] \in {"send", "recv"},
           \A q \in Pages : q # page[t] => packet'[q] = packet[q],
           \A s \in Senders : s # t => at'[s] = at[s],
           UNCHANGED <<port, rbuf, queue, service, serviceSem, stale>>
    PROVE  MailBound' /\ MailSeen' /\ DiscardKnows'
<1> USE DEF PopCore, PopRest
<1>1. /\ \A i \in Slots : queue[i].frame \in Pages /\ (Live(i) => queue[i].frame # page[t])
      /\ \A i \in Slots : Live(i)' <=> Live(i)
  BY PageAtHand DEF Live, Spent
<1>2. MailBound' /\ DiscardKnows'
  BY <1>1 DEF MailBound, DiscardKnows
<1>3. ServiceWillScan => ServiceWillScan'
  BY DEF ServiceWillScan
<1>4. CASE ~ServiceWillScan
  <2>1. \A i \in Slots : queue[i].frame # NoPage => queue[i].frame # page[t]
    BY <1>1, <1>4 DEF ServiceWillScan, Live, Spent
  <2>2. QED
    BY <1>1, <1>2, <1>4, <2>1 DEF MailSeen, Fits
<1>5. QED
  BY <1>2, <1>3, <1>4 DEF MailSeen

\* A packet arrives in the page of network_receive_thread.
LEMMA PopFrameArrives ==
    ASSUME PopInv, NEW n \in Ports, FrameArrives(n)
    PROVE  PopInv'
<1> USE DEF PopInv, PopCore
<1>1. /\ at[Interface] = "recv"
      /\ packet' = [packet EXCEPT ![page[Interface]] = n]
      /\ at' = [at EXCEPT ![Interface] = "send"]
      /\ UNCHANGED <<reserved, freePages, port, rbuf, sender, complete, queue, serviceSem, sendBuf,
                     service, page, mine, stale, overtaken>>
  BY DEF FrameArrives, MoveTo, poolVars, socketVars, traces
<1>2. /\ Interface \in Senders /\ page[Interface] \in Pages
      /\ \A t \in Senders : at'[t] = IF t = Interface THEN "send" ELSE at[t]
      /\ \A q \in Pages : packet'[q] = IF q = page[Interface] THEN n ELSE packet[q]
  BY <1>1, PageAtHand, NoneIsNone DEF Fields
<1>3. /\ \A r \in Sockets : Served(r)' <=> Served(r)
      /\ \A v \in Users : Receiving(v)' <=> Receiving(v)
  BY <1>1, <1>2, NoneIsNone DEF Served, Receiving
<1>4. PopTypeOK' /\ Fields'
  <2>1. PopTypeOK'
    BY <1>1 DEF PopTypeOK
  <2>2. Fields'
    BY <1>1, <1>2, NoneIsNone DEF Fields, InterfacePlaces
  <2>3. QED
    BY <2>1, <2>2
<1>5. PagesAtHand' /\ PoolCounted' /\ ServiceKnows'
  BY <1>1, <1>2 DEF PagesAtHand, PoolCounted, ServiceKnows
<1>6. SocketsOwned' /\ CallsAnswered' /\ SoleCaller'
  BY <1>1, <1>3, SocketsStay
<1>7. ASSUME ~overtaken PROVE PopRest'
  <2> USE <1>7 DEF PopRest
  <2>1. /\ \A i \in Slots : Live(i)' <=> Live(i)
        /\ \A i \in Slots : Live(i) => queue[i].frame # page[Interface]
        /\ \A i \in Slots : queue[i].frame \in Pages
        /\ \A t \in Senders : page[t] \in Pages /\ (page[t] = page[Interface] => t = Interface)
    BY <1>1, <1>2, PageAtHand DEF Live, Spent
  <2>2. PagesOwned'
    BY <1>1, <2>1 DEF PagesOwned
  <2>3. PacketsKnown'
    BY <1>1, <1>2, <2>1 DEF PacketsKnown
  <2>4. MailBound' /\ MailSeen' /\ DiscardKnows'
    BY <1>1, <1>2, MailStays
  <2>5. QED
    BY <2>2, <2>3, <2>4
<1>8. QED
  BY <1>1, <1>4, <1>5, <1>6, <1>7

\* network_send gives the page of its frame back.
LEMMA PopFreeFrame ==
    ASSUME PopInv, NEW u \in Users, at[u] = "send", FreeFrame(u)
    PROVE  PopInv'
<1> USE DEF PopInv, PopCore
<1> DEFINE p == page[u]
<1>1. /\ FreePage(p)
      /\ packet' = [packet EXCEPT ![p] = ClosedPort]
      /\ page' = [page EXCEPT ![u] = NoPage]
      /\ sendBuf' = NoUser
      /\ at' = [at EXCEPT ![u] = "user"]
      /\ UNCHANGED <<port, rbuf, sender, complete, queue, serviceSem, service, mine, stale,
                     overtaken>>
  BY DEF FreeFrame, MoveTo, socketVars, traces
<1>2. /\ p # NoPage /\ p \in Pages /\ p \notin StaticPages
      /\ u \in Senders /\ u # Interface
  BY PageAtHand, NoneIsNone
<1>3. reserved' = reserved \ {p} /\ PoolCounted' /\ freePages' \in 0 .. Cardinality(Pages)
  BY <1>1, PoolFree DEF PopTypeOK
<1>4. /\ \A t \in Senders : /\ page'[t] = IF t = u THEN NoPage ELSE page[t]
                            /\ at'[t] = IF t = u THEN "user" ELSE at[t]
      /\ \A q \in Pages : packet'[q] = IF q = p THEN ClosedPort ELSE packet[q]
      /\ page[u] = p /\ at[u] = "send"
  BY <1>1, <1>2 DEF PopTypeOK, Fields
<1>5. /\ \A i \in Slots : Live(i)' <=> Live(i)
      /\ \A r \in Sockets : Served(r)' <=> Served(r)
      /\ \A v \in Users : Receiving(v)' <=> Receiving(v)
  BY <1>1, <1>4, NoneIsNone DEF Live, Spent, Served, Receiving
<1>6. PopTypeOK' /\ Fields'
  <2>1. PopTypeOK'
    BY <1>1, <1>3 DEF PopTypeOK
  <2>2. Fields'
    BY <1>1, <1>2, <1>4, NoneIsNone DEF Fields, UserPlaces
  <2>3. QED
    BY <2>1, <2>2
<1>7. PagesAtHand' /\ ServiceKnows'
  BY <1>1, <1>2, <1>4 DEF PagesAtHand, ServiceKnows
<1>8. SocketsOwned' /\ CallsAnswered' /\ SoleCaller'
  BY <1>1, <1>5, SocketsStay
<1>9. ASSUME ~overtaken PROVE PopRest'
  <2> USE <1>9 DEF PopRest
  <2>1. /\ p \in reserved
        /\ \A t \in Senders : page[t] \in Pages /\ (page[t] = p => t = u)
        /\ \A i \in Slots : queue[i].frame \in Pages /\ (Live(i) => queue[i].frame # p)
    BY PageAtHand, <1>2
  <2>2. MailBound' /\ MailSeen' /\ DiscardKnows'
    BY <1>1, <1>2, <1>4, MailStays
  <2> HIDE DEF p
  <2>3. PacketsKnown'
    BY <1>1, <1>2, <1>4, <1>5, <2>1 DEF PacketsKnown
  <2>4. PagesOwned'
    <3>1. /\ \A s \in Senders : page'[s] # NoPage => page'[s] \in reserved'
          /\ \A r, s \in Senders : page'[r] = page'[s] /\ page'[r] # NoPage => r = s
      BY <1>2, <1>3, <1>4, <2>1 DEF PagesOwned
    <3>2. /\ \A i \in Slots : Live(i)' => queue'[i].frame \in reserved'
          /\ \A s \in Senders, i \in Slots : Live(i)' => page'[s] # queue'[i].frame
          /\ \A i, k \in Slots :
                 Live(i)' /\ Live(k)' /\ queue'[i].frame = queue'[k].frame => i = k
      BY <1>1, <1>3, <1>4, <1>5, <2>1 DEF PagesOwned, Live
    <3>3. \A q \in reserved' \ StaticPages :
              \/ \E s \in Senders : page'[s] = q
              \/ \E i \in Slots : Live(i)' /\ queue'[i].frame = q
      BY <1>1, <1>3, <1>4, <1>5 DEF PagesOwned
    <3>4. QED
      BY <3>1, <3>2, <3>3 DEF PagesOwned
  <2>5. QED
    BY <2>2, <2>3, <2>4
<1>10. QED
  BY <1>1, <1>3, <1>6, <1>7, <1>8, <1>9

\* A frame that was refused: network_receive_thread keeps its page.
LEMMA PopKeepPage ==
    ASSUME PopInv, at[Interface] = "send",
           packet' = [packet EXCEPT ![page[Interface]] = ClosedPort],
           at' = [at EXCEPT ![Interface] = "recv"],
           UNCHANGED <<reserved, freePages, port, rbuf, sender, complete, queue, serviceSem,
                       sendBuf, service, page, mine, stale, overtaken>>
    PROVE  PopInv'
<1> USE DEF PopInv, PopCore
<1>1. /\ Interface \in Senders /\ page[Interface] \in Pages
      /\ \A t \in Senders : at'[t] = IF t = Interface THEN "recv" ELSE at[t]
      /\ \A q \in Pages : packet'[q] = IF q = page[Interface] THEN ClosedPort ELSE packet[q]
  BY PageAtHand, NoneIsNone DEF Fields
<1>2. /\ \A r \in Sockets : Served(r)' <=> Served(r)
      /\ \A v \in Users : Receiving(v)' <=> Receiving(v)
  BY <1>1, NoneIsNone DEF Served, Receiving
<1>3. PopTypeOK' /\ Fields'
  <2>1. PopTypeOK'
    BY DEF PopTypeOK
  <2>2. Fields'
    BY <1>1, NoneIsNone DEF Fields, InterfacePlaces
  <2>3. QED
    BY <2>1, <2>2
<1>4. PagesAtHand' /\ PoolCounted' /\ ServiceKnows'
  BY <1>1 DEF PagesAtHand, PoolCounted, ServiceKnows
<1>5. SocketsOwned' /\ CallsAnswered' /\ SoleCaller'
  BY <1>2, SocketsStay
<1>6. ASSUME ~overtaken PROVE PopRest'
  <2> USE <1>6 DEF PopRest
  <2>1. /\ \A i \in Slots : Live(i)' <=> Live(i)
        /\ \A i \in Slots : Live(i) => queue[i].frame # page[Interface]
        /\ \A i \in Slots : queue[i].frame \in Pages
        /\ \A t \in Senders : page[t] \in Pages /\ (page[t] = page[Interface] => t = Interface)
    BY <1>1, PageAtHand DEF Live, Spent
  <2>2. PagesOwned' /\ PacketsKnown'
    BY <1>1, <2>1 DEF PagesOwned, PacketsKnown
  <2>3. MailBound' /\ MailSeen' /\ DiscardKnows'
    BY <1>1, MailStays
  <2>4. QED
    BY <2>2, <2>3
<1>7. QED
  BY <1>3, <1>4, <1>5, <1>6

-----------------------------------------------------------------------------
\* pop_push_frame puts a frame into a slot that is free, or whose own frame has been
\* freed: a slot from which nothing is transferred.
LEMMA PopEnqueued ==
    ASSUME PopInv, NEW t \in Senders, at[t] = "send", NEW i \in Slots,
           Enqueued(t, i), ~queue[i].busy, overtaken' \in BOOLEAN, overtaken => overtaken',
           service.slot = i => overtaken',
           \/ UNCHANGED <<packet, reserved, freePages>> /\ queue[i].frame = NoPage
           \/ /\ queue[i].frame # NoPage /\ FreePage(queue[i].frame)
              /\ packet' = [packet EXCEPT ![queue[i].frame] = ClosedPort]
    PROVE  PopInv'
<1> USE DEF PopInv, PopCore
<1> DEFINE p == page[t]
           old == queue[i].frame
<1>1. /\ queue' = [queue EXCEPT ![i] = [frame |-> p, socket |-> NoSocket, busy |-> FALSE]]
      /\ page' = [page EXCEPT ![t] = NoPage]
      /\ stale' = stale \ {i}
      /\ at' = [at EXCEPT ![t] = "signal"]
      /\ UNCHANGED <<port, rbuf, sender, complete, serviceSem, sendBuf, service, mine>>
  BY DEF Enqueued, Entry, MoveTo, socketVars
<1>2. p # NoPage /\ p \in Pages /\ p \notin StaticPages
  BY PageAtHand
<1>3. /\ \A j \in Slots : j # i => queue'[j] = queue[j]
      /\ queue'[i] = [frame |-> p, socket |-> NoSocket, busy |-> FALSE]
      /\ \A s \in Senders : /\ page'[s] = IF s = t THEN NoPage ELSE page[s]
                            /\ at'[s] = IF s = t THEN "signal" ELSE at[s]
      /\ service.at \in Transferring => service.slot # i
  BY <1>1 DEF PopTypeOK, Fields, ServiceKnows
<1>4. /\ \A r \in Sockets : Served(r)' <=> Served(r)
      /\ \A v \in Users : Receiving(v)' <=> Receiving(v)
  <2>1. \A r \in Sockets : Served(r)' <=> Served(r)
    <3>1. CASE service.at \in {"zero", "free", "wake"}
      <4>1. service.slot \in Slots /\ service.slot # i
        BY <1>3, <3>1 DEF ServiceKnows, Transferring, Resting
      <4>2. QED
        BY <1>1, <1>3, <4>1 DEF Served
    <3>2. CASE service.at \notin {"zero", "free", "wake"}
      BY <1>1, <3>2 DEF Served
    <3>3. QED
      BY <3>1, <3>2
  <2>2. QED
    BY <1>3, <2>1, NoneIsNone DEF Receiving
<1>5. /\ old # NoPage => old \in reserved \ StaticPages
      /\ \A q \in Pages : q # old => packet'[q] = packet[q]
      /\ packet' \in [Pages -> Ports \cup {ClosedPort}]
      /\ reserved' = reserved \ (IF old = NoPage THEN {} ELSE {old})
      /\ PoolCounted' /\ freePages' \in 0 .. Cardinality(Pages)
  <2>1. CASE old = NoPage
    BY <2>1, PoolBounds DEF PoolCounted, PopTypeOK, Fields
  <2>2. CASE old # NoPage
    <3>1. /\ old \in reserved \ StaticPages /\ reserved' = reserved \ {old}
          /\ PoolCounted' /\ freePages' \in 0 .. Cardinality(Pages)
      BY <2>2, PoolFree DEF PopTypeOK
    <3>2. QED
      BY <2>2, <3>1 DEF Fields
  <2>3. QED
    BY <2>1, <2>2
<1>6. PopTypeOK' /\ Fields'
  <2>1. PopTypeOK'
    <3>1. queue' \in [Slots -> [frame : {NoPage} \cup (Pages \ StaticPages),
                                socket : Sockets \cup {NoSocket}, busy : BOOLEAN]]
      BY <1>1, <1>2 DEF PopTypeOK
    <3>2. reserved' \subseteq Pages
      BY <1>5 DEF PopTypeOK
    <3>3. QED
      BY <1>1, <1>5, <3>1, <3>2 DEF PopTypeOK
  <2>2. Fields'
    BY <1>1, <1>3, <1>5, NoneIsNone DEF Fields, UserPlaces, InterfacePlaces
  <2>3. QED
    BY <2>1, <2>2
<1> HIDE DEF p, old
<1>7. PagesAtHand'
  BY <1>3 DEF PagesAtHand
<1>8. ServiceKnows'
  <2>1. \A j \in Slots : queue'[j].frame = NoPage => queue'[j] = EmptySlot /\ j # i
    BY <1>2, <1>3 DEF ServiceKnows
  <2>2. \A j \in Slots : queue'[j].busy => queue'[j] = queue[j]
    BY <1>3
  <2>3. \A j \in Slots : queue[j].frame # NoPage => queue'[j].frame # NoPage
    BY <1>2, <1>3
  <2>4. service.at \in Transferring => queue'[service.slot] = queue[service.slot]
    BY <1>3 DEF ServiceKnows, Transferring, Resting
  <2>5. QED
    BY <1>1, <2>1, <2>2, <2>3, <2>4 DEF ServiceKnows, Transferring
<1>9. SocketsOwned' /\ CallsAnswered' /\ SoleCaller'
  BY <1>1, <1>4, SocketsStay
<1>10. ASSUME ~overtaken' PROVE PopRest'
  <2> USE <1>10 DEF PopRest
  <2>1. service.slot # i
    OBVIOUS
  <2>2. /\ \A j \in Slots : Live(j)' <=> Live(j) \/ j = i
        /\ old # NoPage => Live(i)
    BY <1>1, <1>2, <1>3, <2>1 DEF Live, Spent, old
  <2>3. /\ p \in reserved /\ packet[p] \in Ports
        /\ \A s \in Senders : page[s] \in Pages /\ (page[s] = p => s = t)
        /\ \A j \in Slots : queue[j].frame \in Pages /\ (Live(j) => queue[j].frame # p)
    BY PageAtHand DEF PacketsKnown, p
  <2>4. old # NoPage => /\ old # p
                        /\ \A s \in Senders : page[s] # old
                        /\ \A j \in Slots : Live(j) /\ queue[j].frame = old => j = i
    BY <2>2, <2>3 DEF PagesOwned, old
  <2>5. PagesOwned'
    <3>1. /\ \A s \in Senders : page'[s] # NoPage => page'[s] \in reserved'
          /\ \A r, s \in Senders : page'[r] = page'[s] /\ page'[r] # NoPage => r = s
      BY <1>3, <1>5, <2>4 DEF PagesOwned
    <3>2. \A j \in Slots : Live(j)' => queue'[j].frame \in reserved'
      BY <1>3, <1>5, <2>2, <2>3, <2>4 DEF PagesOwned
    <3>3. \A s \in Senders, j \in Slots : Live(j)' => page'[s] # queue'[j].frame
      BY <1>2, <1>3, <2>2, <2>3 DEF PagesOwned, Live
    <3>4. \A j, k \in Slots : Live(j)' /\ Live(k)' /\ queue'[j].frame = queue'[k].frame => j = k
      BY <1>3, <2>2, <2>3 DEF PagesOwned
    <3>5. ASSUME NEW q \in reserved' \ StaticPages
          PROVE  \/ \E s \in Senders : page'[s] = q
                 \/ \E j \in Slots : Live(j)' /\ queue'[j].frame = q
      <4>1. q \in reserved \ StaticPages /\ q # NoPage
        BY <1>5, <3>5, NoneIsNone
      <4>2. CASE q = p
        BY <1>3, <2>2, <4>2
      <4>3. CASE \E s \in Senders : page[s] = q /\ q # p
        BY <1>3, <4>1, <4>3 DEF p
      <4>4. CASE \E j \in Slots : Live(j) /\ queue[j].frame = q
        <5>1. PICK j \in Slots : Live(j) /\ queue[j].frame = q
          BY <4>4
        <5>2. j # i
          BY <1>5, <3>5, <4>1, <5>1 DEF old
        <5>3. QED
          BY <1>3, <2>2, <5>1, <5>2
      <4>5. QED
        BY <4>1, <4>2, <4>3, <4>4 DEF PagesOwned
    <3>6. QED
      BY <1>5, <3>1, <3>2, <3>3, <3>4, <3>5 DEF PagesOwned
  <2>6. PacketsKnown'
    <3>1. \A s \in Senders : at'[s] = "send" => packet'[page'[s]] \in Ports
      <4> SUFFICES ASSUME NEW s \in Senders, at'[s] = "send" PROVE packet'[page'[s]] \in Ports
        OBVIOUS
      <4>1. s # t /\ at[s] = "send" /\ page'[s] = page[s] /\ page[s] # NoPage
        BY <1>3 DEF PagesAtHand
      <4>2. page[s] # old
        BY <2>4, <4>1
      <4>3. QED
        BY <1>5, <2>3, <4>1, <4>2 DEF PacketsKnown
    <3>2. \A j \in Slots : Live(j)' => packet'[queue'[j].frame] \in Ports
      <4> SUFFICES ASSUME NEW j \in Slots, Live(j)' PROVE packet'[queue'[j].frame] \in Ports
        OBVIOUS
      <4>1. CASE j = i
        BY <1>2, <1>3, <1>5, <2>3, <2>4, <4>1
      <4>2. CASE j # i
        <5>1. Live(j) /\ queue[j].frame # NoPage
          BY <2>2, <4>2 DEF Live
        <5>2. queue[j].frame # old
          BY <2>4, <4>2, <5>1
        <5>3. QED
          BY <1>3, <1>5, <2>3, <4>2, <5>1, <5>2 DEF PacketsKnown
      <4>3. QED
        BY <4>1, <4>2
    <3>3. QED
      BY <3>1, <3>2 DEF PacketsKnown
  <2>7. MailBound'
    <3> SUFFICES ASSUME NEW j \in Slots, Live(j)', queue'[j].socket # NoSocket, j \notin stale'
                 PROVE  port'[queue'[j].socket] \in {ClosedPort, packet'[queue'[j].frame]}
      BY DEF MailBound
    <3>1. j # i /\ Live(j) /\ queue'[j] = queue[j] /\ j \notin stale
      BY <1>1, <1>3, <2>2
    <3>2. queue[j].frame # old /\ queue[j].frame \in Pages
      BY <2>3, <2>4, <3>1 DEF Live
    <3>3. QED
      BY <1>1, <1>5, <3>1, <3>2 DEF MailBound
  <2>8. MailSeen' /\ DiscardKnows'
    <3>1. MailSeen'
      BY <1>3 DEF MailSeen, ServiceWillScan
    <3>2. service.at = "discard" => service.slot \in Slots
      BY DEF ServiceKnows, Resting
    <3>3. DiscardKnows'
      BY <1>1, <1>3, <2>1, <3>2 DEF DiscardKnows
    <3>4. QED
      BY <3>1, <3>3
  <2>9. QED
    BY <2>5, <2>6, <2>7, <2>8
<1>11. QED
  BY <1>5, <1>6, <1>7, <1>8, <1>9, <1>10

\* The service thread works on no free slot; one that is replaced it may just be
\* discarding.
LEMMA PopPush ==
    ASSUME PopInv, NEW t \in Senders, Push(t) \/ PushReplace(t) \/ PushRefused(t)
    PROVE  PopInv'
<1>1. CASE Push(t)
  <2>1. PICK i \in FreeSlots : Enqueued(t, i)
    BY <1>1 DEF Push
  <2>2. at[t] = "send" /\ UNCHANGED <<packet, reserved, freePages, overtaken>>
    BY <1>1 DEF Push, poolVars
  <2>3. i \in Slots /\ queue[i].frame = NoPage
    BY DEF FreeSlots
  <2>4. service.slot # i /\ ~queue[i].busy
    BY <2>3, NoneIsNone, EmptySlotIsEmpty DEF PopInv, PopCore, ServiceKnows
  <2>5. overtaken \in BOOLEAN
    BY DEF PopInv, PopCore, Fields
  <2>6. QED
    BY <2>1, <2>2, <2>3, <2>4, <2>5, PopEnqueued
<1>2. CASE PushReplace(t)
  <2>1. PICK i \in Slots :
            /\ ~queue[i].busy
            /\ FreePage(queue[i].frame)
            /\ packet' = [packet EXCEPT ![queue[i].frame] = ClosedPort]
            /\ overtaken' = (overtaken \/ Discarding(i))
            /\ Enqueued(t, i)
    BY <1>2 DEF PushReplace, Replaceable
  <2>2. at[t] = "send" /\ queue[i].frame # NoPage
    BY <1>2 DEF PushReplace, FreeSlots
  <2>3. overtaken' \in BOOLEAN
    BY <2>1 DEF PopInv, PopCore, Fields
  <2>4. service.slot = i => Discarding(i)
    BY <2>1, NoneIsNone
    DEF PopInv, PopCore, Fields, ServiceKnows, ServicePlaces, Resting, Discarding
  <2>5. QED
    BY <2>1, <2>2, <2>3, <2>4, PopEnqueued
<1>3. CASE PushRefused(t)
  <2>1. CASE t # Interface
    BY <1>3, <2>1, PopFreeFrame, NoneIsNone DEF PushRefused
  <2>2. CASE t = Interface
    BY <1>3, <2>2, PopKeepPage DEF PushRefused, MoveTo, poolVars, socketVars, traces
  <2>3. QED
    BY <2>1, <2>2
<1>4. QED
  BY <1>1, <1>2, <1>3

\* The service thread is signalled for the frame.
LEMMA PopPushSignal ==
    ASSUME PopInv, NEW t \in Senders, PushSignal(t)
    PROVE  PopInv'
<1> USE DEF PopInv, PopCore
<1> DEFINE place == IF t = Interface THEN "get" ELSE "user"
<1>1. /\ at[t] = "signal" /\ serviceSem < MaxSignals
      /\ serviceSem' = serviceSem + 1
      /\ sendBuf' = IF t = Interface THEN sendBuf ELSE NoUser
      /\ at' = [at EXCEPT ![t] = place]
      /\ UNCHANGED <<reserved, freePages, port, rbuf, sender, complete, queue, service, packet,
                     page, mine, stale, overtaken>>
  BY DEF PushSignal, SignalFor, MoveTo, poolVars, socketVars, traces
<1>2. /\ \A s \in Senders : at'[s] = IF s = t THEN place ELSE at[s]
      /\ place \in {"get", "user"}
      /\ serviceSem' \in 0 .. MaxSignals /\ serviceSem' > 0
  BY <1>1, PopAssumption DEF PopTypeOK, Fields
<1>3. /\ \A r \in Sockets : Served(r)' <=> Served(r)
      /\ \A v \in Users : Receiving(v)' <=> Receiving(v)
  BY <1>1, <1>2, NoneIsNone DEF Served, Receiving
<1>4. PopTypeOK' /\ Fields'
  <2>1. PopTypeOK'
    BY <1>1, <1>2 DEF PopTypeOK
  <2>2. Fields'
    BY <1>1, <1>2, NoneIsNone DEF Fields, UserPlaces, InterfacePlaces
  <2>3. QED
    BY <2>1, <2>2
<1> HIDE DEF place
<1>5. PagesAtHand' /\ PoolCounted' /\ ServiceKnows'
  BY <1>1, <1>2 DEF PagesAtHand, PoolCounted, ServiceKnows
<1>6. SocketsOwned' /\ CallsAnswered' /\ SoleCaller'
  BY <1>1, <1>3, SocketsStay
<1>7. ASSUME ~overtaken PROVE PopRest'
  <2> USE <1>7 DEF PopRest
  <2>1. \A i \in Slots : Live(i)' <=> Live(i)
    BY <1>1 DEF Live, Spent
  <2>2. PagesOwned' /\ PacketsKnown' /\ DiscardKnows' /\ MailBound'
    BY <1>1, <1>2, <2>1 DEF PagesOwned, PacketsKnown, DiscardKnows, MailBound
  <2>3. MailSeen'
    BY <1>2 DEF MailSeen, ServiceWillScan
  <2>4. QED
    BY <2>2, <2>3
<1>8. QED
  BY <1>1, <1>4, <1>5, <1>6, <1>7

-----------------------------------------------------------------------------
\* What the loop of pop_service_thread finds for a frame is the one open socket it fits.
LEMMA SocketFound ==
    ASSUME PopCore, NEW i \in Slots
    PROVE  /\ SocketOf(i) \in Sockets \cup {NoSocket}
           /\ SocketOf(i) # NoSocket => Fits(i, SocketOf(i))
           /\ \A s \in Sockets : Fits(i, s) /\ port[s] # ClosedPort => SocketOf(i) = s
<1> USE DEF PopCore
<1> DEFINE n == packet[queue[i].frame]
<1>1. \A r, s \in Listening(n) : r = s
  BY DEF Listening, OpenSockets, SocketsOwned
<1>2. CASE queue[i].socket # NoSocket
  BY <1>2, NoneIsNone DEF SocketOf, Fits, PopTypeOK
<1>3. CASE queue[i].socket = NoSocket /\ Listening(n) = {}
  BY <1>3, NoneIsNone DEF SocketOf, Fits, Listening, OpenSockets
<1>4. CASE queue[i].socket = NoSocket /\ Listening(n) # {}
  <2> DEFINE f == CHOOSE s \in Listening(n) : TRUE
  <2>1. f \in Listening(n) /\ SocketOf(i) = f
    BY <1>4 DEF SocketOf
  <2>2. \A s \in Sockets : Fits(i, s) /\ port[s] # ClosedPort => s \in Listening(n)
    BY <1>4, NoneIsNone DEF Fits, Listening, OpenSockets
  <2> HIDE DEF f
  <2>3. QED
    BY <1>1, <1>4, <2>1, <2>2, NoneIsNone DEF Fits, Listening, OpenSockets
<1>5. QED
  BY <1>2, <1>3, <1>4

\* The loop changes no more than the sockets of frames, and what is busy.
LEMMA ScanKeeps ==
    ASSUME PopInv, service.at = "scan", NEW stop \in Int, queue' = Scanned(stop),
           service' \in [at : {"discard", "copy", "sleep"}, slot : Slots \cup {NoSlot},
                         frame : Pages],
           UNCHANGED <<poolVars, socketVars, serviceSem, sendBuf, packet, at, page, mine, traces>>
    PROVE  /\ PopTypeOK' /\ Fields' /\ PagesAtHand' /\ PoolCounted'
           /\ SocketsOwned' /\ CallsAnswered' /\ SoleCaller'
           /\ \A j \in Slots : queue'[j].frame = queue[j].frame
           /\ ~overtaken => PagesOwned' /\ PacketsKnown' /\ MailBound'
<1> USE DEF PopInv, PopCore, poolVars, socketVars, traces
<1>1. \A j \in Slots :
          /\ queue'[j].frame = queue[j].frame
          /\ queue'[j].socket \in {queue[j].socket, SocketOf(j)}
          /\ queue'[j] \in [frame : {NoPage} \cup (Pages \ StaticPages),
                            socket : Sockets \cup {NoSocket}, busy : BOOLEAN]
  <2> SUFFICES ASSUME NEW j \in Slots
               PROVE  /\ queue'[j].frame = queue[j].frame
                      /\ queue'[j].socket \in {queue[j].socket, SocketOf(j)}
                      /\ queue'[j] \in [frame : {NoPage} \cup (Pages \ StaticPages),
                                        socket : Sockets \cup {NoSocket}, busy : BOOLEAN]
    OBVIOUS
  <2>1. queue[j] \in [frame : {NoPage} \cup (Pages \ StaticPages),
                      socket : Sockets \cup {NoSocket}, busy : BOOLEAN]
    BY DEF PopTypeOK
  <2>2. CASE queue[j].frame = NoPage \/ j > stop
    BY <2>1, <2>2 DEF Scanned
  <2>3. CASE ~(queue[j].frame = NoPage \/ j > stop)
    <3>1. SocketOf(j) \in Sockets \cup {NoSocket}
      BY SocketFound
    <3>2. queue'[j] = [queue[j] EXCEPT !.socket = SocketOf(j), !.busy = @ \/ Transfers(j)]
      BY <2>3 DEF Scanned
    <3>3. (queue[j].busy \/ Transfers(j)) \in BOOLEAN
      BY <2>1
    <3>4. QED
      BY <2>1, <2>3, <3>1, <3>2, <3>3
  <2>4. QED
    BY <2>2, <2>3
<1>2. /\ \A j \in Slots : Live(j)' <=> Live(j)
      /\ \A r \in Sockets : ~Served(r) /\ ~Served(r)'
      /\ \A v \in Users : Receiving(v)' <=> Receiving(v)
  BY <1>1 DEF Live, Spent, Served, Receiving
<1>3. PopTypeOK' /\ Fields'
  <2>1. DOMAIN queue' = Slots /\ queue' = [j \in Slots |-> queue'[j]]
    BY DEF Scanned
  <2>2. queue' \in [Slots -> [frame : {NoPage} \cup (Pages \ StaticPages),
                              socket : Sockets \cup {NoSocket}, busy : BOOLEAN]]
    BY <1>1, <2>1
  <2>3. PopTypeOK'
    BY <2>2 DEF PopTypeOK
  <2>4. Fields'
    BY DEF Fields, ServicePlaces, Resting, Transferring
  <2>5. QED
    BY <2>3, <2>4
<1>4. PagesAtHand' /\ PoolCounted'
  BY DEF PagesAtHand, PoolCounted
<1>5. SocketsOwned' /\ CallsAnswered' /\ SoleCaller'
  BY <1>2, SocketsStay
<1>6. ASSUME ~overtaken PROVE PagesOwned' /\ PacketsKnown' /\ MailBound'
  <2> USE <1>6 DEF PopRest
  <2>1. PagesOwned' /\ PacketsKnown'
    BY <1>1, <1>2 DEF PagesOwned, PacketsKnown
  <2>2. MailBound'
    <3> SUFFICES ASSUME NEW j \in Slots, Live(j)', queue'[j].socket # NoSocket, j \notin stale'
                 PROVE  port'[queue'[j].socket] \in {ClosedPort, packet'[queue'[j].frame]}
      BY DEF MailBound
    <3>1. Live(j)
      BY <1>2
    <3>2. CASE queue'[j].socket = queue[j].socket
      BY <1>1, <3>1, <3>2 DEF MailBound
    <3>3. CASE queue'[j].socket = SocketOf(j) /\ queue'[j].socket # queue[j].socket
      BY <1>1, <3>1, <3>3, SocketFound DEF Fits
    <3>4. QED
      BY <1>1, <3>2, <3>3
  <2>3. QED
    BY <2>1, <2>2
<1>7. QED
  BY <1>1, <1>3, <1>4, <1>5, <1>6

LEMMA PopScan == PopInv /\ Scan => PopInv'
<1> SUFFICES ASSUME PopInv, Scan PROVE PopInv'
  OBVIOUS
<1> USE DEF PopInv, PopCore
<1>1. /\ service.at = "scan"
      /\ UNCHANGED <<poolVars, socketVars, serviceSem, sendBuf, packet, at, page, mine, traces>>
  BY DEF Scan
<1>2. \A j \in Slots : /\ queue[j].busy = FALSE /\ j \in Int
                       /\ queue[j].frame = NoPage => queue[j] = EmptySlot
                       /\ queue[j].socket \in Sockets \cup {NoSocket}
                       /\ queue[j] \in [frame : {NoPage} \cup (Pages \ StaticPages),
                                        socket : Sockets \cup {NoSocket}, busy : BOOLEAN]
  BY <1>1 DEF ServiceKnows, PopTypeOK, Resting, Slots
<1>3. UNCHANGED <<port, rbuf, overtaken>>
  BY <1>1 DEF socketVars, traces
<1>4. ASSUME NEW i \in Slots, Acts(i), \A j \in 0 .. i - 1 : ~Acts(j), queue' = Scanned(i),
             service' = [at |-> IF Discards(i) THEN "discard" ELSE "copy",
                         slot |-> i, frame |-> queue[i].frame]
      PROVE  PopInv'
  <2>1. queue[i].frame # NoPage /\ queue[i].frame \in Pages
    BY <1>4, NoneIsNone DEF Acts, PopTypeOK
  <2>2. /\ PopTypeOK' /\ Fields' /\ PagesAtHand' /\ PoolCounted'
        /\ SocketsOwned' /\ CallsAnswered' /\ SoleCaller'
        /\ \A j \in Slots : queue'[j].frame = queue[j].frame
        /\ ~overtaken => PagesOwned' /\ PacketsKnown' /\ MailBound'
    BY <1>1, <1>2, <1>4, <2>1, ScanKeeps
  <2>3. \A j \in Slots : j # i => queue'[j].busy = FALSE
    <3> SUFFICES ASSUME NEW j \in Slots, j # i PROVE queue'[j].busy = FALSE
      OBVIOUS
    <3>1. CASE queue[j].frame = NoPage \/ j > i
      BY <1>2, <1>4, <3>1 DEF Scanned
    <3>2. CASE ~(queue[j].frame = NoPage \/ j > i)
      <4>1. j \in 0 .. i - 1
        BY <1>2, <3>2 DEF Slots
      <4>2. ~Transfers(j)
        BY <1>4, <3>2, <4>1 DEF Acts, Transfers
      <4>3. queue'[j] = [queue[j] EXCEPT !.socket = SocketOf(j), !.busy = @ \/ Transfers(j)]
        BY <1>4, <3>2 DEF Scanned
      <4>4. QED
        BY <1>2, <4>2, <4>3
    <3>3. QED
      BY <3>1, <3>2
  <2>4. \A j \in Slots : queue'[j].frame = NoPage => queue'[j] = EmptySlot
    <3> SUFFICES ASSUME NEW j \in Slots, queue'[j].frame = NoPage PROVE queue'[j] = EmptySlot
      OBVIOUS
    <3>1. queue[j].frame = NoPage
      BY <2>2
    <3>2. QED
      BY <1>2, <1>4, <3>1 DEF Scanned
  <2>5. queue'[i] = [queue[i] EXCEPT !.socket = SocketOf(i), !.busy = @ \/ Transfers(i)]
    <3>1. ~(i > i)
      BY <1>2
    <3>2. QED
      BY <1>4, <2>1, <3>1 DEF Scanned
  <2>6. queue'[i].frame = queue[i].frame /\ queue'[i].socket = SocketOf(i)
    BY <1>2, <2>5
  <2>7. ServiceKnows'
    <3>1. CASE Discards(i)
      <4>1. ~Transfers(i)
        BY <3>1 DEF Discards, Transfers, Awaited
      <4>2. queue'[i].busy = FALSE
        BY <1>2, <2>5, <4>1
      <4>3. QED
        BY <1>4, <2>1, <2>3, <2>4, <2>6, <3>1, <4>2 DEF ServiceKnows, Resting, Transferring
    <3>2. CASE ~Discards(i)
      <4>1. Transfers(i) /\ SocketOf(i) \in Awaited
        BY <1>4, <3>2 DEF Discards, Acts, Transfers
      <4>2. queue'[i].busy
        BY <1>2, <2>5, <4>1
      <4>3. /\ SocketOf(i) \in Sockets
            /\ port'[SocketOf(i)] # ClosedPort /\ rbuf'[SocketOf(i)] # NoUser
        BY <1>3, <4>1 DEF Awaited, OpenSockets
      <4>4. QED
        BY <1>4, <2>1, <2>3, <2>4, <2>6, <3>2, <4>2, <4>3
        DEF ServiceKnows, Resting, Transferring
    <3>3. QED
      BY <3>1, <3>2
  <2>8. MailSeen' /\ DiscardKnows'
    BY <1>4, <2>6 DEF MailSeen, ServiceWillScan, DiscardKnows
  <2>9. QED
    BY <1>3, <2>2, <2>7, <2>8 DEF PopRest
<1>5. ASSUME \A i \in Slots : ~Acts(i), queue' = Scanned(QueueSize), service' = Idle("sleep")
      PROVE  PopInv'
  <2>1. QueueSize \in Int /\ \A i \in Slots : ~(i > QueueSize)
    BY PopAssumption DEF Slots
  <2>2. /\ PopTypeOK' /\ Fields' /\ PagesAtHand' /\ PoolCounted'
        /\ SocketsOwned' /\ CallsAnswered' /\ SoleCaller'
        /\ \A j \in Slots : queue'[j].frame = queue[j].frame
        /\ ~overtaken => PagesOwned' /\ PacketsKnown' /\ MailBound'
    BY <1>1, <1>5, <2>1, ScanKeeps, NoneIsNone DEF Idle
  <2>3. \A i \in Slots :
            IF queue[i].frame = NoPage THEN queue'[i] = EmptySlot
            ELSE /\ queue'[i].frame # NoPage /\ queue'[i].busy = FALSE
                 /\ queue'[i].socket = SocketOf(i)
    <3> SUFFICES ASSUME NEW i \in Slots
                 PROVE  IF queue[i].frame = NoPage THEN queue'[i] = EmptySlot
                        ELSE /\ queue'[i].frame # NoPage /\ queue'[i].busy = FALSE
                             /\ queue'[i].socket = SocketOf(i)
      OBVIOUS
    <3>1. CASE queue[i].frame = NoPage
      BY <1>2, <1>5, <3>1 DEF Scanned
    <3>2. CASE queue[i].frame # NoPage
      <4>1. ~Transfers(i)
        BY <1>5, <3>2 DEF Acts, Transfers
      <4>2. queue'[i] = [queue[i] EXCEPT !.socket = SocketOf(i), !.busy = @ \/ Transfers(i)]
        BY <1>5, <2>1, <3>2 DEF Scanned
      <4>3. QED
        BY <1>2, <3>2, <4>1, <4>2
    <3>3. QED
      BY <3>1, <3>2
  <2>4. ServiceKnows'
    <3>1. \A i \in Slots : /\ queue'[i].busy = FALSE
                           /\ queue'[i].frame = NoPage => queue'[i] = EmptySlot
      BY <2>3, EmptySlotIsEmpty
    <3>2. QED
      BY <1>5, <3>1 DEF ServiceKnows, Resting, Transferring, Idle
  <2>5. MailSeen'
    <3> SUFFICES ASSUME NEW i \in Slots, NEW s \in Sockets, queue'[i].frame # NoPage,
                        Fits(i, s)', port'[s] # ClosedPort
                 PROVE  rbuf'[s] = NoUser
      BY DEF MailSeen
    <3>1. queue[i].frame # NoPage /\ queue'[i].socket = SocketOf(i)
      BY <2>3, EmptySlotIsEmpty
    <3>2. queue'[i].frame = queue[i].frame
      BY <2>2
    <3>3. SocketOf(i) = s
      <4>1. CASE SocketOf(i) = NoSocket
        <5>1. port[s] = packet[queue[i].frame]
          BY <1>1, <1>3, <3>1, <3>2, <4>1, NoneIsNone DEF Fits
        <5>2. queue[i].socket = NoSocket
          BY <4>1 DEF SocketOf
        <5>3. QED
          BY <1>3, <5>1, <5>2, SocketFound DEF Fits
      <4>2. CASE SocketOf(i) # NoSocket
        BY <3>1, <4>2 DEF Fits
      <4>3. QED
        BY <4>1, <4>2
    <3>4. s \in OpenSockets
      BY <1>3 DEF OpenSockets
    <3>5. rbuf[s] = NoUser
      BY <1>5, <3>1, <3>3, <3>4 DEF Acts, Awaited
    <3>6. QED
      BY <1>3, <3>5
  <2>6. DiscardKnows'
    BY <1>5 DEF DiscardKnows, Idle
  <2>7. QED
    BY <1>3, <2>2, <2>4, <2>5, <2>6 DEF PopRest
<1>6. QED
  BY <1>4, <1>5 DEF Scan

\* A signal: the loop starts again.
LEMMA PopWake == PopInv /\ Wake => PopInv'
<1> SUFFICES ASSUME PopInv, Wake PROVE PopInv'
  OBVIOUS
<1> USE DEF PopInv, PopCore
<1>1. /\ service.at = "sleep" /\ serviceSem > 0 /\ serviceSem' = serviceSem - 1
      /\ service' = [at |-> "scan", slot |-> NoSlot, frame |-> NoPage]
      /\ UNCHANGED <<reserved, freePages, port, rbuf, sender, complete, queue, sendBuf, packet, at,
                     page, mine, stale, overtaken>>
  BY DEF Wake, Idle, poolVars, socketVars, traces
<1>2. /\ \A r \in Sockets : Served(r)' <=> Served(r)
      /\ \A v \in Users : Receiving(v)' <=> Receiving(v)
  BY <1>1 DEF Served, Receiving
<1>3. PopTypeOK' /\ Fields'
  <2>1. PopTypeOK'
    BY <1>1, PopAssumption DEF PopTypeOK
  <2>2. Fields'
    BY <1>1, NoneIsNone DEF Fields, ServicePlaces, Resting
  <2>3. QED
    BY <2>1, <2>2
<1>4. PagesAtHand' /\ PoolCounted' /\ ServiceKnows'
  BY <1>1 DEF PagesAtHand, PoolCounted, ServiceKnows, Resting, Transferring
<1>5. SocketsOwned' /\ CallsAnswered' /\ SoleCaller'
  BY <1>1, <1>2, SocketsStay
<1>6. ASSUME ~overtaken PROVE PopRest'
  <2> USE <1>6 DEF PopRest
  <2>1. \A i \in Slots : Live(i)' <=> Live(i)
    BY <1>1 DEF Live, Spent
  <2>2. PagesOwned' /\ PacketsKnown' /\ MailBound'
    BY <1>1, <2>1 DEF PagesOwned, PacketsKnown, MailBound
  <2>3. MailSeen' /\ DiscardKnows'
    BY <1>1 DEF MailSeen, ServiceWillScan, DiscardKnows
  <2>4. QED
    BY <2>2, <2>3
<1>7. QED
  BY <1>1, <1>3, <1>4, <1>5, <1>6

\* A packet is copied into the buffer that waits for it, which is announced no more.
LEMMA PopCopy == PopInv /\ Copy => PopInv'
<1> SUFFICES ASSUME PopInv, Copy PROVE PopInv'
  OBVIOUS
<1> USE DEF PopInv, PopCore
<1> DEFINE s == queue[service.slot].socket
<1>1. /\ service.at = "copy" /\ rbuf' = [rbuf EXCEPT ![s] = NoUser]
      /\ service' = [service EXCEPT !.at = "zero"]
      /\ UNCHANGED <<reserved, freePages, port, sender, complete, queue, serviceSem, sendBuf,
                     packet, at, page, mine, stale, overtaken>>
  BY DEF Copy, Answered, poolVars, traces
<1>2. /\ s \in Sockets /\ rbuf[s] # NoUser
      /\ service'.at = "zero" /\ service'.slot = service.slot
      /\ service'.frame = service.frame
      /\ \A r \in Sockets : rbuf'[r] = IF r = s THEN NoUser ELSE rbuf[r]
  BY <1>1 DEF ServiceKnows, PopTypeOK, Fields, Transferring
<1>3. /\ \A r \in Sockets : ~Served(r) /\ (Served(r)' <=> r = s)
      /\ \A v \in Users : Receiving(v)' <=> Receiving(v)
  BY <1>1, <1>2 DEF Served, Receiving
<1>4. PopTypeOK' /\ Fields'
  <2>1. PopTypeOK'
    BY <1>1, <1>2 DEF PopTypeOK
  <2>2. Fields'
    BY <1>1 DEF Fields, ServicePlaces, Transferring
  <2>3. QED
    BY <2>1, <2>2
<1>5. PagesAtHand' /\ PoolCounted'
  BY <1>1 DEF PagesAtHand, PoolCounted
<1>6. ServiceKnows'
  BY <1>1, <1>2 DEF ServiceKnows, Resting, Transferring
<1> HIDE DEF s
<1>7. SocketsOwned' /\ SoleCaller'
  <2>1. SocketsOwned'
    BY <1>1, <1>2, <1>3 DEF SocketsOwned
  <2>2. \A u \in Users : mine[u] # NoSocket => mine[u] \in Sockets
    BY DEF Fields
  <2>3. SoleCaller'
    BY <1>1, <1>2, <2>2, NoneIsNone DEF SoleCaller
  <2>4. QED
    BY <2>1, <2>3
<1>8. CallsAnswered'
  <2> SUFFICES ASSUME NEW r \in Sockets PROVE Answers(r)' = Cardinality(Receivers(r))'
    BY DEF CallsAnswered
  <2>1. complete[r] \in Nat /\ Answers(r) = Cardinality(Receivers(r))
    BY ReceiversCounted DEF PopTypeOK, CallsAnswered
  <2>2. Receivers(r)' = Receivers(r)
    BY <1>1, <1>3 DEF Receivers
  <2>3. Answers(r)' = Answers(r)
    BY <1>1, <1>2, <1>3, <2>1 DEF Answers
  <2>4. QED
    BY <2>1, <2>2, <2>3
<1>9. ASSUME ~overtaken PROVE PopRest'
  <2> USE <1>9 DEF PopRest
  <2>1. \A i \in Slots : Live(i)' <=> Live(i)
    BY <1>1, <1>2 DEF Live, Spent
  <2>2. PagesOwned' /\ PacketsKnown' /\ MailBound'
    BY <1>1, <2>1 DEF PagesOwned, PacketsKnown, MailBound
  <2>3. MailSeen' /\ DiscardKnows'
    BY <1>2 DEF MailSeen, ServiceWillScan, DiscardKnows
  <2>4. QED
    BY <2>2, <2>3
<1>10. QED
  BY <1>1, <1>4, <1>5, <1>6, <1>7, <1>8, <1>9

\* Then the receiver's variables are taken out, which are those of the last caller:
\* if one thread alone uses the socket, it has not called again.
LEMMA PopZero == PopInv /\ Zero => PopInv'
<1> SUFFICES ASSUME PopInv, Zero PROVE PopInv'
  OBVIOUS
<1> USE DEF PopInv, PopCore
<1> DEFINE s == queue[service.slot].socket
<1>1. /\ service.at = "zero" /\ sender' = [sender EXCEPT ![s] = NoUser]
      /\ service' = [service EXCEPT !.at = "free"]
      /\ UNCHANGED <<reserved, freePages, port, rbuf, complete, queue, serviceSem, sendBuf,
                     packet, at, page, mine, stale, overtaken>>
  BY DEF Zero, poolVars, traces
<1>2. /\ s \in Sockets /\ Served(s)
      /\ service'.at = "free" /\ service'.slot = service.slot
      /\ service'.frame = service.frame
      /\ \A r \in Sockets : r # s => sender'[r] = sender[r]
  BY <1>1 DEF ServiceKnows, PopTypeOK, Fields, Transferring, Served
<1>3. /\ \A r \in Sockets : Served(r)' <=> Served(r)
      /\ \A v \in Users : Receiving(v)' <=> Receiving(v)
  BY <1>1, <1>2 DEF Served, Receiving
<1>4. PopTypeOK' /\ Fields'
  <2>1. PopTypeOK'
    BY <1>1, <1>2 DEF PopTypeOK
  <2>2. Fields'
    BY <1>1 DEF Fields, ServicePlaces, Transferring
  <2>3. QED
    BY <2>1, <2>2
<1>5. PagesAtHand' /\ PoolCounted' /\ ServiceKnows'
  BY <1>1, <1>2 DEF PagesAtHand, PoolCounted, ServiceKnows, Resting, Transferring
<1> HIDE DEF s
<1>6. SocketsOwned'
  <2>1. \A r \in Sockets : rbuf[r] # NoUser => rbuf[r] \in Users
    BY DEF PopTypeOK
  <2>2. QED
    BY <1>1, <1>3, <2>1 DEF SocketsOwned
<1>7. CallsAnswered'
  <2> SUFFICES ASSUME NEW r \in Sockets PROVE Answers(r)' = Cardinality(Receivers(r))'
    BY DEF CallsAnswered
  <2>1. Receivers(r)' = Receivers(r) /\ Answers(r)' = Answers(r)
    BY <1>1, <1>3 DEF Receivers, Answers
  <2>2. QED
    BY <2>1 DEF CallsAnswered
<1>8. SoleCaller'
  <2> SUFFICES ASSUME NEW u \in Users, mine[u] # NoSocket,
                      \A v \in Users \ {u} : mine[v] # mine[u], rbuf[mine[u]] = u
               PROVE  sender'[mine[u]] = u
    BY <1>1 DEF SoleCaller
  <2>1. mine[u] \in Sockets /\ rbuf[mine[u]] # NoUser
    BY NoneIsNone DEF Fields
  <2>2. mine[u] # s
    <3> SUFFICES ASSUME mine[u] = s PROVE FALSE
      OBVIOUS
    <3>1. Receivers(s) \subseteq {u} /\ IsFiniteSet({u}) /\ Cardinality({u}) = 1
      BY FS_Singleton DEF Receivers
    <3>2. Cardinality(Receivers(s)) <= 1
      BY <3>1, FS_Subset
    <3>3. complete[s] \in Nat /\ Answers(s) = Cardinality(Receivers(s))
      BY <1>2, ReceiversCounted DEF PopTypeOK, CallsAnswered
    <3>4. Answers(s) = 1 + 1 + complete[s]
      BY <1>2, <2>1 DEF Answers
    <3>5. QED
      BY <3>2, <3>3, <3>4
  <2>3. QED
    BY <1>2, <2>1, <2>2 DEF SoleCaller
<1>9. ASSUME ~overtaken PROVE PopRest'
  <2> USE <1>9 DEF PopRest
  <2>1. \A i \in Slots : Live(i)' <=> Live(i)
    BY <1>1, <1>2 DEF Live, Spent
  <2>2. PagesOwned' /\ PacketsKnown' /\ MailBound'
    BY <1>1, <2>1 DEF PagesOwned, PacketsKnown, MailBound
  <2>3. MailSeen' /\ DiscardKnows'
    BY <1>2 DEF MailSeen, ServiceWillScan, DiscardKnows
  <2>4. QED
    BY <2>2, <2>3
<1>10. QED
  BY <1>1, <1>4, <1>5, <1>6, <1>7, <1>8, <1>9

\* network_free_frame: the page was the slot's, and is no longer.
LEMMA PopServiceFree == PopInv /\ ServiceFree => PopInv'
<1> SUFFICES ASSUME PopInv, ServiceFree PROVE PopInv'
  OBVIOUS
<1> USE DEF PopInv, PopCore
<1> DEFINE i == service.slot
           p == service.frame
<1>1. /\ service.at \in {"discard", "free"} /\ FreePage(p)
      /\ packet' = [packet EXCEPT ![p] = ClosedPort]
      /\ service' = [service EXCEPT !.at = IF service.at = "free" THEN "wake" ELSE "clear"]
      /\ UNCHANGED <<port, rbuf, sender, complete, queue, serviceSem, sendBuf, at, page, mine,
                     stale, overtaken>>
  BY DEF ServiceFree, socketVars, traces
<1>2. /\ i \in Slots /\ queue[i].frame # NoPage
      /\ service'.at = IF service.at = "free" THEN "wake" ELSE "clear"
      /\ service'.slot = i
  BY <1>1 DEF ServiceKnows, Resting, Fields
<1>3. /\ reserved' = reserved \ {p} /\ PoolCounted' /\ freePages' \in 0 .. Cardinality(Pages)
      /\ p \in reserved \ StaticPages
  BY <1>1, PoolFree DEF PopTypeOK
<1>4. /\ \A q \in Pages : packet'[q] = IF q = p THEN ClosedPort ELSE packet[q]
      /\ \A r \in Sockets : Served(r)' <=> Served(r)
      /\ \A v \in Users : Receiving(v)' <=> Receiving(v)
  BY <1>1, <1>2 DEF Fields, Served, Receiving
<1>5. PopTypeOK' /\ Fields'
  <2>1. PopTypeOK'
    BY <1>1, <1>3 DEF PopTypeOK
  <2>2. Fields'
    BY <1>1 DEF Fields, ServicePlaces, Transferring
  <2>3. QED
    BY <2>1, <2>2
<1>6. ServiceKnows'
  BY <1>1, <1>2 DEF ServiceKnows, Resting, Transferring
<1> HIDE DEF i, p
<1>7. PagesAtHand'
  BY <1>1 DEF PagesAtHand
<1>8. SocketsOwned' /\ CallsAnswered' /\ SoleCaller'
  BY <1>1, <1>4, SocketsStay
<1>9. ASSUME ~overtaken PROVE PopRest'
  <2> USE <1>9 DEF PopRest
  <2>1. queue[i].frame = p /\ Live(i)
    BY <1>1, <1>2 DEF ServiceKnows, DiscardKnows, Live, Spent, i, p
  <2>2. /\ \A t \in Senders : page[t] # p /\ page[t] \in Pages
        /\ \A j \in Slots : queue[j].frame \in Pages
        /\ \A j \in Slots : Live(j) /\ j # i => queue[j].frame # p
    BY <1>2, <1>3, <2>1, NoneIsNone DEF PagesOwned, PopTypeOK
  <2>3. \A j \in Slots : Live(j)' <=> Live(j) /\ j # i
    BY <1>1, <1>2 DEF Live, Spent, i
  <2>4. PacketsKnown'
    <3>1. \A t \in Senders : at[t] = "send" => page[t] # NoPage
      BY DEF PagesAtHand
    <3>2. QED
      BY <1>1, <1>4, <2>2, <2>3, <3>1 DEF PacketsKnown
  <2>5. PagesOwned'
    <3>1. /\ \A t \in Senders : page'[t] # NoPage => page'[t] \in reserved'
          /\ \A s, t \in Senders : page'[s] = page'[t] /\ page'[s] # NoPage => s = t
      BY <1>1, <1>3, <2>2 DEF PagesOwned
    <3>2. /\ \A j \in Slots : Live(j)' => queue'[j].frame \in reserved'
          /\ \A t \in Senders, j \in Slots : Live(j)' => page'[t] # queue'[j].frame
          /\ \A j, k \in Slots :
                 Live(j)' /\ Live(k)' /\ queue'[j].frame = queue'[k].frame => j = k
      BY <1>1, <1>3, <2>2, <2>3 DEF PagesOwned
    <3>3. \A q \in reserved' \ StaticPages :
              \/ \E t \in Senders : page'[t] = q
              \/ \E j \in Slots : Live(j)' /\ queue'[j].frame = q
      BY <1>1, <1>3, <2>1, <2>3 DEF PagesOwned
    <3>4. QED
      BY <3>1, <3>2, <3>3 DEF PagesOwned
  <2>6. MailBound'
    BY <1>1, <1>4, <2>2, <2>3 DEF MailBound
  <2>7. MailSeen' /\ DiscardKnows'
    BY <1>2 DEF MailSeen, ServiceWillScan, DiscardKnows
  <2>8. QED
    BY <2>4, <2>5, <2>6, <2>7
<1>10. QED
  BY <1>1, <1>3, <1>5, <1>6, <1>7, <1>8, <1>9

\* A caller of socket_recvfrom is woken, one of as many as have an answer coming.
LEMMA PopWakeReceiver == PopInv /\ WakeReceiver => PopInv'
<1> SUFFICES ASSUME PopInv, WakeReceiver PROVE PopInv'
  OBVIOUS
<1> USE DEF PopInv, PopCore
<1> DEFINE s == queue[service.slot].socket
<1>1. /\ service.at = "wake" /\ complete' = [complete EXCEPT ![s] = @ + 1]
      /\ service' = [service EXCEPT !.at = "clear"]
      /\ UNCHANGED <<reserved, freePages, port, rbuf, sender, queue, serviceSem, sendBuf, packet,
                     at, page, mine, stale, overtaken>>
  BY DEF WakeReceiver, poolVars, traces
<1>2. s \in Sockets /\ port[s] # ClosedPort /\ Served(s)
  BY <1>1 DEF ServiceKnows, Served, Transferring
<1>3. complete[s] \in Nat /\ complete[s] + 1 \in 0 .. Cardinality(Users)
  <2>1. complete[s] \in 0 .. Cardinality(Users)
    BY <1>2 DEF PopTypeOK
  <2>2. /\ Cardinality(Users) \in Nat
        /\ Cardinality(Receivers(s)) \in 0 .. Cardinality(Users)
    BY ReceiversCounted
  <2>3. Answers(s) = Cardinality(Receivers(s))
    BY <1>2 DEF CallsAnswered
  <2>4. complete[s] + 1 <= Cardinality(Receivers(s))
    BY <1>2, <2>1, <2>2, <2>3 DEF Answers
  <2>5. QED
    BY <2>1, <2>2, <2>4
<1>4. /\ service'.at = "clear" /\ service'.slot = service.slot
      /\ \A r \in Sockets : complete'[r] = IF r = s THEN complete[s] + 1 ELSE complete[r]
  BY <1>1, <1>2 DEF Fields, PopTypeOK
<1>5. /\ \A r \in Sockets : ~Served(r)' /\ (Served(r) <=> r = s)
      /\ \A v \in Users : Receiving(v)' <=> Receiving(v)
  BY <1>1, <1>4 DEF Served, Receiving
<1>6. PopTypeOK' /\ Fields'
  <2>1. complete' \in [Sockets -> 0 .. Cardinality(Users)]
    BY <1>1, <1>3 DEF PopTypeOK
  <2>2. PopTypeOK'
    BY <1>1, <2>1 DEF PopTypeOK
  <2>3. Fields'
    BY <1>1 DEF Fields, ServicePlaces
  <2>4. QED
    BY <2>2, <2>3
<1>7. PagesAtHand' /\ PoolCounted' /\ ServiceKnows'
  BY <1>1, <1>4 DEF PagesAtHand, PoolCounted, ServiceKnows, Resting, Transferring
<1> HIDE DEF s
<1>8. SocketsOwned' /\ SoleCaller'
  <2>1. \A r \in Sockets : rbuf[r] # NoUser => rbuf[r] \in Users
    BY DEF PopTypeOK
  <2>2. SocketsOwned'
    BY <1>1, <1>2, <1>4, <1>5, <2>1 DEF SocketsOwned
  <2>3. SoleCaller'
    BY <1>1 DEF SoleCaller
  <2>4. QED
    BY <2>2, <2>3
<1>9. CallsAnswered'
  <2> SUFFICES ASSUME NEW r \in Sockets PROVE Answers(r)' = Cardinality(Receivers(r))'
    BY DEF CallsAnswered
  <2>1. complete[r] \in Nat /\ Answers(r) = Cardinality(Receivers(r))
    BY ReceiversCounted DEF PopTypeOK, CallsAnswered
  <2>2. Receivers(r)' = Receivers(r)
    BY <1>1, <1>5 DEF Receivers
  <2>3. Answers(r)' = Answers(r)
    BY <1>1, <1>4, <1>5, <2>1 DEF Answers
  <2>4. QED
    BY <2>1, <2>2, <2>3
<1>10. ASSUME ~overtaken PROVE PopRest'
  <2> USE <1>10 DEF PopRest
  <2>1. \A i \in Slots : Live(i)' <=> Live(i)
    BY <1>1, <1>4 DEF Live, Spent
  <2>2. PagesOwned' /\ PacketsKnown' /\ MailBound'
    BY <1>1, <2>1 DEF PagesOwned, PacketsKnown, MailBound
  <2>3. MailSeen' /\ DiscardKnows'
    BY <1>4 DEF MailSeen, ServiceWillScan, DiscardKnows
  <2>4. QED
    BY <2>2, <2>3
<1>11. QED
  BY <1>1, <1>6, <1>7, <1>8, <1>9, <1>10

\* The slot of a frame that has been freed is free.
LEMMA PopClearSlot == PopInv /\ ClearSlot => PopInv'
<1> SUFFICES ASSUME PopInv, ClearSlot PROVE PopInv'
  OBVIOUS
<1> USE DEF PopInv, PopCore
<1> DEFINE i == service.slot
<1>1. /\ service.at = "clear" /\ queue' = [queue EXCEPT ![i] = EmptySlot]
      /\ service' = [at |-> "scan", slot |-> NoSlot, frame |-> NoPage]
      /\ UNCHANGED <<reserved, freePages, port, rbuf, sender, complete, serviceSem, sendBuf, packet,
                     at, page, mine, stale, overtaken>>
  BY DEF ClearSlot, Idle, poolVars, socketVars, traces
<1>2. i \in Slots
  BY <1>1 DEF ServiceKnows, Resting
<1>3. /\ \A j \in Slots : queue'[j] = IF j = i THEN EmptySlot ELSE queue[j]
      /\ \A r \in Sockets : Served(r)' <=> Served(r)
      /\ \A v \in Users : Receiving(v)' <=> Receiving(v)
  BY <1>1, <1>2 DEF PopTypeOK, Served, Receiving
<1>4. PopTypeOK' /\ Fields'
  <2>1. PopTypeOK'
    BY <1>1 DEF PopTypeOK, EmptySlot
  <2>2. Fields'
    BY <1>1, NoneIsNone DEF Fields, ServicePlaces, Resting
  <2>3. QED
    BY <2>1, <2>2
<1>5. ServiceKnows'
  <2>1. \A j \in Slots : /\ ~queue'[j].busy
                         /\ queue'[j].frame = NoPage => queue'[j] = EmptySlot
    <3> SUFFICES ASSUME NEW j \in Slots
                 PROVE  /\ ~queue'[j].busy
                        /\ queue'[j].frame = NoPage => queue'[j] = EmptySlot
      OBVIOUS
    <3>1. CASE j = i
      BY <1>3, <3>1, EmptySlotIsEmpty
    <3>2. CASE j # i
      BY <1>3, <3>2 DEF ServiceKnows
    <3>3. QED
      BY <3>1, <3>2
  <2>2. QED
    BY <1>1, <2>1 DEF ServiceKnows, Resting, Transferring
<1>6. PagesAtHand' /\ PoolCounted'
  BY <1>1 DEF PagesAtHand, PoolCounted
<1>7. SocketsOwned' /\ CallsAnswered' /\ SoleCaller'
  BY <1>1, <1>3, SocketsStay
<1>8. ASSUME ~overtaken PROVE PopRest'
  <2> USE <1>8 DEF PopRest
  <2>1. /\ ~Live(i)
        /\ \A j \in Slots : Live(j)' <=> Live(j)
    <3>1. \A j \in Slots : ~Spent(j)' /\ (j = i => ~Live(j)')
      BY <1>1, <1>3, EmptySlotIsEmpty DEF Live, Spent
    <3>2. /\ Spent(i)
          /\ \A j \in Slots : j # i => ~Spent(j)
      BY <1>1 DEF Spent
    <3>3. QED
      BY <1>3, <3>1, <3>2 DEF Live
  <2> HIDE DEF i
  <2>2. PagesOwned' /\ PacketsKnown' /\ MailBound'
    BY <1>1, <1>3, <2>1 DEF PagesOwned, PacketsKnown, MailBound
  <2>3. MailSeen' /\ DiscardKnows'
    BY <1>1 DEF MailSeen, ServiceWillScan, DiscardKnows
  <2>4. QED
    BY <2>2, <2>3
<1>9. QED
  BY <1>1, <1>4, <1>5, <1>6, <1>7, <1>8

-----------------------------------------------------------------------------
LEMMA PopStep == PopInv /\ [Next]_vars => PopInv'
<1> SUFFICES ASSUME PopInv, [Next]_vars PROVE PopInv'
  OBVIOUS
<1>1. ASSUME NEW t \in Senders, Push_(t) PROVE PopInv'
  BY <1>1, PopPush, PopPushSignal DEF Push_
<1>2. ASSUME NEW u \in Users, User(u) PROVE PopInv'
  <2>1. ASSUME SendOut(u) PROVE PopInv'
    BY <2>1, PopFreeFrame DEF SendOut
  <2>2. ASSUME NEW n \in Ports, Open(u, n) \/ Send(u, n) PROVE PopInv'
    BY <2>2, PopOpen, PopSend
  <2>3. ASSUME NEW v \in Users, Share(u, v) PROVE PopInv'
    BY <2>3, PopShare
  <2>4. ASSUME Close(u) \/ Receive(u) \/ ReceiveSignal(u) \/ ReceiveDone(u) PROVE PopInv'
    BY <2>4, PopClose, PopReceive, PopReceiveSignal, PopReceiveDone
  <2>5. QED
    BY <1>1, <1>2, <2>1, <2>2, <2>3, <2>4, NoneIsNone DEF User
<1>3. ASSUME Service PROVE PopInv'
  BY <1>3, PopScan, PopWake, PopCopy, PopZero, PopServiceFree, PopWakeReceiver, PopClearSlot
  DEF Service
<1>4. CASE UNCHANGED vars
  BY <1>4
  DEF vars, poolVars, socketVars, traces, PopInv, PopCore, PopRest, PopTypeOK, Fields,
      PagesAtHand, PagesOwned, PoolCounted, PacketsKnown, ServiceKnows, SocketsOwned,
      CallsAnswered, SoleCaller, DiscardKnows, MailBound, MailSeen, Live, Spent, Served,
      Receiving, Receivers, Answers, Fits, ServiceWillScan
<1>5. CASE Next
  BY <1>1, <1>2, <1>3, <1>5, PopReceivePage, PopFrameArrives, NoneIsNone DEF Next
<1>6. QED
  BY <1>4, <1>5

LEMMA PopInvariance == Spec => []PopInv
<1>1. PopInv /\ [Next]_vars => PopInv'
  BY PopStep
<1>2. QED
  BY <1>1, PopInit, PTL DEF Spec

-----------------------------------------------------------------------------
\* The sockets, the queue and the senders keep their types, and receive_complete
\* never exceeds the number of callers (pop.c:169-218, 463-480).
THEOREM PopTypeCorrect == Spec => []PopTypeOK
<1>1. PopInv => PopTypeOK
  BY DEF PopInv, PopCore
<1>2. QED
  BY <1>1, PopInvariance, PTL

\* Until pop_push_frame replaces a frame that pop_service_thread is discarding (which
\* it may, pop.c:314-344 and 438-440), every page in use has one holder and every other
\* one none, and what the service thread frees is in use: each frame is freed exactly
\* once, wherever its way through network_send, pop_push_frame and pop_service_thread
\* ends.  The pool has counted right in any case.
THEOREM PagesHeldOnceAlways == Spec => []PagesHeldOnce
<1>1. ASSUME PopInv, ~overtaken PROVE FreesReservedPages
  <2> USE <1>1 DEF PopInv, PopCore, PopRest
  <2> SUFFICES ASSUME service.at \in {"discard", "free"} PROVE service.frame \in reserved
    BY DEF FreesReservedPages
  <2>1. service.slot \in Slots /\ Live(service.slot)
    BY DEF ServiceKnows, Resting, Live, Spent
  <2>2. service.frame = queue[service.slot].frame
    BY DEF ServiceKnows, DiscardKnows
  <2>3. QED
    BY <2>1, <2>2 DEF PagesOwned
<1>2. ASSUME PopInv, ~overtaken, NEW p \in Pages \ StaticPages
      PROVE  Cardinality(Holders(p)) = IF p \in reserved THEN 1 ELSE 0
  <2> USE <1>2 DEF PopInv, PopRest
  <2> DEFINE senders == {t \in Senders : page[t] = p}
             slots == {i \in Slots : queue[i].frame = p /\ ~Spent(i)}
  <2>1. p # NoPage /\ Holders(p) = senders \cup slots
    BY NoneIsNone DEF Holders
  <2>2. \A i \in Slots : i \in slots <=> Live(i) /\ queue[i].frame = p
    BY <2>1 DEF Live
  <2>3. CASE p \notin reserved
    <3>1. senders = {} /\ slots = {}
      BY <2>1, <2>2, <2>3 DEF PagesOwned
    <3>2. QED
      BY <2>1, <2>3, <3>1, FS_EmptySet
  <2>4. CASE p \in reserved
    <3>1. CASE \E t \in Senders : page[t] = p
      <4>1. PICK t \in Senders : page[t] = p
        BY <3>1
      <4>2. senders = {t}
        BY <2>1, <4>1 DEF PagesOwned
      <4>3. slots = {}
        BY <2>2, <4>1 DEF PagesOwned
      <4>4. Holders(p) = {t}
        BY <2>1, <4>2, <4>3
      <4>5. QED
        BY <2>4, <4>4, FS_Singleton
    <3>2. CASE ~\E t \in Senders : page[t] = p
      <4>1. PICK i \in Slots : Live(i) /\ queue[i].frame = p
        BY <2>4, <3>2 DEF PagesOwned
      <4>2. senders = {}
        BY <3>2
      <4>3. slots = {i}
        BY <2>2, <4>1 DEF PagesOwned
      <4>4. Holders(p) = {i}
        BY <2>1, <4>2, <4>3
      <4>5. QED
        BY <2>4, <4>4, FS_Singleton
    <3>3. QED
      BY <3>1, <3>2
  <2>5. QED
    BY <2>3, <2>4
<1>3. PopInv => PagesHeldOnce
  BY <1>1, <1>2 DEF PagesHeldOnce, PopInv, PopCore, PoolCounted
<1>4. QED
  BY <1>3, PopInvariance, PTL

\* However many threads call socket_recvfrom on a socket, as many answers are under way
\* for it (a buffer that is announced, one that is being filled, a count of
\* receive_complete) as callers wait; and where one thread alone uses it, what is in
\* the socket is that thread's (pop.c:169-218, 446-480).
THEOREM OneAnswerPerReceiveAlways == Spec => []OneAnswerPerReceive
<1>1. PopInv => OneAnswerPerReceive
  <2> SUFFICES ASSUME PopInv, NEW u \in Users, mine[u] # NoSocket
               PROVE  /\ Answers(mine[u]) = Cardinality(Receivers(mine[u]))
                      /\ (\A v \in Users \ {u} : mine[v] # mine[u]) =>
                             /\ rbuf[mine[u]] \in {NoUser, u}
                             /\ rbuf[mine[u]] = u => sender[mine[u]] = u
    BY DEF OneAnswerPerReceive
  <2> USE DEF PopInv, PopCore
  <2>1. mine[u] \in Sockets
    BY DEF Fields
  <2>2. Answers(mine[u]) = Cardinality(Receivers(mine[u]))
    BY <2>1 DEF CallsAnswered
  <2>3. ASSUME \A v \in Users \ {u} : mine[v] # mine[u]
        PROVE  /\ rbuf[mine[u]] \in {NoUser, u}
               /\ rbuf[mine[u]] = u => sender[mine[u]] = u
    <3>1. rbuf[mine[u]] \in Users \cup {NoUser}
      BY <2>1 DEF PopTypeOK
    <3>2. rbuf[mine[u]] \in {NoUser, u}
      BY <2>1, <2>3, <3>1 DEF SocketsOwned
    <3>3. rbuf[mine[u]] = u => sender[mine[u]] = u
      BY <2>3 DEF SoleCaller
    <3>4. QED
      BY <3>2, <3>3
  <2>4. QED
    BY <2>2, <2>3
<1>2. QED
  BY <1>1, PopInvariance, PTL

\* No wake-up is lost: the service thread does not sleep on a frame for a socket in which
\* a buffer is announced, unless a signal is there or on its way (pop.c:210-212, 353-357,
\* 482-488).
THEOREM NoMailForgottenAlways == Spec => []NoMailForgotten
<1>1. PopInv => NoMailForgotten
  <2> SUFFICES ASSUME PopInv, ~overtaken, NEW s \in Awaited, NEW i \in Slots,
                      queue[i].frame # NoPage, SocketOf(i) = s, ~ServiceWillScan
               PROVE  FALSE
    BY DEF NoMailForgotten
  <2> USE DEF PopInv, PopCore, PopRest
  <2>1. s \in Sockets /\ port[s] # ClosedPort /\ rbuf[s] # NoUser
    BY DEF Awaited, OpenSockets
  <2>2. Fits(i, s)
    BY <2>1, SocketFound, NoneIsNone
  <2>3. QED
    BY <2>1, <2>2 DEF MailSeen
<1>2. QED
  BY <1>1, PopInvariance, PTL

\* A packet is copied to the socket of its port, unless the socket was closed and
\* opened again while the frame, which keeps the socket's index, was in the queue
\* (pop.c:395-426), or a frame has been replaced while it was discarded.
THEOREM MailReachesItsPortAlways == Spec => []MailReachesItsPort
<1>1. PopInv => MailReachesItsPort
  <2> SUFFICES ASSUME PopInv, service.at = "copy", ~overtaken, service.slot \notin stale
               PROVE  port[queue[service.slot].socket] = packet[queue[service.slot].frame]
    BY DEF MailReachesItsPort
  <2> USE DEF PopInv, PopCore, PopRest
  <2>1. /\ service.slot \in Slots /\ Live(service.slot)
        /\ queue[service.slot].socket \in Sockets
        /\ port[queue[service.slot].socket] # ClosedPort
    BY DEF ServiceKnows, Resting, Transferring, Live, Spent
  <2>2. QED
    BY <2>1, NoneIsNone DEF MailBound
<1>2. QED
  BY <1>1, PopInvariance, PTL
=============================================================================
