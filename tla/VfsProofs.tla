------------------------------ MODULE VfsProofs ------------------------------
(***************************************************************************)
(* Proofs about module Vfs, for any number of threads, names, handles,     *)
(* blocks, calls and faults.                                               *)
(***************************************************************************)
EXTENDS Vfs, FiniteSetTheorems, WellFoundedInduction, TLAPS

-----------------------------------------------------------------------------
\* The operators of tfs.c's searches.

\* A set of natural numbers that is not empty has a least element, and so, if it is
\* bounded, a greatest.
LEMMA LeastIsIn ==
    ASSUME NEW S \in SUBSET Nat, S # {}
    PROVE  Least(S) \in S /\ \A y \in S : Least(S) <= y
<1> DEFINE R == {p \in Nat \X Nat : p[1] < p[2]}
<1>1. IsWellFoundedOn(R, Nat)
  BY NatLessThanWellFounded DEF OpToRel
<1>2. PICK k \in S : \A i \in S : ~(<<i, k>> \in R)
  <2> HIDE DEF R
  <2>1. QED BY <1>1, WFMin
<1>3. \A y \in S : k <= y
  <2>1. ASSUME NEW y \in S PROVE k <= y
    <3>1. y \in Nat /\ k \in Nat /\ ~(<<y, k>> \in R)
      BY <1>2
    <3>2. <<y, k>> \in R <=> y < k
      BY <3>1
    <3>3. QED BY <3>1, <3>2
  <2>2. QED BY <2>1
<1>4. QED
  BY <1>3 DEF Least

LEMMA GreatestIsIn ==
    ASSUME NEW n \in Nat, NEW S \in SUBSET (0 .. n), S # {}
    PROVE  Greatest(S) \in S
<1> DEFINE T == {n - y : y \in S}
<1>1. T \in SUBSET Nat /\ T # {}
  <2>1. \A y \in S : n - y \in Nat
    OBVIOUS
  <2>2. QED BY <2>1
<1>2. Least(T) \in T /\ \A y \in T : Least(T) <= y
  <2> HIDE DEF T
  <2>1. QED BY <1>1, LeastIsIn
<1>3. PICK x \in S : Least(T) = n - x
  BY <1>2
<1>4. \A y \in S : y <= x
  <2>1. ASSUME NEW y \in S PROVE y <= x
    <3>1. n - x <= n - y
      BY <1>2, <1>3
    <3>2. QED BY <3>1
  <2>2. QED BY <2>1
<1>5. QED
  BY <1>4 DEF Greatest

\* Induction up to n: from the least element of a set of natural numbers.
LEMMA SetInduction ==
    ASSUME NEW n \in Nat, NEW S, 0 \in S, \A i \in 0 .. n - 1 : i \in S => i + 1 \in S
    PROVE  \A i \in 0 .. n : i \in S
<1> DEFINE T == {i \in 0 .. n : i \notin S}
<1>1. ASSUME T # {} PROVE FALSE
  <2>1. T \in SUBSET Nat
    OBVIOUS
  <2>2. PICK k \in T : \A y \in T : k <= y
    <3> HIDE DEF T
    <3>1. QED BY <1>1, <2>1, LeastIsIn
  <2>3. k - 1 \in 0 .. n - 1 /\ k - 1 \in S
    BY <2>2
  <2>4. QED
    BY <2>2, <2>3
<1>2. QED
  BY <1>1

LEMMA BlocksForIsNat == ASSUME NEW n \in Nat PROVE BlocksFor(n) \in Nat
<1>1. n + BlockSize - 1 \in Nat /\ BlockSize \in Nat /\ BlockSize > 0
  BY TfsAssumption
<1> DEFINE m == n + BlockSize - 1
<1>2. m \div BlockSize \in Nat
  <2> HIDE DEF m
  <2>1. m \in Nat
    BY <1>1 DEF m
  <2>2. QED BY <1>1, <2>1
<1>3. QED
  BY <1>2 DEF BlocksFor

\* A sequence of the elements of S, each at most once.
Distinct(q, S) ==
    q \in Seq(S) /\ \A i, j \in 1 .. Len(q) : q[i] = q[j] => i = j

LEMMA DistinctAppend ==
    ASSUME NEW S, NEW q, Distinct(q, S), NEW x \in S \ ToSet(q)
    PROVE  Distinct(Append(q, x), S) /\ Len(Append(q, x)) = Len(q) + 1
<1>1. q \in Seq(S) /\ Len(q) \in Nat
  BY DEF Distinct
<1>2. Append(q, x) \in Seq(S) /\ Len(Append(q, x)) = Len(q) + 1
  BY <1>1
<1>3. \A i \in 1 .. Len(q) + 1 : Append(q, x)[i] = IF i = Len(q) + 1 THEN x ELSE q[i]
  BY <1>1
<1>4. \A i \in 1 .. Len(q) : q[i] # x
  BY <1>1 DEF ToSet
<1>5. ASSUME NEW i \in 1 .. Len(q) + 1, NEW j \in 1 .. Len(q) + 1,
             Append(q, x)[i] = Append(q, x)[j]
      PROVE  i = j
  <2>1. CASE i = Len(q) + 1 /\ j = Len(q) + 1
    BY <2>1
  <2>2. CASE i # Len(q) + 1 /\ j = Len(q) + 1
    <3>1. i \in 1 .. Len(q)
      BY <1>1, <2>2
    <3>2. QED BY <1>3, <1>4, <1>5, <2>2, <3>1
  <2>3. CASE i = Len(q) + 1 /\ j # Len(q) + 1
    <3>1. j \in 1 .. Len(q)
      BY <1>1, <2>3
    <3>2. QED BY <1>3, <1>4, <1>5, <2>3, <3>1
  <2>4. CASE i # Len(q) + 1 /\ j # Len(q) + 1
    <3>1. i \in 1 .. Len(q) /\ j \in 1 .. Len(q)
      BY <1>1, <2>4
    <3>2. q[i] = q[j]
      BY <1>3, <1>5, <2>4
    <3>3. QED BY <3>1, <3>2 DEF Distinct
  <2>5. QED BY <2>1, <2>2, <2>3, <2>4
<1>6. QED
  BY <1>2, <1>5 DEF Distinct

\* One call of bitmap_findnset, and n of them.
NextFound(b, q) ==
    LET free == Blocks \ (b \cup ToSet(q))
    IN IF free = {} THEN q ELSE Append(q, Least(free))

LEMMA NextFoundDistinct ==
    ASSUME NEW b, NEW q, Distinct(q, Blocks \ b)
    PROVE  /\ Distinct(NextFound(b, q), Blocks \ b)
           /\ Len(NextFound(b, q)) \in {Len(q), Len(q) + 1}
<1> DEFINE free == Blocks \ (b \cup ToSet(q))
<1>1. CASE free = {}
  BY <1>1 DEF NextFound
<1>2. CASE free # {}
  <2>1. free \in SUBSET Nat
    BY TfsAssumption DEF Blocks
  <2>2. NextFound(b, q) = Append(q, Least(free))
    BY <1>2 DEF NextFound
  <2>3. Least(free) \in free
    <3> HIDE DEF free
    <3>1. QED BY <1>2, <2>1, LeastIsIn
  <2> DEFINE x == Least(free)
  <2>4. x \in (Blocks \ b) \ ToSet(q)
    BY <2>3
  <2> HIDE DEF x
  <2>5. Distinct(Append(q, x), Blocks \ b) /\ Len(Append(q, x)) = Len(q) + 1
    BY <2>4, DistinctAppend
  <2>6. QED BY <2>2, <2>5 DEF x
<1>3. QED
  BY <1>1, <1>2

\* What is found is free, and found once.
LEMMA FoundDistinct ==
    ASSUME NEW b, NEW n \in Nat
    PROVE  Distinct(FindAndSet(b, n), Blocks \ b) /\ Len(FindAndSet(b, n)) <= n
<1> DEFINE S == Blocks \ b
           sound(k, q) == Distinct(q, S) /\ Len(q) <= k
           partial(k, f) == /\ f \in [0 .. k -> Seq(S)]
                            /\ f[0] = <<>>
                            /\ \A i \in 1 .. k : f[i] = NextFound(b, f[i - 1])
                            /\ \A i \in 0 .. k : sound(i, f[i])
           K == {k \in 0 .. n : \E f : partial(k, f)}
           body(f) == [k \in 0 .. n |->
                          IF k = 0 THEN <<>>
                          ELSE LET free == Blocks \ (b \cup ToSet(f[k - 1]))
                               IN IF free = {} THEN f[k - 1] ELSE Append(f[k - 1], Least(free))]
           found == CHOOSE f : f = body(f)
<1>1. \A k \in Nat : \A q : sound(k, q) => sound(k + 1, NextFound(b, q)) /\ NextFound(b, q) \in Seq(S)
  <2>1. ASSUME NEW k \in Nat, NEW q, sound(k, q)
        PROVE  sound(k + 1, NextFound(b, q)) /\ NextFound(b, q) \in Seq(S)
    <3>1. Len(q) \in Nat
      BY <2>1 DEF Distinct
    <3>2. Distinct(NextFound(b, q), S) /\ Len(NextFound(b, q)) \in {Len(q), Len(q) + 1}
      BY <2>1, NextFoundDistinct
    <3>3. QED BY <2>1, <3>1, <3>2 DEF Distinct
  <2>2. QED BY <2>1
<1>2. 0 \in K
  <2>1. sound(0, <<>>)
    BY DEF Distinct
  <2>2. partial(0, [i \in 0 .. 0 |-> <<>>])
    <3> HIDE DEF sound
    <3>1. QED BY <2>1
  <2> HIDE DEF partial
  <2>3. QED BY <2>2
<1> HIDE DEF sound
<1>3. ASSUME NEW k \in 0 .. n - 1, k \in K PROVE k + 1 \in K
  <2>1. PICK f : partial(k, f)
    BY <1>3
  <2> DEFINE last == NextFound(b, f[k])
             g == [i \in 0 .. k + 1 |-> IF i = k + 1 THEN last ELSE f[i]]
  <2>2. sound(k + 1, last) /\ last \in Seq(S)
    BY <1>1, <2>1
  <2>3. g \in [0 .. k + 1 -> Seq(S)] /\ g[0] = <<>>
    <3> HIDE DEF last
    <3>1. QED BY <2>1, <2>2
  <2>4. \A i \in 1 .. k + 1 : g[i] = NextFound(b, g[i - 1])
    <3>1. ASSUME NEW i \in 1 .. k + 1 PROVE g[i] = NextFound(b, g[i - 1])
      <4>1. g[i - 1] = f[i - 1]
        OBVIOUS
      <4>2. CASE i = k + 1
        BY <4>1, <4>2
      <4>3. CASE i # k + 1
        BY <2>1, <4>1, <4>3
      <4>4. QED BY <4>2, <4>3
    <3>2. QED BY <3>1
  <2>5. \A i \in 0 .. k + 1 : sound(i, g[i])
    <3> HIDE DEF last
    <3>1. QED BY <2>1, <2>2
  <2>6. partial(k + 1, g)
    <3> HIDE DEF g
    <3>1. QED BY <2>3, <2>4, <2>5
  <2> HIDE DEF partial
  <2>7. QED BY <2>6
<1>4. n \in K
  <2> HIDE DEF K
  <2>1. \A i \in 0 .. n : i \in K
    BY <1>2, <1>3, SetInduction
  <2>2. QED BY <2>1
<1>5. PICK f : partial(n, f)
  BY <1>4
<1>6. f = body(f)
  <2>1. f = [i \in 0 .. n |-> f[i]]
    BY <1>5
  <2>2. ASSUME NEW i \in 0 .. n PROVE f[i] = body(f)[i]
    <3>1. CASE i = 0
      BY <1>5, <3>1
    <3>2. CASE i # 0
      <4>1. f[i] = NextFound(b, f[i - 1])
        BY <1>5, <3>2
      <4>2. body(f)[i] = NextFound(b, f[i - 1])
        BY <3>2 DEF NextFound
      <4>3. QED BY <4>1, <4>2
    <3>3. QED BY <3>1, <3>2
  <2>3. QED BY <2>1, <2>2
<1>7. found = body(found)
  <2> HIDE DEF body
  <2>1. QED BY <1>6
<1>8. FindAndSet(b, n) = found[n]
  BY DEF FindAndSet
<1> HIDE DEF found
<1>9. found[0] = <<>> /\ \A i \in 1 .. n : found[i] = NextFound(b, found[i - 1])
  <2>1. \A g : \A i \in 0 .. n : body(g)[i] = IF i = 0 THEN <<>> ELSE NextFound(b, g[i - 1])
    BY DEF NextFound
  <2> HIDE DEF body
  <2>2. \A i \in 0 .. n : found[i] = IF i = 0 THEN <<>> ELSE NextFound(b, found[i - 1])
    BY <1>7, <2>1
  <2>3. QED BY <2>2
<1>10. \A i \in 0 .. n : found[i] = f[i]
  <2> DEFINE U == {i \in 0 .. n : found[i] = f[i]}
  <2>1. 0 \in U /\ \A i \in 0 .. n - 1 : i \in U => i + 1 \in U
    BY <1>5, <1>9
  <2> HIDE DEF U
  <2>2. \A i \in 0 .. n : i \in U
    BY <2>1, SetInduction
  <2>3. QED BY <2>2 DEF U
<1>11. sound(n, found[n])
  BY <1>5, <1>10
<1>12. QED
  BY <1>8, <1>11 DEF sound

-----------------------------------------------------------------------------
\* The filesystem is unmounted only when it is quiet.  Of the records only their shape
\* matters here, and who holds which semaphore and which entry of the open file table.
Ops == {"none", "mount", "unmount", "open", "close", "seek", "read", "write", "create",
        "remove", "getfree"}
CallFields == {"op", "name", "arg", "handle", "k"}

Shapes ==
    /\ DOMAIN at = Threads
    /\ DOMAIN call = Threads
    /\ \A t \in Threads : DOMAIN call[t] = CallFields
    /\ DOMAIN files = Handles
    /\ \A h \in Handles :
           DOMAIN files[h] = {"open", "fileid", "seek"} /\ files[h].open \in BOOLEAN
    /\ DOMAIN handle = Handles
    /\ \A h \in Handles : DOMAIN handle[h] = {"user", "name", "removed"}

\* vfs_ops counts the threads between vfs_start_op and vfs_end_op.
Inside == {t \in Threads : at[t] # "idle"}
Counted == IsFiniteSet(Inside) /\ ops = Cardinality(Inside)

\* vfs_deinit waits for a signal exactly as long as there are operations to give it, and
\* goes on when there are none.
HaltWaits ==
    /\ halting \in {"no", "wait", "again", "table", "files", "unmount", "done"}
    /\ usable = (halting = "no")
    /\ halting = "no" => unmountSem = 0
    /\ halting = "wait" => unmountSem = IF ops = 0 THEN 1 ELSE 0
    /\ halting \notin {"no", "wait"} => ops = 0 /\ unmountSem = 0

\* Thread t is in a call that has an entry of the open file table.
Using(t) ==
    /\ at[t] \in TfsPlaces \cup {"files", "give_up", "advance"}
    /\ call[t].op \in {"open", "read", "write", "close", "seek"}
    /\ ~(at[t] = "files" /\ call[t].op = "open")

\* What is done where, and under whose mount table.
PlaceHeld(t) ==
    /\ at[t] = "table" =>
           call[t].op \in {"mount", "unmount", "open", "create", "remove", "getfree"}
    /\ at[t] = "files" =>
           \/ call[t].op \in {"unmount", "open"} /\ tableSem = t
           \/ call[t].op \in {"close", "seek"}
    /\ at[t] \in TfsPlaces =>
           \/ call[t].op \in {"create", "remove", "getfree"} /\ tableSem = t /\ mounted
           \/ call[t].op \in {"open", "read", "write"}
    /\ at[t] \in {"tfs_opened", "give_up"} => call[t].op = "open"
    /\ at[t] = "advance" => call[t].op \in {"read", "write"}
    /\ at[t] = "unlock" => tableSem = t
    /\ at[t] = "unmount" =>
           tableSem = t /\ fileSem = t /\ \A h \in Handles : ~files[h].open

PlacesHeld == \A t \in Threads : PlaceHeld(t)

\* An entry in use is open, and has one user; entries that are known to a program are
\* open; and a volume with open entries is mounted until the halt has unmounted it.
HandlesHeld ==
    /\ \A t \in Threads : Using(t) => call[t].handle \in Handles /\ files[call[t].handle].open
    /\ \A t, u \in Threads : Using(t) /\ Using(u) /\ call[t].handle = call[u].handle => t = u
    /\ \A h \in Handles : handle[h].user # NoThread => files[h].open
    /\ \A h \in Handles : files[h].open => mounted \/ halting = "done"

QuietInv == Shapes /\ Counted /\ HaltWaits /\ PlacesHeld /\ HandlesHeld

-----------------------------------------------------------------------------
\* After a boot nothing is in flight.
LEMMA QuietBoot ==
    ASSUME Booted(fsLock, dirbuf, buf, at, call, mounted, named, files, tableSem, fileSem,
                  usable, ops, unmountSem, halting, handle)
    PROVE  QuietInv
<1>1. /\ at = [t \in Threads |-> "idle"] /\ call = [t \in Threads |-> NoCall]
      /\ files = [h \in Handles |-> ClosedFile] /\ handle = [h \in Handles |-> NotInUse]
      /\ usable = TRUE /\ ops = 0 /\ unmountSem = 0 /\ halting = "no"
  BY DEF Booted
<1>2. Shapes
  BY <1>1 DEF Shapes, NoCall, ClosedFile, NotInUse, CallFields
<1>3. Inside = {}
  BY <1>1 DEF Inside
<1>4. Counted
  BY <1>1, <1>3, FS_EmptySet DEF Counted
<1>5. HaltWaits
  BY <1>1 DEF HaltWaits
<1>6. \A t \in Threads : at[t] = "idle"
  BY <1>1
<1>7. PlacesHeld
  BY <1>6 DEF PlacesHeld, PlaceHeld, TfsPlaces, WritePlaces
<1>8. HandlesHeld
  BY <1>1, <1>6 DEF HandlesHeld, Using, TfsPlaces, WritePlaces, NotInUse, ClosedFile
<1>9. QED
  BY <1>2, <1>4, <1>5, <1>7, <1>8 DEF QuietInv

LEMMA QuietReboot ==
    ASSUME Booted(fsLock', dirbuf', buf', at', call', mounted', named', files', tableSem',
                  fileSem', usable', ops', unmountSem', halting', handle')
    PROVE  QuietInv'
<1>1. /\ at' = [t \in Threads |-> "idle"] /\ call' = [t \in Threads |-> NoCall]
      /\ files' = [h \in Handles |-> ClosedFile] /\ handle' = [h \in Handles |-> NotInUse]
      /\ usable' = TRUE /\ ops' = 0 /\ unmountSem' = 0 /\ halting' = "no"
  BY DEF Booted
<1>2. Shapes'
  BY <1>1 DEF Shapes, NoCall, ClosedFile, NotInUse, CallFields
<1>3. Inside' = {}
  BY <1>1 DEF Inside
<1>4. Counted'
  BY <1>1, <1>3, FS_EmptySet DEF Counted
<1>5. HaltWaits'
  BY <1>1 DEF HaltWaits
<1>6. \A t \in Threads : at'[t] = "idle"
  BY <1>1
<1>7. PlacesHeld'
  BY <1>6 DEF PlacesHeld, PlaceHeld, TfsPlaces, WritePlaces
<1>8. HandlesHeld'
  BY <1>1, <1>6 DEF HandlesHeld, Using, TfsPlaces, WritePlaces, NotInUse, ClosedFile
<1>9. QED
  BY <1>2, <1>4, <1>5, <1>7, <1>8 DEF QuietInv

-----------------------------------------------------------------------------
\* The steps of the filesystem, as far as this invariant sees them.
CallSet(t, a, k) ==
    /\ DOMAIN call' = Threads
    /\ \A u \in Threads \ {t} : call'[u] = call[u]
    /\ DOMAIN call'[t] = CallFields
    /\ call'[t].op = call[t].op /\ call'[t].name = call[t].name
    /\ call'[t].handle = call[t].handle
    /\ call'[t].arg = a /\ call'[t].k = k

KeepsCalls ==
    /\ DOMAIN call' = Threads
    /\ \A u \in Threads : /\ DOMAIN call'[u] = CallFields
                          /\ call'[u].op = call[u].op
                          /\ call'[u].name = call[u].name
                          /\ call'[u].handle = call[u].handle

OneMoves(t) == DOMAIN at' = Threads /\ \A u \in Threads \ {t} : at'[u] = at[u]

\* Where an operation leaves the filesystem to.
Left(t) ==
    \/ call[t].op = "open" /\ at'[t] = "give_up"
    \/ call[t].op \in {"read", "write"} /\ at'[t] \in {"advance", "end"}
    \/ call[t].op \notin {"open", "read", "write"} /\ at'[t] = "unlock"

FsMoves(t) ==
    /\ at[t] \in TfsPlaces
    /\ KeepsCalls /\ OneMoves(t)
    /\ at'[t] \in TfsPlaces \/ Left(t)
    /\ at'[t] = "tfs_opened" => call[t].op = "open"

\* Assignments to fields of a call.
LEMMA CallAssigned ==
    ASSUME Shapes, NEW t \in Threads, NEW a, NEW k,
           \/ call' = [call EXCEPT ![t].arg = a, ![t].k = k]
           \/ call' = [call EXCEPT ![t].arg = a] /\ k = call[t].k
           \/ call' = [call EXCEPT ![t].k = k] /\ a = call[t].arg
           \/ UNCHANGED call /\ a = call[t].arg /\ k = call[t].k
    PROVE  CallSet(t, a, k)
<1> DEFINE c == [[call[t] EXCEPT !.arg = a] EXCEPT !.k = k]
<1>1. /\ DOMAIN c = CallFields /\ c.op = call[t].op /\ c.name = call[t].name
      /\ c.handle = call[t].handle /\ c.arg = a /\ c.k = k
  BY DEF Shapes, CallFields
<1>2. CASE UNCHANGED call /\ a = call[t].arg /\ k = call[t].k
  BY <1>2 DEF Shapes, CallSet
<1>3. CASE ~(UNCHANGED call /\ a = call[t].arg /\ k = call[t].k)
  <2> SUFFICES call' = [call EXCEPT ![t] = c]
    <3> HIDE DEF c
    <3>1. QED BY <1>1 DEF Shapes, CallSet
  <2>1. CASE call' = [call EXCEPT ![t].arg = a, ![t].k = k]
    BY <2>1
  <2>2. CASE call' = [call EXCEPT ![t].arg = a] /\ k = call[t].k
    BY <2>2 DEF Shapes, CallFields
  <2>3. CASE call' = [call EXCEPT ![t].k = k] /\ a = call[t].arg
    BY <2>3 DEF Shapes, CallFields
  <2>4. QED BY <1>3, <2>1, <2>2, <2>3
<1>4. QED
  BY <1>2, <1>3

LEMMA CallSetKeeps ==
    ASSUME Shapes, NEW t \in Threads, NEW a, NEW k, CallSet(t, a, k)
    PROVE  KeepsCalls
BY DEF Shapes, CallSet, KeepsCalls

LEMMA Moved ==
    ASSUME Shapes, NEW t \in Threads, NEW p, MoveTo(t, p)
    PROVE  OneMoves(t) /\ at'[t] = p
BY DEF Shapes, MoveTo, OneMoves

LEMMA Returned ==
    ASSUME Shapes, NEW t \in Threads, NEW x, Return(t, x)
    PROVE  /\ CallSet(t, x, call[t].k) /\ KeepsCalls
           /\ OneMoves(t) /\ Left(t) /\ (at'[t] = "advance" => x > 0)
           /\ fsLock' = NoThread /\ buf' = NoBuffer
<1>1. CallSet(t, x, call[t].k) /\ KeepsCalls /\ fsLock' = NoThread /\ buf' = NoBuffer
  <2>1. call' = [call EXCEPT ![t].arg = x] /\ fsLock' = NoThread /\ buf' = NoBuffer
    BY DEF Return
  <2>2. CallSet(t, x, call[t].k)
    BY <2>1, CallAssigned
  <2>3. QED BY <2>1, <2>2, CallSetKeeps
<1> DEFINE p == CASE call[t].op = "open" -> "give_up"
                  [] call[t].op \in {"read", "write"} ->
                         IF x > 0 THEN "advance" ELSE "end"
                  [] OTHER -> "unlock"
<1>2. MoveTo(t, p)
  BY DEF Return
<1>3. /\ call[t].op = "open" => p = "give_up"
      /\ call[t].op \in {"read", "write"} => p \in {"advance", "end"}
      /\ p = "advance" => x > 0
      /\ call[t].op \notin {"open", "read", "write"} => p = "unlock"
  <2>1. CASE call[t].op = "open"
    BY <2>1
  <2>2. CASE call[t].op \in {"read", "write"}
    BY <2>2
  <2>3. CASE call[t].op \notin {"open", "read", "write"}
    BY <2>3
  <2>4. QED BY <2>1, <2>2, <2>3
<1> HIDE DEF p
<1>4. OneMoves(t) /\ at'[t] = p
  BY <1>2, Moved
<1>5. QED
  BY <1>1, <1>3, <1>4 DEF Left

LEMMA TfsMoves ==
    ASSUME Shapes, NEW t \in Threads,
           \/ TfsOpen(t) \/ TfsCreateRefused(t) \/ TfsCreate(t) \/ TfsRemove(t)
           \/ \E i, n : TfsRead(t, i, n) \/ TfsWrite(t, i, n) \/ WriteData(t, n)
           \/ TfsGetFree(t) \/ WriteBat(t) \/ WriteDir(t) \/ WriteInode(t)
           \/ WriteZeros(t) \/ DiskError(t)
    PROVE  FsMoves(t)
<1> USE DEF TfsPlaces, WritePlaces
<1>0. \A x : Return(t, x) =>
          KeepsCalls /\ OneMoves(t) /\ Left(t) /\ at'[t] # "tfs_opened"
  BY Returned DEF Left
<1>m. \A p : MoveTo(t, p) => OneMoves(t) /\ at'[t] = p
  BY Moved
<1>k. \A x : call' = [call EXCEPT ![t].k = x] => KeepsCalls
  BY CallAssigned, CallSetKeeps
<1>s. UNCHANGED call => KeepsCalls
  BY DEF Shapes, KeepsCalls
<1>a. UNCHANGED at => OneMoves(t) /\ at'[t] = at[t]
  BY DEF OneMoves, Shapes
<1>1. CASE TfsOpen(t)
  BY <1>0, <1>m, <1>k, <1>1 DEF TfsOpen, Enters, FsMoves
<1>2. CASE TfsCreateRefused(t) \/ TfsGetFree(t)
  BY <1>0, <1>2 DEF TfsCreateRefused, TfsGetFree, Enters, FsMoves
<1>3. CASE TfsCreate(t)
  BY <1>0, <1>m, <1>s, <1>3 DEF TfsCreate, Enters, FsMoves
<1>4. CASE TfsRemove(t)
  BY <1>0, <1>m, <1>s, <1>4 DEF TfsRemove, Enters, FsMoves
<1>5. ASSUME NEW i, NEW n, TfsRead(t, i, n) PROVE FsMoves(t)
  BY <1>0, <1>5 DEF TfsRead, Enters, FsMoves
<1>6. ASSUME NEW i, NEW n, TfsWrite(t, i, n) PROVE FsMoves(t)
  <2>1. at[t] = "tfs"
    BY <1>6 DEF TfsWrite, Enters
  <2>2. \/ \E x : Return(t, x)
        \/ /\ \E x, y : call' = [call EXCEPT ![t].arg = x, ![t].k = y]
           /\ MoveTo(t, "write_data")
    <3>1. CASE BadAccess(i, n)
      BY <1>6, <3>1 DEF TfsWrite
    <3>2. CASE ~BadAccess(i, n)
      BY <1>6, <3>2 DEF TfsWrite
    <3>3. QED BY <3>1, <3>2
  <2>3. CASE \E x : Return(t, x)
    BY <1>0, <2>1, <2>3 DEF FsMoves
  <2>4. ASSUME NEW x, NEW y, call' = [call EXCEPT ![t].arg = x, ![t].k = y],
               MoveTo(t, "write_data")
        PROVE  FsMoves(t)
    <3>1. CallSet(t, x, y)
      BY <2>4, CallAssigned
    <3>3. KeepsCalls
      BY <3>1, CallSetKeeps
    <3>4. QED BY <1>m, <2>1, <2>4, <3>3 DEF FsMoves
  <2>5. QED BY <2>2, <2>3, <2>4
<1>7. ASSUME NEW n, WriteData(t, n) PROVE FsMoves(t)
  BY <1>0, <1>k, <1>a, <1>7 DEF WriteData, FsMoves
<1>8. CASE WriteBat(t)
  BY <1>m, <1>s, <1>8 DEF WriteBat, FsMoves
<1>9. CASE WriteDir(t)
  BY <1>0, <1>m, <1>s, <1>9 DEF WriteDir, FsMoves
<1>10. CASE WriteInode(t)
  BY <1>0, <1>m, <1>k, <1>10 DEF WriteInode, FsMoves
<1>11. CASE WriteZeros(t)
  BY <1>0, <1>k, <1>a, <1>11 DEF WriteZeros, FsMoves
<1>12. CASE DiskError(t)
  BY <1>0, <1>12 DEF DiskError, FsMoves
<1>13. QED
  BY <1>1, <1>2, <1>3, <1>4, <1>5, <1>6, <1>7, <1>8, <1>9, <1>10, <1>11, <1>12

-----------------------------------------------------------------------------
\* The parts of the invariant, one lemma for what leaves each of them alone.
LEMMA StillCounted ==
    ASSUME Shapes, Counted, UNCHANGED ops,
           \A u \in Threads : at'[u] # "idle" <=> at[u] # "idle"
    PROVE  Counted'
<1>1. Inside' = Inside
  BY DEF Inside
<1>2. QED
  BY <1>1 DEF Counted

LEMMA StillHalting ==
    ASSUME HaltWaits, UNCHANGED <<usable, ops, unmountSem, halting>>
    PROVE  HaltWaits'
BY DEF HaltWaits

\* No entry is closed, and none comes into use.
LEMMA StillHeld ==
    ASSUME HandlesHeld, UNCHANGED halting, mounted => mounted',
           \A u \in Threads : Using(u)' => Using(u) /\ call'[u].handle = call[u].handle,
           \A h \in Handles : /\ files'[h].open = files[h].open
                              /\ handle'[h].user = handle[h].user
    PROVE  HandlesHeld'
BY DEF HandlesHeld

\* As long as any thread is inside, the halt has not come further than its wait.
LEMMA InsideKeepsHaltOut ==
    ASSUME QuietInv, NEW t \in Threads, at[t] # "idle"
    PROVE  /\ halting \in {"no", "wait"}
           /\ ops \in Nat \ {0}
           /\ at[t] \in TfsPlaces => mounted
<1>1. IsFiniteSet(Inside) /\ ops = Cardinality(Inside) /\ t \in Inside
  BY DEF QuietInv, Counted, Inside
<1>2. ops \in Nat /\ ops # 0
  BY <1>1, FS_CardinalityType, FS_EmptySet
<1>3. halting \in {"no", "wait"}
  BY <1>2 DEF QuietInv, HaltWaits
<1>4. ASSUME at[t] \in TfsPlaces PROVE mounted
  <2>1. CASE call[t].op \in {"open", "read", "write"}
    <3>1. Using(t)
      BY <1>4, <2>1 DEF Using, TfsPlaces, WritePlaces
    <3>2. QED BY <1>3, <3>1 DEF QuietInv, HandlesHeld
  <2>2. CASE call[t].op \notin {"open", "read", "write"}
    BY <1>4, <2>2 DEF QuietInv, PlacesHeld, PlaceHeld
  <2>3. QED BY <2>1, <2>2
<1>5. QED
  BY <1>2, <1>3, <1>4

-----------------------------------------------------------------------------
\* The filesystem's own steps.
LEMMA QuietFs ==
    ASSUME QuietInv, NEW t \in Threads, FsMoves(t), UNCHANGED vfsVars,
           DOMAIN handle' = Handles,
           \A h \in Handles : /\ DOMAIN handle'[h] = {"user", "name", "removed"}
                              /\ handle'[h].user = handle[h].user
    PROVE  QuietInv'
<1>1. /\ at[t] \in TfsPlaces /\ (at'[t] \in TfsPlaces \/ Left(t))
      /\ at'[t] = "tfs_opened" => call[t].op = "open"
      /\ \A u \in Threads \ {t} : at'[u] = at[u]
      /\ \A u \in Threads : call'[u].op = call[u].op /\ call'[u].handle = call[u].handle
      /\ UNCHANGED <<mounted, named, files, tableSem, fileSem, usable, ops, unmountSem, halting>>
  BY DEF FsMoves, OneMoves, KeepsCalls, vfsVars
<1>2. Shapes'
  BY <1>1 DEF QuietInv, Shapes, FsMoves, OneMoves, KeepsCalls
<1>3. at[t] # "idle" /\ at'[t] # "idle" /\ at'[t] \notin {"table", "files", "unmount"}
  BY <1>1 DEF Left, TfsPlaces, WritePlaces
<1>4. Counted'
  BY <1>1, <1>3, StillCounted DEF QuietInv
<1>5. HaltWaits'
  BY <1>1, StillHalting DEF QuietInv
<1>6. PlacesHeld'
  <2>1. PlacesHeld
    BY DEF QuietInv
  <2>2. ASSUME NEW u \in Threads
        PROVE  PlaceHeld(u)'
    <3>1. CASE u # t
      BY <1>1, <2>1, <3>1 DEF PlacesHeld, PlaceHeld
    <3>2. CASE u = t
      <4>1. \/ call[t].op \in {"create", "remove", "getfree"} /\ tableSem = t /\ mounted
            \/ call[t].op \in {"open", "read", "write"}
        BY <1>1, <2>1 DEF PlacesHeld, PlaceHeld
      <4>2. CASE at'[t] \in TfsPlaces
        BY <1>1, <3>2, <4>1, <4>2 DEF PlaceHeld, TfsPlaces, WritePlaces
      <4>3. CASE Left(t)
        BY <1>1, <1>3, <3>2, <4>1, <4>3 DEF PlaceHeld, Left, TfsPlaces, WritePlaces
      <4>4. QED BY <1>1, <4>2, <4>3
    <3>3. QED BY <3>1, <3>2
  <2>3. QED BY <2>2 DEF PlacesHeld
<1>7. HandlesHeld'
  <2>1. \A u \in Threads : Using(u)' => Using(u) /\ call'[u].handle = call[u].handle
    BY <1>1, <1>3 DEF Using, Left, TfsPlaces, WritePlaces
  <2>2. QED BY <1>1, <2>1, StillHeld DEF QuietInv
<1>8. QED
  BY <1>2, <1>4, <1>5, <1>6, <1>7 DEF QuietInv

LEMMA QuietFsSteps ==
    ASSUME QuietInv, NEW t \in Threads, FsStep(t) \/ RemoveFile(t) \/ RequestFails(t)
    PROVE  QuietInv'
<1>0. Shapes
  BY DEF QuietInv
<1>1. CASE FsStep(t)
  <2>1. FsMoves(t)
    BY <1>0, <1>1, TfsMoves DEF FsStep
  <2>2. UNCHANGED vfsVars /\ UNCHANGED handle
    BY <1>1 DEF FsStep, history
  <2>3. QED BY <1>0, <2>1, <2>2, QuietFs DEF Shapes
<1>2. CASE RequestFails(t)
  <2>1. FsMoves(t)
    BY <1>0, <1>2, TfsMoves DEF RequestFails
  <2>2. UNCHANGED vfsVars /\ UNCHANGED handle
    BY <1>2 DEF RequestFails
  <2>3. QED BY <1>0, <2>1, <2>2, QuietFs DEF Shapes
<1>3. CASE RemoveFile(t)
  <2>1. FsMoves(t)
    BY <1>0, <1>3, TfsMoves DEF RemoveFile
  <2>2. /\ UNCHANGED vfsVars
        /\ handle' = [h \in Handles |->
                         IF handle[h].name = call[t].name
                         THEN [handle[h] EXCEPT !.removed = TRUE] ELSE handle[h]]
    BY <1>3 DEF RemoveFile
  <2>3. /\ DOMAIN handle' = Handles
        /\ \A h \in Handles : /\ DOMAIN handle'[h] = {"user", "name", "removed"}
                              /\ handle'[h].user = handle[h].user
    <3>1. ASSUME NEW h \in Handles
          PROVE  /\ DOMAIN [handle[h] EXCEPT !.removed = TRUE] = {"user", "name", "removed"}
                 /\ [handle[h] EXCEPT !.removed = TRUE].user = handle[h].user
      BY <1>0 DEF Shapes
    <3>2. QED BY <1>0, <2>2, <3>1 DEF Shapes
  <2>4. QED BY <2>1, <2>2, <2>3, QuietFs
<1>4. QED
  BY <1>1, <1>2, <1>3

-----------------------------------------------------------------------------
\* The start of a call, and its end.
LEMMA CallIs ==
    ASSUME Shapes, NEW t \in Threads, NEW c, call' = [call EXCEPT ![t] = c]
    PROVE  DOMAIN call' = Threads /\ call'[t] = c /\ \A u \in Threads \ {t} : call'[u] = call[u]
BY DEF Shapes

Made(t, c) ==
    /\ DOMAIN c = CallFields
    /\ c.op \in Ops \ {"none"}
    /\ c.arg \in Nat
    /\ c.op \in {"open", "create", "remove"} => c.name \in Names
    /\ c.op \in {"close", "seek", "read", "write"} => c.handle \in Handles /\ UseOf(t, c.handle)
    /\ c.op \in {"read", "write"} =>
           /\ c.name = handle[c.handle].name /\ ~handle[c.handle].removed
           /\ \A u \in Threads : call[u].op = "remove" => call[u].name # c.name
    /\ c.op = "create" => c.arg \in Sizes
    /\ c.op = "remove" =>
           c.arg = 0 /\ \A u \in Threads : call[u].op \in {"read", "write"} => call[u].name # c.name

LEMMA CallMade ==
    ASSUME Shapes, NEW t \in Threads, Calls(t)
    PROVE  /\ DOMAIN call' = Threads
           /\ \A u \in Threads \ {t} : call'[u] = call[u]
           /\ Made(t, call'[t])
<1>1. \E c : call' = [call EXCEPT ![t] = c] /\ Made(t, c)
  <2> USE DEF Made, CallFields, Ops, NoCall, InCall
  <2>1. ASSUME NEW op \in {"mount", "unmount", "getfree"}
        PROVE  Made(t, [NoCall EXCEPT !.op = op])
    OBVIOUS
  <2>2. ASSUME NEW n \in Names
        PROVE  /\ Made(t, [NoCall EXCEPT !.op = "open", !.name = n])
               /\ \A s \in Sizes :
                      Made(t, [NoCall EXCEPT !.op = "create", !.name = n, !.arg = s])
    BY VfsAssumption
  <2>3. ASSUME NEW n \in Names, RemoveCall(t, n)
        PROVE  Made(t, [NoCall EXCEPT !.op = "remove", !.name = n])
    BY <2>3 DEF RemoveCall
  <2>4. ASSUME NEW h \in Handles, UseOf(t, h)
        PROVE  /\ Made(t, [NoCall EXCEPT !.op = "close", !.handle = h])
               /\ \A n \in Nat : Made(t, [NoCall EXCEPT !.op = "seek", !.handle = h, !.arg = n])
    BY <2>4
  <2>5. ASSUME NEW h \in Handles, NEW op \in {"read", "write"}, NEW n \in Nat,
               ReadOrWrite(t, op, h, n)
        PROVE  Made(t, [NoCall EXCEPT !.op = op, !.handle = h, !.name = handle[h].name,
                                      !.arg = n])
    BY <2>5 DEF ReadOrWrite
  <2> HIDE DEF NoCall, Made, CallFields, Ops, InCall
  <2>a. Sizes \subseteq Nat /\ Lengths \subseteq Nat
    BY VfsAssumption
  <2>6. CASE \E op \in {"mount", "unmount", "getfree"} :
                 call' = [call EXCEPT ![t] = [NoCall EXCEPT !.op = op]]
    BY <2>1, <2>6
  <2>7. ASSUME NEW n \in Names,
               \/ call' = [call EXCEPT ![t] = [NoCall EXCEPT !.op = "open", !.name = n]]
               \/ \E s \in Sizes :
                      call' = [call EXCEPT ![t] =
                                  [NoCall EXCEPT !.op = "create", !.name = n, !.arg = s]]
               \/ RemoveCall(t, n)
        PROVE  \E c : call' = [call EXCEPT ![t] = c] /\ Made(t, c)
    <3>1. CASE RemoveCall(t, n)
      BY <2>3, <3>1 DEF RemoveCall
    <3>2. CASE call' = [call EXCEPT ![t] = [NoCall EXCEPT !.op = "open", !.name = n]]
      BY <2>2, <3>2
    <3>3. CASE \E s \in Sizes :
                   call' = [call EXCEPT ![t] =
                               [NoCall EXCEPT !.op = "create", !.name = n, !.arg = s]]
      BY <2>2, <3>3
    <3>4. QED BY <2>7, <3>1, <3>2, <3>3
  <2>8. ASSUME NEW h \in Handles,
               \/ /\ UseOf(t, h)
                  /\ call' = [call EXCEPT ![t] = [NoCall EXCEPT !.op = "close", !.handle = h]]
               \/ \E n \in Lengths :
                      \/ /\ UseOf(t, h)
                         /\ call' = [call EXCEPT ![t] =
                                        [NoCall EXCEPT !.op = "seek", !.handle = h, !.arg = n]]
                      \/ ReadOrWrite(t, "read", h, n)
                      \/ ReadOrWrite(t, "write", h, n)
        PROVE  \E c : call' = [call EXCEPT ![t] = c] /\ Made(t, c)
    <3>1. UseOf(t, h)
      BY <2>8 DEF ReadOrWrite
    <3>2. CASE call' = [call EXCEPT ![t] = [NoCall EXCEPT !.op = "close", !.handle = h]]
      BY <2>4, <3>1, <3>2
    <3>3. CASE \E n \in Lengths :
                   call' = [call EXCEPT ![t] =
                               [NoCall EXCEPT !.op = "seek", !.handle = h, !.arg = n]]
      BY <2>4, <2>a, <3>1, <3>3
    <3>4. CASE \E n \in Lengths, op \in {"read", "write"} : ReadOrWrite(t, op, h, n)
      <4>1. PICK n \in Lengths, op \in {"read", "write"} : ReadOrWrite(t, op, h, n)
        BY <3>4
      <4> DEFINE c == [NoCall EXCEPT !.op = op, !.handle = h, !.name = handle[h].name, !.arg = n]
      <4>2. Made(t, c)
        BY <2>5, <2>a, <4>1
      <4>3. call' = [call EXCEPT ![t] = c]
        BY <4>1 DEF ReadOrWrite
      <4> HIDE DEF c
      <4>4. QED BY <4>2, <4>3
    <3>5. QED BY <2>8, <3>2, <3>3, <3>4
  <2>9. QED BY <2>6, <2>7, <2>8 DEF Calls
<1>2. PICK c : call' = [call EXCEPT ![t] = c] /\ Made(t, c)
  BY <1>1
<1>3. QED
  BY <1>2, CallIs

LEMMA QuietStart ==
    ASSUME QuietInv, NEW t \in Threads, StartOp(t)
    PROVE  QuietInv'
<1>0. Shapes /\ Counted /\ HaltWaits /\ PlacesHeld /\ HandlesHeld
  BY DEF QuietInv
<1>1. /\ at[t] = "idle" /\ usable /\ ops' = ops + 1
      /\ UNCHANGED <<mounted, files, tableSem, fileSem, usable, unmountSem, halting, handle>>
      /\ Calls(t)
      /\ OneMoves(t) /\ at'[t] = FirstPlace(call'[t].op)
  BY <1>0, Moved DEF StartOp
<1>2. /\ DOMAIN call' = Threads /\ Made(t, call'[t])
      /\ \A u \in Threads \ {t} : call'[u] = call[u]
  BY <1>0, <1>1, CallMade
<1>3. \/ at'[t] = "table" /\ call'[t].op \in {"mount", "unmount", "open", "create", "remove", "getfree"}
      \/ at'[t] = "files" /\ call'[t].op \in {"close", "seek"}
      \/ at'[t] = "tfs" /\ call'[t].op \in {"read", "write"}
  BY <1>1, <1>2 DEF Made, Ops, FirstPlace
<1>4. \A u \in Threads \ {t} : at'[u] = at[u]
  BY <1>1 DEF OneMoves
<1>5. Shapes'
  BY <1>0, <1>1, <1>2 DEF Shapes, OneMoves, Made
<1>6. Counted'
  <2>1. Inside' = Inside \cup {t} /\ t \notin Inside
    BY <1>1, <1>3, <1>4 DEF Inside
  <2>2. IsFiniteSet(Inside \cup {t}) /\ Cardinality(Inside \cup {t}) = Cardinality(Inside) + 1
    BY <1>0, <2>1, FS_AddElement DEF Counted
  <2>3. QED BY <1>0, <1>1, <2>1, <2>2 DEF Counted
<1>7. HaltWaits'
  BY <1>0, <1>1 DEF HaltWaits
<1>8. PlacesHeld'
  <2>1. ASSUME NEW u \in Threads PROVE PlaceHeld(u)'
    <3>1. CASE u = t
      BY <1>3, <3>1 DEF PlaceHeld, TfsPlaces, WritePlaces
    <3>2. CASE u # t
      BY <1>0, <1>1, <1>2, <1>4, <3>2 DEF PlacesHeld, PlaceHeld
    <3>3. QED BY <3>1, <3>2
  <2>2. QED BY <2>1 DEF PlacesHeld
<1>9. HandlesHeld'
  <2>1. ASSUME Using(t)'
        PROVE  /\ call'[t].handle \in Handles /\ files[call'[t].handle].open
               /\ \A u \in Threads : call[u].handle # call'[t].handle
    <3>1. call'[t].op \in {"close", "seek", "read", "write"}
      BY <1>3, <2>1 DEF Using, TfsPlaces, WritePlaces
    <3>2. call'[t].handle \in Handles /\ UseOf(t, call'[t].handle)
      BY <1>2, <3>1 DEF Made
    <3>3. QED BY <1>0, <3>2, TfsAssumption DEF UseOf, HandlesHeld
  <2>2. \A u \in Threads \ {t} : Using(u)' => Using(u) /\ call'[u].handle = call[u].handle
    BY <1>2, <1>4 DEF Using
  <2>3. QED BY <1>0, <1>1, <2>1, <2>2 DEF HandlesHeld
<1>10. QED
  BY <1>5, <1>6, <1>7, <1>8, <1>9 DEF QuietInv

LEMMA QuietEnd ==
    ASSUME QuietInv, NEW t \in Threads, EndOp(t)
    PROVE  QuietInv'
<1>0. Shapes /\ Counted /\ HaltWaits /\ PlacesHeld /\ HandlesHeld
  BY DEF QuietInv
<1>1. /\ at[t] = "end" /\ ops' = ops - 1
      /\ unmountSem' = IF LastOpSignals THEN unmountSem + 1 ELSE unmountSem
      /\ UNCHANGED <<mounted, files, tableSem, fileSem, usable, halting, handle>>
      /\ call' = [call EXCEPT ![t] = NoCall]
      /\ OneMoves(t) /\ at'[t] = "idle"
  BY <1>0, Moved DEF EndOp, history
<1>2. /\ DOMAIN call' = Threads /\ DOMAIN call'[t] = CallFields
      /\ \A u \in Threads \ {t} : call'[u] = call[u]
  <2>1. DOMAIN NoCall = CallFields
    BY DEF NoCall, CallFields
  <2>2. QED BY <1>0, <1>1, <2>1, CallIs
<1>4. \A u \in Threads \ {t} : at'[u] = at[u]
  BY <1>1 DEF OneMoves
<1>5. Shapes'
  BY <1>0, <1>1, <1>2 DEF Shapes, OneMoves
<1>6. Counted' /\ ops \in Nat \ {0}
  <2>1. Inside' = Inside \ {t} /\ t \in Inside
    BY <1>1, <1>4 DEF Inside
  <2>2. IsFiniteSet(Inside \ {t}) /\ Cardinality(Inside \ {t}) = Cardinality(Inside) - 1
    BY <1>0, <2>1, FS_RemoveElement DEF Counted
  <2>3. ops \in Nat \ {0}
    BY <1>1, InsideKeepsHaltOut
  <2>4. QED BY <1>0, <1>1, <2>1, <2>2, <2>3 DEF Counted
<1>7. HaltWaits'
  <2>1. halting \in {"no", "wait"}
    BY <1>1, InsideKeepsHaltOut
  <2>2. CASE halting = "no"
    BY <1>0, <1>1, <1>6, <2>2 DEF HaltWaits, LastOpSignals
  <2>3. CASE halting = "wait"
    <3>1. usable = FALSE /\ unmountSem = 0 /\ halting' = "wait" /\ usable' = FALSE
      BY <1>0, <1>1, <1>6, <2>3 DEF HaltWaits
    <3>2. CASE ops = 1
      <4>1. LastOpSignals
        BY <3>1, <3>2 DEF LastOpSignals
      <4>2. ops' = 0 /\ unmountSem' = 1
        BY <1>1, <3>1, <3>2, <4>1
      <4>3. QED BY <3>1, <4>2 DEF HaltWaits
    <3>3. CASE ops # 1
      <4>1. ops' # 0 /\ unmountSem' = 0
        BY <1>1, <1>6, <3>1, <3>3 DEF LastOpSignals
      <4>2. QED BY <3>1, <4>1 DEF HaltWaits
    <3>4. QED BY <3>2, <3>3
  <2>4. QED BY <2>1, <2>2, <2>3
<1>8. PlacesHeld'
  <2>1. ASSUME NEW u \in Threads PROVE PlaceHeld(u)'
    <3>1. CASE u = t
      BY <1>1, <3>1 DEF PlaceHeld, TfsPlaces, WritePlaces
    <3>2. CASE u # t
      BY <1>0, <1>1, <1>2, <1>4, <3>2 DEF PlacesHeld, PlaceHeld
    <3>3. QED BY <3>1, <3>2
  <2>2. QED BY <2>1 DEF PlacesHeld
<1>9. HandlesHeld'
  <2>1. ~Using(t)'
    BY <1>1 DEF Using, TfsPlaces, WritePlaces
  <2>2. \A u \in Threads : Using(u)' => Using(u) /\ call'[u].handle = call[u].handle
    BY <1>2, <1>4, <2>1 DEF Using
  <2>3. QED BY <1>0, <1>1, <2>2, StillHeld
<1>10. QED
  BY <1>5, <1>6, <1>7, <1>8, <1>9 DEF QuietInv

-----------------------------------------------------------------------------
\* What the steps at the two tables have in common: one thread moves within its call, and
\* the halt and the count of operations stay as they are.
TableMove(t) ==
    /\ at[t] # "idle" /\ at'[t] # "idle"
    /\ OneMoves(t)
    /\ UNCHANGED <<usable, ops, unmountSem, halting>>

LEMMA TableMoves ==
    ASSUME QuietInv, NEW t \in Threads, TableMove(t)
    PROVE  Counted' /\ HaltWaits'
<1>1. Counted /\ HaltWaits /\ Shapes
  BY DEF QuietInv
<1>2. \A u \in Threads : at'[u] # "idle" <=> at[u] # "idle"
  BY DEF TableMove, OneMoves
<1>3. QED
  BY <1>1, <1>2, StillCounted, StillHalting DEF TableMove

\* The steps that leave the table of open files as it is.
LEMMA QuietTables ==
    ASSUME QuietInv, NEW t \in Threads,
           Mount(t) \/ LockTable(t) \/ UnmountCheck(t) \/ UnlockTable(t) \/ UnmountFs(t)
    PROVE  QuietInv'
<1>0. Shapes /\ Counted /\ HaltWaits /\ PlacesHeld /\ HandlesHeld
  BY DEF QuietInv
<1>1. UNCHANGED <<call, files, handle, usable, ops, unmountSem, halting>>
  BY DEF Mount, LockTable, UnmountCheck, UnlockTable, UnmountFs, history
<1>2. OneMoves(t) /\ at[t] \in {"table", "files", "unmount", "unlock"}
      /\ at'[t] \in {"end", "files", "tfs", "unmount"}
  <2>1. \A p : MoveTo(t, p) => OneMoves(t) /\ at'[t] = p
    BY <1>0, Moved
  <2>2. QED
    BY <2>1 DEF Mount, LockTable, UnmountCheck, UnlockTable, UnmountFs, TableOp, FilesOp
<1>3. Counted' /\ HaltWaits'
  BY <1>1, <1>2, TableMoves DEF TableMove
<1>4. Shapes'
  BY <1>0, <1>1, <1>2 DEF Shapes, OneMoves
<1>5. \A u \in Threads \ {t} : at'[u] = at[u]
  BY <1>2 DEF OneMoves
<1>6. PlaceHeld(t)
  BY <1>0 DEF PlacesHeld
<1>7. \* What happens to the semaphores and the mount.
      /\ \A u \in Threads \ {t} : (tableSem = u => tableSem' = u) /\ (fileSem = u => fileSem' = u)
      /\ mounted => mounted' \/ at[t] = "unmount"
      /\ PlaceHeld(t)'
      /\ Using(t)' => Using(t)
  <2> USE TfsAssumption DEF TfsPlaces, WritePlaces
  <2>m. \A p : MoveTo(t, p) => at'[t] = p
    BY <1>0, Moved
  <2>1. CASE Mount(t)
    BY <1>1, <2>m, <2>1 DEF Mount, PlaceHeld, Using
  <2>2. CASE LockTable(t)
    <3>1. /\ at[t] = "table" /\ call[t].op # "mount" /\ tableSem = NoThread
          /\ UNCHANGED <<mounted, fileSem>>
          /\ \/ tableSem' = t /\ call[t].op \in {"unmount", "open"} /\ at'[t] = "files"
             \/ tableSem' = t /\ mounted /\ call[t].op \notin {"unmount", "open"} /\ at'[t] = "tfs"
             \/ tableSem' = tableSem /\ at'[t] = "end"
      BY <2>m, <2>2 DEF LockTable
    <3>2. call[t].op \in {"unmount", "open", "create", "remove", "getfree"}
      BY <1>6, <3>1 DEF PlaceHeld
    <3>3. PlaceHeld(t)'
      BY <1>1, <3>1, <3>2 DEF PlaceHeld
    <3>4. ~Using(t)'
      BY <1>1, <3>1, <3>2 DEF Using
    <3>5. QED BY <3>1, <3>3, <3>4
  <2>3. CASE UnmountCheck(t)
    <3>1. /\ at[t] = "files" /\ call[t].op = "unmount" /\ fileSem = NoThread
          /\ UNCHANGED mounted
          /\ \/ tableSem' = NoThread /\ fileSem' = fileSem /\ at'[t] = "end"
             \/ /\ \A h \in Handles : ~files[h].open
                /\ tableSem' = tableSem /\ fileSem' = t /\ at'[t] = "unmount"
      BY <2>m, <2>3 DEF UnmountCheck, FilesOp
    <3>2. tableSem = t
      BY <1>6, <3>1 DEF PlaceHeld
    <3>3. PlaceHeld(t)'
      BY <1>1, <3>1, <3>2 DEF PlaceHeld
    <3>4. ~Using(t)'
      BY <3>1 DEF Using
    <3>5. QED BY <3>1, <3>2, <3>3, <3>4
  <2>4. CASE UnlockTable(t)
    BY <1>1, <1>6, <2>m, <2>4 DEF UnlockTable, PlaceHeld, Using
  <2>5. CASE UnmountFs(t)
    BY <1>1, <1>6, <2>m, <2>5 DEF UnmountFs, PlaceHeld, Using
  <2>6. QED BY <2>1, <2>2, <2>3, <2>4, <2>5
<1>8. at[t] = "unmount" => tableSem = t /\ fileSem = t /\ \A h \in Handles : ~files[h].open
  BY <1>6 DEF PlaceHeld
<1>9. PlacesHeld'
  <2>1. ASSUME NEW u \in Threads PROVE PlaceHeld(u)'
    <3>1. CASE u = t
      BY <1>7, <3>1
    <3>2. CASE u # t
      <4>1. PlaceHeld(u) /\ at'[u] = at[u]
        BY <1>0, <1>5, <3>2 DEF PlacesHeld
      <4>2. mounted /\ tableSem = u => mounted' /\ tableSem' = u
        BY <1>7, <1>8, <3>2
      <4>3. QED BY <1>1, <1>7, <3>2, <4>1, <4>2 DEF PlaceHeld
    <3>3. QED BY <3>1, <3>2
  <2>2. QED BY <2>1 DEF PlacesHeld
<1>10. HandlesHeld'
  <2>1. \A u \in Threads : Using(u)' => Using(u)
    BY <1>1, <1>5, <1>7 DEF Using
  <2>2. \A h \in Handles : files'[h].open => mounted' \/ halting' = "done"
    BY <1>0, <1>1, <1>7, <1>8 DEF HandlesHeld
  <2>3. QED BY <1>0, <1>1, <2>1, <2>2 DEF HandlesHeld
<1>11. QED
  BY <1>3, <1>4, <1>9, <1>10 DEF QuietInv

\* The halt.
LEMMA QuietHalt ==
    ASSUME QuietInv, DeinitStep
    PROVE  QuietInv'
<1>0. Shapes /\ Counted /\ HaltWaits /\ PlacesHeld /\ HandlesHeld
  BY DEF QuietInv
<1>1. UNCHANGED <<at, call, files, handle, ops>>
  BY DEF DeinitStep, Deinit, DeinitWoken, DeinitAgain, DeinitTables, tfsVars, history
<1>2. Shapes' /\ Counted'
  BY <1>0, <1>1, StillCounted DEF Shapes
<1>3. ops \in Nat /\ (ops = 0 => \A t \in Threads : at[t] = "idle")
  <2>1. ops \in Nat
    BY <1>0, FS_CardinalityType DEF Counted
  <2>2. QED BY <2>1, InsideKeepsHaltOut
<1>4. CASE Deinit
  <2>1. /\ halting = "no" /\ usable' = FALSE
        /\ halting' = IF ops > 0 THEN "wait" ELSE "table"
        /\ UNCHANGED <<mounted, tableSem, fileSem, unmountSem>>
    BY <1>4 DEF Deinit
  <2>2. unmountSem = 0
    BY <1>0, <2>1 DEF HaltWaits
  <2>3. HaltWaits'
    <3>1. CASE ops > 0
      <4>1. halting' = "wait" /\ ops' # 0 /\ unmountSem' = 0
        BY <1>1, <2>1, <2>2, <3>1
      <4>2. QED BY <2>1, <4>1 DEF HaltWaits
    <3>2. CASE ~(ops > 0)
      <4>1. halting' = "table" /\ ops' = 0 /\ unmountSem' = 0
        BY <1>1, <1>3, <2>1, <2>2, <3>2
      <4>2. QED BY <2>1, <4>1 DEF HaltWaits
    <3>3. QED BY <3>1, <3>2
  <2>4. PlacesHeld'
    BY <1>0, <1>1, <2>1 DEF PlacesHeld, PlaceHeld
  <2>5. HandlesHeld'
    BY <1>0, <1>1, <2>1 DEF HandlesHeld, Using
  <2>6. QED BY <1>2, <2>3, <2>4, <2>5 DEF QuietInv
<1>5. CASE ~Deinit
  <2>1. /\ halting \in {"wait", "again", "table", "files", "unmount"}
        /\ halting' \in {"again", "table", "files", "unmount", "done"}
        /\ halting = "wait" => unmountSem > 0
        /\ mounted' = mounted \/ halting' = "done"
        /\ usable' = usable
        /\ unmountSem' = IF halting = "wait" THEN unmountSem - 1 ELSE unmountSem
    BY <1>5 DEF DeinitStep, DeinitWoken, DeinitAgain, DeinitTables
  <2>2. ops = 0 /\ unmountSem' = 0
    BY <1>0, <2>1 DEF HaltWaits
  <2>3. HaltWaits'
    BY <1>0, <1>1, <2>1, <2>2 DEF HaltWaits
  <2>4. PlacesHeld'
    BY <1>1, <1>3, <2>2 DEF PlacesHeld, PlaceHeld, TfsPlaces, WritePlaces
  <2>5. HandlesHeld'
    BY <1>0, <1>1, <2>1 DEF HandlesHeld, Using
  <2>6. QED BY <1>2, <2>3, <2>4, <2>5 DEF QuietInv
<1>6. QED
  BY <1>4, <1>5

-----------------------------------------------------------------------------
\* The table of open files: thread t does something to entry x, which nobody else uses.
EntriesShaped ==
    /\ DOMAIN files = Handles
    /\ \A h \in Handles :
           DOMAIN files[h] = {"open", "fileid", "seek"} /\ files[h].open \in BOOLEAN
    /\ DOMAIN handle = Handles
    /\ \A h \in Handles : DOMAIN handle[h] = {"user", "name", "removed"}

LEMMA QuietEntry ==
    ASSUME QuietInv, NEW t \in Threads, NEW x \in Handles, TableMove(t),
           DOMAIN call' = Threads, DOMAIN call'[t] = CallFields,
           \A u \in Threads \ {t} : call'[u] = call[u],
           EntriesShaped',
           \A h \in Handles \ {x} : /\ files'[h].open = files[h].open
                                    /\ handle'[h].user = handle[h].user,
           \A u \in Threads \ {t} : Using(u) => call[u].handle # x,
           handle'[x].user # NoThread => files'[x].open,
           files'[x].open => mounted \/ halting = "done",
           Using(t)' => call'[t].handle = x /\ files'[x].open,
           UNCHANGED <<mounted, fileSem>>,
           \A u \in Threads \ {t} : tableSem = u => tableSem' = u,
           \A u \in Threads \ {t} : at[u] = "unmount" => ~files'[x].open,
           PlaceHeld(t)'
    PROVE  QuietInv'
<1>0. Shapes /\ Counted /\ HaltWaits /\ PlacesHeld /\ HandlesHeld
  BY DEF QuietInv
<1>1. Counted' /\ HaltWaits'
  BY TableMoves
<1>2. /\ DOMAIN at' = Threads /\ UNCHANGED halting
      /\ \A u \in Threads \ {t} : at'[u] = at[u]
  BY DEF TableMove, OneMoves
<1>3. Shapes'
  BY <1>0, <1>2 DEF Shapes, EntriesShaped
<1>4. PlacesHeld'
  <2>1. ASSUME NEW u \in Threads, u # t PROVE PlaceHeld(u)'
    <3>1. PlaceHeld(u) /\ at'[u] = at[u] /\ call'[u] = call[u]
      BY <1>0, <1>2, <2>1 DEF PlacesHeld
    <3>2. at[u] = "unmount" => \A h \in Handles : ~files'[h].open
      BY <2>1, <3>1 DEF PlaceHeld
    <3>3. tableSem = u => tableSem' = u
      BY <2>1
    <3>4. QED BY <3>1, <3>2, <3>3 DEF PlaceHeld
  <2>2. QED BY <2>1 DEF PlacesHeld
<1>5. HandlesHeld'
  <2>1. \A u \in Threads \ {t} :
            Using(u)' => Using(u) /\ call'[u].handle = call[u].handle /\ call[u].handle # x
    BY <1>2 DEF Using
  <2>2. \A u \in Threads :
            Using(u)' => call'[u].handle \in Handles /\ files'[call'[u].handle].open
    BY <1>0, <2>1 DEF HandlesHeld
  <2>3. \A u, v \in Threads :
            Using(u)' /\ Using(v)' /\ call'[u].handle = call'[v].handle => u = v
    BY <1>0, <2>1 DEF HandlesHeld
  <2>4. /\ \A h \in Handles : handle'[h].user # NoThread => files'[h].open
        /\ \A h \in Handles : files'[h].open => mounted' \/ halting' = "done"
    BY <1>0, <1>2 DEF HandlesHeld
  <2>5. QED BY <2>2, <2>3, <2>4 DEF HandlesHeld
<1>6. QED
  BY <1>1, <1>3, <1>4, <1>5 DEF QuietInv

LEMMA QuietClaim ==
    ASSUME QuietInv, NEW t \in Threads, ClaimFile(t)
    PROVE  QuietInv'
<1> USE TfsAssumption DEF TfsPlaces, WritePlaces
<1>0. Shapes /\ PlacesHeld /\ HandlesHeld
  BY DEF QuietInv
<1>1. /\ at[t] = "files" /\ call[t].op = "open" /\ fileSem = NoThread /\ tableSem' = NoThread
      /\ UNCHANGED <<mounted, fileSem, usable, ops, unmountSem, halting>>
  BY DEF ClaimFile, FilesOp
<1>2. tableSem = t
  BY <1>0, <1>1 DEF PlacesHeld, PlaceHeld
<1>3. \A p : MoveTo(t, p) => OneMoves(t) /\ at'[t] = p
  BY <1>0, Moved
<1>4. \A u \in Threads : at[u] # "unmount"
  BY <1>0, <1>1 DEF PlacesHeld, PlaceHeld
<1>5. CASE MoveTo(t, "end") /\ UNCHANGED <<files, handle, call>>
  <2>1. TableMove(t) /\ at'[t] = "end"
    BY <1>1, <1>3, <1>5 DEF TableMove
  <2>2. \A u \in Threads \ {t} : at'[u] = at[u]
    BY <2>1 DEF TableMove, OneMoves
  <2>3. Shapes'
    BY <1>0, <1>5, <2>1 DEF Shapes, TableMove, OneMoves
  <2>4. PlacesHeld'
    BY <1>0, <1>1, <1>2, <1>5, <2>1, <2>2 DEF PlacesHeld, PlaceHeld
  <2>5. HandlesHeld'
    BY <1>0, <1>1, <1>5, <2>1, <2>2, StillHeld DEF Using
  <2>6. QED BY <2>1, <2>3, <2>4, <2>5, TableMoves DEF QuietInv
<1>6. ASSUME NEW x \in ClosedHandles, mounted,
             files' = [files EXCEPT ![x] = Claimed(x)],
             handle' = [handle EXCEPT ![x].name = call[t].name],
             call' = [call EXCEPT ![t].handle = x],
             MoveTo(t, "tfs")
      PROVE  QuietInv'
  <2>1. TableMove(t) /\ at'[t] = "tfs"
    BY <1>1, <1>3, <1>6 DEF TableMove
  <2>2. x \in Handles /\ ~files[x].open
    BY DEF ClosedHandles
  <2>3. \A u \in Threads : Using(u) => call[u].handle # x
    BY <1>0, <2>2 DEF HandlesHeld
  <2>4. /\ DOMAIN call' = Threads /\ DOMAIN call'[t] = CallFields
        /\ call'[t].op = "open" /\ call'[t].handle = x
        /\ \A u \in Threads \ {t} : call'[u] = call[u]
    <3> DEFINE c == [call[t] EXCEPT !.handle = x]
    <3>1. DOMAIN c = CallFields /\ c.op = "open" /\ c.handle = x
      BY <1>0, <1>1 DEF Shapes, CallFields
    <3>2. call' = [call EXCEPT ![t] = c]
      BY <1>6
    <3> HIDE DEF c
    <3>3. QED BY <1>0, <3>1, <3>2, CallIs
  <2>5. /\ EntriesShaped'
        /\ files'[x].open
        /\ \A h \in Handles \ {x} : files'[h].open = files[h].open
        /\ \A h \in Handles : handle'[h].user = handle[h].user
    <3> DEFINE f == Claimed(x)
               d == [handle[x] EXCEPT !.name = call[t].name]
    <3>1. DOMAIN f = {"open", "fileid", "seek"} /\ f.open = TRUE
      BY <1>0, <2>2 DEF Shapes, Claimed
    <3>2. DOMAIN d = {"user", "name", "removed"} /\ d.user = handle[x].user
      BY <1>0, <2>2 DEF Shapes
    <3>3. files' = [files EXCEPT ![x] = f] /\ handle' = [handle EXCEPT ![x] = d]
      BY <1>6
    <3> HIDE DEF f, d
    <3>4. QED BY <1>0, <2>2, <3>1, <3>2, <3>3 DEF Shapes, EntriesShaped
  <2>6. PlaceHeld(t)'
    BY <2>1, <2>4 DEF PlaceHeld
  <2>7. QED
    BY <1>1, <1>2, <1>4, <1>6, <2>1, <2>2, <2>3, <2>4, <2>5, <2>6, QuietEntry
<1>7. QED
  BY <1>5, <1>6 DEF ClaimFile

LEMMA QuietOpened ==
    ASSUME QuietInv, NEW t \in Threads, OpenReturn(t) \/ CloseFile(t) \/ MoveSeek(t)
    PROVE  QuietInv'
<1> USE TfsAssumption DEF TfsPlaces, WritePlaces
<1> DEFINE x == call[t].handle
<1>0. Shapes /\ PlacesHeld /\ HandlesHeld
  BY DEF QuietInv
<1>1. /\ at[t] \in {"tfs_opened", "give_up", "files", "advance"}
      /\ at[t] = "files" => call[t].op \in {"close", "seek"}
      /\ UNCHANGED <<call, mounted, tableSem, fileSem, usable, ops, unmountSem, halting>>
      /\ \E p \in {"give_up", "end"} :
             MoveTo(t, p) /\ (p = "give_up" => at[t] = "tfs_opened" /\ UNCHANGED files)
  BY DEF OpenReturn, CloseFile, MoveSeek, history
<1>2. /\ OneMoves(t) /\ at'[t] \in {"give_up", "end"}
      /\ at'[t] = "give_up" => at[t] = "tfs_opened" /\ UNCHANGED files
  BY <1>0, <1>1, Moved
<1>3. TableMove(t)
  BY <1>1, <1>2 DEF TableMove
<1>4. Using(t) /\ x \in Handles /\ files[x].open
  <2>1. Using(t)
    BY <1>0, <1>1 DEF PlacesHeld, PlaceHeld, Using
  <2>2. QED BY <1>0, <2>1 DEF HandlesHeld
<1>5. \A u \in Threads \ {t} : Using(u) => call[u].handle # x
  BY <1>0, <1>4 DEF HandlesHeld
<1>6. /\ EntriesShaped'
      /\ \A h \in Handles \ {x} : /\ files'[h].open = files[h].open
                                  /\ handle'[h].user = handle[h].user
      /\ handle'[x].user # NoThread => files'[x].open
  <2> DEFINE Entry(f, d) == /\ files' = [files EXCEPT ![x] = f]
                            /\ handle' = [handle EXCEPT ![x] = d]
                            /\ DOMAIN f = {"open", "fileid", "seek"} /\ f.open \in BOOLEAN
                            /\ DOMAIN d = {"user", "name", "removed"}
                            /\ d.user # NoThread => f.open
  <2> HIDE DEF x
  <2>1. CASE \E f, d : Entry(f, d)
    BY <1>0, <1>4, <2>1 DEF Shapes, EntriesShaped
  <2>2. CASE UNCHANGED <<files, handle>>
    BY <1>0, <1>4, <2>2 DEF Shapes, EntriesShaped, HandlesHeld
  <2>3. CASE OpenReturn(t)
    <3> DEFINE i == dirbuf[call[t].k].inode
               f == [open |-> TRUE, fileid |-> i, seek |-> 0]
               d == [handle[x] EXCEPT !.user = t]
    <3>1. \/ UNCHANGED <<files, handle>>
          \/ /\ files' = [files EXCEPT ![x] = f]
             /\ handle' = [handle EXCEPT ![x] = d]
      BY <2>3 DEF OpenReturn, x
    <3>2. DOMAIN f = {"open", "fileid", "seek"} /\ f.open = TRUE
      OBVIOUS
    <3>3. DOMAIN d = {"user", "name", "removed"}
      BY <1>0, <1>4 DEF Shapes
    <3> HIDE DEF f, d
    <3>4. QED BY <2>1, <2>2, <3>1, <3>2, <3>3
  <2>4. CASE CloseFile(t)
    <3> DEFINE f == [files[x] EXCEPT !.open = FALSE]
    <3>1. files' = [files EXCEPT ![x] = f] /\ handle' = [handle EXCEPT ![x] = NotInUse]
      BY <2>4 DEF CloseFile, x
    <3>2. DOMAIN f = {"open", "fileid", "seek"} /\ f.open = FALSE
      BY <1>0, <1>4 DEF Shapes
    <3>3. DOMAIN NotInUse = {"user", "name", "removed"} /\ NotInUse.user = NoThread
      BY DEF NotInUse
    <3> HIDE DEF f
    <3>4. QED BY <2>1, <3>1, <3>2, <3>3
  <2>5. CASE MoveSeek(t)
    <3>1. UNCHANGED handle /\ \E n : files' = [files EXCEPT ![x] = [files[x] EXCEPT !.seek = n]]
      BY <2>5 DEF MoveSeek, history, x
    <3>2. PICK n : files' = [files EXCEPT ![x] = [files[x] EXCEPT !.seek = n]]
      BY <3>1
    <3> DEFINE f == [files[x] EXCEPT !.seek = n]
    <3>3. DOMAIN f = {"open", "fileid", "seek"} /\ f.open = files[x].open
      BY <1>0, <1>4 DEF Shapes
    <3>4. files' = [files EXCEPT ![x] = f]
      BY <3>2
    <3> HIDE DEF f
    <3>5. QED BY <1>0, <1>4, <3>1, <3>3, <3>4 DEF Shapes, EntriesShaped, HandlesHeld
  <2>6. QED BY <2>3, <2>4, <2>5
<1>7. PlaceHeld(t)'
  BY <1>0, <1>1, <1>2 DEF PlacesHeld, PlaceHeld
<1>8. Using(t)' => call'[t].handle = x /\ files'[x].open
  BY <1>1, <1>2, <1>4 DEF Using
<1>9. /\ DOMAIN call' = Threads /\ DOMAIN call'[t] = CallFields
      /\ \A u \in Threads \ {t} : call'[u] = call[u]
  BY <1>0, <1>1 DEF Shapes
<1>10. \A u \in Threads : at[u] # "unmount"
  BY <1>0, <1>4 DEF PlacesHeld, PlaceHeld
<1>11. mounted \/ halting = "done"
  BY <1>0, <1>4 DEF HandlesHeld
<1> HIDE DEF x
<1>12. QED
  BY <1>1, <1>3, <1>4, <1>5, <1>6, <1>7, <1>8, <1>9, <1>10, <1>11, QuietEntry

-----------------------------------------------------------------------------
\* The invariant holds always.
LEMMA QuietStep ==
    ASSUME QuietInv, [Next]_vars
    PROVE  QuietInv'
<1>1. ASSUME NEW t \in Threads, Step(t) PROVE QuietInv'
  <2>1. CASE StartRefused(t)
    <3>1. UNCHANGED <<at, call, files, handle, mounted, tableSem, fileSem, usable, ops,
                      unmountSem, halting>>
      BY <2>1 DEF StartRefused, tfsVars, vfsVars
    <3>2. QED
      BY <3>1 DEF QuietInv, Shapes, Counted, Inside, HaltWaits, PlacesHeld, PlaceHeld,
                  HandlesHeld, Using
  <2>2. QED
    BY <1>1, <2>1, QuietStart, QuietEnd, QuietTables, QuietClaim, QuietOpened, QuietFsSteps
       DEF Step, CallStep
<1>2. CASE PowerFailure
  BY <1>2, QuietReboot DEF PowerFailure
<1>3. CASE UNCHANGED vars
  <2>1. UNCHANGED <<at, call, files, handle, mounted, tableSem, fileSem, usable, ops,
                    unmountSem, halting>>
    BY <1>3 DEF vars, tfsVars, vfsVars, history
  <2>2. QED
    BY <2>1 DEF QuietInv, Shapes, Counted, Inside, HaltWaits, PlacesHeld, PlaceHeld,
                HandlesHeld, Using
<1>4. QED
  BY <1>1, <1>2, <1>3, QuietHalt DEF Next

\* A filesystem is unmounted only when no thread is inside it: vfs_ops counts the threads
\* between vfs_start_op and vfs_end_op, the operations of a filesystem find it mounted, and
\* vfs_deinit goes on to the unmount only when that count is zero.
THEOREM UnmountedWhenQuietAlways == Spec => []UnmountedWhenQuiet
<1>1. Init => QuietInv
  BY QuietBoot DEF Init
<1>2. QuietInv /\ [Next]_vars => QuietInv'
  BY QuietStep
<1>3. QuietInv => UnmountedWhenQuiet
  <2> SUFFICES ASSUME QuietInv PROVE UnmountedWhenQuiet
    OBVIOUS
  <2>1. ops = Cardinality({t \in Threads : at[t] # "idle"})
    BY DEF QuietInv, Counted, Inside
  <2>2. \A t \in Threads : at[t] \in TfsPlaces => mounted
    BY InsideKeepsHaltOut DEF TfsPlaces, WritePlaces
  <2>3. halting \in {"again", "table", "files", "unmount"} => ops = 0
    BY DEF QuietInv, HaltWaits
  <2>4. QED BY <2>1, <2>2, <2>3 DEF UnmountedWhenQuiet
<1>4. QED
  BY <1>1, <1>2, <1>3, PTL DEF Spec

-----------------------------------------------------------------------------
\* The types of what is on the disk and in the buffers, which they keep on a torn disk
\* as well.
DataBlocks == Blocks \ SystemBlocks
Entries == {FreeEntry} \cup [name : Names, inode : DataBlocks]
HalfEntries == [name : Names, inode : {-1}]
Inodes == [size : Nat, blocks : Seq(DataBlocks)]

DiskTyped ==
    /\ SystemBlocks \subseteq bat /\ bat \subseteq Blocks
    /\ dir \in [Slots -> Entries]
    /\ dirbuf \in [Slots -> Entries \cup HalfEntries]
    /\ DOMAIN block = DataBlocks
    /\ \A b \in DataBlocks : IsInode(b) => block[b] \in Inodes

\* The lock is held at the writes; which operation writes what; and an entry without an
\* inode is not on its way to the disk.
AtWrite(t) ==
    /\ at[t] \in WritePlaces <=> fsLock = t
    /\ at[t] \in {"write_bat", "write_dir"} =>
           call[t].op \in {"create", "remove"} /\ dirbuf \in [Slots -> Entries]
    /\ at[t] = "write_bat" => SystemBlocks \subseteq buf.bat /\ buf.bat \subseteq Blocks
    /\ at[t] \in {"write_inode", "write_zeros"} => call[t].op = "create"
    /\ at[t] = "write_data" => call[t].op = "write"

BufferTyped ==
    /\ DOMAIN buf = {"bat", "inode"} /\ buf.inode \in Inodes
    /\ fsLock \in Threads \cup {NoThread}
    /\ \A t \in Threads : AtWrite(t)

CallTyped(t) ==
    /\ call[t].op \in {"open", "create", "remove", "read", "write"} => call[t].name \in Names
    /\ at[t] \notin {"end", "unlock", "give_up"} => call[t].arg \in Nat
    /\ at[t] = "tfs_opened" => call[t].k \in Slots

CallsTyped == \A t \in Threads : CallTyped(t)

FileRows == [open : BOOLEAN, fileid : {0} \cup DataBlocks, seek : Nat]

EntryTyped(h) ==
    /\ handle[h].user \in Threads \cup {NoThread}
    /\ files[h].open <=> handle[h].name \in Names
    /\ handle[h].removed \in BOOLEAN

FilesTyped == files \in [Handles -> FileRows] /\ \A h \in Handles : EntryTyped(h)

SemsTyped == {tableSem, fileSem} \subseteq Threads \cup {NoThread, Halter}

TypedInv == DiskTyped /\ BufferTyped /\ CallsTyped /\ FilesTyped /\ SemsTyped

\* Blocks are numbers, and those of the system come first.
LEMMA BlockNumbers ==
    /\ Blocks \subseteq Nat /\ SystemBlocks \subseteq Blocks
    /\ DataBlocks \subseteq Blocks /\ 0 \notin DataBlocks /\ -1 \notin DataBlocks
    /\ 0 \in Blocks /\ \A b \in DataBlocks : b > 2
BY TfsAssumption DEF Blocks, SystemBlocks, DataBlocks

LEMMA EmptyTyped ==
    /\ EmptyDir \in [Slots -> Entries] /\ EmptyDir \in [Slots -> Entries \cup HalfEntries]
    /\ Inode(0, <<>>) \in Inodes /\ DOMAIN NoBuffer = {"bat", "inode"}
    /\ NoBuffer.inode \in Inodes /\ NoBuffer.bat = {}
    /\ ClosedFile \in FileRows
BY DEF EmptyDir, Entries, Inode, Inodes, NoBuffer, ClosedFile, FileRows

LEMMA TypedBoot ==
    ASSUME Booted(fsLock, dirbuf, buf, at, call, mounted, named, files, tableSem, fileSem,
                  usable, ops, unmountSem, halting, handle)
    PROVE  BufferTyped /\ CallsTyped /\ FilesTyped /\ SemsTyped /\ dirbuf = EmptyDir
<1>1. /\ fsLock = NoThread /\ dirbuf = EmptyDir /\ buf = NoBuffer
      /\ at = [t \in Threads |-> "idle"] /\ call = [t \in Threads |-> NoCall]
      /\ files = [h \in Handles |-> ClosedFile] /\ handle = [h \in Handles |-> NotInUse]
      /\ tableSem = NoThread /\ fileSem = NoThread
  BY DEF Booted
<1>2. BufferTyped
  BY <1>1, EmptyTyped, TfsAssumption DEF BufferTyped, AtWrite, WritePlaces
<1>3. CallsTyped
  BY <1>1 DEF CallsTyped, CallTyped, NoCall
<1>4. FilesTyped
  BY <1>1, EmptyTyped, TfsAssumption DEF FilesTyped, EntryTyped, ClosedFile, NotInUse
<1>5. QED
  BY <1>1, <1>2, <1>3, <1>4 DEF SemsTyped

LEMMA TypedReboot ==
    ASSUME Booted(fsLock', dirbuf', buf', at', call', mounted', named', files', tableSem',
                  fileSem', usable', ops', unmountSem', halting', handle')
    PROVE  (BufferTyped /\ CallsTyped /\ FilesTyped /\ SemsTyped)' /\ dirbuf' = EmptyDir
<1>1. /\ fsLock' = NoThread /\ dirbuf' = EmptyDir /\ buf' = NoBuffer
      /\ at' = [t \in Threads |-> "idle"] /\ call' = [t \in Threads |-> NoCall]
      /\ files' = [h \in Handles |-> ClosedFile] /\ handle' = [h \in Handles |-> NotInUse]
      /\ tableSem' = NoThread /\ fileSem' = NoThread
  BY DEF Booted
<1>2. BufferTyped'
  BY <1>1, EmptyTyped, TfsAssumption DEF BufferTyped, AtWrite, WritePlaces
<1>3. CallsTyped'
  BY <1>1 DEF CallsTyped, CallTyped, NoCall
<1>4. FilesTyped'
  BY <1>1, EmptyTyped, TfsAssumption DEF FilesTyped, EntryTyped, ClosedFile, NotInUse
<1>5. QED
  BY <1>1, <1>2, <1>3, <1>4 DEF SemsTyped

LEMMA TypedInit == Init => TypedInv
<1> SUFFICES ASSUME Init PROVE TypedInv
  OBVIOUS
<1>1. BufferTyped /\ CallsTyped /\ FilesTyped /\ SemsTyped /\ dirbuf = EmptyDir
  BY TypedBoot DEF Init
<1>2. DiskTyped
  <2>1. bat = SystemBlocks /\ dir = EmptyDir /\ block = [b \in DataBlocks |-> Data(Zeros)]
    BY DEF Init, FormattedDisk, DataBlocks
  <2>2. \A b \in DataBlocks : ~IsInode(b)
    BY <2>1 DEF IsInode, Data
  <2>3. QED BY <1>1, <2>1, <2>2, BlockNumbers, EmptyTyped DEF DiskTyped
<1>3. QED
  BY <1>1, <1>2 DEF TypedInv

-----------------------------------------------------------------------------
\* The steps outside the filesystem leave the disk and the buffers alone.
OutsideMove(t) ==
    /\ KeepTfs
    /\ OneMoves(t) /\ at[t] \notin WritePlaces /\ at'[t] \notin WritePlaces
    /\ \A u \in Threads \ {t} : call'[u] = call[u]

LEMMA TypedOutside ==
    ASSUME TypedInv, NEW t \in Threads, OutsideMove(t), CallTyped(t)', FilesTyped', SemsTyped'
    PROVE  TypedInv'
<1>1. /\ UNCHANGED <<bat, dir, block, fsLock, dirbuf, buf>>
      /\ \A u \in Threads \ {t} : at'[u] = at[u] /\ call'[u] = call[u]
  BY DEF OutsideMove, KeepTfs, disk, OneMoves
<1>2. DiskTyped'
  BY <1>1 DEF TypedInv, DiskTyped, IsInode
<1>3. BufferTyped'
  <2>1. ASSUME NEW u \in Threads PROVE AtWrite(u)'
    <3>1. AtWrite(u)
      BY DEF TypedInv, BufferTyped
    <3>2. CASE u = t
      BY <1>1, <3>1, <3>2 DEF OutsideMove, AtWrite, WritePlaces
    <3>3. CASE u # t
      BY <1>1, <3>1, <3>3 DEF AtWrite
    <3>4. QED BY <3>2, <3>3
  <2>2. QED BY <1>1, <2>1 DEF TypedInv, BufferTyped
<1>4. CallsTyped'
  <2>1. ASSUME NEW u \in Threads, u # t PROVE CallTyped(u)'
    BY <1>1, <2>1 DEF TypedInv, CallsTyped, CallTyped
  <2>2. QED BY <2>1 DEF CallsTyped
<1>5. QED
  BY <1>2, <1>3, <1>4 DEF TypedInv

LEMMA TypedStart ==
    ASSUME QuietInv, TypedInv, NEW t \in Threads, StartOp(t)
    PROVE  TypedInv'
<1>0. Shapes /\ HandlesHeld
  BY DEF QuietInv
<1>1. /\ at[t] = "idle" /\ Calls(t) /\ KeepTfs
      /\ UNCHANGED <<files, tableSem, fileSem, handle>>
      /\ OneMoves(t) /\ at'[t] = FirstPlace(call'[t].op)
  BY <1>0, Moved DEF StartOp, KeepTfs
<1>2. /\ \A u \in Threads \ {t} : call'[u] = call[u]
      /\ Made(t, call'[t])
  BY <1>0, <1>1, CallMade
<1>3. at'[t] \in {"table", "files", "tfs"}
  BY <1>1, <1>2 DEF Made, Ops, FirstPlace
<1>4. OutsideMove(t)
  BY <1>1, <1>2, <1>3 DEF OutsideMove, WritePlaces
<1>5. CallTyped(t)'
  <2>1. call'[t].op \in {"read", "write"} => call'[t].name \in Names
    BY <1>0, <1>2, TfsAssumption DEF Made, UseOf, HandlesHeld, TypedInv, FilesTyped, EntryTyped
  <2>2. QED BY <1>2, <1>3, <2>1 DEF Made, CallTyped
<1>6. FilesTyped' /\ SemsTyped'
  BY <1>1 DEF TypedInv, FilesTyped, EntryTyped, SemsTyped
<1>7. QED
  BY <1>4, <1>5, <1>6, TypedOutside

LEMMA TypedEnd ==
    ASSUME QuietInv, TypedInv, NEW t \in Threads, EndOp(t)
    PROVE  TypedInv'
<1>0. Shapes
  BY DEF QuietInv
<1>1. /\ at[t] = "end" /\ KeepTfs /\ UNCHANGED <<files, tableSem, fileSem, handle>>
      /\ call' = [call EXCEPT ![t] = NoCall] /\ OneMoves(t) /\ at'[t] = "idle"
  BY <1>0, Moved DEF EndOp, history, KeepTfs
<1>2. call'[t] = NoCall /\ \A u \in Threads \ {t} : call'[u] = call[u]
  BY <1>0, <1>1, CallIs
<1>3. OutsideMove(t)
  BY <1>1, <1>2 DEF OutsideMove, WritePlaces
<1>4. CallTyped(t)'
  BY <1>1, <1>2 DEF CallTyped, NoCall
<1>5. FilesTyped' /\ SemsTyped'
  BY <1>1 DEF TypedInv, FilesTyped, EntryTyped, SemsTyped
<1>6. QED
  BY <1>3, <1>4, <1>5, TypedOutside

LEMMA TypedTables ==
    ASSUME QuietInv, TypedInv, NEW t \in Threads,
           Mount(t) \/ LockTable(t) \/ UnmountCheck(t) \/ UnlockTable(t) \/ UnmountFs(t)
    PROVE  TypedInv'
<1>0. Shapes
  BY DEF QuietInv
<1>1. KeepTfs /\ UNCHANGED <<call, files, handle>>
      /\ {tableSem', fileSem'} \subseteq {tableSem, fileSem, t, NoThread}
  BY DEF Mount, LockTable, UnmountCheck, UnlockTable, UnmountFs, history
<1>2. /\ OneMoves(t) /\ at[t] \in {"table", "files", "unmount", "unlock"}
      /\ at'[t] \in {"end", "files", "tfs", "unmount"}
      /\ at[t] = "unlock" => at'[t] = "end"
  <2>1. \A p : MoveTo(t, p) => OneMoves(t) /\ at'[t] = p
    BY <1>0, Moved
  <2>2. QED
    BY <2>1 DEF Mount, LockTable, UnmountCheck, UnlockTable, UnmountFs, TableOp, FilesOp
<1>3. OutsideMove(t)
  BY <1>1, <1>2 DEF OutsideMove, WritePlaces
<1>4. CallTyped(t)'
  BY <1>1, <1>2 DEF TypedInv, CallsTyped, CallTyped
<1>5. FilesTyped' /\ SemsTyped'
  BY <1>1 DEF TypedInv, FilesTyped, EntryTyped, SemsTyped
<1>6. QED
  BY <1>3, <1>4, <1>5, TypedOutside

\* Whoever uses an entry has a handle of it.
LEMMA UsesEntry ==
    ASSUME QuietInv, NEW t \in Threads,
           \/ at[t] \in {"tfs_opened", "give_up", "advance"}
           \/ at[t] = "files" /\ call[t].op \in {"close", "seek"}
           \/ at[t] \in TfsPlaces /\ call[t].op \in {"open", "read", "write"}
    PROVE  Using(t) /\ call[t].handle \in Handles /\ files[call[t].handle].open
<1>1. Using(t)
  BY DEF QuietInv, PlacesHeld, PlaceHeld, Using, TfsPlaces, WritePlaces
<1>2. QED
  BY <1>1 DEF QuietInv, HandlesHeld

\* One entry of the table of open files is changed.
LEMMA EntryChanged ==
    ASSUME TypedInv, Shapes, NEW x \in Handles, NEW f \in FileRows, NEW d,
           files' = [files EXCEPT ![x] = f], handle' = [handle EXCEPT ![x] = d],
           d.user \in Threads \cup {NoThread}, f.open <=> d.name \in Names,
           d.removed \in BOOLEAN
    PROVE  FilesTyped'
<1>1. files' \in [Handles -> FileRows]
  BY DEF TypedInv, FilesTyped
<1>2. ASSUME NEW h \in Handles PROVE EntryTyped(h)'
  <2>1. files \in [Handles -> FileRows] /\ DOMAIN handle = Handles
    BY DEF TypedInv, FilesTyped, Shapes
  <2>2. CASE h = x
    BY <2>1, <2>2 DEF EntryTyped
  <2>3. CASE h # x
    BY <2>1, <2>3 DEF EntryTyped, TypedInv, FilesTyped
  <2>4. QED BY <2>2, <2>3
<1>3. QED
  BY <1>1, <1>2 DEF FilesTyped

LEMMA TypedClaim ==
    ASSUME QuietInv, TypedInv, NEW t \in Threads, ClaimFile(t)
    PROVE  TypedInv'
<1>0. Shapes
  BY DEF QuietInv
<1>1. /\ at[t] = "files" /\ call[t].op = "open" /\ KeepTfs
      /\ tableSem' = NoThread /\ UNCHANGED fileSem
  BY DEF ClaimFile, FilesOp
<1>2. \A p : MoveTo(t, p) => OneMoves(t) /\ at'[t] = p
  BY <1>0, Moved
<1>3. SemsTyped'
  BY <1>1 DEF TypedInv, SemsTyped
<1>4. CallTyped(t)
  BY DEF TypedInv, CallsTyped
<1>5. CASE MoveTo(t, "end") /\ UNCHANGED <<files, handle, call>>
  <2>1. OutsideMove(t) /\ at'[t] = "end"
    BY <1>1, <1>2, <1>5 DEF OutsideMove, WritePlaces
  <2>2. CallTyped(t)' /\ FilesTyped'
    BY <1>4, <1>5, <2>1 DEF CallTyped, TypedInv, FilesTyped, EntryTyped
  <2>3. QED BY <1>3, <2>1, <2>2, TypedOutside
<1>6. ASSUME NEW x \in ClosedHandles,
             files' = [files EXCEPT ![x] = Claimed(x)],
             handle' = [handle EXCEPT ![x].name = call[t].name],
             call' = [call EXCEPT ![t].handle = x],
             MoveTo(t, "tfs")
      PROVE  TypedInv'
  <2>1. OneMoves(t) /\ at'[t] = "tfs"
    BY <1>2, <1>6
  <2>2. /\ \A u \in Threads \ {t} : call'[u] = call[u]
        /\ call'[t].op = "open" /\ call'[t].name = call[t].name /\ call'[t].arg = call[t].arg
    <3> DEFINE c == [call[t] EXCEPT !.handle = x]
    <3>1. c.op = "open" /\ c.name = call[t].name /\ c.arg = call[t].arg
      BY <1>0, <1>1 DEF Shapes, CallFields
    <3>2. call' = [call EXCEPT ![t] = c]
      BY <1>6
    <3> HIDE DEF c
    <3>3. QED BY <1>0, <3>1, <3>2, CallIs
  <2>3. OutsideMove(t)
    BY <1>1, <2>1, <2>2 DEF OutsideMove, WritePlaces
  <2>4. CallTyped(t)'
    BY <1>1, <1>4, <2>1, <2>2 DEF CallTyped
  <2>5. FilesTyped'
    <3> DEFINE f == Claimed(x)
               d == [handle[x] EXCEPT !.name = call[t].name]
    <3>1. x \in Handles /\ files[x] \in FileRows /\ EntryTyped(x)
      BY DEF ClosedHandles, TypedInv, FilesTyped
    <3>2. f \in FileRows /\ f.open
      BY <3>1 DEF FileRows, Claimed
    <3>3. /\ d.user = handle[x].user /\ d.name = call[t].name
          /\ d.removed = handle[x].removed
      BY <1>0, <3>1 DEF Shapes
    <3>4. call[t].name \in Names
      BY <1>1, <1>4 DEF CallTyped
    <3>5. files' = [files EXCEPT ![x] = f] /\ handle' = [handle EXCEPT ![x] = d]
      BY <1>6
    <3> HIDE DEF f, d
    <3>6. QED BY <1>0, <3>1, <3>2, <3>3, <3>4, <3>5, EntryChanged DEF EntryTyped
  <2>6. QED BY <1>3, <2>3, <2>4, <2>5, TypedOutside
<1>7. QED
  BY <1>5, <1>6 DEF ClaimFile

LEMMA TypedOpened ==
    ASSUME QuietInv, TypedInv, NEW t \in Threads, OpenReturn(t) \/ CloseFile(t) \/ MoveSeek(t)
    PROVE  TypedInv'
<1> DEFINE x == call[t].handle
<1>0. Shapes
  BY DEF QuietInv
<1>1. /\ at[t] \in {"tfs_opened", "give_up", "files", "advance"}
      /\ at[t] = "files" => call[t].op \in {"close", "seek"}
      /\ UNCHANGED <<call, tableSem, fileSem>> /\ KeepTfs
      /\ \E p \in {"give_up", "end"} : MoveTo(t, p)
  BY DEF OpenReturn, CloseFile, MoveSeek, history
<1>2. OneMoves(t) /\ at'[t] \in {"give_up", "end"}
  BY <1>0, <1>1, Moved
<1>3. OutsideMove(t)
  BY <1>1, <1>2 DEF OutsideMove, WritePlaces
<1>4. x \in Handles /\ files[x].open
  BY <1>1, UsesEntry
<1>5. CallTyped(t)
  BY DEF TypedInv, CallsTyped
<1>6. CallTyped(t)'
  BY <1>1, <1>2, <1>5 DEF CallTyped
<1>7. SemsTyped'
  BY <1>1 DEF TypedInv, SemsTyped
<1>8. files[x] \in FileRows /\ EntryTyped(x) /\ handle[x].name \in Names
  BY <1>4 DEF TypedInv, FilesTyped, EntryTyped
<1>9. FilesTyped'
  <2> HIDE DEF x
  <2>1. CASE UNCHANGED <<files, handle>>
    BY <2>1 DEF TypedInv, FilesTyped, EntryTyped
  <2>2. CASE OpenReturn(t)
    <3> DEFINE i == dirbuf[call[t].k].inode
               f == [open |-> TRUE, fileid |-> i, seek |-> 0]
               d == [handle[x] EXCEPT !.user = t]
    <3>1. \/ UNCHANGED <<files, handle>>
          \/ /\ ~(i < 0)
             /\ files' = [files EXCEPT ![x] = f]
             /\ handle' = [handle EXCEPT ![x] = d]
      BY <2>2 DEF OpenReturn, x
    <3>2. i \in {0, -1} \cup DataBlocks
      <4>1. call[t].k \in Slots
        BY <1>5, <2>2 DEF OpenReturn, CallTyped
      <4>2. QED
        BY <4>1 DEF TypedInv, DiskTyped, Entries, HalfEntries, FreeEntry
    <3>3. ~(i < 0) => f \in FileRows /\ f.open
      BY <3>2 DEF FileRows
    <3>4. d.user = t /\ d.name = handle[x].name /\ d.removed = handle[x].removed
      BY <1>0, <1>4 DEF Shapes
    <3> HIDE DEF i, f, d
    <3>5. QED BY <1>0, <1>4, <1>8, <2>1, <3>1, <3>3, <3>4, EntryChanged DEF EntryTyped
  <2>3. CASE CloseFile(t)
    <3> DEFINE f == [files[x] EXCEPT !.open = FALSE]
    <3>1. files' = [files EXCEPT ![x] = f] /\ handle' = [handle EXCEPT ![x] = NotInUse]
      BY <2>3 DEF CloseFile, x
    <3>2. f \in FileRows /\ f.open = FALSE
      BY <1>8 DEF FileRows
    <3>3. /\ NotInUse.user = NoThread /\ NotInUse.name \notin Names
          /\ NotInUse.removed \in BOOLEAN
      BY TfsAssumption DEF NotInUse
    <3> HIDE DEF f
    <3>4. QED BY <1>0, <1>4, <3>1, <3>2, <3>3, EntryChanged
  <2>4. CASE MoveSeek(t)
    <3>1. UNCHANGED handle /\ \E n \in Nat : files' = [files EXCEPT ![x].seek = n]
      <4>1. call[t].arg \in Nat /\ files[x].seek \in Nat
        BY <1>5, <1>8, <2>4 DEF MoveSeek, CallTyped, FileRows
      <4>2. files[x].seek + call[t].arg \in Nat
        BY <4>1
      <4>3. \/ files' = [files EXCEPT ![x].seek = call[t].arg]
            \/ files' = [files EXCEPT ![x].seek = files[x].seek + call[t].arg]
        BY <2>4 DEF MoveSeek, x
      <4>4. UNCHANGED handle
        BY <2>4 DEF MoveSeek, history
      <4>5. QED BY <4>1, <4>2, <4>3, <4>4
    <3>2. PICK n \in Nat : files' = [files EXCEPT ![x].seek = n]
      BY <3>1
    <3> DEFINE f == [files[x] EXCEPT !.seek = n]
    <3>3. f \in FileRows /\ f.open = files[x].open
      BY <1>8 DEF FileRows
    <3>4. files' = [files EXCEPT ![x] = f]
      BY <3>2
    <3> HIDE DEF f
    <3>5. files' \in [Handles -> FileRows] /\ \A h \in Handles : files'[h].open = files[h].open
      BY <1>4, <3>3, <3>4 DEF TypedInv, FilesTyped
    <3>6. QED BY <3>1, <3>5 DEF TypedInv, FilesTyped, EntryTyped
  <2>5. QED BY <2>2, <2>3, <2>4
<1>10. QED
  BY <1>3, <1>6, <1>7, <1>9, TypedOutside

-----------------------------------------------------------------------------
\* The filesystem's steps.  Whoever takes one has the lock, or nobody has.
SameUsers ==
    \A h \in Handles : /\ handle'[h].user = handle[h].user
                       /\ handle'[h].name = handle[h].name
                       /\ handle'[h].removed \in BOOLEAN

InsideMove(t) ==
    /\ fsLock \in {t, NoThread} /\ fsLock' \in {t, NoThread}
    /\ OneMoves(t)
    /\ \A u \in Threads \ {t} : call'[u] = call[u]
    /\ UNCHANGED <<files, tableSem, fileSem>>
    /\ SameUsers

LEMMA OthersOut ==
    ASSUME TypedInv, NEW t \in Threads, fsLock \in {t, NoThread}
    PROVE  \A u \in Threads \ {t} : at[u] \notin WritePlaces
BY TfsAssumption DEF TypedInv, BufferTyped, AtWrite

LEMMA TypedInside ==
    ASSUME TypedInv, NEW t \in Threads, InsideMove(t), DiskTyped',
           DOMAIN buf' = {"bat", "inode"}, buf'.inode \in Inodes,
           AtWrite(t)', CallTyped(t)'
    PROVE  TypedInv'
<1>1. \A u \in Threads \ {t} : at'[u] = at[u] /\ call'[u] = call[u] /\ at[u] \notin WritePlaces
  BY OthersOut DEF InsideMove, OneMoves
<1>2. BufferTyped'
  <2>1. ASSUME NEW u \in Threads, u # t PROVE AtWrite(u)'
    <3>1. at'[u] \notin WritePlaces /\ fsLock' # u
      BY <1>1, <2>1, TfsAssumption DEF InsideMove
    <3>2. QED BY <3>1 DEF AtWrite, WritePlaces
  <2>2. QED BY <2>1 DEF BufferTyped, InsideMove
<1>3. CallsTyped'
  <2>1. ASSUME NEW u \in Threads, u # t PROVE CallTyped(u)'
    BY <1>1, <2>1 DEF TypedInv, CallsTyped, CallTyped
  <2>2. QED BY <2>1 DEF CallsTyped
<1>4. FilesTyped' /\ SemsTyped'
  BY DEF InsideMove, SameUsers, TypedInv, FilesTyped, EntryTyped, SemsTyped
<1>5. QED
  BY <1>2, <1>3, <1>4 DEF TypedInv

LEMMA TypedReturn ==
    ASSUME QuietInv, TypedInv, NEW t \in Threads, NEW x, Return(t, x),
           fsLock \in {t, NoThread}, call[t].op \in {"read", "write"} => x \in Int,
           UNCHANGED vfsVars, DiskTyped', SameUsers
    PROVE  TypedInv'
<1>1. /\ CallSet(t, x, call[t].k) /\ OneMoves(t) /\ Left(t)
      /\ at'[t] = "advance" => x > 0
      /\ fsLock' = NoThread /\ buf' = NoBuffer
  BY Returned DEF QuietInv
<1>2. InsideMove(t)
  BY <1>1 DEF InsideMove, CallSet, vfsVars
<1>3. AtWrite(t)'
  BY <1>1, TfsAssumption DEF Left, AtWrite, WritePlaces
<1>4. CallTyped(t)'
  BY <1>1 DEF TypedInv, CallsTyped, CallTyped, CallSet, Left
<1>5. QED
  BY <1>1, <1>2, <1>3, <1>4, EmptyTyped, TypedInside

LEMMA BlockWritten ==
    ASSUME DiskTyped, NEW i, NEW v, block' = [block EXCEPT ![i] = v],
           "size" \in DOMAIN v => v \in Inodes, UNCHANGED <<bat, dir, dirbuf>>
    PROVE  DiskTyped'
<1>1. ASSUME NEW b \in DataBlocks, IsInode(b)' PROVE block'[b] \in Inodes
  <2>1. b \in DOMAIN block
    BY DEF DiskTyped
  <2>2. CASE b = i
    BY <1>1, <2>1, <2>2 DEF IsInode
  <2>3. CASE b # i
    BY <1>1, <2>1, <2>3 DEF IsInode, DiskTyped
  <2>4. QED BY <2>2, <2>3
<1>2. QED
  BY <1>1 DEF DiskTyped

\* The directory in the buffer, and the disk as it is.
LEMMA BufferFilled ==
    ASSUME DiskTyped, UNCHANGED disk,
           dirbuf' \in [Slots -> Entries \cup HalfEntries]
    PROVE  DiskTyped'
BY DEF DiskTyped, disk, IsInode

LEMMA AsInodeTyped ==
    ASSUME DiskTyped, NEW b \in DataBlocks
    PROVE  AsInode(b) \in Inodes /\ FreedBlocks(b) \subseteq DataBlocks
<1>1. AsInode(b) \in Inodes
  BY EmptyTyped DEF DiskTyped, AsInode
<1>2. ToSet(AsInode(b).blocks) \subseteq DataBlocks
  BY <1>1 DEF Inodes, ToSet
<1>3. QED
  BY <1>1, <1>2 DEF FreedBlocks

\* A directory entry with a name has an inode.
LEMMA NamedEntry ==
    ASSUME DiskTyped, NEW s \in Slots
    PROVE  /\ dir[s].name # NoName \/ dir[s].inode # 0 => dir[s].inode \in DataBlocks
           /\ dir[s].name # NoName <=> dir[s].inode # 0
           /\ dir[s].name = NoName => dir[s] = FreeEntry
BY TfsAssumption, BlockNumbers DEF DiskTyped, Entries, FreeEntry

LEMMA SlotNumbers == Slots \in SUBSET Nat /\ MaxFiles - 1 \in Nat /\ Slots = 0 .. MaxFiles - 1
BY TfsAssumption DEF Slots

LEMMA FoundEntry ==
    ASSUME NEW n, EntriesOf(dir, n) # {}
    PROVE  Least(EntriesOf(dir, n)) \in Slots /\ dir[Least(EntriesOf(dir, n))].name = n
<1>1. EntriesOf(dir, n) \in SUBSET Nat /\ EntriesOf(dir, n) \subseteq Slots
  BY SlotNumbers DEF EntriesOf
<1>2. Least(EntriesOf(dir, n)) \in EntriesOf(dir, n)
  BY <1>1, LeastIsIn
<1>3. QED
  BY <1>2 DEF EntriesOf

LEMMA FreeSlot ==
    ASSUME FreeEntries(dir) # {}
    PROVE  Greatest(FreeEntries(dir)) \in Slots /\ dir[Greatest(FreeEntries(dir))].inode = 0
<1>1. FreeEntries(dir) \in SUBSET (0 .. MaxFiles - 1)
  BY SlotNumbers DEF FreeEntries
<1>2. Greatest(FreeEntries(dir)) \in FreeEntries(dir)
  BY <1>1, SlotNumbers, GreatestIsIn
<1>3. QED
  BY <1>2 DEF FreeEntries

\* What tfs_create and tfs_remove have done when they come to their first write.
Taken(t, s, q) ==
    /\ Distinct(q, Blocks \ bat) /\ Len(q) = BlocksFor(call[t].arg) + 1
    /\ dirbuf' = [dir EXCEPT ![s] = [name |-> call[t].name, inode |-> Head(q)]]
    /\ fsLock' = t
    /\ buf' = [bat |-> bat \cup ToSet(q), inode |-> Inode(call[t].arg, Tail(q))]
    /\ MoveTo(t, "write_bat")
    /\ UNCHANGED call

LEMMA CreateEffect ==
    ASSUME TypedInv, NEW t \in Threads, TfsCreate(t)
    PROVE  /\ EntriesOf(dir, call[t].name) = {}
           /\ \E s \in Slots :
                  /\ dir[s] = FreeEntry
                  /\ \/ /\ Return(t, -1)
                        /\ \E i \in DataBlocks \cup {-1} :
                               dirbuf' = [dir EXCEPT ![s] = [name |-> call[t].name, inode |-> i]]
                     \/ \E q : Taken(t, s, q)
<1> DEFINE needed == BlocksFor(call[t].arg) + 1
           found == FindAndSet(bat, needed)
           inode == IF found = <<>> THEN -1 ELSE Head(found)
           s == Greatest(FreeEntries(dir))
<1>0. DiskTyped /\ CallTyped(t)
  BY DEF TypedInv, CallsTyped
<1>1. /\ at[t] = "tfs" /\ CreatePossible(t)
      /\ dirbuf' = [dir EXCEPT ![s] = [name |-> call[t].name, inode |-> inode]]
      /\ IF Len(found) < needed
         THEN Return(t, -1)
         ELSE /\ fsLock' = t
              /\ buf' = [bat |-> bat \cup ToSet(found), inode |-> Inode(call[t].arg, Tail(found))]
              /\ MoveTo(t, "write_bat")
              /\ UNCHANGED call
  BY DEF TfsCreate, Enters
<1>2. EntriesOf(dir, call[t].name) = {} /\ s \in Slots /\ dir[s] = FreeEntry
  BY <1>0, <1>1, FreeSlot, NamedEntry DEF CreatePossible
<1>3. needed \in Nat /\ needed > 0
  <2>1. call[t].arg \in Nat
    BY <1>0, <1>1 DEF CallTyped
  <2>2. BlocksFor(call[t].arg) \in Nat
    BY <2>1, BlocksForIsNat
  <2>3. QED BY <2>2
<1>4. Distinct(found, Blocks \ bat) /\ Len(found) <= needed /\ Len(found) \in Nat
  <2> HIDE DEF needed
  <2>1. Distinct(found, Blocks \ bat) /\ Len(found) <= needed
    BY <1>3, FoundDistinct
  <2>2. QED BY <2>1 DEF Distinct
<1>5. found # <<>> => Head(found) \in DataBlocks
  <2> HIDE DEF found
  <2>1. found # <<>> => Head(found) \in Blocks \ bat
    BY <1>4 DEF Distinct
  <2>2. QED BY <1>0, <2>1 DEF DiskTyped, DataBlocks
<1>6. CASE Len(found) < needed
  <2>1. inode \in DataBlocks \cup {-1}
    BY <1>5
  <2> HIDE DEF inode, s, found, needed
  <2>2. QED BY <1>1, <1>2, <1>6, <2>1
<1>7. CASE ~(Len(found) < needed)
  <2>1. Len(found) = needed /\ found # <<>>
    <3> HIDE DEF found, needed
    <3>1. Len(found) = needed
      BY <1>3, <1>4, <1>7
    <3>2. QED BY <1>3, <3>1
  <2>2. inode = Head(found)
    BY <2>1
  <2>3. Taken(t, s, found)
    <3> HIDE DEF s, found, inode
    <3>1. QED BY <1>1, <1>4, <1>7, <2>1, <2>2 DEF Taken
  <2> HIDE DEF s, found, inode
  <2>4. QED BY <1>2, <2>3
<1>8. QED
  BY <1>6, <1>7

LEMMA TakenBlocks ==
    ASSUME DiskTyped, NEW t \in Threads, NEW s \in Slots, NEW q, Taken(t, s, q),
           call[t].arg \in Nat
    PROVE  /\ q # <<>> /\ Head(q) \in DataBlocks \ bat
           /\ Distinct(Tail(q), DataBlocks \ bat)
           /\ Len(Tail(q)) = BlocksFor(call[t].arg)
           /\ Head(q) \notin ToSet(Tail(q))
           /\ ToSet(q) = {Head(q)} \cup ToSet(Tail(q))
<1>1. BlocksFor(call[t].arg) \in Nat
  BY BlocksForIsNat
<1>2. q \in Seq(DataBlocks \ bat) /\ Len(q) = BlocksFor(call[t].arg) + 1 /\ Len(q) > 0
  <2>1. Blocks \ bat = DataBlocks \ bat
    BY DEF DiskTyped, DataBlocks
  <2>2. QED BY <1>1, <2>1 DEF Taken, Distinct
<1> DEFINE r == Tail(q)
           m == BlocksFor(call[t].arg)
<1>3. /\ q # <<>> /\ Head(q) = q[1] /\ r \in Seq(DataBlocks \ bat) /\ Len(r) = m
      /\ \A i \in 1 .. m : r[i] = q[i + 1]
  <2> HIDE DEF m
  <2>1. QED BY <1>1, <1>2 DEF m
<1> HIDE DEF r, m
<1>4. m \in Nat /\ Len(q) = m + 1 /\ \A i, j \in 1 .. m + 1 : q[i] = q[j] => i = j
  BY <1>1, <1>2 DEF Taken, Distinct, m
<1>5. Distinct(r, DataBlocks \ bat)
  <2>1. \A i, j \in 1 .. m : r[i] = r[j] => i = j
    <3>1. ASSUME NEW i \in 1 .. m, NEW j \in 1 .. m, r[i] = r[j] PROVE i = j
      <4>1. i + 1 \in 1 .. m + 1 /\ j + 1 \in 1 .. m + 1
        BY <1>4
      <4>2. i + 1 = j + 1
        BY <1>3, <1>4, <3>1, <4>1
      <4>3. QED BY <1>4, <4>2
    <3>2. QED BY <3>1
  <2>2. QED BY <1>3, <2>1 DEF Distinct
<1>6. q[1] \notin ToSet(r)
  <2>1. ASSUME NEW i \in 1 .. m, r[i] = q[1] PROVE FALSE
    <3>1. i + 1 \in 1 .. m + 1 /\ 1 \in 1 .. m + 1
      BY <1>4
    <3>2. i + 1 = 1
      BY <1>3, <1>4, <2>1, <3>1
    <3>3. QED BY <3>2
  <2>2. QED BY <1>3, <2>1 DEF ToSet
<1>7. ToSet(q) = {q[1]} \cup ToSet(r)
  <2>1. DOMAIN q = 1 .. m + 1 /\ DOMAIN r = 1 .. m
    BY <1>2, <1>3, <1>4
  <2>2. ASSUME NEW i \in 1 .. m + 1 PROVE q[i] \in {q[1]} \cup ToSet(r)
    <3>1. CASE i = 1
      BY <3>1
    <3>2. CASE i # 1
      <4>1. i - 1 \in 1 .. m /\ (i - 1) + 1 = i
        BY <1>4, <3>2
      <4>2. r[i - 1] = q[i]
        BY <1>3, <4>1
      <4>3. QED BY <2>1, <4>1, <4>2 DEF ToSet
    <3>3. QED BY <3>1, <3>2
  <2>3. ASSUME NEW i \in 1 .. m PROVE r[i] \in ToSet(q)
    <3>1. i + 1 \in 1 .. m + 1
      BY <1>4
    <3>2. QED BY <1>3, <2>1, <3>1 DEF ToSet
  <2>4. q[1] \in ToSet(q)
    <3>1. 1 \in 1 .. m + 1
      BY <1>4
    <3>2. QED BY <2>1, <3>1 DEF ToSet
  <2>5. \A y \in ToSet(q) : y \in {q[1]} \cup ToSet(r)
    BY <2>1, <2>2 DEF ToSet
  <2>6. \A y \in ToSet(r) : y \in ToSet(q)
    BY <2>1, <2>3 DEF ToSet
  <2>7. QED BY <2>4, <2>5, <2>6
<1>8. Head(q) \in DataBlocks \ bat
  BY <1>2, <1>3
<1>9. QED
  BY <1>3, <1>5, <1>6, <1>7, <1>8 DEF r, m

\* The entry that is removed.
Dropped(t, s) ==
    /\ dir[s].name = call[t].name
    /\ dirbuf' = [dir EXCEPT ![s] = FreeEntry]
    /\ fsLock' = t
    /\ buf' = [bat |-> bat \ FreedBlocks(dir[s].inode), inode |-> AsInode(dir[s].inode)]
    /\ MoveTo(t, "write_bat")
    /\ UNCHANGED call

LEMMA RemoveEffect ==
    ASSUME NEW t \in Threads, TfsRemove(t)
    PROVE  \/ Return(t, -1) /\ dirbuf' = dir
           \/ \E s \in Slots : Dropped(t, s)
<1> DEFINE found == EntriesOf(dir, call[t].name)
<1>1. CASE found = {}
  BY <1>1 DEF TfsRemove
<1>2. CASE found # {}
  <2>1. Least(found) \in Slots /\ dir[Least(found)].name = call[t].name
    BY <1>2, FoundEntry
  <2>2. Dropped(t, Least(found))
    BY <1>2, <2>1 DEF TfsRemove, Dropped
  <2> HIDE DEF found
  <2>3. QED BY <2>1, <2>2
<1>3. QED
  BY <1>1, <1>2
LEMMA TypedOpen ==
    ASSUME QuietInv, TypedInv, NEW t \in Threads, TfsOpen(t), UNCHANGED vfsVars, SameUsers
    PROVE  TypedInv'
<1>0. Shapes /\ DiskTyped /\ CallTyped(t)
  BY DEF QuietInv, TypedInv, CallsTyped
<1>1. /\ at[t] = "tfs" /\ call[t].op = "open" /\ fsLock = NoThread
      /\ dirbuf' = dir /\ UNCHANGED disk
      /\ \/ Return(t, -1)
         \/ /\ EntriesOf(dir, call[t].name) # {}
            /\ call' = [call EXCEPT ![t].k = Least(EntriesOf(dir, call[t].name))]
            /\ MoveTo(t, "tfs_opened")
            /\ UNCHANGED <<fsLock, buf>>
  BY DEF TfsOpen, Enters
<1>2. DiskTyped'
  BY <1>0, <1>1, BufferFilled DEF DiskTyped
<1>3. CASE Return(t, -1)
  BY <1>1, <1>2, <1>3, TypedReturn
<1>4. CASE ~Return(t, -1)
  <2> DEFINE s == Least(EntriesOf(dir, call[t].name))
  <2>1. s \in Slots
    BY <1>1, <1>4, FoundEntry
  <2> HIDE DEF s
  <2>2. CallSet(t, call[t].arg, s) /\ OneMoves(t) /\ at'[t] = "tfs_opened"
        /\ UNCHANGED <<fsLock, buf>>
    BY <1>0, <1>1, <1>4, CallAssigned, Moved DEF s
  <2>3. InsideMove(t)
    BY <1>1, <2>2 DEF InsideMove, CallSet, vfsVars
  <2>4. AtWrite(t)'
    BY <1>1, <2>2, TfsAssumption DEF AtWrite, WritePlaces
  <2>5. CallTyped(t)'
    BY <1>0, <1>1, <2>1, <2>2 DEF CallTyped, CallSet
  <2>6. QED
    BY <1>2, <2>2, <2>3, <2>4, <2>5, TypedInside DEF TypedInv, BufferTyped
<1>5. QED
  BY <1>3, <1>4

LEMMA TypedCreate ==
    ASSUME QuietInv, TypedInv, NEW t \in Threads, TfsCreate(t), UNCHANGED vfsVars, SameUsers
    PROVE  TypedInv'
<1>0. Shapes /\ DiskTyped /\ CallTyped(t)
  BY DEF QuietInv, TypedInv, CallsTyped
<1>1. /\ at[t] = "tfs" /\ call[t].op = "create" /\ fsLock = NoThread /\ UNCHANGED disk
      /\ call[t].arg \in Nat /\ call[t].name \in Names
  BY <1>0 DEF TfsCreate, Enters, CallTyped
<1>2. ASSUME NEW s \in Slots, NEW i \in DataBlocks \cup {-1},
             dirbuf' = [dir EXCEPT ![s] = [name |-> call[t].name, inode |-> i]]
      PROVE  DiskTyped' /\ (i # -1 => dirbuf' \in [Slots -> Entries])
  <2>1. [name |-> call[t].name, inode |-> i] \in Entries \cup HalfEntries
    BY <1>1 DEF Entries, HalfEntries
  <2>2. i # -1 => [name |-> call[t].name, inode |-> i] \in Entries
    BY <1>1 DEF Entries
  <2> DEFINE e == [name |-> call[t].name, inode |-> i]
  <2> HIDE DEF e
  <2>3. dirbuf' = [dir EXCEPT ![s] = e] /\ dir \in [Slots -> Entries]
    BY <1>0, <1>2 DEF e, DiskTyped
  <2>4. dirbuf' \in [Slots -> Entries \cup HalfEntries]
    BY <2>1, <2>3 DEF e
  <2>5. i # -1 => dirbuf' \in [Slots -> Entries]
    BY <2>2, <2>3 DEF e
  <2>6. QED BY <1>0, <1>1, <2>4, <2>5, BufferFilled
<1>3. ASSUME NEW s \in Slots, Return(t, -1), NEW i \in DataBlocks \cup {-1},
             dirbuf' = [dir EXCEPT ![s] = [name |-> call[t].name, inode |-> i]]
      PROVE  TypedInv'
  BY <1>1, <1>2, <1>3, TypedReturn
<1>4. ASSUME NEW s \in Slots, NEW q, Taken(t, s, q)
      PROVE  TypedInv'
  <2>1. /\ Head(q) \in DataBlocks /\ Tail(q) \in Seq(DataBlocks)
        /\ ToSet(q) = {Head(q)} \cup ToSet(Tail(q))
    <3>1. Distinct(Tail(q), DataBlocks \ bat)
      BY <1>0, <1>1, <1>4, TakenBlocks
    <3>2. QED BY <1>0, <1>1, <1>4, <3>1, TakenBlocks DEF Distinct
  <2>2. ToSet(q) \subseteq DataBlocks
    BY <2>1 DEF ToSet
  <2>3. DiskTyped' /\ dirbuf' \in [Slots -> Entries]
    BY <1>2, <1>4, <2>1, BlockNumbers DEF Taken
  <2>4. /\ buf' = [bat |-> bat \cup ToSet(q), inode |-> Inode(call[t].arg, Tail(q))]
        /\ fsLock' = t /\ UNCHANGED call /\ OneMoves(t) /\ at'[t] = "write_bat"
    BY <1>0, <1>4, Moved DEF Taken
  <2>5. DOMAIN buf' = {"bat", "inode"} /\ buf'.inode \in Inodes
    BY <1>1, <2>1, <2>4 DEF Inode, Inodes
  <2>6. InsideMove(t)
    BY <1>1, <2>4 DEF InsideMove, vfsVars
  <2>7. AtWrite(t)'
    <3>1. SystemBlocks \subseteq buf'.bat /\ buf'.bat \subseteq Blocks
      BY <1>0, <2>2, <2>4, BlockNumbers DEF DiskTyped
    <3>2. QED BY <1>1, <2>3, <2>4, <3>1 DEF AtWrite, WritePlaces
  <2>8. CallTyped(t)'
    BY <1>1, <2>4 DEF CallTyped
  <2>9. QED
    BY <2>3, <2>5, <2>6, <2>7, <2>8, TypedInside
<1>5. QED
  BY <1>3, <1>4, CreateEffect

LEMMA TypedRemove ==
    ASSUME QuietInv, TypedInv, NEW t \in Threads, TfsRemove(t), UNCHANGED vfsVars, SameUsers
    PROVE  TypedInv'
<1>0. Shapes /\ DiskTyped /\ CallTyped(t)
  BY DEF QuietInv, TypedInv, CallsTyped
<1>1. /\ at[t] = "tfs" /\ call[t].op = "remove" /\ fsLock = NoThread /\ UNCHANGED disk
      /\ call[t].arg \in Nat /\ call[t].name \in Names
  BY <1>0 DEF TfsRemove, Enters, CallTyped
<1>2. CASE Return(t, -1) /\ dirbuf' = dir
  <2>1. DiskTyped'
    BY <1>0, <1>1, <1>2, BufferFilled DEF DiskTyped
  <2>2. QED BY <1>1, <1>2, <2>1, TypedReturn
<1>3. ASSUME NEW s \in Slots, Dropped(t, s) PROVE TypedInv'
  <2>1. dir[s].inode \in DataBlocks
    BY <1>0, <1>1, <1>3, NamedEntry, TfsAssumption DEF Dropped
  <2>2. dirbuf' \in [Slots -> Entries] /\ DiskTyped'
    <3>1. FreeEntry \in Entries /\ dir \in [Slots -> Entries]
      BY <1>0 DEF Entries, DiskTyped
    <3>2. dirbuf' \in [Slots -> Entries]
      BY <1>3, <3>1 DEF Dropped
    <3>3. QED BY <1>0, <1>1, <3>2, BufferFilled
  <2>3. /\ buf' = [bat |-> bat \ FreedBlocks(dir[s].inode), inode |-> AsInode(dir[s].inode)]
        /\ fsLock' = t /\ UNCHANGED call /\ OneMoves(t) /\ at'[t] = "write_bat"
    BY <1>0, <1>3, Moved DEF Dropped
  <2>4. AsInode(dir[s].inode) \in Inodes /\ FreedBlocks(dir[s].inode) \subseteq DataBlocks
    BY <1>0, <2>1, AsInodeTyped
  <2>5. DOMAIN buf' = {"bat", "inode"} /\ buf'.inode \in Inodes
    BY <2>3, <2>4
  <2>6. InsideMove(t)
    BY <1>1, <2>3 DEF InsideMove, vfsVars
  <2>7. AtWrite(t)'
    <3>1. SystemBlocks \subseteq buf'.bat /\ buf'.bat \subseteq Blocks
      BY <1>0, <2>3, <2>4 DEF DiskTyped, DataBlocks
    <3>2. QED BY <1>1, <2>2, <2>3, <3>1 DEF AtWrite, WritePlaces
  <2>8. CallTyped(t)'
    BY <1>1, <2>3 DEF CallTyped
  <2>9. QED
    BY <2>2, <2>5, <2>6, <2>7, <2>8, TypedInside
<1>4. QED
  BY <1>2, <1>3, RemoveEffect
\* The part of a read or write inside the file.
LEMMA InsideFile ==
    ASSUME QuietInv, TypedInv, NEW t \in Threads, at[t] = "tfs",
           call[t].op \in {"read", "write"},
           ~BadAccess(files[call[t].handle].fileid, files[call[t].handle].seek)
    PROVE  LET i == files[call[t].handle].fileid
               n == InFile(AsInode(i), files[call[t].handle].seek, call[t].arg)
           IN /\ i \in DataBlocks /\ AsInode(i) \in Inodes
              /\ n \in Nat /\ n <= call[t].arg
              /\ files[call[t].handle].seek + n <= AsInode(i).size
<1> DEFINE x == call[t].handle
           i == files[x].fileid
           p == files[x].seek
           a == call[t].arg
<1>1. files[x] \in FileRows /\ a \in Nat
  <2>1. x \in Handles
    BY UsesEntry DEF TfsPlaces
  <2>2. CallTyped(t)
    BY DEF TypedInv, CallsTyped
  <2>3. QED BY <2>1, <2>2 DEF TypedInv, FilesTyped, CallTyped
<1>2. i \in {0} \cup DataBlocks /\ p \in Nat
  BY <1>1 DEF FileRows
<1> HIDE DEF i, p, a
<1>3. ~BadAccess(i, p)
  BY DEF i, p
<1>4. i \in DataBlocks /\ ~(p > AsInode(i).size)
  BY <1>2, <1>3 DEF BadAccess
<1>5. AsInode(i) \in Inodes
  BY <1>4, AsInodeTyped DEF TypedInv
<1> DEFINE z == AsInode(i).size
<1>6. z \in Nat /\ p <= z
  BY <1>2, <1>4, <1>5 DEF Inodes
<1>7. InFile(AsInode(i), p, a) = IF a < z - p THEN a ELSE z - p
  BY DEF InFile
<1> HIDE DEF z
<1>8. InFile(AsInode(i), p, a) \in Nat /\ InFile(AsInode(i), p, a) <= a
      /\ p + InFile(AsInode(i), p, a) <= z
  BY <1>1, <1>2, <1>6, <1>7 DEF a
<1>9. QED
  BY <1>4, <1>5, <1>8 DEF i, p, a, z

\* Operations that only read, and those that fail.
LEMMA TypedReads ==
    ASSUME QuietInv, TypedInv, NEW t \in Threads, UNCHANGED vfsVars, SameUsers,
           \/ TfsCreateRefused(t) \/ TfsGetFree(t) \/ DiskError(t)
           \/ TfsRead(t, files[call[t].handle].fileid, files[call[t].handle].seek)
    PROVE  TypedInv'
<1>0. DiskTyped /\ AtWrite(t)
  BY DEF TypedInv, BufferTyped
<1>1. CASE TfsCreateRefused(t)
  <2>1. DiskTyped'
    BY <1>0, <1>1, BufferFilled DEF TfsCreateRefused, DiskTyped
  <2>2. QED BY <1>1, <2>1, TypedReturn DEF TfsCreateRefused, Enters
<1>2. CASE ~TfsCreateRefused(t)
  <2>1. UNCHANGED <<disk, dirbuf>>
    BY <1>2 DEF TfsGetFree, DiskError, TfsRead
  <2>2. DiskTyped'
    BY <1>0, <2>1, BufferFilled DEF DiskTyped
  <2>3. CASE TfsGetFree(t)
    BY <2>2, <2>3, TypedReturn DEF TfsGetFree, Enters
  <2>4. CASE DiskError(t)
    BY <1>0, <2>2, <2>4, TypedReturn DEF DiskError, AtWrite
  <2>5. CASE TfsRead(t, files[call[t].handle].fileid, files[call[t].handle].seek)
    <3> DEFINE i == files[call[t].handle].fileid
               p == files[call[t].handle].seek
               n == InFile(AsInode(i), p, call[t].arg)
    <3>1. at[t] = "tfs" /\ call[t].op = "read" /\ fsLock = NoThread
          /\ IF BadAccess(i, p) THEN Return(t, -1) ELSE Return(t, n)
      BY <2>5 DEF TfsRead, Enters
    <3>2. ~BadAccess(i, p) => n \in Nat
      BY <3>1, InsideFile
    <3> HIDE DEF i, p, n
    <3>3. \E y \in Int : Return(t, y)
      BY <3>1, <3>2
    <3>4. QED BY <2>2, <3>1, <3>3, TypedReturn
  <2>6. QED BY <1>2, <2>3, <2>4, <2>5
<1>3. QED
  BY <1>1, <1>2

\* What a write has done when it comes to its first block.
Writing(t, i, p) ==
    LET n == InFile(AsInode(i), p, call[t].arg)
    IN /\ ~BadAccess(i, p) /\ n # 0
       /\ fsLock' = t
       /\ buf' = [bat |-> {}, inode |-> AsInode(i)]
       /\ CallSet(t, n, p \div BlockSize)
       /\ OneMoves(t) /\ at'[t] = "write_data"

LEMMA WriteEffect ==
    ASSUME Shapes, NEW t \in Threads, NEW i, NEW p, TfsWrite(t, i, p)
    PROVE  /\ Return(t, -1) \/ Return(t, 0) \/ Writing(t, i, p)
           /\ at[t] = "tfs" /\ call[t].op = "write" /\ fsLock = NoThread
           /\ UNCHANGED <<disk, dirbuf, struck>>
<1> DEFINE n == InFile(AsInode(i), p, call[t].arg)
<1>1. /\ IF BadAccess(i, p)
         THEN Return(t, -1)
         ELSE IF n = 0
              THEN Return(t, 0)
              ELSE /\ fsLock' = t
                   /\ buf' = [bat |-> {}, inode |-> AsInode(i)]
                   /\ call' = [call EXCEPT ![t].arg = n, ![t].k = p \div BlockSize]
                   /\ MoveTo(t, "write_data")
      /\ at[t] = "tfs" /\ call[t].op = "write" /\ fsLock = NoThread
      /\ UNCHANGED <<disk, dirbuf, struck>>
  BY DEF TfsWrite, Enters
<1>2. CASE BadAccess(i, p) \/ n = 0
  <2> HIDE DEF n
  <2>1. QED BY <1>1, <1>2
<1>3. CASE ~BadAccess(i, p) /\ n # 0
  <2> DEFINE m == p \div BlockSize
  <2>1. CallSet(t, n, m)
    <3>1. call' = [call EXCEPT ![t].arg = n, ![t].k = m]
      BY <1>1, <1>3
    <3> HIDE DEF n, m
    <3>2. QED BY <3>1, CallAssigned
  <2>2. OneMoves(t) /\ at'[t] = "write_data"
    BY <1>1, <1>3, Moved
  <2>3. Writing(t, i, p)
    BY <1>1, <1>3, <2>1, <2>2 DEF Writing
  <2>4. QED BY <1>1, <2>3
<1>4. QED
  BY <1>2, <1>3

LEMMA TypedWrite ==
    ASSUME QuietInv, TypedInv, NEW t \in Threads, UNCHANGED vfsVars, SameUsers,
           TfsWrite(t, files[call[t].handle].fileid, files[call[t].handle].seek)
    PROVE  TypedInv'
<1> DEFINE i == files[call[t].handle].fileid
           p == files[call[t].handle].seek
<1>0. Shapes /\ DiskTyped
  BY DEF QuietInv, TypedInv
<1>1. /\ Return(t, -1) \/ Return(t, 0) \/ Writing(t, i, p)
      /\ at[t] = "tfs" /\ call[t].op = "write" /\ fsLock = NoThread
      /\ UNCHANGED <<disk, dirbuf, struck>>
  BY <1>0, WriteEffect
<1>2. DiskTyped'
  BY <1>0, <1>1, BufferFilled DEF DiskTyped
<1>3. CASE Return(t, -1) \/ Return(t, 0)
  BY <1>1, <1>2, <1>3, TypedReturn
<1>4. CASE Writing(t, i, p)
  <2> DEFINE n == InFile(AsInode(i), p, call[t].arg)
             m == p \div BlockSize
  <2>1. AsInode(i) \in Inodes /\ n \in Nat
    BY <1>1, <1>4, InsideFile DEF Writing
  <2>2. /\ fsLock' = t /\ buf' = [bat |-> {}, inode |-> AsInode(i)]
        /\ CallSet(t, n, m) /\ OneMoves(t) /\ at'[t] = "write_data"
    BY <1>4 DEF Writing
  <2> HIDE DEF i, n, m
  <2>3. DOMAIN buf' = {"bat", "inode"} /\ buf'.inode \in Inodes
    BY <2>1, <2>2
  <2>4. InsideMove(t)
    BY <1>1, <2>2 DEF InsideMove, CallSet, vfsVars
  <2>5. AtWrite(t)'
    BY <1>1, <2>2 DEF AtWrite, WritePlaces, CallSet
  <2>6. CallTyped(t)'
    BY <1>1, <2>1, <2>2 DEF CallTyped, CallSet, TypedInv, CallsTyped
  <2>7. QED
    BY <1>2, <2>3, <2>4, <2>5, <2>6, TypedInside
<1>5. QED
  BY <1>1, <1>3, <1>4

LEMMA TypedWrites ==
    ASSUME QuietInv, TypedInv, NEW t \in Threads, UNCHANGED vfsVars, SameUsers,
           \/ WriteBat(t) \/ WriteDir(t) \/ WriteInode(t) \/ WriteZeros(t)
           \/ WriteData(t, files[call[t].handle].seek)
    PROVE  TypedInv'
<1>0. /\ Shapes /\ DiskTyped /\ CallTyped(t) /\ AtWrite(t)
      /\ DOMAIN buf = {"bat", "inode"} /\ buf.inode \in Inodes
  BY DEF QuietInv, TypedInv, CallsTyped, BufferTyped
<1>1. fsLock = t /\ at[t] \in WritePlaces
  BY <1>0 DEF AtWrite, WriteBat, WriteDir, WriteInode, WriteZeros, WriteData, WritePlaces
<1>2. call[t].arg \in Nat
  BY <1>0, <1>1 DEF CallTyped, WritePlaces
<1>3. ASSUME DiskTyped', Return(t, 0) PROVE TypedInv'
  BY <1>1, <1>3, TypedReturn
<1>4. ASSUME DiskTyped', UNCHANGED <<fsLock, buf>>, NEW m, CallSet(t, call[t].arg, m),
             OneMoves(t), at'[t] \in WritePlaces, AtWrite(t)'
      PROVE  TypedInv'
  <2>1. InsideMove(t)
    BY <1>1, <1>4 DEF InsideMove, CallSet, vfsVars
  <2>2. CallTyped(t)'
    BY <1>0, <1>2, <1>4 DEF CallTyped, CallSet, WritePlaces
  <2>3. QED BY <1>0, <1>4, <2>1, <2>2, TypedInside
<1>5. CASE WriteBat(t)
  <2>1. /\ at[t] = "write_bat" /\ bat' = buf.bat
        /\ UNCHANGED <<dir, block, fsLock, dirbuf, buf, call, struck>>
        /\ OneMoves(t) /\ at'[t] = "write_dir"
    BY <1>0, <1>5, Moved DEF WriteBat
  <2>2. DiskTyped'
    BY <1>0, <2>1 DEF AtWrite, DiskTyped, IsInode
  <2>3. AtWrite(t)'
    BY <1>0, <2>1 DEF AtWrite, WritePlaces
  <2>4. CallSet(t, call[t].arg, call[t].k)
    BY <1>0, <2>1, CallAssigned
  <2>5. QED BY <1>4, <2>1, <2>2, <2>3, <2>4 DEF WritePlaces
<1>6. CASE WriteDir(t)
  <2>1. /\ at[t] = "write_dir" /\ dir' = dirbuf
        /\ UNCHANGED <<bat, block, dirbuf, struck>>
        /\ \/ call[t].op = "remove" /\ Return(t, 0)
           \/ /\ call[t].op # "remove" /\ MoveTo(t, "write_inode")
              /\ UNCHANGED <<fsLock, buf, call>>
    BY <1>6 DEF WriteDir
  <2>2. DiskTyped'
    BY <1>0, <2>1 DEF AtWrite, DiskTyped, IsInode
  <2>3. CASE Return(t, 0)
    BY <1>3, <2>2, <2>3
  <2>4. CASE ~Return(t, 0)
    <3>1. call[t].op = "create" /\ UNCHANGED <<fsLock, buf, call>>
          /\ OneMoves(t) /\ at'[t] = "write_inode"
      BY <1>0, <2>1, <2>4, Moved DEF AtWrite
    <3>2. AtWrite(t)'
      BY <1>1, <3>1 DEF AtWrite, WritePlaces
    <3>3. CallSet(t, call[t].arg, call[t].k)
      BY <1>0, <3>1, CallAssigned
    <3>4. QED BY <1>4, <2>2, <3>1, <3>2, <3>3 DEF WritePlaces
  <2>5. QED BY <2>3, <2>4
<1>7. CASE WriteInode(t)
  <2> DEFINE i == dirbuf[Least(EntriesOf(dirbuf, call[t].name))].inode
  <2>1. /\ at[t] = "write_inode" /\ block' = [block EXCEPT ![i] = buf.inode]
        /\ UNCHANGED <<bat, dir, dirbuf, struck>>
        /\ \/ Return(t, 0)
           \/ /\ call' = [call EXCEPT ![t].k = 1] /\ MoveTo(t, "write_zeros")
              /\ UNCHANGED <<fsLock, buf>>
    BY <1>7 DEF WriteInode
  <2>2. DiskTyped'
    <3> HIDE DEF i
    <3>1. QED BY <1>0, <2>1, BlockWritten
  <2>3. CASE Return(t, 0)
    BY <1>3, <2>2, <2>3
  <2>4. CASE ~Return(t, 0)
    <3>1. CallSet(t, call[t].arg, 1) /\ OneMoves(t) /\ at'[t] = "write_zeros"
          /\ UNCHANGED <<fsLock, buf>>
      BY <1>0, <2>1, <2>4, CallAssigned, Moved
    <3>2. AtWrite(t)'
      BY <1>0, <1>1, <2>1, <3>1 DEF AtWrite, WritePlaces, CallSet
    <3>3. QED BY <1>4, <2>2, <3>1, <3>2 DEF WritePlaces
  <2>5. QED BY <2>3, <2>4
<1>8. CASE WriteZeros(t)
  <2> DEFINE b == buf.inode.blocks[call[t].k]
             m == call[t].k + 1
  <2>1. /\ at[t] = "write_zeros" /\ block' = [block EXCEPT ![b] = Data(Zeros)]
        /\ UNCHANGED <<bat, dir, dirbuf, struck>>
        /\ \/ Return(t, 0)
           \/ call' = [call EXCEPT ![t].k = m] /\ UNCHANGED <<fsLock, buf, at>>
    BY <1>8 DEF WriteZeros
  <2>2. DiskTyped'
    <3>1. "size" \notin DOMAIN Data(Zeros)
      BY DEF Data
    <3> HIDE DEF b
    <3>2. QED BY <1>0, <2>1, <3>1, BlockWritten
  <2>3. CASE Return(t, 0)
    BY <1>3, <2>2, <2>3
  <2>4. CASE ~Return(t, 0)
    <3> HIDE DEF m
    <3>1. CallSet(t, call[t].arg, m) /\ UNCHANGED <<fsLock, buf, at>>
      BY <1>0, <2>1, <2>4, CallAssigned
    <3>2. AtWrite(t)' /\ OneMoves(t)
      BY <1>0, <1>1, <2>1, <3>1 DEF AtWrite, WritePlaces, CallSet, OneMoves, Shapes
    <3>3. QED BY <1>1, <1>4, <2>2, <3>1, <3>2
  <2>5. QED BY <2>3, <2>4
<1>9. CASE WriteData(t, files[call[t].handle].seek)
  <2> DEFINE m == call[t].k + 1
             b == buf.inode.blocks[m]
  <2>1. /\ at[t] = "write_data"
        /\ \E v : block' = [block EXCEPT ![b] = Data(v)]
        /\ UNCHANGED <<bat, dir, dirbuf, struck>>
        /\ \/ Return(t, call[t].arg)
           \/ call' = [call EXCEPT ![t].k = m] /\ UNCHANGED <<fsLock, buf, at>>
    BY <1>9 DEF WriteData
  <2>2. DiskTyped'
    <3>1. PICK v : block' = [block EXCEPT ![b] = Data(v)]
      BY <2>1
    <3>2. "size" \notin DOMAIN Data(v)
      BY DEF Data
    <3> HIDE DEF b
    <3>3. QED BY <1>0, <2>1, <3>1, <3>2, BlockWritten
  <2>3. CASE Return(t, call[t].arg)
    BY <1>1, <1>2, <2>2, <2>3, TypedReturn
  <2>4. CASE ~Return(t, call[t].arg)
    <3> HIDE DEF m
    <3>1. CallSet(t, call[t].arg, m) /\ UNCHANGED <<fsLock, buf, at>>
      BY <1>0, <2>1, <2>4, CallAssigned
    <3>2. AtWrite(t)' /\ OneMoves(t)
      BY <1>0, <1>1, <2>1, <3>1 DEF AtWrite, WritePlaces, CallSet, OneMoves, Shapes
    <3>3. QED BY <1>1, <1>4, <2>2, <3>1, <3>2
  <2>5. QED BY <2>3, <2>4
<1>10. QED
  BY <1>5, <1>6, <1>7, <1>8, <1>9
LEMMA TypedFsSteps ==
    ASSUME QuietInv, TypedInv, NEW t \in Threads,
           FsStep(t) \/ RemoveFile(t) \/ RequestFails(t)
    PROVE  TypedInv'
<1>0. /\ \A h \in Handles : EntryTyped(h)
      /\ DOMAIN handle = Handles
      /\ \A h \in Handles : DOMAIN handle[h] = {"user", "name", "removed"}
  BY DEF QuietInv, Shapes, TypedInv, FilesTyped
<1>1. CASE FsStep(t) \/ RequestFails(t)
  <2>1. UNCHANGED <<vfsVars, handle>>
    BY <1>1 DEF FsStep, RequestFails, history
  <2>2. SameUsers
    BY <1>0, <2>1 DEF SameUsers, EntryTyped
  <2>3. QED
    BY <1>1, <2>1, <2>2, TypedOpen, TypedCreate, TypedReads, TypedWrite, TypedWrites
       DEF FsStep, RequestFails
<1>2. CASE RemoveFile(t)
  <2>1. UNCHANGED vfsVars /\ TfsRemove(t)
    BY <1>2 DEF RemoveFile
  <2>2. ASSUME NEW h \in Handles
        PROVE  /\ handle'[h].user = handle[h].user /\ handle'[h].name = handle[h].name
               /\ handle'[h].removed \in BOOLEAN
    <3> DEFINE d == [handle[h] EXCEPT !.removed = TRUE]
    <3>1. d.user = handle[h].user /\ d.name = handle[h].name /\ d.removed = TRUE
      BY <1>0
    <3>2. handle'[h] = IF handle[h].name = call[t].name THEN d ELSE handle[h]
      BY <1>2 DEF RemoveFile
    <3>3. handle[h].removed \in BOOLEAN
      BY <1>0 DEF EntryTyped
    <3> HIDE DEF d
    <3>4. QED BY <3>1, <3>2, <3>3
  <2>3. SameUsers
    BY <2>2 DEF SameUsers
  <2>4. QED BY <2>1, <2>3, TypedRemove
<1>3. QED
  BY <1>1, <1>2

\* The steps that change nothing of this: the call that is refused, the halt, which takes
\* the semaphores for itself, and none at all.
LEMMA TypedRest ==
    ASSUME TypedInv, UNCHANGED <<tfsVars, files, handle>>, SemsTyped'
    PROVE  TypedInv'
<1>1. UNCHANGED <<bat, dir, block, fsLock, dirbuf, buf, at, call, files, handle>>
  BY DEF tfsVars, disk
<1>2. DiskTyped' /\ BufferTyped' /\ CallsTyped' /\ FilesTyped'
  BY <1>1 DEF TypedInv, DiskTyped, IsInode, BufferTyped, AtWrite, CallsTyped, CallTyped,
              FilesTyped, EntryTyped
<1>3. QED
  BY <1>2 DEF TypedInv

LEMMA TypedStep ==
    ASSUME QuietInv, TypedInv, [Next]_vars
    PROVE  TypedInv'
<1>1. ASSUME NEW t \in Threads, Step(t) PROVE TypedInv'
  <2>1. CASE StartRefused(t)
    <3>1. UNCHANGED <<tfsVars, files, handle, tableSem, fileSem>>
      BY <2>1 DEF StartRefused, vfsVars
    <3>2. QED BY <3>1, TypedRest DEF TypedInv, SemsTyped
  <2>2. QED
    BY <1>1, <2>1, TypedStart, TypedEnd, TypedTables, TypedClaim, TypedOpened, TypedFsSteps
       DEF Step, CallStep
<1>2. CASE DeinitStep
  <2>1. /\ UNCHANGED <<tfsVars, files, handle>>
        /\ {tableSem', fileSem'} \subseteq {tableSem, fileSem, Halter, NoThread}
    BY <1>2 DEF DeinitStep, Deinit, DeinitWoken, DeinitAgain, DeinitTables, history
  <2>2. QED BY <2>1, TypedRest DEF TypedInv, SemsTyped
<1>3. CASE PowerFailure
  <2>1. UNCHANGED <<bat, dir, block>> /\ dirbuf' = EmptyDir
        /\ BufferTyped' /\ CallsTyped' /\ FilesTyped' /\ SemsTyped'
    BY <1>3, TypedReboot DEF PowerFailure, disk
  <2>2. DiskTyped'
    BY <2>1, EmptyTyped DEF TypedInv, DiskTyped, IsInode
  <2>3. QED BY <2>1, <2>2 DEF TypedInv
<1>4. CASE UNCHANGED vars
  <2>1. UNCHANGED <<tfsVars, files, handle, tableSem, fileSem>>
    BY <1>4 DEF vars, vfsVars, history
  <2>2. QED BY <2>1, TypedRest DEF TypedInv, SemsTyped
<1>5. QED
  BY <1>1, <1>2, <1>3, <1>4 DEF Next

\* The variables of the filesystem have their types.  An entry without an inode, which
\* tfs_create leaves in the shared buffer when the blocks do not suffice, never comes to
\* the disk; and vfs_unmount_sem never holds more than the one signal vfs_deinit waits for.
THEOREM VfsTypeOKAlways == Spec => []VfsTypeOK
<1>1. Init => QuietInv /\ TypedInv
  BY QuietBoot, TypedInit DEF Init
<1>2. QuietInv /\ TypedInv /\ [Next]_vars => QuietInv' /\ TypedInv'
  BY QuietStep, TypedStep
<1>3. QuietInv /\ TypedInv => VfsTypeOK
  <2> SUFFICES ASSUME QuietInv, TypedInv PROVE VfsTypeOK
    OBVIOUS
  <2>1. /\ bat \subseteq Blocks /\ DOMAIN block = Blocks \ SystemBlocks
        /\ fsLock \in Threads \cup {NoThread}
        /\ {tableSem, fileSem} \subseteq Threads \cup {NoThread, Halter}
    BY DEF TypedInv, DiskTyped, BufferTyped, SemsTyped, DataBlocks
  <2>2. /\ Entries \subseteq [name : Names \cup {NoName}, inode : Blocks]
        /\ HalfEntries \subseteq [name : Names \cup {NoName}, inode : Blocks \cup {-1}]
        /\ FileRows \subseteq [open : BOOLEAN, fileid : Blocks, seek : Nat]
    <3>1. DataBlocks \subseteq Blocks /\ 0 \in Blocks
      BY BlockNumbers
    <3>2. FreeEntry \in [name : Names \cup {NoName}, inode : Blocks]
      BY <3>1 DEF FreeEntry
    <3>3. [name : Names, inode : DataBlocks] \subseteq [name : Names \cup {NoName}, inode : Blocks]
      BY <3>1
    <3>4. [name : Names, inode : {-1}]
              \subseteq [name : Names \cup {NoName}, inode : Blocks \cup {-1}]
      OBVIOUS
    <3>5. FileRows \subseteq [open : BOOLEAN, fileid : Blocks, seek : Nat]
      BY <3>1 DEF FileRows
    <3>6. QED BY <3>2, <3>3, <3>4, <3>5 DEF Entries, HalfEntries
  <2>3. Entries \subseteq [name : Names \cup {NoName}, inode : Blocks \cup {-1}]
    BY <2>2
  <2>4. dir \in [Slots -> [name : Names \cup {NoName}, inode : Blocks]]
    BY <2>2 DEF TypedInv, DiskTyped
  <2>5. dirbuf \in [Slots -> [name : Names \cup {NoName}, inode : Blocks \cup {-1}]]
    BY <2>2, <2>3 DEF TypedInv, DiskTyped
  <2>6. files \in [Handles -> [open : BOOLEAN, fileid : Blocks, seek : Nat]]
    BY <2>2 DEF TypedInv, FilesTyped
  <2>7. ops \in 0 .. Cardinality(Threads)
    <3>1. IsFiniteSet(Threads) /\ Inside \subseteq Threads /\ ops = Cardinality(Inside)
      BY TfsAssumption DEF QuietInv, Counted, Inside
    <3>2. QED BY <3>1, FS_Subset, FS_CardinalityType
  <2>8. unmountSem \in {0, 1}
    BY DEF QuietInv, HaltWaits
  <2>9. QED
    BY <2>1, <2>4, <2>5, <2>6, <2>7, <2>8 DEF VfsTypeOK
<1>4. QED
  BY <1>1, <1>2, <1>3, PTL DEF Spec
-----------------------------------------------------------------------------
\* Names.  No name is twice in the directory, and what tfs_create and tfs_remove are about
\* to write there differs from it in one entry.
NamesUnique ==
    \A r, s \in Slots : dir[r].name = dir[s].name /\ dir[s].name # NoName => r = s

Adds(t, s) ==
    /\ call[t].op = "create" /\ dir[s] = FreeEntry /\ EntriesOf(dir, call[t].name) = {}
    /\ dirbuf[s].name = call[t].name

Drops(t, s) == call[t].op = "remove" /\ dir[s].name = call[t].name /\ dirbuf[s] = FreeEntry

OnlyEntry(s) == \A r \in Slots \ {s} : dirbuf[r] = dir[r]

Changing(t) ==
    /\ at[t] \in {"write_bat", "write_dir"} =>
           \E s \in Slots : OnlyEntry(s) /\ (Adds(t, s) \/ Drops(t, s))
    /\ at[t] \in {"write_inode", "write_zeros"} =>
           dirbuf = dir /\ \E s \in Slots : dir[s].name = call[t].name

\* Who opens or uses a file has given its name to the entry; nobody uses a file that is
\* being removed, or was.
Given(t) ==
    /\ Using(t) /\ call[t].op \in {"open", "read", "write"} =>
           handle[call[t].handle].name = call[t].name
    /\ Using(t) /\ call[t].op \in {"read", "write"} =>
           handle[call[t].handle].user # NoThread /\ ~handle[call[t].handle].removed
    /\ \A u \in Threads : call[t].op = "remove" /\ call[u].op \in {"read", "write"} =>
           call[t].name # call[u].name
    /\ at[t] \in WritePlaces /\ call[t].op = "remove" =>
           \A h \in Handles : handle[h].name = call[t].name => handle[h].removed

\* What tfs_open has found is still there when its return statement reads it.
Finds(t) ==
    at[t] = "tfs_opened" /\ ~handle[call[t].handle].removed =>
        dir[call[t].k].name = call[t].name /\ dirbuf[call[t].k] = dir[call[t].k]

Named(h) ==
    files[h].open /\ handle[h].user # NoThread /\ ~handle[h].removed =>
        \E s \in Slots : dir[s] = [name |-> handle[h].name, inode |-> files[h].fileid]

NamesInv ==
    /\ NamesUnique
    /\ \A t \in Threads : Changing(t) /\ Given(t) /\ Finds(t)
    /\ \A h \in Handles : Named(h)

LEMMA NamesInit == Init => NamesInv
<1> SUFFICES ASSUME Init PROVE NamesInv
  OBVIOUS
<1>1. /\ at = [t \in Threads |-> "idle"] /\ call = [t \in Threads |-> NoCall]
      /\ files = [h \in Handles |-> ClosedFile] /\ dir = EmptyDir
  BY DEF Init, Booted, FormattedDisk
<1>2. NamesUnique
  BY <1>1 DEF NamesUnique, EmptyDir, FreeEntry
<1>3. ASSUME NEW t \in Threads PROVE Changing(t) /\ Given(t) /\ Finds(t)
  BY <1>1 DEF Changing, Given, Finds, Using, TfsPlaces, WritePlaces, NoCall
<1>4. \A h \in Handles : Named(h)
  BY <1>1 DEF Named, ClosedFile
<1>5. QED
  BY <1>2, <1>3, <1>4 DEF NamesInv

LEMMA NamesReboot ==
    ASSUME NamesInv, PowerFailure
    PROVE  NamesInv'
<1>1. /\ at' = [t \in Threads |-> "idle"] /\ call' = [t \in Threads |-> NoCall]
      /\ files' = [h \in Handles |-> ClosedFile] /\ dir' = dir
  BY DEF PowerFailure, Booted, disk
<1>2. NamesUnique'
  BY <1>1 DEF NamesInv, NamesUnique
<1>3. ASSUME NEW t \in Threads PROVE (Changing(t) /\ Given(t) /\ Finds(t))'
  BY <1>1 DEF Changing, Given, Finds, Using, TfsPlaces, WritePlaces, NoCall
<1>4. \A h \in Handles : Named(h)'
  BY <1>1 DEF Named, ClosedFile
<1>5. QED
  BY <1>2, <1>3, <1>4 DEF NamesInv

\* Steps in a call leave what it is about as it is.
SameCalls ==
    \A u \in Threads : /\ call'[u].op = call[u].op /\ call'[u].name = call[u].name
                       /\ call'[u].handle = call[u].handle

StillGiven(u) ==
    LET x == call[u].handle
    IN /\ handle'[x].name = handle[x].name
       /\ call[u].op \in {"read", "write"} =>
              /\ handle[x].user # NoThread => handle'[x].user # NoThread
              /\ handle'[x].removed => handle[x].removed

AllRemoved(n) == \A h \in Handles : handle'[h].name = n => handle'[h].removed

LEMMA GivenKept ==
    ASSUME TypedInv, NamesInv, NEW t \in Threads, SameCalls,
           \A u \in Threads \ {t} : at'[u] = at[u],
           Using(t)' => Using(t),
           \A u \in Threads : Using(u) /\ Using(u)' => StillGiven(u),
           \A h \in Handles : handle'[h].name \in Names =>
               handle'[h].name = handle[h].name /\ (handle[h].removed => handle'[h].removed),
           at'[t] \in WritePlaces /\ call[t].op = "remove" =>
               at[t] \in WritePlaces \/ AllRemoved(call[t].name)
    PROVE  \A u \in Threads : Given(u)'
<1> SUFFICES ASSUME NEW u \in Threads PROVE Given(u)'
  OBVIOUS
<1>1. Given(u) /\ CallTyped(u)
  BY DEF NamesInv, TypedInv, CallsTyped
<1>2. /\ call'[u].op = call[u].op /\ call'[u].name = call[u].name
      /\ call'[u].handle = call[u].handle
  BY DEF SameCalls
<1>3. Using(u)' => Using(u) /\ StillGiven(u)
  BY <1>2 DEF Using
<1>4. \A v \in Threads : call'[u].op = "remove" /\ call'[v].op \in {"read", "write"} =>
          call'[u].name # call'[v].name
  BY <1>1 DEF Given, SameCalls
<1>5. ASSUME at'[u] \in WritePlaces, call[u].op = "remove"
      PROVE  AllRemoved(call[u].name)
  <2>1. CASE at[u] \in WritePlaces
    <3>1. call[u].name \in Names
      BY <1>1, <1>5 DEF CallTyped
    <3>2. QED BY <1>1, <1>5, <2>1, <3>1 DEF Given, AllRemoved
  <2>2. CASE at[u] \notin WritePlaces
    BY <1>5, <2>2
  <2>3. QED BY <2>1, <2>2
<1>6. QED
  BY <1>1, <1>2, <1>3, <1>4, <1>5 DEF Given, StillGiven, AllRemoved

\* Outside the filesystem nothing happens to the directory.
LEMMA NamesOutside ==
    ASSUME TypedInv, NamesInv, NEW t \in Threads, OutsideMove(t), at'[t] # "tfs_opened",
           \A u \in Threads \ {t} : at[u] = "tfs_opened" =>
               (handle'[call[u].handle].removed <=> handle[call[u].handle].removed),
           \A u \in Threads : Given(u)',
           \A h \in Handles : Named(h)'
    PROVE  NamesInv'
<1>1. /\ UNCHANGED <<dir, dirbuf>>
      /\ \A u \in Threads \ {t} : at'[u] = at[u] /\ call'[u] = call[u]
      /\ at'[t] \notin WritePlaces
  BY DEF OutsideMove, KeepTfs, disk, OneMoves
<1>2. NamesUnique'
  BY <1>1 DEF NamesInv, NamesUnique
<1>3. ASSUME NEW u \in Threads PROVE Changing(u)' /\ Finds(u)'
  <2>1. CASE u = t
    BY <1>1, <2>1 DEF Changing, Finds, WritePlaces
  <2>2. CASE u # t
    <3>1. Changing(u) /\ Finds(u)
      BY DEF NamesInv
    <3>2. at'[u] = at[u] /\ call'[u] = call[u]
      BY <1>1, <2>2
    <3>3. \A s \in Slots : /\ OnlyEntry(s)' <=> OnlyEntry(s)
                           /\ Adds(u, s)' <=> Adds(u, s)
                           /\ Drops(u, s)' <=> Drops(u, s)
      BY <1>1, <3>2 DEF OnlyEntry, Adds, Drops, EntriesOf
    <3>4. QED BY <1>1, <2>2, <3>1, <3>2, <3>3 DEF Changing, Finds
  <2>3. QED BY <2>1, <2>2
<1>4. QED
  BY <1>2, <1>3 DEF NamesInv

LEMMA NamesStart ==
    ASSUME QuietInv, TypedInv, NamesInv, NEW t \in Threads, StartOp(t)
    PROVE  NamesInv'
<1>0. Shapes
  BY DEF QuietInv
<1>1. /\ at[t] = "idle" /\ Calls(t) /\ KeepTfs /\ UNCHANGED <<files, handle>>
      /\ OneMoves(t) /\ at'[t] = FirstPlace(call'[t].op)
  BY <1>0, Moved DEF StartOp, KeepTfs
<1>2. /\ \A u \in Threads \ {t} : call'[u] = call[u]
      /\ Made(t, call'[t])
  BY <1>0, <1>1, CallMade
<1>3. /\ at'[t] \in {"table", "files", "tfs"}
      /\ call'[t].op = "open" => at'[t] = "table"
  BY <1>1, <1>2 DEF Made, Ops, FirstPlace
<1>4. OutsideMove(t)
  BY <1>1, <1>2, <1>3 DEF OutsideMove, WritePlaces
<1>5. ASSUME NEW u \in Threads PROVE Given(u)'
  <2>1. \A v \in Threads : call'[u].op = "remove" /\ call'[v].op \in {"read", "write"} =>
            call'[u].name # call'[v].name
    BY <1>2 DEF Made, NamesInv, Given
  <2>2. CASE u = t
    <3>1. Using(t)' => call'[t].op # "open"
      BY <1>3 DEF Using, TfsPlaces, WritePlaces
    <3>2. call'[t].op \in {"read", "write"} =>
              LET x == call'[t].handle
              IN handle'[x].name = call'[t].name /\ handle'[x].user # NoThread /\ ~handle'[x].removed
      BY <1>1, <1>2, TfsAssumption DEF Made, UseOf
    <3>3. at'[t] \notin WritePlaces
      BY <1>3 DEF WritePlaces
    <3>4. QED BY <2>1, <2>2, <3>1, <3>2, <3>3 DEF Given
  <2>3. CASE u # t
    <3>1. at'[u] = at[u] /\ call'[u] = call[u]
      BY <1>1, <1>2, <2>3 DEF OneMoves
    <3>2. QED BY <1>1, <2>1, <3>1 DEF NamesInv, Given, Using
  <2>4. QED BY <2>2, <2>3
<1>6. \A h \in Handles : Named(h)'
  BY <1>1 DEF NamesInv, Named, KeepTfs, disk
<1>7. QED
  BY <1>1, <1>3, <1>4, <1>5, <1>6, NamesOutside

LEMMA NamesEnd ==
    ASSUME QuietInv, TypedInv, NamesInv, NEW t \in Threads, EndOp(t)
    PROVE  NamesInv'
<1>0. Shapes
  BY DEF QuietInv
<1>1. /\ at[t] = "end" /\ KeepTfs /\ UNCHANGED <<files, handle>>
      /\ call' = [call EXCEPT ![t] = NoCall] /\ OneMoves(t) /\ at'[t] = "idle"
  BY <1>0, Moved DEF EndOp, history, KeepTfs
<1>2. call'[t] = NoCall /\ \A u \in Threads \ {t} : call'[u] = call[u]
  BY <1>0, <1>1, CallIs
<1>3. OutsideMove(t)
  BY <1>1, <1>2 DEF OutsideMove, WritePlaces
<1>4. ASSUME NEW u \in Threads PROVE Given(u)'
  <2>1. CASE u = t
    BY <1>1, <1>2, <2>1 DEF Given, NoCall, Using, TfsPlaces, WritePlaces
  <2>2. CASE u # t
    <3>1. at'[u] = at[u] /\ call'[u] = call[u]
      BY <1>1, <1>2, <2>2 DEF OneMoves
    <3>2. call'[t].op = "none"
      BY <1>2 DEF NoCall
    <3>3. \A v \in Threads : call'[v].op \in {"read", "write"} => call'[v] = call[v]
      BY <1>2, <3>2
    <3>4. QED BY <1>1, <3>1, <3>3 DEF NamesInv, Given, Using
  <2>3. QED BY <2>1, <2>2
<1>5. \A h \in Handles : Named(h)'
  BY <1>1 DEF NamesInv, Named, KeepTfs, disk
<1>6. QED
  BY <1>1, <1>3, <1>4, <1>5, NamesOutside
LEMMA NamesTables ==
    ASSUME QuietInv, TypedInv, NamesInv, NEW t \in Threads,
           Mount(t) \/ LockTable(t) \/ UnmountCheck(t) \/ UnlockTable(t) \/ UnmountFs(t)
    PROVE  NamesInv'
<1>0. Shapes /\ PlaceHeld(t)
  BY DEF QuietInv, PlacesHeld
<1>1. KeepTfs /\ UNCHANGED <<call, files, handle>>
  BY DEF Mount, LockTable, UnmountCheck, UnlockTable, UnmountFs, history
<1>2. /\ OneMoves(t) /\ at[t] \in {"table", "files", "unmount", "unlock"}
      /\ at'[t] \in {"end", "files", "tfs", "unmount"}
      /\ at'[t] = "tfs" => at[t] = "table" /\ call[t].op \notin {"mount", "unmount", "open"}
      /\ at'[t] = "files" => at[t] = "table" /\ call[t].op \in {"unmount", "open"}
  <2>m. \A p : MoveTo(t, p) => OneMoves(t) /\ at'[t] = p
    BY <1>0, Moved
  <2>1. CASE LockTable(t)
    BY <2>m, <2>1 DEF LockTable
  <2>2. CASE ~LockTable(t)
    BY <2>m, <2>2 DEF Mount, UnmountCheck, UnlockTable, UnmountFs, TableOp, FilesOp
  <2>3. QED BY <2>1, <2>2
<1>3. OutsideMove(t)
  BY <1>1, <1>2 DEF OutsideMove, WritePlaces
<1>4. ~Using(t)'
  BY <1>0, <1>1, <1>2 DEF PlaceHeld, Using, TfsPlaces, WritePlaces
<1>5. /\ SameCalls /\ \A u \in Threads \ {t} : at'[u] = at[u]
      /\ at'[t] \notin WritePlaces
  BY <1>1, <1>2 DEF SameCalls, OneMoves, WritePlaces
<1>6. \A u \in Threads : Using(u) => StillGiven(u)
  BY <1>1 DEF StillGiven
<1>7. \A u \in Threads : Given(u)'
  BY <1>1, <1>4, <1>5, <1>6, GivenKept
<1>8. \A h \in Handles : Named(h)'
  BY <1>1 DEF NamesInv, Named, KeepTfs, disk
<1>9. QED
  BY <1>1, <1>2, <1>3, <1>7, <1>8, NamesOutside

LEMMA NamesClaim ==
    ASSUME QuietInv, TypedInv, NamesInv, NEW t \in Threads, ClaimFile(t)
    PROVE  NamesInv'
<1>0. Shapes /\ PlacesHeld /\ HandlesHeld
  BY DEF QuietInv
<1>1. /\ at[t] = "files" /\ call[t].op = "open" /\ KeepTfs
  BY DEF ClaimFile, FilesOp
<1>2. \A p : MoveTo(t, p) => OneMoves(t) /\ at'[t] = p
  BY <1>0, Moved
<1>3. tableSem = t
  BY <1>0, <1>1 DEF PlacesHeld, PlaceHeld
<1>4. CASE MoveTo(t, "end") /\ UNCHANGED <<files, handle, call>>
  <2>1. OutsideMove(t) /\ at'[t] = "end" /\ OneMoves(t)
    BY <1>1, <1>2, <1>4 DEF OutsideMove, WritePlaces
  <2>2. ~Using(t)' /\ at'[t] \notin WritePlaces
    BY <2>1 DEF Using, TfsPlaces, WritePlaces
  <2>3. SameCalls /\ (\A u \in Threads \ {t} : at'[u] = at[u])
        /\ \A u \in Threads : Using(u) => StillGiven(u)
    BY <1>4, <2>1 DEF SameCalls, OneMoves, StillGiven
  <2>4. \A u \in Threads : Given(u)'
    BY <1>4, <2>2, <2>3, GivenKept
  <2>5. \A h \in Handles : Named(h)'
    BY <1>1, <1>4 DEF NamesInv, Named, KeepTfs, disk
  <2>6. QED BY <1>4, <2>1, <2>4, <2>5, NamesOutside
<1>5. ASSUME NEW x \in ClosedHandles,
             files' = [files EXCEPT ![x] = Claimed(x)],
             handle' = [handle EXCEPT ![x].name = call[t].name],
             call' = [call EXCEPT ![t].handle = x],
             MoveTo(t, "tfs")
      PROVE  NamesInv'
  <2>1. OneMoves(t) /\ at'[t] = "tfs"
    BY <1>2, <1>5
  <2>2. /\ \A u \in Threads \ {t} : call'[u] = call[u]
        /\ call'[t].op = "open" /\ call'[t].name = call[t].name /\ call'[t].handle = x
    <3> DEFINE c == [call[t] EXCEPT !.handle = x]
    <3>1. c.op = "open" /\ c.name = call[t].name /\ c.handle = x
      BY <1>0, <1>1 DEF Shapes, CallFields
    <3>2. call' = [call EXCEPT ![t] = c]
      BY <1>5
    <3> HIDE DEF c
    <3>3. QED BY <1>0, <3>1, <3>2, CallIs
  <2>3. OutsideMove(t)
    BY <1>1, <2>1, <2>2 DEF OutsideMove, WritePlaces
  <2>4. x \in Handles /\ ~files[x].open /\ handle[x].user = NoThread
    BY <1>0 DEF ClosedHandles, HandlesHeld
  <2>5. /\ \A h \in Handles \ {x} : handle'[h] = handle[h] /\ files'[h] = files[h]
        /\ handle'[x].name = call[t].name /\ handle'[x].user = NoThread
    <3> DEFINE d == [handle[x] EXCEPT !.name = call[t].name]
    <3>1. d.name = call[t].name /\ d.user = NoThread
      BY <1>0, <2>4 DEF Shapes
    <3>2. handle' = [handle EXCEPT ![x] = d]
      BY <1>5
    <3> HIDE DEF d
    <3>3. QED BY <1>0, <1>5, <2>4, <3>1, <3>2 DEF Shapes
  <2>6. \A u \in Threads : Using(u) => call[u].handle \in Handles \ {x}
    BY <1>0, <2>4 DEF HandlesHeld
  <2>7. ASSUME NEW u \in Threads PROVE Given(u)'
    <3>1. \A v \in Threads : call'[v].op = call[v].op /\ call'[v].name = call[v].name
      BY <1>1, <2>2
    <3>2. CASE u = t
      BY <1>1, <2>1, <2>2, <2>5, <3>1, <3>2 DEF Given, WritePlaces
    <3>3. CASE u # t
      <4>1. Given(u) /\ at'[u] = at[u] /\ call'[u] = call[u]
        BY <2>1, <2>2, <3>3 DEF NamesInv, OneMoves
      <4>2. ~(at[u] \in WritePlaces /\ call[u].op = "remove")
        <5>1. CASE at[u] \in WritePlaces /\ call[u].op = "remove"
          BY <1>0, <1>3, <3>3, <5>1 DEF PlacesHeld, PlaceHeld, TfsPlaces
        <5>2. QED BY <5>1
      <4>3. Using(u) => handle'[call[u].handle] = handle[call[u].handle]
        BY <2>5, <2>6
      <4>4. \A v \in Threads : call'[u].op = "remove" /\ call'[v].op \in {"read", "write"} =>
                call'[u].name # call'[v].name
        BY <3>1, <4>1 DEF Given
      <4>5. QED BY <4>1, <4>2, <4>3, <4>4 DEF Given, Using
    <3>4. QED BY <3>2, <3>3
  <2>8. ASSUME NEW h \in Handles PROVE Named(h)'
    <3>1. UNCHANGED dir
      BY <1>1 DEF KeepTfs, disk
    <3>2. CASE h = x
      BY <2>5, <3>2 DEF Named
    <3>3. CASE h # x
      BY <2>5, <3>1, <3>3 DEF Named, NamesInv
    <3>4. QED BY <3>2, <3>3
  <2>9. \A u \in Threads \ {t} : at[u] = "tfs_opened" =>
            (handle'[call[u].handle].removed <=> handle[call[u].handle].removed)
    <3>1. \A u \in Threads : at[u] = "tfs_opened" => Using(u)
      BY UsesEntry
    <3>2. QED BY <2>5, <2>6, <3>1
  <2>10. QED BY <2>1, <2>3, <2>7, <2>8, <2>9, NamesOutside
<1>6. QED
  BY <1>4, <1>5 DEF ClaimFile

LEMMA NamesOpened ==
    ASSUME QuietInv, TypedInv, NamesInv, NEW t \in Threads,
           OpenReturn(t) \/ CloseFile(t) \/ MoveSeek(t)
    PROVE  NamesInv'
<1> DEFINE x == call[t].handle
<1>0. Shapes /\ HandlesHeld
  BY DEF QuietInv
<1>1. /\ at[t] \in {"tfs_opened", "give_up", "files", "advance"}
      /\ at[t] = "files" => call[t].op \in {"close", "seek"}
      /\ UNCHANGED call /\ KeepTfs
      /\ \E p \in {"give_up", "end"} : MoveTo(t, p)
  BY DEF OpenReturn, CloseFile, MoveSeek, history
<1>2. OneMoves(t) /\ at'[t] \in {"give_up", "end"}
  BY <1>0, <1>1, Moved
<1>3. OutsideMove(t)
  BY <1>1, <1>2 DEF OutsideMove, WritePlaces
<1>4. Using(t) /\ x \in Handles /\ files[x].open
  BY <1>1, UsesEntry
<1>5. \A u \in Threads \ {t} : Using(u) => call[u].handle \in Handles \ {x}
  BY <1>0, <1>4 DEF HandlesHeld
<1>6. UNCHANGED dir
  BY <1>1 DEF KeepTfs, disk
<1>7. \* What happens to the entry.
      /\ \A h \in Handles \ {x} : /\ handle'[h] = handle[h]
                                  /\ files'[h].open = files[h].open
                                  /\ files'[h].fileid = files[h].fileid
      /\ handle'[x].name \in Names =>
             /\ handle'[x].name = handle[x].name
             /\ handle'[x].removed = handle[x].removed
             /\ handle[x].user # NoThread => handle'[x].user # NoThread
      /\ Using(t)' => handle'[x] = handle[x]
      /\ \A h \in Handles : h = x => Named(h)'
  <2> HIDE DEF x
  <2>1. CASE UNCHANGED <<files, handle>>
    BY <1>6, <2>1 DEF NamesInv, Named
  <2>2. CASE OpenReturn(t) /\ ~UNCHANGED <<files, handle>>
    <3> DEFINE i == dirbuf[call[t].k].inode
               f == [open |-> TRUE, fileid |-> i, seek |-> 0]
               d == [handle[x] EXCEPT !.user = t]
    <3>1. /\ at[t] = "tfs_opened" /\ at'[t] = "end"
          /\ files' = [files EXCEPT ![x] = f]
          /\ handle' = [handle EXCEPT ![x] = d]
      BY <1>0, <2>2, Moved DEF OpenReturn, x
    <3>2. d.user = t /\ d.name = handle[x].name /\ d.removed = handle[x].removed
      BY <1>0, <1>4 DEF Shapes
    <3>3. f.open = TRUE /\ f.fileid = i
      OBVIOUS
    <3>4. call[t].op = "open" /\ handle[x].name = call[t].name /\ call[t].k \in Slots
          /\ call[t].name \in Names
      <4>1. call[t].op = "open"
        BY <3>1 DEF QuietInv, PlacesHeld, PlaceHeld
      <4>2. Given(t) /\ CallTyped(t)
        BY DEF NamesInv, TypedInv, CallsTyped
      <4>3. QED BY <1>4, <3>1, <4>1, <4>2 DEF Given, CallTyped, x
    <3>5. ~handle[x].removed => dir[call[t].k] = [name |-> handle[x].name, inode |-> i]
      <4>1. ASSUME ~handle[x].removed
            PROVE  dir[call[t].k] = [name |-> handle[x].name, inode |-> i]
        <5>1. dir[call[t].k].name = call[t].name /\ dirbuf[call[t].k] = dir[call[t].k]
          BY <3>1, <4>1 DEF NamesInv, Finds, x
        <5>2. dir[call[t].k] \in [name : Names, inode : DataBlocks]
          BY <3>4, <5>1, TfsAssumption DEF TypedInv, DiskTyped, Entries, FreeEntry
        <5>3. QED BY <3>4, <5>1, <5>2
      <4>2. QED BY <4>1
    <3>6. ~Using(t)'
      BY <3>1 DEF Using, TfsPlaces, WritePlaces
    <3> HIDE DEF i, f, d
    <3>7. files \in [Handles -> FileRows] /\ DOMAIN handle = Handles
      BY <1>0 DEF TypedInv, FilesTyped, Shapes
    <3>8. files'[x] = f /\ handle'[x] = d
          /\ \A h \in Handles \ {x} : files'[h] = files[h] /\ handle'[h] = handle[h]
      BY <1>4, <3>1, <3>7
    <3>9. \A h \in Handles : h = x => Named(h)'
      BY <1>6, <3>2, <3>3, <3>4, <3>5, <3>8 DEF Named
    <3>10. t # NoThread
      BY TfsAssumption
    <3>11. QED BY <3>2, <3>6, <3>8, <3>9, <3>10
  <2>3. CASE CloseFile(t)
    <3> DEFINE f == [files[x] EXCEPT !.open = FALSE]
    <3>1. /\ files' = [files EXCEPT ![x] = f] /\ handle' = [handle EXCEPT ![x] = NotInUse]
          /\ at'[t] = "end"
      BY <1>0, <2>3, Moved DEF CloseFile, x
    <3>2. f.open = FALSE
      BY <1>0, <1>4 DEF Shapes
    <3>3. NotInUse.name \notin Names
      BY TfsAssumption DEF NotInUse
    <3>4. ~Using(t)'
      BY <3>1 DEF Using, TfsPlaces, WritePlaces
    <3> HIDE DEF f
    <3>5. QED BY <1>0, <1>4, <3>1, <3>2, <3>3, <3>4 DEF Shapes, Named
  <2>4. CASE MoveSeek(t)
    <3>1. UNCHANGED handle /\ \E n : files' = [files EXCEPT ![x].seek = n]
      BY <2>4 DEF MoveSeek, history, x
    <3>2. PICK n : files' = [files EXCEPT ![x].seek = n]
      BY <3>1
    <3> DEFINE f == [files[x] EXCEPT !.seek = n]
    <3>3. f.open = files[x].open /\ f.fileid = files[x].fileid
      BY <1>0, <1>4 DEF Shapes
    <3>4. files' = [files EXCEPT ![x] = f]
      BY <3>2
    <3> HIDE DEF f
    <3>5. \A h \in Handles : files'[h].open = files[h].open /\ files'[h].fileid = files[h].fileid
      BY <1>0, <1>4, <3>3, <3>4 DEF Shapes
    <3>6. QED BY <1>4, <1>6, <3>1, <3>5 DEF NamesInv, Named
  <2>5. QED BY <2>1, <2>2, <2>3, <2>4
<1>8. /\ SameCalls /\ (\A u \in Threads \ {t} : at'[u] = at[u])
      /\ at'[t] \notin WritePlaces
  BY <1>1, <1>2 DEF SameCalls, OneMoves, WritePlaces
<1>9. \A u \in Threads : Using(u) /\ Using(u)' => StillGiven(u)
  BY <1>5, <1>7 DEF StillGiven
<1>10. \A u \in Threads : Given(u)'
  <2> HIDE DEF x
  <2>1. \A h \in Handles : handle'[h].name \in Names =>
            handle'[h].name = handle[h].name /\ (handle[h].removed => handle'[h].removed)
    BY <1>7
  <2>2. QED BY <1>4, <1>8, <1>9, <2>1, GivenKept
<1>11. \A h \in Handles : Named(h)'
  BY <1>6, <1>7 DEF NamesInv, Named
<1>12. \A u \in Threads \ {t} : at[u] = "tfs_opened" =>
           (handle'[call[u].handle].removed <=> handle[call[u].handle].removed)
  <2>1. \A u \in Threads : at[u] = "tfs_opened" => Using(u)
    BY UsesEntry
  <2>2. QED BY <1>5, <1>7, <2>1
<1> HIDE DEF x
<1>13. QED
  BY <1>2, <1>3, <1>10, <1>11, <1>12, NamesOutside
-----------------------------------------------------------------------------
\* Inside the filesystem.  A thread leaves it, or goes on.
LEMMA StillUsing ==
    ASSUME NEW t \in Threads, FsMoves(t)
    PROVE  /\ SameCalls
           /\ \A u \in Threads \ {t} : at'[u] = at[u]
           /\ Using(t)' => Using(t)
<1>1. SameCalls /\ \A u \in Threads \ {t} : at'[u] = at[u]
  BY DEF FsMoves, KeepsCalls, OneMoves, SameCalls
<1>2. Using(t)' => Using(t)
  BY <1>1 DEF FsMoves, SameCalls, Left, Using, TfsPlaces, WritePlaces
<1>3. QED
  BY <1>1, <1>2

\* A name stands in the directory, so its entry is not the free one that is filled.
LEMMA FoundStays ==
    ASSUME TypedInv, NEW u \in Threads, call[u].k \in Slots,
           dir[call[u].k].name = call[u].name, call[u].name \in Names,
           dirbuf[call[u].k] = dir[call[u].k], UNCHANGED dir,
           \/ UNCHANGED dirbuf
           \/ dirbuf' = dir
           \/ \E s \in Slots : \E e : dir[s] = FreeEntry /\ dirbuf' = [dir EXCEPT ![s] = e]
    PROVE  dirbuf'[call[u].k] = dir'[call[u].k]
<1>1. dir \in [Slots -> Entries]
  BY DEF TypedInv, DiskTyped
<1>2. ASSUME NEW s \in Slots, NEW e, dir[s] = FreeEntry, dirbuf' = [dir EXCEPT ![s] = e]
      PROVE  dirbuf'[call[u].k] = dir'[call[u].k]
  <2>1. s # call[u].k
    BY <1>2, TfsAssumption DEF FreeEntry
  <2>2. QED BY <1>1, <1>2, <2>1
<1>3. QED
  BY <1>2

\* The steps that leave the directory on the disk as it is, and take nothing away in memory.
LEMMA NamesKept ==
    ASSUME QuietInv, TypedInv, NamesInv, NEW t \in Threads, FsMoves(t),
           fsLock \in {t, NoThread}, \A u \in Threads \ {t} : call'[u] = call[u],
           UNCHANGED <<dir, files, handle>>,
           \/ UNCHANGED dirbuf
           \/ dirbuf' = dir
           \/ \E s \in Slots : \E e : dir[s] = FreeEntry /\ dirbuf' = [dir EXCEPT ![s] = e],
           Changing(t)', Finds(t)',
           at'[t] \in WritePlaces /\ call[t].op = "remove" => at[t] \in WritePlaces
    PROVE  NamesInv'
<1>1. /\ SameCalls /\ (\A u \in Threads \ {t} : at'[u] = at[u])
      /\ Using(t)' => Using(t)
  BY StillUsing
<1>2. \A u \in Threads : Given(u)'
  <2>1. \A u \in Threads : Using(u) => StillGiven(u)
    BY DEF StillGiven
  <2>2. QED BY <1>1, <2>1, GivenKept
<1>3. NamesUnique' /\ \A h \in Handles : Named(h)'
  BY DEF NamesInv, NamesUnique, Named
<1>4. ASSUME NEW u \in Threads, u # t PROVE Changing(u)' /\ Finds(u)'
  <2>1. at'[u] = at[u] /\ call'[u] = call[u] /\ at[u] \notin WritePlaces
    BY <1>1, <1>4, OthersOut
  <2>2. Changing(u)'
    BY <2>1 DEF Changing, WritePlaces
  <2>3. Finds(u)'
    <3>1. ASSUME at[u] = "tfs_opened", ~handle[call[u].handle].removed
          PROVE  dir[call[u].k].name = call[u].name /\ dirbuf'[call[u].k] = dir'[call[u].k]
      <4>1. dir[call[u].k].name = call[u].name /\ dirbuf[call[u].k] = dir[call[u].k]
        BY <3>1 DEF NamesInv, Finds
      <4>2. call[u].op = "open" /\ call[u].k \in Slots /\ call[u].name \in Names
        BY <3>1 DEF QuietInv, PlacesHeld, PlaceHeld, TypedInv, CallsTyped, CallTyped
      <4>3. QED BY <4>1, <4>2, FoundStays
    <3>2. QED BY <2>1, <3>1 DEF Finds
  <2>4. QED BY <2>2, <2>3
<1>5. QED
  BY <1>2, <1>3, <1>4 DEF NamesInv

\* A return and the writes of data.
LEMMA OutOfDirectory ==
    ASSUME NEW t \in Threads, at'[t] \notin {"write_bat", "write_dir", "write_inode",
                                             "write_zeros", "tfs_opened"}
    PROVE  Changing(t)' /\ Finds(t)'
BY DEF Changing, Finds

LEMMA NamesFsSteps ==
    ASSUME QuietInv, TypedInv, NamesInv, NEW t \in Threads,
           (FsStep(t) /\ ~WriteDir(t)) \/ RequestFails(t)
    PROVE  NamesInv'
<1> DEFINE i == files[call[t].handle].fileid
           p == files[call[t].handle].seek
<1>0. Shapes /\ AtWrite(t) /\ CallTyped(t) /\ Changing(t)
  BY DEF QuietInv, TypedInv, BufferTyped, CallsTyped, NamesInv
<1>1. /\ FsMoves(t) /\ UNCHANGED <<files, handle>>
      /\ \A u \in Threads : call'[u].op = call[u].op /\ call'[u].name = call[u].name
  <2>1. FsMoves(t)
    BY <1>0, TfsMoves DEF FsStep, RequestFails
  <2>2. QED BY <2>1 DEF FsStep, RequestFails, vfsVars, history, FsMoves, KeepsCalls
<1>2. \A x : Return(t, x) =>
          /\ Changing(t)' /\ Finds(t)' /\ at'[t] \notin WritePlaces
          /\ \A u \in Threads \ {t} : call'[u] = call[u]
  <2>1. ASSUME NEW x, Return(t, x)
        PROVE  /\ at'[t] \in {"give_up", "advance", "end", "unlock"}
               /\ \A u \in Threads \ {t} : call'[u] = call[u]
    BY <1>0, <2>1, Returned DEF Left, CallSet
  <2>2. QED BY <2>1, OutOfDirectory DEF WritePlaces
<1>3. \A p_ : MoveTo(t, p_) => at'[t] = p_
  BY <1>0, Moved
<1>4. \A k : call' = [call EXCEPT ![t].k = k] =>
          call'[t].k = k /\ \A u \in Threads \ {t} : call'[u] = call[u]
  <2>1. \A k : call' = [call EXCEPT ![t].k = k] => CallSet(t, call[t].arg, k)
    BY <1>0, CallAssigned
  <2>2. QED BY <2>1 DEF CallSet
<1> USE DEF WritePlaces
<1>5. CASE TfsOpen(t)
  <2>1. /\ at[t] = "tfs" /\ call[t].op = "open" /\ fsLock = NoThread
        /\ dirbuf' = dir /\ UNCHANGED disk
        /\ \/ Return(t, -1)
           \/ /\ EntriesOf(dir, call[t].name) # {}
              /\ call' = [call EXCEPT ![t].k = Least(EntriesOf(dir, call[t].name))]
              /\ MoveTo(t, "tfs_opened")
    BY <1>5 DEF TfsOpen, Enters
  <2>2. CASE Return(t, -1)
    BY <1>1, <1>2, <2>1, <2>2, NamesKept DEF disk
  <2>3. CASE ~Return(t, -1)
    <3> DEFINE s == Least(EntriesOf(dir, call[t].name))
    <3>1. dir[s].name = call[t].name
      BY <2>1, <2>3, FoundEntry
    <3> HIDE DEF s
    <3>2. /\ call'[t].k = s /\ at'[t] = "tfs_opened"
          /\ \A u \in Threads \ {t} : call'[u] = call[u]
      BY <1>3, <1>4, <2>1, <2>3 DEF s
    <3>3. Changing(t)' /\ Finds(t)'
      BY <1>1, <2>1, <3>1, <3>2 DEF Changing, Finds, disk
    <3>4. QED BY <1>1, <2>1, <3>2, <3>3, NamesKept DEF disk
  <2>4. QED BY <2>2, <2>3
<1>6. CASE TfsCreate(t)
  <2>1. at[t] = "tfs" /\ call[t].op = "create" /\ fsLock = NoThread /\ UNCHANGED disk
    BY <1>6 DEF TfsCreate, Enters
  <2>2. PICK s \in Slots :
            /\ EntriesOf(dir, call[t].name) = {} /\ dir[s] = FreeEntry
            /\ \/ /\ Return(t, -1)
                  /\ \E j \in DataBlocks \cup {-1} :
                         dirbuf' = [dir EXCEPT ![s] = [name |-> call[t].name, inode |-> j]]
               \/ \E q : Taken(t, s, q)
    BY <1>6, CreateEffect
  <2>3. CASE Return(t, -1)
    <3>1. \E e : dirbuf' = [dir EXCEPT ![s] = e]
      BY <2>2 DEF Taken
    <3>2. QED BY <1>1, <1>2, <2>1, <2>2, <2>3, <3>1, NamesKept DEF disk
  <2>4. ASSUME NEW q, Taken(t, s, q) PROVE NamesInv'
    <3> DEFINE e == [name |-> call[t].name, inode |-> Head(q)]
    <3>1. /\ dirbuf' = [dir EXCEPT ![s] = e] /\ UNCHANGED call /\ at'[t] = "write_bat"
      BY <1>3, <2>4 DEF Taken
    <3>2. e.name = call[t].name
      OBVIOUS
    <3> HIDE DEF e
    <3>3. dir \in [Slots -> Entries]
      BY DEF TypedInv, DiskTyped
    <3>4. dirbuf'[s].name = call[t].name /\ \A r \in Slots \ {s} : dirbuf'[r] = dir[r]
      BY <3>1, <3>2, <3>3
    <3>5. OnlyEntry(s)' /\ Adds(t, s)'
      BY <2>1, <2>2, <3>1, <3>4 DEF OnlyEntry, Adds, EntriesOf, disk
    <3>6. Changing(t)' /\ Finds(t)'
      BY <3>1, <3>5 DEF Changing, Finds
    <3>7. QED BY <1>1, <2>1, <2>2, <3>1, <3>6, NamesKept DEF disk
  <2>5. QED BY <2>2, <2>3, <2>4
<1>7. CASE TfsCreateRefused(t) \/ TfsGetFree(t) \/ DiskError(t)
  <2>1. /\ fsLock \in {t, NoThread} /\ UNCHANGED disk /\ (dirbuf' = dir \/ UNCHANGED dirbuf)
        /\ \E x : Return(t, x)
    BY <1>0, <1>7 DEF TfsCreateRefused, TfsGetFree, DiskError, Enters, AtWrite
  <2>2. QED BY <1>1, <1>2, <2>1, NamesKept DEF disk
<1>8. CASE TfsRead(t, i, p)
  <2>1. fsLock = NoThread /\ UNCHANGED <<disk, dirbuf>> /\ \E x : Return(t, x)
    <3>1. IF BadAccess(i, p)
          THEN Return(t, -1) ELSE Return(t, InFile(AsInode(i), p, call[t].arg))
      BY <1>8 DEF TfsRead
    <3>2. QED BY <1>8, <3>1 DEF TfsRead, Enters
  <2>2. QED BY <1>1, <1>2, <2>1, NamesKept DEF disk
<1>9. CASE TfsWrite(t, i, p)
  <2>1. /\ Return(t, -1) \/ Return(t, 0) \/ Writing(t, i, p)
        /\ fsLock = NoThread /\ UNCHANGED <<disk, dirbuf>> /\ call[t].op = "write"
    BY <1>0, <1>9, WriteEffect
  <2>2. Changing(t)' /\ Finds(t)' /\ \A u \in Threads \ {t} : call'[u] = call[u]
    BY <1>2, <2>1, OutOfDirectory DEF Writing, CallSet
  <2>3. QED BY <1>1, <2>1, <2>2, NamesKept DEF disk
<1>10. CASE WriteBat(t)
  <2>1. /\ at[t] = "write_bat" /\ at'[t] = "write_dir"
        /\ UNCHANGED <<dir, dirbuf, call>>
    BY <1>3, <1>10 DEF WriteBat
  <2>2. fsLock = t
    BY <1>0, <2>1 DEF AtWrite
  <2>3. Changing(t)' /\ Finds(t)'
    BY <1>0, <2>1 DEF Changing, Finds, OnlyEntry, Adds, Drops, EntriesOf
  <2>4. QED BY <1>1, <2>1, <2>2, <2>3, NamesKept
<1>11. CASE WriteInode(t) \/ WriteZeros(t)
  <2>1. /\ at[t] \in {"write_inode", "write_zeros"} /\ UNCHANGED <<dir, dirbuf>>
        /\ \/ Return(t, 0)
           \/ at'[t] = "write_zeros" /\ \E k : call' = [call EXCEPT ![t].k = k]
    BY <1>3, <1>11 DEF WriteInode, WriteZeros
  <2>2. fsLock = t /\ call[t].op = "create"
    BY <1>0, <2>1 DEF AtWrite
  <2>3. Changing(t)' /\ Finds(t)' /\ \A u \in Threads \ {t} : call'[u] = call[u]
    <3>1. CASE Return(t, 0)
      BY <1>2, <3>1
    <3>2. CASE ~Return(t, 0)
      BY <1>0, <1>1, <1>4, <2>1, <3>2 DEF Changing, Finds
    <3>3. QED BY <3>1, <3>2
  <2>4. QED BY <1>1, <2>1, <2>2, <2>3, NamesKept
<1>12. CASE WriteData(t, p)
  <2>1. /\ at[t] = "write_data" /\ UNCHANGED <<dir, dirbuf>>
        /\ \/ Return(t, call[t].arg)
           \/ at'[t] = "write_data" /\ \E k : call' = [call EXCEPT ![t].k = k]
    BY <1>12 DEF WriteData
  <2>2. fsLock = t /\ call[t].op = "write"
    BY <1>0, <2>1 DEF AtWrite
  <2>3. Changing(t)' /\ Finds(t)' /\ \A u \in Threads \ {t} : call'[u] = call[u]
    <3>1. CASE Return(t, call[t].arg)
      BY <1>2, <3>1
    <3>2. CASE ~Return(t, call[t].arg)
      BY <1>4, <2>1, <3>2, OutOfDirectory
    <3>3. QED BY <3>1, <3>2
  <2>4. QED BY <1>1, <2>1, <2>2, <2>3, NamesKept
<1>13. QED
  BY <1>5, <1>6, <1>7, <1>8, <1>9, <1>10, <1>11, <1>12 DEF FsStep, RequestFails
LEMMA NamesWriteDir ==
    ASSUME QuietInv, TypedInv, NamesInv, NEW t \in Threads,
           WriteDir(t), UNCHANGED <<files, handle>>
    PROVE  NamesInv'
<1>0. Shapes /\ AtWrite(t) /\ CallTyped(t) /\ Changing(t) /\ Given(t)
  BY DEF QuietInv, TypedInv, BufferTyped, CallsTyped, NamesInv
<1>1. /\ at[t] = "write_dir" /\ dir' = dirbuf /\ UNCHANGED dirbuf
      /\ \/ call[t].op = "remove" /\ Return(t, 0)
         \/ call[t].op # "remove" /\ MoveTo(t, "write_inode") /\ UNCHANGED call
  BY DEF WriteDir
<1>2. /\ fsLock = t /\ call[t].op \in {"create", "remove"} /\ call[t].name \in Names
      /\ dir \in [Slots -> Entries] /\ dirbuf \in [Slots -> Entries]
  BY <1>0, <1>1 DEF AtWrite, CallTyped, TypedInv, DiskTyped, WritePlaces
<1>3. FsMoves(t)
  BY <1>0, TfsMoves
<1>4. /\ SameCalls /\ (\A u \in Threads \ {t} : at'[u] = at[u])
      /\ Using(t)' => Using(t)
  BY <1>3, StillUsing
<1>5. /\ \A u \in Threads \ {t} : call'[u] = call[u]
      /\ \/ at'[t] = "write_inode" /\ call[t].op = "create"
         \/ at'[t] = "unlock"
  <2>1. CASE Return(t, 0) /\ call[t].op = "remove"
    BY <1>0, <2>1, Returned DEF Left, CallSet
  <2>2. CASE MoveTo(t, "write_inode") /\ UNCHANGED call /\ call[t].op # "remove"
    BY <1>0, <1>2, <2>2, Moved
  <2>3. QED BY <1>1, <2>1, <2>2
<1>6. PICK s \in Slots : OnlyEntry(s) /\ (Adds(t, s) \/ Drops(t, s))
  BY <1>0, <1>1 DEF Changing
<1>7. /\ \A r \in Slots \ {s} : dirbuf[r] = dir[r]
      /\ \/ /\ call[t].op = "create" /\ dir[s] = FreeEntry
            /\ \A r \in Slots : dir[r].name # call[t].name
            /\ dirbuf[s].name = call[t].name
         \/ call[t].op = "remove" /\ dir[s].name = call[t].name /\ dirbuf[s] = FreeEntry
  BY <1>6 DEF OnlyEntry, Adds, Drops, EntriesOf
<1>8. NamesUnique'
  <2>1. ASSUME NEW r \in Slots, NEW q \in Slots, dirbuf[r].name = dirbuf[q].name,
               dirbuf[q].name # NoName
        PROVE  r = q
    <3>1. NamesUnique
      BY DEF NamesInv
    <3>2. QED BY <1>7, <2>1, <3>1, TfsAssumption DEF NamesUnique, FreeEntry
  <2>2. QED BY <1>1, <2>1 DEF NamesUnique
<1>9. \A u \in Threads : Given(u)'
  <2>1. \A u \in Threads : Using(u) => StillGiven(u)
    BY DEF StillGiven
  <2>2. at[t] \in WritePlaces
    BY <1>1 DEF WritePlaces
  <2>3. QED BY <1>4, <2>1, <2>2, GivenKept
<1>10. ASSUME NEW h \in Handles PROVE Named(h)'
  <2>1. ASSUME files[h].open, handle[h].user # NoThread, ~handle[h].removed
        PROVE  \E r \in Slots : dirbuf[r] = [name |-> handle[h].name, inode |-> files[h].fileid]
    <3>1. PICK r \in Slots : dir[r] = [name |-> handle[h].name, inode |-> files[h].fileid]
      BY <2>1 DEF NamesInv, Named
    <3>2. dir[r].name = handle[h].name /\ handle[h].name \in Names
      BY <2>1, <3>1 DEF TypedInv, FilesTyped, EntryTyped
    <3>3. r # s
      <4>1. CASE dir[s] = FreeEntry
        BY <3>2, <4>1, TfsAssumption DEF FreeEntry
      <4>2. CASE call[t].op = "remove" /\ dir[s].name = call[t].name
        <5>1. handle[h].name # call[t].name
          BY <1>0, <1>1, <2>1, <4>2 DEF Given, WritePlaces
        <5>2. QED BY <3>2, <4>2, <5>1
      <4>3. QED BY <1>7, <4>1, <4>2
    <3>4. dirbuf[r] = dir[r]
      BY <1>7, <3>3
    <3>5. QED BY <3>1, <3>4
  <2>2. QED BY <1>1, <2>1 DEF Named
<1>11. ASSUME NEW u \in Threads PROVE Changing(u)' /\ Finds(u)'
  <2>1. CASE u = t
    <3>1. CASE at'[t] = "write_inode"
      BY <1>1, <1>4, <1>5, <1>7, <2>1, <3>1 DEF Changing, Finds, SameCalls
    <3>2. CASE at'[t] = "unlock"
      BY <2>1, <3>2 DEF Changing, Finds
    <3>3. QED BY <1>5, <3>1, <3>2
  <2>2. CASE u # t
    <3>1. at'[u] = at[u] /\ call'[u] = call[u] /\ at[u] \notin WritePlaces
      BY <1>2, <1>4, <1>5, <2>2, OthersOut
    <3>2. Changing(u)'
      BY <3>1 DEF Changing, WritePlaces
    <3>3. Finds(u)
      BY DEF NamesInv
    <3>4. Finds(u)'
      BY <1>1, <3>1, <3>3 DEF Finds
    <3>5. QED BY <3>2, <3>4
  <2>3. QED BY <2>1, <2>2
<1>12. QED
  BY <1>8, <1>9, <1>10, <1>11 DEF NamesInv

LEMMA NamesRemove ==
    ASSUME QuietInv, TypedInv, NamesInv, NEW t \in Threads, RemoveFile(t)
    PROVE  NamesInv'
<1>0. Shapes /\ HandlesHeld /\ CallTyped(t) /\ Given(t)
  BY DEF QuietInv, TypedInv, CallsTyped, NamesInv
<1>1. /\ at[t] = "tfs" /\ call[t].op = "remove" /\ fsLock = NoThread
      /\ UNCHANGED <<dir, files>> /\ TfsRemove(t) /\ call[t].name \in Names
  BY <1>0 DEF RemoveFile, TfsRemove, Enters, disk, vfsVars, CallTyped
<1>2. \A h \in Handles :
          /\ handle'[h].name = handle[h].name /\ handle'[h].user = handle[h].user
          /\ handle[h].name = call[t].name => handle'[h].removed
          /\ handle[h].name # call[t].name => handle'[h] = handle[h]
          /\ handle[h].removed => handle'[h].removed
  <2>1. ASSUME NEW h \in Handles
        PROVE  /\ handle'[h].name = handle[h].name /\ handle'[h].user = handle[h].user
               /\ handle[h].name = call[t].name => handle'[h].removed
               /\ handle[h].name # call[t].name => handle'[h] = handle[h]
    <3> DEFINE d == [handle[h] EXCEPT !.removed = TRUE]
    <3>1. d.user = handle[h].user /\ d.name = handle[h].name /\ d.removed = TRUE
      BY <1>0 DEF Shapes
    <3>2. handle'[h] = IF handle[h].name = call[t].name THEN d ELSE handle[h]
      BY DEF RemoveFile
    <3> HIDE DEF d
    <3>3. QED BY <3>1, <3>2
  <2>2. QED BY <2>1
<1>3. FsMoves(t)
  BY <1>0, <1>1, TfsMoves
<1>4. /\ SameCalls /\ (\A u \in Threads \ {t} : at'[u] = at[u])
      /\ Using(t)' => Using(t)
  BY <1>3, StillUsing
<1>5. /\ \A u \in Threads \ {t} : call'[u] = call[u]
      /\ \/ at'[t] = "unlock" /\ dirbuf' = dir
         \/ \E s \in Slots : Dropped(t, s) /\ at'[t] = "write_bat" /\ UNCHANGED call
  <2>1. CASE Return(t, -1) /\ dirbuf' = dir
    BY <1>0, <1>1, <2>1, Returned DEF Left, CallSet
  <2>2. ASSUME NEW s \in Slots, Dropped(t, s)
        PROVE  at'[t] = "write_bat" /\ UNCHANGED call
    BY <1>0, <2>2, Moved DEF Dropped
  <2>3. QED BY <1>1, <2>1, <2>2, RemoveEffect
<1>6. dir \in [Slots -> Entries]
  BY DEF TypedInv, DiskTyped
<1>7. \A u \in Threads : Given(u)'
  <2>1. ASSUME NEW u \in Threads, Using(u) PROVE StillGiven(u)
    <3>1. call[u].handle \in Handles
      BY <1>0, <2>1 DEF HandlesHeld
    <3>2. call[u].op \in {"read", "write"} => handle[call[u].handle].name # call[t].name
      BY <1>0, <1>1, <2>1 DEF Given, NamesInv
    <3>3. QED BY <1>2, <3>1, <3>2 DEF StillGiven
  <2>2. AllRemoved(call[t].name)
    BY <1>2 DEF AllRemoved
  <2>3. QED BY <1>2, <1>4, <2>1, <2>2, GivenKept
<1>8. NamesUnique'
  BY <1>1 DEF NamesInv, NamesUnique
<1>9. ASSUME NEW h \in Handles PROVE Named(h)'
  BY <1>1, <1>2 DEF NamesInv, Named
<1>10. ASSUME NEW u \in Threads PROVE Changing(u)' /\ Finds(u)'
  <2>1. CASE u = t
    <3>1. CASE at'[t] = "unlock"
      BY <2>1, <3>1 DEF Changing, Finds
    <3>2. ASSUME NEW s \in Slots, Dropped(t, s), at'[t] = "write_bat", UNCHANGED call
          PROVE  Changing(t)' /\ Finds(t)'
      <4>1. dir[s].name = call[t].name /\ dirbuf' = [dir EXCEPT ![s] = FreeEntry]
        BY <3>2 DEF Dropped
      <4>2. OnlyEntry(s)' /\ Drops(t, s)'
        BY <1>1, <1>6, <3>2, <4>1 DEF OnlyEntry, Drops
      <4>3. QED BY <3>2, <4>2 DEF Changing, Finds
    <3>3. QED BY <1>5, <2>1, <3>1, <3>2
  <2>2. CASE u # t
    <3>1. at'[u] = at[u] /\ call'[u] = call[u] /\ at[u] \notin WritePlaces
      BY <1>1, <1>4, <1>5, <2>2, OthersOut
    <3>2. Changing(u)'
      BY <3>1 DEF Changing, WritePlaces
    <3>3. ASSUME at[u] = "tfs_opened", ~handle'[call[u].handle].removed
          PROVE  dir[call[u].k].name = call[u].name /\ dirbuf'[call[u].k] = dir[call[u].k]
      <4>1. Using(u) /\ call[u].handle \in Handles /\ call[u].op = "open"
        BY <3>3, UsesEntry DEF QuietInv, PlacesHeld, PlaceHeld
      <4>2. handle[call[u].handle].name = call[u].name
        BY <4>1 DEF NamesInv, Given
      <4>3. call[u].name # call[t].name /\ ~handle[call[u].handle].removed
        BY <1>2, <3>3, <4>1, <4>2
      <4>4. dir[call[u].k].name = call[u].name /\ call[u].k \in Slots
        BY <3>3, <4>3 DEF NamesInv, Finds, TypedInv, CallsTyped, CallTyped
      <4>5. CASE dirbuf' = dir
        BY <4>4, <4>5
      <4>6. ASSUME NEW s \in Slots, Dropped(t, s) PROVE dirbuf'[call[u].k] = dir[call[u].k]
        <5>1. dir[s].name = call[t].name /\ dirbuf' = [dir EXCEPT ![s] = FreeEntry]
          BY <4>6 DEF Dropped
        <5>2. s # call[u].k
          BY <4>3, <4>4, <5>1
        <5>3. QED BY <1>6, <4>4, <5>1, <5>2
      <4>7. QED BY <1>5, <4>4, <4>5, <4>6
    <3>4. Finds(u)'
      BY <1>1, <3>1, <3>3 DEF Finds
    <3>5. QED BY <3>2, <3>4
  <2>3. QED BY <2>1, <2>2
<1>11. QED
  BY <1>7, <1>8, <1>9, <1>10 DEF NamesInv

LEMMA NamesStep ==
    ASSUME QuietInv, TypedInv, NamesInv, [Next]_vars
    PROVE  NamesInv'
<1>1. ASSUME UNCHANGED <<tfsVars, files, handle>> PROVE NamesInv'
  <2>1. UNCHANGED <<dir, dirbuf, at, call, files, handle>>
    BY <1>1 DEF tfsVars, disk
  <2>2. NamesUnique' /\ \A h \in Handles : Named(h)'
    BY <2>1 DEF NamesInv, NamesUnique, Named
  <2>3. ASSUME NEW t \in Threads PROVE (Changing(t) /\ Given(t) /\ Finds(t))'
    <3>1. Changing(t) /\ Given(t) /\ Finds(t)
      BY DEF NamesInv
    <3>2. QED
      BY <2>1, <3>1 DEF Changing, OnlyEntry, Adds, Drops, EntriesOf, Given, Using, Finds
  <2>4. QED BY <2>2, <2>3 DEF NamesInv
<1>2. ASSUME NEW t \in Threads, Step(t) PROVE NamesInv'
  <2>1. CASE StartRefused(t)
    BY <1>1, <2>1 DEF StartRefused, vfsVars
  <2>2. CASE FsStep(t) /\ WriteDir(t)
    BY <2>2, NamesWriteDir DEF FsStep, vfsVars, history
  <2>3. QED
    BY <1>2, <2>1, <2>2, NamesStart, NamesEnd, NamesTables, NamesClaim, NamesOpened,
       NamesFsSteps, NamesRemove DEF Step, CallStep
<1>3. CASE DeinitStep
  <2>1. UNCHANGED <<tfsVars, files, handle>>
    BY <1>3 DEF DeinitStep, Deinit, DeinitWoken, DeinitAgain, DeinitTables, history
  <2>2. QED BY <1>1, <2>1
<1>4. CASE UNCHANGED vars
  BY <1>1, <1>4 DEF vars, vfsVars, history
<1>5. QED
  BY <1>2, <1>3, <1>4, NamesReboot DEF Next

\* An open file refers to the inode of the name it was opened by, until that name is
\* removed: what tfs_open has found under its lock is still in the shared buffer when it
\* reads it after the lock is released, unless a removal came between.
THEOREM HandleNamesItsFileAlways == Spec => []HandleNamesItsFile
<1>1. Init => QuietInv /\ TypedInv /\ NamesInv
  BY QuietBoot, TypedInit, NamesInit DEF Init
<1>2. QuietInv /\ TypedInv /\ NamesInv /\ [Next]_vars => QuietInv' /\ TypedInv' /\ NamesInv'
  BY QuietStep, TypedStep, NamesStep
<1>3. NamesInv => HandleNamesItsFile
  BY DEF NamesInv, Named, HandleNamesItsFile
<1>4. QED
  BY <1>1, <1>2, <1>3, PTL DEF Spec
-----------------------------------------------------------------------------
\* As many blocks as the sequence is long.
LEMMA DistinctSize ==
    ASSUME NEW S, NEW q, Distinct(q, S)
    PROVE  IsFiniteSet(ToSet(q)) /\ Cardinality(ToSet(q)) = Len(q)
<1> DEFINE n == Len(q)
           T == ToSet(q)
<1>1. n \in Nat /\ q \in [1 .. n -> S]
  BY DEF Distinct
<1>2. T = {q[i] : i \in 1 .. n}
  BY <1>1 DEF ToSet
<1>3. \A i, j \in 1 .. n : q[i] = q[j] => i = j
  BY DEF Distinct
<1> HIDE DEF n, T
<1>4. q \in [1 .. n -> T] /\ \A y \in T : \E i \in 1 .. n : q[i] = y
  BY <1>1, <1>2
<1>5. q \in Surjection(1 .. n, T)
  BY <1>4 DEF Surjection
<1>6. q \in Injection(1 .. n, T)
  BY <1>3, <1>4 DEF Injection, IsInjective
<1>7. IsFiniteSet(1 .. n) /\ Cardinality(1 .. n) = n
  BY <1>1, FS_Interval
<1>8. QED
  BY <1>5, <1>6, <1>7, FS_Surjection DEF n, T

\* Division by the size of a block.
LEMMA DivBounds ==
    ASSUME NEW a \in Nat
    PROVE  /\ a \div BlockSize \in Nat
           /\ BlockSize * (a \div BlockSize) <= a
           /\ a < BlockSize * (a \div BlockSize) + BlockSize
BY TfsAssumption

LEMMA DivMono ==
    ASSUME NEW a \in Nat, NEW b \in Nat, a <= b
    PROVE  a \div BlockSize <= b \div BlockSize
<1> DEFINE q == a \div BlockSize
           r == b \div BlockSize
<1>1. /\ q \in Nat /\ r \in Nat /\ BlockSize \in Nat
      /\ BlockSize * q <= a /\ b < BlockSize * r + BlockSize
  BY DivBounds, TfsAssumption
<1> HIDE DEF q, r
<1>2. ASSUME ~(q <= r) PROVE FALSE
  <2>1. PICK d \in Nat : q = r + 1 + d
    <3>1. q - r - 1 \in Nat /\ q = r + 1 + (q - r - 1)
      BY <1>1, <1>2
    <3>2. QED BY <3>1
  <2>2. BlockSize * q = BlockSize * r + BlockSize + BlockSize * d
    BY <1>1, <2>1
  <2>3. BlockSize * d \in Nat
    BY <1>1, <2>1
  <2>4. BlockSize * r \in Nat /\ BlockSize * q \in Nat
    BY <1>1
  <2>5. QED BY <1>1, <2>2, <2>3, <2>4
<1>3. QED
  BY <1>2 DEF q, r

LEMMA DivUnique ==
    ASSUME NEW a \in Nat, NEW q \in Nat, BlockSize * q <= a, a < BlockSize * q + BlockSize
    PROVE  a \div BlockSize = q
<1> DEFINE r == a \div BlockSize
<1>1. /\ r \in Nat /\ BlockSize \in Nat /\ BlockSize > 0
      /\ BlockSize * r <= a /\ a < BlockSize * r + BlockSize
  BY DivBounds, TfsAssumption
<1> HIDE DEF r
<1>2. \A x, y \in Nat : BlockSize * x < BlockSize * y + BlockSize => ~(x > y)
  <2>1. ASSUME NEW x \in Nat, NEW y \in Nat, x > y,
               BlockSize * x < BlockSize * y + BlockSize
        PROVE  FALSE
    <3>1. x - y - 1 \in Nat /\ x = y + 1 + (x - y - 1)
      BY <2>1
    <3>2. PICK d \in Nat : x = y + 1 + d
      BY <3>1
    <3>3. BlockSize * x = BlockSize * y + BlockSize + BlockSize * d
      BY <1>1, <3>2
    <3>4. BlockSize * d \in Nat /\ BlockSize * y \in Nat
      BY <1>1
    <3>5. QED BY <1>1, <2>1, <3>3, <3>4
  <2>2. QED BY <2>1
<1>3. BlockSize * r \in Nat /\ BlockSize * q \in Nat
  BY <1>1
<1>4. ~(r > q) /\ ~(q > r)
  BY <1>1, <1>2, <1>3
<1>5. QED
  BY <1>1, <1>4 DEF r

\* The last block of a write lies in the file.
LEMMA LastBlock ==
    ASSUME NEW a \in Nat, NEW size \in Nat, a < size
    PROVE  a \div BlockSize + 1 <= BlocksFor(size)
<1> DEFINE b == size - 1
           q == b \div BlockSize
<1>1. b \in Nat /\ a <= b /\ BlockSize \in Nat /\ BlockSize > 0
  BY TfsAssumption
<1>2. /\ q \in Nat /\ BlockSize * q <= b /\ b < BlockSize * q + BlockSize
      /\ a \div BlockSize <= q /\ a \div BlockSize \in Nat
  <2> HIDE DEF b
  <2>1. QED BY <1>1, DivBounds, DivMono
<1>3. (b + BlockSize) \div BlockSize = q + 1
  <2> HIDE DEF b, q
  <2>1. BlockSize * (q + 1) = BlockSize * q + BlockSize /\ BlockSize * q \in Nat
    BY <1>1, <1>2
  <2>2. BlockSize * (q + 1) <= b + BlockSize /\ b + BlockSize < BlockSize * (q + 1) + BlockSize
    BY <1>1, <1>2, <2>1
  <2>3. b + BlockSize \in Nat /\ q + 1 \in Nat
    BY <1>1, <1>2
  <2>4. QED BY <2>2, <2>3, DivUnique
<1>4. BlocksFor(size) = q + 1
  <2>1. size + BlockSize - 1 = b + BlockSize
    BY <1>1
  <2>2. QED BY <1>3, <2>1 DEF BlocksFor
<1>5. QED
  BY <1>2, <1>4

-----------------------------------------------------------------------------
\* Soundness of the disk.  A file's blocks are its own, each once; what tfs_create is about
\* to write is the inode of a file whose blocks nobody has; what tfs_remove gives back is
\* what the file had; and tfs_write stays inside the file.
OwnOf(b, inode) == {b} \cup ToSet(inode.blocks)

FileSound(b, inode) ==
    /\ inode \in Inodes
    /\ Distinct(inode.blocks, DataBlocks) /\ Len(inode.blocks) = BlocksFor(inode.size)
    /\ b \in DataBlocks \ ToSet(inode.blocks)

SlotSound(s) ==
    /\ IsInode(dir[s].inode) /\ FileSound(dir[s].inode, block[dir[s].inode])
    /\ OwnBlocks(s) \subseteq bat

FilesSound ==
    \A s \in Files : SlotSound(s) /\ \A r \in Files \ {s} : OwnBlocks(r) \cap OwnBlocks(s) = {}

NewFile(t, s) ==
    LET i == dirbuf[s].inode
        own == OwnOf(i, buf.inode)
    IN /\ FileSound(i, buf.inode)
       /\ at[t] = "write_bat" => own \cap bat = {} /\ buf.bat = bat \cup own
       /\ at[t] \in {"write_dir", "write_inode"} =>
              own \subseteq bat /\ \A r \in Files : OwnBlocks(r) \cap own = {}
       /\ at[t] = "write_zeros" =>
              /\ IsInode(i) /\ block[i] = buf.inode
              /\ call[t].k \in 1 .. Len(buf.inode.blocks)

CreateSound(t) ==
    call[t].op = "create" /\ at[t] \in WritePlaces =>
        \A s \in Slots : dirbuf[s].name = call[t].name => NewFile(t, s)

RemoveSound(t) ==
    call[t].op = "remove" /\ at[t] = "write_bat" =>
        \A s \in Slots : dir[s].name = call[t].name => buf.bat = bat \ OwnBlocks(s)

WriteSound(t) ==
    at[t] = "write_data" =>
        LET f == files[call[t].handle]
            n == call[t].arg
        IN /\ IsInode(f.fileid) /\ buf.inode = block[f.fileid]
           /\ n \in Nat \ {0} /\ f.seek + n <= buf.inode.size
           /\ call[t].k \in (f.seek \div BlockSize) .. ((f.seek + n - 1) \div BlockSize)

WritesSound(t) == CreateSound(t) /\ RemoveSound(t) /\ WriteSound(t)

SoundInv == Intact => FilesSound /\ \A t \in Threads : WritesSound(t)

\* A marked block belongs to a file, or to the one that is being created.
Reserved(b) ==
    \E t \in Threads, s \in Slots :
        /\ call[t].op = "create" /\ at[t] \in {"write_dir", "write_inode"}
        /\ dirbuf[s].name = call[t].name
        /\ b \in OwnOf(dirbuf[s].inode, buf.inode)

Accounted ==
    \A b \in DataBlocks : b \in bat <=> ((\E s \in Files : b \in OwnBlocks(s)) \/ Reserved(b))

KnownInv == struck \cap (Tearing \cup Leaking) = {} => Accounted

\* A block of a file holds zeros and the writer's mark, or is about to be filled with
\* zeros, which has been done to those before it.
Clean == Intact /\ <<"create", "write_zeros">> \notin struck

Filling(s) == \E t \in Threads : at[t] = "write_zeros" /\ call[t].name = dir[s].name

Filled(s, j) ==
    \A i \in 1 .. BlockSize :
        block[block[dir[s].inode].blocks[j]].bytes[i] \in
            IF (j - 1) * BlockSize + i <= block[dir[s].inode].size
            THEN {NoName, dir[s].name} ELSE {NoName}

FilesFilled ==
    \A s \in Files : \A j \in 1 .. Len(block[dir[s].inode].blocks) : Filling(s) \/ Filled(s, j)

Zeroed(t) ==
    at[t] = "write_zeros" =>
        \A j \in 1 .. call[t].k - 1 : block[buf.inode.blocks[j]] = Data(Zeros)

BytesInv == Clean => FilesFilled /\ \A t \in Threads : Zeroed(t)

\* The step leaves the files that stay as they are.
Untouched ==
    /\ Files' \subseteq Files
    /\ \A s \in Files' : dir'[s] = dir[s] /\ \A b \in OwnBlocks(s) : block'[b] = block[b]

\* The other writes: the inode makes s a file, whose blocks are filled with zeros then; and
\* a block of s that holds the bytes from k * BlockSize on is written.
Completes(t, s) ==
    /\ dir[s].name = call[t].name /\ block'[dir[s].inode] = buf.inode
    /\ Files' \subseteq Files \cup {s}
    /\ \A r \in Files : \A b \in OwnBlocks(r) : block'[b] = block[b]

Zeroes(t, s) ==
    /\ dir[s].name = call[t].name /\ block[dir[s].inode] = buf.inode /\ Files' = Files
    /\ call[t].k \in 1 .. Len(buf.inode.blocks)

Writes(t, s) ==
    /\ dir[s].name = call[t].name /\ block[dir[s].inode] = buf.inode /\ Files' = Files
    /\ call[t].k \in Nat /\ call[t].k + 1 \in 1 .. Len(buf.inode.blocks)
    /\ files[call[t].handle].seek + call[t].arg <= buf.inode.size
    /\ files[call[t].handle].seek \in Nat /\ call[t].arg \in Nat

LEMMA InTearing ==
    \A a, b : <<a, b>> \in Tearing <=>
        (a = "create" /\ b = "write_inode") \/ (a = "remove" /\ b = "write_dir")
BY DEF Tearing

LEMMA InLeaking == \A a, b : <<a, b>> \in Leaking <=> a = "create" /\ b = "write_dir"
BY DEF Leaking

\* The files are the entries with an inode, but for one that is half written.
Whole == {s \in Slots : dir[s].inode # 0}
TornBy(t) ==
    \/ call[t].op = "create" /\ at[t] = "write_inode"
    \/ call[t].op = "remove" /\ at[t] = "write_dir"

LEMMA FilesOf ==
    ASSUME NEW t \in Threads, fsLock \in {t, NoThread}
    PROVE  Files = IF fsLock = t /\ TornBy(t)
                   THEN {s \in Whole : dir[s].name # call[t].name} ELSE Whole
BY InTearing, TfsAssumption DEF Files, HalfWritten, Whole, TornBy

LEMMA FilesThen ==
    ASSUME NEW t \in Threads, fsLock' \in {t, NoThread}
    PROVE  Files' = IF fsLock' = t /\ TornBy(t)'
                    THEN {s \in Whole' : dir'[s].name # call'[t].name} ELSE Whole'
BY InTearing, TfsAssumption DEF Files, HalfWritten, Whole, TornBy

LEMMA SoundInit == Init => SoundInv /\ KnownInv /\ BytesInv
<1> SUFFICES ASSUME Init PROVE SoundInv /\ KnownInv /\ BytesInv
  OBVIOUS
<1>1. /\ at = [t \in Threads |-> "idle"] /\ dir = EmptyDir /\ bat = SystemBlocks
  BY DEF Init, Booted, FormattedDisk
<1>2. Files = {}
  BY <1>1 DEF Files, EmptyDir, FreeEntry
<1>3. \A t \in Threads : at[t] = "idle"
  BY <1>1
<1>4. SoundInv
  BY <1>2, <1>3 DEF SoundInv, FilesSound, WritesSound, CreateSound, RemoveSound, WriteSound,
                    WritePlaces
<1>5. Accounted
  BY <1>1, <1>2, <1>3 DEF Accounted, Reserved, DataBlocks
<1>6. BytesInv
  BY <1>2, <1>3 DEF BytesInv, FilesFilled, Zeroed
<1>7. QED
  BY <1>4, <1>5, <1>6 DEF KnownInv

\* Whoever is not at a write has nothing to write.
LEMMA NothingToWrite ==
    ASSUME NEW t \in Threads, at'[t] \notin WritePlaces
    PROVE  WritesSound(t)'
BY DEF WritesSound, CreateSound, RemoveSound, WriteSound, WritePlaces

\* The disk stays as it is, and so does what is known of it.
LEMMA SoundKept ==
    ASSUME FilesSound, UNCHANGED disk, Files' = Files
    PROVE  FilesSound'
BY DEF FilesSound, SlotSound, disk, IsInode, FileSound, OwnBlocks

LEMMA KnownKept ==
    ASSUME KnownInv, UNCHANGED disk, struck \subseteq struck', Files' = Files,
           struck' \cap (Tearing \cup Leaking) = {} =>
               \A b \in DataBlocks : Reserved(b)' <=> Reserved(b)
    PROVE  KnownInv'
BY DEF KnownInv, Accounted, disk, OwnBlocks

\* Outside the filesystem.
LEMMA SoundOutside ==
    ASSUME TypedInv, SoundInv, KnownInv, NEW t \in Threads, OutsideMove(t),
           \A u \in Threads \ {t} : at[u] = "write_data" =>
               /\ files'[call[u].handle].fileid = files[call[u].handle].fileid
               /\ files'[call[u].handle].seek = files[call[u].handle].seek
    PROVE  SoundInv' /\ KnownInv' /\ Untouched
<1>1. /\ UNCHANGED <<bat, dir, block, disk, fsLock, dirbuf, buf, struck>>
      /\ \A u \in Threads \ {t} : at'[u] = at[u] /\ call'[u] = call[u]
      /\ at[t] \notin WritePlaces /\ at'[t] \notin WritePlaces
  BY DEF OutsideMove, KeepTfs, disk, OneMoves
<1>2. fsLock # t /\ fsLock \in Threads \cup {NoThread}
  BY <1>1 DEF TypedInv, BufferTyped, AtWrite
<1>3. Files' = Files
  <2>1. \A s \in Slots : HalfWritten(s)' <=> HalfWritten(s)
    BY <1>1, <1>2 DEF HalfWritten
  <2>2. QED BY <1>1, <2>1 DEF Files
<1>4. \A b \in DataBlocks : Reserved(b)' <=> Reserved(b)
  <2>1. \A u \in Threads : at'[u] \in {"write_dir", "write_inode"} =>
            u # t /\ at'[u] = at[u] /\ call'[u] = call[u]
    BY <1>1 DEF WritePlaces
  <2>2. \A u \in Threads : at[u] \in {"write_dir", "write_inode"} =>
            u # t /\ at'[u] = at[u] /\ call'[u] = call[u]
    BY <1>1 DEF WritePlaces
  <2>3. QED BY <1>1, <2>1, <2>2 DEF Reserved
<1>5. KnownInv'
  BY <1>1, <1>3, <1>4, KnownKept
<1>6. ASSUME Intact', NEW u \in Threads PROVE WritesSound(u)'
  <2>1. CASE u = t
    BY <1>1, <2>1, NothingToWrite
  <2>2. CASE u # t
    <3>1. WritesSound(u)
      BY <1>1, <1>6 DEF SoundInv, Intact
    <3>2. at'[u] = at[u] /\ call'[u] = call[u]
      BY <1>1, <2>2
    <3>3. \A s \in Slots : NewFile(u, s) => NewFile(u, s)'
      BY <1>1, <1>3, <3>2 DEF NewFile, OwnOf, OwnBlocks, FileSound, IsInode
    <3>4. CreateSound(u)'
      BY <1>1, <3>1, <3>2, <3>3 DEF WritesSound, CreateSound
    <3>5. RemoveSound(u)'
      BY <1>1, <3>1, <3>2 DEF WritesSound, RemoveSound, OwnBlocks
    <3>6. WriteSound(u)'
      BY <1>1, <2>2, <3>1, <3>2 DEF WritesSound, WriteSound, IsInode
    <3>7. QED BY <3>4, <3>5, <3>6 DEF WritesSound
  <2>3. QED BY <2>1, <2>2
<1>7. SoundInv'
  <2>1. Intact' => FilesSound'
    BY <1>1, <1>3, SoundKept DEF SoundInv, Intact
  <2>2. QED BY <1>6, <2>1 DEF SoundInv
<1>8. QED
  BY <1>1, <1>3, <1>5, <1>7 DEF Untouched

\* Inside it, one thread writes at a time.
LEMMA SoundInside ==
    ASSUME TypedInv, SoundInv, NEW t \in Threads, fsLock \in {t, NoThread}, OneMoves(t),
           struck \subseteq struck', Intact' /\ Intact => FilesSound' /\ WritesSound(t)'
    PROVE  SoundInv'
<1>1. \A u \in Threads \ {t} : at'[u] \notin WritePlaces
  BY OthersOut DEF OneMoves
<1>2. Intact' => Intact
  BY DEF Intact
<1>3. \A u \in Threads \ {t} : WritesSound(u)'
  BY <1>1, NothingToWrite
<1>4. QED
  BY <1>2, <1>3 DEF SoundInv

\* A thread leaves the filesystem without a further write.  If it was cut short, struck
\* says where.
LEMMA SoundLeave ==
    ASSUME TypedInv, SoundInv, KnownInv, NEW t \in Threads, OneMoves(t),
           at'[t] \notin WritePlaces, fsLock' = NoThread, UNCHANGED disk,
           struck \subseteq struck',
           fsLock = NoThread \/ (fsLock = t /\ NextWrite(t) \in struck')
    PROVE  SoundInv' /\ KnownInv' /\ (Intact' => Untouched)
<1>1. Files' = Whole
  BY FilesThen, TfsAssumption DEF Whole, disk
<1>2. Intact' => Files = Whole
  <2>1. Intact' /\ fsLock = t => ~TornBy(t)
    BY InTearing, TfsAssumption DEF Intact, TornBy, NextWrite
  <2>2. QED BY <2>1, FilesOf, TfsAssumption
<1>3. SoundInv'
  <2>1. Intact' /\ Intact => FilesSound'
    BY <1>1, <1>2, SoundKept DEF SoundInv
  <2>2. WritesSound(t)'
    BY NothingToWrite
  <2>3. QED BY <2>1, <2>2, SoundInside
<1>4. KnownInv'
  <2>1. ASSUME struck' \cap (Tearing \cup Leaking) = {} PROVE Accounted'
    <3>1. Accounted /\ Intact'
      BY <2>1 DEF KnownInv, Intact
    <3>2. \A u \in Threads :
              /\ at'[u] \notin WritePlaces
              /\ ~(call[u].op = "create" /\ at[u] \in {"write_dir", "write_inode"})
      <4>1. \A u \in Threads \ {t} : at[u] \notin WritePlaces /\ at'[u] \notin WritePlaces
        BY OthersOut DEF OneMoves
      <4>2. ~(call[t].op = "create" /\ at[t] \in {"write_dir", "write_inode"})
        <5>1. ASSUME call[t].op = "create", at[t] \in {"write_dir", "write_inode"} PROVE FALSE
          <6>1. fsLock = t
            BY <5>1 DEF TypedInv, BufferTyped, AtWrite, WritePlaces
          <6>2. <<call[t].op, at[t]>> \in struck'
            BY <6>1, TfsAssumption DEF NextWrite
          <6>3. <<call[t].op, at[t]>> \in Tearing \cup Leaking
            BY <5>1, InTearing, InLeaking
          <6>4. QED BY <2>1, <6>2, <6>3
        <5>2. QED BY <5>1
      <4>3. QED BY <4>1, <4>2 DEF WritePlaces
    <3>3. \A b \in DataBlocks : ~Reserved(b) /\ ~Reserved(b)'
      BY <3>2 DEF Reserved, WritePlaces
    <3>4. \A b \in DataBlocks : b \in bat' <=> \E s \in Files' : b \in OwnBlocks(s)'
      BY <1>1, <1>2, <3>1, <3>3 DEF Accounted, disk, OwnBlocks
    <3>5. QED BY <3>3, <3>4 DEF Accounted
  <2>2. QED BY <2>1 DEF KnownInv
<1>5. QED
  BY <1>1, <1>2, <1>3, <1>4 DEF Untouched, disk

LEMMA SoundReboot ==
    ASSUME TypedInv, SoundInv, KnownInv, PowerFailure
    PROVE  SoundInv' /\ KnownInv' /\ (Intact' => Untouched)
<1>1. /\ at' = [t \in Threads |-> "idle"] /\ fsLock' = NoThread /\ UNCHANGED disk
      /\ struck' = IF fsLock = NoThread THEN struck ELSE struck \cup {NextWrite(fsLock)}
  BY DEF PowerFailure, Booted
<1>2. CASE Threads = {}
  <2>1. fsLock = NoThread
    BY <1>2 DEF TypedInv, BufferTyped
  <2>2. Files' = Files
    BY <1>1, <2>1 DEF Files, HalfWritten, disk
  <2>3. \A b \in DataBlocks : Reserved(b)' <=> Reserved(b)
    BY <1>2 DEF Reserved
  <2>4. KnownInv'
    BY <1>1, <2>1, <2>2, <2>3, KnownKept
  <2>5. Intact' => FilesSound'
    BY <1>1, <2>1, <2>2, SoundKept DEF SoundInv, Intact
  <2>6. QED BY <1>1, <1>2, <2>2, <2>4, <2>5 DEF SoundInv, Untouched, disk
<1>3. CASE Threads # {}
  <2>1. PICK t \in Threads : fsLock \in {t, NoThread}
    BY <1>3 DEF TypedInv, BufferTyped
  <2>2. \A u \in Threads : at'[u] \notin WritePlaces
    BY <1>1 DEF WritePlaces
  <2>3. /\ struck \subseteq struck'
        /\ fsLock = NoThread \/ (fsLock = t /\ NextWrite(t) \in struck')
    BY <1>1, <2>1
  <2>4. Files' = Whole
    BY <1>1, <2>1, FilesThen, TfsAssumption DEF Whole, disk
  <2>5. Intact' => Files = Whole /\ Intact
    <3>1. Intact' /\ fsLock = t => ~TornBy(t)
      BY <2>3, InTearing, TfsAssumption DEF Intact, TornBy, NextWrite
    <3>2. QED BY <2>1, <2>3, <3>1, FilesOf, TfsAssumption DEF Intact
  <2>6. SoundInv'
    <3>1. Intact' => FilesSound'
      BY <1>1, <2>4, <2>5, SoundKept DEF SoundInv
    <3>2. QED BY <2>2, <3>1, NothingToWrite DEF SoundInv
  <2>7. KnownInv'
    <3>1. ASSUME struck' \cap (Tearing \cup Leaking) = {} PROVE Accounted'
      <4>1. Accounted /\ Intact'
        BY <2>3, <3>1 DEF KnownInv, Intact
      <4>2. ASSUME NEW u \in Threads
            PROVE  ~(call[u].op = "create" /\ at[u] \in {"write_dir", "write_inode"})
        <5>1. ASSUME call[u].op = "create", at[u] \in {"write_dir", "write_inode"} PROVE FALSE
          <6>1. fsLock = u
            BY <5>1 DEF TypedInv, BufferTyped, AtWrite, WritePlaces
          <6>2. <<call[u].op, at[u]>> \in struck'
            BY <2>1, <2>3, <6>1, TfsAssumption DEF NextWrite
          <6>3. <<call[u].op, at[u]>> \in Tearing \cup Leaking
            BY <5>1, InTearing, InLeaking
          <6>4. QED BY <3>1, <6>2, <6>3
        <5>2. QED BY <5>1
      <4>3. \A b \in DataBlocks : ~Reserved(b) /\ ~Reserved(b)'
        BY <2>2, <4>2 DEF Reserved, WritePlaces
      <4>4. \A b \in DataBlocks : b \in bat' <=> \E s \in Files' : b \in OwnBlocks(s)'
        BY <1>1, <2>4, <2>5, <4>1, <4>3 DEF Accounted, disk, OwnBlocks
      <4>5. QED BY <4>3, <4>4 DEF Accounted
    <3>2. QED BY <3>1 DEF KnownInv
  <2>8. QED BY <1>1, <2>4, <2>5, <2>6, <2>7 DEF Untouched, disk
<1>4. QED
  BY <1>2, <1>3

\* The operations that come to a first write.
LEMMA SoundEnter ==
    ASSUME TypedInv, SoundInv, KnownInv, NEW t \in Threads, OneMoves(t),
           fsLock = NoThread, fsLock' = t, at'[t] \in {"write_bat", "write_data"},
           UNCHANGED <<disk, struck>>, Intact => WritesSound(t)'
    PROVE  SoundInv' /\ KnownInv' /\ Untouched
<1>1. Files' = Files /\ Files = Whole
  BY FilesOf, FilesThen, TfsAssumption DEF Whole, TornBy, disk
<1>2. SoundInv'
  BY <1>1, SoundInside, SoundKept DEF SoundInv, Intact
<1>3. \A u \in Threads : at[u] \notin WritePlaces /\ (u # t => at'[u] = at[u])
  BY TfsAssumption DEF TypedInv, BufferTyped, AtWrite, OneMoves
<1>4. \A b \in DataBlocks : ~Reserved(b)' /\ ~Reserved(b)
  BY <1>3 DEF Reserved, WritePlaces
<1>5. QED
  BY <1>1, <1>2, <1>4, KnownKept DEF Untouched, disk

LEMMA SoundTaken ==
    ASSUME QuietInv, TypedInv, SoundInv, KnownInv, NEW t \in Threads, fsLock = NoThread,
           at[t] = "tfs", call[t].op = "create", UNCHANGED <<disk, struck>>,
           EntriesOf(dir, call[t].name) = {}, NEW s \in Slots, NEW q, Taken(t, s, q)
    PROVE  SoundInv' /\ KnownInv' /\ Untouched
<1>0. Shapes /\ DiskTyped /\ call[t].arg \in Nat /\ dir \in [Slots -> Entries]
  BY DEF QuietInv, TypedInv, CallsTyped, CallTyped, DiskTyped
<1> DEFINE a == call[t].arg
           e == [name |-> call[t].name, inode |-> Head(q)]
           inode == Inode(a, Tail(q))
<1>1. /\ OneMoves(t) /\ at'[t] = "write_bat" /\ fsLock' = t /\ UNCHANGED call
      /\ dirbuf' = [dir EXCEPT ![s] = e]
      /\ buf' = [bat |-> bat \cup ToSet(q), inode |-> inode]
  BY <1>0, Moved DEF Taken
<1>2. /\ Head(q) \in DataBlocks \ bat /\ Distinct(Tail(q), DataBlocks \ bat)
      /\ Len(Tail(q)) = BlocksFor(a) /\ Head(q) \notin ToSet(Tail(q))
      /\ ToSet(q) = {Head(q)} \cup ToSet(Tail(q))
  BY <1>0, TakenBlocks
<1>3. /\ inode.size = a /\ inode.blocks = Tail(q) /\ inode \in Inodes
      /\ e.name = call[t].name /\ e.inode = Head(q)
  BY <1>0, <1>2 DEF Inode, Inodes, Distinct
<1> HIDE DEF a, e, inode
<1>4. dirbuf'[s] = e /\ \A r \in Slots \ {s} : dirbuf'[r] = dir[r]
  BY <1>0, <1>1
<1>5. buf'.inode = inode /\ buf'.bat = bat \cup ToSet(q)
  BY <1>1
<1>6. FileSound(e.inode, inode)
  <2>1. Distinct(Tail(q), DataBlocks)
    BY <1>2 DEF Distinct
  <2>2. QED BY <1>2, <1>3, <2>1 DEF FileSound
<1>7. OwnOf(e.inode, inode) = ToSet(q) /\ ToSet(q) \cap bat = {}
  <2>1. ToSet(Tail(q)) \cap bat = {}
    BY <1>2 DEF Distinct, ToSet
  <2>2. QED BY <1>2, <1>3, <2>1 DEF OwnOf
<1>8. ASSUME NEW r \in Slots, dirbuf'[r].name = call'[t].name PROVE NewFile(t, r)'
  <2>1. r = s
    BY <1>1, <1>4, <1>8 DEF EntriesOf
  <2>2. dirbuf'[r].inode = e.inode /\ bat' = bat
    BY <1>4, <2>1 DEF disk
  <2>3. FileSound(dirbuf'[r].inode, buf'.inode)
    BY <1>5, <1>6, <2>2
  <2>4. /\ OwnOf(dirbuf'[r].inode, buf'.inode) \cap bat' = {}
        /\ buf'.bat = bat' \cup OwnOf(dirbuf'[r].inode, buf'.inode)
    BY <1>5, <1>7, <2>2
  <2>5. QED BY <1>1, <2>3, <2>4 DEF NewFile, FileSound, OwnOf
<1>9. WritesSound(t)'
  BY <1>1, <1>8 DEF WritesSound, CreateSound, RemoveSound, WriteSound
<1>10. QED
  BY <1>1, <1>9, SoundEnter

LEMMA SoundDropped ==
    ASSUME QuietInv, TypedInv, NamesInv, SoundInv, KnownInv, NEW t \in Threads,
           fsLock = NoThread, at[t] = "tfs", call[t].op = "remove",
           UNCHANGED <<disk, struck>>, NEW s \in Slots, Dropped(t, s)
    PROVE  SoundInv' /\ KnownInv' /\ Untouched
<1>0. Shapes /\ DiskTyped /\ call[t].name \in Names
  BY DEF QuietInv, TypedInv, CallsTyped, CallTyped
<1>1. /\ OneMoves(t) /\ at'[t] = "write_bat" /\ fsLock' = t /\ UNCHANGED call
      /\ dir[s].name = call[t].name
      /\ buf' = [bat |-> bat \ FreedBlocks(dir[s].inode), inode |-> AsInode(dir[s].inode)]
  BY <1>0, Moved DEF Dropped
<1>2. Files = Whole
  BY FilesOf, TfsAssumption
<1>3. dir[s].name # NoName /\ s \in Files
  BY <1>0, <1>1, <1>2, NamedEntry, TfsAssumption DEF Whole
<1>4. Intact => FreedBlocks(dir[s].inode) = OwnBlocks(s)
  BY <1>3 DEF SoundInv, FilesSound, SlotSound, FreedBlocks, AsInode, OwnBlocks
<1>5. ASSUME Intact, NEW r \in Slots, dir[r].name = call[t].name
      PROVE  buf'.bat = bat \ OwnBlocks(r)
  <2>1. r = s
    BY <1>1, <1>3, <1>5 DEF NamesInv, NamesUnique
  <2>2. QED BY <1>1, <1>4, <1>5, <2>1
<1>6. Intact => WritesSound(t)'
  BY <1>1, <1>5 DEF WritesSound, CreateSound, RemoveSound, WriteSound, OwnBlocks, disk
<1>7. QED
  BY <1>1, <1>6, SoundEnter

\* The file that thread t reads or writes.
LEMMA UsedFile ==
    ASSUME QuietInv, TypedInv, NamesInv, NEW t \in Threads,
           at[t] \in TfsPlaces, call[t].op \in {"read", "write"}
    PROVE  /\ call[t].handle \in Handles
           /\ \E s \in Slots : /\ dir[s].name = call[t].name
                               /\ dir[s].inode = files[call[t].handle].fileid
                               /\ s \in Whole
<1> DEFINE x == call[t].handle
<1>1. Using(t) /\ x \in Handles /\ files[x].open
  BY UsesEntry
<1>2. /\ handle[x].name = call[t].name /\ handle[x].user # NoThread /\ ~handle[x].removed
      /\ handle[x].name \in Names
  BY <1>1 DEF NamesInv, Given, TypedInv, FilesTyped, EntryTyped
<1>3. PICK s \in Slots : dir[s] = [name |-> handle[x].name, inode |-> files[x].fileid]
  BY <1>1, <1>2 DEF NamesInv, Named
<1>4. dir[s].name = handle[x].name /\ dir[s].inode = files[x].fileid
  BY <1>3
<1>5. dir[s].inode # 0
  BY <1>2, <1>4, NamedEntry, TfsAssumption DEF TypedInv
<1>6. QED
  BY <1>1, <1>2, <1>4, <1>5 DEF Whole

LEMMA SoundWriting ==
    ASSUME QuietInv, TypedInv, NamesInv, SoundInv, KnownInv, NEW t \in Threads,
           fsLock = NoThread, at[t] = "tfs", call[t].op = "write",
           UNCHANGED <<disk, struck, files>>,
           Writing(t, files[call[t].handle].fileid, files[call[t].handle].seek)
    PROVE  SoundInv' /\ KnownInv' /\ Untouched
<1> DEFINE x == call[t].handle
           i == files[x].fileid
           p == files[x].seek
           n == InFile(AsInode(i), p, call[t].arg)
           k == p \div BlockSize
<1>1. /\ ~BadAccess(i, p) /\ n # 0 /\ fsLock' = t
      /\ buf' = [bat |-> {}, inode |-> AsInode(i)]
      /\ CallSet(t, n, k) /\ OneMoves(t) /\ at'[t] = "write_data"
  BY DEF Writing
<1>2. n \in Nat /\ p + n <= AsInode(i).size
  BY <1>1, InsideFile
<1>3. Intact => IsInode(i)
  <2>1. PICK s \in Slots : dir[s].inode = i /\ s \in Whole
    BY UsedFile DEF TfsPlaces
  <2>2. s \in Files
    BY <2>1, FilesOf, TfsAssumption
  <2>3. QED BY <2>1, <2>2 DEF SoundInv, FilesSound, SlotSound
<1>4. p \in Nat /\ x \in Handles
  <2>1. x \in Handles
    BY UsedFile DEF TfsPlaces
  <2>2. QED BY <2>1 DEF TypedInv, FilesTyped, FileRows
<1>5. k \in k .. ((p + n - 1) \div BlockSize)
  <2> HIDE DEF x, p, n
  <2>1. p + n - 1 \in Nat /\ p <= p + n - 1
    BY <1>1, <1>2, <1>4
  <2>2. k \in Nat /\ (p + n - 1) \div BlockSize \in Nat /\ k <= (p + n - 1) \div BlockSize
    <3> DEFINE b == p + n - 1
    <3> HIDE DEF b
    <3>1. b \in Nat /\ p <= b
      BY <2>1 DEF b
    <3>2. p \div BlockSize <= b \div BlockSize
      BY <1>4, <3>1, DivMono
    <3>3. p \div BlockSize \in Nat /\ b \div BlockSize \in Nat
      BY <1>4, <3>1, DivBounds
    <3>4. QED BY <3>2, <3>3 DEF b
  <2>3. QED BY <2>2
<1>6. \* The same, after the step.
      /\ call'[t].arg = n /\ call'[t].k = k /\ call'[t].handle = x /\ files' = files
      /\ call'[t].op = "write" /\ block' = block /\ buf'.inode = AsInode(i)
  BY <1>1 DEF CallSet, disk
<1>7. Intact => WriteSound(t)'
  <2> DEFINE z == AsInode(i)
  <2>1. Intact => z = block[i]
    BY <1>3 DEF AsInode
  <2>2. Intact => "size" \in DOMAIN block'[i]
    BY <1>3, <1>6 DEF IsInode
  <2>3. n \in Nat \ {0} /\ p + n <= z.size
    BY <1>1, <1>2
  <2>4. files'[x].fileid = i /\ files'[x].seek = p
    BY <1>6
  <2> HIDE DEF z, i, p, n, k, x
  <2>5. ASSUME Intact
        PROVE  LET f == files'[call'[t].handle]
                   m == call'[t].arg
               IN /\ "size" \in DOMAIN block'[f.fileid] /\ buf'.inode = block'[f.fileid]
                  /\ m \in Nat \ {0} /\ f.seek + m <= buf'.inode.size
                  /\ call'[t].k \in (f.seek \div BlockSize) .. ((f.seek + m - 1) \div BlockSize)
    BY <1>5, <1>6, <2>1, <2>2, <2>3, <2>4, <2>5 DEF z, k
  <2>6. QED BY <2>5 DEF WriteSound, IsInode
<1>8. Intact => WritesSound(t)'
  BY <1>1, <1>6, <1>7 DEF WritesSound, CreateSound, RemoveSound
<1>9. QED
  BY <1>1, <1>8, SoundEnter

\* What is known of the disk, when an operation writes and is not cut short.
LEMMA KnownWritten ==
    ASSUME KnownInv, UNCHANGED struck,
           Intact /\ Accounted => Accounted'
    PROVE  KnownInv'
BY DEF KnownInv, Intact

\* Nobody has reserved blocks.
LEMMA NoneReserved ==
    ASSUME TypedInv, NEW t \in Threads, fsLock \in {t, NoThread}, OneMoves(t)
    PROVE  /\ at[t] \notin {"write_dir", "write_inode"} \/ call[t].op # "create"
                  => \A b \in DataBlocks : ~Reserved(b)
           /\ at'[t] \notin {"write_dir", "write_inode"} \/ call'[t].op # "create"
                  => \A b \in DataBlocks : ~Reserved(b)'
<1>1. \A u \in Threads \ {t} : at[u] \notin WritePlaces /\ at'[u] \notin WritePlaces
  BY OthersOut DEF OneMoves
<1>2. QED
  BY <1>1 DEF Reserved, WritePlaces

\* Whoever returns leaves the filesystem.
LEMMA SoundReturn ==
    ASSUME QuietInv, TypedInv, SoundInv, KnownInv, NEW t \in Threads, NEW x, Return(t, x),
           UNCHANGED disk, struck \subseteq struck',
           fsLock = NoThread \/ (fsLock = t /\ NextWrite(t) \in struck')
    PROVE  SoundInv' /\ KnownInv' /\ (Intact' => Untouched)
<1>1. OneMoves(t) /\ Left(t) /\ fsLock' = NoThread
  BY Returned DEF QuietInv
<1>2. at'[t] \notin WritePlaces
  BY <1>1 DEF Left, WritePlaces
<1>3. QED
  BY <1>1, <1>2, SoundLeave

\* The bitmap is written: for a new file before its entry, for a removed one too.
LEMMA SoundWriteBat ==
    ASSUME QuietInv, TypedInv, NamesInv, SoundInv, KnownInv, NEW t \in Threads, WriteBat(t)
    PROVE  SoundInv' /\ KnownInv' /\ Untouched
<1>0. Shapes /\ DiskTyped /\ AtWrite(t) /\ CallTyped(t) /\ Changing(t)
  BY DEF QuietInv, TypedInv, BufferTyped, CallsTyped, NamesInv
<1>1. /\ at[t] = "write_bat" /\ at'[t] = "write_dir" /\ OneMoves(t)
      /\ bat' = buf.bat /\ UNCHANGED <<dir, block, fsLock, dirbuf, buf, call, struck>>
  BY <1>0, Moved DEF WriteBat
<1>2. fsLock = t /\ fsLock' = t /\ call[t].name \in Names
  BY <1>0, <1>1 DEF AtWrite, WritePlaces, CallTyped
<1>3. Files = Whole
  BY <1>1, <1>2, FilesOf DEF TornBy
<1>4. Whole' = Whole /\ \A s \in Slots : OwnBlocks(s)' = OwnBlocks(s)
  BY <1>1 DEF Whole, OwnBlocks
<1>5. PICK s \in Slots : OnlyEntry(s) /\ (Adds(t, s) \/ Drops(t, s))
  BY <1>0, <1>1 DEF Changing
<1>6. \A b \in DataBlocks : ~Reserved(b)
  BY <1>1, <1>2, NoneReserved
<1>7. CASE Adds(t, s)
  <2>1. call[t].op = "create" /\ dirbuf[s].name = call[t].name
    BY <1>7 DEF Adds
  <2>2. Files' = Files
    BY <1>1, <1>2, <1>3, <1>4, <2>1, FilesThen DEF TornBy
  <2>3. ASSUME Intact, NEW r \in Slots, dirbuf[r].name = call[t].name
        PROVE  /\ FileSound(dirbuf[r].inode, buf.inode)
               /\ OwnOf(dirbuf[r].inode, buf.inode) \cap bat = {}
               /\ bat' = bat \cup OwnOf(dirbuf[r].inode, buf.inode)
    <3>1. NewFile(t, r)
      BY <1>1, <2>1, <2>3 DEF SoundInv, WritesSound, CreateSound, WritePlaces
    <3>2. QED BY <1>1, <3>1 DEF NewFile
  <2>4. Intact => FilesSound'
    <3>1. ASSUME Intact PROVE FilesSound'
      <4>1. FilesSound /\ bat \subseteq bat'
        BY <2>1, <2>3, <3>1 DEF SoundInv
      <4>2. Files \subseteq Slots
        BY DEF Files
      <4>3. \A r \in Files' : SlotSound(r)'
        BY <1>1, <1>4, <2>2, <4>1, <4>2 DEF FilesSound, SlotSound, IsInode, FileSound
      <4>4. \A r \in Files' : \A q \in Files' \ {r} : OwnBlocks(q)' \cap OwnBlocks(r)' = {}
        BY <1>4, <2>2, <4>1, <4>2 DEF FilesSound
      <4>5. QED BY <4>3, <4>4 DEF FilesSound
    <3>2. QED BY <3>1
  <2>5. ASSUME Intact, NEW r \in Slots, dirbuf'[r].name = call'[t].name
        PROVE  NewFile(t, r)'
    <3> DEFINE own == OwnOf(dirbuf[r].inode, buf.inode)
    <3>1. /\ FileSound(dirbuf[r].inode, buf.inode)
          /\ own \cap bat = {} /\ bat' = bat \cup own
      BY <1>1, <2>3, <2>5
    <3>2. \A q \in Files : OwnBlocks(q) \subseteq bat
      BY <2>5 DEF SoundInv, FilesSound, SlotSound
    <3>3. \A q \in Files' : OwnBlocks(q)' \cap own = {}
      <4> HIDE DEF own
      <4>1. \A q \in Files : OwnBlocks(q) \cap own = {}
        BY <3>1, <3>2
      <4>2. Files \subseteq Slots
        BY DEF Files
      <4>3. QED BY <1>4, <2>2, <4>1, <4>2
    <3>4. own \subseteq bat'
      BY <3>1
    <3>5. QED BY <1>1, <3>1, <3>3, <3>4 DEF NewFile, FileSound, OwnOf
  <2>6. Intact => WritesSound(t)'
    BY <1>1, <2>1, <2>5 DEF WritesSound, CreateSound, RemoveSound, WriteSound
  <2>7. SoundInv'
    BY <1>1, <1>2, <2>4, <2>6, SoundInside
  <2>8. ASSUME Intact, Accounted PROVE Accounted'
    <3>1. bat' = bat \cup OwnOf(dirbuf[s].inode, buf.inode)
      BY <2>1, <2>3, <2>8
    <3>2. \A b \in DataBlocks : Reserved(b)' => b \in bat'
      <4>1. ASSUME NEW b \in DataBlocks, NEW u \in Threads, NEW r \in Slots,
                   at'[u] \in {"write_dir", "write_inode"}, dirbuf'[r].name = call'[u].name,
                   b \in OwnOf(dirbuf'[r].inode, buf'.inode)
            PROVE  b \in bat'
        <5>1. u = t
          <6>1. CASE u # t
            <7>1. at[u] \notin WritePlaces /\ at'[u] = at[u]
              BY <1>1, <1>2, <6>1, OthersOut DEF OneMoves
            <7>2. QED BY <4>1, <7>1 DEF WritePlaces
          <6>2. QED BY <6>1
        <5>2. QED BY <1>1, <2>3, <2>8, <4>1, <5>1
      <4>2. QED BY <4>1 DEF Reserved
    <3>3. \A b \in DataBlocks : b \in OwnOf(dirbuf[s].inode, buf.inode) => Reserved(b)'
      BY <1>1, <2>1 DEF Reserved
    <3>4. \A b \in DataBlocks : b \in bat <=> \E r \in Files : b \in OwnBlocks(r)
      BY <1>6, <2>8 DEF Accounted
    <3>5. Files \subseteq Slots
      BY DEF Files
    <3>6. \A b \in DataBlocks :
              (\E r \in Files' : b \in OwnBlocks(r)') <=> \E r \in Files : b \in OwnBlocks(r)
      BY <1>4, <2>2, <3>5
    <3>7. QED BY <3>1, <3>2, <3>3, <3>4, <3>6 DEF Accounted
  <2>9. QED BY <1>1, <2>2, <2>7, <2>8, KnownWritten DEF Untouched
<1>8. CASE Drops(t, s)
  <2>1. call[t].op = "remove" /\ dir[s].name = call[t].name
    BY <1>8 DEF Drops
  <2>2. s \in Whole /\ \A r \in Slots : dir[r].name = call[t].name <=> r = s
    <3>1. dir[s].name # NoName
      BY <1>2, <2>1, TfsAssumption
    <3>2. s \in Whole
      BY <1>0, <3>1, NamedEntry DEF Whole
    <3>3. QED BY <2>1, <3>1, <3>2 DEF NamesInv, NamesUnique
  <2>3. Files' = Files \ {s} /\ s \in Files /\ Files \subseteq Slots
    <3>1. Files' = {r \in Whole' : dir'[r].name # call'[t].name}
      BY <1>1, <1>2, <2>1, FilesThen DEF TornBy
    <3>2. QED BY <1>1, <1>3, <1>4, <2>2, <3>1 DEF Whole
  <2>4. Intact => bat' = bat \ OwnBlocks(s)
    BY <1>1, <2>1 DEF SoundInv, WritesSound, RemoveSound
  <2>5. ASSUME Intact PROVE FilesSound'
    <3>1. FilesSound /\ bat' = bat \ OwnBlocks(s)
      BY <2>4, <2>5 DEF SoundInv
    <3>2. \A r \in Files' : SlotSound(r)
      BY <2>3, <3>1 DEF FilesSound
    <3>3. \A r \in Files' : OwnBlocks(r) \cap OwnBlocks(s) = {}
      BY <2>3, <3>1 DEF FilesSound
    <3>4. \A r \in Files' : OwnBlocks(r)' \subseteq bat'
      BY <1>4, <2>3, <3>1, <3>2, <3>3 DEF SlotSound
    <3>5. \A r \in Files' : SlotSound(r)'
      BY <1>1, <3>2, <3>4 DEF SlotSound, IsInode, FileSound
    <3>6. \A r \in Files' : \A q \in Files' \ {r} : OwnBlocks(q)' \cap OwnBlocks(r)' = {}
      BY <1>4, <2>3, <3>1 DEF FilesSound
    <3>7. QED BY <3>5, <3>6 DEF FilesSound
  <2>6. WritesSound(t)'
    BY <1>1, <2>1 DEF WritesSound, CreateSound, RemoveSound, WriteSound
  <2>7. SoundInv'
    BY <1>1, <1>2, <2>5, <2>6, SoundInside
  <2>8. ASSUME Intact, Accounted PROVE Accounted'
    <3>1. \A b \in DataBlocks : ~Reserved(b)'
      BY <1>1, <1>2, <2>1, NoneReserved
    <3>2. \A r \in Files \ {s} : OwnBlocks(r) \cap OwnBlocks(s) = {}
      BY <2>3, <2>8 DEF SoundInv, FilesSound
    <3>3. \A b \in DataBlocks : b \in bat <=> \E r \in Files : b \in OwnBlocks(r)
      BY <1>6, <2>8 DEF Accounted
    <3>4. ASSUME NEW b \in DataBlocks
          PROVE  b \in bat' <=> \E r \in Files' : b \in OwnBlocks(r)'
      <4>1. b \in bat' <=> b \in bat /\ b \notin OwnBlocks(s)
        BY <2>4, <2>8
      <4>2. (\E r \in Files' : b \in OwnBlocks(r)') <=> \E r \in Files \ {s} : b \in OwnBlocks(r)
        BY <1>4, <2>3
      <4>3. QED BY <2>3, <3>2, <3>3, <4>1, <4>2
    <3>5. QED BY <3>1, <3>4 DEF Accounted
  <2>9. QED BY <1>1, <2>3, <2>7, <2>8, KnownWritten DEF Untouched
<1>9. QED
  BY <1>5, <1>7, <1>8

\* The directory is written: the last write of tfs_remove, and the one that makes a new
\* file whose inode is not there yet.
LEMMA SoundWriteDir ==
    ASSUME QuietInv, TypedInv, NamesInv, SoundInv, KnownInv, NEW t \in Threads, WriteDir(t)
    PROVE  SoundInv' /\ KnownInv' /\ Untouched
<1>0. Shapes /\ DiskTyped /\ AtWrite(t) /\ CallTyped(t) /\ Changing(t)
  BY DEF QuietInv, TypedInv, BufferTyped, CallsTyped, NamesInv
<1>1. /\ at[t] = "write_dir" /\ dir' = dirbuf /\ UNCHANGED <<bat, block, dirbuf, struck>>
      /\ IF call[t].op = "remove"
         THEN Return(t, 0)
         ELSE MoveTo(t, "write_inode") /\ UNCHANGED <<fsLock, buf, call>>
  BY DEF WriteDir
<1>2. fsLock = t /\ call[t].name \in Names
  BY <1>0, <1>1 DEF AtWrite, WritePlaces, CallTyped
<1>3. PICK s \in Slots : OnlyEntry(s) /\ (Adds(t, s) \/ Drops(t, s))
  BY <1>0, <1>1 DEF Changing
<1>4. \A r \in Slots \ {s} : dir'[r] = dir[r] /\ OwnBlocks(r)' = OwnBlocks(r)
  BY <1>1, <1>3 DEF OnlyEntry, OwnBlocks
<1>5. ASSUME Files' = Files, s \notin Files, OneMoves(t), fsLock' \in {t, NoThread},
             \A b \in DataBlocks : Reserved(b)' <=> Reserved(b),
             Intact => WritesSound(t)'
      PROVE  SoundInv' /\ KnownInv' /\ Untouched
  <2>1. Files \subseteq Slots \ {s}
    BY <1>5 DEF Files
  <2>2. ASSUME FilesSound PROVE FilesSound'
    <3>1. \A r \in Files' : SlotSound(r)'
      BY <1>1, <1>4, <1>5, <2>1, <2>2 DEF FilesSound, SlotSound, IsInode, FileSound
    <3>2. \A r \in Files' : \A q \in Files' \ {r} : OwnBlocks(q)' \cap OwnBlocks(r)' = {}
      BY <1>4, <1>5, <2>1, <2>2 DEF FilesSound
    <3>3. QED BY <3>1, <3>2 DEF FilesSound
  <2>3. SoundInv'
    BY <1>1, <1>2, <1>5, <2>2, SoundInside DEF SoundInv, Intact
  <2>4. Accounted => Accounted'
    <3>1. \A b \in DataBlocks :
              (\E r \in Files' : b \in OwnBlocks(r)') <=> \E r \in Files : b \in OwnBlocks(r)
      BY <1>4, <1>5, <2>1
    <3>2. QED BY <1>1, <1>5, <3>1 DEF Accounted
  <2>5. Untouched
    BY <1>1, <1>4, <1>5, <2>1 DEF Untouched
  <2>6. QED BY <1>1, <2>3, <2>4, <2>5, KnownWritten
<1>6. CASE Adds(t, s)
  <2>1. /\ call[t].op = "create" /\ dirbuf[s].name = call[t].name /\ dir[s] = FreeEntry
        /\ \A r \in Slots : dir[r].name # call[t].name
    BY <1>6 DEF Adds, EntriesOf
  <2>2. /\ UNCHANGED <<fsLock, buf, call>> /\ OneMoves(t) /\ at'[t] = "write_inode"
    BY <1>0, <1>1, <2>1, Moved
  <2>3. Files = Whole /\ s \notin Whole
    BY <1>1, <1>2, <2>1, FilesOf DEF TornBy, Whole, FreeEntry
  <2>4. Files' = Files
    <3>1. Files' = {r \in Whole' : dir'[r].name # call'[t].name}
      BY <1>2, <2>1, <2>2, FilesThen DEF TornBy
    <3>2. ASSUME NEW r \in Slots PROVE r \in Files' <=> r \in Whole
      <4>1. CASE r = s
        BY <1>1, <2>1, <2>2, <2>3, <3>1, <4>1
      <4>2. CASE r # s
        BY <1>4, <2>1, <2>2, <3>1, <4>2 DEF Whole
      <4>3. QED BY <4>1, <4>2
    <3>3. Files' \subseteq Slots /\ Whole \subseteq Slots
      BY <3>1 DEF Whole
    <3>4. QED BY <2>3, <3>2, <3>3
  <2>5. ASSUME NEW r \in Slots, NewFile(t, r) PROVE NewFile(t, r)'
    <3>1. /\ dirbuf' = dirbuf /\ buf' = buf /\ bat' = bat
          /\ \A q \in Files : OwnBlocks(q)' = OwnBlocks(q)
      BY <1>1, <1>4, <2>2, <2>3 DEF Whole
    <3>2. QED BY <1>1, <2>2, <2>4, <2>5, <3>1 DEF NewFile, FileSound, OwnOf
  <2>6. Intact => WritesSound(t)'
    <3>1. Intact => CreateSound(t)
      BY DEF SoundInv, WritesSound
    <3>2. Intact => CreateSound(t)'
      BY <1>1, <2>2, <2>5, <3>1 DEF CreateSound, WritePlaces
    <3>3. QED BY <2>1, <2>2, <3>2 DEF WritesSound, RemoveSound, WriteSound
  <2>7. \A b \in DataBlocks : Reserved(b)' <=> Reserved(b)
    <3>1. \A u \in Threads : at'[u] \in {"write_dir", "write_inode"}
                                 <=> at[u] \in {"write_dir", "write_inode"}
      BY <1>1, <2>2 DEF OneMoves
    <3>2. QED BY <1>1, <2>2, <3>1 DEF Reserved
  <2>8. QED BY <1>2, <1>5, <2>2, <2>3, <2>4, <2>6, <2>7
<1>7. CASE Drops(t, s)
  <2>1. call[t].op = "remove" /\ dir[s].name = call[t].name /\ dirbuf[s] = FreeEntry
    BY <1>7 DEF Drops
  <2>2. OneMoves(t) /\ Left(t) /\ fsLock' = NoThread /\ call'[t].op = "remove"
    BY <1>0, <1>1, <2>1, Returned DEF CallSet
  <2>3. \A r \in Slots : dir[r].name = call[t].name <=> r = s
    <3>1. dir[s].name # NoName
      BY <1>2, <2>1, TfsAssumption
    <3>2. QED BY <2>1, <3>1 DEF NamesInv, NamesUnique
  <2>4. Files = Whole \ {s}
    <3>1. Files = {r \in Whole : dir[r].name # call[t].name}
      BY <1>1, <1>2, <2>1, FilesOf DEF TornBy
    <3>2. QED BY <2>3, <3>1 DEF Whole
  <2>5. Files' = Whole' /\ Whole' = Whole \ {s}
    <3>1. Files' = Whole'
      BY <2>2, FilesThen, TfsAssumption
    <3>2. s \notin Whole'
      BY <1>1, <2>1 DEF Whole, FreeEntry
    <3>3. \A r \in Slots \ {s} : r \in Whole' <=> r \in Whole
      BY <1>4 DEF Whole
    <3>4. QED BY <3>1, <3>2, <3>3 DEF Whole
  <2>6. WritesSound(t)'
    BY <2>1, <2>2, NothingToWrite DEF Left, WritePlaces
  <2>7. \A b \in DataBlocks : ~Reserved(b)' /\ ~Reserved(b)
    BY <1>2, <2>1, <2>2, NoneReserved
  <2>8. QED BY <1>5, <2>2, <2>4, <2>5, <2>6, <2>7
<1>8. QED
  BY <1>3, <1>6, <1>7

\* The inode of a new file is written, and the file is whole.
LEMMA SoundWriteInode ==
    ASSUME QuietInv, TypedInv, NamesInv, SoundInv, KnownInv, NEW t \in Threads, WriteInode(t)
    PROVE  SoundInv' /\ KnownInv' /\ (Intact => \E s \in Slots : Completes(t, s))
<1>0. Shapes /\ DiskTyped /\ AtWrite(t) /\ CallTyped(t) /\ Changing(t)
  BY DEF QuietInv, TypedInv, BufferTyped, CallsTyped, NamesInv
<1>2. /\ at[t] = "write_inode" /\ fsLock = t /\ call[t].name \in Names
      /\ call[t].op = "create" /\ dirbuf = dir /\ buf.inode \in Inodes
  BY <1>0 DEF WriteInode, AtWrite, WritePlaces, CallTyped, Changing, TypedInv, BufferTyped
<1>3. PICK s \in Slots, i \in DataBlocks :
          /\ dir[s].name = call[t].name /\ i = dir[s].inode
          /\ block' = [block EXCEPT ![i] = buf.inode]
  <2> DEFINE r == Least(EntriesOf(dir, call[t].name))
  <2>1. EntriesOf(dir, call[t].name) # {}
    BY <1>0, <1>2 DEF Changing, EntriesOf
  <2>2. r \in Slots /\ dir[r].name = call[t].name
    BY <2>1, FoundEntry
  <2>3. block' = [block EXCEPT ![dir[r].inode] = buf.inode]
    BY <1>2 DEF WriteInode
  <2> HIDE DEF r
  <2>4. dir[r].inode \in DataBlocks
    BY <1>0, <1>2, <2>2, NamedEntry, TfsAssumption
  <2>5. QED BY <2>2, <2>3, <2>4
<1>1. /\ at[t] = "write_inode" /\ block' = [block EXCEPT ![i] = buf.inode]
      /\ UNCHANGED <<bat, dir, dirbuf, struck>>
      /\ \/ Return(t, 0)
         \/ /\ buf.inode.blocks # <<>> /\ call' = [call EXCEPT ![t].k = 1]
            /\ MoveTo(t, "write_zeros") /\ UNCHANGED <<fsLock, buf>>
  BY <1>3 DEF WriteInode
<1>4. s \in Whole /\ \A r \in Slots : dir[r].name = call[t].name <=> r = s
  <2>1. dir[s].name # NoName
    BY <1>2, <1>3, TfsAssumption
  <2>2. s \in Whole
    BY <1>0, <2>1, NamedEntry DEF Whole
  <2>3. QED BY <1>3, <2>1, <2>2 DEF NamesInv, NamesUnique
<1>5. Files = Whole \ {s} /\ Whole \subseteq Slots
  <2>1. Files = {r \in Whole : dir[r].name # call[t].name}
    BY <1>1, <1>2, FilesOf DEF TornBy
  <2>2. QED BY <1>4, <2>1 DEF Whole
<1>6. /\ OneMoves(t) /\ fsLock' \in {t, NoThread} /\ at'[t] \in {"unlock", "write_zeros"}
      /\ at'[t] = "write_zeros" => /\ buf.inode.blocks # <<>> /\ UNCHANGED buf
                                   /\ CallSet(t, call[t].arg, 1)
  <2>1. CASE Return(t, 0)
    <3>1. OneMoves(t) /\ Left(t) /\ fsLock' = NoThread
      BY <1>0, <2>1, Returned
    <3>2. QED BY <1>2, <3>1 DEF Left
  <2>2. CASE ~Return(t, 0)
    BY <1>0, <1>1, <1>2, <2>2, Moved, CallAssigned
  <2>3. QED BY <2>1, <2>2
<1>7. Files' = Whole
  BY <1>1, <1>6, FilesThen DEF Whole, TornBy
<1>8. block'[i] = buf.inode /\ \A b \in DataBlocks \ {i} : block'[b] = block[b]
  BY <1>0, <1>1, <1>4 DEF DiskTyped
<1> DEFINE own == OwnOf(i, buf.inode)
<1>9. Intact => /\ FileSound(i, buf.inode) /\ own \subseteq bat
                /\ \A r \in Files : OwnBlocks(r) \cap own = {}
  <2>1. Intact => NewFile(t, s)
    BY <1>1, <1>2, <1>3 DEF SoundInv, WritesSound, CreateSound, WritePlaces
  <2>2. QED BY <1>1, <1>2, <1>3, <2>1 DEF NewFile
<1>10. OwnBlocks(s)' = own
  BY <1>1, <1>3, <1>8 DEF OwnBlocks, OwnOf
<1>11. ASSUME Intact, NEW r \in Files
       PROVE  block'[dir[r].inode] = block[dir[r].inode] /\ OwnBlocks(r)' = OwnBlocks(r)
  <2>1. dir[r].inode \in OwnBlocks(r) /\ i \in own /\ dir[r].inode \in DataBlocks
    <3>1. r \in Slots /\ dir[r].inode # 0
      BY <1>5 DEF Whole
    <3>2. dir[r].inode \in DataBlocks
      BY <1>0, <3>1, NamedEntry
    <3>3. QED BY <3>2 DEF OwnBlocks, OwnOf
  <2>2. dir[r].inode # i
    <3> HIDE DEF own
    <3>1. QED BY <1>9, <1>11, <2>1
  <2>3. QED BY <1>1, <1>8, <2>1, <2>2 DEF OwnBlocks
<1> HIDE DEF own
<1>12. ASSUME Intact PROVE FilesSound'
  <2>1. FilesSound
    BY <1>12 DEF SoundInv
  <2>2. SlotSound(s)'
    <3>1. dir'[s].inode = i /\ bat' = bat
      BY <1>1, <1>3
    <3>2. "size" \in DOMAIN buf.inode
      BY <1>2 DEF Inodes
    <3>3. QED BY <1>8, <1>9, <1>10, <1>12, <3>1, <3>2 DEF SlotSound, IsInode, FileSound
  <2>3. ASSUME NEW r \in Files PROVE SlotSound(r)'
    <3>1. SlotSound(r) /\ dir'[r] = dir[r] /\ bat' = bat
      BY <1>1, <2>1 DEF FilesSound
    <3>2. QED BY <1>11, <1>12, <3>1 DEF SlotSound, IsInode, FileSound
  <2>4. Files' = Files \cup {s}
    BY <1>4, <1>5, <1>7
  <2>5. ASSUME NEW r \in Files', NEW q \in Files' \ {r}
        PROVE  OwnBlocks(q)' \cap OwnBlocks(r)' = {}
    <3>1. CASE r \in Files /\ q \in Files
      BY <1>11, <1>12, <2>1, <2>5, <3>1 DEF FilesSound
    <3>2. CASE r = s /\ q \in Files
      BY <1>9, <1>10, <1>11, <1>12, <3>2
    <3>3. CASE r \in Files /\ q = s
      BY <1>9, <1>10, <1>11, <1>12, <3>3
    <3>4. QED BY <2>4, <2>5, <3>1, <3>2, <3>3
  <2>6. QED BY <2>2, <2>3, <2>4, <2>5 DEF FilesSound
<1>13. Intact => WritesSound(t)'
  <2>1. CASE at'[t] = "unlock"
    BY <2>1, NothingToWrite DEF WritePlaces
  <2>2. CASE at'[t] = "write_zeros"
    <3>1. buf'.inode = buf.inode /\ call'[t].name = call[t].name /\ call'[t].k = 1
          /\ dirbuf' = dir
      BY <1>1, <1>2, <1>6, <2>2 DEF CallSet
    <3>2. 1 \in 1 .. Len(buf.inode.blocks)
      <4>1. buf.inode.blocks \in Seq(DataBlocks) /\ buf.inode.blocks # <<>>
        BY <1>2, <1>6, <2>2 DEF Inodes
      <4>2. QED BY <4>1
    <3>3. ASSUME Intact, NEW r \in Slots, dirbuf'[r].name = call'[t].name PROVE NewFile(t, r)'
      <4>1. r = s
        BY <1>4, <3>1, <3>3
      <4>2. dirbuf'[r].inode = i
        BY <1>3, <3>1, <4>1
      <4>3. "size" \in DOMAIN buf.inode
        BY <1>2 DEF Inodes
      <4>4. QED BY <1>8, <1>9, <2>2, <3>1, <3>2, <3>3, <4>2, <4>3 DEF NewFile, FileSound, IsInode
    <3>4. QED BY <2>2, <3>3 DEF WritesSound, CreateSound, RemoveSound, WriteSound
  <2>3. QED BY <1>6, <2>1, <2>2
<1>14. SoundInv'
  BY <1>1, <1>2, <1>6, <1>12, <1>13, SoundInside
<1>15. ASSUME Intact, Accounted PROVE Accounted'
  <2>1. \A b \in DataBlocks : ~Reserved(b)'
    BY <1>2, <1>6, NoneReserved
  <2>2. ASSUME NEW b \in DataBlocks PROVE Reserved(b) <=> b \in own
    <3>1. b \in own => Reserved(b)
      BY <1>1, <1>2, <1>3 DEF Reserved, own
    <3>2. ASSUME NEW u \in Threads, NEW r \in Slots, at[u] \in {"write_dir", "write_inode"},
                 dirbuf[r].name = call[u].name, b \in OwnOf(dirbuf[r].inode, buf.inode)
          PROVE  b \in own
      <4>1. u = t
        BY <1>2, <3>2, OthersOut DEF WritePlaces
      <4>2. r = s
        BY <1>2, <1>4, <3>2, <4>1
      <4>3. QED BY <1>2, <1>3, <3>2, <4>2 DEF own
    <3>3. QED BY <3>1, <3>2 DEF Reserved
  <2>3. ASSUME NEW b \in DataBlocks PROVE b \in bat' <=> \E r \in Files' : b \in OwnBlocks(r)'
    <3>1. b \in bat' <=> (\E r \in Files : b \in OwnBlocks(r)) \/ b \in own
      BY <1>1, <1>15, <2>2 DEF Accounted
    <3>2. Files' = Files \cup {s}
      BY <1>4, <1>5, <1>7
    <3>3. \A r \in Files : OwnBlocks(r)' = OwnBlocks(r)
      BY <1>11, <1>15
    <3>4. QED BY <1>10, <3>1, <3>2, <3>3
  <2>4. QED BY <2>1, <2>3 DEF Accounted
<1>16. Intact => Completes(t, s)
  <2> SUFFICES ASSUME Intact PROVE Completes(t, s)
    OBVIOUS
  <2>1. i \in own
    BY DEF own, OwnOf
  <2>2. ASSUME NEW r \in Files, NEW b \in OwnBlocks(r) PROVE block'[b] = block[b]
    <3>1. b # i
      BY <1>9, <2>1, <2>2
    <3>2. b \in DataBlocks
      BY <2>2 DEF SoundInv, FilesSound, SlotSound, FileSound, OwnBlocks, Distinct, ToSet
    <3>3. QED BY <1>8, <3>1, <3>2
  <2>3. Files' = Files \cup {s}
    BY <1>4, <1>5, <1>7
  <2>4. QED BY <1>3, <1>8, <2>2, <2>3 DEF Completes
<1>17. QED
  BY <1>1, <1>14, <1>15, <1>16, KnownWritten

\* Data is written to a block of a file.
LEMMA DataWritten ==
    ASSUME DiskTyped, FilesSound, NEW s \in Files, NEW b \in ToSet(block[dir[s].inode].blocks),
           NEW v, "size" \notin DOMAIN v, block' = [block EXCEPT ![b] = v],
           UNCHANGED <<bat, dir>>, Files' = Files
    PROVE  /\ FilesSound'
           /\ \A r \in Files : /\ block'[dir[r].inode] = block[dir[r].inode]
                               /\ OwnBlocks(r)' = OwnBlocks(r)
<1>1. ASSUME NEW r \in Files
      PROVE  block'[dir[r].inode] = block[dir[r].inode] /\ OwnBlocks(r)' = OwnBlocks(r)
  <2>1. dir[r].inode \in DataBlocks /\ dir[r].inode \in OwnBlocks(r) /\ b \in OwnBlocks(s)
    BY DEF FilesSound, SlotSound, FileSound, OwnBlocks
  <2>2. dir[r].inode # b
    <3>1. CASE r = s
      BY <3>1 DEF FilesSound, SlotSound, FileSound
    <3>2. CASE r # s
      BY <2>1, <3>2 DEF FilesSound
    <3>3. QED BY <3>1, <3>2
  <2>3. block'[dir[r].inode] = block[dir[r].inode]
    BY <2>1, <2>2 DEF DiskTyped
  <2>4. QED BY <2>3 DEF OwnBlocks
<1>2. \A r \in Files' : SlotSound(r)'
  BY <1>1 DEF FilesSound, SlotSound, IsInode, FileSound
<1>3. \A r \in Files' : \A q \in Files' \ {r} : OwnBlocks(q)' \cap OwnBlocks(r)' = {}
  BY <1>1 DEF FilesSound
<1>4. QED
  BY <1>1, <1>2, <1>3 DEF FilesSound

LEMMA KnownData ==
    ASSUME TypedInv, SoundInv, KnownInv, NEW t \in Threads, fsLock \in {t, NoThread},
           OneMoves(t), at[t] \in {"write_zeros", "write_data"}, at'[t] \notin {"write_dir", "write_inode"},
           UNCHANGED <<bat, struck>>, Files' = Files,
           Intact => \A r \in Files : OwnBlocks(r)' = OwnBlocks(r)
    PROVE  KnownInv'
<1>1. \A b \in DataBlocks : ~Reserved(b) /\ ~Reserved(b)'
  BY NoneReserved
<1>2. ASSUME Intact, Accounted PROVE Accounted'
  BY <1>1, <1>2 DEF Accounted
<1>3. QED
  BY <1>2, KnownWritten

LEMMA SoundWriteZeros ==
    ASSUME QuietInv, TypedInv, NamesInv, SoundInv, KnownInv, NEW t \in Threads, WriteZeros(t)
    PROVE  SoundInv' /\ KnownInv' /\ (Intact => \E s \in Files : Zeroes(t, s))
<1>0. Shapes /\ DiskTyped /\ AtWrite(t) /\ CallTyped(t) /\ Changing(t)
  BY DEF QuietInv, TypedInv, BufferTyped, CallsTyped, NamesInv
<1>1. /\ at[t] = "write_zeros" /\ UNCHANGED <<bat, dir, dirbuf, struck>>
      /\ block' = [block EXCEPT ![buf.inode.blocks[call[t].k]] = Data(Zeros)]
      /\ \/ Return(t, 0)
         \/ /\ call[t].k # Len(buf.inode.blocks)
            /\ call' = [call EXCEPT ![t].k = call[t].k + 1] /\ UNCHANGED <<fsLock, buf, at>>
  BY DEF WriteZeros
<1>2. /\ fsLock = t /\ call[t].name \in Names /\ call[t].op = "create" /\ dirbuf = dir
      /\ buf.inode \in Inodes
  BY <1>0, <1>1 DEF AtWrite, WritePlaces, CallTyped, Changing, TypedInv, BufferTyped
<1>3. PICK s \in Slots : dir[s].name = call[t].name
  BY <1>0, <1>1 DEF Changing
<1>4. s \in Whole /\ \A r \in Slots : dir[r].name = call[t].name <=> r = s
  <2>1. dir[s].name # NoName
    BY <1>2, <1>3, TfsAssumption
  <2>2. s \in Whole
    BY <1>0, <2>1, NamedEntry DEF Whole
  <2>3. QED BY <1>3, <2>1, <2>2 DEF NamesInv, NamesUnique
<1>5. /\ OneMoves(t) /\ fsLock' \in {t, NoThread} /\ at'[t] \in {"unlock", "write_zeros"}
      /\ at'[t] = "write_zeros" => /\ call[t].k # Len(buf.inode.blocks) /\ UNCHANGED buf
                                   /\ CallSet(t, call[t].arg, call[t].k + 1)
  <2>1. CASE Return(t, 0)
    <3>1. OneMoves(t) /\ Left(t) /\ fsLock' = NoThread
      BY <1>0, <2>1, Returned
    <3>2. QED BY <1>2, <3>1 DEF Left
  <2>2. CASE ~Return(t, 0)
    BY <1>0, <1>1, <1>2, <2>2, CallAssigned DEF OneMoves, Shapes
  <2>3. QED BY <2>1, <2>2
<1>6. Files = Whole /\ Files' = Whole
  <2>1. Files = Whole
    BY <1>1, <1>2, FilesOf DEF TornBy
  <2>2. Files' = Whole
    BY <1>1, <1>5, FilesThen DEF Whole, TornBy
  <2>3. QED BY <2>1, <2>2
<1>7. ASSUME Intact
      PROVE  /\ FileSound(dir[s].inode, buf.inode) /\ IsInode(dir[s].inode)
             /\ block[dir[s].inode] = buf.inode /\ call[t].k \in 1 .. Len(buf.inode.blocks)
             /\ FilesSound
  BY <1>1, <1>2, <1>3, <1>7 DEF SoundInv, WritesSound, CreateSound, WritePlaces, NewFile
<1>8. ASSUME Intact
      PROVE  /\ FilesSound'
             /\ \A r \in Files : /\ block'[dir[r].inode] = block[dir[r].inode]
                                 /\ OwnBlocks(r)' = OwnBlocks(r)
  <2> DEFINE b == buf.inode.blocks[call[t].k]
             v == Data(Zeros)
  <2>1. b \in ToSet(block[dir[s].inode].blocks)
    BY <1>2, <1>7, <1>8 DEF ToSet, Inodes
  <2>2. "size" \notin DOMAIN v
    BY DEF Data
  <2>3. block' = [block EXCEPT ![b] = v]
    BY <1>1
  <2> HIDE DEF b, v
  <2>4. QED BY <1>0, <1>1, <1>4, <1>6, <1>7, <1>8, <2>1, <2>2, <2>3, DataWritten
<1>9. Intact => WritesSound(t)'
  <2>1. CASE at'[t] = "unlock"
    BY <2>1, NothingToWrite DEF WritePlaces
  <2>2. CASE at'[t] = "write_zeros"
    <3>1. buf'.inode = buf.inode /\ call'[t].name = call[t].name /\ dirbuf' = dir
          /\ call'[t].k = call[t].k + 1 /\ call[t].k # Len(buf.inode.blocks)
      BY <1>1, <1>2, <1>5, <2>2 DEF CallSet
    <3>2. ASSUME Intact PROVE call'[t].k \in 1 .. Len(buf.inode.blocks)
      <4>1. Len(buf.inode.blocks) \in Nat
        BY <1>2 DEF Inodes
      <4>2. QED BY <1>7, <3>1, <3>2, <4>1
    <3>3. ASSUME Intact, NEW r \in Slots, dirbuf'[r].name = call'[t].name PROVE NewFile(t, r)'
      <4>1. r = s
        BY <1>4, <3>1, <3>3
      <4>2. block'[dir[s].inode] = block[dir[s].inode]
        BY <1>4, <1>6, <1>8, <3>3
      <4>3. QED
        BY <1>7, <2>2, <3>1, <3>2, <3>3, <4>1, <4>2 DEF NewFile, FileSound, IsInode
    <3>4. QED BY <2>2, <3>3 DEF WritesSound, CreateSound, RemoveSound, WriteSound
  <2>3. QED BY <1>5, <2>1, <2>2
<1>10. SoundInv'
  BY <1>1, <1>2, <1>5, <1>8, <1>9, SoundInside
<1>11. Intact => Zeroes(t, s) /\ s \in Files
  BY <1>3, <1>4, <1>6, <1>7 DEF Zeroes
<1>12. QED
  BY <1>1, <1>2, <1>5, <1>6, <1>8, <1>10, <1>11, KnownData

LEMMA SoundWriteData ==
    ASSUME QuietInv, TypedInv, NamesInv, SoundInv, KnownInv, NEW t \in Threads,
           WriteData(t, files[call[t].handle].seek), UNCHANGED files
    PROVE  SoundInv' /\ KnownInv' /\ (Intact => \E s \in Files : Writes(t, s))
<1>0. Shapes /\ DiskTyped /\ AtWrite(t) /\ CallTyped(t)
  BY DEF QuietInv, TypedInv, BufferTyped, CallsTyped
<1> DEFINE x == call[t].handle
           p == files[x].seek
           n == call[t].arg
           k == call[t].k
           last == (p + n - 1) \div BlockSize
<1>1. /\ at[t] = "write_data" /\ UNCHANGED <<bat, dir, dirbuf, struck>>
      /\ \E w : block' = [block EXCEPT ![buf.inode.blocks[k + 1]] = Data(w)]
      /\ \/ Return(t, n)
         \/ /\ k # last
            /\ call' = [call EXCEPT ![t].k = k + 1] /\ UNCHANGED <<fsLock, buf, at>>
  BY DEF WriteData
<1> HIDE DEF k, n, last
<1>2. fsLock = t /\ call[t].op = "write" /\ buf.inode \in Inodes
  BY <1>0, <1>1 DEF AtWrite, WritePlaces, TypedInv, BufferTyped
<1>3. PICK s \in Slots : /\ dir[s].name = call[t].name
                         /\ dir[s].inode = files[x].fileid /\ s \in Whole
  BY <1>1, <1>2, UsedFile DEF TfsPlaces, WritePlaces
<1>4. x \in Handles /\ p \in Nat
  <2>1. x \in Handles
    BY <1>1, <1>2, UsedFile DEF TfsPlaces, WritePlaces
  <2>2. QED BY <2>1 DEF TypedInv, FilesTyped, FileRows
<1>5. /\ OneMoves(t) /\ fsLock' \in {t, NoThread} /\ at'[t] \in {"advance", "end", "write_data"}
      /\ at'[t] = "write_data" => k # last /\ UNCHANGED buf /\ CallSet(t, n, k + 1)
  <2>1. CASE Return(t, n)
    <3>1. OneMoves(t) /\ Left(t) /\ fsLock' = NoThread
      BY <1>0, <2>1, Returned
    <3>2. QED BY <1>2, <3>1 DEF Left
  <2>2. CASE ~Return(t, n)
    BY <1>0, <1>1, <1>2, <2>2, CallAssigned DEF OneMoves, Shapes, n
  <2>3. QED BY <2>1, <2>2
<1>6. Files = Whole /\ Files' = Whole
  <2>1. Files = Whole
    BY <1>1, <1>2, FilesOf DEF TornBy
  <2>2. Files' = Whole
    BY <1>1, <1>5, FilesThen DEF Whole, TornBy
  <2>3. QED BY <2>1, <2>2
<1>7. ASSUME Intact
      PROVE  /\ FilesSound /\ IsInode(dir[s].inode) /\ buf.inode = block[dir[s].inode]
             /\ n \in Nat \ {0} /\ p + n <= buf.inode.size
             /\ k \in (p \div BlockSize) .. last
  BY <1>1, <1>3, <1>7 DEF SoundInv, WritesSound, WriteSound, n, k, last
<1> HIDE DEF x, p
<1>8. ASSUME Intact
      PROVE  k \in Nat /\ k + 1 \in 1 .. Len(buf.inode.blocks) /\ last \in Nat
  <2> DEFINE a == p + n - 1
             size == buf.inode.size
  <2>1. a \in Nat /\ size \in Nat /\ a < size /\ p \div BlockSize \in Nat
    <3>1. size \in Nat
      BY <1>2 DEF Inodes
    <3>2. p \div BlockSize \in Nat
      BY <1>4, DivBounds
    <3>3. QED BY <1>4, <1>7, <1>8, <3>1, <3>2
  <2>2. last = a \div BlockSize
    BY DEF last
  <2> HIDE DEF a, size
  <2>3. last + 1 <= BlocksFor(size) /\ last \in Nat
    BY <2>1, <2>2, LastBlock, DivBounds
  <2>4. Len(buf.inode.blocks) = BlocksFor(size) /\ BlocksFor(size) \in Nat
    <3>1. FileSound(dir[s].inode, buf.inode)
      BY <1>6, <1>3, <1>7, <1>8 DEF FilesSound, SlotSound
    <3>2. QED BY <2>1, <3>1, BlocksForIsNat DEF FileSound, size
  <2>5. QED BY <1>7, <1>8, <2>1, <2>3, <2>4
<1>9. ASSUME Intact
      PROVE  /\ FilesSound'
             /\ \A r \in Files : /\ block'[dir[r].inode] = block[dir[r].inode]
                                 /\ OwnBlocks(r)' = OwnBlocks(r)
  <2>1. PICK w : block' = [block EXCEPT ![buf.inode.blocks[k + 1]] = Data(w)]
    BY <1>1
  <2> DEFINE b == buf.inode.blocks[k + 1]
             v == Data(w)
  <2>2. b \in ToSet(block[dir[s].inode].blocks)
    BY <1>2, <1>7, <1>8, <1>9 DEF ToSet, Inodes
  <2>3. "size" \notin DOMAIN v
    BY DEF Data
  <2>4. block' = [block EXCEPT ![b] = v]
    BY <2>1
  <2> HIDE DEF b, v
  <2>5. QED BY <1>0, <1>1, <1>3, <1>6, <1>7, <1>9, <2>2, <2>3, <2>4, DataWritten
<1>10. Intact => WritesSound(t)'
  <2>1. CASE at'[t] # "write_data"
    BY <1>5, <2>1, NothingToWrite DEF WritePlaces
  <2>2. CASE at'[t] = "write_data"
    <3>1. /\ buf'.inode = buf.inode /\ files' = files /\ call'[t].handle = x
          /\ call'[t].arg = n /\ call'[t].k = k + 1 /\ k # last /\ call'[t].op = "write"
      BY <1>2, <1>5, <2>2 DEF CallSet, x
    <3>2. ASSUME Intact PROVE WriteSound(t)'
      <4>1. block'[dir[s].inode] = block[dir[s].inode]
        BY <1>3, <1>6, <1>9, <3>2
      <4>2. k + 1 \in (p \div BlockSize) .. last
        <5>1. p \div BlockSize \in Nat
          BY <1>4, DivBounds
        <5>2. QED BY <1>7, <1>8, <3>1, <3>2, <5>1
      <4>3. /\ files'[x].seek = p /\ files'[x].fileid = dir[s].inode
            /\ last = (p + n - 1) \div BlockSize
        BY <1>3, <3>1 DEF p, last
      <4>4. /\ "size" \in DOMAIN block'[files'[call'[t].handle].fileid]
            /\ buf'.inode = block'[files'[call'[t].handle].fileid]
            /\ files'[call'[t].handle].seek + call'[t].arg <= buf'.inode.size
        BY <1>7, <3>1, <3>2, <4>1, <4>3 DEF IsInode
      <4>5. call'[t].k \in (files'[call'[t].handle].seek \div BlockSize) ..
                               ((files'[call'[t].handle].seek + call'[t].arg - 1) \div BlockSize)
        BY <3>1, <4>2, <4>3
      <4>6. call'[t].arg \in Nat \ {0}
        BY <1>7, <3>1, <3>2
      <4>7. QED BY <4>4, <4>5, <4>6 DEF WriteSound, IsInode
    <3>3. QED BY <2>2, <3>1, <3>2 DEF WritesSound, CreateSound, RemoveSound
  <2>3. QED BY <2>1, <2>2
<1>11. SoundInv'
  BY <1>1, <1>2, <1>5, <1>9, <1>10, SoundInside
<1>12. Intact => Writes(t, s) /\ s \in Files
  BY <1>3, <1>4, <1>6, <1>7, <1>8 DEF Writes, n, k, x, p
<1>13. QED
  BY <1>1, <1>2, <1>5, <1>6, <1>9, <1>11, <1>12, KnownData

-----------------------------------------------------------------------------
\* The bytes of the files.
LEMMA BytesUntouched ==
    ASSUME SoundInv, BytesInv, struck \subseteq struck', Intact' => Untouched,
           Clean' => \A u \in Threads : /\ Zeroed(u)'
                                        /\ at[u] = "write_zeros" =>
                                               at'[u] = at[u] /\ call'[u].name = call[u].name
    PROVE  BytesInv'
<1> SUFFICES ASSUME Clean', NEW s \in Files', NEW j \in 1 .. Len(block'[dir'[s].inode].blocks)
             PROVE  Filling(s)' \/ Filled(s, j)'
  BY DEF BytesInv, FilesFilled
<1>1. Clean /\ Intact /\ Intact' /\ Untouched
  BY DEF Clean, Intact
<1> DEFINE i == dir[s].inode
           q == block[i].blocks
<1>2. s \in Files /\ dir'[s] = dir[s] /\ \A b \in OwnBlocks(s) : block'[b] = block[b]
  BY <1>1 DEF Untouched
<1>3. block'[i] = block[i] /\ q \in Seq(DataBlocks)
  <2>1. FileSound(i, block[i])
    BY <1>1, <1>2 DEF SoundInv, FilesSound, SlotSound
  <2>2. QED BY <1>2, <2>1 DEF OwnBlocks, FileSound, Distinct
<1>4. j \in 1 .. Len(q)
  BY <1>2, <1>3
<1>5. block'[q[j]] = block[q[j]]
  <2>1. q[j] \in ToSet(q)
    BY <1>3, <1>4 DEF ToSet
  <2>2. QED BY <1>2, <2>1 DEF OwnBlocks
<1>6. Filling(s) \/ Filled(s, j)
  BY <1>1, <1>2, <1>4 DEF BytesInv, FilesFilled
<1>7. CASE Filling(s)
  BY <1>2, <1>7 DEF Filling
<1>8. CASE Filled(s, j)
  <2>1. /\ block'[block'[dir'[s].inode].blocks[j]] = block[block[dir[s].inode].blocks[j]]
        /\ block'[dir'[s].inode].size = block[dir[s].inode].size
    BY <1>2, <1>3, <1>5
  <2>2. QED BY <1>2, <1>8, <2>1 DEF Filled
<1>9. QED
  BY <1>6, <1>7, <1>8

\* Nobody fills a file, or who did was cut short.
LEMMA BytesQuiet ==
    ASSUME TypedInv, SoundInv, BytesInv, NEW t \in Threads, fsLock \in {t, NoThread},
           OneMoves(t), struck \subseteq struck', Intact' => Untouched,
           at'[t] # "write_zeros", at[t] = "write_zeros" => ~Clean'
    PROVE  BytesInv'
<1>1. \A u \in Threads \ {t} : at[u] # "write_zeros" /\ at'[u] # "write_zeros"
  BY OthersOut DEF OneMoves, WritePlaces
<1>2. \A u \in Threads : Zeroed(u)'
  BY <1>1 DEF Zeroed
<1>3. QED
  BY <1>1, <1>2, BytesUntouched

\* One block of one file is written.
OneBlock(s, m, v) ==
    \A r \in Files :
        /\ block'[dir[r].inode] = block[dir[r].inode]
        /\ \A j \in 1 .. Len(block[dir[r].inode].blocks) :
               block'[block[dir[r].inode].blocks[j]] =
                   IF r = s /\ j = m THEN v ELSE block[block[dir[r].inode].blocks[j]]

LEMMA OneBlockWritten ==
    ASSUME DiskTyped, FilesSound, NEW s \in Files, NEW m \in 1 .. Len(block[dir[s].inode].blocks),
           NEW v, "size" \notin DOMAIN v,
           block' = [block EXCEPT ![block[dir[s].inode].blocks[m]] = v],
           UNCHANGED <<bat, dir>>, Files' = Files
    PROVE  OneBlock(s, m, v)
<1> DEFINE b == block[dir[s].inode].blocks[m]
<1>1. \A r \in Files : /\ Distinct(block[dir[r].inode].blocks, DataBlocks)
                       /\ ToSet(block[dir[r].inode].blocks) \subseteq OwnBlocks(r)
  BY DEF FilesSound, SlotSound, FileSound, OwnBlocks
<1>2. \A r \in Files : \A j \in 1 .. Len(block[dir[r].inode].blocks) :
          block[dir[r].inode].blocks[j] \in ToSet(block[dir[r].inode].blocks) \cap DataBlocks
  BY <1>1 DEF Distinct, ToSet
<1>3. b \in ToSet(block[dir[s].inode].blocks) /\ b \in DataBlocks /\ b \in OwnBlocks(s)
  BY <1>1, <1>2
<1>4. block' = [block EXCEPT ![b] = v]
  OBVIOUS
<1>5. block'[b] = v /\ \A c \in DataBlocks \ {b} : block'[c] = block[c]
  BY <1>3, <1>4 DEF DiskTyped
<1>6. ASSUME NEW r \in Files, NEW j \in 1 .. Len(block[dir[r].inode].blocks)
      PROVE  block[dir[r].inode].blocks[j] = b <=> r = s /\ j = m
  <2>1. CASE r = s
    BY <1>1, <1>6, <2>1 DEF Distinct
  <2>2. CASE r # s
    <3>1. OwnBlocks(r) \cap OwnBlocks(s) = {}
      BY <1>6, <2>2 DEF FilesSound
    <3>2. block[dir[r].inode].blocks[j] \in OwnBlocks(r)
      BY <1>1, <1>2, <1>6
    <3>3. QED BY <1>3, <2>2, <3>1, <3>2
  <2>3. QED BY <2>1, <2>2
<1>7. \A r \in Files : block'[dir[r].inode] = block[dir[r].inode]
  <2> HIDE DEF b
  <2>1. QED BY <1>3, <1>4, DataWritten
<1> HIDE DEF b
<1>8. ASSUME NEW r \in Files, NEW j \in 1 .. Len(block[dir[r].inode].blocks)
      PROVE  block'[block[dir[r].inode].blocks[j]] =
                 IF r = s /\ j = m THEN v ELSE block[block[dir[r].inode].blocks[j]]
  BY <1>2, <1>5, <1>6, <1>8
<1>9. QED
  BY <1>7, <1>8 DEF OneBlock

LEMMA BytesWriteInode ==
    ASSUME QuietInv, TypedInv, NamesInv, SoundInv, BytesInv, NEW t \in Threads, WriteInode(t),
           NEW s \in Slots, Intact => Completes(t, s)
    PROVE  BytesInv'
<1>0. Shapes /\ AtWrite(t)
  BY DEF QuietInv, TypedInv, BufferTyped
<1>1. /\ at[t] = "write_inode" /\ UNCHANGED <<dir, struck>> /\ fsLock = t
      /\ \/ Return(t, 0) /\ buf.inode.blocks = <<>>
         \/ /\ call' = [call EXCEPT ![t].k = 1] /\ MoveTo(t, "write_zeros")
            /\ UNCHANGED <<fsLock, buf>>
  BY <1>0 DEF WriteInode, AtWrite, WritePlaces
<1>2. /\ OneMoves(t)
      /\ \/ at'[t] = "write_zeros" /\ call'[t].name = call[t].name /\ call'[t].k = 1
         \/ at'[t] # "write_zeros" /\ buf.inode.blocks = <<>>
  <2>1. CASE Return(t, 0) /\ buf.inode.blocks = <<>>
    BY <1>0, <2>1, Returned DEF Left
  <2>2. CASE ~(Return(t, 0) /\ buf.inode.blocks = <<>>)
    <3>1. OneMoves(t) /\ at'[t] = "write_zeros" /\ CallSet(t, call[t].arg, 1)
      BY <1>0, <1>1, <2>2, Moved, CallAssigned
    <3>2. QED BY <3>1 DEF CallSet
  <2>3. QED BY <2>1, <2>2
<1>3. \A u \in Threads : at[u] # "write_zeros" /\ (u # t => at'[u] # "write_zeros")
  BY <1>1, <1>2, OthersOut DEF OneMoves, WritePlaces
<1>4. \A u \in Threads : Zeroed(u)'
  <2>1. at'[t] = "write_zeros" => call'[t].k - 1 = 0
    BY <1>2
  <2>2. QED BY <1>3, <2>1 DEF Zeroed
<1> SUFFICES ASSUME Clean', NEW r \in Files', NEW j \in 1 .. Len(block'[dir'[r].inode].blocks)
             PROVE  Filling(r)' \/ Filled(r, j)'
  BY <1>4 DEF BytesInv, FilesFilled
<1>5. Clean /\ Intact /\ Completes(t, s) /\ dir' = dir
  BY <1>1 DEF Clean, Intact
<1>6. CASE r = s
  <2>1. dir'[r].name = call[t].name /\ block'[dir'[r].inode] = buf.inode
    BY <1>5, <1>6 DEF Completes
  <2>2. CASE at'[t] = "write_zeros"
    BY <1>2, <2>1, <2>2 DEF Filling
  <2>3. CASE at'[t] # "write_zeros"
    BY <1>2, <2>1, <2>3
  <2>4. QED BY <2>2, <2>3
<1>7. CASE r # s
  <2> DEFINE i == dir[r].inode
             q == block[i].blocks
  <2>1. r \in Files /\ \A b \in OwnBlocks(r) : block'[b] = block[b]
    BY <1>5, <1>7 DEF Completes
  <2>2. q \in Seq(DataBlocks)
    BY <1>5, <2>1 DEF SoundInv, FilesSound, SlotSound, FileSound, Distinct
  <2>3. block'[i] = block[i] /\ j \in 1 .. Len(q)
    BY <1>5, <2>1 DEF OwnBlocks
  <2>4. block'[q[j]] = block[q[j]]
    BY <2>1, <2>2, <2>3 DEF OwnBlocks, ToSet
  <2>5. Filled(r, j)
    BY <1>3, <1>5, <2>1, <2>3 DEF BytesInv, FilesFilled, Filling
  <2>6. /\ block'[block'[dir'[r].inode].blocks[j]] = block[block[dir[r].inode].blocks[j]]
        /\ block'[dir'[r].inode].size = block[dir[r].inode].size /\ dir'[r] = dir[r]
    BY <1>5, <2>3, <2>4
  <2>7. QED BY <2>5, <2>6 DEF Filled
<1>8. QED
  BY <1>6, <1>7

LEMMA BytesWriteZeros ==
    ASSUME QuietInv, TypedInv, NamesInv, SoundInv, BytesInv, NEW t \in Threads, WriteZeros(t),
           Intact => \E s \in Files : Zeroes(t, s)
    PROVE  BytesInv'
<1>0. Shapes /\ AtWrite(t) /\ CallTyped(t) /\ DiskTyped
  BY DEF QuietInv, TypedInv, BufferTyped, CallsTyped
<1>1. /\ at[t] = "write_zeros" /\ UNCHANGED <<bat, dir, struck>> /\ fsLock = t
      /\ call[t].name \in Names
      /\ block' = [block EXCEPT ![buf.inode.blocks[call[t].k]] = Data(Zeros)]
      /\ \/ Return(t, 0) /\ call[t].k = Len(buf.inode.blocks)
         \/ call' = [call EXCEPT ![t].k = call[t].k + 1] /\ UNCHANGED <<fsLock, buf, at>>
  BY <1>0 DEF WriteZeros, AtWrite, WritePlaces, CallTyped
<1>2. /\ OneMoves(t)
      /\ \/ /\ at'[t] = "write_zeros" /\ call'[t].name = call[t].name
            /\ call'[t].k = call[t].k + 1 /\ buf' = buf
         \/ at'[t] # "write_zeros" /\ call[t].k = Len(buf.inode.blocks)
  <2>1. CASE Return(t, 0) /\ call[t].k = Len(buf.inode.blocks)
    BY <1>0, <2>1, Returned DEF Left
  <2>2. CASE ~(Return(t, 0) /\ call[t].k = Len(buf.inode.blocks))
    <3>1. CallSet(t, call[t].arg, call[t].k + 1)
      BY <1>0, <1>1, <2>2, CallAssigned
    <3>2. QED BY <1>0, <1>1, <2>2, <3>1 DEF CallSet, OneMoves, Shapes
  <2>3. QED BY <2>1, <2>2
<1>3. \A u \in Threads \ {t} : at[u] # "write_zeros" /\ at'[u] # "write_zeros"
  BY <1>1, <1>2, OthersOut DEF OneMoves, WritePlaces
<1> SUFFICES ASSUME Clean' PROVE FilesFilled' /\ \A u \in Threads : Zeroed(u)'
  BY DEF BytesInv
<1>4. Clean /\ Intact /\ dir' = dir /\ FilesSound /\ FilesFilled /\ Zeroed(t)
  BY <1>1 DEF Clean, Intact, SoundInv, BytesInv
<1>5. PICK s \in Files : Zeroes(t, s)
  BY <1>4
<1> DEFINE k == call[t].k
           q == buf.inode.blocks
           v == Data(Zeros)
<1>6. /\ dir[s].name = call[t].name /\ block[dir[s].inode] = buf.inode /\ Files' = Files
      /\ k \in 1 .. Len(q) /\ q \in Seq(DataBlocks)
  <2>1. FileSound(dir[s].inode, block[dir[s].inode])
    BY <1>4 DEF FilesSound, SlotSound
  <2>2. QED BY <1>5, <2>1 DEF Zeroes, FileSound, Distinct
<1>7. "size" \notin DOMAIN v /\ \A i \in 1 .. BlockSize : v.bytes[i] = NoName
  BY DEF Data, Zeros
<1>8. block' = [block EXCEPT ![q[k]] = v] /\ (at[t] = "write_zeros" =>
          \A j \in 1 .. k - 1 : block[q[j]] = v)
  BY <1>1, <1>4 DEF Zeroed
<1>9. \/ at'[t] = "write_zeros" /\ call'[t].k = k + 1 /\ buf' = buf
      \/ at'[t] # "write_zeros" /\ k = Len(q)
  BY <1>2
<1> HIDE DEF v
<1>10. \A r \in Files :
           /\ block'[dir[r].inode] = block[dir[r].inode]
           /\ \A j \in 1 .. Len(block[dir[r].inode].blocks) :
                  block'[block[dir[r].inode].blocks[j]] =
                      IF r = s /\ j = k THEN v ELSE block[block[dir[r].inode].blocks[j]]
  <2>1. PICK m \in Nat : m = k
    BY <1>6
  <2>2. m \in 1 .. Len(block[dir[s].inode].blocks)
        /\ block' = [block EXCEPT ![block[dir[s].inode].blocks[m]] = v]
    BY <1>6, <1>8, <2>1
  <2>3. OneBlock(s, m, v)
    BY <1>0, <1>1, <1>4, <1>6, <1>7, <2>2, OneBlockWritten
  <2>4. QED BY <2>1, <2>3 DEF OneBlock
<1>11. \A j \in 1 .. k : block'[q[j]] = v
  <2> SUFFICES ASSUME NEW j \in 1 .. k PROVE block'[q[j]] = v
    OBVIOUS
  <2>1. Len(q) \in Nat /\ k \in Nat
    BY <1>6
  <2>2. j \in 1 .. Len(q) /\ (j = k \/ j \in 1 .. k - 1)
    BY <1>6, <2>1
  <2>3. block'[q[j]] = IF j = k THEN v ELSE block[q[j]]
    BY <1>6, <1>10, <2>2
  <2>4. QED BY <1>1, <1>8, <2>2, <2>3
<1> HIDE DEF k, q
<1>12. \A u \in Threads : Zeroed(u)'
  <2>1. CASE at'[t] = "write_zeros"
    <3>1. call'[t].k - 1 = k /\ buf'.inode.blocks = q
      BY <1>6, <1>9, <2>1 DEF q
    <3>2. \A j \in 1 .. call'[t].k - 1 : block'[buf'.inode.blocks[j]] = Data(Zeros)
      BY <1>11, <3>1 DEF v
    <3>3. QED BY <1>3, <3>2 DEF Zeroed
  <2>2. CASE at'[t] # "write_zeros"
    BY <1>3, <2>2 DEF Zeroed
  <2>3. QED BY <2>1, <2>2
<1>13. ASSUME NEW r \in Files, NEW j \in 1 .. Len(block[dir[r].inode].blocks)
       PROVE  Filling(r)' \/ Filled(r, j)'
  <2>1. block'[dir'[r].inode] = block[dir[r].inode] /\ dir'[r] = dir[r]
    BY <1>4, <1>10, <1>13
  <2>2. CASE r = s /\ at'[t] = "write_zeros"
    BY <1>2, <1>4, <1>6, <2>2 DEF Filling
  <2>3. CASE r = s /\ at'[t] # "write_zeros"
    <3>1. block'[block'[dir'[r].inode].blocks[j]] = v
      BY <1>6, <1>9, <1>11, <1>13, <2>1, <2>3 DEF q
    <3>2. QED BY <1>7, <3>1 DEF Filled
  <2>4. CASE r # s
    <3>1. dir[r].name # call[t].name
      BY <1>1, <1>6, <1>13, <2>4, TfsAssumption DEF NamesInv, NamesUnique, Files
    <3>2. ~Filling(r)
      BY <1>3, <3>1 DEF Filling
    <3>3. Filled(r, j)
      BY <1>4, <1>13, <3>2 DEF FilesFilled
    <3>4. block'[block[dir[r].inode].blocks[j]] = block[block[dir[r].inode].blocks[j]]
      BY <1>10, <1>13, <2>4
    <3>5. /\ block'[block'[dir'[r].inode].blocks[j]] = block[block[dir[r].inode].blocks[j]]
          /\ block'[dir'[r].inode].size = block[dir[r].inode].size
      BY <2>1, <3>4
    <3>6. QED BY <2>1, <3>3, <3>5 DEF Filled
  <2>5. QED BY <2>2, <2>3, <2>4
<1>14. \A r \in Files' : \A j \in 1 .. Len(block'[dir'[r].inode].blocks) :
           Filling(r)' \/ Filled(r, j)'
  BY <1>4, <1>6, <1>10, <1>13
<1>15. QED
  BY <1>12, <1>14 DEF FilesFilled

LEMMA BytesWriteData ==
    ASSUME QuietInv, TypedInv, NamesInv, SoundInv, BytesInv, NEW t \in Threads,
           WriteData(t, files[call[t].handle].seek), Intact => \E s \in Files : Writes(t, s)
    PROVE  BytesInv'
<1>0. Shapes /\ AtWrite(t) /\ DiskTyped
  BY DEF QuietInv, TypedInv, BufferTyped
<1> DEFINE p == files[call[t].handle].seek
           n == call[t].arg
           k == call[t].k
           b == buf.inode.blocks[k + 1]
           written == {i \in 1 .. BlockSize : p <= k * BlockSize + i - 1
                                              /\ k * BlockSize + i - 1 < p + n}
           w == [i \in 1 .. BlockSize |-> IF i \in written THEN call[t].name ELSE Kept(b, i)]
           v == Data(w)
<1>1. /\ at[t] = "write_data" /\ UNCHANGED <<bat, dir, struck>> /\ fsLock = t
      /\ block' = [block EXCEPT ![b] = v]
      /\ Return(t, n) \/ UNCHANGED at
  BY <1>0 DEF WriteData, AtWrite, WritePlaces
<1>2. OneMoves(t) /\ at'[t] # "write_zeros"
  <2>1. CASE Return(t, n)
    BY <1>0, <2>1, Returned DEF Left
  <2>2. CASE UNCHANGED at
    BY <1>0, <1>1, <2>2 DEF OneMoves, Shapes
  <2>3. QED BY <1>1, <2>1, <2>2
<1>3. \A u \in Threads : at[u] # "write_zeros" /\ at'[u] # "write_zeros"
  BY <1>1, <1>2, OthersOut DEF OneMoves, WritePlaces
<1> SUFFICES ASSUME Clean' PROVE FilesFilled'
  BY <1>3 DEF BytesInv, Zeroed
<1>4. Clean /\ Intact /\ dir' = dir /\ FilesSound /\ FilesFilled
  BY <1>1 DEF Clean, Intact, SoundInv, BytesInv
<1>5. PICK s \in Files : Writes(t, s)
  BY <1>4
<1>6. /\ dir[s].name = call[t].name /\ block[dir[s].inode] = buf.inode /\ Files' = Files
      /\ k \in Nat /\ k + 1 \in 1 .. Len(buf.inode.blocks)
      /\ p + n <= buf.inode.size /\ p \in Nat /\ n \in Nat
  BY <1>5 DEF Writes
<1>7. /\ "size" \notin DOMAIN v
      /\ \A i \in 1 .. BlockSize : v.bytes[i] = IF i \in written THEN call[t].name
                                                ELSE block[b].bytes[i]
  BY DEF Data, Kept
<1> HIDE DEF v, w
<1>8. \A r \in Files :
          /\ block'[dir[r].inode] = block[dir[r].inode]
          /\ \A j \in 1 .. Len(block[dir[r].inode].blocks) :
                 block'[block[dir[r].inode].blocks[j]] =
                     IF r = s /\ j = k + 1 THEN v ELSE block[block[dir[r].inode].blocks[j]]
  <2>0. PICK m \in Nat : m = k + 1
    BY <1>6
  <2>1. PICK c : c = v
    OBVIOUS
  <2>2. /\ m \in 1 .. Len(block[dir[s].inode].blocks) /\ "size" \notin DOMAIN c
        /\ block' = [block EXCEPT ![block[dir[s].inode].blocks[m]] = c]
    BY <1>1, <1>6, <1>7, <2>0, <2>1
  <2>3. OneBlock(s, m, c)
    BY <1>0, <1>1, <1>4, <1>6, <2>2, OneBlockWritten
  <2>4. QED BY <2>0, <2>1, <2>3 DEF OneBlock
<1>9. ASSUME NEW i \in written PROVE (k + 1 - 1) * BlockSize + i <= buf.inode.size
  <2>1. k + 1 - 1 = k /\ i \in Nat /\ BlockSize \in Nat /\ buf.inode.size \in Nat
    BY <1>6, <1>9, TfsAssumption DEF TypedInv, BufferTyped, Inodes
  <2> DEFINE x == k * BlockSize
  <2>2. x \in Nat
    BY <1>6, <2>1
  <2>3. x + i - 1 < p + n
    BY <1>9
  <2>4. k + 1 - 1 = k
    BY <2>1
  <2> HIDE DEF x, p, n
  <2>5. x + i <= buf.inode.size
    BY <1>6, <2>1, <2>2, <2>3
  <2>6. QED BY <2>4, <2>5 DEF x
<1>10. ASSUME NEW r \in Files, NEW j \in 1 .. Len(block[dir[r].inode].blocks)
       PROVE  Filled(r, j)'
  <2>1. block'[dir'[r].inode] = block[dir[r].inode] /\ dir'[r] = dir[r]
    BY <1>4, <1>8, <1>10
  <2>2. Filled(r, j)
    BY <1>3, <1>4, <1>10 DEF FilesFilled, Filling
  <2>3. CASE r = s /\ j = k + 1
    <3>1. block'[block'[dir'[r].inode].blocks[j]] = v /\ block[block[dir[r].inode].blocks[j]] = block[b]
      BY <1>6, <1>8, <1>10, <2>1, <2>3
    <3>2. ASSUME NEW i \in 1 .. BlockSize
          PROVE  v.bytes[i] \in IF (j - 1) * BlockSize + i <= block[dir[r].inode].size
                                THEN {NoName, dir[r].name} ELSE {NoName}
      <4>1. CASE i \in written
        <5>1. v.bytes[i] = dir[r].name
          BY <1>6, <1>7, <2>3, <4>1
        <5>2. (j - 1) * BlockSize + i <= block[dir[r].inode].size
          BY <1>6, <1>9, <2>3, <4>1
        <5>3. QED BY <5>1, <5>2
      <4>2. CASE i \notin written
        <5>1. v.bytes[i] = block[block[dir[r].inode].blocks[j]].bytes[i]
          BY <1>7, <3>1, <3>2, <4>2
        <5>2. QED BY <2>2, <3>2, <5>1 DEF Filled
      <4>3. QED BY <4>1, <4>2
    <3>3. block'[dir'[r].inode].size = block[dir[r].inode].size
      BY <2>1
    <3>4. QED BY <2>1, <3>1, <3>2, <3>3 DEF Filled
  <2>4. CASE ~(r = s /\ j = k + 1)
    <3>1. block'[block[dir[r].inode].blocks[j]] = block[block[dir[r].inode].blocks[j]]
      BY <1>8, <1>10, <2>4
    <3>2. /\ block'[block'[dir'[r].inode].blocks[j]] = block[block[dir[r].inode].blocks[j]]
          /\ block'[dir'[r].inode].size = block[dir[r].inode].size
      BY <2>1, <3>1
    <3>3. QED BY <2>1, <2>2, <3>2 DEF Filled
  <2>5. QED BY <2>3, <2>4
<1>11. \A r \in Files' : \A j \in 1 .. Len(block'[dir'[r].inode].blocks) : Filled(r, j)'
  BY <1>4, <1>6, <1>8, <1>10
<1>12. QED
  BY <1>11 DEF FilesFilled

\* The steps outside the filesystem, and what they do to the files that others write.
LEMMA OutsideSteps ==
    ASSUME QuietInv, TypedInv, NEW t \in Threads,
           \/ StartOp(t) \/ EndOp(t) \/ Mount(t) \/ LockTable(t) \/ UnmountCheck(t)
           \/ UnmountFs(t) \/ ClaimFile(t) \/ OpenReturn(t) \/ CloseFile(t) \/ MoveSeek(t)
           \/ UnlockTable(t)
    PROVE  /\ OutsideMove(t)
           /\ \A u \in Threads \ {t} : at[u] = "write_data" =>
                  files'[call[u].handle] = files[call[u].handle]
<1>0. Shapes /\ HandlesHeld
  BY DEF QuietInv
<1>1. \A p : MoveTo(t, p) => OneMoves(t) /\ at'[t] = p
  BY <1>0, Moved
<1>2. CASE StartOp(t)
  <2>1. /\ at[t] = "idle" /\ Calls(t) /\ KeepTfs /\ UNCHANGED files
        /\ OneMoves(t) /\ at'[t] = FirstPlace(call'[t].op)
    BY <1>1, <1>2 DEF StartOp, KeepTfs
  <2>2. (\A u \in Threads \ {t} : call'[u] = call[u]) /\ Made(t, call'[t])
    BY <1>0, <2>1, CallMade
  <2>3. at'[t] \in {"table", "files", "tfs"}
    BY <2>1, <2>2 DEF Made, Ops, FirstPlace
  <2>4. QED BY <2>1, <2>2, <2>3 DEF OutsideMove, WritePlaces
<1>3. CASE EndOp(t)
  <2>1. /\ at[t] = "end" /\ KeepTfs /\ UNCHANGED files
        /\ OneMoves(t) /\ at'[t] = "idle"
        /\ \A u \in Threads \ {t} : call'[u] = call[u]
    BY <1>0, <1>1, <1>3, CallIs DEF EndOp, KeepTfs
  <2>2. QED BY <2>1 DEF OutsideMove, WritePlaces
<1>4. CASE Mount(t) \/ LockTable(t) \/ UnmountCheck(t) \/ UnmountFs(t) \/ UnlockTable(t)
  <2>1. /\ KeepTfs /\ UNCHANGED <<call, files>>
        /\ at[t] \in {"table", "files", "unmount", "unlock"}
    BY <1>4 DEF Mount, LockTable, UnmountCheck, UnmountFs, UnlockTable, TableOp, FilesOp
  <2>2. OneMoves(t) /\ at'[t] \in {"end", "files", "tfs", "unmount"}
    <3>1. CASE LockTable(t)
      BY <1>1, <3>1 DEF LockTable
    <3>2. CASE ~LockTable(t)
      BY <1>1, <1>4, <3>2 DEF Mount, UnmountCheck, UnlockTable, UnmountFs
    <3>3. QED BY <3>1, <3>2
  <2>3. QED BY <2>1, <2>2 DEF OutsideMove, WritePlaces
<1>5. \A u \in Threads : at[u] = "write_data" =>
          Using(u) /\ call[u].handle \in Handles /\ files[call[u].handle].open
  <2>1. \A u \in Threads : at[u] = "write_data" => call[u].op = "write"
    BY DEF TypedInv, BufferTyped, AtWrite
  <2>2. QED BY <2>1, UsesEntry DEF TfsPlaces, WritePlaces
<1>6. CASE ClaimFile(t)
  <2>1. /\ at[t] = "files" /\ KeepTfs
        /\ \/ MoveTo(t, "end") /\ UNCHANGED <<files, call>>
           \/ \E h \in ClosedHandles : /\ files' = [files EXCEPT ![h] = Claimed(h)]
                                       /\ call' = [call EXCEPT ![t].handle = h]
                                       /\ MoveTo(t, "tfs")
    BY <1>6 DEF ClaimFile, FilesOp
  <2>2. OneMoves(t) /\ at'[t] \in {"end", "tfs"}
    BY <1>1, <2>1
  <2>3. \A u \in Threads \ {t} : call'[u] = call[u]
    <3>1. ASSUME NEW h, call' = [call EXCEPT ![t].handle = h], NEW u \in Threads \ {t}
          PROVE  call'[u] = call[u]
      BY <1>0, <3>1 DEF Shapes
    <3>2. QED BY <2>1, <3>1
  <2>4. \A u \in Threads : at[u] = "write_data" => files'[call[u].handle] = files[call[u].handle]
    <3>1. ASSUME NEW h \in ClosedHandles, files' = [files EXCEPT ![h] = Claimed(h)],
                 NEW u \in Threads, at[u] = "write_data"
          PROVE  files'[call[u].handle] = files[call[u].handle]
      <4>1. call[u].handle \in Handles \ {h}
        BY <1>5, <3>1 DEF ClosedHandles
      <4>2. QED BY <1>0, <3>1, <4>1 DEF Shapes
    <3>2. QED BY <2>1, <3>1
  <2>5. QED BY <2>1, <2>2, <2>3, <2>4 DEF OutsideMove, WritePlaces
<1>7. CASE OpenReturn(t) \/ CloseFile(t) \/ MoveSeek(t)
  <2> DEFINE x == call[t].handle
  <2>1. /\ at[t] \in {"tfs_opened", "give_up", "files", "advance"}
        /\ at[t] = "files" => call[t].op \in {"close", "seek"}
        /\ UNCHANGED call /\ KeepTfs
        /\ \E p \in {"give_up", "end"} : MoveTo(t, p)
        /\ \/ UNCHANGED files
           \/ \E f : files' = [files EXCEPT ![x] = f]
    <3>1. CASE OpenReturn(t)
      BY <3>1 DEF OpenReturn
    <3>2. CASE CloseFile(t)
      BY <3>2 DEF CloseFile
    <3>3. CASE MoveSeek(t)
      BY <3>3 DEF MoveSeek, history
    <3>4. QED BY <1>7, <3>1, <3>2, <3>3
  <2>2. OneMoves(t) /\ at'[t] \in {"give_up", "end"}
    BY <1>1, <2>1
  <2>3. Using(t) /\ x \in Handles
    BY <2>1, UsesEntry
  <2>4. \A u \in Threads \ {t} : at[u] = "write_data" =>
            call[u].handle \in Handles \ {x}
    BY <1>0, <1>5, <2>3 DEF HandlesHeld
  <2> HIDE DEF x
  <2>5. \A u \in Threads \ {t} : at[u] = "write_data" =>
            files'[call[u].handle] = files[call[u].handle]
    BY <1>0, <2>1, <2>4 DEF Shapes
  <2>6. QED BY <2>1, <2>2, <2>5 DEF OutsideMove, WritePlaces
<1>8. QED
  BY <1>2, <1>3, <1>4, <1>6, <1>7

LEMMA SoundFsStep ==
    ASSUME QuietInv, TypedInv, NamesInv, SoundInv, KnownInv, BytesInv, NEW t \in Threads,
           FsStep(t) \/ RemoveFile(t) \/ RequestFails(t)
    PROVE  SoundInv' /\ KnownInv' /\ BytesInv'
<1> DEFINE i == files[call[t].handle].fileid
           p == files[call[t].handle].seek
<1>0. /\ Shapes /\ AtWrite(t) /\ fsLock \in Threads \cup {NoThread}
      /\ \A x : Return(t, x) => OneMoves(t) /\ at'[t] # "write_zeros"
  <2>1. Shapes /\ AtWrite(t) /\ fsLock \in Threads \cup {NoThread}
    BY DEF QuietInv, TypedInv, BufferTyped
  <2>2. ASSUME NEW x, Return(t, x) PROVE OneMoves(t) /\ at'[t] # "write_zeros"
    BY <2>1, <2>2, Returned DEF Left
  <2>3. QED BY <2>1, <2>2
<1>1. UNCHANGED files
  BY DEF FsStep, RemoveFile, RequestFails, vfsVars
<1> DEFINE Still == /\ Intact' => Untouched
                    /\ OneMoves(t) /\ at[t] # "write_zeros" /\ at'[t] # "write_zeros"
                    /\ fsLock \in {t, NoThread} /\ struck \subseteq struck'
<1>11. Still => BytesInv'
  BY BytesQuiet
<1>12. fsLock = NoThread => at[t] \notin WritePlaces /\ at[t] # "write_zeros"
  BY <1>0, TfsAssumption DEF AtWrite, WritePlaces
<1> HIDE DEF Still
<1>2. ASSUME NEW x, Return(t, x), UNCHANGED <<disk, struck>>, fsLock = NoThread
      PROVE  SoundInv' /\ KnownInv' /\ BytesInv'
  <2>1. SoundInv' /\ KnownInv' /\ (Intact' => Untouched)
    BY <1>2, SoundReturn
  <2>2. Still
    BY <1>0, <1>2, <1>12, <2>1 DEF Still
  <2>3. QED BY <1>11, <2>1, <2>2
<1>3. CASE TfsOpen(t)
  <2>1. /\ fsLock = NoThread /\ UNCHANGED <<disk, struck>>
        /\ \/ Return(t, -1)
           \/ MoveTo(t, "tfs_opened") /\ UNCHANGED fsLock
    BY <1>3 DEF TfsOpen, Enters
  <2>2. CASE MoveTo(t, "tfs_opened") /\ UNCHANGED fsLock
    <3>1. OneMoves(t) /\ at'[t] \notin WritePlaces
      BY <1>0, <2>2, Moved DEF WritePlaces
    <3>2. SoundInv' /\ KnownInv' /\ (Intact' => Untouched)
      BY <2>1, <2>2, <3>1, SoundLeave
    <3>3. Still
      BY <1>12, <2>1, <3>1, <3>2 DEF Still, WritePlaces
    <3>4. QED BY <1>11, <3>2, <3>3
  <2>3. QED BY <1>2, <2>1, <2>2
<1>4. CASE TfsCreateRefused(t) \/ TfsGetFree(t)
  BY <1>2, <1>4 DEF TfsCreateRefused, TfsGetFree, Enters
<1>5. CASE TfsCreate(t)
  <2>1. /\ fsLock = NoThread /\ at[t] = "tfs" /\ call[t].op = "create"
        /\ UNCHANGED <<disk, struck>>
    BY <1>5 DEF TfsCreate, Enters
  <2>2. CASE \E x : Return(t, x)
    BY <1>2, <2>1, <2>2
  <2>3. CASE ~\E x : Return(t, x)
    <3>0. PICK s \in Slots : \E q : Taken(t, s, q)
      BY <1>5, <2>1, <2>3, CreateEffect
    <3>1. PICK q : Taken(t, s, q)
      BY <3>0
    <3>2. SoundInv' /\ KnownInv' /\ Untouched
      BY <1>5, <2>1, <3>1, CreateEffect, SoundTaken
    <3>3. OneMoves(t) /\ at'[t] = "write_bat"
      BY <1>0, <3>1, Moved DEF Taken
    <3>4. Still
      BY <1>12, <2>1, <3>2, <3>3 DEF Still
    <3>5. QED BY <1>11, <3>2, <3>4
  <2>4. QED BY <2>2, <2>3
<1>6. CASE TfsRemove(t)
  <2>1. /\ fsLock = NoThread /\ at[t] = "tfs" /\ call[t].op = "remove"
        /\ UNCHANGED <<disk, struck>>
    BY <1>6 DEF TfsRemove, Enters
  <2>2. CASE \E x : Return(t, x)
    BY <1>2, <2>1, <2>2
  <2>3. CASE ~\E x : Return(t, x)
    <3>1. PICK s \in Slots : Dropped(t, s)
      BY <1>6, <2>1, <2>3, RemoveEffect
    <3>2. SoundInv' /\ KnownInv' /\ Untouched
      BY <2>1, <3>1, SoundDropped
    <3>3. OneMoves(t) /\ at'[t] = "write_bat"
      BY <1>0, <3>1, Moved DEF Dropped
    <3>4. Still
      BY <1>12, <2>1, <3>2, <3>3 DEF Still
    <3>5. QED BY <1>11, <3>2, <3>4
  <2>4. QED BY <2>2, <2>3
<1>7. CASE TfsRead(t, i, p)
  <2>1. fsLock = NoThread /\ UNCHANGED <<disk, struck>> /\ \E x : Return(t, x)
    BY <1>7 DEF TfsRead, Enters
  <2>2. QED BY <1>2, <2>1
<1>8. CASE TfsWrite(t, i, p)
  <2>1. /\ Return(t, -1) \/ Return(t, 0) \/ Writing(t, i, p)
        /\ at[t] = "tfs" /\ call[t].op = "write" /\ fsLock = NoThread
        /\ UNCHANGED <<disk, struck>>
    BY <1>0, <1>8, WriteEffect
  <2>2. CASE Writing(t, i, p)
    <3>1. SoundInv' /\ KnownInv' /\ Untouched
      BY <1>1, <2>1, <2>2, SoundWriting
    <3>2. Still
      BY <1>12, <2>1, <2>2, <3>1 DEF Still, Writing
    <3>3. QED BY <1>11, <3>1, <3>2
  <2>3. QED BY <1>2, <2>1, <2>2
<1>9. CASE DiskError(t)
  <2>1. /\ Return(t, -1) /\ struck' = struck \cup {NextWrite(t)} /\ UNCHANGED disk
        /\ at[t] \in WritePlaces \/ fsLock = NoThread
    BY <1>9 DEF DiskError
  <2>2. fsLock = NoThread \/ (fsLock = t /\ NextWrite(t) \in struck')
    BY <1>0, <2>1 DEF AtWrite
  <2>3. SoundInv' /\ KnownInv' /\ (Intact' => Untouched)
    BY <2>1, <2>2, SoundReturn
  <2>4. at[t] = "write_zeros" => ~Clean'
    <3>1. at[t] = "write_zeros" => NextWrite(t) = <<"create", "write_zeros">>
      BY <1>0 DEF AtWrite, NextWrite
    <3>2. QED BY <2>1, <3>1 DEF Clean
  <2>5. QED BY <1>0, <2>1, <2>2, <2>3, <2>4, BytesQuiet
<1>10. CASE WriteBat(t) \/ WriteDir(t)
  <2>1. SoundInv' /\ KnownInv' /\ Untouched
    BY <1>10, SoundWriteBat, SoundWriteDir
  <2>2. /\ at[t] \in {"write_bat", "write_dir"} /\ UNCHANGED struck
        /\ (\E x : Return(t, x)) \/ MoveTo(t, "write_dir") \/ MoveTo(t, "write_inode")
    BY <1>10 DEF WriteBat, WriteDir
  <2>3. OneMoves(t) /\ at'[t] # "write_zeros"
    BY <1>0, <2>2, Moved
  <2>4. Still
    BY <1>0, <2>1, <2>2, <2>3 DEF Still, AtWrite, WritePlaces
  <2>5. QED BY <1>11, <2>1, <2>4
<1>13. CASE WriteInode(t)
  <2>1. SoundInv' /\ KnownInv' /\ (Intact => \E s \in Slots : Completes(t, s))
    BY <1>13, SoundWriteInode
  <2>2. PICK s \in Slots : Intact => Completes(t, s)
    BY <2>1, SlotNumbers, TfsAssumption
  <2>3. QED BY <1>13, <2>1, <2>2, BytesWriteInode
<1>14. CASE WriteZeros(t)
  BY <1>14, SoundWriteZeros, BytesWriteZeros
<1>15. CASE WriteData(t, p)
  BY <1>1, <1>15, SoundWriteData, BytesWriteData
<1>16. QED
  BY <1>3, <1>4, <1>5, <1>6, <1>7, <1>8, <1>9, <1>10, <1>13, <1>14, <1>15
     DEF FsStep, RemoveFile, RequestFails

LEMMA SoundStep ==
    ASSUME QuietInv, TypedInv, NamesInv, SoundInv, KnownInv, BytesInv, [Next]_vars
    PROVE  SoundInv' /\ KnownInv' /\ BytesInv'
<1>1. ASSUME UNCHANGED <<tfsVars, files>> PROVE SoundInv' /\ KnownInv' /\ BytesInv'
  <2>1. UNCHANGED <<bat, dir, block, fsLock, dirbuf, buf, at, call, struck, files>>
    BY <1>1 DEF tfsVars, disk
  <2>2. Files' = Files /\ \A s \in Slots : OwnBlocks(s)' = OwnBlocks(s)
    BY <2>1 DEF Files, HalfWritten, OwnBlocks
  <2>3. \A b \in DataBlocks : Reserved(b)' <=> Reserved(b)
    BY <2>1 DEF Reserved
  <2>4. KnownInv'
    BY <2>1, <2>2, <2>3, KnownKept DEF disk
  <2>5. FilesSound => FilesSound'
    BY <2>1, <2>2, SoundKept DEF disk
  <2>6. ASSUME NEW u \in Threads, WritesSound(u) PROVE WritesSound(u)'
    <3>1. \A s \in Slots : NewFile(u, s)' <=> NewFile(u, s)
      BY <2>1, <2>2 DEF NewFile, OwnOf, FileSound, IsInode, OwnBlocks
    <3>2. CreateSound(u)'
      BY <2>1, <2>6, <3>1 DEF WritesSound, CreateSound
    <3>3. RemoveSound(u)' /\ WriteSound(u)'
      BY <2>1, <2>2, <2>6 DEF WritesSound, RemoveSound, WriteSound, IsInode
    <3>4. QED BY <3>2, <3>3 DEF WritesSound
  <2>7. Untouched /\ \A u \in Threads : Zeroed(u) => Zeroed(u)'
    BY <2>1, <2>2 DEF Untouched, Zeroed
  <2>8. BytesInv'
    <3>1. Clean' => \A u \in Threads : Zeroed(u)'
      BY <2>1, <2>7 DEF BytesInv, Clean, Intact
    <3>2. QED BY <2>1, <2>7, <3>1, BytesUntouched
  <2>9. QED BY <2>1, <2>4, <2>5, <2>6, <2>8 DEF SoundInv, Intact
<1>2. ASSUME NEW t \in Threads, Step(t) PROVE SoundInv' /\ KnownInv' /\ BytesInv'
  <2>1. CASE StartRefused(t)
    BY <1>1, <2>1 DEF StartRefused, vfsVars
  <2>2. CASE FsStep(t) \/ RemoveFile(t) \/ RequestFails(t)
    BY <2>2, SoundFsStep
  <2>3. CASE ~(StartRefused(t) \/ FsStep(t) \/ RemoveFile(t) \/ RequestFails(t))
    <3>1. /\ OutsideMove(t)
          /\ \A u \in Threads \ {t} : at[u] = "write_data" =>
                 files'[call[u].handle] = files[call[u].handle]
      BY <1>2, <2>3, OutsideSteps DEF Step, CallStep
    <3>2. SoundInv' /\ KnownInv' /\ Untouched
      BY <3>1, SoundOutside
    <3>3. /\ UNCHANGED <<block, buf, struck>> /\ at[t] # "write_zeros" /\ at'[t] # "write_zeros"
          /\ \A u \in Threads \ {t} : at'[u] = at[u] /\ call'[u] = call[u]
      BY <3>1 DEF OutsideMove, KeepTfs, OneMoves, WritePlaces, disk
    <3>4. \A u \in Threads : Zeroed(u) => Zeroed(u)'
      BY <3>3 DEF Zeroed
    <3>5. Clean' => \A u \in Threads : Zeroed(u)'
      BY <3>3, <3>4 DEF BytesInv, Clean, Intact
    <3>6. \A u \in Threads : at[u] = "write_zeros" =>
              at'[u] = at[u] /\ call'[u].name = call[u].name
      BY <3>3
    <3>7. QED BY <3>2, <3>3, <3>5, <3>6, BytesUntouched
  <2>4. QED BY <2>1, <2>2, <2>3
<1>3. CASE DeinitStep
  <2>1. UNCHANGED <<tfsVars, files>>
    BY <1>3 DEF DeinitStep, Deinit, DeinitWoken, DeinitAgain, DeinitTables
  <2>2. QED BY <1>1, <2>1
<1>4. CASE UNCHANGED vars
  BY <1>1, <1>4 DEF vars, vfsVars
<1>5. CASE PowerFailure
  <2>1. SoundInv' /\ KnownInv' /\ (Intact' => Untouched)
    BY <1>5, SoundReboot
  <2>2. /\ at' = [t \in Threads |-> "idle"]
        /\ struck' = IF fsLock = NoThread THEN struck ELSE struck \cup {NextWrite(fsLock)}
    BY <1>5 DEF PowerFailure, Booted
  <2>3. ASSUME NEW u \in Threads, at[u] = "write_zeros" PROVE ~Clean'
    <3>1. fsLock = u /\ call[u].op = "create"
      BY <2>3 DEF TypedInv, BufferTyped, AtWrite, WritePlaces
    <3>2. NextWrite(u) \in struck' /\ NextWrite(u) = <<"create", "write_zeros">>
      BY <2>2, <2>3, <3>1, TfsAssumption DEF NextWrite
    <3>3. QED BY <3>2 DEF Clean
  <2>4. \A u \in Threads : Zeroed(u)'
    BY <2>2 DEF Zeroed
  <2>5. QED BY <2>1, <2>2, <2>3, <2>4, BytesUntouched
<1>6. QED
  BY <1>2, <1>3, <1>4, <1>5 DEF Next

\* All that holds of the volume, together.
VolumeInv == QuietInv /\ TypedInv /\ NamesInv /\ SoundInv /\ KnownInv /\ BytesInv

LEMMA VolumeAlways == Spec => []VolumeInv
<1>1. Init => VolumeInv
  BY QuietBoot, TypedInit, NamesInit, SoundInit DEF Init, VolumeInv
<1>2. VolumeInv /\ [Next]_vars => VolumeInv'
  BY QuietStep, TypedStep, NamesStep, SoundStep DEF VolumeInv
<1>3. QED
  BY <1>1, <1>2, PTL DEF Spec

\* At every moment, and so after a stop at any moment, every file has an inode, has all
\* its blocks marked as allocated and shares none, unless a fault has struck tfs_create
\* between the directory and the inode or tfs_remove between bitmap and directory.
THEOREM DiskSoundUnlessTornAlways == Spec => []DiskSoundUnlessTorn
<1>1. TypedInv /\ NamesInv /\ SoundInv => DiskSoundUnlessTorn
  <2> SUFFICES ASSUME TypedInv, NamesInv, SoundInv, Intact, NEW s \in Files
               PROVE  /\ dir[s].inode \in Blocks \ SystemBlocks
                      /\ IsInode(dir[s].inode)
                      /\ OwnBlocks(s) \subseteq bat \ SystemBlocks
                      /\ Cardinality(OwnBlocks(s)) = BlocksFor(block[dir[s].inode].size) + 1
                      /\ \A r \in Files \ {s} : /\ dir[r].name # dir[s].name
                                                /\ OwnBlocks(r) \cap OwnBlocks(s) = {}
    BY DEF DiskSoundUnlessTorn
  <2> DEFINE q == block[dir[s].inode].blocks
  <2>1. /\ FilesSound /\ SlotSound(s) /\ FileSound(dir[s].inode, block[dir[s].inode])
        /\ IsInode(dir[s].inode) /\ OwnBlocks(s) \subseteq bat
    BY DEF SoundInv, FilesSound, SlotSound
  <2>2. /\ dir[s].inode \in DataBlocks \ ToSet(q) /\ Distinct(q, DataBlocks)
        /\ Len(q) = BlocksFor(block[dir[s].inode].size)
        /\ OwnBlocks(s) = {dir[s].inode} \cup ToSet(q)
    BY <2>1 DEF FileSound, OwnBlocks
  <2> HIDE DEF q
  <2>3. ToSet(q) \subseteq DataBlocks
    BY <2>2 DEF Distinct, ToSet
  <2>4. Cardinality(OwnBlocks(s)) = Len(q) + 1
    <3>1. IsFiniteSet(ToSet(q)) /\ Cardinality(ToSet(q)) = Len(q)
      BY <2>2, DistinctSize
    <3>2. Cardinality(ToSet(q) \cup {dir[s].inode}) = Cardinality(ToSet(q)) + 1
      BY <2>2, <3>1, FS_AddElement
    <3>3. OwnBlocks(s) = ToSet(q) \cup {dir[s].inode}
      BY <2>2
    <3>4. QED BY <3>1, <3>2, <3>3
  <2>5. OwnBlocks(s) \subseteq bat \ SystemBlocks
    BY <2>1, <2>2, <2>3 DEF DataBlocks
  <2>6. ASSUME NEW r \in Files \ {s}
        PROVE  dir[r].name # dir[s].name /\ OwnBlocks(r) \cap OwnBlocks(s) = {}
    <3>1. r \in Slots /\ s \in Slots /\ dir[s].inode # 0
      BY DEF Files
    <3>2. dir[s].name # NoName
      BY <3>1, NamedEntry DEF TypedInv
    <3>3. QED BY <2>1, <3>1, <3>2 DEF NamesInv, NamesUnique, FilesSound
  <2>7. QED BY <2>1, <2>2, <2>4, <2>5, <2>6 DEF DataBlocks
<1>2. VolumeInv => TypedInv /\ NamesInv /\ SoundInv /\ KnownInv
  BY DEF VolumeInv
<1>3. QED
  BY <1>1, <1>2, VolumeAlways, PTL

\* Between operations the allocated blocks are those of the files and the system's,
\* unless a fault has torn the disk or struck tfs_create between bitmap and directory.
THEOREM NothingLeaksAlways == Spec => []NothingLeaks
<1>1. TypedInv /\ SoundInv /\ KnownInv => NothingLeaks
  <2> SUFFICES ASSUME TypedInv, SoundInv, KnownInv, fsLock = NoThread,
                      struck \cap (Tearing \cup Leaking) = {}
               PROVE  bat = SystemBlocks \cup UNION {OwnBlocks(s) : s \in Files}
    BY DEF NothingLeaks
  <2>1. Accounted /\ FilesSound
    BY DEF KnownInv, SoundInv, Intact
  <2>2. \A t \in Threads : at[t] \notin WritePlaces
    BY TfsAssumption DEF TypedInv, BufferTyped, AtWrite
  <2>3. \A b \in DataBlocks : b \in bat <=> \E s \in Files : b \in OwnBlocks(s)
    BY <2>1, <2>2 DEF Accounted, Reserved, WritePlaces
  <2>4. SystemBlocks \subseteq bat /\ bat \subseteq SystemBlocks \cup DataBlocks
    BY DEF TypedInv, DiskTyped, DataBlocks
  <2>5. \A s \in Files : OwnBlocks(s) \subseteq DataBlocks
    BY <2>1 DEF FilesSound, SlotSound, FileSound, OwnBlocks, Distinct, ToSet
  <2>6. \A b : b \in UNION {OwnBlocks(s) : s \in Files} <=> \E s \in Files : b \in OwnBlocks(s)
    OBVIOUS
  <2>7. \A b : b \in bat <=> b \in SystemBlocks \/ \E s \in Files : b \in OwnBlocks(s)
    BY <2>3, <2>4, <2>5
  <2>8. QED BY <2>6, <2>7
<1>2. VolumeInv => TypedInv /\ NamesInv /\ SoundInv /\ KnownInv
  BY DEF VolumeInv
<1>3. QED
  BY <1>1, <1>2, VolumeAlways, PTL

\* A file shows zeros and what was written through a handle of it, and zeros behind its
\* end, unless a fault has torn the disk or cut the zeroing of a new file short.
THEOREM FilesKeepToThemselvesAlways == Spec => []FilesKeepToThemselves
<1>1. BytesInv => FilesKeepToThemselves
  BY DEF BytesInv, Clean, FilesFilled, Filling, Filled, FilesKeepToThemselves
<1>2. VolumeInv => BytesInv
  BY DEF VolumeInv
<1>3. QED
  BY <1>1, <1>2, VolumeAlways, PTL

-----------------------------------------------------------------------------
(* The refinement of AbstractVolume.  A step of thread t changes at most the request of
   t; what it does to the listing follows from what it does to the files. *)

\* The inode that tfs_create is about to write has the size that it was asked for.
SizeKept ==
    \A t \in Threads :
        call[t].op = "create" /\ at[t] \in {"write_bat", "write_dir", "write_inode"} =>
            buf.inode.size = call[t].arg

SameRequest(t) ==
    at'[t] = at[t] /\ call'[t].op = call[t].op /\ call'[t].name = call[t].name
    /\ call'[t].arg = call[t].arg

SameFiles ==
    /\ Files' = Files
    /\ \A s \in Files : /\ dir'[s].name = dir[s].name
                        /\ block'[dir'[s].inode].size = block[dir[s].inode].size

Requested == [t \in Threads |-> Request(t)]

LEMMA SameListing ==
    ASSUME SameFiles, Intact' <=> Intact
    PROVE  Listing' = Listing
BY DEF SameFiles, Listing

LEMMA RequestKept ==
    ASSUME NEW t \in Threads, SameRequest(t), Intact' <=> Intact
    PROVE  Request(t)' = Request(t)
<1>1. Stage(t)' = Stage(t)
  BY DEF SameRequest, Stage, InCall
<1>2. QED
  BY <1>1 DEF SameRequest, Request, InCall

LEMMA OneRequest ==
    ASSUME NEW t \in Threads, OneMoves(t), \A u \in Threads \ {t} : call'[u] = call[u],
           Intact' <=> Intact, NEW r, Request(t)' = r
    PROVE  Volume!Becomes(t, r)
<1>1. ASSUME NEW u \in Threads, u # t PROVE Request(u)' = Request(u)
  BY <1>1, RequestKept DEF SameRequest, OneMoves
<1>2. Requested' = [Requested EXCEPT ![t] = r]
  BY <1>1 DEF Requested
<1>3. QED
  BY <1>2 DEF Volume!Becomes, Requested

LEMMA NoRequestMoves ==
    ASSUME NEW t \in Threads, OneMoves(t), \A u \in Threads \ {t} : call'[u] = call[u],
           Intact' <=> Intact, Request(t)' = Request(t)
    PROVE  Requested' = Requested
<1>1. ASSUME NEW u \in Threads, u # t PROVE Request(u)' = Request(u)
  BY <1>1, RequestKept DEF SameRequest, OneMoves
<1>2. QED
  BY <1>1 DEF Requested

\* Nothing that a program may know of has changed.
LEMMA VolumeStutters ==
    ASSUME Listing' = Listing, Requested' = Requested, Intact' <=> Intact
    PROVE  UNCHANGED Volume!vars
BY DEF Volume!vars, Requested

OthersKeep(t) == OneMoves(t) /\ \A u \in Threads \ {t} : call'[u] = call[u]

LEMMA ThreadStutters ==
    ASSUME NEW t \in Threads, OthersKeep(t), Intact' <=> Intact, Request(t)' = Request(t),
           Listing' = Listing
    PROVE  UNCHANGED Volume!vars
BY NoRequestMoves, VolumeStutters DEF OthersKeep

\* A call that changes files, and its answer.
Asks(t) == call[t].op \in {"create", "remove"}

LEMMA RequestIs ==
    ASSUME NEW t \in Threads, Intact, Asks(t), at[t] \notin {"idle", "end"}
    PROVE  /\ Request(t) = [op |-> call[t].op, name |-> call[t].name, arg |-> call[t].arg,
                            stage |-> Stage(t)]
           /\ Stage(t) = "answered" <=> at[t] = "unlock"
           /\ Stage(t) = "done" <=> \/ call[t].op = "create" /\ at[t] = "write_zeros"
                                    \/ call[t].op = "remove" /\ at[t] = "write_dir"
           /\ Stage(t) \in {"asked", "done", "answered"}
BY DEF Request, Asks, InCall, Stage

LEMMA RequestThen ==
    ASSUME NEW t \in Threads, Intact', Asks(t)', at'[t] \notin {"idle", "end"}
    PROVE  /\ Request(t)' = [op |-> call'[t].op, name |-> call'[t].name, arg |-> call'[t].arg,
                             stage |-> Stage(t)']
           /\ Stage(t)' = "answered" <=> at'[t] = "unlock"
           /\ Stage(t)' = "done" <=> \/ call'[t].op = "create" /\ at'[t] = "write_zeros"
                                     \/ call'[t].op = "remove" /\ at'[t] = "write_dir"
           /\ Stage(t)' \in {"asked", "done", "answered"}
BY DEF Request, Asks, InCall, Stage

LEMMA NothingAsked ==
    ASSUME NEW t \in Threads
    PROVE  /\ ~Asks(t) \/ at[t] \in {"idle", "end"} \/ ~Intact => Request(t) = Volume!Nothing
           /\ ~Asks(t)' \/ at'[t] \in {"idle", "end"} \/ ~Intact' =>
                  Request(t)' = Volume!Nothing
BY DEF Request, Asks, InCall, Volume!Nothing

\* The operation returns to vfs_create or vfs_remove, with result x.
LEMMA Answers ==
    ASSUME QuietInv, NEW t \in Threads, NEW x, Return(t, x), Intact, Intact', Asks(t),
           at[t] \in TfsPlaces, Listing' = Listing,
           \/ Stage(t) = "asked" /\ x = -1
           \/ Stage(t) = "done" /\ (x = 0 \/ (call[t].op = "create" /\ x = -1))
    PROVE  Volume!Next
<1>1. /\ CallSet(t, x, call[t].k) /\ OneMoves(t) /\ Left(t)
  BY Returned DEF QuietInv
<1>2. at'[t] = "unlock" /\ Asks(t)' /\ OthersKeep(t)
  BY <1>1 DEF Left, CallSet, Asks, OthersKeep
<1>3. at[t] \notin {"idle", "end"}
  BY DEF TfsPlaces, WritePlaces
<1> DEFINE r == Request(t)
<1>4. /\ r = [op |-> call[t].op, name |-> call[t].name, arg |-> call[t].arg, stage |-> Stage(t)]
      /\ Request(t)' = [op |-> call[t].op, name |-> call[t].name, arg |-> x,
                        stage |-> "answered"]
  BY <1>1, <1>2, <1>3, RequestIs, RequestThen DEF CallSet
<1>5. Request(t)' = Volume!Answered(r, x)
  <2>1. r.op = call[t].op /\ r.name = call[t].name
    BY <1>4
  <2>2. QED BY <1>4, <2>1 DEF Volume!Answered
<1>6. Volume!Becomes(t, Volume!Answered(r, x))
  BY <1>2, <1>5, OneRequest DEF OthersKeep
<1>7. Volume!Answer(t)
  <2>1. Requested[t] = r
    BY DEF Requested
  <2>2. r.stage = Stage(t) /\ r.op = call[t].op
    BY <1>4
  <2> HIDE DEF r
  <2>3. QED BY <1>6, <2>1, <2>2 DEF Volume!Answer, Volume!At, Requested
<1>8. QED
  BY <1>7 DEF Volume!Next

\* An operation that goes on inside the filesystem, and its call changes no file or is
\* where it was before.
LEMMA GoesOn ==
    ASSUME QuietInv, NEW t \in Threads, OneMoves(t), NEW a, NEW k, CallSet(t, a, k),
           Intact, Intact', Listing' = Listing, at[t] \in TfsPlaces, at'[t] # "idle",
           Asks(t) => a = call[t].arg /\ at'[t] \in TfsPlaces /\ Stage(t)' = Stage(t)
    PROVE  UNCHANGED Volume!vars
<1>1. /\ OthersKeep(t) /\ (Asks(t)' <=> Asks(t))
      /\ call'[t].op = call[t].op /\ call'[t].name = call[t].name /\ call'[t].arg = a
  BY DEF CallSet, OthersKeep, Asks
<1>2. Request(t)' = Request(t)
  <2>1. CASE ~Asks(t)
    BY <1>1, <2>1, NothingAsked
  <2>2. CASE Asks(t)
    <3>1. at[t] \notin {"idle", "end"} /\ at'[t] \notin {"idle", "end"}
      BY <2>2 DEF TfsPlaces, WritePlaces
    <3>2. QED BY <1>1, <2>2, <3>1, RequestIs, RequestThen
  <2>3. QED BY <2>1, <2>2
<1>3. QED
  BY <1>1, <1>2, ThreadStutters

\* An operation that is none of the two returns.
LEMMA OtherReturns ==
    ASSUME QuietInv, NEW t \in Threads, NEW x, Return(t, x), Intact, Intact', ~Asks(t),
           Listing' = Listing
    PROVE  UNCHANGED Volume!vars
<1>1. CallSet(t, x, call[t].k) /\ OneMoves(t)
  BY Returned DEF QuietInv
<1>2. OthersKeep(t) /\ ~Asks(t)'
  BY <1>1 DEF CallSet, OthersKeep, Asks
<1>3. Request(t)' = Request(t)
  BY <1>2, NothingAsked
<1>4. QED
  BY <1>2, <1>3, ThreadStutters

\* Without a write nothing changes the files but the moment at which an operation that
\* has torn them gives up.
LEMMA FilesStay ==
    ASSUME TypedInv, NEW t \in Threads, UNCHANGED disk,
           fsLock = NoThread \/ (fsLock = t /\ ~TornBy(t)),
           fsLock' = NoThread \/ (fsLock' = t /\ ~TornBy(t)')
    PROVE  SameFiles
<1>1. Files = Whole
  BY FilesOf, TfsAssumption
<1>2. Files' = Whole'
  BY FilesThen, TfsAssumption
<1>3. QED
  BY <1>1, <1>2 DEF SameFiles, disk, Whole

\* The operations up to their first write.
LEMMA VolumeEntered ==
    ASSUME QuietInv, TypedInv, NEW t \in Threads, Intact,
           \/ TfsOpen(t) \/ TfsCreateRefused(t) \/ TfsCreate(t) \/ TfsRemove(t)
           \/ \E i, n : TfsRead(t, i, n) \/ TfsWrite(t, i, n)
           \/ TfsGetFree(t)
    PROVE  [Volume!Next]_(Volume!vars)
<1>1. Shapes /\ at[t] = "tfs" /\ fsLock = NoThread /\ UNCHANGED <<disk, struck>>
  BY DEF QuietInv, TfsOpen, TfsCreateRefused, TfsCreate, TfsRemove, TfsRead, TfsWrite,
         TfsGetFree, Enters
<1>2. Intact' /\ at[t] \in TfsPlaces /\ (Asks(t) => Stage(t) = "asked")
  BY <1>1 DEF Intact, TfsPlaces, Asks, Stage, InCall
<1>3. ASSUME fsLock' = NoThread \/ (fsLock' = t /\ ~TornBy(t)') PROVE Listing' = Listing
  BY <1>1, <1>2, <1>3, FilesStay, SameListing
<1>4. ASSUME NEW x, Return(t, x), Asks(t) => x = -1 PROVE [Volume!Next]_(Volume!vars)
  <2>1. Listing' = Listing
    BY <1>3, <1>4 DEF Return
  <2>2. CASE Asks(t)
    BY <1>2, <1>4, <2>1, <2>2, Answers
  <2>3. CASE ~Asks(t)
    BY <1>2, <1>4, <2>1, <2>3, OtherReturns
  <2>4. QED BY <2>2, <2>3
<1>5. ASSUME NEW a, NEW k, CallSet(t, a, k), OneMoves(t),
             \/ at'[t] = "tfs_opened" /\ fsLock' = NoThread /\ ~Asks(t)
             \/ at'[t] = "write_bat" /\ fsLock' = t /\ a = call[t].arg
             \/ at'[t] = "write_data" /\ fsLock' = t /\ ~Asks(t)
      PROVE  UNCHANGED Volume!vars
  <2>1. Listing' = Listing
    BY <1>3, <1>5 DEF TornBy
  <2>2. at'[t] \in TfsPlaces
    BY <1>5 DEF TfsPlaces, WritePlaces
  <2>3. Asks(t) => Stage(t)' = Stage(t)
    BY <1>1, <1>2, <1>5 DEF Stage, InCall
  <2>4. at'[t] # "idle" /\ (Asks(t) => a = call[t].arg)
    BY <1>5
  <2>5. QED BY <1>2, <1>5, <2>1, <2>2, <2>3, <2>4, GoesOn
<1>6. CASE TfsOpen(t)
  <2>1. ~Asks(t)
    BY <1>6 DEF TfsOpen, Enters, Asks
  <2>2. CASE Return(t, -1)
    BY <1>4, <2>2
  <2>3. CASE ~Return(t, -1)
    <3>1. PICK k : call' = [call EXCEPT ![t].k = k] /\ MoveTo(t, "tfs_opened") /\ UNCHANGED fsLock
      BY <1>6, <2>3 DEF TfsOpen
    <3>2. CallSet(t, call[t].arg, k) /\ OneMoves(t) /\ at'[t] = "tfs_opened"
      BY <1>1, <3>1, CallAssigned, Moved
    <3>3. QED BY <1>1, <1>5, <2>1, <3>1, <3>2
  <2>4. QED BY <2>2, <2>3
<1>7. CASE TfsCreateRefused(t)
  BY <1>4, <1>7 DEF TfsCreateRefused
<1>8. CASE TfsCreate(t)
  <2>1. CASE Return(t, -1)
    BY <1>4, <2>1
  <2>2. CASE ~Return(t, -1)
    <3>1. MoveTo(t, "write_bat") /\ fsLock' = t /\ UNCHANGED call
      BY <1>8, <2>2 DEF TfsCreate
    <3>2. CallSet(t, call[t].arg, call[t].k) /\ OneMoves(t) /\ at'[t] = "write_bat"
      BY <1>1, <3>1, CallAssigned, Moved
    <3>3. QED BY <1>5, <3>1, <3>2
  <2>3. QED BY <2>1, <2>2
<1>9. CASE TfsRemove(t)
  <2>1. CASE Return(t, -1)
    BY <1>4, <2>1
  <2>2. CASE ~Return(t, -1)
    <3>1. MoveTo(t, "write_bat") /\ fsLock' = t /\ UNCHANGED call
      BY <1>9, <2>2 DEF TfsRemove
    <3>2. CallSet(t, call[t].arg, call[t].k) /\ OneMoves(t) /\ at'[t] = "write_bat"
      BY <1>1, <3>1, CallAssigned, Moved
    <3>3. QED BY <1>5, <3>1, <3>2
  <2>3. QED BY <2>1, <2>2
<1>10. ASSUME NEW i, NEW n, TfsRead(t, i, n) PROVE [Volume!Next]_(Volume!vars)
  <2>1. ~Asks(t) /\ \E x : Return(t, x)
    BY <1>10 DEF TfsRead, Enters, Asks
  <2>2. QED BY <1>4, <2>1
<1>11. ASSUME NEW i, NEW n, TfsWrite(t, i, n) PROVE [Volume!Next]_(Volume!vars)
  <2>1. ~Asks(t) /\ (Return(t, -1) \/ Return(t, 0) \/ Writing(t, i, n))
    BY <1>1, <1>11, WriteEffect DEF Asks
  <2>2. CASE Writing(t, i, n)
    <3>1. PICK a, k : CallSet(t, a, k) /\ OneMoves(t) /\ at'[t] = "write_data" /\ fsLock' = t
      BY <2>2 DEF Writing
    <3>2. QED BY <1>5, <2>1, <3>1
  <2>3. QED BY <1>4, <2>1, <2>2
<1>12. CASE TfsGetFree(t)
  <2>1. ~Asks(t) /\ \E x : Return(t, x)
    BY <1>12 DEF TfsGetFree, Enters, Asks
  <2>2. QED BY <1>4, <2>1
<1>13. QED
  BY <1>6, <1>7, <1>8, <1>9, <1>10, <1>11, <1>12

\* The bitmap of tfs_remove makes the file disappear; that of tfs_create shows nothing.
LEMMA VolumeWriteBat ==
    ASSUME QuietInv, TypedInv, NamesInv, NEW t \in Threads, Intact, WriteBat(t)
    PROVE  [Volume!Next]_(Volume!vars)
<1>0. Shapes /\ DiskTyped /\ AtWrite(t) /\ CallTyped(t) /\ Changing(t)
  BY DEF QuietInv, TypedInv, BufferTyped, CallsTyped, NamesInv
<1>1. /\ at[t] = "write_bat" /\ at'[t] = "write_dir" /\ OneMoves(t)
      /\ UNCHANGED <<dir, block, fsLock, call, struck>>
  BY <1>0, Moved DEF WriteBat
<1>2. /\ fsLock = t /\ fsLock' = t /\ call[t].name \in Names /\ Asks(t) /\ Asks(t)'
      /\ Intact' /\ at[t] \in TfsPlaces /\ OthersKeep(t)
  BY <1>0, <1>1 DEF AtWrite, WritePlaces, CallTyped, Asks, Intact, TfsPlaces, OthersKeep
<1>3. Files = Whole
  BY <1>1, <1>2, FilesOf DEF TornBy
<1>4. PICK s \in Slots : Adds(t, s) \/ Drops(t, s)
  BY <1>0, <1>1 DEF Changing
<1>5. CASE Adds(t, s)
  <2>1. Files' = Whole' /\ Whole' = Whole
    BY <1>1, <1>2, <1>5, FilesThen DEF Adds, TornBy, Whole
  <2>2. Listing' = Listing
    BY <1>1, <1>2, <1>3, <2>1, SameListing DEF SameFiles
  <2>3. CallSet(t, call[t].arg, call[t].k)
    BY <1>0, <1>1, CallAssigned
  <2>4. Stage(t)' = Stage(t) /\ at'[t] \in TfsPlaces
    BY <1>1, <1>5 DEF Adds, Stage, InCall, TfsPlaces, WritePlaces
  <2>5. QED BY <1>1, <1>2, <2>2, <2>3, <2>4, GoesOn
<1>6. CASE Drops(t, s)
  <2>1. call[t].op = "remove" /\ dir[s].name = call[t].name /\ s \in Whole
    BY <1>0, <1>2, <1>6, NamedEntry, TfsAssumption DEF Drops, Whole
  <2>2. Files' = {r \in Files : dir[r].name # call[t].name}
    BY <1>1, <1>2, <1>3, <2>1, FilesThen DEF TornBy, Whole
  <2> DEFINE E(r) == [name |-> dir[r].name, size |-> block[dir[r].inode].size]
             n == call[t].name
  <2>3. Listing = {E(r) : r \in Files} /\ Listing' = {E(r) : r \in Files'}
    BY <1>1, <1>2 DEF Listing
  <2>4. Listing' = {e \in Listing : e.name # n} /\ \E e \in Listing : e.name = n
    <3>1. \A r : E(r).name = dir[r].name
      OBVIOUS
    <3>2. E(s) \in Listing /\ E(s).name = n
      BY <1>3, <2>1, <2>3
    <3> HIDE DEF E, n
    <3>3. n = call[t].name
      BY DEF n
    <3>4. QED BY <2>2, <2>3, <3>1, <3>2, <3>3
  <2>5. /\ Request(t) = [op |-> "remove", name |-> n, arg |-> call[t].arg, stage |-> "asked"]
        /\ Request(t)' = [op |-> "remove", name |-> n, arg |-> call[t].arg, stage |-> "done"]
    <3>1. Stage(t) = "asked" /\ Stage(t)' = "done"
      BY <1>1, <2>1 DEF Stage, InCall
    <3>2. QED BY <1>1, <1>2, <2>1, <3>1, RequestIs, RequestThen
  <2>6. Volume!Becomes(t, Volume!Done(Request(t)))
    <3>1. Request(t)' = Volume!Done(Request(t))
      BY <2>5 DEF Volume!Done
    <3>2. QED BY <1>2, <3>1, OneRequest DEF OthersKeep
  <2>7. Volume!Remove(t)
    <3>1. Requested[t] = Request(t)
      BY DEF Requested
    <3>2. Request(t).op = "remove" /\ Request(t).stage = "asked" /\ Request(t).name = n
      BY <2>5
    <3> HIDE DEF n
    <3>3. QED BY <2>4, <2>6, <3>1, <3>2 DEF Volume!Remove, Volume!At, Requested
  <2>8. QED BY <1>2, <2>7 DEF Volume!Next
<1>7. QED
  BY <1>4, <1>5, <1>6

\* The directory of tfs_remove drops what nobody finds any more; that of tfs_create adds
\* an entry that is no file yet.
LEMMA VolumeWriteDir ==
    ASSUME QuietInv, TypedInv, NamesInv, NEW t \in Threads, Intact, WriteDir(t)
    PROVE  [Volume!Next]_(Volume!vars)
<1>0. Shapes /\ DiskTyped /\ AtWrite(t) /\ CallTyped(t) /\ Changing(t)
  BY DEF QuietInv, TypedInv, BufferTyped, CallsTyped, NamesInv
<1>1. /\ at[t] = "write_dir" /\ dir' = dirbuf /\ UNCHANGED <<block, struck>>
      /\ IF call[t].op = "remove"
         THEN Return(t, 0)
         ELSE MoveTo(t, "write_inode") /\ UNCHANGED <<fsLock, buf, call>>
  BY DEF WriteDir
<1>2. fsLock = t /\ call[t].name \in Names /\ Asks(t) /\ Intact' /\ at[t] \in TfsPlaces
  BY <1>0, <1>1 DEF AtWrite, WritePlaces, CallTyped, Asks, Intact, TfsPlaces
<1>3. PICK s \in Slots : OnlyEntry(s) /\ (Adds(t, s) \/ Drops(t, s))
  BY <1>0, <1>1 DEF Changing
<1>4. \A r \in Slots \ {s} : dir'[r] = dir[r]
  BY <1>1, <1>3 DEF OnlyEntry
<1>5. CASE Adds(t, s)
  <2>1. /\ call[t].op = "create" /\ dir[s] = FreeEntry /\ EntriesOf(dir, call[t].name) = {}
        /\ dir'[s].name = call[t].name
    BY <1>1, <1>5 DEF Adds
  <2>2. /\ OneMoves(t) /\ at'[t] = "write_inode" /\ UNCHANGED <<fsLock, call>>
    BY <1>0, <1>1, <2>1, Moved
  <2>3. Files = Whole
    BY <1>1, <1>2, <2>1, FilesOf DEF TornBy
  <2>4. Files' = {r \in Whole' : dir'[r].name # call[t].name}
    BY <1>1, <1>2, <2>1, <2>2, FilesThen DEF TornBy
  <2>5. s \notin Whole /\ s \notin Files' /\ \A r \in Whole : dir[r].name # call[t].name
    BY <2>1, <2>4 DEF Whole, FreeEntry, EntriesOf
  <2>6. Files' = Files /\ \A r \in Files : dir'[r] = dir[r]
    BY <1>4, <2>3, <2>4, <2>5 DEF Whole
  <2>7. Listing' = Listing
    BY <1>1, <1>2, <2>6, SameListing DEF SameFiles
  <2>8. CallSet(t, call[t].arg, call[t].k)
    BY <1>0, <2>2, CallAssigned
  <2>9. Stage(t)' = Stage(t) /\ at'[t] \in TfsPlaces /\ at'[t] # "idle"
    BY <1>1, <2>1, <2>2 DEF Stage, InCall, TfsPlaces, WritePlaces
  <2>10. QED BY <1>2, <2>2, <2>7, <2>8, <2>9, GoesOn
<1>6. CASE Drops(t, s)
  <2>1. call[t].op = "remove" /\ dir[s].name = call[t].name /\ dir'[s] = FreeEntry
    BY <1>1, <1>6 DEF Drops
  <2>2. \A r \in Slots : dir[r].name = call[t].name <=> r = s
    BY <1>2, <2>1, TfsAssumption DEF NamesInv, NamesUnique
  <2>3. Files = {r \in Whole : dir[r].name # call[t].name}
    BY <1>1, <1>2, <2>1, FilesOf DEF TornBy
  <2>4. Return(t, 0) /\ fsLock' = NoThread
    BY <1>1, <2>1 DEF Return
  <2>5. Files' = Whole'
    BY <2>4, FilesThen, TfsAssumption
  <2>6. s \notin Files /\ s \notin Files'
    BY <2>1, <2>3, <2>5 DEF Whole, FreeEntry
  <2>7. Files' = Files /\ \A r \in Files : dir'[r] = dir[r]
    BY <1>4, <2>2, <2>3, <2>5, <2>6 DEF Whole
  <2>8. Listing' = Listing
    BY <1>1, <1>2, <2>7, SameListing DEF SameFiles
  <2>9. Stage(t) = "done"
    BY <1>1, <2>1 DEF Stage, InCall
  <2>10. QED BY <1>2, <2>4, <2>8, <2>9, Answers
<1>7. QED
  BY <1>3, <1>5, <1>6

\* The inode makes the new file appear, with the size that was asked for.
LEMMA VolumeWriteInode ==
    ASSUME QuietInv, TypedInv, NamesInv, SoundInv, KnownInv, SizeKept, NEW t \in Threads,
           Intact, WriteInode(t)
    PROVE  [Volume!Next]_(Volume!vars)
<1>0. Shapes /\ DiskTyped /\ AtWrite(t) /\ CallTyped(t)
  BY DEF QuietInv, TypedInv, BufferTyped, CallsTyped
<1>1. /\ at[t] = "write_inode" /\ UNCHANGED <<dir, struck>>
      /\ \/ Return(t, 0)
         \/ /\ call' = [call EXCEPT ![t].k = 1] /\ MoveTo(t, "write_zeros") /\ UNCHANGED fsLock
  BY DEF WriteInode
<1>2. /\ fsLock = t /\ call[t].name \in Names /\ call[t].op = "create" /\ Asks(t) /\ Intact'
      /\ at[t] \in TfsPlaces /\ at[t] \notin {"idle", "end"}
  BY <1>0, <1>1 DEF AtWrite, WritePlaces, CallTyped, Asks, Intact, TfsPlaces
<1>3. PICK s \in Slots : Completes(t, s)
  <2>1. \E s \in Slots : Completes(t, s)
    BY SoundWriteInode
  <2>2. QED BY <2>1
<1>4. /\ dir[s].name = call[t].name /\ block'[dir[s].inode] = buf.inode
      /\ \A r \in Files : \A b \in OwnBlocks(r) : block'[b] = block[b]
      /\ buf.inode.size = call[t].arg
  BY <1>1, <1>2, <1>3 DEF Completes, SizeKept
<1>5. Files = {r \in Whole : dir[r].name # call[t].name}
  BY <1>1, <1>2, FilesOf DEF TornBy
<1>6. /\ OneMoves(t) /\ OthersKeep(t) /\ fsLock' \in {t, NoThread}
      /\ call'[t].op = call[t].op /\ call'[t].name = call[t].name
      /\ \/ at'[t] = "unlock" /\ call'[t].arg = 0
         \/ at'[t] = "write_zeros" /\ call'[t].arg = call[t].arg
  <2>1. CASE Return(t, 0)
    <3>1. CallSet(t, 0, call[t].k) /\ OneMoves(t) /\ Left(t) /\ fsLock' = NoThread
      BY <1>0, <2>1, Returned
    <3>2. QED BY <1>2, <3>1 DEF Left, CallSet, OthersKeep
  <2>2. CASE ~Return(t, 0)
    <3>1. CallSet(t, call[t].arg, 1) /\ OneMoves(t) /\ at'[t] = "write_zeros" /\ UNCHANGED fsLock
      BY <1>0, <1>1, <2>2, Moved, CallAssigned
    <3>2. QED BY <1>2, <3>1 DEF CallSet, OthersKeep
  <2>3. QED BY <2>1, <2>2
<1>7. Files' = Whole
  BY <1>1, <1>6, FilesThen DEF Whole, TornBy
<1>8. s \in Whole /\ \A r \in Slots : dir[r].name = call[t].name <=> r = s
  <2>1. dir[s].name # NoName
    BY <1>2, <1>4, TfsAssumption
  <2>2. s \in Whole
    BY <1>0, <2>1, NamedEntry DEF Whole
  <2>3. QED BY <1>4, <2>1, <2>2 DEF NamesInv, NamesUnique
<1>9. Files' = Files \cup {s} /\ s \notin Files
  BY <1>5, <1>7, <1>8 DEF Whole
<1> DEFINE E(r) == [name |-> dir[r].name, size |-> block[dir[r].inode].size]
           F(r) == [name |-> dir[r].name, size |-> block'[dir[r].inode].size]
           n == call[t].name
           e == [name |-> n, size |-> call[t].arg]
<1>10. Listing = {E(r) : r \in Files} /\ Listing' = {F(r) : r \in Files'}
  BY <1>1, <1>2 DEF Listing
<1>11. F(s) = e /\ \A r \in Files : F(r) = E(r) /\ E(r).name # n
  <2>1. ASSUME NEW r \in Files PROVE F(r) = E(r) /\ E(r).name # n
    <3>1. dir[r].inode \in OwnBlocks(r) /\ dir[r].name # n
      BY <1>5 DEF OwnBlocks
    <3>2. block'[dir[r].inode] = block[dir[r].inode]
      BY <1>4, <3>1
    <3>3. QED BY <3>1, <3>2
  <2>2. QED BY <1>4, <2>1
<1>12. Listing' = Listing \cup {e} /\ \A d \in Listing : d.name # n
  <2> HIDE DEF E, F, e, n
  <2>1. QED BY <1>9, <1>10, <1>11
<1>13. /\ Request(t) = [op |-> "create", name |-> n, arg |-> call[t].arg, stage |-> "asked"]
       /\ \/ Request(t)' = [op |-> "create", name |-> n, arg |-> call[t].arg, stage |-> "done"]
          \/ Request(t)' = [op |-> "create", name |-> n, arg |-> 0, stage |-> "answered"]
  <2>1. Stage(t) = "asked"
    BY <1>1, <1>2 DEF Stage, InCall
  <2>2. Request(t) = [op |-> "create", name |-> n, arg |-> call[t].arg, stage |-> "asked"]
    BY <1>2, <2>1, RequestIs
  <2>3. Asks(t)' /\ at'[t] \notin {"idle", "end"}
    BY <1>2, <1>6 DEF Asks
  <2>4. Request(t)' = [op |-> "create", name |-> n, arg |-> call'[t].arg, stage |-> Stage(t)']
    BY <1>2, <1>6, <2>3, RequestThen
  <2>5. CASE at'[t] = "unlock" /\ call'[t].arg = 0
    <3>1. Stage(t)' = "answered"
      BY <2>5 DEF Stage
    <3>2. QED BY <2>2, <2>4, <2>5, <3>1
  <2>6. CASE at'[t] = "write_zeros" /\ call'[t].arg = call[t].arg
    <3>1. Stage(t)' = "done"
      BY <1>2, <1>6, <2>6 DEF Stage, InCall
    <3>2. QED BY <2>2, <2>4, <2>6, <3>1
  <2>7. QED BY <1>6, <2>5, <2>6
<1>14. \/ Volume!Becomes(t, Volume!Done(Request(t)))
       \/ Volume!Becomes(t, Volume!Answered(Request(t), 0))
  <2>1. \/ Request(t)' = Volume!Done(Request(t))
        \/ Request(t)' = Volume!Answered(Request(t), 0)
    BY <1>13 DEF Volume!Done, Volume!Answered
  <2>2. QED BY <1>2, <1>6, <2>1, OneRequest DEF OthersKeep
<1>15. Volume!Create(t)
  <2>1. Requested[t] = Request(t)
    BY DEF Requested
  <2>2. /\ Request(t).op = "create" /\ Request(t).stage = "asked"
        /\ Request(t).name = n /\ Request(t).arg = call[t].arg
    BY <1>13
  <2>3. Listing' = Listing \cup {[name |-> Request(t).name, size |-> Request(t).arg]}
    BY <1>12, <2>2
  <2> HIDE DEF n, e
  <2>4. QED BY <1>12, <1>14, <2>1, <2>2, <2>3 DEF Volume!Create, Volume!At, Requested
<1>16. QED
  BY <1>2, <1>15 DEF Volume!Next

\* A block of a file is written: no size changes.
LEMMA BlockKeepsListing ==
    ASSUME QuietInv, TypedInv, SoundInv, Intact, Intact', NEW s \in Files,
           NEW m \in 1 .. Len(block[dir[s].inode].blocks), NEW w,
           block' = [block EXCEPT ![block[dir[s].inode].blocks[m]] = Data(w)],
           UNCHANGED <<bat, dir>>, Files' = Files
    PROVE  Listing' = Listing
<1> DEFINE v == Data(w)
<1>1. "size" \notin DOMAIN v
  BY DEF Data
<1>2. block' = [block EXCEPT ![block[dir[s].inode].blocks[m]] = v]
  OBVIOUS
<1> HIDE DEF v
<1>3. OneBlock(s, m, v)
  BY <1>1, <1>2, OneBlockWritten DEF TypedInv, SoundInv
<1>4. QED
  BY <1>3, SameListing DEF OneBlock, SameFiles

LEMMA VolumeWriteZeros ==
    ASSUME QuietInv, TypedInv, NamesInv, SoundInv, KnownInv, NEW t \in Threads, Intact,
           WriteZeros(t)
    PROVE  [Volume!Next]_(Volume!vars)
<1>0. Shapes /\ AtWrite(t)
  BY DEF QuietInv, TypedInv, BufferTyped
<1>1. /\ at[t] = "write_zeros" /\ UNCHANGED <<bat, dir, struck>>
      /\ block' = [block EXCEPT ![buf.inode.blocks[call[t].k]] = Data(Zeros)]
      /\ \/ Return(t, 0)
         \/ call' = [call EXCEPT ![t].k = call[t].k + 1] /\ UNCHANGED at
  BY DEF WriteZeros
<1>2. call[t].op = "create" /\ Asks(t) /\ Intact' /\ at[t] \in TfsPlaces
  BY <1>0, <1>1 DEF AtWrite, Asks, Intact, TfsPlaces, WritePlaces
<1>3. Listing' = Listing
  <2>1. PICK s \in Files : Zeroes(t, s)
    BY SoundWriteZeros
  <2>2. QED BY <1>1, <1>2, <2>1, BlockKeepsListing DEF Zeroes
<1>4. Stage(t) = "done"
  BY <1>1, <1>2 DEF Stage, InCall
<1>5. CASE Return(t, 0)
  BY <1>2, <1>3, <1>4, <1>5, Answers
<1>6. CASE ~Return(t, 0)
  <2>1. CallSet(t, call[t].arg, call[t].k + 1) /\ UNCHANGED at
    BY <1>0, <1>1, <1>6, CallAssigned
  <2>2. OneMoves(t) /\ Stage(t)' = Stage(t) /\ at'[t] \in TfsPlaces /\ at'[t] # "idle"
    BY <1>0, <1>1, <1>2, <2>1 DEF OneMoves, Shapes, Stage, InCall, CallSet
  <2>3. QED BY <1>2, <1>3, <2>1, <2>2, GoesOn
<1>7. QED
  BY <1>5, <1>6

LEMMA VolumeWriteData ==
    ASSUME QuietInv, TypedInv, NamesInv, SoundInv, KnownInv, NEW t \in Threads, Intact,
           WriteData(t, files[call[t].handle].seek), UNCHANGED files
    PROVE  [Volume!Next]_(Volume!vars)
<1>0. Shapes /\ AtWrite(t)
  BY DEF QuietInv, TypedInv, BufferTyped
<1>1. /\ at[t] = "write_data" /\ UNCHANGED <<bat, dir, struck>>
      /\ \E w : block' = [block EXCEPT ![buf.inode.blocks[call[t].k + 1]] = Data(w)]
      /\ \/ Return(t, call[t].arg)
         \/ call' = [call EXCEPT ![t].k = call[t].k + 1] /\ UNCHANGED at
  BY DEF WriteData
<1>2. ~Asks(t) /\ Intact' /\ at[t] \in TfsPlaces
  BY <1>0, <1>1 DEF AtWrite, Asks, Intact, TfsPlaces, WritePlaces
<1>3. Listing' = Listing
  <2>1. PICK s \in Files : Writes(t, s)
    BY SoundWriteData
  <2>2. PICK w : block' = [block EXCEPT ![buf.inode.blocks[call[t].k + 1]] = Data(w)]
    BY <1>1
  <2>3. QED BY <1>1, <1>2, <2>1, <2>2, BlockKeepsListing DEF Writes
<1>4. CASE Return(t, call[t].arg)
  BY <1>2, <1>3, <1>4, OtherReturns
<1>5. CASE ~Return(t, call[t].arg)
  <2>1. CallSet(t, call[t].arg, call[t].k + 1) /\ UNCHANGED at
    BY <1>0, <1>1, <1>5, CallAssigned
  <2>2. OneMoves(t) /\ at'[t] # "idle"
    BY <1>0, <1>1, <2>1 DEF OneMoves, Shapes
  <2>3. QED BY <1>2, <1>3, <2>1, <2>2, GoesOn
<1>6. QED
  BY <1>4, <1>5

-----------------------------------------------------------------------------
\* Once the disk is torn nothing is promised.
LEMMA NothingPromised ==
    /\ ~Intact => Listing = {} /\ Requested = Volume!NoRequests
    /\ ~Intact' => Listing' = {} /\ Requested' = Volume!NoRequests
BY DEF Listing, Requested, Request, Volume!NoRequests, Volume!Nothing

LEMMA TornStays ==
    ASSUME ~Intact, struck \subseteq struck'
    PROVE  UNCHANGED Volume!vars
<1>1. ~Intact'
  BY DEF Intact
<1>2. QED
  BY <1>1, NothingPromised, VolumeStutters

LEMMA Tears ==
    ASSUME Intact, ~Intact', NEW t \in Threads, <<call[t].op, at[t]>> \in Tearing
    PROVE  Volume!Next
<1>1. /\ Asks(t) /\ at[t] \notin {"idle", "end"}
      /\ \/ call[t].op = "create" /\ at[t] = "write_inode"
         \/ call[t].op = "remove" /\ at[t] = "write_dir"
  BY InTearing DEF Asks
<1>2. \/ call[t].op = "create" /\ Stage(t) = "asked"
      \/ call[t].op = "remove" /\ Stage(t) = "done"
  BY <1>1 DEF Stage, InCall
<1>3. Request(t).op = call[t].op /\ Request(t).stage = Stage(t)
  BY <1>1, RequestIs
<1>4. Requested[t] = Request(t)
  BY DEF Requested
<1>5. Volume!Tear
  BY <1>2, <1>3, <1>4, NothingPromised DEF Volume!Tear, Volume!At, Requested
<1>6. QED
  BY <1>5 DEF Volume!Next

\* A failed request is answered as if nothing, or as if all had been done, or it tears.
LEMMA VolumeDiskError ==
    ASSUME QuietInv, TypedInv, NEW t \in Threads, Intact, DiskError(t)
    PROVE  [Volume!Next]_(Volume!vars)
<1>0. AtWrite(t) /\ fsLock \in Threads \cup {NoThread}
  BY DEF TypedInv, BufferTyped
<1>1. /\ Return(t, -1) /\ fsLock' = NoThread /\ UNCHANGED disk
      /\ struck' = struck \cup {<<call[t].op, at[t]>>}
      /\ at[t] \in WritePlaces \/ (at[t] = "tfs" /\ fsLock = NoThread)
  BY DEF DiskError, Return, NextWrite
<1>2. CASE ~Intact'
  <2>1. <<call[t].op, at[t]>> \in Tearing
    BY <1>1, <1>2 DEF Intact
  <2>2. QED BY <1>2, <2>1, Tears
<1>3. CASE Intact'
  <2>1. ~TornBy(t)
    BY <1>1, <1>3, InTearing DEF Intact, TornBy
  <2>2. fsLock = NoThread \/ (fsLock = t /\ ~TornBy(t))
    BY <1>0, <1>1, <2>1 DEF AtWrite
  <2>3. Listing' = Listing
    BY <1>1, <1>3, <2>2, FilesStay, SameListing
  <2>4. at[t] \in TfsPlaces
    BY <1>1 DEF TfsPlaces
  <2>5. CASE Asks(t)
    <3>1. \/ Stage(t) = "asked"
          \/ Stage(t) = "done" /\ call[t].op = "create"
      BY <2>1, <2>4, <2>5 DEF Stage, InCall, TornBy, TfsPlaces, WritePlaces, Asks
    <3>2. QED BY <1>1, <1>3, <2>3, <2>4, <2>5, <3>1, Answers
  <2>6. CASE ~Asks(t)
    BY <1>1, <1>3, <2>3, <2>6, OtherReturns
  <2>7. QED BY <2>5, <2>6
<1>4. QED
  BY <1>2, <1>3

\* A stop at any other place is one that came between two changes.
LEMMA VolumeReboot ==
    ASSUME QuietInv, TypedInv, Intact, PowerFailure
    PROVE  [Volume!Next]_(Volume!vars)
<1>1. /\ at' = [t \in Threads |-> "idle"] /\ fsLock' = NoThread /\ UNCHANGED disk
      /\ struck' = IF fsLock = NoThread THEN struck ELSE struck \cup {NextWrite(fsLock)}
      /\ fsLock \in Threads \cup {NoThread}
  BY DEF PowerFailure, Booted, TypedInv, BufferTyped
<1>2. CASE ~Intact'
  <2>1. fsLock \in Threads /\ <<call[fsLock].op, at[fsLock]>> \in Tearing
    BY <1>1, <1>2 DEF Intact, NextWrite
  <2>2. QED BY <1>2, <2>1, Tears
<1>3. CASE Intact'
  <2>1. Files' = Files
    <3>1. CASE fsLock = NoThread
      BY <1>1, <3>1 DEF Files, HalfWritten, disk
    <3>2. CASE fsLock \in Threads
      <4>1. PICK t \in Threads : t = fsLock
        BY <3>2
      <4>2. ~TornBy(t)
        BY <1>1, <1>3, <4>1, InTearing, TfsAssumption DEF Intact, TornBy, NextWrite
      <4>3. SameFiles
        BY <1>1, <4>1, <4>2, FilesStay
      <4>4. QED BY <4>3 DEF SameFiles
    <3>3. QED BY <1>1, <3>1, <3>2
  <2>2. Listing' = Listing
    BY <1>1, <1>3, <2>1, SameListing DEF SameFiles, disk
  <2>3. \A t \in Threads : Request(t)' = Volume!Nothing
    BY <1>1, NothingAsked
  <2>4. Requested' = Volume!NoRequests
    BY <2>3 DEF Requested, Volume!NoRequests
  <2>5. Volume!Stop
    BY <2>2, <2>4 DEF Volume!Stop, Requested
  <2>6. QED BY <1>3, <2>5 DEF Volume!Next
<1>4. QED
  BY <1>2, <1>3

-----------------------------------------------------------------------------
\* The steps outside the filesystem.
LEMMA ListingOutside ==
    ASSUME TypedInv, NEW t \in Threads, OutsideMove(t), Intact
    PROVE  Listing' = Listing /\ Intact' /\ OthersKeep(t)
<1>1. /\ UNCHANGED <<bat, dir, block, fsLock, struck>>
      /\ \A u \in Threads \ {t} : at'[u] = at[u] /\ call'[u] = call[u]
      /\ at[t] \notin WritePlaces /\ OneMoves(t)
  BY DEF OutsideMove, KeepTfs, disk, OneMoves
<1>2. fsLock # t /\ fsLock \in Threads \cup {NoThread}
  BY <1>1 DEF TypedInv, BufferTyped, AtWrite
<1>3. \A s \in Slots : HalfWritten(s)' <=> HalfWritten(s)
  BY <1>1, <1>2 DEF HalfWritten
<1>4. Files' = Files
  BY <1>1, <1>3 DEF Files
<1>5. Intact'
  BY <1>1 DEF Intact
<1>6. QED
  BY <1>1, <1>4, <1>5, SameListing DEF SameFiles, OthersKeep

\* The call returns, or is turned away.
LEMMA Leaves ==
    ASSUME NEW t \in Threads, Intact, Intact', OthersKeep(t), Listing' = Listing, Asks(t),
           at[t] \notin {"idle", "end"}, Stage(t) # "done", at'[t] = "end"
    PROVE  Volume!Next
<1>1. Request(t)' = Volume!Nothing
  BY NothingAsked
<1>2. Volume!Becomes(t, Volume!Nothing)
  BY <1>1, OneRequest DEF OthersKeep
<1>3. Request(t).stage \in {"asked", "answered"} /\ Requested[t] = Request(t)
  BY RequestIs DEF Requested
<1>4. Volume!Leave(t)
  BY <1>2, <1>3 DEF Volume!Leave, Requested
<1>5. QED
  BY <1>4 DEF Volume!Next

LEMMA VolumeOutside ==
    ASSUME QuietInv, TypedInv, NEW t \in Threads, Intact,
           \/ StartOp(t) \/ EndOp(t) \/ Mount(t) \/ LockTable(t) \/ UnmountCheck(t)
           \/ UnmountFs(t) \/ ClaimFile(t) \/ OpenReturn(t) \/ CloseFile(t) \/ MoveSeek(t)
           \/ UnlockTable(t)
    PROVE  [Volume!Next]_(Volume!vars)
<1>0. Shapes /\ PlaceHeld(t) /\ \A p : MoveTo(t, p) => OneMoves(t) /\ at'[t] = p
  <2>1. Shapes /\ PlaceHeld(t)
    BY DEF QuietInv, PlacesHeld
  <2>2. QED BY <2>1, Moved
<1>1. Listing' = Listing /\ Intact' /\ OthersKeep(t)
  BY OutsideSteps, ListingOutside
<1>2. ASSUME Request(t)' = Request(t) PROVE UNCHANGED Volume!vars
  BY <1>1, <1>2, ThreadStutters
<1>3. ASSUME ~Asks(t) \/ at[t] \in {"idle", "end"}, ~Asks(t)' \/ at'[t] \in {"idle", "end"}
      PROVE  UNCHANGED Volume!vars
  BY <1>2, <1>3, NothingAsked
<1>4. ASSUME UNCHANGED call, at'[t] = "end", at[t] \in {"table", "unmount", "unlock"}
      PROVE  [Volume!Next]_(Volume!vars)
  <2>1. CASE Asks(t)
    <3>1. Stage(t) # "done"
      BY <1>4 DEF Stage, InCall
    <3>2. QED BY <1>1, <1>4, <2>1, <3>1, Leaves
  <2>2. CASE ~Asks(t)
    BY <1>3, <1>4, <2>2
  <2>3. QED BY <2>1, <2>2
<1>5. CASE StartOp(t)
  <2>1. at[t] = "idle" /\ Calls(t) /\ at'[t] = FirstPlace(call'[t].op)
    BY <1>0, <1>5 DEF StartOp
  <2>2. Made(t, call'[t])
    BY <1>0, <2>1, CallMade
  <2>3. CASE ~Asks(t)'
    BY <1>3, <2>1, <2>3
  <2>4. CASE Asks(t)'
    <3>1. call'[t].op \in {"create", "remove"}
      BY <2>4 DEF Asks
    <3>2. at'[t] = "table"
      BY <2>1, <3>1 DEF FirstPlace
    <3>3. Stage(t)' = "asked"
      BY <3>2 DEF Stage
    <3>4. Request(t)' = [op |-> call'[t].op, name |-> call'[t].name, arg |-> call'[t].arg,
                         stage |-> "asked"]
      BY <1>1, <2>4, <3>2, <3>3, RequestThen
    <3>5. Request(t)' \in Volume!Asked
      BY <2>2, <3>1, <3>4 DEF Made, Volume!Asked
    <3>6. Requested[t] = Volume!Nothing
      BY <2>1, NothingAsked DEF Requested
    <3>7. Volume!Becomes(t, Request(t)')
      BY <1>1, OneRequest DEF OthersKeep
    <3>8. Volume!Ask(t)
      BY <1>1, <3>5, <3>6, <3>7 DEF Volume!Ask, Requested
    <3>9. QED BY <1>1, <3>8 DEF Volume!Next
  <2>5. QED BY <2>3, <2>4
<1>6. CASE EndOp(t)
  <2>1. at[t] = "end" /\ at'[t] = "idle"
    BY <1>0, <1>6 DEF EndOp
  <2>2. QED BY <1>3, <2>1
<1>7. CASE Mount(t)
  <2>1. at[t] = "table" /\ at'[t] = "end" /\ UNCHANGED call
    BY <1>0, <1>7 DEF Mount, TableOp
  <2>2. QED BY <1>4, <2>1
<1>8. CASE LockTable(t)
  <2>1. /\ at[t] = "table" /\ UNCHANGED call
        /\ \/ at'[t] = "end"
           \/ at'[t] = "files" /\ call[t].op \in {"unmount", "open"}
           \/ at'[t] = "tfs"
    BY <1>0, <1>8 DEF LockTable
  <2>2. CASE at'[t] = "end"
    BY <1>4, <2>1, <2>2
  <2>3. CASE at'[t] # "end" /\ Asks(t)
    <3>1. at'[t] = "tfs" /\ Asks(t)'
      BY <2>1, <2>3 DEF Asks
    <3>2. Stage(t)' = Stage(t)
      BY <2>1, <3>1 DEF Stage, InCall
    <3>3. Request(t)' = Request(t)
      BY <1>1, <2>1, <2>3, <3>1, <3>2, RequestIs, RequestThen
    <3>4. QED BY <1>2, <3>3
  <2>4. CASE ~Asks(t)
    BY <1>3, <2>1, <2>4 DEF Asks
  <2>5. QED BY <2>2, <2>3, <2>4
<1>9. CASE UnmountCheck(t)
  <2>1. ~Asks(t) /\ ~Asks(t)'
    BY <1>9 DEF UnmountCheck, FilesOp, Asks
  <2>2. QED BY <1>3, <2>1
<1>10. CASE UnmountFs(t)
  <2>1. at[t] = "unmount" /\ at'[t] = "end" /\ UNCHANGED call
    BY <1>0, <1>10 DEF UnmountFs
  <2>2. QED BY <1>4, <2>1
<1>11. CASE ClaimFile(t)
  <2>1. call[t].op = "open" /\ \/ UNCHANGED call
                               \/ \E h : call' = [call EXCEPT ![t].handle = h]
    BY <1>11 DEF ClaimFile, FilesOp
  <2>2. call'[t].op = "open"
    <3>1. ASSUME NEW h, call' = [call EXCEPT ![t].handle = h] PROVE call'[t].op = call[t].op
      BY <1>0, <3>1 DEF Shapes, CallFields
    <3>2. QED BY <2>1, <3>1
  <2>3. QED BY <1>3, <2>1, <2>2 DEF Asks
<1>12. CASE OpenReturn(t) \/ CloseFile(t) \/ MoveSeek(t)
  <2>1. /\ at[t] \in {"tfs_opened", "give_up", "files", "advance"} /\ UNCHANGED call
        /\ at[t] = "files" => call[t].op \in {"close", "seek"}
    BY <1>12 DEF OpenReturn, CloseFile, MoveSeek
  <2>2. ~Asks(t) /\ ~Asks(t)'
    BY <1>0, <2>1 DEF PlaceHeld, Asks
  <2>3. QED BY <1>3, <2>2
<1>13. CASE UnlockTable(t)
  <2>1. at[t] = "unlock" /\ at'[t] = "end" /\ UNCHANGED call
    BY <1>0, <1>13 DEF UnlockTable
  <2>2. QED BY <1>4, <2>1
<1>14. QED
  BY <1>5, <1>6, <1>7, <1>8, <1>9, <1>10, <1>11, <1>12, <1>13

LEMMA VolumeInitial == Init => Volume!Init
<1> SUFFICES ASSUME Init PROVE Volume!Init
  OBVIOUS
<1>1. /\ at = [t \in Threads |-> "idle"] /\ dir = EmptyDir /\ struck = {}
  BY DEF Init, FormattedDisk, Booted
<1>2. Files = {} /\ Intact
  BY <1>1 DEF Files, EmptyDir, FreeEntry, Intact
<1>3. Listing = {}
  BY <1>2 DEF Listing
<1>4. Requested = Volume!NoRequests
  BY <1>1, NothingAsked DEF Requested, Volume!NoRequests
<1>5. QED
  BY <1>2, <1>3, <1>4 DEF Volume!Init, Requested

-----------------------------------------------------------------------------
LEMMA SizeKeptFs ==
    ASSUME QuietInv, TypedInv, SizeKept, NEW t \in Threads,
           FsStep(t) \/ RemoveFile(t) \/ RequestFails(t)
    PROVE  SizeKept'
<1>0. Shapes /\ AtWrite(t) /\ fsLock \in Threads \cup {NoThread}
  BY DEF QuietInv, TypedInv, BufferTyped
<1> DEFINE Early == {"write_bat", "write_dir", "write_inode"}
           Good == \/ at'[t] \notin Early \/ call'[t].op # "create"
                   \/ buf'.inode.size = call'[t].arg
<1>m. \A p : MoveTo(t, p) => at'[t] = p
  BY <1>0, Moved
<1>r. \A x : Return(t, x) => Good
  BY <1>0, Returned DEF Left
<1>1. OneMoves(t) /\ KeepsCalls /\ at[t] \in TfsPlaces
  BY <1>0, TfsMoves DEF FsStep, RemoveFile, RequestFails, FsMoves
<1>2. fsLock \in {t, NoThread}
  BY <1>0 DEF FsStep, RemoveFile, RequestFails, TfsOpen, TfsCreateRefused, TfsCreate, TfsRemove,
              TfsRead, TfsWrite, TfsGetFree, WriteBat, WriteDir, WriteInode, WriteZeros,
              WriteData, DiskError, Enters, AtWrite, WritePlaces
<1>3. Good
  <2>1. CASE TfsCreate(t)
    <3>1. \/ Return(t, -1)
          \/ UNCHANGED call /\ \E q : buf'.inode = Inode(call[t].arg, q)
      BY <2>1 DEF TfsCreate
    <3>2. ASSUME UNCHANGED call, NEW q, buf'.inode = Inode(call[t].arg, q) PROVE Good
      <4>1. Inode(call[t].arg, q).size = call[t].arg
        BY DEF Inode
      <4>2. QED BY <3>2, <4>1
    <3>3. QED BY <1>r, <3>1, <3>2
  <2>2. CASE WriteBat(t) \/ WriteDir(t)
    <3>1. \/ \E x : Return(t, x)
          \/ UNCHANGED <<buf, call>> /\ at[t] \in Early
      BY <2>2 DEF WriteBat, WriteDir
    <3>2. QED BY <1>r, <3>1 DEF SizeKept
  <2>3. CASE TfsOpen(t) \/ TfsCreateRefused(t) \/ TfsGetFree(t) \/ DiskError(t)
    <3>1. (\E x : Return(t, x)) \/ MoveTo(t, "tfs_opened")
      BY <2>3 DEF TfsOpen, TfsCreateRefused, TfsGetFree, DiskError
    <3>2. QED BY <1>m, <1>r, <3>1
  <2>4. CASE TfsRemove(t)
    BY <1>1, <2>4 DEF TfsRemove, Enters, KeepsCalls
  <2>5. ASSUME NEW i, NEW n, TfsRead(t, i, n) PROVE Good
    BY <1>r, <2>5 DEF TfsRead
  <2>6. ASSUME NEW i, NEW n, TfsWrite(t, i, n) PROVE Good
    BY <1>1, <2>6 DEF TfsWrite, Enters, KeepsCalls
  <2>7. CASE WriteInode(t)
    BY <1>m, <1>r, <2>7 DEF WriteInode
  <2>8. CASE WriteZeros(t)
    BY <1>r, <2>8 DEF WriteZeros
  <2>9. ASSUME NEW n, WriteData(t, n) PROVE Good
    BY <1>r, <2>9 DEF WriteData
  <2>10. QED
    BY <2>1, <2>2, <2>3, <2>4, <2>5, <2>6, <2>7, <2>8, <2>9 DEF FsStep, RemoveFile, RequestFails
<1>4. \A u \in Threads \ {t} : at'[u] \notin Early
  BY <1>1, <1>2, OthersOut DEF OneMoves, WritePlaces
<1>5. QED
  BY <1>3, <1>4 DEF SizeKept

LEMMA SizeKeptStep ==
    ASSUME QuietInv, TypedInv, SizeKept, [Next]_vars
    PROVE  SizeKept'
<1>1. ASSUME UNCHANGED tfsVars PROVE SizeKept'
  BY <1>1 DEF tfsVars, SizeKept
<1>2. ASSUME NEW t \in Threads, Step(t) PROVE SizeKept'
  <2>1. CASE StartRefused(t)
    BY <1>1, <2>1 DEF StartRefused
  <2>2. CASE FsStep(t) \/ RemoveFile(t) \/ RequestFails(t)
    BY <2>2, SizeKeptFs
  <2>3. CASE ~(StartRefused(t) \/ FsStep(t) \/ RemoveFile(t) \/ RequestFails(t))
    <3>1. OutsideMove(t)
      BY <1>2, <2>3, OutsideSteps DEF Step, CallStep
    <3>2. /\ UNCHANGED buf /\ at'[t] \notin WritePlaces
          /\ \A u \in Threads \ {t} : at'[u] = at[u] /\ call'[u] = call[u]
      BY <3>1 DEF OutsideMove, KeepTfs, OneMoves
    <3>3. QED BY <3>2 DEF SizeKept, WritePlaces
  <2>4. QED BY <2>1, <2>2, <2>3
<1>3. CASE DeinitStep
  BY <1>1, <1>3 DEF DeinitStep, Deinit, DeinitWoken, DeinitAgain, DeinitTables
<1>4. CASE UNCHANGED vars
  BY <1>1, <1>4 DEF vars
<1>5. CASE PowerFailure
  BY <1>5 DEF PowerFailure, Booted, SizeKept
<1>6. QED
  BY <1>2, <1>3, <1>4, <1>5 DEF Next

LEMMA VolumeFsStep ==
    ASSUME VolumeInv, SizeKept, NEW t \in Threads, Intact,
           FsStep(t) \/ RemoveFile(t) \/ RequestFails(t)
    PROVE  [Volume!Next]_(Volume!vars)
<1> USE DEF VolumeInv
<1>1. UNCHANGED files
  BY DEF FsStep, RemoveFile, RequestFails, vfsVars
<1>2. CASE DiskError(t)
  BY <1>2, VolumeDiskError
<1>3. CASE WriteBat(t) \/ WriteDir(t)
  BY <1>3, VolumeWriteBat, VolumeWriteDir
<1>4. CASE WriteInode(t) \/ WriteZeros(t)
  BY <1>4, VolumeWriteInode, VolumeWriteZeros
<1>5. CASE WriteData(t, files[call[t].handle].seek)
  BY <1>1, <1>5, VolumeWriteData
<1>6. CASE ~(DiskError(t) \/ WriteBat(t) \/ WriteDir(t) \/ WriteInode(t) \/ WriteZeros(t)
             \/ WriteData(t, files[call[t].handle].seek))
  <2>1. \/ TfsOpen(t) \/ TfsCreateRefused(t) \/ TfsCreate(t) \/ TfsRemove(t)
        \/ \E i, n : TfsRead(t, i, n) \/ TfsWrite(t, i, n)
        \/ TfsGetFree(t)
    BY <1>6 DEF FsStep, RemoveFile, RequestFails
  <2>2. QED BY <2>1, VolumeEntered
<1>7. QED
  BY <1>2, <1>3, <1>4, <1>5, <1>6

LEMMA VolumeStep ==
    ASSUME VolumeInv, SizeKept, [Next]_vars
    PROVE  [Volume!Next]_(Volume!vars)
<1> USE DEF VolumeInv
<1>1. ASSUME UNCHANGED tfsVars PROVE UNCHANGED Volume!vars
  <2>1. UNCHANGED <<bat, dir, block, fsLock, dirbuf, buf, at, call, struck>>
    BY <1>1 DEF tfsVars, disk
  <2>2. Files' = Files /\ (Intact' <=> Intact)
    BY <2>1 DEF Files, HalfWritten, Intact
  <2>3. Listing' = Listing
    BY <2>1, <2>2, SameListing DEF SameFiles
  <2>4. \A t \in Threads : Request(t)' = Request(t)
    BY <2>1, <2>2, RequestKept DEF SameRequest
  <2>5. QED BY <2>2, <2>3, <2>4, VolumeStutters DEF Requested
<1>2. CASE ~Intact
  <2>1. CASE struck \subseteq struck'
    BY <1>2, <2>1, TornStays
  <2>2. struck \subseteq struck'
    <3>1. ASSUME NEW t \in Threads, Step(t) PROVE struck \subseteq struck'
      <4>1. CASE StartRefused(t)
        BY <4>1 DEF StartRefused, tfsVars
      <4>2. CASE FsStep(t) \/ RemoveFile(t) \/ RequestFails(t)
        BY <4>2 DEF FsStep, RemoveFile, RequestFails, TfsOpen, TfsCreateRefused, TfsCreate,
                    TfsRemove, TfsRead, TfsWrite, TfsGetFree, WriteBat, WriteDir, WriteInode,
                    WriteZeros, WriteData, DiskError
      <4>3. CASE ~(StartRefused(t) \/ FsStep(t) \/ RemoveFile(t) \/ RequestFails(t))
        <5>1. OutsideMove(t)
          BY <3>1, <4>3, OutsideSteps DEF Step, CallStep
        <5>2. QED BY <5>1 DEF OutsideMove, KeepTfs
      <4>4. QED BY <4>1, <4>2, <4>3
    <3>2. CASE DeinitStep \/ UNCHANGED vars
      BY <3>2 DEF DeinitStep, Deinit, DeinitWoken, DeinitAgain, DeinitTables, vars, tfsVars
    <3>3. CASE PowerFailure
      BY <3>3 DEF PowerFailure
    <3>4. QED BY <3>1, <3>2, <3>3 DEF Next
  <2>3. QED BY <2>1, <2>2
<1>3. CASE Intact
  <2>1. ASSUME NEW t \in Threads, Step(t) PROVE [Volume!Next]_(Volume!vars)
    <3>1. CASE StartRefused(t)
      BY <1>1, <3>1 DEF StartRefused
    <3>2. CASE FsStep(t) \/ RemoveFile(t) \/ RequestFails(t)
      BY <1>3, <3>2, VolumeFsStep
    <3>3. CASE ~(StartRefused(t) \/ FsStep(t) \/ RemoveFile(t) \/ RequestFails(t))
      BY <1>3, <2>1, <3>3, VolumeOutside DEF Step, CallStep
    <3>4. QED BY <3>1, <3>2, <3>3
  <2>2. CASE DeinitStep \/ UNCHANGED vars
    BY <1>1, <2>2 DEF DeinitStep, Deinit, DeinitWoken, DeinitAgain, DeinitTables, vars
  <2>3. CASE PowerFailure
    BY <1>3, <2>3, VolumeReboot
  <2>4. QED BY <2>1, <2>2, <2>3 DEF Next
<1>4. QED
  BY <1>2, <1>3

\* The volume implements AbstractVolume: vfs_create and vfs_remove change the files at one
\* moment or not at all and report success only after they have, whatever other threads do
\* in between, and a fault is as if it came between two changes, or tears the disk
\* (tfs.c:286-385, 433-516; vfs.c:776-879).
THEOREM ImplementsVolumeAlways == Spec => ImplementsVolume
<1>1. Init => Volume!Init /\ SizeKept
  BY VolumeInitial DEF Init, Booted, SizeKept
<1>2. VolumeInv /\ SizeKept /\ [Next]_vars => SizeKept'
  BY SizeKeptStep DEF VolumeInv
<1>3. VolumeInv /\ SizeKept /\ [Next]_vars => [Volume!Next]_(Volume!vars)
  BY VolumeStep
<1>4. Spec => Volume!Init /\ [][Volume!Next]_(Volume!vars)
  BY <1>1, <1>2, <1>3, VolumeAlways, PTL DEF Spec
<1>5. QED
  BY <1>4 DEF ImplementsVolume, Volume!Spec

-----------------------------------------------------------------------------
\* Nobody is stuck: the semaphores are taken in one order, mount table, open files, lock of
\* the filesystem, and their holders are where they wait at most for a later one.
HoldsTable(t) ==
    \/ at[t] = "files" /\ call[t].op \in {"unmount", "open"}
    \/ at[t] \in WritePlaces \cup {"tfs"} /\ call[t].op \in {"create", "remove", "getfree"}
    \/ at[t] \in {"unlock", "unmount"}

HeldBy(t) == (tableSem = t => HoldsTable(t)) /\ (fileSem = t => at[t] = "unmount")

HeldByHalt ==
    /\ tableSem = Halter => halting \in {"files", "unmount"}
    /\ fileSem = Halter => halting = "unmount"

HoldersInv == HeldByHalt /\ \A t \in Threads : HeldBy(t)

\* A step gives a semaphore to nobody but the one who takes it.
LEMMA HoldersOne ==
    ASSUME HoldersInv, NEW t \in Threads, OneMoves(t), UNCHANGED halting,
           \A u \in Threads \ {t} : call'[u].op = call[u].op,
           tableSem' \in {tableSem, t, NoThread}, fileSem' \in {fileSem, t, NoThread},
           HeldBy(t)'
    PROVE  HoldersInv'
<1>1. Halter # NoThread /\ Halter # t /\ t # NoThread
  BY VfsAssumption, TfsAssumption
<1>2. HeldByHalt'
  BY <1>1 DEF HoldersInv, HeldByHalt
<1>3. ASSUME NEW u \in Threads \ {t} PROVE HeldBy(u)'
  <2>1. HeldBy(u) /\ at'[u] = at[u] /\ call'[u].op = call[u].op
    BY <1>3 DEF HoldersInv, OneMoves
  <2>2. (tableSem' = u => tableSem = u) /\ (fileSem' = u => fileSem = u)
    BY <1>3, TfsAssumption
  <2>3. HoldsTable(u) => HoldsTable(u)'
    BY <2>1 DEF HoldsTable
  <2>4. QED BY <2>1, <2>2, <2>3 DEF HeldBy
<1>4. QED
  BY <1>2, <1>3 DEF HoldersInv

\* Steps at a place where no semaphore of a table is held.
LEMMA HoldersFree ==
    ASSUME HoldersInv, NEW t \in Threads, UNCHANGED <<tableSem, fileSem>>, ~HoldsTable(t)
    PROVE  HeldBy(t)'
<1>1. HeldBy(t) /\ at[t] # "unmount"
  BY DEF HoldersInv, HoldsTable
<1>2. QED
  BY <1>1 DEF HeldBy

LEMMA HoldersFs ==
    ASSUME QuietInv, HoldersInv, NEW t \in Threads,
           FsStep(t) \/ RemoveFile(t) \/ RequestFails(t)
    PROVE  HoldersInv'
<1>1. FsMoves(t)
  BY TfsMoves DEF QuietInv, FsStep, RequestFails, RemoveFile
<1>2. UNCHANGED <<tableSem, fileSem, halting>>
  BY DEF FsStep, RequestFails, RemoveFile, vfsVars
<1>3. /\ at[t] \in TfsPlaces /\ OneMoves(t)
      /\ \A u \in Threads : call'[u].op = call[u].op
      /\ at'[t] \in TfsPlaces \/ Left(t)
      /\ at'[t] = "tfs_opened" => call[t].op = "open"
  BY <1>1 DEF FsMoves, KeepsCalls
<1>4. HoldsTable(t) => HoldsTable(t)'
  BY <1>3 DEF HoldsTable, Left, TfsPlaces, WritePlaces
<1>5. HeldBy(t)'
  BY <1>2, <1>3, <1>4 DEF HoldersInv, HeldBy, TfsPlaces, WritePlaces
<1>6. QED
  BY <1>2, <1>3, <1>5, HoldersOne

LEMMA HoldersTables ==
    ASSUME QuietInv, HoldersInv, NEW t \in Threads,
           Mount(t) \/ LockTable(t) \/ UnmountCheck(t) \/ UnmountFs(t) \/ UnlockTable(t)
    PROVE  HoldersInv'
<1>1. UNCHANGED <<call, halting>>
  BY DEF Mount, LockTable, UnmountCheck, UnmountFs, UnlockTable
<1>2. Shapes /\ PlaceHeld(t) /\ HeldBy(t)
  BY DEF QuietInv, PlacesHeld, HoldersInv
<1>3. \A p : MoveTo(t, p) => OneMoves(t) /\ at'[t] = p
  BY <1>2, Moved
<1>4. /\ OneMoves(t)
      /\ tableSem' \in {tableSem, t, NoThread} /\ fileSem' \in {fileSem, t, NoThread}
  BY <1>3 DEF Mount, LockTable, UnmountCheck, UnmountFs, UnlockTable
<1>5. HeldBy(t)'
  <2>0. t # NoThread
    BY TfsAssumption
  <2>1. CASE Mount(t)
    <3>1. UNCHANGED <<tableSem, fileSem>> /\ ~HoldsTable(t)
      BY <2>1 DEF Mount, TableOp, HoldsTable, WritePlaces
    <3>2. QED BY <3>1, HoldersFree
  <2>2. CASE LockTable(t)
    <3>1. /\ at[t] = "table" /\ call[t].op # "mount" /\ fileSem' = fileSem
          /\ tableSem = NoThread
          /\ \/ /\ tableSem' = t
                /\ at'[t] = IF call[t].op \in {"unmount", "open"} THEN "files" ELSE "tfs"
             \/ tableSem' = tableSem
      BY <1>3, <2>2 DEF LockTable
    <3>2. call[t].op \in {"unmount", "open", "create", "remove", "getfree"}
      BY <1>2, <3>1 DEF PlaceHeld
    <3>3. tableSem' = t => HoldsTable(t)'
      BY <1>1, <2>0, <3>1, <3>2 DEF HoldsTable
    <3>4. QED BY <1>2, <3>1, <3>3 DEF HeldBy
  <2>3. CASE UnmountCheck(t)
    <3>1. /\ at[t] = "files" /\ fileSem = NoThread
          /\ \/ tableSem' = NoThread /\ fileSem' = fileSem
             \/ tableSem' = tableSem /\ fileSem' = t /\ at'[t] = "unmount"
      BY <1>3, <2>3 DEF UnmountCheck, FilesOp
    <3>2. QED BY <2>0, <3>1 DEF HeldBy, HoldsTable
  <2>4. CASE UnmountFs(t)
    <3>1. tableSem' = NoThread /\ fileSem' = NoThread
      BY <2>4 DEF UnmountFs
    <3>2. QED BY <2>0, <3>1 DEF HeldBy
  <2>5. CASE UnlockTable(t)
    <3>1. tableSem' = NoThread /\ fileSem' = fileSem /\ at[t] = "unlock"
      BY <2>5 DEF UnlockTable
    <3>2. QED BY <1>2, <2>0, <3>1 DEF HeldBy
  <2>6. QED BY <2>1, <2>2, <2>3, <2>4, <2>5
<1>6. QED
  BY <1>1, <1>4, <1>5, HoldersOne

LEMMA HoldersCalls ==
    ASSUME QuietInv, HoldersInv, NEW t \in Threads,
           \/ StartOp(t) \/ EndOp(t)
           \/ ClaimFile(t) \/ OpenReturn(t) \/ CloseFile(t) \/ MoveSeek(t)
    PROVE  HoldersInv'
<1>1. Shapes /\ HeldBy(t)
  BY DEF QuietInv, HoldersInv
<1>2. \A p : MoveTo(t, p) => OneMoves(t) /\ at'[t] = p
  BY <1>1, Moved
<1>3. UNCHANGED halting /\ OneMoves(t)
  <2>1. CASE StartOp(t) \/ EndOp(t)
    BY <1>2, <2>1 DEF StartOp, EndOp
  <2>2. CASE ClaimFile(t) \/ OpenReturn(t) \/ CloseFile(t) \/ MoveSeek(t)
    BY <1>2, <2>2 DEF ClaimFile, OpenReturn, CloseFile, MoveSeek
  <2>3. QED BY <2>1, <2>2
<1>4. \A u \in Threads \ {t} : call'[u] = call[u]
  <2>1. CASE StartOp(t)
    BY <1>1, <2>1, CallMade DEF StartOp
  <2>2. CASE EndOp(t)
    BY <1>1, <2>2, CallIs DEF EndOp
  <2>3. CASE ClaimFile(t)
    <3>1. UNCHANGED call \/ \E h : call' = [call EXCEPT ![t].handle = h]
      BY <2>3 DEF ClaimFile
    <3>2. ASSUME NEW h, call' = [call EXCEPT ![t].handle = h], NEW u \in Threads \ {t}
          PROVE  call'[u] = call[u]
      BY <1>1, <3>2 DEF Shapes
    <3>3. QED BY <3>1, <3>2
  <2>4. CASE OpenReturn(t) \/ CloseFile(t) \/ MoveSeek(t)
    BY <2>4 DEF OpenReturn, CloseFile, MoveSeek
  <2>5. QED BY <2>1, <2>2, <2>3, <2>4
<1>5. \/ /\ UNCHANGED <<tableSem, fileSem>> /\ ~HoldsTable(t)
      \/ at[t] = "files" /\ tableSem' = NoThread /\ UNCHANGED fileSem
  <2>1. CASE StartOp(t) \/ EndOp(t)
    BY <2>1 DEF StartOp, EndOp, HoldsTable, WritePlaces
  <2>2. CASE ClaimFile(t)
    BY <2>2 DEF ClaimFile, FilesOp
  <2>3. CASE OpenReturn(t)
    BY <2>3 DEF OpenReturn, HoldsTable, WritePlaces
  <2>4. CASE CloseFile(t)
    BY <2>4 DEF CloseFile, HoldsTable, WritePlaces
  <2>5. CASE MoveSeek(t)
    BY <2>5 DEF MoveSeek, HoldsTable, WritePlaces
  <2>6. QED BY <2>1, <2>2, <2>3, <2>4, <2>5
<1>6. HeldBy(t)'
  <2>1. CASE UNCHANGED <<tableSem, fileSem>> /\ ~HoldsTable(t)
    BY <2>1, HoldersFree
  <2>2. CASE at[t] = "files" /\ tableSem' = NoThread /\ UNCHANGED fileSem
    <3>1. fileSem # t /\ t # NoThread
      BY <1>1, <2>2, TfsAssumption DEF HeldBy
    <3>2. QED BY <2>2, <3>1 DEF HeldBy
  <2>3. QED BY <1>5, <2>1, <2>2
<1>7. QED
  BY <1>3, <1>4, <1>5, <1>6, HoldersOne

LEMMA HoldersHalt ==
    ASSUME HoldersInv, DeinitStep
    PROVE  HoldersInv'
<1>1. UNCHANGED <<at, call>>
  BY DEF DeinitStep, Deinit, DeinitWoken, DeinitAgain, DeinitTables, tfsVars
<1>2. /\ tableSem' \in {tableSem, Halter, NoThread}
      /\ fileSem' \in {fileSem, Halter, NoThread}
  BY DEF DeinitStep, Deinit, DeinitWoken, DeinitAgain, DeinitTables
<1>3. ASSUME NEW u \in Threads PROVE HeldBy(u)'
  <2>1. HeldBy(u) /\ u # Halter /\ u # NoThread
    BY <1>3, VfsAssumption, TfsAssumption DEF HoldersInv
  <2>2. QED BY <1>1, <1>2, <2>1 DEF HeldBy, HoldsTable
<1>4. HeldByHalt'
  <2>1. Halter # NoThread /\ HeldByHalt
    BY VfsAssumption DEF HoldersInv
  <2>2. CASE Deinit \/ DeinitWoken \/ DeinitAgain
    BY <2>1, <2>2 DEF Deinit, DeinitWoken, DeinitAgain, HeldByHalt
  <2>3. CASE DeinitTables
    BY <2>1, <2>3 DEF DeinitTables, HeldByHalt
  <2>4. QED BY <2>2, <2>3 DEF DeinitStep
<1>5. QED
  BY <1>3, <1>4 DEF HoldersInv

LEMMA HoldersBoot ==
    ASSUME Booted(fsLock, dirbuf, buf, at, call, mounted, named, files, tableSem, fileSem,
                  usable, ops, unmountSem, halting, handle)
    PROVE  HoldersInv
<1>1. tableSem = NoThread /\ fileSem = NoThread
  BY DEF Booted
<1>2. QED
  BY <1>1, VfsAssumption, TfsAssumption DEF HoldersInv, HeldBy, HeldByHalt

LEMMA HoldersStep ==
    ASSUME QuietInv, HoldersInv, [Next]_vars
    PROVE  HoldersInv'
<1>1. ASSUME UNCHANGED <<at, call, tableSem, fileSem, halting>> PROVE HoldersInv'
  BY <1>1 DEF HoldersInv, HeldBy, HeldByHalt, HoldsTable
<1>2. ASSUME NEW t \in Threads, Step(t) PROVE HoldersInv'
  <2>1. CASE StartRefused(t)
    BY <1>1, <2>1 DEF StartRefused, tfsVars, vfsVars
  <2>2. QED
    BY <1>2, <2>1, HoldersFs, HoldersTables, HoldersCalls DEF Step, CallStep
<1>3. CASE PowerFailure
  <2>1. tableSem' = NoThread /\ fileSem' = NoThread
    BY <1>3 DEF PowerFailure, Booted
  <2>2. QED BY <2>1, VfsAssumption, TfsAssumption DEF HoldersInv, HeldBy, HeldByHalt
<1>4. CASE UNCHANGED vars
  BY <1>1, <1>4 DEF vars, tfsVars, vfsVars
<1>5. QED
  BY <1>2, <1>3, <1>4, HoldersHalt DEF Next

\* Follow the holders: the thread that holds the filesystem's lock writes; when nobody
\* does, the holder of the open files can go on, then the holder of the mount table, then
\* everybody but the calls that end while vfs_deinit holds vfs_op_sem, and then that one.
LEMMA HoldersGoOn ==
    ASSUME QuietInv, TypedInv, HoldersInv
    PROVE  SomebodyGoesOn
<1> DEFINE called == {t \in Threads : at[t] # "idle"}
<1> DEFINE halts == halting \notin {"no", "done"}
<1> SUFFICES ASSUME called # {} \/ halts
             PROVE  (halts /\ ~DeinitWaits) \/ \E t \in called : ~Waits(t)
  BY DEF SomebodyGoesOn
<1>0. /\ fsLock \in Threads \cup {NoThread}
      /\ tableSem \in Threads \cup {NoThread, Halter}
      /\ fileSem \in Threads \cup {NoThread, Halter}
  BY DEF TypedInv, BufferTyped, SemsTyped
<1>1. CASE fsLock # NoThread
  <2>1. fsLock \in Threads /\ at[fsLock] \in WritePlaces
    BY <1>0, <1>1 DEF TypedInv, BufferTyped, AtWrite
  <2>2. QED BY <2>1 DEF Waits, WritePlaces
<1>2. CASE fsLock = NoThread /\ fileSem # NoThread
  <2>1. CASE fileSem \in Threads
    <3>1. at[fileSem] = "unmount"
      BY <2>1 DEF HoldersInv, HeldBy
    <3>2. QED BY <1>2, <2>1, <3>1 DEF Waits
  <2>2. CASE fileSem = Halter
    BY <1>2, <2>2 DEF HoldersInv, HeldByHalt, DeinitWaits
  <2>3. QED BY <1>0, <1>2, <2>1, <2>2
<1>3. CASE fsLock = NoThread /\ fileSem = NoThread /\ tableSem # NoThread
  <2>1. CASE tableSem \in Threads
    <3>1. HoldsTable(tableSem)
      BY <2>1 DEF HoldersInv, HeldBy
    <3>2. QED BY <1>3, <2>1, <3>1 DEF Waits, HoldsTable, WritePlaces
  <2>2. CASE tableSem = Halter
    BY <1>3, <2>2 DEF HoldersInv, HeldByHalt, DeinitWaits
  <2>3. QED BY <1>0, <1>3, <2>1, <2>2
<1>4. CASE fsLock = NoThread /\ fileSem = NoThread /\ tableSem = NoThread
  <2>1. CASE halting \in {"no", "wait", "done"} /\ called # {}
    <3>1. PICK t \in called : TRUE
      BY <2>1
    <3>2. ~Waits(t)
      BY <1>4, <2>1 DEF Waits, OpSemFree
    <3>3. QED BY <3>1, <3>2
  <2>2. CASE halting = "wait" /\ called = {}
    <3>1. ops = 0
      BY <2>2, FS_EmptySet DEF QuietInv, Counted, Inside
    <3>2. unmountSem = 1
      BY <2>2, <3>1 DEF QuietInv, HaltWaits
    <3>3. QED BY <2>2, <3>2 DEF DeinitWaits
  <2>3. CASE halting \in {"again", "table", "files", "unmount"}
    BY <1>4, <2>3 DEF DeinitWaits
  <2>4. QED BY <2>1, <2>2, <2>3 DEF QuietInv, HaltWaits
<1>5. QED
  BY <1>1, <1>2, <1>3, <1>4

\* Whatever programs call and whenever the machine is halted, vfs.c and tfs.c never
\* deadlock: while a call or vfs_deinit is under way, one of them waits for nobody.
THEOREM SomebodyGoesOnAlways == Spec => []SomebodyGoesOn
<1>1. Init => VolumeInv /\ HoldersInv
  BY QuietBoot, TypedInit, NamesInit, SoundInit, HoldersBoot DEF Init, VolumeInv
<1>2. VolumeInv /\ HoldersInv /\ [Next]_vars => HoldersInv'
  BY HoldersStep DEF VolumeInv
<1>3. VolumeInv /\ HoldersInv => SomebodyGoesOn
  BY HoldersGoOn DEF VolumeInv
<1>4. QED
  BY <1>1, <1>2, <1>3, VolumeAlways, PTL DEF Spec

-----------------------------------------------------------------------------
\* Every step of a call takes it nearer to its end.  How far the places are from there...
Phase(p) ==
    CASE p = "idle" -> 0
      [] p = "end" -> 1
      [] p \in {"give_up", "advance", "unlock"} -> 2
      [] p \in {"tfs_opened", "write_zeros", "write_data"} -> 3
      [] p = "write_inode" -> 4
      [] p = "write_dir" -> 5
      [] p = "write_bat" -> 6
      [] p \in {"tfs", "unmount"} -> 7
      [] p = "files" -> 8
      [] OTHER -> 9

\* ... and how many blocks the two loops still have to write after the next one.
LastOfWrite(t) == (files[call[t].handle].seek + call[t].arg - 1) \div BlockSize

Remaining(t) ==
    CASE at[t] = "write_zeros" -> Len(buf.inode.blocks) - call[t].k
      [] at[t] = "write_data" -> LastOfWrite(t) - call[t].k
      [] OTHER -> 0

Nears(t) ==
    \/ Phase(at'[t]) < Phase(at[t])
    \/ at'[t] = at[t] /\ Remaining(t)' < Remaining(t)

Stays(t) == at'[t] = at[t] /\ Remaining(t)' = Remaining(t)

\* A step of a call, a failed disk request included, takes the call nearer to its end, and a
\* step of another thread or of vfs_deinit never throws it back.
EveryStepAdvances ==
    [][\A t \in Threads :
           /\ Remaining(t) \in Nat
           /\ CallStep(t) \/ RequestFails(t) => Nears(t)
           /\ at[t] # "idle" => Nears(t) \/ Stays(t)]_vars

LoopOf(t) ==
    /\ at[t] = "write_zeros" => call[t].k \in 1 .. Len(buf.inode.blocks)
    /\ at[t] = "write_data" => /\ call[t].k \in Nat /\ LastOfWrite(t) \in Nat
                               /\ call[t].k <= LastOfWrite(t)

LoopsInv == \A t \in Threads : LoopOf(t)

LEMMA RemainingIs ==
    ASSUME NEW t \in Threads, TypedInv, LoopOf(t)
    PROVE  Remaining(t) \in Nat
<1>1. CASE at[t] = "write_zeros"
  <2>1. Len(buf.inode.blocks) \in Nat
    BY DEF TypedInv, BufferTyped, Inodes
  <2>2. QED BY <1>1, <2>1 DEF Remaining, LoopOf
<1>2. CASE at[t] = "write_data"
  BY <1>2 DEF Remaining, LoopOf
<1>3. CASE at[t] \notin {"write_zeros", "write_data"}
  BY <1>3 DEF Remaining
<1>4. QED
  BY <1>1, <1>2, <1>3

\* The return from the filesystem.
LEMMA ReturnNears ==
    ASSUME QuietInv, NEW t \in Threads, NEW x, Return(t, x), at[t] \in TfsPlaces
    PROVE  LoopOf(t)' /\ Nears(t)
<1>1. at'[t] \in {"give_up", "advance", "end", "unlock"}
  BY Returned DEF QuietInv, Left
<1>2. Phase(at'[t]) \in {1, 2}
  BY <1>1 DEF Phase
<1>3. Phase(at[t]) \in {3, 4, 5, 6, 7}
  BY DEF Phase, TfsPlaces, WritePlaces
<1>4. QED
  BY <1>1, <1>2, <1>3 DEF LoopOf, Nears

\* A step from one block to the next...
LEMMA ZerosNear ==
    ASSUME QuietInv, TypedInv, NEW t \in Threads, LoopOf(t), WriteZeros(t)
    PROVE  LoopOf(t)' /\ Nears(t)
<1>0. Shapes /\ at[t] \in TfsPlaces /\ at[t] = "write_zeros"
  BY DEF QuietInv, WriteZeros, TfsPlaces, WritePlaces
<1>1. CASE call[t].k = Len(buf.inode.blocks)
  BY <1>0, <1>1, ReturnNears DEF WriteZeros
<1>2. CASE call[t].k # Len(buf.inode.blocks)
  <2> DEFINE k == call[t].k
             n == Len(buf.inode.blocks)
             k1 == k + 1
  <2>1. call' = [call EXCEPT ![t].k = k1] /\ UNCHANGED <<buf, at>>
    BY <1>2 DEF WriteZeros
  <2>2. CallSet(t, call[t].arg, k1)
    <3> HIDE DEF k1
    <3>1. QED BY <1>0, <2>1, CallAssigned
  <2>3. call'[t].k = k1 /\ at'[t] = "write_zeros"
    BY <1>0, <2>1, <2>2 DEF CallSet
  <2>4. n \in Nat /\ k \in 1 .. n /\ k # n
    BY <1>0, <1>2 DEF TypedInv, BufferTyped, Inodes, LoopOf
  <2>5. Len(buf'.inode.blocks) = n
    BY <2>1
  <2>6. Remaining(t) = n - k
    BY <1>0 DEF Remaining
  <2>7. Remaining(t)' = n - k1
    BY <2>3, <2>5 DEF Remaining
  <2>8. LoopOf(t)'
    BY <2>3, <2>4, <2>5 DEF LoopOf
  <2>9. n - k1 < n - k
    BY <2>4
  <2>10. QED BY <1>0, <2>3, <2>6, <2>7, <2>8, <2>9 DEF Nears
<1>3. QED
  BY <1>1, <1>2

LEMMA DataNears ==
    ASSUME QuietInv, TypedInv, NEW t \in Threads, LoopOf(t), UNCHANGED files,
           WriteData(t, files[call[t].handle].seek)
    PROVE  LoopOf(t)' /\ Nears(t)
<1>0. Shapes /\ at[t] \in TfsPlaces /\ at[t] = "write_data"
  BY DEF QuietInv, WriteData, TfsPlaces, WritePlaces
<1>1. CASE call[t].k = LastOfWrite(t)
  <2>1. Return(t, call[t].arg)
    BY <1>1 DEF WriteData, LastOfWrite
  <2>2. QED BY <1>0, <2>1, ReturnNears
<1>2. CASE call[t].k # LastOfWrite(t)
  <2> DEFINE k == call[t].k
             n == LastOfWrite(t)
             k1 == k + 1
  <2>1. call' = [call EXCEPT ![t].k = k1] /\ UNCHANGED <<buf, at>>
    BY <1>2 DEF WriteData, LastOfWrite
  <2>2. CallSet(t, call[t].arg, k1)
    <3> HIDE DEF k1
    <3>1. QED BY <1>0, <2>1, CallAssigned
  <2>3. /\ call'[t].k = k1 /\ at'[t] = "write_data"
        /\ call'[t].arg = call[t].arg /\ call'[t].handle = call[t].handle
    BY <1>0, <2>1, <2>2 DEF CallSet
  <2>4. n \in Nat /\ k \in Nat /\ k <= n /\ k # n
    BY <1>0, <1>2 DEF LoopOf
  <2>5. LastOfWrite(t)' = n
    BY <2>3 DEF LastOfWrite
  <2>6. Remaining(t) = n - k
    BY <1>0 DEF Remaining
  <2>7. Remaining(t)' = n - k1
    BY <2>3, <2>5 DEF Remaining
  <2>8. LoopOf(t)'
    BY <2>3, <2>4, <2>5 DEF LoopOf
  <2>9. n - k1 < n - k
    BY <2>4
  <2>10. QED BY <1>0, <2>3, <2>6, <2>7, <2>8, <2>9 DEF Nears
<1>3. QED
  BY <1>1, <1>2

\* ... and to the first block of all, which is not behind the last.
LEMMA WriteNears ==
    ASSUME QuietInv, TypedInv, NEW t \in Threads, UNCHANGED files,
           TfsWrite(t, files[call[t].handle].fileid, files[call[t].handle].seek)
    PROVE  LoopOf(t)' /\ Nears(t)
<1> DEFINE i == files[call[t].handle].fileid
           p == files[call[t].handle].seek
           n == InFile(AsInode(i), p, call[t].arg)
<1>0. /\ Return(t, -1) \/ Return(t, 0) \/ Writing(t, i, p)
      /\ at[t] = "tfs" /\ call[t].op = "write"
  BY WriteEffect DEF QuietInv
<1>1. CASE Return(t, -1) \/ Return(t, 0)
  BY <1>0, <1>1, ReturnNears DEF TfsPlaces
<1>2. CASE Writing(t, i, p)
  <2>1. n \in Nat /\ n # 0 /\ CallSet(t, n, p \div BlockSize) /\ at'[t] = "write_data"
    BY <1>0, <1>2, InsideFile DEF Writing
  <2>2. p \in Nat
    <3>1. call[t].handle \in Handles
      BY <1>0, UsesEntry DEF TfsPlaces
    <3>2. QED BY <3>1 DEF TypedInv, FilesTyped, FileRows
  <2>3. /\ call'[t].k = p \div BlockSize /\ call'[t].arg = n
        /\ call'[t].handle = call[t].handle
    BY <2>1 DEF CallSet
  <2>4. LastOfWrite(t)' = (p + n - 1) \div BlockSize
    BY <2>3 DEF LastOfWrite
  <2> HIDE DEF i, p, n
  <2> DEFINE q == p + n - 1
  <2>5. q \in Nat /\ p <= q
    BY <2>1, <2>2
  <2>6. p \div BlockSize \in Nat /\ q \div BlockSize \in Nat /\ p \div BlockSize <= q \div BlockSize
    <3> HIDE DEF q
    <3>1. QED BY <2>2, <2>5, DivBounds, DivMono
  <2>7. LoopOf(t)'
    BY <2>1, <2>3, <2>4, <2>6 DEF LoopOf
  <2>8. Phase("write_data") < Phase("tfs")
    BY DEF Phase
  <2>9. QED BY <1>0, <2>1, <2>7, <2>8 DEF Nears
<1>3. QED
  BY <1>0, <1>1, <1>2

LEMMA FsNears ==
    ASSUME QuietInv, TypedInv, LoopsInv, NEW t \in Threads,
           FsStep(t) \/ RemoveFile(t) \/ RequestFails(t)
    PROVE  /\ LoopOf(t)' /\ Nears(t)
           /\ \A u \in Threads \ {t} : LoopOf(u)' /\ Stays(u)
<1>0. Shapes /\ AtWrite(t) /\ fsLock \in Threads \cup {NoThread} /\ LoopOf(t)
  BY DEF QuietInv, TypedInv, BufferTyped, LoopsInv
<1>1. OneMoves(t) /\ KeepsCalls /\ at[t] \in TfsPlaces /\ UNCHANGED files
  BY <1>0, TfsMoves DEF FsStep, RemoveFile, RequestFails, FsMoves, vfsVars
<1>2. fsLock \in {t, NoThread}
  BY <1>0 DEF FsStep, RemoveFile, RequestFails, TfsOpen, TfsCreateRefused, TfsCreate, TfsRemove,
              TfsRead, TfsWrite, TfsGetFree, WriteBat, WriteDir, WriteInode, WriteZeros,
              WriteData, DiskError, Enters, AtWrite, WritePlaces
<1>3. \A u \in Threads \ {t} : LoopOf(u)' /\ Stays(u)
  <2>1. \A u \in Threads \ {t} : at'[u] = at[u] /\ at[u] \notin WritePlaces
    BY <1>1, <1>2, OthersOut DEF OneMoves
  <2>2. QED BY <2>1 DEF LoopOf, Stays, Remaining, WritePlaces
<1>4. ASSUME NEW x, Return(t, x) PROVE LoopOf(t)' /\ Nears(t)
  BY <1>1, <1>4, ReturnNears
<1>5. ASSUME at'[t] \notin {"write_zeros", "write_data"}, Phase(at'[t]) < Phase(at[t])
      PROVE  LoopOf(t)' /\ Nears(t)
  BY <1>5 DEF LoopOf, Nears
<1>m. \A p : MoveTo(t, p) => at'[t] = p
  BY <1>0, Moved
<1>6. LoopOf(t)' /\ Nears(t)
  <2>1. CASE TfsOpen(t)
    <3>1. (\E x : Return(t, x)) \/ (at[t] = "tfs" /\ at'[t] = "tfs_opened")
      BY <1>m, <2>1 DEF TfsOpen, Enters
    <3>2. Phase("tfs_opened") < Phase("tfs")
      BY DEF Phase
    <3>3. QED BY <1>4, <1>5, <3>1, <3>2
  <2>2. CASE TfsCreate(t) \/ TfsRemove(t)
    <3>1. (\E x : Return(t, x)) \/ (at[t] = "tfs" /\ at'[t] = "write_bat")
      BY <1>m, <2>2 DEF TfsCreate, TfsRemove, Enters
    <3>2. Phase("write_bat") < Phase("tfs")
      BY DEF Phase
    <3>3. QED BY <1>4, <1>5, <3>1, <3>2
  <2>3. CASE TfsCreateRefused(t) \/ TfsGetFree(t) \/ DiskError(t)
    BY <1>4, <2>3 DEF TfsCreateRefused, TfsGetFree, DiskError
  <2>4. ASSUME NEW i, NEW n, TfsRead(t, i, n) PROVE LoopOf(t)' /\ Nears(t)
    BY <1>4, <2>4 DEF TfsRead
  <2>5. CASE WriteBat(t)
    <3>1. at[t] = "write_bat" /\ at'[t] = "write_dir"
      BY <1>m, <2>5 DEF WriteBat
    <3>2. Phase("write_dir") < Phase("write_bat")
      BY DEF Phase
    <3>3. QED BY <1>5, <3>1, <3>2
  <2>6. CASE WriteDir(t)
    <3>1. (\E x : Return(t, x)) \/ (at[t] = "write_dir" /\ at'[t] = "write_inode")
      BY <1>m, <2>6 DEF WriteDir
    <3>2. Phase("write_inode") < Phase("write_dir")
      BY DEF Phase
    <3>3. QED BY <1>4, <1>5, <3>1, <3>2
  <2>7. CASE WriteInode(t)
    <3>1. CASE buf.inode.blocks = <<>>
      BY <1>4, <2>7, <3>1 DEF WriteInode
    <3>2. CASE buf.inode.blocks # <<>>
      <4>1. /\ at[t] = "write_inode" /\ at'[t] = "write_zeros" /\ buf' = buf
            /\ call' = [call EXCEPT ![t].k = 1]
        BY <1>m, <2>7, <3>2 DEF WriteInode
      <4>2. call'[t].k = 1
        <5>1. CallSet(t, call[t].arg, 1)
          BY <1>0, <4>1, CallAssigned
        <5>2. QED BY <5>1 DEF CallSet
      <4>3. Len(buf.inode.blocks) \in Nat \ {0}
        BY <3>2 DEF TypedInv, BufferTyped, Inodes
      <4>4. Phase("write_zeros") < Phase("write_inode")
        BY DEF Phase
      <4>5. QED BY <4>1, <4>2, <4>3, <4>4 DEF LoopOf, Nears
    <3>3. QED BY <3>1, <3>2
  <2>8. QED
    BY <1>0, <1>1, <2>1, <2>2, <2>3, <2>4, <2>5, <2>6, <2>7, ZerosNear, DataNears, WriteNears
       DEF FsStep, RemoveFile, RequestFails
<1>7. QED
  BY <1>3, <1>6

\* The steps outside the filesystem, and what they leave of the other threads.
LEMMA OutsideNears ==
    ASSUME QuietInv, NEW t \in Threads,
           \/ EndOp(t) \/ Mount(t) \/ LockTable(t) \/ UnmountCheck(t)
           \/ UnmountFs(t) \/ ClaimFile(t) \/ OpenReturn(t) \/ CloseFile(t) \/ MoveSeek(t)
           \/ UnlockTable(t)
    PROVE  Nears(t)
<1>m. \A p : MoveTo(t, p) => at'[t] = p
  BY Moved DEF QuietInv
<1>1. \/ at[t] = "end" /\ at'[t] = "idle"
      \/ at[t] = "table" /\ at'[t] \in {"end", "files", "tfs"}
      \/ at[t] = "files" /\ at'[t] \in {"end", "unmount", "tfs"}
      \/ at[t] = "tfs_opened" /\ at'[t] \in {"end", "give_up"}
      \/ at[t] \in {"unmount", "give_up", "advance", "unlock"} /\ at'[t] = "end"
  <2>1. CASE EndOp(t) \/ Mount(t) \/ UnmountFs(t) \/ UnlockTable(t) \/ MoveSeek(t)
    BY <1>m, <2>1 DEF EndOp, Mount, UnmountFs, UnlockTable, MoveSeek, TableOp
  <2>2. CASE LockTable(t)
    BY <1>m, <2>2 DEF LockTable
  <2>3. CASE UnmountCheck(t)
    BY <1>m, <2>3 DEF UnmountCheck, FilesOp
  <2>4. CASE ClaimFile(t)
    BY <1>m, <2>4 DEF ClaimFile, FilesOp
  <2>5. CASE OpenReturn(t) \/ CloseFile(t)
    BY <1>m, <2>5 DEF OpenReturn, CloseFile
  <2>6. QED BY <2>1, <2>2, <2>3, <2>4, <2>5
<1>2. Phase(at'[t]) < Phase(at[t])
  BY <1>1 DEF Phase
<1>3. QED
  BY <1>2 DEF Nears

LEMMA OutsideLoops ==
    ASSUME LoopsInv, NEW t \in Threads, OutsideMove(t),
           \A u \in Threads \ {t} : at[u] = "write_data" =>
               files'[call[u].handle] = files[call[u].handle]
    PROVE  LoopOf(t)' /\ \A u \in Threads \ {t} : LoopOf(u)' /\ Stays(u)
<1>1. /\ UNCHANGED buf /\ at'[t] \notin WritePlaces
      /\ \A u \in Threads \ {t} : at'[u] = at[u] /\ call'[u] = call[u]
  BY DEF OutsideMove, KeepTfs, OneMoves
<1>2. LoopOf(t)'
  BY <1>1 DEF LoopOf, WritePlaces
<1>3. ASSUME NEW u \in Threads \ {t} PROVE LoopOf(u)' /\ Stays(u)
  <2>1. at'[u] = at[u] /\ call'[u] = call[u] /\ LoopOf(u)
    BY <1>1 DEF LoopsInv
  <2>2. at[u] = "write_data" => LastOfWrite(u)' = LastOfWrite(u)
    BY <2>1 DEF LastOfWrite
  <2>3. LoopOf(u)'
    BY <1>1, <2>1, <2>2 DEF LoopOf
  <2>4. Remaining(u)' = Remaining(u)
    BY <1>1, <2>1, <2>2 DEF Remaining
  <2>5. QED BY <2>1, <2>3, <2>4 DEF Stays
<1>4. QED
  BY <1>2, <1>3

LEMMA NearsStep ==
    ASSUME QuietInv, TypedInv, LoopsInv, [Next]_vars
    PROVE  /\ LoopsInv'
           /\ \A t \in Threads : /\ CallStep(t) \/ RequestFails(t) => Nears(t)
                                 /\ at[t] # "idle" => Nears(t) \/ Stays(t)
<1>1. ASSUME UNCHANGED <<tfsVars, files>>
      PROVE  LoopsInv' /\ \A t \in Threads : Stays(t)
  <2>1. UNCHANGED <<at, call, buf, files>>
    BY <1>1 DEF tfsVars
  <2>2. \A t \in Threads : LastOfWrite(t)' = LastOfWrite(t)
    BY <2>1 DEF LastOfWrite
  <2>3. QED BY <2>1, <2>2 DEF LoopsInv, LoopOf, Stays, Remaining
<1>2. ASSUME NEW t \in Threads, FsStep(t) \/ RemoveFile(t) \/ RequestFails(t)
      PROVE  LoopsInv' /\ Nears(t) /\ \A u \in Threads \ {t} : Stays(u)
  BY <1>2, FsNears DEF LoopsInv
<1>3. ASSUME NEW t \in Threads,
             \/ StartOp(t) \/ EndOp(t) \/ Mount(t) \/ LockTable(t) \/ UnmountCheck(t)
             \/ UnmountFs(t) \/ ClaimFile(t) \/ OpenReturn(t) \/ CloseFile(t) \/ MoveSeek(t)
             \/ UnlockTable(t)
      PROVE  /\ LoopsInv' /\ \A u \in Threads \ {t} : Stays(u)
             /\ StartOp(t) \/ Nears(t)
  <2>1. LoopOf(t)' /\ \A u \in Threads \ {t} : LoopOf(u)' /\ Stays(u)
    BY <1>3, OutsideSteps, OutsideLoops
  <2>2. StartOp(t) \/ Nears(t)
    BY <1>3, OutsideNears
  <2>3. QED BY <2>1, <2>2 DEF LoopsInv
<1>4. ASSUME NEW t \in Threads, CallStep(t) \/ RequestFails(t) PROVE Nears(t)
  <2>1. CASE FsStep(t) \/ RemoveFile(t) \/ RequestFails(t)
    BY <1>2, <2>1
  <2>2. CASE ~(FsStep(t) \/ RemoveFile(t) \/ RequestFails(t))
    BY <1>4, <2>2, OutsideNears DEF CallStep
  <2>3. QED BY <2>1, <2>2
<1>5. ASSUME NEW t \in Threads, Step(t)
      PROVE  LoopsInv' /\ \A u \in Threads : at[u] # "idle" => Nears(u) \/ Stays(u)
  <2>1. CASE StartRefused(t)
    BY <1>1, <2>1 DEF StartRefused, vfsVars
  <2>2. CASE FsStep(t) \/ RemoveFile(t) \/ RequestFails(t)
    BY <1>2, <2>2
  <2>3. CASE ~(StartRefused(t) \/ FsStep(t) \/ RemoveFile(t) \/ RequestFails(t))
    <3>1. /\ LoopsInv' /\ \A u \in Threads \ {t} : Stays(u)
          /\ StartOp(t) \/ Nears(t)
      BY <1>3, <1>5, <2>3 DEF Step, CallStep
    <3>2. StartOp(t) => at[t] = "idle"
      BY DEF StartOp
    <3>3. QED BY <3>1, <3>2
  <2>4. QED BY <2>1, <2>2, <2>3
<1>6. CASE DeinitStep
  <2>1. UNCHANGED <<tfsVars, files>>
    BY <1>6 DEF DeinitStep, Deinit, DeinitWoken, DeinitAgain, DeinitTables
  <2>2. QED BY <1>1, <1>4, <2>1
<1>7. CASE UNCHANGED vars
  <2>1. UNCHANGED <<tfsVars, files>>
    BY <1>7 DEF vars, vfsVars
  <2>2. QED BY <1>1, <1>4, <2>1
<1>8. CASE PowerFailure
  <2>1. \A t \in Threads : at'[t] = "idle"
    BY <1>8 DEF PowerFailure, Booted
  <2>2. LoopsInv'
    BY <2>1 DEF LoopsInv, LoopOf
  <2>3. \A t \in Threads : at[t] # "idle" => Nears(t)
    <3>1. \A p : p # "idle" => Phase(p) > Phase("idle")
      BY DEF Phase
    <3>2. QED BY <2>1, <3>1 DEF Nears
  <2>4. QED BY <1>4, <2>2, <2>3
<1>9. QED
  BY <1>4, <1>5, <1>6, <1>7, <1>8 DEF Next

\* A step of a call takes it nearer to its end, whatever the sizes of blocks and files, and
\* a step of anybody else never throws it back.  No call of vfs.c runs for ever then: the
\* loops of tfs_create and tfs_write end, and no operation is tried again.
THEOREM EveryStepAdvancesAlways == Spec => EveryStepAdvances
<1>1. Init => VolumeInv /\ LoopsInv
  <2>1. Init => LoopsInv
    BY DEF Init, Booted, LoopsInv, LoopOf
  <2>2. QED
    BY <2>1, QuietBoot, TypedInit, NamesInit, SoundInit DEF Init, VolumeInv
<1>2. VolumeInv /\ LoopsInv /\ [Next]_vars => LoopsInv'
  BY NearsStep DEF VolumeInv
<1>3. VolumeInv /\ LoopsInv /\ [Next]_vars =>
          [\A t \in Threads :
               /\ Remaining(t) \in Nat
               /\ CallStep(t) \/ RequestFails(t) => Nears(t)
               /\ at[t] # "idle" => Nears(t) \/ Stays(t)]_vars
  BY NearsStep, RemainingIs DEF VolumeInv, LoopsInv
<1>4. QED
  BY <1>1, <1>2, <1>3, VolumeAlways, PTL DEF Spec, EveryStepAdvances
=============================================================================
