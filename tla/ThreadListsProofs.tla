-------------------------- MODULE ThreadListsProofs --------------------------
(***************************************************************************)
(* Proofs about module ThreadLists: the linked lists represent the         *)
(* sequences of module Scheduler, for any number of processors, threads,   *)
(* resources and buckets, whatever the lists share.                        *)
(***************************************************************************)
EXTENDS ThreadLists, SchedulerProofs, FiniteSetTheorems

-----------------------------------------------------------------------------
\* A linked list without the walk along it: where it begins, and what follows each of
\* its elements.
Links == Tids \cup {None}
Nth(s, i) == IF i \in 1 .. Len(s) THEN s[i] ELSE None
Linked(nx, first, s) ==
    /\ first = Nth(s, 1)
    /\ \A i \in 1 .. Len(s) : nx[s[i]] = Nth(s, i + 1)

\* The ready list, which also knows its end.
Represents(l, s) ==
    /\ l.next \in [Tids -> Links]
    /\ Linked(l.next, l.head, s)
    /\ l.tail = Nth(s, Len(s))

\* A sequence without duplicates is not longer than what it is taken from.
LEMMA ShortLists ==
    ASSUME NEW s \in Seq(Tids), NoDuplicates(s)
    PROVE  Len(s) <= MaxThreads
<1>1. Len(s) \in Nat /\ MaxThreads \in Nat \ {0} /\ s \in [1 .. Len(s) -> Tids]
  BY SchedulerAssumption
<1> SUFFICES ASSUME Len(s) > MaxThreads PROVE FALSE
  BY <1>1
<1>2. /\ IsFiniteSet(1 .. Len(s)) /\ Cardinality(1 .. Len(s)) = Len(s)
      /\ IsFiniteSet(Tids) /\ Cardinality(Tids) = MaxThreads
  <2>1. IsFiniteSet(1 .. Len(s)) /\ Cardinality(1 .. Len(s)) = Len(s)
    BY <1>1, FS_Interval
  <2>2. IsFiniteSet(Tids)
    BY <1>1, FS_Interval DEF Tids
  <2>3. Cardinality(0 .. MaxThreads - 1) = (MaxThreads - 1) - 0 + 1
    BY <1>1, FS_Interval
  <2>4. QED BY <1>1, <2>1, <2>2, <2>3 DEF Tids
<1>3. \E i, j \in 1 .. Len(s) : i # j /\ s[i] = s[j]
  BY <1>1, <1>2, FS_PigeonHole
<1>4. QED
  BY <1>1, <1>3 DEF NoDuplicates

\* Walking along a list that is linked gives its sequence.
LEMMA ReachedIsList ==
    ASSUME next \in [Tids -> Links], NEW s \in Seq(Tids \ {Idle}), NoDuplicates(s),
           NEW first, Linked(next, first, s)
    PROVE  Reached(first) = s
<1> DEFINE N == MaxThreads
           L == Len(s)
           body(f) == [k \in 0 .. N |->
                          IF k = 0 THEN first
                          ELSE IF f[k - 1] <= 0 THEN None ELSE next[f[k - 1]]]
           walk == CHOOSE f : f = body(f)
           wanted == [k \in 0 .. N |-> Nth(s, k + 1)]
           ends(k) == /\ walk[k] <= 0 \/ k = N
                      /\ \A j \in 0 .. k - 1 : walk[j] > 0
           n == CHOOSE k \in 0 .. N : ends(k)
<1>1. L \in Nat /\ N \in Nat \ {0} /\ L <= N /\ None = -1 /\ s \in Seq(Tids)
  <2>1. s \in Seq(Tids)
    OBVIOUS
  <2>2. QED BY <2>1, ShortLists, SchedulerAssumption DEF None
<1>2. \A i \in 1 .. L : s[i] \in Tids /\ s[i] \in Nat \ {0}
  BY SchedulerAssumption DEF Tids, Idle
<1>3. first = Nth(s, 1) /\ \A i \in 1 .. L : next[s[i]] = Nth(s, i + 1)
  BY DEF Linked
<1>4. wanted = body(wanted)
  <2>1. ASSUME NEW k \in 0 .. N PROVE wanted[k] = body(wanted)[k]
    <3>1. CASE k = 0
      BY <1>1, <1>3, <3>1
    <3>2. CASE k \in 1 .. L
      <4>1. wanted[k - 1] = s[k] /\ s[k] > 0
        BY <1>1, <1>2, <3>2 DEF Nth
      <4>2. k \in 0 .. N /\ k # 0 /\ ~(s[k] <= 0) /\ next[s[k]] = Nth(s, k + 1)
        BY <1>1, <1>2, <1>3, <3>2
      <4>3. body(wanted)[k] = next[s[k]]
        <5> HIDE DEF wanted
        <5>1. QED BY <4>1, <4>2
      <4>4. QED BY <4>2, <4>3
    <3>3. CASE k > L /\ k # 0
      <4>1. wanted[k - 1] = None /\ wanted[k] = None
        <5>1. k - 1 \in 0 .. N
          BY <1>1, <3>3
        <5>2. Nth(s, k + 1) = None
          BY <1>1, <3>3 DEF Nth
        <5>3. Nth(s, (k - 1) + 1) = None
          BY <1>1, <3>3 DEF Nth
        <5>4. QED BY <5>1, <5>2, <5>3
      <4>2. QED BY <1>1, <3>3, <4>1
    <3>4. QED BY <1>1, <3>1, <3>2, <3>3
  <2>2. QED BY <2>1
<1>5. walk = body(walk)
  <2> HIDE DEF body, wanted
  <2>1. QED BY <1>4
<1>6. \A k \in 0 .. N : walk[k] = Nth(s, k + 1)
  <2> DEFINE U == {k \in 0 .. N : walk[k] = wanted[k]}
  <2>1. \A f : \A k \in 0 .. N : body(f)[k] =
            IF k = 0 THEN first ELSE IF f[k - 1] <= 0 THEN None ELSE next[f[k - 1]]
    OBVIOUS
  <2> HIDE DEF body, walk
  <2>2. /\ walk[0] = first
        /\ \A k \in 0 .. N - 1 :
               walk[k + 1] = IF walk[k] <= 0 THEN None ELSE next[walk[k]]
    <3>1. walk[0] = first
      BY <1>1, <1>5, <2>1
    <3>2. ASSUME NEW k \in 0 .. N - 1
          PROVE  walk[k + 1] = IF walk[k] <= 0 THEN None ELSE next[walk[k]]
      <4>1. k + 1 \in 0 .. N /\ k + 1 # 0 /\ (k + 1) - 1 = k
        BY <1>1
      <4>2. QED BY <1>5, <2>1, <4>1
    <3>3. QED BY <3>1, <3>2
  <2>3. /\ wanted[0] = first
        /\ \A k \in 0 .. N - 1 :
               wanted[k + 1] = IF wanted[k] <= 0 THEN None ELSE next[wanted[k]]
    <3> HIDE DEF wanted
    <3>1. wanted[0] = first
      BY <1>1, <1>4, <2>1
    <3>2. ASSUME NEW k \in 0 .. N - 1
          PROVE  wanted[k + 1] = IF wanted[k] <= 0 THEN None ELSE next[wanted[k]]
      <4>1. k + 1 \in 0 .. N /\ k + 1 # 0 /\ (k + 1) - 1 = k
        BY <1>1
      <4>2. QED BY <1>4, <2>1, <4>1
    <3>3. QED BY <3>1, <3>2
  <2> HIDE DEF wanted
  <2>4. 0 \in U /\ \A k \in 0 .. N - 1 : k \in U => k + 1 \in U
    BY <1>1, <2>2, <2>3
  <2>5. \A k \in 0 .. N : k \in U
    <3> HIDE DEF U
    <3>1. QED BY <1>1, <2>4, SetInduction
  <2>6. QED BY <2>5 DEF wanted
<1> HIDE DEF walk
<1>7. ends(L)
  <2>1. walk[L] = None
    BY <1>1, <1>6 DEF Nth
  <2>2. ASSUME NEW j \in 0 .. L - 1 PROVE walk[j] > 0
    <3>1. j \in 0 .. N /\ j + 1 \in 1 .. L
      BY <1>1
    <3>2. walk[j] = s[j + 1]
      BY <1>6, <3>1 DEF Nth
    <3>3. QED BY <1>2, <3>1, <3>2
  <2>3. QED BY <1>1, <2>1, <2>2
<1>8. \A k \in 0 .. N : ends(k) => k = L
  <2> SUFFICES ASSUME NEW k \in 0 .. N, ends(k), k # L PROVE FALSE
    OBVIOUS
  <2>1. CASE k < L
    <3> HIDE DEF ends
    <3>1. k + 1 \in 1 .. L /\ k # N
      BY <1>1, <2>1
    <3>2. walk[k] = s[k + 1]
      BY <1>6, <3>1 DEF Nth
    <3>3. s[k + 1] \in Nat \ {0}
      BY <1>2, <3>1
    <3>4. walk[k] > 0 /\ walk[k] \in Int
      BY <3>2, <3>3
    <3>5. ends(k) /\ k # N
      BY <3>1
    <3>6. QED BY <3>4, <3>5 DEF ends
  <2>2. CASE k > L
    <3>1. walk[L] = None /\ walk[L] > 0
      BY <1>1, <1>6, <2>2 DEF Nth
    <3>2. QED BY <1>1, <3>1
  <2>3. QED BY <1>1, <2>1, <2>2
<1>9. n = L
  <2> HIDE DEF ends
  <2>1. L \in 0 .. N
    BY <1>1
  <2>2. QED BY <1>7, <1>8, <2>1
<1>10. Reached(first) = [i \in 1 .. n |-> walk[i - 1]]
  BY DEF Reached, walk
<1> HIDE DEF n
<1>11. [i \in 1 .. L |-> walk[i - 1]] = [i \in 1 .. L |-> s[i]]
  BY <1>1, <1>6 DEF Nth
<1>12. s = [i \in 1 .. L |-> s[i]]
  BY <1>1
<1>13. QED
  BY <1>9, <1>10, <1>11, <1>12

-----------------------------------------------------------------------------
\* The lemmas about one list.  Links of threads outside it do not matter.
LEMMA LinkedFrame ==
    ASSUME NEW s \in Seq(Tids), NEW nx, NEW mx, NEW first, Linked(nx, first, s),
           \A u \in Elements(s) : mx[u] = nx[u]
    PROVE  Linked(mx, first, s)
<1>1. \A i \in 1 .. Len(s) : s[i] \in Elements(s)
  BY DEF Elements
<1>2. QED
  BY <1>1 DEF Linked

\* A thread at the end, the last one pointing to it.
LEMMA LinkedAppend ==
    ASSUME NEW s \in Seq(Tids), NEW t \in Tids, NoDuplicates(s), t \notin Elements(s),
           NEW nx, NEW mx, NEW first, Linked(nx, first, s),
           mx[t] = None,
           s # <<>> => mx[s[Len(s)]] = t,
           \A u \in Elements(s) : u # s[Len(s)] => mx[u] = nx[u]
    PROVE  Linked(mx, IF s = <<>> THEN t ELSE first, Append(s, t))
<1> DEFINE q == Append(s, t)
           L == Len(s)
<1>1. /\ L \in Nat /\ Len(q) = L + 1 /\ q[L + 1] = t
      /\ \A i \in 1 .. L : q[i] = s[i]
      /\ s = <<>> <=> L = 0
  OBVIOUS
<1>2. first = Nth(s, 1) /\ \A i \in 1 .. L : nx[s[i]] = Nth(s, i + 1)
  BY DEF Linked
<1>3. /\ \A i \in 1 .. L : s[i] \in Elements(s)
      /\ \A i \in 1 .. L - 1 : s[i] # s[L]
  <2>1. L > 0 => L \in DOMAIN s
    BY <1>1
  <2>2. QED
    BY <1>1, <2>1 DEF Elements, NoDuplicates
<1> HIDE DEF q, L
<1>4. \A i \in 1 .. L - 1 : mx[q[i]] = Nth(q, i + 1)
  <2> SUFFICES ASSUME NEW i \in 1 .. L - 1 PROVE mx[q[i]] = Nth(q, i + 1)
    OBVIOUS
  <2>1. i \in 1 .. L /\ i + 1 \in 1 .. L /\ i + 1 \in 1 .. Len(q) /\ L = Len(s)
    BY <1>1 DEF L
  <2>2. mx[s[i]] = nx[s[i]] /\ nx[s[i]] = s[i + 1]
    BY <1>2, <1>3, <2>1 DEF Nth, L
  <2>3. QED BY <1>1, <2>1, <2>2 DEF Nth
<1>5. L > 0 => mx[q[L]] = Nth(q, L + 1)
  <2>1. L > 0 => mx[s[L]] = t
    BY <1>1 DEF L
  <2>2. QED BY <1>1, <2>1 DEF Nth
<1>6. mx[q[L + 1]] = Nth(q, (L + 1) + 1)
  BY <1>1 DEF Nth
<1>7. \A i \in 1 .. Len(q) : mx[q[i]] = Nth(q, i + 1)
  <2>1. \A i \in 1 .. Len(q) : i \in 1 .. L - 1 \/ (i = L /\ L > 0) \/ i = L + 1
    BY <1>1
  <2>2. QED BY <1>4, <1>5, <1>6, <2>1
<1>8. (IF s = <<>> THEN t ELSE first) = Nth(q, 1)
  BY <1>1, <1>2 DEF Nth, L
<1>9. QED
  BY <1>7, <1>8 DEF Linked, q

\* Without its first thread the list begins at that thread's link.
LEMMA LinkedTail ==
    ASSUME NEW s \in Seq(Tids), s # <<>>, NEW nx, NEW first, Linked(nx, first, s)
    PROVE  first = Head(s) /\ Linked(nx, nx[first], Tail(s))
<1>1. /\ Len(s) \in Nat \ {0} /\ Len(Tail(s)) = Len(s) - 1 /\ Head(s) = s[1]
      /\ \A i \in 1 .. Len(s) - 1 : Tail(s)[i] = s[i + 1]
  OBVIOUS
<1>2. first = s[1] /\ \A i \in 1 .. Len(s) : nx[s[i]] = Nth(s, i + 1)
  BY <1>1 DEF Linked, Nth
<1>3. ASSUME NEW i \in Nat PROVE Nth(Tail(s), i) = IF i = 0 THEN None ELSE Nth(s, i + 1)
  BY <1>1 DEF Nth
<1>4. nx[first] = Nth(Tail(s), 1)
  <2>1. nx[first] = Nth(s, 1 + 1)
    BY <1>1, <1>2
  <2>2. QED BY <1>3, <2>1
<1>5. ASSUME NEW i \in 1 .. Len(Tail(s)) PROVE nx[Tail(s)[i]] = Nth(Tail(s), i + 1)
  <2>1. i + 1 \in 1 .. Len(s) /\ i + 1 \in Nat /\ i + 1 # 0
    BY <1>1
  <2>2. nx[s[i + 1]] = Nth(s, (i + 1) + 1)
    BY <1>2, <2>1
  <2>3. QED BY <1>1, <1>3, <2>1, <2>2
<1>6. QED
  BY <1>1, <1>2, <1>4, <1>5 DEF Linked

\* A thread is unlinked by pointing its predecessor, or the list's beginning, to its
\* successor.
LEMMA LinkedRemove ==
    ASSUME NEW s \in Seq(Tids), NEW i \in DOMAIN s, NoDuplicates(s),
           NEW nx, NEW mx, NEW first, Linked(nx, first, s),
           i > 1 => mx[s[i - 1]] = nx[s[i]],
           \A u \in Elements(s) : (i > 1 => u # s[i - 1]) => mx[u] = nx[u]
    PROVE  Linked(mx, IF i = 1 THEN nx[s[i]] ELSE first, RemoveIndex(s, i))
<1> DEFINE q == RemoveIndex(s, i)
           L == Len(s)
<1>1. /\ L \in Nat \ {0} /\ i \in 1 .. L /\ DOMAIN s = 1 .. L
      /\ q = [j \in 1 .. L - 1 |-> IF j < i THEN s[j] ELSE s[j + 1]]
  BY DEF RemoveIndex
<1>2. q \in Seq(Tids) /\ Len(q) = L - 1
  <2>1. q \in Seq(Tids)
    BY RemoveIndexSeq
  <2>2. L - 1 \in Nat /\ DOMAIN q = 1 .. L - 1 /\ DOMAIN q = 1 .. Len(q) /\ Len(q) \in Nat
    BY <1>1, <2>1
  <2> DEFINE M == Len(q)
             K == L - 1
  <2>3. M \in Nat /\ K \in Nat /\ 1 .. M = 1 .. K
    BY <2>2
  <2> HIDE DEF M, K
  <2>4. (M > 0 => M \in 1 .. K) /\ (K > 0 => K \in 1 .. M)
    BY <2>3
  <2>5. M = K
    BY <2>3, <2>4
  <2>6. QED BY <2>1, <2>5 DEF M, K
<1>3. \A j \in 1 .. L - 1 : q[j] = IF j < i THEN s[j] ELSE s[j + 1]
  BY <1>1
<1>4. first = Nth(s, 1) /\ \A j \in 1 .. L : nx[s[j]] = Nth(s, j + 1)
  BY DEF Linked
<1>5. \A j, k \in 1 .. L : s[j] = s[k] => j = k
  BY <1>1 DEF NoDuplicates
<1>6. \A j \in 1 .. L : s[j] \in Elements(s)
  BY <1>1 DEF Elements
<1>7. L = Len(s)
  OBVIOUS
<1> HIDE DEF q, L
<1>8. \A j \in 1 .. L : Nth(q, j) = IF j < i THEN Nth(s, j) ELSE Nth(s, j + 1)
  <2> SUFFICES ASSUME NEW j \in 1 .. L
               PROVE  Nth(q, j) = IF j < i THEN Nth(s, j) ELSE Nth(s, j + 1)
    OBVIOUS
  <2>1. CASE j = L
    BY <1>1, <1>2, <1>7, <2>1 DEF Nth
  <2>2. CASE j \in 1 .. L - 1
    <3>1. Nth(q, j) = q[j]
      BY <1>1, <1>2, <2>2 DEF Nth
    <3>2. Nth(s, j) = s[j] /\ Nth(s, j + 1) = s[j + 1]
      BY <1>1, <1>7, <2>2 DEF Nth
    <3>3. QED BY <1>3, <2>2, <3>1, <3>2
  <2>3. QED BY <1>1, <2>1, <2>2
<1>9. (IF i = 1 THEN nx[s[i]] ELSE first) = Nth(q, 1)
  <2>1. Nth(q, 1) = IF 1 < i THEN Nth(s, 1) ELSE Nth(s, 1 + 1)
    BY <1>1, <1>8
  <2>2. CASE i = 1
    BY <1>1, <1>4, <2>1, <2>2
  <2>3. CASE i > 1
    BY <1>1, <1>4, <2>1, <2>3
  <2>4. QED BY <1>1, <2>2, <2>3
<1>10. ASSUME NEW j \in 1 .. Len(q) PROVE mx[q[j]] = Nth(q, j + 1)
  <2>1. /\ j \in 1 .. L - 1 /\ j \in 1 .. L /\ j + 1 \in 1 .. L
        /\ Nth(q, j + 1) = IF j + 1 < i THEN Nth(s, j + 1) ELSE Nth(s, (j + 1) + 1)
    BY <1>1, <1>2, <1>8
  <2>2. CASE j + 1 < i
    <3>1. q[j] = s[j] /\ s[j] # s[i - 1] /\ s[j] \in Elements(s)
      <4>1. i - 1 \in 1 .. L /\ j # i - 1 /\ j < i
        BY <1>1, <2>1, <2>2
      <4>2. QED BY <1>3, <1>5, <1>6, <2>1, <4>1
    <3>2. mx[s[j]] = nx[s[j]]
      BY <3>1
    <3>3. QED BY <1>4, <2>1, <2>2, <3>1, <3>2
  <2>3. CASE j + 1 = i
    <3>1. q[j] = s[i - 1] /\ i > 1
      BY <1>1, <1>3, <2>1, <2>3
    <3>2. mx[s[i - 1]] = nx[s[i]]
      BY <3>1
    <3>3. nx[s[i]] = Nth(s, (j + 1) + 1)
      BY <1>1, <1>4, <2>3
    <3>4. QED BY <1>1, <2>1, <2>3, <3>1, <3>2, <3>3
  <2>4. CASE j + 1 > i
    <3>1. q[j] = s[j + 1] /\ s[j + 1] \in Elements(s) /\ (i > 1 => s[j + 1] # s[i - 1])
      <4>1. /\ ~(j < i) /\ i > 1 => i - 1 \in 1 .. L /\ i - 1 # j + 1
        BY <1>1, <2>1, <2>4
      <4>2. ~(j < i)
        BY <1>1, <2>1, <2>4
      <4>3. QED BY <1>3, <1>5, <1>6, <2>1, <4>1, <4>2
    <3>2. mx[s[j + 1]] = nx[s[j + 1]]
      BY <3>1
    <3>3. nx[s[j + 1]] = Nth(s, (j + 1) + 1) /\ ~(j + 1 < i)
      BY <1>1, <1>4, <2>1, <2>4
    <3>4. QED BY <2>1, <3>1, <3>2, <3>3
  <2>5. QED BY <1>1, <2>1, <2>2, <2>3, <2>4
<1>11. QED
  BY <1>9, <1>10 DEF Linked, q

-----------------------------------------------------------------------------
\* The ready list, whose operations take the record of its links.  A list that has no
\* duplicates ends where its sequence does.
LEMMA EmptyList ==
    ASSUME NEW s \in Seq(Tids)
    PROVE  /\ Nth(s, Len(s)) < 0 <=> s = <<>>
           /\ Nth(s, 1) < 0 <=> s = <<>>
           /\ s # <<>> => Nth(s, Len(s)) = s[Len(s)] /\ s[Len(s)] \in Tids
<1>1. Len(s) \in Nat /\ (s = <<>> <=> Len(s) = 0) /\ \A i \in 1 .. Len(s) : s[i] \in Tids
  OBVIOUS
<1>2. \A u \in Tids : u \in Nat
  BY SchedulerAssumption DEF Tids
<1>3. QED
  BY <1>1, <1>2 DEF Nth, None

\* What the updates of the record give.
LEMMA NextTailUpdate ==
    ASSUME NEW a, NEW b, NEW c, NEW x, NEW y, NEW r,
           r = [[next |-> a, head |-> b, tail |-> c] EXCEPT !.next = x, !.tail = y]
    PROVE  r = [next |-> x, head |-> b, tail |-> y]
OBVIOUS

LEMMA TailHeadUpdate ==
    ASSUME NEW a, NEW b, NEW c, NEW x, NEW y, NEW r,
           r = [[next |-> a, head |-> b, tail |-> c] EXCEPT !.tail = y, !.head = x]
    PROVE  r = [next |-> a, head |-> x, tail |-> y]
OBVIOUS

LEMMA NextUpdate ==
    ASSUME NEW a, NEW b, NEW c, NEW x
    PROVE  [[next |-> a, head |-> b, tail |-> c] EXCEPT !.next = x]
               = [next |-> x, head |-> b, tail |-> c]
OBVIOUS

\* scheduler_add_to_ready_list appends a thread that is not in the list and clears
\* its link; of the other links it changes at most the last thread's.
LEMMA AddRepresents ==
    ASSUME NEW nx, NEW h, NEW e, NEW l, l = [next |-> nx, head |-> h, tail |-> e],
           NEW s \in Seq(Tids), NEW t \in Tids,
           Represents(l, s), NoDuplicates(s), t \notin Elements(s),
           NEW m, m = AddToReadyList(l, t)
    PROVE  /\ m = [next |-> m.next, head |-> m.head, tail |-> m.tail]
           /\ Represents(m, Append(s, t))
           /\ \A u \in Tids \ (Elements(s) \cup {t}) : m.next[u] = nx[u]
<1> DEFINE q == Append(s, t)
<1>1. /\ nx \in [Tids -> Links] /\ Linked(nx, h, s) /\ e = Nth(s, Len(s))
      /\ Len(q) = Len(s) + 1 /\ Len(s) \in Nat /\ q[Len(s) + 1] = t
      /\ None \in Links /\ t \in Links
  BY DEF Represents, Links
<1>2. (e < 0 <=> s = <<>>) /\ (s # <<>> => e = s[Len(s)] /\ e \in Tids /\ e \in Elements(s))
  <2>1. s # <<>> => s[Len(s)] \in Elements(s)
    BY <1>1 DEF Elements
  <2>2. QED BY <1>1, <2>1, EmptyList
<1>3. Nth(q, Len(q)) = t
  BY <1>1 DEF Nth
<1>4. CASE s = <<>>
  <2> DEFINE mx == [nx EXCEPT ![t] = None]
  <2>1. m = [next |-> mx, head |-> t, tail |-> t]
    BY <1>2, <1>4 DEF AddToReadyList
  <2>2. /\ mx \in [Tids -> Links] /\ mx[t] = None
        /\ \A u \in Tids \ {t} : mx[u] = nx[u]
    BY <1>1
  <2> HIDE DEF mx, q
  <2>3. Elements(s) = {}
    BY <1>4 DEF Elements
  <2>4. Linked(mx, t, q)
    <3>1. Linked(mx, IF s = <<>> THEN t ELSE h, Append(s, t))
      BY <1>1, <1>4, <2>2, <2>3, LinkedAppend
    <3>2. QED BY <1>4, <3>1 DEF q
  <2>5. Represents([next |-> mx, head |-> t, tail |-> t], q)
    BY <1>3, <2>2, <2>4 DEF Represents
  <2>6. Represents(m, q) /\ m.next = mx /\ m = [next |-> m.next, head |-> m.head, tail |-> m.tail]
    BY <2>1, <2>5
  <2>7. QED BY <2>2, <2>3, <2>6 DEF q
<1>5. CASE s # <<>>
  <2> DEFINE mx == [nx EXCEPT ![e] = t, ![t] = None]
  <2>1. m = [next |-> mx, head |-> h, tail |-> t]
    <3>1. l.next = nx /\ l.head = h /\ l.tail = e /\ ~(e < 0)
      BY <1>2, <1>5
    <3>2. m = [l EXCEPT !.next = [l.next EXCEPT ![l.tail] = t, ![t] = None], !.tail = t]
      BY <3>1 DEF AddToReadyList
    <3>3. m = [[next |-> nx, head |-> h, tail |-> e] EXCEPT !.next = mx, !.tail = t]
      BY <3>1, <3>2
    <3> HIDE DEF mx
    <3>4. QED BY <3>3, NextTailUpdate
  <2>2. /\ mx \in [Tids -> Links] /\ mx[t] = None
        /\ e # t => mx[e] = t
        /\ \A u \in Tids \ {t, e} : mx[u] = nx[u]
    BY <1>1, <1>2, <1>5
  <2>3. e # t
    BY <1>2, <1>5
  <2> HIDE DEF mx, q
  <2>4. \A u \in Elements(s) : u \in Tids \ {t}
    BY DEF Elements
  <2>5. Linked(mx, h, q)
    <3>1. Linked(mx, IF s = <<>> THEN t ELSE h, Append(s, t))
      BY <1>1, <1>2, <1>5, <2>2, <2>3, <2>4, LinkedAppend
    <3>2. QED BY <1>5, <3>1 DEF q
  <2>6. Represents([next |-> mx, head |-> h, tail |-> t], q)
    BY <1>3, <2>2, <2>5 DEF Represents
  <2>7. \A u \in Tids \ (Elements(s) \cup {t}) : mx[u] = nx[u]
    BY <1>2, <1>5, <2>2
  <2>8. Represents(m, q) /\ m.next = mx /\ m = [next |-> m.next, head |-> m.head, tail |-> m.tail]
    BY <2>1, <2>6
  <2>9. QED BY <2>7, <2>8 DEF q
<1>6. QED
  BY <1>4, <1>5

\* scheduler_remove_first_ready takes the head off and touches no link.
LEMMA RemoveRepresents ==
    ASSUME NEW nx, NEW h, NEW e, NEW l, l = [next |-> nx, head |-> h, tail |-> e],
           NEW s \in Seq(Tids), Represents(l, s), NoDuplicates(s)
    PROVE  /\ FirstLinked(l) = FirstReady(s)
           /\ RemoveFirstReady(l).next = nx
           /\ Represents(RemoveFirstReady(l), RestReady(s))
<1>1. /\ nx \in [Tids -> Links] /\ Linked(nx, h, s) /\ e = Nth(s, Len(s))
      /\ Len(s) \in Nat /\ h = Nth(s, 1)
      /\ l.next = nx /\ l.head = h /\ l.tail = e
  BY DEF Represents, Linked
<1>2. h < 0 <=> s = <<>>
  BY <1>1, EmptyList
<1>3. CASE s = <<>>
  BY <1>2, <1>3 DEF FirstLinked, FirstReady, RemoveFirstReady, RestReady
<1>4. CASE s # <<>>
  <2> DEFINE f == IF e = h THEN None ELSE e
             m == [next |-> nx, head |-> nx[h], tail |-> f]
  <2>1. RemoveFirstReady(l) = m
    <3> DEFINE r == RemoveFirstReady(l)
               g == nx[h]
    <3>1. r = [[next |-> nx, head |-> h, tail |-> e] EXCEPT !.tail = f, !.head = g]
      BY <1>1, <1>2, <1>4 DEF RemoveFirstReady
    <3> HIDE DEF f, r, g
    <3>2. r = [next |-> nx, head |-> g, tail |-> f]
      BY <3>1, TailHeadUpdate
    <3>3. QED BY <3>2 DEF r, g
  <2>3. h = Head(s) /\ Linked(nx, nx[h], Tail(s))
    BY <1>1, <1>4, LinkedTail
  <2>4. FirstLinked(l) = FirstReady(s)
    BY <1>1, <1>2, <1>4, <2>3 DEF FirstLinked, FirstReady
  <2>5. f = Nth(Tail(s), Len(Tail(s)))
    <3>1. /\ Len(s) \in Nat \ {0} /\ Len(Tail(s)) = Len(s) - 1
          /\ \A i \in 1 .. Len(s) - 1 : Tail(s)[i] = s[i + 1]
          /\ h = s[1] /\ e = s[Len(s)]
      BY <1>1, <1>4, <2>3, EmptyList
    <3>2. CASE Len(s) = 1
      <4> DEFINE K == Len(Tail(s))
      <4>1. e = h
        BY <3>1, <3>2
      <4>2. K = 0
        BY <3>1, <3>2
      <4> HIDE DEF K
      <4>3. ~(K \in 1 .. K)
        BY <4>2
      <4>4. Nth(Tail(s), K) = None
        BY <4>3 DEF Nth, K
      <4>5. QED BY <4>1, <4>4 DEF K
    <3>3. CASE Len(s) > 1
      <4>1. s[1] # s[Len(s)]
        BY <3>1, <3>3 DEF NoDuplicates
      <4>2. /\ Len(s) - 1 \in 1 .. Len(s) - 1
            /\ Tail(s)[Len(s) - 1] = s[(Len(s) - 1) + 1]
        BY <3>1, <3>3
      <4>3. Nth(Tail(s), Len(Tail(s))) = s[Len(s)]
        BY <3>1, <4>2 DEF Nth
      <4>4. QED BY <3>1, <4>1, <4>3
    <3>4. QED BY <3>1, <3>2, <3>3
  <2> HIDE DEF f
  <2>6. RemoveFirstReady(l).next = nx
    BY <2>1
  <2>7. Represents(m, Tail(s))
    BY <1>1, <2>3, <2>5 DEF Represents
  <2>8. RestReady(s) = Tail(s)
    BY <1>4 DEF RestReady
  <2>9. QED BY <2>1, <2>4, <2>6, <2>7, <2>8
<1>5. QED
  BY <1>3, <1>4

-----------------------------------------------------------------------------
\* The invariant.  The link of a thread that sleepq_add has marked, and not yet
\* chained, still ends a list.
MarkedEnds == \A c \in CPUs : mode[c] = "mark" => next[currentThread[c]] = None

ListInv ==
    /\ bucket \in [Buckets -> Links]
    /\ Represents(ReadyLinks, ready)
    /\ \A b \in Buckets : Linked(next, bucket[b], hashtable[b])
    /\ MarkedEnds

\* What module Scheduler's invariants say of the threads in the lists.
QueueInv == TypeInv /\ SchedInv /\ LifeInv /\ ChainInv

\* The links are never of use to two lists: the ready list and the chains share no
\* thread, and a marked thread is in none.
LEMMA ListsApart ==
    ASSUME QueueInv
    PROVE  /\ ready \in Seq(Tids \ {Idle}) /\ ready \in Seq(Tids) /\ NoDuplicates(ready)
           /\ \A b \in Buckets : /\ hashtable[b] \in Seq(Tids \ {Idle})
                                 /\ hashtable[b] \in Seq(Tids)
                                 /\ NoDuplicates(hashtable[b])
           /\ \A b \in Buckets : \A t \in Elements(hashtable[b]) :
                  /\ t \in Tids /\ t \notin Elements(ready)
                  /\ \A d \in Buckets \ {b} : t \notin Elements(hashtable[d])
           /\ \A t \in Tids : threadState[t] # "READY" => t \notin Elements(ready)
           /\ \A t \in Tids : sleepsOn[t] = NoResource =>
                  \A b \in Buckets : t \notin Elements(hashtable[b])
           /\ \A c \in CPUs : mode[c] = "mark" =>
                  /\ currentThread[c] \in Tids
                  /\ currentThread[c] \notin Elements(ready)
                  /\ \A b \in Buckets : currentThread[c] \notin Elements(hashtable[b])
<1>1. /\ ready \in Seq(Tids) /\ hashtable \in [Buckets -> Seq(Tids)]
      /\ NoDuplicates(ready)
      /\ Elements(ready) = {t \in Tids \ {Idle} : threadState[t] = "READY"}
      /\ sleepsOn[Idle] = NoResource /\ NoResource \notin Resources
  BY SchedulerAssumption
  DEF QueueInv, TypeInv, TypeOK, SchedInv, ReadyListExact, IdleNeverSleeps
<1>2. \A b \in Buckets :
          /\ NoDuplicates(hashtable[b]) /\ hashtable[b] \in Seq(Tids)
          /\ \A t \in Elements(hashtable[b]) :
                 sleepsOn[t] \in Resources /\ Hash[sleepsOn[t]] = b
  BY <1>1 DEF QueueInv, ChainInv, ChainsExact
<1>3. ASSUME NEW s \in Seq(Tids), Idle \notin Elements(s) PROVE s \in Seq(Tids \ {Idle})
  <2>1. /\ Len(s) \in Nat /\ DOMAIN s = 1 .. Len(s)
        /\ \A i \in 1 .. Len(s) : s[i] \in Tids /\ s[i] \in Elements(s)
        /\ s = [i \in 1 .. Len(s) |-> s[i]]
    BY DEF Elements
  <2>2. \A i \in 1 .. Len(s) : s[i] \in Tids \ {Idle}
    BY <1>3, <2>1
  <2>3. QED BY <2>1, <2>2
<1>4. ready \in Seq(Tids \ {Idle})
  BY <1>1, <1>3
<1>5. \A b \in Buckets : hashtable[b] \in Seq(Tids \ {Idle})
  BY <1>1, <1>2, <1>3
<1>6. \A b \in Buckets : \A t \in Elements(hashtable[b]) :
          /\ t \in Tids /\ threadState[t] # "READY"
          /\ \A d \in Buckets \ {b} : t \notin Elements(hashtable[d])
  <2> SUFFICES ASSUME NEW b \in Buckets, NEW t \in Elements(hashtable[b])
               PROVE  /\ t \in Tids /\ threadState[t] # "READY"
                      /\ \A d \in Buckets \ {b} : t \notin Elements(hashtable[d])
    OBVIOUS
  <2>1. t \in Tids
    BY <1>2 DEF Elements
  <2>2. QED BY <1>1, <1>2, <2>1 DEF QueueInv, LifeInv, WantersLive
<1>7. ASSUME NEW c \in CPUs, mode[c] = "mark"
      PROVE  /\ currentThread[c] \in Tids
             /\ currentThread[c] \notin Elements(ready)
             /\ \A b \in Buckets : currentThread[c] \notin Elements(hashtable[b])
  <2>1. currentThread[c] \in Tids /\ Holds(c) = currentThread[c]
    BY <1>7 DEF QueueInv, TypeInv, TypeOK, Holds
  <2>2. currentThread[c] # Idle
    BY <1>7 DEF QueueInv, LifeInv, AddersRun
  <2>3. threadState[currentThread[c]] # "READY"
    BY <2>1, <2>2 DEF QueueInv, SchedInv, HeldRuns
  <2>4. QED BY <1>1, <1>7, <2>1, <2>3 DEF QueueInv, ChainInv, MarkedUnchained
<1>8. QED
  BY <1>1, <1>2, <1>4, <1>5, <1>6, <1>7

\* A step that leaves the chains alone, if it changes the links of unchained threads
\* only, and of no marked one.
LEMMA ChainsLeft ==
    ASSUME QueueInv, ListInv,
           UNCHANGED <<hashtable, bucket>>,
           Represents(ReadyLinks', ready'),
           \A u \in Tids : next'[u] # next[u] =>
               /\ \A b \in Buckets : u \notin Elements(hashtable[b])
               /\ \A d \in CPUs : mode'[d] = "mark" => currentThread'[d] # u,
           \A d \in CPUs : mode'[d] = "mark" =>
               mode[d] = "mark" /\ currentThread'[d] = currentThread[d]
    PROVE  ListInv'
<1>1. ASSUME NEW b \in Buckets PROVE Linked(next', bucket'[b], hashtable'[b])
  <2>1. Linked(next, bucket[b], hashtable[b]) /\ hashtable[b] \in Seq(Tids)
    BY ListsApart DEF ListInv
  <2>2. \A u \in Elements(hashtable[b]) : next'[u] = next[u]
    BY ListsApart
  <2>3. Linked(next', bucket[b], hashtable[b])
    <3> DEFINE s == hashtable[b]
               first == bucket[b]
    <3> HIDE DEF s, first
    <3>1. s \in Seq(Tids) /\ Linked(next, first, s) /\ \A u \in Elements(s) : next'[u] = next[u]
      BY <2>1, <2>2 DEF s, first
    <3>2. Linked(next', first, s)
      BY <3>1, LinkedFrame
    <3>3. QED BY <3>2 DEF s, first
  <2>4. QED BY <2>3
<1>2. MarkedEnds'
  BY ListsApart DEF ListInv, MarkedEnds
<1>3. QED
  BY <1>1, <1>2 DEF ListInv

\* A step that leaves the ready list alone.
LEMMA ReadyLeft ==
    ASSUME QueueInv, ListInv, UNCHANGED <<ready, head, tail>>,
           next' \in [Tids -> Links],
           \A u \in Elements(ready) : next'[u] = next[u]
    PROVE  Represents(ReadyLinks', ready')
<1>1. /\ ready \in Seq(Tids) /\ Linked(next, head, ready) /\ tail = Nth(ready, Len(ready))
  BY ListsApart DEF ListInv, Represents, ReadyLinks
<1>2. Linked(next', head, ready)
  <2>1. QED BY <1>1, LinkedFrame
<1>3. QED
  BY <1>1, <1>2 DEF Represents, ReadyLinks

-----------------------------------------------------------------------------
\* scheduler_schedule: the thread it puts away was in no list, for it was running.
LEMMA ListSchedule ==
    ASSUME QueueInv, ListInv, NEW c \in CPUs, TLSchedule(c)
    PROVE  ListInv'
<1> DEFINE t == currentThread[c]
           back == StateLeft(t) = "READY" /\ t # Idle
           left == IF back THEN AddToReadyList(ReadyLinks, t) ELSE ReadyLinks
           queue == ReadyAfterLeaving(t)
<1>1. /\ Schedule(c) /\ mode[c] = "schedule" /\ t \in Tids
      /\ mode' = [mode EXCEPT ![c] = "dispatch"] /\ mode \in [CPUs -> Modes]
      /\ ready' = RestReady(queue)
      /\ UNCHANGED <<hashtable, bucket, currentThread>>
  BY DEF TLSchedule, Schedule, MoveTo, QueueInv, TypeInv, TypeOK
<1>2. /\ next' = RemoveFirstReady(left).next
      /\ head' = RemoveFirstReady(left).head
      /\ tail' = RemoveFirstReady(left).tail
  BY DEF TLSchedule, SetReadyLinks
<1>3. ready \in Seq(Tids) /\ NoDuplicates(ready)
  BY ListsApart
<1>4. Represents(ReadyLinks, ready)
  BY DEF ListInv
<1>5. back => /\ t \notin Elements(ready)
              /\ \A b \in Buckets : t \notin Elements(hashtable[b])
              /\ \A d \in CPUs : mode[d] = "mark" => currentThread[d] # t
  <2> SUFFICES ASSUME back
               PROVE  /\ t \notin Elements(ready)
                      /\ \A b \in Buckets : t \notin Elements(hashtable[b])
                      /\ \A d \in CPUs : mode[d] = "mark" => currentThread[d] # t
    OBVIOUS
  <2>1. Holds(c) = t
    BY <1>1 DEF Holds
  <2>2. threadState[t] # "READY"
    BY <2>1 DEF QueueInv, SchedInv, HeldRuns
  <2>3. sleepsOn[t] = NoResource
    BY DEF StateLeft
  <2>4. \A d \in CPUs : mode[d] = "mark" => currentThread[d] # t
    BY <1>1, <2>1 DEF QueueInv, SchedInv, OneCpuPerThread, Holds
  <2>5. QED BY <1>1, <2>2, <2>3, <2>4, ListsApart
<1>6. /\ left = [next |-> left.next, head |-> left.head, tail |-> left.tail]
      /\ Represents(left, queue)
      /\ \A u \in Tids : left.next[u] # next[u] => u \in Elements(ready) \/ (back /\ u = t)
  <2> DEFINE l == ReadyLinks
  <2>0. l = [next |-> next, head |-> head, tail |-> tail] /\ Represents(l, ready)
    BY DEF ListInv, ReadyLinks
  <2>1. CASE back
    <3>1. left = AddToReadyList(l, t) /\ queue = Append(ready, t) /\ t \notin Elements(ready)
      BY <1>5, <2>1 DEF ReadyAfterLeaving
    <3> HIDE DEF back, left, queue, l, t
    <3>2. /\ left = [next |-> left.next, head |-> left.head, tail |-> left.tail]
          /\ Represents(left, Append(ready, t))
          /\ \A u \in Tids \ (Elements(ready) \cup {t}) : left.next[u] = next[u]
      BY <1>1, <1>3, <2>0, <3>1, AddRepresents
    <3>3. QED BY <2>1, <3>1, <3>2
  <2>2. CASE ~back
    <3>1. left = l /\ queue = ready
      BY <2>2 DEF ReadyAfterLeaving
    <3> HIDE DEF left, queue, back, l
    <3>2. QED BY <2>0, <3>1
  <2>3. QED BY <2>1, <2>2
<1>7. queue \in Seq(Tids) /\ NoDuplicates(queue)
  <2>1. CASE back
    <3>1. queue = Append(ready, t)
      BY <2>1 DEF ReadyAfterLeaving
    <3> HIDE DEF queue, t
    <3>2. QED BY <1>1, <1>3, <1>5, <2>1, <3>1, AppendElements
  <2>2. CASE ~back
    BY <1>3, <2>2 DEF ReadyAfterLeaving
  <2>3. QED BY <2>1, <2>2
<1> HIDE DEF queue, left
<1>8. RemoveFirstReady(left).next = left.next /\ Represents(RemoveFirstReady(left), RestReady(queue))
  BY <1>6, <1>7, RemoveRepresents
<1>9. next' = left.next /\ Represents(ReadyLinks', ready')
  BY <1>1, <1>2, <1>8 DEF Represents, ReadyLinks
<1>10. \A u \in Tids : next'[u] # next[u] => u \in Elements(ready) \/ (back /\ u = t)
  BY <1>6, <1>9
<1> HIDE DEF t, back
<1>11. \A d \in CPUs : mode'[d] = "mark" => mode[d] = "mark" /\ currentThread'[d] = currentThread[d]
  BY <1>1
<1>12. \A u \in Tids : next'[u] # next[u] =>
           /\ \A b \in Buckets : u \notin Elements(hashtable[b])
           /\ \A d \in CPUs : mode'[d] = "mark" => currentThread'[d] # u
  BY <1>5, <1>10, <1>11, ListsApart
<1>13. QED
  BY <1>1, <1>9, <1>11, <1>12, ChainsLeft

\* thread_run: the new thread was in no list, for it was not ready.
LEMMA ListThreadRun ==
    ASSUME QueueInv, ListInv, NEW c \in CPUs, NEW t \in Tids, TLThreadRun(c, t)
    PROVE  ListInv'
<1> DEFINE u == child[t]
<1>1. /\ u \in Tids /\ threadState[u] = "NONREADY"
      /\ ready' = Append(ready, u)
      /\ UNCHANGED <<hashtable, bucket, currentThread, mode>>
  BY DEF TLThreadRun, ThreadRun, QueueInv, TypeInv, TypeOK, SchedInv, ChildrenApart, Creating
<1>2. sleepsOn[u] = NoResource
  BY <1>1 DEF QueueInv, LifeInv, WantersLive
<1>3. /\ u \notin Elements(ready)
      /\ \A b \in Buckets : u \notin Elements(hashtable[b])
  BY <1>1, <1>2, ListsApart
<1>4. \A d \in CPUs : mode[d] = "mark" => currentThread[d] # u
  <2>1. SUFFICES ASSUME NEW d \in CPUs, mode[d] = "mark" PROVE currentThread[d] # u
    OBVIOUS
  <2>2. Holds(d) = currentThread[d] /\ currentThread[d] # Idle
    BY <2>1 DEF Holds, QueueInv, LifeInv, AddersRun
  <2>3. QED BY <1>1, <2>2 DEF QueueInv, SchedInv, HeldRuns
<1>5. ready \in Seq(Tids) /\ NoDuplicates(ready)
  BY ListsApart
<1> DEFINE l == ReadyLinks
           m == AddToReadyList(l, u)
<1>6. l = [next |-> next, head |-> head, tail |-> tail] /\ Represents(l, ready)
  BY DEF ListInv, ReadyLinks
<1>7. next' = m.next /\ head' = m.head /\ tail' = m.tail
  BY DEF TLThreadRun, SetReadyLinks
<1> HIDE DEF u, l
<1>8. /\ Represents(m, Append(ready, u))
      /\ \A v \in Tids \ (Elements(ready) \cup {u}) : m.next[v] = next[v]
  <2> HIDE DEF m
  <2>1. m = AddToReadyList(l, u)
    BY DEF m
  <2>2. QED BY <1>1, <1>3, <1>5, <1>6, <2>1, AddRepresents
<1> HIDE DEF m
<1>9. Represents(ReadyLinks', ready')
  BY <1>1, <1>7, <1>8 DEF Represents, ReadyLinks
<1>10. \A v \in Tids : next'[v] # next[v] =>
           /\ \A b \in Buckets : v \notin Elements(hashtable[b])
           /\ \A d \in CPUs : mode'[d] = "mark" => currentThread'[d] # v
  BY <1>1, <1>3, <1>4, <1>7, <1>8, ListsApart
<1>11. QED
  BY <1>1, <1>9, <1>10, ChainsLeft

\* thread_create clears the link of a thread that is in no list.
LEMMA ListThreadInitialise ==
    ASSUME QueueInv, ListInv, NEW c \in CPUs, NEW t \in Tids, TLThreadInitialise(c, t)
    PROVE  ListInv'
<1> DEFINE u == child[t]
<1>1. /\ u \in Tids /\ threadState[u] = "NONREADY"
      /\ next' = [next EXCEPT ![u] = None] /\ next \in [Tids -> Links]
      /\ UNCHANGED <<ready, head, tail, hashtable, bucket, currentThread, mode>>
  BY DEF TLThreadInitialise, ThreadInitialise, QueueInv, TypeInv, TypeOK, SchedInv,
         ChildrenApart, Creating, ListInv, Represents, ReadyLinks
<1>2. sleepsOn[u] = NoResource
  BY <1>1 DEF QueueInv, LifeInv, WantersLive
<1>3. /\ u \notin Elements(ready)
      /\ \A b \in Buckets : u \notin Elements(hashtable[b])
  BY <1>1, <1>2, ListsApart
<1>4. \A d \in CPUs : mode[d] = "mark" => currentThread[d] # u
  <2>1. SUFFICES ASSUME NEW d \in CPUs, mode[d] = "mark" PROVE currentThread[d] # u
    OBVIOUS
  <2>2. Holds(d) = currentThread[d] /\ currentThread[d] # Idle
    BY <2>1 DEF Holds, QueueInv, LifeInv, AddersRun
  <2>3. QED BY <1>1, <2>2 DEF QueueInv, SchedInv, HeldRuns
<1> HIDE DEF u
<1>5. next' \in [Tids -> Links] /\ \A v \in Tids : v # u => next'[v] = next[v]
  BY <1>1 DEF Links
<1>6. \A v \in Elements(ready) : next'[v] = next[v]
  <2>1. \A v \in Elements(ready) : v \in Tids
    BY ListsApart DEF Elements
  <2>2. QED BY <1>3, <1>5, <2>1
<1>7. Represents(ReadyLinks', ready')
  BY <1>1, <1>5, <1>6, ReadyLeft
<1>8. QED
  BY <1>1, <1>3, <1>4, <1>5, <1>7, ChainsLeft

-----------------------------------------------------------------------------
\* The first half of sleepq_add clears the link of a running thread, which no list has.
LEMMA ListSleepqMark ==
    ASSUME QueueInv, ListInv, NEW c \in CPUs, NEW t \in Tids, NEW r \in Resources,
           TLSleepqMark(c, t, r)
    PROVE  ListInv'
<1>1. /\ currentThread[c] = t /\ Executes(c, t) /\ at[t] = "run"
      /\ next' = [next EXCEPT ![t] = None] /\ next \in [Tids -> Links]
      /\ mode' = [mode EXCEPT ![c] = "mark"] /\ mode \in [CPUs -> Modes]
      /\ UNCHANGED <<ready, head, tail, hashtable, bucket, currentThread>>
  BY DEF TLSleepqMark, SleepqMark, Executes, MoveTo, QueueInv, TypeInv, TypeOK, ListInv,
         Represents, ReadyLinks
<1>2. t \notin Elements(ready) /\ \A d \in CPUs \ {c} : Holds(d) # t
  BY <1>1, ExecutesHeld DEF QueueInv
<1>3. sleepsOn[t] = NoResource
  BY <1>1, ExecutesAwake DEF QueueInv
<1>4. \A b \in Buckets : t \notin Elements(hashtable[b])
  BY <1>3, ListsApart
<1>5. next' \in [Tids -> Links] /\ \A u \in Tids : u # t => next'[u] = next[u]
  BY <1>1 DEF Links
<1>6. \A u \in Elements(ready) : next'[u] = next[u]
  <2>1. \A u \in Elements(ready) : u \in Tids
    BY ListsApart DEF Elements
  <2>2. QED BY <1>2, <1>5, <2>1
<1>7. Represents(ReadyLinks', ready')
  BY <1>1, <1>5, <1>6, ReadyLeft
<1>8. ASSUME NEW b \in Buckets PROVE Linked(next', bucket'[b], hashtable'[b])
  <2> DEFINE s == hashtable[b]
             first == bucket[b]
  <2>1. s \in Seq(Tids) /\ Linked(next, first, s) /\ bucket'[b] = first /\ hashtable'[b] = s
    BY <1>1, ListsApart DEF ListInv
  <2>2. \A u \in Elements(s) : u \in Tids /\ u # t
    BY <1>4, ListsApart
  <2> HIDE DEF s, first
  <2>3. Linked(next', first, s)
    BY <1>5, <2>1, <2>2, LinkedFrame
  <2>4. QED BY <2>1, <2>3
<1>9. MarkedEnds'
  <2>1. SUFFICES ASSUME NEW d \in CPUs, mode'[d] = "mark"
                 PROVE  next'[currentThread[d]] = None
    BY <1>1 DEF MarkedEnds
  <2>2. CASE d = c
    BY <1>1, <2>2
  <2>3. CASE d # c
    <3>1. mode[d] = "mark"
      BY <1>1, <2>1, <2>3
    <3>2. currentThread[d] # t /\ currentThread[d] \in Tids
      BY <1>2, <2>3, <3>1, ListsApart DEF Holds
    <3>3. QED BY <1>5, <3>1, <3>2 DEF ListInv, MarkedEnds
  <2>4. QED BY <2>2, <2>3
<1>10. QED
  BY <1>1, <1>7, <1>8, <1>9 DEF ListInv

\* The second half puts the thread, whose link still ends a list, behind the last thread
\* of its bucket.
LEMMA ListSleepqLink ==
    ASSUME QueueInv, ListInv, NEW c \in CPUs, TLSleepqLink(c)
    PROVE  ListInv'
<1> DEFINE t == currentThread[c]
           b == Hash[sleepsOn[t]]
           s == hashtable[b]
           first == bucket[b]
<1>1. /\ mode[c] = "mark" /\ t \in Tids
      /\ mode' = [mode EXCEPT ![c] = "linked"] /\ mode \in [CPUs -> Modes]
      /\ hashtable' = [hashtable EXCEPT ![b] = Append(@, t)]
      /\ hashtable \in [Buckets -> Seq(Tids)]
      /\ bucket \in [Buckets -> Links] /\ next \in [Tids -> Links]
      /\ UNCHANGED <<ready, head, tail, currentThread>>
  BY DEF TLSleepqLink, SleepqLink, MoveTo, QueueInv, TypeInv, TypeOK, ListInv,
         Represents, ReadyLinks
<1>2. b \in Buckets
  BY <1>1, SchedulerAssumption DEF QueueInv, ChainInv, MarkedUnchained
<1>3. /\ s \in Seq(Tids) /\ s \in Seq(Tids \ {Idle}) /\ NoDuplicates(s)
      /\ Linked(next, first, s)
  BY <1>2, ListsApart DEF ListInv
<1>4. /\ t \notin Elements(ready) /\ t \notin Elements(s)
      /\ \A d \in Buckets : t \notin Elements(hashtable[d])
  BY <1>1, <1>2, ListsApart
<1>5. next[t] = None /\ None \in Links /\ t \in Links
  BY <1>1 DEF ListInv, MarkedEnds, Links
<1>6. hashtable'[b] = Append(s, t) /\ \A d \in Buckets \ {b} : hashtable'[d] = hashtable[d]
  BY <1>1, <1>2
<1>7. Reached(first) = s
  <2> HIDE DEF s, first
  <2>1. QED BY <1>1, <1>3, ReachedIsList
<1>8. first <= 0 <=> s = <<>>
  <2>1. first = Nth(s, 1)
    BY <1>3 DEF Linked
  <2>2. \A i \in 1 .. Len(s) : s[i] > 0 /\ s[i] \in Nat
    BY <1>3, SchedulerAssumption DEF Tids, Idle
  <2>3. Len(s) \in Nat /\ (s = <<>> <=> Len(s) = 0)
    BY <1>3
  <2> HIDE DEF s, first
  <2>4. QED BY <2>1, <2>2, <2>3 DEF Nth, None
<1>9. /\ s = <<>> => bucket' = [bucket EXCEPT ![b] = t] /\ next' = next
      /\ s # <<>> => next' = [next EXCEPT ![s[Len(s)]] = t] /\ bucket' = bucket
  BY <1>7, <1>8 DEF TLSleepqLink
<1>10. s # <<>> => s[Len(s)] \in Elements(s) /\ s[Len(s)] \in Tids
  <2> HIDE DEF s
  <2>1. s # <<>> => Len(s) \in DOMAIN s
    BY <1>3
  <2>2. QED BY <1>3, <2>1, EmptyList DEF Elements
<1> HIDE DEF s, first
<1>11. /\ next' \in [Tids -> Links] /\ bucket' \in [Buckets -> Links]
       /\ \A u \in Tids : u \notin Elements(s) => next'[u] = next[u]
       /\ \A u \in Tids : (s = <<>> \/ u # s[Len(s)]) => next'[u] = next[u]
       /\ s # <<>> => next'[s[Len(s)]] = t
       /\ bucket'[b] = IF s = <<>> THEN t ELSE first
       /\ \A d \in Buckets \ {b} : bucket'[d] = bucket[d]
  <2> HIDE DEF t, b
  <2>1. CASE s = <<>>
    BY <1>1, <1>2, <1>5, <1>9, <2>1 DEF first
  <2>2. CASE s # <<>>
    BY <1>1, <1>2, <1>5, <1>9, <1>10, <2>2 DEF first
  <2>3. QED BY <2>1, <2>2
<1>12. Linked(next', bucket'[b], hashtable'[b])
  <2> DEFINE start == IF s = <<>> THEN t ELSE first
  <2> HIDE DEF t, b
  <2>1. next'[t] = None
    BY <1>1, <1>4, <1>5, <1>11
  <2>2. \A u \in Elements(s) : u # s[Len(s)] => next'[u] = next[u]
    <3>1. \A u \in Elements(s) : u \in Tids
      BY <1>3 DEF Elements
    <3>2. QED BY <1>11, <3>1
  <2>3. Linked(next', start, Append(s, t))
    BY <1>1, <1>3, <1>4, <1>11, <2>1, <2>2, LinkedAppend
  <2>4. QED BY <1>6, <1>11, <2>3
<1>13. ASSUME NEW d \in Buckets \ {b} PROVE Linked(next', bucket'[d], hashtable'[d])
  <2> DEFINE q == hashtable[d]
             start == bucket[d]
  <2>1. q \in Seq(Tids) /\ Linked(next, start, q) /\ bucket'[d] = start /\ hashtable'[d] = q
    BY <1>6, <1>11, ListsApart DEF ListInv
  <2>2. \A u \in Elements(q) : next'[u] = next[u]
    BY <1>2, <1>11, ListsApart DEF s
  <2> HIDE DEF q, start
  <2>3. Linked(next', start, q)
    BY <2>1, <2>2, LinkedFrame
  <2>4. QED BY <2>1, <2>3
<1>14. Represents(ReadyLinks', ready')
  <2>1. \A u \in Elements(ready) : u \in Tids /\ u \notin Elements(s)
    BY <1>2, ListsApart DEF s, Elements
  <2>2. QED BY <1>1, <1>11, <2>1, ReadyLeft
<1>15. MarkedEnds'
  <2>1. SUFFICES ASSUME NEW d \in CPUs, mode'[d] = "mark"
                 PROVE  next'[currentThread[d]] = None
    BY <1>1 DEF MarkedEnds
  <2>2. mode[d] = "mark"
    BY <1>1, <2>1
  <2>3. currentThread[d] \in Tids /\ currentThread[d] \notin Elements(s)
    BY <1>2, <2>2, ListsApart DEF s
  <2>4. QED BY <1>11, <2>2, <2>3 DEF ListInv, MarkedEnds
<1>16. QED
  BY <1>11, <1>12, <1>13, <1>14, <1>15 DEF ListInv

-----------------------------------------------------------------------------
\* sleepq_wake unlinks the thread it finds walking along the links, which is the one the
\* sequence gives.
LEMMA ListWakeFind ==
    ASSUME QueueInv, ListInv, NEW c \in CPUs, TLWakeFind(c)
    PROVE  ListInv'
<1> DEFINE b == Hash[wakes[c]]
           s == hashtable[b]
           first == bucket[b]
           r == wakes[c]
<1>1. /\ mode[c] = "wake" /\ r \in Resources /\ b \in Buckets
      /\ mode' = [mode EXCEPT ![c] = "ready"] /\ mode \in [CPUs -> Modes]
      /\ hashtable \in [Buckets -> Seq(Tids)]
      /\ bucket \in [Buckets -> Links] /\ next \in [Tids -> Links]
      /\ UNCHANGED <<ready, head, tail, currentThread>>
  BY SchedulerAssumption
  DEF TLWakeFind, WakeFind, MoveTo, QueueInv, TypeInv, TypeOK, WakesSomething, ListInv,
      Represents, ReadyLinks
<1>2. /\ s \in Seq(Tids) /\ s \in Seq(Tids \ {Idle}) /\ NoDuplicates(s)
      /\ Linked(next, first, s)
  BY <1>1, ListsApart DEF ListInv
<1>3. Reached(first) = s
  <2> HIDE DEF s, first
  <2>1. QED BY <1>1, <1>2, ReachedIsList
<1>4. PICK i \in DOMAIN s :
          /\ sleepsOn[s[i]] = r /\ \A j \in 1 .. i - 1 : sleepsOn[s[j]] # r
          /\ IF i = 1
             THEN bucket' = [bucket EXCEPT ![b] = next[s[i]]] /\ UNCHANGED next
             ELSE /\ next' = [next EXCEPT ![s[i - 1]] = next[s[i]]]
                  /\ UNCHANGED bucket
  BY <1>3 DEF TLWakeFind
<1>5. PICK k \in Waiting(b, r) :
          /\ \A j \in Waiting(b, r) : k <= j
          /\ hashtable' = [hashtable EXCEPT ![b] = RemoveIndex(@, k)]
  BY DEF TLWakeFind, WakeFind
<1>6. /\ Len(s) \in Nat /\ DOMAIN s = 1 .. Len(s) /\ \A j \in 1 .. Len(s) : s[j] \in Tids
      /\ \A j \in DOMAIN s : s[j] \in Elements(s)
      /\ i \in 1 .. Len(s)
  BY <1>2, <1>4 DEF Elements
<1>7. k = i
  <2>1. k \in DOMAIN s /\ sleepsOn[s[k]] = r /\ i \in Waiting(b, r)
    BY <1>4, <1>5 DEF Waiting
  <2>2. k <= i
    BY <1>5, <2>1
  <2>3. ~(k \in 1 .. i - 1)
    BY <1>4, <2>1
  <2> HIDE DEF s
  <2>4. QED BY <1>6, <2>1, <2>2, <2>3
<1>8. /\ hashtable'[b] = RemoveIndex(s, i)
      /\ \A d \in Buckets \ {b} : hashtable'[d] = hashtable[d]
  BY <1>1, <1>5, <1>7
<1> HIDE DEF s, first, r
<1>9. /\ next' \in [Tids -> Links] /\ bucket' \in [Buckets -> Links]
      /\ i > 1 => i - 1 \in 1 .. Len(s) /\ next'[s[i - 1]] = next[s[i]]
      /\ \A u \in Tids : (i > 1 => u # s[i - 1]) => next'[u] = next[u]
      /\ bucket'[b] = IF i = 1 THEN next[s[i]] ELSE first
      /\ \A d \in Buckets \ {b} : bucket'[d] = bucket[d]
  <2> DEFINE p == s[i - 1]
             a == next[s[i]]
  <2>1. a \in Links /\ (i > 1 => i - 1 \in 1 .. Len(s) /\ p \in Tids)
    BY <1>1, <1>6
  <2>2. CASE i = 1
    <3>1. bucket' = [bucket EXCEPT ![b] = a] /\ next' = next
      BY <1>4, <2>2
    <3> HIDE DEF a, p, b
    <3>2. /\ bucket' \in [Buckets -> Links] /\ bucket'[b] = a
          /\ \A d \in Buckets \ {b} : bucket'[d] = bucket[d]
      BY <1>1, <2>1, <3>1
    <3>3. QED BY <1>1, <2>2, <3>1, <3>2 DEF a
  <2>3. CASE i # 1
    <3>1. next' = [next EXCEPT ![p] = a] /\ bucket' = bucket /\ i > 1
      BY <1>4, <1>6, <2>3
    <3> HIDE DEF a, p, b
    <3>2. /\ next' \in [Tids -> Links] /\ next'[p] = a
          /\ \A u \in Tids : u # p => next'[u] = next[u]
      BY <1>1, <2>1, <3>1
    <3>3. bucket'[b] = first
      BY <3>1 DEF first, b
    <3>4. QED BY <1>1, <2>1, <2>3, <3>1, <3>2, <3>3 DEF a, p
  <2>4. QED BY <2>2, <2>3
<1>10. \A u \in Elements(s) : u \in Tids
  BY <1>6 DEF Elements
<1>11. Linked(next', bucket'[b], hashtable'[b])
  <2> DEFINE start == IF i = 1 THEN next[s[i]] ELSE first
  <2> HIDE DEF b
  <2>1. \A u \in Elements(s) : (i > 1 => u # s[i - 1]) => next'[u] = next[u]
    BY <1>9, <1>10
  <2>2. i > 1 => next'[s[i - 1]] = next[s[i]]
    BY <1>9
  <2>3. Linked(next', start, RemoveIndex(s, i))
    BY <1>2, <2>1, <2>2, LinkedRemove
  <2>4. QED BY <1>8, <1>9, <2>3
<1>12. \A u \in Tids : u \notin Elements(s) => next'[u] = next[u]
  BY <1>6, <1>9
<1>13. ASSUME NEW d \in Buckets \ {b} PROVE Linked(next', bucket'[d], hashtable'[d])
  <2> DEFINE q == hashtable[d]
             start == bucket[d]
  <2>1. q \in Seq(Tids) /\ Linked(next, start, q) /\ bucket'[d] = start /\ hashtable'[d] = q
    BY <1>8, <1>9, ListsApart DEF ListInv
  <2>2. \A u \in Elements(q) : next'[u] = next[u]
    BY <1>1, <1>12, ListsApart DEF s
  <2> HIDE DEF q, start
  <2>3. Linked(next', start, q)
    BY <2>1, <2>2, LinkedFrame
  <2>4. QED BY <2>1, <2>3
<1>14. Represents(ReadyLinks', ready')
  <2>1. \A u \in Elements(ready) : u \in Tids /\ u \notin Elements(s)
    BY <1>1, ListsApart DEF s, Elements
  <2>2. QED BY <1>1, <1>9, <1>12, <2>1, ReadyLeft
<1>15. MarkedEnds'
  <2>1. SUFFICES ASSUME NEW d \in CPUs, mode'[d] = "mark"
                 PROVE  next'[currentThread[d]] = None
    BY <1>1 DEF MarkedEnds
  <2>2. mode[d] = "mark"
    BY <1>1, <2>1
  <2>3. currentThread[d] \in Tids /\ currentThread[d] \notin Elements(s)
    BY <1>1, <2>2, ListsApart DEF s
  <2>4. QED BY <1>12, <2>2, <2>3 DEF ListInv, MarkedEnds
<1>16. QED
  BY <1>9, <1>11, <1>13, <1>14, <1>15 DEF ListInv

\* The thread in hand is in no list: its link is cleared, and it joins the ready list if
\* it was asleep.
LEMMA ListWakeReady ==
    ASSUME QueueInv, ListInv, NEW c \in CPUs, TLWakeReady(c)
    PROVE  ListInv'
<1> DEFINE t == target[c]
           cl == [next EXCEPT ![t] = None]
           cleared == [ReadyLinks EXCEPT !.next = [@ EXCEPT ![t] = None]]
           l == [next |-> cl, head |-> head, tail |-> tail]
           asleep == threadState[t] = "SLEEPING"
           m == IF asleep THEN AddToReadyList(cleared, t) ELSE cleared
<1>1. /\ mode[c] = "ready" /\ t \in Tids /\ next \in [Tids -> Links]
      /\ mode' = [mode EXCEPT ![c] = "wake"] \/ mode' = [mode EXCEPT ![c] = "woken"]
      /\ mode \in [CPUs -> Modes]
      /\ ready' = IF asleep THEN Append(ready, t) ELSE ready
      /\ UNCHANGED <<hashtable, bucket, currentThread>>
  BY DEF TLWakeReady, WakeReady, WakeContinue, MoveTo, QueueInv, TypeInv, TypeOK, ListInv,
         Represents, ReadyLinks
<1>2. /\ InHand(t) /\ sleepsOn[t] \in Resources
      /\ \A b \in Buckets : t \notin Elements(hashtable[b])
  BY <1>1 DEF InHand, QueueInv, ChainInv, HandsLocked, ChainsExact
<1>3. threadState[t] # "READY" /\ t \notin Elements(ready)
  BY <1>1, <1>2, SchedulerAssumption, ListsApart DEF QueueInv, LifeInv, WantersLive
<1>4. \A d \in CPUs : mode[d] = "mark" => currentThread[d] # t
  BY <1>2 DEF QueueInv, ChainInv, MarkedUnchained
<1>5. next' = m.next /\ head' = m.head /\ tail' = m.tail
  BY DEF TLWakeReady, SetReadyLinks
<1>6. cleared = l
  <2>1. cleared = [[next |-> next, head |-> head, tail |-> tail] EXCEPT !.next = cl]
    BY DEF ReadyLinks
  <2> HIDE DEF cl
  <2>2. QED BY <2>1, NextUpdate
<1>7. cl \in [Tids -> Links] /\ \A u \in Tids : u # t => cl[u] = next[u]
  BY <1>1 DEF Links
<1>8. ready \in Seq(Tids) /\ NoDuplicates(ready) /\ \A u \in Elements(ready) : u \in Tids
  BY ListsApart DEF Elements
<1>9. Represents(l, ready)
  <2>1. Linked(next, head, ready) /\ tail = Nth(ready, Len(ready))
    BY DEF ListInv, Represents, ReadyLinks
  <2> HIDE DEF cl, t
  <2>2. \A u \in Elements(ready) : cl[u] = next[u]
    BY <1>3, <1>7, <1>8
  <2>3. Linked(cl, head, ready)
    BY <1>8, <2>1, <2>2, LinkedFrame
  <2>4. QED BY <1>7, <2>1, <2>3 DEF Represents
<1>10. /\ Represents(m, ready')
       /\ \A u \in Tids : m.next[u] # cl[u] => u \in Elements(ready) \cup {t}
  <2>1. CASE asleep
    <3>1. m = AddToReadyList(l, t) /\ ready' = Append(ready, t)
      BY <1>1, <1>6, <2>1
    <3>2. l = [next |-> cl, head |-> head, tail |-> tail]
      OBVIOUS
    <3> HIDE DEF m, l, cl, t, cleared, asleep
    <3>3. /\ Represents(m, Append(ready, t))
          /\ \A u \in Tids \ (Elements(ready) \cup {t}) : m.next[u] = cl[u]
      BY <1>1, <1>3, <1>8, <1>9, <3>1, <3>2, AddRepresents
    <3>4. QED BY <3>1, <3>3
  <2>2. CASE ~asleep
    <3>1. m = l /\ ready' = ready /\ l.next = cl
      BY <1>1, <1>6, <2>2
    <3> HIDE DEF m, l, cl, t, cleared, asleep
    <3>2. QED BY <1>9, <3>1
  <2>3. QED BY <2>1, <2>2
<1> HIDE DEF m, l, cl, t, cleared
<1>11. Represents(ReadyLinks', ready')
  BY <1>5, <1>10 DEF Represents, ReadyLinks
<1>12. \A d \in CPUs : mode'[d] = "mark" => mode[d] = "mark" /\ currentThread'[d] = currentThread[d]
  BY <1>1
<1>13. \A u \in Tids : next'[u] # next[u] => u \in Elements(ready) \cup {t}
  BY <1>5, <1>7, <1>10
<1>14. \A u \in Tids : next'[u] # next[u] =>
           /\ \A b \in Buckets : u \notin Elements(hashtable[b])
           /\ \A d \in CPUs : mode'[d] = "mark" => currentThread'[d] # u
  BY <1>2, <1>4, <1>12, <1>13, ListsApart
<1>15. QED
  BY <1>1, <1>11, <1>12, <1>14, ChainsLeft

-----------------------------------------------------------------------------
\* Each step is one of module Scheduler's.
LEMMA StepOfScheduler == [TLNext]_listVars => [Next]_vars
<1> SUFFICES ASSUME [TLNext]_listVars PROVE [Next]_vars
  OBVIOUS
<1>1. CASE UNCHANGED listVars
  BY <1>1 DEF listVars
<1>2. ASSUME NEW c \in CPUs, Unlinked(c) PROVE Next
  <2>1. ASSUME NEW r \in Resources, NEW k \in WakeKinds, StartWake(c, r, k[1], k[2])
        PROVE  Next
    <3>1. k[1] \in BOOLEAN /\ k[2] \in BOOLEAN
      BY ThreadListsAssumption
    <3>2. QED BY <2>1, <3>1 DEF Next, WakeCall
  <2>2. QED
    BY <1>2, <2>1 DEF Unlinked, Next, SchedulerStep, SleepqStep, ThreadStep
<1>3. ASSUME NEW c \in CPUs,
             TLSchedule(c) \/ TLSleepqLink(c) \/ TLWakeFind(c) \/ TLWakeReady(c)
      PROVE  Next
  BY <1>3 DEF TLSchedule, TLSleepqLink, TLWakeFind, TLWakeReady, Next, SchedulerStep,
              SleepqStep
<1>4. ASSUME NEW c \in CPUs, NEW t \in Tids,
             \/ TLThreadRun(c, t) \/ TLThreadInitialise(c, t)
             \/ \E r \in Resources : TLSleepqMark(c, t, r)
      PROVE  Next
  BY <1>4 DEF TLThreadRun, TLThreadInitialise, TLSleepqMark, Next, ThreadStep
<1>5. QED
  BY <1>1, <1>2, <1>3, <1>4 DEF TLNext

LEMMA ListStart == TLInit => ListInv
<1> SUFFICES ASSUME TLInit PROVE ListInv
  OBVIOUS
<1>1. /\ ready = <<1>> /\ head = 1 /\ tail = 1 /\ next = [t \in Tids |-> None]
      /\ bucket = [b \in Buckets |-> None] /\ mode = [c \in CPUs |-> "schedule"]
      /\ hashtable = [b \in Buckets |-> <<>>]
      /\ 1 \in Tids /\ None \in Links
  BY SchedulerAssumption DEF TLInit, Init, Tids, Links
<1>2. Represents(ReadyLinks, ready)
  <2>1. Len(ready) = 1 /\ ready[1] = 1
    BY <1>1
  <2>2. Linked(next, head, ready)
    BY <1>1, <2>1 DEF Linked, Nth
  <2>3. tail = Nth(ready, Len(ready)) /\ next \in [Tids -> Links]
    BY <1>1, <2>1 DEF Nth
  <2>4. QED BY <2>2, <2>3 DEF Represents, ReadyLinks
<1>3. \A b \in Buckets : Linked(next, bucket[b], hashtable[b])
  BY <1>1 DEF Linked, Nth
<1>4. MarkedEnds
  BY <1>1 DEF MarkedEnds
<1>5. QED
  BY <1>1, <1>2, <1>3, <1>4 DEF ListInv

LEMMA ListStep == QueueInv /\ ListInv /\ [TLNext]_listVars => ListInv'
<1> SUFFICES ASSUME QueueInv, ListInv, [TLNext]_listVars PROVE ListInv'
  OBVIOUS
<1>1. ASSUME NEW c \in CPUs, TLSchedule(c) PROVE ListInv'
  BY <1>1, ListSchedule
<1>2. ASSUME NEW c \in CPUs, TLSleepqLink(c) PROVE ListInv'
  BY <1>2, ListSleepqLink
<1>3. ASSUME NEW c \in CPUs, TLWakeFind(c) PROVE ListInv'
  BY <1>3, ListWakeFind
<1>4. ASSUME NEW c \in CPUs, TLWakeReady(c) PROVE ListInv'
  BY <1>4, ListWakeReady
<1>5. ASSUME NEW c \in CPUs, NEW t \in Tids, TLThreadRun(c, t) PROVE ListInv'
  BY <1>5, ListThreadRun
<1>6. ASSUME NEW c \in CPUs, NEW t \in Tids, TLThreadInitialise(c, t) PROVE ListInv'
  BY <1>6, ListThreadInitialise
<1>7. ASSUME NEW c \in CPUs, NEW t \in Tids, NEW r \in Resources, TLSleepqMark(c, t, r)
      PROVE  ListInv'
  BY <1>7, ListSleepqMark
<1>8. ASSUME UNCHANGED links, UNCHANGED <<ready, hashtable>>,
             \A d \in CPUs : mode'[d] = "mark" =>
                 mode[d] = "mark" /\ currentThread'[d] = currentThread[d]
      PROVE  ListInv'
  BY <1>8 DEF links, ListInv, Represents, ReadyLinks, Linked, MarkedEnds
<1>9. ASSUME NEW c \in CPUs, Unlinked(c) PROVE ListInv'
  <2>1. mode \in [CPUs -> Modes] /\ currentThread \in [CPUs -> Tids]
    BY DEF QueueInv, TypeInv, TypeOK
  <2>2. UNCHANGED <<ready, hashtable>> /\ UNCHANGED links
    BY <1>9 DEF Unlinked, Dispatch, TimerInterrupt, SoftwareInterrupt, ThreadSwitch,
                WakeNone, WakeReturn, StartWake, ThreadFinish, ThreadCreate
  <2>3. \A d \in CPUs : mode'[d] = "mark" =>
            mode[d] = "mark" /\ currentThread'[d] = currentThread[d]
    <3>1. CASE Dispatch(c)
      BY <2>1, <3>1 DEF Dispatch, MoveTo
    <3>2. CASE TimerInterrupt(c) \/ SoftwareInterrupt(c) \/ ThreadSwitch(c)
      BY <2>1, <3>2 DEF TimerInterrupt, SoftwareInterrupt, ThreadSwitch, MoveTo
    <3>3. CASE WakeNone(c) \/ WakeReturn(c)
      BY <2>1, <3>3 DEF WakeNone, WakeReturn, MoveTo
    <3>4. ASSUME NEW r \in Resources, NEW k \in WakeKinds, StartWake(c, r, k[1], k[2])
          PROVE  mode' = [mode EXCEPT ![c] = "wake"] /\ currentThread' = currentThread
      BY <3>4 DEF StartWake, MoveTo
    <3>5. ASSUME NEW t \in Tids, ThreadFinish(c, t) \/ \E u \in Tids : ThreadCreate(c, t, u)
          PROVE  mode' = mode /\ currentThread' = currentThread
      BY <3>5 DEF ThreadFinish, ThreadCreate
    <3>6. QED
      BY <1>9, <2>1, <3>1, <3>2, <3>3, <3>4, <3>5 DEF Unlinked
  <2>4. QED BY <1>8, <2>2, <2>3
<1>10. CASE UNCHANGED listVars
  BY <1>8, <1>10 DEF listVars, vars
<1>11. QED
  BY <1>1, <1>2, <1>3, <1>4, <1>5, <1>6, <1>7, <1>9, <1>10 DEF TLNext

\* The ready list and every chain of the sleep queue, threaded through one field under
\* two locks, are the sequences that the scheduler and the sleep queue are meant to
\* keep (scheduler.c, sleepq.c).
THEOREM ListsRepresentQueuesAlways == TLSpec => []ListsRepresentQueues
<1>1. TLSpec => Spec
  <2>1. TLInit => Init
    BY DEF TLInit
  <2>2. QED BY <2>1, StepOfScheduler, PTL DEF TLSpec, Spec
<1>2. TLSpec => []QueueInv
  BY <1>1, ChainInvariance, PTL DEF QueueInv
<1>3. TLSpec => []ListInv
  BY <1>2, ListStart, ListStep, PTL DEF TLSpec
<1>4. QueueInv /\ ListInv => ListsRepresentQueues
  <2> SUFFICES ASSUME QueueInv, ListInv PROVE ListsRepresentQueues
    OBVIOUS
  <2>1. next \in [Tids -> Links]
    BY DEF ListInv, Represents, ReadyLinks
  <2>2. Reached(head) = ready
    <3>1. Linked(next, head, ready)
      BY DEF ListInv, Represents, ReadyLinks
    <3>2. QED BY <2>1, <3>1, ListsApart, ReachedIsList
  <2>3. tail = IF ready = <<>> THEN None ELSE ready[Len(ready)]
    <3>1. tail = Nth(ready, Len(ready)) /\ ready \in Seq(Tids)
      BY ListsApart DEF ListInv, Represents, ReadyLinks
    <3>2. CASE ready = <<>>
      BY <3>1, <3>2 DEF Nth
    <3>3. CASE ready # <<>>
      BY <3>1, <3>3, EmptyList
    <3>4. QED BY <3>2, <3>3
  <2>4. ASSUME NEW b \in Buckets PROVE Reached(bucket[b]) = hashtable[b]
    <3> DEFINE s == hashtable[b]
               first == bucket[b]
    <3>1. s \in Seq(Tids \ {Idle}) /\ NoDuplicates(s) /\ Linked(next, first, s)
      BY ListsApart DEF ListInv
    <3> HIDE DEF s, first
    <3>2. Reached(first) = s
      BY <2>1, <3>1, ReachedIsList
    <3>3. QED BY <3>2 DEF s, first
  <2>5. QED BY <2>2, <2>3, <2>4 DEF ListsRepresentQueues
<1>5. QED
  BY <1>2, <1>3, <1>4, PTL
=============================================================================
