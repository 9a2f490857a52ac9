------------------------- MODULE UserSemaphoreProofs -------------------------
(***************************************************************************)
(* Proofs about module UserSemaphore, for any number of processes, names   *)
(* and table entries.  That no two entries have the same name is proved of *)
(* all programs; the rest of those that are careful: without that bound it *)
(* does not hold (see FreshNotAvailable).                                  *)
(***************************************************************************)
EXTENDS UserSemaphore, TLAPS

USTypeOK ==
    /\ name \in [Slots -> Names]
    /\ cut \subseteq Slots
    /\ creator \in [Slots -> Processes \cup {NoProcess}]
    /\ value \in [Slots -> Int]
    /\ slock \in [Slots -> BOOLEAN]
    /\ sleepers \in [Slots -> Seq(Processes)]
    /\ at \in [Processes -> Places]
    /\ hand \in [Processes -> Slots \cup {NoSlot}]
    /\ handles \in [Processes -> SUBSET Slots]

\* Process p is in the middle of creating or destroying a semaphore.
Editing(p) == at[p] \in {"value", "lock", "unname"}

\* One process at a time does that, and has the semaphore in its hand.
OneEditor ==
    /\ \A p, q \in Processes : Editing(p) /\ Editing(q) => p = q
    /\ \A p \in Processes : hand[p] # NoSlot <=> Editing(p)

\* The entry that is being edited: it has a name, and no one sleeps on it.
EditedEntry ==
    \A p \in Processes : Editing(p) =>
        /\ name[hand[p]] # NoName
        /\ sleepers[hand[p]] = <<>>
        /\ creator[hand[p]] = NoProcess <=> at[p] = "unname"

\* Only semaphores that are open, and completely so, have handles.
HandlesOpen ==
    \A p \in Processes : \A s \in handles[p] :
        /\ creator[s] # NoProcess
        /\ \A q \in Processes : hand[q] # s

\* A process sleeps in one place of one queue, and is asleep there.
SleepersApart ==
    /\ \A s \in Slots : \A i \in DOMAIN sleepers[s] : at[sleepers[s][i]] = "asleep"
    /\ \A r, s \in Slots : \A i \in DOMAIN sleepers[r], j \in DOMAIN sleepers[s] :
           sleepers[r][i] = sleepers[s][j] => r = s /\ i = j

TableInv == USTypeOK /\ OneEditor /\ EditedEntry /\ HandlesOpen /\ NamesLeadToOne

USInv == TableInv /\ SleepersApart /\ ValueCountsSleepers /\ ClosedUnused

-----------------------------------------------------------------------------
LEMMA SlotFacts == NoSlot \notin Slots /\ \A s \in Slots : s \in Int
BY UserSemaphoreAssumption DEF NoSlot, Slots

\* No two entries have the same name, of any programs: create_fresh_semaphore cuts a
\* name, or has seen that no entry has it.
NamesApart ==
    /\ name \in [Slots -> Names]
    /\ \A r, s \in Slots : name[r] = name[s] /\ name[r] # NoName => r = s \/ r \in cut \/ s \in cut

LEMMA CreateFreshApart ==
    ASSUME NamesApart, NEW p \in Processes, NEW n \in Names, CreateFresh(p, n)
    PROVE  NamesApart'
<1>1. PICK s \in Slots : /\ name' = [name EXCEPT ![s] = Cut[n]]
                         /\ cut' = IF Fits(n) THEN cut \ {s} ELSE cut \cup {s}
  BY DEF CreateFresh
<1>2. /\ name'[s] = Cut[n] /\ \A r \in Slots \ {s} : name'[r] = name[r]
      /\ name' \in [Slots -> Names]
  BY <1>1, UserSemaphoreAssumption DEF NamesApart
<1>3. \A r \in Slots : name[r] # n
  BY DEF CreateFresh, NameTaken
<1>4. \A r \in Slots \ {s} : r \in cut' <=> r \in cut
  BY <1>1
<1>5. Cut[n] = n \/ s \in cut'
  BY <1>1 DEF Fits
<1>6. ASSUME NEW r \in Slots, NEW t \in Slots, name'[r] = name'[t], name'[r] # NoName
      PROVE  r = t \/ r \in cut' \/ t \in cut'
  <2>1. CASE r # s /\ t # s
    BY <1>2, <1>4, <1>6, <2>1 DEF NamesApart
  <2>2. CASE r = s \/ t = s
    BY <1>2, <1>3, <1>5, <1>6, <2>2
  <2>3. QED
    BY <2>1, <2>2
<1>7. QED
  BY <1>2, <1>6 DEF NamesApart

LEMMA ApartStep == NamesApart /\ [Next]_vars => NamesApart'
<1> SUFFICES ASSUME NamesApart, [Next]_vars PROVE NamesApart'
  OBVIOUS
<1>1. ASSUME NEW p \in Processes, NEW n \in Names, CreateFresh(p, n)
      PROVE  NamesApart'
  BY <1>1, CreateFreshApart
<1>2. ASSUME NEW p \in Processes, DestroyName(p)
      PROVE  NamesApart'
  <2>1. name' = [name EXCEPT ![hand[p]] = NoName] /\ cut' = cut \ {hand[p]}
    BY <1>2 DEF DestroyName
  <2>2. name' \in [Slots -> Names]
    BY <2>1, UserSemaphoreAssumption DEF NamesApart
  <2>3. ASSUME NEW r \in Slots, name'[r] # NoName
        PROVE  name'[r] = name[r] /\ (r \in cut' <=> r \in cut)
    BY <2>1, <2>3 DEF NamesApart
  <2>4. QED
    BY <2>2, <2>3 DEF NamesApart
<1>3. CASE UNCHANGED <<name, cut>>
  BY <1>3 DEF NamesApart
<1>4. QED
  BY <1>1, <1>2, <1>3 DEF Next, CreateValue, CreateLock, FindExisting, P, V, DestroyCreator, vars, table

\* userland_semaphore_init
LEMMA USInit == Init => USInv
<1> SUFFICES ASSUME Init PROVE USInv
  OBVIOUS
<1>1. \A s \in Slots : sleepers[s] = <<>> /\ DOMAIN sleepers[s] = {} /\ Len(sleepers[s]) = 0
  BY DEF Init
<1>2. USTypeOK
  BY UserSemaphoreAssumption DEF Init, USTypeOK, Places
<1>3. OneEditor /\ EditedEntry /\ HandlesOpen /\ NamesLeadToOne
  BY SlotFacts DEF Init, OneEditor, Editing, EditedEntry, HandlesOpen, NamesLeadToOne
<1>4. SleepersApart /\ ValueCountsSleepers /\ ClosedUnused
  BY <1>1 DEF Init, SleepersApart, ValueCountsSleepers, ClosedUnused
<1>5. QED
  BY <1>2, <1>3, <1>4 DEF USInv, TableInv

\* Nobody edits while a careful program opens or closes a semaphore.
LEMMA NobodyEdits ==
    ASSUME Careful, TableInv, MayOpenOrClose
    PROVE  \A q \in Processes : ~Editing(q) /\ hand[q] = NoSlot
BY DEF TableInv, OneEditor, Editing, MayOpenOrClose

\* create_fresh_semaphore takes an entry that is free and that nobody knows.
LEMMA CreateFreshInv ==
    ASSUME Careful, USInv, NEW p \in Processes, NEW n \in Names, CreateFresh(p, n)
    PROVE  USInv'
<1> USE SlotFacts, UserSemaphoreAssumption DEF USInv, TableInv
<1>1. PICK s \in Slots : /\ creator[s] = NoProcess
                         /\ name' = [name EXCEPT ![s] = Cut[n]]
                         /\ cut' = IF Fits(n) THEN cut \ {s} ELSE cut \cup {s}
                         /\ creator' = [creator EXCEPT ![s] = p]
                         /\ hand' = [hand EXCEPT ![p] = s]
  BY DEF CreateFresh, LastFree
<1>2. /\ at[p] = "user" /\ at' = [at EXCEPT ![p] = "value"]
      /\ \A r \in Slots : name[r] # n
      /\ UNCHANGED <<value, slock, sleepers, handles>>
      /\ \A q \in Processes : ~Editing(q) /\ hand[q] = NoSlot
  BY NobodyEdits DEF CreateFresh, MoveTo, NameTaken
<1>3. USTypeOK /\ name[s] = NoName /\ n # NoName /\ Cut[n] \in Names \ {NoName}
  <2>1. name[s] = NoName
    BY <1>1, <1>2 DEF NamesLeadToOne
  <2>2. QED
    BY <1>2, <2>1
<1>4. USTypeOK'
  BY <1>1, <1>2, <1>3 DEF USTypeOK, Places
<1>5. OneEditor'
  BY <1>1, <1>2, <1>3 DEF USTypeOK, OneEditor, Editing
<1>6. sleepers[s] = <<>> /\ \A q \in Processes : s \notin handles[q]
  BY <1>1 DEF ClosedUnused, HandlesOpen
<1>7. EditedEntry'
  <2>1. \A q \in Processes : Editing(q)' => q = p
    BY <1>2, <1>3 DEF USTypeOK, Editing
  <2>2. /\ name'[hand'[p]] = Cut[n] /\ creator'[hand'[p]] = p /\ at'[p] = "value"
        /\ sleepers'[hand'[p]] = <<>>
    BY <1>1, <1>2, <1>3, <1>6 DEF USTypeOK
  <2>3. QED
    BY <1>3, <2>1, <2>2 DEF EditedEntry
<1>8. HandlesOpen'
  BY <1>1, <1>2, <1>3, <1>6 DEF USTypeOK, HandlesOpen
<1>9. NamesLeadToOne'
  <2>1. NamesApart'
    BY CreateFreshApart DEF NamesApart, USTypeOK, NamesLeadToOne
  <2>2. ASSUME NEW r \in Slots, \A q \in Processes : hand'[q] # r
        PROVE  name'[r] = NoName <=> creator'[r] = NoProcess
    <3>1. r # s
      BY <1>1, <1>3, <2>2 DEF USTypeOK
    <3>2. name[r] = NoName <=> creator[r] = NoProcess
      BY <1>2 DEF NamesLeadToOne
    <3>3. QED
      BY <1>1, <1>3, <3>1, <3>2 DEF USTypeOK
  <2>3. QED
    BY <2>1, <2>2 DEF NamesApart, NamesLeadToOne
<1>10. SleepersApart'
  <2>1. ASSUME NEW r \in Slots, NEW i \in DOMAIN sleepers[r]
        PROVE  at'[sleepers[r][i]] = "asleep"
    BY <1>2, <1>3, <2>1 DEF USTypeOK, SleepersApart
  <2>2. QED
    BY <1>2, <2>1 DEF SleepersApart
<1>11. ValueCountsSleepers' /\ ClosedUnused'
  BY <1>1, <1>2, <1>3, <1>6 DEF USTypeOK, ValueCountsSleepers, ClosedUnused
<1>12. QED
  BY <1>4, <1>5, <1>7, <1>8, <1>9, <1>10, <1>11

\* What a step does to the sleepers if it moves a process that does not sleep
\* to a place where it does not either.
LEMMA SleepersStay ==
    ASSUME USInv, NEW p \in Processes, at[p] # "asleep", NEW place,
           at' = [at EXCEPT ![p] = place], sleepers' = sleepers
    PROVE  SleepersApart'
<1>1. ASSUME NEW r \in Slots, NEW i \in DOMAIN sleepers[r]
      PROVE  at'[sleepers[r][i]] = "asleep"
  <2>1. at[sleepers[r][i]] = "asleep" /\ sleepers[r][i] \in Processes
    BY DEF USInv, TableInv, USTypeOK, SleepersApart
  <2>2. QED
    BY <2>1 DEF USInv, TableInv, USTypeOK
<1>2. QED
  BY <1>1 DEF USInv, SleepersApart

\* The value is set while nobody sleeps on the entry.
LEMMA CreateValueInv ==
    ASSUME Careful, USInv, NEW p \in Processes, CreateValue(p)
    PROVE  USInv'
<1> USE SlotFacts, UserSemaphoreAssumption DEF USInv, TableInv
<1>1. PICK v \in InitialValues : value' = [value EXCEPT ![hand[p]] = v]
  BY DEF CreateValue
<1>2. /\ at[p] = "value" /\ at' = [at EXCEPT ![p] = "lock"]
      /\ UNCHANGED <<name, cut, creator, slock, sleepers, hand, handles>>
      /\ v \in Int /\ v >= 0
  BY <1>1 DEF CreateValue, MoveTo
<1>3. USTypeOK /\ hand[p] \in Slots /\ sleepers[hand[p]] = <<>>
  BY <1>2 DEF OneEditor, Editing, EditedEntry, USTypeOK
<1>4. USTypeOK'
  BY <1>1, <1>2, <1>3 DEF USTypeOK, Places
<1>5. \A q \in Processes :
          (Editing(q)' <=> Editing(q)) /\ (at'[q] = "unname" <=> at[q] = "unname")
  BY <1>2, <1>3 DEF USTypeOK, Editing
<1>6. OneEditor' /\ EditedEntry' /\ HandlesOpen' /\ NamesLeadToOne' /\ ClosedUnused'
  BY <1>2, <1>5 DEF OneEditor, EditedEntry, HandlesOpen, NamesLeadToOne, ClosedUnused
<1>7. SleepersApart'
  BY <1>2, SleepersStay
<1>8. ValueCountsSleepers'
  BY <1>1, <1>2, <1>3 DEF USTypeOK, ValueCountsSleepers
<1>9. QED
  BY <1>4, <1>6, <1>7, <1>8

\* The creator gets its handle when the entry is complete.
LEMMA CreateLockInv ==
    ASSUME Careful, USInv, NEW p \in Processes, CreateLock(p)
    PROVE  USInv'
<1> USE SlotFacts, UserSemaphoreAssumption DEF USInv, TableInv
<1> DEFINE s == hand[p]
<1>1. /\ at[p] = "lock" /\ at' = [at EXCEPT ![p] = "user"]
      /\ slock' = [slock EXCEPT ![s] = FALSE]
      /\ handles' = [handles EXCEPT ![p] = @ \cup {s}]
      /\ hand' = [hand EXCEPT ![p] = NoSlot]
      /\ UNCHANGED <<name, cut, creator, value, sleepers>>
  BY DEF CreateLock, MoveTo
<1>2. /\ USTypeOK /\ s \in Slots /\ name[s] # NoName /\ creator[s] # NoProcess
      /\ \A q \in Processes \ {p} : ~Editing(q) /\ hand[q] = NoSlot
  BY <1>1 DEF OneEditor, Editing, EditedEntry, USTypeOK
<1>3. USTypeOK'
  BY <1>1, <1>2 DEF USTypeOK, Places
<1>4. \A q \in Processes : ~Editing(q)' /\ hand'[q] = NoSlot
  BY <1>1, <1>2 DEF USTypeOK, Editing
<1>5. OneEditor' /\ EditedEntry'
  BY <1>4 DEF OneEditor, EditedEntry
<1>6. HandlesOpen'
  BY <1>1, <1>2, <1>4 DEF USTypeOK, HandlesOpen
<1>7. NamesLeadToOne'
  BY <1>1, <1>2 DEF USTypeOK, NamesLeadToOne
<1>8. SleepersApart'
  BY <1>1, SleepersStay
<1>9. ValueCountsSleepers' /\ ClosedUnused'
  BY <1>1 DEF ValueCountsSleepers, ClosedUnused
<1>10. QED
  BY <1>3, <1>5, <1>6, <1>7, <1>8, <1>9

\* An entry found by its name is open, for nobody is editing it.
LEMMA FindExistingInv ==
    ASSUME Careful, USInv, NEW p \in Processes, NEW n \in Names, FindExisting(p, n)
    PROVE  USInv'
<1> USE SlotFacts, UserSemaphoreAssumption DEF USInv, TableInv
<1>1. PICK s \in Slots : name[s] = n /\ handles' = [handles EXCEPT ![p] = @ \cup {s}]
  BY DEF FindExisting
<1>2. /\ UNCHANGED <<table, sleepers, at, hand>>
      /\ \A q \in Processes : ~Editing(q) /\ hand[q] = NoSlot
      /\ n # NoName
  BY NobodyEdits DEF FindExisting
<1>3. creator[s] # NoProcess
  BY <1>1, <1>2 DEF NamesLeadToOne
<1>4. USTypeOK' /\ HandlesOpen'
  BY <1>1, <1>2, <1>3 DEF USTypeOK, HandlesOpen, table
<1>5. OneEditor' /\ EditedEntry' /\ NamesLeadToOne' /\ SleepersApart' /\ ValueCountsSleepers'
      /\ ClosedUnused'
  BY <1>2 DEF OneEditor, Editing, EditedEntry, NamesLeadToOne, SleepersApart, ValueCountsSleepers,
              ClosedUnused, table
<1>6. QED
  BY <1>4, <1>5

\* The table is not touched by a step that changes a value, and moves a process
\* that does not edit to a place where it does not either.
LEMMA TableStays ==
    ASSUME TableInv, NEW p \in Processes, NEW place \in {"user", "asleep"},
           at[p] \in {"user", "asleep"}, at' = [at EXCEPT ![p] = place] \/ at' = at,
           UNCHANGED <<name, cut, creator, slock, hand, handles>>,
           value' \in [Slots -> Int], sleepers' \in [Slots -> Seq(Processes)],
           \A q \in Processes : Editing(q) => sleepers'[hand[q]] = sleepers[hand[q]]
    PROVE  TableInv'
<1> USE DEF TableInv
<1>1. USTypeOK'
  BY DEF USTypeOK, Places
<1>2. \A q \in Processes :
          (Editing(q)' <=> Editing(q)) /\ (at'[q] = "unname" <=> at[q] = "unname")
  BY DEF USTypeOK, Editing
<1>3. OneEditor' /\ EditedEntry' /\ HandlesOpen' /\ NamesLeadToOne'
  BY <1>2 DEF OneEditor, EditedEntry, HandlesOpen, NamesLeadToOne
<1>4. QED
  BY <1>1, <1>3

\* A process that is let in works on an open entry that nobody edits.
LEMMA EntersOpen ==
    ASSUME TableInv, NEW p \in Processes, NEW s \in Slots, Enters(p, s)
    PROVE  creator[s] # NoProcess /\ \A q \in Processes : hand[q] # s
BY DEF TableInv, HandlesOpen, Enters

\* userland_semaphore_P puts its caller to sleep exactly when there is no token.
LEMMA PInv ==
    ASSUME USInv, NEW p \in Processes, NEW s \in Slots, P(p, s)
    PROVE  USInv'
<1> USE DEF USInv
<1>1. /\ at[p] = "user" /\ creator[s] # NoProcess /\ USTypeOK
      /\ \A q \in Processes : hand[q] # s
      /\ value' = [value EXCEPT ![s] = @ - 1]
      /\ UNCHANGED <<name, cut, creator, slock, hand, handles>>
  BY EntersOpen DEF P, Enters, TableInv
<1>2. /\ value[s] \in Int /\ value'[s] = value[s] - 1
      /\ \A r \in Slots \ {s} : value'[r] = value[r]
      /\ value' \in [Slots -> Int]
  BY <1>1 DEF USTypeOK
<1>3. Len(sleepers[s]) = (IF value[s] < 0 THEN -value[s] ELSE 0)
  BY DEF ValueCountsSleepers
<1>4. CASE value[s] - 1 < 0
  <2> DEFINE q == Append(sleepers[s], p)
  <2>1. /\ q \in Seq(Processes) /\ Len(q) = Len(sleepers[s]) + 1
        /\ DOMAIN sleepers[s] = 1 .. Len(sleepers[s]) /\ DOMAIN q = 1 .. Len(sleepers[s]) + 1
        /\ \A i \in DOMAIN sleepers[s] : q[i] = sleepers[s][i]
        /\ q[Len(sleepers[s]) + 1] = p
    <3>1. sleepers[s] \in Seq(Processes)
      BY <1>1 DEF USTypeOK
    <3>2. QED
      BY <3>1
  <2> HIDE DEF q
  <2>2. /\ at' = [at EXCEPT ![p] = "asleep"] /\ sleepers' = [sleepers EXCEPT ![s] = q]
    BY <1>4 DEF P, MoveTo, q
  <2>3. /\ sleepers' \in [Slots -> Seq(Processes)] /\ sleepers'[s] = q
        /\ \A r \in Slots \ {s} : sleepers'[r] = sleepers[r]
    BY <1>1, <2>1, <2>2 DEF USTypeOK
  <2>4. TableInv'
    <3>1. \A u \in Processes : Editing(u) => hand[u] \in Slots \ {s}
      BY <1>1 DEF TableInv, OneEditor, USTypeOK
    <3>2. QED
      BY <1>1, <1>2, <2>2, <2>3, <3>1, TableStays
  <2>5. ASSUME NEW r \in Slots, NEW i \in DOMAIN sleepers'[r]
        PROVE  \/ i \in DOMAIN sleepers[r] /\ sleepers'[r][i] = sleepers[r][i]
               \/ r = s /\ i = Len(sleepers[s]) + 1 /\ sleepers'[r][i] = p
    BY <2>1, <2>3
  <2>6. ASSUME NEW r \in Slots, NEW i \in DOMAIN sleepers[r]
        PROVE  sleepers[r][i] # p /\ sleepers[r][i] \in Processes /\ at[sleepers[r][i]] = "asleep"
    BY <1>1 DEF SleepersApart, USTypeOK
  <2>7. SleepersApart'
    <3>1. ASSUME NEW r \in Slots, NEW i \in DOMAIN sleepers'[r]
          PROVE  at'[sleepers'[r][i]] = "asleep"
      BY <1>1, <2>2, <2>5, <2>6 DEF USTypeOK
    <3>2. ASSUME NEW r \in Slots, NEW t \in Slots,
                 NEW i \in DOMAIN sleepers'[r], NEW j \in DOMAIN sleepers'[t],
                 sleepers'[r][i] = sleepers'[t][j]
          PROVE  r = t /\ i = j
      BY <2>5, <2>6, <3>2 DEF SleepersApart
    <3>3. QED
      BY <3>1, <3>2 DEF SleepersApart
  <2>8. ValueCountsSleepers'
    <3>1. Len(sleepers'[s]) = -value'[s] /\ value'[s] < 0
      BY <1>2, <1>3, <1>4, <2>1, <2>3
    <3>2. ASSUME NEW r \in Slots \ {s}
          PROVE  Len(sleepers'[r]) = (IF value'[r] < 0 THEN -value'[r] ELSE 0)
      BY <1>2, <2>3, <3>2 DEF ValueCountsSleepers
    <3>3. QED
      BY <3>1, <3>2 DEF ValueCountsSleepers
  <2>9. ClosedUnused'
    BY <1>1, <2>3 DEF ClosedUnused
  <2>10. QED
    BY <2>4, <2>7, <2>8, <2>9
<1>5. CASE ~(value[s] - 1 < 0)
  <2>1. UNCHANGED <<at, sleepers>>
    BY <1>5 DEF P
  <2>2. TableInv'
    BY <1>1, <1>2, <2>1, TableStays DEF USTypeOK
  <2>3. SleepersApart' /\ ValueCountsSleepers' /\ ClosedUnused'
    BY <1>1, <1>2, <1>3, <1>5, <2>1 DEF SleepersApart, ValueCountsSleepers, ClosedUnused
  <2>4. QED
    BY <2>2, <2>3
<1>6. QED
  BY <1>4, <1>5

\* userland_semaphore_V wakes the first sleeper if there is one, else leaves a token.
LEMMA VInv ==
    ASSUME USInv, NEW p \in Processes, NEW s \in Slots, V(p, s)
    PROVE  USInv'
<1> USE DEF USInv
<1>1. /\ creator[s] # NoProcess /\ USTypeOK /\ at[p] = "user"
      /\ \A q \in Processes : hand[q] # s
      /\ value' = [value EXCEPT ![s] = @ + 1]
      /\ UNCHANGED <<name, cut, creator, slock, hand, handles>>
  BY EntersOpen DEF V, Enters, TableInv
<1>2. /\ value[s] \in Int /\ value'[s] = value[s] + 1
      /\ \A r \in Slots \ {s} : value'[r] = value[r]
      /\ value' \in [Slots -> Int]
  BY <1>1 DEF USTypeOK
<1>3. /\ Len(sleepers[s]) = (IF value[s] < 0 THEN -value[s] ELSE 0)
      /\ sleepers[s] \in Seq(Processes)
      /\ sleepers[s] = <<>> <=> Len(sleepers[s]) = 0
  BY <1>1 DEF ValueCountsSleepers, USTypeOK
<1>4. CASE FindsWaiter(s) /\ sleepers[s] # <<>>
  <2> DEFINE q == Tail(sleepers[s])
             h == Head(sleepers[s])
  <2>1. /\ q \in Seq(Processes) /\ Len(q) = Len(sleepers[s]) - 1
        /\ DOMAIN sleepers[s] = 1 .. Len(sleepers[s]) /\ DOMAIN q = 1 .. Len(sleepers[s]) - 1
        /\ Len(sleepers[s]) \in Nat \ {0}
        /\ \A i \in DOMAIN q : q[i] = sleepers[s][i + 1]
        /\ h = sleepers[s][1] /\ h \in Processes
    BY <1>3, <1>4
  <2> HIDE DEF q, h
  <2>2. /\ at' = [at EXCEPT ![h] = "user"] /\ sleepers' = [sleepers EXCEPT ![s] = q]
    BY <1>4 DEF V, MoveTo, q, h
  <2>3. /\ sleepers' \in [Slots -> Seq(Processes)] /\ sleepers'[s] = q
        /\ \A r \in Slots \ {s} : sleepers'[r] = sleepers[r]
    BY <1>1, <2>1, <2>2 DEF USTypeOK
  <2>4. at[h] = "asleep"
    BY <2>1 DEF SleepersApart
  <2>5. TableInv'
    <3>1. \A u \in Processes : Editing(u) => hand[u] \in Slots \ {s}
      BY <1>1 DEF TableInv, OneEditor, USTypeOK
    <3>2. QED
      BY <1>1, <1>2, <2>1, <2>2, <2>3, <2>4, <3>1, TableStays
  <2> DEFINE Was(r, i) == IF r = s THEN i + 1 ELSE i
  <2>6. ASSUME NEW r \in Slots, NEW i \in DOMAIN sleepers'[r]
        PROVE  /\ Was(r, i) \in DOMAIN sleepers[r]
               /\ sleepers'[r][i] = sleepers[r][Was(r, i)]
               /\ r = s => Was(r, i) # 1
    <3>1. CASE r = s
      <4>1. i \in DOMAIN q /\ sleepers'[r][i] = q[i]
        BY <2>3, <3>1
      <4>2. /\ i + 1 \in DOMAIN sleepers[s] /\ i + 1 # 1
            /\ q[i] = sleepers[s][i + 1]
        BY <2>1, <4>1
      <4>3. QED
        BY <3>1, <4>1, <4>2
    <3>2. CASE r # s
      BY <2>3, <3>2
    <3>3. QED
      BY <3>1, <3>2
  <2>7. SleepersApart'
    <3>1. ASSUME NEW r \in Slots, NEW i \in DOMAIN sleepers'[r]
          PROVE  at'[sleepers'[r][i]] = "asleep"
      <4> DEFINE k == Was(r, i)
      <4>1. k \in DOMAIN sleepers[r] /\ sleepers'[r][i] = sleepers[r][k] /\ (r = s => k # 1)
        BY <2>6
      <4> HIDE DEF k
      <4>2. sleepers[r][k] # h
        BY <2>1, <4>1 DEF SleepersApart
      <4>3. at[sleepers[r][k]] = "asleep" /\ sleepers[r][k] \in Processes
        BY <1>1, <4>1 DEF SleepersApart, USTypeOK
      <4>4. QED
        BY <1>1, <2>2, <4>1, <4>2, <4>3 DEF USTypeOK
    <3>2. ASSUME NEW r \in Slots, NEW t \in Slots,
                 NEW i \in DOMAIN sleepers'[r], NEW j \in DOMAIN sleepers'[t],
                 sleepers'[r][i] = sleepers'[t][j]
          PROVE  r = t /\ i = j
      <4> DEFINE k == Was(r, i)
                 l == Was(t, j)
      <4>1. /\ k \in DOMAIN sleepers[r] /\ sleepers'[r][i] = sleepers[r][k]
            /\ l \in DOMAIN sleepers[t] /\ sleepers'[t][j] = sleepers[t][l]
        BY <2>6
      <4>2. i \in Int /\ j \in Int
        BY <2>3 DEF USTypeOK
      <4>3. r = t /\ k = l
        <5> HIDE DEF k, l
        <5>1. sleepers[r][k] = sleepers[t][l]
          BY <3>2, <4>1
        <5>2. \A a, b \in Slots : \A x \in DOMAIN sleepers[a], y \in DOMAIN sleepers[b] :
                  sleepers[a][x] = sleepers[b][y] => a = b /\ x = y
          BY DEF SleepersApart
        <5>3. QED
          BY <4>1, <5>1, <5>2
      <4>4. QED
        BY <4>2, <4>3
    <3>3. QED
      BY <3>1, <3>2 DEF SleepersApart
  <2>8. ValueCountsSleepers'
    <3>1. value[s] < 0
      BY <1>2, <1>3, <1>4 DEF FindsWaiter
    <3>2. Len(sleepers'[s]) = (IF value'[s] < 0 THEN -value'[s] ELSE 0)
      BY <1>2, <1>3, <2>1, <2>3, <3>1
    <3>3. ASSUME NEW r \in Slots \ {s}
          PROVE  Len(sleepers'[r]) = (IF value'[r] < 0 THEN -value'[r] ELSE 0)
      BY <1>2, <2>3, <3>3 DEF ValueCountsSleepers
    <3>4. QED
      BY <3>2, <3>3 DEF ValueCountsSleepers
  <2>9. ClosedUnused'
    BY <1>1, <2>3 DEF ClosedUnused
  <2>10. QED
    BY <2>5, <2>7, <2>8, <2>9
<1>5. CASE ~(FindsWaiter(s) /\ sleepers[s] # <<>>)
  <2>1. UNCHANGED <<at, sleepers>>
    BY <1>5 DEF V
  <2>2. TableInv'
    BY <1>1, <1>2, <2>1, TableStays DEF USTypeOK
  <2>3. ValueCountsSleepers'
    BY <1>2, <1>3, <1>5, <2>1 DEF ValueCountsSleepers, FindsWaiter
  <2>4. SleepersApart' /\ ClosedUnused'
    BY <1>1, <2>1 DEF SleepersApart, ClosedUnused
  <2>5. QED
    BY <2>2, <2>3, <2>4
<1>6. QED
  BY <1>4, <1>5

\* userland_semaphore_destroy closes an entry on which nobody sleeps.
LEMMA DestroyCreatorInv ==
    ASSUME Careful, USInv, NEW p \in Processes, NEW s \in Slots, DestroyCreator(p, s)
    PROVE  USInv'
<1> USE SlotFacts, UserSemaphoreAssumption DEF USInv, TableInv
<1>1. /\ at[p] = "user" /\ value[s] >= 0 /\ creator[s] # NoProcess
      /\ creator' = [creator EXCEPT ![s] = NoProcess]
      /\ slock' = [slock EXCEPT ![s] = TRUE]
      /\ hand' = [hand EXCEPT ![p] = s]
      /\ at' = [at EXCEPT ![p] = "unname"]
      /\ handles' = [q \in Processes |-> handles[q] \ {s}]
      /\ UNCHANGED <<name, cut, value, sleepers>>
      /\ \A q \in Processes : ~Editing(q) /\ hand[q] = NoSlot
  BY NobodyEdits DEF DestroyCreator, Enters, NobodyWaits, MoveTo
<1>2. USTypeOK /\ sleepers[s] = <<>> /\ name[s] # NoName
  <2>1. Len(sleepers[s]) = 0 /\ sleepers[s] \in Seq(Processes)
    BY <1>1 DEF ValueCountsSleepers, USTypeOK
  <2>2. QED
    BY <1>1, <2>1 DEF NamesLeadToOne
<1>3. USTypeOK'
  BY <1>1, <1>2 DEF USTypeOK, Places
<1>4. OneEditor'
  BY <1>1, <1>2 DEF USTypeOK, OneEditor, Editing
<1>5. EditedEntry'
  <2>1. \A q \in Processes : Editing(q)' => q = p
    BY <1>1, <1>2 DEF USTypeOK, Editing
  <2>2. hand'[p] = s /\ creator'[s] = NoProcess /\ at'[p] = "unname"
    BY <1>1, <1>2 DEF USTypeOK
  <2>3. QED
    BY <1>1, <1>2, <2>1, <2>2 DEF EditedEntry
<1>6. HandlesOpen' /\ NamesLeadToOne'
  BY <1>1, <1>2 DEF USTypeOK, HandlesOpen, NamesLeadToOne
<1>7. SleepersApart'
  BY <1>1, SleepersStay
<1>8. ValueCountsSleepers' /\ ClosedUnused'
  BY <1>1, <1>2 DEF USTypeOK, ValueCountsSleepers, ClosedUnused
<1>9. QED
  BY <1>3, <1>4, <1>5, <1>6, <1>7, <1>8

\* Then its name is free again.
LEMMA DestroyNameInv ==
    ASSUME Careful, USInv, NEW p \in Processes, DestroyName(p)
    PROVE  USInv'
<1> USE SlotFacts, UserSemaphoreAssumption DEF USInv, TableInv
<1> DEFINE s == hand[p]
<1>1. /\ at[p] = "unname" /\ at' = [at EXCEPT ![p] = "user"]
      /\ name' = [name EXCEPT ![s] = NoName]
      /\ cut' = cut \ {s}
      /\ slock' = [slock EXCEPT ![s] = FALSE]
      /\ hand' = [hand EXCEPT ![p] = NoSlot]
      /\ UNCHANGED <<creator, value, sleepers, handles>>
  BY DEF DestroyName, MoveTo
<1>2. /\ USTypeOK /\ s \in Slots /\ creator[s] = NoProcess
      /\ \A q \in Processes \ {p} : ~Editing(q) /\ hand[q] = NoSlot
  BY <1>1 DEF OneEditor, Editing, EditedEntry, USTypeOK
<1>3. USTypeOK'
  BY <1>1, <1>2 DEF USTypeOK, Places
<1>4. \A q \in Processes : ~Editing(q)' /\ hand'[q] = NoSlot
  BY <1>1, <1>2 DEF USTypeOK, Editing
<1>5. OneEditor' /\ EditedEntry'
  BY <1>4 DEF OneEditor, EditedEntry
<1>6. HandlesOpen'
  BY <1>1, <1>2, <1>4 DEF USTypeOK, HandlesOpen
<1>7. NamesLeadToOne'
  BY <1>1, <1>2 DEF USTypeOK, NamesLeadToOne
<1>8. SleepersApart'
  BY <1>1, SleepersStay
<1>9. ValueCountsSleepers' /\ ClosedUnused'
  BY <1>1 DEF ValueCountsSleepers, ClosedUnused
<1>10. QED
  BY <1>3, <1>5, <1>6, <1>7, <1>8, <1>9

LEMMA USStep == Careful /\ USInv /\ [Next]_vars => USInv'
<1> SUFFICES ASSUME Careful, USInv, [Next]_vars PROVE USInv'
  OBVIOUS
<1>1. ASSUME NEW p \in Processes, CreateValue(p) \/ CreateLock(p) \/ DestroyName(p)
      PROVE  USInv'
  BY <1>1, CreateValueInv, CreateLockInv, DestroyNameInv
<1>2. ASSUME NEW p \in Processes, NEW n \in Names, CreateFresh(p, n) \/ FindExisting(p, n)
      PROVE  USInv'
  BY <1>2, CreateFreshInv, FindExistingInv
<1>3. ASSUME NEW p \in Processes, NEW s \in Slots, P(p, s) \/ V(p, s) \/ DestroyCreator(p, s)
      PROVE  USInv'
  BY <1>3, PInv, VInv, DestroyCreatorInv
<1>4. CASE UNCHANGED vars
  BY <1>4 DEF vars, table, USInv, TableInv, USTypeOK, OneEditor, Editing, EditedEntry, HandlesOpen,
              NamesLeadToOne, SleepersApart, ValueCountsSleepers, ClosedUnused
<1>5. QED
  BY <1>1, <1>2, <1>3, <1>4 DEF Next

LEMMA USInvariance == ASSUME Careful PROVE Spec => []USInv
<1>1. USInv /\ [Next]_vars => USInv'
  BY USStep
<1>2. QED
  BY <1>1, USInit, PTL DEF Spec

\* Of careful programs, no token of a userland semaphore is lost or given twice:
\* the value counts the sleepers (userland_semaphore_P and _V), over any number of
\* creations and destructions of the entry.
THEOREM ValueCountsSleepersAlways == ASSUME Careful PROVE Spec => []ValueCountsSleepers
<1>1. USInv => ValueCountsSleepers
  BY DEF USInv
<1>2. QED
  BY <1>1, USInvariance, PTL

\* Nobody is left asleep on a semaphore that userland_semaphore_destroy has closed.
THEOREM ClosedUnusedAlways == ASSUME Careful PROVE Spec => []ClosedUnused
<1>1. USInv => ClosedUnused
  BY DEF USInv
<1>2. QED
  BY <1>1, USInvariance, PTL

\* Whatever the programs do, no two entries of the table have the same name, but for the
\* names that create_fresh_semaphore cuts; and of careful programs, the entries that are in
\* use are those that have a name.
THEOREM NamesLeadToOneAlways == Spec => []NamesLeadToOne
<1>1. CASE Careful
  <2>1. USInv => NamesLeadToOne
    BY DEF USInv, TableInv
  <2>2. QED
    BY <1>1, <2>1, USInvariance, PTL
<1>2. CASE ~Careful
  <2>1. Init => NamesApart
    BY UserSemaphoreAssumption DEF Init, NamesApart
  <2>2. NamesApart => NamesLeadToOne
    BY <1>2 DEF NamesApart, NamesLeadToOne
  <2>3. QED
    BY <2>1, <2>2, ApartStep, PTL DEF Spec
<1>3. QED
  BY <1>1, <1>2
=============================================================================
