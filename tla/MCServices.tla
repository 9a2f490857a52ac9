----------------------------- MODULE MCServices -----------------------------
(* Three parts that share neither state nor locks, so a behaviour is about one  *)
(* of them, which the initial state names: the disk driver with three threads   *)
(* and fewer semaphores; the terminal driver with two users and ring buffers of *)
(* two characters, which a write of three fills twice; the userland semaphores  *)
(* with three processes, a table of two entries and a name of which the table   *)
(* keeps another.                                                               *)
EXTENDS Disk, Tty, UserSemaphore

CONSTANTS t1, t2, t3, s1, s2, nameA, nameB, longA

MCThreads == {t1, t2, t3}
MCUsers == {t1, t2}
MCSemaphores == {s1, s2}
MCNames == {nameA, nameB, longA, NoName}
MCCut == [n \in MCNames |-> IF n = longA THEN nameA ELSE n]

VARIABLE part
allVars == <<part, diskVars, ttyVars, vars>>

AllInit == DiskInit /\ TtyInit /\ Init /\ part \in {"disk", "tty", "semaphores"}

AllNext ==
    /\ UNCHANGED part
    /\ \/ part = "disk" /\ DiskNext /\ UNCHANGED <<ttyVars, vars>>
       \/ part = "tty" /\ TtyNext /\ UNCHANGED <<diskVars, vars>>
       \/ part = "semaphores" /\ Next /\ UNCHANGED <<diskVars, ttyVars>>

AllSpec == AllInit /\ [][AllNext]_allVars /\ DiskFairness /\ TtyFairness
=============================================================================
