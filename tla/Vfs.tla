-------------------------------- MODULE Vfs --------------------------------
(***************************************************************************)
(* The virtual filesystem, fs/vfs.c, over one TFS volume: the mount table, *)
(* the table of open files, the count of operations in flight, and the     *)
(* forced unmount of vfs_deinit when the machine is halted.                *)
(*                                                                         *)
(* vfs_op_sem guards short sections that nothing can block, each of them   *)
(* one action; only vfs_deinit holds it longer.  The semaphores of the two *)
(* tables are held over calls to the filesystem and are variables.         *)
(***************************************************************************)
EXTENDS Tfs

CONSTANTS
    Halter,       \* the thread in halt_kernel
    Sizes,        \* sizes of files that are created
    Lengths,      \* lengths of reads and writes
    MaxCalls,     \* bound on the calls of all threads
    MaxFaults     \* bound on power failures and failed disk requests

ASSUME VfsAssumption ==
    /\ Halter \notin Threads \cup {NoThread}
    /\ Sizes \subseteq Nat /\ Lengths \subseteq Nat
    /\ MaxCalls \in Nat /\ MaxFaults \in Nat

VARIABLES
    mounted,      \* vfs_table: the volume's row has a filesystem
    named,        \* vfs_table: the row has the volume's mountpoint
    files,        \* openfile_table.files
    tableSem,     \* who holds vfs_table.sem
    fileSem,      \* who holds openfile_table.sem between two actions
    usable,       \* vfs_usable
    ops,          \* vfs_ops
    unmountSem,   \* value of vfs_unmount_sem
    halting,      \* where vfs_deinit is
    handle,       \* who uses open file h, by which name it was opened, and
                  \* whether the file has been removed since
    calls,        \* calls so far
    faults        \* faults so far

vfsVars == <<mounted, named, files, tableSem, fileSem, usable, ops, unmountSem, halting>>
history == <<handle, calls, faults>>
vars == <<tfsVars, vfsVars, history>>

ClosedFile == [open |-> FALSE, fileid |-> 0, seek |-> 0]
NotInUse == [user |-> NoThread, name |-> NoName, removed |-> FALSE]

\* Memory after a boot: vfs_init, and no thread in a call yet.
Booted(lock, dbuf, b, a, c, m, n, f, ts, fs, u, o, us, hg, hd) ==
    /\ lock = NoThread /\ dbuf = EmptyDir /\ b = NoBuffer
    /\ a = [t \in Threads |-> "idle"] /\ c = [t \in Threads |-> NoCall]
    /\ m = FALSE /\ n = FALSE
    /\ f = [h \in Handles |-> ClosedFile] /\ hd = [h \in Handles |-> NotInUse]
    /\ ts = NoThread /\ fs = NoThread
    /\ u = TRUE /\ o = 0 /\ us = 0 /\ hg = "no"

Init ==
    /\ FormattedDisk
    /\ Booted(fsLock, dirbuf, buf, at, call, mounted, named, files, tableSem, fileSem,
              usable, ops, unmountSem, halting, handle)
    /\ struck = {} /\ calls = 0 /\ faults = 0

\* vfs_deinit holds vfs_op_sem from its second semaphore_P on.
OpSemFree == halting \notin {"table", "files", "unmount"}

-----------------------------------------------------------------------------
(* The callers.  A thread uses the handles that vfs_open gave it.  Programs do
   not use a file and remove it at the same time, nor after it was removed:
   neither vfs.c nor tfs.c looks for that. *)
InCall(t, ops_) == call[t].op \in ops_

UseOf(t, h) == handle[h].user = t /\ ~\E u \in Threads : call[u].handle = h

ReadOrWrite(t, op, h, n) ==
    /\ UseOf(t, h) /\ ~handle[h].removed
    /\ ~\E u \in Threads : InCall(u, {"remove"}) /\ call[u].name = handle[h].name
    /\ call' = [call EXCEPT ![t] = [NoCall EXCEPT !.op = op, !.handle = h,
                                                  !.name = handle[h].name, !.arg = n]]

RemoveCall(t, n) ==
    /\ ~\E u \in Threads : InCall(u, {"read", "write"}) /\ call[u].name = n
    /\ call' = [call EXCEPT ![t] = [NoCall EXCEPT !.op = "remove", !.name = n]]

Calls(t) ==
    \/ \E op \in {"mount", "unmount", "getfree"} :
           call' = [call EXCEPT ![t] = [NoCall EXCEPT !.op = op]]
    \/ \E n \in Names :
           \/ call' = [call EXCEPT ![t] = [NoCall EXCEPT !.op = "open", !.name = n]]
           \/ \E s \in Sizes :
                  call' = [call EXCEPT ![t] =
                              [NoCall EXCEPT !.op = "create", !.name = n, !.arg = s]]
           \/ RemoveCall(t, n)
    \/ \E h \in Handles :
           \/ /\ UseOf(t, h)
              /\ call' = [call EXCEPT ![t] = [NoCall EXCEPT !.op = "close", !.handle = h]]
           \/ \E n \in Lengths :
                  \/ /\ UseOf(t, h)
                     /\ call' = [call EXCEPT ![t] =
                                    [NoCall EXCEPT !.op = "seek", !.handle = h, !.arg = n]]
                  \/ ReadOrWrite(t, "read", h, n)
                  \/ ReadOrWrite(t, "write", h, n)

\* The first thing a call waits for after vfs_start_op.
FirstPlace(op) ==
    CASE op \in {"mount", "unmount", "open", "create", "remove", "getfree"} -> "table"
      [] op \in {"close", "seek"} -> "files"
      [] op \in {"read", "write"} -> "tfs"

\* vfs_start_op.  No call is followed on a disk that a fault has torn.
StartOp(t) ==
    /\ at[t] = "idle" /\ OpSemFree /\ usable
    /\ calls < MaxCalls /\ Intact
    /\ Calls(t)
    /\ ops' = ops + 1
    /\ MoveTo(t, FirstPlace(call'[t].op))
    /\ calls' = calls + 1
    /\ UNCHANGED <<disk, fsLock, dirbuf, buf, struck, mounted, named, files, tableSem,
                   fileSem, usable, unmountSem, halting, handle, faults>>

\* ... and its VFS_UNUSABLE.
StartRefused(t) ==
    /\ at[t] = "idle" /\ OpSemFree /\ ~usable
    /\ calls < MaxCalls
    /\ calls' = calls + 1
    /\ UNCHANGED <<tfsVars, vfsVars, handle, faults>>

\* Mutants of LastOpSignals: every operation that ends during a halt signals it;
\* vfs_end_op tests the count before it is decremented.
EveryOpSignals == ~usable

TestBeforeDecrement == ~usable /\ ops = 0

LastOpSignals == ~usable /\ ops = 1

\* vfs_end_op and the return to the caller.
EndOp(t) ==
    /\ at[t] = "end" /\ OpSemFree
    /\ ops' = ops - 1
    /\ unmountSem' = IF LastOpSignals THEN unmountSem + 1 ELSE unmountSem
    /\ MoveTo(t, "idle")
    /\ call' = [call EXCEPT ![t] = NoCall]
    /\ UNCHANGED <<disk, fsLock, dirbuf, buf, struck, mounted, named, files, tableSem,
                   fileSem, usable, halting, history>>

-----------------------------------------------------------------------------
TableOp(t, op) == at[t] = "table" /\ call[t].op = op /\ tableSem = NoThread
FilesOp(t, op) == at[t] = "files" /\ call[t].op = op /\ fileSem = NoThread
KeepTfs == UNCHANGED <<disk, fsLock, dirbuf, buf, struck>>

\* vfs_mount_fs and vfs_mount.  The mountpoint of an unmounted row still counts
\* as in use; a filesystem that is not mounted is discarded by the caller.
Mount(t) ==
    /\ TableOp(t, "mount")
    /\ mounted' = (mounted \/ ~named)
    /\ named' = TRUE
    /\ MoveTo(t, "end")
    /\ KeepTfs
    /\ UNCHANGED <<call, files, tableSem, fileSem, usable, ops, unmountSem, halting, history>>

\* vfs_create, vfs_remove and vfs_getfree keep the mount table over the call to
\* the filesystem.  vfs_unmount and vfs_open go on to the table of open files.
LockTable(t) ==
    /\ at[t] = "table" /\ call[t].op # "mount" /\ tableSem = NoThread
    /\ IF mounted \/ call[t].op = "open"
       THEN /\ tableSem' = t
            /\ MoveTo(t, IF call[t].op \in {"unmount", "open"} THEN "files" ELSE "tfs")
       ELSE MoveTo(t, "end") /\ UNCHANGED tableSem
    /\ KeepTfs
    /\ UNCHANGED <<call, mounted, named, files, fileSem, usable, ops, unmountSem,
                   halting, history>>

\* vfs_unmount: the volume is in use as long as an entry of the table names it.
UnmountCheck(t) ==
    /\ FilesOp(t, "unmount")
    /\ IF \E h \in Handles : files[h].open
       THEN tableSem' = NoThread /\ MoveTo(t, "end") /\ UNCHANGED fileSem
       ELSE fileSem' = t /\ MoveTo(t, "unmount") /\ UNCHANGED tableSem
    /\ KeepTfs
    /\ UNCHANGED <<call, mounted, named, files, usable, ops, unmountSem, halting, history>>

\* tfs_unmount waits for the lock and frees the filesystem's page.
UnmountFs(t) ==
    /\ at[t] = "unmount" /\ fsLock = NoThread
    /\ mounted' = FALSE
    /\ tableSem' = NoThread /\ fileSem' = NoThread
    /\ MoveTo(t, "end")
    /\ KeepTfs
    /\ UNCHANGED <<call, named, files, usable, ops, unmountSem, halting, history>>

-----------------------------------------------------------------------------
ClosedHandles == {h \in Handles : ~files[h].open}

\* Mutant of Claimed: vfs_open enters the filesystem in the table only when the
\* filesystem has found the file.
NotYetClaimed(h) == files[h]

Claimed(h) == [files[h] EXCEPT !.open = TRUE]

\* vfs_open under both semaphores: a free entry (any: the code takes the first)
\* is claimed before the semaphores are released.
ClaimFile(t) ==
    /\ FilesOp(t, "open")
    /\ tableSem' = NoThread
    /\ IF ClosedHandles = {} \/ ~mounted
       THEN MoveTo(t, "end") /\ UNCHANGED <<files, handle, call>>
       ELSE \E h \in ClosedHandles :
                /\ files' = [files EXCEPT ![h] = Claimed(h)]
                /\ handle' = [handle EXCEPT ![h].name = call[t].name]
                /\ call' = [call EXCEPT ![t].handle = h]
                /\ MoveTo(t, "tfs")
    /\ KeepTfs
    /\ UNCHANGED <<mounted, named, fileSem, usable, ops, unmountSem, halting, calls, faults>>

\* The inode number that tfs_open reads after it has released the lock.
OpenReturn(t) ==
    LET h == call[t].handle
        fileid == dirbuf[call[t].k].inode
    IN /\ at[t] = "tfs_opened"
       /\ IF fileid < 0
          THEN MoveTo(t, "give_up") /\ UNCHANGED <<files, handle>>
          ELSE /\ files' = [files EXCEPT ![h] = [open |-> TRUE, fileid |-> fileid, seek |-> 0]]
               /\ handle' = [handle EXCEPT ![h].user = t]
               /\ MoveTo(t, "end")
       /\ KeepTfs
       /\ UNCHANGED <<call, mounted, named, tableSem, fileSem, usable, ops, unmountSem,
                      halting, calls, faults>>

\* vfs_open gives the entry back when the filesystem has found nothing; vfs_close.
CloseFile(t) ==
    LET h == call[t].handle
    IN /\ at[t] = "give_up" \/ (at[t] = "files" /\ call[t].op = "close")
       /\ fileSem = NoThread
       /\ files' = [files EXCEPT ![h].open = FALSE]
       /\ handle' = [handle EXCEPT ![h] = NotInUse]
       /\ MoveTo(t, "end")
       /\ KeepTfs
       /\ UNCHANGED <<call, mounted, named, tableSem, fileSem, usable, ops, unmountSem,
                      halting, calls, faults>>

\* vfs_seek, and what vfs_read and vfs_write do with a positive result.
MoveSeek(t) ==
    LET h == call[t].handle
    IN /\ fileSem = NoThread
       /\ \/ /\ at[t] = "files" /\ call[t].op = "seek"
             /\ files' = [files EXCEPT ![h].seek = call[t].arg]
          \/ /\ at[t] = "advance"
             /\ files' = [files EXCEPT ![h].seek = @ + call[t].arg]
       /\ MoveTo(t, "end")
       /\ KeepTfs
       /\ UNCHANGED <<call, mounted, named, tableSem, fileSem, usable, ops, unmountSem,
                      halting, history>>

\* vfs_create, vfs_remove and vfs_getfree give the mount table back.
UnlockTable(t) ==
    /\ at[t] = "unlock"
    /\ tableSem' = NoThread
    /\ MoveTo(t, "end")
    /\ KeepTfs
    /\ UNCHANGED <<call, mounted, named, files, fileSem, usable, ops, unmountSem,
                   halting, history>>

\* The calls to the filesystem and its steps.
FsStep(t) ==
    LET f == files[call[t].handle]
    IN /\ \/ TfsOpen(t)
          \/ TfsCreateRefused(t) \/ TfsCreate(t)
          \/ at[t] = "tfs" /\ call[t].op = "read" /\ TfsRead(t, f.fileid, f.seek)
          \/ at[t] = "tfs" /\ call[t].op = "write" /\ TfsWrite(t, f.fileid, f.seek)
          \/ TfsGetFree(t)
          \/ WriteBat(t) \/ WriteDir(t) \/ WriteInode(t) \/ WriteZeros(t)
          \/ at[t] = "write_data" /\ WriteData(t, f.seek)
       /\ UNCHANGED <<vfsVars, history>>

\* tfs_remove does not ask whether the file is open.
RemoveFile(t) ==
    /\ TfsRemove(t)
    /\ handle' = [h \in Handles |->
                     IF handle[h].name = call[t].name
                     THEN [handle[h] EXCEPT !.removed = TRUE] ELSE handle[h]]
    /\ UNCHANGED <<vfsVars, calls, faults>>

-----------------------------------------------------------------------------
\* vfs_deinit, up to its wait for the operations in flight...
Deinit ==
    /\ halting = "no"
    /\ usable' = FALSE
    /\ halting' = IF ops > 0 THEN "wait" ELSE "table"
    /\ UNCHANGED <<tfsVars, mounted, named, files, tableSem, fileSem, ops, unmountSem, history>>

\* ... which the last of them ends; then it takes vfs_op_sem again...
DeinitWoken ==
    /\ halting = "wait" /\ unmountSem > 0
    /\ unmountSem' = unmountSem - 1
    /\ halting' = "again"
    /\ UNCHANGED <<tfsVars, mounted, named, files, tableSem, fileSem, usable, ops, history>>

DeinitAgain ==
    /\ halting = "again"
    /\ halting' = "table"
    /\ UNCHANGED <<tfsVars, mounted, named, files, tableSem, fileSem, usable, ops,
                   unmountSem, history>>

\* ... and both tables, and unmounts.
DeinitTables ==
    /\ \/ /\ halting = "table" /\ tableSem = NoThread
          /\ tableSem' = Halter /\ halting' = "files"
          /\ UNCHANGED <<fileSem, mounted>>
       \/ /\ halting = "files" /\ fileSem = NoThread
          /\ fileSem' = Halter /\ halting' = "unmount"
          /\ UNCHANGED <<tableSem, mounted>>
       \/ /\ halting = "unmount" /\ fsLock = NoThread
          /\ mounted' = FALSE
          /\ tableSem' = NoThread /\ fileSem' = NoThread /\ halting' = "done"
    /\ UNCHANGED <<tfsVars, named, files, usable, ops, unmountSem, history>>

-----------------------------------------------------------------------------
\* The power fails; the machine boots and finds the disk as it is.
PowerFailure ==
    /\ faults < MaxFaults
    /\ Booted(fsLock', dirbuf', buf', at', call', mounted', named', files', tableSem',
              fileSem', usable', ops', unmountSem', halting', handle')
    /\ struck' = IF fsLock = NoThread THEN struck ELSE struck \cup {NextWrite(fsLock)}
    /\ faults' = faults + 1
    /\ UNCHANGED <<disk, calls>>

RequestFails(t) ==
    /\ faults < MaxFaults
    /\ DiskError(t)
    /\ faults' = faults + 1
    /\ UNCHANGED <<vfsVars, handle, calls>>

\* A step of a call that has begun.
CallStep(t) ==
    \/ Mount(t) \/ LockTable(t) \/ UnmountCheck(t) \/ UnmountFs(t)
    \/ ClaimFile(t) \/ OpenReturn(t) \/ CloseFile(t) \/ MoveSeek(t) \/ UnlockTable(t)
    \/ FsStep(t) \/ RemoveFile(t)
    \/ EndOp(t)

Step(t) == StartOp(t) \/ StartRefused(t) \/ CallStep(t) \/ RequestFails(t)

DeinitStep == Deinit \/ DeinitWoken \/ DeinitAgain \/ DeinitTables

Next == (\E t \in Threads : Step(t)) \/ DeinitStep \/ PowerFailure

Spec == Init /\ [][Next]_vars

-----------------------------------------------------------------------------
\* The variables of the file system have their types; a semaphore is held by a
\* thread that exists.
VfsTypeOK ==
    /\ bat \subseteq Blocks
    /\ dir \in [Slots -> [name : Names \cup {NoName}, inode : Blocks]]
    /\ dirbuf \in [Slots -> [name : Names \cup {NoName}, inode : Blocks \cup {-1}]]
    /\ DOMAIN block = Blocks \ SystemBlocks
    /\ fsLock \in Threads \cup {NoThread}
    /\ {tableSem, fileSem} \subseteq Threads \cup {NoThread, Halter}
    /\ files \in [Handles -> [open : BOOLEAN, fileid : Blocks, seek : Nat]]
    /\ ops \in 0 .. Cardinality(Threads)
    /\ unmountSem \in {0, 1}

\* A filesystem is unmounted, and its page freed, only when no thread is inside
\* it: vfs_unmount is kept out by the claimed entry of the open file table or by
\* the mount table's semaphore, vfs_deinit by the count of operations, which is
\* the number of threads between vfs_start_op and vfs_end_op.
UnmountedWhenQuiet ==
    /\ ops = Cardinality({t \in Threads : at[t] # "idle"})
    /\ \A t \in Threads : at[t] \in TfsPlaces => mounted
    /\ halting \in {"again", "table", "files", "unmount"} => ops = 0

\* An open file whose name was not removed since its open began refers to the
\* inode of that name: the read of the shared directory buffer outside the lock
\* in tfs_open can go wrong only by a removal.
HandleNamesItsFile ==
    \A h \in Handles :
        (files[h].open /\ handle[h].user # NoThread /\ ~handle[h].removed /\ Intact)
            => \E s \in Slots : dir[s] = [name |-> handle[h].name, inode |-> files[h].fileid]

\* The files that a program finds, and what it may know of the vfs_create or
\* vfs_remove it is in; nothing on a disk that a fault has torn.
Listing ==
    IF Intact THEN {[name |-> dir[s].name, size |-> block[dir[s].inode].size] : s \in Files}
    ELSE {}

\* The inode makes a new file appear, the bitmap makes a removed one disappear.
Stage(t) ==
    CASE at[t] = "unlock" -> "answered"
      [] InCall(t, {"create"}) /\ at[t] = "write_zeros" -> "done"
      [] InCall(t, {"remove"}) /\ at[t] = "write_dir" -> "done"
      [] OTHER -> "asked"

Request(t) ==
    IF Intact /\ at[t] \notin {"idle", "end"} /\ InCall(t, {"create", "remove"})
    THEN [op |-> call[t].op, name |-> call[t].name, arg |-> call[t].arg, stage |-> Stage(t)]
    ELSE [op |-> "none", name |-> NoName, arg |-> 0, stage |-> "none"]

Volume == INSTANCE AbstractVolume WITH
    listing <- Listing,
    torn <- ~Intact,
    request <- [t \in Threads |-> Request(t)]

\* Each vfs_create and vfs_remove changes the files at one moment or not at all, and
\* returns 0 only after it has, whatever the other threads do in between; a stop or a
\* failed request at any other write than the two that tear the disk is as if it came
\* just before or after that moment, and no other operation changes the files.
ImplementsVolume == Volume!Spec

\* Who waits: a thread for a semaphore that somebody holds, or for vfs_op_sem at the
\* end of its call; vfs_deinit for the last vfs_end_op, then for the semaphores.
Waits(t) ==
    \/ at[t] = "table" /\ tableSem # NoThread
    \/ at[t] \in {"files", "give_up", "advance"} /\ fileSem # NoThread
    \/ at[t] \in {"tfs", "unmount"} /\ fsLock # NoThread
    \/ at[t] = "end" /\ ~OpSemFree

DeinitWaits ==
    \/ halting = "wait" /\ unmountSem = 0
    \/ halting = "table" /\ tableSem # NoThread
    \/ halting = "files" /\ fileSem # NoThread
    \/ halting = "unmount" /\ fsLock # NoThread

\* They never all wait for each other, whatever they hold.
SomebodyGoesOn ==
    LET called == {t \in Threads : at[t] # "idle"}
        halts == halting \notin {"no", "done"}
    IN (called # {} \/ halts) => (halts /\ ~DeinitWaits) \/ \E t \in called : ~Waits(t)

\* A halt never gets stuck, nor a call: the wait of vfs_deinit is ended by exactly
\* one semaphore_V, nobody keeps a table or vfs_op_sem for ever, and who does not
\* wait has a step to take.  As every step takes a call or the halt forward, and no
\* call starts once vfs_usable is 0, each halt that the power does not cut short
\* therefore ends.
NobodyStuck ==
    /\ SomebodyGoesOn
    /\ \A t \in Threads : at[t] # "idle" /\ ~Waits(t) => ENABLED CallStep(t)
    /\ halting \notin {"no", "done"} /\ ~DeinitWaits => ENABLED DeinitStep
=============================================================================
