-------------------------------- MODULE Tfs --------------------------------
(***************************************************************************)
(* The trivial filesystem, fs/tfs.c: what is on the disk, the buffers in   *)
(* memory, and the operations that work under tfs->lock.                   *)
(*                                                                         *)
(* An operation reads the blocks it needs, computes in the buffers, and    *)
(* writes block after block.  Up to its first write it is one action; each *)
(* write is an action of its own, because the machine may stop, or the     *)
(* disk request fail, between any two.  `struck' remembers between which.  *)
(*                                                                         *)
(* Vfs calls these operations: a thread enters with at = "tfs" and leaves  *)
(* with the place in the caller that Return names or, from tfs_open,       *)
(* "tfs_opened".                                                           *)
(***************************************************************************)
EXTENDS Integers, Sequences, FiniteSets, SequencesExt

CONSTANTS
    Threads,      \* kernel threads that use the file system
    NoThread,     \* nobody: a semaphore of value 1
    Names,        \* file names
    NoName,       \* the empty name of a free directory entry
    MaxFiles,     \* TFS_MAX_FILES, entries of the directory
    TotalBlocks,  \* tfs->totalblocks
    BlockSize,    \* TFS_BLOCK_SIZE
    InodeBlocks,  \* TFS_BLOCKS_MAX
    Handles,      \* CONFIG_MAX_OPEN_FILES open files
    NoHandle

ASSUME TfsAssumption ==
    /\ NoThread \notin Threads /\ IsFiniteSet(Threads)
    /\ NoName \notin Names
    /\ MaxFiles \in Nat \ {0}
    /\ TotalBlocks \in Nat /\ TotalBlocks > 3
    /\ BlockSize \in Nat \ {0}
    /\ InodeBlocks \in Nat \ {0}
    /\ NoHandle \notin Handles

Blocks == 0 .. TotalBlocks - 1
SystemBlocks == 0 .. 2   \* header, allocation and directory block
Slots == 0 .. MaxFiles - 1

VARIABLES
    bat,      \* on disk: the blocks marked in the allocation block
    dir,      \* on disk: the directory block
    block,    \* on disk: the other blocks
    fsLock,   \* who holds tfs->lock between two actions
    dirbuf,   \* tfs->buffer_md
    buf,      \* tfs->buffer_bat and tfs->buffer_inode, while fsLock is held
    at,       \* where thread t is
    call,     \* the call thread t is in, with its local variables
    struck    \* the writes before which a fault cut an operation short

disk == <<bat, dir, block>>
tfsVars == <<disk, fsLock, dirbuf, buf, at, call, struck>>

FreeEntry == [name |-> NoName, inode |-> 0]
EmptyDir == [s \in Slots |-> FreeEntry]
Inode(size, blocks) == [size |-> size, blocks |-> blocks]
Data(bytes) == [bytes |-> bytes]
Zeros == [i \in 1 .. BlockSize |-> NoName]
IsInode(b) == "size" \in DOMAIN block[b]
\* A block read as an inode.  Zeros are the inode of an empty file; marks are read
\* as an inode only on a torn disk, which the calls do not go on with.
AsInode(b) == IF IsInode(b) THEN block[b] ELSE Inode(0, <<>>)
NoBuffer == [bat |-> {}, inode |-> Inode(0, <<>>)]

\* arg: size, length or position, and later the result; k: directory entry
\* found by tfs_open, or the block of the file that is written next.
NoCall == [op |-> "none", name |-> NoName, arg |-> 0, handle |-> NoHandle, k |-> 0]

MoveTo(t, place) == at' = [at EXCEPT ![t] = place]

\* semaphore_V(tfs->lock) and return: what the caller does with the result.
Return(t, result) ==
    /\ fsLock' = NoThread
    /\ buf' = NoBuffer
    /\ call' = [call EXCEPT ![t].arg = result]
    /\ MoveTo(t, CASE call[t].op = "open" -> "give_up"
                   [] call[t].op \in {"read", "write"} ->
                          IF result > 0 THEN "advance" ELSE "end"
                   [] OTHER -> "unlock")

\* semaphore_P(tfs->lock) at the beginning of operation op.
Enters(t, op) == at[t] = "tfs" /\ call[t].op = op /\ fsLock = NoThread

\* A volume as tfstool makes it.
FormattedDisk ==
    /\ bat = SystemBlocks
    /\ dir = EmptyDir
    /\ block = [b \in Blocks \ SystemBlocks |-> Data(Zeros)]

-----------------------------------------------------------------------------
EntriesOf(d, n) == {s \in Slots : d[s].name = n}
Least(S) == CHOOSE x \in S : \A y \in S : x <= y
Greatest(S) == CHOOSE x \in S : \A y \in S : y <= x

\* Mutant of FindAndSet: the bit is found and not set.
FindOnly(b, n) ==
    IF b = Blocks THEN <<>> ELSE [k \in 1 .. n |-> Least(Blocks \ b)]

\* What n calls of bitmap_findnset on the bitmap b return before the first -1:
\* each finds and sets the first bit that is clear.
FindAndSet(b, n) ==
    LET found[k \in 0 .. n] ==
            IF k = 0 THEN <<>>
            ELSE LET free == Blocks \ (b \cup ToSet(found[k - 1]))
                 IN IF free = {} THEN found[k - 1] ELSE Append(found[k - 1], Least(free))
    IN found[n]

BlocksFor(size) == (size + BlockSize - 1) \div BlockSize

\* tfs_open: the entry is looked up under the lock; its inode is read from the
\* shared buffer by the return statement, after the lock is released.
TfsOpen(t) ==
    LET found == EntriesOf(dir, call[t].name)
    IN /\ Enters(t, "open")
       /\ dirbuf' = dir
       /\ IF found = {}
          THEN Return(t, -1)
          ELSE /\ call' = [call EXCEPT ![t].k = Least(found)]
               /\ MoveTo(t, "tfs_opened")
               /\ UNCHANGED <<fsLock, buf>>
       /\ UNCHANGED <<disk, struck>>

-----------------------------------------------------------------------------
\* Mutant of FreeEntries: the loop of tfs_create takes any entry for free.
AllEntries(d) == Slots

FreeEntries(d) == {s \in Slots : d[s].inode = 0}

CreatePossible(t) ==
    /\ BlocksFor(call[t].arg) <= InodeBlocks
    /\ EntriesOf(dir, call[t].name) = {}
    /\ FreeEntries(dir) # {}

\* tfs_create: name in use, or no entry left.  (The buffer then holds the directory.)
TfsCreateRefused(t) ==
    /\ Enters(t, "create")
    /\ ~CreatePossible(t)
    /\ dirbuf' = dir
    /\ Return(t, -1)
    /\ UNCHANGED <<disk, struck>>

\* tfs_create up to its first write.  The new entry is in the buffer even when
\* the blocks do not suffice; the loop leaves the last free entry in index.
TfsCreate(t) ==
    LET needed == BlocksFor(call[t].arg) + 1
        found == FindAndSet(bat, needed)
        inode == IF found = <<>> THEN -1 ELSE Head(found)
    IN /\ Enters(t, "create")
       /\ CreatePossible(t)
       /\ dirbuf' = [dir EXCEPT ![Greatest(FreeEntries(dir))] =
                        [name |-> call[t].name, inode |-> inode]]
       /\ IF Len(found) < needed
          THEN Return(t, -1)
          ELSE /\ fsLock' = t
               /\ buf' = [bat |-> bat \cup ToSet(found),
                          inode |-> Inode(call[t].arg, Tail(found))]
               /\ MoveTo(t, "write_bat")
               /\ UNCHANGED call
       /\ UNCHANGED <<disk, struck>>

\* Mutant of FreedBlocks: tfs_remove forgets the data blocks.
InodeOnly(i) == {i}

FreedBlocks(i) == {i} \cup ToSet(AsInode(i).blocks)

\* tfs_remove up to its first write.
TfsRemove(t) ==
    LET found == EntriesOf(dir, call[t].name)
        slot == Least(found)
    IN /\ Enters(t, "remove")
       /\ IF found = {}
          THEN dirbuf' = dir /\ Return(t, -1)
          ELSE /\ dirbuf' = [dir EXCEPT ![slot] = FreeEntry]
               /\ fsLock' = t
               /\ buf' = [bat |-> bat \ FreedBlocks(dir[slot].inode),
                          inode |-> AsInode(dir[slot].inode)]
               /\ MoveTo(t, "write_bat")
               /\ UNCHANGED call
       /\ UNCHANGED <<disk, struck>>

-----------------------------------------------------------------------------
\* The writes of tfs_create and tfs_remove, in the code's order.
WriteBat(t) ==
    /\ at[t] = "write_bat"
    /\ bat' = buf.bat
    /\ MoveTo(t, "write_dir")
    /\ UNCHANGED <<dir, block, fsLock, dirbuf, buf, call, struck>>

WriteDir(t) ==
    /\ at[t] = "write_dir"
    /\ dir' = dirbuf
    /\ IF call[t].op = "remove"
       THEN Return(t, 0)
       ELSE MoveTo(t, "write_inode") /\ UNCHANGED <<fsLock, buf, call>>
    /\ UNCHANGED <<bat, block, dirbuf, struck>>

\* tfs_create goes on with the inode...
WriteInode(t) ==
    LET slot == Least(EntriesOf(dirbuf, call[t].name))
    IN /\ at[t] = "write_inode"
       /\ block' = [block EXCEPT ![dirbuf[slot].inode] = buf.inode]
       /\ IF buf.inode.blocks = <<>>
          THEN Return(t, 0)
          ELSE /\ call' = [call EXCEPT ![t].k = 1]
               /\ MoveTo(t, "write_zeros")
               /\ UNCHANGED <<fsLock, buf>>
       /\ UNCHANGED <<bat, dir, dirbuf, struck>>

\* ... and zeros in the file's blocks.
WriteZeros(t) ==
    LET k == call[t].k
    IN /\ at[t] = "write_zeros"
       /\ block' = [block EXCEPT ![buf.inode.blocks[k]] = Data(Zeros)]
       /\ IF k = Len(buf.inode.blocks)
          THEN Return(t, 0)
          ELSE /\ call' = [call EXCEPT ![t].k = k + 1]
               /\ UNCHANGED <<fsLock, buf, at>>
       /\ UNCHANGED <<bat, dir, dirbuf, struck>>

-----------------------------------------------------------------------------
\* Of n bytes asked for at position pos, those inside the file with this inode;
\* the checks of fileid and offset that return VFS_ERROR.
InFile(inode, pos, n) ==
    IF n < inode.size - pos THEN n ELSE inode.size - pos

BadAccess(fileid, pos) ==
    \/ fileid < 2 \/ fileid > TotalBlocks
    \/ pos < 0 \/ pos > AsInode(fileid).size

\* tfs_read: no write, so one action.  What the buffer receives is left out.
TfsRead(t, fileid, pos) ==
    /\ Enters(t, "read")
    /\ IF BadAccess(fileid, pos)
       THEN Return(t, -1)
       ELSE Return(t, InFile(AsInode(fileid), pos, call[t].arg))
    /\ UNCHANGED <<disk, dirbuf, struck>>

\* tfs_write up to its first write.
TfsWrite(t, fileid, pos) ==
    /\ Enters(t, "write")
    /\ IF BadAccess(fileid, pos)
       THEN Return(t, -1)
       ELSE LET n == InFile(AsInode(fileid), pos, call[t].arg)
            IN IF n = 0
               THEN Return(t, 0)
               ELSE /\ fsLock' = t
                    /\ buf' = [bat |-> {}, inode |-> AsInode(fileid)]
                    /\ call' = [call EXCEPT ![t].arg = n, ![t].k = pos \div BlockSize]
                    /\ MoveTo(t, "write_data")
    /\ UNCHANGED <<disk, dirbuf, struck>>

\* Mutant of Kept: a partial write without reading the block first.
BufferGarbage(b, i) == NoHandle

\* A byte of a block that a partial write leaves alone: the block was read first.
Kept(b, i) == block[b].bytes[i]

\* One block of the loop of tfs_write; bytes pos .. pos + n - 1 of the file get
\* the writer's mark, the name of the file.
WriteData(t, pos) ==
    LET k == call[t].k
        n == call[t].arg
        b == buf.inode.blocks[k + 1]
        written == {i \in 1 .. BlockSize : LET p == k * BlockSize + i - 1
                                           IN pos <= p /\ p < pos + n}
    IN /\ at[t] = "write_data"
       /\ block' = [block EXCEPT ![b] = Data([i \in 1 .. BlockSize |->
                        IF i \in written THEN call[t].name ELSE Kept(b, i)])]
       /\ IF k = (pos + n - 1) \div BlockSize
          THEN Return(t, n)
          ELSE /\ call' = [call EXCEPT ![t].k = k + 1]
               /\ UNCHANGED <<fsLock, buf, at>>
       /\ UNCHANGED <<bat, dir, dirbuf, struck>>

\* tfs_getfree only reads.
TfsGetFree(t) ==
    /\ Enters(t, "getfree")
    /\ Return(t, (TotalBlocks - Cardinality(bat)) * BlockSize)
    /\ UNCHANGED <<disk, dirbuf, struck>>

-----------------------------------------------------------------------------
WritePlaces == {"write_bat", "write_dir", "write_inode", "write_zeros", "write_data"}
TfsPlaces == WritePlaces \cup {"tfs", "tfs_opened"}

\* The write that thread t has not done yet, for `struck'.
NextWrite(t) == <<call[t].op, at[t]>>

\* read_block or write_block returns 0: the operation gives up as it stands.
DiskError(t) ==
    /\ \/ at[t] \in WritePlaces
       \/ at[t] = "tfs" /\ fsLock = NoThread
    /\ Return(t, -1)
    /\ struck' = struck \cup {NextWrite(t)}
    /\ UNCHANGED <<disk, dirbuf>>

-----------------------------------------------------------------------------
\* Faults that leave a directory entry whose inode is not there, or whose blocks
\* are free already; and one that only leaves blocks that nobody can free.
Tearing == {<<"create", "write_inode">>, <<"remove", "write_dir">>}
Leaking == {<<"create", "write_dir">>}
Intact == struck \cap Tearing = {}

\* The entry that an operation in flight has half written.
HalfWritten(s) ==
    /\ fsLock # NoThread
    /\ dir[s].name = call[fsLock].name
    /\ <<call[fsLock].op, at[fsLock]>> \in Tearing

Files == {s \in Slots : dir[s].inode # 0 /\ ~HalfWritten(s)}
OwnBlocks(s) == {dir[s].inode} \cup ToSet(block[dir[s].inode].blocks)

\* At every moment, and so after a stop at any moment, the disk is sound but for
\* the entry that is half written: every file has an inode, has all its blocks
\* marked as allocated and shares none.  Only a fault between the directory
\* and the inode of a new file, or between the bitmap and the directory of a
\* removed one, can end that: for these the order of the writes of tfs_create
\* and tfs_remove is wrong or lacks a repair.
DiskSoundUnlessTorn ==
    Intact =>
        \A s \in Files :
            /\ dir[s].inode \in Blocks \ SystemBlocks
            /\ IsInode(dir[s].inode)
            /\ OwnBlocks(s) \subseteq bat \ SystemBlocks
            /\ Cardinality(OwnBlocks(s)) = BlocksFor(block[dir[s].inode].size) + 1
            /\ \A r \in Files \ {s} : dir[r].name # dir[s].name
                                      /\ OwnBlocks(r) \cap OwnBlocks(s) = {}

\* When no operation is under way, the allocated blocks are those of the files
\* and the system's; only a fault between bitmap and directory of a new file
\* loses blocks for good (tfs.c has no check that would find them).
NothingLeaks ==
    (fsLock = NoThread /\ struck \cap (Tearing \cup Leaking) = {})
        => bat = SystemBlocks \cup UNION {OwnBlocks(s) : s \in Files}

\* A file holds zeros and what was written through a handle of it, and zeros
\* behind its end: the zeroing of tfs_create hides what a removed file left, and
\* a partial write keeps the rest of the block.  A fault while the zeros are
\* written shows old bytes in the new file.
FilesKeepToThemselves ==
    (Intact /\ <<"create", "write_zeros">> \notin struck) =>
        \A s \in Files : \A j \in 1 .. Len(block[dir[s].inode].blocks) :
            \/ \E t \in Threads : at[t] = "write_zeros" /\ call[t].name = dir[s].name
            \/ \A i \in 1 .. BlockSize :
                   block[block[dir[s].inode].blocks[j]].bytes[i] \in
                       IF (j - 1) * BlockSize + i <= block[dir[s].inode].size
                       THEN {NoName, dir[s].name} ELSE {NoName}
=============================================================================
