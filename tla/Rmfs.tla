-------------------------------- MODULE Rmfs --------------------------------
(***************************************************************************)
(* The RMFS driver of the kernel (kernel/rmfs.c) on a block medium.        *)
(*                                                                         *)
(* The volume lock is held for a whole operation, so an operation is the   *)
(* list of block writes it makes, in order, and the in-memory state it     *)
(* ends in.  The writes reach the medium one at a time: any of them may    *)
(* fail, and the machine may stop between any two of them.                 *)
(*                                                                         *)
(* Data are counted in cells.  A file cell stands for the bytes that are   *)
(* always written together, a directory cell for one RMFS_DIRENT_SIZE      *)
(* entry; RMFS_BLOCK_SIZE is BlockSize cells.  An inode holds the physical *)
(* block of each of its logical blocks; its extents are the maximal runs   *)
(* of adjacent blocks (rmfs_append_extent merges adjacent extents, and     *)
(* rmfs_allocate_extents only ends one at a block in use).  Checksums      *)
(* always match, because every block is written whole.  One directory, the *)
(* root, stands for the directory that a path names.                       *)
(***************************************************************************)
EXTENDS Integers, Sequences, FiniteSets
LOCAL INSTANCE SequencesExt

CONSTANTS
    Names,             \* file names, a finite set of positive numbers
    InodeCount,        \* inodes of the volume
    BackupBlock,       \* the last block, which holds the backup superblock
    BlockSize,         \* cells in a block
    InlineExtents,     \* RMFS_INLINE_EXTENTS
    CacheEntries,      \* RMFS_METADATA_CACHE_ENTRIES
    GroupCommitLimit,  \* RMFS_GROUP_COMMIT_LIMIT
    Payloads,          \* what callers write: a set of sequences of cells
    InitSize,          \* cells of the file that the formatter puts on the volume
    MaxSize,           \* bound: the largest file, in cells
    MaxSequence        \* bound: write transactions that are started

VARIABLES disk,  \* the medium: the contents of every block
          mem,   \* the fields of kernel_rmfs
          op,    \* the operation that holds the lock
          ok     \* what the last operation returned

vars == <<disk, mem, op, ok>>

-----------------------------------------------------------------------------
(* The layout that the formatter chooses for a small volume. *)
SuperBlock == 0
InodeBitmap == 1
BlockBitmap == 2
InodeTable == 3
DataStart == 4
Blocks == SuperBlock .. BackupBlock
DataBlocks == DataStart .. BackupBlock - 1
Inodes == 1 .. InodeCount
RootInode == 1

(* The FLUSH command, queued among the block writes. *)
FlushCommand == BackupBlock + 1

NoInode == [mode |-> "free", size |-> 0, blk |-> <<>>]
(* What the medium holds in a block that the formatter fills only in part. *)
StaleCell == 9
NoEntry == [inode |-> 0, name |-> 0]

ZeroData == [i \in 1 .. BlockSize |-> 0]
ZeroDirectory == [i \in 1 .. BlockSize |-> NoEntry]

BlocksFor(size) == (size + BlockSize - 1) \div BlockSize

(* The number of extents that a list of blocks takes. *)
ExtentCount(blk) ==
    Cardinality({i \in DOMAIN blk : i = 1 \/ blk[i] # blk[i - 1] + 1})

Super(state, m) ==
    [state |-> state, freeBlocks |-> m.freeBlocks, freeInodes |-> m.freeInodes,
     sequence |-> m.sequence]

(* The state of a volume that is not mounted. *)
Unmounted ==
    [mounted |-> FALSE, group |-> FALSE, pending |-> 0, sequence |-> 0,
     freeBlocks |-> 0, freeInodes |-> 0, inodeBitmap |-> {}, blockBitmap |-> {},
     inodeDirty |-> FALSE, blockDirty |-> FALSE, cache |-> <<>>]

(* kernel_rmfs_mount: a volume is accepted when its superblock is CLEAN    *)
(* and the backup is the same block.                                       *)
Mountable(d) ==
    /\ d[SuperBlock].state = "CLEAN"
    /\ d[SuperBlock] = d[BackupBlock]
    /\ d[InodeTable][RootInode].mode = "directory"

Mounted(d) ==
    [Unmounted EXCEPT
        !.mounted = TRUE,
        !.sequence = d[SuperBlock].sequence,
        !.freeBlocks = d[SuperBlock].freeBlocks,
        !.freeInodes = d[SuperBlock].freeInodes,
        !.inodeBitmap = d[InodeBitmap],
        !.blockBitmap = d[BlockBitmap],
        !.cache = <<[block |-> InodeTable, dirty |-> FALSE, data |-> d[InodeTable]]>>]

-----------------------------------------------------------------------------
(* An operation as it runs: the fields of kernel_rmfs, the medium with the *)
(* operation's writes applied, those writes, and whether it still goes on. *)
Run(m, d) == [m |-> m, d |-> d, w |-> <<>>, okay |-> TRUE]

(* rmfs_write_block *)
WriteBlock(x, b, v) ==
    [x EXCEPT !.d[b] = v, !.w = Append(@, [block |-> b, data |-> v])]

(* kernel_block_flush *)
Flush(x) == [x EXCEPT !.w = Append(@, [block |-> FlushCommand, data |-> 0])]

(* The oldest entry of a full cache makes room: it is written back if it   *)
(* is dirty, which needs an open group.                                    *)
Evict(x) ==
    IF Len(x.m.cache) < CacheEntries THEN x
    ELSE IF ~Head(x.m.cache).dirty THEN [x EXCEPT !.m.cache = Tail(@)]
    ELSE IF ~x.m.group THEN [x EXCEPT !.okay = FALSE]
    ELSE WriteBlock([x EXCEPT !.m.cache = Tail(@)], Head(x.m.cache).block, Head(x.m.cache).data)

Load(x, b, dirty) ==
    IF ~x.okay THEN x
    ELSE [x EXCEPT !.m.cache = Append(@, [block |-> b, dirty |-> dirty, data |-> x.d[b]])]

Touch(x, i, dirty) ==
    [x EXCEPT !.m.cache = Append(RemoveAt(@, i), [@[i] EXCEPT !.dirty = @ \/ dirty])]

(* rmfs_metadata_block: the block becomes the youngest entry of the cache. *)
MetadataBlock(x, b, dirty) ==
    LET i == SelectInSeq(x.m.cache, LAMBDA e : e.block = b)
    IN  IF i # 0 THEN Touch(x, i, dirty) ELSE Load(Evict(x), b, dirty)

(* The contents of the block that MetadataBlock has just returned. *)
Returned(x) == x.m.cache[Len(x.m.cache)].data

(* Mutant: the block is written, but the cached copy is left as it was. *)
StoreAround(x, b, i, v) == WriteBlock(x, b, [Returned(x) EXCEPT ![i] = v])

(* A store into that block, which rmfs_write_inode and rmfs_write_dirent   *)
(* follow by a write of the whole block.                                   *)
StoreThrough(x, b, i, v) ==
    LET data == [Returned(x) EXCEPT ![i] = v]
    IN  WriteBlock([x EXCEPT !.m.cache[Len(x.m.cache)].data = data], b, data)

WriteInode(x, n, inode) ==
    StoreThrough(MetadataBlock(x, InodeTable, TRUE), InodeTable, n, inode)

WriteDirent(x, b, slot, n, name) ==
    StoreThrough(MetadataBlock(x, b, TRUE), b, slot, [inode |-> n, name |-> name])

(* rmfs_flush_metadata_cache *)
FlushMetadataCache(x) ==
    FoldLeftDomain(
        LAMBDA y, i :
            IF y.m.cache[i].dirty
            THEN [WriteBlock(y, y.m.cache[i].block, y.m.cache[i].data)
                    EXCEPT !.m.cache[i].dirty = FALSE]
            ELSE y,
        x, x.m.cache)

(* rmfs_flush_bitmap of both bitmaps. *)
FlushBitmaps(x) ==
    LET y == IF x.m.inodeDirty THEN WriteBlock(x, InodeBitmap, x.m.inodeBitmap) ELSE x
        z == IF y.m.blockDirty THEN WriteBlock(y, BlockBitmap, y.m.blockBitmap) ELSE y
    IN  [z EXCEPT !.m.inodeDirty = FALSE, !.m.blockDirty = FALSE]

(* rmfs_write_super: the primary first, then the backup. *)
WriteSuper(x, state) ==
    WriteBlock(WriteBlock(x, SuperBlock, Super(state, x.m)),
               BackupBlock, Super(state, x.m))

(* rmfs_begin_group *)
BeginGroup(x) ==
    IF x.m.group THEN x
    ELSE [Flush(WriteSuper(x, "DIRTY")) EXCEPT !.m.group = TRUE, !.m.pending = 0]

(* rmfs_sync_locked *)
SyncLocked(x) ==
    IF ~x.m.group THEN x
    ELSE [Flush(WriteSuper(FlushBitmaps(FlushMetadataCache(x)), "CLEAN"))
            EXCEPT !.m.group = FALSE, !.m.pending = 0]

-----------------------------------------------------------------------------
(* A scan of logical block l of a directory, which x has just returned:    *)
(* the inode of name, or 0, and the first free slot so far, or 0.          *)
ScanBlock(found, x, dir, name, l) ==
    LET Used(i) == (l - 1) * BlockSize + i <= dir.size
        match == {i \in 1 .. BlockSize : Used(i) /\ Returned(x)[i].inode # 0
                                                /\ Returned(x)[i].name = name}
        gap == {i \in 1 .. BlockSize : Used(i) /\ Returned(x)[i].inode = 0}
    IN  IF ~x.okay THEN [found EXCEPT !.x = x]
        ELSE [x |-> x,
              inode |-> IF match = {} THEN 0 ELSE Returned(x)[CHOOSE i \in match : TRUE].inode,
              slot |-> IF found.slot # 0 \/ gap = {} THEN found.slot
                       ELSE (l - 1) * BlockSize + (CHOOSE i \in gap : \A j \in gap : i <= j)]

(* A directory's last block may have room beyond the directory's size. *)
WithRoom(found, dir) ==
    IF found.slot = 0 /\ dir.size < Len(dir.blk) * BlockSize
    THEN [found EXCEPT !.slot = dir.size + 1]
    ELSE found

(* rmfs_find_directory_entry: the blocks are scanned until the name is     *)
(* found.                                                                  *)
FindDirectoryEntry(x, dir, name) ==
    WithRoom(FoldLeftDomain(
                 LAMBDA found, l :
                     IF found.inode # 0 \/ ~found.x.okay THEN found
                     ELSE ScanBlock(found, MetadataBlock(found.x, dir.blk[l], FALSE), dir, name, l),
                 [x |-> x, inode |-> 0, slot |-> 0], SubSeq(dir.blk, 1, BlocksFor(dir.size))),
             dir)

(* The n lowest free data blocks; rmfs_allocate_extents takes them if they *)
(* make no more than InlineExtents extents.                                *)
FirstFree(bitmap, n) ==
    LET free == DataBlocks \ bitmap
    IN  [i \in 1 .. n |-> CHOOSE b \in free : Cardinality({c \in free : c < b}) = i - 1]

CanAllocate(m, bitmap, n) ==
    n <= m.freeBlocks /\ n <= Cardinality(DataBlocks \ bitmap)
      /\ ExtentCount(FirstFree(bitmap, n)) <= InlineExtents

(* rmfs_allocate_inode: the lowest free inode. *)
AllocateInode(bitmap) ==
    CHOOSE i \in Inodes \ bitmap : \A j \in Inodes \ bitmap : i <= j

(* rmfs_expand_directory: the block b is cleared and joins the directory.  *)
ExpandDirectory(x, dir, b) ==
    [x |-> WriteBlock(x, b, ZeroDirectory), dir |-> [dir EXCEPT !.blk = Append(@, b)]]

(* Mutant: the tail of the block that held the old end of file is not      *)
(* cleared.                                                                *)
DataBlockKeepsTail(d, old, r, i) ==
    [j \in 1 .. BlockSize |->
        LET c == i * BlockSize + j IN
        IF c > r.off /\ c <= r.off + Len(r.data) THEN r.data[c - r.off]
        ELSE IF r.preserve /\ i < BlocksFor(old.size) THEN d[old.blk[i + 1]][j]
        ELSE 0]

(* The new contents of logical block i: what a range write keeps of the    *)
(* old file, zeros beyond its end, and the caller's data on top.           *)
DataBlock(d, old, r, i) ==
    [j \in 1 .. BlockSize |->
        LET c == i * BlockSize + j IN
        IF c > r.off /\ c <= r.off + Len(r.data) THEN r.data[c - r.off]
        ELSE IF r.preserve /\ c <= old.size THEN d[old.blk[i + 1]][j]
        ELSE 0]

(* The logical blocks [first, end) that a write replaces: for a range      *)
(* write the blocks it touches and, when the file grows by blocks, every   *)
(* block from the one that holds the old end of file.                      *)
ReplaceFirst(old, r) ==
    LET exposed == IF old.size % BlockSize # 0 THEN BlocksFor(old.size) - 1
                   ELSE BlocksFor(old.size)
        touched == r.off \div BlockSize
    IN  IF ~r.preserve THEN 0
        ELSE IF BlocksFor(r.final) > BlocksFor(old.size) /\ touched > exposed THEN exposed
        ELSE touched

ReplaceEnd(old, r) ==
    IF ~r.preserve \/ BlocksFor(r.final) > BlocksFor(old.size)
    THEN BlocksFor(r.final)
    ELSE BlocksFor(r.off + Len(r.data))

ReplaceCount(old, r) == ReplaceEnd(old, r) - ReplaceFirst(old, r)

(* Mutant: the blocks behind the replaced ones are forgotten. *)
NewBlocksWithoutTail(old, r, fresh) ==
    IF r.preserve THEN SubSeq(old.blk, 1, ReplaceFirst(old, r)) \o fresh ELSE fresh

(* The blocks of the new inode: for a range write the fresh blocks replace *)
(* the logical blocks [first, end) of the old inode.                       *)
NewBlocks(old, r, fresh) ==
    IF r.preserve
    THEN SubSeq(old.blk, 1, ReplaceFirst(old, r)) \o fresh
           \o SubSeq(old.blk, ReplaceEnd(old, r) + 1, BlocksFor(old.size))
    ELSE fresh

(* What an operation is once it is planned: its writes w, of which n are   *)
(* made; pre of them come before the commit starts, and visible is the one *)
(* that switches the file over.  It ends in memory state "after", or       *)
(* "back" if it gives up before pre.                                       *)
Plan(req, x, back, pre, visible, result) ==
    [req |-> req, w |-> x.w, n |-> 0, pre |-> pre, visible |-> visible,
     after |-> x.m, back |-> back, result |-> result]

(* rmfs_write_transaction gives up before the commit. *)
GiveUp(r, x) == Plan(r, x, x.m, Len(x.w), 0, FALSE)

(* The new blocks of the file, in the order of the loop. *)
WriteData(x, r, old, blk) ==
    FoldLeft(LAMBDA y, i : WriteBlock(y, blk[i + 1], DataBlock(y.d, old, r, i)),
             x, [j \in 1 .. ReplaceCount(old, r) |-> ReplaceFirst(old, r) + j - 1])

(* A new file's directory entry. *)
LinkFile(x, dir, slot, number, name) ==
    WriteDirent(x, dir.blk[(slot - 1) \div BlockSize + 1], ((slot - 1) % BlockSize) + 1, number, name)

(* The directory ends behind the entry. *)
GrowDirectory(x, dir, slot) ==
    IF slot > dir.size THEN WriteInode(x, RootInode, [dir EXCEPT !.size = slot]) ELSE x

(* The bitmaps and counts after the switch; retired are the blocks of the  *)
(* old file that are no longer used (rmfs_release_extents).                *)
Settle(x, creating, number, gained, retired) ==
    [x EXCEPT
        !.m.blockBitmap = (@ \cup gained) \ retired,
        !.m.inodeBitmap = @ \cup {number},
        !.m.freeBlocks = @ + Cardinality(retired) - Cardinality(gained),
        !.m.freeInodes = IF creating THEN @ - 1 ELSE @,
        !.m.blockDirty = @ \/ gained # {} \/ retired # {},
        !.m.inodeDirty = @ \/ creating,
        !.m.sequence = @ + 1,
        !.m.pending = @ + 1]

(* The group is committed when it has grown to its limit. *)
AutoCommit(x) == IF x.m.pending >= GroupCommitLimit THEN SyncLocked(x) ELSE x

Retired(old, r) ==
    IF r.preserve
    THEN ToSet(SubSeq(old.blk, ReplaceFirst(old, r) + 1,
                      IF ReplaceEnd(old, r) < Len(old.blk) THEN ReplaceEnd(old, r) ELSE Len(old.blk)))
    ELSE ToSet(old.blk)

(* The file has been switched over in x. *)
Switched(r, x, back, pre, creating, number, gained, retired) ==
    Plan(r, AutoCommit(Settle(x, creating, number, gained, retired)), back, pre, Len(x.w), TRUE)

(* The part of rmfs_write_transaction that runs once the blocks fresh, the *)
(* inode number and the directory slot are reserved: x is the run so far,  *)
(* dir the directory with the blocks "added" that it gained.               *)
CommitWrite(r, x, back, old, fresh, number, dir, slot, added) ==
    LET blk == NewBlocks(old, r, fresh)
        file == WriteInode(WriteData(BeginGroup(x), r, old, blk), number,
                           [mode |-> "regular", size |-> r.final, blk |-> blk])
    IN  Switched(r,
                 IF slot = 0 THEN file
                 ELSE GrowDirectory(LinkFile(file, dir, slot, number, r.name), dir, slot),
                 back, Len(x.w), slot # 0, number, ToSet(fresh) \cup added, Retired(old, r))

(* A new file needs an inode and a directory slot; slot is 0 when the      *)
(* directory is full and must be expanded by the block more.               *)
CreateFile(r, x, dir, slot, fresh, more) ==
    IF Inodes \subseteq x.m.inodeBitmap THEN GiveUp(r, x)
    ELSE IF slot # 0
    THEN CommitWrite(r, x, x.m, NoInode, fresh, AllocateInode(x.m.inodeBitmap), dir, slot, {})
    ELSE IF ~CanAllocate(x.m, x.m.blockBitmap \cup ToSet(fresh), 1) THEN GiveUp(r, x)
    ELSE IF ExtentCount(Append(dir.blk, more)) > InlineExtents
    THEN GiveUp(r, ExpandDirectory(x, dir, more).x)
    ELSE CommitWrite(r, ExpandDirectory(x, dir, more).x, x.m, NoInode, fresh,
                     AllocateInode(x.m.inodeBitmap), ExpandDirectory(x, dir, more).dir,
                     dir.size + 1, {more})

(* The blocks fresh are allocated; number is 0 for a new file. *)
Reserve(r, x, dir, slot, old, number, fresh) ==
    IF ExtentCount(NewBlocks(old, r, fresh)) > InlineExtents THEN GiveUp(r, x)
    ELSE IF number # 0 THEN CommitWrite(r, x, x.m, old, fresh, number, dir, 0, {})
    ELSE CreateFile(r, x, dir, slot, fresh,
                    FirstFree(x.m.blockBitmap \cup ToSet(fresh), 1)[1])

(* The checks of a write to the file that the lookup x has found, if any.  *)
CheckWrite(r, x, dir, slot, old, number) ==
    IF ~x.okay \/ (r.preserve /\ (number = 0 \/ r.final < old.size)) THEN GiveUp(r, x)
    ELSE IF r.preserve /\ r.data = <<>>
    THEN Plan(r, x, x.m, Len(x.w), 0, r.final = old.size)
    ELSE IF ~CanAllocate(x.m, x.m.blockBitmap, ReplaceCount(old, r)) THEN GiveUp(r, x)
    ELSE Reserve(r, x, dir, slot, old, number,
                 FirstFree(x.m.blockBitmap, ReplaceCount(old, r)))

ReturnedInode(x, n) == IF x.okay THEN Returned(x)[n] ELSE NoInode

WriteExisting(r, x, dir, number) == CheckWrite(r, x, dir, 0, ReturnedInode(x, number), number)

WriteFound(r, e, dir) ==
    IF e.inode = 0 THEN CheckWrite(r, e.x, dir, e.slot, NoInode, 0)
    ELSE WriteExisting(r, MetadataBlock(e.x, InodeTable, FALSE), dir, e.inode)

WriteIn(r, x, dir) == WriteFound(r, FindDirectoryEntry(x, dir, r.name), dir)

(* rmfs_write_transaction *)
WriteTransaction(r, x) == WriteIn(r, x, Returned(x)[RootInode])

(* rmfs_resolve, as the read calls use it: the run after the lookup and    *)
(* the inode, which has mode "free" if the lookup fails.                   *)
ResolveFound(e) ==
    LET With(x) == [x |-> x, inode |-> ReturnedInode(x, e.inode)]
    IN  IF ~e.x.okay \/ e.inode = 0 THEN [x |-> e.x, inode |-> NoInode]
        ELSE With(MetadataBlock(e.x, InodeTable, FALSE))

Resolve(x, name) == ResolveFound(FindDirectoryEntry(x, Returned(x)[RootInode], name))

(* The lookup of the root directory's inode starts every operation. *)
RootBlock(m, d) == MetadataBlock(Run(m, d), InodeTable, FALSE)

(* kernel_rmfs_read_range of a whole file. *)
ReadInode(inode, d) ==
    [exists |-> inode.mode = "regular",
     data |-> [i \in 1 .. inode.size |->
         d[inode.blk[((i - 1) \div BlockSize) + 1]][((i - 1) % BlockSize) + 1]]]

ReadFile(m, d, name) == ReadInode(Resolve(RootBlock(m, d), name).inode, d)

-----------------------------------------------------------------------------
NoRequest == [name |-> 0]
SyncRequest == [name |-> 0, sync |-> TRUE]

(* kernel_rmfs_write_file replaces a file or creates it;                   *)
(* kernel_rmfs_write_range changes a part of a file that exists.           *)
WriteRequests ==
    {r \in [name : Names, off : 0 .. MaxSize, data : Payloads,
            final : 0 .. MaxSize, preserve : BOOLEAN] :
        IF r.preserve THEN r.off + Len(r.data) <= r.final
        ELSE r.off = 0 /\ r.final = Len(r.data)}

(* A lookup that only reads. *)
ReadRequests == [name : Names, read : {TRUE}]

IsRead(r) == r \in ReadRequests

NoOp == [req |-> NoRequest]

ReadPlan(r, x) == Plan(r, x, mem, Len(x.w), 0, x.okay)

PlanOf(r) ==
    IF r = SyncRequest THEN Plan(r, SyncLocked(Run(mem, disk)), mem, 0, 0, TRUE)
    ELSE IF IsRead(r) THEN ReadPlan(r, Resolve(RootBlock(mem, disk), r.name).x)
    ELSE WriteTransaction(r, RootBlock(mem, disk))

(* The files that the blocks of a medium hold, read without the driver. *)
Contents(d) ==
    LET dir == d[InodeTable][RootInode]
        Cell(inode, i) == d[inode.blk[((i - 1) \div BlockSize) + 1]][((i - 1) % BlockSize) + 1]
        Match(n) == {i \in 1 .. dir.size : Cell(dir, i).name = n}
        Inode(n) == d[InodeTable][Cell(dir, CHOOSE i \in Match(n) : TRUE).inode]
    IN  [n \in Names |->
            IF Match(n) = {} THEN [data |-> <<>>, exists |-> FALSE]
            ELSE [data |-> [i \in 1 .. Inode(n).size |-> Cell(Inode(n), i)], exists |-> TRUE]]

(* The only caller of kernel_rmfs_write_range, kernel_vfs_file_write, asks *)
(* for a final size that is the end of the write or a size that the file   *)
(* has had, and no file shrinks while it is open.                          *)
Callable(r) ==
    r.preserve => r.final = r.off + Len(r.data) \/ r.final <= Len(Contents(disk)[r.name].data)

(* kernel_rmfs_write_file, kernel_rmfs_write_range, kernel_rmfs_sync and   *)
(* the read calls take the lock.                                           *)
Start(r) ==
    /\ mem.mounted /\ op = NoOp
    /\ r \in WriteRequests => mem.sequence < MaxSequence /\ Callable(r)
    /\ op' = PlanOf(r)
    /\ UNCHANGED <<disk, mem, ok>>

Apply(d, w) == IF w.block = FlushCommand THEN d ELSE [d EXCEPT ![w.block] = w.data]

InProgress == op # NoOp /\ op.n < Len(op.w)

(* The device completes the next write of the operation. *)
WriteDone ==
    /\ InProgress
    /\ disk' = Apply(disk, op.w[op.n + 1])
    /\ op' = [op EXCEPT !.n = @ + 1]
    /\ UNCHANGED <<mem, ok>>

(* The operation as it goes on after a device error with n writes made:    *)
(* before the commit it rolls back, after it the volume is unmounted.      *)
Aborted(n) ==
    [op EXCEPT !.n = n, !.w = SubSeq(op.w, 1, n), !.result = FALSE,
               !.after = IF op.n < op.pre THEN op.back ELSE Unmounted]

(* The next write fails; a write that failed or timed out may still have   *)
(* reached the medium.                                                     *)
WriteFails ==
    /\ InProgress
    /\ \/ op' = Aborted(op.n) /\ UNCHANGED disk
       \/ op' = Aborted(op.n + 1) /\ disk' = Apply(disk, op.w[op.n + 1])
    /\ UNCHANGED <<mem, ok>>

(* A block that the lookup needs cannot be read: the operation gives up.   *)
(* (A read that fails after the commit has started acts like a failure of  *)
(* the write it precedes.)                                                 *)
ReadFails ==
    /\ op # NoOp /\ op.req # SyncRequest /\ op.n = 0
    /\ op' = [op EXCEPT !.w = <<>>, !.result = FALSE, !.after = op.back, !.pre = 0]
    /\ UNCHANGED <<disk, mem, ok>>

(* The call returns and the lock is released. *)
Finish ==
    /\ op # NoOp /\ op.n = Len(op.w)
    /\ mem' = op.after
    /\ ok' = IF IsRead(op.req) THEN ok ELSE op.result
    /\ op' = NoOp
    /\ UNCHANGED disk

(* The machine stops at any moment. *)
Crash ==
    /\ mem.mounted
    /\ mem' = Unmounted /\ op' = NoOp
    /\ UNCHANGED <<disk, ok>>

(* kernel_rmfs_mount at the next boot. *)
Mount ==
    /\ ~mem.mounted
    /\ mem' = IF Mountable(disk) THEN Mounted(disk) ELSE Unmounted
    /\ UNCHANGED <<disk, op, ok>>

(* rmfs_image_format: a volume with one directory and one file. *)
Formatted ==
    LET file == CHOOSE n \in Names : \A p \in Names : n <= p
        blk == [i \in 1 .. BlocksFor(InitSize) |-> DataStart + i]
        used == (SuperBlock .. DataStart + Len(blk)) \cup {BackupBlock}
        super == [state |-> "CLEAN", freeBlocks |-> Cardinality(Blocks \ used),
                  freeInodes |-> InodeCount - 2, sequence |-> 1]
        root == [mode |-> "directory", size |-> 1, blk |-> <<DataStart>>]
        init == [mode |-> "regular", size |-> InitSize, blk |-> blk]
    IN  [b \in Blocks |->
            CASE b \in {SuperBlock, BackupBlock} -> super
              [] b = InodeBitmap -> {RootInode, RootInode + 1}
              [] b = BlockBitmap -> used
              [] b = InodeTable -> [[i \in Inodes |-> NoInode]
                                     EXCEPT ![RootInode] = root, ![RootInode + 1] = init]
              [] b = DataStart ->
                    [ZeroDirectory EXCEPT ![1] = [inode |-> RootInode + 1, name |-> file]]
              [] b \in ToSet(blk) ->
                    [i \in 1 .. BlockSize |->
                        IF (b - DataStart - 1) * BlockSize + i <= InitSize THEN 1 ELSE StaleCell]
              [] OTHER -> ZeroData]

Init ==
    /\ disk = Formatted
    /\ mem = Mounted(disk)
    /\ op = NoOp /\ ok = TRUE

Next ==
    \/ \E r \in WriteRequests \cup ReadRequests \cup {SyncRequest} : Start(r)
    \/ WriteDone \/ WriteFails \/ ReadFails \/ Finish \/ Crash \/ Mount

Spec == Init /\ [][Next]_vars

-----------------------------------------------------------------------------
(* The inodes that the directory reaches, and the blocks they own. *)
Reached(d) ==
    LET dir == d[InodeTable][RootInode]
    IN  {RootInode} \cup
        {d[dir.blk[((i - 1) \div BlockSize) + 1]][((i - 1) % BlockSize) + 1].inode : i \in 1 .. dir.size}

Owned(d, i) == ToSet(d[InodeTable][i].blk)

(* The allocation state agrees with the blocks that the files use. *)
Agrees(d, inodes, blocks, freeBlocks, freeInodes) ==
    /\ inodes = Reached(d)
    /\ blocks = (SuperBlock .. InodeTable) \cup {BackupBlock} \cup UNION {Owned(d, i) : i \in Reached(d)}
    /\ freeBlocks = Cardinality(Blocks \ blocks)
    /\ freeInodes = Cardinality(Inodes \ inodes)
    /\ \A i, j \in Reached(d) : i # j => Owned(d, i) \cap Owned(d, j) = {}
    /\ \A i \in Reached(d) : /\ Cardinality(Owned(d, i)) = Len(d[InodeTable][i].blk)
                             /\ ExtentCount(d[InodeTable][i].blk) <= InlineExtents

-----------------------------------------------------------------------------
(* The fields of kernel_rmfs and the blocks of the medium stay in range:   *)
(* the free counts never wrap below zero, the cache never outgrows its     *)
(* entries nor caches a block twice, and a dirty entry needs an open group *)
(* (rmfs_metadata_block refuses to evict it otherwise).                    *)
TypeOK ==
    /\ mem.freeBlocks \in 0 .. BackupBlock + 1 /\ mem.freeInodes \in 0 .. InodeCount
    /\ mem.pending \in 0 .. GroupCommitLimit - 1 /\ mem.sequence \in 0 .. MaxSequence
    /\ mem.inodeBitmap \subseteq Inodes /\ mem.blockBitmap \subseteq Blocks
    /\ \A f \in {mem.mounted, mem.group, mem.inodeDirty, mem.blockDirty, ok} : f \in BOOLEAN
    /\ Len(mem.cache) <= CacheEntries
    /\ \A i, j \in DOMAIN mem.cache : mem.cache[i].block = mem.cache[j].block => i = j
    /\ \A i \in DOMAIN mem.cache : mem.cache[i].dirty => mem.group
    /\ DOMAIN disk = Blocks
    /\ \A b \in {SuperBlock, BackupBlock} : disk[b].state \in {"CLEAN", "DIRTY"}
    /\ \A i \in Inodes : disk[InodeTable][i].mode \in {"free", "directory", "regular"}
    /\ \A b \in DataBlocks : DOMAIN disk[b] = 1 .. BlockSize

(* A volume that kernel_rmfs_mount accepts is sound, wherever the machine  *)
(* stopped and whichever writes failed: its bitmaps and free counts are    *)
(* exactly those of the files it holds, and no block has two owners.       *)
MountableIsSound ==
    Mountable(disk) =>
        Agrees(disk, disk[InodeBitmap], disk[BlockBitmap],
               disk[SuperBlock].freeBlocks, disk[SuperBlock].freeInodes)

(* Between operations the bitmaps and counts in memory are those of the    *)
(* files on the medium: a rolled-back operation returns everything it had  *)
(* reserved, and a committed one frees exactly the blocks it replaced.     *)
MemoryIsSound ==
    mem.mounted /\ op = NoOp =>
        Agrees(disk, mem.inodeBitmap, mem.blockBitmap, mem.freeBlocks, mem.freeInodes)

(* The books agree with the files at every mount and between operations.   *)
VolumeIsSound == TypeOK /\ MountableIsSound /\ MemoryIsSound

(* A read through the metadata cache returns what the medium holds,        *)
(* whatever was evicted, written back or rolled back before.               *)
ReadsAgree ==
    mem.mounted /\ op = NoOp =>
        \A n \in Names : ReadFile(mem, disk, n) = Contents(disk)[n]

(* The driver implements the volume of RmfsSpec: a file changes in one     *)
(* step (the write of the inode, directory or parent block that makes the  *)
(* new blocks reachable) to what was asked for, holes read as zeros, other *)
(* files never change, and no uncommitted state can be mounted.            *)
Volume == INSTANCE RmfsSpec WITH
    Requests <- WriteRequests \cup {SyncRequest},
    files <- Contents(disk),
    torn <- ~Mountable(disk),
    up <- mem.mounted,
    req <- IF IsRead(op.req) THEN NoRequest ELSE op.req,
    done <- op # NoOp /\ op.visible # 0 /\ op.n >= op.visible,
    ok <- ok

ImplementsVolume == Volume!ASpec
=============================================================================
