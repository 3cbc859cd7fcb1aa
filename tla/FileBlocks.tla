----------------------------- MODULE FileBlocks -----------------------------
(***************************************************************************)
(* The contents of files: file_write, file_read and                        *)
(* file_remove_some_content of fs/file.c with the block bitmap and the     *)
(* inode in memory and on the disk, the calls of fs/fs.c that reach them   *)
(* through a position, and a power cut between any two sector writes.      *)
(*                                                                         *)
(* A sector is BLOCK_SIZE cells.  A cell is one word: the code's index     *)
(* block holds as many block numbers as a block has words, 128, and its    *)
(* 140 blocks are the 12 of the inode and these.  A call changes memory at *)
(* once and leaves the sectors it writes, in order, in pending; no other   *)
(* call runs until they are written.  Left out: calls that overlap.        *)
(***************************************************************************)
EXTENDS Integers, Sequences, FiniteSets, SequencesExt, FiniteSetsExt

CONSTANTS
    File,        \* regular files, each open for reading and writing
    Block,       \* data blocks of the partition: numbers from 1
    N_DIRECT,    \* 12: blocks named by the inode itself
    BLOCK_SIZE,  \* cells of a block, entries of an index block
    Bytes,       \* what a caller may write
    Bufsize,     \* how much it may write, read or cut at a time
    MAX_CALLS, MAX_CRASHES  \* bounds

MAX_BLOCKS == N_DIRECT + BLOCK_SIZE     \* 140
MAX_SIZE == MAX_BLOCKS * BLOCK_SIZE

ASSUME FileBlocksAssumption ==
    /\ Block \subseteq Nat \ {0}
    /\ N_DIRECT \in Nat \ {0} /\ BLOCK_SIZE \in Nat \ {0}
    /\ Bytes \subseteq Nat /\ Bufsize \subseteq Nat
    /\ MAX_CALLS \in Nat /\ MAX_CRASHES \in Nat

VARIABLES
    block_bitmap, inode,       \* in memory; inode: i_size and i_sectors
    disk_bitmap, disk_inode,   \* on the disk
    sector,                    \* on the disk: contents of the data blocks
    fd_pos,
    pending,                   \* sectors the call under way has still to write
    caller,                    \* file of the last call
    risky,                     \* observer: the call changes in place what the disk refers to
    damaged,                   \* observer: files no promise is made about any more
    panic, calls, crashes

memory == <<block_bitmap, inode>>
disk == <<disk_bitmap, disk_inode, sector>>
ghost == <<caller, risky, damaged>>
vars == <<memory, disk, fd_pos, pending, ghost, panic, calls, crashes>>

Cell == Bytes \cup Block \cup {0}
Sector == [0..(BLOCK_SIZE - 1) -> Cell]
NewInode == [i_size |-> 0, i_sectors |-> [k \in 0..N_DIRECT |-> 0]]
Zeroed == [i \in 0..(BLOCK_SIZE - 1) |-> 0]

TypeOK ==
    /\ block_bitmap \subseteq Block /\ disk_bitmap \subseteq Block
    /\ \A node \in {inode, disk_inode} :
           node \in [File -> [i_size : 0..MAX_SIZE,
                              i_sectors : [0..N_DIRECT -> Block \cup {0}]]]
    /\ sector \in [Block -> Sector]
    /\ fd_pos \in [File -> Nat]
    /\ caller \in File /\ risky \in BOOLEAN /\ damaged \subseteq File
    /\ panic \in BOOLEAN /\ calls \in 0..MAX_CALLS /\ crashes \in 0..MAX_CRASHES

\* Empty files; the blocks still hold what earlier files left in them.
Init ==
    /\ block_bitmap = {} /\ disk_bitmap = {}
    /\ inode = [f \in File |-> NewInode] /\ disk_inode = inode
    /\ \E old \in Bytes : sector = [b \in Block |-> [Zeroed EXCEPT ![BLOCK_SIZE - 1] = old]]
    /\ fd_pos = [f \in File |-> 0]
    /\ pending = <<>>
    /\ caller \in File /\ risky = FALSE /\ damaged = {}
    /\ panic = FALSE /\ calls = 0 /\ crashes = 0

----------------------------------------------------------------------------
(* A call in progress: the state it works on.  bits and node are the bitmap *)
(* and the inode in memory, all its table all_blocks, second the variable   *)
(* secondary_lba, data the sectors as this call sees them, wr its writes.   *)

IndexOf(node, data, k) ==
    IF node.i_sectors[N_DIRECT] = 0 THEN 0
    ELSE data[node.i_sectors[N_DIRECT]][k - N_DIRECT]

\* The table of blocks that file_write and the others begin with
all_blocks(node, data) ==
    [k \in 0..(MAX_BLOCKS - 1) |->
        IF k < N_DIRECT THEN node.i_sectors[k] ELSE IndexOf(node, data, k)]

Begin(f) == [bits |-> block_bitmap, node |-> inode[f],
             all |-> all_blocks(inode[f], sector),
             second |-> inode[f].i_sectors[N_DIRECT],
             data |-> sector, wr |-> <<>>]

\* ide_write of a data block.  For block 0, none, the code writes sector 0 of
\* the disk, which is outside the model.
ide_write(st, b, cells) ==
    IF b = 0 THEN st
    ELSE [st EXCEPT !.data[b] = cells,
                    !.wr = Append(@, [to |-> "block", at |-> b, val |-> cells])]

bitmap_sync_none(st) == st    \* mutant: forgotten
\* bitmap_sync: the sector of the bitmap, as it is in memory now
bitmap_sync(st) == [st EXCEPT !.wr = Append(@, [to |-> "bitmap", val |-> st.bits])]

\* mutant: the inode goes to the disk before the bitmap and the blocks
inode_sync_first(st, f) == [st EXCEPT !.wr = <<[to |-> "inode", at |-> f, val |-> st.node]>> \o @]
inode_sync(st, f) == [st EXCEPT !.wr = Append(@, [to |-> "inode", at |-> f, val |-> st.node])]

\* block_bitmap_alloc; 0 stands for the ASSERT of bitmap_scan on a full bitmap
FirstFree(bits) == IF Block \subseteq bits THEN 0 ELSE Min(Block \ bits)

block_bitmap_dealloc(st, b) == [st EXCEPT !.bits = @ \ {b}]

IndexBlock(st) == [i \in 0..(BLOCK_SIZE - 1) |-> st.all[N_DIRECT + i]]

GiveDirect(st, k) ==
    LET b == FirstFree(st.bits)
        got == [st EXCEPT !.bits = @ \cup {b}, !.all[k] = b, !.node.i_sectors[k] = b]
    IN  bitmap_sync(ide_write(got, b, Zeroed))

\* Block 12 brings the index block.  The first two of file_write's three
\* copies of this code keep the two apart; the third names the first block
\* as the index and writes the index into the second, then zeroes the first.
GiveFirstIndirect(st, third) ==
    LET b == FirstFree(st.bits)
        s == FirstFree(st.bits \cup {b})
        got == [st EXCEPT !.bits = @ \cup {b, s},
                          !.second = IF third THEN b ELSE s,
                          !.all = [k \in DOMAIN @ |->
                              IF k < N_DIRECT THEN @[k]
                              ELSE IF k > N_DIRECT THEN 0
                              ELSE IF third THEN s ELSE b],
                          !.node.i_sectors[N_DIRECT] = IF third THEN b ELSE s]
    IN  bitmap_sync(bitmap_sync(ide_write(ide_write(got, s, IndexBlock(got)), b, Zeroed)))

\* mutant: the index block is not written back
GiveIndirectUnwritten(st, k) ==
    LET b == FirstFree(st.bits)
    IN  bitmap_sync(ide_write([st EXCEPT !.bits = @ \cup {b}, !.all[k] = b], b, Zeroed))
GiveIndirect(st, k) ==
    LET b == FirstFree(st.bits)
        got == [st EXCEPT !.bits = @ \cup {b}, !.all[k] = b]
    IN  bitmap_sync(ide_write(ide_write(got, got.second, IndexBlock(got)), b, Zeroed))

Give(st, k, third) ==
    IF 0 \in st.bits \/ st.all[k] # 0 THEN st
    ELSE IF k < N_DIRECT THEN GiveDirect(st, k)
    ELSE IF k = N_DIRECT THEN GiveFirstIndirect(st, third)
    ELSE GiveIndirect(st, k)

\* Cells off, off + 1, ... off + n - 1 of block k become v
Overwrite(st, k, off, n, v) ==
    IF 0 \in st.bits \/ st.all[k] = 0 THEN st
    ELSE ide_write(st, st.all[k], [i \in 0..(BLOCK_SIZE - 1) |->
             IF i \in off..(off + n - 1) THEN v ELSE st.data[st.all[k]][i]])

Upto(a, b) == [i \in 1..(b - a + 1) |-> a + i - 1]
Smaller(m, n) == IF m < n THEN m ELSE n
Larger(m, n) == IF m > n THEN m ELSE n

\* file_write, one block: the blocks skipped (a gap), the first, the others
WriteBlock(st, k, offset, bufsize, v) ==
    LET start == offset \div BLOCK_SIZE
        first == offset % BLOCK_SIZE
        end   == offset + bufsize
    IN  IF k < start THEN Give(st, k, FALSE)
        ELSE IF k = start
        THEN Overwrite(Give(st, k, FALSE), k, first,
                       Smaller(bufsize, BLOCK_SIZE - first), v)
        ELSE Overwrite(Give(st, k, TRUE), k, 0,
                       Smaller(end - k * BLOCK_SIZE, BLOCK_SIZE), v)

file_write(f, offset, bufsize, v) ==
    LET last == Larger(offset, offset + bufsize - 1) \div BLOCK_SIZE
        done == FoldLeft(LAMBDA st, k : WriteBlock(st, k, offset, bufsize, v),
                         Begin(f), Upto(0, last))
    IN  inode_sync([done EXCEPT !.node.i_size = Larger(@, offset + bufsize)], f)

Missing == <<-1>>
Damaged == <<-2>>

\* file_read: the cells, or Missing when a block it needs is missing.  The
\* table of blocks ends at the first zero of the inode.
file_read(node, data, offset, bufsize) ==
    LET n == Smaller(bufsize, node.i_size - offset)
        hole == {k \in 0..N_DIRECT : node.i_sectors[k] = 0}
        all == [k \in 0..(MAX_BLOCKS - 1) |->
                   IF \E h \in hole : h <= k THEN 0 ELSE all_blocks(node, data)[k]]
        cell(i) == data[all[(offset + i) \div BLOCK_SIZE]][(offset + i) % BLOCK_SIZE]
    IN  IF \E i \in 0..(n - 1) : all[(offset + i) \div BLOCK_SIZE] = 0 THEN Missing
        ELSE [i \in 1..n |-> cell(i - 1)]

DivRoundUp(m, n) == (m + n - 1) \div n

\* The run of blocks from k to the first missing one, which a cut frees
FreedRun(st, k) ==
    {j \in k..(MAX_BLOCKS - 1) : \A i \in k..j : st.all[i] # 0}

FreeBlock(st, j) ==
    bitmap_sync(block_bitmap_dealloc(
        [st EXCEPT !.all[j] = 0,
                   !.node.i_sectors = [k \in DOMAIN @ |-> IF k = j THEN 0 ELSE @[k]]],
        st.all[j]))

\* The part of file_remove_some_content that frees blocks, from block k on.
\* Above block 12 the inode names only the index, which is written back.
FreeFrom(st, k) ==
    LET run   == FreedRun(st, k)
        freed == FoldLeft(FreeBlock, st, Upto(k, k + Cardinality(run) - 1))
    IN  IF k > N_DIRECT THEN ide_write(freed, st.second, IndexBlock(freed))
        ELSE IF st.second # 0 THEN bitmap_sync(block_bitmap_dealloc(freed, st.second))
        ELSE freed

\* The ASSERT after the blocks are freed
CutAssert(st, k) ==
    st.second # 0 => k + Cardinality(FreedRun(st, k)) = DivRoundUp(st.node.i_size, BLOCK_SIZE)

\* Where freeing begins: the block of offset, or the one after its kept part
FreeStart(offset) == DivRoundUp(offset, BLOCK_SIZE)

Truncates(f, offset, size) == offset + size >= inode[f].i_size

\* file_remove_some_content: cuts the end off, or zeroes a range
ZeroBlock(st, k, offset, size) ==
    LET from == Larger(offset, k * BLOCK_SIZE)
        to == Smaller(offset + size, (k + 1) * BLOCK_SIZE)
    IN  Overwrite(st, k, from % BLOCK_SIZE, to - from, 0)

file_remove_some_content(f, offset, size) ==
    LET k    == offset \div BLOCK_SIZE
        st   == Begin(f)
        left == offset % BLOCK_SIZE
        trim == IF left = 0 THEN st ELSE Overwrite(st, k, left, BLOCK_SIZE - left, 0)
    IN  IF Truncates(f, offset, size)
        THEN inode_sync([FreeFrom(trim, FreeStart(offset)) EXCEPT !.node.i_size = offset], f)
        ELSE inode_sync(FoldLeft(LAMBDA s, j : ZeroBlock(s, j, offset, size), st,
                                 Upto(k, (offset + size - 1) \div BLOCK_SIZE)), f)

----------------------------------------------------------------------------
(* Calls.                                                                  *)

\* Once the blocks of files may overlap (damaged = File) a data block may be
\* read as an index, and calls are followed no further.
Ready == pending = <<>> /\ ~panic /\ damaged # File /\ calls < MAX_CALLS

\* The call frees a block or rewrites an index the disk's inode refers to
ChangesInPlace(f, st) ==
    \/ ~(block_bitmap \subseteq st.bits)
    \/ \E i \in 1..Len(st.wr) :
           st.wr[i].to = "block" /\ st.wr[i].at = disk_inode[f].i_sectors[N_DIRECT]

\* What a call that has worked out st leaves
Return(f, st) ==
    /\ block_bitmap' = st.bits
    /\ inode' = [inode EXCEPT ![f] = st.node]
    /\ pending' = st.wr
    /\ caller' = f
    /\ risky' = ChangesInPlace(f, st)
    /\ UNCHANGED disk

\* The index names no first block although the file has an index: what the
\* third copy of the code leaves when the write ends in block 12
LosesEnd(st) ==
    /\ st.node.i_sectors[N_DIRECT] # 0
    /\ st.data[st.node.i_sectors[N_DIRECT]][0] = 0

Position(f) == fd_pos[f]

user_file_write(f) ==
    /\ Ready
    /\ \E bufsize \in Bufsize, v \in Bytes :
           /\ Position(f) < MAX_SIZE /\ Position(f) + bufsize <= MAX_SIZE
           /\ LET st == file_write(f, Position(f), bufsize, v)
              IN  /\ 0 \notin st.bits   \* else the machine stops: as Crash
                  /\ Return(f, st)
                  /\ damaged' = IF LosesEnd(st) THEN damaged \cup {f} ELSE damaged
           /\ fd_pos' = [fd_pos EXCEPT ![f] = @ + bufsize]
    /\ calls' = calls + 1
    /\ UNCHANGED <<panic, crashes>>

MovedUnchecked(pos, read_cnt) == pos + read_cnt  \* mutant: a failed read moves too
\* The position moves over what was read, and not at all on failure
Moved(pos, read_cnt) == IF read_cnt = -1 THEN pos ELSE pos + read_cnt

user_file_read(f) ==
    /\ Ready
    /\ \E bufsize \in Bufsize :
           LET cells == file_read(inode[f], sector, Position(f), bufsize)
               read_cnt == IF Position(f) >= inode[f].i_size \/ cells = Missing THEN -1
                           ELSE Len(cells)
           IN  fd_pos' = [fd_pos EXCEPT ![f] = Moved(@, read_cnt)]
    /\ UNCHANGED <<memory, disk, pending, ghost, panic, calls, crashes>>

\* SEEK_SET is clamped to the size, SEEK_CUR and SEEK_END stop the machine
\* when they leave the file
user_file_seekp(f) ==
    /\ Ready
    /\ \E pos \in 0..inode[f].i_size : fd_pos' = [fd_pos EXCEPT ![f] = pos]
    /\ UNCHANGED <<memory, disk, pending, ghost, panic, calls, crashes>>

user_file_remove_some_content(f) ==
    /\ Ready
    /\ Position(f) < inode[f].i_size
    /\ \E size \in Bufsize :
           LET cut == Smaller(size, inode[f].i_size - Position(f))
               st  == file_remove_some_content(f, Position(f), cut)
               failed == Truncates(f, Position(f), cut)
                         /\ ~CutAssert(Begin(f), FreeStart(Position(f)))
           IN  /\ Return(f, st)
               /\ panic' = failed
               /\ damaged' = IF failed THEN File ELSE damaged
               /\ fd_pos' = [fd_pos EXCEPT ![f] = @ + size]
    /\ calls' = calls + 1
    /\ UNCHANGED crashes

\* One sector reaches the disk
ide_write_sector ==
    /\ pending # <<>>
    /\ LET w == Head(pending)
       IN  /\ disk_bitmap' = IF w.to = "bitmap" THEN w.val ELSE disk_bitmap
           /\ disk_inode' = IF w.to = "inode" THEN [disk_inode EXCEPT ![w.at] = w.val]
                            ELSE disk_inode
           /\ sector' = IF w.to = "block" THEN [sector EXCEPT ![w.at] = w.val] ELSE sector
    /\ pending' = Tail(pending)
    /\ UNCHANGED <<memory, fd_pos, ghost, panic, calls, crashes>>

\* A power cut; mount_partition and inode_open then read the disk
Crash ==
    /\ crashes < MAX_CRASHES
    /\ crashes' = crashes + 1
    /\ block_bitmap' = disk_bitmap
    /\ inode' = disk_inode
    /\ fd_pos' = [f \in File |-> 0]
    /\ pending' = <<>>
    /\ damaged' = IF pending = <<>> THEN damaged
                  ELSE IF risky THEN File ELSE damaged \cup {caller}
    /\ risky' = FALSE
    /\ panic' = FALSE
    /\ UNCHANGED <<disk, caller, calls>>

Next ==
    \/ \E f \in File :
           \/ user_file_write(f)
           \/ user_file_read(f)
           \/ user_file_seekp(f)
           \/ user_file_remove_some_content(f)
    \/ ide_write_sector
    \/ Crash

Spec == Init /\ [][Next]_vars

----------------------------------------------------------------------------
(* Properties.                                                             *)

\* When a call has returned, the disk holds the bitmap and the inodes as
\* memory does: a power cut between calls loses nothing.
Synced ==
    pending = <<>> /\ ~panic => disk_bitmap = block_bitmap /\ disk_inode = inode

\* Blocks the disk's inode of f refers to, as a multiset by place
Uses(f) ==
    LET all == all_blocks(disk_inode[f], sector)
    IN  {<<k, all[k]>> : k \in {j \in 0..(DivRoundUp(disk_inode[f].i_size, BLOCK_SIZE) - 1) :
                                   all[j] # 0}}
        \cup {<<N_DIRECT + BLOCK_SIZE, b>> : b \in {disk_inode[f].i_sectors[N_DIRECT]} \ {0}}

\* Between calls, and after a power cut in the middle of one that does not
\* change live metadata in place, every block a file on the disk refers to is
\* marked in the disk's bitmap and belongs to one place of one file: file_write
\* must mark blocks before the inode refers to them.
BlocksOwned ==
    pending = <<>> /\ damaged # File =>
        /\ \A f \in File : \A u \in Uses(f) : u[2] \in disk_bitmap
        /\ \A f, g \in File : \A u \in Uses(f), w \in Uses(g) :
               u[2] = w[2] => f = g /\ u[1] = w[1]

\* What a reader gets: the cells as they are once the call's writes are done
Settled == [b \in Block |->
    LET mine == {i \in 1..Len(pending) : pending[i].to = "block" /\ pending[i].at = b}
    IN  IF mine = {} THEN sector[b] ELSE pending[Max(mine)].val]
Text(f) == file_read(inode[f], Settled, 0, inode[f].i_size)

Bytewise == INSTANCE ByteFiles WITH
    content <- [f \in File |-> IF f \in damaged THEN Damaged ELSE Text(f)]

\* The blocks, the index and the bitmap together implement files that are
\* sequences of cells: reading gives what was written, gaps are zeros, a cut
\* leaves no old bytes behind, and no call touches another file's contents.
ImplementsBytes == Bytewise!Spec

\* The ASSERT of file_remove_some_content: the blocks freed are those i_size counts
CutAssertHolds == ~panic
=============================================================================
