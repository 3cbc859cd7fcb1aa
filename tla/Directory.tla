----------------------------- MODULE Directory -----------------------------
(***************************************************************************)
(* Directories and paths: the entries of fs/dir.c, the search of a path    *)
(* and the calls of fs/fs.c that create and remove files and directories,  *)
(* with the inode bitmap, the inode table on the disk, the list of open    *)
(* inodes in memory, and a power cut between any two sector writes.        *)
(*                                                                         *)
(* A call changes memory at once and leaves the sectors it writes, in      *)
(* order, in pending; no other call runs until they are written.  Blocks   *)
(* of directories are numbered as they are allocated: the code never frees *)
(* one, and which blocks are free is the subject of FileBlocks.  An inode  *)
(* carries, as an observer, the kind it was created as; the code has the   *)
(* kind in the entry only.  Left out: the contents of files, ".." in a     *)
(* path, removal of a file that is open (OpenFiles), calls that overlap.   *)
(***************************************************************************)
EXTENDS Integers, Sequences, FiniteSets, SequencesExt, FiniteSetsExt

CONSTANTS
    Name,        \* names of files and directories
    ENTRIES,     \* entries of a block: 512 / 32
    DIR_BLOCKS,  \* blocks of a directory that sync_dir_entry can fill: 13
    MAX_INO,     \* inodes of the partition: 0, the root's, to MAX_INO
    MAX_DEPTH, MAX_CALLS, MAX_CRASHES   \* bounds

ASSUME DirectoryAssumption ==
    /\ ENTRIES \in Nat /\ ENTRIES >= 2 /\ DIR_BLOCKS \in Nat \ {0}
    /\ MAX_INO \in Nat /\ MAX_DEPTH \in Nat \ {0}
    /\ MAX_CALLS \in Nat /\ MAX_CRASHES \in Nat
    /\ {".", "..", ""} \cap Name = {}

Ino == 0..MAX_INO
Path == UNION {[1..d -> Name] : d \in 1..MAX_DEPTH}

Empty == [filename |-> "", i_no |-> 0, f_type |-> "unknown"]
Entry(n, i, t) == [filename |-> n, i_no |-> i, f_type |-> t]
NoBlock == [s \in 1..ENTRIES |-> Empty]
DotBlock(own, parent) ==
    [NoBlock EXCEPT ![1] = Entry(".", own, "directory"), ![2] = Entry("..", parent, "directory")]

VARIABLES
    inode_bitmap,                  \* in memory
    open_inodes,                   \* in memory, newest first: i_no, node, i_open_cnts, fds
    disk_bitmap, inode_table,      \* on the disk
    block,                         \* on the disk: the blocks of directories
    pending,                       \* sectors the call under way has still to write
    exposed,                       \* observer: what a power cut now would do
    tainted,                       \* observer: nothing is promised any more
    tree, before,                  \* observers: kind of every path, now and before the call
    calls, crashes

memory == <<inode_bitmap, open_inodes>>
disk == <<disk_bitmap, inode_table, block>>
vars == <<memory, disk, pending, exposed, tainted, tree, before, calls, crashes>>

Node(kind, blocks) == [kind |-> kind, blocks |-> blocks]
NoInode == Node("unknown", <<>>)
Opened(i, node) == [i_no |-> i, node |-> node, i_open_cnts |-> 1, fds |-> 0]

TypeOK ==
    /\ inode_bitmap \subseteq Ino /\ disk_bitmap \subseteq Ino
    /\ \A i \in Ino : \A j \in 1..Len(inode_table[i].blocks) :
           inode_table[i].blocks[j] \in 1..Len(block)
    /\ \A k \in 1..Len(open_inodes) :
           /\ open_inodes[k].i_no \in Ino
           /\ open_inodes[k].fds >= 0
           /\ open_inodes[k].i_open_cnts >= open_inodes[k].fds
    /\ \A b \in 1..Len(block) : \A s \in 1..ENTRIES :
           /\ block[b][s].i_no \in Ino
           /\ block[b][s].f_type \in {"unknown", "regular", "directory"}
    /\ exposed \in {"no", "soon", "yes"}
    /\ tainted \in BOOLEAN /\ calls \in 0..MAX_CALLS /\ crashes \in 0..MAX_CRASHES

\* After partition_format, mount_partition and open_root_dir
Init ==
    /\ inode_bitmap = {0} /\ disk_bitmap = {0}
    /\ inode_table = [i \in Ino |-> IF i = 0 THEN Node("directory", <<1>>) ELSE NoInode]
    /\ open_inodes = <<Opened(0, Node("directory", <<1>>))>>
    /\ block = <<DotBlock(0, 0)>>
    /\ pending = <<>> /\ exposed = "no"
    /\ tree = [p \in Path |-> "none"] /\ before = tree
    /\ tainted = FALSE /\ calls = 0 /\ crashes = 0

----------------------------------------------------------------------------
(* Open inodes.                                                            *)

Places(list, i) == {k \in 1..Len(list) : list[k].i_no = i}

\* mutant: an inode that is open already is not counted
inode_open_uncounted(list, i) ==
    IF Places(list, i) # {} THEN list ELSE <<Opened(i, inode_table[i])>> \o list
\* inode_open: the first of the list with this number, else read from the disk
inode_open(list, i) ==
    IF Places(list, i) # {}
    THEN [list EXCEPT ![Min(Places(list, i))].i_open_cnts = @ + 1]
    ELSE <<Opened(i, inode_table[i])>> \o list

\* The node an inode_open would find
NodeOf(i) ==
    IF Places(open_inodes, i) # {} THEN open_inodes[Min(Places(open_inodes, i))].node
    ELSE inode_table[i]

\* inode_close of the element at k; the root is never closed
inode_close(list, k) ==
    IF list[k].i_no = 0 THEN list
    ELSE IF list[k].i_open_cnts > 1 THEN [list EXCEPT ![k].i_open_cnts = @ - 1]
    ELSE RemoveAt(list, k)

\* The writes of an inode_close: the inode is synced when the count reaches 0
ClosingSync(list, k) ==
    IF list[k].i_no = 0 \/ list[k].i_open_cnts > 1 THEN <<>>
    ELSE <<[to |-> "inode", at |-> list[k].i_no, val |-> list[k].node]>>

SyncInode(i, node) == [to |-> "inode", at |-> i, val |-> node]
SyncBits(bits) == [to |-> "bitmap", val |-> bits]
WriteBlock(b, val) == [to |-> "block", at |-> b, val |-> val]

\* The blocks after a write
Stored(blk, w) ==
    IF w.to # "block" THEN blk
    ELSE IF w.at > Len(blk) THEN Append(blk, w.val) ELSE [blk EXCEPT ![w.at] = w.val]

\* The disk, and the disk d after a write
Now == [bits |-> disk_bitmap, table |-> inode_table, blk |-> block]
Put(d, w) ==
    [bits |-> IF w.to = "bitmap" THEN w.val ELSE d.bits,
     table |-> IF w.to = "inode" THEN [d.table EXCEPT ![w.at] = w.val] ELSE d.table,
     blk |-> Stored(d.blk, w)]

----------------------------------------------------------------------------
(* Entries and paths.                                                      *)

\* The entries of a directory: <<j, s>> is entry s of its j-th block
Slots(node) == (1..Len(node.blocks)) \X (1..ENTRIES)
At(node, blk, p) == blk[node.blocks[p[1]]][p[2]]

\* mutant: an empty entry ends the search of a block
search_dir_entry_to_hole(node, blk, n) ==
    {p \in Slots(node) : /\ At(node, blk, p).filename = n
                         /\ \A r \in 1..p[2] : At(node, blk, <<p[1], r>>).f_type # "unknown"}
\* search_dir_entry: all places of name n; it returns the first
search_dir_entry(node, blk, n) ==
    {p \in Slots(node) : At(node, blk, p).filename = n}

Earlier(p, q) == p[1] < q[1] \/ (p[1] = q[1] /\ p[2] <= q[2])
First(places) == CHOOSE p \in places : \A q \in places : Earlier(p, q)

\* search_file, one name further: dir is the directory reached, parent and
\* i_no what is returned if the path ends here, depth the names searched
Step(node, blk, st, n) ==
    LET places == search_dir_entry(node[st.dir], blk, n)
        e == At(node[st.dir], blk, First(places))
        on == [st EXCEPT !.depth = @ + 1]
    IN  IF st.stop THEN st
        ELSE IF places = {}
        THEN [on EXCEPT !.i_no = -1, !.f_type = "unknown", !.parent = st.dir, !.stop = TRUE]
        ELSE IF e.f_type = "directory"
        THEN [on EXCEPT !.i_no = e.i_no, !.f_type = "directory",
                        !.parent = st.dir, !.dir = e.i_no]
        ELSE [on EXCEPT !.i_no = e.i_no, !.f_type = "regular",
                        !.parent = st.dir, !.stop = TRUE]

Search(node, blk, path) ==
    FoldLeft(LAMBDA st, n : Step(node, blk, st, n),
             [dir |-> 0, parent |-> 0, i_no |-> 0, f_type |-> "directory",
              depth |-> 0, stop |-> FALSE], path)

search_file(path) == Search([i \in Ino |-> NodeOf(i)], block, path)

\* pathname_depth against path_searched_depth
WholePath(r, path) == r.depth = Len(path)

\* Where sync_dir_entry puts an entry: the first one of unknown type
FreeSlots(node) ==
    {p \in Slots(node) : At(node, block, p).f_type = "unknown"}

\* sync_dir_entry: the node of the directory, the blocks and the write.  A new
\* block is taken when all are full; past the last one the code writes the
\* entry to sector 0 of the disk, which is outside the model.
sync_dir_entry(node, e) ==
    LET slot == First(FreeSlots(node))
        b == node.blocks[slot[1]]
    IN  IF FreeSlots(node) # {}
        THEN [node |-> node, wr |-> <<WriteBlock(b, [block[b] EXCEPT ![slot[2]] = e])>>]
        ELSE IF Len(node.blocks) < DIR_BLOCKS
        THEN [node |-> [node EXCEPT !.blocks = Append(@, Len(block) + 1)],
              wr |-> <<WriteBlock(Len(block) + 1, [NoBlock EXCEPT ![1] = e])>>]
        ELSE [node |-> node, wr |-> <<>>]

\* inode_bitmap_alloc; a full bitmap stops the machine (bitmap_scan's ASSERT)
FreeInodes == Ino \ inode_bitmap
inode_bitmap_alloc_twice(bits, i) == bits   \* mutant: the bit is not set
inode_bitmap_alloc(bits, i) == bits \cup {i}

\* list with the node of directory i replaced, if it is open
WithNode(list, i, node) ==
    IF Places(list, i) = {} THEN list ELSE [list EXCEPT ![Min(Places(list, i))].node = node]

----------------------------------------------------------------------------
(* The tree as a reader of the finished writes would find it.              *)

\* What search_file makes of a path
KindAt(node, blk, path) ==
    LET r == Search(node, blk, path)
    IN  IF WholePath(r, path) /\ r.i_no # -1 THEN r.f_type ELSE "none"

\* list, d and wr: the open inodes, the disk and the pending writes
KindsIn(list, d, wr) ==
    LET final == FoldLeft(Put, d, wr)
        node(i) == IF Places(list, i) # {} THEN list[Min(Places(list, i))].node
                   ELSE final.table[i]
    IN  [p \in Path |-> KindAt([i \in Ino |-> node(i)], final.blk, p)]

Observe == tree' = KindsIn(open_inodes', Now', pending')

----------------------------------------------------------------------------
(* Calls.                                                                  *)

Ready == pending = <<>> /\ ~tainted /\ calls < MAX_CALLS

\* What a call leaves: its writes, and whether a power cut among them hurts
Return(wr, cutHurts) ==
    /\ pending' = wr
    /\ exposed' = IF cutHurts THEN "soon" ELSE "no"
    /\ calls' = calls + 1
    /\ UNCHANGED <<disk, crashes>>
    /\ before' = tree /\ Observe

\* sys_open with O_CREAT, file_create: the entry, the parent's inode, the
\* file's inode and the bitmap are written in this order
file_create(path) ==
    LET r == search_file(path)
        i == Min(FreeInodes)
        parent == sync_dir_entry(NodeOf(r.parent), Entry(Last(path), i, "regular"))
        bits == inode_bitmap_alloc(inode_bitmap, i)
        node == Node("regular", <<>>)
    IN  /\ Ready /\ FreeInodes # {}
        /\ r.f_type # "directory" /\ WholePath(r, path) /\ r.i_no = -1
        /\ inode_bitmap' = bits
        /\ open_inodes' = <<[Opened(i, node) EXCEPT !.fds = 1]>>
                          \o WithNode(open_inodes, r.parent, parent.node)
        /\ Return(parent.wr \o <<SyncInode(r.parent, parent.node), SyncInode(i, node),
                                  SyncBits(bits)>>, TRUE)
        /\ UNCHANGED tainted

\* sys_opendir with O_CREAT, dir_create: as file_create, and a block with the
\* entries for the directory itself and its parent
dir_create(path) ==
    LET r == search_file(path)
        i == Min(FreeInodes)
        parent == sync_dir_entry(NodeOf(r.parent), Entry(Last(path), i, "directory"))
        b == Len(block) + 1 + Len(parent.node.blocks) - Len(NodeOf(r.parent).blocks)
        bits == inode_bitmap_alloc(inode_bitmap, i)
        node == Node("directory", <<b>>)
    IN  /\ Ready /\ FreeInodes # {}
        /\ r.f_type # "regular" /\ WholePath(r, path) /\ r.i_no = -1
        /\ inode_bitmap' = bits
        /\ open_inodes' = <<[Opened(i, node) EXCEPT !.fds = 1]>>
                          \o WithNode(open_inodes, r.parent, parent.node)
        /\ Return(parent.wr \o <<SyncInode(r.parent, parent.node),
                                  WriteBlock(b, DotBlock(i, r.parent)),
                                  SyncInode(i, node), SyncBits(bits)>>, TRUE)
        /\ UNCHANGED tainted

\* The ways out of sys_opendir and sys_delete_dir that keep the parent open for
\* ever: mkdir of a directory that exists, rmdir of what is no directory
ParentKept(path) ==
    LET r == search_file(path)
    IN  /\ Ready
        /\ r.parent # 0
        /\ open_inodes' = inode_open(open_inodes, r.parent)
        /\ Return(<<>>, FALSE)
        /\ UNCHANGED <<inode_bitmap, tainted>>

\* sys_open of a file that exists
file_open(path) ==
    LET r == search_file(path)
        list == inode_open(open_inodes, r.i_no)
    IN  /\ Ready
        /\ r.f_type = "regular" /\ WholePath(r, path)
        /\ open_inodes' = [list EXCEPT ![Min(Places(list, r.i_no))].fds = @ + 1]
        /\ Return(<<>>, FALSE)
        /\ UNCHANGED <<inode_bitmap, tainted>>

\* sys_close of a descriptor of the inode at k
file_close(k) ==
    /\ Ready
    /\ open_inodes[k].fds > 0
    /\ open_inodes' = inode_close([open_inodes EXCEPT ![k].fds = @ - 1], k)
    /\ Return(ClosingSync(open_inodes, k), FALSE)
    /\ UNCHANGED <<inode_bitmap, tainted>>

\* sys_remove of a file nobody has open: its entry goes first, then the inode
sys_remove(path) ==
    LET r == search_file(path)
        dir == NodeOf(r.parent)
        slot == First(search_dir_entry(dir, block, Last(path)))
        b == dir.blocks[slot[1]]
        bits == inode_bitmap \ {r.i_no}
    IN  /\ Ready
        /\ r.f_type = "regular" /\ WholePath(r, path)
        /\ Places(open_inodes, r.i_no) = {}
        /\ inode_bitmap' = bits
        /\ UNCHANGED <<open_inodes, tainted>>
        /\ Return(<<WriteBlock(b, [block[b] EXCEPT ![slot[2]] = Empty]),
                    SyncInode(r.i_no, NoInode), SyncBits(bits)>>, FALSE)

\* The entry sys_delete_dir removes: its scan of a block ends at an empty one
Removable(dir, n) ==
    {p \in Slots(dir) : /\ At(dir, block, p).filename = n
                        /\ \A r \in 1..p[2] : At(dir, block, <<p[1], r>>).f_type # "unknown"}

\* dir_delete: the bit, the list and the writes.  The buffer of zeros that it
\* scans is never read from the disk, so that what is below the directory
\* stays, and so does the inode in memory when somebody has it open.
dir_delete(i) ==
    LET bits == inode_bitmap \ {i}
        opened == inode_open(open_inodes, i)
        k == Min(Places(opened, i))
    IN  [bits |-> bits, list |-> inode_close(opened, k),
         wr |-> <<SyncBits(bits)>> \o ClosingSync(opened, k)]

\* sys_delete_dir: the inode is freed before its entry
sys_delete_dir(path) ==
    LET r == search_file(path)
        dir == NodeOf(r.parent)
        slots == Removable(dir, Last(path))
        slot == First(slots)
        b == dir.blocks[slot[1]]
        deleted == dir_delete(r.i_no)
        unlink == IF slots = {} THEN <<>>
                  ELSE <<WriteBlock(b, [block[b] EXCEPT ![slot[2]] = Empty])>>
    IN  /\ Ready
        /\ r.f_type = "directory" /\ WholePath(r, path)
        /\ inode_bitmap' = deleted.bits
        /\ open_inodes' = deleted.list
        /\ Return(deleted.wr \o unlink, TRUE)
        /\ tainted' = (slots = {} \/ Places(open_inodes, r.i_no) # {})

\* One sector reaches the disk
ide_write_sector ==
    /\ pending # <<>>
    /\ LET d == Put(Now, Head(pending))
       IN  disk_bitmap' = d.bits /\ inode_table' = d.table /\ block' = d.blk
    /\ pending' = Tail(pending)
    /\ exposed' = IF Tail(pending) = <<>> \/ exposed = "no" THEN "no" ELSE "yes"
    /\ UNCHANGED <<memory, tainted, before, calls, crashes>>
    /\ Observe

\* A power cut; mount_partition and open_root_dir read the disk
Crash ==
    /\ crashes < MAX_CRASHES
    /\ crashes' = crashes + 1
    /\ inode_bitmap' = disk_bitmap
    /\ open_inodes' = <<Opened(0, inode_table[0])>>
    /\ pending' = <<>>
    /\ exposed' = "no"
    /\ tainted' = (tainted \/ exposed = "yes")
    /\ UNCHANGED <<disk, before, calls>>
    /\ Observe

Next ==
    \/ \E path \in Path :
           \/ file_create(path)
           \/ dir_create(path)
           \/ ParentKept(path)
           \/ file_open(path)
           \/ sys_remove(path)
           \/ sys_delete_dir(path)
    \/ \E k \in 1..Len(open_inodes) : file_close(k)
    \/ ide_write_sector
    \/ Crash

Spec == Init /\ [][Next]_vars

----------------------------------------------------------------------------
(* Properties.                                                             *)

Found(path) == LET r == search_file(path) IN WholePath(r, path) /\ r.i_no # -1

Dirs == {0} \cup {search_file(p).i_no :
                      p \in {q \in Path : Found(q) /\ search_file(q).f_type = "directory"}}

\* Entries of the tree: directory, place and contents, without "." and ".."
Entries ==
    {x \in UNION {{<<d, p, At(NodeOf(d), block, p)>> : p \in Slots(NodeOf(d))} : d \in Dirs} :
        x[3].filename \in Name}

\* Between calls, and after a power cut in the middle of sys_remove or
\* sys_close, every entry of the tree names an inode that is marked in use on
\* the disk and was created as what the entry says; no two entries of a
\* directory have one name and no two of the tree one inode.
TreeSound ==
    pending = <<>> /\ ~tainted =>
        /\ \A e \in Entries : e[3].i_no \in disk_bitmap /\ NodeOf(e[3].i_no).kind = e[3].f_type
        /\ \A e, g \in Entries : e # g =>
               /\ e[3].i_no # g[3].i_no
               /\ e[1] = g[1] => e[3].filename # g[3].filename

Tree == INSTANCE NameTree WITH kind <- tree

\* As long as nothing has gone wrong, entries, blocks and inodes together are a
\* tree of names: holes are reused without hiding what follows them, a new
\* block does not shadow an old one, a freed inode number given out again
\* brings nothing back; a power cut leaves the call under way done or undone.
ImplementsTree ==
    [][~tainted' => IF crashes' = crashes THEN Tree!Next \/ UNCHANGED tree
                    ELSE tree' \in {tree, before}]_vars
=============================================================================
