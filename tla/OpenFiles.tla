----------------------------- MODULE OpenFiles -----------------------------
(***************************************************************************)
(* Open files and pipes: the global file_table, the fd_table of every      *)
(* process and the list of in-memory inodes (fs/file.c, fs/inode.c, the    *)
(* open, close and remove calls of fs/fs.c, device/pipe.c, the parts of    *)
(* sys_fork and thread_cleaner that touch descriptors).                    *)
(*                                                                         *)
(* An inode in memory and the ring of a pipe each occupy a kernel page;    *)
(* mfree_page gives the page back to be handed out again, whoever may      *)
(* still point to it.  Opening a file is three steps, because inode_open   *)
(* waits for the disk between the search of the open list and the push:    *)
(* with Overlap = FALSE no other call runs in between, with Overlap = TRUE *)
(* the scheduler may switch.  Directories, positions and contents of files *)
(* are left out.                                                           *)
(***************************************************************************)
EXTENDS Integers, FiniteSets, FiniteSetsExt

CONSTANTS
    Proc,                     \* processes
    Name,                     \* names of regular files in one directory
    Overlap,                  \* two calls may be under way at a time
    Flags,                    \* ways to open an existing file: among 0..3
    MAX_FILE_OPEN,            \* slots of file_table, 0..2 are never used
    MAX_FILES_OPEN_PER_PROC,  \* descriptors, 0..2 are the standard ones
    MAX_PAGES, MAX_INO,       \* bounds: kernel pages, inodes of the partition
    MAX_FORK,                 \* bound: forks in a behaviour
    UINT32_MAX

NULL == 0     \* no page, no inode: pages and inodes are numbered from 1
FREE_FD == -1

O_RDONLY == 0
O_WRONLY == 1
O_RDWR == 2
O_CREAT == 4
PIPE_FLAG == 1

ASSUME OpenFilesAssumption ==
    /\ Overlap \in BOOLEAN
    /\ Flags \subseteq 0..3
    /\ MAX_FILE_OPEN \in Nat /\ MAX_FILES_OPEN_PER_PROC \in Nat
    /\ MAX_PAGES \in Nat /\ MAX_INO \in Nat \ {0} /\ MAX_FORK \in Nat
    /\ UINT32_MAX \in Nat /\ UINT32_MAX > 2

Slot == 3..(MAX_FILE_OPEN - 1)
Fd == 3..(MAX_FILES_OPEN_PER_PROC - 1)
Page == 1..MAX_PAGES
Ino == 1..MAX_INO

\* What a kernel page holds.
FreePage == [kind |-> "free"]
Queue == [kind |-> "ioqueue"]
Inode(i_no) == [kind |-> "inode", i_no |-> i_no, i_open_cnts |-> 1,
                deny |-> FALSE, listed |-> TRUE]

Idle == [at |-> "user"]

VARIABLES
    page,         \* contents of every kernel page
    file_table,   \* slot -> fd_inode, fd_pos, fd_flag
    fd_table,     \* process, descriptor -> slot or FREE_FD
    dirent,       \* name -> inode number or NULL
    inode_bitmap, \* inode numbers in use
    alive,        \* "none", "live", "died" (and not yet cleaned)
    call,         \* the open a process is in the middle of
    forks

vars == <<page, file_table, fd_table, dirent, inode_bitmap, alive, call, forks>>

TypeOK ==
    /\ \A pg \in Page : page[pg].kind \in {"free", "ioqueue", "inode"}
    /\ file_table \in [Slot -> [fd_inode : Page \cup {NULL},
                                fd_pos : 0..UINT32_MAX, fd_flag : 0..7]]
    /\ fd_table \in [Proc -> [Fd -> Slot \cup {FREE_FD}]]
    /\ dirent \in [Name -> Ino \cup {NULL}]
    /\ inode_bitmap \subseteq Ino
    /\ alive \in [Proc -> {"none", "live", "died"}]
    /\ DOMAIN call = Proc
    /\ forks \in 0..MAX_FORK

\* One process, one file on the disk, nothing open.
Init ==
    /\ page = [pg \in Page |-> FreePage]
    /\ file_table = [g \in Slot |-> [fd_inode |-> NULL, fd_pos |-> 0, fd_flag |-> 0]]
    /\ fd_table = [p \in Proc |-> [fd \in Fd |-> FREE_FD]]
    /\ \E n \in Name : dirent = [m \in Name |-> IF m = n THEN 1 ELSE NULL]
    /\ inode_bitmap = {1}
    /\ \E p \in Proc : alive = [q \in Proc |-> IF q = p THEN "live" ELSE "none"]
    /\ call = [p \in Proc |-> Idle]
    /\ forks = 0

----------------------------------------------------------------------------
(* Helpers.  The ones that change a table take it and give it back.        *)

\* mutant: judged by the position instead of the inode
FreeSlotsByPos == {g \in Slot : file_table[g].fd_pos = 0}
FreeSlots == {g \in Slot : file_table[g].fd_inode = NULL}
FreePages == {pg \in Page : page[pg].kind = "free"}

\* get_free_slot_in_global: -1 when the table is full
get_free_slot_in_global == IF FreeSlots = {} THEN -1 ELSE Min(FreeSlots)

\* get_kernel_pages(1); the bound MAX_PAGES keeps it from failing
get_kernel_page == Min(FreePages)

\* pcb_fd_install: a full fd_table leaves everything as it is (and returns -1)
pcb_fd_install(p, g) ==
    LET free == {fd \in Fd : fd_table[p][fd] = FREE_FD}
    IN  IF free = {} THEN fd_table
        ELSE [fd_table EXCEPT ![p][Min(free)] = g]

\* mutant: gives the page back one user too early
inode_close_early(pages, pg) ==
    IF pages[pg].i_open_cnts <= 2
    THEN [pages EXCEPT ![pg] = FreePage]
    ELSE [pages EXCEPT ![pg].i_open_cnts = @ - 1]

\* inode_close: at zero the inode leaves the list and its page is freed
inode_close(pages, pg) ==
    IF pages[pg].i_open_cnts = 1
    THEN [pages EXCEPT ![pg] = FreePage]
    ELSE [pages EXCEPT ![pg].i_open_cnts = @ - 1]

open_inodes_unsearched(i_no) == {}   \* mutant: always reads the disk

\* The open list: inodes in memory that inode_open can find
open_inodes(i_no) ==
    {pg \in Page : page[pg].kind = "inode" /\ page[pg].listed /\ page[pg].i_no = i_no}

DecrementedSigned(pos) == pos - 1   \* mutant: not an unsigned decrement
Decremented(pos) == IF pos = 0 THEN UINT32_MAX ELSE pos - 1

\* flag & O_WRONLY || flag & O_RDWR
Writes(flag) == flag % 4 # O_RDONLY

\* is_pipe compares the flags of the slot, whatever it was opened as.
is_pipe(g) == file_table[g].fd_flag = PIPE_FLAG

SlotEntry(pg, pos, flag) == [fd_inode |-> pg, fd_pos |-> pos, fd_flag |-> flag]

\* p is in user mode and may enter the kernel.
MayCall(p) ==
    /\ alive[p] = "live" /\ call[p] = Idle
    /\ Overlap \/ \A q \in Proc : call[q] = Idle

----------------------------------------------------------------------------
(* sys_open of an existing file *)

\* Up to the search of the open list in inode_open
file_open(p, n, flag) ==
    /\ MayCall(p)
    /\ dirent[n] # NULL
    /\ get_free_slot_in_global # -1
    /\ LET g == get_free_slot_in_global
           i == dirent[n]
       IN  \/ /\ open_inodes(i) = {}
              /\ call' = [call EXCEPT ![p] =
                    [at |-> "reading", slot |-> g, i_no |-> i, flag |-> flag]]
              /\ UNCHANGED page
           \/ \E pg \in open_inodes(i) :
              /\ page' = [page EXCEPT ![pg].i_open_cnts = @ + 1]
              /\ call' = [call EXCEPT ![p] =
                    [at |-> "opened", slot |-> g, ino |-> pg, flag |-> flag]]
    /\ UNCHANGED <<file_table, fd_table, dirent, inode_bitmap, alive, forks>>

\* inode_open after the disk has answered
inode_open_read(p) ==
    /\ call[p].at = "reading"
    /\ FreePages # {}
    /\ page' = [page EXCEPT ![get_kernel_page] = Inode(call[p].i_no)]
    /\ call' = [call EXCEPT ![p] = [at |-> "opened", slot |-> call[p].slot,
                                    ino |-> get_kernel_page, flag |-> call[p].flag]]
    /\ UNCHANGED <<file_table, fd_table, dirent, inode_bitmap, alive, forks>>

\* The rest of file_open: a second writer is turned away.
file_open_refused(p) ==
    /\ call[p].at = "opened"
    /\ Writes(call[p].flag) /\ page[call[p].ino].deny
    /\ page' = inode_close(page, call[p].ino)
    /\ file_table' = [file_table EXCEPT ![call[p].slot] =
                         SlotEntry(NULL, 0, call[p].flag)]
    /\ call' = [call EXCEPT ![p] = Idle]
    /\ UNCHANGED <<fd_table, dirent, inode_bitmap, alive, forks>>

file_open_install(p) ==
    /\ call[p].at = "opened"
    /\ ~(Writes(call[p].flag) /\ page[call[p].ino].deny)
    /\ page' = [page EXCEPT ![call[p].ino].deny = @ \/ Writes(call[p].flag)]
    /\ file_table' = [file_table EXCEPT ![call[p].slot] =
                         SlotEntry(call[p].ino, 0, call[p].flag)]
    /\ fd_table' = pcb_fd_install(p, call[p].slot)
    /\ call' = [call EXCEPT ![p] = Idle]
    /\ UNCHANGED <<dirent, inode_bitmap, alive, forks>>

----------------------------------------------------------------------------
(* The other calls on names *)

\* sys_open with O_CREAT of a new name.  A full file_table, or a directory
\* that cannot be written, is rolled back completely.
file_create(p, n, flag) ==
    /\ MayCall(p)
    /\ dirent[n] = NULL
    /\ Ino \ inode_bitmap # {} /\ FreePages # {}
    /\ get_free_slot_in_global # -1
    /\ LET g == get_free_slot_in_global
           i == Min(Ino \ inode_bitmap)
       IN  /\ inode_bitmap' = inode_bitmap \cup {i}
           /\ dirent' = [dirent EXCEPT ![n] = i]
           /\ page' = [page EXCEPT ![get_kernel_page] = Inode(i)]
           /\ file_table' = [file_table EXCEPT ![g] =
                                SlotEntry(get_kernel_page, 0, flag + O_CREAT)]
           /\ fd_table' = pcb_fd_install(p, g)
    /\ UNCHANGED <<alive, call, forks>>

\* sys_remove opens the inode, frees its blocks and its number, takes it off
\* the list, and never closes it.  Nobody asks who else has it open.
sys_remove(p, n) ==
    /\ MayCall(p)
    /\ dirent[n] # NULL
    /\ dirent' = [dirent EXCEPT ![n] = NULL]
    /\ inode_bitmap' = inode_bitmap \ {dirent[n]}
    /\ \/ /\ open_inodes(dirent[n]) = {} /\ FreePages # {}
          /\ page' = [page EXCEPT ![get_kernel_page] =
                         [Inode(dirent[n]) EXCEPT !.listed = FALSE]]
       \/ \E pg \in open_inodes(dirent[n]) :
             page' = [page EXCEPT ![pg].i_open_cnts = @ + 1, ![pg].listed = FALSE]
    /\ UNCHANGED <<file_table, fd_table, alive, call, forks>>

----------------------------------------------------------------------------
(* Close and pipe *)

\* user_file_close, sys_close, file_close for a descriptor taken for a file
file_close(p, fd) ==
    /\ MayCall(p)
    /\ fd_table[p][fd] # FREE_FD
    /\ LET g == fd_table[p][fd]
           pg == file_table[g].fd_inode
       IN  /\ pg # NULL   \* else CANNOT_FIND_INODE_IN_GLOBAL_FILE_TABLE
           /\ ~is_pipe(g)
           /\ page' = inode_close([page EXCEPT ![pg].deny = FALSE], pg)
           /\ file_table' = [file_table EXCEPT ![g].fd_inode = NULL]
           /\ fd_table' = [fd_table EXCEPT ![p][fd] = FREE_FD]
    /\ UNCHANGED <<dirent, inode_bitmap, alive, call, forks>>

\* sys_close for a descriptor taken for a pipe.  The slot keeps its fd_inode
\* after the page is freed, so it is never used again.
pipe_close(p, fd) ==
    /\ MayCall(p)
    /\ fd_table[p][fd] # FREE_FD
    /\ LET g == fd_table[p][fd]
           pos == Decremented(file_table[g].fd_pos)
       IN  /\ file_table[g].fd_inode # NULL
           /\ is_pipe(g)
           /\ file_table' = [file_table EXCEPT ![g].fd_pos = pos]
           /\ page' = IF pos = 0
                      THEN [page EXCEPT ![file_table[g].fd_inode] = FreePage]
                      ELSE page
           /\ fd_table' = [fd_table EXCEPT ![p][fd] = FREE_FD]
    /\ UNCHANGED <<dirent, inode_bitmap, alive, call, forks>>

\* pcb_fd_install twice
InstallBoth(p, g) ==
    LET free == {fd \in Fd : fd_table[p][fd] = FREE_FD}
        first == Min(free)
        second == Min(free \ {first})
    IN  CASE free = {} -> fd_table
          [] Cardinality(free) = 1 -> [fd_table EXCEPT ![p][first] = g]
          [] OTHER -> [fd_table EXCEPT ![p][first] = g, ![p][second] = g]

sys_pipe(p) ==
    /\ MayCall(p)
    /\ FreePages # {}
    /\ get_free_slot_in_global # -1
    /\ page' = [page EXCEPT ![get_kernel_page] = Queue]
    /\ file_table' = [file_table EXCEPT ![get_free_slot_in_global] =
                         SlotEntry(get_kernel_page, 2, PIPE_FLAG)]
    /\ fd_table' = InstallBoth(p, get_free_slot_in_global)
    /\ UNCHANGED <<dirent, inode_bitmap, alive, call, forks>>

\* sys_pipe does not test for a full table: the page is lost (its address
\* goes to file_table[-1], outside this model) and -1 is what is installed.
sys_pipe_full(p) ==
    /\ MayCall(p)
    /\ FreePages # {}
    /\ get_free_slot_in_global = -1
    /\ page' = [page EXCEPT ![get_kernel_page] = Queue]
    /\ UNCHANGED <<file_table, fd_table, dirent, inode_bitmap, alive, call, forks>>

----------------------------------------------------------------------------
(* Processes *)

process_execute(p, c) ==
    /\ MayCall(p)
    /\ alive[c] = "none"
    /\ alive' = [alive EXCEPT ![c] = "live"]
    /\ fd_table' = [fd_table EXCEPT ![c] = [fd \in Fd |-> FREE_FD]]
    /\ UNCHANGED <<page, file_table, dirent, inode_bitmap, call, forks>>

\* update_inode_open_cnts: one more for every descriptor of a file.  (For a
\* slot emptied by another process the code increments through NULL.)
update_inode_open_cnts(fds) ==
    [pg \in Page |->
        LET n == Cardinality({fd \in Fd :
                    /\ fds[fd] # FREE_FD
                    /\ ~is_pipe(fds[fd])
                    /\ file_table[fds[fd]].fd_inode = pg})
        IN  IF n = 0 THEN page[pg] ELSE [page[pg] EXCEPT !.i_open_cnts = @ + n]]

sys_fork(p, c) ==
    /\ MayCall(p)
    /\ alive[c] = "none"
    /\ forks < MAX_FORK
    /\ forks' = forks + 1
    /\ alive' = [alive EXCEPT ![c] = "live"]
    /\ fd_table' = [fd_table EXCEPT ![c] = fd_table[p]]
    /\ page' = update_inode_open_cnts(fd_table[p])
    /\ UNCHANGED <<file_table, dirent, inode_bitmap, call>>

\* thread_exit leaves the descriptors to the cleaner.
thread_exit(p) ==
    /\ MayCall(p)
    /\ alive' = [alive EXCEPT ![p] = "died"]
    /\ UNCHANGED <<page, file_table, fd_table, dirent, inode_bitmap, call, forks>>

\* thread_cleaner looks each descriptor of the dead process up with
\* fd_local2global, which reads the fd_table of the running thread: that is
\* the cleaner, which has nothing open, so no file is closed.  The fd_table
\* goes with the page of the pcb.
thread_cleaner(p) ==
    /\ alive[p] = "died"
    /\ alive' = [alive EXCEPT ![p] = "none"]
    /\ fd_table' = [fd_table EXCEPT ![p] = [fd \in Fd |-> FREE_FD]]
    /\ UNCHANGED <<page, file_table, dirent, inode_bitmap, call, forks>>

Next ==
    \E p \in Proc :
        \/ \E n \in Name, flag \in Flags : file_open(p, n, flag)
        \/ inode_open_read(p)
        \/ file_open_refused(p)
        \/ file_open_install(p)
        \/ \E n \in Name, flag \in Flags : file_create(p, n, flag)
        \/ \E n \in Name : sys_remove(p, n)
        \/ \E fd \in Fd : file_close(p, fd) \/ pipe_close(p, fd)
        \/ sys_pipe(p)
        \/ sys_pipe_full(p)
        \/ \E c \in Proc : process_execute(p, c) \/ sys_fork(p, c)
        \/ thread_exit(p)
        \/ thread_cleaner(p)

Spec == Init /\ [][Next]_vars

----------------------------------------------------------------------------
(* Properties *)

\* The descriptors of living processes that name slot g
Users(g) == {u \in Proc \X Fd : alive[u[1]] = "live" /\ fd_table[u[1]][u[2]] = g}

\* At most one copy of an inode can be found on the open list, so all who
\* have the file open see the same size, blocks and write-deny mark.
OneInode ==
    \A a, b \in Page :
        /\ page[a].kind = "inode" /\ page[b].kind = "inode"
        /\ page[a].listed /\ page[b].listed
        /\ page[a].i_no = page[b].i_no
        => a = b

\* An inode is not freed under an open file, whatever is forked, removed or
\* closed twice: its page still holds an inode, whose count covers the slots
\* that point to it, strictly if sys_remove took it off the list (the last
\* close must not unlink it a second time).
InodeOutlivesSlots ==
    \A g \in Slot : file_table[g].fd_inode # NULL /\ ~is_pipe(g) =>
        LET pg == page[file_table[g].fd_inode]
            sharing == {h \in Slot : ~is_pipe(h)
                            /\ file_table[h].fd_inode = file_table[g].fd_inode}
        IN  /\ pg.kind = "inode"
            /\ pg.i_open_cnts >= Cardinality(sharing) + IF pg.listed THEN 0 ELSE 1

\* Until somebody forks, a descriptor of a living process names a slot in
\* use, no two descriptors share one except the two ends of a pipe, and the
\* ring of a pipe that is still open at one end has not been freed.
DescriptorsPrivate ==
    forks = 0 => \A g \in Slot : Users(g) # {} =>
        /\ file_table[g].fd_inode # NULL
        /\ Cardinality(Users(g)) <= IF is_pipe(g) THEN 2 ELSE 1
        /\ is_pipe(g) => page[file_table[g].fd_inode] = Queue
=============================================================================
