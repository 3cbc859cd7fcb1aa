--------------------------- MODULE OpenFilesProofs ---------------------------
(***************************************************************************)
(* Proofs about OpenFiles, for any number of processes, descriptors, slots *)
(* and pages, when calls do not overlap.                                   *)
(***************************************************************************)
EXTENDS OpenFiles, FiniteSetsExt, FiniteSetTheorems, TLAPS

----------------------------------------------------------------------------
(* Sets of numbers.                                                       *)

\* Min is the least member: the first free slot, page or bit.
LEMMA LeastMember ==
    ASSUME NEW S, S \subseteq Nat, S # {}
    PROVE  Min(S) \in S /\ \A y \in S : Min(S) <= y
<1> DEFINE R == OpToRel(<, Nat)
<1>1. IsWellFoundedOn(R, Nat)
  BY NatLessThanWellFounded
<1>2. \A x, y \in Nat : <<y, x>> \in R <=> y < x
  BY DEF OpToRel
<1> HIDE DEF R
<1>3. PICK x \in S : \A y \in S : ~(<<y, x>> \in R)
  BY <1>1, WFMin
<1>4. ASSUME NEW y \in S PROVE x <= y
  <2>1. x \in Nat /\ y \in Nat /\ ~(y < x)
    BY <1>2, <1>3
  <2> QED
    BY <2>1
<1> QED
  BY <1>3, <1>4 DEF Min

\* The union bound.
LEMMA AtMost ==
    ASSUME NEW S, NEW T, NEW U, IsFiniteSet(S), IsFiniteSet(T), U \subseteq S \cup T
    PROVE  /\ IsFiniteSet(U)
           /\ Cardinality(S) \in Nat /\ Cardinality(T) \in Nat /\ Cardinality(U) \in Nat
           /\ Cardinality(U) <= Cardinality(S) + Cardinality(T)
<1>1. Cardinality(S) \in Nat /\ Cardinality(T) \in Nat
  BY FS_CardinalityType
<1>2. /\ IsFiniteSet(S \cup T)
      /\ Cardinality(S \cup T) = Cardinality(S) + Cardinality(T) - Cardinality(S \cap T)
  BY FS_Union
<1>3. IsFiniteSet(S \cap T)
  BY FS_Intersection
<1>4. Cardinality(S \cap T) \in Nat
  BY <1>3, FS_CardinalityType
<1>5. U \in SUBSET (S \cup T)
  OBVIOUS
<1>6. IsFiniteSet(U) /\ Cardinality(U) <= Cardinality(S \cup T)
  BY <1>2, <1>5, FS_Subset
<1>7. Cardinality(U) \in Nat
  BY <1>6, FS_CardinalityType
<1> QED
  BY <1>1, <1>2, <1>4, <1>6, <1>7

----------------------------------------------------------------------------

\* One call at a time; no file is opened with the flags that make is_pipe
\* take it for a pipe; and fewer descriptors of one slot are closed in a
\* behaviour than fd_pos can count, whatever is forked.
Sequential ==
    /\ Overlap = FALSE
    /\ PIPE_FLAG \notin Flags
    /\ IsFiniteSet(Proc)
    /\ 2 + MAX_FORK * Cardinality(Fd) <= UINT32_MAX

----------------------------------------------------------------------------
(* The inductive invariant.  Its parts are operators on the tables, so that *)
(* a step can be followed one table at a time.                             *)

InodeRec == [kind : {"inode"}, i_no : Ino, i_open_cnts : Nat,
             deny : BOOLEAN, listed : BOOLEAN]
SlotRec == [fd_inode : Page \cup {NULL}, fd_pos : 0..UINT32_MAX, fd_flag : 0..7]

Pages == [Page -> {FreePage, Queue} \cup InodeRec]
Slots == [Slot -> SlotRec]
Descriptors == [Proc -> [Fd -> Slot \cup {FREE_FD}]]

Types ==
    /\ page \in Pages
    /\ file_table \in Slots
    /\ fd_table \in Descriptors
    /\ dirent \in [Name -> Ino \cup {NULL}]
    /\ inode_bitmap \subseteq Ino
    /\ alive \in [Proc -> {"none", "live", "died"}]
    /\ DOMAIN call = Proc
    /\ forks \in 0..MAX_FORK

IsInode(pgs, pg) == pgs[pg].kind = "inode"
OpenList(pgs, i) == {pg \in Page : IsInode(pgs, pg) /\ pgs[pg].listed /\ pgs[pg].i_no = i}
PipeSlot(ft, g) == ft[g].fd_flag = PIPE_FLAG

\* What a call that waits for the disk has found stays true until it goes on:
\* its slot is free, and the inode it reads is not in memory.
CallAt(c, ft, bm, pgs) ==
    /\ c.at \in {"reading", "opened"}
    /\ c.slot \in Slot /\ ft[c.slot].fd_inode = NULL
    /\ c.flag \in Flags
    /\ c.at = "reading" => c.i_no \in bm /\ OpenList(pgs, c.i_no) = {}
    /\ c.at = "opened" => c.ino \in Page
CallOK(cl, ft, bm, pgs) ==
    /\ \A p \in Proc : cl[p] # Idle => CallAt(cl[p], ft, bm, pgs)
    /\ \A p, q \in Proc : cl[p] # Idle /\ cl[q] # Idle => p = q

\* Names have inodes of their own, an inode on the open list is in use, and
\* there is one copy of it.
DiskOK(pgs, de, bm) ==
    /\ \A n \in Name : de[n] # NULL => de[n] \in bm
    /\ \A n, m \in Name : de[n] # NULL /\ de[n] = de[m] => n = m
    /\ \A pg \in Page : IsInode(pgs, pg) /\ pgs[pg].listed => pgs[pg].i_no \in bm
    /\ \A a, b \in Page :
          /\ IsInode(pgs, a) /\ IsInode(pgs, b)
          /\ pgs[a].listed /\ pgs[b].listed
          /\ pgs[a].i_no = pgs[b].i_no
          => a = b

\* Every reference to an inode, by a slot or by the call under way, is
\* counted, and so is the one that sys_remove never gives back.
Sharing(ft, pg) == {h \in Slot : ~PipeSlot(ft, h) /\ ft[h].fd_inode = pg}
Busy(cl, pg) == \E p \in Proc : cl[p].at = "opened" /\ cl[p].ino = pg
Refs(ft, cl, pg) == IF Busy(cl, pg) THEN Cardinality(Sharing(ft, pg)) + 1
                    ELSE Cardinality(Sharing(ft, pg))
Covers(rec, n) == IF rec.listed THEN rec.i_open_cnts >= n ELSE rec.i_open_cnts >= n + 1
CountAt(pgs, ft, cl, pg) ==
    IF IsInode(pgs, pg) THEN Covers(pgs[pg], Refs(ft, cl, pg))
    ELSE Refs(ft, cl, pg) = 0
CountOK(pgs, ft, cl) == \A pg \in Page : CountAt(pgs, ft, cl, pg)

\* A pipe with an end open keeps its ring, and no other pipe has the same.
PipeOpen(ft, g) == PipeSlot(ft, g) /\ ft[g].fd_pos \in {1, 2}
PipeOK(pgs, ft) ==
    /\ \A g \in Slot : PipeSlot(ft, g) => ft[g].fd_inode # NULL
    /\ \A g \in Slot : PipeOpen(ft, g) => pgs[ft[g].fd_inode] = Queue
    /\ \A g, h \in Slot : /\ PipeOpen(ft, g) /\ PipeOpen(ft, h)
                          /\ ft[g].fd_inode = ft[h].fd_inode
                          => g = h

\* The descriptors that name a slot.  There are as many as its ends and, also
\* after the slot was emptied through one of them, those that forks added.
Named(fds, g) == {u \in Proc \X Fd : fds[u[1]][u[2]] = g}
Closed(pos) == IF pos <= 2 THEN 2 - pos ELSE UINT32_MAX + 3 - pos
NamedAt(ft, n, x, g) ==
    IF ft[g].fd_inode = NULL THEN n <= x
    ELSE IF PipeSlot(ft, g) THEN n + Closed(ft[g].fd_pos) <= 2 + x
    ELSE n <= 1 + x
NamedOK(ft, fds, fk) ==
    \A g \in Slot : NamedAt(ft, Cardinality(Named(fds, g)), fk * Cardinality(Fd), g)

IInv ==
    /\ Types
    /\ CallOK(call, file_table, inode_bitmap, page)
    /\ DiskOK(page, dirent, inode_bitmap)
    /\ CountOK(page, file_table, call)
    /\ PipeOK(page, file_table)
    /\ NamedOK(file_table, fd_table, forks)

\* The invariant of the state after a step, one table at a time
LEMMA IInvPrimed ==
    ASSUME Types', CallOK(call', file_table', inode_bitmap', page'),
           DiskOK(page', dirent', inode_bitmap'),
           CountOK(page', file_table', call'),
           PipeOK(page', file_table'),
           NamedOK(file_table', fd_table', forks')
    PROVE  IInv'
<1>1. CallOK(call, file_table, inode_bitmap, page)' =
          CallOK(call', file_table', inode_bitmap', page')
  BY DEF CallOK, CallAt, OpenList, IsInode
<1>2. DiskOK(page, dirent, inode_bitmap)' = DiskOK(page', dirent', inode_bitmap')
  BY DEF DiskOK, IsInode
<1>3. CountOK(page, file_table, call)' = CountOK(page', file_table', call')
  BY DEF CountOK, CountAt, Covers, Refs, Busy, Sharing, PipeSlot, IsInode
<1>4. PipeOK(page, file_table)' = PipeOK(page', file_table')
  BY DEF PipeOK, PipeOpen, PipeSlot
<1>5. NamedOK(file_table, fd_table, forks)' = NamedOK(file_table', fd_table', forks')
  BY DEF NamedOK, NamedAt, Named, PipeSlot, Closed
<1> QED
  BY <1>1, <1>2, <1>3, <1>4, <1>5 DEF IInv
----------------------------------------------------------------------------
(* Numbers and sets *)

LEMMA SlotNumbers ==
    /\ Slot \subseteq Nat /\ Fd \subseteq Nat /\ Page \subseteq Nat /\ Ino \subseteq Nat
    /\ IsFiniteSet(Slot) /\ IsFiniteSet(Fd) /\ Cardinality(Fd) \in Nat
    /\ NULL \notin Page /\ NULL \notin Ino /\ FREE_FD \notin Slot
    /\ 1 \in Ino
<1> USE OpenFilesAssumption
<1>1. /\ Slot \subseteq Nat /\ Fd \subseteq Nat /\ Page \subseteq Nat /\ Ino \subseteq Nat
      /\ NULL \notin Page /\ NULL \notin Ino /\ FREE_FD \notin Slot
      /\ 1 \in Ino
  BY DEF Slot, Fd, Page, Ino, NULL, FREE_FD
<1>2. IsFiniteSet(Slot) /\ IsFiniteSet(Fd)
  BY FS_Interval DEF Slot, Fd
<1>3. Cardinality(Fd) \in Nat
  BY <1>2, FS_CardinalityType
<1> QED
  BY <1>1, <1>2, <1>3

LEMMA FreeSlotPicked ==
    ASSUME get_free_slot_in_global # -1
    PROVE  /\ get_free_slot_in_global \in Slot
           /\ file_table[get_free_slot_in_global].fd_inode = NULL
<1>1. FreeSlots # {} /\ get_free_slot_in_global = Min(FreeSlots)
  BY DEF get_free_slot_in_global
<1>2. FreeSlots \subseteq Nat
  BY SlotNumbers DEF FreeSlots
<1>3. Min(FreeSlots) \in FreeSlots
  BY <1>1, <1>2, LeastMember
<1> QED
  BY <1>1, <1>3 DEF FreeSlots

LEMMA FreePagePicked ==
    ASSUME FreePages # {}, page \in Pages
    PROVE  get_kernel_page \in Page /\ page[get_kernel_page] = FreePage
<1>1. FreePages \subseteq Nat
  BY SlotNumbers DEF FreePages
<1>2. get_kernel_page \in FreePages
  BY <1>1, LeastMember DEF get_kernel_page
<1>3. get_kernel_page \in Page /\ page[get_kernel_page].kind = "free"
  BY <1>2 DEF FreePages
<1>4. page[get_kernel_page] \in {FreePage, Queue} \cup InodeRec
  BY <1>3 DEF Pages
<1>5. Queue.kind = "ioqueue" /\ \A r \in InodeRec : r.kind = "inode"
  BY DEF Queue, InodeRec
<1> QED
  BY <1>3, <1>4, <1>5

\* The kinds tell the three contents of a page apart.
LEMMA Kinds ==
    /\ FreePage.kind = "free" /\ Queue.kind = "ioqueue"
    /\ \A r \in InodeRec : r.kind = "inode"
    /\ \A pgs \in Pages : \A pg \in Page :
          /\ pgs[pg] \in {FreePage, Queue} \cup InodeRec
          /\ IsInode(pgs, pg) <=> pgs[pg] \in InodeRec
<1>1. /\ FreePage.kind = "free" /\ Queue.kind = "ioqueue"
      /\ \A r \in InodeRec : r.kind = "inode"
  BY DEF FreePage, Queue, InodeRec
<1>2. ASSUME NEW pgs \in Pages, NEW pg \in Page
      PROVE  /\ pgs[pg] \in {FreePage, Queue} \cup InodeRec
             /\ IsInode(pgs, pg) <=> pgs[pg] \in InodeRec
  <2>1. pgs[pg] \in {FreePage, Queue} \cup InodeRec
    BY DEF Pages
  <2> QED
    BY <1>1, <2>1 DEF IsInode
<1> QED
  BY <1>1, <1>2

----------------------------------------------------------------------------
(* References *)

LEMMA RefsNat ==
    ASSUME NEW ft, NEW cl, NEW pg
    PROVE  /\ IsFiniteSet(Sharing(ft, pg))
           /\ Cardinality(Sharing(ft, pg)) \in Nat
           /\ Refs(ft, cl, pg) \in Nat
           /\ Refs(ft, cl, pg) = 0 <=> Sharing(ft, pg) = {} /\ ~Busy(cl, pg)
<1>1. Sharing(ft, pg) \in SUBSET Slot
  BY DEF Sharing
<1>2. IsFiniteSet(Sharing(ft, pg))
  BY <1>1, SlotNumbers, FS_Subset
<1>3. Cardinality(Sharing(ft, pg)) \in Nat
  BY <1>2, FS_CardinalityType
<1>4. Cardinality(Sharing(ft, pg)) = 0 <=> Sharing(ft, pg) = {}
  BY <1>2, FS_EmptySet
<1> QED
  BY <1>2, <1>3, <1>4 DEF Refs

\* A free slot takes a file's inode: one reference more.
LEMMA SharingTake ==
    ASSUME NEW ft, NEW g \in Slot, ft[g].fd_inode = NULL, NEW ft2,
           NEW pg \in Page, ft2[g].fd_inode = pg, ~PipeSlot(ft2, g),
           \A h \in Slot \ {g} : ft2[h] = ft[h]
    PROVE  /\ Cardinality(Sharing(ft2, pg)) = Cardinality(Sharing(ft, pg)) + 1
           /\ \A a \in Page \ {pg} : Sharing(ft2, a) = Sharing(ft, a)
<1>1. \A a \in Page : g \notin Sharing(ft, a)
  BY SlotNumbers DEF Sharing
<1>2. Sharing(ft2, pg) = Sharing(ft, pg) \cup {g}
  BY DEF Sharing, PipeSlot
<1>3. \A a \in Page \ {pg} : Sharing(ft2, a) = Sharing(ft, a)
  BY <1>1 DEF Sharing, PipeSlot
<1>4. Cardinality(Sharing(ft2, pg)) = Cardinality(Sharing(ft, pg)) + 1
  BY <1>1, <1>2, RefsNat, FS_AddElement
<1> QED
  BY <1>3, <1>4

\* A slot in use for a file is emptied: one reference less.
LEMMA SharingDrop ==
    ASSUME NEW ft, NEW g \in Slot, ~PipeSlot(ft, g), NEW ft2,
           NEW pg \in Page, ft[g].fd_inode = pg, ft2[g].fd_inode = NULL,
           \A h \in Slot \ {g} : ft2[h] = ft[h]
    PROVE  /\ Cardinality(Sharing(ft, pg)) = Cardinality(Sharing(ft2, pg)) + 1
           /\ \A a \in Page \ {pg} : Sharing(ft2, a) = Sharing(ft, a)
<1>1. \A a \in Page : g \notin Sharing(ft2, a)
  BY SlotNumbers DEF Sharing
<1>2. Sharing(ft, pg) = Sharing(ft2, pg) \cup {g}
  BY DEF Sharing, PipeSlot
<1>3. \A a \in Page \ {pg} : Sharing(ft2, a) = Sharing(ft, a)
  BY <1>1 DEF Sharing, PipeSlot
<1>4. Cardinality(Sharing(ft, pg)) = Cardinality(Sharing(ft2, pg)) + 1
  BY <1>1, <1>2, RefsNat, FS_AddElement
<1> QED
  BY <1>3, <1>4

\* Slots that are free or pipes before and after share nothing.
LEMMA SharingSame ==
    ASSUME NEW ft \in Slots, NEW g \in Slot, NEW ft2,
           ft[g].fd_inode = NULL \/ PipeSlot(ft, g),
           ft2[g].fd_inode = NULL \/ PipeSlot(ft2, g),
           \A h \in Slot : h # g => ft2[h] = ft[h]
    PROVE  \A a \in Page : Sharing(ft2, a) = Sharing(ft, a)
<1> SUFFICES ASSUME NEW a \in Page PROVE Sharing(ft2, a) = Sharing(ft, a)
  OBVIOUS
<1>1. g \notin Sharing(ft, a) /\ g \notin Sharing(ft2, a)
  BY SlotNumbers DEF Sharing
<1> QED
  BY <1>1 DEF Sharing, PipeSlot

----------------------------------------------------------------------------
(* Descriptors *)

LEMMA NamedFinite ==
    ASSUME Sequential, NEW fds, NEW g
    PROVE  IsFiniteSet(Named(fds, g)) /\ Cardinality(Named(fds, g)) \in Nat
<1>1. IsFiniteSet(Proc \X Fd)
  BY SlotNumbers, FS_Product DEF Sequential
<1>2. Named(fds, g) \in SUBSET (Proc \X Fd)
  BY DEF Named
<1>3. IsFiniteSet(Named(fds, g))
  BY <1>1, <1>2, FS_Subset
<1> QED
  BY <1>3, FS_CardinalityType

\* Fewer descriptors name g.
LEMMA NamedLess ==
    ASSUME Sequential, NEW fds, NEW fds2, NEW g,
           Named(fds2, g) \subseteq Named(fds, g)
    PROVE  Cardinality(Named(fds2, g)) <= Cardinality(Named(fds, g))
<1>1. Named(fds2, g) \in SUBSET Named(fds, g)
  OBVIOUS
<1> QED
  BY <1>1, NamedFinite, FS_Subset

LEMMA NamedMore ==
    ASSUME Sequential, NEW fds, NEW fds2, NEW g, NEW T, IsFiniteSet(T),
           Named(fds2, g) \subseteq Named(fds, g) \cup T
    PROVE  Cardinality(Named(fds2, g)) <= Cardinality(Named(fds, g)) + Cardinality(T)
BY NamedFinite, AtMost

\* What is closed through a descriptor of g is named once less.
LEMMA NamedClose ==
    ASSUME Sequential, NEW fds \in Descriptors, NEW p \in Proc, NEW fd \in Fd,
           fds[p][fd] \in Slot
    PROVE  LET fds2 == [fds EXCEPT ![p][fd] = FREE_FD]
               g == fds[p][fd]
           IN  /\ Cardinality(Named(fds2, g)) = Cardinality(Named(fds, g)) - 1
               /\ Cardinality(Named(fds, g)) >= 1
               /\ \A h \in Slot : Cardinality(Named(fds2, h)) <= Cardinality(Named(fds, h))
               /\ fds2 \in Descriptors
<1> DEFINE fds2 == [fds EXCEPT ![p][fd] = FREE_FD]
           g == fds[p][fd]
<1>1. fds2 \in Descriptors
  BY DEF Descriptors
<1>2. /\ fds2[p][fd] = FREE_FD
      /\ \A q \in Proc, d \in Fd : <<q, d>> # <<p, fd>> => fds2[q][d] = fds[q][d]
  BY DEF Descriptors
<1> HIDE DEF fds2
<1>3. \A h \in Slot : Named(fds2, h) = Named(fds, h) \ {<<p, fd>>}
  <2> SUFFICES ASSUME NEW h \in Slot, NEW q \in Proc, NEW d \in Fd
               PROVE  <<q, d>> \in Named(fds2, h) <=> <<q, d>> \in Named(fds, h) \ {<<p, fd>>}
    BY DEF Named
  <2> QED
    BY <1>2, SlotNumbers DEF Named
<1>4. <<p, fd>> \in Named(fds, g)
  BY DEF Named
<1>5. ASSUME NEW S, IsFiniteSet(S), NEW x \in S
      PROVE  Cardinality(S \ {x}) = Cardinality(S) - 1
  BY <1>5, FS_RemoveElement
<1>6. Cardinality(Named(fds2, g)) = Cardinality(Named(fds, g)) - 1
  BY <1>3, <1>4, <1>5, NamedFinite
<1>7. Cardinality(Named(fds, g)) >= 1
  BY <1>6, NamedFinite
<1>8. \A h \in Slot : Cardinality(Named(fds2, h)) <= Cardinality(Named(fds, h))
  BY <1>3, NamedLess
<1> QED
  BY <1>1, <1>6, <1>7, <1>8 DEF fds2

\* A process loses all its descriptors, or starts without any.
LEMMA NamedClear ==
    ASSUME Sequential, NEW fds \in Descriptors, NEW p \in Proc
    PROVE  LET fds2 == [fds EXCEPT ![p] = [fd \in Fd |-> FREE_FD]]
           IN  /\ fds2 \in Descriptors
               /\ \A h \in Slot : Cardinality(Named(fds2, h)) <= Cardinality(Named(fds, h))
<1> DEFINE fds2 == [fds EXCEPT ![p] = [fd \in Fd |-> FREE_FD]]
<1>1. fds2 \in Descriptors
  BY DEF Descriptors
<1>2. /\ \A d \in Fd : fds2[p][d] = FREE_FD
      /\ \A q \in Proc : q # p => fds2[q] = fds[q]
  BY DEF Descriptors
<1> HIDE DEF fds2
<1>3. ASSUME NEW h \in Slot PROVE Named(fds2, h) \subseteq Named(fds, h)
  <2> SUFFICES ASSUME NEW q \in Proc, NEW d \in Fd, fds2[q][d] = h
               PROVE  fds[q][d] = h
    BY DEF Named
  <2> QED
    BY <1>2, SlotNumbers
<1> QED
  BY <1>1, <1>3, NamedLess DEF fds2

\* fork gives the child the descriptors of the parent.
LEMMA NamedFork ==
    ASSUME Sequential, NEW fds \in Descriptors, NEW p \in Proc, NEW c \in Proc
    PROVE  LET fds2 == [fds EXCEPT ![c] = fds[p]]
           IN  /\ fds2 \in Descriptors
               /\ \A h \in Slot : Cardinality(Named(fds2, h)) <=
                                  Cardinality(Named(fds, h)) + Cardinality(Fd)
<1> DEFINE fds2 == [fds EXCEPT ![c] = fds[p]]
           T == {c} \X Fd
<1>1. fds2 \in Descriptors
  BY DEF Descriptors
<1>2. \A q \in Proc : q # c => fds2[q] = fds[q]
  BY DEF Descriptors
<1> HIDE DEF fds2
<1>3. IsFiniteSet({c}) /\ Cardinality({c}) = 1
  BY FS_Singleton
<1>4. IsFiniteSet(T) /\ Cardinality(T) = 1 * Cardinality(Fd)
  BY <1>3, SlotNumbers, FS_Product
<1>5. Cardinality(T) = Cardinality(Fd)
  BY <1>4, SlotNumbers
<1>6. ASSUME NEW h \in Slot PROVE Named(fds2, h) \subseteq Named(fds, h) \cup T
  <2> SUFFICES ASSUME NEW q \in Proc, NEW d \in Fd, fds2[q][d] = h
               PROVE  <<q, d>> \in Named(fds, h) \cup T
    BY DEF Named
  <2> QED
    BY <1>2 DEF Named
<1> HIDE DEF T
<1>7. ASSUME NEW h \in Slot
      PROVE  Cardinality(Named(fds2, h)) <= Cardinality(Named(fds, h)) + Cardinality(T)
  BY <1>4, <1>6, NamedMore
<1> QED
  BY <1>1, <1>5, <1>7 DEF fds2

\* What pcb_fd_install and its double for a pipe do to the descriptors: at
\* most n more name g.
Installed(fds, fds2, g, n) ==
    /\ fds2 \in Descriptors
    /\ Cardinality(Named(fds2, g)) <= Cardinality(Named(fds, g)) + n
    /\ \A h \in Slot \ {g} : Cardinality(Named(fds2, h)) <= Cardinality(Named(fds, h))

LEMMA NamedInstall ==
    ASSUME Sequential, NEW fds \in Descriptors, NEW p \in Proc, NEW fd \in Fd, NEW g \in Slot
    PROVE  Installed(fds, [fds EXCEPT ![p][fd] = g], g, 1)
<1> DEFINE fds2 == [fds EXCEPT ![p][fd] = g]
<1>1. fds2 \in Descriptors
  BY DEF Descriptors
<1>2. /\ fds2[p][fd] = g
      /\ \A q \in Proc, d \in Fd : <<q, d>> # <<p, fd>> => fds2[q][d] = fds[q][d]
  BY DEF Descriptors
<1> HIDE DEF fds2
<1>3. Named(fds2, g) \subseteq Named(fds, g) \cup {<<p, fd>>}
  <2> SUFFICES ASSUME NEW q \in Proc, NEW d \in Fd, fds2[q][d] = g
               PROVE  <<q, d>> \in Named(fds, g) \cup {<<p, fd>>}
    BY DEF Named
  <2> QED
    BY <1>2 DEF Named
<1>4. ASSUME NEW h \in Slot \ {g} PROVE Named(fds2, h) \subseteq Named(fds, h)
  <2> SUFFICES ASSUME NEW q \in Proc, NEW d \in Fd, fds2[q][d] = h
               PROVE  fds[q][d] = h
    BY DEF Named
  <2> QED
    BY <1>2
<1>5. IsFiniteSet({<<p, fd>>}) /\ Cardinality({<<p, fd>>}) = 1
  BY FS_Singleton
<1>6. Cardinality(Named(fds2, g)) <= Cardinality(Named(fds, g)) + Cardinality({<<p, fd>>})
  BY <1>3, <1>5, NamedMore
<1>7. Cardinality(Named(fds2, g)) <= Cardinality(Named(fds, g)) + 1
  BY <1>5, <1>6
<1> QED
  BY <1>1, <1>4, <1>7, NamedLess DEF Installed, fds2

LEMMA InstalledTwice ==
    ASSUME Sequential, NEW fds, NEW fds2, NEW fds3, NEW g \in Slot,
           Installed(fds, fds2, g, 1), Installed(fds2, fds3, g, 1)
    PROVE  Installed(fds, fds3, g, 2)
<1>1. ASSUME NEW h \in Slot
      PROVE  /\ Cardinality(Named(fds, h)) \in Nat
             /\ Cardinality(Named(fds2, h)) \in Nat
             /\ Cardinality(Named(fds3, h)) \in Nat
  BY NamedFinite
<1>2. Cardinality(Named(fds3, g)) <= Cardinality(Named(fds, g)) + 2
  BY <1>1 DEF Installed
<1>3. ASSUME NEW h \in Slot \ {g}
      PROVE  Cardinality(Named(fds3, h)) <= Cardinality(Named(fds, h))
  BY <1>1 DEF Installed
<1> QED
  BY <1>2, <1>3 DEF Installed

LEMMA InstalledNone ==
    ASSUME Sequential, NEW fds \in Descriptors, NEW g \in Slot, NEW n \in {1, 2}
    PROVE  Installed(fds, fds, g, n)
BY NamedFinite DEF Installed

LEMMA InstallOne ==
    ASSUME Sequential, fd_table \in Descriptors, NEW p \in Proc, NEW g \in Slot
    PROVE  Installed(fd_table, pcb_fd_install(p, g), g, 1)
<1> DEFINE free == {fd \in Fd : fd_table[p][fd] = FREE_FD}
           first == Min(free)
<1>1. CASE free = {}
  <2>1. pcb_fd_install(p, g) = fd_table
    BY <1>1 DEF pcb_fd_install
  <2> QED
    BY <2>1, InstalledNone
<1>2. CASE free # {}
  <2>1. pcb_fd_install(p, g) = [fd_table EXCEPT ![p][first] = g]
    BY <1>2 DEF pcb_fd_install
  <2>2. first \in Fd
    BY <1>2, SlotNumbers, LeastMember
  <2> HIDE DEF first
  <2>3. Installed(fd_table, [fd_table EXCEPT ![p][first] = g], g, 1)
    BY <2>2, NamedInstall
  <2> QED
    BY <2>1, <2>3
<1> QED
  BY <1>1, <1>2

LEMMA InstallTwo ==
    ASSUME Sequential, fd_table \in Descriptors, NEW p \in Proc, NEW g \in Slot
    PROVE  Installed(fd_table, InstallBoth(p, g), g, 2)
<1> DEFINE free == {fd \in Fd : fd_table[p][fd] = FREE_FD}
           a == Min(free)
           b == Min(free \ {a})
           one == [fd_table EXCEPT ![p][a] = g]
<1>1. CASE free = {}
  <2>1. Cardinality(free) # 1
    BY <1>1, FS_EmptySet
  <2>2. InstallBoth(p, g) = fd_table
    BY <1>1, <2>1 DEF InstallBoth
  <2> QED
    BY <2>2, InstalledNone
<1>2. CASE free # {}
  <2>1. free \subseteq Nat /\ IsFiniteSet(free)
    <3>1. free \in SUBSET Fd
      OBVIOUS
    <3> HIDE DEF free
    <3> QED
      BY <3>1, SlotNumbers, FS_Subset
  <2>2. a \in free
    BY <1>2, <2>1, LeastMember
  <2>3. Installed(fd_table, one, g, 1)
    BY <2>2, NamedInstall
  <2>4. one \in Descriptors
    BY <2>3 DEF Installed
  <2>5. CASE Cardinality(free) = 1
    <3>1. InstallBoth(p, g) = one
      BY <1>2, <2>5 DEF InstallBoth
    <3>2. Installed(one, one, g, 1)
      BY <2>4, InstalledNone
    <3> QED
      BY <2>3, <3>1, <3>2, InstalledTwice
  <2>6. CASE Cardinality(free) # 1
    <3>1. free \ {a} # {}
      <4> SUFFICES ASSUME free = {a} PROVE FALSE
        BY <2>2
      <4> HIDE DEF free, a
      <4> QED
        BY <2>6, FS_Singleton
    <3>2. b \in Fd
      <4>1. free \ {a} \subseteq Nat
        BY <2>1
      <4>2. b \in free \ {a}
        BY <3>1, <4>1, LeastMember
      <4> QED
        BY <4>2
    <3>3. InstallBoth(p, g) = [fd_table EXCEPT ![p][a] = g, ![p][b] = g]
      BY <1>2, <2>6 DEF InstallBoth
    <3>4. InstallBoth(p, g) = [one EXCEPT ![p][b] = g]
      BY <3>3
    <3>5. Installed(one, [one EXCEPT ![p][b] = g], g, 1)
      BY <2>4, <3>2, NamedInstall
    <3> HIDE DEF one, b
    <3> QED
      BY <2>3, <3>4, <3>5, InstalledTwice
  <2> QED
    BY <2>5, <2>6
<1> QED
  BY <1>1, <1>2

LEMMA Extra ==
    ASSUME Sequential, NEW fk \in 0..MAX_FORK
    PROVE  /\ fk * Cardinality(Fd) \in Nat
           /\ 2 + fk * Cardinality(Fd) <= UINT32_MAX
<1> DEFINE c == Cardinality(Fd)
<1>1. c \in Nat /\ MAX_FORK \in Nat /\ fk \in Nat /\ fk <= MAX_FORK /\ UINT32_MAX \in Nat
  BY SlotNumbers, OpenFilesAssumption
<1>2. 2 + MAX_FORK * c <= UINT32_MAX
  BY DEF Sequential
<1> HIDE DEF c
<1>3. fk * c \in Nat /\ MAX_FORK * c \in Nat /\ (MAX_FORK - fk) * c \in Nat
  BY <1>1
<1>4. MAX_FORK * c = fk * c + (MAX_FORK - fk) * c
  BY <1>1
<1> QED
  BY <1>1, <1>2, <1>3, <1>4 DEF c

\* With the same or more names allowed, fewer names are allowed too.
LEMMA NamedAtLess ==
    ASSUME NEW ft \in Slots, NEW ft2, NEW g \in Slot, ft2[g] = ft[g],
           NEW n \in Nat, NEW m \in Nat, NEW x \in Nat,
           m <= n, NamedAt(ft, n, x, g)
    PROVE  NamedAt(ft2, m, x, g)
<1>1. Closed(ft[g].fd_pos) \in Int
  BY OpenFilesAssumption DEF Closed, Slots, SlotRec
<1> QED
  BY <1>1 DEF NamedAt, PipeSlot

\* Every slot but g keeps its entry; the one of g is seen to.
LEMMA NamedStep ==
    ASSUME Sequential, NEW ft \in Slots, NEW ft2, NEW fds, NEW fds2, NEW fk \in 0..MAX_FORK,
           NEW g \in Slot, NamedOK(ft, fds, fk),
           \A h \in Slot \ {g} : /\ ft2[h] = ft[h]
                                 /\ Cardinality(Named(fds2, h)) <= Cardinality(Named(fds, h)),
           NamedAt(ft2, Cardinality(Named(fds2, g)), fk * Cardinality(Fd), g)
    PROVE  NamedOK(ft2, fds2, fk)
<1>1. ASSUME NEW h \in Slot \ {g}
      PROVE  NamedAt(ft2, Cardinality(Named(fds2, h)), fk * Cardinality(Fd), h)
  <2>1. NamedAt(ft, Cardinality(Named(fds, h)), fk * Cardinality(Fd), h)
    BY DEF NamedOK
  <2>2. Cardinality(Named(fds, h)) \in Nat /\ Cardinality(Named(fds2, h)) \in Nat
    BY NamedFinite
  <2> QED
    BY <2>1, <2>2, Extra, NamedAtLess
<1> QED
  BY <1>1 DEF NamedOK

LEMMA NamedFewer ==
    ASSUME Sequential, NEW ft \in Slots, NEW fds, NEW fds2, NEW fk \in 0..MAX_FORK,
           NamedOK(ft, fds, fk),
           \A h \in Slot : Cardinality(Named(fds2, h)) <= Cardinality(Named(fds, h))
    PROVE  NamedOK(ft, fds2, fk)
<1> SUFFICES ASSUME NEW h \in Slot
             PROVE  NamedAt(ft, Cardinality(Named(fds2, h)), fk * Cardinality(Fd), h)
  BY DEF NamedOK
<1>1. NamedAt(ft, Cardinality(Named(fds, h)), fk * Cardinality(Fd), h)
  BY DEF NamedOK
<1>2. Cardinality(Named(fds, h)) \in Nat /\ Cardinality(Named(fds2, h)) \in Nat
  BY NamedFinite
<1> QED
  BY <1>1, <1>2, Extra, NamedAtLess

----------------------------------------------------------------------------
(* Pages *)

\* No inode joins the open list, and no ring of a pipe is lost.
NoNewInode(pgs, pgs2) ==
    \A a \in Page : IsInode(pgs2, a) /\ pgs2[a].listed =>
        IsInode(pgs, a) /\ pgs[a].listed /\ pgs2[a].i_no = pgs[a].i_no
RingsKept(pgs, pgs2) == \A a \in Page : pgs[a] = Queue => pgs2[a] = Queue

\* pgs2 differs from pgs in what page pg holds.
PageSet(pgs, pgs2, pg, rec) == pgs2 = [pgs EXCEPT ![pg] = rec]

LEMMA DiskSame ==
    ASSUME NEW pgs, NEW pgs2, NEW de, NEW bm,
           NoNewInode(pgs, pgs2), DiskOK(pgs, de, bm)
    PROVE  DiskOK(pgs2, de, bm)
BY DEF DiskOK, NoNewInode

LEMMA PipesSame ==
    ASSUME NEW pgs, NEW pgs2, NEW ft \in Slots,
           RingsKept(pgs, pgs2), PipeOK(pgs, ft)
    PROVE  PipeOK(pgs2, ft)
<1>1. ASSUME NEW g \in Slot, PipeOpen(ft, g)
      PROVE  pgs2[ft[g].fd_inode] = Queue
  <2>1. ft[g].fd_inode \in Page /\ pgs[ft[g].fd_inode] = Queue
    BY <1>1 DEF PipeOK, PipeOpen, Slots, SlotRec
  <2> QED
    BY <2>1 DEF RingsKept
<1> QED
  BY <1>1 DEF PipeOK

\* Slot g is no pipe after the step, and the other slots keep their entries.
LEMMA PipesBut ==
    ASSUME NEW pgs, NEW ft, NEW ft2, NEW g \in Slot,
           PipeOK(pgs, ft), ~PipeSlot(ft2, g),
           \A h \in Slot \ {g} : ft2[h] = ft[h]
    PROVE  PipeOK(pgs, ft2)
<1>1. \A h \in Slot : PipeSlot(ft2, h) => h # g /\ ft2[h] = ft[h] /\ PipeSlot(ft, h)
  BY DEF PipeSlot
<1>2. \A h \in Slot : PipeOpen(ft2, h) => h # g /\ ft2[h] = ft[h] /\ PipeOpen(ft, h)
  BY <1>1 DEF PipeOpen
<1>3. \A h \in Slot : PipeSlot(ft2, h) => ft2[h].fd_inode # NULL
  BY <1>1 DEF PipeOK
<1>4. \A h \in Slot : PipeOpen(ft2, h) => pgs[ft2[h].fd_inode] = Queue
  BY <1>2 DEF PipeOK
<1>5. \A h, k \in Slot : /\ PipeOpen(ft2, h) /\ PipeOpen(ft2, k)
                         /\ ft2[h].fd_inode = ft2[k].fd_inode
                         => h = k
  BY <1>2 DEF PipeOK
<1> QED
  BY <1>3, <1>4, <1>5 DEF PipeOK

\* A page that no slot and no call refers to, or whose references change with
\* its count; the others are as they were.
LEMMA CountBut ==
    ASSUME NEW pgs, NEW pgs2, NEW ft, NEW ft2, NEW cl, NEW cl2, NEW pg,
           CountOK(pgs, ft, cl),
           \A a \in Page \ {pg} : pgs2[a] = pgs[a] /\ Sharing(ft2, a) = Sharing(ft, a)
                                  /\ (Busy(cl2, a) <=> Busy(cl, a)),
           CountAt(pgs2, ft2, cl2, pg)
    PROVE  CountOK(pgs2, ft2, cl2)
<1> SUFFICES ASSUME NEW a \in Page \ {pg} PROVE CountAt(pgs2, ft2, cl2, a)
  BY DEF CountOK
<1>1. Refs(ft2, cl2, a) = Refs(ft, cl, a)
  BY DEF Refs
<1>2. CountAt(pgs, ft, cl, a)
  BY DEF CountOK
<1> QED
  BY <1>1, <1>2 DEF CountAt, IsInode

\* inode_close gives one reference back: the count still covers the n that
\* are left, and the page is freed only when there are none.
LEMMA InodeClosed ==
    ASSUME NEW pgs \in Pages, NEW pg \in Page, IsInode(pgs, pg),
           NEW n \in Nat, Covers(pgs[pg], n + 1)
    PROVE  /\ inode_close(pgs, pg) \in Pages
           /\ \A a \in Page \ {pg} : inode_close(pgs, pg)[a] = pgs[a]
           /\ NoNewInode(pgs, inode_close(pgs, pg))
           /\ RingsKept(pgs, inode_close(pgs, pg))
           /\ IF IsInode(inode_close(pgs, pg), pg)
              THEN Covers(inode_close(pgs, pg)[pg], n)
              ELSE n = 0
<1>1. pgs[pg] \in InodeRec
  BY Kinds
<1>2. pgs[pg].i_open_cnts \in Nat /\ pgs[pg].listed \in BOOLEAN /\ pgs[pg] # Queue
  BY <1>1, Kinds DEF InodeRec
<1>3. CASE pgs[pg].i_open_cnts = 1
  <2> DEFINE r == [pgs EXCEPT ![pg] = FreePage]
  <2>1. inode_close(pgs, pg) = r
    BY <1>3 DEF inode_close
  <2>2. r \in Pages /\ r[pg] = FreePage /\ \A a \in Page \ {pg} : r[a] = pgs[a]
    BY DEF Pages
  <2> HIDE DEF r
  <2>3. ~IsInode(r, pg)
    BY <2>2, Kinds DEF IsInode
  <2>4. n = 0
    BY <1>2, <1>3 DEF Covers
  <2>5. NoNewInode(pgs, r)
    BY <2>2, <2>3 DEF NoNewInode, IsInode
  <2>6. RingsKept(pgs, r)
    BY <1>2, <2>2 DEF RingsKept
  <2> QED
    BY <2>1, <2>2, <2>3, <2>4, <2>5, <2>6
<1>4. CASE pgs[pg].i_open_cnts # 1
  <2> DEFINE rec == [pgs[pg] EXCEPT !.i_open_cnts = @ - 1]
             r == [pgs EXCEPT ![pg] = rec]
  <2>1. inode_close(pgs, pg) = r
    BY <1>4 DEF inode_close
  <2>2. pgs[pg].i_open_cnts >= 1
    BY <1>2 DEF Covers
  <2>3. /\ rec \in InodeRec
        /\ rec.i_open_cnts = pgs[pg].i_open_cnts - 1
        /\ rec.listed = pgs[pg].listed /\ rec.i_no = pgs[pg].i_no
        /\ rec.kind = "inode"
    BY <1>1, <1>2, <2>2 DEF InodeRec
  <2> HIDE DEF rec
  <2>4. r \in Pages /\ r[pg] = rec /\ \A a \in Page \ {pg} : r[a] = pgs[a]
    BY <2>3 DEF Pages
  <2> HIDE DEF r
  <2>5. IsInode(r, pg)
    BY <2>3, <2>4 DEF IsInode
  <2>6. Covers(r[pg], n)
    BY <1>2, <2>3, <2>4 DEF Covers
  <2>7. NoNewInode(pgs, r)
    BY <2>3, <2>4 DEF NoNewInode, IsInode
  <2>8. RingsKept(pgs, r)
    BY <1>2, <2>4 DEF RingsKept
  <2> QED
    BY <2>1, <2>4, <2>5, <2>6, <2>7, <2>8
<1> QED
  BY <1>3, <1>4

\* A record of an inode with a new count, deny mark or place
LEMMA InodeChanged ==
    ASSUME NEW pgs \in Pages, NEW pg \in Page, IsInode(pgs, pg), NEW rec \in InodeRec,
           rec.i_no = pgs[pg].i_no, rec.listed => pgs[pg].listed,
           NEW r, PageSet(pgs, r, pg, rec)
    PROVE  /\ r \in Pages /\ r[pg] = rec /\ IsInode(r, pg)
           /\ NoNewInode(pgs, r) /\ RingsKept(pgs, r)
           /\ \A a \in Page \ {pg} : r[a] = pgs[a]
<1>1. r \in Pages /\ r[pg] = rec /\ \A a \in Page \ {pg} : r[a] = pgs[a]
  BY DEF Pages, PageSet
<1>2. IsInode(r, pg)
  BY <1>1, Kinds DEF IsInode
<1>3. NoNewInode(pgs, r)
  BY <1>1 DEF NoNewInode, IsInode
<1>4. pgs[pg] # Queue
  BY Kinds DEF IsInode
<1>5. RingsKept(pgs, r)
  BY <1>1, <1>4 DEF RingsKept
<1> QED
  BY <1>1, <1>2, <1>3, <1>5

\* A free page is taken for an inode or a ring.
LEMMA PageTaken ==
    ASSUME page \in Pages, FreePages # {}, NEW rec \in {Queue} \cup InodeRec,
           NEW r, PageSet(page, r, get_kernel_page, rec)
    PROVE  /\ get_kernel_page \in Page /\ page[get_kernel_page] = FreePage
           /\ ~IsInode(page, get_kernel_page)
           /\ r \in Pages /\ r[get_kernel_page] = rec
           /\ \A a \in Page \ {get_kernel_page} : r[a] = page[a]
           /\ RingsKept(page, r)
           /\ rec = Queue \/ ~rec.listed => NoNewInode(page, r)
<1> DEFINE k == get_kernel_page
<1>1. k \in Page /\ page[k] = FreePage
  BY FreePagePicked
<1>2. r = [page EXCEPT ![k] = rec]
  BY DEF PageSet
<1> HIDE DEF k
<1>3. r \in Pages /\ r[k] = rec /\ \A a \in Page \ {k} : r[a] = page[a]
  BY <1>1, <1>2 DEF Pages
<1>4. ~IsInode(page, k) /\ page[k] # Queue
  BY <1>1, Kinds DEF IsInode
<1>5. RingsKept(page, r)
  BY <1>3, <1>4 DEF RingsKept
<1>6. rec = Queue \/ ~rec.listed => NoNewInode(page, r)
  BY <1>3, Kinds DEF NoNewInode, IsInode
<1> QED
  BY <1>1, <1>3, <1>4, <1>5, <1>6 DEF k

----------------------------------------------------------------------------
(* The steps *)

\* While somebody may enter the kernel, no call is under way.
LEMMA QuietCalls ==
    ASSUME Sequential, NEW p \in Proc, MayCall(p)
    PROVE  /\ \A q \in Proc : call[q] = Idle
           /\ \A pg : ~Busy(call, pg)
           /\ \A ft, bm, pgs : CallOK(call, ft, bm, pgs)
<1>1. \A q \in Proc : call[q] = Idle
  BY DEF Sequential, MayCall
<1>2. Idle.at = "user"
  BY DEF Idle
<1> QED
  BY <1>1, <1>2 DEF Busy, CallOK

LEMMA RefsUnused ==
    ASSUME NEW pgs, NEW ft, NEW cl, NEW pg \in Page,
           CountOK(pgs, ft, cl), ~IsInode(pgs, pg)
    PROVE  Refs(ft, cl, pg) = 0 /\ Sharing(ft, pg) = {} /\ ~Busy(cl, pg)
BY RefsNat DEF CountOK, CountAt

LEMMA RefsUsed ==
    ASSUME NEW pgs, NEW ft, NEW cl, NEW pg \in Page,
           CountOK(pgs, ft, cl), Busy(cl, pg) \/ Sharing(ft, pg) # {}
    PROVE  IsInode(pgs, pg) /\ Covers(pgs[pg], Refs(ft, cl, pg))
BY RefsNat DEF CountOK, CountAt

LEMMA InitIInv ==
    ASSUME Sequential, Init
    PROVE  IInv
<1>0. PICK n0 \in Name : dirent = [m \in Name |-> IF m = n0 THEN 1 ELSE NULL]
  BY DEF Init
<1>1. Types
  <2>1. page \in Pages
    BY DEF Init, Pages
  <2>2. file_table \in Slots
    BY OpenFilesAssumption DEF Init, Slots, SlotRec, NULL
  <2>3. fd_table \in Descriptors
    BY DEF Init, Descriptors
  <2>4. dirent \in [Name -> Ino \cup {NULL}] /\ inode_bitmap \subseteq Ino
    BY <1>0, SlotNumbers DEF Init
  <2>5. alive \in [Proc -> {"none", "live", "died"}]
    BY DEF Init
  <2>6. DOMAIN call = Proc /\ forks \in 0..MAX_FORK
    BY OpenFilesAssumption DEF Init
  <2> QED
    BY <2>1, <2>2, <2>3, <2>4, <2>5, <2>6 DEF Types
<1>2. \A p \in Proc : call[p] = Idle /\ call[p].at = "user"
  BY DEF Init, Idle
<1>3. CallOK(call, file_table, inode_bitmap, page)
  BY <1>2 DEF CallOK
<1>4. \A pg \in Page : ~IsInode(page, pg)
  BY Kinds DEF Init, IsInode
<1>5. DiskOK(page, dirent, inode_bitmap)
  BY <1>0, <1>4 DEF Init, DiskOK, NULL
<1>6. \A g \in Slot : file_table[g].fd_inode = NULL /\ ~PipeSlot(file_table, g)
  BY DEF Init, PipeSlot, PIPE_FLAG
<1>7. CountOK(page, file_table, call)
  <2> SUFFICES ASSUME NEW pg \in Page PROVE Refs(file_table, call, pg) = 0
    BY <1>4 DEF CountOK, CountAt
  <2>1. Sharing(file_table, pg) = {}
    BY <1>6, SlotNumbers DEF Sharing
  <2>2. ~Busy(call, pg)
    BY <1>2 DEF Busy
  <2> QED
    BY <2>1, <2>2, RefsNat
<1>8. PipeOK(page, file_table)
  BY <1>6 DEF PipeOK, PipeOpen
<1>9. NamedOK(file_table, fd_table, forks)
  <2> SUFFICES ASSUME NEW g \in Slot
               PROVE  Cardinality(Named(fd_table, g)) <= forks * Cardinality(Fd)
    BY <1>6 DEF NamedOK, NamedAt
  <2>1. \A q \in Proc, d \in Fd : fd_table[q][d] # g
    BY SlotNumbers DEF Init
  <2>2. Named(fd_table, g) = {}
    BY <2>1 DEF Named
  <2>3. Cardinality(Named(fd_table, g)) = 0
    BY <2>2, FS_EmptySet
  <2>4. forks = 0
    BY DEF Init
  <2> QED
    BY <2>3, <2>4, SlotNumbers
<1> QED
  BY <1>1, <1>3, <1>5, <1>7, <1>8, <1>9 DEF IInv

\* A step that touches only processes and their descriptors
LEMMA DescriptorStep ==
    ASSUME Sequential, IInv,
           UNCHANGED <<page, file_table, dirent, inode_bitmap, call, forks>>,
           alive' \in [Proc -> {"none", "live", "died"}],
           fd_table' \in Descriptors,
           \A h \in Slot : Cardinality(Named(fd_table', h)) <= Cardinality(Named(fd_table, h))
    PROVE  IInv'
<1>1. Types'
  BY DEF IInv, Types
<1>2. NamedOK(file_table, fd_table', forks)
  <2>1. file_table \in Slots /\ forks \in 0..MAX_FORK /\ NamedOK(file_table, fd_table, forks)
    BY DEF IInv, Types
  <2> QED
    BY <2>1, NamedFewer
<1>3. NamedOK(file_table', fd_table', forks')
  BY <1>2
<1>4. /\ CallOK(call', file_table', inode_bitmap', page')
      /\ DiskOK(page', dirent', inode_bitmap')
      /\ CountOK(page', file_table', call')
      /\ PipeOK(page', file_table')
  BY DEF IInv
<1> QED
  BY <1>1, <1>3, <1>4, IInvPrimed

LEMMA ProcessSteps ==
    ASSUME Sequential, IInv, NEW p \in Proc, NEW c \in Proc,
           process_execute(p, c) \/ thread_exit(p) \/ thread_cleaner(p)
    PROVE  IInv'
<1>0. fd_table \in Descriptors /\ alive \in [Proc -> {"none", "live", "died"}]
  BY DEF IInv, Types
<1>1. CASE process_execute(p, c)
  <2>1. alive' \in [Proc -> {"none", "live", "died"}]
    BY <1>0, <1>1 DEF process_execute
  <2>2. /\ fd_table' \in Descriptors
        /\ \A h \in Slot : Cardinality(Named(fd_table', h)) <= Cardinality(Named(fd_table, h))
    BY <1>0, <1>1, NamedClear DEF process_execute
  <2> QED
    BY <1>1, <2>1, <2>2, DescriptorStep DEF process_execute
<1>2. CASE thread_exit(p)
  <2>1. alive' \in [Proc -> {"none", "live", "died"}]
    BY <1>0, <1>2 DEF thread_exit
  <2>2. fd_table' = fd_table
    BY <1>2 DEF thread_exit
  <2>3. \A h \in Slot : Cardinality(Named(fd_table, h)) <= Cardinality(Named(fd_table, h))
    BY NamedLess
  <2> QED
    BY <1>0, <1>2, <2>1, <2>2, <2>3, DescriptorStep DEF thread_exit
<1>3. CASE thread_cleaner(p)
  <2>1. alive' \in [Proc -> {"none", "live", "died"}]
    BY <1>0, <1>3 DEF thread_cleaner
  <2>2. /\ fd_table' \in Descriptors
        /\ \A h \in Slot : Cardinality(Named(fd_table', h)) <= Cardinality(Named(fd_table, h))
    BY <1>0, <1>3, NamedClear DEF thread_cleaner
  <2> QED
    BY <1>3, <2>1, <2>2, DescriptorStep DEF thread_cleaner
<1> QED
  BY <1>1, <1>2, <1>3

\* A copy found on the open list gets one more user, the call.
LEMMA FileOpenStep ==
    ASSUME Sequential, IInv, NEW p \in Proc, NEW n \in Name, NEW flag \in Flags,
           file_open(p, n, flag)
    PROVE  IInv'
<1> DEFINE g == get_free_slot_in_global
           i == dirent[n]
<1>1. g \in Slot /\ file_table[g].fd_inode = NULL
  BY FreeSlotPicked DEF file_open
<1>2. i \in inode_bitmap /\ i \in Ino
  BY DEF file_open, IInv, DiskOK, Types
<1>3. /\ \A q \in Proc : call[q] = Idle /\ call[q].at = "user"
      /\ \A pg : ~Busy(call, pg)
  BY QuietCalls DEF file_open, Idle
<1>4. DOMAIN call = Proc /\ page \in Pages
  BY DEF IInv, Types
<1>5. UNCHANGED <<file_table, fd_table, dirent, inode_bitmap, alive, forks>>
  BY DEF file_open
<1>6. /\ NamedOK(file_table', fd_table', forks')
      /\ PipeOK(page, file_table')
      /\ DiskOK(page, dirent', inode_bitmap')
  BY <1>5 DEF IInv
<1>7. CASE /\ open_inodes(i) = {}
           /\ call' = [call EXCEPT ![p] =
                 [at |-> "reading", slot |-> g, i_no |-> i, flag |-> flag]]
           /\ UNCHANGED page
  <2> DEFINE c == [at |-> "reading", slot |-> g, i_no |-> i, flag |-> flag]
  <2>1. /\ call'[p] = c /\ DOMAIN call' = Proc
        /\ \A q \in Proc : q # p => call'[q] = Idle
    BY <1>3, <1>4, <1>7
  <2>2. CallAt(c, file_table, inode_bitmap, page)
    <3>1. OpenList(page, i) = {}
      BY <1>7 DEF open_inodes, OpenList, IsInode
    <3>2. c.at = "reading" /\ c.slot = g /\ c.i_no = i /\ c.flag = flag
      OBVIOUS
    <3> HIDE DEF c, g, i
    <3> QED
      BY <1>1, <1>2, <3>1, <3>2 DEF CallAt
  <2>3. CallOK(call', file_table', inode_bitmap', page')
    BY <1>5, <1>7, <2>1, <2>2 DEF CallOK
  <2>4. \A q \in Proc : call'[q].at # "opened"
    BY <2>1 DEF Idle
  <2>5. \A a : ~Busy(call', a)
    BY <2>4 DEF Busy
  <2>6. CountOK(page', file_table', call')
    BY <1>3, <1>5, <1>7, <2>5 DEF IInv, CountOK, CountAt, Refs
  <2>7. Types'
    BY <1>5, <1>7, <2>1 DEF IInv, Types
  <2> QED
    BY <1>6, <1>7, <2>3, <2>6, <2>7, IInvPrimed
<1>8. CASE \E pg \in open_inodes(i) :
              /\ page' = [page EXCEPT ![pg].i_open_cnts = @ + 1]
              /\ call' = [call EXCEPT ![p] =
                    [at |-> "opened", slot |-> g, ino |-> pg, flag |-> flag]]
  <2>0. PICK pg \in open_inodes(i) :
              /\ page' = [page EXCEPT ![pg].i_open_cnts = @ + 1]
              /\ call' = [call EXCEPT ![p] =
                    [at |-> "opened", slot |-> g, ino |-> pg, flag |-> flag]]
    BY <1>8
  <2> DEFINE c == [at |-> "opened", slot |-> g, ino |-> pg, flag |-> flag]
             rec == [page[pg] EXCEPT !.i_open_cnts = @ + 1]
  <2>1. pg \in Page /\ IsInode(page, pg)
    BY DEF open_inodes, IsInode
  <2>2. page[pg] \in InodeRec
    BY <1>4, <2>1, Kinds
  <2>3. /\ rec \in InodeRec /\ rec.i_no = page[pg].i_no /\ rec.listed = page[pg].listed
        /\ rec.i_open_cnts = page[pg].i_open_cnts + 1
        /\ page[pg].i_open_cnts \in Nat
    BY <2>2 DEF InodeRec
  <2>4. PageSet(page, page', pg, rec) /\ (rec.listed => page[pg].listed)
    BY <2>0, <2>2 DEF InodeRec, PageSet
  <2> HIDE DEF rec
  <2>5. /\ page' \in Pages /\ page'[pg] = rec /\ IsInode(page', pg)
        /\ NoNewInode(page, page') /\ RingsKept(page, page')
        /\ \A a \in Page \ {pg} : page'[a] = page[a]
    BY <1>4, <2>1, <2>3, <2>4, InodeChanged
  <2>6. /\ call'[p] = c /\ DOMAIN call' = Proc
        /\ \A q \in Proc : q # p => call'[q] = Idle /\ call'[q].at = "user"
    BY <1>3, <1>4, <2>0
  <2>7. CallAt(c, file_table, inode_bitmap, page')
    <3>1. c.at = "opened" /\ c.slot = g /\ c.ino = pg /\ c.flag = flag
      OBVIOUS
    <3> HIDE DEF c, g, i
    <3> QED
      BY <1>1, <2>1, <3>1 DEF CallAt
  <2>8. CallOK(call', file_table', inode_bitmap', page')
    BY <1>5, <2>6, <2>7 DEF CallOK
  <2>9. Busy(call', pg) /\ \A a : a # pg => ~Busy(call', a)
    BY <2>6 DEF Busy
  <2>10. CountOK(page', file_table, call')
    <3>1. CountAt(page, file_table, call, pg) /\ CountOK(page, file_table, call)
      BY <2>1 DEF IInv, CountOK
    <3>2. Refs(file_table, call', pg) = Refs(file_table, call, pg) + 1
      BY <1>3, <2>9 DEF Refs
    <3>3. Covers(page[pg], Refs(file_table, call, pg)) /\ Refs(file_table, call, pg) \in Nat
      BY <2>1, <3>1, RefsNat DEF CountAt
    <3>4. Covers(page'[pg], Refs(file_table, call', pg))
      BY <2>3, <2>5, <3>2, <3>3 DEF Covers
    <3>5. CountAt(page', file_table, call', pg)
      BY <2>5, <3>4 DEF CountAt
    <3> QED
      BY <1>3, <2>5, <2>9, <3>1, <3>5, CountBut
  <2>11. DiskOK(page', dirent', inode_bitmap')
    BY <1>6, <2>5, DiskSame
  <2>12. PipeOK(page', file_table')
    BY <1>5, <1>6, <2>5, PipesSame DEF IInv, Types
  <2>13. Types'
    BY <1>5, <2>5, <2>6 DEF IInv, Types
  <2>14. CountOK(page', file_table', call')
    BY <1>5, <2>10
  <2> QED
    BY <1>6, <2>8, <2>11, <2>12, <2>13, <2>14, IInvPrimed
<1> QED
  BY <1>7, <1>8 DEF file_open

\* What holds of the call that is under way, and that there is no other
LEMMA TheCall ==
    ASSUME IInv, NEW p \in Proc, call[p].at \in {"reading", "opened"}
    PROVE  /\ CallAt(call[p], file_table, inode_bitmap, page)
           /\ \A q \in Proc : q # p => call[q] = Idle /\ call[q].at = "user"
           /\ call[p].at = "opened" => Busy(call, call[p].ino)
           /\ \A a : call[p].at = "reading" \/ a # call[p].ino => ~Busy(call, a)
<1>1. Idle.at = "user"
  BY DEF Idle
<1>2. call[p] # Idle
  BY <1>1
<1>3. CallAt(call[p], file_table, inode_bitmap, page)
  BY <1>2 DEF IInv, CallOK
<1>4. \A q \in Proc : q # p => call[q] = Idle
  BY <1>2 DEF IInv, CallOK
<1> QED
  BY <1>1, <1>3, <1>4 DEF Busy

\* The copy read from the disk is the only one on the open list.
LEMMA NewInodeListed ==
    ASSUME NEW pgs, NEW pgs2, NEW pg \in Page, NEW i \in Ino, NEW de, NEW bm,
           DiskOK(pgs, de, bm), i \in bm, OpenList(pgs, i) = {},
           pgs2[pg] = Inode(i), \A a \in Page \ {pg} : pgs2[a] = pgs[a]
    PROVE  DiskOK(pgs2, de, bm)
<1>1. pgs2[pg].i_no = i
  BY DEF Inode
<1>2. \A a \in Page \ {pg} : /\ IsInode(pgs2, a) <=> IsInode(pgs, a)
                             /\ pgs2[a] = pgs[a]
  BY DEF IsInode
<1>3. \A a \in Page : IsInode(pgs, a) /\ pgs[a].listed => pgs[a].i_no # i
  BY DEF OpenList
<1>4. \A a \in Page : IsInode(pgs2, a) /\ pgs2[a].listed => pgs2[a].i_no \in bm
  BY <1>1, <1>2 DEF DiskOK
<1>5. ASSUME NEW a \in Page, NEW b \in Page,
             IsInode(pgs2, a), IsInode(pgs2, b), pgs2[a].listed, pgs2[b].listed,
             pgs2[a].i_no = pgs2[b].i_no
      PROVE  a = b
  <2>1. CASE a # pg /\ b # pg
    BY <1>2, <1>5, <2>1 DEF DiskOK
  <2>2. CASE a = pg /\ b # pg
    BY <1>1, <1>2, <1>3, <1>5, <2>2
  <2>3. CASE a # pg /\ b = pg
    BY <1>1, <1>2, <1>3, <1>5, <2>3
  <2> QED
    BY <2>1, <2>2, <2>3
<1> QED
  BY <1>4, <1>5 DEF DiskOK

LEMMA InodeNew ==
    ASSUME NEW i \in Ino
    PROVE  /\ Inode(i) \in InodeRec /\ Inode(i).i_open_cnts = 1
           /\ Covers(Inode(i), 1) /\ Inode(i).kind = "inode"
<1>1. Inode(i) \in InodeRec /\ Inode(i).i_open_cnts = 1 /\ Inode(i).kind = "inode"
  BY DEF Inode, InodeRec
<1>2. Inode(i).listed
  BY DEF Inode
<1> QED
  BY <1>1, <1>2 DEF Covers

LEMMA InodeOpenReadStep ==
    ASSUME Sequential, IInv, NEW p \in Proc, inode_open_read(p)
    PROVE  IInv'
<1> DEFINE k == get_kernel_page
           i == call[p].i_no
           g == call[p].slot
           c == [at |-> "opened", slot |-> g, ino |-> k, flag |-> call[p].flag]
<1>1. call[p].at = "reading"
  BY DEF inode_open_read
<1>2. /\ CallAt(call[p], file_table, inode_bitmap, page)
      /\ \A q \in Proc : q # p => call[q] = Idle /\ call[q].at = "user"
      /\ \A a : ~Busy(call, a)
  BY <1>1, TheCall
<1>3. i \in inode_bitmap /\ i \in Ino /\ OpenList(page, i) = {}
  BY <1>1, <1>2 DEF CallAt, IInv, Types
<1>4. UNCHANGED <<file_table, fd_table, dirent, inode_bitmap, alive, forks>>
  BY DEF inode_open_read
<1>5. page \in Pages /\ DOMAIN call = Proc /\ FreePages # {} /\ CountOK(page, file_table, call)
  BY DEF IInv, Types, inode_open_read
<1>6. PageSet(page, page', k, Inode(i))
  BY DEF inode_open_read, PageSet
<1>7. Inode(i) \in {Queue} \cup InodeRec
  BY <1>3, InodeNew
<1>8. /\ k \in Page /\ ~IsInode(page, k)
      /\ page' \in Pages /\ page'[k] = Inode(i)
      /\ \A a \in Page \ {k} : page'[a] = page[a]
      /\ RingsKept(page, page')
  BY <1>5, <1>6, <1>7, PageTaken
<1>9. call' = [call EXCEPT ![p] = c]
  BY DEF inode_open_read
<1>10. c.at = "opened" /\ c.slot = g /\ c.ino = k /\ c.flag = call[p].flag
  OBVIOUS
<1> HIDE DEF k, i, g, c
<1>11. /\ call'[p] = c /\ DOMAIN call' = Proc
       /\ \A q \in Proc : q # p => call'[q] = Idle /\ call'[q].at = "user"
  BY <1>2, <1>5, <1>9
<1>12. CallAt(c, file_table, inode_bitmap, page')
  BY <1>2, <1>8, <1>10 DEF CallAt, g
<1>13. CallOK(call', file_table', inode_bitmap', page')
  BY <1>4, <1>11, <1>12 DEF CallOK
<1>14. Busy(call', k) /\ \A a : a # k => ~Busy(call', a)
  BY <1>10, <1>11 DEF Busy
<1>15. CountOK(page', file_table, call')
  <2>1. Sharing(file_table, k) = {}
    BY <1>5, <1>8, RefsUnused
  <2>2. Cardinality(Sharing(file_table, k)) = 0
    BY <2>1, FS_EmptySet
  <2>3. Refs(file_table, call', k) = 1
    BY <1>14, <2>2 DEF Refs
  <2>4. IsInode(page', k) /\ Covers(page'[k], 1)
    BY <1>3, <1>8, InodeNew DEF IsInode
  <2>5. CountAt(page', file_table, call', k)
    BY <2>3, <2>4 DEF CountAt
  <2> QED
    BY <1>2, <1>5, <1>8, <1>14, <2>5, CountBut
<1>16. DiskOK(page', dirent, inode_bitmap)
  BY <1>3, <1>8, NewInodeListed DEF IInv
<1>17. PipeOK(page', file_table)
  BY <1>8, PipesSame DEF IInv, Types
<1>18. Types'
  BY <1>4, <1>8, <1>11 DEF IInv, Types
<1>19. /\ DiskOK(page', dirent', inode_bitmap') /\ PipeOK(page', file_table')
       /\ CountOK(page', file_table', call') /\ NamedOK(file_table', fd_table', forks')
  BY <1>4, <1>15, <1>16, <1>17 DEF IInv
<1> QED
  BY <1>13, <1>18, <1>19, IInvPrimed

LEMMA FlagsOfFiles ==
    ASSUME Sequential, NEW flag \in Flags
    PROVE  flag \in 0..7 /\ flag # PIPE_FLAG /\ flag + O_CREAT \in 0..7
           /\ flag + O_CREAT # PIPE_FLAG
<1>1. flag \in 0..3
  BY OpenFilesAssumption
<1>2. flag # PIPE_FLAG
  BY DEF Sequential
<1> QED
  BY <1>1, <1>2 DEF O_CREAT, PIPE_FLAG

LEMMA FileOpenRefusedStep ==
    ASSUME Sequential, IInv, NEW p \in Proc, file_open_refused(p)
    PROVE  IInv'
<1> DEFINE pg == call[p].ino
           g == call[p].slot
<1>1. call[p].at = "opened"
  BY DEF file_open_refused
<1>2. /\ CallAt(call[p], file_table, inode_bitmap, page)
      /\ \A q \in Proc : q # p => call[q] = Idle /\ call[q].at = "user"
      /\ Busy(call, pg) /\ \A a : a # pg => ~Busy(call, a)
  BY <1>1, TheCall
<1>3. /\ pg \in Page /\ g \in Slot /\ file_table[g].fd_inode = NULL
      /\ call[p].flag \in Flags
  BY <1>1, <1>2 DEF CallAt
<1>4. call[p].flag \in 0..7 /\ call[p].flag # PIPE_FLAG
  BY <1>3, FlagsOfFiles
<1>5. UNCHANGED <<fd_table, dirent, inode_bitmap, alive, forks>>
  BY DEF file_open_refused
<1>6. /\ page \in Pages /\ DOMAIN call = Proc /\ file_table \in Slots
      /\ CountOK(page, file_table, call) /\ forks \in 0..MAX_FORK
  BY DEF IInv, Types
<1>7. NULL \in Page \cup {NULL} /\ 0 \in 0..UINT32_MAX
  BY OpenFilesAssumption
<1>8. /\ page' = inode_close(page, pg)
      /\ file_table' = [file_table EXCEPT ![g] = SlotEntry(NULL, 0, call[p].flag)]
      /\ call' = [call EXCEPT ![p] = Idle]
  BY DEF file_open_refused
<1> HIDE DEF pg, g
<1>9. /\ file_table' \in Slots
      /\ file_table'[g].fd_inode = NULL /\ file_table'[g].fd_flag = call[p].flag
      /\ \A h \in Slot \ {g} : file_table'[h] = file_table[h]
  BY <1>3, <1>4, <1>6, <1>7, <1>8 DEF Slots, SlotRec, SlotEntry
<1>10. /\ DOMAIN call' = Proc /\ \A q \in Proc : call'[q] = Idle /\ call'[q].at = "user"
  BY <1>2, <1>6, <1>8 DEF Idle
<1>11. CallOK(call', file_table', inode_bitmap', page') /\ \A a : ~Busy(call', a)
  BY <1>10 DEF CallOK, Busy
<1>12. \A a \in Page : Sharing(file_table', a) = Sharing(file_table, a)
  BY <1>3, <1>6, <1>9, SharingSame
<1> DEFINE n == Cardinality(Sharing(file_table, pg))
<1>13. n \in Nat /\ Refs(file_table, call, pg) = n + 1 /\ Refs(file_table', call', pg) = n
  BY <1>2, <1>3, <1>11, <1>12, RefsNat DEF Refs
<1> HIDE DEF n
<1>14. IsInode(page, pg) /\ Covers(page[pg], n + 1)
  BY <1>2, <1>3, <1>6, <1>13, RefsUsed
<1>15. /\ page' \in Pages
       /\ \A a \in Page \ {pg} : page'[a] = page[a]
       /\ NoNewInode(page, page') /\ RingsKept(page, page')
       /\ IF IsInode(page', pg) THEN Covers(page'[pg], n) ELSE n = 0
  BY <1>3, <1>6, <1>8, <1>13, <1>14, InodeClosed
<1>16. CountAt(page', file_table', call', pg)
  BY <1>13, <1>15 DEF CountAt
<1>17. CountOK(page', file_table', call')
  BY <1>2, <1>6, <1>11, <1>12, <1>15, <1>16, CountBut
<1>18. DiskOK(page', dirent', inode_bitmap')
  BY <1>5, <1>15, DiskSame DEF IInv
<1>19. PipeOK(page', file_table)
  BY <1>6, <1>15, PipesSame DEF IInv
<1>20. PipeOK(page', file_table')
  BY <1>3, <1>4, <1>9, <1>19, PipesBut DEF PipeSlot
<1>21. NamedOK(file_table', fd_table, forks)
  <2>1. NamedAt(file_table, Cardinality(Named(fd_table, g)), forks * Cardinality(Fd), g)
    BY <1>3 DEF IInv, NamedOK
  <2>2. NamedAt(file_table', Cardinality(Named(fd_table, g)), forks * Cardinality(Fd), g)
    BY <1>3, <1>9, <2>1 DEF NamedAt
  <2>3. \A h \in Slot : Cardinality(Named(fd_table, h)) <= Cardinality(Named(fd_table, h))
    BY NamedLess
  <2> QED
    BY <1>3, <1>6, <1>9, <2>2, <2>3, NamedStep DEF IInv
<1>22. Types'
  BY <1>5, <1>9, <1>10, <1>15 DEF IInv, Types
<1>23. NamedOK(file_table', fd_table', forks')
  BY <1>5, <1>21
<1> QED
  BY <1>11, <1>17, <1>18, <1>20, <1>22, <1>23, IInvPrimed

\* A free slot takes a file's inode; one more descriptor names the slot.
LEMMA NamedTaken ==
    ASSUME Sequential, NEW ft \in Slots, NEW ft2, NEW fds, NEW fds2,
           NEW fk \in 0..MAX_FORK, NEW g \in Slot, NamedOK(ft, fds, fk),
           ft[g].fd_inode = NULL, ft2[g].fd_inode # NULL, ~PipeSlot(ft2, g),
           \A h \in Slot \ {g} : ft2[h] = ft[h],
           Installed(fds, fds2, g, 1)
    PROVE  NamedOK(ft2, fds2, fk)
<1> DEFINE n == Cardinality(Named(fds, g))
           m == Cardinality(Named(fds2, g))
           x == fk * Cardinality(Fd)
<1>1. n \in Nat /\ m \in Nat /\ x \in Nat
  BY NamedFinite, Extra
<1>2. NamedAt(ft, n, x, g)
  BY DEF NamedOK
<1>3. m <= n + 1 /\ \A h \in Slot \ {g} : Cardinality(Named(fds2, h)) <= Cardinality(Named(fds, h))
  BY DEF Installed
<1> HIDE DEF n, m, x
<1>4. n <= x
  BY <1>2 DEF NamedAt
<1>5. NamedAt(ft2, m, x, g)
  BY <1>1, <1>3, <1>4 DEF NamedAt
<1> QED
  BY <1>3, <1>5, NamedStep DEF m, x

\* The reference of the call becomes the one of the slot.
LEMMA FileOpenInstallStep ==
    ASSUME Sequential, IInv, NEW p \in Proc, file_open_install(p)
    PROVE  IInv'
<1> DEFINE pg == call[p].ino
           g == call[p].slot
           rec == [page[pg] EXCEPT !.deny = @ \/ Writes(call[p].flag)]
<1>1. call[p].at = "opened"
  BY DEF file_open_install
<1>2. /\ CallAt(call[p], file_table, inode_bitmap, page)
      /\ \A q \in Proc : q # p => call[q] = Idle /\ call[q].at = "user"
      /\ Busy(call, pg) /\ \A a : a # pg => ~Busy(call, a)
  BY <1>1, TheCall
<1>3. /\ pg \in Page /\ g \in Slot /\ file_table[g].fd_inode = NULL
      /\ call[p].flag \in Flags
  BY <1>1, <1>2 DEF CallAt
<1>4. call[p].flag \in 0..7 /\ call[p].flag # PIPE_FLAG
  BY <1>3, FlagsOfFiles
<1>5. UNCHANGED <<dirent, inode_bitmap, alive, forks>>
  BY DEF file_open_install
<1>6. /\ page \in Pages /\ DOMAIN call = Proc /\ file_table \in Slots
      /\ CountOK(page, file_table, call) /\ forks \in 0..MAX_FORK
      /\ fd_table \in Descriptors /\ NamedOK(file_table, fd_table, forks)
  BY DEF IInv, Types
<1>7. 0 \in 0..UINT32_MAX /\ NULL \notin Page
  BY OpenFilesAssumption, SlotNumbers
<1>8. /\ PageSet(page, page', pg, rec)
      /\ file_table' = [file_table EXCEPT ![g] = SlotEntry(pg, 0, call[p].flag)]
      /\ fd_table' = pcb_fd_install(p, g)
      /\ call' = [call EXCEPT ![p] = Idle]
  BY DEF file_open_install, PageSet
<1>9. IsInode(page, pg) /\ Covers(page[pg], Refs(file_table, call, pg))
  BY <1>2, <1>3, <1>6, RefsUsed
<1>10. page[pg] \in InodeRec
  BY <1>3, <1>6, <1>9, Kinds
<1>11. /\ rec \in InodeRec /\ rec.i_no = page[pg].i_no
       /\ rec.i_open_cnts = page[pg].i_open_cnts
  BY <1>10 DEF InodeRec
<1>12. rec.listed = page[pg].listed /\ (rec.listed => page[pg].listed)
  BY <1>10 DEF InodeRec
<1> HIDE DEF rec, pg, g
<1>13. /\ page' \in Pages /\ page'[pg] = rec /\ IsInode(page', pg)
       /\ NoNewInode(page, page') /\ RingsKept(page, page')
       /\ \A a \in Page \ {pg} : page'[a] = page[a]
  BY <1>3, <1>6, <1>8, <1>9, <1>11, <1>12, InodeChanged
<1>14. /\ file_table' \in Slots
       /\ file_table'[g].fd_inode = pg /\ file_table'[g].fd_flag = call[p].flag
       /\ \A h \in Slot \ {g} : file_table'[h] = file_table[h]
  BY <1>3, <1>4, <1>6, <1>7, <1>8 DEF Slots, SlotRec, SlotEntry
<1>15. Installed(fd_table, fd_table', g, 1)
  BY <1>3, <1>6, <1>8, InstallOne
<1>16. DOMAIN call' = Proc /\ \A q \in Proc : call'[q] = Idle /\ call'[q].at = "user"
  BY <1>2, <1>6, <1>8 DEF Idle
<1>17. CallOK(call', file_table', inode_bitmap', page') /\ \A a : ~Busy(call', a)
  BY <1>16 DEF CallOK, Busy
<1>18. ~PipeSlot(file_table', g)
  BY <1>4, <1>14 DEF PipeSlot
<1>19. /\ Cardinality(Sharing(file_table', pg)) = Cardinality(Sharing(file_table, pg)) + 1
       /\ \A a \in Page \ {pg} : Sharing(file_table', a) = Sharing(file_table, a)
  BY <1>3, <1>14, <1>18, SharingTake
<1>20. Refs(file_table', call', pg) = Refs(file_table, call, pg)
  BY <1>2, <1>17, <1>19 DEF Refs
<1>21. Covers(page'[pg], Refs(file_table', call', pg))
  BY <1>9, <1>11, <1>12, <1>13, <1>20 DEF Covers
<1>22. CountAt(page', file_table', call', pg)
  BY <1>13, <1>21 DEF CountAt
<1>23. CountOK(page', file_table', call')
  BY <1>2, <1>6, <1>13, <1>17, <1>19, <1>22, CountBut
<1>24. DiskOK(page', dirent', inode_bitmap')
  BY <1>5, <1>13, DiskSame DEF IInv
<1>25. PipeOK(page', file_table)
  BY <1>6, <1>13, PipesSame DEF IInv
<1>26. PipeOK(page', file_table')
  BY <1>3, <1>14, <1>25, <1>18, PipesBut
<1>27. NamedOK(file_table', fd_table', forks)
  BY <1>3, <1>6, <1>7, <1>14, <1>15, <1>18, NamedTaken
<1>28. Types'
  BY <1>5, <1>13, <1>14, <1>15, <1>16 DEF IInv, Types, Installed
<1>29. NamedOK(file_table', fd_table', forks')
  BY <1>5, <1>27
<1> QED
  BY <1>17, <1>23, <1>24, <1>26, <1>28, <1>29, IInvPrimed

LEMMA FileCreateStep ==
    ASSUME Sequential, IInv, NEW p \in Proc, NEW n \in Name, NEW flag \in Flags,
           file_create(p, n, flag)
    PROVE  IInv'
<1> DEFINE k == get_kernel_page
           i == Min(Ino \ inode_bitmap)
           g == get_free_slot_in_global
           fl == flag + O_CREAT
<1>1. g \in Slot /\ file_table[g].fd_inode = NULL
  BY FreeSlotPicked DEF file_create
<1>2. i \in Ino /\ i \notin inode_bitmap
  <2>1. Ino \ inode_bitmap # {} /\ Ino \ inode_bitmap \subseteq Nat
    BY SlotNumbers DEF file_create
  <2> QED
    BY <2>1, LeastMember
<1>3. fl \in 0..7 /\ fl # PIPE_FLAG
  BY FlagsOfFiles
<1>4. /\ page \in Pages /\ FreePages # {} /\ DOMAIN call = Proc /\ file_table \in Slots
      /\ CountOK(page, file_table, call) /\ forks \in 0..MAX_FORK
      /\ fd_table \in Descriptors /\ NamedOK(file_table, fd_table, forks)
      /\ inode_bitmap \subseteq Ino /\ dirent \in [Name -> Ino \cup {NULL}]
      /\ DiskOK(page, dirent, inode_bitmap)
  BY DEF IInv, Types, file_create
<1>5. 0 \in 0..UINT32_MAX /\ NULL \notin Page /\ NULL \notin Ino
  BY OpenFilesAssumption, SlotNumbers
<1>6. /\ PageSet(page, page', k, Inode(i))
      /\ file_table' = [file_table EXCEPT ![g] = SlotEntry(k, 0, fl)]
      /\ fd_table' = pcb_fd_install(p, g)
      /\ inode_bitmap' = inode_bitmap \cup {i}
      /\ dirent' = [dirent EXCEPT ![n] = i]
      /\ UNCHANGED <<alive, call, forks>>
  BY DEF file_create, PageSet
<1>7. /\ CallOK(call, file_table', inode_bitmap', page')
      /\ \A a : ~Busy(call, a)
  BY QuietCalls DEF file_create
<1> HIDE DEF i, g, fl
<1>8. Inode(i) \in {Queue} \cup InodeRec
  BY <1>2, InodeNew
<1>9. /\ k \in Page /\ ~IsInode(page, k)
      /\ page' \in Pages /\ page'[k] = Inode(i)
      /\ \A a \in Page \ {k} : page'[a] = page[a]
      /\ RingsKept(page, page')
  BY <1>4, <1>6, <1>8, PageTaken
<1> HIDE DEF k
<1>10. /\ file_table' \in Slots
       /\ file_table'[g].fd_inode = k /\ file_table'[g].fd_flag = fl
       /\ \A h \in Slot \ {g} : file_table'[h] = file_table[h]
  BY <1>1, <1>3, <1>4, <1>5, <1>6, <1>9 DEF Slots, SlotRec, SlotEntry
<1>11. Installed(fd_table, fd_table', g, 1)
  BY <1>1, <1>4, <1>6, InstallOne
<1>12. ~PipeSlot(file_table', g)
  BY <1>3, <1>10 DEF PipeSlot
<1>13. CountOK(page', file_table', call)
  <2>1. Sharing(file_table, k) = {}
    BY <1>4, <1>9, RefsUnused
  <2>2. Cardinality(Sharing(file_table, k)) = 0
    BY <2>1, FS_EmptySet
  <2>3. /\ Cardinality(Sharing(file_table', k)) = Cardinality(Sharing(file_table, k)) + 1
        /\ \A a \in Page \ {k} : Sharing(file_table', a) = Sharing(file_table, a)
    BY <1>1, <1>9, <1>10, <1>12, SharingTake
  <2>4. Refs(file_table', call, k) = 1
    BY <1>7, <2>2, <2>3 DEF Refs
  <2>5. IsInode(page', k) /\ Covers(page'[k], 1)
    BY <1>2, <1>9, InodeNew DEF IsInode
  <2>6. CountAt(page', file_table', call, k)
    BY <2>4, <2>5 DEF CountAt
  <2> QED
    BY <1>4, <1>9, <2>3, <2>6, CountBut
<1>14. DiskOK(page', dirent', inode_bitmap')
  <2>1. OpenList(page, i) = {}
    BY <1>2, <1>4 DEF DiskOK, OpenList
  <2>2. DiskOK(page, dirent', inode_bitmap')
    <3>1. \A m \in Name : dirent'[m] = IF m = n THEN i ELSE dirent[m]
      BY <1>4, <1>6
    <3>2. \A m \in Name : dirent[m] # i
      BY <1>2, <1>4, <1>5 DEF DiskOK
    <3>3. \A m \in Name : dirent'[m] # NULL => dirent'[m] \in inode_bitmap'
      BY <1>4, <1>6, <3>1 DEF DiskOK
    <3>4. \A m, l \in Name : dirent'[m] # NULL /\ dirent'[m] = dirent'[l] => m = l
      BY <1>4, <3>1, <3>2 DEF DiskOK
    <3> QED
      BY <1>4, <1>6, <3>3, <3>4 DEF DiskOK
  <2>3. i \in inode_bitmap'
    BY <1>6
  <2> QED
    BY <1>2, <1>9, <2>1, <2>2, <2>3, NewInodeListed
<1>15. PipeOK(page', file_table)
  BY <1>4, <1>9, PipesSame DEF IInv
<1>16. PipeOK(page', file_table')
  BY <1>1, <1>10, <1>15, <1>12, PipesBut
<1>17. NamedOK(file_table', fd_table', forks)
  BY <1>1, <1>4, <1>5, <1>9, <1>10, <1>11, <1>12, NamedTaken
<1>18. Types'
  <2>1. dirent' \in [Name -> Ino \cup {NULL}] /\ inode_bitmap' \subseteq Ino
    BY <1>2, <1>4, <1>6
  <2> QED
    BY <1>6, <1>9, <1>10, <1>11, <2>1 DEF IInv, Types, Installed
<1>19. /\ CallOK(call', file_table', inode_bitmap', page')
       /\ CountOK(page', file_table', call') /\ NamedOK(file_table', fd_table', forks')
  BY <1>6, <1>7, <1>13, <1>17
<1> QED
  BY <1>14, <1>16, <1>18, <1>19, IInvPrimed

\* The name, the number and the listed copy go together.
LEMMA DiskRemoved ==
    ASSUME NEW pgs, NEW pgs2, NEW de \in [Name -> Ino \cup {NULL}], NEW bm, NEW n \in Name,
           de[n] # NULL, DiskOK(pgs, de, bm), NoNewInode(pgs, pgs2),
           OpenList(pgs2, de[n]) = {}
    PROVE  DiskOK(pgs2, [de EXCEPT ![n] = NULL], bm \ {de[n]})
<1> DEFINE de2 == [de EXCEPT ![n] = NULL]
           bm2 == bm \ {de[n]}
<1>1. \A m \in Name : de2[m] = IF m = n THEN NULL ELSE de[m]
  OBVIOUS
<1> HIDE DEF de2
<1>2. \A m \in Name : de2[m] # NULL => de2[m] \in bm2
  BY <1>1 DEF DiskOK
<1>3. \A m, l \in Name : de2[m] # NULL /\ de2[m] = de2[l] => m = l
  BY <1>1 DEF DiskOK
<1>4. DiskOK(pgs2, de, bm)
  BY DiskSame
<1>5. \A a \in Page : IsInode(pgs2, a) /\ pgs2[a].listed => pgs2[a].i_no \in bm2
  BY <1>4 DEF DiskOK, OpenList
<1> QED
  BY <1>2, <1>3, <1>4, <1>5 DEF DiskOK, de2

LEMMA SysRemoveStep ==
    ASSUME Sequential, IInv, NEW p \in Proc, NEW n \in Name, sys_remove(p, n)
    PROVE  IInv'
<1> DEFINE i == dirent[n]
<1>1. /\ page \in Pages /\ file_table \in Slots
      /\ CountOK(page, file_table, call)
      /\ inode_bitmap \subseteq Ino /\ dirent \in [Name -> Ino \cup {NULL}]
      /\ DiskOK(page, dirent, inode_bitmap) /\ PipeOK(page, file_table)
  BY DEF IInv, Types
<1>2. /\ i # NULL /\ i \in Ino
      /\ dirent' = [dirent EXCEPT ![n] = NULL]
      /\ inode_bitmap' = inode_bitmap \ {i}
      /\ UNCHANGED <<file_table, fd_table, alive, call, forks>>
  BY <1>1 DEF sys_remove
<1>3. /\ CallOK(call, file_table, inode_bitmap', page')
      /\ \A a : ~Busy(call, a)
  BY QuietCalls DEF sys_remove
<1>4. ASSUME page' \in Pages, NoNewInode(page, page'), RingsKept(page, page'),
             OpenList(page', i) = {}, CountOK(page', file_table, call)
      PROVE  IInv'
  <2>1. DiskOK(page', dirent', inode_bitmap')
    BY <1>1, <1>2, <1>4, DiskRemoved
  <2>2. PipeOK(page', file_table)
    BY <1>1, <1>4, PipesSame
  <2>3. Types'
    BY <1>1, <1>2, <1>4 DEF IInv, Types
  <2>4. /\ CallOK(call', file_table', inode_bitmap', page')
        /\ CountOK(page', file_table', call') /\ NamedOK(file_table', fd_table', forks')
        /\ PipeOK(page', file_table')
    BY <1>2, <1>3, <1>4, <2>2 DEF IInv
  <2> QED
    BY <2>1, <2>3, <2>4, IInvPrimed
<1>5. CASE /\ open_inodes(i) = {} /\ FreePages # {}
           /\ page' = [page EXCEPT ![get_kernel_page] = [Inode(i) EXCEPT !.listed = FALSE]]
  <2> DEFINE k == get_kernel_page
             rec == [Inode(i) EXCEPT !.listed = FALSE]
  <2>1. rec \in InodeRec /\ rec.i_open_cnts = 1 /\ rec.kind = "inode"
    BY <1>2 DEF Inode, InodeRec
  <2>2. ~rec.listed
    BY <1>2 DEF Inode
  <2>3. PageSet(page, page', k, rec) /\ FreePages # {}
    BY <1>5 DEF PageSet
  <2> HIDE DEF rec, i
  <2>4. rec \in {Queue} \cup InodeRec
    BY <2>1
  <2>5. /\ k \in Page /\ ~IsInode(page, k)
        /\ page' \in Pages /\ page'[k] = rec
        /\ \A a \in Page \ {k} : page'[a] = page[a]
        /\ RingsKept(page, page')
    BY <1>1, <2>3, <2>4, PageTaken
  <2>6. NoNewInode(page, page')
    BY <2>2, <2>5 DEF NoNewInode, IsInode
  <2> HIDE DEF k
  <2>7. OpenList(page', i) = {}
    BY <1>5, <2>6 DEF OpenList, open_inodes, NoNewInode, IsInode
  <2>8. Refs(file_table, call, k) = 0
    BY <1>1, <2>5, RefsUnused
  <2>9. IsInode(page', k) /\ Covers(page'[k], 0)
    BY <2>1, <2>2, <2>5 DEF IsInode, Covers
  <2>10. CountAt(page', file_table, call, k)
    BY <2>8, <2>9 DEF CountAt
  <2>11. CountOK(page', file_table, call)
    BY <1>1, <2>5, <2>10, CountBut
  <2> QED
    BY <1>4, <2>5, <2>6, <2>7, <2>11
<1>6. CASE \E pg \in open_inodes(i) :
              page' = [page EXCEPT ![pg].i_open_cnts = @ + 1, ![pg].listed = FALSE]
  <2>0. PICK pg \in open_inodes(i) :
              page' = [page EXCEPT ![pg].i_open_cnts = @ + 1, ![pg].listed = FALSE]
    BY <1>6
  <2> DEFINE rec0 == [page[pg] EXCEPT !.i_open_cnts = @ + 1]
             rec == [rec0 EXCEPT !.listed = FALSE]
  <2>1. pg \in Page /\ IsInode(page, pg) /\ page[pg].listed /\ page[pg].i_no = i
    BY DEF open_inodes, IsInode
  <2>2. page[pg] \in InodeRec
    BY <1>1, <2>1, Kinds
  <2>3. /\ rec \in InodeRec /\ rec.i_no = page[pg].i_no
        /\ rec.i_open_cnts = page[pg].i_open_cnts + 1 /\ page[pg].i_open_cnts \in Nat
    <3>1. /\ rec0 \in InodeRec /\ rec0.i_no = page[pg].i_no
          /\ rec0.i_open_cnts = page[pg].i_open_cnts + 1 /\ page[pg].i_open_cnts \in Nat
      BY <2>2 DEF InodeRec
    <3> HIDE DEF rec0
    <3>2. rec \in InodeRec /\ rec.i_no = rec0.i_no /\ rec.i_open_cnts = rec0.i_open_cnts
      BY <3>1 DEF InodeRec
    <3> HIDE DEF rec
    <3> QED
      BY <3>1, <3>2
  <2>4. ~rec.listed /\ (rec.listed => page[pg].listed)
    BY <2>2 DEF InodeRec
  <2>5. PageSet(page, page', pg, rec)
    BY <1>1, <2>0, <2>1 DEF PageSet, Pages
  <2> HIDE DEF rec, i
  <2>6. /\ page' \in Pages /\ page'[pg] = rec /\ IsInode(page', pg)
        /\ NoNewInode(page, page') /\ RingsKept(page, page')
        /\ \A a \in Page \ {pg} : page'[a] = page[a]
    BY <1>1, <2>1, <2>3, <2>4, <2>5, InodeChanged
  <2>7. OpenList(page', i) = {}
    <3> SUFFICES ASSUME NEW a \in Page, IsInode(page', a), page'[a].listed, page'[a].i_no = i
                 PROVE  FALSE
      BY DEF OpenList
    <3>1. IsInode(page, a) /\ page[a].listed /\ page[a].i_no = i
      BY <2>6 DEF NoNewInode
    <3>2. a = pg
      BY <1>1, <2>1, <3>1 DEF DiskOK
    <3> QED
      BY <2>4, <2>6, <3>2
  <2>8. /\ Covers(page[pg], Refs(file_table, call, pg)) /\ Refs(file_table, call, pg) \in Nat
    BY <1>1, <2>1, RefsNat DEF CountOK, CountAt
  <2>9. Covers(page'[pg], Refs(file_table, call, pg))
    BY <2>1, <2>3, <2>4, <2>6, <2>8 DEF Covers
  <2>10. CountAt(page', file_table, call, pg)
    BY <2>6, <2>9 DEF CountAt
  <2>11. CountOK(page', file_table, call)
    BY <1>1, <2>6, <2>10, CountBut
  <2> QED
    BY <1>4, <2>6, <2>7, <2>11
<1> QED
  BY <1>5, <1>6 DEF sys_remove

\* The slot gives its reference back.
LEMMA FileCloseStep ==
    ASSUME Sequential, IInv, NEW p \in Proc, NEW fd \in Fd, file_close(p, fd)
    PROVE  IInv'
<1> DEFINE g == fd_table[p][fd]
           pg == file_table[g].fd_inode
           rec == [page[pg] EXCEPT !.deny = FALSE]
           pgs == [page EXCEPT ![pg] = rec]
<1>1. /\ page \in Pages /\ file_table \in Slots /\ fd_table \in Descriptors
      /\ CountOK(page, file_table, call) /\ forks \in 0..MAX_FORK
      /\ DiskOK(page, dirent, inode_bitmap) /\ PipeOK(page, file_table)
      /\ NamedOK(file_table, fd_table, forks)
  BY DEF IInv, Types
<1>2. g \in Slot
  BY <1>1 DEF file_close, Descriptors
<1>3. pg \in Page /\ ~PipeSlot(file_table, g)
  <2>1. pg # NULL /\ ~PipeSlot(file_table, g)
    BY DEF file_close, is_pipe, PipeSlot
  <2>2. file_table[g] \in SlotRec
    BY <1>1, <1>2 DEF Slots
  <2> QED
    BY <2>1, <2>2 DEF SlotRec
<1>4. /\ page' = inode_close(pgs, pg)
      /\ file_table' = [file_table EXCEPT ![g].fd_inode = NULL]
      /\ fd_table' = [fd_table EXCEPT ![p][fd] = FREE_FD]
      /\ UNCHANGED <<dirent, inode_bitmap, alive, call, forks>>
  BY DEF file_close
<1>5. g \in Sharing(file_table, pg)
  BY <1>2, <1>3 DEF Sharing
<1>6. IsInode(page, pg) /\ Covers(page[pg], Refs(file_table, call, pg))
  BY <1>1, <1>3, <1>5, RefsUsed
<1>7. page[pg] \in InodeRec
  BY <1>1, <1>3, <1>6, Kinds
<1>8. /\ rec \in InodeRec /\ rec.i_no = page[pg].i_no
      /\ rec.i_open_cnts = page[pg].i_open_cnts
  BY <1>7 DEF InodeRec
<1>9. rec.listed = page[pg].listed /\ (rec.listed => page[pg].listed)
  BY <1>7 DEF InodeRec
<1>10. PageSet(page, pgs, pg, rec)
  BY DEF PageSet
<1>11. /\ CallOK(call, file_table', inode_bitmap', page')
       /\ \A a : ~Busy(call, a)
  BY QuietCalls DEF file_close
<1>12. /\ Cardinality(Named(fd_table', g)) = Cardinality(Named(fd_table, g)) - 1
       /\ \A h \in Slot : Cardinality(Named(fd_table', h)) <= Cardinality(Named(fd_table, h))
       /\ fd_table' \in Descriptors
  BY <1>1, <1>2, <1>4, NamedClose
<1> HIDE DEF rec, pgs
<1>13. /\ pgs \in Pages /\ pgs[pg] = rec /\ IsInode(pgs, pg)
       /\ NoNewInode(page, pgs) /\ RingsKept(page, pgs)
       /\ \A a \in Page \ {pg} : pgs[a] = page[a]
  BY <1>1, <1>3, <1>6, <1>8, <1>9, <1>10, InodeChanged
<1>14. /\ file_table' \in Slots /\ file_table'[g].fd_inode = NULL
       /\ file_table'[g].fd_flag = file_table[g].fd_flag
       /\ \A h \in Slot \ {g} : file_table'[h] = file_table[h]
  BY <1>1, <1>2, <1>4 DEF Slots, SlotRec
<1>15. file_table[g].fd_inode = pg
  OBVIOUS
<1> HIDE DEF pg, g
<1>16. /\ Cardinality(Sharing(file_table, pg)) = Cardinality(Sharing(file_table', pg)) + 1
       /\ \A a \in Page \ {pg} : Sharing(file_table', a) = Sharing(file_table, a)
  BY <1>2, <1>3, <1>14, <1>15, SharingDrop
<1> DEFINE n == Cardinality(Sharing(file_table', pg))
<1>17. n \in Nat /\ Refs(file_table, call, pg) = n + 1 /\ Refs(file_table', call, pg) = n
  BY <1>11, <1>16, RefsNat DEF Refs
<1> HIDE DEF n
<1>18. Covers(pgs[pg], n + 1)
  BY <1>6, <1>8, <1>9, <1>13, <1>17 DEF Covers
<1>19. /\ page' \in Pages
       /\ \A a \in Page \ {pg} : page'[a] = pgs[a]
       /\ NoNewInode(pgs, page') /\ RingsKept(pgs, page')
       /\ IF IsInode(page', pg) THEN Covers(page'[pg], n) ELSE n = 0
  BY <1>3, <1>4, <1>13, <1>17, <1>18, InodeClosed
<1>20. CountAt(page', file_table', call, pg)
  BY <1>17, <1>19 DEF CountAt
<1>21. CountOK(page', file_table', call)
  BY <1>1, <1>13, <1>16, <1>19, <1>20, CountBut
<1>22. NoNewInode(page, page') /\ RingsKept(page, page')
  BY <1>13, <1>19 DEF NoNewInode, RingsKept
<1>23. DiskOK(page', dirent', inode_bitmap')
  BY <1>1, <1>4, <1>22, DiskSame
<1>24. PipeOK(page', file_table)
  BY <1>1, <1>22, PipesSame
<1>25. PipeOK(page', file_table')
  BY <1>2, <1>3, <1>14, <1>24, PipesBut DEF PipeSlot
<1>26. NamedOK(file_table', fd_table', forks)
  <2> DEFINE m == Cardinality(Named(fd_table, g))
             x == forks * Cardinality(Fd)
  <2>1. m \in Nat /\ x \in Nat
    BY <1>1, NamedFinite, Extra
  <2>2. NamedAt(file_table, m, x, g)
    BY <1>1, <1>2 DEF NamedOK
  <2>3. m <= 1 + x
    BY <1>3, <1>15, <2>1, <2>2, SlotNumbers DEF NamedAt
  <2>4. Cardinality(Named(fd_table', g)) = m - 1
    BY <1>12
  <2>5. Cardinality(Named(fd_table', g)) <= x
    <3> HIDE DEF m, x
    <3> QED
      BY <2>1, <2>3, <2>4
  <2>6. NamedAt(file_table', Cardinality(Named(fd_table', g)), x, g)
    BY <1>14, <2>5 DEF NamedAt
  <2> QED
    BY <1>1, <1>2, <1>12, <1>14, <2>6, NamedStep
<1>27. Types'
  BY <1>4, <1>12, <1>14, <1>19 DEF IInv, Types
<1>28. /\ CallOK(call', file_table', inode_bitmap', page')
       /\ CountOK(page', file_table', call') /\ NamedOK(file_table', fd_table', forks')
  BY <1>4, <1>11, <1>21, <1>26
<1> QED
  BY <1>23, <1>25, <1>27, <1>28, IInvPrimed

\* Counting down never wraps back to an end that is open: a descriptor that
\* is closed is one of those that were counted.
LEMMA EndClosed ==
    ASSUME Sequential, NEW pos \in 0..UINT32_MAX, NEW n \in Nat, n >= 1,
           NEW x \in Nat, 2 + x <= UINT32_MAX, n + Closed(pos) <= 2 + x
    PROVE  /\ Decremented(pos) \in 0..UINT32_MAX
           /\ (n - 1) + Closed(Decremented(pos)) <= 2 + x
           /\ Decremented(pos) = 0 => pos = 1
           /\ Decremented(pos) \in {1, 2} => pos = 2
<1>1. UINT32_MAX \in Nat /\ UINT32_MAX > 2
  BY OpenFilesAssumption
<1>2. CASE pos = 0
  <2>1. Decremented(pos) = UINT32_MAX /\ Closed(pos) = 2 /\ Closed(UINT32_MAX) = 3
    BY <1>1, <1>2 DEF Decremented, Closed
  <2> QED
    BY <1>1, <1>2, <2>1
<1>3. CASE pos \in {1, 2}
  <2>1. /\ Decremented(pos) = pos - 1 /\ Closed(pos) = 2 - pos
        /\ Closed(pos - 1) = 3 - pos
    BY <1>1, <1>3 DEF Decremented, Closed
  <2> QED
    BY <1>1, <1>3, <2>1
<1>4. CASE pos > 2
  <2>1. Decremented(pos) = pos - 1 /\ Closed(pos) = UINT32_MAX + 3 - pos
    BY <1>1, <1>4 DEF Decremented, Closed
  <2>2. pos > 3
    BY <1>1, <1>4, <2>1
  <2>3. Closed(pos - 1) = UINT32_MAX + 4 - pos
    BY <1>1, <2>2 DEF Closed
  <2> QED
    BY <1>1, <2>1, <2>2, <2>3
<1> QED
  BY <1>2, <1>3, <1>4

LEMMA PipeCloseStep ==
    ASSUME Sequential, IInv, NEW p \in Proc, NEW fd \in Fd, pipe_close(p, fd)
    PROVE  IInv'
<1> DEFINE g == fd_table[p][fd]
           pg == file_table[g].fd_inode
           old == file_table[g].fd_pos
           pos == Decremented(old)
           n == Cardinality(Named(fd_table, g))
           x == forks * Cardinality(Fd)
<1>1. /\ page \in Pages /\ file_table \in Slots /\ fd_table \in Descriptors
      /\ CountOK(page, file_table, call) /\ forks \in 0..MAX_FORK
      /\ DiskOK(page, dirent, inode_bitmap) /\ PipeOK(page, file_table)
      /\ NamedOK(file_table, fd_table, forks)
  BY DEF IInv, Types
<1>2. g \in Slot
  BY <1>1 DEF pipe_close, Descriptors
<1>3. pg \in Page /\ PipeSlot(file_table, g) /\ old \in 0..UINT32_MAX
  <2>1. pg # NULL /\ PipeSlot(file_table, g)
    BY DEF pipe_close, is_pipe, PipeSlot
  <2>2. file_table[g] \in SlotRec
    BY <1>1, <1>2 DEF Slots
  <2> QED
    BY <2>1, <2>2 DEF SlotRec
<1>4. /\ page' = IF pos = 0 THEN [page EXCEPT ![pg] = FreePage] ELSE page
      /\ file_table' = [file_table EXCEPT ![g].fd_pos = pos]
      /\ fd_table' = [fd_table EXCEPT ![p][fd] = FREE_FD]
      /\ UNCHANGED <<dirent, inode_bitmap, alive, call, forks>>
  BY DEF pipe_close
<1>5. /\ CallOK(call, file_table', inode_bitmap', page')
      /\ \A a : ~Busy(call, a)
  BY QuietCalls DEF pipe_close
<1>6. /\ Cardinality(Named(fd_table', g)) = n - 1 /\ n >= 1
      /\ \A h \in Slot : Cardinality(Named(fd_table', h)) <= Cardinality(Named(fd_table, h))
      /\ fd_table' \in Descriptors
  BY <1>1, <1>2, <1>4, NamedClose
<1>7. n \in Nat /\ x \in Nat /\ 2 + x <= UINT32_MAX
  BY <1>1, NamedFinite, Extra
<1>8. NamedAt(file_table, n, x, g)
  BY <1>1, <1>2 DEF NamedOK
<1>9. n + Closed(old) <= 2 + x
  BY <1>3, <1>8, SlotNumbers DEF NamedAt
<1>10. pg = file_table[g].fd_inode /\ old = file_table[g].fd_pos /\ x = forks * Cardinality(Fd)
  OBVIOUS
<1> HIDE DEF n, x, g, pg, old
<1>11. /\ pos \in 0..UINT32_MAX /\ (n - 1) + Closed(pos) <= 2 + x
       /\ pos = 0 => old = 1
       /\ pos \in {1, 2} => old = 2
  BY <1>3, <1>6, <1>7, <1>9, EndClosed
<1> HIDE DEF pos
<1>12. /\ file_table' \in Slots
       /\ file_table'[g].fd_inode = pg /\ file_table'[g].fd_pos = pos
       /\ file_table'[g].fd_flag = file_table[g].fd_flag
       /\ \A h \in Slot \ {g} : file_table'[h] = file_table[h]
  BY <1>2, <1>1, <1>4, <1>10, <1>11 DEF Slots, SlotRec
<1>13. PipeSlot(file_table', g)
  BY <1>3, <1>12 DEF PipeSlot
<1>14. \A a \in Page : Sharing(file_table', a) = Sharing(file_table, a)
  BY <1>1, <1>2, <1>3, <1>12, <1>13, SharingSame
<1>15. pos = 0 => page[pg] = Queue
  <2>1. pos = 0 => PipeOpen(file_table, g)
    BY <1>3, <1>10, <1>11 DEF PipeOpen
  <2> QED
    BY <1>1, <1>2, <1>10, <2>1 DEF PipeOK
<1>16. /\ page' \in Pages
       /\ \A a \in Page \ {pg} : page'[a] = page[a]
       /\ pos = 0 => page'[pg] = FreePage
       /\ pos # 0 => page' = page
  BY <1>1, <1>3, <1>4 DEF Pages
<1>17. IsInode(page', pg) => pos # 0
  BY <1>16, Kinds DEF IsInode
<1>18. NoNewInode(page, page')
  BY <1>16, <1>17 DEF NoNewInode, IsInode
<1>19. DiskOK(page', dirent', inode_bitmap')
  BY <1>1, <1>4, <1>18, DiskSame
<1>20. CountOK(page', file_table', call)
  <2>1. CASE pos = 0
    <3>1. ~IsInode(page, pg)
      BY <1>15, <2>1, Kinds DEF IsInode
    <3>2. Refs(file_table, call, pg) = 0
      BY <1>1, <1>3, <3>1, RefsUnused
    <3>3. CountAt(page', file_table', call, pg)
      BY <1>3, <1>14, <1>17, <2>1, <3>2 DEF CountAt, Refs
    <3> QED
      BY <1>1, <1>14, <1>16, <3>3, CountBut
  <2>2. CASE pos # 0
    <3>1. CountAt(page', file_table', call, pg)
      BY <1>1, <1>3, <1>14, <1>16, <2>2 DEF CountOK, CountAt, Refs
    <3> QED
      BY <1>1, <1>14, <1>16, <3>1, CountBut
  <2> QED
    BY <2>1, <2>2
<1>21. PipeOK(page', file_table')
  <2>1. \A h \in Slot : PipeSlot(file_table', h) => PipeSlot(file_table, h)
                        /\ file_table'[h].fd_inode = file_table[h].fd_inode
    BY <1>3, <1>10, <1>12 DEF PipeSlot
  <2>2. \A h \in Slot : PipeOpen(file_table', h) => PipeOpen(file_table, h)
    BY <1>3, <1>10, <1>11, <1>12, <2>1 DEF PipeOpen
  <2>3. PipeOpen(file_table', g) => pos # 0
    BY <1>12 DEF PipeOpen
  <2>4. \A h \in Slot : PipeSlot(file_table', h) => file_table'[h].fd_inode # NULL
    BY <1>1, <2>1 DEF PipeOK
  <2>5. ASSUME NEW h \in Slot, PipeOpen(file_table', h)
        PROVE  page'[file_table'[h].fd_inode] = Queue
    <3>1. PipeOpen(file_table, h) /\ file_table'[h].fd_inode = file_table[h].fd_inode
      BY <2>1, <2>2, <2>5 DEF PipeOpen
    <3>2. page[file_table[h].fd_inode] = Queue /\ file_table[h].fd_inode \in Page
      BY <1>1, <3>1 DEF PipeOK, PipeOpen, Slots, SlotRec
    <3>3. CASE pos # 0
      BY <1>16, <3>1, <3>2, <3>3
    <3>4. CASE pos = 0
      <4>1. PipeOpen(file_table, g) /\ h # g
        BY <1>3, <1>10, <1>11, <2>3, <2>5, <3>4 DEF PipeOpen
      <4>2. file_table[h].fd_inode # pg
        BY <1>1, <1>2, <1>10, <3>1, <4>1 DEF PipeOK
      <4> QED
        BY <1>16, <3>1, <3>2, <4>2
    <3> QED
      BY <3>3, <3>4
  <2>6. \A h, k \in Slot : /\ PipeOpen(file_table', h) /\ PipeOpen(file_table', k)
                           /\ file_table'[h].fd_inode = file_table'[k].fd_inode
                           => h = k
    BY <1>1, <2>1, <2>2 DEF PipeOK, PipeOpen
  <2> QED
    BY <2>4, <2>5, <2>6 DEF PipeOK
<1>22. NamedOK(file_table', fd_table', forks)
  <2>1. NamedAt(file_table', Cardinality(Named(fd_table', g)), x, g)
    BY <1>3, <1>6, <1>11, <1>12, <1>13, SlotNumbers DEF NamedAt
  <2> QED
    BY <1>1, <1>2, <1>6, <1>10, <1>12, <2>1, NamedStep
<1>23. Types'
  BY <1>4, <1>6, <1>12, <1>16 DEF IInv, Types
<1>24. /\ CallOK(call', file_table', inode_bitmap', page')
       /\ CountOK(page', file_table', call') /\ NamedOK(file_table', fd_table', forks')
  BY <1>4, <1>5, <1>20, <1>22
<1> QED
  BY <1>19, <1>21, <1>23, <1>24, IInvPrimed

\* A page taken for a ring: nothing referred to it.
LEMMA RingTaken ==
    ASSUME Sequential, IInv, NEW p \in Proc, MayCall(p), FreePages # {},
           page' = [page EXCEPT ![get_kernel_page] = Queue]
    PROVE  /\ get_kernel_page \in Page /\ page[get_kernel_page] = FreePage
           /\ page' \in Pages /\ page'[get_kernel_page] = Queue
           /\ RingsKept(page, page')
           /\ DiskOK(page', dirent, inode_bitmap)
           /\ CountOK(page', file_table, call)
           /\ PipeOK(page', file_table)
           /\ \A ft, bm : CallOK(call, ft, bm, page')
<1> DEFINE k == get_kernel_page
<1>1. /\ page \in Pages /\ file_table \in Slots
      /\ CountOK(page, file_table, call)
      /\ DiskOK(page, dirent, inode_bitmap) /\ PipeOK(page, file_table)
  BY DEF IInv, Types
<1>2. PageSet(page, page', k, Queue) /\ Queue \in {Queue} \cup InodeRec
  BY DEF PageSet
<1>3. /\ k \in Page /\ page[k] = FreePage /\ ~IsInode(page, k)
      /\ page' \in Pages /\ page'[k] = Queue
      /\ \A a \in Page \ {k} : page'[a] = page[a]
      /\ RingsKept(page, page') /\ NoNewInode(page, page')
  BY <1>1, <1>2, PageTaken
<1>4. ~IsInode(page', k)
  BY <1>3, Kinds DEF IsInode
<1> HIDE DEF k
<1>5. Refs(file_table, call, k) = 0
  BY <1>1, <1>3, RefsUnused
<1>6. CountAt(page', file_table, call, k)
  BY <1>4, <1>5 DEF CountAt
<1>7. CountOK(page', file_table, call)
  BY <1>1, <1>3, <1>6, CountBut
<1>8. DiskOK(page', dirent, inode_bitmap)
  BY <1>1, <1>3, DiskSame
<1>9. PipeOK(page', file_table)
  BY <1>1, <1>3, PipesSame
<1> QED
  BY <1>3, <1>7, <1>8, <1>9, QuietCalls DEF k

LEMMA SysPipeFullStep ==
    ASSUME Sequential, IInv, NEW p \in Proc, sys_pipe_full(p)
    PROVE  IInv'
<1>1. /\ MayCall(p) /\ FreePages # {}
      /\ page' = [page EXCEPT ![get_kernel_page] = Queue]
      /\ UNCHANGED <<file_table, fd_table, dirent, inode_bitmap, alive, call, forks>>
  BY DEF sys_pipe_full
<1>2. /\ page' \in Pages
      /\ DiskOK(page', dirent, inode_bitmap)
      /\ CountOK(page', file_table, call)
      /\ PipeOK(page', file_table)
      /\ CallOK(call, file_table, inode_bitmap, page')
  BY <1>1, RingTaken
<1>3. Types'
  BY <1>1, <1>2 DEF IInv, Types
<1>4. /\ DiskOK(page', dirent', inode_bitmap')
      /\ CountOK(page', file_table', call')
      /\ PipeOK(page', file_table')
      /\ CallOK(call', file_table', inode_bitmap', page')
      /\ NamedOK(file_table', fd_table', forks')
  BY <1>1, <1>2 DEF IInv
<1> QED
  BY <1>3, <1>4, IInvPrimed

LEMMA SysPipeStep ==
    ASSUME Sequential, IInv, NEW p \in Proc, sys_pipe(p)
    PROVE  IInv'
<1> DEFINE k == get_kernel_page
           g == get_free_slot_in_global
<1>1. /\ MayCall(p) /\ FreePages # {}
      /\ page' = [page EXCEPT ![k] = Queue]
      /\ file_table' = [file_table EXCEPT ![g] = SlotEntry(k, 2, PIPE_FLAG)]
      /\ fd_table' = InstallBoth(p, g)
      /\ UNCHANGED <<dirent, inode_bitmap, alive, call, forks>>
  BY DEF sys_pipe
<1>2. g \in Slot /\ file_table[g].fd_inode = NULL
  BY FreeSlotPicked DEF sys_pipe
<1>3. /\ page \in Pages /\ file_table \in Slots /\ fd_table \in Descriptors
      /\ forks \in 0..MAX_FORK /\ PipeOK(page, file_table)
      /\ NamedOK(file_table, fd_table, forks)
  BY DEF IInv, Types
<1>4. /\ k \in Page /\ page[k] = FreePage
      /\ page' \in Pages /\ page'[k] = Queue
      /\ DiskOK(page', dirent, inode_bitmap)
      /\ CountOK(page', file_table, call)
      /\ PipeOK(page', file_table)
      /\ CallOK(call, file_table', inode_bitmap, page')
  BY <1>1, RingTaken
<1>5. Installed(fd_table, fd_table', g, 2)
  BY <1>1, <1>2, <1>3, InstallTwo
<1> HIDE DEF k, g
<1>6. 2 \in 0..UINT32_MAX /\ PIPE_FLAG \in 0..7 /\ NULL \notin Page
  BY OpenFilesAssumption, SlotNumbers DEF PIPE_FLAG
<1>7. /\ file_table' \in Slots
      /\ file_table'[g].fd_inode = k /\ file_table'[g].fd_pos = 2
      /\ file_table'[g].fd_flag = PIPE_FLAG
      /\ \A h \in Slot \ {g} : file_table'[h] = file_table[h]
  BY <1>1, <1>2, <1>3, <1>4, <1>6 DEF Slots, SlotRec, SlotEntry
<1>8. PipeSlot(file_table', g) /\ PipeOpen(file_table', g)
  BY <1>7 DEF PipeSlot, PipeOpen
<1>9. \A a \in Page : Sharing(file_table', a) = Sharing(file_table, a)
  BY <1>2, <1>3, <1>7, <1>8, SharingSame
<1>10. CountOK(page', file_table', call)
  <2> SUFFICES ASSUME NEW a \in Page PROVE CountAt(page', file_table', call, a)
    BY DEF CountOK
  <2>1. CountAt(page', file_table, call, a)
    BY <1>4 DEF CountOK
  <2> QED
    BY <1>9, <2>1 DEF CountAt, Refs
<1>11. PipeOK(page', file_table')
  <2>1. \A h \in Slot \ {g} : /\ PipeSlot(file_table', h) => PipeSlot(file_table, h)
                              /\ PipeOpen(file_table', h) => PipeOpen(file_table, h)
    BY <1>7 DEF PipeSlot, PipeOpen
  <2>2. \A h \in Slot \ {g} : PipeOpen(file_table', h) => file_table'[h].fd_inode # k
    <3>1. FreePage # Queue
      BY Kinds
    <3> QED
      BY <1>3, <1>4, <1>7, <2>1, <3>1 DEF PipeOK
  <2>3. \A h \in Slot : PipeSlot(file_table', h) => file_table'[h].fd_inode # NULL
    BY <1>3, <1>4, <1>6, <1>7, <2>1 DEF PipeOK
  <2>4. \A h \in Slot : PipeOpen(file_table', h) => page'[file_table'[h].fd_inode] = Queue
    BY <1>4, <1>7, <2>1 DEF PipeOK
  <2>5. \A h, l \in Slot : /\ PipeOpen(file_table', h) /\ PipeOpen(file_table', l)
                           /\ file_table'[h].fd_inode = file_table'[l].fd_inode
                           => h = l
    BY <1>3, <1>7, <2>1, <2>2 DEF PipeOK
  <2> QED
    BY <2>3, <2>4, <2>5 DEF PipeOK
<1>12. NamedOK(file_table', fd_table', forks)
  <2> DEFINE n == Cardinality(Named(fd_table, g))
             m == Cardinality(Named(fd_table', g))
             x == forks * Cardinality(Fd)
  <2>1. n \in Nat /\ m \in Nat /\ x \in Nat
    BY <1>3, NamedFinite, Extra
  <2>2. NamedAt(file_table, n, x, g)
    BY <1>2, <1>3 DEF NamedOK
  <2>3. /\ m <= n + 2
        /\ \A h \in Slot \ {g} :
              Cardinality(Named(fd_table', h)) <= Cardinality(Named(fd_table, h))
    BY <1>5 DEF Installed
  <2> HIDE DEF n, m, x
  <2>4. n <= x
    BY <1>2, <2>2 DEF NamedAt
  <2>5. Closed(2) = 0
    BY DEF Closed
  <2>6. m + Closed(2) <= 2 + x
    BY <2>1, <2>3, <2>4, <2>5
  <2>7. NamedAt(file_table', m, x, g)
    BY <1>4, <1>6, <1>7, <1>8, <2>6 DEF NamedAt
  <2> QED
    BY <1>2, <1>3, <1>7, <2>3, <2>7, NamedStep DEF m, x
<1>13. Types'
  BY <1>1, <1>4, <1>5, <1>7 DEF IInv, Types, Installed
<1>14. /\ CallOK(call', file_table', inode_bitmap', page')
       /\ DiskOK(page', dirent', inode_bitmap')
       /\ CountOK(page', file_table', call') /\ NamedOK(file_table', fd_table', forks')
  BY <1>1, <1>4, <1>10, <1>12
<1> QED
  BY <1>11, <1>13, <1>14, IInvPrimed

\* fork adds to the count of an inode what it adds to its references.
LEMMA CountsUpdated ==
    ASSUME IInv, NEW p \in Proc, NEW a \in Page
    PROVE  LET rec == update_inode_open_cnts(fd_table[p])[a]
           IN  \/ rec = page[a]
               \/ /\ IsInode(page, a) /\ rec \in InodeRec
                  /\ rec.i_no = page[a].i_no /\ rec.listed = page[a].listed
                  /\ rec.i_open_cnts >= page[a].i_open_cnts
<1> DEFINE S == {fd \in Fd : /\ fd_table[p][fd] # FREE_FD
                             /\ ~is_pipe(fd_table[p][fd])
                             /\ file_table[fd_table[p][fd]].fd_inode = a}
           n == Cardinality(S)
           rec == update_inode_open_cnts(fd_table[p])[a]
<1>1. rec = IF n = 0 THEN page[a] ELSE [page[a] EXCEPT !.i_open_cnts = @ + n]
  BY DEF update_inode_open_cnts
<1>2. n \in Nat /\ (n # 0 => S # {})
  <2>1. S \in SUBSET Fd
    OBVIOUS
  <2> HIDE DEF S
  <2>2. IsFiniteSet(S)
    BY <2>1, SlotNumbers, FS_Subset
  <2> QED
    BY <2>2, FS_CardinalityType, FS_EmptySet
<1>3. ASSUME S # {} PROVE page[a] \in InodeRec /\ IsInode(page, a)
  <2>1. PICK fd \in Fd : /\ fd_table[p][fd] # FREE_FD
                         /\ ~is_pipe(fd_table[p][fd])
                         /\ file_table[fd_table[p][fd]].fd_inode = a
    BY <1>3
  <2>2. fd_table[p][fd] \in Slot
    BY <2>1 DEF IInv, Types, Descriptors
  <2>3. fd_table[p][fd] \in Sharing(file_table, a)
    BY <2>1, <2>2 DEF Sharing, is_pipe, PipeSlot
  <2>4. IsInode(page, a)
    BY <2>3, RefsUsed DEF IInv
  <2> QED
    BY <2>4, Kinds DEF IInv, Types
<1>4. CASE n = 0
  BY <1>1, <1>4
<1>5. CASE n # 0
  <2>1. page[a] \in InodeRec /\ IsInode(page, a)
    BY <1>2, <1>3, <1>5
  <2>2. rec = [page[a] EXCEPT !.i_open_cnts = @ + n]
    BY <1>1, <1>5
  <2> HIDE DEF n, rec
  <2>3. /\ rec \in InodeRec /\ rec.i_no = page[a].i_no /\ rec.listed = page[a].listed
        /\ rec.i_open_cnts >= page[a].i_open_cnts
    BY <1>2, <2>1, <2>2 DEF InodeRec
  <2> QED
    BY <2>1, <2>3 DEF rec
<1> QED
  BY <1>4, <1>5

LEMMA SysForkStep ==
    ASSUME Sequential, IInv, NEW p \in Proc, NEW c \in Proc, sys_fork(p, c)
    PROVE  IInv'
<1> DEFINE x == forks * Cardinality(Fd)
           f == Cardinality(Fd)
<1>1. /\ page \in Pages /\ file_table \in Slots /\ fd_table \in Descriptors
      /\ CountOK(page, file_table, call) /\ forks \in 0..MAX_FORK
      /\ DiskOK(page, dirent, inode_bitmap) /\ PipeOK(page, file_table)
      /\ NamedOK(file_table, fd_table, forks)
      /\ alive \in [Proc -> {"none", "live", "died"}]
  BY DEF IInv, Types
<1>2. /\ forks < MAX_FORK /\ forks' = forks + 1
      /\ alive' = [alive EXCEPT ![c] = "live"]
      /\ fd_table' = [fd_table EXCEPT ![c] = fd_table[p]]
      /\ page' = update_inode_open_cnts(fd_table[p])
      /\ UNCHANGED <<file_table, dirent, inode_bitmap, call>>
  BY DEF sys_fork
<1>3. \A ft, bm, pgs : CallOK(call, ft, bm, pgs)
  BY QuietCalls DEF sys_fork
<1>4. /\ fd_table' \in Descriptors
      /\ \A h \in Slot : Cardinality(Named(fd_table', h)) <= Cardinality(Named(fd_table, h)) + f
  BY <1>1, <1>2, NamedFork
<1>5. ASSUME NEW a \in Page
      PROVE  \/ page'[a] = page[a]
             \/ /\ IsInode(page, a) /\ page'[a] \in InodeRec
                /\ page'[a].i_no = page[a].i_no /\ page'[a].listed = page[a].listed
                /\ page'[a].i_open_cnts >= page[a].i_open_cnts
  BY <1>2, CountsUpdated
<1>6. page' \in Pages
  <2>1. page' = [a \in Page |-> page'[a]]
    BY <1>2 DEF update_inode_open_cnts
  <2>2. \A a \in Page : page'[a] \in {FreePage, Queue} \cup InodeRec
    BY <1>1, <1>5 DEF Pages
  <2> QED
    BY <2>1, <2>2 DEF Pages
<1>7. \A a \in Page : /\ IsInode(page', a) <=> IsInode(page, a)
                      /\ page[a] = Queue => page'[a] = Queue
  BY <1>5, Kinds DEF IsInode
<1>8. RingsKept(page, page') /\ NoNewInode(page, page')
  <2>1. RingsKept(page, page')
    BY <1>7 DEF RingsKept
  <2>2. NoNewInode(page, page')
    BY <1>5, <1>7 DEF NoNewInode
  <2> QED
    BY <2>1, <2>2
<1>9. CountOK(page', file_table, call)
  <2> SUFFICES ASSUME NEW a \in Page PROVE CountAt(page', file_table, call, a)
    BY DEF CountOK
  <2>1. CountAt(page, file_table, call, a) /\ Refs(file_table, call, a) \in Nat
    BY <1>1, RefsNat DEF CountOK
  <2>2. CASE ~IsInode(page, a)
    BY <1>7, <2>1, <2>2 DEF CountAt
  <2>3. CASE IsInode(page, a)
    <3>1. /\ page[a] \in InodeRec /\ page'[a] \in InodeRec
          /\ page'[a].listed = page[a].listed
          /\ page'[a].i_open_cnts >= page[a].i_open_cnts
      <4>1. page[a] \in InodeRec
        BY <1>1, <2>3, Kinds
      <4>2. page[a].i_open_cnts \in Nat
        BY <4>1 DEF InodeRec
      <4> QED
        BY <1>5, <4>1, <4>2
    <3>2. page[a].i_open_cnts \in Nat /\ page'[a].i_open_cnts \in Nat
      BY <3>1 DEF InodeRec
    <3>3. Covers(page'[a], Refs(file_table, call, a))
      BY <2>1, <2>3, <3>1, <3>2 DEF CountAt, Covers
    <3> QED
      BY <1>7, <2>3, <3>3 DEF CountAt
  <2> QED
    BY <2>2, <2>3
<1>10. DiskOK(page', dirent, inode_bitmap) /\ PipeOK(page', file_table)
  BY <1>1, <1>8, DiskSame, PipesSame
<1>11. NamedOK(file_table, fd_table', forks')
  <2>1. f \in Nat /\ x \in Nat /\ forks \in Nat
    BY <1>1, SlotNumbers, Extra
  <2>2. forks' * f = x + f
    <3> HIDE DEF f
    <3>1. x = forks * f
      BY DEF f
    <3> HIDE DEF x
    <3> QED
      BY <1>2, <2>1, <3>1
  <2> SUFFICES ASSUME NEW h \in Slot
               PROVE  NamedAt(file_table, Cardinality(Named(fd_table', h)), x + f, h)
    BY <2>2 DEF NamedOK
  <2> DEFINE n == Cardinality(Named(fd_table, h))
             m == Cardinality(Named(fd_table', h))
             d == Closed(file_table[h].fd_pos)
  <2>3. n \in Nat /\ m \in Nat
    BY NamedFinite
  <2>4. m <= n + f
    BY <1>4
  <2>5. NamedAt(file_table, n, x, h)
    BY <1>1 DEF NamedOK
  <2>6. d \in Int
    BY <1>1, OpenFilesAssumption DEF Closed, Slots, SlotRec
  <2> HIDE DEF n, m, f, x
  <2>7. NamedAt(file_table, m, x + f, h)
    <3>1. n <= x => m <= x + f
      BY <2>1, <2>3, <2>4
    <3>2. n <= 1 + x => m <= 1 + (x + f)
      BY <2>1, <2>3, <2>4
    <3> HIDE DEF d
    <3>3. n + d <= 2 + x => m + d <= 2 + (x + f)
      BY <2>1, <2>3, <2>4, <2>6
    <3> QED
      BY <2>5, <3>1, <3>2, <3>3 DEF NamedAt, d
  <2> QED
    BY <2>7 DEF m
<1>12. Types'
  <2>1. forks' \in 0..MAX_FORK
    BY <1>1, <1>2, OpenFilesAssumption
  <2>2. alive' \in [Proc -> {"none", "live", "died"}]
    BY <1>1, <1>2
  <2> QED
    BY <1>2, <1>4, <1>6, <2>1, <2>2 DEF IInv, Types
<1>13. /\ CallOK(call', file_table', inode_bitmap', page')
       /\ DiskOK(page', dirent', inode_bitmap')
       /\ CountOK(page', file_table', call') /\ NamedOK(file_table', fd_table', forks')
       /\ PipeOK(page', file_table')
  BY <1>2, <1>3, <1>9, <1>10, <1>11
<1> QED
  BY <1>12, <1>13, IInvPrimed

----------------------------------------------------------------------------
(* The theorems *)

LEMMA Stutter ==
    ASSUME IInv, UNCHANGED vars
    PROVE  IInv'
<1>1. Types'
  BY DEF IInv, Types, vars
<1>2. /\ CallOK(call', file_table', inode_bitmap', page')
      /\ DiskOK(page', dirent', inode_bitmap')
      /\ CountOK(page', file_table', call')
      /\ PipeOK(page', file_table')
      /\ NamedOK(file_table', fd_table', forks')
  BY DEF IInv, vars
<1> QED
  BY <1>1, <1>2, IInvPrimed

\* The strengthening from which the properties follow, for every number of
\* processes, slots, descriptors and pages, as long as calls do not overlap.
THEOREM OpenFilesInvariant ==
    ASSUME Sequential
    PROVE  Spec => []IInv
<1>1. Init => IInv
  BY InitIInv
<1>2. IInv /\ [Next]_vars => IInv'
  <2> SUFFICES ASSUME IInv, Next PROVE IInv'
    BY Stutter
  <2>0. PICK p \in Proc :
            \/ \E n \in Name, flag \in Flags : file_open(p, n, flag)
            \/ inode_open_read(p)
            \/ file_open_refused(p)
            \/ file_open_install(p)
            \/ \E n \in Name, flag \in Flags : file_create(p, n, flag)
            \/ \E n \in Name : sys_remove(p, n)
            \/ \E fd \in Fd : file_close(p, fd) \/ pipe_close(p, fd)
            \/ sys_pipe(p)
            \/ sys_pipe_full(p)
            \/ \E c \in Proc : process_execute(p, c) \/ sys_fork(p, c)
            \/ thread_exit(p)
            \/ thread_cleaner(p)
    BY DEF Next
  <2>1. CASE \E n \in Name, flag \in Flags : file_open(p, n, flag)
    BY <2>1, FileOpenStep
  <2>2. CASE inode_open_read(p)
    BY <2>2, InodeOpenReadStep
  <2>3. CASE file_open_refused(p)
    BY <2>3, FileOpenRefusedStep
  <2>4. CASE file_open_install(p)
    BY <2>4, FileOpenInstallStep
  <2>5. CASE \E n \in Name, flag \in Flags : file_create(p, n, flag)
    BY <2>5, FileCreateStep
  <2>6. CASE \E n \in Name : sys_remove(p, n)
    BY <2>6, SysRemoveStep
  <2>7. CASE \E fd \in Fd : file_close(p, fd) \/ pipe_close(p, fd)
    BY <2>7, FileCloseStep, PipeCloseStep
  <2>8. CASE sys_pipe(p)
    BY <2>8, SysPipeStep
  <2>9. CASE sys_pipe_full(p)
    BY <2>9, SysPipeFullStep
  <2>10. CASE \E c \in Proc : process_execute(p, c) \/ sys_fork(p, c)
    BY <2>10, ProcessSteps, SysForkStep
  <2>11. CASE thread_exit(p)
    BY <2>11, ProcessSteps
  <2>12. CASE thread_cleaner(p)
    BY <2>12, ProcessSteps
  <2> QED
    BY <2>0, <2>1, <2>2, <2>3, <2>4, <2>5, <2>6, <2>7, <2>8, <2>9, <2>10, <2>11, <2>12
<1> QED
  BY <1>1, <1>2, PTL DEF Spec

\* Every slot holds a page or nothing, every descriptor a slot or nothing,
\* and fd_pos, which sys_close counts down below zero, stays a uint32_t.
THEOREM OpenFilesTypeCorrect ==
    ASSUME Sequential
    PROVE  Spec => []TypeOK
<1>1. IInv => TypeOK
  <2> SUFFICES ASSUME IInv PROVE TypeOK
    OBVIOUS
  <2>1. ASSUME NEW pg \in Page PROVE page[pg].kind \in {"free", "ioqueue", "inode"}
    BY Kinds DEF IInv, Types
  <2> QED
    BY <2>1 DEF TypeOK, IInv, Types, Slots, SlotRec, Descriptors
<1> QED
  BY <1>1, OpenFilesInvariant, PTL

\* inode_open never leaves two copies of an inode on the open list, whatever
\* is opened, created, removed and closed.
THEOREM OneCopyOfAnInode ==
    ASSUME Sequential
    PROVE  Spec => []OneInode
<1>1. IInv => OneInode
  BY DEF IInv, DiskOK, OneInode, IsInode
<1> QED
  BY <1>1, OpenFilesInvariant, PTL

\* inode_close never frees an inode that a slot still points to, and never
\* unlinks a second time one that sys_remove took off the list.
THEOREM InodesOutliveSlots ==
    ASSUME Sequential
    PROVE  Spec => []InodeOutlivesSlots
<1>1. IInv => InodeOutlivesSlots
  <2> SUFFICES ASSUME IInv, NEW g \in Slot, file_table[g].fd_inode # NULL, ~is_pipe(g)
               PROVE  LET pg == page[file_table[g].fd_inode]
                          sharing == {h \in Slot : ~is_pipe(h)
                                        /\ file_table[h].fd_inode = file_table[g].fd_inode}
                      IN  /\ pg.kind = "inode"
                          /\ pg.i_open_cnts >= Cardinality(sharing) + IF pg.listed THEN 0 ELSE 1
    BY DEF InodeOutlivesSlots
  <2> DEFINE a == file_table[g].fd_inode
             n == Cardinality(Sharing(file_table, a))
             rec == page[a]
  <2>1. a \in Page
    BY DEF IInv, Types, Slots, SlotRec
  <2>2. g \in Sharing(file_table, a)
    BY DEF Sharing, is_pipe, PipeSlot
  <2>3. IsInode(page, a) /\ Covers(page[a], Refs(file_table, call, a))
    BY <2>1, <2>2, RefsUsed DEF IInv
  <2>4. page[a] \in InodeRec
    BY <2>1, <2>3, Kinds DEF IInv, Types
  <2>5. rec.i_open_cnts \in Nat /\ n \in Nat /\ Refs(file_table, call, a) \in {n, n + 1}
    BY <2>4, RefsNat DEF InodeRec, Refs
  <2>6. Sharing(file_table, a) = {h \in Slot : ~is_pipe(h) /\ file_table[h].fd_inode = a}
    BY DEF Sharing, is_pipe, PipeSlot
  <2>7. IF rec.listed THEN rec.i_open_cnts >= n ELSE rec.i_open_cnts >= n + 1
    <3> HIDE DEF n
    <3> QED
      BY <2>3, <2>5 DEF Covers
  <2>8. rec.i_open_cnts >= n + (IF rec.listed THEN 0 ELSE 1)
    <3> HIDE DEF n, rec
    <3>1. CASE rec.listed
      BY <2>5, <2>7, <3>1
    <3>2. CASE ~rec.listed
      BY <2>5, <2>7, <3>2
    <3> QED
      BY <3>1, <3>2
  <2> QED
    BY <2>3, <2>6, <2>8 DEF IsInode
<1> QED
  BY <1>1, OpenFilesInvariant, PTL

\* Until somebody forks, descriptors share a slot only as the two ends of a
\* pipe, and the ring of a pipe lives as long as one end is open.
THEOREM DescriptorsStayPrivate ==
    ASSUME Sequential
    PROVE  Spec => []DescriptorsPrivate
<1>1. IInv => DescriptorsPrivate
  <2> SUFFICES ASSUME IInv, forks = 0, NEW g \in Slot, Users(g) # {}
               PROVE  /\ file_table[g].fd_inode # NULL
                      /\ Cardinality(Users(g)) <= IF is_pipe(g) THEN 2 ELSE 1
                      /\ is_pipe(g) => page[file_table[g].fd_inode] = Queue
    BY DEF DescriptorsPrivate
  <2> DEFINE n == Cardinality(Named(fd_table, g))
             u == Cardinality(Users(g))
             pos == file_table[g].fd_pos
  <2>1. Users(g) \in SUBSET Named(fd_table, g)
    BY DEF Users, Named
  <2>2. IsFiniteSet(Named(fd_table, g)) /\ n \in Nat
    BY NamedFinite
  <2>3. IsFiniteSet(Users(g)) /\ u <= n
    BY <2>1, <2>2, FS_Subset
  <2>4. u \in Nat /\ u # 0
    BY <2>3, FS_CardinalityType, FS_EmptySet
  <2>5. NamedAt(file_table, n, 0, g)
    <3>1. forks * Cardinality(Fd) = 0
      BY SlotNumbers
    <3> QED
      BY <3>1 DEF IInv, NamedOK
  <2>6. pos \in 0..UINT32_MAX /\ UINT32_MAX \in Nat
    BY OpenFilesAssumption DEF IInv, Types, Slots, SlotRec
  <2>7. is_pipe(g) <=> PipeSlot(file_table, g)
    BY DEF is_pipe, PipeSlot
  <2> HIDE DEF n, u
  <2>8. n >= 1
    BY <2>2, <2>3, <2>4
  <2>9. file_table[g].fd_inode # NULL
    BY <2>2, <2>5, <2>8 DEF NamedAt
  <2>10. CASE ~is_pipe(g)
    <3>1. n <= 1 + 0
      BY <2>5, <2>7, <2>9, <2>10 DEF NamedAt
    <3>2. u <= 1
      BY <2>2, <2>3, <2>4, <3>1
    <3> QED
      BY <2>9, <2>10, <3>2 DEF u
  <2>11. CASE is_pipe(g)
    <3>1. n + Closed(pos) <= 2 + 0
      BY <2>5, <2>7, <2>9, <2>11 DEF NamedAt
    <3> HIDE DEF pos
    <3>2. pos \in {1, 2} /\ n <= 2
      <4>1. CASE pos <= 2
        <5>1. Closed(pos) = 2 - pos
          BY <4>1 DEF Closed
        <5> QED
          BY <2>2, <2>6, <2>8, <3>1, <4>1, <5>1
      <4>2. CASE pos > 2
        <5>1. Closed(pos) = UINT32_MAX + 3 - pos
          BY <2>6, <4>2 DEF Closed
        <5> QED
          BY <2>2, <2>6, <2>8, <3>1, <4>2, <5>1
      <4> QED
        BY <2>6, <4>1, <4>2
    <3>3. u <= 2
      BY <2>2, <2>3, <2>4, <3>2
    <3>4. PipeOpen(file_table, g)
      BY <2>7, <2>11, <3>2 DEF PipeOpen, pos
    <3>5. page[file_table[g].fd_inode] = Queue
      BY <3>4 DEF IInv, PipeOK
    <3> QED
      BY <2>9, <2>11, <3>3, <3>5 DEF u
  <2> QED
    BY <2>10, <2>11
<1> QED
  BY <1>1, OpenFilesInvariant, PTL
=============================================================================
