------------------------------- MODULE Memory -------------------------------
(***************************************************************************)
(* Kernel memory: page allocation (memop/memory.c over memop/bitmap.c) and *)
(* the arenas of sys_malloc and sys_free, for kernel threads.              *)
(*                                                                         *)
(* kernel_pool.lock is held through each call, so a call is one step.  The *)
(* exception is the page taken for a user page table: page_table_add calls *)
(* palloc(&kernel_pool) under the lock of the user pool.  Here it is one   *)
(* step of its own; its race with a kernel allocation is not modelled, and *)
(* neither are the page directories, whose addresses lie outside of the    *)
(* kernel's bitmap.  A failed ASSERT stops the machine.  A call that       *)
(* returns NULL changes nothing and is no step.                            *)
(***************************************************************************)
EXTENDS Naturals, Sequences, FiniteSets, FiniteSetsExt

CONSTANTS
    Pages,             \* bits of kernel_vaddr.vaddr_bitmap and of pool_bitmap
    Desc,              \* block size classes, k_block_descs
    blocks_per_arena   \* blocks in the page of an arena of each class

ASSUME MemoryAssumption ==
    /\ Pages \in Nat \ {0}
    /\ blocks_per_arena \in [Desc -> Nat \ {0}]

NULL == Pages      \* no frame
Bit == 0..(Pages - 1)

VARIABLES
    vaddr_bitmap, pool_bitmap,   \* sets of used bits
    pte,                         \* kernel page -> frame, or NULL if not present
    arena,                       \* what the first words of a mapped page hold
    free_list,                   \* class -> sequence of blocks <<page, idx>>
    runs,                        \* pages handed out by get_kernel_pages: <<page, cnt>>
    blocks,                      \* blocks handed out by sys_malloc
    tables,                      \* frames used for user page tables
    panic

vars == <<vaddr_bitmap, pool_bitmap, pte, arena, free_list, runs, blocks, tables, panic>>

NoArena == [kind |-> "none"]
Large(cnt) == [kind |-> "large", cnt |-> cnt]
Small(d, cnt) == [kind |-> "small", desc |-> d, cnt |-> cnt]

Init ==
    /\ vaddr_bitmap = {} /\ pool_bitmap = {}
    /\ pte = [v \in Bit |-> NULL]
    /\ arena = [v \in Bit |-> NoArena]
    /\ free_list = [d \in Desc |-> <<>>]
    /\ runs = {} /\ blocks = {} /\ tables = {}
    /\ panic = FALSE

----------------------------------------------------------------------------
(* bitmap_scan *)

\* The bit behind the last one is looked at too; what is read there is chance.
Cleared(used, past) == (Bit \cup (IF past THEN {} ELSE {Pages})) \ used

\* Number of free bits that end at bit n, counted from the first free bit
CountAt(used, past, first) ==
    LET count[n \in first..Pages] ==
            IF n = first THEN 1
            ELSE IF n \in Cleared(used, past) THEN count[n - 1] + 1 ELSE 0
    IN  count

\* Results besides a bit: -1, and an ASSERT that fails
NotFound == Pages + 1
Failed == Pages + 2

FirstFree(used) == Min(Bit \ used)

\* mutant: the run is reported where it ends
scan_run_end(used, past, cnt) ==
    LET count == CountAt(used, past, FirstFree(used))
        ends == {n \in (FirstFree(used) + 1)..Pages : count[n] = cnt}
    IN  IF ends = {} THEN NotFound
        ELSE IF Min(ends) = Pages THEN Failed ELSE Min(ends)

\* mutant: the ASSERT on bit_left is missing
scan_run_unchecked(used, past, cnt) ==
    LET count == CountAt(used, past, FirstFree(used))
        ends == {n \in (FirstFree(used) + 1)..Pages : count[n] = cnt}
    IN  IF ends = {} THEN NotFound ELSE Min(ends) - cnt + 1

\* The loop for cnt > 1.  bit_left has reached 0 exactly when the run was
\* completed by the bit behind the end, and that trips the last ASSERT.
scan_run(used, past, cnt) ==
    LET count == CountAt(used, past, FirstFree(used))
        ends == {n \in (FirstFree(used) + 1)..Pages : count[n] = cnt}
    IN  IF ends = {} THEN NotFound
        ELSE IF Min(ends) = Pages THEN Failed ELSE Min(ends) - cnt + 1

\* A full bitmap fails the first ASSERT; -1 is returned only for cnt > 1.
bitmap_scan(used, past, cnt) ==
    IF Bit \subseteq used THEN Failed
    ELSE IF cnt = 1 THEN FirstFree(used)
    ELSE scan_run(used, past, cnt)

----------------------------------------------------------------------------
(* Pages *)

Halt == panic' = TRUE /\ UNCHANGED <<vaddr_bitmap, pool_bitmap, pte, arena,
                                     free_list, runs, blocks, tables>>

\* palloc for each page of a run in turn: the lowest frame that is still free
palloc(cnt) ==
    LET frame[i \in 1..cnt] ==
            Min((Bit \ pool_bitmap) \ {frame[j] : j \in 1..(i - 1)})
    IN  frame

\* malloc_page(PF_KERNEL, cnt) at page v: bits set, frames mapped in order
malloc_page(v, cnt) ==
    LET frame == palloc(cnt)
    IN  /\ vaddr_bitmap' = vaddr_bitmap \cup v..(v + cnt - 1)
        /\ pool_bitmap' = pool_bitmap \cup {frame[i] : i \in 1..cnt}
        /\ pte' = [u \in Bit |-> IF u \in v..(v + cnt - 1) THEN frame[u - v + 1]
                                 ELSE pte[u]]

\* The page finally used, NotFound if vaddr_get fails, Failed if any bitmap
\* scan on the way does (too few frames included)
PageFor(past, cnt) ==
    LET v == bitmap_scan(vaddr_bitmap, past, cnt)
    IN  IF v \in Bit /\ Cardinality(Bit \ pool_bitmap) < cnt THEN Failed ELSE v

\* What is done to the pages ps that are given back
pfree(ps) == pool_bitmap' = pool_bitmap \ {pte[u] : u \in ps}

page_table_pte_remove(ps) ==
    /\ pte' = [u \in Bit |-> IF u \in ps THEN NULL ELSE pte[u]]
    /\ arena' = [u \in Bit |-> IF u \in ps THEN NoArena ELSE arena[u]]

vaddr_remove(ps) == vaddr_bitmap' = vaddr_bitmap \ ps

mfree_page_keeps_bit(v, cnt) ==   \* mutant: no vaddr_remove
    LET ps == v..(v + cnt - 1)
    IN  pfree(ps) /\ page_table_pte_remove(ps) /\ UNCHANGED vaddr_bitmap

mfree_page_one_more(v, cnt) ==   \* mutant: one page too many
    LET ps == v..Min({v + cnt, Pages - 1})
    IN  pfree(ps) /\ page_table_pte_remove(ps) /\ vaddr_remove(ps)

mfree_page(v, cnt) ==
    LET ps == v..(v + cnt - 1)
    IN  pfree(ps) /\ page_table_pte_remove(ps) /\ vaddr_remove(ps)

get_kernel_pages(past, cnt) ==
    /\ ~panic
    /\ LET v == PageFor(past, cnt)
       IN  \/ v = Failed /\ Halt
           \/ /\ v \in Bit
              /\ malloc_page(v, cnt)
              /\ arena' = [u \in Bit |-> IF u \in v..(v + cnt - 1) THEN NoArena
                                         ELSE arena[u]]
              /\ runs' = runs \cup {<<v, cnt>>}
              /\ UNCHANGED <<free_list, blocks, tables, panic>>

\* mfree_page called by the user of a run
free_kernel_pages(r) ==
    /\ ~panic
    /\ mfree_page(r[1], r[2])
    /\ runs' = runs \ {r}
    /\ UNCHANGED <<free_list, blocks, tables, panic>>

\* page_table_add of a user page whose page table does not exist yet
user_page_table ==
    /\ ~panic
    /\ \/ Bit \subseteq pool_bitmap /\ Halt
       \/ /\ ~(Bit \subseteq pool_bitmap)
          /\ LET f == Min(Bit \ pool_bitmap)
             IN  pool_bitmap' = pool_bitmap \cup {f} /\ tables' = tables \cup {f}
          /\ UNCHANGED <<vaddr_bitmap, pte, arena, free_list, runs, blocks, panic>>

----------------------------------------------------------------------------
(* sys_malloc, sys_free *)

\* sys_malloc of more than 1024 bytes: an arena of cnt pages.  size is less
\* than the pool's, but with the header it may need one page more than that.
sys_malloc_large(past, cnt) ==
    /\ ~panic
    /\ LET v == PageFor(past, cnt)
       IN  \/ v = Failed /\ Halt
           \/ /\ v \in Bit
              /\ malloc_page(v, cnt)
              /\ arena' = [u \in Bit |-> IF u = v THEN Large(cnt)
                                         ELSE IF u \in v..(v + cnt - 1) THEN NoArena
                                         ELSE arena[u]]
              /\ blocks' = blocks \cup {<<v, 0>>}
              /\ UNCHANGED <<free_list, runs, tables, panic>>

NewBlocks(v, d) == [i \in 1..blocks_per_arena[d] |-> <<v, i>>]

\* sys_malloc of a small block with a block of its class free
sys_malloc(d) ==
    /\ ~panic
    /\ free_list[d] # <<>>
    /\ LET b == Head(free_list[d])
       IN  /\ arena' = [arena EXCEPT ![b[1]].cnt = @ - 1]
           /\ blocks' = blocks \cup {b}
    /\ free_list' = [free_list EXCEPT ![d] = Tail(@)]
    /\ UNCHANGED <<vaddr_bitmap, pool_bitmap, pte, runs, tables, panic>>

\* ... and with none: a new arena, cut into blocks
sys_malloc_arena(past, d) ==
    /\ ~panic
    /\ free_list[d] = <<>>
    /\ LET v == PageFor(past, 1)
       IN  \/ v = Failed /\ Halt
           \/ /\ v \in Bit
              /\ malloc_page(v, 1)
              /\ arena' = [arena EXCEPT ![v] = Small(d, blocks_per_arena[d] - 1)]
              /\ free_list' = [free_list EXCEPT ![d] = Tail(NewBlocks(v, d))]
              /\ blocks' = blocks \cup {<<v, 1>>}
              /\ UNCHANGED <<runs, tables, panic>>

sys_free_large(b) ==
    /\ ~panic
    /\ arena[b[1]].kind = "large"
    /\ mfree_page(b[1], arena[b[1]].cnt)
    /\ blocks' = blocks \ {b}
    /\ UNCHANGED <<free_list, runs, tables, panic>>

\* list_remove of every block of page v
Without(s, v) ==
    LET kept[i \in 0..Len(s)] ==
            IF i = 0 THEN <<>>
            ELSE IF s[i][1] = v THEN kept[i - 1] ELSE Append(kept[i - 1], s[i])
    IN  kept[Len(s)]

\* mutant: the page is given back, its blocks stay on the free list
sys_free_blocks_left(d, v, s) == s

\* The blocks of an arena that has become free as a whole leave the list.
WithoutArena(d, v, s) == Without(s, v)

sys_free(b) ==
    /\ ~panic
    /\ arena[b[1]].kind = "small"
    /\ LET v == b[1]
           d == arena[v].desc
           whole == arena[v].cnt + 1 = blocks_per_arena[d]
           list == Append(free_list[d], b)
       IN  IF whole
           THEN /\ free_list' = [free_list EXCEPT ![d] = WithoutArena(d, v, list)]
                /\ mfree_page(v, 1)
           ELSE /\ free_list' = [free_list EXCEPT ![d] = list]
                /\ arena' = [arena EXCEPT ![v].cnt = @ + 1]
                /\ UNCHANGED <<vaddr_bitmap, pool_bitmap, pte>>
    /\ blocks' = blocks \ {b}
    /\ UNCHANGED <<runs, tables, panic>>

Next ==
    \/ \E past \in BOOLEAN :
          \/ \E cnt \in 1..Pages : get_kernel_pages(past, cnt)
          \/ \E cnt \in 1..(Pages + 1) : sys_malloc_large(past, cnt)
          \/ \E d \in Desc : sys_malloc_arena(past, d)
    \/ \E r \in runs : free_kernel_pages(r)
    \/ user_page_table
    \/ \E d \in Desc : sys_malloc(d)
    \/ \E b \in blocks : sys_free_large(b) \/ sys_free(b)

Spec == Init /\ [][Next]_vars

----------------------------------------------------------------------------
(* Properties *)

\* The bitmaps, the page table, the free lists and the pages handed out stay
\* within the pool.
TypeOK ==
    /\ vaddr_bitmap \subseteq Bit /\ pool_bitmap \subseteq Bit
    /\ pte \in [Bit -> Bit \cup {NULL}]
    /\ \A d \in Desc : \A i \in DOMAIN free_list[d] : free_list[d][i][1] \in Bit
    /\ \A r \in runs : r[1] \in Bit
    /\ tables \subseteq Bit
    /\ panic \in BOOLEAN

\* What bitmap_scan is for: the first place with cnt free bits in a row.  In
\* every bitmap that allocating and freeing can produce it returns that place,
\* whatever it reads behind the end; it reports failure only if there is none,
\* and fails an ASSERT only if there is none either.
ScanFindsFirstFit ==
    \A cnt \in 1..Pages, past \in BOOLEAN :
        LET fits == {v \in Bit : v + cnt <= Pages
                        /\ (v..(v + cnt - 1)) \cap vaddr_bitmap = {}}
        IN  bitmap_scan(vaddr_bitmap, past, cnt)
               \in IF fits = {} THEN {NotFound, Failed} ELSE {Min(fits)}

\* Both bitmaps and the page table tell the same story: a page has its bit
\* exactly while it is mapped, no frame is mapped twice, and a used frame is
\* mapped or a page table.
MapConsistent ==
    /\ \A v \in Bit : v \in vaddr_bitmap <=> pte[v] # NULL
    /\ \A u, v \in Bit : pte[u] = pte[v] /\ pte[u] # NULL => u = v
    /\ pool_bitmap = tables \cup {pte[v] : v \in vaddr_bitmap}
    /\ tables \cap {pte[v] : v \in vaddr_bitmap} = {}

\* The pages a block lies in
Extent(b) == IF arena[b[1]].kind = "large" THEN b[1]..(b[1] + arena[b[1]].cnt - 1)
             ELSE {b[1]}

\* Whatever was handed out and not given back is mapped, and no two of them
\* share a page, unless they are different blocks of one arena.
NoOverlap ==
    /\ \A r \in runs : r[1]..(r[1] + r[2] - 1) \subseteq vaddr_bitmap
    /\ \A b \in blocks : Extent(b) \subseteq vaddr_bitmap
    /\ \A r, q \in runs : r # q =>
          (r[1]..(r[1] + r[2] - 1)) \cap (q[1]..(q[1] + q[2] - 1)) = {}
    /\ \A r \in runs, b \in blocks : (r[1]..(r[1] + r[2] - 1)) \cap Extent(b) = {}
    /\ \A b, c \in blocks : b # c /\ Extent(b) \cap Extent(c) # {} =>
          b[1] = c[1] /\ arena[b[1]].kind = "small"

\* The free lists hold blocks of live arenas of their class, each once and
\* none that is in use; the count of an arena is its number of free blocks,
\* and an arena without a block in use has been given back.
ArenaCounts ==
    /\ \A d \in Desc : \A i \in DOMAIN free_list[d] :
          LET b == free_list[d][i]
          IN  /\ b \notin blocks
              /\ b[1] \in vaddr_bitmap
              /\ arena[b[1]].kind = "small" /\ arena[b[1]].desc = d
              /\ \A j \in DOMAIN free_list[d] : free_list[d][j] = b => j = i
    /\ \A b \in blocks : arena[b[1]].kind = "small" =>
          LET a == arena[b[1]]
          IN  a.cnt = Cardinality({i \in DOMAIN free_list[a.desc] :
                                     free_list[a.desc][i][1] = b[1]})
    /\ \A d \in Desc : \A i \in DOMAIN free_list[d] :
          \E b \in blocks : b[1] = free_list[d][i][1]
=============================================================================
