-------------------------- MODULE FileBlocksProofs --------------------------
(***************************************************************************)
(* Proofs about FileBlocks, for every number of files, of direct blocks,   *)
(* of cells of a block and of blocks of the partition.                     *)
(*                                                                         *)
(* The argument follows a call through its blocks.  Good(st, ...) is what  *)
(* file_write keeps from one block to the next; Cut(st, ...) what the      *)
(* freeing loop of file_remove_some_content keeps; Done and Fits are what  *)
(* a call leaves.  Becomes(wr, t, old, new) says what the pending writes   *)
(* make of one target, and relates memory to the disk at every sector.     *)
(***************************************************************************)
EXTENDS FileBlocks, FiniteSetsExt, FiniteSetTheorems, TLAPS

----------------------------------------------------------------------------
(* Sets of numbers.                                                       *)

\* Min is the least member: the first free slot, page or bit.
LEMMA LeastMember ==
    ASSUME NEW S, S \subseteq Nat, S # {}
    PROVE  Min(S) \in S /\ \A y \in S : Min(S) <= y
<1> DEFINE R == OpToRel(<, Nat)
<1>1. IsWellFoundedOn(R, Nat)
  BY NatLessThanWellFounded
<1>2. \A x, y \in Nat : <<y, x>> \in R <=> y < x
  BY DEF OpToRel
<1> HIDE DEF R
<1>3. PICK x \in S : \A y \in S : ~(<<y, x>> \in R)
  BY <1>1, WFMin
<1>4. ASSUME NEW y \in S PROVE x <= y
  <2>1. x \in Nat /\ y \in Nat /\ ~(y < x)
    BY <1>2, <1>3
  <2> QED
    BY <2>1
<1> QED
  BY <1>3, <1>4 DEF Min

\* Max is the greatest member of a bounded set.
LEMMA GreatestMember ==
    ASSUME NEW n \in Nat, NEW s, s \subseteq 1..n, s # {}
    PROVE  Max(s) \in s /\ \A y \in s : Max(s) >= y
<1> DEFINE U == {m \in Nat : \A y \in s : m >= y}
<1>1. U \subseteq Nat /\ n \in U
  OBVIOUS
<1>2. Min(U) \in U /\ \A m \in U : Min(U) <= m
  BY <1>1, LeastMember
<1>3. PICK u \in Nat : (\A y \in s : u >= y) /\ \A m \in U : u <= m
  BY <1>2
<1>4. u \in s
  <2>1. SUFFICES ASSUME u \notin s PROVE FALSE
    OBVIOUS
  <2>2. \A y \in s : y \in Nat /\ y >= 1 /\ u - 1 >= y
    BY <1>3, <2>1
  <2>3. u - 1 \in Nat
    <3>1. PICK y \in s : TRUE
      OBVIOUS
    <3>2. y \in Nat /\ y >= 1 /\ u - 1 >= y
      BY <2>2
    <3> QED
      BY <1>3, <3>2
  <2>4. u <= u - 1
    BY <1>3, <2>2, <2>3
  <2> QED
    BY <1>3, <2>4
<1> HIDE DEF U
<1> QED
  BY <1>3, <1>4 DEF Max

\* Induction from a on, for the numbers in P.
LEMMA SetInduction ==
    ASSUME NEW P, NEW a \in Nat, a \in P,
           \A n \in Nat : n >= a /\ n \in P => n + 1 \in P
    PROVE  \A n \in Nat : n >= a => n \in P
<1> DEFINE B == {n \in Nat : n >= a /\ n \notin P}
<1> SUFFICES ASSUME B # {} PROVE FALSE
  OBVIOUS
<1>1. B \subseteq Nat
  OBVIOUS
<1>2. Min(B) \in B /\ \A y \in B : Min(B) <= y
  BY <1>1, LeastMember
<1> DEFINE m == Min(B)
<1>3. m \in Nat /\ m >= a /\ m \notin P /\ m # a
  BY <1>2
<1> HIDE DEF m
<1>4. m - 1 \in Nat /\ m - 1 >= a /\ m = (m - 1) + 1
  BY <1>3
<1>5. m - 1 \notin B
  <2>1. ~(m <= m - 1)
    BY <1>3
  <2> QED
    BY <1>2, <2>1 DEF m
<1>6. m - 1 \in P
  BY <1>4, <1>5
<1> QED
  BY <1>3, <1>4, <1>6

----------------------------------------------------------------------------

Ref == Block \cup {0}
Node == [i_size : 0..MAX_SIZE, i_sectors : [0..N_DIRECT -> Ref]]
Table == [0..(MAX_BLOCKS - 1) -> Ref]

DataWrite == [to : {"block"}, at : Block, val : Sector] \cup [to : {"bitmap"}, val : SUBSET Ref]
InodeWrite == [to : {"inode"}, at : File, val : Node]

\* What a write is to: the bitmap, a block or an inode
Aim(w) == IF w.to = "bitmap" THEN <<"bitmap", 0>> ELSE <<w.to, w.at>>

\* After the writes wr the target t, which holds old, holds new
Becomes(wr, t, old, new) ==
    \/ old = new /\ \A i \in 1..Len(wr) : Aim(wr[i]) # t
    \/ \E i \in 1..Len(wr) : /\ Aim(wr[i]) = t /\ wr[i].val = new
                             /\ \A j \in (i + 1)..Len(wr) : Aim(wr[j]) # t

----------------------------------------------------------------------------

\* Append, one element at a time.
LEMMA AppendOne ==
    ASSUME NEW S, NEW s \in Seq(S), NEW x \in S
    PROVE  /\ Append(s, x) \in Seq(S) /\ Len(Append(s, x)) = Len(s) + 1 /\ Len(s) \in Nat
           /\ \A i \in 1..Len(s) : Append(s, x)[i] = s[i]
           /\ Append(s, x)[Len(s) + 1] = x
OBVIOUS

\* Tail and Head of a sequence that is not empty.
LEMMA TailOne ==
    ASSUME NEW S, NEW s \in Seq(S), s # <<>>
    PROVE  /\ Tail(s) \in Seq(S) /\ Len(Tail(s)) = Len(s) - 1 /\ Len(s) \in Nat /\ Len(s) > 0
           /\ \A i \in 1..(Len(s) - 1) : Tail(s)[i] = s[i + 1]
           /\ Head(s) = s[1] /\ Head(s) \in S
OBVIOUS

\* No writes change nothing.
LEMMA BecomesNothing ==
    ASSUME NEW t, NEW old, NEW new
    PROVE  Becomes(<<>>, t, old, new) <=> old = new
<1>1. Len(<<>>) = 0 /\ 1..0 = {}
  OBVIOUS
<1> QED
  BY <1>1 DEF Becomes

\* One more write: its target holds what it writes, the others what they held.
LEMMA BecomesAppend ==
    ASSUME NEW S, NEW wr \in Seq(S), NEW w \in S, NEW t, NEW old, NEW new, NEW x,
           Becomes(wr, t, old, new),
           Aim(w) = t => x = w.val,
           Aim(w) # t => x = new
    PROVE  Becomes(Append(wr, w), t, old, x)
<1>1. PICK v : v = Append(wr, w)
  OBVIOUS
<1>2. PICK n \in Nat : n = Len(wr)
  BY AppendOne
<1>3. Len(v) = n + 1 /\ (\A i \in 1..n : v[i] = wr[i]) /\ v[n + 1] = w
  BY <1>1, <1>2, AppendOne
<1>4. CASE Aim(w) = t
  <2>1. n + 1 \in 1..(n + 1) /\ ((n + 1) + 1)..(n + 1) = {}
    OBVIOUS
  <2>2. Becomes(v, t, old, x)
    BY <1>3, <1>4, <2>1 DEF Becomes
  <2> QED
    BY <1>1, <2>2
<1>5. CASE Aim(w) # t
  <2>1. CASE old = new /\ \A i \in 1..n : Aim(wr[i]) # t
    <3>1. \A i \in 1..(n + 1) : Aim(v[i]) # t
      <4>1. \A i \in 1..(n + 1) : i \in 1..n \/ i = n + 1
        OBVIOUS
      <4> QED
        BY <4>1, <1>3, <1>5, <2>1
    <3>2. Becomes(v, t, old, x)
      BY <1>3, <1>5, <2>1, <3>1 DEF Becomes
    <3> QED
      BY <1>1, <3>2
  <2>2. CASE \E i \in 1..n : /\ Aim(wr[i]) = t /\ wr[i].val = new
                             /\ \A j \in (i + 1)..n : Aim(wr[j]) # t
    <3>1. PICK i \in 1..n : /\ Aim(wr[i]) = t /\ wr[i].val = new
                            /\ \A j \in (i + 1)..n : Aim(wr[j]) # t
      BY <2>2
    <3>2. \A j \in (i + 1)..(n + 1) : Aim(v[j]) # t
      <4>1. \A j \in (i + 1)..(n + 1) : (j \in (i + 1)..n /\ j \in 1..n) \/ j = n + 1
        OBVIOUS
      <4> QED
        BY <4>1, <3>1, <1>3, <1>5
    <3>3. i \in 1..(n + 1) /\ v[i] = wr[i]
      BY <1>3
    <3>4. Becomes(v, t, old, x)
      BY <1>3, <1>5, <3>1, <3>2, <3>3 DEF Becomes
    <3> QED
      BY <1>1, <3>4
  <2> QED
    BY <1>2, <2>1, <2>2 DEF Becomes
<1> QED
  BY <1>4, <1>5

\* The first write reaches the disk; the rest lead from there to the same contents.
LEMMA BecomesTail ==
    ASSUME NEW S, NEW wr \in Seq(S), wr # <<>>, NEW t, NEW old, NEW new, NEW x,
           Becomes(wr, t, old, new),
           Aim(Head(wr)) = t => x = Head(wr).val,
           Aim(Head(wr)) # t => x = old
    PROVE  Becomes(Tail(wr), t, x, new)
<1>1. PICK v : v = Tail(wr)
  OBVIOUS
<1>2. PICK n \in Nat : Len(wr) = n + 1
  <2>1. Len(wr) - 1 \in Nat /\ Len(wr) = (Len(wr) - 1) + 1
    BY TailOne
  <2> QED
    BY <2>1
<1>3. Len(v) = n /\ (\A i \in 1..n : v[i] = wr[i + 1]) /\ Head(wr) = wr[1]
  BY <1>1, <1>2, TailOne
<1>4. CASE old = new /\ \A i \in 1..(n + 1) : Aim(wr[i]) # t
  <2>1. \A i \in 1..n : i + 1 \in 1..(n + 1)
    OBVIOUS
  <2>2. 1 \in 1..(n + 1)
    OBVIOUS
  <2>3. Becomes(v, t, x, new)
    BY <1>3, <1>4, <2>1, <2>2 DEF Becomes
  <2> QED
    BY <1>1, <2>3
<1>5. CASE \E i \in 1..(n + 1) : /\ Aim(wr[i]) = t /\ wr[i].val = new
                                 /\ \A j \in (i + 1)..(n + 1) : Aim(wr[j]) # t
  <2>1. PICK i \in 1..(n + 1) : /\ Aim(wr[i]) = t /\ wr[i].val = new
                                /\ \A j \in (i + 1)..(n + 1) : Aim(wr[j]) # t
    BY <1>5
  <2>2. CASE i = 1
    <3>1. \A j \in 1..n : j + 1 \in (i + 1)..(n + 1)
      BY <2>2
    <3>2. x = new /\ \A j \in 1..n : Aim(v[j]) # t
      BY <1>3, <2>1, <2>2, <3>1
    <3>3. Becomes(v, t, x, new)
      BY <1>3, <3>2 DEF Becomes
    <3> QED
      BY <1>1, <3>3
  <2>3. CASE i # 1
    <3>1. PICK h \in 1..n : i = h + 1
      <4>1. i - 1 \in 1..n /\ i = (i - 1) + 1
        BY <2>3
      <4> QED
        BY <4>1
    <3>2. \A j \in (h + 1)..n : j + 1 \in (i + 1)..(n + 1) /\ j \in 1..n
      BY <3>1
    <3>3. \A j \in (h + 1)..n : Aim(v[j]) # t
      BY <1>3, <2>1, <3>2
    <3>4. v[h] = wr[i]
      BY <1>3, <3>1
    <3>5. Becomes(v, t, x, new)
      BY <1>3, <2>1, <3>3, <3>4 DEF Becomes
    <3> QED
      BY <1>1, <3>5
  <2> QED
    BY <2>2, <2>3
<1> QED
  BY <1>2, <1>4, <1>5 DEF Becomes

----------------------------------------------------------------------------
(* The state of a call.                                                    *)

\* The places of a table
Slot == 0..(MAX_BLOCKS - 1)
St == [bits : SUBSET Ref, node : Node, all : Table, second : Ref,
       data : [Block -> Sector], wr : Seq(DataWrite)]

\* The sizes of an inode: N_DIRECT direct blocks, then a block of numbers.
LEMMA Sizes ==
    /\ N_DIRECT \in Nat \ {0} /\ BLOCK_SIZE \in Nat \ {0}
    /\ MAX_BLOCKS \in Nat /\ MAX_BLOCKS = N_DIRECT + BLOCK_SIZE
    /\ MAX_SIZE \in Nat /\ MAX_SIZE = MAX_BLOCKS * BLOCK_SIZE
    /\ N_DIRECT < MAX_BLOCKS /\ N_DIRECT \in Slot
    /\ Block \subseteq Nat \ {0} /\ 0 \notin Block
  BY FileBlocksAssumption DEF MAX_BLOCKS, MAX_SIZE, Slot

\* A sector of zeros is a sector.
LEMMA ZeroedSector == Zeroed \in Sector
  BY DEF Zeroed, Sector, Cell

\* A write to block 0, which no table names, does nothing in the model.
LEMMA IdeWriteNone ==
    ASSUME NEW st, NEW cells
    PROVE  ide_write(st, 0, cells) = st
  BY DEF ide_write

\* ide_write of a block: the data and one write more.
LEMMA IdeWrite ==
    ASSUME NEW st \in St, NEW b \in Block, NEW cells \in Sector, NEW r,
           r = ide_write(st, b, cells)
    PROVE  /\ r \in St
           /\ r.bits = st.bits /\ r.node = st.node /\ r.all = st.all /\ r.second = st.second
           /\ r.data = [st.data EXCEPT ![b] = cells]
           /\ r.wr = Append(st.wr, [to |-> "block", at |-> b, val |-> cells])
           /\ [to |-> "block", at |-> b, val |-> cells] \in DataWrite
<1> DEFINE w == [to |-> "block", at |-> b, val |-> cells]
<1>1. b # 0
  BY Sizes
<1>2. r = [st EXCEPT !.data[b] = cells, !.wr = Append(@, w)]
  BY <1>1 DEF ide_write
<1>3. w \in DataWrite
  BY DEF DataWrite
<1> HIDE DEF w
<1>4. Append(st.wr, w) \in Seq(DataWrite)
  BY <1>3 DEF St
<1>5. PICK a : a = Append(st.wr, w) /\ a \in Seq(DataWrite)
  BY <1>4
<1>6. PICK d \in [Block -> Sector] : d = [st.data EXCEPT ![b] = cells]
  BY DEF St
<1>7. r = [st EXCEPT !.data = d, !.wr = a]
  BY <1>2, <1>5, <1>6
<1>8. /\ r \in St
      /\ r.bits = st.bits /\ r.node = st.node /\ r.all = st.all /\ r.second = st.second
      /\ r.data = d /\ r.wr = a
  BY <1>5, <1>7 DEF St
<1> QED
  BY <1>3, <1>5, <1>6, <1>8 DEF w

\* bitmap_sync: one write of the bitmap as it is in memory.
LEMMA BitmapSync ==
    ASSUME NEW st \in St, NEW r, r = bitmap_sync(st)
    PROVE  /\ r \in St
           /\ r.bits = st.bits /\ r.node = st.node /\ r.all = st.all /\ r.second = st.second
           /\ r.data = st.data
           /\ r.wr = Append(st.wr, [to |-> "bitmap", val |-> st.bits])
           /\ [to |-> "bitmap", val |-> st.bits] \in DataWrite
<1> DEFINE w == [to |-> "bitmap", val |-> st.bits]
<1>2. r = [st EXCEPT !.wr = Append(@, w)]
  BY DEF bitmap_sync
<1>3. w \in DataWrite
  BY DEF DataWrite, St
<1> HIDE DEF w
<1>4. Append(st.wr, w) \in Seq(DataWrite)
  BY <1>3 DEF St
<1>5. PICK a : a = Append(st.wr, w) /\ a \in Seq(DataWrite)
  BY <1>4
<1>7. r = [st EXCEPT !.wr = a]
  BY <1>2, <1>5
<1>8. /\ r \in St
      /\ r.bits = st.bits /\ r.node = st.node /\ r.all = st.all /\ r.second = st.second
      /\ r.data = st.data /\ r.wr = a
  BY <1>5, <1>7 DEF St
<1> QED
  BY <1>3, <1>5, <1>8 DEF w

\* block_bitmap_alloc gives a block that is not marked, or none.
LEMMA FirstFreeIsFree ==
    ASSUME NEW bits
    PROVE  /\ FirstFree(bits) \in Ref
           /\ FirstFree(bits) # 0 => FirstFree(bits) \in Block \ bits
<1>1. CASE Block \subseteq bits
  BY <1>1 DEF FirstFree, Ref
<1>2. CASE ~(Block \subseteq bits)
  <2>1. Block \ bits \subseteq Nat /\ Block \ bits # {}
    BY <1>2, Sizes
  <2>2. Min(Block \ bits) \in Block \ bits
    BY <2>1, LeastMember
  <2> QED
    BY <1>2, <2>2 DEF FirstFree, Ref
<1> QED
  BY <1>1, <1>2

\* The block of numbers holds what the table holds from N_DIRECT on.
LEMMA IndexBlockSector ==
    ASSUME NEW st \in St
    PROVE  /\ IndexBlock(st) \in Sector
           /\ \A i \in 0..(BLOCK_SIZE - 1) : IndexBlock(st)[i] = st.all[N_DIRECT + i]
<1>1. \A i \in 0..(BLOCK_SIZE - 1) : N_DIRECT + i \in Slot
  BY Sizes DEF Slot
<1>2. \A i \in 0..(BLOCK_SIZE - 1) : st.all[N_DIRECT + i] \in Cell
  BY <1>1 DEF St, Table, Ref, Cell, Slot
<1> QED
  BY <1>2 DEF IndexBlock, Sector

\* The blocks of a table and its index are marked, kept apart from oth, and each is in one place.
Owned(all, second, bits, oth) ==
    /\ \A p \in Slot : all[p] # 0 => all[p] \in bits \ oth /\ all[p] # second
    /\ second # 0 => second \in bits \ oth
    /\ \A p, q \in Slot : all[p] = all[q] /\ p # q => all[p] = 0

\* The writes so far turn dat into data, leave oth alone, and mark at least low.
Written(wr, data, oth, dat, low) ==
    /\ \A b \in oth : data[b] = dat[b]
    /\ \A b \in Block : Becomes(wr, <<"block", b>>, dat[b], data[b])
    /\ \A i \in 1..Len(wr) :
           /\ wr[i].to = "block" => wr[i].at \notin oth
           /\ wr[i].to = "bitmap" => low \subseteq wr[i].val /\ wr[i].val \subseteq Block

\* The inode names what the table holds, the index block on the disk no more than that.
Linked(st) ==
    /\ st.second = st.node.i_sectors[N_DIRECT]
    /\ \A k \in 0..(N_DIRECT - 1) : st.all[k] = st.node.i_sectors[k]
    /\ st.second # 0 => \A i \in 0..(BLOCK_SIZE - 1) :
           st.data[st.second][i] # 0 => st.data[st.second][i] = st.all[N_DIRECT + i]

\* A file with an index has all its direct blocks, and an index that names none is on its way.
Shaped(st, end) ==
    st.second # 0 =>
        /\ \A k \in 0..(N_DIRECT - 1) : st.all[k] # 0
        /\ st.data[st.second][0] = 0 =>
               st.node.i_size > N_DIRECT * BLOCK_SIZE \/ end > N_DIRECT * BLOCK_SIZE

\* What the call has written, and the bitmap that leaves on the disk.
Out(st, oth, dat, low, old, now) ==
    /\ Written(st.wr, st.data, oth, dat, low)
    /\ Becomes(st.wr, <<"bitmap", 0>>, old, now)

\* What a call that writes keeps, once it has been through the blocks below m.
Good(st, oth, dat, low, m, end) ==
    /\ st \in St /\ 0 \notin st.bits
    /\ oth \subseteq low /\ low \subseteq st.bits
    /\ Owned(st.all, st.second, st.bits, oth)
    /\ Linked(st)
    /\ Shaped(st, end)
    /\ Out(st, oth, dat, low, low, st.bits)
    /\ \A j \in 0..(m - 1) : st.all[j] # 0

\* A block that is not another file's may be written.
LEMMA WrittenBlock ==
    ASSUME NEW wr \in Seq(DataWrite), NEW data \in [Block -> Sector], NEW oth, NEW dat, NEW low,
           Written(wr, data, oth, dat, low),
           NEW b \in Block, b \notin oth, NEW cells \in Sector,
           NEW w \in DataWrite, w = [to |-> "block", at |-> b, val |-> cells]
    PROVE  /\ Written(Append(wr, w), [data EXCEPT ![b] = cells], oth, dat, low)
           /\ \A old, new : Becomes(wr, <<"bitmap", 0>>, old, new)
                  => Becomes(Append(wr, w), <<"bitmap", 0>>, old, new)
<1>1. PICK v : v = Append(wr, w)
  OBVIOUS
<1>2. PICK n \in Nat : n = Len(wr)
  BY AppendOne
<1>3. Len(v) = n + 1 /\ (\A i \in 1..n : v[i] = wr[i]) /\ v[n + 1] = w
  BY <1>1, <1>2, AppendOne
<1>4. PICK d : d = [data EXCEPT ![b] = cells]
  OBVIOUS
<1>5. \A c \in Block : d[c] = IF c = b THEN cells ELSE data[c]
  BY <1>4
<1>6. Aim(w) = <<"block", b>> /\ w.val = cells /\ w.at = b /\ w.to = "block"
  BY DEF Aim
<1>7. ASSUME NEW c \in oth PROVE d[c] = dat[c]
  <2>1. c # b /\ data[c] = dat[c]
    BY <1>7 DEF Written
  <2> QED
    BY <1>4, <2>1
<1>8. ASSUME NEW c \in Block PROVE Becomes(v, <<"block", c>>, dat[c], d[c])
  <2>1. Becomes(wr, <<"block", c>>, dat[c], data[c])
    BY DEF Written
  <2>2. Aim(w) = <<"block", c>> => d[c] = w.val
    BY <1>5, <1>6
  <2>3. Aim(w) # <<"block", c>> => d[c] = data[c]
    BY <1>5, <1>6
  <2> QED
    BY <1>1, <2>1, <2>2, <2>3, BecomesAppend
<1>9. ASSUME NEW i \in 1..(n + 1)
      PROVE  /\ v[i].to = "block" => v[i].at \notin oth
             /\ v[i].to = "bitmap" => low \subseteq v[i].val /\ v[i].val \subseteq Block
  <2>1. CASE i = n + 1
    BY <2>1, <1>3, <1>6
  <2>2. CASE i # n + 1
    <3>1. i \in 1..n
      BY <2>2
    <3> QED
      BY <3>1, <1>2, <1>3 DEF Written
  <2> QED
    BY <2>1, <2>2
<1>10. Written(v, d, oth, dat, low)
  BY <1>3, <1>7, <1>8, <1>9 DEF Written
<1>11. ASSUME NEW old, NEW new, Becomes(wr, <<"bitmap", 0>>, old, new)
       PROVE  Becomes(v, <<"bitmap", 0>>, old, new)
  <2>1. Aim(w) # <<"bitmap", 0>>
    BY <1>6
  <2> QED
    BY <1>1, <1>11, <2>1, BecomesAppend
<1> QED
  BY <1>1, <1>4, <1>10, <1>11

\* A bitmap that marks at least low may be written.
LEMMA WrittenBitmap ==
    ASSUME NEW wr \in Seq(DataWrite), NEW data, NEW oth, NEW dat, NEW low, NEW high,
           Written(wr, data, oth, dat, high), low \subseteq high,
           NEW bits, low \subseteq bits, bits \subseteq Block, NEW now, NEW old,
           Becomes(wr, <<"bitmap", 0>>, old, now),
           NEW w \in DataWrite, w = [to |-> "bitmap", val |-> bits]
    PROVE  /\ Written(Append(wr, w), data, oth, dat, low)
           /\ Becomes(Append(wr, w), <<"bitmap", 0>>, old, bits)
<1>1. PICK v : v = Append(wr, w)
  OBVIOUS
<1>2. PICK n \in Nat : n = Len(wr)
  BY AppendOne
<1>3. Len(v) = n + 1 /\ (\A i \in 1..n : v[i] = wr[i]) /\ v[n + 1] = w
  BY <1>1, <1>2, AppendOne
<1>6. Aim(w) = <<"bitmap", 0>> /\ w.val = bits /\ w.to = "bitmap"
  BY DEF Aim
<1>8. ASSUME NEW c \in Block PROVE Becomes(v, <<"block", c>>, dat[c], data[c])
  <2>1. Becomes(wr, <<"block", c>>, dat[c], data[c])
    BY DEF Written
  <2>2. Aim(w) # <<"block", c>>
    BY <1>6
  <2> QED
    BY <1>1, <2>1, <2>2, BecomesAppend
<1>9. ASSUME NEW i \in 1..(n + 1)
      PROVE  /\ v[i].to = "block" => v[i].at \notin oth
             /\ v[i].to = "bitmap" => low \subseteq v[i].val /\ v[i].val \subseteq Block
  <2>1. CASE i = n + 1
    BY <2>1, <1>3, <1>6
  <2>2. CASE i # n + 1
    <3>1. i \in 1..n
      BY <2>2
    <3> QED
      BY <3>1, <1>2, <1>3 DEF Written
  <2> QED
    BY <2>1, <2>2
<1>10. Written(v, data, oth, dat, low)
  BY <1>3, <1>8, <1>9 DEF Written
<1>11. Becomes(v, <<"bitmap", 0>>, old, bits)
  BY <1>1, <1>6, BecomesAppend
<1> QED
  BY <1>1, <1>10, <1>11

\* A call writes a block that is its own.
LEMMA WriteStep ==
    ASSUME NEW st, NEW oth, NEW dat, NEW low, NEW old, NEW now, st \in St,
           Out(st, oth, dat, low, old, now),
           NEW b, b \in Block, b \notin oth, NEW cells, cells \in Sector, NEW r,
           r = ide_write(st, b, cells)
    PROVE  /\ r \in St
           /\ r.bits = st.bits /\ r.node = st.node /\ r.all = st.all /\ r.second = st.second
           /\ r.data = [st.data EXCEPT ![b] = cells]
           /\ Out(r, oth, dat, low, old, now)
<1>1. PICK w : w = [to |-> "block", at |-> b, val |-> cells]
  OBVIOUS
<1>2. /\ r \in St
      /\ r.bits = st.bits /\ r.node = st.node /\ r.all = st.all /\ r.second = st.second
      /\ r.data = [st.data EXCEPT ![b] = cells]
      /\ r.wr = Append(st.wr, w) /\ w \in DataWrite
  BY <1>1, IdeWrite
<1>3. st.wr \in Seq(DataWrite) /\ st.data \in [Block -> Sector]
  BY DEF St
<1>4. Written(st.wr, st.data, oth, dat, low) /\ Becomes(st.wr, <<"bitmap", 0>>, old, now)
  BY DEF Out
<1>5. /\ Written(Append(st.wr, w), [st.data EXCEPT ![b] = cells], oth, dat, low)
      /\ \A x, y : Becomes(st.wr, <<"bitmap", 0>>, x, y)
                  => Becomes(Append(st.wr, w), <<"bitmap", 0>>, x, y)
  BY <1>1, <1>2, <1>3, <1>4, WrittenBlock
<1>6. Becomes(Append(st.wr, w), <<"bitmap", 0>>, old, now)
  BY <1>4, <1>5
<1> QED
  BY <1>2, <1>5, <1>6 DEF Out

\* A bitmap between two others
Between(low, high, bits) == low \subseteq high /\ low \subseteq bits /\ bits \subseteq Block

\* A call writes the bitmap.
LEMMA SyncStep ==
    ASSUME NEW st, NEW oth, NEW dat, NEW high, NEW low, NEW old, NEW now, st \in St,
           Out(st, oth, dat, high, old, now), Between(low, high, st.bits), NEW r, r = bitmap_sync(st)
    PROVE  /\ r \in St
           /\ r.bits = st.bits /\ r.node = st.node /\ r.all = st.all /\ r.second = st.second
           /\ r.data = st.data
           /\ Out(r, oth, dat, low, old, st.bits)
<1>1. PICK w : w = [to |-> "bitmap", val |-> st.bits]
  OBVIOUS
<1>2. /\ r \in St
      /\ r.bits = st.bits /\ r.node = st.node /\ r.all = st.all /\ r.second = st.second
      /\ r.data = st.data
      /\ r.wr = Append(st.wr, w) /\ w \in DataWrite
  BY <1>1, BitmapSync
<1>3. st.wr \in Seq(DataWrite)
  BY DEF St
<1>4. Written(st.wr, st.data, oth, dat, high) /\ Becomes(st.wr, <<"bitmap", 0>>, old, now)
  BY DEF Out
<1>5. PICK bits : bits = st.bits /\ low \subseteq bits /\ bits \subseteq Block /\ low \subseteq high
  BY DEF Between
<1>6. /\ Written(Append(st.wr, w), st.data, oth, dat, low)
      /\ Becomes(Append(st.wr, w), <<"bitmap", 0>>, old, bits)
  BY <1>1, <1>2, <1>3, <1>4, <1>5, WrittenBitmap
<1> QED
  BY <1>2, <1>5, <1>6 DEF Out

\* A free block may be given to a place of the table.
LEMMA OwnedGive ==
    ASSUME NEW all \in Table, NEW second, NEW bits, NEW oth, oth \subseteq bits, 0 \notin bits,
           Owned(all, second, bits, oth), NEW k \in Slot, NEW b, b \notin bits, b # 0
    PROVE  Owned([all EXCEPT ![k] = b], second, bits \cup {b}, oth)
<1>0. PICK a : a = [all EXCEPT ![k] = b]
  OBVIOUS
<1>1. a = [all EXCEPT ![k] = b] /\ \A p \in Slot : a[p] = IF p = k THEN b ELSE all[p]
  BY <1>0 DEF Table, Slot
<1>2. second # b /\ \A p \in Slot : all[p] # b
  BY DEF Owned
<1>3. Owned(a, second, bits \cup {b}, oth)
  BY <1>1, <1>2 DEF Owned
<1> QED
  BY <1>1, <1>3

\* A table with fewer blocks has still one owner for each.
LEMMA OwnedLess ==
    ASSUME NEW all, NEW second, NEW bits, NEW oth, Owned(all, second, bits, oth),
           NEW a, NEW s, \A p \in Slot : a[p] # 0 => a[p] = all[p],
           s # 0 => s = second
    PROVE  Owned(a, s, bits, oth)
  BY DEF Owned

\* A block that is freed leaves the table and the bitmap together.
LEMMA OwnedFree ==
    ASSUME NEW all \in Table, NEW second, NEW bits, NEW oth, Owned(all, second, bits, oth),
           NEW j \in Slot
    PROVE  Owned([all EXCEPT ![j] = 0], second, bits \ {all[j]}, oth)
<1>0. PICK a : a = [all EXCEPT ![j] = 0]
  OBVIOUS
<1>1. a = [all EXCEPT ![j] = 0] /\ \A p \in Slot : a[p] = IF p = j THEN 0 ELSE all[p]
  BY <1>0 DEF Table, Slot
<1>3. Owned(a, second, bits \ {all[j]}, oth)
  BY <1>1 DEF Owned
<1> QED
  BY <1>1, <1>3

----------------------------------------------------------------------------
(* A block more.                                                           *)

\* The types and bounds that Good contains.
LEMMA GoodParts ==
    ASSUME NEW st, NEW oth, NEW dat, NEW low, NEW m, NEW end, Good(st, oth, dat, low, m, end)
    PROVE  /\ st \in St /\ st.bits \subseteq Block /\ 0 \notin st.bits
           /\ st.wr \in Seq(DataWrite) /\ st.data \in [Block -> Sector] /\ st.all \in Table
           /\ st.node \in Node /\ st.second \in Ref
           /\ st.node.i_sectors \in [0..N_DIRECT -> Ref] /\ st.node.i_size \in 0..MAX_SIZE
           /\ oth \subseteq low /\ low \subseteq st.bits /\ oth \subseteq st.bits
<1>1. st \in St /\ 0 \notin st.bits /\ oth \subseteq low /\ low \subseteq st.bits
  BY DEF Good
<1>2. st.bits \subseteq Ref /\ st.node \in Node /\ st.all \in Table /\ st.second \in Ref
      /\ st.wr \in Seq(DataWrite) /\ st.data \in [Block -> Sector]
  BY <1>1 DEF St
<1> QED
  BY <1>1, <1>2 DEF Ref, Node

\* file_write gives a direct block: bitmap and inode stay in step.
LEMMA GiveDirectGood ==
    ASSUME NEW st, NEW oth, NEW dat, NEW low, NEW k \in 0..(N_DIRECT - 1), NEW end,
           Good(st, oth, dat, low, k, end), st.all[k] = 0,
           NEW r, r = GiveDirect(st, k)
    PROVE  r \in St /\ (0 \in r.bits \/ Good(r, oth, dat, low, k + 1, end))
<1> USE Sizes
<1>1. /\ st \in St /\ st.bits \subseteq Block /\ 0 \notin st.bits
      /\ st.wr \in Seq(DataWrite) /\ st.data \in [Block -> Sector] /\ st.all \in Table
      /\ st.node \in Node /\ st.second \in Ref
      /\ st.node.i_sectors \in [0..N_DIRECT -> Ref] /\ st.node.i_size \in 0..MAX_SIZE
      /\ oth \subseteq low /\ low \subseteq st.bits /\ oth \subseteq st.bits
  BY GoodParts
<1>2. PICK b \in Ref : b = FirstFree(st.bits) /\ (b # 0 => b \in Block \ st.bits)
  BY FirstFreeIsFree
<1>3. k \in Slot /\ k \in 0..N_DIRECT /\ k # N_DIRECT /\ k \in 0..(MAX_BLOCKS - 1)
  BY DEF Slot
<1>4. PICK is \in [0..N_DIRECT -> Ref] : is = [st.node.i_sectors EXCEPT ![k] = b]
  BY <1>1, <1>3
<1>5. PICK nd \in Node : nd = [st.node EXCEPT !.i_sectors = is]
  BY <1>1, <1>4 DEF Node
<1>6. PICK a \in Table : a = [st.all EXCEPT ![k] = b]
  BY <1>1, <1>3 DEF Table
<1>7. PICK got : got = [st EXCEPT !.bits = @ \cup {b}, !.all[k] = b, !.node.i_sectors[k] = b]
  OBVIOUS
<1>8. got = [st EXCEPT !.bits = st.bits \cup {b}, !.all = a, !.node = nd]
  BY <1>4, <1>5, <1>6, <1>7
<1>9. /\ got \in St
      /\ got.bits = st.bits \cup {b} /\ got.all = a /\ got.node = nd /\ got.second = st.second
      /\ got.data = st.data /\ got.wr = st.wr
  BY <1>1, <1>2, <1>8 DEF St
<1>10. PICK w : w = ide_write(got, b, Zeroed)
  OBVIOUS
<1>11. r = bitmap_sync(w)
  BY <1>2, <1>7, <1>10 DEF GiveDirect
<1>12. CASE b = 0
  <2>1. w = got
    BY <1>10, <1>12, IdeWriteNone
  <2>2. r \in St /\ r.bits = got.bits
    BY <1>9, <1>11, <2>1, BitmapSync
  <2> QED
    BY <1>9, <1>12, <2>2
<1>13. CASE b # 0
  <2>1. b \in Block /\ b \notin st.bits /\ b \notin oth
    BY <1>1, <1>2, <1>13
  <2>2. Out(got, oth, dat, low, low, st.bits)
    BY <1>9 DEF Good, Out
  <2>3. /\ w \in St /\ w.bits = got.bits /\ w.node = got.node /\ w.all = got.all
        /\ w.second = got.second /\ w.data = [got.data EXCEPT ![b] = Zeroed]
        /\ Out(w, oth, dat, low, low, st.bits)
    BY <1>9, <1>10, <2>1, <2>2, ZeroedSector, WriteStep
  <2>4. Between(low, low, w.bits)
    BY <1>1, <1>9, <2>1, <2>3 DEF Between
  <2>5. /\ r \in St /\ r.bits = w.bits /\ r.node = w.node /\ r.all = w.all
        /\ r.second = w.second /\ r.data = w.data
        /\ Out(r, oth, dat, low, low, w.bits)
    <3>1. w \in St /\ Out(w, oth, dat, low, low, st.bits)
      BY <2>3
    <3> QED
      BY <1>11, <3>1, <2>4, SyncStep
  <2>6. /\ r \in St /\ r.bits = st.bits \cup {b} /\ r.node = nd /\ r.all = a
        /\ r.second = st.second /\ Out(r, oth, dat, low, low, r.bits)
    BY <1>9, <2>3, <2>5
  <2>8. Owned(r.all, r.second, r.bits, oth)
    <3>1. Owned(st.all, st.second, st.bits, oth)
      BY DEF Good
    <3>2. Owned(a, st.second, st.bits \cup {b}, oth)
      BY <1>1, <1>3, <1>6, <1>13, <2>1, <3>1, OwnedGive
    <3> QED
      BY <2>6, <3>2
  <2>9. st.second = 0
    BY DEF Good, Shaped
  <2>10. \A j \in 0..(N_DIRECT - 1) : a[j] = is[j]
    <3>1. \A j \in 0..(N_DIRECT - 1) : st.all[j] = st.node.i_sectors[j]
      BY DEF Good, Linked
    <3>2. \A j \in 0..(N_DIRECT - 1) : j \in 0..N_DIRECT /\ j \in 0..(MAX_BLOCKS - 1)
      OBVIOUS
    <3> QED
      BY <1>1, <1>4, <1>6, <3>1, <3>2 DEF Table
  <2>11. r.node.i_sectors = is
    BY <1>1, <1>5, <2>6 DEF Node
  <2>12. is[N_DIRECT] = st.second
    <3>1. st.second = st.node.i_sectors[N_DIRECT]
      BY DEF Good, Linked
    <3> QED
      BY <1>1, <1>3, <1>4, <3>1
  <2>13. Linked(r) /\ Shaped(r, end)
    BY <2>6, <2>9, <2>10, <2>11, <2>12 DEF Linked, Shaped
  <2>14. ASSUME NEW j \in 0..((k + 1) - 1) PROVE r.all[j] # 0
    <3>1. CASE j = k
      BY <1>1, <1>3, <1>6, <1>13, <2>6, <3>1 DEF Table
    <3>2. CASE j # k
      <4>1. j \in 0..(k - 1) /\ j \in 0..(MAX_BLOCKS - 1)
        BY <3>2
      <4>2. st.all[j] # 0
        BY <4>1 DEF Good
      <4> QED
        BY <1>1, <1>6, <2>6, <3>2, <4>1, <4>2 DEF Table
    <3> QED
      BY <3>1, <3>2
  <2>15. 0 \notin r.bits /\ low \subseteq r.bits
    BY <1>1, <1>13, <2>6
  <2> QED
    BY <1>1, <2>6, <2>8, <2>13, <2>14, <2>15 DEF Good
<1> QED
  BY <1>12, <1>13

\* ide_write keeps the types and the bitmap, for any block number.
LEMMA IdeWriteAny ==
    ASSUME NEW st, st \in St, NEW b, b \in Ref, NEW cells, cells \in Sector, NEW r,
           r = ide_write(st, b, cells)
    PROVE  r \in St /\ r.bits = st.bits
<1>1. CASE b = 0
  BY <1>1, IdeWriteNone
<1>2. CASE b # 0
  <2>1. b \in Block
    BY <1>2 DEF Ref
  <2>2. /\ r \in St
        /\ r.bits = st.bits /\ r.node = st.node /\ r.all = st.all /\ r.second = st.second
        /\ r.data = [st.data EXCEPT ![b] = cells]
        /\ r.wr = Append(st.wr, [to |-> "block", at |-> b, val |-> cells])
        /\ [to |-> "block", at |-> b, val |-> cells] \in DataWrite
    BY <2>1, IdeWrite
  <2> QED
    BY <2>2
<1> QED
  BY <1>1, <1>2

\* file_write gives block N_DIRECT and, before it, the index that names it.
LEMMA GiveFirstIndirectGood ==
    ASSUME NEW st, NEW oth, NEW dat, NEW low, NEW end, NEW third \in BOOLEAN,
           Good(st, oth, dat, low, N_DIRECT, end), st.all[N_DIRECT] = 0,
           third => end > N_DIRECT * BLOCK_SIZE,
           NEW r, r = GiveFirstIndirect(st, third)
    PROVE  r \in St /\ (0 \in r.bits \/ Good(r, oth, dat, low, N_DIRECT + 1, end))
<1> USE Sizes
<1>1. /\ st \in St /\ st.bits \subseteq Block /\ 0 \notin st.bits
      /\ st.wr \in Seq(DataWrite) /\ st.data \in [Block -> Sector] /\ st.all \in Table
      /\ st.node \in Node /\ st.second \in Ref
      /\ st.node.i_sectors \in [0..N_DIRECT -> Ref] /\ st.node.i_size \in 0..MAX_SIZE
      /\ oth \subseteq low /\ low \subseteq st.bits /\ oth \subseteq st.bits
  BY GoodParts
<1>2. PICK b \in Ref : b = FirstFree(st.bits) /\ (b # 0 => b \in Block \ st.bits)
  BY FirstFreeIsFree
<1>3. PICK s \in Ref : s = FirstFree(st.bits \cup {b}) /\ (s # 0 => s \in Block \ (st.bits \cup {b}))
  BY FirstFreeIsFree
<1>4. PICK x \in Ref : x = IF third THEN s ELSE b
  OBVIOUS
<1>5. PICK y \in Ref : y = IF third THEN b ELSE s
  OBVIOUS
<1>6. PICK a : a = [k \in DOMAIN st.all |-> IF k < N_DIRECT THEN st.all[k]
                              ELSE IF k > N_DIRECT THEN 0
                              ELSE IF third THEN s ELSE b]
  OBVIOUS
<1>7. /\ a \in Table /\ a[N_DIRECT] = x
      /\ \A k \in Slot : (k < N_DIRECT => a[k] = st.all[k]) /\ (k > N_DIRECT => a[k] = 0)
  <2>0. st.all \in [Slot -> Ref] /\ \A k \in Slot : k \in Int
    BY <1>1 DEF Table, Slot
  <2>1. DOMAIN st.all = Slot /\ \A k \in Slot : st.all[k] \in Ref /\ k \in Int
    BY <2>0
  <2>2. \A k \in Slot : a[k] = IF k < N_DIRECT THEN st.all[k] ELSE IF k > N_DIRECT THEN 0 ELSE x
    BY <1>4, <1>6, <2>1
  <2>3. DOMAIN a = Slot /\ a = [k \in Slot |-> a[k]]
    BY <1>6, <2>1
  <2>4. \A k \in Slot : a[k] \in Ref
    BY <2>1, <2>2 DEF Ref
  <2>5. a \in [Slot -> Ref]
    BY <2>3, <2>4
  <2> QED
    BY <2>2, <2>5, <2>1 DEF Table, Slot
<1>8. PICK is \in [0..N_DIRECT -> Ref] : is = [st.node.i_sectors EXCEPT ![N_DIRECT] = y]
  BY <1>1
<1>9. PICK nd \in Node : nd = [st.node EXCEPT !.i_sectors = is]
  BY <1>1 DEF Node
<1>10. PICK got : got = [st EXCEPT !.bits = @ \cup {b, s},
                          !.second = IF third THEN b ELSE s,
                          !.all = [k \in DOMAIN @ |->
                              IF k < N_DIRECT THEN @[k]
                              ELSE IF k > N_DIRECT THEN 0
                              ELSE IF third THEN s ELSE b],
                          !.node.i_sectors[N_DIRECT] = IF third THEN b ELSE s]
  OBVIOUS
<1>11. got = [st EXCEPT !.bits = st.bits \cup {b, s}, !.second = y, !.all = a, !.node = nd]
  BY <1>5, <1>6, <1>8, <1>9, <1>10
<1>12. /\ got \in St
       /\ got.bits = st.bits \cup {b, s} /\ got.all = a /\ got.node = nd /\ got.second = y
       /\ got.data = st.data /\ got.wr = st.wr
  <2>1. st.bits \cup {b, s} \in SUBSET Ref
    BY <1>1 DEF St
  <2>2. PICK bb \in SUBSET Ref : bb = st.bits \cup {b, s}
    BY <2>1
  <2> QED
    BY <1>1, <1>7, <1>11, <2>2 DEF St
<1>13. PICK w1 : w1 = ide_write(got, s, IndexBlock(got))
  OBVIOUS
<1>14. PICK w2 : w2 = ide_write(w1, b, Zeroed)
  OBVIOUS
<1>15. PICK w3 : w3 = bitmap_sync(w2)
  OBVIOUS
<1>16. r = bitmap_sync(w3)
  BY <1>2, <1>3, <1>10, <1>13, <1>14, <1>15 DEF GiveFirstIndirect
<1>17. IndexBlock(got) \in Sector /\ \A i \in 0..(BLOCK_SIZE - 1) : IndexBlock(got)[i] = a[N_DIRECT + i]
  BY <1>12, IndexBlockSector
<1>18. CASE b = 0 \/ s = 0
  <2> HIDE Sizes
  <2>0. PICK ix : ix = IndexBlock(got) /\ ix \in Sector
    BY <1>17
  <2>1. w1 \in St /\ w1.bits = got.bits
    <3>1. w1 = ide_write(got, s, ix) /\ got \in St
      BY <1>12, <1>13, <2>0
    <3> QED
      BY <2>0, <3>1, IdeWriteAny
  <2>2. w2 \in St /\ w2.bits = got.bits
    <3>1. PICK zs \in Sector : w2 = ide_write(w1, b, zs)
      BY <1>14, ZeroedSector
    <3>2. w2 \in St /\ w2.bits = w1.bits
      BY <2>1, <3>1, IdeWriteAny
    <3> QED
      BY <2>1, <3>2
  <2>3. w3 \in St /\ w3.bits = got.bits
    BY <2>2, <1>15, BitmapSync
  <2>4. r \in St /\ r.bits = got.bits
    BY <2>3, <1>16, BitmapSync
  <2> QED
    BY <1>12, <1>18, <2>4
<1>19. CASE b # 0 /\ s # 0
  <2>1. /\ b \in Block /\ b \notin st.bits /\ b \notin oth
        /\ s \in Block /\ s \notin st.bits /\ s \notin oth /\ s # b
    BY <1>1, <1>2, <1>3, <1>19
  <2>2. Out(got, oth, dat, low, low, st.bits)
    BY <1>12 DEF Good, Out
  <2>3. /\ w1 \in St /\ w1.bits = got.bits /\ w1.node = got.node /\ w1.all = got.all
        /\ w1.second = got.second /\ w1.data = [got.data EXCEPT ![s] = IndexBlock(got)]
        /\ Out(w1, oth, dat, low, low, st.bits)
    BY <1>12, <1>13, <1>17, <2>1, <2>2, WriteStep
  <2>4. /\ w2 \in St /\ w2.bits = w1.bits /\ w2.node = w1.node /\ w2.all = w1.all
        /\ w2.second = w1.second /\ w2.data = [w1.data EXCEPT ![b] = Zeroed]
        /\ Out(w2, oth, dat, low, low, st.bits)
    <3>1. w1 \in St /\ Out(w1, oth, dat, low, low, st.bits) /\ b \in Block /\ b \notin oth
      BY <2>1, <2>3
    <3> QED
      BY <1>14, <3>1, ZeroedSector, WriteStep
  <2>5. Between(low, low, w2.bits)
    BY <1>1, <1>12, <2>1, <2>3, <2>4 DEF Between
  <2>6. /\ w3 \in St /\ w3.bits = w2.bits /\ w3.node = w2.node /\ w3.all = w2.all
        /\ w3.second = w2.second /\ w3.data = w2.data
        /\ Out(w3, oth, dat, low, low, w2.bits)
    <3>1. w2 \in St /\ Out(w2, oth, dat, low, low, st.bits)
      BY <2>4
    <3> QED
      BY <1>15, <3>1, <2>5, SyncStep
  <2>7. /\ r \in St /\ r.bits = w3.bits /\ r.node = w3.node /\ r.all = w3.all
        /\ r.second = w3.second /\ r.data = w3.data
        /\ Out(r, oth, dat, low, low, w3.bits)
    <3>1. w3 \in St /\ Out(w3, oth, dat, low, low, w2.bits) /\ Between(low, low, w3.bits)
      BY <2>5, <2>6
    <3> QED
      BY <1>16, <3>1, SyncStep
  <2>8. /\ r \in St /\ r.bits = st.bits \cup {b, s} /\ r.node = nd /\ r.all = a
        /\ r.second = y /\ Out(r, oth, dat, low, low, r.bits)
    BY <1>12, <2>3, <2>4, <2>6, <2>7
  <2>9. r.data[s] = IndexBlock(got) /\ r.data[b] = Zeroed
    <3>1. w1.data \in [Block -> Sector] /\ got.data \in [Block -> Sector]
      BY <1>12, <2>3 DEF St
    <3>2. r.data = [w1.data EXCEPT ![b] = Zeroed] /\ w1.data = [got.data EXCEPT ![s] = IndexBlock(got)]
      BY <2>3, <2>4, <2>6, <2>7
    <3> QED
      BY <2>1, <3>1, <3>2
  <2>10. x # y /\ x # 0 /\ y # 0 /\ x \in {b, s} /\ y \in {b, s}
    BY <1>4, <1>5, <1>19, <2>1
  <2>11. Owned(r.all, r.second, r.bits, oth)
    <3>1. Owned(st.all, st.second, st.bits, oth)
      BY DEF Good
    <3>2. \A k \in Slot : a[k] # 0 => k = N_DIRECT \/ (k # N_DIRECT /\ a[k] = st.all[k])
      BY <1>7 DEF Slot
    <3>3. x \in (st.bits \cup {b, s}) \ oth /\ y \in (st.bits \cup {b, s}) \ oth
          /\ x \notin st.bits /\ y \notin st.bits
      BY <2>1, <2>10
    <3>4. Owned(a, y, st.bits \cup {b, s}, oth)
      BY <1>7, <2>10, <3>1, <3>2, <3>3 DEF Owned
    <3> QED
      BY <2>8, <3>4
  <2>12. is[N_DIRECT] = y /\ \A k \in 0..(N_DIRECT - 1) : is[k] = st.node.i_sectors[k]
    BY <1>1, <1>8
  <2>13. r.node.i_sectors = is
    BY <1>1, <1>9, <2>8 DEF Node
  <2>14. \A k \in 0..(N_DIRECT - 1) : k \in Slot /\ k < N_DIRECT /\ a[k] = st.all[k]
    BY <1>7 DEF Slot
  <2>15. \A k \in 0..(N_DIRECT - 1) : st.all[k] = st.node.i_sectors[k] /\ st.all[k] # 0
    BY DEF Good, Linked
  <2>16. \A i \in 0..(BLOCK_SIZE - 1) : r.data[y][i] # 0 => r.data[y][i] = a[N_DIRECT + i]
    <3>1. CASE third
      <4>1. y = b
        BY <1>5, <3>1
      <4>2. \A i \in 0..(BLOCK_SIZE - 1) : Zeroed[i] = 0
        BY DEF Zeroed
      <4> QED
        BY <2>9, <4>1, <4>2
    <3>2. CASE ~third
      <4>1. y = s
        BY <1>5, <3>2
      <4> QED
        BY <1>17, <2>9, <4>1
    <3> QED
      BY <3>1, <3>2
  <2>17. r.data[y][0] = 0 => end > N_DIRECT * BLOCK_SIZE
    <3>1. CASE ~third
      <4>1. y = s /\ x = b
        BY <1>4, <1>5, <3>1
      <4>2. 0 \in 0..(BLOCK_SIZE - 1) /\ N_DIRECT + 0 = N_DIRECT
        OBVIOUS
      <4>3. IndexBlock(got)[0] = x
        BY <1>7, <1>17, <4>2
      <4> QED
        BY <2>9, <2>10, <4>1, <4>3
    <3> QED
      BY <3>1
  <2>18. Linked(r)
    BY <2>8, <2>12, <2>13, <2>14, <2>15, <2>16 DEF Linked
  <2>19. Shaped(r, end)
    BY <2>8, <2>14, <2>15, <2>17 DEF Shaped
  <2>20. \A j \in 0..((N_DIRECT + 1) - 1) : r.all[j] # 0
    <3>1. \A j \in 0..((N_DIRECT + 1) - 1) : j \in 0..(N_DIRECT - 1) \/ j = N_DIRECT
      OBVIOUS
    <3> QED
      BY <1>7, <2>8, <2>10, <2>14, <2>15, <3>1
  <2>21. 0 \notin r.bits /\ low \subseteq r.bits
    BY <1>1, <1>19, <2>8
  <2> QED
    BY <1>1, <2>8, <2>11, <2>18, <2>19, <2>20, <2>21 DEF Good
<1> QED
  BY <1>18, <1>19

\* file_write gives a block above N_DIRECT and writes the index.
LEMMA GiveIndirectGood ==
    ASSUME NEW st, NEW oth, NEW dat, NEW low, NEW k \in (N_DIRECT + 1)..(MAX_BLOCKS - 1), NEW end,
           Good(st, oth, dat, low, k, end), st.all[k] = 0,
           NEW r, r = GiveIndirect(st, k)
    PROVE  r \in St /\ (0 \in r.bits \/ Good(r, oth, dat, low, k + 1, end))
<1> USE Sizes
<1>1. /\ st \in St /\ st.bits \subseteq Block /\ 0 \notin st.bits
      /\ st.wr \in Seq(DataWrite) /\ st.data \in [Block -> Sector] /\ st.all \in Table
      /\ st.node \in Node /\ st.second \in Ref
      /\ st.node.i_sectors \in [0..N_DIRECT -> Ref] /\ st.node.i_size \in 0..MAX_SIZE
      /\ oth \subseteq low /\ low \subseteq st.bits /\ oth \subseteq st.bits
  BY GoodParts
<1>2. PICK b \in Ref : b = FirstFree(st.bits) /\ (b # 0 => b \in Block \ st.bits)
  BY FirstFreeIsFree
<1>3. k \in Slot /\ k > N_DIRECT /\ k \in 0..(MAX_BLOCKS - 1)
  BY DEF Slot
<1>6. PICK a \in Table : a = [st.all EXCEPT ![k] = b]
  BY <1>1, <1>3 DEF Table
<1>7. PICK got : got = [st EXCEPT !.bits = @ \cup {b}, !.all[k] = b]
  OBVIOUS
<1>8. got = [st EXCEPT !.bits = st.bits \cup {b}, !.all = a]
  BY <1>6, <1>7
<1>9. /\ got \in St
      /\ got.bits = st.bits \cup {b} /\ got.all = a /\ got.node = st.node /\ got.second = st.second
      /\ got.data = st.data /\ got.wr = st.wr
  BY <1>1, <1>2, <1>8 DEF St
<1>10. PICK w1 : w1 = ide_write(got, got.second, IndexBlock(got))
  OBVIOUS
<1>11. PICK w2 : w2 = ide_write(w1, b, Zeroed)
  OBVIOUS
<1>12. r = bitmap_sync(w2)
  BY <1>2, <1>7, <1>10, <1>11 DEF GiveIndirect
<1>13. IndexBlock(got) \in Sector /\ \A i \in 0..(BLOCK_SIZE - 1) : IndexBlock(got)[i] = a[N_DIRECT + i]
  BY <1>9, IndexBlockSector
<1>14. CASE b = 0
  <2>1. w1 \in St /\ w1.bits = got.bits
    <3>1. got.second \in Ref
      BY <1>1, <1>9
    <3> QED
      BY <1>9, <1>10, <1>13, <3>1, IdeWriteAny
  <2>2. w2 \in St /\ w2.bits = got.bits
    BY <2>1, <1>11, ZeroedSector, IdeWriteAny
  <2>3. r \in St /\ r.bits = got.bits
    BY <2>2, <1>12, BitmapSync
  <2> QED
    BY <1>9, <1>14, <2>3
<1>15. CASE b # 0
  <2>1. b \in Block /\ b \notin st.bits /\ b \notin oth
    BY <1>1, <1>2, <1>15
  <2>2. Owned(st.all, st.second, st.bits, oth)
    BY DEF Good
  <2>3. Out(got, oth, dat, low, low, st.bits)
    BY <1>9 DEF Good, Out
  <2>4. /\ w1 \in St /\ w1.bits = got.bits /\ w1.node = got.node /\ w1.all = got.all
        /\ w1.second = got.second /\ Out(w1, oth, dat, low, low, st.bits)
        /\ st.second # 0 => w1.data[st.second] = IndexBlock(got)
    <3>1. CASE st.second = 0
      <4>1. w1 = got
        BY <1>9, <1>10, <3>1, IdeWriteNone
      <4> QED
        BY <1>9, <2>3, <3>1, <4>1
    <3>2. CASE st.second # 0
      <4>1. got.second \in Block /\ got.second \notin oth
        BY <1>1, <1>9, <2>2, <3>2 DEF Owned
      <4>2. /\ w1 \in St /\ w1.bits = got.bits /\ w1.node = got.node /\ w1.all = got.all
            /\ w1.second = got.second /\ w1.data = [got.data EXCEPT ![got.second] = IndexBlock(got)]
            /\ Out(w1, oth, dat, low, low, st.bits)
        BY <1>9, <1>10, <1>13, <2>3, <4>1, WriteStep
      <4> QED
        BY <1>1, <1>9, <4>1, <4>2
    <3> QED
      BY <3>1, <3>2
  <2>5. /\ w2 \in St /\ w2.bits = w1.bits /\ w2.node = w1.node /\ w2.all = w1.all
        /\ w2.second = w1.second /\ w2.data = [w1.data EXCEPT ![b] = Zeroed]
        /\ Out(w2, oth, dat, low, low, st.bits)
    <3>1. w1 \in St /\ Out(w1, oth, dat, low, low, st.bits)
      BY <2>4
    <3> QED
      BY <1>11, <2>1, <3>1, ZeroedSector, WriteStep
  <2>6. Between(low, low, w2.bits)
    BY <1>1, <1>9, <2>1, <2>4, <2>5 DEF Between
  <2>7. /\ r \in St /\ r.bits = w2.bits /\ r.node = w2.node /\ r.all = w2.all
        /\ r.second = w2.second /\ r.data = w2.data
        /\ Out(r, oth, dat, low, low, w2.bits)
    <3>1. w2 \in St /\ Out(w2, oth, dat, low, low, st.bits)
      BY <2>5
    <3> QED
      BY <1>12, <3>1, <2>6, SyncStep
  <2>8. /\ r \in St /\ r.bits = st.bits \cup {b} /\ r.node = st.node /\ r.all = a
        /\ r.second = st.second /\ Out(r, oth, dat, low, low, r.bits)
    BY <1>9, <2>4, <2>5, <2>7
  <2>9. st.second # 0 => r.data[st.second] = IndexBlock(got)
    <3>1. SUFFICES ASSUME st.second # 0 PROVE r.data[st.second] = IndexBlock(got)
      OBVIOUS
    <3>2. st.second # b /\ st.second \in Block
      BY <1>1, <2>1, <2>2, <3>1 DEF Owned
    <3>3. w1.data \in [Block -> Sector] /\ r.data = [w1.data EXCEPT ![b] = Zeroed]
      BY <2>4, <2>5, <2>7 DEF St
    <3> QED
      BY <2>1, <2>4, <3>1, <3>2, <3>3
  <2>10. Owned(r.all, r.second, r.bits, oth)
    <3>2. Owned(a, st.second, st.bits \cup {b}, oth)
      BY <1>1, <1>3, <1>6, <1>15, <2>1, <2>2, OwnedGive
    <3> QED
      BY <2>8, <3>2
  <2>11. \A j \in Slot : j # k => a[j] = st.all[j]
    BY <1>1, <1>3, <1>6 DEF Table, Slot
  <2>12. a[k] = b
    BY <1>1, <1>3, <1>6 DEF Table
  <2>13. \A j \in 0..(N_DIRECT - 1) : j \in Slot /\ j # k /\ j \in 0..(k - 1)
    BY <1>3 DEF Slot
  <2>14. \A j \in 0..(k - 1) : st.all[j] # 0
    BY DEF Good
  <2>15. Linked(r)
    <3>1. Linked(st)
      BY DEF Good
    <3> QED
      BY <1>13, <2>8, <2>9, <2>11, <2>13, <3>1 DEF Linked
  <2>16. Shaped(r, end)
    <3>1. 0 \in 0..(BLOCK_SIZE - 1) /\ N_DIRECT + 0 = N_DIRECT /\ N_DIRECT \in 0..(k - 1)
          /\ N_DIRECT # k
      BY <1>3
    <3>2. IndexBlock(got)[0] # 0
      BY <1>13, <2>11, <2>14, <3>1
    <3> QED
      BY <2>8, <2>9, <2>11, <2>13, <2>14, <3>2 DEF Shaped
  <2>17. \A j \in 0..((k + 1) - 1) : r.all[j] # 0
    <3>1. \A j \in 0..((k + 1) - 1) : j = k \/ (j \in 0..(k - 1) /\ j \in Slot /\ j # k)
      BY <1>3 DEF Slot
    <3> QED
      BY <1>15, <2>8, <2>11, <2>12, <2>14, <3>1
  <2>18. 0 \notin r.bits /\ low \subseteq r.bits
    BY <1>1, <1>15, <2>8
  <2> QED
    BY <1>1, <2>8, <2>10, <2>15, <2>16, <2>17, <2>18 DEF Good
<1> QED
  BY <1>14, <1>15

\* Bytes of a block the file has are overwritten.
LEMMA OverwriteGood ==
    ASSUME NEW st, NEW oth, NEW dat, NEW low, NEW m, NEW end, Good(st, oth, dat, low, m, end),
           NEW k, k \in Slot, NEW off, NEW n, NEW v, v \in Cell,
           NEW r, r = Overwrite(st, k, off, n, v)
    PROVE  /\ Good(r, oth, dat, low, m, end)
           /\ r.bits = st.bits /\ r.node = st.node /\ r.all = st.all /\ r.second = st.second
<1> USE Sizes
<1>1. /\ st \in St /\ st.bits \subseteq Block /\ 0 \notin st.bits
      /\ st.wr \in Seq(DataWrite) /\ st.data \in [Block -> Sector] /\ st.all \in Table
      /\ st.node \in Node /\ st.second \in Ref
      /\ st.node.i_sectors \in [0..N_DIRECT -> Ref] /\ st.node.i_size \in 0..MAX_SIZE
      /\ oth \subseteq low /\ low \subseteq st.bits /\ oth \subseteq st.bits
  BY GoodParts
<1>2. CASE st.all[k] = 0
  BY <1>2 DEF Overwrite
<1>3. CASE st.all[k] # 0
  <2>1. PICK b : b = st.all[k]
    OBVIOUS
  <2>2. Owned(st.all, st.second, st.bits, oth)
    BY DEF Good
  <2>3. b \in Block /\ b \notin oth /\ b # st.second /\ b # 0
    BY <1>1, <1>3, <2>1, <2>2 DEF Owned
  <2>4. PICK c : c = [i \in 0..(BLOCK_SIZE - 1) |->
             IF i \in off..(off + n - 1) THEN v ELSE st.data[b][i]]
    OBVIOUS
  <2>5. c \in Sector
    <3>1. st.data[b] \in Sector
      BY <1>1, <2>3
    <3>2. \A i \in 0..(BLOCK_SIZE - 1) : st.data[b][i] \in Cell
      BY <3>1 DEF Sector
    <3>3. \A i \in 0..(BLOCK_SIZE - 1) : c[i] \in Cell
      BY <2>4, <3>2
    <3> QED
      BY <2>4, <3>3 DEF Sector
  <2>6. r = ide_write(st, b, c)
    BY <1>1, <1>3, <2>1, <2>4 DEF Overwrite
  <2>7. Out(st, oth, dat, low, low, st.bits)
    BY DEF Good
  <2>8. /\ r \in St
        /\ r.bits = st.bits /\ r.node = st.node /\ r.all = st.all /\ r.second = st.second
        /\ r.data = [st.data EXCEPT ![b] = c]
        /\ Out(r, oth, dat, low, low, st.bits)
    BY <1>1, <2>3, <2>5, <2>6, <2>7, WriteStep
  <2>9. st.second # 0 => r.data[st.second] = st.data[st.second]
    <3>1. st.second # 0 => st.second \in Block
      BY <1>1 DEF Ref
    <3> QED
      BY <1>1, <2>3, <2>8, <3>1
  <2>10. Linked(r) /\ Shaped(r, end)
    BY <2>8, <2>9 DEF Good, Linked, Shaped
  <2>11. \A j \in 0..(m - 1) : st.all[j] # 0
    BY DEF Good
  <2> QED
    BY <1>1, <2>2, <2>8, <2>10, <2>11 DEF Good
<1> QED
  BY <1>2, <1>3

\* Any of the three ways of giving a block.
LEMMA GiveGood ==
    ASSUME NEW st, NEW oth, NEW dat, NEW low, NEW k, k \in Slot, NEW end, NEW third \in BOOLEAN,
           Good(st, oth, dat, low, k, end),
           third /\ k = N_DIRECT => end > N_DIRECT * BLOCK_SIZE,
           NEW r, r = Give(st, k, third)
    PROVE  r \in St /\ (0 \in r.bits \/ Good(r, oth, dat, low, k + 1, end))
<1> USE Sizes
<1>1. st \in St /\ 0 \notin st.bits
  BY GoodParts
<1>2. k \in Nat /\ k < MAX_BLOCKS
  BY DEF Slot
<1>3. CASE st.all[k] # 0
  <2>1. r = st
    BY <1>3 DEF Give
  <2>2. \A j \in 0..((k + 1) - 1) : j = k \/ j \in 0..(k - 1)
    BY <1>2
  <2>3. Good(st, oth, dat, low, k + 1, end)
    BY <1>3, <2>2 DEF Good
  <2> QED
    BY <1>1, <2>1, <2>3
<1>4. CASE st.all[k] = 0 /\ k < N_DIRECT
  <2>1. r = GiveDirect(st, k)
    BY <1>1, <1>4 DEF Give
  <2>2. k \in 0..(N_DIRECT - 1)
    BY <1>2, <1>4
  <2> QED
    BY <1>4, <2>1, <2>2, GiveDirectGood
<1>5. CASE st.all[k] = 0 /\ k = N_DIRECT
  <2>1. r = GiveFirstIndirect(st, third)
    BY <1>1, <1>5 DEF Give
  <2>2. Good(st, oth, dat, low, N_DIRECT, end) /\ st.all[N_DIRECT] = 0
    BY <1>5
  <2>3. third => end > N_DIRECT * BLOCK_SIZE
    BY <1>5
  <2>4. r \in St /\ (0 \in r.bits \/ Good(r, oth, dat, low, N_DIRECT + 1, end))
    BY <2>1, <2>2, <2>3, GiveFirstIndirectGood
  <2> QED
    BY <1>5, <2>4
<1>6. CASE st.all[k] = 0 /\ k > N_DIRECT
  <2>1. r = GiveIndirect(st, k)
    BY <1>1, <1>2, <1>6 DEF Give
  <2>2. k \in (N_DIRECT + 1)..(MAX_BLOCKS - 1)
    BY <1>2, <1>6
  <2> QED
    BY <1>6, <2>1, <2>2, GiveIndirectGood
<1> QED
  BY <1>2, <1>3, <1>4, <1>5, <1>6

\* Division with remainder.
LEMMA Quotient ==
    ASSUME NEW n \in Nat, NEW d \in Nat \ {0}
    PROVE  /\ n \div d \in Nat /\ (n \div d) * d <= n /\ n < ((n \div d) + 1) * d
           /\ n % d \in 0..(d - 1)
OBVIOUS

\* Multiples of a number are in the order of their factors.
LEMMA Multiples ==
    ASSUME NEW p \in Nat, NEW q \in Nat, NEW d \in Nat \ {0}
    PROVE  (p * d < q * d => p < q) /\ (p <= q => p * d <= q * d) /\ p * d \in Nat
OBVIOUS

\* The last block that a write of bufsize bytes at offset touches
LastBlk(offset, bufsize) == Larger(offset, offset + bufsize - 1) \div BLOCK_SIZE

\* The last block a write touches: inside the inode, and past the first it is really reached.
LEMMA LastBlock ==
    ASSUME NEW offset \in Nat, NEW bufsize \in Nat
    PROVE  /\ LastBlk(offset, bufsize) \in Nat
           /\ offset < MAX_SIZE /\ offset + bufsize <= MAX_SIZE => LastBlk(offset, bufsize) < MAX_BLOCKS
           /\ \A k \in Nat : k <= LastBlk(offset, bufsize) /\ k > offset \div BLOCK_SIZE
                  => offset + bufsize > k * BLOCK_SIZE
<1> USE Sizes
<1>1. PICK e \in Nat : /\ e = Larger(offset, offset + bufsize - 1)
                       /\ (e = offset \/ e = offset + bufsize - 1)
                       /\ (offset < MAX_SIZE /\ offset + bufsize <= MAX_SIZE => e < MAX_SIZE)
  <2>1. CASE offset > offset + bufsize - 1
    BY <2>1 DEF Larger
  <2>2. CASE ~(offset > offset + bufsize - 1)
    BY <2>2 DEF Larger
  <2> QED
    BY <2>1, <2>2
<1>2. PICK l \in Nat : l = LastBlk(offset, bufsize) /\ l = e \div BLOCK_SIZE /\ l * BLOCK_SIZE <= e
  BY <1>1, Quotient DEF LastBlk
<1>3. ASSUME offset < MAX_SIZE, offset + bufsize <= MAX_SIZE PROVE l < MAX_BLOCKS
  <2>1. l * BLOCK_SIZE \in Nat /\ l * BLOCK_SIZE < MAX_BLOCKS * BLOCK_SIZE
    BY <1>1, <1>2, <1>3, Multiples
  <2> QED
    BY <2>1, Multiples
<1>4. ASSUME NEW k \in Nat, k <= l, k > offset \div BLOCK_SIZE
      PROVE  offset + bufsize > k * BLOCK_SIZE
  <2>1. e # offset
    BY <1>2, <1>4, Quotient
  <2>2. e = offset + bufsize - 1
    BY <1>1, <2>1
  <2>3. k * BLOCK_SIZE <= l * BLOCK_SIZE /\ k * BLOCK_SIZE \in Nat /\ l * BLOCK_SIZE \in Nat
    BY <1>4, Multiples
  <2>4. PICK x \in Nat, y \in Nat : x = k * BLOCK_SIZE /\ y = l * BLOCK_SIZE /\ x <= y /\ y <= e
    BY <1>2, <2>3
  <2>5. offset + bufsize > x
    BY <2>2, <2>4
  <2> QED
    BY <2>4, <2>5
<1> QED
  BY <1>2, <1>3, <1>4

\* A full bitmap stops the call: nothing more is done.
Stopped(st) == st \in St /\ 0 \in st.bits

\* One block of a write: the call goes on, or has stopped at a full disk.
LEMMA WriteBlockGood ==
    ASSUME NEW st, NEW oth, NEW dat, NEW low, NEW k, k \in Slot,
           NEW offset \in Nat, NEW bufsize \in Nat, NEW v, v \in Bytes, NEW end,
           end = offset + bufsize,
           k <= LastBlk(offset, bufsize),
           Stopped(st) \/ Good(st, oth, dat, low, k, end),
           NEW r, r = WriteBlock(st, k, offset, bufsize, v)
    PROVE  Stopped(r) \/ Good(r, oth, dat, low, k + 1, end)
<1> USE Sizes
<1>1. k \in Nat /\ v \in Cell
  BY DEF Slot, Cell
<1>0. PICK start \in Nat : start = offset \div BLOCK_SIZE
  BY Quotient
<1>2. PICK third \in BOOLEAN : /\ third <=> k > start
             /\ \/ r = Give(st, k, third)
                \/ \E off, n : r = Overwrite(Give(st, k, third), k, off, n, v)
  <2>1. CASE k < start
    <3>1. r = Give(st, k, FALSE) /\ ~(k > start)
      BY <1>0, <1>1, <2>1 DEF WriteBlock
    <3> QED
      BY <3>1
  <2>2. CASE k = start
    <3>1. r = Overwrite(Give(st, k, FALSE), k, offset % BLOCK_SIZE,
                       Smaller(bufsize, BLOCK_SIZE - (offset % BLOCK_SIZE)), v)
      <4>1. ~(k < start)
        BY <1>1, <2>2
      <4> HIDE Sizes
      <4> QED
        BY <1>0, <2>2, <4>1, Zenon DEF WriteBlock
    <3>2. ~(k > start)
      BY <1>1, <2>2
    <3> QED
      BY <3>1, <3>2
  <2>3. CASE k > start
    <3>1. r = Overwrite(Give(st, k, TRUE), k, 0,
                       Smaller((offset + bufsize) - k * BLOCK_SIZE, BLOCK_SIZE), v)
      <4>1. ~(k < start) /\ k # start
        BY <1>1, <2>3
      <4> HIDE Sizes
      <4> QED
        BY <1>0, <4>1, Zenon DEF WriteBlock
    <3> QED
      BY <2>3, <3>1
  <2> QED
    BY <1>1, <2>1, <2>2, <2>3
<1>3. PICK g : g = Give(st, k, third)
  OBVIOUS
<1>4. CASE Stopped(st)
  <2>1. g = st
    BY <1>3, <1>4 DEF Give, Stopped
  <2>2. r = st
    BY <1>2, <1>3, <1>4, <2>1 DEF Overwrite, Stopped
  <2> QED
    BY <1>4, <2>2
<1>5. CASE Good(st, oth, dat, low, k, end)
  <2>1. third /\ k = N_DIRECT => end > N_DIRECT * BLOCK_SIZE
    <3>1. SUFFICES ASSUME third, k = N_DIRECT PROVE end > N_DIRECT * BLOCK_SIZE
      OBVIOUS
    <3>2. k > start
      BY <1>2, <3>1
    <3>3. \A j \in Nat : j <= LastBlk(offset, bufsize) /\ j > offset \div BLOCK_SIZE
                  => offset + bufsize > j * BLOCK_SIZE
      BY LastBlock
    <3> QED
      BY <1>0, <1>1, <3>1, <3>2, <3>3
  <2>2. g \in St /\ (0 \in g.bits \/ Good(g, oth, dat, low, k + 1, end))
    BY <1>3, <1>5, <2>1, GiveGood
  <2>3. CASE 0 \in g.bits
    <3>1. r = g
      BY <1>2, <1>3, <2>3 DEF Overwrite
    <3> QED
      BY <2>2, <2>3, <3>1 DEF Stopped
  <2>4. CASE Good(g, oth, dat, low, k + 1, end)
    <3>1. CASE r = g
      BY <2>4, <3>1
    <3>2. CASE \E off, n : r = Overwrite(g, k, off, n, v)
      <4>1. PICK off, n : r = Overwrite(g, k, off, n, v)
        BY <3>2
      <4> QED
        BY <1>1, <2>4, <4>1, OverwriteGood
    <3> QED
      BY <1>2, <1>3, <3>1, <3>2
  <2> QED
    BY <2>2, <2>3, <2>4
<1> QED
  BY <1>4, <1>5

----------------------------------------------------------------------------
(* Calls that go from block to block.                                      *)

\* What is done with one block: a write, the zeroes of a cut in the middle, or its release.
Step(how, st, k) ==
    IF how.op = "write" THEN WriteBlock(st, k, how.offset, how.size, how.v)
    ELSE IF how.op = "zero" THEN ZeroBlock(st, k, how.offset, how.size)
    ELSE FreeBlock(st, k)

\* it[k] is what k steps of the loop make of base
Runs(it, base, c, n, how) ==
    it = [s \in SUBSET (1..n) |->
             IF s = {} THEN base ELSE Step(how, it[s \ {Max(s)}], c[Max(s)])]

\* The function that a fold defines exists, by induction over the length.
LEMMA RunsExist ==
    ASSUME NEW base, NEW c, NEW how, NEW n \in Nat
    PROVE  \E it : Runs(it, base, c, n, how)
<1> DEFINE P == {m \in Nat : \E it : Runs(it, base, c, m, how)}
<1>1. 0 \in P
  <2> DEFINE f == [s \in SUBSET (1..0) |-> base]
  <2>1. \A s \in SUBSET (1..0) : s = {}
    OBVIOUS
  <2>2. f = [s \in SUBSET (1..0) |->
               IF s = {} THEN base ELSE Step(how, f[s \ {Max(s)}], c[Max(s)])]
    BY <2>1
  <2>3. Runs(f, base, c, 0, how)
    BY <2>2 DEF Runs
  <2> QED
    BY <2>3
<1>2. ASSUME NEW m \in Nat, m \in P PROVE m + 1 \in P
  <2>1. PICK f : Runs(f, base, c, m, how)
    BY <1>2
  <2>2. \A s \in SUBSET (1..m) :
           f[s] = IF s = {} THEN base ELSE Step(how, f[s \ {Max(s)}], c[Max(s)])
    BY <2>1 DEF Runs
  <2> DEFINE g == [s \in SUBSET (1..(m + 1)) |->
                      IF m + 1 \in s THEN Step(how, f[s \ {m + 1}], c[m + 1]) ELSE f[s]]
  <2>3. ASSUME NEW s \in SUBSET (1..(m + 1))
        PROVE  g[s] = IF s = {} THEN base ELSE Step(how, g[s \ {Max(s)}], c[Max(s)])
    <3>1. CASE m + 1 \in s
      <4>1. Max(s) \in s /\ \A y \in s : Max(s) >= y
        <5>1. m + 1 \in Nat /\ s \subseteq 1..(m + 1) /\ s # {}
          BY <3>1
        <5> HIDE DEF g
        <5> QED
          BY <5>1, GreatestMember
      <4>2. Max(s) = m + 1
        <5>1. Max(s) >= m + 1 /\ Max(s) \in 1..(m + 1)
          BY <3>1, <4>1
        <5> HIDE DEF g
        <5> QED
          BY <5>1
      <4>3. s \ {m + 1} \in SUBSET (1..m) /\ s \ {m + 1} \in SUBSET (1..(m + 1))
        OBVIOUS
      <4>4. g[s \ {m + 1}] = f[s \ {m + 1}]
        BY <4>3
      <4>5. g[s] = Step(how, f[s \ {m + 1}], c[m + 1])
        BY <3>1
      <4> HIDE DEF g
      <4> QED
        BY <3>1, <4>2, <4>4, <4>5
    <3>2. CASE m + 1 \notin s
      <4>1. s \in SUBSET (1..m)
        BY <3>2
      <4>2. g[s] = f[s]
        BY <3>2
      <4>3. CASE s # {}
        <5>1. s \ {Max(s)} \in SUBSET (1..m) /\ s \ {Max(s)} \in SUBSET (1..(m + 1))
              /\ m + 1 \notin s \ {Max(s)}
          BY <3>2, <4>1
        <5>2. g[s \ {Max(s)}] = f[s \ {Max(s)}]
          BY <5>1
        <5> HIDE DEF g
        <5> QED
          BY <2>2, <4>1, <4>2, <4>3, <5>2
      <4> HIDE DEF g
      <4> QED
        BY <2>2, <4>1, <4>2, <4>3
    <3> QED
      BY <3>1, <3>2
  <2>4. g = [s \in SUBSET (1..(m + 1)) |->
                IF s = {} THEN base ELSE Step(how, g[s \ {Max(s)}], c[Max(s)])]
    <3>1. g = [s \in SUBSET (1..(m + 1)) |-> g[s]]
      OBVIOUS
    <3> HIDE DEF g
    <3> QED
      BY <2>3, <3>1
  <2>5. Runs(g, base, c, m + 1, how)
    BY <2>4 DEF Runs
  <2> QED
    BY <2>5
<1> HIDE DEF P
<1>3. \A m \in Nat : m >= 0 => m \in P
  BY <1>1, <1>2, SetInduction
<1> QED
  BY <1>3 DEF P

\* The state after the first m blocks.
LEMMA RunStep ==
    ASSUME NEW it, NEW base, NEW c, NEW how, NEW n \in Nat, Runs(it, base, c, n, how)
    PROVE  /\ it[1..0] = base
           /\ \A m \in 0..(n - 1) : it[1..(m + 1)] = Step(how, it[1..m], c[m + 1])
<1>1. it[1..0] = base
  <2>1. 1..0 = {} /\ 1..0 \in SUBSET (1..n)
    OBVIOUS
  <2> QED
    BY <2>1 DEF Runs
<1>2. ASSUME NEW h \in 0..(n - 1) PROVE it[1..(h + 1)] = Step(how, it[1..h], c[h + 1])
  <2>0. PICK m \in 1..n : m = h + 1 /\ (1..m) \ {m} = 1..h
    <3>1. h + 1 \in 1..n /\ (1..(h + 1)) \ {h + 1} = 1..h
      OBVIOUS
    <3> QED
      BY <3>1
  <2>1. 1..m \in SUBSET (1..n) /\ 1..m # {} /\ m \in 1..m /\ m \in Nat
    OBVIOUS
  <2>2. it[1..m] = Step(how, it[(1..m) \ {Max(1..m)}], c[Max(1..m)])
    BY <2>1 DEF Runs
  <2>3. Max(1..m) \in 1..m /\ \A y \in 1..m : Max(1..m) >= y
    BY <2>1, GreatestMember
  <2>4. Max(1..m) = m
    BY <2>1, <2>3
  <2> QED
    BY <2>0, <2>2, <2>4
<1> QED
  BY <1>1, <1>2

\* c counts n numbers from a
Counts(c, a, n) == c = Upto(a, a + n - 1)

\* Upto counts.
LEMMA UptoFacts ==
    ASSUME NEW a \in Nat, NEW n \in Nat, NEW c, Counts(c, a, n)
    PROVE  /\ DOMAIN c = 1..n /\ \A i \in 1..n : c[i] = a + i - 1
<1>1. (a + n - 1) - a + 1 = n
  OBVIOUS
<1> QED
  BY <1>1 DEF Upto, Counts

\* The three folds of the code.
WriteAll(base, c, offset, size, v) ==
    FoldLeft(LAMBDA st, k : WriteBlock(st, k, offset, size, v), base, c)
ZeroAll(base, c, offset, size) == FoldLeft(LAMBDA s, j : ZeroBlock(s, j, offset, size), base, c)
FreeAll(base, c) == FoldLeft(FreeBlock, base, c)

\* The blocks of a write, one after the other.
LEMMA WriteRuns ==
    ASSUME NEW base, NEW a \in Nat, NEW n \in Nat, NEW c, Counts(c, a, n), NEW offset, NEW size, NEW v,
           NEW how, how = [op |-> "write", offset |-> offset, size |-> size, v |-> v]
    PROVE  \E it : Runs(it, base, c, n, how) /\ WriteAll(base, c, offset, size, v) = it[1..n]
<1>0. DOMAIN c = 1..n
  BY UptoFacts
<1> DEFINE W(it) == it = [s \in SUBSET (1..n) |->
                IF s = {} THEN base ELSE WriteBlock(it[s \ {Max(s)}], c[Max(s)], offset, size, v)]
<1>2. \A st, k : Step(how, st, k) = WriteBlock(st, k, offset, size, v)
  BY DEF Step
<1>3. \A it : W(it) <=> Runs(it, base, c, n, how)
  BY <1>2 DEF Runs
<1>4. \E it : W(it)
  <2> HIDE DEF W
  <2> QED
    BY <1>3, RunsExist
<1>5. WriteAll(base, c, offset, size, v)
          = (CHOOSE it : it = [s \in SUBSET (DOMAIN c) |->
                IF s = {} THEN base ELSE WriteBlock(it[s \ {Max(s)}], c[Max(s)], offset, size, v)])[DOMAIN c]
  BY DEF FoldLeft, MapThenFoldSet, WriteAll
<1>6. WriteAll(base, c, offset, size, v) = (CHOOSE it : W(it))[1..n]
  BY <1>0, <1>5
<1>7. W(CHOOSE it : W(it))
  <2> HIDE DEF W
  <2> QED
    BY <1>4
<1> HIDE DEF W
<1> QED
  BY <1>3, <1>6, <1>7

\* The blocks that are cleared, one after the other.
LEMMA ZeroRuns ==
    ASSUME NEW base, NEW a \in Nat, NEW n \in Nat, NEW c, Counts(c, a, n), NEW offset, NEW size,
           NEW how, how = [op |-> "zero", offset |-> offset, size |-> size]
    PROVE  \E it : Runs(it, base, c, n, how) /\ ZeroAll(base, c, offset, size) = it[1..n]
<1>0. DOMAIN c = 1..n
  BY UptoFacts
<1> DEFINE W(it) == it = [s \in SUBSET (1..n) |->
                IF s = {} THEN base ELSE ZeroBlock(it[s \ {Max(s)}], c[Max(s)], offset, size)]
<1>2. \A st, k : Step(how, st, k) = ZeroBlock(st, k, offset, size)
  BY DEF Step
<1>3. \A it : W(it) <=> Runs(it, base, c, n, how)
  BY <1>2 DEF Runs
<1>4. \E it : W(it)
  <2> HIDE DEF W
  <2> QED
    BY <1>3, RunsExist
<1>5. ZeroAll(base, c, offset, size)
          = (CHOOSE it : it = [s \in SUBSET (DOMAIN c) |->
                IF s = {} THEN base ELSE ZeroBlock(it[s \ {Max(s)}], c[Max(s)], offset, size)])[DOMAIN c]
  BY DEF FoldLeft, MapThenFoldSet, ZeroAll
<1>6. ZeroAll(base, c, offset, size) = (CHOOSE it : W(it))[1..n]
  BY <1>0, <1>5
<1>7. W(CHOOSE it : W(it))
  <2> HIDE DEF W
  <2> QED
    BY <1>4
<1> HIDE DEF W
<1> QED
  BY <1>3, <1>6, <1>7

\* The blocks that are freed, one after the other.
LEMMA FreeRuns ==
    ASSUME NEW base, NEW a \in Nat, NEW n \in Nat, NEW c, Counts(c, a, n),
           NEW how, how = [op |-> "free"]
    PROVE  \E it : Runs(it, base, c, n, how) /\ FreeAll(base, c) = it[1..n]
<1>0. DOMAIN c = 1..n
  BY UptoFacts
<1> DEFINE W(it) == it = [s \in SUBSET (1..n) |->
                IF s = {} THEN base ELSE FreeBlock(it[s \ {Max(s)}], c[Max(s)])]
<1>2. \A st, k : Step(how, st, k) = FreeBlock(st, k)
  BY DEF Step
<1>3. \A it : W(it) <=> Runs(it, base, c, n, how)
  BY <1>2 DEF Runs
<1>4. \E it : W(it)
  <2> HIDE DEF W
  <2> QED
    BY <1>3, RunsExist
<1>5. FreeAll(base, c)
          = (CHOOSE it : it = [s \in SUBSET (DOMAIN c) |->
                IF s = {} THEN base ELSE FreeBlock(it[s \ {Max(s)}], c[Max(s)])])[DOMAIN c]
  BY DEF FoldLeft, MapThenFoldSet, FreeAll
<1>6. FreeAll(base, c) = (CHOOSE it : W(it))[1..n]
  BY <1>0, <1>5
<1>7. W(CHOOSE it : W(it))
  <2> HIDE DEF W
  <2> QED
    BY <1>4
<1> HIDE DEF W
<1> QED
  BY <1>3, <1>6, <1>7

----------------------------------------------------------------------------
(* What a call leaves.                                                     *)

\* What a call that has finished has written
Done(st, oth, dat, low) ==
    /\ st \in St /\ st.bits \subseteq Block
    /\ Out(st, oth, dat, low \cap st.bits, low, st.bits)

\* The inode and the sectors of a file: its blocks are its own.
Shape(node, data) ==
    node.i_sectors[N_DIRECT] # 0 =>
        /\ \A k \in 0..(N_DIRECT - 1) : node.i_sectors[k] # 0
        /\ data[node.i_sectors[N_DIRECT]][0] = 0 => node.i_size > N_DIRECT * BLOCK_SIZE
Fits(node, data, bits, oth) ==
    /\ oth \subseteq bits
    /\ Owned(all_blocks(node, data), node.i_sectors[N_DIRECT], bits, oth)
    /\ Shape(node, data)

\* all_blocks: the direct blocks of the inode, then those of the index.
LEMMA AllBlocks ==
    ASSUME NEW node, NEW data
    PROVE  /\ \A k \in 0..(N_DIRECT - 1) : all_blocks(node, data)[k] = node.i_sectors[k]
           /\ node.i_sectors[N_DIRECT] = 0 =>
                  \A k \in N_DIRECT..(MAX_BLOCKS - 1) : all_blocks(node, data)[k] = 0
           /\ node.i_sectors[N_DIRECT] # 0 =>
                  \A k \in N_DIRECT..(MAX_BLOCKS - 1) : all_blocks(node, data)[k]
                      = data[node.i_sectors[N_DIRECT]][k - N_DIRECT]
<1> USE Sizes
<1>1. PICK a : a = all_blocks(node, data)
  OBVIOUS
<1>2. \A k \in 0..(MAX_BLOCKS - 1) : a[k] = IF k < N_DIRECT THEN node.i_sectors[k] ELSE IndexOf(node, data, k)
  BY <1>1 DEF all_blocks
<1>3. \A k \in 0..(N_DIRECT - 1) : k \in 0..(MAX_BLOCKS - 1) /\ k < N_DIRECT
  OBVIOUS
<1>4. \A k \in N_DIRECT..(MAX_BLOCKS - 1) : k \in 0..(MAX_BLOCKS - 1) /\ ~(k < N_DIRECT)
  OBVIOUS
<1>5. \A k \in N_DIRECT..(MAX_BLOCKS - 1) : a[k] = IndexOf(node, data, k)
  BY <1>2, <1>4
<1>6. \A k \in 0..(N_DIRECT - 1) : a[k] = node.i_sectors[k]
  BY <1>2, <1>3
<1> HIDE Sizes
<1> QED
  BY <1>1, <1>5, <1>6 DEF IndexOf

\* A write that has been through all its blocks leaves a sound file.
LEMMA GoodFits ==
    ASSUME NEW st, NEW oth, NEW dat, NEW low, NEW m, NEW end \in Nat, Good(st, oth, dat, low, m, end),
           NEW node, node \in Node, node.i_sectors = st.node.i_sectors,
           node.i_size >= st.node.i_size, node.i_size >= end
    PROVE  Done(st, oth, dat, low) /\ Fits(node, st.data, st.bits, oth)
<1> USE Sizes
<1>1. /\ st \in St /\ st.bits \subseteq Block /\ 0 \notin st.bits
      /\ st.wr \in Seq(DataWrite) /\ st.data \in [Block -> Sector] /\ st.all \in Table
      /\ st.node \in Node /\ st.second \in Ref
      /\ st.node.i_sectors \in [0..N_DIRECT -> Ref] /\ st.node.i_size \in 0..MAX_SIZE
      /\ oth \subseteq low /\ low \subseteq st.bits /\ oth \subseteq st.bits
  BY GoodParts
<1>2. low \cap st.bits = low
  BY <1>1
<1>3. Done(st, oth, dat, low)
  BY <1>1, <1>2 DEF Good, Done
<1>4. PICK a : a = all_blocks(node, st.data)
  OBVIOUS
<1>5. Linked(st) /\ Shaped(st, end) /\ Owned(st.all, st.second, st.bits, oth)
  BY DEF Good
<1>6. st.second = node.i_sectors[N_DIRECT]
  BY <1>5 DEF Linked
<1>7. \A p \in Slot : a[p] # 0 => a[p] = st.all[p]
  <2>1. \A p \in Slot : p \in 0..(N_DIRECT - 1) \/ p \in N_DIRECT..(MAX_BLOCKS - 1)
    BY DEF Slot
  <2>2. \A p \in 0..(N_DIRECT - 1) : a[p] = st.all[p]
    BY <1>4, <1>5, AllBlocks DEF Linked
  <2>3. CASE st.second = 0
    <3>1. \A p \in N_DIRECT..(MAX_BLOCKS - 1) : a[p] = 0
      <4>1. node.i_sectors[N_DIRECT] = 0
        BY <1>6, <2>3
      <4> HIDE Sizes
      <4> QED
        BY <1>4, <4>1, AllBlocks
    <3> QED
      BY <2>1, <2>2, <3>1
  <2>4. CASE st.second # 0
    <3>1. \A p \in N_DIRECT..(MAX_BLOCKS - 1) : a[p] = st.data[st.second][p - N_DIRECT]
      BY <1>4, <1>6, <2>4, AllBlocks
    <3>2. \A p \in N_DIRECT..(MAX_BLOCKS - 1) : p - N_DIRECT \in 0..(BLOCK_SIZE - 1) /\ N_DIRECT + (p - N_DIRECT) = p
      OBVIOUS
    <3>3. \A i \in 0..(BLOCK_SIZE - 1) :
             st.data[st.second][i] # 0 => st.data[st.second][i] = st.all[N_DIRECT + i]
      BY <1>5, <2>4 DEF Linked
    <3>4. ASSUME NEW p \in N_DIRECT..(MAX_BLOCKS - 1), a[p] # 0 PROVE a[p] = st.all[p]
      BY <3>1, <3>2, <3>3, <3>4
    <3> QED
      BY <2>1, <2>2, <3>4
  <2> QED
    BY <2>3, <2>4
<1>8. Owned(a, st.second, st.bits, oth)
  <2> HIDE Sizes
  <2> QED
    BY <1>5, <1>7, OwnedLess
<1>9. Shape(node, st.data)
  <2>1. SUFFICES ASSUME st.second # 0
        PROVE  /\ \A k \in 0..(N_DIRECT - 1) : node.i_sectors[k] # 0
               /\ st.data[st.second][0] = 0 => node.i_size > N_DIRECT * BLOCK_SIZE
    BY <1>6 DEF Shape
  <2>2. \A k \in 0..(N_DIRECT - 1) : node.i_sectors[k] # 0
    BY <1>5, <2>1 DEF Linked, Shaped
  <2>3. st.data[st.second][0] = 0 =>
               st.node.i_size > N_DIRECT * BLOCK_SIZE \/ end > N_DIRECT * BLOCK_SIZE
    BY <1>5, <2>1 DEF Shaped
  <2>4. N_DIRECT * BLOCK_SIZE \in Nat /\ st.node.i_size \in Nat /\ node.i_size \in Nat
    BY <1>1 DEF Node
  <2>5. PICK x \in Nat, y \in Nat, z \in Nat : x = N_DIRECT * BLOCK_SIZE /\ y = st.node.i_size /\ z = node.i_size
    BY <2>4
  <2>6. z >= y /\ z >= end
    BY <2>5
  <2>7. y > x \/ end > x => z > x
    BY <2>5, <2>6
  <2> QED
    BY <2>2, <2>3, <2>5, <2>7
<1> QED
  BY <1>1, <1>3, <1>4, <1>6, <1>8, <1>9 DEF Fits

\* All blocks of a write.
LEMMA FileWriteBlocks ==
    ASSUME NEW base, NEW oth, NEW dat, NEW low, NEW offset \in Nat, NEW bufsize \in Nat,
           NEW v, v \in Bytes, NEW end, end = offset + bufsize,
           offset < MAX_SIZE, offset + bufsize <= MAX_SIZE,
           Good(base, oth, dat, low, 0, end),
           NEW r, r = WriteAll(base, Upto(0, LastBlk(offset, bufsize)), offset, bufsize, v)
    PROVE  Stopped(r) \/ \E m : Good(r, oth, dat, low, m, end)
<1> USE Sizes
<1>1. PICK l \in Nat : l = LastBlk(offset, bufsize) /\ l < MAX_BLOCKS
  BY LastBlock
<1>2. PICK n \in Nat : n = l + 1 /\ l = 0 + n - 1 /\ n <= MAX_BLOCKS
  BY <1>1
<1>3. PICK c : c = Upto(0, l) /\ Counts(c, 0, n)
  BY <1>2 DEF Counts
<1>4. PICK how : how = [op |-> "write", offset |-> offset, size |-> bufsize, v |-> v]
  OBVIOUS
<1>5. PICK it : Runs(it, base, c, n, how) /\ r = it[1..n]
  <2> HIDE Sizes
  <2>1. 0 \in Nat
    OBVIOUS
  <2>2. \E it : Runs(it, base, c, n, how) /\ WriteAll(base, c, offset, bufsize, v) = it[1..n]
    BY <1>3, <1>4, <2>1, WriteRuns
  <2> QED
    BY <1>1, <1>3, <2>2
<1>6. \A i \in 1..n : c[i] = 0 + i - 1
  BY <1>3, UptoFacts
<1>7. /\ it[1..0] = base
      /\ \A m \in 0..(n - 1) : it[1..(m + 1)] = Step(how, it[1..m], c[m + 1])
  BY <1>5, RunStep
<1>8. \A st, k : Step(how, st, k) = WriteBlock(st, k, offset, bufsize, v)
  BY <1>4 DEF Step
<1> DEFINE P == {m \in Nat : m <= n => Stopped(it[1..m]) \/ Good(it[1..m], oth, dat, low, m, end)}
<1>9. 0 \in P
  BY <1>7
<1>10. ASSUME NEW m \in Nat, m \in P PROVE m + 1 \in P
  <2>1. SUFFICES ASSUME m + 1 <= n
        PROVE Stopped(it[1..(m + 1)]) \/ Good(it[1..(m + 1)], oth, dat, low, m + 1, end)
    OBVIOUS
  <2>2. m \in 0..(n - 1) /\ m + 1 \in 1..n /\ 0 + (m + 1) - 1 = m /\ m \in Slot /\ m <= l
    BY <1>2, <2>1 DEF Slot
  <2>3. it[1..(m + 1)] = WriteBlock(it[1..m], m, offset, bufsize, v)
    BY <1>6, <1>7, <1>8, <2>2
  <2>4. PICK s, t : s = it[1..m] /\ t = it[1..(m + 1)]
    OBVIOUS
  <2>5. Stopped(s) \/ Good(s, oth, dat, low, m, end)
    BY <1>10, <2>1, <2>2, <2>4
  <2>6. m <= LastBlk(offset, bufsize) /\ t = WriteBlock(s, m, offset, bufsize, v)
    BY <1>1, <2>2, <2>3, <2>4
  <2> HIDE Sizes
  <2>7. Stopped(t) \/ Good(t, oth, dat, low, m + 1, end)
    BY <2>2, <2>5, <2>6, WriteBlockGood
  <2> QED
    BY <2>4, <2>7
<1> HIDE DEF P
<1>11. \A m \in Nat : m >= 0 => m \in P
  <2> HIDE Sizes
  <2> QED
    BY <1>9, <1>10, SetInduction
<1>12. n \in P /\ n <= n
  BY <1>11
<1> QED
  BY <1>5, <1>12 DEF P

\* All blocks that file_remove_some_content clears; none is given.
LEMMA ZeroBlocks ==
    ASSUME NEW base, NEW oth, NEW dat, NEW low, NEW offset \in Nat, NEW size \in Nat,
           offset + size < MAX_SIZE,
           Good(base, oth, dat, low, 0, 0),
           NEW r, r = ZeroAll(base, Upto(offset \div BLOCK_SIZE, (offset + size - 1) \div BLOCK_SIZE),
                              offset, size)
    PROVE  Good(r, oth, dat, low, 0, 0) /\ r.node = base.node
<1> USE Sizes
<1>1. PICK a \in Nat : a = offset \div BLOCK_SIZE
  BY Quotient
<1>2. PICK e \in Int : e = (offset + size - 1) \div BLOCK_SIZE /\ e >= a - 1 /\ e < MAX_BLOCKS
  <2>1. CASE offset + size = 0
    <3>1. offset = 0 /\ size = 0 /\ offset + size - 1 = -1
      BY <2>1
    <3>2. (-1) \div BLOCK_SIZE = -1
      OBVIOUS
    <3>3. a = 0
      BY <1>1, <3>1
    <3> QED
      BY <3>1, <3>2, <3>3
  <2>2. CASE offset + size # 0
    <3>1. PICK x \in Nat : x = offset + size - 1 /\ x >= offset - 1 /\ x < MAX_SIZE
      BY <2>2
    <3>2. PICK y \in Nat : y = x \div BLOCK_SIZE /\ y * BLOCK_SIZE <= x /\ x < (y + 1) * BLOCK_SIZE
      BY <3>1, Quotient
    <3>3. a * BLOCK_SIZE <= offset
      BY <1>1, Quotient
    <3>4. a * BLOCK_SIZE < (y + 2) * BLOCK_SIZE
      <4>1. PICK p \in Nat, q \in Nat : p = a * BLOCK_SIZE /\ q = (y + 1) * BLOCK_SIZE
        BY Multiples
      <4>2. (y + 2) * BLOCK_SIZE = q + BLOCK_SIZE
        BY <4>1
      <4>3. p <= q
        BY <3>1, <3>2, <3>3, <4>1
      <4> QED
        BY <4>1, <4>2, <4>3
    <3>5. a < y + 2
      BY <3>4, Multiples
    <3>6. y * BLOCK_SIZE < MAX_BLOCKS * BLOCK_SIZE
      BY <3>1, <3>2, Multiples
    <3>7. y < MAX_BLOCKS
      BY <3>6, Multiples
    <3> QED
      BY <3>1, <3>2, <3>5, <3>7
  <2> QED
    BY <2>1, <2>2
<1>3. PICK n \in Nat : n = e - a + 1 /\ e = a + n - 1 /\ a + n <= MAX_BLOCKS
  BY <1>2
<1>4. PICK c : c = Upto(a, e) /\ Counts(c, a, n)
  BY <1>3 DEF Counts
<1>5. PICK how : how = [op |-> "zero", offset |-> offset, size |-> size]
  OBVIOUS
<1>6. PICK it : Runs(it, base, c, n, how) /\ r = it[1..n]
  <2> HIDE Sizes
  <2>2. \E it : Runs(it, base, c, n, how) /\ ZeroAll(base, c, offset, size) = it[1..n]
    BY <1>4, <1>5, ZeroRuns
  <2> QED
    BY <1>1, <1>2, <1>4, <2>2
<1>7. \A i \in 1..n : c[i] = a + i - 1
  BY <1>4, UptoFacts
<1>8. /\ it[1..0] = base
      /\ \A m \in 0..(n - 1) : it[1..(m + 1)] = Step(how, it[1..m], c[m + 1])
  BY <1>6, RunStep
<1>9. \A st, k : Step(how, st, k) = ZeroBlock(st, k, offset, size)
  BY <1>5 DEF Step
<1> DEFINE P == {m \in Nat : m <= n => Good(it[1..m], oth, dat, low, 0, 0) /\ it[1..m].node = base.node}
<1>10. 0 \in P
  BY <1>8
<1>11. ASSUME NEW m \in Nat, m \in P PROVE m + 1 \in P
  <2>1. SUFFICES ASSUME m + 1 <= n
        PROVE Good(it[1..(m + 1)], oth, dat, low, 0, 0) /\ it[1..(m + 1)].node = base.node
    OBVIOUS
  <2>2. m \in 0..(n - 1) /\ m + 1 \in 1..n /\ a + (m + 1) - 1 = a + m /\ a + m \in Slot
    BY <1>3, <2>1 DEF Slot
  <2>3. it[1..(m + 1)] = ZeroBlock(it[1..m], a + m, offset, size)
    BY <1>7, <1>8, <1>9, <2>2
  <2>4. PICK s, t : s = it[1..m] /\ t = it[1..(m + 1)]
    OBVIOUS
  <2>5. Good(s, oth, dat, low, 0, 0) /\ s.node = base.node
    BY <1>11, <2>1, <2>2, <2>4
  <2>6. PICK off, len : t = Overwrite(s, a + m, off, len, 0)
    BY <2>3, <2>4, Zenon DEF ZeroBlock
  <2>7. 0 \in Cell
    BY DEF Cell
  <2> HIDE Sizes
  <2>8. Good(t, oth, dat, low, 0, 0) /\ t.node = s.node
    BY <2>2, <2>5, <2>6, <2>7, OverwriteGood
  <2> QED
    BY <2>4, <2>5, <2>8
<1> HIDE DEF P
<1>12. \A m \in Nat : m >= 0 => m \in P
  <2> HIDE Sizes
  <2> QED
    BY <1>10, <1>11, SetInduction
<1>13. n \in P /\ n <= n
  BY <1>12
<1> QED
  BY <1>6, <1>13 DEF P

----------------------------------------------------------------------------
(* A cut at the end.                                                       *)

\* The run that is freed ends at the first missing block.
LEMMA RunEnds ==
    ASSUME NEW st, NEW k \in Nat, k <= MAX_BLOCKS
    PROVE  \E e \in Nat : /\ k <= e /\ e <= MAX_BLOCKS
                          /\ e < MAX_BLOCKS => st.all[e] = 0
                          /\ \A j \in k..(e - 1) : st.all[j] # 0
                          /\ Cardinality(FreedRun(st, k)) = e - k
<1> USE Sizes
<1> DEFINE E == {j \in k..MAX_BLOCKS : j = MAX_BLOCKS \/ st.all[j] = 0}
<1>1. E \subseteq Nat /\ MAX_BLOCKS \in E
  OBVIOUS
<1>2. PICK e : e \in E /\ \A y \in E : e <= y
  <2> HIDE DEF E
  <2> HIDE Sizes
  <2> QED
    BY <1>1, LeastMember
<1>3. e \in Nat /\ k <= e /\ e <= MAX_BLOCKS
  BY <1>2
<1>4. e < MAX_BLOCKS => st.all[e] = 0
  BY <1>2, <1>3
<1>5. \A j \in k..(e - 1) : st.all[j] # 0
  <2>1. SUFFICES ASSUME NEW j \in k..(e - 1), st.all[j] = 0 PROVE FALSE
    OBVIOUS
  <2>2. j \in E
    BY <1>3, <2>1
  <2>3. e <= j
    BY <1>2, <1>3, <2>2
  <2> HIDE DEF E
  <2> QED
    BY <1>3, <2>3
<1> HIDE DEF E
<1>6. FreedRun(st, k) = k..(e - 1)
  <2>1. ASSUME NEW j \in k..(e - 1) PROVE j \in FreedRun(st, k)
    <3>1. j \in k..(MAX_BLOCKS - 1) /\ \A i \in k..j : i \in k..(e - 1)
      BY <1>3
    <3> QED
      BY <1>5, <3>1 DEF FreedRun
  <2>2. ASSUME NEW j \in FreedRun(st, k) PROVE j \in k..(e - 1)
    <3>1. j \in k..(MAX_BLOCKS - 1) /\ \A i \in k..j : st.all[i] # 0
      BY DEF FreedRun
    <3>2. ~(e <= j)
      <4>1. SUFFICES ASSUME e <= j PROVE FALSE
        OBVIOUS
      <4>2. e \in k..j /\ e < MAX_BLOCKS
        BY <1>3, <3>1, <4>1
      <4> QED
        BY <1>4, <3>1, <4>2
    <3> QED
      BY <1>3, <3>1, <3>2
  <2> QED
    BY <2>1, <2>2
<1>7. Cardinality(k..(e - 1)) = e - k
  <2>1. PICK h \in Int : h = e - 1
    BY <1>3
  <2>2. Cardinality(k..h) = IF k > h THEN 0 ELSE h - k + 1
    <3> HIDE Sizes
    <3> QED
      BY FS_Interval
  <2> QED
    BY <1>3, <2>1, <2>2
<1> QED
  BY <1>3, <1>4, <1>5, <1>6, <1>7

\* The call after it has freed the blocks a..(a + m - 1).
Cut(st, base, oth, dat, low, a, m) ==
    /\ st \in St /\ st.second = base.second /\ st.data = base.data
    /\ st.node.i_size = base.node.i_size
    /\ oth \subseteq st.bits /\ st.bits \subseteq low
    /\ \A j \in Slot : st.all[j] = IF j \in a..(a + m - 1) THEN 0 ELSE base.all[j]
    /\ \A j \in 0..N_DIRECT :
          st.node.i_sectors[j] = IF j \in a..(a + m - 1) THEN 0 ELSE base.node.i_sectors[j]
    /\ Owned(st.all, st.second, st.bits, oth)
    /\ Out(st, oth, dat, st.bits, low, st.bits)

\* One block is freed: it leaves table, inode and bitmap.
LEMMA FreeBlockCut ==
    ASSUME NEW st, NEW base, NEW oth, NEW dat, NEW low, low \subseteq Block,
           NEW a \in Nat, NEW m \in Nat, a + m \in Slot,
           Cut(st, base, oth, dat, low, a, m),
           NEW r, r = FreeBlock(st, a + m)
    PROVE  Cut(r, base, oth, dat, low, a, m + 1)
<1> USE Sizes
<1>1. PICK j \in Slot : j = a + m
  OBVIOUS
<1>2. /\ st \in St /\ st.all \in Table /\ st.node \in Node /\ st.node.i_sectors \in [0..N_DIRECT -> Ref]
      /\ st.all[j] \in Ref /\ st.bits \subseteq Ref
  BY DEF Cut, St, Node, Table, Slot
<1>3. PICK is : is = [k \in DOMAIN st.node.i_sectors |-> IF k = j THEN 0 ELSE st.node.i_sectors[k]]
  OBVIOUS
<1>4. /\ is \in [0..N_DIRECT -> Ref]
      /\ \A k \in 0..N_DIRECT : is[k] = IF k = j THEN 0 ELSE st.node.i_sectors[k]
  <2>1. 0 \in Ref
    BY DEF Ref
  <2> QED
    BY <1>2, <1>3, <2>1
<1>5. PICK nd \in Node : nd = [st.node EXCEPT !.i_sectors = is]
  BY <1>2, <1>4 DEF Node
<1>6. PICK al \in Table : al = [st.all EXCEPT ![j] = 0]
  BY <1>2 DEF Table, Ref, Slot
<1>7. PICK x : x = [st EXCEPT !.all[j] = 0,
                   !.node.i_sectors = [k \in DOMAIN @ |-> IF k = j THEN 0 ELSE @[k]]]
  OBVIOUS
<1>8. x = [st EXCEPT !.all = al, !.node = nd]
  BY <1>3, <1>5, <1>6, <1>7
<1>9. /\ x \in St /\ x.bits = st.bits /\ x.all = al /\ x.node = nd /\ x.second = st.second
      /\ x.data = st.data /\ x.wr = st.wr
  BY <1>2, <1>8 DEF St
<1>10. PICK y : y = block_bitmap_dealloc(x, st.all[j])
  OBVIOUS
<1>11. PICK bits : bits = st.bits \ {st.all[j]} /\ bits \subseteq Ref
  BY <1>2
<1>12. /\ y \in St /\ y.bits = bits /\ y.all = al /\ y.node = nd /\ y.second = st.second
       /\ y.data = st.data /\ y.wr = st.wr
  BY <1>9, <1>10, <1>11 DEF St, block_bitmap_dealloc
<1>13. r = bitmap_sync(y)
  BY <1>1, <1>7, <1>10 DEF FreeBlock
<1>14. oth \subseteq st.bits /\ st.bits \subseteq low /\ Owned(st.all, st.second, st.bits, oth)
  BY DEF Cut
<1>15. bits \subseteq st.bits /\ bits \subseteq Block
  BY <1>11, <1>14
<1>16. Out(y, oth, dat, st.bits, low, st.bits)
  BY <1>12 DEF Cut, Out
<1>17. Between(bits, st.bits, y.bits)
  BY <1>12, <1>15 DEF Between
<1>18. /\ r \in St
       /\ r.bits = y.bits /\ r.node = y.node /\ r.all = y.all /\ r.second = y.second
       /\ r.data = y.data
       /\ Out(r, oth, dat, bits, low, y.bits)
  <2>1. y \in St
    BY <1>12
  <2> QED
    BY <1>13, <1>16, <1>17, <2>1, SyncStep
<1>19. /\ r \in St /\ r.bits = bits /\ r.node = nd /\ r.all = al /\ r.second = st.second
       /\ r.data = st.data /\ Out(r, oth, dat, r.bits, low, r.bits)
  BY <1>12, <1>18
<1>20. Owned(al, st.second, bits, oth)
  BY <1>2, <1>6, <1>11, <1>14, OwnedFree
<1>21. oth \subseteq bits
  <2>1. st.all[j] \notin oth
    BY <1>14 DEF Owned, Ref
  <2> QED
    BY <1>11, <1>14, <2>1
<1>22. \A k \in Int : k \in a..(a + (m + 1) - 1) <=> k \in a..(a + m - 1) \/ k = j
  BY <1>1
<1>23. \A k \in Slot : k \in Int /\ al[k] = IF k = j THEN 0 ELSE st.all[k]
  BY <1>2, <1>6 DEF Table, Slot
<1>24. \A k \in Slot : r.all[k] = IF k \in a..(a + (m + 1) - 1) THEN 0 ELSE base.all[k]
  <2>1. \A k \in Slot : st.all[k] = IF k \in a..(a + m - 1) THEN 0 ELSE base.all[k]
    BY DEF Cut
  <2> HIDE Sizes
  <2> QED
    BY <1>19, <1>22, <1>23, <2>1
<1>25. \A k \in 0..N_DIRECT :
          r.node.i_sectors[k] = IF k \in a..(a + (m + 1) - 1) THEN 0 ELSE base.node.i_sectors[k]
  <2>1. \A k \in 0..N_DIRECT :
          st.node.i_sectors[k] = IF k \in a..(a + m - 1) THEN 0 ELSE base.node.i_sectors[k]
    BY DEF Cut
  <2>2. nd.i_sectors = is
    BY <1>2, <1>5 DEF Node
  <2>3. \A k \in 0..N_DIRECT : k \in Int
    OBVIOUS
  <2> HIDE Sizes
  <2> QED
    BY <1>4, <1>19, <1>22, <2>1, <2>2, <2>3
<1>26. r.node.i_size = base.node.i_size
  BY <1>2, <1>5, <1>19 DEF Node, Cut
<1>27. r.second = base.second /\ r.data = base.data
  BY <1>19 DEF Cut
<1>28. r.bits \subseteq low
  BY <1>14, <1>15, <1>19
<1> HIDE Sizes
<1> QED
  BY <1>19, <1>20, <1>21, <1>24, <1>25, <1>26, <1>27, <1>28 DEF Cut

\* All blocks of a run are freed.
LEMMA FreeBlocks ==
    ASSUME NEW base, NEW oth, NEW dat, NEW low,
           NEW a \in Nat, NEW n \in Nat, a + n <= MAX_BLOCKS,
           Good(base, oth, dat, low, 0, 0), base.bits = low,
           NEW c, Counts(c, a, n), NEW r, r = FreeAll(base, c)
    PROVE  Cut(r, base, oth, dat, low, a, n)
<1> USE Sizes
<1>1. low \subseteq Block /\ oth \subseteq low /\ base \in St
  BY GoodParts
<1>2. PICK how : how = [op |-> "free"]
  OBVIOUS
<1>3. PICK it : Runs(it, base, c, n, how) /\ r = it[1..n]
  <2> HIDE Sizes
  <2> QED
    BY <1>2, FreeRuns
<1>4. \A i \in 1..n : c[i] = a + i - 1
  BY UptoFacts
<1>5. /\ it[1..0] = base
      /\ \A m \in 0..(n - 1) : it[1..(m + 1)] = Step(how, it[1..m], c[m + 1])
  BY <1>3, RunStep
<1>6. \A st, k : Step(how, st, k) = FreeBlock(st, k)
  BY <1>2 DEF Step
<1> DEFINE P == {m \in Nat : m <= n => Cut(it[1..m], base, oth, dat, low, a, m)}
<1>7. 0 \in P
  <2>1. \A j \in Int : j \notin a..(a + 0 - 1)
    OBVIOUS
  <2>2. (\A j \in Slot : j \in Int) /\ \A j \in 0..N_DIRECT : j \in Int
    BY DEF Slot
  <2>3. Out(base, oth, dat, base.bits, low, base.bits) /\ Owned(base.all, base.second, base.bits, oth)
    BY DEF Good
  <2>4. Cut(base, base, oth, dat, low, a, 0)
    <3> HIDE Sizes
    <3> QED
      BY <1>1, <2>1, <2>2, <2>3 DEF Cut
  <2> QED
    BY <1>5, <2>4
<1>8. ASSUME NEW m \in Nat, m \in P PROVE m + 1 \in P
  <2>1. SUFFICES ASSUME m + 1 <= n PROVE Cut(it[1..(m + 1)], base, oth, dat, low, a, m + 1)
    OBVIOUS
  <2>2. m \in 0..(n - 1) /\ m + 1 \in 1..n /\ a + (m + 1) - 1 = a + m /\ a + m \in Slot /\ m <= n
    BY <2>1 DEF Slot
  <2>3. it[1..(m + 1)] = FreeBlock(it[1..m], a + m)
    BY <1>4, <1>5, <1>6, <2>2
  <2>4. PICK s, t : s = it[1..m] /\ t = it[1..(m + 1)]
    OBVIOUS
  <2>5. Cut(s, base, oth, dat, low, a, m)
    BY <1>8, <2>2, <2>4
  <2>6. t = FreeBlock(s, a + m)
    BY <2>3, <2>4
  <2> HIDE Sizes
  <2>7. Cut(t, base, oth, dat, low, a, m + 1)
    BY <1>1, <2>2, <2>5, <2>6, FreeBlockCut
  <2> QED
    BY <2>4, <2>7
<1> HIDE DEF P
<1>9. \A m \in Nat : m >= 0 => m \in P
  <2> HIDE Sizes
  <2> QED
    BY <1>7, <1>8, SetInduction
<1>10. n \in P /\ n <= n
  BY <1>9
<1> QED
  BY <1>3, <1>10 DEF P

\* DIV_ROUND_UP: a size needs the index when it goes past the direct blocks.
LEMMA RoundUp ==
    ASSUME NEW x \in Nat, NEW q, q = DivRoundUp(x, BLOCK_SIZE)
    PROVE  /\ q \in Nat
           /\ q > N_DIRECT <=> x > N_DIRECT * BLOCK_SIZE
           /\ x <= MAX_SIZE => q <= MAX_BLOCKS
<1> USE Sizes
<1>1. PICK y \in Nat : y = x + BLOCK_SIZE - 1
  OBVIOUS
<1>2. q \in Nat /\ q * BLOCK_SIZE <= y /\ y < (q + 1) * BLOCK_SIZE
  BY <1>1, Quotient DEF DivRoundUp
<1>3. PICK z \in Nat : z = q * BLOCK_SIZE /\ (q + 1) * BLOCK_SIZE = z + BLOCK_SIZE
  BY <1>2
<1>4. z <= x + BLOCK_SIZE - 1 /\ x <= z
  BY <1>1, <1>2, <1>3
<1>5. ASSUME NEW p \in Nat PROVE q > p <=> x > p * BLOCK_SIZE
  <2>1. PICK w \in Nat : w = p * BLOCK_SIZE /\ (p + 1) * BLOCK_SIZE = w + BLOCK_SIZE
    BY Multiples
  <2>2. ASSUME q > p PROVE x > w
    <3>1. p + 1 \in Nat /\ p + 1 <= q
      BY <1>2, <2>2
    <3>2. (p + 1) * BLOCK_SIZE <= q * BLOCK_SIZE
      <4> HIDE Sizes
      <4>1. BLOCK_SIZE \in Nat \ {0}
        BY Sizes
      <4> QED
        BY <1>2, <3>1, <4>1, Multiples
    <3> QED
      BY <1>3, <1>4, <2>1, <3>2
  <2>3. ASSUME x > w PROVE q > p
    <3>1. p * BLOCK_SIZE < q * BLOCK_SIZE
      BY <1>3, <1>4, <2>1, <2>3
    <3> QED
      BY <1>2, <3>1, Multiples
  <2> QED
    BY <2>1, <2>2, <2>3
<1>6. ASSUME x <= MAX_SIZE PROVE q <= MAX_BLOCKS
  BY <1>2, <1>5, <1>6
<1> QED
  BY <1>2, <1>5, <1>6

\* The end of file_remove_some_content: what it frees, and the index written back or freed.
LEMMA FreeFromDone ==
    ASSUME NEW base, NEW oth, NEW dat, NEW low,
           Good(base, oth, dat, low, 0, 0), base.bits = low,
           NEW offset \in Nat, offset <= MAX_SIZE, NEW k, k = FreeStart(offset),
           NEW r, r = FreeFrom(base, k),
           NEW node, node \in Node, node.i_sectors = r.node.i_sectors, node.i_size = offset
    PROVE  /\ Done(r, oth, dat, low)
           /\ CutAssert(base, k) => Fits(node, r.data, r.bits, oth)
<1> USE Sizes
<1>1. /\ base \in St /\ base.bits \subseteq Block /\ 0 \notin base.bits
      /\ base.wr \in Seq(DataWrite) /\ base.data \in [Block -> Sector] /\ base.all \in Table
      /\ base.node \in Node /\ base.second \in Ref
      /\ base.node.i_sectors \in [0..N_DIRECT -> Ref] /\ base.node.i_size \in 0..MAX_SIZE
      /\ oth \subseteq low /\ low \subseteq base.bits /\ oth \subseteq base.bits
  BY GoodParts
<1>2. k \in Nat /\ k <= MAX_BLOCKS /\ (k > N_DIRECT <=> offset > N_DIRECT * BLOCK_SIZE)
  BY RoundUp DEF FreeStart
<1>3. PICK e \in Nat : /\ k <= e /\ e <= MAX_BLOCKS
                       /\ e < MAX_BLOCKS => base.all[e] = 0
                       /\ \A j \in k..(e - 1) : base.all[j] # 0
                       /\ Cardinality(FreedRun(base, k)) = e - k
  BY <1>2, RunEnds
<1>4. PICK n \in Nat : n = e - k /\ k + n = e
  BY <1>2, <1>3
<1>5. PICK c : c = Upto(k, k + Cardinality(FreedRun(base, k)) - 1) /\ Counts(c, k, n)
  BY <1>3, <1>4 DEF Counts
<1>6. PICK st : st = FreeAll(base, c)
  OBVIOUS
<1>7. Cut(st, base, oth, dat, low, k, n)
  BY <1>2, <1>3, <1>4, <1>5, <1>6, FreeBlocks
<1>8. r = IF k > N_DIRECT THEN ide_write(st, base.second, IndexBlock(st))
          ELSE IF base.second # 0 THEN bitmap_sync(block_bitmap_dealloc(st, base.second))
          ELSE st
  <2> HIDE Sizes
  <2> QED
    BY <1>5, <1>6, Zenon DEF FreeFrom, FreeAll
<1>9. /\ st \in St /\ st.second = base.second /\ st.data = base.data
      /\ oth \subseteq st.bits /\ st.bits \subseteq low /\ st.bits \subseteq Block
      /\ Owned(st.all, st.second, st.bits, oth)
      /\ Out(st, oth, dat, st.bits, low, st.bits)
  BY <1>1, <1>7 DEF Cut
<1>10. \A j \in 0..N_DIRECT :
          st.node.i_sectors[j] = IF j \in k..(e - 1) THEN 0 ELSE base.node.i_sectors[j]
  <2>1. k + n - 1 = e - 1
    BY <1>2, <1>4
  <2>2. \A j \in 0..N_DIRECT :
          st.node.i_sectors[j] = IF j \in k..(k + n - 1) THEN 0 ELSE base.node.i_sectors[j]
    BY <1>7 DEF Cut
  <2> HIDE Sizes
  <2> QED
    BY <2>1, <2>2, Zenon
<1>11. \A j \in Slot : st.all[j] = IF j \in k..(e - 1) THEN 0 ELSE base.all[j]
  <2>1. k + n - 1 = e - 1
    BY <1>2, <1>4
  <2>2. \A j \in Slot : st.all[j] = IF j \in k..(k + n - 1) THEN 0 ELSE base.all[j]
    BY <1>7 DEF Cut
  <2> HIDE Sizes
  <2> QED
    BY <2>1, <2>2, Zenon
<1>12. Linked(base) /\ Shaped(base, 0)
  BY DEF Good
<1>13. \A j \in 0..(N_DIRECT - 1) : st.all[j] = st.node.i_sectors[j]
  <2>1. \A j \in 0..(N_DIRECT - 1) : j \in Slot /\ j \in 0..N_DIRECT
    BY DEF Slot
  <2> QED
    BY <1>10, <1>11, <1>12, <2>1 DEF Linked
<1>14. \A p \in Slot : p \in 0..(N_DIRECT - 1) \/ p \in N_DIRECT..(MAX_BLOCKS - 1)
  BY DEF Slot
<1>15. st.wr \in Seq(DataWrite) /\ st.data \in [Block -> Sector] /\ st.all \in Table
  BY <1>9 DEF St
<1>16. PICK a : a = all_blocks(node, r.data)
  OBVIOUS
\* the index is gone, or there was none
<1>17. ASSUME node.i_sectors = st.node.i_sectors, st.node.i_sectors[N_DIRECT] = 0
       PROVE  Owned(a, 0, st.bits \ {base.second}, oth) /\ Shape(node, r.data)
  <2>1. \A p \in 0..(N_DIRECT - 1) : a[p] = st.all[p]
    BY <1>13, <1>16, <1>17, AllBlocks
  <2>2. \A p \in N_DIRECT..(MAX_BLOCKS - 1) : a[p] = 0
    <3>1. node.i_sectors[N_DIRECT] = 0
      BY <1>17
    <3> HIDE Sizes
    <3> QED
      BY <1>16, <3>1, AllBlocks
  <2>3. \A p \in Slot : a[p] # 0 => a[p] = st.all[p]
    BY <1>14, <2>1, <2>2
  <2>4. Owned(a, 0, st.bits \ {base.second}, oth)
    BY <1>9, <2>3 DEF Owned
  <2> QED
    BY <1>17, <2>4 DEF Shape
<1>18. CASE k > N_DIRECT
  <2>1. r = ide_write(st, base.second, IndexBlock(st))
    BY <1>8, <1>18
  <2>2. \A j \in 0..N_DIRECT : j \notin k..(e - 1)
    BY <1>2, <1>18
  <2>3. \A j \in 0..N_DIRECT : st.node.i_sectors[j] = base.node.i_sectors[j]
    BY <1>10, <2>2
  <2>4. st.node.i_sectors[N_DIRECT] = base.second
    BY <1>12, <2>3 DEF Linked
  <2>5. CASE base.second = 0
    <3>1. r = st
      BY <2>1, <2>5, IdeWriteNone
    <3>2. Done(r, oth, dat, low)
      <4>1. low \cap st.bits = st.bits
        BY <1>9
      <4> QED
        BY <1>9, <3>1, <4>1 DEF Done
    <3>3. st.bits \ {base.second} = st.bits
      BY <1>1, <1>9, <2>5
    <3>4. Owned(a, 0, st.bits, oth) /\ Shape(node, r.data)
      BY <1>17, <2>4, <2>5, <3>1, <3>3
    <3>5. node.i_sectors[N_DIRECT] = 0
      BY <2>4, <2>5, <3>1
    <3> QED
      BY <1>9, <1>16, <3>1, <3>2, <3>4, <3>5 DEF Fits
  <2>6. CASE base.second # 0
    <3>1. base.second \in Block /\ base.second \notin oth
      BY <1>1, <1>9, <2>6 DEF Owned
    <3>2. IndexBlock(st) \in Sector /\ \A i \in 0..(BLOCK_SIZE - 1) : IndexBlock(st)[i] = st.all[N_DIRECT + i]
      BY <1>9, IndexBlockSector
    <3>3. /\ r \in St
          /\ r.bits = st.bits /\ r.node = st.node /\ r.all = st.all /\ r.second = st.second
          /\ r.data = [st.data EXCEPT ![base.second] = IndexBlock(st)]
          /\ Out(r, oth, dat, st.bits, low, st.bits)
      <4>1. st \in St /\ Out(st, oth, dat, st.bits, low, st.bits)
        BY <1>9
      <4>2. PICK cells : cells = IndexBlock(st) /\ cells \in Sector
        BY <3>2
      <4>3. PICK b : b = base.second /\ b \in Block /\ b \notin oth
        BY <3>1
      <4> HIDE Sizes
      <4>4. /\ r \in St
            /\ r.bits = st.bits /\ r.node = st.node /\ r.all = st.all /\ r.second = st.second
            /\ r.data = [st.data EXCEPT ![b] = cells]
            /\ Out(r, oth, dat, st.bits, low, st.bits)
        BY <2>1, <4>1, <4>2, <4>3, WriteStep
      <4> QED
        BY <4>2, <4>3, <4>4
    <3>4. Done(r, oth, dat, low)
      <4>1. low \cap st.bits = st.bits
        BY <1>9
      <4> QED
        BY <1>9, <3>3, <4>1 DEF Done
    <3>5. node.i_sectors = st.node.i_sectors /\ node.i_sectors[N_DIRECT] = base.second
      BY <2>4, <3>3
    <3>6. r.data[base.second] = IndexBlock(st)
      BY <1>15, <3>1, <3>3
    <3>7. \A p \in Slot : a[p] = st.all[p]
      <4>1. \A p \in 0..(N_DIRECT - 1) : a[p] = st.all[p]
        BY <1>13, <1>16, <3>5, AllBlocks
      <4>2. \A p \in N_DIRECT..(MAX_BLOCKS - 1) : a[p] = r.data[base.second][p - N_DIRECT]
        <5> HIDE Sizes
        <5> QED
          BY <1>16, <2>6, <3>5, AllBlocks
      <4>3. \A p \in N_DIRECT..(MAX_BLOCKS - 1) :
               p - N_DIRECT \in 0..(BLOCK_SIZE - 1) /\ N_DIRECT + (p - N_DIRECT) = p
        OBVIOUS
      <4>4. ASSUME NEW p \in N_DIRECT..(MAX_BLOCKS - 1) PROVE a[p] = st.all[p]
        BY <3>2, <3>6, <4>2, <4>3
      <4> QED
        BY <1>14, <4>1, <4>4
    <3>8. Owned(a, base.second, st.bits, oth)
      BY <1>9, <3>7 DEF Owned
    <3>9. Shape(node, r.data)
      <4>1. \A j \in 0..(N_DIRECT - 1) : node.i_sectors[j] # 0
        <5>1. \A j \in 0..(N_DIRECT - 1) : j \in 0..N_DIRECT
          OBVIOUS
        <5> QED
          BY <1>12, <2>3, <2>6, <3>5, <5>1 DEF Linked, Shaped
      <4>2. node.i_size > N_DIRECT * BLOCK_SIZE
        BY <1>2, <1>18
      <4> HIDE Sizes
      <4> QED
        BY <4>1, <4>2 DEF Shape
    <3> QED
      BY <1>9, <1>16, <3>3, <3>4, <3>5, <3>8, <3>9 DEF Fits
  <2> QED
    BY <2>5, <2>6
<1>19. CASE ~(k > N_DIRECT) /\ base.second = 0
  <2>1. r = st
    BY <1>8, <1>19
  <2>2. Done(r, oth, dat, low)
    <3>1. low \cap st.bits = st.bits
      BY <1>9
    <3> QED
      BY <1>9, <2>1, <3>1 DEF Done
  <2>3. st.node.i_sectors[N_DIRECT] = 0
    <3>1. N_DIRECT \in 0..N_DIRECT
      OBVIOUS
    <3>2. base.node.i_sectors[N_DIRECT] = 0
      BY <1>12, <1>19 DEF Linked
    <3> QED
      BY <1>10, <3>1, <3>2
  <2>4. st.bits \ {base.second} = st.bits
    BY <1>1, <1>9, <1>19
  <2>5. Owned(a, 0, st.bits, oth) /\ Shape(node, r.data)
    BY <1>17, <2>1, <2>3, <2>4
  <2>6. node.i_sectors[N_DIRECT] = 0
    BY <2>1, <2>3
  <2> QED
    BY <1>9, <1>16, <2>1, <2>2, <2>5, <2>6 DEF Fits
<1>20. CASE ~(k > N_DIRECT) /\ base.second # 0
  <2>1. PICK y : y = block_bitmap_dealloc(st, base.second)
    OBVIOUS
  <2>2. r = bitmap_sync(y)
    BY <1>8, <1>20, <2>1
  <2>3. PICK bits : bits = st.bits \ {base.second} /\ bits \subseteq Block /\ bits \subseteq st.bits
                    /\ bits \subseteq Ref
    BY <1>9 DEF Ref
  <2>4. /\ y \in St /\ y.bits = bits /\ y.all = st.all /\ y.node = st.node /\ y.second = st.second
        /\ y.data = st.data /\ y.wr = st.wr
    BY <1>9, <2>1, <2>3 DEF St, block_bitmap_dealloc
  <2>5. Out(y, oth, dat, st.bits, low, st.bits)
    BY <1>9, <2>4 DEF Out
  <2>6. Between(bits, st.bits, y.bits)
    BY <2>3, <2>4 DEF Between
  <2>7. /\ r \in St
        /\ r.bits = y.bits /\ r.node = y.node /\ r.all = y.all /\ r.second = y.second
        /\ r.data = y.data
        /\ Out(r, oth, dat, bits, low, y.bits)
    <3>1. y \in St
      BY <2>4
    <3> QED
      BY <2>2, <2>5, <2>6, <3>1, SyncStep
  <2>8. Done(r, oth, dat, low)
    <3>1. r.bits = bits /\ low \cap bits = bits
      BY <1>9, <2>3, <2>4, <2>7
    <3> QED
      BY <2>3, <2>4, <2>7, <3>1 DEF Done
  <2>9. ASSUME CutAssert(base, k) PROVE N_DIRECT \in k..(e - 1)
    <3>1. e = DivRoundUp(base.node.i_size, BLOCK_SIZE)
      BY <1>2, <1>3, <1>20, <2>9 DEF CutAssert
    <3>2. e > N_DIRECT
      <4>1. SUFFICES ASSUME e <= N_DIRECT PROVE FALSE
        BY <1>3
      <4>2. base.all[e] = 0
        BY <1>3, <4>1
      <4>3. e \notin 0..(N_DIRECT - 1)
        BY <1>12, <1>20, <4>2 DEF Shaped
      <4>4. e = N_DIRECT
        BY <1>3, <4>1, <4>3
      <4>5. base.data[base.second][0] = 0
        <5>1. 0 \in 0..(BLOCK_SIZE - 1) /\ N_DIRECT + 0 = N_DIRECT
          OBVIOUS
        <5>2. base.data[base.second][0] # 0 => base.data[base.second][0] = base.all[N_DIRECT + 0]
          BY <1>12, <1>20, <5>1 DEF Linked
        <5> QED
          BY <4>2, <4>4, <5>1, <5>2
      <4>6. base.node.i_size > N_DIRECT * BLOCK_SIZE \/ 0 > N_DIRECT * BLOCK_SIZE
        BY <1>12, <1>20, <4>5 DEF Shaped
      <4>7. N_DIRECT * BLOCK_SIZE \in Nat
        BY Multiples
      <4>8. base.node.i_size > N_DIRECT * BLOCK_SIZE
        BY <4>6, <4>7
      <4>9. base.node.i_size \in Nat
        BY <1>1
      <4>10. e > N_DIRECT
        BY <3>1, <4>8, <4>9, RoundUp
      <4> QED
        BY <4>4, <4>10
    <3> QED
      BY <1>2, <1>3, <1>20, <3>2
  <2>10. ASSUME CutAssert(base, k) PROVE Fits(node, r.data, r.bits, oth)
    <3>1. st.node.i_sectors[N_DIRECT] = 0
      <4>1. N_DIRECT \in 0..N_DIRECT
        OBVIOUS
      <4> QED
        BY <1>10, <2>9, <2>10, <4>1
    <3>2. node.i_sectors = st.node.i_sectors
      BY <2>4, <2>7
    <3>3. Owned(a, 0, bits, oth) /\ Shape(node, r.data)
      BY <1>17, <2>3, <3>1, <3>2
    <3>4. oth \subseteq bits
      <4>1. base.second \notin oth
        BY <1>9, <1>20 DEF Owned
      <4> QED
        BY <1>9, <2>3, <4>1
    <3>5. r.bits = bits /\ node.i_sectors[N_DIRECT] = 0
      BY <2>4, <2>7, <3>1, <3>2
    <3> QED
      BY <1>16, <3>3, <3>4, <3>5 DEF Fits
  <2> QED
    BY <2>8, <2>10
<1> QED
  BY <1>18, <1>19, <1>20

----------------------------------------------------------------------------
(* All files.                                                              *)

\* The blocks a file refers to
Refs(node, data) ==
    ({all_blocks(node, data)[k] : k \in Slot} \cup {node.i_sectors[N_DIRECT]}) \ {0}

\* Every file is sound and no two share a block
AllOwn(nodes, data, bits) ==
    /\ \A f \in File : Fits(nodes[f], data, bits, {})
    /\ \A f, g \in File : f # g => Refs(nodes[f], data) \cap Refs(nodes[g], data) = {}

\* What the files other than f refer to
Others(f, nodes, data) == UNION {Refs(nodes[g], data) : g \in File \ {f}}

\* What an owned file refers to is marked and not another's.
LEMMA RefsOwned ==
    ASSUME NEW node, NEW data, NEW bits, NEW oth, Owned(all_blocks(node, data), node.i_sectors[N_DIRECT], bits, oth)
    PROVE  Refs(node, data) \subseteq bits \ oth
  BY DEF Refs, Owned

\* A file is read the same from sectors that agree on its index.
LEMMA SameIndex ==
    ASSUME NEW node, NEW data, NEW new,
           node.i_sectors[N_DIRECT] # 0 =>
               new[node.i_sectors[N_DIRECT]] = data[node.i_sectors[N_DIRECT]]
    PROVE  /\ all_blocks(node, new) = all_blocks(node, data)
           /\ Refs(node, new) = Refs(node, data)
           /\ Shape(node, new) <=> Shape(node, data)
           /\ \A bits, oth : Fits(node, new, bits, oth) <=> Fits(node, data, bits, oth)
<1>1. \A k : IndexOf(node, new, k) = IndexOf(node, data, k)
  BY DEF IndexOf
<1>2. all_blocks(node, new) = all_blocks(node, data)
  BY <1>1 DEF all_blocks
<1>3. Shape(node, new) <=> Shape(node, data)
  BY DEF Shape
<1> QED
  BY <1>2, <1>3 DEF Refs, Fits

\* A file fits beside all the others.
LEMMA OthersFit ==
    ASSUME NEW nodes, NEW data, NEW bits, AllOwn(nodes, data, bits), NEW f \in File, NEW oth,
           oth = Others(f, nodes, data)
    PROVE  Fits(nodes[f], data, bits, oth)
<1>1. \A g \in File : Refs(nodes[g], data) \subseteq bits
  BY RefsOwned DEF AllOwn, Fits
<1>2. oth \subseteq bits
  BY <1>1 DEF Others
<1>3. Refs(nodes[f], data) \cap oth = {}
  BY DEF AllOwn, Others
<1>4. PICK a, s : a = all_blocks(nodes[f], data) /\ s = nodes[f].i_sectors[N_DIRECT]
  OBVIOUS
<1>5. Owned(a, s, bits, {}) /\ Shape(nodes[f], data)
  BY <1>4 DEF AllOwn, Fits
<1>6. (\A k \in Slot : a[k] # 0 => a[k] \notin oth) /\ (s # 0 => s \notin oth)
  BY <1>3, <1>4 DEF Refs
<1>7. Owned(a, s, bits, oth)
  BY <1>5, <1>6 DEF Owned
<1> QED
  BY <1>2, <1>4, <1>5, <1>7 DEF Fits

\* A call begins with the blocks of its file.
LEMMA BeginGood ==
    ASSUME NEW nodes \in [File -> Node], NEW data \in [Block -> Sector], NEW bits \in SUBSET Block,
           AllOwn(nodes, data, bits), NEW f \in File, NEW oth, oth = Others(f, nodes, data),
           NEW st, st = [bits |-> bits, node |-> nodes[f], all |-> all_blocks(nodes[f], data),
                         second |-> nodes[f].i_sectors[N_DIRECT], data |-> data, wr |-> <<>>],
           NEW end
    PROVE  Good(st, oth, data, bits, 0, end)
<1> USE Sizes
<1>1. Fits(nodes[f], data, bits, oth)
  <2> HIDE Sizes
  <2> QED
    BY OthersFit
<1>2. PICK node \in Node : node = nodes[f]
  OBVIOUS
<1>3. PICK a : a = all_blocks(node, data)
  OBVIOUS
<1>4. PICK s \in Ref : s = node.i_sectors[N_DIRECT]
  BY DEF Node
<1>5. st = [bits |-> bits, node |-> node, all |-> a, second |-> s, data |-> data, wr |-> <<>>]
  BY <1>2, <1>3, <1>4
<1>6. oth \subseteq bits /\ Owned(a, s, bits, oth) /\ Shape(node, data)
  BY <1>1, <1>2, <1>3, <1>4 DEF Fits
<1>7. a \in Table
  <2>1. \A p \in Slot : a[p] \in Ref
    BY <1>6 DEF Owned, Ref
  <2>2. a = [p \in Slot |-> a[p]]
    BY <1>3 DEF all_blocks, Slot
  <2> QED
    BY <2>1, <2>2 DEF Table, Slot
<1>8. /\ st \in St /\ st.bits = bits /\ st.node = node /\ st.all = a /\ st.second = s
      /\ st.data = data /\ st.wr = <<>>
  <2>1. <<>> \in Seq(DataWrite) /\ bits \subseteq Ref
    BY DEF Ref
  <2> QED
    BY <1>5, <1>7, <2>1 DEF St
<1>9. 0 \notin bits
  OBVIOUS
<1>10. Out(st, oth, data, bits, bits, bits)
  <2>1. \A i \in 1..Len(<<>>) : FALSE
    OBVIOUS
  <2>2. \A b \in Block : Becomes(<<>>, <<"block", b>>, data[b], data[b])
    BY BecomesNothing
  <2>3. Becomes(<<>>, <<"bitmap", 0>>, bits, bits)
    BY BecomesNothing
  <2> QED
    BY <1>8, <2>1, <2>2, <2>3 DEF Out, Written
<1>11. \A k \in 0..(N_DIRECT - 1) : a[k] = node.i_sectors[k]
  BY <1>3, AllBlocks
<1>12. s # 0 => \A i \in 0..(BLOCK_SIZE - 1) : data[s][i] = a[N_DIRECT + i]
  <2>1. SUFFICES ASSUME s # 0, NEW i \in 0..(BLOCK_SIZE - 1) PROVE data[s][i] = a[N_DIRECT + i]
    OBVIOUS
  <2>2. PICK k : k = N_DIRECT + i /\ k \in N_DIRECT..(MAX_BLOCKS - 1) /\ k - N_DIRECT = i
    OBVIOUS
  <2>3. \A j \in N_DIRECT..(MAX_BLOCKS - 1) : a[j] = data[s][j - N_DIRECT]
    <3> HIDE Sizes
    <3> QED
      BY <1>3, <1>4, <2>1, AllBlocks
  <2>4. a[k] = data[s][k - N_DIRECT]
    BY <2>2, <2>3
  <2> QED
    BY <2>2, <2>4
<1>13. Linked(st)
  BY <1>4, <1>8, <1>11, <1>12 DEF Linked
<1>14. Shaped(st, end)
  BY <1>4, <1>6, <1>8, <1>11 DEF Shaped, Shape
<1>15. \A j \in 0..(0 - 1) : st.all[j] # 0
  OBVIOUS
<1> HIDE Sizes
<1> QED
  BY <1>6, <1>8, <1>9, <1>10, <1>13, <1>14, <1>15 DEF Good

\* What the call leaves is owned again.
LEMMA AfterOwn ==
    ASSUME NEW nodes \in [File -> Node], NEW data, NEW bits,
           AllOwn(nodes, data, bits), NEW f \in File, NEW oth, oth = Others(f, nodes, data),
           NEW new, NEW low, NEW node, Fits(node, new, low, oth),
           \A b \in oth : new[b] = data[b]
    PROVE  AllOwn([nodes EXCEPT ![f] = node], new, low)
<1>1. PICK now : now = [nodes EXCEPT ![f] = node]
  OBVIOUS
<1>2. now[f] = node /\ \A g \in File : g # f => now[g] = nodes[g]
  BY <1>1
<1>3. ASSUME NEW g \in File, g # f
      PROVE  Refs(now[g], new) \subseteq oth /\ Refs(now[g], new) = Refs(nodes[g], data) /\ Fits(now[g], new, low, {})
  <2>1. Refs(nodes[g], data) \subseteq oth
    BY <1>3 DEF Others
  <2>2. nodes[g].i_sectors[N_DIRECT] # 0 => nodes[g].i_sectors[N_DIRECT] \in oth
    BY <2>1 DEF Refs
  <2>3. nodes[g].i_sectors[N_DIRECT] # 0 =>
             new[nodes[g].i_sectors[N_DIRECT]] = data[nodes[g].i_sectors[N_DIRECT]]
    BY <2>2
  <2>4. /\ all_blocks(nodes[g], new) = all_blocks(nodes[g], data)
        /\ Refs(nodes[g], new) = Refs(nodes[g], data)
        /\ Shape(nodes[g], new) <=> Shape(nodes[g], data)
    BY <2>3, SameIndex
  <2>5. PICK a, s : a = all_blocks(nodes[g], data) /\ s = nodes[g].i_sectors[N_DIRECT]
    OBVIOUS
  <2>6. Owned(a, s, bits, {}) /\ Shape(nodes[g], data)
    BY <2>5 DEF AllOwn, Fits
  <2>7. oth \subseteq low
    BY DEF Fits
  <2>8. (\A k \in Slot : a[k] # 0 => a[k] \in low) /\ (s # 0 => s \in low)
    BY <2>1, <2>5, <2>7 DEF Refs
  <2>9. Owned(a, s, low, {})
    BY <2>6, <2>8 DEF Owned
  <2>10. Fits(nodes[g], new, low, {})
    BY <2>4, <2>5, <2>6, <2>9 DEF Fits
  <2> QED
    BY <1>2, <1>3, <2>1, <2>4, <2>10
<1>4. Fits(node, new, low, {})
  <2>1. PICK a, s : a = all_blocks(node, new) /\ s = node.i_sectors[N_DIRECT]
    OBVIOUS
  <2>2. Owned(a, s, low, oth) /\ Shape(node, new)
    BY <2>1 DEF Fits
  <2>3. Owned(a, s, low, {})
    BY <2>2 DEF Owned
  <2> QED
    BY <2>1, <2>2, <2>3 DEF Fits
<1>5. Refs(node, new) \cap oth = {}
  <2>1. Refs(node, new) \subseteq low \ oth
    BY RefsOwned DEF Fits
  <2> QED
    BY <2>1
<1>6. ASSUME NEW g \in File, NEW h \in File, g # h
      PROVE  Refs(now[g], new) \cap Refs(now[h], new) = {}
  <2>1. CASE g = f
    BY <1>2, <1>3, <1>5, <1>6, <2>1
  <2>2. CASE h = f
    BY <1>2, <1>3, <1>5, <1>6, <2>2
  <2>3. CASE g # f /\ h # f
    <3>1. Refs(nodes[g], data) \cap Refs(nodes[h], data) = {}
      BY <1>6 DEF AllOwn
    <3> QED
      BY <1>3, <2>3, <3>1
  <2> QED
    BY <2>1, <2>2, <2>3
<1>7. \A g \in File : Fits(now[g], new, low, {})
  BY <1>2, <1>3, <1>4
<1> QED
  BY <1>1, <1>6, <1>7 DEF AllOwn

----------------------------------------------------------------------------
(* The invariant.                                                          *)

AnyWrite == DataWrite \cup InodeWrite

\* The inode is the last sector a call writes.
Ordered(wr) ==
    /\ \A i \in 1..(Len(wr) - 1) : wr[i].to # "inode"
    /\ \A i \in 1..Len(wr) : wr[i].to = "bitmap" => wr[i].val \subseteq Block

\* The writes turn the disk into what memory holds.
Settles(wr, dbits, dnodes, dsec, bits, nodes, data) ==
    /\ Becomes(wr, <<"bitmap", 0>>, dbits, bits)
    /\ \A f \in File : Becomes(wr, <<"inode", f>>, dnodes[f], nodes[f])
    /\ \A b \in Block : Becomes(wr, <<"block", b>>, dsec[b], data[b])

\* The writes touch nothing the disk refers to.
Spares(wr, dnodes, dsec) ==
    \A i \in 1..Len(wr) :
        /\ wr[i].to = "block" => \A g \in File : wr[i].at # dnodes[g].i_sectors[N_DIRECT]
        /\ wr[i].to = "bitmap" => \A g \in File : Refs(dnodes[g], dsec) \subseteq wr[i].val

\* The writes leave the blocks of oth alone and keep low marked
Kept(wr, oth, low) ==
    \A i \in 1..Len(wr) : /\ wr[i].to = "block" => wr[i].at \notin oth
                          /\ wr[i].to = "bitmap" => low \subseteq wr[i].val

\* The writes of a call, its inode last, lead from the old disk to the new memory.
LEMMA ReturnedWrites ==
    ASSUME NEW nodes \in [File -> Node], NEW data \in [Block -> Sector], NEW bits \in SUBSET Block,
           NEW f \in File, NEW oth, NEW st, Done(st, oth, data, bits),
           NEW node \in Node, NEW w, w = [to |-> "inode", at |-> f, val |-> node],
           NEW wr, wr = Append(st.wr, w)
    PROVE  /\ wr \in Seq(AnyWrite) /\ wr # <<>>
           /\ Ordered(wr)
           /\ Settles(wr, bits, nodes, data, st.bits, [nodes EXCEPT ![f] = node], st.data)
           /\ Kept(wr, oth, bits \cap st.bits)
<1>1. st.wr \in Seq(DataWrite)
  BY DEF Done, St
<1>2. st.wr \in Seq(AnyWrite) /\ w \in AnyWrite
  <2>1. w \in AnyWrite
    BY DEF AnyWrite, InodeWrite
  <2>2. DataWrite \subseteq AnyWrite
    BY DEF AnyWrite
  <2> QED
    BY <1>1, <2>1, <2>2
<1>3. PICK n \in Nat : n = Len(st.wr)
  BY <1>1
<1>4. PICK old \in Seq(AnyWrite) : old = st.wr
  BY <1>2
<1>5. wr \in Seq(AnyWrite) /\ Len(wr) = n + 1 /\ (\A i \in 1..n : wr[i] = st.wr[i]) /\ wr[n + 1] = w
  BY <1>2, <1>3, <1>4, AppendOne
<1>6. wr # <<>>
  BY <1>3, <1>5
<1>7. w.to = "inode" /\ w.val = node /\ Aim(w) = <<"inode", f>>
  BY DEF Aim
<1>8. \A i \in 1..n : st.wr[i] \in DataWrite
  BY <1>1, <1>3
<1>9. \A i \in 1..n : st.wr[i].to # "inode" /\ \A g \in File : Aim(st.wr[i]) # <<"inode", g>>
  <2>1. \A x \in DataWrite : x.to # "inode" /\ \A g \in File : Aim(x) # <<"inode", g>>
    BY DEF DataWrite, Aim
  <2> QED
    BY <1>8, <2>1
<1>10. /\ Written(st.wr, st.data, oth, data, bits \cap st.bits)
       /\ Becomes(st.wr, <<"bitmap", 0>>, bits, st.bits)
  BY DEF Done, Out
<1>11. \A i \in 1..n : /\ st.wr[i].to = "block" => st.wr[i].at \notin oth
                       /\ st.wr[i].to = "bitmap" => /\ bits \cap st.bits \subseteq st.wr[i].val
                                                    /\ st.wr[i].val \subseteq Block
  BY <1>3, <1>10 DEF Written
<1>12. \A i \in 1..(n + 1) : i \in 1..n \/ (i = n + 1 /\ i \notin 1..n)
  BY <1>3
<1>13. Ordered(wr)
  <2>1. (n + 1) - 1 = n
    BY <1>3
  <2> QED
    BY <1>5, <1>7, <1>9, <1>11, <1>12, <2>1 DEF Ordered
<1>14. Becomes(wr, <<"bitmap", 0>>, bits, st.bits)
  <2>1. Aim(w) # <<"bitmap", 0>>
    BY <1>7
  <2> QED
    BY <1>2, <1>10, <2>1, BecomesAppend
<1>15. ASSUME NEW b \in Block PROVE Becomes(wr, <<"block", b>>, data[b], st.data[b])
  <2>1. Aim(w) # <<"block", b>>
    BY <1>7
  <2>2. Becomes(st.wr, <<"block", b>>, data[b], st.data[b])
    BY <1>10 DEF Written
  <2> QED
    BY <1>2, <2>1, <2>2, BecomesAppend
<1>16. PICK now : now = [nodes EXCEPT ![f] = node]
  OBVIOUS
<1>17. ASSUME NEW g \in File PROVE Becomes(wr, <<"inode", g>>, nodes[g], now[g])
  <2>1. Becomes(st.wr, <<"inode", g>>, nodes[g], nodes[g])
    BY <1>3, <1>9 DEF Becomes
  <2>2. Aim(w) = <<"inode", g>> => now[g] = w.val
    BY <1>7, <1>16
  <2>3. Aim(w) # <<"inode", g>> => now[g] = nodes[g]
    BY <1>7, <1>16
  <2> QED
    BY <1>2, <2>1, <2>2, <2>3, BecomesAppend
<1>18. Settles(wr, bits, nodes, data, st.bits, now, st.data)
  BY <1>14, <1>15, <1>17 DEF Settles
<1>19. Kept(wr, oth, bits \cap st.bits)
  BY <1>5, <1>7, <1>11, <1>12 DEF Kept
<1> QED
  BY <1>5, <1>6, <1>13, <1>16, <1>18, <1>19

\* The disk takes the sector w.
Takes(w, dbits, dnodes, dsec, dbits2, dnodes2, dsec2) ==
    /\ dbits2 = IF w.to = "bitmap" THEN w.val ELSE dbits
    /\ dnodes2 = IF w.to = "inode" THEN [dnodes EXCEPT ![w.at] = w.val] ELSE dnodes
    /\ dsec2 = IF w.to = "block" THEN [dsec EXCEPT ![w.at] = w.val] ELSE dsec

\* One sector of them reaches the disk.
LEMMA SectorWritten ==
    ASSUME NEW wr, wr \in Seq(AnyWrite), wr # <<>>, Ordered(wr),
           NEW dbits, NEW dnodes, dnodes \in [File -> Node], NEW dsec, dsec \in [Block -> Sector],
           NEW bits, NEW nodes, NEW data, Settles(wr, dbits, dnodes, dsec, bits, nodes, data),
           NEW w, w = Head(wr), NEW dbits2, NEW dnodes2, NEW dsec2,
           Takes(w, dbits, dnodes, dsec, dbits2, dnodes2, dsec2)
    PROVE  /\ Tail(wr) \in Seq(AnyWrite) /\ Ordered(Tail(wr))
           /\ Settles(Tail(wr), dbits2, dnodes2, dsec2, bits, nodes, data)
           /\ w.to = "bitmap" => w.val \subseteq Block
           /\ dnodes2 \in [File -> Node] /\ dsec2 \in [Block -> Sector]
           /\ Tail(wr) # <<>> => dnodes2 = dnodes
<1>1. PICK n \in Nat : Len(wr) = n + 1 /\ n = Len(wr) - 1
  <2>1. Len(wr) - 1 \in Nat /\ Len(wr) = (Len(wr) - 1) + 1
    BY TailOne
  <2> QED
    BY <2>1
<1>2. /\ Tail(wr) \in Seq(AnyWrite) /\ Len(Tail(wr)) = n
      /\ \A i \in 1..n : Tail(wr)[i] = wr[i + 1]
      /\ w = wr[1] /\ w \in AnyWrite
  BY <1>1, TailOne
<1>3. \/ w.to = "bitmap" /\ Aim(w) = <<"bitmap", 0>>
      \/ w.to = "block" /\ Aim(w) = <<"block", w.at>> /\ w.at \in Block /\ w.val \in Sector
      \/ w.to = "inode" /\ Aim(w) = <<"inode", w.at>> /\ w.at \in File /\ w.val \in Node
  BY <1>2 DEF AnyWrite, DataWrite, InodeWrite, Aim
<1>4. Ordered(Tail(wr))
  <2>1. \A i \in 1..n : i + 1 \in 1..(n + 1)
    BY <1>1
  <2>2. \A i \in 1..(n - 1) : i + 1 \in 1..((n + 1) - 1) /\ i \in 1..n
    BY <1>1
  <2> QED
    BY <1>1, <1>2, <2>1, <2>2 DEF Ordered
<1>5. Becomes(Tail(wr), <<"bitmap", 0>>, dbits2, bits)
  <2>1. Becomes(wr, <<"bitmap", 0>>, dbits, bits)
    BY DEF Settles
  <2>2. Aim(Head(wr)) = <<"bitmap", 0>> => dbits2 = Head(wr).val
    BY <1>3 DEF Takes
  <2>3. Aim(Head(wr)) # <<"bitmap", 0>> => dbits2 = dbits
    BY <1>3 DEF Takes
  <2> QED
    BY <2>1, <2>2, <2>3, BecomesTail
<1>6. ASSUME NEW g \in File PROVE Becomes(Tail(wr), <<"inode", g>>, dnodes2[g], nodes[g])
  <2>1. Becomes(wr, <<"inode", g>>, dnodes[g], nodes[g])
    BY DEF Settles
  <2>2. Aim(Head(wr)) = <<"inode", g>> => dnodes2[g] = Head(wr).val
    BY <1>3 DEF Takes
  <2>3. Aim(Head(wr)) # <<"inode", g>> => dnodes2[g] = dnodes[g]
    BY <1>3 DEF Takes
  <2> QED
    BY <2>1, <2>2, <2>3, BecomesTail
<1>7. ASSUME NEW b \in Block PROVE Becomes(Tail(wr), <<"block", b>>, dsec2[b], data[b])
  <2>1. Becomes(wr, <<"block", b>>, dsec[b], data[b])
    BY DEF Settles
  <2>2. Aim(Head(wr)) = <<"block", b>> => dsec2[b] = Head(wr).val
    BY <1>3 DEF Takes
  <2>3. Aim(Head(wr)) # <<"block", b>> => dsec2[b] = dsec[b]
    BY <1>3 DEF Takes
  <2> QED
    BY <2>1, <2>2, <2>3, BecomesTail
<1>8. Settles(Tail(wr), dbits2, dnodes2, dsec2, bits, nodes, data)
  BY <1>5, <1>6, <1>7 DEF Settles
<1>9. w.to = "bitmap" => w.val \subseteq Block
  BY <1>1, <1>2 DEF Ordered
<1>10. dnodes2 \in [File -> Node] /\ dsec2 \in [Block -> Sector]
  BY <1>3 DEF Takes
<1>11. ASSUME Tail(wr) # <<>> PROVE dnodes2 = dnodes
  <2>1. n # 0
    BY <1>2, <1>11
  <2>2. 1 \in 1..n
    BY <1>1, <2>1
  <2>3. w.to # "inode"
    BY <1>1, <1>2, <2>2 DEF Ordered
  <2> QED
    BY <2>3 DEF Takes
<1> QED
  BY <1>2, <1>4, <1>8, <1>9, <1>10, <1>11, SMTT(30)

\* Up to the inode, which comes last, the disk keeps its files.
LEMMA SpareStep ==
    ASSUME NEW wr, wr \in Seq(AnyWrite), wr # <<>>, NEW dbits, NEW dnodes,
           NEW dsec, dsec \in [Block -> Sector], Spares(wr, dnodes, dsec),
           AllOwn(dnodes, dsec, dbits),
           NEW w, w = Head(wr), w.to # "inode", NEW dbits2, NEW dnodes2, NEW dsec2,
           Takes(w, dbits, dnodes, dsec, dbits2, dnodes2, dsec2)
    PROVE  AllOwn(dnodes, dsec2, dbits2) /\ Spares(Tail(wr), dnodes, dsec2)
<1>1. PICK n \in Nat : Len(wr) = n + 1
  <2>1. Len(wr) - 1 \in Nat /\ Len(wr) = (Len(wr) - 1) + 1
    BY TailOne
  <2> QED
    BY <2>1
<1>2. /\ Tail(wr) \in Seq(AnyWrite) /\ Len(Tail(wr)) = n
      /\ \A i \in 1..n : Tail(wr)[i] = wr[i + 1]
      /\ w = wr[1] /\ w \in AnyWrite
  BY <1>1, TailOne
<1>3. 1 \in 1..(n + 1) /\ \A i \in 1..n : i + 1 \in 1..(n + 1)
  BY <1>1
<1>4. ASSUME NEW g \in File, dnodes[g].i_sectors[N_DIRECT] # 0
      PROVE  dsec2[dnodes[g].i_sectors[N_DIRECT]] = dsec[dnodes[g].i_sectors[N_DIRECT]]
  <2>1. w.to = "block" => w.at # dnodes[g].i_sectors[N_DIRECT]
    BY <1>1, <1>2, <1>3 DEF Spares
  <2> QED
    BY <2>1 DEF Takes
<1>5. \A g \in File : /\ Refs(dnodes[g], dsec2) = Refs(dnodes[g], dsec)
                      /\ all_blocks(dnodes[g], dsec2) = all_blocks(dnodes[g], dsec)
                      /\ Shape(dnodes[g], dsec2) <=> Shape(dnodes[g], dsec)
  <2>1. ASSUME NEW g \in File
        PROVE  /\ Refs(dnodes[g], dsec2) = Refs(dnodes[g], dsec)
               /\ all_blocks(dnodes[g], dsec2) = all_blocks(dnodes[g], dsec)
               /\ Shape(dnodes[g], dsec2) <=> Shape(dnodes[g], dsec)
    <3>1. PICK node, now : node = dnodes[g] /\ now = dsec2
      OBVIOUS
    <3>2. node.i_sectors[N_DIRECT] # 0 =>
             now[node.i_sectors[N_DIRECT]] = dsec[node.i_sectors[N_DIRECT]]
      BY <1>4, <3>1
    <3>3. /\ Refs(node, now) = Refs(node, dsec)
          /\ all_blocks(node, now) = all_blocks(node, dsec)
          /\ Shape(node, now) <=> Shape(node, dsec)
      BY <3>2, SameIndex
    <3> QED
      BY <3>1, <3>3
  <2> QED
    BY <2>1
<1>6. ASSUME NEW g \in File PROVE Fits(dnodes[g], dsec2, dbits2, {})
  <2>1. Refs(dnodes[g], dsec) \subseteq dbits2
    <3>1. Refs(dnodes[g], dsec) \subseteq dbits
      BY RefsOwned DEF AllOwn, Fits
    <3>2. w.to = "bitmap" => Refs(dnodes[g], dsec) \subseteq w.val
      BY <1>1, <1>2, <1>3 DEF Spares
    <3> QED
      BY <3>1, <3>2 DEF Takes
  <2>2. PICK a, s : a = all_blocks(dnodes[g], dsec) /\ s = dnodes[g].i_sectors[N_DIRECT]
    OBVIOUS
  <2>3. Owned(a, s, dbits, {}) /\ Shape(dnodes[g], dsec)
    BY <2>2 DEF AllOwn, Fits
  <2>4. (\A k \in Slot : a[k] # 0 => a[k] \in dbits2) /\ (s # 0 => s \in dbits2)
    BY <2>1, <2>2 DEF Refs
  <2>5. Owned(a, s, dbits2, {})
    BY <2>3, <2>4 DEF Owned
  <2> QED
    BY <1>5, <2>2, <2>3, <2>5 DEF Fits
<1>7. AllOwn(dnodes, dsec2, dbits2)
  <2>1. \A g, h \in File : g # h => Refs(dnodes[g], dsec2) \cap Refs(dnodes[h], dsec2) = {}
    BY <1>5 DEF AllOwn
  <2> QED
    BY <1>6, <2>1 DEF AllOwn
<1>8. Spares(Tail(wr), dnodes, dsec2)
  BY <1>1, <1>2, <1>3, <1>5 DEF Spares
<1> QED
  BY <1>7, <1>8, SMTT(30)

----------------------------------------------------------------------------
(* Steps of the system.                                                    *)

\* What the pending writes lead to is memory, and sound
SettledOwn ==
    \E data \in [Block -> Sector] :
        /\ Settles(pending, disk_bitmap, disk_inode, sector, block_bitmap, inode, data)
        /\ damaged # File => AllOwn(inode, data, block_bitmap)

\* While a call that no power cut can hurt is under way, the disk is sound as it is
OwnOnDisk ==
    damaged # File /\ ~risky /\ pending # <<>> =>
        AllOwn(disk_inode, sector, disk_bitmap) /\ Spares(pending, disk_inode, sector)

\* The inductive invariant
IInv ==
    /\ TypeOK
    /\ pending \in Seq(AnyWrite) /\ Ordered(pending)
    /\ SettledOwn
    /\ OwnOnDisk

\* TypeOK in the terms of the proofs.
LEMMA Types ==
    ASSUME TypeOK
    PROVE  /\ block_bitmap \in SUBSET Block /\ disk_bitmap \in SUBSET Block
           /\ inode \in [File -> Node] /\ disk_inode \in [File -> Node]
           /\ sector \in [Block -> Sector] /\ fd_pos \in [File -> Nat]
           /\ damaged \in SUBSET File /\ calls \in Nat
           /\ \A f \in File : inode[f] \in Node /\ inode[f].i_size \in 0..MAX_SIZE
                              /\ inode[f].i_size \in Nat /\ fd_pos[f] \in Nat
<1>1. inode \in [File -> Node] /\ disk_inode \in [File -> Node]
  BY DEF TypeOK, Node, Ref
<1>2. \A f \in File : inode[f] \in Node /\ inode[f].i_size \in 0..MAX_SIZE /\ inode[f].i_size \in Nat
  BY <1>1, Sizes DEF Node
<1>3. MAX_CALLS \in Nat
  BY FileBlocksAssumption
<1> QED
  BY <1>1, <1>2, <1>3 DEF TypeOK

\* Between calls memory and disk agree.
LEMMA Quiet ==
    ASSUME IInv, pending = <<>>
    PROVE  /\ disk_bitmap = block_bitmap /\ disk_inode = inode
           /\ damaged # File => AllOwn(inode, sector, block_bitmap)
<1>1. PICK data \in [Block -> Sector] :
        /\ Settles(<<>>, disk_bitmap, disk_inode, sector, block_bitmap, inode, data)
        /\ damaged # File => AllOwn(inode, data, block_bitmap)
  BY DEF IInv, SettledOwn
<1>2. disk_bitmap = block_bitmap
  BY <1>1, BecomesNothing DEF Settles
<1>3. \A f \in File : disk_inode[f] = inode[f]
  BY <1>1, BecomesNothing DEF Settles
<1>4. \A b \in Block : sector[b] = data[b]
  BY <1>1, BecomesNothing DEF Settles
<1>5. disk_inode = inode
  BY <1>3, Types DEF IInv
<1>6. sector = data
  BY <1>4, Types DEF IInv
<1> QED
  BY <1>1, <1>2, <1>5, <1>6

\* An empty partition has the invariant.
LEMMA InitInv == Init => IInv
<1> SUFFICES ASSUME Init PROVE IInv
  OBVIOUS
<1> USE Sizes
<1>1. NewInode \in Node
  <2>1. 0 \in 0..MAX_SIZE /\ 0 \in Ref
    BY DEF Ref
  <2> QED
    BY <2>1 DEF NewInode, Node
<1>2. inode = [f \in File |-> NewInode] /\ inode \in [File -> Node] /\ disk_inode = inode
  BY <1>1 DEF Init
<1>3. PICK old \in Bytes : sector = [b \in Block |-> [Zeroed EXCEPT ![BLOCK_SIZE - 1] = old]]
  BY DEF Init
<1>4. sector \in [Block -> Sector]
  <2>1. old \in Cell
    BY DEF Cell
  <2>2. Zeroed \in [0..(BLOCK_SIZE - 1) -> Cell]
    BY ZeroedSector DEF Sector
  <2>3. [Zeroed EXCEPT ![BLOCK_SIZE - 1] = old] \in Sector
    BY <2>1, <2>2 DEF Sector
  <2> QED
    BY <1>3, <2>3
<1>5. TypeOK
  <2>1. \A node \in {inode, disk_inode} :
           node \in [File -> [i_size : 0..MAX_SIZE, i_sectors : [0..N_DIRECT -> Block \cup {0}]]]
    BY <1>2 DEF Node, Ref
  <2>2. fd_pos \in [File -> Nat] /\ calls \in 0..MAX_CALLS /\ crashes \in 0..MAX_CRASHES
    BY FileBlocksAssumption DEF Init
  <2> QED
    BY <1>4, <2>1, <2>2 DEF Init, TypeOK
<1>6. pending \in Seq(AnyWrite) /\ Ordered(pending) /\ pending = <<>>
  <2>1. pending = <<>> /\ <<>> \in Seq(AnyWrite) /\ Len(<<>>) = 0
    BY DEF Init
  <2>2. (\A i \in 1..(0 - 1) : FALSE) /\ \A i \in 1..0 : FALSE
    OBVIOUS
  <2> QED
    BY <2>1, <2>2 DEF Ordered
<1>7. \A f \in File : inode[f] = NewInode
  BY <1>2
<1>8. \A k \in Slot : all_blocks(NewInode, sector)[k] = 0
  <2>1. NewInode.i_sectors[N_DIRECT] = 0 /\ \A k \in 0..(N_DIRECT - 1) : NewInode.i_sectors[k] = 0
    BY DEF NewInode
  <2>2. \A k \in 0..(N_DIRECT - 1) : all_blocks(NewInode, sector)[k] = 0
    BY <2>1, AllBlocks
  <2>3. \A k \in N_DIRECT..(MAX_BLOCKS - 1) : all_blocks(NewInode, sector)[k] = 0
    <3> HIDE Sizes
    <3> QED
      BY <2>1, AllBlocks
  <2>4. \A p \in Slot : p \in 0..(N_DIRECT - 1) \/ p \in N_DIRECT..(MAX_BLOCKS - 1)
    BY DEF Slot
  <2> QED
    BY <2>2, <2>3, <2>4
<1>9. NewInode.i_sectors[N_DIRECT] = 0
  BY DEF NewInode
<1>10. AllOwn(inode, sector, block_bitmap)
  <2>1. Refs(NewInode, sector) = {}
    BY <1>8, <1>9 DEF Refs
  <2>2. Owned(all_blocks(NewInode, sector), 0, block_bitmap, {})
    BY <1>8 DEF Owned
  <2>3. Fits(NewInode, sector, block_bitmap, {})
    BY <1>9, <2>2 DEF Fits, Shape
  <2> QED
    BY <1>7, <2>1, <2>3 DEF AllOwn
<1>11. Settles(pending, disk_bitmap, disk_inode, sector, block_bitmap, inode, sector)
  BY <1>2, <1>6, BecomesNothing DEF Init, Settles
<1>12. SettledOwn
  BY <1>4, <1>10, <1>11 DEF SettledOwn
<1>13. OwnOnDisk
  BY <1>6 DEF OwnOnDisk
<1> QED
  BY <1>5, <1>6, <1>12, <1>13 DEF IInv

\* A call returns.
LEMMA ReturnKeeps ==
    ASSUME IInv, Ready, NEW f \in File, NEW oth, oth = Others(f, inode, sector),
           NEW st, Done(st, oth, sector, block_bitmap), NEW node \in Node,
           NEW r, r.bits = st.bits, r.node = node,
           r.wr = Append(st.wr, [to |-> "inode", at |-> f, val |-> node]),
           Return(f, r), TypeOK',
           damaged' # File => Fits(node, st.data, st.bits, oth)
    PROVE  IInv'
<1>1. PICK w : w = [to |-> "inode", at |-> f, val |-> node]
  OBVIOUS
<1>2. PICK wr : wr = Append(st.wr, w)
  OBVIOUS
<1>3. PICK nodes \in [File -> Node], data \in [Block -> Sector], bits \in SUBSET Block :
          nodes = inode /\ data = sector /\ bits = block_bitmap
  BY Types DEF IInv
<1>4. /\ wr \in Seq(AnyWrite) /\ wr # <<>>
      /\ Ordered(wr)
      /\ Settles(wr, bits, nodes, data, st.bits, [nodes EXCEPT ![f] = node], st.data)
      /\ Kept(wr, oth, bits \cap st.bits)
  <2>1. Done(st, oth, data, bits)
    BY <1>3
  <2> QED
    BY <1>1, <1>2, <2>1, ReturnedWrites
<1>5. /\ pending' = wr /\ block_bitmap' = st.bits /\ inode' = [nodes EXCEPT ![f] = node]
      /\ disk_bitmap' = disk_bitmap /\ disk_inode' = disk_inode /\ sector' = sector
      /\ risky' = ChangesInPlace(f, r)
  BY <1>1, <1>2, <1>3 DEF Return, disk
<1>6. pending = <<>> /\ damaged # File
  BY DEF Ready
<1>7. disk_bitmap = bits /\ disk_inode = nodes /\ AllOwn(nodes, data, bits)
  BY <1>3, <1>6, Quiet
<1>8. PICK new \in [Block -> Sector] : new = st.data
  BY DEF Done, St
<1>9. PICK nodes2 : nodes2 = [nodes EXCEPT ![f] = node]
  OBVIOUS
<1>10. Settles(wr, bits, nodes, data, st.bits, nodes2, new)
  BY <1>4, <1>8, <1>9
<1>11. Settles(pending, disk_bitmap, disk_inode, sector, block_bitmap, inode, new)'
  BY <1>3, <1>5, <1>7, <1>9, <1>10 DEF Settles
<1>12. \A b \in oth : new[b] = data[b]
  BY <1>3, <1>8 DEF Done, Out, Written
<1>13. ASSUME Fits(node, st.data, st.bits, oth) PROVE AllOwn(nodes2, new, st.bits)
  <2>1. PICK low : low = st.bits
    OBVIOUS
  <2>2. Fits(node, new, low, oth)
    BY <1>8, <1>13, <2>1
  <2>3. oth = Others(f, nodes, data)
    BY <1>3
  <2>4. AllOwn([nodes EXCEPT ![f] = node], new, low)
    BY <1>7, <1>12, <2>2, <2>3, AfterOwn
  <2> QED
    BY <1>9, <2>1, <2>4
<1>14. SettledOwn'
  <2>1. (damaged # File => AllOwn(inode, new, block_bitmap))'
    BY <1>5, <1>9, <1>13 DEF AllOwn
  <2> QED
    BY <1>11, <2>1 DEF SettledOwn
<1>15. OwnOnDisk'
  <2>1. SUFFICES ASSUME ~ChangesInPlace(f, r)
        PROVE  AllOwn(nodes, data, bits) /\ Spares(wr, nodes, data)
    BY <1>3, <1>5, <1>7 DEF OwnOnDisk, AllOwn, Spares
  <2>2. bits \subseteq st.bits
    BY <1>3, <2>1 DEF ChangesInPlace
  <2>3. \A i \in 1..Len(wr) : wr[i].to = "block" => wr[i].at # nodes[f].i_sectors[N_DIRECT]
    BY <1>1, <1>2, <1>7, <2>1 DEF ChangesInPlace
  <2>4. \A i \in 1..Len(wr) : wr[i].to = "block" => wr[i].at \in Block
    <3>1. \A i \in 1..Len(wr) : wr[i] \in AnyWrite
      BY <1>4
    <3>2. \A x \in AnyWrite : x.to = "block" => x.at \in Block
      BY DEF AnyWrite, DataWrite, InodeWrite
    <3> QED
      BY <3>1, <3>2
  <2>5. ASSUME NEW i \in 1..Len(wr), wr[i].to = "block", NEW g \in File
        PROVE  wr[i].at # nodes[g].i_sectors[N_DIRECT]
    <3>1. CASE g = f
      BY <2>3, <2>5, <3>1
    <3>2. CASE g # f
      <4>1. Refs(nodes[g], data) \subseteq oth
        BY <1>3, <3>2 DEF Others
      <4>2. wr[i].at \notin oth /\ wr[i].at # 0
        BY <1>4, <2>4, <2>5, Sizes DEF Kept
      <4> QED
        BY <4>1, <4>2 DEF Refs
    <3> QED
      BY <3>1, <3>2
  <2>6. ASSUME NEW g \in File PROVE Refs(nodes[g], data) \subseteq bits
    <3>1. Owned(all_blocks(nodes[g], data), nodes[g].i_sectors[N_DIRECT], bits, {})
      BY <1>7 DEF AllOwn, Fits
    <3>2. PICK nd, none : nd = nodes[g] /\ none = {}
      OBVIOUS
    <3>3. Owned(all_blocks(nd, data), nd.i_sectors[N_DIRECT], bits, none)
      BY <3>1, <3>2
    <3>4. Refs(nd, data) \subseteq bits \ none
      BY <3>3 DEF Refs, Owned
    <3> QED
      BY <3>2, <3>4
  <2>7. ASSUME NEW i \in 1..Len(wr), wr[i].to = "bitmap", NEW g \in File
        PROVE  Refs(nodes[g], data) \subseteq wr[i].val
    <3>1. bits \cap st.bits \subseteq wr[i].val
      BY <1>4, <2>7 DEF Kept
    <3> QED
      BY <2>2, <2>6, <3>1
  <2>8. Spares(wr, nodes, data)
    BY <2>5, <2>7 DEF Spares
  <2> QED
    BY <1>7, <2>8
<1>16. (pending \in Seq(AnyWrite) /\ Ordered(pending))'
  <2>1. AnyWrite' = AnyWrite
    OBVIOUS
  <2> QED
    BY <1>4, <1>5 DEF Ordered
<1> QED
  BY <1>14, <1>15, <1>16 DEF IInv

\* inode_sync: the size, and one write of the inode.
LEMMA InodeSync ==
    ASSUME NEW st, st \in St, NEW n, n \in 0..MAX_SIZE, NEW f,
           NEW node, node = [st.node EXCEPT !.i_size = n],
           NEW r, r = inode_sync([st EXCEPT !.node = node], f)
    PROVE  /\ node \in Node /\ node.i_size = n /\ node.i_sectors = st.node.i_sectors
           /\ r.bits = st.bits /\ r.node = node
           /\ r.wr = Append(st.wr, [to |-> "inode", at |-> f, val |-> node])
<1>1. st.node \in Node
  BY DEF St
<1>2. node \in Node /\ node.i_size = n /\ node.i_sectors = st.node.i_sectors
  BY <1>1 DEF Node
<1>3. PICK x : x = [st EXCEPT !.node = node]
  OBVIOUS
<1>4. x \in St /\ x.node = node /\ x.bits = st.bits /\ x.wr = st.wr
  BY <1>2, <1>3 DEF St
<1>5. PICK w : w = [to |-> "inode", at |-> f, val |-> node]
  OBVIOUS
<1>6. r = [x EXCEPT !.wr = Append(x.wr, w)]
  BY <1>3, <1>4, <1>5 DEF inode_sync
<1>7. PICK l : l = Append(x.wr, w)
  OBVIOUS
<1>8. r = [x EXCEPT !.wr = l]
  BY <1>6, <1>7
<1>9. r.bits = x.bits /\ r.node = x.node /\ r.wr = l
  BY <1>4, <1>8 DEF St
<1> QED
  BY <1>2, <1>4, <1>5, <1>7, <1>9

\* The types after a call.
LEMMA CallTypes ==
    ASSUME TypeOK, Ready, NEW f \in File, NEW bits \in SUBSET Block, NEW node \in Node, NEW n \in Nat,
           block_bitmap' = bits, inode' = [inode EXCEPT ![f] = node], caller' = f,
           UNCHANGED disk, fd_pos' = [fd_pos EXCEPT ![f] = @ + n],
           risky' \in BOOLEAN, damaged' \subseteq File, panic' \in BOOLEAN, calls' = calls + 1,
           UNCHANGED crashes
    PROVE  TypeOK'
<1>1. inode' \in [File -> Node] /\ disk_inode' \in [File -> Node]
  BY Types DEF disk
<1>2. fd_pos' \in [File -> Nat]
  BY Types
<1>3. calls' \in 0..MAX_CALLS
  BY FileBlocksAssumption DEF TypeOK, Ready
<1>4. disk_bitmap' \subseteq Block /\ sector' \in [Block -> Sector] /\ block_bitmap' \subseteq Block
  BY Types DEF disk
<1>5. \A nd \in {inode', disk_inode'} :
          nd \in [File -> [i_size : 0..MAX_SIZE, i_sectors : [0..N_DIRECT -> Block \cup {0}]]]
  BY <1>1 DEF Node, Ref
<1>6. crashes' \in 0..MAX_CRASHES
  BY DEF TypeOK
<1> QED
  BY <1>2, <1>3, <1>4, <1>5, <1>6 DEF TypeOK

\* Between calls the file a call starts from is good.
LEMMA BeginHere ==
    ASSUME IInv, Ready, NEW f \in File, NEW end
    PROVE  /\ Good(Begin(f), Others(f, inode, sector), sector, block_bitmap, 0, end)
           /\ Begin(f).bits = block_bitmap /\ Begin(f).node = inode[f]
<1>1. PICK nodes \in [File -> Node], data \in [Block -> Sector], bits \in SUBSET Block :
          nodes = inode /\ data = sector /\ bits = block_bitmap
  BY Types DEF IInv
<1>2. AllOwn(nodes, data, bits)
  BY <1>1, Quiet DEF Ready
<1>3. PICK oth : oth = Others(f, nodes, data)
  OBVIOUS
<1>4. PICK st : st = [bits |-> bits, node |-> nodes[f], all |-> all_blocks(nodes[f], data),
                      second |-> nodes[f].i_sectors[N_DIRECT], data |-> data, wr |-> <<>>]
  OBVIOUS
<1>5. Good(st, oth, data, bits, 0, end)
  BY <1>2, <1>3, <1>4, BeginGood
<1>6. st = Begin(f)
  BY <1>1, <1>4 DEF Begin
<1>7. st.bits = bits /\ st.node = nodes[f]
  BY <1>4
<1> QED
  BY <1>1, <1>3, <1>5, <1>6, <1>7

\* file_write keeps the invariant.
LEMMA WriteInv ==
    ASSUME IInv, NEW f \in File, user_file_write(f)
    PROVE  IInv'
<1> USE Sizes
<1>1. Ready /\ calls' = calls + 1 /\ panic' = panic /\ crashes' = crashes
  BY DEF user_file_write
<1>2. PICK bufsize \in Bufsize, v \in Bytes :
           /\ fd_pos[f] < MAX_SIZE /\ fd_pos[f] + bufsize <= MAX_SIZE
           /\ 0 \notin file_write(f, fd_pos[f], bufsize, v).bits
           /\ Return(f, file_write(f, fd_pos[f], bufsize, v))
           /\ damaged' = IF LosesEnd(file_write(f, fd_pos[f], bufsize, v)) THEN damaged \cup {f} ELSE damaged
           /\ fd_pos' = [fd_pos EXCEPT ![f] = @ + bufsize]
  BY DEF user_file_write, Position
<1>3. bufsize \in Nat /\ fd_pos[f] \in Nat /\ TypeOK
  BY FileBlocksAssumption, Types DEF IInv
<1>4. PICK offset \in Nat, end \in Nat : offset = fd_pos[f] /\ end = offset + bufsize
  BY <1>3
<1>5. PICK r : r = file_write(f, offset, bufsize, v)
  OBVIOUS
<1>6. PICK done : done = WriteAll(Begin(f), Upto(0, LastBlk(offset, bufsize)), offset, bufsize, v)
  OBVIOUS
<1>7. r = inode_sync([done EXCEPT !.node.i_size = Larger(@, offset + bufsize)], f)
  <2> HIDE Sizes
  <2> QED
    BY <1>5, <1>6, Zenon DEF file_write, WriteAll, LastBlk
<1>8. PICK oth : oth = Others(f, inode, sector)
  OBVIOUS
<1>9. Good(Begin(f), oth, sector, block_bitmap, 0, end)
  BY <1>1, <1>8, BeginHere
<1>10. PICK base, dat, low : base = Begin(f) /\ dat = sector /\ low = block_bitmap
  OBVIOUS
<1>11. Stopped(done) \/ \E m : Good(done, oth, dat, low, m, end)
  <2>1. Good(base, oth, dat, low, 0, end) /\ offset < MAX_SIZE /\ offset + bufsize <= MAX_SIZE
    BY <1>2, <1>4, <1>9, <1>10
  <2>2. done = WriteAll(base, Upto(0, LastBlk(offset, bufsize)), offset, bufsize, v)
    BY <1>6, <1>10
  <2> HIDE Sizes
  <2> QED
    BY <1>3, <1>4, <2>1, <2>2, FileWriteBlocks
<1>12. done \in St
  BY <1>11 DEF Stopped, Good
<1>13. done.node.i_size \in 0..MAX_SIZE
  BY <1>12 DEF St, Node
<1>14. PICK n \in 0..MAX_SIZE : n = Larger(done.node.i_size, offset + bufsize) /\ n >= end /\ n >= done.node.i_size
  <2>1. PICK x \in 0..MAX_SIZE : x = done.node.i_size
    BY <1>13
  <2>2. end \in 0..MAX_SIZE
    BY <1>2, <1>4
  <2>3. CASE x > end
    BY <1>4, <2>1, <2>2, <2>3 DEF Larger
  <2>4. CASE ~(x > end)
    BY <1>4, <2>1, <2>2, <2>4 DEF Larger
  <2> QED
    BY <2>3, <2>4
<1>15. PICK node : node = [done.node EXCEPT !.i_size = n]
  OBVIOUS
<1>16. r = inode_sync([done EXCEPT !.node = node], f)
  BY <1>7, <1>14, <1>15
<1>17. /\ node \in Node /\ node.i_size = n /\ node.i_sectors = done.node.i_sectors
       /\ r.bits = done.bits /\ r.node = node
       /\ r.wr = Append(done.wr, [to |-> "inode", at |-> f, val |-> node])
  <2> HIDE Sizes
  <2> QED
    BY <1>12, <1>14, <1>15, <1>16, InodeSync, SMTT(30)
<1>18. 0 \notin done.bits
  BY <1>2, <1>4, <1>5, <1>17
<1>19. PICK m : Good(done, oth, dat, low, m, end)
  BY <1>11, <1>18 DEF Stopped
<1>20. Done(done, oth, dat, low) /\ Fits(node, done.data, done.bits, oth)
  <2>1. node.i_size >= done.node.i_size /\ node.i_size >= end
    BY <1>14, <1>17
  <2> HIDE Sizes
  <2> QED
    BY <1>17, <1>19, <2>1, GoodFits
<1>21. Return(f, r)
  BY <1>2, <1>4, <1>5
<1>22. TypeOK'
  <2>1. PICK bits \in SUBSET Block : bits = done.bits
    BY <1>20 DEF Done
  <2>2. /\ block_bitmap' = bits /\ inode' = [inode EXCEPT ![f] = node] /\ caller' = f
        /\ UNCHANGED disk
    BY <1>17, <1>21, <2>1 DEF Return
  <2>3. risky' \in BOOLEAN
    BY <1>21 DEF Return, ChangesInPlace
  <2>4. damaged' \subseteq File
    BY <1>2, <1>3, Types
  <2>5. panic' \in BOOLEAN
    BY <1>1, <1>3 DEF TypeOK
  <2> HIDE Sizes
  <2> QED
    BY <1>1, <1>2, <1>3, <1>17, <2>2, <2>3, <2>4, <2>5, CallTypes
<1> HIDE Sizes
<1> QED
  BY <1>1, <1>8, <1>10, <1>17, <1>20, <1>21, <1>22, ReturnKeeps

\* Freeing keeps the types.
LEMMA FreeFromSt ==
    ASSUME NEW base, NEW oth, NEW dat, NEW low,
           Good(base, oth, dat, low, 0, 0), base.bits = low,
           NEW k \in Nat, k <= MAX_BLOCKS, NEW r, r = FreeFrom(base, k)
    PROVE  r \in St
<1>1. PICK e \in Nat : k <= e /\ e <= MAX_BLOCKS /\ Cardinality(FreedRun(base, k)) = e - k
  BY RunEnds
<1>2. PICK n \in Nat : n = e - k /\ k + n <= MAX_BLOCKS
  BY <1>1, Sizes
<1>3. PICK c : c = Upto(k, k + Cardinality(FreedRun(base, k)) - 1) /\ Counts(c, k, n)
  BY <1>1, <1>2 DEF Counts
<1>4. PICK st : st = FreeAll(base, c)
  OBVIOUS
<1>5. Cut(st, base, oth, dat, low, k, n)
  BY <1>2, <1>3, <1>4, FreeBlocks
<1>6. st \in St
  BY <1>5 DEF Cut
<1>7. base.second \in Ref
  BY GoodParts
<1>8. CASE k > N_DIRECT
  <2>1. r = ide_write(st, base.second, IndexBlock(st))
    BY <1>3, <1>4, <1>8, Zenon DEF FreeFrom, FreeAll
  <2>2. IndexBlock(st) \in Sector
    BY <1>6, IndexBlockSector
  <2> QED
    BY <1>6, <1>7, <2>1, <2>2, IdeWriteAny
<1>9. CASE ~(k > N_DIRECT) /\ base.second # 0
  <2>1. PICK y : y = block_bitmap_dealloc(st, base.second)
    OBVIOUS
  <2>2. r = bitmap_sync(y)
    BY <1>3, <1>4, <1>9, <2>1, Zenon DEF FreeFrom, FreeAll
  <2>3. y \in St
    <3>1. st.bits \ {base.second} \in SUBSET Ref
      BY <1>6 DEF St
    <3> QED
      BY <1>6, <2>1, <3>1 DEF St, block_bitmap_dealloc
  <2> QED
    BY <2>2, <2>3, BitmapSync
<1>10. CASE ~(k > N_DIRECT) /\ base.second = 0
  <2>1. r = st
    BY <1>3, <1>4, <1>10, Zenon DEF FreeFrom, FreeAll
  <2> QED
    BY <1>6, <2>1
<1> QED
  BY <1>8, <1>9, <1>10

\* What file_remove_some_content leaves; fits unless its ASSERT failed.
Left(r, f, st, node, oth, dat, low) ==
    /\ Done(st, oth, dat, low) /\ node \in Node
    /\ r.bits = st.bits /\ r.node = node
    /\ r.wr = Append(st.wr, [to |-> "inode", at |-> f, val |-> node])

\* The end is cut off.
LEMMA CutLeft ==
    ASSUME NEW base, NEW oth, NEW dat, NEW low, NEW f,
           Good(base, oth, dat, low, 0, 0), base.bits = low,
           NEW offset \in Nat, offset < MAX_SIZE,
           NEW trim, trim = IF offset % BLOCK_SIZE = 0 THEN base
                            ELSE Overwrite(base, offset \div BLOCK_SIZE, offset % BLOCK_SIZE,
                                           BLOCK_SIZE - (offset % BLOCK_SIZE), 0),
           NEW r, r = inode_sync([FreeFrom(trim, FreeStart(offset)) EXCEPT !.node.i_size = offset], f)
    PROVE  \E st, node : /\ Left(r, f, st, node, oth, dat, low)
                         /\ CutAssert(base, FreeStart(offset)) => Fits(node, st.data, st.bits, oth)
<1> USE Sizes
<1>1. PICK q \in Nat : q = offset \div BLOCK_SIZE /\ q \in Slot
  <2>1. PICK q \in Nat : q = offset \div BLOCK_SIZE /\ q * BLOCK_SIZE <= offset
    BY Quotient
  <2>2. q * BLOCK_SIZE < MAX_BLOCKS * BLOCK_SIZE
    BY <2>1, Multiples
  <2>3. q < MAX_BLOCKS
    BY <2>1, <2>2, Multiples
  <2> QED
    BY <2>1, <2>3 DEF Slot
<1>2. PICK x : Good(x, oth, dat, low, 0, 0) /\ x = trim
             /\ x.bits = base.bits /\ x.node = base.node /\ x.all = base.all /\ x.second = base.second
  <2>1. CASE offset % BLOCK_SIZE = 0
    BY <2>1
  <2>2. CASE offset % BLOCK_SIZE # 0
    <3>1. PICK left, len : left = offset % BLOCK_SIZE /\ len = BLOCK_SIZE - left
      OBVIOUS
    <3>2. PICK y : y = trim /\ y = Overwrite(base, q, left, len, 0)
      BY <1>1, <2>2, <3>1
    <3>3. 0 \in Cell
      BY DEF Cell
    <3>4. y = Overwrite(base, q, left, len, 0)
      BY <3>2
    <3>5. /\ Good(y, oth, dat, low, 0, 0)
          /\ y.bits = base.bits /\ y.node = base.node /\ y.all = base.all /\ y.second = base.second
      <4> HIDE Sizes
      <4> QED
        BY <1>1, <3>3, <3>4, OverwriteGood
    <3> QED
      BY <3>2, <3>5
  <2> QED
    BY <2>1, <2>2
<1>3. PICK k : k = FreeStart(offset) /\ k \in Nat /\ k <= MAX_BLOCKS
  BY RoundUp DEF FreeStart
<1>4. PICK st : st = FreeFrom(x, k)
  OBVIOUS
<1>5. Good(x, oth, dat, low, 0, 0) /\ x.bits = low
  BY <1>2
<1>6. st \in St
  <2>1. k \in Nat /\ k <= MAX_BLOCKS
    BY <1>3
  <2> HIDE Sizes
  <2> QED
    BY <1>4, <1>5, <2>1, FreeFromSt
<1>7. offset \in 0..MAX_SIZE
  OBVIOUS
<1>8. PICK node : node = [st.node EXCEPT !.i_size = offset]
  OBVIOUS
<1>9. r = inode_sync([st EXCEPT !.node = node], f)
  BY <1>2, <1>3, <1>4, <1>8
<1>10. /\ node \in Node /\ node.i_size = offset /\ node.i_sectors = st.node.i_sectors
       /\ r.bits = st.bits /\ r.node = node
       /\ r.wr = Append(st.wr, [to |-> "inode", at |-> f, val |-> node])
  <2>1. PICK z, n : z = r /\ n = offset
    OBVIOUS
  <2>2. /\ n \in 0..MAX_SIZE /\ node = [st.node EXCEPT !.i_size = n]
        /\ z = inode_sync([st EXCEPT !.node = node], f)
    BY <1>7, <1>8, <1>9, <2>1
  <2> HIDE Sizes
  <2>3. /\ node \in Node /\ node.i_size = n /\ node.i_sectors = st.node.i_sectors
        /\ z.bits = st.bits /\ z.node = node
        /\ z.wr = Append(st.wr, [to |-> "inode", at |-> f, val |-> node])
    BY <1>6, <2>2, InodeSync
  <2> QED
    BY <2>1, <2>3
<1>11. Done(st, oth, dat, low) /\ (CutAssert(x, k) => Fits(node, st.data, st.bits, oth))
  <2>1. offset <= MAX_SIZE /\ k = FreeStart(offset)
    BY <1>3
  <2> HIDE Sizes
  <2> QED
    BY <1>4, <1>5, <1>10, <2>1, FreeFromDone
<1>12. CutAssert(base, k) => CutAssert(x, k)
  <2>1. FreedRun(x, k) = FreedRun(base, k)
    BY <1>2 DEF FreedRun
  <2> QED
    BY <1>2, <2>1 DEF CutAssert
<1>13. Left(r, f, st, node, oth, dat, low)
  BY <1>10, <1>11 DEF Left
<1> QED
  BY <1>3, <1>11, <1>12, <1>13

\* A range in the middle is zeroed.
LEMMA ZeroLeft ==
    ASSUME NEW base, NEW oth, NEW dat, NEW low, NEW f,
           Good(base, oth, dat, low, 0, 0), base.bits = low,
           NEW offset \in Nat, NEW size \in Nat, offset + size < MAX_SIZE,
           NEW st, st = ZeroAll(base, Upto(offset \div BLOCK_SIZE, (offset + size - 1) \div BLOCK_SIZE),
                                offset, size),
           NEW r, r = inode_sync(st, f)
    PROVE  \E node : Left(r, f, st, node, oth, dat, low) /\ Fits(node, st.data, st.bits, oth)
<1>1. Good(st, oth, dat, low, 0, 0) /\ st.node = base.node
  BY ZeroBlocks
<1>2. st \in St /\ st.node \in Node /\ st.node.i_size \in 0..MAX_SIZE
  BY <1>1, GoodParts
<1>3. PICK node, n : node = st.node /\ n = st.node.i_size
  OBVIOUS
<1>4. node = [st.node EXCEPT !.i_size = n]
  BY <1>2, <1>3 DEF Node
<1>5. st = [st EXCEPT !.node = node]
  BY <1>2, <1>3 DEF St
<1>6. r = inode_sync([st EXCEPT !.node = node], f)
  BY <1>5
<1>7. /\ node \in Node /\ node.i_size = n /\ node.i_sectors = st.node.i_sectors
      /\ r.bits = st.bits /\ r.node = node
      /\ r.wr = Append(st.wr, [to |-> "inode", at |-> f, val |-> node])
  <2>1. n \in 0..MAX_SIZE
    BY <1>2, <1>3
  <2> QED
    BY <1>2, <1>4, <1>6, <2>1, InodeSync
<1>8. Done(st, oth, dat, low) /\ Fits(node, st.data, st.bits, oth)
  <2>1. 0 \in Nat /\ node.i_size >= 0 /\ node.i_size >= st.node.i_size
    BY <1>2, <1>3, <1>7, Sizes
  <2> QED
    BY <1>1, <1>7, <2>1, GoodFits
<1> QED
  BY <1>7, <1>8 DEF Left

\* file_remove_some_content keeps the invariant.
LEMMA RemoveInv ==
    ASSUME IInv, NEW f \in File, user_file_remove_some_content(f)
    PROVE  IInv'
<1> USE Sizes
<1>1. Ready /\ calls' = calls + 1 /\ crashes' = crashes /\ fd_pos[f] < inode[f].i_size
  BY DEF user_file_remove_some_content, Position
<1>2. PICK size \in Bufsize :
        LET cut == Smaller(size, inode[f].i_size - fd_pos[f])
            st  == file_remove_some_content(f, fd_pos[f], cut)
            failed == Truncates(f, fd_pos[f], cut) /\ ~CutAssert(Begin(f), FreeStart(fd_pos[f]))
        IN  /\ Return(f, st)
            /\ panic' = failed
            /\ damaged' = IF failed THEN File ELSE damaged
            /\ fd_pos' = [fd_pos EXCEPT ![f] = @ + size]
  BY DEF user_file_remove_some_content, Position
<1>3. size \in Nat /\ fd_pos[f] \in Nat /\ TypeOK /\ inode[f].i_size \in 0..MAX_SIZE /\ inode[f] \in Node
  BY FileBlocksAssumption, Types DEF IInv
<1>4. PICK offset \in Nat : offset = fd_pos[f] /\ offset < inode[f].i_size /\ offset < MAX_SIZE
  BY <1>1, <1>3
<1>5. PICK cut \in Nat : cut = Smaller(size, inode[f].i_size - offset)
  <2>1. PICK x \in 0..MAX_SIZE : x = inode[f].i_size
    BY <1>3
  <2>2. offset < x
    BY <1>4, <2>1
  <2>3. CASE size < x - offset
    BY <1>3, <2>1, <2>2, <2>3 DEF Smaller
  <2>4. CASE ~(size < x - offset)
    BY <1>3, <2>1, <2>2, <2>4 DEF Smaller
  <2> QED
    BY <2>3, <2>4
<1>6. PICK r : r = file_remove_some_content(f, offset, cut)
  OBVIOUS
<1>7. PICK failed \in BOOLEAN :
        failed <=> Truncates(f, offset, cut) /\ ~CutAssert(Begin(f), FreeStart(offset))
  OBVIOUS
<1>8. /\ Return(f, r) /\ panic' = failed /\ damaged' = IF failed THEN File ELSE damaged
      /\ fd_pos' = [fd_pos EXCEPT ![f] = @ + size]
  BY <1>2, <1>4, <1>5, <1>6, <1>7
<1>9. PICK oth : oth = Others(f, inode, sector)
  OBVIOUS
<1>10. PICK base, dat, low : base = Begin(f) /\ dat = sector /\ low = block_bitmap
  OBVIOUS
<1>11. Good(base, oth, dat, low, 0, 0) /\ base.bits = low
  BY <1>1, <1>9, <1>10, BeginHere
<1>12. PICK st, node : /\ Left(r, f, st, node, oth, dat, low)
                       /\ ~failed => Fits(node, st.data, st.bits, oth)
  <2>1. CASE Truncates(f, offset, cut)
    <3>1. PICK trim : trim = IF offset % BLOCK_SIZE = 0 THEN base
                            ELSE Overwrite(base, offset \div BLOCK_SIZE, offset % BLOCK_SIZE,
                                           BLOCK_SIZE - (offset % BLOCK_SIZE), 0)
      OBVIOUS
    <3> HIDE Sizes
    <3>2. r = inode_sync([FreeFrom(trim, FreeStart(offset)) EXCEPT !.node.i_size = offset], f)
      BY <1>6, <1>10, <2>1, <3>1, Zenon DEF file_remove_some_content
    <3>3. PICK st, node : /\ Left(r, f, st, node, oth, dat, low)
                          /\ CutAssert(base, FreeStart(offset)) => Fits(node, st.data, st.bits, oth)
      BY <1>4, <1>11, <3>1, <3>2, CutLeft
    <3>4. ~failed => CutAssert(base, FreeStart(offset))
      BY <1>7, <1>10, <2>1
    <3> QED
      BY <3>3, <3>4
  <2>2. CASE ~Truncates(f, offset, cut)
    <3>1. PICK st : st = ZeroAll(base, Upto(offset \div BLOCK_SIZE, (offset + cut - 1) \div BLOCK_SIZE),
                                offset, cut)
      OBVIOUS
    <3>2. offset + cut < MAX_SIZE
      BY <1>3, <2>2 DEF Truncates
    <3> HIDE Sizes
    <3>3. r = inode_sync(st, f)
      BY <1>6, <1>10, <2>2, <3>1, Zenon DEF file_remove_some_content, ZeroAll
    <3>4. PICK node : Left(r, f, st, node, oth, dat, low) /\ Fits(node, st.data, st.bits, oth)
      BY <1>11, <3>1, <3>2, <3>3, ZeroLeft
    <3> QED
      BY <3>4
  <2> QED
    BY <2>1, <2>2
<1>13. /\ Done(st, oth, dat, low) /\ node \in Node
       /\ r.bits = st.bits /\ r.node = node
       /\ r.wr = Append(st.wr, [to |-> "inode", at |-> f, val |-> node])
  BY <1>12 DEF Left
<1>14. TypeOK'
  <2>1. PICK bits \in SUBSET Block : bits = st.bits
    BY <1>13 DEF Done
  <2>2. /\ block_bitmap' = bits /\ inode' = [inode EXCEPT ![f] = node] /\ caller' = f
        /\ UNCHANGED disk
    BY <1>8, <1>13, <2>1 DEF Return
  <2>3. risky' \in BOOLEAN
    BY <1>8 DEF Return, ChangesInPlace
  <2>4. damaged' \subseteq File
    BY <1>3, <1>8, Types
  <2>5. panic' \in BOOLEAN
    BY <1>8
  <2> HIDE Sizes
  <2> QED
    BY <1>1, <1>3, <1>8, <1>13, <2>2, <2>3, <2>4, <2>5, CallTypes
<1>15. damaged' # File => Fits(node, st.data, st.bits, oth)
  BY <1>8, <1>12
<1> HIDE Sizes
<1> QED
  BY <1>1, <1>8, <1>9, <1>10, <1>13, <1>14, <1>15, ReturnKeeps

\* A step that leaves all but positions alone.
LEMMA PositionKeeps ==
    ASSUME IInv, fd_pos' \in [File -> Nat], UNCHANGED <<memory, disk, pending, ghost, panic, calls, crashes>>
    PROVE  IInv'
<1>1. UNCHANGED <<block_bitmap, inode, disk_bitmap, disk_inode, sector, pending, caller, risky,
                  damaged, panic, calls, crashes>>
  BY DEF memory, disk, ghost
<1>2. TypeOK'
  BY <1>1 DEF IInv, TypeOK
<1>3. SettledOwn'
  BY <1>1 DEF IInv, SettledOwn, Settles, AllOwn
<1>4. OwnOnDisk'
  BY <1>1 DEF IInv, OwnOnDisk, AllOwn, Spares
<1>5. (pending \in Seq(AnyWrite) /\ Ordered(pending))'
  BY <1>1 DEF IInv, Ordered
<1> QED
  BY <1>2, <1>3, <1>4, <1>5 DEF IInv

\* A read that succeeds gives as many cells as the file has left.
LEMMA ReadLength ==
    ASSUME NEW node, NEW data, NEW offset, NEW bufsize, NEW n, n \in Nat,
           n = Smaller(bufsize, node.i_size - offset),
           NEW cells, cells = file_read(node, data, offset, bufsize), cells # Missing
    PROVE  Len(cells) = n
<1> DEFINE hole == {k \in 0..N_DIRECT : node.i_sectors[k] = 0}
           all == [k \in 0..(MAX_BLOCKS - 1) |->
                     IF \E h \in hole : h <= k THEN 0 ELSE all_blocks(node, data)[k]]
           lost == \E i \in 0..(Smaller(bufsize, node.i_size - offset) - 1) :
                     all[(offset + i) \div BLOCK_SIZE] = 0
           read == [i \in 1..Smaller(bufsize, node.i_size - offset) |->
                     data[all[(offset + (i - 1)) \div BLOCK_SIZE]][(offset + (i - 1)) % BLOCK_SIZE]]
<1>1. file_read(node, data, offset, bufsize) = IF lost THEN Missing ELSE read
  BY Zenon DEF file_read
<1>2. cells = read
  <2> HIDE DEF lost, read
  <2> QED
    BY <1>1
<1>3. DOMAIN cells = 1..n
  BY <1>2
<1>4. cells = [i \in 1..n |-> cells[i]]
  BY <1>2, <1>3, Zenon
<1> QED
  BY <1>4

\* file_read keeps the invariant.
LEMMA ReadInv ==
    ASSUME IInv, NEW f \in File, user_file_read(f)
    PROVE  IInv'
<1>1. fd_pos[f] \in Nat /\ inode[f].i_size \in Nat /\ fd_pos \in [File -> Nat]
  BY Types DEF IInv
<1>2. PICK bufsize, cnt :
        /\ bufsize \in Bufsize
        /\ cnt = IF Position(f) >= inode[f].i_size
                    \/ file_read(inode[f], sector, Position(f), bufsize) = Missing THEN -1
                 ELSE Len(file_read(inode[f], sector, Position(f), bufsize))
        /\ fd_pos' = [fd_pos EXCEPT ![f] = Moved(@, cnt)]
  BY DEF user_file_read
<1>3. cnt = -1 \/ cnt \in Nat
  <2>1. PICK cells : cells = file_read(inode[f], sector, Position(f), bufsize)
    OBVIOUS
  <2>2. CASE Position(f) >= inode[f].i_size \/ cells = Missing
    BY <1>2, <2>1, <2>2
  <2>3. CASE ~(Position(f) >= inode[f].i_size) /\ cells # Missing
    <3>1. PICK n \in Nat : n = Smaller(bufsize, inode[f].i_size - fd_pos[f])
      <4>1. PICK x \in Nat, y \in Nat : x = inode[f].i_size /\ y = fd_pos[f] /\ y < x /\ bufsize \in Nat
        BY <1>1, <1>2, <2>3, FileBlocksAssumption DEF Position
      <4>2. Smaller(bufsize, x - y) \in Nat
        BY <4>1 DEF Smaller
      <4> QED
        BY <4>1, <4>2
    <3>2. n = Smaller(bufsize, inode[f].i_size - Position(f))
      BY <3>1 DEF Position
    <3>3. Len(cells) = n
      BY <2>1, <2>3, <3>1, <3>2, ReadLength
    <3> QED
      BY <1>2, <2>1, <2>3, <3>1, <3>3
  <2> QED
    BY <2>2, <2>3
<1>4. Moved(fd_pos[f], cnt) \in Nat
  BY <1>1, <1>3 DEF Moved
<1>5. fd_pos' \in [File -> Nat]
  BY <1>1, <1>2, <1>4
<1> QED
  BY <1>5, PositionKeeps DEF user_file_read

\* A seek keeps the invariant.
LEMMA SeekInv ==
    ASSUME IInv, NEW f \in File, user_file_seekp(f)
    PROVE  IInv'
<1>1. inode[f].i_size \in Nat /\ fd_pos \in [File -> Nat]
  BY Types DEF IInv
<1>2. PICK pos \in 0..inode[f].i_size : fd_pos' = [fd_pos EXCEPT ![f] = pos]
  BY DEF user_file_seekp
<1>3. fd_pos' \in [File -> Nat]
  BY <1>1, <1>2
<1> QED
  BY <1>3, PositionKeeps DEF user_file_seekp

\* A sector that reaches the disk keeps the invariant.
LEMMA SectorInv ==
    ASSUME IInv, ide_write_sector
    PROVE  IInv'
<1>1. PICK w : w = Head(pending)
  OBVIOUS
<1>2. /\ pending # <<>> /\ pending' = Tail(pending)
      /\ disk_bitmap' = IF w.to = "bitmap" THEN w.val ELSE disk_bitmap
      /\ disk_inode' = IF w.to = "inode" THEN [disk_inode EXCEPT ![w.at] = w.val] ELSE disk_inode
      /\ sector' = IF w.to = "block" THEN [sector EXCEPT ![w.at] = w.val] ELSE sector
  BY <1>1 DEF ide_write_sector
<1>3. UNCHANGED <<block_bitmap, inode, fd_pos, caller, risky, damaged, panic, calls, crashes>>
  BY DEF ide_write_sector, memory, ghost
<1>4. PICK wr, dbits, dnodes, dsec, bits, nodes :
        /\ wr = pending /\ dbits = disk_bitmap /\ dnodes = disk_inode /\ dsec = sector
        /\ bits = block_bitmap /\ nodes = inode
  OBVIOUS
<1>5. PICK dbits2, dnodes2, dsec2 : dbits2 = disk_bitmap' /\ dnodes2 = disk_inode' /\ dsec2 = sector'
  OBVIOUS
<1>6. /\ wr \in Seq(AnyWrite) /\ wr # <<>> /\ Ordered(wr)
      /\ dnodes \in [File -> Node] /\ dsec \in [Block -> Sector]
  BY <1>2, <1>4, Types DEF IInv
<1>7. w = Head(wr) /\ Takes(w, dbits, dnodes, dsec, dbits2, dnodes2, dsec2)
  BY <1>1, <1>2, <1>4, <1>5 DEF Takes
<1>8. PICK data \in [Block -> Sector] :
        /\ Settles(wr, dbits, dnodes, dsec, bits, nodes, data)
        /\ damaged # File => AllOwn(nodes, data, bits)
  BY <1>4 DEF IInv, SettledOwn
<1>9. /\ Tail(wr) \in Seq(AnyWrite) /\ Ordered(Tail(wr))
      /\ Settles(Tail(wr), dbits2, dnodes2, dsec2, bits, nodes, data)
      /\ w.to = "bitmap" => w.val \subseteq Block
      /\ dnodes2 \in [File -> Node] /\ dsec2 \in [Block -> Sector]
      /\ Tail(wr) # <<>> => dnodes2 = dnodes
  BY <1>6, <1>7, <1>8, SectorWritten
<1>10. TypeOK'
  <2>1. disk_bitmap' \subseteq Block
    BY <1>2, <1>9 DEF IInv, TypeOK
  <2>2. disk_inode' \in [File -> [i_size : 0..MAX_SIZE, i_sectors : [0..N_DIRECT -> Block \cup {0}]]]
    BY <1>5, <1>9 DEF Node, Ref
  <2>3. sector' \in [Block -> Sector]
    BY <1>5, <1>9
  <2>4. TypeOK
    BY DEF IInv
  <2> QED
    BY <1>3, <2>1, <2>2, <2>3, <2>4 DEF TypeOK
<1>11. (pending \in Seq(AnyWrite) /\ Ordered(pending))'
  BY <1>2, <1>4, <1>9 DEF Ordered
<1>12. SettledOwn'
  <2>1. Settles(pending, disk_bitmap, disk_inode, sector, block_bitmap, inode, data)'
    BY <1>2, <1>3, <1>4, <1>5, <1>9 DEF Settles
  <2>2. (damaged # File => AllOwn(inode, data, block_bitmap))'
    BY <1>3, <1>4, <1>8 DEF AllOwn
  <2> QED
    BY <2>1, <2>2 DEF SettledOwn
<1>13. OwnOnDisk'
  <2>1. SUFFICES ASSUME damaged # File, ~risky, Tail(wr) # <<>>
        PROVE  AllOwn(dnodes2, dsec2, dbits2) /\ Spares(Tail(wr), dnodes2, dsec2)
    BY <1>2, <1>3, <1>4, <1>5 DEF OwnOnDisk, AllOwn, Spares
  <2>2. AllOwn(dnodes, dsec, dbits) /\ Spares(wr, dnodes, dsec)
    BY <1>4, <1>6, <2>1 DEF IInv, OwnOnDisk
  <2>3. w.to # "inode"
    <3>1. PICK n \in Nat : Len(wr) = n + 1 /\ n = Len(wr) - 1 /\ n = Len(Tail(wr)) /\ w = wr[1]
      <4>1. Len(wr) - 1 \in Nat /\ Len(wr) = (Len(wr) - 1) + 1 /\ Len(Tail(wr)) = Len(wr) - 1
            /\ Head(wr) = wr[1]
        BY <1>6, TailOne
      <4> QED
        BY <1>7, <4>1
    <3>2. 1 \in 1..n
      BY <1>9, <2>1, <3>1
    <3> QED
      BY <1>6, <3>1, <3>2 DEF Ordered
  <2>4. AllOwn(dnodes, dsec2, dbits2) /\ Spares(Tail(wr), dnodes, dsec2)
    BY <1>6, <1>7, <2>2, <2>3, SpareStep
  <2> QED
    BY <1>9, <2>1, <2>4
<1> QED
  BY <1>10, <1>11, <1>12, <1>13 DEF IInv

\* A power cut keeps the invariant: what the disk has is sound, or a risky call is marked.
LEMMA CrashInv ==
    ASSUME IInv, Crash
    PROVE  IInv'
<1>1. /\ block_bitmap' = disk_bitmap /\ inode' = disk_inode /\ pending' = <<>>
      /\ disk_bitmap' = disk_bitmap /\ disk_inode' = disk_inode /\ sector' = sector
      /\ damaged' = IF pending = <<>> THEN damaged
                    ELSE IF risky THEN File ELSE damaged \cup {caller}
      /\ risky' = FALSE /\ panic' = FALSE /\ caller' = caller /\ calls' = calls
      /\ fd_pos' = [f \in File |-> 0]
      /\ crashes < MAX_CRASHES /\ crashes' = crashes + 1
  BY DEF Crash, disk
<1>2. TypeOK /\ damaged \subseteq File /\ caller \in File
  BY DEF IInv, TypeOK
<1>3. TypeOK'
  <2>1. crashes' \in 0..MAX_CRASHES
    BY <1>1, <1>2, FileBlocksAssumption DEF TypeOK
  <2>2. damaged' \subseteq File
    BY <1>1, <1>2
  <2>3. fd_pos' \in [File -> Nat]
    BY <1>1
  <2> QED
    BY <1>1, <1>2, <2>1, <2>2, <2>3 DEF TypeOK
<1>4. (pending \in Seq(AnyWrite) /\ Ordered(pending))'
  <2>1. <<>> \in Seq(AnyWrite) /\ Len(<<>>) = 0
    OBVIOUS
  <2>2. (\A i \in 1..(0 - 1) : FALSE) /\ \A i \in 1..0 : FALSE
    OBVIOUS
  <2> QED
    BY <1>1, <2>1, <2>2 DEF Ordered
<1>5. ASSUME damaged' # File PROVE AllOwn(disk_inode, sector, disk_bitmap)
  <2>1. CASE pending = <<>>
    <3>1. damaged # File
      BY <1>1, <1>5, <2>1
    <3>2. disk_bitmap = block_bitmap /\ disk_inode = inode /\ AllOwn(inode, sector, block_bitmap)
      BY <2>1, <3>1, Quiet
    <3> QED
      BY <3>2
  <2>2. CASE pending # <<>>
    <3>1. damaged # File /\ ~risky
      BY <1>1, <1>2, <1>5, <2>2
    <3> QED
      BY <2>2, <3>1 DEF IInv, OwnOnDisk
  <2> QED
    BY <2>1, <2>2
<1>6. SettledOwn'
  <2>1. PICK data \in [Block -> Sector] : data = sector
    BY <1>2, Types
  <2>2. Settles(pending, disk_bitmap, disk_inode, sector, block_bitmap, inode, data)'
    BY <1>1, <2>1, BecomesNothing DEF Settles
  <2>3. (damaged # File => AllOwn(inode, data, block_bitmap))'
    BY <1>1, <1>5, <2>1 DEF AllOwn
  <2> QED
    BY <2>2, <2>3 DEF SettledOwn
<1>7. OwnOnDisk'
  BY <1>1 DEF OwnOnDisk
<1> QED
  BY <1>3, <1>4, <1>6, <1>7 DEF IInv

\* A step that changes nothing keeps the invariant.
LEMMA StutterInv ==
    ASSUME IInv, UNCHANGED vars
    PROVE  IInv'
<1>1. fd_pos' \in [File -> Nat]
  BY Types DEF IInv, vars
<1> QED
  BY <1>1, PositionKeeps DEF vars

(* The inductive invariant.  Memory and disk differ only by the writes of
   the call under way: once these are done, every block that a sound file
   refers to is marked and in one place, and until then the disk is sound too
   unless the call is one that a power cut can hurt. *)
THEOREM Invariance == Spec => []IInv
<1>1. IInv /\ [Next]_vars => IInv'
  BY WriteInv, ReadInv, SeekInv, RemoveInv, SectorInv, CrashInv, StutterInv DEF Next
<1> QED
  BY InitInv, <1>1, PTL DEF Spec

(* The variables of FileBlocks keep their types: no table, inode or write of
   file_write and file_remove_some_content names a block outside the
   partition, and no size passes what an inode can hold. *)
THEOREM FileBlocksTypeCorrect == Spec => []TypeOK
<1>1. IInv => TypeOK
  BY DEF IInv
<1> QED
  BY <1>1, Invariance, PTL

(* Between calls the bitmap and the inodes on the disk are the ones in memory:
   neither file_write nor file_remove_some_content ends with a change that it
   has not synced. *)
THEOREM DiskInStep == Spec => []Synced
<1>1. IInv => Synced
  BY Quiet DEF Synced
<1> QED
  BY <1>1, Invariance, PTL

\* AllOwn in the terms of BlocksOwned: the uses of a file are the places of its table and its index.
LEMMA OwnedUses ==
    ASSUME AllOwn(disk_inode, sector, disk_bitmap), TypeOK
    PROVE  /\ \A f \in File : \A u \in Uses(f) : u[2] \in disk_bitmap
           /\ \A f, g \in File : \A u \in Uses(f), w \in Uses(g) :
                  u[2] = w[2] => f = g /\ u[1] = w[1]
<1> USE Sizes
<1>1. ASSUME NEW f \in File, NEW u \in Uses(f)
      PROVE  \/ \E k \in Slot : u = <<k, all_blocks(disk_inode[f], sector)[k]>> /\ u[2] # 0
             \/ u = <<MAX_BLOCKS, disk_inode[f].i_sectors[N_DIRECT]>> /\ u[2] # 0
  <2>1. PICK x \in Nat : x = disk_inode[f].i_size /\ x <= MAX_SIZE
    BY Types DEF Node
  <2>2. PICK q \in Nat : q = DivRoundUp(x, BLOCK_SIZE) /\ q <= MAX_BLOCKS
    BY <2>1, RoundUp
  <2>3. PICK a, s : a = all_blocks(disk_inode[f], sector) /\ s = disk_inode[f].i_sectors[N_DIRECT]
    OBVIOUS
  <2>4. Uses(f) = {<<k, a[k]>> : k \in {j \in 0..(q - 1) : a[j] # 0}}
                  \cup {<<MAX_BLOCKS, b>> : b \in {s} \ {0}}
    BY <2>1, <2>2, <2>3 DEF Uses
  <2>5. \A k \in 0..(q - 1) : k \in Slot
    BY <2>2 DEF Slot
  <2> QED
    BY <2>3, <2>4, <2>5
<1>2. ASSUME NEW f \in File, NEW u \in Uses(f)
      PROVE  u[2] \in Refs(disk_inode[f], sector)
  BY <1>1 DEF Refs
<1>3. ASSUME NEW f \in File PROVE Owned(all_blocks(disk_inode[f], sector), disk_inode[f].i_sectors[N_DIRECT], disk_bitmap, {})
  BY DEF AllOwn, Fits
<1>4. ASSUME NEW f \in File, NEW u \in Uses(f) PROVE u[2] \in disk_bitmap
  <2>1. PICK a, s : a = all_blocks(disk_inode[f], sector) /\ s = disk_inode[f].i_sectors[N_DIRECT]
    OBVIOUS
  <2>2. Owned(a, s, disk_bitmap, {})
    BY <1>3, <2>1
  <2> QED
    BY <1>1, <2>1, <2>2 DEF Owned
<1>5. ASSUME NEW f \in File, NEW u \in Uses(f), NEW w \in Uses(f), u[2] = w[2] PROVE u[1] = w[1]
  <2>1. PICK a, s : a = all_blocks(disk_inode[f], sector) /\ s = disk_inode[f].i_sectors[N_DIRECT]
    OBVIOUS
  <2>2. Owned(a, s, disk_bitmap, {})
    BY <1>3, <2>1
  <2>3. (\E k \in Slot : u = <<k, a[k]>> /\ u[2] # 0) \/ (u = <<MAX_BLOCKS, s>> /\ u[2] # 0)
    BY <1>1, <2>1
  <2>4. (\E k \in Slot : w = <<k, a[k]>> /\ w[2] # 0) \/ (w = <<MAX_BLOCKS, s>> /\ w[2] # 0)
    BY <1>1, <2>1
  <2> HIDE Sizes
  <2> QED
    BY <1>5, <2>2, <2>3, <2>4 DEF Owned
<1>6. ASSUME NEW f \in File, NEW g \in File, NEW u \in Uses(f), NEW w \in Uses(g), u[2] = w[2] PROVE f = g
  <2>1. u[2] \in Refs(disk_inode[f], sector) /\ w[2] \in Refs(disk_inode[g], sector)
    BY <1>2
  <2> QED
    BY <1>6, <2>1 DEF AllOwn
<1> QED
  BY <1>4, <1>5, <1>6

(* Between calls, and after power cuts that hit no risky call, every block a
   file refers to is marked in the bitmap on the disk, and no block is in two
   files, at two places of a file, or both data and index. *)
THEOREM BlocksHaveOneOwner == Spec => []BlocksOwned
<1>1. IInv => BlocksOwned
  <2>1. SUFFICES ASSUME IInv, pending = <<>>, damaged # File PROVE BlocksOwned
    BY DEF BlocksOwned
  <2>2. AllOwn(disk_inode, sector, disk_bitmap)
    <3>1. disk_bitmap = block_bitmap /\ disk_inode = inode /\ AllOwn(inode, sector, block_bitmap)
      BY <2>1, Quiet
    <3> QED
      BY <3>1
  <2>3. TypeOK
    BY <2>1 DEF IInv
  <2> QED
    BY <2>2, <2>3, OwnedUses DEF BlocksOwned
<1> QED
  BY <1>1, Invariance, PTL
=============================================================================
