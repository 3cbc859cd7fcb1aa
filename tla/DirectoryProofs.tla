-------------------------- MODULE DirectoryProofs --------------------------
(***************************************************************************)
(* Proofs about Directory, for every number of names, entries of a block,  *)
(* blocks of a directory and inodes, and paths of any depth.               *)
(*                                                                         *)
(* Sound(L, d) says that the disk d holds a tree whose directories are L.  *)
(* The invariant relates memory to the disk as it will be when the pending *)
(* writes are done (Settles), and says that a power cut that does no harm  *)
(* finds a sound disk at every sector on the way (Guarded).  Each call     *)
(* then shows that the disk its writes lead to is sound: Grown for what a  *)
(* call creates, Without for what it removes.  What a call knows of the    *)
(* tree is what search_file found, by induction along the path.            *)
(*                                                                         *)
(* For the refinement, Kinds(d) is the tree of names on d.  In a sound     *)
(* tree one path leads to a directory (OnePath), so that an entry that     *)
(* comes or goes changes the paths under its own and no others (Trimmed).  *)
(* Turned says this of a call; Watched, beside the invariant, that tree is *)
(* what the pending writes lead to and that a harmless power cut shows the *)
(* tree before or after the call.                                          *)
(***************************************************************************)
EXTENDS Directory, FiniteSetsExt, FiniteSetTheorems, TLAPS

----------------------------------------------------------------------------
(* Sets of numbers.                                                       *)

\* Min is the least member: the first free slot, page or bit.
LEMMA LeastMember ==
    ASSUME NEW S, S \subseteq Nat, S # {}
    PROVE  Min(S) \in S /\ \A y \in S : Min(S) <= y
<1> DEFINE R == OpToRel(<, Nat)
<1>1. IsWellFoundedOn(R, Nat)
  BY NatLessThanWellFounded
<1>2. \A x, y \in Nat : <<y, x>> \in R <=> y < x
  BY DEF OpToRel
<1> HIDE DEF R
<1>3. PICK x \in S : \A y \in S : ~(<<y, x>> \in R)
  BY <1>1, WFMin
<1>4. ASSUME NEW y \in S PROVE x <= y
  <2>1. x \in Nat /\ y \in Nat /\ ~(y < x)
    BY <1>2, <1>3
  <2> QED
    BY <2>1
<1> QED
  BY <1>3, <1>4 DEF Min

\* Max is the greatest member of a bounded set.
LEMMA GreatestMember ==
    ASSUME NEW n \in Nat, NEW s, s \subseteq 1..n, s # {}
    PROVE  Max(s) \in s /\ \A y \in s : Max(s) >= y
<1> DEFINE U == {m \in Nat : \A y \in s : m >= y}
<1>1. U \subseteq Nat /\ n \in U
  OBVIOUS
<1>2. Min(U) \in U /\ \A m \in U : Min(U) <= m
  BY <1>1, LeastMember
<1>3. PICK u \in Nat : (\A y \in s : u >= y) /\ \A m \in U : u <= m
  BY <1>2
<1>4. u \in s
  <2>1. SUFFICES ASSUME u \notin s PROVE FALSE
    OBVIOUS
  <2>2. \A y \in s : y \in Nat /\ y >= 1 /\ u - 1 >= y
    BY <1>3, <2>1
  <2>3. u - 1 \in Nat
    <3>1. PICK y \in s : TRUE
      OBVIOUS
    <3>2. y \in Nat /\ y >= 1 /\ u - 1 >= y
      BY <2>2
    <3> QED
      BY <1>3, <3>2
  <2>4. u <= u - 1
    BY <1>3, <2>2, <2>3
  <2> QED
    BY <1>3, <2>4
<1> HIDE DEF U
<1> QED
  BY <1>3, <1>4 DEF Max

\* Induction from a on, for the numbers in P.
LEMMA SetInduction ==
    ASSUME NEW P, NEW a \in Nat, a \in P,
           \A n \in Nat : n >= a /\ n \in P => n + 1 \in P
    PROVE  \A n \in Nat : n >= a => n \in P
<1> DEFINE B == {n \in Nat : n >= a /\ n \notin P}
<1> SUFFICES ASSUME B # {} PROVE FALSE
  OBVIOUS
<1>1. B \subseteq Nat
  OBVIOUS
<1>2. Min(B) \in B /\ \A y \in B : Min(B) <= y
  BY <1>1, LeastMember
<1> DEFINE m == Min(B)
<1>3. m \in Nat /\ m >= a /\ m \notin P /\ m # a
  BY <1>2
<1> HIDE DEF m
<1>4. m - 1 \in Nat /\ m - 1 >= a /\ m = (m - 1) + 1
  BY <1>3
<1>5. m - 1 \notin B
  <2>1. ~(m <= m - 1)
    BY <1>3
  <2> QED
    BY <1>2, <2>1 DEF m
<1>6. m - 1 \in P
  BY <1>4, <1>5
<1> QED
  BY <1>3, <1>4, <1>6


----------------------------------------------------------------------------
(* The disk, and a sequence of writes to it.                               *)

Kind == {"unknown", "regular", "directory"}
NodeSet == [kind : Kind, blocks : Seq(Nat)]
EntrySet == [filename : Name \cup {"", ".", ".."}, i_no : Ino, f_type : Kind]
Block == [1..ENTRIES -> EntrySet]

\* Contents of the disk: every inode names blocks that there are.
Disk ==
    {d \in [bits : SUBSET Ino, table : [Ino -> NodeSet], blk : Seq(Block)] :
        \A i \in Ino : \A j \in 1..Len(d.table[i].blocks) :
            d.table[i].blocks[j] \in 1..Len(d.blk)}

Write ==
    [to : {"bitmap"}, val : SUBSET Ino] \cup [to : {"inode"}, at : Ino, val : NodeSet]
        \cup [to : {"block"}, at : Nat, val : Block]

\* new is list with o at k.
Swapped(list, k, o, new) == new = [list EXCEPT ![k] = o]

\* The writes wr lead from d to e, and the disk is in S all the way.
Chain(wr, d, e, S) ==
    \E run : /\ run[0] = d /\ run[Len(wr)] = e
             /\ \A k \in 0..Len(wr) : run[k] \in S
             /\ \A k \in 1..Len(wr) : run[k] = Put(run[k - 1], wr[k])

\* Append, one element at a time.
LEMMA AppendOne ==
    ASSUME NEW S, NEW s \in Seq(S), NEW x \in S
    PROVE  /\ Append(s, x) \in Seq(S) /\ Len(Append(s, x)) = Len(s) + 1 /\ Len(s) \in Nat
           /\ \A i \in 1..Len(s) : Append(s, x)[i] = s[i]
           /\ Append(s, x)[Len(s) + 1] = x
OBVIOUS

\* Tail and Head of a sequence that is not empty.
LEMMA TailOne ==
    ASSUME NEW S, NEW s \in Seq(S), s # <<>>
    PROVE  /\ Tail(s) \in Seq(S) /\ Len(Tail(s)) = Len(s) - 1 /\ Len(s) \in Nat /\ Len(s) > 0
           /\ \A i \in 1..(Len(s) - 1) : Tail(s)[i] = s[i + 1]
           /\ Head(s) = s[1] /\ Head(s) \in S
OBVIOUS

\* No writes change nothing.
LEMMA ChainNone ==
    ASSUME NEW d, NEW e, NEW S
    PROVE  Chain(<<>>, d, e, S) <=> d = e /\ d \in S
<1>1. Len(<<>>) = 0 /\ 0..0 = {0} /\ 1..0 = {}
  OBVIOUS
<1>2. ASSUME Chain(<<>>, d, e, S) PROVE d = e /\ d \in S
  BY <1>1, <1>2 DEF Chain
<1>3. ASSUME d = e, d \in S PROVE Chain(<<>>, d, e, S)
  <2> DEFINE run == [k \in {0} |-> d]
  <2>1. run[0] = d
    OBVIOUS
  <2> HIDE DEF run
  <2> QED
    BY <1>1, <1>3, <2>1 DEF Chain
<1> QED
  BY <1>2, <1>3

\* One more write.
LEMMA ChainAppend ==
    ASSUME NEW wr, wr \in Seq(Write), NEW w, w \in Write, NEW d, NEW e, NEW f, NEW S,
           Chain(wr, d, e, S), f = Put(e, w), f \in S
    PROVE  Chain(Append(wr, w), d, f, S)
<1>0. PICK n \in Nat : n = Len(wr)
  <2>1. Len(wr) \in Nat
    OBVIOUS
  <2> QED
    BY <2>1
<1>1. PICK v : v = Append(wr, w) /\ n = Len(wr)
  BY <1>0
<1>2. Len(v) = n + 1 /\ v[n + 1] = w /\ \A i \in 1..n : v[i] = wr[i]
  BY <1>1, AppendOne
<1>3. PICK run : /\ run[0] = d /\ run[n] = e
                 /\ \A k \in 0..n : run[k] \in S
                 /\ \A k \in 1..n : run[k] = Put(run[k - 1], wr[k])
  BY <1>1 DEF Chain
<1> DEFINE go == [k \in 0..(n + 1) |-> IF k = n + 1 THEN f ELSE run[k]]
<1>4. go[n + 1] = f /\ \A k \in 0..n : go[k] = run[k]
  OBVIOUS
<1> HIDE DEF go
<1>5. go[0] = d
  BY <1>3, <1>4
<1>6. \A k \in 0..(n + 1) : go[k] \in S
  <2>1. \A k \in 0..(n + 1) : k \in 0..n \/ k = n + 1
    OBVIOUS
  <2> QED
    BY <1>3, <1>4, <2>1
<1>7. ASSUME NEW k \in 1..(n + 1) PROVE go[k] = Put(go[k - 1], v[k])
  <2>1. CASE k = n + 1
    <3>1. k - 1 = n /\ n \in 0..n
      BY <2>1
    <3> QED
      BY <1>2, <1>3, <1>4, <2>1, <3>1
  <2>2. CASE k # n + 1
    <3>1. k \in 1..n /\ k \in 0..n /\ k - 1 \in 0..n
      BY <2>2
    <3> QED
      BY <1>2, <1>3, <1>4, <3>1
  <2> QED
    BY <2>1, <2>2
<1> QED
  BY <1>1, <1>2, <1>4, <1>5, <1>6, <1>7 DEF Chain

\* The first write is done.
LEMMA ChainTail ==
    ASSUME NEW wr, wr \in Seq(Write), wr # <<>>, NEW d, NEW e, NEW S, Chain(wr, d, e, S)
    PROVE  Chain(Tail(wr), Put(d, Head(wr)), e, S)
<1>0. PICK n \in Nat : n = Len(wr) - 1
  <2>1. Len(wr) \in Nat /\ Len(wr) > 0
    BY TailOne
  <2>2. Len(wr) - 1 \in Nat
    BY <2>1
  <2> QED
    BY <2>2
<1>1. PICK v : v = Tail(wr) /\ n = Len(wr) - 1
  BY <1>0
<1>2. Len(v) = n /\ Len(wr) = n + 1 /\ Head(wr) = wr[1] /\ \A i \in 1..n : v[i] = wr[i + 1]
  BY <1>1, TailOne
<1>3. PICK run : /\ run[0] = d /\ run[n + 1] = e
                 /\ \A k \in 0..(n + 1) : run[k] \in S
                 /\ \A k \in 1..(n + 1) : run[k] = Put(run[k - 1], wr[k])
  BY <1>2 DEF Chain
<1> DEFINE go == [k \in 0..n |-> run[k + 1]]
<1>4. \A k \in 0..n : go[k] = run[k + 1] /\ k + 1 \in 0..(n + 1) /\ k + 1 \in 1..(n + 1)
  OBVIOUS
<1> HIDE DEF go
<1>5. go[0] = Put(d, Head(wr)) /\ go[n] = e
  <2>1. 0 \in 0..n /\ n \in 0..n /\ 1 \in 1..(n + 1) /\ 0 + 1 = 1 /\ 1 - 1 = 0
    OBVIOUS
  <2>2. run[1] = Put(run[0], wr[1])
    BY <1>3, <2>1
  <2> QED
    BY <1>2, <1>3, <1>4, <2>1, <2>2
<1>6. \A k \in 0..n : go[k] \in S
  BY <1>3, <1>4
<1>7. ASSUME NEW k \in 1..n PROVE go[k] = Put(go[k - 1], v[k])
  <2>1. k \in 0..n /\ k - 1 \in 0..n /\ (k - 1) + 1 = k /\ (k + 1) - 1 = k /\ k + 1 \in 1..(n + 1)
    OBVIOUS
  <2>2. run[k + 1] = Put(run[k], wr[k + 1])
    BY <1>3, <2>1
  <2> QED
    BY <1>2, <1>4, <2>1, <2>2
<1> QED
  BY <1>1, <1>2, <1>5, <1>6, <1>7 DEF Chain

\* Where a chain starts and ends.
LEMMA ChainEnds ==
    ASSUME NEW wr, wr \in Seq(Write), NEW d, NEW e, NEW S, Chain(wr, d, e, S)
    PROVE  d \in S /\ e \in S
<1>1. Len(wr) \in Nat
  OBVIOUS
<1>2. 0 \in 0..Len(wr) /\ Len(wr) \in 0..Len(wr)
  BY <1>1
<1> QED
  BY <1>2 DEF Chain

\* One write at the end of a sequence of writes.
LEMMA ChainOne ==
    ASSUME NEW s, s \in Seq(Write), NEW d, NEW e, NEW S, Chain(s, d, e, S),
           NEW a, a \in Write, NEW e1, e1 = Put(e, a), e1 \in S
    PROVE  s \o <<a>> \in Seq(Write) /\ Chain(s \o <<a>>, d, e1, S)
<1>1. s \o <<a>> = Append(s, a) /\ Append(s, a) \in Seq(Write)
  OBVIOUS
<1>2. Chain(Append(s, a), d, e1, S)
  BY ChainAppend
<1> QED
  BY <1>1, <1>2

\* Three writes, in their order.
LEMMA ChainThree ==
    ASSUME NEW s, s \in Seq(Write), NEW d, NEW e, NEW S, Chain(s, d, e, S),
           NEW a, a \in Write, NEW e1, e1 = Put(e, a), e1 \in S,
           NEW b, b \in Write, NEW e2, e2 = Put(e1, b), e2 \in S,
           NEW c, c \in Write, NEW e3, e3 = Put(e2, c), e3 \in S
    PROVE  s \o <<a, b, c>> \in Seq(Write) /\ Chain(s \o <<a, b, c>>, d, e3, S)
<1>1. PICK s1 : s1 = Append(s, a) /\ s1 \in Seq(Write)
  BY AppendOne
<1>2. PICK s2 : s2 = Append(s1, b) /\ s2 \in Seq(Write)
  BY <1>1, AppendOne
<1>3. PICK s3 : s3 = Append(s2, c) /\ s3 \in Seq(Write)
  BY <1>2, AppendOne
<1>4. s \o <<a, b, c>> = Append(Append(Append(s, a), b), c)
  OBVIOUS
<1>5. Chain(s1, d, e1, S)
  BY <1>1, ChainAppend
<1>6. Chain(s2, d, e2, S)
  BY <1>1, <1>2, <1>5, ChainAppend
<1>7. Chain(s3, d, e3, S)
  BY <1>2, <1>3, <1>6, ChainAppend
<1> QED
  BY <1>1, <1>2, <1>3, <1>4, <1>7

\* Four writes, in their order.
LEMMA ChainFour ==
    ASSUME NEW s, s \in Seq(Write), NEW d, NEW e, NEW S, Chain(s, d, e, S),
           NEW a, a \in Write, NEW e1, e1 = Put(e, a), e1 \in S,
           NEW b, b \in Write, NEW e2, e2 = Put(e1, b), e2 \in S,
           NEW c, c \in Write, NEW e3, e3 = Put(e2, c), e3 \in S,
           NEW f, f \in Write, NEW e4, e4 = Put(e3, f), e4 \in S
    PROVE  s \o <<a, b, c, f>> \in Seq(Write) /\ Chain(s \o <<a, b, c, f>>, d, e4, S)
<1>1. s \o <<a, b, c>> \in Seq(Write) /\ Chain(s \o <<a, b, c>>, d, e3, S)
  BY ChainThree
<1>2. PICK s3 : s3 = s \o <<a, b, c>>
  OBVIOUS
<1>3. s \o <<a, b, c, f>> = Append(s3, f)
  BY <1>2
<1>4. Append(s3, f) \in Seq(Write)
  BY <1>1, <1>2, AppendOne
<1>5. Chain(Append(s3, f), d, e4, S)
  BY <1>1, <1>2, ChainAppend
<1> QED
  BY <1>3, <1>4, <1>5

----------------------------------------------------------------------------
(* A sound tree: L is the set of its directories, and perhaps of some that *)
(* no entry names any more.                                                *)

\* Place p of directory x holds an entry that a path can name.
Holds(L, d, x, p) ==
    x \in L /\ p \in Slots(d.table[x]) /\ At(d.table[x], d.blk, p).filename \in Name

\* No block is in two places.
Apart(L, d) ==
    \A x, y \in L : \A j \in 1..Len(d.table[x].blocks), k \in 1..Len(d.table[y].blocks) :
        d.table[x].blocks[j] = d.table[y].blocks[k] => x = y /\ j = k

\* What the entry e names is in use, and what e says.
Names(L, d, e) ==
    /\ e.i_no \in d.bits /\ e.i_no # 0
    /\ d.table[e.i_no].kind = e.f_type
    /\ e.f_type \in {"regular", "directory"}
    /\ e.f_type = "directory" => e.i_no \in L

Sound(L, d) ==
    /\ 0 \in L /\ \A x \in L : x \in d.bits /\ d.table[x].kind = "directory"
    /\ Apart(L, d)
    /\ \A x, p : Holds(L, d, x, p) => Names(L, d, At(d.table[x], d.blk, p))
    /\ \A x, p, y, q : Holds(L, d, x, p) /\ Holds(L, d, y, q)
           /\ At(d.table[x], d.blk, p).i_no = At(d.table[y], d.blk, q).i_no => x = y /\ p = q
    /\ \A x, p, q : Holds(L, d, x, p) /\ Holds(L, d, x, q)
           /\ At(d.table[x], d.blk, p).filename = At(d.table[x], d.blk, q).filename => p = q

\* Place p of x is as it was.
Stays(L, d, e, x, p) ==
    Holds(L, d, x, p) /\ At(e.table[x], e.blk, p) = At(d.table[x], d.blk, p)

\* A block is at one place of one directory.
LEMMA OnePlace ==
    ASSUME NEW L, NEW d, Sound(L, d), NEW x \in L, NEW y \in L,
           NEW j \in 1..Len(d.table[x].blocks), NEW k \in 1..Len(d.table[y].blocks),
           d.table[x].blocks[j] = d.table[y].blocks[k]
    PROVE  x = y /\ j = k
  BY DEF Sound, Apart

\* e has, beside what d has, inode i, a t, and at place slot of u its entry g.
Grows(L, d, K, e, i, t, u, slot, g) ==
    /\ i \notin d.bits /\ t \in {"regular", "directory"}
    /\ \A x : x \in e.bits <=> x \in d.bits \/ x = i
    /\ \A x \in d.bits : e.table[x].kind = d.table[x].kind
    /\ e.table[i].kind = t
    /\ \A x : x \in K <=> x \in L \/ (x = i /\ t = "directory")
    /\ Apart(K, e)
    /\ g.i_no = i /\ g.f_type = t
    /\ \A q \in Slots(d.table[u]) : At(d.table[u], d.blk, q).filename # g.filename
    /\ \A x, q : Holds(K, e, x, q) =>
           \/ Stays(L, d, e, x, q)
           \/ x = u /\ q = slot /\ At(e.table[x], e.blk, q) = g

\* A new inode with an entry of its own keeps the tree sound.
LEMMA Grown ==
    ASSUME NEW L, NEW d, Sound(L, d), NEW K, NEW e, NEW i, NEW t, NEW u, NEW slot, NEW g,
           Grows(L, d, K, e, i, t, u, slot, g)
    PROVE  Sound(K, e)
<1> USE DEF Grows
<1>1. 0 \in K /\ \A x \in K : x \in e.bits /\ e.table[x].kind = "directory"
  BY DEF Sound
<1>2. i # 0
  BY DEF Sound
<1>3. g.i_no = i /\ g.f_type = t
  OBVIOUS
<1>4. ASSUME NEW x, NEW p, Holds(K, e, x, p) PROVE Names(K, e, At(e.table[x], e.blk, p))
  <2>1. CASE Stays(L, d, e, x, p)
    <3>1. PICK h : h = At(d.table[x], d.blk, p) /\ h = At(e.table[x], e.blk, p) /\ Names(L, d, h)
      BY <2>1 DEF Sound, Stays
    <3> QED
      BY <3>1 DEF Names
  <2>2. CASE At(e.table[x], e.blk, p) = g
    BY <1>2, <1>3, <2>2 DEF Names
  <2> QED
    BY <1>4, <2>1, <2>2
<1>5. ASSUME NEW x, NEW p, Stays(L, d, e, x, p) PROVE At(e.table[x], e.blk, p).i_no # i
  BY <1>5 DEF Sound, Stays, Names
<1>6. ASSUME NEW x, NEW p, NEW y, NEW q, Holds(K, e, x, p), Holds(K, e, y, q),
             At(e.table[x], e.blk, p).i_no = At(e.table[y], e.blk, q).i_no
      PROVE  x = y /\ p = q
  <2>1. CASE Stays(L, d, e, x, p) /\ Stays(L, d, e, y, q)
    BY <1>6, <2>1 DEF Sound, Stays
  <2>2. CASE Stays(L, d, e, x, p) /\ ~Stays(L, d, e, y, q)
    BY <1>3, <1>5, <1>6, <2>2
  <2>3. CASE ~Stays(L, d, e, x, p) /\ Stays(L, d, e, y, q)
    BY <1>3, <1>5, <1>6, <2>3
  <2>4. CASE ~Stays(L, d, e, x, p) /\ ~Stays(L, d, e, y, q)
    BY <1>6, <2>4
  <2> QED
    BY <2>1, <2>2, <2>3, <2>4
<1>7. ASSUME NEW p, Stays(L, d, e, u, p) PROVE At(e.table[u], e.blk, p).filename # g.filename
  BY <1>7 DEF Stays, Holds
<1>8. ASSUME NEW x, NEW p, NEW q, Holds(K, e, x, p), Holds(K, e, x, q),
             At(e.table[x], e.blk, p).filename = At(e.table[x], e.blk, q).filename
      PROVE  p = q
  <2>1. CASE Stays(L, d, e, x, p) /\ Stays(L, d, e, x, q)
    BY <1>8, <2>1 DEF Sound, Stays
  <2>2. CASE Stays(L, d, e, x, p) /\ ~Stays(L, d, e, x, q)
    BY <1>3, <1>7, <1>8, <2>2
  <2>3. CASE ~Stays(L, d, e, x, p) /\ Stays(L, d, e, x, q)
    BY <1>3, <1>7, <1>8, <2>3
  <2>4. CASE ~Stays(L, d, e, x, p) /\ ~Stays(L, d, e, x, q)
    BY <1>8, <2>4
  <2> QED
    BY <2>1, <2>2, <2>3, <2>4
<1> QED
  BY <1>1, <1>4, <1>6, <1>8 DEF Sound

\* Entries that go, and inodes that no entry is left to name, keep the tree sound.
LEMMA Shrunk ==
    ASSUME NEW L, NEW d, Sound(L, d), NEW K, NEW e, 0 \in K,
           \A x \in K : x \in L /\ x \in e.bits /\ e.table[x] = d.table[x],
           \A x, q : Holds(K, e, x, q) =>
               /\ Stays(L, d, e, x, q)
               /\ Names(K, e, At(d.table[x], d.blk, q))
    PROVE  Sound(K, e)
<1>1. \A x \in K : x \in e.bits /\ e.table[x].kind = "directory"
  BY DEF Sound
<1>2. Apart(K, e)
  <2>1. Apart(L, d)
    BY DEF Sound
  <2>2. ASSUME NEW x \in K, NEW y \in K, NEW j \in 1..Len(e.table[x].blocks),
               NEW k \in 1..Len(e.table[y].blocks), e.table[x].blocks[j] = e.table[y].blocks[k]
        PROVE  x = y /\ j = k
    <3>1. e.table[x] = d.table[x] /\ e.table[y] = d.table[y] /\ x \in L /\ y \in L
      OBVIOUS
    <3> QED
      BY <2>1, <2>2, <3>1 DEF Apart
  <2> QED
    BY <2>2 DEF Apart
<1>3. \A x, p : Holds(K, e, x, p) => Names(K, e, At(e.table[x], e.blk, p))
  BY DEF Stays
<1>4. ASSUME NEW x, NEW p, NEW y, NEW q, Holds(K, e, x, p), Holds(K, e, y, q),
             At(e.table[x], e.blk, p).i_no = At(e.table[y], e.blk, q).i_no
      PROVE  x = y /\ p = q
  BY <1>4 DEF Stays, Sound
<1>5. ASSUME NEW x, NEW p, NEW q, Holds(K, e, x, p), Holds(K, e, x, q),
             At(e.table[x], e.blk, p).filename = At(e.table[x], e.blk, q).filename
      PROVE  p = q
  BY <1>5 DEF Stays, Sound
<1> QED
  BY <1>1, <1>2, <1>3, <1>4, <1>5 DEF Sound

----------------------------------------------------------------------------
(* The search of a path.                                                   *)

\* The first of some places is one of them.
LEMMA FirstIn ==
    ASSUME NEW S, S \subseteq Nat \X Nat, S # {}
    PROVE  First(S) \in S
<1> DEFINE A == {a \in Nat : \E q \in S : q[1] = a}
           B == {b \in Nat : <<Min(A), b>> \in S}
<1>0. \A q \in S : q = <<q[1], q[2]>> /\ q[1] \in Nat /\ q[2] \in Nat
  OBVIOUS
<1>1. Min(A) \in A /\ \A y \in A : Min(A) <= y
  <2>1. A \subseteq Nat /\ A # {}
    BY <1>0
  <2> HIDE DEF A
  <2> QED
    BY <2>1, LeastMember
<1>2. PICK a : a = Min(A)
  OBVIOUS
<1>3. PICK q0 \in S : q0[1] = a
  BY <1>1, <1>2
<1>4. a \in Nat /\ \A q \in S : a <= q[1]
  BY <1>0, <1>1, <1>2
<1>5. Min(B) \in B /\ \A y \in B : Min(B) <= y
  <2>1. q0[2] \in B
    BY <1>0, <1>2, <1>3
  <2>2. B \subseteq Nat /\ B # {}
    BY <2>1
  <2> HIDE DEF B
  <2> QED
    BY <2>2, LeastMember
<1>6. PICK b : b = Min(B)
  OBVIOUS
<1>7. b \in Nat /\ <<a, b>> \in S /\ \A q \in S : q[1] = a => b <= q[2]
  <2>1. b \in Nat /\ <<a, b>> \in S
    BY <1>2, <1>5, <1>6
  <2>2. ASSUME NEW q \in S, q[1] = a PROVE b <= q[2]
    <3>1. q = <<a, q[2]>> /\ q[2] \in Nat
      BY <1>0, <2>2
    <3>2. q[2] \in B
      BY <1>2, <3>1
    <3> QED
      BY <1>5, <1>6, <3>2
  <2> QED
    BY <2>1, <2>2
<1> HIDE DEF A, B
<1>8. ASSUME NEW q \in S PROVE Earlier(<<a, b>>, q)
  <2>1. a <= q[1] /\ q[1] \in Nat /\ (q[1] = a => b <= q[2])
    BY <1>0, <1>4, <1>7
  <2>2. a < q[1] \/ a = q[1]
    BY <1>4, <2>1
  <2> QED
    BY <2>1, <2>2 DEF Earlier
<1>9. \E p \in S : \A q \in S : Earlier(p, q)
  BY <1>7, <1>8
<1> QED
  BY <1>9 DEF First

\* The places of a directory are pairs of numbers.
LEMMA SlotPairs ==
    ASSUME NEW node, Len(node.blocks) \in Nat
    PROVE  /\ Slots(node) \subseteq Nat \X Nat
           /\ \A p \in Slots(node) : /\ p[1] \in 1..Len(node.blocks) /\ p[2] \in 1..ENTRIES
                                     /\ p = <<p[1], p[2]>>
           /\ \A j \in 1..Len(node.blocks), s \in 1..ENTRIES : <<j, s>> \in Slots(node)
<1>1. ENTRIES \in Nat
  BY DirectoryAssumption
<1>2. \A j \in 1..Len(node.blocks) : j \in Nat
  OBVIOUS
<1>3. \A s \in 1..ENTRIES : s \in Nat
  BY <1>1
<1> QED
  BY <1>2, <1>3 DEF Slots

\* Types of what the disk holds.
LEMMA DiskParts ==
    ASSUME NEW d \in Disk
    PROVE  /\ d.bits \in SUBSET Ino /\ d.table \in [Ino -> NodeSet] /\ d.blk \in Seq(Block)
           /\ Len(d.blk) \in Nat
           /\ \A x \in Ino : /\ d.table[x] \in NodeSet /\ d.table[x].blocks \in Seq(Nat)
                             /\ d.table[x].kind \in Kind /\ Len(d.table[x].blocks) \in Nat
           /\ \A x \in Ino : \A j \in 1..Len(d.table[x].blocks) :
                  d.table[x].blocks[j] \in 1..Len(d.blk)
           /\ \A b \in 1..Len(d.blk) : d.blk[b] \in Block
           /\ \A x \in Ino : \A p \in Slots(d.table[x]) : At(d.table[x], d.blk, p) \in EntrySet
<1>1. /\ d.bits \in SUBSET Ino /\ d.table \in [Ino -> NodeSet] /\ d.blk \in Seq(Block)
      /\ \A x \in Ino : \A j \in 1..Len(d.table[x].blocks) :
             d.table[x].blocks[j] \in 1..Len(d.blk)
  BY DEF Disk
<1>2. Len(d.blk) \in Nat /\ \A b \in 1..Len(d.blk) : d.blk[b] \in Block
  BY <1>1
<1>3. ASSUME NEW x \in Ino
      PROVE  /\ d.table[x] \in NodeSet /\ d.table[x].blocks \in Seq(Nat)
             /\ d.table[x].kind \in Kind
  BY <1>1 DEF NodeSet
<1>4. ASSUME NEW x \in Ino PROVE Len(d.table[x].blocks) \in Nat
  <2>1. d.table[x].blocks \in Seq(Nat)
    BY <1>3
  <2> QED
    BY <2>1
<1>5. ASSUME NEW x \in Ino, NEW p \in Slots(d.table[x])
      PROVE  At(d.table[x], d.blk, p) \in EntrySet
  <2>1. p[1] \in 1..Len(d.table[x].blocks) /\ p[2] \in 1..ENTRIES
    BY <1>4, SlotPairs
  <2>2. d.blk[d.table[x].blocks[p[1]]] \in [1..ENTRIES -> EntrySet]
    BY <1>1, <1>2, <2>1 DEF Block
  <2> QED
    BY <2>1, <2>2 DEF At
<1> QED
  BY <1>1, <1>2, <1>3, <1>4, <1>5

\* Types of entries, of the empty one, and of new inodes.
LEMMA EntryTypes ==
    /\ 0 \in Ino /\ Ino \subseteq Nat /\ 1 \in 1..ENTRIES /\ 2 \in 1..ENTRIES
    /\ Empty \in EntrySet /\ Empty.filename \notin Name
    /\ \A n \in Name \cup {"", ".", ".."}, i \in Ino, t \in Kind : Entry(n, i, t) \in EntrySet
    /\ "." \notin Name /\ ".." \notin Name
    /\ NoInode \in NodeSet
    /\ \A t \in Kind : Node(t, <<>>) \in NodeSet /\ Node(t, <<>>).kind = t
<1>1. ENTRIES \in Nat /\ ENTRIES >= 2 /\ MAX_INO \in Nat
  BY DirectoryAssumption
<1>2. 0 \in Ino /\ Ino \subseteq Nat /\ 1 \in 1..ENTRIES /\ 2 \in 1..ENTRIES
  BY <1>1 DEF Ino
<1>3. "" \notin Name /\ "." \notin Name /\ ".." \notin Name
  BY DirectoryAssumption
<1>4. Empty \in EntrySet /\ Empty.filename \notin Name
  BY <1>2, <1>3 DEF Empty, EntrySet, Kind
<1>5. \A n \in Name \cup {"", ".", ".."}, i \in Ino, t \in Kind : Entry(n, i, t) \in EntrySet
  BY DEF Entry, EntrySet
<1>6. \A t \in Kind : Node(t, <<>>) \in NodeSet /\ Node(t, <<>>).kind = t
  BY DEF Node, NodeSet
<1>7. NoInode \in NodeSet
  BY <1>6 DEF NoInode, Kind
<1> QED
  BY <1>2, <1>3, <1>4, <1>5, <1>6, <1>7

\* search_dir_entry finds name n in directory u: inode i, as a t.
Hit(d, u, n, i, t) ==
    LET places == search_dir_entry(d.table[u], d.blk, n)
    IN  /\ places # {}
        /\ At(d.table[u], d.blk, First(places)).i_no = i
        /\ At(d.table[u], d.blk, First(places)).f_type = t

Miss(d, u, n) == \A p \in Slots(d.table[u]) : At(d.table[u], d.blk, p).filename # n

\* What search_dir_entry finds is at a place of the directory, with that name.
LEMMA HitPlace ==
    ASSUME NEW L, NEW d \in Disk, Sound(L, d), NEW u \in L, NEW n \in Name, NEW i, NEW t,
           Hit(d, u, n, i, t), NEW p, p = First(search_dir_entry(d.table[u], d.blk, n))
    PROVE  /\ p \in Slots(d.table[u]) /\ Holds(L, d, u, p)
           /\ At(d.table[u], d.blk, p).filename = n
           /\ At(d.table[u], d.blk, p).i_no = i /\ At(d.table[u], d.blk, p).f_type = t
<1>1. u \in Ino
  BY DiskParts DEF Sound
<1>2. Slots(d.table[u]) \subseteq Nat \X Nat
  BY <1>1, DiskParts, SlotPairs
<1>3. PICK S : S = search_dir_entry(d.table[u], d.blk, n)
  OBVIOUS
<1>4. S \subseteq Slots(d.table[u]) /\ S # {} /\ \A q \in S : At(d.table[u], d.blk, q).filename = n
  BY <1>3 DEF search_dir_entry, Hit
<1>5. p \in S
  <2>1. S \subseteq Nat \X Nat
    BY <1>2, <1>4
  <2> QED
    BY <1>3, <1>4, <2>1, FirstIn
<1>6. p \in Slots(d.table[u]) /\ At(d.table[u], d.blk, p).filename = n
  BY <1>4, <1>5
<1> QED
  BY <1>6 DEF Hit, Holds

Walk == [dir : Ino, parent : Ino, i_no : Int, f_type : Kind, depth : Nat, stop : BOOLEAN]

\* The first m names of path lead from the root to directory x.
Leads(d, path, m, x) ==
    \E c : /\ c[0] = 0 /\ c[m] = x
           /\ \A j \in 1..m : Hit(d, c[j - 1], path[j], c[j], "directory")

\* No name leads to the root, and one name more to what it hits.
LEMMA LeadsOn ==
    ASSUME NEW d, NEW path
    PROVE  /\ Leads(d, path, 0, 0)
           /\ \A m \in Nat : \A x, y :
                  Leads(d, path, m, y) /\ Hit(d, y, path[m + 1], x, "directory")
                      => Leads(d, path, m + 1, x)
<1>1. Leads(d, path, 0, 0)
  <2> DEFINE c == [k \in {0} |-> 0]
  <2>1. c[0] = 0
    OBVIOUS
  <2> HIDE DEF c
  <2>2. 1..0 = {}
    OBVIOUS
  <2> QED
    BY <2>1, <2>2 DEF Leads
<1>2. ASSUME NEW m \in Nat, NEW x, NEW y, Leads(d, path, m, y), Hit(d, y, path[m + 1], x, "directory")
      PROVE  Leads(d, path, m + 1, x)
  <2>1. PICK c : /\ c[0] = 0 /\ c[m] = y
                 /\ \A j \in 1..m : Hit(d, c[j - 1], path[j], c[j], "directory")
    BY <1>2 DEF Leads
  <2> DEFINE b == [k \in 0..(m + 1) |-> IF k = m + 1 THEN x ELSE c[k]]
  <2>2. b[m + 1] = x /\ \A k \in 0..m : b[k] = c[k]
    OBVIOUS
  <2> HIDE DEF b
  <2>3. ASSUME NEW j \in 1..(m + 1) PROVE Hit(d, b[j - 1], path[j], b[j], "directory")
    <3>1. CASE j = m + 1
      <4>1. j - 1 = m /\ m \in 0..m
        BY <3>1
      <4> QED
        BY <1>2, <2>1, <2>2, <3>1, <4>1
    <3>2. CASE j # m + 1
      <4>1. j \in 1..m /\ j \in 0..m /\ j - 1 \in 0..m
        BY <3>2
      <4> QED
        BY <2>1, <2>2, <4>1
    <3> QED
      BY <3>1, <3>2
  <2>4. b[0] = 0
    BY <2>1, <2>2
  <2> QED
    BY <2>2, <2>3, <2>4 DEF Leads
<1> QED
  BY <1>1, <1>2

\* What search_file knows after m names.
Reached(L, d, path, st, m) ==
    /\ st \in Walk /\ st.dir \in L /\ st.parent \in L
    /\ ~st.stop => /\ st.depth = m /\ st.f_type = "directory" /\ Leads(d, path, m, st.dir)
                   /\ m > 0 => /\ Leads(d, path, m - 1, st.parent)
                               /\ Hit(d, st.parent, path[m], st.i_no, "directory")
    /\ st.stop =>
           /\ st.depth \in 1..m /\ Leads(d, path, st.depth - 1, st.parent)
           /\ \/ st.i_no = -1 /\ st.f_type = "unknown" /\ Miss(d, st.parent, path[st.depth])
              \/ st.f_type = "regular" /\ Hit(d, st.parent, path[st.depth], st.i_no, "regular")

\* search_file looks for one name more.
LEMMA WalkStep ==
    ASSUME NEW L, NEW d \in Disk, Sound(L, d), NEW path, NEW m \in Nat, NEW n \in Name,
           n = path[m + 1], NEW st, Reached(L, d, path, st, m),
           NEW r, r = Step(d.table, d.blk, st, n)
    PROVE  Reached(L, d, path, r, m + 1)
<1>1. /\ st \in Walk /\ st.dir \in L /\ st.parent \in L /\ st.depth \in Nat /\ st.dir \in Ino
      /\ st.stop \in BOOLEAN
  BY DEF Reached, Walk
<1>2. PICK u \in L : u = st.dir
  BY <1>1
<1>3. PICK S : S = search_dir_entry(d.table[u], d.blk, n)
  OBVIOUS
<1>4. PICK g : g = At(d.table[u], d.blk, First(S))
  OBVIOUS
<1>5. PICK on : on = [st EXCEPT !.depth = @ + 1]
  OBVIOUS
<1>6. /\ st.stop => r = st
      /\ ~st.stop /\ S = {} =>
             r = [on EXCEPT !.i_no = -1, !.f_type = "unknown", !.parent = u, !.stop = TRUE]
      /\ ~st.stop /\ S # {} /\ g.f_type = "directory" =>
             r = [on EXCEPT !.i_no = g.i_no, !.f_type = "directory", !.parent = u, !.dir = g.i_no]
      /\ ~st.stop /\ S # {} /\ g.f_type # "directory" =>
             r = [on EXCEPT !.i_no = g.i_no, !.f_type = "regular", !.parent = u, !.stop = TRUE]
  BY <1>2, <1>3, <1>4, <1>5, Zenon DEF Step
<1>0. ~st.stop => Leads(d, path, m, u) /\ (m + 1) - 1 = m
  BY <1>2 DEF Reached
<1>7. on = [dir |-> st.dir, parent |-> st.parent, i_no |-> st.i_no, f_type |-> st.f_type,
            depth |-> st.depth + 1, stop |-> st.stop]
  BY <1>1, <1>5 DEF Walk
<1>8. CASE st.stop
  <2>1. r = st
    BY <1>6, <1>8
  <2>2. st.depth \in 1..m => st.depth \in 1..(m + 1)
    OBVIOUS
  <2> QED
    BY <1>8, <2>1, <2>2 DEF Reached
<1>9. CASE ~st.stop /\ S = {}
  <2>1. st.depth = m
    BY <1>9 DEF Reached
  <2>2. r = [on EXCEPT !.i_no = -1, !.f_type = "unknown", !.parent = u, !.stop = TRUE]
    BY <1>6, <1>9
  <2>3. r = [dir |-> u, parent |-> u, i_no |-> -1, f_type |-> "unknown", depth |-> m + 1, stop |-> TRUE]
    BY <1>2, <1>7, <2>1, <2>2
  <2>4. Miss(d, u, n)
    BY <1>3, <1>9 DEF search_dir_entry, Miss
  <2>5. u \in Ino
    BY <1>1, <1>2
  <2>6. r \in Walk
    BY <2>3, <2>5 DEF Walk, Kind
  <2>7. /\ r.dir = u /\ r.parent = u /\ r.i_no = -1 /\ r.f_type = "unknown" /\ r.depth = m + 1
        /\ r.stop
    BY <2>3
  <2>8. m + 1 \in 1..(m + 1)
    OBVIOUS
  <2>9. Leads(d, path, r.depth - 1, r.parent)
    BY <1>0, <1>9, <2>7
  <2> QED
    BY <2>4, <2>6, <2>7, <2>8, <2>9 DEF Reached
<1>10. CASE ~st.stop /\ S # {}
  <2>1. st.depth = m
    BY <1>10 DEF Reached
  <2>2. Hit(d, u, n, g.i_no, g.f_type)
    BY <1>3, <1>4, <1>10 DEF Hit
  <2>3. Holds(L, d, u, First(S)) /\ g = At(d.table[u], d.blk, First(S))
    BY <1>3, <1>4, <2>2, HitPlace
  <2>4. Names(L, d, g)
    BY <2>3 DEF Sound
  <2>5. u \in Ino /\ g.i_no \in Ino /\ g.i_no \in Int
    BY <1>1, <1>2, <2>4, DiskParts DEF Names, Ino
  <2>6. CASE g.f_type = "directory"
    <3>1. r = [on EXCEPT !.i_no = g.i_no, !.f_type = "directory", !.parent = u, !.dir = g.i_no]
      BY <1>6, <1>10, <2>6
    <3>2. r = [dir |-> g.i_no, parent |-> u, i_no |-> g.i_no, f_type |-> "directory",
               depth |-> m + 1, stop |-> st.stop]
      BY <1>7, <2>1, <3>1
    <3>3. r \in Walk
      BY <1>1, <2>5, <3>2 DEF Walk, Kind
    <3>4. /\ r.dir = g.i_no /\ r.parent = u /\ r.i_no = g.i_no /\ r.f_type = "directory"
          /\ r.depth = m + 1 /\ r.stop = st.stop
      BY <3>2
    <3>5. g.i_no \in L
      BY <2>4, <2>6 DEF Names
    <3>6. Hit(d, r.parent, path[m + 1], r.i_no, "directory")
      BY <2>2, <2>6, <3>4
    <3>7. Leads(d, path, (m + 1) - 1, r.parent)
      BY <1>0, <1>10, <3>4
    <3>8. Leads(d, path, m + 1, r.dir)
      BY <1>0, <1>10, <3>4, <3>6, LeadsOn
    <3> QED
      BY <1>10, <3>3, <3>4, <3>5, <3>6, <3>7, <3>8 DEF Reached
  <2>7. CASE g.f_type # "directory"
    <3>0. g.f_type = "regular"
      BY <2>4, <2>7 DEF Names
    <3>1. r = [on EXCEPT !.i_no = g.i_no, !.f_type = "regular", !.parent = u, !.stop = TRUE]
      BY <1>6, <1>10, <2>7
    <3>2. r = [dir |-> u, parent |-> u, i_no |-> g.i_no, f_type |-> "regular",
               depth |-> m + 1, stop |-> TRUE]
      BY <1>2, <1>7, <2>1, <3>1
    <3>3. r \in Walk
      BY <2>5, <3>2 DEF Walk, Kind
    <3>4. /\ r.dir = u /\ r.parent = u /\ r.i_no = g.i_no /\ r.f_type = "regular"
          /\ r.depth = m + 1 /\ r.stop
      BY <3>2
    <3>5. Hit(d, r.parent, path[r.depth], r.i_no, "regular")
      BY <2>2, <3>0, <3>4
    <3>6. r.depth \in 1..(m + 1)
      BY <3>4
    <3>7. Leads(d, path, r.depth - 1, r.parent)
      BY <1>0, <1>10, <3>4
    <3> QED
      BY <3>3, <3>4, <3>5, <3>6, <3>7 DEF Reached
  <2> QED
    BY <2>6, <2>7
<1> QED
  BY <1>1, <1>8, <1>9, <1>10

Start == [dir |-> 0, parent |-> 0, i_no |-> 0, f_type |-> "directory", depth |-> 0, stop |-> FALSE]

\* it[1..m] is what search_file knows after the first m names of path.
Walks(it, node, blk, path, n) ==
    it = [s \in SUBSET (1..n) |->
             IF s = {} THEN Start ELSE Step(node, blk, it[s \ {Max(s)}], path[Max(s)])]

\* The function that a fold defines exists, by induction over the length.
LEMMA WalksExist ==
    ASSUME NEW node, NEW blk, NEW path, NEW n \in Nat
    PROVE  \E it : Walks(it, node, blk, path, n)
<1> DEFINE P == {m \in Nat : \E it : Walks(it, node, blk, path, m)}
<1>1. 0 \in P
  <2> DEFINE f == [s \in SUBSET (1..0) |-> Start]
  <2>1. \A s \in SUBSET (1..0) : s = {}
    OBVIOUS
  <2>2. f = [s \in SUBSET (1..0) |->
               IF s = {} THEN Start ELSE Step(node, blk, f[s \ {Max(s)}], path[Max(s)])]
    BY <2>1
  <2>3. Walks(f, node, blk, path, 0)
    BY <2>2 DEF Walks
  <2> QED
    BY <2>3
<1>2. ASSUME NEW m \in Nat, m \in P PROVE m + 1 \in P
  <2>1. PICK f : Walks(f, node, blk, path, m)
    BY <1>2
  <2>2. \A s \in SUBSET (1..m) :
           f[s] = IF s = {} THEN Start ELSE Step(node, blk, f[s \ {Max(s)}], path[Max(s)])
    BY <2>1 DEF Walks
  <2> DEFINE g == [s \in SUBSET (1..(m + 1)) |->
                      IF m + 1 \in s THEN Step(node, blk, f[s \ {m + 1}], path[m + 1]) ELSE f[s]]
  <2>3. ASSUME NEW s \in SUBSET (1..(m + 1))
        PROVE  g[s] = IF s = {} THEN Start ELSE Step(node, blk, g[s \ {Max(s)}], path[Max(s)])
    <3>1. CASE m + 1 \in s
      <4>1. Max(s) \in s /\ \A y \in s : Max(s) >= y
        <5>1. m + 1 \in Nat /\ s \subseteq 1..(m + 1) /\ s # {}
          BY <3>1
        <5> HIDE DEF g
        <5> QED
          BY <5>1, GreatestMember
      <4>2. Max(s) = m + 1
        <5>1. Max(s) >= m + 1 /\ Max(s) \in 1..(m + 1)
          BY <3>1, <4>1
        <5> HIDE DEF g
        <5> QED
          BY <5>1
      <4>3. s \ {m + 1} \in SUBSET (1..m) /\ s \ {m + 1} \in SUBSET (1..(m + 1))
        OBVIOUS
      <4>4. g[s \ {m + 1}] = f[s \ {m + 1}]
        BY <4>3
      <4>5. g[s] = Step(node, blk, f[s \ {m + 1}], path[m + 1])
        BY <3>1
      <4> HIDE DEF g
      <4> QED
        BY <3>1, <4>2, <4>4, <4>5
    <3>2. CASE m + 1 \notin s
      <4>1. s \in SUBSET (1..m)
        BY <3>2
      <4>2. g[s] = f[s]
        BY <3>2
      <4>3. CASE s # {}
        <5>1. s \ {Max(s)} \in SUBSET (1..m) /\ s \ {Max(s)} \in SUBSET (1..(m + 1))
              /\ m + 1 \notin s \ {Max(s)}
          BY <3>2, <4>1
        <5>2. g[s \ {Max(s)}] = f[s \ {Max(s)}]
          BY <5>1
        <5> HIDE DEF g
        <5> QED
          BY <2>2, <4>1, <4>2, <4>3, <5>2
      <4> HIDE DEF g
      <4> QED
        BY <2>2, <4>1, <4>2, <4>3
    <3> QED
      BY <3>1, <3>2
  <2>4. g = [s \in SUBSET (1..(m + 1)) |->
                IF s = {} THEN Start ELSE Step(node, blk, g[s \ {Max(s)}], path[Max(s)])]
    <3>1. g = [s \in SUBSET (1..(m + 1)) |-> g[s]]
      OBVIOUS
    <3> HIDE DEF g
    <3> QED
      BY <2>3, <3>1
  <2>5. Walks(g, node, blk, path, m + 1)
    BY <2>4 DEF Walks
  <2> QED
    BY <2>5
<1> HIDE DEF P
<1>3. \A m \in Nat : m >= 0 => m \in P
  BY <1>1, <1>2, SetInduction
<1> QED
  BY <1>3 DEF P

\* The first m names.
LEMMA WalkOn ==
    ASSUME NEW it, NEW node, NEW blk, NEW path, NEW n \in Nat, Walks(it, node, blk, path, n)
    PROVE  /\ it[1..0] = Start
           /\ \A m \in 0..(n - 1) : it[1..(m + 1)] = Step(node, blk, it[1..m], path[m + 1])
<1>1. it[1..0] = Start
  <2>1. 1..0 = {} /\ 1..0 \in SUBSET (1..n)
    OBVIOUS
  <2> QED
    BY <2>1 DEF Walks
<1>2. ASSUME NEW h \in 0..(n - 1) PROVE it[1..(h + 1)] = Step(node, blk, it[1..h], path[h + 1])
  <2>0. PICK m \in 1..n : m = h + 1 /\ (1..m) \ {m} = 1..h
    <3>1. h + 1 \in 1..n /\ (1..(h + 1)) \ {h + 1} = 1..h
      OBVIOUS
    <3> QED
      BY <3>1
  <2>1. 1..m \in SUBSET (1..n) /\ 1..m # {} /\ m \in 1..m /\ m \in Nat
    OBVIOUS
  <2>2. it[1..m] = Step(node, blk, it[(1..m) \ {Max(1..m)}], path[Max(1..m)])
    BY <2>1 DEF Walks
  <2>3. Max(1..m) \in 1..m /\ \A y \in 1..m : Max(1..m) >= y
    BY <2>1, GreatestMember
  <2>4. Max(1..m) = m
    BY <2>1, <2>3
  <2> QED
    BY <2>0, <2>2, <2>4
<1> QED
  BY <1>1, <1>2


\* Search is a fold over the names of the path.
LEMMA SearchWalks ==
    ASSUME NEW node, NEW blk, NEW n \in Nat, NEW path, DOMAIN path = 1..n
    PROVE  \E it : Walks(it, node, blk, path, n) /\ Search(node, blk, path) = it[1..n]
<1> DEFINE W(it) == it = [s \in SUBSET (1..n) |->
                IF s = {} THEN Start ELSE Step(node, blk, it[s \ {Max(s)}], path[Max(s)])]
<1>1. \A it : W(it) <=> Walks(it, node, blk, path, n)
  BY DEF Walks
<1>2. \E it : W(it)
  <2> HIDE DEF W
  <2> QED
    BY <1>1, WalksExist
<1>3. Search(node, blk, path)
          = (CHOOSE it : it = [s \in SUBSET (DOMAIN path) |->
                IF s = {} THEN [dir |-> 0, parent |-> 0, i_no |-> 0, f_type |-> "directory",
                                depth |-> 0, stop |-> FALSE]
                ELSE Step(node, blk, it[s \ {Max(s)}], path[Max(s)])])[DOMAIN path]
  BY DEF FoldLeft, MapThenFoldSet, Search
<1>4. Search(node, blk, path) = (CHOOSE it : W(it))[1..n]
  BY <1>3 DEF Start
<1>5. W(CHOOSE it : W(it))
  <2> HIDE DEF W
  <2> QED
    BY <1>2
<1> HIDE DEF W
<1> QED
  BY <1>1, <1>4, <1>5

\* What search_file returns.
LEMMA SearchReaches ==
    ASSUME NEW L, NEW d \in Disk, Sound(L, d), NEW path \in Path
    PROVE  /\ Len(path) \in Nat \ {0} /\ Last(path) = path[Len(path)] /\ Last(path) \in Name
           /\ Reached(L, d, path, Search(d.table, d.blk, path), Len(path))
<1>1. PICK n \in 1..MAX_DEPTH : path \in [1..n -> Name]
  BY DEF Path
<1>2. n \in Nat \ {0} /\ DOMAIN path = 1..n /\ path \in Seq(Name)
  <2>0. MAX_DEPTH \in Nat
    BY DirectoryAssumption
  <2>1. n \in Nat \ {0}
    BY <2>0
  <2>2. path \in Seq(Name)
    BY <1>1, <2>1
  <2> QED
    BY <1>1, <2>1, <2>2
<1>3. Len(path) = n
  BY <1>2
<1>4. Last(path) = path[Len(path)] /\ path[n] \in Name
  BY <1>1, <1>2 DEF Last
<1>5. PICK it : Walks(it, d.table, d.blk, path, n) /\ Search(d.table, d.blk, path) = it[1..n]
  BY <1>2, SearchWalks
<1>6. /\ it[1..0] = Start
      /\ \A m \in 0..(n - 1) : it[1..(m + 1)] = Step(d.table, d.blk, it[1..m], path[m + 1])
  BY <1>2, <1>5, WalkOn
<1> DEFINE P == {m \in Nat : m <= n => Reached(L, d, path, it[1..m], m)}
<1>7. 0 \in P
  <2>1. 0 \in L /\ 0 \in Ino
    BY DiskParts DEF Sound
  <2>2. /\ Start \in Walk /\ Start.dir = 0 /\ Start.parent = 0 /\ ~Start.stop /\ Start.depth = 0
        /\ Start.f_type = "directory"
    BY <2>1 DEF Start, Walk, Kind
  <2>3. Reached(L, d, path, Start, 0)
    BY <2>1, <2>2, LeadsOn DEF Reached
  <2> QED
    BY <1>6, <2>3
<1>8. ASSUME NEW m \in Nat, m \in P PROVE m + 1 \in P
  <2>1. SUFFICES ASSUME m + 1 <= n PROVE Reached(L, d, path, it[1..(m + 1)], m + 1)
    OBVIOUS
  <2>2. m \in 0..(n - 1) /\ m + 1 \in 1..n /\ m <= n
    BY <1>2, <2>1
  <2>3. Reached(L, d, path, it[1..m], m)
    BY <1>8, <2>2
  <2>4. path[m + 1] \in Name
    BY <1>1, <2>2
  <2>5. it[1..(m + 1)] = Step(d.table, d.blk, it[1..m], path[m + 1])
    BY <1>6, <2>2
  <2> QED
    BY <2>3, <2>4, <2>5, WalkStep
<1> HIDE DEF P
<1>9. \A m \in Nat : m >= 0 => m \in P
  BY <1>7, <1>8, SetInduction
<1>10. Reached(L, d, path, it[1..n], n)
  BY <1>2, <1>9 DEF P
<1> QED
  BY <1>2, <1>3, <1>4, <1>5, <1>10

\* What the answer of search_file means when the whole path was searched.
LEMMA Answer ==
    ASSUME NEW L, NEW d, NEW path, NEW r, NEW n \in Nat \ {0}, Reached(L, d, path, r, n), r.depth = n
    PROVE  /\ r.parent \in L /\ r \in Walk /\ Leads(d, path, n - 1, r.parent)
           /\ r.f_type = "directory" => Hit(d, r.parent, path[n], r.i_no, "directory")
           /\ r.f_type = "regular" => Hit(d, r.parent, path[n], r.i_no, "regular")
           /\ r.f_type \notin {"directory", "regular"} => Miss(d, r.parent, path[n])
<1>1. CASE r.stop
  BY <1>1 DEF Reached
<1>2. CASE ~r.stop
  BY <1>2 DEF Reached
<1> QED
  BY <1>1, <1>2

\* What is found is in use.
LEMMA HitNames ==
    ASSUME NEW L, NEW d \in Disk, Sound(L, d), NEW u \in L, NEW n \in Name, NEW i, NEW t,
           Hit(d, u, n, i, t)
    PROVE  /\ i \in d.bits /\ i \in Ino /\ i # 0 /\ i # -1 /\ d.table[i].kind = t
           /\ t = "directory" => i \in L
           /\ u \in Ino /\ u \in d.bits
<1>1. PICK p : p = First(search_dir_entry(d.table[u], d.blk, n))
  OBVIOUS
<1>2. PICK g : /\ g = At(d.table[u], d.blk, p) /\ Holds(L, d, u, p) /\ g.i_no = i /\ g.f_type = t
  BY <1>1, HitPlace
<1>3. Names(L, d, g)
  BY <1>2 DEF Sound
<1>4. i \in Ino /\ u \in Ino /\ u \in d.bits
  BY <1>2, <1>3, DiskParts DEF Names, Sound
<1>5. i # -1
  <2>1. i \in Nat
    BY <1>4, EntryTypes
  <2> QED
    BY <2>1
<1> QED
  BY <1>2, <1>3, <1>4, <1>5 DEF Names

\* it[1..m] is the disk d after the first m writes.
Writes(it, d, wr, n) ==
    it = [s \in SUBSET (1..n) |-> IF s = {} THEN d ELSE Put(it[s \ {Max(s)}], wr[Max(s)])]

\* As for search_file, the function exists.
LEMMA WritesExist ==
    ASSUME NEW d, NEW wr, NEW n \in Nat
    PROVE  \E it : Writes(it, d, wr, n)
<1> DEFINE P == {m \in Nat : \E it : Writes(it, d, wr, m)}
<1>1. 0 \in P
  <2> DEFINE f == [s \in SUBSET (1..0) |-> d]
  <2>1. \A s \in SUBSET (1..0) : s = {}
    OBVIOUS
  <2>2. f = [s \in SUBSET (1..0) |->
               IF s = {} THEN d ELSE Put(f[s \ {Max(s)}], wr[Max(s)])]
    BY <2>1
  <2>3. Writes(f, d, wr, 0)
    BY <2>2 DEF Writes
  <2> QED
    BY <2>3
<1>2. ASSUME NEW m \in Nat, m \in P PROVE m + 1 \in P
  <2>1. PICK f : Writes(f, d, wr, m)
    BY <1>2
  <2>2. \A s \in SUBSET (1..m) :
           f[s] = IF s = {} THEN d ELSE Put(f[s \ {Max(s)}], wr[Max(s)])
    BY <2>1 DEF Writes
  <2> DEFINE g == [s \in SUBSET (1..(m + 1)) |->
                      IF m + 1 \in s THEN Put(f[s \ {m + 1}], wr[m + 1]) ELSE f[s]]
  <2>3. ASSUME NEW s \in SUBSET (1..(m + 1))
        PROVE  g[s] = IF s = {} THEN d ELSE Put(g[s \ {Max(s)}], wr[Max(s)])
    <3>1. CASE m + 1 \in s
      <4>1. Max(s) \in s /\ \A y \in s : Max(s) >= y
        <5>1. m + 1 \in Nat /\ s \subseteq 1..(m + 1) /\ s # {}
          BY <3>1
        <5> HIDE DEF g
        <5> QED
          BY <5>1, GreatestMember
      <4>2. Max(s) = m + 1
        <5>1. Max(s) >= m + 1 /\ Max(s) \in 1..(m + 1)
          BY <3>1, <4>1
        <5> HIDE DEF g
        <5> QED
          BY <5>1
      <4>3. s \ {m + 1} \in SUBSET (1..m) /\ s \ {m + 1} \in SUBSET (1..(m + 1))
        OBVIOUS
      <4>4. g[s \ {m + 1}] = f[s \ {m + 1}]
        BY <4>3
      <4>5. g[s] = Put(f[s \ {m + 1}], wr[m + 1])
        BY <3>1
      <4> HIDE DEF g
      <4> QED
        BY <3>1, <4>2, <4>4, <4>5
    <3>2. CASE m + 1 \notin s
      <4>1. s \in SUBSET (1..m)
        BY <3>2
      <4>2. g[s] = f[s]
        BY <3>2
      <4>3. CASE s # {}
        <5>1. s \ {Max(s)} \in SUBSET (1..m) /\ s \ {Max(s)} \in SUBSET (1..(m + 1))
              /\ m + 1 \notin s \ {Max(s)}
          BY <3>2, <4>1
        <5>2. g[s \ {Max(s)}] = f[s \ {Max(s)}]
          BY <5>1
        <5> HIDE DEF g
        <5> QED
          BY <2>2, <4>1, <4>2, <4>3, <5>2
      <4> HIDE DEF g
      <4> QED
        BY <2>2, <4>1, <4>2, <4>3
    <3> QED
      BY <3>1, <3>2
  <2>4. g = [s \in SUBSET (1..(m + 1)) |->
                IF s = {} THEN d ELSE Put(g[s \ {Max(s)}], wr[Max(s)])]
    <3>1. g = [s \in SUBSET (1..(m + 1)) |-> g[s]]
      OBVIOUS
    <3> HIDE DEF g
    <3> QED
      BY <2>3, <3>1
  <2>5. Writes(g, d, wr, m + 1)
    BY <2>4 DEF Writes
  <2> QED
    BY <2>5
<1> HIDE DEF P
<1>3. \A m \in Nat : m >= 0 => m \in P
  BY <1>1, <1>2, SetInduction
<1> QED
  BY <1>3 DEF P

\* The first m writes.
LEMMA WriteOn ==
    ASSUME NEW it, NEW d, NEW wr, NEW n \in Nat, Writes(it, d, wr, n)
    PROVE  /\ it[1..0] = d
           /\ \A m \in 0..(n - 1) : it[1..(m + 1)] = Put(it[1..m], wr[m + 1])
<1>1. it[1..0] = d
  <2>1. 1..0 = {} /\ 1..0 \in SUBSET (1..n)
    OBVIOUS
  <2> QED
    BY <2>1 DEF Writes
<1>2. ASSUME NEW h \in 0..(n - 1) PROVE it[1..(h + 1)] = Put(it[1..h], wr[h + 1])
  <2>0. PICK m \in 1..n : m = h + 1 /\ (1..m) \ {m} = 1..h
    <3>1. h + 1 \in 1..n /\ (1..(h + 1)) \ {h + 1} = 1..h
      OBVIOUS
    <3> QED
      BY <3>1
  <2>1. 1..m \in SUBSET (1..n) /\ 1..m # {} /\ m \in 1..m /\ m \in Nat
    <3>1. m \in Nat /\ 1 <= m /\ m <= n /\ m \in 1..m
      OBVIOUS
    <3>2. \A k \in 1..m : k \in 1..n
      BY <3>1
    <3> QED
      BY <3>1, <3>2
  <2>2. it[1..m] = Put(it[(1..m) \ {Max(1..m)}], wr[Max(1..m)])
    BY <2>1 DEF Writes
  <2>3. Max(1..m) \in 1..m /\ \A y \in 1..m : Max(1..m) >= y
    BY <2>1, GreatestMember, SMTT(30)
  <2>4. Max(1..m) = m
    BY <2>1, <2>3
  <2> QED
    BY <2>0, <2>2, <2>4
<1> QED
  BY <1>1, <1>2


\* The fold over the pending writes is where they lead.
LEMMA FoldLeads ==
    ASSUME NEW wr, wr \in Seq(Write), NEW d, NEW e, NEW S, Chain(wr, d, e, S)
    PROVE  FoldLeft(Put, d, wr) = e
<1>0. PICK n \in Nat : n = Len(wr) /\ DOMAIN wr = 1..n
  <2>1. Len(wr) \in Nat /\ DOMAIN wr = 1..Len(wr)
    OBVIOUS
  <2> QED
    BY <2>1
<1> DEFINE W(it) == it = [s \in SUBSET (1..n) |-> IF s = {} THEN d ELSE Put(it[s \ {Max(s)}], wr[Max(s)])]
<1>1. \A it : W(it) <=> Writes(it, d, wr, n)
  BY DEF Writes
<1>2. \E it : W(it)
  <2> HIDE DEF W
  <2> QED
    BY <1>1, WritesExist
<1>3. FoldLeft(Put, d, wr)
          = (CHOOSE it : it = [s \in SUBSET (DOMAIN wr) |->
                IF s = {} THEN d ELSE Put(it[s \ {Max(s)}], wr[Max(s)])])[DOMAIN wr]
  BY DEF FoldLeft, MapThenFoldSet
<1>4. FoldLeft(Put, d, wr) = (CHOOSE it : W(it))[1..n]
  BY <1>0, <1>3
<1>5. W(CHOOSE it : W(it))
  <2> HIDE DEF W
  <2> QED
    BY <1>2
<1>6. PICK it : Writes(it, d, wr, n) /\ FoldLeft(Put, d, wr) = it[1..n]
  <2> HIDE DEF W
  <2> QED
    BY <1>1, <1>4, <1>5
<1> HIDE DEF W
<1>7. /\ it[1..0] = d
      /\ \A m \in 0..(n - 1) : it[1..(m + 1)] = Put(it[1..m], wr[m + 1])
  BY <1>6, WriteOn
<1>8. PICK run : /\ run[0] = d /\ run[n] = e
                 /\ \A k \in 1..n : run[k] = Put(run[k - 1], wr[k])
  BY <1>0 DEF Chain
<1> DEFINE P == {m \in Nat : m <= n => it[1..m] = run[m]}
<1>9. 0 \in P
  BY <1>7, <1>8
<1>10. ASSUME NEW m \in Nat, m \in P PROVE m + 1 \in P
  <2>1. SUFFICES ASSUME m + 1 <= n PROVE it[1..(m + 1)] = run[m + 1]
    OBVIOUS
  <2>2. m \in 0..(n - 1) /\ m + 1 \in 1..n /\ (m + 1) - 1 = m /\ m <= n
    BY <2>1
  <2>3. it[1..m] = run[m]
    BY <1>10, <2>2
  <2>4. run[m + 1] = Put(run[m], wr[m + 1])
    BY <1>8, <2>2
  <2> QED
    BY <1>7, <2>2, <2>3, <2>4
<1> HIDE DEF P
<1>11. \A m \in Nat : m >= 0 => m \in P
  BY <1>9, <1>10, SetInduction
<1>12. it[1..n] = run[n]
  BY <1>11 DEF P
<1> QED
  BY <1>6, <1>8, <1>12

----------------------------------------------------------------------------
(* The tree of names that a disk holds.                                    *)

\* The first m of path are names.
Named(path, m) == \A j \in 1..m : path[j] \in Name

\* A path is a sequence of names, with one at least.
LEMMA PathParts ==
    ASSUME NEW path
    PROVE  path \in Path <=> /\ path \in Seq(Name) /\ Len(path) \in Nat \ {0}
                             /\ Len(path) <= MAX_DEPTH
<1>0. MAX_DEPTH \in Nat
  BY DirectoryAssumption
<1>1. ASSUME path \in Path
      PROVE  path \in Seq(Name) /\ Len(path) \in Nat \ {0} /\ Len(path) <= MAX_DEPTH
  <2>1. PICK n \in 1..MAX_DEPTH : path \in [1..n -> Name]
    BY <1>1 DEF Path
  <2>2. n \in Nat \ {0} /\ n <= MAX_DEPTH
    BY <1>0
  <2>3. path \in Seq(Name)
    BY <2>1, <2>2
  <2>4. Len(path) = n
    BY <2>1, <2>2, <2>3
  <2> QED
    BY <2>2, <2>3, <2>4
<1>2. ASSUME path \in Seq(Name), Len(path) \in Nat \ {0}, Len(path) <= MAX_DEPTH
      PROVE  path \in Path
  <2>1. Len(path) \in 1..MAX_DEPTH /\ path \in [1..Len(path) -> Name]
    BY <1>0, <1>2
  <2> QED
    BY <2>1 DEF Path
<1> QED
  BY <1>1, <1>2

\* The names of a path, and the last one.
LEMMA PathNamed ==
    ASSUME NEW path, path \in Path, NEW n, n = Len(path)
    PROVE  n \in Nat \ {0} /\ Named(path, n) /\ Named(path, n - 1) /\ path[n] \in Name
<1>1. path \in Seq(Name) /\ n \in Nat \ {0}
  BY PathParts
<1>2. \A j \in 1..n : path[j] \in Name
  BY <1>1
<1>3. n \in 1..n /\ \A j \in 1..(n - 1) : j \in 1..n
  BY <1>1
<1> QED
  BY <1>1, <1>2, <1>3 DEF Named

\* search_dir_entry has one answer.
LEMMA HitOnce ==
    ASSUME NEW d, NEW u, NEW n, NEW i, NEW t, Hit(d, u, n, i, t)
    PROVE  ~Miss(d, u, n) /\ \A j, s : Hit(d, u, n, j, s) => i = j /\ t = s
<1>1. \A j, s : Hit(d, u, n, j, s) => i = j /\ t = s
  BY DEF Hit
<1>2. PICK p : p \in search_dir_entry(d.table[u], d.blk, n)
  BY DEF Hit
<1> QED
  BY <1>1, <1>2 DEF search_dir_entry, Miss

\* c is the way that m names of path lead.
Road(d, path, m, c) ==
    c[0] = 0 /\ \A j \in 1..m : Hit(d, c[j - 1], path[j], c[j], "directory")

\* The way leads to each of its directories.
LEMMA RoadLeads ==
    ASSUME NEW d, NEW path, NEW m \in Nat, NEW c, Road(d, path, m, c), NEW j \in 0..m
    PROVE  Leads(d, path, j, c[j]) /\ Road(d, path, j, c)
<1>1. \A k \in 1..j : k \in 1..m
  OBVIOUS
<1> QED
  BY <1>1 DEF Leads, Road

\* What a path leads to is at the end of a way.
LEMMA LeadsRoad ==
    ASSUME NEW d, NEW path, NEW m, NEW x, Leads(d, path, m, x)
    PROVE  \E c : Road(d, path, m, c) /\ c[m] = x
  BY DEF Leads, Road

\* Where a path leads by its last name.
LEMMA LeadsBack ==
    ASSUME NEW d, NEW path, NEW m \in Nat, NEW x, Leads(d, path, m, x)
    PROVE  /\ m = 0 => x = 0
           /\ m > 0 => \E y : Leads(d, path, m - 1, y) /\ Hit(d, y, path[m], x, "directory")
<1>1. PICK c : Road(d, path, m, c) /\ c[m] = x
  BY LeadsRoad
<1>2. ASSUME m > 0 PROVE \E y : Leads(d, path, m - 1, y) /\ Hit(d, y, path[m], x, "directory")
  <2>1. m - 1 \in 0..m /\ m \in 1..m
    BY <1>2
  <2>2. Leads(d, path, m - 1, c[m - 1])
    BY <1>1, <2>1, RoadLeads
  <2>3. Hit(d, c[m - 1], path[m], x, "directory")
    BY <1>1, <2>1 DEF Road
  <2> QED
    BY <2>2, <2>3
<1> QED
  BY <1>1, <1>2 DEF Road

\* What a path leads to is a directory of the tree.
LEMMA LeadsIn ==
    ASSUME NEW L, NEW d, d \in Disk, Sound(L, d), NEW path, NEW m \in Nat, Named(path, m),
           NEW x, Leads(d, path, m, x)
    PROVE  x \in L
<1>1. PICK c : Road(d, path, m, c) /\ c[m] = x
  BY LeadsRoad
<1> DEFINE P == {k \in Nat : k <= m => c[k] \in L}
<1>2. 0 \in P
  BY <1>1 DEF Road, Sound
<1>3. ASSUME NEW k \in Nat, k \in P PROVE k + 1 \in P
  <2>1. SUFFICES ASSUME k + 1 <= m PROVE c[k + 1] \in L
    OBVIOUS
  <2>2. k + 1 \in 1..m /\ (k + 1) - 1 = k /\ k <= m
    BY <2>1
  <2>3. c[k] \in L
    BY <1>3, <2>2
  <2>4. Hit(d, c[k], path[k + 1], c[k + 1], "directory") /\ path[k + 1] \in Name
    BY <1>1, <2>2 DEF Road, Named
  <2>5. PICK u, n, i, t : /\ u = c[k] /\ n = path[k + 1] /\ i = c[k + 1] /\ t = "directory"
                          /\ u \in L /\ n \in Name /\ Hit(d, u, n, i, t)
    BY <2>3, <2>4
  <2> QED
    BY <2>5, HitNames
<1> HIDE DEF P
<1>4. \A k \in Nat : k >= 0 => k \in P
  BY <1>2, <1>3, SetInduction
<1> QED
  BY <1>1, <1>4 DEF P

\* The first m names are the same.
Same(q, path, m) == \A j \in 1..m : q[j] = path[j]

\* The same names lead to the same directory.
LEMMA SameLeads ==
    ASSUME NEW d, NEW q, NEW path, NEW m, Same(q, path, m), NEW x, Leads(d, q, m, x)
    PROVE  Leads(d, path, m, x)
  BY DEF Same, Leads

\* The last name of a path to a directory, and the directory it is in.
LEMMA LastName ==
    ASSUME NEW L, NEW d, d \in Disk, Sound(L, d), NEW path, NEW k \in Nat, Named(path, k), k > 0,
           NEW y, Leads(d, path, k, y)
    PROVE  /\ y # 0
           /\ \E z \in L : /\ Leads(d, path, k - 1, z) /\ Hit(d, z, path[k], y, "directory")
                           /\ path[k] \in Name
<1>1. PICK z : Leads(d, path, k - 1, z) /\ Hit(d, z, path[k], y, "directory")
  BY LeadsBack
<1>2. k - 1 \in Nat /\ k \in 1..k /\ Named(path, k - 1) /\ path[k] \in Name
  BY DEF Named
<1>3. z \in L
  BY <1>1, <1>2, LeadsIn
<1>4. PICK a, t : a = path[k] /\ t = "directory" /\ a \in Name /\ Hit(d, z, a, y, t)
  BY <1>1, <1>2
<1>5. y # 0
  BY <1>3, <1>4, HitNames
<1> QED
  BY <1>1, <1>2, <1>3, <1>5

\* An inode has one entry.
LEMMA OneEntry ==
    ASSUME NEW L, NEW d, d \in Disk, Sound(L, d), NEW x \in L, NEW y \in L, NEW a \in Name, NEW b \in Name,
           NEW i, NEW s, NEW t, Hit(d, x, a, i, s), Hit(d, y, b, i, t)
    PROVE  x = y /\ a = b
<1>1. PICK p : p = First(search_dir_entry(d.table[x], d.blk, a))
  OBVIOUS
<1>2. PICK q : q = First(search_dir_entry(d.table[y], d.blk, b))
  OBVIOUS
<1>3. /\ Holds(L, d, x, p) /\ At(d.table[x], d.blk, p).filename = a
      /\ At(d.table[x], d.blk, p).i_no = i
  BY <1>1, HitPlace
<1>4. /\ Holds(L, d, y, q) /\ At(d.table[y], d.blk, q).filename = b
      /\ At(d.table[y], d.blk, q).i_no = i
  BY <1>2, HitPlace
<1>5. x = y /\ p = q
  BY <1>3, <1>4 DEF Sound
<1> QED
  BY <1>3, <1>4, <1>5

\* Two paths that lead to one directory are the same: every inode has one
\* entry, and the root has none.
LEMMA OnePath ==
    ASSUME NEW L, NEW d, d \in Disk, Sound(L, d), NEW q, NEW path,
           NEW m \in Nat, NEW n \in Nat, Named(q, m), Named(path, n),
           NEW x, Leads(d, q, m, x), Leads(d, path, n, x)
    PROVE  m = n /\ Same(q, path, m)
<1> DEFINE Phi(k, l, y) == Leads(d, q, k, y) /\ Leads(d, path, l, y) => k = l /\ Same(q, path, k)
           P == {k \in Nat : k <= m => \A l \in 0..n : \A y : Phi(k, l, y)}
<1>1. /\ \A k \in 0..m : Named(q, k)
      /\ \A k \in 0..n : Named(path, k)
  BY DEF Named
<1>2. 0 \in P
  <2>1. SUFFICES ASSUME NEW l \in 0..n, NEW y, Leads(d, q, 0, y), Leads(d, path, l, y)
                 PROVE  0 = l /\ Same(q, path, 0)
    OBVIOUS
  <2>2. y = 0
    BY <2>1, LeadsBack
  <2>3. l \in Nat /\ Named(path, l)
    BY <1>1
  <2>4. ~(l > 0)
    BY <2>1, <2>2, <2>3, LastName
  <2> QED
    BY <2>3, <2>4 DEF Same
<1>3. ASSUME NEW k \in Nat, k \in P PROVE k + 1 \in P
  <2>1. SUFFICES ASSUME k + 1 <= m, NEW l \in 0..n, NEW y, Leads(d, q, k + 1, y), Leads(d, path, l, y)
                 PROVE  k + 1 = l /\ Same(q, path, k + 1)
    OBVIOUS
  <2>2. k + 1 \in Nat /\ k + 1 > 0 /\ (k + 1) - 1 = k /\ Named(q, k + 1) /\ k <= m
    BY <1>1, <2>1
  <2>3. l \in Nat /\ Named(path, l)
    BY <1>1
  <2>4. PICK h \in Nat : h = k + 1
    BY <2>2
  <2>5. y # 0 /\ \E z \in L : /\ Leads(d, q, h - 1, z) /\ Hit(d, z, q[h], y, "directory")
                              /\ q[h] \in Name
    BY <2>1, <2>2, <2>4, LastName
  <2>6. PICK z \in L : Leads(d, q, k, z) /\ Hit(d, z, q[k + 1], y, "directory") /\ q[k + 1] \in Name
    BY <2>2, <2>4, <2>5
  <2>7. l > 0
    BY <2>1, <2>3, <2>5, LeadsBack
  <2>8. PICK v \in L : Leads(d, path, l - 1, v) /\ Hit(d, v, path[l], y, "directory") /\ path[l] \in Name
    BY <2>1, <2>3, <2>7, LastName
  <2>9. z = v /\ q[k + 1] = path[l]
    <3>1. PICK a, b, t : /\ a = q[k + 1] /\ b = path[l] /\ t = "directory" /\ a \in Name /\ b \in Name
                         /\ Hit(d, z, a, y, t) /\ Hit(d, v, b, y, t)
      BY <2>6, <2>8
    <3>2. z = v /\ a = b
      BY <3>1, OneEntry
    <3> QED
      BY <3>1, <3>2
  <2>10. l - 1 \in 0..n
    BY <2>7
  <2>11. Phi(k, l - 1, z)
    BY <1>3, <2>2, <2>10
  <2>12. k = l - 1 /\ Same(q, path, k)
    BY <2>6, <2>8, <2>9, <2>11
  <2>13. k + 1 = l
    BY <2>3, <2>12
  <2>14. \A j \in 1..(k + 1) : j \in 1..k \/ j = k + 1
    OBVIOUS
  <2> QED
    BY <2>9, <2>12, <2>13, <2>14 DEF Same
<1> HIDE DEF P
<1>4. \A k \in Nat : k >= 0 => k \in P
  BY <1>2, <1>3, SetInduction
<1>5. \A l \in 0..n : \A y : Phi(m, l, y)
  BY <1>4 DEF P
<1>6. n \in 0..n
  OBVIOUS
<1> QED
  BY <1>5, <1>6

\* A path leads to one directory.
LEMMA LeadsOnce ==
    ASSUME NEW d, NEW path, NEW m \in Nat, NEW x, NEW y, Leads(d, path, m, x), Leads(d, path, m, y)
    PROVE  x = y
<1>1. PICK c : Road(d, path, m, c) /\ c[m] = x
  BY LeadsRoad
<1>2. PICK b : Road(d, path, m, b) /\ b[m] = y
  BY LeadsRoad
<1> DEFINE P == {k \in Nat : k <= m => c[k] = b[k]}
<1>3. 0 \in P
  BY <1>1, <1>2 DEF Road
<1>4. ASSUME NEW k \in Nat, k \in P PROVE k + 1 \in P
  <2>1. SUFFICES ASSUME k + 1 <= m PROVE c[k + 1] = b[k + 1]
    OBVIOUS
  <2>2. k + 1 \in 1..m /\ (k + 1) - 1 = k /\ k <= m
    BY <2>1
  <2>3. c[k] = b[k]
    BY <1>4, <2>2
  <2>4. Hit(d, c[k], path[k + 1], c[k + 1], "directory") /\ Hit(d, b[k], path[k + 1], b[k + 1], "directory")
    BY <1>1, <1>2, <2>2 DEF Road
  <2> QED
    BY <2>3, <2>4, HitOnce
<1> HIDE DEF P
<1>5. \A k \in Nat : k >= 0 => k \in P
  BY <1>3, <1>4, SetInduction
<1> QED
  BY <1>1, <1>2, <1>5 DEF P

\* What path names on the disk d: "none", "regular" or "directory".
KindIn(d, path) == KindAt(d.table, d.blk, path)

\* A path has the kind that its last name hits where the others lead.
LEMMA KindIs ==
    ASSUME NEW L, NEW d, d \in Disk, Sound(L, d), NEW path, path \in Path, NEW n, n = Len(path)
    PROVE  /\ KindIn(d, path) \in {"none", "regular", "directory"}
           /\ \A t \in {"regular", "directory"} :
                  KindIn(d, path) = t <=>
                      \E x, i : Leads(d, path, n - 1, x) /\ Hit(d, x, path[n], i, t)
<1>1. n \in Nat \ {0} /\ Named(path, n) /\ Named(path, n - 1) /\ path[n] \in Name
  BY PathNamed
<1>2. PICK r : r = Search(d.table, d.blk, path)
  OBVIOUS
<1>3. Reached(L, d, path, r, n)
  BY <1>2, SearchReaches
<1>4. KindIn(d, path) = IF r.depth = n /\ r.i_no # -1 THEN r.f_type ELSE "none"
  BY <1>2 DEF KindIn, KindAt, WholePath
<1>5. ASSUME r.depth = n
      PROVE  /\ r.parent \in L /\ Leads(d, path, n - 1, r.parent) /\ r.f_type \in Kind
             /\ r.f_type = "directory" => Hit(d, r.parent, path[n], r.i_no, "directory") /\ r.i_no # -1
             /\ r.f_type = "regular" => Hit(d, r.parent, path[n], r.i_no, "regular") /\ r.i_no # -1
             /\ r.f_type \notin {"directory", "regular"} => Miss(d, r.parent, path[n]) /\ r.i_no = -1
  <2>1. /\ r.parent \in L /\ r \in Walk /\ Leads(d, path, n - 1, r.parent)
        /\ r.f_type = "directory" => Hit(d, r.parent, path[n], r.i_no, "directory")
        /\ r.f_type = "regular" => Hit(d, r.parent, path[n], r.i_no, "regular")
        /\ r.f_type \notin {"directory", "regular"} => Miss(d, r.parent, path[n])
    BY <1>1, <1>3, <1>5, Answer
  <2>2. ASSUME NEW t, Hit(d, r.parent, path[n], r.i_no, t) PROVE r.i_no # -1
    <3>1. PICK u, a, i : /\ u = r.parent /\ a = path[n] /\ i = r.i_no
                         /\ u \in L /\ a \in Name /\ Hit(d, u, a, i, t)
      BY <1>1, <2>1, <2>2
    <3>2. i # -1
      BY <3>1, HitNames
    <3> QED
      BY <3>1, <3>2
  <2>3. r.f_type \notin {"directory", "regular"} => r.i_no = -1
    <3>1. CASE r.stop
      BY <1>3, <3>1 DEF Reached
    <3>2. CASE ~r.stop
      BY <1>3, <3>2 DEF Reached
    <3> QED
      BY <3>1, <3>2
  <2> QED
    BY <2>1, <2>2, <2>3 DEF Walk
<1>6. KindIn(d, path) \in {"none", "regular", "directory"}
  <2>1. CASE r.depth = n
    BY <1>4, <1>5, <2>1 DEF Kind
  <2>2. CASE r.depth # n
    BY <1>4, <2>2
  <2> QED
    BY <2>1, <2>2
<1>7. ASSUME NEW t \in {"regular", "directory"}, KindIn(d, path) = t
      PROVE  \E x, i : Leads(d, path, n - 1, x) /\ Hit(d, x, path[n], i, t)
  <2>1. r.depth = n /\ r.f_type = t
    BY <1>4, <1>7
  <2> QED
    BY <1>5, <2>1
<1>8. ASSUME NEW t \in {"regular", "directory"}, NEW x, NEW i,
             Leads(d, path, n - 1, x), Hit(d, x, path[n], i, t)
      PROVE  KindIn(d, path) = t
  <2>1. r.depth = n
    <3>1. SUFFICES ASSUME r.depth # n PROVE FALSE
      OBVIOUS
    <3>2. r.stop
      BY <1>3, <3>1 DEF Reached
    <3>3. PICK k \in 1..n : k = r.depth
      BY <1>3, <3>2 DEF Reached
    <3>4. /\ Leads(d, path, k - 1, r.parent)
          /\ \/ Miss(d, r.parent, path[k])
             \/ Hit(d, r.parent, path[k], r.i_no, "regular")
      BY <1>3, <3>2, <3>3 DEF Reached
    <3>5. PICK c : Road(d, path, n - 1, c)
      BY <1>8, LeadsRoad
    <3>6. k \in 1..(n - 1) /\ k - 1 \in 0..(n - 1) /\ n - 1 \in Nat /\ k - 1 \in Nat
      BY <1>1, <3>1, <3>3
    <3>7. Leads(d, path, k - 1, c[k - 1]) /\ Hit(d, c[k - 1], path[k], c[k], "directory")
      BY <3>5, <3>6, RoadLeads DEF Road
    <3>8. c[k - 1] = r.parent
      BY <3>4, <3>6, <3>7, LeadsOnce
    <3> QED
      BY <3>4, <3>7, <3>8, HitOnce
  <2>2. n - 1 \in Nat
    BY <1>1
  <2>3. x = r.parent
    BY <1>5, <1>8, <2>1, <2>2, LeadsOnce
  <2>4. r.f_type = t /\ r.i_no # -1
    BY <1>5, <1>8, <2>1, <2>3, HitOnce DEF Kind
  <2> QED
    BY <1>4, <2>1, <2>4
<1> QED
  BY <1>6, <1>7, <1>8

\* The disk e holds what d holds without the name nm in directory u, and
\* without the directory i, which no other entry names.
Trim(L, d, K, e, u, nm, i) ==
    /\ i # 0 /\ \A x : x \in K <=> x \in L /\ x # i
    /\ \A x \in K, n \in Name : \A j, t :
           Hit(e, x, n, j, t) <=> Hit(d, x, n, j, t) /\ ~(x = u /\ n = nm)
    /\ \A x \in L, n \in Name : \A t : Hit(d, x, n, i, t) => x = u /\ n = nm

\* path names what is trimmed.
Trims(L, d, K, e, u, i, path) ==
    /\ path \in Path /\ Trim(L, d, K, e, u, path[Len(path)], i)
    /\ Leads(d, path, Len(path) - 1, u)

\* q is path or below it.
Under(path, q) == Len(q) >= Len(path) /\ Same(q, path, Len(path))

\* A way goes through directories of the tree.
LEMMA RoadIn ==
    ASSUME NEW L, NEW d, d \in Disk, Sound(L, d), NEW q, NEW m \in Nat, Named(q, m),
           NEW c, Road(d, q, m, c), NEW j \in 0..m
    PROVE  c[j] \in L
<1>1. j \in Nat /\ Named(q, j)
  BY DEF Named
<1>2. Leads(d, q, j, c[j])
  BY RoadLeads
<1> QED
  BY <1>1, <1>2, LeadsIn

\* A way in the trimmed tree is one in the whole tree.
LEMMA WayBack ==
    ASSUME NEW L, NEW d, NEW K, NEW e, NEW u, NEW nm, NEW i, Trim(L, d, K, e, u, nm, i),
           e \in Disk, Sound(K, e), NEW q, NEW m \in Nat, Named(q, m), NEW c, Road(e, q, m, c)
    PROVE  Road(d, q, m, c)
<1>1. ASSUME NEW j \in 1..m PROVE Hit(d, c[j - 1], q[j], c[j], "directory")
  <2>1. j - 1 \in 0..m
    OBVIOUS
  <2>2. c[j - 1] \in K
    BY <2>1, RoadIn
  <2>3. Hit(e, c[j - 1], q[j], c[j], "directory") /\ q[j] \in Name
    BY DEF Road, Named
  <2> QED
    BY <2>2, <2>3 DEF Trim
<1> QED
  BY <1>1 DEF Road

\* Only the path itself comes to the name that is trimmed.
LEMMA OnlyHere ==
    ASSUME NEW L, NEW d, NEW K, NEW e, NEW u, NEW i, NEW path, Trims(L, d, K, e, u, i, path),
           d \in Disk, Sound(L, d), NEW q, NEW m \in Nat, Named(q, m), m > 0,
           Leads(d, q, m - 1, u), q[m] = path[Len(path)]
    PROVE  m = Len(path) /\ Same(q, path, m)
<1>1. PICK n : n = Len(path)
  OBVIOUS
<1>2. n \in Nat \ {0} /\ Named(path, n - 1)
  BY <1>1, PathNamed DEF Trims
<1>3. m - 1 \in Nat /\ n - 1 \in Nat /\ Named(q, m - 1)
  BY <1>2 DEF Named
<1>4. Leads(d, path, n - 1, u)
  BY <1>1 DEF Trims
<1>5. m - 1 = n - 1 /\ Same(q, path, m - 1)
  BY <1>2, <1>3, <1>4, OnePath
<1>6. m = n
  BY <1>2, <1>5
<1>7. \A j \in 1..m : j \in 1..(m - 1) \/ j = m
  OBVIOUS
<1> QED
  BY <1>1, <1>5, <1>6, <1>7 DEF Same

\* A way in the whole tree that does not go through the name is one in the trimmed tree.
LEMMA WayOn ==
    ASSUME NEW L, NEW d, NEW K, NEW e, NEW u, NEW i, NEW path, Trims(L, d, K, e, u, i, path),
           d \in Disk, Sound(L, d), NEW q, NEW m \in Nat, Named(q, m), NEW c, Road(d, q, m, c),
           ~(m >= Len(path) /\ Same(q, path, Len(path)))
    PROVE  Road(e, q, m, c) /\ c[m] \in K
<1>1. PICK n, nm : n = Len(path) /\ nm = path[n]
  OBVIOUS
<1>2. n \in Nat \ {0} /\ Trim(L, d, K, e, u, nm, i)
  BY <1>1, PathNamed DEF Trims
<1>3. ASSUME NEW j \in 1..m PROVE ~(c[j - 1] = u /\ q[j] = nm)
  <2>1. SUFFICES ASSUME c[j - 1] = u, q[j] = nm PROVE FALSE
    OBVIOUS
  <2>2. j \in Nat /\ j > 0 /\ j - 1 \in 0..m /\ Named(q, j) /\ j <= m
    BY DEF Named
  <2>3. Leads(d, q, j - 1, u)
    BY <2>1, <2>2, RoadLeads
  <2>4. j = n /\ Same(q, path, j)
    BY <1>1, <2>1, <2>2, <2>3, OnlyHere
  <2> QED
    BY <1>1, <2>2, <2>4
<1>4. ASSUME NEW j \in 0..m PROVE c[j] \in K
  <2>1. c[j] \in L
    BY RoadIn
  <2>2. CASE j = 0
    BY <1>2, <2>1, <2>2 DEF Road, Trim
  <2>3. CASE j # 0
    <3>1. j \in 1..m /\ j - 1 \in 0..m
      BY <2>3
    <3>2. c[j - 1] \in L
      BY <3>1, RoadIn
    <3>3. Hit(d, c[j - 1], q[j], c[j], "directory") /\ q[j] \in Name
      BY <3>1 DEF Road, Named
    <3>4. c[j] # i
      BY <1>2, <1>3, <3>1, <3>2, <3>3 DEF Trim
    <3> QED
      BY <1>2, <2>1, <3>4 DEF Trim
  <2> QED
    BY <2>2, <2>3
<1>5. ASSUME NEW j \in 1..m PROVE Hit(e, c[j - 1], q[j], c[j], "directory")
  <2>1. j - 1 \in 0..m
    OBVIOUS
  <2>2. c[j - 1] \in K
    BY <1>4, <2>1
  <2>3. Hit(d, c[j - 1], q[j], c[j], "directory") /\ q[j] \in Name
    BY DEF Road, Named
  <2> QED
    BY <1>2, <1>3, <2>2, <2>3 DEF Trim
<1>6. m \in 0..m
  OBVIOUS
<1> QED
  BY <1>4, <1>5, <1>6 DEF Road

\* Nothing is left at or under the path, and all else is as it was.
LEMMA Trimmed ==
    ASSUME NEW L, NEW d, NEW K, NEW e, NEW u, NEW i, NEW path, Trims(L, d, K, e, u, i, path),
           d \in Disk, Sound(L, d), e \in Disk, Sound(K, e), NEW q, q \in Path
    PROVE  KindIn(e, q) = IF Under(path, q) THEN "none" ELSE KindIn(d, q)
<1>1. PICK n, nm : n = Len(path) /\ nm = path[n]
  OBVIOUS
<1>2. n \in Nat \ {0} /\ Named(path, n) /\ Trim(L, d, K, e, u, nm, i) /\ Leads(d, path, n - 1, u)
  BY <1>1, PathNamed DEF Trims
<1>3. PICK m : m = Len(q)
  OBVIOUS
<1>4. m \in Nat \ {0} /\ Named(q, m) /\ Named(q, m - 1) /\ q[m] \in Name /\ m - 1 \in Nat
  BY <1>3, PathNamed
<1>5. Under(path, q) <=> m >= n /\ Same(q, path, n)
  BY <1>1, <1>3 DEF Under
<1>6. KindIn(d, q) \in {"none", "regular", "directory"} /\ KindIn(e, q) \in {"none", "regular", "directory"}
  BY <1>3, KindIs
<1>7. ASSUME NEW t \in {"regular", "directory"}
      PROVE  /\ KindIn(d, q) = t <=> \E x, j : Leads(d, q, m - 1, x) /\ Hit(d, x, q[m], j, t)
             /\ KindIn(e, q) = t <=> \E x, j : Leads(e, q, m - 1, x) /\ Hit(e, x, q[m], j, t)
  BY <1>3, KindIs
<1>8. ASSUME NEW t \in {"regular", "directory"}, KindIn(e, q) = t
      PROVE  KindIn(d, q) = t /\ ~Under(path, q)
  <2>1. PICK x, j : Leads(e, q, m - 1, x) /\ Hit(e, x, q[m], j, t)
    BY <1>7, <1>8
  <2>2. PICK c : Road(e, q, m - 1, c) /\ c[m - 1] = x
    BY <2>1, LeadsRoad
  <2>3. Road(d, q, m - 1, c)
    BY <1>2, <1>4, <2>2, WayBack
  <2>4. m - 1 \in 0..(m - 1)
    BY <1>4
  <2>5. x \in K
    BY <1>4, <2>2, <2>4, RoadIn
  <2>6. Leads(d, q, m - 1, x)
    BY <1>4, <2>2, <2>3, <2>4, RoadLeads
  <2>7. Hit(d, x, q[m], j, t) /\ ~(x = u /\ q[m] = nm)
    BY <1>2, <1>4, <2>1, <2>5 DEF Trim
  <2>8. KindIn(d, q) = t
    BY <1>7, <2>6, <2>7
  <2>9. ASSUME m >= n, Same(q, path, n) PROVE FALSE
    <3>1. n - 1 \in 0..(m - 1) /\ n - 1 \in Nat /\ q[n] = nm /\ Same(q, path, n - 1)
      BY <1>1, <1>2, <1>4, <2>9 DEF Same
    <3>2. Leads(d, q, n - 1, c[n - 1]) /\ c[n - 1] \in K
      BY <1>4, <2>2, <2>3, <3>1, RoadLeads, RoadIn
    <3>3. Leads(d, path, n - 1, c[n - 1])
      BY <3>1, <3>2, SameLeads
    <3>4. c[n - 1] = u
      BY <1>2, <3>1, <3>3, LeadsOnce
    <3>5. CASE n = m
      BY <2>2, <2>7, <3>1, <3>4, <3>5
    <3>6. CASE n # m
      <4>1. n \in 1..(m - 1)
        BY <1>2, <1>4, <2>9, <3>6
      <4>2. Hit(e, c[n - 1], q[n], c[n], "directory") /\ q[n] \in Name
        BY <1>4, <2>2, <4>1 DEF Road, Named
      <4> QED
        BY <1>2, <3>1, <3>2, <3>4, <4>2 DEF Trim
    <3> QED
      BY <3>5, <3>6
  <2> QED
    BY <1>5, <2>8, <2>9
<1>9. ASSUME NEW t \in {"regular", "directory"}, KindIn(d, q) = t, ~Under(path, q)
      PROVE  KindIn(e, q) = t
  <2>1. PICK x, j : Leads(d, q, m - 1, x) /\ Hit(d, x, q[m], j, t)
    BY <1>7, <1>9
  <2>2. PICK c : Road(d, q, m - 1, c) /\ c[m - 1] = x
    BY <2>1, LeadsRoad
  <2>3. ~(m - 1 >= n /\ Same(q, path, n))
    BY <1>2, <1>4, <1>5, <1>9
  <2>4. Road(e, q, m - 1, c) /\ x \in K
    BY <1>1, <1>4, <2>2, <2>3, WayOn
  <2>5. ~(x = u /\ q[m] = nm)
    <3>1. SUFFICES ASSUME x = u, q[m] = nm PROVE FALSE
      OBVIOUS
    <3>2. m \in Nat /\ m > 0
      BY <1>4
    <3>3. m = n /\ Same(q, path, m)
      BY <1>1, <1>4, <2>1, <3>1, <3>2, OnlyHere
    <3> QED
      BY <1>4, <1>5, <1>9, <3>3
  <2>6. Hit(e, x, q[m], j, t)
    BY <1>2, <1>4, <2>1, <2>4, <2>5 DEF Trim
  <2>7. m - 1 \in 0..(m - 1)
    BY <1>4
  <2>8. Leads(e, q, m - 1, x)
    BY <1>4, <2>2, <2>4, <2>7, RoadLeads
  <2> QED
    BY <1>7, <2>6, <2>8
<1>10. CASE Under(path, q)
  BY <1>6, <1>8, <1>10
<1>11. CASE ~Under(path, q)
  BY <1>6, <1>8, <1>9, <1>11
<1> QED
  BY <1>10, <1>11

\* The tree of names on the disk d.
Kinds(d) == [p \in Path |-> KindIn(d, p)]

\* The tree k becomes m by a removal of path.
Drops(k, path, m) ==
    /\ path \in Path /\ k[path] # "none"
    /\ m = [q \in Path |-> IF Under(path, q) THEN "none" ELSE k[q]]

\* The tree k becomes m by a creation of path, a t.
Makes(k, path, t, m) ==
    /\ path \in Path /\ t \in {"regular", "directory"} /\ k[path] = "none"
    /\ Len(path) = 1 \/ k[SubSeq(path, 1, Len(path) - 1)] = "directory"
    /\ m = [k EXCEPT ![path] = t]

\* From d to e the tree does not change, or by one step of a tree of names.
Moves(d, e) ==
    \/ Kinds(d) = Kinds(e)
    \/ \E path : Drops(Kinds(d), path, Kinds(e))
    \/ \E path, t : Makes(Kinds(d), path, t, Kinds(e))

\* A removal takes what is at and under the path.
LEMMA Dropped ==
    ASSUME NEW L, NEW d, NEW K, NEW e, NEW u, NEW i, NEW path, Trims(L, d, K, e, u, i, path),
           d \in Disk, Sound(L, d), e \in Disk, Sound(K, e),
           NEW n, n = path[Len(path)], NEW j, NEW t, t \in {"regular", "directory"}, Hit(d, u, n, j, t)
    PROVE  Drops(Kinds(d), path, Kinds(e))
<1>1. path \in Path /\ Leads(d, path, Len(path) - 1, u)
  BY DEF Trims
<1>2. KindIn(d, path) = t
  <2>1. \E x, h : Leads(d, path, Len(path) - 1, x) /\ Hit(d, x, path[Len(path)], h, t)
    BY <1>1
  <2> QED BY <1>1, <2>1, KindIs
<1>3. \A q \in Path : KindIn(e, q) = IF Under(path, q) THEN "none" ELSE KindIn(d, q)
  BY Trimmed
<1> QED BY <1>1, <1>2, <1>3 DEF Drops, Kinds

\* The path to the directory that a path is in.
LEMMA FrontPath ==
    ASSUME NEW path, path \in Path, NEW n, n = Len(path), n # 1
    PROVE  /\ SubSeq(path, 1, n - 1) \in Path /\ Len(SubSeq(path, 1, n - 1)) = n - 1
           /\ Same(SubSeq(path, 1, n - 1), path, n - 1) /\ Same(path, SubSeq(path, 1, n - 1), n - 1)
<1>1. path \in Seq(Name) /\ n \in Nat \ {0} /\ n <= MAX_DEPTH
  BY PathParts
<1>2. MAX_DEPTH \in Nat
  BY DirectoryAssumption
<1>3. /\ SubSeq(path, 1, n - 1) \in Seq(Name) /\ Len(SubSeq(path, 1, n - 1)) = n - 1
      /\ \A j \in 1..(n - 1) : SubSeq(path, 1, n - 1)[j] = path[j]
  BY <1>1
<1>4. n - 1 \in Nat \ {0} /\ n - 1 <= MAX_DEPTH
  BY <1>1, <1>2
<1> QED BY <1>3, <1>4, PathParts DEF Same

\* Nothing has a name in the directory i.
Bare(e, i) == \A n \in Name : \A j, t : ~Hit(e, i, n, j, t)

\* A creation adds the path, or, without room for the entry, nothing.
LEMMA Made ==
    ASSUME NEW L, NEW d, NEW K, NEW e, NEW u, NEW i, NEW path, Trims(K, e, L, d, u, i, path),
           d \in Disk, Sound(L, d), e \in Disk, Sound(K, e), Leads(d, path, Len(path) - 1, u),
           NEW t, t \in {"regular", "directory"}, NEW n, n = path[Len(path)],
           \A j, s : Hit(e, u, n, j, s) => j = i /\ s = t, t = "directory" => Bare(e, i)
    PROVE  Moves(d, e)
<1> DEFINE m == Len(path)
<1>1. path \in Path /\ Leads(e, path, m - 1, u)
  BY DEF Trims
<1>2. \A q \in Path : KindIn(d, q) = IF Under(path, q) THEN "none" ELSE KindIn(e, q)
  BY Trimmed
<1>3. m \in Nat \ {0} /\ Named(path, m) /\ Named(path, m - 1)
  BY <1>1, PathNamed
<1>4. Under(path, path)
  BY <1>3 DEF Under, Same
<1>5. ASSUME NEW q \in Path, Under(path, q), q # path
      PROVE  KindIn(e, q) = "none"
  <2> DEFINE l == Len(q)
  <2>1. l \in Nat \ {0} /\ Named(q, l) /\ Named(q, l - 1)
    BY PathNamed
  <2>2. l >= m /\ Same(q, path, m)
    BY <1>5 DEF Under
  <2>3. l # m
    <3> SUFFICES ASSUME l = m PROVE FALSE
      OBVIOUS
    <3>1. path \in Seq(Name) /\ q \in Seq(Name)
      BY <1>1, PathParts
    <3> QED BY <2>2, <3>1, <1>5 DEF Same
  <2>4. SUFFICES ASSUME NEW s \in {"regular", "directory"}, KindIn(e, q) = s PROVE FALSE
    <3>1. KindIn(e, q) \in {"none", "regular", "directory"}
      BY KindIs
    <3> QED BY <3>1, <2>4
  <2>5. PICK x, j : Leads(e, q, l - 1, x) /\ Hit(e, x, q[l], j, s)
    BY <2>4, KindIs
  <2>6. PICK c : Road(e, q, l - 1, c) /\ c[l - 1] = x
    BY <2>5, LeadsRoad
  <2>7. l - 1 \in Nat /\ m \in 0..(l - 1) /\ m \in 1..(l - 1) /\ m - 1 \in 0..(l - 1) /\ m - 1 \in Nat
    BY <2>1, <2>2, <2>3, <1>3
  <2>8. Leads(e, q, m - 1, c[m - 1])
    BY <2>6, <2>7, RoadLeads
  <2>9. Same(q, path, m - 1) /\ q[m] = path[m]
    BY <2>2, <2>7, <1>3 DEF Same
  <2>10. Leads(e, path, m - 1, c[m - 1])
    BY <2>8, <2>9, SameLeads
  <2>11. c[m - 1] = u
    BY <2>10, <1>1, <2>7, LeadsOnce
  <2>12. Hit(e, u, n, c[m], "directory")
    BY <2>6, <2>7, <2>9, <2>11 DEF Road
  <2>13. c[m] = i /\ Bare(e, i)
    BY <2>12
  <2>14. CASE m = l - 1
    <3>1. x = i /\ q[l] \in Name
      BY <2>14, <2>13, <2>6, <2>1 DEF Named
    <3> QED BY <3>1, <2>5, <2>13 DEF Bare
  <2>15. CASE m # l - 1
    <3>1. m + 1 \in 1..(l - 1) /\ (m + 1) - 1 = m /\ m + 1 \in 1..l
      BY <2>15, <2>7, <1>3
    <3>2. Hit(e, c[m], q[m + 1], c[m + 1], "directory") /\ q[m + 1] \in Name
      BY <3>1, <2>6, <2>1 DEF Road, Named
    <3> QED BY <3>2, <2>13 DEF Bare
  <2> QED BY <2>14, <2>15
<1>6. KindIn(d, path) = "none"
  BY <1>1, <1>2, <1>4
<1>7. ASSUME KindIn(e, path) = "none"
      PROVE  Kinds(d) = Kinds(e)
  BY <1>7, <1>2, <1>5 DEF Kinds
<1>8. ASSUME KindIn(e, path) # "none"
      PROVE  Makes(Kinds(d), path, t, Kinds(e))
  <2>1. PICK s \in {"regular", "directory"} : KindIn(e, path) = s
    <3> QED BY <1>1, <1>8, KindIs
  <2>2. PICK x, j : Leads(e, path, m - 1, x) /\ Hit(e, x, path[m], j, s)
    BY <1>1, <2>1, KindIs
  <2>3. x = u
    <3>1. m - 1 \in Nat
      BY <1>3
    <3> QED BY <2>2, <1>1, <3>1, LeadsOnce
  <2>4. KindIn(e, path) = t
    BY <2>1, <2>2, <2>3
  <2>5. ASSUME m # 1
        PROVE  KindIn(d, SubSeq(path, 1, m - 1)) = "directory" /\ SubSeq(path, 1, m - 1) \in Path
    <3>1. PICK f : f = SubSeq(path, 1, m - 1)
      OBVIOUS
    <3>2. f \in Path /\ Len(f) = m - 1 /\ Same(f, path, m - 1) /\ Same(path, f, m - 1)
      BY <2>5, <1>1, <3>1, FrontPath
    <3>3. m - 1 \in Nat /\ m - 1 > 0 /\ m - 1 - 1 \in Nat
      <4> HIDE DEF m
      <4> QED BY <1>3, <2>5
    <3>4. Leads(d, f, m - 1, u)
      BY <3>2, SameLeads
    <3>5. PICK y : Leads(d, f, m - 1 - 1, y) /\ Hit(d, y, f[m - 1], u, "directory")
      BY <3>3, <3>4, LeadsBack
    <3>6. \E z, h : Leads(d, f, Len(f) - 1, z) /\ Hit(d, z, f[Len(f)], h, "directory")
      BY <3>5, <3>2
    <3>7. KindIn(d, f) = "directory"
      <4> QED BY <3>6, <3>2, KindIs
    <3> QED BY <3>7, <3>1, <3>2
  <2>6. Kinds(e) = [Kinds(d) EXCEPT ![path] = t]
    <3>1. \A q \in Path : KindIn(e, q) = IF q = path THEN t ELSE KindIn(d, q)
      BY <1>2, <1>5, <2>4
    <3> QED BY <3>1, <1>1 DEF Kinds
  <2> QED BY <2>5, <2>6, <1>1, <1>6 DEF Makes, Kinds
<1> QED BY <1>7, <1>8 DEF Moves

\* What search_dir_entry finds are the entries that a path can name.
LEMMA HitHeld ==
    ASSUME NEW L, NEW d, d \in Disk, Sound(L, d), NEW x, x \in L, NEW n, n \in Name, NEW i, NEW t
    PROVE  Hit(d, x, n, i, t) <=>
               \E q : /\ Holds(L, d, x, q) /\ At(d.table[x], d.blk, q).filename = n
                      /\ At(d.table[x], d.blk, q).i_no = i /\ At(d.table[x], d.blk, q).f_type = t
<1> DEFINE ent(q) == At(d.table[x], d.blk, q)
<1>1. ASSUME Hit(d, x, n, i, t)
      PROVE  \E q : Holds(L, d, x, q) /\ ent(q).filename = n /\ ent(q).i_no = i /\ ent(q).f_type = t
  <2>1. PICK p : p = First(search_dir_entry(d.table[x], d.blk, n))
    OBVIOUS
  <2> QED BY <1>1, <2>1, HitPlace
<1>2. ASSUME NEW q, Holds(L, d, x, q), ent(q).filename = n, ent(q).i_no = i, ent(q).f_type = t
      PROVE  Hit(d, x, n, i, t)
  <2>1. q \in search_dir_entry(d.table[x], d.blk, n)
    BY <1>2 DEF Holds, search_dir_entry
  <2>2. PICK p : p = First(search_dir_entry(d.table[x], d.blk, n))
    OBVIOUS
  <2>3. Hit(d, x, n, ent(p).i_no, ent(p).f_type)
    BY <2>1, <2>2 DEF Hit
  <2>4. PICK a, b : a = ent(p).i_no /\ b = ent(p).f_type
    OBVIOUS
  <2>5. Holds(L, d, x, p) /\ ent(p).filename = n
    <3> HIDE DEF ent
    <3>1. Hit(d, x, n, a, b)
      BY <2>3, <2>4
    <3> USE DEF ent
    <3> QED BY <3>1, <2>2, HitPlace
  <2>6. p = q
    BY <2>5, <1>2 DEF Sound
  <2> QED BY <2>3, <2>6, <1>2
<1> QED BY <1>1, <1>2

\* The disk e holds the entries of d but the one at place p of u, those of the
\* directory that it names aside.
Cut(L, d, K, e, u, p) ==
    \A x, q : /\ Holds(K, e, x, q) <=> x \in K /\ Holds(L, d, x, q) /\ ~(x = u /\ q = p)
              /\ Holds(K, e, x, q) => At(e.table[x], e.blk, q) = At(d.table[x], d.blk, q)

\* Without an entry the name that it had is trimmed, and nothing else.
LEMMA CutTrims ==
    ASSUME NEW L, NEW d, d \in Disk, Sound(L, d), NEW K, NEW e, e \in Disk, Sound(K, e),
           NEW u, NEW p, Holds(L, d, u, p), Cut(L, d, K, e, u, p),
           NEW nm, nm = At(d.table[u], d.blk, p).filename, NEW i, i = At(d.table[u], d.blk, p).i_no,
           \A x : x \in K <=> x \in L /\ x # i
    PROVE  Trim(L, d, K, e, u, nm, i)
<1>1. i # 0
  BY DEF Sound, Names
<1>2. ASSUME NEW x \in K, NEW n \in Name, NEW j, NEW t
      PROVE  Hit(e, x, n, j, t) <=> Hit(d, x, n, j, t) /\ ~(x = u /\ n = nm)
  <2>1. x \in L
    OBVIOUS
  <2>2. Hit(d, x, n, j, t) <=>
            \E q : /\ Holds(L, d, x, q) /\ At(d.table[x], d.blk, q).filename = n
                   /\ At(d.table[x], d.blk, q).i_no = j /\ At(d.table[x], d.blk, q).f_type = t
    BY <2>1, HitHeld
  <2>3. Hit(e, x, n, j, t) <=>
            \E q : /\ Holds(K, e, x, q) /\ At(e.table[x], e.blk, q).filename = n
                   /\ At(e.table[x], e.blk, q).i_no = j /\ At(e.table[x], e.blk, q).f_type = t
    BY HitHeld
  <2>4. ASSUME NEW q, Holds(L, d, x, q), At(d.table[x], d.blk, q).filename = n
        PROVE  (x = u /\ q = p) <=> (x = u /\ n = nm)
    BY <2>4 DEF Sound
  <2> QED BY <2>2, <2>3, <2>4 DEF Cut
<1>3. ASSUME NEW x \in L, NEW n \in Name, NEW t, Hit(d, x, n, i, t)
      PROVE  x = u /\ n = nm
  <2>1. PICK q : /\ Holds(L, d, x, q) /\ At(d.table[x], d.blk, q).filename = n
                 /\ At(d.table[x], d.blk, q).i_no = i /\ At(d.table[x], d.blk, q).f_type = t
    BY <1>3, HitHeld
  <2> QED BY <2>1 DEF Sound
<1> QED BY <1>1, <1>2, <1>3 DEF Trim

\* No entry of d is lost.
Keeps(L, d, K, e) ==
    \A x, q : Holds(L, d, x, q) =>
        Holds(K, e, x, q) /\ At(e.table[x], e.blk, q) = At(d.table[x], d.blk, q)

\* A new inode with an entry of its own, at most, is one step of a tree of names.
LEMMA GrownMoves ==
    ASSUME NEW L, NEW d, d \in Disk, Sound(L, d), NEW K, NEW e, e \in Disk, Sound(K, e),
           NEW i, NEW t, NEW u, u \in L, NEW slot, NEW g, Grows(L, d, K, e, i, t, u, slot, g), Keeps(L, d, K, e),
           NEW path, path \in Path, g.filename = path[Len(path)], Leads(d, path, Len(path) - 1, u)
    PROVE  Moves(d, e)
<1>1. PICK nm : nm = path[Len(path)]
  OBVIOUS
<1>2. /\ i \notin d.bits /\ t \in {"regular", "directory"} /\ g.i_no = i /\ g.f_type = t /\ g.filename = nm
      /\ \A x : x \in K <=> x \in L \/ (x = i /\ t = "directory")
      /\ Miss(d, u, nm)
      /\ \A x, q : Holds(K, e, x, q) =>
            \/ Stays(L, d, e, x, q)
            \/ x = u /\ q = slot /\ At(e.table[x], e.blk, q) = g
  BY <1>1 DEF Grows, Miss
<1>3. i # 0 /\ i \notin L
  BY <1>2 DEF Sound
<1>4. nm \in Name
  BY <1>1, PathNamed
<1>5. ASSUME NEW x \in L, NEW n \in Name, NEW j, NEW s
      PROVE  Hit(d, x, n, j, s) <=>
                 \E q : /\ Holds(L, d, x, q) /\ At(d.table[x], d.blk, q).filename = n
                        /\ At(d.table[x], d.blk, q).i_no = j /\ At(d.table[x], d.blk, q).f_type = s
  BY HitHeld
<1>6. ASSUME NEW x \in K, NEW n \in Name, NEW j, NEW s
      PROVE  Hit(e, x, n, j, s) <=>
                 \E q : /\ Holds(K, e, x, q) /\ At(e.table[x], e.blk, q).filename = n
                        /\ At(e.table[x], e.blk, q).i_no = j /\ At(e.table[x], e.blk, q).f_type = s
  BY HitHeld
<1>7. ASSUME NEW x \in K, NEW n \in Name, NEW j, NEW s, Hit(e, x, n, j, s)
      PROVE  \/ x \in L /\ Hit(d, x, n, j, s) /\ ~(x = u /\ n = nm) /\ j \in d.bits
             \/ x = u /\ n = nm /\ j = i /\ s = t
  <2>1. PICK q : /\ Holds(K, e, x, q) /\ At(e.table[x], e.blk, q).filename = n
                 /\ At(e.table[x], e.blk, q).i_no = j /\ At(e.table[x], e.blk, q).f_type = s
    BY <1>7, <1>6
  <2>2. CASE Stays(L, d, e, x, q)
    <3>1. /\ Holds(L, d, x, q) /\ At(d.table[x], d.blk, q).filename = n
          /\ At(d.table[x], d.blk, q).i_no = j /\ At(d.table[x], d.blk, q).f_type = s
      BY <2>1, <2>2 DEF Stays
    <3>2. x \in L /\ q \in Slots(d.table[x])
      BY <3>1 DEF Holds
    <3>3. Hit(d, x, n, j, s)
      BY <3>1, <3>2, <1>5
    <3>4. j \in d.bits
      BY <3>1 DEF Sound, Names
    <3>5. ~(x = u /\ n = nm)
      BY <3>1, <3>2, <1>2 DEF Miss
    <3> QED BY <3>2, <3>3, <3>4, <3>5
  <2>3. CASE x = u /\ q = slot /\ At(e.table[x], e.blk, q) = g
    BY <2>1, <2>3, <1>2
  <2> QED BY <2>1, <2>2, <2>3, <1>2
<1>8. ASSUME NEW x \in L, NEW n \in Name, NEW j, NEW s, Hit(d, x, n, j, s)
      PROVE  Hit(e, x, n, j, s) /\ ~(x = u /\ n = nm)
  <2>1. PICK q : /\ Holds(L, d, x, q) /\ At(d.table[x], d.blk, q).filename = n
                 /\ At(d.table[x], d.blk, q).i_no = j /\ At(d.table[x], d.blk, q).f_type = s
    BY <1>8, <1>5
  <2>2. /\ Holds(K, e, x, q) /\ At(e.table[x], e.blk, q).filename = n
        /\ At(e.table[x], e.blk, q).i_no = j /\ At(e.table[x], e.blk, q).f_type = s
    BY <2>1 DEF Keeps
  <2>3. x \in K /\ q \in Slots(d.table[x])
    BY <2>1, <1>2 DEF Holds
  <2> QED BY <2>1, <2>2, <2>3, <1>2, <1>6 DEF Miss
<1>9. Trim(K, e, L, d, u, nm, i)
  BY <1>2, <1>3, <1>7, <1>8 DEF Trim
<1>10. Leads(e, path, Len(path) - 1, u)
  <2>1. PICK m : m = Len(path) - 1
    OBVIOUS
  <2>2. m \in Nat /\ Named(path, m)
    BY <2>1, PathNamed
  <2>3. PICK c : Road(d, path, m, c) /\ c[m] = u
    BY <2>1, LeadsRoad
  <2>4. ASSUME NEW j \in 1..m
        PROVE  Hit(e, c[j - 1], path[j], c[j], "directory")
    <3>1. Hit(d, c[j - 1], path[j], c[j], "directory") /\ path[j] \in Name /\ j - 1 \in 0..m
      BY <2>2, <2>3 DEF Road, Named
    <3>2. c[j - 1] \in L
      BY <2>2, <2>3, <3>1, RoadIn
    <3> QED BY <3>1, <3>2, <1>8
  <2>5. Road(e, path, m, c) /\ m \in 0..m
    BY <2>2, <2>3, <2>4 DEF Road
  <2> QED BY <2>1, <2>2, <2>3, <2>5, RoadLeads
<1>11. Trims(K, e, L, d, u, i, path)
  BY <1>1, <1>9, <1>10 DEF Trims
<1>12. \A j, s : Hit(e, u, nm, j, s) => j = i /\ s = t
  BY <1>2, <1>4, <1>7
<1>13. t = "directory" => Bare(e, i)
  BY <1>2, <1>3, <1>7 DEF Bare
<1> QED BY <1>1, <1>2, <1>11, <1>12, <1>13, Made

----------------------------------------------------------------------------
(* The invariant.                                                          *)

\* An element of the list of open inodes
OpenSet ==
    {o \in [i_no : Ino, node : NodeSet, i_open_cnts : Nat, fds : Nat] : o.i_open_cnts >= o.fds}

\* The open inodes are in use, once each, and as the disk has them.
ListOK(list, d) ==
    /\ \A k \in 1..Len(list) : list[k].i_no \in d.bits /\ list[k].node = d.table[list[k].i_no]
    /\ \A k, m \in 1..Len(list) : list[k].i_no = list[m].i_no => k = m

SoundDisks(L) == {d \in Disk : Sound(L, d)}

\* The pending writes lead to what memory has, and that is sound.
Settles ==
    \E L, e : /\ Chain(pending, Now, e, Disk)
              /\ ~tainted => e.bits = inode_bitmap /\ Sound(L, e) /\ ListOK(open_inodes, e)

\* As long as a power cut does no harm the disk is sound: at every sector from
\* here to the end of the call, or now.
Guarded ==
    /\ ~tainted /\ exposed = "no" => \E L, e : Chain(pending, Now, e, SoundDisks(L))
    /\ ~tainted /\ exposed = "soon" => \E L : Sound(L, Now)

Typed ==
    /\ inode_bitmap \subseteq Ino /\ open_inodes \in Seq(OpenSet) /\ pending \in Seq(Write)
    /\ exposed \in {"no", "soon", "yes"} /\ tainted \in BOOLEAN
    /\ calls \in 0..MAX_CALLS /\ crashes \in 0..MAX_CRASHES
    /\ pending = <<>> => exposed = "no"

IInv == Typed /\ Settles /\ Guarded

\* The invariant gives the types, and that the disk is one.
LEMMA TypesFollow ==
    ASSUME IInv
    PROVE  TypeOK /\ Now \in Disk
<1>1. PICK e : Chain(pending, Now, e, Disk)
  BY DEF IInv, Settles
<1>2. PICK d \in Disk : d = Now
  BY <1>1, ChainEnds DEF IInv, Typed
<1>3. d.bits = disk_bitmap /\ d.table = inode_table /\ d.blk = block
  BY <1>2 DEF Now
<1>4. inode_bitmap \subseteq Ino /\ disk_bitmap \subseteq Ino
  BY <1>3, DiskParts DEF IInv, Typed
<1>5. \A i \in Ino : \A j \in 1..Len(inode_table[i].blocks) :
           inode_table[i].blocks[j] \in 1..Len(block)
  BY <1>3, DiskParts
<1>6. ASSUME NEW k \in 1..Len(open_inodes)
      PROVE  /\ open_inodes[k].i_no \in Ino
             /\ open_inodes[k].fds >= 0
             /\ open_inodes[k].i_open_cnts >= open_inodes[k].fds
  <2>1. open_inodes[k] \in OpenSet
    BY DEF IInv, Typed
  <2> QED
    BY <2>1 DEF OpenSet
<1>7. ASSUME NEW b \in 1..Len(block), NEW s \in 1..ENTRIES
      PROVE  /\ block[b][s].i_no \in Ino
             /\ block[b][s].f_type \in {"unknown", "regular", "directory"}
  <2>1. block[b] \in Block
    BY <1>3, DiskParts
  <2> QED
    BY <2>1 DEF Block, EntrySet, Kind
<1> QED
  BY <1>2, <1>4, <1>5, <1>6, <1>7 DEF IInv, Typed, TypeOK

\* The first place of an open inode.
LEMMA FirstPlace ==
    ASSUME NEW list \in Seq(OpenSet), NEW i, Places(list, i) # {}
    PROVE  /\ Min(Places(list, i)) \in 1..Len(list)
           /\ list[Min(Places(list, i))].i_no = i
<1>1. Places(list, i) \subseteq Nat
  BY DEF Places
<1>2. Min(Places(list, i)) \in Places(list, i)
  BY <1>1, LeastMember
<1> QED
  BY <1>2 DEF Places

\* Between calls memory and disk agree, and the tree is sound.
LEMMA Quiet ==
    ASSUME IInv, pending = <<>>, ~tainted
    PROVE  /\ disk_bitmap = inode_bitmap /\ exposed = "no"
           /\ \E L : Sound(L, Now)
           /\ ListOK(open_inodes, Now)
           /\ \A i \in Ino : NodeOf(i) = inode_table[i]
           /\ \A path : search_file(path) = Search(inode_table, block, path)
<1>1. PICK L, e : Chain(<<>>, Now, e, Disk) /\ e.bits = inode_bitmap /\ Sound(L, e) /\ ListOK(open_inodes, e)
  BY DEF IInv, Settles
<1>2. e = Now
  BY <1>1, ChainNone
<1>3. disk_bitmap = inode_bitmap /\ Sound(L, Now) /\ ListOK(open_inodes, Now)
  BY <1>1, <1>2 DEF Now
<1>4. ASSUME NEW i \in Ino PROVE NodeOf(i) = inode_table[i]
  <2>1. CASE Places(open_inodes, i) = {}
    BY <2>1 DEF NodeOf
  <2>2. CASE Places(open_inodes, i) # {}
    <3>1. PICK k : k = Min(Places(open_inodes, i))
      OBVIOUS
    <3>2. k \in 1..Len(open_inodes) /\ open_inodes[k].i_no = i
      BY <2>2, <3>1, FirstPlace DEF IInv, Typed
    <3>3. open_inodes[k].node = inode_table[i]
      BY <1>3, <3>2 DEF ListOK, Now
    <3> QED
      BY <2>2, <3>1, <3>3 DEF NodeOf
  <2> QED
    BY <2>1, <2>2
<1>5. inode_table \in [Ino -> NodeSet]
  <2>1. PICK d \in Disk : d = Now
    BY TypesFollow
  <2>2. d.table = inode_table
    BY <2>1 DEF Now
  <2> QED
    BY <2>2, DiskParts
<1>6. [i \in Ino |-> NodeOf(i)] = inode_table
  BY <1>4, <1>5
<1> QED
  BY <1>3, <1>4, <1>6 DEF search_file, IInv, Typed

\* What Observe records is the tree on the disk that the writes lead to.
LEMMA Observed ==
    ASSUME NEW list, list \in Seq(OpenSet), NEW d, NEW wr, wr \in Seq(Write),
           NEW e, Chain(wr, d, e, Disk), ListOK(list, e)
    PROVE  KindsIn(list, d, wr) = Kinds(e)
<1>1. FoldLeft(Put, d, wr) = e
  BY FoldLeads
<1>2. e \in Disk
  BY ChainEnds
<1>3. e.table \in [Ino -> NodeSet]
  BY <1>2, DiskParts
<1> DEFINE node(i) == IF Places(list, i) # {} THEN list[Min(Places(list, i))].node ELSE e.table[i]
<1>4. ASSUME NEW i \in Ino PROVE node(i) = e.table[i]
  <2>1. CASE Places(list, i) # {}
    <3>1. PICK k : k = Min(Places(list, i)) /\ k \in 1..Len(list) /\ list[k].i_no = i
      BY <2>1, FirstPlace
    <3> QED
      BY <2>1, <3>1 DEF ListOK
  <2>2. CASE Places(list, i) = {}
    BY <2>2
  <2> QED
    BY <2>1, <2>2
<1>5. [i \in Ino |-> node(i)] = e.table
  BY <1>3, <1>4
<1>6. KindsIn(list, d, wr) = [p \in Path |-> KindAt([i \in Ino |-> node(i)], e.blk, p)]
  BY <1>1 DEF KindsIn
<1> QED
  BY <1>5, <1>6 DEF Kinds, KindIn

----------------------------------------------------------------------------
(* Entries and blocks.                                                     *)

\* A new block is empty.
LEMMA EmptyBlock ==
    NoBlock \in Block /\ \A s \in 1..ENTRIES : NoBlock[s] = Empty
<1>1. Empty \in EntrySet
  BY EntryTypes
<1>2. NoBlock = [s \in 1..ENTRIES |-> Empty]
  BY DEF NoBlock
<1> QED
  BY <1>1, <1>2 DEF Block

\* The block of a new directory: no path can name its entries.
LEMMA DotBlockFacts ==
    ASSUME NEW i \in Ino, NEW u \in Ino
    PROVE  DotBlock(i, u) \in Block /\ \A s \in 1..ENTRIES : DotBlock(i, u)[s].filename \notin Name
<1>1. PICK g, h : /\ g = Entry(".", i, "directory") /\ h = Entry("..", u, "directory")
                  /\ g \in EntrySet /\ h \in EntrySet /\ g.filename \notin Name /\ h.filename \notin Name
  <2>1. "directory" \in Kind /\ "." \in Name \cup {"", ".", ".."} /\ ".." \in Name \cup {"", ".", ".."}
    BY DEF Kind
  <2>2. Entry(".", i, "directory").filename = "." /\ Entry("..", u, "directory").filename = ".."
    BY DEF Entry
  <2> QED
    BY <2>1, <2>2, EntryTypes
<1>2. PICK c : c = [NoBlock EXCEPT ![1] = g]
  OBVIOUS
<1>3. c \in Block /\ c[1] = g /\ \A r \in 1..ENTRIES : r # 1 => c[r] = NoBlock[r]
  <2>1. 1 \in 1..ENTRIES
    BY EntryTypes
  <2>2. PICK b : b = NoBlock /\ b \in Block
    BY EmptyBlock
  <2>3. c = [b EXCEPT ![1] = g]
    BY <1>2, <2>2
  <2>4. c \in Block /\ c[1] = g /\ \A r \in 1..ENTRIES : r # 1 => c[r] = b[r]
    BY <1>1, <2>1, <2>2, <2>3 DEF Block
  <2> QED
    BY <2>2, <2>4
<1>4. DotBlock(i, u) = [c EXCEPT ![2] = h]
  BY <1>1, <1>2 DEF DotBlock
<1>5. /\ DotBlock(i, u) \in Block /\ DotBlock(i, u)[2] = h
      /\ \A r \in 1..ENTRIES : r # 2 => DotBlock(i, u)[r] = c[r]
  <2>1. 2 \in 1..ENTRIES
    BY EntryTypes
  <2>2. PICK b : b = DotBlock(i, u)
    OBVIOUS
  <2>3. b = [c EXCEPT ![2] = h]
    BY <1>4, <2>2
  <2>4. b \in Block /\ b[2] = h /\ \A r \in 1..ENTRIES : r # 2 => b[r] = c[r]
    BY <1>1, <1>3, <2>1, <2>3 DEF Block
  <2> QED
    BY <2>2, <2>4
<1> QED
  BY <1>1, <1>3, <1>5, EmptyBlock, EntryTypes

\* An empty partition has the invariant.
LEMMA InitInv == Init => IInv
<1> SUFFICES ASSUME Init PROVE IInv
  OBVIOUS
<1>1. MAX_CALLS \in Nat /\ MAX_CRASHES \in Nat
  BY DirectoryAssumption
<1>2. 0 \in Ino /\ 0 \in 0..MAX_CALLS /\ 0 \in 0..MAX_CRASHES
  <2>1. 0 \in 0..MAX_CALLS /\ 0 \in 0..MAX_CRASHES
    BY <1>1
  <2> QED
    BY <2>1, EntryTypes
<1>3. PICK root : root = Node("directory", <<1>>)
  OBVIOUS
<1>4. /\ root \in NodeSet /\ root.kind = "directory" /\ root.blocks = <<1>>
      /\ Len(root.blocks) = 1 /\ root.blocks[1] = 1
  BY <1>3 DEF Node, NodeSet, Kind
<1>5. PICK c \in Block : c = DotBlock(0, 0) /\ \A s \in 1..ENTRIES : c[s].filename \notin Name
  BY <1>2, DotBlockFacts
<1>6. block = <<c>> /\ block \in Seq(Block) /\ Len(block) = 1 /\ block[1] = c
  BY <1>5 DEF Init
<1>7. /\ inode_table = [i \in Ino |-> IF i = 0 THEN root ELSE NoInode]
      /\ inode_table[0] = root /\ \A i \in Ino : i # 0 => inode_table[i] = NoInode
  BY <1>2, <1>3 DEF Init
<1>8. NoInode \in NodeSet /\ NoInode.blocks = <<>> /\ Len(NoInode.blocks) = 0
  <2>1. NoInode.blocks = <<>>
    BY DEF NoInode, Node
  <2> QED
    BY <2>1, EntryTypes
<1>9. inode_table \in [Ino -> NodeSet]
  BY <1>4, <1>7, <1>8
<1>10. PICK d : d = Now
  OBVIOUS
<1>11. d = [bits |-> {0}, table |-> inode_table, blk |-> block]
  BY <1>10 DEF Now, Init
<1>12. d.bits = {0} /\ d.table = inode_table /\ d.blk = block
  BY <1>11
<1>13. d \in Disk
  <2>1. d \in [bits : SUBSET Ino, table : [Ino -> NodeSet], blk : Seq(Block)]
    BY <1>2, <1>6, <1>9, <1>11
  <2>2. ASSUME NEW i \in Ino, NEW j \in 1..Len(d.table[i].blocks)
        PROVE  d.table[i].blocks[j] \in 1..Len(d.blk)
    <3>1. CASE i = 0
      BY <1>4, <1>6, <1>7, <1>12, <3>1
    <3>2. CASE i # 0
      BY <1>7, <1>8, <1>12, <3>2
    <3> QED
      BY <3>1, <3>2
  <2> QED
    BY <2>1, <2>2 DEF Disk
<1>14. Sound({0}, d)
  <2>1. \A x, p : ~Holds({0}, d, x, p)
    <3>1. SUFFICES ASSUME NEW p \in Slots(d.table[0]) PROVE At(d.table[0], d.blk, p).filename \notin Name
      BY DEF Holds
    <3>2. p[1] \in 1..1 /\ p[2] \in 1..ENTRIES
      <4>1. d.table[0] = root /\ Len(root.blocks) \in Nat /\ Len(root.blocks) = 1
        BY <1>4, <1>7, <1>12
      <4> QED
        BY <4>1, SlotPairs
    <3>3. p[1] = 1
      BY <3>2
    <3>4. At(d.table[0], d.blk, p) = c[p[2]]
      BY <1>4, <1>6, <1>7, <1>12, <3>3 DEF At
    <3> QED
      BY <1>5, <3>2, <3>4
  <2>2. Apart({0}, d)
    <3>1. d.table[0] = root /\ Len(root.blocks) = 1
      BY <1>4, <1>7, <1>12
    <3>2. \A j, k \in 1..1 : j = k
      OBVIOUS
    <3> QED
      BY <3>1, <3>2 DEF Apart
  <2> QED
    BY <1>4, <1>7, <1>12, <2>1, <2>2 DEF Sound
<1>15. PICK o : o = Opened(0, root)
  OBVIOUS
<1>16. o \in OpenSet /\ o.i_no = 0 /\ o.node = root
  BY <1>2, <1>4, <1>15 DEF Opened, OpenSet
<1>17. /\ open_inodes = <<o>> /\ open_inodes \in Seq(OpenSet) /\ Len(open_inodes) = 1
       /\ open_inodes[1] = o
  BY <1>3, <1>15, <1>16 DEF Init
<1>18. ListOK(open_inodes, d)
  <2>1. \A k \in 1..1 : k = 1
    OBVIOUS
  <2> QED
    BY <1>7, <1>12, <1>16, <1>17, <2>1 DEF ListOK
<1>19. d \in SoundDisks({0})
  BY <1>13, <1>14 DEF SoundDisks
<1>20. Chain(<<>>, d, d, Disk) /\ Chain(<<>>, d, d, SoundDisks({0}))
  BY <1>13, <1>19, ChainNone
<1>21. Settles
  BY <1>10, <1>12, <1>14, <1>18, <1>20 DEF Settles, Init
<1>22. Guarded
  BY <1>10, <1>20 DEF Guarded, Init
<1>23. Typed
  BY <1>2, <1>17 DEF Typed, Init
<1> QED
  BY <1>21, <1>22, <1>23 DEF IInv

\* Disks that hold one of the trees of names S.
Showing(S) == {c \in Disk : Kinds(c) \in S}

\* What a call does to the tree of names: one step, or none; and if a power cut
\* does no harm the disk shows the tree before or after it at every sector.
Turned ==
    /\ Ready /\ before' = tree /\ crashes' = crashes /\ Now' = Now /\ Observe
    /\ exposed' # "yes"
    /\ ~tainted' => \E e : /\ Chain(pending', Now, e, Disk) /\ Moves(Now, e)
                           /\ exposed' = "no" => Chain(pending', Now, e, Showing({Kinds(Now), Kinds(e)}))

\* From the writes of a call.
LEMMA ReturnTurned ==
    ASSUME Ready, NEW wr, NEW hurts \in BOOLEAN, Return(wr, hurts), NEW e, Chain(wr, Now, e, Disk),
           ~tainted' => Moves(Now, e),
           ~tainted' /\ ~hurts => Chain(wr, Now, e, Showing({Kinds(Now), Kinds(e)}))
    PROVE  Turned
<1>1. /\ pending' = wr /\ exposed' = (IF hurts THEN "soon" ELSE "no") /\ before' = tree /\ Observe
      /\ crashes' = crashes /\ UNCHANGED <<disk_bitmap, inode_table, block>>
  BY DEF Return, disk
<1>2. Now' = Now
  BY <1>1 DEF Now
<1> QED
  BY <1>1, <1>2 DEF Turned

\* What a call that found the disk quiet has to leave.
LEMMA ReturnInv ==
    ASSUME IInv, Ready, NEW wr, NEW hurts \in BOOLEAN, Return(wr, hurts),
           wr \in Seq(Write), hurts => wr # <<>>,
           inode_bitmap' \subseteq Ino, open_inodes' \in Seq(OpenSet), tainted' \in BOOLEAN,
           NEW K, NEW e, Chain(wr, Now, e, Disk),
           ~tainted' => e.bits = inode_bitmap' /\ Sound(K, e) /\ ListOK(open_inodes', e),
           ~tainted' /\ ~hurts => Chain(wr, Now, e, SoundDisks(K))
    PROVE  IInv'
<1>1. /\ pending' = wr /\ exposed' = (IF hurts THEN "soon" ELSE "no") /\ calls' = calls + 1
      /\ UNCHANGED <<disk_bitmap, inode_table, block, crashes>>
  BY DEF Return, disk
<1>2. Now' = Now
  BY <1>1 DEF Now
<1>3. Typed'
  <2>1. calls' \in 0..MAX_CALLS
    <3>1. MAX_CALLS \in Nat
      BY DirectoryAssumption
    <3> QED
      BY <1>1, <3>1 DEF IInv, Typed, Ready
  <2> QED
    BY <1>1, <2>1 DEF IInv, Typed
<1>4. Settles'
  BY <1>1, <1>2 DEF Settles
<1>5. Guarded'
  <2>1. \E L : Sound(L, Now)
    BY Quiet DEF Ready
  <2>2. CASE hurts
    BY <1>1, <1>2, <2>1, <2>2 DEF Guarded
  <2>3. CASE ~hurts
    BY <1>1, <1>2, <2>3 DEF Guarded
  <2> QED
    BY <2>2, <2>3
<1> QED
  BY <1>3, <1>4, <1>5 DEF IInv

\* The first of the pending writes is done.
LEMMA SectorPut ==
    ASSUME ide_write_sector
    PROVE  Now' = Put(Now, Head(pending))
<1>1. PICK d : d = Put(Now, Head(pending))
  OBVIOUS
<1>2. disk_bitmap' = d.bits /\ inode_table' = d.table /\ block' = d.blk
  BY <1>1 DEF ide_write_sector
<1>3. d = [bits |-> d.bits, table |-> d.table, blk |-> d.blk]
  BY <1>1 DEF Put
<1> QED
  BY <1>1, <1>2, <1>3 DEF Now

\* A sector reaches the disk.
LEMMA SectorInv ==
    ASSUME IInv, ide_write_sector
    PROVE  IInv'
<1>1. /\ pending # <<>> /\ pending' = Tail(pending) /\ pending \in Seq(Write)
      /\ exposed' = (IF Tail(pending) = <<>> \/ exposed = "no" THEN "no" ELSE "yes")
      /\ UNCHANGED <<inode_bitmap, open_inodes, tainted, calls, crashes>>
  BY DEF ide_write_sector, memory, IInv, Typed
<1>2. Now' = Put(Now, Head(pending))
  BY SectorPut
<1>3. Typed'
  <2>1. Tail(pending) \in Seq(Write)
    BY <1>1, TailOne
  <2> QED
    BY <1>1, <2>1 DEF IInv, Typed
<1>4. ASSUME NEW e, NEW S, Chain(pending, Now, e, S) PROVE Chain(pending', Now', e, S)
  BY <1>1, <1>2, <1>4, ChainTail
<1>5. Settles'
  <2>1. PICK L, e : /\ Chain(pending, Now, e, Disk)
                    /\ ~tainted => e.bits = inode_bitmap /\ Sound(L, e) /\ ListOK(open_inodes, e)
    BY DEF IInv, Settles
  <2>2. Chain(pending', Now', e, Disk)
    BY <1>4, <2>1
  <2> QED
    BY <1>1, <2>1, <2>2 DEF Settles
<1>6. Guarded'
  <2>1. CASE exposed = "no"
    <3>1. ASSUME ~tainted PROVE \E L, e : Chain(pending', Now', e, SoundDisks(L))
      <4>1. PICK L, e : Chain(pending, Now, e, SoundDisks(L))
        BY <2>1, <3>1 DEF IInv, Guarded
      <4> QED
        BY <1>4, <4>1
    <3> QED
      BY <1>1, <2>1, <3>1 DEF Guarded
  <2>2. CASE exposed # "no" /\ Tail(pending) # <<>>
    BY <1>1, <2>2 DEF Guarded
  <2>3. CASE exposed # "no" /\ Tail(pending) = <<>>
    <3>1. ASSUME ~tainted PROVE \E L, e : Chain(pending', Now', e, SoundDisks(L))
      <4>1. PICK L, e : Chain(pending, Now, e, Disk) /\ Sound(L, e)
        BY <3>1 DEF IInv, Settles
      <4>2. Chain(<<>>, Now', e, Disk)
        BY <1>1, <1>4, <2>3, <4>1
      <4>3. Now' = e /\ e \in Disk
        BY <4>2, ChainNone
      <4>4. Chain(<<>>, Now', e, SoundDisks(L))
        BY <4>1, <4>3, ChainNone DEF SoundDisks
      <4> QED
        BY <1>1, <2>3, <4>4
    <3> QED
      BY <1>1, <2>3, <3>1 DEF Guarded
  <2> QED
    BY <2>1, <2>2, <2>3
<1> QED
  BY <1>3, <1>5, <1>6 DEF IInv

\* The disk as it is: no writes are left.
LEMMA NothingPending ==
    ASSUME NEW L, Now \in Disk, Sound(L, Now)
    PROVE  Chain(<<>>, Now, Now, Disk) /\ Chain(<<>>, Now, Now, SoundDisks(L))
<1>1. Now \in SoundDisks(L)
  BY DEF SoundDisks
<1> QED
  BY <1>1, ChainNone

\* A power cut.
LEMMA CrashInv ==
    ASSUME IInv, Crash
    PROVE  IInv'
<1>1. /\ inode_bitmap' = disk_bitmap /\ open_inodes' = <<Opened(0, inode_table[0])>>
      /\ pending' = <<>> /\ exposed' = "no" /\ tainted' = (tainted \/ exposed = "yes")
      /\ crashes < MAX_CRASHES /\ crashes' = crashes + 1
      /\ UNCHANGED <<disk_bitmap, inode_table, block, calls>>
  BY DEF Crash, disk
<1>2. Now' = Now
  BY <1>1 DEF Now
<1>3. PICK d \in Disk : d = Now /\ d.bits = disk_bitmap /\ d.table = inode_table
  BY TypesFollow DEF Now
<1>4. PICK o : o = Opened(0, inode_table[0])
  OBVIOUS
<1>5. o \in OpenSet /\ o.i_no = 0 /\ o.node = d.table[0]
  <2>1. 0 \in Ino
    BY EntryTypes
  <2>2. d.table[0] \in NodeSet
    BY <2>1, DiskParts
  <2> QED
    BY <1>3, <1>4, <2>1, <2>2 DEF Opened, OpenSet
<1>6. open_inodes' = <<o>> /\ <<o>> \in Seq(OpenSet) /\ Len(<<o>>) = 1 /\ <<o>>[1] = o
  BY <1>1, <1>4, <1>5
<1>7. Typed'
  <2>1. crashes' \in 0..MAX_CRASHES
    <3>1. MAX_CRASHES \in Nat
      BY DirectoryAssumption
    <3> QED
      BY <1>1, <3>1 DEF IInv, Typed
  <2>2. inode_bitmap' \subseteq Ino
    BY <1>1, <1>3, DiskParts
  <2>3. tainted' \in BOOLEAN /\ <<>> \in Seq(Write)
    BY <1>1
  <2> QED
    BY <1>1, <1>6, <2>1, <2>2, <2>3 DEF IInv, Typed
<1>8. ASSUME NEW L, Sound(L, d) PROVE ListOK(<<o>>, d)
  <2>1. 0 \in d.bits
    BY <1>8 DEF Sound
  <2>2. \A k \in 1..1 : k = 1
    OBVIOUS
  <2> QED
    BY <1>5, <1>6, <2>1, <2>2 DEF ListOK
<1>9. CASE tainted'
  <2>1. Chain(<<>>, Now, Now, Disk)
    BY <1>3, ChainNone
  <2>2. Settles'
    BY <1>1, <1>2, <1>9, <2>1 DEF Settles
  <2>3. Guarded'
    BY <1>9 DEF Guarded
  <2> QED
    BY <1>7, <2>2, <2>3 DEF IInv
<1>10. CASE ~tainted'
  <2>1. ~tainted /\ exposed # "yes" /\ exposed \in {"no", "soon", "yes"}
    BY <1>1, <1>10 DEF IInv, Typed
  <2>2. PICK L : Sound(L, d)
    <3>1. CASE exposed = "soon"
      BY <1>3, <2>1, <3>1 DEF IInv, Guarded
    <3>2. CASE exposed = "no"
      <4>1. PICK L, e : Chain(pending, Now, e, SoundDisks(L))
        BY <2>1, <3>2 DEF IInv, Guarded
      <4>2. Now \in SoundDisks(L)
        BY <4>1, ChainEnds DEF IInv, Typed
      <4> QED
        BY <1>3, <4>2 DEF SoundDisks
    <3> QED
      BY <2>1, <3>1, <3>2
  <2>3. Chain(<<>>, Now, Now, Disk) /\ Chain(<<>>, Now, Now, SoundDisks(L))
    BY <1>3, <2>2, NothingPending
  <2>4. Settles'
    <3>1. ListOK(<<o>>, Now) /\ Now.bits = inode_bitmap' /\ Sound(L, Now)
      BY <1>1, <1>3, <1>8, <2>2
    <3> QED
      BY <1>1, <1>2, <1>6, <2>3, <3>1 DEF Settles
  <2>5. Guarded'
    BY <1>1, <1>2, <2>3 DEF Guarded
  <2> QED
    BY <1>7, <2>4, <2>5 DEF IInv
<1> QED
  BY <1>9, <1>10

\* A step that changes nothing.
LEMMA StutterInv ==
    ASSUME IInv, UNCHANGED vars
    PROVE  IInv'
<1>1. UNCHANGED <<inode_bitmap, open_inodes, disk_bitmap, inode_table, block, pending, exposed,
                  tainted, calls, crashes>>
  BY DEF vars, memory, disk
<1>2. Now' = Now
  BY <1>1 DEF Now
<1> QED
  BY <1>1, <1>2 DEF IInv, Typed, Settles, Guarded

----------------------------------------------------------------------------
(* The list of open inodes.                                                *)

\* The list new holds elements of old with their inodes: at k what old has at m[k].
Drawn(old, new, m) ==
    /\ \A k \in 1..Len(new) : /\ m[k] \in 1..Len(old)
                              /\ new[k].i_no = old[m[k]].i_no /\ new[k].node = old[m[k]].node
    /\ \A k, l \in 1..Len(new) : m[k] = m[l] => k = l

\* A list drawn from one that is in order is in order.
LEMMA DrawnOK ==
    ASSUME NEW old, NEW new, NEW m, NEW d, Drawn(old, new, m), ListOK(old, d)
    PROVE  ListOK(new, d)
<1>1. ASSUME NEW k \in 1..Len(new)
      PROVE  new[k].i_no \in d.bits /\ new[k].node = d.table[new[k].i_no]
  <2>1. m[k] \in 1..Len(old) /\ new[k].i_no = old[m[k]].i_no /\ new[k].node = old[m[k]].node
    BY <1>1 DEF Drawn
  <2> QED
    BY <2>1 DEF ListOK
<1>2. ASSUME NEW k \in 1..Len(new), NEW l \in 1..Len(new), new[k].i_no = new[l].i_no
      PROVE  k = l
  <2>1. m[k] \in 1..Len(old) /\ m[l] \in 1..Len(old) /\ old[m[k]].i_no = old[m[l]].i_no
    BY <1>2 DEF Drawn
  <2>2. m[k] = m[l]
    BY <2>1 DEF ListOK
  <2> QED
    BY <1>2, <2>2 DEF Drawn
<1> QED
  BY <1>1, <1>2 DEF ListOK

\* A new element in front.
LEMMA Prepended ==
    ASSUME NEW list \in Seq(OpenSet), NEW o \in OpenSet
    PROVE  /\ <<o>> \o list \in Seq(OpenSet)
           /\ Len(<<o>> \o list) = Len(list) + 1 /\ Len(list) \in Nat
           /\ (<<o>> \o list)[1] = o
           /\ \A k \in 2..(Len(list) + 1) : (<<o>> \o list)[k] = list[k - 1]
OBVIOUS

\* A list with a new inode in front is in order.
LEMMA PrependedOK ==
    ASSUME NEW list \in Seq(OpenSet), NEW o \in OpenSet, NEW d, ListOK(list, d),
           o.i_no \in d.bits, o.node = d.table[o.i_no],
           \A k \in 1..Len(list) : list[k].i_no # o.i_no
    PROVE  ListOK(<<o>> \o list, d)
<1>1. PICK n \in Nat : n = Len(list)
  BY Prepended
<1>2. PICK v : v = <<o>> \o list
  OBVIOUS
<1>3. Len(v) = n + 1 /\ v[1] = o /\ \A k \in 2..(n + 1) : v[k] = list[k - 1] /\ k - 1 \in 1..n
  <2>1. \A k \in 2..(n + 1) : k - 1 \in 1..n
    OBVIOUS
  <2> QED
    BY <1>1, <1>2, <2>1, Prepended
<1>4. \A k \in 1..(n + 1) : k = 1 \/ k \in 2..(n + 1)
  OBVIOUS
<1>5. \A k \in 1..(n + 1) : v[k].i_no \in d.bits /\ v[k].node = d.table[v[k].i_no]
  BY <1>1, <1>3, <1>4 DEF ListOK
<1>6. ASSUME NEW k \in 1..(n + 1), NEW l \in 1..(n + 1), v[k].i_no = v[l].i_no PROVE k = l
  <2>1. CASE k = 1 /\ l = 1
    BY <2>1
  <2>2. CASE k = 1 /\ l # 1
    BY <1>1, <1>3, <1>4, <1>6, <2>2
  <2>3. CASE k # 1 /\ l = 1
    BY <1>1, <1>3, <1>4, <1>6, <2>3
  <2>4. CASE k # 1 /\ l # 1
    <3>1. k \in 2..(n + 1) /\ l \in 2..(n + 1)
      BY <1>4, <2>4
    <3>2. k - 1 \in 1..n /\ l - 1 \in 1..n /\ list[k - 1].i_no = list[l - 1].i_no
      BY <1>3, <1>6, <3>1
    <3>3. k - 1 = l - 1
      BY <1>1, <3>2 DEF ListOK
    <3> QED
      BY <3>1, <3>3
  <2> QED
    BY <2>1, <2>2, <2>3, <2>4
<1> QED
  BY <1>2, <1>3, <1>5, <1>6 DEF ListOK

\* One element changed, but not its inode.
LEMMA Replaced ==
    ASSUME NEW list, list \in Seq(OpenSet), NEW k, k \in 1..Len(list), NEW o, o \in OpenSet,
           o.i_no = list[k].i_no, o.node = list[k].node,
           NEW new, Swapped(list, k, o, new)
    PROVE  /\ new \in Seq(OpenSet) /\ Len(new) = Len(list) /\ new[k] = o
           /\ \A j \in 1..Len(list) : new[j].i_no = list[j].i_no /\ new[j].node = list[j].node
           /\ \A i : Places(new, i) = Places(list, i)
           /\ \A d : ListOK(list, d) => ListOK(new, d)
<1>1. new \in Seq(OpenSet) /\ Len(new) = Len(list) /\ new[k] = o
  BY DEF Swapped
<1>2. \A j \in 1..Len(list) : j # k => new[j] = list[j]
  BY DEF Swapped
<1>3. \A j \in 1..Len(list) : new[j].i_no = list[j].i_no /\ new[j].node = list[j].node
  BY <1>1, <1>2
<1>4. \A i : Places(new, i) = Places(list, i)
  BY <1>1, <1>3 DEF Places
<1>5. ASSUME NEW d, ListOK(list, d) PROVE ListOK(new, d)
  BY <1>1, <1>3, <1>5 DEF ListOK
<1> QED
  BY <1>1, <1>3, <1>4, <1>5

\* Two sequences, one after the other.
LEMMA Joined ==
    ASSUME NEW S, NEW a \in Seq(S), NEW b \in Seq(S), NEW r, r = a \o b
    PROVE  /\ r \in Seq(S) /\ Len(r) = Len(a) + Len(b)
           /\ \A m \in 1..(Len(a) + Len(b)) : r[m] = IF m <= Len(a) THEN a[m] ELSE b[m - Len(a)]
OBVIOUS

\* A sequence without its element k.
LEMMA Removed ==
    ASSUME NEW S, NEW s \in Seq(S), NEW k \in 1..Len(s), NEW r, r = RemoveAt(s, k)
    PROVE  /\ r \in Seq(S) /\ Len(r) = Len(s) - 1 /\ Len(s) \in Nat
           /\ \A m \in 1..(Len(s) - 1) : r[m] = s[IF m < k THEN m ELSE m + 1]
<1>1. PICK n \in Nat : n = Len(s)
  <2>1. Len(s) \in Nat
    OBVIOUS
  <2> QED
    BY <2>1
<1>2. PICK a, b : a = SubSeq(s, 1, k - 1) /\ b = SubSeq(s, k + 1, n)
  OBVIOUS
<1>3. r = a \o b
  BY <1>1, <1>2 DEF RemoveAt
<1>4. k \in Nat /\ 1 <= k /\ k <= n
  BY <1>1
<1>5. a \in Seq(S) /\ Len(a) = k - 1 /\ \A m \in 1..(k - 1) : a[m] = s[m]
  BY <1>1, <1>2, <1>4
<1>6. b \in Seq(S) /\ Len(b) = n - k /\ \A m \in 1..(n - k) : b[m] = s[k + m]
  <2>1. PICK h \in Nat : h = k + 1 /\ 1 <= h /\ h <= n + 1 /\ b = SubSeq(s, h, n)
    BY <1>2, <1>4
  <2>2. b \in Seq(S) /\ Len(b) = n - h + 1
    BY <1>1, <2>1
  <2>3. \A m \in 1..(n - h + 1) : b[m] = s[h + m - 1]
    BY <1>1, <2>1
  <2>4. n - h + 1 = n - k /\ \A m \in 1..(n - k) : h + m - 1 = k + m
    BY <1>4, <2>1
  <2> QED
    BY <2>2, <2>3, <2>4
<1>7. /\ r \in Seq(S) /\ Len(r) = n - 1
      /\ \A m \in 1..(k - 1) : r[m] = a[m]
      /\ \A m \in k..(n - 1) : r[m] = b[m - (k - 1)]
  <2>0. a \in Seq(S) /\ b \in Seq(S)
    BY <1>5, <1>6
  <2>1. /\ r \in Seq(S) /\ Len(r) = Len(a) + Len(b)
        /\ \A m \in 1..(Len(a) + Len(b)) : r[m] = IF m <= Len(a) THEN a[m] ELSE b[m - Len(a)]
    BY <1>3, <2>0, Joined
  <2>2. Len(a) + Len(b) = n - 1
    <3>1. Len(a) = k - 1 /\ Len(b) = n - k
      BY <1>5, <1>6
    <3>2. (k - 1) + (n - k) = n - 1
      BY <1>4
    <3> QED
      BY <3>1, <3>2
  <2>3. \A m \in 1..(n - 1) : r[m] = IF m <= k - 1 THEN a[m] ELSE b[m - (k - 1)]
    BY <1>5, <2>1, <2>2
  <2>4. /\ \A m \in 1..(k - 1) : m \in 1..(n - 1) /\ m <= k - 1
        /\ \A m \in k..(n - 1) : m \in 1..(n - 1) /\ ~(m <= k - 1)
    BY <1>1, <1>4
  <2> QED
    BY <2>1, <2>2, <2>3, <2>4
<1>8. ASSUME NEW m \in 1..(n - 1) PROVE r[m] = s[IF m < k THEN m ELSE m + 1]
  <2>1. CASE m < k
    <3>1. m \in 1..(k - 1)
      BY <1>4, <2>1
    <3> QED
      BY <1>5, <1>7, <2>1, <3>1
  <2>2. CASE ~(m < k)
    <3>1. m \in k..(n - 1) /\ m - (k - 1) \in 1..(n - k) /\ k + (m - (k - 1)) = m + 1
      BY <1>4, <2>2
    <3>2. r[m] = b[m - (k - 1)] /\ b[m - (k - 1)] = s[k + (m - (k - 1))]
      BY <1>6, <1>7, <3>1
    <3> QED
      BY <2>2, <3>1, <3>2
  <2> QED
    BY <2>1, <2>2
<1> QED
  BY <1>1, <1>7, <1>8

\* A sequence without its first element.
LEMMA FirstRemoved ==
    ASSUME NEW S, NEW s \in Seq(S), NEW n \in Nat, Len(s) = n + 1, NEW r, r = RemoveAt(s, 1)
    PROVE  Len(r) = n /\ \A m \in 1..n : r[m] = s[m + 1]
<1>1. PICK a, b : a = SubSeq(s, 1, 1 - 1) /\ b = SubSeq(s, 1 + 1, Len(s))
  OBVIOUS
<1>2. r = a \o b
  BY <1>1 DEF RemoveAt
<1>3. a = <<>>
  BY <1>1
<1>4. b \in Seq(S) /\ Len(b) = n /\ \A m \in 1..n : b[m] = s[m + 1]
  BY <1>1
<1>5. <<>> \o b = b
  BY <1>4
<1> QED
  BY <1>2, <1>3, <1>4, <1>5

\* A list without one element.
LEMMA RemovedOK ==
    ASSUME NEW list \in Seq(OpenSet), NEW k \in 1..Len(list), NEW r, r = RemoveAt(list, k)
    PROVE  r \in Seq(OpenSet) /\ \A d : ListOK(list, d) => ListOK(r, d)
<1>1. PICK n \in Nat : n = Len(list)
  <2>1. Len(list) \in Nat
    OBVIOUS
  <2> QED
    BY <2>1
<1>2. PICK m : m = [j \in 1..(n - 1) |-> IF j < k THEN j ELSE j + 1]
  OBVIOUS
<1>3. r \in Seq(OpenSet) /\ Len(r) = n - 1 /\ \A j \in 1..(n - 1) : r[j] = list[m[j]]
  BY <1>1, <1>2, Removed, SMTT(30)
<1>4. /\ \A j \in 1..(n - 1) : m[j] \in 1..n
      /\ \A j, l \in 1..(n - 1) : m[j] = m[l] => j = l
  BY <1>1, <1>2
<1>5. Drawn(list, r, m)
  BY <1>1, <1>3, <1>4 DEF Drawn
<1> QED
  BY <1>3, <1>5, DrawnOK

\* inode_open: the count of the inode has room for one descriptor more.
LEMMA OpenedList ==
    ASSUME NEW list \in Seq(OpenSet), NEW i \in Ino, NEW d, ListOK(list, d),
           i \in d.bits, d.table = inode_table, d.table[i] \in NodeSet,
           NEW r, r = inode_open(list, i), NEW k, k = Min(Places(r, i))
    PROVE  /\ r \in Seq(OpenSet) /\ ListOK(r, d)
           /\ k \in 1..Len(r) /\ r[k].i_no = i /\ r[k].fds < r[k].i_open_cnts
           /\ r[k].node = d.table[i] /\ r[k] \in OpenSet
           /\ Places(list, i) = {} => k = 1 /\ r[k] = Opened(i, d.table[i]) /\ r = <<r[k]>> \o list
<1>1. CASE Places(list, i) # {}
  <2>1. PICK m : m = Min(Places(list, i)) /\ m \in 1..Len(list) /\ list[m].i_no = i
    BY <1>1, FirstPlace
  <2>2. r = [list EXCEPT ![m].i_open_cnts = @ + 1]
    BY <1>1, <2>1 DEF inode_open
  <2>3. PICK o : o = [list[m] EXCEPT !.i_open_cnts = @ + 1]
    OBVIOUS
  <2>4. list[m] \in OpenSet
    BY <2>1
  <2>5. /\ o \in OpenSet /\ o.i_no = list[m].i_no /\ o.node = list[m].node
        /\ o.fds < o.i_open_cnts
    <3>1. PICK q \in [i_no : Ino, node : NodeSet, i_open_cnts : Nat, fds : Nat] :
             q = list[m] /\ q.i_open_cnts >= q.fds
      BY <2>4 DEF OpenSet
    <3>2. o = [i_no |-> q.i_no, node |-> q.node, i_open_cnts |-> q.i_open_cnts + 1, fds |-> q.fds]
      BY <2>3, <3>1
    <3>3. q.i_open_cnts \in Nat /\ q.fds \in Nat /\ q.fds < q.i_open_cnts + 1
      BY <3>1
    <3> QED
      BY <3>1, <3>2, <3>3 DEF OpenSet
  <2>6. Swapped(list, m, o, r)
    BY <2>2, <2>3 DEF Swapped
  <2>7. /\ r \in Seq(OpenSet) /\ Len(r) = Len(list) /\ r[m] = o
        /\ \A j : Places(r, j) = Places(list, j)
        /\ \A c : ListOK(list, c) => ListOK(r, c)
    BY <2>1, <2>5, <2>6, Replaced
  <2>8. k = m
    BY <2>1, <2>7
  <2>9. list[m].node = d.table[i]
    BY <2>1 DEF ListOK
  <2> QED
    BY <1>1, <2>1, <2>5, <2>7, <2>8, <2>9
<1>2. CASE Places(list, i) = {}
  <2>1. PICK o : o = Opened(i, d.table[i])
    OBVIOUS
  <2>2. /\ o \in OpenSet /\ o.i_no = i /\ o.node = d.table[i] /\ o.fds < o.i_open_cnts
    BY <2>1 DEF Opened, OpenSet
  <2>3. r = <<o>> \o list
    BY <1>2, <2>1 DEF inode_open
  <2>4. /\ r \in Seq(OpenSet) /\ Len(r) = Len(list) + 1 /\ Len(list) \in Nat /\ r[1] = o
        /\ \A j \in 2..(Len(list) + 1) : r[j] = list[j - 1]
    BY <2>2, <2>3, Prepended
  <2>5. \A j \in 1..Len(list) : list[j].i_no # i
    BY <1>2 DEF Places
  <2>6. ListOK(r, d)
    BY <2>2, <2>3, <2>5, PrependedOK
  <2>7. 1 \in Places(r, i)
    BY <2>2, <2>4 DEF Places
  <2>8. k \in 1..Len(r) /\ r[k].i_no = i
    BY <2>4, <2>7, FirstPlace
  <2>9. k = 1
    <3>1. ASSUME k # 1 PROVE FALSE
      <4>1. k \in 2..(Len(list) + 1) /\ k - 1 \in 1..Len(list)
        BY <2>4, <2>8, <3>1
      <4> QED
        BY <2>4, <2>5, <2>8, <4>1
    <3> QED
      BY <3>1
  <2> QED
    BY <2>1, <2>2, <2>3, <2>4, <2>6, <2>8, <2>9
<1> QED
  BY <1>1, <1>2

\* inode_close of an element that is not only held by descriptors.
LEMMA ClosedList ==
    ASSUME NEW list \in Seq(OpenSet), NEW k \in 1..Len(list), list[k].fds < list[k].i_open_cnts,
           NEW r, r = inode_close(list, k)
    PROVE  r \in Seq(OpenSet) /\ \A d : ListOK(list, d) => ListOK(r, d)
<1>1. CASE list[k].i_no = 0
  BY <1>1 DEF inode_close
<1>2. CASE list[k].i_no # 0 /\ list[k].i_open_cnts > 1
  <2>1. PICK o : o = [list[k] EXCEPT !.i_open_cnts = @ - 1]
    OBVIOUS
  <2>2. list[k] \in OpenSet
    OBVIOUS
  <2>3. o \in OpenSet /\ o.i_no = list[k].i_no /\ o.node = list[k].node
    <3>1. PICK q \in [i_no : Ino, node : NodeSet, i_open_cnts : Nat, fds : Nat] :
             q = list[k] /\ q.i_open_cnts > q.fds
      BY <2>2 DEF OpenSet
    <3>2. o = [i_no |-> q.i_no, node |-> q.node, i_open_cnts |-> q.i_open_cnts - 1, fds |-> q.fds]
      BY <2>1, <3>1
    <3>3. q.i_open_cnts - 1 \in Nat /\ q.i_open_cnts - 1 >= q.fds
      BY <3>1
    <3> QED
      BY <3>1, <3>2, <3>3 DEF OpenSet
  <2>4. Swapped(list, k, o, r)
    BY <1>2, <2>1 DEF inode_close, Swapped
  <2> QED
    BY <2>3, <2>4, Replaced
<1>3. CASE list[k].i_no # 0 /\ ~(list[k].i_open_cnts > 1)
  <2>1. r = RemoveAt(list, k)
    BY <1>3 DEF inode_close
  <2> QED
    BY <2>1, RemovedOK
<1> QED
  BY <1>1, <1>2, <1>3

----------------------------------------------------------------------------
(* Calls that change no directory.                                         *)

\* What a call starts from: d is the disk, L its directories.
Standing(L, d) ==
    /\ d = Now /\ d \in Disk /\ Sound(L, d)
    /\ ListOK(open_inodes, d) /\ open_inodes \in Seq(OpenSet)
    /\ d.bits = inode_bitmap /\ d.table = inode_table /\ d.blk = block
    /\ Chain(<<>>, d, d, Disk) /\ Chain(<<>>, d, d, SoundDisks(L))
    /\ \A i \in Ino : NodeOf(i) = d.table[i]
    /\ \A path \in Path : /\ Len(path) \in Nat \ {0}
                          /\ Last(path) = path[Len(path)] /\ Last(path) \in Name
                          /\ Reached(L, d, path, search_file(path), Len(path))

\* Between calls there is such a disk, and search_file answers from it.
LEMMA AtRest ==
    ASSUME IInv, pending = <<>>, ~tainted
    PROVE  \E L, d : Standing(L, d)
<1>1. pending = <<>> /\ ~tainted
  OBVIOUS
<1>2. PICK d \in Disk : d = Now
  BY TypesFollow
<1>3. d.bits = disk_bitmap /\ d.table = inode_table /\ d.blk = block
  BY <1>2 DEF Now
<1>4. /\ disk_bitmap = inode_bitmap
      /\ \E L : Sound(L, Now)
      /\ ListOK(open_inodes, Now)
      /\ \A i \in Ino : NodeOf(i) = inode_table[i]
      /\ \A path : search_file(path) = Search(inode_table, block, path)
  BY <1>1, Quiet
<1>5. PICK L : Sound(L, d)
  BY <1>2, <1>4
<1>6. Chain(<<>>, d, d, Disk) /\ Chain(<<>>, d, d, SoundDisks(L))
  BY <1>2, <1>5, NothingPending
<1>7. ASSUME NEW path \in Path
      PROVE  /\ Len(path) \in Nat \ {0} /\ Last(path) = path[Len(path)] /\ Last(path) \in Name
             /\ Reached(L, d, path, search_file(path), Len(path))
  <2>1. search_file(path) = Search(d.table, d.blk, path)
    BY <1>3, <1>4
  <2> QED
    BY <1>5, <2>1, SearchReaches
<1>8. open_inodes \in Seq(OpenSet)
  BY DEF IInv, Typed
<1> QED
  BY <1>2, <1>3, <1>4, <1>5, <1>6, <1>7, <1>8 DEF Standing

\* A call starts between calls.
LEMMA CallStart ==
    ASSUME IInv, Ready
    PROVE  \E L, d : Standing(L, d)
  BY AtRest DEF Ready

\* A call that writes nothing.
LEMMA SilentReturn ==
    ASSUME IInv, Ready, Return(<<>>, FALSE), NEW L, NEW d, Standing(L, d),
           UNCHANGED <<inode_bitmap, tainted>>, open_inodes' \in Seq(OpenSet), ListOK(open_inodes', d)
    PROVE  IInv' /\ Turned
<1>1. <<>> \in Seq(Write) /\ FALSE \in BOOLEAN
  OBVIOUS
<1>2. inode_bitmap' \subseteq Ino /\ tainted' \in BOOLEAN
  BY DEF IInv, Typed
<1>3. d.bits = inode_bitmap' /\ Sound(L, d) /\ d = Now
  BY DEF Standing
<1>4. Chain(<<>>, Now, d, Disk) /\ Chain(<<>>, Now, d, SoundDisks(L))
  BY <1>3 DEF Standing
<1>5. IInv'
  BY <1>1, <1>2, <1>3, <1>4, ReturnInv
<1>6. Turned
  <2>1. d \in Disk
    BY DEF Standing
  <2>2. d \in Showing({Kinds(Now), Kinds(d)})
    BY <1>3, <2>1 DEF Showing
  <2>3. Chain(<<>>, Now, d, Showing({Kinds(Now), Kinds(d)}))
    BY <1>3, <2>2, ChainNone
  <2>4. Moves(Now, d)
    BY <1>3 DEF Moves
  <2> QED
    BY <1>1, <1>4, <2>3, <2>4, ReturnTurned
<1> QED
  BY <1>5, <1>6

\* mkdir of what exists and rmdir of what is no directory keep the invariant.
LEMMA ParentKeptInv ==
    ASSUME IInv, NEW path \in Path, ParentKept(path)
    PROVE  IInv' /\ Turned
<1>1. Ready /\ Return(<<>>, FALSE) /\ UNCHANGED <<inode_bitmap, tainted>>
  BY DEF ParentKept
<1>2. PICK L, d : Standing(L, d)
  BY <1>1, CallStart
<1>3. PICK u : u = search_file(path).parent
  OBVIOUS
<1>4. open_inodes' = inode_open(open_inodes, u)
  BY <1>3 DEF ParentKept
<1>5. u \in L
  BY <1>2, <1>3 DEF Standing, Reached
<1>6. d \in Disk /\ ListOK(open_inodes, d) /\ open_inodes \in Seq(OpenSet) /\ d.table = inode_table
  BY <1>2 DEF Standing
<1>7. u \in d.bits /\ u \in Ino /\ d.table[u] \in NodeSet
  <2>1. u \in d.bits
    BY <1>2, <1>5 DEF Standing, Sound
  <2> QED
    BY <1>6, <2>1, DiskParts
<1>8. open_inodes' \in Seq(OpenSet) /\ ListOK(open_inodes', d)
  BY <1>4, <1>6, <1>7, OpenedList
<1> QED
  BY <1>1, <1>2, <1>8, SilentReturn

\* sys_open of a file that exists keeps the invariant.
LEMMA FileOpenInv ==
    ASSUME IInv, NEW path \in Path, file_open(path)
    PROVE  IInv' /\ Turned
<1>1. Ready /\ Return(<<>>, FALSE) /\ UNCHANGED <<inode_bitmap, tainted>>
  BY DEF file_open
<1>2. PICK L, d : Standing(L, d)
  BY <1>1, CallStart
<1>3. PICK r : r = search_file(path)
  OBVIOUS
<1>4. PICK list : list = inode_open(open_inodes, r.i_no)
  OBVIOUS
<1>5. PICK k : k = Min(Places(list, r.i_no))
  OBVIOUS
<1>6. /\ r.f_type = "regular" /\ r.depth = Len(path)
      /\ open_inodes' = [list EXCEPT ![k].fds = @ + 1]
  BY <1>3, <1>4, <1>5 DEF file_open, WholePath
<1>7. d \in Disk /\ ListOK(open_inodes, d) /\ open_inodes \in Seq(OpenSet) /\ d.table = inode_table
      /\ Sound(L, d)
  BY <1>2 DEF Standing
<1>8. PICK n \in Nat \ {0} : n = Len(path) /\ path[n] \in Name /\ Reached(L, d, path, r, n)
  BY <1>2, <1>3 DEF Standing
<1>9. r.parent \in L /\ Hit(d, r.parent, path[n], r.i_no, "regular")
  BY <1>6, <1>8, Answer
<1>10. r.i_no \in d.bits /\ r.i_no \in Ino
  BY <1>7, <1>8, <1>9, HitNames
<1>11. d.table[r.i_no] \in NodeSet
  BY <1>7, <1>10, DiskParts
<1>12. /\ list \in Seq(OpenSet) /\ ListOK(list, d) /\ k \in 1..Len(list)
       /\ list[k].fds < list[k].i_open_cnts /\ list[k] \in OpenSet
  <2>1. PICK i \in Ino : /\ i = r.i_no /\ list = inode_open(open_inodes, i) /\ k = Min(Places(list, i))
                         /\ i \in d.bits /\ d.table[i] \in NodeSet
    BY <1>4, <1>5, <1>10, <1>11
  <2>2. /\ open_inodes \in Seq(OpenSet) /\ i \in Ino /\ ListOK(open_inodes, d) /\ i \in d.bits
        /\ d.table = inode_table /\ d.table[i] \in NodeSet /\ list = inode_open(open_inodes, i)
        /\ k = Min(Places(list, i))
    BY <1>7, <2>1
  <2> QED
    BY <2>2, OpenedList
<1>13. PICK o : o = [list[k] EXCEPT !.fds = @ + 1]
  OBVIOUS
<1>14. o \in OpenSet /\ o.i_no = list[k].i_no /\ o.node = list[k].node
  <2>1. PICK q \in [i_no : Ino, node : NodeSet, i_open_cnts : Nat, fds : Nat] :
           q = list[k] /\ q.fds < q.i_open_cnts
    BY <1>12 DEF OpenSet
  <2>2. o = [i_no |-> q.i_no, node |-> q.node, i_open_cnts |-> q.i_open_cnts, fds |-> q.fds + 1]
    BY <1>13, <2>1
  <2>3. q.i_open_cnts \in Nat /\ q.fds \in Nat /\ q.i_open_cnts >= q.fds + 1
    BY <2>1
  <2> QED
    BY <2>1, <2>2, <2>3 DEF OpenSet
<1>15. PICK new : new = open_inodes' /\ Swapped(list, k, o, new)
  BY <1>6, <1>13 DEF Swapped
<1>16. new \in Seq(OpenSet) /\ ListOK(new, d)
  BY <1>12, <1>14, <1>15, Replaced
<1> QED
  BY <1>1, <1>2, <1>15, <1>16, SilentReturn

\* sys_close keeps it: an inode is written as the disk has it already.
LEMMA FileCloseInv ==
    ASSUME IInv, NEW k \in 1..Len(open_inodes), file_close(k)
    PROVE  IInv' /\ Turned
<1>1. /\ Ready /\ open_inodes[k].fds > 0 /\ Return(ClosingSync(open_inodes, k), FALSE)
      /\ open_inodes' = inode_close([open_inodes EXCEPT ![k].fds = @ - 1], k)
      /\ UNCHANGED <<inode_bitmap, tainted>>
  BY DEF file_close
<1>2. PICK L, d : Standing(L, d)
  BY <1>1, CallStart
<1>3. /\ d = Now /\ d \in Disk /\ Sound(L, d) /\ ListOK(open_inodes, d)
      /\ open_inodes \in Seq(OpenSet) /\ d.bits = inode_bitmap
      /\ Chain(<<>>, d, d, Disk) /\ Chain(<<>>, d, d, SoundDisks(L))
  BY <1>2 DEF Standing
<1>4. PICK list : list = [open_inodes EXCEPT ![k].fds = @ - 1]
  OBVIOUS
<1>5. PICK o : o = [open_inodes[k] EXCEPT !.fds = @ - 1]
  OBVIOUS
<1>6. o \in OpenSet /\ o.i_no = open_inodes[k].i_no /\ o.node = open_inodes[k].node
      /\ o.fds < o.i_open_cnts
  <2>1. PICK q \in [i_no : Ino, node : NodeSet, i_open_cnts : Nat, fds : Nat] :
           q = open_inodes[k] /\ q.i_open_cnts >= q.fds /\ q.fds > 0
    BY <1>1, <1>3 DEF OpenSet
  <2>2. o = [i_no |-> q.i_no, node |-> q.node, i_open_cnts |-> q.i_open_cnts, fds |-> q.fds - 1]
    BY <1>5, <2>1
  <2>3. q.i_open_cnts \in Nat /\ q.fds - 1 \in Nat /\ q.fds - 1 < q.i_open_cnts
        /\ q.i_open_cnts >= q.fds - 1
    BY <2>1
  <2> QED
    BY <2>1, <2>2, <2>3 DEF OpenSet
<1>7. Swapped(open_inodes, k, o, list)
  BY <1>4, <1>5 DEF Swapped
<1>8. list \in Seq(OpenSet) /\ ListOK(list, d) /\ list[k] = o /\ Len(list) = Len(open_inodes)
  BY <1>3, <1>6, <1>7, Replaced
<1>9. open_inodes' \in Seq(OpenSet) /\ ListOK(open_inodes', d)
  <2>1. k \in 1..Len(list) /\ list[k].fds < list[k].i_open_cnts
    BY <1>6, <1>8
  <2>2. PICK new : new = inode_close(list, k) /\ new = open_inodes'
    BY <1>1, <1>4
  <2>3. new \in Seq(OpenSet) /\ \A c : ListOK(list, c) => ListOK(new, c)
    BY <1>8, <2>1, <2>2, ClosedList
  <2> QED
    BY <1>8, <2>2, <2>3
<1>10. PICK wr : wr = ClosingSync(open_inodes, k)
  OBVIOUS
<1>11. ASSUME NEW S, d \in S
       PROVE  wr \in Seq(Write) /\ Chain(wr, Now, d, S)
  <2>0. Chain(<<>>, d, d, S)
    BY <1>11, ChainNone
  <2>1. CASE wr = <<>>
    BY <1>3, <2>0, <2>1
  <2>2. CASE wr # <<>>
    <3>1. PICK i, v : i = open_inodes[k].i_no /\ v = open_inodes[k].node
      OBVIOUS
    <3>2. PICK w : w = [to |-> "inode", at |-> i, val |-> v] /\ wr = <<w>>
      BY <1>10, <2>2, <3>1 DEF ClosingSync
    <3>3. open_inodes[k] \in OpenSet
      BY <1>3
    <3>4. i \in Ino /\ v \in NodeSet /\ v = d.table[i]
      BY <1>3, <3>1, <3>3 DEF OpenSet, ListOK
    <3>5. w \in Write
      BY <3>2, <3>4 DEF Write
    <3>6. d.table \in [Ino -> NodeSet] /\ d = [bits |-> d.bits, table |-> d.table, blk |-> d.blk]
      BY <1>3 DEF Disk
    <3>7. [d.table EXCEPT ![i] = v] = d.table
      BY <3>4, <3>6
    <3>8. w.to = "inode" /\ w.at = i /\ w.val = v
      BY <3>2
    <3>9. Put(d, w) = d
      BY <3>6, <3>7, <3>8 DEF Put, Stored
    <3>10. <<>> \in Seq(Write) /\ Append(<<>>, w) = wr /\ wr \in Seq(Write)
      BY <3>2, <3>5
    <3>11. Chain(Append(<<>>, w), d, d, S)
      BY <1>11, <2>0, <3>5, <3>9, <3>10, ChainAppend
    <3> QED
      BY <1>3, <3>10, <3>11
  <2> QED
    BY <2>1, <2>2
<1>12. inode_bitmap' \subseteq Ino /\ tainted' \in BOOLEAN /\ d.bits = inode_bitmap' /\ FALSE \in BOOLEAN
  BY <1>1, <1>3 DEF IInv, Typed
<1>13. Return(wr, FALSE)
  BY <1>1, <1>10
<1>14. d \in SoundDisks(L) /\ d \in Showing({Kinds(Now), Kinds(d)}) /\ Moves(Now, d)
  BY <1>3 DEF SoundDisks, Showing, Moves
<1>15. /\ wr \in Seq(Write) /\ Chain(wr, Now, d, Disk) /\ Chain(wr, Now, d, SoundDisks(L))
       /\ Chain(wr, Now, d, Showing({Kinds(Now), Kinds(d)}))
  BY <1>3, <1>11, <1>14
<1>16. IInv'
  BY <1>1, <1>3, <1>9, <1>12, <1>13, <1>15, ReturnInv
<1>17. Turned
  BY <1>1, <1>12, <1>13, <1>14, <1>15, ReturnTurned
<1> QED
  BY <1>16, <1>17

----------------------------------------------------------------------------
(* Writes.                                                                 *)

\* The inode bitmap is written.
LEMMA PutBits ==
    ASSUME NEW d, d \in Disk, NEW b, b \in SUBSET Ino, NEW w, w = SyncBits(b), NEW e, e = Put(d, w)
    PROVE  /\ w \in Write /\ e \in Disk
           /\ e.bits = b /\ e.table = d.table /\ e.blk = d.blk
<1>1. w.to = "bitmap" /\ w.val = b /\ w \in Write
  BY DEF SyncBits, Write
<1>2. e = [bits |-> b, table |-> d.table, blk |-> d.blk]
  BY <1>1 DEF Put, Stored
<1> QED
  BY <1>1, <1>2 DEF Disk

\* An inode is written whose blocks there are.
LEMMA PutInode ==
    ASSUME NEW d, d \in Disk, NEW i, i \in Ino, NEW v, v \in NodeSet,
           \A j \in 1..Len(v.blocks) : v.blocks[j] \in 1..Len(d.blk),
           NEW w, w = SyncInode(i, v), NEW e, e = Put(d, w)
    PROVE  /\ w \in Write /\ e \in Disk
           /\ e.bits = d.bits /\ e.blk = d.blk
           /\ e.table[i] = v /\ \A x \in Ino : x # i => e.table[x] = d.table[x]
           /\ e.table \in [Ino -> NodeSet]
<1>1. w.to = "inode" /\ w.at = i /\ w.val = v /\ w \in Write
  BY DEF SyncInode, Write
<1>2. PICK t : t = [d.table EXCEPT ![i] = v]
  OBVIOUS
<1>3. e = [bits |-> d.bits, table |-> t, blk |-> d.blk]
  BY <1>1, <1>2 DEF Put, Stored
<1>4. /\ d.table \in [Ino -> NodeSet] /\ d.bits \in SUBSET Ino /\ d.blk \in Seq(Block)
      /\ \A x \in Ino : \A j \in 1..Len(d.table[x].blocks) : d.table[x].blocks[j] \in 1..Len(d.blk)
  BY DEF Disk
<1>5. t \in [Ino -> NodeSet] /\ t[i] = v /\ \A x \in Ino : x # i => t[x] = d.table[x]
  BY <1>2, <1>4
<1>6. \A x \in Ino : \A j \in 1..Len(t[x].blocks) : t[x].blocks[j] \in 1..Len(d.blk)
  BY <1>4, <1>5
<1>7. e.bits = d.bits /\ e.blk = d.blk /\ e.table = t
  BY <1>3
<1>8. e \in [bits : SUBSET Ino, table : [Ino -> NodeSet], blk : Seq(Block)]
  BY <1>3, <1>4, <1>5
<1>9. e \in Disk
  BY <1>6, <1>7, <1>8 DEF Disk
<1> QED
  BY <1>1, <1>5, <1>7, <1>9

\* b is a block of the disk, or the next one.
UpToNext(d, b) == b \in 1..(Len(d.blk) + 1)
Wrote(d, b, v, w, e) == w = WriteBlock(b, v) /\ e = Put(d, w)

\* A block is written, one there is or the next one.
LEMMA PutBlock ==
    ASSUME NEW d, d \in Disk, NEW b, UpToNext(d, b), NEW v, v \in Block,
           NEW w, NEW e, Wrote(d, b, v, w, e)
    PROVE  /\ w \in Write /\ e \in Disk
           /\ e.bits = d.bits /\ e.table = d.table
           /\ e.blk[b] = v /\ \A c \in 1..Len(d.blk) : c # b => e.blk[c] = d.blk[c]
           /\ Len(d.blk) \in Nat
           /\ b <= Len(d.blk) => Len(e.blk) = Len(d.blk)
           /\ b > Len(d.blk) => Len(e.blk) = Len(d.blk) + 1
<1>1. /\ d.table \in [Ino -> NodeSet] /\ d.bits \in SUBSET Ino /\ d.blk \in Seq(Block)
      /\ \A x \in Ino : \A j \in 1..Len(d.table[x].blocks) : d.table[x].blocks[j] \in 1..Len(d.blk)
  BY DEF Disk
<1>2. PICK n \in Nat : n = Len(d.blk)
  <2>1. Len(d.blk) \in Nat
    BY <1>1
  <2> QED
    BY <2>1
<1>3. b \in Nat /\ b \in 1..(n + 1)
  BY <1>2 DEF UpToNext
<1>4. w.to = "block" /\ w.at = b /\ w.val = v /\ w \in Write
  BY <1>3 DEF Wrote, WriteBlock, Write
<1>5. PICK c : c = Stored(d.blk, w)
  OBVIOUS
<1>6. e = [bits |-> d.bits, table |-> d.table, blk |-> c]
  BY <1>4, <1>5 DEF Wrote, Put
<1>7. /\ c \in Seq(Block) /\ c[b] = v /\ \A k \in 1..n : k # b => c[k] = d.blk[k]
      /\ b <= n => Len(c) = n
      /\ b > n => Len(c) = n + 1
  <2>1. CASE b > n
    <3>1. c = Append(d.blk, v)
      BY <1>2, <1>4, <1>5, <2>1 DEF Stored
    <3>2. b = n + 1
      BY <1>3, <2>1
    <3> QED
      BY <1>1, <1>2, <2>1, <3>1, <3>2
  <2>2. CASE ~(b > n)
    <3>1. c = [d.blk EXCEPT ![b] = v]
      BY <1>2, <1>4, <1>5, <2>2 DEF Stored
    <3>2. b \in 1..n
      BY <1>3, <2>2
    <3> QED
      BY <1>1, <1>2, <2>2, <3>1, <3>2
  <2> QED
    BY <2>1, <2>2
<1>8. e.bits = d.bits /\ e.blk = c /\ e.table = d.table
  BY <1>6
<1>9. Len(c) \in Nat /\ \A k \in 1..n : k \in 1..Len(c)
  <2>1. Len(c) = n \/ Len(c) = n + 1
    BY <1>3, <1>7
  <2> QED
    BY <2>1
<1>10. e \in [bits : SUBSET Ino, table : [Ino -> NodeSet], blk : Seq(Block)]
  BY <1>1, <1>6, <1>7
<1>11. e \in Disk
  BY <1>1, <1>2, <1>8, <1>9, <1>10 DEF Disk
<1> QED
  BY <1>2, <1>4, <1>7, <1>8, <1>11

----------------------------------------------------------------------------
(* Removal.                                                                *)

\* blk is the blocks of d with g at place p of directory u.
Patched(d, u, p, g, blk) ==
    LET b == d.table[u].blocks[p[1]]
    IN  /\ \A c \in 1..Len(d.blk) : c # b => blk[c] = d.blk[c]
        /\ \A s \in 1..ENTRIES : blk[b][s] = IF s = p[2] THEN g ELSE d.blk[b][s]

Cleared(d, u, p, blk) == Patched(d, u, p, Empty, blk)

\* All places but slot of u are as they were.
Elsewhere(L, d, u, slot, e) ==
    \A x \in L : \A p \in Slots(d.table[x]) :
        x # u \/ p # slot => At(d.table[x], e.blk, p) = At(d.table[x], d.blk, p)

\* An entry is written, and all others stay.
LEMMA PatchedElsewhere ==
    ASSUME NEW L, NEW d, d \in Disk, Sound(L, d), NEW u, u \in L, NEW slot, slot \in Slots(d.table[u]),
           NEW g, NEW e, Patched(d, u, slot, g, e.blk)
    PROVE  Elsewhere(L, d, u, slot, e)
<1> SUFFICES ASSUME NEW x \in L, NEW p \in Slots(d.table[x]), x # u \/ p # slot
             PROVE  At(d.table[x], e.blk, p) = At(d.table[x], d.blk, p)
  BY DEF Elsewhere
<1>1. \A y \in L : y \in Ino
  BY DiskParts DEF Sound
<1>2. \A y \in L : \A q \in Slots(d.table[y]) :
          q[1] \in 1..Len(d.table[y].blocks) /\ q[2] \in 1..ENTRIES /\ q = <<q[1], q[2]>>
  BY <1>1, DiskParts, SlotPairs
<1>3. \A y \in L : \A j \in 1..Len(d.table[y].blocks) : d.table[y].blocks[j] \in 1..Len(d.blk)
  BY <1>1, DiskParts
<1>4. PICK b : b = d.table[u].blocks[slot[1]]
  OBVIOUS
<1>5. /\ \A c \in 1..Len(d.blk) : c # b => e.blk[c] = d.blk[c]
      /\ \A s \in 1..ENTRIES : e.blk[b][s] = IF s = slot[2] THEN g ELSE d.blk[b][s]
  BY <1>4 DEF Patched
<1>6. PICK c : c = d.table[x].blocks[p[1]] /\ c \in 1..Len(d.blk)
  BY <1>2, <1>3
<1>7. At(d.table[x], e.blk, p) = e.blk[c][p[2]] /\ At(d.table[x], d.blk, p) = d.blk[c][p[2]]
  BY <1>6 DEF At
<1>8. CASE c # b
  BY <1>5, <1>6, <1>7, <1>8
<1>9. CASE c = b
  <2>2. x = u /\ p[1] = slot[1]
    <3>1. PICK j, k : /\ j = p[1] /\ k = slot[1]
                      /\ j \in 1..Len(d.table[x].blocks) /\ k \in 1..Len(d.table[u].blocks)
      BY <1>2
    <3>2. d.table[x].blocks[j] = d.table[u].blocks[k]
      BY <1>4, <1>6, <1>9, <3>1
    <3>3. x = u /\ j = k
      BY <3>1, <3>2, OnePlace
    <3> QED
      BY <3>1, <3>3
  <2>3. p[2] # slot[2]
    BY <1>2, <2>2
  <2> QED
    BY <1>2, <1>5, <1>7, <1>9, <2>3
<1> QED
  BY <1>8, <1>9

\* What a path can name after an entry was emptied is what it could before, without it.
LEMMA Unlinked ==
    ASSUME NEW L, NEW d, d \in Disk, Sound(L, d), NEW u, u \in L, NEW p, p \in Slots(d.table[u]),
           NEW e, Cleared(d, u, p, e.blk), NEW K,
           \A x \in K : x \in L /\ e.table[x] = d.table[x],
           NEW x, NEW q, Holds(K, e, x, q)
    PROVE  Stays(L, d, e, x, q) /\ ~(x = u /\ q = p)
<1>1. /\ x \in L /\ x \in K /\ q \in Slots(d.table[x]) /\ e.table[x] = d.table[x]
      /\ At(d.table[x], e.blk, q).filename \in Name
  BY DEF Holds
<1>2. x \in Ino /\ u \in Ino
  BY <1>1, DiskParts DEF Sound
<1>3. /\ q[1] \in 1..Len(d.table[x].blocks) /\ q[2] \in 1..ENTRIES /\ q = <<q[1], q[2]>>
      /\ p[1] \in 1..Len(d.table[u].blocks) /\ p[2] \in 1..ENTRIES /\ p = <<p[1], p[2]>>
  BY <1>1, <1>2, DiskParts, SlotPairs
<1>4. PICK b, c : b = d.table[u].blocks[p[1]] /\ c = d.table[x].blocks[q[1]]
  OBVIOUS
<1>5. b \in 1..Len(d.blk) /\ c \in 1..Len(d.blk)
  BY <1>2, <1>3, <1>4, DiskParts
<1>6. /\ \A k \in 1..Len(d.blk) : k # b => e.blk[k] = d.blk[k]
      /\ \A s \in 1..ENTRIES : e.blk[b][s] = IF s = p[2] THEN Empty ELSE d.blk[b][s]
  BY <1>4 DEF Cleared, Patched
<1>7. At(d.table[x], e.blk, q) = e.blk[c][q[2]] /\ At(d.table[x], d.blk, q) = d.blk[c][q[2]]
  BY <1>4 DEF At
<1>8. e.blk[c][q[2]] = d.blk[c][q[2]]
  <2>1. CASE c # b
    BY <1>5, <1>6, <2>1
  <2>2. CASE c = b
    <3>1. q[2] # p[2]
      BY <1>1, <1>3, <1>6, <1>7, <2>2, EntryTypes
    <3> QED
      BY <1>3, <1>6, <2>2, <3>1
  <2> QED
    BY <2>1, <2>2
<1>9. ~(x = u /\ q = p)
  <2>1. ASSUME x = u, q = p PROVE FALSE
    <3>1. At(d.table[x], e.blk, q) = Empty
      BY <1>3, <1>4, <1>6, <1>7, <2>1
    <3> QED
      BY <1>1, <3>1, EntryTypes
  <2> QED
    BY <2>1
<1>10. Stays(L, d, e, x, q)
  BY <1>1, <1>7, <1>8 DEF Stays, Holds
<1> QED
  BY <1>9, <1>10

\* The other entries are all there.
LEMMA UnlinkedCut ==
    ASSUME NEW L, NEW d, d \in Disk, Sound(L, d), NEW u, u \in L, NEW p, p \in Slots(d.table[u]),
           NEW e, Cleared(d, u, p, e.blk), NEW K,
           \A x \in K : x \in L /\ e.table[x] = d.table[x]
    PROVE  Cut(L, d, K, e, u, p)
<1>1. ASSUME NEW x, NEW q, Holds(K, e, x, q)
      PROVE  Stays(L, d, e, x, q) /\ ~(x = u /\ q = p)
  BY <1>1, Unlinked
<1>2. ASSUME NEW x \in K, NEW q, Holds(L, d, x, q), ~(x = u /\ q = p)
      PROVE  Holds(K, e, x, q)
  <2>1. x \in L /\ q \in Slots(d.table[x]) /\ At(d.table[x], d.blk, q).filename \in Name
    BY <1>2 DEF Holds
  <2>2. PICK g : Patched(d, u, p, g, e.blk)
    BY DEF Cleared
  <2>3. At(d.table[x], e.blk, q) = At(d.table[x], d.blk, q)
    <3>1. Elsewhere(L, d, u, p, e)
      BY <2>2, PatchedElsewhere
    <3> QED
      BY <1>2, <2>1, <3>1 DEF Elsewhere
  <2> QED
    BY <2>1, <2>3 DEF Holds
<1>3. \A x, q : Holds(K, e, x, q) => x \in K
  BY DEF Holds
<1> QED
  BY <1>1, <1>2, <1>3 DEF Cut, Stays

\* The tree without one entry, whether or not its inode is freed already.
LEMMA Without ==
    ASSUME NEW L, NEW d, d \in Disk, Sound(L, d), NEW u, NEW p, Holds(L, d, u, p),
           NEW i, i = At(d.table[u], d.blk, p).i_no, NEW e, Cleared(d, u, p, e.blk),
           NEW K, \A x : x \in K <=> x \in L /\ x # i,
           \A x \in K : e.table[x] = d.table[x],
           \A x \in d.bits : x # i => x \in e.bits /\ e.table[x].kind = d.table[x].kind
    PROVE  Sound(K, e)
<1>1. u \in L /\ p \in Slots(d.table[u])
  BY DEF Holds
<1>2. Names(L, d, At(d.table[u], d.blk, p))
  BY DEF Sound
<1>3. i # 0
  BY <1>2 DEF Names
<1>4. 0 \in K
  BY <1>3 DEF Sound
<1>5. \A x \in K : x \in L /\ x \in e.bits /\ e.table[x] = d.table[x]
  BY DEF Sound
<1>6. ASSUME NEW x, NEW q, Holds(K, e, x, q)
      PROVE  Stays(L, d, e, x, q) /\ Names(K, e, At(d.table[x], d.blk, q))
  <2>1. Stays(L, d, e, x, q) /\ ~(x = u /\ q = p)
    BY <1>1, <1>5, <1>6, Unlinked
  <2>2. Holds(L, d, x, q)
    BY <2>1 DEF Stays
  <2>3. PICK g : g = At(d.table[x], d.blk, q) /\ Names(L, d, g)
    BY <2>2 DEF Sound
  <2>4. g.i_no # i
    BY <2>1, <2>2, <2>3 DEF Sound
  <2>5. Names(K, e, g)
    BY <2>3, <2>4 DEF Names
  <2> QED
    BY <2>1, <2>3, <2>5
<1> QED
  BY <1>4, <1>5, <1>6, Shrunk

\* path ends at place p of directory u, in an entry for i.
Locates(L, d, path, u, p, i) ==
    /\ path \in Path /\ Leads(d, path, Len(path) - 1, u) /\ Holds(L, d, u, p)
    /\ At(d.table[u], d.blk, p).filename = path[Len(path)] /\ At(d.table[u], d.blk, p).i_no = i

\* The tree of names without what the entry named.
LEMMA WithoutDrops ==
    ASSUME NEW L, NEW d, d \in Disk, Sound(L, d), NEW path, NEW u, NEW p, NEW i, Locates(L, d, path, u, p, i),
           NEW e, e \in Disk, Cleared(d, u, p, e.blk),
           NEW K, Sound(K, e), \A x : x \in K <=> x \in L /\ x # i, \A x \in K : e.table[x] = d.table[x]
    PROVE  Drops(Kinds(d), path, Kinds(e))
<1>1. PICK nm : nm = path[Len(path)]
  OBVIOUS
<1>2. /\ path \in Path /\ Leads(d, path, Len(path) - 1, u) /\ Holds(L, d, u, p)
      /\ At(d.table[u], d.blk, p).filename = nm /\ At(d.table[u], d.blk, p).i_no = i
  BY <1>1 DEF Locates
<1>3. u \in L /\ p \in Slots(d.table[u]) /\ nm \in Name
  BY <1>2 DEF Holds
<1>4. \A x \in K : x \in L /\ e.table[x] = d.table[x]
  OBVIOUS
<1>5. Cut(L, d, K, e, u, p)
  BY <1>3, <1>4, UnlinkedCut
<1>6. Trim(L, d, K, e, u, nm, i)
  BY <1>2, <1>5, CutTrims
<1>7. Trims(L, d, K, e, u, i, path)
  BY <1>1, <1>2, <1>6 DEF Trims
<1>8. PICK t : t = At(d.table[u], d.blk, p).f_type /\ t \in {"regular", "directory"}
  BY <1>2 DEF Sound, Names
<1>9. Hit(d, u, nm, i, t)
  BY <1>2, <1>3, <1>8, HitHeld
<1> QED
  BY <1>1, <1>7, <1>8, <1>9, Dropped

\* One entry of a block is written.
LEMMA SlotWritten ==
    ASSUME NEW old, old \in Block, NEW s, s \in 1..ENTRIES, NEW g, g \in EntrySet,
           NEW v, Swapped(old, s, g, v)
    PROVE  v \in Block /\ v[s] = g /\ \A r \in 1..ENTRIES : r # s => v[r] = old[r]
  BY DEF Swapped, Block

\* w writes a block of directory u with one entry, at place p, replaced by g.
Rewrites(d, u, p, g, w) ==
    \E b, v : /\ b = d.table[u].blocks[p[1]] /\ Swapped(d.blk[b], p[2], g, v)
              /\ w = WriteBlock(b, v)

\* The block of a place is written with a new entry there.
LEMMA PutEntry ==
    ASSUME NEW d, d \in Disk, NEW u, u \in Ino, NEW p, p \in Slots(d.table[u]),
           NEW g, g \in EntrySet, NEW w, Rewrites(d, u, p, g, w)
    PROVE  /\ w \in Write /\ Put(d, w) \in Disk
           /\ Put(d, w).bits = d.bits /\ Put(d, w).table = d.table
           /\ Len(Put(d, w).blk) = Len(d.blk) /\ Patched(d, u, p, g, Put(d, w).blk)
<1>1. PICK b, v : /\ b = d.table[u].blocks[p[1]] /\ Swapped(d.blk[b], p[2], g, v)
                  /\ w = WriteBlock(b, v)
  BY DEF Rewrites
<1>2. p[1] \in 1..Len(d.table[u].blocks) /\ p[2] \in 1..ENTRIES
  BY DiskParts, SlotPairs
<1>3. b \in 1..Len(d.blk) /\ Len(d.blk) \in Nat /\ d.blk[b] \in Block
  BY <1>1, <1>2, DiskParts, SMTT(30)
<1>4. PICK old, s : /\ old = d.blk[b] /\ s = p[2] /\ old \in Block /\ s \in 1..ENTRIES
                    /\ Swapped(old, s, g, v)
  BY <1>1, <1>2, <1>3
<1>5. old \in Block /\ s \in 1..ENTRIES /\ Swapped(old, s, g, v)
  BY <1>4
<1>6. v \in Block /\ v[s] = g /\ \A r \in 1..ENTRIES : r # s => v[r] = old[r]
  BY <1>5, SlotWritten
<1>7. PICK n \in Nat : n = Len(d.blk)
  BY <1>3
<1>8. b \in 1..(n + 1) /\ b <= n
  BY <1>3, <1>7
<1>9. UpToNext(d, b)
  BY <1>7, <1>8 DEF UpToNext
<1>10. PICK e : e = Put(d, w)
  OBVIOUS
<1>11. Wrote(d, b, v, w, e) /\ v \in Block
  BY <1>1, <1>6, <1>10 DEF Wrote
<1>12. /\ w \in Write /\ e \in Disk /\ e.bits = d.bits /\ e.table = d.table
       /\ e.blk[b] = v /\ \A c \in 1..Len(d.blk) : c # b => e.blk[c] = d.blk[c]
       /\ b <= Len(d.blk) => Len(e.blk) = Len(d.blk)
  BY <1>9, <1>11, PutBlock
<1>13. \A r \in 1..ENTRIES : e.blk[b][r] = IF r = p[2] THEN g ELSE d.blk[b][r]
  BY <1>4, <1>6, <1>12, SMTT(30)
<1>14. Patched(d, u, p, g, e.blk)
  BY <1>1, <1>12, <1>13 DEF Patched
<1> QED
  BY <1>7, <1>8, <1>10, <1>12, <1>14

\* An entry is emptied by the write of its block.
LEMMA PutCleared ==
    ASSUME NEW d, d \in Disk, NEW u, u \in Ino, NEW p, p \in Slots(d.table[u]),
           NEW w, Rewrites(d, u, p, Empty, w)
    PROVE  /\ w \in Write /\ Put(d, w) \in Disk
           /\ Put(d, w).bits = d.bits /\ Put(d, w).table = d.table
           /\ Cleared(d, u, p, Put(d, w).blk)
<1>1. PICK g : g = Empty
  OBVIOUS
<1>2. g \in EntrySet /\ Rewrites(d, u, p, g, w)
  BY <1>1, EntryTypes
<1>3. /\ w \in Write /\ Put(d, w) \in Disk
      /\ Put(d, w).bits = d.bits /\ Put(d, w).table = d.table
      /\ Patched(d, u, p, g, Put(d, w).blk)
  BY <1>2, PutEntry
<1> QED
  BY <1>1, <1>3 DEF Cleared

\* sys_remove keeps it, at each of its three sectors.
LEMMA RemoveInv ==
    ASSUME IInv, NEW path \in Path, sys_remove(path)
    PROVE  IInv' /\ Turned
<1>1. PICK r : r = search_file(path)
  OBVIOUS
<1>2. PICK node : node = NodeOf(r.parent)
  OBVIOUS
<1>3. PICK p : p = First(search_dir_entry(node, block, Last(path)))
  OBVIOUS
<1>4. PICK b : b = node.blocks[p[1]]
  OBVIOUS
<1>5. PICK bits : bits = inode_bitmap \ {r.i_no}
  OBVIOUS
<1>6. PICK v : v = [block[b] EXCEPT ![p[2]] = Empty]
  OBVIOUS
<1>7. PICK w1, w2, w3 : w1 = WriteBlock(b, v) /\ w2 = SyncInode(r.i_no, NoInode) /\ w3 = SyncBits(bits)
  OBVIOUS
<1>8. /\ Ready /\ r.f_type = "regular" /\ r.depth = Len(path)
      /\ Places(open_inodes, r.i_no) = {}
      /\ inode_bitmap' = bits /\ UNCHANGED <<open_inodes, tainted>>
      /\ Return(<<w1, w2, w3>>, FALSE)
  BY <1>1, <1>2, <1>3, <1>4, <1>5, <1>6, <1>7 DEF sys_remove, WholePath
<1>9. PICK L, d : Standing(L, d)
  BY <1>8, CallStart
<1>10. /\ d = Now /\ d \in Disk /\ Sound(L, d) /\ ListOK(open_inodes, d)
       /\ open_inodes \in Seq(OpenSet) /\ d.bits = inode_bitmap /\ d.blk = block
       /\ Chain(<<>>, d, d, Disk) /\ Chain(<<>>, d, d, SoundDisks(L))
       /\ \A i \in Ino : NodeOf(i) = d.table[i]
  BY <1>9 DEF Standing
<1>11. PICK n \in Nat \ {0} : /\ n = Len(path) /\ path[n] \in Name /\ Last(path) = path[n]
                              /\ Reached(L, d, path, r, n)
  BY <1>1, <1>9 DEF Standing
<1>12. /\ r.parent \in L /\ Hit(d, r.parent, path[n], r.i_no, "regular")
       /\ Leads(d, path, n - 1, r.parent)
  BY <1>8, <1>11, Answer
<1>13. PICK u, i : /\ u \in L /\ u = r.parent /\ i = r.i_no /\ Hit(d, u, path[n], i, "regular")
                   /\ Leads(d, path, n - 1, u)
  BY <1>12
<1>14. i \in d.bits /\ i \in Ino /\ d.table[i].kind = "regular" /\ u \in Ino
  BY <1>10, <1>11, <1>13, HitNames
<1>15. node = d.table[u]
  BY <1>2, <1>10, <1>13, <1>14
<1>16. p = First(search_dir_entry(d.table[u], d.blk, path[n]))
  BY <1>3, <1>10, <1>11, <1>15
<1>17. /\ p \in Slots(d.table[u]) /\ Holds(L, d, u, p) /\ At(d.table[u], d.blk, p).i_no = i
       /\ At(d.table[u], d.blk, p).filename = path[n]
  BY <1>10, <1>11, <1>13, <1>16, HitPlace
<1>18. i \notin L
  BY <1>10, <1>14 DEF Sound
<1>19. PICK e1 : e1 = Put(d, w1)
  OBVIOUS
<1>20. /\ w1 \in Write /\ e1 \in Disk /\ e1.bits = d.bits /\ e1.table = d.table
       /\ Cleared(d, u, p, e1.blk)
  <2>1. Rewrites(d, u, p, Empty, w1)
    BY <1>4, <1>6, <1>7, <1>10, <1>15 DEF Swapped, Rewrites
  <2> QED
    BY <1>10, <1>14, <1>17, <1>19, <2>1, PutCleared, SMTT(30)
<1>21. PICK e2 : e2 = Put(e1, w2)
  OBVIOUS
<1>22. /\ w2 \in Write /\ e2 \in Disk /\ e2.bits = d.bits /\ e2.blk = e1.blk
       /\ \A x \in Ino : x # i => e2.table[x] = d.table[x]
  <2>1. PICK no : no = NoInode /\ no \in NodeSet /\ w2 = SyncInode(i, no)
    BY <1>7, <1>13, EntryTypes
  <2>2. \A j \in 1..Len(no.blocks) : no.blocks[j] \in 1..Len(e1.blk)
    <3>1. no.blocks = <<>>
      BY <2>1 DEF NoInode, Node
    <3>2. Len(no.blocks) = 0
      BY <3>1
    <3> QED
      BY <3>2
  <2>3. /\ w2 \in Write /\ e2 \in Disk /\ e2.bits = e1.bits /\ e2.blk = e1.blk
        /\ \A x \in Ino : x # i => e2.table[x] = e1.table[x]
    BY <1>14, <1>20, <1>21, <2>1, <2>2, PutInode
  <2> QED
    BY <1>20, <2>3
<1>23. PICK e3 : e3 = Put(e2, w3)
  OBVIOUS
<1>24. w3 \in Write /\ e3 \in Disk /\ e3.bits = bits /\ e3.table = e2.table /\ e3.blk = e1.blk
  <2>1. bits \in SUBSET Ino
    BY <1>5, <1>10, DiskParts
  <2>2. w3 \in Write /\ e3 \in Disk /\ e3.bits = bits /\ e3.table = e2.table /\ e3.blk = e2.blk
    BY <1>7, <1>22, <1>23, <2>1, PutBits
  <2> QED
    BY <1>22, <2>2
<1>25. \A x : x \in L <=> x \in L /\ x # i
  BY <1>18
<1>26. \A x \in d.bits : x \in Ino
  BY <1>10, DiskParts
<1>27. \A x \in L : x \in Ino /\ x # i
  BY <1>10, <1>18, <1>26 DEF Sound
<1>32. Locates(L, d, path, u, p, i)
  BY <1>11, <1>13, <1>17 DEF Locates
<1>28. Sound(L, e1) /\ Drops(Kinds(d), path, Kinds(e1))
  <2>1. \A x \in d.bits : x # i => x \in e1.bits /\ e1.table[x].kind = d.table[x].kind
    BY <1>20
  <2>2. \A x \in L : e1.table[x] = d.table[x]
    BY <1>20
  <2>3. Sound(L, e1)
    BY <1>10, <1>17, <1>20, <1>25, <2>1, <2>2, Without
  <2> QED
    BY <1>10, <1>20, <1>25, <1>32, <2>2, <2>3, WithoutDrops
<1>29. Sound(L, e2) /\ Drops(Kinds(d), path, Kinds(e2))
  <2>1. \A x \in d.bits : x # i => x \in e2.bits /\ e2.table[x].kind = d.table[x].kind
    BY <1>22, <1>26
  <2>2. \A x \in L : e2.table[x] = d.table[x]
    BY <1>22, <1>27
  <2>3. Cleared(d, u, p, e2.blk)
    BY <1>20, <1>22
  <2>4. Sound(L, e2)
    BY <1>10, <1>17, <1>25, <2>1, <2>2, <2>3, Without
  <2> QED
    BY <1>10, <1>22, <1>25, <1>32, <2>2, <2>3, <2>4, WithoutDrops
<1>30. Sound(L, e3) /\ Drops(Kinds(d), path, Kinds(e3))
  <2>1. \A x \in d.bits : x # i => x \in e3.bits /\ e3.table[x].kind = d.table[x].kind
    BY <1>5, <1>10, <1>13, <1>22, <1>24, <1>26
  <2>2. \A x \in L : e3.table[x] = d.table[x]
    BY <1>22, <1>24, <1>27
  <2>3. Cleared(d, u, p, e3.blk)
    BY <1>20, <1>24
  <2>4. Sound(L, e3)
    BY <1>10, <1>17, <1>25, <2>1, <2>2, <2>3, Without
  <2> QED
    BY <1>10, <1>24, <1>25, <1>32, <2>2, <2>3, <2>4, WithoutDrops
<1>31. <<>> \in Seq(Write) /\ <<>> \o <<w1, w2, w3>> = <<w1, w2, w3>>
  BY <1>20, <1>22, <1>24
<1>33. ASSUME NEW S, Chain(<<>>, d, d, S), e1 \in S, e2 \in S, e3 \in S
       PROVE  <<w1, w2, w3>> \in Seq(Write) /\ Chain(<<w1, w2, w3>>, d, e3, S)
  <2>1. PICK s : s = <<>> /\ s \in Seq(Write) /\ Chain(s, d, d, S)
    BY <1>31, <1>33
  <2>2. s \o <<w1, w2, w3>> \in Seq(Write) /\ Chain(s \o <<w1, w2, w3>>, d, e3, S)
    BY <1>19, <1>20, <1>21, <1>22, <1>23, <1>24, <1>33, <2>1, ChainThree
  <2> QED
    BY <1>31, <2>1, <2>2
<1>34. <<w1, w2, w3>> \in Seq(Write) /\ Chain(<<w1, w2, w3>>, Now, e3, Disk)
  BY <1>10, <1>20, <1>22, <1>24, <1>33
<1>35. Chain(<<w1, w2, w3>>, Now, e3, SoundDisks(L))
  <2>1. e1 \in SoundDisks(L) /\ e2 \in SoundDisks(L) /\ e3 \in SoundDisks(L)
    BY <1>20, <1>22, <1>24, <1>28, <1>29, <1>30 DEF SoundDisks
  <2> QED
    BY <1>10, <1>33, <2>1
<1>36. ListOK(open_inodes', e3)
  <2>1. ASSUME NEW k \in 1..Len(open_inodes)
        PROVE  open_inodes[k].i_no \in e3.bits /\ open_inodes[k].node = e3.table[open_inodes[k].i_no]
    <3>1. PICK x : x = open_inodes[k].i_no /\ x \in d.bits /\ open_inodes[k].node = d.table[x]
      BY <1>10 DEF ListOK
    <3>2. x # i
      BY <1>8, <1>13, <3>1 DEF Places
    <3>3. x \in e3.bits /\ e3.table[x] = d.table[x]
      BY <1>5, <1>10, <1>13, <1>22, <1>24, <1>26, <3>1, <3>2
    <3> QED
      BY <3>1, <3>3
  <2>2. open_inodes' = open_inodes
    BY <1>8
  <2> QED
    BY <1>10, <2>1, <2>2 DEF ListOK
<1>37. /\ inode_bitmap' \subseteq Ino /\ open_inodes' \in Seq(OpenSet) /\ tainted' \in BOOLEAN
       /\ e3.bits = inode_bitmap' /\ FALSE \in BOOLEAN
  BY <1>5, <1>8, <1>10, <1>24 DEF IInv, Typed
<1>38. IInv'
  BY <1>8, <1>30, <1>34, <1>35, <1>36, <1>37, ReturnInv
<1>39. Turned
  <2>1. Kinds(e1) = Kinds(e3) /\ Kinds(e2) = Kinds(e3)
    BY <1>28, <1>29, <1>30 DEF Drops
  <2>2. PICK S : S = Showing({Kinds(Now), Kinds(e3)})
    OBVIOUS
  <2>3. d \in S /\ e1 \in S /\ e2 \in S /\ e3 \in S
    BY <1>10, <1>20, <1>22, <1>24, <2>1, <2>2 DEF Showing
  <2>4. Chain(<<>>, d, d, S)
    BY <2>3, ChainNone
  <2>5. Chain(<<w1, w2, w3>>, Now, e3, Showing({Kinds(Now), Kinds(e3)}))
    BY <1>10, <1>33, <2>2, <2>3, <2>4
  <2>6. Moves(Now, e3)
    BY <1>10, <1>30 DEF Moves
  <2> QED
    BY <1>8, <1>34, <1>37, <2>5, <2>6, ReturnTurned
<1> QED
  BY <1>38, <1>39

\* dir_delete: the bit goes, the inode is written as it was, and is not left open.
LEMMA DirDeleted ==
    ASSUME NEW L, NEW d, Standing(L, d), NEW i, i \in Ino, i \in d.bits, i # 0,
           NEW D, D = dir_delete(i)
    PROVE  /\ D.bits = d.bits \ {i} /\ D.list \in Seq(OpenSet)
           /\ D.wr \in Seq(Write) /\ D.wr # <<>>
           /\ \E e \in Disk : /\ Chain(D.wr, d, e, Disk)
                              /\ e.bits = d.bits \ {i} /\ e.table = d.table /\ e.blk = d.blk
           /\ Places(open_inodes, i) = {} =>
                  \A e : e.bits = d.bits \ {i} /\ e.table = d.table => ListOK(D.list, e)
<1>1. /\ d \in Disk /\ ListOK(open_inodes, d) /\ open_inodes \in Seq(OpenSet)
      /\ d.table = inode_table /\ d.bits = inode_bitmap /\ Chain(<<>>, d, d, Disk)
  BY DEF Standing
<1>2. PICK bits : bits = d.bits \ {i} /\ bits \in SUBSET Ino
  BY <1>1, DiskParts
<1>3. PICK opened : opened = inode_open(open_inodes, i)
  OBVIOUS
<1>4. PICK k : k = Min(Places(opened, i))
  OBVIOUS
<1>5. PICK w1 : w1 = SyncBits(bits)
  OBVIOUS
<1>6. PICK sync : sync = ClosingSync(opened, k)
  OBVIOUS
<1>7. D.bits = bits /\ D.list = inode_close(opened, k) /\ D.wr = <<w1>> \o sync
  BY <1>1, <1>2, <1>3, <1>4, <1>5, <1>6 DEF dir_delete
<1>8. d.table[i] \in NodeSet /\ \A j \in 1..Len(d.table[i].blocks) : d.table[i].blocks[j] \in 1..Len(d.blk)
  BY <1>1, DiskParts
<1>9. /\ opened \in Seq(OpenSet) /\ k \in 1..Len(opened) /\ opened[k].i_no = i
      /\ opened[k].fds < opened[k].i_open_cnts /\ opened[k].node = d.table[i]
      /\ Places(open_inodes, i) = {} =>
             k = 1 /\ opened[k] = Opened(i, d.table[i]) /\ opened = <<opened[k]>> \o open_inodes
  BY <1>1, <1>3, <1>4, <1>8, OpenedList
<1>10. D.list \in Seq(OpenSet)
  BY <1>7, <1>9, ClosedList
<1>11. PICK e1 : e1 = Put(d, w1)
  OBVIOUS
<1>12. /\ w1 \in Write /\ e1 \in Disk
       /\ e1.bits = bits /\ e1.table = d.table /\ e1.blk = d.blk
  BY <1>1, <1>2, <1>5, <1>11, PutBits
<1>13. <<w1>> \in Seq(Write) /\ <<>> \o <<w1>> = <<w1>> /\ <<>> \in Seq(Write)
  BY <1>12
<1>14. Chain(<<w1>>, d, e1, Disk)
  <2>1. PICK s : s = <<>> /\ s \in Seq(Write) /\ Chain(s, d, d, Disk)
    BY <1>1, <1>13
  <2>2. Chain(s \o <<w1>>, d, e1, Disk)
    BY <1>11, <1>12, <2>1, ChainOne
  <2> QED
    BY <1>13, <2>1, <2>2
<1>15. /\ D.wr \in Seq(Write) /\ D.wr # <<>>
       /\ \E e \in Disk : /\ Chain(D.wr, d, e, Disk)
                          /\ e.bits = bits /\ e.table = d.table /\ e.blk = d.blk
  <2>1. CASE sync = <<>>
    <3>1. D.wr = <<w1>>
      BY <1>7, <1>13, <2>1
    <3> QED
      BY <1>12, <1>13, <1>14, <3>1
  <2>2. CASE sync # <<>>
    <3>1. PICK w2 : w2 = SyncInode(i, d.table[i]) /\ sync = <<w2>>
      BY <1>6, <1>9, <2>2 DEF ClosingSync, SyncInode
    <3>2. PICK v : v = d.table[i] /\ v \in NodeSet /\ w2 = SyncInode(i, v)
      BY <1>8, <3>1
    <3>3. PICK e2 : e2 = Put(e1, w2)
      OBVIOUS
    <3>4. \A j \in 1..Len(v.blocks) : v.blocks[j] \in 1..Len(e1.blk)
      BY <1>8, <1>12, <3>2
    <3>5. /\ w2 \in Write /\ e2 \in Disk /\ e2.bits = e1.bits /\ e2.blk = e1.blk
          /\ e2.table[i] = v /\ \A x \in Ino : x # i => e2.table[x] = e1.table[x]
          /\ e2.table \in [Ino -> NodeSet]
      BY <1>12, <3>2, <3>3, <3>4, PutInode
    <3>6. e2.table = d.table
      <4>1. d.table \in [Ino -> NodeSet]
        BY <1>1, DiskParts
      <4>2. \A x \in Ino : e2.table[x] = d.table[x]
        BY <1>12, <3>2, <3>5
      <4> QED
        BY <3>5, <4>1, <4>2
    <3>7. PICK s : s = <<w1>> /\ s \in Seq(Write) /\ Chain(s, d, e1, Disk)
      BY <1>13, <1>14
    <3>8. s \o <<w2>> \in Seq(Write) /\ Chain(s \o <<w2>>, d, e2, Disk)
      BY <3>3, <3>5, <3>7, ChainOne
    <3>9. D.wr = s \o <<w2>>
      BY <1>7, <3>1, <3>7
    <3>10. s \o <<w2>> # <<>>
      BY <1>12, <3>5, <3>7
    <3> QED
      BY <1>12, <3>5, <3>6, <3>8, <3>9, <3>10
  <2> QED
    BY <2>1, <2>2
<1>16. ASSUME Places(open_inodes, i) = {}, NEW e, e.bits = bits, e.table = d.table
       PROVE  ListOK(D.list, e)
  <2>1. opened[1] \in OpenSet /\ opened = <<opened[1]>> \o open_inodes /\ opened[1] = Opened(i, d.table[i])
    BY <1>9, <1>16
  <2>2. opened[1].i_no = i /\ opened[1].i_open_cnts = 1
    BY <2>1 DEF Opened
  <2>3. PICK n \in Nat : n = Len(open_inodes) /\ Len(opened) = n + 1
    BY <1>1, <2>1, Prepended
  <2>4. \A m \in 2..(n + 1) : opened[m] = open_inodes[m - 1]
    BY <1>1, <2>1, <2>3, Prepended
  <2>5. D.list = RemoveAt(opened, 1)
    BY <1>7, <1>9, <1>16, <2>2 DEF inode_close
  <2>6. PICK new : new = D.list /\ new = RemoveAt(opened, 1)
    BY <2>5
  <2>7. Len(new) = n /\ \A m \in 1..n : new[m] = opened[m + 1]
    <3>1. opened \in Seq(OpenSet) /\ Len(opened) = n + 1 /\ new = RemoveAt(opened, 1)
      BY <1>9, <2>3, <2>6
    <3> QED
      BY <3>1, FirstRemoved
  <2>8. \A m \in 1..n : m + 1 \in 2..(n + 1) /\ (m + 1) - 1 = m
    OBVIOUS
  <2>11. \A m \in 1..n : new[m] = open_inodes[m]
    BY <2>4, <2>7, <2>8
  <2>12. \A m \in 1..n : open_inodes[m].i_no # i
    BY <1>16, <2>3 DEF Places
  <2>13. ListOK(new, e)
    BY <1>1, <1>2, <1>16, <2>3, <2>7, <2>11, <2>12 DEF ListOK
  <2> QED
    BY <2>6, <2>13
<1> QED
  BY <1>2, <1>7, <1>10, <1>15, <1>16

\* sys_delete_dir keeps it, once its last sector is written.
LEMMA DeleteDirInv ==
    ASSUME IInv, NEW path \in Path, sys_delete_dir(path)
    PROVE  IInv' /\ Turned
<1>1. PICK r : r = search_file(path)
  OBVIOUS
<1>2. PICK node : node = NodeOf(r.parent)
  OBVIOUS
<1>3. PICK slots : slots = Removable(node, Last(path))
  OBVIOUS
<1>4. PICK p : p = First(slots)
  OBVIOUS
<1>5. PICK b : b = node.blocks[p[1]]
  OBVIOUS
<1>6. PICK v : v = [block[b] EXCEPT ![p[2]] = Empty]
  OBVIOUS
<1>7. PICK D : D = dir_delete(r.i_no)
  OBVIOUS
<1>8. PICK w : w = WriteBlock(b, v)
  OBVIOUS
<1>9. PICK unlink : unlink = (IF slots = {} THEN <<>> ELSE <<w>>)
  OBVIOUS
<1>10. /\ Ready /\ r.f_type = "directory" /\ r.depth = Len(path)
       /\ inode_bitmap' = D.bits /\ open_inodes' = D.list
       /\ Return(D.wr \o unlink, TRUE)
       /\ tainted' = (slots = {} \/ Places(open_inodes, r.i_no) # {})
  BY <1>1, <1>2, <1>3, <1>4, <1>5, <1>6, <1>7, <1>8, <1>9 DEF sys_delete_dir, WholePath
<1>11. PICK L, d : Standing(L, d)
  BY <1>10, CallStart
<1>12. /\ d = Now /\ d \in Disk /\ Sound(L, d) /\ d.bits = inode_bitmap /\ d.blk = block
       /\ \A i \in Ino : NodeOf(i) = d.table[i]
  BY <1>11 DEF Standing
<1>13. PICK n \in Nat \ {0} : /\ n = Len(path) /\ path[n] \in Name /\ Last(path) = path[n]
                              /\ Reached(L, d, path, r, n)
  BY <1>1, <1>11 DEF Standing
<1>14. /\ r.parent \in L /\ Hit(d, r.parent, path[n], r.i_no, "directory")
       /\ Leads(d, path, n - 1, r.parent)
  BY <1>10, <1>13, Answer
<1>15. PICK u, i : /\ u \in L /\ u = r.parent /\ i = r.i_no /\ Hit(d, u, path[n], i, "directory")
                   /\ Leads(d, path, n - 1, u)
  BY <1>14
<1>16. i \in d.bits /\ i \in Ino /\ i # 0 /\ u \in Ino
  BY <1>12, <1>13, <1>15, HitNames
<1>17. node = d.table[u]
  BY <1>2, <1>12, <1>15, <1>16
<1>18. D = dir_delete(i)
  BY <1>7, <1>15
<1>19. /\ D.bits = d.bits \ {i} /\ D.list \in Seq(OpenSet)
       /\ D.wr \in Seq(Write) /\ D.wr # <<>>
       /\ \E e \in Disk : /\ Chain(D.wr, d, e, Disk)
                          /\ e.bits = d.bits \ {i} /\ e.table = d.table /\ e.blk = d.blk
       /\ Places(open_inodes, i) = {} =>
              \A e : e.bits = d.bits \ {i} /\ e.table = d.table => ListOK(D.list, e)
  BY <1>11, <1>16, <1>18, DirDeleted
<1>20. PICK e1 \in Disk : /\ Chain(D.wr, d, e1, Disk)
                          /\ e1.bits = d.bits \ {i} /\ e1.table = d.table /\ e1.blk = d.blk
  BY <1>19
<1>21. slots \subseteq Slots(d.table[u])
       /\ \A q \in slots : At(d.table[u], d.blk, q).filename = path[n]
  BY <1>3, <1>12, <1>13, <1>17 DEF Removable
<1>22. ASSUME slots # {} PROVE p \in Slots(d.table[u]) /\ At(d.table[u], d.blk, p).filename = path[n]
  <2>1. slots \subseteq Nat \X Nat
    BY <1>12, <1>16, <1>21, DiskParts, SlotPairs
  <2>2. p \in slots
    BY <1>4, <1>22, <2>1, FirstIn
  <2> QED
    BY <1>21, <2>2
<1>23. PICK wr : wr = D.wr \o unlink
  OBVIOUS
<1>24. PICK e : /\ wr \in Seq(Write) /\ wr # <<>> /\ Chain(wr, d, e, Disk)
                /\ e.bits = d.bits \ {i} /\ e.table = d.table
                /\ slots # {} => Cleared(d, u, p, e.blk)
  <2>1. CASE slots = {}
    <3>1. unlink = <<>>
      BY <1>9, <2>1
    <3>2. D.wr \o <<>> = D.wr
      BY <1>19
    <3> QED
      BY <1>19, <1>20, <1>23, <2>1, <3>1, <3>2
  <2>2. CASE slots # {}
    <3>1. unlink = <<w>>
      BY <1>9, <2>2
    <3>2. p \in Slots(e1.table[u])
      BY <1>20, <1>22, <2>2
    <3>3. b = e1.table[u].blocks[p[1]] /\ v = [e1.blk[b] EXCEPT ![p[2]] = Empty]
      BY <1>5, <1>6, <1>12, <1>17, <1>20, SMTT(30)
    <3>4. Rewrites(e1, u, p, Empty, w)
      BY <1>8, <3>3 DEF Swapped, Rewrites
    <3>5. /\ w \in Write /\ Put(e1, w) \in Disk
          /\ Put(e1, w).bits = e1.bits /\ Put(e1, w).table = e1.table
          /\ Cleared(e1, u, p, Put(e1, w).blk)
      BY <1>16, <1>20, <3>2, <3>4, PutCleared
    <3>6. PICK e2 : e2 = Put(e1, w)
      OBVIOUS
    <3>7. PICK s : s = D.wr /\ s \in Seq(Write) /\ s # <<>> /\ Chain(s, d, e1, Disk)
      BY <1>19, <1>20
    <3>8. s \o <<w>> \in Seq(Write) /\ Chain(s \o <<w>>, d, e2, Disk)
      BY <3>5, <3>6, <3>7, ChainOne
    <3>9. s \o <<w>> # <<>>
      BY <3>5, <3>7
    <3>10. Cleared(d, u, p, e2.blk)
      BY <1>20, <3>5, <3>6 DEF Cleared, Patched
    <3>11. wr = s \o <<w>>
      BY <1>23, <3>1, <3>7
    <3> QED
      BY <1>20, <3>5, <3>6, <3>8, <3>9, <3>10, <3>11
  <2> QED
    BY <2>1, <2>2
<1>25. PICK K : K = L \ {i}
  OBVIOUS
<1>26. ASSUME ~tainted'
       PROVE  e.bits = inode_bitmap' /\ Sound(K, e) /\ ListOK(open_inodes', e) /\ Moves(Now, e)
  <2>1. slots # {} /\ Places(open_inodes, i) = {}
    BY <1>10, <1>15, <1>26
  <2>2. ListOK(open_inodes', e)
    BY <1>10, <1>19, <1>24, <2>1
  <2>3. PICK q : q = First(search_dir_entry(d.table[u], d.blk, path[n]))
    OBVIOUS
  <2>4. Holds(L, d, u, q) /\ At(d.table[u], d.blk, q).filename = path[n]
        /\ At(d.table[u], d.blk, q).i_no = i
    BY <1>12, <1>13, <1>15, <2>3, HitPlace
  <2>5. Holds(L, d, u, p) /\ At(d.table[u], d.blk, p).filename = path[n]
    BY <1>13, <1>15, <1>22, <2>1 DEF Holds
  <2>6. p = q
    BY <1>12, <2>4, <2>5 DEF Sound
  <2>7. i = At(d.table[u], d.blk, p).i_no /\ Cleared(d, u, p, e.blk)
    BY <1>24, <2>1, <2>4, <2>6
  <2>8. \A x : x \in K <=> x \in L /\ x # i
    BY <1>25
  <2>9. \A x \in K : e.table[x] = d.table[x]
    BY <1>24
  <2>10. \A x \in d.bits : x # i => x \in e.bits /\ e.table[x].kind = d.table[x].kind
    BY <1>24
  <2>11. Sound(K, e)
    BY <1>12, <2>5, <2>7, <2>8, <2>9, <2>10, Without
  <2>12. Locates(L, d, path, u, p, i)
    BY <1>13, <1>15, <2>5, <2>7 DEF Locates
  <2>13. e \in Disk
    BY <1>24, ChainEnds
  <2>14. Drops(Kinds(d), path, Kinds(e))
    BY <1>12, <2>7, <2>8, <2>9, <2>11, <2>12, <2>13, WithoutDrops
  <2>15. Moves(Now, e)
    BY <1>12, <2>14 DEF Moves
  <2> QED
    BY <1>10, <1>19, <1>24, <2>2, <2>11, <2>15
<1>27. /\ inode_bitmap' \subseteq Ino /\ open_inodes' \in Seq(OpenSet) /\ tainted' \in BOOLEAN
       /\ TRUE \in BOOLEAN
  <2>1. d.bits \subseteq Ino
    BY <1>12, DiskParts
  <2>2. inode_bitmap' \subseteq Ino /\ open_inodes' \in Seq(OpenSet)
    BY <1>10, <1>19, <2>1
  <2> QED
    BY <1>10, <2>2
<1>28. Return(wr, TRUE) /\ Ready
  BY <1>10, <1>23
<1>29. wr \in Seq(Write) /\ wr # <<>> /\ Chain(wr, Now, e, Disk)
  BY <1>12, <1>24
<1>30. IInv'
  BY <1>26, <1>27, <1>28, <1>29, ReturnInv
<1>31. Turned
  BY <1>26, <1>27, <1>28, <1>29, ReturnTurned
<1> QED
  BY <1>30, <1>31

----------------------------------------------------------------------------
(* Creation.                                                               *)

\* e has what d has, and the entry g at place slot of u, whose inode is now
\* node; or it has no room for g.
Filed(L, d, u, g, slot, node, e) ==
    /\ \A x \in L : x # u => \A p \in Slots(d.table[x]) :
           At(d.table[x], e.blk, p) = At(d.table[x], d.blk, p)
    /\ \A p \in Slots(node) :
           \/ p \in Slots(d.table[u]) /\ At(node, e.blk, p) = At(d.table[u], d.blk, p)
           \/ p = slot /\ At(node, e.blk, p) = g
           \/ At(node, e.blk, p).filename \notin Name
    /\ \A p \in Slots(d.table[u]) : At(d.table[u], d.blk, p).filename \in Name =>
           p \in Slots(node) /\ At(node, e.blk, p) = At(d.table[u], d.blk, p)
    /\ \A j \in 1..Len(node.blocks) :
           \/ j \in 1..Len(d.table[u].blocks) /\ node.blocks[j] = d.table[u].blocks[j]
           \/ j = Len(d.table[u].blocks) + 1 /\ node.blocks[j] = Len(d.blk) + 1
    /\ \A j \in 1..Len(node.blocks) : node.blocks[j] \in 1..Len(e.blk)
    /\ \A b \in 1..Len(d.blk) : b \in 1..Len(e.blk)
    /\ Len(e.blk) - Len(d.blk) = Len(node.blocks) - Len(d.table[u].blocks)

\* The entry goes to a place that was empty.
LEMMA FiledInHole ==
    ASSUME NEW L, NEW d, d \in Disk, Sound(L, d), NEW u, u \in L, NEW slot, slot \in Slots(d.table[u]),
           At(d.table[u], d.blk, slot).filename \notin Name,
           NEW g, NEW e, Patched(d, u, slot, g, e.blk), Len(e.blk) = Len(d.blk)
    PROVE  Filed(L, d, u, g, slot, d.table[u], e)
<1>1. \A x \in L : x \in Ino
  BY DiskParts DEF Sound
<1>2. \A x \in L : \A p \in Slots(d.table[x]) :
          p[1] \in 1..Len(d.table[x].blocks) /\ p[2] \in 1..ENTRIES /\ p = <<p[1], p[2]>>
  BY <1>1, DiskParts, SlotPairs
<1>3. \A x \in L : \A j \in 1..Len(d.table[x].blocks) : d.table[x].blocks[j] \in 1..Len(d.blk)
  BY <1>1, DiskParts
<1>4. PICK b : b = d.table[u].blocks[slot[1]]
  OBVIOUS
<1>5. /\ \A c \in 1..Len(d.blk) : c # b => e.blk[c] = d.blk[c]
      /\ \A s \in 1..ENTRIES : e.blk[b][s] = IF s = slot[2] THEN g ELSE d.blk[b][s]
  BY <1>4 DEF Patched
<1>6. ASSUME NEW x \in L, NEW p \in Slots(d.table[x]), x # u \/ p # slot
      PROVE  At(d.table[x], e.blk, p) = At(d.table[x], d.blk, p)
  <2>1. Elsewhere(L, d, u, slot, e)
    BY PatchedElsewhere
  <2> QED
    BY <1>6, <2>1 DEF Elsewhere
<1>7. At(d.table[u], e.blk, slot) = g
  BY <1>2, <1>4, <1>5 DEF At
<1>8. Len(e.blk) - Len(d.blk) = 0 /\ Len(d.table[u].blocks) - Len(d.table[u].blocks) = 0
  <2>1. PICK n, m : n \in Nat /\ m \in Nat /\ n = Len(d.blk) /\ m = Len(d.table[u].blocks)
    BY <1>1, DiskParts
  <2> QED
    BY <2>1
<1>9. \A j \in 1..Len(d.table[u].blocks) : d.table[u].blocks[j] \in 1..Len(e.blk)
  BY <1>3
<1> QED
  BY <1>6, <1>7, <1>8, <1>9 DEF Filed

\* The entry goes to a new block.
LEMMA FiledInNewBlock ==
    ASSUME NEW L, NEW d, d \in Disk, Sound(L, d), NEW u, u \in L, NEW g, g \in EntrySet,
           NEW m, m \in Nat, m = Len(d.table[u].blocks), NEW n, n \in Nat, n = Len(d.blk),
           NEW node, node.blocks = Append(d.table[u].blocks, n + 1),
           NEW v, v \in Block, v[1] = g, \A s \in 1..ENTRIES : s # 1 => v[s] = Empty,
           NEW e, e.blk[n + 1] = v, \A c \in 1..n : e.blk[c] = d.blk[c], Len(e.blk) = n + 1
    PROVE  Filed(L, d, u, g, <<m + 1, 1>>, node, e)
<1>1. \A x \in L : x \in Ino
  BY DiskParts DEF Sound
<1>2. \A x \in L : \A p \in Slots(d.table[x]) :
          p[1] \in 1..Len(d.table[x].blocks) /\ p[2] \in 1..ENTRIES /\ p = <<p[1], p[2]>>
  BY <1>1, DiskParts, SlotPairs
<1>3. \A x \in L : \A j \in 1..Len(d.table[x].blocks) : d.table[x].blocks[j] \in 1..n
  BY <1>1, DiskParts
<1>4. /\ Len(node.blocks) = m + 1 /\ node.blocks[m + 1] = n + 1
      /\ \A j \in 1..m : node.blocks[j] = d.table[u].blocks[j]
  <2>1. PICK s : s = d.table[u].blocks /\ s \in Seq(Nat) /\ m = Len(s)
    BY <1>1, DiskParts
  <2>2. n + 1 \in Nat
    OBVIOUS
  <2>3. PICK k : k = n + 1 /\ k \in Nat
    BY <2>2
  <2>4. Len(Append(s, k)) = Len(s) + 1 /\ Append(s, k)[Len(s) + 1] = k
        /\ \A j \in 1..Len(s) : Append(s, k)[j] = s[j]
    BY <2>1, <2>3, AppendOne
  <2>5. node.blocks = Append(s, k)
    BY <2>1, <2>3
  <2> QED
    BY <2>1, <2>3, <2>4, <2>5
<1>5. ASSUME NEW x \in L, NEW p \in Slots(d.table[x])
      PROVE  At(d.table[x], e.blk, p) = At(d.table[x], d.blk, p)
  BY <1>2, <1>3 DEF At
<1>6. \A j \in 1..(m + 1) : j \in 1..m \/ j = m + 1
  OBVIOUS
<1>7. ASSUME NEW p \in Slots(node)
      PROVE  \/ p \in Slots(d.table[u]) /\ At(node, e.blk, p) = At(d.table[u], d.blk, p)
             \/ p = <<m + 1, 1>> /\ At(node, e.blk, p) = g
             \/ At(node, e.blk, p).filename \notin Name
  <2>0. Len(node.blocks) \in Nat
    BY <1>4
  <2>1. p[1] \in 1..(m + 1) /\ p[2] \in 1..ENTRIES /\ p = <<p[1], p[2]>>
    BY <1>4, <2>0, SlotPairs
  <2>2. CASE p[1] \in 1..m
    <3>1. p \in Slots(d.table[u])
      BY <2>1, <2>2 DEF Slots
    <3>2. At(node, e.blk, p) = At(d.table[u], e.blk, p)
      BY <1>4, <2>2 DEF At
    <3> QED
      BY <1>5, <3>1, <3>2
  <2>3. CASE p[1] = m + 1
    <3>1. At(node, e.blk, p) = v[p[2]]
      BY <1>4, <2>3 DEF At
    <3>2. CASE p[2] = 1
      BY <2>1, <2>3, <3>1, <3>2
    <3>3. CASE p[2] # 1
      BY <2>1, <3>1, <3>3, EntryTypes
    <3> QED
      BY <3>2, <3>3
  <2> QED
    BY <1>6, <2>1, <2>2, <2>3
<1>8. \A j \in 1..Len(node.blocks) : node.blocks[j] \in 1..Len(e.blk)
  <2>1. \A c \in 1..n : c \in 1..(n + 1)
    OBVIOUS
  <2>2. n + 1 \in 1..(n + 1)
    OBVIOUS
  <2> QED
    BY <1>3, <1>4, <1>6, <2>1, <2>2
<1>9. \A b \in 1..Len(d.blk) : b \in 1..Len(e.blk)
  OBVIOUS
<1>10. Len(e.blk) - Len(d.blk) = Len(node.blocks) - Len(d.table[u].blocks)
  <2>1. (n + 1) - n = (m + 1) - m
    OBVIOUS
  <2> QED
    BY <1>4, <2>1
<1>11. \A j \in 1..Len(node.blocks) :
           \/ j \in 1..Len(d.table[u].blocks) /\ node.blocks[j] = d.table[u].blocks[j]
           \/ j = Len(d.table[u].blocks) + 1 /\ node.blocks[j] = Len(d.blk) + 1
  BY <1>4, <1>6
<1>12. ASSUME NEW p \in Slots(d.table[u])
       PROVE  p \in Slots(node) /\ At(node, e.blk, p) = At(d.table[u], d.blk, p)
  <2>1. p[1] \in 1..m /\ p[2] \in 1..ENTRIES /\ p = <<p[1], p[2]>>
    BY <1>2
  <2>2. p[1] \in 1..(m + 1)
    BY <2>1
  <2>3. p \in Slots(node)
    BY <1>4, <2>1, <2>2 DEF Slots
  <2>4. At(node, e.blk, p) = At(d.table[u], e.blk, p)
    BY <1>4, <2>1 DEF At
  <2> QED
    BY <1>5, <2>3, <2>4
<1> QED
  BY <1>5, <1>7, <1>8, <1>9, <1>10, <1>11, <1>12 DEF Filed

\* There is no room: the entry is not written at all.
LEMMA NotFiled ==
    ASSUME NEW L, NEW d, d \in Disk, Sound(L, d), NEW u, u \in L, NEW g, NEW slot
    PROVE  Filed(L, d, u, g, slot, d.table[u], d)
<1>1. u \in Ino
  BY DiskParts DEF Sound
<1>2. PICK n, m : n \in Nat /\ m \in Nat /\ n = Len(d.blk) /\ m = Len(d.table[u].blocks)
  BY <1>1, DiskParts
<1>3. Len(d.blk) - Len(d.blk) = Len(d.table[u].blocks) - Len(d.table[u].blocks)
  BY <1>2
<1>4. \A j \in 1..Len(d.table[u].blocks) : d.table[u].blocks[j] \in 1..Len(d.blk)
  BY <1>1, DiskParts
<1> QED
  BY <1>3, <1>4 DEF Filed

\* sync_dir_entry: its writes, and what they do.
LEMMA SyncEntry ==
    ASSUME NEW L, NEW d, d \in Disk, d.blk = block, Sound(L, d), Chain(<<>>, d, d, Disk),
           NEW u, u \in L, NEW g, g \in EntrySet, NEW R, R = sync_dir_entry(d.table[u], g)
    PROVE  /\ R.wr \in Seq(Write) /\ R.node \in NodeSet /\ R.node.kind = "directory"
           /\ \E slot, e : /\ e \in Disk /\ Chain(R.wr, d, e, Disk)
                           /\ e.bits = d.bits /\ e.table = d.table
                           /\ Filed(L, d, u, g, slot, R.node, e)
<1>1. u \in Ino /\ d.table[u].kind = "directory"
  BY DiskParts DEF Sound
<1>2. d.table[u] \in NodeSet /\ d.table[u].blocks \in Seq(Nat)
  BY <1>1, DiskParts
<1>3. PICK free, slot, b : /\ free = FreeSlots(d.table[u]) /\ slot = First(free)
                           /\ b = d.table[u].blocks[slot[1]]
  OBVIOUS
<1>4. <<>> \in Seq(Write)
  OBVIOUS
<1>5. CASE free # {}
  <2>1. PICK v : v = [d.blk[b] EXCEPT ![slot[2]] = g]
    OBVIOUS
  <2>2. PICK w : w = WriteBlock(b, v)
    OBVIOUS
  <2>3. R.node = d.table[u] /\ R.wr = <<w>>
    BY <1>3, <1>5, <2>1, <2>2 DEF sync_dir_entry
  <2>4. free \subseteq Slots(d.table[u])
    BY <1>3 DEF FreeSlots
  <2>5. free \subseteq Nat \X Nat
    BY <1>1, <2>4, DiskParts, SlotPairs
  <2>6. slot \in Slots(d.table[u]) /\ slot \in free
    BY <1>3, <1>5, <2>4, <2>5, FirstIn, SMTT(30)
  <2>7. Rewrites(d, u, slot, g, w)
    BY <1>3, <2>1, <2>2 DEF Swapped, Rewrites
  <2>8. /\ w \in Write /\ Put(d, w) \in Disk
        /\ Put(d, w).bits = d.bits /\ Put(d, w).table = d.table
        /\ Len(Put(d, w).blk) = Len(d.blk) /\ Patched(d, u, slot, g, Put(d, w).blk)
    BY <1>1, <2>6, <2>7, PutEntry
  <2>9. PICK e : e = Put(d, w)
    OBVIOUS
  <2>10. Filed(L, d, u, g, slot, d.table[u], e)
    <3>1. At(d.table[u], d.blk, slot).f_type = "unknown"
      BY <1>3, <2>6 DEF FreeSlots
    <3>2. At(d.table[u], d.blk, slot).filename \notin Name
      BY <2>6, <3>1 DEF Sound, Holds, Names
    <3> QED
      BY <2>6, <2>8, <2>9, <3>2, FiledInHole
  <2>11. PICK s : s = <<>> /\ s \in Seq(Write) /\ Chain(s, d, d, Disk)
    BY <1>4
  <2>12. s \o <<w>> \in Seq(Write) /\ Chain(s \o <<w>>, d, e, Disk)
    BY <2>8, <2>9, <2>11, ChainOne
  <2>13. s \o <<w>> = <<w>>
    BY <2>8, <2>11
  <2> QED
    BY <1>1, <1>2, <2>3, <2>8, <2>9, <2>10, <2>12, <2>13
<1>6. CASE free = {} /\ Len(d.table[u].blocks) < DIR_BLOCKS
  <2>1. PICK m, n : m \in Nat /\ m = Len(d.table[u].blocks) /\ n \in Nat /\ n = Len(d.blk)
    BY <1>1, DiskParts
  <2>2. PICK v : v = [NoBlock EXCEPT ![1] = g]
    OBVIOUS
  <2>3. PICK w : w = WriteBlock(n + 1, v)
    OBVIOUS
  <2>4. PICK node : node = [d.table[u] EXCEPT !.blocks = Append(@, n + 1)]
    OBVIOUS
  <2>5. R.node = node /\ R.wr = <<w>>
    BY <1>3, <1>6, <2>1, <2>2, <2>3, <2>4 DEF sync_dir_entry
  <2>6. v \in Block /\ v[1] = g /\ \A s \in 1..ENTRIES : s # 1 => v[s] = Empty
    <3>1. PICK old, h : old = NoBlock /\ h = 1
      OBVIOUS
    <3>2. old \in Block /\ h \in 1..ENTRIES /\ Swapped(old, h, g, v)
      BY <2>2, <3>1, EmptyBlock, EntryTypes DEF Swapped
    <3>3. v \in Block /\ v[h] = g /\ \A s \in 1..ENTRIES : s # h => v[s] = old[s]
      BY <3>2, SlotWritten
    <3> QED
      BY <3>1, <3>3, EmptyBlock
  <2>7. PICK k : k = n + 1 /\ k \in Nat /\ w = WriteBlock(k, v) /\ k > n /\ ~(k <= n)
    BY <2>1, <2>3
  <2>8. PICK e : e = Put(d, w)
    OBVIOUS
  <2>9. UpToNext(d, k) /\ Wrote(d, k, v, w, e)
    BY <2>1, <2>7, <2>8 DEF UpToNext, Wrote
  <2>10. /\ w \in Write /\ e \in Disk /\ e.bits = d.bits /\ e.table = d.table
         /\ e.blk[k] = v /\ \A c \in 1..Len(d.blk) : c # k => e.blk[c] = d.blk[c]
         /\ k > Len(d.blk) => Len(e.blk) = Len(d.blk) + 1
    BY <2>6, <2>9, PutBlock
  <2>11. e.blk[n + 1] = v /\ Len(e.blk) = n + 1 /\ \A c \in 1..n : e.blk[c] = d.blk[c]
    <3>1. \A c \in 1..n : c # k
      BY <2>7
    <3> QED
      BY <2>1, <2>7, <2>10, <3>1
  <2>12. node \in NodeSet /\ node.kind = "directory" /\ node.blocks = Append(d.table[u].blocks, n + 1)
    <3>1. PICK blocks : blocks = Append(d.table[u].blocks, n + 1) /\ blocks \in Seq(Nat)
      <4>1. PICK k1, s1 : k1 = n + 1 /\ k1 \in Nat /\ s1 = d.table[u].blocks /\ s1 \in Seq(Nat)
        BY <1>2, <2>1
      <4>2. Append(s1, k1) \in Seq(Nat)
        BY <4>1, AppendOne
      <4> QED
        BY <4>1, <4>2
    <3>2. PICK old : old = d.table[u] /\ old \in [kind : Kind, blocks : Seq(Nat)] /\ old.kind = "directory"
      BY <1>1, <1>2 DEF NodeSet
    <3>3. node = [old EXCEPT !.blocks = blocks]
      BY <2>4, <3>1, <3>2
    <3>4. node = [kind |-> "directory", blocks |-> blocks]
      BY <3>2, <3>3
    <3> QED
      BY <3>1, <3>4 DEF NodeSet, Kind
  <2>13. Filed(L, d, u, g, <<m + 1, 1>>, node, e)
    BY <2>1, <2>6, <2>11, <2>12, FiledInNewBlock
  <2>14. PICK s : s = <<>> /\ s \in Seq(Write) /\ Chain(s, d, d, Disk)
    BY <1>4
  <2>15. s \o <<w>> \in Seq(Write) /\ Chain(s \o <<w>>, d, e, Disk)
    BY <2>8, <2>10, <2>14, ChainOne
  <2>16. s \o <<w>> = <<w>>
    BY <2>10, <2>14
  <2> QED
    BY <2>5, <2>10, <2>12, <2>13, <2>15, <2>16
<1>7. CASE free = {} /\ ~(Len(d.table[u].blocks) < DIR_BLOCKS)
  <2>1. R.node = d.table[u] /\ R.wr = <<>>
    BY <1>3, <1>7 DEF sync_dir_entry
  <2>2. Filed(L, d, u, g, slot, d.table[u], d)
    BY NotFiled
  <2> QED
    BY <1>1, <1>2, <1>4, <2>1, <2>2
<1> QED
  BY <1>5, <1>6, <1>7

\* The disk e after a creation: f has the entry, node is the parent's inode and
\* own the new one, a t with, if it is a directory, a block of its own.
Created(d, u, i, t, node, own, f, e) ==
    /\ e.bits = d.bits \cup {i}
    /\ e.table[u] = node /\ e.table[i] = own
    /\ \A x \in Ino : x # u /\ x # i => e.table[x] = d.table[x]
    /\ \A c \in 1..Len(f.blk) : e.blk[c] = f.blk[c]
    /\ own.kind = t
    /\ t = "directory" =>
           /\ Len(own.blocks) = 1 /\ own.blocks[1] = Len(f.blk) + 1
           /\ \A s \in 1..ENTRIES : e.blk[Len(f.blk) + 1][s].filename \notin Name

\* No block of the tree is in two places after a creation.
LEMMA CreatedApart ==
    ASSUME NEW L, NEW d, d \in Disk, Sound(L, d), NEW u, u \in L, NEW i, i \notin d.bits,
           NEW t, NEW g, NEW slot, NEW node, NEW own, NEW f, NEW e, f \in Disk,
           Filed(L, d, u, g, slot, node, f), Created(d, u, i, t, node, own, f, e),
           NEW K, \A x : x \in K <=> x \in L \/ (x = i /\ t = "directory")
    PROVE  Apart(K, e)
<1>1. \A x \in L : x \in Ino /\ x # i
  BY DiskParts DEF Sound
<1>2. PICK n, k : n \in Nat /\ k \in Nat /\ n = Len(d.blk) /\ k = Len(f.blk)
  BY DiskParts
<1>3. PICK m : m \in Nat /\ m = Len(d.table[u].blocks)
  BY <1>1, DiskParts
<1>4. \A x \in L : x # u => e.table[x] = d.table[x]
  BY <1>1 DEF Created
<1>5. e.table[u] = node /\ e.table[i] = own
  BY DEF Created
<1>6. \A x \in L : \A j \in 1..Len(d.table[x].blocks) : d.table[x].blocks[j] \in 1..n
  BY <1>1, <1>2, DiskParts
<1> DEFINE Old(x, j) == j \in 1..Len(d.table[x].blocks) /\ e.table[x].blocks[j] = d.table[x].blocks[j]
           New(x, j) == x = u /\ j = m + 1 /\ e.table[x].blocks[j] = n + 1
<1>7. \A x \in L : \A j \in 1..Len(e.table[x].blocks) : Old(x, j) \/ New(x, j)
  BY <1>2, <1>3, <1>4, <1>5 DEF Filed
<1>8. \A x \in L : \A j \in 1..Len(e.table[x].blocks) : e.table[x].blocks[j] \in 1..k
  <2>1. ASSUME NEW x \in L, x # u, NEW j \in 1..Len(e.table[x].blocks)
        PROVE  e.table[x].blocks[j] \in 1..k
    <3>1. e.table[x].blocks[j] \in 1..n
      BY <1>4, <1>6, <2>1
    <3> QED
      BY <1>2, <3>1 DEF Filed
  <2>2. \A j \in 1..Len(e.table[u].blocks) : e.table[u].blocks[j] \in 1..k
    BY <1>2, <1>5 DEF Filed
  <2> QED
    BY <2>1, <2>2
<1>9. ASSUME NEW x \in L, NEW y \in L, NEW j \in 1..Len(e.table[x].blocks),
             NEW l \in 1..Len(e.table[y].blocks), e.table[x].blocks[j] = e.table[y].blocks[l]
      PROVE  x = y /\ j = l
  <2>1. CASE Old(x, j) /\ Old(y, l)
    <3>1. d.table[x].blocks[j] = d.table[y].blocks[l]
      BY <1>9, <2>1
    <3> QED
      BY <2>1, <3>1, OnePlace
  <2>2. CASE Old(x, j) /\ New(y, l)
    <3>1. n + 1 \in 1..n
      BY <1>6, <1>9, <2>2
    <3> QED
      BY <1>2, <3>1
  <2>3. CASE New(x, j) /\ Old(y, l)
    <3>1. n + 1 \in 1..n
      BY <1>6, <1>9, <2>3
    <3> QED
      BY <1>2, <3>1
  <2>4. CASE New(x, j) /\ New(y, l)
    BY <2>4
  <2> QED
    BY <1>7, <2>1, <2>2, <2>3, <2>4
<1>10. ASSUME t = "directory"
       PROVE  \A j \in 1..Len(e.table[i].blocks) : j = 1 /\ e.table[i].blocks[j] = k + 1
  <2>1. Len(own.blocks) = 1 /\ own.blocks[1] = k + 1
    BY <1>2, <1>10 DEF Created
  <2>2. \A j \in 1..1 : j = 1
    OBVIOUS
  <2> QED
    BY <1>5, <2>1, <2>2
<1> HIDE DEF Old, New
<1>11. ASSUME NEW x \in K, NEW y \in K, NEW j \in 1..Len(e.table[x].blocks),
              NEW l \in 1..Len(e.table[y].blocks), e.table[x].blocks[j] = e.table[y].blocks[l]
       PROVE  x = y /\ j = l
  <2>1. CASE x \in L /\ y \in L
    BY <1>9, <1>11, <2>1
  <2>2. CASE x \in L /\ y \notin L
    <3>1. y = i /\ t = "directory"
      BY <2>2
    <3>2. k + 1 \in 1..k
      BY <1>8, <1>10, <1>11, <2>2, <3>1
    <3> QED
      BY <1>2, <3>2
  <2>3. CASE x \notin L /\ y \in L
    <3>1. x = i /\ t = "directory"
      BY <2>3
    <3>2. k + 1 \in 1..k
      BY <1>8, <1>10, <1>11, <2>3, <3>1
    <3> QED
      BY <1>2, <3>2
  <2>4. CASE x \notin L /\ y \notin L
    <3>1. x = i /\ y = i /\ t = "directory"
      BY <2>4
    <3> QED
      BY <1>10, <1>11, <3>1
  <2> QED
    BY <2>1, <2>2, <2>3, <2>4
<1> QED
  BY <1>11 DEF Apart

\* g is an entry for i, a t, with name n.
Labels(g, n, i, t) == g.filename = n /\ g.i_no = i /\ g.f_type = t

\* The tree after a creation is the tree before and the new inode.
LEMMA CreatedGrows ==
    ASSUME NEW L, NEW d, d \in Disk, Sound(L, d), NEW u, u \in L, NEW i, i \in Ino, i \notin d.bits,
           NEW t, t \in {"regular", "directory"}, NEW n, Miss(d, u, n),
           NEW slot, NEW node, node.kind = "directory", NEW own, NEW f, f \in Disk, NEW e,
           NEW g, Labels(g, n, i, t),
           Filed(L, d, u, g, slot, node, f), Created(d, u, i, t, node, own, f, e),
           NEW K, \A x : x \in K <=> x \in L \/ (x = i /\ t = "directory")
    PROVE  Grows(L, d, K, e, i, t, u, slot, g)
<1>1. \A x \in L : x \in Ino /\ x # i /\ x \in d.bits /\ d.table[x].kind = "directory"
  BY DiskParts DEF Sound
<1>2. Apart(K, e)
  BY CreatedApart
<1>3. e.bits = d.bits \cup {i} /\ e.table[i].kind = t /\ e.table[u] = node
      /\ \A x \in Ino : x # u /\ x # i => e.table[x] = d.table[x]
  BY DEF Created
<1>4. ASSUME NEW x \in d.bits PROVE e.table[x].kind = d.table[x].kind
  <2>1. x \in Ino /\ x # i
    BY DiskParts
  <2>2. CASE x = u
    BY <1>1, <1>3, <2>2
  <2>3. CASE x # u
    BY <1>3, <2>1, <2>3
  <2> QED
    BY <2>2, <2>3
<1>5. \A q \in Slots(d.table[u]) : At(d.table[u], d.blk, q).filename # n
  BY DEF Miss
<1>6. ASSUME NEW x, NEW q, Holds(K, e, x, q)
      PROVE  \/ Stays(L, d, e, x, q)
             \/ x = u /\ q = slot /\ At(e.table[x], e.blk, q) = g
  <2>1. x \in K /\ q \in Slots(e.table[x]) /\ At(e.table[x], e.blk, q).filename \in Name
    BY <1>6 DEF Holds
  <2>2. CASE x = u
    <3>1. q \in Slots(node) /\ At(node, e.blk, q).filename \in Name
      BY <1>3, <2>1, <2>2
    <3>2. q[1] \in 1..Len(node.blocks)
      BY <3>1 DEF Slots
    <3>3. node.blocks[q[1]] \in 1..Len(f.blk)
      BY <3>2 DEF Filed
    <3>4. At(node, e.blk, q) = At(node, f.blk, q)
      BY <3>3 DEF At, Created
    <3>5. \/ q \in Slots(d.table[u]) /\ At(node, f.blk, q) = At(d.table[u], d.blk, q)
          \/ q = slot /\ At(node, f.blk, q) = g
      BY <3>1, <3>4 DEF Filed
    <3>6. CASE q \in Slots(d.table[u]) /\ At(node, f.blk, q) = At(d.table[u], d.blk, q)
      BY <1>3, <2>2, <3>1, <3>4, <3>6 DEF Stays, Holds
    <3>7. CASE q = slot /\ At(node, f.blk, q) = g
      BY <1>3, <2>2, <3>4, <3>7
    <3> QED
      BY <3>5, <3>6, <3>7
  <2>3. CASE x # u /\ x \in L
    <3>1. e.table[x] = d.table[x]
      BY <1>1, <1>3, <2>3
    <3>2. q[1] \in 1..Len(d.table[x].blocks)
      BY <2>1, <3>1 DEF Slots
    <3>3. d.table[x].blocks[q[1]] \in 1..Len(d.blk)
      BY <1>1, <2>3, <3>2, DiskParts
    <3>4. d.table[x].blocks[q[1]] \in 1..Len(f.blk)
      BY <3>3 DEF Filed
    <3>5. At(d.table[x], e.blk, q) = At(d.table[x], f.blk, q)
      BY <3>4 DEF At, Created
    <3>6. At(d.table[x], f.blk, q) = At(d.table[x], d.blk, q)
      BY <2>1, <2>3, <3>1 DEF Filed
    <3> QED
      BY <2>1, <2>3, <3>1, <3>5, <3>6 DEF Stays, Holds
  <2>4. CASE x \notin L
    <3>1. x = i /\ t = "directory"
      BY <2>1, <2>4
    <3>2. q \in Slots(own) /\ At(own, e.blk, q).filename \in Name
      BY <2>1, <3>1 DEF Created
    <3>3. PICK k \in Nat : k = Len(f.blk)
      BY DiskParts
    <3>4. /\ Len(own.blocks) = 1 /\ own.blocks[1] = k + 1
          /\ \A s \in 1..ENTRIES : e.blk[k + 1][s].filename \notin Name
      BY <3>1, <3>3 DEF Created
    <3>5. q[1] \in 1..1 /\ q[2] \in 1..ENTRIES
      BY <3>2, <3>4 DEF Slots
    <3>6. q[1] = 1
      BY <3>5
    <3>7. At(own, e.blk, q) = e.blk[k + 1][q[2]]
      BY <3>4, <3>6 DEF At
    <3> QED
      BY <3>2, <3>4, <3>5, <3>7
  <2> QED
    BY <2>2, <2>3, <2>4
<1>7. \A x : x \in e.bits <=> x \in d.bits \/ x = i
  BY <1>3
<1>8. e.table[i].kind = t
  BY <1>3
<1> QED
  BY <1>2, <1>4, <1>5, <1>6, <1>7, <1>8 DEF Grows, Labels

\* A creation loses no entry.
LEMMA CreatedKeeps ==
    ASSUME NEW L, NEW d, d \in Disk, Sound(L, d), NEW u, u \in L, NEW i, i \in Ino, i \notin d.bits,
           NEW t, NEW slot, NEW node, NEW own, NEW f, f \in Disk, NEW e, NEW g,
           Filed(L, d, u, g, slot, node, f), Created(d, u, i, t, node, own, f, e),
           NEW K, \A x \in L : x \in K
    PROVE  Keeps(L, d, K, e)
<1>1. \A x \in L : x \in Ino /\ x # i
  BY DiskParts DEF Sound
<1>2. e.table[u] = node /\ \A x \in Ino : x # u /\ x # i => e.table[x] = d.table[x]
  BY DEF Created
<1> SUFFICES ASSUME NEW x, NEW q, Holds(L, d, x, q)
             PROVE  Holds(K, e, x, q) /\ At(e.table[x], e.blk, q) = At(d.table[x], d.blk, q)
  BY DEF Keeps
<1>3. x \in L /\ x \in K /\ q \in Slots(d.table[x]) /\ At(d.table[x], d.blk, q).filename \in Name
  BY DEF Holds
<1>4. CASE x = u
  <2>1. q \in Slots(node) /\ At(node, f.blk, q) = At(d.table[u], d.blk, q)
    BY <1>3, <1>4 DEF Filed
  <2>2. q[1] \in 1..Len(node.blocks)
    BY <2>1 DEF Slots
  <2>3. node.blocks[q[1]] \in 1..Len(f.blk)
    BY <2>2 DEF Filed
  <2>4. At(node, e.blk, q) = At(node, f.blk, q)
    BY <2>3 DEF At, Created
  <2> QED
    BY <1>2, <1>3, <1>4, <2>1, <2>4 DEF Holds
<1>5. CASE x # u
  <2>1. e.table[x] = d.table[x]
    BY <1>1, <1>2, <1>3, <1>5
  <2>2. q[1] \in 1..Len(d.table[x].blocks)
    BY <1>3 DEF Slots
  <2>3. d.table[x].blocks[q[1]] \in 1..Len(d.blk)
    BY <1>1, <1>3, <2>2, DiskParts
  <2>4. d.table[x].blocks[q[1]] \in 1..Len(f.blk)
    BY <2>3 DEF Filed
  <2>5. At(d.table[x], e.blk, q) = At(d.table[x], f.blk, q)
    BY <2>4 DEF At, Created
  <2>6. At(d.table[x], f.blk, q) = At(d.table[x], d.blk, q)
    BY <1>3, <1>5 DEF Filed
  <2> QED
    BY <1>3, <2>1, <2>5, <2>6 DEF Holds
<1> QED
  BY <1>4, <1>5

\* The open list after a creation: the parent's inode, if it is open, has its
\* new blocks.
LEMMA WithNodeOK ==
    ASSUME NEW list, list \in Seq(OpenSet), NEW d, ListOK(list, d), NEW u, u \in Ino,
           NEW node, node \in NodeSet, NEW new, new = WithNode(list, u, node), NEW e,
           \A x \in d.bits : x \in e.bits, e.table[u] = node,
           \A x \in d.bits : x # u => e.table[x] = d.table[x]
    PROVE  /\ new \in Seq(OpenSet) /\ ListOK(new, e) /\ Len(new) = Len(list)
           /\ \A k \in 1..Len(list) : new[k].i_no = list[k].i_no
<1>1. CASE Places(list, u) = {}
  <2>1. new = list
    BY <1>1 DEF WithNode
  <2>2. \A k \in 1..Len(list) : list[k].i_no # u
    BY <1>1 DEF Places
  <2>3. ListOK(list, e)
    BY <2>2 DEF ListOK
  <2> QED
    BY <2>1, <2>3
<1>2. CASE Places(list, u) # {}
  <2>1. PICK m : m = Min(Places(list, u)) /\ m \in 1..Len(list) /\ list[m].i_no = u
    BY <1>2, FirstPlace
  <2>2. PICK o : o = [list[m] EXCEPT !.node = node]
    OBVIOUS
  <2>3. new = [list EXCEPT ![m] = o]
    BY <1>2, <2>1, <2>2 DEF WithNode
  <2>4. o \in OpenSet /\ o.i_no = u /\ o.node = node
    <3>1. PICK q \in [i_no : Ino, node : NodeSet, i_open_cnts : Nat, fds : Nat] :
             q = list[m] /\ q.i_open_cnts >= q.fds /\ q.i_no = u
      BY <2>1 DEF OpenSet
    <3>2. o = [i_no |-> q.i_no, node |-> node, i_open_cnts |-> q.i_open_cnts, fds |-> q.fds]
      BY <2>2, <3>1
    <3> QED
      BY <3>1, <3>2 DEF OpenSet
  <2>5. /\ new \in Seq(OpenSet) /\ Len(new) = Len(list) /\ new[m] = o
        /\ \A k \in 1..Len(list) : k # m => new[k] = list[k]
    BY <2>1, <2>3, <2>4
  <2>6. \A k \in 1..Len(list) : new[k].i_no = list[k].i_no
    BY <2>1, <2>4, <2>5
  <2>7. ASSUME NEW k \in 1..Len(list)
        PROVE  new[k].i_no \in e.bits /\ new[k].node = e.table[new[k].i_no]
    <3>1. list[k].i_no \in d.bits /\ list[k].node = d.table[list[k].i_no]
      BY DEF ListOK
    <3>2. CASE k = m
      BY <2>1, <2>4, <2>5, <3>1, <3>2
    <3>3. CASE k # m
      <4>1. list[k].i_no # u
        BY <2>1, <3>3 DEF ListOK
      <4> QED
        BY <2>5, <3>1, <3>3, <4>1
    <3> QED
      BY <3>2, <3>3
  <2>8. ListOK(new, e)
    BY <2>5, <2>6, <2>7 DEF ListOK
  <2> QED
    BY <2>5, <2>6, <2>8
<1> QED
  BY <1>1, <1>2

\* A path that search_file looked for to the end and did not find.
LEMMA NewName ==
    ASSUME NEW L, NEW d, Standing(L, d), NEW path \in Path, NEW r, r = search_file(path),
           WholePath(r, path), r.i_no = -1
    PROVE  /\ r.parent \in L /\ Miss(d, r.parent, Last(path)) /\ Last(path) \in Name
           /\ Last(path) = path[Len(path)] /\ Leads(d, path, Len(path) - 1, r.parent)
<1>1. d \in Disk /\ Sound(L, d)
  BY DEF Standing
<1>2. PICK n \in Nat \ {0} : /\ n = Len(path) /\ path[n] \in Name /\ Last(path) = path[n]
                             /\ Reached(L, d, path, r, n)
  BY DEF Standing
<1>3. r.depth = n
  BY <1>2 DEF WholePath
<1>4. /\ r.parent \in L /\ Leads(d, path, n - 1, r.parent)
      /\ r.f_type = "directory" => Hit(d, r.parent, path[n], r.i_no, "directory")
      /\ r.f_type = "regular" => Hit(d, r.parent, path[n], r.i_no, "regular")
      /\ r.f_type \notin {"directory", "regular"} => Miss(d, r.parent, path[n])
  BY <1>2, <1>3, Answer
<1>5. \A t : ~Hit(d, r.parent, path[n], r.i_no, t)
  <2>1. ASSUME NEW t, NEW i, i = r.i_no, Hit(d, r.parent, path[n], i, t) PROVE FALSE
    <3>1. i # -1
      BY <1>1, <1>2, <1>4, <2>1, HitNames
    <3> QED
      BY <2>1, <3>1
  <2> QED
    BY <2>1
<1> QED
  BY <1>2, <1>4, <1>5

\* The inode inode_bitmap_alloc gives out.
LEMMA NewInode ==
    ASSUME FreeInodes # {}, NEW i, i = Min(FreeInodes)
    PROVE  i \in Ino /\ i \notin inode_bitmap
<1>1. FreeInodes \subseteq Nat
  BY EntryTypes DEF FreeInodes
<1>2. Min(FreeInodes) \in FreeInodes
  BY <1>1, LeastMember
<1> QED
  BY <1>2 DEF FreeInodes

\* The list of open inodes after a creation.
LEMMA NewList ==
    ASSUME NEW L, NEW d, Standing(L, d), NEW u, u \in L, NEW i, i \in Ino, i \notin d.bits,
           NEW t, NEW node, node \in NodeSet, NEW own, own \in NodeSet, NEW f, NEW e,
           Created(d, u, i, t, node, own, f, e)
    PROVE  LET new == <<[Opened(i, own) EXCEPT !.fds = 1]>> \o WithNode(open_inodes, u, node)
           IN  new \in Seq(OpenSet) /\ ListOK(new, e)
<1>1. d \in Disk /\ Sound(L, d) /\ ListOK(open_inodes, d) /\ open_inodes \in Seq(OpenSet)
  BY DEF Standing
<1>2. u \in Ino /\ u \in d.bits
  BY <1>1, DiskParts DEF Sound
<1>3. /\ \A x \in d.bits : x \in e.bits
      /\ i \in e.bits /\ e.table[i] = own /\ e.table[u] = node
      /\ \A x \in d.bits : x # u => e.table[x] = d.table[x]
  <2>1. \A x \in d.bits : x \in Ino /\ x # i
    BY <1>1, DiskParts
  <2> QED
    BY <2>1 DEF Created
<1>4. PICK list : list = WithNode(open_inodes, u, node)
  OBVIOUS
<1>5. /\ list \in Seq(OpenSet) /\ ListOK(list, e) /\ Len(list) = Len(open_inodes)
      /\ \A k \in 1..Len(open_inodes) : list[k].i_no = open_inodes[k].i_no
  BY <1>1, <1>2, <1>3, <1>4, WithNodeOK
<1>6. PICK o : o = [Opened(i, own) EXCEPT !.fds = 1]
  OBVIOUS
<1>7. o \in OpenSet /\ o.i_no = i /\ o.node = own
  <2>1. o = [i_no |-> i, node |-> own, i_open_cnts |-> 1, fds |-> 1]
    BY <1>6 DEF Opened
  <2> QED
    BY <2>1 DEF OpenSet
<1>8. \A k \in 1..Len(list) : list[k].i_no # i
  BY <1>1, <1>5 DEF ListOK
<1>9. o.i_no \in e.bits /\ o.node = e.table[o.i_no] /\ \A k \in 1..Len(list) : list[k].i_no # o.i_no
  BY <1>3, <1>7, <1>8
<1>10. <<o>> \o list \in Seq(OpenSet)
  BY <1>5, <1>7, Prepended
<1>11. ListOK(<<o>> \o list, e)
  BY <1>5, <1>7, <1>9, PrependedOK
<1> QED
  BY <1>4, <1>6, <1>10, <1>11

\* sys_open of a new file keeps it, once its last sector is written.
LEMMA FileCreateInv ==
    ASSUME IInv, NEW path \in Path, file_create(path)
    PROVE  IInv' /\ Turned
<1>1. PICK r : r = search_file(path)
  OBVIOUS
<1>2. PICK i : i = Min(FreeInodes)
  OBVIOUS
<1>3. PICK g : g = Entry(Last(path), i, "regular")
  OBVIOUS
<1>4. PICK R : R = sync_dir_entry(NodeOf(r.parent), g)
  OBVIOUS
<1>5. PICK bits : bits = inode_bitmap \cup {i}
  OBVIOUS
<1>6. PICK own : own = Node("regular", <<>>)
  OBVIOUS
<1>7. PICK w1, w2, w3 : /\ w1 = SyncInode(r.parent, R.node) /\ w2 = SyncInode(i, own)
                        /\ w3 = SyncBits(bits)
  OBVIOUS
<1>8. /\ Ready /\ FreeInodes # {} /\ WholePath(r, path) /\ r.i_no = -1
      /\ inode_bitmap' = bits /\ UNCHANGED tainted
      /\ open_inodes' = <<[Opened(i, own) EXCEPT !.fds = 1]>> \o WithNode(open_inodes, r.parent, R.node)
      /\ Return(R.wr \o <<w1, w2, w3>>, TRUE)
  BY <1>1, <1>2, <1>3, <1>4, <1>5, <1>6, <1>7 DEF file_create, inode_bitmap_alloc
<1>9. PICK L, d : Standing(L, d)
  BY <1>8, CallStart
<1>10. /\ d = Now /\ d \in Disk /\ Sound(L, d) /\ d.bits = inode_bitmap /\ d.blk = block
       /\ Chain(<<>>, d, d, Disk) /\ \A x \in Ino : NodeOf(x) = d.table[x]
  BY <1>9 DEF Standing
<1>11. PICK u, n : /\ u = r.parent /\ n = Last(path)
                   /\ u \in L /\ Miss(d, u, n) /\ n \in Name
                   /\ n = path[Len(path)] /\ Leads(d, path, Len(path) - 1, u)
  BY <1>1, <1>8, <1>9, NewName
<1>12. i \in Ino /\ i \notin d.bits
  BY <1>2, <1>8, <1>10, NewInode
<1>13. u \in Ino /\ u \in d.bits /\ u # i
  BY <1>10, <1>11, <1>12, DiskParts DEF Sound
<1>14. R = sync_dir_entry(d.table[u], g)
  BY <1>4, <1>10, <1>11, <1>13
<1>15. g \in EntrySet /\ g.filename = n /\ g.i_no = i /\ g.f_type = "regular"
  <2>1. "regular" \in Kind /\ n \in Name \cup {"", ".", ".."}
    BY <1>11 DEF Kind
  <2> QED
    BY <1>3, <1>11, <1>12, <2>1, EntryTypes DEF Entry
<1>16. /\ R.wr \in Seq(Write) /\ R.node \in NodeSet /\ R.node.kind = "directory"
       /\ \E slot, e : /\ e \in Disk /\ Chain(R.wr, d, e, Disk)
                       /\ e.bits = d.bits /\ e.table = d.table
                       /\ Filed(L, d, u, g, slot, R.node, e)
  BY <1>10, <1>11, <1>14, <1>15, SyncEntry
<1>17. PICK slot, f : /\ f \in Disk /\ Chain(R.wr, d, f, Disk)
                      /\ f.bits = d.bits /\ f.table = d.table
                      /\ Filed(L, d, u, g, slot, R.node, f)
  BY <1>16
<1>18. PICK s, node : /\ s = R.wr /\ node = R.node /\ s \in Seq(Write) /\ node \in NodeSet
                      /\ node.kind = "directory" /\ Chain(s, d, f, Disk)
                      /\ Filed(L, d, u, g, slot, node, f)
  BY <1>16, <1>17
<1>19. own \in NodeSet /\ own.kind = "regular" /\ own.blocks = <<>>
  BY <1>6, EntryTypes DEF Node, Kind
<1>20. PICK e1 : e1 = Put(f, w1)
  OBVIOUS
<1>21. /\ w1 \in Write /\ e1 \in Disk /\ e1.bits = f.bits /\ e1.blk = f.blk
       /\ e1.table[u] = node /\ \A x \in Ino : x # u => e1.table[x] = f.table[x]
  <2>1. w1 = SyncInode(u, node)
    BY <1>7, <1>11, <1>18
  <2>2. \A j \in 1..Len(node.blocks) : node.blocks[j] \in 1..Len(f.blk)
    BY <1>18 DEF Filed
  <2>3. u \in Ino /\ f \in Disk /\ node \in NodeSet
    BY <1>13, <1>17, <1>18
  <2> QED
    BY <1>20, <2>1, <2>2, <2>3, PutInode
<1>22. PICK e2 : e2 = Put(e1, w2)
  OBVIOUS
<1>23. /\ w2 \in Write /\ e2 \in Disk /\ e2.bits = e1.bits /\ e2.blk = e1.blk
       /\ e2.table[i] = own /\ \A x \in Ino : x # i => e2.table[x] = e1.table[x]
  <2>1. w2 = SyncInode(i, own)
    BY <1>7
  <2>2. Len(own.blocks) = 0
    BY <1>19
  <2>3. \A j \in 1..Len(own.blocks) : own.blocks[j] \in 1..Len(e1.blk)
    BY <2>2
  <2> QED
    BY <1>12, <1>19, <1>21, <1>22, <2>1, <2>3, PutInode
<1>24. PICK e : e = Put(e2, w3)
  OBVIOUS
<1>25. w3 \in Write /\ e \in Disk /\ e.bits = bits /\ e.table = e2.table /\ e.blk = e2.blk
  <2>1. bits \in SUBSET Ino
    BY <1>5, <1>10, <1>12, DiskParts
  <2>2. w3 = SyncBits(bits)
    BY <1>7
  <2> QED
    BY <1>23, <1>24, <2>1, <2>2, PutBits
<1>26. Created(d, u, i, "regular", node, own, f, e)
  <2>1. e.bits = d.bits \cup {i}
    BY <1>5, <1>10, <1>25
  <2>2. e.table[u] = node /\ e.table[i] = own
    BY <1>13, <1>21, <1>23, <1>25
  <2>3. \A x \in Ino : x # u /\ x # i => e.table[x] = d.table[x]
    BY <1>17, <1>21, <1>23, <1>25
  <2>4. \A c \in 1..Len(f.blk) : e.blk[c] = f.blk[c]
    BY <1>21, <1>23, <1>25
  <2> QED
    BY <1>19, <2>1, <2>2, <2>3, <2>4 DEF Created
<1>27. Sound(L, e) /\ Grows(L, d, L, e, i, "regular", u, slot, g)
  <2>1. PICK t : t = "regular" /\ t \in {"regular", "directory"} /\ t # "directory"
    OBVIOUS
  <2>2. Created(d, u, i, t, node, own, f, e) /\ g.f_type = t
    BY <1>15, <1>26, <2>1
  <2>3. \A x : x \in L <=> x \in L \/ (x = i /\ t = "directory")
    BY <2>1
  <2>4. Labels(g, n, i, t)
    BY <1>15, <2>1 DEF Labels
  <2>5. Grows(L, d, L, e, i, t, u, slot, g)
    BY <1>10, <1>11, <1>12, <1>15, <1>17, <1>18, <2>1, <2>2, <2>3, <2>4, CreatedGrows
  <2>6. Sound(L, e)
    BY <1>10, <2>5, Grown
  <2> QED
    BY <2>1, <2>5, <2>6
<1>28. open_inodes' \in Seq(OpenSet) /\ ListOK(open_inodes', e)
  BY <1>8, <1>9, <1>11, <1>12, <1>18, <1>19, <1>26, NewList
<1>29. PICK wr : wr = s \o <<w1, w2, w3>>
  OBVIOUS
<1>30. wr \in Seq(Write) /\ Chain(wr, d, e, Disk)
  BY <1>18, <1>20, <1>21, <1>22, <1>23, <1>24, <1>25, <1>29, ChainThree
<1>31. wr # <<>>
  BY <1>18, <1>21, <1>23, <1>25, <1>29
<1>32. inode_bitmap' \subseteq Ino /\ tainted' \in BOOLEAN /\ TRUE \in BOOLEAN /\ e.bits = inode_bitmap'
  <2>1. e.bits \subseteq Ino
    BY <1>25, DiskParts
  <2> QED
    BY <1>8, <1>25, <2>1 DEF IInv, Typed
<1>33. Return(wr, TRUE) /\ Ready /\ Chain(wr, Now, e, Disk)
  BY <1>8, <1>10, <1>18, <1>29, <1>30
<1>34. IInv'
  BY <1>27, <1>28, <1>30, <1>31, <1>32, <1>33, ReturnInv
<1>35. Moves(d, e)
  <2>1. Keeps(L, d, L, e)
    BY <1>10, <1>11, <1>12, <1>17, <1>18, <1>26, CreatedKeeps
  <2>2. PICK t : t = "regular"
    OBVIOUS
  <2>3. Grows(L, d, L, e, i, t, u, slot, g) /\ g.filename = path[Len(path)]
    BY <1>11, <1>15, <1>27, <2>2
  <2> QED
    BY <1>10, <1>11, <1>25, <1>27, <2>1, <2>3, GrownMoves
<1>36. Turned
  BY <1>10, <1>32, <1>33, <1>35, ReturnTurned
<1> QED
  BY <1>34, <1>36

\* mkdir keeps it, once its last sector is written.
LEMMA DirCreateInv ==
    ASSUME IInv, NEW path \in Path, dir_create(path)
    PROVE  IInv' /\ Turned
<1>1. PICK r : r = search_file(path)
  OBVIOUS
<1>2. PICK i : i = Min(FreeInodes)
  OBVIOUS
<1>3. PICK g : g = Entry(Last(path), i, "directory")
  OBVIOUS
<1>4. PICK R : R = sync_dir_entry(NodeOf(r.parent), g)
  OBVIOUS
<1>5. PICK bits : bits = inode_bitmap \cup {i}
  OBVIOUS
<1>6. PICK b : b = Len(block) + 1 + Len(R.node.blocks) - Len(NodeOf(r.parent).blocks)
  OBVIOUS
<1>7. PICK own : own = Node("directory", <<b>>)
  OBVIOUS
<1>8. PICK dots : dots = DotBlock(i, r.parent)
  OBVIOUS
<1>9. PICK w1, w2, w3, w4 : /\ w1 = SyncInode(r.parent, R.node) /\ w2 = WriteBlock(b, dots)
                            /\ w3 = SyncInode(i, own) /\ w4 = SyncBits(bits)
  OBVIOUS
<1>10. /\ Ready /\ FreeInodes # {} /\ WholePath(r, path) /\ r.i_no = -1
       /\ inode_bitmap' = bits /\ UNCHANGED tainted
       /\ open_inodes' = <<[Opened(i, own) EXCEPT !.fds = 1]>> \o WithNode(open_inodes, r.parent, R.node)
       /\ Return(R.wr \o <<w1, w2, w3, w4>>, TRUE)
  BY <1>1, <1>2, <1>3, <1>4, <1>5, <1>6, <1>7, <1>8, <1>9 DEF dir_create, inode_bitmap_alloc
<1>11. PICK L, d : Standing(L, d)
  BY <1>10, CallStart
<1>12. /\ d = Now /\ d \in Disk /\ Sound(L, d) /\ d.bits = inode_bitmap /\ d.blk = block
       /\ Chain(<<>>, d, d, Disk) /\ \A x \in Ino : NodeOf(x) = d.table[x]
  BY <1>11 DEF Standing
<1>13. PICK u, n : /\ u = r.parent /\ n = Last(path)
                   /\ u \in L /\ Miss(d, u, n) /\ n \in Name
                   /\ n = path[Len(path)] /\ Leads(d, path, Len(path) - 1, u)
  BY <1>1, <1>10, <1>11, NewName
<1>14. i \in Ino /\ i \notin d.bits
  BY <1>2, <1>10, <1>12, NewInode
<1>15. u \in Ino /\ u \in d.bits /\ u # i
  BY <1>12, <1>13, <1>14, DiskParts DEF Sound
<1>16. R = sync_dir_entry(d.table[u], g)
  BY <1>4, <1>12, <1>13, <1>15
<1>17. g \in EntrySet /\ g.filename = n /\ g.i_no = i /\ g.f_type = "directory"
  <2>1. "directory" \in Kind /\ n \in Name \cup {"", ".", ".."}
    BY <1>13 DEF Kind
  <2> QED
    BY <1>3, <1>13, <1>14, <2>1, EntryTypes DEF Entry
<1>18. /\ R.wr \in Seq(Write) /\ R.node \in NodeSet /\ R.node.kind = "directory"
       /\ \E slot, e : /\ e \in Disk /\ Chain(R.wr, d, e, Disk)
                       /\ e.bits = d.bits /\ e.table = d.table
                       /\ Filed(L, d, u, g, slot, R.node, e)
  BY <1>12, <1>13, <1>16, <1>17, SyncEntry
<1>19. PICK slot, f : /\ f \in Disk /\ Chain(R.wr, d, f, Disk)
                      /\ f.bits = d.bits /\ f.table = d.table
                      /\ Filed(L, d, u, g, slot, R.node, f)
  BY <1>18
<1>20. PICK s, node : /\ s = R.wr /\ node = R.node /\ s \in Seq(Write) /\ node \in NodeSet
                      /\ node.kind = "directory" /\ Chain(s, d, f, Disk)
                      /\ Filed(L, d, u, g, slot, node, f)
  BY <1>18, <1>19
<1>21. PICK k \in Nat : k = Len(f.blk)
  BY <1>19, DiskParts
<1>22. b = k + 1
  <2>1. PICK m1 \in Nat : m1 = Len(d.blk)
    BY <1>12, DiskParts
  <2>2. PICK m2 \in Nat : m2 = Len(d.table[u].blocks)
    BY <1>12, <1>15, DiskParts
  <2>3. node.blocks \in Seq(Nat)
    BY <1>20 DEF NodeSet
  <2>4. PICK m3 \in Nat : m3 = Len(node.blocks)
    BY <2>3
  <2>5. k - m1 = m3 - m2
    BY <1>20, <1>21, <2>1, <2>2, <2>4 DEF Filed
  <2>6. b = m1 + 1 + m3 - m2
    BY <1>6, <1>12, <1>13, <1>15, <1>20, <2>1, <2>2, <2>4
  <2> QED
    BY <2>5, <2>6
<1>23. /\ own \in NodeSet /\ own.kind = "directory" /\ Len(own.blocks) = 1 /\ own.blocks[1] = k + 1
       /\ \A j \in 1..Len(own.blocks) : own.blocks[j] = k + 1
  <2>1. own = [kind |-> "directory", blocks |-> <<k + 1>>]
    BY <1>7, <1>22 DEF Node
  <2>2. <<k + 1>> \in Seq(Nat)
    OBVIOUS
  <2> QED
    BY <2>1, <2>2 DEF NodeSet, Kind
<1>24. dots \in Block /\ \A x \in 1..ENTRIES : dots[x].filename \notin Name
  BY <1>8, <1>13, <1>14, <1>15, DotBlockFacts
<1>25. PICK e1 : e1 = Put(f, w1)
  OBVIOUS
<1>26. /\ w1 \in Write /\ e1 \in Disk /\ e1.bits = f.bits /\ e1.blk = f.blk
       /\ e1.table[u] = node /\ \A x \in Ino : x # u => e1.table[x] = f.table[x]
  <2>1. w1 = SyncInode(u, node)
    BY <1>9, <1>13, <1>20
  <2>2. \A j \in 1..Len(node.blocks) : node.blocks[j] \in 1..Len(f.blk)
    BY <1>20 DEF Filed
  <2>3. u \in Ino /\ f \in Disk /\ node \in NodeSet
    BY <1>15, <1>19, <1>20
  <2> QED
    BY <1>25, <2>1, <2>2, <2>3, PutInode
<1>27. PICK e2 : e2 = Put(e1, w2)
  OBVIOUS
<1>28. /\ w2 \in Write /\ e2 \in Disk /\ e2.bits = e1.bits /\ e2.table = e1.table
       /\ e2.blk[k + 1] = dots /\ \A c \in 1..k : e2.blk[c] = f.blk[c]
       /\ Len(e2.blk) = k + 1
  <2>1. UpToNext(e1, b) /\ Wrote(e1, b, dots, w2, e2)
    BY <1>9, <1>21, <1>22, <1>26, <1>27 DEF UpToNext, Wrote
  <2>2. /\ w2 \in Write /\ e2 \in Disk /\ e2.bits = e1.bits /\ e2.table = e1.table
        /\ e2.blk[b] = dots /\ \A c \in 1..Len(e1.blk) : c # b => e2.blk[c] = e1.blk[c]
        /\ b > Len(e1.blk) => Len(e2.blk) = Len(e1.blk) + 1
    BY <1>24, <1>26, <2>1, PutBlock
  <2>3. b > k /\ \A c \in 1..k : c # b
    BY <1>22
  <2>4. Len(e1.blk) = k
    BY <1>21, <1>26
  <2> QED
    BY <1>22, <1>26, <2>2, <2>3, <2>4
<1>29. PICK e3 : e3 = Put(e2, w3)
  OBVIOUS
<1>30. /\ w3 \in Write /\ e3 \in Disk /\ e3.bits = e2.bits /\ e3.blk = e2.blk
       /\ e3.table[i] = own /\ \A x \in Ino : x # i => e3.table[x] = e2.table[x]
  <2>1. w3 = SyncInode(i, own)
    BY <1>9
  <2>2. k + 1 \in 1..(k + 1)
    OBVIOUS
  <2>3. \A j \in 1..Len(own.blocks) : own.blocks[j] \in 1..Len(e2.blk)
    BY <1>23, <1>28, <2>2
  <2> QED
    BY <1>14, <1>23, <1>28, <1>29, <2>1, <2>3, PutInode
<1>31. PICK e : e = Put(e3, w4)
  OBVIOUS
<1>32. w4 \in Write /\ e \in Disk /\ e.bits = bits /\ e.table = e3.table /\ e.blk = e3.blk
  <2>1. bits \in SUBSET Ino
    BY <1>5, <1>12, <1>14, DiskParts
  <2>2. w4 = SyncBits(bits)
    BY <1>9
  <2> QED
    BY <1>30, <1>31, <2>1, <2>2, PutBits
<1>33. Created(d, u, i, "directory", node, own, f, e)
  <2>1. e.bits = d.bits \cup {i}
    BY <1>5, <1>12, <1>32
  <2>2. e.table[u] = node /\ e.table[i] = own
    BY <1>15, <1>26, <1>28, <1>30, <1>32
  <2>3. \A x \in Ino : x # u /\ x # i => e.table[x] = d.table[x]
    BY <1>19, <1>26, <1>28, <1>30, <1>32
  <2>4. \A c \in 1..Len(f.blk) : e.blk[c] = f.blk[c]
    BY <1>21, <1>28, <1>30, <1>32
  <2>5. \A x \in 1..ENTRIES : e.blk[Len(f.blk) + 1][x].filename \notin Name
    BY <1>21, <1>24, <1>28, <1>30, <1>32
  <2>6. own.blocks[1] = Len(f.blk) + 1
    BY <1>21, <1>23
  <2> QED
    BY <1>23, <2>1, <2>2, <2>3, <2>4, <2>5, <2>6 DEF Created
<1>34. PICK K : K = L \cup {i}
  OBVIOUS
<1>35. Sound(K, e) /\ Grows(L, d, K, e, i, "directory", u, slot, g)
  <2>1. PICK t : t = "directory" /\ t \in {"regular", "directory"}
    OBVIOUS
  <2>2. Created(d, u, i, t, node, own, f, e) /\ g.f_type = t
    BY <1>17, <1>33, <2>1
  <2>3. \A x : x \in K <=> x \in L \/ (x = i /\ t = "directory")
    BY <1>34, <2>1
  <2>4. Labels(g, n, i, t)
    BY <1>17, <2>1 DEF Labels
  <2>5. Grows(L, d, K, e, i, t, u, slot, g)
    BY <1>12, <1>13, <1>14, <1>17, <1>19, <1>20, <2>1, <2>2, <2>3, <2>4, CreatedGrows
  <2>6. Sound(K, e)
    BY <1>12, <2>5, Grown
  <2> QED
    BY <2>1, <2>5, <2>6
<1>36. open_inodes' \in Seq(OpenSet) /\ ListOK(open_inodes', e)
  BY <1>10, <1>11, <1>13, <1>14, <1>20, <1>23, <1>33, NewList
<1>37. PICK wr : wr = s \o <<w1, w2, w3, w4>>
  OBVIOUS
<1>38. wr \in Seq(Write) /\ Chain(wr, d, e, Disk)
  BY <1>20, <1>25, <1>26, <1>27, <1>28, <1>29, <1>30, <1>31, <1>32, <1>37, ChainFour
<1>39. wr # <<>>
  BY <1>20, <1>26, <1>28, <1>30, <1>32, <1>37
<1>40. inode_bitmap' \subseteq Ino /\ tainted' \in BOOLEAN /\ TRUE \in BOOLEAN /\ e.bits = inode_bitmap'
  <2>1. e.bits \subseteq Ino
    BY <1>32, DiskParts
  <2> QED
    BY <1>10, <1>32, <2>1 DEF IInv, Typed
<1>41. Return(wr, TRUE) /\ Ready /\ Chain(wr, Now, e, Disk)
  BY <1>10, <1>12, <1>20, <1>37, <1>38
<1>42. IInv'
  BY <1>35, <1>36, <1>38, <1>39, <1>40, <1>41, ReturnInv
<1>43. Moves(d, e)
  <2>1. \A x \in L : x \in K
    BY <1>34
  <2>2. Keeps(L, d, K, e)
    BY <1>12, <1>13, <1>14, <1>19, <1>20, <1>33, <2>1, CreatedKeeps
  <2>3. PICK t : t = "directory"
    OBVIOUS
  <2>4. Grows(L, d, K, e, i, t, u, slot, g) /\ g.filename = path[Len(path)]
    BY <1>13, <1>17, <1>35, <2>3
  <2> QED
    BY <1>12, <1>13, <1>32, <1>35, <2>2, <2>4, GrownMoves
<1>44. Turned
  BY <1>12, <1>40, <1>41, <1>43, ReturnTurned
<1> QED
  BY <1>42, <1>44

----------------------------------------------------------------------------
(* The tree of names that a caller sees.                                   *)

\* tree is what Observe records; as long as a power cut does no harm it leaves
\* the tree as it was before the call or as it will be: at every sector from
\* here to the end of the call, or now.
Watched ==
    /\ tree = KindsIn(open_inodes, Now, pending)
    /\ ~tainted /\ exposed = "no" => \E e : Chain(pending, Now, e, Showing({before, tree}))
    /\ ~tainted /\ exposed = "soon" => Kinds(Now) \in {before, tree}

\* A step of ImplementsTree.
Refined ==
    ~tainted' => IF crashes' = crashes THEN Tree!Next \/ UNCHANGED tree ELSE tree' \in {tree, before}

\* Below of a tree of names.
LEMMA BelowUnder ==
    ASSUME NEW path \in Path
    PROVE  Tree!Below(path) = {q \in Path : Under(path, q)}
<1>1. path \in Seq(Name) /\ Len(path) \in Nat \ {0}
  BY PathParts
<1>2. ASSUME NEW q \in Path
      PROVE  Len(q) >= Len(path) /\ SubSeq(q, 1, Len(path)) = path <=> Under(path, q)
  <2>1. q \in Seq(Name) /\ Len(q) \in Nat \ {0}
    BY PathParts
  <2>2. ASSUME Len(q) >= Len(path)
        PROVE  SubSeq(q, 1, Len(path)) = path <=> \A j \in 1..Len(path) : q[j] = path[j]
    <3>1. PICK s : s = SubSeq(q, 1, Len(path))
      OBVIOUS
    <3>2. s \in Seq(Name) /\ Len(s) = Len(path) /\ \A j \in 1..Len(path) : s[j] = q[j]
      BY <1>1, <2>1, <2>2, <3>1
    <3>3. s = path <=> \A j \in 1..Len(path) : s[j] = path[j]
      BY <1>1, <3>2
    <3> QED
      BY <3>1, <3>2, <3>3
  <2> QED
    BY <2>2 DEF Under, Same
<1> QED
  BY <1>2 DEF Tree!Below

\* One step of the tree on the disk is one of the tree of names.
LEMMA TreeMove ==
    ASSUME NEW d, NEW e, Moves(d, e), tree = Kinds(d), tree' = Kinds(e)
    PROVE  Tree!Next \/ UNCHANGED tree
<1>1. CASE Kinds(d) = Kinds(e)
  BY <1>1
<1>2. ASSUME NEW path, Drops(tree, path, tree')
      PROVE  Tree!Next
  <2>1. /\ path \in Path /\ tree[path] # "none"
        /\ tree' = [q \in Path |-> IF Under(path, q) THEN "none" ELSE tree[q]]
    BY <1>2 DEF Drops
  <2>2. tree' = [q \in Path |-> IF q \in Tree!Below(path) THEN "none" ELSE tree[q]]
    BY <2>1, BelowUnder
  <2>3. Tree!Remove(path)
    BY <2>1, <2>2 DEF Tree!Remove
  <2> QED
    BY <2>1, <2>3 DEF Tree!Next
<1>3. ASSUME NEW path, NEW t, Makes(tree, path, t, tree')
      PROVE  Tree!Next
  <2>1. /\ path \in Path /\ t \in {"regular", "directory"}
        /\ Tree!Create(path, t)
    BY <1>3 DEF Makes, Tree!Create, Tree!ParentIsDir
  <2>2. t = "regular" \/ t = "directory"
    BY <2>1
  <2> QED
    BY <2>1, <2>2 DEF Tree!Next
<1> QED
  BY <1>1, <1>2, <1>3 DEF Moves

\* The writes lead to one disk, and tree is the tree on it.
LEMMA TreeOfDisk ==
    ASSUME IInv, tree = KindsIn(open_inodes, Now, pending), ~tainted,
           NEW e, NEW S, Chain(pending, Now, e, S)
    PROVE  tree = Kinds(e) /\ \E L : e \in Disk /\ Sound(L, e)
<1>1. PICK L, f : Chain(pending, Now, f, Disk) /\ Sound(L, f) /\ ListOK(open_inodes, f)
  BY DEF IInv, Settles
<1>2. pending \in Seq(Write) /\ open_inodes \in Seq(OpenSet)
  BY DEF IInv, Typed
<1>3. FoldLeft(Put, Now, pending) = f /\ FoldLeft(Put, Now, pending) = e
  BY <1>1, <1>2, FoldLeads
<1>4. KindsIn(open_inodes, Now, pending) = Kinds(f)
  BY <1>1, <1>2, Observed
<1>5. f \in Disk
  BY <1>1, <1>2, ChainEnds
<1> QED
  BY <1>1, <1>3, <1>4, <1>5

\* An empty partition.
LEMMA InitWatched == Init => Watched
<1> SUFFICES ASSUME Init PROVE Watched
  OBVIOUS
<1>1. IInv /\ pending = <<>> /\ ~tainted /\ exposed = "no"
  BY InitInv DEF Init
<1>2. PICK d : d = Now
  OBVIOUS
<1>3. d \in Disk
  BY <1>1, <1>2, TypesFollow
<1>4. PICK L : Sound(L, d) /\ ListOK(open_inodes, d)
  BY <1>1, <1>2, Quiet
<1>5. /\ d.blk = <<DotBlock(0, 0)>>
      /\ d.table = [i \in Ino |-> IF i = 0 THEN Node("directory", <<1>>) ELSE NoInode]
  BY <1>2 DEF Now, Init
<1>6. 0 \in Ino /\ \A x \in L : x \in Ino
  BY <1>3, <1>4, EntryTypes, DiskParts DEF Sound
<1>7. ASSUME NEW x, NEW q, Holds(L, d, x, q) PROVE FALSE
  <2>1. x \in Ino /\ q \in Slots(d.table[x]) /\ At(d.table[x], d.blk, q).filename \in Name
    BY <1>6, <1>7 DEF Holds
  <2>2. CASE x # 0
    <3>1. d.table[x] = NoInode
      BY <1>5, <2>1, <2>2
    <3>2. Len(NoInode.blocks) = 0
      BY DEF NoInode, Node
    <3> QED
      BY <2>1, <3>1, <3>2 DEF Slots
  <2>3. CASE x = 0
    <3>1. d.table[x] = [kind |-> "directory", blocks |-> <<1>>]
      BY <1>5, <1>6, <2>3 DEF Node
    <3>2. q[1] \in 1..1 /\ q[2] \in 1..ENTRIES
      BY <2>1, <3>1 DEF Slots
    <3>3. q[1] = 1
      BY <3>2
    <3>4. At(d.table[x], d.blk, q) = DotBlock(0, 0)[q[2]]
      BY <1>5, <3>1, <3>3 DEF At
    <3> QED
      BY <1>6, <2>1, <3>2, <3>4, DotBlockFacts
  <2> QED
    BY <2>2, <2>3
<1>8. ASSUME NEW path \in Path PROVE KindIn(d, path) = "none"
  <2>1. SUFFICES ASSUME NEW t \in {"regular", "directory"}, KindIn(d, path) = t PROVE FALSE
    BY <1>3, <1>4, KindIs
  <2>2. PICK n : n = Len(path) /\ n \in Nat \ {0} /\ Named(path, n - 1) /\ path[n] \in Name
    BY PathNamed
  <2>3. PICK x, i : Leads(d, path, n - 1, x) /\ Hit(d, x, path[n], i, t)
    BY <1>3, <1>4, <2>1, <2>2, KindIs
  <2>4. x \in L
    <3>1. n - 1 \in Nat
      BY <2>2
    <3> QED
      BY <1>3, <1>4, <2>2, <2>3, <3>1, LeadsIn
  <2>5. PICK a : a = path[n] /\ a \in Name /\ Hit(d, x, a, i, t)
    BY <2>2, <2>3
  <2> QED
    BY <1>3, <1>4, <1>7, <2>4, <2>5, HitHeld
<1>9. tree = Kinds(d) /\ before = tree
  BY <1>8 DEF Kinds, Init
<1>10. Chain(pending, d, d, Disk) /\ pending \in Seq(Write) /\ open_inodes \in Seq(OpenSet)
  BY <1>1, <1>3, ChainNone DEF IInv, Typed
<1>11. KindsIn(open_inodes, d, pending) = Kinds(d)
  BY <1>4, <1>10, Observed
<1>12. Chain(pending, d, d, Showing({before, tree}))
  BY <1>1, <1>3, <1>9, ChainNone DEF Showing
<1> QED
  BY <1>1, <1>2, <1>9, <1>11, <1>12 DEF Watched

\* A call is one step of a tree of names, or none.
LEMMA CallRefines ==
    ASSUME IInv, Watched, IInv', Turned
    PROVE  Watched' /\ Refined
<1>1. /\ before' = tree /\ crashes' = crashes
      /\ tree' = KindsIn(open_inodes', Now', pending')
  BY DEF Turned, Observe
<1>2. Now' = Now
  BY DEF Turned
<1>3. tree = Kinds(Now)
  <2>1. pending = <<>> /\ ~tainted /\ tree = KindsIn(open_inodes, Now, pending)
    BY DEF Turned, Ready, Watched
  <2>2. Now \in Disk
    BY TypesFollow
  <2>3. Chain(pending, Now, Now, Disk)
    BY <2>1, <2>2, ChainNone
  <2> QED
    BY <2>1, <2>3, TreeOfDisk
<1>4. CASE tainted'
  BY <1>1, <1>4 DEF Watched, Refined
<1>5. CASE ~tainted'
  <2>1. PICK e : /\ Chain(pending', Now, e, Disk) /\ Moves(Now, e)
                 /\ exposed' = "no" => Chain(pending', Now, e, Showing({Kinds(Now), Kinds(e)}))
    BY <1>5 DEF Turned
  <2>2. tree' = Kinds(e)
    <3>1. PICK L, f : Chain(pending', Now', f, Disk) /\ ListOK(open_inodes', f)
      BY <1>5 DEF IInv, Settles
    <3>2. pending' \in Seq(Write) /\ open_inodes' \in Seq(OpenSet)
      BY DEF IInv, Typed
    <3>3. FoldLeft(Put, Now', pending') = f /\ FoldLeft(Put, Now', pending') = e
      BY <1>2, <2>1, <3>1, <3>2, FoldLeads
    <3>4. KindsIn(open_inodes', Now', pending') = Kinds(f)
      BY <3>1, <3>2, Observed
    <3> QED
      BY <1>1, <3>3, <3>4
  <2>3. Refined
    BY <1>1, <1>3, <2>1, <2>2, TreeMove DEF Refined
  <2>4. exposed' = "no" => Chain(pending', Now', e, Showing({before', tree'}))
    BY <1>1, <1>2, <1>3, <2>1, <2>2
  <2>5. Kinds(Now') \in {before', tree'}
    BY <1>1, <1>2, <1>3
  <2> QED
    BY <1>1, <2>3, <2>4, <2>5 DEF Watched
<1> QED
  BY <1>4, <1>5

\* A sector changes nothing that a caller sees.
LEMMA SectorRefines ==
    ASSUME IInv, Watched, IInv', ide_write_sector
    PROVE  Watched' /\ Refined
<1>1. /\ pending # <<>> /\ pending' = Tail(pending) /\ pending \in Seq(Write)
      /\ exposed' = (IF Tail(pending) = <<>> \/ exposed = "no" THEN "no" ELSE "yes")
      /\ tree' = KindsIn(open_inodes', Now', pending')
      /\ UNCHANGED <<tainted, before, crashes>>
  BY DEF ide_write_sector, IInv, Typed, Observe
<1>2. Now' = Put(Now, Head(pending))
  BY SectorPut
<1>3. ASSUME NEW e, NEW S, Chain(pending, Now, e, S) PROVE Chain(pending', Now', e, S)
  BY <1>1, <1>2, <1>3, ChainTail
<1>4. CASE tainted
  BY <1>1, <1>4 DEF Watched, Refined
<1>5. CASE ~tainted
  <2>1. PICK L, e : Chain(pending, Now, e, Disk) /\ ListOK(open_inodes, e)
    BY <1>5 DEF IInv, Settles
  <2>2. tree = Kinds(e)
    BY <1>5, <2>1, TreeOfDisk DEF Watched
  <2>3. Chain(pending', Now', e, Disk)
    BY <1>3, <2>1
  <2>4. tree' = Kinds(e)
    <3>1. pending' \in Seq(Write) /\ open_inodes \in Seq(OpenSet) /\ open_inodes' = open_inodes
      BY DEF IInv, Typed, ide_write_sector, memory
    <3>2. KindsIn(open_inodes, Now', pending') = Kinds(e)
      BY <2>1, <2>3, <3>1, Observed
    <3> QED
      BY <1>1, <3>1, <3>2
  <2>5. tree' = tree
    BY <2>2, <2>4
  <2>6. ASSUME exposed' = "no" PROVE \E f : Chain(pending', Now', f, Showing({before', tree'}))
    <3>1. CASE exposed = "no"
      BY <1>1, <1>3, <1>5, <2>5, <3>1 DEF Watched
    <3>2. CASE Tail(pending) = <<>>
      <4>1. Chain(<<>>, Now', e, Disk)
        BY <1>1, <2>3, <3>2
      <4>2. Now' = e /\ e \in Disk
        BY <4>1, ChainNone
      <4>3. Now' \in Showing({before', tree'})
        BY <2>4, <4>2 DEF Showing
      <4>4. Chain(<<>>, Now', Now', Showing({before', tree'}))
        BY <4>3, ChainNone
      <4> QED
        BY <1>1, <3>2, <4>4
    <3> QED
      BY <1>1, <2>6, <3>1, <3>2
  <2>7. exposed' # "soon"
    BY <1>1
  <2> QED
    BY <1>1, <2>5, <2>6, <2>7 DEF Watched, Refined
<1> QED
  BY <1>4, <1>5

\* A power cut leaves the call under way done or undone.
LEMMA CrashRefines ==
    ASSUME IInv, Watched, IInv', Crash
    PROVE  Watched' /\ Refined
<1>1. /\ pending' = <<>> /\ exposed' = "no" /\ tainted' = (tainted \/ exposed = "yes")
      /\ crashes' = crashes + 1 /\ UNCHANGED <<disk_bitmap, inode_table, block, before>>
      /\ tree' = KindsIn(open_inodes', Now', pending')
  BY DEF Crash, disk, Observe
<1>2. Now' = Now
  BY <1>1 DEF Now
<1>3. crashes' # crashes
  BY <1>1 DEF IInv, Typed
<1>4. CASE tainted'
  BY <1>1, <1>4 DEF Watched, Refined
<1>5. CASE ~tainted'
  <2>1. ~tainted /\ exposed # "yes" /\ exposed \in {"no", "soon", "yes"}
    BY <1>1, <1>5 DEF IInv, Typed
  <2>2. Kinds(Now) \in {before, tree}
    <3>1. CASE exposed = "soon"
      BY <2>1, <3>1 DEF Watched
    <3>2. CASE exposed = "no"
      <4>1. PICK e : Chain(pending, Now, e, Showing({before, tree}))
        BY <2>1, <3>2 DEF Watched
      <4>2. Now \in Showing({before, tree})
        BY <4>1, ChainEnds DEF IInv, Typed
      <4> QED
        BY <4>2 DEF Showing
    <3> QED
      BY <2>1, <3>1, <3>2
  <2>3. PICK L, f : Chain(pending', Now', f, Disk) /\ ListOK(open_inodes', f)
    BY <1>5 DEF IInv, Settles
  <2>4. f = Now /\ f \in Disk
    BY <1>1, <1>2, <2>3, ChainNone
  <2>5. pending' \in Seq(Write) /\ open_inodes' \in Seq(OpenSet)
    BY DEF IInv, Typed
  <2>6. KindsIn(open_inodes', Now', pending') = Kinds(f)
    BY <2>3, <2>5, Observed
  <2>7. tree' = Kinds(Now)
    BY <1>1, <2>4, <2>6
  <2>8. Chain(pending', Now', Now', Showing({before', tree'}))
    BY <1>1, <1>2, <2>4, <2>7, ChainNone DEF Showing
  <2> QED
    BY <1>1, <1>3, <2>2, <2>7, <2>8 DEF Watched, Refined
<1> QED
  BY <1>4, <1>5

\* A step that changes nothing.
LEMMA StutterRefines ==
    ASSUME Watched, UNCHANGED vars
    PROVE  Watched' /\ Refined
<1>1. UNCHANGED <<open_inodes, disk_bitmap, inode_table, block, pending, exposed, tainted, tree, before, crashes>>
  BY DEF vars, memory, disk
<1>2. Now' = Now
  BY <1>1 DEF Now
<1> QED
  BY <1>1, <1>2 DEF Watched, Refined
----------------------------------------------------------------------------
(* The theorems.                                                           *)

\* Every call, every sector and every power cut keeps the invariant.
LEMMA StepInv ==
    ASSUME IInv, [Next]_vars
    PROVE  IInv' /\ (Turned \/ ide_write_sector \/ Crash \/ UNCHANGED vars)
<1>1. CASE UNCHANGED vars
  BY <1>1, StutterInv
<1>2. ASSUME NEW path \in Path, file_create(path) PROVE IInv' /\ Turned
  BY <1>2, FileCreateInv
<1>3. ASSUME NEW path \in Path, dir_create(path) PROVE IInv' /\ Turned
  BY <1>3, DirCreateInv
<1>4. ASSUME NEW path \in Path, ParentKept(path) PROVE IInv' /\ Turned
  BY <1>4, ParentKeptInv
<1>5. ASSUME NEW path \in Path, file_open(path) PROVE IInv' /\ Turned
  BY <1>5, FileOpenInv
<1>6. ASSUME NEW path \in Path, sys_remove(path) PROVE IInv' /\ Turned
  BY <1>6, RemoveInv
<1>7. ASSUME NEW path \in Path, sys_delete_dir(path) PROVE IInv' /\ Turned
  BY <1>7, DeleteDirInv
<1>8. ASSUME NEW k \in 1..Len(open_inodes), file_close(k) PROVE IInv' /\ Turned
  BY <1>8, FileCloseInv
<1>9. CASE ide_write_sector
  BY <1>9, SectorInv
<1>10. CASE Crash
  BY <1>10, CrashInv
<1> QED
  BY <1>1, <1>2, <1>3, <1>4, <1>5, <1>6, <1>7, <1>8, <1>9, <1>10 DEF Next

\* Every step is one of a tree of names, or a power cut that undoes a call.
LEMMA StepRefines ==
    ASSUME IInv, Watched, [Next]_vars
    PROVE  IInv' /\ Watched' /\ Refined
<1>1. IInv' /\ (Turned \/ ide_write_sector \/ Crash \/ UNCHANGED vars)
  BY StepInv
<1>2. CASE Turned
  BY <1>1, <1>2, CallRefines
<1>3. CASE ide_write_sector
  BY <1>1, <1>3, SectorRefines
<1>4. CASE Crash
  BY <1>1, <1>4, CrashRefines
<1>5. CASE UNCHANGED vars
  BY <1>1, <1>5, StutterRefines
<1> QED
  BY <1>1, <1>2, <1>3, <1>4, <1>5

\* The directories a path can reach are among those of a sound tree.
LEMMA DirsOfTree ==
    ASSUME NEW L, NEW d, Standing(L, d)
    PROVE  Dirs \subseteq L
<1>1. d \in Disk /\ Sound(L, d)
  BY DEF Standing
<1>2. ASSUME NEW path \in Path, Found(path), search_file(path).f_type = "directory"
      PROVE  search_file(path).i_no \in L
  <2>1. PICK r : r = search_file(path) /\ r.f_type = "directory" /\ WholePath(r, path)
    BY <1>2 DEF Found
  <2>2. PICK n \in Nat \ {0} : n = Len(path) /\ path[n] \in Name /\ Reached(L, d, path, r, n)
    BY <2>1 DEF Standing
  <2>3. r.depth = n
    BY <2>1, <2>2 DEF WholePath
  <2>4. r.parent \in L /\ Hit(d, r.parent, path[n], r.i_no, "directory")
    BY <2>1, <2>2, <2>3, Answer
  <2>5. PICK u, i, t : /\ u = r.parent /\ i = r.i_no /\ t = "directory" /\ u \in L
                       /\ Hit(d, u, path[n], i, t)
    BY <2>4
  <2>6. i \in L
    BY <1>1, <2>2, <2>5, HitNames
  <2> QED
    BY <2>1, <2>5, <2>6
<1>3. 0 \in L
  BY <1>1 DEF Sound
<1> QED
  BY <1>2, <1>3 DEF Dirs

\* An entry of the tree is at a place of one of its directories.
LEMMA EntryHeld ==
    ASSUME NEW L, NEW d, Standing(L, d), NEW x \in Entries
    PROVE  \E a, p, g : /\ x = <<a, p, g>> /\ g = At(d.table[a], d.blk, p) /\ Holds(L, d, a, p)
<1>1. d \in Disk /\ Sound(L, d) /\ d.blk = block /\ \A i \in Ino : NodeOf(i) = d.table[i]
  BY DEF Standing
<1>2. PICK a \in Dirs : \E p \in Slots(NodeOf(a)) : x = <<a, p, At(NodeOf(a), block, p)>>
  BY DEF Entries
<1>3. PICK p \in Slots(NodeOf(a)) : x = <<a, p, At(NodeOf(a), block, p)>>
  BY <1>2
<1>4. a \in L /\ a \in Ino
  BY <1>1, DirsOfTree, DiskParts DEF Sound
<1>5. PICK g : g = At(d.table[a], d.blk, p) /\ x = <<a, p, g>> /\ p \in Slots(d.table[a])
  BY <1>1, <1>3, <1>4
<1>6. x[3].filename \in Name
  BY DEF Entries
<1>7. g.filename \in Name
  BY <1>5, <1>6
<1> QED
  BY <1>4, <1>5, <1>7 DEF Holds

\* The invariant gives the property.
LEMMA SoundFollows == IInv => TreeSound
<1> SUFFICES ASSUME IInv, pending = <<>>, ~tainted
             PROVE  /\ \A x \in Entries : /\ x[3].i_no \in disk_bitmap
                                          /\ NodeOf(x[3].i_no).kind = x[3].f_type
                    /\ \A x, y \in Entries : x # y =>
                           /\ x[3].i_no # y[3].i_no
                           /\ x[1] = y[1] => x[3].filename # y[3].filename
  BY DEF TreeSound
<1>1. PICK L, d : Standing(L, d)
  BY AtRest
<1>2. /\ d \in Disk /\ Sound(L, d) /\ d = Now /\ d.blk = block
      /\ \A i \in Ino : NodeOf(i) = d.table[i]
  BY <1>1 DEF Standing
<1>3. d.bits = disk_bitmap
  BY <1>2 DEF Now
<1>4. ASSUME NEW x \in Entries
      PROVE  x[3].i_no \in disk_bitmap /\ NodeOf(x[3].i_no).kind = x[3].f_type
  <2>1. PICK a, p, g : /\ x = <<a, p, g>> /\ g = At(d.table[a], d.blk, p) /\ Holds(L, d, a, p)
    BY <1>1, EntryHeld
  <2>2. Names(L, d, g)
    BY <1>2, <2>1 DEF Sound
  <2>3. g.i_no \in d.bits /\ d.table[g.i_no].kind = g.f_type
    BY <2>2 DEF Names
  <2>4. g.i_no \in Ino
    BY <1>2, <2>3, DiskParts
  <2>5. x[3] = g
    BY <2>1
  <2> QED
    BY <1>2, <1>3, <2>3, <2>4, <2>5
<1>5. ASSUME NEW x \in Entries, NEW y \in Entries, x # y
      PROVE  x[3].i_no # y[3].i_no /\ (x[1] = y[1] => x[3].filename # y[3].filename)
  <2>1. PICK a, p, g : /\ x = <<a, p, g>> /\ g = At(d.table[a], d.blk, p) /\ Holds(L, d, a, p)
    BY <1>1, EntryHeld
  <2>2. PICK b, q, h : /\ y = <<b, q, h>> /\ h = At(d.table[b], d.blk, q) /\ Holds(L, d, b, q)
    BY <1>1, EntryHeld
  <2>3. x[3] = g /\ y[3] = h /\ x[1] = a /\ y[1] = b
    BY <2>1, <2>2
  <2>4. ~(a = b /\ p = q)
    BY <1>5, <2>1, <2>2
  <2>5. g.i_no # h.i_no
    BY <1>2, <2>1, <2>2, <2>4 DEF Sound
  <2>6. a = b => g.filename # h.filename
    BY <1>2, <2>1, <2>2, <2>4 DEF Sound
  <2> QED
    BY <2>3, <2>5, <2>6
<1> QED
  BY <1>4, <1>5

\* Memory and disk agree at the end of every call, and the disk is a sound tree
\* whenever a power cut may not hurt: the inductive invariant of the calls of
\* fs.c and of the sectors they write.
THEOREM DirectoryInvariance == Spec => []IInv
<1>1. Init => IInv
  BY InitInv
<1>2. IInv /\ [Next]_vars => IInv'
  BY StepInv
<1> QED
  BY <1>1, <1>2, PTL DEF Spec

\* Type correctness: every block an inode names exists, every entry names an
\* inode of the partition, and no descriptor count of an open inode exceeds its
\* open count, through every call, sector and power cut.
THEOREM DirectoryTypeCorrect == Spec => []TypeOK
<1>1. IInv => TypeOK
  BY TypesFollow
<1> QED
  BY <1>1, DirectoryInvariance, PTL

\* Between calls, and after a power cut that sys_remove or sys_close allows,
\* every entry a path can reach names an inode in use that was created as what
\* the entry says; no name is twice in a directory and no inode twice in the tree.
THEOREM TreeStaysSound == Spec => []TreeSound
  BY SoundFollows, DirectoryInvariance, PTL

\* As long as nothing has gone wrong every call is one step of a tree of names
\* or changes nothing that a caller sees, whatever holes, new blocks and freed
\* inodes it works with; sectors change nothing, and a power cut leaves the
\* call under way done or undone.
THEOREM TreeRefinement == Spec => ImplementsTree
<1>1. Init => IInv /\ Watched
  BY InitInv, InitWatched
<1>2. IInv /\ Watched /\ [Next]_vars => (IInv /\ Watched)'
  BY StepRefines
<1>3. IInv /\ Watched /\ [Next]_vars =>
          [~tainted' => IF crashes' = crashes THEN Tree!Next \/ UNCHANGED tree
                        ELSE tree' \in {tree, before}]_vars
  BY StepRefines DEF Refined
<1> QED
  BY <1>1, <1>2, <1>3, PTL DEF Spec, ImplementsTree
=============================================================================
