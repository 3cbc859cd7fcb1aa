---------------------------- MODULE MemoryProofs ----------------------------
(***************************************************************************)
(* Proofs about Memory, for any number of pages, size classes and blocks   *)
(* per arena.                                                              *)
(*                                                                         *)
(* bitmap_scan comes first: what its loop counts, by induction over the    *)
(* bits, and hence that it finds the first place that fits and nothing     *)
(* else.  The invariant has two parts.  PageInv, the two bitmaps and the   *)
(* page table, stands on its own; HeapInv, the runs, arenas and free       *)
(* lists, is NoOverlap and what keeps it true: the blocks of a page that   *)
(* is cut up are each in use or on the list of its class, so that the      *)
(* count in the arena tells when the last one has come back.               *)
(***************************************************************************)
EXTENDS Memory, FiniteSetsExt, FiniteSetTheorems, FunctionTheorems, SequenceTheorems, TLAPS

----------------------------------------------------------------------------
(* Sets of numbers.                                                       *)

\* Min is the least member: the first free slot, page or bit.
LEMMA LeastMember ==
    ASSUME NEW S, S \subseteq Nat, S # {}
    PROVE  Min(S) \in S /\ \A y \in S : Min(S) <= y
<1> DEFINE R == OpToRel(<, Nat)
<1>1. IsWellFoundedOn(R, Nat)
  BY NatLessThanWellFounded
<1>2. \A x, y \in Nat : <<y, x>> \in R <=> y < x
  BY DEF OpToRel
<1> HIDE DEF R
<1>3. PICK x \in S : \A y \in S : ~(<<y, x>> \in R)
  BY <1>1, WFMin
<1>4. ASSUME NEW y \in S PROVE x <= y
  <2>1. x \in Nat /\ y \in Nat /\ ~(y < x)
    BY <1>2, <1>3
  <2> QED
    BY <2>1
<1> QED
  BY <1>3, <1>4 DEF Min

\* Induction from a on, for the numbers in P.
LEMMA SetInduction ==
    ASSUME NEW P, NEW a \in Nat, a \in P,
           \A n \in Nat : n >= a /\ n \in P => n + 1 \in P
    PROVE  \A n \in Nat : n >= a => n \in P
<1> DEFINE B == {n \in Nat : n >= a /\ n \notin P}
<1> SUFFICES ASSUME B # {} PROVE FALSE
  OBVIOUS
<1>1. B \subseteq Nat
  OBVIOUS
<1>2. Min(B) \in B /\ \A y \in B : Min(B) <= y
  BY <1>1, LeastMember
<1> DEFINE m == Min(B)
<1>3. m \in Nat /\ m >= a /\ m \notin P /\ m # a
  BY <1>2
<1> HIDE DEF m
<1>4. m - 1 \in Nat /\ m - 1 >= a /\ m = (m - 1) + 1
  BY <1>3
<1>5. m - 1 \notin B
  <2>1. ~(m <= m - 1)
    BY <1>3
  <2> QED
    BY <1>2, <2>1 DEF m
<1>6. m - 1 \in P
  BY <1>4, <1>5
<1> QED
  BY <1>3, <1>4, <1>6

\* n things have at most n values.
LEMMA FewValues ==
    ASSUME NEW n \in Nat, NEW f
    PROVE  /\ IsFiniteSet({f[j] : j \in 1..n})
           /\ Cardinality({f[j] : j \in 1..n}) \in Nat
           /\ Cardinality({f[j] : j \in 1..n}) <= n
<1> DEFINE g == [j \in 1..n |-> f[j]]
           T == {f[j] : j \in 1..n}
<1>1. g \in Surjection(1..n, T)
  BY DEF Surjection
<1>2. IsFiniteSet(1..n) /\ Cardinality(1..n) = n
  BY FS_Interval
<1> HIDE DEF g, T
<1>3. IsFiniteSet(T) /\ Cardinality(T) <= n
  BY <1>1, <1>2, FS_Surjection
<1> QED
  BY <1>3, FS_CardinalityType DEF T


----------------------------------------------------------------------------
(* bitmap_scan *)

LEMMA CountExists ==
    ASSUME NEW C, NEW first \in Nat
    PROVE  \A n \in Nat : n >= first => \E f : f = [k \in first..n |->
              IF k = first THEN 1 ELSE IF k \in C THEN f[k - 1] + 1 ELSE 0]
<1> DEFINE Counts(f, n) == f = [k \in first..n |->
              IF k = first THEN 1 ELSE IF k \in C THEN f[k - 1] + 1 ELSE 0]
           P == {n \in Nat : \E f : Counts(f, n)}
<1>1. first \in P
  <2> DEFINE f == [k \in first..first |-> 1]
  <2>1. \A k \in first..first : k = first
    OBVIOUS
  <2>2. Counts(f, first)
    BY <2>1
  <2> QED
    BY <2>2
<1>2. ASSUME NEW n \in Nat, n >= first, n \in P PROVE n + 1 \in P
  <2>1. PICK f : Counts(f, n)
    BY <1>2
  <2> DEFINE last == IF n + 1 \in C THEN f[n] + 1 ELSE 0
             g == [k \in first..(n + 1) |-> IF k = n + 1 THEN last ELSE f[k]]
  <2>2. \A k \in first..n : g[k] = f[k] /\ k # n + 1
    OBVIOUS
  <2>3. \A k \in first..(n + 1) : k # n + 1 => k \in first..n /\ (k # first => k - 1 \in first..n)
    OBVIOUS
  <2>4. n + 1 # first /\ n \in first..n /\ (n + 1) - 1 = n
    BY <1>2
  <2>5. ASSUME NEW k \in first..(n + 1)
        PROVE  g[k] = IF k = first THEN 1 ELSE IF k \in C THEN g[k - 1] + 1 ELSE 0
    <3>1. CASE k = n + 1
      <4>1. g[k] = last /\ g[k - 1] = f[n]
        BY <2>2, <2>4, <3>1
      <4> QED
        BY <2>4, <3>1, <4>1
    <3>2. CASE k # n + 1
      <4>1. k \in first..n /\ g[k] = f[k] /\ (k # first => g[k - 1] = f[k - 1])
        BY <2>2, <2>3, <3>2
      <4>2. f[k] = IF k = first THEN 1 ELSE IF k \in C THEN f[k - 1] + 1 ELSE 0
        BY <2>1, <4>1
      <4> HIDE DEF g
      <4> QED
        BY <4>1, <4>2
    <3> QED
      BY <3>1, <3>2
  <2>6. Counts(g, n + 1)
    <3>1. g = [k \in first..(n + 1) |-> g[k]]
      OBVIOUS
    <3> HIDE DEF g
    <3> QED
      BY <2>5, <3>1
  <2> HIDE DEF g, Counts
  <2>7. \E h : Counts(h, n + 1)
    BY <2>6
  <2> QED
    BY <1>2, <2>7
<1>3. \A n \in Nat : n >= first => n \in P
  <2> HIDE DEF P
  <2> QED
    BY <1>1, <1>2, SetInduction
<1> QED
  BY <1>3

LEMMA CountDef ==
    ASSUME NEW used, NEW past, NEW first \in Nat, first <= Pages
    PROVE  \A n \in first..Pages : CountAt(used, past, first)[n] =
              IF n = first THEN 1
              ELSE IF n \in Cleared(used, past) THEN CountAt(used, past, first)[n - 1] + 1
              ELSE 0
<1> DEFINE C == Cleared(used, past)
           Counts(f) == f = [k \in first..Pages |->
              IF k = first THEN 1 ELSE IF k \in C THEN f[k - 1] + 1 ELSE 0]
           c == CountAt(used, past, first)
<1>1. \E f : Counts(f)
  <2> HIDE DEF C
  <2>1. \A n \in Nat : n >= first => \E f : f = [k \in first..n |->
           IF k = first THEN 1 ELSE IF k \in C THEN f[k - 1] + 1 ELSE 0]
    BY CountExists
  <2>2. Pages \in Nat /\ Pages >= first
    BY MemoryAssumption
  <2> QED
    BY <2>1, <2>2
<1>2. c = CHOOSE f : Counts(f)
  BY DEF CountAt
<1>3. Counts(c)
  <2> HIDE DEF Counts, c
  <2> QED
    BY <1>1, <1>2
<1> HIDE DEF c
<1>4. ASSUME NEW n \in first..Pages
      PROVE  c[n] = IF n = first THEN 1 ELSE IF n \in C THEN c[n - 1] + 1 ELSE 0
  BY <1>3
<1> QED
  BY <1>4 DEF c

\* CountAt counts cleared bits: the run of count[n] bits that ends at n is
\* cleared, and is as long as it can be if one starts at first.
LEMMA CountMeans ==
    ASSUME NEW used, NEW past, NEW first \in Nat, first <= Pages,
           first \in Cleared(used, past)
    PROVE  \A n \in first..Pages :
              LET c == CountAt(used, past, first)
                  C == Cleared(used, past)
              IN  /\ c[n] \in Nat /\ c[n] <= n - first + 1
                  /\ \A k \in (n + 1 - c[n])..n : k \in C
                  /\ n - c[n] >= first => n - c[n] \notin C
<1> DEFINE c == CountAt(used, past, first)
           C == Cleared(used, past)
           Good(n) == /\ c[n] \in Nat /\ c[n] <= n - first + 1
                      /\ \A k \in (n + 1 - c[n])..n : k \in C
                      /\ n - c[n] >= first => n - c[n] \notin C
           P == {n \in Nat : n <= Pages => Good(n)}
<1>1. \A n \in first..Pages : c[n] =
         IF n = first THEN 1 ELSE IF n \in C THEN c[n - 1] + 1 ELSE 0
  BY CountDef
<1> HIDE DEF c, C
<1>2. first \in P
  <2>1. c[first] = 1
    BY <1>1, MemoryAssumption
  <2>2. \A k \in (first + 1 - 1)..first : k = first
    OBVIOUS
  <2>3. 1 <= first - first + 1 /\ ~(first - 1 >= first)
    OBVIOUS
  <2>4. first \in C
    BY DEF C
  <2> QED
    BY <2>1, <2>2, <2>3, <2>4
<1>3. ASSUME NEW n \in Nat, n >= first, n \in P PROVE n + 1 \in P
  <2> SUFFICES ASSUME n + 1 <= Pages PROVE Good(n + 1)
    OBVIOUS
  <2>1. n \in first..Pages /\ n + 1 \in first..Pages /\ n + 1 # first /\ n + 1 - 1 = n
    BY <1>3, MemoryAssumption
  <2>2. Good(n)
    BY <1>3, <2>1
  <2>3. c[n + 1] = IF n + 1 \in C THEN c[n] + 1 ELSE 0
    BY <1>1, <2>1
  <2>4. CASE n + 1 \in C
    <3>1. c[n + 1] = c[n] + 1 /\ c[n] \in Nat
      BY <2>2, <2>3, <2>4
    <3>2. /\ c[n] + 1 \in Nat /\ c[n] + 1 <= n + 1 - first + 1
          /\ n + 1 - (c[n] + 1) = n - c[n] /\ n + 1 + 1 - (c[n] + 1) = n + 1 - c[n]
      BY <2>2
    <3>3. \A k \in (n + 1 - c[n])..(n + 1) : k \in (n + 1 - c[n])..n \/ k = n + 1
      BY <3>1
    <3> QED
      BY <2>2, <2>4, <3>1, <3>2, <3>3
  <2>5. CASE n + 1 \notin C
    <3>1. c[n + 1] = 0
      BY <2>3, <2>5
    <3>2. \A k \in (n + 1 + 1 - 0)..(n + 1) : FALSE
      OBVIOUS
    <3>3. 0 <= n + 1 - first + 1 /\ n + 1 - 0 = n + 1
      BY <1>3
    <3> QED
      BY <2>5, <3>1, <3>2, <3>3
  <2> QED
    BY <2>4, <2>5
<1>4. \A n \in Nat : n >= first => n \in P
  <2> HIDE DEF P
  <2> QED
    BY <1>2, <1>3, SetInduction
<1>5. ASSUME NEW n \in first..Pages PROVE Good(n)
  <2>1. n \in Nat /\ n >= first /\ n <= Pages
    BY MemoryAssumption
  <2> QED
    BY <1>4, <2>1
<1> QED
  BY <1>5 DEF c, C

\* The first place with cnt free bits, as bitmap_scan should find it
Fits(used, cnt) == {v \in Bit : v + cnt <= Pages /\ (v..(v + cnt - 1)) \cap used = {}}

\* FirstFree is the lowest free bit, and a cleared one.
LEMMA FirstFreeFacts ==
    ASSUME NEW used, NEW past, ~(Bit \subseteq used)
    PROVE  /\ FirstFree(used) \in Nat /\ FirstFree(used) < Pages
           /\ FirstFree(used) \in Bit \ used
           /\ FirstFree(used) \in Cleared(used, past)
           /\ \A v \in Bit \ used : FirstFree(used) <= v
<1>1. Bit \ used # {} /\ Bit \ used \subseteq Nat
  BY DEF Bit
<1>2. FirstFree(used) \in Bit \ used /\ \A v \in Bit \ used : FirstFree(used) <= v
  BY <1>1, LeastMember DEF FirstFree
<1>3. FirstFree(used) \in Cleared(used, past)
  BY <1>2 DEF Cleared
<1>4. \A v \in Bit : v \in Nat /\ v < Pages
  BY MemoryAssumption DEF Bit
<1> QED
  BY <1>2, <1>3, <1>4

\* What the loop for cnt > 1 finds is a place that fits.
LEMMA RunFits ==
    ASSUME NEW used, NEW past, ~(Bit \subseteq used), NEW cnt \in Nat, cnt > 1,
           NEW n \in (FirstFree(used) + 1)..Pages, n < Pages,
           CountAt(used, past, FirstFree(used))[n] = cnt
    PROVE  n - cnt + 1 \in Fits(used, cnt)
<1> DEFINE first == FirstFree(used)
           c == CountAt(used, past, first)
           C == Cleared(used, past)
<1>1. first \in Nat /\ first < Pages /\ first \in C
  BY FirstFreeFacts
<1>2. n \in first..Pages /\ n \in Nat
  BY <1>1, MemoryAssumption
<1>3. c[n] <= n - first + 1 /\ \A k \in (n + 1 - c[n])..n : k \in C
  <2>1. first <= Pages
    BY <1>1, MemoryAssumption
  <2> HIDE DEF first
  <2> QED
    BY <1>1, <1>2, <2>1, CountMeans
<1> HIDE DEF first, c
<1>4. c[n] = cnt
  BY DEF c, first
<1>5. cnt <= n - first + 1 /\ \A k \in (n + 1 - cnt)..n : k \in C
  BY <1>3, <1>4
<1>6. n - cnt + 1 \in Bit /\ n - cnt + 1 + cnt <= Pages
  BY <1>1, <1>2, <1>5, MemoryAssumption DEF Bit
<1>7. ASSUME NEW k \in (n - cnt + 1)..(n - cnt + 1 + cnt - 1) PROVE k \notin used
  <2>1. k \in (n + 1 - cnt)..n
    BY <1>2
  <2> QED
    BY <1>5, <2>1 DEF C, Cleared
<1> QED
  BY <1>6, <1>7 DEF Fits

\* A place that fits is found, or one before it.
LEMMA RunFound ==
    ASSUME NEW used, NEW past, ~(Bit \subseteq used), NEW cnt \in Nat, cnt > 1,
           NEW w \in Fits(used, cnt)
    PROVE  \E n \in (FirstFree(used) + 1)..Pages :
              n <= w + cnt - 1 /\ CountAt(used, past, FirstFree(used))[n] = cnt
<1> DEFINE first == FirstFree(used)
           c == CountAt(used, past, first)
           C == Cleared(used, past)
           e == w + cnt - 1
<1>1. first \in Nat /\ first < Pages /\ first \in C /\ first <= Pages
  BY FirstFreeFacts, MemoryAssumption
<1>2. w \in Nat /\ w + cnt <= Pages /\ \A k \in w..e : k \in Bit \ used
  <2>1. w \in Bit /\ w + cnt <= Pages /\ (w..e) \cap used = {}
    BY DEF Fits
  <2>2. w \in Nat /\ \A k \in w..e : k \in Bit
    BY <2>1, MemoryAssumption DEF Bit
  <2> QED
    BY <2>1, <2>2
<1>3. first <= w
  <2>1. w \in w..e
    BY <1>2
  <2> QED
    BY <1>2, <2>1, FirstFreeFacts
<1>4. \A n \in first..Pages :
         /\ c[n] \in Nat /\ c[n] <= n - first + 1
         /\ n - c[n] >= first => n - c[n] \notin C
  <2> HIDE DEF first
  <2> QED
    BY <1>1, CountMeans
<1>5. \A n \in first..Pages : c[n] =
         IF n = first THEN 1 ELSE IF n \in C THEN c[n - 1] + 1 ELSE 0
  <2> HIDE DEF first
  <2> QED
    BY <1>1, CountDef
<1>6. \A k \in w..e : k \in C
  BY <1>2 DEF Cleared
<1> SUFFICES \E n \in (first + 1)..Pages : n <= e /\ c[n] = cnt
  OBVIOUS
<1> HIDE DEF first, c, C
<1>7. e \in first..Pages /\ e \in Nat
  BY <1>1, <1>2, <1>3, MemoryAssumption
<1>8. c[e] >= cnt
  <2> SUFFICES ASSUME c[e] < cnt PROVE FALSE
    BY <1>4, <1>7
  <2>1. c[e] \in Nat
    BY <1>4, <1>7
  <2>2. e - c[e] \in w..e /\ e - c[e] >= first
    BY <1>1, <1>2, <1>3, <2>1
  <2> QED
    BY <1>4, <1>6, <1>7, <2>2
<1> DEFINE N == {n \in first..e : c[n] >= cnt}
<1>9. N \subseteq Nat /\ e \in N
  BY <1>1, <1>7, <1>8
<1> DEFINE m == Min(N)
<1>10. m \in N /\ \A y \in N : m <= y
  BY <1>9, LeastMember
<1> HIDE DEF m, e
<1>11. m \in Nat /\ m >= first /\ m <= e /\ e <= Pages /\ m \in first..Pages /\ c[m] >= cnt
  BY <1>1, <1>7, <1>10, MemoryAssumption
<1>12. m # first
  <2>1. c[first] = 1
    BY <1>1, <1>5, MemoryAssumption
  <2> QED
    BY <1>11, <2>1
<1>13. m - 1 \in first..Pages /\ m - 1 \in first..e /\ m \in (first + 1)..Pages
  BY <1>1, <1>7, <1>11, <1>12, MemoryAssumption
<1>14. c[m - 1] \in Nat /\ c[m - 1] < cnt
  <2>1. m - 1 \notin N
    <3>1. ~(m <= m - 1)
      BY <1>11
    <3> QED
      BY <1>10, <3>1
  <2> QED
    BY <1>4, <1>13, <2>1
<1>15. c[m] = cnt
  <2>1. c[m] = IF m \in C THEN c[m - 1] + 1 ELSE 0
    BY <1>5, <1>11, <1>12
  <2>2. c[m] = c[m - 1] + 1
    BY <1>11, <2>1
  <2> QED
    BY <1>11, <1>14, <2>2
<1> QED
  BY <1>11, <1>13, <1>15

\* A bit that bitmap_scan returns starts a run of cnt free bits, also for a
\* run longer than the bitmap.
LEMMA ScanSound ==
    ASSUME NEW used, NEW past, NEW cnt \in Nat \ {0}, bitmap_scan(used, past, cnt) \in Bit
    PROVE  bitmap_scan(used, past, cnt) \in Fits(used, cnt)
<1> DEFINE ends == {n \in (FirstFree(used) + 1)..Pages :
                      CountAt(used, past, FirstFree(used))[n] = cnt}
           e == Min(ends)
           scan == bitmap_scan(used, past, cnt)
<1>1. NotFound \notin Bit /\ Failed \notin Bit
  BY MemoryAssumption DEF NotFound, Failed, Bit
<1>2. ~(Bit \subseteq used)
  BY <1>1 DEF bitmap_scan
<1>3. CASE cnt = 1
  <2>1. scan = FirstFree(used)
    BY <1>2, <1>3 DEF bitmap_scan
  <2>2. FirstFree(used) \in Nat /\ FirstFree(used) < Pages /\ FirstFree(used) \in Bit \ used
    BY <1>2, FirstFreeFacts
  <2> DEFINE f == FirstFree(used)
  <2> HIDE DEF f
  <2>3. f + 1 <= Pages /\ \A k \in f..(f + 1 - 1) : k = f
    BY <2>2, MemoryAssumption DEF f
  <2> QED
    BY <1>3, <2>1, <2>2, <2>3 DEF Fits, f
<1>4. CASE cnt # 1
  <2>1. cnt > 1 /\ cnt \in Nat
    BY <1>4
  <2>2. scan = scan_run(used, past, cnt)
    BY <1>2, <1>4 DEF bitmap_scan
  <2>3. ends # {} /\ e # Pages /\ scan = e - cnt + 1
    BY <1>1, <2>2 DEF scan_run
  <2>4. ends \subseteq Nat
    <3>1. FirstFree(used) \in Nat
      BY <1>2, FirstFreeFacts
    <3> QED
      BY <3>1, MemoryAssumption
  <2>5. e \in ends
    <3> HIDE DEF ends
    <3> QED
      BY <2>3, <2>4, LeastMember
  <2> HIDE DEF e
  <2>6. e \in (FirstFree(used) + 1)..Pages /\ e < Pages
        /\ CountAt(used, past, FirstFree(used))[e] = cnt
    <3>1. FirstFree(used) \in Nat
      BY <1>2, FirstFreeFacts
    <3> QED
      BY <2>3, <2>5, <3>1, MemoryAssumption
  <2> QED
    BY <1>2, <2>1, <2>3, <2>6, RunFits
<1> QED
  BY <1>3, <1>4

\* bitmap_scan returns the first place that fits, and fails only if none does.
LEMMA ScanFirstFit ==
    ASSUME NEW used, NEW past, NEW cnt \in Nat \ {0}
    PROVE  bitmap_scan(used, past, cnt)
              \in IF Fits(used, cnt) = {} THEN {NotFound, Failed} ELSE {Min(Fits(used, cnt))}
<1> DEFINE ends == {n \in (FirstFree(used) + 1)..Pages :
                      CountAt(used, past, FirstFree(used))[n] = cnt}
           e == Min(ends)
           fits == Fits(used, cnt)
           scan == bitmap_scan(used, past, cnt)
<1>1. fits \subseteq Nat /\ fits \subseteq Bit
  BY DEF Fits, Bit
<1>2. CASE fits = {}
  <2>1. scan \notin Bit
    BY <1>2, ScanSound
  <2>2. scan \in {NotFound, Failed}
    <3>1. CASE Bit \subseteq used
      BY <3>1 DEF bitmap_scan
    <3>2. CASE ~(Bit \subseteq used) /\ cnt = 1
      <4>1. scan \in Bit
        BY <3>2, FirstFreeFacts DEF bitmap_scan
      <4> QED
        BY <2>1, <4>1
    <3>3. CASE ~(Bit \subseteq used) /\ cnt # 1
      <4>1. scan = scan_run(used, past, cnt) /\ cnt > 1
        BY <3>3 DEF bitmap_scan
      <4>2. ends \subseteq Nat /\ FirstFree(used) \in Nat
        <5>1. FirstFree(used) \in Nat
          BY <3>3, FirstFreeFacts
        <5> QED
          BY <5>1, MemoryAssumption
      <4>3. ends = {} \/ e \in ends
        <5> HIDE DEF ends
        <5> QED
          BY <4>2, LeastMember
      <4>4. CASE ends # {} /\ e # Pages
        <5> HIDE DEF e
        <5>1. e \in (FirstFree(used) + 1)..Pages /\ e < Pages
              /\ CountAt(used, past, FirstFree(used))[e] = cnt
          BY <4>2, <4>3, <4>4, MemoryAssumption
        <5>2. e - cnt + 1 \in Fits(used, cnt)
          BY <3>3, <4>1, <5>1, RunFits
        <5> QED
          BY <1>2, <5>2
      <4>5. CASE ends = {} \/ e = Pages
        BY <4>1, <4>5 DEF scan_run
      <4> QED
        BY <4>4, <4>5
    <3> QED
      BY <3>1, <3>2, <3>3
  <2> QED
    BY <1>2, <2>2
<1>3. CASE fits # {}
  <2> DEFINE w == Min(fits)
  <2>1. w \in fits /\ \A y \in fits : w <= y
    BY <1>1, <1>3, LeastMember
  <2>2. w \in Bit /\ w + cnt <= Pages /\ (w..(w + cnt - 1)) \cap used = {} /\ w \in Nat
    <3> HIDE DEF w
    <3> QED
      BY <2>1 DEF Fits, Bit
  <2> HIDE DEF w
  <2>3. w \in Bit \ used
    <3>1. w \in w..(w + cnt - 1)
      BY <2>2
    <3> QED
      BY <2>2, <3>1
  <2>4. ~(Bit \subseteq used)
    BY <2>3
  <2>5. scan = w
    <3>1. CASE cnt = 1
      <4>1. scan = FirstFree(used) /\ FirstFree(used) <= w
        BY <2>3, <2>4, <3>1, FirstFreeFacts DEF bitmap_scan
      <4>2. scan \in Bit /\ scan \in Nat
        BY <2>4, <4>1, FirstFreeFacts
      <4>3. w <= scan
        BY <2>1, <4>2, ScanSound
      <4> HIDE DEF scan
      <4>4. scan <= w
        BY <4>1
      <4> QED
        BY <2>2, <4>2, <4>3, <4>4
    <3>2. CASE cnt # 1
      <4>1. scan = scan_run(used, past, cnt) /\ cnt > 1 /\ cnt \in Nat
        BY <2>4, <3>2 DEF bitmap_scan
      <4>2. ends \subseteq Nat /\ FirstFree(used) \in Nat
        <5>1. FirstFree(used) \in Nat
          BY <2>4, FirstFreeFacts
        <5> QED
          BY <5>1, MemoryAssumption
      <4>3. PICK n \in ends : n <= w + cnt - 1
        BY <2>1, <2>4, <4>1, RunFound
      <4>4. e \in ends /\ e <= n
        <5> HIDE DEF ends
        <5> QED
          BY <4>2, <4>3, LeastMember
      <4>5. e # Pages /\ ends # {} /\ e < Pages /\ e \in Nat /\ n \in Nat
        <5> HIDE DEF e
        <5> QED
          BY <2>2, <4>1, <4>2, <4>3, <4>4, MemoryAssumption
      <4>6. scan = e - cnt + 1
        BY <4>1, <4>5 DEF scan_run
      <4>7. e - cnt + 1 \in Fits(used, cnt)
        <5> HIDE DEF e
        <5> QED
          BY <2>4, <4>1, <4>4, <4>5, RunFits
      <4> HIDE DEF e, scan
      <4>8. w <= e - cnt + 1
        BY <2>1, <4>7
      <4>9. e <= w + cnt - 1
        BY <2>2, <4>1, <4>3, <4>4, <4>5
      <4> QED
        BY <2>2, <4>1, <4>5, <4>6, <4>8, <4>9
    <3> QED
      BY <3>1, <3>2
  <2> QED
    BY <1>3, <2>5 DEF w
<1> QED
  BY <1>2, <1>3

\* In every state bitmap_scan finds the first place that fits, whatever the
\* bit behind the end of the bitmap holds.
THEOREM ScanIsFirstFit == Spec => []ScanFindsFirstFit
<1>1. ScanFindsFirstFit
  <2> SUFFICES ASSUME NEW cnt \in 1..Pages, NEW past \in BOOLEAN
               PROVE  bitmap_scan(vaddr_bitmap, past, cnt)
                         \in IF Fits(vaddr_bitmap, cnt) = {} THEN {NotFound, Failed}
                             ELSE {Min(Fits(vaddr_bitmap, cnt))}
    BY DEF ScanFindsFirstFit, Fits
  <2>1. cnt \in Nat \ {0}
    BY MemoryAssumption
  <2> QED
    BY <2>1, ScanFirstFit
<1> QED
  BY <1>1, PTL

----------------------------------------------------------------------------
(* Pages: the two bitmaps and the page table *)

\* f takes the lowest member of F that is left, n times
Lowest(f, F, n) == f = [i \in 1..n |-> Min(F \ {f[j] : j \in 1..(i - 1)})]

LEMMA LowestExist ==
    ASSUME NEW F
    PROVE  \A n \in Nat : \E f : Lowest(f, F, n)
<1> DEFINE P == {n \in Nat : \E f : Lowest(f, F, n)}
<1>1. 0 \in P
  <2> DEFINE f == [i \in 1..0 |-> 0]
  <2>1. \A i \in 1..0 : FALSE
    OBVIOUS
  <2>2. Lowest(f, F, 0)
    BY <2>1 DEF Lowest
  <2> QED
    BY <2>2
<1>2. ASSUME NEW n \in Nat, n >= 0, n \in P PROVE n + 1 \in P
  <2>1. PICK f : Lowest(f, F, n)
    BY <1>2
  <2> DEFINE last == Min(F \ {f[j] : j \in 1..n})
             g == [i \in 1..(n + 1) |-> IF i = n + 1 THEN last ELSE f[i]]
  <2>2. ASSUME NEW i \in 1..(n + 1)
        PROVE  {g[j] : j \in 1..(i - 1)} = {f[j] : j \in 1..(i - 1)}
    <3>1. \A j \in 1..(i - 1) : j \in 1..(n + 1) /\ j # n + 1
      OBVIOUS
    <3> QED
      BY <3>1
  <2>3. ASSUME NEW i \in 1..(n + 1) PROVE g[i] = Min(F \ {g[j] : j \in 1..(i - 1)})
    <3>1. CASE i = n + 1
      <4>1. i - 1 = n
        BY <3>1
      <4>2. g[i] = last
        BY <3>1
      <4> QED
        BY <2>2, <4>1, <4>2
    <3>2. CASE i # n + 1
      <4>1. i \in 1..n /\ g[i] = f[i]
        BY <3>2
      <4>2. f[i] = Min(F \ {f[j] : j \in 1..(i - 1)})
        BY <2>1, <4>1 DEF Lowest
      <4> QED
        BY <2>2, <4>1, <4>2
    <3> QED
      BY <3>1, <3>2
  <2>4. Lowest(g, F, n + 1)
    <3>1. g = [i \in 1..(n + 1) |-> g[i]]
      OBVIOUS
    <3> HIDE DEF g
    <3> QED
      BY <2>3, <3>1 DEF Lowest
  <2> HIDE DEF g
  <2>5. \E h : Lowest(h, F, n + 1)
    BY <2>4
  <2> QED
    BY <1>2, <2>5
<1>3. \A n \in Nat : n >= 0 => n \in P
  <2> HIDE DEF P
  <2> QED
    BY <1>1, <1>2, SetInduction
<1>4. \A n \in Nat : n >= 0
  OBVIOUS
<1> QED
  BY <1>3, <1>4

\* The frames that palloc takes one after the other are free and all different.
LEMMA FramesFree ==
    ASSUME NEW cnt \in Nat, cnt <= Cardinality(Bit \ pool_bitmap)
    PROVE  /\ \A i \in 1..cnt : palloc(cnt)[i] \in Bit \ pool_bitmap
           /\ \A i, j \in 1..cnt : palloc(cnt)[i] = palloc(cnt)[j] => i = j
<1> DEFINE F == Bit \ pool_bitmap
           p == palloc(cnt)
<1>1. Lowest(p, F, cnt)
  <2>1. \E f : Lowest(f, F, cnt)
    BY LowestExist
  <2>2. p = CHOOSE f : Lowest(f, F, cnt)
    BY DEF palloc, Lowest
  <2> HIDE DEF p
  <2> QED
    BY <2>1, <2>2
<1> HIDE DEF p
<1>2. IsFiniteSet(F) /\ Cardinality(F) \in Nat /\ F \subseteq Nat
  <2>1. IsFiniteSet(0..(Pages - 1))
    BY FS_Interval, MemoryAssumption
  <2>2. IsFiniteSet(F)
    BY <2>1, FS_Difference DEF Bit
  <2> QED
    BY <2>2, FS_CardinalityType DEF Bit
<1>3. ASSUME NEW i \in 1..cnt PROVE p[i] \in F \ {p[j] : j \in 1..(i - 1)}
  <2> DEFINE T == {p[j] : j \in 1..(i - 1)}
  <2>1. i - 1 \in Nat /\ i - 1 < cnt
    OBVIOUS
  <2>2. IsFiniteSet(T) /\ Cardinality(T) \in Nat /\ Cardinality(T) <= i - 1
    BY <2>1, FewValues
  <2>3. p[i] = Min(F \ T)
    BY <1>1 DEF Lowest
  <2> HIDE DEF T
  <2>4. F \ T # {}
    <3> SUFFICES ASSUME F \subseteq T PROVE FALSE
      OBVIOUS
    <3>1. F \in SUBSET T
      OBVIOUS
    <3>2. Cardinality(F) <= Cardinality(T)
      <4> HIDE DEF F
      <4> QED
        BY <2>2, <3>1, FS_Subset
    <3>3. cnt <= Cardinality(F)
      OBVIOUS
    <3> HIDE DEF F
    <3> QED
      BY <1>2, <2>1, <2>2, <3>2, <3>3
  <2>5. p[i] \in F \ T
    <3> HIDE DEF F
    <3>1. F \ T \subseteq Nat
      BY <1>2
    <3> QED
      BY <2>3, <2>4, <3>1, LeastMember
  <2> QED
    BY <2>5 DEF T
<1>4. ASSUME NEW i \in 1..cnt, NEW j \in 1..cnt, p[i] = p[j], i # j PROVE FALSE
  <2>1. CASE i < j
    <3>1. i \in 1..(j - 1)
      BY <2>1
    <3> QED
      BY <1>3, <1>4, <3>1
  <2>2. CASE j < i
    <3>1. j \in 1..(i - 1)
      BY <2>2
    <3> QED
      BY <1>3, <1>4, <3>1
  <2> QED
    BY <1>4, <2>1, <2>2
<1> QED
  BY <1>3, <1>4 DEF p

\* The page a call gets is the first of cnt free ones, and there are enough
\* frames for them.
LEMMA PageForFits ==
    ASSUME NEW past, NEW cnt \in Nat \ {0}, PageFor(past, cnt) \in Bit
    PROVE  /\ PageFor(past, cnt) \in Fits(vaddr_bitmap, cnt)
           /\ cnt <= Cardinality(Bit \ pool_bitmap)
<1> DEFINE v == bitmap_scan(vaddr_bitmap, past, cnt)
<1>1. Failed \notin Bit
  BY MemoryAssumption DEF Failed, Bit
<1>2. PageFor(past, cnt) = v /\ v \in Bit /\ ~(Cardinality(Bit \ pool_bitmap) < cnt)
  BY <1>1 DEF PageFor
<1>3. Cardinality(Bit \ pool_bitmap) \in Nat
  <2>1. IsFiniteSet(0..(Pages - 1))
    BY FS_Interval, MemoryAssumption
  <2>2. IsFiniteSet(Bit \ pool_bitmap)
    BY <2>1, FS_Difference DEF Bit
  <2> QED
    BY <2>2, FS_CardinalityType
<1>4. v \in Fits(vaddr_bitmap, cnt)
  BY <1>2, ScanSound
<1>5. cnt <= Cardinality(Bit \ pool_bitmap)
  BY <1>2, <1>3
<1> QED
  BY <1>2, <1>4, <1>5

\* The cnt pages from v on
Span(v, cnt) == v..(v + cnt - 1)

LEMMA FitsSpan ==
    ASSUME NEW used, NEW cnt \in Nat \ {0}, NEW v \in Fits(used, cnt)
    PROVE  /\ v \in Nat /\ v \in Bit /\ v + cnt <= Pages /\ cnt \in 1..Pages
           /\ v \in Span(v, cnt) /\ Span(v, cnt) \subseteq Bit /\ Span(v, cnt) \cap used = {}
           /\ \A u \in Span(v, cnt) : u - v + 1 \in 1..cnt
           /\ \A t, u \in Span(v, cnt) : t - v + 1 = u - v + 1 => t = u
           /\ \A i \in 1..cnt : v + i - 1 \in Span(v, cnt) /\ (v + i - 1) - v + 1 = i
<1>1. v \in Bit /\ v + cnt <= Pages /\ (v..(v + cnt - 1)) \cap used = {}
  BY DEF Fits
<1>2. v \in Nat /\ cnt \in 1..Pages
  BY <1>1, MemoryAssumption DEF Bit
<1>3. v \in Span(v, cnt) /\ Span(v, cnt) \subseteq Bit
  BY <1>1, <1>2, MemoryAssumption DEF Span, Bit
<1>4. \A u \in Span(v, cnt) : u \in Nat /\ u - v + 1 \in 1..cnt
  BY <1>2 DEF Span
<1>5. ASSUME NEW i \in 1..cnt
      PROVE  v + i - 1 \in Span(v, cnt) /\ (v + i - 1) - v + 1 = i
  BY <1>2 DEF Span
<1>6. ASSUME NEW t \in Span(v, cnt), NEW u \in Span(v, cnt), t - v + 1 = u - v + 1
      PROVE  t = u
  <2>1. t \in Nat /\ u \in Nat
    BY <1>4
  <2> QED
    BY <1>2, <1>6, <2>1
<1> QED
  BY <1>1, <1>2, <1>3, <1>4, <1>5, <1>6 DEF Span

PageTypes ==
    /\ vaddr_bitmap \subseteq Bit /\ pool_bitmap \subseteq Bit
    /\ pte \in [Bit -> Bit \cup {NULL}]
    /\ tables \subseteq Bit

\* The bitmaps and the page table agree, on their own: what is given back need
\* not have been handed out for that.
PageInv == PageTypes /\ MapConsistent

LEMMA NullNoFrame == NULL \notin Bit
  BY MemoryAssumption DEF NULL, Bit

\* malloc_page maps free frames at free pages.
LEMMA MallocMaps ==
    ASSUME PageInv, NEW cnt \in Nat \ {0}, NEW v \in Fits(vaddr_bitmap, cnt),
           cnt <= Cardinality(Bit \ pool_bitmap), malloc_page(v, cnt), tables' = tables
    PROVE  PageInv'
<1> DEFINE p == palloc(cnt)
           ps == Span(v, cnt)
<1>1. /\ \A i \in 1..cnt : p[i] \in Bit \ pool_bitmap
      /\ \A i, j \in 1..cnt : p[i] = p[j] => i = j
  BY FramesFree
<1>2. /\ vaddr_bitmap' = vaddr_bitmap \cup ps
      /\ pool_bitmap' = pool_bitmap \cup {p[i] : i \in 1..cnt}
      /\ pte' = [u \in Bit |-> IF u \in ps THEN p[u - v + 1] ELSE pte[u]]
  BY DEF malloc_page, Span
<1> HIDE DEF p
<1>3. /\ ps \subseteq Bit /\ ps \cap vaddr_bitmap = {}
      /\ \A u \in ps : u - v + 1 \in 1..cnt
      /\ \A t, u \in ps : t - v + 1 = u - v + 1 => t = u
      /\ \A i \in 1..cnt : v + i - 1 \in ps /\ (v + i - 1) - v + 1 = i
  BY FitsSpan
<1> DEFINE q == [u \in ps |-> p[u - v + 1]]
<1>4. \A u \in ps : q[u] \in Bit \ pool_bitmap
  BY <1>1, <1>3
<1>5. \A t, u \in ps : q[t] = q[u] => t = u
  BY <1>1, <1>3
<1>6. {p[i] : i \in 1..cnt} = {q[u] : u \in ps}
  <2>1. ASSUME NEW i \in 1..cnt PROVE p[i] \in {q[u] : u \in ps}
    <3>1. v + i - 1 \in ps /\ q[v + i - 1] = p[i]
      BY <1>3
    <3> HIDE DEF ps, q
    <3> QED
      BY <3>1
  <2>2. ASSUME NEW u \in ps PROVE q[u] \in {p[i] : i \in 1..cnt}
    BY <1>3
  <2> HIDE DEF q
  <2> QED
    BY <2>1, <2>2
<1>7. pte' = [u \in Bit |-> IF u \in ps THEN q[u] ELSE pte[u]]
  BY <1>2
<1> HIDE DEF q, ps
<1>8. PageTypes /\ MapConsistent
  BY DEF PageInv
<1>9. PageTypes'
  BY <1>2, <1>3, <1>4, <1>6, <1>7, <1>8 DEF PageTypes
<1>10. /\ \A u \in ps : pte'[u] = q[u]
       /\ \A u \in Bit \ ps : pte'[u] = pte[u]
  BY <1>3, <1>7
<1>11. \A u \in Bit : u \in vaddr_bitmap' <=> pte'[u] # NULL
  BY <1>2, <1>4, <1>8, <1>10, NullNoFrame DEF MapConsistent
<1>12. \A u \in vaddr_bitmap : u \in Bit \ ps /\ pte[u] \in pool_bitmap
  BY <1>3, <1>8 DEF PageTypes, MapConsistent
<1>13. ASSUME NEW t \in Bit, NEW u \in Bit, pte'[t] = pte'[u], pte'[t] # NULL PROVE t = u
  <2>1. t \in vaddr_bitmap \cup ps /\ u \in vaddr_bitmap \cup ps
    BY <1>2, <1>11, <1>13
  <2> QED
    BY <1>4, <1>5, <1>8, <1>10, <1>12, <1>13, <2>1 DEF MapConsistent
<1>14. {pte'[u] : u \in vaddr_bitmap'} = {pte[u] : u \in vaddr_bitmap} \cup {q[u] : u \in ps}
  BY <1>2, <1>10, <1>12
<1>15. pool_bitmap' = tables' \cup {pte'[u] : u \in vaddr_bitmap'}
  BY <1>2, <1>6, <1>8, <1>14 DEF MapConsistent
<1>16. tables' \cap {pte'[u] : u \in vaddr_bitmap'} = {}
  BY <1>4, <1>8, <1>14 DEF MapConsistent
<1>17. MapConsistent'
  BY <1>11, <1>13, <1>15, <1>16 DEF MapConsistent
<1> QED
  BY <1>9, <1>17 DEF PageInv

\* mfree_page takes pages out of all three tables alike.
LEMMA MfreeMaps ==
    ASSUME PageInv, NEW v, NEW cnt, Span(v, cnt) \subseteq Bit, mfree_page(v, cnt),
           tables' = tables
    PROVE  PageInv'
<1> DEFINE ps == Span(v, cnt)
<1>1. /\ vaddr_bitmap' = vaddr_bitmap \ ps
      /\ pool_bitmap' = pool_bitmap \ {pte[u] : u \in ps}
      /\ pte' = [u \in Bit |-> IF u \in ps THEN NULL ELSE pte[u]]
  BY DEF mfree_page, pfree, page_table_pte_remove, vaddr_remove, Span
<1>0. ps \subseteq Bit
  OBVIOUS
<1> HIDE DEF ps
<1>2. PageTypes /\ MapConsistent
  BY DEF PageInv
<1>3. PageTypes'
  BY <1>1, <1>2 DEF PageTypes
<1>4. \A u \in Bit : u \in vaddr_bitmap' <=> pte'[u] # NULL
  BY <1>1, <1>2 DEF MapConsistent
<1>5. \A u, t \in Bit : pte'[u] = pte'[t] /\ pte'[u] # NULL => u = t
  BY <1>1, <1>2 DEF MapConsistent
<1>6. vaddr_bitmap' \subseteq Bit /\ \A u \in vaddr_bitmap' : u \in vaddr_bitmap /\ pte'[u] = pte[u]
  BY <1>1, <1>2 DEF PageTypes
<1>7. ASSUME NEW f \in pool_bitmap' PROVE f \in tables \/ f \in {pte'[u] : u \in vaddr_bitmap'}
  <2>1. CASE f \notin tables
    <3>1. PICK u \in vaddr_bitmap : f = pte[u]
      BY <1>1, <1>2, <2>1 DEF MapConsistent
    <3>2. u \notin ps
      BY <1>1, <3>1
    <3> QED
      BY <1>1, <1>6, <3>1, <3>2
  <2> QED
    BY <2>1
<1>8. ASSUME NEW u \in vaddr_bitmap' PROVE pte'[u] \in pool_bitmap'
  <2>1. u \in vaddr_bitmap /\ u \notin ps /\ pte'[u] = pte[u] /\ u \in Bit
    BY <1>1, <1>6
  <2>2. pte[u] \in pool_bitmap /\ pte[u] # NULL
    BY <1>2, <2>1 DEF MapConsistent
  <2>3. \A t \in ps : pte[t] # pte[u]
    BY <1>0, <1>2, <2>1, <2>2 DEF MapConsistent
  <2> QED
    BY <1>1, <2>1, <2>2, <2>3
<1>9. ASSUME NEW f \in tables PROVE f \in pool_bitmap'
  <2>1. f \in pool_bitmap /\ f # NULL
    BY <1>2, NullNoFrame DEF MapConsistent, PageTypes
  <2>2. \A t \in ps : pte[t] # f
    BY <1>0, <1>2, <2>1 DEF MapConsistent
  <2> QED
    BY <1>1, <2>1, <2>2
<1>10. pool_bitmap' = tables' \cup {pte'[u] : u \in vaddr_bitmap'}
  BY <1>7, <1>8, <1>9
<1>11. tables' \cap {pte'[u] : u \in vaddr_bitmap'} = {}
  BY <1>2, <1>6 DEF MapConsistent
<1>12. MapConsistent'
  BY <1>4, <1>5, <1>10, <1>11 DEF MapConsistent
<1> QED
  BY <1>3, <1>12 DEF PageInv

\* A page table is built in a frame that nothing else uses.
LEMMA TableMaps ==
    ASSUME PageInv, user_page_table
    PROVE  PageInv'
<1> DEFINE f == Min(Bit \ pool_bitmap)
<1>1. CASE Halt
  BY <1>1 DEF PageInv, PageTypes, MapConsistent, Halt
<1>2. CASE ~(Bit \subseteq pool_bitmap) /\ pool_bitmap' = pool_bitmap \cup {f}
           /\ tables' = tables \cup {f} /\ UNCHANGED <<vaddr_bitmap, pte>>
  <2>1. Bit \ pool_bitmap # {} /\ Bit \ pool_bitmap \subseteq Nat
    BY <1>2 DEF Bit
  <2>2. f \in Bit \ pool_bitmap
    BY <2>1, LeastMember
  <2> HIDE DEF f
  <2>3. PageTypes'
    BY <1>2, <2>2 DEF PageInv, PageTypes
  <2>4. MapConsistent'
    BY <1>2, <2>2 DEF PageInv, PageTypes, MapConsistent
  <2> QED
    BY <2>3, <2>4 DEF PageInv
<1> QED
  BY <1>1, <1>2 DEF user_page_table

----------------------------------------------------------------------------
(* The free lists *)

LEMMA RangeDef ==
    ASSUME NEW S, NEW s \in Seq(S)
    PROVE  /\ DOMAIN s = 1..Len(s) /\ Len(s) \in Nat
           /\ \A i \in 1..Len(s) : s[i] \in Range(s) /\ s[i] \in S
           /\ \A x \in Range(s) : x \in S /\ \E i \in 1..Len(s) : x = s[i]
           /\ IsInjective(s) <=> \A i, j \in 1..Len(s) : s[i] = s[j] => i = j
  BY DEF Range, IsInjective

\* Taking the first block off a list
LEMMA TailTakes ==
    ASSUME NEW S, NEW s \in Seq(S), s # <<>>, IsInjective(s)
    PROVE  /\ Head(s) \in S /\ Head(s) \in Range(s)
           /\ Tail(s) \in Seq(S) /\ IsInjective(Tail(s))
           /\ Range(Tail(s)) = Range(s) \ {Head(s)}
<1> DEFINE t == Tail(s)
<1>1. Len(s) \in Nat /\ Len(s) >= 1 /\ t \in Seq(S) /\ Len(t) = Len(s) - 1 /\ Head(s) = s[1]
  BY EmptySeq, HeadTailProperties
<1>2. \A i \in 1..Len(t) : i + 1 \in 1..Len(s) /\ t[i] = s[i + 1]
  BY <1>1
<1> HIDE DEF t
<1>3. 1 \in 1..Len(s)
  BY <1>1
<1>4. \A i, j \in 1..Len(s) : s[i] = s[j] => i = j
  BY RangeDef
<1>5. ASSUME NEW i \in 1..Len(t), NEW j \in 1..Len(t), t[i] = t[j] PROVE i = j
  <2>1. i + 1 = j + 1
    BY <1>2, <1>4, <1>5
  <2> QED
    BY <1>1, <2>1
<1>6. IsInjective(t)
  BY <1>1, <1>5, RangeDef
<1>7. ASSUME NEW x \in Range(t) PROVE x \in Range(s) \ {Head(s)}
  <2>1. PICK i \in 1..Len(t) : x = t[i]
    BY <1>1, RangeDef
  <2>2. i + 1 \in 1..Len(s) /\ x = s[i + 1] /\ i + 1 # 1
    BY <1>1, <1>2, <2>1
  <2> QED
    BY <1>1, <1>3, <1>4, <2>2, RangeDef
<1>8. ASSUME NEW x \in Range(s), x # Head(s) PROVE x \in Range(t)
  <2>1. PICK i \in 1..Len(s) : x = s[i]
    BY RangeDef
  <2>2. i # 1
    BY <1>1, <1>8, <2>1
  <2>3. i - 1 \in 1..Len(t) /\ (i - 1) + 1 = i
    BY <1>1, <2>2
  <2>4. t[i - 1] = x
    BY <1>2, <2>1, <2>3
  <2> QED
    BY <1>1, <2>3, <2>4, RangeDef
<1> QED
  BY <1>1, <1>3, <1>6, <1>7, <1>8, RangeDef DEF t

\* Putting a block at the end of a list
LEMMA AppendPuts ==
    ASSUME NEW S, NEW s \in Seq(S), NEW x \in S, x \notin Range(s), IsInjective(s)
    PROVE  /\ Append(s, x) \in Seq(S) /\ IsInjective(Append(s, x))
           /\ Range(Append(s, x)) = Range(s) \cup {x}
<1> DEFINE t == Append(s, x)
<1>1. Len(s) \in Nat /\ t \in Seq(S) /\ Len(t) = Len(s) + 1 /\ t[Len(s) + 1] = x
      /\ \A i \in 1..Len(s) : t[i] = s[i]
  BY AppendProperties
<1> HIDE DEF t
<1>2. \A i \in 1..Len(t) : i \in 1..Len(s) \/ i = Len(s) + 1
  BY <1>1
<1>3. \A i \in 1..Len(s) : i \in 1..Len(t) /\ s[i] # x
  BY <1>1, RangeDef
<1>4. \A i, j \in 1..Len(s) : s[i] = s[j] => i = j
  BY RangeDef
<1>5. \A i, j \in 1..Len(t) : t[i] = t[j] => i = j
  BY <1>1, <1>2, <1>3, <1>4
<1>6. Len(s) + 1 \in 1..Len(t)
  BY <1>1
<1>7. Range(t) = Range(s) \cup {x}
  BY <1>1, <1>2, <1>3, <1>6, RangeDef
<1> QED
  BY <1>1, <1>5, <1>7, RangeDef DEF t

\* f[i] is what is left of the first i blocks of s without those of page v.
Kept(f, s, v, n) == f = [i \in 0..n |->
    IF i = 0 THEN <<>>
    ELSE IF s[i][1] = v THEN f[i - 1] ELSE Append(f[i - 1], s[i])]

LEMMA KeptExists ==
    ASSUME NEW s, NEW v
    PROVE  \A n \in Nat : \E f : Kept(f, s, v, n)
<1> DEFINE P == {n \in Nat : \E f : Kept(f, s, v, n)}
<1>1. 0 \in P
  <2> DEFINE f == [i \in 0..0 |-> <<>>]
  <2>1. \A i \in 0..0 : i = 0
    OBVIOUS
  <2>2. Kept(f, s, v, 0)
    BY <2>1 DEF Kept
  <2> QED
    BY <2>2
<1>2. ASSUME NEW n \in Nat, n >= 0, n \in P PROVE n + 1 \in P
  <2>1. PICK f : Kept(f, s, v, n)
    BY <1>2
  <2> DEFINE last == IF s[n + 1][1] = v THEN f[n] ELSE Append(f[n], s[n + 1])
             g == [i \in 0..(n + 1) |-> IF i = n + 1 THEN last ELSE f[i]]
  <2>2. \A i \in 0..n : g[i] = f[i] /\ i # n + 1
    OBVIOUS
  <2>3. \A i \in 0..(n + 1) : i # n + 1 => i \in 0..n /\ (i # 0 => i - 1 \in 0..n)
    OBVIOUS
  <2>4. n + 1 # 0 /\ n \in 0..n /\ (n + 1) - 1 = n
    OBVIOUS
  <2>5. ASSUME NEW i \in 0..(n + 1)
        PROVE  g[i] = IF i = 0 THEN <<>>
                      ELSE IF s[i][1] = v THEN g[i - 1] ELSE Append(g[i - 1], s[i])
    <3>1. CASE i = n + 1
      <4>1. g[i] = last /\ g[i - 1] = f[n]
        BY <2>2, <2>4, <3>1
      <4> QED
        BY <2>4, <3>1, <4>1
    <3>2. CASE i # n + 1
      <4>1. i \in 0..n /\ g[i] = f[i] /\ (i # 0 => g[i - 1] = f[i - 1])
        BY <2>2, <2>3, <3>2
      <4>2. f[i] = IF i = 0 THEN <<>>
                   ELSE IF s[i][1] = v THEN f[i - 1] ELSE Append(f[i - 1], s[i])
        BY <2>1, <4>1 DEF Kept
      <4> HIDE DEF g
      <4> QED
        BY <4>1, <4>2
    <3> QED
      BY <3>1, <3>2
  <2>6. Kept(g, s, v, n + 1)
    <3>1. g = [i \in 0..(n + 1) |-> g[i]]
      OBVIOUS
    <3> HIDE DEF g
    <3> QED
      BY <2>5, <3>1 DEF Kept
  <2> HIDE DEF g
  <2>7. \E h : Kept(h, s, v, n + 1)
    BY <2>6
  <2> QED
    BY <1>2, <2>7
<1>3. \A n \in Nat : n >= 0 => n \in P
  <2> HIDE DEF P
  <2> QED
    BY <1>1, <1>2, SetInduction
<1>4. \A n \in Nat : n >= 0
  OBVIOUS
<1> QED
  BY <1>3, <1>4

\* Without takes the blocks of page v out of a list and leaves the others.
LEMMA WithoutTakes ==
    ASSUME NEW S, NEW s \in Seq(S), NEW v, IsInjective(s)
    PROVE  /\ Without(s, v) \in Seq(S) /\ IsInjective(Without(s, v))
           /\ Range(Without(s, v)) = {b \in Range(s) : b[1] # v}
<1> DEFINE kept == CHOOSE f : Kept(f, s, v, Len(s))
<1>1. Len(s) \in Nat /\ \A i \in 1..Len(s) : s[i] \in S /\ s[i] \in Range(s)
  BY RangeDef
<1>2. Kept(kept, s, v, Len(s))
  <2>1. \E f : Kept(f, s, v, Len(s))
    BY <1>1, KeptExists
  <2> QED
    BY <2>1
<1>3. Without(s, v) = kept[Len(s)]
  BY DEF Without, Kept
<1> HIDE DEF kept
<1> DEFINE First(i) == {s[j] : j \in 1..i}
           Good(i) == /\ kept[i] \in Seq(S) /\ IsInjective(kept[i])
                      /\ Range(kept[i]) = {b \in First(i) : b[1] # v}
           P == {i \in Nat : i <= Len(s) => Good(i)}
<1>4. 0 \in P
  <2>1. kept[0] = <<>>
    BY <1>1, <1>2 DEF Kept
  <2>2. <<>> \in Seq(S) /\ IsInjective(<<>>) /\ Range(<<>>) = {}
    BY DEF IsInjective, Range
  <2>3. First(0) = {}
    OBVIOUS
  <2> QED
    BY <2>1, <2>2, <2>3
<1>5. ASSUME NEW i \in Nat, i >= 0, i \in P PROVE i + 1 \in P
  <2> SUFFICES ASSUME i + 1 <= Len(s) PROVE Good(i + 1)
    OBVIOUS
  <2>1. i <= Len(s) /\ i + 1 \in 0..Len(s) /\ i + 1 \in 1..Len(s) /\ i + 1 # 0 /\ i + 1 - 1 = i
    BY <1>1
  <2>2. Good(i)
    BY <1>5, <2>1
  <2>3. First(i + 1) = First(i) \cup {s[i + 1]}
    <3>1. 1..(i + 1) = (1..i) \cup {i + 1}
      OBVIOUS
    <3> QED
      BY <3>1
  <2>4. s[i + 1] \notin First(i)
    <3>1. \A j \in 1..i : j \in 1..Len(s) /\ j # i + 1
      BY <1>1, <2>1
    <3> QED
      BY <2>1, <3>1, RangeDef
  <2> DEFINE x == s[i + 1]
  <2>5. kept[i + 1] = IF x[1] = v THEN kept[i] ELSE Append(kept[i], x)
    <3>1. \A k \in 0..Len(s) : kept[k] =
             IF k = 0 THEN <<>>
             ELSE IF s[k][1] = v THEN kept[k - 1] ELSE Append(kept[k - 1], s[k])
      BY <1>2 DEF Kept
    <3>2. kept[i + 1] = IF s[i + 1][1] = v THEN kept[i + 1 - 1]
                        ELSE Append(kept[i + 1 - 1], s[i + 1])
      BY <2>1, <3>1
    <3> QED
      BY <2>1, <3>2
  <2>6. x \in S
    BY <1>1, <2>1
  <2> HIDE DEF x, First
  <2>7. CASE x[1] = v
    BY <2>2, <2>3, <2>5, <2>7 DEF x
  <2>8. CASE x[1] # v
    <3>1. x \notin Range(kept[i])
      BY <2>2, <2>4 DEF x
    <3>2. /\ Append(kept[i], x) \in Seq(S) /\ IsInjective(Append(kept[i], x))
          /\ Range(Append(kept[i], x)) = Range(kept[i]) \cup {x}
      BY <2>2, <2>6, <3>1, AppendPuts
    <3>3. kept[i + 1] = Append(kept[i], x)
      BY <2>5, <2>8
    <3>4. First(i + 1) = First(i) \cup {x}
      BY <2>3 DEF x
    <3> QED
      BY <2>2, <2>8, <3>2, <3>3, <3>4
  <2> QED
    BY <2>7, <2>8
<1>6. \A i \in Nat : i >= 0 => i \in P
  <2> HIDE DEF P
  <2> QED
    BY <1>4, <1>5, SetInduction
<1>7. Good(Len(s))
  <2>1. Len(s) >= 0 /\ Len(s) <= Len(s)
    BY <1>1
  <2> QED
    BY <1>1, <1>6, <2>1
<1>8. First(Len(s)) = Range(s)
  BY DEF Range
<1> QED
  BY <1>3, <1>7, <1>8

\* The blocks of a new arena: all but the first, which is handed out, are put
\* on the list.
LEMMA NewBlocksFree ==
    ASSUME NEW v \in Bit, NEW d \in Desc
    PROVE  LET s == Tail(NewBlocks(v, d))
           IN  /\ s \in Seq(Bit \X Nat) /\ IsInjective(s)
               /\ Range(s) = {v} \X (2..blocks_per_arena[d])
<1> DEFINE n == blocks_per_arena[d]
           nb == NewBlocks(v, d)
<1>1. n \in Nat /\ n >= 1
  BY MemoryAssumption
<1>2. nb = [i \in 1..n |-> <<v, i>>]
  BY DEF NewBlocks
<1> HIDE DEF n, nb
<1>3. nb \in Seq(Bit \X Nat) /\ Len(nb) = n /\ \A i \in 1..n : nb[i] = <<v, i>>
  <2>1. \A i \in 1..n : <<v, i>> \in Bit \X Nat
    OBVIOUS
  <2> QED
    BY <1>1, <1>2, <2>1
<1>4. nb # <<>>
  BY <1>1, <1>3
<1>5. IsInjective(nb)
  BY <1>3, RangeDef
<1>6. Head(nb) = <<v, 1>>
  BY <1>1, <1>3, <1>4
<1>7. Range(nb) = {v} \X (1..n)
  <2>1. ASSUME NEW x \in Range(nb) PROVE x \in {v} \X (1..n)
    <3>1. PICK i \in 1..n : x = nb[i]
      BY <1>3, RangeDef
    <3> QED
      BY <1>3, <3>1
  <2>2. ASSUME NEW x \in {v} \X (1..n) PROVE x \in Range(nb)
    <3>1. PICK i \in 1..n : x = <<v, i>>
      BY <2>2
    <3>2. nb[i] \in Range(nb)
      BY <1>3, RangeDef
    <3> QED
      BY <1>3, <3>1, <3>2
  <2> QED
    BY <2>1, <2>2
<1>8. ({v} \X (1..n)) \ {<<v, 1>>} = {v} \X (2..n)
  <2>1. \A i \in Nat : i \in 2..n <=> i \in 1..n /\ i # 1
    BY <1>1
  <2> QED
    BY <1>1, <2>1
<1>9. Tail(nb) \in Seq(Bit \X Nat) /\ IsInjective(Tail(nb))
      /\ Range(Tail(nb)) = Range(nb) \ {Head(nb)}
  BY <1>3, <1>4, <1>5, TailTakes
<1> QED
  BY <1>6, <1>7, <1>8, <1>9 DEF n, nb

----------------------------------------------------------------------------
(* Runs and blocks *)

ArenaRec == {NoArena} \cup {Large(c) : c \in 1..Pages}
               \cup {Small(d, c) : d \in Desc, c \in Nat}

HeapTypes ==
    /\ arena \in [Bit -> ArenaRec]
    /\ free_list \in [Desc -> Seq(Bit \X Nat)]
    /\ runs \subseteq Bit \X (1..Pages)
    /\ blocks \subseteq Bit \X Nat
    /\ panic \in BOOLEAN

\* The blocks of page v that are in use, and those on the list of its class
InUse(v) == {b \in blocks : b[1] = v}
OnList(v) == {b \in Range(free_list[arena[v].desc]) : b[1] = v}

\* A block that was handed out lies in an arena.
KindInv == \A b \in blocks : arena[b[1]].kind \in {"small", "large"}

\* A list holds each of its blocks once, and only blocks of its class.
ListInv(d) ==
    /\ IsInjective(free_list[d])
    /\ \A b \in Range(free_list[d]) : arena[b[1]].kind = "small" /\ arena[b[1]].desc = d

\* Each block of a page that is cut into blocks is either in use or on the
\* list, and at least one is in use.
PageCut(v) == arena[v].kind = "small" =>
    /\ InUse(v) # {}
    /\ InUse(v) \cap OnList(v) = {}
    /\ InUse(v) \cup OnList(v) = {v} \X (1..blocks_per_arena[arena[v].desc])
    /\ arena[v].cnt = Cardinality(OnList(v))

HeapInv ==
    /\ HeapTypes
    /\ KindInv
    /\ NoOverlap
    /\ \A d \in Desc : ListInv(d)
    /\ \A v \in Bit : PageCut(v)

LEMMA ArenaRecs ==
    /\ NoArena \in ArenaRec /\ NoArena.kind = "none"
    /\ \A c \in 1..Pages : Large(c) \in ArenaRec /\ Large(c).kind = "large" /\ Large(c).cnt = c
    /\ \A d \in Desc, c \in Nat : /\ Small(d, c) \in ArenaRec
                                  /\ Small(d, c).kind = "small" /\ Small(d, c).desc = d
                                  /\ Small(d, c).cnt = c
    /\ \A a \in ArenaRec : a.kind = "large" => a.cnt \in 1..Pages /\ a = Large(a.cnt)
    /\ \A a \in ArenaRec : a.kind = "small" =>
          a.desc \in Desc /\ a.cnt \in Nat /\ a = Small(a.desc, a.cnt)
<1>1. ASSUME NEW a \in ArenaRec, a.kind = "large" PROVE a.cnt \in 1..Pages /\ a = Large(a.cnt)
  BY <1>1 DEF ArenaRec, NoArena, Large, Small
<1>2. ASSUME NEW a \in ArenaRec, a.kind = "small"
      PROVE  a.desc \in Desc /\ a.cnt \in Nat /\ a = Small(a.desc, a.cnt)
  BY <1>2 DEF ArenaRec, NoArena, Large, Small
<1>3. NoArena \in ArenaRec /\ NoArena.kind = "none"
  BY DEF ArenaRec, NoArena
<1>4. \A c \in 1..Pages : Large(c) \in ArenaRec /\ Large(c).kind = "large" /\ Large(c).cnt = c
  BY DEF ArenaRec, Large
<1>5. \A d \in Desc, c \in Nat : /\ Small(d, c) \in ArenaRec
                                 /\ Small(d, c).kind = "small" /\ Small(d, c).desc = d
                                 /\ Small(d, c).cnt = c
  BY DEF ArenaRec, Small
<1> QED
  BY <1>1, <1>2, <1>3, <1>4, <1>5

\* A block lies where it starts, in mapped pages; so does a page cut in blocks.
LEMMA BlocksLive ==
    ASSUME HeapInv
    PROVE  /\ \A b \in blocks : b[1] \in Bit /\ b[1] \in Extent(b) /\ b[1] \in vaddr_bitmap
           /\ \A b \in blocks : arena[b[1]].kind = "small" => Extent(b) = {b[1]}
           /\ \A b \in blocks : arena[b[1]].kind = "large" =>
                 Extent(b) = Span(b[1], arena[b[1]].cnt) /\ arena[b[1]].cnt \in 1..Pages
           /\ \A v \in Bit : arena[v].kind = "small" => v \in vaddr_bitmap /\ arena[v].desc \in Desc
<1>1. HeapTypes /\ KindInv /\ \A b \in blocks : Extent(b) \subseteq vaddr_bitmap
  BY DEF HeapInv, NoOverlap
<1>2. \A b \in blocks : b[1] \in Bit /\ arena[b[1]] \in ArenaRec
  BY <1>1 DEF HeapTypes
<1>3. ASSUME NEW b \in blocks
      PROVE  /\ arena[b[1]].kind = "small" => Extent(b) = {b[1]}
             /\ arena[b[1]].kind = "large" =>
                   Extent(b) = Span(b[1], arena[b[1]].cnt) /\ arena[b[1]].cnt \in 1..Pages
             /\ b[1] \in Extent(b)
  <2>1. CASE arena[b[1]].kind = "small"
    BY <2>1 DEF Extent
  <2>2. CASE arena[b[1]].kind = "large"
    <3>1. arena[b[1]].cnt \in 1..Pages
      BY <1>2, <2>2, ArenaRecs
    <3>2. Extent(b) = Span(b[1], arena[b[1]].cnt)
      BY <2>2 DEF Extent, Span
    <3>3. b[1] \in Span(b[1], arena[b[1]].cnt)
      BY <1>2, <3>1, MemoryAssumption DEF Span, Bit
    <3> QED
      BY <2>2, <3>1, <3>2, <3>3
  <2> QED
    BY <1>1, <2>1, <2>2 DEF KindInv
<1>4. ASSUME NEW v \in Bit, arena[v].kind = "small"
      PROVE  v \in vaddr_bitmap /\ arena[v].desc \in Desc
  <2>1. PICK b \in blocks : b[1] = v
    BY <1>4 DEF HeapInv, PageCut, InUse
  <2>2. arena[v] \in ArenaRec
    BY <1>1 DEF HeapTypes
  <2> QED
    BY <1>1, <1>3, <1>4, <2>1, <2>2, ArenaRecs
<1> QED
  BY <1>1, <1>2, <1>3, <1>4

\* What stays the same about a page keeps it cut as it was.
LEMMA PageSame ==
    ASSUME NEW v, PageCut(v), arena'[v] = arena[v],
           arena[v].kind = "small" => InUse(v)' = InUse(v) /\ OnList(v)' = OnList(v)
    PROVE  PageCut(v)'
  BY DEF PageCut

\* Pages given back that no other run or block has a part in
LEMMA OverlapShrink ==
    ASSUME NoOverlap, NEW ps, vaddr_bitmap' = vaddr_bitmap \ ps,
           runs' \subseteq runs, blocks' \subseteq blocks,
           \A r \in runs' : Span(r[1], r[2]) \cap ps = {},
           \A b \in blocks' : /\ Extent(b) \cap ps = {} /\ Extent(b)' = Extent(b)
                              /\ arena'[b[1]].kind = arena[b[1]].kind
    PROVE  NoOverlap'
<1>1. \A r \in runs' : r[1]..(r[1] + r[2] - 1) \subseteq vaddr_bitmap'
  BY DEF NoOverlap, Span
<1>2. \A b \in blocks' : Extent(b)' \subseteq vaddr_bitmap'
  BY DEF NoOverlap
<1>3. \A r, q \in runs' : r # q =>
         (r[1]..(r[1] + r[2] - 1)) \cap (q[1]..(q[1] + q[2] - 1)) = {}
  BY DEF NoOverlap
<1>4. \A r \in runs', b \in blocks' : (r[1]..(r[1] + r[2] - 1)) \cap Extent(b)' = {}
  BY DEF NoOverlap
<1>5. \A b, c \in blocks' : b # c /\ Extent(b)' \cap Extent(c)' # {} =>
         b[1] = c[1] /\ arena'[b[1]].kind = "small"
  BY DEF NoOverlap
<1> QED
  BY <1>1, <1>2, <1>3, <1>4, <1>5 DEF NoOverlap

\* A run or a block in pages that were free
LEMMA OverlapGrow ==
    ASSUME NoOverlap, NEW ps, ps \cap vaddr_bitmap = {}, vaddr_bitmap' = vaddr_bitmap \cup ps,
           \A b \in blocks : Extent(b)' = Extent(b) /\ arena'[b[1]].kind = arena[b[1]].kind,
           NEW x, Span(x[1], x[2]) \subseteq ps, NEW y, Extent(y)' \subseteq ps,
           \/ runs' = runs \cup {x} /\ blocks' = blocks
           \/ runs' = runs /\ blocks' = blocks \cup {y}
    PROVE  NoOverlap'
<1> DEFINE R(r) == r[1]..(r[1] + r[2] - 1)
           E(b) == Extent(b)'
<1>0. R(x) \subseteq ps
  BY DEF Span
<1>1. /\ \A r \in runs : R(r) \subseteq vaddr_bitmap
      /\ \A b \in blocks : E(b) \subseteq vaddr_bitmap
      /\ \A r, q \in runs : r # q => R(r) \cap R(q) = {}
      /\ \A r \in runs, b \in blocks : R(r) \cap E(b) = {}
      /\ \A b, c \in blocks : b # c /\ E(b) \cap E(c) # {} =>
            b[1] = c[1] /\ arena'[b[1]].kind = "small"
  BY DEF NoOverlap
<1>7. E(y) \subseteq ps
  OBVIOUS
<1> HIDE DEF R, E
<1>2. \A r \in runs' : R(r) \subseteq vaddr_bitmap'
  BY <1>0, <1>1
<1>3. \A b \in blocks' : E(b) \subseteq vaddr_bitmap'
  BY <1>1, <1>7
<1>4. \A r, q \in runs' : r # q => R(r) \cap R(q) = {}
  BY <1>0, <1>1
<1>5. \A r \in runs', b \in blocks' : R(r) \cap E(b) = {}
  BY <1>0, <1>1, <1>7
<1>6. \A b, c \in blocks' : b # c /\ E(b) \cap E(c) # {} =>
         b[1] = c[1] /\ arena'[b[1]].kind = "small"
  BY <1>1, <1>7
<1> QED
  BY <1>2, <1>3, <1>4, <1>5, <1>6 DEF NoOverlap, R, E

\* The arena of a page tells where its blocks lie.
LEMMA ExtentSame ==
    ASSUME NEW b, arena'[b[1]] = arena[b[1]]
    PROVE  Extent(b)' = Extent(b)
  BY DEF Extent

LEMMA HeapSame ==
    ASSUME HeapInv, UNCHANGED <<vaddr_bitmap, arena, free_list, runs, blocks>>,
           panic' \in BOOLEAN
    PROVE  HeapInv'
<1>1. HeapTypes' /\ KindInv'
  BY DEF HeapInv, HeapTypes, KindInv
<1>2. NoOverlap'
  BY DEF HeapInv, NoOverlap, Extent
<1>3. \A d \in Desc : ListInv(d)'
  BY DEF HeapInv, ListInv
<1>4. \A v \in Bit : PageCut(v)'
  BY DEF HeapInv, PageCut, InUse, OnList
<1> QED
  BY <1>1, <1>2, <1>3, <1>4 DEF HeapInv

LEMMA HaltKeeps ==
    ASSUME PageInv, HeapInv, Halt
    PROVE  PageInv' /\ HeapInv'
<1>1. PageInv'
  BY DEF Halt, PageInv, PageTypes, MapConsistent
<1>2. HeapInv'
  BY HeapSame DEF Halt
<1> QED
  BY <1>1, <1>2

\* Pages that were free are handed out, and hold no blocks of a list.
LEMMA HeapGrow ==
    ASSUME HeapInv, NEW ps \in SUBSET Bit, ps \cap vaddr_bitmap = {},
           vaddr_bitmap' = vaddr_bitmap \cup ps,
           arena' \in [Bit -> ArenaRec],
           \A u \in Bit \ ps : arena'[u] = arena[u],
           \A u \in ps : arena'[u].kind # "small",
           NEW x \in Bit \X (1..Pages), Span(x[1], x[2]) \subseteq ps,
           NEW y \in Bit \X Nat, Extent(y)' \subseteq ps, y[1] \in ps,
           \/ runs' = runs \cup {x} /\ blocks' = blocks
           \/ runs' = runs /\ blocks' = blocks \cup {y} /\ arena'[y[1]].kind = "large",
           UNCHANGED <<free_list, panic>>
    PROVE  HeapInv'
<1>0. HeapTypes /\ KindInv /\ NoOverlap /\ (\A d \in Desc : ListInv(d)) /\ \A v \in Bit : PageCut(v)
  BY DEF HeapInv
<1>1. /\ \A b \in blocks : b[1] \in Bit \ ps
      /\ \A v \in Bit : arena[v].kind = "small" => v \notin ps
  BY BlocksLive
<1>2. \A b \in blocks : arena'[b[1]] = arena[b[1]]
  BY <1>1
<1>3. \A b \in blocks : Extent(b)' = Extent(b) /\ arena'[b[1]].kind = arena[b[1]].kind
  BY <1>2, ExtentSame
<1>4. NoOverlap'
  BY <1>0, <1>3, OverlapGrow
<1>5. HeapTypes'
  BY <1>0 DEF HeapTypes
<1>6. KindInv'
  BY <1>0, <1>2 DEF KindInv
<1>7. ASSUME NEW d \in Desc PROVE ListInv(d)'
  <2>1. \A b \in Range(free_list[d]) : b[1] \in Bit
    <3>1. free_list[d] \in Seq(Bit \X Nat)
      BY <1>0 DEF HeapTypes
    <3>2. \A b \in Range(free_list[d]) : b \in Bit \X Nat
      BY <3>1, RangeDef
    <3> QED
      BY <3>2
  <2>2. \A b \in Range(free_list[d]) : arena'[b[1]] = arena[b[1]]
    BY <1>0, <1>1, <2>1 DEF ListInv
  <2> QED
    BY <1>0, <2>2 DEF ListInv
<1>8. ASSUME NEW v \in Bit PROVE PageCut(v)'
  <2>1. CASE v \in ps
    BY <2>1 DEF PageCut
  <2>2. CASE v \notin ps
    <3>1. arena'[v] = arena[v] /\ InUse(v)' = InUse(v) /\ OnList(v)' = OnList(v)
      BY <2>2 DEF InUse, OnList
    <3> QED
      BY <1>0, <3>1, PageSame
  <2> QED
    BY <2>1, <2>2
<1> QED
  BY <1>4, <1>5, <1>6, <1>7, <1>8 DEF HeapInv

LEMMA GetPagesKeeps ==
    ASSUME PageInv, HeapInv, NEW past \in BOOLEAN, NEW cnt \in 1..Pages,
           get_kernel_pages(past, cnt)
    PROVE  PageInv' /\ HeapInv'
<1>0. PICK v : v = PageFor(past, cnt)
  OBVIOUS
<1> DEFINE ps == Span(v, cnt)
<1>1. CASE v = Failed /\ Halt
  BY <1>1, HaltKeeps
<1>2. CASE v \in Bit /\ malloc_page(v, cnt)
           /\ arena' = [u \in Bit |-> IF u \in v..(v + cnt - 1) THEN NoArena ELSE arena[u]]
           /\ runs' = runs \cup {<<v, cnt>>}
           /\ UNCHANGED <<free_list, blocks, tables, panic>>
  <2>1. cnt \in Nat \ {0}
    BY MemoryAssumption
  <2>2. v \in Fits(vaddr_bitmap, cnt) /\ cnt <= Cardinality(Bit \ pool_bitmap)
    BY <1>0, <1>2, <2>1, PageForFits
  <2>3. PageInv'
    BY <1>2, <2>1, <2>2, MallocMaps
  <2>4. v \in Bit /\ v \in ps /\ ps \subseteq Bit /\ ps \cap vaddr_bitmap = {}
    BY <2>1, <2>2, FitsSpan
  <2>5. vaddr_bitmap' = vaddr_bitmap \cup ps
    BY <1>2 DEF malloc_page, Span
  <2>6. arena' = [u \in Bit |-> IF u \in ps THEN NoArena ELSE arena[u]]
    BY <1>2 DEF Span
  <2> DEFINE x == <<v, cnt>>
             y == <<v, 0>>
  <2>7. x \in Bit \X (1..Pages) /\ Span(x[1], x[2]) = ps
        /\ y \in Bit \X Nat /\ y[1] = v
    BY <1>2
  <2> HIDE DEF ps
  <2>8. arena' \in [Bit -> ArenaRec]
    BY <2>6, ArenaRecs DEF HeapInv, HeapTypes
  <2>9. /\ \A u \in Bit \ ps : arena'[u] = arena[u]
        /\ \A u \in ps : arena'[u] = NoArena /\ arena'[u].kind # "small"
    BY <2>4, <2>6, ArenaRecs
  <2>10. Extent(y)' \subseteq ps
    <3>1. arena'[y[1]].kind = "none"
      BY <2>4, <2>7, <2>9, ArenaRecs
    <3> QED
      BY <2>4, <2>7, <3>1 DEF Extent
  <2>11. runs' = runs \cup {x} /\ blocks' = blocks
    BY <1>2
  <2> HIDE DEF x, y
  <2> QED
    BY <1>2, <2>3, <2>4, <2>5, <2>7, <2>8, <2>9, <2>10, <2>11, HeapGrow
<1> QED
  BY <1>0, <1>1, <1>2 DEF get_kernel_pages

LEMMA MallocLargeKeeps ==
    ASSUME PageInv, HeapInv, NEW past \in BOOLEAN, NEW cnt \in 1..(Pages + 1),
           sys_malloc_large(past, cnt)
    PROVE  PageInv' /\ HeapInv'
<1>0. PICK v : v = PageFor(past, cnt)
  OBVIOUS
<1> DEFINE ps == Span(v, cnt)
<1>1. CASE v = Failed /\ Halt
  BY <1>1, HaltKeeps
<1>2. CASE v \in Bit /\ malloc_page(v, cnt)
           /\ arena' = [u \in Bit |-> IF u = v THEN Large(cnt)
                                      ELSE IF u \in v..(v + cnt - 1) THEN NoArena
                                      ELSE arena[u]]
           /\ blocks' = blocks \cup {<<v, 0>>}
           /\ UNCHANGED <<free_list, runs, tables, panic>>
  <2>1. cnt \in Nat \ {0}
    BY MemoryAssumption
  <2>2. v \in Fits(vaddr_bitmap, cnt) /\ cnt <= Cardinality(Bit \ pool_bitmap)
    BY <1>0, <1>2, <2>1, PageForFits
  <2>3. PageInv'
    BY <1>2, <2>1, <2>2, MallocMaps
  <2>4. v \in Bit /\ v \in ps /\ ps \subseteq Bit /\ ps \cap vaddr_bitmap = {} /\ cnt \in 1..Pages
    BY <2>1, <2>2, FitsSpan
  <2>5. vaddr_bitmap' = vaddr_bitmap \cup ps
    BY <1>2 DEF malloc_page, Span
  <2>6. arena' = [u \in Bit |-> IF u = v THEN Large(cnt) ELSE IF u \in ps THEN NoArena
                                ELSE arena[u]]
    BY <1>2 DEF Span
  <2> DEFINE x == <<v, cnt>>
             y == <<v, 0>>
  <2>7. x \in Bit \X (1..Pages) /\ Span(x[1], x[2]) = ps
        /\ y \in Bit \X Nat /\ y[1] = v
    BY <2>4
  <2>12. Extent(y)' \subseteq ps /\ arena'[y[1]].kind = "large"
    <3>1. arena'[y[1]] = Large(cnt)
      BY <2>4, <2>6, <2>7
    <3>2. arena'[y[1]].kind = "large" /\ arena'[y[1]].cnt = cnt
      BY <2>4, <3>1, ArenaRecs
    <3> QED
      BY <2>7, <3>2 DEF Extent, Span
  <2> HIDE DEF ps
  <2>8. arena' \in [Bit -> ArenaRec]
    BY <2>4, <2>6, ArenaRecs DEF HeapInv, HeapTypes
  <2>9. /\ \A u \in Bit \ ps : arena'[u] = arena[u]
        /\ \A u \in ps : arena'[u].kind # "small"
    BY <2>4, <2>6, ArenaRecs
  <2>11. runs' = runs /\ blocks' = blocks \cup {y}
    BY <1>2
  <2> HIDE DEF x, y
  <2> QED
    BY <1>2, <2>3, <2>4, <2>5, <2>7, <2>8, <2>9, <2>11, <2>12, HeapGrow
<1> QED
  BY <1>0, <1>1, <1>2 DEF sys_malloc_large

\* The number of blocks of a page
LEMMA CutCardinality ==
    ASSUME NEW v, NEW a \in Nat, NEW n \in Nat, a <= n
    PROVE  IsFiniteSet({v} \X (a + 1..n)) /\ Cardinality({v} \X (a + 1..n)) = n - a
<1>1. IsFiniteSet(a + 1..n) /\ Cardinality(a + 1..n) = n - a
  <2>1. a + 1 \in Nat /\ n \in Nat
    OBVIOUS
  <2>2. IsFiniteSet(a + 1..n)
        /\ Cardinality(a + 1..n) = IF a + 1 > n THEN 0 ELSE n - (a + 1) + 1
    BY <2>1, FS_Interval
  <2>3. (IF a + 1 > n THEN 0 ELSE n - (a + 1) + 1) = n - a
    OBVIOUS
  <2> QED
    BY <2>2, <2>3
<1>2. IsFiniteSet({v}) /\ Cardinality({v}) = 1
  BY FS_Singleton
<1>3. /\ IsFiniteSet({v} \X (a + 1..n))
      /\ Cardinality({v} \X (a + 1..n)) = Cardinality({v}) * Cardinality(a + 1..n)
  <2> DEFINE I == a + 1..n
  <2> HIDE DEF I
  <2>1. IsFiniteSet(I)
    BY <1>1 DEF I
  <2>2. IsFiniteSet({v} \X I) /\ Cardinality({v} \X I) = Cardinality({v}) * Cardinality(I)
    BY <1>2, <2>1, FS_Product
  <2> QED
    BY <2>2 DEF I
<1>4. 1 * (n - a) = n - a
  OBVIOUS
<1> QED
  BY <1>1, <1>2, <1>3, <1>4

\* The blocks on a list lie in pages of the pool.
LEMMA ListPages ==
    ASSUME HeapInv, NEW d \in Desc
    PROVE  /\ free_list[d] \in Seq(Bit \X Nat) /\ IsInjective(free_list[d])
           /\ \A b \in Range(free_list[d]) :
                 /\ b \in Bit \X Nat /\ b[1] \in Bit
                 /\ arena[b[1]].kind = "small" /\ arena[b[1]].desc = d
<1>1. free_list[d] \in Seq(Bit \X Nat)
  BY DEF HeapInv, HeapTypes
<1>2. \A b \in Range(free_list[d]) : b \in Bit \X Nat
  BY <1>1, RangeDef
<1>3. ListInv(d)
  BY DEF HeapInv
<1> QED
  BY <1>1, <1>2, <1>3 DEF ListInv

LEMMA MallocArenaKeeps ==
    ASSUME PageInv, HeapInv, NEW past \in BOOLEAN, NEW d \in Desc,
           sys_malloc_arena(past, d)
    PROVE  PageInv' /\ HeapInv'
<1> DEFINE n == blocks_per_arena[d]
<1>0. PICK v : v = PageFor(past, 1)
  OBVIOUS
<1>1. CASE v = Failed /\ Halt
  BY <1>1, HaltKeeps
<1>2. CASE v \in Bit /\ malloc_page(v, 1)
           /\ arena' = [arena EXCEPT ![v] = Small(d, n - 1)]
           /\ free_list' = [free_list EXCEPT ![d] = Tail(NewBlocks(v, d))]
           /\ blocks' = blocks \cup {<<v, 1>>}
           /\ UNCHANGED <<runs, tables, panic>>
  <2> DEFINE y == <<v, 1>>
             s == Tail(NewBlocks(v, d))
  <2>1. v \in Fits(vaddr_bitmap, 1) /\ 1 <= Cardinality(Bit \ pool_bitmap) /\ 1 \in Nat \ {0}
    <3>1. 1 \in Nat \ {0}
      OBVIOUS
    <3>2. PageFor(past, 1) \in Bit
      BY <1>0, <1>2
    <3>3. PageFor(past, 1) \in Fits(vaddr_bitmap, 1) /\ 1 <= Cardinality(Bit \ pool_bitmap)
      BY <3>1, <3>2, PageForFits
    <3> QED
      BY <1>0, <3>1, <3>3
  <2>2. PageInv'
    BY <1>2, <2>1, MallocMaps
  <2>3. v \in Nat /\ v \notin vaddr_bitmap /\ 1 \in 1..Pages
    BY <2>1, FitsSpan
  <2>4. Span(v, 1) = {v} /\ Span(y[1], y[2]) = {v}
    BY <2>3 DEF Span
  <2>5. vaddr_bitmap' = vaddr_bitmap \cup {v}
    BY <1>2, <2>4 DEF malloc_page, Span
  <2>6. HeapTypes /\ KindInv /\ NoOverlap /\ (\A e \in Desc : ListInv(e)) /\ \A u \in Bit : PageCut(u)
    BY DEF HeapInv
  <2>7. n \in Nat /\ n >= 1 /\ n - 1 \in Nat
    BY MemoryAssumption
  <2>8. /\ s \in Seq(Bit \X Nat) /\ IsInjective(s)
        /\ Range(s) = {v} \X (2..n)
    BY <1>2, NewBlocksFree
  <2>9. free_list[d] = <<>>
    BY DEF sys_malloc_arena
  <2> HIDE DEF s, n
  <2>10. /\ arena'[v] = Small(d, n - 1)
         /\ \A u \in Bit \ {v} : arena'[u] = arena[u]
         /\ arena' \in [Bit -> ArenaRec]
    <3>1. Small(d, n - 1) \in ArenaRec
      BY <2>7, ArenaRecs
    <3> QED
      BY <1>2, <2>6, <3>1 DEF HeapTypes
  <2>11. arena'[v].kind = "small" /\ arena'[v].desc = d /\ arena'[v].cnt = n - 1
    BY <2>7, <2>10, ArenaRecs
  <2>12. free_list'[d] = s /\ \A e \in Desc \ {d} : free_list'[e] = free_list[e]
    BY <1>2, <2>6 DEF HeapTypes, s
  <2>13. /\ \A b \in blocks : b[1] \in Bit \ {v}
         /\ \A u \in Bit : arena[u].kind = "small" => u # v /\ arena[u].desc \in Desc
    BY <2>3, BlocksLive
  <2>14. \A b \in blocks : arena'[b[1]] = arena[b[1]]
    BY <2>10, <2>13
  <2>15. NoOverlap'
    <3>1. \A b \in blocks : Extent(b)' = Extent(b) /\ arena'[b[1]].kind = arena[b[1]].kind
      BY <2>14, ExtentSame
    <3>2. Extent(y)' = {v}
      BY <2>11 DEF Extent
    <3>3. blocks' = blocks \cup {y} /\ runs' = runs
      BY <1>2
    <3> HIDE DEF y
    <3> QED
      BY <2>3, <2>4, <2>5, <2>6, <3>1, <3>2, <3>3, OverlapGrow
  <2>16. HeapTypes'
    <3>1. free_list' \in [Desc -> Seq(Bit \X Nat)]
      BY <1>2, <2>6, <2>8 DEF HeapTypes, s
    <3>2. y \in Bit \X Nat
      BY <1>2
    <3> QED
      BY <1>2, <2>6, <2>10, <3>1, <3>2 DEF HeapTypes
  <2>17. KindInv'
    <3>1. y[1] = v
      OBVIOUS
    <3> QED
      BY <1>2, <2>6, <2>11, <2>14, <3>1 DEF KindInv
  <2>18. ASSUME NEW e \in Desc PROVE ListInv(e)'
    <3>1. CASE e = d
      <4>1. \A b \in Range(s) : b[1] = v
        BY <2>8
      <4> QED
        BY <2>8, <2>11, <2>12, <3>1, <4>1 DEF ListInv
    <3>2. CASE e # d
      <4>1. free_list'[e] = free_list[e]
        BY <2>12, <3>2
      <4>2. \A b \in Range(free_list[e]) : arena'[b[1]] = arena[b[1]]
        BY <2>10, <2>13, ListPages
      <4> QED
        BY <2>6, <4>1, <4>2 DEF ListInv
    <3> QED
      BY <3>1, <3>2
  <2>19. PageCut(v)'
    <3>1. InUse(v)' = {y}
      BY <1>2, <2>13 DEF InUse
    <3>2. OnList(v)' = {v} \X (2..n)
      BY <2>8, <2>11, <2>12 DEF OnList
    <3>3. y \notin {v} \X (2..n)
      BY <2>7
    <3>4. {y} \cup ({v} \X (2..n)) = {v} \X (1..n)
      <4>1. 1..n = {1} \cup (2..n)
        BY <2>7
      <4> QED
        BY <4>1
    <3>5. Cardinality({v} \X (2..n)) = n - 1
      <4>1. 1 + 1 = 2
        OBVIOUS
      <4>2. Cardinality({v} \X (1 + 1..n)) = n - 1
        BY <2>7, CutCardinality
      <4> QED
        BY <4>1, <4>2
    <3> HIDE DEF y
    <3>6. InUse(v)' # {} /\ (InUse(v) \cap OnList(v))' = {}
      BY <3>1, <3>2, <3>3
    <3>7. (InUse(v) \cup OnList(v))' = {v} \X (1..blocks_per_arena[arena'[v].desc])
      BY <2>11, <3>1, <3>2, <3>4 DEF n
    <3>8. arena'[v].cnt = Cardinality(OnList(v)')
      BY <2>11, <3>2, <3>5
    <3> QED
      BY <3>6, <3>7, <3>8 DEF PageCut
  <2>20. ASSUME NEW u \in Bit, u # v PROVE PageCut(u)'
    <3>1. arena'[u] = arena[u]
      BY <2>10, <2>20
    <3>2. InUse(u)' = InUse(u)
      BY <1>2, <2>20 DEF InUse
    <3>3. ASSUME arena[u].kind = "small" PROVE OnList(u)' = OnList(u)
      <4>1. arena[u].desc \in Desc
        BY <2>13, <3>3
      <4>2. CASE arena[u].desc = d
        <5>1. Range(free_list[d]) = {}
          BY <2>9 DEF Range
        <5>2. \A b \in Range(s) : b[1] # u
          BY <2>8, <2>20
        <5> QED
          BY <2>12, <3>1, <4>2, <5>1, <5>2 DEF OnList
      <4>3. CASE arena[u].desc # d
        BY <2>12, <3>1, <4>1, <4>3 DEF OnList
      <4> QED
        BY <4>2, <4>3
    <3> QED
      BY <2>6, <3>1, <3>2, <3>3, PageSame
  <2> QED
    BY <2>2, <2>15, <2>16, <2>17, <2>18, <2>19, <2>20 DEF HeapInv
<1> QED
  BY <1>0, <1>1, <1>2 DEF sys_malloc_arena

LEMMA MallocKeeps ==
    ASSUME PageInv, HeapInv, NEW d \in Desc, sys_malloc(d)
    PROVE  PageInv' /\ HeapInv'
<1>1. PICK b : b = Head(free_list[d])
  OBVIOUS
<1>2. PICK v : v = b[1]
  OBVIOUS
<1>3. /\ arena' = [arena EXCEPT ![v].cnt = @ - 1]
      /\ blocks' = blocks \cup {b}
      /\ free_list' = [free_list EXCEPT ![d] = Tail(@)]
      /\ UNCHANGED <<vaddr_bitmap, pool_bitmap, pte, runs, tables, panic>>
      /\ free_list[d] # <<>>
  BY <1>1, <1>2 DEF sys_malloc
<1>4. PageInv'
  BY <1>3 DEF PageInv, PageTypes, MapConsistent
<1>5. HeapTypes /\ KindInv /\ NoOverlap /\ (\A e \in Desc : ListInv(e)) /\ \A u \in Bit : PageCut(u)
  BY DEF HeapInv
<1>6. free_list[d] \in Seq(Bit \X Nat) /\ IsInjective(free_list[d])
  BY ListPages
<1> DEFINE s == Tail(free_list[d])
<1>7. /\ b \in Bit \X Nat /\ b \in Range(free_list[d])
      /\ s \in Seq(Bit \X Nat) /\ IsInjective(s)
      /\ Range(s) = Range(free_list[d]) \ {b}
  BY <1>1, <1>3, <1>6, TailTakes
<1>8. v \in Bit /\ arena[v].kind = "small" /\ arena[v].desc = d
  BY <1>2, <1>7, ListPages
<1>9. /\ InUse(v) # {} /\ InUse(v) \cap OnList(v) = {}
      /\ InUse(v) \cup OnList(v) = {v} \X (1..blocks_per_arena[d])
      /\ arena[v].cnt = Cardinality(OnList(v))
  BY <1>5, <1>8 DEF PageCut
<1>10. b \in OnList(v) /\ b \notin InUse(v) /\ b \notin blocks
  <2>1. b \in OnList(v)
    BY <1>2, <1>7, <1>8 DEF OnList
  <2>2. b \notin InUse(v)
    BY <1>9, <2>1
  <2> QED
    BY <1>2, <2>1, <2>2 DEF InUse
<1>11. free_list'[d] = s /\ \A e \in Desc \ {d} : free_list'[e] = free_list[e]
  BY <1>3, <1>5 DEF HeapTypes
<1> HIDE DEF s
<1> DEFINE c == arena[v].cnt
<1>12. /\ IsFiniteSet(OnList(v)) /\ c \in Nat /\ c >= 1
       /\ Cardinality(OnList(v) \ {b}) = c - 1
  <2> DEFINE m == blocks_per_arena[d]
  <2>0. m \in Nat /\ 0 \in Nat /\ 0 <= m /\ 0 + 1 = 1
    BY MemoryAssumption
  <2>1. IsFiniteSet({v} \X (0 + 1..m))
    <3> HIDE DEF m
    <3> QED
      BY <2>0, CutCardinality
  <2>2. IsFiniteSet({v} \X (1..m))
    BY <2>0, <2>1
  <2>3. IsFiniteSet(OnList(v))
    <3>1. OnList(v) \subseteq {v} \X (1..m)
      BY <1>9
    <3> HIDE DEF m
    <3> QED
      BY <2>2, <3>1, FS_Subset
  <2>4. c \in Nat
    BY <1>9, <2>3, FS_CardinalityType
  <2>5. Cardinality(OnList(v) \ {b}) = c - 1 /\ IsFiniteSet(OnList(v) \ {b})
    BY <1>9, <1>10, <2>3, FS_RemoveElement
  <2>6. Cardinality(OnList(v) \ {b}) \in Nat
    BY <2>5, FS_CardinalityType
  <2> HIDE DEF c
  <2>7. c >= 1
    BY <2>4, <2>5, <2>6
  <2> QED
    BY <2>3, <2>4, <2>5, <2>7
<1>13. /\ arena'[v] = Small(d, c - 1)
       /\ \A u \in Bit \ {v} : arena'[u] = arena[u]
       /\ arena' \in [Bit -> ArenaRec]
  <2>1. arena \in [Bit -> ArenaRec] /\ arena[v] = Small(d, c)
    BY <1>5, <1>8, ArenaRecs DEF HeapTypes
  <2>2. [arena[v] EXCEPT !.cnt = c - 1] = Small(d, c - 1)
    BY <2>1 DEF Small
  <2>3. arena' = [arena EXCEPT ![v] = [arena[v] EXCEPT !.cnt = c - 1]]
    BY <1>3
  <2>4. arena' = [arena EXCEPT ![v] = Small(d, c - 1)]
    BY <2>2, <2>3
  <2>5. Small(d, c - 1) \in ArenaRec
    <3>1. c - 1 \in Nat
      BY <1>12
    <3> HIDE DEF c
    <3> QED
      BY <3>1, ArenaRecs
  <2> QED
    BY <1>8, <2>1, <2>4, <2>5
<1>14. arena'[v].kind = "small" /\ arena'[v].desc = d /\ arena'[v].cnt = c - 1
  <2>1. c - 1 \in Nat
    BY <1>12
  <2> HIDE DEF c
  <2> QED
    BY <1>13, <2>1, ArenaRecs
<1>15. \A u \in Bit : arena'[u].kind = arena[u].kind /\ arena'[u].desc = arena[u].desc
  BY <1>8, <1>13, <1>14
<1>16. \A x \in blocks : x[1] \in Bit
  BY BlocksLive
<1>17. /\ \A x \in blocks : Extent(x)' = Extent(x)
       /\ Extent(b)' = {v}
  <2>1. ASSUME NEW x \in blocks PROVE Extent(x)' = Extent(x)
    <3>1. CASE x[1] = v
      BY <1>8, <1>14, <3>1 DEF Extent
    <3>2. CASE x[1] # v
      BY <1>13, <1>16, <3>2, ExtentSame
    <3> QED
      BY <3>1, <3>2
  <2>2. Extent(b)' = {v}
    BY <1>2, <1>14 DEF Extent
  <2> QED
    BY <2>1, <2>2
<1>18. PICK w \in blocks : w[1] = v /\ Extent(w) = {v}
  BY <1>8, <1>9, BlocksLive DEF InUse
<1>19. NoOverlap'
  <2> DEFINE R(r) == r[1]..(r[1] + r[2] - 1)
             E(x) == Extent(x)'
  <2>1. /\ \A r \in runs : R(r) \subseteq vaddr_bitmap
        /\ \A x \in blocks : E(x) \subseteq vaddr_bitmap
        /\ \A r, q \in runs : r # q => R(r) \cap R(q) = {}
        /\ \A r \in runs, x \in blocks : R(r) \cap E(x) = {}
        /\ \A x, y \in blocks : x # y /\ E(x) \cap E(y) # {} =>
              x[1] = y[1] /\ arena'[x[1]].kind = "small"
    BY <1>5, <1>15, <1>16, <1>17 DEF NoOverlap
  <2>2. E(b) = E(w) /\ E(w) = {v}
    BY <1>17, <1>18
  <2> HIDE DEF R, E
  <2>3. \A x \in blocks' : E(x) \subseteq vaddr_bitmap
    BY <1>3, <2>1, <2>2
  <2>4. \A r \in runs, x \in blocks' : R(r) \cap E(x) = {}
    BY <1>3, <2>1, <2>2
  <2>5. ASSUME NEW x \in blocks', NEW y \in blocks', x # y, E(x) \cap E(y) # {}
        PROVE  x[1] = y[1] /\ arena'[x[1]].kind = "small"
    <3>1. CASE x \in blocks /\ y \in blocks
      BY <2>1, <2>5, <3>1
    <3>2. CASE x = b /\ y \in blocks
      <4>1. y # w => y[1] = w[1]
        BY <1>18, <2>1, <2>2, <2>5, <3>2
      <4> QED
        BY <1>2, <1>14, <1>18, <3>2, <4>1
    <3>3. CASE x \in blocks /\ y = b
      <4>1. x # w => x[1] = w[1]
        BY <1>18, <2>1, <2>2, <2>5, <3>3
      <4> QED
        BY <1>2, <1>14, <1>18, <3>3, <4>1
    <3> QED
      BY <1>3, <2>5, <3>1, <3>2, <3>3
  <2> QED
    BY <1>3, <2>1, <2>3, <2>4, <2>5 DEF NoOverlap, R, E
<1>20. HeapTypes'
  <2>1. free_list' \in [Desc -> Seq(Bit \X Nat)]
    BY <1>3, <1>5, <1>7 DEF HeapTypes, s
  <2> QED
    BY <1>3, <1>5, <1>7, <1>13, <2>1 DEF HeapTypes
<1>21. KindInv'
  BY <1>2, <1>3, <1>5, <1>14, <1>15, <1>16 DEF KindInv
<1>22. ASSUME NEW e \in Desc PROVE ListInv(e)'
  <2>1. \A x \in Range(free_list[e]) : /\ x[1] \in Bit
                                       /\ arena'[x[1]].kind = "small" /\ arena'[x[1]].desc = e
    BY <1>15, ListPages
  <2>2. IsInjective(free_list'[e]) /\ Range(free_list'[e]) \subseteq Range(free_list[e])
    BY <1>5, <1>7, <1>11 DEF ListInv
  <2> QED
    BY <2>1, <2>2 DEF ListInv
<1>23. PageCut(v)'
  <2>1. InUse(v)' = InUse(v) \cup {b}
    BY <1>2, <1>3 DEF InUse
  <2>2. OnList(v)' = OnList(v) \ {b}
    BY <1>7, <1>8, <1>11, <1>14 DEF OnList
  <2>3. InUse(v)' # {} /\ (InUse(v) \cap OnList(v))' = {}
    BY <1>9, <2>1, <2>2
  <2>4. (InUse(v) \cup OnList(v))' = {v} \X (1..blocks_per_arena[arena'[v].desc])
    BY <1>9, <1>10, <1>14, <2>1, <2>2
  <2>5. arena'[v].cnt = Cardinality(OnList(v)')
    BY <1>12, <1>14, <2>2
  <2> QED
    BY <2>3, <2>4, <2>5 DEF PageCut
<1>24. ASSUME NEW u \in Bit, u # v PROVE PageCut(u)'
  <2>1. arena'[u] = arena[u]
    BY <1>13, <1>24
  <2>2. InUse(u)' = InUse(u)
    BY <1>2, <1>3, <1>24 DEF InUse
  <2>3. ASSUME arena[u].kind = "small" PROVE OnList(u)' = OnList(u)
    <3>1. arena[u].desc \in Desc
      BY <2>3, BlocksLive
    <3>2. CASE arena[u].desc = d
      BY <1>2, <1>7, <1>11, <1>24, <2>1, <3>2 DEF OnList
    <3>3. CASE arena[u].desc # d
      BY <1>11, <2>1, <3>1, <3>3 DEF OnList
    <3> QED
      BY <3>2, <3>3
  <2> QED
    BY <1>5, <2>1, <2>2, <2>3, PageSame
<1> QED
  BY <1>4, <1>19, <1>20, <1>21, <1>22, <1>23, <1>24 DEF HeapInv

\* Pages are given back with the run or the blocks in them, and what the lists
\* held of them is taken off.
LEMMA HeapShrink ==
    ASSUME HeapInv, NEW ps \in SUBSET Bit, vaddr_bitmap' = vaddr_bitmap \ ps,
           arena' = [u \in Bit |-> IF u \in ps THEN NoArena ELSE arena[u]],
           runs' \subseteq runs, \A r \in runs' : Span(r[1], r[2]) \cap ps = {},
           blocks' \subseteq blocks, \A b \in blocks' : Extent(b) \cap ps = {},
           \A b \in blocks \ blocks' : b[1] \in ps,
           free_list' \in [Desc -> Seq(Bit \X Nat)],
           \A e \in Desc : /\ IsInjective(free_list'[e])
                           /\ Range(free_list'[e]) = {b \in Range(free_list[e]) : b[1] \notin ps},
           panic' = panic
    PROVE  HeapInv'
<1>0. HeapTypes /\ KindInv /\ NoOverlap /\ (\A d \in Desc : ListInv(d)) /\ \A v \in Bit : PageCut(v)
  BY DEF HeapInv
<1>1. /\ \A u \in ps : arena'[u] = NoArena
      /\ \A u \in Bit \ ps : arena'[u] = arena[u]
      /\ arena' \in [Bit -> ArenaRec]
  BY <1>0, ArenaRecs DEF HeapTypes
<1>2. \A b \in blocks' : b[1] \in Bit \ ps /\ arena'[b[1]] = arena[b[1]]
  BY <1>1, BlocksLive
<1>3. \A b \in blocks' : Extent(b)' = Extent(b) /\ arena'[b[1]].kind = arena[b[1]].kind
  BY <1>2, ExtentSame
<1>4. NoOverlap'
  BY <1>0, <1>3, OverlapShrink
<1>5. HeapTypes'
  BY <1>0, <1>1 DEF HeapTypes
<1>6. KindInv'
  BY <1>0, <1>2 DEF KindInv
<1>7. ASSUME NEW d \in Desc PROVE ListInv(d)'
  <2>1. \A b \in Range(free_list[d]) : /\ b[1] \in Bit
                                       /\ arena[b[1]].kind = "small" /\ arena[b[1]].desc = d
    BY ListPages
  <2> QED
    BY <1>1, <2>1 DEF ListInv
<1>8. ASSUME NEW v \in Bit PROVE PageCut(v)'
  <2>1. CASE v \in ps
    BY <1>1, <2>1, ArenaRecs DEF PageCut
  <2>2. CASE v \notin ps
    <3>1. arena'[v] = arena[v] /\ InUse(v)' = InUse(v)
      BY <1>1, <2>2 DEF InUse
    <3>2. ASSUME arena[v].kind = "small" PROVE OnList(v)' = OnList(v)
      <4>1. arena[v].desc \in Desc
        BY <3>2, BlocksLive
      <4> QED
        BY <2>2, <3>1, <4>1 DEF OnList
    <3> QED
      BY <1>0, <3>1, <3>2, PageSame
  <2> QED
    BY <2>1, <2>2
<1> QED
  BY <1>4, <1>5, <1>6, <1>7, <1>8 DEF HeapInv

\* mfree_page, as the lemmas see it
LEMMA MfreeEffect ==
    ASSUME NEW v, NEW cnt, mfree_page(v, cnt)
    PROVE  /\ vaddr_bitmap' = vaddr_bitmap \ Span(v, cnt)
           /\ arena' = [u \in Bit |-> IF u \in Span(v, cnt) THEN NoArena ELSE arena[u]]
  BY DEF mfree_page, page_table_pte_remove, vaddr_remove, Span

\* A list that loses nothing keeps its blocks.
LEMMA ListsKept ==
    ASSUME HeapInv, NEW ps, \A u \in Bit : arena[u].kind = "small" => u \notin ps,
           free_list' = free_list
    PROVE  /\ free_list' \in [Desc -> Seq(Bit \X Nat)]
           /\ \A e \in Desc : /\ IsInjective(free_list'[e])
                              /\ Range(free_list'[e]) =
                                    {b \in Range(free_list[e]) : b[1] \notin ps}
<1>1. free_list \in [Desc -> Seq(Bit \X Nat)]
  BY DEF HeapInv, HeapTypes
<1>2. ASSUME NEW e \in Desc
      PROVE  /\ IsInjective(free_list[e])
             /\ Range(free_list[e]) = {b \in Range(free_list[e]) : b[1] \notin ps}
  BY ListPages
<1> QED
  BY <1>1, <1>2

LEMMA FreePagesKeeps ==
    ASSUME PageInv, HeapInv, NEW r \in runs, free_kernel_pages(r)
    PROVE  PageInv' /\ HeapInv'
<1> DEFINE ps == Span(r[1], r[2])
<1>1. /\ mfree_page(r[1], r[2]) /\ runs' = runs \ {r}
      /\ UNCHANGED <<free_list, blocks, tables, panic>>
  BY DEF free_kernel_pages
<1>2. /\ ps \subseteq vaddr_bitmap /\ vaddr_bitmap \subseteq Bit
      /\ \A q \in runs : r # q => Span(r[1], r[2]) \cap Span(q[1], q[2]) = {}
      /\ \A b \in blocks : ps \cap Extent(b) = {}
  BY DEF HeapInv, NoOverlap, PageInv, PageTypes, Span
<1>3. ps \in SUBSET Bit
  BY <1>2
<1>4. PageInv'
  BY <1>1, <1>3, MfreeMaps
<1>5. /\ vaddr_bitmap' = vaddr_bitmap \ ps
      /\ arena' = [u \in Bit |-> IF u \in ps THEN NoArena ELSE arena[u]]
  BY <1>1, MfreeEffect
<1>6. \A q \in runs' : Span(q[1], q[2]) \cap ps = {}
  BY <1>1, <1>2
<1> HIDE DEF ps
<1>7. \A u \in Bit : arena[u].kind = "small" => u \notin ps
  <2>1. ASSUME NEW u \in Bit, arena[u].kind = "small" PROVE u \notin ps
    <3>1. PICK b \in blocks : b[1] = u
      BY <2>1 DEF HeapInv, PageCut, InUse
    <3> QED
      BY <1>2, <3>1, BlocksLive
  <2> QED
    BY <2>1
<1>8. /\ free_list' \in [Desc -> Seq(Bit \X Nat)]
      /\ \A e \in Desc : /\ IsInjective(free_list'[e])
                         /\ Range(free_list'[e]) = {b \in Range(free_list[e]) : b[1] \notin ps}
  BY <1>1, <1>7, ListsKept
<1>9. /\ runs' \subseteq runs /\ blocks' \subseteq blocks /\ panic' = panic
      /\ \A b \in blocks' : Extent(b) \cap ps = {}
      /\ \A b \in blocks \ blocks' : b[1] \in ps
  BY <1>1, <1>2
<1>10. HeapInv'
  BY <1>3, <1>5, <1>6, <1>8, <1>9, HeapShrink
<1> QED
  BY <1>4, <1>10

LEMMA FreeLargeKeeps ==
    ASSUME PageInv, HeapInv, NEW b \in blocks, sys_free_large(b)
    PROVE  PageInv' /\ HeapInv'
<1>1. PICK cnt : cnt = arena[b[1]].cnt
  OBVIOUS
<1> DEFINE ps == Span(b[1], cnt)
<1>2. /\ arena[b[1]].kind = "large" /\ mfree_page(b[1], cnt) /\ blocks' = blocks \ {b}
      /\ UNCHANGED <<free_list, runs, tables, panic>>
  BY <1>1 DEF sys_free_large
<1>3. Extent(b) = ps /\ b[1] \in ps
  BY <1>1, <1>2, BlocksLive
<1>4. /\ ps \subseteq vaddr_bitmap /\ vaddr_bitmap \subseteq Bit
      /\ \A q \in runs : Span(q[1], q[2]) \cap ps = {}
      /\ \A c \in blocks : c # b => ps \cap Extent(c) = {}
  <2> HIDE DEF ps
  <2>1. ps \subseteq vaddr_bitmap /\ vaddr_bitmap \subseteq Bit
    BY <1>3 DEF HeapInv, NoOverlap, PageInv, PageTypes
  <2>2. \A q \in runs : Span(q[1], q[2]) \cap ps = {}
    BY <1>3 DEF HeapInv, NoOverlap, Span
  <2>3. ASSUME NEW c \in blocks, c # b PROVE ps \cap Extent(c) = {}
    <3>1. Extent(b) \cap Extent(c) # {} => arena[b[1]].kind = "small"
      BY <2>3 DEF HeapInv, NoOverlap
    <3> QED
      BY <1>2, <1>3, <3>1
  <2> QED
    BY <2>1, <2>2, <2>3
<1>5. ps \in SUBSET Bit
  BY <1>4
<1>6. PageInv'
  BY <1>2, <1>5, MfreeMaps
<1>7. /\ vaddr_bitmap' = vaddr_bitmap \ ps
      /\ arena' = [u \in Bit |-> IF u \in ps THEN NoArena ELSE arena[u]]
  BY <1>2, MfreeEffect
<1> HIDE DEF ps
<1>8. \A u \in Bit : arena[u].kind = "small" => u \notin ps
  <2>1. ASSUME NEW u \in Bit, arena[u].kind = "small" PROVE u \notin ps
    <3>1. PICK c \in blocks : c[1] = u
      BY <2>1 DEF HeapInv, PageCut, InUse
    <3>2. c # b
      BY <1>2, <2>1, <3>1
    <3> QED
      BY <1>4, <3>1, <3>2, BlocksLive
  <2> QED
    BY <2>1
<1>9. /\ free_list' \in [Desc -> Seq(Bit \X Nat)]
      /\ \A e \in Desc : /\ IsInjective(free_list'[e])
                         /\ Range(free_list'[e]) = {c \in Range(free_list[e]) : c[1] \notin ps}
  BY <1>2, <1>8, ListsKept
<1>10. /\ runs' \subseteq runs /\ blocks' \subseteq blocks /\ panic' = panic
       /\ \A q \in runs' : Span(q[1], q[2]) \cap ps = {}
       /\ \A c \in blocks' : Extent(c) \cap ps = {}
       /\ \A c \in blocks \ blocks' : c[1] \in ps
  BY <1>2, <1>3, <1>4
<1>11. HeapInv'
  BY <1>5, <1>7, <1>9, <1>10, HeapShrink
<1> QED
  BY <1>6, <1>11

\* A block in use, its page and the list it goes to: the count says whether it
\* is the last one in use.
LEMMA LastInUse ==
    ASSUME HeapInv, NEW b \in blocks, NEW v, v = b[1], arena[v].kind = "small",
           NEW d, d = arena[v].desc
    PROVE  /\ v \in Bit /\ d \in Desc /\ b \in Bit \X Nat
           /\ b \in InUse(v) /\ b \notin Range(free_list[d])
           /\ IsFiniteSet(OnList(v)) /\ arena[v].cnt \in Nat
           /\ Cardinality(OnList(v) \cup {b}) = arena[v].cnt + 1
           /\ arena[v].cnt + 1 = blocks_per_arena[d] <=> InUse(v) = {b}
<1> DEFINE All == {v} \X (1..blocks_per_arena[d])
           m == blocks_per_arena[d]
           c == arena[v].cnt
<1>1. v \in Bit /\ d \in Desc /\ b \in Bit \X Nat
  BY BlocksLive DEF HeapInv, HeapTypes
<1>2. /\ InUse(v) \cap OnList(v) = {} /\ InUse(v) \cup OnList(v) = All
      /\ c = Cardinality(OnList(v))
  BY <1>1 DEF HeapInv, PageCut
<1>3. b \in InUse(v)
  BY DEF InUse
<1>4. b \notin Range(free_list[d])
  <2>1. b \notin OnList(v)
    BY <1>2, <1>3
  <2> QED
    BY <2>1 DEF OnList
<1>5. m \in Nat /\ IsFiniteSet(All) /\ Cardinality(All) = m
  <2>0. m \in Nat /\ 0 \in Nat /\ 0 <= m /\ 0 + 1 = 1 /\ m - 0 = m
    BY <1>1, MemoryAssumption
  <2>1. IsFiniteSet({v} \X (0 + 1..m)) /\ Cardinality({v} \X (0 + 1..m)) = m - 0
    <3> HIDE DEF m
    <3> QED
      BY <2>0, CutCardinality
  <2> QED
    BY <2>0, <2>1
<1> HIDE DEF All, m
<1>6. IsFiniteSet(OnList(v)) /\ OnList(v) \cup {b} \subseteq All /\ b \notin OnList(v)
  <2>1. OnList(v) \subseteq All /\ b \in All /\ b \notin OnList(v)
    BY <1>2, <1>3
  <2> QED
    BY <1>5, <2>1, FS_Subset
<1>7. c \in Nat
  BY <1>2, <1>6, FS_CardinalityType
<1>8. IsFiniteSet(OnList(v) \cup {b}) /\ Cardinality(OnList(v) \cup {b}) = c + 1
  BY <1>2, <1>6, FS_AddElement
<1>9. ASSUME c + 1 = m PROVE InUse(v) = {b}
  <2>1. Cardinality(OnList(v) \cup {b}) = Cardinality(All)
    BY <1>5, <1>8, <1>9
  <2>2. OnList(v) \cup {b} = All
    <3> DEFINE T == OnList(v) \cup {b}
    <3>1. T \in SUBSET All /\ Cardinality(T) = Cardinality(All)
      BY <1>6, <2>1
    <3> HIDE DEF T
    <3>2. T = All
      BY <1>5, <3>1, FS_Subset
    <3> QED
      BY <3>2 DEF T
  <2> QED
    BY <1>2, <1>3, <2>2
<1>10. ASSUME InUse(v) = {b} PROVE c + 1 = m
  <2>1. OnList(v) \cup {b} = All
    BY <1>2, <1>10
  <2> QED
    BY <1>5, <1>8, <2>1
<1>11. c + 1 = m <=> InUse(v) = {b}
  BY <1>9, <1>10
<1> QED
  BY <1>1, <1>3, <1>4, <1>6, <1>7, <1>8, <1>11 DEF m

\* The last block in use is given back, and its page with it.
LEMMA FreeWholeKeeps ==
    ASSUME PageInv, HeapInv, NEW b \in blocks, NEW v, v = b[1], arena[v].kind = "small",
           NEW d, d = arena[v].desc, arena[v].cnt + 1 = blocks_per_arena[d],
           free_list' = [free_list EXCEPT ![d] = Without(Append(free_list[d], b), v)],
           mfree_page(v, 1), blocks' = blocks \ {b}, UNCHANGED <<runs, tables, panic>>
    PROVE  PageInv' /\ HeapInv'
<1> DEFINE s == Without(Append(free_list[d], b), v)
<1>1. v \in Bit /\ d \in Desc /\ b \in Bit \X Nat /\ b \notin Range(free_list[d])
      /\ InUse(v) = {b}
  BY LastInUse
<1>2. v \in Nat /\ Span(v, 1) = {v}
  BY <1>1 DEF Bit, Span
<1>3. PageInv'
  BY <1>1, <1>2, MfreeMaps
<1>4. /\ vaddr_bitmap' = vaddr_bitmap \ {v}
      /\ arena' = [u \in Bit |-> IF u \in {v} THEN NoArena ELSE arena[u]]
  BY <1>2, MfreeEffect
<1>5. Extent(b) = {v}
  BY BlocksLive
<1>6. \A r \in runs' : Span(r[1], r[2]) \cap {v} = {}
  BY <1>5 DEF HeapInv, NoOverlap, Span
<1>7. ASSUME NEW c \in blocks' PROVE Extent(c) \cap {v} = {}
  <2>1. c \in blocks /\ c # b
    OBVIOUS
  <2>2. c[1] # v
    BY <1>1, <2>1 DEF InUse
  <2>3. Extent(b) \cap Extent(c) # {} => b[1] = c[1]
    BY <2>1 DEF HeapInv, NoOverlap
  <2> QED
    BY <1>5, <2>2, <2>3
<1>8. /\ s \in Seq(Bit \X Nat) /\ IsInjective(s)
      /\ Range(s) = {c \in Range(free_list[d]) : c[1] \notin {v}}
  <2>1. free_list[d] \in Seq(Bit \X Nat) /\ IsInjective(free_list[d])
    BY <1>1, ListPages
  <2> DEFINE l == Append(free_list[d], b)
  <2>2. /\ l \in Seq(Bit \X Nat) /\ IsInjective(l)
        /\ Range(l) = Range(free_list[d]) \cup {b}
    BY <1>1, <2>1, AppendPuts
  <2> HIDE DEF l
  <2>3. /\ Without(l, v) \in Seq(Bit \X Nat) /\ IsInjective(Without(l, v))
        /\ Range(Without(l, v)) = {c \in Range(l) : c[1] # v}
    BY <2>2, WithoutTakes
  <2> QED
    BY <2>2, <2>3 DEF l
<1> HIDE DEF s
<1>9. free_list' = [free_list EXCEPT ![d] = s] /\ free_list \in [Desc -> Seq(Bit \X Nat)]
  BY DEF s, HeapInv, HeapTypes
<1>10. free_list' \in [Desc -> Seq(Bit \X Nat)] /\ free_list'[d] = s
       /\ \A e \in Desc \ {d} : free_list'[e] = free_list[e]
  BY <1>1, <1>8, <1>9
<1>11. ASSUME NEW e \in Desc
       PROVE  /\ IsInjective(free_list'[e])
              /\ Range(free_list'[e]) = {c \in Range(free_list[e]) : c[1] \notin {v}}
  <2>1. CASE e = d
    BY <1>8, <1>10, <2>1
  <2>2. CASE e # d
    <3>1. \A c \in Range(free_list[e]) : c[1] # v
      BY <2>2, ListPages
    <3>2. free_list'[e] = free_list[e] /\ IsInjective(free_list[e])
      BY <1>10, <2>2, ListPages
    <3> QED
      BY <3>1, <3>2
  <2> QED
    BY <2>1, <2>2
<1>12. /\ {v} \in SUBSET Bit /\ runs' \subseteq runs /\ blocks' \subseteq blocks /\ panic' = panic
       /\ \A c \in blocks \ blocks' : c[1] \in {v}
  BY <1>1
<1>13. HeapInv'
  BY <1>4, <1>6, <1>7, <1>10, <1>11, <1>12, HeapShrink
<1> QED
  BY <1>3, <1>13

\* A block is given back, and others of its page stay in use.
LEMMA FreeOneKeeps ==
    ASSUME PageInv, HeapInv, NEW b \in blocks, NEW v, v = b[1], arena[v].kind = "small",
           NEW d, d = arena[v].desc, arena[v].cnt + 1 # blocks_per_arena[d],
           free_list' = [free_list EXCEPT ![d] = Append(free_list[d], b)],
           arena' = [arena EXCEPT ![v].cnt = @ + 1], blocks' = blocks \ {b},
           UNCHANGED <<vaddr_bitmap, pool_bitmap, pte, runs, tables, panic>>
    PROVE  PageInv' /\ HeapInv'
<1> DEFINE s == Append(free_list[d], b)
           n == arena[v].cnt
<1>1. /\ v \in Bit /\ d \in Desc /\ b \in Bit \X Nat /\ b \notin Range(free_list[d])
      /\ b \in InUse(v) /\ InUse(v) # {b} /\ n \in Nat
      /\ Cardinality(OnList(v) \cup {b}) = n + 1
  BY LastInUse
<1>2. PageInv'
  BY DEF PageInv, PageTypes, MapConsistent
<1>3. HeapTypes /\ KindInv /\ NoOverlap /\ (\A e \in Desc : ListInv(e)) /\ \A u \in Bit : PageCut(u)
  BY DEF HeapInv
<1>4. /\ s \in Seq(Bit \X Nat) /\ IsInjective(s)
      /\ Range(s) = Range(free_list[d]) \cup {b}
  BY <1>1, ListPages, AppendPuts
<1>5. /\ free_list' \in [Desc -> Seq(Bit \X Nat)] /\ free_list'[d] = s
      /\ \A e \in Desc \ {d} : free_list'[e] = free_list[e]
  BY <1>1, <1>3, <1>4 DEF HeapTypes
<1> HIDE DEF s
<1>6. /\ arena'[v] = Small(d, n + 1)
      /\ \A u \in Bit \ {v} : arena'[u] = arena[u]
      /\ arena' \in [Bit -> ArenaRec]
  <2>1. arena \in [Bit -> ArenaRec] /\ arena[v] = Small(d, n)
    BY <1>1, <1>3, ArenaRecs DEF HeapTypes
  <2>2. [arena[v] EXCEPT !.cnt = n + 1] = Small(d, n + 1)
    BY <2>1 DEF Small
  <2>3. arena' = [arena EXCEPT ![v] = [arena[v] EXCEPT !.cnt = n + 1]]
    OBVIOUS
  <2>4. arena' = [arena EXCEPT ![v] = Small(d, n + 1)]
    BY <2>2, <2>3
  <2>5. Small(d, n + 1) \in ArenaRec
    <3>1. n + 1 \in Nat
      BY <1>1
    <3> HIDE DEF n
    <3> QED
      BY <1>1, <3>1, ArenaRecs
  <2> QED
    BY <1>1, <2>1, <2>4, <2>5
<1>7. arena'[v].kind = "small" /\ arena'[v].desc = d /\ arena'[v].cnt = n + 1
  <2>1. n + 1 \in Nat
    BY <1>1
  <2>2. arena'[v] = Small(d, n + 1) /\ d \in Desc
    BY <1>1, <1>6
  <2> HIDE DEF n
  <2>3. /\ Small(d, n + 1).kind = "small" /\ Small(d, n + 1).desc = d
        /\ Small(d, n + 1).cnt = n + 1
    BY <2>1, <2>2, ArenaRecs
  <2> QED
    BY <2>2, <2>3
<1>8. \A u \in Bit : arena'[u].kind = arena[u].kind /\ arena'[u].desc = arena[u].desc
  BY <1>6, <1>7
<1>9. \A x \in blocks : x[1] \in Bit
  BY BlocksLive
<1>10. ASSUME NEW x \in blocks PROVE Extent(x)' = Extent(x) /\ arena'[x[1]].kind = arena[x[1]].kind
  <2>1. CASE x[1] = v
    BY <1>7, <2>1 DEF Extent
  <2>2. CASE x[1] # v
    BY <1>6, <1>9, <2>2, ExtentSame
  <2> QED
    BY <2>1, <2>2
<1>11. NoOverlap'
  <2>1. /\ vaddr_bitmap' = vaddr_bitmap \ {} /\ runs' \subseteq runs /\ blocks' \subseteq blocks
        /\ \A r \in runs' : Span(r[1], r[2]) \cap {} = {}
        /\ \A x \in blocks' : Extent(x) \cap {} = {} /\ Extent(x)' = Extent(x)
                              /\ arena'[x[1]].kind = arena[x[1]].kind
    BY <1>10
  <2> QED
    BY <1>3, <2>1, OverlapShrink
<1>12. HeapTypes'
  BY <1>3, <1>5, <1>6 DEF HeapTypes
<1>13. KindInv'
  BY <1>3, <1>10 DEF KindInv
<1>14. ASSUME NEW e \in Desc PROVE ListInv(e)'
  <2>1. \A x \in Range(free_list[e]) : /\ x[1] \in Bit
                                       /\ arena'[x[1]].kind = "small" /\ arena'[x[1]].desc = e
    BY <1>8, ListPages
  <2>2. CASE e = d
    BY <1>4, <1>5, <1>7, <2>1, <2>2 DEF ListInv
  <2>3. CASE e # d
    BY <1>3, <1>5, <2>1, <2>3 DEF ListInv
  <2> QED
    BY <2>2, <2>3
<1>15. PageCut(v)'
  <2>1. InUse(v)' = InUse(v) \ {b}
    BY DEF InUse
  <2>2. OnList(v)' = OnList(v) \cup {b}
    BY <1>4, <1>5, <1>7 DEF OnList
  <2>3. /\ InUse(v) \cap OnList(v) = {}
        /\ InUse(v) \cup OnList(v) = {v} \X (1..blocks_per_arena[d])
    BY <1>1, <1>3 DEF PageCut
  <2>4. InUse(v)' # {} /\ (InUse(v) \cap OnList(v))' = {}
    BY <1>1, <2>1, <2>2, <2>3
  <2>5. (InUse(v) \cup OnList(v))' = {v} \X (1..blocks_per_arena[arena'[v].desc])
    BY <1>1, <1>7, <2>1, <2>2, <2>3
  <2>6. arena'[v].cnt = Cardinality(OnList(v)')
    BY <1>1, <1>7, <2>2
  <2> QED
    BY <2>4, <2>5, <2>6 DEF PageCut
<1>16. ASSUME NEW u \in Bit, u # v PROVE PageCut(u)'
  <2>1. arena'[u] = arena[u]
    BY <1>6, <1>16
  <2>2. InUse(u)' = InUse(u)
    BY <1>16 DEF InUse
  <2>3. ASSUME arena[u].kind = "small" PROVE OnList(u)' = OnList(u)
    <3>1. arena[u].desc \in Desc
      BY <2>3, BlocksLive
    <3>2. CASE arena[u].desc = d
      <4>1. free_list'[arena'[u].desc] = s
        BY <1>5, <2>1, <3>2
      <4>2. \A x : x \in Range(s) /\ x[1] = u <=> x \in Range(free_list[d]) /\ x[1] = u
        BY <1>4, <1>16
      <4>3. OnList(u)' = {x \in Range(s) : x[1] = u}
        BY <4>1 DEF OnList
      <4>4. OnList(u) = {x \in Range(free_list[d]) : x[1] = u}
        BY <3>2 DEF OnList
      <4> QED
        BY <4>2, <4>3, <4>4
    <3>3. CASE arena[u].desc # d
      BY <1>5, <2>1, <3>1, <3>3 DEF OnList
    <3> QED
      BY <3>2, <3>3
  <2> QED
    BY <1>3, <2>1, <2>2, <2>3, PageSame
<1> QED
  BY <1>2, <1>11, <1>12, <1>13, <1>14, <1>15, <1>16 DEF HeapInv

LEMMA FreeKeeps ==
    ASSUME PageInv, HeapInv, NEW b \in blocks, sys_free(b)
    PROVE  PageInv' /\ HeapInv'
<1>1. PICK v : v = b[1]
  OBVIOUS
<1>2. PICK d : d = arena[v].desc
  OBVIOUS
<1>3. /\ arena[v].kind = "small" /\ blocks' = blocks \ {b}
      /\ UNCHANGED <<runs, tables, panic>>
  BY <1>1 DEF sys_free
<1>4. CASE arena[v].cnt + 1 = blocks_per_arena[d]
  <2>1. /\ free_list' = [free_list EXCEPT ![d] = Without(Append(free_list[d], b), v)]
        /\ mfree_page(v, 1)
    BY <1>1, <1>2, <1>4 DEF sys_free, WithoutArena
  <2> QED
    BY <1>1, <1>2, <1>3, <1>4, <2>1, FreeWholeKeeps
<1>5. CASE arena[v].cnt + 1 # blocks_per_arena[d]
  <2>1. /\ free_list' = [free_list EXCEPT ![d] = Append(free_list[d], b)]
        /\ arena' = [arena EXCEPT ![v].cnt = @ + 1]
        /\ UNCHANGED <<vaddr_bitmap, pool_bitmap, pte>>
    BY <1>1, <1>2, <1>5 DEF sys_free
  <2> QED
    BY <1>1, <1>2, <1>3, <1>5, <2>1, FreeOneKeeps
<1> QED
  BY <1>4, <1>5

LEMMA TableKeeps ==
    ASSUME PageInv, HeapInv, user_page_table
    PROVE  PageInv' /\ HeapInv'
<1>1. PageInv'
  BY TableMaps
<1>2. UNCHANGED <<vaddr_bitmap, arena, free_list, runs, blocks>> /\ panic' \in BOOLEAN
  BY DEF user_page_table, Halt, HeapInv, HeapTypes
<1>3. HeapInv'
  BY <1>2, HeapSame
<1> QED
  BY <1>1, <1>3

----------------------------------------------------------------------------
(* Theorems *)

LEMMA MemoryInit == Init => PageInv /\ HeapInv
<1> SUFFICES ASSUME Init PROVE PageInv /\ HeapInv
  OBVIOUS
<1>1. PageInv
  BY DEF Init, PageInv, PageTypes, MapConsistent
<1>2. HeapTypes /\ KindInv
  <2>1. <<>> \in Seq(Bit \X Nat)
    OBVIOUS
  <2> QED
    BY <2>1, ArenaRecs DEF Init, HeapTypes, KindInv
<1>3. NoOverlap
  BY DEF Init, NoOverlap
<1>4. ASSUME NEW d \in Desc PROVE ListInv(d)
  <2>1. free_list[d] = <<>> /\ IsInjective(<<>>) /\ Range(<<>>) = {}
    BY DEF Init, IsInjective, Range
  <2> QED
    BY <2>1 DEF ListInv
<1>5. \A v \in Bit : PageCut(v)
  BY ArenaRecs DEF Init, PageCut
<1> QED
  BY <1>1, <1>2, <1>3, <1>4, <1>5 DEF HeapInv

LEMMA MemoryStep == PageInv /\ HeapInv /\ [Next]_vars => PageInv' /\ HeapInv'
<1> SUFFICES ASSUME PageInv, HeapInv, [Next]_vars PROVE PageInv' /\ HeapInv'
  OBVIOUS
<1>1. CASE UNCHANGED vars
  <2>1. PageInv'
    BY <1>1 DEF vars, PageInv, PageTypes, MapConsistent
  <2>2. UNCHANGED <<vaddr_bitmap, arena, free_list, runs, blocks>> /\ panic' \in BOOLEAN
    BY <1>1 DEF vars, HeapInv, HeapTypes
  <2> QED
    BY <2>1, <2>2, HeapSame
<1>2. ASSUME NEW past \in BOOLEAN, NEW cnt \in 1..Pages, get_kernel_pages(past, cnt)
      PROVE  PageInv' /\ HeapInv'
  BY <1>2, GetPagesKeeps
<1>3. ASSUME NEW past \in BOOLEAN, NEW cnt \in 1..(Pages + 1), sys_malloc_large(past, cnt)
      PROVE  PageInv' /\ HeapInv'
  BY <1>3, MallocLargeKeeps
<1>4. ASSUME NEW past \in BOOLEAN, NEW d \in Desc, sys_malloc_arena(past, d)
      PROVE  PageInv' /\ HeapInv'
  BY <1>4, MallocArenaKeeps
<1>5. ASSUME NEW r \in runs, free_kernel_pages(r) PROVE PageInv' /\ HeapInv'
  BY <1>5, FreePagesKeeps
<1>6. CASE user_page_table
  BY <1>6, TableKeeps
<1>7. ASSUME NEW d \in Desc, sys_malloc(d) PROVE PageInv' /\ HeapInv'
  BY <1>7, MallocKeeps
<1>8. ASSUME NEW b \in blocks, sys_free_large(b) \/ sys_free(b) PROVE PageInv' /\ HeapInv'
  BY <1>8, FreeLargeKeeps, FreeKeeps
<1> QED
  BY <1>1, <1>2, <1>3, <1>4, <1>5, <1>6, <1>7, <1>8 DEF Next

LEMMA MemoryInvariant == Spec => [](PageInv /\ HeapInv)
<1> QED
  BY MemoryInit, MemoryStep, PTL DEF Spec

\* The bitmaps, the page table, the lists and what was handed out stay within
\* the pool.
THEOREM MemoryTypeCorrect == Spec => []TypeOK
<1>1. PageInv /\ HeapInv => TypeOK
  <2> SUFFICES ASSUME PageInv, HeapInv PROVE TypeOK
    OBVIOUS
  <2>1. ASSUME NEW d \in Desc, NEW i \in DOMAIN free_list[d] PROVE free_list[d][i][1] \in Bit
    <3>1. free_list[d][i] \in Range(free_list[d])
      BY DEF Range
    <3> QED
      BY <3>1, ListPages
  <2>2. \A r \in runs : r[1] \in Bit
    BY DEF HeapInv, HeapTypes
  <2>3. panic \in BOOLEAN
    BY DEF HeapInv, HeapTypes
  <2> QED
    BY <2>1, <2>2, <2>3 DEF TypeOK, PageInv, PageTypes
<1> QED
  BY <1>1, MemoryInvariant, PTL

\* Both bitmaps and the page table agree, for any number of pages and after any
\* sequence of allocations, frees and new user page tables.
THEOREM BitmapsMatchPageTable == Spec => []MapConsistent
<1>1. PageInv => MapConsistent
  BY DEF PageInv
<1> QED
  BY <1>1, MemoryInvariant, PTL

\* Nothing that get_kernel_pages and sys_malloc have handed out overlaps.
THEOREM AllocationsDisjoint == Spec => []NoOverlap
<1>1. HeapInv => NoOverlap
  BY DEF HeapInv
<1> QED
  BY <1>1, MemoryInvariant, PTL

\* The free lists and the counts of the arenas match the blocks in use.
THEOREM FreeListsMatch == Spec => []ArenaCounts
<1>1. PageInv /\ HeapInv => ArenaCounts
  <2> SUFFICES ASSUME PageInv, HeapInv PROVE ArenaCounts
    OBVIOUS
  <2>1. ASSUME NEW d \in Desc, NEW i \in DOMAIN free_list[d]
        PROVE  LET b == free_list[d][i]
               IN  /\ b \notin blocks
                   /\ b[1] \in vaddr_bitmap
                   /\ arena[b[1]].kind = "small" /\ arena[b[1]].desc = d
                   /\ \A j \in DOMAIN free_list[d] : free_list[d][j] = b => j = i
                   /\ \E c \in blocks : c[1] = b[1]
    <3> DEFINE b == free_list[d][i]
               v == b[1]
    <3>1. b \in Range(free_list[d])
      BY DEF Range
    <3> HIDE DEF b
    <3>2. v \in Bit /\ arena[v].kind = "small" /\ arena[v].desc = d
      BY <3>1, ListPages
    <3>3. v \in vaddr_bitmap
      BY <3>2, BlocksLive
    <3>4. InUse(v) # {} /\ InUse(v) \cap OnList(v) = {}
      BY <3>2 DEF HeapInv, PageCut
    <3>5. b \notin blocks
      BY <3>1, <3>2, <3>4 DEF InUse, OnList
    <3>6. \E c \in blocks : c[1] = v
      BY <3>4 DEF InUse
    <3>7. \A j \in DOMAIN free_list[d] : free_list[d][j] = b => j = i
      BY ListPages DEF IsInjective, b
    <3> QED
      BY <3>2, <3>3, <3>5, <3>6, <3>7 DEF b
  <2>2. ASSUME NEW b \in blocks, arena[b[1]].kind = "small"
        PROVE  LET a == arena[b[1]]
               IN  a.cnt = Cardinality({i \in DOMAIN free_list[a.desc] :
                                          free_list[a.desc][i][1] = b[1]})
    <3> DEFINE v == b[1]
               s == free_list[arena[v].desc]
               I == {i \in DOMAIN s : s[i][1] = v}
               f == [i \in I |-> s[i]]
    <3>1. v \in Bit /\ arena[v].desc \in Desc /\ arena[v].cnt = Cardinality(OnList(v))
          /\ IsFiniteSet(OnList(v))
      BY <2>2, LastInUse, BlocksLive DEF HeapInv, PageCut
    <3>2. IsInjective(s) /\ OnList(v) = {x \in Range(s) : x[1] = v}
      BY <3>1, ListPages DEF OnList
    <3> HIDE DEF s
    <3>3. f \in Bijection(I, OnList(v))
      <4>1. \A i \in I : f[i] \in OnList(v)
        BY <3>2 DEF Range
      <4>2. \A i, j \in I : f[i] = f[j] => i = j
        BY <3>2 DEF IsInjective
      <4>3. \A x \in OnList(v) : \E i \in I : f[i] = x
        BY <3>2 DEF Range
      <4> QED
        BY <4>1, <4>2, <4>3 DEF Bijection, Injection, Surjection, IsInjective
    <3>4. Cardinality(I) = Cardinality(OnList(v))
      <4> HIDE DEF I, f
      <4>1. ExistsBijection(I, OnList(v))
        BY <3>3 DEF ExistsBijection
      <4>2. ExistsBijection(OnList(v), I)
        BY <4>1, Fun_ExistsBijSymmetric
      <4> QED
        BY <3>1, <4>2, FS_Bijection
    <3> QED
      BY <3>1, <3>4 DEF s
  <2> QED
    BY <2>1, <2>2 DEF ArenaCounts
<1> QED
  BY <1>1, MemoryInvariant, PTL
=============================================================================
