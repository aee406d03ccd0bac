---------------------------- MODULE Heap_proofs ----------------------------
(***************************************************************************)
(* Proofs about the kernel heap of mm/heap.c, for every size of a page and *)
(* of a header, every request and every set of pages the PMM has free.     *)
(***************************************************************************)
EXTENDS Heap, FiniteSetTheorems, SequenceTheorems, FunctionTheorems,
        WellFoundedInduction, TLAPS

\* A nonempty set of naturals has a least element, which is its Min.
LEMMA LeastElement ==
  ASSUME NEW S \in SUBSET Nat, S # {}
  PROVE  Min(S) \in S /\ \A y \in S : Min(S) <= y
<1>1. PICK x \in S : \A y \in S : ~ (<<y, x>> \in OpToRel(<, Nat))
  BY NatLessThanWellFounded, WFMin, S # {}
<1>2. \A y \in S : ~ (y < x)
  BY <1>1 DEF OpToRel
<1>3. \E z \in S : \A y \in S : z <= y
  BY <1>2
<1>. QED  BY <1>3 DEF Min

\* A set of numbers that has 0 and with every number its successor has all
\* numbers up to a bound.
LEMMA UpTo ==
  ASSUME NEW n \in Nat, NEW S,
         0 \in S, \A i \in 0 .. n : i \in S /\ i < n => i + 1 \in S
  PROVE  0 .. n \subseteq S
<1> DEFINE Bad == {i \in 0 .. n : i \notin S}
<1> SUFFICES ASSUME Bad # {} PROVE FALSE
  OBVIOUS
<1>1. Min(Bad) \in Bad /\ \A y \in Bad : Min(Bad) <= y
  <2>1. Bad \in SUBSET Nat
    OBVIOUS
  <2> HIDE DEF Bad
  <2>. QED  BY <2>1, LeastElement
<1>2. PICK i \in 0 .. n : i \notin S /\ \A y \in Bad : i <= y
  BY <1>1
<1>3. i # 0
  BY <1>2
<1>4. i - 1 \in 0 .. n /\ i - 1 < n /\ i - 1 + 1 = i /\ ~(i <= i - 1)
  BY <1>2, <1>3
<1>5. i - 1 \in S
  BY <1>2, <1>4
<1>. QED  BY <1>2, <1>4, <1>5

----------------------------------------------------------------------------
(***************************************************************************)
(* Sizes and pages.                                                        *)
(***************************************************************************)
\* Dividing and rounding up covers the dividend.
LEMMA CeilCovers ==
  ASSUME NEW n \in Nat, NEW d \in Nat \ {0}
  PROVE  CeilDiv(n, d) \in Nat /\ n <= CeilDiv(n, d) * d
<1> DEFINE q == (n + d - 1) \div d
<1>1. q \in Nat /\ n + d - 1 < (q + 1) * d
  OBVIOUS
<1>2. (q + 1) * d = q * d + d
  <2> HIDE DEF q
  <2>. QED  BY <1>1
<1>3. q * d \in Nat
  <2> HIDE DEF q
  <2>. QED  BY <1>1
<1>. QED  BY <1>1, <1>2, <1>3 DEF CeilDiv

LEMMA RequestFits ==
  ASSUME NEW size \in Nat
  PROVE  ALIGN_UP(size) \in Nat /\ size <= ALIGN_UP(size)
<1>1. ALIGN \in Nat \ {0}
  BY HeapAssumption
<1>2. CeilDiv(size, ALIGN) \in Nat /\ size <= CeilDiv(size, ALIGN) * ALIGN
  BY <1>1, CeilCovers
<1>3. CeilDiv(size, ALIGN) * ALIGN \in Nat
  BY <1>1, <1>2
<1>. QED  BY <1>2, <1>3 DEF ALIGN_UP

LEMMA PageOf ==
  ASSUME NEW a \in Nat
  PROVE  /\ a \div PAGE_SIZE \in Nat
         /\ \A p \in Nat : p * PAGE_SIZE <= a => p <= a \div PAGE_SIZE
         /\ \A p \in Nat : a < p * PAGE_SIZE => a \div PAGE_SIZE < p
<1> DEFINE q == a \div PAGE_SIZE
<1>1. PAGE_SIZE \in Nat \ {0}
  BY HeapAssumption
<1>2. q \in Nat /\ q * PAGE_SIZE <= a /\ a < (q + 1) * PAGE_SIZE
  BY <1>1
<1> HIDE DEF q
<1>3. ASSUME NEW p \in Nat, p * PAGE_SIZE <= a PROVE p <= q
  <2>1. p * PAGE_SIZE < (q + 1) * PAGE_SIZE
    <3>1. p * PAGE_SIZE \in Nat /\ (q + 1) * PAGE_SIZE \in Nat
      BY <1>1, <1>2
    <3>. QED  BY <1>2, <1>3, <3>1
  <2>2. CASE q + 1 <= p
    <3>1. PICK d \in Nat : p = q + 1 + d
      <4>1. p - (q + 1) \in Nat /\ p = q + 1 + (p - (q + 1))
        BY <1>2, <2>2
      <4>. QED  BY <4>1
    <3>2. p * PAGE_SIZE = (q + 1) * PAGE_SIZE + d * PAGE_SIZE /\ d * PAGE_SIZE \in Nat
      BY <1>1, <1>2, <3>1
    <3>3. (q + 1) * PAGE_SIZE \in Nat
      BY <1>1, <1>2
    <3>. QED  BY <2>1, <3>2, <3>3
  <2>. QED  BY <1>2, <2>2
<1>4. ASSUME NEW p \in Nat, a < p * PAGE_SIZE PROVE q < p
  <2>1. q * PAGE_SIZE < p * PAGE_SIZE
    <3>1. p * PAGE_SIZE \in Nat /\ q * PAGE_SIZE \in Nat
      BY <1>1, <1>2
    <3>. QED  BY <1>2, <1>4, <3>1
  <2>2. CASE p <= q
    <3>1. PICK d \in Nat : q = p + d
      <4>1. q - p \in Nat /\ q = p + (q - p)
        BY <1>2, <2>2
      <4>. QED  BY <4>1
    <3>2. q * PAGE_SIZE = p * PAGE_SIZE + d * PAGE_SIZE /\ d * PAGE_SIZE \in Nat
      BY <1>1, <1>2, <3>1
    <3>3. p * PAGE_SIZE \in Nat
      BY <1>1
    <3>. QED  BY <2>1, <3>2, <3>3
  <2>. QED  BY <1>2, <2>2
<1>. QED  BY <1>2, <1>3, <1>4 DEF q

\* A later address lies in no earlier page.
LEMMA PageMonotone ==
  ASSUME NEW a \in Nat, NEW b \in Nat, a <= b
  PROVE  a \div PAGE_SIZE <= b \div PAGE_SIZE
<1> DEFINE q == a \div PAGE_SIZE
<1>1. PAGE_SIZE \in Nat \ {0}
  BY HeapAssumption
<1>2. q \in Nat /\ q * PAGE_SIZE <= a
  BY <1>1
<1>3. q * PAGE_SIZE <= b
  <2> HIDE DEF q
  <2>1. q * PAGE_SIZE \in Nat
    BY <1>1, <1>2
  <2>. QED  BY <1>2, <2>1
<1>. QED  BY <1>2, <1>3, PageOf

----------------------------------------------------------------------------
(***************************************************************************)
(* Lists of blocks.                                                        *)
(***************************************************************************)
\* The blocks lie one after another.
Ordered(list) ==
    \A i, j \in 1 .. Len(list) : i < j => BlockEnd(list[i]) <= list[j].addr

\* No block reaches into a page of F.
Clear(list, F) ==
    \A i \in 1 .. Len(list) : \A q \in F : BlockEnd(list[i]) <= q * PAGE_SIZE

NoPair(list) == \A i \in 1 .. Len(list) - 1 : ~(list[i].free /\ list[i + 1].free)

PagesOf(b) == b.addr \div PAGE_SIZE .. (BlockEnd(b) - 1) \div PAGE_SIZE

Inside(list, H) == \A i \in 1 .. Len(list) : PagesOf(list[i]) \subseteq H

Joined(H) == \A q \in H : \A r \in H : q .. r \subseteq H

\* The blocks with their headers have N bytes: s adds them up.
Weighs(list, N) ==
    \E s : /\ s[0] = 0 /\ s[Len(list)] = N
           /\ \A i \in 0 .. Len(list) : s[i] \in Nat
           /\ \A i \in 1 .. Len(list) : s[i] = s[i - 1] + HDR + list[i].size

Used(list) == {list[i] : i \in {j \in 1 .. Len(list) : ~list[j].free}}

LEMMA BlockFacts ==
  ASSUME NEW b \in Block
  PROVE  /\ b.addr \in Nat /\ b.size \in Nat /\ b.free \in BOOLEAN
         /\ BlockEnd(b) \in Nat /\ Ptr(b) \in Nat /\ b.addr < BlockEnd(b)
         /\ b = HeapBlock(b.addr, b.size, b.free)
         /\ HDR \in Nat \ {0}
BY HeapAssumption DEF Block, BlockEnd, Ptr, HeapBlock

LEMMA BlockIs ==
  ASSUME NEW a \in Nat, NEW n \in Nat, NEW f \in BOOLEAN
  PROVE  /\ HeapBlock(a, n, f) \in Block
         /\ HeapBlock(a, n, f).addr = a /\ HeapBlock(a, n, f).size = n
         /\ HeapBlock(a, n, f).free = f
         /\ BlockEnd(HeapBlock(a, n, f)) = a + HDR + n
         /\ Ptr(HeapBlock(a, n, f)) = a + HDR
BY DEF Block, HeapBlock, BlockEnd, Ptr

LEMMA ElementIs ==
  ASSUME NEW list \in Seq(Block)
  PROVE  /\ Len(list) \in Nat /\ DOMAIN list = 1 .. Len(list)
         /\ \A i \in 1 .. Len(list) : list[i] \in Block
OBVIOUS

\* Two blocks of an ordered list have different addresses.
LEMMA OneBlockAt ==
  ASSUME NEW list \in Seq(Block), Ordered(list),
         NEW i \in 1 .. Len(list), NEW j \in 1 .. Len(list),
         list[i].addr = list[j].addr
  PROVE  i = j
<1>1. list[i] \in Block /\ list[j] \in Block
  BY ElementIs
<1>2. list[i].addr < BlockEnd(list[i]) /\ list[j].addr < BlockEnd(list[j])
      /\ list[i].addr \in Nat /\ BlockEnd(list[i]) \in Nat /\ BlockEnd(list[j]) \in Nat
  BY <1>1, BlockFacts
<1>3. CASE i < j
  <2>1. BlockEnd(list[i]) <= list[j].addr
    BY <1>3 DEF Ordered
  <2>. QED  BY <1>2, <2>1
<1>4. CASE j < i
  <2>1. BlockEnd(list[j]) <= list[i].addr
    BY <1>4 DEF Ordered
  <2>. QED  BY <1>2, <2>1
<1>. QED  BY <1>3, <1>4

\* A block that begins where b begins, or later, and ends where b ends, or
\* earlier, has no other pages than b.
LEMMA PagesWithin ==
  ASSUME NEW b \in Block, NEW c \in Block,
         b.addr <= c.addr, BlockEnd(c) <= BlockEnd(b)
  PROVE  PagesOf(c) \subseteq PagesOf(b)
<1> DEFINE lo == b.addr \div PAGE_SIZE
           hi == (BlockEnd(b) - 1) \div PAGE_SIZE
           lo2 == c.addr \div PAGE_SIZE
           hi2 == (BlockEnd(c) - 1) \div PAGE_SIZE
<1>1. /\ b.addr \in Nat /\ c.addr \in Nat
      /\ BlockEnd(b) - 1 \in Nat /\ BlockEnd(c) - 1 \in Nat
      /\ BlockEnd(c) - 1 <= BlockEnd(b) - 1
  BY BlockFacts
<1>2. lo <= lo2 /\ hi2 <= hi
  BY <1>1, PageMonotone
<1>3. lo \in Nat /\ lo2 \in Nat /\ hi \in Nat /\ hi2 \in Nat
  BY <1>1, PageOf
<1> HIDE DEF lo, lo2, hi, hi2
<1>4. lo2 .. hi2 \subseteq lo .. hi
  BY <1>2, <1>3
<1>. QED  BY <1>4 DEF PagesOf, lo, lo2, hi, hi2

(***************************************************************************)
(* Replacing a block and inserting one behind it.                          *)
(***************************************************************************)
\* L is the list with block i replaced by u.
Replaced(list, L, i, u) ==
    /\ L \in Seq(Block) /\ Len(L) = Len(list)
    /\ \A j \in 1 .. Len(list) : L[j] = IF j = i THEN u ELSE list[j]

LEMMA ReplaceIs ==
  ASSUME NEW list \in Seq(Block), NEW i \in 1 .. Len(list), NEW u \in Block
  PROVE  Replaced(list, ReplaceAt(list, i, u), i, u)
<1>1. ReplaceAt(list, i, u) = [list EXCEPT ![i] = u]
  BY DEF ReplaceAt
<1>. QED  BY <1>1, ExceptSeq DEF Replaced

LEMMA InsertIs ==
  ASSUME NEW list \in Seq(Block), NEW i \in 1 .. Len(list), NEW r \in Block
  PROVE  /\ InsertAt(list, i + 1, r) \in Seq(Block)
         /\ Len(InsertAt(list, i + 1, r)) = Len(list) + 1
         /\ \A j \in 1 .. Len(list) + 1 :
               InsertAt(list, i + 1, r)[j] =
                   IF j <= i THEN list[j] ELSE IF j = i + 1 THEN r ELSE list[j - 1]
<1> DEFINE n == Len(list)
           s1 == SubSeq(list, 1, i)
           s2 == SubSeq(list, i + 1, n)
           t == s1 \o <<r>>
<1>1. n \in Nat /\ i \in Int /\ i + 1 \in Int /\ i + 1 - 1 = i
  OBVIOUS
<1>2. /\ s1 \in Seq(Block) /\ Len(s1) = i
      /\ \A j \in 1 .. i : s1[j] = list[j]
  <2>1. \A j \in 1 .. i : list[j] \in Block
    OBVIOUS
  <2>2. i - 1 + 1 = i /\ \A j \in 1 .. i : 1 + j - 1 = j
    OBVIOUS
  <2>3. 1 <= i /\ 1 \in Int
    OBVIOUS
  <2>. QED  BY <1>1, <2>1, <2>2, <2>3, SubSeqProperties
<1>3. /\ s2 \in Seq(Block) /\ Len(s2) = n - i
      /\ \A j \in 1 .. n - i : s2[j] = list[i + j]
  <2>1. \A j \in i + 1 .. n : list[j] \in Block
    OBVIOUS
  <2>2. n - (i + 1) + 1 = n - i /\ \A j \in 1 .. n - i : i + 1 + j - 1 = i + j
    OBVIOUS
  <2>3. Len(s2) = IF i + 1 <= n THEN n - (i + 1) + 1 ELSE 0
    BY <1>1, <2>1, SubSeqProperties
  <2>4. s2 \in Seq(Block) /\ \A j \in 1 .. n - (i + 1) + 1 : s2[j] = list[i + 1 + j - 1]
    BY <1>1, <2>1, SubSeqProperties
  <2>5. i <= n
    OBVIOUS
  <2> HIDE DEF s2, n
  <2>6. Len(s2) = n - i
    BY <1>1, <2>3, <2>5
  <2>. QED  BY <2>2, <2>4, <2>6
<1>4. <<r>> \in Seq(Block) /\ Len(<<r>>) = 1 /\ <<r>>[1] = r
  OBVIOUS
<1> HIDE DEF s1, s2
<1>5. /\ t \in Seq(Block) /\ Len(t) = i + 1
      /\ \A j \in 1 .. i + 1 : t[j] = IF j <= i THEN list[j] ELSE r
  <2>1. /\ t \in Seq(Block) /\ Len(t) = Len(s1) + 1
        /\ \A j \in 1 .. Len(s1) + 1 :
              t[j] = IF j <= Len(s1) THEN s1[j] ELSE <<r>>[j - Len(s1)]
    BY <1>2, <1>4, ConcatProperties
  <2>2. \A j \in 1 .. i + 1 : ~(j <= i) => j - i = 1
    OBVIOUS
  <2>. QED  BY <1>1, <1>2, <1>4, <2>1, <2>2
<1> HIDE DEF t
<1>6. /\ t \o s2 \in Seq(Block) /\ Len(t \o s2) = n + 1
      /\ \A j \in 1 .. n + 1 :
            (t \o s2)[j] = IF j <= i + 1 THEN t[j] ELSE s2[j - (i + 1)]
  <2>1. /\ t \o s2 \in Seq(Block) /\ Len(t \o s2) = Len(t) + Len(s2)
        /\ \A j \in 1 .. Len(t) + Len(s2) :
              (t \o s2)[j] = IF j <= Len(t) THEN t[j] ELSE s2[j - Len(t)]
    BY <1>3, <1>5, ConcatProperties
  <2>2. Len(t) + Len(s2) = n + 1
    BY <1>1, <1>3, <1>5
  <2>. QED  BY <1>5, <2>1, <2>2
<1>7. InsertAt(list, i + 1, r) = t \o s2
  <2>1. PICK k : k = i + 1 /\ k - 1 = i
    BY <1>1
  <2>2. InsertAt(list, k, r) = SubSeq(list, 1, k - 1) \o <<r>> \o SubSeq(list, k, Len(list))
    BY DEF InsertAt
  <2>. QED  BY <2>1, <2>2 DEF t, s1, s2
<1> DEFINE v == t \o s2
<1>v. /\ v \in Seq(Block) /\ Len(v) = n + 1
      /\ \A j \in 1 .. n + 1 : v[j] = IF j <= i + 1 THEN t[j] ELSE s2[j - (i + 1)]
  BY <1>6
<1>n. n \in Nat /\ i \in 1 .. n /\ n = Len(list)
  OBVIOUS
<1> HIDE DEF v, n
<1>8. ASSUME NEW j \in 1 .. n + 1
      PROVE  v[j] = IF j <= i THEN list[j] ELSE IF j = i + 1 THEN r ELSE list[j - 1]
  <2>1. CASE j <= i
    <3>1. j \in 1 .. i + 1 /\ j <= i + 1
      BY <1>n, <2>1
    <3>. QED  BY <1>5, <1>v, <2>1, <3>1
  <2>2. CASE j = i + 1
    <3>1. j \in 1 .. i + 1 /\ j <= i + 1 /\ ~(j <= i)
      BY <1>n, <2>2
    <3>. QED  BY <1>5, <1>v, <2>2, <3>1
  <2>3. CASE j > i + 1
    <3>1. j - (i + 1) \in 1 .. n - i /\ i + (j - (i + 1)) = j - 1
      BY <1>n, <2>3
    <3>2. v[j] = s2[j - (i + 1)]
      BY <1>v, <1>n, <2>3
    <3>3. s2[j - (i + 1)] = list[j - 1]
      BY <1>3, <3>1
    <3>. QED  BY <1>n, <2>3, <3>2, <3>3
  <2>. QED  BY <1>n, <2>1, <2>2, <2>3
<1>9. InsertAt(list, i + 1, r) = v
  BY <1>7 DEF v
<1>. QED  BY <1>n, <1>v, <1>8, <1>9

\* L is the list with block i replaced by u and, behind it, r.
Parted(list, L, i, u, r) ==
    /\ L \in Seq(Block) /\ Len(L) = Len(list) + 1
    /\ \A j \in 1 .. Len(list) + 1 :
          L[j] = IF j < i THEN list[j] ELSE IF j = i THEN u
                 ELSE IF j = i + 1 THEN r ELSE list[j - 1]

LEMMA ReplacedKeeps ==
  ASSUME NEW list \in Seq(Block), NEW L, NEW i \in 1 .. Len(list), NEW u \in Block,
         Replaced(list, L, i, u), u.addr = list[i].addr, u.size = list[i].size
  PROVE  /\ Ordered(list) => Ordered(L)
         /\ \A F : Clear(list, F) => Clear(L, F)
         /\ \A H : Inside(list, H) => Inside(L, H)
         /\ \A N : Weighs(list, N) => Weighs(L, N)
         /\ NoPair(list) /\ ~u.free => NoPair(L)
<1>1. Len(list) \in Nat /\ Len(L) = Len(list)
  BY ElementIs DEF Replaced
<1>2. \A j \in 1 .. Len(list) : /\ L[j].addr = list[j].addr
                                /\ L[j].size = list[j].size
                                /\ BlockEnd(L[j]) = BlockEnd(list[j])
                                /\ PagesOf(L[j]) = PagesOf(list[j])
  BY DEF Replaced, BlockEnd, PagesOf
<1>3. Ordered(list) => Ordered(L)
  BY <1>1, <1>2 DEF Ordered
<1>4. \A F : Clear(list, F) => Clear(L, F)
  BY <1>1, <1>2 DEF Clear
<1>5. \A H : Inside(list, H) => Inside(L, H)
  BY <1>1, <1>2 DEF Inside
<1>6. ASSUME NEW N, Weighs(list, N) PROVE Weighs(L, N)
  <2>1. PICK s : /\ s[0] = 0 /\ s[Len(list)] = N
                 /\ \A j \in 0 .. Len(list) : s[j] \in Nat
                 /\ \A j \in 1 .. Len(list) : s[j] = s[j - 1] + HDR + list[j].size
    BY <1>6 DEF Weighs
  <2>2. /\ s[0] = 0 /\ s[Len(L)] = N
        /\ \A j \in 0 .. Len(L) : s[j] \in Nat
        /\ \A j \in 1 .. Len(L) : s[j] = s[j - 1] + HDR + L[j].size
    BY <1>1, <1>2, <2>1
  <2>. QED  BY <2>2 DEF Weighs
<1>7. ASSUME NoPair(list), ~u.free PROVE NoPair(L)
  <2> SUFFICES ASSUME NEW j \in 1 .. Len(L) - 1
               PROVE  ~(L[j].free /\ L[j + 1].free)
    BY DEF NoPair
  <2>1. j \in 1 .. Len(list) - 1 /\ j \in 1 .. Len(list) /\ j + 1 \in 1 .. Len(list)
    BY <1>1
  <2>2. ~(list[j].free /\ list[j + 1].free)
    BY <1>7, <2>1 DEF NoPair
  <2>3. L[j] = (IF j = i THEN u ELSE list[j]) /\ L[j + 1] = (IF j + 1 = i THEN u ELSE list[j + 1])
    BY <2>1 DEF Replaced
  <2>. QED  BY <1>7, <2>2, <2>3
<1>. QED  BY <1>3, <1>4, <1>5, <1>6, <1>7

LEMMA PartedPlaces ==
  ASSUME NEW list \in Seq(Block), NEW L, NEW i \in 1 .. Len(list),
         NEW u \in Block, NEW r \in Block, Parted(list, L, i, u, r),
         u.addr = list[i].addr, r.addr = BlockEnd(u), BlockEnd(r) = BlockEnd(list[i])
  PROVE  /\ Ordered(list) => Ordered(L)
         /\ \A F \in SUBSET Nat : Clear(list, F) => Clear(L, F)
         /\ \A H : Inside(list, H) => Inside(L, H)
<1> DEFINE from(j) == IF j <= i THEN j ELSE j - 1
<1>1. Len(list) \in Nat /\ Len(L) = Len(list) + 1 /\ list[i] \in Block
  BY ElementIs DEF Parted
<1>2. \A j \in 1 .. Len(L) : from(j) \in 1 .. Len(list)
  BY <1>1
<1>3. \A j \in 1 .. Len(L) : j # i /\ j # i + 1 => L[j] = list[from(j)]
  BY <1>1 DEF Parted
<1>4. L[i] = u /\ L[i + 1] = r /\ i \in 1 .. Len(L) /\ i + 1 \in 1 .. Len(L)
      /\ from(i) = i /\ from(i + 1) = i
  BY <1>1 DEF Parted
<1>5. u.addr < BlockEnd(u) /\ r.addr < BlockEnd(r) /\ u.addr \in Nat /\ r.addr \in Nat
      /\ BlockEnd(u) \in Nat /\ BlockEnd(r) \in Nat
  BY BlockFacts
<1>6. ASSUME NEW j \in 1 .. Len(L)
      PROVE  /\ L[j] \in Block
             /\ list[from(j)].addr <= L[j].addr
             /\ BlockEnd(L[j]) <= BlockEnd(list[from(j)])
             /\ L[j].addr \in Nat /\ BlockEnd(L[j]) \in Nat
             /\ list[from(j)].addr \in Nat /\ BlockEnd(list[from(j)]) \in Nat
  <2>1. L[j] \in Block /\ list[from(j)] \in Block
    BY <1>2, ElementIs DEF Parted
  <2>2. L[j].addr \in Nat /\ BlockEnd(L[j]) \in Nat
        /\ list[from(j)].addr \in Nat /\ BlockEnd(list[from(j)]) \in Nat
    BY <2>1, BlockFacts
  <2>3. CASE j = i
    BY <1>4, <1>5, <2>1, <2>2, <2>3
  <2>4. CASE j = i + 1
    BY <1>4, <1>5, <2>1, <2>2, <2>4
  <2>5. CASE j # i /\ j # i + 1
    BY <1>3, <2>1, <2>2, <2>5
  <2>. QED  BY <2>3, <2>4, <2>5
<1>7. ASSUME Ordered(list), NEW j \in 1 .. Len(L), NEW k \in 1 .. Len(L), j < k
      PROVE  BlockEnd(L[j]) <= L[k].addr
  <2>1. CASE j = i /\ k = i + 1
    BY <1>4, <1>5, <2>1
  <2>2. CASE ~(j = i /\ k = i + 1)
    <3>1. from(j) < from(k) /\ from(j) \in 1 .. Len(list) /\ from(k) \in 1 .. Len(list)
      BY <1>1, <1>7, <2>2
    <3> HIDE DEF from
    <3>2. BlockEnd(list[from(j)]) <= list[from(k)].addr
      BY <1>7, <3>1 DEF Ordered
    <3>3. /\ BlockEnd(L[j]) <= BlockEnd(list[from(j)]) /\ list[from(k)].addr <= L[k].addr
          /\ BlockEnd(L[j]) \in Nat /\ BlockEnd(list[from(j)]) \in Nat
          /\ list[from(k)].addr \in Nat /\ L[k].addr \in Nat
      BY <1>6
    <3>. QED  BY <3>2, <3>3
  <2>. QED  BY <2>1, <2>2
<1> HIDE DEF from
<1>8. ASSUME NEW F \in SUBSET Nat, Clear(list, F), NEW j \in 1 .. Len(L), NEW q \in F
      PROVE  BlockEnd(L[j]) <= q * PAGE_SIZE
  <2>1. BlockEnd(list[from(j)]) <= q * PAGE_SIZE
    BY <1>2, <1>8 DEF Clear
  <2>2. BlockEnd(L[j]) <= BlockEnd(list[from(j)])
        /\ BlockEnd(L[j]) \in Nat /\ BlockEnd(list[from(j)]) \in Nat
    BY <1>6
  <2>3. q * PAGE_SIZE \in Nat
    BY HeapAssumption
  <2>. QED  BY <2>1, <2>2, <2>3
<1>9. ASSUME NEW H, Inside(list, H), NEW j \in 1 .. Len(L)
      PROVE  PagesOf(L[j]) \subseteq H
  <2>1. PagesOf(list[from(j)]) \subseteq H
    BY <1>2, <1>9 DEF Inside
  <2>2. PagesOf(L[j]) \subseteq PagesOf(list[from(j)])
    BY <1>2, <1>6, PagesWithin, ElementIs
  <2>. QED  BY <2>1, <2>2
<1>10. Ordered(list) => Ordered(L)
  BY <1>7 DEF Ordered
<1>11. \A F \in SUBSET Nat : Clear(list, F) => Clear(L, F)
  BY <1>8 DEF Clear
<1>12. \A H : Inside(list, H) => Inside(L, H)
  BY <1>9 DEF Inside
<1>. QED  BY <1>10, <1>11, <1>12

LEMMA PartedHasNoPair ==
  ASSUME NEW list \in Seq(Block), NEW L, NEW i \in 1 .. Len(list),
         NEW u \in Block, NEW r \in Block, Parted(list, L, i, u, r),
         NoPair(list), ~u.free, i < Len(list) => ~list[i + 1].free
  PROVE  NoPair(L)
<1>1. Len(list) \in Nat /\ Len(L) = Len(list) + 1
  BY ElementIs DEF Parted
<1> SUFFICES ASSUME NEW j \in 1 .. Len(L) - 1
             PROVE  ~(L[j].free /\ L[j + 1].free)
  BY DEF NoPair
<1>2. j \in 1 .. Len(list) + 1 /\ j + 1 \in 1 .. Len(list) + 1
  BY <1>1
<1>3. L[j] = (IF j < i THEN list[j] ELSE IF j = i THEN u
              ELSE IF j = i + 1 THEN r ELSE list[j - 1])
  BY <1>2 DEF Parted
<1>4. L[j + 1] = (IF j + 1 < i THEN list[j + 1] ELSE IF j + 1 = i THEN u
                  ELSE IF j + 1 = i + 1 THEN r ELSE list[j + 1 - 1])
  BY <1>2 DEF Parted
<1>5. CASE j + 1 < i
  <2>1. j \in 1 .. Len(list) - 1
    BY <1>1, <1>5
  <2>2. ~(list[j].free /\ list[j + 1].free)
    BY <2>1 DEF NoPair
  <2>. QED  BY <1>3, <1>4, <1>5, <2>2
<1>6. CASE j + 1 = i \/ j = i
  BY <1>3, <1>4, <1>6
<1>7. CASE j = i + 1
  <2>1. L[j + 1] = list[i + 1] /\ i < Len(list)
    BY <1>1, <1>4, <1>7
  <2>. QED  BY <2>1
<1>8. CASE j > i + 1
  <2>1. j - 1 \in 1 .. Len(list) - 1 /\ j + 1 - 1 = j - 1 + 1
    BY <1>1, <1>8
  <2>2. ~(list[j - 1].free /\ list[j - 1 + 1].free)
    BY <2>1 DEF NoPair
  <2>3. L[j] = list[j - 1] /\ L[j + 1] = list[j - 1 + 1]
    BY <1>3, <1>4, <1>8, <2>1
  <2>. QED  BY <2>2, <2>3
<1>. QED  BY <1>5, <1>6, <1>7, <1>8

LEMMA PartedWeighs ==
  ASSUME NEW list \in Seq(Block), NEW L, NEW i \in 1 .. Len(list),
         NEW u \in Block, NEW r \in Block, Parted(list, L, i, u, r),
         u.size + HDR + r.size = list[i].size, NEW N, Weighs(list, N)
  PROVE  Weighs(L, N)
<1>1. Len(list) \in Nat /\ Len(L) = Len(list) + 1 /\ u.size \in Nat /\ r.size \in Nat
      /\ HDR \in Nat
  BY ElementIs, BlockFacts DEF Parted
<1>2. PICK s : /\ s[0] = 0 /\ s[Len(list)] = N
               /\ \A j \in 0 .. Len(list) : s[j] \in Nat
               /\ \A j \in 1 .. Len(list) : s[j] = s[j - 1] + HDR + list[j].size
  BY DEF Weighs
<1> DEFINE t == [j \in 0 .. Len(L) |-> IF j < i THEN s[j]
                                       ELSE IF j = i THEN s[i - 1] + HDR + u.size
                                       ELSE s[j - 1]]
<1>3. t[0] = 0
  BY <1>1, <1>2
<1>4. t[Len(L)] = N
  <2>1. Len(L) \in 0 .. Len(L) /\ ~(Len(L) < i) /\ Len(L) # i /\ Len(L) - 1 = Len(list)
    BY <1>1
  <2>. QED  BY <1>2, <2>1
<1>5. ASSUME NEW j \in 0 .. Len(L) PROVE t[j] \in Nat
  <2>1. i - 1 \in 0 .. Len(list)
    BY <1>1
  <2>2. j >= i => j = i \/ j - 1 \in 0 .. Len(list)
    BY <1>1
  <2>3. j < i => j \in 0 .. Len(list)
    BY <1>1
  <2>4. CASE j < i
    BY <1>2, <2>3, <2>4
  <2>5. CASE j = i
    <3>1. s[i - 1] \in Nat
      BY <1>2, <2>1
    <3>. QED  BY <1>1, <2>5, <3>1
  <2>6. CASE j > i
    <3>1. s[j - 1] \in Nat /\ j # i /\ ~(j < i)
      BY <1>2, <2>2, <2>6
    <3>. QED  BY <3>1
  <2>. QED  BY <2>4, <2>5, <2>6
<1>6. ASSUME NEW j \in 1 .. Len(L) PROVE t[j] = t[j - 1] + HDR + L[j].size
  <2>0. j \in 0 .. Len(L) /\ j - 1 \in 0 .. Len(L) /\ j \in 1 .. Len(list) + 1
    BY <1>1
  <2>1. CASE j < i
    <3>1. t[j] = s[j] /\ t[j - 1] = s[j - 1] /\ L[j] = list[j] /\ j \in 1 .. Len(list)
      BY <1>1, <2>0, <2>1 DEF Parted
    <3>. QED  BY <1>2, <3>1
  <2>2. CASE j = i
    <3>1. t[j] = s[i - 1] + HDR + u.size /\ t[j - 1] = s[i - 1] /\ L[j] = u
      BY <1>1, <2>0, <2>2 DEF Parted
    <3>. QED  BY <3>1
  <2>3. CASE j = i + 1
    <3>1. t[j] = s[i] /\ t[j - 1] = s[i - 1] + HDR + u.size /\ L[j] = r
      BY <1>1, <2>0, <2>3 DEF Parted
    <3>2. s[i] = s[i - 1] + HDR + list[i].size /\ s[i - 1] \in Nat
      BY <1>1, <1>2
    <3> HIDE DEF t
    <3>3. s[i] = s[i - 1] + HDR + (u.size + HDR + r.size)
      BY <3>2
    <3>4. \A a, x, y, z \in Nat : a + z + (x + z + y) = a + z + x + z + y
      OBVIOUS
    <3>5. s[i] = s[i - 1] + HDR + u.size + HDR + r.size
      BY <1>1, <3>2, <3>3, <3>4
    <3>. QED  BY <3>1, <3>5
  <2>4. CASE j > i + 1
    <3>1. t[j] = s[j - 1] /\ t[j - 1] = s[j - 1 - 1] /\ L[j] = list[j - 1]
          /\ j - 1 \in 1 .. Len(list)
      BY <1>1, <2>0, <2>4 DEF Parted
    <3> HIDE DEF t
    <3>. QED  BY <1>2, <3>1
  <2>. QED  BY <2>1, <2>2, <2>3, <2>4
<1> HIDE DEF t
<1>. QED  BY <1>3, <1>4, <1>5, <1>6 DEF Weighs

(***************************************************************************)
(* The used blocks of the new list.                                        *)
(***************************************************************************)
LEMMA ReplacedUsed ==
  ASSUME NEW list \in Seq(Block), NEW L, NEW i \in 1 .. Len(list), NEW u \in Block,
         Replaced(list, L, i, u), Ordered(list)
  PROVE  Used(L) = (Used(list) \ {list[i]}) \cup (IF u.free THEN {} ELSE {u})
<1>1. Len(list) \in Nat /\ Len(L) = Len(list)
  BY ElementIs DEF Replaced
<1>2. \A j \in 1 .. Len(list) : L[j] = IF j = i THEN u ELSE list[j]
  BY DEF Replaced
<1>3. \A j \in 1 .. Len(list) : j # i => list[j] # list[i]
  BY OneBlockAt
<1>. QED  BY <1>1, <1>2, <1>3 DEF Used

LEMMA PartedUsed ==
  ASSUME NEW list \in Seq(Block), NEW L, NEW i \in 1 .. Len(list),
         NEW u \in Block, NEW r \in Block, Parted(list, L, i, u, r), Ordered(list),
         ~u.free, r.free
  PROVE  Used(L) = (Used(list) \ {list[i]}) \cup {u}
<1>1. Len(list) \in Nat /\ Len(L) = Len(list) + 1
  BY ElementIs DEF Parted
<1>2. \A j \in 1 .. Len(list) : j # i => list[j] # list[i]
  BY OneBlockAt
<1>3. ASSUME NEW b \in Used(L) PROVE b \in (Used(list) \ {list[i]}) \cup {u}
  <2>1. PICK j \in 1 .. Len(L) : b = L[j] /\ ~L[j].free
    BY DEF Used
  <2>2. CASE j < i
    <3>1. b = list[j] /\ j \in 1 .. Len(list) /\ j # i
      BY <1>1, <2>1, <2>2 DEF Parted
    <3>. QED  BY <1>2, <2>1, <3>1 DEF Used
  <2>3. CASE j = i
    BY <1>1, <2>1, <2>3 DEF Parted
  <2>4. CASE j = i + 1
    BY <1>1, <2>1, <2>4 DEF Parted
  <2>5. CASE j > i + 1
    <3>1. b = list[j - 1] /\ j - 1 \in 1 .. Len(list) /\ j - 1 # i
      BY <1>1, <2>1, <2>5 DEF Parted
    <3>. QED  BY <1>2, <2>1, <3>1 DEF Used
  <2>. QED  BY <2>2, <2>3, <2>4, <2>5
<1>4. u \in Used(L)
  <2>1. i \in 1 .. Len(L) /\ L[i] = u
    BY <1>1 DEF Parted
  <2>. QED  BY <2>1 DEF Used
<1>5. ASSUME NEW b \in Used(list), b # list[i] PROVE b \in Used(L)
  <2>1. PICK j \in 1 .. Len(list) : b = list[j] /\ ~list[j].free
    BY DEF Used
  <2>2. CASE j < i
    <3>1. j \in 1 .. Len(L) /\ L[j] = b
      BY <1>1, <2>1, <2>2 DEF Parted
    <3>. QED  BY <2>1, <3>1 DEF Used
  <2>3. CASE j > i
    <3>1. j + 1 \in 1 .. Len(L) /\ L[j + 1] = list[j + 1 - 1] /\ j + 1 - 1 = j
      BY <1>1, <2>3 DEF Parted
    <3>. QED  BY <2>1, <3>1 DEF Used
  <2>. QED  BY <1>5, <2>1, <2>2, <2>3
<1>. QED  BY <1>3, <1>4, <1>5

(***************************************************************************)
(* Split (heap.c:74): the block is taken whole or parted.                  *)
(***************************************************************************)
LEMMA SplitIs ==
  ASSUME NEW list \in Seq(Block), NEW i \in 1 .. Len(list), NEW req \in Nat,
         list[i].size >= req
  PROVE  \E u \in Block :
           /\ u.addr = list[i].addr /\ ~u.free /\ u.size >= req
           /\ \/ u.size = list[i].size /\ Replaced(list, Split(list, i, req), i, u)
              \/ \E r \in Block :
                    /\ r.free /\ r.addr = BlockEnd(u)
                    /\ BlockEnd(r) = BlockEnd(list[i])
                    /\ u.size + HDR + r.size = list[i].size
                    /\ Parted(list, Split(list, i, req), i, u, r)
<1> DEFINE b == list[i]
           used == HeapBlock(b.addr, req, FALSE)
           rest == HeapBlock(b.addr + HDR + req, b.size - req - HDR, TRUE)
           whole == [b EXCEPT !.free = FALSE]
<1>1. b \in Block /\ b.addr \in Nat /\ b.size \in Nat /\ HDR \in Nat
      /\ SLACK \in Nat /\ BlockEnd(b) = b.addr + HDR + b.size
  BY ElementIs, BlockFacts, HeapAssumption DEF BlockEnd
<1>2. CASE b.size >= req + HDR + SLACK
  <2>1. /\ used \in Block /\ used.addr = b.addr /\ used.size = req /\ ~used.free
        /\ BlockEnd(used) = b.addr + HDR + req
    BY <1>1, BlockIs
  <2>2. b.size - req - HDR \in Nat /\ b.addr + HDR + req \in Nat
    BY <1>1, <1>2
  <2>3. /\ rest \in Block /\ rest.addr = b.addr + HDR + req /\ rest.free
        /\ rest.size = b.size - req - HDR
        /\ BlockEnd(rest) = b.addr + HDR + req + HDR + (b.size - req - HDR)
    BY <2>2, BlockIs
  <2>4. /\ rest.addr = BlockEnd(used) /\ BlockEnd(rest) = BlockEnd(b)
        /\ used.size + HDR + rest.size = b.size
    <3>1. req \in Nat
      OBVIOUS
    <3> HIDE DEF used, rest, b
    <3>2. rest.addr = BlockEnd(used)
      BY <2>1, <2>3
    <3>3. b.addr + HDR + req + HDR + (b.size - req - HDR) = b.addr + HDR + b.size
          /\ req + HDR + (b.size - req - HDR) = b.size
      BY <1>1, <3>1
    <3>4. BlockEnd(rest) = BlockEnd(b)
      BY <1>1, <2>3, <3>3
    <3>5. used.size + HDR + rest.size = b.size
      BY <2>1, <2>3, <3>3
    <3>. QED  BY <3>2, <3>4, <3>5
  <2> HIDE DEF used, rest
  <2> DEFINE M == ReplaceAt(list, i, used)
             L == InsertAt(M, i + 1, rest)
  <2>5. /\ M \in Seq(Block) /\ Len(M) = Len(list)
        /\ \A j \in 1 .. Len(list) : M[j] = IF j = i THEN used ELSE list[j]
    <3>1. used \in Block
      BY <2>1
    <3> HIDE DEF b
    <3>2. Replaced(list, M, i, used)
      BY <3>1, ReplaceIs
    <3> HIDE DEF M
    <3>. QED  BY <3>2 DEF Replaced
  <2>6. Split(list, i, req) = L
    BY <1>2 DEF Split, used, rest
  <2>i. i \in 1 .. Len(list) /\ Len(list) \in Nat
    BY ElementIs
  <2> HIDE DEF M
  <2>7. /\ L \in Seq(Block) /\ Len(L) = Len(M) + 1
        /\ \A j \in 1 .. Len(M) + 1 :
              L[j] = IF j <= i THEN M[j] ELSE IF j = i + 1 THEN rest ELSE M[j - 1]
    BY <2>3, <2>5, InsertIs
  <2> HIDE DEF L
  <2>8. ASSUME NEW j \in 1 .. Len(list) + 1
        PROVE  L[j] = IF j < i THEN list[j] ELSE IF j = i THEN used
                      ELSE IF j = i + 1 THEN rest ELSE list[j - 1]
    <3>0. L[j] = IF j <= i THEN M[j] ELSE IF j = i + 1 THEN rest ELSE M[j - 1]
      BY <2>5, <2>7
    <3>1. CASE j <= i
      <4>1. j \in 1 .. Len(list) /\ j # i + 1 /\ (j < i \/ j = i)
        BY <2>i, <3>1
      <4>. QED  BY <2>5, <3>0, <3>1, <4>1
    <3>2. CASE j = i + 1
      BY <2>i, <3>0, <3>2
    <3>3. CASE j > i + 1
      <4>1. j - 1 \in 1 .. Len(list) /\ j - 1 # i
        BY <2>i, <3>3
      <4>2. M[j - 1] = list[j - 1]
        BY <2>5, <4>1
      <4>. QED  BY <2>i, <3>0, <3>3, <4>2
    <3>. QED  BY <2>i, <3>1, <3>2, <3>3
  <2>9. Parted(list, Split(list, i, req), i, used, rest)
    BY <2>5, <2>6, <2>7, <2>8 DEF Parted
  <2>10. used.size >= req
    BY <2>1
  <2>. QED  BY <2>1, <2>3, <2>4, <2>9, <2>10
<1>3. CASE ~(b.size >= req + HDR + SLACK)
  <2>1. whole \in Block /\ whole.addr = b.addr /\ whole.size = b.size /\ ~whole.free
    BY <1>1 DEF Block
  <2>2. Split(list, i, req) = ReplaceAt(list, i, whole)
    BY <1>3 DEF Split
  <2> HIDE DEF whole
  <2>3. Replaced(list, Split(list, i, req), i, whole)
    <3>1. Replaced(list, ReplaceAt(list, i, whole), i, whole)
      BY <2>1, ReplaceIs
    <3>. QED  BY <2>2, <3>1
  <2>. QED  BY <2>1, <2>3
<1>. QED  BY <1>2, <1>3

(***************************************************************************)
(* A list as it should be: H are the pages of the heap, F the free pages,  *)
(* sh says that an expansion was cut short.                                *)
(***************************************************************************)
Good(list, H, F, sh) ==
    /\ list \in Seq(Block)
    /\ Ordered(list) /\ Clear(list, F) /\ NoPair(list)
    /\ ~sh /\ Joined(H) => Inside(list, H)
    /\ ~sh => Weighs(list, PAGE_SIZE * Cardinality(H))

\* Block b of the old list has become the used block u of the new one.
TakenAs(old, new, b, u) == Used(new) = (Used(old) \ {b}) \cup {u}

LEMMA SplitKeeps ==
  ASSUME NEW H, NEW F \in SUBSET Nat, NEW sh, NEW list, Good(list, H, F, sh),
         NEW i \in 1 .. Len(list), NEW req \in Nat, list[i].size >= req,
         i < Len(list) => ~list[i + 1].free
  PROVE  /\ Good(Split(list, i, req), H, F, sh)
         /\ \E u \in Block : /\ u.addr = list[i].addr /\ ~u.free /\ u.size >= req
                             /\ TakenAs(list, Split(list, i, req), list[i], u)
<1> DEFINE L == Split(list, i, req)
<1>1. list \in Seq(Block) /\ Ordered(list) /\ Clear(list, F) /\ NoPair(list)
  BY DEF Good
<1>2. PICK u \in Block :
           /\ u.addr = list[i].addr /\ ~u.free /\ u.size >= req
           /\ \/ u.size = list[i].size /\ Replaced(list, L, i, u)
              \/ \E r \in Block :
                    /\ r.free /\ r.addr = BlockEnd(u)
                    /\ BlockEnd(r) = BlockEnd(list[i])
                    /\ u.size + HDR + r.size = list[i].size
                    /\ Parted(list, L, i, u, r)
  BY <1>1, SplitIs
<1> HIDE DEF L
<1>3. CASE u.size = list[i].size /\ Replaced(list, L, i, u)
  <2>1. /\ Ordered(L) /\ Clear(L, F) /\ NoPair(L)
        /\ \A G : Inside(list, G) => Inside(L, G)
        /\ \A N : Weighs(list, N) => Weighs(L, N)
    BY <1>1, <1>2, <1>3, ReplacedKeeps
  <2>2. L \in Seq(Block)
    BY <1>3 DEF Replaced
  <2>3. Good(L, H, F, sh)
    BY <2>1, <2>2 DEF Good
  <2>4. TakenAs(list, L, list[i], u)
    BY <1>1, <1>2, <1>3, ReplacedUsed DEF TakenAs
  <2>. QED  BY <1>2, <2>3, <2>4 DEF L
<1>4. ASSUME NEW r \in Block, r.free, r.addr = BlockEnd(u),
             BlockEnd(r) = BlockEnd(list[i]), u.size + HDR + r.size = list[i].size,
             Parted(list, L, i, u, r)
      PROVE  Good(L, H, F, sh) /\ TakenAs(list, L, list[i], u)
  <2>1. /\ Ordered(L) /\ Clear(L, F)
        /\ \A G : Inside(list, G) => Inside(L, G)
    BY <1>1, <1>2, <1>4, PartedPlaces
  <2>2. NoPair(L)
    BY <1>1, <1>2, <1>4, PartedHasNoPair
  <2>3. \A N : Weighs(list, N) => Weighs(L, N)
    BY <1>1, <1>2, <1>4, PartedWeighs
  <2>4. L \in Seq(Block)
    BY <1>4 DEF Parted
  <2>5. Good(L, H, F, sh)
    BY <2>1, <2>2, <2>3, <2>4 DEF Good
  <2>6. TakenAs(list, L, list[i], u)
    BY <1>1, <1>2, <1>4, PartedUsed DEF TakenAs
  <2>. QED  BY <2>5, <2>6
<1>. QED  BY <1>2, <1>3, <1>4 DEF L

(***************************************************************************)
(* A block at the end of the list.                                         *)
(***************************************************************************)
LEMMA AppendKeeps ==
  ASSUME NEW list \in Seq(Block), NEW b \in Block
  PROVE  LET G == Append(list, b)
         IN  /\ G \in Seq(Block) /\ Len(G) = Len(list) + 1 /\ G[Len(list) + 1] = b
             /\ Used(G) = Used(list) \cup (IF b.free THEN {} ELSE {b})
             /\ Ordered(list) /\ (\A j \in 1 .. Len(list) : BlockEnd(list[j]) <= b.addr)
                    => Ordered(G)
             /\ NoPair(list) /\ ~(list # <<>> /\ list[Len(list)].free /\ b.free)
                    => NoPair(G)
             /\ \A H : Inside(list, H) /\ PagesOf(b) \subseteq H => Inside(G, H)
             /\ \A F : Clear(list, F) /\ (\A q \in F : BlockEnd(b) <= q * PAGE_SIZE)
                    => Clear(G, F)
             /\ \A N \in Nat : Weighs(list, N) => Weighs(G, N + HDR + b.size)
<1> DEFINE G == Append(list, b)
           n == Len(list)
<1>1. /\ G \in Seq(Block) /\ Len(G) = n + 1 /\ n \in Nat
      /\ \A j \in 1 .. n : G[j] = list[j]
      /\ G[n + 1] = b
  BY AppendProperties, LenProperties
<1>2. list # <<>> <=> n # 0
  BY EmptySeq
<1>w. ASSUME NEW N \in Nat, Weighs(list, N) PROVE Weighs(G, N + HDR + b.size)
  <2>1. PICK s : /\ s[0] = 0 /\ s[n] = N
                 /\ \A j \in 0 .. n : s[j] \in Nat
                 /\ \A j \in 1 .. n : s[j] = s[j - 1] + HDR + list[j].size
    BY <1>w DEF Weighs
  <2> DEFINE t == [j \in 0 .. n + 1 |-> IF j = n + 1 THEN N + HDR + b.size ELSE s[j]]
  <2>2. b.size \in Nat /\ HDR \in Nat
    BY BlockFacts
  <2>3. t[0] = 0 /\ t[n + 1] = N + HDR + b.size
    BY <1>1, <2>1
  <2>4. \A j \in 0 .. n + 1 : t[j] \in Nat
    BY <1>1, <2>1, <2>2
  <2>5. ASSUME NEW j \in 1 .. n + 1 PROVE t[j] = t[j - 1] + HDR + G[j].size
    <3>1. CASE j = n + 1
      <4>1. t[j] = N + HDR + b.size /\ t[j - 1] = s[n] /\ G[j] = b
        BY <1>1, <3>1
      <4> HIDE DEF t, G
      <4>. QED  BY <2>1, <4>1
    <3>2. CASE j # n + 1
      <4>1. t[j] = s[j] /\ t[j - 1] = s[j - 1] /\ G[j] = list[j] /\ j \in 1 .. n
        BY <1>1, <3>2
      <4> HIDE DEF t, G
      <4>. QED  BY <2>1, <4>1
    <3>. QED  BY <3>1, <3>2
  <2> HIDE DEF t
  <2>. QED  BY <1>1, <2>3, <2>4, <2>5 DEF Weighs
<1> HIDE DEF G
<1>3. Used(G) = Used(list) \cup (IF b.free THEN {} ELSE {b})
  <2>1. 1 .. Len(G) = (1 .. n) \cup {n + 1}
    BY <1>1
  <2>2. Used(G) \subseteq Used(list) \cup (IF b.free THEN {} ELSE {b})
    BY <1>1, <2>1 DEF Used
  <2>3. Used(list) \cup (IF b.free THEN {} ELSE {b}) \subseteq Used(G)
    BY <1>1, <2>1 DEF Used
  <2>. QED  BY <2>2, <2>3
<1>4. ASSUME Ordered(list), \A j \in 1 .. n : BlockEnd(list[j]) <= b.addr
      PROVE  Ordered(G)
  <2> SUFFICES ASSUME NEW j \in 1 .. n + 1, NEW k \in 1 .. n + 1, j < k
               PROVE  BlockEnd(G[j]) <= G[k].addr
    BY <1>1 DEF Ordered
  <2>1. j \in 1 .. n /\ G[j] = list[j]
    BY <1>1
  <2>2. CASE k = n + 1
    BY <1>1, <1>4, <2>1, <2>2
  <2>3. CASE k # n + 1
    <3>1. k \in 1 .. n /\ G[k] = list[k]
      BY <1>1, <2>3
    <3>. QED  BY <1>4, <2>1, <3>1 DEF Ordered
  <2>. QED  BY <2>2, <2>3
<1>5. ASSUME NoPair(list), ~(list # <<>> /\ list[n].free /\ b.free)
      PROVE  NoPair(G)
  <2> SUFFICES ASSUME NEW j \in 1 .. n, G[j].free, G[j + 1].free
               PROVE  FALSE
    BY <1>1 DEF NoPair
  <2>1. CASE j = n
    BY <1>1, <1>2, <1>5, <2>1
  <2>2. CASE j # n
    <3>1. j \in 1 .. n - 1 /\ G[j] = list[j] /\ G[j + 1] = list[j + 1]
      BY <1>1, <2>2
    <3>. QED  BY <1>5, <3>1 DEF NoPair
  <2>. QED  BY <2>1, <2>2
<1>6. ASSUME NEW H, Inside(list, H), PagesOf(b) \subseteq H PROVE Inside(G, H)
  <2>1. \A j \in 1 .. n + 1 : j = n + 1 \/ j \in 1 .. n
    BY <1>1
  <2>. QED  BY <1>1, <1>6, <2>1 DEF Inside
<1>7. ASSUME NEW F, Clear(list, F), \A q \in F : BlockEnd(b) <= q * PAGE_SIZE
      PROVE  Clear(G, F)
  <2>1. \A j \in 1 .. n + 1 : j = n + 1 \/ j \in 1 .. n
    BY <1>1
  <2>. QED  BY <1>1, <1>7, <2>1 DEF Clear
<1>. QED  BY <1>1, <1>3, <1>4, <1>5, <1>6, <1>7, <1>w DEF G

----------------------------------------------------------------------------
(***************************************************************************)
(* heap_coalesce.  Merge keeps what is known of the blocks before, ends    *)
(* where the next block ends and is free at the end when that one is.      *)
(***************************************************************************)
Merged(acc, b, M) ==
    /\ M \in Seq(Block) /\ Len(M) # 0 /\ M[Len(M)].free = b.free
    /\ Ordered(M) /\ NoPair(M)
    /\ \A j \in 1 .. Len(M) : BlockEnd(M[j]) <= BlockEnd(b)
    /\ Used(M) = Used(acc) \cup (IF b.free THEN {} ELSE {b})
    /\ \A H : Joined(H) /\ Inside(acc, H) /\ PagesOf(b) \subseteq H => Inside(M, H)
    /\ \A N \in Nat : Weighs(acc, N) => Weighs(M, N + HDR + b.size)

LEMMA SwallowIs ==
  ASSUME NEW c \in Block, NEW b \in Block, c.free, b.free, BlockEnd(c) <= b.addr
  PROVE  /\ Swallow(c, b) \in Block /\ Swallow(c, b).free
         /\ Swallow(c, b).addr = c.addr
         /\ Swallow(c, b).size = c.size + HDR + b.size
         /\ BlockEnd(Swallow(c, b)) <= BlockEnd(b)
         /\ \A H : Joined(H) /\ PagesOf(c) \subseteq H /\ PagesOf(b) \subseteq H
                       => PagesOf(Swallow(c, b)) \subseteq H
<1> DEFINE w == Swallow(c, b)
<1>1. /\ c.addr \in Nat /\ c.size \in Nat /\ b.addr \in Nat /\ b.size \in Nat
      /\ HDR \in Nat \ {0}
      /\ BlockEnd(c) = c.addr + HDR + c.size /\ BlockEnd(b) = b.addr + HDR + b.size
  BY BlockFacts DEF BlockEnd
<1>2. c.size + HDR + b.size \in Nat
  BY <1>1
<1> DEFINE k == c.size + HDR + b.size
<1>3. w = [c EXCEPT !.size = k]
  BY DEF Swallow
<1> HIDE DEF k
<1>p. /\ w \in Block /\ w.free /\ w.addr = c.addr /\ w.size = k
  BY <1>2, <1>3 DEF Block, k
<1>q. BlockEnd(w) = c.addr + HDR + k
  BY <1>p DEF BlockEnd
<1> HIDE DEF w
<1>4. BlockEnd(w) <= BlockEnd(b) /\ BlockEnd(w) - 1 \in Nat /\ BlockEnd(b) - 1 \in Nat
      /\ BlockEnd(w) - 1 <= BlockEnd(b) - 1
  BY <1>1, <1>q DEF k
<1>5. ASSUME NEW H, Joined(H), PagesOf(c) \subseteq H, PagesOf(b) \subseteq H
      PROVE  PagesOf(w) \subseteq H
  <2> DEFINE p == c.addr \div PAGE_SIZE
             q == (BlockEnd(b) - 1) \div PAGE_SIZE
             e == (BlockEnd(w) - 1) \div PAGE_SIZE
             p2 == (BlockEnd(c) - 1) \div PAGE_SIZE
             q2 == b.addr \div PAGE_SIZE
  <2>1. c.addr <= BlockEnd(c) - 1 /\ b.addr <= BlockEnd(b) - 1
        /\ BlockEnd(c) - 1 \in Nat
    BY <1>1
  <2>2. p \in Nat /\ q \in Nat /\ e \in Nat /\ p2 \in Nat /\ q2 \in Nat
        /\ p <= p2 /\ q2 <= q /\ e <= q
    BY <1>1, <1>4, <2>1, PageOf, PageMonotone
  <2>3. PagesOf(c) = p .. p2 /\ PagesOf(b) = q2 .. q /\ PagesOf(w) = p .. e
    BY <1>p DEF PagesOf
  <2> HIDE DEF p, q, e, p2, q2
  <2>4. p \in H /\ q \in H
    BY <1>5, <2>2, <2>3
  <2>5. p .. q \subseteq H
    BY <1>5, <2>4 DEF Joined
  <2>6. p .. e \subseteq p .. q
    BY <2>2
  <2>. QED  BY <2>3, <2>5, <2>6
<1>. QED  BY <1>p, <1>4, <1>5 DEF w, k

LEMMA LastReplaced ==
  ASSUME NEW acc \in Seq(Block), acc # <<>>, NEW w \in Block
  PROVE  /\ Len(acc) \in 1 .. Len(acc)
         /\ Replaced(acc, Append(Front(acc), w), Len(acc), w)
<1> DEFINE n == Len(acc)
           f == Front(acc)
<1>1. n \in Nat \ {0}
  BY EmptySeq
<1>2. f = SubSeq(acc, 1, n - 1)
  BY DEF Front
<1>3. f \in Seq(Block) /\ Len(f) = n - 1 /\ \A j \in 1 .. n - 1 : f[j] = acc[j]
  <2>1. \A j \in 1 .. n - 1 : acc[j] \in Block
    BY <1>1
  <2>2. 1 \in Int /\ n - 1 \in Int /\ n - 1 - 1 + 1 = n - 1
    BY <1>1
  <2>3. /\ SubSeq(acc, 1, n - 1) \in Seq(Block)
        /\ Len(SubSeq(acc, 1, n - 1)) = IF 1 <= n - 1 THEN n - 1 - 1 + 1 ELSE 0
        /\ \A j \in 1 .. n - 1 - 1 + 1 : SubSeq(acc, 1, n - 1)[j] = acc[1 + j - 1]
    BY <2>1, <2>2, SubSeqProperties
  <2>4. Len(f) = n - 1
    <3> HIDE DEF n, f
    <3>. QED  BY <1>1, <1>2, <2>2, <2>3
  <2>5. ASSUME NEW j \in 1 .. n - 1 PROVE f[j] = acc[j]
    <3>1. j \in 1 .. n - 1 - 1 + 1 /\ 1 + j - 1 = j
      BY <1>1
    <3> HIDE DEF n, f
    <3>. QED  BY <1>2, <2>3, <3>1
  <2>. QED  BY <1>2, <2>3, <2>4, <2>5
<1> HIDE DEF f
<1>4. /\ Append(f, w) \in Seq(Block) /\ Len(Append(f, w)) = Len(f) + 1
      /\ \A j \in 1 .. Len(f) : Append(f, w)[j] = f[j]
      /\ Append(f, w)[Len(f) + 1] = w
  BY <1>3, AppendProperties
<1>5. Len(f) + 1 = n
  BY <1>1, <1>3
<1>6. ASSUME NEW j \in 1 .. n
      PROVE  Append(f, w)[j] = IF j = n THEN w ELSE acc[j]
  <2>1. CASE j = n
    BY <1>4, <1>5, <2>1
  <2>2. CASE j # n
    <3>1. j \in 1 .. n - 1
      BY <1>1, <2>2
    <3>. QED  BY <1>3, <1>4, <2>2, <3>1
  <2>. QED  BY <2>1, <2>2
<1>. QED  BY <1>1, <1>4, <1>5, <1>6 DEF Replaced, f

LEMMA MergeKeeps ==
  ASSUME NEW acc \in Seq(Block), NEW b \in Block, Ordered(acc), NoPair(acc),
         \A j \in 1 .. Len(acc) : BlockEnd(acc[j]) <= b.addr
  PROVE  Merged(acc, b, Merge(acc, b))
<1> DEFINE M == Merge(acc, b)
           n == Len(acc)
<1>0. /\ n \in Nat /\ b.addr \in Nat /\ b.size \in Nat /\ HDR \in Nat
      /\ BlockEnd(b) \in Nat /\ b.addr < BlockEnd(b)
      /\ \A j \in 1 .. n : acc[j] \in Block /\ BlockEnd(acc[j]) \in Nat
  BY ElementIs, BlockFacts
<1>1. CASE acc # <<>> /\ acc[n].free /\ b.free
  <2> DEFINE w == Swallow(acc[n], b)
  <2>1. n \in 1 .. n /\ acc[n] \in Block /\ BlockEnd(acc[n]) <= b.addr
    BY <1>0, <1>1, LastReplaced
  <2>2. /\ w \in Block /\ w.free /\ w.addr = acc[n].addr
        /\ w.size = acc[n].size + HDR + b.size
        /\ BlockEnd(w) <= BlockEnd(b)
        /\ \A H : Joined(H) /\ PagesOf(acc[n]) \subseteq H /\ PagesOf(b) \subseteq H
                      => PagesOf(w) \subseteq H
    BY <1>1, <2>1, SwallowIs
  <2>3. M = Append(Front(acc), w)
    BY <1>1 DEF Merge, Last
  <2> HIDE DEF w, M
  <2>4. Replaced(acc, M, n, w)
    BY <1>1, <2>2, <2>3, LastReplaced
  <2>5. /\ M \in Seq(Block) /\ Len(M) = n
        /\ \A j \in 1 .. n : M[j] = IF j = n THEN w ELSE acc[j]
    BY <2>4 DEF Replaced
  <2>6. \A j \in 1 .. n : M[j].addr = acc[j].addr /\ M[j].free = acc[j].free
    <3>1. w.free = acc[n].free
      BY <1>1, <2>1, <2>2 DEF Block
    <3>. QED  BY <2>2, <2>5, <3>1
  <2>7. Ordered(M)
    <3> SUFFICES ASSUME NEW j \in 1 .. n, NEW k \in 1 .. n, j < k
                 PROVE  BlockEnd(M[j]) <= M[k].addr
      BY <2>5 DEF Ordered
    <3>1. j # n
      BY <1>0
    <3>2. M[j] = acc[j] /\ M[k].addr = acc[k].addr
      BY <2>5, <2>6, <3>1
    <3>. QED  BY <3>2 DEF Ordered
  <2>8. NoPair(M)
    <3>1. \A j \in 1 .. n - 1 : j \in 1 .. n /\ j + 1 \in 1 .. n
      BY <1>0
    <3>. QED  BY <2>5, <2>6, <3>1 DEF NoPair
  <2>9. \A j \in 1 .. n : BlockEnd(M[j]) <= BlockEnd(b)
    BY <1>0, <2>2, <2>5
  <2>10. Used(M) = Used(acc) \cup (IF b.free THEN {} ELSE {b})
    <3>1. Used(M) = (Used(acc) \ {acc[n]}) \cup (IF w.free THEN {} ELSE {w})
      BY <2>1, <2>2, <2>4, ReplacedUsed
    <3>2. acc[n] \notin Used(acc)
      BY <1>1 DEF Used
    <3>. QED  BY <1>1, <2>2, <3>1, <3>2
  <2>11. ASSUME NEW H, Joined(H), Inside(acc, H), PagesOf(b) \subseteq H
         PROVE  Inside(M, H)
    <3>1. PagesOf(acc[n]) \subseteq H
      BY <2>1, <2>11 DEF Inside
    <3>2. PagesOf(w) \subseteq H
      BY <2>2, <2>11, <3>1
    <3>. QED  BY <2>5, <2>11, <3>2 DEF Inside
  <2>12. ASSUME NEW N \in Nat, Weighs(acc, N) PROVE Weighs(M, N + HDR + b.size)
    <3>1. PICK s : /\ s[0] = 0 /\ s[n] = N
                   /\ \A j \in 0 .. n : s[j] \in Nat
                   /\ \A j \in 1 .. n : s[j] = s[j - 1] + HDR + acc[j].size
      BY <2>12 DEF Weighs
    <3> DEFINE t == [j \in 0 .. n |-> IF j = n THEN N + HDR + b.size ELSE s[j]]
    <3>2. t[0] = 0 /\ t[n] = N + HDR + b.size
      BY <1>0, <2>1, <3>1
    <3>3. \A j \in 0 .. n : t[j] \in Nat
      BY <1>0, <3>1
    <3>4. ASSUME NEW j \in 1 .. n PROVE t[j] = t[j - 1] + HDR + M[j].size
      <4>1. CASE j = n
        <5>1. t[j] = N + HDR + b.size /\ t[j - 1] = s[n - 1] /\ M[j] = w
          BY <1>0, <2>5, <4>1
        <5>2. N = s[n - 1] + HDR + acc[n].size /\ s[n - 1] \in Nat
              /\ acc[n].size \in Nat
          <6>1. n - 1 \in 0 .. n /\ n \in 1 .. n
            BY <1>0, <2>1
          <6>2. acc[n].size \in Nat
            BY <2>1, BlockFacts
          <6>3. s[n] = s[n - 1] + HDR + acc[n].size
            BY <3>1, <6>1
          <6>. QED  BY <3>1, <6>1, <6>2, <6>3
        <5> HIDE DEF t
        <5>3. M[j].size = acc[n].size + HDR + b.size
          BY <2>2, <5>1
        <5>4. s[n - 1] + HDR + acc[n].size + HDR + b.size
                = s[n - 1] + HDR + (acc[n].size + HDR + b.size)
          <6>1. \A x, y, z, h \in Nat : x + h + y + h + z = x + h + (y + h + z)
            OBVIOUS
          <6>2. s[n - 1] \in Nat /\ acc[n].size \in Nat /\ b.size \in Nat /\ HDR \in Nat
            BY <1>0, <5>2
          <6>. QED  BY <6>1, <6>2
        <5>5. t[j] = s[n - 1] + HDR + acc[n].size + HDR + b.size
          BY <5>1, <5>2
        <5>. QED  BY <5>1, <5>3, <5>4, <5>5
      <4>2. CASE j # n
        <5>1. t[j] = s[j] /\ t[j - 1] = s[j - 1] /\ M[j] = acc[j]
          BY <1>0, <2>5, <4>2
        <5> HIDE DEF t
        <5>. QED  BY <3>1, <5>1
      <4>. QED  BY <4>1, <4>2
    <3> HIDE DEF t
    <3>. QED  BY <2>5, <3>2, <3>3, <3>4 DEF Weighs
  <2>13. Len(M) # 0 /\ M[Len(M)].free = b.free
    <3>1. acc[n].free = b.free
      BY <1>1, <2>1 DEF Block
    <3>. QED  BY <2>1, <2>5, <2>6, <3>1
  <2>. QED  BY <2>5, <2>7, <2>8, <2>9, <2>10, <2>11, <2>12, <2>13 DEF Merged, M
<1>2. CASE ~(acc # <<>> /\ acc[n].free /\ b.free)
  <2>1. M = Append(acc, b)
    BY <1>2 DEF Merge, Last
  <2> HIDE DEF M
  <2>2. /\ M \in Seq(Block) /\ Len(M) = n + 1 /\ M[n + 1] = b
        /\ Used(M) = Used(acc) \cup (IF b.free THEN {} ELSE {b})
        /\ Ordered(M) /\ NoPair(M)
        /\ \A H : Inside(acc, H) /\ PagesOf(b) \subseteq H => Inside(M, H)
        /\ \A N \in Nat : Weighs(acc, N) => Weighs(M, N + HDR + b.size)
    BY <1>2, <2>1, AppendKeeps
  <2>3. ASSUME NEW j \in 1 .. Len(M) PROVE BlockEnd(M[j]) <= BlockEnd(b)
    <3>1. CASE j = n + 1
      BY <1>0, <2>2, <3>1
    <3>2. CASE j # n + 1
      <4>1. j < n + 1 /\ n + 1 \in 1 .. Len(M)
        BY <1>0, <2>2, <3>2
      <4>2. BlockEnd(M[j]) <= b.addr /\ M[j] \in Block
        BY <2>2, <4>1 DEF Ordered
      <4>3. BlockEnd(M[j]) \in Nat
        BY <4>2, BlockFacts
      <4>. QED  BY <1>0, <4>2, <4>3
    <3>. QED  BY <3>1, <3>2
  <2>4. Len(M) # 0 /\ M[Len(M)].free = b.free
    BY <1>0, <2>2
  <2>. QED  BY <2>2, <2>3, <2>4 DEF Merged, M
<1>. QED  BY <1>1, <1>2

(***************************************************************************)
(* The pass over the list, as the function that its recursion describes.   *)
(***************************************************************************)
Pass(list, n, m) ==
    m = [i \in 0 .. n |-> IF i = 0 THEN <<>> ELSE Merge(m[i - 1], list[i])]

LEMMA PassExists ==
  ASSUME NEW list, NEW n \in Nat
  PROVE  \E m : Pass(list, n, m)
<1> DEFINE S == {k \in 0 .. n : \E m : Pass(list, k, m)}
<1>1. 0 \in S
  <2>1. Pass(list, 0, [i \in 0 .. 0 |-> <<>>])
    BY DEF Pass
  <2>. QED  BY <2>1
<1>2. ASSUME NEW k \in 0 .. n, k \in S, k < n PROVE k + 1 \in S
  <2>1. PICK m : Pass(list, k, m)
    BY <1>2
  <2> DEFINE v == [i \in 0 .. k + 1 |-> IF i = k + 1 THEN Merge(m[k], list[i]) ELSE m[i]]
  <2>2. ASSUME NEW i \in 0 .. k + 1
        PROVE  v[i] = IF i = 0 THEN <<>> ELSE Merge(v[i - 1], list[i])
    <3>1. CASE i = k + 1
      <4>1. i # 0 /\ i - 1 = k /\ k \in 0 .. k + 1 /\ k # k + 1 /\ v[k] = m[k]
        BY <1>2, <3>1
      <4>2. v[i] = Merge(m[k], list[i])
        BY <3>1
      <4> HIDE DEF v
      <4>. QED  BY <4>1, <4>2
    <3>2. CASE i # k + 1
      <4>1. i \in 0 .. k /\ v[i] = m[i] /\ (i # 0 => i - 1 \in 0 .. k + 1 /\ v[i - 1] = m[i - 1])
        BY <1>2, <3>2
      <4>2. m[i] = IF i = 0 THEN <<>> ELSE Merge(m[i - 1], list[i])
        BY <2>1, <4>1 DEF Pass
      <4> HIDE DEF v
      <4>. QED  BY <4>1, <4>2
    <3>. QED  BY <3>1, <3>2
  <2>3. Pass(list, k + 1, v)
    BY <2>2 DEF Pass
  <2>. QED  BY <1>2, <2>3
<1>3. 0 .. n \subseteq S
  <2> HIDE DEF S
  <2>. QED  BY <1>1, <1>2, UpTo
<1>. QED  BY <1>3

LEMMA CoalesceIs ==
  ASSUME NEW list, Len(list) \in Nat
  PROVE  \E m : /\ m[0] = <<>>
                /\ \A i \in 1 .. Len(list) : m[i] = Merge(m[i - 1], list[i])
                /\ heap_coalesce(list) = m[Len(list)]
<1> DEFINE n == Len(list)
           m == CHOOSE w : Pass(list, n, w)
<1>1. Pass(list, n, m)
  BY PassExists
<1>2. heap_coalesce(list) = m[n]
  BY DEF heap_coalesce, Pass
<1> HIDE DEF m
<1>3. \A i \in 0 .. n : m[i] = IF i = 0 THEN <<>> ELSE Merge(m[i - 1], list[i])
  <2>1. m = [i \in 0 .. n |-> IF i = 0 THEN <<>> ELSE Merge(m[i - 1], list[i])]
    BY <1>1 DEF Pass
  <2>. QED  BY <2>1, Zenon
<1>4. 0 \in 0 .. n /\ \A i \in 1 .. n : i \in 0 .. n /\ i # 0
  OBVIOUS
<1>5. m[0] = <<>> /\ \A i \in 1 .. n : m[i] = Merge(m[i - 1], list[i])
  BY <1>3, <1>4
<1>. QED  BY <1>2, <1>5

\* What is known of the first k blocks of the list once they are merged to M.
UsedUpTo(list, k) == {list[i] : i \in {j \in 1 .. k : ~list[j].free}}

Sums(list, s) == /\ s[0] = 0
                 /\ \A i \in 0 .. Len(list) : s[i] \in Nat
                 /\ \A i \in 1 .. Len(list) : s[i] = s[i - 1] + HDR + list[i].size

MergedUpTo(list, k, M) ==
    /\ M \in Seq(Block) /\ Ordered(M) /\ NoPair(M)
    /\ k = 0 => M = <<>>
    /\ k # 0 => \A j \in 1 .. Len(M) : BlockEnd(M[j]) <= BlockEnd(list[k])
    /\ Used(M) = UsedUpTo(list, k)
    /\ \A H : Joined(H) /\ (\A i \in 1 .. k : PagesOf(list[i]) \subseteq H) => Inside(M, H)
    /\ \A s : Sums(list, s) => Weighs(M, s[k])

LEMMA MergedStep ==
  ASSUME NEW list \in Seq(Block), Ordered(list), NEW k \in 0 .. Len(list) - 1,
         NEW M, MergedUpTo(list, k, M)
  PROVE  MergedUpTo(list, k + 1, Merge(M, list[k + 1]))
<1> DEFINE b == list[k + 1]
           W == Merge(M, b)
<1>1. /\ Len(list) \in Nat /\ k \in Nat /\ k + 1 \in 1 .. Len(list) /\ k + 1 # 0
      /\ b \in Block /\ M \in Seq(Block)
  BY ElementIs DEF MergedUpTo
<1>2. ASSUME NEW j \in 1 .. Len(M) PROVE BlockEnd(M[j]) <= b.addr
  <2>1. k # 0
    BY <1>2 DEF MergedUpTo
  <2>2. k \in 1 .. Len(list) /\ k < k + 1
    BY <1>1, <2>1
  <2>3. BlockEnd(M[j]) <= BlockEnd(list[k]) /\ BlockEnd(list[k]) <= b.addr
    BY <1>1, <2>1, <2>2 DEF MergedUpTo, Ordered
  <2>4. BlockEnd(M[j]) \in Nat /\ BlockEnd(list[k]) \in Nat /\ b.addr \in Nat
    BY <1>1, <2>2, ElementIs, BlockFacts
  <2>. QED  BY <2>3, <2>4
<1>3. Merged(M, b, W)
  BY <1>1, <1>2, MergeKeeps DEF MergedUpTo
<1> HIDE DEF W
<1>4. Used(W) = UsedUpTo(list, k + 1)
  <2>1. 1 .. k + 1 = (1 .. k) \cup {k + 1}
    BY <1>1
  <2>2. Used(W) = UsedUpTo(list, k) \cup (IF b.free THEN {} ELSE {b})
    BY <1>3 DEF Merged, MergedUpTo
  <2>3. UsedUpTo(list, k + 1) = UsedUpTo(list, k) \cup (IF b.free THEN {} ELSE {b})
    BY <2>1 DEF UsedUpTo
  <2>. QED  BY <2>2, <2>3
<1>5. ASSUME NEW H, Joined(H), \A i \in 1 .. k + 1 : PagesOf(list[i]) \subseteq H
      PROVE  Inside(W, H)
  <2>1. k + 1 \in 1 .. k + 1 /\ \A i \in 1 .. k : i \in 1 .. k + 1
    BY <1>1
  <2>2. Inside(M, H)
    BY <1>5, <2>1 DEF MergedUpTo
  <2>3. PagesOf(b) \subseteq H
    BY <1>5, <2>1
  <2>. QED  BY <1>3, <1>5, <2>2, <2>3 DEF Merged
<1>6. ASSUME NEW s, Sums(list, s) PROVE Weighs(W, s[k + 1])
  <2>1. Weighs(M, s[k])
    BY <1>6 DEF MergedUpTo
  <2>2. s[k] \in Nat /\ s[k + 1] = s[k] + HDR + b.size
    <3>1. k \in 0 .. Len(list) /\ k + 1 - 1 = k
      BY <1>1
    <3>. QED  BY <1>1, <1>6, <3>1 DEF Sums
  <2>. QED  BY <1>3, <2>1, <2>2 DEF Merged
<1>. QED  BY <1>1, <1>3, <1>4, <1>5, <1>6 DEF MergedUpTo, Merged, W

LEMMA CoalesceKeeps ==
  ASSUME NEW list \in Seq(Block), Ordered(list)
  PROVE  LET C == heap_coalesce(list)
         IN  /\ C \in Seq(Block) /\ Ordered(C) /\ NoPair(C)
             /\ Used(C) = Used(list)
             /\ \A H : Joined(H) /\ Inside(list, H) => Inside(C, H)
             /\ \A N : Weighs(list, N) => Weighs(C, N)
             /\ \A F \in SUBSET Nat : Clear(list, F) => Clear(C, F)
<1> DEFINE n == Len(list)
           C == heap_coalesce(list)
<1>1. n \in Nat
  OBVIOUS
<1>2. PICK m : /\ m[0] = <<>>
               /\ \A i \in 1 .. n : m[i] = Merge(m[i - 1], list[i])
               /\ C = m[n]
  BY <1>1, CoalesceIs
<1> DEFINE S == {k \in 0 .. n : MergedUpTo(list, k, m[k])}
<1>3. 0 \in S
  <2>1. /\ <<>> \in Seq(Block) /\ Len(<<>>) = 0
    OBVIOUS
  <2>2. Ordered(<<>>) /\ NoPair(<<>>) /\ \A H : Inside(<<>>, H)
    BY <2>1 DEF Ordered, NoPair, Inside
  <2>3. Used(<<>>) = {} /\ UsedUpTo(list, 0) = {}
    BY <2>1 DEF Used, UsedUpTo
  <2>4. ASSUME NEW s, Sums(list, s) PROVE Weighs(<<>>, s[0])
    <3>1. s[0] = 0 /\ s[Len(<<>>)] = s[0]
      BY <2>1, <2>4 DEF Sums
    <3>2. \A i \in 0 .. Len(<<>>) : s[i] \in Nat
      BY <2>1, <3>1
    <3>3. \A i \in 1 .. Len(<<>>) : s[i] = s[i - 1] + HDR + <<>>[i].size
      BY <2>1
    <3>. QED  BY <3>1, <3>2, <3>3 DEF Weighs
  <2>5. MergedUpTo(list, 0, m[0])
    BY <1>2, <2>1, <2>2, <2>3, <2>4 DEF MergedUpTo
  <2>. QED  BY <1>1, <2>5
<1>4. ASSUME NEW k \in 0 .. n, k \in S, k < n PROVE k + 1 \in S
  <2>1. k \in 0 .. Len(list) - 1 /\ k + 1 \in 0 .. n /\ k + 1 \in 1 .. n /\ k + 1 - 1 = k
    BY <1>1, <1>4
  <2>2. m[k + 1] = Merge(m[k], list[k + 1])
    BY <1>2, <2>1
  <2>3. MergedUpTo(list, k + 1, m[k + 1])
    BY <1>4, <2>1, <2>2, MergedStep
  <2>. QED  BY <2>1, <2>3
<1>5. n \in S
  <2> HIDE DEF S
  <2>1. 0 .. n \subseteq S
    BY <1>1, <1>3, <1>4, UpTo
  <2>. QED  BY <1>1, <2>1
<1>6. MergedUpTo(list, n, C)
  BY <1>2, <1>5
<1> HIDE DEF C, S
<1>7. C \in Seq(Block) /\ Ordered(C) /\ NoPair(C) /\ Used(C) = Used(list)
  BY <1>6 DEF MergedUpTo, Used, UsedUpTo
<1>8. \A H : Joined(H) /\ Inside(list, H) => Inside(C, H)
  BY <1>6 DEF MergedUpTo, Inside
<1>9. ASSUME NEW N, Weighs(list, N) PROVE Weighs(C, N)
  <2>1. PICK s : Sums(list, s) /\ s[n] = N
    BY <1>9 DEF Weighs, Sums
  <2>. QED  BY <1>6, <2>1 DEF MergedUpTo
<1>10. ASSUME NEW F \in SUBSET Nat, Clear(list, F), NEW j \in 1 .. Len(C), NEW q \in F
       PROVE  BlockEnd(C[j]) <= q * PAGE_SIZE
  <2>1. n # 0
    BY <1>6 DEF MergedUpTo
  <2>2. n \in 1 .. n
    BY <1>1, <2>1
  <2>3. BlockEnd(C[j]) <= BlockEnd(list[n]) /\ BlockEnd(list[n]) <= q * PAGE_SIZE
    BY <1>6, <1>10, <2>1, <2>2 DEF MergedUpTo, Clear
  <2>4. BlockEnd(C[j]) \in Nat /\ BlockEnd(list[n]) \in Nat /\ q * PAGE_SIZE \in Nat
    <3>1. C[j] \in Block /\ list[n] \in Block
      BY <1>7, <1>10, <2>2, ElementIs
    <3>2. q \in Nat /\ PAGE_SIZE \in Nat
      BY <1>10, HeapAssumption
    <3>3. q * PAGE_SIZE \in Nat
      BY <3>2
    <3>. QED  BY <3>1, <3>3, BlockFacts
  <2>. QED  BY <2>3, <2>4
<1>11. \A F \in SUBSET Nat : Clear(list, F) => Clear(C, F)
  BY <1>10 DEF Clear
<1>. QED  BY <1>7, <1>8, <1>9, <1>11 DEF C

(***************************************************************************)
(* kfree: the block is no longer used, everything else is as before.       *)
(***************************************************************************)
LEMMA ReleaseKeeps ==
  ASSUME NEW list, NEW H, NEW F \in SUBSET Nat, NEW sh, Good(list, H, F, sh),
         NEW b \in Used(list)
  PROVE  /\ Good(Release(list, Ptr(b)), H, F, sh)
         /\ Used(Release(list, Ptr(b))) = Used(list) \ {b}
         /\ list[BlockOf(list, Ptr(b))] = b
<1> DEFINE i == BlockOf(list, Ptr(b))
           u == [list[i] EXCEPT !.free = TRUE]
           L == ReplaceAt(list, i, u)
<1>1. list \in Seq(Block) /\ Ordered(list) /\ Clear(list, F)
  BY DEF Good
<1>2. PICK k \in 1 .. Len(list) : list[k] = b
  BY DEF Used
<1>3. i \in 1 .. Len(list) /\ Ptr(list[i]) = Ptr(b)
  <2>1. DOMAIN list = 1 .. Len(list)
    BY <1>1
  <2>2. \E j \in DOMAIN list : Ptr(list[j]) = Ptr(b)
    BY <1>2, <2>1
  <2>. QED  BY <2>1, <2>2 DEF BlockOf
<1>4. list[i] = b
  <2>1. list[i] \in Block /\ b \in Block
    BY <1>1, <1>2, <1>3, ElementIs
  <2>2. list[i].addr = b.addr
    <3>1. list[i].addr \in Nat /\ b.addr \in Nat /\ HDR \in Nat
      BY <2>1, BlockFacts
    <3>. QED  BY <1>3, <3>1 DEF Ptr
  <2>3. i = k
    BY <1>1, <1>2, <1>3, <2>2, OneBlockAt
  <2>. QED  BY <1>2, <2>3
<1>5. u \in Block /\ u.free /\ u.addr = list[i].addr /\ u.size = list[i].size
  <2>1. list[i] \in Block
    BY <1>1, <1>3, ElementIs
  <2>. QED  BY <2>1 DEF Block
<1> HIDE DEF i, u
<1>6. Replaced(list, L, i, u)
  <2>1. list \in Seq(Block) /\ i \in 1 .. Len(list) /\ u \in Block
    BY <1>1, <1>3, <1>5
  <2>. QED  BY <2>1, ReplaceIs
<1>7. Release(list, Ptr(b)) = heap_coalesce(L)
  BY DEF Release, i, u
<1> HIDE DEF L
<1>8. /\ L \in Seq(Block) /\ Ordered(L) /\ Clear(L, F)
      /\ \A G : Inside(list, G) => Inside(L, G)
      /\ \A N : Weighs(list, N) => Weighs(L, N)
  <2>1. L \in Seq(Block)
    BY <1>6 DEF Replaced
  <2>. QED  BY <1>1, <1>3, <1>5, <1>6, <2>1, ReplacedKeeps
<1>9. Used(L) = Used(list) \ {b}
  BY <1>1, <1>3, <1>4, <1>5, <1>6, ReplacedUsed
<1> DEFINE C == heap_coalesce(L)
<1>10. /\ C \in Seq(Block) /\ Ordered(C) /\ NoPair(C)
       /\ Used(C) = Used(L)
       /\ \A G : Joined(G) /\ Inside(L, G) => Inside(C, G)
       /\ \A N : Weighs(L, N) => Weighs(C, N)
       /\ Clear(C, F)
  BY <1>8, CoalesceKeeps
<1> HIDE DEF C
<1>11. Good(C, H, F, sh)
  BY <1>8, <1>10 DEF Good
<1>. QED  BY <1>4, <1>7, <1>9, <1>10, <1>11 DEF C, i

----------------------------------------------------------------------------
(***************************************************************************)
(* The pages that n calls of pmm_alloc_page take.                          *)
(***************************************************************************)
Below(S, p) == {q \in S : q < p}

LEMMA LowestIs ==
  ASSUME NEW S \in SUBSET Nat, IsFiniteSet(S), NEW n \in Nat
  PROVE  /\ PMM!Lowest(S, n) = {p \in S : Cardinality(Below(S, p)) < n}
         /\ \A p \in S : IsFiniteSet(Below(S, p)) /\ Cardinality(Below(S, p)) \in Nat
         /\ \A p, q \in S : p <= q => Cardinality(Below(S, p)) <= Cardinality(Below(S, q))
<1>1. PMM!Lowest(S, n) = {p \in S : Cardinality(Below(S, p)) < n}
  <2> DEFINE T == PMM!Lowest(S, n)
             U == {p \in S : Cardinality(Below(S, p)) < n}
  <2>1. ASSUME NEW p PROVE p \in T <=> p \in S /\ Cardinality({q \in S : q < p}) < n
    BY Zenon DEF PMM!Lowest, PMM!Cardinality, Cardinality, PMM!IsFiniteSet, IsFiniteSet
  <2>2. ASSUME NEW p PROVE p \in U <=> p \in S /\ Cardinality({q \in S : q < p}) < n
    BY Zenon DEF Below
  <2> HIDE DEF T, U
  <2>3. T = U
    BY <2>1, <2>2
  <2>. QED  BY <2>3 DEF T, U
<1>2. ASSUME NEW p \in S
      PROVE  IsFiniteSet(Below(S, p)) /\ Cardinality(Below(S, p)) \in Nat
  <2>1. Below(S, p) \subseteq S
    BY DEF Below
  <2>. QED  BY <2>1, FS_Subset, FS_CardinalityType
<1>3. ASSUME NEW p \in S, NEW q \in S, p <= q
      PROVE  Cardinality(Below(S, p)) <= Cardinality(Below(S, q))
  <2>1. \A x \in S : x < p => x < q
    <3>1. \A x \in S : x \in Nat
      OBVIOUS
    <3>. QED  BY <1>3, <3>1
  <2>2. Below(S, p) \subseteq Below(S, q)
    BY <2>1 DEF Below
  <2>. QED  BY <1>2, <2>2, FS_Subset
<1>. QED  BY <1>1, <1>2, <1>3

LEMMA LowestBelow ==
  ASSUME NEW S \in SUBSET Nat, IsFiniteSet(S), NEW n \in Nat
  PROVE  /\ PMM!Lowest(S, n) \subseteq S /\ IsFiniteSet(PMM!Lowest(S, n))
         /\ \A p \in PMM!Lowest(S, n) : \A q \in S \ PMM!Lowest(S, n) : p < q
         /\ \A q \in S \ PMM!Lowest(S, n) : Min(S) + n <= q
         /\ S # {} /\ n # 0 => Min(S) \in PMM!Lowest(S, n)
         /\ Cardinality(S) < n => PMM!Lowest(S, n) = S
<1> DEFINE T == PMM!Lowest(S, n)
<1>1. T = {p \in S : Cardinality(Below(S, p)) < n}
  BY LowestIs
<1>2. \A p \in S : IsFiniteSet(Below(S, p)) /\ Cardinality(Below(S, p)) \in Nat
  BY LowestIs
<1>3. \A p, q \in S : p <= q => Cardinality(Below(S, p)) <= Cardinality(Below(S, q))
  BY LowestIs
<1> HIDE DEF T
<1>4. T \subseteq S /\ IsFiniteSet(T)
  <2>1. T \subseteq S
    BY <1>1
  <2>. QED  BY <2>1, FS_Subset
<1>5. ASSUME NEW p \in T, NEW q \in S \ T PROVE p < q
  <2>1. Cardinality(Below(S, p)) < n /\ ~(Cardinality(Below(S, q)) < n) /\ p \in S /\ q \in S
    BY <1>1, <1>5
  <2>2. Cardinality(Below(S, p)) \in Nat /\ Cardinality(Below(S, q)) \in Nat
    BY <1>2, <2>1
  <2>3. ~(q <= p)
    BY <1>3, <2>1, <2>2
  <2>. QED  BY <2>1, <2>3
<1>6. ASSUME NEW q \in S \ T PROVE Min(S) + n <= q
  <2>1. Min(S) \in S /\ \A y \in S : Min(S) <= y
    BY LeastElement
  <2>2. Cardinality(Below(S, q)) \in Nat /\ ~(Cardinality(Below(S, q)) < n) /\ q \in Nat
    BY <1>1, <1>2
  <2> DEFINE a == Min(S)
  <2>3. a \in Nat /\ a <= q
    BY <2>1
  <2>4. Below(S, q) \subseteq a .. q - 1
    <3>1. ASSUME NEW x \in S, x < q PROVE x \in a .. q - 1
      <4>1. x \in Nat /\ a <= x
        BY <2>1
      <4>. QED  BY <2>2, <2>3, <3>1, <4>1
    <3>. QED  BY <3>1 DEF Below
  <2> HIDE DEF a
  <2>5. IsFiniteSet(a .. q - 1)
        /\ Cardinality(a .. q - 1) = IF a > q - 1 THEN 0 ELSE q - 1 - a + 1
    <3>1. a \in Int /\ q - 1 \in Int
      BY <2>2, <2>3
    <3>. QED  BY <3>1, FS_Interval
  <2>6. Cardinality(Below(S, q)) <= Cardinality(a .. q - 1)
    BY <2>4, <2>5, FS_Subset
  <2>. QED  BY <2>2, <2>3, <2>5, <2>6 DEF a
<1>7. ASSUME S # {}, n # 0 PROVE Min(S) \in T
  <2>1. Min(S) \in S /\ \A y \in S : Min(S) <= y
    BY <1>7, LeastElement
  <2>2. Below(S, Min(S)) = {}
    <3>1. ASSUME NEW x \in S PROVE ~(x < Min(S))
      <4>1. x \in Nat /\ Min(S) \in Nat /\ Min(S) <= x
        BY <2>1
      <4>. QED  BY <4>1
    <3>. QED  BY <3>1 DEF Below
  <2>3. Cardinality(Below(S, Min(S))) = 0
    BY <2>2, FS_EmptySet
  <2>. QED  BY <1>1, <1>7, <2>1, <2>3
<1>8. ASSUME Cardinality(S) < n PROVE T = S
  <2>1. ASSUME NEW p \in S PROVE p \in T
    <3>1. Below(S, p) \subseteq S
      BY DEF Below
    <3>2. Cardinality(Below(S, p)) <= Cardinality(S) /\ Cardinality(S) \in Nat
      BY <3>1, FS_Subset, FS_CardinalityType
    <3>. QED  BY <1>1, <1>2, <1>8, <3>2
  <2>. QED  BY <1>4, <2>1
<1>. QED  BY <1>4, <1>5, <1>6, <1>7, <1>8 DEF T

LEMMA LowestCount ==
  ASSUME NEW S \in SUBSET Nat, IsFiniteSet(S), NEW n \in Nat, n <= Cardinality(S)
  PROVE  Cardinality(PMM!Lowest(S, n)) = n
<1> DEFINE T(k) == PMM!Lowest(S, k)
           Q == {k \in 0 .. n : Cardinality(T(k)) = k}
<1>1. \A k \in Nat : T(k) = {p \in S : Cardinality(Below(S, p)) < k}
  BY LowestIs
<1>2. \A p \in S : IsFiniteSet(Below(S, p)) /\ Cardinality(Below(S, p)) \in Nat
  BY LowestIs
<1>3. \A p, q \in S : p <= q => Cardinality(Below(S, p)) <= Cardinality(Below(S, q))
  BY LowestIs
<1>4. \A k \in Nat : T(k) \subseteq S /\ IsFiniteSet(T(k))
  BY LowestBelow
<1>5. Cardinality(S) \in Nat
  BY FS_CardinalityType
<1> HIDE DEF T
<1>6. 0 \in Q
  <2>1. T(0) = {}
    <3>1. \A p \in S : ~(Cardinality(Below(S, p)) < 0)
      BY <1>2
    <3>. QED  BY <1>1, <3>1
  <2>. QED  BY <2>1, FS_EmptySet
<1>7. ASSUME NEW k \in 0 .. n, k \in Q, k < n PROVE k + 1 \in Q
  <2>1. Cardinality(T(k)) = k /\ k \in Nat /\ T(k) \subseteq S /\ IsFiniteSet(T(k))
    BY <1>4, <1>7
  <2>2. S \ T(k) # {}
    <3>1. SUFFICES ASSUME S \ T(k) = {} PROVE FALSE
      OBVIOUS
    <3>2. T(k) = S
      BY <2>1, <3>1
    <3>. QED  BY <1>5, <1>7, <2>1, <3>2
  <2> DEFINE m == Min(S \ T(k))
  <2>3. m \in S /\ m \notin T(k) /\ \A y \in S \ T(k) : m <= y
    <3>1. S \ T(k) \in SUBSET Nat
      OBVIOUS
    <3>. QED  BY <2>2, <3>1, LeastElement
  <2> HIDE DEF m
  <2>4. \A p \in T(k) : p < m
    <3>1. \A p \in PMM!Lowest(S, k) : \A q \in S \ PMM!Lowest(S, k) : p < q
      BY <2>1, LowestBelow
    <3>. QED  BY <2>3, <3>1 DEF T
  <2>5. Below(S, m) = T(k)
    <3>1. \A p \in S : p < m => p \in T(k)
      <4>1. m \in Nat
        BY <2>3
      <4>. QED  BY <2>3, <4>1
    <3>. QED  BY <2>1, <2>4, <3>1 DEF Below
  <2>6. m \in T(k + 1)
    <3>1. Cardinality(Below(S, m)) < k + 1
      BY <2>1, <2>5
    <3>. QED  BY <1>1, <2>1, <2>3, <3>1
  <2>7. T(k) \subseteq T(k + 1)
    <3>1. ASSUME NEW x \in T(k) PROVE x \in T(k + 1)
      <4>1. x \in S /\ Cardinality(Below(S, x)) < k
        BY <1>1, <2>1
      <4>2. Cardinality(Below(S, x)) < k + 1
        BY <1>2, <2>1, <4>1
      <4>. QED  BY <1>1, <2>1, <4>1, <4>2
    <3>. QED  BY <3>1
  <2>8. ASSUME NEW x \in T(k + 1), x \notin T(k), x # m PROVE FALSE
    <3>1. x \in S /\ Cardinality(Below(S, x)) < k + 1
      BY <1>1, <2>1, <2>8
    <3>2. m <= x /\ m < x
      <4>1. m \in Nat /\ x \in Nat /\ m <= x
        BY <2>3, <2>8, <3>1
      <4>. QED  BY <2>8, <4>1
    <3>3. T(k) \cup {m} \subseteq Below(S, x)
      <4>1. \A p \in T(k) : p < x
        <5>1. \A p \in T(k) : p \in Nat /\ m \in Nat /\ x \in Nat /\ p < m
          BY <2>1, <2>3, <2>4, <3>1
        <5>. QED  BY <3>2, <5>1
      <4>. QED  BY <2>1, <2>3, <3>2, <4>1 DEF Below
    <3>4. Cardinality(T(k) \cup {m}) = k + 1
      <4>1. IsFiniteSet(T(k)) /\ m \notin T(k)
        BY <2>1, <2>3
      <4>2. Cardinality(T(k) \cup {m}) = Cardinality(T(k)) + 1
        BY <4>1, FS_AddElement
      <4>. QED  BY <2>1, <4>2
    <3>5. Cardinality(T(k) \cup {m}) <= Cardinality(Below(S, x))
      BY <1>2, <3>1, <3>3, FS_Subset
    <3>. QED  BY <1>2, <2>1, <3>1, <3>4, <3>5
  <2>9. T(k + 1) = T(k) \cup {m}
    BY <2>6, <2>7, <2>8
  <2>10. Cardinality(T(k + 1)) = k + 1
    BY <2>1, <2>3, <2>9, FS_AddElement
  <2>. QED  BY <1>7, <2>10
<1>8. n \in Q
  <2> HIDE DEF Q
  <2>1. 0 .. n \subseteq Q
    BY <1>6, <1>7, UpTo
  <2>. QED  BY <2>1
<1>. QED  BY <1>8 DEF T

(***************************************************************************)
(* A block on n new pages: it ends below the pages that stay free, and if  *)
(* the pages of the heap follow one another all of its pages are among     *)
(* them.                                                                   *)
(***************************************************************************)
NewBlock(F, n, isFree) == HeapBlock(Min(F) * PAGE_SIZE, n * PAGE_SIZE - HDR, isFree)

LEMMA NewBlockIs ==
  ASSUME NEW F \in SUBSET Nat, F # {}, NEW n \in Nat \ {0}, NEW isFree \in BOOLEAN
  PROVE  LET b == NewBlock(F, n, isFree)
         IN  /\ b \in Block /\ b.addr = Min(F) * PAGE_SIZE /\ b.free = isFree
             /\ b.size = n * PAGE_SIZE - HDR
             /\ Ptr(b) = Min(F) * PAGE_SIZE + HDR
             /\ BlockEnd(b) = (Min(F) + n) * PAGE_SIZE
             /\ PagesOf(b) \subseteq Min(F) .. Min(F) + n - 1
<1> DEFINE a == Min(F)
           b == NewBlock(F, n, isFree)
<1>1. a \in Nat
  BY LeastElement
<1> HIDE DEF a
<1>2. PAGE_SIZE \in Nat \ {0} /\ HDR \in Nat \ {0} /\ HDR < PAGE_SIZE
  BY HeapAssumption
<1>3. a * PAGE_SIZE \in Nat
  BY <1>1, <1>2
<1>4. n * PAGE_SIZE \in Nat /\ PAGE_SIZE <= n * PAGE_SIZE
  <2>1. PICK m \in Nat : n = m + 1
    <3>1. n - 1 \in Nat /\ n = n - 1 + 1
      OBVIOUS
    <3>. QED  BY <3>1
  <2>2. n * PAGE_SIZE = m * PAGE_SIZE + PAGE_SIZE /\ m * PAGE_SIZE \in Nat
    BY <1>2, <2>1
  <2>. QED  BY <1>2, <2>2
<1>5. (a + n) * PAGE_SIZE = a * PAGE_SIZE + n * PAGE_SIZE
  BY <1>1, <1>2
<1>6. n * PAGE_SIZE - HDR \in Nat
  BY <1>2, <1>4
<1>7. /\ b \in Block /\ b.addr = a * PAGE_SIZE /\ b.free = isFree
      /\ b.size = n * PAGE_SIZE - HDR
      /\ Ptr(b) = a * PAGE_SIZE + HDR
      /\ BlockEnd(b) = a * PAGE_SIZE + HDR + (n * PAGE_SIZE - HDR)
  BY <1>3, <1>6, BlockIs DEF NewBlock, a
<1> HIDE DEF b
<1>8. BlockEnd(b) = (a + n) * PAGE_SIZE
  <2>1. \A x, y, z \in Nat : x + z + (y - z) = x + y
    OBVIOUS
  <2>. QED  BY <1>2, <1>3, <1>4, <1>5, <1>7, <2>1
<1>9. PagesOf(b) \subseteq a .. a + n - 1
  <2>1. b.addr \in Nat /\ BlockEnd(b) \in Nat /\ BlockEnd(b) - 1 \in Nat
        /\ BlockEnd(b) - 1 < BlockEnd(b)
    BY <1>7, BlockFacts
  <2>2. a + n \in Nat
    BY <1>1
  <2> DEFINE lo == b.addr \div PAGE_SIZE
             hi == (BlockEnd(b) - 1) \div PAGE_SIZE
  <2>3. a <= lo /\ lo \in Nat
    <3>1. a * PAGE_SIZE <= b.addr
      BY <1>3, <1>7
    <3>. QED  BY <1>1, <2>1, <3>1, PageOf
  <2>4. hi < a + n /\ hi \in Nat
    <3>1. BlockEnd(b) - 1 < (a + n) * PAGE_SIZE
      BY <1>8, <2>1
    <3>. QED  BY <2>1, <2>2, <3>1, PageOf
  <2> HIDE DEF lo, hi
  <2>5. lo .. hi \subseteq a .. a + n - 1
    BY <1>1, <2>2, <2>3, <2>4
  <2>. QED  BY <2>5 DEF PagesOf, lo, hi
<1>. QED  BY <1>7, <1>8, <1>9 DEF a, b

LEMMA NewPagesFill ==
  ASSUME NEW F \in SUBSET Nat, IsFiniteSet(F), F # {}, NEW n \in Nat \ {0},
         n <= Cardinality(F), NEW H, Joined(H \cup PMM!Lowest(F, n))
  PROVE  Min(F) .. Min(F) + n - 1 \subseteq H \cup PMM!Lowest(F, n)
<1> DEFINE T == PMM!Lowest(F, n)
           a == Min(F)
<1>1. a \in Nat /\ \A y \in F : a <= y
  BY LeastElement
<1>2. T \subseteq F /\ IsFiniteSet(T) /\ a \in T
  BY LowestBelow
<1>3. Cardinality(T) = n
  BY LowestCount
<1> HIDE DEF T, a
<1>4. PICK t \in T : a + n - 1 <= t
  <2>1. SUFFICES ASSUME \A t \in T : ~(a + n - 1 <= t) PROVE FALSE
    OBVIOUS
  <2>2. T \subseteq a .. a + n - 2
    <3>1. ASSUME NEW t \in T PROVE t \in a .. a + n - 2
      <4>1. t \in Nat /\ a <= t /\ ~(a + n - 1 <= t)
        BY <1>1, <1>2, <2>1
      <4>. QED  BY <1>1, <4>1
    <3>. QED  BY <3>1
  <2>3. IsFiniteSet(a .. a + n - 2)
        /\ Cardinality(a .. a + n - 2)
              = IF a > a + n - 2 THEN 0 ELSE a + n - 2 - a + 1
    <3>1. a \in Int /\ a + n - 2 \in Int
      BY <1>1
    <3>. QED  BY <3>1, FS_Interval
  <2>4. Cardinality(T) <= Cardinality(a .. a + n - 2)
    BY <2>2, <2>3, FS_Subset
  <2>. QED  BY <1>1, <1>3, <2>3, <2>4
<1>5. a .. t \subseteq H \cup T
  BY <1>2, <1>4 DEF Joined, T
<1>6. t \in Nat
  BY <1>2, <1>4
<1>7. a .. a + n - 1 \subseteq a .. t
  BY <1>1, <1>4, <1>6
<1>. QED  BY <1>5, <1>7 DEF T, a

(***************************************************************************)
(* An expansion of the heap by n pages, or its first block.                *)
(***************************************************************************)
PagesBelow(H, F) == \A p \in H : \A q \in F : p < q

LEMMA GrowKeeps ==
  ASSUME NEW list, NEW H \in SUBSET Nat, IsFiniteSet(H),
         NEW F \in SUBSET Nat, IsFiniteSet(F), F # {},
         NEW sh \in BOOLEAN, Good(list, H, F, sh), PagesBelow(H, F),
         NEW n \in Nat \ {0}, NEW isFree \in BOOLEAN, isFree => list = <<>>
  PROVE  /\ Good(Append(list, NewBlock(F, n, isFree)), H \cup PMM!Lowest(F, n),
                 F \ PMM!Lowest(F, n), sh \/ Cardinality(F) < n)
         /\ \A u \in Used(list) : u.addr # Min(F) * PAGE_SIZE
<1> DEFINE T == PMM!Lowest(F, n)
           b == NewBlock(F, n, isFree)
           G == Append(list, b)
           a == Min(F)
<1>1. /\ list \in Seq(Block) /\ Ordered(list) /\ Clear(list, F) /\ NoPair(list)
      /\ ~sh /\ Joined(H) => Inside(list, H)
      /\ ~sh => Weighs(list, PAGE_SIZE * Cardinality(H))
  BY DEF Good
<1>2. a \in F /\ a \in Nat
  BY LeastElement
<1>3. /\ T \subseteq F /\ IsFiniteSet(T)
      /\ \A q \in F \ T : a + n <= q
  BY LowestBelow
<1>4. n <= Cardinality(F) => Cardinality(T) = n
  BY LowestCount
<1>5. n <= Cardinality(F) /\ Joined(H \cup T) => a .. a + n - 1 \subseteq H \cup T
  BY NewPagesFill
<1>6. /\ b \in Block /\ b.addr = a * PAGE_SIZE /\ b.free = isFree
      /\ b.size = n * PAGE_SIZE - HDR
      /\ BlockEnd(b) = (a + n) * PAGE_SIZE
      /\ PagesOf(b) \subseteq a .. a + n - 1
  BY NewBlockIs
<1>7. PAGE_SIZE \in Nat \ {0} /\ HDR \in Nat
  BY HeapAssumption
<1> HIDE DEF T, b, a
<1>8. \A j \in 1 .. Len(list) : BlockEnd(list[j]) <= b.addr
  BY <1>1, <1>2, <1>6 DEF Clear
<1>9. \A q \in F \ T : BlockEnd(b) <= q * PAGE_SIZE
  <2> TAKE q \in F \ T
  <2>1. q \in Nat /\ a + n \in Nat /\ a + n <= q
    BY <1>2, <1>3
  <2>2. PICK d \in Nat : q = a + n + d
    <3>1. q - (a + n) \in Nat /\ q = a + n + (q - (a + n))
      BY <1>2, <2>1
    <3>. QED  BY <3>1
  <2>3. q * PAGE_SIZE = (a + n) * PAGE_SIZE + d * PAGE_SIZE
        /\ d * PAGE_SIZE \in Nat /\ (a + n) * PAGE_SIZE \in Nat
    <3>1. \A x, y \in Nat : (x + y) * PAGE_SIZE = x * PAGE_SIZE + y * PAGE_SIZE
                            /\ x * PAGE_SIZE \in Nat /\ y * PAGE_SIZE \in Nat
      BY <1>7
    <3>. QED  BY <2>1, <2>2, <3>1
  <2>. QED  BY <1>6, <2>3
<1>10. Clear(list, F \ T)
  BY <1>1 DEF Clear
<1>11. /\ G \in Seq(Block) /\ Ordered(G) /\ NoPair(G) /\ Clear(G, F \ T)
       /\ \A S : Inside(list, S) /\ PagesOf(b) \subseteq S => Inside(G, S)
       /\ \A N \in Nat : Weighs(list, N) => Weighs(G, N + HDR + b.size)
  BY <1>1, <1>6, <1>8, <1>9, <1>10, AppendKeeps
<1> HIDE DEF G
<1>12. Cardinality(F) \in Nat /\ Cardinality(H) \in Nat
  BY FS_CardinalityType
<1>13. ASSUME ~sh, ~(Cardinality(F) < n), Joined(H \cup T)
       PROVE  Inside(G, H \cup T)
  <2>1. Joined(H)
    <3>1. SUFFICES ASSUME NEW q \in H, NEW r \in H, NEW x \in q .. r
                   PROVE  x \in H
      BY DEF Joined
    <3>2. x \in H \cup T
      BY <1>13 DEF Joined
    <3>3. ~(x \in T)
      <4>1. SUFFICES ASSUME x \in T PROVE FALSE
        OBVIOUS
      <4>2. r < x
        BY <1>3, <4>1 DEF PagesBelow
      <4>3. q \in Nat /\ r \in Nat /\ x <= r /\ x \in Int
        OBVIOUS
      <4>. QED  BY <4>2, <4>3
    <3>. QED  BY <3>2, <3>3
  <2>2. Inside(list, H)
    BY <1>1, <1>13, <2>1
  <2>3. Inside(list, H \cup T)
    BY <2>2 DEF Inside
  <2>4. PagesOf(b) \subseteq H \cup T
    <3>1. n <= Cardinality(F)
      BY <1>12, <1>13
    <3>. QED  BY <1>5, <1>6, <1>13, <3>1
  <2>. QED  BY <1>11, <2>3, <2>4
<1>14. ASSUME ~sh, ~(Cardinality(F) < n)
       PROVE  Weighs(G, PAGE_SIZE * Cardinality(H \cup T))
  <2>1. Cardinality(T) = n
    <3>1. n <= Cardinality(F)
      BY <1>12, <1>14
    <3>. QED  BY <1>4, <3>1
  <2>2. H \cap T = {}
    <3>1. SUFFICES ASSUME NEW x \in H, x \in T PROVE FALSE
      OBVIOUS
    <3>2. x < x /\ x \in Nat
      BY <1>3, <3>1 DEF PagesBelow
    <3>. QED  BY <3>2
  <2>3. Cardinality(H \cup T) = Cardinality(H) + n
    <3>1. Cardinality(H \cup T)
            = Cardinality(H) + Cardinality(T) - Cardinality(H \cap T)
      BY <1>3, FS_Union
    <3>2. Cardinality(H \cap T) = 0
      BY <2>2, FS_EmptySet
    <3>. QED  BY <1>12, <2>1, <3>1, <3>2
  <2> DEFINE c == Cardinality(H)
  <2>4. c \in Nat
    BY <1>12
  <2> HIDE DEF c
  <2>5. PAGE_SIZE * c \in Nat /\ n * PAGE_SIZE \in Nat
        /\ PAGE_SIZE * (c + n) = PAGE_SIZE * c + n * PAGE_SIZE
    BY <1>7, <2>4
  <2>6. PAGE_SIZE * c + HDR + b.size = PAGE_SIZE * (c + n)
    <3>1. \A x, y, z \in Nat : x + z + (y - z) = x + y
      OBVIOUS
    <3>. QED  BY <1>6, <1>7, <2>5, <3>1
  <2>7. Weighs(G, PAGE_SIZE * c + HDR + b.size)
    BY <1>1, <1>11, <1>14, <2>5 DEF c
  <2>. QED  BY <2>3, <2>6, <2>7 DEF c
<1>15. Good(G, H \cup T, F \ T, sh \/ Cardinality(F) < n)
  BY <1>11, <1>13, <1>14 DEF Good
<1>16. \A u \in Used(list) : u.addr # a * PAGE_SIZE
  <2> TAKE u \in Used(list)
  <2>1. PICK j \in 1 .. Len(list) : u = list[j]
    BY DEF Used
  <2>2. u \in Block
    BY <1>1, <2>1, ElementIs
  <2>3. u.addr \in Nat /\ BlockEnd(u) \in Nat /\ u.addr < BlockEnd(u)
        /\ BlockEnd(u) <= a * PAGE_SIZE /\ a * PAGE_SIZE \in Nat
    BY <1>2, <1>6, <1>7, <1>8, <2>1, <2>2, BlockFacts
  <2>. QED  BY <2>3
<1>. QED  BY <1>15, <1>16 DEF T, b, G, a

----------------------------------------------------------------------------
(***************************************************************************)
(* kmalloc: a used block with a new address joins the others, or nothing   *)
(* changes.                                                                *)
(***************************************************************************)
LEMMA FittingIs ==
  ASSUME NEW list \in Seq(Block), Ordered(list), NoPair(list), NEW req \in Nat,
         Fitting(list, req) # {}
  PROVE  LET i == Min(Fitting(list, req))
         IN  /\ i \in 1 .. Len(list) /\ list[i].free /\ list[i].size >= req
             /\ i < Len(list) => ~list[i + 1].free
             /\ list[i] \notin Used(list)
             /\ \A u \in Used(list) : u.addr # list[i].addr
<1> DEFINE i == Min(Fitting(list, req))
<1>1. i \in Fitting(list, req)
  <2>1. Fitting(list, req) \in SUBSET Nat
    BY ElementIs DEF Fitting
  <2>. QED  BY <2>1, LeastElement
<1> HIDE DEF i
<1>2. i \in 1 .. Len(list) /\ list[i].free /\ list[i].size >= req
  BY <1>1, ElementIs DEF Fitting
<1>3. i < Len(list) => ~list[i + 1].free
  <2>1. i < Len(list) => i \in 1 .. Len(list) - 1
    BY <1>2, ElementIs
  <2>. QED  BY <1>2, <2>1 DEF NoPair
<1>4. \A u \in Used(list) : u.addr # list[i].addr
  <2> TAKE u \in Used(list)
  <2>1. PICK j \in 1 .. Len(list) : u = list[j] /\ ~list[j].free
    BY DEF Used
  <2>2. j # i
    BY <1>2, <2>1
  <2>. QED  BY <1>2, <2>1, <2>2, OneBlockAt
<1>. QED  BY <1>2, <1>3, <1>4 DEF i

LEMMA PagesNeededCover ==
  ASSUME NEW req \in Nat
  PROVE  /\ PagesNeeded(req) \in Nat \ {0}
         /\ req <= PagesNeeded(req) * PAGE_SIZE - HDR
<1> DEFINE n == PagesNeeded(req)
<1>1. PAGE_SIZE \in Nat \ {0} /\ HDR \in Nat \ {0}
  BY HeapAssumption
<1>2. n \in Nat /\ req + HDR <= n * PAGE_SIZE
  <2>1. req + HDR \in Nat
    BY <1>1
  <2>. QED  BY <1>1, <2>1, CeilCovers DEF PagesNeeded
<1> HIDE DEF n
<1>3. n # 0
  <2>1. SUFFICES ASSUME n = 0 PROVE FALSE
    OBVIOUS
  <2>2. n * PAGE_SIZE = 0
    BY <1>1, <2>1
  <2>. QED  BY <1>1, <1>2, <2>2
<1>4. n * PAGE_SIZE \in Nat
  BY <1>1, <1>2
<1>. QED  BY <1>1, <1>2, <1>3, <1>4 DEF n

Placed(m, list, size) ==
    \E u \in Block : /\ ~u.free /\ Ptr(u) = m.ptr /\ u.size >= size
                     /\ Used(m.list) = Used(list) \cup {u}
                     /\ \A v \in Used(list) : v.addr # u.addr

LEMMA MallocKeeps ==
  ASSUME heapPages \in SUBSET Nat, IsFiniteSet(heapPages),
         free \in SUBSET Nat, IsFiniteSet(free), PagesBelow(heapPages, free),
         short \in BOOLEAN, Good(blocks, heapPages, free, short), NEW size \in Nat
  PROVE  LET m == Malloc(size)
         IN  /\ m.taken \subseteq free /\ m.short \in BOOLEAN
             /\ PagesBelow(heapPages \cup m.taken, free \ m.taken)
             /\ Good(m.list, heapPages \cup m.taken, free \ m.taken, short \/ m.short)
             /\ m.ptr = NULL => m.list = blocks
             /\ m.ptr # NULL => Placed(m, blocks, size)
<1> DEFINE req == ALIGN_UP(size)
           fit == Fitting(blocks, req)
           m == Malloc(size)
<1>1. req \in Nat /\ size <= req
  BY RequestFits
<1> HIDE DEF req
<1>2. blocks \in Seq(Block) /\ Ordered(blocks) /\ NoPair(blocks)
  BY DEF Good
<1>3. CASE fit # {}
  <2> DEFINE i == Min(fit)
  <2>1. m = [ptr |-> Ptr(blocks[i]), taken |-> {}, short |-> FALSE,
             list |-> Split(blocks, i, req)]
    BY <1>3 DEF Malloc, req
  <2>2. /\ i \in 1 .. Len(blocks) /\ blocks[i].size >= req
        /\ i < Len(blocks) => ~blocks[i + 1].free
        /\ blocks[i] \notin Used(blocks)
        /\ \A u \in Used(blocks) : u.addr # blocks[i].addr
    BY <1>1, <1>2, <1>3, FittingIs
  <2> HIDE DEF i, m
  <2>3. blocks[i] \in Block
    BY <1>2, <2>2, ElementIs
  <2>4. Good(Split(blocks, i, req), heapPages, free, short)
        /\ \E u \in Block : /\ u.addr = blocks[i].addr /\ ~u.free /\ u.size >= req
                            /\ TakenAs(blocks, Split(blocks, i, req), blocks[i], u)
    <3> HIDE DEF fit
    <3>. QED  BY <1>1, <2>2, SplitKeeps
  <2>5. PICK u \in Block : /\ u.addr = blocks[i].addr /\ ~u.free /\ u.size >= req
                           /\ TakenAs(blocks, Split(blocks, i, req), blocks[i], u)
    BY <2>4
  <2>6. Used(m.list) = Used(blocks) \cup {u} /\ \A v \in Used(blocks) : v.addr # u.addr
    BY <2>1, <2>2, <2>5 DEF TakenAs
  <2>7. Ptr(u) = m.ptr /\ m.ptr \in Nat
    <3>1. Ptr(u) = Ptr(blocks[i]) /\ Ptr(u) \in Nat
      BY <2>5, BlockFacts DEF Ptr
    <3>. QED  BY <2>1, <3>1
  <2>8. u.size >= size
    BY <1>1, <2>5, BlockFacts
  <2>9. m.taken = {} /\ m.short = FALSE /\ m.list = Split(blocks, i, req)
    BY <2>1
  <2>10. heapPages \cup m.taken = heapPages /\ free \ m.taken = free
         /\ (short \/ m.short) = short
    BY <2>9
  <2>11. Good(m.list, heapPages \cup m.taken, free \ m.taken, short \/ m.short)
    BY <2>4, <2>9, <2>10
  <2>12. Placed(m, blocks, size)
    BY <2>5, <2>6, <2>7, <2>8 DEF Placed
  <2>13. m.ptr # NULL
    BY <2>7 DEF NULL
  <2>. QED  BY <2>9, <2>10, <2>11, <2>12, <2>13 DEF m
<1>4. CASE fit = {} /\ free = {}
  <2>1. m = [ptr |-> NULL, taken |-> {}, short |-> FALSE, list |-> blocks]
    BY <1>4 DEF Malloc, req
  <2> HIDE DEF m
  <2>2. m.ptr = NULL /\ m.taken = {} /\ m.short = FALSE /\ m.list = blocks
    BY <2>1
  <2>3. heapPages \cup m.taken = heapPages /\ free \ m.taken = free
        /\ (short \/ m.short) = short
    BY <2>2
  <2>. QED  BY <2>2, <2>3 DEF m
<1>5. CASE fit = {} /\ free # {}
  <2> DEFINE n == PagesNeeded(req)
             b == NewBlock(free, n, FALSE)
             G == Append(blocks, b)
             T == PMM!Lowest(free, n)
             sh == short \/ Cardinality(free) < n
  <2>1. m = [ptr |-> Min(free) * PAGE_SIZE + HDR,
             taken |-> T, short |-> Cardinality(free) < n,
             list |-> Split(G, Len(G), req)]
    BY <1>5 DEF Malloc, req, NewBlock
  <2>2. n \in Nat \ {0} /\ req <= n * PAGE_SIZE - HDR
    BY <1>1, PagesNeededCover
  <2> HIDE DEF n, m
  <2>3. /\ b \in Block /\ b.addr = Min(free) * PAGE_SIZE /\ ~b.free
        /\ b.size = n * PAGE_SIZE - HDR /\ Ptr(b) = Min(free) * PAGE_SIZE + HDR
    BY <1>5, <2>2, NewBlockIs
  <2>4. Good(G, heapPages \cup T, free \ T, sh)
        /\ \A u \in Used(blocks) : u.addr # b.addr
    BY <1>5, <2>2, <2>3, GrowKeeps
  <2> HIDE DEF b
  <2>5. Len(G) = Len(blocks) + 1 /\ G[Len(blocks) + 1] = b
        /\ Used(G) = Used(blocks) \cup {b}
    BY <1>2, <2>3, AppendKeeps
  <2>6. T \subseteq free /\ \A p \in T : \A q \in free \ T : p < q
    BY <2>2, LowestBelow
  <2> HIDE DEF G, T, sh
  <2>7. Len(G) \in 1 .. Len(G) /\ G[Len(G)] = b /\ ~(Len(G) < Len(G))
    BY <1>2, <2>5, ElementIs
  <2>8. G[Len(G)].size >= req
    <3>1. b.size \in Nat
      BY <2>3, BlockFacts
    <3>. QED  BY <1>1, <2>2, <2>3, <2>7, <3>1
  <2> DEFINE L == Split(G, Len(G), req)
  <2>9. Good(L, heapPages \cup T, free \ T, sh)
        /\ \E u \in Block : /\ u.addr = b.addr /\ ~u.free /\ u.size >= req
                            /\ TakenAs(G, L, b, u)
    <3>1. free \ T \in SUBSET Nat
      OBVIOUS
    <3>2. /\ Good(Split(G, Len(G), req), heapPages \cup T, free \ T, sh)
          /\ \E u \in Block : /\ u.addr = G[Len(G)].addr /\ ~u.free /\ u.size >= req
                              /\ TakenAs(G, Split(G, Len(G), req), G[Len(G)], u)
      <4> HIDE DEF L
      <4>. QED  BY <1>1, <2>4, <2>7, <2>8, <3>1, SplitKeeps
    <3>. QED  BY <2>7, <3>2
  <2> HIDE DEF L
  <2>10. PICK u \in Block : /\ u.addr = b.addr /\ ~u.free /\ u.size >= req
                            /\ TakenAs(G, L, b, u)
    BY <2>9
  <2>11. Used(L) = Used(blocks) \cup {u} /\ \A v \in Used(blocks) : v.addr # u.addr
    <3>1. b \notin Used(blocks)
      BY <2>4
    <3>. QED  BY <2>4, <2>5, <2>10, <3>1 DEF TakenAs
  <2>12. m.ptr = Ptr(b) /\ m.taken = T /\ m.list = L
         /\ m.short = (Cardinality(free) < n)
    BY <2>1, <2>3 DEF L, T
  <2>13. Ptr(u) = m.ptr /\ m.ptr \in Nat
    <3>1. Ptr(u) = Ptr(b) /\ Ptr(u) \in Nat
      BY <2>10, BlockFacts DEF Ptr
    <3>. QED  BY <2>12, <3>1
  <2>14. u.size >= size
    BY <1>1, <2>10, BlockFacts
  <2>15. Placed(m, blocks, size)
    BY <2>10, <2>11, <2>12, <2>13, <2>14 DEF Placed
  <2>16. m.ptr # NULL
    BY <2>13 DEF NULL
  <2>17. Good(m.list, heapPages \cup m.taken, free \ m.taken, short \/ m.short)
    BY <2>9, <2>12 DEF sh
  <2>18. PagesBelow(heapPages \cup m.taken, free \ m.taken)
    BY <2>6, <2>12 DEF PagesBelow
  <2>19. m.short \in BOOLEAN
    BY <2>12
  <2>. QED  BY <2>6, <2>12, <2>15, <2>16, <2>17, <2>18, <2>19 DEF m
<1>. QED  BY <1>3, <1>4, <1>5

----------------------------------------------------------------------------
(***************************************************************************)
(* The used blocks U and what the callers hold, L: one to one.             *)
(***************************************************************************)
Hold(U, L) ==
    /\ \A a \in L : \E b \in U : Ptr(b) = a.ptr /\ b.size >= a.want
    /\ \A b \in U : \E a \in L : a.ptr = Ptr(b)
    /\ \A a, c \in L : a.ptr = c.ptr => a = c

Held(u, size) == [ptr |-> Ptr(u), want |-> size]

LEMMA SamePtr ==
  ASSUME NEW b \in Block, NEW c \in Block, Ptr(b) = Ptr(c)
  PROVE  b.addr = c.addr
<1>1. b.addr \in Nat /\ c.addr \in Nat /\ HDR \in Nat
  BY BlockFacts
<1>. QED  BY <1>1 DEF Ptr

LEMMA UsedBlocks ==
  ASSUME NEW list \in Seq(Block), Ordered(list)
  PROVE  /\ Used(list) \subseteq Block
         /\ \A b \in Used(list) : ~b.free
         /\ \A b, c \in Used(list) : b.addr = c.addr => b = c
<1>1. \A b \in Used(list) : \E j \in 1 .. Len(list) : b = list[j] /\ ~list[j].free
  BY DEF Used
<1>2. ASSUME NEW b \in Used(list), NEW c \in Used(list), b.addr = c.addr PROVE b = c
  <2>1. PICK j \in 1 .. Len(list) : b = list[j]
    BY <1>1
  <2>2. PICK k \in 1 .. Len(list) : c = list[k]
    BY <1>1
  <2>3. j = k
    BY <1>2, <2>1, <2>2, OneBlockAt
  <2>. QED  BY <2>1, <2>2, <2>3
<1>3. Used(list) \subseteq Block
  BY <1>1, ElementIs
<1>. QED  BY <1>1, <1>2, <1>3

LEMMA HoldMore ==
  ASSUME NEW U \in SUBSET Block, NEW L, Hold(U, L), NEW u \in Block, NEW size,
         u.size >= size, \A v \in U : v.addr # u.addr
  PROVE  /\ Hold(U \cup {u}, L \cup {Held(u, size)})
         /\ \A a \in L : a.ptr # Ptr(u)
<1>1. \A v \in U : Ptr(v) # Ptr(u)
  BY SamePtr
<1>2. \A a \in L : a.ptr # Ptr(u)
  BY <1>1 DEF Hold
<1> DEFINE h == Held(u, size)
<1>3. h.ptr = Ptr(u) /\ h.want = size
  BY DEF Held
<1> HIDE DEF h
<1>4. ASSUME NEW a \in L \cup {h}
      PROVE  \E b \in U \cup {u} : Ptr(b) = a.ptr /\ b.size >= a.want
  <2>1. CASE a \in L
    BY <2>1 DEF Hold
  <2>2. CASE a = h
    BY <1>3, <2>2
  <2>. QED  BY <2>1, <2>2
<1>5. ASSUME NEW b \in U \cup {u} PROVE \E a \in L \cup {h} : a.ptr = Ptr(b)
  <2>1. CASE b \in U
    BY <2>1 DEF Hold
  <2>2. CASE b = u
    BY <1>3, <2>2
  <2>. QED  BY <2>1, <2>2
<1>6. ASSUME NEW a \in L \cup {h}, NEW c \in L \cup {h}, a.ptr = c.ptr PROVE a = c
  <2>1. CASE a \in L /\ c \in L
    BY <1>6, <2>1 DEF Hold
  <2>2. CASE a = h \/ c = h
    BY <1>2, <1>3, <1>6, <2>2
  <2>. QED  BY <2>1, <2>2
<1>7. Hold(U \cup {u}, L \cup {h})
  BY <1>4, <1>5, <1>6 DEF Hold
<1>. QED  BY <1>2, <1>7 DEF h

LEMMA HoldLess ==
  ASSUME NEW U \in SUBSET Block, NEW L, Hold(U, L),
         \A b, c \in U : b.addr = c.addr => b = c,
         NEW a \in L, NEW b \in U, Ptr(b) = a.ptr
  PROVE  Hold(U \ {b}, L \ {a})
<1>1. ASSUME NEW c \in L \ {a}
      PROVE  \E v \in U \ {b} : Ptr(v) = c.ptr /\ v.size >= c.want
  <2>1. PICK v \in U : Ptr(v) = c.ptr /\ v.size >= c.want
    BY DEF Hold
  <2>2. v # b
    BY <2>1 DEF Hold
  <2>. QED  BY <2>1, <2>2
<1>2. ASSUME NEW v \in U \ {b} PROVE \E c \in L \ {a} : c.ptr = Ptr(v)
  <2>1. PICK c \in L : c.ptr = Ptr(v)
    BY DEF Hold
  <2>2. Ptr(v) # Ptr(b)
    BY SamePtr
  <2>. QED  BY <2>1, <2>2
<1>3. \A c, d \in L \ {a} : c.ptr = d.ptr => c = d
  BY DEF Hold
<1>. QED  BY <1>1, <1>2, <1>3 DEF Hold

LEMMA HoldOther ==
  ASSUME NEW U \in SUBSET Block, NEW L, Hold(U, L),
         \A b, c \in U : b.addr = c.addr => b = c,
         NEW a \in L, NEW b \in U, Ptr(b) = a.ptr, NEW size, b.size >= size,
         NEW h, h.ptr = a.ptr, h.want = size
  PROVE  Hold(U, (L \ {a}) \cup {h})
<1> DEFINE K == (L \ {a}) \cup {h}
<1>1. ASSUME NEW c \in K
      PROVE  \E v \in U : Ptr(v) = c.ptr /\ v.size >= c.want
  <2>1. CASE c \in L
    BY <2>1 DEF Hold
  <2>2. CASE c = h
    BY <2>2
  <2>. QED  BY <2>1, <2>2
<1>2. ASSUME NEW v \in U PROVE \E c \in K : c.ptr = Ptr(v)
  <2>1. PICK c \in L : c.ptr = Ptr(v)
    BY DEF Hold
  <2>2. CASE c = a
    BY <2>1, <2>2
  <2>3. CASE c # a
    BY <2>1, <2>3
  <2>. QED  BY <2>2, <2>3
<1>3. ASSUME NEW c \in K, NEW d \in K, c.ptr = d.ptr PROVE c = d
  <2>1. CASE c \in L \ {a} /\ d \in L \ {a}
    BY <1>3, <2>1 DEF Hold
  <2>2. \A e \in L \ {a} : e.ptr # a.ptr
    BY DEF Hold
  <2>3. CASE c = h \/ d = h
    BY <1>3, <2>2, <2>3
  <2>. QED  BY <2>1, <2>3
<1> HIDE DEF K
<1>4. Hold(U, K)
  BY <1>1, <1>2, <1>3 DEF Hold
<1>. QED  BY <1>4 DEF K

(***************************************************************************)
(* The invariant.                                                          *)
(***************************************************************************)
PagesInv ==
    /\ IsFiniteSet(free) /\ IsFiniteSet(heapPages)
    /\ PagesBelow(heapPages, free)
    /\ status = "boot" => heapPages = {}

ListInv ==
    IF status = "ready"
    THEN Good(blocks, heapPages, free, short) /\ Hold(Used(blocks), live)
    ELSE blocks = <<>> /\ live = {} /\ ~short

HeapInv == TypeOK /\ PagesInv /\ ListInv

LEMMA InitInv == Init => HeapInv
<1> SUFFICES ASSUME Init PROVE HeapInv
  OBVIOUS
<1>1. free \subseteq Nat /\ IsFiniteSet(free)
  BY HeapAssumption DEF Init
<1>2. TypeOK
  <2>1. blocks \in Seq(Block)
    BY DEF Init
  <2>2. live \subseteq [ptr : Nat, want : Nat]
    BY DEF Init
  <2>. QED  BY <1>1, <2>1, <2>2 DEF Init, TypeOK
<1>3. PagesInv
  <2>1. IsFiniteSet({})
    BY FS_EmptySet
  <2>. QED  BY <1>1, <2>1 DEF Init, PagesInv, PagesBelow
<1>4. ListInv
  BY DEF Init, ListInv
<1>. QED  BY <1>2, <1>3, <1>4 DEF HeapInv

\* What follows from the invariant once heap_init has returned.
LEMMA ReadyFacts ==
  ASSUME HeapInv, status = "ready"
  PROVE  /\ Good(blocks, heapPages, free, short) /\ Hold(Used(blocks), live)
         /\ blocks \in Seq(Block) /\ Ordered(blocks)
         /\ free \in SUBSET Nat /\ IsFiniteSet(free)
         /\ heapPages \in SUBSET Nat /\ IsFiniteSet(heapPages)
         /\ PagesBelow(heapPages, free) /\ short \in BOOLEAN
         /\ live \subseteq [ptr : Nat, want : Nat]
<1>1. Good(blocks, heapPages, free, short) /\ Hold(Used(blocks), live)
  BY DEF HeapInv, ListInv
<1>. QED  BY <1>1 DEF HeapInv, TypeOK, PagesInv, Good

LEMMA HeapInitKeepsInv == HeapInv /\ heap_init => HeapInv'
<1> SUFFICES ASSUME HeapInv, heap_init PROVE HeapInv'
  OBVIOUS
<1> DEFINE T == PMM!Lowest(free, HeapPages)
<1>1. /\ status = "boot" /\ free' = free \ T /\ heapPages' = T
      /\ live' = live /\ short' = short
      /\ \/ status' = "panic" /\ blocks' = blocks
         \/ /\ ~(Cardinality(T) < HeapPages) /\ status' = "ready"
            /\ blocks' = <<HeapBlock(Min(T) * PAGE_SIZE,
                                     HeapPages * PAGE_SIZE - HDR, TRUE)>>
  BY DEF heap_init
<1>2. /\ free \in SUBSET Nat /\ IsFiniteSet(free) /\ HeapPages \in Nat \ {0}
      /\ blocks = <<>> /\ live = {} /\ short = FALSE
  BY <1>1, HeapAssumption DEF HeapInv, TypeOK, PagesInv, ListInv
<1>3. /\ T \subseteq free /\ IsFiniteSet(T)
      /\ \A p \in T : \A q \in free \ T : p < q
      /\ free # {} => Min(free) \in T
      /\ Cardinality(free) < HeapPages => T = free
  BY <1>2, LowestBelow
<1> HIDE DEF T
<1>4. IsFiniteSet(free \ T)
  BY <1>2, FS_Subset
<1>5. PagesInv'
  BY <1>1, <1>3, <1>4 DEF PagesInv, PagesBelow
<1>6. CASE status' = "panic" /\ blocks' = blocks
  <2>1. TypeOK'
    BY <1>1, <1>2, <1>3, <1>6 DEF HeapInv, TypeOK
  <2>2. ListInv'
    BY <1>1, <1>2, <1>6 DEF ListInv
  <2>. QED  BY <1>5, <2>1, <2>2 DEF HeapInv
<1>7. ASSUME ~(Cardinality(T) < HeapPages), status' = "ready",
             blocks' = <<HeapBlock(Min(T) * PAGE_SIZE,
                                   HeapPages * PAGE_SIZE - HDR, TRUE)>>
      PROVE  HeapInv'
  <2>1. Cardinality(T) \in Nat /\ Cardinality(free) \in Nat
    BY <1>2, <1>3, FS_CardinalityType
  <2>2. free # {}
    <3>1. SUFFICES ASSUME free = {} PROVE FALSE
      OBVIOUS
    <3>2. Cardinality(T) = 0
      BY <1>3, <3>1, FS_EmptySet
    <3>. QED  BY <1>2, <1>7, <3>2
  <2>3. ~(Cardinality(free) < HeapPages)
    BY <1>3, <1>7
  <2>4. Min(T) = Min(free)
    <3>1. Min(free) \in T /\ \A y \in free : Min(free) <= y
      BY <1>2, <1>3, <2>2, LeastElement
    <3>2. Min(T) \in T /\ \A y \in T : Min(T) <= y
      <4>1. T \in SUBSET Nat /\ T # {}
        BY <1>2, <1>3, <3>1
      <4>. QED  BY <4>1, LeastElement
    <3>3. Min(T) \in Nat /\ Min(free) \in Nat
      BY <1>2, <1>3, <3>1, <3>2
    <3>. QED  BY <1>3, <3>1, <3>2, <3>3
  <2> DEFINE b == NewBlock(free, HeapPages, TRUE)
  <2>5. blocks' = Append(<<>>, b)
    <3>1. blocks' = <<b>>
      BY <1>7, <2>4 DEF NewBlock
    <3> HIDE DEF b
    <3>. QED  BY <3>1
  <2>6. b \in Block /\ b.free = TRUE
    BY <1>2, <2>2, NewBlockIs
  <2>7. Good(<<>>, {}, free, FALSE) /\ Used(<<>>) = {}
    <3>1. <<>> \in Seq(Block) /\ Len(<<>>) = 0
      OBVIOUS
    <3>2. Cardinality({}) = 0 /\ PAGE_SIZE * 0 = 0
      BY FS_EmptySet, HeapAssumption
    <3>3. Weighs(<<>>, 0)
      <4> DEFINE s == [i \in {0} |-> 0]
      <4>1. s[0] = 0 /\ (\A i \in 0 .. 0 : s[i] \in Nat) /\ 1 .. 0 = {}
        OBVIOUS
      <4> HIDE DEF s
      <4>. QED  BY <3>1, <4>1 DEF Weighs
    <3>. QED  BY <3>1, <3>2, <3>3 DEF Good, Ordered, Clear, NoPair, Inside, Used
  <2>8. Good(Append(<<>>, b), {} \cup T, free \ T, FALSE \/ Cardinality(free) < HeapPages)
    <3>1. IsFiniteSet({}) /\ {} \in SUBSET Nat /\ PagesBelow({}, free)
      BY FS_EmptySet DEF PagesBelow
    <3>. QED  BY <1>2, <2>2, <2>7, <3>1, GrowKeeps DEF T
  <2>9. Used(Append(<<>>, b)) = {}
    <3>1. <<>> \in Seq(Block)
      OBVIOUS
    <3>2. Used(Append(<<>>, b)) = Used(<<>>) \cup (IF b.free THEN {} ELSE {b})
      BY <2>6, <3>1, AppendKeeps
    <3>. QED  BY <2>6, <2>7, <3>2
  <2> HIDE DEF b
  <2>10. Good(blocks', heapPages', free', short')
    <3>1. {} \cup T = T /\ (FALSE \/ Cardinality(free) < HeapPages) = FALSE
      BY <2>3
    <3>. QED  BY <1>1, <1>2, <2>5, <2>8, <3>1
  <2>11. Hold(Used(blocks'), live')
    BY <1>1, <1>2, <2>5, <2>9 DEF Hold
  <2>12. TypeOK'
    BY <1>1, <1>2, <1>3, <1>7, <2>10 DEF HeapInv, TypeOK, Good
  <2>13. ListInv'
    BY <1>7, <2>10, <2>11 DEF ListInv
  <2>. QED  BY <1>5, <2>12, <2>13 DEF HeapInv
<1>. QED  BY <1>1, <1>6, <1>7

LEMMA PanicHasNone ==
  ASSUME HeapInv, NEW a \in live
  PROVE  status = "ready"
BY DEF HeapInv, ListInv

\* A request that is granted, or refused with nothing changed.
LEMMA GrantKeeps ==
  ASSUME HeapInv, status = "ready", NEW size \in Nat
  PROVE  LET m == Malloc(size)
             F == free \ m.taken
             H == heapPages \cup m.taken
             sh == short \/ m.short
             new == [ptr |-> m.ptr, want |-> size]
         IN  /\ Good(m.list, H, F, sh) /\ PagesBelow(H, F)
             /\ H \in SUBSET Nat /\ F \in SUBSET Nat
             /\ IsFiniteSet(H) /\ IsFiniteSet(F) /\ sh \in BOOLEAN
             /\ m.ptr = NULL => Hold(Used(m.list), live)
             /\ m.ptr # NULL => /\ Hold(Used(m.list), live \cup {new})
                                /\ m.ptr \in Nat
                                /\ \A a \in live : a.ptr # m.ptr
<1> DEFINE m == Malloc(size)
           F == free \ m.taken
           H == heapPages \cup m.taken
           sh == short \/ m.short
           new == [ptr |-> m.ptr, want |-> size]
<1>1. /\ Good(blocks, heapPages, free, short) /\ Hold(Used(blocks), live)
      /\ blocks \in Seq(Block) /\ Ordered(blocks)
      /\ free \in SUBSET Nat /\ IsFiniteSet(free)
      /\ heapPages \in SUBSET Nat /\ IsFiniteSet(heapPages)
      /\ PagesBelow(heapPages, free) /\ short \in BOOLEAN
  BY ReadyFacts
<1>2. /\ m.taken \subseteq free /\ m.short \in BOOLEAN
      /\ PagesBelow(heapPages \cup m.taken, free \ m.taken)
      /\ Good(m.list, heapPages \cup m.taken, free \ m.taken, short \/ m.short)
      /\ m.ptr = NULL => m.list = blocks
      /\ m.ptr # NULL => Placed(m, blocks, size)
  BY <1>1, MallocKeeps
<1> HIDE DEF m
<1>3. /\ H \in SUBSET Nat /\ F \in SUBSET Nat
      /\ IsFiniteSet(H) /\ IsFiniteSet(F) /\ sh \in BOOLEAN
  <2>1. IsFiniteSet(m.taken)
    BY <1>1, <1>2, FS_Subset
  <2>2. IsFiniteSet(H)
    BY <1>1, <2>1, FS_Union
  <2>3. IsFiniteSet(F)
    BY <1>1, FS_Subset
  <2>. QED  BY <1>1, <1>2, <2>2, <2>3
<1>4. ASSUME m.ptr # NULL
      PROVE  /\ Hold(Used(m.list), live \cup {new})
             /\ m.ptr \in Nat
             /\ \A a \in live : a.ptr # m.ptr
  <2>1. PICK u \in Block : /\ ~u.free /\ Ptr(u) = m.ptr /\ u.size >= size
                           /\ Used(m.list) = Used(blocks) \cup {u}
                           /\ \A v \in Used(blocks) : v.addr # u.addr
    BY <1>2, <1>4 DEF Placed
  <2>2. Used(blocks) \in SUBSET Block
    BY <1>1, UsedBlocks
  <2>3. Hold(Used(blocks) \cup {u}, live \cup {Held(u, size)})
        /\ \A a \in live : a.ptr # Ptr(u)
    BY <1>1, <2>1, <2>2, HoldMore
  <2>4. Held(u, size) = new
    BY <2>1 DEF Held
  <2>5. Ptr(u) \in Nat
    BY BlockFacts
  <2>. QED  BY <2>1, <2>3, <2>4, <2>5
<1>. QED  BY <1>1, <1>2, <1>3, <1>4 DEF m

\* What makes the invariant of a next state.
LEMMA InvFrom ==
  ASSUME status' = "ready", Good(blocks', heapPages', free', short'),
         Hold(Used(blocks'), live'), PagesBelow(heapPages', free'),
         free' \in SUBSET Nat, heapPages' \in SUBSET Nat,
         IsFiniteSet(free'), IsFiniteSet(heapPages'), short' \in BOOLEAN,
         live' \subseteq [ptr : Nat, want : Nat]
  PROVE  HeapInv'
<1>1. TypeOK'
  BY DEF TypeOK, Good
<1>2. PagesInv'
  BY DEF PagesInv
<1>3. ListInv'
  BY DEF ListInv
<1>. QED  BY <1>1, <1>2, <1>3 DEF HeapInv

LEMMA KmallocKeepsInv ==
  ASSUME HeapInv, NEW size \in Nat, kmalloc(size)
  PROVE  HeapInv'
<1> DEFINE m == Malloc(size)
           F == free \ m.taken
           H == heapPages \cup m.taken
           sh == short \/ m.short
           new == [ptr |-> m.ptr, want |-> size]
<1>1. /\ status = "ready" /\ status' = "ready" /\ blocks' = m.list
      /\ free' = F /\ heapPages' = H /\ short' = sh
      /\ live' = IF m.ptr = NULL THEN live ELSE live \cup {new}
  BY DEF kmalloc, Take
<1>2. /\ Good(m.list, H, F, sh) /\ PagesBelow(H, F)
      /\ H \in SUBSET Nat /\ F \in SUBSET Nat
      /\ IsFiniteSet(H) /\ IsFiniteSet(F) /\ sh \in BOOLEAN
      /\ m.ptr = NULL => Hold(Used(m.list), live)
      /\ m.ptr # NULL => Hold(Used(m.list), live \cup {new}) /\ m.ptr \in Nat
  BY <1>1, GrantKeeps
<1>3. live \subseteq [ptr : Nat, want : Nat]
  BY <1>1, ReadyFacts
<1> HIDE DEF m, F, H, sh
<1>4. Hold(Used(blocks'), live') /\ live' \subseteq [ptr : Nat, want : Nat]
  <2>1. CASE m.ptr = NULL
    BY <1>1, <1>2, <1>3, <2>1
  <2>2. CASE m.ptr # NULL
    <3>1. new \in [ptr : Nat, want : Nat]
      BY <1>2, <2>2
    <3> HIDE DEF new
    <3>. QED  BY <1>1, <1>2, <1>3, <2>2, <3>1
  <2>. QED  BY <2>1, <2>2
<1>. QED  BY <1>1, <1>2, <1>4, InvFrom

LEMMA KcallocKeepsInv ==
  ASSUME HeapInv, NEW a \in Arrays, kcalloc(a[1], a[2])
  PROVE  HeapInv'
<1>1. a[1] \in Nat /\ a[2] \in Nat
  BY HeapAssumption
<1>2. a[1] * a[2] \in Nat
  BY <1>1
<1>3. kmalloc(a[1] * a[2])
  BY DEF kcalloc
<1>. QED  BY <1>2, <1>3, KmallocKeepsInv

\* The block of what a caller holds.
LEMMA BlockHeld ==
  ASSUME NEW list, NEW H, NEW F \in SUBSET Nat, NEW sh, Good(list, H, F, sh),
         NEW L, Hold(Used(list), L), NEW a \in L
  PROVE  \E b \in Used(list) :
            /\ Ptr(b) = a.ptr
            /\ list[BlockOf(list, a.ptr)] = b
            /\ Good(Release(list, a.ptr), H, F, sh)
            /\ Hold(Used(Release(list, a.ptr)), L \ {a})
            /\ \A size, h : b.size >= size /\ h.ptr = a.ptr /\ h.want = size
                  => Hold(Used(list), (L \ {a}) \cup {h})
<1>1. PICK b \in Used(list) : Ptr(b) = a.ptr /\ b.size >= a.want
  BY DEF Hold
<1>2. /\ Good(Release(list, Ptr(b)), H, F, sh)
      /\ Used(Release(list, Ptr(b))) = Used(list) \ {b}
      /\ list[BlockOf(list, Ptr(b))] = b
  BY ReleaseKeeps
<1>3. /\ Used(list) \in SUBSET Block
      /\ \A c, d \in Used(list) : c.addr = d.addr => c = d
  BY UsedBlocks DEF Good
<1>4. Hold(Used(list) \ {b}, L \ {a})
  BY <1>1, <1>3, HoldLess
<1>5. ASSUME NEW size, NEW h, b.size >= size, h.ptr = a.ptr, h.want = size
      PROVE  Hold(Used(list), (L \ {a}) \cup {h})
  BY <1>1, <1>3, <1>5, HoldOther
<1>. QED  BY <1>1, <1>2, <1>4, <1>5

LEMMA KfreeKeepsInv ==
  ASSUME HeapInv, NEW a \in live, kfree(a)
  PROVE  HeapInv'
<1>1. /\ status = "ready" /\ status' = "ready" /\ blocks' = Release(blocks, a.ptr)
      /\ live' = live \ {a}
      /\ free' = free /\ heapPages' = heapPages /\ short' = short
  BY DEF kfree
<1>2. /\ Good(blocks, heapPages, free, short) /\ Hold(Used(blocks), live)
      /\ free \in SUBSET Nat /\ IsFiniteSet(free)
      /\ heapPages \in SUBSET Nat /\ IsFiniteSet(heapPages)
      /\ PagesBelow(heapPages, free) /\ short \in BOOLEAN
      /\ live \subseteq [ptr : Nat, want : Nat]
  BY <1>1, ReadyFacts
<1>3. /\ Good(Release(blocks, a.ptr), heapPages, free, short)
      /\ Hold(Used(Release(blocks, a.ptr)), live \ {a})
  BY <1>2, BlockHeld
<1>. QED  BY <1>1, <1>2, <1>3, InvFrom

LEMMA MoveKeepsInv ==
  ASSUME HeapInv, status = "ready", NEW a \in live, NEW size \in Nat, Move(a, size)
  PROVE  HeapInv'
<1> DEFINE m == Malloc(size)
           F == free \ m.taken
           H == heapPages \cup m.taken
           sh == short \/ m.short
           new == [ptr |-> m.ptr, want |-> size]
<1>1. /\ status' = "ready" /\ free' = F /\ heapPages' = H /\ short' = sh
      /\ \/ m.ptr = NULL /\ blocks' = m.list /\ live' = live
         \/ /\ m.ptr # NULL /\ blocks' = Release(m.list, a.ptr)
            /\ live' = (live \ {a}) \cup {new}
  BY DEF Move, Take
<1>2. /\ Good(m.list, H, F, sh) /\ PagesBelow(H, F)
      /\ H \in SUBSET Nat /\ F \in SUBSET Nat
      /\ IsFiniteSet(H) /\ IsFiniteSet(F) /\ sh \in BOOLEAN
      /\ m.ptr = NULL => Hold(Used(m.list), live)
      /\ m.ptr # NULL => /\ Hold(Used(m.list), live \cup {new})
                         /\ m.ptr \in Nat
                         /\ \A c \in live : c.ptr # m.ptr
  BY GrantKeeps
<1>3. live \subseteq [ptr : Nat, want : Nat]
  BY ReadyFacts
<1> HIDE DEF m, F, H, sh
<1>4. CASE m.ptr = NULL /\ blocks' = m.list /\ live' = live
  BY <1>1, <1>2, <1>3, <1>4, InvFrom
<1>5. ASSUME m.ptr # NULL, blocks' = Release(m.list, a.ptr),
             live' = (live \ {a}) \cup {new}
      PROVE  HeapInv'
  <2>1. new \in [ptr : Nat, want : Nat] /\ new.ptr = m.ptr
    BY <1>2, <1>5
  <2>2. Hold(Used(m.list), live \cup {new}) /\ new.ptr # a.ptr
    BY <1>2, <1>5, <2>1
  <2> HIDE DEF new
  <2>3. /\ Good(Release(m.list, a.ptr), H, F, sh)
        /\ Hold(Used(Release(m.list, a.ptr)), (live \cup {new}) \ {a})
    <3>1. a \in live \cup {new}
      OBVIOUS
    <3>. QED  BY <1>2, <2>2, <3>1, BlockHeld
  <2>4. (live \cup {new}) \ {a} = live'
    BY <1>5, <2>2
  <2>5. Hold(Used(blocks'), live')
    BY <1>5, <2>3, <2>4
  <2>6. Good(blocks', heapPages', free', short')
    BY <1>1, <1>5, <2>3
  <2>7. live' \subseteq [ptr : Nat, want : Nat]
    BY <1>3, <1>5, <2>1
  <2>. QED  BY <1>1, <1>2, <2>5, <2>6, <2>7, InvFrom
<1>. QED  BY <1>1, <1>4, <1>5

LEMMA KreallocKeepsInv ==
  ASSUME HeapInv, NEW a \in live, NEW size \in Nat, krealloc(a, size)
  PROVE  HeapInv'
<1>1. status = "ready"
  BY DEF krealloc
<1>2. CASE size = 0
  <2>1. kfree(a)
    BY <1>2 DEF krealloc
  <2>. QED  BY <2>1, KfreeKeepsInv
<1> DEFINE h == [a EXCEPT !.want = size]
<1>3. ASSUME blocks[BlockOf(blocks, a.ptr)].size >= size,
             status' = status, blocks' = blocks, free' = free,
             heapPages' = heapPages, short' = short,
             live' = (live \ {a}) \cup {h}
      PROVE  HeapInv'
  <2>1. /\ Good(blocks, heapPages, free, short) /\ Hold(Used(blocks), live)
        /\ free \in SUBSET Nat /\ IsFiniteSet(free)
        /\ heapPages \in SUBSET Nat /\ IsFiniteSet(heapPages)
        /\ PagesBelow(heapPages, free) /\ short \in BOOLEAN
        /\ live \subseteq [ptr : Nat, want : Nat]
    BY <1>1, ReadyFacts
  <2>2. h \in [ptr : Nat, want : Nat] /\ h.ptr = a.ptr /\ h.want = size
    BY <2>1
  <2> HIDE DEF h
  <2>3. Hold(Used(blocks), (live \ {a}) \cup {h})
    BY <1>3, <2>1, <2>2, BlockHeld
  <2>4. Hold(Used(blocks'), live') /\ live' \subseteq [ptr : Nat, want : Nat]
    BY <1>3, <2>1, <2>2, <2>3
  <2>5. Good(blocks', heapPages', free', short')
    BY <1>3, <2>1
  <2>. QED  BY <1>1, <1>3, <2>1, <2>4, <2>5, InvFrom
<1>4. CASE Move(a, size)
  BY <1>1, <1>4, MoveKeepsInv
<1>. QED  BY <1>2, <1>3, <1>4 DEF krealloc

LEMMA OtherAllocKeepsInv == HeapInv /\ OtherAlloc => HeapInv'
<1> SUFFICES ASSUME HeapInv, OtherAlloc PROVE HeapInv'
  OBVIOUS
<1>1. /\ status \in {"boot", "ready"} /\ free' = free \ {Min(free)}
      /\ status' = status /\ blocks' = blocks /\ heapPages' = heapPages
      /\ live' = live /\ short' = short
  BY HeapAssumption DEF OtherAlloc
<1>2. IsFiniteSet(free') /\ free' \subseteq free
  BY <1>1, FS_Subset DEF HeapInv, PagesInv
<1>3. TypeOK'
  BY <1>1, <1>2 DEF HeapInv, TypeOK
<1>4. PagesInv'
  BY <1>1, <1>2 DEF HeapInv, PagesInv, PagesBelow
<1>5. ListInv'
  <2>1. Good(blocks, heapPages, free, short) => Good(blocks', heapPages', free', short')
    BY <1>1, <1>2 DEF Good, Clear
  <2>. QED  BY <1>1, <2>1 DEF HeapInv, ListInv
<1>. QED  BY <1>3, <1>4, <1>5 DEF HeapInv

LEMMA HeapInvariance == Spec => []HeapInv
<1>1. Init => HeapInv
  BY InitInv
<1>2. HeapInv /\ [Next]_vars => HeapInv'
  <2> SUFFICES ASSUME HeapInv, [Next]_vars PROVE HeapInv'
    OBVIOUS
  <2>1. CASE heap_init
    BY <2>1, HeapInitKeepsInv
  <2>2. ASSUME NEW size \in Sizes, kmalloc(size) PROVE HeapInv'
    BY <2>2, HeapAssumption, KmallocKeepsInv
  <2>3. ASSUME NEW a \in Arrays, kcalloc(a[1], a[2]) PROVE HeapInv'
    BY <2>3, KcallocKeepsInv
  <2>4. ASSUME NEW a \in live, kfree(a) PROVE HeapInv'
    BY <2>4, KfreeKeepsInv
  <2>5. ASSUME NEW a \in live, NEW size \in Sizes, krealloc(a, size) PROVE HeapInv'
    BY <2>5, HeapAssumption, KreallocKeepsInv
  <2>6. CASE OtherAlloc
    BY <2>6, OtherAllocKeepsInv
  <2>7. CASE UNCHANGED vars
    BY <2>7 DEF vars, HeapInv, TypeOK, PagesInv, ListInv
  <2>. QED  BY <2>1, <2>2, <2>3, <2>4, <2>5, <2>6, <2>7 DEF Next
<1>. QED  BY <1>1, <1>2, PTL DEF Spec

----------------------------------------------------------------------------
(***************************************************************************)
(* heap_get_free and heap_get_used: with a header for every block they add *)
(* up to what the blocks weigh.                                            *)
(***************************************************************************)
Counted(b, isFree) == IF b.free = isFree THEN b.size ELSE 0

Total(list, isFree, n, s) ==
    s = [i \in 0 .. n |-> IF i = 0 THEN 0 ELSE s[i - 1] + Counted(list[i], isFree)]

LEMMA TotalExists ==
  ASSUME NEW list, NEW isFree, NEW n \in Nat
  PROVE  \E s : Total(list, isFree, n, s)
<1> DEFINE S == {k \in 0 .. n : \E s : Total(list, isFree, k, s)}
<1>1. 0 \in S
  <2>1. Total(list, isFree, 0, [i \in 0 .. 0 |-> 0])
    BY DEF Total
  <2>. QED  BY <2>1
<1>2. ASSUME NEW k \in 0 .. n, k \in S, k < n PROVE k + 1 \in S
  <2>1. PICK s : Total(list, isFree, k, s)
    BY <1>2
  <2> DEFINE v == [i \in 0 .. k + 1 |->
                      IF i = k + 1 THEN s[k] + Counted(list[i], isFree) ELSE s[i]]
  <2>2. ASSUME NEW i \in 0 .. k + 1
        PROVE  v[i] = IF i = 0 THEN 0 ELSE v[i - 1] + Counted(list[i], isFree)
    <3>1. CASE i = k + 1
      <4>1. i # 0 /\ i - 1 = k /\ k \in 0 .. k + 1 /\ k # k + 1 /\ v[k] = s[k]
        BY <1>2, <3>1
      <4>2. v[i] = s[k] + Counted(list[i], isFree)
        BY <3>1
      <4> HIDE DEF v
      <4>. QED  BY <4>1, <4>2
    <3>2. CASE i # k + 1
      <4>1. i \in 0 .. k /\ v[i] = s[i] /\ (i # 0 => i - 1 \in 0 .. k + 1 /\ v[i - 1] = s[i - 1])
        BY <1>2, <3>2
      <4>2. s[i] = IF i = 0 THEN 0 ELSE s[i - 1] + Counted(list[i], isFree)
        BY <2>1, <4>1 DEF Total
      <4> HIDE DEF v
      <4>. QED  BY <4>1, <4>2
    <3>. QED  BY <3>1, <3>2
  <2>3. Total(list, isFree, k + 1, v)
    BY <2>2 DEF Total
  <2>. QED  BY <1>2, <2>3
<1>3. 0 .. n \subseteq S
  <2> HIDE DEF S
  <2>. QED  BY <1>1, <1>2, UpTo
<1>. QED  BY <1>3

LEMMA BytesIs ==
  ASSUME NEW list, Len(list) \in Nat, NEW isFree
  PROVE  \E s : /\ s[0] = 0
                /\ \A i \in 1 .. Len(list) : s[i] = s[i - 1] + Counted(list[i], isFree)
                /\ Bytes(list, isFree) = s[Len(list)]
<1> DEFINE n == Len(list)
           s == CHOOSE w : Total(list, isFree, n, w)
<1>1. Total(list, isFree, n, s)
  BY TotalExists
<1>2. Bytes(list, isFree) = s[n]
  BY DEF Bytes, Total, Counted
<1> HIDE DEF s
<1>3. \A i \in 0 .. n : s[i] = IF i = 0 THEN 0 ELSE s[i - 1] + Counted(list[i], isFree)
  <2>1. s = [i \in 0 .. n |-> IF i = 0 THEN 0 ELSE s[i - 1] + Counted(list[i], isFree)]
    BY <1>1 DEF Total
  <2>. QED  BY <2>1, Zenon
<1>4. 0 \in 0 .. n /\ \A i \in 1 .. n : i \in 0 .. n /\ i # 0
  OBVIOUS
<1>5. s[0] = 0 /\ \A i \in 1 .. n : s[i] = s[i - 1] + Counted(list[i], isFree)
  BY <1>3, <1>4
<1>. QED  BY <1>2, <1>5

LEMMA BytesAddUp ==
  ASSUME NEW list \in Seq(Block), NEW N, Weighs(list, N)
  PROVE  Bytes(list, TRUE) + Bytes(list, FALSE) + HDR * Len(list) = N
<1> DEFINE n == Len(list)
<1>1. n \in Nat /\ HDR \in Nat
  BY ElementIs, HeapAssumption
<1>2. PICK s : /\ s[0] = 0
               /\ \A i \in 1 .. n : s[i] = s[i - 1] + Counted(list[i], TRUE)
               /\ Bytes(list, TRUE) = s[n]
  BY <1>1, BytesIs
<1>3. PICK t : /\ t[0] = 0
               /\ \A i \in 1 .. n : t[i] = t[i - 1] + Counted(list[i], FALSE)
               /\ Bytes(list, FALSE) = t[n]
  BY <1>1, BytesIs
<1>4. PICK w : /\ w[0] = 0 /\ w[n] = N
               /\ \A i \in 0 .. n : w[i] \in Nat
               /\ \A i \in 1 .. n : w[i] = w[i - 1] + HDR + list[i].size
  BY DEF Weighs
<1> DEFINE S == {k \in 0 .. n : s[k] \in Nat /\ t[k] \in Nat /\ s[k] + t[k] + HDR * k = w[k]}
<1>5. 0 \in S
  BY <1>1, <1>2, <1>3, <1>4
<1>6. ASSUME NEW k \in 0 .. n, k \in S, k < n PROVE k + 1 \in S
  <2>1. PICK i \in 1 .. n : i = k + 1 /\ i - 1 = k
    <3>1. k + 1 \in 1 .. n /\ k + 1 - 1 = k
      BY <1>1, <1>6
    <3>. QED  BY <3>1
  <2>2. list[i].size \in Nat /\ list[i].free \in BOOLEAN
    BY ElementIs, BlockFacts
  <2> DEFINE x == list[i].size
             p == Counted(list[i], TRUE)
             q == Counted(list[i], FALSE)
  <2>3. p \in Nat /\ q \in Nat /\ p + q = x
    BY <2>2 DEF Counted
  <2>4. s[i] = s[k] + p /\ t[i] = t[k] + q /\ w[i] = w[k] + HDR + x
    BY <1>2, <1>3, <1>4, <2>1
  <2>5. s[k] \in Nat /\ t[k] \in Nat /\ s[k] + t[k] + HDR * k = w[k]
    BY <1>6
  <2>6. x \in Nat
    BY <2>2
  <2>7. HDR * i = HDR * k + HDR /\ HDR * k \in Nat
    BY <1>1, <2>1
  <2> HIDE DEF x, p, q
  <2>8. s[i] \in Nat /\ t[i] \in Nat
    BY <2>3, <2>4, <2>5
  <2>9. s[i] + t[i] + HDR * i = w[i]
    <3> DEFINE y == HDR * k
               z == HDR * i
    <3>1. y \in Nat /\ z = y + HDR /\ s[k] + t[k] + y = w[k]
      BY <2>5, <2>7
    <3> HIDE DEF y, z
    <3>2. s[k] + p + (t[k] + q) + (y + HDR) = s[k] + t[k] + y + HDR + (p + q)
      <4> DEFINE a == s[k]
                 b == t[k]
      <4>1. a \in Nat /\ b \in Nat
        BY <2>5
      <4> HIDE DEF a, b
      <4>2. a + p + (b + q) + (y + HDR) = a + b + y + HDR + (p + q)
        BY <1>1, <2>3, <3>1, <4>1
      <4>. QED  BY <4>2 DEF a, b
    <3>3. s[i] + t[i] + z = w[k] + HDR + x
      BY <2>3, <2>4, <3>1, <3>2
    <3>. QED  BY <2>4, <3>3 DEF z
  <2>. QED  BY <2>1, <2>8, <2>9
<1>7. 0 .. n \subseteq S
  <2> HIDE DEF S, n
  <2>. QED  BY <1>1, <1>5, <1>6, UpTo
<1>8. n \in S
  BY <1>1, <1>7
<1>. QED  BY <1>2, <1>3, <1>4, <1>8

----------------------------------------------------------------------------
(***************************************************************************)
(* Every variable of the heap keeps its type: addresses and sizes stay     *)
(* natural numbers, whatever is split, grown, merged or moved.             *)
(***************************************************************************)
THEOREM HeapTypeCorrect == Spec => []TypeOK
<1>1. HeapInv => TypeOK
  BY DEF HeapInv
<1>. QED  BY <1>1, HeapInvariance, PTL

(***************************************************************************)
(* kmalloc, kfree and krealloc keep the used blocks and what the callers   *)
(* hold one to one, and no block smaller than its holder asked for.        *)
(***************************************************************************)
THEOREM HoldersCorrect == Spec => []HoldersMatchBlocks
<1>1. HeapInv => HoldersMatchBlocks
  <2> SUFFICES ASSUME HeapInv PROVE HoldersMatchBlocks
    OBVIOUS
  <2>1. blocks \in Seq(Block) /\ Hold(Used(blocks), live)
    BY DEF HeapInv, TypeOK, ListInv, Hold, Used
  <2>2. DOMAIN blocks = 1 .. Len(blocks)
    BY <2>1, ElementIs
  <2>3. ASSUME NEW a \in live
        PROVE  \E i \in DOMAIN blocks :
                  Ptr(blocks[i]) = a.ptr /\ ~blocks[i].free /\ blocks[i].size >= a.want
    <3>1. PICK b \in Used(blocks) : Ptr(b) = a.ptr /\ b.size >= a.want
      BY <2>1 DEF Hold
    <3>2. PICK i \in 1 .. Len(blocks) : b = blocks[i] /\ ~blocks[i].free
      BY DEF Used
    <3>. QED  BY <2>2, <3>1, <3>2
  <2>4. ASSUME NEW i \in DOMAIN blocks, ~blocks[i].free
        PROVE  Cardinality({a \in live : a.ptr = Ptr(blocks[i])}) = 1
    <3>1. blocks[i] \in Used(blocks)
      BY <2>2, <2>4 DEF Used
    <3>2. PICK a \in live : a.ptr = Ptr(blocks[i])
      BY <2>1, <3>1 DEF Hold
    <3>3. {c \in live : c.ptr = Ptr(blocks[i])} = {a}
      BY <2>1, <3>2 DEF Hold
    <3>. QED  BY <3>3, FS_Singleton
  <2>. QED  BY <2>3, <2>4 DEF HoldersMatchBlocks
<1>. QED  BY <1>1, HeapInvariance, PTL

(***************************************************************************)
(* The one pass of heap_coalesce in kfree leaves no two neighbours free,   *)
(* and kmalloc makes none.                                                 *)
(***************************************************************************)
THEOREM CoalescingComplete == Spec => []NoFreeNeighbours
<1>1. HeapInv => NoFreeNeighbours
  <2> SUFFICES ASSUME HeapInv PROVE NoFreeNeighbours
    OBVIOUS
  <2>1. CASE status = "ready"
    BY <2>1 DEF HeapInv, ListInv, Good, NoPair, NoFreeNeighbours
  <2>2. CASE status # "ready"
    <3>1. blocks = <<>>
      BY <2>2 DEF HeapInv, ListInv
    <3>. QED  BY <3>1 DEF NoFreeNeighbours
  <2>. QED  BY <2>1, <2>2
<1>. QED  BY <1>1, HeapInvariance, PTL

(***************************************************************************)
(* While every expansion has had its pages, the sizes that heap_get_free   *)
(* and heap_get_used count and the headers are all the bytes of the pages  *)
(* that the heap has been given.                                           *)
(***************************************************************************)
THEOREM BytesCorrect == Spec => []NoByteLost
<1>1. HeapInv => NoByteLost
  <2> SUFFICES ASSUME HeapInv, ~short
               PROVE  heap_get_free + heap_get_used + HDR * Len(blocks)
                        = IF status = "ready" THEN PAGE_SIZE * Cardinality(heapPages) ELSE 0
    BY DEF NoByteLost
  <2>1. blocks \in Seq(Block)
    BY DEF HeapInv, TypeOK
  <2>2. CASE status = "ready"
    <3>1. Weighs(blocks, PAGE_SIZE * Cardinality(heapPages))
      BY <2>2 DEF HeapInv, ListInv, Good
    <3>2. Bytes(blocks, TRUE) + Bytes(blocks, FALSE) + HDR * Len(blocks)
            = PAGE_SIZE * Cardinality(heapPages)
      BY <2>1, <3>1, BytesAddUp
    <3>. QED  BY <2>2, <3>2 DEF heap_get_free, heap_get_used
  <2>3. CASE status # "ready"
    <3>1. blocks = <<>>
      BY <2>3 DEF HeapInv, ListInv
    <3>2. Weighs(blocks, 0)
      <4>1. Len(<<>>) = 0
        OBVIOUS
      <4> DEFINE s == [i \in {0} |-> 0]
      <4>2. s[0] = 0 /\ (\A i \in 0 .. 0 : s[i] \in Nat) /\ 1 .. 0 = {}
        OBVIOUS
      <4> HIDE DEF s
      <4>. QED  BY <3>1, <4>1, <4>2 DEF Weighs
    <3>3. Bytes(blocks, TRUE) + Bytes(blocks, FALSE) + HDR * Len(blocks) = 0
      BY <2>1, <3>2, BytesAddUp
    <3>. QED  BY <2>3, <3>3 DEF heap_get_free, heap_get_used
  <2>. QED  BY <2>2, <2>3
<1>. QED  BY <1>1, HeapInvariance, PTL

(***************************************************************************)
(* Blocks never overlap, and as long as the pages of the heap follow one   *)
(* another and no expansion was cut short no block reaches outside them,   *)
(* whoever else takes pages in between.                                    *)
(***************************************************************************)
THEOREM PlacementCorrect == Spec => []BlocksPlaced
<1>1. HeapInv => BlocksPlaced
  <2> SUFFICES ASSUME HeapInv PROVE BlocksPlaced
    OBVIOUS
  <2>1. blocks \in Seq(Block)
    BY DEF HeapInv, TypeOK
  <2>2. DOMAIN blocks = 1 .. Len(blocks)
    BY <2>1, ElementIs
  <2>3. CASE status = "ready"
    <3>1. Good(blocks, heapPages, free, short)
      BY <2>3, ReadyFacts
    <3>2. ASSUME NEW i \in 1 .. Len(blocks), NEW j \in 1 .. Len(blocks), i # j
          PROVE  \/ BlockEnd(blocks[i]) <= blocks[j].addr
                 \/ BlockEnd(blocks[j]) <= blocks[i].addr
      <4>1. i < j \/ j < i
        BY <3>2
      <4>. QED  BY <3>1, <4>1 DEF Good, Ordered
    <3>3. Sound => Inside(blocks, heapPages)
      BY <3>1 DEF Sound, Contiguous, Joined, Good
    <3>. QED  BY <2>2, <3>2, <3>3 DEF BlocksPlaced, Inside, PagesOf
  <2>4. CASE status # "ready"
    <3>1. blocks = <<>>
      BY <2>4 DEF HeapInv, ListInv
    <3>2. DOMAIN blocks = {}
      BY <3>1
    <3>. QED  BY <3>2 DEF BlocksPlaced
  <2>. QED  BY <2>3, <2>4
<1>. QED  BY <1>1, HeapInvariance, PTL
=============================================================================
