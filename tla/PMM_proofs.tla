----------------------------- MODULE PMM_proofs -----------------------------
(***************************************************************************)
(* Proofs about the physical memory manager, for every page size, word     *)
(* size, kernel image and Multiboot map that meet the assumptions of PMM.  *)
(***************************************************************************)
EXTENDS PMM, FiniteSetTheorems, WellFoundedInduction, TLAPS

(***************************************************************************)
(* A nonempty set of naturals has a least element.                         *)
(***************************************************************************)
LEMMA LeastElement ==
  ASSUME NEW S \in SUBSET Nat, S # {}
  PROVE  \E x \in S : \A y \in S : x <= y
<1>1. PICK x \in S : \A y \in S : ~ (<<y, x>> \in OpToRel(<, Nat))
  BY NatLessThanWellFounded, WFMin, S # {}
<1>2. \A y \in S : ~ (y < x)
  BY <1>1 DEF OpToRel
<1>. QED  BY <1>2

(***************************************************************************)
(* The words of the bitmap have a bit for every page.                      *)
(***************************************************************************)
LEMMA BitmapCovers ==
  ASSUME NEW n \in Nat
  PROVE  /\ bitmap_size_of(n) \in Nat
         /\ bitmap_size_of(n) * WordBits \in Nat
         /\ n <= bitmap_size_of(n) * WordBits
BY GeometryAssumption, SMTT(30) DEF bitmap_size_of

(***************************************************************************)
(* What the assumptions say about the boot record in use.                  *)
(***************************************************************************)
LEMMA BootFacts ==
  ASSUME mbi \in BootInfos
  PROVE  /\ total_pages_of(mbi) \in Nat
         /\ \A r \in ReservedRanges :
                /\ ReserveFirst(r, total_pages_of(mbi)) \in Nat
                /\ ReserveLast(r, total_pages_of(mbi)) \in Nat
                /\ ReserveLast(r, total_pages_of(mbi)) < total_pages_of(mbi)
         /\ DOMAIN mbi.mmap = 1 .. Len(mbi.mmap)
         /\ \A i \in DOMAIN mbi.mmap :
                PAGE_INDEX(Low(mbi.mmap[i].addr)) \in Nat
<1>1. mbi.mmap \in Seq([type : Nat, addr : Nat, len : Nat])
  BY GeometryAssumption DEF BootInfo
<1>2. ASSUME NEW i \in DOMAIN mbi.mmap
      PROVE  PAGE_INDEX(Low(mbi.mmap[i].addr)) \in Nat
  <2> DEFINE Entry == [type : Nat, addr : Nat, len : Nat]
  <2>3. ASSUME NEW R, NEW s \in Seq(R), NEW j \in DOMAIN s
        PROVE  s[j] \in R
    OBVIOUS
  <2>4. mbi.mmap[i] \in Entry
    <3> HIDE DEF Entry
    <3>. QED  BY <1>1, <2>3 DEF Entry
  <2>1. mbi.mmap[i].addr \in Nat
    BY <2>4
  <2>2. Low(mbi.mmap[i].addr) \in Nat
    BY <2>1, GeometryAssumption DEF Low
  <2>. QED  BY <2>2, GeometryAssumption DEF PAGE_INDEX
<1>. QED  BY <1>1, <1>2, KernelFitsAssumption

(***************************************************************************)
(* Clearing the bit of a page adds one to the number of free pages,        *)
(* setting it takes one away, and there are finitely many.                 *)
(***************************************************************************)
LEMMA FreeSetChange ==
  ASSUME NEW n \in Nat, NEW S, NEW x \in 0 .. n - 1
  PROVE  /\ Cardinality((0 .. n - 1) \ S) \in Nat
         /\ x \in S => Cardinality((0 .. n - 1) \ (S \ {x}))
                          = Cardinality((0 .. n - 1) \ S) + 1
         /\ x \notin S => /\ Cardinality((0 .. n - 1) \ (S \cup {x}))
                                = Cardinality((0 .. n - 1) \ S) - 1
                          /\ Cardinality((0 .. n - 1) \ S) > 0
<1> DEFINE F == (0 .. n - 1) \ S
<1>1. IsFiniteSet(F)
  BY FS_Interval, FS_Subset, 0 \in Int, n - 1 \in Int
<1>2. Cardinality(F) \in Nat
  BY <1>1, FS_CardinalityType
<1>3. ASSUME x \in S
      PROVE  Cardinality((0 .. n - 1) \ (S \ {x})) = Cardinality(F) + 1
  <2>1. (0 .. n - 1) \ (S \ {x}) = F \cup {x} /\ x \notin F
    BY <1>3
  <2>. HIDE DEF F
  <2>. QED  BY <2>1, <1>1, FS_AddElement
<1>4. ASSUME x \notin S
      PROVE  /\ Cardinality((0 .. n - 1) \ (S \cup {x})) = Cardinality(F) - 1
             /\ Cardinality(F) > 0
  <2>1. (0 .. n - 1) \ (S \cup {x}) = F \ {x} /\ x \in F
    BY <1>4
  <2>. HIDE DEF F
  <2>2. Cardinality(F \ {x}) = Cardinality(F) - 1
    BY <2>1, <1>1, FS_RemoveElement
  <2>3. Cardinality(F) # 0
    BY <2>1, <1>1, FS_EmptySet
  <2>4. Cardinality(F) > 0
    BY <2>3, <1>2
  <2>. QED  BY <2>1, <2>2, <2>4, Zenon
<1>. QED  BY <1>2, <1>3, <1>4

LEMMA InitIInv == Init => IInv
<1> SUFFICES ASSUME Init PROVE IInv
  OBVIOUS
<1>1. TypeOK
  BY DEF Init, TypeOK, Phases
<1>2. FreeCountExact
  <2>1. (0 .. total_pages - 1) \ bitmap = {}
    BY DEF Init
  <2>. QED  BY <2>1, FS_EmptySet DEF Init, FreeCountExact
<1>3. HeldAreSafe
  BY DEF Init, HeldAreSafe
<1>4. LoopInv
  BY DEF Init, LoopInv, ReservedRanges
<1>. QED  BY <1>1, <1>2, <1>3, <1>4 DEF IInv

(***************************************************************************)
(* Before it starts, pmm_init has nothing; afterwards, every reserved page *)
(* is a page that the bitmap describes.                                    *)
(***************************************************************************)
LEMMA RunningFacts ==
  ASSUME IInv, phase # "boot"
  PROVE  /\ total_pages = total_pages_of(mbi)
         /\ 0 .. total_pages - 1 \subseteq bits
         /\ bits \subseteq Nat
         /\ \A r \in ReservedRanges :
                /\ ReserveFirst(r, total_pages) \in Nat
                /\ ReserveLast(r, total_pages) \in Nat
                /\ ReserveLast(r, total_pages) < total_pages
<1>1. total_pages = total_pages_of(mbi) /\ total_pages \in Nat
  BY DEF IInv, LoopInv, TypeOK
<1>2. /\ bitmap_size_of(total_pages) * WordBits \in Nat
      /\ total_pages <= bitmap_size_of(total_pages) * WordBits
  BY <1>1, BitmapCovers
<1>3. 0 .. total_pages - 1 \subseteq bits /\ bits \subseteq Nat
  BY <1>1, <1>2 DEF bits
<1>. QED  BY <1>1, <1>3, BootFacts DEF IInv, TypeOK

LEMMA SizeMemoryIInv == IInv /\ SizeMemory => IInv'
<1> SUFFICES ASSUME IInv, SizeMemory PROVE IInv'
  OBVIOUS
<1> DEFINE n == total_pages_of(mbi)
<1>1. n \in Nat /\ mbi \in BootInfos /\ entry \in Nat /\ p \in Nat
  BY BootFacts DEF IInv, TypeOK
<1>2. /\ bitmap_size_of(n) * WordBits \in Nat
      /\ n <= bitmap_size_of(n) * WordBits
  BY <1>1, BitmapCovers
<1>3. /\ total_pages' = n /\ bitmap' = 0 .. bitmap_size_of(n) * WordBits - 1
      /\ free_pages' = 0 /\ held' = {} /\ mbi' = mbi /\ entry' = entry
      /\ phase' \in {"mmap", "fallback"} /\ p' \in Nat
  <2>1. held = {} /\ PAGE_INDEX(LowMemory) \in Nat
    BY GeometryAssumption DEF IInv, LoopInv, SizeMemory, PAGE_INDEX
  <2>. QED  BY <2>1 DEF SizeMemory, AllBitsSet
<1>4. bits' = 0 .. bitmap_size_of(n) * WordBits - 1
  BY <1>3 DEF bits
<1>5. 0 .. n - 1 \subseteq bitmap' /\ bitmap' = bits'
  BY <1>1, <1>2, <1>3, <1>4
<1> HIDE DEF n
<1>6. TypeOK'
  BY <1>1, <1>3, <1>5 DEF TypeOK, Phases
<1>7. FreeCountExact'
  <2>1. (0 .. n - 1) \ bitmap' = {}
    BY <1>5
  <2>. QED  BY <2>1, <1>3, FS_EmptySet DEF FreeCountExact
<1>8. HeldAreSafe'
  BY <1>3 DEF HeldAreSafe
<1>9. LoopInv'
  <2>1. total_pages' = total_pages_of(mbi') 
    BY <1>3 DEF n
  <2>2. phase' = "fallback" => p' .. total_pages' - 1 \subseteq bitmap'
    BY <1>1, <1>3, <1>5
  <2>. QED  BY <2>1, <2>2, <1>3, <1>5 DEF LoopInv, ReservedRanges
<1>. QED  BY <1>6, <1>7, <1>8, <1>9 DEF IInv

LEMMA FreeRegionPageIInv == IInv /\ FreeRegionPage => IInv'
<1> SUFFICES ASSUME IInv, FreeRegionPage PROVE IInv'
  OBVIOUS
<1> DEFINE page == PAGE_INDEX(Low(mbi.mmap[entry].addr)) + p
<1>1. /\ phase = "mmap" /\ phase' = "mmap" /\ held = {} /\ held' = {}
      /\ mbi' = mbi /\ entry' = entry /\ total_pages' = total_pages
      /\ p' = p + 1 /\ p \in Nat
  BY DEF IInv, LoopInv, TypeOK, FreeRegionPage
<1>2. page \in Nat /\ total_pages \in Nat /\ free_pages \in Nat
  BY BootFacts DEF IInv, TypeOK, FreeRegionPage
<1>3. IF page < total_pages /\ page \in bitmap
      THEN bitmap' = bitmap \ {page} /\ free_pages' = free_pages + 1
      ELSE bitmap' = bitmap /\ free_pages' = free_pages
  BY DEF FreeRegionPage, bitmap_test, bitmap_clear
<1> HIDE DEF page
<1>4. TypeOK'
  <2>1. bits' = bits /\ bitmap' \subseteq bitmap
    BY <1>1, <1>3 DEF bits
  <2>2. free_pages' \in Nat
    BY <1>2, <1>3
  <2>. QED  BY <1>1, <2>1, <2>2 DEF IInv, TypeOK
<1>5. FreeCountExact'
  <2>1. CASE page < total_pages /\ page \in bitmap
    <3>1. page \in 0 .. total_pages - 1
      BY <1>2, <2>1
    <3>. QED  BY <1>1, <1>2, <1>3, <2>1, <3>1, FreeSetChange
              DEF IInv, FreeCountExact
  <2>2. CASE ~ (page < total_pages /\ page \in bitmap)
    BY <1>1, <1>3, <2>2 DEF IInv, FreeCountExact
  <2>. QED  BY <2>1, <2>2
<1>6. HeldAreSafe'
  BY <1>1 DEF HeldAreSafe
<1>7. LoopInv'
  BY <1>1, <1>2, <1>3 DEF IInv, LoopInv, bits, ReservedRanges
<1>. QED  BY <1>4, <1>5, <1>6, <1>7 DEF IInv

LEMMA FreeFallbackPageIInv == IInv /\ FreeFallbackPage => IInv'
<1> SUFFICES ASSUME IInv, FreeFallbackPage PROVE IInv'
  OBVIOUS
<1>1. /\ phase = "fallback" /\ phase' = "fallback" /\ held = {} /\ held' = {}
      /\ mbi' = mbi /\ entry' = entry /\ total_pages' = total_pages
      /\ p' = p + 1 /\ p \in Nat /\ p < total_pages
      /\ bitmap' = bitmap \ {p} /\ free_pages' = free_pages + 1
      /\ total_pages \in Nat /\ free_pages \in Nat
  BY DEF IInv, LoopInv, TypeOK, FreeFallbackPage, bitmap_clear
<1>2. p \in bitmap /\ p \in 0 .. total_pages - 1
  BY <1>1 DEF IInv, LoopInv
<1>3. TypeOK'
  BY <1>1 DEF IInv, TypeOK, bits
<1>4. FreeCountExact'
  BY <1>1, <1>2, FreeSetChange DEF IInv, FreeCountExact
<1>5. HeldAreSafe'
  BY <1>1 DEF HeldAreSafe
<1>6. LoopInv'
  BY <1>1, <1>2 DEF IInv, LoopInv, bits, ReservedRanges
<1>. QED  BY <1>3, <1>4, <1>5, <1>6 DEF IInv

LEMMA CursorStepIInv == IInv /\ (NextRegion \/ EndFreeing) => IInv'
<1> SUFFICES ASSUME IInv, NextRegion \/ EndFreeing PROVE IInv'
  OBVIOUS
<1>1. /\ held = {} /\ held' = {} /\ phase # "boot"
      /\ mbi' = mbi /\ total_pages' = total_pages /\ bitmap' = bitmap
      /\ free_pages' = free_pages /\ entry' \in Nat /\ p' = 0
      /\ phase' \in {"mmap", "null"}
  <2>0. phase # "ready" /\ phase # "boot" => held = {}
    BY DEF IInv, LoopInv
  <2>1. CASE NextRegion
    BY <2>0, <2>1, entry \in Nat DEF IInv, TypeOK, NextRegion
  <2>2. CASE EndFreeing
    <3>1. /\ phase \in {"mmap", "fallback"} /\ phase' = "null" /\ p' = 0
          /\ UNCHANGED <<mbi, entry, bitmap, total_pages, free_pages, held>>
      BY <2>2 DEF EndFreeing
    <3>. QED  BY <2>0, <3>1 DEF IInv, TypeOK
  <2>. QED  BY <2>1, <2>2
<1>2. ReserveFirst("null", total_pages) \in Nat
  BY <1>1, RunningFacts DEF ReservedRanges
<1>3. TypeOK'
  BY <1>1 DEF IInv, TypeOK, bits, Phases
<1>4. FreeCountExact'
  BY <1>1 DEF IInv, FreeCountExact
<1>5. HeldAreSafe'
  BY <1>1 DEF HeldAreSafe
<1>6. LoopInv'
  BY <1>1, <1>2 DEF IInv, LoopInv, bits, ReservedRanges
<1>. QED  BY <1>3, <1>4, <1>5, <1>6 DEF IInv

LEMMA ReservePageIInv == IInv /\ ReservePage => IInv'
<1> SUFFICES ASSUME IInv, ReservePage PROVE IInv'
  OBVIOUS
<1>1. /\ phase \in ReservedRanges /\ phase' = phase /\ held = {} /\ held' = {}
      /\ mbi' = mbi /\ entry' = entry /\ total_pages' = total_pages
      /\ p' = p + 1 /\ p \in Nat /\ p <= ReserveLast(phase, total_pages)
      /\ total_pages \in Nat /\ free_pages \in Nat
  BY DEF IInv, LoopInv, TypeOK, ReservePage, ReservedRanges
<1>2. phase # "boot" /\ phase # "ready"
  BY <1>1 DEF ReservedRanges
<1>3. p \in 0 .. total_pages - 1 /\ p \in bits
  BY <1>1, <1>2, RunningFacts
<1>4. /\ bitmap' = bitmap \cup {p}
      /\ free_pages' = IF p \in bitmap THEN free_pages
                       ELSE Decrement(free_pages)
  BY DEF ReservePage, bitmap_test, bitmap_set
<1>5. TypeOK'
  BY <1>1, <1>3, <1>4 DEF IInv, TypeOK, bits, Decrement
<1>6. FreeCountExact'
  <2>1. CASE p \in bitmap
    BY <1>1, <1>4, <2>1, bitmap' = bitmap DEF IInv, FreeCountExact
  <2>2. CASE p \notin bitmap
    BY <1>1, <1>3, <1>4, <2>2, FreeSetChange
       DEF IInv, FreeCountExact, Decrement
  <2>. QED  BY <2>1, <2>2
<1>7. HeldAreSafe'
  BY <1>1, <1>2 DEF HeldAreSafe
<1>8. LoopInv'
  <2>1. /\ ReserveFirst(phase, total_pages) .. p - 1 \subseteq bitmap
        /\ ReserveFirst(phase, total_pages) \in Nat
    BY <1>1, <1>2, RunningFacts DEF IInv, LoopInv
  <2>2. ReserveFirst(phase', total_pages') .. p' - 1 \subseteq bitmap'
    BY <1>1, <1>4, <2>1
  <2>. QED  BY <1>1, <1>2, <1>4, <2>2
            DEF IInv, LoopInv, bits, ReservedPages, ReservedRanges
<1>. QED  BY <1>5, <1>6, <1>7, <1>8 DEF IInv

LEMMA EndReservingIInv == IInv /\ EndReserving => IInv'
<1> SUFFICES ASSUME IInv, EndReserving PROVE IInv'
  OBVIOUS
<1>1. /\ phase \in ReservedRanges /\ held = {} /\ held' = {}
      /\ mbi' = mbi /\ entry' = entry /\ total_pages' = total_pages
      /\ bitmap' = bitmap /\ free_pages' = free_pages
      /\ p \in Nat /\ p > ReserveLast(phase, total_pages)
      /\ total_pages \in Nat
  BY DEF IInv, LoopInv, TypeOK, EndReserving, ReservedRanges
<1>2. phase # "boot" /\ phase # "ready"
  BY <1>1 DEF ReservedRanges
<1>3. \A r \in ReservedRanges :
         ReserveFirst(r, total_pages) \in Nat /\ ReserveLast(r, total_pages) \in Nat
  BY <1>1, <1>2, RunningFacts
<1>4. ReservedPages(phase) \subseteq bitmap
  <2>1. ReserveFirst(phase, total_pages) .. p - 1 \subseteq bitmap
    BY <1>1 DEF IInv, LoopInv
  <2>. QED  BY <1>1, <1>3, <2>1 DEF ReservedPages
<1>5. \/ phase = "null" /\ phase' = "kernel"
           /\ p' = ReserveFirst("kernel", total_pages)
      \/ phase = "kernel" /\ phase' = "bitmap"
           /\ p' = ReserveFirst("bitmap", total_pages)
      \/ phase = "bitmap" /\ phase' = "ready" /\ p' = 0
  BY <1>1 DEF EndReserving, NextPhase, ReservedRanges
<1>6. TypeOK'
  BY <1>1, <1>3, <1>5 DEF IInv, TypeOK, bits, Phases, ReservedRanges
<1>7. FreeCountExact'
  BY <1>1 DEF IInv, FreeCountExact
<1>8. LoopInv'
  BY <1>1, <1>2, <1>3, <1>4, <1>5
     DEF IInv, LoopInv, bits, ReservedPages, ReservedRanges
<1>9. HeldAreSafe'
  <2>1. phase' = "ready" => \A r \in ReservedRanges : ReservedPages(r)' \subseteq bitmap'
    BY <1>8 DEF LoopInv, ReservedRanges
  <2>. QED  BY <2>1, <1>1 DEF HeldAreSafe, Reserved
<1>. QED  BY <1>6, <1>7, <1>8, <1>9 DEF IInv

LEMMA AllocIInv ==
  ASSUME IInv, NEW page \in ClearBits, pmm_alloc_page(page)
  PROVE  IInv'
<1>1. /\ phase = "ready" /\ phase' = "ready" /\ mbi' = mbi /\ entry' = entry
      /\ p' = p /\ total_pages' = total_pages
      /\ total_pages \in Nat /\ free_pages \in Nat
  BY DEF IInv, TypeOK, pmm_alloc_page
<1>2. page \in 0 .. total_pages - 1 /\ page \in bits /\ page \notin bitmap
  BY <1>1, RunningFacts DEF pmm_alloc_page, ClearBits
<1>3. /\ bitmap' = bitmap \cup {page} /\ held' = held \cup {page}
      /\ free_pages' = Decrement(free_pages)
  BY DEF pmm_alloc_page, bitmap_set
<1>4. TypeOK'
  BY <1>1, <1>2, <1>3 DEF IInv, TypeOK, bits, Decrement
<1>5. FreeCountExact'
  BY <1>1, <1>2, <1>3, FreeSetChange DEF IInv, FreeCountExact, Decrement
<1>6. HeldAreSafe'
  <2>1. Reserved' = Reserved /\ Reserved \subseteq bitmap
    BY <1>1 DEF IInv, HeldAreSafe, Reserved, ReservedPages
  <2>. QED  BY <2>1, <1>1, <1>2, <1>3 DEF IInv, HeldAreSafe
<1>7. LoopInv'
  BY <1>1, <1>3 DEF IInv, LoopInv, bits, ReservedPages, ReservedRanges
<1>. QED  BY <1>4, <1>5, <1>6, <1>7 DEF IInv

(***************************************************************************)
(* The caller's discipline matters here: a page whose bit is set can be    *)
(* freed only by its holder, so a reserved page never is.                  *)
(***************************************************************************)
LEMMA FreeIInv ==
  ASSUME IInv, NEW addr \in FreeableAddrs, pmm_free_page(addr)
  PROVE  IInv'
<1> DEFINE page == PAGE_INDEX(addr)
<1>1. /\ phase = "ready" /\ phase' = "ready" /\ mbi' = mbi /\ entry' = entry
      /\ p' = p /\ total_pages' = total_pages
      /\ total_pages \in Nat /\ free_pages \in Nat
  BY DEF IInv, TypeOK, pmm_free_page
<1>2. page \in Nat
  BY GeometryAssumption DEF FreeableAddrs, PAGE_INDEX
<1>3. page \in held \/ page \notin bitmap \/ page >= total_pages
  BY DEF FreeableAddrs
<1>4. IF page < total_pages /\ page \in bitmap
      THEN /\ bitmap' = bitmap \ {page} /\ held' = held \ {page}
           /\ free_pages' = free_pages + 1
      ELSE bitmap' = bitmap /\ held' = held /\ free_pages' = free_pages
  BY DEF pmm_free_page, bitmap_test, bitmap_clear
<1> HIDE DEF page
<1>5. CASE page < total_pages /\ page \in bitmap
  <2>1. page \in held /\ page \in 0 .. total_pages - 1
    BY <1>1, <1>2, <1>3, <1>5
  <2>2. page \notin Reserved
    BY <2>1 DEF IInv, HeldAreSafe
  <2>3. \A r \in ReservedRanges : page \notin ReservedPages(r)
    BY <2>2 DEF Reserved
  <2>4. TypeOK'
    <3>1. bits' = bits /\ bitmap' \subseteq bitmap /\ held' \subseteq held
      BY <1>1, <1>4, <1>5 DEF bits
    <3>2. free_pages' \in Nat
      BY <1>1, <1>4, <1>5
    <3>. QED  BY <1>1, <3>1, <3>2 DEF IInv, TypeOK
  <2>5. FreeCountExact'
    BY <1>1, <1>4, <1>5, <2>1, FreeSetChange DEF IInv, FreeCountExact
  <2>6. HeldAreSafe'
    <3>1. Reserved' = Reserved /\ Reserved \subseteq bitmap
      BY <1>1 DEF IInv, HeldAreSafe, Reserved, ReservedPages
    <3>. QED  BY <3>1, <2>2, <1>1, <1>4, <1>5 DEF IInv, HeldAreSafe
  <2>7. LoopInv'
    <3>1. \A r \in ReservedRanges : ReservedPages(r)' \subseteq bitmap'
      <4>1. \A r \in ReservedRanges : ReservedPages(r) \subseteq bitmap
        BY <1>1 DEF IInv, HeldAreSafe, Reserved
      <4>. QED  BY <4>1, <2>3, <1>1, <1>4, <1>5 DEF ReservedPages
    <3>2. (bits \ (0 .. total_pages - 1) \subseteq bitmap)'
      BY <1>1, <1>4, <1>5, <2>1 DEF IInv, LoopInv, bits
    <3>. QED  BY <1>1, <3>1, <3>2 DEF IInv, LoopInv, ReservedRanges
  <2>. QED  BY <2>4, <2>5, <2>6, <2>7 DEF IInv
<1>6. CASE ~ (page < total_pages /\ page \in bitmap)
  BY <1>1, <1>4, <1>6
     DEF IInv, TypeOK, FreeCountExact, HeldAreSafe, LoopInv, bits, Reserved,
         ReservedPages
<1>. QED  BY <1>5, <1>6

LEMMA NextIInv == IInv /\ [Next]_vars => IInv'
<1> SUFFICES ASSUME IInv, [Next]_vars PROVE IInv'
  OBVIOUS
<1>1. CASE pmm_init
  BY <1>1, SizeMemoryIInv, FreeRegionPageIInv, FreeFallbackPageIInv,
     CursorStepIInv, ReservePageIInv, EndReservingIInv DEF pmm_init
<1>2. CASE \E page \in ClearBits : pmm_alloc_page(page)
  BY <1>2, AllocIInv
<1>3. CASE \E addr \in FreeableAddrs : pmm_free_page(addr)
  BY <1>3, FreeIInv
<1>4. CASE UNCHANGED vars
  BY <1>4 DEF vars, IInv, TypeOK, FreeCountExact, HeldAreSafe, LoopInv, bits,
              Reserved, ReservedPages
<1>. QED  BY <1>1, <1>2, <1>3, <1>4 DEF Next, pmm_alloc_fails

(***************************************************************************)
(* The parts of IInv together are an inductive invariant of mm/pmm.c.      *)
(***************************************************************************)
THEOREM Invariance == Spec => []IInv
BY InitIInv, NextIInv, PTL DEF Spec

(***************************************************************************)
(* Type correctness of the physical memory manager.                        *)
(***************************************************************************)
THEOREM TypeCorrect == Spec => []TypeOK
<1>1. IInv => TypeOK
  BY DEF IInv
<1>. QED  BY <1>1, Invariance, PTL

(***************************************************************************)
(* The counter free_pages of mm/pmm.c never drifts from the bitmap.        *)
(***************************************************************************)
THEOREM FreeCountCorrect == Spec => []FreeCountExact
<1>1. IInv => FreeCountExact
  BY DEF IInv
<1>. QED  BY <1>1, Invariance, PTL

(***************************************************************************)
(* Reserved pages are never handed out and no page has two holders.        *)
(***************************************************************************)
THEOREM AllocationSafe == Spec => []HeldAreSafe
<1>1. IInv => HeldAreSafe
  BY DEF IInv
<1>. QED  BY <1>1, Invariance, PTL

(***************************************************************************)
(* pmm_alloc_page fails exactly when free_pages is 0.                      *)
(***************************************************************************)
THEOREM AllocationComplete == Spec => []FailureMeansFull
<1>1. IInv => FailureMeansFull
  <2> SUFFICES ASSUME IInv, phase = "ready"
               PROVE  PageFound <=> free_pages > 0
    BY DEF FailureMeansFull
  <2> DEFINE F == (0 .. total_pages - 1) \ bitmap
  <2>1. /\ total_pages \in Nat /\ free_pages = Cardinality(F)
        /\ bits \ (0 .. total_pages - 1) \subseteq bitmap
    BY DEF IInv, TypeOK, FreeCountExact, LoopInv
  <2>2. 0 .. total_pages - 1 \subseteq bits /\ bits \subseteq Nat
    BY RunningFacts
  <2>3. ClearBits = F
    BY <2>1, <2>2 DEF ClearBits
  <2>4. IsFiniteSet(F)
    BY <2>1, FS_Interval, FS_Subset, 0 \in Int, total_pages - 1 \in Int
  <2>5. F \subseteq Nat /\ \A q \in F : q < total_pages
    BY <2>1
  <2> HIDE DEF F
  <2>6. free_pages > 0 <=> F # {}
    BY <2>1, <2>4, FS_EmptySet, FS_CardinalityType
  <2>7. F # {} => \E x \in F : \A y \in F : x <= y
    BY <2>5, LeastElement
  <2>. QED  BY <2>3, <2>5, <2>6, <2>7 DEF PageFound, LowestClear
<1>. QED  BY <1>1, Invariance, PTL
----------------------------------------------------------------------------
(***************************************************************************)
(* The loops of pmm_init free exactly the declared pages: ScanInv.         *)
(***************************************************************************)
\* The page numbers and lengths that pmm_init reads in the map.
LEMMA EntryFacts ==
  ASSUME mbi \in BootInfos, NEW i \in DOMAIN mbi.mmap
  PROVE  /\ mbi.mmap[i].addr \in Nat
         /\ mbi.mmap[i].len \in Nat
         /\ PAGE_INDEX(Low(mbi.mmap[i].addr)) \in Nat
         /\ PAGE_INDEX(Low(mbi.mmap[i].len)) \in Nat
         /\ EntryPages(mbi.mmap[i]) \in Nat
<1> DEFINE Entry == [type : Nat, addr : Nat, len : Nat]
<1>1. mbi.mmap \in Seq(Entry)
  BY GeometryAssumption DEF BootInfo
<1>2. ASSUME NEW R, NEW s \in Seq(R), NEW j \in DOMAIN s
      PROVE  s[j] \in R
  OBVIOUS
<1>3. mbi.mmap[i] \in Entry
  <2> HIDE DEF Entry
  <2>. QED  BY <1>1, <1>2
<1>4. mbi.mmap[i].addr \in Nat /\ mbi.mmap[i].len \in Nat
  BY <1>3
<1>5. /\ Low(mbi.mmap[i].addr) \in Nat
      /\ Low(mbi.mmap[i].len) \in Nat
  BY <1>4, GeometryAssumption DEF Low
<1>6. /\ PAGE_INDEX(Low(mbi.mmap[i].addr)) \in Nat
      /\ PAGE_INDEX(Low(mbi.mmap[i].len)) \in Nat
  BY <1>5, GeometryAssumption DEF PAGE_INDEX
<1>. QED  BY <1>4, <1>6 DEF EntryPages

LEMMA FirstPage ==
  PAGE_INDEX(LowMemory) \in Nat /\ PAGE_INDEX(LowMemory) * PAGE_SIZE = LowMemory
BY GeometryAssumption DEF PAGE_INDEX

\* A later address lies in no earlier page.
LEMMA PageIndexMonotone ==
  ASSUME NEW a \in Nat, NEW b \in Nat, a <= b
  PROVE  PAGE_INDEX(a) \in Nat /\ PAGE_INDEX(b) \in Nat
         /\ PAGE_INDEX(a) <= PAGE_INDEX(b)
<1> DEFINE qa == a \div PAGE_SIZE
           qb == b \div PAGE_SIZE
<1>1. /\ qa \in Nat /\ qb \in Nat /\ qa * PAGE_SIZE <= a
      /\ b < (qb + 1) * PAGE_SIZE
  BY GeometryAssumption
<1>2. PAGE_SIZE \in Nat \ {0}
  BY GeometryAssumption
<1> HIDE DEF qa, qb
<1>3. qa * PAGE_SIZE < (qb + 1) * PAGE_SIZE
  BY <1>1, <1>2
<1>4. qa < qb + 1
  BY <1>1, <1>2, <1>3, SMTT(30)
<1>5. qa <= qb
  BY <1>1, <1>4
<1>. QED  BY <1>1, <1>5 DEF qa, qb, PAGE_INDEX

LEMMA RangesNotEmpty ==
  ASSUME NEW n \in Nat, NEW r \in ReservedRanges
  PROVE  ReserveFirst(r, n) <= ReserveLast(r, n)
<1>1. KernelStart \in Nat /\ KernelEnd \in Nat /\ KernelStart <= KernelEnd
  BY GeometryAssumption
<1>2. bitmap_addr \in Nat
  BY <1>1, GeometryAssumption DEF bitmap_addr, ALIGN_UP
<1>3. bitmap_size_of(n) * WordBytes \in Nat
  BY BitmapCovers, GeometryAssumption
<1>4. /\ bitmap_addr + bitmap_size_of(n) * WordBytes \in Nat
      /\ bitmap_addr <= bitmap_addr + bitmap_size_of(n) * WordBytes
  BY <1>2, <1>3
<1>5. PAGE_INDEX(bitmap_addr)
         <= PAGE_INDEX(bitmap_addr + bitmap_size_of(n) * WordBytes)
  BY <1>2, <1>4, PageIndexMonotone
<1>6. PAGE_INDEX(KernelStart) <= PAGE_INDEX(KernelEnd)
  BY <1>1, PageIndexMonotone
<1>. QED  BY <1>5, <1>6 DEF ReservedRanges, ReserveFirst, ReserveLast

LEMMA SizeMemoryScan == IInv /\ ScanInv /\ SizeMemory => ScanInv'
<1> SUFFICES ASSUME IInv, ScanInv, SizeMemory PROVE ScanInv'
  OBVIOUS
<1>1. /\ mbi' = mbi /\ entry = 1 /\ entry' = 1 /\ phase = "boot"
      /\ mbi \in BootInfos
  BY DEF SizeMemory, ScanInv, IInv, TypeOK
<1>2. bits' \ bitmap' = {}
  BY DEF SizeMemory, AllBitsSet, bits
<1>3. CASE mbi.kind = "mmap"
  <2>1. phase' = "mmap" /\ p' = 0
    BY <1>3 DEF SizeMemory
  <2>2. DOMAIN mbi.mmap = 1 .. Len(mbi.mmap) /\ Len(mbi.mmap) \in Nat
    BY <1>1, BootFacts, GeometryAssumption DEF BootInfo
  <2>3. 1 \in DOMAIN mbi.mmap => /\ EntryPages(mbi.mmap[1]) \in Nat
                                 /\ PAGE_INDEX(Low(mbi.mmap[1].addr)) \in Nat
    BY <1>1, EntryFacts
  <2>4. total_pages' \in Nat
    BY <1>1, BootFacts DEF SizeMemory
  <2>5. \A page \in 0 .. total_pages' - 1 : ~Scanned(page)'
    BY <1>1, <2>1, <2>3, <2>4 DEF Scanned
  <2>6. bits' \ bitmap' = {page \in 0 .. total_pages' - 1 : Scanned(page)'}
    BY <1>2, <2>5
  <2>. QED  BY <1>1, <1>3, <2>1, <2>2, <2>3, <2>6 DEF ScanInv, ReservedRanges
<1>4. CASE mbi.kind # "mmap"
  <2>1. phase' = "fallback" /\ p' = PAGE_INDEX(LowMemory)
    BY <1>4 DEF SizeMemory
  <2>. QED  BY <1>1, <1>2, <1>4, <2>1, FirstPage DEF ScanInv, ReservedRanges
<1>. QED  BY <1>3, <1>4

LEMMA FreeRegionPageScan == IInv /\ ScanInv /\ FreeRegionPage => ScanInv'
<1> SUFFICES ASSUME IInv, ScanInv, FreeRegionPage PROVE ScanInv'
  OBVIOUS
<1> DEFINE first == PAGE_INDEX(Low(mbi.mmap[entry].addr))
           page == first + p
<1>1. /\ phase = "mmap" /\ phase' = "mmap" /\ mbi' = mbi /\ entry' = entry
      /\ total_pages' = total_pages /\ p' = p + 1 /\ p \in Nat
      /\ entry \in DOMAIN mbi.mmap /\ p < EntryPages(mbi.mmap[entry])
      /\ mbi \in BootInfos /\ total_pages \in Nat
  BY DEF IInv, TypeOK, FreeRegionPage
<1>2. /\ mbi.kind = "mmap" /\ entry \in 1 .. Len(mbi.mmap) + 1
      /\ bits \ bitmap = {q \in 0 .. total_pages - 1 : Scanned(q)}
  BY <1>1 DEF ScanInv
<1>3. first \in Nat /\ EntryPages(mbi.mmap[entry]) \in Nat
  BY <1>1, EntryFacts
<1>4. bitmap' = IF page < total_pages THEN bitmap \ {page} ELSE bitmap
  BY DEF FreeRegionPage, bitmap_test, bitmap_clear
<1>5. bits' = bits /\ (page < total_pages => page \in bits)
  BY <1>1, <1>3, RunningFacts DEF bits
<1>6. \A q \in 0 .. total_pages - 1 :
          Scanned(q)' <=> Scanned(q) \/ q = page
  <2>1. \A q : Scanned(q)' <=>
          \/ \E i \in 1 .. entry - 1 :
                /\ Available(mbi.mmap[i])
                /\ q >= PAGE_INDEX(Low(mbi.mmap[i].addr))
                /\ q < PAGE_INDEX(Low(mbi.mmap[i].addr))
                          + PAGE_INDEX(Low(mbi.mmap[i].len))
          \/ q >= first /\ q < first + (p + 1)
    BY <1>1 DEF Scanned
  <2>2. \A q : Scanned(q) <=>
          \/ \E i \in 1 .. entry - 1 :
                /\ Available(mbi.mmap[i])
                /\ q >= PAGE_INDEX(Low(mbi.mmap[i].addr))
                /\ q < PAGE_INDEX(Low(mbi.mmap[i].addr))
                          + PAGE_INDEX(Low(mbi.mmap[i].len))
          \/ q >= first /\ q < first + p
    BY <1>1 DEF Scanned
  <2> HIDE DEF first
  <2>3. \A q \in 0 .. total_pages - 1 :
           q >= first /\ q < first + (p + 1) <=>
              (q >= first /\ q < first + p) \/ q = first + p
    BY <1>1, <1>3
  <2>. QED  BY <2>1, <2>2, <2>3
<1> HIDE DEF page
<1>7. bits' \ bitmap' = {q \in 0 .. total_pages' - 1 : Scanned(q)'}
  <2>1. page \in Nat
    BY <1>1, <1>3 DEF page
  <2>2. CASE page < total_pages
    <3>1. bits' \ bitmap' = (bits \ bitmap) \cup {page}
      BY <1>4, <1>5, <2>2
    <3>2. page \in 0 .. total_pages - 1
      BY <1>1, <2>1, <2>2
    <3>. QED  BY <1>1, <1>2, <1>6, <3>1, <3>2
  <2>3. CASE ~(page < total_pages)
    <3>1. page \notin 0 .. total_pages - 1
      BY <1>1, <2>1, <2>3
    <3>2. bits' \ bitmap' = bits \ bitmap
      BY <1>4, <1>5, <2>3
    <3>. QED  BY <1>1, <1>2, <1>6, <3>1, <3>2
  <2>. QED  BY <2>2, <2>3
<1>8. p' <= EntryPages(mbi.mmap[entry])
  BY <1>1, <1>3
<1>. QED  BY <1>1, <1>2, <1>7, <1>8 DEF ScanInv, ReservedRanges

LEMMA NextRegionScan == IInv /\ ScanInv /\ NextRegion => ScanInv'
<1> SUFFICES ASSUME IInv, ScanInv, NextRegion PROVE ScanInv'
  OBVIOUS
<1>1. /\ phase = "mmap" /\ phase' = "mmap" /\ mbi' = mbi /\ entry' = entry + 1
      /\ total_pages' = total_pages /\ p' = 0 /\ bitmap' = bitmap
      /\ entry \in DOMAIN mbi.mmap /\ mbi \in BootInfos
      /\ p >= EntryPages(mbi.mmap[entry]) /\ p \in Nat /\ total_pages \in Nat
  BY DEF IInv, TypeOK, NextRegion
<1>2. /\ mbi.kind = "mmap" /\ entry \in 1 .. Len(mbi.mmap) + 1
      /\ bits \ bitmap = {q \in 0 .. total_pages - 1 : Scanned(q)}
      /\ p <= EntryPages(mbi.mmap[entry])
  BY <1>1 DEF ScanInv
<1>3. DOMAIN mbi.mmap = 1 .. Len(mbi.mmap) /\ Len(mbi.mmap) \in Nat
  BY <1>1, BootFacts, GeometryAssumption DEF BootInfo
<1>4. /\ entry \in Nat /\ entry + 1 \in 1 .. Len(mbi.mmap) + 1
      /\ 1 .. entry = (1 .. entry - 1) \cup {entry}
  BY <1>1, <1>3
<1> DEFINE In(i, q) == /\ Available(mbi.mmap[i])
                       /\ q >= PAGE_INDEX(Low(mbi.mmap[i].addr))
                       /\ q < PAGE_INDEX(Low(mbi.mmap[i].addr))
                                 + PAGE_INDEX(Low(mbi.mmap[i].len))
<1>5. \A q \in 0 .. total_pages - 1 : Scanned(q)' <=> Scanned(q)
  <2> SUFFICES ASSUME NEW q \in 0 .. total_pages - 1
               PROVE  Scanned(q)' <=> Scanned(q)
    OBVIOUS
  <2>1. Scanned(q) <=> (\E i \in 1 .. entry - 1 : In(i, q)) \/ In(entry, q)
    <3>1. p = EntryPages(mbi.mmap[entry])
      BY <1>1, <1>2, EntryFacts
    <3>2. /\ Available(mbi.mmap[entry]) =>
                 p = PAGE_INDEX(Low(mbi.mmap[entry].len))
          /\ ~Available(mbi.mmap[entry]) => p = 0
      BY <3>1 DEF EntryPages
    <3>3. PAGE_INDEX(Low(mbi.mmap[entry].addr)) \in Nat
      BY <1>1, EntryFacts
    <3>4. ~ (q >= PAGE_INDEX(Low(mbi.mmap[entry].addr))
              /\ q < PAGE_INDEX(Low(mbi.mmap[entry].addr)) + 0)
      BY <3>3
    <3>. QED  BY <1>1, <3>2, <3>4 DEF Scanned
  <2>2. Scanned(q)' <=> \E i \in 1 .. entry : In(i, q)
    <3>1. Scanned(q)' <=>
            \/ \E i \in 1 .. (entry + 1) - 1 : In(i, q)
            \/ /\ entry + 1 \in DOMAIN mbi.mmap
               /\ q >= PAGE_INDEX(Low(mbi.mmap[entry + 1].addr))
               /\ q < PAGE_INDEX(Low(mbi.mmap[entry + 1].addr)) + 0
      BY <1>1 DEF Scanned
    <3>2. entry + 1 \in DOMAIN mbi.mmap =>
             PAGE_INDEX(Low(mbi.mmap[entry + 1].addr)) \in Nat
      BY <1>1, EntryFacts
    <3>3. ~ (/\ entry + 1 \in DOMAIN mbi.mmap
             /\ q >= PAGE_INDEX(Low(mbi.mmap[entry + 1].addr))
             /\ q < PAGE_INDEX(Low(mbi.mmap[entry + 1].addr)) + 0)
      BY <3>2
    <3>4. (entry + 1) - 1 = entry
      BY <1>4
    <3> HIDE DEF In
    <3>. QED  BY <3>1, <3>3, <3>4
  <2> HIDE DEF In
  <2>. QED  BY <2>1, <2>2, <1>4
<1>6. bits' \ bitmap' = {q \in 0 .. total_pages' - 1 : Scanned(q)'}
  <2>1. bits' = bits
    BY <1>1 DEF bits
  <2>. QED  BY <2>1, <1>1, <1>2, <1>5
<1>7. entry' \in DOMAIN mbi.mmap => p' <= EntryPages(mbi.mmap[entry'])
  BY <1>1, EntryFacts
<1>. QED  BY <1>1, <1>2, <1>4, <1>6, <1>7 DEF ScanInv, ReservedRanges

LEMMA FreeFallbackPageScan == IInv /\ ScanInv /\ FreeFallbackPage => ScanInv'
<1> SUFFICES ASSUME IInv, ScanInv, FreeFallbackPage PROVE ScanInv'
  OBVIOUS
<1> DEFINE first == PAGE_INDEX(LowMemory)
<1>1. /\ phase = "fallback" /\ phase' = "fallback" /\ mbi' = mbi
      /\ total_pages' = total_pages /\ p' = p + 1 /\ p \in Nat
      /\ p < total_pages /\ bitmap' = bitmap \ {p} /\ total_pages \in Nat
  BY DEF IInv, TypeOK, FreeFallbackPage, bitmap_clear
<1>2. /\ mbi.kind # "mmap" /\ p >= first
      /\ bits \ bitmap = {q \in 0 .. total_pages - 1 : q \in first .. p - 1}
  BY <1>1 DEF ScanInv
<1>3. bits' = bits /\ p \in bits /\ first \in Nat
  BY <1>1, RunningFacts, FirstPage DEF bits
<1> HIDE DEF first
<1>4. bits' \ bitmap' = (bits \ bitmap) \cup {p}
  BY <1>1, <1>3
<1>5. bits' \ bitmap' =
         {q \in 0 .. total_pages - 1 : q \in first .. (p + 1) - 1}
  BY <1>1, <1>2, <1>3, <1>4
<1>6. p' >= first
  BY <1>1, <1>2, <1>3
<1>. QED  BY <1>1, <1>2, <1>5, <1>6 DEF ScanInv, ReservedRanges, first

(***************************************************************************)
(* When the freeing loop ends, the free pages are the declared ones.       *)
(***************************************************************************)
LEMMA EndFreeingScan == IInv /\ ScanInv /\ EndFreeing => ScanInv'
<1> SUFFICES ASSUME IInv, ScanInv, EndFreeing PROVE ScanInv'
  OBVIOUS
<1>1. /\ phase' = "null" /\ mbi' = mbi /\ total_pages' = total_pages /\ p' = 0
      /\ bitmap' = bitmap /\ mbi \in BootInfos /\ total_pages \in Nat
      /\ p \in Nat /\ entry \in Nat
  BY DEF IInv, TypeOK, EndFreeing
<1>2. bits \ bitmap = {q \in 0 .. total_pages - 1 : Declared(q)}
  <2>1. CASE phase = "mmap" /\ entry \notin DOMAIN mbi.mmap
    <3>1. /\ mbi.kind = "mmap" /\ entry \in 1 .. Len(mbi.mmap) + 1
          /\ bits \ bitmap = {q \in 0 .. total_pages - 1 : Scanned(q)}
      BY <2>1 DEF ScanInv
    <3>2. DOMAIN mbi.mmap = 1 .. Len(mbi.mmap) /\ Len(mbi.mmap) \in Nat
      BY <1>1, BootFacts, GeometryAssumption DEF BootInfo
    <3>3. 1 .. entry - 1 = DOMAIN mbi.mmap
      BY <2>1, <3>1, <3>2
    <3>4. \A q : Scanned(q) <=> Declared(q)
      BY <2>1, <3>1, <3>3 DEF Scanned, Declared
    <3>. QED  BY <3>1, <3>4
  <2>2. CASE phase = "fallback" /\ p >= total_pages
    <3>1. /\ mbi.kind # "mmap"
          /\ bits \ bitmap = {q \in 0 .. total_pages - 1 :
                                q \in PAGE_INDEX(LowMemory) .. p - 1}
      BY <2>2 DEF ScanInv
    <3>2. \A q \in 0 .. total_pages - 1 :
             q \in PAGE_INDEX(LowMemory) .. p - 1 <=> Declared(q)
      BY <1>1, <2>2, <3>1, FirstPage DEF Declared
    <3>. QED  BY <3>1, <3>2
  <2>. QED  BY <2>1, <2>2 DEF EndFreeing
<1>3. bits' = bits /\ (\A q : Declared(q)' <=> Declared(q))
  BY <1>1 DEF bits, Declared
<1>4. ReserveFirst("null", total_pages) = 0 /\ ReserveLast("null", total_pages) = 0
  BY DEF ReserveFirst, ReserveLast
<1>5. ReservedBefore' = {}
  BY <1>1 DEF ReservedBefore
<1>6. bits' \ bitmap' =
        {q \in 0 .. total_pages' - 1 : Declared(q)'} \
            (ReservedBefore' \cup 0 .. p' - 1)
  <2>1. 0 .. 0 - 1 = {}
    OBVIOUS
  <2>. QED  BY <1>1, <1>2, <1>3, <1>5, <2>1
<1>. QED  BY <1>1, <1>4, <1>6 DEF ScanInv, ReservedRanges

LEMMA ReservePageScan == IInv /\ ScanInv /\ ReservePage => ScanInv'
<1> SUFFICES ASSUME IInv, ScanInv, ReservePage PROVE ScanInv'
  OBVIOUS
<1> DEFINE first == ReserveFirst(phase, total_pages)
           D == {q \in 0 .. total_pages - 1 : Declared(q)}
<1>1. /\ phase \in ReservedRanges /\ phase' = phase /\ mbi' = mbi
      /\ total_pages' = total_pages /\ p' = p + 1 /\ p \in Nat
      /\ bitmap' = bitmap \cup {p} /\ p <= ReserveLast(phase, total_pages)
  BY DEF IInv, TypeOK, ReservePage, bitmap_test, bitmap_set
<1>2. p >= first /\ bits \ bitmap = D \ (ReservedBefore \cup first .. p - 1)
  BY <1>1 DEF ScanInv
<1>3. first \in Nat /\ ReserveLast(phase, total_pages) \in Nat
  BY <1>1, RunningFacts DEF ReservedRanges
<1>4. /\ bits' = bits /\ D' = D /\ ReservedBefore' = ReservedBefore
      /\ first' = first
  BY <1>1 DEF bits, Declared, ReservedBefore, ReservedPages
<1> HIDE DEF first, D
<1>5. first .. (p + 1) - 1 = (first .. p - 1) \cup {p}
  BY <1>1, <1>2, <1>3
<1>6. bits' \ bitmap' = D' \ (ReservedBefore' \cup first' .. p' - 1)
  BY <1>1, <1>2, <1>4, <1>5
<1>7. p' >= first' /\ p' <= ReserveLast(phase, total_pages) + 1
  BY <1>1, <1>2, <1>3, <1>4
<1>. QED  BY <1>1, <1>6, <1>7 DEF ScanInv, ReservedRanges, first, D

(***************************************************************************)
(* When a range has been reserved the next one starts; after the last one  *)
(* the free pages are exactly the usable ones.                             *)
(***************************************************************************)
LEMMA EndReservingScan ==
  ASSUME IInv, ScanInv, EndReserving
  PROVE  /\ ScanInv'
         /\ phase = "bitmap" => bits \ bitmap = Usable(total_pages)
<1> DEFINE D == {q \in 0 .. total_pages - 1 : Declared(q)}
           R(r) == ReserveFirst(r, total_pages) .. ReserveLast(r, total_pages)
<1>1. /\ phase \in ReservedRanges /\ mbi' = mbi /\ p \in Nat
      /\ total_pages' = total_pages /\ bitmap' = bitmap
      /\ p > ReserveLast(phase, total_pages) /\ held = {} /\ held' = {}
  BY DEF IInv, TypeOK, LoopInv, EndReserving, ReservedRanges
<1>2. /\ p <= ReserveLast(phase, total_pages) + 1
      /\ bits \ bitmap =
            D \ (ReservedBefore \cup ReserveFirst(phase, total_pages) .. p - 1)
  BY <1>1 DEF ScanInv
<1>3. phase # "boot" /\ total_pages \in Nat
  BY <1>1 DEF ReservedRanges, IInv, TypeOK
<1>4. \A r \in ReservedRanges :
         /\ ReserveFirst(r, total_pages) \in Nat
         /\ ReserveLast(r, total_pages) \in Nat
         /\ ReserveFirst(r, total_pages) <= ReserveLast(r, total_pages) + 1
  BY <1>3, RunningFacts, RangesNotEmpty
<1>5. D' = D /\ bits' = bits /\ (\A r : ReservedPages(r)' = R(r))
  BY <1>1 DEF Declared, bits, ReservedPages
<1>6. bits \ bitmap = D \ (ReservedBefore \cup R(phase))
  <2>1. p - 1 = ReserveLast(phase, total_pages)
    BY <1>1, <1>2, <1>4
  <2>. QED  BY <1>2, <2>1
<1>8. /\ R("null") = ReservedPages("null") /\ R("kernel") = ReservedPages("kernel")
  BY DEF ReservedPages
<1> HIDE DEF D, R
<1>9. CASE phase = "null"
  <2>1. phase' = "kernel" /\ p' = ReserveFirst("kernel", total_pages)
    BY <1>9 DEF EndReserving, NextPhase
  <2>2. ReservedBefore = {} /\ ReservedBefore' = R("null")
    BY <1>5, <1>9, <2>1 DEF ReservedBefore
  <2>3. ReserveFirst("kernel", total_pages) .. ReserveFirst("kernel", total_pages) - 1 = {}
    BY <1>4 DEF ReservedRanges
  <2>4. bits' \ bitmap' = D' \ (ReservedBefore' \cup
             ReserveFirst("kernel", total_pages) .. ReserveFirst("kernel", total_pages) - 1)
    BY <1>1, <1>5, <1>6, <1>9, <2>2, <2>3
  <2>. QED  BY <1>1, <1>4, <1>9, <2>1, <2>4 DEF ScanInv, ReservedRanges, D
<1>10. CASE phase = "kernel"
  <2>1. phase' = "bitmap" /\ p' = ReserveFirst("bitmap", total_pages)
    BY <1>10 DEF EndReserving, NextPhase
  <2>2. ReservedBefore = R("null") /\ ReservedBefore' = R("null") \cup R("kernel")
    BY <1>5, <1>8, <1>10, <2>1 DEF ReservedBefore
  <2>3. ReserveFirst("bitmap", total_pages) .. ReserveFirst("bitmap", total_pages) - 1 = {}
    BY <1>4 DEF ReservedRanges
  <2>4. bits' \ bitmap' = D' \ (ReservedBefore' \cup
             ReserveFirst("bitmap", total_pages) .. ReserveFirst("bitmap", total_pages) - 1)
    BY <1>1, <1>5, <1>6, <1>10, <2>2, <2>3
  <2>. QED  BY <1>1, <1>4, <1>10, <2>1, <2>4 DEF ScanInv, ReservedRanges, D
<1>11. CASE phase = "bitmap"
  <2>1. phase' = "ready" /\ p' = 0
    BY <1>11 DEF EndReserving, NextPhase
  <2>2. ReservedBefore = R("null") \cup R("kernel")
    BY <1>8, <1>11 DEF ReservedBefore
  <2>3. Usable(total_pages) = D \ (R("null") \cup R("kernel") \cup R("bitmap"))
    BY DEF Usable, ReservedRanges, D, R
  <2>4. bits \ bitmap = Usable(total_pages)
    BY <1>6, <1>11, <2>2, <2>3
  <2>5. Usable(total_pages)' = Usable(total_pages)
    BY <1>1 DEF Usable, Declared
  <2>. QED  BY <1>1, <1>5, <2>1, <2>4, <2>5 DEF ScanInv, ReservedRanges
<1>. QED  BY <1>1, <1>9, <1>10, <1>11 DEF ReservedRanges

LEMMA AllocatorScan ==
  ASSUME IInv, ScanInv,
         \/ \E page \in ClearBits : pmm_alloc_page(page)
         \/ \E addr \in FreeableAddrs : pmm_free_page(addr)
  PROVE  ScanInv'
<1>1. /\ phase = "ready" /\ phase' = "ready" /\ mbi' = mbi
      /\ total_pages' = total_pages
  BY DEF pmm_alloc_page, pmm_free_page
<1>2. bits' = bits /\ Usable(total_pages)' = Usable(total_pages)
  BY <1>1 DEF bits, Usable, Declared
<1>3. (bits' \ bitmap') \cup held' \subseteq (bits \ bitmap) \cup held
  <2>1. CASE \E page \in ClearBits : pmm_alloc_page(page)
    BY <1>2, <2>1 DEF pmm_alloc_page, bitmap_set, ClearBits
  <2>2. CASE \E addr \in FreeableAddrs : pmm_free_page(addr)
    <3>1. PICK addr \in FreeableAddrs : pmm_free_page(addr)
      BY <2>2
    <3> DEFINE page == PAGE_INDEX(addr)
    <3>2. CASE page < total_pages /\ page \in bitmap
      <4>1. bitmap' = bitmap \ {page} /\ held' = held \ {page}
        BY <3>1, <3>2 DEF pmm_free_page, bitmap_test, bitmap_clear
      <4>2. page \in held
        <5>1. PAGE_INDEX(addr) \in Nat
          BY GeometryAssumption DEF FreeableAddrs, PAGE_INDEX
        <5>. QED  BY <5>1, <3>2 DEF FreeableAddrs, IInv, TypeOK
      <4>. QED  BY <1>2, <4>1, <4>2
    <3>3. CASE ~(page < total_pages /\ page \in bitmap)
      BY <1>2, <3>1, <3>3 DEF pmm_free_page, bitmap_test
    <3>. QED  BY <3>2, <3>3
  <2>. QED  BY <2>1, <2>2
<1>4. (bits \ bitmap) \cup held \subseteq Usable(total_pages)
  BY <1>1 DEF ScanInv
<1>5. (bits \ bitmap)' \cup held' \subseteq Usable(total_pages)'
  BY <1>2, <1>3, <1>4
<1>. QED  BY <1>1, <1>5 DEF ScanInv, ReservedRanges

LEMMA InitScan == Init => ScanInv
BY DEF Init, ScanInv, ReservedRanges

LEMMA NextScan == IInv /\ ScanInv /\ [Next]_vars => ScanInv'
<1> SUFFICES ASSUME IInv, ScanInv, [Next]_vars PROVE ScanInv'
  OBVIOUS
<1>1. CASE pmm_init
  BY <1>1, SizeMemoryScan, FreeRegionPageScan, NextRegionScan,
     FreeFallbackPageScan, EndFreeingScan, ReservePageScan, EndReservingScan
     DEF pmm_init
<1>2. CASE \/ \E page \in ClearBits : pmm_alloc_page(page)
           \/ \E addr \in FreeableAddrs : pmm_free_page(addr)
  BY <1>2, AllocatorScan
<1>3. CASE UNCHANGED vars
  BY <1>3 DEF vars, ScanInv, bits, Scanned, ReservedBefore, ReservedPages,
              Declared, Usable
<1>. QED  BY <1>1, <1>2, <1>3 DEF Next, pmm_alloc_fails

(***************************************************************************)
(* At every point of the loops of pmm_init the clear bits are the pages    *)
(* declared so far, less those reserved so far.                            *)
(***************************************************************************)
THEOREM ScanInvariance == Spec => [](IInv /\ ScanInv)
<1>1. Init => IInv /\ ScanInv
  BY InitIInv, InitScan
<1>2. IInv /\ ScanInv /\ [Next]_vars => IInv' /\ ScanInv'
  BY NextIInv, NextScan
<1>. QED  BY <1>1, <1>2, PTL DEF Spec

----------------------------------------------------------------------------
\* pmm_init changes neither the free pages nor what is held.
LEMMA InitStutters ==
  ASSUME IInv, ScanInv, pmm_init
  PROVE  FreePages' = FreePages /\ held' = held
<1>1. mbi' = mbi /\ held' = held /\ phase # "ready"
  BY DEF pmm_init, SizeMemory, FreeRegionPage, NextRegion, FreeFallbackPage,
         EndFreeing, ReservePage, EndReserving, ReservedRanges
<1>2. Usable(total_pages_of(mbi))' = Usable(total_pages_of(mbi))
  BY <1>1 DEF Usable, Declared, total_pages_of, max_addr
<1>3. CASE phase' # "ready"
  BY <1>1, <1>2, <1>3 DEF FreePages
<1>4. CASE phase' = "ready"
  <2>1. EndReserving /\ phase = "bitmap"
    BY <1>1, <1>4 DEF pmm_init, SizeMemory, FreeRegionPage, NextRegion,
          FreeFallbackPage, EndFreeing, ReservePage, EndReserving,
          ReservedRanges, NextPhase
  <2>2. bits \ bitmap = Usable(total_pages)
    BY <2>1, EndReservingScan
  <2>3. bits' = bits /\ bitmap' = bitmap
    BY <2>1 DEF EndReserving, bits
  <2>4. total_pages = total_pages_of(mbi)
    BY <2>1, RunningFacts
  <2>. QED  BY <1>1, <1>4, <2>2, <2>3, <2>4 DEF FreePages, ClearBits
<1>. QED  BY <1>3, <1>4

LEMMA AllocTakesLowest ==
  ASSUME IInv, NEW page \in ClearBits, pmm_alloc_page(page)
  PROVE  Promise!Alloc
<1>1. /\ phase = "ready" /\ phase' = "ready" /\ LowestClear(page)
      /\ bitmap' = bitmap \cup {page} /\ held' = held \cup {page}
      /\ total_pages' = total_pages
  BY DEF pmm_alloc_page, bitmap_set
<1>2. ClearBits \subseteq Nat
  BY <1>1, RunningFacts DEF ClearBits
<1>3. page = Min(ClearBits)
  <2>1. \A q \in ClearBits : page <= q
    BY <1>1 DEF LowestClear
  <2>2. \A q \in ClearBits : (\A y \in ClearBits : q <= y) => q = page
    BY <1>2, <2>1
  <2>. QED  BY <2>1, <2>2 DEF Min
<1>4. bits' \ bitmap' = ClearBits \ {page}
  BY <1>1 DEF bits, ClearBits
<1>5. FreePages = ClearBits /\ FreePages' = ClearBits \ {page}
  BY <1>1, <1>4 DEF FreePages, ClearBits
<1>. QED  BY <1>1, <1>3, <1>5 DEF Promise!Alloc, Min, Promise!Min

LEMMA FreeReturns ==
  ASSUME IInv, NEW addr \in FreeableAddrs, pmm_free_page(addr)
  PROVE  \/ \E page \in held : Promise!Return(page)
         \/ FreePages' = FreePages /\ held' = held
<1> DEFINE page == PAGE_INDEX(addr)
<1>1. phase = "ready" /\ phase' = "ready" /\ bits' = bits
  BY DEF pmm_free_page, bits
<1>2. CASE page < total_pages /\ page \in bitmap
  <2>1. bitmap' = bitmap \ {page} /\ held' = held \ {page}
    BY <1>2 DEF pmm_free_page, bitmap_test, bitmap_clear
  <2>2. page \in held
    <3>1. page \in Nat /\ total_pages \in Nat
      BY GeometryAssumption DEF FreeableAddrs, PAGE_INDEX, IInv, TypeOK
    <3>. QED  BY <3>1, <1>2 DEF FreeableAddrs
  <2>3. page \in bits
    BY <1>2 DEF IInv, TypeOK
  <2>4. bits' \ bitmap' = (bits \ bitmap) \cup {page}
    BY <1>1, <2>1, <2>3
  <2>5. FreePages' = FreePages \cup {page}
    BY <1>1, <2>4 DEF FreePages, ClearBits
  <2> HIDE DEF page
  <2>. QED  BY <2>1, <2>2, <2>5 DEF Promise!Return
<1>3. CASE ~(page < total_pages /\ page \in bitmap)
  BY <1>1, <1>3 DEF pmm_free_page, bitmap_test, FreePages, ClearBits
<1>. QED  BY <1>2, <1>3

(***************************************************************************)
(* The bitmap allocator of mm/pmm.c implements the set of free pages that  *)
(* PageAllocator promises, whatever the memory map.                        *)
(***************************************************************************)
THEOREM AllocatorKeepsPromise == Spec => ImplementsPromise
<1>1. Init => Promise!Init
  <2> SUFFICES ASSUME Init PROVE Promise!Init
    OBVIOUS
  <2>1. phase = "boot" /\ held = {}
    BY DEF Init
  <2>2. Usable(total_pages_of(mbi)) \subseteq Nat
    BY BootFacts DEF Init, Usable
  <2>. QED  BY <2>1, <2>2 DEF Promise!Init, FreePages
<1>2. IInv /\ ScanInv /\ [Next]_vars => [Promise!Next]_<<FreePages, held>>
  <2> SUFFICES ASSUME IInv, ScanInv, [Next]_vars
               PROVE  Promise!Next \/ (FreePages' = FreePages /\ held' = held)
    OBVIOUS
  <2>1. CASE pmm_init
    BY <2>1, InitStutters
  <2>2. CASE \E page \in ClearBits : pmm_alloc_page(page)
    BY <2>2, AllocTakesLowest DEF Promise!Next
  <2>3. CASE \E addr \in FreeableAddrs : pmm_free_page(addr)
    BY <2>3, FreeReturns DEF Promise!Next
  <2>4. CASE UNCHANGED vars
    BY <2>4 DEF vars, FreePages, ClearBits, bits, Usable, Declared,
                total_pages_of, max_addr
  <2>. QED  BY <2>1, <2>2, <2>3, <2>4 DEF Next, pmm_alloc_fails
<1>. QED  BY <1>1, <1>2, ScanInvariance, PTL
          DEF Spec, ImplementsPromise, Promise!Spec

(***************************************************************************)
(* Under a map below 4 GB with aligned regions, a declared page is RAM.    *)
(***************************************************************************)
LEMMA DeclaredIsRam ==
  ASSUME mbi \in BootInfos, MapBelowAddrSpace, MapPageAligned,
         NEW page \in Nat, Declared(page)
  PROVE  IsRam(page)
<1>1. CASE mbi.kind = "mmap"
  <2>1. PICK i \in DOMAIN mbi.mmap :
           /\ Available(mbi.mmap[i])
           /\ page >= PAGE_INDEX(Low(mbi.mmap[i].addr))
           /\ page < PAGE_INDEX(Low(mbi.mmap[i].addr))
                        + PAGE_INDEX(Low(mbi.mmap[i].len))
    BY <1>1 DEF Declared
  <2> DEFINE a == mbi.mmap[i].addr
             l == mbi.mmap[i].len
  <2>2. a \in Nat /\ l \in Nat /\ a + l <= AddrSpace /\ a % PAGE_SIZE = 0
    BY <2>1, EntryFacts DEF MapBelowAddrSpace, MapPageAligned
  <2>3. page >= PAGE_INDEX(Low(a)) /\ page < PAGE_INDEX(Low(a)) + PAGE_INDEX(Low(l))
    BY <2>1
  <2> HIDE DEF a, l
  <2>4. Low(a) = a /\ Low(l) = l
    <3>1. Low(0) = 0 /\ Low(AddrSpace) = 0 /\ PAGE_INDEX(0) = 0
      BY GeometryAssumption DEF Low, PAGE_INDEX
    <3>2. l # AddrSpace
      <4>1. PAGE_INDEX(Low(a)) \in Nat
        BY <2>2, GeometryAssumption DEF Low, PAGE_INDEX
      <4>. QED  BY <2>3, <3>1, <4>1
    <3>3. l # 0
      <4>1. PAGE_INDEX(Low(a)) \in Nat
        BY <2>2, GeometryAssumption DEF Low, PAGE_INDEX
      <4>. QED  BY <2>3, <3>1, <4>1
    <3>4. a < AddrSpace /\ l < AddrSpace
      BY <2>2, <3>2, <3>3, GeometryAssumption
    <3>. QED  BY <2>2, <3>4, GeometryAssumption DEF Low
  <2>5. /\ PAGE_INDEX(a) \in Nat /\ PAGE_INDEX(l) \in Nat
        /\ PAGE_INDEX(a) * PAGE_SIZE = a /\ PAGE_INDEX(l) * PAGE_SIZE <= l
    BY <2>2, GeometryAssumption DEF PAGE_INDEX
  <2>6. PAGE_INDEX(a) * PAGE_SIZE <= page * PAGE_SIZE
    BY <2>3, <2>4, <2>5, GeometryAssumption, SMTT(30)
  <2>7. (page + 1) * PAGE_SIZE <= (PAGE_INDEX(a) + PAGE_INDEX(l)) * PAGE_SIZE
    BY <2>3, <2>4, <2>5, GeometryAssumption, SMTT(30)
  <2>8. (PAGE_INDEX(a) + PAGE_INDEX(l)) * PAGE_SIZE
           = PAGE_INDEX(a) * PAGE_SIZE + PAGE_INDEX(l) * PAGE_SIZE
    BY <2>5, GeometryAssumption, SMTT(30)
  <2>9. IsRamOf(page, a, l)
    BY <2>2, <2>5, <2>6, <2>7, <2>8, GeometryAssumption DEF IsRamOf
  <2>. QED  BY <1>1, <2>1, <2>9 DEF IsRam, a, l
<1>2. CASE mbi.kind # "mmap"
  BY <1>2, FirstPage, GeometryAssumption DEF Declared, IsRam
<1>. QED  BY <1>1, <1>2

(***************************************************************************)
(* pmm.c:63: what pmm_alloc_page hands out is memory of an available       *)
(* region of the Multiboot map, on every machine whose map stays below     *)
(* 4 GB and whose available regions start on page boundaries.              *)
(***************************************************************************)
THEOREM HandsOutRam == Spec => []OnlyRamHandedOut
<1>1. IInv /\ ScanInv => OnlyRamHandedOut
  <2> SUFFICES ASSUME IInv, ScanInv, MapBelowAddrSpace, MapPageAligned,
                      NEW page \in held
               PROVE  IsRam(page)
    BY DEF OnlyRamHandedOut
  <2>1. phase = "ready"
    BY DEF IInv, LoopInv
  <2>2. page \in Usable(total_pages)
    BY <2>1 DEF ScanInv
  <2>3. page \in Nat /\ Declared(page) /\ mbi \in BootInfos
    BY <2>2 DEF Usable, IInv, TypeOK
  <2>. QED  BY <2>3, DeclaredIsRam
<1>. QED  BY <1>1, ScanInvariance, PTL
=============================================================================
