-------------------------------- MODULE PMM --------------------------------
(***************************************************************************)
(* The physical memory manager of mm/pmm.c: a bitmap with one bit per      *)
(* page frame (set = used), a counter of free pages, the loops of pmm_init *)
(* that carve the free pages out of the Multiboot memory map, and the      *)
(* allocator.  Each iteration of a loop of pmm_init is a step, so that the *)
(* running counter can be compared with the bitmap at every point.         *)
(*                                                                         *)
(* Addresses are natural numbers below AddrSpace (2^32 in the code); the   *)
(* Multiboot map describes 64-bit addresses, of which the code reads the   *)
(* low word only (Low).                                                    *)
(***************************************************************************)
EXTENDS Integers, Sequences, FiniteSets, FiniteSetsExt

CONSTANTS
    PAGE_SIZE,      \* bytes in a page frame
    WordBits,       \* bits in a word of the bitmap (32)
    WordBytes,      \* bytes in a word of the bitmap (sizeof(uint32_t))
    AddrSpace,      \* number of addresses a uint32_t can hold (2^32)
    DefaultTop,     \* max_addr when the memory map says nothing (16 MB)
    LowMemory,      \* first address freed without a memory map (1 MB)
    KernelStart,    \* &_kernel_start
    KernelEnd,      \* &_kernel_end
    BootInfos       \* the multiboot_info_t values a boot loader may pass

(***************************************************************************)
(* A boot record: whether it carries a memory map or only mem_upper, the   *)
(* entries of the map, and the top of memory that mem_upper stands for.    *)
(***************************************************************************)
BootInfo(info) ==
    /\ info.kind \in {"mmap", "mem_upper", "none"}
    /\ info.mmap \in Seq([type : Nat, addr : Nat, len : Nat])
    /\ info.top \in 0 .. AddrSpace - 1

ASSUME GeometryAssumption ==
    /\ PAGE_SIZE \in Nat \ {0}
    /\ WordBits \in Nat \ {0}
    /\ WordBytes \in Nat \ {0}
    /\ AddrSpace \in Nat \ {0}
    /\ DefaultTop \in 0 .. AddrSpace - 1
    /\ LowMemory \in Nat
    /\ KernelStart \in Nat
    /\ KernelEnd \in Nat
    /\ KernelStart <= KernelEnd
    /\ LowMemory % PAGE_SIZE = 0
    /\ \A info \in BootInfos : BootInfo(info)

PAGE_INDEX(addr) == addr \div PAGE_SIZE
ALIGN_UP(addr) == ((addr + PAGE_SIZE - 1) \div PAGE_SIZE) * PAGE_SIZE
Low(addr) == addr % AddrSpace

Available(entry) == entry.type = 1
EntryEnd(entry) == Low(Low(entry.addr) + Low(entry.len))

\* max_addr: the highest end of an available region, never below the default.
max_addr(info) ==
    CASE info.kind = "mmap" ->
            Max({DefaultTop} \cup
                {EntryEnd(info.mmap[i]) :
                    i \in {j \in DOMAIN info.mmap : Available(info.mmap[j])}})
      [] info.kind = "mem_upper" -> info.top
      [] OTHER -> DefaultTop

total_pages_of(info) == PAGE_INDEX(max_addr(info))
bitmap_size_of(pages) == (pages + WordBits - 1) \div WordBits

\* The bitmap lies on the first page boundary behind the kernel image.
bitmap_addr == ALIGN_UP(KernelEnd)

\* The three ranges pmm_init reserves, each from first to last page inclusive.
ReserveFirst(r, pages) ==
    CASE r = "null"   -> 0
      [] r = "kernel" -> PAGE_INDEX(KernelStart)
      [] r = "bitmap" -> PAGE_INDEX(bitmap_addr)
ReserveLast(r, pages) ==
    CASE r = "null"   -> 0
      [] r = "kernel" -> PAGE_INDEX(KernelEnd)
      [] r = "bitmap" ->
            PAGE_INDEX(bitmap_addr + bitmap_size_of(pages) * WordBytes)

ReservedRanges == {"null", "kernel", "bitmap"}

\* The kernel image and the bitmap lie in memory that the bitmap describes:
\* the boot loader has put the kernel there.
ASSUME KernelFitsAssumption ==
    \A info \in BootInfos :
        /\ total_pages_of(info) \in Nat
        /\ \A r \in ReservedRanges :
               /\ ReserveFirst(r, total_pages_of(info)) \in Nat
               /\ ReserveLast(r, total_pages_of(info))
                      \in 0 .. total_pages_of(info) - 1

----------------------------------------------------------------------------
VARIABLES
    mbi,            \* the boot record
    phase,          \* which loop of pmm_init runs; "ready" once it returned
    entry,          \* loop variable: index of the memory map entry
    p,              \* loop variable: page (or page offset) within the loop
    bitmap,         \* the set of bits that are 1
    total_pages,
    free_pages,
    held            \* history: pages handed out and not yet given back

vars == <<mbi, phase, entry, p, bitmap, total_pages, free_pages, held>>

bits == 0 .. bitmap_size_of(total_pages) * WordBits - 1
bitmap_test(page) == page \in bitmap
bitmap_set(page) == bitmap' = bitmap \cup {page}
bitmap_clear(page) == bitmap' = bitmap \ {page}

ReservedPages(r) ==
    ReserveFirst(r, total_pages) .. ReserveLast(r, total_pages)
Reserved == UNION {ReservedPages(r) : r \in ReservedRanges}

Init ==
    /\ mbi \in BootInfos
    /\ phase = "boot"
    /\ entry = 1
    /\ p = 0
    /\ bitmap = {}
    /\ total_pages = 0
    /\ free_pages = 0
    /\ held = {}

(***************************************************************************)
(* pmm_init                                                                *)
(***************************************************************************)
\* Mutant: the loop runs to i <= bitmap_size.
AllBitsSetTooFar(pages) == 0 .. (bitmap_size_of(pages) + 1) * WordBits - 1

AllBitsSet(pages) == 0 .. bitmap_size_of(pages) * WordBits - 1

SizeMemory ==
    /\ phase = "boot"
    /\ total_pages' = total_pages_of(mbi)
    /\ bitmap' = AllBitsSet(total_pages_of(mbi))
    /\ free_pages' = 0
    /\ IF mbi.kind = "mmap"
       THEN phase' = "mmap" /\ p' = 0
       ELSE phase' = "fallback" /\ p' = PAGE_INDEX(LowMemory)
    /\ UNCHANGED <<mbi, entry, held>>

\* Mutant: page_count rounds up.
EntryPagesRoundedUp(e) ==
    IF Available(e) THEN PAGE_INDEX(Low(e.len) + PAGE_SIZE - 1) ELSE 0

EntryPages(e) == IF Available(e) THEN PAGE_INDEX(Low(e.len)) ELSE 0

\* Mutant: the bit is not tested before the page is counted.
FreeRegionPageUntested ==
    /\ phase = "mmap"
    /\ entry \in DOMAIN mbi.mmap
    /\ p < EntryPages(mbi.mmap[entry])
    /\ LET page == PAGE_INDEX(Low(mbi.mmap[entry].addr)) + p
       IN  IF page < total_pages
           THEN bitmap_clear(page) /\ free_pages' = free_pages + 1
           ELSE UNCHANGED <<bitmap, free_pages>>
    /\ p' = p + 1
    /\ UNCHANGED <<mbi, phase, entry, total_pages, held>>

\* One page of one available region: counted only if it was still set.
FreeRegionPage ==
    /\ phase = "mmap"
    /\ entry \in DOMAIN mbi.mmap
    /\ p < EntryPages(mbi.mmap[entry])
    /\ LET page == PAGE_INDEX(Low(mbi.mmap[entry].addr)) + p
       IN  IF page < total_pages /\ bitmap_test(page)
           THEN bitmap_clear(page) /\ free_pages' = free_pages + 1
           ELSE UNCHANGED <<bitmap, free_pages>>
    /\ p' = p + 1
    /\ UNCHANGED <<mbi, phase, entry, total_pages, held>>

NextRegion ==
    /\ phase = "mmap"
    /\ entry \in DOMAIN mbi.mmap
    /\ p >= EntryPages(mbi.mmap[entry])
    /\ entry' = entry + 1
    /\ p' = 0
    /\ UNCHANGED <<mbi, phase, bitmap, total_pages, free_pages, held>>

FreeFallbackPage ==
    /\ phase = "fallback"
    /\ p < total_pages
    /\ bitmap_clear(p)
    /\ free_pages' = free_pages + 1
    /\ p' = p + 1
    /\ UNCHANGED <<mbi, phase, entry, total_pages, held>>

EndFreeing ==
    /\ \/ phase = "mmap" /\ entry \notin DOMAIN mbi.mmap
       \/ phase = "fallback" /\ p >= total_pages
    /\ phase' = "null"
    /\ p' = 0
    /\ UNCHANGED <<mbi, entry, bitmap, total_pages, free_pages, held>>

Decrement(n) == IF n > 0 THEN n - 1 ELSE 0

ReservePage ==
    /\ phase \in ReservedRanges
    /\ p <= ReserveLast(phase, total_pages)
    /\ IF bitmap_test(p)
       THEN UNCHANGED <<bitmap, free_pages>>
       ELSE bitmap_set(p) /\ free_pages' = Decrement(free_pages)
    /\ p' = p + 1
    /\ UNCHANGED <<mbi, phase, entry, total_pages, held>>

NextPhase == [null |-> "kernel", kernel |-> "bitmap", bitmap |-> "ready"]

\* Mutant: the loops stop before the last page of the range.
EndReservingEarly ==
    /\ phase \in ReservedRanges
    /\ p >= ReserveLast(phase, total_pages)
    /\ phase' = NextPhase[phase]
    /\ p' = IF phase = "bitmap" THEN 0
            ELSE ReserveFirst(NextPhase[phase], total_pages)
    /\ UNCHANGED <<mbi, entry, bitmap, total_pages, free_pages, held>>

EndReserving ==
    /\ phase \in ReservedRanges
    /\ p > ReserveLast(phase, total_pages)
    /\ phase' = NextPhase[phase]
    /\ p' = IF phase = "bitmap" THEN 0
            ELSE ReserveFirst(NextPhase[phase], total_pages)
    /\ UNCHANGED <<mbi, entry, bitmap, total_pages, free_pages, held>>

pmm_init ==
    \/ SizeMemory \/ FreeRegionPage \/ NextRegion \/ FreeFallbackPage
    \/ EndFreeing \/ ReservePage \/ EndReserving

(***************************************************************************)
(* The allocator.  The word-by-word scan finds the lowest clear bit; a     *)
(* result of 0 is the failure value.                                       *)
(***************************************************************************)
\* Mutant: the scan of a word stops before its last bit.
ClearBitsButLast == {b \in bits \ bitmap : b % WordBits # WordBits - 1}

ClearBits == bits \ bitmap

LowestClear(page) == page \in ClearBits /\ \A q \in ClearBits : page <= q

PageFound == \E page \in ClearBits : LowestClear(page) /\ page < total_pages

pmm_alloc_page(page) ==
    /\ phase = "ready"
    /\ LowestClear(page)
    /\ page < total_pages
    /\ bitmap_set(page)
    /\ free_pages' = Decrement(free_pages)
    /\ held' = held \cup {page}
    /\ UNCHANGED <<mbi, phase, entry, p, total_pages>>

pmm_alloc_fails ==
    /\ phase = "ready"
    /\ ~PageFound
    /\ UNCHANGED vars

\* A caller gives back a page it holds, or, by mistake, one that is already
\* free or one beyond the end of memory; the code must ignore those two.
FreeableAddrs ==
    {addr \in 0 .. AddrSpace - 1 :
        \/ PAGE_INDEX(addr) \in held
        \/ PAGE_INDEX(addr) \in bits \ bitmap
        \/ PAGE_INDEX(addr) >= total_pages}

pmm_free_page(addr) ==
    /\ phase = "ready"
    /\ LET page == PAGE_INDEX(addr)
       IN  IF page < total_pages /\ bitmap_test(page)
           THEN /\ bitmap_clear(page)
                /\ free_pages' = free_pages + 1
                /\ held' = held \ {page}
           ELSE UNCHANGED <<bitmap, free_pages, held>>
    /\ UNCHANGED <<mbi, phase, entry, p, total_pages>>

Next ==
    \/ pmm_init
    \/ \E page \in ClearBits : pmm_alloc_page(page)
    \/ pmm_alloc_fails
    \/ \E addr \in FreeableAddrs : pmm_free_page(addr)

Spec == Init /\ [][Next]_vars

----------------------------------------------------------------------------
Phases == {"boot", "mmap", "fallback", "null", "kernel", "bitmap", "ready"}

(***************************************************************************)
(* Types of the variables of mm/pmm.c and of the loop variables.           *)
(***************************************************************************)
TypeOK ==
    /\ mbi \in BootInfos
    /\ phase \in Phases
    /\ entry \in Nat
    /\ p \in Nat
    /\ total_pages \in Nat
    /\ free_pages \in Nat
    /\ bitmap \subseteq bits
    /\ held \subseteq 0 .. total_pages - 1

(***************************************************************************)
(* The counter free_pages, which pmm_init, pmm_alloc_page and              *)
(* pmm_free_page update by one in six places, is at every moment the       *)
(* number of pages below total_pages whose bit is clear: overlapping map   *)
(* entries, double frees and frees beyond memory never make it drift.      *)
(***************************************************************************)
FreeCountExact ==
    free_pages = Cardinality((0 .. total_pages - 1) \ bitmap)

(***************************************************************************)
(* pmm_alloc_page returns 0, out of memory, exactly when the counter says  *)
(* that no page is free: the scan overlooks no page, neither at the end of *)
(* a word nor in the last word, which only partly stands for pages.        *)
(***************************************************************************)
FailureMeansFull == phase = "ready" => (PageFound <=> free_pages > 0)

(***************************************************************************)
(* No page of the null guard, of the kernel image or of the bitmap is ever *)
(* handed out, and a page handed out is marked used until its holder gives *)
(* it back: no page has two holders.                                       *)
(***************************************************************************)
HeldAreSafe ==
    /\ held \cap Reserved = {}
    /\ held \subseteq bitmap
    /\ phase = "ready" => Reserved \subseteq bitmap

(***************************************************************************)
(* The facts about the loops of pmm_init that make the properties above    *)
(* inductive: what has been sized, which bits the current loop may still   *)
(* rely on, and which ranges are already reserved.                         *)
(***************************************************************************)
LoopInv ==
    /\ phase = "boot" => total_pages = 0 /\ bitmap = {} /\ free_pages = 0
    /\ phase # "boot" =>
          /\ total_pages = total_pages_of(mbi)
          /\ bits \ (0 .. total_pages - 1) \subseteq bitmap
    /\ phase # "ready" => held = {}
    /\ phase = "fallback" => p .. total_pages - 1 \subseteq bitmap
    /\ phase \in ReservedRanges =>
          ReserveFirst(phase, total_pages) .. p - 1 \subseteq bitmap
    /\ phase \in {"kernel", "bitmap", "ready"} =>
          ReservedPages("null") \subseteq bitmap
    /\ phase \in {"bitmap", "ready"} => ReservedPages("kernel") \subseteq bitmap
    /\ phase = "ready" => ReservedPages("bitmap") \subseteq bitmap

IInv == TypeOK /\ FreeCountExact /\ HeldAreSafe /\ LoopInv

(***************************************************************************)
(* What the Multiboot map really says about a page, in 64-bit addresses,   *)
(* and what pmm_init reads in it: the low word of each address, from the   *)
(* page a region starts in as many pages as its length holds.              *)
(***************************************************************************)
IsRamOf(page, addr, len) ==
    addr <= page * PAGE_SIZE /\ (page + 1) * PAGE_SIZE <= addr + len

IsRam(page) ==
    IF mbi.kind = "mmap"
    THEN \E i \in DOMAIN mbi.mmap :
            /\ Available(mbi.mmap[i])
            /\ IsRamOf(page, mbi.mmap[i].addr, mbi.mmap[i].len)
    ELSE page * PAGE_SIZE >= LowMemory

Declared(page) ==
    IF mbi.kind = "mmap"
    THEN \E i \in DOMAIN mbi.mmap :
            /\ Available(mbi.mmap[i])
            /\ page >= PAGE_INDEX(Low(mbi.mmap[i].addr))
            /\ page < PAGE_INDEX(Low(mbi.mmap[i].addr))
                        + PAGE_INDEX(Low(mbi.mmap[i].len))
    ELSE page >= PAGE_INDEX(LowMemory)

(***************************************************************************)
(* The pages that the kernel may use: those of the memory that the map, as *)
(* it is read, declares available, less the ones that must be reserved.    *)
(***************************************************************************)
Usable(pages) ==
    {page \in 0 .. pages - 1 : Declared(page)} \
        UNION {ReserveFirst(r, pages) .. ReserveLast(r, pages) :
                   r \in ReservedRanges}

\* The free pages of the abstract allocator: until pmm_init returns, the
\* usable memory of the boot record; then, the clear bits.
FreePages ==
    IF phase = "ready" THEN ClearBits ELSE Usable(total_pages_of(mbi))

Promise == INSTANCE PageAllocator WITH free <- FreePages

(***************************************************************************)
(* The bitmap allocator is a set of free pages that starts as exactly the  *)
(* usable memory, nothing lost and nothing invented by the loops of        *)
(* pmm_init, and from which pmm_alloc_page takes the lowest page and       *)
(* nothing else ever does.                                                 *)
(***************************************************************************)
ImplementsPromise == Promise!Spec

(***************************************************************************)
(* pmm.c:63, "Unmark available memory regions according to Multiboot       *)
(* memory map": a page handed out is available memory, to its last byte,   *)
(* on every machine whose map stays below 4 GB and whose available regions *)
(* start on page boundaries.  An entry beyond 4 GB is read modulo 4 GB and *)
(* frees as many pages from the bottom of memory; one that starts inside a *)
(* page frees that page with the bytes before the region.                  *)
(***************************************************************************)
MapBelowAddrSpace ==
    \A i \in DOMAIN mbi.mmap : mbi.mmap[i].addr + mbi.mmap[i].len <= AddrSpace

MapPageAligned ==
    \A i \in DOMAIN mbi.mmap :
        Available(mbi.mmap[i]) => mbi.mmap[i].addr % PAGE_SIZE = 0

OnlyRamHandedOut ==
    MapBelowAddrSpace /\ MapPageAligned => \A page \in held : IsRam(page)

(***************************************************************************)
(* How far pmm_init has got: in each phase the clear bits are exactly the  *)
(* pages declared by the entries already read, less the ranges already     *)
(* reserved.  This is the invariant behind ImplementsPromise.              *)
(***************************************************************************)
Scanned(page) ==
    \/ \E i \in 1 .. entry - 1 :
          /\ Available(mbi.mmap[i])
          /\ page >= PAGE_INDEX(Low(mbi.mmap[i].addr))
          /\ page < PAGE_INDEX(Low(mbi.mmap[i].addr))
                      + PAGE_INDEX(Low(mbi.mmap[i].len))
    \/ /\ entry \in DOMAIN mbi.mmap
       /\ page >= PAGE_INDEX(Low(mbi.mmap[entry].addr))
       /\ page < PAGE_INDEX(Low(mbi.mmap[entry].addr)) + p

ReservedBefore ==
    CASE phase = "null" -> {}
      [] phase = "kernel" -> ReservedPages("null")
      [] phase = "bitmap" -> ReservedPages("null") \cup ReservedPages("kernel")
      [] OTHER -> {}

ScanInv ==
    /\ phase = "mmap" =>
          /\ mbi.kind = "mmap"
          /\ entry \in 1 .. Len(mbi.mmap) + 1
          /\ entry \in DOMAIN mbi.mmap => p <= EntryPages(mbi.mmap[entry])
          /\ entry \notin DOMAIN mbi.mmap => p = 0
          /\ bits \ bitmap = {page \in 0 .. total_pages - 1 : Scanned(page)}
    /\ phase = "boot" => entry = 1
    /\ phase = "fallback" =>
          /\ mbi.kind # "mmap"
          /\ p >= PAGE_INDEX(LowMemory)
          /\ bits \ bitmap = {page \in 0 .. total_pages - 1 :
                                page \in PAGE_INDEX(LowMemory) .. p - 1}
    /\ phase \in ReservedRanges =>
          /\ p >= ReserveFirst(phase, total_pages)
          /\ p <= ReserveLast(phase, total_pages) + 1
          /\ bits \ bitmap =
                {page \in 0 .. total_pages - 1 : Declared(page)} \
                    (ReservedBefore \cup
                        ReserveFirst(phase, total_pages) .. p - 1)
    /\ phase = "ready" => (bits \ bitmap) \cup held \subseteq Usable(total_pages)
=============================================================================
