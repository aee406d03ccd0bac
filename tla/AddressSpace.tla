---------------------------- MODULE AddressSpace ----------------------------
(***************************************************************************)
(* The address space of mm/vmm.c and everything that maps into it:         *)
(* process_create, elf_load_segments, the sbrk, mmap, munmap and exec      *)
(* system calls and vesa_init.                                             *)
(*                                                                         *)
(* There is one page directory, the kernel's: a process has a page of its  *)
(* own for one, but nothing is ever mapped in it.  The kernel reaches page *)
(* tables at their physical address, which works as long as the page there *)
(* is mapped to itself: in the identity mapped first table (4 MB) until    *)
(* somebody maps over it.  Elsewhere the kernel faults, or writes over     *)
(* what is mapped there: it is lost, and the model ends (panic).           *)
(* The physical page allocator is the first fit of PMM.                    *)
(*                                                                         *)
(* A virtual page, a frame and an index are natural numbers; sizes and the *)
(* break are in bytes, PAGE_SIZE to a page, and wrap around at AddrBytes.  *)
(***************************************************************************)
EXTENDS Integers, FiniteSets, FiniteSetsExt, Sequences, SequencesExt, Functions

CONSTANTS
    PAGE_SIZE,
    Entries,            \* entries of a page table (1024)
    Tables,             \* entries of the page directory (1024)
    Ram,                \* sets of frames that may be free when vmm_init runs
    StackPages,         \* PROC_STACK_SIZE in pages (256)
    HeapPages,          \* pages of the initial heap (16)
    PROC_HEAP_BASE, PROC_STACK_BASE, EspGap, MmapBase,
    FbPage, FbPages,    \* first page and pages of the framebuffer; 0 without VBE
    Images,             \* ELF files: sequences of PT_LOAD segments
    Procs,              \* process slots
    MaxCalls,           \* bound: calls made after the boot
    Increments, MmapCalls   \* arguments of sbrk; <<addr, len>> of m(un)map

AddrBytes == PAGE_SIZE * Entries * Tables
NONE == -1              \* an entry that is not present
Page(addr) == (addr % AddrBytes) \div PAGE_SIZE
PagesFor(len) == ((len + PAGE_SIZE - 1) % AddrBytes) \div PAGE_SIZE
PAGE_DIR_INDEX(v) == v \div Entries
PAGE_TBL_INDEX(v) == v % Entries
Identity == [i \in 0 .. Entries - 1 |-> i]
Kernel == 0 .. Entries - 1          \* the identity mapped pages
Space == 0 .. Tables * Entries - 1
UserPages == Space \ Kernel
Framebuffer == FbPage .. FbPage + FbPages - 1

\* The i-th page from address addr on, and the first n of them.
PageAt(addr, i) == Page(addr + (i - 1) * PAGE_SIZE)
Run(addr, n) == {PageAt(addr, i) : i \in 1 .. n}

ASSUME AddressAssumption ==
    /\ {PAGE_SIZE, Entries, Tables} \subseteq Nat \ {0}
    /\ {StackPages, HeapPages, FbPage, FbPages, MmapBase} \subseteq Nat
    /\ \A ram \in Ram : ram \subseteq Space \ {0}
    /\ Framebuffer \subseteq Space \ UNION Ram
    /\ PROC_HEAP_BASE % PAGE_SIZE = 0 /\ PAGE_SIZE <= PROC_HEAP_BASE
    /\ PROC_HEAP_BASE + HeapPages * PAGE_SIZE < AddrBytes
    /\ {PROC_HEAP_BASE, PROC_STACK_BASE - StackPages * PAGE_SIZE} \subseteq Nat

\* Arguments are numbers of 32 bits.  Images are linked for the user's pages,
\* which elf_load_segments does not check.
ASSUME ProgramAssumption ==
    /\ \A img \in Images : img \in Seq(ToSet(img)) /\ \A s \in ToSet(img) :
           /\ {s.vaddr, s.memsz} \subseteq Nat
           /\ s.vaddr + s.memsz + PAGE_SIZE - 1 < AddrBytes
           /\ Page(s.vaddr) \in UserPages
    /\ Increments \subseteq 0 .. AddrBytes - 1
    /\ \A c \in MmapCalls : {c[1], c[2]} \subseteq 0 .. AddrBytes - 1

VARIABLES
    boot,       \* the next step of kernel_main: "vmm", "vesa", then "up"
    calls,      \* calls made since
    vm,         \* free: frames, dir: page_directory, tab: frame -> page table,
                \* pd: its frame, panic: the kernel is lost; histories:
                \* noTable, skipped: an allocation of a table, of a page failed,
                \* made: the mappings of this call, holds: frame -> segments
    proc,       \* slot -> [dir, brk, brk_max, view] or NULL
    owed,       \* history: pages that calls have promised and not taken back
    loaded      \* history: the image the last step has loaded, or <<>>

vars == <<boot, calls, vm, proc, owed, loaded>>
NULL == [dir |-> NONE]

Init ==
    /\ boot = "vmm"
    /\ calls = 0
    /\ vm \in [free : Ram, dir : {[i \in 0 .. Tables - 1 |-> NONE]},
               tab : {<<>>}, pd : {NONE}, panic : {FALSE}, noTable : {FALSE},
               skipped : {FALSE}, made : {<<>>}, holds : {<<>>}]
    /\ proc = [p \in Procs |-> NULL]
    /\ owed = {}
    /\ loaded = <<>>

----------------------------------------------------------------------------
(***************************************************************************)
(* Operations on a value m of vm.  Nothing happens after a panic.          *)
(***************************************************************************)
pmm_alloc_page(m) == IF m.free = {} THEN 0 ELSE Min(m.free)
Taken(m) ==
    IF m.panic THEN m ELSE [m EXCEPT !.free = @ \ {pmm_alloc_page(m)}]

vmm_get_phys(m, v) ==
    LET t == m.dir[PAGE_DIR_INDEX(v)]
    IN  IF t = NONE THEN NONE ELSE m.tab[t][PAGE_TBL_INDEX(v)]
Mapped(m, v) == vmm_get_phys(m, v) # NONE

\* The kernel reads or writes frame f at its physical address.
Touched(m, f) ==
    IF m.panic \/ vmm_get_phys(m, f) = f THEN m ELSE [m EXCEPT !.panic = TRUE]

\* The function that has y at x and is fn elsewhere.
With(fn, x, y) == [i \in DOMAIN fn \cup {x} |-> IF i = x THEN y ELSE fn[i]]

\* Frame f, cleared, becomes the page table for v.
TableAt(m, v, f) ==
    [m EXCEPT !.dir = [@ EXCEPT ![PAGE_DIR_INDEX(v)] = f],
              !.tab = With(@, f, [j \in 0 .. Entries - 1 |-> NONE]),
              !.noTable = @ \/ f = 0]

\* Mutant: the new page table is not entered in the free map as used.
WithTableShared(m, v) ==
    LET f == pmm_alloc_page(m)
    IN  IF m.panic \/ m.dir[PAGE_DIR_INDEX(v)] # NONE THEN m
        ELSE TableAt(Touched(m, f), v, f)

\* A page table for v, if there is none; out of memory, page 0 becomes one.
WithTable(m, v) ==
    LET f == pmm_alloc_page(m)
    IN  IF m.panic \/ m.dir[PAGE_DIR_INDEX(v)] # NONE THEN m
        ELSE TableAt(Touched(Taken(m), f), v, f)

\* The way through the page directory to the table for v, if there is one.
Reached(m, v) ==
    LET t == m.dir[PAGE_DIR_INDEX(v)]
        d == Touched(m, m.pd)
    IN  IF t = NONE THEN d ELSE Touched(d, t)

\* Table t with entry f for page v.
Entered(tab, t, v, f) == With(tab, t, [tab[t] EXCEPT ![PAGE_TBL_INDEX(v)] = f])

\* Page v is mapped to frame f in its page table.
EntryAt(m, v, f) ==
    [m EXCEPT !.tab = Entered(@, m.dir[PAGE_DIR_INDEX(v)], v, f),
              !.made = With(@, v, f),
              !.holds = With(@, f, {})]

vmm_map_page(m, v, f) ==
    LET n == Reached(WithTable(Touched(m, m.pd), v), v)
    IN  IF n.panic THEN n ELSE EntryAt(n, v, f)

vmm_unmap_page(m, v) ==
    LET t == m.dir[PAGE_DIR_INDEX(v)]
        n == Reached(m, v)
    IN  IF n.panic \/ t = NONE THEN n
        ELSE [n EXCEPT !.tab = Entered(@, t, v, NONE)]

\* The loop body of process_create, sbrk and mmap: a page that cannot be had
\* is skipped.
MapFresh(m, v) ==
    LET f == pmm_alloc_page(m)
    IN  IF m.panic THEN m
        ELSE IF f = 0 THEN [m EXCEPT !.skipped = TRUE]
        ELSE vmm_map_page(Taken(m), v, f)

\* The loops over n pages.
MapRun(m, addr, n) ==
    LET after[i \in 0 .. n] ==
            IF i = 0 THEN m ELSE MapFresh(after[i - 1], PageAt(addr, i))
    IN  after[n]
MapSame(m, first, n) ==
    LET after[i \in 0 .. n] ==
            IF i = 0 THEN m
            ELSE vmm_map_page(after[i - 1], first + i - 1, first + i - 1)
    IN  after[n]
UnmapRun(m, addr, n) ==
    LET after[i \in 0 .. n] ==
            IF i = 0 THEN m ELSE vmm_unmap_page(after[i - 1], PageAt(addr, i))
    IN  after[n]

\* Mutant: the loop runs to page <= page_end.
page_end_included(s) == Page(s.vaddr + s.memsz + PAGE_SIZE - 1) + 1

page_end(s) == Page(s.vaddr + s.memsz + PAGE_SIZE - 1)
SegPages(s) == Page(s.vaddr) .. page_end(s) - 1

\* The pages that bytes of the segment lie in.
BytePages(s) == {Page(a) : a \in s.vaddr .. s.vaddr + s.memsz - 1}

\* One PT_LOAD segment: pages first, then the memset and memcpy, which fault
\* on a page that is not mapped.  ok is cleared when a page cannot be had.
Loading(m, ok) == [m |-> m, ok |-> ok]
SegPage(r, v) ==
    LET f == pmm_alloc_page(r.m)
    IN  IF ~r.ok THEN r
        ELSE IF f = 0 THEN Loading(r.m, FALSE)
        ELSE Loading(vmm_map_page(Taken(r.m), v, f), TRUE)
SegMapped(m, s) ==
    LET after[i \in 0 .. page_end(s) - Page(s.vaddr)] ==
            IF i = 0 THEN Loading(m, TRUE)
            ELSE SegPage(after[i - 1], Page(s.vaddr) + i - 1)
    IN  after[page_end(s) - Page(s.vaddr)]
Filled(m, s) ==
    LET frames == {vmm_get_phys(m, v) : v \in BytePages(s)}
    IN  IF m.panic THEN m
        ELSE IF NONE \in frames THEN [m EXCEPT !.panic = TRUE]
        ELSE [m EXCEPT !.holds =
                [f \in DOMAIN @ |-> IF f \in frames THEN @[f] \cup {s} ELSE @[f]]]
LoadSegment(r, s) ==
    LET q == SegMapped(r.m, s)
    IN  IF ~r.ok THEN r ELSE IF ~q.ok THEN q ELSE Loading(Filled(q.m, s), TRUE)

elf_load_segments(m, img) ==
    LET after[i \in 0 .. Len(img)] ==
            IF i = 0 THEN Loading(m, TRUE) ELSE LoadSegment(after[i - 1], img[i])
    IN  after[Len(img)]

Fresh(m) == [m EXCEPT !.made = <<>>]
Ready ==
    /\ boot = "up" /\ ~vm.panic /\ UNCHANGED boot
    /\ calls < MaxCalls /\ calls' = calls + 1

----------------------------------------------------------------------------
\* vmm_init, before paging: the two pages are reached wherever they are.
vmm_init ==
    LET d == pmm_alloc_page(vm)
        m == Taken(vm)
        f == pmm_alloc_page(m)
    IN  /\ boot = "vmm" /\ boot' = "vesa" /\ UNCHANGED calls
        /\ vm' = [Taken(m) EXCEPT !.pd = d, !.dir[0] = f,
                                  !.tab = [i \in {f} |-> Identity]]
        /\ UNCHANGED <<proc, owed, loaded>>

\* vesa_init maps the framebuffer, if there is one, at its own address.
vesa_init ==
    /\ boot = "vesa" /\ boot' = "up" /\ UNCHANGED calls
    /\ vm' = MapSame(Fresh(vm), FbPage, FbPages)
    /\ loaded' = <<>>
    /\ UNCHANGED <<proc, owed>>

stack_bottom == PROC_STACK_BASE - StackPages * PAGE_SIZE
user_esp == PROC_STACK_BASE - EspGap

\* process_create: directory page, identity map, stack, heap, segments.  The
\* kernel stack may be refused (kstack); a failure keeps every page.
process_create(p, img, kstack) ==
    LET d == pmm_alloc_page(vm)
        m == Touched(Taken(Fresh(vm)), d)
        stack == MapRun(MapSame(m, 0, Entries), stack_bottom, StackPages)
        heap == MapRun(stack, PROC_HEAP_BASE, HeapPages)
        r == elf_load_segments(heap, img)
    IN  /\ Ready /\ proc[p] = NULL
        /\ IF d = 0 THEN UNCHANGED <<vm, proc, owed, loaded>>
           ELSE /\ vm' = r.m
                /\ IF r.ok /\ kstack /\ ~r.m.panic
                   THEN /\ proc' = [proc EXCEPT ![p] =
                            [dir |-> d, brk |-> PROC_HEAP_BASE,
                             brk_max |-> PROC_HEAP_BASE + HeapPages * PAGE_SIZE,
                             view |-> [v \in DOMAIN r.m.made \ Kernel |->
                                        r.m.made[v]]]]
                        /\ owed' = owed \cup (UNION {SegPages(s) : s \in ToSet(img)})
                            \cup Run(stack_bottom, StackPages)
                            \cup Run(PROC_HEAP_BASE, HeapPages)
                        /\ loaded' = img
                   ELSE loaded' = <<>> /\ UNCHANGED <<proc, owed>>

\* process_destroy gives back the process_t and the kernel stack only.
process_destroy(p) ==
    /\ Ready /\ proc[p] # NULL
    /\ proc' = [proc EXCEPT ![p] = NULL]
    /\ UNCHANGED <<vm, owed, loaded>>

----------------------------------------------------------------------------
\* A system call of process p that leaves memory m and promises pages.
Call(p, m, pages) ==
    /\ vm' = m
    /\ proc' = [proc EXCEPT ![p].view = m.made @@ @]
    /\ owed' = IF m.panic THEN owed ELSE owed \cup pages

sys_exec(p, img) ==
    LET r == elf_load_segments(Fresh(vm), img)
    IN  /\ Ready /\ proc[p] # NULL
        /\ Call(p, r.m, IF r.ok THEN UNION {SegPages(s) : s \in ToSet(img)} ELSE {})
        /\ loaded' = IF r.ok /\ ~r.m.panic THEN img ELSE <<>>

\* Mutant: the number of new pages is rounded down.
SbrkPagesRoundedDown(increment) == increment \div PAGE_SIZE

SbrkPages(increment) == PagesFor(increment)

\* sys_sbrk: within brk_max only the break moves; beyond, brk_max grows by
\* the pages of the increment, whether or not all of them could be had.
sys_sbrk(p, increment) ==
    LET brk == (proc[p].brk + increment) % AddrBytes
        n == SbrkPages(increment)
        m == MapRun(Fresh(vm), proc[p].brk_max, n)
        grow == brk > proc[p].brk_max
        max == (proc[p].brk_max + n * PAGE_SIZE) % AddrBytes
        q == [proc[p] EXCEPT !.brk = brk,
                             !.brk_max = IF grow THEN max ELSE @,
                             !.view = IF grow THEN m.made @@ @ ELSE @]
    IN  /\ Ready /\ proc[p] # NULL
        /\ vm' = IF grow THEN m ELSE vm
        /\ proc' = [proc EXCEPT ![p] = q]
        /\ owed' = IF grow /\ proc[p].brk \in PROC_HEAP_BASE .. proc[p].brk_max
                   THEN owed \cup Page(proc[p].brk_max) .. Page(brk - 1) ELSE owed
        /\ loaded' = <<>>

sys_mmap(p, addr, len) ==
    LET start == IF addr = 0 THEN MmapBase ELSE addr
        n == PagesFor(len)
    IN  /\ Ready /\ proc[p] # NULL /\ len # 0
        /\ Call(p, MapRun(Fresh(vm), start, n), Run(start, n))
        /\ loaded' = <<>>

\* sys_munmap clears the entries and keeps the frames.
sys_munmap(p, addr, len) ==
    LET n == PagesFor(len)
    IN  /\ Ready /\ proc[p] # NULL
        /\ vm' = UnmapRun(vm, addr, n)
        /\ proc' = [proc EXCEPT ![p].view = Restrict(@, DOMAIN @ \ Run(addr, n))]
        /\ owed' = owed \ Run(addr, n)
        /\ loaded' = <<>>

Next ==
    \/ vmm_init
    \/ vesa_init
    \/ \E p \in Procs :
        \/ \E img \in Images, ok \in BOOLEAN : process_create(p, img, ok)
        \/ \E img \in Images : sys_exec(p, img)
        \/ process_destroy(p)
        \/ \E i \in Increments : sys_sbrk(p, i)
        \/ \E c \in MmapCalls : sys_mmap(p, c[1], c[2])
        \/ \E c \in MmapCalls : sys_munmap(p, c[1], c[2])

Spec == Init /\ [][Next]_vars

----------------------------------------------------------------------------
Live == {p \in Procs : proc[p] # NULL}
TableFrames == Range(vm.dir) \ {NONE}

\* Types of the address space and of the processes' view of it.
TypeOK ==
    /\ vm.free \subseteq UNION Ram
    /\ vm.dir \in [0 .. Tables - 1 -> (UNION Ram) \cup {0, NONE}]
    /\ TableFrames \subseteq DOMAIN vm.tab
    /\ \A f \in DOMAIN vm.tab :
           vm.tab[f] \in [0 .. Entries - 1 -> Space \cup {NONE}]
    /\ \A p \in Live : proc[p].brk \in 0 .. AddrBytes - 1
    /\ owed \subseteq Space

\* Every frame has one use: a page table serves one directory entry, a frame
\* is mapped at one user page, is not a page table or a directory at the same
\* time, and none of them is free; as long as vmm_map_page found a page for
\* every table it needed (it does not test the answer).
FramesHaveOneUse ==
    LET user == {v \in UserPages : Mapped(vm, v)}
        phys(v) == vmm_get_phys(vm, v)
        structs == TableFrames \cup {vm.pd} \cup {proc[p].dir : p \in Live}
    IN  boot # "vmm" /\ ~vm.noTable =>
            /\ \A i, j \in DOMAIN vm.dir :
                   vm.dir[i] = vm.dir[j] => i = j \/ vm.dir[i] = NONE
            /\ \A v, w \in user : phys(v) = phys(w) => v = w
            /\ \A v \in user : phys(v) \notin structs
            /\ vm.free \cap ({phys(v) : v \in user} \cup structs) = {}

\* What the calls have promised is there: the stack and heap of a process, the
\* segments of its image, the pages below its break, what mmap returned; unless
\* memory has run out, which sbrk and mmap do not report, or a negative
\* increment had moved the break below the heap, which sbrk accepts.  And the
\* kernel survives them: it is lost only when the frames below 4 MB have run
\* out, so that a directory or a table lies beyond the identity map, or when a
\* call, none of which looks at its addresses, has unmapped one of the kernel's
\* own pages or mapped another frame there.
PromisedPagesMapped ==
    /\ ~vm.skipped /\ ~vm.noTable /\ ~vm.panic => \A v \in owed : Mapped(vm, v)
    /\ vm.panic => \/ vm.free \cap Kernel = {}
                   \/ \E v \in Kernel : vmm_get_phys(vm, v) # v

\* A successful load leaves each segment's contents in all of its pages, but
\* for the pages that a later segment shares: those are mapped afresh, also for
\* a segment that begins inside a page and has no byte.
SegmentsLoaded ==
    \A i \in DOMAIN loaded : \A v \in BytePages(loaded[i]) :
        \/ \E j \in DOMAIN loaded :
               j > i /\ v \in BytePages(loaded[j]) \cup {Page(loaded[j].vaddr)}
        \/ loaded[i] \in vm.holds[vmm_get_phys(vm, v)]

\* Each process sees the pages that were mapped for it ("Load ELF segments into
\* user address space", process.c:75): the second process_create maps its own
\* over them, in the one page directory there is.
ProcessKeepsItsPages ==
    \A p \in Live : \A v \in DOMAIN proc[p].view :
        vmm_get_phys(vm, v) = proc[p].view[v]
=============================================================================
