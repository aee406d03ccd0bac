-------------------------------- MODULE Heap --------------------------------
(***************************************************************************)
(* The kernel heap of mm/heap.c on top of the page allocator: a linked     *)
(* list of blocks, first fit with splitting, expansion by pages of the     *)
(* PMM, and coalescing on every kfree.                                     *)
(*                                                                         *)
(* A block is a record of its address, its payload size and its free flag; *)
(* the list is the sequence of the blocks in the order of their next       *)
(* pointers.  The PMM is its abstract specification (PageAllocator): the   *)
(* set of free pages, of which pmm_alloc_page takes the lowest.            *)
(***************************************************************************)
EXTENDS Integers, Sequences, FiniteSets, SequencesExt

CONSTANTS
    PAGE_SIZE,      \* bytes in a page
    HDR,            \* sizeof(heap_block_t), 13 bytes packed
    ALIGN,          \* granularity of a request (4)
    SLACK,          \* smallest payload worth splitting off (16)
    HeapPages,      \* pages heap_init asks for
    InitialFree,    \* the sets of pages the PMM may have free at heap_init
    Sizes,          \* request sizes of the callers
    Arrays,         \* arguments <<count, size>> of kcalloc
    MaxLive,        \* bound: allocations the callers hold at a time
    OtherUsers      \* when other parts of the kernel take pages: before
                    \* heap_init ("boot"), after it ("ready"), or never

ASSUME HeapAssumption ==
    /\ {PAGE_SIZE, HDR, ALIGN, SLACK, HeapPages, MaxLive} \subseteq Nat \ {0}
    /\ HDR < PAGE_SIZE
    /\ \A pages \in InitialFree : pages \subseteq Nat \ {0} /\ IsFiniteSet(pages)
    /\ Sizes \subseteq Nat
    /\ Arrays \subseteq Nat \X Nat
    /\ OtherUsers \subseteq {"boot", "ready"}

VARIABLES
    status,         \* "boot", "ready", or "panic" after kernel_panic
    blocks,         \* the list that starts at heap_start
    free,           \* free pages of the PMM
    heapPages,      \* history: pages the PMM has given to the heap
    live,           \* history: what the callers hold, [ptr, want]
    short           \* history: an expansion got fewer pages than it needed

vars == <<status, blocks, free, heapPages, live, short>>

PMM == INSTANCE PageAllocator WITH held <- heapPages

CeilDiv(n, d) == (n + d - 1) \div d
ALIGN_UP(size) == CeilDiv(size, ALIGN) * ALIGN
Ptr(block) == block.addr + HDR
HeapBlock(addr, size, isFree) == [addr |-> addr, size |-> size, free |-> isFree]
BlockEnd(block) == block.addr + HDR + block.size

Init ==
    /\ status = "boot"
    /\ blocks = <<>>
    /\ free \in InitialFree
    /\ heapPages = {}
    /\ live = {}
    /\ short = FALSE

(***************************************************************************)
(* heap_init: the address of the first page is the start of the heap, the  *)
(* others are taken to follow it.                                          *)
(***************************************************************************)
heap_init ==
    /\ status = "boot"
    /\ LET taken == PMM!Lowest(free, HeapPages)
       IN  /\ free' = free \ taken
           /\ heapPages' = taken
           /\ IF Cardinality(taken) < HeapPages
              THEN status' = "panic" /\ UNCHANGED blocks
              ELSE /\ status' = "ready"
                   /\ blocks' = <<HeapBlock(Min(taken) * PAGE_SIZE,
                                            HeapPages * PAGE_SIZE - HDR, TRUE)>>
    /\ UNCHANGED <<live, short>>

\* Mutant: the header of the block is forgotten in the address of the rest.
SplitAtPayload(list, i, req) ==
    LET b == list[i]
        used == HeapBlock(b.addr, req, FALSE)
        rest == HeapBlock(b.addr + req, b.size - req - HDR, TRUE)
    IN  IF b.size >= req + HDR + SLACK
        THEN InsertAt(ReplaceAt(list, i, used), i + 1, rest)
        ELSE ReplaceAt(list, i, [b EXCEPT !.free = FALSE])

\* Take block i for a request, splitting off what is left if it is worth it.
Split(list, i, req) ==
    LET b == list[i]
        used == HeapBlock(b.addr, req, FALSE)
        rest == HeapBlock(b.addr + HDR + req, b.size - req - HDR, TRUE)
    IN  IF b.size >= req + HDR + SLACK
        THEN InsertAt(ReplaceAt(list, i, used), i + 1, rest)
        ELSE ReplaceAt(list, i, [b EXCEPT !.free = FALSE])

Fitting(list, req) == {i \in DOMAIN list : list[i].free /\ list[i].size >= req}

PagesNeeded(req) == CeilDiv(req + HDR, PAGE_SIZE)

(***************************************************************************)
(* The outcome of kmalloc: the block of the result (or NULL), the list and *)
(* the pages taken.  Only the first page of an expansion is checked.       *)
(***************************************************************************)
NULL == -1
Malloc(size) ==
    LET req == ALIGN_UP(size)
        fit == Fitting(blocks, req)
        n == PagesNeeded(req)
        grown == Append(blocks, HeapBlock(Min(free) * PAGE_SIZE,
                                          n * PAGE_SIZE - HDR, FALSE))
    IN  IF fit # {}
        THEN [ptr |-> Ptr(blocks[Min(fit)]), taken |-> {}, short |-> FALSE,
              list |-> Split(blocks, Min(fit), req)]
        ELSE IF free = {}
        THEN [ptr |-> NULL, taken |-> {}, short |-> FALSE, list |-> blocks]
        ELSE [ptr |-> Min(free) * PAGE_SIZE + HDR,
              taken |-> PMM!Lowest(free, n), short |-> Cardinality(free) < n,
              list |-> Split(grown, Len(grown), req)]

Take(m) ==
    /\ free' = free \ m.taken
    /\ heapPages' = heapPages \cup m.taken
    /\ short' = (short \/ m.short)

kmalloc(size) ==
    /\ status = "ready"
    /\ size # 0
    /\ Cardinality(live) < MaxLive
    /\ LET m == Malloc(size)
       IN  /\ blocks' = m.list
           /\ Take(m)
           /\ live' = IF m.ptr = NULL THEN live
                      ELSE live \cup {[ptr |-> m.ptr, want |-> size]}
    /\ UNCHANGED status

\* kcalloc clears the memory it gets; no product of Arrays overflows.
kcalloc(count, size) == kmalloc(count * size)

\* Mutant: the loop moves on after a merge.
heap_coalesce_once(list) ==
    LET Step(acc, b) ==
            IF acc.out # <<>> /\ acc.may /\ Last(acc.out).free /\ b.free
            THEN [out |-> Append(Front(acc.out),
                     [Last(acc.out) EXCEPT !.size = @ + HDR + b.size]),
                  may |-> FALSE]
            ELSE [out |-> Append(acc.out, b), may |-> TRUE]
    IN  FoldLeft(Step, [out |-> <<>>, may |-> TRUE], list).out

\* Mutant: the header of the swallowed block is not added.
SwallowNoHeader(b, c) == [b EXCEPT !.size = @ + c.size]

Swallow(b, c) == [b EXCEPT !.size = @ + HDR + c.size]

\* The blocks up to some block, merged, and the next one.
Merge(merged, b) ==
    IF merged # <<>> /\ Last(merged).free /\ b.free
    THEN Append(Front(merged), Swallow(Last(merged), b))
    ELSE Append(merged, b)

\* One pass over the list: a free block swallows the free blocks behind it.
heap_coalesce(list) ==
    LET merged[i \in 0 .. Len(list)] ==
            IF i = 0 THEN <<>> ELSE Merge(merged[i - 1], list[i])
    IN  merged[Len(list)]

BlockOf(list, ptr) == CHOOSE i \in DOMAIN list : Ptr(list[i]) = ptr
Release(list, ptr) ==
    LET i == BlockOf(list, ptr)
    IN  heap_coalesce(ReplaceAt(list, i, [list[i] EXCEPT !.free = TRUE]))

kfree(a) ==
    /\ status = "ready"
    /\ blocks' = Release(blocks, a.ptr)
    /\ live' = live \ {a}
    /\ UNCHANGED <<status, free, heapPages, short>>

\* Mutant: the old block is not freed after the copy.
MoveWithoutFree(a, size) ==
    LET m == Malloc(size)
    IN  /\ Take(m)
        /\ blocks' = m.list
        /\ live' = IF m.ptr = NULL THEN live
                   ELSE (live \ {a}) \cup {[ptr |-> m.ptr, want |-> size]}
        /\ UNCHANGED status

\* The part of krealloc that moves the payload: a new block, a copy, kfree;
\* if there is no new block the old one stays with its holder.
Move(a, size) ==
    LET m == Malloc(size)
    IN  /\ Take(m)
        /\ IF m.ptr = NULL
           THEN blocks' = m.list /\ UNCHANGED live
           ELSE /\ blocks' = Release(m.list, a.ptr)
                /\ live' = (live \ {a}) \cup {[ptr |-> m.ptr, want |-> size]}
        /\ UNCHANGED status

\* krealloc of what the caller holds; krealloc(NULL, size) is kmalloc(size).
krealloc(a, size) ==
    /\ status = "ready"
    /\ IF size = 0 THEN kfree(a)
       ELSE IF blocks[BlockOf(blocks, a.ptr)].size >= size
       THEN /\ live' = (live \ {a}) \cup {[a EXCEPT !.want = size]}
            /\ UNCHANGED <<status, blocks, free, heapPages, short>>
       ELSE Move(a, size)

\* pmm_alloc_page called elsewhere: for the page directory and the page
\* tables of vmm_init before heap_init, for tasks and processes after it.
OtherAlloc ==
    /\ status \in OtherUsers
    /\ free # {}
    /\ free' = free \ {Min(free)}
    /\ UNCHANGED <<status, blocks, heapPages, live, short>>

Next ==
    \/ heap_init
    \/ \E size \in Sizes : kmalloc(size)
    \/ \E a \in Arrays : kcalloc(a[1], a[2])
    \/ \E a \in live : kfree(a)
    \/ \E a \in live, size \in Sizes : krealloc(a, size)
    \/ OtherAlloc

Spec == Init /\ [][Next]_vars

----------------------------------------------------------------------------
\* The sizes of the free or of the used blocks, added up along the list.
Bytes(list, isFree) ==
    LET sum[i \in 0 .. Len(list)] ==
            IF i = 0 THEN 0
            ELSE sum[i - 1] + IF list[i].free = isFree THEN list[i].size ELSE 0
    IN  sum[Len(list)]

heap_get_free == Bytes(blocks, TRUE)
heap_get_used == Bytes(blocks, FALSE)

Block == [addr : Nat, size : Nat, free : BOOLEAN]

(***************************************************************************)
(* Types of the heap's variables.                                          *)
(***************************************************************************)
TypeOK ==
    /\ status \in {"boot", "ready", "panic"}
    /\ blocks \in Seq(Block)
    /\ free \subseteq Nat
    /\ heapPages \subseteq Nat
    /\ live \subseteq [ptr : Nat, want : Nat]
    /\ short \in BOOLEAN

(***************************************************************************)
(* A used block has exactly one holder and every holder has a used block   *)
(* at least as large as it asked for, whatever sequence of kmalloc, kfree  *)
(* and krealloc (in place, moved or failed) led there.                     *)
(***************************************************************************)
HoldersMatchBlocks ==
    /\ \A a \in live : \E i \in DOMAIN blocks :
          Ptr(blocks[i]) = a.ptr /\ ~blocks[i].free /\ blocks[i].size >= a.want
    /\ \A i \in DOMAIN blocks :
          ~blocks[i].free =>
              Cardinality({a \in live : a.ptr = Ptr(blocks[i])}) = 1

(***************************************************************************)
(* No two neighbours in the list are free: the one pass of heap_coalesce   *)
(* in kfree is enough, also after splits and expansions, so that a request *)
(* is never refused for lack of merging.                                   *)
(***************************************************************************)
NoFreeNeighbours ==
    \A i \in 1 .. Len(blocks) - 1 : ~(blocks[i].free /\ blocks[i + 1].free)

(***************************************************************************)
(* What the arithmetic of the heap takes for granted: its pages follow one *)
(* another and every expansion got all its pages.  Nothing in heap.c makes *)
(* sure of either: a page taken by another part of the kernel between two  *)
(* expansions ends the first, exhaustion in the middle of one the second.  *)
(***************************************************************************)
Contiguous == \A q \in heapPages : \A r \in heapPages : q .. r \subseteq heapPages
Sound == Contiguous /\ ~short

(***************************************************************************)
(* Every byte of the pages given to the heap is in exactly one block: the  *)
(* counts of heap_get_free and heap_get_used plus the headers add up, also *)
(* after blocks on both sides of a hole have been merged, as long as every *)
(* expansion got its pages.                                                *)
(***************************************************************************)
NoByteLost ==
    ~short =>
        heap_get_free + heap_get_used + HDR * Len(blocks)
            = IF status = "ready" THEN PAGE_SIZE * Cardinality(heapPages) ELSE 0

(***************************************************************************)
(* heap.c:92, "expand heap from PMM": the blocks do not overlap, and every *)
(* byte the heap manages lies in a page that the PMM has given to it,      *)
(* whatever other parts of the kernel take in between, unless the pages    *)
(* have come to lie apart, where heap_coalesce merges across the gap, or   *)
(* an expansion was cut short.                                             *)
(***************************************************************************)
BlocksPlaced ==
    /\ \A i, j \in DOMAIN blocks :
          i # j => \/ BlockEnd(blocks[i]) <= blocks[j].addr
                   \/ BlockEnd(blocks[j]) <= blocks[i].addr
    /\ Sound => \A i \in DOMAIN blocks :
          blocks[i].addr \div PAGE_SIZE .. (BlockEnd(blocks[i]) - 1) \div PAGE_SIZE
              \subseteq heapPages
=============================================================================
