--------------------------- MODULE MCAddressSpace ---------------------------
(***************************************************************************)
(* Instances of AddressSpace for TLC: pages of 2 bytes, tables of 20       *)
(* entries.  Directory entries: 0 kernel, 1 nothing (RAM beyond the        *)
(* identity map), 2 image and heap, 3 mmap, 4 stack, 5 framebuffer.        *)
(***************************************************************************)
EXTENDS AddressSpace, TLC

Perms == Permutations(Procs)
Seg(a, n) == [vaddr |-> a, memsz |-> n]

\* Machines: one that runs out of memory, one whose memory reaches beyond the
\* identity map.
MCRam == {1 .. 12, 1 .. 22}

\* Two segments on pages of their own, the higher one first, and two that
\* share a page.
MCImages == {<<Seg(84, 1), Seg(80, 3)>>, <<Seg(80, 3), Seg(83, 2)>>}

\* One byte and more than a page up, one byte down, a wrap of brk_max.
MCIncrements == {1, 3, AddrBytes - 1, 151}

\* Two pages anywhere, one page at a hint, one over the heap, one over a page
\* table of the kernel, a length that wraps to no pages.
MCMmapCalls ==
    {<<0, 3>>, <<122, 1>>, <<88, 1>>, <<4, 1>>, <<0, AddrBytes - 1>>}
=============================================================================
