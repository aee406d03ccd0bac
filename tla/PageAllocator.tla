--------------------------- MODULE PageAllocator ---------------------------
(***************************************************************************)
(* What the physical memory manager promises to the rest of the kernel:    *)
(* a set of free pages from which pmm_alloc_page takes the lowest one, and *)
(* to which the holder of a page may return it.  PMM implements this       *)
(* specification; Heap and the other users of pages are written on it.     *)
(***************************************************************************)
EXTENDS Integers, FiniteSets, FiniteSetsExt

VARIABLES free, held

\* The n pages that n calls of pmm_alloc_page return, or as many as there are.
Lowest(S, n) == {page \in S : Cardinality({q \in S : q < page}) < n}

Init == free \in SUBSET Nat /\ held = {}

Alloc ==
    /\ free # {}
    /\ free' = free \ {Min(free)}
    /\ held' = held \cup {Min(free)}

Return(page) ==
    /\ page \in held
    /\ free' = free \cup {page}
    /\ held' = held \ {page}

Next == Alloc \/ \E page \in held : Return(page)

Spec == Init /\ [][Next]_<<free, held>>
=============================================================================
