------------------------------- MODULE MCHeap -------------------------------
(***************************************************************************)
(* Instances of Heap for TLC.  The PMM's free pages are one run, as on a   *)
(* machine whose memory has no hole; pages taken before heap_init shorten  *)
(* it down to nothing.                                                     *)
(***************************************************************************)
EXTENDS Heap

FourPages == {2 .. 5}
SmallArrays == {<<2, 3>>}
=============================================================================
