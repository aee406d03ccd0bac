---------------------------- MODULE MCProcesses ----------------------------
(***************************************************************************)
(* Instances of Processes for TLC.  vruntime has 16 values, so that it     *)
(* wraps around within eight ticks.                                        *)
(***************************************************************************)
EXTENDS Processes, TLC

CONSTANTS p1, p2, p3

ThreeSlots == {p1, p2, p3}
TwoSlots == {p1, p2}
SlotSymmetry == Permutations(ThreeSlots)
=============================================================================
