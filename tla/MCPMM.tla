------------------------------- MODULE MCPMM -------------------------------
(***************************************************************************)
(* Instances of PMM for TLC: pages of 4 addresses, bitmap words of 4 bits, *)
(* a kernel image of just over one page.                                   *)
(***************************************************************************)
EXTENDS PMM

Ram(a, l) == [type |-> 1, addr |-> a, len |-> l]
Rom(a, l) == [type |-> 2, addr |-> a, len |-> l]
Boot(k, m, t) == [kind |-> k, mmap |-> m, top |-> t]

\* Maps below AddrSpace: a hole, two overlapping entries, regions that start
\* and a map that ends in the middle of a page, a machine with mem_upper only,
\* one with nothing.
LowMaps ==
    { Boot("mmap", <<Ram(0, 8), Rom(8, 4), Ram(12, 28)>>, 0),
      Boot("mmap", <<Ram(0, 30), Ram(20, 14)>>, 0),
      Boot("mmap", <<Ram(6, 22), Ram(29, 9)>>, 0),
      Boot("mem_upper", <<>>, 38),
      Boot("none", <<>>, 0) }

\* A machine with memory above AddrSpace, as every PC with 4 GB has: the
\* region that starts at AddrSpace (64) is a region of its own.
HighMaps ==
    { Boot("mmap", <<Ram(0, 8), Rom(8, 4), Ram(12, 20), Ram(64, 16)>>, 0) }

AllMaps == LowMaps \cup HighMaps
=============================================================================
