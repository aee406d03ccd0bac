------------------------ MODULE AddressSpace_proofs -------------------------
(***************************************************************************)
(* Proofs about AddressSpace for every size of the machine, every image and*)
(* every number of processes and calls: every frame has one use, what calls*)
(* have promised stays mapped, and a load leaves what the image holds.     *)
(*                                                                         *)
(* Each loop of the code is a recursive function; its lemma is an induction*)
(* over the turns (UpTo), from a lemma about one turn.  The inductive      *)
(* invariant, AddressInv, says of the memory (VmInv) what every operation  *)
(* needs and keeps, and relates it to the processes and to the histories.  *)
(***************************************************************************)
EXTENDS AddressSpace, SequenceTheorems, WellFoundedInduction, TLAPS

(***************************************************************************)
(* The fields of what an operation leaves.                                 *)
(***************************************************************************)
Vm(free, dir, tab, pd, panic, noTable, skipped, made, holds) ==
    [free |-> free, dir |-> dir, tab |-> tab, pd |-> pd, panic |-> panic,
     noTable |-> noTable, skipped |-> skipped, made |-> made, holds |-> holds]
IsVm(m) == m = Vm(m.free, m.dir, m.tab, m.pd, m.panic, m.noTable, m.skipped,
                  m.made, m.holds)

SetFree(m, x) == [m EXCEPT !.free = x]
SetDir(m, x) == [m EXCEPT !.dir = x]
SetTab(m, x) == [m EXCEPT !.tab = x]
SetPanic(m, x) == [m EXCEPT !.panic = x]
SetNoTable(m, x) == [m EXCEPT !.noTable = x]
SetSkipped(m, x) == [m EXCEPT !.skipped = x]
SetMade(m, x) == [m EXCEPT !.made = x]
SetHolds(m, x) == [m EXCEPT !.holds = x]

SetTable(m, x, y, z) == [m EXCEPT !.dir = x, !.tab = y, !.noTable = z]
SetEntry(m, x, y, z) == [m EXCEPT !.tab = x, !.made = y, !.holds = z]

LEMMA FieldSet ==
  ASSUME NEW m, IsVm(m), NEW x
  PROVE  /\ SetFree(m, x) =
               Vm(x, m.dir, m.tab, m.pd, m.panic, m.noTable, m.skipped, m.made, m.holds)
         /\ SetDir(m, x) =
               Vm(m.free, x, m.tab, m.pd, m.panic, m.noTable, m.skipped, m.made, m.holds)
         /\ SetTab(m, x) =
               Vm(m.free, m.dir, x, m.pd, m.panic, m.noTable, m.skipped, m.made, m.holds)
         /\ SetPanic(m, x) =
               Vm(m.free, m.dir, m.tab, m.pd, x, m.noTable, m.skipped, m.made, m.holds)
         /\ SetNoTable(m, x) =
               Vm(m.free, m.dir, m.tab, m.pd, m.panic, x, m.skipped, m.made, m.holds)
         /\ SetSkipped(m, x) =
               Vm(m.free, m.dir, m.tab, m.pd, m.panic, m.noTable, x, m.made, m.holds)
         /\ SetMade(m, x) =
               Vm(m.free, m.dir, m.tab, m.pd, m.panic, m.noTable, m.skipped, x, m.holds)
         /\ SetHolds(m, x) =
               Vm(m.free, m.dir, m.tab, m.pd, m.panic, m.noTable, m.skipped, m.made, x)
BY
   DEF IsVm, Vm, SetFree, SetDir, SetTab, SetPanic, SetNoTable, SetSkipped, SetMade, SetHolds

LEMMA VmIs ==
  ASSUME NEW x1, NEW x2, NEW x3, NEW x4, NEW x5, NEW x6, NEW x7, NEW x8, NEW x9,
         NEW r, r = Vm(x1, x2, x3, x4, x5, x6, x7, x8, x9)
  PROVE  /\ IsVm(r) /\ r.free = x1 /\ r.dir = x2 /\ r.tab = x3 /\ r.pd = x4 /\ r.panic = x5
         /\ r.noTable = x6 /\ r.skipped = x7 /\ r.made = x8 /\ r.holds = x9
BY DEF Vm, IsVm

LEMMA TableFieldsSet ==
  ASSUME NEW m, IsVm(m), NEW x, NEW y, NEW z
  PROVE  SetTable(m, x, y, z) =
           Vm(m.free, x, y, m.pd, m.panic, z, m.skipped, m.made, m.holds)
<1> DEFINE a == SetDir(m, x)
           b == SetTab(a, y)
           c == SetNoTable(b, z)
<1>1. SetTable(m, x, y, z) = c
  BY DEF SetTable, SetDir, SetTab, SetNoTable
<1>2. a = Vm(m.free, x, m.tab, m.pd, m.panic, m.noTable, m.skipped, m.made, m.holds)
  BY FieldSet
<1> HIDE DEF a
<1>3. b = Vm(m.free, x, y, m.pd, m.panic, m.noTable, m.skipped, m.made, m.holds)
  BY <1>2, FieldSet, VmIs
<1> HIDE DEF b
<1>4. c = Vm(m.free, x, y, m.pd, m.panic, z, m.skipped, m.made, m.holds)
  BY <1>3, FieldSet, VmIs
<1>. QED  BY <1>1, <1>4

LEMMA EntryFieldsSet ==
  ASSUME NEW m, IsVm(m), NEW x, NEW y, NEW z
  PROVE  SetEntry(m, x, y, z) =
           Vm(m.free, m.dir, x, m.pd, m.panic, m.noTable, m.skipped, y, z)
<1> DEFINE a == SetTab(m, x)
           b == SetMade(a, y)
           c == SetHolds(b, z)
<1>1. SetEntry(m, x, y, z) = c
  BY DEF SetEntry, SetTab, SetMade, SetHolds
<1>2. a = Vm(m.free, m.dir, x, m.pd, m.panic, m.noTable, m.skipped, m.made, m.holds)
  BY FieldSet
<1> HIDE DEF a
<1>3. b = Vm(m.free, m.dir, x, m.pd, m.panic, m.noTable, m.skipped, y, m.holds)
  BY <1>2, FieldSet, VmIs
<1> HIDE DEF b
<1>4. c = Vm(m.free, m.dir, x, m.pd, m.panic, m.noTable, m.skipped, y, z)
  BY <1>3, FieldSet, VmIs
<1>. QED  BY <1>1, <1>4

LEMMA TableAtIs ==
  ASSUME NEW m, IsVm(m), NEW v, NEW f
  PROVE  TableAt(m, v, f) =
           Vm(m.free, [m.dir EXCEPT ![PAGE_DIR_INDEX(v)] = f],
              With(m.tab, f, [j \in 0 .. Entries - 1 |-> NONE]), m.pd, m.panic,
              m.noTable \/ f = 0, m.skipped, m.made, m.holds)
<1> DEFINE x == [m.dir EXCEPT ![PAGE_DIR_INDEX(v)] = f]
           y == With(m.tab, f, [j \in 0 .. Entries - 1 |-> NONE])
           z == m.noTable \/ f = 0
<1>1. TableAt(m, v, f) = SetTable(m, x, y, z)
  BY DEF TableAt, SetTable
<1> HIDE DEF x, y, z
<1>2. TableAt(m, v, f) = Vm(m.free, x, y, m.pd, m.panic, z, m.skipped, m.made, m.holds)
  BY <1>1, TableFieldsSet
<1>. QED  BY <1>2 DEF x, y, z

LEMMA EntryAtIs ==
  ASSUME NEW m, IsVm(m), NEW v, NEW f
  PROVE  EntryAt(m, v, f) =
           Vm(m.free, m.dir, Entered(m.tab, m.dir[PAGE_DIR_INDEX(v)], v, f), m.pd, m.panic,
              m.noTable, m.skipped, With(m.made, v, f), With(m.holds, f, {}))
<1> DEFINE x == Entered(m.tab, m.dir[PAGE_DIR_INDEX(v)], v, f)
           y == With(m.made, v, f)
           z == With(m.holds, f, {})
<1>1. EntryAt(m, v, f) = SetEntry(m, x, y, z)
  BY DEF EntryAt, SetEntry
<1> HIDE DEF x, y, z
<1>2. EntryAt(m, v, f) = Vm(m.free, m.dir, x, m.pd, m.panic, m.noTable, m.skipped, y, z)
  BY <1>1, EntryFieldsSet
<1>. QED  BY <1>2 DEF x, y, z

LEMMA LeastElement ==
  ASSUME NEW S \in SUBSET Nat, S # {}
  PROVE  Min(S) \in S /\ \A y \in S : Min(S) <= y
<1>1. PICK x \in S : \A y \in S : ~ (<<y, x>> \in OpToRel(<, Nat))
  BY NatLessThanWellFounded, WFMin, S # {}
<1>2. \A y \in S : ~ (y < x)
  BY <1>1 DEF OpToRel
<1>3. \E z \in S : \A y \in S : z <= y
  BY <1>2
<1>. QED  BY <1>3 DEF Min

\* A set of numbers that has 0 and with every number its successor has all
\* numbers up to a bound.
LEMMA UpTo ==
  ASSUME NEW n \in Nat, NEW S,
         0 \in S, \A i \in 0 .. n : i \in S /\ i < n => i + 1 \in S
  PROVE  0 .. n \subseteq S
<1> DEFINE Bad == {i \in 0 .. n : i \notin S}
<1> SUFFICES ASSUME Bad # {} PROVE FALSE
  OBVIOUS
<1>1. Min(Bad) \in Bad /\ \A y \in Bad : Min(Bad) <= y
  <2>1. Bad \in SUBSET Nat
    OBVIOUS
  <2> HIDE DEF Bad
  <2>. QED  BY <2>1, LeastElement
<1>2. PICK i \in 0 .. n : i \notin S /\ \A y \in Bad : i <= y
  BY <1>1
<1>3. i # 0
  BY <1>2
<1>4. i - 1 \in 0 .. n /\ i - 1 < n /\ i - 1 + 1 = i /\ ~(i <= i - 1)
  BY <1>2, <1>3
<1>5. i - 1 \in S
  BY <1>2, <1>4
<1>. QED  BY <1>2, <1>4, <1>5

LEMMA NumbersAre ==
  /\ PAGE_SIZE \in Nat /\ PAGE_SIZE > 0 /\ Entries \in Nat /\ Entries > 0
  /\ Tables \in Nat /\ Tables > 0
  /\ Entries * Tables \in Nat /\ Tables * Entries = Entries * Tables
  /\ AddrBytes \in Nat /\ AddrBytes > 0 /\ AddrBytes = PAGE_SIZE * (Entries * Tables)
<1>1. /\ PAGE_SIZE \in Nat /\ PAGE_SIZE > 0 /\ Entries \in Nat /\ Entries > 0
      /\ Tables \in Nat /\ Tables > 0
  BY AddressAssumption
<1>2. \A a, b \in Nat : a > 0 /\ b > 0 => a * b \in Nat /\ a * b > 0 /\ a * b = b * a
  OBVIOUS
<1>3. Entries * Tables \in Nat /\ Entries * Tables > 0
  BY <1>1, <1>2
<1>4. PAGE_SIZE * Entries * Tables = PAGE_SIZE * (Entries * Tables)
  BY <1>1
<1>5. PAGE_SIZE * (Entries * Tables) \in Nat /\ PAGE_SIZE * (Entries * Tables) > 0
  BY <1>1, <1>2, <1>3
<1>. QED  BY <1>1, <1>2, <1>3, <1>4, <1>5 DEF AddrBytes

\* Division with remainder.
LEMMA Divided ==
  ASSUME NEW n \in Nat, NEW d \in Nat, d > 0
  PROVE  /\ n \div d \in Nat /\ n % d \in Nat /\ n % d < d
         /\ n = d * (n \div d) + (n % d)
         /\ \A k \in Nat : n < d * k => n \div d < k
         /\ \A k \in Nat : d * k <= n => k <= n \div d
<1>1. n \div d \in Nat /\ n % d \in Nat /\ n % d < d /\ n = d * (n \div d) + (n % d)
  OBVIOUS
<1> DEFINE q == n \div d
           r == n % d
<1> HIDE DEF q, r
<1>2. q \in Nat /\ r \in Nat /\ r < d /\ n = d * q + r
  BY <1>1 DEF q, r
<1>3. ASSUME NEW k \in Nat, k <= q PROVE d * k <= n
  <2>1. PICK j \in Nat : q = k + j
    <3>1. q - k \in Nat /\ q = k + (q - k)
      BY <1>2, <1>3
    <3>. QED  BY <3>1
  <2>2. d * q = d * k + d * j /\ d * j \in Nat /\ d * k \in Nat
    BY <2>1
  <2>. QED  BY <1>2, <2>2
<1>4. ASSUME NEW k \in Nat, k > q PROVE n < d * k
  <2>1. PICK j \in Nat : k = q + 1 + j
    <3>1. k - (q + 1) \in Nat /\ k = q + 1 + (k - (q + 1))
      BY <1>2, <1>4
    <3>. QED  BY <3>1
  <2>2. d * k = d * q + d + d * j /\ d * j \in Nat /\ d * k \in Nat /\ d * q \in Nat
    BY <1>2, <2>1
  <2>. QED  BY <1>2, <2>2
<1>5. \A k \in Nat : n < d * k => q < k
  <2>1. \A k \in Nat : d * k \in Nat
    OBVIOUS
  <2>. QED  BY <1>2, <1>3, <2>1
<1>6. \A k \in Nat : d * k <= n => k <= q
  <2>1. \A k \in Nat : d * k \in Nat
    OBVIOUS
  <2>. QED  BY <1>2, <1>4, <2>1
<1>. QED  BY <1>1, <1>5, <1>6 DEF q

LEMMA PageIndices ==
  /\ \A v \in Space : /\ v \in Nat /\ PAGE_DIR_INDEX(v) \in 0 .. Tables - 1
                      /\ PAGE_TBL_INDEX(v) \in 0 .. Entries - 1
  /\ \A v, w \in Space : PAGE_DIR_INDEX(v) = PAGE_DIR_INDEX(w) /\ PAGE_TBL_INDEX(v) = PAGE_TBL_INDEX(w)
           => v = w
  /\ Kernel \subseteq Space /\ \A v \in Kernel : PAGE_DIR_INDEX(v) = 0
  /\ \A v \in Kernel : PAGE_TBL_INDEX(v) = v
<1>1. Space = 0 .. Entries * Tables - 1 /\ Kernel = 0 .. Entries - 1
  BY NumbersAre DEF Space, Kernel
<1>2. ASSUME NEW v \in Space
      PROVE  /\ v \in Nat /\ v \div Entries \in Nat /\ v \div Entries < Tables
             /\ v % Entries \in 0 .. Entries - 1
             /\ v = Entries * (v \div Entries) + (v % Entries)
  <2>1. v \in Nat /\ v < Entries * Tables
    BY <1>1, NumbersAre
  <2>. QED  BY <2>1, Divided, NumbersAre
<1>3. Kernel \subseteq Space
  <2>1. Entries <= Entries * Tables
    <3>1. PICK j \in Nat : Tables = 1 + j
      <4>1. Tables - 1 \in Nat /\ Tables = 1 + (Tables - 1)
        BY NumbersAre
      <4>. QED  BY <4>1
    <3>2. Entries * Tables = Entries + Entries * j /\ Entries * j \in Nat
      BY <3>1, NumbersAre
    <3>. QED  BY <3>2, NumbersAre
  <2>. QED  BY <1>1, <2>1, NumbersAre
<1>4. ASSUME NEW v \in Kernel PROVE v \div Entries = 0 /\ v % Entries = v
  <2>1. v \in Nat /\ v < Entries * 1
    BY <1>1, NumbersAre
  <2>2. v \div Entries = 0
    BY <2>1, Divided, NumbersAre
  <2>3. v = Entries * 0 + (v % Entries) /\ v % Entries \in Nat
    BY <2>1, <2>2, Divided, NumbersAre
  <2>4. Entries * 0 = 0
    BY NumbersAre
  <2>. QED  BY <2>2, <2>3, <2>4
<1>5. ASSUME NEW v \in Space, NEW w \in Space, v \div Entries = w \div Entries,
             v % Entries = w % Entries
      PROVE  v = w
  BY <1>2, <1>5
<1>6. \A v \in Space : v \div Entries \in 0 .. Tables - 1
  BY <1>2, NumbersAre
<1>7. /\ \A v : PAGE_DIR_INDEX(v) = v \div Entries
      /\ \A v : PAGE_TBL_INDEX(v) = v % Entries
  BY DEF PAGE_DIR_INDEX, PAGE_TBL_INDEX
<1>8. /\ \A v \in Space : v \in Nat /\ PAGE_DIR_INDEX(v) \in 0 .. Tables - 1
      /\ \A v \in Space : PAGE_TBL_INDEX(v) \in 0 .. Entries - 1
  BY <1>2, <1>6, <1>7, Zenon
<1>9. ASSUME NEW v \in Space, NEW w \in Space, PAGE_DIR_INDEX(v) = PAGE_DIR_INDEX(w),
             PAGE_TBL_INDEX(v) = PAGE_TBL_INDEX(w)
      PROVE  v = w
  <2>1. v \div Entries = w \div Entries /\ v % Entries = w % Entries
    BY <1>7, <1>9, Zenon
  <2>. QED  BY <1>5, <2>1, Zenon
<1>10. \A v \in Kernel : PAGE_DIR_INDEX(v) = 0 /\ PAGE_TBL_INDEX(v) = v
  BY <1>4, <1>7, Zenon
<1>11. \A v, w \in Space : PAGE_DIR_INDEX(v) = PAGE_DIR_INDEX(w) /\ PAGE_TBL_INDEX(v) = PAGE_TBL_INDEX(w)
           => v = w
  BY <1>9
<1>. QED  BY <1>3, <1>8, <1>11, <1>10

LEMMA PageIs ==
  ASSUME NEW a \in Nat
  PROVE  /\ Page(a) \in Space /\ Page(a) \in Nat
         /\ a < AddrBytes => Page(a) = a \div PAGE_SIZE
<1> DEFINE b == a % AddrBytes
<1>1. b \in Nat /\ b < AddrBytes
  BY Divided, NumbersAre
<1>2. a < AddrBytes => b = a
  <2>1. SUFFICES ASSUME a < AddrBytes PROVE b = a
    OBVIOUS
  <2>2. a < AddrBytes * 1
    BY <2>1, NumbersAre
  <2>3. a \div AddrBytes < 1 /\ a \div AddrBytes \in Nat /\ a = AddrBytes * (a \div AddrBytes) + b
    BY <2>2, Divided, NumbersAre
  <2>4. a \div AddrBytes = 0
    BY <2>3
  <2> HIDE DEF b
  <2>5. AddrBytes * 0 = 0
    BY NumbersAre
  <2>. QED  BY <1>1, <2>3, <2>4, <2>5
<1> HIDE DEF b
<1>3. b \div PAGE_SIZE \in Nat /\ b \div PAGE_SIZE < Entries * Tables
  BY <1>1, Divided, NumbersAre
<1>4. Page(a) = b \div PAGE_SIZE
  BY DEF Page, b
<1>5. \A x \in Nat : x < Entries * Tables => x \in Space
  BY NumbersAre DEF Space
<1>. QED  BY <1>2, <1>3, <1>4, <1>5

(***************************************************************************)
(* A value of vm after vmm_init.  Numbers of frames are numbers; the page  *)
(* tables that the directory names exist.                                  *)
(***************************************************************************)
RamFrames == UNION Ram
DirIndex == 0 .. Tables - 1
TblIndex == 0 .. Entries - 1
Tabs(m) == {m.dir[i] : i \in DirIndex} \ {NONE}

VmType(m) ==
    /\ IsVm(m)
    /\ m.free \in SUBSET RamFrames
    /\ m.dir \in [DirIndex -> RamFrames \cup {0, NONE}] /\ m.dir[0] # NONE
    /\ \A t \in Tabs(m) : t \in DOMAIN m.tab /\ m.tab[t] \in [TblIndex -> Space \cup {NONE}]
    /\ DOMAIN m.tab \subseteq Tabs(m)
    /\ m.panic \in BOOLEAN /\ m.noTable \in BOOLEAN /\ m.skipped \in BOOLEAN

\* Every frame has one use.  D are the frames that serve as directories.
One(m, D) ==
    /\ \A i, j \in DirIndex : m.dir[i] = m.dir[j] /\ m.dir[i] # NONE => i = j
    /\ \A v \in UserPages : Mapped(m, v) =>
           /\ vmm_get_phys(m, v) \notin Tabs(m) \cup D \cup m.free \cup {0}
           /\ \A w \in UserPages : vmm_get_phys(m, v) = vmm_get_phys(m, w) => v = w
    /\ m.free \cap (Tabs(m) \cup D) = {}

\* A directory or a table lies beyond the identity map only when the frames
\* below have run out, and the kernel is lost only then or when one of its own
\* pages is not where it was.
Low(m) == \A t \in Tabs(m) \cup {m.pd} : t \notin Kernel => m.free \cap Kernel = {}
Moved(m) == \E u \in Kernel : vmm_get_phys(m, u) # u
PanicInv(m) == Low(m) /\ (m.panic => m.free \cap Kernel = {} \/ Moved(m))

\* Memory has run out before page 0 becomes a page table.
VmInv(m, D) ==
    /\ VmType(m)
    /\ m.noTable \/ 0 \in Tabs(m) => m.free = {}
    /\ ~m.noTable => One(m, D)
    /\ PanicInv(m)

\* What no operation but munmap takes back.
After(m, r) ==
    /\ r.free \subseteq m.free /\ r.pd = m.pd
    /\ m.noTable => r.noTable
    /\ m.skipped => r.skipped
    /\ m.panic => r.panic
    /\ ~r.noTable => \A w \in Space : Mapped(m, w) => Mapped(r, w)

LEMMA FramesAre ==
  /\ RamFrames \subseteq Nat \ {0} /\ 0 \notin RamFrames /\ NONE \notin RamFrames
  /\ NONE \notin Nat /\ NONE # 0 /\ RamFrames \subseteq Space
  /\ NONE \notin Space /\ Space \subseteq Nat
  /\ 0 \in DirIndex /\ Framebuffer \subseteq Space /\ Framebuffer \cap RamFrames = {}
<1>1. \A ram \in Ram : ram \subseteq Nat \ {0}
  BY AddressAssumption, NumbersAre DEF Space
<1>2. RamFrames \subseteq Nat \ {0} /\ NONE \notin Nat /\ NONE # 0
  BY <1>1 DEF RamFrames, NONE
<1>3. Framebuffer \subseteq Space /\ Framebuffer \cap RamFrames = {}
  BY AddressAssumption DEF RamFrames
<1>4. 0 \in DirIndex
  BY NumbersAre DEF DirIndex
<1>5. RamFrames \subseteq Space
  BY AddressAssumption DEF RamFrames
<1>6. NONE \notin Space /\ Space \subseteq Nat
  BY NumbersAre DEF Space, NONE
<1>. QED  BY <1>2, <1>3, <1>4, <1>5, <1>6

LEMMA FirstFree ==
  ASSUME NEW m, m.free \in SUBSET RamFrames
  PROVE  /\ m.free = {} => pmm_alloc_page(m) = 0
         /\ m.free # {} => /\ pmm_alloc_page(m) \in m.free
                           /\ \A y \in m.free : pmm_alloc_page(m) <= y
         /\ pmm_alloc_page(m) = 0 => m.free = {}
         /\ pmm_alloc_page(m) \in RamFrames \cup {0}
<1>1. m.free \in SUBSET Nat
  BY FramesAre
<1>2. m.free # {} => Min(m.free) \in m.free /\ \A y \in m.free : Min(m.free) <= y
  BY <1>1, LeastElement
<1>. QED  BY <1>2, FramesAre DEF pmm_alloc_page

LEMMA PhysType ==
  ASSUME NEW m, VmType(m), NEW v \in Space
  PROVE  /\ vmm_get_phys(m, v) \in Space \cup {NONE}
         /\ m.dir[PAGE_DIR_INDEX(v)] = NONE => vmm_get_phys(m, v) = NONE
         /\ m.dir[PAGE_DIR_INDEX(v)] # NONE =>
                /\ m.dir[PAGE_DIR_INDEX(v)] \in Tabs(m)
                /\ vmm_get_phys(m, v) = m.tab[m.dir[PAGE_DIR_INDEX(v)]][PAGE_TBL_INDEX(v)]
<1>1. PAGE_DIR_INDEX(v) \in DirIndex /\ PAGE_TBL_INDEX(v) \in TblIndex
  BY PageIndices DEF DirIndex, TblIndex
<1>2. m.dir[PAGE_DIR_INDEX(v)] # NONE => m.dir[PAGE_DIR_INDEX(v)] \in Tabs(m)
  BY <1>1 DEF Tabs
<1>. QED  BY <1>1, <1>2 DEF VmType, vmm_get_phys

\* A page that is taken, before anything is done with it.
LEMMA TakenIs ==
  ASSUME NEW m, VmType(m), ~m.panic
  PROVE  LET r == Taken(m)
         IN  /\ IsVm(r) /\ r.free = m.free \ {pmm_alloc_page(m)} /\ r.dir = m.dir
             /\ r.tab = m.tab /\ r.pd = m.pd /\ r.panic = m.panic
             /\ r.noTable = m.noTable /\ r.skipped = m.skipped
             /\ r.made = m.made /\ r.holds = m.holds
<1>1. Taken(m) = SetFree(m, m.free \ {pmm_alloc_page(m)})
  BY DEF Taken, SetFree
<1>. QED  BY <1>1, FieldSet, VmIs DEF VmType

(***************************************************************************)
(* r is m, or what m is when the kernel has been lost.                     *)
(***************************************************************************)
Alike(m, r) ==
    /\ IsVm(r) /\ r.free = m.free /\ r.dir = m.dir /\ r.tab = m.tab /\ r.pd = m.pd
    /\ r.noTable = m.noTable /\ r.skipped = m.skipped
    /\ r.made = m.made /\ r.holds = m.holds
    /\ r.panic = TRUE \/ r = m

LEMMA TouchedIs ==
  ASSUME NEW m, IsVm(m), NEW f
  PROVE  LET r == Touched(m, f)
         IN  /\ Alike(m, r)
             /\ m.panic \/ vmm_get_phys(m, f) = f => r = m
             /\ ~m.panic /\ r.panic => vmm_get_phys(m, f) # f
<1> DEFINE fine == m.panic \/ vmm_get_phys(m, f) = f
<1>1. Touched(m, f) = IF fine THEN m ELSE SetPanic(m, TRUE)
  BY DEF Touched, SetPanic
<1>2. PICK b : b = TRUE
  OBVIOUS
<1> HIDE DEF fine
<1>3. CASE ~fine
  <2>1. Touched(m, f) = SetPanic(m, b)
    BY <1>1, <1>2, <1>3
  <2> DEFINE r == SetPanic(m, b)
  <2>2. r = Vm(m.free, m.dir, m.tab, m.pd, b, m.noTable, m.skipped, m.made, m.holds)
    BY FieldSet
  <2> HIDE DEF r
  <2>3. /\ IsVm(r) /\ r.free = m.free /\ r.dir = m.dir /\ r.tab = m.tab /\ r.pd = m.pd
        /\ r.panic = b /\ r.noTable = m.noTable /\ r.skipped = m.skipped
        /\ r.made = m.made /\ r.holds = m.holds
    BY <2>2, VmIs
  <2>4. Alike(m, r)
    BY <1>2, <2>3 DEF Alike
  <2>. QED  BY <1>3, <2>1, <2>4 DEF fine, r
<1>4. CASE fine
  <2>1. Touched(m, f) = m
    BY <1>1, <1>4
  <2>2. Alike(m, m)
    BY DEF Alike
  <2>. QED  BY <1>4, <2>1, <2>2 DEF fine
<1>. QED  BY <1>3, <1>4

LEMMA AfterAfter ==
  ASSUME NEW m, NEW n, NEW r, After(m, n), After(n, r)
  PROVE  After(m, r)
BY DEF After

LEMMA AlikeAlike ==
  ASSUME NEW m, NEW n, NEW r, Alike(m, n), Alike(n, r)
  PROVE  Alike(m, r)
<1>1. CASE r = n
  BY <1>1
<1>2. CASE r.panic = TRUE
  BY <1>2 DEF Alike
<1>. QED  BY <1>1, <1>2 DEF Alike

\* Losing the kernel changes nothing else.
LEMMA AlikeKeeps ==
  ASSUME NEW m, VmType(m), NEW r, Alike(m, r)
  PROVE  /\ VmType(r) /\ Tabs(r) = Tabs(m) /\ After(m, r)
         /\ \A w : vmm_get_phys(r, w) = vmm_get_phys(m, w)
         /\ \A D : One(m, D) => One(r, D)
         /\ Low(m) => Low(r)
<1>1. /\ IsVm(r) /\ r.free = m.free /\ r.dir = m.dir /\ r.tab = m.tab /\ r.pd = m.pd
      /\ r.noTable = m.noTable /\ r.skipped = m.skipped
      /\ r.panic = TRUE \/ r.panic = m.panic
  BY DEF Alike
<1>2. Tabs(r) = Tabs(m)
  BY <1>1 DEF Tabs
<1>3. \A w : vmm_get_phys(r, w) = vmm_get_phys(m, w)
  BY <1>1 DEF vmm_get_phys
<1>4. r.panic \in BOOLEAN /\ (m.panic => r.panic)
  BY <1>1 DEF VmType
<1>5. VmType(r)
  BY <1>1, <1>2, <1>4 DEF VmType
<1>6. After(m, r)
  BY <1>1, <1>3, <1>4 DEF After, Mapped
<1>7. \A D : One(m, D) => One(r, D)
  BY <1>1, <1>2, <1>3 DEF One, Mapped
<1>8. Low(m) => Low(r)
  BY <1>1, <1>2 DEF Low
<1>. QED  BY <1>2, <1>3, <1>5, <1>6, <1>7, <1>8

\* The kernel is lost at frame f, which may be one that it has just taken.
LEMMA LostAt ==
  ASSUME NEW m, VmType(m), PanicInv(m), NEW f,
         f \notin Kernel => m.free \cap Kernel = {}
  PROVE  LET r == Touched(m, f) IN VmType(r) /\ Alike(m, r) /\ PanicInv(r)
<1> DEFINE r == Touched(m, f)
<1>1. Alike(m, r) /\ (~m.panic /\ r.panic => vmm_get_phys(m, f) # f)
      /\ (m.panic => r = m)
  BY TouchedIs DEF VmType
<1> HIDE DEF r
<1>2. VmType(r) /\ (Low(m) => Low(r)) /\ r.free = m.free
      /\ \A w : vmm_get_phys(r, w) = vmm_get_phys(m, w)
  BY <1>1, AlikeKeeps DEF Alike
<1>3. r.panic => r.free \cap Kernel = {} \/ Moved(r)
  <2>1. CASE m.panic
    BY <1>1, <2>1 DEF PanicInv
  <2>2. CASE ~m.panic /\ f \in Kernel
    BY <1>1, <1>2, <2>2 DEF Moved
  <2>3. CASE f \notin Kernel
    BY <1>2, <2>3
  <2>. QED  BY <2>1, <2>2, <2>3
<1>. QED  BY <1>1, <1>2, <1>3 DEF PanicInv, r

\* The way to a page table.
LEMMA ReachedIs ==
  ASSUME NEW m, VmType(m), PanicInv(m), NEW v \in Space
  PROVE  LET r == Reached(m, v) IN VmType(r) /\ Alike(m, r) /\ PanicInv(r)
<1> DEFINE t == m.dir[PAGE_DIR_INDEX(v)]
           d == Touched(m, m.pd)
           e == Touched(d, t)
<1>1. Reached(m, v) = IF t = NONE THEN d ELSE e
  BY DEF Reached
<1>2. VmType(d) /\ Alike(m, d) /\ PanicInv(d)
  BY LostAt DEF PanicInv, Low
<1> HIDE DEF d
<1>3. CASE t # NONE
  <2>1. t \in Tabs(m)
    BY <1>3, PageIndices DEF Tabs, DirIndex
  <2>2. t \in Tabs(d)
    BY <1>2, <2>1, AlikeKeeps
  <2> HIDE DEF t
  <2>3. VmType(e) /\ Alike(d, e) /\ PanicInv(e)
    BY <1>2, <2>2, LostAt DEF PanicInv, Low
  <2> HIDE DEF e
  <2>. QED  BY <1>1, <1>2, <1>3, <2>3, AlikeAlike
<1>. QED  BY <1>1, <1>2, <1>3

\* What WithTable leaves when there is no page table for v.
LEMMA NewTable ==
  ASSUME NEW m, VmType(m), ~m.panic, NEW v \in Space, m.dir[PAGE_DIR_INDEX(v)] = NONE
  PROVE  LET n == WithTable(m, v)
             g == pmm_alloc_page(m)
             i == PAGE_DIR_INDEX(v)
         IN  /\ IsVm(n) /\ n.free = m.free \ {g} /\ n.pd = m.pd /\ n.skipped = m.skipped
             /\ n.made = m.made /\ n.holds = m.holds
             /\ n.dir = [m.dir EXCEPT ![i] = g]
             /\ n.tab = With(m.tab, g, [j \in TblIndex |-> NONE])
             /\ n.noTable = (m.noTable \/ g = 0)
             /\ n.panic \in BOOLEAN
             /\ n.panic => vmm_get_phys(m, g) # g
<1> DEFINE g == pmm_alloc_page(m)
           i == PAGE_DIR_INDEX(v)
           y == Touched(Taken(m), g)
           dir == [m.dir EXCEPT ![i] = g]
           tab == With(m.tab, g, [j \in TblIndex |-> NONE])
           noTable == m.noTable \/ g = 0
<1>1. WithTable(m, v) = TableAt(y, v, g)
  BY DEF WithTable
<1>2. /\ IsVm(Taken(m)) /\ Taken(m).free = m.free \ {g} /\ Taken(m).dir = m.dir
      /\ Taken(m).tab = m.tab /\ Taken(m).pd = m.pd /\ Taken(m).panic = m.panic
      /\ Taken(m).noTable = m.noTable /\ Taken(m).skipped = m.skipped
      /\ Taken(m).made = m.made /\ Taken(m).holds = m.holds
  BY TakenIs
<1>3. vmm_get_phys(Taken(m), g) = vmm_get_phys(m, g)
  BY <1>2 DEF vmm_get_phys
<1>4. /\ IsVm(y) /\ y.free = m.free \ {g} /\ y.dir = m.dir /\ y.tab = m.tab /\ y.pd = m.pd
      /\ y.noTable = m.noTable /\ y.skipped = m.skipped /\ y.made = m.made /\ y.holds = m.holds
      /\ y.panic \in BOOLEAN /\ (y.panic => vmm_get_phys(m, g) # g)
  <2> DEFINE x == Taken(m)
  <2>1. IsVm(x) /\ y = Touched(x, g)
    BY <1>2
  <2> HIDE DEF x, y
  <2>2. Alike(x, y) /\ (~x.panic /\ y.panic => vmm_get_phys(x, g) # g)
    BY <2>1, TouchedIs
  <2>3. /\ x.free = m.free \ {g} /\ x.dir = m.dir /\ x.tab = m.tab /\ x.pd = m.pd
        /\ x.noTable = m.noTable /\ x.skipped = m.skipped /\ x.made = m.made
        /\ x.holds = m.holds /\ x.panic = m.panic
        /\ vmm_get_phys(x, g) = vmm_get_phys(m, g)
    BY <1>2, <1>3 DEF x
  <2>4. y.panic \in BOOLEAN /\ (y.panic => vmm_get_phys(m, g) # g)
    BY <2>2, <2>3 DEF Alike, VmType
  <2>. QED  BY <2>2, <2>3, <2>4 DEF Alike
<1>5. TableAt(y, v, g) =
        Vm(y.free, dir, tab, y.pd, y.panic, noTable, y.skipped, y.made, y.holds)
  <2>1. TableAt(y, v, g) =
          Vm(y.free, [y.dir EXCEPT ![PAGE_DIR_INDEX(v)] = g],
             With(y.tab, g, [j \in 0 .. Entries - 1 |-> NONE]), y.pd, y.panic,
             y.noTable \/ g = 0, y.skipped, y.made, y.holds)
    BY <1>4, TableAtIs
  <2>. QED  BY <1>4, <2>1 DEF TblIndex
<1> HIDE DEF y, dir, tab, noTable
<1>6. LET n == WithTable(m, v)
      IN  /\ IsVm(n) /\ n.free = y.free /\ n.dir = dir /\ n.tab = tab /\ n.pd = y.pd
          /\ n.panic = y.panic /\ n.noTable = noTable /\ n.skipped = y.skipped
          /\ n.made = y.made /\ n.holds = y.holds
  BY <1>1, <1>5, VmIs
<1>. QED  BY <1>4, <1>6 DEF dir, tab, noTable

LEMMA TableTabs ==
  ASSUME NEW m, VmType(m), ~m.panic, NEW v \in Space
  PROVE  Tabs(WithTable(m, v)) \subseteq Tabs(m) \cup m.free \cup {0}
<1> DEFINE n == WithTable(m, v)
           g == pmm_alloc_page(m)
           i == PAGE_DIR_INDEX(v)
<1>1. CASE m.dir[i] # NONE
  <2>1. n = m
    BY <1>1 DEF WithTable
  <2>. QED  BY <2>1
<1>2. CASE m.dir[i] = NONE
  <2>1. n.dir = [m.dir EXCEPT ![i] = g]
    BY <1>2, NewTable
  <2>2. g \in m.free \cup {0} /\ DOMAIN m.dir = DirIndex
    BY FirstFree DEF VmType
  <2> HIDE DEF n, g, i
  <2>. QED  BY <2>1, <2>2 DEF Tabs, n
<1>. QED  BY <1>1, <1>2

LEMMA TableStep ==
  ASSUME NEW m, NEW D, VmInv(m, D), ~m.panic, NEW v \in Space
  PROVE  LET n == WithTable(m, v)
         IN  /\ VmType(n) /\ n.free \subseteq m.free /\ n.pd = m.pd
             /\ n.skipped = m.skipped /\ n.made = m.made /\ n.holds = m.holds
             /\ (m.noTable => n.noTable) /\ PanicInv(n)
             /\ n.dir[PAGE_DIR_INDEX(v)] # NONE
             /\ (n.noTable \/ 0 \in Tabs(n) => n.free = {})
             /\ One(m, D) /\ (n.noTable => 0 \notin Tabs(m)) =>
                    /\ One(n, D)
                    /\ \A w \in Space : vmm_get_phys(n, w) = vmm_get_phys(m, w)
<1> DEFINE n == WithTable(m, v)
           g == pmm_alloc_page(m)
           i == PAGE_DIR_INDEX(v)
<1>1. VmType(m) /\ PanicInv(m) /\ (m.noTable \/ 0 \in Tabs(m) => m.free = {})
  BY DEF VmInv
<1>2. CASE m.dir[i] # NONE
  <2>1. n = m
    BY <1>2 DEF WithTable
  <2>. QED  BY <1>1, <1>2, <2>1
<1>3. CASE m.dir[i] = NONE
  <2>1. /\ IsVm(n) /\ n.free = m.free \ {g} /\ n.pd = m.pd /\ n.skipped = m.skipped
        /\ n.made = m.made /\ n.holds = m.holds
        /\ n.dir = [m.dir EXCEPT ![i] = g]
        /\ n.tab = With(m.tab, g, [j \in TblIndex |-> NONE])
        /\ n.noTable = (m.noTable \/ g = 0)
        /\ n.panic \in BOOLEAN
        /\ n.panic => vmm_get_phys(m, g) # g
    BY <1>1, <1>3, NewTable
  <2>2. /\ i \in DirIndex /\ i # 0
        /\ m.dir \in [DirIndex -> RamFrames \cup {0, NONE}] /\ m.dir[0] # NONE
        /\ m.free \in SUBSET RamFrames
    BY <1>1, <1>3, PageIndices DEF VmType, DirIndex
  <2>3. /\ m.free = {} => g = 0
        /\ m.free # {} => g \in m.free /\ \A y \in m.free : g <= y
        /\ g = 0 => m.free = {}
        /\ g \in RamFrames \cup {0}
    BY <2>2, FirstFree
  <2> HIDE DEF n, g, i
  <2>4. /\ n.dir \in [DirIndex -> RamFrames \cup {0, NONE}] /\ n.dir[0] # NONE /\ n.dir[i] = g
        /\ \A j \in DirIndex : j # i => n.dir[j] = m.dir[j]
    BY <2>1, <2>2, <2>3, FramesAre
  <2>5. Tabs(n) = Tabs(m) \cup {g} /\ g # NONE
    BY <1>3, <2>2, <2>3, <2>4, FramesAre DEF Tabs
  <2>6. /\ g \in DOMAIN n.tab /\ n.tab[g] = [j \in TblIndex |-> NONE]
        /\ \A t \in Tabs(m) : t \in DOMAIN n.tab /\ (t # g => n.tab[t] = m.tab[t])
    <3> DEFINE clear == [j \in TblIndex |-> NONE]
    <3>1. \A t \in Tabs(m) : t \in DOMAIN m.tab
      BY <1>1 DEF VmType
    <3>2. n.tab = With(m.tab, g, clear)
      BY <2>1
    <3> HIDE DEF clear
    <3>3. /\ g \in DOMAIN n.tab /\ n.tab[g] = clear
          /\ \A t \in Tabs(m) : t \in DOMAIN n.tab /\ (t # g => n.tab[t] = m.tab[t])
      BY <3>1, <3>2 DEF With
    <3>. QED  BY <3>3 DEF clear
  <2>7. \A t \in Tabs(n) : t \in DOMAIN n.tab /\ n.tab[t] \in [TblIndex -> Space \cup {NONE}]
    <3>1. \A t \in Tabs(m) : m.tab[t] \in [TblIndex -> Space \cup {NONE}]
      BY <1>1 DEF VmType
    <3>2. [j \in TblIndex |-> NONE] \in [TblIndex -> Space \cup {NONE}]
      OBVIOUS
    <3>. QED  BY <2>5, <2>6, <3>1, <3>2
  <2>8. VmType(n)
    <3>1. m.noTable \in BOOLEAN /\ m.skipped \in BOOLEAN
      BY <1>1 DEF VmType
    <3>4. DOMAIN n.tab \subseteq Tabs(n)
      <4> DEFINE clear == [j \in TblIndex |-> NONE]
      <4>1. n.tab = With(m.tab, g, clear)
        BY <2>1
      <4> HIDE DEF clear
      <4>. QED  BY <1>1, <2>5, <4>1 DEF With, VmType
    <3>2. n.noTable \in BOOLEAN
      BY <2>1
    <3>3. n.free \in SUBSET RamFrames
      BY <2>1, <2>2
    <3>. QED  BY <2>1, <2>4, <2>7, <3>1, <3>2, <3>3, <3>4 DEF VmType
  <2>9. n.noTable \/ 0 \in Tabs(n) => n.free = {}
    <3>1. n.noTable \/ 0 \in Tabs(n) => m.noTable \/ 0 \in Tabs(m) \/ g = 0
      BY <2>1, <2>5
    <3>. QED  BY <1>1, <2>1, <2>3, <3>1
  <2>10. \A w \in Space : /\ PAGE_DIR_INDEX(w) \in DirIndex /\ PAGE_TBL_INDEX(w) \in TblIndex
    BY PageIndices DEF DirIndex, TblIndex
  <2>11. ASSUME NEW w \in Space, g \notin Tabs(m) \/ PAGE_DIR_INDEX(w) = i
         PROVE  vmm_get_phys(n, w) = vmm_get_phys(m, w)
    <3>1. CASE PAGE_DIR_INDEX(w) = i
      <4>1. vmm_get_phys(n, w) = n.tab[g][PAGE_TBL_INDEX(w)]
        BY <2>4, <2>5, <3>1 DEF vmm_get_phys
      <4>. QED  BY <1>3, <2>6, <2>10, <3>1, <4>1 DEF vmm_get_phys
    <3>2. CASE PAGE_DIR_INDEX(w) # i
      <4>1. n.dir[PAGE_DIR_INDEX(w)] = m.dir[PAGE_DIR_INDEX(w)]
        BY <2>4, <2>10, <3>2
      <4>2. m.dir[PAGE_DIR_INDEX(w)] # NONE => m.dir[PAGE_DIR_INDEX(w)] \in Tabs(m)
        BY <2>10 DEF Tabs
      <4>3. m.dir[PAGE_DIR_INDEX(w)] # NONE =>
              n.tab[m.dir[PAGE_DIR_INDEX(w)]] = m.tab[m.dir[PAGE_DIR_INDEX(w)]]
        BY <2>6, <2>11, <3>2, <4>2
      <4>. QED  BY <4>1, <4>3 DEF vmm_get_phys
    <3>. QED  BY <3>1, <3>2
  <2>12. ASSUME One(m, D), n.noTable => 0 \notin Tabs(m)
         PROVE  /\ One(n, D)
                /\ \A w \in Space : vmm_get_phys(n, w) = vmm_get_phys(m, w)
    <3>1. g \notin Tabs(m) /\ g \in m.free \cup {0}
      BY <2>1, <2>3, <2>12 DEF One
    <3>2. \A w \in Space : vmm_get_phys(n, w) = vmm_get_phys(m, w)
      BY <2>11, <3>1
    <3>3. \A w \in UserPages : vmm_get_phys(n, w) = vmm_get_phys(m, w)
      BY <3>2 DEF UserPages
    <3>4. \A j, k \in DirIndex : n.dir[j] = n.dir[k] /\ n.dir[j] # NONE => j = k
      <4>1. \A j \in DirIndex : j # i /\ n.dir[j] # NONE => n.dir[j] \in Tabs(m)
        BY <2>4 DEF Tabs
      <4>2. \A j, k \in DirIndex : m.dir[j] = m.dir[k] /\ m.dir[j] # NONE => j = k
        BY <2>12 DEF One
      <4>. QED  BY <2>4, <3>1, <4>1, <4>2
    <3>5. ASSUME NEW w \in UserPages, Mapped(n, w)
          PROVE  /\ vmm_get_phys(n, w) \notin Tabs(n) \cup D \cup n.free \cup {0}
                 /\ \A u \in UserPages : vmm_get_phys(n, w) = vmm_get_phys(n, u) => w = u
      <4>1. Mapped(m, w)
        BY <3>3, <3>5 DEF Mapped
      <4>2. /\ vmm_get_phys(m, w) \notin Tabs(m) \cup D \cup m.free \cup {0}
            /\ \A u \in UserPages : vmm_get_phys(m, w) = vmm_get_phys(m, u) => w = u
        BY <2>12, <4>1 DEF One
      <4>3. Tabs(n) \cup D \cup n.free \cup {0} \subseteq Tabs(m) \cup D \cup m.free \cup {0}
        BY <2>1, <2>5, <3>1
      <4>. QED  BY <3>3, <4>2, <4>3
    <3>6. n.free \cap (Tabs(n) \cup D) = {}
      BY <2>1, <2>5, <2>12 DEF One
    <3>7. One(n, D)
      BY <3>4, <3>5, <3>6 DEF One
    <3>. QED  BY <3>2, <3>7
  <2>13. PanicInv(n)
    <3>1. g \notin Kernel => m.free \cap Kernel = {}
      <4>1. \A y \in m.free : y \in Nat /\ g <= y /\ g \in Nat
        BY <2>2, <2>3, FramesAre
      <4>2. g \notin Kernel => \A y \in m.free : y \notin Kernel
        BY <4>1, NumbersAre DEF Kernel
      <4>. QED  BY <4>2
    <3>2. Low(n)
      BY <1>1, <2>1, <2>5, <3>1 DEF PanicInv, Low
    <3>3. ASSUME n.panic, g \in Kernel PROVE Moved(n)
      <4>1. g \in Space /\ PAGE_DIR_INDEX(g) = 0 /\ PAGE_TBL_INDEX(g) \in TblIndex /\ g # NONE
        BY <3>3, PageIndices, FramesAre DEF TblIndex
      <4>2. m.dir[0] \in Tabs(m) /\ vmm_get_phys(m, g) = m.tab[m.dir[0]][PAGE_TBL_INDEX(g)]
        BY <2>2, <4>1, FramesAre DEF Tabs, vmm_get_phys
      <4>3. n.dir[0] = m.dir[0]
        BY <2>2, <2>4, FramesAre
      <4>4. vmm_get_phys(n, g) = n.tab[m.dir[0]][PAGE_TBL_INDEX(g)]
        BY <2>2, <4>1, <4>3 DEF vmm_get_phys
      <4>5. n.tab[m.dir[0]][PAGE_TBL_INDEX(g)] # g
        <5>1. CASE m.dir[0] = g
          BY <2>6, <4>1, <5>1
        <5>2. CASE m.dir[0] # g
          BY <2>1, <2>6, <3>3, <4>2, <5>2
        <5>. QED  BY <5>1, <5>2
      <4>. QED  BY <3>3, <4>4, <4>5 DEF Moved
    <3>. QED  BY <2>1, <3>1, <3>2, <3>3 DEF PanicInv
  <2>. QED  BY <2>1, <2>4, <2>5, <2>8, <2>9, <2>12, <2>13 DEF n, g, i
<1>. QED  BY <1>2, <1>3

(***************************************************************************)
(* The entry for one page.                                                 *)
(***************************************************************************)
LEMMA EntryStep ==
  ASSUME NEW n, VmType(n), NEW v \in Space, NEW f \in Space,
         n.dir[PAGE_DIR_INDEX(v)] # NONE
  PROVE  LET r == EntryAt(n, v, f)
         IN  /\ VmType(r) /\ r.free = n.free /\ r.dir = n.dir /\ r.pd = n.pd
             /\ r.panic = n.panic /\ r.noTable = n.noTable /\ r.skipped = n.skipped
             /\ r.made = With(n.made, v, f) /\ r.holds = With(n.holds, f, {})
             /\ vmm_get_phys(r, v) = f
             /\ \A D : One(n, D) => \A w \in Space : w # v => vmm_get_phys(r, w) = vmm_get_phys(n, w)
<1> DEFINE r == EntryAt(n, v, f)
           i == PAGE_DIR_INDEX(v)
           k == PAGE_TBL_INDEX(v)
           t == n.dir[i]
<1>1. /\ IsVm(r) /\ r.free = n.free /\ r.dir = n.dir /\ r.tab = Entered(n.tab, t, v, f)
      /\ r.pd = n.pd /\ r.panic = n.panic /\ r.noTable = n.noTable /\ r.skipped = n.skipped
      /\ r.made = With(n.made, v, f) /\ r.holds = With(n.holds, f, {})
  <2>1. IsVm(n)
    BY DEF VmType
  <2>. QED  BY <2>1, EntryAtIs, VmIs
<1>2. i \in DirIndex /\ k \in TblIndex /\ t \in Tabs(n)
  BY PageIndices DEF DirIndex, TblIndex, Tabs
<1>3. t \in DOMAIN n.tab /\ n.tab[t] \in [TblIndex -> Space \cup {NONE}]
  BY <1>2 DEF VmType
<1> HIDE DEF r
<1>4. Tabs(r) = Tabs(n)
  BY <1>1 DEF Tabs
<1>5. /\ DOMAIN r.tab = DOMAIN n.tab /\ r.tab[t] = [n.tab[t] EXCEPT ![k] = f]
      /\ \A u \in DOMAIN n.tab : u # t => r.tab[u] = n.tab[u]
  <2>1. r.tab = With(n.tab, t, [n.tab[t] EXCEPT ![k] = f])
    BY <1>1 DEF Entered
  <2>. QED  BY <1>3, <2>1 DEF With
<1>6. /\ r.tab[t][k] = f /\ r.tab[t] \in [TblIndex -> Space \cup {NONE}]
      /\ \A j \in TblIndex : j # k => r.tab[t][j] = n.tab[t][j]
  BY <1>2, <1>3, <1>5
<1>7. \A u \in Tabs(n) : u \in DOMAIN r.tab /\ r.tab[u] \in [TblIndex -> Space \cup {NONE}]
  BY <1>5, <1>6 DEF VmType
<1>8. VmType(r)
  BY <1>1, <1>4, <1>5, <1>7 DEF VmType
<1>9. vmm_get_phys(r, v) = f
  BY <1>1, <1>6 DEF vmm_get_phys
<1>10. ASSUME NEW D, One(n, D), NEW w \in Space, w # v
       PROVE  vmm_get_phys(r, w) = vmm_get_phys(n, w)
  <2>1. PAGE_DIR_INDEX(w) \in DirIndex /\ PAGE_TBL_INDEX(w) \in TblIndex
    BY PageIndices DEF DirIndex, TblIndex
  <2>2. CASE n.dir[PAGE_DIR_INDEX(w)] = NONE
    BY <1>1, <2>2 DEF vmm_get_phys
  <2>3. CASE n.dir[PAGE_DIR_INDEX(w)] # NONE
    <3>1. n.dir[PAGE_DIR_INDEX(w)] \in Tabs(n)
      BY <2>1, <2>3 DEF Tabs
    <3>2. CASE PAGE_DIR_INDEX(w) = i
      <4>1. PAGE_TBL_INDEX(w) # k
        BY <1>10, <3>2, PageIndices
      <4>. QED  BY <1>1, <1>6, <2>1, <3>2, <4>1 DEF vmm_get_phys
    <3>3. CASE PAGE_DIR_INDEX(w) # i
      <4>1. n.dir[PAGE_DIR_INDEX(w)] # t
        BY <1>2, <1>10, <2>1, <2>3, <3>3 DEF One
      <4>2. n.dir[PAGE_DIR_INDEX(w)] \in DOMAIN n.tab
        BY <3>1 DEF VmType
      <4>. QED  BY <1>1, <1>5, <4>1, <4>2 DEF vmm_get_phys
    <3>. QED  BY <3>2, <3>3
  <2>. QED  BY <2>2, <2>3
<1>. QED  BY <1>1, <1>8, <1>9, <1>10 DEF r

\* Nothing is unmapped by an entry, even when page tables are shared.
LEMMA EntryKeeps ==
  ASSUME NEW n, VmType(n), NEW v \in Space, NEW f \in Space,
         n.dir[PAGE_DIR_INDEX(v)] # NONE, NEW w \in Space, Mapped(n, w)
  PROVE  Mapped(EntryAt(n, v, f), w)
<1> DEFINE r == EntryAt(n, v, f)
           i == PAGE_DIR_INDEX(v)
           k == PAGE_TBL_INDEX(v)
           t == n.dir[i]
           u == n.dir[PAGE_DIR_INDEX(w)]
           j == PAGE_TBL_INDEX(w)
<1>1. IsVm(n) /\ r.dir = n.dir /\ r.tab = With(n.tab, t, [n.tab[t] EXCEPT ![k] = f])
  <2>1. IsVm(n)
    BY DEF VmType
  <2>2. r.dir = n.dir /\ r.tab = Entered(n.tab, t, v, f)
    BY <2>1, EntryAtIs, VmIs
  <2>. QED  BY <2>1, <2>2 DEF Entered
<1>2. i \in DirIndex /\ k \in TblIndex /\ t \in Tabs(n) /\ j \in TblIndex
  BY PageIndices DEF DirIndex, TblIndex, Tabs
<1>3. n.tab[t] \in [TblIndex -> Space \cup {NONE}] /\ t \in DOMAIN n.tab
  BY <1>2 DEF VmType
<1>4. u # NONE /\ n.tab[u][j] # NONE
  BY DEF Mapped, vmm_get_phys
<1>5. u \in Tabs(n)
  BY <1>4, PageIndices DEF Tabs, DirIndex
<1>6. u \in DOMAIN n.tab
  BY <1>5 DEF VmType
<1> HIDE DEF r, t, u, k, j
<1>7. r.tab[u][j] # NONE
  <2>1. CASE u = t /\ j = k
    BY <1>1, <1>2, <1>3, <2>1, FramesAre DEF With
  <2>2. CASE u = t /\ j # k
    BY <1>1, <1>2, <1>3, <1>4, <2>2 DEF With
  <2>3. CASE u # t
    BY <1>1, <1>4, <1>6, <2>3 DEF With
  <2>. QED  BY <2>1, <2>2, <2>3
<1>. QED  BY <1>1, <1>4, <1>7 DEF Mapped, vmm_get_phys, r, u, j

\* Frame f is used for nothing but page v.
Unused(m, D, v, f) ==
    /\ f \notin Tabs(m) \cup D \cup m.free \cup {0}
    /\ \A w \in UserPages : w # v => vmm_get_phys(m, w) # f

\* The page table for v is reached, or the kernel is lost on the way to it.
LEMMA MapCases ==
  ASSUME NEW m, NEW D, VmInv(m, D), NEW v \in Space, NEW f
  PROVE  LET n == WithTable(m, v)
             r == vmm_map_page(m, v, f)
         IN  /\ \/ r.panic /\ Alike(m, r) /\ PanicInv(r)
                \/ ~m.panic /\ r.panic /\ Alike(n, r) /\ PanicInv(r)
                \/ ~m.panic /\ ~n.panic /\ r = EntryAt(n, v, f)
             /\ m.panic => r = m
<1> DEFINE a == Touched(m, m.pd)
           n == WithTable(m, v)
           b == WithTable(a, v)
           q == Reached(b, v)
           e == EntryAt(q, v, f)
           r == vmm_map_page(m, v, f)
<1>1. r = IF q.panic THEN q ELSE e
  BY DEF vmm_map_page
<1>2. VmType(m) /\ PanicInv(m)
  BY DEF VmInv
<1>3. VmType(a) /\ Alike(m, a) /\ PanicInv(a) /\ (m.panic => a = m)
  <2>1. VmType(a) /\ Alike(m, a) /\ PanicInv(a)
    BY <1>2, LostAt DEF PanicInv, Low
  <2>. QED  BY <1>2, <2>1, TouchedIs DEF VmType
<1>4. CASE a.panic
  <2>1. b = a
    BY <1>4 DEF WithTable
  <2>2. q = a
    <3>1. \A f1 : Touched(a, f1) = a
      BY <1>4 DEF Touched
    <3> HIDE DEF a
    <3>. QED  BY <2>1, <3>1 DEF Reached
  <2> HIDE DEF a, q, e, r
  <2>. QED  BY <1>1, <1>3, <1>4, <2>2 DEF r
<1>5. CASE ~a.panic
  <2>1. a = m
    BY <1>3, <1>5 DEF Alike
  <2> HIDE DEF a
  <2>2. b = n /\ ~m.panic
    BY <1>5, <2>1
  <2>3. VmType(n) /\ PanicInv(n)
    BY <2>2, TableStep
  <2> HIDE DEF n, b
  <2>4. Alike(n, q) /\ PanicInv(q)
    BY <2>2, <2>3, ReachedIs
  <2>5. ~q.panic => q = n
    BY <2>4 DEF Alike
  <2> HIDE DEF q, r
  <2>. QED  BY <1>1, <2>2, <2>4, <2>5 DEF r, n
<1>. QED  BY <1>4, <1>5

\* vmm_map_page, for any page and frame.
LEMMA MapType ==
  ASSUME NEW m, NEW D, VmInv(m, D), NEW v \in Space, NEW f \in Space
  PROVE  LET r == vmm_map_page(m, v, f)
         IN  /\ VmType(r) /\ PanicInv(r) /\ After(m, r)
             /\ (r.noTable \/ 0 \in Tabs(r) => r.free = {})
             /\ ~r.panic => /\ vmm_get_phys(r, v) = f
                            /\ r.holds = With(m.holds, f, {})
             /\ Tabs(r) \subseteq Tabs(m) \cup m.free \cup {0}
             /\ r.skipped = m.skipped
<1> DEFINE n == WithTable(m, v)
           r == vmm_map_page(m, v, f)
           e == EntryAt(n, v, f)
<1>1. /\ \/ r.panic /\ Alike(m, r) /\ PanicInv(r)
         \/ ~m.panic /\ r.panic /\ Alike(n, r) /\ PanicInv(r)
         \/ ~m.panic /\ ~n.panic /\ r = e
      /\ m.panic => r = m
  BY MapCases
<1>2. VmType(m) /\ PanicInv(m) /\ (m.noTable \/ 0 \in Tabs(m) => m.free = {})
      /\ (~m.noTable => One(m, D))
  BY DEF VmInv
<1>3. CASE r.panic /\ Alike(m, r) /\ PanicInv(r)
  <2> HIDE DEF r
  <2>1. VmType(r) /\ Tabs(r) = Tabs(m) /\ After(m, r)
    BY <1>2, <1>3, AlikeKeeps
  <2>. QED  BY <1>2, <1>3, <2>1 DEF Alike, r
<1>4. CASE ~m.panic /\ ((r.panic /\ Alike(n, r) /\ PanicInv(r)) \/ (~n.panic /\ r = e))
  <2>1. /\ VmType(n) /\ n.free \subseteq m.free /\ n.pd = m.pd
        /\ n.skipped = m.skipped /\ n.made = m.made /\ n.holds = m.holds
        /\ (m.noTable => n.noTable) /\ PanicInv(n)
        /\ n.dir[PAGE_DIR_INDEX(v)] # NONE
        /\ (n.noTable \/ 0 \in Tabs(n) => n.free = {})
        /\ Tabs(n) \subseteq Tabs(m) \cup m.free \cup {0}
    BY <1>2, <1>4, TableStep, TableTabs
  <2>2. One(m, D) /\ (n.noTable => 0 \notin Tabs(m)) =>
          /\ One(n, D)
          /\ \A w \in Space : vmm_get_phys(n, w) = vmm_get_phys(m, w)
    BY <1>4, TableStep
  <2> HIDE DEF n
  <2>3. ~n.noTable => \A w \in Space : vmm_get_phys(n, w) = vmm_get_phys(m, w)
    BY <1>2, <2>1, <2>2
  <2>4. CASE r.panic /\ Alike(n, r) /\ PanicInv(r)
    <3> HIDE DEF r
    <3>1. VmType(r) /\ Tabs(r) = Tabs(n) /\ After(n, r)
      BY <2>1, <2>4, AlikeKeeps
    <3>2. After(m, n)
      BY <1>4, <2>1, <2>3 DEF After, Mapped
    <3>3. After(m, r)
      BY <3>1, <3>2, AfterAfter
    <3>. QED  BY <2>1, <2>4, <3>1, <3>3 DEF Alike, r
  <2>5. CASE ~n.panic /\ r = e
    <3>1. /\ VmType(e) /\ e.free = n.free /\ e.dir = n.dir /\ e.pd = n.pd
          /\ e.panic = n.panic /\ e.noTable = n.noTable /\ e.skipped = n.skipped
          /\ e.holds = With(n.holds, f, {}) /\ vmm_get_phys(e, v) = f
      BY <2>1, EntryStep
    <3>2. \A w \in Space : Mapped(n, w) => Mapped(e, w)
      BY <2>1, EntryKeeps
    <3>3. r = e
      BY <2>5
    <3> HIDE DEF e, r
    <3>4. Tabs(e) = Tabs(n)
      BY <3>1 DEF Tabs
    <3>5. After(m, e)
      <4>1. ~e.noTable => \A w \in Space : Mapped(m, w) => Mapped(e, w)
        BY <2>3, <3>1, <3>2 DEF Mapped
      <4>. QED  BY <1>4, <2>1, <3>1, <4>1 DEF After
    <3>6. PanicInv(e)
      BY <2>1, <2>5, <3>1, <3>4 DEF PanicInv, Low
    <3>. QED  BY <2>1, <3>1, <3>3, <3>4, <3>5, <3>6 DEF r
  <2>. QED  BY <1>4, <2>4, <2>5
<1>. QED  BY <1>1, <1>3, <1>4

\* Mapping a frame that has no other use leaves every frame with one use and
\* the other pages where they are.
LEMMA MapOne ==
  ASSUME NEW m, NEW D, VmInv(m, D), NEW v \in Space, NEW f \in Space,
         One(m, D), v \in UserPages => Unused(m, D, v, f),
         vmm_map_page(m, v, f).noTable => 0 \notin Tabs(m)
  PROVE  LET r == vmm_map_page(m, v, f)
         IN  /\ One(r, D)
             /\ \A w \in Space : w # v => vmm_get_phys(r, w) = vmm_get_phys(m, w)
<1> DEFINE n == WithTable(m, v)
           r == vmm_map_page(m, v, f)
           e == EntryAt(n, v, f)
<1>1. /\ \/ r.panic /\ Alike(m, r) /\ PanicInv(r)
         \/ ~m.panic /\ r.panic /\ Alike(n, r) /\ PanicInv(r)
         \/ ~m.panic /\ ~n.panic /\ r = e
      /\ m.panic => r = m
  BY MapCases
<1>2. CASE r.panic /\ Alike(m, r)
  <2> HIDE DEF r
  <2>1. VmType(m)
    BY DEF VmInv
  <2>. QED  BY <1>2, <2>1, AlikeKeeps DEF r
<1>3. CASE ~m.panic /\ ((r.panic /\ Alike(n, r)) \/ (~n.panic /\ r = e))
  <2>1. /\ VmType(n) /\ n.free \subseteq m.free /\ n.dir[PAGE_DIR_INDEX(v)] # NONE
        /\ Tabs(n) \subseteq Tabs(m) \cup m.free \cup {0}
    BY <1>3, TableStep, TableTabs DEF VmInv
  <2>2. /\ VmType(e) /\ e.free = n.free /\ e.dir = n.dir /\ e.noTable = n.noTable
        /\ vmm_get_phys(e, v) = f
        /\ One(n, D) => \A w \in Space : w # v => vmm_get_phys(e, w) = vmm_get_phys(n, w)
    BY <2>1, EntryStep
  <2>3. r.noTable = n.noTable
    <3> HIDE DEF e
    <3>. QED  BY <1>3, <2>2 DEF Alike
  <2>4. One(n, D) /\ \A w \in Space : vmm_get_phys(n, w) = vmm_get_phys(m, w)
    <3>1. n.noTable => 0 \notin Tabs(m)
      BY <2>3
    <3>. QED  BY <1>3, <3>1, TableStep
  <2> HIDE DEF n, e, r
  <2>5. CASE r.panic /\ Alike(n, r)
    <3>1. One(r, D) /\ \A w : vmm_get_phys(r, w) = vmm_get_phys(n, w)
      BY <2>1, <2>4, <2>5, AlikeKeeps
    <3>. QED  BY <2>4, <3>1 DEF r
  <2>6. CASE ~n.panic /\ r = e
    <3>1. r = e
      BY <2>6
    <3>2. \A w \in Space : w # v => vmm_get_phys(e, w) = vmm_get_phys(m, w)
      BY <2>2, <2>4
    <3>3. Tabs(e) = Tabs(n)
      BY <2>2 DEF Tabs
    <3>4. \A j, k \in DirIndex : e.dir[j] = e.dir[k] /\ e.dir[j] # NONE => j = k
      BY <2>2, <2>4 DEF One
    <3>5. e.free \cap (Tabs(e) \cup D) = {}
      BY <2>2, <2>4, <3>3 DEF One
    <3>6. UserPages \subseteq Space
      BY DEF UserPages
    <3>7. \A w \in UserPages : w # v => vmm_get_phys(e, w) = vmm_get_phys(n, w)
      BY <2>2, <2>4, <3>6
    <3>8. v \in UserPages => f \notin Tabs(e) \cup D \cup e.free \cup {0}
      BY <2>1, <2>2, <3>3 DEF Unused
    <3>9. v \in UserPages => \A w \in UserPages : w # v => vmm_get_phys(n, w) # f
      BY <2>4, <3>6 DEF Unused
    <3>10. ASSUME NEW w \in UserPages, Mapped(e, w)
           PROVE  /\ vmm_get_phys(e, w) \notin Tabs(e) \cup D \cup e.free \cup {0}
                  /\ \A u \in UserPages : vmm_get_phys(e, w) = vmm_get_phys(e, u) => w = u
      <4>1. CASE w = v
        <5>1. \A u \in UserPages : u # v => vmm_get_phys(e, u) # f
          BY <3>7, <3>9, <4>1
        <5>. QED  BY <2>2, <3>8, <4>1, <5>1
      <4>2. CASE w # v
        <5>1. vmm_get_phys(e, w) = vmm_get_phys(n, w)
          BY <3>7, <4>2
        <5>2. Mapped(n, w)
          BY <3>10, <5>1 DEF Mapped
        <5>3. /\ vmm_get_phys(n, w) \notin Tabs(n) \cup D \cup n.free \cup {0}
              /\ \A u \in UserPages : vmm_get_phys(n, w) = vmm_get_phys(n, u) => w = u
          BY <2>4, <5>2 DEF One
        <5>4. v \in UserPages => vmm_get_phys(n, w) # f
          BY <3>9, <4>2
        <5>5. \A u \in UserPages : vmm_get_phys(e, w) = vmm_get_phys(e, u) => w = u
          BY <2>2, <3>7, <5>1, <5>3, <5>4
        <5>. QED  BY <2>2, <3>3, <5>1, <5>3, <5>5
      <4>. QED  BY <4>1, <4>2
    <3>11. One(e, D)
      BY <3>4, <3>5, <3>10 DEF One
    <3>. QED  BY <3>1, <3>2, <3>11 DEF r
  <2>. QED  BY <1>3, <2>5, <2>6
<1>. QED  BY <1>1, <1>2, <1>3

LEMMA MapInv ==
  ASSUME NEW m, NEW D, VmInv(m, D), NEW v \in Space, NEW f \in Space,
         ~m.noTable /\ v \in UserPages => Unused(m, D, v, f)
  PROVE  LET r == vmm_map_page(m, v, f)
         IN  /\ VmInv(r, D) /\ After(m, r)
             /\ ~r.panic => Mapped(r, v)
<1> DEFINE r == vmm_map_page(m, v, f)
<1>1. /\ VmType(r) /\ PanicInv(r) /\ After(m, r)
      /\ (r.noTable \/ 0 \in Tabs(r) => r.free = {})
      /\ ~r.panic => vmm_get_phys(r, v) = f
  BY MapType
<1>2. ~r.noTable => One(r, D)
  <2>1. SUFFICES ASSUME ~r.noTable PROVE One(r, D)
    OBVIOUS
  <2>2. ~m.noTable
    BY <1>1, <2>1 DEF After
  <2>3. One(m, D)
    BY <2>2 DEF VmInv
  <2>. QED  BY <2>1, <2>2, <2>3, MapOne
<1> HIDE DEF r
<1>3. ~r.panic => Mapped(r, v)
  BY <1>1, FramesAre DEF Mapped
<1>. QED  BY <1>1, <1>2, <1>3 DEF VmInv, r

\* A frame that is taken has no use yet.
LEMMA TakenStep ==
  ASSUME NEW m, NEW D, VmInv(m, D), ~m.panic, pmm_alloc_page(m) # 0
  PROVE  LET q == Taken(m)
             f == pmm_alloc_page(m)
         IN  /\ VmInv(q, D) /\ After(m, q) /\ q.holds = m.holds
             /\ f \in RamFrames /\ f \in Space /\ f # 0 /\ f # NONE
             /\ ~m.noTable /\ 0 \notin Tabs(q) /\ One(m, D) /\ One(q, D)
             /\ \A v : Unused(q, D, v, f)
             /\ \A w : vmm_get_phys(q, w) = vmm_get_phys(m, w)
<1> DEFINE q == Taken(m)
           f == pmm_alloc_page(m)
<1>1. /\ VmType(m) /\ (m.noTable \/ 0 \in Tabs(m) => m.free = {})
      /\ (~m.noTable => One(m, D)) /\ m.free \in SUBSET RamFrames
  BY DEF VmInv, VmType
<1>2. f \in m.free
  BY <1>1, FirstFree
<1>3. ~m.noTable /\ 0 \notin Tabs(m) /\ One(m, D)
  BY <1>1, <1>2
<1>4. /\ IsVm(q) /\ q.free = m.free \ {f} /\ q.dir = m.dir
      /\ q.tab = m.tab /\ q.pd = m.pd /\ q.panic = m.panic
      /\ q.noTable = m.noTable /\ q.skipped = m.skipped
      /\ q.made = m.made /\ q.holds = m.holds
  BY <1>1, TakenIs
<1> HIDE DEF q, f
<1>5. \A w : vmm_get_phys(q, w) = vmm_get_phys(m, w)
  BY <1>4 DEF vmm_get_phys
<1>6. Tabs(q) = Tabs(m)
  BY <1>4 DEF Tabs
<1>7. VmType(q)
  BY <1>1, <1>4, <1>6 DEF VmType
<1>8. One(q, D)
  BY <1>3, <1>4, <1>5, <1>6 DEF One, Mapped
<1>9. PanicInv(q)
  <2>1. PanicInv(m)
    BY DEF VmInv
  <2>. QED  BY <1>4, <1>5, <1>6, <2>1 DEF PanicInv, Low, Moved
<1>10. After(m, q)
  BY <1>4, <1>5 DEF After, Mapped
<1>11. f \in RamFrames /\ f \in Space /\ f # 0 /\ f # NONE
  BY <1>1, <1>2, FramesAre
<1>12. ASSUME NEW v PROVE Unused(q, D, v, f)
  <2>1. f \notin Tabs(q) \cup D \cup q.free \cup {0}
    BY <1>2, <1>3, <1>4, <1>6, <1>11 DEF One
  <2>2. ASSUME NEW w \in UserPages PROVE vmm_get_phys(q, w) # f
    BY <1>2, <1>3, <1>5, <1>11 DEF One, Mapped
  <2>. QED  BY <2>1, <2>2 DEF Unused
<1>13. VmInv(q, D)
  BY <1>3, <1>4, <1>6, <1>7, <1>8, <1>9 DEF VmInv
<1>. QED  BY <1>3, <1>4, <1>5, <1>6, <1>8, <1>10, <1>11, <1>12, <1>13 DEF q, f

LEMMA SkippedStep ==
  ASSUME NEW m, NEW D, VmInv(m, D)
  PROVE  LET r == [m EXCEPT !.skipped = TRUE]
         IN  VmInv(r, D) /\ After(m, r) /\ r.skipped
<1>1. PICK b : b = TRUE
  OBVIOUS
<1> DEFINE r == SetSkipped(m, b)
<1>2. [m EXCEPT !.skipped = TRUE] = r
  BY <1>1 DEF SetSkipped
<1>3. IsVm(m)
  BY DEF VmInv, VmType
<1>4. r = Vm(m.free, m.dir, m.tab, m.pd, m.panic, m.noTable, b, m.made, m.holds)
  BY <1>3, FieldSet
<1> HIDE DEF r
<1>5. /\ IsVm(r) /\ r.free = m.free /\ r.dir = m.dir /\ r.tab = m.tab /\ r.pd = m.pd
      /\ r.panic = m.panic /\ r.noTable = m.noTable /\ r.skipped = b
  BY <1>4, VmIs
<1>6. \A w : vmm_get_phys(r, w) = vmm_get_phys(m, w)
  BY <1>5 DEF vmm_get_phys
<1>7. Tabs(r) = Tabs(m)
  BY <1>5 DEF Tabs
<1>8. VmType(m) /\ (~m.noTable => One(m, D)) /\ PanicInv(m)
      /\ (m.noTable \/ 0 \in Tabs(m) => m.free = {})
  BY DEF VmInv
<1>9. r.skipped \in BOOLEAN /\ r.skipped
  BY <1>1, <1>5
<1>10. VmType(r)
  BY <1>5, <1>7, <1>8, <1>9 DEF VmType
<1>11. ~r.noTable => One(r, D)
  BY <1>5, <1>6, <1>7, <1>8 DEF One, Mapped
<1>12. PanicInv(r)
  BY <1>5, <1>6, <1>7, <1>8 DEF PanicInv, Low, Moved
<1>13. VmInv(r, D)
  BY <1>5, <1>7, <1>8, <1>10, <1>11, <1>12 DEF VmInv
<1>14. After(m, r)
  BY <1>5, <1>6, <1>9 DEF After, Mapped
<1>. QED  BY <1>2, <1>9, <1>13, <1>14

LEMMA FreshStep ==
  ASSUME NEW m, NEW D, VmInv(m, D), NEW v \in Space
  PROVE  LET r == MapFresh(m, v)
         IN  /\ VmInv(r, D) /\ After(m, r)
             /\ ~r.skipped /\ ~r.panic => Mapped(r, v)
<1> DEFINE q == Taken(m)
           f == pmm_alloc_page(m)
           s == [m EXCEPT !.skipped = TRUE]
           r == MapFresh(m, v)
<1>1. r = IF m.panic THEN m ELSE IF f = 0 THEN s ELSE vmm_map_page(q, v, f)
  BY DEF MapFresh
<1>2. CASE m.panic
  <2>1. r = m /\ After(m, m)
    BY <1>1, <1>2 DEF After
  <2>. QED  BY <1>2, <2>1
<1>3. CASE ~m.panic /\ f = 0
  <2>1. r = s
    BY <1>1, <1>3
  <2>2. VmInv(s, D) /\ After(m, s) /\ s.skipped
    BY SkippedStep
  <2>. QED  BY <2>1, <2>2
<1>4. CASE ~m.panic /\ f # 0
  <2>1. r = vmm_map_page(q, v, f)
    BY <1>1, <1>4
  <2>2. VmInv(q, D) /\ After(m, q) /\ f \in Space /\ Unused(q, D, v, f)
    BY <1>4, TakenStep
  <2> HIDE DEF q, f, r
  <2>3. VmInv(r, D) /\ After(q, r) /\ (~r.panic => Mapped(r, v))
    BY <2>1, <2>2, MapInv
  <2>. QED  BY <2>2, <2>3, AfterAfter DEF r
<1>. QED  BY <1>2, <1>3, <1>4

\* The kernel's pages and the framebuffer are mapped to themselves.
Same(m) ==
    ~m.noTable => \A w \in UserPages : Mapped(m, w) => vmm_get_phys(m, w) = w

LEMMA KernelStep ==
  ASSUME NEW m, NEW D, VmInv(m, D), NEW v \in Kernel
  PROVE  LET r == vmm_map_page(m, v, v) IN VmInv(r, D) /\ After(m, r)
<1>1. v \in Space /\ v \notin UserPages /\ v \in Nat
  BY PageIndices DEF UserPages
<1>. QED  BY <1>1, MapInv

LEMMA FramebufferStep ==
  ASSUME NEW m, NEW D, VmInv(m, D), D \subseteq RamFrames \cup {0}, Same(m),
         NEW v \in Framebuffer
  PROVE  LET r == vmm_map_page(m, v, v) IN VmInv(r, D) /\ After(m, r) /\ Same(r)
<1> DEFINE r == vmm_map_page(m, v, v)
<1>1. v \in Space /\ v \in Nat /\ v \notin RamFrames
  BY FramesAre, PageIndices
<1>2. v \in UserPages => v # 0
  BY NumbersAre DEF UserPages, Kernel
<1>3. m.free \subseteq RamFrames /\ Tabs(m) \subseteq RamFrames \cup {0}
  BY DEF VmInv, VmType, Tabs
<1>4. ~m.noTable /\ v \in UserPages => Unused(m, D, v, v)
  <2>1. SUFFICES ASSUME ~m.noTable, v \in UserPages PROVE Unused(m, D, v, v)
    OBVIOUS
  <2>2. v \notin Tabs(m) \cup D \cup m.free \cup {0}
    BY <1>1, <1>2, <1>3, <2>1
  <2>3. \A w \in UserPages : w # v => vmm_get_phys(m, w) # v
    <3>1. \A w \in UserPages : ~Mapped(m, w) => vmm_get_phys(m, w) # v
      BY <1>1, FramesAre DEF Mapped
    <3>. QED  BY <2>1, <3>1 DEF Same
  <2>. QED  BY <2>2, <2>3 DEF Unused
<1>5. VmInv(r, D) /\ After(m, r) /\ (~r.panic => vmm_get_phys(r, v) = v)
  BY <1>1, <1>4, MapInv, MapType
<1>6. Same(r)
  <2>1. SUFFICES ASSUME ~r.noTable, NEW w \in UserPages, Mapped(r, w)
                 PROVE  vmm_get_phys(r, w) = w
    BY DEF Same
  <2>2. ~m.noTable /\ One(m, D)
    BY <1>5, <2>1 DEF After, VmInv
  <2>3. w \in Space
    BY DEF UserPages
  <2>4. \A u \in Space : u # v => vmm_get_phys(r, u) = vmm_get_phys(m, u)
    <3>1. v \in UserPages => Unused(m, D, v, v)
      BY <1>4, <2>2
    <3>2. vmm_map_page(m, v, v).noTable => 0 \notin Tabs(m)
      BY <2>1
    <3>. QED  BY <1>1, <2>2, <3>1, <3>2, MapOne
  <2> HIDE DEF r
  <2>5. CASE w = v
    <3>1. CASE r.panic
      <4>1. (~m.panic /\ Alike(WithTable(m, v), r)) \/ Alike(m, r)
        <5> DEFINE n == WithTable(m, v)
                   e == EntryAt(n, v, v)
        <5>1. CASE ~m.panic /\ ~n.panic /\ r = e
          <6>1. VmType(n) /\ n.dir[PAGE_DIR_INDEX(v)] # NONE
            BY <1>1, <5>1, TableStep
          <6>2. e.panic = n.panic
            BY <1>1, <6>1, EntryStep
          <6>. QED  BY <3>1, <5>1, <6>2
        <5>. QED  BY <1>1, <5>1, MapCases DEF r
      <4>2. vmm_get_phys(r, w) = vmm_get_phys(m, w)
        <5>1. CASE Alike(m, r)
          <6>1. VmType(m)
            BY DEF VmInv
          <6>. QED  BY <5>1, <6>1, AlikeKeeps
        <5>2. CASE ~m.panic /\ Alike(WithTable(m, v), r)
          <6> DEFINE n == WithTable(m, v)
          <6>1. n.noTable => 0 \notin Tabs(m)
            BY <2>1, <5>2 DEF Alike
          <6>2. VmType(n) /\ vmm_get_phys(n, w) = vmm_get_phys(m, w)
            BY <1>1, <2>2, <2>3, <5>2, <6>1, TableStep
          <6> HIDE DEF n
          <6>. QED  BY <5>2, <6>2, AlikeKeeps DEF n
        <5>. QED  BY <4>1, <5>1, <5>2
      <4>. QED  BY <2>1, <2>2, <4>2 DEF Same, Mapped
    <3>2. CASE ~r.panic
      BY <1>5, <2>5, <3>2
    <3>. QED  BY <3>1, <3>2
  <2>6. CASE w # v
    BY <2>1, <2>2, <2>3, <2>4, <2>6 DEF Same, Mapped
  <2>. QED  BY <2>5, <2>6
<1>. QED  BY <1>5, <1>6

MapRunFrom(m, addr, n, w) ==
    w = [i \in 0 .. n |-> IF i = 0 THEN m ELSE MapFresh(w[i - 1], PageAt(addr, i))]

LEMMA MapRunExists ==
  ASSUME NEW m, NEW addr, NEW n \in Nat
  PROVE  \E w : MapRunFrom(m, addr, n, w)
<1> DEFINE S == {k \in 0 .. n : \E w : MapRunFrom(m, addr, k, w)}
<1>1. 0 \in S
  <2> DEFINE w == [i \in 0 .. 0 |-> m]
  <2>1. w = [i \in 0 .. 0 |-> IF i = 0 THEN m ELSE MapFresh(w[i - 1], PageAt(addr, i))]
    OBVIOUS
  <2> HIDE DEF w
  <2>2. MapRunFrom(m, addr, 0, w)
    BY <2>1 DEF MapRunFrom
  <2>. QED  BY <2>2
<1>2. ASSUME NEW k \in 0 .. n, k \in S, k < n PROVE k + 1 \in S
  <2>1. PICK w : MapRunFrom(m, addr, k, w)
    BY <1>2
  <2> DEFINE z == [i \in 0 .. k + 1 |-> IF i = k + 1
                                        THEN MapFresh(w[k], PageAt(addr, k + 1))
                                        ELSE w[i]]
  <2>2. ASSUME NEW i \in 0 .. k + 1
        PROVE  z[i] = IF i = 0 THEN m ELSE MapFresh(z[i - 1], PageAt(addr, i))
    <3>1. CASE i = k + 1
      <4>1. i # 0 /\ i - 1 = k /\ k \in 0 .. k + 1 /\ z[k] = w[k]
        BY <1>2, <3>1
      <4>2. z[i] = MapFresh(w[k], PageAt(addr, k + 1))
        BY <3>1
      <4> HIDE DEF z
      <4>. QED  BY <3>1, <4>1, <4>2
    <3>2. CASE i # k + 1
      <4>1. i \in 0 .. k /\ z[i] = w[i] /\ (i # 0 => i - 1 \in 0 .. k + 1 /\ z[i - 1] = w[i - 1])
        BY <1>2, <3>2
      <4>2. w[i] = IF i = 0 THEN m ELSE MapFresh(w[i - 1], PageAt(addr, i))
        BY <2>1, <4>1 DEF MapRunFrom
      <4> HIDE DEF z
      <4>. QED  BY <4>1, <4>2
    <3>. QED  BY <3>1, <3>2
  <2>3. z = [i \in 0 .. k + 1 |-> z[i]]
    OBVIOUS
  <2> HIDE DEF z
  <2>4. MapRunFrom(m, addr, k + 1, z)
    BY <2>2, <2>3 DEF MapRunFrom
  <2>. QED  BY <1>2, <2>4
<1>3. 0 .. n \subseteq S
  <2> HIDE DEF S
  <2>. QED  BY <1>1, <1>2, UpTo
<1>. QED  BY <1>3

LEMMA MapRunEquation ==
  ASSUME NEW m, NEW addr, NEW S, NEW w,
         w = [i \in S |-> IF i = 0 THEN m ELSE MapFresh(w[i - 1], PageAt(addr, i))]
  PROVE  \A i \in S : w[i] = IF i = 0 THEN m ELSE MapFresh(w[i - 1], PageAt(addr, i))
BY Zenon

LEMMA MapRunIs ==
  ASSUME NEW m, NEW addr, NEW n \in Nat
  PROVE  \E w : /\ MapRun(m, addr, n) = w[n] /\ w[0] = m
                /\ \A i \in 1 .. n : w[i] = MapFresh(w[i - 1], PageAt(addr, i))
<1> DEFINE w == CHOOSE z : z = [i \in 0 .. n |-> IF i = 0 THEN m
                                                 ELSE MapFresh(z[i - 1], PageAt(addr, i))]
<1>1. MapRunFrom(m, addr, n, w)
  <2>1. \E z : MapRunFrom(m, addr, n, z)
    BY MapRunExists
  <2>. QED  BY <2>1 DEF MapRunFrom
<1>2. MapRun(m, addr, n) = w[n]
  BY DEF MapRun
<1> HIDE DEF w
<1>3. \A i \in 0 .. n : w[i] = IF i = 0 THEN m ELSE MapFresh(w[i - 1], PageAt(addr, i))
  BY <1>1, MapRunEquation DEF MapRunFrom
<1>4. n \in Nat /\ 0 \in 0 .. n /\ \A i \in 1 .. n : i \in 0 .. n /\ i # 0
  OBVIOUS
<1>5. w[0] = m /\ \A i \in 1 .. n : w[i] = MapFresh(w[i - 1], PageAt(addr, i))
  BY <1>3, <1>4
<1>. QED  BY <1>2, <1>5

MapSameFrom(m, first, n, w) ==
    w = [i \in 0 .. n |-> IF i = 0 THEN m
                          ELSE vmm_map_page(w[i - 1], first + i - 1, first + i - 1)]

LEMMA MapSameExists ==
  ASSUME NEW m, NEW first, NEW n \in Nat
  PROVE  \E w : MapSameFrom(m, first, n, w)
<1> DEFINE S == {k \in 0 .. n : \E w : MapSameFrom(m, first, k, w)}
<1>1. 0 \in S
  <2> DEFINE w == [i \in 0 .. 0 |-> m]
  <2>1. w = [i \in 0 .. 0 |-> IF i = 0 THEN m
                              ELSE vmm_map_page(w[i - 1], first + i - 1, first + i - 1)]
    OBVIOUS
  <2> HIDE DEF w
  <2>2. MapSameFrom(m, first, 0, w)
    BY <2>1 DEF MapSameFrom
  <2>. QED  BY <2>2
<1>2. ASSUME NEW k \in 0 .. n, k \in S, k < n PROVE k + 1 \in S
  <2>1. PICK w : MapSameFrom(m, first, k, w)
    BY <1>2
  <2> DEFINE z == [i \in 0 .. k + 1 |-> IF i = k + 1
                                        THEN vmm_map_page(w[k], first + (k + 1) - 1, first + (k + 1) - 1)
                                        ELSE w[i]]
  <2>2. ASSUME NEW i \in 0 .. k + 1
        PROVE  z[i] = IF i = 0 THEN m
                      ELSE vmm_map_page(z[i - 1], first + i - 1, first + i - 1)
    <3>1. CASE i = k + 1
      <4>1. i # 0 /\ i - 1 = k /\ k \in 0 .. k + 1 /\ z[k] = w[k]
        BY <1>2, <3>1
      <4>2. z[i] = vmm_map_page(w[k], first + (k + 1) - 1, first + (k + 1) - 1)
        BY <3>1
      <4> HIDE DEF z
      <4>. QED  BY <3>1, <4>1, <4>2
    <3>2. CASE i # k + 1
      <4>1. i \in 0 .. k /\ z[i] = w[i] /\ (i # 0 => i - 1 \in 0 .. k + 1 /\ z[i - 1] = w[i - 1])
        BY <1>2, <3>2
      <4>2. w[i] = IF i = 0 THEN m
                   ELSE vmm_map_page(w[i - 1], first + i - 1, first + i - 1)
        BY <2>1, <4>1 DEF MapSameFrom
      <4> HIDE DEF z
      <4>. QED  BY <4>1, <4>2
    <3>. QED  BY <3>1, <3>2
  <2>3. z = [i \in 0 .. k + 1 |-> z[i]]
    OBVIOUS
  <2> HIDE DEF z
  <2>4. MapSameFrom(m, first, k + 1, z)
    BY <2>2, <2>3 DEF MapSameFrom
  <2>. QED  BY <1>2, <2>4
<1>3. 0 .. n \subseteq S
  <2> HIDE DEF S
  <2>. QED  BY <1>1, <1>2, UpTo
<1>. QED  BY <1>3

LEMMA MapSameEquation ==
  ASSUME NEW m, NEW first, NEW S, NEW w,
         w = [i \in S |-> IF i = 0 THEN m
                          ELSE vmm_map_page(w[i - 1], first + i - 1, first + i - 1)]
  PROVE  \A i \in S : w[i] = IF i = 0 THEN m
                             ELSE vmm_map_page(w[i - 1], first + i - 1, first + i - 1)
BY Zenon

LEMMA MapSameIs ==
  ASSUME NEW m, NEW first, NEW n \in Nat
  PROVE  \E w : /\ MapSame(m, first, n) = w[n] /\ w[0] = m
                /\ \A i \in 1 .. n : w[i] = vmm_map_page(w[i - 1], first + i - 1, first + i - 1)
<1> DEFINE w == CHOOSE z : z = [i \in 0 .. n |-> IF i = 0 THEN m
                                                 ELSE vmm_map_page(z[i - 1], first + i - 1, first + i - 1)]
<1>1. MapSameFrom(m, first, n, w)
  <2>1. \E z : MapSameFrom(m, first, n, z)
    BY MapSameExists
  <2>. QED  BY <2>1 DEF MapSameFrom
<1>2. MapSame(m, first, n) = w[n]
  BY DEF MapSame
<1> HIDE DEF w
<1>3. \A i \in 0 .. n : w[i] = IF i = 0 THEN m
                               ELSE vmm_map_page(w[i - 1], first + i - 1, first + i - 1)
  BY <1>1, MapSameEquation DEF MapSameFrom
<1>4. n \in Nat /\ 0 \in 0 .. n /\ \A i \in 1 .. n : i \in 0 .. n /\ i # 0
  OBVIOUS
<1>5. w[0] = m /\ \A i \in 1 .. n : w[i] = vmm_map_page(w[i - 1], first + i - 1, first + i - 1)
  BY <1>3, <1>4
<1>. QED  BY <1>2, <1>5

UnmapRunFrom(m, addr, n, w) ==
    w = [i \in 0 .. n |-> IF i = 0 THEN m
                          ELSE vmm_unmap_page(w[i - 1], PageAt(addr, i))]

LEMMA UnmapRunExists ==
  ASSUME NEW m, NEW addr, NEW n \in Nat
  PROVE  \E w : UnmapRunFrom(m, addr, n, w)
<1> DEFINE S == {k \in 0 .. n : \E w : UnmapRunFrom(m, addr, k, w)}
<1>1. 0 \in S
  <2> DEFINE w == [i \in 0 .. 0 |-> m]
  <2>1. w = [i \in 0 .. 0 |-> IF i = 0 THEN m
                              ELSE vmm_unmap_page(w[i - 1], PageAt(addr, i))]
    OBVIOUS
  <2> HIDE DEF w
  <2>2. UnmapRunFrom(m, addr, 0, w)
    BY <2>1 DEF UnmapRunFrom
  <2>. QED  BY <2>2
<1>2. ASSUME NEW k \in 0 .. n, k \in S, k < n PROVE k + 1 \in S
  <2>1. PICK w : UnmapRunFrom(m, addr, k, w)
    BY <1>2
  <2> DEFINE z == [i \in 0 .. k + 1 |-> IF i = k + 1
                                        THEN vmm_unmap_page(w[k], PageAt(addr, k + 1))
                                        ELSE w[i]]
  <2>2. ASSUME NEW i \in 0 .. k + 1
        PROVE  z[i] = IF i = 0 THEN m ELSE vmm_unmap_page(z[i - 1], PageAt(addr, i))
    <3>1. CASE i = k + 1
      <4>1. i # 0 /\ i - 1 = k /\ k \in 0 .. k + 1 /\ z[k] = w[k]
        BY <1>2, <3>1
      <4>2. z[i] = vmm_unmap_page(w[k], PageAt(addr, k + 1))
        BY <3>1
      <4> HIDE DEF z
      <4>. QED  BY <3>1, <4>1, <4>2
    <3>2. CASE i # k + 1
      <4>1. i \in 0 .. k /\ z[i] = w[i] /\ (i # 0 => i - 1 \in 0 .. k + 1 /\ z[i - 1] = w[i - 1])
        BY <1>2, <3>2
      <4>2. w[i] = IF i = 0 THEN m ELSE vmm_unmap_page(w[i - 1], PageAt(addr, i))
        BY <2>1, <4>1 DEF UnmapRunFrom
      <4> HIDE DEF z
      <4>. QED  BY <4>1, <4>2
    <3>. QED  BY <3>1, <3>2
  <2>3. z = [i \in 0 .. k + 1 |-> z[i]]
    OBVIOUS
  <2> HIDE DEF z
  <2>4. UnmapRunFrom(m, addr, k + 1, z)
    BY <2>2, <2>3 DEF UnmapRunFrom
  <2>. QED  BY <1>2, <2>4
<1>3. 0 .. n \subseteq S
  <2> HIDE DEF S
  <2>. QED  BY <1>1, <1>2, UpTo
<1>. QED  BY <1>3

LEMMA UnmapRunEquation ==
  ASSUME NEW m, NEW addr, NEW S, NEW w,
         w = [i \in S |-> IF i = 0 THEN m
                          ELSE vmm_unmap_page(w[i - 1], PageAt(addr, i))]
  PROVE  \A i \in S : w[i] = IF i = 0 THEN m
                             ELSE vmm_unmap_page(w[i - 1], PageAt(addr, i))
BY Zenon

LEMMA UnmapRunIs ==
  ASSUME NEW m, NEW addr, NEW n \in Nat
  PROVE  \E w : /\ UnmapRun(m, addr, n) = w[n] /\ w[0] = m
                /\ \A i \in 1 .. n : w[i] = vmm_unmap_page(w[i - 1], PageAt(addr, i))
<1> DEFINE w == CHOOSE z : z = [i \in 0 .. n |-> IF i = 0 THEN m
                                                 ELSE vmm_unmap_page(z[i - 1], PageAt(addr, i))]
<1>1. UnmapRunFrom(m, addr, n, w)
  <2>1. \E z : UnmapRunFrom(m, addr, n, z)
    BY UnmapRunExists
  <2>. QED  BY <2>1 DEF UnmapRunFrom
<1>2. UnmapRun(m, addr, n) = w[n]
  BY DEF UnmapRun
<1> HIDE DEF w
<1>3. \A i \in 0 .. n : w[i] = IF i = 0 THEN m
                               ELSE vmm_unmap_page(w[i - 1], PageAt(addr, i))
  BY <1>1, UnmapRunEquation DEF UnmapRunFrom
<1>4. n \in Nat /\ 0 \in 0 .. n /\ \A i \in 1 .. n : i \in 0 .. n /\ i # 0
  OBVIOUS
<1>5. w[0] = m /\ \A i \in 1 .. n : w[i] = vmm_unmap_page(w[i - 1], PageAt(addr, i))
  BY <1>3, <1>4
<1>. QED  BY <1>2, <1>5

SegMappedFrom(m, s, n, w) ==
    w = [i \in 0 .. n |-> IF i = 0 THEN Loading(m, TRUE)
                          ELSE SegPage(w[i - 1], Page(s.vaddr) + i - 1)]

LEMMA SegMappedExists ==
  ASSUME NEW m, NEW s, NEW n \in Nat
  PROVE  \E w : SegMappedFrom(m, s, n, w)
<1> DEFINE S == {k \in 0 .. n : \E w : SegMappedFrom(m, s, k, w)}
<1>1. 0 \in S
  <2> DEFINE w == [i \in 0 .. 0 |-> Loading(m, TRUE)]
  <2>1. w = [i \in 0 .. 0 |-> IF i = 0 THEN Loading(m, TRUE)
                              ELSE SegPage(w[i - 1], Page(s.vaddr) + i - 1)]
    OBVIOUS
  <2> HIDE DEF w
  <2>2. SegMappedFrom(m, s, 0, w)
    BY <2>1 DEF SegMappedFrom
  <2>. QED  BY <2>2
<1>2. ASSUME NEW k \in 0 .. n, k \in S, k < n PROVE k + 1 \in S
  <2>1. PICK w : SegMappedFrom(m, s, k, w)
    BY <1>2
  <2> DEFINE z == [i \in 0 .. k + 1 |-> IF i = k + 1
                                        THEN SegPage(w[k], Page(s.vaddr) + (k + 1) - 1)
                                        ELSE w[i]]
  <2>2. ASSUME NEW i \in 0 .. k + 1
        PROVE  z[i] = IF i = 0 THEN Loading(m, TRUE)
                      ELSE SegPage(z[i - 1], Page(s.vaddr) + i - 1)
    <3>1. CASE i = k + 1
      <4>1. i # 0 /\ i - 1 = k /\ k \in 0 .. k + 1 /\ z[k] = w[k]
        BY <1>2, <3>1
      <4>2. z[i] = SegPage(w[k], Page(s.vaddr) + (k + 1) - 1)
        BY <3>1
      <4> HIDE DEF z
      <4>. QED  BY <3>1, <4>1, <4>2
    <3>2. CASE i # k + 1
      <4>1. i \in 0 .. k /\ z[i] = w[i] /\ (i # 0 => i - 1 \in 0 .. k + 1 /\ z[i - 1] = w[i - 1])
        BY <1>2, <3>2
      <4>2. w[i] = IF i = 0 THEN Loading(m, TRUE)
                   ELSE SegPage(w[i - 1], Page(s.vaddr) + i - 1)
        BY <2>1, <4>1 DEF SegMappedFrom
      <4> HIDE DEF z
      <4>. QED  BY <4>1, <4>2
    <3>. QED  BY <3>1, <3>2
  <2>3. z = [i \in 0 .. k + 1 |-> z[i]]
    OBVIOUS
  <2> HIDE DEF z
  <2>4. SegMappedFrom(m, s, k + 1, z)
    BY <2>2, <2>3 DEF SegMappedFrom
  <2>. QED  BY <1>2, <2>4
<1>3. 0 .. n \subseteq S
  <2> HIDE DEF S
  <2>. QED  BY <1>1, <1>2, UpTo
<1>. QED  BY <1>3

LEMMA SegMappedEquation ==
  ASSUME NEW m, NEW s, NEW S, NEW w,
         w = [i \in S |-> IF i = 0 THEN Loading(m, TRUE)
                          ELSE SegPage(w[i - 1], Page(s.vaddr) + i - 1)]
  PROVE  \A i \in S : w[i] = IF i = 0 THEN Loading(m, TRUE)
                             ELSE SegPage(w[i - 1], Page(s.vaddr) + i - 1)
BY Zenon

LEMMA SegMappedIs ==
  ASSUME NEW m, NEW s, page_end(s) - Page(s.vaddr) \in Nat
  PROVE  \E w : /\ SegMapped(m, s) = w[(page_end(s) - Page(s.vaddr))] /\ w[0] = Loading(m, TRUE)
                /\ \A i \in 1 .. (page_end(s) - Page(s.vaddr)) : w[i] = SegPage(w[i - 1], Page(s.vaddr) + i - 1)
<1> DEFINE n == (page_end(s) - Page(s.vaddr))
           w == CHOOSE z : z = [i \in 0 .. n |-> IF i = 0 THEN Loading(m, TRUE)
                                                 ELSE SegPage(z[i - 1], Page(s.vaddr) + i - 1)]
<1>1. SegMappedFrom(m, s, n, w)
  <2>1. \E z : SegMappedFrom(m, s, n, z)
    BY SegMappedExists
  <2>. QED  BY <2>1 DEF SegMappedFrom
<1>2. SegMapped(m, s) = w[n]
  BY DEF SegMapped
<1> HIDE DEF w
<1>3. \A i \in 0 .. n : w[i] = IF i = 0 THEN Loading(m, TRUE)
                               ELSE SegPage(w[i - 1], Page(s.vaddr) + i - 1)
  BY <1>1, SegMappedEquation DEF SegMappedFrom
<1> HIDE DEF n
<1>4. n \in Nat /\ 0 \in 0 .. n /\ \A i \in 1 .. n : i \in 0 .. n /\ i # 0
  BY DEF n
<1>5. w[0] = Loading(m, TRUE) /\ \A i \in 1 .. n : w[i] = SegPage(w[i - 1], Page(s.vaddr) + i - 1)
  BY <1>3, <1>4
<1>. QED  BY <1>2, <1>5 DEF n

elf_load_segmentsFrom(m, img, n, w) ==
    w = [i \in 0 .. n |-> IF i = 0 THEN Loading(m, TRUE)
                          ELSE LoadSegment(w[i - 1], img[i])]

LEMMA elf_load_segmentsExists ==
  ASSUME NEW m, NEW img, NEW n \in Nat
  PROVE  \E w : elf_load_segmentsFrom(m, img, n, w)
<1> DEFINE S == {k \in 0 .. n : \E w : elf_load_segmentsFrom(m, img, k, w)}
<1>1. 0 \in S
  <2> DEFINE w == [i \in 0 .. 0 |-> Loading(m, TRUE)]
  <2>1. w = [i \in 0 .. 0 |-> IF i = 0 THEN Loading(m, TRUE)
                              ELSE LoadSegment(w[i - 1], img[i])]
    OBVIOUS
  <2> HIDE DEF w
  <2>2. elf_load_segmentsFrom(m, img, 0, w)
    BY <2>1 DEF elf_load_segmentsFrom
  <2>. QED  BY <2>2
<1>2. ASSUME NEW k \in 0 .. n, k \in S, k < n PROVE k + 1 \in S
  <2>1. PICK w : elf_load_segmentsFrom(m, img, k, w)
    BY <1>2
  <2> DEFINE z == [i \in 0 .. k + 1 |-> IF i = k + 1 THEN LoadSegment(w[k], img[k + 1])
                                        ELSE w[i]]
  <2>2. ASSUME NEW i \in 0 .. k + 1
        PROVE  z[i] = IF i = 0 THEN Loading(m, TRUE) ELSE LoadSegment(z[i - 1], img[i])
    <3>1. CASE i = k + 1
      <4>1. i # 0 /\ i - 1 = k /\ k \in 0 .. k + 1 /\ z[k] = w[k]
        BY <1>2, <3>1
      <4>2. z[i] = LoadSegment(w[k], img[k + 1])
        BY <3>1
      <4> HIDE DEF z
      <4>. QED  BY <3>1, <4>1, <4>2
    <3>2. CASE i # k + 1
      <4>1. i \in 0 .. k /\ z[i] = w[i] /\ (i # 0 => i - 1 \in 0 .. k + 1 /\ z[i - 1] = w[i - 1])
        BY <1>2, <3>2
      <4>2. w[i] = IF i = 0 THEN Loading(m, TRUE) ELSE LoadSegment(w[i - 1], img[i])
        BY <2>1, <4>1 DEF elf_load_segmentsFrom
      <4> HIDE DEF z
      <4>. QED  BY <4>1, <4>2
    <3>. QED  BY <3>1, <3>2
  <2>3. z = [i \in 0 .. k + 1 |-> z[i]]
    OBVIOUS
  <2> HIDE DEF z
  <2>4. elf_load_segmentsFrom(m, img, k + 1, z)
    BY <2>2, <2>3 DEF elf_load_segmentsFrom
  <2>. QED  BY <1>2, <2>4
<1>3. 0 .. n \subseteq S
  <2> HIDE DEF S
  <2>. QED  BY <1>1, <1>2, UpTo
<1>. QED  BY <1>3

LEMMA elf_load_segmentsEquation ==
  ASSUME NEW m, NEW img, NEW S, NEW w,
         w = [i \in S |-> IF i = 0 THEN Loading(m, TRUE)
                          ELSE LoadSegment(w[i - 1], img[i])]
  PROVE  \A i \in S : w[i] = IF i = 0 THEN Loading(m, TRUE)
                             ELSE LoadSegment(w[i - 1], img[i])
BY Zenon

LEMMA elf_load_segmentsIs ==
  ASSUME NEW m, NEW img, Len(img) \in Nat
  PROVE  \E w : /\ elf_load_segments(m, img) = w[Len(img)] /\ w[0] = Loading(m, TRUE)
                /\ \A i \in 1 .. Len(img) : w[i] = LoadSegment(w[i - 1], img[i])
<1> DEFINE n == Len(img)
           w == CHOOSE z : z = [i \in 0 .. n |-> IF i = 0 THEN Loading(m, TRUE)
                                                 ELSE LoadSegment(z[i - 1], img[i])]
<1>1. elf_load_segmentsFrom(m, img, n, w)
  <2>1. \E z : elf_load_segmentsFrom(m, img, n, z)
    BY elf_load_segmentsExists
  <2>. QED  BY <2>1 DEF elf_load_segmentsFrom
<1>2. elf_load_segments(m, img) = w[n]
  BY DEF elf_load_segments
<1> HIDE DEF w
<1>3. \A i \in 0 .. n : w[i] = IF i = 0 THEN Loading(m, TRUE)
                               ELSE LoadSegment(w[i - 1], img[i])
  BY <1>1, elf_load_segmentsEquation DEF elf_load_segmentsFrom
<1> HIDE DEF n
<1>4. n \in Nat /\ 0 \in 0 .. n /\ \A i \in 1 .. n : i \in 0 .. n /\ i # 0
  BY DEF n
<1>5. w[0] = Loading(m, TRUE) /\ \A i \in 1 .. n : w[i] = LoadSegment(w[i - 1], img[i])
  BY <1>3, <1>4
<1>. QED  BY <1>2, <1>5 DEF n

LEMMA PageAtIs ==
  ASSUME NEW addr \in Nat, NEW i \in Nat \ {0}
  PROVE  PageAt(addr, i) \in Space
<1>1. (i - 1) * PAGE_SIZE \in Nat
  <2>1. i - 1 \in Nat
    OBVIOUS
  <2>2. \A a, b \in Nat : a * b \in Nat
    OBVIOUS
  <2>. QED  BY <2>1, <2>2, NumbersAre
<1>2. addr + (i - 1) * PAGE_SIZE \in Nat
  BY <1>1
<1>. QED  BY <1>2, PageIs DEF PageAt

\* The loops of process_create, sbrk and mmap.
LEMMA RunMapped ==
  ASSUME NEW m, NEW D, VmInv(m, D), NEW addr \in Nat, NEW n \in Nat
  PROVE  LET r == MapRun(m, addr, n)
         IN  /\ VmInv(r, D) /\ After(m, r)
             /\ ~r.noTable /\ ~r.skipped /\ ~r.panic => \A v \in Run(addr, n) : Mapped(r, v)
<1>1. PICK w : /\ MapRun(m, addr, n) = w[n] /\ w[0] = m
               /\ \A i \in 1 .. n : w[i] = MapFresh(w[i - 1], PageAt(addr, i))
  BY MapRunIs
<1> DEFINE Good(x) == ~x.noTable /\ ~x.skipped /\ ~x.panic
           S == {k \in 0 .. n : /\ VmInv(w[k], D) /\ After(m, w[k])
                                /\ Good(w[k]) => \A j \in 1 .. k : Mapped(w[k], PageAt(addr, j))}
<1>2. 0 \in S
  <2>1. After(m, m)
    BY DEF After
  <2>. QED  BY <1>1, <2>1
<1>3. ASSUME NEW k \in 0 .. n, k \in S, k < n PROVE k + 1 \in S
  <2>1. k + 1 \in 1 .. n /\ k + 1 \in 0 .. n /\ k + 1 - 1 = k /\ k + 1 \in Nat \ {0}
    BY <1>3
  <2>2. w[k + 1] = MapFresh(w[k], PageAt(addr, k + 1)) /\ PageAt(addr, k + 1) \in Space
    BY <1>1, <2>1, PageAtIs
  <2>3. /\ VmInv(w[k], D) /\ After(m, w[k])
        /\ Good(w[k]) => \A j \in 1 .. k : Mapped(w[k], PageAt(addr, j))
    BY <1>3
  <2>4. /\ VmInv(w[k + 1], D) /\ After(w[k], w[k + 1])
        /\ ~w[k + 1].skipped /\ ~w[k + 1].panic => Mapped(w[k + 1], PageAt(addr, k + 1))
    BY <2>2, <2>3, FreshStep
  <2>5. After(m, w[k + 1])
    BY <2>3, <2>4, AfterAfter
  <2>6. ASSUME Good(w[k + 1]), NEW j \in 1 .. k + 1 PROVE Mapped(w[k + 1], PageAt(addr, j))
    <3>1. CASE j = k + 1
      BY <2>4, <2>6, <3>1
    <3>2. CASE j # k + 1
      <4>1. j \in 1 .. k /\ j \in Nat \ {0}
        BY <1>3, <2>6, <3>2
      <4>2. Good(w[k])
        BY <2>4, <2>6 DEF After
      <4>3. Mapped(w[k], PageAt(addr, j)) /\ PageAt(addr, j) \in Space
        BY <2>3, <4>1, <4>2, PageAtIs
      <4>. QED  BY <2>4, <2>6, <4>3 DEF After
    <3>. QED  BY <3>1, <3>2
  <2>. QED  BY <2>1, <2>4, <2>5, <2>6
<1>4. n \in S
  <2>1. 0 .. n \subseteq S
    <3> HIDE DEF S
    <3>. QED  BY <1>2, <1>3, UpTo
  <2>. QED  BY <2>1
<1>. QED  BY <1>1, <1>4 DEF Run

\* The identity map of process_create.
LEMMA KernelMapped ==
  ASSUME NEW m, NEW D, VmInv(m, D)
  PROVE  LET r == MapSame(m, 0, Entries) IN VmInv(r, D) /\ After(m, r)
<1> DEFINE n == Entries
<1>1. PICK w : /\ MapSame(m, 0, n) = w[n] /\ w[0] = m
               /\ \A i \in 1 .. n : w[i] = vmm_map_page(w[i - 1], 0 + i - 1, 0 + i - 1)
  BY MapSameIs, NumbersAre
<1> DEFINE S == {k \in 0 .. n : VmInv(w[k], D) /\ After(m, w[k])}
<1>2. 0 \in S
  <2>1. After(m, m)
    BY DEF After
  <2>. QED  BY <1>1, <2>1, NumbersAre
<1>3. ASSUME NEW k \in 0 .. n, k \in S, k < n PROVE k + 1 \in S
  <2>1. k + 1 \in 1 .. n /\ k + 1 \in 0 .. n /\ k + 1 - 1 = k /\ 0 + (k + 1) - 1 = k /\ k \in Kernel
    BY <1>3, NumbersAre DEF Kernel
  <2>2. w[k + 1] = vmm_map_page(w[k], k, k)
    BY <1>1, <2>1
  <2>3. VmInv(w[k], D) /\ After(m, w[k])
    BY <1>3
  <2>4. VmInv(w[k + 1], D) /\ After(w[k], w[k + 1])
    BY <2>1, <2>2, <2>3, KernelStep
  <2>5. After(m, w[k + 1])
    BY <2>3, <2>4, AfterAfter
  <2>. QED  BY <2>1, <2>4, <2>5
<1>4. n \in S
  <2>1. 0 .. n \subseteq S
    <3> HIDE DEF S
    <3>. QED  BY <1>2, <1>3, UpTo, NumbersAre
  <2>. QED  BY <2>1, NumbersAre
<1>. QED  BY <1>1, <1>4

\* The framebuffer, before any other user page is mapped.
LEMMA FramebufferMapped ==
  ASSUME NEW m, NEW D, VmInv(m, D), D \subseteq RamFrames \cup {0}, Same(m)
  PROVE  LET r == MapSame(m, FbPage, FbPages) IN VmInv(r, D) /\ After(m, r)
<1> DEFINE n == FbPages
<1>0. n \in Nat /\ FbPage \in Nat
  BY AddressAssumption
<1>1. PICK w : /\ MapSame(m, FbPage, n) = w[n] /\ w[0] = m
               /\ \A i \in 1 .. n : w[i] = vmm_map_page(w[i - 1], FbPage + i - 1, FbPage + i - 1)
  BY <1>0, MapSameIs
<1> DEFINE S == {k \in 0 .. n : VmInv(w[k], D) /\ After(m, w[k]) /\ Same(w[k])}
<1>2. 0 \in S
  <2>1. After(m, m)
    BY DEF After
  <2>. QED  BY <1>0, <1>1, <2>1
<1>3. ASSUME NEW k \in 0 .. n, k \in S, k < n PROVE k + 1 \in S
  <2>1. k + 1 \in 1 .. n /\ k + 1 \in 0 .. n /\ k + 1 - 1 = k /\ FbPage + (k + 1) - 1 = FbPage + k
        /\ FbPage + k \in Framebuffer
    BY <1>0, <1>3 DEF Framebuffer
  <2>2. w[k + 1] = vmm_map_page(w[k], FbPage + k, FbPage + k)
    BY <1>1, <2>1
  <2>3. VmInv(w[k], D) /\ After(m, w[k]) /\ Same(w[k])
    BY <1>3
  <2>4. VmInv(w[k + 1], D) /\ After(w[k], w[k + 1]) /\ Same(w[k + 1])
    BY <2>1, <2>2, <2>3, FramebufferStep
  <2>5. After(m, w[k + 1])
    BY <2>3, <2>4, AfterAfter
  <2>. QED  BY <2>1, <2>4, <2>5
<1>4. n \in S
  <2>1. 0 .. n \subseteq S
    <3> HIDE DEF S
    <3>. QED  BY <1>0, <1>2, <1>3, UpTo
  <2>. QED  BY <1>0, <2>1
<1>. QED  BY <1>1, <1>4

(***************************************************************************)
(* munmap clears entries, and gives nothing back.                          *)
(***************************************************************************)
Unmapping(m, r, taken) ==
    /\ r.free = m.free /\ r.pd = m.pd /\ (m.panic => r.panic)
    /\ r.noTable = m.noTable /\ r.skipped = m.skipped
    /\ ~m.noTable => \A w \in Space \ taken : vmm_get_phys(r, w) = vmm_get_phys(m, w)

LEMMA UnmapStep ==
  ASSUME NEW m, NEW D, VmInv(m, D), NEW v \in Space
  PROVE  LET r == vmm_unmap_page(m, v) IN VmInv(r, D) /\ Unmapping(m, r, {v})
<1> DEFINE r == vmm_unmap_page(m, v)
           i == PAGE_DIR_INDEX(v)
           k == PAGE_TBL_INDEX(v)
           t == m.dir[i]
           x == Entered(m.tab, t, v, NONE)
           n == Reached(m, v)
<1>0. VmType(n) /\ Alike(m, n) /\ PanicInv(n)
  BY ReachedIs DEF VmInv
<1>1. CASE n.panic \/ t = NONE
  <2>1. r = n
    BY <1>1 DEF vmm_unmap_page
  <2> HIDE DEF n
  <2>2. /\ Tabs(n) = Tabs(m) /\ After(m, n)
        /\ \A w : vmm_get_phys(n, w) = vmm_get_phys(m, w)
        /\ One(m, D) => One(n, D)
    BY <1>0, AlikeKeeps DEF VmInv
  <2>3. VmInv(n, D)
    BY <1>0, <2>2 DEF VmInv, Alike
  <2>4. Unmapping(m, n, {v})
    BY <1>0, <2>2 DEF Unmapping, Alike, After
  <2>. QED  BY <2>1, <2>3, <2>4
<1>2. CASE ~(n.panic \/ t = NONE)
  <2>1. n = m /\ r = SetTab(m, x)
    <3>1. n = m
      BY <1>0, <1>2 DEF Alike
    <3>. QED  BY <1>2, <3>1 DEF vmm_unmap_page, SetTab
  <2> HIDE DEF n
  <2>2. VmType(m) /\ IsVm(m) /\ (~m.noTable => One(m, D))
        /\ (m.noTable \/ 0 \in Tabs(m) => m.free = {})
    BY DEF VmInv, VmType
  <2>3. /\ IsVm(r) /\ r.free = m.free /\ r.dir = m.dir /\ r.tab = x /\ r.pd = m.pd
        /\ r.panic = m.panic /\ r.noTable = m.noTable /\ r.skipped = m.skipped
    BY <2>1, <2>2, FieldSet, VmIs
  <2>4. i \in DirIndex /\ k \in TblIndex /\ t \in Tabs(m)
    BY <1>2, PageIndices DEF DirIndex, TblIndex, Tabs
  <2>5. t \in DOMAIN m.tab /\ m.tab[t] \in [TblIndex -> Space \cup {NONE}]
    BY <2>2, <2>4 DEF VmType
  <2>6. /\ DOMAIN r.tab = DOMAIN m.tab /\ r.tab[t] = [m.tab[t] EXCEPT ![k] = NONE]
        /\ \A u \in DOMAIN m.tab : u # t => r.tab[u] = m.tab[u]
    <3>1. r.tab = With(m.tab, t, [m.tab[t] EXCEPT ![k] = NONE])
      BY <2>3 DEF Entered
    <3> HIDE DEF r, t, k, i
    <3>. QED  BY <2>5, <3>1 DEF With
  <2> HIDE DEF r, t, k, i, x
  <2>7. /\ r.tab[t][k] = NONE /\ r.tab[t] \in [TblIndex -> Space \cup {NONE}]
        /\ \A j \in TblIndex : j # k => r.tab[t][j] = m.tab[t][j]
    BY <2>4, <2>5, <2>6
  <2>8. Tabs(r) = Tabs(m)
    BY <2>3 DEF Tabs
  <2>9. \A u \in Tabs(m) : u \in DOMAIN r.tab /\ r.tab[u] \in [TblIndex -> Space \cup {NONE}]
    BY <2>2, <2>6, <2>7 DEF VmType
  <2>10. VmType(r)
    BY <2>2, <2>3, <2>6, <2>8, <2>9 DEF VmType
  <2>11. ASSUME NEW w \in Space
         PROVE  /\ vmm_get_phys(r, w) \in {vmm_get_phys(m, w), NONE}
                /\ w # v /\ ~m.noTable => vmm_get_phys(r, w) = vmm_get_phys(m, w)
    <3>1. PAGE_DIR_INDEX(w) \in DirIndex /\ PAGE_TBL_INDEX(w) \in TblIndex
      BY PageIndices DEF DirIndex, TblIndex
    <3>2. CASE m.dir[PAGE_DIR_INDEX(w)] = NONE
      BY <2>3, <3>2 DEF vmm_get_phys
    <3>3. CASE m.dir[PAGE_DIR_INDEX(w)] # NONE
      <4>1. /\ m.dir[PAGE_DIR_INDEX(w)] \in DOMAIN m.tab
            /\ vmm_get_phys(m, w) = m.tab[m.dir[PAGE_DIR_INDEX(w)]][PAGE_TBL_INDEX(w)]
            /\ vmm_get_phys(r, w) = r.tab[m.dir[PAGE_DIR_INDEX(w)]][PAGE_TBL_INDEX(w)]
        BY <2>2, <2>3, <3>1, <3>3 DEF VmType, Tabs, vmm_get_phys
      <4>2. m.dir[PAGE_DIR_INDEX(w)] = t /\ PAGE_TBL_INDEX(w) = k /\ ~m.noTable => w = v
        <5>1. m.dir[PAGE_DIR_INDEX(w)] = t /\ ~m.noTable => PAGE_DIR_INDEX(w) = i
          BY <2>2, <2>4, <3>1, <3>3 DEF One, t
        <5>. QED  BY <5>1, PageIndices DEF k, i
      <4>3. CASE m.dir[PAGE_DIR_INDEX(w)] # t
        BY <2>6, <4>1, <4>3
      <4>4. CASE m.dir[PAGE_DIR_INDEX(w)] = t
        BY <2>7, <3>1, <4>1, <4>2, <4>4
      <4>. QED  BY <4>3, <4>4
    <3>. QED  BY <3>2, <3>3
  <2>12. ~r.noTable => One(r, D)
    <3>1. SUFFICES ASSUME ~r.noTable PROVE One(r, D)
      OBVIOUS
    <3>2. One(m, D)
      BY <2>2, <2>3, <3>1
    <3>3. \A w \in UserPages : vmm_get_phys(r, w) \in {vmm_get_phys(m, w), NONE}
      BY <2>11 DEF UserPages
    <3>4. ASSUME NEW w \in UserPages, Mapped(r, w)
          PROVE  /\ vmm_get_phys(r, w) \notin Tabs(r) \cup D \cup r.free \cup {0}
                 /\ \A u \in UserPages : vmm_get_phys(r, w) = vmm_get_phys(r, u) => w = u
      <4>1. vmm_get_phys(r, w) = vmm_get_phys(m, w) /\ vmm_get_phys(r, w) # NONE
        BY <3>3, <3>4 DEF Mapped
      <4>2. /\ vmm_get_phys(m, w) \notin Tabs(m) \cup D \cup m.free \cup {0}
            /\ \A u \in UserPages : vmm_get_phys(m, w) = vmm_get_phys(m, u) => w = u
        BY <3>2, <4>1 DEF One, Mapped
      <4>3. \A u \in UserPages : vmm_get_phys(r, w) = vmm_get_phys(r, u) => w = u
        BY <3>3, <4>1, <4>2
      <4>. QED  BY <2>3, <2>8, <4>1, <4>2, <4>3
    <3>. QED  BY <2>3, <2>8, <3>2, <3>4 DEF One
  <2>13. PanicInv(r)
    BY <1>0, <1>2, <2>1, <2>3, <2>8 DEF PanicInv, Low
  <2>14. VmInv(r, D)
    BY <2>2, <2>3, <2>8, <2>10, <2>12, <2>13 DEF VmInv
  <2>15. Unmapping(m, r, {v})
    BY <2>3, <2>11 DEF Unmapping
  <2>. QED  BY <2>14, <2>15 DEF r
<1>. QED  BY <1>1, <1>2

LEMMA RunUnmapped ==
  ASSUME NEW m, NEW D, VmInv(m, D), NEW addr \in Nat, NEW n \in Nat
  PROVE  LET r == UnmapRun(m, addr, n) IN VmInv(r, D) /\ Unmapping(m, r, Run(addr, n))
<1>1. PICK w : /\ UnmapRun(m, addr, n) = w[n] /\ w[0] = m
               /\ \A i \in 1 .. n : w[i] = vmm_unmap_page(w[i - 1], PageAt(addr, i))
  BY UnmapRunIs
<1> DEFINE S == {k \in 0 .. n : VmInv(w[k], D) /\ Unmapping(m, w[k], Run(addr, n))}
<1>2. 0 \in S
  BY <1>1 DEF Unmapping
<1>3. ASSUME NEW k \in 0 .. n, k \in S, k < n PROVE k + 1 \in S
  <2>1. k + 1 \in 1 .. n /\ k + 1 \in 0 .. n /\ k + 1 - 1 = k /\ k + 1 \in Nat \ {0}
    BY <1>3
  <2>2. w[k + 1] = vmm_unmap_page(w[k], PageAt(addr, k + 1)) /\ PageAt(addr, k + 1) \in Space
    BY <1>1, <2>1, PageAtIs
  <2>3. VmInv(w[k], D) /\ Unmapping(m, w[k], Run(addr, n))
    BY <1>3
  <2>4. VmInv(w[k + 1], D) /\ Unmapping(w[k], w[k + 1], {PageAt(addr, k + 1)})
    BY <2>2, <2>3, UnmapStep
  <2>5. PageAt(addr, k + 1) \in Run(addr, n)
    BY <2>1 DEF Run
  <2>6. Unmapping(m, w[k + 1], Run(addr, n))
    BY <2>3, <2>4, <2>5 DEF Unmapping
  <2>. QED  BY <2>1, <2>4, <2>6
<1>4. n \in S
  <2>1. 0 .. n \subseteq S
    <3> HIDE DEF S
    <3>. QED  BY <1>2, <1>3, UpTo
  <2>. QED  BY <2>1
<1>. QED  BY <1>1, <1>4

(***************************************************************************)
(* The pages of a segment.                                                 *)
(***************************************************************************)
SegOk(s) ==
    /\ s.vaddr \in Nat /\ s.memsz \in Nat
    /\ s.vaddr + s.memsz + PAGE_SIZE - 1 < AddrBytes
    /\ Page(s.vaddr) \in UserPages

LEMMA SegPagesAre ==
  ASSUME NEW s, SegOk(s)
  PROVE  /\ Page(s.vaddr) \in Nat /\ page_end(s) \in Nat /\ page_end(s) - Page(s.vaddr) \in Nat
         /\ SegPages(s) \subseteq UserPages
         /\ BytePages(s) \subseteq SegPages(s)
         /\ SegPages(s) \subseteq BytePages(s) \cup {Page(s.vaddr)}
<1> DEFINE P == PAGE_SIZE
           a == s.vaddr
           b == s.vaddr + s.memsz + PAGE_SIZE - 1
           first == Page(a)
           end == Page(b)
<1>1. /\ P \in Nat /\ P > 0 /\ a \in Nat /\ b \in Nat /\ a < AddrBytes /\ b < AddrBytes
      /\ AddrBytes \in Nat
  BY NumbersAre DEF SegOk
<1>2. /\ first = a \div P /\ end = b \div P /\ first \in Nat /\ end \in Space /\ end \in Nat
  BY <1>1, PageIs
<1>3. page_end(s) = end
  BY DEF page_end
<1>4. \A k \in Nat : P * k \in Nat /\ P * (k + 1) = P * k + P
  BY <1>1
<1>5. \A x \in Nat : /\ \A k \in Nat : x < P * k => x \div P < k
                     /\ \A k \in Nat : P * k <= x => k <= x \div P
                     /\ x \div P \in Nat
  BY <1>1, Divided
<1>6. \A x \in Nat : x < P * (x \div P) + P /\ P * (x \div P) <= x
  <2>1. ASSUME NEW x \in Nat PROVE x < P * (x \div P) + P /\ P * (x \div P) <= x
    <3>1. x \div P \in Nat /\ x % P \in Nat /\ x % P < P /\ x = P * (x \div P) + (x % P)
      BY <1>1, Divided
    <3>2. P * (x \div P) \in Nat
      BY <1>4, <3>1
    <3>. QED  BY <1>1, <3>1, <3>2
  <2>. QED  BY <2>1
<1>7. first <= end
  <2>1. P * first <= a /\ P * first \in Nat
    BY <1>1, <1>2, <1>4, <1>6
  <2>2. a <= b
    BY <1>1 DEF SegOk
  <2>3. P * first <= b
    BY <1>1, <2>1, <2>2
  <2>. QED  BY <1>1, <1>2, <1>5, <2>3
<1>8. first \in UserPages /\ s.memsz \in Nat
  BY DEF SegOk
<1> HIDE DEF first, end
<1>9. SegPages(s) = first .. end - 1
  BY <1>3 DEF SegPages, first
<1>10. SegPages(s) \subseteq UserPages
  BY <1>2, <1>8, <1>9, NumbersAre DEF UserPages, Space, Kernel
<1>11. ASSUME NEW x \in a .. a + s.memsz - 1
       PROVE  Page(x) \in first .. end - 1
  <2>1. x \in Nat /\ x < AddrBytes /\ a <= x /\ x + P <= b
    BY <1>1, <1>8
  <2>2. Page(x) = x \div P /\ x \div P \in Nat
    BY <1>5, <2>1, PageIs
  <2>3. first <= x \div P
    <3>1. P * first <= a /\ P * first \in Nat
      BY <1>1, <1>2, <1>4, <1>6
    <3>2. P * first <= x
      BY <1>1, <2>1, <3>1
    <3>. QED  BY <1>2, <1>5, <2>1, <3>2
  <2>4. x \div P + 1 <= end
    <3>1. P * (x \div P) <= x /\ P * (x \div P) \in Nat
      BY <1>4, <1>6, <2>1, <2>2
    <3>2. P * (x \div P + 1) = P * (x \div P) + P
      BY <1>4, <2>2
    <3>3. P * (x \div P + 1) <= b
      BY <1>1, <2>1, <3>1, <3>2
    <3>. QED  BY <1>1, <1>2, <1>5, <2>2, <3>3
  <2>. QED  BY <1>2, <2>2, <2>3, <2>4
<1>12. BytePages(s) \subseteq SegPages(s)
  BY <1>9, <1>11 DEF BytePages
<1>13. ASSUME NEW v \in first .. end - 1, v # first
       PROVE  v \in BytePages(s)
  <2>1. v \in Nat /\ first + 1 <= v /\ v + 1 <= end
    BY <1>2, <1>13
  <2>2. P * v \in Nat /\ P * (v + 1) = P * v + P /\ P * (first + 1) = P * first + P
    BY <1>2, <1>4, <2>1
  <2>3. \A k, l \in Nat : k <= l => P * k <= P * l
    <3>1. ASSUME NEW k \in Nat, NEW l \in Nat, k <= l PROVE P * k <= P * l
      <4>1. PICK j \in Nat : l = k + j
        <5>1. l - k \in Nat /\ l = k + (l - k)
          BY <3>1
        <5>. QED  BY <5>1
      <4>2. P * l = P * k + P * j /\ P * j \in Nat /\ P * k \in Nat
        BY <1>1, <4>1
      <4>. QED  BY <4>2
    <3>. QED  BY <3>1
  <2>4. a < P * v
    <3>1. P * (first + 1) <= P * v
      BY <1>2, <2>1, <2>3
    <3>2. a < P * first + P /\ P * first \in Nat
      BY <1>1, <1>2, <1>4, <1>6
    <3>. QED  BY <1>1, <2>2, <3>1, <3>2
  <2>5. P * v <= a + s.memsz - 1
    <3>1. P * (v + 1) <= P * end
      BY <1>2, <2>1, <2>3
    <3>2. P * end <= b /\ P * end \in Nat
      BY <1>1, <1>2, <1>4, <1>6
    <3>. QED  BY <1>1, <1>8, <2>2, <3>1, <3>2
  <2>6. P * v \in a .. a + s.memsz - 1 /\ P * v < AddrBytes
    BY <1>1, <1>8, <2>2, <2>4, <2>5
  <2>7. (P * v) \div P = v
    <3>1. P * v < P * (v + 1)
      BY <1>1, <2>2
    <3>2. (P * v) \div P < v + 1 /\ v <= (P * v) \div P /\ (P * v) \div P \in Nat
      BY <1>5, <2>1, <2>2, <3>1
    <3>. QED  BY <2>1, <3>2
  <2>8. Page(P * v) = v
    BY <2>2, <2>6, <2>7, PageIs
  <2>. QED  BY <2>6, <2>8 DEF BytePages
<1>14. SegPages(s) \subseteq BytePages(s) \cup {first}
  BY <1>9, <1>13
<1>. QED  BY <1>2, <1>3, <1>7, <1>10, <1>12, <1>14 DEF first

LEMMA LoadingIs ==
  ASSUME NEW m, NEW ok \in BOOLEAN
  PROVE  Loading(m, ok).m = m /\ Loading(m, ok).ok = ok
BY DEF Loading

\* A page that is mapped for a segment.
LEMMA SegPageStep ==
  ASSUME NEW q, NEW D, VmInv(q.m, D), q.ok \in BOOLEAN, NEW v \in UserPages
  PROVE  LET r == SegPage(q, v)
             f == vmm_get_phys(r.m, v)
         IN  /\ VmInv(r.m, D) /\ After(q.m, r.m) /\ r.ok \in BOOLEAN /\ (r.ok => q.ok)
             /\ r.ok /\ ~r.m.panic =>
                    /\ f # NONE /\ r.m.holds = With(q.m.holds, f, {})
                    /\ \A w \in UserPages : w # v =>
                           /\ vmm_get_phys(r.m, w) = vmm_get_phys(q.m, w)
                           /\ vmm_get_phys(r.m, w) # f
<1> DEFINE m == q.m
           g == pmm_alloc_page(q.m)
           x == Taken(q.m)
           y == vmm_map_page(x, v, g)
           r == SegPage(q, v)
<1>0. v \in Space
  BY DEF UserPages
<1>1. PICK yes, no : yes = TRUE /\ no = FALSE
  OBVIOUS
<1>2. r = IF ~q.ok THEN q ELSE IF g = 0 THEN Loading(m, no) ELSE Loading(y, yes)
  BY <1>1 DEF SegPage
<1>3. /\ Loading(m, no).m = m /\ Loading(m, no).ok = no
      /\ Loading(y, yes).m = y /\ Loading(y, yes).ok = yes
  BY DEF Loading
<1>4. After(m, m)
  BY DEF After
<1>5. CASE ~q.ok
  <2>1. r = q
    BY <1>2, <1>5
  <2>. QED  BY <1>4, <1>5, <2>1
<1>6. CASE q.ok /\ g = 0
  <2>1. r.m = m /\ r.ok = FALSE
    BY <1>1, <1>2, <1>3, <1>6
  <2>. QED  BY <1>4, <2>1
<1>7. CASE q.ok /\ g # 0
  <2>1. r.m = y /\ r.ok = TRUE
    BY <1>1, <1>2, <1>3, <1>7
  <2>2. CASE m.panic
    <3>1. x = m /\ y = m
      BY <1>0, <2>2, MapCases DEF Taken
    <3>2. r.m = m
      BY <2>1, <3>1
    <3> HIDE DEF r, m
    <3>3. VmInv(r.m, D) /\ After(m, r.m) /\ r.m.panic
      BY <1>4, <2>2, <3>2 DEF m
    <3>. QED  BY <1>7, <2>1, <3>3 DEF r, m
  <2>3. CASE ~m.panic
    <3>1. /\ VmInv(x, D) /\ After(m, x) /\ x.holds = m.holds
          /\ g \in Space /\ g # NONE
          /\ 0 \notin Tabs(x) /\ One(x, D)
          /\ \A w : Unused(x, D, w, g)
          /\ \A w : vmm_get_phys(x, w) = vmm_get_phys(m, w)
      BY <1>7, <2>3, TakenStep
    <3> HIDE DEF x, g, r, m
    <3>2. VmInv(y, D) /\ After(x, y)
      BY <1>0, <3>1, MapInv
    <3>3. ~y.panic => vmm_get_phys(y, v) = g /\ y.holds = With(x.holds, g, {})
      BY <1>0, <3>1, MapType
    <3>4. \A w \in Space : w # v => vmm_get_phys(y, w) = vmm_get_phys(x, w)
      BY <1>0, <3>1, MapOne
    <3> HIDE DEF y
    <3>5. ASSUME NEW w \in UserPages, w # v
          PROVE  vmm_get_phys(y, w) = vmm_get_phys(m, w) /\ vmm_get_phys(y, w) # g
      <4>1. w \in Space
        BY DEF UserPages
      <4>2. Unused(x, D, v, g)
        BY <3>1
      <4>3. vmm_get_phys(y, w) = vmm_get_phys(x, w)
        BY <3>4, <3>5, <4>1
      <4>4. vmm_get_phys(x, w) # g
        BY <3>5, <4>2 DEF Unused
      <4>. QED  BY <3>1, <4>3, <4>4
    <3>6. After(m, y)
      BY <3>1, <3>2, AfterAfter
    <3>7. /\ VmInv(r.m, D) /\ After(m, r.m) /\ r.ok \in BOOLEAN /\ (r.ok => q.ok)
      BY <1>7, <2>1, <3>2, <3>6
    <3>8. ~r.m.panic => /\ vmm_get_phys(r.m, v) # NONE
                        /\ r.m.holds = With(m.holds, vmm_get_phys(r.m, v), {})
                        /\ \A w \in UserPages : w # v =>
                             /\ vmm_get_phys(r.m, w) = vmm_get_phys(m, w)
                             /\ vmm_get_phys(r.m, w) # vmm_get_phys(r.m, v)
      BY <2>1, <3>1, <3>3, <3>5
    <3>. QED  BY <3>7, <3>8 DEF r, m
  <2>. QED  BY <2>2, <2>3
<1>. QED  BY <1>5, <1>6, <1>7

\* What page w holds, and what the user pages other than those taken keep.
Held(m, w) == m.holds[vmm_get_phys(m, w)]
HasFrame(m, w) == Mapped(m, w) /\ vmm_get_phys(m, w) \in DOMAIN m.holds
Keeps(m, r, taken) ==
    \A w \in UserPages \ taken :
        HasFrame(m, w) => HasFrame(r, w) /\ Held(m, w) \subseteq Held(r, w)

LEMMA SegMappedIsLoaded ==
  ASSUME NEW m, NEW D, VmInv(m, D), NEW s, SegOk(s)
  PROVE  LET q == SegMapped(m, s)
         IN  /\ VmInv(q.m, D) /\ After(m, q.m) /\ q.ok \in BOOLEAN
             /\ q.ok /\ ~q.m.panic =>
                    /\ \A v \in SegPages(s) : HasFrame(q.m, v)
                    /\ Keeps(m, q.m, SegPages(s))
<1> DEFINE first == Page(s.vaddr)
           n == page_end(s) - Page(s.vaddr)
<1>1. first \in Nat /\ n \in Nat /\ page_end(s) \in Nat /\ SegPages(s) \subseteq UserPages
  BY SegPagesAre
<1>2. SegPages(s) = first .. first + n - 1
  BY <1>1 DEF SegPages
<1>3. PICK w : /\ SegMapped(m, s) = w[n] /\ w[0] = Loading(m, TRUE)
               /\ \A i \in 1 .. n : w[i] = SegPage(w[i - 1], first + i - 1)
  BY <1>1, SegMappedIs
<1> HIDE DEF first, n
<1> DEFINE Upto(k) == first .. first + k - 1
           S == {k \in 0 .. n : /\ VmInv(w[k].m, D) /\ After(m, w[k].m) /\ w[k].ok \in BOOLEAN
                                /\ w[k].ok /\ ~w[k].m.panic =>
                                      /\ \A v \in Upto(k) : HasFrame(w[k].m, v)
                                      /\ Keeps(m, w[k].m, Upto(k))}
<1>4. 0 \in S
  <2>1. w[0].m = m /\ w[0].ok \in BOOLEAN
    <3>1. PICK b : b = TRUE
      OBVIOUS
    <3>2. w[0] = Loading(m, b)
      BY <1>3, <3>1
    <3>. QED  BY <3>1, <3>2, LoadingIs
  <2>2. After(m, m) /\ Keeps(m, m, Upto(0))
    BY DEF After, Keeps
  <2>3. Upto(0) = {}
    BY <1>1
  <2> HIDE DEF Upto
  <2>4. 0 \in 0 .. n
    BY <1>1
  <2>. QED  BY <2>1, <2>2, <2>3, <2>4
<1>5. ASSUME NEW k \in 0 .. n, k \in S, k < n PROVE k + 1 \in S
  <2> DEFINE a == w[k].m
             b == w[k + 1].m
             v == first + k
             f == vmm_get_phys(w[k + 1].m, first + k)
  <2>1. k + 1 \in 1 .. n /\ k + 1 \in 0 .. n /\ k + 1 - 1 = k /\ first + (k + 1) - 1 = first + k
    BY <1>1, <1>5
  <2>2. w[k + 1] = SegPage(w[k], v)
    BY <1>3, <2>1
  <2>3. v \in UserPages
    BY <1>1, <1>2, <1>5
  <2>4. Upto(k + 1) = Upto(k) \cup {v} /\ v \notin Upto(k) /\ Upto(k) \subseteq UserPages
    BY <1>1, <1>2, <1>5
  <2>5. /\ VmInv(a, D) /\ After(m, a) /\ w[k].ok \in BOOLEAN
        /\ w[k].ok /\ ~a.panic =>
              /\ \A u \in Upto(k) : HasFrame(a, u)
              /\ Keeps(m, a, Upto(k))
    BY <1>5
  <2> HIDE DEF Upto, a, b, v, f
  <2>6. /\ VmInv(b, D) /\ After(a, b) /\ w[k + 1].ok \in BOOLEAN /\ (w[k + 1].ok => w[k].ok)
        /\ w[k + 1].ok /\ ~b.panic =>
              /\ f # NONE /\ b.holds = With(a.holds, f, {})
              /\ \A u \in UserPages : u # v => vmm_get_phys(b, u) = vmm_get_phys(a, u)
                                               /\ vmm_get_phys(b, u) # f
    <3>1. VmInv(w[k].m, D) /\ w[k].ok \in BOOLEAN
      BY <2>5 DEF a
    <3>. QED  BY <2>2, <2>3, <3>1, SegPageStep DEF a, b, v, f
  <2>7. After(m, b)
    BY <2>5, <2>6, AfterAfter
  <2>8. ASSUME w[k + 1].ok, ~b.panic
        PROVE  /\ \A u \in Upto(k + 1) : HasFrame(b, u)
               /\ Keeps(m, b, Upto(k + 1))
    <3>1. w[k].ok /\ ~a.panic
      BY <2>6, <2>8 DEF After
    <3>2. vmm_get_phys(b, v) = f /\ f # NONE /\ b.holds = With(a.holds, f, {})
      BY <2>6, <2>8 DEF f, b, v
    <3>3. \A u \in UserPages : u # v => vmm_get_phys(b, u) = vmm_get_phys(a, u)
                                        /\ vmm_get_phys(b, u) # f
      BY <2>6, <2>8
    <3>4. HasFrame(b, v)
      BY <3>2 DEF HasFrame, Mapped, With
    <3>5. ASSUME NEW u \in UserPages, u # v, HasFrame(a, u)
          PROVE  HasFrame(b, u) /\ Held(a, u) \subseteq Held(b, u)
      <4>1. vmm_get_phys(b, u) = vmm_get_phys(a, u) /\ vmm_get_phys(b, u) # f
        BY <3>3, <3>5
      <4>. QED  BY <3>2, <3>5, <4>1 DEF HasFrame, Mapped, Held, With
    <3>6. \A u \in Upto(k + 1) : HasFrame(b, u)
      BY <2>4, <2>5, <3>1, <3>4, <3>5
    <3>7. Keeps(m, b, Upto(k + 1))
      <4>1. ASSUME NEW u \in UserPages \ Upto(k + 1), HasFrame(m, u)
            PROVE  HasFrame(b, u) /\ Held(m, u) \subseteq Held(b, u)
        <5>1. HasFrame(a, u) /\ Held(m, u) \subseteq Held(a, u)
          BY <2>4, <2>5, <3>1, <4>1 DEF Keeps
        <5>. QED  BY <2>4, <3>5, <4>1, <5>1
      <4>. QED  BY <4>1 DEF Keeps
    <3>. QED  BY <3>6, <3>7
  <2>. QED  BY <2>1, <2>6, <2>7, <2>8 DEF b
<1>6. n \in S
  <2>1. 0 .. n \subseteq S
    <3> HIDE DEF S
    <3>. QED  BY <1>1, <1>4, <1>5, UpTo
  <2>. QED  BY <1>1, <2>1
<1>. QED  BY <1>2, <1>3, <1>6

\* The memset and memcpy of a segment, on pages that are all there.
LEMMA FilledIs ==
  ASSUME NEW m, NEW D, VmInv(m, D), NEW s, \A v \in BytePages(s) : ~m.panic => HasFrame(m, v)
  PROVE  LET r == Filled(m, s)
         IN  /\ VmInv(r, D) /\ After(m, r) /\ r.panic = m.panic
             /\ ~m.panic => /\ \A w : HasFrame(m, w) => HasFrame(r, w) /\ Held(m, w) \subseteq Held(r, w)
                            /\ \A v \in BytePages(s) : s \in Held(r, v)
<1> DEFINE frames == {vmm_get_phys(m, v) : v \in BytePages(s)}
           h == [f \in DOMAIN m.holds |-> IF f \in frames THEN m.holds[f] \cup {s}
                                          ELSE m.holds[f]]
           r == Filled(m, s)
<1>1. CASE m.panic
  <2>1. r = m
    BY <1>1 DEF Filled
  <2>. QED  BY <1>1, <2>1 DEF After
<1>2. CASE ~m.panic
  <2>1. NONE \notin frames
    BY <1>2 DEF HasFrame, Mapped
  <2>2. r = SetHolds(m, h)
    BY <1>2, <2>1 DEF Filled, SetHolds
  <2>3. IsVm(m)
    BY DEF VmInv, VmType
  <2>4. \A v \in BytePages(s) : HasFrame(m, v) /\ vmm_get_phys(m, v) \in frames
    BY <1>2
  <2>5. /\ DOMAIN h = DOMAIN m.holds
        /\ \A f \in DOMAIN m.holds : m.holds[f] \subseteq h[f] /\ (f \in frames => s \in h[f])
    OBVIOUS
  <2> HIDE DEF h, frames, r
  <2>6. r = Vm(m.free, m.dir, m.tab, m.pd, m.panic, m.noTable, m.skipped, m.made, h)
    BY <2>2, <2>3, FieldSet
  <2>7. /\ IsVm(r) /\ r.free = m.free /\ r.dir = m.dir /\ r.tab = m.tab /\ r.pd = m.pd
        /\ r.panic = m.panic /\ r.noTable = m.noTable /\ r.skipped = m.skipped /\ r.holds = h
    BY <2>6, VmIs
  <2>8. \A w : vmm_get_phys(r, w) = vmm_get_phys(m, w)
    BY <2>7 DEF vmm_get_phys
  <2>9. Tabs(r) = Tabs(m)
    BY <2>7 DEF Tabs
  <2>10. VmType(m) /\ (~m.noTable => One(m, D)) /\ PanicInv(m)
         /\ (m.noTable \/ 0 \in Tabs(m) => m.free = {})
    BY DEF VmInv
  <2>11. VmType(r)
    BY <2>7, <2>9, <2>10 DEF VmType
  <2>12. ~r.noTable => One(r, D)
    BY <2>7, <2>8, <2>9, <2>10 DEF One, Mapped
  <2>13. PanicInv(r)
    BY <1>2, <2>7, <2>9, <2>10 DEF PanicInv, Low
  <2>14. VmInv(r, D)
    BY <2>7, <2>9, <2>10, <2>11, <2>12, <2>13 DEF VmInv
  <2>15. After(m, r)
    BY <2>7, <2>8 DEF After, Mapped
  <2>16. ASSUME NEW w, HasFrame(m, w)
         PROVE HasFrame(r, w) /\ Held(m, w) \subseteq Held(r, w)
    BY <2>5, <2>7, <2>8, <2>16 DEF HasFrame, Mapped, Held
  <2>17. ASSUME NEW v \in BytePages(s) PROVE s \in Held(r, v)
    BY <2>4, <2>5, <2>7, <2>8 DEF HasFrame, Held
  <2>. QED  BY <2>7, <2>14, <2>15, <2>16, <2>17 DEF r
<1>. QED  BY <1>1, <1>2

LEMMA LoadStep ==
  ASSUME NEW r, NEW D, VmInv(r.m, D), r.ok \in BOOLEAN, NEW s, SegOk(s)
  PROVE  LET p == LoadSegment(r, s)
         IN  /\ VmInv(p.m, D) /\ After(r.m, p.m) /\ p.ok \in BOOLEAN /\ (p.ok => r.ok)
             /\ p.ok /\ ~p.m.panic =>
                    /\ \A v \in SegPages(s) : Mapped(p.m, v)
                    /\ \A v \in BytePages(s) : HasFrame(p.m, v) /\ s \in Held(p.m, v)
                    /\ Keeps(r.m, p.m, SegPages(s))
<1> DEFINE m == r.m
           q == SegMapped(m, s)
           y == Filled(q.m, s)
           p == LoadSegment(r, s)
<1>1. PICK yes : yes = TRUE
  OBVIOUS
<1>2. p = IF ~r.ok THEN r ELSE IF ~q.ok THEN q ELSE Loading(y, yes)
  BY <1>1 DEF LoadSegment
<1>3. Loading(y, yes).m = y /\ Loading(y, yes).ok = yes
  BY DEF Loading
<1>4. /\ VmInv(q.m, D) /\ After(m, q.m) /\ q.ok \in BOOLEAN
      /\ q.ok /\ ~q.m.panic => /\ \A v \in SegPages(s) : HasFrame(q.m, v)
                               /\ Keeps(m, q.m, SegPages(s))
  BY SegMappedIsLoaded
<1>5. CASE ~r.ok
  <2>1. p = r /\ After(m, m)
    BY <1>2, <1>5 DEF After
  <2>. QED  BY <1>5, <2>1
<1> HIDE DEF q, p, m
<1>6. CASE r.ok /\ ~q.ok
  <2>1. p = q
    BY <1>2, <1>6
  <2>. QED  BY <1>4, <1>6, <2>1 DEF p, m
<1>7. CASE r.ok /\ q.ok
  <2>1. p.m = y /\ p.ok = TRUE
    BY <1>1, <1>2, <1>3, <1>7
  <2>2. BytePages(s) \subseteq SegPages(s)
    BY SegPagesAre
  <2>3. \A v \in BytePages(s) : ~q.m.panic => HasFrame(q.m, v)
    BY <1>4, <1>7, <2>2
  <2>4. /\ VmInv(y, D) /\ After(q.m, y) /\ y.panic = q.m.panic
        /\ ~q.m.panic => /\ \A w : HasFrame(q.m, w) => HasFrame(y, w) /\ Held(q.m, w) \subseteq Held(y, w)
                         /\ \A v \in BytePages(s) : s \in Held(y, v)
    BY <1>4, <2>3, FilledIs
  <2>5. After(m, y)
    BY <1>4, <2>4, AfterAfter
  <2> HIDE DEF y
  <2>6. ASSUME ~y.panic
        PROVE  /\ \A v \in SegPages(s) : Mapped(y, v)
               /\ \A v \in BytePages(s) : HasFrame(y, v) /\ s \in Held(y, v)
               /\ Keeps(m, y, SegPages(s))
    <3>1. \A v \in SegPages(s) : HasFrame(y, v)
      BY <1>4, <1>7, <2>4, <2>6
    <3>2. Keeps(m, y, SegPages(s))
      <4>1. ASSUME NEW w \in UserPages \ SegPages(s), HasFrame(m, w)
            PROVE  HasFrame(y, w) /\ Held(m, w) \subseteq Held(y, w)
        <5>1. HasFrame(q.m, w) /\ Held(m, w) \subseteq Held(q.m, w)
          BY <1>4, <1>7, <2>4, <2>6, <4>1 DEF Keeps
        <5>2. HasFrame(y, w) /\ Held(q.m, w) \subseteq Held(y, w)
          BY <2>4, <2>6, <5>1
        <5>. QED  BY <5>1, <5>2
      <4>. QED  BY <4>1 DEF Keeps
    <3>. QED  BY <2>2, <2>4, <2>6, <3>1, <3>2 DEF HasFrame
  <2>. QED  BY <1>7, <2>1, <2>4, <2>5, <2>6 DEF p, m
<1>. QED  BY <1>5, <1>6, <1>7

(***************************************************************************)
(* A whole image.                                                          *)
(***************************************************************************)
\* Segment i of the first k has its contents in page v, or a later one has v.
Shared(img, k, i, v) ==
    \E j \in 1 .. k : j > i /\ v \in BytePages(img[j]) \cup {Page(img[j].vaddr)}
LoadedUpTo(m, img, k) ==
    \A i \in 1 .. k : \A v \in BytePages(img[i]) :
        Shared(img, k, i, v) \/ (HasFrame(m, v) /\ img[i] \in Held(m, v))

LEMMA ElfLoaded ==
  ASSUME NEW m, NEW D, VmInv(m, D), NEW img, Len(img) \in Nat,
         \A i \in 1 .. Len(img) : SegOk(img[i])
  PROVE  LET r == elf_load_segments(m, img)
         IN  /\ VmInv(r.m, D) /\ After(m, r.m) /\ r.ok \in BOOLEAN
             /\ r.ok /\ ~r.m.panic =>
                  /\ ~r.m.noTable =>
                       \A i \in 1 .. Len(img) : \A v \in SegPages(img[i]) : Mapped(r.m, v)
                  /\ LoadedUpTo(r.m, img, Len(img))
<1> DEFINE n == Len(img)
<1>1. PICK w : /\ elf_load_segments(m, img) = w[n] /\ w[0] = Loading(m, TRUE)
               /\ \A i \in 1 .. n : w[i] = LoadSegment(w[i - 1], img[i])
  BY elf_load_segmentsIs
<1> HIDE DEF n
<1>2. n \in Nat /\ \A i \in 1 .. n : SegOk(img[i])
  BY DEF n
<1> DEFINE MappedUpTo(k) == \A i \in 1 .. k : \A v \in SegPages(img[i]) : Mapped(w[k].m, v)
           S == {k \in 0 .. n : /\ VmInv(w[k].m, D) /\ After(m, w[k].m) /\ w[k].ok \in BOOLEAN
                                /\ w[k].ok /\ ~w[k].m.panic =>
                                      /\ ~w[k].m.noTable => MappedUpTo(k)
                                      /\ LoadedUpTo(w[k].m, img, k)}
<1>3. 0 \in S
  <2>1. w[0].m = m /\ w[0].ok \in BOOLEAN
    <3>1. PICK b : b = TRUE
      OBVIOUS
    <3>2. w[0] = Loading(m, b)
      BY <1>1, <3>1
    <3>. QED  BY <3>1, <3>2, LoadingIs
  <2>2. After(m, m)
    BY DEF After
  <2>3. MappedUpTo(0) /\ LoadedUpTo(w[0].m, img, 0)
    BY DEF LoadedUpTo
  <2> HIDE DEF MappedUpTo
  <2>4. 0 \in 0 .. n
    BY <1>2
  <2>. QED  BY <2>1, <2>2, <2>3, <2>4
<1>4. ASSUME NEW k \in 0 .. n, k \in S, k < n PROVE k + 1 \in S
  <2> DEFINE a == w[k].m
             b == w[k + 1].m
             s == img[k + 1]
  <2>1. k + 1 \in 1 .. n /\ k + 1 \in 0 .. n /\ k + 1 - 1 = k
    BY <1>2, <1>4
  <2>2. w[k + 1] = LoadSegment(w[k], s) /\ SegOk(s)
    BY <1>1, <1>2, <2>1
  <2>3. /\ VmInv(a, D) /\ After(m, a) /\ w[k].ok \in BOOLEAN
        /\ w[k].ok /\ ~a.panic => /\ ~a.noTable => MappedUpTo(k)
                                  /\ LoadedUpTo(a, img, k)
    BY <1>4
  <2>4. /\ VmInv(b, D) /\ After(a, b) /\ w[k + 1].ok \in BOOLEAN /\ (w[k + 1].ok => w[k].ok)
        /\ w[k + 1].ok /\ ~b.panic =>
              /\ \A v \in SegPages(s) : Mapped(b, v)
              /\ \A v \in BytePages(s) : HasFrame(b, v) /\ s \in Held(b, v)
              /\ Keeps(a, b, SegPages(s))
    BY <2>2, <2>3, LoadStep
  <2>5. After(m, b)
    BY <2>3, <2>4, AfterAfter
  <2>6. ASSUME w[k + 1].ok, ~b.panic
        PROVE  /\ ~b.noTable => MappedUpTo(k + 1)
               /\ LoadedUpTo(b, img, k + 1)
    <3>1. w[k].ok /\ ~a.panic
      BY <2>4, <2>6 DEF After
    <3>2. \A i \in 1 .. k + 1 : i # k + 1 => i \in 1 .. k
      BY <1>4
    <3>3. \A i \in 1 .. k : i \in 1 .. n /\ i \in 1 .. k + 1 /\ k + 1 > i
      BY <1>2, <1>4
    <3>4. ASSUME ~b.noTable, NEW i \in 1 .. k + 1, NEW v \in SegPages(img[i])
          PROVE  Mapped(b, v)
      <4>1. CASE i = k + 1
        BY <2>4, <2>6, <4>1
      <4>2. CASE i # k + 1
        <5>1. i \in 1 .. k /\ SegOk(img[i]) /\ ~a.noTable
          BY <1>2, <2>4, <3>2, <3>3, <3>4, <4>2 DEF After
        <5>2. Mapped(a, v)
          BY <2>3, <3>1, <3>4, <5>1
        <5>3. v \in Space
          BY <3>4, <5>1, SegPagesAre DEF UserPages
        <5>. QED  BY <2>4, <3>4, <5>2, <5>3 DEF After
      <4>. QED  BY <4>1, <4>2
    <3>5. ASSUME NEW i \in 1 .. k + 1, NEW v \in BytePages(img[i])
          PROVE  Shared(img, k + 1, i, v) \/ (HasFrame(b, v) /\ img[i] \in Held(b, v))
      <4>1. CASE i = k + 1
        BY <2>4, <2>6, <3>5, <4>1
      <4>2. CASE i # k + 1
        <5>1. i \in 1 .. k /\ SegOk(img[i]) /\ k + 1 > i /\ k + 1 \in 1 .. k + 1
          BY <1>2, <1>4, <3>2, <3>3, <4>2
        <5>2. Shared(img, k, i, v) \/ (HasFrame(a, v) /\ img[i] \in Held(a, v))
          BY <2>3, <3>1, <5>1 DEF LoadedUpTo
        <5>3. CASE Shared(img, k, i, v)
          BY <3>3, <5>3 DEF Shared
        <5>4. CASE v \in SegPages(s)
          <6>1. v \in BytePages(s) \cup {Page(s.vaddr)}
            BY <2>2, <5>4, SegPagesAre
          <6>. QED  BY <5>1, <6>1 DEF Shared
        <5>5. CASE ~Shared(img, k, i, v) /\ v \notin SegPages(s)
          <6>1. v \in UserPages
            BY <5>1, SegPagesAre
          <6>2. HasFrame(a, v) /\ img[i] \in Held(a, v)
            BY <5>2, <5>5
          <6>3. Keeps(a, b, SegPages(s))
            BY <2>4, <2>6
          <6>4. HasFrame(b, v) /\ Held(a, v) \subseteq Held(b, v)
            BY <5>5, <6>1, <6>2, <6>3 DEF Keeps
          <6>. QED  BY <6>2, <6>4
        <5>. QED  BY <5>3, <5>4, <5>5
      <4>. QED  BY <4>1, <4>2
    <3>. QED  BY <3>4, <3>5 DEF LoadedUpTo
  <2>. QED  BY <2>1, <2>4, <2>5, <2>6
<1>5. n \in S
  <2>1. 0 .. n \subseteq S
    <3> HIDE DEF S
    <3>. QED  BY <1>2, <1>3, <1>4, UpTo
  <2>. QED  BY <1>2, <2>1
<1>. QED  BY <1>1, <1>5 DEF n

(***************************************************************************)
(* The steps.                                                              *)
(***************************************************************************)
\* Only the histories of m and r differ.
LEMMA HistoryOnly ==
  ASSUME NEW m, NEW D, VmInv(m, D), NEW r,
         /\ IsVm(r) /\ r.free = m.free /\ r.dir = m.dir /\ r.tab = m.tab /\ r.pd = m.pd
         /\ r.panic = m.panic /\ r.noTable = m.noTable /\ r.skipped = m.skipped
  PROVE  VmInv(r, D) /\ After(m, r)
<1>1. \A w : vmm_get_phys(r, w) = vmm_get_phys(m, w)
  BY DEF vmm_get_phys
<1>2. Tabs(r) = Tabs(m)
  BY DEF Tabs
<1>3. VmType(m) /\ (~m.noTable => One(m, D)) /\ PanicInv(m)
      /\ (m.noTable \/ 0 \in Tabs(m) => m.free = {})
  BY DEF VmInv
<1>4. VmType(r)
  BY <1>2, <1>3 DEF VmType
<1>5. ~r.noTable => One(r, D)
  BY <1>1, <1>2, <1>3 DEF One, Mapped
<1>6. PanicInv(r)
  BY <1>1, <1>2, <1>3 DEF PanicInv, Low, Moved
<1>. QED  BY <1>1, <1>2, <1>3, <1>4, <1>5, <1>6 DEF VmInv, After, Mapped

LEMMA FreshIs ==
  ASSUME NEW m, NEW D, VmInv(m, D)
  PROVE  /\ VmInv(Fresh(m), D) /\ After(m, Fresh(m))
         /\ Fresh(m).free = m.free /\ Fresh(m).panic = m.panic
         /\ Fresh(m).noTable = m.noTable
         /\ \A w : vmm_get_phys(Fresh(m), w) = vmm_get_phys(m, w)
<1>1. Fresh(m) = SetMade(m, <<>>) /\ IsVm(m)
  BY DEF Fresh, SetMade, VmInv, VmType
<1> DEFINE r == Fresh(m)
<1>2. /\ IsVm(r) /\ r.free = m.free /\ r.dir = m.dir /\ r.tab = m.tab /\ r.pd = m.pd
      /\ r.panic = m.panic /\ r.noTable = m.noTable /\ r.skipped = m.skipped
  BY <1>1, FieldSet, VmIs
<1> HIDE DEF r
<1>3. VmInv(r, D) /\ After(m, r)
  BY <1>2, HistoryOnly
<1>4. \A w : vmm_get_phys(r, w) = vmm_get_phys(m, w)
  BY <1>2 DEF vmm_get_phys
<1>. QED  BY <1>2, <1>3, <1>4 DEF r

LEMMA FewerDirectories ==
  ASSUME NEW m, NEW D, VmInv(m, D), NEW E, E \subseteq D
  PROVE  VmInv(m, E)
<1>1. One(m, D) => One(m, E)
  BY DEF One
<1>. QED  BY <1>1 DEF VmInv

\* process_create takes a page for a directory and clears it.
LEMMA DirectoryStep ==
  ASSUME NEW m, NEW D, VmInv(m, D), ~m.panic, pmm_alloc_page(m) # 0
  PROVE  LET d == pmm_alloc_page(m)
             r == Touched(Taken(m), d)
         IN  /\ VmInv(r, D \cup {d}) /\ After(m, r)
             /\ d \in RamFrames /\ d # NONE
<1> DEFINE d == pmm_alloc_page(m)
           q == Taken(m)
           r == Touched(q, d)
<1>1. /\ VmInv(q, D) /\ After(m, q)
      /\ d \in RamFrames /\ d \in Space /\ d # 0 /\ d # NONE
      /\ One(q, D) /\ \A v : Unused(q, D, v, d)
  BY TakenStep
<1>2. m.free \in SUBSET RamFrames
  BY DEF VmInv, VmType
<1>3. q.free \subseteq m.free /\ \A y \in m.free : y \in Nat /\ d <= y
  BY <1>1, <1>2, FirstFree, FramesAre DEF After
<1>4. VmType(q) /\ (q.noTable \/ 0 \in Tabs(q) => q.free = {}) /\ PanicInv(q) /\ IsVm(q)
  BY <1>1 DEF VmInv, VmType
<1> HIDE DEF q, d
<1>5. d \notin Kernel => q.free \cap Kernel = {}
  <2>1. d \notin Kernel => \A y \in m.free : y \notin Kernel
    BY <1>1, <1>3, FramesAre, NumbersAre DEF Kernel
  <2>. QED  BY <1>3, <2>1
<1>6. VmType(r) /\ Alike(q, r) /\ PanicInv(r)
  BY <1>4, <1>5, LostAt
<1> HIDE DEF r
<1>7. \A w : vmm_get_phys(r, w) = vmm_get_phys(q, w)
  BY <1>4, <1>6, AlikeKeeps
<1>8. Tabs(r) = Tabs(q) /\ After(q, r)
  BY <1>4, <1>6, AlikeKeeps
<1>9. r.free = q.free /\ r.dir = q.dir /\ r.noTable = q.noTable
  BY <1>6 DEF Alike
<1>10. One(r, D \cup {d})
  <2>1. d \notin Tabs(q) /\ d \notin q.free
    BY <1>1 DEF Unused
  <2>2. \A w \in UserPages : vmm_get_phys(q, w) # d
    <3>1. ASSUME NEW w \in UserPages PROVE vmm_get_phys(q, w) # d
      <4>1. Unused(q, D, NONE, d) /\ w # NONE
        BY <1>1, FramesAre, PageIndices DEF UserPages
      <4>. QED  BY <4>1 DEF Unused
    <3>. QED  BY <3>1
  <2>3. One(q, D)
    BY <1>1
  <2>. QED  BY <1>7, <1>8, <1>9, <2>1, <2>2, <2>3 DEF One, Mapped
<1>11. After(m, r)
  BY <1>1, <1>8, AfterAfter
<1>12. VmInv(r, D \cup {d})
  BY <1>4, <1>6, <1>8, <1>9, <1>10 DEF VmInv
<1>. QED  BY <1>1, <1>11, <1>12 DEF r, q, d

\* What the calls have promised, of memory m.
Promised(m, pages) ==
    ~m.skipped /\ ~m.noTable /\ ~m.panic => \A v \in pages : Mapped(m, v)

LEMMA PromisesKept ==
  ASSUME NEW m, NEW r, After(m, r), NEW pages \in SUBSET Space, Promised(m, pages)
  PROVE  Promised(r, pages)
BY DEF Promised, After

LEMMA PromisesAdded ==
  ASSUME NEW m, NEW a, NEW b, Promised(m, a), Promised(m, b)
  PROVE  Promised(m, a \cup b)
BY DEF Promised

LEMMA RunInSpace ==
  ASSUME NEW addr \in Nat, NEW n \in Nat
  PROVE  Run(addr, n) \subseteq Space
<1>1. \A i \in 1 .. n : i \in Nat \ {0}
  OBVIOUS
<1>. QED  BY <1>1, PageAtIs DEF Run

LEMMA RunPromised ==
  ASSUME NEW m, NEW D, VmInv(m, D), NEW addr \in Nat, NEW n \in Nat
  PROVE  LET r == MapRun(m, addr, n)
         IN  VmInv(r, D) /\ After(m, r) /\ Promised(r, Run(addr, n))
BY RunMapped DEF Promised

\* Images of the machine.
LEMMA ImagesAre ==
  ASSUME NEW img \in Images
  PROVE  /\ Len(img) \in Nat /\ DOMAIN img = 1 .. Len(img)
         /\ \A i \in 1 .. Len(img) : SegOk(img[i])
         /\ UNION {SegPages(s) : s \in ToSet(img)} \subseteq Space
         /\ \A v \in UNION {SegPages(s) : s \in ToSet(img)} :
                \E i \in 1 .. Len(img) : v \in SegPages(img[i])
<1>1. img \in Seq(ToSet(img)) /\ \A s \in ToSet(img) : SegOk(s)
  BY ProgramAssumption DEF SegOk
<1>2. Len(img) \in Nat /\ DOMAIN img = 1 .. Len(img)
  BY <1>1
<1>3. ToSet(img) = {img[i] : i \in 1 .. Len(img)}
  BY <1>2 DEF ToSet
<1>4. \A s \in ToSet(img) : SegPages(s) \subseteq Space
  BY <1>1, SegPagesAre DEF UserPages
<1>. QED  BY <1>1, <1>2, <1>3, <1>4

LEMMA ImageLoaded ==
  ASSUME NEW m, NEW D, VmInv(m, D), NEW img \in Images
  PROVE  LET r == elf_load_segments(m, img)
         IN  /\ VmInv(r.m, D) /\ After(m, r.m) /\ r.ok \in BOOLEAN
             /\ r.ok => Promised(r.m, UNION {SegPages(s) : s \in ToSet(img)})
             /\ r.ok /\ ~r.m.panic => LoadedUpTo(r.m, img, Len(img))
<1> DEFINE r == elf_load_segments(m, img)
<1>1. /\ VmInv(r.m, D) /\ After(m, r.m) /\ r.ok \in BOOLEAN
      /\ r.ok /\ ~r.m.panic =>
           /\ ~r.m.noTable =>
                \A i \in 1 .. Len(img) : \A v \in SegPages(img[i]) : Mapped(r.m, v)
           /\ LoadedUpTo(r.m, img, Len(img))
  BY ImagesAre, ElfLoaded
<1> HIDE DEF r
<1>2. r.ok => Promised(r.m, UNION {SegPages(s) : s \in ToSet(img)})
  BY <1>1, ImagesAre DEF Promised
<1>. QED  BY <1>1, <1>2 DEF r

(***************************************************************************)
(* The boot.                                                               *)
(***************************************************************************)
Start(m) ==
    /\ IsVm(m) /\ m.free \in SUBSET RamFrames /\ m.dir = [i \in DirIndex |-> NONE]
    /\ DOMAIN m.tab = {}
    /\ m.panic = FALSE /\ m.noTable = FALSE /\ m.skipped = FALSE

SetBoot(m, x, i, f, y) == [m EXCEPT !.pd = x, !.dir[i] = f, !.tab = y]
SetPd(m, x) == [m EXCEPT !.pd = x]

LEMMA BootFieldsSet ==
  ASSUME NEW m, IsVm(m), NEW x, NEW i, NEW f, NEW y
  PROVE  SetBoot(m, x, i, f, y) =
           Vm(m.free, [m.dir EXCEPT ![i] = f], y, x, m.panic, m.noTable, m.skipped,
              m.made, m.holds)
<1> DEFINE a == SetPd(m, x)
           b == SetDir(a, [a.dir EXCEPT ![i] = f])
           c == SetTab(b, y)
<1>1. SetBoot(m, x, i, f, y) = c
  BY DEF SetBoot, SetDir, SetTab, SetPd
<1>2. a = Vm(m.free, m.dir, m.tab, x, m.panic, m.noTable, m.skipped, m.made, m.holds)
  BY DEF IsVm, Vm, SetPd
<1> HIDE DEF a
<1>3. IsVm(a) /\ a.dir = m.dir
  BY <1>2, VmIs
<1>4. b = Vm(m.free, [m.dir EXCEPT ![i] = f], m.tab, x, m.panic, m.noTable, m.skipped,
             m.made, m.holds)
  <2> DEFINE z == [m.dir EXCEPT ![i] = f]
  <2>1. b = SetDir(a, z)
    BY <1>3
  <2> HIDE DEF z, b
  <2>2. b = Vm(a.free, z, a.tab, a.pd, a.panic, a.noTable, a.skipped, a.made, a.holds)
    BY <1>3, <2>1, FieldSet
  <2>3. /\ a.free = m.free /\ a.tab = m.tab /\ a.pd = x /\ a.panic = m.panic
        /\ a.noTable = m.noTable /\ a.skipped = m.skipped /\ a.made = m.made
        /\ a.holds = m.holds
    BY <1>2, VmIs
  <2>4. b = Vm(m.free, z, m.tab, x, m.panic, m.noTable, m.skipped, m.made, m.holds)
    BY <2>2, <2>3
  <2>. QED  BY <2>4 DEF z
<1> HIDE DEF b
<1>5. c = Vm(m.free, [m.dir EXCEPT ![i] = f], y, x, m.panic, m.noTable, m.skipped,
             m.made, m.holds)
  <2> DEFINE z == [m.dir EXCEPT ![i] = f]
  <2> HIDE DEF z
  <2>1. b = Vm(m.free, z, m.tab, x, m.panic, m.noTable, m.skipped, m.made, m.holds)
    BY <1>4 DEF z
  <2>2. c = Vm(m.free, z, y, x, m.panic, m.noTable, m.skipped, m.made, m.holds)
    BY <2>1, FieldSet, VmIs
  <2>. QED  BY <2>2 DEF z
<1>. QED  BY <1>1, <1>5

\* A page beyond the identity map has another directory entry.
LEMMA UserIndex ==
  \A v \in UserPages : PAGE_DIR_INDEX(v) # 0
<1>1. ASSUME NEW v \in UserPages PROVE v \div Entries # 0
  <2>1. v \in Nat /\ Entries <= v
    BY NumbersAre DEF UserPages, Space, Kernel
  <2>2. Entries * 1 <= v
    BY <2>1, NumbersAre
  <2>3. 1 <= v \div Entries
    BY <2>1, <2>2, Divided, NumbersAre
  <2>4. v \div Entries \in Nat
    BY <2>1, Divided, NumbersAre
  <2>. QED  BY <2>3, <2>4
<1>2. \A v : PAGE_DIR_INDEX(v) = v \div Entries
  BY DEF PAGE_DIR_INDEX
<1>. QED  BY <1>1, <1>2, Zenon

\* vmm_init: the directory, and the table of the identity map.
LEMMA BootStep ==
  ASSUME NEW m, Start(m)
  PROVE  LET d == pmm_alloc_page(m)
             x == Taken(m)
             f == pmm_alloc_page(x)
             r == [Taken(x) EXCEPT !.pd = d, !.dir[0] = f, !.tab = [i \in {f} |-> Identity]]
         IN  VmInv(r, {r.pd}) /\ Same(r) /\ r.pd \in RamFrames \cup {0}
<1> DEFINE d == pmm_alloc_page(m)
           x == Taken(m)
           f == pmm_alloc_page(x)
           y == Taken(x)
           tab == [i \in {f} |-> Identity]
           r == [y EXCEPT !.pd = d, !.dir[0] = f, !.tab = tab]
           dir == [m.dir EXCEPT ![0] = f]
<1>1. IsVm(m) /\ m.free \in SUBSET RamFrames /\ ~m.panic /\ DOMAIN m.dir = DirIndex
  BY DEF Start
<1>2. /\ IsVm(x) /\ x.free = m.free \ {d} /\ x.dir = m.dir /\ x.panic = m.panic
      /\ x.noTable = m.noTable /\ x.skipped = m.skipped
  <2>1. x = SetFree(m, m.free \ {d})
    BY <1>1 DEF Taken, SetFree
  <2>. QED  BY <1>1, <2>1, FieldSet, VmIs
<1>3. /\ IsVm(y) /\ y.free = x.free \ {f} /\ y.dir = x.dir /\ y.panic = x.panic
      /\ y.noTable = x.noTable /\ y.skipped = x.skipped
  <2>1. y = SetFree(x, x.free \ {f})
    BY <1>1, <1>2 DEF Taken, SetFree
  <2> HIDE DEF x, y, f
  <2>. QED  BY <1>2, <2>1, FieldSet, VmIs
<1>4. d \in RamFrames \cup {0} /\ (d = 0 => m.free = {}) /\ (m.free = {} => d = 0)
  BY <1>1, FirstFree
<1>5. f \in x.free \cup {0} /\ (f = 0 => x.free = {}) /\ f \in RamFrames \cup {0}
  <2>1. x.free \in SUBSET RamFrames
    BY <1>1, <1>2
  <2> HIDE DEF x
  <2>. QED  BY <2>1, FirstFree
<1>6. r = SetBoot(y, d, 0, f, tab)
  BY DEF SetBoot
<1> HIDE DEF x, y, d, f, tab, r
<1>7. r = Vm(y.free, [y.dir EXCEPT ![0] = f], tab, d, y.panic, y.noTable, y.skipped,
             y.made, y.holds)
  BY <1>3, <1>6, BootFieldsSet
<1>8. /\ IsVm(r) /\ r.free = y.free /\ r.dir = dir /\ r.tab = tab /\ r.pd = d
      /\ r.panic = y.panic /\ r.noTable = y.noTable /\ r.skipped = y.skipped
  <2>1. y.dir = m.dir
    BY <1>2, <1>3
  <2>2. r = Vm(y.free, dir, tab, d, y.panic, y.noTable, y.skipped, y.made, y.holds)
    BY <1>7, <2>1
  <2> HIDE DEF dir
  <2>. QED  BY <2>2, VmIs
<1>9. /\ r.free = (m.free \ {d}) \ {f} /\ r.panic = FALSE /\ r.noTable = FALSE
      /\ r.skipped = FALSE
  BY <1>2, <1>3, <1>8 DEF Start
<1>10. /\ r.dir \in [DirIndex -> RamFrames \cup {0, NONE}] /\ r.dir[0] = f
       /\ \A i \in DirIndex : i # 0 => r.dir[i] = NONE
  BY <1>5, <1>8, FramesAre DEF Start
<1>11. f # NONE /\ Tabs(r) = {f}
  BY <1>5, <1>10, FramesAre DEF Tabs
<1>12. DOMAIN r.tab = {f} /\ r.tab[f] \in [TblIndex -> Space \cup {NONE}]
  <2>1. r.tab[f] = Identity /\ DOMAIN r.tab = {f}
    BY <1>8 DEF tab
  <2>2. Identity \in [TblIndex -> Space \cup {NONE}]
    BY PageIndices DEF Identity, TblIndex, Kernel
  <2>. QED  BY <2>1, <2>2
<1>13. VmType(r)
  BY <1>1, <1>8, <1>9, <1>10, <1>11, <1>12 DEF VmType
<1>14. \A v \in UserPages : ~Mapped(r, v)
  <2>1. \A v \in UserPages : PAGE_DIR_INDEX(v) \in DirIndex /\ PAGE_DIR_INDEX(v) # 0
    BY PageIndices, UserIndex DEF UserPages, DirIndex
  <2>. QED  BY <1>10, <2>1 DEF Mapped, vmm_get_phys
<1>15. One(r, {r.pd})
  <2>1. \A i, j \in DirIndex : r.dir[i] = r.dir[j] /\ r.dir[i] # NONE => i = j
    BY <1>10
  <2>2. r.free \cap (Tabs(r) \cup {r.pd}) = {}
    BY <1>8, <1>9, <1>11
  <2>. QED  BY <1>14, <2>1, <2>2 DEF One
<1>16. r.noTable \/ 0 \in Tabs(r) => r.free = {}
  BY <1>2, <1>5, <1>9, <1>11
<1>17. VmInv(r, {r.pd})
  <2>1. \A g \in m.free : d \in Nat /\ d <= g /\ g \in Nat
    BY <1>1, FirstFree, FramesAre DEF d
  <2>2. d \notin Kernel => r.free \cap Kernel = {}
    <3>1. d \notin Kernel => \A g \in m.free : g \notin Kernel
      BY <2>1, NumbersAre DEF Kernel
    <3>. QED  BY <1>9, <3>1
  <2>3. \A g \in x.free : f \in Nat /\ f <= g /\ g \in Nat
    <3>1. x.free \in SUBSET RamFrames
      BY <1>1, <1>2
    <3>. QED  BY <3>1, FirstFree, FramesAre DEF f
  <2>4. f \notin Kernel => r.free \cap Kernel = {}
    <3>1. f \notin Kernel => \A g \in x.free : g \notin Kernel
      BY <2>3, NumbersAre DEF Kernel
    <3>. QED  BY <1>2, <1>9, <3>1
  <2>5. PanicInv(r)
    BY <1>8, <1>9, <1>11, <2>2, <2>4 DEF PanicInv, Low
  <2>. QED  BY <1>9, <1>13, <1>15, <1>16, <2>5 DEF VmInv
<1>18. Same(r)
  BY <1>14 DEF Same
<1>. QED  BY <1>4, <1>8, <1>17, <1>18 DEF x, y, d, f, tab, r

(***************************************************************************)
(* The break of a process.                                                 *)
(***************************************************************************)
Aligned(x) == \E k \in Nat : x = PAGE_SIZE * k

LEMMA AlignedWraps ==
  ASSUME NEW x \in Nat, Aligned(x)
  PROVE  x % AddrBytes \in 0 .. AddrBytes - 1 /\ Aligned(x % AddrBytes)
<1> DEFINE P == PAGE_SIZE
           E == Entries * Tables
           q == x \div AddrBytes
           y == x % AddrBytes
<1>1. P \in Nat /\ P > 0 /\ E \in Nat /\ AddrBytes = P * E /\ AddrBytes \in Nat /\ AddrBytes > 0
  BY NumbersAre
<1>2. q \in Nat /\ y \in Nat /\ y < AddrBytes /\ x = AddrBytes * q + y
  BY <1>1, Divided
<1>3. PICK k \in Nat : x = P * k
  BY DEF Aligned
<1> HIDE DEF P, E, q, y
<1>4. \A a, b \in Nat : a * b \in Nat
  OBVIOUS
<1>5. E * q \in Nat /\ AddrBytes * q = P * (E * q)
  BY <1>1, <1>2, <1>4
<1> DEFINE j == E * q
<1>6. j \in Nat /\ x = P * j + y
  BY <1>2, <1>5
<1> HIDE DEF j
<1>7. P * j \in Nat /\ P * k \in Nat
  BY <1>1, <1>3, <1>4, <1>6
<1>8. j <= k
  <2>1. SUFFICES ASSUME k < j PROVE FALSE
    BY <1>3, <1>6
  <2>2. PICK l \in Nat : j = k + 1 + l
    <3>1. j - (k + 1) \in Nat /\ j = k + 1 + (j - (k + 1))
      BY <1>3, <1>6, <2>1
    <3>. QED  BY <3>1
  <2>3. P * j = P * k + P + P * l /\ P * l \in Nat
    BY <1>1, <1>3, <1>4, <2>2
  <2>. QED  BY <1>1, <1>2, <1>3, <1>6, <1>7, <2>3
<1>9. PICK l \in Nat : k = j + l
  <2>1. k - j \in Nat /\ k = j + (k - j)
    BY <1>3, <1>6, <1>8
  <2>. QED  BY <2>1
<1>10. P * k = P * j + P * l /\ P * l \in Nat
  BY <1>1, <1>4, <1>6, <1>9
<1>11. y = P * l
  BY <1>2, <1>3, <1>6, <1>7, <1>10
<1>12. Aligned(y)
  BY <1>11 DEF Aligned, P
<1>. QED  BY <1>1, <1>2, <1>12 DEF y

LEMMA HeapAligned ==
  LET max == PROC_HEAP_BASE + HeapPages * PAGE_SIZE
  IN  /\ max \in 0 .. AddrBytes - 1 /\ Aligned(max)
      /\ PROC_HEAP_BASE \in 0 .. AddrBytes - 1 /\ PAGE_SIZE <= PROC_HEAP_BASE
<1> DEFINE P == PAGE_SIZE
           b == PROC_HEAP_BASE
           k == b \div P
<1>1. /\ P \in Nat /\ P > 0 /\ b \in Nat /\ HeapPages \in Nat /\ b % P = 0 /\ P <= b
      /\ b + HeapPages * P < AddrBytes /\ AddrBytes \in Nat
  BY AddressAssumption, NumbersAre
<1>2. k \in Nat /\ b = P * k + (b % P)
  BY <1>1, Divided
<1>3. \A x, y \in Nat : x * y \in Nat /\ x * y = y * x
  OBVIOUS
<1> HIDE DEF P, k, b
<1>4. P * k \in Nat /\ b = P * k /\ HeapPages * P \in Nat
  BY <1>1, <1>2, <1>3
<1>5. P * (k + HeapPages) = P * k + P * HeapPages /\ P * HeapPages = HeapPages * P
      /\ k + HeapPages \in Nat
  BY <1>1, <1>2, <1>3
<1>6. b + HeapPages * P = P * (k + HeapPages)
  BY <1>4, <1>5
<1>7. Aligned(b + HeapPages * P)
  BY <1>5, <1>6 DEF Aligned, P
<1>. QED  BY <1>1, <1>4, <1>7 DEF P, b

LEMMA PagesForIs ==
  ASSUME NEW len \in Nat
  PROVE  /\ PagesFor(len) \in Nat
         /\ len + PAGE_SIZE - 1 < AddrBytes =>
              \A i \in Nat : PAGE_SIZE * i <= len + PAGE_SIZE - 1 => i <= PagesFor(len)
<1> DEFINE P == PAGE_SIZE
           a == len + PAGE_SIZE - 1
           b == a % AddrBytes
<1>1. P \in Nat /\ P > 0 /\ a \in Nat /\ AddrBytes \in Nat /\ AddrBytes > 0
  BY NumbersAre
<1>2. PagesFor(len) = b \div P
  BY DEF PagesFor
<1> HIDE DEF P, a
<1>3. b \in Nat /\ a = AddrBytes * (a \div AddrBytes) + b /\ a \div AddrBytes \in Nat
  BY <1>1, Divided
<1>4. a < AddrBytes => b = a
  <2>1. SUFFICES ASSUME a < AddrBytes PROVE b = a
    OBVIOUS
  <2>2. a < AddrBytes * 1
    BY <1>1, <2>1
  <2>3. a \div AddrBytes = 0
    BY <1>1, <1>3, <2>2, Divided
  <2>4. AddrBytes * 0 = 0
    BY <1>1
  <2> HIDE DEF b
  <2>. QED  BY <1>1, <1>3, <2>3, <2>4
<1> HIDE DEF b
<1>5. b \div P \in Nat /\ \A i \in Nat : P * i <= b => i <= b \div P
  BY <1>1, <1>3, Divided
<1>. QED  BY <1>2, <1>4, <1>5 DEF a, P

\* The pages up to the new break are among those that sbrk maps.
LEMMA BreakPages ==
  ASSUME NEW max \in 0 .. AddrBytes - 1, Aligned(max),
         NEW old \in PROC_HEAP_BASE .. max, NEW inc \in 0 .. AddrBytes - 1,
         NEW brk, brk = (old + inc) % AddrBytes, brk > max
  PROVE  Page(max) .. Page(brk - 1) \subseteq Run(max, PagesFor(inc))
<1> DEFINE P == PAGE_SIZE
           A == AddrBytes
<1>1. /\ P \in Nat /\ P > 0 /\ A \in Nat /\ A > 0 /\ PROC_HEAP_BASE \in Nat /\ P <= PROC_HEAP_BASE
      /\ max \in Nat /\ old \in Nat /\ inc \in Nat /\ P <= old /\ old <= max /\ max < A /\ inc < A
  BY HeapAligned, NumbersAre
<1>2. brk \in Nat /\ brk < A /\ brk = old + inc
  <2> DEFINE s == old + inc
             q == s \div A
  <2>1. s \in Nat /\ s < A * 2
    BY <1>1
  <2>2. brk \in Nat /\ brk < A /\ q \in Nat /\ s = A * q + brk /\ q < 2
    BY <1>1, <2>1, Divided
  <2>3. q = 0 \/ q = 1
    BY <2>2
  <2>4. A * 0 = 0 /\ A * 1 = A
    BY <1>1
  <2>5. q # 1
    <3>1. SUFFICES ASSUME q = 1 PROVE FALSE
      OBVIOUS
    <3>2. s = A + brk
      BY <2>2, <2>4, <3>1
    <3>. QED  BY <1>1, <2>2, <3>2
  <2>6. q = 0
    BY <2>3, <2>5
  <2> HIDE DEF q
  <2>7. s = brk
    BY <1>1, <2>2, <2>4, <2>6
  <2>. QED  BY <2>2, <2>7
<1>3. PICK k \in Nat : max = P * k
  BY DEF Aligned
<1>4. inc + P - 1 < A
  BY <1>1, <1>2
<1>5. PagesFor(inc) \in Nat /\ \A i \in Nat : P * i <= inc + P - 1 => i <= PagesFor(inc)
  BY <1>1, <1>4, PagesForIs
<1>6. Page(max) = k
  <2>1. Page(max) = max \div P
    BY <1>1, PageIs
  <2>2. P * (k + 1) = P * k + P /\ P * k \in Nat
    BY <1>1, <1>3
  <2>3. k <= max \div P /\ max \div P < k + 1 /\ max \div P \in Nat
    <3>1. P * k <= max /\ max < P * (k + 1)
      BY <1>1, <1>3, <2>2
    <3>. QED  BY <1>1, <1>3, <3>1, Divided
  <2>. QED  BY <1>3, <2>1, <2>3
<1>7. ASSUME NEW v \in Page(max) .. Page(brk - 1) PROVE v \in Run(max, PagesFor(inc))
  <2> DEFINE w == brk - 1
             i == v - k + 1
  <2>1. w \in Nat /\ w < A
    BY <1>1, <1>2
  <2>2. Page(w) = w \div P /\ Page(w) \in Nat
    BY <2>1, PageIs
  <2>3. v \in Nat /\ k <= v /\ v <= w \div P
    BY <1>3, <1>6, <1>7, <2>2
  <2>4. P * v \in Nat /\ P * v <= w
    <3>1. w = P * (w \div P) + (w % P) /\ w \div P \in Nat /\ w % P \in Nat
      BY <1>1, <2>1, Divided
    <3>2. PICK l \in Nat : w \div P = v + l
      <4>1. (w \div P) - v \in Nat /\ w \div P = v + ((w \div P) - v)
        BY <2>3, <3>1
      <4>. QED  BY <4>1
    <3>3. P * (v + l) = P * v + P * l /\ P * v \in Nat /\ P * l \in Nat
      BY <1>1, <2>3, <3>2
    <3>4. w = P * (v + l) + (w % P)
      BY <3>1, <3>2
    <3>. QED  BY <2>1, <3>1, <3>3, <3>4
  <2>5. i \in Nat /\ i >= 1 /\ v = k + (i - 1)
    BY <1>3, <2>3
  <2> HIDE DEF i, w
  <2>6. P * i = P * (i - 1) + P /\ P * (i - 1) \in Nat /\ P * v = P * k + P * (i - 1)
        /\ (i - 1) * P = P * (i - 1)
    <3>1. PICK j \in Nat : j = i - 1
      BY <2>5
    <3>2. i = j + 1 /\ v = k + j
      BY <2>5, <3>1
    <3>3. P * (j + 1) = P * j + P /\ P * j \in Nat /\ P * (k + j) = P * k + P * j
          /\ j * P = P * j
      BY <1>1, <1>3, <3>1
    <3>. QED  BY <3>1, <3>2, <3>3
  <2>7. max + (i - 1) * P = P * v
    BY <1>3, <2>6
  <2>8. P * i <= inc + P - 1
    <3>1. P * v <= brk - 1
      BY <2>4 DEF w
    <3>2. P * i = P * v - max + P
      BY <1>1, <1>3, <2>4, <2>6
    <3>. QED  BY <1>1, <1>2, <2>4, <3>1, <3>2
  <2>9. i \in 1 .. PagesFor(inc)
    BY <1>5, <2>5, <2>8
  <2>10. Page(P * v) = v
    <3>1. P * (v + 1) = P * v + P
      BY <1>1, <2>3
    <3>2. P * v < P * (v + 1) /\ P * v < A
      BY <1>1, <2>1, <2>4, <3>1
    <3>3. v <= (P * v) \div P /\ (P * v) \div P < v + 1 /\ (P * v) \div P \in Nat
      BY <1>1, <2>3, <2>4, <3>2, Divided
    <3>4. Page(P * v) = (P * v) \div P
      BY <2>4, <3>2, PageIs
    <3>. QED  BY <2>3, <3>3, <3>4
  <2>11. PageAt(max, i) = v
    BY <2>7, <2>10 DEF PageAt
  <2>. QED  BY <2>9, <2>11 DEF Run
<1>. QED  BY <1>7

(***************************************************************************)
(* The processes.                                                          *)
(***************************************************************************)
Proc(dir, brk, brk_max, view) ==
    [dir |-> dir, brk |-> brk, brk_max |-> brk_max, view |-> view]

ProcOk(q) ==
    /\ q = Proc(q.dir, q.brk, q.brk_max, q.view)
    /\ q.dir \in RamFrames
    /\ q.brk \in 0 .. AddrBytes - 1 /\ q.brk_max \in 0 .. AddrBytes - 1
    /\ Aligned(q.brk_max)

ProcInv ==
    /\ proc = [p \in Procs |-> proc[p]]
    /\ \A p \in Live : ProcOk(proc[p])

Directories == {vm.pd} \cup {proc[p].dir : p \in Live}

LEMMA ProcIs ==
  ASSUME NEW d, NEW b, NEW c, NEW e, NEW q, q = Proc(d, b, c, e)
  PROVE  /\ q = Proc(q.dir, q.brk, q.brk_max, q.view)
         /\ q.dir = d /\ q.brk = b /\ q.brk_max = c /\ q.view = e
BY DEF Proc

LEMMA NotNull ==
  \A q : ProcOk(q) => q # NULL
BY FramesAre DEF ProcOk, NULL

\* A process is changed, but for its directory.
LEMMA ProcChanged ==
  ASSUME ProcInv, NEW p \in Procs, NEW q, ProcOk(q), proc[p] # NULL => q.dir = proc[p].dir,
         proc' = [proc EXCEPT ![p] = q]
  PROVE  /\ ProcInv' /\ Live' = Live \cup {p}
         /\ {proc'[r].dir : r \in Live'} = {proc[r].dir : r \in Live} \cup {q.dir}
<1>1. /\ proc' = [r \in Procs |-> proc'[r]] /\ proc'[p] = q
      /\ \A r \in Procs : r # p => proc'[r] = proc[r]
  BY DEF ProcInv
<1>2. q # NULL
  BY NotNull
<1>3. Live' = Live \cup {p}
  BY <1>1, <1>2 DEF Live
<1>4. \A r \in Live' : ProcOk(proc'[r])
  BY <1>1, <1>3 DEF ProcInv, Live
<1>5. {proc'[r].dir : r \in Live'} = {proc[r].dir : r \in Live} \cup {q.dir}
  <2>1. \A r \in Live : r # p => proc'[r].dir = proc[r].dir
    BY <1>1 DEF Live
  <2>2. p \in Live => proc[p].dir = q.dir
    BY DEF Live
  <2>. QED  BY <1>1, <1>3, <2>1, <2>2
<1>6. ProcInv'
  BY <1>1, <1>4 DEF ProcInv
<1>. QED  BY <1>3, <1>5, <1>6

SetView(q, x) == [q EXCEPT !.view = x]
SetBreak(q, b, c, x) == [q EXCEPT !.brk = b, !.brk_max = c, !.view = x]

LEMMA ProcFieldsSet ==
  ASSUME NEW q, ProcOk(q), NEW b, NEW c, NEW x
  PROVE  /\ SetView(q, x) = Proc(q.dir, q.brk, q.brk_max, x)
         /\ SetBreak(q, b, c, x) = Proc(q.dir, b, c, x)
<1>1. q = Proc(q.dir, q.brk, q.brk_max, q.view)
  BY DEF ProcOk
<1>2. SetView(q, x) = Proc(q.dir, q.brk, q.brk_max, x)
  BY <1>1 DEF Proc, SetView
<1>3. SetBreak(q, b, c, x) = Proc(q.dir, b, c, x)
  <2> DEFINE y == [q EXCEPT !.brk = b]
             z == [y EXCEPT !.brk_max = c]
             u == [z EXCEPT !.view = x]
  <2>1. SetBreak(q, b, c, x) = u
    BY DEF SetBreak
  <2>2. y = Proc(q.dir, b, q.brk_max, q.view)
    BY <1>1 DEF Proc
  <2> HIDE DEF y
  <2>3. z = Proc(q.dir, b, c, q.view)
    BY <2>2 DEF Proc
  <2> HIDE DEF z
  <2>4. u = Proc(q.dir, b, c, x)
    BY <2>3 DEF Proc
  <2>. QED  BY <2>1, <2>4
<1>. QED  BY <1>2, <1>3

(***************************************************************************)
(* The inductive invariant.                                                *)
(***************************************************************************)
AddressInv ==
    /\ boot \in {"vmm", "vesa", "up"}
    /\ boot = "vmm" => Start(vm)
    /\ boot # "vmm" => VmInv(vm, Directories) /\ vm.pd \in RamFrames \cup {0}
    /\ boot = "vesa" => Same(vm)
    /\ boot # "up" => Live = {} /\ owed = {} /\ loaded = <<>>
    /\ ProcInv
    /\ owed \in SUBSET Space /\ Promised(vm, owed)
    /\ SegmentsLoaded

LEMMA NothingLoaded ==
  loaded = <<>> => SegmentsLoaded
<1>1. DOMAIN <<>> = {}
  OBVIOUS
<1>. QED  BY <1>1 DEF SegmentsLoaded

LEMMA InitInv == Init => AddressInv
<1> SUFFICES ASSUME Init PROVE AddressInv
  OBVIOUS
<1>1. Start(vm)
  <2>1. PICK no : no = FALSE
    OBVIOUS
  <2>2. vm \in [free : Ram, dir : {[i \in 0 .. Tables - 1 |-> NONE]},
                tab : {<<>>}, pd : {NONE}, panic : {no}, noTable : {no},
                skipped : {no}, made : {<<>>}, holds : {<<>>}]
    BY <2>1 DEF Init
  <2>3. IsVm(vm) /\ vm.free \in Ram
    BY <2>2 DEF IsVm, Vm
  <2>4. vm.dir = [i \in DirIndex |-> NONE]
    BY <2>2 DEF DirIndex
  <2>5. vm.panic = no /\ vm.noTable = no /\ vm.skipped = no
    BY <2>2
  <2>6. vm.free \in SUBSET RamFrames
    BY <2>3 DEF RamFrames
  <2>7. DOMAIN vm.tab = {}
    <3>1. vm.tab = <<>>
      BY <2>2
    <3>2. DOMAIN <<>> = {}
      OBVIOUS
    <3>. QED  BY <3>1, <3>2
  <2>. QED  BY <2>1, <2>3, <2>4, <2>5, <2>6, <2>7 DEF Start
<1>2. Live = {} /\ ProcInv
  <2>1. proc = [p \in Procs |-> NULL]
    BY DEF Init
  <2>. QED  BY <2>1 DEF Live, ProcInv
<1>3. SegmentsLoaded
  BY NothingLoaded DEF Init
<1>4. Promised(vm, owed) /\ owed \in SUBSET Space
  BY DEF Init, Promised
<1>. QED  BY <1>1, <1>2, <1>3, <1>4 DEF Init, AddressInv

LEMMA vmm_initInv ==
  ASSUME AddressInv, vmm_init PROVE AddressInv'
<1>1. Start(vm) /\ Live = {} /\ owed = {} /\ loaded = <<>> /\ ProcInv
  BY DEF AddressInv, vmm_init
<1>2. /\ boot' = "vesa" /\ proc' = proc /\ owed' = owed /\ loaded' = loaded
      /\ VmInv(vm', {vm'.pd}) /\ Same(vm') /\ vm'.pd \in RamFrames \cup {0}
  <2>1. vmm_init
    OBVIOUS
  <2>2. VmInv(vm', {vm'.pd}) /\ Same(vm') /\ vm'.pd \in RamFrames \cup {0}
    BY <1>1, BootStep DEF vmm_init
  <2>. QED  BY <2>2 DEF vmm_init
<1>3. Live' = {} /\ ProcInv' /\ Directories' = {vm'.pd}
  BY <1>1, <1>2 DEF Live, ProcInv, Directories
<1>4. SegmentsLoaded'
  <2>1. DOMAIN <<>> = {}
    OBVIOUS
  <2>2. DOMAIN loaded' = {}
    BY <1>1, <1>2, <2>1
  <2>. QED  BY <2>2 DEF SegmentsLoaded
<1>5. Promised(vm', owed') /\ owed' \in SUBSET Space
  BY <1>1, <1>2 DEF Promised
<1>. QED  BY <1>1, <1>2, <1>3, <1>4, <1>5 DEF AddressInv

LEMMA NothingLoadedNext ==
  ASSUME loaded' = <<>> PROVE SegmentsLoaded'
<1>1. DOMAIN <<>> = {}
  OBVIOUS
<1>2. DOMAIN loaded' = {}
  BY <1>1
<1>. QED  BY <1>2 DEF SegmentsLoaded

LEMMA ImageLoadedNext ==
  ASSUME NEW img \in Images, loaded' = img, LoadedUpTo(vm', img, Len(img))
  PROVE  SegmentsLoaded'
<1> DEFINE n == Len(img)
<1>1. n \in Nat /\ DOMAIN img = 1 .. n
  BY ImagesAre
<1>2. ASSUME NEW i \in 1 .. n, NEW v \in BytePages(img[i])
      PROVE  \/ \E j \in 1 .. n : j > i /\ v \in BytePages(img[j]) \cup {Page(img[j].vaddr)}
             \/ img[i] \in vm'.holds[vmm_get_phys(vm', v)]
  BY <1>2 DEF LoadedUpTo, Shared, Held
<1> HIDE DEF n
<1>. QED  BY <1>1, <1>2 DEF SegmentsLoaded

\* Before paging, and once the kernel is up.
LEMMA vesa_initInv ==
  ASSUME AddressInv, vesa_init PROVE AddressInv'
<1> DEFINE m == Fresh(vm)
           r == MapSame(m, FbPage, FbPages)
<1>1. /\ boot = "vesa" /\ boot' = "up" /\ vm' = r /\ loaded' = <<>>
      /\ proc' = proc /\ owed' = owed
  BY DEF vesa_init
<1>2. /\ VmInv(vm, Directories) /\ vm.pd \in RamFrames \cup {0} /\ Same(vm)
      /\ Live = {} /\ owed = {} /\ ProcInv
  BY <1>1 DEF AddressInv
<1>3. Directories = {vm.pd}
  BY <1>2 DEF Directories
<1>4. /\ VmInv(m, Directories) /\ After(vm, m) /\ m.noTable = vm.noTable
      /\ \A w : vmm_get_phys(m, w) = vmm_get_phys(vm, w)
  BY <1>2, FreshIs
<1>5. Same(m)
  BY <1>2, <1>4 DEF Same, Mapped
<1> HIDE DEF m
<1>6. VmInv(r, Directories) /\ After(m, r)
  BY <1>2, <1>3, <1>4, <1>5, FramebufferMapped
<1> HIDE DEF r
<1>7. vm'.pd = vm.pd
  BY <1>1, <1>4, <1>6 DEF After
<1>8. Live' = {} /\ ProcInv' /\ Directories' = Directories
  BY <1>1, <1>2, <1>7 DEF Live, ProcInv, Directories
<1>9. Promised(vm', owed') /\ owed' \in SUBSET Space
  BY <1>1, <1>2 DEF Promised
<1>10. SegmentsLoaded'
  BY <1>1, NothingLoadedNext
<1>. QED  BY <1>1, <1>2, <1>6, <1>7, <1>8, <1>9, <1>10 DEF AddressInv

LEMMA UpInv ==
  ASSUME boot' = "up", VmInv(vm', Directories'), vm'.pd \in RamFrames \cup {0},
         ProcInv', owed' \in SUBSET Space, Promised(vm', owed'), SegmentsLoaded'
  PROVE  AddressInv'
BY DEF AddressInv

LEMMA process_createInv ==
  ASSUME AddressInv, NEW p \in Procs, NEW img \in Images, NEW kstack \in BOOLEAN,
         process_create(p, img, kstack)
  PROVE  AddressInv'
<1> DEFINE x == Fresh(vm)
           d == pmm_alloc_page(vm)
           m == Touched(Taken(x), d)
           k == MapSame(m, 0, Entries)
           stack == MapRun(k, stack_bottom, StackPages)
           heap == MapRun(stack, PROC_HEAP_BASE, HeapPages)
           r == elf_load_segments(heap, img)
           segs == UNION {SegPages(s) : s \in ToSet(img)}
           pages == owed \cup segs \cup Run(stack_bottom, StackPages) \cup Run(PROC_HEAP_BASE, HeapPages)
           brk_max == PROC_HEAP_BASE + HeapPages * PAGE_SIZE
           view == [v \in DOMAIN r.m.made \ Kernel |-> r.m.made[v]]
           q == Proc(d, PROC_HEAP_BASE, brk_max, view)
<1>1. boot = "up" /\ boot' = "up" /\ ~vm.panic /\ proc[p] = NULL
  BY DEF process_create, Ready
<1>2. /\ VmInv(vm, Directories) /\ vm.pd \in RamFrames \cup {0} /\ ProcInv
      /\ owed \in SUBSET Space /\ Promised(vm, owed) /\ SegmentsLoaded
  BY <1>1 DEF AddressInv
<1>3. CASE d = 0
  <2>1. vm' = vm /\ proc' = proc /\ owed' = owed /\ loaded' = loaded
    BY <1>3 DEF process_create
  <2>2. ProcInv' /\ Directories' = Directories /\ SegmentsLoaded'
    BY <1>2, <2>1 DEF ProcInv, Live, Directories, SegmentsLoaded
  <2>. QED  BY <1>1, <1>2, <2>1, <2>2, UpInv
<1>4. CASE d # 0
  <2>1. /\ vm' = r.m
        /\ r.ok /\ kstack /\ ~r.m.panic =>
              proc' = [proc EXCEPT ![p] = q] /\ owed' = pages /\ loaded' = img
        /\ ~(r.ok /\ kstack /\ ~r.m.panic) =>
              loaded' = <<>> /\ proc' = proc /\ owed' = owed
    <3>1. vm' = r.m
      BY <1>4 DEF process_create
    <3>2. ASSUME r.ok /\ kstack /\ ~r.m.panic
          PROVE  owed' = pages /\ loaded' = img
      BY <1>4, <3>2 DEF process_create
    <3>3. ASSUME r.ok /\ kstack /\ ~r.m.panic
          PROVE  proc' = [proc EXCEPT ![p] = q]
      BY <1>4, <3>3 DEF process_create, Proc
    <3>4. ASSUME ~(r.ok /\ kstack /\ ~r.m.panic)
          PROVE  loaded' = <<>> /\ proc' = proc /\ owed' = owed
      BY <1>4, <3>4 DEF process_create
    <3>. QED  BY <3>1, <3>2, <3>3, <3>4
  <2>2. VmInv(x, Directories) /\ After(vm, x) /\ x.free = vm.free /\ x.panic = vm.panic
    BY <1>2, FreshIs
  <2>3. pmm_alloc_page(x) = d
    BY <2>2 DEF pmm_alloc_page
  <2> HIDE DEF x, d
  <2>4. VmInv(m, Directories \cup {d}) /\ After(x, m) /\ d \in RamFrames /\ d # NONE
    BY <1>1, <1>4, <2>2, <2>3, DirectoryStep
  <2> DEFINE D == Directories \cup {d}
  <2> HIDE DEF m, D
  <2>5. VmInv(k, D) /\ After(m, k)
    BY <2>4, KernelMapped DEF D
  <2>6. stack_bottom \in Nat /\ PROC_HEAP_BASE \in Nat /\ StackPages \in Nat /\ HeapPages \in Nat
    BY AddressAssumption DEF stack_bottom
  <2> HIDE DEF k
  <2>7. VmInv(stack, D) /\ After(k, stack) /\ Promised(stack, Run(stack_bottom, StackPages))
    BY <2>5, <2>6, RunPromised
  <2> HIDE DEF stack
  <2>8. VmInv(heap, D) /\ After(stack, heap) /\ Promised(heap, Run(PROC_HEAP_BASE, HeapPages))
    BY <2>6, <2>7, RunPromised
  <2> HIDE DEF heap
  <2>9. /\ VmInv(r.m, D) /\ After(heap, r.m) /\ r.ok \in BOOLEAN
        /\ r.ok => Promised(r.m, segs)
        /\ r.ok /\ ~r.m.panic => LoadedUpTo(r.m, img, Len(img))
    BY <2>8, ImageLoaded
  <2>10. segs \subseteq Space
    BY ImagesAre
  <2> HIDE DEF r, segs
  <2>11. After(stack, r.m) /\ After(vm, r.m)
    <3>1. After(vm, m)
      BY <2>2, <2>4, AfterAfter
    <3>2. After(vm, k)
      BY <2>5, <3>1, AfterAfter
    <3>3. After(vm, stack)
      BY <2>7, <3>2, AfterAfter
    <3>4. After(vm, heap)
      BY <2>8, <3>3, AfterAfter
    <3>. QED  BY <2>8, <2>9, <3>4, AfterAfter
  <2>12. vm'.pd = vm.pd
    BY <2>1, <2>11 DEF After
  <2>13. Promised(vm', owed)
    BY <1>2, <2>1, <2>11, PromisesKept
  <2>14. CASE r.ok /\ kstack /\ ~r.m.panic
    <3>1. proc' = [proc EXCEPT ![p] = q] /\ owed' = pages /\ loaded' = img
      BY <2>1, <2>14
    <3>2. ProcOk(q) /\ q.dir = d
      <4>1. /\ brk_max \in 0 .. AddrBytes - 1 /\ Aligned(brk_max)
            /\ PROC_HEAP_BASE \in 0 .. AddrBytes - 1
        BY HeapAligned
      <4> HIDE DEF brk_max, view
      <4>2. /\ q = Proc(q.dir, q.brk, q.brk_max, q.view) /\ q.dir = d
            /\ q.brk = PROC_HEAP_BASE /\ q.brk_max = brk_max
        BY ProcIs
      <4> HIDE DEF q
      <4>. QED  BY <2>4, <4>1, <4>2 DEF ProcOk
    <3> HIDE DEF q
    <3>3. /\ ProcInv'
          /\ {proc'[u].dir : u \in Live'} = {proc[u].dir : u \in Live} \cup {d}
      BY <1>1, <1>2, <3>1, <3>2, ProcChanged
    <3>4. Directories' = D
      BY <2>12, <3>3 DEF Directories, D
    <3>5. Run(stack_bottom, StackPages) \subseteq Space /\ Run(PROC_HEAP_BASE, HeapPages) \subseteq Space
      BY <2>6, RunInSpace
    <3>6. /\ Promised(r.m, Run(PROC_HEAP_BASE, HeapPages))
          /\ Promised(r.m, Run(stack_bottom, StackPages))
      BY <2>7, <2>8, <2>9, <2>11, <3>5, PromisesKept
    <3>7. Promised(r.m, pages)
      <4>1. Promised(r.m, segs) /\ Promised(r.m, owed)
        BY <2>1, <2>9, <2>13, <2>14
      <4>. QED  BY <3>6, <4>1 DEF Promised
    <3>8. owed' \in SUBSET Space
      BY <1>2, <2>10, <3>1, <3>5
    <3>9. SegmentsLoaded'
      BY <2>1, <2>9, <2>14, <3>1, ImageLoadedNext
    <3>10. VmInv(vm', Directories') /\ Promised(vm', owed') /\ vm'.pd \in RamFrames \cup {0}
      BY <1>2, <2>1, <2>9, <2>12, <3>1, <3>4, <3>7
    <3>. QED  BY <1>1, <3>3, <3>8, <3>9, <3>10, UpInv
  <2>15. CASE ~(r.ok /\ kstack /\ ~r.m.panic)
    <3>1. loaded' = <<>> /\ proc' = proc /\ owed' = owed
      BY <2>1, <2>15
    <3>2. ProcInv' /\ Directories' = Directories
      BY <1>2, <2>12, <3>1 DEF ProcInv, Live, Directories
    <3>3. SegmentsLoaded'
      BY <3>1, NothingLoadedNext
    <3>4. VmInv(vm', Directories)
      <4>1. Directories \subseteq D
        BY DEF D
      <4>. QED  BY <2>1, <2>9, <4>1, FewerDirectories
    <3>5. Promised(vm', owed') /\ owed' \in SUBSET Space /\ vm'.pd \in RamFrames \cup {0}
      BY <1>2, <2>12, <2>13, <3>1
    <3>. QED  BY <1>1, <3>2, <3>3, <3>4, <3>5, UpInv
  <2>. QED  BY <2>14, <2>15
<1>. QED  BY <1>3, <1>4

LEMMA process_destroyInv ==
  ASSUME AddressInv, NEW p \in Procs, process_destroy(p)
  PROVE  AddressInv'
<1>1. /\ boot = "up" /\ boot' = "up" /\ vm' = vm /\ owed' = owed /\ loaded' = loaded
      /\ proc' = [proc EXCEPT ![p] = NULL]
  BY DEF process_destroy, Ready
<1>2. /\ VmInv(vm, Directories) /\ vm.pd \in RamFrames \cup {0} /\ ProcInv
      /\ owed \in SUBSET Space /\ Promised(vm, owed) /\ SegmentsLoaded
  BY <1>1 DEF AddressInv
<1>3. /\ proc' = [r \in Procs |-> proc'[r]] /\ proc'[p] = NULL
      /\ \A r \in Procs : r # p => proc'[r] = proc[r]
  BY <1>1, <1>2 DEF ProcInv
<1>4. /\ Live' \subseteq Live /\ \A r \in Live' : proc'[r] = proc[r]
  BY <1>3 DEF Live
<1>5. ProcInv' /\ Directories' \subseteq Directories
  BY <1>1, <1>2, <1>3, <1>4 DEF ProcInv, Directories
<1>6. VmInv(vm, Directories')
  BY <1>2, <1>5, FewerDirectories
<1>7. SegmentsLoaded'
  BY <1>1, <1>2 DEF SegmentsLoaded
<1>. QED  BY <1>1, <1>2, <1>5, <1>6, <1>7, UpInv

\* A system call that leaves memory m.
LEMMA CallInv ==
  ASSUME AddressInv, boot = "up", boot' = "up", NEW p \in Procs, proc[p] # NULL,
         NEW m, VmInv(m, Directories), After(vm, m),
         NEW pages \in SUBSET Space, Promised(m, pages),
         Call(p, m, pages), SegmentsLoaded'
  PROVE  AddressInv'
<1>1. /\ VmInv(vm, Directories) /\ vm.pd \in RamFrames \cup {0} /\ ProcInv
      /\ owed \in SUBSET Space /\ Promised(vm, owed)
  BY DEF AddressInv
<1> DEFINE view == m.made @@ proc[p].view
           q == SetView(proc[p], view)
<1>2. /\ vm' = m /\ proc' = [proc EXCEPT ![p] = q]
      /\ owed' = IF m.panic THEN owed ELSE owed \cup pages
  BY DEF Call, SetView
<1>3. ProcOk(proc[p])
  BY <1>1 DEF ProcInv, Live
<1> HIDE DEF view
<1>4. q = Proc(proc[p].dir, proc[p].brk, proc[p].brk_max, view)
  BY <1>3, ProcFieldsSet
<1> HIDE DEF q
<1>5. /\ q = Proc(q.dir, q.brk, q.brk_max, q.view) /\ q.dir = proc[p].dir
      /\ q.brk = proc[p].brk /\ q.brk_max = proc[p].brk_max
  BY <1>4, ProcIs
<1>6. ProcOk(q)
  BY <1>3, <1>5 DEF ProcOk
<1>7. /\ ProcInv'
      /\ {proc'[r].dir : r \in Live'} = {proc[r].dir : r \in Live} \cup {q.dir}
  BY <1>1, <1>2, <1>5, <1>6, ProcChanged
<1>8. q.dir \in {proc[r].dir : r \in Live}
  BY <1>5 DEF Live
<1>9. vm'.pd = vm.pd
  BY <1>2 DEF After
<1>10. Directories' = Directories
  BY <1>7, <1>8, <1>9 DEF Directories
<1>11. Promised(m, owed)
  BY <1>1, PromisesKept
<1>12. owed' \in SUBSET Space /\ Promised(vm', owed')
  BY <1>1, <1>2, <1>11 DEF Promised
<1>. QED  BY <1>1, <1>2, <1>7, <1>9, <1>10, <1>12, UpInv

LEMMA sys_execInv ==
  ASSUME AddressInv, NEW p \in Procs, NEW img \in Images, sys_exec(p, img)
  PROVE  AddressInv'
<1> DEFINE x == Fresh(vm)
           r == elf_load_segments(x, img)
           segs == UNION {SegPages(s) : s \in ToSet(img)}
           pages == IF r.ok THEN segs ELSE {}
<1>1. /\ boot = "up" /\ boot' = "up" /\ proc[p] # NULL /\ Call(p, r.m, pages)
      /\ loaded' = IF r.ok /\ ~r.m.panic THEN img ELSE <<>>
  BY DEF sys_exec, Ready
<1>2. VmInv(vm, Directories)
  BY <1>1 DEF AddressInv
<1>3. VmInv(x, Directories) /\ After(vm, x)
  BY <1>2, FreshIs
<1> HIDE DEF x
<1>4. /\ VmInv(r.m, Directories) /\ After(x, r.m) /\ r.ok \in BOOLEAN
      /\ r.ok => Promised(r.m, segs)
      /\ r.ok /\ ~r.m.panic => LoadedUpTo(r.m, img, Len(img))
  BY <1>3, ImageLoaded
<1>5. segs \subseteq Space
  BY ImagesAre
<1> HIDE DEF r, segs
<1>6. After(vm, r.m)
  BY <1>3, <1>4, AfterAfter
<1>7. pages \in SUBSET Space /\ Promised(r.m, pages)
  BY <1>4, <1>5 DEF Promised
<1>8. SegmentsLoaded'
  <2>1. CASE r.ok /\ ~r.m.panic
    <3>1. vm' = r.m
      BY <1>1 DEF Call
    <3>. QED  BY <1>1, <1>4, <2>1, <3>1, ImageLoadedNext
  <2>2. CASE ~(r.ok /\ ~r.m.panic)
    BY <1>1, <2>2, NothingLoadedNext
  <2>. QED  BY <2>1, <2>2
<1> HIDE DEF pages
<1>. QED  BY <1>1, <1>4, <1>6, <1>7, <1>8, CallInv

LEMMA sys_mmapInv ==
  ASSUME AddressInv, NEW p \in Procs, NEW addr \in 0 .. AddrBytes - 1,
         NEW len \in 0 .. AddrBytes - 1, sys_mmap(p, addr, len)
  PROVE  AddressInv'
<1> DEFINE x == Fresh(vm)
           start == IF addr = 0 THEN MmapBase ELSE addr
           n == PagesFor(len)
           m == MapRun(x, start, n)
<1>1. /\ boot = "up" /\ boot' = "up" /\ proc[p] # NULL /\ Call(p, m, Run(start, n))
      /\ loaded' = <<>>
  BY DEF sys_mmap, Ready
<1>2. VmInv(vm, Directories)
  BY <1>1 DEF AddressInv
<1>3. VmInv(x, Directories) /\ After(vm, x)
  BY <1>2, FreshIs
<1>4. start \in Nat /\ n \in Nat
  BY AddressAssumption, NumbersAre, PagesForIs
<1> HIDE DEF x, start, n
<1>5. VmInv(m, Directories) /\ After(x, m) /\ Promised(m, Run(start, n))
  BY <1>3, <1>4, RunPromised
<1> HIDE DEF m
<1>6. After(vm, m)
  BY <1>3, <1>5, AfterAfter
<1>7. Run(start, n) \in SUBSET Space
  BY <1>4, RunInSpace
<1>8. SegmentsLoaded'
  BY <1>1, NothingLoadedNext
<1>. QED  BY <1>1, <1>5, <1>6, <1>7, <1>8, CallInv

LEMMA sys_munmapInv ==
  ASSUME AddressInv, NEW p \in Procs, NEW addr \in 0 .. AddrBytes - 1,
         NEW len \in 0 .. AddrBytes - 1, sys_munmap(p, addr, len)
  PROVE  AddressInv'
<1> DEFINE n == PagesFor(len)
           m == UnmapRun(vm, addr, n)
           view == Restrict(proc[p].view, DOMAIN proc[p].view \ Run(addr, n))
           q == SetView(proc[p], view)
<1>1. /\ boot = "up" /\ boot' = "up" /\ proc[p] # NULL /\ vm' = m
      /\ owed' = owed \ Run(addr, n) /\ loaded' = <<>>
  BY DEF sys_munmap, Ready
<1>2. proc' = [proc EXCEPT ![p] = q]
  BY DEF sys_munmap, SetView
<1>3. /\ VmInv(vm, Directories) /\ vm.pd \in RamFrames \cup {0} /\ ProcInv
      /\ owed \in SUBSET Space /\ Promised(vm, owed)
  BY <1>1 DEF AddressInv
<1>4. addr \in Nat /\ n \in Nat
  BY NumbersAre, PagesForIs
<1> HIDE DEF n, view
<1>5. VmInv(m, Directories) /\ Unmapping(vm, m, Run(addr, n))
  BY <1>3, <1>4, RunUnmapped
<1> HIDE DEF m
<1>6. ProcOk(proc[p])
  BY <1>1, <1>3 DEF ProcInv, Live
<1>7. q = Proc(proc[p].dir, proc[p].brk, proc[p].brk_max, view)
  BY <1>6, ProcFieldsSet
<1> HIDE DEF q
<1>8. /\ q = Proc(q.dir, q.brk, q.brk_max, q.view) /\ q.dir = proc[p].dir
      /\ q.brk = proc[p].brk /\ q.brk_max = proc[p].brk_max
  BY <1>7, ProcIs
<1>9. ProcOk(q)
  BY <1>6, <1>8 DEF ProcOk
<1>10. /\ ProcInv'
       /\ {proc'[r].dir : r \in Live'} = {proc[r].dir : r \in Live} \cup {q.dir}
  BY <1>2, <1>3, <1>8, <1>9, ProcChanged
<1>11. q.dir \in {proc[r].dir : r \in Live}
  BY <1>1, <1>8 DEF Live
<1>12. vm'.pd = vm.pd
  BY <1>1, <1>5 DEF Unmapping
<1>13. Directories' = Directories
  BY <1>10, <1>11, <1>12 DEF Directories
<1>14. owed' \in SUBSET Space /\ Promised(vm', owed')
  BY <1>1, <1>3, <1>5 DEF Promised, Unmapping, Mapped
<1>15. SegmentsLoaded'
  BY <1>1, NothingLoadedNext
<1>. QED  BY <1>1, <1>3, <1>5, <1>10, <1>12, <1>13, <1>14, <1>15, UpInv

LEMMA sys_sbrkInv ==
  ASSUME AddressInv, NEW p \in Procs, NEW increment \in 0 .. AddrBytes - 1,
         sys_sbrk(p, increment)
  PROVE  AddressInv'
<1> DEFINE old == proc[p].brk
           top == proc[p].brk_max
           brk == (old + increment) % AddrBytes
           n == PagesFor(increment)
           x == Fresh(vm)
           m == MapRun(x, top, n)
           grow == brk > top
           max == (top + n * PAGE_SIZE) % AddrBytes
           brk_max == IF grow THEN max ELSE top
           view == IF grow THEN m.made @@ proc[p].view ELSE proc[p].view
           q == SetBreak(proc[p], brk, brk_max, view)
           pages == IF grow /\ old \in PROC_HEAP_BASE .. top
                    THEN Page(top) .. Page(brk - 1) ELSE {}
<1>1. /\ boot = "up" /\ boot' = "up" /\ proc[p] # NULL /\ loaded' = <<>>
      /\ vm' = IF grow THEN m ELSE vm
  BY DEF sys_sbrk, SbrkPages, Ready
<1>2. proc' = [proc EXCEPT ![p] = q]
  <2> DEFINE u == [proc[p] EXCEPT !.brk = brk,
                                  !.brk_max = IF grow THEN max ELSE @,
                                  !.view = IF grow THEN m.made @@ @ ELSE @]
  <2>1. proc' = [proc EXCEPT ![p] = u]
    BY DEF sys_sbrk, SbrkPages
  <2>2. u = q
    BY DEF SetBreak
  <2>. QED  BY <2>1, <2>2
<1>3. owed' = owed \cup pages
  BY DEF sys_sbrk
<1>4. /\ VmInv(vm, Directories) /\ vm.pd \in RamFrames \cup {0} /\ ProcInv
      /\ owed \in SUBSET Space /\ Promised(vm, owed)
  BY <1>1 DEF AddressInv
<1>5. ProcOk(proc[p])
  BY <1>1, <1>4 DEF ProcInv, Live
<1>6. /\ old \in 0 .. AddrBytes - 1 /\ top \in 0 .. AddrBytes - 1 /\ Aligned(top)
      /\ AddrBytes \in Nat /\ AddrBytes > 0 /\ PAGE_SIZE \in Nat /\ n \in Nat
      /\ top \in Nat /\ increment \in Nat
  BY <1>5, NumbersAre, PagesForIs DEF ProcOk
<1>7. VmInv(x, Directories) /\ After(vm, x)
  BY <1>4, FreshIs
<1> HIDE DEF x, n, top, old
<1>8. VmInv(m, Directories) /\ After(x, m) /\ Promised(m, Run(top, n))
  BY <1>6, <1>7, RunPromised
<1> HIDE DEF m
<1>9. After(vm, m)
  BY <1>7, <1>8, AfterAfter
<1>10. brk \in 0 .. AddrBytes - 1
  <2>1. old + increment \in Nat
    BY <1>6
  <2>2. brk \in Nat /\ brk < AddrBytes
    BY <1>6, <2>1, Divided
  <2> HIDE DEF brk
  <2>. QED  BY <1>6, <2>2
<1>11. brk_max \in 0 .. AddrBytes - 1 /\ Aligned(brk_max)
  <2>1. PICK k \in Nat : top = PAGE_SIZE * k
    BY <1>6 DEF Aligned
  <2>2. /\ n * PAGE_SIZE \in Nat /\ n * PAGE_SIZE = PAGE_SIZE * n
        /\ PAGE_SIZE * (k + n) = PAGE_SIZE * k + PAGE_SIZE * n /\ k + n \in Nat
    <3>1. \A a, b, c \in Nat : a * b \in Nat /\ a * b = b * a /\ a * (b + c) = a * b + a * c
                               /\ b + c \in Nat
      OBVIOUS
    <3>. QED  BY <1>6, <2>1, <3>1
  <2>3. top + n * PAGE_SIZE = PAGE_SIZE * (k + n) /\ top + n * PAGE_SIZE \in Nat
    BY <1>6, <2>1, <2>2
  <2>4. Aligned(top + n * PAGE_SIZE)
    BY <2>2, <2>3 DEF Aligned
  <2>5. max \in 0 .. AddrBytes - 1 /\ Aligned(max)
    BY <2>3, <2>4, AlignedWraps
  <2> HIDE DEF max, grow
  <2>. QED  BY <1>6, <2>5
<1> HIDE DEF view, brk_max
<1>12. pages \subseteq Run(top, n)
  <2>1. SUFFICES ASSUME grow, old \in PROC_HEAP_BASE .. top
                 PROVE pages \subseteq Run(top, n)
    OBVIOUS
  <2>2. Page(top) .. Page(brk - 1) \subseteq Run(top, PagesFor(increment))
    BY <1>6, <2>1, BreakPages
  <2>. QED  BY <2>1, <2>2 DEF n
<1>13. pages # {} => grow
  OBVIOUS
<1> HIDE DEF brk, pages
<1>14. q = Proc(proc[p].dir, brk, brk_max, view)
  BY <1>5, ProcFieldsSet
<1> HIDE DEF q
<1>15. /\ q = Proc(q.dir, q.brk, q.brk_max, q.view) /\ q.dir = proc[p].dir
       /\ q.brk = brk /\ q.brk_max = brk_max
  BY <1>14, ProcIs
<1>16. ProcOk(q)
  BY <1>5, <1>10, <1>11, <1>15 DEF ProcOk
<1>17. /\ ProcInv'
       /\ {proc'[r].dir : r \in Live'} = {proc[r].dir : r \in Live} \cup {q.dir}
  BY <1>2, <1>4, <1>15, <1>16, ProcChanged
<1>18. q.dir \in {proc[r].dir : r \in Live}
  BY <1>1, <1>15 DEF Live
<1> HIDE DEF grow
<1>19. vm'.pd = vm.pd /\ VmInv(vm', Directories) /\ After(vm, vm')
  <2>1. After(vm, vm)
    BY DEF After
  <2>. QED  BY <1>1, <1>4, <1>8, <1>9, <2>1 DEF After
<1>20. Directories' = Directories
  BY <1>17, <1>18, <1>19 DEF Directories
<1>21. Run(top, n) \subseteq Space
  BY <1>6, RunInSpace
<1>22. owed' \in SUBSET Space
  BY <1>3, <1>4, <1>12, <1>21
<1>23. Promised(vm', owed')
  <2>1. Promised(vm', owed)
    BY <1>4, <1>19, PromisesKept
  <2>2. Promised(vm', pages)
    <3>1. CASE grow
      BY <1>1, <1>8, <1>12, <3>1 DEF Promised
    <3>2. CASE ~grow
      <4>1. pages = {}
        BY <1>13, <3>2
      <4>. QED  BY <4>1 DEF Promised
    <3>. QED  BY <3>1, <3>2
  <2>. QED  BY <1>3, <2>1, <2>2, PromisesAdded
<1>24. SegmentsLoaded'
  BY <1>1, NothingLoadedNext
<1>. QED  BY <1>1, <1>4, <1>17, <1>19, <1>20, <1>22, <1>23, <1>24, UpInv

LEMMA NextInv ==
  AddressInv /\ [Next]_vars => AddressInv'
<1> SUFFICES ASSUME AddressInv, [Next]_vars PROVE AddressInv'
  OBVIOUS
<1>1. CASE vmm_init
  BY <1>1, vmm_initInv
<1>2. CASE vesa_init
  BY <1>2, vesa_initInv
<1>3. ASSUME NEW p \in Procs, NEW img \in Images, NEW ok \in BOOLEAN, process_create(p, img, ok)
      PROVE  AddressInv'
  BY <1>3, process_createInv
<1>4. ASSUME NEW p \in Procs, NEW img \in Images, sys_exec(p, img) PROVE AddressInv'
  BY <1>4, sys_execInv
<1>5. ASSUME NEW p \in Procs, process_destroy(p) PROVE AddressInv'
  BY <1>5, process_destroyInv
<1>6. ASSUME NEW p \in Procs, NEW i \in Increments, sys_sbrk(p, i) PROVE AddressInv'
  <2>1. i \in 0 .. AddrBytes - 1
    BY ProgramAssumption
  <2>. QED  BY <1>6, <2>1, sys_sbrkInv
<1>7. ASSUME NEW p \in Procs, NEW c \in MmapCalls, sys_mmap(p, c[1], c[2]) PROVE AddressInv'
  <2>1. c[1] \in 0 .. AddrBytes - 1 /\ c[2] \in 0 .. AddrBytes - 1
    BY ProgramAssumption
  <2>. QED  BY <1>7, <2>1, sys_mmapInv
<1>8. ASSUME NEW p \in Procs, NEW c \in MmapCalls, sys_munmap(p, c[1], c[2])
      PROVE AddressInv'
  <2>1. c[1] \in 0 .. AddrBytes - 1 /\ c[2] \in 0 .. AddrBytes - 1
    BY ProgramAssumption
  <2>. QED  BY <1>8, <2>1, sys_munmapInv
<1>9. CASE UNCHANGED vars
  <2>1. /\ boot' = boot /\ vm' = vm /\ proc' = proc /\ owed' = owed /\ loaded' = loaded
    BY <1>9 DEF vars
  <2>. QED  BY <2>1 DEF AddressInv, ProcInv, Live, Directories, SegmentsLoaded
<1>. QED  BY <1>1, <1>2, <1>3, <1>4, <1>5, <1>6, <1>7, <1>8, <1>9 DEF Next

\* The types of a value of vm, before and after vmm_init.
VmBounds(m) ==
    /\ m.free \subseteq RamFrames
    /\ m.dir \in [DirIndex -> RamFrames \cup {0, NONE}]
    /\ Tabs(m) \subseteq DOMAIN m.tab
    /\ \A f \in DOMAIN m.tab : m.tab[f] \in [TblIndex -> Space \cup {NONE}]

(***************************************************************************)
(* AddressInv holds of mm/vmm.c, vesa_init, process_create, the ELF loader *)
(* and the system calls that map pages, in every reachable state.          *)
(***************************************************************************)
THEOREM AddressSpaceCorrect == Spec => []AddressInv
<1>1. Init => AddressInv
  BY InitInv
<1>2. AddressInv /\ [Next]_vars => AddressInv'
  BY NextInv
<1>. QED  BY <1>1, <1>2, PTL DEF Spec

(***************************************************************************)
(* The page directory and its tables (mm/vmm.c) hold page numbers only, the*)
(* free map RAM only and every break is an address, however addresses wrap.*)
(***************************************************************************)
THEOREM AddressTypeCorrect == Spec => []TypeOK
<1>1. AddressInv => TypeOK
  <2> SUFFICES ASSUME AddressInv PROVE TypeOK
    OBVIOUS
  <2>1. /\ VmBounds(vm)
        /\ \A p \in Live : proc[p].brk \in 0 .. AddrBytes - 1
        /\ owed \subseteq Space
    <3>1. VmBounds(vm)
      <4>1. CASE boot = "vmm"
        BY <4>1, FramesAre DEF AddressInv, Start, VmBounds, Tabs
      <4>2. CASE boot # "vmm"
        BY <4>2 DEF AddressInv, VmInv, VmType, VmBounds
      <4>. QED  BY <4>1, <4>2
    <3>. QED  BY <3>1 DEF AddressInv, ProcInv, ProcOk
  <2>2. DOMAIN vm.dir = DirIndex
    BY <2>1 DEF VmBounds
  <2>3. TableFrames = Tabs(vm)
    BY <2>2 DEF TableFrames, Tabs, Range
  <2>. QED  BY <2>1, <2>3 DEF TypeOK, VmBounds, RamFrames, DirIndex, TblIndex
<1>. QED  BY <1>1, AddressSpaceCorrect, PTL

(***************************************************************************)
(* No frame is the page table of two directory entries, the page of two    *)
(* user addresses, a table and a page at once, or free while it is used,   *)
(* whatever process_create, exec, sbrk, mmap and munmap map over each      *)
(* other, unless vmm_map_page (mm/vmm.c) has found no page for a table.    *)
(***************************************************************************)
THEOREM FramesHaveOneUseAlways == Spec => []FramesHaveOneUse
<1>1. AddressInv => FramesHaveOneUse
  <2> SUFFICES ASSUME AddressInv, boot # "vmm", ~vm.noTable
               PROVE  /\ \A i, j \in DOMAIN vm.dir :
                           vm.dir[i] = vm.dir[j] => i = j \/ vm.dir[i] = NONE
                      /\ \A v, w \in {u \in UserPages : Mapped(vm, u)} :
                           vmm_get_phys(vm, v) = vmm_get_phys(vm, w) => v = w
                      /\ \A v \in {u \in UserPages : Mapped(vm, u)} :
                           vmm_get_phys(vm, v) \notin TableFrames \cup {vm.pd} \cup {proc[p].dir : p \in Live}
                      /\ vm.free \cap ({vmm_get_phys(vm, v) : v \in {u \in UserPages : Mapped(vm, u)}}
                            \cup (TableFrames \cup {vm.pd} \cup {proc[p].dir : p \in Live})) = {}
    BY DEF FramesHaveOneUse
  <2>1. One(vm, Directories) /\ DOMAIN vm.dir = DirIndex
    BY DEF AddressInv, VmInv, VmType
  <2>2. TableFrames = Tabs(vm)
    BY <2>1 DEF TableFrames, Tabs, Range
  <2>. QED  BY <2>1, <2>2 DEF One, Directories
<1>. QED  BY <1>1, AddressSpaceCorrect, PTL

(***************************************************************************)
(* The pages that process_create, exec, sbrk and mmap have promised are    *)
(* there while memory suffices, and the kernel is lost only when the frames*)
(* below 4 MB have run out or a call has unmapped or covered one of the    *)
(* kernel's own pages.                                                     *)
(***************************************************************************)
THEOREM PromisedPagesAlwaysMapped == Spec => []PromisedPagesMapped
<1>1. AddressInv => PromisedPagesMapped
  <2> SUFFICES ASSUME AddressInv PROVE PromisedPagesMapped
    OBVIOUS
  <2>1. vm.panic => vm.free \cap Kernel = {} \/ Moved(vm)
    BY DEF AddressInv, VmInv, Start, PanicInv
  <2>. QED  BY <2>1 DEF AddressInv, Promised, Moved, PromisedPagesMapped
<1>. QED  BY <1>1, AddressSpaceCorrect, PTL

(***************************************************************************)
(* When elf_load_segments succeeds, every page of every segment holds the  *)
(* contents of that segment, but for the pages a later segment maps afresh.*)
(***************************************************************************)
THEOREM SegmentsAlwaysLoaded == Spec => []SegmentsLoaded
<1>1. AddressInv => SegmentsLoaded
  BY DEF AddressInv
<1>. QED  BY <1>1, AddressSpaceCorrect, PTL
=============================================================================
