---------------------------- MODULE Files_proofs ----------------------------
(***************************************************************************)
(* Proofs about the file systems, for every number of slots, every size of *)
(* a file, every width of the offsets and any modules that mount nodes.    *)
(***************************************************************************)
EXTENDS Files, FiniteSetTheorems, SequenceTheorems, FunctionTheorems,
        WellFoundedInduction, TLAPS

\* A nonempty set of naturals has a least element, which is its Min.
LEMMA LeastElement ==
  ASSUME NEW S \in SUBSET Nat, S # {}
  PROVE  Min(S) \in S /\ \A y \in S : Min(S) <= y
<1>1. PICK x \in S : \A y \in S : ~ (<<y, x>> \in OpToRel(<, Nat))
  BY NatLessThanWellFounded, WFMin, S # {}
<1>2. \A y \in S : ~ (y < x)
  BY <1>1 DEF OpToRel
<1>3. \E z \in S : \A y \in S : z <= y
  BY <1>2
<1>. QED  BY <1>3 DEF Min

LEMMA MinMaxOfTwo ==
  ASSUME NEW a \in Nat, NEW b \in Nat
  PROVE  /\ Min({a, b}) = IF a <= b THEN a ELSE b
         /\ Max({a, b}) = IF a <= b THEN b ELSE a
<1>1. Min({a, b}) \in {a, b} /\ Min({a, b}) <= a /\ Min({a, b}) <= b
  BY LeastElement
<1>2. \E x \in {a, b} : \A y \in {a, b} : x >= y
  <2>1. CASE a <= b
    <3>1. \A y \in {a, b} : b >= y
      BY <2>1
    <3>. QED  BY <3>1
  <2>2. CASE ~(a <= b)
    <3>1. \A y \in {a, b} : a >= y
      BY <2>2
    <3>. QED  BY <3>1
  <2>. QED  BY <2>1, <2>2
<1>3. Max({a, b}) \in {a, b} /\ \A y \in {a, b} : Max({a, b}) >= y
  BY <1>2 DEF Max
<1>. QED  BY <1>1, <1>3

\* The part of a sequence of steps that induction needs: a set of naturals that
\* has 1 and with every number its successor has all numbers up to a bound.
LEMMA UpTo ==
  ASSUME NEW n \in Nat, NEW first \in Nat, NEW S,
         first \in S, \A i \in first .. n : i \in S /\ i < n => i + 1 \in S
  PROVE  first .. n \subseteq S
<1> DEFINE Bad == {i \in first .. n : i \notin S}
<1> SUFFICES ASSUME Bad # {} PROVE FALSE
  OBVIOUS
<1>1. Min(Bad) \in Bad /\ \A y \in Bad : Min(Bad) <= y
  <2>1. Bad \in SUBSET Nat
    OBVIOUS
  <2> HIDE DEF Bad
  <2>. QED  BY <2>1, LeastElement
<1>2. PICK i \in first .. n : i \notin S /\ \A y \in Bad : i <= y
  BY <1>1
<1>3. i # first
  BY <1>2
<1>4. i - 1 \in first .. n /\ i - 1 < n /\ i - 1 + 1 = i /\ ~(i <= i - 1)
  BY <1>2, <1>3
<1>5. i - 1 \in S
  BY <1>2, <1>4
<1>. QED  BY <1>2, <1>4, <1>5

----------------------------------------------------------------------------
(***************************************************************************)
(* The walk along a list of children and the walk along a path are the     *)
(* functions that their recursions describe.                               *)
(***************************************************************************)
LinksFrom(d, n, w) ==
    w = [i \in 1 .. n |-> IF i = 1 THEN child[d]
                          ELSE IF w[i - 1] = NULL THEN NULL ELSE sib[w[i - 1]]]

LEMMA LinksExist ==
  ASSUME NEW d, NEW n \in Nat
  PROVE  \E w : LinksFrom(d, n, w)
<1> DEFINE S == {k \in 0 .. n : \E w : LinksFrom(d, k, w)}
<1>1. 0 \in S
  <2>1. LinksFrom(d, 0, [i \in 1 .. 0 |-> NULL])
    BY DEF LinksFrom
  <2>. QED  BY <2>1
<1>2. ASSUME NEW k \in 0 .. n, k \in S, k < n PROVE k + 1 \in S
  <2>1. PICK w : LinksFrom(d, k, w)
    BY <1>2
  <2> DEFINE last == IF k = 0 THEN child[d] ELSE IF w[k] = NULL THEN NULL ELSE sib[w[k]]
             v == [i \in 1 .. k + 1 |-> IF i = k + 1 THEN last ELSE w[i]]
  <2>2. ASSUME NEW i \in 1 .. k + 1
        PROVE  v[i] = IF i = 1 THEN child[d]
                      ELSE IF v[i - 1] = NULL THEN NULL ELSE sib[v[i - 1]]
    <3>1. CASE i = k + 1
      <4>1. i # 1 => k # 0 /\ i - 1 = k /\ k \in 1 .. k + 1 /\ v[k] = w[k]
        BY <1>2, <3>1
      <4>2. v[i] = last
        BY <3>1
      <4> HIDE DEF v
      <4>. QED  BY <3>1, <4>1, <4>2
    <3>2. CASE i # k + 1
      <4>1. i \in 1 .. k /\ v[i] = w[i] /\ (i # 1 => i - 1 \in 1 .. k + 1 /\ v[i - 1] = w[i - 1])
        BY <1>2, <3>2
      <4>2. w[i] = IF i = 1 THEN child[d]
                   ELSE IF w[i - 1] = NULL THEN NULL ELSE sib[w[i - 1]]
        BY <2>1, <4>1 DEF LinksFrom
      <4> HIDE DEF v
      <4>. QED  BY <4>1, <4>2
    <3>. QED  BY <3>1, <3>2
  <2>3. LinksFrom(d, k + 1, v)
    BY <2>2 DEF LinksFrom
  <2>. QED  BY <1>2, <2>3
<1>3. 0 .. n \subseteq S
  <2> HIDE DEF S
  <2>. QED  BY <1>1, <1>2, UpTo
<1>. QED  BY <1>3

Last1 == Cardinality(Dirs) + 1

LEMMA DirsFinite == IsFiniteSet(Dirs) /\ Cardinality(Dirs) \in Nat /\ Last1 \in Nat \ {0}
<1>1. IsFiniteSet({ROOT}) /\ IsFiniteSet({RAM}) /\ IsFiniteSet({PROC})
  BY FS_Singleton
<1>2. IsFiniteSet({ROOT} \cup {RAM}) /\ IsFiniteSet(({ROOT} \cup {RAM}) \cup {PROC})
  BY <1>1, FS_Union
<1>3. IsFiniteSet((({ROOT} \cup {RAM}) \cup {PROC}) \cup ModNodes)
  BY <1>2, FS_Union, FilesAssumption
<1>4. Dirs = (({ROOT} \cup {RAM}) \cup {PROC}) \cup ModNodes
  BY DEF Dirs
<1>5. IsFiniteSet(Dirs)
  BY <1>3, <1>4
<1>6. Cardinality(Dirs) \in Nat
  BY <1>5, FS_CardinalityType
<1>. QED  BY <1>5, <1>6 DEF Last1

LEMMA WalkIs ==
  ASSUME NEW d
  PROVE  /\ DOMAIN Walk(d) = 1 .. Last1
         /\ \A i \in 1 .. Last1 :
               Walk(d)[i] = IF i = 1 THEN child[d]
                            ELSE IF Walk(d)[i - 1] = NULL THEN NULL ELSE sib[Walk(d)[i - 1]]
<1> DEFINE w == Walk(d)
<1>1. LinksFrom(d, Last1, w)
  <2>1. \E v : LinksFrom(d, Last1, v)
    BY DirsFinite, LinksExist
  <2>. QED  BY <2>1 DEF Walk, LinksFrom, Last1
<1> HIDE DEF w
<1>2. w = [i \in 1 .. Last1 |-> IF i = 1 THEN child[d]
                               ELSE IF w[i - 1] = NULL THEN NULL ELSE sib[w[i - 1]]]
  BY <1>1 DEF LinksFrom
<1>3. DOMAIN w = 1 .. Last1
  BY <1>2, Zenon
<1>4. \A i \in 1 .. Last1 :
         w[i] = IF i = 1 THEN child[d] ELSE IF w[i - 1] = NULL THEN NULL ELSE sib[w[i - 1]]
  BY <1>2, Zenon
<1>. QED  BY <1>3, <1>4 DEF w

\* Every node on the walk is a directory.
LEMMA WalkTyped ==
  ASSUME child \in [Dirs -> Dirs \cup {NULL}], sib \in [Dirs -> Dirs \cup {NULL}],
         NEW d \in Dirs
  PROVE  \A i \in 1 .. Last1 : Walk(d)[i] \in Dirs \cup {NULL}
<1> DEFINE S == {i \in 1 .. Last1 : Walk(d)[i] \in Dirs \cup {NULL}}
<1>0. Last1 \in Nat \ {0}
  BY DirsFinite
<1>1. 1 \in S
  BY <1>0, WalkIs
<1>2. ASSUME NEW i \in 1 .. Last1, i \in S, i < Last1 PROVE i + 1 \in S
  <2>1. i + 1 \in 1 .. Last1 /\ i + 1 # 1 /\ i + 1 - 1 = i
    BY <1>0, <1>2
  <2>2. Walk(d)[i + 1] = IF Walk(d)[i] = NULL THEN NULL ELSE sib[Walk(d)[i]]
    BY <2>1, WalkIs
  <2>. QED  BY <1>2, <2>1, <2>2
<1> HIDE DEF S
<1>3. 1 .. Last1 \subseteq S
  BY <1>0, <1>1, <1>2, UpTo
<1>. QED  BY <1>3 DEF S

----------------------------------------------------------------------------
(***************************************************************************)
(* The table of files.  In a sound table no two files share a name, and    *)
(* the node of a file has the name and the size of the file.               *)
(***************************************************************************)
Contained == [0 .. RAMFS_MAX_DATA - 1 -> Bytes]
Entry == [used : BOOLEAN, size : 0 .. RAMFS_MAX_DATA, name : Names \cup {NULL},
          data : Contained, nsize : 0 .. RAMFS_MAX_DATA, nname : Names \cup {NULL}]

Sound(fs) ==
    /\ fs \in [Slots -> Entry]
    /\ \A i \in Slots : fs[i].used =>
          fs[i].name \in Names /\ fs[i].nname = fs[i].name /\ fs[i].nsize = fs[i].size
    /\ \A i, j \in Slots :
          fs[i].used /\ fs[j].used /\ fs[i].name = fs[j].name => i = j

\* A file that is in use stays so under its name.
Keeps(fs, new) ==
    \A i \in Slots : fs[i].used => new[i].used /\ new[i].name = fs[i].name

LEMMA SlotsAreNats == Slots \in SUBSET Nat /\ NULL \notin Slots /\ HUNG \notin Slots
BY FilesAssumption DEF Slots, Nodes

LEMMA FindIs ==
  ASSUME NEW fs, NEW n
  PROVE  \/ /\ find(fs, n) = NULL
            /\ \A i \in Slots : ~(fs[i].used /\ fs[i].name = n)
         \/ /\ find(fs, n) \in Slots
            /\ fs[find(fs, n)].used /\ fs[find(fs, n)].name = n
<1> DEFINE hits == {i \in Slots : fs[i].used /\ fs[i].name = n}
<1>1. CASE hits = {}
  BY <1>1 DEF find
<1>2. CASE hits # {}
  <2>1. hits \in SUBSET Nat
    BY SlotsAreNats
  <2>2. Min(hits) \in hits
    <3> HIDE DEF hits
    <3>. QED  BY <1>2, <2>1, LeastElement
  <2>3. find(fs, n) = Min(hits)
    BY <1>2 DEF find
  <2>. QED  BY <2>2, <2>3
<1>. QED  BY <1>1, <1>2

\* In a sound table the file with a name is found by it.
LEMMA FindFinds ==
  ASSUME NEW fs, Sound(fs), NEW i \in Slots, fs[i].used
  PROVE  find(fs, fs[i].name) = i
BY FindIs, SlotsAreNats DEF Sound

(***************************************************************************)
(* ramfs_create takes an unused slot for a new name, and is without effect *)
(* for a name that is there or when every slot is used.                    *)
(***************************************************************************)
LEMMA CreatedIs ==
  ASSUME NEW fs, Sound(fs), NEW n \in Names
  PROVE  \/ /\ Created(fs, n) = fs
            /\ find(fs, n) # NULL \/ \A i \in Slots : fs[i].used
         \/ /\ find(fs, n) = NULL
            /\ \E k \in Slots :
                 /\ ~fs[k].used
                 /\ Created(fs, n) \in [Slots -> Entry]
                 /\ \A i \in Slots \ {k} : Created(fs, n)[i] = fs[i]
                 /\ Created(fs, n)[k].used /\ Created(fs, n)[k].name = n
                 /\ Created(fs, n)[k].size = 0 /\ Created(fs, n)[k].nsize = 0
                 /\ Created(fs, n)[k].nname = n
<1> DEFINE free == {i \in Slots : ~fs[i].used}
           k == Min(free)
           e == [fs[k] EXCEPT !.used = TRUE, !.size = 0, !.name = n,
                              !.data[0] = Zero, !.nsize = 0, !.nname = n]
<1>1. CASE find(fs, n) # NULL \/ free = {}
  BY <1>1 DEF Created
<1>2. CASE ~(find(fs, n) # NULL \/ free = {})
  <2>1. k \in Slots /\ ~fs[k].used
    <3>1. free \in SUBSET Nat
      BY SlotsAreNats
    <3>2. k \in free
      <4> HIDE DEF free
      <4>. QED  BY <1>2, <3>1, LeastElement
    <3>. QED  BY <3>2
  <2>2. Created(fs, n) = [fs EXCEPT ![k] = e]
    BY <1>2 DEF Created
  <2> HIDE DEF k, free
  <2>3. fs[k] \in Entry /\ Zero \in Bytes /\ 0 \in 0 .. RAMFS_MAX_DATA
    BY <2>1, FilesAssumption DEF Sound, Bytes
  <2>4. e \in Entry
    <3>1. [fs[k].data EXCEPT ![0] = Zero] \in Contained
      BY <2>3 DEF Entry, Contained
    <3>. QED  BY <2>3, <3>1 DEF Entry
  <2>5. e.used /\ e.name = n /\ e.size = 0 /\ e.nsize = 0 /\ e.nname = n
    BY <2>3 DEF Entry
  <2> HIDE DEF e
  <2>6. /\ Created(fs, n) \in [Slots -> Entry]
        /\ Created(fs, n)[k] = e
        /\ \A i \in Slots \ {k} : Created(fs, n)[i] = fs[i]
    BY <2>1, <2>2, <2>4 DEF Sound
  <2>. QED  BY <1>2, <2>1, <2>5, <2>6
<1>. QED  BY <1>1, <1>2

LEMMA CreatedSound ==
  ASSUME NEW fs, Sound(fs), NEW n \in Names
  PROVE  Sound(Created(fs, n)) /\ Keeps(fs, Created(fs, n))
<1>1. CASE Created(fs, n) = fs
  BY <1>1 DEF Keeps
<1>2. CASE Created(fs, n) # fs
  <2> DEFINE new == Created(fs, n)
  <2>1. /\ find(fs, n) = NULL
        /\ \E k \in Slots :
                 /\ ~fs[k].used
                 /\ new \in [Slots -> Entry]
                 /\ \A i \in Slots \ {k} : new[i] = fs[i]
                 /\ new[k].used /\ new[k].name = n
                 /\ new[k].size = 0 /\ new[k].nsize = 0
                 /\ new[k].nname = n
    BY <1>2, CreatedIs
  <2>2. \A i \in Slots : ~(fs[i].used /\ fs[i].name = n)
    BY <2>1, FindIs, SlotsAreNats
  <2> HIDE DEF new
  <2>3. Sound(new) /\ Keeps(fs, new)
    BY <2>1, <2>2 DEF Sound, Keeps
  <2>. QED  BY <2>3 DEF new
<1>. QED  BY <1>1, <1>2

(***************************************************************************)
(* ramfs_write gives a file that is there new contents, cut off at the     *)
(* size of the array, and touches no other file.                           *)
(***************************************************************************)
Fits(msg) == Min({Len(msg), RAMFS_MAX_DATA})

LEMMA FitsIs ==
  ASSUME NEW msg \in Messages
  PROVE  /\ Fits(msg) = IF Len(msg) <= RAMFS_MAX_DATA THEN Len(msg) ELSE RAMFS_MAX_DATA
         /\ Fits(msg) \in 0 .. RAMFS_MAX_DATA /\ Len(msg) \in Nat
<1>1. Len(msg) \in Nat /\ RAMFS_MAX_DATA \in Nat
  BY FilesAssumption
<1>. QED  BY <1>1, MinMaxOfTwo DEF Fits

LEMMA WrittenIs ==
  ASSUME NEW fs, Sound(fs), NEW n, NEW msg \in Messages
  PROVE  \/ Written(fs, n, msg) = fs /\ find(fs, n) = NULL
         \/ LET i == find(fs, n)
                new == Written(fs, n, msg)
            IN  /\ i \in Slots /\ fs[i].used /\ fs[i].name = n
                /\ new \in [Slots -> Entry]
                /\ \A j \in Slots \ {i} : new[j] = fs[j]
                /\ new[i].used /\ new[i].name = n /\ new[i].nname = fs[i].nname
                /\ new[i].size = Fits(msg) /\ new[i].nsize = Fits(msg)
                /\ \A j \in 0 .. Fits(msg) - 1 : new[i].data[j] = msg[j + 1]
<1> DEFINE i == find(fs, n)
           k == Fits(msg)
           d == [j \in DOMAIN fs[i].data |-> IF j < k THEN msg[j + 1] ELSE fs[i].data[j]]
           e == [fs[i] EXCEPT !.size = k, !.nsize = k, !.data = d]
<1>1. CASE i = NULL
  BY <1>1 DEF Written
<1>2. CASE i # NULL
  <2>1. i \in Slots /\ fs[i].used /\ fs[i].name = n
    BY <1>2, FindIs
  <2>2. Written(fs, n, msg) = [fs EXCEPT ![i] = e]
    BY <1>2 DEF Written, Fits
  <2> HIDE DEF i
  <2>3. fs[i] \in Entry
    BY <2>1 DEF Sound
  <2>4. /\ k \in 0 .. RAMFS_MAX_DATA /\ RAMFS_MAX_DATA \in Nat
        /\ \A j \in 0 .. k - 1 : j + 1 \in 1 .. Len(msg)
        /\ msg \in Seq(Bytes)
    BY FitsIs, FilesAssumption
  <2> HIDE DEF k
  <2>5. d \in Contained /\ \A j \in 0 .. k - 1 : d[j] = msg[j + 1]
    <3>1. fs[i].data \in Contained /\ DOMAIN fs[i].data = 0 .. RAMFS_MAX_DATA - 1
      BY <2>3 DEF Entry, Contained
    <3>2. \A j \in 0 .. RAMFS_MAX_DATA - 1 :
             (IF j < k THEN msg[j + 1] ELSE fs[i].data[j]) \in Bytes
      BY <2>4, <3>1 DEF Contained
    <3>3. \A j \in 0 .. k - 1 : j \in 0 .. RAMFS_MAX_DATA - 1 /\ j < k
      BY <2>4
    <3>. QED  BY <3>1, <3>2, <3>3 DEF Contained
  <2>6. /\ e \in Entry /\ e.used = fs[i].used /\ e.name = fs[i].name
        /\ e.nname = fs[i].nname /\ e.size = k /\ e.nsize = k /\ e.data = d
    <3> HIDE DEF d
    <3>. QED  BY <2>3, <2>4, <2>5 DEF Entry
  <2> HIDE DEF e, d
  <2>7. /\ Written(fs, n, msg) \in [Slots -> Entry]
        /\ Written(fs, n, msg)[i] = e
        /\ \A j \in Slots \ {i} : Written(fs, n, msg)[j] = fs[j]
    BY <2>1, <2>2, <2>6 DEF Sound
  <2>. QED  BY <2>1, <2>5, <2>6, <2>7 DEF i, k
<1>. QED  BY <1>1, <1>2

LEMMA WrittenSound ==
  ASSUME NEW fs, Sound(fs), NEW n, NEW msg \in Messages
  PROVE  Sound(Written(fs, n, msg)) /\ Keeps(fs, Written(fs, n, msg))
<1>1. CASE Written(fs, n, msg) = fs
  BY <1>1 DEF Keeps
<1>2. CASE Written(fs, n, msg) # fs
  <2> DEFINE i == find(fs, n)
             new == Written(fs, n, msg)
  <2>1. /\ i \in Slots /\ fs[i].used /\ fs[i].name = n
        /\ new \in [Slots -> Entry]
        /\ \A j \in Slots \ {i} : new[j] = fs[j]
        /\ new[i].used /\ new[i].name = n /\ new[i].nname = fs[i].nname
        /\ new[i].size = new[i].nsize
    BY <1>2, WrittenIs
  <2> HIDE DEF new, i
  <2>2. Sound(new) /\ Keeps(fs, new)
    BY <2>1 DEF Sound, Keeps
  <2>. QED  BY <2>2 DEF new
<1>. QED  BY <1>1, <1>2

----------------------------------------------------------------------------
(***************************************************************************)
(* The bounds of a copy: a request that does not run to the end of the     *)
(* address space is cut off at the end of what is there, also when offset  *)
(* plus size had wrapped around before it was compared.                    *)
(***************************************************************************)
LEMMA ClampedIs ==
  ASSUME NEW off \in Nat, NEW size \in Nat, NEW end \in Nat, off < end
  PROVE  /\ Clamped(off, size, end) \in Nat
         /\ off + Clamped(off, size, end) < Mod => off + Clamped(off, size, end) <= end
         /\ off + size < Mod => off + Clamped(off, size, end) <= end
<1>1. Mod \in Nat \ {0}
  BY FilesAssumption
<1>2. off + size < Mod => (off + size) % Mod = off + size
  BY <1>1
<1>. QED  BY <1>2 DEF Clamped

\* A copy that ends within its array is no overrun.
LEMMA CopyIs ==
  ASSUME NEW base \in Nat, NEW off \in Nat, NEW n \in Nat, NEW size \in Nat,
         ~overrun, Copy(base, off, n, size), off + size < Mod => off + n <= base
  PROVE  ~overrun'
<1>1. Mod \in Nat
  BY FilesAssumption
<1>2. ~(off + n > base /\ off + size < Mod)
  BY <1>1
<1>. QED  BY <1>2, Zenon DEF Copy

\* The write of a module: k bytes of slot i become b.
Patched(fs, new, i, off, k, b) ==
    /\ off + k <= RAMFS_MAX_DATA
    /\ new \in [Slots -> Entry]
    /\ \A j \in Slots \ {i} : new[j] = fs[j]
    /\ new[i].used /\ new[i].name = fs[i].name /\ new[i].nname = fs[i].nname
    /\ new[i].size = IF off + k > fs[i].size THEN off + k ELSE fs[i].size
    /\ new[i].nsize = IF off + k > fs[i].size THEN off + k ELSE fs[i].nsize
    /\ \A j \in 0 .. RAMFS_MAX_DATA - 1 :
          new[i].data[j] = IF j \in off .. off + k - 1 THEN b ELSE fs[i].data[j]

LEMMA PatchIs ==
  ASSUME Sound(file), NEW i, NEW off \in 0 .. RAMFS_MAX_DATA, NEW size \in Nat,
         NEW b \in Chars, ramfs_vfs_write(i, off, size, b)
  PROVE  /\ i \in Slots /\ file[i].used
         /\ file' = file \/ \E k \in 0 .. RAMFS_MAX_DATA : Patched(file, file', i, off, k, b)
<1> DEFINE k == Clamped(off, size, RAMFS_MAX_DATA)
           old == file[i]
           d == [j \in DOMAIN old.data |-> IF j \in off .. off + k - 1 THEN b ELSE old.data[j]]
           longer == off + k > old.size
           e == [old EXCEPT !.data = d,
                            !.size = IF longer THEN off + k ELSE old.size,
                            !.nsize = IF longer THEN off + k ELSE old.nsize]
<1>1. /\ i \in Slots /\ file[i].used /\ off < RAMFS_MAX_DATA
      /\ file' = IF off + k >= Mod THEN file ELSE [file EXCEPT ![i] = e]
  BY DEF ramfs_vfs_write
<1>2. CASE off + k >= Mod
  BY <1>1, <1>2
<1>3. CASE ~(off + k >= Mod)
  <2>1. /\ RAMFS_MAX_DATA \in Nat /\ Mod \in Nat /\ k \in Nat /\ off \in Nat
        /\ off + k <= RAMFS_MAX_DATA /\ k \in 0 .. RAMFS_MAX_DATA
        /\ off + k \in 0 .. RAMFS_MAX_DATA
    <3>1. RAMFS_MAX_DATA \in Nat /\ Mod \in Nat /\ off \in Nat
      BY FilesAssumption
    <3>2. k \in Nat /\ (off + k < Mod => off + k <= RAMFS_MAX_DATA)
      BY <1>1, <3>1, ClampedIs
    <3> HIDE DEF k
    <3>. QED  BY <1>3, <3>1, <3>2
  <2> HIDE DEF k
  <2>2. old \in Entry
    BY <1>1 DEF Sound
  <2>3. d \in Contained /\ \A j \in 0 .. RAMFS_MAX_DATA - 1 :
                      d[j] = IF j \in off .. off + k - 1 THEN b ELSE old.data[j]
    <3>1. old.data \in Contained /\ b \in Bytes
      BY <2>2 DEF Entry, Bytes
    <3> HIDE DEF old
    <3>. QED  BY <3>1 DEF Contained
  <2> HIDE DEF old, d
  <2>4. /\ e \in Entry /\ e.used = old.used /\ e.name = old.name /\ e.nname = old.nname
        /\ e.data = d
        /\ e.size = IF longer THEN off + k ELSE old.size
        /\ e.nsize = IF longer THEN off + k ELSE old.nsize
    <3>1. (IF longer THEN off + k ELSE old.size) \in 0 .. RAMFS_MAX_DATA
      BY <2>1, <2>2 DEF Entry
    <3>2. (IF longer THEN off + k ELSE old.nsize) \in 0 .. RAMFS_MAX_DATA
      BY <2>1, <2>2 DEF Entry
    <3> HIDE DEF longer
    <3>. QED  BY <2>2, <2>3, <3>1, <3>2 DEF Entry
  <2> HIDE DEF e
  <2>5. /\ file' \in [Slots -> Entry] /\ file'[i] = e
        /\ \A j \in Slots \ {i} : file'[j] = file[j]
    BY <1>1, <1>3, <2>4 DEF Sound
  <2>6. Patched(file, file', i, off, k, b)
    BY <1>1, <2>1, <2>3, <2>4, <2>5 DEF old, Patched
  <2>. QED  BY <1>1, <2>1, <2>6
<1>. QED  BY <1>1, <1>2, <1>3

\* ramfs_delete leaves the name in the node and everything in other slots.
LEMMA DeleteIs ==
  ASSUME Sound(file), NEW path, vfs_delete(path)
  PROVE  \E i \in Slots :
            /\ i = ramfs_find(Last(path)) /\ file[i].used /\ file[i].name = Last(path)
            /\ file' \in [Slots -> Entry]
            /\ \A j \in Slots \ {i} : file'[j] = file[j]
            /\ ~file'[i].used
            /\ stale' = (stale \/ handle = i)
<1> DEFINE i == ramfs_find(Last(path))
           e == [file[i] EXCEPT !.used = FALSE, !.size = 0, !.name = NULL]
<1>1. /\ i # NULL /\ file' = [file EXCEPT ![i] = e]
      /\ stale' = (stale \/ handle = i)
  BY DEF vfs_delete
<1>2. i \in Slots /\ file[i].used /\ file[i].name = Last(path)
  BY <1>1, FindIs DEF ramfs_find
<1> HIDE DEF i
<1>3. file[i] \in Entry /\ 0 \in 0 .. RAMFS_MAX_DATA
  BY <1>2, FilesAssumption DEF Sound
<1>4. e \in Entry /\ ~e.used
  BY <1>3 DEF Entry
<1> HIDE DEF e
<1>5. /\ file' \in [Slots -> Entry] /\ file'[i] = e
      /\ \A j \in Slots \ {i} : file'[j] = file[j]
  BY <1>1, <1>2, <1>4 DEF Sound
<1>6. \E j \in Slots : j = i
  BY <1>2
<1>. QED  BY <1>1, <1>2, <1>4, <1>5, <1>6 DEF i

----------------------------------------------------------------------------
(***************************************************************************)
(* The walk along a path.                                                  *)
(***************************************************************************)
NextNode(x, n) == IF x = HUNG THEN HUNG ELSE IF x \in Dirs THEN vfs_finddir(x, n) ELSE NULL

NodesOn(path, n, w) ==
    w = [i \in 0 .. n |-> IF i = 0 THEN root ELSE NextNode(w[i - 1], path[i])]

LEMMA NodesExist ==
  ASSUME NEW path, NEW n \in Nat
  PROVE  \E w : NodesOn(path, n, w)
<1> DEFINE S == {k \in 0 .. n : \E w : NodesOn(path, k, w)}
<1>1. 0 \in S
  <2>1. NodesOn(path, 0, [i \in 0 .. 0 |-> root])
    BY DEF NodesOn
  <2>. QED  BY <2>1
<1>2. ASSUME NEW k \in 0 .. n, k \in S, k < n PROVE k + 1 \in S
  <2>1. PICK w : NodesOn(path, k, w)
    BY <1>2
  <2> DEFINE v == [i \in 0 .. k + 1 |-> IF i = k + 1 THEN NextNode(w[k], path[i]) ELSE w[i]]
  <2>2. ASSUME NEW i \in 0 .. k + 1
        PROVE  v[i] = IF i = 0 THEN root ELSE NextNode(v[i - 1], path[i])
    <3>1. CASE i = k + 1
      <4>1. i # 0 /\ i - 1 = k /\ k \in 0 .. k + 1 /\ k # k + 1 /\ v[k] = w[k]
        BY <1>2, <3>1
      <4>2. v[i] = NextNode(w[k], path[i])
        BY <3>1
      <4> HIDE DEF v
      <4>. QED  BY <4>1, <4>2
    <3>2. CASE i # k + 1
      <4>1. i \in 0 .. k /\ v[i] = w[i] /\ (i # 0 => i - 1 \in 0 .. k + 1 /\ v[i - 1] = w[i - 1])
        BY <1>2, <3>2
      <4>2. w[i] = IF i = 0 THEN root ELSE NextNode(w[i - 1], path[i])
        BY <2>1, <4>1 DEF NodesOn
      <4> HIDE DEF v
      <4>. QED  BY <4>1, <4>2
    <3>. QED  BY <3>1, <3>2
  <2>3. NodesOn(path, k + 1, v)
    BY <2>2 DEF NodesOn
  <2>. QED  BY <1>2, <2>3
<1>3. 0 .. n \subseteq S
  <2> HIDE DEF S
  <2>. QED  BY <1>1, <1>2, UpTo
<1>. QED  BY <1>3

LEMMA LookupIs ==
  ASSUME NEW path, Len(path) \in Nat
  PROVE  \E node :
            /\ node[0] = root
            /\ \A i \in 1 .. Len(path) : node[i] = NextNode(node[i - 1], path[i])
            /\ vfs_lookup_path(path) = node[Len(path)]
<1> DEFINE n == Len(path)
           node == CHOOSE w : NodesOn(path, n, w)
<1>1. NodesOn(path, n, node)
  BY NodesExist
<1>2. vfs_lookup_path(path) = node[n]
  BY DEF vfs_lookup_path, NodesOn, NextNode
<1> HIDE DEF node
<1>3. \A i \in 0 .. n : node[i] = IF i = 0 THEN root ELSE NextNode(node[i - 1], path[i])
  <2>1. node = [i \in 0 .. n |-> IF i = 0 THEN root ELSE NextNode(node[i - 1], path[i])]
    BY <1>1 DEF NodesOn
  <2>. QED  BY <2>1, Zenon
<1>4. 0 \in 0 .. n /\ \A i \in 1 .. n : i \in 0 .. n /\ i # 0
  OBVIOUS
<1>5. node[0] = root /\ \A i \in 1 .. n : node[i] = NextNode(node[i - 1], path[i])
  BY <1>3, <1>4
<1>. QED  BY <1>2, <1>5

LEMMA LookupShort ==
  ASSUME root \in Dirs, NEW a, NEW b
  PROVE  /\ vfs_lookup_path(<<a>>) = vfs_finddir(root, a)
         /\ vfs_lookup_path(<<a, b>>) = NextNode(vfs_finddir(root, a), b)
<1>1. root # HUNG
  BY FilesAssumption DEF Nodes
<1>2. vfs_lookup_path(<<a>>) = vfs_finddir(root, a)
  <2> DEFINE path == <<a>>
  <2>1. Len(path) = 1 /\ path[1] = a
    OBVIOUS
  <2> HIDE DEF path
  <2>2. PICK node : /\ node[0] = root
                    /\ \A i \in 1 .. 1 : node[i] = NextNode(node[i - 1], path[i])
                    /\ vfs_lookup_path(path) = node[1]
    <3>1. Len(path) \in Nat
      BY <2>1
    <3>. QED  BY <2>1, <3>1, LookupIs
  <2>3. node[1] = NextNode(node[0], a)
    BY <2>1, <2>2
  <2>4. vfs_lookup_path(path) = vfs_finddir(root, a)
    BY <1>1, <2>2, <2>3 DEF NextNode
  <2>. QED  BY <2>4 DEF path
<1>3. vfs_lookup_path(<<a, b>>) = NextNode(vfs_finddir(root, a), b)
  <2> DEFINE path == <<a, b>>
  <2>1. Len(path) = 2 /\ path[1] = a /\ path[2] = b
    OBVIOUS
  <2> HIDE DEF path
  <2>2. PICK node : /\ node[0] = root
                    /\ \A i \in 1 .. 2 : node[i] = NextNode(node[i - 1], path[i])
                    /\ vfs_lookup_path(path) = node[2]
    <3>1. Len(path) \in Nat
      BY <2>1
    <3>. QED  BY <2>1, <3>1, LookupIs
  <2>3. node[1] = NextNode(node[0], a) /\ node[2] = NextNode(node[1], b)
    BY <2>1, <2>2
  <2>4. node[1] = vfs_finddir(root, a)
    BY <1>1, <2>2, <2>3 DEF NextNode
  <2>5. vfs_lookup_path(path) = NextNode(vfs_finddir(root, a), b)
    BY <2>2, <2>3, <2>4
  <2>. QED  BY <2>5 DEF path
<1>. QED  BY <1>2, <1>3

----------------------------------------------------------------------------
(***************************************************************************)
(* The types of the tree, and what a lookup can answer: a slot only as the *)
(* file in /ram that has the last name of the path.                        *)
(***************************************************************************)
TreeTypes ==
    /\ root \in Dirs /\ DOMAIN name = Dirs
    /\ child \in [Dirs -> Dirs \cup {NULL}] /\ sib \in [Dirs -> Dirs \cup {NULL}]
    /\ mounts \in [Dirs -> Nat]

LEMMA FinddirIs ==
  ASSUME TreeTypes, NEW d \in Dirs, NEW n
  PROVE  /\ d = RAM => vfs_finddir(d, n) = ramfs_find(n)
         /\ d # RAM => vfs_finddir(d, n) \notin Slots
<1>1. ROOT \in Dirs /\ ROOT # RAM /\ ROOT # PROC /\ RAM # PROC
  BY FilesAssumption DEF Dirs
<1>2. CASE d = RAM
  BY <1>1, <1>2 DEF vfs_finddir
<1>3. CASE d = ROOT
  <2> DEFINE w == Walk(d)
             hits == {i \in DOMAIN w : w[i] # NULL /\ name[w[i]] = n}
  <2>1. vfs_finddir(d, n) = vfs_root_finddir(d, n)
    BY <1>1, <1>3 DEF vfs_finddir
  <2>2. CASE hits = {}
    <3>1. vfs_root_finddir(d, n) \in {HUNG, NULL}
      BY <2>2 DEF vfs_root_finddir
    <3>. QED  BY <1>1, <1>3, <2>1, <3>1, SlotsAreNats
  <2>3. CASE hits # {}
    <3>1. vfs_root_finddir(d, n) = w[Min(hits)]
      BY <2>3 DEF vfs_root_finddir
    <3>2. DOMAIN w = 1 .. Last1 /\ \A i \in 1 .. Last1 : w[i] \in Dirs \cup {NULL}
      BY WalkIs, WalkTyped DEF TreeTypes
    <3>3. Min(hits) \in hits
      <4>1. hits \in SUBSET Nat
        BY <3>2, DirsFinite
      <4> HIDE DEF hits
      <4>. QED  BY <2>3, <4>1, LeastElement
    <3>4. w[Min(hits)] \in Dirs
      BY <3>2, <3>3
    <3>. QED  BY <1>1, <1>3, <2>1, <3>1, <3>4, FilesAssumption
  <2>. QED  BY <2>2, <2>3
<1>4. CASE d = PROC
  <2>1. vfs_finddir(d, n) = procfs_vfs_finddir(n)
    BY <1>1, <1>4 DEF vfs_finddir
  <2>. QED  BY <1>1, <1>4, <2>1, SlotsAreNats, FilesAssumption DEF procfs_vfs_finddir
<1>5. CASE d \notin {ROOT, RAM, PROC}
  <2>1. vfs_finddir(d, n) = NULL
    BY <1>5 DEF vfs_finddir
  <2>. QED  BY <1>5, <2>1, SlotsAreNats
<1>. QED  BY <1>2, <1>3, <1>4, <1>5

LEMMA LookupSlot ==
  ASSUME TreeTypes, NEW path \in OpenPaths, vfs_lookup_path(path) \in Slots
  PROVE  path # <<>> /\ vfs_lookup_path(path) = ramfs_find(Last(path))
<1> DEFINE n == Len(path)
<1>1. n \in Nat
  BY FilesAssumption
<1>2. PICK node : /\ node[0] = root
                  /\ \A i \in 1 .. n : node[i] = NextNode(node[i - 1], path[i])
                  /\ vfs_lookup_path(path) = node[n]
  BY <1>1, LookupIs
<1>3. n # 0
  BY <1>2, FilesAssumption DEF TreeTypes
<1>4. node[n] = NextNode(node[n - 1], path[n])
  BY <1>1, <1>2, <1>3
<1>5. node[n - 1] \in Dirs /\ node[n] = vfs_finddir(node[n - 1], path[n])
  BY <1>2, <1>4, SlotsAreNats DEF NextNode
<1>6. node[n] = ramfs_find(path[n])
  BY <1>2, <1>5, FinddirIs
<1>7. path # <<>>
  BY <1>3
<1>. QED  BY <1>2, <1>6, <1>7 DEF Last

(***************************************************************************)
(* The inductive invariant of the files: the tree has its types, the table *)
(* is sound, an open handle names its file, and no copy has left its array.*)
(***************************************************************************)
FilesInv == TreeTypes /\ Sound(file) /\ HandleNamesItsFile /\ ~overrun

LEMMA InitFilesInv == Init => FilesInv
<1> SUFFICES ASSUME Init PROVE FilesInv
  OBVIOUS
<1>1. {ROOT, RAM, PROC} \subseteq Dirs /\ NULL \notin Dirs /\ NULL \notin Slots
  BY FilesAssumption DEF Dirs, Nodes
<1>2. TreeTypes
  BY <1>1 DEF Init, TreeTypes
<1>3. NoFile \in Entry /\ ~NoFile.used
  BY FilesAssumption DEF NoFile, Entry, Contained, Bytes
<1>4. Sound(file)
  BY <1>3 DEF Init, Sound
<1>. QED  BY <1>1, <1>2, <1>4 DEF Init, FilesInv, HandleNamesItsFile

LEMMA NextFilesInv == FilesInv /\ [Next]_vars => FilesInv'
<1> SUFFICES ASSUME FilesInv, [Next]_vars PROVE FilesInv'
  OBVIOUS
<1> USE DEF FilesInv
<1>1. ASSUME UNCHANGED tree PROVE TreeTypes'
  BY <1>1 DEF tree, TreeTypes
<1>2. ASSUME UNCHANGED file PROVE Sound(file)'
  BY <1>2 DEF Sound
<1>3. ASSUME Keeps(file, file'), UNCHANGED open PROVE HandleNamesItsFile'
  BY <1>3 DEF Keeps, open, HandleNamesItsFile
<1>4. ASSUME NEW n \in Names, NEW msg \in Messages, Echo(n, msg) PROVE FilesInv'
  <2> DEFINE mid == Created(file, n)
  <2>1. Sound(mid) /\ Keeps(file, mid)
    BY CreatedSound
  <2>2. Sound(Written(mid, n, msg)) /\ Keeps(mid, Written(mid, n, msg))
    BY <2>1, WrittenSound
  <2>3. file' = Written(mid, n, msg)
    BY <1>4 DEF Echo
  <2> HIDE DEF mid
  <2>4. Sound(file)' /\ Keeps(file, file')
    BY <2>1, <2>2, <2>3 DEF Keeps, Sound
  <2>. QED  BY <1>1, <1>3, <1>4, <2>4 DEF Echo
<1>5. ASSUME NEW n \in Plain, vfs_create(<<RAM, n>>) PROVE FilesInv'
  <2>1. file' = Created(file, n)
    BY <1>5 DEF vfs_create, Last
  <2>2. Sound(file)' /\ Keeps(file, file')
    BY <2>1, CreatedSound DEF Names, Sound
  <2>. QED  BY <1>1, <1>3, <1>5, <2>2 DEF vfs_create
<1>6. ASSUME NEW n \in Plain, vfs_delete(<<RAM, n>>) PROVE FilesInv'
  <2>1. PICK i \in Slots :
            /\ file' \in [Slots -> Entry]
            /\ \A j \in Slots \ {i} : file'[j] = file[j]
            /\ ~file'[i].used
            /\ stale' = (stale \/ handle = i)
    BY <1>6, DeleteIs
  <2>2. Sound(file)'
    BY <2>1 DEF Sound
  <2>3. HandleNamesItsFile'
    BY <1>6, <2>1 DEF vfs_delete, HandleNamesItsFile
  <2>. QED  BY <1>1, <1>6, <2>2, <2>3 DEF vfs_delete
<1>7. ASSUME NEW path \in OpenPaths, vfs_open(path) PROVE FilesInv'
  <2>1. CASE vfs_lookup_path(path) = HUNG
    BY <1>1, <1>2, <1>7, <2>1 DEF vfs_open, open, HandleNamesItsFile
  <2>2. CASE vfs_lookup_path(path) # HUNG
    <3> DEFINE node == vfs_lookup_path(path)
    <3>1. /\ handle' = node /\ file' = file /\ UNCHANGED <<tree, overrun>>
          /\ opened' = IF path = <<>> THEN NULL ELSE Last(path)
      BY <1>7, <2>2 DEF vfs_open
    <3>2. node \in Slots => file[node].used /\ path # <<>> /\ file[node].name = Last(path)
      BY LookupSlot, FindIs, SlotsAreNats DEF ramfs_find
    <3> HIDE DEF node
    <3>. QED  BY <1>1, <1>2, <3>1, <3>2 DEF HandleNamesItsFile
  <2>. QED  BY <2>1, <2>2
<1>8. ASSUME vfs_close PROVE FilesInv'
  <2>1. HandleNamesItsFile'
    BY <1>8, SlotsAreNats DEF vfs_close, HandleNamesItsFile
  <2>. QED  BY <1>1, <1>2, <1>8, <2>1 DEF vfs_close
<1>9. ASSUME NEW off \in 0 .. RAMFS_MAX_DATA, NEW size \in Sizes, vfs_read(off, size)
      PROVE  FilesInv'
  <2>0. off \in Nat /\ size \in Nat /\ RAMFS_MAX_DATA \in Nat
    BY FilesAssumption
  <2>1. ~overrun'
    <3>1. ASSUME ramfs_vfs_read(handle, off, size) PROVE ~overrun'
      <4> DEFINE end == file[handle].size
      <4>1. handle \in Slots /\ off < end
            /\ Copy(RAMFS_MAX_DATA, off, Clamped(off, size, end), size)
        BY <3>1 DEF ramfs_vfs_read
      <4>2. end \in 0 .. RAMFS_MAX_DATA
        BY <4>1 DEF Sound, Entry
      <4>3. off + size < Mod => off + Clamped(off, size, end) <= end
        BY <2>0, <4>1, <4>2, ClampedIs
      <4>4. Clamped(off, size, end) \in Nat
        BY <2>0, <4>1, <4>2, ClampedIs
      <4> HIDE DEF end
      <4>. QED  BY <2>0, <4>1, <4>2, <4>3, <4>4, CopyIs
    <3>2. ASSUME NEW len \in ProcLength, procfs_vfs_read(len, off, size) PROVE ~overrun'
      <4>1. len \in Nat
        BY FilesAssumption
      <4>2. CASE off < len
        <5>1. Copy(len, off, Clamped(off, size, len), size)
          BY <3>2, <4>2 DEF procfs_vfs_read
        <5>2. off + size < Mod => off + Clamped(off, size, len) <= len
          BY <2>0, <4>1, <4>2, ClampedIs
        <5>3. Clamped(off, size, len) \in Nat
          BY <2>0, <4>1, <4>2, ClampedIs
        <5>. QED  BY <2>0, <4>1, <5>1, <5>2, <5>3, CopyIs
      <4>. QED  BY <3>2, <4>2 DEF procfs_vfs_read
    <3>. QED  BY <1>9, <3>1, <3>2 DEF vfs_read
  <2>2. UNCHANGED <<tree, file, open>>
    BY <1>9 DEF vfs_read
  <2>. QED  BY <1>1, <1>2, <2>1, <2>2 DEF open, HandleNamesItsFile
<1>10. ASSUME NEW off \in 0 .. RAMFS_MAX_DATA, NEW size \in Sizes, NEW b \in Chars,
              vfs_write(off, size, b)
       PROVE  FilesInv'
  <2>0. off \in Nat /\ size \in Nat /\ RAMFS_MAX_DATA \in Nat
    BY FilesAssumption
  <2>1. ramfs_vfs_write(handle, off, size, b) /\ UNCHANGED <<tree, open>>
    BY <1>10 DEF vfs_write
  <2>2. ~overrun'
    <3> DEFINE k == Clamped(off, size, RAMFS_MAX_DATA)
    <3>1. off < RAMFS_MAX_DATA /\ Copy(RAMFS_MAX_DATA, off, k, size)
      BY <2>1 DEF ramfs_vfs_write
    <3>2. k \in Nat /\ (off + size < Mod => off + k <= RAMFS_MAX_DATA)
      BY <2>0, <3>1, ClampedIs
    <3> HIDE DEF k
    <3>. QED  BY <2>0, <3>1, <3>2, CopyIs
  <2>3. Sound(file)' /\ Keeps(file, file')
    <3>1. CASE file' = file
      BY <3>1, <1>2 DEF Keeps
    <3>2. CASE file' # file
      <4>1. PICK i \in Slots, k \in 0 .. RAMFS_MAX_DATA :
                 file[i].used /\ Patched(file, file', i, off, k, b)
        BY <2>0, <2>1, <3>2, PatchIs
      <4>2. file'[i].nsize = file'[i].size
        BY <4>1 DEF Sound, Patched
      <4>. QED  BY <4>1, <4>2 DEF Sound, Keeps, Patched
    <3>. QED  BY <3>1, <3>2
  <2>. QED  BY <1>1, <1>3, <2>1, <2>2, <2>3
<1>11. ASSUME NEW path \in MountPaths, NEW d \in ModNodes, vfs_mount(path, d)
       PROVE  FilesInv'
  <2>1. UNCHANGED <<file, open, overrun>>
    BY <1>11 DEF vfs_mount
  <2>2. HandleNamesItsFile'
    BY <2>1 DEF open, HandleNamesItsFile
  <2>3. TreeTypes'
    <3>1. d \in Dirs
      BY DEF Dirs
    <3>2. mounts' \in [Dirs -> Nat]
      BY <1>11, <3>1 DEF vfs_mount, TreeTypes
    <3>3. root' \in Dirs /\ DOMAIN name' = Dirs
      BY <1>11, <3>1 DEF vfs_mount, TreeTypes
    <3>4. child' \in [Dirs -> Dirs \cup {NULL}] /\ sib' \in [Dirs -> Dirs \cup {NULL}]
      <4>1. CASE UNCHANGED <<child, sib>>
        BY <4>1 DEF TreeTypes
      <4>2. ASSUME NEW parent \in Dirs, Mounted(d, parent)
            PROVE  child' \in [Dirs -> Dirs \cup {NULL}] /\ sib' \in [Dirs -> Dirs \cup {NULL}]
        BY <3>1, <4>2 DEF Mounted, TreeTypes
      <4>. QED  BY <1>11, <4>1, <4>2 DEF vfs_mount
    <3>. QED  BY <3>2, <3>3, <3>4 DEF TreeTypes
  <2>. QED  BY <1>2, <2>1, <2>2, <2>3
<1>12. CASE UNCHANGED vars
  BY <1>1, <1>2, <1>12 DEF vars, open, HandleNamesItsFile
<1>. QED  BY <1>4, <1>5, <1>6, <1>7, <1>8, <1>9, <1>10, <1>11, <1>12 DEF Next

(***************************************************************************)
(* FilesInv holds in every reachable state: vfs.c, ramfs.c and procfs.c,   *)
(* whatever is mounted, opened, written and deleted, keep the table sound. *)
(***************************************************************************)
THEOREM FilesInvariance == Spec => []FilesInv
BY InitFilesInv, NextFilesInv, PTL DEF Spec

(***************************************************************************)
(* A handle names the file it was opened for until that file is deleted:   *)
(* no create, write or delete of another name moves or renames it.         *)
(***************************************************************************)
THEOREM HandleKeepsFile == Spec => []HandleNamesItsFile
<1>1. FilesInv => HandleNamesItsFile
  BY DEF FilesInv
<1>. QED  BY <1>1, FilesInvariance, PTL

(***************************************************************************)
(* No read or write of a RAM file or a /proc file leaves its array, for    *)
(* any offset and size, unless their sum had wrapped around.               *)
(***************************************************************************)
THEOREM CopiesStayInside == Spec => []CopiesInBounds
<1>1. FilesInv => CopiesInBounds
  BY DEF FilesInv, CopiesInBounds
<1>. QED  BY <1>1, FilesInvariance, PTL

----------------------------------------------------------------------------
(***************************************************************************)
(* The children of the root.  As long as the tree is intact they are a     *)
(* list L with an end, which has /ram and /proc; only mounted nodes are on *)
(* it, so that a node that is mounted for the first time is not.           *)
(***************************************************************************)
Chain(L) ==
    /\ L \in Seq(Dirs) /\ Len(L) \in Nat \ {0}
    /\ \A i, j \in 1 .. Len(L) : L[i] = L[j] => i = j
    /\ \A i \in 1 .. Len(L) : mounts[L[i]] # 0
    /\ child[ROOT] = L[1]
    /\ \A i \in 1 .. Len(L) : sib[L[i]] = IF i = Len(L) THEN NULL ELSE L[i + 1]
    /\ \E i \in 1 .. Len(L) : L[i] = RAM
    /\ \E i \in 1 .. Len(L) : L[i] = PROC

NamesInv ==
    /\ name[ROOT] = NULL /\ name[RAM] = RAM /\ name[PROC] = PROC
    /\ \A d \in ModNodes : mounts[d] = 0 => name[d] = NULL

TreeInv == NamesInv /\ (TreeIntact => \E L : Chain(L))

LEMMA InitTreeInv == Init => TreeInv
<1> SUFFICES ASSUME Init PROVE TreeInv
  OBVIOUS
<1>0. /\ ROOT \in Dirs /\ RAM \in Dirs /\ PROC \in Dirs /\ ModNodes \subseteq Dirs
      /\ ROOT # RAM /\ RAM # PROC /\ PROC # ROOT
      /\ ROOT \notin ModNodes /\ RAM \notin ModNodes /\ PROC \notin ModNodes
  BY FilesAssumption DEF Dirs
<1>1. NamesInv
  BY <1>0 DEF Init, NamesInv
<1>2. Chain(<<PROC, RAM>>)
  <2> DEFINE L == <<PROC, RAM>>
  <2>1. L \in Seq(Dirs) /\ Len(L) = 2 /\ L[1] = PROC /\ L[2] = RAM
    BY <1>0
  <2> HIDE DEF L
  <2>2. child[ROOT] = PROC /\ sib[PROC] = RAM /\ sib[RAM] = NULL
        /\ mounts[RAM] = 1 /\ mounts[PROC] = 1
    BY <1>0 DEF Init
  <2>3. \A i \in 1 .. 2 : i = 1 \/ i = 2
    OBVIOUS
  <2>4. 1 \in 1 .. Len(L) /\ 2 \in 1 .. Len(L)
    BY <2>1
  <2>5. /\ \A i, j \in 1 .. Len(L) : L[i] = L[j] => i = j
        /\ \A i \in 1 .. Len(L) : mounts[L[i]] # 0
        /\ \A i \in 1 .. Len(L) : sib[L[i]] = IF i = Len(L) THEN NULL ELSE L[i + 1]
    BY <1>0, <2>1, <2>2, <2>3
  <2>6. Chain(L)
    BY <2>1, <2>2, <2>4, <2>5 DEF Chain
  <2>. QED  BY <2>6 DEF L
<1>. QED  BY <1>1, <1>2 DEF TreeInv

\* A node in front of the list makes it one longer.
LEMMA ChainPush ==
  ASSUME TreeTypes, NEW L, Chain(L), NEW d \in ModNodes, mounts[d] = 0,
         Mounted(d, ROOT), mounts' = [mounts EXCEPT ![d] = @ + 1]
  PROVE  \E M : Chain(M)'
<1> DEFINE n == Len(L)
           M == <<d>> \o L
<1>1. /\ ROOT \in Dirs /\ d \in Dirs /\ n \in Nat \ {0} /\ L \in Seq(Dirs)
      /\ \A i \in 1 .. n : L[i] \in Dirs /\ L[i] # d
  BY FilesAssumption DEF Dirs, Chain
<1>2. /\ M \in Seq(Dirs) /\ Len(M) = n + 1
      /\ \A i \in 1 .. n + 1 : M[i] = IF i = 1 THEN d ELSE L[i - 1]
  <2>1. <<d>> \in Seq(Dirs)
    BY <1>1
  <2>. QED  BY <1>1, <2>1
<1>3. /\ child'[ROOT] = d /\ sib'[d] = L[1] /\ mounts'[d] # 0
      /\ \A i \in 1 .. n : sib'[L[i]] = sib[L[i]] /\ mounts'[L[i]] = mounts[L[i]]
  BY <1>1 DEF Mounted, TreeTypes, Chain
<1> HIDE DEF M, n
<1>4. \A i \in 1 .. n + 1 : i # 1 => i - 1 \in 1 .. n
  BY <1>1
<1>5. \A i \in 1 .. n : i + 1 \in 1 .. n + 1 /\ M[i + 1] = L[i]
  BY <1>1, <1>2
<1>6. /\ \A i, j \in 1 .. n : L[i] = L[j] => i = j
      /\ \A i \in 1 .. n : mounts[L[i]] # 0
      /\ \A i \in 1 .. n : sib[L[i]] = IF i = n THEN NULL ELSE L[i + 1]
      /\ \E i \in 1 .. n : L[i] = RAM
      /\ \E i \in 1 .. n : L[i] = PROC
  BY DEF Chain, n
<1>7. \A i, j \in 1 .. n + 1 : M[i] = M[j] => i = j
  <2> SUFFICES ASSUME NEW i \in 1 .. n + 1, NEW j \in 1 .. n + 1, M[i] = M[j] PROVE i = j
    OBVIOUS
  <2>1. CASE i = 1 /\ j = 1
    BY <2>1
  <2>2. CASE i = 1 /\ j # 1
    <3>1. j - 1 \in 1 .. n /\ M[i] = d /\ M[j] = L[j - 1]
      BY <1>2, <1>4, <2>2
    <3>. QED  BY <1>1, <3>1
  <2>3. CASE i # 1 /\ j = 1
    <3>1. i - 1 \in 1 .. n /\ M[j] = d /\ M[i] = L[i - 1]
      BY <1>2, <1>4, <2>3
    <3>. QED  BY <1>1, <3>1
  <2>4. CASE i # 1 /\ j # 1
    <3>1. i - 1 \in 1 .. n /\ j - 1 \in 1 .. n
      BY <1>4, <2>4
    <3>2. M[i] = L[i - 1] /\ M[j] = L[j - 1]
      BY <1>2, <2>4
    <3>3. L[i - 1] = L[j - 1]
      BY <3>2
    <3>4. i - 1 = j - 1
      BY <1>6, <3>1, <3>3
    <3>. QED  BY <3>4
  <2>. QED  BY <2>1, <2>2, <2>3, <2>4
<1>8. \A i \in 1 .. n + 1 : mounts'[M[i]] # 0
  BY <1>2, <1>3, <1>4, <1>6
<1>9. ASSUME NEW i \in 1 .. n + 1
      PROVE  sib'[M[i]] = IF i = n + 1 THEN NULL ELSE M[i + 1]
  <2>1. CASE i = 1
    <3>1. 1 \in 1 .. n /\ i # n + 1
      BY <1>1, <2>1
    <3>2. M[2] = L[1]
      BY <1>5, <3>1
    <3>. QED  BY <1>2, <1>3, <2>1, <3>1, <3>2
  <2>2. CASE i # 1
    <3>1. i - 1 \in 1 .. n /\ M[i] = L[i - 1]
      BY <1>2, <1>4, <2>2
    <3>2. sib'[M[i]] = IF i - 1 = n THEN NULL ELSE L[(i - 1) + 1]
      BY <1>3, <1>6, <3>1
    <3>3. i # n + 1 => i \in 1 .. n /\ M[i + 1] = L[i]
      <4> SUFFICES ASSUME i # n + 1 PROVE i \in 1 .. n /\ M[i + 1] = L[i]
        OBVIOUS
      <4>1. i \in 1 .. n
        BY <1>1
      <4>. QED  BY <1>5, <4>1
    <3>4. i - 1 + 1 = i /\ (i - 1 = n <=> i = n + 1)
      BY <1>1
    <3>. QED  BY <3>1, <3>2, <3>3, <3>4
  <2>. QED  BY <2>1, <2>2
<1>10. M[1] = d
  BY <1>1, <1>2
<1>11. (\E i \in 1 .. n + 1 : M[i] = RAM) /\ (\E i \in 1 .. n + 1 : M[i] = PROC)
  BY <1>5, <1>6
<1>12. Chain(M)'
  BY <1>1, <1>2, <1>3, <1>7, <1>8, <1>9, <1>10, <1>11 DEF Chain
<1>. QED  BY <1>12

\* The list does not change when a node not on it is given a sibling.
LEMMA ChainKept ==
  ASSUME TreeTypes, NEW L, Chain(L), NEW d \in Dirs, mounts[d] = 0,
         mounts' = [mounts EXCEPT ![d] = @ + 1],
         child'[ROOT] = child[ROOT], \A x \in Dirs : x # d => sib'[x] = sib[x]
  PROVE  Chain(L)'
<1> DEFINE n == Len(L)
<1>1. \A i \in 1 .. n : L[i] \in Dirs /\ L[i] # d
  BY DEF Chain
<1>2. \A i \in 1 .. n : mounts'[L[i]] = mounts[L[i]] /\ sib'[L[i]] = sib[L[i]]
  BY <1>1 DEF TreeTypes
<1> HIDE DEF n
<1>3. /\ \A i \in 1 .. n : mounts'[L[i]] # 0
      /\ \A i \in 1 .. n : sib'[L[i]] = IF i = n THEN NULL ELSE L[i + 1]
  BY <1>2 DEF Chain, n
<1>. QED  BY <1>3 DEF Chain, n

LEMMA MountTreeInv ==
  ASSUME FilesInv, TreeInv, NEW path, NEW d \in ModNodes, vfs_mount(path, d)
  PROVE  TreeInv'
<1>0. /\ ROOT \in Dirs /\ d \in Dirs /\ d # ROOT /\ d # RAM /\ d # PROC
      /\ NULL \notin {RAM, PROC} /\ ModNodes \subseteq Dirs /\ TreeTypes
  BY FilesAssumption DEF Dirs, Nodes, FilesInv
<1>1. /\ mounts' = [mounts EXCEPT ![d] = @ + 1]
      /\ \/ name' = name
         \/ name' = [name EXCEPT ![d] = Last(path)]
  BY DEF vfs_mount
<1>2. NamesInv'
  <2>1. mounts'[d] # 0 /\ \A x \in Dirs : x # d => mounts'[x] = mounts[x] /\ name'[x] = name[x]
    BY <1>0, <1>1 DEF TreeTypes
  <2>. QED  BY <1>0, <2>1 DEF NamesInv, TreeInv, Dirs
<1>3. ASSUME TreeIntact' PROVE \E L : Chain(L)'
  <2>1. root' = ROOT /\ mounts[d] = 0
    BY <1>0, <1>1, <1>3 DEF TreeIntact, TreeTypes
  <2>2. root' = root /\ path # <<>>
    BY <1>0, <2>1 DEF vfs_mount
  <2>3. TreeIntact
    <3>1. \A x \in Dirs : mounts[x] <= 1
      BY <1>0, <1>1, <1>3, <2>1 DEF TreeIntact, TreeTypes
    <3>2. name[d] = NULL
      BY <2>1 DEF TreeInv, NamesInv
    <3>3. \A x \in ModNodes : x # d => name'[x] = name[x]
      BY <1>0, <1>1 DEF TreeTypes
    <3>. QED  BY <1>0, <1>3, <2>1, <2>2, <3>1, <3>2, <3>3 DEF TreeIntact
  <2>4. PICK L : Chain(L)
    BY <2>3 DEF TreeInv
  <2>5. CASE UNCHANGED <<child, sib>>
    BY <1>0, <1>1, <2>1, <2>4, <2>5, ChainKept
  <2>6. ASSUME NEW parent \in Dirs, Mounted(d, parent) PROVE \E M : Chain(M)'
    <3>1. CASE parent = ROOT
      BY <1>0, <1>1, <2>1, <2>4, <2>6, <3>1, ChainPush
    <3>2. CASE parent # ROOT
      <4>1. child'[ROOT] = child[ROOT] /\ \A x \in Dirs : x # d => sib'[x] = sib[x]
        BY <1>0, <2>6, <3>2 DEF Mounted, TreeTypes
      <4>. QED  BY <1>0, <1>1, <2>1, <2>4, <4>1, ChainKept
    <3>. QED  BY <3>1, <3>2
  <2>7. UNCHANGED <<child, sib>> \/ \E parent \in Dirs : Mounted(d, parent)
    BY <2>2 DEF vfs_mount
  <2>. QED  BY <2>5, <2>6, <2>7
<1>. QED  BY <1>2, <1>3 DEF TreeInv

LEMMA NextTreeInv == FilesInv /\ TreeInv /\ [Next]_vars => TreeInv'
<1> SUFFICES ASSUME FilesInv, TreeInv, [Next]_vars PROVE TreeInv'
  OBVIOUS
<1>1. ASSUME UNCHANGED tree PROVE TreeInv'
  BY <1>1 DEF tree, TreeInv, NamesInv, TreeIntact, Chain
<1>2. CASE \E path \in MountPaths, d \in ModNodes : vfs_mount(path, d)
  BY <1>2, MountTreeInv
<1>3. CASE ~ \E path \in MountPaths, d \in ModNodes : vfs_mount(path, d)
  <2>1. UNCHANGED tree
    BY <1>3 DEF Next, Echo, vfs_create, vfs_delete, vfs_open, vfs_close, vfs_read,
                vfs_write, vars
  <2>. QED  BY <1>1, <2>1
<1>. QED  BY <1>2, <1>3

(***************************************************************************)
(* The walk along the list of the root's children is that list, and then   *)
(* NULL; the walk finds /ram and /proc by their names.                     *)
(***************************************************************************)
LEMMA WalkOnChain ==
  ASSUME TreeTypes, NEW L, Chain(L)
  PROVE  /\ Len(L) < Last1
         /\ \A i \in 1 .. Last1 : Walk(ROOT)[i] = IF i <= Len(L) THEN L[i] ELSE NULL
<1> DEFINE n == Len(L)
           w == Walk(ROOT)
<1>1. n \in Nat \ {0} /\ n < Last1 /\ Last1 \in Nat \ {0}
  <2>1. L \in [1 .. n -> Dirs] /\ n \in Nat
    BY DEF Chain
  <2>2. L \in Injection(1 .. n, Dirs)
    BY <2>1 DEF Chain, Injection, IsInjective
  <2> HIDE DEF n
  <2>3. Cardinality(1 .. n) <= Cardinality(Dirs)
    BY <2>2, FS_Injection, DirsFinite
  <2>4. Cardinality(1 .. n) = n
    <3>1. 1 \in Int /\ n \in Int
      BY <2>1
    <3>2. Cardinality(1 .. n) = IF 1 > n THEN 0 ELSE n - 1 + 1
      BY <3>1, FS_Interval
    <3>. QED  BY <2>1, <3>2
  <2>5. n # 0
    BY DEF Chain, n
  <2>6. n <= Cardinality(Dirs) /\ Cardinality(Dirs) \in Nat
    BY <2>3, <2>4, DirsFinite
  <2>. QED  BY <2>1, <2>5, <2>6 DEF Last1
<1>2. \A i \in 1 .. n : L[i] \in Dirs /\ L[i] # NULL
  BY FilesAssumption DEF Chain, Nodes
<1>3. \A i \in 1 .. Last1 :
         w[i] = IF i = 1 THEN child[ROOT] ELSE IF w[i - 1] = NULL THEN NULL ELSE sib[w[i - 1]]
  BY WalkIs
<1>4. child[ROOT] = L[1] /\ \A i \in 1 .. n : sib[L[i]] = IF i = n THEN NULL ELSE L[i + 1]
  BY DEF Chain
<1> DEFINE S == {i \in 1 .. Last1 : w[i] = IF i <= n THEN L[i] ELSE NULL}
<1> HIDE DEF n, w
<1>5. 1 \in S
  BY <1>1, <1>3, <1>4
<1>6. ASSUME NEW i \in 1 .. Last1, i \in S, i < Last1 PROVE i + 1 \in S
  <2>1. i + 1 \in 1 .. Last1 /\ i + 1 # 1 /\ (i + 1) - 1 = i
    BY <1>1, <1>6
  <2>2. w[i + 1] = IF w[i] = NULL THEN NULL ELSE sib[w[i]]
    BY <1>3, <2>1
  <2>3. CASE i < n
    BY <1>1, <1>2, <1>4, <1>6, <2>1, <2>2, <2>3
  <2>4. CASE i = n
    BY <1>1, <1>2, <1>4, <1>6, <2>1, <2>2, <2>4
  <2>5. CASE i > n
    BY <1>1, <1>6, <2>1, <2>2, <2>5
  <2>. QED  BY <1>1, <2>3, <2>4, <2>5
<1>7. 1 .. Last1 \subseteq S
  <2> HIDE DEF S
  <2>. QED  BY <1>1, <1>5, <1>6, UpTo
<1>. QED  BY <1>1, <1>7 DEF n, w

LEMMA RootFinds ==
  ASSUME TreeTypes, NamesInv, TreeIntact, NEW L, Chain(L), NEW x \in {RAM, PROC}
  PROVE  vfs_root_finddir(ROOT, x) = x
<1> DEFINE n == Len(L)
           w == Walk(ROOT)
           hits == {i \in DOMAIN w : w[i] # NULL /\ name[w[i]] = x}
<1>1. /\ n \in Nat /\ n < Last1 /\ Last1 \in Nat /\ DOMAIN w = 1 .. Last1
      /\ \A i \in 1 .. Last1 : w[i] = IF i <= n THEN L[i] ELSE NULL
  BY WalkOnChain, WalkIs, DirsFinite DEF Chain
<1>2. PICK p \in 1 .. n : L[p] = x
  BY DEF Chain
<1>3. \A i \in 1 .. n : L[i] \in Dirs /\ L[i] # NULL
  BY FilesAssumption DEF Chain, Nodes
<1>4. \A d \in Dirs : name[d] = x <=> d = x
  <2>1. RAM # PROC /\ NULL # RAM /\ NULL # PROC /\ ROOT # RAM /\ ROOT # PROC
        /\ RAM \notin ModNodes /\ PROC \notin ModNodes
    BY FilesAssumption DEF Dirs, Nodes
  <2>. QED  BY <2>1 DEF Dirs, NamesInv, TreeIntact
<1>5. \A i, j \in 1 .. n : L[i] = L[j] => i = j
  BY DEF Chain
<1> HIDE DEF n, w
<1>6. p \in hits
  BY <1>1, <1>2, <1>3, <1>4
<1>7. \A i \in hits : w[i] = x
  BY <1>1, <1>3, <1>4
<1>8. Min(hits) \in hits
  <2>1. hits \in SUBSET Nat
    BY <1>1
  <2> HIDE DEF hits
  <2>. QED  BY <1>6, <2>1, LeastElement
<1>9. vfs_root_finddir(ROOT, x) = w[Min(hits)]
  BY <1>6 DEF vfs_root_finddir, w
<1> HIDE DEF hits
<1>. QED  BY <1>7, <1>8, <1>9

(***************************************************************************)
(* vfs_mount keeps the children of the root a list with an end, as long as *)
(* each node is mounted once, under a name of its own.                     *)
(***************************************************************************)
THEOREM TreeInvariance == Spec => []TreeInv
<1>1. Init => TreeInv
  BY InitTreeInv
<1>2. FilesInv /\ TreeInv /\ [Next]_vars => TreeInv'
  BY NextTreeInv
<1>. QED  BY <1>1, <1>2, FilesInvariance, PTL DEF Spec

(***************************************************************************)
(* Names lead to what they name: no two files share a name, and while the  *)
(* tree is intact every lookup below the root ends, /ram and /proc are     *)
(* found, and a file is found under its path, with its size in its node.   *)
(***************************************************************************)
THEOREM PathsCorrect == Spec => []PathFindsFile
<1>1. FilesInv /\ TreeInv => PathFindsFile
  <2> SUFFICES ASSUME FilesInv, TreeInv PROVE PathFindsFile
    OBVIOUS
  <2>1. TreeTypes /\ Sound(file) /\ NamesInv
    BY DEF FilesInv, TreeInv
  <2>2. \A i \in Slots : file[i].used => ramfs_find(file[i].name) = i
    BY <2>1, FindFinds DEF ramfs_find
  <2>3. ASSUME TreeIntact
        PROVE  /\ ~Cyclic(ROOT)
               /\ vfs_lookup_path(<<RAM>>) = RAM /\ vfs_lookup_path(<<PROC>>) = PROC
               /\ \A n : vfs_lookup_path(<<RAM, n>>) = ramfs_find(n)
    <3>1. PICK L : Chain(L)
      BY <2>3 DEF TreeInv
    <3>2. Walk(ROOT)[Last1] = NULL
      <4>1. Last1 \in 1 .. Last1 /\ Len(L) \in Nat /\ Last1 \in Nat
        BY DirsFinite, <3>1 DEF Chain
      <4>2. Len(L) < Last1 /\ Walk(ROOT)[Last1] = IF Last1 <= Len(L) THEN L[Last1] ELSE NULL
        BY <2>1, <3>1, <4>1, WalkOnChain
      <4>. QED  BY <4>1, <4>2
    <3>3. ROOT \in Dirs /\ RAM \in Dirs /\ RAM # HUNG /\ root = ROOT
      BY <2>3, FilesAssumption DEF Dirs, Nodes, TreeIntact
    <3>4. \A x : vfs_finddir(ROOT, x) = vfs_root_finddir(ROOT, x)
      BY FilesAssumption DEF vfs_finddir
    <3>5. vfs_root_finddir(ROOT, RAM) = RAM /\ vfs_root_finddir(ROOT, PROC) = PROC
      BY <2>1, <2>3, <3>1, RootFinds
    <3>6. \A n : vfs_finddir(RAM, n) = ramfs_find(n)
      BY <2>1, <3>3, FinddirIs
    <3>7. vfs_lookup_path(<<RAM>>) = RAM /\ vfs_lookup_path(<<PROC>>) = PROC
      BY <3>3, <3>4, <3>5, LookupShort
    <3>8. ASSUME NEW n PROVE vfs_lookup_path(<<RAM, n>>) = ramfs_find(n)
      BY <3>3, <3>4, <3>5, <3>6, LookupShort DEF NextNode
    <3>. QED  BY <3>2, <3>7, <3>8 DEF Cyclic, Last1
  <2>. QED  BY <2>1, <2>2, <2>3 DEF PathFindsFile, Sound
<1>. QED  BY <1>1, FilesInvariance, TreeInvariance, PTL

----------------------------------------------------------------------------
(***************************************************************************)
(* The RAM file system as a map.  Text(fs, i) are the contents of the file *)
(* in slot i, and ContentsOf(fs) has them under its name.                  *)
(***************************************************************************)
SlotIn(fs, n) == CHOOSE i \in Slots : fs[i].used /\ fs[i].name = n
Text(fs, i) == [k \in 1 .. fs[i].size |-> fs[i].data[k - 1]]
UsedNames(fs) == {fs[i].name : i \in {j \in Slots : fs[j].used}}
ContentsOf(fs) == [n \in UsedNames(fs) |-> Text(fs, SlotIn(fs, n))]

\* The map c with the text t for n, and without n.
Replaced(c, n, t) == [m \in DOMAIN c \cup {n} |-> IF m = n THEN t ELSE c[m]]
Lacking(c, n) == [m \in DOMAIN c \ {n} |-> c[m]]

LEMMA ContentsAre == Contents = ContentsOf(file) /\ Contents' = ContentsOf(file')
BY DEF Contents, ContentsOf, Slot, SlotIn, Text, UsedNames

LEMMA NamesAre ==
  ASSUME NEW fs
  PROVE  \A n : n \in UsedNames(fs) <=> \E i \in Slots : fs[i].used /\ fs[i].name = n
BY DEF UsedNames

LEMMA ContentsIs ==
  ASSUME NEW fs, Sound(fs)
  PROVE  /\ DOMAIN ContentsOf(fs) = UsedNames(fs)
         /\ \A i \in Slots : fs[i].used =>
               fs[i].name \in UsedNames(fs) /\ ContentsOf(fs)[fs[i].name] = Text(fs, i)
<1>1. ASSUME NEW i \in Slots, fs[i].used
      PROVE  fs[i].name \in UsedNames(fs) /\ SlotIn(fs, fs[i].name) = i
  <2>1. fs[i].name \in UsedNames(fs)
    BY <1>1 DEF UsedNames
  <2>2. SlotIn(fs, fs[i].name) \in Slots /\ fs[SlotIn(fs, fs[i].name)].used
        /\ fs[SlotIn(fs, fs[i].name)].name = fs[i].name
    BY <1>1 DEF SlotIn
  <2>. QED  BY <1>1, <2>1, <2>2 DEF Sound
<1>. QED  BY <1>1 DEF ContentsOf

\* The size and the bytes of a file that is in use.
LEMMA TextIs ==
  ASSUME NEW fs, Sound(fs), NEW i \in Slots
  PROVE  /\ Text(fs, i) \in Seq(Bytes) /\ Len(Text(fs, i)) = fs[i].size
         /\ fs[i].size \in 0 .. RAMFS_MAX_DATA
         /\ \A k \in 1 .. fs[i].size : Text(fs, i)[k] = fs[i].data[k - 1]
<1>1. fs[i].size \in 0 .. RAMFS_MAX_DATA /\ fs[i].data \in Contained
  BY DEF Sound, Entry
<1>2. \A k \in 1 .. fs[i].size : k - 1 \in 0 .. RAMFS_MAX_DATA - 1 /\ fs[i].data[k - 1] \in Bytes
  BY <1>1, FilesAssumption DEF Contained
<1>3. Text(fs, i) \in Seq(Bytes) /\ Len(Text(fs, i)) = fs[i].size
  BY <1>1, <1>2 DEF Text
<1>. QED  BY <1>1, <1>3 DEF Text

\* One slot changes, and what was in it was unused or had the same name.
LEMMA PutIs ==
  ASSUME NEW fs, NEW new, Sound(fs), Sound(new), NEW n, NEW i \in Slots,
         \A j \in Slots \ {i} : new[j] = fs[j],
         new[i].used, new[i].name = n, fs[i].used => fs[i].name = n
  PROVE  ContentsOf(new) = Replaced(ContentsOf(fs), n, Text(new, i))
<1>1. \A m : m \in UsedNames(new) <=> m \in UsedNames(fs) \/ m = n
  BY NamesAre
<1>2. UsedNames(new) = UsedNames(fs) \cup {n}
  BY <1>1
<1>3. \A m \in UsedNames(new) : ContentsOf(new)[m] = Text(new, SlotIn(new, m))
  BY DEF ContentsOf
<1>4. ContentsOf(new)[n] = Text(new, i)
  BY ContentsIs
<1>5. ASSUME NEW m \in UsedNames(fs), m # n
      PROVE  ContentsOf(new)[m] = ContentsOf(fs)[m]
  <2>1. PICK j \in Slots : fs[j].used /\ fs[j].name = m
    BY NamesAre
  <2>2. j # i /\ new[j] = fs[j]
    BY <1>5, <2>1
  <2>3. ContentsOf(new)[m] = Text(new, j) /\ ContentsOf(fs)[m] = Text(fs, j)
    BY <2>1, <2>2, ContentsIs
  <2>4. Text(new, j) = Text(fs, j)
    BY <2>2 DEF Text
  <2>. QED  BY <2>3, <2>4
<1>6. DOMAIN ContentsOf(fs) = UsedNames(fs)
  BY ContentsIs
<1>7. ContentsOf(new) = [m \in UsedNames(new) |-> ContentsOf(new)[m]]
  BY DEF ContentsOf
<1>8. \A m \in UsedNames(new) :
         ContentsOf(new)[m] = IF m = n THEN Text(new, i) ELSE ContentsOf(fs)[m]
  BY <1>2, <1>4, <1>5
<1>. QED  BY <1>2, <1>6, <1>7, <1>8 DEF Replaced

LEMMA RemoveIs ==
  ASSUME NEW fs, NEW new, Sound(fs), Sound(new), NEW i \in Slots,
         \A j \in Slots \ {i} : new[j] = fs[j], fs[i].used, ~new[i].used
  PROVE  ContentsOf(new) = Lacking(ContentsOf(fs), fs[i].name)
<1>1. \A m : m \in UsedNames(new) <=> m \in UsedNames(fs) /\ m # fs[i].name
  <2>1. \A m : m \in UsedNames(new) => m \in UsedNames(fs) /\ m # fs[i].name
    BY NamesAre DEF Sound
  <2>2. \A m : m \in UsedNames(fs) /\ m # fs[i].name => m \in UsedNames(new)
    BY NamesAre
  <2>. QED  BY <2>1, <2>2
<1>2. UsedNames(new) = UsedNames(fs) \ {fs[i].name}
  BY <1>1
<1>3. ASSUME NEW m \in UsedNames(new) PROVE ContentsOf(new)[m] = ContentsOf(fs)[m]
  <2>1. PICK j \in Slots : new[j].used /\ new[j].name = m
    BY NamesAre
  <2>2. j # i /\ new[j] = fs[j]
    BY <2>1
  <2>3. ContentsOf(new)[m] = Text(new, j) /\ ContentsOf(fs)[m] = Text(fs, j)
    BY <2>1, <2>2, ContentsIs
  <2>4. Text(new, j) = Text(fs, j)
    BY <2>2 DEF Text
  <2>. QED  BY <2>3, <2>4
<1>4. DOMAIN ContentsOf(fs) = UsedNames(fs)
  BY ContentsIs
<1>5. ContentsOf(new) = [m \in UsedNames(new) |-> ContentsOf(new)[m]]
  BY DEF ContentsOf
<1>. QED  BY <1>2, <1>3, <1>4, <1>5 DEF Lacking

\* While a slot is unused the store has room for another name.
LEMMA RoomLeft ==
  ASSUME NEW fs, Sound(fs), NEW i \in Slots, ~fs[i].used
  PROVE  Cardinality(UsedNames(fs)) < RAMFS_MAX_FILES
<1> DEFINE f == [n \in UsedNames(fs) |-> SlotIn(fs, n)]
<1>1. \A n \in UsedNames(fs) : /\ SlotIn(fs, n) \in Slots /\ fs[SlotIn(fs, n)].used
                               /\ fs[SlotIn(fs, n)].name = n
  BY NamesAre DEF SlotIn
<1>2. f \in Injection(UsedNames(fs), Slots \ {i})
  BY <1>1 DEF Injection, IsInjective
<1>3. IsFiniteSet(Slots) /\ Cardinality(Slots) = RAMFS_MAX_FILES
  <2>1. RAMFS_MAX_FILES \in Nat
    BY FilesAssumption
  <2>2. IsFiniteSet(1 .. RAMFS_MAX_FILES)
        /\ Cardinality(1 .. RAMFS_MAX_FILES)
              = IF 1 > RAMFS_MAX_FILES THEN 0 ELSE RAMFS_MAX_FILES - 1 + 1
    BY <2>1, FS_Interval
  <2>. QED  BY <2>1, <2>2 DEF Slots
<1>4. IsFiniteSet(Slots \ {i}) /\ Cardinality(Slots \ {i}) = RAMFS_MAX_FILES - 1
  BY <1>3, FS_RemoveElement
<1> HIDE DEF f
<1>5. /\ IsFiniteSet(UsedNames(fs))
      /\ Cardinality(UsedNames(fs)) <= Cardinality(Slots \ {i})
  BY <1>2, <1>4, FS_Injection
<1>6. Cardinality(UsedNames(fs)) \in Nat
  BY <1>5, FS_CardinalityType
<1>. QED  BY <1>4, <1>5, <1>6, FilesAssumption

(***************************************************************************)
(* Each operation is a step of the store: new contents cut off at the size *)
(* of a file, some bytes at an offset, a name removed, or nothing.         *)
(***************************************************************************)
LEMMA CutIs ==
  ASSUME NEW fs, Sound(fs), NEW i \in Slots, NEW msg \in Messages,
         fs[i].size = Fits(msg), \A j \in 0 .. Fits(msg) - 1 : fs[i].data[j] = msg[j + 1]
  PROVE  Text(fs, i) = Store!Cut(msg)
<1> DEFINE t == Text(fs, i)
           c == Store!Cut(msg)
           k == Fits(msg)
<1>1. /\ k = IF Len(msg) <= RAMFS_MAX_DATA THEN Len(msg) ELSE RAMFS_MAX_DATA
      /\ k \in Nat /\ Len(msg) \in Nat /\ RAMFS_MAX_DATA \in Nat
      /\ msg \in Seq(Bytes)
  BY FitsIs, FilesAssumption
<1>2. c = IF Len(msg) > RAMFS_MAX_DATA THEN SubSeq(msg, 1, RAMFS_MAX_DATA) ELSE msg
  BY DEF Store!Cut
<1> HIDE DEF c, k
<1>3. /\ c \in Seq(Bytes) /\ Len(c) = k /\ \A j \in 1 .. k : c[j] = msg[j]
  <2>1. CASE Len(msg) > RAMFS_MAX_DATA
    BY <1>1, <1>2, <2>1
  <2>2. CASE ~(Len(msg) > RAMFS_MAX_DATA)
    BY <1>1, <1>2, <2>2
  <2>. QED  BY <2>1, <2>2
<1>4. t \in Seq(Bytes) /\ Len(t) = k /\ \A j \in 1 .. k : t[j] = fs[i].data[j - 1]
  BY TextIs DEF k
<1>5. \A j \in 1 .. k : t[j] = msg[j]
  <2>1. \A j \in 1 .. k : j - 1 \in 0 .. k - 1 /\ (j - 1) + 1 = j
    BY <1>1
  <2>. QED  BY <1>4, <2>1 DEF k
<1> HIDE DEF t
<1>6. t = c
  BY <1>3, <1>4, <1>5, SeqEqual
<1>. QED  BY <1>6 DEF t, c

LEMMA CardinalityIs == \A S : Store!Cardinality(S) = Cardinality(S)
BY DEF Store!Cardinality, Cardinality

LEMMA PutStep ==
  ASSUME Sound(file), Sound(file'), NEW n \in Names, NEW i \in Slots,
         \A j \in Slots \ {i} : file'[j] = file[j],
         file'[i].used, file'[i].name = n,
         file[i].used => file[i].name = n,
         NEW s \in Messages \cup {<<>>}, Text(file', i) = Store!Cut(s)
  PROVE  Store!Next
<1>1. Contents' = Store!With(n, Store!Cut(s))
  <2>1. ContentsOf(file') = Replaced(ContentsOf(file), n, Text(file', i))
    BY PutIs
  <2>. QED  BY <2>1, ContentsAre DEF Store!With, Replaced
<1>2. n \in DOMAIN Contents \/ Cardinality(DOMAIN Contents) < RAMFS_MAX_FILES
  <2>1. DOMAIN Contents = UsedNames(file)
    BY ContentsIs, ContentsAre
  <2>2. CASE file[i].used
    BY <2>1, <2>2, NamesAre
  <2>3. CASE ~file[i].used
    BY <2>1, <2>3, RoomLeft
  <2>. QED  BY <2>2, <2>3
<1>3. Store!Put(n, Store!Cut(s))
  BY <1>1, <1>2, CardinalityIs DEF Store!Put
<1>. QED  BY <1>3 DEF Store!Next

LEMMA EmptyText ==
  ASSUME NEW fs, Sound(fs), NEW i \in Slots, fs[i].size = 0
  PROVE  Text(fs, i) = Store!Cut(<<>>)
<1>1. Text(fs, i) \in Seq(Bytes) /\ Len(Text(fs, i)) = 0
  BY TextIs
<1>2. Store!Cut(<<>>) = <<>>
  BY FilesAssumption DEF Store!Cut
<1>. QED  BY <1>1, <1>2

LEMMA EchoStep ==
  ASSUME Sound(file), NEW n \in Names, NEW msg \in Messages, Echo(n, msg)
  PROVE  Store!Next \/ UNCHANGED Contents
<1> DEFINE mid == Created(file, n)
           i == find(mid, n)
<1>1. Sound(mid)
  BY CreatedSound
<1>2. file' = Written(mid, n, msg)
  BY DEF Echo
<1>3. Sound(file')
  BY <1>1, <1>2, WrittenSound
<1>4. \/ mid = file
      \/ /\ find(file, n) = NULL
         /\ \E k \in Slots : /\ ~file[k].used /\ mid[k].used /\ mid[k].name = n
                             /\ \A j \in Slots \ {k} : mid[j] = file[j]
  BY CreatedIs
<1> HIDE DEF mid
<1>5. \/ file' = mid /\ i = NULL
      \/ /\ i \in Slots /\ mid[i].used /\ mid[i].name = n
         /\ \A j \in Slots \ {i} : file'[j] = mid[j]
         /\ file'[i].used /\ file'[i].name = n
         /\ file'[i].size = Fits(msg)
         /\ \A j \in 0 .. Fits(msg) - 1 : file'[i].data[j] = msg[j + 1]
  BY <1>1, <1>2, WrittenIs
<1>6. CASE mid = file /\ i = NULL
  <2>1. file' = file
    BY <1>5, <1>6, SlotsAreNats
  <2>. QED  BY <2>1, ContentsAre
<1>7. CASE mid = file /\ i # NULL
  <2> HIDE DEF i
  <2>1. Text(file', i) = Store!Cut(msg)
    BY <1>3, <1>5, <1>7, CutIs
  <2>2. Store!Next
    BY <1>3, <1>5, <1>7, <2>1, PutStep
  <2>. QED  BY <2>2
<1>8. CASE mid # file
  <2>1. PICK k \in Slots : /\ ~file[k].used /\ mid[k].used /\ mid[k].name = n
                           /\ \A j \in Slots \ {k} : mid[j] = file[j]
    BY <1>4, <1>8
  <2>2. i = k
    BY <1>1, <2>1, FindFinds
  <2> HIDE DEF i
  <2>3. \A j \in Slots \ {i} : file'[j] = file[j]
    BY <1>5, <2>1, <2>2, SlotsAreNats
  <2>4. Text(file', i) = Store!Cut(msg)
    BY <1>3, <1>5, <2>1, <2>2, CutIs, SlotsAreNats
  <2>5. Store!Next
    BY <1>3, <1>5, <2>1, <2>2, <2>3, <2>4, PutStep, SlotsAreNats
  <2>. QED  BY <2>5
<1>. QED  BY <1>6, <1>7, <1>8

LEMMA CreateStep ==
  ASSUME Sound(file), NEW n \in Names, file' = Created(file, n)
  PROVE  Store!Next \/ UNCHANGED Contents
<1>1. Sound(file')
  BY CreatedSound
<1>2. CASE file' = file
  BY <1>2, ContentsAre
<1>3. CASE file' # file
  <2>1. PICK k \in Slots : /\ ~file[k].used /\ file'[k].used /\ file'[k].name = n
                           /\ file'[k].size = 0
                           /\ \A j \in Slots \ {k} : file'[j] = file[j]
    BY <1>3, CreatedIs
  <2>2. Text(file', k) = Store!Cut(<<>>)
    BY <1>1, <2>1, EmptyText
  <2>3. <<>> \in Messages \cup {<<>>}
    OBVIOUS
  <2>4. Store!Next
    BY <1>1, <2>1, <2>2, <2>3, PutStep
  <2>. QED  BY <2>4
<1>. QED  BY <1>2, <1>3

LEMMA DeleteStep ==
  ASSUME Sound(file), Sound(file'), NEW path, vfs_delete(path)
  PROVE  Store!Next
<1>1. PICK i \in Slots :
         /\ file[i].used
         /\ \A j \in Slots \ {i} : file'[j] = file[j]
         /\ ~file'[i].used
  BY DeleteIs
<1> DEFINE n == file[i].name
<1>2. n \in Names /\ n \in DOMAIN Contents
  BY <1>1, ContentsIs, ContentsAre DEF Sound
<1>3. Contents' = Store!Without(n)
  <2>1. ContentsOf(file') = Lacking(ContentsOf(file), n)
    BY <1>1, RemoveIs
  <2>. QED  BY <2>1, ContentsAre DEF Store!Without, Lacking
<1>4. Store!Remove(n)
  BY <1>2, <1>3 DEF Store!Remove
<1>. QED  BY <1>2, <1>4 DEF Store!Next

LEMMA PatchStep ==
  ASSUME Sound(file), Sound(file'), NEW i, NEW off \in 0 .. RAMFS_MAX_DATA,
         NEW size \in Nat, NEW b \in Chars, ramfs_vfs_write(i, off, size, b)
  PROVE  Store!Next \/ UNCHANGED Contents
<1>1. i \in Slots /\ file[i].used
  BY PatchIs
<1>2. CASE file' = file
  BY <1>2, ContentsAre
<1>3. CASE file' # file
  <2>0. PICK k \in 0 .. RAMFS_MAX_DATA : Patched(file, file', i, off, k, b)
    BY <1>3, PatchIs
  <2>1. /\ off + k <= RAMFS_MAX_DATA
        /\ \A j \in Slots \ {i} : file'[j] = file[j]
        /\ file'[i].used /\ file'[i].name = file[i].name
        /\ file'[i].size = IF off + k > file[i].size THEN off + k ELSE file[i].size
        /\ \A j \in 0 .. RAMFS_MAX_DATA - 1 :
              file'[i].data[j] = IF j \in off .. off + k - 1 THEN b ELSE file[i].data[j]
    BY <2>0 DEF Patched
  <2> DEFINE n == file[i].name
             old == Contents[n]
             gap == [j \in Len(old) + 1 .. off |-> file[i].data[j - 1]]
             len == IF off + k > Len(old) THEN off + k ELSE Len(old)
             new == [j \in 1 .. len |-> CASE j \in off + 1 .. off + k -> b
                                          [] j \in DOMAIN gap -> gap[j]
                                          [] OTHER -> old[j]]
  <2>2. n \in Names /\ n \in DOMAIN Contents /\ old = Text(file, i)
    BY <1>1, ContentsIs, ContentsAre DEF Sound
  <2>3. /\ Len(old) = file[i].size /\ file[i].size \in 0 .. RAMFS_MAX_DATA
        /\ \A j \in 1 .. file[i].size : old[j] = file[i].data[j - 1]
    BY <1>1, <2>2, TextIs
  <2>4. Contents' = Store!With(n, Text(file', i))
    <3>1. ContentsOf(file') = Replaced(ContentsOf(file), n, Text(file', i))
      BY <1>1, <2>1, PutIs
    <3>. QED  BY <3>1, ContentsAre DEF Store!With, Replaced
  <2>5. /\ off \in Nat /\ RAMFS_MAX_DATA \in Nat /\ k \in Nat
        /\ file[i].data \in Contained
    BY <1>1, FilesAssumption DEF Sound, Entry
  <2> HIDE DEF n, old
  <2>6. gap \in [Len(old) + 1 .. off -> Bytes]
    <3>1. \A j \in Len(old) + 1 .. off : j - 1 \in 0 .. RAMFS_MAX_DATA - 1
      BY <2>1, <2>3, <2>5
    <3>. QED  BY <2>5, <3>1 DEF Contained
  <2>7. Text(file', i) = new
    <3>1. Text(file', i) = [j \in 1 .. file'[i].size |-> file'[i].data[j - 1]]
      BY DEF Text
    <3>2. file'[i].size = len
      BY <2>1, <2>3
    <3>3. ASSUME NEW j \in 1 .. len PROVE file'[i].data[j - 1] = new[j]
      <4>1. j - 1 \in 0 .. RAMFS_MAX_DATA - 1
        BY <2>1, <2>3, <2>5
      <4>2. file'[i].data[j - 1] = IF j - 1 \in off .. off + k - 1 THEN b
                                   ELSE file[i].data[j - 1]
        BY <2>1, <4>1
      <4>3. j - 1 \in off .. off + k - 1 <=> j \in off + 1 .. off + k
        BY <2>5
      <4>4. CASE j \in off + 1 .. off + k
        <5>1. ~(j \in DOMAIN gap)
          BY <2>3, <2>5, <4>4
        <5>2. new[j] = b
          BY <4>4, <5>1
        <5>. QED  BY <4>2, <4>3, <4>4, <5>2
      <4>5. CASE j \notin off + 1 .. off + k /\ j \in Len(old) + 1 .. off
        <5>1. new[j] = file[i].data[j - 1]
          BY <4>5
        <5>. QED  BY <4>2, <4>3, <4>5, <5>1
      <4>6. CASE j \notin off + 1 .. off + k /\ j \notin Len(old) + 1 .. off
        <5>1. new[j] = old[j]
          BY <4>6
        <5>2. j \in 1 .. file[i].size
          BY <2>3, <2>5, <4>6
        <5>. QED  BY <2>3, <4>2, <4>3, <4>6, <5>1, <5>2
      <4>. QED  BY <4>4, <4>5, <4>6
    <3> HIDE DEF new, len
    <3>4. new = [j \in 1 .. len |-> new[j]]
      BY DEF new
    <3>. QED  BY <3>1, <3>2, <3>3, <3>4
  <2>8. Contents' = Store!With(n, new)
    BY <2>4, <2>7
  <2>9. \E g \in [Len(Contents[n]) + 1 .. off -> Bytes] : g = gap
    BY <2>6 DEF old
  <2>10. Store!Patch(n, off, k, b)
    BY <2>1, <2>2, <2>8, <2>9 DEF Store!Patch, old
  <2>. QED  BY <2>2, <2>10 DEF Store!Next
<1>. QED  BY <1>2, <1>3

LEMMA NextStoreStep == FilesInv /\ [Next]_vars => [Store!Next]_Contents
<1> SUFFICES ASSUME FilesInv, [Next]_vars PROVE Store!Next \/ UNCHANGED Contents
  OBVIOUS
<1>1. Sound(file) /\ Sound(file')
  <2>1. Sound(file)'
    BY NextFilesInv DEF FilesInv
  <2>. QED  BY <2>1 DEF FilesInv, Sound
<1>2. ASSUME UNCHANGED file PROVE UNCHANGED Contents
  BY <1>2, ContentsAre
<1>3. ASSUME NEW n \in Plain, vfs_create(<<RAM, n>>)
      PROVE  Store!Next \/ UNCHANGED Contents
  <2>1. file' = Created(file, n) /\ n \in Names
    BY <1>3 DEF vfs_create, Last, Names
  <2>. QED  BY <1>1, <2>1, CreateStep
<1>4. ASSUME NEW off \in 0 .. RAMFS_MAX_DATA, NEW size \in Sizes, NEW b \in Chars,
             vfs_write(off, size, b)
      PROVE  Store!Next \/ UNCHANGED Contents
  <2>1. size \in Nat /\ ramfs_vfs_write(handle, off, size, b)
    BY <1>4, FilesAssumption DEF vfs_write
  <2>. QED  BY <1>1, <2>1, PatchStep
<1>5. ASSUME NEW path, vfs_open(path) PROVE UNCHANGED file
  BY <1>5 DEF vfs_open
<1>6. ASSUME NEW off, NEW size, vfs_read(off, size) PROVE UNCHANGED file
  BY <1>6 DEF vfs_read
<1>7. ASSUME NEW path, NEW d, vfs_mount(path, d) PROVE UNCHANGED file
  BY <1>7 DEF vfs_mount
<1>8. vfs_close => UNCHANGED file
  BY DEF vfs_close
<1>9. UNCHANGED vars => UNCHANGED file
  BY DEF vars
<1>. QED  BY <1>1, <1>2, <1>3, <1>4, <1>5, <1>6, <1>7, <1>8, <1>9, EchoStep, DeleteStep
          DEF Next

LEMMA InitStore == Init => Store!Init
<1> SUFFICES ASSUME Init PROVE Store!Init
  OBVIOUS
<1>1. UsedNames(file) = {}
  BY DEF Init, UsedNames, NoFile
<1>2. Contents = [n \in {} |-> Text(file, SlotIn(file, n))]
  BY <1>1, ContentsAre DEF ContentsOf
<1>. QED  BY <1>2 DEF Store!Init

(***************************************************************************)
(* The RAM file system is the store of FileStore: every echo, create,      *)
(* delete and write is one step of that map from names to contents, and    *)
(* opening, reading, mounting and closing leave it alone.                  *)
(***************************************************************************)
THEOREM RamfsKeepsPromise == Spec => ImplementsStore
<1>1. Init => Store!Init
  BY InitStore
<1>2. FilesInv /\ [Next]_vars => [Store!Next]_Contents
  BY NextStoreStep
<1>. QED  BY <1>1, <1>2, FilesInvariance, PTL DEF Spec, ImplementsStore, Store!Spec
=============================================================================
