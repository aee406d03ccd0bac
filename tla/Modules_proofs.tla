--------------------------- MODULE Modules_proofs ---------------------------
(***************************************************************************)
(* Proofs about loadable modules, for every set of images, every table of  *)
(* exported symbols and every number of blocks of the heap.                *)
(***************************************************************************)
EXTENDS Modules, FiniteSetTheorems, SequenceTheorems,
        WellFoundedInduction, TLAPS

\* A nonempty set of naturals has a least element, and Min is one.
LEMMA LeastElement ==
  ASSUME NEW S \in SUBSET Nat, S # {}
  PROVE  /\ \E x \in S : \A y \in S : x <= y
         /\ Min(S) \in S
<1>1. PICK x \in S : \A y \in S : ~ (<<y, x>> \in OpToRel(<, Nat))
  BY NatLessThanWellFounded, WFMin, S # {}
<1>2. \A y \in S : ~ (y < x)
  BY <1>1 DEF OpToRel
<1>3. \E z \in S : \A y \in S : z <= y
  BY <1>2
<1>. QED  BY <1>3 DEF Min

\* A nonempty set of naturals with a bound has a greatest element.
LEMMA GreatestElement ==
  ASSUME NEW n \in Nat, NEW S \in SUBSET (0 .. n), S # {}
  PROVE  Max(S) \in S
<1> DEFINE D == {n - x : x \in S}
<1>1. D \in SUBSET Nat /\ D # {}
  <2>1. \A x \in S : n - x \in Nat
    OBVIOUS
  <2>. QED  BY <2>1
<1>2. PICK d \in D : \A y \in D : d <= y
  <2> HIDE DEF D
  <2>. QED  BY <1>1, LeastElement
<1>3. PICK x \in S : d = n - x
  BY <1>2
<1>4. ASSUME NEW y \in S PROVE x >= y
  <2>1. n - y \in D
    OBVIOUS
  <2>2. d <= n - y
    BY <1>2, <2>1
  <2>. QED  BY <1>3, <2>2
<1>. QED  BY <1>3, <1>4 DEF Max

----------------------------------------------------------------------------
(***************************************************************************)
(* The two changes of a list of modules: a new first element, and one      *)
(* taken out.                                                              *)
(***************************************************************************)
LEMMA Prepended ==
  ASSUME NEW S, NEW list \in Seq(S), NEW e
  PROVE  /\ <<e>> \o list \in Seq(S \cup {e})
         /\ Len(<<e>> \o list) = Len(list) + 1
         /\ \A i \in 1 .. Len(list) + 1 :
               (<<e>> \o list)[i] = IF i = 1 THEN e ELSE list[i - 1]
<1>1. <<e>> \in Seq(S \cup {e}) /\ list \in Seq(S \cup {e})
  OBVIOUS
<1>. QED  BY <1>1

LEMMA Removed ==
  ASSUME NEW S, NEW list \in Seq(S), NEW k \in 1 .. Len(list)
  PROVE  /\ RemoveAt(list, k) \in Seq(S)
         /\ Len(RemoveAt(list, k)) = Len(list) - 1
         /\ \A i \in 1 .. Len(list) - 1 :
               RemoveAt(list, k)[i] = IF i < k THEN list[i] ELSE list[i + 1]
<1> DEFINE n == Len(list)
           front == SubSeq(list, 1, k - 1)
           back == SubSeq(list, k + 1, n)
<1>1. n \in Nat /\ k \in 1 .. n
  OBVIOUS
<1>2. /\ front \in Seq(S) /\ Len(front) = k - 1
      /\ \A i \in 1 .. k - 1 : front[i] = list[i]
  OBVIOUS
<1>3. /\ back \in Seq(S) /\ Len(back) = n - k
      /\ \A i \in 1 .. n - k : back[i] = list[k + i]
  OBVIOUS
<1>4. RemoveAt(list, k) = front \o back
  BY DEF RemoveAt
<1> HIDE DEF front, back, n
<1>5. front \o back \in Seq(S) /\ Len(front \o back) = n - 1
  <2>1. front \o back \in Seq(S) /\ Len(front \o back) = Len(front) + Len(back)
    BY <1>2, <1>3, ConcatProperties
  <2>2. (k - 1) + (n - k) = n - 1
    BY <1>1
  <2>. QED  BY <1>2, <1>3, <2>1, <2>2
<1>6. ASSUME NEW i \in 1 .. n - 1
      PROVE  (front \o back)[i] = IF i < k THEN list[i] ELSE list[i + 1]
  <2>1. CASE i < k
    BY <1>1, <1>2, <1>3, <2>1
  <2>2. CASE ~(i < k)
    <3>1. (front \o back)[i] = back[i - (k - 1)]
      BY <1>1, <1>2, <1>3, <2>2, SMTT(40)
    <3>2. i - (k - 1) \in 1 .. n - k /\ k + (i - (k - 1)) = i + 1
      BY <1>1, <2>2
    <3>. QED  BY <1>3, <2>2, <3>1, <3>2
  <2>. QED  BY <2>1, <2>2
<1>. QED  BY <1>4, <1>5, <1>6 DEF n

\* The block that kmalloc takes is a free one, and not one already taken.
LEMMA FirstFitFree ==
  ASSUME NEW taken, NEW b, FirstFit(taken, b)
  PROVE  b \in Blocks /\ b \notin blocks /\ b \notin taken /\ b # 0
<1>1. Free \ taken \in SUBSET Nat /\ Free \ taken # {}
  BY ModulesAssumption DEF FirstFit, Free
<1>2. b \in Free \ taken
  BY <1>1, LeastElement DEF FirstFit
<1>. QED  BY <1>2, ModulesAssumption DEF Free

----------------------------------------------------------------------------
(***************************************************************************)
(* The inductive invariant of the lists and of the blocks: no two modules  *)
(* share a block, and no module has a block of the registry.               *)
(***************************************************************************)
ListsInv ==
    /\ \E S : loaded \in Seq(S)
    /\ \E S : registry \in Seq(S)
    /\ count = Len(registry)
    /\ \A i, j \in 1 .. Len(loaded) : loaded[i].name = loaded[j].name => i = j
    /\ \A i, j \in 1 .. Len(registry) :
           registry[i].name = registry[j].name => i = j

Owned == {loaded[i].base : i \in 1 .. Len(loaded)}
            \cup {loaded[i].mod : i \in 1 .. Len(loaded)}

BlocksInv ==
    /\ blocks \subseteq Blocks /\ kept \subseteq blocks
    /\ \A i, j \in 1 .. Len(loaded) :
          /\ loaded[i].base # loaded[j].mod
          /\ loaded[i].base = loaded[j].base => i = j
          /\ loaded[i].mod = loaded[j].mod => i = j
    /\ blocks \ kept = Owned
    /\ Owned \cap kept = {}
    /\ IsFiniteSet(Owned)
    /\ Cardinality(Owned) = 2 * Len(loaded)

IInv == ListsInv /\ BlocksInv

LEMMA InitIInv == Init => IInv
<1> SUFFICES ASSUME Init PROVE IInv
  OBVIOUS
<1>1. loaded \in Seq({}) /\ registry \in Seq({}) /\ Len(loaded) = 0 /\ Len(registry) = 0
  BY DEF Init
<1>2. Owned = {}
  BY <1>1 DEF Owned
<1>3. ListsInv
  BY <1>1 DEF Init, ListsInv
<1>4. BlocksInv
  BY <1>1, <1>2, FS_EmptySet DEF Init, BlocksInv
<1>. QED  BY <1>3, <1>4 DEF IInv

\* Steps that change neither the loader's list nor its blocks.
LEMMA LoaderKept ==
  ASSUME BlocksInv, loaded' = loaded, blocks' \ kept' = blocks \ kept,
         kept \subseteq kept', kept' \subseteq blocks', blocks' \subseteq Blocks
  PROVE  BlocksInv'
<1>1. Owned' = Owned
  BY DEF Owned
<1>2. Owned \cap kept' = {}
  BY DEF BlocksInv
<1>. QED  BY <1>1, <1>2 DEF BlocksInv

(***************************************************************************)
(* A load that succeeds links a module with a new name and two new blocks. *)
(***************************************************************************)
LEMMA LoadIInv ==
  ASSUME IInv, NEW img \in Images, NEW c, NEW b, NEW m, LoadSucceeds(img, c, b, m)
  PROVE  IInv'
<1> DEFINE n == Len(loaded)
<1>1. PICK S : loaded \in Seq(S)
  BY DEF IInv, ListsInv
<1> DEFINE val == SymbolsAt(img, b)
           e == [name |-> img.name, img |-> img, base |-> b, mod |-> m,
                 size |-> module_calc_size(img), init |-> InitAddr(img, val),
                 refs |-> [r \in DOMAIN img.rels |-> val[img.rels[r].sym]],
                 first |-> img \notin touched]
<1>2. /\ loaded' = <<e>> \o loaded
      /\ e.name = img.name /\ e.base = b /\ e.mod = m
  BY DEF LoadSucceeds
<1> HIDE DEF e
<1>3. /\ b \in Blocks /\ b \notin blocks /\ m \in Blocks /\ m \notin blocks /\ m # b
      /\ blocks' = blocks \cup {b, m}
      /\ UNCHANGED <<kept, registry, count>>
      /\ \A i \in 1 .. n : loaded[i].name # img.name
  <2>1. /\ FirstFit({c}, b) /\ FirstFit({c, b}, m)
        /\ blocks' = blocks \cup {b, m}
        /\ UNCHANGED <<kept, registry, count>>
        /\ ~AlreadyLoaded(img.name)
    BY DEF LoadSucceeds, NameFree
  <2>2. DOMAIN loaded = 1 .. n
    BY <1>1
  <2>. QED  BY <2>1, <2>2, FirstFitFree DEF AlreadyLoaded
<1>4. /\ loaded' \in Seq(S \cup {e}) /\ Len(loaded') = n + 1 /\ n \in Nat
      /\ \A i \in 1 .. n + 1 :
            loaded'[i] = IF i = 1 THEN e ELSE loaded[i - 1]
  BY <1>1, <1>2, Prepended
<1> HIDE DEF n
<1>5. Owned \subseteq blocks /\ Owned \cap kept = {} /\ blocks \ kept = Owned
      /\ IsFiniteSet(Owned) /\ Cardinality(Owned) = 2 * n
      /\ kept \subseteq blocks /\ blocks \subseteq Blocks
      /\ \A i \in 1 .. n : loaded[i].base \in Owned /\ loaded[i].mod \in Owned
  BY DEF IInv, BlocksInv, Owned, n
<1>6. \A i \in 1 .. n + 1 : i # 1 => i - 1 \in 1 .. n
  BY <1>4
<1>7. Owned' = (Owned \cup {b}) \cup {m}
  <2>1. ASSUME NEW i \in 1 .. n + 1
        PROVE  /\ loaded'[i].base \in (Owned \cup {b}) \cup {m}
               /\ loaded'[i].mod \in (Owned \cup {b}) \cup {m}
    BY <1>2, <1>4, <1>5, <1>6
  <2>2. ASSUME NEW i \in 1 .. n
        PROVE  loaded[i].base \in Owned' /\ loaded[i].mod \in Owned'
    <3>1. i + 1 \in 1 .. n + 1 /\ loaded'[i + 1] = loaded[i]
      BY <1>4
    <3>. QED  BY <1>4, <3>1 DEF Owned
  <2>3. b \in Owned' /\ m \in Owned'
    <3>1. 1 \in 1 .. n + 1
      BY <1>4
    <3>. QED  BY <1>2, <1>4, <3>1 DEF Owned
  <2>4. Owned' \subseteq (Owned \cup {b}) \cup {m}
    <3>1. DOMAIN loaded' = 1 .. n + 1
      BY <1>4
    <3>2. Owned' = {loaded'[i].base : i \in 1 .. n + 1} \cup {loaded'[i].mod : i \in 1 .. n + 1}
      BY <1>4, <3>1 DEF Owned
    <3>. QED  BY <2>1, <3>2
  <2>5. Owned \subseteq Owned'
    <3>1. Owned = {loaded[i].base : i \in 1 .. n} \cup {loaded[i].mod : i \in 1 .. n}
      BY DEF Owned, n
    <3>. QED  BY <2>2, <3>1
  <2>. QED  BY <2>3, <2>4, <2>5
<1>8. IsFiniteSet(Owned') /\ Cardinality(Owned') = 2 * (n + 1)
  <2>1. b \notin Owned /\ m \notin Owned \cup {b}
    BY <1>3, <1>5
  <2>2. /\ IsFiniteSet(Owned \cup {b})
        /\ Cardinality(Owned \cup {b}) = 2 * n + 1
    BY <1>5, <2>1, FS_AddElement, SMTT(40)
  <2>3. /\ IsFiniteSet((Owned \cup {b}) \cup {m})
        /\ Cardinality((Owned \cup {b}) \cup {m}) = (2 * n + 1) + 1
    BY <2>1, <2>2, FS_AddElement
  <2>. QED  BY <1>4, <1>7, <2>3
<1>9. BlocksInv'
  <2>1. \A i, j \in 1 .. n :
          /\ loaded[i].base # loaded[j].mod
          /\ loaded[i].base = loaded[j].base => i = j
          /\ loaded[i].mod = loaded[j].mod => i = j
    BY DEF IInv, BlocksInv, n
  <2>2. ASSUME NEW i \in 1 .. n + 1, NEW j \in 1 .. n + 1
        PROVE  /\ loaded'[i].base # loaded'[j].mod
               /\ loaded'[i].base = loaded'[j].base => i = j
               /\ loaded'[i].mod = loaded'[j].mod => i = j
    <3>1. CASE i = 1 /\ j = 1
      BY <1>2, <1>3, <1>4, <3>1
    <3>2. CASE i = 1 /\ j # 1
      <4>1. j - 1 \in 1 .. n /\ loaded'[j] = loaded[j - 1] /\ loaded'[i] = e
        BY <1>4, <1>6, <3>2
      <4>. QED  BY <1>2, <1>3, <1>5, <4>1
    <3>3. CASE i # 1 /\ j = 1
      <4>1. i - 1 \in 1 .. n /\ loaded'[i] = loaded[i - 1] /\ loaded'[j] = e
        BY <1>4, <1>6, <3>3
      <4>. QED  BY <1>2, <1>3, <1>5, <4>1
    <3>4. CASE i # 1 /\ j # 1
      <4>1. /\ i - 1 \in 1 .. n /\ loaded'[i] = loaded[i - 1]
            /\ j - 1 \in 1 .. n /\ loaded'[j] = loaded[j - 1]
        BY <1>4, <1>6, <3>4
      <4>2. i - 1 = j - 1 => i = j
        OBVIOUS
      <4>. QED  BY <2>1, <4>1, <4>2
    <3>. QED  BY <3>1, <3>2, <3>3, <3>4
  <2>3. /\ blocks' \subseteq Blocks /\ kept' \subseteq blocks'
        /\ blocks' \ kept' = Owned' /\ Owned' \cap kept' = {}
    BY <1>3, <1>5, <1>7
  <2>. QED  BY <1>4, <1>8, <2>2, <2>3 DEF BlocksInv
<1>10. ListsInv'
  <2>1. \A i, j \in 1 .. n : loaded[i].name = loaded[j].name => i = j
    BY DEF IInv, ListsInv, n
  <2>2. ASSUME NEW i \in 1 .. n + 1, NEW j \in 1 .. n + 1,
               loaded'[i].name = loaded'[j].name
        PROVE  i = j
    <3>1. CASE i = 1 /\ j = 1
      BY <3>1
    <3>2. CASE i = 1 /\ j # 1
      BY <1>2, <1>3, <1>4, <1>6, <2>2, <3>2 DEF n
    <3>3. CASE i # 1 /\ j = 1
      BY <1>2, <1>3, <1>4, <1>6, <2>2, <3>3 DEF n
    <3>4. CASE i # 1 /\ j # 1
      <4>0. /\ i - 1 \in 1 .. n /\ loaded'[i] = loaded[i - 1]
            /\ j - 1 \in 1 .. n /\ loaded'[j] = loaded[j - 1]
        BY <1>4, <1>6, <3>4
      <4>1. i - 1 = j - 1
        BY <2>1, <2>2, <4>0
      <4>. QED  BY <4>1
    <3>. QED  BY <3>1, <3>2, <3>3, <3>4
  <2>3. /\ \E R : loaded' \in Seq(R)
        /\ \E R : registry' \in Seq(R)
    BY <1>3, <1>4 DEF IInv, ListsInv
  <2>. QED  BY <1>3, <1>4, <2>2, <2>3 DEF IInv, ListsInv
<1>. QED  BY <1>9, <1>10 DEF IInv

(***************************************************************************)
(* rmmod takes the module out of the list and frees its two blocks, which  *)
(* are nobody else's.                                                      *)
(***************************************************************************)
LEMMA UnloadIInv ==
  ASSUME IInv, NEW name, module_unload_binary(name)
  PROVE  IInv'
<1> DEFINE n == Len(loaded)
<1>1. PICK S : loaded \in Seq(S)
  BY DEF IInv, ListsInv
<1>2. PICK k \in 1 .. n :
         /\ loaded' = RemoveAt(loaded, k)
         /\ blocks' = blocks \ {loaded[k].base, loaded[k].mod}
  <2>1. DOMAIN loaded = 1 .. n
    BY <1>1
  <2>. QED  BY <2>1 DEF module_unload_binary
<1>3. UNCHANGED <<kept, registry, count>>
  BY DEF module_unload_binary
<1>4. /\ loaded' \in Seq(S) /\ Len(loaded') = n - 1 /\ n \in Nat
      /\ \A i \in 1 .. n - 1 :
            loaded'[i] = IF i < k THEN loaded[i] ELSE loaded[i + 1]
  <2> DEFINE rest == RemoveAt(loaded, k)
  <2>1. /\ rest \in Seq(S) /\ Len(rest) = n - 1
        /\ \A i \in 1 .. n - 1 : rest[i] = IF i < k THEN loaded[i] ELSE loaded[i + 1]
    BY <1>1, Removed
  <2>2. loaded' = rest /\ n \in Nat
    BY <1>1, <1>2
  <2> HIDE DEF rest
  <2>. QED  BY <2>1, <2>2
<1> DEFINE From(i) == IF i < k THEN i ELSE i + 1
<1> HIDE DEF n
<1>5. \A i \in 1 .. n - 1 : /\ From(i) \in 1 .. n /\ From(i) # k
                            /\ loaded'[i] = loaded[From(i)]
  BY <1>2, <1>4
<1>6. \A i, j \in 1 .. n - 1 : From(i) = From(j) => i = j
  BY <1>2, <1>4
<1>7. \A i \in 1 .. n : i # k => \E j \in 1 .. n - 1 : From(j) = i
  <2> SUFFICES ASSUME NEW i \in 1 .. n, i # k
               PROVE  \E j \in 1 .. n - 1 : From(j) = i
    OBVIOUS
  <2>1. CASE i < k
    <3>1. i \in 1 .. n - 1 /\ From(i) = i
      BY <1>2, <1>4, <2>1
    <3>. QED  BY <3>1
  <2>2. CASE ~(i < k)
    <3>1. i - 1 \in 1 .. n - 1 /\ From(i - 1) = i
      BY <1>2, <1>4, <2>2
    <3>. QED  BY <3>1
  <2>. QED  BY <2>1, <2>2
<1> HIDE DEF From
<1>8. /\ \A i, j \in 1 .. n :
            /\ loaded[i].base # loaded[j].mod
            /\ loaded[i].base = loaded[j].base => i = j
            /\ loaded[i].mod = loaded[j].mod => i = j
            /\ loaded[i].name = loaded[j].name => i = j
      /\ Owned \cap kept = {} /\ blocks \ kept = Owned
      /\ IsFiniteSet(Owned) /\ Cardinality(Owned) = 2 * n
      /\ kept \subseteq blocks /\ blocks \subseteq Blocks
  BY DEF IInv, BlocksInv, ListsInv, n
<1> DEFINE b == loaded[k].base
           m == loaded[k].mod
<1>9. /\ b \in Owned /\ m \in Owned /\ b # m
      /\ \A i \in 1 .. n : i # k => /\ loaded[i].base \notin {b, m}
                                   /\ loaded[i].mod \notin {b, m}
  BY <1>2, <1>8 DEF Owned, n
<1> HIDE DEF b, m
<1>10. Owned' = (Owned \ {b}) \ {m}
  <2>1. ASSUME NEW i \in 1 .. n - 1
        PROVE  /\ loaded'[i].base \in (Owned \ {b}) \ {m}
               /\ loaded'[i].mod \in (Owned \ {b}) \ {m}
    <3>1. loaded[From(i)].base \in Owned /\ loaded[From(i)].mod \in Owned
      BY <1>5 DEF Owned, n
    <3>. QED  BY <1>5, <1>9, <3>1
  <2>2. ASSUME NEW i \in 1 .. n, i # k
        PROVE  loaded[i].base \in Owned' /\ loaded[i].mod \in Owned'
    <3>1. PICK j \in 1 .. n - 1 : From(j) = i
      BY <1>7, <2>2
    <3>. QED  BY <1>4, <1>5, <3>1 DEF Owned
  <2>3. Owned' \subseteq (Owned \ {b}) \ {m}
    BY <1>4, <2>1 DEF Owned
  <2>4. (Owned \ {b}) \ {m} \subseteq Owned'
    <3>1. Owned = {loaded[i].base : i \in 1 .. n} \cup {loaded[i].mod : i \in 1 .. n}
      BY DEF Owned, n
    <3>. QED  BY <2>2, <3>1 DEF b, m
  <2>. QED  BY <2>3, <2>4
<1>11. IsFiniteSet(Owned') /\ Cardinality(Owned') = 2 * (n - 1)
  <2>1. /\ IsFiniteSet(Owned \ {b})
        /\ Cardinality(Owned \ {b}) = 2 * n - 1
    BY <1>8, <1>9, FS_RemoveElement
  <2>2. m \in Owned \ {b}
    BY <1>9
  <2>3. /\ IsFiniteSet((Owned \ {b}) \ {m})
        /\ Cardinality((Owned \ {b}) \ {m}) = (2 * n - 1) - 1
    BY <2>1, <2>2, FS_RemoveElement
  <2>. QED  BY <1>4, <1>10, <2>3
<1>12. BlocksInv'
  <2>1. /\ blocks' \subseteq Blocks /\ kept' \subseteq blocks'
        /\ blocks' \ kept' = Owned' /\ Owned' \cap kept' = {}
    <3>1. blocks' = blocks \ {b, m} /\ kept' = kept
      BY <1>2, <1>3 DEF b, m
    <3>. QED  BY <1>8, <1>9, <1>10, <3>1
  <2>2. \A i, j \in 1 .. n - 1 :
           /\ loaded'[i].base # loaded'[j].mod
           /\ loaded'[i].base = loaded'[j].base => i = j
           /\ loaded'[i].mod = loaded'[j].mod => i = j
    BY <1>5, <1>6, <1>8
  <2>. QED  BY <1>4, <1>11, <2>1, <2>2 DEF BlocksInv
<1>13. ListsInv'
  <2>1. \A i, j \in 1 .. n - 1 : loaded'[i].name = loaded'[j].name => i = j
    BY <1>5, <1>6, <1>8
  <2>2. (\E R : loaded' \in Seq(R)) /\ (\E R : registry' \in Seq(R))
    BY <1>3, <1>4 DEF IInv, ListsInv
  <2>. QED  BY <1>3, <1>4, <2>1, <2>2 DEF IInv, ListsInv
<1>. QED  BY <1>12, <1>13 DEF IInv

LEMMA RegisterIInv ==
  ASSUME IInv, NEW name, NEW copy, NEW ok, module_register(name, copy, ok)
  PROVE  IInv'
<1> DEFINE n == Len(registry)
           e == [name |-> name, copy |-> copy]
<1>1. PICK S : registry \in Seq(S)
  BY DEF IInv, ListsInv
<1>2. /\ loaded' = loaded
      /\ blocks' = blocks \cup ({copy} \ {0})
      /\ kept' = kept \cup ({copy} \ {0})
      /\ copy = 0 \/ FirstFit({}, copy)
  BY DEF module_register, loader
<1>3. BlocksInv'
  <2>1. blocks' \ kept' = blocks \ kept /\ kept' \subseteq blocks'
        /\ blocks' \subseteq Blocks
    BY <1>2, FirstFitFree DEF IInv, BlocksInv
  <2>. QED  BY <1>2, <2>1, LoaderKept DEF IInv
<1>4. CASE Registered(name) \/ ~ok
  <2>1. registry' = registry /\ count' = count
    BY <1>4 DEF module_register
  <2>. QED  BY <1>2, <1>3, <2>1 DEF IInv, ListsInv
<1>5. CASE ~(Registered(name) \/ ~ok)
  <2>1. registry' = <<e>> \o registry /\ count' = count + 1
    BY <1>5 DEF module_register
  <2>2. /\ registry' \in Seq(S \cup {e}) /\ Len(registry') = n + 1 /\ n \in Nat
        /\ \A i \in 1 .. n + 1 :
              registry'[i] = IF i = 1 THEN e ELSE registry[i - 1]
    BY <1>1, <2>1, Prepended
  <2>3. \A i \in 1 .. n : registry[i].name # name
    <3>1. DOMAIN registry = 1 .. n
      BY <1>1
    <3>. QED  BY <1>5, <3>1 DEF Registered
  <2>4. e.name = name
    OBVIOUS
  <2>5. \A i, j \in 1 .. n : registry[i].name = registry[j].name => i = j
    BY DEF IInv, ListsInv
  <2>6. count = n
    BY DEF IInv, ListsInv
  <2> HIDE DEF n, e
  <2>7. ASSUME NEW i \in 1 .. n + 1, NEW j \in 1 .. n + 1,
               registry'[i].name = registry'[j].name
        PROVE  i = j
    <3>1. \A q \in 1 .. n + 1 : q # 1 => q - 1 \in 1 .. n
      BY <2>2
    <3>2. CASE i # 1 /\ j # 1
      <4>1. /\ i - 1 \in 1 .. n /\ registry'[i] = registry[i - 1]
            /\ j - 1 \in 1 .. n /\ registry'[j] = registry[j - 1]
        BY <2>2, <3>1, <3>2
      <4>2. i - 1 = j - 1
        BY <2>5, <2>7, <4>1
      <4>. QED  BY <4>2
    <3>3. CASE i = 1 /\ j # 1
      BY <2>2, <2>3, <2>4, <2>7, <3>1, <3>3
    <3>4. CASE i # 1 /\ j = 1
      BY <2>2, <2>3, <2>4, <2>7, <3>1, <3>4
    <3>. QED  BY <3>2, <3>3, <3>4
  <2>8. (\E R : loaded' \in Seq(R)) /\ (\E R : registry' \in Seq(R))
    BY <1>2, <2>2 DEF IInv, ListsInv
  <2>9. ListsInv'
    BY <1>2, <2>1, <2>2, <2>6, <2>7, <2>8 DEF IInv, ListsInv
  <2>. QED  BY <1>3, <2>9 DEF IInv
<1>. QED  BY <1>4, <1>5

LEMMA UnregisterIInv ==
  ASSUME IInv, NEW name, module_unregister(name)
  PROVE  IInv'
<1> DEFINE n == Len(registry)
<1>1. PICK S : registry \in Seq(S)
  BY DEF IInv, ListsInv
<1>2. UNCHANGED <<loaded, blocks, kept>> /\ count' = count - 1
  BY DEF module_unregister, loader
<1>3. PICK k \in 1 .. n : registry' = RemoveAt(registry, k)
  <2>1. DOMAIN registry = 1 .. n
    BY <1>1
  <2>. QED  BY <2>1 DEF module_unregister
<1>4. /\ registry' \in Seq(S) /\ Len(registry') = n - 1 /\ n \in Nat
      /\ \A i \in 1 .. n - 1 :
            registry'[i] = IF i < k THEN registry[i] ELSE registry[i + 1]
  <2>1. /\ RemoveAt(registry, k) \in Seq(S) /\ Len(RemoveAt(registry, k)) = n - 1
        /\ \A i \in 1 .. n - 1 :
              RemoveAt(registry, k)[i] = IF i < k THEN registry[i] ELSE registry[i + 1]
    BY <1>1, Removed
  <2>2. n \in Nat
    BY <1>1
  <2>. QED  BY <1>3, <2>1, <2>2
<1>5. \A i, j \in 1 .. n : registry[i].name = registry[j].name => i = j
  BY DEF IInv, ListsInv
<1>6. count = n
  BY DEF IInv, ListsInv
<1> HIDE DEF n
<1>7. \A i, j \in 1 .. n - 1 : registry'[i].name = registry'[j].name => i = j
  <2> DEFINE From(i) == IF i < k THEN i ELSE i + 1
  <2>1. \A i \in 1 .. n - 1 : /\ From(i) \in 1 .. n
                              /\ registry'[i] = registry[From(i)]
    BY <1>3, <1>4
  <2>2. \A i, j \in 1 .. n - 1 : From(i) = From(j) => i = j
    BY <1>3, <1>4
  <2> HIDE DEF From
  <2>. QED  BY <1>5, <2>1, <2>2
<1>8. ListsInv'
  <2>1. (\E R : loaded' \in Seq(R)) /\ (\E R : registry' \in Seq(R))
    BY <1>2, <1>4 DEF IInv, ListsInv
  <2>. QED  BY <1>2, <1>4, <1>6, <1>7, <2>1 DEF IInv, ListsInv
<1>9. BlocksInv'
  BY <1>2, LoaderKept DEF IInv, BlocksInv
<1>. QED  BY <1>8, <1>9 DEF IInv

LEMMA NextIInv == IInv /\ [Next]_vars => IInv'
<1> SUFFICES ASSUME IInv, [Next]_vars PROVE IInv'
  OBVIOUS
<1>1. ASSUME UNCHANGED <<loaded, blocks, kept, registry, count>> PROVE IInv'
  <2>1. BlocksInv'
    BY <1>1, LoaderKept DEF IInv, BlocksInv
  <2>. QED  BY <1>1, <2>1 DEF IInv, ListsInv
<1>2. ASSUME NEW img \in Images, LoadRefused(img) PROVE IInv'
  BY <1>1, <1>2 DEF LoadRefused
<1>3. ASSUME NEW img \in Images, NEW b, LoadFails(img, b) PROVE IInv'
  BY <1>1, <1>3 DEF LoadFails, AfterFailure
<1>4. CASE UNCHANGED vars
  BY <1>1, <1>4 DEF vars, loader
<1>. QED  BY <1>2, <1>3, <1>4, LoadIInv, UnloadIInv, RegisterIInv, UnregisterIInv
          DEF Next

(***************************************************************************)
(* ListsInv and BlocksInv are inductive over every path of load_module,    *)
(* unload_module, register_module and unregister_module.                   *)
(***************************************************************************)
THEOREM Invariance == Spec => []IInv
BY InitIInv, NextIInv, PTL DEF Spec

(***************************************************************************)
(* Every block that the loader holds belongs to one loaded module, for any *)
(* number of loads, failures and unloads: none is lost and none is shared. *)
(***************************************************************************)
THEOREM BlocksCorrect == Spec => []BlocksAccountedFor
<1>1. IInv => BlocksAccountedFor
  <2> SUFFICES ASSUME IInv PROVE BlocksAccountedFor
    OBVIOUS
  <2>1. DOMAIN loaded = 1 .. Len(loaded)
    BY DEF IInv, ListsInv
  <2>. QED  BY <2>1 DEF IInv, BlocksInv, BlocksAccountedFor, Owned
<1>. QED  BY <1>1, Invariance, PTL

(***************************************************************************)
(* Both lists hold a name once, and module_count is the length of the list *)
(* of module.c.                                                            *)
(***************************************************************************)
THEOREM ListsCorrect == Spec => []ModuleListsExact
<1>1. IInv => ModuleListsExact
  <2> SUFFICES ASSUME IInv PROVE ModuleListsExact
    OBVIOUS
  <2>1. DOMAIN loaded = 1 .. Len(loaded) /\ DOMAIN registry = 1 .. Len(registry)
    BY DEF IInv, ListsInv
  <2>. QED  BY <2>1 DEF IInv, ListsInv, ModuleListsExact
<1>. QED  BY <1>1, Invariance, PTL

----------------------------------------------------------------------------
(***************************************************************************)
(* The layout of an image.  SizeTo is the one function its recursion       *)
(* describes, and it grows: no section ends behind the size of the module. *)
(***************************************************************************)
Words(img, n, w) ==
    w = [i \in 0 .. n |-> IF i = 0 THEN 0 ELSE w[i - 1] + AllocSize(img.secs[i])]

LEMMA WordsExist ==
  ASSUME NEW img \in Images
  PROVE  \A n \in 0 .. Len(img.secs) : \E w \in [0 .. n -> Nat] : Words(img, n, w)
<1> DEFINE Has(n) == \E w \in [0 .. n -> Nat] : Words(img, n, w)
           Bad == {n \in 0 .. Len(img.secs) : ~Has(n)}
<1>1. /\ Len(img.secs) \in Nat
      /\ \A i \in 1 .. Len(img.secs) : AllocSize(img.secs[i]) \in Nat
  BY ModulesAssumption DEF Image, AllocSize
<1>2. Has(0)
  <2>1. /\ [i \in 0 .. 0 |-> 0] \in [0 .. 0 -> Nat]
        /\ Words(img, 0, [i \in 0 .. 0 |-> 0])
    BY DEF Words
  <2>. QED  BY <2>1
<1>3. ASSUME NEW n \in 0 .. Len(img.secs), n # 0, Has(n - 1) PROVE Has(n)
  <2>1. PICK w \in [0 .. n - 1 -> Nat] : Words(img, n - 1, w)
    BY <1>3
  <2> DEFINE a == AllocSize(img.secs[n])
             v == [i \in 0 .. n |-> IF i = n THEN w[n - 1] + a ELSE w[i]]
  <2>2. n - 1 \in 0 .. n - 1 /\ w[n - 1] \in Nat /\ a \in Nat
    BY <1>1, <1>3
  <2> HIDE DEF a
  <2>3. v \in [0 .. n -> Nat]
    BY <1>1, <2>2
  <2>4. ASSUME NEW i \in 0 .. n
        PROVE  v[i] = IF i = 0 THEN 0 ELSE v[i - 1] + AllocSize(img.secs[i])
    <3>1. CASE i = n
      BY <1>1, <1>3, <2>2, <3>1 DEF a
    <3>2. CASE i # n
      <4>1. i \in 0 .. n - 1 /\ (i # 0 => i - 1 \in 0 .. n - 1 /\ i - 1 # n)
        BY <1>1, <3>2
      <4>2. w[i] = IF i = 0 THEN 0 ELSE w[i - 1] + AllocSize(img.secs[i])
        BY <2>1, <4>1 DEF Words
      <4>. QED  BY <1>1, <3>2, <4>1, <4>2
    <3>. QED  BY <3>1, <3>2
  <2>5. Words(img, n, v)
    BY <2>4 DEF Words
  <2>. QED  BY <2>3, <2>5
<1> HIDE DEF Has
<1>4. Bad = {}
  <2> SUFFICES ASSUME Bad # {} PROVE FALSE
    OBVIOUS
  <2>1. Bad \in SUBSET Nat
    OBVIOUS
  <2>2. PICK n \in Bad : \A m \in Bad : n <= m
    BY <2>1, LeastElement
  <2>3. n \in 0 .. Len(img.secs) /\ ~Has(n) /\ n # 0
    BY <1>2
  <2>4. n - 1 \in 0 .. Len(img.secs) /\ ~(n <= n - 1)
    BY <1>1, <2>3
  <2>5. Has(n - 1)
    BY <2>2, <2>4
  <2>. QED  BY <1>3, <2>3, <2>5
<1>. QED  BY <1>4 DEF Has

LEMMA SizeToGrows ==
  ASSUME NEW img \in Images
  PROVE  /\ SizeTo(img) \in [0 .. Len(img.secs) -> Nat]
         /\ \A i \in 1 .. Len(img.secs) :
               SizeTo(img)[i] = SizeTo(img)[i - 1] + AllocSize(img.secs[i])
         /\ \A i \in 0 .. Len(img.secs) :
               SizeTo(img)[i] <= SizeTo(img)[Len(img.secs)]
<1> DEFINE n == Len(img.secs)
           size == SizeTo(img)
<1>1. n \in Nat /\ \A i \in 1 .. n : AllocSize(img.secs[i]) \in Nat
  BY ModulesAssumption DEF Image, AllocSize
<1>2. PICK w \in [0 .. n -> Nat] : Words(img, n, w)
  <2>1. n \in 0 .. Len(img.secs)
    BY <1>1
  <2> HIDE DEF n
  <2>. QED  BY <2>1, WordsExist
<1>3. Words(img, n, size)
  <2>1. \E v : Words(img, n, v)
    BY <1>2
  <2>. QED  BY <2>1 DEF SizeTo, Words
<1> HIDE DEF n, size
<1>4. /\ DOMAIN size = 0 .. n /\ size[0] = 0
      /\ \A i \in 1 .. n : size[i] = size[i - 1] + AllocSize(img.secs[i])
  <2>1. size = [i \in 0 .. n |-> IF i = 0 THEN 0 ELSE size[i - 1] + AllocSize(img.secs[i])]
    BY <1>3 DEF Words
  <2>2. \A i \in 0 .. n :
           size[i] = IF i = 0 THEN 0 ELSE size[i - 1] + AllocSize(img.secs[i])
    BY <2>1, Zenon
  <2>3. DOMAIN size = 0 .. n
    BY <2>1, Zenon
  <2>. QED  BY <1>1, <2>2, <2>3
<1>5. \A i \in 0 .. n : size[i] \in Nat
  <2> DEFINE Bad == {i \in 0 .. n : size[i] \notin Nat}
  <2> SUFFICES ASSUME Bad # {} PROVE FALSE
    OBVIOUS
  <2>1. Bad \in SUBSET Nat
    OBVIOUS
  <2>2. PICK i \in Bad : \A j \in Bad : i <= j
    BY <2>1, LeastElement
  <2>3. i \in 1 .. n /\ i - 1 \in 0 .. n /\ ~(i <= i - 1)
    BY <1>1, <1>4, <2>2
  <2>4. size[i - 1] \in Nat
    BY <2>2, <2>3
  <2>. QED  BY <1>1, <1>4, <2>2, <2>3, <2>4
<1>6. \A i \in 0 .. n : size[i] <= size[n]
  <2> DEFINE Bad == {d \in 0 .. n : ~(size[n - d] <= size[n])}
  <2>1. Bad = {}
    <3> SUFFICES ASSUME Bad # {} PROVE FALSE
      OBVIOUS
    <3>1. Bad \in SUBSET Nat
      OBVIOUS
    <3>2. PICK d \in Bad : \A j \in Bad : d <= j
      BY <3>1, LeastElement
    <3>3. d # 0
      BY <1>1, <1>5, <3>2
    <3>4. /\ d - 1 \in 0 .. n /\ ~(d <= d - 1)
          /\ n - (d - 1) \in 1 .. n /\ n - (d - 1) - 1 = n - d
          /\ n - d \in 0 .. n /\ n \in 0 .. n
      BY <1>1, <3>2, <3>3
    <3>5. size[n - (d - 1)] <= size[n]
      BY <3>2, <3>4
    <3>6. size[n - (d - 1)] = size[n - d] + AllocSize(img.secs[n - (d - 1)])
      BY <1>4, <3>4
    <3>7. size[n - d] <= size[n]
      <4>1. /\ size[n - d] \in Nat /\ size[n] \in Nat
            /\ AllocSize(img.secs[n - (d - 1)]) \in Nat
        BY <1>1, <1>5, <3>4
      <4>. QED  BY <3>5, <3>6, <4>1
    <3>. QED  BY <3>2, <3>7
  <2>2. \A i \in 0 .. n : n - i \in 0 .. n /\ n - (n - i) = i
    BY <1>1
  <2>3. \A d \in 0 .. n : size[n - d] <= size[n]
    BY <2>1
  <2>. QED  BY <2>2, <2>3
<1>7. size \in [0 .. n -> Nat]
  <2>1. size = [i \in 0 .. n |-> size[i]]
    BY <1>3 DEF Words
  <2>. QED  BY <1>5, <2>1
<1>. QED  BY <1>4, <1>6, <1>7 DEF n, size

\* Every section of a module ends within its block.
LEMMA SectionsFit ==
  ASSUME NEW img \in Images, NEW k \in DOMAIN img.secs
  PROVE  Offset(img, k) + AllocSize(img.secs[k]) <= module_calc_size(img)
<1> DEFINE n == Len(img.secs)
           size == SizeTo(img)
<1>1. n \in Nat /\ k \in 1 .. n /\ k \in 0 .. n /\ n \in 0 .. n /\ MinSize \in Nat
  BY ModulesAssumption DEF Image
<1>2. Offset(img, k) + AllocSize(img.secs[k]) = size[k]
  BY <1>1, SizeToGrows DEF Offset
<1>3. size[k] <= size[n] /\ size[k] \in Nat /\ size[n] \in Nat
  BY <1>1, SizeToGrows
<1> HIDE DEF size
<1>4. module_calc_size(img) = IF size[n] = 0 THEN MinSize ELSE size[n]
  BY DEF module_calc_size, size
<1>. QED  BY <1>1, <1>2, <1>3, <1>4

(***************************************************************************)
(* Relocation.  The two passes over a symbol table that no load has        *)
(* touched give every symbol its meaning.                                  *)
(***************************************************************************)
Values(img) == [k \in DOMAIN img.syms |-> img.syms[k].value]

LEMMA SymbolsMean ==
  ASSUME NEW img \in Images, NEW b, img.symtab, Unknown(img) = {},
         symval[img] = Values(img), NEW k \in DOMAIN img.syms
  PROVE  SymbolsAt(img, b)[k] = Meaning(img, b, k)
<1> DEFINE s == img.syms[k]
           first == FirstPass(img, b, symval[img])
<1>1. /\ DOMAIN first = DOMAIN img.syms
      /\ first[k] = IF Defined(img, s) THEN sh_addr(img, b, s.sec) + s.value ELSE s.value
  <2>1. symval[img][k] = s.value /\ DOMAIN symval[img] = DOMAIN img.syms
    BY DEF Values
  <2>. QED  BY <2>1 DEF FirstPass
<1>2. SymbolsAt(img, b)[k] =
         IF Undefined(s) /\ s.name \in DOMAIN KernelSyms THEN KernelSyms[s.name] ELSE first[k]
  BY <1>1 DEF SymbolsAt, Resolved
<1>3. Undefined(s) => ~Defined(img, s)
  BY ModulesAssumption DEF Undefined, Defined, Image
<1>4. Undefined(s) /\ s.name # NULL => s.name \in DOMAIN KernelSyms
  BY DEF Unknown
<1>5. NULL \notin DOMAIN KernelSyms
  BY ModulesAssumption
<1> HIDE DEF first
<1>6. Meaning(img, b, k) =
         IF Undefined(s) /\ s.name # NULL THEN KernelSyms[s.name]
         ELSE IF Defined(img, s) THEN sh_addr(img, b, s.sec) + s.value ELSE s.value
  BY DEF Meaning
<1> HIDE DEF s
<1>. QED  BY <1>1, <1>2, <1>3, <1>4, <1>5, <1>6

\* An image with a module_init has the symbol the loader enters it at.
LEMMA InitSymExists ==
  ASSUME NEW img \in Images, InitSym(img) # NULL
  PROVE  InitSym(img) \in DOMAIN img.syms
<1> DEFINE inits == {k \in DOMAIN img.syms : img.syms[k].name = "module_init"}
<1>1. inits # {} /\ InitSym(img) = Max(inits)
  BY DEF InitSym
<1>2. Len(img.syms) \in Nat /\ inits \in SUBSET (0 .. Len(img.syms))
  BY ModulesAssumption DEF Image
<1>3. inits \subseteq DOMAIN img.syms
  OBVIOUS
<1> HIDE DEF inits
<1>. QED  BY <1>1, <1>2, <1>3, GreatestElement

(***************************************************************************)
(* The inductive invariant of the relocation: an image that no load has    *)
(* touched has the symbol table of its file, and every element of the list *)
(* was right when it was made, which nothing changes later.                *)
(***************************************************************************)
Exact(e) ==
    /\ e.img \in Images /\ e.size = module_calc_size(e.img)
    /\ e.first =>
          /\ \A r \in DOMAIN e.img.rels :
                e.refs[r] = Meaning(e.img, e.base, e.img.rels[r].sym)
          /\ e.init = Meaning(e.img, e.base, InitSym(e.img))

UntouchedAsBuilt ==
    /\ DOMAIN symval = Images
    /\ \A img \in Images : img \notin touched => symval[img] = Values(img)

RelocInv ==
    /\ UntouchedAsBuilt
    /\ \A i \in 1 .. Len(loaded) : Exact(loaded[i])

LEMMA InitRelocInv == Init => RelocInv
<1> SUFFICES ASSUME Init PROVE RelocInv
  OBVIOUS
<1>1. UntouchedAsBuilt
  BY DEF Init, UntouchedAsBuilt, Values
<1>. QED  BY <1>1 DEF Init, RelocInv

\* An image that is written to in place is touched from then on.
LEMMA RelocateInv ==
  ASSUME UntouchedAsBuilt, NEW img \in Images, NEW b, Relocate(img, b)
  PROVE  UntouchedAsBuilt'
<1>1. CASE img.fresh
  BY <1>1 DEF Relocate, UntouchedAsBuilt
<1>2. CASE ~img.fresh /\ ~img.symtab
  <2>1. symval' = [symval EXCEPT ![img] = symval[img]] /\ touched' = touched
    BY <1>2 DEF Relocate, SymbolsAt
  <2>. QED  BY <2>1 DEF UntouchedAsBuilt
<1>3. CASE ~img.fresh /\ img.symtab
  <2>1. /\ symval' = [symval EXCEPT ![img] = SymbolsAt(img, b)]
        /\ touched' = touched \cup {img}
    BY <1>3 DEF Relocate
  <2>. QED  BY <2>1 DEF UntouchedAsBuilt
<1>. QED  BY <1>1, <1>2, <1>3

LEMMA LoadRelocInv ==
  ASSUME IInv, RelocInv, NEW img \in Images, NEW c, NEW b, NEW m,
         LoadSucceeds(img, c, b, m)
  PROVE  RelocInv'
<1> DEFINE n == Len(loaded)
           val == SymbolsAt(img, b)
           e == [name |-> img.name, img |-> img, base |-> b, mod |-> m,
                 size |-> module_calc_size(img), init |-> InitAddr(img, val),
                 refs |-> [r \in DOMAIN img.rels |-> val[img.rels[r].sym]],
                 first |-> img \notin touched]
<1>1. PICK S : loaded \in Seq(S)
  BY DEF IInv, ListsInv
<1>2. /\ loaded' = <<e>> \o loaded
      /\ Relocate(img, b)
      /\ img.symtab /\ Unknown(img) = {} /\ InitSym(img) # NULL
  BY DEF LoadSucceeds, Incomplete
<1>3. Exact(e)
  <2>1. CASE img \in touched
    BY <2>1 DEF Exact
  <2>2. CASE img \notin touched
    <3>1. symval[img] = Values(img)
      BY <2>2 DEF RelocInv, UntouchedAsBuilt
    <3>2. \A k \in DOMAIN img.syms : val[k] = Meaning(img, b, k)
      BY <1>2, <3>1, SymbolsMean
    <3>3. \A r \in DOMAIN img.rels : img.rels[r].sym \in DOMAIN img.syms
      BY ModulesAssumption DEF Image
    <3> HIDE DEF val
    <3>4. \A r \in DOMAIN img.rels : e.refs[r] = Meaning(img, b, img.rels[r].sym)
      BY <3>2, <3>3
    <3>5. e.init = Meaning(img, b, InitSym(img))
      BY <1>2, <3>2, InitSymExists DEF InitAddr
    <3>6. e.img = img /\ e.base = b /\ e.size = module_calc_size(img)
      OBVIOUS
    <3> HIDE DEF e
    <3>. QED  BY <3>4, <3>5, <3>6 DEF Exact
  <2>. QED  BY <2>1, <2>2
<1> HIDE DEF e
<1>4. /\ Len(loaded') = n + 1 /\ n \in Nat
      /\ \A i \in 1 .. n + 1 : loaded'[i] = IF i = 1 THEN e ELSE loaded[i - 1]
  BY <1>1, <1>2, Prepended
<1>5. \A i \in 1 .. n : Exact(loaded[i])
  BY DEF RelocInv
<1> HIDE DEF n
<1>6. ASSUME NEW i \in 1 .. n + 1 PROVE Exact(loaded'[i])
  <2>1. CASE i = 1
    BY <1>3, <1>4, <2>1
  <2>2. CASE i # 1
    <3>1. i - 1 \in 1 .. n /\ loaded'[i] = loaded[i - 1]
      BY <1>4, <2>2
    <3>. QED  BY <1>5, <3>1
  <2>. QED  BY <2>1, <2>2
<1>7. UntouchedAsBuilt'
  BY <1>2, RelocateInv DEF RelocInv
<1>8. (\A i \in 1 .. Len(loaded) : Exact(loaded[i]))'
  BY <1>4, <1>6 DEF Exact
<1>. QED  BY <1>7, <1>8 DEF RelocInv

LEMMA UnloadRelocInv ==
  ASSUME IInv, RelocInv, NEW name, module_unload_binary(name)
  PROVE  RelocInv'
<1> DEFINE n == Len(loaded)
<1>1. PICK S : loaded \in Seq(S)
  BY DEF IInv, ListsInv
<1>2. PICK k \in 1 .. n : loaded' = RemoveAt(loaded, k)
  <2>1. DOMAIN loaded = 1 .. n
    BY <1>1
  <2>. QED  BY <2>1 DEF module_unload_binary
<1>3. /\ Len(loaded') = n - 1 /\ n \in Nat
      /\ \A i \in 1 .. n - 1 : loaded'[i] = IF i < k THEN loaded[i] ELSE loaded[i + 1]
  <2>1. /\ Len(RemoveAt(loaded, k)) = n - 1
        /\ \A i \in 1 .. n - 1 :
              RemoveAt(loaded, k)[i] = IF i < k THEN loaded[i] ELSE loaded[i + 1]
    BY <1>1, Removed
  <2>2. n \in Nat
    BY <1>1
  <2>. QED  BY <1>2, <2>1, <2>2
<1>4. \A i \in 1 .. n : Exact(loaded[i])
  BY DEF RelocInv
<1> HIDE DEF n
<1>5. ASSUME NEW i \in 1 .. n - 1 PROVE Exact(loaded'[i])
  <2>1. /\ i \in 1 .. n /\ i + 1 \in 1 .. n
        /\ loaded'[i] = loaded[i] \/ loaded'[i] = loaded[i + 1]
    BY <1>3
  <2>. QED  BY <1>4, <2>1
<1>6. UNCHANGED <<symval, touched>>
  BY DEF module_unload_binary
<1>7. UntouchedAsBuilt'
  BY <1>6 DEF RelocInv, UntouchedAsBuilt
<1>8. (\A i \in 1 .. Len(loaded) : Exact(loaded[i]))'
  BY <1>3, <1>5 DEF Exact
<1>. QED  BY <1>7, <1>8 DEF RelocInv

LEMMA NextRelocInv == IInv /\ RelocInv /\ [Next]_vars => RelocInv'
<1> SUFFICES ASSUME IInv, RelocInv, [Next]_vars PROVE RelocInv'
  OBVIOUS
<1>1. ASSUME UNCHANGED <<loaded, symval, touched>> PROVE RelocInv'
  BY <1>1 DEF RelocInv, UntouchedAsBuilt, Exact
<1>2. ASSUME NEW img \in Images, LoadRefused(img) PROVE RelocInv'
  BY <1>1, <1>2 DEF LoadRefused
<1>3. ASSUME NEW img \in Images, NEW b, LoadFails(img, b) PROVE RelocInv'
  <2>1. UntouchedAsBuilt'
    BY <1>3, RelocateInv DEF LoadFails, RelocInv
  <2>2. loaded' = loaded
    BY <1>3 DEF LoadFails
  <2>. QED  BY <2>1, <2>2 DEF RelocInv, Exact
<1>4. ASSUME NEW name, NEW copy, NEW ok, module_register(name, copy, ok)
      PROVE  RelocInv'
  BY <1>1, <1>4 DEF module_register, loader
<1>5. ASSUME NEW name, module_unregister(name) PROVE RelocInv'
  BY <1>1, <1>5 DEF module_unregister, loader
<1>6. CASE UNCHANGED vars
  BY <1>1, <1>6 DEF vars, loader
<1>. QED  BY <1>2, <1>3, <1>4, <1>5, <1>6, LoadRelocInv, UnloadRelocInv DEF Next

(***************************************************************************)
(* A loaded module lies within its block, and unless an earlier load had   *)
(* relocated its image, what it refers to and where it is entered is what  *)
(* its symbols mean.                                                       *)
(***************************************************************************)
THEOREM RelocationCorrect == Spec => []RelocationsExact
<1>1. IInv /\ RelocInv => RelocationsExact
  <2> SUFFICES ASSUME IInv, RelocInv PROVE RelocationsExact
    OBVIOUS
  <2>1. DOMAIN loaded = 1 .. Len(loaded)
    BY DEF IInv, ListsInv
  <2>2. ASSUME NEW i \in 1 .. Len(loaded), NEW k \in DOMAIN loaded[i].img.secs
        PROVE  Offset(loaded[i].img, k) + AllocSize(loaded[i].img.secs[k])
                  <= loaded[i].size
    BY SectionsFit DEF RelocInv, Exact
  <2>. QED  BY <2>1, <2>2 DEF RelocInv, Exact, RelocationsExact
<1>2. Init => RelocInv
  BY InitRelocInv
<1>. QED  BY <1>1, <1>2, InitIInv, NextIInv, NextRelocInv, PTL DEF Spec
=============================================================================
