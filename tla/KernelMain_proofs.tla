-------------------------- MODULE KernelMain_proofs --------------------------
(***************************************************************************)
(* Proofs about the kernel's one thread and the parts it is made of: the   *)
(* task list under any calls and ticks, transfers with a drive of any size,*)
(* the reading of a clock that goes on, and the line on a screen of any    *)
(* size.                                                                   *)
(***************************************************************************)
EXTENDS KernelMain, FiniteSetTheorems, SequenceTheorems, FunctionTheorems,
        WellFoundedInduction, TLAPS

\* A nonempty set of naturals has a least element, which is its Min.
LEMMA LeastElement ==
  ASSUME NEW S \in SUBSET Nat, S # {}
  PROVE  Min(S) \in S /\ \A y \in S : Min(S) <= y
<1>1. PICK x \in S : \A y \in S : ~ (<<y, x>> \in OpToRel(<, Nat))
  BY NatLessThanWellFounded, WFMin, S # {}
<1>2. \A y \in S : ~ (y < x)
  BY <1>1 DEF OpToRel
<1>3. \E z \in S : \A y \in S : z <= y
  BY <1>2
<1>. QED  BY <1>3 DEF Min

\* A set of numbers that has 0 and with every number its successor has all
\* numbers up to a bound.
LEMMA UpTo ==
  ASSUME NEW n \in Nat, NEW S,
         0 \in S, \A i \in 0 .. n : i \in S /\ i < n => i + 1 \in S
  PROVE  0 .. n \subseteq S
<1> DEFINE Bad == {i \in 0 .. n : i \notin S}
<1> SUFFICES ASSUME Bad # {} PROVE FALSE
  OBVIOUS
<1>1. Min(Bad) \in Bad /\ \A y \in Bad : Min(Bad) <= y
  <2>1. Bad \in SUBSET Nat
    OBVIOUS
  <2> HIDE DEF Bad
  <2>. QED  BY <2>1, LeastElement
<1>2. PICK i \in 0 .. n : i \notin S /\ \A y \in Bad : i <= y
  BY <1>1
<1>3. i # 0
  BY <1>2
<1>4. i - 1 \in 0 .. n /\ i - 1 < n /\ i - 1 + 1 = i /\ ~(i <= i - 1)
  BY <1>2, <1>3
<1>5. i - 1 \in S
  BY <1>2, <1>4
<1>. QED  BY <1>2, <1>4, <1>5

\* A finite nonempty set of naturals has a greatest element, which is its Max.
LEMMA GreatestOfFinite ==
  ASSUME NEW S \in SUBSET Nat, S # {}, IsFiniteSet(S)
  PROVE  Max(S) \in S /\ \A y \in S : y <= Max(S)
<1> DEFINE n == Cardinality(S)
<1>1. PICK b \in Bijection(1 .. n, S) : n \in Nat
  BY FS_CardinalityType DEF ExistsBijection
<1>2. /\ \A i \in 1 .. n : b[i] \in S /\ b[i] \in Nat
      /\ \A y \in S : \E i \in 1 .. n : b[i] = y
  BY DEF Bijection, Surjection
<1> HIDE DEF n
<1> DEFINE T == {k \in 0 .. n : \E c \in Nat : \A i \in 1 .. k : b[i] <= c}
<1>3. 0 \in T
  BY <1>1
<1>4. ASSUME NEW k \in 0 .. n, k \in T, k < n PROVE k + 1 \in T
  <2>1. PICK c \in Nat : \A i \in 1 .. k : b[i] <= c
    BY <1>4
  <2>2. k + 1 \in 1 .. n /\ b[k + 1] \in Nat /\ \A i \in 1 .. k + 1 : i \in 1 .. k \/ i = k + 1
    BY <1>1, <1>2, <1>4
  <2>3. PICK d \in Nat : c <= d /\ b[k + 1] <= d
    <3>1. \A x, y \in Nat : x <= x + y /\ y <= x + y /\ x + y \in Nat
      OBVIOUS
    <3>. QED  BY <2>2, <3>1
  <2>4. ASSUME NEW i \in 1 .. k + 1 PROVE b[i] <= d
    <3>1. CASE i \in 1 .. k
      <4>0. i \in 1 .. n
        BY <1>1, <1>4, <3>1
      <4>1. b[i] <= c /\ b[i] \in Nat
        BY <1>2, <2>1, <3>1, <4>0
      <4>. QED  BY <2>3, <4>1
    <3>. QED  BY <2>2, <2>3, <3>1
  <2>5. k + 1 \in 0 .. n
    BY <1>1, <1>4
  <2>6. \E e \in Nat : \A i \in 1 .. k + 1 : b[i] <= e
    BY <2>4
  <2>. QED  BY <2>5, <2>6
<1>5. PICK c \in Nat : \A i \in 1 .. n : b[i] <= c
  <2>1. 0 .. n \subseteq T
    <3> HIDE DEF T
    <3>. QED  BY <1>1, <1>3, <1>4, UpTo
  <2>2. n \in T
    <3> HIDE DEF T
    <3>1. n \in 0 .. n
      BY <1>1
    <3>. QED  BY <2>1, <3>1
  <2>. QED  BY <2>2
<1> DEFINE U == {x \in Nat : \A y \in S : y <= x}
<1>6. Min(U) \in U /\ \A x \in U : Min(U) <= x
  <2>1. c \in U /\ U \in SUBSET Nat
    BY <1>2, <1>5
  <2> HIDE DEF U
  <2>. QED  BY <2>1, LeastElement
<1>7. PICK m \in Nat : (\A y \in S : y <= m) /\ \A x \in U : m <= x
  BY <1>6
<1>8. m \in S
  <2>1. ASSUME m \notin S PROVE FALSE
    <3>1. \A y \in S : y <= m - 1
      BY <1>7, <2>1
    <3>0. PICK y \in S : y \in Nat
      OBVIOUS
    <3>2. m # 0
      BY <1>7, <3>0, <3>1
    <3>3. m - 1 \in U /\ ~(m <= m - 1)
      BY <1>7, <3>1, <3>2
    <3>. QED  BY <1>7, <3>3
  <2>. QED  BY <2>1
<1>9. \A y \in S : m >= y
  BY <1>7
<1>10. Max(S) \in S /\ \A y \in S : Max(S) >= y
  BY <1>8, <1>9 DEF Max
<1>. QED  BY <1>10

----------------------------------------------------------------------------
(***************************************************************************)
(* The task list.  Walk is the function that its recursion describes: for  *)
(* every bound on the number of links there is one, by induction on it.    *)
(***************************************************************************)
LinksFrom(n, w) ==
    w = [i \in 0 .. n |-> IF i = 0 THEN task_list_head
                          ELSE IF w[i - 1] = NoTask THEN NoTask ELSE next[w[i - 1]]]

LEMMA LinksExist ==
  ASSUME NEW n \in Nat
  PROVE  \E w : LinksFrom(n, w)
<1> DEFINE S == {k \in 0 .. n : \E w : LinksFrom(k, w)}
<1>1. 0 \in S
  <2> DEFINE w == [i \in 0 .. 0 |-> task_list_head]
  <2>1. w = [i \in 0 .. 0 |-> IF i = 0 THEN task_list_head
                              ELSE IF w[i - 1] = NoTask THEN NoTask ELSE next[w[i - 1]]]
    OBVIOUS
  <2> HIDE DEF w
  <2>2. LinksFrom(0, w)
    BY <2>1 DEF LinksFrom
  <2>. QED  BY <2>2
<1>2. ASSUME NEW k \in 0 .. n, k \in S, k < n PROVE k + 1 \in S
  <2>1. PICK w : LinksFrom(k, w)
    BY <1>2
  <2> DEFINE last == IF w[k] = NoTask THEN NoTask ELSE next[w[k]]
             v == [i \in 0 .. k + 1 |-> IF i = k + 1 THEN last ELSE w[i]]
  <2>2. ASSUME NEW i \in 0 .. k + 1
        PROVE  v[i] = IF i = 0 THEN task_list_head
                      ELSE IF v[i - 1] = NoTask THEN NoTask ELSE next[v[i - 1]]
    <3>1. CASE i = k + 1
      <4>1. i # 0 /\ i - 1 = k /\ k \in 0 .. k + 1 /\ v[k] = w[k]
        BY <1>2, <3>1
      <4>2. v[i] = last
        BY <3>1
      <4> HIDE DEF v
      <4>. QED  BY <3>1, <4>1, <4>2
    <3>2. CASE i # k + 1
      <4>1. i \in 0 .. k /\ v[i] = w[i] /\ (i # 0 => i - 1 \in 0 .. k + 1 /\ v[i - 1] = w[i - 1])
        BY <1>2, <3>2
      <4>2. w[i] = IF i = 0 THEN task_list_head
                   ELSE IF w[i - 1] = NoTask THEN NoTask ELSE next[w[i - 1]]
        BY <2>1, <4>1 DEF LinksFrom
      <4> HIDE DEF v
      <4>. QED  BY <4>1, <4>2
    <3>. QED  BY <3>1, <3>2
  <2>3. LinksFrom(k + 1, v)
    BY <2>2 DEF LinksFrom
  <2>. QED  BY <1>2, <2>3
<1>3. 0 .. n \subseteq S
  <2> HIDE DEF S
  <2>. QED  BY <1>1, <1>2, UpTo
<1>. QED  BY <1>3

LEMMA WalkIs ==
  ASSUME IsFiniteSet(Tasks)
  PROVE  /\ DOMAIN Walk = 0 .. Cardinality(Tasks)
         /\ \A i \in 0 .. Cardinality(Tasks) :
               Walk[i] = IF i = 0 THEN task_list_head
                         ELSE IF Walk[i - 1] = NoTask THEN NoTask ELSE next[Walk[i - 1]]
<1> DEFINE w == Walk
           n == Cardinality(Tasks)
<1>0. n \in Nat
  BY FS_CardinalityType
<1>1. LinksFrom(n, w)
  <2>1. \E v : LinksFrom(n, v)
    BY <1>0, LinksExist
  <2>. QED  BY <2>1 DEF Walk, LinksFrom
<1> HIDE DEF w, n
<1>2. w = [i \in 0 .. n |-> IF i = 0 THEN task_list_head
                            ELSE IF w[i - 1] = NoTask THEN NoTask ELSE next[w[i - 1]]]
  BY <1>1 DEF LinksFrom
<1>3. DOMAIN w = 0 .. n
  BY <1>2, Zenon
<1>4. \A i \in 0 .. n : w[i] = IF i = 0 THEN task_list_head
                               ELSE IF w[i - 1] = NoTask THEN NoTask ELSE next[w[i - 1]]
  BY <1>2, Zenon
<1>. QED  BY <1>3, <1>4 DEF w, n

(***************************************************************************)
(* A list of different tasks, from the head along the links nx to NoTask.  *)
(***************************************************************************)
Chain(head, nx, frames, L) ==
    /\ L \in Seq(frames)
    /\ \A i, j \in 1 .. Len(L) : L[i] = L[j] => i = j
    /\ head = IF Len(L) = 0 THEN NoTask ELSE L[1]
    /\ \A i \in 1 .. Len(L) : nx[L[i]] = IF i = Len(L) THEN NoTask ELSE L[i + 1]

LEMMA WalkOnChain ==
  ASSUME IsFiniteSet(Tasks), Tasks \subseteq Nat, NEW L,
         Chain(task_list_head, next, Tasks, L)
  PROVE  /\ Len(L) <= Cardinality(Tasks) /\ Cardinality(Tasks) \in Nat
         /\ \A i \in 0 .. Cardinality(Tasks) :
               Walk[i] = IF i < Len(L) THEN L[i + 1] ELSE NoTask
<1> DEFINE n == Len(L)
           c == Cardinality(Tasks)
           w == Walk
<1>1. n \in Nat /\ n <= c /\ c \in Nat
  <2>1. L \in [1 .. n -> Tasks] /\ n \in Nat
    BY DEF Chain
  <2>2. L \in Injection(1 .. n, Tasks)
    BY <2>1 DEF Chain, Injection, IsInjective
  <2> HIDE DEF n
  <2>3. Cardinality(1 .. n) <= Cardinality(Tasks)
    BY <2>2, FS_Injection
  <2>4. Cardinality(1 .. n) = n
    <3>1. 1 \in Int /\ n \in Int
      BY <2>1
    <3>2. Cardinality(1 .. n) = IF 1 > n THEN 0 ELSE n - 1 + 1
      BY <3>1, FS_Interval
    <3>. QED  BY <2>1, <3>2
  <2>. QED  BY <2>1, <2>3, <2>4, FS_CardinalityType
<1>2. \A i \in 1 .. n : L[i] \in Tasks /\ L[i] # NoTask
  BY DEF Chain, NoTask
<1>3. \A i \in 0 .. c :
         w[i] = IF i = 0 THEN task_list_head
                ELSE IF w[i - 1] = NoTask THEN NoTask ELSE next[w[i - 1]]
  BY WalkIs
<1>4. /\ task_list_head = IF n = 0 THEN NoTask ELSE L[1]
      /\ \A i \in 1 .. n : next[L[i]] = IF i = n THEN NoTask ELSE L[i + 1]
  BY DEF Chain
<1> DEFINE S == {i \in 0 .. c : w[i] = IF i < n THEN L[i + 1] ELSE NoTask}
<1> HIDE DEF n, w, c
<1>5. 0 \in S
  BY <1>1, <1>3, <1>4
<1>6. ASSUME NEW i \in 0 .. c, i \in S, i < c PROVE i + 1 \in S
  <2>1. i + 1 \in 0 .. c /\ i + 1 # 0 /\ (i + 1) - 1 = i
    BY <1>1, <1>6
  <2>2. w[i + 1] = IF w[i] = NoTask THEN NoTask ELSE next[w[i]]
    BY <1>3, <2>1
  <2>3. CASE i < n
    <3>1. w[i] = L[i + 1] /\ i + 1 \in 1 .. n
      BY <1>1, <1>6, <2>3
    <3>2. w[i + 1] = IF i + 1 = n THEN NoTask ELSE L[i + 1 + 1]
      BY <1>2, <1>4, <2>2, <3>1
    <3>. QED  BY <1>1, <2>1, <2>3, <3>2
  <2>4. CASE ~(i < n)
    <3>1. w[i] = NoTask /\ ~(i + 1 < n)
      BY <1>1, <1>6, <2>4
    <3>. QED  BY <2>1, <2>2, <3>1
  <2>. QED  BY <2>3, <2>4
<1>7. 0 .. c \subseteq S
  <2> HIDE DEF S
  <2>. QED  BY <1>1, <1>5, <1>6, UpTo
<1>. QED  BY <1>1, <1>7 DEF n, w, c

\* What the walk finds: the tasks of the list, its end, each at its place.
LEMMA ListIs ==
  ASSUME IsFiniteSet(Tasks), Tasks \subseteq Nat, NEW L,
         Chain(task_list_head, next, Tasks, L)
  PROVE  /\ Ends
         /\ Listed = {L[i] : i \in 1 .. Len(L)}
         /\ Len(L) # 0 => LastListed = L[Len(L)]
         /\ \A i \in 1 .. Len(L) : Position(L[i]) = i - 1
<1> DEFINE n == Len(L)
           c == Cardinality(Tasks)
<1>1. /\ n \in Nat /\ c \in Nat /\ n <= c
      /\ \A i \in 0 .. c : Walk[i] = IF i < n THEN L[i + 1] ELSE NoTask
  BY WalkOnChain DEF Chain
<1>2. DOMAIN Walk = 0 .. c
  BY WalkIs
<1>3. \A i \in 1 .. n : L[i] \in Tasks /\ L[i] # NoTask
  BY DEF Chain, NoTask
<1>4. /\ \A i, j \in 1 .. n : L[i] = L[j] => i = j
      /\ \A i \in 1 .. n : next[L[i]] = IF i = n THEN NoTask ELSE L[i + 1]
  BY DEF Chain
<1> HIDE DEF n, c
<1>5. Ends
  BY <1>1 DEF Ends, c
<1>6. Listed = {L[i] : i \in 1 .. n}
  <2>1. ASSUME NEW f \in Listed PROVE f \in {L[i] : i \in 1 .. n}
    <3>1. PICK i \in 0 .. c : f = Walk[i] /\ f # NoTask
      BY <1>2 DEF Listed
    <3>2. i < n /\ f = L[i + 1] /\ i + 1 \in 1 .. n
      BY <1>1, <3>1
    <3>. QED  BY <3>2
  <2>2. ASSUME NEW i \in 1 .. n PROVE L[i] \in Listed
    <3>1. i - 1 \in 0 .. c /\ i - 1 < n /\ (i - 1) + 1 = i
      BY <1>1
    <3>2. Walk[i - 1] = L[i]
      BY <1>1, <3>1
    <3>. QED  BY <1>2, <1>3, <3>1, <3>2 DEF Listed
  <2>. QED  BY <2>1, <2>2
<1>7. ASSUME n # 0 PROVE LastListed = L[n]
  <2>1. n \in 1 .. n
    BY <1>1, <1>7
  <2>2. L[n] \in Listed /\ next[L[n]] = NoTask
    BY <1>4, <1>6, <2>1
  <2>3. ASSUME NEW f \in Listed, next[f] = NoTask PROVE f = L[n]
    <3>1. PICK i \in 1 .. n : f = L[i]
      BY <1>6
    <3>2. i # n => i + 1 \in 1 .. n
      BY <1>1
    <3>. QED  BY <1>3, <1>4, <2>3, <3>1, <3>2
  <2>. QED  BY <2>2, <2>3 DEF LastListed
<1>8. ASSUME NEW i \in 1 .. n PROVE Position(L[i]) = i - 1
  <2>1. i - 1 \in 0 .. c /\ i - 1 < n /\ (i - 1) + 1 = i
    BY <1>1
  <2>2. Walk[i - 1] = L[i]
    BY <1>1, <2>1
  <2>3. ASSUME NEW k \in 0 .. c, Walk[k] = L[i] PROVE k = i - 1
    <3>1. k < n /\ L[k + 1] = L[i] /\ k + 1 \in 1 .. n
      BY <1>1, <1>3, <2>3
    <3>2. k + 1 = i
      BY <1>4, <3>1
    <3>. QED  BY <3>2
  <2>. QED  BY <1>2, <2>1, <2>2, <2>3 DEF Position
<1>. QED  BY <1>5, <1>6, <1>7, <1>8 DEF n

----------------------------------------------------------------------------
(***************************************************************************)
(* While the kernel has the processor, kernel_task is current and either   *)
(* heads a list of all tasks, none of which has run, or has exited from a  *)
(* list of its own.                                                        *)
(***************************************************************************)
Running(L) ==
    /\ Chain(task_list_head, next, Tasks, L)
    /\ Len(L) # 0 /\ L[1] = Idle
    /\ Tasks = {L[i] : i \in 1 .. Len(L)}
    /\ task[Idle] = IdleTask
    /\ \A f \in Tasks \ {Idle} : task[f].state = "READY" /\ task[f].vruntime = 0

Exited ==
    /\ Tasks = {Idle}
    /\ task_list_head = NoTask
    /\ task[Idle].state = "DEAD"

TaskInv ==
    /\ IsFiniteSet(Tasks) /\ Tasks \subseteq Nat /\ Idle \in Tasks
    /\ next = [f \in Tasks |-> next[f]]
    /\ processor \in {"kernel", "lost"}
    /\ \E L : Chain(task_list_head, next, Tasks, L)
    /\ processor = "lost" => task[Idle].state = "DEAD"
    /\ processor = "kernel" => current_task = Idle /\ (Exited \/ \E L : Running(L))

\* kernel_task wins every tie while it is alive, and nobody has less.
LEMMA IdlePreferred ==
  ASSUME TaskInv, NEW L, Running(L), NEW min,
         min = CHOOSE f \in Runnable({}) : \A g \in Runnable({}) : Preferred(f, g)
  PROVE  Idle \in Runnable({}) /\ min = Idle
<1> DEFINE n == Len(L)
           ready == Runnable({})
<1>0. n \in Nat \ {0} /\ 1 \in 1 .. n
  BY DEF Running, Chain
<1>1. /\ Listed = {L[i] : i \in 1 .. n} /\ Listed = Tasks
      /\ \A i \in 1 .. n : Position(L[i]) = i - 1
  BY ListIs DEF TaskInv, Running
<1>2. \A f \in Tasks : task[f].vruntime = 0 /\ task[f].state \in {"READY", "RUNNING"}
  BY DEF Running, IdleTask
<1>3. ready = Tasks /\ Idle \in ready
  BY <1>1, <1>2 DEF Runnable, TaskInv
<1>4. Position(Idle) = 0
  BY <1>0, <1>1 DEF Running
<1>5. ASSUME NEW f \in Tasks PROVE Preferred(Idle, f) /\ (Preferred(f, Idle) => f = Idle)
  <2>1. PICK i \in 1 .. n : f = L[i] /\ Position(f) = i - 1
    BY <1>1
  <2>2. Preferred(Idle, f)
    BY <1>0, <1>2, <1>4, <2>1 DEF Preferred, TaskInv
  <2>3. ASSUME Preferred(f, Idle) PROVE f = Idle
    <3>1. i - 1 <= 0
      BY <1>2, <1>4, <2>1, <2>3 DEF Preferred, TaskInv
    <3>2. i = 1
      BY <1>0, <3>1
    <3>. QED  BY <2>1, <3>2 DEF Running
  <2>. QED  BY <2>2, <2>3
<1> HIDE DEF ready
<1>6. min \in ready /\ Preferred(min, Idle)
  BY <1>3, <1>5 DEF ready
<1>. QED  BY <1>3, <1>5, <1>6 DEF ready

\* Some other task is preferred once kernel_task is out, if there is one.
LEMMA OtherPreferred ==
  ASSUME TaskInv, NEW L, Running(L), NEW min,
         min = CHOOSE f \in Runnable({Idle}) : \A g \in Runnable({Idle}) : Preferred(f, g)
  PROVE  /\ Len(L) = 1 => Runnable({Idle}) = {}
         /\ Len(L) # 1 => Runnable({Idle}) # {} /\ min # Idle
<1> DEFINE n == Len(L)
           ready == Runnable({Idle})
<1>0. n \in Nat \ {0} /\ 1 \in 1 .. n
  BY DEF Running, Chain
<1>1. /\ Listed = {L[i] : i \in 1 .. n} /\ Listed = Tasks
      /\ \A i \in 1 .. n : Position(L[i]) = i - 1
  BY ListIs DEF TaskInv, Running
<1>2. \A f \in Tasks : task[f].vruntime = 0 /\ task[f].state \in {"READY", "RUNNING"}
  BY DEF Running, IdleTask
<1>3. ready = Tasks \ {Idle}
  BY <1>1, <1>2 DEF Runnable, TaskInv
<1>4. \A i \in 1 .. n : L[i] = Idle <=> i = 1
  BY <1>0 DEF Running, Chain
<1>5. ASSUME n = 1 PROVE ready = {}
  BY <1>1, <1>3, <1>4, <1>5
<1> HIDE DEF n
<1>6. ASSUME n # 1 PROVE ready # {} /\ min # Idle
  <2>1. 2 \in 1 .. n
    BY <1>0, <1>6
  <2>2. L[2] \in ready
    BY <1>1, <1>3, <1>4, <2>1
  <2>3. ASSUME NEW g \in ready PROVE Preferred(L[2], g)
    <3>1. PICK i \in 1 .. n : g = L[i] /\ Position(g) = i - 1 /\ i # 1
      BY <1>1, <1>3, <1>4
    <3>2. Position(L[2]) = 1 /\ 1 <= i - 1
      BY <1>1, <2>1, <3>1
    <3>. QED  BY <1>1, <1>2, <1>3, <2>2, <3>1, <3>2 DEF Preferred
  <2> HIDE DEF ready
  <2>4. min \in ready
    BY <2>2, <2>3 DEF ready
  <2>. QED  BY <1>3, <2>2, <2>4
<1>. QED  BY <1>5, <1>6 DEF n

\* schedule() while kernel_task is alive or the list is empty: nothing changes.
LEMMA ScheduleStays ==
  ASSUME TaskInv, processor = "kernel", schedule(task)
  PROVE  UNCHANGED <<task, next, task_list_head, current_task, processor>>
<1>1. current_task = Idle /\ (Exited \/ \E L : Running(L))
  BY DEF TaskInv
<1>2. CASE Exited
  BY <1>2 DEF schedule, Exited
<1>3. ASSUME NEW L, Running(L)
      PROVE  UNCHANGED <<task, next, task_list_head, current_task, processor>>
  <2>1. task[current_task].state # "DEAD" /\ task_list_head # NoTask
    BY <1>1, <1>3 DEF Running, IdleTask, Chain, NoTask, Idle
  <2> DEFINE min == CHOOSE f \in Runnable({}) : \A g \in Runnable({}) : Preferred(f, g)
  <2>2. min = current_task
    BY <1>1, <1>3, IdlePreferred
  <2>. QED  BY <2>1, <2>2 DEF schedule
<1>. QED  BY <1>1, <1>2, <1>3

\* task_exit: kernel_task alone leaves an empty list, otherwise the switch to
\* another task takes the processor.
LEMMA ExitTaskInv ==
  ASSUME TaskInv, processor = "kernel",
         schedule([task EXCEPT ![current_task].state = "DEAD"])
  PROVE  TaskInv' /\ Tasks' = Tasks
<1> DEFINE after == [task EXCEPT ![current_task].state = "DEAD"]
<1>1. current_task = Idle /\ (Exited \/ \E L : Running(L))
  BY DEF TaskInv
<1>2. DOMAIN after = Tasks
  BY DEF Tasks
<1> HIDE DEF after
<1>0. Idle \in Tasks => after[Idle] = [task[Idle] EXCEPT !.state = "DEAD"]
  BY <1>1 DEF after, Tasks
<1>3. CASE Exited
  <2>1. task' = after /\ UNCHANGED <<next, task_list_head, current_task, processor>>
    BY <1>3 DEF schedule, Exited, after
  <2>2. Tasks' = Tasks /\ Idle \in Tasks
    BY <1>2, <2>1 DEF TaskInv, Tasks
  <2>3. task'[Idle].state = "DEAD"
    <3>1. task'[Idle] = [task[Idle] EXCEPT !.state = "DEAD"]
      BY <1>0, <2>1, <2>2
    <3>2. task[Idle].state = "DEAD"
      BY <1>3 DEF Exited
    <3>3. CASE "state" \in DOMAIN task[Idle]
      BY <3>1, <3>3
    <3>4. CASE "state" \notin DOMAIN task[Idle]
      <4>1. DOMAIN (task'[Idle]) = DOMAIN (task[Idle])
        BY <3>1
      <4>. QED  BY <3>1, <3>4
    <3>. QED  BY <3>3, <3>4
  <2>4. Exited'
    BY <1>3, <2>1, <2>2, <2>3 DEF Exited
  <2>. QED  BY <1>1, <2>1, <2>2, <2>3, <2>4 DEF TaskInv
<1>4. ASSUME NEW L, Running(L) PROVE TaskInv' /\ Tasks' = Tasks
  <2>1. /\ after[Idle].state = "DEAD" /\ task_list_head = Idle
        /\ current_task = Idle /\ Idle # NoTask /\ Idle \in Tasks
    <3>1. Idle \in Tasks /\ task[Idle] = IdleTask
      BY <1>4 DEF Running, TaskInv
    <3>2. after[Idle].state = "DEAD"
      BY <1>0, <3>1 DEF IdleTask
    <3>3. task_list_head = Idle /\ Idle # NoTask
      BY <1>4 DEF Running, Chain, Idle, NoTask
    <3>. QED  BY <1>1, <3>1, <3>2, <3>3
  <2> DEFINE min == CHOOSE f \in Runnable({Idle}) :
                        \A g \in Runnable({Idle}) : Preferred(f, g)
  <2>2. Unlinked(Idle) = [head |-> next[Idle], next |-> next]
    BY <2>1 DEF Unlinked
  <2>0. schedule(after)
    BY DEF after
  <2>3. task_list_head' = next[Idle] /\ next' = next
    <3> DEFINE left == Unlinked(Idle)
    <3>1. left.head = next[Idle] /\ left.next = next
      BY <2>2
    <3> HIDE DEF left
    <3>2. task_list_head' = left.head /\ next' = left.next
      BY <2>0, <2>1 DEF schedule, left
    <3>. QED  BY <3>1, <3>2
  <2>4. \E M : Chain(next[Idle], next, Tasks, M) /\ (Len(M) = 0 <=> Len(L) = 1)
    <3> DEFINE M == Tail(L)
    <3>1. L \in Seq(Tasks) /\ Len(L) \in Nat \ {0} /\ L[1] = Idle
      BY <1>4 DEF Running, Chain
    <3>2. /\ M \in Seq(Tasks) /\ Len(M) = Len(L) - 1
          /\ \A i \in 1 .. Len(M) : M[i] = L[i + 1]
      BY <3>1
    <3>3. /\ \A i, j \in 1 .. Len(L) : L[i] = L[j] => i = j
          /\ \A i \in 1 .. Len(L) : next[L[i]] = IF i = Len(L) THEN NoTask ELSE L[i + 1]
      BY <1>4 DEF Running, Chain
    <3> HIDE DEF M
    <3>4. \A i \in 1 .. Len(M) : i + 1 \in 1 .. Len(L)
      BY <3>1, <3>2
    <3>5. \A i, j \in 1 .. Len(M) : M[i] = M[j] => i = j
      <4> SUFFICES ASSUME NEW i \in 1 .. Len(M), NEW j \in 1 .. Len(M), M[i] = M[j]
                   PROVE  i = j
        OBVIOUS
      <4>1. i + 1 = j + 1
        BY <3>2, <3>3, <3>4
      <4>. QED  BY <4>1
    <3>6. \A i \in 1 .. Len(M) : next[M[i]] = IF i = Len(M) THEN NoTask ELSE M[i + 1]
      <4> SUFFICES ASSUME NEW i \in 1 .. Len(M)
                   PROVE  next[M[i]] = IF i = Len(M) THEN NoTask ELSE M[i + 1]
        OBVIOUS
      <4>1. next[M[i]] = IF i + 1 = Len(L) THEN NoTask ELSE L[i + 1 + 1]
        BY <3>2, <3>3, <3>4
      <4>2. i # Len(M) => i + 1 \in 1 .. Len(M) /\ M[i + 1] = L[i + 1 + 1]
        BY <3>1, <3>2
      <4>. QED  BY <3>1, <3>2, <4>1, <4>2
    <3>7. next[Idle] = IF Len(M) = 0 THEN NoTask ELSE M[1]
      <4>1. 1 \in 1 .. Len(L)
        BY <3>1
      <4>2. next[Idle] = IF 1 = Len(L) THEN NoTask ELSE L[1 + 1]
        BY <3>1, <3>3, <4>1
      <4>3. Len(M) # 0 => 1 \in 1 .. Len(M) /\ M[1] = L[1 + 1]
        BY <3>1, <3>2
      <4>4. Len(M) = 0 <=> 1 = Len(L)
        BY <3>1, <3>2
      <4>. QED  BY <4>2, <4>3, <4>4
    <3>8. Chain(next[Idle], next, Tasks, M)
      BY <3>2, <3>5, <3>6, <3>7 DEF Chain
    <3>. QED  BY <3>1, <3>2, <3>8
  <2>5. CASE Len(L) = 1
    <3>1. Runnable({Idle}) = {}
      BY <1>4, <2>5, OtherPreferred
    <3>2. task' = after /\ UNCHANGED <<current_task, processor>>
      BY <2>0, <2>1, <3>1 DEF schedule
    <3>3. Tasks = {Idle}
      BY <1>4, <2>5 DEF Running
    <3>4. task_list_head' = NoTask
      BY <2>3, <2>4, <2>5 DEF Chain
    <3>5. Tasks' = Tasks /\ task'[Idle].state = "DEAD"
      BY <1>2, <2>1, <3>2 DEF Tasks
    <3>6. Exited'
      BY <3>3, <3>4, <3>5 DEF Exited
    <3>7. \E M : Chain(task_list_head', next', Tasks', M)
      BY <2>3, <2>4, <3>5
    <3>. QED  BY <1>1, <2>3, <3>2, <3>5, <3>6, <3>7 DEF TaskInv
  <2>6. CASE Len(L) # 1
    <3>1. Runnable({Idle}) # {} /\ min # Idle
      BY <1>4, <2>6, OtherPreferred
    <3> HIDE DEF min
    <3>2. processor' = "lost"
      BY <2>0, <2>1, <3>1 DEF schedule, context_switch, min
    <3>3. Tasks' = Tasks
      BY <2>0, <2>1, <3>1 DEF schedule, min, Tasks
    <3>4. task'[Idle] = after[Idle]
      BY <2>0, <2>1, <3>1 DEF schedule, min
    <3>5. \E M : Chain(task_list_head', next', Tasks', M)
      BY <2>3, <2>4, <3>3
    <3>. QED  BY <2>1, <2>3, <3>2, <3>3, <3>4, <3>5 DEF TaskInv
  <2>. QED  BY <2>5, <2>6
<1>. QED  BY <1>1, <1>3, <1>4

\* A new task becomes the last one of the list.
LEMMA CreateTaskInv ==
  ASSUME TaskInv, processor = "kernel", task_list_head # NoTask,
         NEW priority, NEW frame \in Nat \ Tasks, NEW stack, NEW second,
         CreateTask(priority, frame, stack, second)
  PROVE  TaskInv' /\ Tasks' = Tasks \cup {frame}
<1>1. current_task = Idle /\ \E L : Running(L)
  BY DEF TaskInv, Exited
<1>2. PICK L : Running(L)
  BY <1>1
<1> DEFINE n == Len(L)
           M == Append(L, frame)
           r == [pid |-> next_pid, state |-> "READY", vruntime |-> 0, priority |-> priority]
<1>3. /\ L \in Seq(Tasks) /\ n \in Nat \ {0} /\ L[1] = Idle
      /\ \A i \in 1 .. n : L[i] \in Tasks
      /\ \A i, j \in 1 .. n : L[i] = L[j] => i = j
      /\ \A i \in 1 .. n : next[L[i]] = IF i = n THEN NoTask ELSE L[i + 1]
      /\ Tasks = {L[i] : i \in 1 .. n}
      /\ task_list_head = Idle /\ IsFiniteSet(Tasks)
      /\ Tasks \subseteq Nat /\ Idle \in Tasks
  <2>1. Chain(task_list_head, next, Tasks, L) /\ n # 0 /\ L[1] = Idle
    BY <1>2 DEF Running
  <2>2. L \in Seq(Tasks) /\ n \in Nat \ {0}
    BY <2>1 DEF Chain
  <2>3. \A i \in 1 .. n : L[i] \in Tasks
    BY <2>2
  <2>. QED  BY <1>2, <2>1, <2>2, <2>3 DEF Running, Chain, TaskInv
<1>a. n \in Nat \ {0} /\ L \in Seq(Tasks)
  BY <1>3
<1>d. DOMAIN next = Tasks
  BY DEF TaskInv
<1>4. LastListed = L[n]
  BY <1>2, <1>3, ListIs DEF Running
<1>5. /\ M \in Seq(Tasks \cup {frame}) /\ Len(M) = n + 1
      /\ \A i \in 1 .. n + 1 : M[i] = IF i = n + 1 THEN frame ELSE L[i]
  <2>1. L \in Seq(Tasks \cup {frame}) /\ frame \in Tasks \cup {frame}
    BY <1>a
  <2>. QED  BY <2>1
<1> HIDE DEF r
<1>6. /\ Tasks' = Tasks \cup {frame}
      /\ task'[frame] = r /\ \A f \in Tasks : task'[f] = task[f]
  <2>1. task' = With(task, frame, r)
    BY DEF CreateTask, r
  <2>. QED  BY <2>1 DEF With, Tasks
<1>7. /\ next' = [f \in Tasks \cup {frame} |-> next'[f]] /\ next'[frame] = NoTask
      /\ next'[L[n]] = frame
      /\ \A f \in Tasks : f # L[n] => next'[f] = next[f]
  <2> DEFINE linked == [next EXCEPT ![L[n]] = frame]
  <2>0. n \in 1 .. n
    BY <1>a
  <2>1. DOMAIN linked = Tasks /\ L[n] \in Tasks
    <3>1. L[n] \in Tasks
      BY <1>3, <2>0
    <3>. QED  BY <1>d, <3>1
  <2>2. linked[L[n]] = frame /\ \A f \in Tasks : f # L[n] => linked[f] = next[f]
    BY <1>d, <2>1
  <2>3. next' = With(linked, frame, NoTask)
    BY <1>4 DEF CreateTask
  <2> HIDE DEF linked
  <2>. QED  BY <2>1, <2>2, <2>3 DEF With
<1>8. UNCHANGED <<task_list_head, current_task, processor>>
  BY DEF CreateTask
<1> HIDE DEF n, M
<1>b. \A i \in 1 .. n + 1 : i \in 1 .. n \/ i = n + 1
  BY <1>a
<1>c. /\ n + 1 \in 1 .. n + 1 /\ n \in 1 .. n /\ 1 \in 1 .. n
      /\ M[n + 1] = frame /\ \A i \in 1 .. n : i \in 1 .. n + 1 /\ M[i] = L[i]
  BY <1>a, <1>5
<1>9. \A i, j \in 1 .. n + 1 : M[i] = M[j] => i = j
  <2>1. \A i \in 1 .. n : L[i] # frame
    BY <1>3
  <2>2. \A i, j \in 1 .. n : L[i] = L[j] => i = j
    BY <1>3
  <2>. QED  BY <1>b, <1>c, <2>1, <2>2, Zenon
<1>10. ASSUME NEW i \in 1 .. n + 1
       PROVE  next'[M[i]] = IF i = n + 1 THEN NoTask ELSE M[i + 1]
  <2>1. CASE i = n + 1
    BY <1>5, <1>7, <2>1
  <2>2. CASE i = n
    <3>1. M[i] = L[n] /\ M[i + 1] = frame
      BY <1>c, <2>2
    <3>. QED  BY <1>3, <1>7, <2>2, <3>1
  <2>3. CASE i # n /\ i # n + 1
    <3>1. i \in 1 .. n /\ i + 1 \in 1 .. n /\ n \in 1 .. n
      BY <1>a, <2>3
    <3>0. \A j \in 1 .. n : L[i] = L[j] => i = j
      BY <1>3, <3>1
    <3>2. M[i] = L[i] /\ M[i + 1] = L[i + 1] /\ L[i] # L[n]
      BY <1>c, <2>3, <3>0, <3>1
    <3>3. next'[L[i]] = next[L[i]]
      <4>1. L[i] \in Tasks
        BY <1>3, <3>1
      <4>. QED  BY <1>7, <3>2, <4>1
    <3>4. next[L[i]] = L[i + 1]
      BY <1>3, <2>3, <3>1
    <3>. QED  BY <2>3, <3>2, <3>3, <3>4
  <2>. QED  BY <2>1, <2>2, <2>3
<1>11. M[1] = Idle /\ n + 1 \in Nat \ {0} /\ Idle # NoTask
  <2>1. L[1] = Idle
    BY <1>3
  <2>. QED  BY <1>a, <1>c, <2>1 DEF Idle, NoTask
<1>12. Tasks \cup {frame} = {M[i] : i \in 1 .. n + 1}
  <2>1. Tasks = {L[i] : i \in 1 .. n}
    BY <1>3
  <2>. QED  BY <1>b, <1>c, <2>1
<1>13. Chain(task_list_head', next', Tasks \cup {frame}, M)
  BY <1>3, <1>5, <1>8, <1>9, <1>10, <1>11 DEF Chain
<1>14. ASSUME NEW f \in (Tasks \cup {frame}) \ {Idle}
       PROVE  task'[f].state = "READY" /\ task'[f].vruntime = 0
  BY <1>2, <1>6 DEF Running, r
<1>15. task'[Idle] = IdleTask
  BY <1>2, <1>3, <1>6 DEF Running
<1>16. Running(M)'
  BY <1>5, <1>6, <1>11, <1>12, <1>13, <1>14, <1>15 DEF Running
<1>17. IsFiniteSet(Tasks \cup {frame})
  BY <1>3, FS_AddElement
<1>. QED  BY <1>1, <1>3, <1>6, <1>7, <1>8, <1>13, <1>16, <1>17 DEF TaskInv

----------------------------------------------------------------------------
(***************************************************************************)
(* The frames.  Those of a task were the lowest that were free: the first  *)
(* is the task, and no other frame, free or taken, lies between them.      *)
(***************************************************************************)
All == freeFrames \cup UNION {taskFrames[f] : f \in Tasks}

Compact(f, frames, all) ==
    \E s, top \in Nat : /\ f < s /\ s <= top /\ frames = {f, s, top}
                      /\ \A x \in all : f <= x /\ x <= top => x \in frames

FrameInv ==
    /\ DOMAIN taskFrames = Tasks
    /\ freeFrames \subseteq Nat \ {0} /\ IsFiniteSet(freeFrames)
    /\ All \in TaskPages \cup {{}}
    /\ taskFrames[Idle] = {}
    /\ \A f \in Tasks \ {Idle} : Compact(f, taskFrames[f], All)
    /\ \A f, g \in Tasks : f # g => taskFrames[f] \cap taskFrames[g] = {}
    /\ \A f \in Tasks : \A x \in taskFrames[f], y \in freeFrames : x < y
    /\ stage # "tasks" => Tasks = {Idle}

\* The frames that a new task gets.
Lowest(frame, stack, second) ==
    /\ frame \in freeFrames /\ stack \in freeFrames /\ frame < stack
    /\ LET rest == freeFrames \ {frame, stack}
       IN  \/ second = {} /\ rest = {}
           \/ \E top \in rest : second = {top} /\ stack < top /\ \A y \in rest : top <= y

\* What a call of task_create does.
LEMMA CreateSteps ==
  ASSUME FrameInv, NEW priority, task_create(priority)
  PROVE  \/ UNCHANGED task_vars
         \/ FailedCreate(Min(freeFrames))
         \/ task_list_head = NoTask /\ LoseProcessor
         \/ /\ task_list_head # NoTask
            /\ \E frame, stack, second :
                  Lowest(frame, stack, second) /\ CreateTask(priority, frame, stack, second)
<1> DEFINE frame == Min(freeFrames)
           left == freeFrames \ {frame}
           stack == Min(left)
           others == freeFrames \ {frame, stack}
           second == IF others = {} THEN {} ELSE {Min(others)}
<1>1. /\ freeFrames \in SUBSET Nat /\ IsFiniteSet(freeFrames)
      /\ Cardinality(freeFrames) \in Nat
      /\ Cardinality(freeFrames) = 0 <=> freeFrames = {}
  BY FS_CardinalityType, FS_EmptySet DEF FrameInv
<1>2. \/ freeFrames = {} /\ UNCHANGED task_vars
      \/ Cardinality(freeFrames) = 1 /\ FailedCreate(frame)
      \/ Cardinality(freeFrames) > 1 /\ task_list_head = NoTask /\ LoseProcessor
      \/ /\ freeFrames # {} /\ Cardinality(freeFrames) # 1
         /\ ~(Cardinality(freeFrames) > 1 /\ task_list_head = NoTask)
         /\ CreateTask(priority, frame, stack, second)
  BY <1>1 DEF task_create
<1>3. ASSUME freeFrames # {}, Cardinality(freeFrames) # 1
      PROVE  Cardinality(freeFrames) > 1 /\ Lowest(frame, stack, second)
  <2>0. Cardinality(freeFrames) > 1
    <3>1. \A c \in Nat : c # 0 /\ c # 1 => c > 1
      OBVIOUS
    <3>. QED  BY <1>1, <1>3, <3>1, Zenon
  <2>1. frame \in freeFrames /\ \A y \in freeFrames : frame <= y
    BY <1>1, <1>3, LeastElement
  <2> HIDE DEF frame
  <2>2. Cardinality(left) = Cardinality(freeFrames) - 1
    BY <1>1, <2>1, FS_RemoveElement
  <2>3. left # {}
    <3>1. Cardinality(left) # 0
      BY <1>1, <1>3, <2>2
    <3>. QED  BY <3>1, FS_EmptySet
  <2>4. stack \in left /\ \A y \in left : stack <= y
    <3>1. left \in SUBSET Nat
      BY <1>1
    <3> HIDE DEF left
    <3>. QED  BY <2>3, <3>1, LeastElement
  <2> HIDE DEF stack
  <2>5. frame < stack /\ stack \in freeFrames
    BY <1>1, <2>1, <2>4
  <2>6. others \in SUBSET Nat /\ others \subseteq left
    BY <1>1
  <2>7. CASE others = {}
    <3>1. second = {} /\ freeFrames \ {frame, stack} = {}
      BY <2>7
    <3> HIDE DEF second
    <3>. QED  BY <2>0, <2>1, <2>5, <3>1 DEF Lowest
  <2>8. CASE others # {}
    <3>0. others = freeFrames \ {frame, stack}
      OBVIOUS
    <3> HIDE DEF others
    <3>1. Min(others) \in others /\ \A y \in others : Min(others) <= y
      BY <2>6, <2>8, LeastElement
    <3>2. stack < Min(others)
      BY <1>1, <2>4, <2>5, <2>6, <3>0, <3>1
    <3>3. second = {Min(others)}
      BY <2>8
    <3>4. Lowest(frame, stack, second)
      BY <2>1, <2>5, <3>0, <3>1, <3>2, <3>3 DEF Lowest
    <3>. QED  BY <2>0, <3>4
  <2>. QED  BY <2>7, <2>8
<1> HIDE DEF frame, stack, second
<1>4. CASE Cardinality(freeFrames) = 1 /\ FailedCreate(frame)
  BY <1>4 DEF frame
<1>. QED  BY <1>2, <1>3, <1>4

\* The lowest free frames go to a task: no frame is lost or shared.
LEMMA CreateFrameInv ==
  ASSUME TaskInv, FrameInv, stage = "tasks", stage' = "tasks",
         NEW priority, NEW frame, NEW stack, NEW second, Lowest(frame, stack, second),
         CreateTask(priority, frame, stack, second), Tasks' = Tasks \cup {frame}
  PROVE  FrameInv'
<1> DEFINE mine == {frame, stack} \cup second
<1>1. /\ freeFrames' = freeFrames \ mine
      /\ DOMAIN taskFrames' = Tasks \cup {frame}
      /\ taskFrames'[frame] = mine
      /\ \A f \in Tasks : f # frame => taskFrames'[f] = taskFrames[f]
  BY DEF CreateTask, With, FrameInv
<1>2. /\ freeFrames \subseteq Nat \ {0} /\ IsFiniteSet(freeFrames)
      /\ taskFrames[Idle] = {} /\ Idle \in Tasks
      /\ \A f \in Tasks : \A x \in taskFrames[f], y \in freeFrames : x < y
      /\ \A f \in Tasks \ {Idle} : Compact(f, taskFrames[f], All)
  BY DEF FrameInv, TaskInv
<1>3. mine \subseteq freeFrames
  BY DEF Lowest
<1>a. frame \in Nat \ {0} /\ stack \in Nat /\ frame < stack
  BY <1>2 DEF Lowest
<1>4. PICK top \in Nat : /\ mine = {frame, stack, top} /\ frame < stack /\ stack <= top
                       /\ \A y \in freeFrames : y <= top => y \in mine
  <2>1. frame \in Nat \ {0} /\ stack \in Nat /\ frame < stack
    BY <1>a
  <2>2. CASE second = {} /\ freeFrames \ {frame, stack} = {}
    <3>1. mine = {frame, stack, stack} /\ \A y \in freeFrames : y \in mine
      BY <2>2
    <3>. QED  BY <2>1, <3>1
  <2>3. CASE \E top \in freeFrames \ {frame, stack} :
                second = {top} /\ stack < top /\ \A y \in freeFrames \ {frame, stack} : top <= y
    <3>1. PICK top \in freeFrames \ {frame, stack} :
                second = {top} /\ stack < top /\ \A y \in freeFrames \ {frame, stack} : top <= y
      BY <2>3
    <3>2. mine = {frame, stack, top} /\ top \in Nat /\ stack <= top
      <4>0. top \in Nat /\ stack < top
        BY <1>2, <3>1
      <4>1. top \in Nat /\ stack <= top
        BY <2>1, <4>0
      <4>2. mine = {frame, stack, top}
        BY <3>1
      <4>. QED  BY <4>1, <4>2
    <3>3. ASSUME NEW y \in freeFrames, y <= top PROVE y \in mine
      BY <1>2, <3>1, <3>2, <3>3
    <3>. QED  BY <2>1, <3>2, <3>3
  <2>. QED  BY <2>2, <2>3 DEF Lowest
<1> HIDE DEF mine
<1>5. frame \notin Tasks
  <2>1. ASSUME frame \in Tasks PROVE FALSE
    <3>1. frame # Idle
      BY <1>a DEF Idle
    <3>2. frame \in taskFrames[frame]
      BY <1>2, <2>1, <3>1 DEF Compact
    <3>3. frame \in freeFrames /\ frame < frame
      <4>1. frame \in mine
        BY <1>4
      <4>2. frame \in freeFrames
        BY <1>3, <4>1
      <4>. QED  BY <1>2, <2>1, <3>2, <4>2
    <3>. QED  BY <1>a, <3>3
  <2>. QED  BY <2>1
<1>6. All' = All
  <2>1. All' = (freeFrames \ mine) \cup UNION {taskFrames'[f] : f \in Tasks \cup {frame}}
    BY <1>1 DEF All
  <2>2. UNION {taskFrames'[f] : f \in Tasks \cup {frame}}
            = mine \cup UNION {taskFrames[f] : f \in Tasks}
    BY <1>1, <1>5
  <2>. QED  BY <1>3, <2>1, <2>2 DEF All
<1>7. \A f \in Tasks : \A x \in taskFrames[f], y \in mine : x < y
  BY <1>2, <1>3
<1>8. Compact(frame, mine, All)
  <2>1. ASSUME NEW x \in All, frame <= x, x <= top PROVE x \in mine
    <3>1. CASE x \in freeFrames
      BY <1>4, <2>1, <3>1
    <3>2. CASE \E f \in Tasks : x \in taskFrames[f]
      <4>1. PICK f \in Tasks : x \in taskFrames[f]
        BY <3>2
      <4>2. f # Idle
        BY <1>2, <4>1
      <4>3. x \in Nat
        <5>1. PICK s, u \in Nat : f < s /\ s <= u /\ taskFrames[f] = {f, s, u}
          BY <1>2, <4>1, <4>2 DEF Compact
        <5>2. f \in Nat
          BY <4>1 DEF TaskInv
        <5>. QED  BY <4>1, <5>1, <5>2
      <4>4. x < frame
        <5>1. frame \in mine
          BY <1>4
        <5>. QED  BY <1>7, <4>1, <5>1
      <4>5. ~(x < frame)
        BY <1>a, <2>1, <4>3
      <4>. QED  BY <4>4, <4>5
    <3>. QED  BY <3>1, <3>2 DEF All
  <2>. QED  BY <1>a, <1>4, <2>1, Zenon DEF Compact
<1>9. \A f \in Tasks' \ {Idle} : Compact(f, taskFrames'[f], All)
  BY <1>1, <1>2, <1>5, <1>8
<1>10. \A f, g \in Tasks' : f # g => taskFrames'[f] \cap taskFrames'[g] = {}
  <2>1. \A f \in Tasks : taskFrames[f] \cap mine = {}
    <3>1. ASSUME NEW f \in Tasks, NEW x \in taskFrames[f], x \in mine PROVE FALSE
      <4>1. x \in Nat /\ x < x
        BY <1>2, <1>3, <1>7, <3>1
      <4>. QED  BY <4>1
    <3>. QED  BY <3>1
  <2>2. \A f, g \in Tasks : f # g => taskFrames[f] \cap taskFrames[g] = {}
    BY DEF FrameInv
  <2>. QED  BY <1>1, <1>5, <2>1, <2>2
<1>11. ASSUME NEW f \in Tasks', NEW x \in taskFrames'[f], NEW y \in freeFrames'
       PROVE  x < y
  <2>1. CASE f # frame
    BY <1>1, <1>2, <1>11, <2>1
  <2>2. CASE f = frame
    <3>1. x \in mine /\ x <= top /\ y \in freeFrames /\ ~(y <= top) /\ x \in Nat /\ y \in Nat
      <4>1. x \in mine /\ y \in freeFrames /\ y \notin mine
        BY <1>1, <1>11, <2>2
      <4>2. x \in Nat /\ y \in Nat
        BY <1>2, <1>3, <4>1
      <4>3. ~(y <= top)
        BY <1>4, <4>1, Zenon
      <4>4. x \in {frame, stack, top}
        BY <1>4, <4>1, Zenon
      <4>5. x <= top
        BY <1>a, <1>4, <4>4
      <4>. QED  BY <4>1, <4>2, <4>3, <4>5
    <3>. QED  BY <3>1
  <2>. QED  BY <2>1, <2>2
<1>12. freeFrames' \subseteq Nat \ {0} /\ IsFiniteSet(freeFrames')
  BY <1>1, <1>2, FS_Subset
<1>13. taskFrames'[Idle] = {} /\ All' \in TaskPages \cup {{}}
  <2>1. Idle # frame
    BY <1>2, <1>5
  <2>. QED  BY <1>1, <1>2, <1>6, <2>1 DEF FrameInv
<1>. QED  BY <1>1, <1>6, <1>9, <1>10, <1>11, <1>12, <1>13 DEF FrameInv

----------------------------------------------------------------------------
(***************************************************************************)
(* The steps of the kernel as the tasks see them.                          *)
(***************************************************************************)
LEMMA TaskSteps ==
  ASSUME [Next]_vars
  PROVE  \/ UNCHANGED task_vars /\ (stage' = stage \/ stage # "tasks")
         \/ stage = "shell" /\ stage' = "tasks" /\ FramesLeft
         \/ stage = "tasks" /\ stage' = "tasks" /\ task_calls
         \/ stage = "tasks" /\ stage' = "tasks" /\ processor = "kernel" /\ timer_handler
<1>1. CASE UNCHANGED vars
  BY <1>1 DEF vars
<1>2. CASE rtc_init
  BY <1>2 DEF rtc_init, Others
<1>3. CASE disk_init
  BY <1>3 DEF disk_init, Others
<1>4. CASE start_shell
  BY <1>4 DEF start_shell, Others
<1>5. CASE shell
  BY <1>5 DEF shell, Others
<1>6. CASE date_command
  BY <1>6 DEF date_command, Others, FreshShell
<1>7. CASE disk_calls
  BY <1>7 DEF disk_calls, Others, FreshShell
<1>8. CASE kernel_tasks
  BY <1>8 DEF kernel_tasks, Others, FreshShell
<1>9. CASE timer_tick
  BY <1>9 DEF timer_tick, Others
<1>10. CASE clock_chip
  BY <1>10 DEF clock_chip, Others
<1>11. CASE disk_drives
  BY <1>11 DEF disk_drives, Others
<1>. QED
  BY <1>1, <1>2, <1>3, <1>4, <1>5, <1>6, <1>7, <1>8, <1>9, <1>10, <1>11 DEF Next

\* Steps that leave the list and the frames alone.
LEMMA KeptTaskInv ==
  ASSUME TaskInv, UNCHANGED <<list, current_task, processor>>
  PROVE  TaskInv' /\ Tasks' = Tasks
<1>1. UNCHANGED <<task, next, task_list_head, current_task, processor>>
  BY DEF list
<1>2. Tasks' = Tasks
  BY <1>1 DEF Tasks
<1>3. \A L : Running(L) => Running(L)'
  BY <1>1, <1>2 DEF Running
<1>4. Exited => Exited'
  BY <1>1, <1>2 DEF Exited
<1>. QED  BY <1>1, <1>2, <1>3, <1>4 DEF TaskInv

LEMMA KeptFrameInv ==
  ASSUME FrameInv, Tasks' = Tasks, UNCHANGED <<freeFrames, taskFrames>>,
         stage' = stage \/ stage # "tasks" \/ stage' = "tasks"
  PROVE  FrameInv'
<1>1. All' = All
  BY DEF All
<1>. QED  BY <1>1 DEF FrameInv

LEMMA InitTasks == Init => TaskInv /\ FrameInv
<1> SUFFICES ASSUME Init PROVE TaskInv /\ FrameInv
  OBVIOUS
<1>1. /\ task = [f \in {Idle} |-> IdleTask] /\ next = [f \in {Idle} |-> NoTask]
      /\ task_list_head = Idle /\ current_task = Idle /\ processor = "kernel"
      /\ freeFrames = {} /\ taskFrames = [f \in {Idle} |-> {}]
  BY DEF Init, task_init_state
<1>2. Tasks = {Idle} /\ IsFiniteSet(Tasks) /\ Tasks \subseteq Nat
  <2>1. Tasks = {Idle}
    BY <1>1 DEF Tasks
  <2>2. IsFiniteSet({Idle})
    BY FS_Singleton
  <2>. QED  BY <2>1, <2>2 DEF Idle
<1>3. Running(<<Idle>>)
  <2> DEFINE L == <<Idle>>
  <2>1. L \in Seq(Tasks) /\ Len(L) = 1 /\ L[1] = Idle /\ \A i \in 1 .. 1 : i = 1
    BY <1>2
  <2> HIDE DEF L
  <2>2. Tasks = {L[i] : i \in 1 .. 1}
    BY <1>2, <2>1
  <2>3. next[Idle] = NoTask
    BY <1>1
  <2>4. Chain(task_list_head, next, Tasks, L)
    BY <1>1, <2>1, <2>3 DEF Chain
  <2>5. Running(L)
    BY <1>1, <1>2, <2>1, <2>2, <2>4 DEF Running
  <2>. QED  BY <2>5 DEF L
<1>4. TaskInv
  BY <1>1, <1>2, <1>3 DEF TaskInv, Running
<1>5. All = {} /\ IsFiniteSet({})
  BY <1>1, <1>2, FS_EmptySet DEF All
<1>6. FrameInv
  BY <1>1, <1>2, <1>5 DEF FrameInv
<1>. QED  BY <1>4, <1>6

LEMMA NextTasks ==
  ASSUME TaskInv, FrameInv, [Next]_vars
  PROVE  TaskInv' /\ FrameInv'
<1>1. CASE UNCHANGED task_vars /\ (stage' = stage \/ stage # "tasks")
  BY <1>1, KeptTaskInv, KeptFrameInv DEF task_vars
<1>2. CASE stage = "shell" /\ stage' = "tasks" /\ FramesLeft
  <2>1. TaskInv' /\ Tasks' = Tasks /\ freeFrames' \in TaskPages /\ taskFrames' = taskFrames
    BY <1>2, KeptTaskInv DEF FramesLeft
  <2>2. Tasks = {Idle} /\ taskFrames[Idle] = {} /\ DOMAIN taskFrames = Tasks
    BY <1>2 DEF FrameInv
  <2>3. All' = freeFrames'
    BY <2>1, <2>2 DEF All
  <2>4. freeFrames' \subseteq Nat \ {0} /\ IsFiniteSet(freeFrames')
    BY <2>1, TasksAssumption
  <2>5. FrameInv'
    BY <2>1, <2>2, <2>3, <2>4 DEF FrameInv
  <2>. QED  BY <2>1, <2>5
<1>3. CASE stage = "tasks" /\ stage' = "tasks" /\ task_calls
  <2>1. processor = "kernel"
    BY <1>3 DEF task_calls
  <2>2. ASSUME NEW priority \in Priorities, task_create(priority)
        PROVE  TaskInv' /\ FrameInv'
    <3>1. CASE UNCHANGED task_vars
      BY <1>3, <3>1, KeptTaskInv, KeptFrameInv DEF task_vars
    <3>2. CASE FailedCreate(Min(freeFrames))
      BY <1>3, <3>2, KeptTaskInv, KeptFrameInv DEF FailedCreate
    <3>3. CASE task_list_head = NoTask /\ LoseProcessor
      <4>1. /\ UNCHANGED <<task, next, task_list_head, current_task, freeFrames, taskFrames>>
            /\ processor' = "lost"
        BY <3>3 DEF LoseProcessor, list
      <4>2. Tasks' = Tasks
        BY <4>1 DEF Tasks
      <4>3. ASSUME NEW L, Running(L) PROVE FALSE
        BY <3>3, <4>3 DEF Running, Chain, Idle, NoTask
      <4>4. task[Idle].state = "DEAD"
        BY <2>1, <4>3 DEF TaskInv, Exited
      <4>5. TaskInv'
        BY <4>1, <4>2, <4>4 DEF TaskInv
      <4>. QED  BY <1>3, <4>1, <4>2, <4>5, KeptFrameInv
    <3>4. ASSUME task_list_head # NoTask, NEW frame, NEW stack, NEW second,
                 Lowest(frame, stack, second), CreateTask(priority, frame, stack, second)
          PROVE  TaskInv' /\ FrameInv'
      <4>1. frame \in freeFrames /\ frame \in Nat \ {0}
        BY <3>4 DEF Lowest, FrameInv
      <4>2. frame \notin Tasks
        <5>1. ASSUME frame \in Tasks PROVE FALSE
          <6>1. frame # Idle
            BY <4>1 DEF Idle
          <6>2. frame \in taskFrames[frame]
            BY <5>1, <6>1 DEF FrameInv, Compact
          <6>3. frame < frame
            BY <4>1, <5>1, <6>2 DEF FrameInv
          <6>. QED  BY <4>1, <6>3
        <5>. QED  BY <5>1
      <4>3. TaskInv' /\ Tasks' = Tasks \cup {frame}
        BY <2>1, <3>4, <4>1, <4>2, CreateTaskInv
      <4>. QED  BY <1>3, <3>4, <4>3, CreateFrameInv
    <3>. QED  BY <2>2, <3>1, <3>2, <3>3, <3>4, CreateSteps
  <2>3. ASSUME NEW f \in Tasks, scheduler_add_task(f)
        PROVE  TaskInv' /\ FrameInv'
    <3>0. DOMAIN next = Tasks /\ next = [g \in Tasks |-> next[g]]
      BY DEF TaskInv
    <3>1. next' = next
      <4>1. CASE Exited
        BY <2>3, <4>1 DEF scheduler_add_task, Exited
      <4>2. ASSUME NEW L, Running(L) PROVE next' = next
        <5> DEFINE last == L[Len(L)]
        <5>1. /\ LastListed = last /\ Listed = {L[i] : i \in 1 .. Len(L)}
              /\ Len(L) \in Nat \ {0} /\ Tasks = Listed
          <6>1. Len(L) # 0 /\ Chain(task_list_head, next, Tasks, L)
                /\ Tasks = {L[i] : i \in 1 .. Len(L)}
            BY <4>2 DEF Running
          <6>2. Len(L) \in Nat
            BY <6>1 DEF Chain
          <6>3. IsFiniteSet(Tasks) /\ Tasks \subseteq Nat
            BY DEF TaskInv
          <6>. QED  BY <6>1, <6>2, <6>3, ListIs
        <5>2. next[last] = NoTask /\ last \in Tasks
          <6>1. Chain(task_list_head, next, Tasks, L) /\ Tasks = {L[i] : i \in 1 .. Len(L)}
            BY <4>2 DEF Running
          <6>2. Len(L) \in 1 .. Len(L)
            BY <5>1
          <6>3. next[L[Len(L)]] = NoTask
            BY <6>1, <6>2 DEF Chain
          <6>. QED  BY <6>1, <6>2, <6>3
        <5> HIDE DEF last
        <5>3. CASE f = last
          <6>1. next' = next \/ next' = Linked(f)
            BY <2>3 DEF scheduler_add_task
          <6>2. Linked(f) = [[next EXCEPT ![last] = last] EXCEPT ![last] = NoTask]
            BY <5>1, <5>3 DEF Linked
          <6>3. CASE next' = Linked(f)
            <7>1. next' = [[next EXCEPT ![last] = last] EXCEPT ![last] = NoTask]
              BY <6>2, <6>3
            <7>2. /\ DOMAIN next' = Tasks
                  /\ \A g \in Tasks : next'[g] = next[g]
              BY <3>0, <5>2, <7>1
            <7>3. next' = [g \in Tasks |-> next'[g]]
              BY <3>0, <7>1
            <7>. QED  BY <3>0, <7>2, <7>3
          <6>. QED  BY <6>1, <6>3
        <5>4. CASE f # last
          BY <2>3, <5>1, <5>4 DEF scheduler_add_task
        <5>. QED  BY <5>3, <5>4
      <4>. QED  BY <2>1, <4>1, <4>2 DEF TaskInv
    <3>2. UNCHANGED <<list, current_task, processor, freeFrames, taskFrames>>
      BY <2>3, <3>1 DEF scheduler_add_task, list
    <3>. QED  BY <1>3, <3>2, KeptTaskInv, KeptFrameInv
  <2>4. ASSUME task_exit PROVE TaskInv' /\ FrameInv'
    <3>1. TaskInv' /\ Tasks' = Tasks
      BY <2>1, <2>4, ExitTaskInv DEF task_exit
    <3>2. UNCHANGED <<freeFrames, taskFrames>>
      BY <2>4 DEF task_exit
    <3>. QED  BY <1>3, <3>1, <3>2, KeptFrameInv
  <2>5. ASSUME task_yield PROVE TaskInv' /\ FrameInv'
    <3>1. UNCHANGED <<list, current_task, processor, freeFrames, taskFrames>>
      BY <2>1, <2>5, ScheduleStays DEF task_yield, list
    <3>. QED  BY <1>3, <3>1, KeptTaskInv, KeptFrameInv
  <2>. QED  BY <1>3, <2>2, <2>3, <2>4, <2>5 DEF task_calls
<1>4. CASE stage = "tasks" /\ stage' = "tasks" /\ processor = "kernel" /\ timer_handler
  <2>1. UNCHANGED <<list, current_task, processor, freeFrames, taskFrames>>
    BY <1>4, ScheduleStays DEF timer_handler, list
  <2>. QED  BY <1>4, <2>1, KeptTaskInv, KeptFrameInv
<1>. QED  BY <1>1, <1>2, <1>3, <1>4, TaskSteps

\* The invariant of the task list and of the frames.
THEOREM TasksInvariance == Spec => [](TaskInv /\ FrameInv)
<1>1. Init => TaskInv /\ FrameInv
  BY InitTasks
<1>2. (TaskInv /\ FrameInv) /\ [Next]_vars => (TaskInv /\ FrameInv)'
  BY NextTasks
<1>. QED  BY <1>1, <1>2, PTL DEF Spec

(***************************************************************************)
(* scheduler.c, timer.c: no tick and no yield takes the processor from     *)
(* kernel_task to the switch that would destroy it, for any number of      *)
(* tasks of any priorities, until kernel_task exits.                       *)
(***************************************************************************)
THEOREM IdleKeepsIt == Spec => []IdleKeepsProcessor
<1>1. TaskInv => IdleKeepsProcessor
  <2> SUFFICES ASSUME TaskInv, processor = "lost" \/ current_task # Idle
               PROVE  task[Idle].state = "DEAD"
    BY DEF IdleKeepsProcessor
  <2>. QED  BY DEF TaskInv
<1>. QED  BY <1>1, TasksInvariance, PTL

(***************************************************************************)
(* scheduler.c: the list ends and holds every task that has not exited,    *)
(* whatever is created, added again or removed.                            *)
(***************************************************************************)
THEOREM TaskListCorrect == Spec => []TaskListWhole
<1>1. TaskInv => TaskListWhole
  <2> SUFFICES ASSUME TaskInv PROVE TaskListWhole
    OBVIOUS
  <2>1. Ends
    BY ListIs DEF TaskInv
  <2>2. ASSUME processor = "kernel"
        PROVE  {f \in Tasks : task[f].state # "DEAD"} \subseteq Listed
    <3>1. CASE Exited
      BY <3>1 DEF Exited
    <3>2. ASSUME NEW L, Running(L) PROVE Tasks \subseteq Listed
      BY <3>2, ListIs DEF Running, TaskInv
    <3>. QED  BY <2>2, <3>1, <3>2 DEF TaskInv
  <2>. QED  BY <2>1, <2>2 DEF TaskListWhole
<1>. QED  BY <1>1, TasksInvariance, PTL

(***************************************************************************)
(* task.c:54, task.c:60: no frame is lost or given twice, and in free      *)
(* memory without a hole the three frames of a task follow each other.     *)
(***************************************************************************)
THEOREM FramesCorrect == Spec => []FramesAccounted
<1>1. TaskInv /\ FrameInv => FramesAccounted
  <2> SUFFICES ASSUME TaskInv, FrameInv PROVE FramesAccounted
    OBVIOUS
  <2>1. ASSUME NEW f \in Tasks PROVE taskFrames[f] \cap freeFrames = {}
    <3>1. ASSUME NEW x \in taskFrames[f], x \in freeFrames PROVE FALSE
      <4>1. x \in Nat /\ x < x
        BY <2>1, <3>1 DEF FrameInv
      <4>. QED  BY <4>1
    <3>. QED  BY <3>1
  <2>2. ASSUME NEW f \in Tasks, Cardinality(taskFrames[f]) = 3, NoHole
        PROVE  taskFrames[f] = f .. f + 2
    <3>1. f # Idle
      BY <2>2, FS_EmptySet DEF FrameInv
    <3>2. PICK s, top \in Nat : /\ f < s /\ s <= top /\ taskFrames[f] = {f, s, top}
                                /\ \A x \in All : f <= x /\ x <= top => x \in taskFrames[f]
      BY <3>1 DEF FrameInv, Compact
    <3>3. f \in Nat
      BY DEF TaskInv
    <3>4. s # top
      <4>1. ASSUME s = top PROVE FALSE
        <5>1. taskFrames[f] = {f, s} /\ f # s
          BY <3>2, <3>3, <4>1
        <5>2. Cardinality({f, s}) = 2
          <6>1. IsFiniteSet({f}) /\ Cardinality({f}) = 1
            BY FS_Singleton
          <6>2. Cardinality({f} \cup {s}) = 1 + 1
            BY <5>1, <6>1, FS_AddElement
          <6>3. {f} \cup {s} = {f, s}
            OBVIOUS
          <6>. QED  BY <6>2, <6>3
        <5>. QED  BY <2>2, <5>1, <5>2
      <4>. QED  BY <4>1
    <3>5. /\ All = Min(All) .. Max(All)
          /\ Min(All) \in Nat /\ Max(All) \in Nat
      <4>1. All # {} /\ All = Min(All) .. Max(All)
        BY <2>2 DEF NoHole, All
      <4>2. All \in SUBSET Nat /\ IsFiniteSet(All)
        BY <4>1, TasksAssumption DEF FrameInv
      <4>. QED  BY <4>1, <4>2, LeastElement, GreatestOfFinite
    <3>6. ASSUME NEW x \in Nat, f <= x, x <= top PROVE x \in {f, s, top}
      <4>1. f \in All /\ top \in All
        BY <3>2 DEF All
      <4>2. x \in All
        BY <3>2, <3>3, <3>5, <3>6, <4>1
      <4>. QED  BY <3>2, <3>6, <4>2
    <3>7. s = f + 1
      <4>1. f + 1 \in {f, s, top}
        BY <3>2, <3>3, <3>6
      <4>. QED  BY <3>2, <3>3, <3>4, <4>1
    <3>8. top = f + 2
      <4>1. s + 1 \in {f, s, top}
        BY <3>2, <3>3, <3>4, <3>6
      <4>. QED  BY <3>2, <3>3, <3>4, <3>7, <4>1
    <3>. QED  BY <3>2, <3>3, <3>7, <3>8
  <2>. QED  BY <2>1, <2>2 DEF FramesAccounted, FrameInv, All
<1>. QED  BY <1>1, TasksInvariance, PTL

----------------------------------------------------------------------------
(***************************************************************************)
(* Transfers.  The sectors that a read has taken are what the disk holds;  *)
(* of those that a write has given to the drive all but the last are       *)
(* stored, and the last one too when the drive is ready for the next.  No  *)
(* other sector has changed.                                               *)
(***************************************************************************)
Stored(k) == disk[Sector(k)] = New(k)

Given == {Sector(k) : k \in 0 .. xfer.i - 1}

ReadInv ==
    /\ pending = <<>>
    /\ \E S : xfer.buf \in Seq(S)
    /\ Len(xfer.buf) = xfer.i
    /\ \A k \in 1 .. xfer.i : xfer.buf[k] = disk[Sector(k - 1)]

WriteInv ==
    /\ \A s \in 0 .. DiskSize - 1 : s \notin Given => disk[s] = xfer.before[s]
    /\ pending # <<>> => /\ xfer.i # 0 /\ Sector(xfer.i - 1) < DiskSize
                         /\ pending = <<Sector(xfer.i - 1), New(xfer.i - 1)>>
    /\ ata_pc = "sector" /\ status # {"BSY"} => pending = <<>>
    /\ ata_pc = "sector" /\ status # {"ERR"} /\ pending = <<>> /\ xfer.i # 0 =>
          Stored(xfer.i - 1)
    /\ xfer.ret = 0 /\ (ata_pc = "sector" => status # {"ERR"}) =>
          \A k \in 0 .. xfer.i - 2 : Stored(k)

XferTyped ==
    /\ xfer = [op |-> xfer.op, lba |-> xfer.lba, count |-> xfer.count, i |-> xfer.i,
               buf |-> xfer.buf, ret |-> xfer.ret, before |-> xfer.before]
    /\ xfer.op \in {"read", "write"} /\ xfer.lba \in Nat /\ xfer.count \in Nat
    /\ xfer.i \in Nat /\ xfer.i <= xfer.count /\ xfer.ret \in {0, -1}

Progress ==
    /\ ata_pc = "sector" =>
          /\ xfer.i < xfer.count /\ xfer.ret = 0
          /\ status \in {{"BSY"}, {"DRDY", "DRQ"}, {"ERR"}}
          /\ status = {"DRDY", "DRQ"} => Sector(xfer.i) < DiskSize
    /\ ata_pc = "returned" /\ xfer.ret = 0 => xfer.i = xfer.count

DiskInv ==
    /\ disk = [s \in 0 .. DiskSize - 1 |-> disk[s]]
    /\ ata_pc \in {"sector", "returned"} =>
          /\ XferTyped /\ Progress
          /\ xfer.op = "read" => ReadInv
          /\ xfer.op = "write" => WriteInv

LEMMA AtaSteps ==
  ASSUME [Next]_vars
  PROVE  \/ UNCHANGED ata_vars
         \/ ata_init \/ ata_identify \/ ata_sector \/ ata_return
         \/ \E op \in {"read", "write"}, lba \in Lbas, count \in Counts :
               ata_transfer(op, lba, count)
         \/ DriveIdentifies \/ DriveAnswers \/ DriveSettles
<1>1. CASE UNCHANGED vars
  BY <1>1 DEF vars
<1>2. CASE rtc_init
  BY <1>2 DEF rtc_init, Others
<1>3. CASE disk_init
  BY <1>3 DEF disk_init
<1>4. CASE start_shell
  BY <1>4 DEF start_shell, Others
<1>5. CASE shell
  BY <1>5 DEF shell, Others
<1>6. CASE date_command
  BY <1>6 DEF date_command, Others
<1>7. CASE disk_calls
  BY <1>7 DEF disk_calls
<1>8. CASE kernel_tasks
  BY <1>8 DEF kernel_tasks, Others
<1>9. CASE timer_tick
  BY <1>9 DEF timer_tick, Others
<1>10. CASE clock_chip
  BY <1>10 DEF clock_chip, Others
<1>11. CASE disk_drives
  BY <1>11 DEF disk_drives, DriveSteps
<1>. QED
  BY <1>1, <1>2, <1>3, <1>4, <1>5, <1>6, <1>7, <1>8, <1>9, <1>10, <1>11 DEF Next

\* The place of a sector on the disk.
Base == xfer.lba % LbaSpan

LEMMA SectorIs ==
  ASSUME XferTyped
  PROVE  Base \in Nat /\ \A k : Sector(k) = Base + k
<1>1. xfer.lba \in Nat /\ LbaSpan \in Nat \ {0}
  BY ATAAssumption DEF XferTyped
<1>. QED  BY <1>1 DEF Base, Sector

LEMMA InitDisk == Init => DiskInv
  BY DEF Init, ata_init_state, DiskInv

\* The calls outside of a transfer.
LEMMA OtherDisk ==
  ASSUME DiskInv, disk' = disk \/ Stores, ata_pc' \notin {"sector", "returned"}
  PROVE  DiskInv'
<1>1. disk' = [s \in 0 .. DiskSize - 1 |-> disk'[s]]
  BY DEF DiskInv, Stores
<1>. QED  BY <1>1 DEF DiskInv

LEMMA CallDisk ==
  ASSUME DiskInv, NEW op \in {"read", "write"}, NEW lba \in Lbas, NEW count \in Counts,
         ata_transfer(op, lba, count)
  PROVE  DiskInv'
<1>1. /\ xfer' = [op |-> op, lba |-> lba, count |-> count, i |-> 0,
                  buf |-> <<>>, ret |-> 0, before |-> disk]
      /\ disk' = disk /\ pending' = <<>>
      /\ count = 0 => ata_pc' = "returned"
      /\ count # 0 => ata_pc' = "sector" /\ status' = {"BSY"}
  BY DEF ata_transfer, external
<1>2. lba \in Nat /\ count \in Nat
  BY ATAAssumption
<1>3. XferTyped'
  BY <1>1, <1>2 DEF XferTyped
<1>4. Progress'
  BY <1>1, <1>2 DEF Progress
<1>5. ReadInv'
  BY <1>1 DEF ReadInv
<1>6. WriteInv'
  BY <1>1 DEF WriteInv
<1>. QED  BY <1>1, <1>3, <1>4, <1>5, <1>6 DEF DiskInv

\* The round of the loop that meets an error.
LEMMA ErrorDisk ==
  ASSUME DiskInv, ata_sector, TransferError
  PROVE  DiskInv'
<1>1. /\ ata_pc = "sector" /\ ata_pc' = "returned"
      /\ xfer' = [xfer EXCEPT !.ret = -1]
      /\ disk' = disk /\ pending' = pending
  BY DEF ata_sector
<1>2. XferTyped /\ Progress
  BY <1>1 DEF DiskInv
<1>3. /\ XferTyped' /\ xfer'.ret = -1 /\ xfer'.op = xfer.op /\ xfer'.lba = xfer.lba
      /\ xfer'.i = xfer.i /\ xfer'.buf = xfer.buf /\ xfer'.before = xfer.before
  BY <1>1, <1>2 DEF XferTyped
<1>4. Progress'
  BY <1>1, <1>3 DEF Progress
<1>5. xfer.op = "read" => ReadInv'
  BY <1>1, <1>3 DEF DiskInv, ReadInv, Sector
<1>6. (\A k : Sector(k)' = Sector(k)) /\ Given' = Given
  BY <1>3 DEF Sector, Given
<1>7. xfer.op = "write" => WriteInv'
  <2>1. SUFFICES ASSUME WriteInv
                 PROVE  WriteInv'
    BY <1>1 DEF DiskInv
  <2>2. \A s \in 0 .. DiskSize - 1 : s \notin Given' => disk'[s] = xfer'.before[s]
    BY <1>1, <1>3, <1>6, <2>1 DEF WriteInv
  <2>3. pending' # <<>> =>
            /\ xfer'.i # 0 /\ Sector(xfer.i - 1) < DiskSize
            /\ pending' = <<Sector(xfer.i - 1), New(xfer.i - 1)>>
    BY <1>1, <1>3, <2>1 DEF WriteInv
  <2>. QED  BY <1>1, <1>3, <1>6, <2>2, <2>3 DEF WriteInv
<1>. QED  BY <1>1, <1>3, <1>4, <1>5, <1>7 DEF DiskInv

\* A round that moves a sector: the drive is ready for it.
LEMMA ReadyDisk ==
  ASSUME DiskInv, ata_sector, ~TransferError
  PROVE  /\ ata_pc = "sector" /\ status = {"DRDY", "DRQ"}
         /\ disk' = disk /\ xfer.i < xfer.count /\ xfer.ret = 0
         /\ Sector(xfer.i) \in 0 .. DiskSize - 1
         /\ XferTyped
<1>1. ata_pc = "sector" /\ disk' = disk /\ Settled
  BY DEF ata_sector
<1>2. XferTyped /\ Progress
  BY <1>1 DEF DiskInv
<1>3. status = {"DRDY", "DRQ"}
  BY <1>1, <1>2 DEF Progress, Settled, TransferError
<1>4. Sector(xfer.i) < DiskSize /\ xfer.i \in Nat /\ DiskSize \in Nat
  BY <1>1, <1>2, <1>3, ATAAssumption DEF Progress, XferTyped
<1>5. Sector(xfer.i) \in Nat
  BY <1>2, <1>4, SectorIs
<1>6. Sector(xfer.i) \in 0 .. DiskSize - 1
  BY <1>4, <1>5
<1>. QED  BY <1>1, <1>2, <1>3, <1>6 DEF Progress

LEMMA NextSectorProgress ==
  ASSUME DiskInv, ata_sector, ~TransferError, XferTyped',
         xfer'.i = xfer.i + 1, xfer'.count = xfer.count, xfer'.ret = xfer.ret
  PROVE  Progress' /\ ata_pc' \in {"sector", "returned"}
<1>1. /\ LastSector => ata_pc' = "returned" /\ status' = {}
      /\ ~LastSector => ata_pc' = "sector" /\ status' = {"BSY"}
  BY DEF ata_sector
<1>2. xfer.i < xfer.count /\ xfer.ret = 0 /\ xfer.i \in Nat /\ xfer.count \in Nat
  BY ReadyDisk DEF XferTyped
<1>. QED  BY <1>1, <1>2 DEF Progress, LastSector

LEMMA ReadDisk ==
  ASSUME DiskInv, ata_sector, ~TransferError, xfer.op = "read"
  PROVE  DiskInv'
<1>1. /\ xfer' = [xfer EXCEPT !.i = @ + 1, !.buf = Append(@, disk[Sector(xfer.i)])]
      /\ pending' = pending
  BY DEF ata_sector
<1>2. XferTyped /\ disk' = disk /\ ata_pc = "sector" /\ xfer.i < xfer.count
  BY ReadyDisk
<1>3. xfer.i \in Nat /\ xfer.count \in Nat
  BY <1>2 DEF XferTyped
<1>4. /\ xfer'.i = xfer.i + 1 /\ xfer'.count = xfer.count /\ xfer'.ret = xfer.ret
      /\ xfer'.buf = Append(xfer.buf, disk[Sector(xfer.i)])
      /\ xfer'.op = "read" /\ xfer'.lba = xfer.lba
      /\ XferTyped'
  <2>1. xfer = [op |-> xfer.op, lba |-> xfer.lba, count |-> xfer.count, i |-> xfer.i,
                buf |-> xfer.buf, ret |-> xfer.ret, before |-> xfer.before]
    BY <1>2 DEF XferTyped
  <2>. DEFINE b == Append(xfer.buf, disk[Sector(xfer.i)])
  <2>2. xfer' = [xfer EXCEPT !.i = xfer.i + 1, !.buf = b]
    BY <1>1
  <2>. HIDE DEF b
  <2>3. xfer' = [op |-> xfer.op, lba |-> xfer.lba, count |-> xfer.count, i |-> xfer.i + 1,
                 buf |-> b, ret |-> xfer.ret, before |-> xfer.before]
    BY <2>1, <2>2
  <2>4. XferTyped'
    BY <1>2, <1>3, <2>3 DEF XferTyped
  <2>. QED  BY <2>3, <2>4 DEF b
<1>5. Progress' /\ ata_pc' \in {"sector", "returned"}
  BY <1>4, NextSectorProgress
<1>6. PICK S : xfer.buf \in Seq(S)
  BY <1>2 DEF DiskInv, ReadInv
<1>7. Len(xfer.buf) = xfer.i /\ pending = <<>>
      /\ \A k \in 1 .. xfer.i : xfer.buf[k] = disk[Sector(k - 1)]
  BY <1>2 DEF DiskInv, ReadInv
<1>8. xfer.buf \in Seq(S \cup {disk[Sector(xfer.i)]})
  BY <1>6
<1>9. /\ xfer'.buf \in Seq(S \cup {disk[Sector(xfer.i)]})
      /\ Len(xfer'.buf) = xfer.i + 1
      /\ xfer'.buf[xfer.i + 1] = disk[Sector(xfer.i)]
      /\ \A k \in 1 .. xfer.i : xfer'.buf[k] = xfer.buf[k]
  BY <1>3, <1>4, <1>7, <1>8
<1>10. \A k : Sector(k)' = Sector(k)
  BY <1>4 DEF Sector
<1>11. \A k \in 1 .. xfer'.i : xfer'.buf[k] = disk'[Sector(k - 1)]
  <2>. SUFFICES ASSUME NEW k \in 1 .. xfer.i + 1
                PROVE  xfer'.buf[k] = disk[Sector(k - 1)]
    BY <1>2, <1>4
  <2>1. k \in 1 .. xfer.i \/ (k = xfer.i + 1 /\ k - 1 = xfer.i)
    BY <1>3
  <2>. QED  BY <1>7, <1>9, <2>1
<1>12. ReadInv'
  BY <1>1, <1>4, <1>7, <1>9, <1>10, <1>11 DEF ReadInv
<1>. QED  BY <1>2, <1>4, <1>5, <1>12 DEF DiskInv

LEMMA WriteDisk ==
  ASSUME DiskInv, ata_sector, ~TransferError, xfer.op = "write"
  PROVE  DiskInv'
<1>1. /\ xfer' = [xfer EXCEPT !.i = @ + 1]
      /\ pending' = <<Sector(xfer.i), New(xfer.i)>>
      /\ ata_pc' = "sector" => status' = {"BSY"}
  BY DEF ata_sector
<1>2. /\ XferTyped /\ disk' = disk /\ ata_pc = "sector" /\ xfer.i < xfer.count
      /\ xfer.ret = 0 /\ status = {"DRDY", "DRQ"} /\ Sector(xfer.i) \in 0 .. DiskSize - 1
  BY ReadyDisk
<1>3. xfer.i \in Nat /\ xfer.count \in Nat /\ DiskSize \in Nat
  BY <1>2, ATAAssumption DEF XferTyped
<1>4. /\ xfer'.i = xfer.i + 1 /\ xfer'.count = xfer.count /\ xfer'.ret = xfer.ret
      /\ xfer'.op = "write" /\ xfer'.lba = xfer.lba /\ xfer'.before = xfer.before
      /\ XferTyped'
  BY <1>1, <1>2, <1>3 DEF XferTyped
<1>5. Progress' /\ ata_pc' \in {"sector", "returned"}
  BY <1>4, NextSectorProgress
<1>6. \A k : Sector(k)' = Sector(k)
  BY <1>4 DEF Sector
<1>7. WriteInv
  BY <1>2 DEF DiskInv
<1>8. pending = <<>>
  BY <1>2, <1>7 DEF WriteInv
<1>9. \A s \in 0 .. DiskSize - 1 : s \notin Given' => disk'[s] = xfer'.before[s]
  <2>1. Given \subseteq Given'
    BY <1>3, <1>4, <1>6 DEF Given
  <2>2. \A s \in 0 .. DiskSize - 1 : s \notin Given => disk[s] = xfer.before[s]
    BY <1>7 DEF WriteInv
  <2>. QED  BY <1>2, <1>4, <2>1, <2>2
<1>10. /\ xfer'.i # 0 /\ xfer'.i - 1 = xfer.i /\ xfer'.i - 2 = xfer.i - 1
       /\ pending' # <<>>
  BY <1>1, <1>3, <1>4
<1>11. \A k \in 0 .. xfer.i - 1 : Stored(k)
  <2>1. \A k \in 0 .. xfer.i - 2 : Stored(k)
    BY <1>2, <1>7 DEF WriteInv
  <2>2. xfer.i # 0 => Stored(xfer.i - 1)
    BY <1>2, <1>7, <1>8 DEF WriteInv
  <2>3. \A k \in 0 .. xfer.i - 1 : k \in 0 .. xfer.i - 2 \/ (xfer.i # 0 /\ k = xfer.i - 1)
    BY <1>3
  <2>. QED  BY <2>1, <2>2, <2>3
<1>12. \A k : Stored(k)' <=> Stored(k)
  BY <1>2, <1>6 DEF Stored
<1>13. Sector(xfer.i) < DiskSize
  BY <1>2, <1>3
<1>14. WriteInv'
  <2>1. pending' # <<>> => /\ xfer'.i # 0 /\ Sector(xfer.i - 1)' < DiskSize
                           /\ pending' = <<Sector(xfer.i - 1)', New(xfer.i - 1)'>>
    BY <1>1, <1>6, <1>10, <1>13
  <2>2. \A k \in 0 .. xfer'.i - 2 : Stored(k)'
    BY <1>10, <1>11, <1>12
  <2>3. /\ ata_pc' = "sector" /\ status' # {"BSY"} => pending' = <<>>
        /\ ~(ata_pc' = "sector" /\ status' # {"ERR"} /\ pending' = <<>> /\ xfer'.i # 0)
    BY <1>1, <1>10
  <2>. QED  BY <1>9, <2>1, <2>2, <2>3 DEF WriteInv
<1>. QED  BY <1>2, <1>4, <1>5, <1>14 DEF DiskInv

\* What the drive does with the sector it has: store it or lose it.
LEMMA AnswerDisk ==
  ASSUME DiskInv, DriveAnswers
  PROVE  DiskInv'
<1>1. /\ ata_pc = "sector" /\ status = {"BSY"} /\ xfer' = xfer /\ ata_pc' = "sector"
      /\ pending' = <<>>
  BY DEF DriveAnswers, Stores, probing
<1>2. XferTyped /\ Progress
  BY <1>1 DEF DiskInv
<1>3. /\ xfer.i \in Nat /\ Base \in Nat /\ DiskSize \in Nat
      /\ \A k : Sector(k) = Base + k
  BY <1>2, SectorIs, ATAAssumption DEF XferTyped
<1>4. (\A k : Sector(k)' = Sector(k)) /\ Given' = Given /\ XferTyped'
  BY <1>1, <1>2 DEF Sector, Given, XferTyped
<1>5. CASE status' = {"ERR"} /\ disk' = disk
  <2>1. Progress'
    BY <1>1, <1>2, <1>5 DEF Progress
  <2>2. xfer.op = "read" => ReadInv'
    BY <1>1, <1>4, <1>5 DEF DiskInv, ReadInv
  <2>3. xfer.op = "write" => WriteInv'
    BY <1>1, <1>4, <1>5 DEF DiskInv, WriteInv
  <2>. QED  BY <1>1, <1>4, <1>5, <2>1, <2>2, <2>3 DEF DiskInv
<1>6. CASE Stores /\ Sector(xfer.i) < DiskSize /\ status' = {"DRDY", "DRQ"}
  <2>1. Progress'
    BY <1>1, <1>2, <1>4, <1>6 DEF Progress
  <2>2. disk' = [s \in 0 .. DiskSize - 1 |-> disk'[s]]
    BY <1>6 DEF DiskInv, Stores
  <2>3. ASSUME xfer.op = "read"
        PROVE  ReadInv'
    <3>1. ReadInv
      BY <1>1, <2>3 DEF DiskInv
    <3>2. disk' = disk
      BY <1>6, <3>1 DEF ReadInv, Stores
    <3>. QED  BY <1>1, <1>4, <3>1, <3>2 DEF ReadInv
  <2>4. ASSUME xfer.op = "write"
        PROVE  WriteInv'
    <3>1. WriteInv
      BY <1>1, <2>4 DEF DiskInv
    <3>2. CASE pending = <<>>
      <4>1. disk' = disk
        BY <1>6, <3>2 DEF Stores
      <4>. QED  BY <1>1, <1>4, <1>6, <3>1, <3>2, <4>1 DEF WriteInv, Stored
    <3>3. CASE pending # <<>>
      <4>1. xfer.i # 0 /\ pending = <<Sector(xfer.i - 1), New(xfer.i - 1)>>
        BY <3>1, <3>3 DEF WriteInv
      <4>2. disk' = [disk EXCEPT ![Sector(xfer.i - 1)] = New(xfer.i - 1)]
        BY <1>6, <4>1 DEF Stores
      <4>3. /\ Sector(xfer.i - 1) < DiskSize /\ Sector(xfer.i - 1) \in Nat
            /\ xfer.i - 1 \in 0 .. xfer.i - 1
        BY <1>3, <3>1, <3>3, <4>1 DEF WriteInv
      <4>4. disk'[Sector(xfer.i - 1)] = New(xfer.i - 1)
        BY <1>3, <4>2, <4>3 DEF DiskInv
      <4>5. \A s \in 0 .. DiskSize - 1 : s # Sector(xfer.i - 1) => disk'[s] = disk[s]
        BY <4>2 DEF DiskInv
      <4>6. Sector(xfer.i - 1) \in Given
        BY <4>3 DEF Given
      <4>7. \A s \in 0 .. DiskSize - 1 : s \notin Given' => disk'[s] = xfer'.before[s]
        BY <1>1, <1>4, <3>1, <4>5, <4>6 DEF WriteInv
      <4>8. Stored(xfer.i - 1)'
        BY <1>1, <1>4, <4>4 DEF Stored
      <4>9. \A k \in 0 .. xfer.i - 2 : Stored(k)'
        <5>. SUFFICES ASSUME NEW k \in 0 .. xfer.i - 2
                      PROVE  Stored(k)'
          OBVIOUS
        <5>1. Stored(k)
          BY <1>1, <1>2, <3>1 DEF WriteInv, Progress
        <5>2. Sector(k) \in 0 .. DiskSize - 1 /\ Sector(k) # Sector(xfer.i - 1)
          BY <1>3, <4>3
        <5>3. disk'[Sector(k)] = New(k)
          BY <4>5, <5>1, <5>2 DEF Stored
        <5>. QED  BY <1>4, <5>3 DEF Stored
      <4>. QED  BY <1>1, <1>4, <4>7, <4>8, <4>9 DEF WriteInv
    <3>. QED  BY <3>2, <3>3
  <2>. QED  BY <1>1, <1>4, <2>1, <2>2, <2>3, <2>4 DEF DiskInv
<1>. QED  BY <1>5, <1>6 DEF DriveAnswers

LEMMA SettleDisk ==
  ASSUME DiskInv, DriveSettles
  PROVE  DiskInv'
<1>1. /\ xfer' = xfer /\ ata_pc' = ata_pc /\ status' = status
      /\ pending # <<>> /\ pending' = <<>>
      /\ ata_pc \in {"returned", "ready"}
      /\ disk' = disk \/ Stores
  BY DEF DriveSettles, Stores, probing
<1>2. CASE ata_pc = "ready"
  BY <1>1, <1>2, OtherDisk
<1>3. CASE ata_pc = "returned"
  <2>1. XferTyped /\ Progress
    BY <1>3 DEF DiskInv
  <2>2. /\ xfer.i \in Nat /\ Base \in Nat /\ DiskSize \in Nat
        /\ \A k : Sector(k) = Base + k
    BY <2>1, SectorIs, ATAAssumption DEF XferTyped
  <2>3. (\A k : Sector(k)' = Sector(k)) /\ Given' = Given /\ XferTyped' /\ Progress'
    BY <1>1, <1>3, <2>1 DEF Sector, Given, XferTyped, Progress
  <2>4. disk' = [s \in 0 .. DiskSize - 1 |-> disk'[s]]
    BY <1>1 DEF DiskInv, Stores
  <2>5. xfer.op # "read"
    BY <1>1, <1>3 DEF DiskInv, ReadInv
  <2>6. ASSUME xfer.op = "write"
        PROVE  WriteInv'
    <3>1. WriteInv
      BY <1>3, <2>6 DEF DiskInv
    <3>2. /\ xfer.i # 0 /\ Sector(xfer.i - 1) < DiskSize
          /\ pending = <<Sector(xfer.i - 1), New(xfer.i - 1)>>
      BY <1>1, <3>1 DEF WriteInv
    <3>3. Sector(xfer.i - 1) \in Given
      BY <2>2, <3>2 DEF Given
    <3>4. \A s \in 0 .. DiskSize - 1 : s # Sector(xfer.i - 1) => disk'[s] = disk[s]
      BY <1>1, <3>2 DEF DiskInv, Stores
    <3>5. \A s \in 0 .. DiskSize - 1 : s \notin Given' => disk'[s] = xfer'.before[s]
      BY <1>1, <2>3, <3>1, <3>3, <3>4 DEF WriteInv
    <3>6. ASSUME xfer.ret = 0
          PROVE  \A k \in 0 .. xfer.i - 2 : Stored(k)'
      <4>. SUFFICES ASSUME NEW k \in 0 .. xfer.i - 2
                    PROVE  Stored(k)'
        OBVIOUS
      <4>1. Stored(k)
        BY <1>3, <3>1, <3>6 DEF WriteInv
      <4>2. Sector(k) \in 0 .. DiskSize - 1 /\ Sector(k) # Sector(xfer.i - 1)
        BY <2>2, <3>2
      <4>3. disk'[Sector(k)] = New(k)
        BY <3>4, <4>1, <4>2 DEF Stored
      <4>. QED  BY <2>3, <4>3 DEF Stored
    <3>. QED  BY <1>1, <1>3, <2>3, <3>5, <3>6 DEF WriteInv
  <2>. QED  BY <1>1, <1>3, <2>3, <2>4, <2>5, <2>6 DEF DiskInv
<1>. QED  BY <1>1, <1>2, <1>3

LEMMA NextDisk ==
  ASSUME DiskInv, [Next]_vars
  PROVE  DiskInv'
<1>1. CASE UNCHANGED ata_vars
  <2>1. board' = board /\ disk' = disk /\ pending' = pending /\ status' = status
        /\ ata_pc' = ata_pc /\ xfer' = xfer
    BY <1>1 DEF ata_vars, external, probing
  <2>2. /\ XferTyped' <=> XferTyped
        /\ Progress' <=> Progress
        /\ ReadInv' <=> ReadInv
        /\ WriteInv' <=> WriteInv
    BY <2>1 DEF XferTyped, Progress, ReadInv, WriteInv, Sector, Given, Stored
  <2>. QED  BY <2>1, <2>2 DEF DiskInv
<1>2. CASE ata_init \/ ata_identify \/ ata_return \/ DriveIdentifies
  <2>1. disk' = disk /\ ata_pc' \notin {"sector", "returned"}
    BY <1>2 DEF ata_init, ata_identify, ata_select, ata_signature, ata_found, NextDrive,
                ata_return, DriveIdentifies, external, probing
  <2>. QED  BY <2>1, OtherDisk
<1>3. CASE ata_sector
  <2>1. ata_pc = "sector"
    BY <1>3 DEF ata_sector
  <2>2. xfer.op \in {"read", "write"}
    BY <2>1 DEF DiskInv, XferTyped
  <2>. QED  BY <1>3, <2>2, ErrorDisk, ReadDisk, WriteDisk
<1>4. ASSUME NEW op \in {"read", "write"}, NEW lba \in Lbas, NEW count \in Counts,
             ata_transfer(op, lba, count)
      PROVE  DiskInv'
  BY <1>4, CallDisk
<1>. QED  BY <1>1, <1>2, <1>3, <1>4, AnswerDisk, SettleDisk, AtaSteps

(***************************************************************************)
(* Transfers stay as DiskInv says (ata_read_sectors, ata_write_sectors).   *)
(***************************************************************************)
THEOREM DiskInvariance == Spec => []DiskInv
<1>. QED  BY InitDisk, NextDisk, PTL DEF Spec

(***************************************************************************)
(* A transfer that returns 0 has moved all its sectors in their order, one *)
(* that fails those before the error, and no other sector changes: for     *)
(* every disk, every sector number below LbaSpan and every count.          *)
(***************************************************************************)
THEOREM TransferCorrect == Spec => []TransferExact
<1>1. ASSUME DiskInv
      PROVE  TransferExact
  <2>. SUFFICES ASSUME ata_pc = "returned", xfer.lba < LbaSpan
                PROVE  /\ xfer.op = "read" =>
                            /\ \A k \in 1 .. Len(xfer.buf) :
                                  xfer.buf[k] = disk[xfer.lba + k - 1]
                            /\ xfer.ret = 0 => Len(xfer.buf) = xfer.count
                       /\ xfer.op = "write" =>
                            /\ \A s \in DOMAIN disk \ Addressed : disk[s] = xfer.before[s]
                            /\ xfer.ret = 0 => \A k \in 0 .. xfer.count - 2 :
                                                  disk[xfer.lba + k] = New(k)
    BY DEF TransferExact
  <2>1. XferTyped /\ (xfer.ret = 0 => xfer.i = xfer.count)
    BY <1>1 DEF DiskInv, Progress
  <2>2. xfer.lba \in Nat /\ xfer.i \in Nat /\ xfer.count \in Nat /\ xfer.i <= xfer.count
    BY <2>1 DEF XferTyped
  <2>3. xfer.lba % LbaSpan = xfer.lba
    BY <2>2, ATAAssumption
  <2>4. \A k : Sector(k) = xfer.lba + k
    BY <2>3 DEF Sector
  <2>5. ASSUME xfer.op = "read"
        PROVE  /\ \A k \in 1 .. Len(xfer.buf) : xfer.buf[k] = disk[xfer.lba + k - 1]
               /\ xfer.ret = 0 => Len(xfer.buf) = xfer.count
    <3>1. /\ Len(xfer.buf) = xfer.i
          /\ \A k \in 1 .. xfer.i : xfer.buf[k] = disk[Sector(k - 1)]
      BY <1>1, <2>5 DEF DiskInv, ReadInv
    <3>2. \A k \in 1 .. xfer.i : Sector(k - 1) = xfer.lba + k - 1
      BY <2>2, <2>4
    <3>. QED  BY <2>1, <3>1, <3>2
  <2>6. ASSUME xfer.op = "write"
        PROVE  /\ \A s \in DOMAIN disk \ Addressed : disk[s] = xfer.before[s]
               /\ xfer.ret = 0 => \A k \in 0 .. xfer.count - 2 :
                                     disk[xfer.lba + k] = New(k)
    <3>1. WriteInv
      BY <1>1, <2>6 DEF DiskInv
    <3>2. Given \subseteq Addressed
      BY <2>2, <2>3, <2>4 DEF Given, Addressed
    <3>3. DOMAIN disk = 0 .. DiskSize - 1
      BY <1>1 DEF DiskInv
    <3>4. \A s \in DOMAIN disk \ Addressed : disk[s] = xfer.before[s]
      BY <3>1, <3>2, <3>3 DEF WriteInv
    <3>5. xfer.ret = 0 => \A k \in 0 .. xfer.count - 2 : Stored(k)
      BY <2>1, <3>1 DEF WriteInv
    <3>. QED  BY <2>4, <3>4, <3>5 DEF Stored
  <2>. QED  BY <2>5, <2>6
<1>. QED  BY <1>1, DiskInvariance, PTL

----------------------------------------------------------------------------
(***************************************************************************)
(* The drives.  ata_init goes over them in order; those before idx that    *)
(* are disks exist, and the counter is their number.  A status with data   *)
(* or the signature of a disk belongs to the kind of the drive asked.      *)
(***************************************************************************)
Found(n) == {i \in 0 .. 3 : i < n /\ board[i] = "disk"}

ProbeInv ==
    /\ board \in [0 .. 3 -> Kinds]
    /\ idx \in 0 .. 4
    /\ ata_pc \in {"start", "select", "probe", "data", "ready", "sector", "returned"}
    /\ ata_pc \in {"select", "probe", "data"} => idx < 4
    /\ ata_pc \in {"ready", "sector", "returned"} => idx = 4
    /\ ata_pc # "start" =>
          exists = Found(idx) /\ active_drive_count = Cardinality(exists)
    /\ ata_pc = "probe" =>
          status \in IF board[idx] = "floating" THEN {{"BSY", "DRQ", "ERR"}}
                     ELSE IF board[idx] = "failing" THEN {{"BSY"}, {"ERR"}}
                     ELSE IF board[idx] = "disk" THEN {{"BSY"}, {"DRDY"}, {"DRDY", "DRQ"}}
                     ELSE IF board[idx] = "packet" THEN {{"BSY"}, {"DRDY"}}
                     ELSE {}
    /\ ata_pc = "data" =>
          status \in IF board[idx] = "failing" THEN {{"ERR"}}
                     ELSE IF board[idx] = "disk" THEN {{"DRDY"}, {"DRDY", "DRQ"}}
                     ELSE {}

\* Whatever is on the screen, the disks were looked for before.
StageInv == stage \notin {"clock", "disks"} => ata_pc \in {"ready", "sector", "returned"}

LEMMA NextFound ==
  ASSUME idx \in 0 .. 3
  PROVE  /\ board[idx] = "disk" => Found(idx + 1) = Found(idx) \cup {idx}
         /\ board[idx] # "disk" => Found(idx + 1) = Found(idx)
         /\ idx \notin Found(idx) /\ IsFiniteSet(Found(idx))
<1>1. IsFiniteSet(0 .. 3)
  <2>1. 0 \in Int /\ 3 \in Int
    OBVIOUS
  <2>. QED  BY <2>1, FS_Interval, Zenon
<1>2. Found(idx) \subseteq 0 .. 3
  BY DEF Found
<1>3. IsFiniteSet(Found(idx))
  BY <1>1, <1>2, FS_Subset
<1>. QED  BY <1>3 DEF Found

\* The step past a drive.
LEMMA PastDrive ==
  ASSUME ProbeInv, ata_pc \in {"select", "probe", "data"}, NextDrive,
         board' = board,
         IF board[idx] = "disk"
         THEN exists' = exists \cup {idx} /\ active_drive_count' = active_drive_count + 1
         ELSE exists' = exists /\ active_drive_count' = active_drive_count
  PROVE  ProbeInv'
<1>1. idx \in 0 .. 3 /\ exists = Found(idx) /\ active_drive_count = Cardinality(exists)
  BY DEF ProbeInv
<1>2. idx' = idx + 1 /\ ata_pc' \in {"ready", "select"}
      /\ (ata_pc' = "ready" => idx' = 4) /\ (ata_pc' = "select" => idx' < 4)
  BY <1>1 DEF NextDrive
<1>3. Found(idx)' = Found(idx + 1)
  BY <1>2 DEF Found
<1>4. exists' = Found(idx)'
  BY <1>1, <1>3, NextFound
<1>5. active_drive_count' = Cardinality(exists')
  <2>1. CASE board[idx] = "disk"
    <3>1. IsFiniteSet(exists) /\ idx \notin exists
      BY <1>1, NextFound
    <3>2. Cardinality(exists \cup {idx}) = Cardinality(exists) + 1
      BY <3>1, FS_AddElement
    <3>. QED  BY <1>1, <2>1, <3>2
  <2>2. CASE board[idx] # "disk"
    BY <1>1, <2>2
  <2>. QED  BY <2>1, <2>2
<1>. QED  BY <1>1, <1>2, <1>4, <1>5 DEF ProbeInv

LEMMA InitProbe == Init => ProbeInv /\ StageInv
<1>. SUFFICES ASSUME Init PROVE ProbeInv /\ StageInv
  OBVIOUS
<1>1. board \in [0 .. 3 -> Kinds] /\ idx = 0 /\ ata_pc = "start" /\ stage = "clock"
  BY ATAAssumption DEF Init, ata_init_state
<1>. QED  BY <1>1 DEF ProbeInv, StageInv

LEMMA NextProbe ==
  ASSUME ProbeInv, [Next]_vars
  PROVE  ProbeInv'
<1>1. CASE ata_init
  <2>1. /\ board' = board /\ ata_pc' = "select" /\ idx' = 0 /\ exists' = {}
        /\ active_drive_count' = 0
    BY <1>1 DEF ata_init, external
  <2>2. Found(idx)' = {}
    BY <2>1 DEF Found
  <2>3. Cardinality({}) = 0
    BY FS_EmptySet
  <2>. QED  BY <2>1, <2>2, <2>3 DEF ProbeInv
<1>2. CASE ata_select
  <2>1. /\ ata_pc = "select" /\ idx \in 0 .. 3 /\ board[idx] \in Kinds
        /\ board' = board /\ exists' = exists /\ active_drive_count' = active_drive_count
    BY <1>2 DEF ata_select, ProbeInv, external
  <2>2. CASE board[idx] = "absent"
    BY <1>2, <2>1, <2>2, PastDrive DEF ata_select
  <2>3. CASE board[idx] # "absent"
    <3>1. /\ ata_pc' = "probe" /\ idx' = idx
          /\ status' = IF board[idx] = "floating" THEN {"BSY", "DRQ", "ERR"} ELSE {"BSY"}
      BY <1>2, <2>3 DEF ata_select
    <3>2. Found(idx)' = Found(idx)
      BY <2>1, <3>1 DEF Found
    <3>. QED  BY <2>1, <2>3, <3>1, <3>2 DEF ProbeInv, Kinds
  <2>. QED  BY <2>2, <2>3
<1>3. CASE ata_signature
  <2>1. /\ ata_pc = "probe" /\ "BSY" \notin status
        /\ board' = board /\ exists' = exists /\ active_drive_count' = active_drive_count
        /\ status' = status
    BY <1>3 DEF ata_signature, external
  <2>2. CASE NotDisk
    BY <1>3, <2>1, <2>2, PastDrive DEF ata_signature, NotDisk
  <2>3. CASE ~NotDisk
    <3>1. ata_pc' = "data" /\ idx' = idx
      BY <1>3, <2>3 DEF ata_signature
    <3>2. Found(idx)' = Found(idx)
      BY <2>1, <3>1 DEF Found
    <3>. QED  BY <2>1, <2>3, <3>1, <3>2 DEF ProbeInv, NotDisk
  <2>. QED  BY <2>2, <2>3
<1>4. CASE ata_found
  <2>1. ata_pc = "data" /\ Settled /\ NextDrive /\ board' = board
    BY <1>4 DEF ata_found, external
  <2>2. IdentifyError <=> board[idx] # "disk"
    BY <2>1 DEF ProbeInv, IdentifyError, Settled
  <2>. QED  BY <1>4, <2>1, <2>2, PastDrive DEF ata_found
<1>5. CASE DriveIdentifies
  <2>1. /\ ata_pc \in {"probe", "data"} /\ ata_pc' = ata_pc /\ board' = board
        /\ idx' = idx /\ exists' = exists /\ active_drive_count' = active_drive_count
        /\ Found(idx)' = Found(idx)
    BY <1>5 DEF DriveIdentifies, external, probing, Found
  <2>2. /\ status = {"BSY"} =>
              status' = IF board[idx] = "failing" THEN {"ERR"} ELSE {"DRDY"}
        /\ status # {"BSY"} => status = {"DRDY"} /\ board[idx] = "disk"
                               /\ status' = {"DRDY", "DRQ"}
    BY <1>5 DEF DriveIdentifies
  <2>. QED  BY <2>1, <2>2 DEF ProbeInv
<1>6. CASE UNCHANGED <<board, idx, exists, active_drive_count>>
           /\ ata_pc \in {"ready", "sector", "returned"}
           /\ ata_pc' \in {"ready", "sector", "returned"}
  <2>1. Found(idx)' = Found(idx)
    BY <1>6 DEF Found
  <2>. QED  BY <1>6, <2>1 DEF ProbeInv
<1>7. CASE UNCHANGED ata_vars
  BY <1>7 DEF ProbeInv, Found, ata_vars, external, probing
<1>8. CASE ata_sector
  BY <1>6, <1>8 DEF ata_sector
<1>9. CASE ata_return \/ DriveAnswers \/ DriveSettles
  BY <1>6, <1>9 DEF ata_return, DriveAnswers, DriveSettles, external, probing
<1>10. ASSUME NEW op \in {"read", "write"}, NEW lba \in Lbas, NEW count \in Counts,
              ata_transfer(op, lba, count)
       PROVE  ProbeInv'
  BY <1>6, <1>10 DEF ata_transfer, external
<1>. QED  BY <1>1, <1>2, <1>3, <1>4, <1>5, <1>7, <1>8, <1>9, <1>10, AtaSteps DEF ata_identify

\* The calls of kernel_main follow the probing.
LEMMA NextStage ==
  ASSUME ProbeInv, StageInv, [Next]_vars
  PROVE  StageInv'
<1>. DEFINE Done == {"ready", "sector", "returned"}
<1>1. CASE stage' \in {"clock", "disks"}
  BY <1>1 DEF StageInv
<1>2. CASE stage' \notin {"clock", "disks"} /\ stage \in {"clock", "disks"}
  <2>1. start_shell
    BY <1>2 DEF Next, vars, rtc_init, disk_init, start_shell, shell, date_command, FreshShell,
             disk_calls, kernel_tasks, timer_tick, clock_chip, disk_drives
  <2>. QED  BY <2>1 DEF start_shell, Others, ata_vars, probing, StageInv
<1>3. CASE stage \notin {"clock", "disks"}
  <2>1. ata_pc \in Done
    BY <1>3 DEF StageInv
  <2>2. ~ata_init /\ ~ata_identify /\ ~DriveIdentifies
    BY <2>1 DEF ata_init, ata_identify, ata_select, ata_signature, ata_found, DriveIdentifies
  <2>3. ata_pc' \in Done
    <3>1. CASE UNCHANGED ata_vars
      BY <2>1, <3>1 DEF ata_vars, probing
    <3>2. ASSUME NEW op \in {"read", "write"}, NEW lba \in Lbas, NEW count \in Counts,
                 ata_transfer(op, lba, count)
          PROVE  ata_pc' \in Done
      BY <3>2 DEF ata_transfer
    <3>3. CASE ata_sector \/ ata_return \/ DriveAnswers \/ DriveSettles
      BY <2>1, <3>3 DEF ata_sector, ata_return, DriveAnswers, DriveSettles, probing
    <3>. QED  BY <2>2, <3>1, <3>2, <3>3, AtaSteps
  <2>. QED  BY <2>3 DEF StageInv
<1>. QED  BY <1>1, <1>2, <1>3

(***************************************************************************)
(* From the first prompt on exactly the drives that answer IDENTIFY with   *)
(* their data exist, and active_drive_count is their number (ata.c:94),    *)
(* whatever is on the two buses.                                           *)
(***************************************************************************)
THEOREM PromptKnowsDisks ==
    Spec => [](stage \notin {"clock", "disks"} => DrivesFound)
<1>1. ProbeInv /\ StageInv => (stage \notin {"clock", "disks"} => DrivesFound)
  <2>. SUFFICES ASSUME ProbeInv, StageInv, stage \notin {"clock", "disks"}
                PROVE  DrivesFound
    OBVIOUS
  <2>1. ata_pc \in {"ready", "sector", "returned"}
    BY DEF StageInv
  <2>2. idx = 4 /\ exists = Found(4) /\ active_drive_count = Cardinality(exists)
    BY <2>1 DEF ProbeInv
  <2>. QED  BY <2>2 DEF Found, DrivesFound
<1>2. Spec => [](ProbeInv /\ StageInv)
  BY InitProbe, NextProbe, NextStage, PTL DEF Spec
<1>. QED  BY <1>1, <1>2, PTL

----------------------------------------------------------------------------
(***************************************************************************)
(* The clock.  After(x, y, n): y is the time n seconds after x, as far as  *)
(* less than a minute tells: the seconds, and the other fields until the   *)
(* first carry and from it on.                                             *)
(***************************************************************************)
SlowFields == Fields \ {"second"}
SameMinute(x, y) == \A f \in SlowFields : y[f] = x[f]

Apart(x, y, n) ==
    /\ y.second = (x.second + n) % 60
    /\ x.second + n < 60 => SameMinute(x, y)

After(x, y, n) ==
    /\ y \in TimesOfDay
    /\ n = 0 => y = x
    /\ Apart(x, y, n)
    /\ n # 0 => Apart(NextSecond(x), y, n - 1)

LEMMA FieldsAre == Fields = {"second", "minute", "hour", "day", "month", "year"}
<1>1. 1 .. 6 = {1, 2, 3, 4, 5, 6}
  OBVIOUS
<1>. QED  BY <1>1 DEF Fields, Registers

LEMMA TimeIs ==
  ASSUME NEW x \in TimesOfDay
  PROVE  /\ x \in [Fields -> Int]
         /\ x.second \in 0 .. 59 /\ x.minute \in 0 .. 59 /\ x.hour \in 0 .. 23
         /\ x.day \in 1 .. 31 /\ x.month \in 1 .. 12 /\ x.year \in 0 .. 99
  BY DEF TimesOfDay

\* Setting fields to numbers keeps a record of numbers.
LEMMA FieldsSet ==
  ASSUME NEW x \in [Fields -> Int], NEW a \in Int, NEW b \in Int, NEW c \in Int
  PROVE  /\ [x EXCEPT !.second = a, !.minute = b] \in [Fields -> Int]
         /\ [x EXCEPT !.second = a, !.minute = b, !.hour = c] \in [Fields -> Int]
         /\ [x EXCEPT !.day = a, !.month = b] \in [Fields -> Int]
         /\ [x EXCEPT !.day = a, !.month = b, !.year = c] \in [Fields -> Int]
<1>1. /\ [x EXCEPT !.second = a] \in [Fields -> Int]
      /\ [x EXCEPT !.day = a] \in [Fields -> Int]
  OBVIOUS
<1>2. [x EXCEPT !.second = a, !.minute = b] \in [Fields -> Int]
  BY <1>1
<1>3. [x EXCEPT !.day = a, !.month = b] \in [Fields -> Int]
  BY <1>1
<1>4. [x EXCEPT !.second = a, !.minute = b, !.hour = c] \in [Fields -> Int]
  BY <1>2
<1>5. [x EXCEPT !.day = a, !.month = b, !.year = c] \in [Fields -> Int]
  BY <1>3
<1>. QED  BY <1>2, <1>3, <1>4, <1>5

LEMMA DayFollows ==
  ASSUME NEW x \in TimesOfDay
  PROVE  NextDay(x) \in TimesOfDay /\ NextDay(x).second = x.second
<1>1. /\ x \in [Fields -> Int]
      /\ x.second \in 0 .. 59 /\ x.minute \in 0 .. 59 /\ x.hour \in 0 .. 23
      /\ x.day \in 1 .. 31 /\ x.month \in 1 .. 12 /\ x.year \in 0 .. 99
  BY TimeIs
<1>2. DaysIn(x.month, 2000 + x.year) \in 1 .. 31
  BY DEF DaysIn
<1>3. (x.year + 1) % 100 \in 0 .. 99
  BY <1>1
<1>4. CASE x.day < DaysIn(x.month, 2000 + x.year)
  <2>1. NextDay(x) = [x EXCEPT !.day = x.day + 1]
    BY <1>1, <1>2, <1>4 DEF NextDay
  <2>2. x.day + 1 \in 1 .. 31
    BY <1>1, <1>2, <1>4
  <2>. QED  BY <1>1, <2>1, <2>2, FieldsAre DEF TimesOfDay
<1>5. CASE x.month < 12 /\ x.day = DaysIn(x.month, 2000 + x.year)
  <2>1. NextDay(x) = [x EXCEPT !.day = 1, !.month = x.month + 1]
    BY <1>1, <1>2, <1>5 DEF NextDay
  <2>2. x.month + 1 \in 1 .. 12
    BY <1>1, <1>5
  <2>. DEFINE y == [x EXCEPT !.day = 1, !.month = x.month + 1]
  <2>3. y \in [Fields -> Int]
    <3>1. 1 \in Int /\ x.month + 1 \in Int
      BY <1>1, <2>2
    <3>2. x \in [Fields -> Int]
      BY <1>1
    <3>. QED  BY <3>1, <3>2, FieldsSet, Zenon
  <2>4. /\ y.second = x.second /\ y.minute = x.minute /\ y.hour = x.hour
        /\ y.day = 1 /\ y.month = x.month + 1 /\ y.year = x.year
    BY <1>1, FieldsAre
  <2>. HIDE DEF y
  <2>5. y \in TimesOfDay
    BY <1>1, <2>2, <2>3, <2>4 DEF TimesOfDay
  <2>. QED  BY <2>1, <2>4, <2>5 DEF y
<1>6. CASE /\ ~ (x.day < DaysIn(x.month, 2000 + x.year))
           /\ ~ (x.month < 12 /\ x.day = DaysIn(x.month, 2000 + x.year))
  <2>1. NextDay(x) = [x EXCEPT !.day = 1, !.month = 1, !.year = (x.year + 1) % 100]
    BY <1>6 DEF NextDay
  <2>. DEFINE y == [x EXCEPT !.day = 1, !.month = 1, !.year = (x.year + 1) % 100]
  <2>3. y \in [Fields -> Int]
    <3>1. 1 \in Int /\ (x.year + 1) % 100 \in Int
      BY <1>3
    <3>2. x \in [Fields -> Int]
      BY <1>1
    <3>. QED  BY <3>1, <3>2, FieldsSet, Zenon
  <2>4. /\ y.second = x.second /\ y.minute = x.minute /\ y.hour = x.hour
        /\ y.day = 1 /\ y.month = 1 /\ y.year = (x.year + 1) % 100
    BY <1>1, <1>3, FieldsAre
  <2>. HIDE DEF y
  <2>5. y \in TimesOfDay
    BY <1>1, <1>3, <2>3, <2>4 DEF TimesOfDay
  <2>. QED  BY <2>1, <2>4, <2>5 DEF y
<1>. QED  BY <1>4, <1>5, <1>6

\* A second later: the seconds count modulo 60, and only their carry
\* changes another field.
LEMMA SecondFollows ==
  ASSUME NEW x \in TimesOfDay
  PROVE  /\ NextSecond(x) \in TimesOfDay
         /\ NextSecond(x).second = (x.second + 1) % 60
         /\ x.second < 59 => SameMinute(x, NextSecond(x))
<1>1. /\ x \in [Fields -> Int]
      /\ x.second \in 0 .. 59 /\ x.minute \in 0 .. 59 /\ x.hour \in 0 .. 23
      /\ x.day \in 1 .. 31 /\ x.month \in 1 .. 12 /\ x.year \in 0 .. 99
  BY TimeIs
<1>2. CASE x.second < 59
  <2>1. NextSecond(x) = [x EXCEPT !.second = x.second + 1]
    BY <1>1, <1>2 DEF NextSecond
  <2>2. x.second + 1 \in 0 .. 59 /\ (x.second + 1) % 60 = x.second + 1
    BY <1>1, <1>2
  <2>3. NextSecond(x) \in TimesOfDay /\ NextSecond(x).second = x.second + 1
    BY <1>1, <2>1, <2>2, FieldsAre DEF TimesOfDay
  <2>4. SameMinute(x, NextSecond(x))
    BY <1>1, <2>1 DEF SameMinute, SlowFields
  <2>. QED  BY <2>2, <2>3, <2>4
<1>3. CASE x.second = 59
  <2>0. (x.second + 1) % 60 = 0
    BY <1>3
  <2>1. CASE x.minute < 59
    <3>1. NextSecond(x) = [x EXCEPT !.second = 0, !.minute = x.minute + 1]
      BY <1>3, <2>1 DEF NextSecond
    <3>2. x.minute + 1 \in 0 .. 59
      BY <1>1, <2>1
    <3>. DEFINE y == [x EXCEPT !.second = 0, !.minute = x.minute + 1]
    <3>3. y \in [Fields -> Int]
      <4>1. 0 \in Int /\ x.minute + 1 \in Int
        BY <3>2
      <4>2. x \in [Fields -> Int]
        BY <1>1
      <4>. QED  BY <4>1, <4>2, FieldsSet, Zenon
    <3>4. /\ y.second = 0 /\ y.minute = x.minute + 1 /\ y.hour = x.hour
          /\ y.day = x.day /\ y.month = x.month /\ y.year = x.year
      BY <1>1, FieldsAre
    <3>. HIDE DEF y
    <3>5. y \in TimesOfDay
      BY <1>1, <3>2, <3>3, <3>4 DEF TimesOfDay
    <3>. QED  BY <1>3, <2>0, <3>1, <3>4, <3>5 DEF y
  <2>2. CASE x.minute = 59 /\ x.hour < 23
    <3>1. NextSecond(x) = [x EXCEPT !.second = 0, !.minute = 0, !.hour = x.hour + 1]
      BY <1>3, <2>2 DEF NextSecond
    <3>2. x.hour + 1 \in 0 .. 23
      BY <1>1, <2>2
    <3>. DEFINE y == [x EXCEPT !.second = 0, !.minute = 0, !.hour = x.hour + 1]
    <3>3. y \in [Fields -> Int]
      <4>1. 0 \in Int /\ x.hour + 1 \in Int
        BY <3>2
      <4>2. x \in [Fields -> Int]
        BY <1>1
      <4>. QED  BY <4>1, <4>2, FieldsSet, Zenon
    <3>4. /\ y.second = 0 /\ y.minute = 0 /\ y.hour = x.hour + 1
          /\ y.day = x.day /\ y.month = x.month /\ y.year = x.year
      BY <1>1, FieldsAre
    <3>. HIDE DEF y
    <3>5. y \in TimesOfDay
      BY <1>1, <3>2, <3>3, <3>4 DEF TimesOfDay
    <3>. QED  BY <1>3, <2>0, <3>1, <3>4, <3>5 DEF y
  <2>3. CASE x.minute = 59 /\ ~ (x.hour < 23)
    <3> DEFINE midnight == [x EXCEPT !.second = 0, !.minute = 0, !.hour = 0]
    <3>1. NextSecond(x) = NextDay(midnight)
      BY <1>3, <2>3 DEF NextSecond
    <3>3. midnight \in [Fields -> Int]
      <4>1. 0 \in Int
        OBVIOUS
      <4>2. x \in [Fields -> Int]
        BY <1>1
      <4>. QED  BY <4>1, <4>2, FieldsSet, Zenon
    <3>4. /\ midnight.second = 0 /\ midnight.minute = 0 /\ midnight.hour = 0
          /\ midnight.day = x.day /\ midnight.month = x.month /\ midnight.year = x.year
      BY <1>1, FieldsAre
    <3> HIDE DEF midnight
    <3>2. midnight \in TimesOfDay /\ midnight.second = 0
      BY <1>1, <3>3, <3>4 DEF TimesOfDay
    <3>. QED  BY <1>3, <2>0, <3>1, <3>2, DayFollows
  <2>. QED  BY <1>1, <2>1, <2>2, <2>3
<1>. QED  BY <1>1, <1>2, <1>3

LEMMA ApartFollows ==
  ASSUME NEW x \in TimesOfDay, NEW y \in TimesOfDay, NEW n \in Nat, Apart(x, y, n)
  PROVE  Apart(x, NextSecond(y), n + 1)
<1>1. /\ x.second \in 0 .. 59 /\ y.second \in 0 .. 59
  BY TimeIs
<1>2. NextSecond(y).second = (y.second + 1) % 60
  BY SecondFollows
<1>3. y.second = (x.second + n) % 60
  BY DEF Apart
<1>4. NextSecond(y).second = (x.second + (n + 1)) % 60
  BY <1>1, <1>2, <1>3
<1>5. ASSUME x.second + (n + 1) < 60
      PROVE  SameMinute(x, NextSecond(y))
  <2>0. x.second \in Nat /\ x.second + n < 59
    BY <1>1, <1>5
  <2>1. x.second + n < 60 /\ y.second < 59
    <3>1. (x.second + n) % 60 = x.second + n
      BY <2>0
    <3>. QED  BY <1>3, <2>0, <3>1
  <2>2. SameMinute(x, y) /\ SameMinute(y, NextSecond(y))
    BY <2>1, SecondFollows DEF Apart
  <2>. QED  BY <2>2 DEF SameMinute
<1>. QED  BY <1>4, <1>5 DEF Apart

LEMMA AfterFollows ==
  ASSUME NEW x \in TimesOfDay, NEW y, NEW n \in Nat, After(x, y, n)
  PROVE  After(x, NextSecond(y), n + 1)
<1>1. y \in TimesOfDay /\ NextSecond(y) \in TimesOfDay /\ NextSecond(x) \in TimesOfDay
  BY SecondFollows DEF After
<1>2. Apart(x, NextSecond(y), n + 1)
  BY <1>1, ApartFollows DEF After
<1>3. Apart(NextSecond(x), NextSecond(y), n)
  <2>1. CASE n = 0
    <3>1. y = x
      BY <2>1 DEF After
    <3>2. NextSecond(x).second \in 0 .. 59
      BY <1>1, TimeIs
    <3>. QED  BY <2>1, <3>1, <3>2 DEF Apart, SameMinute
  <2>2. CASE n # 0
    <3>1. Apart(NextSecond(x), y, n - 1) /\ n - 1 \in Nat /\ (n - 1) + 1 = n
      BY <2>2 DEF After
    <3>2. Apart(NextSecond(x), NextSecond(y), (n - 1) + 1)
      BY <1>1, <3>1, ApartFollows
    <3>. QED  BY <3>1, <3>2
  <2>. QED  BY <2>1, <2>2
<1>4. (n + 1) - 1 = n /\ n + 1 # 0
  OBVIOUS
<1>. QED  BY <1>1, <1>2, <1>3, <1>4 DEF After

LEMMA AfterStart ==
  ASSUME NEW x \in TimesOfDay
  PROVE  After(x, x, 0)
<1>1. x.second \in 0 .. 59
  BY TimeIs
<1>. QED  BY <1>1 DEF After, Apart, SameMinute

----------------------------------------------------------------------------
\* The driver's decoding undoes the chip's coding.
LEMMA BcdInverse ==
  ASSUME NEW n \in 0 .. 99, ~format.binary
  PROVE  bcd_to_bin(Coded(n)) = n /\ Coded(n) \in 0 .. 159
<1>. DEFINE q == n \div 10
            r == n % 10
<1>1. n = 10 * q + r /\ q \in 0 .. 9 /\ r \in 0 .. 9
  OBVIOUS
<1>2. Coded(n) = q * 16 + r
  BY DEF Coded
<1>. HIDE DEF q, r
<1>3. (q * 16 + r) \div 16 = q /\ (q * 16 + r) % 16 = r /\ q * 16 + r \in 0 .. 159
  BY <1>1
<1>. QED  BY <1>1, <1>2, <1>3 DEF bcd_to_bin

LEMMA CodedInjective ==
  ASSUME NEW a \in 0 .. 99, NEW b \in 0 .. 99, Coded(a) = Coded(b)
  PROVE  a = b
<1>1. CASE format.binary
  BY <1>1 DEF Coded
<1>2. CASE ~format.binary
  BY <1>2, BcdInverse
<1>. QED  BY <1>1, <1>2

\* What the driver makes of a field, and of the hour.
Field(v) == IF format.binary THEN v ELSE bcd_to_bin(v)
HourField(v) == IF format.binary THEN v
                ELSE bcd_to_bin(v % 128) + (v \div 128) * 128
Hour(v) == IF ~format.h24 /\ HourField(v) >= 128
           THEN ((HourField(v) % 128) + 12) % 24 ELSE HourField(v)

LEMMA ConvertedFields ==
  ASSUME NEW raw \in [Fields -> Int]
  PROVE  /\ \A f \in Fields \ {"hour", "year"} : Converted(raw)[f] = Field(raw[f])
         /\ Converted(raw).year = Field(raw.year) + 2000
         /\ Converted(raw).hour = Hour(raw.hour)
<1>. DEFINE bin == IF format.binary THEN raw
                   ELSE [f \in Fields |->
                            IF f = "hour" THEN bcd_to_bin(raw.hour % 128)
                                               + (raw.hour \div 128) * 128
                            ELSE bcd_to_bin(raw[f])]
            hour == IF ~format.h24 /\ bin.hour >= 128
                    THEN ((bin.hour % 128) + 12) % 24 ELSE bin.hour
<1>1. DOMAIN bin = Fields /\ bin.hour = HourField(raw.hour)
      /\ \A f \in Fields \ {"hour"} : bin[f] = Field(raw[f])
  BY FieldsAre DEF HourField, Field
<1>2. hour = Hour(raw.hour)
  BY <1>1 DEF Hour
<1>3. Converted(raw) = [bin EXCEPT !.hour = hour, !.year = bin.year + 2000]
  BY DEF Converted
<1>. HIDE DEF bin, hour
<1>4. "hour" \in Fields /\ "year" \in Fields
  BY FieldsAre
<1>5. /\ \A f \in Fields \ {"hour", "year"} : Converted(raw)[f] = bin[f]
      /\ Converted(raw).year = bin.year + 2000
      /\ Converted(raw).hour = hour
  <2>. DEFINE one == [bin EXCEPT !.hour = hour]
              two == [one EXCEPT !.year = bin.year + 2000]
  <2>1. /\ DOMAIN one = Fields /\ one.hour = hour
        /\ \A f \in Fields \ {"hour"} : one[f] = bin[f]
    BY <1>1, <1>4
  <2>. HIDE DEF one
  <2>2. /\ two.year = bin.year + 2000
        /\ \A f \in Fields \ {"year"} : two[f] = one[f]
    BY <1>4, <2>1
  <2>3. Converted(raw) = two
    BY <1>3 DEF one
  <2>. HIDE DEF two
  <2>. QED  BY <1>4, <2>1, <2>2, <2>3
<1>. QED  BY <1>1, <1>2, <1>4, <1>5

LEMMA HourDecoded ==
  ASSUME NEW h \in 0 .. 23, format \in [binary : BOOLEAN, h24 : BOOLEAN],
         format.h24 \/ h \notin {0, 12},
         NEW v, v = IF ~format.h24
                    THEN Coded(HourOn12(h)) + (IF h >= 12 THEN 128 ELSE 0)
                    ELSE Coded(h)
  PROVE  Hour(v) = h
<1>1. CASE format.h24
  <2>1. CASE format.binary
    BY <1>1, <2>1 DEF Hour, HourField, Coded
  <2>2. CASE ~format.binary
    <3>1. bcd_to_bin(Coded(h)) = h /\ Coded(h) \in 0 .. 159
      BY <2>2, BcdInverse
    <3>2. Coded(h) < 128
      BY <2>2 DEF Coded
    <3>3. v % 128 = v /\ v \div 128 = 0 /\ v = Coded(h)
      BY <1>1, <3>1, <3>2
    <3>4. HourField(v) = h
      BY <2>2, <3>1, <3>3 DEF HourField
    <3>. QED  BY <1>1, <3>4 DEF Hour
  <2>. QED  BY <2>1, <2>2
<1>2. CASE ~format.h24
  <2>. DEFINE k == HourOn12(h)
              pm == IF h >= 12 THEN 128 ELSE 0
  <2>1. k \in 1 .. 12 /\ k = IF h >= 12 THEN h - 12 ELSE h
    BY <1>2 DEF HourOn12
  <2>2. Coded(k) \in 0 .. 127 /\ v = Coded(k) + pm
    BY <1>2, <2>1 DEF Coded
  <2>3. pm \in {0, 128} /\ (pm = 128 <=> h >= 12)
    OBVIOUS
  <2>4. HourField(v) = k + pm
    <3>1. CASE format.binary
      BY <2>2, <3>1 DEF HourField, Coded
    <3>2. CASE ~format.binary
      <4>1. bcd_to_bin(Coded(k)) = k
        BY <2>1, <3>2, BcdInverse
      <4>. HIDE DEF k, pm
      <4>2. v % 128 = Coded(k) /\ (v \div 128) * 128 = pm
        BY <2>2, <2>3
      <4>. QED  BY <3>2, <4>1, <4>2 DEF HourField
    <3>. QED  BY <3>1, <3>2
  <2>. HIDE DEF k, pm
  <2>5. CASE h >= 12
    <3>1. HourField(v) = (h - 12) + 128 /\ h - 12 \in 1 .. 11
      BY <1>2, <2>1, <2>3, <2>4, <2>5
    <3>2. ((h - 12) + 128) % 128 = h - 12 /\ ((h - 12) + 12) % 24 = h
      BY <3>1
    <3>. QED  BY <1>2, <3>1, <3>2 DEF Hour
  <2>6. CASE ~(h >= 12)
    BY <1>2, <2>1, <2>3, <2>4, <2>6 DEF Hour
  <2>. QED  BY <2>5, <2>6
<1>. QED  BY <1>1, <1>2

\* A reading that holds the registers of one time gives that time.
LEMMA DecodedTime ==
  ASSUME NEW x \in TimesOfDay, NEW raw \in [Fields -> Int],
         format \in [binary : BOOLEAN, h24 : BOOLEAN],
         \A f \in Fields : raw[f] = Register(x, f)
  PROVE  /\ \A f \in Fields \ {"hour"} : Converted(raw)[f] = Full(x)[f]
         /\ HourReliable(x) => Converted(raw).hour = x.hour
<1>1. /\ x \in [Fields -> Int]
      /\ x.second \in 0 .. 59 /\ x.minute \in 0 .. 59 /\ x.hour \in 0 .. 23
      /\ x.day \in 1 .. 31 /\ x.month \in 1 .. 12 /\ x.year \in 0 .. 99
  BY TimeIs
<1>2. \A n \in 0 .. 99 : Field(Coded(n)) = n
  BY BcdInverse DEF Field, Coded
<1>3. \A f \in Fields \ {"hour"} : x[f] \in 0 .. 99 /\ raw[f] = Coded(x[f])
  <2>1. \A f \in Fields \ {"hour"} : x[f] \in 0 .. 99
    BY <1>1, FieldsAre
  <2>. QED  BY <2>1 DEF Register
<1>4. /\ \A f \in Fields \ {"hour", "year"} : Full(x)[f] = x[f]
      /\ Full(x).year = x.year + 2000
  BY <1>1, FieldsAre DEF Full
<1>5. \A f \in Fields \ {"hour"} : Field(raw[f]) = x[f]
  BY <1>2, <1>3
<1>6. \A f \in Fields \ {"hour"} : Converted(raw)[f] = Full(x)[f]
  <2>1. "year" \in Fields \ {"hour"}
    BY FieldsAre
  <2>. QED  BY <1>4, <1>5, <2>1, ConvertedFields
<1>7. HourReliable(x) => Converted(raw).hour = x.hour
  <2>1. Register(x, "hour") = IF ~format.h24
                              THEN Coded(HourOn12(x.hour)) + (IF x.hour >= 12 THEN 128 ELSE 0)
                              ELSE Coded(x.hour)
    BY DEF Register
  <2>2. raw.hour = Register(x, "hour")
    BY FieldsAre
  <2>. QED  BY <1>1, <2>1, <2>2, HourDecoded, ConvertedFields DEF HourReliable
<1>. QED  BY <1>6, <1>7

----------------------------------------------------------------------------
(***************************************************************************)
(* Readings.  Shown(x, f, v, lo, hi): v is what register f holds some time *)
(* from lo to hi seconds after x.  A reading has this form relative to the *)
(* time x at which its pass read the first register.                       *)
(***************************************************************************)
Ahead == IF updating THEN 1 ELSE 0

Shown(x, f, v, lo, hi) ==
    \E n \in lo .. hi : \E y : After(x, y, n) /\ v = Register(y, f)

Passed(x, n) ==
    /\ x \in times /\ x \in TimesOfDay
    /\ n \in Nat /\ n + Ahead <= updates + 1
    /\ After(x, now, n)
    /\ n # 0 => NextSecond(x) \in times

\* The completed pass before the last: its seconds d after x, nothing later
\* than m after x.
LastShows(x, d, m, r) ==
    /\ d \in 0 .. 1 /\ m \in Nat /\ d <= m
    /\ Shown(x, "second", r["second"], d, d)
    /\ \A f \in Fields : Shown(x, f, r[f], 0, m)

LEMMA ShownWider ==
  ASSUME NEW x, NEW f, NEW v, NEW lo \in Int, NEW hi \in Int, Shown(x, f, v, lo, hi),
         NEW a \in Int, NEW b \in Int, a <= lo, hi <= b
  PROVE  Shown(x, f, v, a, b)
<1>1. PICK n \in lo .. hi : \E y : After(x, y, n) /\ v = Register(y, f)
  BY DEF Shown
<1>2. n \in a .. b
  BY <1>1
<1>. QED  BY <1>1, <1>2 DEF Shown

LEMMA ShownKept ==
  ASSUME format' = format
  PROVE  \A x, f, v, lo, hi : Shown(x, f, v, lo, hi)' <=> Shown(x, f, v, lo, hi)
  BY DEF Shown, Register, Coded

LEMMA VisibleShown ==
  ASSUME NEW x \in TimesOfDay, NEW n \in Nat, After(x, now, n),
         NEW f, NEW v \in cmos_read(f)
  PROVE  Shown(x, f, v, n, n + Ahead)
<1>1. CASE v = Register(now, f)
  BY <1>1 DEF Shown, Ahead
<1>2. CASE v # Register(now, f)
  <2>1. updating /\ v = Register(NextSecond(now), f)
    BY <1>2 DEF cmos_read
  <2>2. After(x, NextSecond(now), n + 1)
    BY AfterFollows
  <2>3. n + 1 \in n .. n + Ahead
    BY <2>1 DEF Ahead
  <2>. QED  BY <2>1, <2>2, <2>3 DEF Shown
<1>. QED  BY <1>1, <1>2

LEMMA RegisterSame ==
  ASSUME NEW x, NEW y, SameMinute(x, y), NEW f \in SlowFields
  PROVE  Register(y, f) = Register(x, f)
<1>1. y[f] = x[f] /\ (f = "hour" => y.hour = x.hour)
  BY DEF SameMinute
<1>. QED  BY <1>1 DEF Register

LEMMA SecondRegister ==
  ASSUME NEW x
  PROVE  Register(x, "second") = Coded(x.second)
  BY DEF Register

\* Seconds that agree within a minute are the same seconds.
LEMMA SameSecond ==
  ASSUME NEW x \in TimesOfDay, NEW d \in 0 .. 59, NEW e \in 0 .. 59, NEW v,
         Shown(x, "second", v, d, d), Shown(x, "second", v, e, e)
  PROVE  d = e
<1>1. PICK y : After(x, y, d) /\ v = Register(y, "second")
  BY DEF Shown
<1>2. PICK z : After(x, z, e) /\ v = Register(z, "second")
  BY DEF Shown
<1>3. /\ y.second = (x.second + d) % 60 /\ z.second = (x.second + e) % 60
      /\ y \in TimesOfDay /\ z \in TimesOfDay
  BY <1>1, <1>2 DEF After, Apart
<1>4. y.second \in 0 .. 59 /\ z.second \in 0 .. 59 /\ x.second \in 0 .. 59
  BY <1>3, TimeIs
<1>5. Coded(y.second) = Coded(z.second)
  BY <1>1, <1>2, SecondRegister
<1>6. y.second \in 0 .. 99 /\ z.second \in 0 .. 99
  BY <1>4
<1>7. y.second = z.second
  BY <1>5, <1>6, CodedInjective
<1>. DEFINE a == x.second
<1>8. a \in 0 .. 59 /\ (a + d) % 60 = (a + e) % 60
  BY <1>3, <1>4, <1>7
<1>. HIDE DEF a
<1>9. \A k \in 0 .. 59 : (a + k) % 60 = IF a + k < 60 THEN a + k ELSE a + k - 60
  BY <1>8
<1>. QED  BY <1>8, <1>9

\* Two passes that agree have read one time.
LEMMA EqualPasses ==
  ASSUME NEW x, NEW n, NEW d, NEW m, NEW r, NEW s,
         Passed(x, n), updates \in Nat, updates <= 58,
         LastShows(x, d, m, s), m <= n,
         \A f \in Fields : Shown(x, f, r[f], m, n + Ahead),
         \A f \in Fields : r[f] = s[f]
  PROVE  \E y \in times : y \in TimesOfDay /\ \A f \in Fields : r[f] = Register(y, f)
<1>1. /\ x \in times /\ x \in TimesOfDay /\ n \in Nat /\ m \in Nat /\ d \in 0 .. 1
      /\ d <= m /\ Ahead \in 0 .. 1 /\ n + Ahead <= 59
  BY DEF Passed, LastShows, Ahead
<1>2. d = m
  <2>1. "second" \in Fields
    BY FieldsAre
  <2>2. PICK e \in m .. n + Ahead :
               \E y : After(x, y, e) /\ r["second"] = Register(y, "second")
    BY <2>1 DEF Shown
  <2>3. e \in 0 .. 59 /\ d \in 0 .. 59 /\ e \in e .. e
    BY <1>1
  <2>4. Shown(x, "second", r["second"], e, e)
    BY <2>2, <2>3 DEF Shown
  <2>5. Shown(x, "second", r["second"], d, d)
    BY <2>1 DEF LastShows
  <2>6. d = e
    BY <1>1, <2>3, <2>4, <2>5, SameSecond
  <2>. QED  BY <1>1, <2>6
<1>3. CASE d = 0
  <2>1. \A f \in Fields : Shown(x, f, r[f], 0, 0)
    BY <1>2, <1>3 DEF LastShows
  <2>2. \A f \in Fields : r[f] = Register(x, f)
    BY <2>1 DEF Shown, After
  <2>. QED  BY <1>1, <2>2
<1>4. CASE d = 1
  <2>. DEFINE z == NextSecond(x)
  <2>1. z \in times /\ z \in TimesOfDay /\ z.second = (x.second + 1) % 60
        /\ (x.second < 59 => SameMinute(x, z))
    BY <1>1, <1>2, <1>4, SecondFollows DEF Passed
  <2>2. x.second \in 0 .. 59 /\ z.second \in 0 .. 59
    BY <1>1, <2>1, TimeIs
  <2>3. \A k \in 1 .. 59 : \A y : After(x, y, k) => Apart(z, y, k - 1)
    BY DEF After
  <2>. HIDE DEF z
  <2>4. r["second"] = Register(z, "second")
    <3>1. Shown(x, "second", r["second"], 1, 1)
      BY <1>4, FieldsAre DEF LastShows
    <3>2. PICK y : After(x, y, 1) /\ r["second"] = Register(y, "second")
      BY <3>1 DEF Shown
    <3>3. y.second = z.second
      BY <2>2, <2>3, <3>2 DEF Apart
    <3>. QED  BY <3>2, <3>3, SecondRegister
  <2>5. ASSUME NEW f \in SlowFields
        PROVE  r[f] = Register(z, f)
    <3>0. f \in Fields
      BY DEF SlowFields
    <3>1. CASE z.second # 0
      <4>1. SameMinute(x, z)
        BY <2>1, <2>2, <3>1
      <4>2. Shown(x, f, r[f], 0, 1)
        BY <1>2, <1>4, <3>0 DEF LastShows
      <4>3. PICK k \in 0 .. 1 : \E y : After(x, y, k) /\ r[f] = Register(y, f)
        BY <4>2 DEF Shown
      <4>4. PICK y : After(x, y, k) /\ r[f] = Register(y, f)
        BY <4>3
      <4>5. CASE k = 0
        <5>1. y = x
          BY <4>4, <4>5 DEF After
        <5>. QED  BY <4>1, <4>4, <5>1, RegisterSame
      <4>6. CASE k = 1
        <5>1. SameMinute(z, y)
          BY <2>2, <2>3, <4>4, <4>6 DEF Apart
        <5>. QED  BY <4>4, <5>1, RegisterSame
      <4>. QED  BY <4>5, <4>6
    <3>2. CASE z.second = 0
      <4>1. PICK k \in m .. n + Ahead : \E y : After(x, y, k) /\ r[f] = Register(y, f)
        BY <3>0 DEF Shown
      <4>2. PICK y : After(x, y, k) /\ r[f] = Register(y, f)
        BY <4>1
      <4>3. k \in 1 .. 59
        BY <1>1, <1>2, <1>4
      <4>4. SameMinute(z, y)
        BY <2>3, <3>2, <4>2, <4>3 DEF Apart
      <4>. QED  BY <4>2, <4>4, RegisterSame
    <3>. QED  BY <3>1, <3>2
  <2>6. \A f \in Fields : f = "second" \/ f \in SlowFields
    BY DEF SlowFields
  <2>. QED  BY <2>1, <2>4, <2>5, <2>6
<1>. QED  BY <1>1, <1>3, <1>4

ReadSoFar == IF rtc_pc = "read" THEN {Registers[i] : i \in 1 .. reg - 1}
             ELSE IF rtc_pc = "compare" THEN Fields ELSE {}

ClockTypes ==
    /\ t \in [Fields -> Int] /\ last_t \in [Fields -> Int]
    /\ updating \in BOOLEAN /\ updates \in 0 .. MaxUpdates
    /\ rtc_pc \in {"idle", "wait", "read", "compare", "done"}
    /\ reg \in 1 .. 6 /\ (rtc_pc # "read" => reg = 1)
    /\ pass \in 1 .. 2
    /\ rtc_pc # "idle" => caller # "none"
    /\ caller # "none" => /\ format \in [binary : BOOLEAN, h24 : BOOLEAN]
                          /\ now \in TimesOfDay /\ now \in times

\* The pass that is under way, relative to its own first register.
ThisPass ==
    "second" \in ReadSoFar =>
        \E x, n, d :
            /\ Passed(x, n) /\ d \in 0 .. 1 /\ d <= n + Ahead
            /\ Shown(x, "second", t["second"], d, d)
            /\ \A f \in ReadSoFar : Shown(x, f, t[f], 0, n + Ahead)

\* The pass before, and the one under way relative to it.
LastPass ==
    pass = 2 /\ rtc_pc \in {"wait", "read", "compare"} =>
        \E x, n, d, m :
            /\ Passed(x, n)
            /\ LastShows(x, d, m, last_t)
            /\ m <= n + Ahead /\ (rtc_pc # "wait" => m <= n)
            /\ \A f \in ReadSoFar : Shown(x, f, t[f], m, n + Ahead)

ClockStage == stage \notin {"clock", "date"} => rtc_pc = "idle"

ClockInv == ClockTypes /\ ThisPass /\ LastPass /\ ReadingIsTrue

LEMMA RtcSteps ==
  ASSUME [Next]_vars, ClockTypes, ClockStage
  PROVE  \/ UNCHANGED rtc_vars
         \/ \E who : /\ who # "none" /\ rtc_call(who)
                     /\ IF who = "ticks" THEN rtc_pc = "done" /\ caller = "date"
                        ELSE rtc_pc = "idle"
         \/ cmos_is_updating \/ rtc_read_register \/ rtc_compare
         \/ rtc_pc = "done" /\ rtc_return
         \/ BeginUpdate \/ EndUpdate
<1>1. CASE UNCHANGED vars
  BY <1>1 DEF vars
<1>2. CASE rtc_init
  <2>1. "rtc_init" # "none" /\ "rtc_init" # "ticks"
    OBVIOUS
  <2>2. caller = "none" => rtc_pc = "idle"
    BY DEF ClockTypes
  <2>. QED  BY <1>2, <2>1, <2>2 DEF rtc_init, rtc_read_time
<1>3. CASE disk_init \/ disk_calls \/ disk_drives
  BY <1>3 DEF disk_init, disk_calls, disk_drives, Others
<1>4. CASE start_shell \/ shell
  BY <1>4 DEF start_shell, shell, Others
<1>5. CASE date_command
  <2>1. "date" # "none" /\ "ticks" # "none" /\ "date" # "ticks"
    OBVIOUS
  <2>2. FreshShell => rtc_pc = "idle"
    BY DEF FreshShell, ClockStage
  <2>. QED  BY <1>5, <2>1, <2>2 DEF date_command, rtc_read_time
<1>6. CASE kernel_tasks \/ timer_tick
  BY <1>6 DEF kernel_tasks, timer_tick, Others
<1>7. CASE clock_chip
  BY <1>7 DEF clock_chip, ChipSteps
<1>. QED  BY <1>1, <1>2, <1>3, <1>4, <1>5, <1>6, <1>7 DEF Next

LEMMA InitClock ==
  ASSUME Init
  PROVE  ClockInv /\ ClockStage
<1>0. ClockStage
  BY DEF Init, ClockStage
<1>1. /\ updating = FALSE /\ updates = 0 /\ rtc_pc = "idle" /\ reg = 1 /\ pass = 1
      /\ t = Zero /\ last_t = Zero /\ caller = "none"
  BY DEF Init, rtc_init_state
<1>2. Zero \in [Fields -> Int]
  <2>1. Zero = [f \in {"second", "minute", "hour", "day", "month", "year"} |-> 0]
    BY DEF Zero, Time
  <2>. QED  BY <2>1, FieldsAre
<1>3. MaxUpdates \in 0 .. 58
  BY RTCAssumption
<1>4. ReadSoFar = {}
  BY <1>1 DEF ReadSoFar
<1>5. ClockTypes
  <2>1. 0 \in 0 .. MaxUpdates
    BY <1>3
  <2>2. updating \in BOOLEAN
    BY <1>1
  <2>3. reg \in 1 .. 6 /\ pass \in 1 .. 2
    BY <1>1
  <2>. QED  BY <1>1, <1>2, <2>1, <2>2, <2>3 DEF ClockTypes
<1>6. ThisPass
  BY <1>4 DEF ThisPass
<1>7. LastPass
  BY <1>1 DEF LastPass
<1>8. ReadingIsTrue
  BY <1>1 DEF ReadingIsTrue
<1>. QED  BY <1>0, <1>5, <1>6, <1>7, <1>8 DEF ClockInv

\* The stages in which the clock is not read.
LEMMA NextClockStage ==
  ASSUME ClockTypes, ClockStage, [Next]_vars
  PROVE  ClockStage'
<1>1. CASE UNCHANGED vars
  BY <1>1 DEF vars, rtc_vars, reader, ClockStage
<1>2. CASE rtc_init
  BY <1>2 DEF rtc_init, rtc_return, ClockStage
<1>3. CASE disk_init \/ disk_calls \/ disk_drives
  BY <1>3 DEF disk_init, disk_calls, disk_drives, FreshShell, Others, rtc_vars, reader, ClockStage
<1>4. CASE start_shell \/ shell
  BY <1>4 DEF start_shell, shell, Others, rtc_vars, reader, ClockStage
<1>5. CASE date_command
  BY <1>5 DEF date_command, rtc_return, ClockStage
<1>6. CASE kernel_tasks \/ timer_tick
  BY <1>6 DEF kernel_tasks, timer_tick, FreshShell, Others, rtc_vars, reader, ClockStage
<1>7. CASE clock_chip
  BY <1>7 DEF clock_chip, ChipSteps, BeginUpdate, EndUpdate, reader, ClockStage
<1>. QED  BY <1>1, <1>2, <1>3, <1>4, <1>5, <1>6, <1>7 DEF Next

\* A call begins the first pass; after the return nobody looks.
LEMMA CallClock ==
  ASSUME ClockInv, NEW who, who # "none", rtc_pc \in {"idle", "done"}, rtc_call(who)
  PROVE  ClockInv'
<1>0. ClockTypes
  BY DEF ClockInv
<1>1. /\ rtc_pc' = "wait" /\ pass' = 1 /\ caller' = who /\ times' = {now'}
      /\ updating' = updating /\ updates' = updates /\ reg' = reg
      /\ t' = t /\ last_t' = last_t
  BY DEF rtc_call
<1>2. now' \in TimesOfDay /\ format' \in [binary : BOOLEAN, h24 : BOOLEAN]
  BY <1>0, RTCAssumption DEF rtc_call, ClockTypes
<1>3. ClockTypes'
  BY <1>0, <1>1, <1>2 DEF ClockTypes
<1>4. ReadSoFar' = {}
  BY <1>1 DEF ReadSoFar
<1>. QED  BY <1>1, <1>3, <1>4 DEF ClockInv, ThisPass, LastPass, ReadingIsTrue

LEMMA ReturnClock ==
  ASSUME ClockInv, rtc_pc = "done", rtc_return
  PROVE  ClockInv'
<1>0. ClockTypes /\ 0 \in 0 .. MaxUpdates
  BY RTCAssumption DEF ClockInv
<1>1. /\ rtc_pc' = "idle" /\ caller' = "none" /\ updates' = 0
      /\ updating' = updating /\ reg' = reg /\ pass' = pass /\ t' = t /\ last_t' = last_t
  BY DEF rtc_return
<1>2. ClockTypes'
  BY <1>0, <1>1 DEF ClockTypes
<1>3. ReadSoFar' = {}
  BY <1>1 DEF ReadSoFar
<1>. QED  BY <1>1, <1>2, <1>3 DEF ClockInv, ThisPass, LastPass, ReadingIsTrue

\* While the chip counts on, what has passed since x grows with it.
LEMMA ChipPasses ==
  ASSUME NEW x, NEW n, Passed(x, n), updating \in BOOLEAN, updates \in Nat,
         BeginUpdate \/ EndUpdate
  PROVE  \E k : /\ Passed(x, k)' /\ n \in Int /\ k \in Int /\ n <= k
               /\ n + Ahead \in Int /\ k + Ahead' \in Int /\ n + Ahead <= k + Ahead'
<1>1. /\ x \in times /\ x \in TimesOfDay /\ n \in Nat /\ n + Ahead <= updates + 1
      /\ After(x, now, n) /\ (n # 0 => NextSecond(x) \in times)
  BY DEF Passed
<1>2. CASE BeginUpdate
  <2>1. /\ updating = FALSE /\ updating' = TRUE /\ updates' = updates + 1
        /\ now' = now /\ times' = times
    BY <1>2 DEF BeginUpdate
  <2>2. Ahead = 0 /\ Ahead' = 1
    BY <2>1 DEF Ahead
  <2>3. Passed(x, n)'
    BY <1>1, <2>1, <2>2 DEF Passed
  <2>. QED  BY <1>1, <2>2, <2>3
<1>3. CASE EndUpdate
  <2>1. /\ updating = TRUE /\ updating' = FALSE /\ updates' = updates
        /\ now' = NextSecond(now) /\ times' = times \cup {now'}
    BY <1>3 DEF EndUpdate
  <2>2. Ahead = 1 /\ Ahead' = 0
    BY <2>1 DEF Ahead
  <2>3. After(x, now', n + 1)
    BY <1>1, <2>1, AfterFollows
  <2>4. NextSecond(x) \in times'
    BY <1>1, <2>1 DEF After
  <2>5. n + 1 \in Nat /\ n + 1 + Ahead' <= updates' + 1
    BY <1>1, <2>1, <2>2
  <2>6. Passed(x, n + 1)'
    BY <1>1, <2>1, <2>3, <2>4, <2>5 DEF Passed
  <2>. QED  BY <1>1, <2>2, <2>6
<1>. QED  BY <1>2, <1>3

\* The chip counts on.
LEMMA ChipClock ==
  ASSUME ClockInv, BeginUpdate \/ EndUpdate
  PROVE  ClockInv'
<1>0. ClockTypes /\ updating \in BOOLEAN /\ updates \in Nat /\ updates <= MaxUpdates
      /\ MaxUpdates \in Nat
  BY RTCAssumption DEF ClockInv, ClockTypes
<1>1. /\ UNCHANGED <<rtc_pc, reg, pass, t, last_t, result, caller, format>>
      /\ times \subseteq times'
  BY DEF BeginUpdate, EndUpdate, reader
<1>2. ClockTypes'
  <2>1. updating' \in BOOLEAN /\ updates' \in 0 .. MaxUpdates
    <3>1. CASE BeginUpdate
      <4>1. updating' = TRUE /\ updates' = updates + 1 /\ updates < MaxUpdates
        BY <3>1 DEF BeginUpdate
      <4>2. updates + 1 \in 0 .. MaxUpdates
        BY <1>0, <4>1
      <4>. QED  BY <4>1, <4>2
    <3>2. CASE EndUpdate
      <4>1. updating' = FALSE /\ updates' = updates
        BY <3>2 DEF EndUpdate
      <4>2. updates \in 0 .. MaxUpdates
        BY <1>0
      <4>. QED  BY <4>1, <4>2
    <3>. QED  BY <3>1, <3>2
  <2>2. caller # "none" => now' \in TimesOfDay /\ now' \in times'
    BY <1>0, SecondFollows DEF BeginUpdate, EndUpdate, ClockTypes
  <2>. QED  BY <1>0, <1>1, <2>1, <2>2 DEF ClockTypes
<1>3. ReadSoFar' = ReadSoFar
  BY <1>1 DEF ReadSoFar
<1>4. \A x, f, v, lo, hi : Shown(x, f, v, lo, hi)' <=> Shown(x, f, v, lo, hi)
  BY <1>1, ShownKept
<1>a. Ahead \in 0 .. 1 /\ Ahead' \in 0 .. 1
  BY DEF Ahead
<1>5. ThisPass'
  <2>. SUFFICES ASSUME "second" \in ReadSoFar
                PROVE  \E x, n, d :
                          /\ Passed(x, n)' /\ d \in 0 .. 1 /\ d <= n + Ahead'
                          /\ Shown(x, "second", t["second"], d, d)
                          /\ \A f \in ReadSoFar : Shown(x, f, t[f], 0, n + Ahead')
    BY <1>1, <1>3, <1>4 DEF ThisPass
  <2>1. PICK x, n, d :
            /\ Passed(x, n) /\ d \in 0 .. 1 /\ d <= n + Ahead
            /\ Shown(x, "second", t["second"], d, d)
            /\ \A f \in ReadSoFar : Shown(x, f, t[f], 0, n + Ahead)
    BY DEF ClockInv, ThisPass
  <2>. DEFINE a == n + Ahead
              b(k) == k + Ahead'
  <2>2. PICK k : /\ Passed(x, k)' /\ n \in Int /\ k \in Int /\ n <= k
                 /\ a \in Int /\ b(k) \in Int /\ a <= b(k)
    BY <1>0, <2>1, ChipPasses
  <2>5. d <= a /\ \A f \in ReadSoFar : Shown(x, f, t[f], 0, a)
    BY <2>1
  <2>. HIDE DEF a, b
  <2>3. \A f \in ReadSoFar : Shown(x, f, t[f], 0, b(k))
    BY <2>2, <2>5, ShownWider
  <2>4. d <= b(k)
    BY <2>1, <2>2, <2>5
  <2>. QED  BY <2>1, <2>2, <2>3, <2>4 DEF b
<1>6. LastPass'
  <2>. SUFFICES ASSUME pass = 2, rtc_pc \in {"wait", "read", "compare"}
                PROVE  \E x, n, d, m :
                          /\ Passed(x, n)'
                          /\ LastShows(x, d, m, last_t)'
                          /\ m <= n + Ahead' /\ (rtc_pc # "wait" => m <= n)
                          /\ \A f \in ReadSoFar : Shown(x, f, t[f], m, n + Ahead')
    BY <1>1, <1>3, <1>4 DEF LastPass
  <2>1. PICK x, n, d, m :
            /\ Passed(x, n)
            /\ LastShows(x, d, m, last_t)
            /\ m <= n + Ahead /\ (rtc_pc # "wait" => m <= n)
            /\ \A f \in ReadSoFar : Shown(x, f, t[f], m, n + Ahead)
    BY DEF ClockInv, LastPass
  <2>. DEFINE a == n + Ahead
              b(k) == k + Ahead'
  <2>2. PICK k : /\ Passed(x, k)' /\ n \in Int /\ k \in Int /\ n <= k
                 /\ a \in Int /\ b(k) \in Int /\ a <= b(k)
    BY <1>0, <2>1, ChipPasses
  <2>3. m \in Int
    BY <2>1 DEF LastShows
  <2>7. m <= a /\ \A f \in ReadSoFar : Shown(x, f, t[f], m, a)
    BY <2>1
  <2>. HIDE DEF a, b
  <2>4. \A f \in ReadSoFar : Shown(x, f, t[f], m, b(k))
    BY <2>2, <2>3, <2>7, ShownWider
  <2>5. m <= b(k) /\ (rtc_pc # "wait" => m <= k)
    BY <2>1, <2>2, <2>3, <2>7
  <2>6. LastShows(x, d, m, last_t)'
    BY <1>1, <1>4, <2>1 DEF LastShows
  <2>. QED  BY <2>2, <2>4, <2>5, <2>6 DEF b
<1>7. ReadingIsTrue'
  BY <1>1 DEF ClockInv, ReadingIsTrue, HourReliable
<1>. QED  BY <1>2, <1>5, <1>6, <1>7 DEF ClockInv

\* A pass begins when no update is in progress.
LEMMA BeginClock ==
  ASSUME ClockInv, cmos_is_updating
  PROVE  ClockInv'
<1>1. /\ rtc_pc = "wait" /\ rtc_pc' = "read" /\ updating = FALSE
      /\ times' = IF pass = 1 THEN {now} ELSE times
      /\ UNCHANGED <<now, updating, format, updates, reg, pass, t, last_t, caller>>
  BY DEF cmos_is_updating, chip
<1>2. ClockTypes' /\ reg = 1
  BY <1>1 DEF ClockInv, ClockTypes
<1>3. ReadSoFar = {} /\ ReadSoFar' = {}
  BY <1>1, <1>2 DEF ReadSoFar
<1>4. \A x, f, v, lo, hi : Shown(x, f, v, lo, hi)' <=> Shown(x, f, v, lo, hi)
  BY <1>1, ShownKept
<1>5. LastPass'
  <2>. SUFFICES ASSUME pass = 2
                PROVE  \E x, n, d, m :
                          /\ Passed(x, n)'
                          /\ LastShows(x, d, m, last_t)'
                          /\ m <= n + Ahead' /\ m <= n
    BY <1>1, <1>3 DEF LastPass
  <2>1. PICK x, n, d, m :
            /\ Passed(x, n)
            /\ LastShows(x, d, m, last_t)
            /\ m <= n + Ahead
    BY <1>1 DEF ClockInv, LastPass
  <2>2. Ahead = 0 /\ Ahead' = 0 /\ n \in Nat /\ m \in Nat
    BY <1>1, <2>1 DEF Ahead, Passed, LastShows
  <2>3. Passed(x, n)'
    <3>1. times' = times
      BY <1>1
    <3>. QED  BY <1>1, <2>1, <2>2, <3>1 DEF Passed
  <2>4. LastShows(x, d, m, last_t)'
    BY <1>1, <1>4, <2>1 DEF LastShows
  <2>5. m <= n + Ahead' /\ m <= n
    BY <2>1, <2>2
  <2>. QED  BY <2>3, <2>4, <2>5
<1>. QED  BY <1>1, <1>2, <1>3, <1>5 DEF ClockInv, ThisPass, ReadingIsTrue

LEMMA RegisterNumber ==
  ASSUME NEW x \in TimesOfDay, NEW f \in Fields
  PROVE  Register(x, f) \in Int
<1>1. x[f] \in Int /\ x.hour \in 0 .. 23
  BY TimeIs
<1>2. \A k \in Int : Coded(k) \in Int
  BY DEF Coded
<1>3. HourOn12(x.hour) \in Int
  BY <1>1 DEF HourOn12
<1>4. CASE f = "hour" /\ ~format.h24
  BY <1>2, <1>3, <1>4 DEF Register
<1>5. CASE ~(f = "hour" /\ ~format.h24)
  BY <1>1, <1>2, <1>5 DEF Register
<1>. QED  BY <1>4, <1>5

LEMMA RegisterNames ==
  /\ \A i \in 1 .. 6 : Registers[i] \in Fields
  /\ Registers[1] = "second"
  /\ \A i \in 1 .. 6 : Registers[i] = "second" => i = 1
<1>1. 1 .. 6 = {1, 2, 3, 4, 5, 6}
  OBVIOUS
<1>. QED  BY <1>1 DEF Registers, Fields

\* The next register is read.
LEMMA ReadClock ==
  ASSUME ClockInv, rtc_read_register
  PROVE  ClockInv'
<1>0. ClockTypes /\ rtc_pc = "read" /\ reg \in 1 .. 6
  BY DEF ClockInv, ClockTypes, rtc_read_register
<1>. DEFINE f0 == Registers[reg]
<1>1. PICK v \in cmos_read(f0) : t' = [t EXCEPT ![f0] = v]
  BY DEF rtc_read_register
<1>2. /\ reg' = (reg % 6) + 1
      /\ rtc_pc' = IF reg = 6 THEN "compare" ELSE "read"
      /\ UNCHANGED <<now, updating, format, updates, pass, last_t, result, caller, times>>
  BY DEF rtc_read_register, chip
<1>3. f0 \in Fields /\ (f0 = "second" <=> reg = 1)
  BY <1>0, RegisterNames
<1>4. /\ now \in TimesOfDay /\ now \in times /\ t \in [Fields -> Int]
      /\ updating \in BOOLEAN /\ updates \in Nat
  BY <1>0, RTCAssumption DEF ClockTypes
<1>5. ReadSoFar = {Registers[i] : i \in 1 .. reg - 1}
  BY <1>0 DEF ReadSoFar
<1>6. ReadSoFar' = ReadSoFar \cup {f0}
  <2>1. CASE reg = 6
    <3>1. ReadSoFar' = {Registers[i] : i \in 1 .. 6}
      BY <1>2, <2>1 DEF ReadSoFar, Fields
    <3>2. \A i : i \in 1 .. 6 <=> (i \in 1 .. reg - 1 \/ i = reg)
      BY <2>1
    <3>. QED  BY <1>5, <3>1, <3>2
  <2>2. CASE reg # 6
    <3>0. reg' = reg + 1
      BY <1>0, <1>2, <2>2
    <3>1. ReadSoFar' = {Registers[i] : i \in 1 .. (reg + 1) - 1}
      BY <1>2, <2>2, <3>0 DEF ReadSoFar
    <3>2. \A i : i \in 1 .. (reg + 1) - 1 <=> (i \in 1 .. reg - 1 \/ i = reg)
      BY <1>0
    <3>. QED  BY <1>5, <3>1, <3>2
  <2>. QED  BY <2>1, <2>2
<1>7. v \in Int
  BY <1>1, <1>3, <1>4, RegisterNumber, SecondFollows DEF cmos_read
<1>. HIDE DEF f0
<1>8. /\ t' \in [Fields -> Int] /\ t'[f0] = v
      /\ \A f \in Fields : f # f0 => t'[f] = t[f]
  BY <1>1, <1>3, <1>4, <1>7
<1>9. ClockTypes'
  <2>1. reg' \in 1 .. 6 /\ (reg = 6 => reg' = 1)
    BY <1>0, <1>2
  <2>. QED  BY <1>0, <1>2, <1>8, <2>1 DEF ClockTypes
<1>10. \A x, f, w, lo, hi : Shown(x, f, w, lo, hi)' <=> Shown(x, f, w, lo, hi)
  BY <1>2, ShownKept
<1>11. Ahead' = Ahead /\ Ahead \in 0 .. 1 /\ \A x, n : Passed(x, n)' <=> Passed(x, n)
  BY <1>2 DEF Passed, Ahead
<1>12. \A x, n : Passed(x, n) => n \in Nat /\ Shown(x, f0, v, n, n + Ahead)
  BY <1>1, VisibleShown DEF Passed
<1>13. ReadSoFar \subseteq Fields
  BY <1>0, <1>5, RegisterNames
<1>14. ThisPass'
  <2>. SUFFICES \E x, n, d :
            /\ Passed(x, n) /\ d \in 0 .. 1 /\ d <= n + Ahead
            /\ Shown(x, "second", t'["second"], d, d)
            /\ \A f \in ReadSoFar' : Shown(x, f, t'[f], 0, n + Ahead)
    BY <1>10, <1>11 DEF ThisPass
  <2>1. CASE reg = 1
    <3>1. ReadSoFar = {} /\ f0 = "second"
      BY <1>3, <1>5, <2>1
    <3>2. After(now, now, 0) /\ Passed(now, 0)
      BY <1>4, <1>11, AfterStart DEF Passed
    <3>3. Shown(now, f0, v, 0, 0 + Ahead)
      BY <1>12, <3>2
    <3>4. PICK d \in 0 .. 0 + Ahead : \E y : After(now, y, d) /\ v = Register(y, f0)
      BY <3>3 DEF Shown
    <3>5. d \in d .. d /\ d \in 0 .. 1 /\ d <= 0 + Ahead
      BY <1>11, <3>4
    <3>6. Shown(now, f0, v, d, d)
      BY <3>4, <3>5 DEF Shown
    <3>. QED  BY <1>6, <1>8, <3>1, <3>2, <3>3, <3>5, <3>6
  <2>2. CASE reg # 1
    <3>1. "second" \in ReadSoFar
      <4>1. 1 \in 1 .. reg - 1
        BY <1>0, <2>2
      <4>. QED  BY <1>5, <4>1, RegisterNames
    <3>2. PICK x, n, d :
              /\ Passed(x, n) /\ d \in 0 .. 1 /\ d <= n + Ahead
              /\ Shown(x, "second", t["second"], d, d)
              /\ \A f \in ReadSoFar : Shown(x, f, t[f], 0, n + Ahead)
      BY <3>1 DEF ClockInv, ThisPass
    <3>3. t'["second"] = t["second"]
      BY <1>3, <1>8, <1>13, <2>2, <3>1
    <3>4. Shown(x, f0, v, 0, n + Ahead)
      <4>1. n \in Nat /\ Shown(x, f0, v, n, n + Ahead)
        BY <1>12, <3>2
      <4>2. n \in Int /\ n + Ahead \in Int /\ 0 \in Int /\ 0 <= n /\ n + Ahead <= n + Ahead
        BY <1>11, <4>1
      <4>. QED  BY <4>1, <4>2, ShownWider
    <3>5. \A f \in ReadSoFar' : Shown(x, f, t'[f], 0, n + Ahead)
      BY <1>6, <1>8, <1>13, <3>2, <3>4
    <3>. QED  BY <3>2, <3>3, <3>5
  <2>. QED  BY <2>1, <2>2
<1>15. LastPass'
  <2>. SUFFICES ASSUME pass = 2
                PROVE  \E x, n, d, m :
                          /\ Passed(x, n)
                          /\ LastShows(x, d, m, last_t)'
                          /\ m <= n + Ahead /\ m <= n
                          /\ \A f \in ReadSoFar' : Shown(x, f, t'[f], m, n + Ahead)
    BY <1>2, <1>10, <1>11 DEF LastPass
  <2>1. PICK x, n, d, m :
            /\ Passed(x, n)
            /\ LastShows(x, d, m, last_t)
            /\ m <= n + Ahead /\ m <= n
            /\ \A f \in ReadSoFar : Shown(x, f, t[f], m, n + Ahead)
    BY <1>0 DEF ClockInv, LastPass
  <2>2. Shown(x, f0, v, m, n + Ahead)
    <3>1. n \in Nat /\ Shown(x, f0, v, n, n + Ahead)
      BY <1>12, <2>1
    <3>2. /\ n \in Int /\ n + Ahead \in Int /\ m \in Int /\ m <= n /\ n + Ahead <= n + Ahead
      BY <1>11, <2>1, <3>1 DEF LastShows
    <3>. QED  BY <3>1, <3>2, ShownWider
  <2>3. \A f \in ReadSoFar' : Shown(x, f, t'[f], m, n + Ahead)
    BY <1>6, <1>8, <1>13, <2>1, <2>2
  <2>4. LastShows(x, d, m, last_t)'
    BY <1>2, <1>10, <2>1 DEF LastShows
  <2>. QED  BY <2>1, <2>3, <2>4
<1>16. ReadingIsTrue'
  BY <1>2 DEF ReadingIsTrue
<1>. QED  BY <1>9, <1>14, <1>15, <1>16 DEF ClockInv

\* The end of a pass.
LEMMA CompareClock ==
  ASSUME ClockInv, rtc_compare
  PROVE  ClockInv'
<1>0. ClockTypes /\ rtc_pc = "compare" /\ reg = 1
  BY DEF ClockInv, ClockTypes, rtc_compare
<1>1. UNCHANGED <<now, updating, format, updates, reg, caller, times>>
  BY DEF rtc_compare, chip
<1>2. ReadSoFar = Fields
  BY <1>0 DEF ReadSoFar
<1>3. /\ format \in [binary : BOOLEAN, h24 : BOOLEAN] /\ t \in [Fields -> Int]
      /\ Zero \in [Fields -> Int]
  <2>1. Zero = [f \in {"second", "minute", "hour", "day", "month", "year"} |-> 0]
    BY DEF Zero, Time
  <2>. QED  BY <1>0, <2>1, FieldsAre DEF ClockTypes
<1>4. updates \in Nat /\ updates <= 58
  BY <1>0, RTCAssumption DEF ClockTypes
<1>5. CASE pass = 2 /\ SameReading(t, last_t)
  <2>1. /\ rtc_pc' = "done" /\ result' = Converted(t)
        /\ t' = Zero /\ last_t' = Zero /\ pass' = 1
    BY <1>5 DEF rtc_compare
  <2>2. ClockTypes'
    BY <1>0, <1>1, <1>3, <2>1 DEF ClockTypes
  <2>3. PICK x, n, d, m :
            /\ Passed(x, n)
            /\ LastShows(x, d, m, last_t)
            /\ m <= n
            /\ \A f \in Fields : Shown(x, f, t[f], m, n + Ahead)
    BY <1>0, <1>2, <1>5 DEF ClockInv, LastPass
  <2>4. \A f \in Fields : t[f] = last_t[f]
    BY <1>5 DEF SameReading
  <2>5. PICK y \in times : y \in TimesOfDay /\ \A f \in Fields : t[f] = Register(y, f)
    BY <1>4, <2>3, <2>4, EqualPasses
  <2>6. /\ \A f \in Fields \ {"hour"} : Converted(t)[f] = Full(y)[f]
        /\ HourReliable(y) => Converted(t).hour = y.hour
    BY <1>3, <2>5, DecodedTime
  <2>7. ReadingIsTrue'
    BY <1>1, <2>1, <2>5, <2>6 DEF ReadingIsTrue, HourReliable
  <2>8. ReadSoFar' = {}
    BY <2>1 DEF ReadSoFar
  <2>. QED  BY <2>1, <2>2, <2>7, <2>8 DEF ClockInv, ThisPass, LastPass
<1>6. CASE ~(pass = 2 /\ SameReading(t, last_t))
  <2>1. /\ rtc_pc' = "wait" /\ last_t' = t /\ pass' = 2 /\ t' = t
    BY <1>6 DEF rtc_compare
  <2>2. ClockTypes'
    BY <1>0, <1>1, <1>3, <2>1 DEF ClockTypes
  <2>3. ReadSoFar' = {}
    BY <2>1 DEF ReadSoFar
  <2>4. LastPass'
    <3>1. "second" \in ReadSoFar
      BY <1>2, FieldsAre
    <3>2. PICK x, n, d :
              /\ Passed(x, n) /\ d \in 0 .. 1 /\ d <= n + Ahead
              /\ Shown(x, "second", t["second"], d, d)
              /\ \A f \in Fields : Shown(x, f, t[f], 0, n + Ahead)
      BY <1>2, <3>1 DEF ClockInv, ThisPass
    <3>3. n + Ahead \in Nat
      BY <3>2 DEF Passed, Ahead
    <3>4. LastShows(x, d, n + Ahead, t)
      BY <3>2, <3>3 DEF LastShows
    <3>5. \A y, f, w, lo, hi : Shown(y, f, w, lo, hi)' <=> Shown(y, f, w, lo, hi)
      BY <1>1, ShownKept
    <3>7. Passed(x, n)' /\ Ahead' = Ahead
      BY <1>1, <3>2 DEF Passed, Ahead
    <3>. DEFINE m == n + Ahead
    <3>8. LastShows(x, d, m, last_t)' /\ m <= n + Ahead'
      BY <2>1, <3>3, <3>4, <3>5, <3>7 DEF LastShows
    <3>. QED  BY <2>1, <2>3, <3>7, <3>8 DEF LastPass
  <2>. QED  BY <2>1, <2>2, <2>3, <2>4 DEF ClockInv, ThisPass, ReadingIsTrue
<1>. QED  BY <1>5, <1>6

LEMMA NextClock ==
  ASSUME ClockInv, ClockStage, [Next]_vars
  PROVE  ClockInv'
<1>1. CASE UNCHANGED rtc_vars
  <2>1. /\ UNCHANGED <<now, updating, format, updates, rtc_pc, reg, pass, t, last_t,
                       result, caller, times>>
    BY <1>1 DEF rtc_vars, chip, reader
  <2>2. /\ ClockTypes' <=> ClockTypes
        /\ ReadSoFar' = ReadSoFar /\ Ahead' = Ahead
        /\ ReadingIsTrue' <=> ReadingIsTrue
        /\ \A x, n : Passed(x, n)' <=> Passed(x, n)
    BY <2>1 DEF ClockTypes, ReadSoFar, Ahead, ReadingIsTrue, HourReliable, Passed
  <2>3. \A x, f, v, lo, hi : Shown(x, f, v, lo, hi)' <=> Shown(x, f, v, lo, hi)
    BY <2>1, ShownKept
  <2>4. \A x, d, m, r : LastShows(x, d, m, r)' <=> LastShows(x, d, m, r)
    BY <2>3 DEF LastShows
  <2>5. ThisPass' <=> ThisPass
    BY <2>1, <2>2, <2>3 DEF ThisPass
  <2>6. LastPass' <=> LastPass
    BY <2>1, <2>2, <2>3, <2>4 DEF LastPass
  <2>. QED  BY <2>2, <2>5, <2>6 DEF ClockInv
<1>2. ClockTypes
  BY DEF ClockInv
<1>. QED  BY <1>1, <1>2, RtcSteps, CallClock, BeginClock, ReadClock, CompareClock,
             ReturnClock, ChipClock

(***************************************************************************)
(* What rtc_read_time returns is a time that the chip showed during the    *)
(* call (rtc.c:39, "Read twice to ensure consistent reading"), however its *)
(* steps fall between those of the driver, as long as a command takes less *)
(* than a minute: two passes a minute apart could show the same seconds.   *)
(***************************************************************************)
THEOREM ReadingCorrect == Spec => []ReadingIsTrue
<1>1. Spec => [](ClockInv /\ ClockStage)
  <2>1. Init => ClockInv /\ ClockStage
    BY InitClock
  <2>2. ClockInv /\ ClockStage /\ [Next]_vars => ClockInv' /\ ClockStage'
    BY NextClock, NextClockStage DEF ClockInv
  <2>. QED  BY <2>1, <2>2, PTL DEF Spec
<1>2. ClockInv => ReadingIsTrue
  BY DEF ClockInv
<1>. QED  BY <1>1, <1>2, PTL

----------------------------------------------------------------------------
(***************************************************************************)
(* Seconds since 1970.  Year by year the days of the calendar have a       *)
(* closed form, and rtc_get_ticks computes it.                             *)
(***************************************************************************)
\* The days before a year of the calendar, in closed form.
DaysUntil(y) == 365 * (y - 1970) + (y - 1) \div 4 - 492

LEMMA DaysUntilNext ==
  ASSUME NEW y \in 1971 .. 2099
  PROVE  DaysUntil(y) = DaysUntil(y - 1) + YearDays(y - 1)
<1>1. Leap(y - 1) <=> (y - 1) % 4 = 0
  <2>1. (y - 1) % 100 = 0 => y - 1 = 2000
    OBVIOUS
  <2>2. 2000 % 400 = 0
    OBVIOUS
  <2>. QED  BY <2>1, <2>2 DEF Leap
<1>2. (y - 1) \div 4 = (y - 2) \div 4 + IF (y - 1) % 4 = 0 THEN 1 ELSE 0
  OBVIOUS
<1>. QED  BY <1>1, <1>2 DEF DaysUntil, YearDays

YearsFrom(w) ==
    w = [y \in 1970 .. 2099 |-> IF y = 1970 THEN 0
                                ELSE w[y - 1] + YearDays(y - 1)]

\* What the recursion says of each year.
LEMMA FunctionStep ==
  ASSUME NEW S, NEW w, NEW first, w = [y \in S |-> IF y = first THEN 0 ELSE w[y - 1] + YearDays(y - 1)]
  PROVE  \A y \in S : w[y] = IF y = first THEN 0 ELSE w[y - 1] + YearDays(y - 1)
  BY Zenon

LEMMA DaysBeforeIs ==
  \A y \in 1970 .. 2099 : DaysBefore[y] = DaysUntil(y)
<1>. DEFINE S == 1970 .. 2099
<1>1. \E w : YearsFrom(w)
  <2>. DEFINE w == [y \in S |-> DaysUntil(y)]
  <2>1. ASSUME NEW y \in S
        PROVE  w[y] = IF y = 1970 THEN 0
                      ELSE w[y - 1] + YearDays(y - 1)
    <3>1. CASE y = 1970
      BY <3>1 DEF DaysUntil
    <3>2. CASE y # 1970
      <4>1. y \in 1971 .. 2099 /\ y - 1 \in S
        BY <3>2
      <4>2. w[y] = DaysUntil(y) /\ w[y - 1] = DaysUntil(y - 1)
        BY <4>1
      <4>. QED  BY <3>2, <4>1, <4>2, DaysUntilNext
    <3>. QED  BY <3>1, <3>2
  <2>2. w = [y \in S |-> w[y]]
    OBVIOUS
  <2>. HIDE DEF w
  <2>3. YearsFrom(w)
    BY <2>1, <2>2 DEF YearsFrom
  <2>. QED  BY <2>3
<1>2. YearsFrom(DaysBefore)
  BY <1>1 DEF DaysBefore, YearsFrom
<1>3. \A y \in S : DaysBefore[y] = IF y = 1970 THEN 0
                       ELSE DaysBefore[y - 1] + YearDays(y - 1)
  BY <1>2, FunctionStep DEF YearsFrom
<1>. DEFINE T == {n \in 0 .. 129 : DaysBefore[1970 + n] = DaysUntil(1970 + n)}
<1>4. 0 \in T
  <2>1. 1970 + 0 = 1970
    OBVIOUS
  <2>. QED  BY <1>3, <2>1 DEF DaysUntil
<1>5. \A n \in 0 .. 129 : n \in T /\ n < 129 => n + 1 \in T
  <2>. SUFFICES ASSUME NEW n \in 0 .. 129, n \in T, n < 129 PROVE n + 1 \in T
    OBVIOUS
  <2>. DEFINE y == 1970 + (n + 1)
  <2>1. y \in 1971 .. 2099 /\ y \in S /\ y # 1970 /\ y - 1 = 1970 + n
    OBVIOUS
  <2>2. DaysBefore[y] = DaysBefore[y - 1] + YearDays(y - 1)
    BY <1>3, <2>1
  <2>3. DaysBefore[y] = DaysUntil(y)
    BY <2>1, <2>2, DaysUntilNext
  <2>. QED  BY <2>3
<1>6. 0 .. 129 \subseteq T
  <2>. HIDE DEF T
  <2>1. 129 \in Nat
    OBVIOUS
  <2>. QED  BY <1>4, <1>5, <2>1, UpTo
<1>7. \A y \in S : y - 1970 \in 0 .. 129 /\ 1970 + (y - 1970) = y
  OBVIOUS
<1>. QED  BY <1>6, <1>7

LEMMA FullFields ==
  ASSUME NEW x \in TimesOfDay
  PROVE  /\ Full(x).second = x.second /\ Full(x).minute = x.minute /\ Full(x).hour = x.hour
         /\ Full(x).day = x.day /\ Full(x).month = x.month /\ Full(x).year = 2000 + x.year
<1>1. x \in [Fields -> Int] /\ x.year + 2000 = 2000 + x.year
  BY TimeIs
<1>. QED  BY <1>1, FieldsAre DEF Full

\* Days of the months, one by one.
LEMMA MonthCases ==
  /\ MonthStarts[1] = 0 /\ MonthStarts[2] = 31 /\ MonthStarts[3] = 59
  /\ MonthStarts[4] = 90 /\ MonthStarts[5] = 120 /\ MonthStarts[6] = 151
  /\ MonthStarts[7] = 181 /\ MonthStarts[8] = 212 /\ MonthStarts[9] = 243
  /\ MonthStarts[10] = 273 /\ MonthStarts[11] = 304 /\ MonthStarts[12] = 334
  BY SMT DEF MonthStarts

\* A month begins when the one before it has ended.
LEMMA MonthFollows ==
  \A m \in 1 .. 11 : \A l \in 0 .. 1 :
     MonthStarts[m + 1] + (IF m + 1 > 2 THEN l ELSE 0)
        = MonthStarts[m] + (IF m > 2 THEN l ELSE 0)
          + (IF m = 2 THEN 28 + l ELSE IF m \in {4, 6, 9, 11} THEN 30 ELSE 31)
<1>1. 1 .. 11 = {1, 2, 3, 4, 5, 6, 7, 8, 9, 10, 11}
  BY SMT
<1>. QED  BY SMT, <1>1, MonthCases

\* DaysFromCivil counts years from March; in the years of the clock its
\* eras are known, and it counts the days of the calendar.
Century == 2000 .. 2099
MarchDays(m) == (153 * (m - 3) + 2) \div 5
Fourth(y) == y \div 4

LEMMA LeapIs ==
  \A y \in Century : Leap(y) <=> y % 4 = 0
<1>. SUFFICES ASSUME NEW y \in Century PROVE Leap(y) <=> y % 4 = 0
  BY SMT
<1>1. y \in 2000 .. 2099
  BY SMT DEF Century
<1>2. (y % 100 = 0 => y = 2000) /\ 2000 % 400 = 0
  BY SMT, <1>1
<1>. QED  BY SMT, <1>1, <1>2 DEF Leap

LEMMA CivilEra ==
  \A y \in Century : \A m, d \in Int :
      DaysFromCivil(y, m, d) = 365 * y + Fourth(y) + MarchDays(m) + d - 719484
<1>. SUFFICES ASSUME NEW y \in Century, NEW m \in Int, NEW d \in Int
              PROVE  DaysFromCivil(y, m, d)
                        = 365 * y + Fourth(y) + MarchDays(m) + d - 719484
  BY SMT
<1>0. y \in 2000 .. 2099
  BY SMT DEF Century
<1>1. y \div 400 = 5 /\ y - 5 * 400 = y - 2000
  BY SMT, <1>0
<1>2. (y - 2000) \div 4 = y \div 4 - 500 /\ (y - 2000) \div 100 = 0
  BY SMT, <1>0
<1>. DEFINE q == (153 * (m - 3) + 2) \div 5
            p == y \div 4
<1>3. q \in Int /\ p \in Int
  BY SMT, <1>0
<1>4. DaysFromCivil(y, m, d)
         = 5 * 146097 + ((y - 2000) * 365 + (p - 500) - 0 + (q + d - 1)) - 719468
  BY SMT, <1>0, <1>1, <1>2 DEF DaysFromCivil
<1>. HIDE DEF p, q
<1>5. DaysFromCivil(y, m, d) = 365 * y + p + q + d - 719484
  BY SMT, <1>0, <1>3, <1>4
<1>. QED  BY SMT, <1>5 DEF p, q, MarchDays, Fourth

\* The days before a month of the calendar, from the days since March.
LEMMA MarchDaysAre ==
  /\ \A m \in 3 .. 12 : MarchDays(m) = MonthStarts[m] - 59 /\ MonthStarts[m] \in Int
  /\ \A m \in 1 .. 2 : MarchDays(m + 12) = MonthStarts[m] + 306 /\ MonthStarts[m] \in Int
<1>1. ASSUME NEW m \in 3 .. 12
      PROVE  MarchDays(m) = MonthStarts[m] - 59 /\ MonthStarts[m] \in Int
  <2>1. m \in {3, 4, 5, 6, 7, 8, 9, 10, 11, 12}
    BY SMT
  <2>. QED  BY SMT, <2>1, MonthCases DEF MarchDays
<1>2. ASSUME NEW m \in 1 .. 2
      PROVE  MarchDays(m + 12) = MonthStarts[m] + 306 /\ MonthStarts[m] \in Int
  <2>1. m \in {1, 2}
    BY SMT
  <2>. QED  BY SMT, <2>1, MonthCases DEF MarchDays
<1>. QED  BY SMT, <1>1, <1>2

LEMMA DaysUntilIs ==
  \A y \in Century :
      /\ DaysUntil(y) \in Int /\ Fourth(y) \in Int /\ Fourth(y - 1) \in Int
      /\ DaysUntil(y) = 365 * y + Fourth(y - 1) - 719542
      /\ DaysUntil(y) + (IF Leap(y) THEN 1 ELSE 0) = 365 * y + Fourth(y) - 719542
<1>. SUFFICES ASSUME NEW y \in Century
              PROVE  /\ DaysUntil(y) \in Int /\ Fourth(y) \in Int /\ Fourth(y - 1) \in Int
                     /\ DaysUntil(y) = 365 * y + Fourth(y - 1) - 719542
                     /\ DaysUntil(y) + (IF Leap(y) THEN 1 ELSE 0)
                           = 365 * y + Fourth(y) - 719542
  BY SMT
<1>1. Leap(y) <=> y % 4 = 0
  BY SMT, LeapIs
<1>0. y \in 2000 .. 2099
  BY SMT DEF Century
<1>2. y \div 4 = (y - 1) \div 4 + IF y % 4 = 0 THEN 1 ELSE 0
  BY SMT, <1>0
<1>. QED  BY SMT, <1>0, <1>1, <1>2 DEF DaysUntil, Fourth

\* The days that rtc_get_ticks counts are those of the calendar.
LEMMA CivilDays ==
  /\ \A y \in Century : \A m \in 3 .. 12 : \A d \in Int :
        DaysFromCivil(y, m, d)
           = DaysUntil(y) + MonthStarts[m] + (IF Leap(y) THEN 1 ELSE 0) + d - 1
  /\ \A y \in Century : \A m \in 1 .. 2 : \A d \in Int :
        DaysFromCivil(y - 1, m + 12, d) = DaysUntil(y) + MonthStarts[m] + d - 1
<1>1. ASSUME NEW y \in Century, NEW m \in 3 .. 12, NEW d \in Int
      PROVE  DaysFromCivil(y, m, d)
                = DaysUntil(y) + MonthStarts[m] + (IF Leap(y) THEN 1 ELSE 0) + d - 1
  <2>. DEFINE l == IF Leap(y) THEN 1 ELSE 0
  <2>0. y \in Int
    BY SMT DEF Century
  <2>1. /\ MarchDays(m) = MonthStarts[m] - 59 /\ MonthStarts[m] \in Int
        /\ DaysUntil(y) \in Int /\ Fourth(y) \in Int /\ l \in Int
        /\ DaysUntil(y) + l = 365 * y + Fourth(y) - 719542
    BY SMT, MarchDaysAre, DaysUntilIs
  <2>2. DaysFromCivil(y, m, d) = 365 * y + Fourth(y) + MarchDays(m) + d - 719484
    BY SMT, CivilEra
  <2>. HIDE DEF l
  <2>3. DaysFromCivil(y, m, d) = DaysUntil(y) + MonthStarts[m] + l + d - 1
    BY SMT, <2>0, <2>1, <2>2
  <2>. QED  BY SMT, <2>3 DEF l
<1>2. ASSUME NEW y \in Century, NEW m \in 1 .. 2, NEW d \in Int
      PROVE  DaysFromCivil(y - 1, m + 12, d) = DaysUntil(y) + MonthStarts[m] + d - 1
  <2>1. MarchDays(m + 12) = MonthStarts[m] + 306 /\ MonthStarts[m] \in Int
    BY SMT, MarchDaysAre
  <2>2. CASE y = 2000
    <3>1. /\ 1999 \div 400 = 4 /\ 1999 - 4 * 400 = 399 /\ 399 \div 4 = 99 /\ 399 \div 100 = 3
      BY SMT
    <3>. DEFINE q == MarchDays(m + 12)
                n == m + 12
    <3>2. q \in Int /\ q = (153 * (n - 3) + 2) \div 5
      BY SMT DEF MarchDays
    <3>. HIDE DEF q, n
    <3>3. DaysFromCivil(1999, n, d)
             = 4 * 146097 + (399 * 365 + 99 - 3 + (q + d - 1)) - 719468
      BY SMT, <3>1, <3>2 DEF DaysFromCivil
    <3>4. DaysUntil(2000) = 10957
      BY SMT DEF DaysUntil
    <3>5. DaysFromCivil(1999, n, d) = 10957 + q - 306 + d - 1
      BY SMT, <3>2, <3>3
    <3>6. DaysFromCivil(1999, m + 12, d) = 10957 + MonthStarts[m] + d - 1
      BY SMT, <2>1, <3>5 DEF q, n
    <3>7. y - 1 = 1999
      BY SMT, <2>2
    <3>. QED  BY SMT, <2>2, <3>4, <3>6, <3>7
  <2>3. CASE y # 2000
    <3>. DEFINE z == y - 1
                n == m + 12
    <3>1. z \in Century /\ n \in Int /\ y \in Int /\ z = y - 1 /\ n = m + 12
      BY SMT, <2>3 DEF Century
    <3>2. DaysUntil(y) \in Int /\ Fourth(z) \in Int /\ DaysUntil(y) = 365 * y + Fourth(z) - 719542
      BY SMT, DaysUntilIs
    <3>3. MarchDays(n) = MonthStarts[m] + 306 /\ MonthStarts[m] \in Int
      BY SMT, <2>1
    <3>4. DaysFromCivil(y - 1, m + 12, d) = DaysFromCivil(z, n, d)
      BY SMT
    <3>. HIDE DEF z, n
    <3>7. z \in Century /\ n \in Int
      BY SMT, <3>1
    <3>5. DaysFromCivil(z, n, d) = 365 * z + Fourth(z) + MarchDays(n) + d - 719484
      BY SMT, <3>7, CivilEra
    <3>6. DaysFromCivil(z, n, d) = DaysUntil(y) + MonthStarts[m] + d - 1
      BY SMT, <3>1, <3>2, <3>3, <3>5
    <3>. QED  BY SMT, <3>4, <3>6
  <2>. QED  BY SMT, <2>2, <2>3
<1>. QED  BY SMT, <1>1, <1>2

\* The number of a day of the clock's century, and of a second.
DayNumber(x) == DaysUntil(x.year) + DayOfYear(x)

LEMMA DaySum ==
  ASSUME NEW x, x.year \in Century, x.month \in 1 .. 12, x.day \in Int
  PROVE  /\ DayNumber(x) \in Int
         /\ DayNumber(x) = DaysUntil(x.year) + MonthStarts[x.month]
                  + (IF x.month > 2 /\ Leap(x.year) THEN 1 ELSE 0) + x.day - 1
         /\ MonthStarts[x.month] \in Int /\ DaysUntil(x.year) \in Int
<1>1. x.month \in 1 .. 2 \/ x.month \in 3 .. 12
  BY SMT
<1>2. MonthStarts[x.month] \in Int /\ DaysUntil(x.year) \in Int
  BY SMT, <1>1, MarchDaysAre, DaysUntilIs
<1>. QED  BY SMT, <1>2 DEF DayNumber, DayOfYear

\* The arithmetic of rtc_get_ticks counts the seconds since 1970.
LEMMA TicksAre ==
  ASSUME NEW x, x.year \in Century, x.month \in 1 .. 12, x.day \in Int,
         x.hour \in Int, x.minute \in Int, x.second \in Int
  PROVE  /\ rtc_get_ticks(x) = DayNumber(x) * 86400 + x.hour * 3600 + x.minute * 60 + x.second
         /\ UnixTime(x) = DayNumber(x) * 86400 + x.hour * 3600 + x.minute * 60 + x.second
<1>. DEFINE D == DayNumber(x)
<1>1. /\ D \in Int /\ MonthStarts[x.month] \in Int /\ DaysUntil(x.year) \in Int
      /\ D = DaysUntil(x.year) + MonthStarts[x.month]
                  + (IF x.month > 2 /\ Leap(x.year) THEN 1 ELSE 0) + x.day - 1
  BY SMT, DaySum
<1>. HIDE DEF D
<1>2. rtc_get_ticks(x) = D * 86400 + x.hour * 3600 + x.minute * 60 + x.second
  <2>1. CASE x.month <= 2
    <3>1. x.month \in 1 .. 2 /\ ~ (x.month > 2)
      BY SMT, <2>1
    <3>2. DaysFromCivil(x.year - 1, x.month + 12, x.day) = D
      BY SMT, <1>1, <3>1, CivilDays
    <3>3. rtc_get_ticks(x) = DaysFromCivil(x.year - 1, x.month + 12, x.day) * 86400
                                + x.hour * 3600 + x.minute * 60 + x.second
      BY SMT, <2>1 DEF rtc_get_ticks
    <3>. QED  BY SMT, <3>2, <3>3
  <2>2. CASE ~ (x.month <= 2)
    <3>1. x.month \in 3 .. 12 /\ x.month > 2
      BY SMT, <2>2
    <3>2. DaysFromCivil(x.year, x.month, x.day) = D
      BY SMT, <1>1, <3>1, CivilDays
    <3>3. rtc_get_ticks(x) = DaysFromCivil(x.year, x.month, x.day) * 86400
                                + x.hour * 3600 + x.minute * 60 + x.second
      BY SMT, <2>2 DEF rtc_get_ticks
    <3>. QED  BY SMT, <3>2, <3>3
  <2>. QED  BY SMT, <2>1, <2>2
<1>4. UnixTime(x) = D * 86400 + x.hour * 3600 + x.minute * 60 + x.second
  <2>1. DaysBefore[x.year] = DaysUntil(x.year)
    BY SMT, DaysBeforeIs DEF Century
  <2>. QED  BY SMT, <2>1 DEF D, DayNumber, UnixTime
<1>. QED  BY SMT, <1>2, <1>4 DEF D

----------------------------------------------------------------------------
(***************************************************************************)
(* The chip counts the seconds of the calendar, until its century ends.    *)
(***************************************************************************)
LastDay(x) == x.year = 99 /\ x.month = 12 /\ x.day = 31
SameDay(x, y) == y.day = x.day /\ y.month = x.month /\ y.year = x.year
SameHour(x, y) == y.hour = x.hour /\ y.minute = x.minute /\ y.second = x.second

LEMMA FullDate ==
  ASSUME NEW x \in TimesOfDay
  PROVE  /\ Full(x).year \in Century /\ Full(x).month \in 1 .. 12 /\ Full(x).day \in Int
         /\ Full(x).hour \in Int /\ Full(x).minute \in Int /\ Full(x).second \in Int
<1>1. x.year + 2000 \in Century /\ 2000 + x.year = x.year + 2000
  BY SMT, TimeIs DEF Century
<1>. QED  BY SMT, <1>1, TimeIs, FullFields

\* The number of a day that the chip shows.
LEMMA DayIs ==
  ASSUME NEW x \in TimesOfDay
  PROVE  /\ DayNumber(Full(x)) \in Int
         /\ DayNumber(Full(x)) = DaysUntil(2000 + x.year) + MonthStarts[x.month]
                  + (IF x.month > 2 /\ Leap(2000 + x.year) THEN 1 ELSE 0) + x.day - 1
         /\ MonthStarts[x.month] \in Int /\ DaysUntil(2000 + x.year) \in Int
         /\ 2000 + x.year \in Century
<1>1. /\ Full(x).year = 2000 + x.year /\ Full(x).month = x.month /\ Full(x).day = x.day
  BY SMT, FullFields
<1>2. /\ Full(x).year \in Century /\ Full(x).month \in 1 .. 12 /\ Full(x).day \in Int
  BY SMT, FullDate
<1>. QED  BY SMT, <1>1, <1>2, DaySum

\* The day after, by the kind of the carry.
LEMMA NextDayFields ==
  ASSUME NEW x \in TimesOfDay, OnCalendar(x), ~ LastDay(x)
  PROVE  /\ SameHour(x, NextDay(x))
         /\ \/ /\ x.day < DaysIn(x.month, 2000 + x.year)
               /\ NextDay(x).day = x.day + 1
               /\ NextDay(x).month = x.month /\ NextDay(x).year = x.year
            \/ /\ x.day = DaysIn(x.month, 2000 + x.year) /\ x.month < 12
               /\ NextDay(x).day = 1
               /\ NextDay(x).month = x.month + 1 /\ NextDay(x).year = x.year
            \/ /\ x.day = 31 /\ x.month = 12 /\ x.year < 99
               /\ NextDay(x).day = 1
               /\ NextDay(x).month = 1 /\ NextDay(x).year = x.year + 1
<1>1. /\ x \in [Fields -> Int]
      /\ x.day \in 1 .. 31 /\ x.month \in 1 .. 12 /\ x.year \in 0 .. 99
  BY TimeIs
<1>. DEFINE D == DaysIn(x.month, 2000 + x.year)
<1>2. D \in 28 .. 31 /\ (x.month = 12 => D = 31) /\ x.day <= D
  BY SMT, <1>1 DEF DaysIn, OnCalendar
<1>3. CASE x.day < D
  <2>1. NextDay(x) = [x EXCEPT !.day = x.day + 1]
    BY SMT, <1>1, <1>3 DEF NextDay
  <2>. QED  BY SMT, <1>1, <1>3, <2>1, FieldsAre DEF SameHour
<1>4. CASE x.day = D /\ x.month < 12
  <2>1. NextDay(x) = [x EXCEPT !.day = 1, !.month = x.month + 1]
    BY SMT, <1>1, <1>2, <1>4 DEF NextDay
  <2>. DEFINE y == [x EXCEPT !.day = 1, !.month = x.month + 1]
  <2>2. /\ y.second = x.second /\ y.minute = x.minute /\ y.hour = x.hour
        /\ y.day = 1 /\ y.month = x.month + 1 /\ y.year = x.year
    BY SMT, <1>1, FieldsAre
  <2>. HIDE DEF y
  <2>3. NextDay(x) = y
    BY SMT, <2>1 DEF y
  <2>. QED  BY SMT, <1>4, <2>2, <2>3 DEF SameHour
<1>5. CASE x.day = D /\ ~ (x.month < 12)
  <2>1. NextDay(x) = [x EXCEPT !.day = 1, !.month = 1, !.year = (x.year + 1) % 100]
    BY SMT, <1>1, <1>2, <1>5 DEF NextDay
  <2>2. x.month = 12 /\ x.day = 31 /\ x.year < 99 /\ (x.year + 1) % 100 = x.year + 1
    BY SMT, <1>1, <1>2, <1>5 DEF LastDay
  <2>. DEFINE y == [x EXCEPT !.day = 1, !.month = 1, !.year = (x.year + 1) % 100]
  <2>3. /\ y.second = x.second /\ y.minute = x.minute /\ y.hour = x.hour
        /\ y.day = 1 /\ y.month = 1 /\ y.year = (x.year + 1) % 100
    BY SMT, <1>1, FieldsAre
  <2>4. NextDay(x) = y
    BY SMT, <2>1
  <2>. HIDE DEF y
  <2>. QED  BY SMT, <2>2, <2>3, <2>4 DEF SameHour
<1>. QED  BY SMT, <1>1, <1>2, <1>3, <1>4, <1>5

\* The next day is a date of the calendar, with the next number.
LEMMA NextDayCounts ==
  ASSUME NEW x \in TimesOfDay, OnCalendar(x), ~ LastDay(x)
  PROVE  /\ NextDay(x) \in TimesOfDay /\ OnCalendar(NextDay(x)) /\ SameHour(x, NextDay(x))
         /\ DayNumber(Full(NextDay(x))) = DayNumber(Full(x)) + 1
<1>. DEFINE y == NextDay(x)
            u == 2000 + x.year
            l == IF Leap(u) THEN 1 ELSE 0
<1>1. y \in TimesOfDay
  BY SMT, DayFollows
<1>2. /\ x.day \in 1 .. 31 /\ x.month \in 1 .. 12 /\ x.year \in 0 .. 99
  BY TimeIs
<1>3. /\ DayNumber(Full(x)) = DaysUntil(u) + MonthStarts[x.month]
                  + (IF x.month > 2 THEN l ELSE 0) + x.day - 1
      /\ DayNumber(Full(x)) \in Int
      /\ MonthStarts[x.month] \in Int /\ DaysUntil(u) \in Int /\ u \in Century /\ u \in Int
  BY SMT, <1>2, DayIs
<1>4. /\ DayNumber(Full(y)) = DaysUntil(2000 + y.year) + MonthStarts[y.month]
                  + (IF y.month > 2 /\ Leap(2000 + y.year) THEN 1 ELSE 0) + y.day - 1
      /\ DayNumber(Full(y)) \in Int
      /\ MonthStarts[y.month] \in Int /\ DaysUntil(2000 + y.year) \in Int
      /\ 2000 + y.year \in Century
  BY SMT, <1>1, DayIs
<1>5. DaysIn(x.month, u) = IF x.month = 2 THEN 28 + l
                           ELSE IF x.month \in {4, 6, 9, 11} THEN 30 ELSE 31
  BY SMT, <1>2 DEF DaysIn
<1>6. /\ SameHour(x, y)
      /\ \/ /\ x.day < DaysIn(x.month, u)
            /\ y.day = x.day + 1 /\ y.month = x.month /\ y.year = x.year
         \/ /\ x.day = DaysIn(x.month, u) /\ x.month < 12
            /\ y.day = 1 /\ y.month = x.month + 1 /\ y.year = x.year
         \/ /\ x.day = 31 /\ x.month = 12 /\ x.year < 99
            /\ y.day = 1 /\ y.month = 1 /\ y.year = x.year + 1
  BY SMT, NextDayFields
<1>. HIDE DEF y
<1>7. CASE /\ x.day < DaysIn(x.month, u)
           /\ y.day = x.day + 1 /\ y.month = x.month /\ y.year = x.year
  <2>1. OnCalendar(y)
    BY SMT, <1>2, <1>5, <1>7 DEF OnCalendar
  <2>2. DayNumber(Full(y)) = DayNumber(Full(x)) + 1
    BY SMT, <1>2, <1>3, <1>4, <1>7
  <2>. QED  BY SMT, <1>1, <1>6, <2>1, <2>2 DEF y
<1>8. CASE /\ x.day = DaysIn(x.month, u) /\ x.month < 12
           /\ y.day = 1 /\ y.month = x.month + 1 /\ y.year = x.year
  <2>1. OnCalendar(y)
    BY SMT, <1>2, <1>8 DEF OnCalendar, DaysIn
  <2>2. x.month \in 1 .. 11 /\ l \in 0 .. 1
    BY SMT, <1>2, <1>8
  <2>3. DayNumber(Full(y)) = DaysUntil(u) + MonthStarts[x.month + 1]
                                + (IF x.month + 1 > 2 THEN l ELSE 0)
    BY SMT, <1>2, <1>3, <1>4, <1>8
  <2>. HIDE DEF u, l
  <2>4. MonthStarts[x.month + 1] + (IF x.month + 1 > 2 THEN l ELSE 0)
           = MonthStarts[x.month] + (IF x.month > 2 THEN l ELSE 0)
             + (IF x.month = 2 THEN 28 + l ELSE IF x.month \in {4, 6, 9, 11} THEN 30 ELSE 31)
    BY SMT, <2>2, MonthFollows
  <2>6. MonthStarts[x.month + 1] \in Int
    BY SMT, <1>4, <1>8
  <2>5. DayNumber(Full(y)) = DayNumber(Full(x)) + 1
    BY SMT, <1>2, <1>3, <1>5, <1>8, <2>2, <2>3, <2>4, <2>6
  <2>. QED  BY SMT, <1>1, <1>6, <2>1, <2>5 DEF y
<1>9. CASE /\ x.day = 31 /\ x.month = 12 /\ x.year < 99
           /\ y.day = 1 /\ y.month = 1 /\ y.year = x.year + 1
  <2>1. OnCalendar(y)
    BY SMT, <1>2, <1>9 DEF OnCalendar, DaysIn
  <2>. DEFINE v == u + 1
  <2>2. /\ v \in Century /\ v - 1 = u /\ v \in Int /\ 2000 + y.year = v
    BY SMT, <1>2, <1>3, <1>9 DEF Century
  <2>. HIDE DEF v, u
  <2>3. /\ DaysUntil(v) = 365 * v + Fourth(u) - 719542
        /\ DaysUntil(u) + l = 365 * u + Fourth(u) - 719542
        /\ Fourth(u) \in Int /\ DaysUntil(v) \in Int
    BY SMT, <1>3, <2>2, DaysUntilIs
  <2>4. l \in Int
    BY SMT
  <2>5. MonthStarts[12] = 334 /\ MonthStarts[1] = 0
    BY SMT, MonthCases
  <2>6. DayNumber(Full(y)) = DaysUntil(v)
    BY SMT, <1>4, <1>9, <2>2, <2>3, <2>5
  <2>. HIDE DEF l
  <2>7. DayNumber(Full(x)) = DaysUntil(u) + l + 364
    BY SMT, <1>3, <1>9, <2>4, <2>5
  <2>8. DayNumber(Full(y)) = DayNumber(Full(x)) + 1
    BY SMT, <1>3, <2>2, <2>3, <2>4, <2>6, <2>7
  <2>. QED  BY SMT, <1>1, <1>6, <2>1, <2>8 DEF y
<1>. QED  BY SMT, <1>6, <1>7, <1>8, <1>9 DEF y

Seconds(x) == UnixTime(Full(x))

LEMMA SecondsAre ==
  ASSUME NEW x \in TimesOfDay
  PROVE  /\ Seconds(x) \in Int
         /\ Seconds(x) = DayNumber(Full(x)) * 86400 + x.hour * 3600 + x.minute * 60 + x.second
<1>1. /\ Full(x).hour = x.hour /\ Full(x).minute = x.minute /\ Full(x).second = x.second
      /\ x.hour \in Int /\ x.minute \in Int /\ x.second \in Int
  BY SMT, FullFields, TimeIs
<1>2. /\ Full(x).year \in Century /\ Full(x).month \in 1 .. 12 /\ Full(x).day \in Int
      /\ Full(x).hour \in Int /\ Full(x).minute \in Int /\ Full(x).second \in Int
  BY SMT, FullDate
<1>3. UnixTime(Full(x)) = DayNumber(Full(x)) * 86400 + Full(x).hour * 3600
                             + Full(x).minute * 60 + Full(x).second
  BY SMT, <1>2, TicksAre
<1>4. DayNumber(Full(x)) \in Int
  BY SMT, DayIs
<1>. QED  BY SMT, <1>1, <1>3, <1>4 DEF Seconds

\* The next second counts one, and only midnight begins a day.
LEMMA NextSecondCounts ==
  ASSUME NEW x \in TimesOfDay, OnCalendar(x), LastDay(x) => x.second < 59
  PROVE  /\ OnCalendar(NextSecond(x))
         /\ Seconds(NextSecond(x)) = Seconds(x) + 1
         /\ \/ /\ SameDay(x, NextSecond(x))
               /\ x.second < 59 => /\ NextSecond(x).second = x.second + 1
                                   /\ NextSecond(x).minute = x.minute
                                   /\ NextSecond(x).hour = x.hour
            \/ /\ ~ LastDay(x)
               /\ NextSecond(x).second = 0 /\ NextSecond(x).minute = 0
               /\ NextSecond(x).hour = 0
<1>. DEFINE y == NextSecond(x)
<1>1. y \in TimesOfDay
  BY SMT, SecondFollows
<1>2. /\ x \in [Fields -> Int]
      /\ x.second \in 0 .. 59 /\ x.minute \in 0 .. 59 /\ x.hour \in 0 .. 23
      /\ x.day \in 1 .. 31 /\ x.month \in 1 .. 12 /\ x.year \in 0 .. 99
  BY TimeIs
<1>3. /\ Seconds(x) \in Int /\ DayNumber(Full(x)) \in Int
      /\ Seconds(x) = DayNumber(Full(x)) * 86400 + x.hour * 3600 + x.minute * 60 + x.second
  BY SMT, SecondsAre, DayIs
<1>4. /\ Seconds(y) \in Int /\ DayNumber(Full(y)) \in Int
      /\ Seconds(y) = DayNumber(Full(y)) * 86400 + y.hour * 3600 + y.minute * 60 + y.second
  BY SMT, <1>1, SecondsAre, DayIs
<1>5. SameDay(x, y) => OnCalendar(y) /\ DayNumber(Full(y)) = DayNumber(Full(x))
  <2>. SUFFICES ASSUME SameDay(x, y)
                PROVE  OnCalendar(y) /\ DayNumber(Full(y)) = DayNumber(Full(x))
    OBVIOUS
  <2>1. /\ Full(y).day = Full(x).day /\ Full(y).month = Full(x).month
        /\ Full(y).year = Full(x).year
    BY SMT, <1>1, FullFields DEF SameDay
  <2>2. DayNumber(Full(y)) = DayNumber(Full(x))
    BY SMT, <2>1 DEF DayNumber, DayOfYear
  <2>3. OnCalendar(y)
    BY SMT DEF OnCalendar, SameDay
  <2>. QED  BY <2>2, <2>3
<1>6. CASE x.second < 59
  <2>1. NextSecond(x) = [x EXCEPT !.second = x.second + 1]
    BY SMT, <1>2, <1>6 DEF NextSecond
  <2>2. /\ y.second = x.second + 1 /\ y.minute = x.minute /\ y.hour = x.hour
        /\ y.day = x.day /\ y.month = x.month /\ y.year = x.year
    BY SMT, <1>2, <2>1, FieldsAre
  <2>3. SameDay(x, y)
    BY SMT, <2>2 DEF SameDay
  <2>. HIDE DEF y
  <2>4. Seconds(y) = Seconds(x) + 1
    <3>1. DayNumber(Full(y)) = DayNumber(Full(x))
      BY SMT, <1>5, <2>3
    <3>. DEFINE minutes == DayNumber(Full(x)) * 86400 + x.hour * 3600 + x.minute * 60
    <3>2. minutes \in Int /\ Seconds(x) = minutes + x.second
      BY SMT, <1>2, <1>3
    <3>3. Seconds(y) = minutes + y.second
      BY SMT, <1>4, <2>2, <3>1
    <3>. HIDE DEF minutes
    <3>. QED  BY SMT, <1>2, <2>2, <3>2, <3>3
  <2>. QED  BY SMT, <1>5, <2>2, <2>3, <2>4 DEF y
<1>7. CASE x.second = 59 /\ x.minute < 59
  <2>1. NextSecond(x) = [x EXCEPT !.second = 0, !.minute = x.minute + 1]
    BY SMT, <1>2, <1>7 DEF NextSecond
  <2>. DEFINE z == [x EXCEPT !.second = 0, !.minute = x.minute + 1]
  <2>2. /\ z.second = 0 /\ z.minute = x.minute + 1 /\ z.hour = x.hour
        /\ z.day = x.day /\ z.month = x.month /\ z.year = x.year
    BY SMT, <1>2, FieldsAre
  <2>5. y = z
    BY SMT, <2>1
  <2>. HIDE DEF y, z
  <2>3. SameDay(x, y)
    BY SMT, <2>2, <2>5 DEF SameDay
  <2>4. Seconds(y) = Seconds(x) + 1
    <3>1. y.second = 0 /\ y.minute = x.minute + 1 /\ y.hour = x.hour
      BY SMT, <2>2, <2>5
    <3>2. DayNumber(Full(y)) = DayNumber(Full(x))
      BY SMT, <1>5, <2>3
    <3>. QED  BY SMT, <1>2, <1>3, <1>4, <1>7, <3>1, <3>2
  <2>. QED  BY SMT, <1>5, <1>7, <2>3, <2>4 DEF y
<1>8. CASE x.second = 59 /\ x.minute = 59 /\ x.hour < 23
  <2>1. NextSecond(x) = [x EXCEPT !.second = 0, !.minute = 0, !.hour = x.hour + 1]
    BY SMT, <1>2, <1>8 DEF NextSecond
  <2>. DEFINE z == [x EXCEPT !.second = 0, !.minute = 0, !.hour = x.hour + 1]
  <2>2. /\ z.second = 0 /\ z.minute = 0 /\ z.hour = x.hour + 1
        /\ z.day = x.day /\ z.month = x.month /\ z.year = x.year
    BY SMT, <1>2, FieldsAre
  <2>5. y = z
    BY SMT, <2>1
  <2>. HIDE DEF y, z
  <2>3. SameDay(x, y)
    BY SMT, <2>2, <2>5 DEF SameDay
  <2>4. Seconds(y) = Seconds(x) + 1
    <3>1. y.second = 0 /\ y.minute = 0 /\ y.hour = x.hour + 1
      BY SMT, <2>2, <2>5
    <3>2. DayNumber(Full(y)) = DayNumber(Full(x))
      BY SMT, <1>5, <2>3
    <3>. QED  BY SMT, <1>2, <1>3, <1>4, <1>8, <3>1, <3>2
  <2>. QED  BY SMT, <1>5, <1>8, <2>3, <2>4 DEF y
<1>9. CASE x.second = 59 /\ x.minute = 59 /\ x.hour = 23
  <2>. DEFINE midnight == [x EXCEPT !.second = 0, !.minute = 0, !.hour = 0]
  <2>1. NextSecond(x) = NextDay(midnight)
    BY SMT, <1>2, <1>9 DEF NextSecond
  <2>2. midnight \in [Fields -> Int]
    <3>1. 0 \in Int
      OBVIOUS
    <3>2. x \in [Fields -> Int]
      BY <1>2
    <3>. QED  BY <3>1, <3>2, FieldsSet, Zenon
  <2>3. /\ midnight.second = 0 /\ midnight.minute = 0 /\ midnight.hour = 0
        /\ midnight.day = x.day /\ midnight.month = x.month /\ midnight.year = x.year
    BY SMT, <1>2, FieldsAre
  <2>. HIDE DEF midnight
  <2>4. midnight \in TimesOfDay
    BY SMT, <1>2, <2>2, <2>3 DEF TimesOfDay
  <2>5. OnCalendar(midnight) /\ ~ LastDay(midnight) /\ ~ LastDay(x)
    BY SMT, <1>9, <2>3 DEF OnCalendar, LastDay
  <2>6. /\ OnCalendar(y) /\ SameHour(midnight, y)
        /\ DayNumber(Full(y)) = DayNumber(Full(midnight)) + 1
    BY SMT, <2>1, <2>4, <2>5, NextDayCounts
  <2>7. DayNumber(Full(midnight)) = DayNumber(Full(x))
    <3>1. /\ Full(midnight).day = Full(x).day /\ Full(midnight).month = Full(x).month
          /\ Full(midnight).year = Full(x).year
      BY SMT, <2>3, <2>4, FullFields
    <3>. QED  BY SMT, <3>1 DEF DayNumber, DayOfYear
  <2>8. y.second = 0 /\ y.minute = 0 /\ y.hour = 0
    BY SMT, <2>3, <2>6 DEF SameHour
  <2>. HIDE DEF y
  <2>9. Seconds(y) = Seconds(x) + 1
    BY SMT, <1>3, <1>4, <1>9, <2>6, <2>7, <2>8
  <2>. QED  BY SMT, <2>5, <2>6, <2>8, <2>9 DEF y
<1>. QED  BY SMT, <1>2, <1>6, <1>7, <1>8, <1>9

----------------------------------------------------------------------------
(***************************************************************************)
(* The seconds of a command: Began is when it began, with the update that  *)
(* was then under way; a reading takes its times from the first pass on.   *)
(***************************************************************************)
Began == Seconds(now) + Ahead - updates

OnTime ==
    /\ OnCalendar(now)
    /\ LastDay(now) => /\ now.hour = 0 /\ now.minute = 0
                       /\ now.second + Ahead <= updates + 1
    /\ \A x \in times : x \in TimesOfDay /\ Seconds(x) <= Seconds(now)

Since == \A x \in times : Began <= Seconds(x)

SinceShown ==
    /\ UnixTime(shown) \in Int /\ Began <= UnixTime(shown)
    /\ \A x \in times : UnixTime(shown) <= Seconds(x)

StampInv ==
    /\ rtc_pc = "idle" => caller = "none"
    /\ caller = "none" => updates = 0
    /\ caller # "none" => OnTime
    /\ caller # "none" /\ (rtc_pc \in {"read", "compare", "done"} \/ pass = 2) => Since
    /\ caller = "ticks" /\ format.h24 => SinceShown

\* The result is a time that the chip has shown, also in seconds.
LEMMA ResultSeconds ==
  ASSUME ClockInv, OnTime, rtc_pc = "done", format.h24
  PROVE  \E x \in times : /\ UnixTime(result) = Seconds(x)
                          /\ rtc_get_ticks(result) = Seconds(x)
<1>1. PICK x \in times :
          /\ \A f \in Fields \ {"hour"} : result[f] = Full(x)[f]
          /\ HourReliable(x) => result.hour = x.hour
  BY DEF ClockInv, ReadingIsTrue
<1>2. x \in TimesOfDay
  BY DEF OnTime
<1>3. /\ result.second = Full(x).second /\ result.minute = Full(x).minute
      /\ result.hour = Full(x).hour /\ result.day = Full(x).day
      /\ result.month = Full(x).month /\ result.year = Full(x).year
  <2>1. result.hour = x.hour
    BY <1>1 DEF HourReliable
  <2>2. Full(x).hour = x.hour
    BY SMT, <1>2, FullFields
  <2>. QED  BY SMT, <1>1, <2>1, <2>2, FieldsAre
<1>4. /\ Full(x).year \in Century /\ Full(x).month \in 1 .. 12 /\ Full(x).day \in Int
      /\ Full(x).hour \in Int /\ Full(x).minute \in Int /\ Full(x).second \in Int
  BY SMT, <1>2, FullDate
<1>5. rtc_get_ticks(result) = UnixTime(result)
  BY SMT, <1>3, <1>4, TicksAre
<1>6. UnixTime(result) = Seconds(x)
  BY SMT, <1>3 DEF UnixTime, DayOfYear, Seconds
<1>. QED  BY <1>5, <1>6

LEMMA NowTyped ==
  ASSUME ClockInv, caller # "none"
  PROVE  /\ now \in TimesOfDay /\ now \in times /\ Seconds(now) \in Int
         /\ updates \in Nat /\ updates <= MaxUpdates /\ MaxUpdates \in 0 .. 58
         /\ updating \in BOOLEAN /\ Ahead \in 0 .. 1 /\ Began \in Int
<1>1. now \in TimesOfDay /\ now \in times /\ updating \in BOOLEAN /\ Ahead \in 0 .. 1
  BY DEF ClockInv, ClockTypes, Ahead
<1>2. updates \in Nat /\ updates <= MaxUpdates /\ MaxUpdates \in 0 .. 58
  BY RTCAssumption DEF ClockInv, ClockTypes
<1>3. Seconds(now) \in Int
  BY SMT, <1>1, SecondsAre
<1>. QED  BY <1>1, <1>2, <1>3 DEF Began

\* The first call of a command begins it; the second has the date to print.
LEMMA CallStamp ==
  ASSUME ClockInv, StampInv, NEW who, who # "none", rtc_call(who),
         IF who = "ticks" THEN rtc_pc = "done" /\ caller = "date" ELSE rtc_pc = "idle",
         ClockInv'
  PROVE  StampInv'
<1>1. /\ rtc_pc' = "wait" /\ pass' = 1 /\ caller' = who /\ times' = {now'}
      /\ updating' = updating /\ updates' = updates /\ Ahead' = Ahead
  BY DEF rtc_call, Ahead
<1>2. now' \in TimesOfDay /\ Seconds(now') \in Int
  <2>1. now' \in TimesOfDay
    BY <1>1 DEF ClockInv, ClockTypes
  <2>. QED  BY SMT, <2>1, SecondsAre
<1>3. CASE who = "ticks"
  <2>1. /\ now' = now /\ format' = format /\ shown' = result
        /\ rtc_pc = "done" /\ caller = "date" /\ caller # "none"
    BY <1>3 DEF rtc_call
  <2>2. OnTime /\ Since
    BY <2>1 DEF StampInv
  <2>3. OnTime'
    BY <1>1, <1>2, <2>1, <2>2 DEF OnTime
  <2>4. Began' = Began /\ Began \in Int
    BY <1>1, <2>1, NowTyped DEF Began
  <2>5. ASSUME format'.h24 PROVE SinceShown'
    <3>1. PICK x \in times : UnixTime(result) = Seconds(x)
      BY <2>1, <2>2, <2>5, ResultSeconds
    <3>2. x \in TimesOfDay /\ Seconds(x) <= Seconds(now) /\ Began <= Seconds(x)
      BY <2>2 DEF OnTime, Since
    <3>3. Seconds(x) \in Int
      BY SMT, <3>2, SecondsAre
    <3>. QED  BY <1>1, <2>1, <2>4, <3>1, <3>2, <3>3 DEF SinceShown
  <2>. QED  BY <1>1, <2>3, <2>5 DEF StampInv
<1>4. CASE who # "ticks"
  <2>1. caller = "none" /\ updates = 0
    BY <1>4 DEF StampInv
  <2>2. now' \in Starts
    BY <2>1 DEF rtc_call
  <2>3. OnCalendar(now') /\ ~ LastDay(now')
    BY <2>2, CalendarAssumption DEF LastDay
  <2>4. OnTime'
    BY <1>1, <1>2, <2>3 DEF OnTime
  <2>. QED  BY <1>1, <1>4, <2>4 DEF StampInv
<1>. QED  BY <1>3, <1>4

\* The steps that keep the clock and the command.
LEMMA SameStamp ==
  ASSUME StampInv, UNCHANGED <<now, updating, updates, caller, format, shown>>,
         rtc_pc # "idle", rtc_pc' # "idle",
         \/ times' = times
         \/ times' = {now} /\ now \in times,
         rtc_pc' \in {"read", "compare", "done"} \/ pass' = 2 =>
             (caller # "none" => Since')
  PROVE  StampInv'
<1>1. Ahead' = Ahead /\ Began' = Began
  BY DEF Ahead, Began
<1>2. \A x \in times' : x \in times
  OBVIOUS
<1>3. OnTime => OnTime'
  BY <1>1, <1>2 DEF OnTime
<1>4. SinceShown => SinceShown'
  BY <1>1, <1>2 DEF SinceShown
<1>. QED  BY <1>3, <1>4 DEF StampInv

LEMMA DriverStamp ==
  ASSUME ClockInv, StampInv, cmos_is_updating \/ rtc_read_register \/ rtc_compare
  PROVE  StampInv'
<1>1. rtc_pc # "idle" /\ caller # "none"
  BY DEF cmos_is_updating, rtc_read_register, rtc_compare, ClockInv, ClockTypes
<1>2. UNCHANGED <<now, updating, updates, caller, format, shown>>
  BY DEF cmos_is_updating, rtc_read_register, rtc_compare, chip
<1>3. Ahead' = Ahead /\ Began' = Began
  BY <1>2 DEF Ahead, Began
<1>4. CASE cmos_is_updating
  <2>1. /\ rtc_pc' = "read" /\ updating = FALSE /\ pass' = pass
        /\ times' = IF pass = 1 THEN {now} ELSE times
    BY <1>4 DEF cmos_is_updating
  <2>2. now \in times /\ pass \in 1 .. 2 /\ Seconds(now) \in Int /\ updates \in Nat
    BY <1>1, NowTyped DEF ClockInv, ClockTypes
  <2>3. Since'
    <3>1. CASE pass = 1
      <4>1. Began <= Seconds(now)
        BY <2>1, <2>2 DEF Began, Ahead
      <4>2. times' = {now}
        BY <2>1, <3>1
      <4>. QED  BY <1>3, <4>1, <4>2 DEF Since
    <3>2. CASE pass = 2
      <4>1. Since /\ times' = times
        BY <1>1, <2>1, <3>2 DEF StampInv
      <4>. QED  BY <1>3, <4>1 DEF Since
    <3>. QED  BY <2>2, <3>1, <3>2
  <2>. QED  BY <1>1, <1>2, <2>1, <2>2, <2>3, SameStamp
<1>5. CASE rtc_read_register \/ rtc_compare
  <2>1. rtc_pc \in {"read", "compare"} /\ rtc_pc' # "idle" /\ times' = times
    BY <1>5 DEF rtc_read_register, rtc_compare
  <2>2. Since'
    <3>1. Since
      BY <1>1, <2>1 DEF StampInv
    <3>. QED  BY <1>3, <2>1, <3>1 DEF Since
  <2>. QED  BY <1>1, <1>2, <2>1, <2>2, SameStamp
<1>. QED  BY <1>4, <1>5

\* An update of the chip counts a second of the command.
LEMMA BeginUpdateStamp ==
  ASSUME ClockInv, StampInv, BeginUpdate
  PROVE  StampInv'
<1>1. /\ rtc_pc # "idle" /\ caller # "none" /\ updating = FALSE /\ updating' = TRUE
      /\ updates' = updates + 1
      /\ UNCHANGED <<now, format, rtc_pc, pass, caller, shown, times>>
  BY DEF BeginUpdate, reader, ClockInv, ClockTypes
<1>2. /\ now \in TimesOfDay /\ Seconds(now) \in Int /\ updates \in Nat
  BY <1>1, NowTyped
<1>3. Ahead = 0 /\ Ahead' = 1
  BY <1>1 DEF Ahead
<1>4. Began' = Began
  BY <1>1, <1>2, <1>3 DEF Began
<1>5. OnTime => OnTime'
  <2>1. now.second \in Int
    BY <1>2, TimeIs
  <2>. QED  BY <1>1, <1>2, <1>3, <2>1 DEF OnTime
<1>6. (Since => Since') /\ (SinceShown => SinceShown')
  BY <1>1, <1>4 DEF Since, SinceShown
<1>. QED  BY <1>1, <1>5, <1>6 DEF StampInv

LEMMA EndUpdateStamp ==
  ASSUME ClockInv, StampInv, EndUpdate
  PROVE  StampInv'
<1>1. /\ updating = TRUE /\ updating' = FALSE /\ updates' = updates
      /\ now' = NextSecond(now) /\ times' = times \cup {now'}
      /\ UNCHANGED <<format, rtc_pc, pass, caller, shown>>
  BY DEF EndUpdate, reader
<1>2. CASE caller = "none"
  BY <1>1, <1>2 DEF StampInv
<1>3. CASE caller # "none"
  <2>1. /\ now \in TimesOfDay /\ now \in times /\ Seconds(now) \in Int
        /\ updates \in Nat /\ updates <= 58 /\ Began \in Int
    BY <1>3, NowTyped
  <2>2. Ahead = 1 /\ Ahead' = 0
    BY <1>1 DEF Ahead
  <2>3. OnTime
    BY <1>3 DEF StampInv
  <2>4. now.second \in 0 .. 59 /\ (LastDay(now) => now.second < 59)
    BY <2>1, <2>2, <2>3, TimeIs DEF OnTime
  <2>5. /\ OnCalendar(now')
        /\ Seconds(now') = Seconds(now) + 1
        /\ \/ /\ SameDay(now, now')
              /\ now.second < 59 => /\ now'.second = now.second + 1
                                    /\ now'.minute = now.minute
                                    /\ now'.hour = now.hour
           \/ /\ ~ LastDay(now)
              /\ now'.second = 0 /\ now'.minute = 0 /\ now'.hour = 0
    BY SMT, <1>1, <2>1, <2>3, <2>4, NextSecondCounts DEF OnTime
  <2>6. Began' = Began /\ Began <= Seconds(now')
    BY <1>1, <2>1, <2>2, <2>5 DEF Began
  <2>7. OnTime'
    <3>1. ASSUME LastDay(now')
          PROVE  now'.hour = 0 /\ now'.minute = 0 /\ now'.second + Ahead' <= updates' + 1
      <4>1. CASE SameDay(now, now')
        <5>1. LastDay(now)
          BY <3>1, <4>1 DEF SameDay, LastDay
        <5>2. /\ now'.second = now.second + 1 /\ now'.minute = now.minute
              /\ now'.hour = now.hour
          <6>1. now.second < 59
            BY <2>4, <5>1
          <6>. QED  BY <2>5, <5>1, <6>1
        <5>. QED  BY <1>1, <2>1, <2>2, <2>3, <2>4, <5>1, <5>2 DEF OnTime
      <4>2. CASE now'.second = 0 /\ now'.minute = 0 /\ now'.hour = 0
        BY <1>1, <2>1, <2>2, <4>2
      <4>. QED  BY <2>5, <4>1, <4>2
    <3>2. now' \in TimesOfDay /\ Seconds(now') \in Int
      BY <1>1, <2>1, <2>5, SecondFollows
    <3>3. \A x \in times' : x \in TimesOfDay /\ Seconds(x) <= Seconds(now')
      <4>1. \A x \in times : x \in TimesOfDay /\ Seconds(x) <= Seconds(now) /\ Seconds(x) \in Int
        BY SMT, <2>3, SecondsAre DEF OnTime
      <4>2. \A x \in times : x \in TimesOfDay /\ Seconds(x) <= Seconds(now')
        BY <2>1, <2>5, <4>1
      <4>. QED  BY <1>1, <3>2, <4>2
    <3>. QED  BY <2>5, <3>1, <3>3 DEF OnTime
  <2>8. Since => Since'
    BY <1>1, <2>6 DEF Since
  <2>9. SinceShown => SinceShown'
    <3>. SUFFICES ASSUME SinceShown PROVE SinceShown'
      OBVIOUS
    <3>1. UnixTime(shown) \in Int /\ UnixTime(shown) <= Seconds(now)
      BY <2>1 DEF SinceShown
    <3>2. UnixTime(shown) <= Seconds(now')
      BY <2>1, <2>5, <3>1
    <3>. QED  BY <1>1, <2>6, <3>2 DEF SinceShown
  <2>. QED  BY <1>1, <1>3, <2>7, <2>8, <2>9 DEF StampInv
<1>. QED  BY <1>2, <1>3

LEMMA NextStamp ==
  ASSUME ClockInv, ClockStage, StampInv, ClockInv', [Next]_vars
  PROVE  StampInv'
<1>1. CASE UNCHANGED rtc_vars
  <2>1. UNCHANGED <<now, updating, format, updates, rtc_pc, pass, caller, shown, times>>
    BY <1>1 DEF rtc_vars, chip, reader
  <2>2. Ahead' = Ahead /\ Began' = Began
    BY <2>1 DEF Ahead, Began
  <2>. QED  BY <2>1, <2>2 DEF StampInv, OnTime, Since, SinceShown
<1>2. CASE rtc_pc = "done" /\ rtc_return
  <2>1. rtc_pc' = "idle" /\ caller' = "none" /\ updates' = 0
    BY <1>2 DEF rtc_return
  <2>. QED  BY <2>1 DEF StampInv
<1>3. ClockTypes
  BY DEF ClockInv
<1>. QED  BY <1>1, <1>2, <1>3, RtcSteps, CallStamp, DriverStamp, BeginUpdateStamp, EndUpdateStamp

(***************************************************************************)
(* The date command's two numbers agree (shell.c:130): the Unix time that  *)
(* rtc_get_ticks computes is that of the date and time it read, by the     *)
(* calendar, and at least that of the date printed before it and at most   *)
(* the seconds later that the command took.  For any start of a command    *)
(* on a date of the calendar but the last of the two-digit years.          *)
(***************************************************************************)
THEOREM StampCorrect == Spec => []DateAndStampAgree
<1>1. Init => ClockInv /\ ClockStage /\ StampInv
  <2>1. Init => rtc_pc = "idle" /\ caller = "none" /\ updates = 0
    BY DEF Init, rtc_init_state
  <2>. QED  BY <2>1, InitClock DEF StampInv
<1>2. ClockInv /\ ClockStage /\ StampInv /\ [Next]_vars
        => ClockInv' /\ ClockStage' /\ StampInv'
  BY NextClock, NextClockStage, NextStamp DEF ClockInv
<1>3. ClockInv /\ StampInv => DateAndStampAgree
  <2>. SUFFICES ASSUME ClockInv, StampInv, caller = "ticks", rtc_pc = "done", format.h24
                PROVE  /\ rtc_get_ticks(result) = UnixTime(result)
                       /\ rtc_get_ticks(result)
                             \in UnixTime(shown) .. UnixTime(shown) + MaxUpdates
    BY DEF DateAndStampAgree
  <2>1. OnTime /\ SinceShown
    BY DEF StampInv
  <2>2. PICK x \in times : UnixTime(result) = Seconds(x) /\ rtc_get_ticks(result) = Seconds(x)
    BY <2>1, ResultSeconds
  <2>3. /\ Seconds(x) <= Seconds(now) /\ UnixTime(shown) <= Seconds(x)
        /\ UnixTime(shown) \in Int /\ Began <= UnixTime(shown)
    BY <2>1 DEF OnTime, SinceShown
  <2>4. /\ Seconds(now) \in Int /\ Ahead \in 0 .. 1
        /\ updates \in Nat /\ updates <= MaxUpdates /\ MaxUpdates \in Int
    BY NowTyped
  <2>5. Seconds(x) \in Int
    BY SMT, <2>1, SecondsAre DEF OnTime
  <2>6. Seconds(x) <= UnixTime(shown) + MaxUpdates
    BY <2>3, <2>4, <2>5 DEF Began
  <2>. QED  BY <2>2, <2>3, <2>4, <2>5, <2>6
<1>. QED  BY <1>1, <1>2, <1>3, PTL DEF Spec

----------------------------------------------------------------------------
(***************************************************************************)
(* The terminal.  What a character does is followed through the three      *)
(* steps of vga_putchar: its effect, the end of the row (vga.c:79) and the *)
(* scrolling (vga.c:84), each of which keeps a text before the cursor and  *)
(* blanks behind it.                                                       *)
(***************************************************************************)
Screens == [cells : [Cells -> Printable], row : 0 .. VGA_HEIGHT - 1,
            col : 0 .. VGA_WIDTH - 1]

\* The cursor may stand behind the end of a row, or in the first column below
\* the last row, until vga_putchar brings it back.
Reach(r, c) ==
    /\ r \in 0 .. VGA_HEIGHT /\ c \in 0 .. VGA_WIDTH
    /\ r = VGA_HEIGHT => c = 0

At(r, c) == r * VGA_WIDTH + c

\* The text before place p, as far as it is on the screen, and blanks from p on.
Shows(cells, p, text) ==
    /\ cells \in [Cells -> Printable]
    /\ \A n \in Cells : n >= p => cells[n] = Blank
    /\ \A k \in 1 .. Len(text) : p - Len(text) + k - 1 \in Cells
                                 => cells[p - Len(text) + k - 1] = text[k]

LEMMA SizesAre ==
  /\ VGA_WIDTH \in Nat /\ VGA_WIDTH > 0 /\ VGA_HEIGHT \in Nat /\ VGA_HEIGHT > 0
  /\ TabStop \in Nat /\ TabStop > 0 /\ VGA_WIDTH % TabStop = 0
  /\ VGA_WIDTH * VGA_HEIGHT \in Nat
<1>1. /\ VGA_WIDTH \in Nat /\ VGA_WIDTH > 0 /\ VGA_HEIGHT \in Nat /\ VGA_HEIGHT > 0
      /\ TabStop \in Nat /\ TabStop > 0 /\ VGA_WIDTH % TabStop = 0
  <2>1. /\ VGA_WIDTH \in Nat \ {0} /\ VGA_HEIGHT \in Nat \ {0} /\ TabStop \in Nat \ {0}
    BY TerminalAssumption
  <2>2. VGA_WIDTH % TabStop = 0
    BY TerminalAssumption
  <2>. QED  BY <2>1, <2>2
<1>2. \A a, b \in Nat : a * b \in Nat
  OBVIOUS
<1>. QED  BY <1>1, <1>2

LEMMA Products ==
  ASSUME NEW r \in Int
  PROVE  /\ r * VGA_WIDTH \in Int
         /\ (r + 1) * VGA_WIDTH = r * VGA_WIDTH + VGA_WIDTH
         /\ (r - 1) * VGA_WIDTH = r * VGA_WIDTH - VGA_WIDTH
         /\ r >= 0 => r * VGA_WIDTH >= 0
         /\ r <= VGA_HEIGHT => r * VGA_WIDTH <= VGA_WIDTH * VGA_HEIGHT
         /\ r < VGA_HEIGHT => r * VGA_WIDTH + VGA_WIDTH <= VGA_WIDTH * VGA_HEIGHT
         /\ VGA_HEIGHT * VGA_WIDTH = VGA_WIDTH * VGA_HEIGHT
<1>1. /\ r * VGA_WIDTH \in Int
      /\ (r + 1) * VGA_WIDTH = r * VGA_WIDTH + VGA_WIDTH
      /\ (r - 1) * VGA_WIDTH = r * VGA_WIDTH - VGA_WIDTH
      /\ r >= 0 => r * VGA_WIDTH >= 0
  BY SizesAre
<1>2. VGA_HEIGHT * VGA_WIDTH = VGA_WIDTH * VGA_HEIGHT
  BY SizesAre
<1>3. r <= VGA_HEIGHT => r * VGA_WIDTH <= VGA_WIDTH * VGA_HEIGHT
  <2>. DEFINE d == VGA_HEIGHT - r
  <2>1. d \in Int /\ VGA_HEIGHT = r + d
    BY SizesAre
  <2>2. r <= VGA_HEIGHT => d >= 0
    BY SizesAre
  <2>. HIDE DEF d
  <2>3. d >= 0 => d * VGA_WIDTH >= 0
    BY <2>1, SizesAre
  <2>4. VGA_WIDTH * VGA_HEIGHT = r * VGA_WIDTH + d * VGA_WIDTH
    BY <2>1, SizesAre
  <2>5. d * VGA_WIDTH \in Int
    BY <2>1, SizesAre
  <2>. QED  BY <1>1, <2>2, <2>3, <2>4, <2>5, SizesAre
<1>4. r < VGA_HEIGHT => (r + 1) * VGA_WIDTH <= VGA_WIDTH * VGA_HEIGHT
  <2>. DEFINE d == VGA_HEIGHT - (r + 1)
  <2>1. d \in Int /\ VGA_HEIGHT = (r + 1) + d
    BY SizesAre
  <2>2. r < VGA_HEIGHT => d >= 0
    BY SizesAre
  <2>. HIDE DEF d
  <2>3. d >= 0 => d * VGA_WIDTH >= 0
    BY <2>1, SizesAre
  <2>4. VGA_WIDTH * VGA_HEIGHT = (r + 1) * VGA_WIDTH + d * VGA_WIDTH
    BY <2>1, SizesAre
  <2>5. d * VGA_WIDTH \in Int /\ (r + 1) * VGA_WIDTH \in Int
    BY <2>1, SizesAre
  <2>. QED  BY <2>2, <2>3, <2>4, <2>5, SizesAre
<1>. QED  BY <1>1, <1>2, <1>3, <1>4

LEMMA PlaceIs ==
  ASSUME NEW r, NEW c, Reach(r, c)
  PROVE  /\ r \in Int /\ c \in Int /\ At(r, c) \in 0 .. VGA_WIDTH * VGA_HEIGHT
         /\ r < VGA_HEIGHT /\ c < VGA_WIDTH => At(r, c) \in Cells
         /\ c = VGA_WIDTH => r < VGA_HEIGHT /\ At(r + 1, 0) = At(r, c)
         /\ c = 0 => At(r - 1, 0) = At(r, c) - VGA_WIDTH
         /\ r < VGA_HEIGHT => At(r + 1, 0) >= At(r, c)
<1>1. r \in Int /\ c \in Int /\ 0 <= r /\ r <= VGA_HEIGHT /\ 0 <= c /\ c <= VGA_WIDTH
  BY SizesAre DEF Reach
<1>. DEFINE q == r * VGA_WIDTH
            total == VGA_WIDTH * VGA_HEIGHT
<1>2. /\ q \in Int /\ q >= 0 /\ q <= total /\ total \in Nat
      /\ r < VGA_HEIGHT => q + VGA_WIDTH <= total
      /\ At(r, c) = q + c /\ At(r + 1, 0) = q + VGA_WIDTH + 0 /\ At(r - 1, 0) = q - VGA_WIDTH + 0
  BY <1>1, Products, SizesAre DEF At
<1>3. Cells = 0 .. total - 1 /\ (r = VGA_HEIGHT => c = 0) /\ VGA_WIDTH \in Nat /\ VGA_WIDTH > 0
      /\ VGA_HEIGHT \in Nat
  BY SizesAre DEF Cells, Reach
<1>. HIDE DEF q, total
<1>4. At(r, c) \in 0 .. total
  BY <1>1, <1>2, <1>3
<1>5. /\ r < VGA_HEIGHT /\ c < VGA_WIDTH => At(r, c) \in Cells
      /\ c = VGA_WIDTH => r < VGA_HEIGHT /\ At(r + 1, 0) = At(r, c)
      /\ c = 0 => At(r - 1, 0) = At(r, c) - VGA_WIDTH
      /\ r < VGA_HEIGHT => At(r + 1, 0) >= At(r, c)
  BY <1>1, <1>2, <1>3
<1>. QED  BY <1>1, <1>4, <1>5 DEF total

LEMMA WrappedShows ==
  ASSUME NEW cells, NEW r, NEW c, NEW text, Reach(r, c), Shows(cells, At(r, c), text)
  PROVE  \E r2, c2 : /\ Wrapped(Screen(cells, r, c)) = Screen(cells, r2, c2)
                     /\ Reach(r2, c2) /\ c2 < VGA_WIDTH
                     /\ Shows(cells, At(r2, c2), text)
<1>0. r \in Int /\ c \in Int /\ 0 <= r /\ r <= VGA_HEIGHT /\ 0 <= c /\ c <= VGA_WIDTH
  BY SizesAre DEF Reach
<1>1. CASE c = VGA_WIDTH
  <2>1. Wrapped(Screen(cells, r, c)) = Screen(cells, r + 1, 0)
    BY <1>0, <1>1, SizesAre DEF Wrapped, Screen
  <2>2. r < VGA_HEIGHT /\ At(r + 1, 0) = At(r, c)
    BY <1>1, PlaceIs
  <2>3. Reach(r + 1, 0) /\ 0 < VGA_WIDTH
    BY <1>0, <2>2, SizesAre DEF Reach
  <2>. QED  BY <2>1, <2>2, <2>3
<1>2. CASE c # VGA_WIDTH
  <2>1. c < VGA_WIDTH /\ ~ (c >= VGA_WIDTH)
    BY <1>0, <1>2, SizesAre
  <2>2. Wrapped(Screen(cells, r, c)) = Screen(cells, r, c)
    BY <2>1 DEF Wrapped, Screen
  <2>. QED  BY <2>1, <2>2
<1>. QED  BY <1>1, <1>2

LEMMA ScrolledShows ==
  ASSUME NEW cells, NEW r, NEW c, NEW text, Reach(r, c), c < VGA_WIDTH,
         Shows(cells, At(r, c), text), text \in Seq(Printable)
  PROVE  \E v \in Screens : /\ Scrolled(Screen(cells, r, c)) = v
                            /\ Shows(v.cells, CursorOf(v), text)
<1>0. r \in Int /\ c \in Int /\ 0 <= r /\ r <= VGA_HEIGHT /\ 0 <= c /\ c <= VGA_WIDTH
  BY SizesAre DEF Reach
<1>1. CASE r = VGA_HEIGHT
  <2>. DEFINE shifted == [n \in Cells |-> IF n + VGA_WIDTH \in Cells
                                         THEN cells[n + VGA_WIDTH] ELSE Blank]
              v == Screen(shifted, VGA_HEIGHT - 1, 0)
              total == VGA_WIDTH * VGA_HEIGHT
              p == At(r, c)
              q == At(VGA_HEIGHT - 1, 0)
  <2>1. c = 0
    BY <1>1 DEF Reach
  <2>2. Scrolled(Screen(cells, r, c)) = v
    BY <1>0, <1>1, <2>1 DEF Scrolled, vga_scroll, Screen
  <2>3. shifted \in [Cells -> Printable]
    BY TerminalAssumption DEF Shows
  <2>4. v \in Screens
    <3>1. VGA_HEIGHT - 1 \in 0 .. VGA_HEIGHT - 1 /\ 0 \in 0 .. VGA_WIDTH - 1
      BY SizesAre
    <3>. HIDE DEF shifted
    <3>. QED  BY <2>3, <3>1 DEF Screens, Screen
  <2>5. v.cells = shifted /\ CursorOf(v) = q
    BY DEF CursorOf, At, Screen
  <2>6. q = p - VGA_WIDTH /\ p = total /\ total \in Nat /\ p \in Int
    BY <1>1, <2>1, PlaceIs, SizesAre, Products DEF At
  <2>7. Cells = 0 .. total - 1 /\ VGA_WIDTH \in Nat /\ VGA_WIDTH > 0
    BY SizesAre DEF Cells
  <2>8. \A n \in Cells : shifted[n] = IF n + VGA_WIDTH \in Cells
                                      THEN cells[n + VGA_WIDTH] ELSE Blank
    OBVIOUS
  <2>. HIDE DEF shifted, v, total, p, q
  <2>9. ASSUME NEW n \in Cells, n >= q PROVE shifted[n] = Blank
    <3>1. n + VGA_WIDTH \notin Cells
      BY <2>6, <2>7, <2>9
    <3>. QED  BY <2>8, <3>1
  <2>10. ASSUME NEW k \in 1 .. Len(text), q - Len(text) + k - 1 \in Cells
         PROVE  shifted[q - Len(text) + k - 1] = text[k]
    <3>. DEFINE m == p - Len(text) + k - 1
                n == q - Len(text) + k - 1
    <3>1. Len(text) \in Nat /\ k \in Int /\ k <= Len(text)
      OBVIOUS
    <3>2. m = n + VGA_WIDTH /\ m \in Cells
      BY <2>6, <2>7, <2>10, <3>1
    <3>3. cells[m] = text[k]
      BY <3>2 DEF Shows, p
    <3>. HIDE DEF m
    <3>. QED  BY <2>8, <2>10, <3>2, <3>3
  <2>11. Shows(shifted, q, text)
    BY <2>3, <2>9, <2>10 DEF Shows
  <2>. QED  BY <2>2, <2>4, <2>5, <2>11
<1>2. CASE r # VGA_HEIGHT
  <2>1. r < VGA_HEIGHT /\ ~ (r >= VGA_HEIGHT)
    BY <1>0, <1>2, SizesAre
  <2>2. Scrolled(Screen(cells, r, c)) = Screen(cells, r, c)
    BY <2>1 DEF Scrolled, Screen
  <2>3. Screen(cells, r, c) \in Screens
    <3>1. r \in 0 .. VGA_HEIGHT - 1 /\ c \in 0 .. VGA_WIDTH - 1
      BY <1>0, <2>1, SizesAre
    <3>. QED  BY <3>1 DEF Screens, Screen, Shows
  <2>4. Screen(cells, r, c).cells = cells /\ CursorOf(Screen(cells, r, c)) = At(r, c)
    BY DEF CursorOf, Screen, At
  <2>. QED  BY <2>2, <2>3, <2>4
<1>. QED  BY <1>1, <1>2

\* What each character does to a screen's parts.
LEMMA EffectNewline ==
  \A cells, r, c : Effect(Screen(cells, r, c), "\n") = Screen(cells, r + 1, 0)
<1>. SUFFICES ASSUME NEW cells, NEW r, NEW c
              PROVE  Effect(Screen(cells, r, c), "\n") = Screen(cells, r + 1, 0)
  OBVIOUS
<1>. DEFINE v == Screen(cells, r, c)
<1>1. Effect(v, "\n") = Screen(v.cells, v.row + 1, 0)
  BY Zenon DEF Effect
<1>. QED  BY <1>1 DEF Screen

LEMMA EffectTab ==
  \A cells, r, c : Effect(Screen(cells, r, c), "\t")
                     = Screen(cells, r, ((c + TabStop) \div TabStop) * TabStop)
<1>. SUFFICES ASSUME NEW cells, NEW r, NEW c
              PROVE  Effect(Screen(cells, r, c), "\t")
                       = Screen(cells, r, ((c + TabStop) \div TabStop) * TabStop)
  OBVIOUS
<1>. DEFINE v == Screen(cells, r, c)
<1>1. Effect(v, "\t") = Screen(v.cells, v.row, ((v.col + TabStop) \div TabStop) * TabStop)
  BY Zenon DEF Effect
<1>. QED  BY <1>1 DEF Screen

LEMMA EffectBack ==
  \A cells, r, c : Effect(Screen(cells, r, c), "BS")
                     = IF c > 0
                       THEN Screen([cells EXCEPT ![At(r, c) - 1] = Blank], r, c - 1)
                       ELSE Screen(cells, r, c)
<1>. SUFFICES ASSUME NEW cells, NEW r, NEW c
              PROVE  Effect(Screen(cells, r, c), "BS")
                       = IF c > 0
                         THEN Screen([cells EXCEPT ![At(r, c) - 1] = Blank], r, c - 1)
                         ELSE Screen(cells, r, c)
  OBVIOUS
<1>. DEFINE v == Screen(cells, r, c)
<1>1. Effect(v, "BS") = IF v.col > 0
                        THEN Screen([v.cells EXCEPT ![CursorOf(v) - 1] = Blank],
                                    v.row, v.col - 1)
                        ELSE v
  BY Zenon DEF Effect
<1>2. v.cells = cells /\ v.row = r /\ v.col = c /\ CursorOf(v) = At(r, c)
  BY DEF Screen, CursorOf, At
<1>. QED  BY <1>1, <1>2

Put(cells, p, x) == [cells EXCEPT ![p] = x]

LEMMA EffectPrintable ==
  \A cells, r, c, x : x \in Printable =>
     Effect(Screen(cells, r, c), x) = Screen(Put(cells, At(r, c), x), r, c + 1)
<1>. SUFFICES ASSUME NEW cells, NEW r, NEW c, NEW x, x \in Printable
              PROVE  Effect(Screen(cells, r, c), x)
                       = Screen(Put(cells, At(r, c), x), r, c + 1)
  OBVIOUS
<1>. DEFINE v == Screen(cells, r, c)
<1>1. Effect(v, x) = Screen([v.cells EXCEPT ![CursorOf(v)] = x], v.row, v.col + 1)
  <2>1. x # "\n" /\ x # "\r" /\ x # "\t" /\ x # "BS"
    BY TerminalAssumption
  <2>. QED  BY <2>1, Zenon DEF Effect
<1>2. v.cells = cells /\ v.row = r /\ v.col = c /\ CursorOf(v) = At(r, c)
  BY DEF Screen, CursorOf, At
<1>. QED  BY <1>1, <1>2 DEF Put

LEMMA TabIs ==
  ASSUME NEW c \in 0 .. VGA_WIDTH - 1
  PROVE  /\ ((c + TabStop) \div TabStop) * TabStop \in 0 .. VGA_WIDTH
         /\ ((c + TabStop) \div TabStop) * TabStop > c
<1>. DEFINE q == c \div TabStop
            w == VGA_WIDTH \div TabStop
            m == c % TabStop
<1>1. /\ c = q * TabStop + m /\ q \in Nat /\ m \in 0 .. TabStop - 1
      /\ c \in Nat /\ VGA_WIDTH = w * TabStop /\ w \in Nat /\ TabStop \in Nat /\ TabStop > 0
  BY SizesAre
<1>2. (c + TabStop) \div TabStop = q + 1
  BY <1>1
<1>. HIDE DEF q, w, m
<1>3. (q + 1) * TabStop = q * TabStop + TabStop /\ q * TabStop \in Nat
  BY <1>1
<1>4. q < w
  <2>1. ASSUME q >= w PROVE FALSE
    <3>. DEFINE d == q - w
    <3>1. d \in Nat /\ q = w + d
      BY <1>1, <2>1
    <3>. HIDE DEF d
    <3>2. q * TabStop = w * TabStop + d * TabStop /\ d * TabStop \in Nat
      BY <1>1, <3>1
    <3>. QED  BY <1>1, <3>2
  <2>. QED  BY <1>1, <2>1
<1>5. (q + 1) * TabStop <= w * TabStop
  <2>. DEFINE d == w - (q + 1)
  <2>1. d \in Nat /\ w = q + 1 + d
    BY <1>1, <1>4
  <2>. HIDE DEF d
  <2>2. w * TabStop = (q + 1) * TabStop + d * TabStop /\ d * TabStop \in Nat
    BY <1>1, <2>1
  <2>3. (q + 1) * TabStop \in Int
    BY <1>1
  <2>. QED  BY <2>2, <2>3
<1>. QED  BY <1>1, <1>2, <1>3, <1>5

\* A printable character is shown behind the text before it; the other
\* characters but "\r" leave nothing behind the cursor; a backspace takes the
\* last character of the text back, unless it meets column 0.
LEMMA EffectShows ==
  ASSUME NEW cells, NEW r, NEW c, NEW text \in Seq(Printable), Reach(r, c),
         r < VGA_HEIGHT, c < VGA_WIDTH, Shows(cells, At(r, c), text),
         NEW x \in Printable \cup {"\n", "\t", "BS"},
         NEW u,
         \/ u = <<>>
         \/ x \in Printable /\ u = Append(text, x)
         \/ x = "BS" /\ c > 0 /\ text # <<>> /\ u = Front(text)
  PROVE  \E cells2, r2, c2 : /\ Effect(Screen(cells, r, c), x) = Screen(cells2, r2, c2)
                             /\ Reach(r2, c2) /\ Shows(cells2, At(r2, c2), u)
<1>0. /\ r \in 0 .. VGA_HEIGHT - 1 /\ c \in 0 .. VGA_WIDTH - 1 /\ At(r, c) \in Cells
      /\ At(r, c) \in Int
  BY SizesAre, PlaceIs DEF Reach
<1>1. \A p : p \in Int /\ p >= At(r, c) => Shows(cells, p, <<>>)
  <2>. DEFINE q == At(r, c)
  <2>1. \A n \in Cells : n \in Int
    BY SizesAre DEF Cells
  <2>2. cells \in [Cells -> Printable] /\ q \in Int /\ \A n \in Cells : n >= q => cells[n] = Blank
    BY <1>0 DEF Shows
  <2>. HIDE DEF q
  <2>3. \A p, n \in Int : p >= q /\ n >= p => n >= q
    <3>1. q \in Int
      BY <2>2
    <3>. QED  BY <3>1
  <2>4. Len(<<>>) = 0 /\ 1 .. 0 = {}
    OBVIOUS
  <2>5. \A p : p \in Int /\ p >= q => Shows(cells, p, <<>>)
    BY <2>1, <2>2, <2>3, <2>4 DEF Shows
  <2>. QED  BY <2>5 DEF q
<1>2. CASE x = "\n"
  <2>1. Effect(Screen(cells, r, c), x) = Screen(cells, r + 1, 0)
    BY <1>2, EffectNewline
  <2>2. Reach(r + 1, 0)
    BY <1>0, SizesAre DEF Reach
  <2>3. At(r + 1, 0) >= At(r, c) /\ At(r + 1, 0) \in Int
    BY <2>2, PlaceIs
  <2>4. u = <<>>
    BY <1>2, TerminalAssumption
  <2>. QED  BY <1>1, <2>1, <2>2, <2>3, <2>4
<1>3. CASE x = "\t"
  <2>. DEFINE m == ((c + TabStop) \div TabStop) * TabStop
  <2>1. Effect(Screen(cells, r, c), x) = Screen(cells, r, m)
    BY <1>3, EffectTab
  <2>2. m \in 0 .. VGA_WIDTH /\ m > c
    BY <1>0, TabIs
  <2>. HIDE DEF m
  <2>3. Reach(r, m)
    BY <1>0, <2>2, SizesAre DEF Reach
  <2>4. At(r, m) >= At(r, c) /\ At(r, m) \in Int
    <3>1. r * VGA_WIDTH \in Int /\ m \in Int /\ c \in Int
      BY <1>0, <2>2, SizesAre, Products
    <3>. QED  BY <2>2, <3>1 DEF At
  <2>5. u = <<>>
    BY <1>3, TerminalAssumption
  <2>. QED  BY <1>1, <2>1, <2>3, <2>4, <2>5
<1>4. CASE x = "BS"
  <2>1. CASE ~ (c > 0)
    <3>1. Effect(Screen(cells, r, c), x) = Screen(cells, r, c)
      BY <1>4, <2>1, EffectBack
    <3>2. u = <<>>
      BY <1>4, <2>1, TerminalAssumption
    <3>. QED  BY <1>0, <1>1, <3>1, <3>2
  <2>2. CASE c > 0
    <3>. DEFINE p == At(r, c)
                q == At(r, c - 1)
                blank == [cells EXCEPT ![At(r, c) - 1] = Blank]
    <3>1. Effect(Screen(cells, r, c), x) = Screen(blank, r, c - 1)
      BY <1>4, <2>2, EffectBack
    <3>2. Reach(r, c - 1)
      BY <1>0, <2>2, SizesAre DEF Reach
    <3>3. q = p - 1 /\ p \in Int /\ q >= 0
      <4>1. r * VGA_WIDTH \in Int /\ c \in Int
        BY <1>0, SizesAre, Products
      <4>2. q \in 0 .. VGA_WIDTH * VGA_HEIGHT
        BY <3>2, PlaceIs
      <4>. QED  BY <4>1, <4>2, SizesAre DEF At
    <3>4. /\ blank \in [Cells -> Printable]
          /\ \A n \in Cells : blank[n] = IF n = q THEN Blank ELSE cells[n]
      BY <3>3, TerminalAssumption DEF Shows
    <3>5. \A n \in Cells : n >= p => cells[n] = Blank
      BY DEF Shows
    <3>. HIDE DEF blank
    <3>6. \A n \in Cells : n >= q => blank[n] = Blank
      <4>1. \A n \in Cells : n \in Int
        BY SizesAre DEF Cells
      <4>2. \A n \in Int : n >= p - 1 => n = p - 1 \/ n >= p
        BY <3>3
      <4>. QED  BY <3>3, <3>4, <3>5, <4>1, <4>2
    <3>7. \A k \in 1 .. Len(u) : q - Len(u) + k - 1 \in Cells
                                   => blank[q - Len(u) + k - 1] = u[k]
      <4>1. CASE u = <<>>
        BY <4>1
      <4>2. CASE text # <<>> /\ u = Front(text)
        <5>. DEFINE l == Len(text)
        <5>1. l \in Nat /\ l > 0
          BY <4>2
        <5>2. Len(u) = l - 1 /\ \A k \in 1 .. l - 1 : u[k] = text[k]
          <6>1. u = SubSeq(text, 1, l - 1) /\ text \in Seq(Printable)
            BY <4>2 DEF Front
          <6>2. \A k \in 1 .. l - 1 : k + 1 - 1 = k
            OBVIOUS
          <6>3. /\ Len(SubSeq(text, 1, l - 1)) = l - 1
                /\ \A k \in 1 .. l - 1 : SubSeq(text, 1, l - 1)[k] = text[k]
            <7>. DEFINE n == l - 1
            <7>. HIDE DEF l
            <7>1. n \in Int /\ n >= 0 /\ (1 <= n \/ n = 0) /\ n - 1 + 1 = n
              BY <5>1
            <7>2. \A k \in 1 .. n : text[k] \in Printable
              BY <5>1, <6>1 DEF l
            <7>. HIDE DEF n
            <7>3. /\ Len(SubSeq(text, 1, n)) = IF 1 <= n THEN n - 1 + 1 ELSE 0
                  /\ \A k \in 1 .. n - 1 + 1 : SubSeq(text, 1, n)[k] = text[1 + k - 1]
              BY <7>1, <7>2, SubSeqProperties
            <7>4. \A k \in 1 .. n : 1 + k - 1 = k
              BY <7>1
            <7>5. Len(SubSeq(text, 1, n)) = n
              BY <7>1, <7>3
            <7>6. \A k \in 1 .. n : SubSeq(text, 1, n)[k] = text[k]
              BY <7>1, <7>3, <7>4
            <7>. QED  BY <7>5, <7>6 DEF n
          <6>. QED  BY <6>1, <6>3
        <5>3. \A k \in 1 .. l : p - l + k - 1 \in Cells => cells[p - l + k - 1] = text[k]
          BY DEF Shows
        <5>. HIDE DEF l, p, q
        <5>. SUFFICES ASSUME NEW k \in 1 .. l - 1, q - (l - 1) + k - 1 \in Cells
                      PROVE  blank[q - (l - 1) + k - 1] = u[k]
          BY <5>2
        <5>4. /\ q - (l - 1) + k - 1 = p - l + k - 1 /\ p - l + k - 1 # q
              /\ k \in 1 .. l
          BY <3>3, <5>1
        <5>. QED  BY <3>4, <5>2, <5>3, <5>4
      <4>. QED  BY <1>4, <4>1, <4>2, TerminalAssumption
    <3>8. Shows(blank, q, u)
      BY <3>4, <3>6, <3>7 DEF Shows
    <3>. QED  BY <3>1, <3>2, <3>8
  <2>. QED  BY <2>1, <2>2
<1>5. CASE x \in Printable
  <2>. DEFINE p == At(r, c)
              q == At(r, c + 1)
              more == Put(cells, At(r, c), x)
  <2>1. Effect(Screen(cells, r, c), x) = Screen(more, r, c + 1)
    BY <1>5, EffectPrintable
  <2>2. Reach(r, c + 1)
    BY <1>0, SizesAre DEF Reach
  <2>3. q = p + 1 /\ p \in Int
    <3>1. r * VGA_WIDTH \in Int /\ c \in Int
      BY <1>0, SizesAre, Products
    <3>. QED  BY <3>1 DEF At
  <2>4. /\ more \in [Cells -> Printable]
        /\ \A n \in Cells : more[n] = IF n = p THEN x ELSE cells[n]
    BY <1>5 DEF Shows, Put
  <2>5. \A n \in Cells : n >= p => cells[n] = Blank
    BY DEF Shows
  <2>. HIDE DEF more
  <2>6. \A n \in Cells : n >= q => more[n] = Blank
    <3>1. \A n \in Cells : n \in Int
      BY SizesAre DEF Cells
    <3>2. \A n \in Int : n >= p + 1 => n # p /\ n >= p
      BY <2>3
    <3>. QED  BY <2>3, <2>4, <2>5, <3>1, <3>2
  <2>7. \A k \in 1 .. Len(u) : q - Len(u) + k - 1 \in Cells
                                 => more[q - Len(u) + k - 1] = u[k]
    <3>1. CASE u = <<>>
      BY <3>1
    <3>2. CASE u = Append(text, x)
      <4>. DEFINE l == Len(text)
      <4>1. l \in Nat
        OBVIOUS
      <4>2. /\ Len(u) = l + 1 /\ u[l + 1] = x
            /\ \A k \in 1 .. l : u[k] = text[k]
        BY <3>2, <4>1
      <4>3. \A k \in 1 .. l : p - l + k - 1 \in Cells => cells[p - l + k - 1] = text[k]
        BY DEF Shows
      <4>. HIDE DEF l, p, q
      <4>. SUFFICES ASSUME NEW k \in 1 .. l + 1, q - (l + 1) + k - 1 \in Cells
                    PROVE  more[q - (l + 1) + k - 1] = u[k]
        BY <4>2
      <4>4. /\ q - (l + 1) + k - 1 = p - l + k - 1
            /\ k = l + 1 \/ (k \in 1 .. l /\ p - l + k - 1 # p)
            /\ k = l + 1 => p - l + k - 1 = p
        BY <2>3, <4>1
      <4>. QED  BY <2>4, <4>2, <4>3, <4>4
    <3>. QED  BY <1>5, <3>1, <3>2, TerminalAssumption
  <2>8. Shows(more, q, u)
    BY <2>4, <2>6, <2>7 DEF Shows
  <2>. QED  BY <2>1, <2>2, <2>8
<1>. QED  BY <1>2, <1>3, <1>4, <1>5

ShownOn(v, text) == v \in Screens /\ Shows(v.cells, CursorOf(v), text)

LEMMA ScreenIs ==
  ASSUME NEW v \in Screens
  PROVE  /\ v = Screen(v.cells, v.row, v.col) /\ CursorOf(v) = At(v.row, v.col)
         /\ Reach(v.row, v.col) /\ v.row < VGA_HEIGHT /\ v.col < VGA_WIDTH
         /\ v.row \in 0 .. VGA_HEIGHT - 1 /\ v.col \in 0 .. VGA_WIDTH - 1
         /\ v.cells \in [Cells -> Printable]
<1>1. /\ v = Screen(v.cells, v.row, v.col)
      /\ v.row \in 0 .. VGA_HEIGHT - 1 /\ v.col \in 0 .. VGA_WIDTH - 1
      /\ v.cells \in [Cells -> Printable]
  BY DEF Screens, Screen
<1>2. CursorOf(v) = At(v.row, v.col)
  BY DEF CursorOf, At
<1>. QED  BY <1>1, <1>2, SizesAre DEF Reach

LEMMA PutcharShows ==
  ASSUME NEW v, NEW text \in Seq(Printable), ShownOn(v, text),
         NEW x \in Printable \cup {"\n", "\t", "BS"},
         NEW u \in Seq(Printable),
         \/ u = <<>>
         \/ x \in Printable /\ u = Append(text, x)
         \/ x = "BS" /\ v.col > 0 /\ text # <<>> /\ u = Front(text)
  PROVE  ShownOn(vga_putchar(v, x), u)
<1>1. /\ v = Screen(v.cells, v.row, v.col) /\ Shows(v.cells, At(v.row, v.col), text)
      /\ Reach(v.row, v.col) /\ v.row < VGA_HEIGHT /\ v.col < VGA_WIDTH
  BY ScreenIs DEF ShownOn
<1>2. PICK cells, r, c : /\ Effect(v, x) = Screen(cells, r, c)
                         /\ Reach(r, c) /\ Shows(cells, At(r, c), u)
  BY <1>1, EffectShows
<1>3. PICK r2, c2 : /\ Wrapped(Screen(cells, r, c)) = Screen(cells, r2, c2)
                    /\ Reach(r2, c2) /\ c2 < VGA_WIDTH
                    /\ Shows(cells, At(r2, c2), u)
  BY <1>2, WrappedShows
<1>4. PICK v2 \in Screens : /\ Scrolled(Screen(cells, r2, c2)) = v2
                            /\ Shows(v2.cells, CursorOf(v2), u)
  BY <1>3, ScrolledShows
<1>. QED  BY <1>2, <1>3, <1>4 DEF vga_putchar, ShownOn

\* vga_write is the function that its recursion describes.
WriteFrom(v, s, n, w) ==
    w = [i \in 0 .. n |-> IF i = 0 THEN v ELSE vga_putchar(w[i - 1], s[i])]

LEMMA WriteExists ==
  ASSUME NEW v, NEW s, NEW n \in Nat
  PROVE  \E w : WriteFrom(v, s, n, w)
<1> DEFINE S == {k \in 0 .. n : \E w : WriteFrom(v, s, k, w)}
<1>1. 0 \in S
  <2> DEFINE w == [i \in 0 .. 0 |-> v]
  <2>1. w = [i \in 0 .. 0 |-> IF i = 0 THEN v ELSE vga_putchar(w[i - 1], s[i])]
    OBVIOUS
  <2> HIDE DEF w
  <2>2. WriteFrom(v, s, 0, w)
    BY <2>1 DEF WriteFrom
  <2>. QED  BY <2>2
<1>2. ASSUME NEW k \in 0 .. n, k \in S, k < n PROVE k + 1 \in S
  <2>1. PICK w : WriteFrom(v, s, k, w)
    BY <1>2
  <2> DEFINE z == [i \in 0 .. k + 1 |-> IF i = k + 1 THEN vga_putchar(w[k], s[k + 1])
                                        ELSE w[i]]
  <2>2. ASSUME NEW i \in 0 .. k + 1
        PROVE  z[i] = IF i = 0 THEN v ELSE vga_putchar(z[i - 1], s[i])
    <3>1. CASE i = k + 1
      <4>1. i # 0 /\ i - 1 = k /\ k \in 0 .. k + 1 /\ z[k] = w[k]
        BY <1>2, <3>1
      <4>2. z[i] = vga_putchar(w[k], s[k + 1])
        BY <3>1
      <4> HIDE DEF z
      <4>. QED  BY <3>1, <4>1, <4>2
    <3>2. CASE i # k + 1
      <4>1. i \in 0 .. k /\ z[i] = w[i] /\ (i # 0 => i - 1 \in 0 .. k + 1 /\ z[i - 1] = w[i - 1])
        BY <1>2, <3>2
      <4>2. w[i] = IF i = 0 THEN v ELSE vga_putchar(w[i - 1], s[i])
        BY <2>1, <4>1 DEF WriteFrom
      <4> HIDE DEF z
      <4>. QED  BY <4>1, <4>2
    <3>. QED  BY <3>1, <3>2
  <2>3. z = [i \in 0 .. k + 1 |-> z[i]]
    OBVIOUS
  <2> HIDE DEF z
  <2>4. WriteFrom(v, s, k + 1, z)
    BY <2>2, <2>3 DEF WriteFrom
  <2>. QED  BY <1>2, <2>4
<1>3. 0 .. n \subseteq S
  <2> HIDE DEF S
  <2>. QED  BY <1>1, <1>2, UpTo
<1>. QED  BY <1>3

LEMMA WriteStep ==
  ASSUME NEW S, NEW v, NEW s, NEW w,
         w = [i \in S |-> IF i = 0 THEN v ELSE vga_putchar(w[i - 1], s[i])]
  PROVE  \A i \in S : w[i] = IF i = 0 THEN v ELSE vga_putchar(w[i - 1], s[i])
BY Zenon

LEMMA WriteIs ==
  ASSUME NEW v, NEW s, Len(s) \in Nat
  PROVE  \E w : /\ vga_write(v, s) = w[Len(s)] /\ w[0] = v
                /\ \A i \in 1 .. Len(s) : w[i] = vga_putchar(w[i - 1], s[i])
<1> DEFINE n == Len(s)
           w == CHOOSE z : z = [i \in 0 .. n |-> IF i = 0 THEN v ELSE vga_putchar(z[i - 1], s[i])]
<1>1. WriteFrom(v, s, n, w)
  <2>1. \E z : WriteFrom(v, s, n, z)
    BY WriteExists
  <2>. QED  BY <2>1 DEF WriteFrom
<1>2. vga_write(v, s) = w[n]
  BY DEF vga_write
<1> HIDE DEF w
<1>3. \A i \in 0 .. n : w[i] = IF i = 0 THEN v ELSE vga_putchar(w[i - 1], s[i])
  BY <1>1, WriteStep DEF WriteFrom
<1> HIDE DEF n
<1>4. n \in Nat /\ 0 \in 0 .. n /\ \A i \in 1 .. n : i \in 0 .. n /\ i # 0
  BY DEF n
<1>5. w[0] = v /\ \A i \in 1 .. n : w[i] = vga_putchar(w[i - 1], s[i])
  BY <1>3, <1>4
<1>. QED  BY <1>2, <1>5 DEF n

\* Writing s character by character, with the text u[i] shown after i of them.
LEMMA WriteShows ==
  ASSUME NEW v, NEW s \in Seq(Printable \cup {"\n", "\t", "BS"}),
         NEW u, \A i \in 0 .. Len(s) : u[i] \in Seq(Printable),
         ShownOn(v, u[0]),
         \A i \in 1 .. Len(s) : \/ u[i] = <<>>
                                \/ s[i] \in Printable /\ u[i] = Append(u[i - 1], s[i])
  PROVE  ShownOn(vga_write(v, s), u[Len(s)])
<1> DEFINE n == Len(s)
<1>1. n \in Nat /\ \A i \in 1 .. n : s[i] \in Printable \cup {"\n", "\t", "BS"}
  OBVIOUS
<1>2. PICK w : /\ vga_write(v, s) = w[n] /\ w[0] = v
               /\ \A i \in 1 .. n : w[i] = vga_putchar(w[i - 1], s[i])
  BY <1>1, WriteIs
<1> HIDE DEF n
<1> DEFINE S == {i \in 0 .. n : ShownOn(w[i], u[i])}
<1>3. 0 \in S
  BY <1>1, <1>2
<1>4. ASSUME NEW k \in 0 .. n, k \in S, k < n PROVE k + 1 \in S
  <2>1. k + 1 \in 1 .. n /\ k + 1 \in 0 .. n /\ k + 1 - 1 = k
    BY <1>1, <1>4
  <2>2. w[k + 1] = vga_putchar(w[k], s[k + 1])
    BY <1>2, <2>1
  <2>3. ShownOn(w[k], u[k]) /\ u[k] \in Seq(Printable) /\ u[k + 1] \in Seq(Printable)
    BY <1>4, <2>1 DEF n
  <2>4. u[k + 1] = <<>> \/ (s[k + 1] \in Printable /\ u[k + 1] = Append(u[k], s[k + 1]))
    <3>1. \A i \in 1 .. n : \/ u[i] = <<>>
                            \/ s[i] \in Printable /\ u[i] = Append(u[i - 1], s[i])
      BY DEF n
    <3>. QED  BY <2>1, <3>1
  <2>5. s[k + 1] \in Printable \cup {"\n", "\t", "BS"}
    BY <1>1, <2>1
  <2>6. ShownOn(vga_putchar(w[k], s[k + 1]), u[k + 1])
    BY <2>3, <2>4, <2>5, PutcharShows
  <2>. QED  BY <2>1, <2>2, <2>6
<1>5. n \in S
  <2>1. 0 .. n \subseteq S
    <3> HIDE DEF S
    <3>. QED  BY <1>1, <1>3, <1>4, UpTo
  <2>. QED  BY <1>1, <2>1
<1>. QED  BY <1>2, <1>5 DEF n

\* On any screen with nothing behind the cursor.
LEMMA OutputShows ==
  ASSUME NEW v, ShownOn(v, <<>>), NEW s \in Seq(Printable \cup {"\n", "\t", "BS"})
  PROVE  ShownOn(vga_write(v, s), <<>>)
<1> DEFINE u == [i \in 0 .. Len(s) |-> <<>>]
<1>1. Len(s) \in Nat /\ <<>> \in Seq(Printable)
  OBVIOUS
<1>2. \A i \in 0 .. Len(s) : u[i] = <<>>
  OBVIOUS
<1>3. 0 \in 0 .. Len(s) /\ Len(s) \in 0 .. Len(s) /\ \A i \in 1 .. Len(s) : i \in 0 .. Len(s)
  BY <1>1
<1> HIDE DEF u
<1>. QED  BY <1>1, <1>2, <1>3, WriteShows

LEMMA PromptShows ==
  ASSUME NEW v, ShownOn(v, <<>>), NEW s \in Seq(Printable)
  PROVE  ShownOn(vga_write(v, s), s)
<1> DEFINE u == [i \in 0 .. Len(s) |-> SubSeq(s, 1, i)]
<1>1. /\ Len(s) \in Nat /\ s \in Seq(Printable \cup {"\n", "\t", "BS"})
      /\ \A i \in 1 .. Len(s) : s[i] \in Printable
  OBVIOUS
<1>2. 0 \in 0 .. Len(s) /\ Len(s) \in 0 .. Len(s)
      /\ \A i \in 1 .. Len(s) : i \in 0 .. Len(s) /\ i - 1 \in 0 .. Len(s)
  BY <1>1
<1>3. u[0] = <<>> /\ u[Len(s)] = s
  <2>1. SubSeq(s, 1, 0) = <<>> /\ SubSeq(s, 1, Len(s)) = s
    BY SubSeqEmpty, SubSeqFull
  <2>. QED  BY <1>2, <2>1
<1>4. ASSUME NEW i \in 0 .. Len(s) PROVE u[i] \in Seq(Printable)
  <2>1. \A j \in 1 .. i : s[j] \in Printable
    BY <1>1
  <2>2. SubSeq(s, 1, i) \in Seq(Printable)
    BY <2>1, SubSeqProperties
  <2>. QED  BY <2>2
<1>5. ASSUME NEW i \in 1 .. Len(s) PROVE u[i] = Append(u[i - 1], s[i])
  <2>1. SubSeq(s, 1, i) = SubSeq(s, 1, i - 1) \o <<s[i]>>
    <3>1. 1 \in 1 .. Len(s) /\ i \in 1 .. Len(s)
      BY <1>1
    <3>. QED  BY <3>1, SubSeqRecursiveSecond
  <2>2. u[i] = SubSeq(s, 1, i) /\ u[i - 1] = SubSeq(s, 1, i - 1)
    BY <1>2
  <2>3. u[i - 1] \in Seq(Printable) /\ s[i] \in Printable
    BY <1>1, <1>2, <1>4
  <2>. HIDE DEF u
  <2>4. Append(u[i - 1], s[i]) = u[i - 1] \o <<s[i]>>
    BY <2>3, AppendIsConcat
  <2>. QED  BY <2>1, <2>2, <2>4
<1> HIDE DEF u
<1>. QED  BY <1>1, <1>2, <1>3, <1>4, <1>5, WriteShows

LEMMA ShownLess ==
  ASSUME NEW v, NEW text, ShownOn(v, text)
  PROVE  ShownOn(v, <<>>)
<1>1. Len(<<>>) = 0 /\ 1 .. 0 = {}
  OBVIOUS
<1>2. v \in Screens /\ Shows(v.cells, CursorOf(v), text)
  BY DEF ShownOn
<1>3. Shows(v.cells, CursorOf(v), <<>>)
  BY <1>1, <1>2 DEF Shows
<1>. QED  BY <1>2, <1>3 DEF ShownOn

LEMMA ClearShows ==
  ASSUME NEW text \in Seq(Printable)
  PROVE  ShownOn(vga_clear, text)
<1> DEFINE blank == [n \in Cells |-> Blank]
<1>1. /\ vga_clear = Screen(blank, 0, 0) /\ blank \in [Cells -> Printable]
      /\ \A n \in Cells : blank[n] = Blank
  BY TerminalAssumption DEF vga_clear
<1>2. 0 \in 0 .. VGA_HEIGHT - 1 /\ 0 \in 0 .. VGA_WIDTH - 1
  BY SizesAre
<1> HIDE DEF blank
<1>3. vga_clear \in Screens /\ vga_clear.cells = blank
  BY <1>1, <1>2 DEF Screens, Screen
<1>4. CursorOf(vga_clear) = 0
  <2>1. vga_clear.row = 0 /\ vga_clear.col = 0
    BY <1>1 DEF Screen
  <2>. QED  BY <2>1, SizesAre DEF CursorOf
<1>5. \A n \in Cells : n \in Int /\ n >= 0
  BY SizesAre DEF Cells
<1>6. ASSUME NEW k \in 1 .. Len(text) PROVE 0 - Len(text) + k - 1 \notin Cells
  <2>1. 0 - Len(text) + k - 1 < 0
    OBVIOUS
  <2>. QED  BY <1>5, <2>1
<1>7. Shows(blank, 0, text)
  BY <1>1, <1>6 DEF Shows
<1>. QED  BY <1>3, <1>4, <1>7 DEF ShownOn

----------------------------------------------------------------------------
\* The words of a line: SkipBlanks, Word and Behind against the places where a
\* word starts and ends.
\* What is left of the line from place i on.
Rest(s, i) == SubSeq(s, i, Len(s))

LEMMA RestIs ==
  ASSUME NEW s \in Seq(Typed), NEW i \in 1 .. Len(s) + 1
  PROVE  /\ Len(s) \in Nat /\ i \in Int
         /\ Rest(s, i) \in Seq(Typed) /\ Len(Rest(s, i)) = Len(s) - i + 1
         /\ \A k \in 1 .. Len(s) - i + 1 : Rest(s, i)[k] = s[i + k - 1]
         /\ i = Len(s) + 1 => Rest(s, i) = <<>>
         /\ i = 1 => Rest(s, i) = s
<1> DEFINE n == Len(s)
<1>1. n \in Nat /\ i \in Int /\ 1 <= i /\ i <= n + 1 /\ \A k \in i .. n : s[k] \in Typed
  OBVIOUS
<1>2. i = 1 => Rest(s, i) = s
  BY SubSeqFull DEF Rest
<1> HIDE DEF n
<1>3. /\ SubSeq(s, i, n) \in Seq(Typed)
      /\ Len(SubSeq(s, i, n)) = IF i <= n THEN n - i + 1 ELSE 0
      /\ \A k \in 1 .. n - i + 1 : SubSeq(s, i, n)[k] = s[i + k - 1]
  BY <1>1, SubSeqProperties
<1>4. Len(SubSeq(s, i, n)) = n - i + 1
  BY <1>1, <1>3
<1>5. i = n + 1 => SubSeq(s, i, n) = <<>>
  BY <1>1, SubSeqEmpty
<1>. QED  BY <1>1, <1>2, <1>3, <1>4, <1>5 DEF n, Rest

LEMMA RestOfRest ==
  ASSUME NEW s \in Seq(Typed), NEW i \in 1 .. Len(s) + 1,
         NEW m \in 1 .. Len(s) - i + 2
  PROVE  SubSeq(Rest(s, i), m, Len(Rest(s, i))) = Rest(s, i + m - 1)
<1> DEFINE n == Len(s)
<1>1. n \in Nat /\ i \in Int /\ m \in Int /\ 1 <= i /\ i <= n + 1 /\ 1 <= m /\ m <= n - i + 2
  OBVIOUS
<1>2. Len(Rest(s, i)) = n - i + 1
  BY RestIs
<1>3. CASE m = n - i + 2
  <2>1. SubSeq(Rest(s, i), m, n - i + 1) = <<>>
    BY <1>1, <1>3, SubSeqEmpty
  <2>2. i + m - 1 = n + 1
    BY <1>1, <1>3
  <2>3. SubSeq(s, i + m - 1, n) = <<>>
    BY <1>1, <2>2, SubSeqEmpty
  <2>. QED  BY <1>2, <2>1, <2>3 DEF Rest
<1>4. CASE m # n - i + 2
  <2> HIDE DEF n
  <2>1. i \in 1 .. n /\ n \in 1 .. n /\ m \in 1 .. n - i + 1 /\ n - i + 1 \in 1 .. n - i + 1
        /\ i + (n - i + 1) - 1 = n
    BY <1>1, <1>4
  <2>2. SubSeq(SubSeq(s, i, n), m, n - i + 1) = SubSeq(s, i + m - 1, i + (n - i + 1) - 1)
    BY <2>1, SubSeqOfSubSeq DEF n
  <2>. QED  BY <1>2, <2>1, <2>2 DEF Rest, n
<1>. QED  BY <1>3, <1>4

\* The first character that is (not) a blank, if there is one.
LEMMA NextBlankIs ==
  ASSUME NEW s \in Seq(Typed)
  PROVE  /\ Blanks(s) = {} => \A k \in 1 .. Len(s) : s[k] # Blank
         /\ Blanks(s) # {} => /\ Min(Blanks(s)) \in 1 .. Len(s) /\ s[Min(Blanks(s))] = Blank
                              /\ \A k \in 1 .. Min(Blanks(s)) - 1 : s[k] # Blank
<1> DEFINE l == Len(s)
           n == Min(Blanks(s))
<1>1. l \in Nat /\ Blanks(s) = {k \in 1 .. l : s[k] = Blank}
  BY DEF Blanks
<1> HIDE DEF l, n
<1>2. ASSUME Blanks(s) # {} PROVE n \in Blanks(s) /\ \A k \in Blanks(s) : n <= k
  <2>1. Blanks(s) \in SUBSET Nat
    BY <1>1
  <2>. QED  BY <1>2, <2>1, LeastElement DEF n
<1>3. ASSUME Blanks(s) # {}, NEW k \in 1 .. n - 1 PROVE s[k] # Blank
  <2>1. n \in 1 .. l
    BY <1>1, <1>2, <1>3
  <2>2. k \in 1 .. l /\ ~ (n <= k)
    BY <1>1, <2>1
  <2>. QED  BY <1>1, <1>2, <1>3, <2>2
<1>. QED  BY <1>1, <1>2, <1>3 DEF l, n

LEMMA NextOtherIs ==
  ASSUME NEW s \in Seq(Typed)
  PROVE  /\ NonBlanks(s) = {} => \A k \in 1 .. Len(s) : s[k] = Blank
         /\ NonBlanks(s) # {} => /\ Min(NonBlanks(s)) \in 1 .. Len(s)
                                 /\ s[Min(NonBlanks(s))] # Blank
                                 /\ \A k \in 1 .. Min(NonBlanks(s)) - 1 : s[k] = Blank
<1> DEFINE l == Len(s)
           n == Min(NonBlanks(s))
<1>1. l \in Nat /\ NonBlanks(s) = {k \in 1 .. l : s[k] # Blank}
  BY DEF NonBlanks, Blanks
<1> HIDE DEF l, n
<1>2. ASSUME NonBlanks(s) # {} PROVE n \in NonBlanks(s) /\ \A k \in NonBlanks(s) : n <= k
  <2>1. NonBlanks(s) \in SUBSET Nat
    BY <1>1
  <2>. QED  BY <1>2, <2>1, LeastElement DEF n
<1>3. ASSUME NonBlanks(s) # {}, NEW k \in 1 .. n - 1 PROVE s[k] = Blank
  <2>1. n \in 1 .. l
    BY <1>1, <1>2, <1>3
  <2>2. k \in 1 .. l /\ ~ (n <= k)
    BY <1>1, <2>1
  <2>. QED  BY <1>1, <1>2, <1>3, <2>2
<1>. QED  BY <1>1, <1>2, <1>3 DEF l, n

\* Blanks are skipped up to the next other character.
LEMMA SkipIs ==
  ASSUME NEW s \in Seq(Typed), NEW i \in 1 .. Len(s) + 1
  PROVE  \E j \in i .. Len(s) + 1 :
            /\ SkipBlanks(Rest(s, i)) = Rest(s, j)
            /\ \A k \in i .. j - 1 : s[k] = Blank
            /\ j <= Len(s) => s[j] # Blank
<1> DEFINE l == Len(s)
           q == Rest(s, i)
           n == IF NonBlanks(q) = {} THEN 0 ELSE Min(NonBlanks(q))
<1>1. /\ l \in Nat /\ i \in Int /\ 1 <= i /\ i <= l + 1
      /\ q \in Seq(Typed) /\ Len(q) = l - i + 1
      /\ \A k \in 1 .. l - i + 1 : q[k] = s[i + k - 1]
  BY RestIs
<1>2. /\ n \in 0 .. Len(q)
      /\ n = 0 => \A k \in 1 .. Len(q) : q[k] = Blank
      /\ n # 0 => q[n] # Blank /\ \A k \in 1 .. n - 1 : q[k] = Blank
  <2>2. 0 \in 0 .. Len(q) /\ \A m \in 1 .. Len(q) : m \in 0 .. Len(q) /\ m # 0
    BY <1>1
  <2>. QED  BY <1>1, <2>2, NextOtherIs
<1>3. SkipBlanks(q) = IF n = 0 THEN <<>> ELSE SubSeq(q, n, Len(q))
  <2>1. NonBlanks(q) # {} => n # 0
    BY <1>1, NextOtherIs
  <2>. QED  BY <2>1 DEF SkipBlanks
<1>4. \A m \in 1 .. l - i + 2 : SubSeq(q, m, Len(q)) = Rest(s, i + m - 1)
  BY RestOfRest
<1>5. Rest(s, l + 1) = <<>>
  BY <1>1, SubSeqEmpty DEF Rest
<1> HIDE DEF l, q, n
<1>6. CASE n = 0
  <2>1. \A k \in i .. l : s[k] = Blank
    <3>. SUFFICES ASSUME NEW k \in i .. l PROVE s[k] = Blank
      OBVIOUS
    <3>1. k - i + 1 \in 1 .. l - i + 1 /\ i + (k - i + 1) - 1 = k
      BY <1>1
    <3>2. q[k - i + 1] = Blank /\ q[k - i + 1] = s[i + (k - i + 1) - 1]
      BY <1>1, <1>2, <1>6, <3>1
    <3>. QED  BY <3>1, <3>2
  <2>2. l + 1 \in i .. l + 1 /\ l + 1 - 1 = l /\ ~ (l + 1 <= l)
    BY <1>1
  <2>. QED  BY <1>3, <1>5, <1>6, <2>1, <2>2 DEF l, q
<1>7. CASE n # 0
  <2> DEFINE j == i + n - 1
  <2>1. n \in 1 .. l - i + 1 /\ n \in 1 .. l - i + 2 /\ j \in i .. l + 1
    BY <1>1, <1>2, <1>7
  <2>2. SkipBlanks(q) = Rest(s, j)
    BY <1>3, <1>4, <1>7, <2>1
  <2>3. s[j] # Blank
    BY <1>1, <1>2, <1>7, <2>1
  <2>4. \A k \in i .. j - 1 : s[k] = Blank
    <3>. SUFFICES ASSUME NEW k \in i .. j - 1 PROVE s[k] = Blank
      OBVIOUS
    <3>1. k - i + 1 \in 1 .. l - i + 1 /\ k - i + 1 \in 1 .. n - 1 /\ i + (k - i + 1) - 1 = k
      BY <1>1, <2>1
    <3>2. q[k - i + 1] = Blank /\ q[k - i + 1] = s[i + (k - i + 1) - 1]
      BY <1>1, <1>2, <1>7, <3>1
    <3>. QED  BY <3>1, <3>2
  <2> HIDE DEF j
  <2>. QED  BY <2>1, <2>2, <2>3, <2>4 DEF l, q
<1>. QED  BY <1>6, <1>7

\* A word goes up to the next blank, and what is behind it begins after that.
LEMMA CutIs ==
  ASSUME NEW s \in Seq(Typed), NEW i \in 1 .. Len(s) + 1,
         i <= Len(s) => s[i] # Blank
  PROVE  \E e \in i - 1 .. Len(s), b \in i .. Len(s) + 1 :
            /\ Word(Rest(s, i)) = SubSeq(s, i, e) /\ Behind(Rest(s, i)) = Rest(s, b)
            /\ \A k \in i .. e : s[k] # Blank
            /\ i <= Len(s) => i <= e
            /\ IF e = Len(s) THEN b = Len(s) + 1 ELSE b = e + 2 /\ s[e + 1] = Blank
<1> DEFINE l == Len(s)
           q == Rest(s, i)
           n == IF Blanks(q) = {} THEN 0 ELSE Min(Blanks(q))
<1>1. /\ l \in Nat /\ i \in Int /\ 1 <= i /\ i <= l + 1
      /\ q \in Seq(Typed) /\ Len(q) = l - i + 1
      /\ \A k \in 1 .. l - i + 1 : q[k] = s[i + k - 1]
  BY RestIs
<1>2. /\ n \in 0 .. Len(q)
      /\ n = 0 => \A k \in 1 .. Len(q) : q[k] # Blank
      /\ n # 0 => q[n] = Blank /\ \A k \in 1 .. n - 1 : q[k] # Blank
  <2>2. 0 \in 0 .. Len(q) /\ \A m \in 1 .. Len(q) : m \in 0 .. Len(q) /\ m # 0
    BY <1>1
  <2>. QED  BY <1>1, <2>2, NextBlankIs
<1>3. /\ Word(q) = IF n = 0 THEN q ELSE SubSeq(q, 1, n - 1)
      /\ Behind(q) = IF n = 0 THEN <<>> ELSE SubSeq(q, n + 1, Len(q))
  <2>1. Blanks(q) # {} => n # 0
    BY <1>1, NextBlankIs
  <2>. QED  BY <2>1 DEF Word, Behind
<1>4. \A m \in 1 .. l - i + 2 : SubSeq(q, m, Len(q)) = Rest(s, i + m - 1)
  BY RestOfRest
<1>5. Rest(s, l + 1) = <<>> /\ q = SubSeq(s, i, l)
  BY <1>1, SubSeqEmpty DEF Rest
<1>6. ASSUME n # 0 PROVE SubSeq(q, 1, n - 1) = SubSeq(s, i, i + n - 2)
  <2>1. n > 1
    <3>1. ASSUME n = 1 PROVE FALSE
      <4>1. q[1] = Blank /\ 1 \in 1 .. l - i + 1 /\ i <= l
        BY <1>1, <1>2, <3>1
      <4>2. q[1] = s[i + 1 - 1] /\ i + 1 - 1 = i
        <5>. HIDE DEF q, n, l
        <5>. QED  BY <1>1, <4>1
      <4>. QED  BY <4>1, <4>2
    <3>2. n \in Int /\ n >= 0
      BY <1>1, <1>2
    <3>. QED  BY <1>6, <3>1, <3>2
  <2>. HIDE DEF q, n
  <2>2. i \in 1 .. l /\ l \in 1 .. l /\ 1 \in 1 .. l - i + 1 /\ n - 1 \in 1 .. l - i + 1
        /\ i + 1 - 1 = i /\ i + (n - 1) - 1 = i + n - 2
    <3>. HIDE DEF l
    <3>. QED  BY <1>1, <1>2, <2>1
  <2>3. SubSeq(SubSeq(s, i, l), 1, n - 1) = SubSeq(s, i + 1 - 1, i + (n - 1) - 1)
    BY <2>2, SubSeqOfSubSeq
  <2>. QED  BY <1>5, <2>2, <2>3
<1> HIDE DEF l, q, n
<1>7. CASE n = 0
  <2>1. \A k \in i .. l : s[k] # Blank
    <3>. SUFFICES ASSUME NEW k \in i .. l PROVE s[k] # Blank
      OBVIOUS
    <3>1. k - i + 1 \in 1 .. l - i + 1 /\ i + (k - i + 1) - 1 = k
      BY <1>1
    <3>2. q[k - i + 1] # Blank /\ q[k - i + 1] = s[i + (k - i + 1) - 1]
      BY <1>1, <1>2, <1>7, <3>1
    <3>. QED  BY <3>1, <3>2
  <2>2. l + 1 \in i .. l + 1 /\ l \in i - 1 .. l
    BY <1>1
  <2>3. Word(q) = SubSeq(s, i, l) /\ Behind(q) = Rest(s, l + 1)
    BY <1>3, <1>5, <1>7
  <2>. QED  BY <2>1, <2>2, <2>3 DEF l, q
<1>8. CASE n # 0
  <2> DEFINE e == i + n - 2
             b == i + n
  <2>1. n + 1 \in 1 .. l - i + 2 /\ e \in i - 1 .. l /\ b \in i .. l + 1 /\ e # l /\ b = e + 2
        /\ i + (n + 1) - 1 = b /\ n \in 1 .. l - i + 1 /\ e + 1 = i + n - 1
    BY <1>1, <1>2, <1>8
  <2>2. Word(q) = SubSeq(s, i, e) /\ Behind(q) = Rest(s, b)
    BY <1>3, <1>4, <1>6, <1>8, <2>1
  <2>3. s[e + 1] = Blank /\ q[n] = s[i + n - 1]
    BY <1>1, <1>2, <1>8, <2>1
  <2>4. \A k \in i .. e : s[k] # Blank
    <3>. SUFFICES ASSUME NEW k \in i .. e PROVE s[k] # Blank
      OBVIOUS
    <3>1. k - i + 1 \in 1 .. l - i + 1 /\ k - i + 1 \in 1 .. n - 1 /\ i + (k - i + 1) - 1 = k
      BY <1>1, <2>1
    <3>2. q[k - i + 1] # Blank /\ q[k - i + 1] = s[i + (k - i + 1) - 1]
      BY <1>1, <1>2, <1>8, <3>1
    <3>. QED  BY <3>1, <3>2
  <2>5. i <= l => i <= e
    <3>1. ASSUME i <= l, ~ (i <= e) PROVE FALSE
      <4>1. e + 1 = i
        BY <1>1, <1>2, <1>8, <2>1, <3>1
      <4>. QED  BY <2>3, <3>1, <4>1 DEF l
    <3>. QED  BY <3>1
  <2> HIDE DEF e, b
  <2>. QED  BY <2>1, <2>2, <2>3, <2>4, <2>5 DEF l, q
<1>. QED  BY <1>7, <1>8
\* After the word at j the next one begins at the next character that is no
\* blank; no word begins between them.
LEMMA WordIs ==
  ASSUME NEW s \in Seq(Typed), NEW j \in 1 .. Len(s) + 1,
         j <= Len(s) => j \in WordStarts(s)
  PROVE  \E k \in j .. Len(s) + 1 :
            /\ SkipBlanks(Behind(Rest(s, j))) = Rest(s, k)
            /\ j <= Len(s) => Word(Rest(s, j)) = WordAt(s, j)
            /\ j > Len(s) => Word(Rest(s, j)) = <<>>
            /\ k <= Len(s) => k \in WordStarts(s) /\ k > j
            /\ \A n \in WordStarts(s) : n > j => n >= k
            /\ Word(Rest(s, j)) \in Seq(Typed)
<1> DEFINE l == Len(s)
<1>0. l \in Nat /\ j \in Int /\ 1 <= j /\ j <= l + 1
  OBVIOUS
<1>1. WordStarts(s) = {n \in 1 .. l : s[n] # Blank /\ (n = 1 \/ s[n - 1] = Blank)}
  BY DEF WordStarts
<1>2. j <= l => s[j] # Blank
  BY <1>1
<1>3. PICK e \in j - 1 .. l, b \in j .. l + 1 :
            /\ Word(Rest(s, j)) = SubSeq(s, j, e) /\ Behind(Rest(s, j)) = Rest(s, b)
            /\ \A k \in j .. e : s[k] # Blank
            /\ j <= l => j <= e
            /\ IF e = l THEN b = l + 1 ELSE b = e + 2 /\ s[e + 1] = Blank
  BY <1>2, CutIs
<1>4. PICK k \in b .. l + 1 : /\ SkipBlanks(Rest(s, b)) = Rest(s, k)
                              /\ \A n \in b .. k - 1 : s[n] = Blank
                              /\ k <= l => s[k] # Blank
  <2>1. b \in 1 .. l + 1
    BY <1>0
  <2>. QED  BY <2>1, SkipIs
<1>5. \A n \in j .. e : s[n] \in Typed
  BY <1>0
<1>6. Word(Rest(s, j)) \in Seq(Typed)
  BY <1>0, <1>3, <1>5, SubSeqProperties
<1> HIDE DEF l
<1>7. k \in j .. l + 1
  BY <1>0, <1>3, <1>4
<1>8. ASSUME j <= l PROVE Word(Rest(s, j)) = WordAt(s, j)
  <2> DEFINE P(x) == /\ x = l \/ s[x + 1] = Blank
                     /\ \A m \in j .. x : s[m] # Blank
  <2>1. e \in j .. l /\ P(e)
    BY <1>0, <1>3, <1>8
  <2>2. ASSUME NEW x \in j .. l, P(x) PROVE x = e
    <3>1. CASE x < e
      <4>1. x + 1 \in j .. e /\ x # l
        BY <1>0, <1>3, <3>1
      <4>. QED  BY <1>3, <2>2, <4>1
    <3>2. CASE e < x
      <4>1. e + 1 \in j .. x /\ e # l
        BY <1>0, <1>3, <1>8, <3>2
      <4>. QED  BY <1>3, <2>2, <4>1
    <3>. QED  BY <1>0, <1>3, <3>1, <3>2
  <2>3. (CHOOSE x \in j .. l : P(x)) = e
    <3> HIDE DEF P
    <3>. QED  BY <2>1, <2>2
  <2>4. WordAt(s, j) = SubSeq(s, j, CHOOSE x \in j .. l : P(x))
    BY DEF WordAt, l
  <2> HIDE DEF P
  <2>. QED  BY <1>3, <2>3, <2>4
<1>9. ASSUME j > l PROVE Word(Rest(s, j)) = <<>>
  <2>1. e \in Int /\ e < j
    BY <1>0, <1>3, <1>9
  <2>. QED  BY <1>0, <1>3, <2>1, SubSeqEmpty
<1>10. ASSUME k <= l PROVE k \in WordStarts(s) /\ k > j
  <2>1. e # l /\ b = e + 2 /\ s[e + 1] = Blank /\ k \in 1 .. l /\ k > j /\ k \in Int
        /\ (k = b \/ k - 1 \in b .. k - 1) /\ (k = b => k - 1 = e + 1)
    BY <1>0, <1>3, <1>4, <1>10
  <2>2. s[k - 1] = Blank
    BY <1>4, <2>1
  <2>. QED  BY <1>1, <1>4, <1>10, <2>1, <2>2
<1>11. ASSUME NEW n \in WordStarts(s), n > j, ~ (n >= k) PROVE FALSE
  <2>1. n \in 1 .. l /\ s[n] # Blank /\ (n = 1 \/ s[n - 1] = Blank)
    BY <1>1
  <2>2. n # 1 /\ s[n - 1] = Blank /\ n - 1 >= j
    BY <1>0, <1>11, <2>1
  <2>3. ~ (n - 1 <= e)
    <3>1. ASSUME n - 1 <= e PROVE FALSE
      <4>1. n - 1 \in j .. e
        BY <1>0, <1>3, <2>1, <2>2, <3>1
      <4>. QED  BY <1>3, <2>2, <4>1
    <3>. QED  BY <3>1
  <2>4. n \notin b .. k - 1
    BY <1>4, <2>1
  <2>5. e # l /\ b = e + 2
    BY <1>0, <1>3, <2>1, <2>3
  <2>. QED  BY <1>0, <1>3, <1>4, <1>11, <2>1, <2>3, <2>4, <2>5
<1>. QED  BY <1>3, <1>4, <1>6, <1>7, <1>8, <1>9, <1>10, <1>11 DEF l

LEMMA LeastIs ==
  ASSUME NEW S \in SUBSET Nat, NEW l \in Nat, \A n \in S : n <= l,
         NEW j \in Nat, j <= l => j \in S, \A n \in S : n >= j
  PROVE  Least(S) = IF j <= l THEN {j} ELSE {}
<1>1. CASE j <= l
  <2>1. j \in Least(S) /\ \A n \in Least(S) : n <= j /\ n >= j /\ n \in Nat
    BY <1>1 DEF Least
  <2>2. \A n \in Least(S) : n = j
    BY <2>1
  <2>3. Least(S) = {j}
    BY <2>1, <2>2
  <2>. QED  BY <1>1, <2>3
<1>2. CASE ~ (j <= l)
  <2>1. S = {}
    <3>1. ASSUME NEW n \in S PROVE FALSE
      <4>1. n \in Nat /\ n <= l /\ n >= j
        OBVIOUS
      <4>. QED  BY <1>2, <4>1
    <3>. QED  BY <3>1
  <2>2. Least(S) = {}
    BY <2>1 DEF Least
  <2>. QED  BY <1>2, <2>2
<1>. QED  BY <1>1, <1>2

\* The places of the three parts, and that the parser takes them.
LEMMA ParseIs ==
  ASSUME NEW s \in Seq(Typed)
  PROVE  /\ \A n \in First(s) : shell_parse(s).cmd = WordAt(s, n)
         /\ \A n \in Second(s) : shell_parse(s).arg1 = WordAt(s, n)
         /\ \A n \in Third(s) : shell_parse(s).arg2 = Rest(s, n)
         /\ First(s) = {} => shell_parse(s).cmd = <<>>
         /\ Second(s) = {} => shell_parse(s).arg1 = <<>>
         /\ Third(s) = {} => shell_parse(s).arg2 = <<>>
         /\ shell_parse(s) \in [cmd : Seq(Typed), arg1 : Seq(Typed), arg2 : Seq(Typed)]
<1> DEFINE l == Len(s)
           A == WordStarts(s)
<1>0. l \in Nat /\ A \in SUBSET Nat /\ \A n \in A : n <= l /\ n >= 1
  BY DEF WordStarts
<1>1. A = {n \in 1 .. l : s[n] # Blank /\ (n = 1 \/ s[n - 1] = Blank)}
  BY DEF WordStarts
<1>2. PICK j1 \in 1 .. l + 1 : /\ SkipBlanks(s) = Rest(s, j1)
                               /\ \A n \in 1 .. j1 - 1 : s[n] = Blank
                               /\ j1 <= l => s[j1] # Blank
  <2>1. 1 \in 1 .. Len(s) + 1 /\ Rest(s, 1) = s
    BY <1>0, RestIs
  <2>. QED  BY <2>1, SkipIs
<1>3. PICK j2 \in j1 .. l + 1 :
            /\ SkipBlanks(Behind(Rest(s, j1))) = Rest(s, j2)
            /\ j1 <= l => Word(Rest(s, j1)) = WordAt(s, j1)
            /\ j1 > l => Word(Rest(s, j1)) = <<>>
            /\ j2 <= l => j2 \in A /\ j2 > j1
            /\ \A n \in A : n > j1 => n >= j2
            /\ Word(Rest(s, j1)) \in Seq(Typed)
  <2>1. j1 <= l => j1 \in A
    <3>1. ASSUME j1 <= l PROVE j1 = 1 \/ j1 - 1 \in 1 .. j1 - 1
      BY <1>2
    <3>2. j1 <= l => j1 \in 1 .. l
      BY <1>0, <1>2
    <3> HIDE DEF l, A
    <3>. QED  BY <1>1, <1>2, <3>1, <3>2
  <2>. QED  BY <2>1, WordIs
<1>4. PICK j3 \in j2 .. l + 1 :
            /\ SkipBlanks(Behind(Rest(s, j2))) = Rest(s, j3)
            /\ j2 <= l => Word(Rest(s, j2)) = WordAt(s, j2)
            /\ j2 > l => Word(Rest(s, j2)) = <<>>
            /\ j3 <= l => j3 \in A /\ j3 > j2
            /\ \A n \in A : n > j2 => n >= j3
            /\ Word(Rest(s, j2)) \in Seq(Typed)
  <2>1. j2 \in 1 .. l + 1
    BY <1>0, <1>2, <1>3
  <2>. QED  BY <1>3, <2>1, WordIs
<1>5. /\ shell_parse(s).cmd = Word(Rest(s, j1))
      /\ shell_parse(s).arg1 = Word(Rest(s, j2))
      /\ shell_parse(s).arg2 = Rest(s, j3)
      /\ shell_parse(s) = [cmd |-> Word(Rest(s, j1)), arg1 |-> Word(Rest(s, j2)), arg2 |-> Rest(s, j3)]
  BY <1>2, <1>3, <1>4 DEF shell_parse
<1>6. Rest(s, j3) \in Seq(Typed) /\ (j3 = l + 1 => Rest(s, j3) = <<>>)
  <2>1. j3 \in 1 .. l + 1
    BY <1>0, <1>2, <1>3, <1>4
  <2>. QED  BY <2>1, RestIs
<1> HIDE DEF l, A
<1>7. /\ j1 \in Nat /\ j2 \in Nat /\ j3 \in Nat /\ 1 <= j1 /\ j1 <= j2 /\ j2 <= j3
      /\ j3 <= l + 1
  BY <1>0, <1>2, <1>3, <1>4
<1>8. First(s) = IF j1 <= l THEN {j1} ELSE {}
  <2>1. \A n \in A : n >= j1
    <3>. SUFFICES ASSUME NEW n \in A, ~ (n >= j1) PROVE FALSE
      OBVIOUS
    <3>1. n \in 1 .. j1 - 1 /\ s[n] # Blank
      BY <1>0, <1>1, <1>7
    <3>. QED  BY <1>2, <3>1
  <2>2. j1 <= l => j1 \in A
    <3>1. ASSUME j1 <= l PROVE j1 = 1 \/ j1 - 1 \in 1 .. j1 - 1
      BY <1>7
    <3>2. j1 <= l => j1 \in 1 .. l
      BY <1>0, <1>7
    <3>. QED  BY <1>1, <1>2, <3>1, <3>2
  <2>. QED  BY <1>0, <1>7, <2>1, <2>2, LeastIs DEF First, A
<1>9. Second(s) = IF j2 <= l THEN {j2} ELSE {}
  <2> DEFINE S == A \ First(s)
  <2>1. S \in SUBSET Nat /\ \A n \in S : n <= l
    BY <1>0
  <2>2. j2 <= l => j2 \in S
    BY <1>3, <1>7, <1>8
  <2>3. ASSUME NEW n \in S PROVE n >= j2
    <3>1. n \in A /\ n >= 1 /\ n <= l /\ n \in Nat
      BY <1>0
    <3>2. j1 <= l
      <4>1. First(s) = {} => A = {}
        <5>1. First(s) = {} => ~ (j1 <= l)
          BY <1>8
        <5>2. n \in 1 .. j1 - 1 => s[n] = Blank
          BY <1>2
        <5>3. s[n] # Blank
          BY <1>1, <3>1
        <5>4. ~ (j1 <= l) => n \in 1 .. j1 - 1
          BY <1>0, <1>7, <3>1
        <5>. QED  BY <5>1, <5>2, <5>3, <5>4
      <4>. QED  BY <1>8, <3>1, <4>1
    <3>3. n # j1
      BY <1>8, <3>2
    <3>4. n >= j1
      <4>1. s[n] # Blank
        BY <1>1, <3>1
      <4>2. ~ (n >= j1) => n \in 1 .. j1 - 1
        BY <1>7, <3>1
      <4>. QED  BY <1>2, <4>1, <4>2
    <3>. QED  BY <1>3, <1>7, <3>1, <3>3, <3>4
  <2> HIDE DEF S
  <2>4. Least(S) = IF j2 <= l THEN {j2} ELSE {}
    BY <1>0, <1>7, <2>1, <2>2, <2>3, LeastIs
  <2>. QED  BY <2>4 DEF Second, A, S
<1>10. Third(s) = IF j3 <= l THEN {j3} ELSE {}
  <2> DEFINE S == A \ (First(s) \cup Second(s))
  <2>1. S \in SUBSET Nat /\ \A n \in S : n <= l
    BY <1>0
  <2>2. j3 <= l => j3 \in S
    BY <1>3, <1>4, <1>7, <1>8, <1>9
  <2>3. ASSUME NEW n \in S PROVE n >= j3
    <3>1. n \in A /\ n >= 1 /\ n <= l /\ n \in Nat /\ n \notin First(s) /\ n \notin Second(s)
      BY <1>0
    <3>2. n >= j1
      <4>1. s[n] # Blank
        BY <1>1, <3>1
      <4>2. ~ (n >= j1) => n \in 1 .. j1 - 1
        BY <1>7, <3>1
      <4>. QED  BY <1>2, <4>1, <4>2
    <3>3. n > j1
      BY <1>0, <1>7, <1>8, <3>1, <3>2
    <3>4. n >= j2
      BY <1>3, <3>1, <3>3
    <3>5. n > j2
      BY <1>0, <1>7, <1>9, <3>1, <3>4
    <3>. QED  BY <1>4, <3>1, <3>5
  <2> HIDE DEF S
  <2>4. Least(S) = IF j3 <= l THEN {j3} ELSE {}
    BY <1>0, <1>7, <2>1, <2>2, <2>3, LeastIs
  <2>. QED  BY <2>4 DEF Third, A, S
<1>11. /\ j1 <= l \/ j1 > l
       /\ j2 <= l \/ j2 > l
       /\ j3 <= l \/ j3 = l + 1
  BY <1>0, <1>7
<1>12. shell_parse(s) \in [cmd : Seq(Typed), arg1 : Seq(Typed), arg2 : Seq(Typed)]
  BY <1>3, <1>4, <1>5, <1>6
<1>. QED  BY <1>3, <1>4, <1>5, <1>6, <1>8, <1>9, <1>10, <1>11, <1>12

----------------------------------------------------------------------------
(***************************************************************************)
(* The invariant of the terminal.  A cleared screen shows every text, none *)
(* of which is on it, so the text before the cursor is the prompt and the  *)
(* line also before the shell has started.                                 *)
(***************************************************************************)
TermInv ==
    /\ ShownOn(vga, <<>>)
    /\ cmd_buf \in Seq(Typed) /\ Len(cmd_buf) <= CmdMax
    /\ strayed \in BOOLEAN
    /\ words = NoWords /\ ~strayed => ShownOn(vga, Prompt \o cmd_buf)
    /\ words # NoWords => words = shell_parse(cmd_buf)

TermStage == stage \in {"clock", "disks"} => cmd_buf = <<>> /\ words = NoWords

LEMMA TypedPrintable ==
  /\ Typed \subseteq Printable /\ Prompt \in Seq(Printable)
  /\ \A s \in Seq(Typed) : s \in Seq(Printable) /\ Prompt \o s \in Seq(Printable)
<1>1. Typed \subseteq Printable /\ Prompt \in Seq(Printable)
  BY TerminalAssumption, PrintAssumption
<1>2. ASSUME NEW s \in Seq(Typed) PROVE s \in Seq(Printable)
  <2>1. Len(s) \in Nat /\ s \in [1 .. Len(s) -> Typed]
    OBVIOUS
  <2>2. s \in [1 .. Len(s) -> Printable]
    BY <1>1, <2>1
  <2>. QED  BY <2>1, <2>2, SeqDef
<1>3. \A s \in Seq(Printable) : Prompt \o s \in Seq(Printable)
  BY <1>1
<1>. QED  BY <1>1, <1>2, <1>3

LEMMA FrontIs ==
  ASSUME NEW S, NEW s \in Seq(S), s # <<>>
  PROVE  /\ Front(s) \in Seq(S) /\ Len(s) \in Nat /\ Len(s) > 0
         /\ Len(Front(s)) = Len(s) - 1
         /\ \A i \in 1 .. Len(s) - 1 : Front(s)[i] = s[i]
<1> DEFINE n == Len(s)
<1>1. n \in Nat /\ n > 0 /\ \A i \in 1 .. n : s[i] \in S
  OBVIOUS
<1>2. Front(s) = SubSeq(s, 1, n - 1)
  BY DEF Front
<1> HIDE DEF n
<1>3. /\ n - 1 \in Int /\ (\A i \in 1 .. n - 1 : s[i] \in S)
      /\ n - 1 = IF 1 <= n - 1 THEN n - 1 - 1 + 1 ELSE 0
      /\ \A i \in 1 .. n - 1 : i \in 1 .. n - 1 - 1 + 1 /\ 1 + i - 1 = i
  BY <1>1
<1>4. /\ SubSeq(s, 1, n - 1) \in Seq(S)
      /\ Len(SubSeq(s, 1, n - 1)) = IF 1 <= n - 1 THEN n - 1 - 1 + 1 ELSE 0
      /\ \A i \in 1 .. n - 1 - 1 + 1 : SubSeq(s, 1, n - 1)[i] = s[1 + i - 1]
  BY <1>3, SubSeqProperties
<1>5. \A i \in 1 .. n - 1 : SubSeq(s, 1, n - 1)[i] = s[i]
  BY <1>3, <1>4
<1>6. Len(SubSeq(s, 1, n - 1)) = n - 1
  BY <1>3, <1>4
<1>. QED  BY <1>1, <1>2, <1>4, <1>5, <1>6 DEF n

LEMMA FrontOfConcat ==
  ASSUME NEW S, NEW a \in Seq(S), NEW b \in Seq(S), b # <<>>
  PROVE  a \o b # <<>> /\ Front(a \o b) = a \o Front(b)
<1> DEFINE p == Len(a)
           n == Len(b)
           whole == a \o b
           less == a \o Front(b)
<1>1. /\ Front(b) \in Seq(S) /\ n \in Nat /\ n > 0 /\ p \in Nat /\ Len(Front(b)) = n - 1
      /\ \A i \in 1 .. n - 1 : Front(b)[i] = b[i]
  BY FrontIs
<1>2. /\ whole \in Seq(S) /\ Len(whole) = p + n
      /\ \A i \in 1 .. p + n : whole[i] = IF i <= p THEN a[i] ELSE b[i - p]
  BY ConcatProperties
<1>3. /\ less \in Seq(S) /\ Len(less) = p + (n - 1)
      /\ \A i \in 1 .. p + (n - 1) : less[i] = IF i <= p THEN a[i] ELSE Front(b)[i - p]
  <2>1. /\ less \in Seq(S) /\ Len(less) = Len(a) + Len(Front(b))
        /\ \A i \in 1 .. Len(a) + Len(Front(b)) :
              less[i] = IF i <= Len(a) THEN a[i] ELSE Front(b)[i - Len(a)]
    BY <1>1, ConcatProperties
  <2>. QED  BY <1>1, <2>1
<1> HIDE DEF p, n, whole, less
<1>4. whole # <<>>
  <2>1. Len(whole) # 0
    BY <1>1, <1>2
  <2>. QED  BY <2>1, EmptySeq
<1>5. /\ Front(whole) \in Seq(S) /\ Len(Front(whole)) = p + n - 1
      /\ \A i \in 1 .. p + n - 1 : Front(whole)[i] = whole[i]
  <2>1. /\ Front(whole) \in Seq(S) /\ Len(Front(whole)) = Len(whole) - 1
        /\ \A i \in 1 .. Len(whole) - 1 : Front(whole)[i] = whole[i]
    BY <1>2, <1>4, FrontIs
  <2>2. Len(whole) - 1 = p + n - 1
    BY <1>1, <1>2
  <2>. QED  BY <2>1, <2>2, Zenon
<1>6. p + n - 1 = p + (n - 1)
  BY <1>1
<1>7. ASSUME NEW i \in 1 .. p + n - 1 PROVE Front(whole)[i] = less[i]
  <2>1. /\ i \in 1 .. p + n /\ i \in 1 .. p + (n - 1) /\ (~ (i <= p) => i - p \in 1 .. n - 1)
    BY <1>1
  <2>. QED  BY <1>1, <1>2, <1>3, <1>5, <2>1
<1>8. Front(whole) = less
  BY <1>3, <1>5, <1>6, <1>7, SeqEqual
<1>. QED  BY <1>4, <1>8 DEF whole, less

LEMMA InitTerm == Init => TermInv /\ TermStage
<1>. SUFFICES ASSUME Init PROVE TermInv /\ TermStage
  OBVIOUS
<1>1. /\ vga = vga_clear /\ cmd_buf = <<>> /\ words = NoWords /\ strayed = FALSE
  BY DEF Init, term_init_state
<1>2. <<>> \in Seq(Typed) /\ <<>> \in Seq(Printable) /\ Len(<<>>) = 0
  OBVIOUS
<1>3. Prompt \o <<>> \in Seq(Printable)
  BY <1>2, TypedPrintable
<1>4. ShownOn(vga_clear, <<>>) /\ ShownOn(vga_clear, Prompt \o <<>>)
  BY <1>2, <1>3, ClearShows
<1>5. 0 <= CmdMax
  BY TerminalAssumption
<1>. QED  BY <1>1, <1>2, <1>4, <1>5 DEF TermInv, TermStage

LEMMA StartTerm ==
  ASSUME TermInv, cmd_buf = <<>>, words = NoWords, shell_start
  PROVE  TermInv'
<1>1. vga' = vga_write(vga_write(vga_clear, Banner), Prompt)
      /\ cmd_buf' = cmd_buf /\ words' = words /\ strayed' = strayed
  BY DEF shell_start, shell_init
<1>2. <<>> \in Seq(Printable) /\ Banner \in Seq(Printable \cup {"\n", "\t", "BS"})
  BY PrintAssumption
<1>3. ShownOn(vga_write(vga_clear, Banner), <<>>)
  BY <1>2, ClearShows, OutputShows
<1>4. ShownOn(vga', Prompt)
  BY <1>1, <1>3, TypedPrintable, PromptShows
<1>5. ShownOn(vga', <<>>) /\ Prompt \o <<>> = Prompt
  BY <1>4, ShownLess, TypedPrintable
<1>. QED  BY <1>1, <1>4, <1>5 DEF TermInv

LEMMA CharTerm ==
  ASSUME TermInv, words = NoWords, NEW c \in Typed, shell_char(c)
  PROVE  TermInv'
<1>1. words' = words /\ strayed' = strayed
  BY DEF shell_char
<1>2. CASE ~ Room
  <2>1. cmd_buf' = cmd_buf /\ vga' = vga
    BY <1>2 DEF shell_char
  <2>. QED  BY <1>1, <2>1 DEF TermInv
<1>3. CASE Room
  <2>1. cmd_buf' = Append(cmd_buf, c) /\ vga' = vga_putchar(vga, c)
    BY <1>3 DEF shell_char
  <2>2. cmd_buf \in Seq(Typed) /\ Len(cmd_buf) < CmdMax /\ CmdMax \in Int
    BY <1>3, TerminalAssumption DEF TermInv, Room
  <2>3. cmd_buf' \in Seq(Typed) /\ Len(cmd_buf') <= CmdMax
    BY <2>1, <2>2
  <2>4. c \in Printable /\ cmd_buf \in Seq(Printable) /\ <<>> \in Seq(Printable)
    BY <2>2, TypedPrintable
  <2>5. ShownOn(vga', <<>>)
    BY <2>1, <2>4, PutcharShows DEF TermInv
  <2>6. ASSUME ~strayed' PROVE ShownOn(vga', Prompt \o cmd_buf')
    <3>1. ShownOn(vga, Prompt \o cmd_buf)
      BY <1>1, <2>6 DEF TermInv
    <3>2. Prompt \o cmd_buf' = Append(Prompt \o cmd_buf, c)
      BY <2>1, <2>4, TypedPrintable
    <3>3. Prompt \o cmd_buf \in Seq(Printable) /\ Prompt \o cmd_buf' \in Seq(Printable)
      BY <2>2, <2>3, TypedPrintable
    <3>. QED  BY <2>1, <2>4, <3>1, <3>2, <3>3, PutcharShows
  <2>. QED  BY <1>1, <2>3, <2>5, <2>6 DEF TermInv
<1>. QED  BY <1>2, <1>3

LEMMA BackTerm ==
  ASSUME TermInv, words = NoWords, shell_backspace
  PROVE  TermInv'
<1>1. words' = words
  BY DEF shell_backspace
<1>2. CASE cmd_buf = <<>>
  <2>1. cmd_buf' = cmd_buf /\ vga' = vga /\ strayed' = strayed
    BY <1>2 DEF shell_backspace
  <2>. QED  BY <1>1, <2>1 DEF TermInv
<1>3. CASE cmd_buf # <<>>
  <2>1. /\ cmd_buf' = Front(cmd_buf) /\ vga' = vga_putchar(vga, "BS")
        /\ strayed' = (strayed \/ vga.col = 0)
    BY <1>3 DEF shell_backspace
  <2>3. cmd_buf' \in Seq(Typed) /\ Len(cmd_buf') = Len(cmd_buf) - 1 /\ Len(cmd_buf) \in Nat
    BY <1>3, <2>1, FrontIs DEF TermInv
  <2>4. Len(cmd_buf') <= CmdMax
    <3>1. CmdMax \in Int /\ Len(cmd_buf) <= CmdMax
      BY TerminalAssumption DEF TermInv
    <3>. QED  BY <2>3, <3>1
  <2>5. <<>> \in Seq(Printable) /\ "BS" \in Printable \cup {"\n", "\t", "BS"}
    OBVIOUS
  <2>6. ShownOn(vga', <<>>)
    BY <2>1, <2>5, PutcharShows DEF TermInv
  <2>7. strayed' \in BOOLEAN
    BY <2>1
  <2>8. ASSUME ~strayed' PROVE ShownOn(vga', Prompt \o cmd_buf')
    <3> DEFINE whole == Prompt \o cmd_buf
    <3>1. ~strayed /\ vga.col # 0
      BY <2>1, <2>8
    <3>2. ShownOn(vga, whole)
      BY <3>1 DEF TermInv
    <3>3. vga.col > 0
      <4>1. vga \in Screens
        BY <3>2 DEF ShownOn
      <4>2. vga.col \in 0 .. VGA_WIDTH - 1
        BY <4>1, ScreenIs
      <4>. QED  BY <3>1, <4>2
    <3>4. /\ whole \in Seq(Printable) /\ Prompt \o cmd_buf' \in Seq(Printable)
          /\ Prompt \in Seq(Printable) /\ cmd_buf \in Seq(Printable)
      BY <2>3, TypedPrintable DEF TermInv
    <3>5. whole # <<>> /\ Prompt \o cmd_buf' = Front(whole)
      BY <1>3, <2>1, <3>4, FrontOfConcat
    <3> HIDE DEF whole
    <3>. QED  BY <2>1, <2>5, <3>2, <3>3, <3>4, <3>5, PutcharShows
  <2>. QED  BY <1>1, <2>3, <2>4, <2>6, <2>7, <2>8 DEF TermInv
<1>. QED  BY <1>2, <1>3
LEMMA EnterTerm ==
  ASSUME TermInv, shell_enter
  PROVE  TermInv'
<1>1. /\ vga' = vga_putchar(vga, "\n") /\ words' = shell_parse(cmd_buf)
      /\ cmd_buf' = cmd_buf /\ strayed' = strayed
  BY DEF shell_enter
<1>2. words' # NoWords
  <2>1. shell_parse(cmd_buf) \in [cmd : Seq(Typed), arg1 : Seq(Typed), arg2 : Seq(Typed)]
    BY ParseIs DEF TermInv
  <2>. QED  BY <1>1, <2>1, TerminalAssumption
<1>3. ShownOn(vga', <<>>)
  <2>1. <<>> \in Seq(Printable)
    OBVIOUS
  <2>. QED  BY <1>1, <2>1, PutcharShows DEF TermInv
<1>. QED  BY <1>1, <1>2, <1>3 DEF TermInv

LEMMA ExecTerm ==
  ASSUME TermInv, shell_exec
  PROVE  TermInv'
<1>1. PICK v \in Outcomes : vga' = vga_write(v, Prompt)
  BY DEF shell_exec
<1>2. words' = NoWords /\ cmd_buf' = <<>> /\ strayed' = FALSE
  BY DEF shell_exec
<1>3. <<>> \in Seq(Printable) /\ <<>> \in Seq(Typed) /\ Len(<<>>) = 0
  OBVIOUS
<1>4. ShownOn(v, <<>>)
  <2>1. v = vga \/ v = vga_clear \/ \E out \in Outputs : v = vga_write(vga, out)
    BY DEF Outcomes
  <2>2. \A out \in Outputs : ShownOn(vga_write(vga, out), <<>>)
    BY OutputShows, PrintAssumption DEF TermInv
  <2>. QED  BY <1>3, <2>1, <2>2, ClearShows DEF TermInv
<1>5. ShownOn(vga', Prompt)
  BY <1>1, <1>4, TypedPrintable, PromptShows
<1>6. ShownOn(vga', <<>>) /\ Prompt \o <<>> = Prompt
  BY <1>5, ShownLess, TypedPrintable
<1>7. 0 <= CmdMax
  BY TerminalAssumption
<1>. QED  BY <1>2, <1>3, <1>5, <1>6, <1>7 DEF TermInv

LEMMA SameTerm ==
  ASSUME TermInv, UNCHANGED term_vars
  PROVE  TermInv'
BY DEF TermInv, term_vars

LEMMA NextTerm ==
  ASSUME TermInv, TermStage, [Next]_vars
  PROVE  TermInv' /\ TermStage'
<1>1. CASE UNCHANGED vars
  <2>1. UNCHANGED term_vars /\ stage' = stage /\ cmd_buf' = cmd_buf /\ words' = words
    BY <1>1 DEF vars, term_vars
  <2>. QED  BY <2>1, SameTerm DEF TermStage
<1>2. CASE start_shell
  <2>1. stage = "disks" /\ shell_start /\ stage' = "shell"
    BY <1>2 DEF start_shell
  <2>. QED  BY <2>1, StartTerm DEF TermStage
<1>3. CASE shell
  <2>1. stage = "shell" /\ stage' = "shell" /\ shell_run
    BY <1>3 DEF shell
  <2>2. TermInv'
    BY <2>1, CharTerm, BackTerm, EnterTerm, ExecTerm DEF shell_run
  <2>. QED  BY <2>1, <2>2 DEF TermStage
<1>4. CASE rtc_init \/ disk_init \/ date_command \/ disk_calls \/ kernel_tasks
           \/ timer_tick \/ clock_chip \/ disk_drives
  <2>1. UNCHANGED term_vars
    BY <1>4 DEF rtc_init, disk_init, date_command, disk_calls, kernel_tasks, timer_tick,
                clock_chip, disk_drives, Others
  <2>2. cmd_buf' = cmd_buf /\ words' = words
    BY <2>1 DEF term_vars
  <2>3. stage' \in {"clock", "disks"} => stage \in {"clock", "disks"}
    BY <1>4 DEF rtc_init, disk_init, date_command, disk_calls, kernel_tasks, timer_tick,
                clock_chip, disk_drives
  <2>. QED  BY <2>1, <2>2, <2>3, SameTerm DEF TermStage
<1>. QED  BY <1>1, <1>2, <1>3, <1>4 DEF Next

\* The screen shows the line that is typed, and the words of a command that
\* runs are those of the line, whatever else the kernel does in between.
THEOREM TermInvariance == Spec => []TermInv
<1>1. TermInv /\ TermStage /\ [Next]_vars => TermInv' /\ TermStage'
  BY NextTerm
<1>. QED  BY <1>1, InitTerm, PTL DEF Spec

(***************************************************************************)
(* The prompt and the line stand before the cursor and nothing behind it,  *)
(* over the ends of rows and the scrolling of vga.c:35: on any screen,     *)
(* with any prompt, for lines of any length and any output of the commands *)
(* that has no "\r".                                                       *)
(***************************************************************************)
THEOREM ScreenCorrect == Spec => []ScreenShowsCommand
<1>1. TermInv => ScreenShowsCommand
  <2> SUFFICES ASSUME TermInv PROVE ScreenShowsCommand
    OBVIOUS
  <2>1. vga \in Screens
    BY DEF TermInv, ShownOn
  <2>2. /\ vga.row \in 0 .. VGA_HEIGHT - 1 /\ vga.col \in 0 .. VGA_WIDTH - 1
        /\ vga.cells \in [Cells -> Printable]
    BY <2>1, ScreenIs
  <2>3. DOMAIN vga.cells = Cells
    BY <2>2
  <2>4. ASSUME words = NoWords, ~strayed
        PROVE  LET text == Prompt \o cmd_buf
                   first == CursorOf(vga) - Len(text)
               IN  /\ \A k \in 1 .. Len(text) :
                         first + k - 1 \in Cells => vga.cells[first + k - 1] = text[k]
                   /\ \A n \in CursorOf(vga) .. VGA_WIDTH * VGA_HEIGHT - 1 :
                         vga.cells[n] = Blank
    <3> DEFINE text == Prompt \o cmd_buf
               p == CursorOf(vga)
    <3>1. Shows(vga.cells, p, text)
      BY <2>4 DEF TermInv, ShownOn
    <3>2. p \in Int /\ p >= 0
      <4>1. p = At(vga.row, vga.col) /\ Reach(vga.row, vga.col)
        BY <2>1, ScreenIs
      <4>2. p \in 0 .. VGA_WIDTH * VGA_HEIGHT
        BY <4>1, PlaceIs
      <4>. QED  BY <4>2, SizesAre
    <3>3. \A n \in p .. VGA_WIDTH * VGA_HEIGHT - 1 : n \in Cells /\ n >= p
      <4>1. VGA_WIDTH * VGA_HEIGHT \in Nat
        BY SizesAre
      <4> HIDE DEF p
      <4>. QED  BY <3>2, <4>1 DEF Cells
    <3> HIDE DEF text, p
    <3>4. /\ \A k \in 1 .. Len(text) : p - Len(text) + k - 1 \in Cells
                                          => vga.cells[p - Len(text) + k - 1] = text[k]
          /\ \A n \in Cells : n >= p => vga.cells[n] = Blank
      BY <3>1 DEF Shows
    <3>5. \A n \in p .. VGA_WIDTH * VGA_HEIGHT - 1 : vga.cells[n] = Blank
      BY <3>3, <3>4
    <3>. QED  BY <3>4, <3>5 DEF text, p
  <2>5. Len(cmd_buf) <= CmdMax
    BY DEF TermInv
  <2>. QED  BY <2>2, <2>3, <2>4, <2>5 DEF ScreenShowsCommand
<1>. QED  BY <1>1, TermInvariance, PTL

(***************************************************************************)
(* shell_parse gives the command its first two words and the rest of the   *)
(* line from the third on, for every line (shell.c:40).                    *)
(***************************************************************************)
THEOREM ParseCorrect == Spec => []ParseFindsWords
<1>1. TermInv => ParseFindsWords
  <2> SUFFICES ASSUME TermInv, words # NoWords
               PROVE  /\ \A n \in First(cmd_buf) : words.cmd = WordAt(cmd_buf, n)
                      /\ \A n \in Second(cmd_buf) : words.arg1 = WordAt(cmd_buf, n)
                      /\ \A n \in Third(cmd_buf) :
                             words.arg2 = SubSeq(cmd_buf, n, Len(cmd_buf))
                      /\ First(cmd_buf) = {} => words.cmd = <<>>
                      /\ Second(cmd_buf) = {} => words.arg1 = <<>>
                      /\ Third(cmd_buf) = {} => words.arg2 = <<>>
    BY DEF ParseFindsWords
  <2>1. words = shell_parse(cmd_buf) /\ cmd_buf \in Seq(Typed)
    BY DEF TermInv
  <2>. QED  BY <2>1, ParseIs DEF Rest
<1>. QED  BY <1>1, TermInvariance, PTL
=============================================================================
