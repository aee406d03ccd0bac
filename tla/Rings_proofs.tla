---------------------------- MODULE Rings_proofs ----------------------------
(***************************************************************************)
(* Proofs about the two ring buffers of the kernel, for every size: the    *)
(* one of drivers/keyboard.c, where the place of the reader is never       *)
(* overwritten and which implements CharQueue whatever the interrupts do;  *)
(* and the one of kernel/klog.c, whose indices agree and which implements  *)
(* LogWindow.                                                              *)
(***************************************************************************)
EXTENDS Keyboard, Klog, TLAPS

(***************************************************************************)
(* The keyboard.                                                           *)
(***************************************************************************)
IInv == TypeOK /\ PlaceIsReaders

\* NextIndex without division.
LEMMA Wrap ==
    /\ Size \in Nat /\ Size > 0
    /\ \A i \in Index :
           /\ NextIndex(i) \in Index
           /\ NextIndex(i) = IF i = Size - 1 THEN 0 ELSE i + 1
<1>1. Size \in Nat /\ Size > 0
  BY KeyboardAssumption
<1>2. \A k \in Nat : k < Size => k % Size = k
  BY <1>1
<1>3. Size % Size = 0
  BY <1>1
<1>. QED  BY <1>1, <1>2, <1>3 DEF Index, NextIndex

\* Remainders of numbers below twice the size.
LEMMA Remainder ==
    \A k \in Nat : k < Size + Size =>
        k % Size = IF k < Size THEN k ELSE k - Size
<1>1. Size \in Nat /\ Size > 0
  BY Wrap
<1>2. \A k \in Nat : k < Size => k % Size = k
  BY <1>1
<1>3. \A k \in Nat : k >= Size /\ k < Size + Size => k % Size = k - Size
  BY <1>1
<1>. QED  BY <1>1, <1>2, <1>3

\* The buffer starts empty and nobody reads.
LEMMA InitIInv == Init => IInv
<1>1. 0 \in Index
  BY Wrap DEF Index
<1>2. Init => TypeOK
  BY <1>1 DEF Init, TypeOK
<1>3. Init => PlaceIsReaders
  BY DEF Init, PlaceIsReaders
<1>. QED  BY <1>2, <1>3 DEF IInv

\* A key that has a character has one of the two of its table entries.
LEMMA DecodeType ==
    ASSUME NEW key \in Keys, Decode(key) # NONE
    PROVE  Decode(key) \in Char
BY DEF Decode, Keys, Char

\* A key is stored behind the others, never in the place of the reader.
LEMMA KeyPressIInv ==
    ASSUME IInv, NEW key \in Keys, KeyPress(key) PROVE IInv'
<1>1. TypeOK'
  <2>1. CASE Decode(key) # NONE /\ ~Full
    BY <2>1, DecodeType, Wrap DEF IInv, TypeOK, KeyPress, Wake, reader
  <2>2. CASE ~(Decode(key) # NONE /\ ~Full)
    BY <2>2 DEF IInv, TypeOK, KeyPress, Wake, reader
  <2>. QED  BY <2>1, <2>2
<1>2. /\ pc' \in {"load", "advance"} => pc' = pc
      /\ kb_tail' = kb_tail /\ c' = c
  BY DEF KeyPress, Wake, reader, IInv, TypeOK
<1>3. PlaceIsReaders'
  <2>1. CASE Decode(key) # NONE /\ ~Full
    <3>1. kb_head' # kb_tail
      BY <2>1 DEF KeyPress, Full
    <3>2. pc \in {"load", "advance"} => kb_buffer'[kb_tail] = kb_buffer[kb_tail]
      BY <2>1 DEF KeyPress, IInv, TypeOK, PlaceIsReaders
    <3>. QED  BY <1>2, <3>1, <3>2 DEF IInv, PlaceIsReaders
  <2>2. CASE ~(Decode(key) # NONE /\ ~Full)
    BY <2>2, <1>2 DEF KeyPress, IInv, PlaceIsReaders
  <2>. QED  BY <2>1, <2>2
<1>. QED  BY <1>1, <1>3 DEF IInv

\* Every action keeps the invariant.
LEMMA NextIInv == IInv /\ [Next]_vars => IInv'
<1> SUFFICES ASSUME IInv, [Next]_vars PROVE IInv'
  OBVIOUS
<1> USE DEF IInv, TypeOK, PlaceIsReaders
<1>1. ASSUME NEW down \in BOOLEAN, Shift(down) PROVE IInv'
  BY <1>1 DEF Shift, Wake, reader
<1>2. CASE CapsLock
  BY <1>2 DEF CapsLock, Wake, reader
<1>3. CASE KeyRelease \/ timer_irq
  BY <1>3 DEF KeyRelease, timer_irq, Wake, driver, reader
<1>4. ASSUME NEW key \in Keys, KeyPress(key) PROVE IInv'
  BY <1>4, KeyPressIInv
<1>5. CASE Call
  BY <1>5 DEF Call, driver, reader
<1>6. CASE Test
  BY <1>6 DEF Test, Empty, driver, reader
<1>7. CASE Load
  BY <1>7 DEF Load, driver
<1>8. CASE Advance
  BY <1>8, Wrap DEF Advance, driver
<1>9. CASE UNCHANGED vars
  BY <1>9 DEF vars, driver, reader
<1>. QED  BY <1>1, <1>2, <1>3, <1>4, <1>5, <1>6, <1>7, <1>8, <1>9
          DEF Next, keyboard_handler, keyboard_read

(***************************************************************************)
(* TypeOK and PlaceIsReaders together are an inductive invariant of        *)
(* drivers/keyboard.c.                                                     *)
(***************************************************************************)
THEOREM Invariance == Spec => []IInv
<1>. QED  BY InitIInv, NextIInv, PTL DEF Spec

(***************************************************************************)
(* The handler of IRQ1 never touches the place that keyboard_read is about *)
(* to take, for every size of the buffer and every interleaving.           *)
(***************************************************************************)
THEOREM ReaderUndisturbed == Spec => []PlaceIsReaders
<1>1. IInv => PlaceIsReaders
  BY DEF IInv
<1>. QED  BY <1>1, Invariance, PTL

----------------------------------------------------------------------------
\* Distances and places in the ring, without division.
Distance(h, t) == IF h >= t THEN h - t ELSE h - t + Size
Place(t, i) == IF t + i - 1 < Size THEN t + i - 1 ELSE t + i - 1 - Size

\* What the ring holds, as a sequence.
LEMMA ContentsIs ==
    IInv => /\ Count = Distance(kb_head, kb_tail)
            /\ Count \in 0 .. Size - 1
            /\ Contents \in Seq(Char \cup {NONE})
            /\ Len(Contents) = Count
            /\ \A i \in 1 .. Count :
                   Contents[i] = kb_buffer[Place(kb_tail, i)]
<1> SUFFICES ASSUME IInv
             PROVE  /\ Count = Distance(kb_head, kb_tail)
                    /\ Count \in 0 .. Size - 1
                    /\ Contents \in Seq(Char \cup {NONE})
                    /\ Len(Contents) = Count
                    /\ \A i \in 1 .. Count :
                           Contents[i] = kb_buffer[Place(kb_tail, i)]
  OBVIOUS
<1>1. Size \in Nat /\ Size > 0
  BY Wrap
<1>2. /\ kb_buffer \in [0 .. Size - 1 -> Char \cup {NONE}]
      /\ kb_head \in 0 .. Size - 1 /\ kb_tail \in 0 .. Size - 1
  BY DEF IInv, TypeOK, Index
<1>3. Count = Distance(kb_head, kb_tail) /\ Count \in 0 .. Size - 1
  <2>1. kb_head - kb_tail + Size \in Nat
        /\ kb_head - kb_tail + Size < Size + Size
    BY <1>1, <1>2
  <2>. QED  BY <1>1, <1>2, <2>1, Remainder DEF Count, Distance
<1>4. ASSUME NEW i \in 1 .. Count
      PROVE  /\ (kb_tail + i - 1) % Size = Place(kb_tail, i)
             /\ Place(kb_tail, i) \in 0 .. Size - 1
  <2>1. kb_tail + i - 1 \in Nat /\ kb_tail + i - 1 < Size + Size
    BY <1>1, <1>2, <1>3
  <2>. QED  BY <1>1, <1>2, <1>3, <2>1, Remainder DEF Place
<1>5. \A i \in 1 .. Count :
          kb_buffer[(kb_tail + i - 1) % Size] \in Char \cup {NONE}
  BY <1>2, <1>4
<1> HIDE DEF Count
<1>. QED  BY <1>3, <1>4, <1>5 DEF Contents

\* Two sequences are equal when their lengths and their elements are.
LEMMA SameSequence ==
    ASSUME NEW T, NEW s \in Seq(T), NEW t \in Seq(T), Len(s) = Len(t),
           \A i \in 1 .. Len(s) : s[i] = t[i]
    PROVE  s = t
OBVIOUS

\* The same after a step.
LEMMA ContentsIsAfter ==
    IInv' => /\ Count' = Distance(kb_head', kb_tail')
             /\ Count' \in 0 .. Size - 1
             /\ Contents' \in Seq(Char \cup {NONE})
             /\ Len(Contents') = Count'
             /\ \A i \in 1 .. Count' :
                    Contents'[i] = kb_buffer'[Place(kb_tail', i)]
<1>1. IInv' => (/\ Count = Distance(kb_head, kb_tail)
                /\ Count \in 0 .. Size - 1
                /\ Contents \in Seq(Char \cup {NONE})
                /\ Len(Contents) = Count
                /\ \A i \in 1 .. Count :
                       Contents[i] = kb_buffer[Place(kb_tail, i)])'
  BY ContentsIs, PTL
<1>. QED  BY <1>1 DEF Distance, Place

\* A stored key is at the end of the queue, which had room for it.
LEMMA StoreIsPut ==
    ASSUME IInv, IInv', NEW key \in Keys, KeyPress(key),
           Decode(key) # NONE, ~Full
    PROVE  Promise!Put(Decode(key))
<1> DEFINE T == Char \cup {NONE}
<1> DEFINE new == Append(Contents, Decode(key))
<1>1. Size \in Nat /\ Size > 0
  BY Wrap
<1>2. /\ kb_buffer \in [0 .. Size - 1 -> T]
      /\ kb_head \in 0 .. Size - 1 /\ kb_tail \in 0 .. Size - 1
      /\ Decode(key) \in T
  BY DecodeType DEF IInv, TypeOK, Index
<1>3. /\ kb_buffer' = [kb_buffer EXCEPT ![kb_head] = Decode(key)]
      /\ kb_head' = IF kb_head = Size - 1 THEN 0 ELSE kb_head + 1
      /\ kb_tail' = kb_tail /\ result' = result
      /\ kb_head' # kb_tail
  BY Wrap DEF KeyPress, Full, reader, IInv, TypeOK
<1>4. /\ Contents \in Seq(T) /\ Len(Contents) = Distance(kb_head, kb_tail)
      /\ \A i \in 1 .. Distance(kb_head, kb_tail) :
             Contents[i] = kb_buffer[Place(kb_tail, i)]
      /\ Contents' \in Seq(T) /\ Len(Contents') = Distance(kb_head', kb_tail)
      /\ \A i \in 1 .. Distance(kb_head', kb_tail) :
             Contents'[i] = kb_buffer'[Place(kb_tail, i)]
  BY ContentsIs, ContentsIsAfter, <1>3
<1>5. /\ Distance(kb_head', kb_tail) = Distance(kb_head, kb_tail) + 1
      /\ Distance(kb_head, kb_tail) \in 0 .. Size - 2
      /\ Place(kb_tail, Distance(kb_head, kb_tail) + 1) = kb_head
  BY <1>1, <1>2, <1>3 DEF Distance, Place
<1>6. \A i \in 1 .. Distance(kb_head, kb_tail) :
          Place(kb_tail, i) \in 0 .. Size - 1 /\ Place(kb_tail, i) # kb_head
  BY <1>1, <1>2, <1>5 DEF Distance, Place
<1> DEFINE n == Distance(kb_head, kb_tail)
<1>7. new \in Seq(T) /\ Len(new) = n + 1 /\ new[n + 1] = Decode(key)
      /\ \A i \in 1 .. n : new[i] = Contents[i]
  BY <1>2, <1>4, <1>5
<1>8. ASSUME NEW i \in 1 .. n + 1 PROVE Contents'[i] = new[i]
  <2> HIDE DEF new, n
  <2>1. n \in Nat /\ n = Distance(kb_head, kb_tail)
    BY <1>5 DEF n
  <2>2. Contents'[i] = kb_buffer'[Place(kb_tail, i)]
    BY <1>4, <1>5, <2>1
  <2>3. CASE i = n + 1
    BY <1>2, <1>3, <1>5, <1>7, <2>1, <2>2, <2>3
  <2>4. CASE i \in 1 .. n
    <3>1. kb_buffer'[Place(kb_tail, i)] = kb_buffer[Place(kb_tail, i)]
      BY <1>2, <1>3, <1>6, <2>1, <2>4
    <3>. QED  BY <1>4, <1>7, <2>1, <2>2, <2>4, <3>1
  <2>5. i = n + 1 \/ i \in 1 .. n
    BY <2>1
  <2>. QED  BY <2>3, <2>4, <2>5, Zenon
<1>9. Contents' = new
  <2> HIDE DEF new, n
  <2>. QED  BY <1>4, <1>5, <1>7, <1>8, SameSequence DEF n
<1>10. Len(Contents) < Size - 1
  BY <1>1, <1>4, <1>5
<1>. QED  BY <1>3, <1>9, <1>10 DEF Promise!Put

\* The last step of keyboard_read takes the head of the queue.
LEMMA AdvanceIsGet ==
    ASSUME IInv, IInv', Advance
    PROVE  Promise!Get
<1> DEFINE T == Char \cup {NONE}
<1> DEFINE n == Distance(kb_head, kb_tail)
<1>1. Size \in Nat /\ Size > 0
  BY Wrap
<1>2. /\ kb_head \in 0 .. Size - 1 /\ kb_tail \in 0 .. Size - 1
      /\ kb_head # kb_tail /\ c = kb_buffer[kb_tail]
  BY DEF IInv, TypeOK, Index, PlaceIsReaders, Advance
<1>3. /\ kb_buffer' = kb_buffer /\ kb_head' = kb_head /\ result' = c
      /\ kb_tail' = IF kb_tail = Size - 1 THEN 0 ELSE kb_tail + 1
  BY Wrap DEF Advance, driver, IInv, TypeOK
<1>4. /\ Contents \in Seq(T) /\ Len(Contents) = n
      /\ \A i \in 1 .. n : Contents[i] = kb_buffer[Place(kb_tail, i)]
      /\ Contents' \in Seq(T) /\ Len(Contents') = Distance(kb_head, kb_tail')
      /\ \A i \in 1 .. Distance(kb_head, kb_tail') :
             Contents'[i] = kb_buffer[Place(kb_tail', i)]
  BY ContentsIs, ContentsIsAfter, <1>3
<1>5. /\ n \in Nat /\ n > 0 /\ n < Size
      /\ Distance(kb_head, kb_tail') = n - 1
      /\ Place(kb_tail, 1) = kb_tail
      /\ \A i \in 1 .. n - 1 : Place(kb_tail', i) = Place(kb_tail, i + 1)
  BY <1>1, <1>2, <1>3 DEF Distance, Place
<1> HIDE DEF n
<1>6. Contents # <<>> /\ Head(Contents) = c
  BY <1>2, <1>4, <1>5
<1>7. /\ Tail(Contents) \in Seq(T) /\ Len(Tail(Contents)) = n - 1
      /\ \A i \in 1 .. n - 1 : Tail(Contents)[i] = Contents[i + 1]
  BY <1>4, <1>5, <1>6
<1>8. ASSUME NEW i \in 1 .. n - 1 PROVE Contents'[i] = Tail(Contents)[i]
  <2>1. Contents'[i] = kb_buffer[Place(kb_tail', i)]
    BY <1>4, <1>5
  <2>2. i + 1 \in 1 .. n
    BY <1>5
  <2>3. Contents[i + 1] = kb_buffer[Place(kb_tail, i + 1)]
    BY <1>4, <2>2
  <2>. QED  BY <1>5, <1>7, <2>1, <2>3, Zenon
<1>9. Contents' = Tail(Contents)
  BY <1>4, <1>5, <1>7, <1>8, SameSequence
<1>. QED  BY <1>3, <1>6, <1>9 DEF Promise!Get

(***************************************************************************)
(* For every size of the buffer, drivers/keyboard.c implements CharQueue:  *)
(* no interleaving of IRQ1 with keyboard_read loses, duplicates or         *)
(* reorders a character that was accepted.                                 *)
(***************************************************************************)
THEOREM QueueCorrect == Spec => ImplementsQueue
<1>1. Init => Promise!Init
  <2> SUFFICES ASSUME Init PROVE Contents = <<>> /\ result \notin Char
    BY DEF Promise!Init
  <2>1. Contents \in Seq(Char \cup {NONE}) /\ Len(Contents) = Count
        /\ Count = Distance(kb_head, kb_tail)
    BY InitIInv, ContentsIs
  <2>2. Count = 0
    BY <2>1 DEF Init, Distance
  <2>3. Contents = <<>>
    BY <2>1, <2>2
  <2>. QED  BY <2>3, KeyboardAssumption DEF Init, Char
<1>2. IInv /\ IInv' /\ [Next]_vars => [Promise!Next]_<<Contents, result>>
  <2> SUFFICES ASSUME IInv, IInv', [Next]_vars
               PROVE  \/ Promise!Next
                      \/ Contents' = Contents /\ result' = result
    OBVIOUS
  <2>1. ASSUME UNCHANGED <<kb_buffer, kb_head, kb_tail, result>>
        PROVE  Contents' = Contents /\ result' = result
    BY <2>1 DEF Contents, Count
  <2>2. ASSUME NEW down \in BOOLEAN, Shift(down)
        PROVE  Contents' = Contents /\ result' = result
    BY <2>1, <2>2 DEF Shift, reader
  <2>3. CASE CapsLock \/ KeyRelease \/ timer_irq
    BY <2>1, <2>3 DEF CapsLock, KeyRelease, timer_irq, driver, reader
  <2>4. ASSUME NEW key \in Keys, KeyPress(key)
        PROVE  Promise!Next \/ (Contents' = Contents /\ result' = result)
    <3>1. CASE Decode(key) # NONE /\ ~Full
      BY <2>4, <3>1, StoreIsPut, DecodeType DEF Promise!Next
    <3>2. CASE ~(Decode(key) # NONE /\ ~Full)
      BY <2>1, <2>4, <3>2 DEF KeyPress, reader
    <3>. QED  BY <3>1, <3>2
  <2>5. CASE Call \/ Test \/ Load
    BY <2>1, <2>5 DEF Call, Test, Load, driver, reader
  <2>6. CASE Advance
    BY <2>6, AdvanceIsGet DEF Promise!Next
  <2>7. CASE UNCHANGED vars
    BY <2>1, <2>7 DEF vars, driver, reader
  <2>. QED  BY <2>2, <2>3, <2>4, <2>5, <2>6, <2>7
            DEF Next, keyboard_handler, keyboard_read
<1>. QED  BY <1>1, <1>2, Invariance, PTL
          DEF Spec, ImplementsQueue, Promise!Spec

----------------------------------------------------------------------------
(***************************************************************************)
(* The kernel log.                                                         *)
(***************************************************************************)

S == DIONNEX_KLOG_SIZE

KlogInv == KlogTypeOK /\ IndicesAgree

\* The remainders that the ring computes, without division.
LEMMA LogWrap ==
    /\ S \in Nat /\ S > 0
    /\ \A i \in LogIndex :
           /\ NextLogIndex(i) \in LogIndex
           /\ NextLogIndex(i) = IF i = S - 1 THEN 0 ELSE i + 1
    /\ \A i \in LogIndex, n \in 0 .. S :
           (i + n) % S = IF i + n < S THEN i + n ELSE i + n - S
<1>1. S \in Nat /\ S > 0
  BY KlogAssumption DEF S
<1>2. \A k \in Nat : k < S => k % S = k
  BY <1>1
<1>3. \A k \in Nat : k >= S /\ k < S + S => k % S = k - S
  BY <1>1
<1>4. \A i \in LogIndex, n \in 0 .. S :
          (i + n) % S = IF i + n < S THEN i + n ELSE i + n - S
  BY <1>1, <1>2, <1>3 DEF LogIndex, S
<1>5. \A i \in LogIndex :
          /\ NextLogIndex(i) \in LogIndex
          /\ NextLogIndex(i) = IF i = S - 1 THEN 0 ELSE i + 1
  BY <1>1, <1>4 DEF LogIndex, NextLogIndex, S
<1>. QED  BY <1>1, <1>4, <1>5

\* The ring starts empty, with all its indices at 0.
LEMMA KlogInitInv == KlogInit => KlogInv
<1> SUFFICES ASSUME KlogInit PROVE KlogInv
  OBVIOUS
<1>1. S \in Nat /\ S > 0 /\ 0 \in LogIndex /\ 0 % S = 0
  BY LogWrap, 0 \in 0 .. S DEF LogIndex, S
<1>. QED  BY <1>1 DEF KlogInit, KlogInv, KlogTypeOK, IndicesAgree, LogIndex, S

\* A character moves the head, and then the count or the tail with it.
LEMMA KlogPushInv == KlogInv /\ klog_push_char => KlogInv'
<1> SUFFICES ASSUME KlogInv, klog_push_char PROVE KlogInv'
  OBVIOUS
<1>1. S \in Nat /\ S > 0
  BY LogWrap
<1>2. KlogTypeOK'
  BY LogWrap, KlogAssumption
  DEF KlogInv, KlogTypeOK, klog_push_char, CountOrMoveTail, S
<1>3. /\ klog_buffer \in [LogIndex -> LogChar \cup {NUL}]
      /\ klog_head \in 0 .. S - 1 /\ klog_tail \in 0 .. S - 1
      /\ klog_count \in 0 .. S
  BY DEF KlogInv, KlogTypeOK, LogIndex, S
<1>4. /\ klog_head = IF klog_tail + klog_count < S THEN klog_tail + klog_count
                     ELSE klog_tail + klog_count - S
      /\ klog_count = S \/ klog_tail = 0
      /\ \A i \in 0 .. S - 1 :
             klog_buffer[i] # NUL <=> i < klog_count \/ klog_count = S
  BY <1>3, LogWrap DEF KlogInv, IndicesAgree, LogIndex, S
<1>5. /\ klog_head' = IF klog_head = S - 1 THEN 0 ELSE klog_head + 1
      /\ IF klog_count < S
         THEN klog_count' = klog_count + 1 /\ klog_tail' = klog_tail
         ELSE /\ klog_tail' = IF klog_tail = S - 1 THEN 0 ELSE klog_tail + 1
              /\ klog_count' = klog_count
  BY <1>3, LogWrap DEF klog_push_char, CountOrMoveTail, LogIndex, S
<1>6. klog_head' = (klog_tail' + klog_count') % S
  <2>1. klog_head' = IF klog_tail' + klog_count' < S
                     THEN klog_tail' + klog_count'
                     ELSE klog_tail' + klog_count' - S
    BY <1>1, <1>3, <1>4, <1>5
  <2>2. klog_tail' \in LogIndex /\ klog_count' \in 0 .. S
    BY <1>2 DEF KlogTypeOK, S
  <2>. QED  BY <2>1, <2>2, LogWrap
<1>7. klog_count' = S \/ klog_tail' = 0
  BY <1>1, <1>3, <1>4, <1>5
<1>8. ASSUME NEW i \in 0 .. S - 1
      PROVE  klog_buffer'[i] # NUL <=> i < klog_count' \/ klog_count' = S
  <2>1. klog_buffer' = [klog_buffer EXCEPT ![klog_head] = Head(todo)]
        /\ Head(todo) # NUL
    BY KlogAssumption DEF klog_push_char, KlogInv, KlogTypeOK
  <2>2. klog_buffer'[i] = IF i = klog_head THEN Head(todo) ELSE klog_buffer[i]
    BY <2>1, <1>3 DEF LogIndex, S
  <2>3. klog_count < S => klog_head = klog_count
    BY <1>1, <1>3, <1>4
  <2>4. CASE klog_count < S
    BY <2>1, <2>2, <2>3, <2>4, <1>1, <1>3, <1>4, <1>5
  <2>5. CASE klog_count = S
    BY <2>1, <2>2, <2>5, <1>1, <1>3, <1>4, <1>5
  <2>. QED  BY <2>4, <2>5, <1>1, <1>3
<1>. QED  BY <1>2, <1>6, <1>7, <1>8 DEF KlogInv, IndicesAgree, LogIndex, S

\* Every action keeps the invariant.
LEMMA KlogNextInv == KlogInv /\ [KlogNext]_klog_vars => KlogInv'
<1> SUFFICES ASSUME KlogInv, [KlogNext]_klog_vars PROVE KlogInv'
  OBVIOUS
<1>1. ASSUME NEW msg \in Messages, klog(msg) PROVE KlogInv'
  <2>1. msg \in Seq(LogChar)
    BY DEF Messages
  <2>. QED  BY <1>1, <2>1 DEF klog, ring, KlogInv, KlogTypeOK, IndicesAgree
<1>2. CASE klog_push_char
  BY <1>2, KlogPushInv
<1>3. CASE klog_clear
  <2>1. S \in Nat /\ S > 0 /\ 0 \in LogIndex /\ 0 % S = 0
    BY LogWrap, 0 \in 0 .. S DEF LogIndex, S
  <2>. QED  BY <1>3, <2>1
            DEF klog_clear, KlogInv, KlogTypeOK, IndicesAgree, LogIndex, S
<1>4. CASE UNCHANGED klog_vars
  BY <1>4 DEF klog_vars, ring, KlogInv, KlogTypeOK, IndicesAgree
<1>. QED  BY <1>1, <1>2, <1>3, <1>4 DEF KlogNext

(***************************************************************************)
(* KlogTypeOK and IndicesAgree together are an inductive invariant of the  *)
(* ring buffer of kernel/klog.c.                                           *)
(***************************************************************************)
THEOREM KlogInvariance == KlogSpec => []KlogInv
<1>. QED  BY KlogInitInv, KlogNextInv, PTL DEF KlogSpec

(***************************************************************************)
(* The redundant indices of the ring buffer of kernel/klog.c agree in      *)
(* every reachable state, whatever its size.                               *)
(***************************************************************************)
THEOREM IndicesCorrect == KlogSpec => []IndicesAgree
<1>1. KlogInv => IndicesAgree
  BY DEF KlogInv
<1>. QED  BY <1>1, KlogInvariance, PTL

----------------------------------------------------------------------------
\* The i-th character in view, without the remainder.
LogPlace(t, i) == IF t + i - 1 < S THEN t + i - 1 ELSE t + i - 1 - S

\* What a reader of the whole ring sees.
LEMMA DumpIs ==
    KlogInv => /\ klog_dump \in Seq(LogChar \cup {NUL})
               /\ Len(klog_dump) = klog_count
               /\ \A i \in 1 .. klog_count :
                      klog_dump[i] = klog_buffer[LogPlace(klog_tail, i)]
<1> SUFFICES ASSUME KlogInv
             PROVE  /\ klog_dump \in Seq(LogChar \cup {NUL})
                    /\ Len(klog_dump) = klog_count
                    /\ \A i \in 1 .. klog_count :
                           klog_dump[i] = klog_buffer[LogPlace(klog_tail, i)]
  OBVIOUS
<1>1. S \in Nat /\ S > 0
  BY LogWrap
<1>2. /\ klog_buffer \in [LogIndex -> LogChar \cup {NUL}]
      /\ klog_tail \in LogIndex /\ klog_count \in 0 .. S
  BY DEF KlogInv, KlogTypeOK, S
<1>3. klog_dump = [i \in 1 .. klog_count |-> klog_buffer[(klog_tail + i - 1) % S]]
  BY <1>1, <1>2 DEF klog_dump, klog_read_bytes, S
<1>4. ASSUME NEW i \in 1 .. klog_count
      PROVE  /\ (klog_tail + i - 1) % S = LogPlace(klog_tail, i)
             /\ LogPlace(klog_tail, i) \in LogIndex
  <2>1. i - 1 \in 0 .. S /\ klog_tail + i - 1 = klog_tail + (i - 1)
    BY <1>1, <1>2 DEF LogIndex, S
  <2>2. (klog_tail + (i - 1)) % S
            = IF klog_tail + (i - 1) < S THEN klog_tail + (i - 1)
              ELSE klog_tail + (i - 1) - S
    BY <2>1, <1>2, LogWrap
  <2>. QED  BY <1>1, <1>2, <2>1, <2>2 DEF LogPlace, LogIndex, S
<1>5. \A i \in 1 .. klog_count :
          klog_buffer[(klog_tail + i - 1) % S] \in LogChar \cup {NUL}
  BY <1>2, <1>4
<1>. QED  BY <1>1, <1>2, <1>3, <1>4, <1>5

\* A pushed character appears at the end of the view, and pushes the first
\* one out of a full ring.
LEMMA PushIsPush ==
    ASSUME KlogInv, KlogInv', klog_push_char
    PROVE  Window!Push(Head(todo))
<1> DEFINE T == LogChar \cup {NUL}
<1>1. S \in Nat /\ S > 0
  BY LogWrap
<1>2. /\ klog_dump \in Seq(T) /\ Len(klog_dump) = klog_count
      /\ \A i \in 1 .. klog_count :
             klog_dump[i] = klog_buffer[LogPlace(klog_tail, i)]
  BY DumpIs
<1>3. /\ klog_dump' \in Seq(T) /\ Len(klog_dump') = klog_count'
      /\ \A i \in 1 .. klog_count' :
             klog_dump'[i] = klog_buffer'[LogPlace(klog_tail', i)]
  <2>1. KlogInv' => (/\ klog_dump \in Seq(LogChar \cup {NUL})
                     /\ Len(klog_dump) = klog_count
                     /\ \A i \in 1 .. klog_count :
                            klog_dump[i] = klog_buffer[LogPlace(klog_tail, i)])'
    BY DumpIs, PTL
  <2>. QED  BY <2>1 DEF LogPlace
<1>4. /\ klog_buffer \in [0 .. S - 1 -> T]
      /\ klog_head \in 0 .. S - 1 /\ klog_tail \in 0 .. S - 1
      /\ klog_count \in 0 .. S
      /\ Head(todo) \in T
      /\ klog_buffer' = [klog_buffer EXCEPT ![klog_head] = Head(todo)]
  BY DEF KlogInv, KlogTypeOK, LogIndex, S, klog_push_char
<1>5. /\ klog_head = IF klog_tail + klog_count < S THEN klog_tail + klog_count
                     ELSE klog_tail + klog_count - S
      /\ klog_count = S \/ klog_tail = 0
  BY <1>4, LogWrap DEF KlogInv, IndicesAgree, LogIndex, S
<1>6. IF klog_count < S
      THEN klog_count' = klog_count + 1 /\ klog_tail' = klog_tail
      ELSE /\ klog_tail' = IF klog_tail = S - 1 THEN 0 ELSE klog_tail + 1
           /\ klog_count' = klog_count
  BY <1>4, LogWrap DEF klog_push_char, CountOrMoveTail, LogIndex, S
<1>7. CASE klog_count < S
  <2> DEFINE new == Append(klog_dump, Head(todo))
  <2>1. new \in Seq(T) /\ Len(new) = klog_count + 1
    BY <1>2, <1>4
  <2>2. ASSUME NEW i \in 1 .. klog_count + 1 PROVE klog_dump'[i] = new[i]
    <3>1. klog_tail = 0 /\ klog_head = klog_count /\ i - 1 \in 0 .. S - 1
      BY <1>1, <1>4, <1>5, <1>7
    <3>2. klog_dump'[i] = klog_buffer'[i - 1]
      BY <1>1, <1>3, <1>4, <1>6, <1>7, <3>1 DEF LogPlace
    <3>3. CASE i = klog_count + 1
      BY <1>1, <1>2, <1>4, <3>1, <3>2, <3>3
    <3>4. CASE i \in 1 .. klog_count
      <4>1. klog_dump[i] = klog_buffer[i - 1]
        BY <1>1, <1>2, <1>4, <3>1, <3>4 DEF LogPlace
      <4>2. klog_buffer'[i - 1] = klog_buffer[i - 1]
        BY <1>1, <1>4, <3>1, <3>4
      <4>3. new[i] = klog_dump[i]
        BY <1>2, <1>4, <3>4
      <4>. QED  BY <3>2, <4>1, <4>2, <4>3
    <3>5. i = klog_count + 1 \/ i \in 1 .. klog_count
      BY <1>4
    <3>. QED  BY <3>3, <3>4, <3>5, Zenon
  <2>3. klog_dump' = new
    <3> HIDE DEF new
    <3>. QED  BY <1>3, <1>6, <1>7, <2>1, <2>2, SameSequence
  <2>. QED  BY <2>3, <1>2, <1>7 DEF Window!Push, S
<1>8. CASE klog_count = S
  <2> DEFINE new == Append(Tail(klog_dump), Head(todo))
  <2>1. /\ klog_dump # <<>> /\ Tail(klog_dump) \in Seq(T)
        /\ Len(Tail(klog_dump)) = S - 1
        /\ \A i \in 1 .. S - 1 : Tail(klog_dump)[i] = klog_dump[i + 1]
    BY <1>1, <1>2, <1>8
  <2>2. new \in Seq(T) /\ Len(new) = S
    BY <1>1, <1>4, <2>1
  <2>3. klog_head = klog_tail
    BY <1>1, <1>4, <1>5, <1>8
  <2>4. ASSUME NEW i \in 1 .. S PROVE klog_dump'[i] = new[i]
    <3>1. klog_dump'[i] = klog_buffer'[LogPlace(klog_tail', i)]
      BY <1>3, <1>6, <1>8, <1>1
    <3>2. CASE i = S
      <4>1. LogPlace(klog_tail', i) = klog_head
        BY <1>1, <1>4, <1>6, <1>8, <2>3, <3>2 DEF LogPlace
      <4>2. new[i] = Head(todo)
        BY <1>1, <2>1, <1>4, <3>2
      <4>. QED  BY <3>1, <4>1, <4>2, <1>4
    <3>3. CASE i \in 1 .. S - 1
      <4>1. /\ LogPlace(klog_tail', i) = LogPlace(klog_tail, i + 1)
            /\ LogPlace(klog_tail, i + 1) \in 0 .. S - 1
            /\ LogPlace(klog_tail, i + 1) # klog_head
        BY <1>1, <1>4, <1>6, <1>8, <2>3, <3>3 DEF LogPlace
      <4>2. klog_buffer'[LogPlace(klog_tail, i + 1)]
                = klog_buffer[LogPlace(klog_tail, i + 1)]
        BY <4>1, <1>4
      <4>3. new[i] = Tail(klog_dump)[i]
        BY <1>1, <2>1, <3>3
      <4>4. klog_dump[i + 1] = klog_buffer[LogPlace(klog_tail, i + 1)]
        BY <1>1, <1>2, <1>8, <3>3
      <4>. QED  BY <3>1, <3>3, <4>1, <4>2, <4>3, <4>4, <2>1
    <3>4. i = S \/ i \in 1 .. S - 1
      BY <1>1
    <3>. QED  BY <3>2, <3>3, <3>4, Zenon
  <2>5. klog_dump' = new
    <3> HIDE DEF new
    <3>. QED  BY <1>1, <1>3, <1>6, <1>8, <2>2, <2>4, SameSequence
  <2>. QED  BY <2>5, <1>1, <1>2, <1>8 DEF Window!Push, S
<1>. QED  BY <1>1, <1>4, <1>7, <1>8

\* The view of an empty ring is empty.
LEMMA EmptyDump == KlogInv /\ klog_count = 0 => klog_dump = <<>>
<1> SUFFICES ASSUME KlogInv, klog_count = 0 PROVE klog_dump = <<>>
  OBVIOUS
<1>1. klog_dump \in Seq(LogChar \cup {NUL}) /\ Len(klog_dump) = 0
  BY DumpIs
<1>. QED  BY <1>1

(***************************************************************************)
(* For every size of its ring, kernel/klog.c implements LogWindow: what    *)
(* klog_dump and klog_read_bytes see is always the newest characters that  *)
(* were logged, in their order.                                            *)
(***************************************************************************)
THEOREM WindowCorrect == KlogSpec => ImplementsWindow
<1>1. KlogInit => Window!Init
  <2> SUFFICES ASSUME KlogInit PROVE klog_dump = <<>>
    BY DEF Window!Init
  <2>1. KlogInv /\ klog_count = 0
    BY KlogInitInv DEF KlogInit
  <2>. QED  BY <2>1, EmptyDump
<1>2. KlogInv /\ KlogInv' /\ [KlogNext]_klog_vars => [Window!Next]_klog_dump
  <2> SUFFICES ASSUME KlogInv, KlogInv', [KlogNext]_klog_vars
               PROVE  Window!Next \/ klog_dump' = klog_dump
    OBVIOUS
  <2>1. ASSUME NEW msg \in Messages, klog(msg) PROVE klog_dump' = klog_dump
    BY <2>1 DEF klog, ring, klog_dump, klog_read_bytes
  <2>2. CASE klog_push_char
    <3>1. Head(todo) \in LogChar
      BY <2>2 DEF klog_push_char, KlogInv, KlogTypeOK
    <3>2. Window!Push(Head(todo))
      BY <2>2, PushIsPush
    <3>. QED  BY <3>1, <3>2 DEF Window!Next
  <2>3. CASE klog_clear
    <3>1. (KlogInv /\ klog_count = 0 => klog_dump = <<>>)'
      BY EmptyDump, PTL
    <3>2. klog_dump' = <<>>
      BY <3>1, <2>3 DEF klog_clear
    <3>. QED  BY <3>2 DEF Window!Next, Window!Clear
  <2>4. CASE UNCHANGED klog_vars
    BY <2>4 DEF klog_vars, ring, klog_dump, klog_read_bytes
  <2>. QED  BY <2>1, <2>2, <2>3, <2>4 DEF KlogNext
<1>. QED  BY <1>1, <1>2, KlogInvariance, PTL
          DEF KlogSpec, ImplementsWindow, Window!Spec
=============================================================================
