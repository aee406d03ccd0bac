-------------------------------- MODULE Klog --------------------------------
(***************************************************************************)
(* The kernel log of kernel/klog.c: klog formats a message and pushes it,  *)
(* character by character, into a ring buffer that drops its oldest        *)
(* characters; dmesg (klog_dump) and /proc/klog (klog_read_bytes) read it. *)
(* Only the kernel thread and a panic, which stops the rest, log.          *)
(***************************************************************************)
EXTENDS Integers, Sequences

CONSTANTS
    DIONNEX_KLOG_SIZE,  \* places of klog_buffer
    LogChar,            \* characters of messages
    NUL,                \* the byte 0
    MaxMessage          \* bound: characters of a formatted message

ASSUME KlogAssumption ==
    /\ DIONNEX_KLOG_SIZE \in Nat \ {0}
    /\ NUL \notin LogChar
    /\ MaxMessage \in Nat

VARIABLES
    klog_buffer, klog_head, klog_tail, klog_count,
    todo                \* characters of msg_buf that are still to be pushed

ring == <<klog_buffer, klog_head, klog_tail, klog_count>>
klog_vars == <<ring, todo>>

LogIndex == 0 .. DIONNEX_KLOG_SIZE - 1
NextLogIndex(i) == (i + 1) % DIONNEX_KLOG_SIZE

Messages == UNION {[1 .. n -> LogChar] : n \in 1 .. MaxMessage}

KlogInit ==
    /\ klog_buffer = [i \in LogIndex |-> NUL]
    /\ klog_head = 0
    /\ klog_tail = 0
    /\ klog_count = 0
    /\ todo = <<>>

\* The formatted message, header included.
klog(msg) ==
    /\ todo = <<>>
    /\ todo' = msg
    /\ UNCHANGED ring

CountOrMoveTail ==
    IF klog_count < DIONNEX_KLOG_SIZE
    THEN klog_count' = klog_count + 1 /\ UNCHANGED klog_tail
    ELSE klog_tail' = NextLogIndex(klog_tail) /\ UNCHANGED klog_count

klog_push_char ==
    /\ todo # <<>>
    /\ klog_buffer' = [klog_buffer EXCEPT ![klog_head] = Head(todo)]
    /\ klog_head' = NextLogIndex(klog_head)
    /\ CountOrMoveTail
    /\ todo' = Tail(todo)

\* Mutant: the tail is not reset.
klog_clear_keeps_tail ==
    /\ todo = <<>>
    /\ klog_buffer' = [i \in LogIndex |-> NUL]
    /\ klog_head' = 0
    /\ klog_count' = 0
    /\ UNCHANGED <<klog_tail, todo>>

klog_clear ==
    /\ todo = <<>>
    /\ klog_buffer' = [i \in LogIndex |-> NUL]
    /\ klog_head' = 0
    /\ klog_tail' = 0
    /\ klog_count' = 0
    /\ UNCHANGED todo

KlogNext ==
    \/ \E msg \in Messages : klog(msg)
    \/ klog_push_char
    \/ klog_clear

KlogSpec == KlogInit /\ [][KlogNext]_klog_vars

----------------------------------------------------------------------------
\* Mutant: the bytes are copied from the start of the buffer.
klog_read_bytes_unrolled(max_len) ==
    [i \in 1 .. IF klog_count < max_len THEN klog_count ELSE max_len |->
        klog_buffer[i - 1]]

\* The bytes that klog_read_bytes copies; klog_dump writes those of the
\* largest max_len.
klog_read_bytes(max_len) ==
    LET read_cnt == IF klog_count < max_len THEN klog_count ELSE max_len
    IN  [i \in 1 .. read_cnt |->
            klog_buffer[(klog_tail + i - 1) % DIONNEX_KLOG_SIZE]]

klog_dump == klog_read_bytes(DIONNEX_KLOG_SIZE)

(***************************************************************************)
(* Types of the ring's variables.                                          *)
(***************************************************************************)
KlogTypeOK ==
    /\ klog_buffer \in [LogIndex -> LogChar \cup {NUL}]
    /\ klog_head \in LogIndex
    /\ klog_tail \in LogIndex
    /\ klog_count \in 0 .. DIONNEX_KLOG_SIZE
    /\ todo \in Seq(LogChar)

(***************************************************************************)
(* The redundant indices of the ring agree: the head is the tail plus the  *)
(* count, so that a reader that starts at the tail ends at the head, and   *)
(* no reader meets a byte that was never written.                          *)
(***************************************************************************)
IndicesAgree ==
    /\ klog_head = (klog_tail + klog_count) % DIONNEX_KLOG_SIZE
    /\ klog_count = DIONNEX_KLOG_SIZE \/ klog_tail = 0
    /\ \A i \in LogIndex :
          klog_buffer[i] # NUL <=>
              i < klog_count \/ klog_count = DIONNEX_KLOG_SIZE

Window == INSTANCE LogWindow WITH
    Char <- LogChar, Capacity <- DIONNEX_KLOG_SIZE, window <- klog_dump

(***************************************************************************)
(* What dmesg shows after every character is exactly the newest characters *)
(* logged since the last clear, oldest first.                              *)
(***************************************************************************)
ImplementsWindow == Window!Spec
=============================================================================
