------------------------------ MODULE Keyboard ------------------------------
(***************************************************************************)
(* The PS/2 keyboard of drivers/keyboard.c: the handler of IRQ1, which     *)
(* decodes scancodes into a ring buffer, and keyboard_read, which the      *)
(* kernel thread executes with interrupts enabled.  The handler may run    *)
(* between any two steps of keyboard_read; hlt sleeps until some interrupt *)
(* comes, so a key that arrives between the test and the hlt has already   *)
(* been served and does not end the hlt.                                   *)
(***************************************************************************)
EXTENDS Integers, Sequences

CONSTANTS
    Size,           \* places of kb_buffer (256)
    Letters,        \* keys a-z: caps lock applies to them
    Symbols,        \* other keys with a character in both tables
    DeadKeys,       \* keys whose table entry is 0 (Ctrl, Alt, function keys)
    NONE            \* no character

ASSUME KeyboardAssumption ==
    /\ Size \in Nat \ {0}
    /\ NONE \notin (Letters \cup Symbols) \X {"plain", "shifted"}
    /\ DeadKeys \cap (Letters \cup Symbols) = {}

VARIABLES
    kb_buffer, kb_head, kb_tail,
    shift_pressed, caps_lock,
    pc,             \* where keyboard_read is; "return" when nobody reads
    c,              \* its local variable
    result          \* history: what the last keyboard_read has returned

driver == <<kb_buffer, kb_head, shift_pressed, caps_lock>>
reader == <<kb_tail, c, result>>
vars == <<driver, reader, pc>>

Keys == Letters \cup Symbols \cup DeadKeys
Char == (Letters \cup Symbols) \X {"plain", "shifted"}
Index == 0 .. Size - 1

NextIndex(i) == (i + 1) % Size

Init ==
    /\ kb_buffer = [i \in Index |-> NONE]
    /\ kb_head = 0
    /\ kb_tail = 0
    /\ shift_pressed = FALSE
    /\ caps_lock = FALSE
    /\ pc = "return"
    /\ c = NONE
    /\ result = NONE

----------------------------------------------------------------------------
(***************************************************************************)
(* Interrupts.  Each one ends the hlt of a reader.                         *)
(***************************************************************************)
Wake == pc' = IF pc = "hlt" THEN "test" ELSE pc

Shift(down) ==
    /\ shift_pressed' = down
    /\ Wake
    /\ UNCHANGED <<kb_buffer, kb_head, caps_lock, reader>>

CapsLock ==
    /\ caps_lock' = ~caps_lock
    /\ Wake
    /\ UNCHANGED <<kb_buffer, kb_head, shift_pressed, reader>>

\* Bit 7 of a scancode: the release of a key is ignored.
KeyRelease == Wake /\ UNCHANGED <<driver, reader>>

\* The tables give the plain or the shifted character; caps lock swaps the
\* case of a letter.
Decode(key) ==
    IF key \in DeadKeys THEN NONE
    ELSE <<key, IF shift_pressed # (caps_lock /\ key \in Letters)
                THEN "shifted" ELSE "plain">>

\* Mutant: the buffer is never full.
NeverFull == FALSE

Full == NextIndex(kb_head) = kb_tail

KeyPress(key) ==
    /\ IF Decode(key) # NONE /\ ~Full
       THEN /\ kb_buffer' = [kb_buffer EXCEPT ![kb_head] = Decode(key)]
            /\ kb_head' = NextIndex(kb_head)
       ELSE UNCHANGED <<kb_buffer, kb_head>>
    /\ Wake
    /\ UNCHANGED <<shift_pressed, caps_lock, reader>>

keyboard_handler ==
    \/ \E down \in BOOLEAN : Shift(down)
    \/ CapsLock
    \/ KeyRelease
    \/ \E key \in Keys : KeyPress(key)

\* IRQ0, which comes a thousand times a second.
timer_irq == Wake /\ UNCHANGED <<driver, reader>>

----------------------------------------------------------------------------
(***************************************************************************)
(* keyboard_read                                                           *)
(***************************************************************************)
Call ==
    /\ pc = "return"
    /\ pc' = "test"
    /\ UNCHANGED <<driver, reader>>

\* Mutant: one character in the buffer is taken for none.
EmptyOffByOne == kb_head = kb_tail \/ kb_head = NextIndex(kb_tail)

Empty == kb_head = kb_tail

Test ==
    /\ pc = "test"
    /\ pc' = IF Empty THEN "hlt" ELSE "load"
    /\ UNCHANGED <<driver, reader>>

\* Mutant: the place is given back before it is read.
LoadAfterAdvance ==
    /\ pc = "load"
    /\ kb_tail' = NextIndex(kb_tail)
    /\ pc' = "advance"
    /\ UNCHANGED <<driver, c, result>>

Load ==
    /\ pc = "load"
    /\ c' = kb_buffer[kb_tail]
    /\ pc' = "advance"
    /\ UNCHANGED <<driver, kb_tail, result>>

Advance ==
    /\ pc = "advance"
    /\ kb_tail' = NextIndex(kb_tail)
    /\ result' = c
    /\ pc' = "return"
    /\ UNCHANGED <<driver, c>>

keyboard_read == Call \/ Test \/ Load \/ Advance

Next == keyboard_handler \/ timer_irq \/ keyboard_read

Spec == Init /\ [][Next]_vars

\* The kernel thread keeps running and the PIT keeps ticking.
FairSpec ==
    Spec /\ WF_vars(Test) /\ WF_vars(Load) /\ WF_vars(Advance)
         /\ WF_vars(timer_irq)

----------------------------------------------------------------------------
(***************************************************************************)
(* Types of the driver's variables.                                        *)
(***************************************************************************)
TypeOK ==
    /\ kb_buffer \in [Index -> Char \cup {NONE}]
    /\ kb_head \in Index
    /\ kb_tail \in Index
    /\ shift_pressed \in BOOLEAN
    /\ caps_lock \in BOOLEAN
    /\ pc \in {"return", "test", "hlt", "load", "advance"}
    /\ c \in Char \cup {NONE}
    /\ result \in Char \cup {NONE}

(***************************************************************************)
(* While keyboard_read is between its test and its update of kb_tail, the  *)
(* place it reads stays occupied and unchanged, however many keys the      *)
(* handler stores meanwhile: neither side needs a lock.                    *)
(***************************************************************************)
PlaceIsReaders ==
    /\ pc \in {"load", "advance"} => kb_head # kb_tail
    /\ pc = "advance" => c = kb_buffer[kb_tail]

Count == (kb_head - kb_tail + Size) % Size
Contents == [i \in 1 .. Count |-> kb_buffer[(kb_tail + i - 1) % Size]]

Promise == INSTANCE CharQueue WITH
    Capacity <- Size - 1, queue <- Contents, out <- result

(***************************************************************************)
(* The ring buffer is a queue: readers get the characters in the order of  *)
(* the keys, each once, and keys are lost only while 255 wait, whatever    *)
(* the handler does between the steps of keyboard_read.                    *)
(***************************************************************************)
ImplementsQueue == Promise!Spec

(***************************************************************************)
(* A read returns once there is a character, even if the key came between  *)
(* the test of the loop and the hlt: the timer's interrupt ends that hlt.  *)
(***************************************************************************)
ReadsReturn == (pc # "return" /\ kb_head # kb_tail) ~> pc = "return"
=============================================================================
