----------------------------- MODULE LogWindow -----------------------------
(***************************************************************************)
(* What the kernel log promises: its readers see the newest characters     *)
(* that were logged since it was last cleared, oldest first, as many of    *)
(* them as fit.                                                            *)
(***************************************************************************)
EXTENDS Integers, Sequences

CONSTANTS Char, Capacity

VARIABLE window

Init == window = <<>>

Push(c) ==
    window' = IF Len(window) < Capacity THEN Append(window, c)
              ELSE Append(Tail(window), c)

Clear == window' = <<>>

Next == (\E c \in Char : Push(c)) \/ Clear

Spec == Init /\ [][Next]_window
=============================================================================
