----------------------------- MODULE CharQueue -----------------------------
(***************************************************************************)
(* What the keyboard driver promises to its readers: a queue of at most    *)
(* Capacity characters.  A key puts its character behind the others, or is *)
(* lost if the queue is full; a read takes the oldest one.                 *)
(***************************************************************************)
EXTENDS Integers, Sequences

CONSTANTS Char, Capacity

VARIABLES queue, out

Init == queue = <<>> /\ out \notin Char

Put(c) ==
    /\ Len(queue) < Capacity
    /\ queue' = Append(queue, c)
    /\ UNCHANGED out

Get ==
    /\ queue # <<>>
    /\ out' = Head(queue)
    /\ queue' = Tail(queue)

Next == (\E c \in Char : Put(c)) \/ Get

Spec == Init /\ [][Next]_<<queue, out>>
=============================================================================
