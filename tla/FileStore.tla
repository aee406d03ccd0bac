----------------------------- MODULE FileStore -----------------------------
(***************************************************************************)
(* What the RAM file system promises: a map from at most MAX_FILES names   *)
(* to contents of at most MAX_DATA bytes.                                  *)
(***************************************************************************)
EXTENDS Integers, Sequences, FiniteSets

CONSTANTS
    Names, MAX_FILES, MAX_DATA,
    Bytes,      \* what a file can hold
    Texts,      \* what can be written in place of the contents
    Chars       \* what can be written at an offset

VARIABLE store

Without(n) == [m \in DOMAIN store \ {n} |-> store[m]]
With(n, s) == [m \in DOMAIN store \cup {n} |-> IF m = n THEN s ELSE store[m]]

Init == store = <<>>

\* A new file, or new contents for an old one, cut off at MAX_DATA.
Cut(s) == IF Len(s) > MAX_DATA THEN SubSeq(s, 1, MAX_DATA) ELSE s
Put(n, s) ==
    /\ n \in DOMAIN store \/ Cardinality(DOMAIN store) < MAX_FILES
    /\ store' = With(n, s)

\* k bytes from offset off on become b; what a gap holds is not promised.
Patch(n, off, k, b) ==
    /\ n \in DOMAIN store /\ off + k <= MAX_DATA
    /\ \E gap \in [Len(store[n]) + 1 .. off -> Bytes] :
        LET old == store[n]
            len == IF off + k > Len(old) THEN off + k ELSE Len(old)
        IN  store' = With(n, [i \in 1 .. len |->
                        CASE i \in off + 1 .. off + k -> b
                          [] i \in DOMAIN gap -> gap[i]
                          [] OTHER -> old[i]])

Remove(n) == n \in DOMAIN store /\ store' = Without(n)

Next ==
    \E n \in Names :
        \/ \E s \in Texts \cup {<<>>} : Put(n, Cut(s))
        \/ \E off, k \in 0 .. MAX_DATA, b \in Chars : Patch(n, off, k, b)
        \/ Remove(n)

Spec == Init /\ [][Next]_store
=============================================================================
