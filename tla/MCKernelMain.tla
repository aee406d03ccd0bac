---------------------------- MODULE MCKernelMain ----------------------------
(***************************************************************************)
(* An instance of KernelMain for TLC: the clock just before the end of a   *)
(* year, of February in a leap year and before noon, boards with every     *)
(* kind of drive, a screen of 3 rows of 4 columns and a prompt of one.     *)
(***************************************************************************)
EXTENDS KernelMain

MCStarts == {Time(23, 59, 58, 31, 12, 23), Time(23, 59, 59, 28, 2, 24),
             Time(11, 59, 58, 4, 7, 24)}
MCFormats == [binary : BOOLEAN, h24 : BOOLEAN]

Board(a, b, c, d) == [i \in 0 .. 3 |-> <<a, b, c, d>>[i + 1]]
MCBoards == {Board("disk", "packet", "failing", "disk"),
             Board("absent", "absent", "absent", "absent"),
             Board("disk", "absent", "floating", "floating")}

MCOutputs == {<<>>, <<"x", "\t", "x", "\n">>}
MCPrompt == <<">">>
MCBanner == <<"\n", "\n">>
MCTyped == {"a", " "}
MCTaskPages == {{1}, {1, 2, 3, 4, 5, 6, 7}, {1, 2, 4, 5, 6}}
=============================================================================
