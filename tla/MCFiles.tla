------------------------------- MODULE MCFiles -------------------------------
(***************************************************************************)
(* An instance of Files for TLC: two slots of two bytes, so that the table *)
(* fills up and every size meets its limit.                                *)
(***************************************************************************)
EXTENDS Files

CONSTANTS a, b, f, g, version

MCOpenPaths == {<<RAM, f>>, <<PROC, version>>}

\* Nothing, a byte, and one byte more than a file holds.
MCMessages == {<<>>, <<b>>, <<a, a, a>>}

\* A byte, more than a file holds, and a size that wraps from offset 1 on.
MCSizes == {1, 3, Mod - 1}
=============================================================================
