----------------------------- MODULE MCKeyboard -----------------------------
(***************************************************************************)
(* An instance of Keyboard for TLC: four places, so that the buffer wraps  *)
(* around and fills up with three characters.                              *)
(***************************************************************************)
EXTENDS Keyboard
=============================================================================
