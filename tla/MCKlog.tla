------------------------------- MODULE MCKlog -------------------------------
(***************************************************************************)
(* An instance of Klog for TLC: a ring of three places and messages of up  *)
(* to four characters, so that one message can replace the whole ring.     *)
(***************************************************************************)
EXTENDS Klog
=============================================================================
