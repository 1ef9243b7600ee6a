------------------------- MODULE MCBtHciLifecycle -------------------------
(* Instances of BtHciLifecycle for TLC. *)
EXTENDS BtHciLifecycle
===========================================================================
