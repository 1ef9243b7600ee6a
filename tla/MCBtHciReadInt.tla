-------------------------- MODULE MCBtHciReadInt --------------------------
(* Instances of BtHciReadInt for TLC. *)
EXTENDS BtHciReadInt, TLC

Symmetry == Permutations(Readers)
===========================================================================
