-------------------------- MODULE MCBtHciReadBulk --------------------------
(* Instances of BtHciReadBulk for TLC. *)
EXTENDS BtHciReadBulk, TLC

Symmetry == Permutations(Readers)
===========================================================================
