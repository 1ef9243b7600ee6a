--------------------------- MODULE MCBtHciWrite ---------------------------
(* Instances of BtHciWrite for TLC. *)
EXTENDS BtHciWrite, TLC

Symmetry == Permutations(Writers) \cup Permutations(Urbs)
===========================================================================
