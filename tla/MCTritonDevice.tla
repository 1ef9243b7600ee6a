--------------------------- MODULE MCTritonDevice ---------------------------
(* Instances of TritonDevice for TLC. *)
EXTENDS TritonDevice, TLC

Symmetry == Permutations(Files) \cup Permutations(Callers)

(* Bound: no behaviour goes on once a clash of requests has met an overlap *)
(* of opens or what is left of a removed device, and those two are         *)
(* followed with one request.                                              *)
Bounded ==
  overlap \/ pulled => requests <= 1 /\ ~clash
===========================================================================
