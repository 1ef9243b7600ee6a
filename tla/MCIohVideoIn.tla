---------------------------- MODULE MCIohVideoIn ----------------------------
(* Instances of IohVideoIn for TLC. *)
EXTENDS IohVideoIn
===========================================================================
