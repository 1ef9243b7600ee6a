-------------------------- MODULE MCTritonMailbox --------------------------
(* Instances of TritonMailbox for TLC. *)
EXTENDS TritonMailbox
===========================================================================
