--------------------------- MODULE MailboxChannel ---------------------------
(***************************************************************************)
(* What the mailbox of triton_ep.c promises its two ends: a channel down   *)
(* and a channel up, each with room for one message. TritonMailbox is the  *)
(* implementation.                                                         *)
(*                                                                         *)
(* A writer offers a message, the M3 takes it, and only then the offer     *)
(* ends, with success. The M3 puts a message into the up channel, a reader *)
(* gets it, once, and only then there is room for the next.                *)
(*                                                                         *)
(* The promise for a direction is kept as long as its users keep to the    *)
(* protocol. Once they do not, that direction may do anything; the other   *)
(* may not. The two move independently, or at the same time.               *)
(***************************************************************************)
EXTENDS Integers

VARIABLES
  kept,     \* the directions whose users have kept to the protocol
  offer,    \* the message a writer offers, or 0
  taken,    \* the last message the M3 took
  slot,     \* the message in the up channel, or 0
  got       \* the last message a reader got

downVars == <<offer, taken>>
upVars == <<slot, got>>
vars == <<kept, downVars, upVars>>

Init ==
  /\ kept = {"writes", "reads"}
  /\ offer = 0 /\ taken = 0
  /\ slot = 0 /\ got = 0

(* Messages are numbered; a write that fails before it is offered leaves   *)
(* a number out.                                                           *)
Offer ==
  /\ offer = 0
  /\ offer' > taken
  /\ UNCHANGED taken

Take ==
  /\ offer > taken
  /\ taken' = offer
  /\ UNCHANGED offer

Succeed ==
  /\ offer # 0 /\ offer = taken
  /\ offer' = 0
  /\ UNCHANGED taken

Put ==
  /\ slot = 0
  /\ slot' = got + 1
  /\ UNCHANGED got

Get ==
  /\ slot # 0 /\ slot # got
  /\ got' = slot
  /\ UNCHANGED slot

Vacate ==
  /\ slot # 0 /\ slot = got
  /\ slot' = 0
  /\ UNCHANGED got

DownStep == Offer \/ Take \/ Succeed
UpStep == Put \/ Get \/ Vacate

Next ==
  /\ kept' \subseteq kept
  /\ "writes" \in kept' => DownStep \/ UNCHANGED downVars
  /\ "reads" \in kept' => UpStep \/ UNCHANGED upVars

Spec == Init /\ [][Next]_vars
===========================================================================
