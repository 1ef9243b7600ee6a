--------------------------- MODULE BtHciReadInt ---------------------------
(***************************************************************************)
(* The HCI event (INT IN) read path of src/BT/bt_hci.c: bt_hci_read_int    *)
(* and bt_hci_read_int_callback, with the open, suspend, reset and         *)
(* disconnect handlers.                                                    *)
(*                                                                         *)
(* One mutex, io_mutex, covers the whole of read_int, including the sleep  *)
(* for the event, every open and release of an HCI file, and the stretch   *)
(* from pre_reset to post_reset. An open of an ACL file re-initialises the *)
(* completion without it.                                                  *)
(***************************************************************************)
EXTENDS Integers

CONSTANTS
  Readers,        \* threads that call read(2) on an HCI file
  Nobody,         \* io_mutex is free
  Core,           \* the USB core, as the holder of io_mutex during a reset
  MaxEvent,       \* bound: bytes in one event
  SizeMod,        \* size_t counts modulo this
  MaxTransfers,   \* bound: transfers the core accepts
  MaxResets,      \* bound: USB port resets
  MaxHciOpens,    \* bound: further opens of an HCI file
  MaxAclOpens     \* bound: further opens of an ACL file

ASSUME ReadIntAssumption ==
  /\ Nobody \notin Readers /\ Core \notin Readers /\ Nobody # Core
  /\ MaxEvent \in Nat \ {0}
  /\ SizeMod \in Nat /\ SizeMod > 3 * MaxEvent
  /\ MaxTransfers \in Nat
  /\ MaxResets \in Nat
  /\ MaxHciOpens \in Nat
  /\ MaxAclOpens \in Nat

VARIABLES
  pc,          \* where each reader is in bt_hci_read_int
  mutex,       \* the holder of dev->io_mutex
  filled,      \* dev->int_in_filled
  copied,      \* dev->int_in_copied
  ongoing,     \* dev->ongoing_read_int
  errors,      \* dev->int_read_errors
  done,        \* dev->int_in_completion.done
  orphans,     \* readers left on a wait queue that init_completion forgot
  active,      \* the core or the controller owns int_in_urb
  completing,  \* the callback has yet to call complete()
  transfers, resets, hciOpens, aclOpens,
  power,       \* what a reset or a suspend is doing
  link,        \* how far the USB core is with disconnecting the device
  interface,   \* dev->interface is not NULL
  leftBehind,  \* history: a read has gone on while its URB was active
  handed,      \* history: bytes of the last event that callers have got
  faulted      \* history: a copy_to_user of the last event has failed

handVars == <<handed, faulted>>
dataVars == <<filled, copied, handVars>>
syncVars == <<done, orphans>>
urbVars == <<active, completing, transfers, leftBehind>>
envVars == <<resets, hciOpens, aclOpens, power, link, interface>>
vars == <<pc, mutex, dataVars, ongoing, errors, syncVars, urbVars, envVars>>

Error == {"none", "pipe", "io"}
HoldPc == {"top", "sample", "mark", "submit", "wait", "errs", "drop", "deliver"}
Pc == {"idle", "lock"} \cup HoldPc

(* int_in_copied is followed up to here: beyond filled, all that matters   *)
(* is that the difference has wrapped.                                     *)
CopiedCap == 2 * MaxEvent

TypeOK ==
  /\ pc \in [Readers -> Pc]
  /\ mutex \in Readers \cup {Nobody, Core}
  /\ filled \in 0..MaxEvent
  /\ copied \in 0..CopiedCap
  /\ ongoing \in BOOLEAN
  /\ errors \in Error
  /\ done \in Nat
  /\ orphans \subseteq Readers
  /\ active \in BOOLEAN
  /\ completing \in BOOLEAN
  /\ transfers \in 0..MaxTransfers
  /\ resets \in 0..MaxResets
  /\ hciOpens \in 0..MaxHciOpens
  /\ aclOpens \in 0..MaxAclOpens
  /\ power \in {"on", "prereset", "clearing", "killing", "drained", "suspended"}
  /\ link \in {"up", "disabled", "gone"}
  /\ interface \in BOOLEAN
  /\ leftBehind \in BOOLEAN
  /\ handed \in 0..CopiedCap
  /\ faulted \in BOOLEAN

Init ==
  /\ pc = [r \in Readers |-> "idle"]
  /\ mutex = Nobody
  /\ filled = 0 /\ copied = 0
  /\ ongoing = FALSE
  /\ errors = "none"
  /\ done = 0
  /\ orphans = {}
  /\ active = FALSE /\ completing = FALSE
  /\ transfers = 0 /\ resets = 0 /\ hciOpens = 0 /\ aclOpens = 0
  /\ power = "on"
  /\ link = "up"
  /\ interface = TRUE
  /\ leftBehind = FALSE
  /\ handed = 0 /\ faulted = FALSE

Goto(r, l) ==
  /\ pc' = [pc EXCEPT ![r] = l]
  /\ UNCHANGED mutex

(* Leave through the label exit: drop the mutex and return. *)
Return(r) ==
  /\ pc' = [pc EXCEPT ![r] = "idle"]
  /\ mutex' = Nobody

Least(a, b) == IF a < b THEN a ELSE b

(* size_t available, and what one read hands out of it. *)
Available == (filled - copied) % SizeMod
Chunk(count) == Least(Available, count)

---------------------------------------------------------------------------
(* bt_hci_read_int *)

StartRead(r) ==
  /\ pc[r] = "idle"
  /\ power # "suspended"
  /\ pc' = [pc EXCEPT ![r] = "lock"]
  /\ UNCHANGED <<mutex, dataVars, ongoing, errors, syncVars, urbVars, envVars>>

(* mutex_lock_interruptible, then the test of dev->interface. *)
LockRead(r) ==
  /\ pc[r] = "lock"
  /\ mutex = Nobody
  /\ mutex' = IF interface THEN r ELSE Nobody
  /\ pc' = [pc EXCEPT ![r] = IF interface THEN "top" ELSE "idle"]
  /\ UNCHANGED <<dataVars, ongoing, errors, syncVars, urbVars, envVars>>

LockInterrupted(r) ==
  /\ pc[r] = "lock"
  /\ mutex # Nobody
  /\ Goto(r, "idle")
  /\ UNCHANGED <<dataVars, ongoing, errors, syncVars, urbVars, envVars>>

TestFilled(r) ==
  /\ pc[r] = "top"
  /\ Goto(r, IF filled = 0 THEN "sample" ELSE "errs")
  /\ UNCHANGED <<dataVars, ongoing, errors, syncVars, urbVars, envVars>>

(* Whether the file has O_NONBLOCK matters once in a call, here or after   *)
(* the submission. With a URB already submitted a blocking read falls      *)
(* through to the error test and the copy.                                 *)
FindOngoing(r) ==
  /\ pc[r] = "sample"
  /\ ongoing
  /\ Return(r) \/ Goto(r, "errs")
  /\ UNCHANGED <<dataVars, ongoing, errors, syncVars, urbVars, envVars>>

FaultySubmitAnyway(r) ==     \* the flag is not looked at
  /\ pc[r] = "sample"
  /\ Goto(r, "mark")
  /\ UNCHANGED <<dataVars, ongoing, errors, syncVars, urbVars, envVars>>

FindIdle(r) ==
  /\ pc[r] = "sample"
  /\ ~ongoing
  /\ IF errors = "none"
     THEN Goto(r, "mark") /\ UNCHANGED <<errors, filled>>
     ELSE Return(r) /\ errors' = "none" /\ filled' = 0
  /\ UNCHANGED <<copied, handVars, ongoing, syncVars, urbVars, envVars>>

MarkOngoing(r) ==
  /\ pc[r] = "mark"
  /\ ongoing' = TRUE
  /\ Goto(r, "submit")
  /\ UNCHANGED <<dataVars, errors, syncVars, urbVars, envVars>>

SubmitAccepted(r) ==
  /\ pc[r] = "submit"
  /\ ~active
  /\ link = "up"
  /\ transfers < MaxTransfers
  /\ transfers' = transfers + 1
  /\ active' = TRUE
  /\ \/ Return(r) /\ leftBehind' = TRUE
     \/ Goto(r, "wait") /\ UNCHANGED leftBehind
  /\ UNCHANGED <<dataVars, ongoing, errors, syncVars, completing, envVars>>

FaultyUnlock(r) ==           \* returns without mutex_unlock
  /\ pc[r] = "submit"
  /\ filled' = 0
  /\ ongoing' = FALSE
  /\ Goto(r, "idle")
  /\ UNCHANGED <<copied, handVars, errors, syncVars, urbVars, envVars>>

SubmitRefused(r) ==
  /\ pc[r] = "submit"
  /\ filled' = 0
  /\ ongoing' = FALSE
  /\ Return(r)
  /\ UNCHANGED <<copied, handVars, errors, syncVars, urbVars, envVars>>

CompletionCounted == done > 0

(* What the wait consumes may be the completion of an earlier URB, whose   *)
(* reader was interrupted; then this reader's own URB is still active.     *)
WaitCompleted(r) ==
  /\ pc[r] = "wait"
  /\ r \notin orphans
  /\ CompletionCounted
  /\ done' = done - 1
  /\ leftBehind' = (leftBehind \/ active)
  /\ Goto(r, "errs")
  /\ UNCHANGED <<dataVars, ongoing, errors, orphans, active, completing, transfers, envVars>>

WaitInterrupted(r) ==
  /\ pc[r] = "wait"
  /\ orphans' = orphans \ {r}
  /\ leftBehind' = (leftBehind \/ active)
  /\ Return(r)
  /\ UNCHANGED <<dataVars, ongoing, errors, done, active, completing, transfers, envVars>>

TestErrors(r) ==
  /\ pc[r] = "errs"
  /\ Goto(r, IF errors = "none" THEN "deliver" ELSE "drop")
  /\ UNCHANGED <<dataVars, ongoing, errors, syncVars, urbVars, envVars>>

ReportError(r) ==
  /\ pc[r] = "drop"
  /\ errors' = "none"
  /\ filled' = 0
  /\ Return(r)
  /\ UNCHANGED <<copied, handVars, ongoing, syncVars, urbVars, envVars>>

FaultyDelivered(n) ==        \* what is left of the event is dropped
  /\ copied' = Least(copied + n, CopiedCap)
  /\ filled' = 0

Delivered(n) ==
  IF filled > 0 /\ Available > n
  THEN copied' = Least(copied + n, CopiedCap) /\ filled' = filled
  ELSE copied' = (IF filled > 0 THEN 0 ELSE copied) /\ filled' = 0

(* The argument count is used only here. *)
Deliver(r) ==
  /\ pc[r] = "deliver"
  /\ \E count \in 1..MaxEvent :
       /\ Delivered(Chunk(count))
       /\ handed' = IF filled > 0 THEN Least(handed + Chunk(count), CopiedCap) ELSE handed
  /\ Return(r)
  /\ UNCHANGED <<faulted, ongoing, errors, syncVars, urbVars, envVars>>

(* copy_to_user fails: the caller gets -EFAULT and none of the bytes, but  *)
(* the counters move as if it had got them.                                *)
DeliverFault(r) ==
  /\ pc[r] = "deliver"
  /\ filled > 0
  /\ \E count \in 1..MaxEvent : Delivered(Chunk(count))
  /\ faulted' = TRUE
  /\ Return(r)
  /\ UNCHANGED <<handed, ongoing, errors, syncVars, urbVars, envVars>>

ReaderStep(r) ==
  \/ LockRead(r) \/ TestFilled(r) \/ FindOngoing(r) \/ FindIdle(r)
  \/ MarkOngoing(r) \/ SubmitAccepted(r) \/ SubmitRefused(r)
  \/ WaitCompleted(r) \/ TestErrors(r) \/ ReportError(r)
  \/ Deliver(r) \/ DeliverFault(r)

---------------------------------------------------------------------------
(* bt_hci_read_int_callback: the part under err_lock, then complete().     *)

CallbackEvent ==
  /\ active /\ ~completing
  /\ \/ /\ filled' \in 0..MaxEvent
        /\ errors' = "none"
        /\ handed' = 0 /\ faulted' = FALSE
     \/ /\ errors' = "io"
        /\ UNCHANGED <<filled, handVars>>
  /\ ongoing' = FALSE
  /\ active' = FALSE
  /\ completing' = TRUE
  /\ UNCHANGED <<pc, mutex, copied, syncVars, transfers, leftBehind, envVars>>

FaultyComplete == done

Completed == done + 1

CallbackComplete ==
  /\ completing
  /\ completing' = FALSE
  /\ done' = Completed
  /\ UNCHANGED <<pc, mutex, dataVars, ongoing, errors, orphans, active, transfers, leftBehind, envVars>>

---------------------------------------------------------------------------
(* The other handlers. *)

(* init_completion: a reader already asleep is on a forgotten wait queue. *)
ForgetWaiters ==
  /\ done' = 0
  /\ \E asleep \in SUBSET {r \in Readers : pc[r] = "wait"} :
       orphans' = orphans \cup asleep

HciOpen ==
  /\ hciOpens < MaxHciOpens
  /\ interface
  /\ mutex = Nobody
  /\ hciOpens' = hciOpens + 1
  /\ filled' = 0
  /\ errors' = "none"
  /\ ForgetWaiters
  /\ UNCHANGED <<pc, mutex, copied, handVars, ongoing, urbVars, resets, aclOpens, power, link, interface>>

AclOpen ==
  /\ aclOpens < MaxAclOpens
  /\ interface
  /\ aclOpens' = aclOpens + 1
  /\ ForgetWaiters
  /\ UNCHANGED <<pc, mutex, dataVars, ongoing, errors, urbVars, resets, hciOpens, power, link, interface>>

StartReset ==
  /\ power = "on" /\ link = "up"
  /\ resets < MaxResets
  /\ resets' = resets + 1
  /\ power' = "prereset"
  /\ UNCHANGED <<pc, mutex, dataVars, ongoing, errors, syncVars, urbVars, hciOpens, aclOpens, link, interface>>

PreResetLock ==
  /\ power = "prereset"
  /\ mutex = Nobody
  /\ mutex' = Core
  /\ power' = "clearing"
  /\ UNCHANGED <<pc, dataVars, ongoing, errors, syncVars, urbVars, resets, hciOpens, aclOpens, link, interface>>

DrawDownClear ==
  /\ power = "clearing"
  /\ ongoing' = FALSE
  /\ power' = "killing"
  /\ UNCHANGED <<pc, mutex, dataVars, errors, syncVars, urbVars, resets, hciOpens, aclOpens, link, interface>>

FaultyNoKill == TRUE

(* usb_kill_urb returns once the URB is idle and its callback has ended. *)
UrbIdle == ~active /\ ~completing

DrawDownKilled ==
  /\ power = "killing"
  /\ UrbIdle
  /\ power' = "drained"
  /\ UNCHANGED <<pc, mutex, dataVars, ongoing, errors, syncVars, urbVars, resets, hciOpens, aclOpens, link, interface>>

PostReset ==
  /\ power = "drained"
  /\ errors' = "pipe"
  /\ mutex' = Nobody
  /\ power' = "on"
  /\ UNCHANGED <<pc, dataVars, ongoing, syncVars, urbVars, resets, hciOpens, aclOpens, link, interface>>

(* suspend finds every task frozen outside the driver; killing the URB     *)
(* makes the callback record -ENOENT.                                      *)
Suspend ==
  /\ power = "on" /\ link = "up"
  /\ \A r \in Readers : pc[r] = "idle"
  /\ ~completing
  /\ ongoing' = FALSE
  /\ active' = FALSE
  /\ errors' = IF active THEN "io" ELSE errors
  /\ done' = IF active THEN Completed ELSE done
  /\ power' = "suspended"
  /\ UNCHANGED <<pc, mutex, dataVars, orphans, completing, transfers, leftBehind, resets, hciOpens, aclOpens, link, interface>>

Resume ==
  /\ power = "suspended"
  /\ power' = "on"
  /\ UNCHANGED <<pc, mutex, dataVars, ongoing, errors, syncVars, urbVars, resets, hciOpens, aclOpens, link, interface>>

DisableEndpoints ==
  /\ link = "up" /\ power = "on"
  /\ link' = "disabled"
  /\ UNCHANGED <<pc, mutex, dataVars, ongoing, errors, syncVars, urbVars, resets, hciOpens, aclOpens, power, interface>>

Disconnect ==
  /\ link = "disabled"
  /\ UrbIdle
  /\ interface' = FALSE
  /\ link' = "gone"
  /\ UNCHANGED <<pc, mutex, dataVars, ongoing, errors, syncVars, urbVars, resets, hciOpens, aclOpens, power>>

CoreStep ==
  PreResetLock \/ DrawDownClear \/ DrawDownKilled \/ PostReset \/ Resume \/ Disconnect

Next ==
  \/ \E r \in Readers :
       \/ StartRead(r) \/ LockInterrupted(r) \/ WaitInterrupted(r)
       \/ ReaderStep(r)
  \/ CallbackEvent \/ CallbackComplete
  \/ HciOpen \/ AclOpen \/ StartReset \/ Suspend \/ DisableEndpoints \/ CoreStep

Spec == Init /\ [][Next]_vars

(* A thread in the kernel keeps running and the mutex is FIFO. The device  *)
(* may stay silent for ever, but a URB that is killed is given back.       *)
Killed == link = "disabled" \/ power = "killing"

Fairness ==
  /\ \A r \in Readers : WF_vars(ReaderStep(r)) /\ SF_vars(LockRead(r))
  /\ WF_vars(Killed /\ CallbackEvent)
  /\ WF_vars(CallbackComplete)
  /\ WF_vars(CoreStep) /\ SF_vars(PreResetLock)

FairSpec == Spec /\ Fairness

---------------------------------------------------------------------------
(* Safety *)

(* A set flag means there is a URB whose callback will clear it, or a      *)
(* reader about to submit one.                                             *)
OngoingHasUrb ==
  ongoing => active \/ \E r \in Readers : pc[r] = "submit"

(* Nobody submits the URB while it is active: io_mutex, unlike the mutex   *)
(* of the bulk path, keeps draw_down and the readers apart.                *)
ActiveUrbLeftAlone ==
  \A r \in Readers : pc[r] \in {"mark", "submit"} => ~active

(* Unless the completion was re-initialised, a reader that waits has a     *)
(* completion coming or already counted.                                   *)
NoLostWakeup ==
  \A r \in Readers :
    hciOpens + aclOpens = 0 /\ pc[r] = "wait" => active \/ completing \/ done > 0

(* No read has left its URB behind (as a non-blocking or interrupted one   *)
(* does, and one that consumes the completion of an interrupted one), and  *)
(* there was no reset and no HCI open.                                     *)
Quiet == ~leftBehind /\ resets + hciOpens = 0

(* While the reads are quiet the controller never writes into a buffer     *)
(* that holds an unread event, and the offset of the next byte to hand out *)
(* lies within the event.                                                  *)
EventKeptIntact ==
  Quiet => copied <= filled /\ (active => filled = 0)

(* An event arrives in an empty buffer, to be read from its beginning. A   *)
(* read gives its caller the bytes that follow those that callers have     *)
(* got, and the event leaves the buffer with its last byte, not before.    *)
HandedOut ==
  \/ CallbackEvent /\ filled = 0 /\ copied = 0 /\ copied' = 0
  \/ /\ handed = copied /\ handed < handed' /\ handed' <= filled
     /\ filled' = IF handed' = filled THEN 0 ELSE filled
     /\ copied' = IF handed' = filled THEN 0 ELSE handed'

(* While the reads are quiet the callers of read get every byte of an      *)
(* event, once and in order, before it leaves the buffer. An event of      *)
(* which a copy_to_user failed is excepted: what that copy should have     *)
(* delivered is lost to the callers (bt_hci.c:911-931).                    *)
EventsHandedOut == [][Quiet' /\ ~faulted' => HandedOut]_dataVars

(* A reset's notice stays until a reader reports it or an HCI open clears  *)
(* it: pre_reset has killed the URB whose callback could overwrite it, and *)
(* nobody submits another one before post_reset.                           *)
ResetNoticePreserved ==
  [][errors = "pipe" /\ errors' # "pipe" =>
       HciOpen \/ \E r \in Readers : FindIdle(r) \/ ReportError(r)]_vars

(* Liveness *)

(* No reader stays in the driver, asleep or queued for the mutex, when the *)
(* device goes away, unless somebody has opened it while it was read.      *)
DisconnectFreesReaders ==
  \A r \in Readers :
    link = "disabled" /\ pc[r] \in {"lock", "wait"} ~>
      pc[r] = "idle" \/ hciOpens + aclOpens > 0

(* pre_reset queues for the mutex that a reader holds while it sleeps. If  *)
(* the device never keeps a transfer for ever, the reset completes, unless *)
(* somebody has opened the device while it was read.                       *)
ResetCompletes ==
  []<>~active => (power = "prereset" ~> power = "on" \/ hciOpens + aclOpens > 0)
===========================================================================
