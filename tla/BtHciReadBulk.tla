--------------------------- MODULE BtHciReadBulk ---------------------------
(***************************************************************************)
(* The ACL (BULK IN) read path of src/BT/bt_hci.c: bt_hci_read_bulk,       *)
(* bt_hci_do_read_io_bulk and bt_hci_read_bulk_callback, with what the     *)
(* open, suspend, reset and disconnect handlers do to the state they use.  *)
(*                                                                         *)
(* There is one URB and one buffer. bulk_in_filled and bulk_in_copied are  *)
(* written by the reader that holds io_mutex_acl_r and, without that       *)
(* mutex, by the callback; ongoing_read_bulk is a hand-made lock on the    *)
(* URB that the reader tests under err_lock but acts upon after dropping   *)
(* it. Each stretch between two such points is an action.                  *)
(***************************************************************************)
EXTENDS Integers

CONSTANTS
  Readers,        \* threads that call read(2) on an ACL file
  NoReader,       \* io_mutex_acl_r is free
  MaxPacket,      \* bound: bytes in one transfer
  SizeMod,        \* size_t counts modulo this
  MaxTransfers,   \* bound: transfers the core accepts
  MaxResets,      \* bound: USB port resets
  MaxOpens        \* bound: open(2) calls made while the readers run

ASSUME ReadBulkAssumption ==
  /\ NoReader \notin Readers
  /\ MaxPacket \in Nat \ {0}
  /\ SizeMod \in Nat /\ SizeMod > 3 * MaxPacket
  /\ MaxTransfers \in Nat
  /\ MaxResets \in Nat
  /\ MaxOpens \in Nat

VARIABLES
  pc,          \* where each reader is in bt_hci_read_bulk
  nonblock,    \* its file has O_NONBLOCK
  mutex,       \* the reader that holds dev->io_mutex_acl_r
  filled,      \* dev->bulk_in_filled
  copied,      \* dev->bulk_in_copied
  ongoing,     \* dev->ongoing_read_bulk
  errors,      \* dev->bulk_read_errors
  done,        \* dev->bulk_in_completion.done
  orphans,     \* readers left on a wait queue that init_completion forgot
  active,      \* the core or the controller owns bulk_in_urb
  completing,  \* the callback has yet to call complete()
  transfers, resets, opens,
  power,       \* what a reset or a suspend is doing
  link,        \* how far the USB core is with disconnecting the device
  interface    \* dev->interface is not NULL

readerVars == <<pc, nonblock, mutex>>
dataVars == <<filled, copied>>
urbVars == <<active, completing, transfers>>
envVars == <<resets, opens, power, link, interface>>
vars == <<readerVars, dataVars, ongoing, errors, done, orphans, urbVars, envVars>>

Error == {"none", "pipe", "io"}
(* Where a reader is while it holds the mutex, by what it does next.       *)
HoldPc == {"top", "sample", "prepare", "mark", "submit", "errs", "drop", "wait", "after"}
Pc == {"idle", "lock"} \cup HoldPc

(* bulk_in_copied is followed up to here: beyond filled, all that matters  *)
(* is that the difference has wrapped.                                     *)
CopiedCap == 2 * MaxPacket

TypeOK ==
  /\ pc \in [Readers -> Pc]
  /\ nonblock \in [Readers -> BOOLEAN]
  /\ mutex \in Readers \cup {NoReader}
  /\ filled \in 0..MaxPacket
  /\ copied \in 0..CopiedCap
  /\ ongoing \in BOOLEAN
  /\ errors \in Error
  /\ done \in Nat
  /\ orphans \subseteq Readers
  /\ active \in BOOLEAN
  /\ completing \in BOOLEAN
  /\ transfers \in 0..MaxTransfers
  /\ resets \in 0..MaxResets
  /\ opens \in 0..MaxOpens
  /\ power \in {"on", "clearing", "killing", "drained", "suspended"}
  /\ link \in {"up", "disabled", "gone"}
  /\ interface \in BOOLEAN

Init ==
  /\ pc = [r \in Readers |-> "idle"]
  /\ nonblock = [r \in Readers |-> FALSE]
  /\ mutex = NoReader
  /\ filled = 0 /\ copied = 0
  /\ ongoing = FALSE
  /\ errors = "none"
  /\ done = 0
  /\ orphans = {}
  /\ active = FALSE /\ completing = FALSE
  /\ transfers = 0 /\ resets = 0 /\ opens = 0
  /\ power = "on"
  /\ link = "up"
  /\ interface = TRUE

Goto(r, l) ==
  /\ pc' = [pc EXCEPT ![r] = l]
  /\ UNCHANGED <<nonblock, mutex>>

(* Leave through the label exit: drop the mutex and return. *)
Return(r) ==
  /\ pc' = [pc EXCEPT ![r] = "idle"]
  /\ mutex' = NoReader
  /\ UNCHANGED nonblock

Least(a, b) == IF a < b THEN a ELSE b

(* size_t available, and what one read hands out of it. *)
Available == (filled - copied) % SizeMod
Chunk(count) == Least(Available, count)

---------------------------------------------------------------------------
(* bt_hci_read_bulk *)

StartRead(r) ==
  /\ pc[r] = "idle"
  /\ power # "suspended"
  /\ \E b \in BOOLEAN : nonblock' = [nonblock EXCEPT ![r] = b]
  /\ pc' = [pc EXCEPT ![r] = "lock"]
  /\ UNCHANGED <<mutex, dataVars, ongoing, errors, done, orphans, urbVars, envVars>>

(* mutex_lock_interruptible, then the test of dev->interface. *)
LockRead(r) ==
  /\ pc[r] = "lock"
  /\ mutex = NoReader
  /\ mutex' = IF interface THEN r ELSE NoReader
  /\ pc' = [pc EXCEPT ![r] = IF interface THEN "top" ELSE "idle"]
  /\ UNCHANGED <<nonblock, dataVars, ongoing, errors, done, orphans, urbVars, envVars>>

LockInterrupted(r) ==
  /\ pc[r] = "lock"
  /\ mutex # NoReader
  /\ Goto(r, "idle")
  /\ UNCHANGED <<dataVars, ongoing, errors, done, orphans, urbVars, envVars>>

(* Step 1: hand out what is left in the buffer, up to the argument count   *)
(* (used only here); copy_to_user may fail.                                *)
CopyOut(r) ==
  /\ pc[r] = "top"
  /\ Available > 0
  /\ \/ copied' = copied
     \/ \E count \in 1..MaxPacket : copied' = Least(copied + Chunk(count), CopiedCap)
  /\ Return(r)
  /\ UNCHANGED <<filled, ongoing, errors, done, orphans, urbVars, envVars>>

NothingLeft(r) ==
  /\ pc[r] = "top"
  /\ Available = 0
  /\ Goto(r, "sample")
  /\ UNCHANGED <<dataVars, ongoing, errors, done, orphans, urbVars, envVars>>

(* Step 2: the value of ongoing read under err_lock decides, later. *)
SampleOngoing(r) ==
  /\ pc[r] = "sample"
  /\ Goto(r, IF ongoing THEN "errs" ELSE "prepare")
  /\ UNCHANGED <<dataVars, ongoing, errors, done, orphans, urbVars, envVars>>

FaultyPrepare(r) ==      \* bulk_in_copied keeps its value
  /\ pc[r] = "prepare"
  /\ copied' = copied /\ filled' = 0
  /\ Goto(r, "mark")
  /\ UNCHANGED <<ongoing, errors, done, orphans, urbVars, envVars>>

PrepareRead(r) ==
  /\ pc[r] = "prepare"
  /\ copied' = 0 /\ filled' = 0
  /\ Goto(r, "mark")
  /\ UNCHANGED <<ongoing, errors, done, orphans, urbVars, envVars>>

MarkOngoing(r) ==
  /\ pc[r] = "mark"
  /\ ongoing' = TRUE
  /\ Goto(r, "submit")
  /\ UNCHANGED <<dataVars, errors, done, orphans, urbVars, envVars>>

(* usb_submit_urb refuses a URB that is active or being killed. *)
SubmitAccepted(r) ==
  /\ pc[r] = "submit"
  /\ ~active
  /\ power # "killing"
  /\ link = "up"
  /\ transfers < MaxTransfers
  /\ transfers' = transfers + 1
  /\ active' = TRUE
  /\ Goto(r, "top")
  /\ UNCHANGED <<dataVars, ongoing, errors, done, orphans, completing, envVars>>

FaultyRefused(r) ==      \* ongoing_read_bulk stays set
  /\ pc[r] = "submit"
  /\ filled' = 0
  /\ Return(r)
  /\ UNCHANGED <<copied, ongoing, errors, done, orphans, urbVars, envVars>>

SubmitRefused(r) ==
  /\ pc[r] = "submit"
  /\ filled' = 0
  /\ ongoing' = FALSE
  /\ Return(r)
  /\ UNCHANGED <<copied, errors, done, orphans, urbVars, envVars>>

(* The tests of bulk_read_errors at 684 and, after the wait, at 712. *)
ErrorSeen(r) ==
  /\ pc[r] \in {"errs", "after"}
  /\ errors # "none"
  /\ Goto(r, "drop")
  /\ UNCHANGED <<dataVars, ongoing, errors, done, orphans, urbVars, envVars>>

ReportError(r) ==
  /\ pc[r] = "drop"
  /\ errors' = "none"
  /\ filled' = 0
  /\ Return(r)
  /\ UNCHANGED <<copied, ongoing, done, orphans, urbVars, envVars>>

(* Step 3. *)
WouldBlock(r) ==
  /\ pc[r] = "errs"
  /\ errors = "none"
  /\ nonblock[r]
  /\ Return(r)
  /\ UNCHANGED <<dataVars, ongoing, errors, done, orphans, urbVars, envVars>>

StartWait(r) ==
  /\ pc[r] = "errs"
  /\ errors = "none"
  /\ ~nonblock[r]
  /\ Goto(r, "wait")
  /\ UNCHANGED <<dataVars, ongoing, errors, done, orphans, urbVars, envVars>>

CompletionCounted == done > 0

WaitCompleted(r) ==
  /\ pc[r] = "wait"
  /\ r \notin orphans
  /\ CompletionCounted
  /\ done' = done - 1
  /\ Goto(r, "after")
  /\ UNCHANGED <<dataVars, ongoing, errors, orphans, urbVars, envVars>>

WaitInterrupted(r) ==
  /\ pc[r] = "wait"
  /\ orphans' = orphans \ {r}
  /\ Return(r)
  /\ UNCHANGED <<dataVars, ongoing, errors, done, urbVars, envVars>>

AfterWait(r) ==
  /\ pc[r] = "after"
  /\ errors = "none"
  /\ Goto(r, "top")
  /\ UNCHANGED <<dataVars, ongoing, errors, done, orphans, urbVars, envVars>>

ReaderStep(r) ==
  \/ LockRead(r) \/ CopyOut(r) \/ NothingLeft(r) \/ SampleOngoing(r)
  \/ PrepareRead(r) \/ MarkOngoing(r) \/ SubmitAccepted(r) \/ SubmitRefused(r)
  \/ ErrorSeen(r) \/ ReportError(r) \/ WouldBlock(r) \/ StartWait(r)
  \/ WaitCompleted(r) \/ AfterWait(r)

---------------------------------------------------------------------------
(* bt_hci_read_bulk_callback: the part under err_lock, then complete().    *)

CallbackData ==
  /\ active /\ ~completing
  /\ \/ /\ filled' \in 0..MaxPacket
        /\ errors' = "none"
     \/ /\ filled' = filled
        /\ errors' = "io"
  /\ ongoing' = FALSE
  /\ active' = FALSE
  /\ completing' = TRUE
  /\ UNCHANGED <<readerVars, copied, done, orphans, transfers, envVars>>

FaultyComplete == done

Completed == done + 1

CallbackComplete ==
  /\ completing
  /\ completing' = FALSE
  /\ done' = Completed
  /\ UNCHANGED <<readerVars, dataVars, ongoing, errors, orphans, active, transfers, envVars>>

---------------------------------------------------------------------------
(* The other handlers. *)

(* open(2), of either kind of file. *)
Reinitialise ==
  /\ opens < MaxOpens
  /\ interface
  /\ opens' = opens + 1
  /\ done' = 0
  /\ errors' = "none"
  /\ \E asleep \in SUBSET {r \in Readers : pc[r] = "wait"} :
       orphans' = orphans \cup asleep
  /\ UNCHANGED <<readerVars, dataVars, ongoing, urbVars, resets, power, link, interface>>

(* pre_reset runs beside the readers: it takes io_mutex, not theirs. *)
PreReset ==
  /\ power = "on" /\ link = "up"
  /\ resets < MaxResets
  /\ resets' = resets + 1
  /\ power' = "clearing"
  /\ UNCHANGED <<readerVars, dataVars, ongoing, errors, done, orphans, urbVars, opens, link, interface>>

(* draw_down clears the flag before it kills the URB. *)
DrawDownClear ==
  /\ power = "clearing"
  /\ ongoing' = FALSE
  /\ power' = "killing"
  /\ UNCHANGED <<readerVars, dataVars, errors, done, orphans, urbVars, resets, opens, link, interface>>

(* usb_kill_urb returns once the URB is idle and its callback has ended. *)
DrawDownKilled ==
  /\ power = "killing"
  /\ ~active /\ ~completing
  /\ power' = "drained"
  /\ UNCHANGED <<readerVars, dataVars, ongoing, errors, done, orphans, urbVars, resets, opens, link, interface>>

PostReset ==
  /\ power = "drained"
  /\ errors' = "pipe"
  /\ power' = "on"
  /\ UNCHANGED <<readerVars, dataVars, ongoing, done, orphans, urbVars, resets, opens, link, interface>>

(* suspend finds every task frozen outside the driver; killing the URB     *)
(* makes the callback record -ENOENT.                                      *)
Suspend ==
  /\ power = "on" /\ link = "up"
  /\ \A r \in Readers : pc[r] = "idle"
  /\ ~completing
  /\ ongoing' = FALSE
  /\ active' = FALSE
  /\ errors' = IF active THEN "io" ELSE errors
  /\ done' = IF active THEN Completed ELSE done
  /\ power' = "suspended"
  /\ UNCHANGED <<readerVars, dataVars, orphans, completing, transfers, resets, opens, link, interface>>

Resume ==
  /\ power = "suspended"
  /\ power' = "on"
  /\ UNCHANGED <<readerVars, dataVars, ongoing, errors, done, orphans, urbVars, resets, opens, link, interface>>

DisableEndpoints ==
  /\ link = "up" /\ power = "on"
  /\ link' = "disabled"
  /\ UNCHANGED <<readerVars, dataVars, ongoing, errors, done, orphans, urbVars, resets, opens, power, interface>>

Disconnect ==
  /\ link = "disabled"
  /\ ~active /\ ~completing
  /\ interface' = FALSE
  /\ link' = "gone"
  /\ UNCHANGED <<readerVars, dataVars, ongoing, errors, done, orphans, urbVars, resets, opens, power>>

CoreStep == DrawDownClear \/ DrawDownKilled \/ PostReset \/ Resume \/ Disconnect

Next ==
  \/ \E r \in Readers :
       \/ StartRead(r) \/ LockInterrupted(r) \/ WaitInterrupted(r)
       \/ ReaderStep(r)
  \/ CallbackData \/ CallbackComplete
  \/ Reinitialise \/ PreReset \/ Suspend \/ DisableEndpoints \/ CoreStep

Spec == Init /\ [][Next]_vars

(* A thread in the kernel keeps running and the mutex is FIFO. The device  *)
(* may stay silent for ever, but a URB that is killed is given back.       *)
Killed == link = "disabled" \/ power = "killing"

Fairness ==
  /\ \A r \in Readers : WF_vars(ReaderStep(r)) /\ SF_vars(LockRead(r))
  /\ WF_vars(Killed /\ CallbackData)
  /\ WF_vars(CallbackComplete)
  /\ WF_vars(CoreStep)

FairSpec == Spec /\ Fairness

---------------------------------------------------------------------------
(* Safety *)

(* Unless a reset interferes, available never wraps: what has been copied  *)
(* is at most what the transfer filled, whatever the callback, the other   *)
(* readers and the error reports do to the two fields.                     *)
AvailableNeverWraps == resets = 0 => copied <= filled

(* A set flag means there is a URB whose callback will clear it, or a      *)
(* reader about to submit one; a flag left behind would make every later   *)
(* reader wait for nothing.                                                *)
OngoingHasUrb ==
  ongoing => active \/ \E r \in Readers : pc[r] = "submit"

(* Unless somebody opens the device meanwhile, a reader that waits has a   *)
(* completion coming or already counted.                                   *)
NoLostWakeup ==
  \A r \in Readers :
    opens = 0 /\ pc[r] = "wait" => active \/ completing \/ done > 0

(* Liveness *)

(* No reader stays in the driver, asleep or queued for the mutex, when the *)
(* device goes away, unless somebody has opened it while it was read.      *)
DisconnectFreesReaders ==
  \A r \in Readers :
    link = "disabled" /\ pc[r] \in {"lock", "wait"} ~> pc[r] = "idle" \/ opens > 0

---------------------------------------------------------------------------
(* What the comments say, and the code does not do. *)

(* bt_hci.c:646 "copy outstanding data, if exist": starting the next       *)
(* transfer does not discard a packet that has arrived.                    *)
ArrivedIsCopied == [][\A r \in Readers : PrepareRead(r) => filled = copied]_vars
===========================================================================
