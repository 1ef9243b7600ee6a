---------------------------- MODULE BtHciWrite ----------------------------
(***************************************************************************)
(* The ACL (BULK OUT) write path of src/BT/bt_hci.c: bt_hci_bulk_write,    *)
(* its URB callback, and what the open, reset and disconnect handlers do   *)
(* to the state that path uses.                                            *)
(*                                                                         *)
(* A writer is a thread inside write(2).  An element of Urbs is one        *)
(* allocation of a URB together with its coherent transfer buffer; an      *)
(* allocation that was released cleanly may be reused for a later write.   *)
(* The callback runs in interrupt context, so its three effects (publish   *)
(* the status, free the buffer and up the semaphore, complete) interleave  *)
(* with every thread.                                                      *)
(***************************************************************************)
EXTENDS Integers, FiniteSets

CONSTANTS
  Writers,          \* threads that call write(2) on an ACL file
  Urbs,             \* URB allocations that can exist
  NoUrb,            \* the NULL urb pointer
  NoWriter,         \* the mutex is free
  WritesInFlight,   \* WRITES_IN_FLIGHT, bt_hci.c:71
  MaxResets,        \* bound: USB port resets
  MaxOpens          \* bound: open(2) calls made while the writers run

ASSUME WriteAssumption ==
  /\ NoUrb \notin Urbs
  /\ NoWriter \notin Writers
  /\ IsFiniteSet(Writers) /\ IsFiniteSet(Urbs)
  /\ WritesInFlight \in Nat \ {0}
  /\ MaxResets \in Nat
  /\ MaxOpens \in Nat

VARIABLES
  pc,         \* where each writer is in bt_hci_bulk_write
  urb,        \* the local variable urb of each writer
  limitSem,   \* dev->limit_sem
  aclW,       \* the writer that holds dev->io_mutex_acl_w
  errors,     \* dev->bulk_write_errors
  done,       \* dev->bulk_out_completion.done
  orphans,    \* writers left on a wait queue that init_completion forgot
  interface,  \* dev->interface is not NULL
  link,       \* how far the USB core is with disconnecting the device
  reset,      \* how far a port reset is
  resets, opens,
  refs,       \* reference count of each URB
  buf,        \* the transfer buffer of each URB
  anchored,   \* dev->submitted
  inflight,   \* URBs the host controller has not given back
  cb,         \* progress of the completion callback of each URB
  late        \* history: URBs whose writer took the error exit after submitting

devVars == <<limitSem, aclW, errors, done, orphans, interface>>
coreVars == <<link, reset, resets, opens>>
urbVars == <<refs, buf, anchored, inflight, cb, late>>
vars == <<pc, urb, devVars, coreVars, urbVars>>

Error == {"none", "pipe", "io"}      \* 0, -EPIPE, any other negative status
Pc == {"idle", "block", "try", "errs", "prep", "lock", "anchor", "submit",
       "unanchor", "wait", "result", "error", "lateerror"}

(* A writer holds one unit of limit_sem from down() until its URB is       *)
(* accepted by the core; from then on the callback is to give it back.     *)
PermitPc == {"errs", "prep", "lock", "anchor", "submit", "unanchor", "error"}
(* The part of bulk_write in which the urb pointer is the writer's own.    *)
OwnPc == {"lock", "anchor", "submit", "unanchor", "error"}

TypeOK ==
  /\ pc \in [Writers -> Pc]
  /\ urb \in [Writers -> Urbs \cup {NoUrb}]
  /\ limitSem \in Nat
  /\ aclW \in Writers \cup {NoWriter}
  /\ errors \in Error
  /\ done \in Nat
  /\ orphans \subseteq Writers
  /\ interface \in BOOLEAN
  /\ link \in {"up", "disabled", "unlinked", "gone"}
  /\ reset \in {"none", "draining", "drained"}
  /\ resets \in 0..MaxResets
  /\ opens \in 0..MaxOpens
  /\ refs \in [Urbs -> Int]
  /\ buf \in [Urbs -> {"null", "live", "freed", "overfreed"}]
  /\ anchored \subseteq Urbs
  /\ inflight \subseteq Urbs
  /\ cb \in [Urbs -> {"none", "release", "complete"}]
  /\ late \subseteq Urbs

Init ==
  /\ pc = [w \in Writers |-> "idle"]
  /\ urb = [w \in Writers |-> NoUrb]
  /\ limitSem = WritesInFlight
  /\ aclW = NoWriter
  /\ errors = "none"
  /\ done = 0
  /\ orphans = {}
  /\ interface = TRUE
  /\ link = "up"
  /\ reset = "none"
  /\ resets = 0
  /\ opens = 0
  /\ refs = [u \in Urbs |-> 0]
  /\ buf = [u \in Urbs |-> "null"]
  /\ anchored = {}
  /\ inflight = {}
  /\ cb = [u \in Urbs |-> "none"]
  /\ late = {}

Goto(w, l) == pc' = [pc EXCEPT ![w] = l]

(* The operators named Faulty... are seeded faults: each replaces the       *)
(* definition after it in a run that must then find a property violated.   *)

FaultyFreeForgotten(b) == b
FaultyFreeOfNull(b) == IF b = "live" THEN "freed" ELSE "overfreed"

(* usb_free_coherent(b): nothing for NULL, else the memory goes back. *)
FreedCoherent(b) ==
  CASE b = "null" -> "null"
    [] b = "live" -> "freed"
    [] OTHER -> "overfreed"

FaultyNoUp == limitSem
FaultyNoComplete == done
FaultyNoUnanchor(u) == anchored

LimitAvailable == limitSem > 0
UppedLimit == limitSem + 1
Completed == done + 1
AnchoredWith(u) == anchored \cup {u}
AnchoredWithout(u) == anchored \ {u}

(* An allocation whose memory is back with the allocator, exactly once. *)
Reusable(u) ==
  /\ refs[u] = 0
  /\ buf[u] \in {"null", "freed"}
  /\ u \notin late
  /\ \A w \in Writers : urb[w] # u

---------------------------------------------------------------------------
(* bt_hci_bulk_write, one action per stretch between two points where      *)
(* another thread or the callback can act.                                 *)

StartWrite(w) ==
  /\ pc[w] = "idle"
  /\ \E l \in {"block", "try"} : Goto(w, l)
  /\ UNCHANGED <<urb, devVars, coreVars, urbVars>>

DownLimit(w) ==
  /\ pc[w] \in {"block", "try"}
  /\ LimitAvailable
  /\ limitSem' = limitSem - 1
  /\ Goto(w, "errs")
  /\ UNCHANGED <<urb, aclW, errors, done, orphans, interface, coreVars, urbVars>>

(* -EAGAIN of down_trylock, -ERESTARTSYS of down_interruptible. *)
LimitUnavailable(w, mode) ==
  /\ pc[w] = mode
  /\ limitSem = 0
  /\ Goto(w, "idle")
  /\ UNCHANGED <<urb, devVars, coreVars, urbVars>>

TryFails(w) == LimitUnavailable(w, "try")
DownInterrupted(w) == LimitUnavailable(w, "block")

ReportEarlier(w) ==
  /\ pc[w] = "errs"
  /\ Goto(w, IF errors = "none" THEN "prep" ELSE "error")
  /\ errors' = "none"
  /\ UNCHANGED <<urb, limitSem, aclW, done, orphans, interface, coreVars, urbVars>>

(* Every step of the allocation may fail; what was obtained is left to the *)
(* error exit.                                                             *)
PrepareUrb(w) ==
  /\ pc[w] = "prep"
  /\ \/ /\ Goto(w, "error")
        /\ UNCHANGED <<urb, refs, buf>>
     \/ \E u \in Urbs :
          /\ Reusable(u)
          /\ urb' = [urb EXCEPT ![w] = u]
          /\ refs' = [refs EXCEPT ![u] = 1]
          /\ \/ /\ buf' = [buf EXCEPT ![u] = "null"]
                /\ Goto(w, "error")
             \/ /\ buf' = [buf EXCEPT ![u] = "live"]
                /\ \E l \in {"lock", "error"} : Goto(w, l)
  /\ UNCHANGED <<devVars, coreVars, anchored, inflight, cb, late>>

LockForSubmit(w) ==
  /\ pc[w] = "lock"
  /\ aclW = NoWriter
  /\ IF interface
     THEN aclW' = w /\ Goto(w, "anchor")
     ELSE aclW' = aclW /\ Goto(w, "error")
  /\ UNCHANGED <<urb, limitSem, errors, done, orphans, interface, coreVars, urbVars>>

AnchorUrb(w) ==
  /\ pc[w] = "anchor"
  /\ anchored' = AnchoredWith(urb[w])
  /\ refs' = [refs EXCEPT ![urb[w]] = @ + 1]
  /\ Goto(w, "submit")
  /\ UNCHANGED <<urb, devVars, coreVars, buf, inflight, cb, late>>

(* The core takes a reference of its own; usb_free_urb at 1139 drops the   *)
(* writer's, so an accepted URB is left with the anchor's and the core's.  *)
SubmitAccepted(w) ==
  /\ pc[w] = "submit"
  /\ link = "up"
  /\ inflight' = inflight \cup {urb[w]}
  /\ aclW' = NoWriter
  /\ Goto(w, "wait")
  /\ UNCHANGED <<urb, limitSem, errors, done, orphans, interface, coreVars, refs, buf, anchored, cb, late>>

SubmitRefused(w) ==
  /\ pc[w] = "submit"
  /\ aclW' = NoWriter
  /\ Goto(w, "unanchor")
  /\ UNCHANGED <<urb, limitSem, errors, done, orphans, interface, coreVars, urbVars>>

UnanchorUrb(w) ==
  /\ pc[w] = "unanchor"
  /\ anchored' = AnchoredWithout(urb[w])
  /\ refs' = [refs EXCEPT ![urb[w]] = @ - 1]
  /\ Goto(w, "error")
  /\ UNCHANGED <<urb, devVars, coreVars, buf, inflight, cb, late>>

WaitCompleted(w) ==
  /\ pc[w] = "wait"
  /\ w \notin orphans
  /\ done > 0
  /\ done' = done - 1
  /\ Goto(w, "result")
  /\ UNCHANGED <<urb, limitSem, aclW, errors, orphans, interface, coreVars, urbVars>>

WaitInterrupted(w) ==
  /\ pc[w] = "wait"
  /\ orphans' = orphans \ {w}
  /\ Goto(w, "lateerror")
  /\ UNCHANGED <<urb, limitSem, aclW, errors, done, interface, coreVars, urbVars>>

ReturnWritten(w) ==
  /\ pc[w] = "result"
  /\ errors = "none"
  /\ urb' = [urb EXCEPT ![w] = NoUrb]
  /\ Goto(w, "idle")
  /\ UNCHANGED <<devVars, coreVars, urbVars>>

ReportFailed(w) ==
  /\ pc[w] = "result"
  /\ errors # "none"
  /\ errors' = "none"
  /\ Goto(w, "lateerror")
  /\ UNCHANGED <<urb, limitSem, aclW, done, orphans, interface, coreVars, urbVars>>

(* The label error: free the buffer, drop a reference, up the semaphore,   *)
(* whether or not the URB has been handed to the core.                     *)
ErrorExit(w) ==
  /\ pc[w] \in {"error", "lateerror"}
  /\ IF urb[w] = NoUrb
     THEN UNCHANGED <<refs, buf>>
     ELSE /\ buf' = [buf EXCEPT ![urb[w]] = FreedCoherent(@)]
          /\ refs' = [refs EXCEPT ![urb[w]] = @ - 1]
  /\ late' = IF pc[w] = "lateerror" THEN late \cup {urb[w]} ELSE late
  /\ limitSem' = UppedLimit
  /\ urb' = [urb EXCEPT ![w] = NoUrb]
  /\ Goto(w, "idle")
  /\ UNCHANGED <<aclW, errors, done, orphans, interface, coreVars, anchored, inflight, cb>>

WriterStep(w) ==
  \/ DownLimit(w) \/ TryFails(w) \/ ReportEarlier(w) \/ PrepareUrb(w) \/ LockForSubmit(w)
  \/ AnchorUrb(w) \/ SubmitAccepted(w) \/ SubmitRefused(w) \/ UnanchorUrb(w)
  \/ WaitCompleted(w) \/ ReturnWritten(w) \/ ReportFailed(w) \/ ErrorExit(w)

---------------------------------------------------------------------------
(* bt_hci_write_bulk_callback. The core unanchors the URB, then calls it.  *)

CallbackStatus(u) ==
  /\ u \in inflight
  /\ cb[u] = "none"
  /\ anchored' = anchored \ {u}
  /\ refs' = [refs EXCEPT ![u] = @ - 1]
  /\ errors' \in {"none", "io"}
  /\ cb' = [cb EXCEPT ![u] = "release"]
  /\ UNCHANGED <<pc, urb, limitSem, aclW, done, orphans, interface, coreVars, buf, inflight, late>>

CallbackRelease(u) ==
  /\ cb[u] = "release"
  /\ buf' = [buf EXCEPT ![u] = FreedCoherent(@)]
  /\ limitSem' = UppedLimit
  /\ cb' = [cb EXCEPT ![u] = "complete"]
  /\ UNCHANGED <<pc, urb, aclW, errors, done, orphans, interface, coreVars, refs, anchored, inflight, late>>

CallbackComplete(u) ==
  /\ cb[u] = "complete"
  /\ done' = Completed
  /\ inflight' = inflight \ {u}
  /\ refs' = [refs EXCEPT ![u] = @ - 1]
  /\ cb' = [cb EXCEPT ![u] = "none"]
  /\ UNCHANGED <<pc, urb, limitSem, aclW, errors, orphans, interface, coreVars, buf, anchored, late>>

CallbackStep(u) == CallbackStatus(u) \/ CallbackRelease(u) \/ CallbackComplete(u)

---------------------------------------------------------------------------
(* The other handlers. *)

(* open(2), of an HCI or of an ACL file: it re-initialises the completion  *)
(* and forgets the error. An ACL open waits for io_mutex_acl_w; an HCI     *)
(* open takes another mutex, so no guard remains. A writer already asleep  *)
(* on the completion is on a wait queue that nothing points to any more.   *)
Reinitialise ==
  /\ opens < MaxOpens
  /\ interface
  /\ opens' = opens + 1
  /\ done' = 0
  /\ errors' = "none"
  /\ \E asleep \in SUBSET {w \in Writers : pc[w] = "wait"} :
       orphans' = orphans \cup asleep
  /\ UNCHANGED <<pc, urb, limitSem, aclW, interface, link, reset, resets, urbVars>>

(* pre_reset: draw_down waits for, then kills, what is anchored. *)
PreReset ==
  /\ reset = "none"
  /\ link = "up"
  /\ resets < MaxResets
  /\ resets' = resets + 1
  /\ reset' = "draining"
  /\ UNCHANGED <<pc, urb, devVars, link, opens, urbVars>>

DrawnDown ==
  /\ reset = "draining"
  /\ anchored = {}
  /\ reset' = "drained"
  /\ UNCHANGED <<pc, urb, devVars, link, resets, opens, urbVars>>

PostReset ==
  /\ reset = "drained"
  /\ errors' = "pipe"
  /\ reset' = "none"
  /\ UNCHANGED <<pc, urb, limitSem, aclW, done, orphans, interface, link, resets, opens, urbVars>>

(* The core disables the endpoints before it calls disconnect: submissions *)
(* fail from then on and everything in flight is given back first.         *)
DisableEndpoints ==
  /\ link = "up"
  /\ reset = "none"
  /\ link' = "disabled"
  /\ UNCHANGED <<pc, urb, devVars, reset, resets, opens, urbVars>>

DisconnectInterface ==
  /\ link = "disabled"
  /\ inflight = {}
  /\ interface' = FALSE
  /\ link' = "unlinked"
  /\ UNCHANGED <<pc, urb, limitSem, aclW, errors, done, orphans, reset, resets, opens, urbVars>>

DisconnectKill ==
  /\ link = "unlinked"
  /\ anchored = {}
  /\ link' = "gone"
  /\ UNCHANGED <<pc, urb, devVars, reset, resets, opens, urbVars>>

CoreStep == DrawnDown \/ PostReset \/ DisconnectInterface \/ DisconnectKill

Next ==
  \/ \E w \in Writers :
       \/ StartWrite(w) \/ DownInterrupted(w) \/ WaitInterrupted(w)
       \/ WriterStep(w)
  \/ \E u \in Urbs : CallbackStep(u)
  \/ Reinitialise \/ PreReset \/ DisableEndpoints \/ CoreStep

Spec == Init /\ [][Next]_vars

(* A thread in the kernel keeps running; the wait queues of the semaphore, *)
(* the mutex and the completion are FIFO, so a waiter is not overtaken for *)
(* ever; the device or the core gives every accepted URB back.             *)
Fairness ==
  /\ \A w \in Writers :
       /\ WF_vars(WriterStep(w))
       /\ SF_vars(DownLimit(w))
       /\ SF_vars(LockForSubmit(w))
       /\ SF_vars(WaitCompleted(w))
  /\ \A u \in Urbs : WF_vars(CallbackStep(u))
  /\ WF_vars(CoreStep)

FairSpec == Spec /\ Fairness

---------------------------------------------------------------------------
(* Safety *)

(* The transfer buffer of a URB the controller may still read is live, and *)
(* no buffer is freed twice, except where the writer left by the error     *)
(* exit after its URB had been accepted (bt_hci.c:1145 and 1159).          *)
BufferOwnership ==
  \A u \in Urbs \ late :
    /\ buf[u] # "overfreed"
    /\ u \in inflight /\ cb[u] # "complete" => buf[u] = "live"
    /\ refs[u] >= 0

(* A URB reference or a transfer buffer that is still held has a holder:   *)
(* the writer that is preparing it, or the controller.                     *)
NothingLeaks ==
  \A u \in Urbs :
    refs[u] > 0 \/ buf[u] = "live" =>
      \/ u \in inflight
      \/ \E w \in Writers : urb[w] = u /\ pc[w] \in OwnPc

(* limit_sem and the permits that are out add up to WRITES_IN_FLIGHT, plus *)
(* one for every write that took the error exit after its URB was          *)
(* accepted: that exit and nothing else unbalances the semaphore.          *)
SemaphoreAccounting ==
  limitSem + Cardinality({w \in Writers : pc[w] \in PermitPc})
           + Cardinality({u \in inflight : cb[u] # "complete"})
    = WritesInFlight + Cardinality(late)

(* As long as nobody else opens the device, every writer that waits is     *)
(* matched by a completion already counted or a URB still to be completed. *)
NoLostCompletion ==
  opens = 0 =>
    Cardinality({w \in Writers : pc[w] = "wait"}) <= done + Cardinality(inflight)

(* Liveness *)

(* Without further opens a writer that waits for its transfer returns.     *)
WriteReturns == \A w \in Writers : pc[w] = "wait" ~> pc[w] = "idle"

(* A blocking writer is not stuck behind a permit that never comes back.   *)
LimitComesBack == \A w \in Writers : pc[w] = "block" ~> pc[w] # "block"

(* Writers that keep calling write(2) cannot hold up disconnect.           *)
DisconnectFinishes == link = "disabled" ~> link = "gone"

---------------------------------------------------------------------------
(* What the comments say, and the code does not do. *)

(* bt_hci.c:1135 "the USB core will eventually free it entirely": nobody   *)
(* else frees the URB and its buffer once more.                            *)
FreedOnce == \A u \in Urbs : buf[u] # "overfreed" /\ refs[u] >= 0
===========================================================================
