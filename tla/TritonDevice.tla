---------------------------- MODULE TritonDevice ----------------------------
(***************************************************************************)
(* The device side of src/PF/pcie/src/kernel_src/triton_ep.c: probe and    *)
(* remove, open and release, and the ioctl calls made through an open      *)
(* file, which are those of PciexShm.                                      *)
(*                                                                         *)
(* dev_open and open_count are plain variables of the module. The first    *)
(* open, the one that finds both zero, requests the interrupt, initialises *)
(* the wait queue and the completion and is the only one that gets         *)
(* private_data. release never frees the interrupt; remove does, and looks *)
(* neither at open files nor at the variables: they outlive the device.    *)
(***************************************************************************)
EXTENDS PciexShm, Sequences

CONSTANTS
  Files,
  UintMax,      \* the largest value of open_count
  MaxCount      \* bound: no open starts when open_count is this high

ASSUME DeviceAssumption ==
  /\ IsFiniteSet(Files)
  /\ UintMax \in Nat /\ MaxCount \in Nat /\ MaxCount + Cardinality(Files) <= UintMax

VARIABLES
  held,         \* what probe and open have acquired and nobody has given back
  excess,       \* what was given back without having been acquired
  binding,      \* how the PCI core sees the device
  queuesReady,  \* tdev->wait and tdev->write_complete are initialised
  devOpen, openCount,
  at,           \* where a file is in open or release
  seen,         \* the open_count it has loaded
  private,      \* its private_data is the device
  failed,       \* its request_irq failed
  overlap,      \* history: an open or release ran into another one
  stuck,        \* history: an open failed and stays counted
  pulled        \* history: files or counts of a removed device are left over

deviceVars == <<held, excess, binding, queuesReady, devOpen, openCount, at, seen,
                private, failed, overlap, stuck, pulled>>
vars == <<deviceVars, shmVars>>

Ladder == <<"tdev", "pci", "msi", "regions", "map1", "map10", "cdev", "chrdev", "node">>
Acquired(i) == {Ladder[j] : j \in 1..i}
Everything == Acquired(9)

Places == {"closed", "test", "request", "init", "opened", "load", "store", "open",
           "release", "unload", "unstore"}

TypeOK ==
  /\ ShmTypeOK
  /\ held \subseteq Everything \cup {"irq"} /\ excess \subseteq Everything \cup {"irq"}
  /\ binding \in {"none", "bound", "ghost"}
  /\ queuesReady \in BOOLEAN /\ devOpen \in BOOLEAN
  /\ openCount \in 0..UintMax
  /\ at \in [Files -> Places] /\ seen \in [Files -> 0..UintMax]
  /\ private \in [Files -> BOOLEAN] /\ failed \in [Files -> BOOLEAN]
  /\ overlap \in BOOLEAN /\ stuck \in BOOLEAN /\ pulled \in BOOLEAN

Unopened ==
  /\ devOpen = FALSE /\ openCount = 0
  /\ at = [f \in Files |-> "closed"] /\ seen = [f \in Files |-> 0]
  /\ private = [f \in Files |-> FALSE] /\ failed = [f \in Files |-> FALSE]

Init ==
  /\ held = {} /\ excess = {} /\ binding = "none" /\ queuesReady = FALSE
  /\ Unopened /\ overlap = FALSE /\ stuck = FALSE /\ pulled = FALSE
  /\ ShmInit

IsOpen(f) == at[f] = "open"
Settled == \A f \in Files : at[f] \in {"closed", "open"}
Moves(f, from, to) == at[f] = from /\ at' = [at EXCEPT ![f] = to]

(* Somebody uses the device, or it counts as open. *)
InUse ==
  devOpen \/ openCount # 0 \/ ~NoCalls \/ \E f \in Files : at[f] # "closed"

---------------------------------------------------------------------------
(* probe and remove *)

(* The labels of probe that undo the first i steps. What they give back    *)
(* includes an interrupt from the fourth step on; the cdev is freed by the *)
(* last label only, its number by none.                                    *)
FaultyUndone(i) == Acquired(IF i < 5 THEN i ELSE 5)
Undone(i) == Acquired(IF i < 6 THEN i ELSE 6) \cup (IF i = 8 THEN {"cdev"} ELSE {})
                                              \cup (IF i >= 3 THEN {"irq"} ELSE {})

ProbeSucceeds ==
  /\ binding = "none" /\ binding' = "bound"
  /\ held' = Everything /\ excess' = {} /\ queuesReady' = FALSE
  /\ pulled' = InUse
  /\ UNCHANGED <<devOpen, openCount, at, seen, private, failed, overlap, stuck, shmVars>>

(* The step after the first i fails. When that is pci_enable_msi, rc is    *)
(* the truth value of the comparison, 1, which the PCI core takes for      *)
(* success.                                                                *)
ProbeFails(i) ==
  /\ binding = "none"
  /\ held' = Acquired(i) \ Undone(i) /\ excess' = Undone(i) \ Acquired(i)
  /\ binding' \in (IF i = 2 THEN {"none", "ghost"} ELSE {"none"})
  /\ queuesReady' = FALSE
  /\ pulled' = InUse
  /\ UNCHANGED <<devOpen, openCount, at, seen, private, failed, overlap, stuck, shmVars>>

(* A device that was never opened has no interrupt to free; one whose      *)
(* probe failed with 1 has nothing at all. An open file does not prevent   *)
(* this: what it does afterwards, through pointers to freed memory, is     *)
(* undefined, and the model goes on with what the memory held.             *)
Given == Everything \cup {"irq"}

Remove ==
  /\ binding # "none"
  /\ held' = {} /\ excess' = Given \ held
  /\ binding' = "none" /\ queuesReady' = FALSE
  /\ pulled' = (pulled \/ InUse)
  /\ UNCHANGED <<devOpen, openCount, at, seen, private, failed, overlap, stuck, shmVars>>

(* The module is unloaded, which an open file does prevent, and loaded     *)
(* again: its variables are zero.                                          *)
Reload ==
  /\ binding = "none" /\ \A f \in Files : at[f] = "closed"
  /\ NoCalls
  /\ devOpen' = FALSE /\ openCount' = 0
  /\ overlap' = FALSE /\ stuck' = FALSE
  /\ UNCHANGED <<held, excess, binding, queuesReady, at, seen, private, failed, pulled,
                 shmVars>>

---------------------------------------------------------------------------
(* open *)

StartOpen(f) ==
  /\ binding = "bound" /\ openCount < MaxCount
  /\ Moves(f, "closed", "test")
  /\ overlap' = (overlap \/ ~Settled)
  /\ UNCHANGED <<held, excess, binding, queuesReady, devOpen, openCount, seen, private,
                 failed, stuck, pulled, shmVars>>

TestOpen(f) ==
  /\ Moves(f, "test", IF ~devOpen /\ openCount = 0 THEN "request" ELSE "load")
  /\ UNCHANGED <<held, excess, binding, queuesReady, devOpen, openCount, seen, private,
                 failed, overlap, stuck, pulled, shmVars>>

FaultyRequestIrq(f) ==      \* the error is only logged
  /\ Moves(f, "request", "init")
  /\ \/ "irq" \notin held /\ held' = held \cup {"irq"}
     \/ UNCHANGED held
  /\ UNCHANGED <<excess, binding, queuesReady, devOpen, openCount, seen, private,
                 failed, overlap, stuck, pulled, shmVars>>

(* The line is not shared: a second request is refused, also if it is the  *)
(* same device's. The error is returned, after everything else is done.    *)
RequestIrq(f) ==
  /\ Moves(f, "request", "init")
  /\ \/ "irq" \notin held /\ held' = held \cup {"irq"} /\ UNCHANGED failed
     \/ failed' = [failed EXCEPT ![f] = TRUE] /\ UNCHANGED held
  /\ UNCHANGED <<excess, binding, queuesReady, devOpen, openCount, seen, private,
                 overlap, stuck, pulled, shmVars>>

InitQueues(f) ==
  /\ Moves(f, "init", "opened")
  /\ private' = [private EXCEPT ![f] = TRUE]
  /\ queuesReady' = TRUE
  /\ UNCHANGED <<held, excess, binding, devOpen, openCount, seen, failed, overlap,
                 stuck, pulled, shmVars>>

MarkOpen(f) ==
  /\ Moves(f, "opened", "load")
  /\ devOpen' = TRUE
  /\ UNCHANGED <<held, excess, binding, queuesReady, openCount, seen, private, failed,
                 overlap, stuck, pulled, shmVars>>

LoadCount(f) ==
  /\ \/ Moves(f, "load", "store") \/ Moves(f, "unload", "unstore")
  /\ seen' = [seen EXCEPT ![f] = openCount]
  /\ UNCHANGED <<held, excess, binding, queuesReady, devOpen, openCount, private, failed,
                 overlap, stuck, pulled, shmVars>>

(* open_count++ and return: the file of an open that fails is never        *)
(* released.                                                               *)
StoreOpened(f) ==
  /\ Moves(f, "store", IF failed[f] THEN "closed" ELSE "open")
  /\ openCount' = (seen[f] + 1) % (UintMax + 1)
  /\ private' = [private EXCEPT ![f] = @ /\ ~failed[f]]
  /\ seen' = [seen EXCEPT ![f] = 0] /\ failed' = [failed EXCEPT ![f] = FALSE]
  /\ stuck' = (stuck \/ failed[f])
  /\ UNCHANGED <<held, excess, binding, queuesReady, devOpen, overlap, pulled, shmVars>>

---------------------------------------------------------------------------
(* release: the last reference to the file is dropped, so no call through  *)
(* it is running.                                                          *)

StartRelease(f) ==
  /\ Moves(f, "open", "release")
  /\ private[f] => NoCalls
  /\ private' = [private EXCEPT ![f] = FALSE]
  /\ overlap' = (overlap \/ ~Settled)
  /\ UNCHANGED <<held, excess, binding, queuesReady, devOpen, openCount, seen, failed,
                 stuck, pulled, shmVars>>

FaultyReleaseLast(f) ==      \* the flag is forgotten
  /\ Moves(f, "release", "closed")
  /\ devOpen /\ openCount = 1
  /\ openCount' = 0
  /\ UNCHANGED <<held, excess, binding, queuesReady, devOpen, seen, private, failed,
                 overlap, stuck, pulled, shmVars>>

ReleaseLast(f) ==
  /\ Moves(f, "release", "closed")
  /\ devOpen /\ openCount = 1
  /\ devOpen' = FALSE /\ openCount' = 0
  /\ UNCHANGED <<held, excess, binding, queuesReady, seen, private, failed, overlap,
                 stuck, pulled, shmVars>>

ReleaseOther(f) ==
  /\ IF devOpen /\ openCount > 1
       THEN Moves(f, "release", "unload")
       ELSE ~(devOpen /\ openCount = 1) /\ Moves(f, "release", "closed")
  /\ UNCHANGED <<held, excess, binding, queuesReady, devOpen, openCount, seen, private,
                 failed, overlap, stuck, pulled, shmVars>>

(* A count that races have brought to zero wraps around. *)
StoreReleased(f) ==
  /\ Moves(f, "unstore", "closed")
  /\ openCount' = (seen[f] + UintMax) % (UintMax + 1)
  /\ seen' = [seen EXCEPT ![f] = 0]
  /\ UNCHANGED <<held, excess, binding, queuesReady, devOpen, private, failed,
                 overlap, stuck, pulled, shmVars>>

FileStep(f) ==
  \/ StartOpen(f) \/ TestOpen(f) \/ RequestIrq(f) \/ InitQueues(f) \/ MarkOpen(f)
  \/ LoadCount(f) \/ StoreOpened(f)
  \/ StartRelease(f) \/ ReleaseLast(f) \/ ReleaseOther(f) \/ StoreReleased(f)

---------------------------------------------------------------------------
(* ioctl. Through a file without private_data every command fails at once  *)
(* (ptdev is NULL); through the first one it goes to the peer.             *)
Ioctl(c, k) ==
  /\ \E f \in Files : IsOpen(f) /\ private[f]
  /\ StartRequest(c, k)
  /\ UNCHANGED deviceVars

(* read(2) and write(2) use g_tdev, through any open file. *)
Mailbox ==
  /\ \E f \in Files : IsOpen(f)
  /\ MailboxRings
  /\ UNCHANGED deviceVars

Shm == ShmStep /\ UNCHANGED deviceVars

Next ==
  \/ ProbeSucceeds \/ (\E i \in 0..8 : ProbeFails(i)) \/ Remove \/ Reload
  \/ \E f \in Files : FileStep(f)
  \/ \E c \in Callers, k \in Kinds : Ioctl(c, k)
  \/ Mailbox \/ Shm

Spec == Init /\ [][Next]_vars

---------------------------------------------------------------------------
(* The four properties say nothing while files or counts of a device that  *)
(* was removed in use are left over (pulled), except CountIsFiles.         *)

(* Every open file finds the memory it is about to touch mapped and the    *)
(* wait queue and the completion initialised, also a file that is not the  *)
(* first and one that comes after an open that failed. The file that       *)
(* carries private_data, and the calls it makes, have the interrupt too.   *)
(* This holds whatever opens and releases race, for an open that loses the *)
(* interrupt returns its error after all.                                  *)
DeviceReady ==
  ~pulled =>
    /\ (\E f \in Files : IsOpen(f)) => queuesReady /\ Everything \subseteq held
    /\ (\E f \in Files : private[f] /\ IsOpen(f)) \/ ~NoCalls =>
         queuesReady /\ held = Everything \cup {"irq"}

(* Opens and releases that do not overlap keep the count: it is the number *)
(* of open files, and one more for ever once an open has failed, which the *)
(* second session's always does. A device that is removed takes nothing    *)
(* from it.                                                                *)
CountIsFiles ==
  ~overlap /\ Settled =>
    /\ openCount = Cardinality({f \in Files : IsOpen(f)}) + (IF stuck THEN 1 ELSE 0)
    /\ devOpen <=> openCount > 0

(* A probe that fails, and remove, give back what was acquired, except the *)
(* cdev when its number cannot be had and the number when the cdev cannot  *)
(* be added; and they free nothing they do not have but the interrupt. The *)
(* exception is the device whose probe failed in pci_enable_msi.           *)
GivenBack ==
  ~pulled /\ binding = "none" =>
    /\ held \subseteq {"cdev", "chrdev"}
    /\ excess \subseteq {"irq"} \/ excess = Given

(* The packet has no owner: the words of one request lie in the place of   *)
(* another's return code, a caller reads back without knowing that there   *)
(* is an answer, and the mailbox rings the same doorbell. As long as no    *)
(* request is begun before the last one was answered, and no read or write *)
(* of the mailbox rings while one is being written (~clash), the peer      *)
(* takes each request whole and a caller reads back its own words or the   *)
(* answer to its own request, though the mailbox rings at other times.     *)
RequestsMatched == ~pulled /\ ~clash => TakenWhole /\ ReadBackOwn
===========================================================================
