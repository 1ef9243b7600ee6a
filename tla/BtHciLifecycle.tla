-------------------------- MODULE BtHciLifecycle --------------------------
(***************************************************************************)
(* The life of one struct usb_bt_hci: bt_hci_probe, bt_hci_open,           *)
(* bt_hci_release, bt_hci_disconnect and bt_hci_delete, and the HCI        *)
(* command a file sends with bt_hci_int_write, which may outlive the       *)
(* disconnect.                                                             *)
(*                                                                         *)
(* open_count is a plain int, updated under io_mutex_acl_w by ACL files    *)
(* and under io_mutex by HCI files, so each update is a load and a store.  *)
(* The USB core runs bt_hci_open with minor_rwsem held for reading, and    *)
(* usb_deregister_dev takes it for writing.                                *)
(***************************************************************************)
EXTENDS Integers, FiniteSets

CONSTANTS
  Files,      \* files that may be open on the device
  Unlocked,   \* no file's handler holds the mutex
  Drift       \* bound: no open is begun once a counter is this far from 0

ASSUME LifecycleAssumption ==
  /\ IsFiniteSet(Files)
  /\ Unlocked \notin Files
  /\ Drift \in Nat

VARIABLES
  pc,          \* what each file is doing
  kind,        \* "acl" if it was opened with O_HCI_ACLDATA
  seen,        \* open_count as its handler last loaded it
  live,        \* the interface was there when release looked
  mutex,       \* holder of io_mutex_acl_w ("acl") and of io_mutex ("hci")
  openCount,   \* dev->open_count
  pm,          \* autopm references the driver holds
  kref,        \* dev->kref
  freed,       \* bt_hci_delete has run
  intfdata,    \* usb_get_intfdata(interface) is not NULL
  registered,  \* the minor leads to bt_hci_fops
  interface,   \* dev->interface is not NULL
  link,        \* how far probe or disconnect is
  active,      \* a URB of the device is with the core
  kinds        \* history: the kinds of the files opened since probe

fileVars == <<pc, kind, seen, live, mutex, openCount, pm>>
devVars == <<kref, freed, intfdata, registered, interface, link, active, kinds>>
vars == <<fileVars, devVars>>

(* Inside bt_hci_open, in order; "undo" is its failure exit.               *)
OpenPc == {"find", "found", "lock", "load", "store", "pm", "init",
           "undo", "undostore", "putopen"}
(* Inside bt_hci_release.                                                  *)
ReleasePc == {"rlock", "rload", "rstore", "put"}
(* Inside bt_hci_int_write.                                                *)
CommandPc == {"command"}
Pc == {"closed", "open"} \cup OpenPc \cup ReleasePc \cup CommandPc

Kinds == {"acl", "hci"}

(* A file owns a reference from kref_get to kref_put, and is counted in    *)
(* open_count from one store to the other.                                 *)
HolderPc == Pc \ {"closed", "find", "found"}
CountedPc == {"pm", "init", "undo", "undostore", "open", "rlock", "rload", "rstore"}
             \cup CommandPc
LockedPc == {"load", "store", "pm", "init", "undo", "undostore", "rload", "rstore"}

(* The driver model's own reference: from kref_init in probe to kref_put   *)
(* in disconnect.                                                          *)
Bound == {"probing", "up", "disabled", "cleared", "deregistered", "unlinked"}

TypeOK ==
  /\ pc \in [Files -> Pc]
  /\ kind \in [Files -> Kinds]
  /\ seen \in [Files -> Int]
  /\ live \in [Files -> BOOLEAN]
  /\ mutex \in [Kinds -> Files \cup {Unlocked}]
  /\ openCount \in Int
  /\ pm \in Int
  /\ kref \in Nat
  /\ freed \in BOOLEAN
  /\ intfdata \in BOOLEAN
  /\ registered \in BOOLEAN
  /\ interface \in BOOLEAN
  /\ link \in {"absent", "gone"} \cup Bound
  /\ active \in BOOLEAN
  /\ kinds \subseteq Kinds

Init ==
  /\ pc = [f \in Files |-> "closed"]
  /\ kind = [f \in Files |-> "hci"]
  /\ seen = [f \in Files |-> 0]
  /\ live = [f \in Files |-> FALSE]
  /\ mutex = [k \in Kinds |-> Unlocked]
  /\ openCount = 0
  /\ pm = 0
  /\ kref = 0
  /\ freed = TRUE
  /\ intfdata = FALSE /\ registered = FALSE /\ interface = FALSE
  /\ link = "absent"
  /\ active = FALSE
  /\ kinds = {}

Goto(f, l) == pc' = [pc EXCEPT ![f] = l]

(* p_io_mutex is io_mutex_acl_w for an ACL file, io_mutex for an HCI file. *)
Lock(f) ==
  /\ mutex[kind[f]] = Unlocked
  /\ mutex' = [mutex EXCEPT ![kind[f]] = f]
FaultyUnlock(f) == mutex' = mutex
Unlock(f) == mutex' = [mutex EXCEPT ![kind[f]] = Unlocked]

FaultyNoPut == kref

FaultyUncounted(f) == seen[f]      \* the close is not counted

Counted(f) == seen[f] + 1
Uncounted(f) == seen[f] - 1

Got == kref + 1
Put == kref - 1

KrefPut ==
  /\ kref' = Put
  /\ freed' = (Put = 0)

---------------------------------------------------------------------------
(* bt_hci_open *)

(* A writer that waits for minor_rwsem keeps new readers out.              *)
StartOpen(f) ==
  /\ pc[f] = "closed"
  /\ registered
  /\ link # "cleared"
  /\ {openCount, pm} \subseteq -Drift .. Drift
  /\ Goto(f, "find")
  /\ \E k \in Kinds :
       /\ kind' = [kind EXCEPT ![f] = k]
       /\ kinds' = kinds \cup {k}
  /\ UNCHANGED <<seen, live, mutex, openCount, pm, kref, freed, intfdata, registered, interface, link, active>>

FindDevice(f) ==
  /\ pc[f] = "find"
  /\ Goto(f, IF intfdata THEN "found" ELSE "closed")
  /\ UNCHANGED <<kind, seen, live, mutex, openCount, pm, devVars>>

GetReference(f) ==
  /\ pc[f] = "found"
  /\ kref' = Got
  /\ Goto(f, "lock")
  /\ UNCHANGED <<kind, seen, live, mutex, openCount, pm, freed, intfdata, registered, interface, link, active, kinds>>

LockOpen(f) ==
  /\ pc[f] = "lock"
  /\ Lock(f)
  /\ Goto(f, "load")
  /\ UNCHANGED <<kind, seen, live, openCount, pm, devVars>>

LoadCount(f, from, to) ==
  /\ pc[f] = from
  /\ seen' = [seen EXCEPT ![f] = openCount]
  /\ Goto(f, to)
  /\ UNCHANGED <<kind, live, mutex, openCount, pm, devVars>>

StoreOpened(f) ==
  /\ pc[f] = "store"
  /\ openCount' = Counted(f)
  /\ Goto(f, IF seen[f] = 0 THEN "pm" ELSE "init")
  /\ UNCHANGED <<kind, seen, live, mutex, pm, devVars>>

(* Up to ten calls of usb_autopm_get_interface, the mutex held throughout. *)
ResumeDevice(f) ==
  /\ pc[f] = "pm"
  /\ \/ link = "up" /\ pm' = pm + 1 /\ Goto(f, "init")
     \/ pm' = pm /\ Goto(f, "undo")
  /\ UNCHANGED <<kind, seen, live, mutex, openCount, devVars>>

UndoOpened(f) ==
  /\ pc[f] = "undostore"
  /\ openCount' = Uncounted(f)
  /\ Unlock(f)
  /\ Goto(f, "putopen")
  /\ UNCHANGED <<kind, seen, live, pm, devVars>>

FinishOpen(f) ==
  /\ pc[f] = "init"
  /\ Unlock(f)
  /\ Goto(f, "open")
  /\ seen' = [seen EXCEPT ![f] = 0]
  /\ UNCHANGED <<kind, live, openCount, pm, devVars>>

(* kref_put, at the end of a failed open and of release; the locals seen   *)
(* and live are no more.                                                   *)
DropReference(f) ==
  /\ pc[f] \in {"putopen", "put"}
  /\ KrefPut
  /\ Goto(f, "closed")
  /\ seen' = [seen EXCEPT ![f] = 0]
  /\ live' = [live EXCEPT ![f] = FALSE]
  /\ UNCHANGED <<kind, mutex, openCount, pm, intfdata, registered, interface, link, active, kinds>>

OpenStep(f) ==
  \/ FindDevice(f) \/ GetReference(f) \/ LockOpen(f)
  \/ LoadCount(f, "load", "store") \/ StoreOpened(f) \/ ResumeDevice(f)
  \/ LoadCount(f, "undo", "undostore") \/ UndoOpened(f) \/ FinishOpen(f)

---------------------------------------------------------------------------
(* bt_hci_release *)

StartRelease(f) ==
  /\ pc[f] = "open"
  /\ Goto(f, "rlock")
  /\ UNCHANGED <<kind, seen, live, mutex, openCount, pm, devVars>>

LockRelease(f) ==
  /\ pc[f] = "rlock"
  /\ Lock(f)
  /\ live' = [live EXCEPT ![f] = interface]
  /\ Goto(f, "rload")
  /\ UNCHANGED <<kind, seen, openCount, pm, devVars>>

FaultyReleased(f) ==     \* every close lets the device suspend
  /\ pc[f] = "rstore"
  /\ openCount' = Uncounted(f)
  /\ pm' = IF live[f] THEN pm - 1 ELSE pm
  /\ Unlock(f)
  /\ Goto(f, "put")
  /\ UNCHANGED <<kind, seen, live, devVars>>

StoreReleased(f) ==
  /\ pc[f] = "rstore"
  /\ openCount' = Uncounted(f)
  /\ pm' = IF seen[f] = 1 /\ live[f] THEN pm - 1 ELSE pm
  /\ Unlock(f)
  /\ Goto(f, "put")
  /\ UNCHANGED <<kind, seen, live, devVars>>

ReleaseStep(f) ==
  LockRelease(f) \/ LoadCount(f, "rload", "rstore") \/ StoreReleased(f)

---------------------------------------------------------------------------
(* A read or write that has been made on an open file leaves a URB with    *)
(* the core, possibly after the file is closed; its callback uses dev.     *)

SubmitUrb(f) ==
  /\ pc[f] \in {"open"} \cup CommandPc
  /\ link = "up" /\ interface
  /\ ~active
  /\ active' = TRUE
  /\ UNCHANGED <<fileVars, kref, freed, intfdata, registered, interface, link, kinds>>

CompleteUrb ==
  /\ active
  /\ active' = FALSE
  /\ UNCHANGED <<fileVars, kref, freed, intfdata, registered, interface, link, kinds>>

---------------------------------------------------------------------------
(* bt_hci_int_write: a command, sent and awaited without a mutex.          *)

(* devinfo_lock is held while the interface number is read. An empty       *)
(* command, a failed kmalloc or copy_from_user, and the -ENODEV of a       *)
(* device without interface leave the file as it was.                      *)
StartCommand(f) ==
  /\ pc[f] = "open" /\ kind[f] = "hci"
  /\ interface
  /\ Goto(f, "command")
  /\ UNCHANGED <<kind, seen, live, mutex, openCount, pm, devVars>>

(* usb_control_msg on dev->udev, which takes the answer, an error or its   *)
(* timeout; disconnect does not wait for it.                               *)
FinishCommand(f) ==
  /\ pc[f] = "command"
  /\ Goto(f, "open")
  /\ UNCHANGED <<kind, seen, live, mutex, openCount, pm, devVars>>

---------------------------------------------------------------------------
(* bt_hci_probe *)

(* kzalloc, the initialisers, usb_get_dev. Another device structure is     *)
(* made only once the last one is gone.                                    *)
ProbeAllocate ==
  /\ link \in {"absent", "gone"}
  /\ freed
  /\ kref' = 1
  /\ freed' = FALSE
  /\ openCount' = 0 /\ pm' = 0 /\ kinds' = {}
  /\ interface' = TRUE
  /\ link' = "probing"
  /\ UNCHANGED <<pc, kind, seen, live, mutex, intfdata, registered, active>>

(* No endpoint, no memory, or no minor: the label error. *)
ProbeFails ==
  /\ link = "probing"
  /\ KrefPut
  /\ link' = "absent"
  /\ UNCHANGED <<fileVars, intfdata, registered, interface, active, kinds>>

ProbeRegisters ==
  /\ link = "probing"
  /\ intfdata' = TRUE
  /\ registered' = TRUE
  /\ link' = "up"
  /\ UNCHANGED <<fileVars, kref, freed, interface, active, kinds>>

---------------------------------------------------------------------------
(* bt_hci_disconnect, after the core has disabled the endpoints. *)

DisableEndpoints ==
  /\ link = "up"
  /\ link' = "disabled"
  /\ UNCHANGED <<fileVars, kref, freed, intfdata, registered, interface, active, kinds>>

ClearIntfdata ==
  /\ link = "disabled"
  /\ ~active
  /\ intfdata' = FALSE
  /\ link' = "cleared"
  /\ UNCHANGED <<fileVars, kref, freed, registered, interface, active, kinds>>

FaultyOpensDrained == TRUE
OpensDrained == \A f \in Files : pc[f] \notin OpenPc

Deregister ==
  /\ link = "cleared"
  /\ OpensDrained
  /\ registered' = FALSE
  /\ link' = "deregistered"
  /\ UNCHANGED <<fileVars, kref, freed, intfdata, interface, active, kinds>>

ClearInterface ==
  /\ link = "deregistered"
  /\ interface' = FALSE
  /\ link' = "unlinked"
  /\ UNCHANGED <<fileVars, kref, freed, intfdata, registered, active, kinds>>

FinishDisconnect ==
  /\ link = "unlinked"
  /\ KrefPut
  /\ link' = "gone"
  /\ UNCHANGED <<fileVars, intfdata, registered, interface, active, kinds>>

DisconnectStep == ClearIntfdata \/ Deregister \/ ClearInterface \/ FinishDisconnect

Next ==
  \/ \E f \in Files :
       \/ StartOpen(f) \/ OpenStep(f) \/ DropReference(f)
       \/ StartRelease(f) \/ ReleaseStep(f) \/ SubmitUrb(f)
       \/ StartCommand(f) \/ FinishCommand(f)
  \/ CompleteUrb
  \/ ProbeAllocate \/ ProbeFails \/ ProbeRegisters
  \/ DisableEndpoints \/ DisconnectStep

Spec == Init /\ [][Next]_vars

(* Handlers run to their end (a command by its timeout at the latest),     *)
(* mutexes and minor_rwsem are fair, a killed URB is given back, and a file of a device that has gone gets closed.    *)
Fairness ==
  /\ \A f \in Files :
       /\ WF_vars(OpenStep(f)) /\ WF_vars(ReleaseStep(f)) /\ WF_vars(DropReference(f))
       /\ WF_vars(FinishCommand(f))
       /\ SF_vars(LockOpen(f)) /\ SF_vars(LockRelease(f))
       /\ WF_vars(link = "gone" /\ StartRelease(f))
  /\ WF_vars(link = "disabled" /\ CompleteUrb)
  /\ WF_vars(DisconnectStep)

FairSpec == Spec /\ Fairness

---------------------------------------------------------------------------
(* Safety *)

Holders == {f \in Files : pc[f] \in HolderPc}

(* Every reference that is counted is held, and the structure is freed     *)
(* with the last one.                                                      *)
ReferencesCounted ==
  /\ kref = Cardinality(Holders) + (IF link \in Bound THEN 1 ELSE 0)
  /\ freed <=> kref = 0

(* No handler, file or callback uses the structure after bt_hci_delete:    *)
(* in particular an open that has looked it up, but has no reference yet,  *)
(* is waited for by usb_deregister_dev before disconnect drops the last    *)
(* one.                                                                    *)
NoUseAfterFree ==
  freed => ~active /\ \A f \in Files : pc[f] \in {"closed", "find"}

(* The files that have a pointer to the structure, with or without a       *)
(* reference.                                                              *)
Users == {f \in Files : pc[f] \notin {"closed", "find"}}

Device == INSTANCE SharedDevice WITH
  exists <- ~freed, bound <- link \in Bound, users <- Users, busy <- active

(* The structure exists as long as it is bound or used, and no longer:     *)
(* kref and the wait of usb_deregister_dev for the opens under way         *)
(* implement the lifetime that SharedDevice promises.                      *)
ImplementsSharedDevice == Device!Spec

(* As long as the files have been of one kind, open_count is the number of *)
(* openers, and the device may suspend exactly when nobody has it open.    *)
OneKind == Cardinality(kinds) <= 1

OpenersCounted ==
  OneKind => openCount = Cardinality({f \in Files : pc[f] \in CountedPc})

AwakeWhileOpen ==
  OneKind /\ link = "up" /\ (\A f \in Files : pc[f] \notin LockedPc) =>
    pm = IF openCount = 0 THEN 0 ELSE 1

(* Liveness *)

(* However many opens are under way, disconnect comes to its end.          *)
DisconnectFinishes == link = "disabled" ~> link = "gone"

(* Once the files of a disconnected device are closed, it is freed.        *)
DeviceFreed == link = "gone" ~> freed

---------------------------------------------------------------------------
(* What the comments say, and the code does not do. *)

(* bt_hci.c:100 "count the number of openers".                             *)
OpenCountIsOpeners ==
  (\A f \in Files : pc[f] \in {"closed", "open"}) =>
    openCount = Cardinality({f \in Files : pc[f] = "open"})
===========================================================================
