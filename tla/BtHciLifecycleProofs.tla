----------------------- MODULE BtHciLifecycleProofs -----------------------
(***************************************************************************)
(* Proofs about BtHciLifecycle, for any finite set of files.               *)
(***************************************************************************)
EXTENDS BtHciLifecycle, FiniteSetTheorems, TLAPS

(* The steps a file can take. *)
FileStep(f) ==
  \/ StartOpen(f) \/ OpenStep(f) \/ DropReference(f)
  \/ StartRelease(f) \/ ReleaseStep(f) \/ SubmitUrb(f)
  \/ StartCommand(f) \/ FinishCommand(f)

(* Probe and disconnect publish and withdraw the device in an order that   *)
(* brackets every open: whoever is inside bt_hci_open is there before      *)
(* usb_deregister_dev has returned.                                        *)
LinkOrder ==
  /\ intfdata => link \in {"up", "disabled"}
  /\ registered => link \in {"up", "disabled", "cleared"}
  /\ active => link \in {"up", "disabled"}
  /\ \A f \in Files : pc[f] \in OpenPc => link \in {"up", "disabled", "cleared"}

IInv == TypeOK /\ LinkOrder /\ ReferencesCounted

(* Every file belongs to a finite set, so the holders can be counted.      *)
LEMMA HoldersFinite == IsFiniteSet(Holders) /\ Cardinality(Holders) \in Nat
<1>1. IsFiniteSet(Files) /\ Holders \subseteq Files
  BY LifecycleAssumption DEF Holders
<1> QED
  BY <1>1, FS_Subset, FS_CardinalityType

(* Whoever holds a reference finds the count positive.                     *)
LEMMA HolderCounted ==
  ASSUME TypeOK, ReferencesCounted
  PROVE  /\ \A f \in Files : pc[f] \in HolderPc => kref > 0
         /\ link \in Bound => kref > 0
<1>1. ASSUME NEW f \in Files, pc[f] \in HolderPc PROVE kref > 0
  <2>1. Holders # {}
    BY <1>1 DEF Holders
  <2>2. Cardinality(Holders) # 0
    BY <2>1, HoldersFinite, FS_EmptySet
  <2> QED
    BY <2>2, HoldersFinite DEF ReferencesCounted, TypeOK
<1>2. ASSUME link \in Bound PROVE kref > 0
  BY <1>2, HoldersFinite DEF ReferencesCounted, TypeOK
<1> QED
  BY <1>1, <1>2

(* Every action keeps every variable in its range; that kref stays a       *)
(* natural number depends on the count.                                    *)
LEMMA TypeStep == IInv /\ [Next]_vars => TypeOK'
<1> SUFFICES ASSUME IInv, [Next]_vars PROVE TypeOK'
  OBVIOUS
<1> USE LifecycleAssumption
    DEF TypeOK, Pc, OpenPc, ReleasePc, CommandPc, Kinds, Bound, fileVars, devVars, Goto
<1>0. /\ TypeOK
      /\ \A f \in Files : pc[f] \in HolderPc => kref > 0
      /\ link \in Bound => kref > 0
  BY HolderCounted DEF IInv
<1> USE <1>0
<1>1. ASSUME NEW f \in Files, FileStep(f) PROVE TypeOK'
  <2>1. CASE StartOpen(f)
    BY <2>1 DEF StartOpen
  <2>2. CASE FindDevice(f)
    BY <2>2 DEF FindDevice
  <2>3. CASE GetReference(f)
    BY <2>3 DEF GetReference, Got
  <2>4. CASE LockOpen(f)
    BY <2>4 DEF LockOpen, Lock
  <2>5. CASE LoadCount(f, "load", "store")
    BY <2>5 DEF LoadCount
  <2>6. CASE StoreOpened(f)
    BY <2>6 DEF StoreOpened, Counted
  <2>7. CASE ResumeDevice(f)
    BY <2>7 DEF ResumeDevice
  <2>8. CASE LoadCount(f, "undo", "undostore")
    BY <2>8 DEF LoadCount
  <2>9. CASE UndoOpened(f)
    BY <2>9 DEF UndoOpened, Uncounted, Unlock
  <2>10. CASE FinishOpen(f)
    BY <2>10 DEF FinishOpen, Unlock
  <2>11. CASE DropReference(f)
    BY <2>11 DEF DropReference, KrefPut, Put, HolderPc
  <2>12. CASE StartRelease(f)
    BY <2>12 DEF StartRelease
  <2>13. CASE LockRelease(f)
    BY <2>13 DEF LockRelease, Lock
  <2>14. CASE LoadCount(f, "rload", "rstore")
    BY <2>14 DEF LoadCount
  <2>15. CASE StoreReleased(f)
    BY <2>15 DEF StoreReleased, Uncounted, Unlock
  <2>16. CASE SubmitUrb(f)
    BY <2>16 DEF SubmitUrb
  <2>17. CASE StartCommand(f)
    BY <2>17 DEF StartCommand
  <2>18. CASE FinishCommand(f)
    BY <2>18 DEF FinishCommand
  <2> QED
    BY <1>1, <2>1, <2>2, <2>3, <2>4, <2>5, <2>6, <2>7, <2>8,
       <2>9, <2>10, <2>11, <2>12, <2>13, <2>14, <2>15, <2>16, <2>17, <2>18
    DEF FileStep, OpenStep, ReleaseStep
<1>2. CASE CompleteUrb
  BY <1>2 DEF CompleteUrb
<1>3. CASE ProbeAllocate
  <2>1. freed' \in BOOLEAN /\ interface' \in BOOLEAN
    BY <1>3 DEF ProbeAllocate
  <2>2. kref' \in Nat /\ openCount' \in Int /\ pm' \in Int /\ kinds' \subseteq Kinds
    BY <1>3 DEF ProbeAllocate
  <2> QED
    BY <1>3, <2>1, <2>2 DEF ProbeAllocate
<1>4. CASE ProbeFails
  BY <1>4 DEF ProbeFails, KrefPut, Put
<1>5. CASE ProbeRegisters
  BY <1>5 DEF ProbeRegisters
<1>6. CASE DisableEndpoints
  BY <1>6 DEF DisableEndpoints
<1>7. CASE ClearIntfdata
  BY <1>7 DEF ClearIntfdata
<1>8. CASE Deregister
  BY <1>8 DEF Deregister
<1>9. CASE ClearInterface
  BY <1>9 DEF ClearInterface
<1>10. CASE FinishDisconnect
  BY <1>10 DEF FinishDisconnect, KrefPut, Put
<1>11. CASE UNCHANGED vars
  BY <1>11 DEF vars
<1> QED
  BY <1>1, <1>2, <1>3, <1>4, <1>5, <1>6, <1>7, <1>8, <1>9, <1>10, <1>11
  DEF Next, FileStep, DisconnectStep

(* The order in which probe and disconnect act is kept.                    *)
LEMMA OrderStep == IInv /\ [Next]_vars => LinkOrder'
<1> SUFFICES ASSUME IInv, [Next]_vars PROVE LinkOrder'
  OBVIOUS
<1> USE DEF IInv, TypeOK, LinkOrder, OpenPc, Pc, ReleasePc, CommandPc, fileVars, devVars, Goto
<1>1. ASSUME NEW f \in Files, FileStep(f) PROVE LinkOrder'
  <2>1. CASE StartOpen(f)
    BY <2>1 DEF StartOpen
  <2>2. CASE FindDevice(f)
    BY <2>2 DEF FindDevice
  <2>3. CASE GetReference(f)
    BY <2>3 DEF GetReference
  <2>4. CASE LockOpen(f)
    BY <2>4 DEF LockOpen
  <2>5. CASE LoadCount(f, "load", "store")
    BY <2>5 DEF LoadCount
  <2>6. CASE StoreOpened(f)
    BY <2>6 DEF StoreOpened
  <2>7. CASE ResumeDevice(f)
    BY <2>7 DEF ResumeDevice
  <2>8. CASE LoadCount(f, "undo", "undostore")
    BY <2>8 DEF LoadCount
  <2>9. CASE UndoOpened(f)
    BY <2>9 DEF UndoOpened
  <2>10. CASE FinishOpen(f)
    BY <2>10 DEF FinishOpen
  <2>11. CASE DropReference(f)
    BY <2>11 DEF DropReference
  <2>12. CASE StartRelease(f)
    BY <2>12 DEF StartRelease
  <2>13. CASE LockRelease(f)
    BY <2>13 DEF LockRelease
  <2>14. CASE LoadCount(f, "rload", "rstore")
    BY <2>14 DEF LoadCount
  <2>15. CASE StoreReleased(f)
    BY <2>15 DEF StoreReleased
  <2>16. CASE SubmitUrb(f)
    BY <2>16 DEF SubmitUrb
  <2>17. CASE StartCommand(f)
    BY <2>17 DEF StartCommand
  <2>18. CASE FinishCommand(f)
    BY <2>18 DEF FinishCommand
  <2> QED
    BY <1>1, <2>1, <2>2, <2>3, <2>4, <2>5, <2>6, <2>7, <2>8,
       <2>9, <2>10, <2>11, <2>12, <2>13, <2>14, <2>15, <2>16, <2>17, <2>18
    DEF FileStep, OpenStep, ReleaseStep
<1>2. CASE CompleteUrb
  BY <1>2 DEF CompleteUrb
<1>3. CASE ProbeAllocate
  BY <1>3 DEF ProbeAllocate
<1>4. CASE ProbeFails
  BY <1>4 DEF ProbeFails
<1>5. CASE ProbeRegisters
  BY <1>5 DEF ProbeRegisters
<1>6. CASE DisableEndpoints
  BY <1>6 DEF DisableEndpoints
<1>7. CASE ClearIntfdata
  BY <1>7 DEF ClearIntfdata
<1>8. CASE Deregister
  BY <1>8 DEF Deregister, OpensDrained
<1>9. CASE ClearInterface
  BY <1>9 DEF ClearInterface
<1>10. CASE FinishDisconnect
  BY <1>10 DEF FinishDisconnect
<1>11. CASE UNCHANGED vars
  BY <1>11 DEF vars
<1> QED
  BY <1>1, <1>2, <1>3, <1>4, <1>5, <1>6, <1>7, <1>8, <1>9, <1>10, <1>11
  DEF Next, FileStep, DisconnectStep

(* A step of one file from holding to holding, or from not holding to not  *)
(* holding, leaves the set of holders alone.                               *)
LEMMA SameHolders ==
  ASSUME TypeOK, NEW f \in Files, NEW l, Goto(f, l),
         l \in HolderPc <=> pc[f] \in HolderPc
  PROVE  Holders' = Holders
BY DEF TypeOK, Goto, Holders

(* The references add up as long as neither they nor what they count       *)
(* changes.                                                                *)
LEMMA SameCount ==
  ASSUME ReferencesCounted, kref' = kref, freed' = freed, Holders' = Holders,
         (link \in Bound)' <=> link \in Bound
  PROVE  ReferencesCounted'
BY DEF ReferencesCounted

(* A file that drops its reference, and the driver model that drops its    *)
(* own, take one from the count, and the last of them frees the structure. *)
LEMMA CountStep == IInv /\ [Next]_vars => ReferencesCounted'
<1> SUFFICES ASSUME IInv, [Next]_vars PROVE ReferencesCounted'
  OBVIOUS
<1>0. TypeOK /\ ReferencesCounted
  BY DEF IInv
<1> USE <1>0
<1>1. ASSUME NEW f \in Files, FileStep(f) PROVE ReferencesCounted'
  <2>1. CASE StartOpen(f)
    <3>1. Goto(f, "find")
      BY <2>1 DEF StartOpen
    <3>2. Holders' = Holders
      BY <2>1, <3>1, SameHolders DEF StartOpen, HolderPc, Pc, OpenPc, ReleasePc, CommandPc
    <3> QED
      BY <2>1, <3>2, SameCount DEF StartOpen, devVars
  <2>2. CASE FindDevice(f)
    <3>1. PICK l \in {"found", "closed"} : Goto(f, l)
      BY <2>2 DEF FindDevice
    <3>2. Holders' = Holders
      BY <2>2, <3>1, SameHolders DEF FindDevice, HolderPc, Pc, OpenPc, ReleasePc, CommandPc
    <3> QED
      BY <2>2, <3>2, SameCount DEF FindDevice, devVars
  <2>3. CASE GetReference(f)
    <3>1. f \notin Holders /\ Holders' = Holders \cup {f}
      BY <2>3 DEF GetReference, Goto, Holders, TypeOK, HolderPc, Pc, OpenPc, ReleasePc, CommandPc
    <3>2. Cardinality(Holders') = Cardinality(Holders) + 1
      BY <3>1, HoldersFinite, FS_AddElement
    <3>3. link \in Bound /\ ~freed
      BY <2>3, HolderCounted DEF GetReference, IInv, LinkOrder, OpenPc, Bound, ReferencesCounted
    <3> QED
      BY <2>3, <3>2, <3>3, HoldersFinite DEF GetReference, Got, ReferencesCounted, TypeOK
  <2>4. CASE LockOpen(f)
    <3>1. Goto(f, "load")
      BY <2>4 DEF LockOpen
    <3>2. Holders' = Holders
      BY <2>4, <3>1, SameHolders DEF LockOpen, HolderPc, Pc, OpenPc, ReleasePc, CommandPc
    <3> QED
      BY <2>4, <3>2, SameCount DEF LockOpen, devVars
  <2>5. CASE LoadCount(f, "load", "store")
    <3>1. Holders' = Holders
      BY <2>5, SameHolders DEF LoadCount, HolderPc, Pc, OpenPc, ReleasePc, CommandPc
    <3> QED
      BY <2>5, <3>1, SameCount DEF LoadCount, devVars
  <2>6. CASE StoreOpened(f)
    <3>1. PICK l \in {"pm", "init"} : Goto(f, l)
      BY <2>6 DEF StoreOpened
    <3>2. Holders' = Holders
      BY <2>6, <3>1, SameHolders DEF StoreOpened, HolderPc, Pc, OpenPc, ReleasePc, CommandPc
    <3> QED
      BY <2>6, <3>2, SameCount DEF StoreOpened, devVars
  <2>7. CASE ResumeDevice(f)
    <3>1. PICK l \in {"init", "undo"} : Goto(f, l)
      BY <2>7 DEF ResumeDevice
    <3>2. Holders' = Holders
      BY <2>7, <3>1, SameHolders DEF ResumeDevice, HolderPc, Pc, OpenPc, ReleasePc, CommandPc
    <3> QED
      BY <2>7, <3>2, SameCount DEF ResumeDevice, devVars
  <2>8. CASE LoadCount(f, "undo", "undostore")
    <3>1. Holders' = Holders
      BY <2>8, SameHolders DEF LoadCount, HolderPc, Pc, OpenPc, ReleasePc, CommandPc
    <3> QED
      BY <2>8, <3>1, SameCount DEF LoadCount, devVars
  <2>9. CASE UndoOpened(f)
    <3>1. Goto(f, "putopen")
      BY <2>9 DEF UndoOpened
    <3>2. Holders' = Holders
      BY <2>9, <3>1, SameHolders DEF UndoOpened, HolderPc, Pc, OpenPc, ReleasePc, CommandPc
    <3> QED
      BY <2>9, <3>2, SameCount DEF UndoOpened, devVars
  <2>10. CASE FinishOpen(f)
    <3>1. Goto(f, "open")
      BY <2>10 DEF FinishOpen
    <3>2. Holders' = Holders
      BY <2>10, <3>1, SameHolders DEF FinishOpen, HolderPc, Pc, OpenPc, ReleasePc, CommandPc
    <3> QED
      BY <2>10, <3>2, SameCount DEF FinishOpen, devVars
  <2>11. CASE DropReference(f)
    <3>1. f \in Holders /\ Holders' = Holders \ {f}
      BY <2>11 DEF DropReference, Goto, Holders, TypeOK, HolderPc, Pc, OpenPc, ReleasePc, CommandPc
    <3>2. Cardinality(Holders') = Cardinality(Holders) - 1
      BY <3>1, HoldersFinite, FS_RemoveElement
    <3>3. kref' = kref - 1 /\ (freed' <=> kref' = 0) /\ link' = link
      BY <2>11 DEF DropReference, KrefPut, Put
    <3> QED
      BY <3>2, <3>3, HoldersFinite DEF ReferencesCounted, TypeOK
  <2>12. CASE StartRelease(f)
    <3>1. Goto(f, "rlock")
      BY <2>12 DEF StartRelease
    <3>2. Holders' = Holders
      BY <2>12, <3>1, SameHolders DEF StartRelease, HolderPc, Pc, OpenPc, ReleasePc, CommandPc
    <3> QED
      BY <2>12, <3>2, SameCount DEF StartRelease, devVars
  <2>13. CASE LockRelease(f)
    <3>1. Goto(f, "rload")
      BY <2>13 DEF LockRelease
    <3>2. Holders' = Holders
      BY <2>13, <3>1, SameHolders DEF LockRelease, HolderPc, Pc, OpenPc, ReleasePc, CommandPc
    <3> QED
      BY <2>13, <3>2, SameCount DEF LockRelease, devVars
  <2>14. CASE LoadCount(f, "rload", "rstore")
    <3>1. Holders' = Holders
      BY <2>14, SameHolders DEF LoadCount, HolderPc, Pc, OpenPc, ReleasePc, CommandPc
    <3> QED
      BY <2>14, <3>1, SameCount DEF LoadCount, devVars
  <2>15. CASE StoreReleased(f)
    <3>1. Goto(f, "put")
      BY <2>15 DEF StoreReleased
    <3>2. Holders' = Holders
      BY <2>15, <3>1, SameHolders DEF StoreReleased, HolderPc, Pc, OpenPc, ReleasePc, CommandPc
    <3> QED
      BY <2>15, <3>2, SameCount DEF StoreReleased, devVars
  <2>16. CASE SubmitUrb(f)
    <3>1. Holders' = Holders
      BY <2>16 DEF SubmitUrb, fileVars, Holders
    <3> QED
      BY <2>16, <3>1, SameCount DEF SubmitUrb
  <2>17. CASE StartCommand(f)
    <3>1. Goto(f, "command")
      BY <2>17 DEF StartCommand
    <3>2. Holders' = Holders
      BY <2>17, <3>1, SameHolders DEF StartCommand, HolderPc, Pc, OpenPc, ReleasePc, CommandPc
    <3> QED
      BY <2>17, <3>2, SameCount DEF StartCommand, devVars
  <2>18. CASE FinishCommand(f)
    <3>1. Goto(f, "open")
      BY <2>18 DEF FinishCommand
    <3>2. Holders' = Holders
      BY <2>18, <3>1, SameHolders DEF FinishCommand, HolderPc, Pc, OpenPc, ReleasePc, CommandPc
    <3> QED
      BY <2>18, <3>2, SameCount DEF FinishCommand, devVars
  <2> QED
    BY <1>1, <2>1, <2>2, <2>3, <2>4, <2>5, <2>6, <2>7, <2>8,
       <2>9, <2>10, <2>11, <2>12, <2>13, <2>14, <2>15, <2>16, <2>17, <2>18
    DEF FileStep, OpenStep, ReleaseStep
<1>2. CASE CompleteUrb
  <2>1. Holders' = Holders
    BY <1>2 DEF CompleteUrb, fileVars, Holders
  <2> QED
    BY <1>2, <2>1, SameCount DEF CompleteUrb, Bound
<1>3. CASE ProbeAllocate
  <2>1. Holders' = Holders /\ kref' = 1 /\ ~freed' /\ link \notin Bound /\ link' \in Bound
    BY <1>3 DEF ProbeAllocate, Holders, Bound
  <2>2. Cardinality(Holders) = 0
    BY <1>3, HoldersFinite DEF ProbeAllocate, ReferencesCounted
  <2> QED
    BY <2>1, <2>2 DEF ReferencesCounted
<1>4. CASE ProbeFails
  <2>1. Holders' = Holders /\ link \in Bound /\ link' \notin Bound
    BY <1>4 DEF ProbeFails, fileVars, Holders, Bound
  <2>2. kref' = kref - 1 /\ (freed' <=> kref' = 0)
    BY <1>4 DEF ProbeFails, KrefPut, Put
  <2> QED
    BY <2>1, <2>2, HoldersFinite DEF ReferencesCounted, TypeOK
<1>5. CASE ProbeRegisters
  <2>1. Holders' = Holders
    BY <1>5 DEF ProbeRegisters, fileVars, Holders
  <2> QED
    BY <1>5, <2>1, SameCount DEF ProbeRegisters, Bound
<1>6. CASE DisableEndpoints
  <2>1. Holders' = Holders
    BY <1>6 DEF DisableEndpoints, fileVars, Holders
  <2> QED
    BY <1>6, <2>1, SameCount DEF DisableEndpoints, Bound
<1>7. CASE ClearIntfdata
  <2>1. Holders' = Holders
    BY <1>7 DEF ClearIntfdata, fileVars, Holders
  <2> QED
    BY <1>7, <2>1, SameCount DEF ClearIntfdata, Bound
<1>8. CASE Deregister
  <2>1. Holders' = Holders
    BY <1>8 DEF Deregister, fileVars, Holders
  <2> QED
    BY <1>8, <2>1, SameCount DEF Deregister, Bound
<1>9. CASE ClearInterface
  <2>1. Holders' = Holders
    BY <1>9 DEF ClearInterface, fileVars, Holders
  <2> QED
    BY <1>9, <2>1, SameCount DEF ClearInterface, Bound
<1>10. CASE FinishDisconnect
  <2>1. Holders' = Holders /\ link \in Bound /\ link' \notin Bound
    BY <1>10 DEF FinishDisconnect, fileVars, Holders, Bound
  <2>2. kref' = kref - 1 /\ (freed' <=> kref' = 0)
    BY <1>10 DEF FinishDisconnect, KrefPut, Put
  <2> QED
    BY <2>1, <2>2, HoldersFinite DEF ReferencesCounted, TypeOK
<1>11. CASE UNCHANGED vars
  BY <1>11, SameCount DEF vars, fileVars, devVars, Holders
<1> QED
  BY <1>1, <1>2, <1>3, <1>4, <1>5, <1>6, <1>7, <1>8, <1>9, <1>10, <1>11
  DEF Next, FileStep, DisconnectStep

(* What holds of the references and of the order of probe and disconnect   *)
(* in every reachable state.                                               *)
THEOREM Safety == Spec => []IInv
<1>1. Init => IInv
  <2> SUFFICES ASSUME Init PROVE IInv
    OBVIOUS
  <2>1. TypeOK
    <3>1. /\ pc \in [Files -> Pc] /\ kind \in [Files -> Kinds]
          /\ seen \in [Files -> Int]
      BY DEF Init, Pc, Kinds
    <3>2. live \in [Files -> BOOLEAN]
      BY DEF Init
    <3>3. mutex \in [Kinds -> Files \cup {Unlocked}]
      BY DEF Init
    <3>4. /\ openCount \in Int /\ pm \in Int /\ kref \in Nat
          /\ link \in {"absent", "gone"} \cup Bound /\ kinds \subseteq Kinds
      BY DEF Init
    <3>5. /\ freed \in BOOLEAN /\ intfdata \in BOOLEAN /\ registered \in BOOLEAN
          /\ interface \in BOOLEAN /\ active \in BOOLEAN
      BY DEF Init
    <3> QED
      BY <3>1, <3>2, <3>3, <3>4, <3>5 DEF TypeOK
  <2>2. LinkOrder
    BY DEF Init, LinkOrder, OpenPc
  <2>3. ReferencesCounted
    <3>1. Holders = {}
      BY DEF Init, Holders, HolderPc
    <3>2. Cardinality(Holders) = 0
      BY <3>1, FS_EmptySet
    <3> QED
      BY <3>2 DEF Init, ReferencesCounted, Bound
  <2> QED
    BY <2>1, <2>2, <2>3 DEF IInv
<1>2. IInv /\ [Next]_vars => IInv'
  BY TypeStep, OrderStep, CountStep DEF IInv
<1> QED
  BY <1>1, <1>2, PTL DEF Spec

(* Every variable of the lifecycle stays within its range.                 *)
THEOREM TypeCorrect == Spec => []TypeOK
<1>1. IInv => TypeOK
  BY DEF IInv
<1> QED
  BY <1>1, Safety, PTL

(* kref is the number of files that own a reference, plus the driver       *)
(* model's one, and bt_hci_delete has run exactly when it is zero.         *)
THEOREM CountCorrect == Spec => []ReferencesCounted
<1>1. IInv => ReferencesCounted
  BY DEF IInv
<1> QED
  BY <1>1, Safety, PTL

(* No file, handler or callback uses the structure once it is freed.       *)
THEOREM NobodyUsesFreed == Spec => []NoUseAfterFree
<1>1. IInv => NoUseAfterFree
  <2> SUFFICES ASSUME IInv, freed
               PROVE  ~active /\ \A f \in Files : pc[f] \in {"closed", "find"}
    BY DEF NoUseAfterFree
  <2>1. kref = 0
    BY DEF IInv, ReferencesCounted
  <2>2. link \notin Bound /\ \A f \in Files : pc[f] \notin HolderPc
    BY <2>1, HolderCounted DEF IInv
  <2>3. ~active
    BY <2>2 DEF IInv, LinkOrder, Bound
  <2>4. ASSUME NEW f \in Files PROVE pc[f] \in {"closed", "find"}
    BY <2>2 DEF IInv, TypeOK, LinkOrder, HolderPc, OpenPc, Bound
  <2> QED
    BY <2>3, <2>4
<1> QED
  BY <1>1, Safety, PTL
---------------------------------------------------------------------------
(* open_count and the autopm reference. As long as the files have been of  *)
(* one kind they share one mutex, and that mutex makes the load and the    *)
(* store of open_count one update.                                         *)

(* Each mutex is held by the file of its kind that is past mutex_lock.     *)
MutexHeld ==
  \A f \in Files, k \in Kinds :
    mutex[k] = f <=> kind[f] = k /\ pc[f] \in LockedPc

KindsKnown == \A f \in Files : pc[f] # "closed" => kind[f] \in kinds

(* A device is published with no file on it, and keeps its interface until *)
(* disconnect: whoever releases it while it is up finds the interface.     *)
BornClosed ==
  /\ link \in {"absent", "probing"} => \A f \in Files : pc[f] = "closed"
  /\ link \in {"probing", "up"} => interface
  /\ link = "up" => \A f \in Files : pc[f] \in {"rload", "rstore"} => live[f]

SameKind == \A a, b \in kinds : a = b

CountedFiles == {f \in Files : pc[f] \in CountedPc}

(* open_count is right between a load and its store as well, and what was  *)
(* loaded is still there.                                                  *)
CountExact ==
  SameKind =>
    /\ openCount = Cardinality(CountedFiles)
    /\ \A f \in Files : pc[f] \in {"store", "undostore", "rstore"} => seen[f] = openCount

(* The first opener has counted itself and is resuming the device, or has  *)
(* failed to and is about to uncount itself.                               *)
Resuming == \E f \in Files : pc[f] \in {"pm", "undo", "undostore"}

AwakeExact ==
  SameKind /\ link \in {"probing", "up"} =>
    /\ Resuming => openCount = 1 /\ pm = 0
    /\ ~Resuming => pm = IF openCount = 0 THEN 0 ELSE 1

LockInv == MutexHeld /\ KindsKnown /\ BornClosed

OpenersInv == LockInv /\ CountExact /\ AwakeExact

(* A set of at most one element has no two. *)
LEMMA OneKindSame ==
  ASSUME TypeOK, OneKind
  PROVE  SameKind
<1> SUFFICES ASSUME NEW a \in kinds, NEW b \in kinds, a # b PROVE FALSE
  BY DEF SameKind
<1>1. IsFiniteSet(kinds) /\ Cardinality(kinds) \in Nat
  <2>1. IsFiniteSet({"acl"} \cup {"hci"})
    BY FS_Singleton, FS_AddElement
  <2>2. kinds \subseteq {"acl"} \cup {"hci"}
    BY DEF TypeOK, Kinds
  <2> QED
    BY <2>1, <2>2, FS_Subset, FS_CardinalityType
<1>2. /\ IsFiniteSet({a} \cup {b})
      /\ Cardinality({a} \cup {b}) = 2
  <2>1. IsFiniteSet({a}) /\ Cardinality({a}) = 1 /\ b \notin {a}
    BY FS_Singleton
  <2> QED
    BY <2>1, FS_AddElement
<1>3. Cardinality({a} \cup {b}) <= Cardinality(kinds)
  <2>1. {a} \cup {b} \in SUBSET kinds
    OBVIOUS
  <2> QED
    BY <1>1, <2>1, FS_Subset
<1> QED
  BY <1>1, <1>2, <1>3 DEF OneKind

(* Another device structure is made only when no file is open. *)
LEMMA FreedClosed ==
  ASSUME IInv, freed, link \notin {"up", "disabled", "cleared"}
  PROVE  \A f \in Files : pc[f] = "closed"
<1>1. kref = 0
  BY DEF IInv, ReferencesCounted
<1>2. \A f \in Files : pc[f] \notin HolderPc
  BY <1>1, HolderCounted DEF IInv
<1> QED
  BY <1>2 DEF IInv, TypeOK, LinkOrder, HolderPc, OpenPc

(* Files of one kind are past mutex_lock one at a time. *)
LEMMA OneLocked ==
  ASSUME TypeOK, LockInv, SameKind,
         NEW f \in Files, NEW g \in Files, pc[f] \in LockedPc, pc[g] \in LockedPc
  PROVE  f = g
<1>1. kind[f] = kind[g]
  BY DEF LockInv, KindsKnown, SameKind, LockedPc
<1>2. kind[f] \in Kinds
  BY DEF TypeOK
<1> QED
  BY <1>1, <1>2 DEF LockInv, MutexHeld

(* mutex_lock and mutex_unlock keep one holder to a mutex. *)
LEMMA MutexStep == IInv /\ LockInv /\ [Next]_vars => MutexHeld'
<1> SUFFICES ASSUME IInv, LockInv, [Next]_vars PROVE MutexHeld'
  OBVIOUS
<1> USE LifecycleAssumption
    DEF IInv, LockInv, TypeOK, MutexHeld, LockedPc, Kinds, fileVars, devVars, Goto
<1>1. ASSUME NEW f \in Files, FileStep(f) PROVE MutexHeld'
  <2>1. CASE StartOpen(f)
    BY <2>1 DEF StartOpen
  <2>2. CASE FindDevice(f)
    BY <2>2 DEF FindDevice
  <2>3. CASE GetReference(f)
    BY <2>3 DEF GetReference
  <2>4. CASE LockOpen(f)
    BY <2>4 DEF LockOpen, Lock
  <2>5. CASE LoadCount(f, "load", "store")
    BY <2>5 DEF LoadCount
  <2>6. CASE StoreOpened(f)
    BY <2>6 DEF StoreOpened
  <2>7. CASE ResumeDevice(f)
    BY <2>7 DEF ResumeDevice
  <2>8. CASE LoadCount(f, "undo", "undostore")
    BY <2>8 DEF LoadCount
  <2>9. CASE UndoOpened(f)
    BY <2>9 DEF UndoOpened, Unlock
  <2>10. CASE FinishOpen(f)
    BY <2>10 DEF FinishOpen, Unlock
  <2>11. CASE DropReference(f)
    BY <2>11 DEF DropReference
  <2>12. CASE StartRelease(f)
    BY <2>12 DEF StartRelease
  <2>13. CASE LockRelease(f)
    BY <2>13 DEF LockRelease, Lock
  <2>14. CASE LoadCount(f, "rload", "rstore")
    BY <2>14 DEF LoadCount
  <2>15. CASE StoreReleased(f)
    BY <2>15 DEF StoreReleased, Unlock
  <2>16. CASE SubmitUrb(f)
    BY <2>16 DEF SubmitUrb
  <2>17. CASE StartCommand(f)
    BY <2>17 DEF StartCommand
  <2>18. CASE FinishCommand(f)
    BY <2>18 DEF FinishCommand
  <2> QED
    BY <1>1, <2>1, <2>2, <2>3, <2>4, <2>5, <2>6, <2>7, <2>8,
       <2>9, <2>10, <2>11, <2>12, <2>13, <2>14, <2>15, <2>16, <2>17, <2>18
    DEF FileStep, OpenStep, ReleaseStep
<1>2. CASE CompleteUrb
  BY <1>2 DEF CompleteUrb
<1>3. CASE ProbeAllocate
  BY <1>3 DEF ProbeAllocate
<1>4. CASE ProbeFails
  BY <1>4 DEF ProbeFails
<1>5. CASE ProbeRegisters
  BY <1>5 DEF ProbeRegisters
<1>6. CASE DisableEndpoints
  BY <1>6 DEF DisableEndpoints
<1>7. CASE ClearIntfdata
  BY <1>7 DEF ClearIntfdata
<1>8. CASE Deregister
  BY <1>8 DEF Deregister
<1>9. CASE ClearInterface
  BY <1>9 DEF ClearInterface
<1>10. CASE FinishDisconnect
  BY <1>10 DEF FinishDisconnect
<1>11. CASE UNCHANGED vars
  BY <1>11 DEF vars
<1> QED
  BY <1>1, <1>2, <1>3, <1>4, <1>5, <1>6, <1>7, <1>8, <1>9, <1>10, <1>11
  DEF Next, FileStep, DisconnectStep

(* Only a new device structure forgets the kinds, and no file is open then. *)
LEMMA KindsStep == IInv /\ LockInv /\ [Next]_vars => KindsKnown'
<1> SUFFICES ASSUME IInv, LockInv, [Next]_vars PROVE KindsKnown'
  OBVIOUS
<1> USE DEF IInv, LockInv, TypeOK, KindsKnown, fileVars, devVars, Goto
<1>1. ASSUME NEW f \in Files, FileStep(f) PROVE KindsKnown'
  <2>1. CASE StartOpen(f)
    BY <2>1 DEF StartOpen
  <2>2. CASE FindDevice(f)
    BY <2>2 DEF FindDevice
  <2>3. CASE GetReference(f)
    BY <2>3 DEF GetReference
  <2>4. CASE LockOpen(f)
    BY <2>4 DEF LockOpen, Lock
  <2>5. CASE LoadCount(f, "load", "store")
    BY <2>5 DEF LoadCount
  <2>6. CASE StoreOpened(f)
    BY <2>6 DEF StoreOpened
  <2>7. CASE ResumeDevice(f)
    BY <2>7 DEF ResumeDevice
  <2>8. CASE LoadCount(f, "undo", "undostore")
    BY <2>8 DEF LoadCount
  <2>9. CASE UndoOpened(f)
    BY <2>9 DEF UndoOpened, Unlock
  <2>10. CASE FinishOpen(f)
    BY <2>10 DEF FinishOpen, Unlock
  <2>11. CASE DropReference(f)
    BY <2>11 DEF DropReference
  <2>12. CASE StartRelease(f)
    BY <2>12 DEF StartRelease
  <2>13. CASE LockRelease(f)
    BY <2>13 DEF LockRelease, Lock
  <2>14. CASE LoadCount(f, "rload", "rstore")
    BY <2>14 DEF LoadCount
  <2>15. CASE StoreReleased(f)
    BY <2>15 DEF StoreReleased, Unlock
  <2>16. CASE SubmitUrb(f)
    BY <2>16 DEF SubmitUrb
  <2>17. CASE StartCommand(f)
    BY <2>17 DEF StartCommand
  <2>18. CASE FinishCommand(f)
    BY <2>18 DEF FinishCommand
  <2> QED
    BY <1>1, <2>1, <2>2, <2>3, <2>4, <2>5, <2>6, <2>7, <2>8,
       <2>9, <2>10, <2>11, <2>12, <2>13, <2>14, <2>15, <2>16, <2>17, <2>18
    DEF FileStep, OpenStep, ReleaseStep
<1>2. CASE CompleteUrb
  BY <1>2 DEF CompleteUrb
<1>3. CASE ProbeAllocate
  <2>1. \A f \in Files : pc[f] = "closed"
    BY <1>3, FreedClosed DEF ProbeAllocate
  <2> QED
    BY <1>3, <2>1 DEF ProbeAllocate
<1>4. CASE ProbeFails
  BY <1>4 DEF ProbeFails
<1>5. CASE ProbeRegisters
  BY <1>5 DEF ProbeRegisters
<1>6. CASE DisableEndpoints
  BY <1>6 DEF DisableEndpoints
<1>7. CASE ClearIntfdata
  BY <1>7 DEF ClearIntfdata
<1>8. CASE Deregister
  BY <1>8 DEF Deregister
<1>9. CASE ClearInterface
  BY <1>9 DEF ClearInterface
<1>10. CASE FinishDisconnect
  BY <1>10 DEF FinishDisconnect
<1>11. CASE UNCHANGED vars
  BY <1>11 DEF vars
<1> QED
  BY <1>1, <1>2, <1>3, <1>4, <1>5, <1>6, <1>7, <1>8, <1>9, <1>10, <1>11
  DEF Next, FileStep, DisconnectStep

(* No file is open before the device is up, and its interface is there     *)
(* until usb_deregister_dev has returned.                                  *)
LEMMA BornStep == IInv /\ LockInv /\ [Next]_vars => BornClosed'
<1> SUFFICES ASSUME IInv, LockInv, [Next]_vars PROVE BornClosed'
  OBVIOUS
<1> USE DEF IInv, LockInv, TypeOK, LinkOrder, BornClosed, fileVars, devVars, Goto
<1>1. ASSUME NEW f \in Files, FileStep(f) PROVE BornClosed'
  <2>1. CASE StartOpen(f)
    BY <2>1 DEF StartOpen
  <2>2. CASE FindDevice(f)
    BY <2>2 DEF FindDevice
  <2>3. CASE GetReference(f)
    BY <2>3 DEF GetReference
  <2>4. CASE LockOpen(f)
    BY <2>4 DEF LockOpen, Lock
  <2>5. CASE LoadCount(f, "load", "store")
    BY <2>5 DEF LoadCount
  <2>6. CASE StoreOpened(f)
    BY <2>6 DEF StoreOpened
  <2>7. CASE ResumeDevice(f)
    BY <2>7 DEF ResumeDevice
  <2>8. CASE LoadCount(f, "undo", "undostore")
    BY <2>8 DEF LoadCount
  <2>9. CASE UndoOpened(f)
    BY <2>9 DEF UndoOpened, Unlock
  <2>10. CASE FinishOpen(f)
    BY <2>10 DEF FinishOpen, Unlock
  <2>11. CASE DropReference(f)
    BY <2>11 DEF DropReference
  <2>12. CASE StartRelease(f)
    BY <2>12 DEF StartRelease
  <2>13. CASE LockRelease(f)
    BY <2>13 DEF LockRelease, Lock
  <2>14. CASE LoadCount(f, "rload", "rstore")
    BY <2>14 DEF LoadCount
  <2>15. CASE StoreReleased(f)
    BY <2>15 DEF StoreReleased, Unlock
  <2>16. CASE SubmitUrb(f)
    BY <2>16 DEF SubmitUrb
  <2>17. CASE StartCommand(f)
    BY <2>17 DEF StartCommand
  <2>18. CASE FinishCommand(f)
    BY <2>18 DEF FinishCommand
  <2> QED
    BY <1>1, <2>1, <2>2, <2>3, <2>4, <2>5, <2>6, <2>7, <2>8,
       <2>9, <2>10, <2>11, <2>12, <2>13, <2>14, <2>15, <2>16, <2>17, <2>18
    DEF FileStep, OpenStep, ReleaseStep
<1>2. CASE CompleteUrb
  BY <1>2 DEF CompleteUrb
<1>3. CASE ProbeAllocate
  <2>1. \A f \in Files : pc[f] = "closed"
    BY <1>3, FreedClosed DEF ProbeAllocate
  <2> QED
    BY <1>3, <2>1 DEF ProbeAllocate
<1>4. CASE ProbeFails
  BY <1>4 DEF ProbeFails
<1>5. CASE ProbeRegisters
  BY <1>5 DEF ProbeRegisters
<1>6. CASE DisableEndpoints
  BY <1>6 DEF DisableEndpoints
<1>7. CASE ClearIntfdata
  BY <1>7 DEF ClearIntfdata
<1>8. CASE Deregister
  BY <1>8 DEF Deregister
<1>9. CASE ClearInterface
  BY <1>9 DEF ClearInterface
<1>10. CASE FinishDisconnect
  BY <1>10 DEF FinishDisconnect
<1>11. CASE UNCHANGED vars
  BY <1>11 DEF vars
<1> QED
  BY <1>1, <1>2, <1>3, <1>4, <1>5, <1>6, <1>7, <1>8, <1>9, <1>10, <1>11
  DEF Next, FileStep, DisconnectStep

(* The locks are right, whatever the files do. *)
LEMMA LockStep == IInv /\ LockInv /\ [Next]_vars => LockInv'
BY MutexStep, KindsStep, BornStep DEF LockInv

(* The files that are counted are finitely many. *)
LEMMA CountedFinite == IsFiniteSet(CountedFiles) /\ Cardinality(CountedFiles) \in Nat
<1>1. IsFiniteSet(Files) /\ CountedFiles \subseteq Files
  BY LifecycleAssumption DEF CountedFiles
<1> QED
  BY <1>1, FS_Subset, FS_CardinalityType

(* Whoever is counted finds the count positive. *)
LEMMA OpenerCounted ==
  ASSUME CountExact, SameKind
  PROVE  openCount \in Nat /\ \A f \in Files : pc[f] \in CountedPc => openCount > 0
<1>1. openCount = Cardinality(CountedFiles)
  BY DEF CountExact
<1>2. ASSUME NEW f \in Files, pc[f] \in CountedPc PROVE Cardinality(CountedFiles) # 0
  <2>1. CountedFiles # {}
    BY <1>2 DEF CountedFiles
  <2> QED
    BY <2>1, CountedFinite, FS_EmptySet
<1> QED
  BY <1>1, <1>2, CountedFinite

(* A step of one file that neither begins nor ends its being counted.      *)
LEMMA SameCounted ==
  ASSUME TypeOK, NEW f \in Files, NEW l, Goto(f, l),
         l \in CountedPc <=> pc[f] \in CountedPc
  PROVE  CountedFiles' = CountedFiles
BY DEF TypeOK, Goto, CountedFiles

AtStore(f) == pc[f] \in {"store", "undostore", "rstore"}

(* The count stays right as long as neither it nor what it counts changes, *)
(* and nobody arrives at a store.                                          *)
LEMMA KeepCount ==
  ASSUME CountExact, kinds \subseteq kinds', openCount' = openCount,
         CountedFiles' = CountedFiles,
         \A f \in Files : AtStore(f)' => AtStore(f) /\ seen'[f] = seen[f]
  PROVE  CountExact'
<1>1. SUFFICES ASSUME SameKind' PROVE CountExact'
  BY DEF CountExact
<1>2. SameKind
  BY <1>1 DEF SameKind
<1> QED
  BY <1>2 DEF CountExact, AtStore

(* A load under the mutex brings in the current count. *)
LEMMA LoadExact ==
  ASSUME TypeOK, CountExact, NEW f \in Files, NEW from, NEW to, LoadCount(f, from, to),
         from \in CountedPc <=> to \in CountedPc
  PROVE  CountExact'
<1>1. SUFFICES ASSUME SameKind' PROVE CountExact'
  BY DEF CountExact
<1>2. SameKind
  BY <1>1 DEF SameKind, LoadCount, devVars
<1>3. CountedFiles' = CountedFiles
  BY SameCounted DEF LoadCount
<1>4. openCount' = openCount
  BY DEF LoadCount
<1>5. ASSUME NEW g \in Files, AtStore(g)' PROVE seen'[g] = openCount
  <2>1. CASE g = f
    BY <2>1 DEF LoadCount, TypeOK
  <2>2. CASE g # f
    BY <1>2, <1>5, <2>2 DEF LoadCount, Goto, TypeOK, CountExact, AtStore
  <2> QED
    BY <2>1, <2>2
<1> QED
  BY <1>2, <1>3, <1>4, <1>5 DEF CountExact, AtStore

(* The store that ends the update is of the count that was loaded. *)
LEMMA StoreExact ==
  ASSUME TypeOK, LockInv, CountExact, NEW f \in Files, NEW l, Goto(f, l),
         AtStore(f), l \notin {"store", "undostore", "rstore"},
         kinds' = kinds,
         openCount' = seen[f] + (IF l \in CountedPc THEN 1 ELSE -1),
         l \in CountedPc <=> pc[f] \notin CountedPc
  PROVE  CountExact'
<1>1. SUFFICES ASSUME SameKind' PROVE CountExact'
  BY DEF CountExact
<1>2. SameKind
  BY <1>1 DEF SameKind
<1>3. seen[f] = Cardinality(CountedFiles)
  BY <1>2 DEF CountExact, AtStore
<1>4. ASSUME NEW g \in Files PROVE ~AtStore(g)'
  <2>1. CASE g = f
    BY <2>1 DEF AtStore, Goto, TypeOK
  <2>2. CASE g # f
    <3>1. ~AtStore(g)
      BY <1>2, <2>2, OneLocked DEF AtStore, LockedPc
    <3> QED
      BY <2>2, <3>1 DEF AtStore, Goto, TypeOK
  <2> QED
    BY <2>1, <2>2
<1>5. openCount' = Cardinality(CountedFiles')
  <2>1. CASE l \in CountedPc
    <3>1. f \notin CountedFiles /\ CountedFiles' = CountedFiles \cup {f}
      BY <2>1 DEF CountedFiles, Goto, TypeOK
    <3>2. Cardinality(CountedFiles') = Cardinality(CountedFiles) + 1
      BY <3>1, CountedFinite, FS_AddElement
    <3> QED
      BY <1>3, <2>1, <3>2, CountedFinite
  <2>2. CASE l \notin CountedPc
    <3>1. f \in CountedFiles /\ CountedFiles' = CountedFiles \ {f}
      BY <2>2 DEF CountedFiles, Goto, TypeOK
    <3>2. Cardinality(CountedFiles') = Cardinality(CountedFiles) - 1
      BY <3>1, CountedFinite, FS_RemoveElement
    <3> QED
      BY <1>3, <2>2, <3>2, CountedFinite
  <2> QED
    BY <2>1, <2>2
<1> QED
  BY <1>4, <1>5 DEF CountExact, AtStore

(* open_count is the number of openers after every step. *)
LEMMA CountExactStep == IInv /\ LockInv /\ CountExact /\ [Next]_vars => CountExact'
<1> SUFFICES ASSUME IInv, LockInv, CountExact, [Next]_vars PROVE CountExact'
  OBVIOUS
<1>0. TypeOK /\ LockInv /\ CountExact
  BY DEF IInv
<1> USE <1>0 DEF fileVars, devVars
<1>1. ASSUME NEW f \in Files, FileStep(f) PROVE CountExact'
  <2>1. CASE StartOpen(f)
    <3>1. CountedFiles' = CountedFiles
      BY <2>1, SameCounted DEF StartOpen, CountedPc, CommandPc
    <3>2. \A g \in Files : AtStore(g)' => AtStore(g) /\ seen'[g] = seen[g]
      BY <2>1 DEF StartOpen, Goto, AtStore, TypeOK
    <3> QED
      BY <2>1, <3>1, <3>2, KeepCount DEF StartOpen
  <2>2. CASE FindDevice(f)
    <3>1. CountedFiles' = CountedFiles
      BY <2>2, SameCounted DEF FindDevice, CountedPc, CommandPc
    <3>2. \A g \in Files : AtStore(g)' => AtStore(g) /\ seen'[g] = seen[g]
      BY <2>2 DEF FindDevice, Goto, AtStore, TypeOK
    <3> QED
      BY <2>2, <3>1, <3>2, KeepCount DEF FindDevice
  <2>3. CASE GetReference(f)
    <3>1. CountedFiles' = CountedFiles
      BY <2>3, SameCounted DEF GetReference, CountedPc, CommandPc
    <3>2. \A g \in Files : AtStore(g)' => AtStore(g) /\ seen'[g] = seen[g]
      BY <2>3 DEF GetReference, Goto, AtStore, TypeOK
    <3> QED
      BY <2>3, <3>1, <3>2, KeepCount DEF GetReference
  <2>4. CASE LockOpen(f)
    <3>1. CountedFiles' = CountedFiles
      BY <2>4, SameCounted DEF LockOpen, CountedPc, CommandPc
    <3>2. \A g \in Files : AtStore(g)' => AtStore(g) /\ seen'[g] = seen[g]
      BY <2>4 DEF LockOpen, Goto, AtStore, TypeOK
    <3> QED
      BY <2>4, <3>1, <3>2, KeepCount DEF LockOpen
  <2>5. CASE LoadCount(f, "load", "store")
    BY <2>5, LoadExact DEF CountedPc, CommandPc
  <2>6. CASE StoreOpened(f)
    <3>1. PICK l \in {"pm", "init"} : Goto(f, l)
      BY <2>6 DEF StoreOpened
    <3>2. openCount' = seen[f] + 1 /\ kinds' = kinds /\ AtStore(f)
      BY <2>6 DEF StoreOpened, Counted, AtStore
    <3>3. l \in CountedPc /\ pc[f] \notin CountedPc
      BY <2>6 DEF StoreOpened, CountedPc, CommandPc
    <3> QED
      BY <3>1, <3>2, <3>3, StoreExact
  <2>7. CASE ResumeDevice(f)
    <3>1. CountedFiles' = CountedFiles
      BY <2>7, SameCounted DEF ResumeDevice, CountedPc, CommandPc
    <3>2. \A g \in Files : AtStore(g)' => AtStore(g) /\ seen'[g] = seen[g]
      BY <2>7 DEF ResumeDevice, Goto, AtStore, TypeOK
    <3> QED
      BY <2>7, <3>1, <3>2, KeepCount DEF ResumeDevice
  <2>8. CASE LoadCount(f, "undo", "undostore")
    BY <2>8, LoadExact DEF CountedPc, CommandPc
  <2>9. CASE UndoOpened(f)
    <3>1. Goto(f, "putopen") /\ kinds' = kinds /\ AtStore(f)
      BY <2>9 DEF UndoOpened, AtStore
    <3>2. openCount' = seen[f] + (-1)
      <4>1. openCount' = seen[f] - 1
        BY <2>9 DEF UndoOpened, Uncounted
      <4> QED
        BY <4>1 DEF TypeOK
    <3>3. "putopen" \notin CountedPc /\ pc[f] \in CountedPc
      BY <2>9 DEF UndoOpened, CountedPc, CommandPc
    <3> QED
      BY <3>1, <3>2, <3>3, StoreExact
  <2>10. CASE FinishOpen(f)
    <3>1. CountedFiles' = CountedFiles
      BY <2>10, SameCounted DEF FinishOpen, CountedPc, CommandPc
    <3>2. \A g \in Files : AtStore(g)' => AtStore(g) /\ seen'[g] = seen[g]
      BY <2>10 DEF FinishOpen, Goto, AtStore, TypeOK
    <3> QED
      BY <2>10, <3>1, <3>2, KeepCount DEF FinishOpen
  <2>11. CASE DropReference(f)
    <3>1. CountedFiles' = CountedFiles
      BY <2>11, SameCounted DEF DropReference, CountedPc, CommandPc
    <3>2. \A g \in Files : AtStore(g)' => AtStore(g) /\ seen'[g] = seen[g]
      BY <2>11 DEF DropReference, Goto, AtStore, TypeOK
    <3> QED
      BY <2>11, <3>1, <3>2, KeepCount DEF DropReference
  <2>12. CASE StartRelease(f)
    <3>1. CountedFiles' = CountedFiles
      BY <2>12, SameCounted DEF StartRelease, CountedPc, CommandPc
    <3>2. \A g \in Files : AtStore(g)' => AtStore(g) /\ seen'[g] = seen[g]
      BY <2>12 DEF StartRelease, Goto, AtStore, TypeOK
    <3> QED
      BY <2>12, <3>1, <3>2, KeepCount DEF StartRelease
  <2>13. CASE LockRelease(f)
    <3>1. CountedFiles' = CountedFiles
      BY <2>13, SameCounted DEF LockRelease, CountedPc, CommandPc
    <3>2. \A g \in Files : AtStore(g)' => AtStore(g) /\ seen'[g] = seen[g]
      BY <2>13 DEF LockRelease, Goto, AtStore, TypeOK
    <3> QED
      BY <2>13, <3>1, <3>2, KeepCount DEF LockRelease
  <2>14. CASE LoadCount(f, "rload", "rstore")
    BY <2>14, LoadExact DEF CountedPc, CommandPc
  <2>15. CASE StoreReleased(f)
    <3>1. Goto(f, "put") /\ kinds' = kinds /\ AtStore(f)
      BY <2>15 DEF StoreReleased, AtStore
    <3>2. openCount' = seen[f] + (-1)
      <4>1. openCount' = seen[f] - 1
        BY <2>15 DEF StoreReleased, Uncounted
      <4> QED
        BY <4>1 DEF TypeOK
    <3>3. "put" \notin CountedPc /\ pc[f] \in CountedPc
      BY <2>15 DEF StoreReleased, CountedPc, CommandPc
    <3> QED
      BY <3>1, <3>2, <3>3, StoreExact
  <2>16. CASE SubmitUrb(f)
    BY <2>16, KeepCount DEF SubmitUrb, CountedFiles, AtStore
  <2>17. CASE StartCommand(f)
    <3>1. CountedFiles' = CountedFiles
      BY <2>17, SameCounted DEF StartCommand, CountedPc, CommandPc
    <3>2. \A g \in Files : AtStore(g)' => AtStore(g) /\ seen'[g] = seen[g]
      BY <2>17 DEF StartCommand, Goto, AtStore, TypeOK
    <3> QED
      BY <2>17, <3>1, <3>2, KeepCount DEF StartCommand
  <2>18. CASE FinishCommand(f)
    <3>1. CountedFiles' = CountedFiles
      BY <2>18, SameCounted DEF FinishCommand, CountedPc, CommandPc
    <3>2. \A g \in Files : AtStore(g)' => AtStore(g) /\ seen'[g] = seen[g]
      BY <2>18 DEF FinishCommand, Goto, AtStore, TypeOK
    <3> QED
      BY <2>18, <3>1, <3>2, KeepCount DEF FinishCommand
  <2> QED
    BY <1>1, <2>1, <2>2, <2>3, <2>4, <2>5, <2>6, <2>7, <2>8,
       <2>9, <2>10, <2>11, <2>12, <2>13, <2>14, <2>15, <2>16, <2>17, <2>18
    DEF FileStep, OpenStep, ReleaseStep
<1>2. CASE CompleteUrb
  BY <1>2, KeepCount DEF CompleteUrb, CountedFiles, AtStore
<1>3. CASE ProbeAllocate
  <2>1. \A f \in Files : pc[f] = "closed"
    BY <1>3, FreedClosed DEF ProbeAllocate
  <2>2. CountedFiles' = {} /\ openCount' = 0 /\ \A f \in Files : ~AtStore(f)'
    BY <1>3, <2>1 DEF ProbeAllocate, CountedFiles, CountedPc, CommandPc, AtStore
  <2>3. Cardinality(CountedFiles') = 0
    BY <2>2, FS_EmptySet
  <2> QED
    BY <2>2, <2>3 DEF CountExact, AtStore
<1>4. CASE ProbeFails
  BY <1>4, KeepCount DEF ProbeFails, CountedFiles, AtStore
<1>5. CASE ProbeRegisters
  BY <1>5, KeepCount DEF ProbeRegisters, CountedFiles, AtStore
<1>6. CASE DisableEndpoints
  BY <1>6, KeepCount DEF DisableEndpoints, CountedFiles, AtStore
<1>7. CASE ClearIntfdata
  BY <1>7, KeepCount DEF ClearIntfdata, CountedFiles, AtStore
<1>8. CASE Deregister
  BY <1>8, KeepCount DEF Deregister, CountedFiles, AtStore
<1>9. CASE ClearInterface
  BY <1>9, KeepCount DEF ClearInterface, CountedFiles, AtStore
<1>10. CASE FinishDisconnect
  BY <1>10, KeepCount DEF FinishDisconnect, CountedFiles, AtStore
<1>11. CASE UNCHANGED vars
  BY <1>11, KeepCount DEF vars, CountedFiles, AtStore
<1> QED
  BY <1>1, <1>2, <1>3, <1>4, <1>5, <1>6, <1>7, <1>8, <1>9, <1>10, <1>11
  DEF Next, FileStep, DisconnectStep

ResumingPc == {"pm", "undo", "undostore"}

(* A step of one file that neither begins nor ends a resume. *)
LEMMA SameResuming ==
  ASSUME TypeOK, NEW f \in Files, NEW l, Goto(f, l),
         l \in ResumingPc <=> pc[f] \in ResumingPc
  PROVE  Resuming' <=> Resuming
BY DEF TypeOK, Goto, Resuming, ResumingPc

(* While one file is past mutex_lock, no other is resuming the device. *)
LEMMA OnlyResuming ==
  ASSUME TypeOK, LockInv, SameKind, NEW f \in Files, pc[f] \in LockedPc
  PROVE  \A g \in Files : g # f => pc[g] \notin ResumingPc
BY OneLocked DEF LockedPc, ResumingPc

(* The autopm reference stays right as long as neither it nor the count    *)
(* changes and no device is published.                                     *)
LEMMA KeepAwake ==
  ASSUME AwakeExact, kinds \subseteq kinds', openCount' = openCount, pm' = pm,
         Resuming' <=> Resuming,
         link' \in {"probing", "up"} => link \in {"probing", "up"}
  PROVE  AwakeExact'
<1>1. SUFFICES ASSUME SameKind', link' \in {"probing", "up"} PROVE AwakeExact'
  BY DEF AwakeExact
<1>2. SameKind
  BY <1>1 DEF SameKind
<1> QED
  BY <1>1, <1>2 DEF AwakeExact

(* The first opener takes the reference and the last closer drops it. *)
LEMMA AwakeStep == IInv /\ OpenersInv /\ [Next]_vars => AwakeExact'
<1> SUFFICES ASSUME IInv, OpenersInv, [Next]_vars PROVE AwakeExact'
  OBVIOUS
<1>0. TypeOK /\ LockInv /\ CountExact /\ AwakeExact
  BY DEF IInv, OpenersInv
<1> USE <1>0 DEF fileVars, devVars
<1>1. ASSUME NEW f \in Files, FileStep(f) PROVE AwakeExact'
  <2>1. CASE StartOpen(f)
    <3>1. Resuming' <=> Resuming
      BY <2>1, SameResuming DEF StartOpen, ResumingPc
    <3> QED
      BY <2>1, <3>1, KeepAwake DEF StartOpen
  <2>2. CASE FindDevice(f)
    <3>1. Resuming' <=> Resuming
      BY <2>2, SameResuming DEF FindDevice, ResumingPc
    <3> QED
      BY <2>2, <3>1, KeepAwake DEF FindDevice
  <2>3. CASE GetReference(f)
    <3>1. Resuming' <=> Resuming
      BY <2>3, SameResuming DEF GetReference, ResumingPc
    <3> QED
      BY <2>3, <3>1, KeepAwake DEF GetReference
  <2>4. CASE LockOpen(f)
    <3>1. Resuming' <=> Resuming
      BY <2>4, SameResuming DEF LockOpen, ResumingPc
    <3> QED
      BY <2>4, <3>1, KeepAwake DEF LockOpen
  <2>5. CASE LoadCount(f, "load", "store")
    <3>1. Resuming' <=> Resuming
      BY <2>5, SameResuming DEF LoadCount, ResumingPc
    <3> QED
      BY <2>5, <3>1, KeepAwake DEF LoadCount
  <2>6. CASE StoreOpened(f)
    <3>1. SUFFICES ASSUME SameKind, link = "up" PROVE AwakeExact'
      BY <2>6 DEF StoreOpened, AwakeExact, SameKind, LockInv, BornClosed
    <3>2. \A g \in Files : g # f => pc[g] \notin ResumingPc /\ pc'[g] = pc[g]
      BY <2>6, <3>1, OnlyResuming DEF StoreOpened, Goto, LockedPc, TypeOK
    <3>3. openCount \in Nat /\ (pc[f] \in CountedPc => openCount > 0)
      BY <3>1, OpenerCounted
    <3>4. seen[f] = openCount
      BY <2>6, <3>1 DEF StoreOpened, CountExact
    <3>5. ~Resuming
      BY <2>6, <3>2 DEF StoreOpened, Resuming, ResumingPc
    <3>6. pm = IF openCount = 0 THEN 0 ELSE 1
      BY <3>1, <3>5 DEF AwakeExact
    <3>7. openCount' = openCount + 1 /\ pm' = pm
      BY <2>6, <3>4 DEF StoreOpened, Counted
    <3>8. CASE openCount = 0
      <4>1. Resuming'
        BY <2>6, <3>4, <3>8 DEF StoreOpened, Goto, TypeOK, Resuming
      <4> QED
        BY <3>6, <3>7, <3>8, <4>1 DEF AwakeExact
    <3>9. CASE openCount # 0
      <4>1. ~Resuming'
        <5>1. pc'[f] = "init"
          BY <2>6, <3>4, <3>9 DEF StoreOpened, Goto, TypeOK
        <5> QED
          BY <3>2, <5>1 DEF Resuming, ResumingPc
      <4>2. openCount' # 0 /\ pm' = 1
        BY <3>3, <3>6, <3>7, <3>9
      <4> QED
        BY <4>1, <4>2 DEF AwakeExact
    <3> QED
      BY <3>8, <3>9
  <2>7. CASE ResumeDevice(f)
    <3>1. SUFFICES ASSUME SameKind, link = "up" PROVE AwakeExact'
      BY <2>7 DEF ResumeDevice, AwakeExact, SameKind, LockInv, BornClosed
    <3>2. \A g \in Files : g # f => pc[g] \notin ResumingPc /\ pc'[g] = pc[g]
      BY <2>7, <3>1, OnlyResuming DEF ResumeDevice, Goto, LockedPc, TypeOK
    <3>3. openCount \in Nat /\ (pc[f] \in CountedPc => openCount > 0)
      BY <3>1, OpenerCounted
    <3>4. openCount = 1 /\ pm = 0
      BY <2>7, <3>1 DEF ResumeDevice, AwakeExact, Resuming
    <3>5. openCount' = openCount
      BY <2>7 DEF ResumeDevice
    <3>6. CASE pm' = pm + 1 /\ Goto(f, "init")
      <4>1. ~Resuming'
        <5>1. pc'[f] = "init"
          BY <3>6 DEF Goto, TypeOK
        <5> QED
          BY <3>2, <5>1 DEF Resuming, ResumingPc
      <4> QED
        BY <3>4, <3>5, <3>6, <4>1 DEF AwakeExact
    <3>7. CASE pm' = pm /\ Goto(f, "undo")
      <4>1. Resuming'
        BY <3>7 DEF Goto, TypeOK, Resuming
      <4> QED
        BY <3>4, <3>5, <3>7, <4>1 DEF AwakeExact
    <3> QED
      BY <2>7, <3>6, <3>7 DEF ResumeDevice
  <2>8. CASE LoadCount(f, "undo", "undostore")
    <3>1. Resuming' <=> Resuming
      BY <2>8, SameResuming DEF LoadCount, ResumingPc
    <3> QED
      BY <2>8, <3>1, KeepAwake DEF LoadCount
  <2>9. CASE UndoOpened(f)
    <3>1. SUFFICES ASSUME SameKind, link = "up" PROVE AwakeExact'
      BY <2>9 DEF UndoOpened, AwakeExact, SameKind, LockInv, BornClosed
    <3>2. \A g \in Files : g # f => pc[g] \notin ResumingPc /\ pc'[g] = pc[g]
      BY <2>9, <3>1, OnlyResuming DEF UndoOpened, Goto, LockedPc, TypeOK
    <3>3. openCount \in Nat /\ (pc[f] \in CountedPc => openCount > 0)
      BY <3>1, OpenerCounted
    <3>4. openCount = 1 /\ pm = 0
      BY <2>9, <3>1 DEF UndoOpened, AwakeExact, Resuming
    <3>5. seen[f] = openCount
      BY <2>9, <3>1 DEF UndoOpened, CountExact
    <3>6. openCount' = 0 /\ pm' = 0
      BY <2>9, <3>4, <3>5 DEF UndoOpened, Uncounted
    <3>7. ~Resuming'
      <4>1. pc'[f] = "putopen"
        BY <2>9 DEF UndoOpened, Goto, TypeOK
      <4> QED
        BY <3>2, <4>1 DEF Resuming, ResumingPc
    <3> QED
      BY <3>6, <3>7 DEF AwakeExact
  <2>10. CASE FinishOpen(f)
    <3>1. Resuming' <=> Resuming
      BY <2>10, SameResuming DEF FinishOpen, ResumingPc
    <3> QED
      BY <2>10, <3>1, KeepAwake DEF FinishOpen
  <2>11. CASE DropReference(f)
    <3>1. Resuming' <=> Resuming
      BY <2>11, SameResuming DEF DropReference, ResumingPc
    <3> QED
      BY <2>11, <3>1, KeepAwake DEF DropReference
  <2>12. CASE StartRelease(f)
    <3>1. Resuming' <=> Resuming
      BY <2>12, SameResuming DEF StartRelease, ResumingPc
    <3> QED
      BY <2>12, <3>1, KeepAwake DEF StartRelease
  <2>13. CASE LockRelease(f)
    <3>1. Resuming' <=> Resuming
      BY <2>13, SameResuming DEF LockRelease, ResumingPc
    <3> QED
      BY <2>13, <3>1, KeepAwake DEF LockRelease
  <2>14. CASE LoadCount(f, "rload", "rstore")
    <3>1. Resuming' <=> Resuming
      BY <2>14, SameResuming DEF LoadCount, ResumingPc
    <3> QED
      BY <2>14, <3>1, KeepAwake DEF LoadCount
  <2>15. CASE StoreReleased(f)
    <3>1. SUFFICES ASSUME SameKind, link = "up" PROVE AwakeExact'
      BY <2>15 DEF StoreReleased, AwakeExact, SameKind, LockInv, BornClosed
    <3>2. \A g \in Files : g # f => pc[g] \notin ResumingPc /\ pc'[g] = pc[g]
      BY <2>15, <3>1, OnlyResuming DEF StoreReleased, Goto, LockedPc, TypeOK
    <3>3. openCount \in Nat /\ (pc[f] \in CountedPc => openCount > 0)
      BY <3>1, OpenerCounted
    <3>4. seen[f] = openCount
      BY <2>15, <3>1 DEF StoreReleased, CountExact
    <3>5. live[f]
      BY <2>15, <3>1 DEF StoreReleased, LockInv, BornClosed
    <3>6. ~Resuming
      BY <2>15, <3>2 DEF StoreReleased, Resuming, ResumingPc
    <3>7. openCount > 0
      BY <2>15, <3>3 DEF StoreReleased, CountedPc
    <3>8. pm = 1
      BY <3>1, <3>3, <3>6, <3>7 DEF AwakeExact
    <3>9. openCount' = openCount - 1 /\ pm' = IF openCount = 1 THEN pm - 1 ELSE pm
      BY <2>15, <3>4, <3>5 DEF StoreReleased, Uncounted
    <3>10. pm' = IF openCount' = 0 THEN 0 ELSE 1
      BY <3>3, <3>7, <3>8, <3>9
    <3>11. ~Resuming'
      <4>1. pc'[f] = "put"
        BY <2>15 DEF StoreReleased, Goto, TypeOK
      <4> QED
        BY <3>2, <4>1 DEF Resuming, ResumingPc
    <3> QED
      BY <3>10, <3>11 DEF AwakeExact
  <2>16. CASE SubmitUrb(f)
    BY <2>16, KeepAwake DEF SubmitUrb, Resuming
  <2>17. CASE StartCommand(f)
    <3>1. Resuming' <=> Resuming
      BY <2>17, SameResuming DEF StartCommand, ResumingPc
    <3> QED
      BY <2>17, <3>1, KeepAwake DEF StartCommand
  <2>18. CASE FinishCommand(f)
    <3>1. Resuming' <=> Resuming
      BY <2>18, SameResuming DEF FinishCommand, ResumingPc
    <3> QED
      BY <2>18, <3>1, KeepAwake DEF FinishCommand
  <2> QED
    BY <1>1, <2>1, <2>2, <2>3, <2>4, <2>5, <2>6, <2>7, <2>8,
       <2>9, <2>10, <2>11, <2>12, <2>13, <2>14, <2>15, <2>16, <2>17, <2>18
    DEF FileStep, OpenStep, ReleaseStep
<1>2. CASE CompleteUrb
  BY <1>2, KeepAwake DEF CompleteUrb, Resuming
<1>3. CASE ProbeAllocate
  <2>1. \A f \in Files : pc[f] = "closed"
    BY <1>3, FreedClosed DEF ProbeAllocate
  <2>2. ~Resuming' /\ openCount' = 0 /\ pm' = 0
    BY <1>3, <2>1 DEF ProbeAllocate, Resuming
  <2> QED
    BY <2>2 DEF AwakeExact
<1>4. CASE ProbeFails
  BY <1>4, KeepAwake DEF ProbeFails, Resuming
<1>5. CASE ProbeRegisters
  BY <1>5, KeepAwake DEF ProbeRegisters, Resuming
<1>6. CASE DisableEndpoints
  BY <1>6, KeepAwake DEF DisableEndpoints, Resuming
<1>7. CASE ClearIntfdata
  BY <1>7, KeepAwake DEF ClearIntfdata, Resuming
<1>8. CASE Deregister
  BY <1>8, KeepAwake DEF Deregister, Resuming
<1>9. CASE ClearInterface
  BY <1>9, KeepAwake DEF ClearInterface, Resuming
<1>10. CASE FinishDisconnect
  BY <1>10, KeepAwake DEF FinishDisconnect, Resuming
<1>11. CASE UNCHANGED vars
  BY <1>11, KeepAwake DEF vars, Resuming
<1> QED
  BY <1>1, <1>2, <1>3, <1>4, <1>5, <1>6, <1>7, <1>8, <1>9, <1>10, <1>11
  DEF Next, FileStep, DisconnectStep

(* What holds of the mutexes, the count and the autopm reference in every  *)
(* reachable state.                                                        *)
THEOREM Openers == Spec => []OpenersInv
<1>1. Init => OpenersInv
  <2> SUFFICES ASSUME Init PROVE OpenersInv
    OBVIOUS
  <2>1. MutexHeld
    BY LifecycleAssumption DEF Init, MutexHeld, LockedPc
  <2>2. KindsKnown /\ BornClosed
    BY DEF Init, KindsKnown, BornClosed
  <2>3. CountExact
    <3>1. CountedFiles = {}
      BY DEF Init, CountedFiles, CountedPc, CommandPc
    <3>2. Cardinality(CountedFiles) = 0
      BY <3>1, FS_EmptySet
    <3> QED
      BY <3>2 DEF Init, CountExact
  <2>4. AwakeExact
    BY DEF Init, AwakeExact
  <2> QED
    BY <2>1, <2>2, <2>3, <2>4 DEF OpenersInv, LockInv
<1>2. IInv /\ OpenersInv /\ [Next]_vars => OpenersInv'
  BY LockStep, CountExactStep, AwakeStep DEF OpenersInv
<1> QED
  BY <1>1, <1>2, Safety, PTL DEF Spec

(* As long as the files have been of one kind, so that one mutex covers    *)
(* every update, open_count is the number of openers.                      *)
THEOREM OpenersRight == Spec => []OpenersCounted
<1>1. IInv /\ OpenersInv => OpenersCounted
  BY OneKindSame DEF IInv, OpenersInv, CountExact, CountedFiles, OpenersCounted
<1> QED
  BY <1>1, Safety, Openers, PTL

(* Then the device may suspend exactly when nobody has it open.            *)
THEOREM AwakeRight == Spec => []AwakeWhileOpen
<1>1. IInv /\ OpenersInv => AwakeWhileOpen
  <2> SUFFICES ASSUME IInv, OpenersInv, OneKind, link = "up",
                      \A f \in Files : pc[f] \notin LockedPc
               PROVE  pm = IF openCount = 0 THEN 0 ELSE 1
    BY DEF AwakeWhileOpen
  <2>1. SameKind
    BY OneKindSame DEF IInv
  <2>2. ~Resuming
    BY DEF Resuming, LockedPc
  <2> QED
    BY <2>1, <2>2 DEF OpenersInv, AwakeExact
<1> QED
  BY <1>1, Safety, Openers, PTL

---------------------------------------------------------------------------
(* The refinement. kref is what decides that the structure is freed; the   *)
(* files that use it without a reference are inside bt_hci_open, and       *)
(* LinkOrder says that the driver is still bound then.                     *)

(* The structure is allocated exactly as long as it is bound or used.      *)
LEMMA Lifetime == IInv => (freed <=> link \notin Bound /\ Users = {})
<1> SUFFICES ASSUME IInv PROVE freed <=> link \notin Bound /\ Users = {}
  OBVIOUS
<1>1. ASSUME freed PROVE link \notin Bound /\ Users = {}
  <2>1. kref = 0
    BY <1>1 DEF IInv, ReferencesCounted
  <2>2. link \notin Bound /\ \A f \in Files : pc[f] \notin HolderPc
    BY <2>1, HolderCounted DEF IInv
  <2>3. ASSUME NEW f \in Files PROVE pc[f] \in {"closed", "find"}
    BY <2>2 DEF IInv, TypeOK, LinkOrder, HolderPc, OpenPc, Bound
  <2> QED
    BY <2>2, <2>3 DEF Users
<1>2. ASSUME link \notin Bound, Users = {} PROVE freed
  <2>1. Holders = {}
    BY <1>2 DEF Users, Holders, HolderPc
  <2>2. Cardinality(Holders) = 0
    BY <2>1, FS_EmptySet
  <2> QED
    BY <1>2, <2>2 DEF IInv, ReferencesCounted
<1> QED
  BY <1>1, <1>2

(* A step of one file that neither finds the device nor lets go of it.     *)
LEMMA SameUsers ==
  ASSUME TypeOK, NEW f \in Files, NEW l, Goto(f, l),
         l \in {"closed", "find"} <=> pc[f] \in {"closed", "find"}
  PROVE  Users' = Users
BY DEF TypeOK, Goto, Users

(* What the abstract specification does not see. *)
LEMMA Unseen ==
  ASSUME Users' = Users, freed' = freed, active' = active,
         (link \in Bound)' <=> link \in Bound
  PROVE  UNCHANGED Device!vars
BY DEF Device!vars

(* Every step is a step of the abstract device, or none. *)
LEMMA DeviceStep == IInv /\ IInv' /\ [Next]_vars => [Device!Next]_Device!vars
<1> SUFFICES ASSUME IInv, IInv', [Next]_vars PROVE [Device!Next]_Device!vars
  OBVIOUS
<1>a. TypeOK
  BY DEF IInv
<1>b. freed <=> link \notin Bound /\ Users = {}
  BY Lifetime
<1>c. (freed <=> link \notin Bound /\ Users = {})'
  BY Lifetime, PTL
<1> USE <1>a DEF fileVars, devVars
<1>1. ASSUME NEW f \in Files, FileStep(f) PROVE [Device!Next]_Device!vars
  <2>1. CASE StartOpen(f)
    <3>1. Users' = Users
      BY <2>1, SameUsers DEF StartOpen
    <3> QED
      BY <2>1, <3>1, Unseen DEF StartOpen
  <2>2. CASE FindDevice(f)
    <3>1. CASE ~intfdata
      <4>1. Goto(f, "closed")
        BY <2>2, <3>1 DEF FindDevice
      <4>2. Users' = Users
        BY <2>2, <4>1, SameUsers DEF FindDevice
      <4> QED
        BY <2>2, <4>2, Unseen DEF FindDevice
    <3>2. CASE intfdata
      <4>1. link \in Bound
        BY <3>2 DEF IInv, LinkOrder, Bound
      <4>2. f \notin Users /\ Users' = Users \cup {f}
        BY <2>2, <3>2 DEF FindDevice, Goto, TypeOK, Users
      <4>3. UNCHANGED <<freed, link, active>>
        BY <2>2 DEF FindDevice
      <4>4. Device!Meet(f)
        BY <1>b, <4>1, <4>2, <4>3 DEF Device!Meet
      <4> QED
        BY <4>4 DEF Device!Next
    <3> QED
      BY <3>1, <3>2
  <2>3. CASE GetReference(f)
    <3>1. Users' = Users
      BY <2>3, SameUsers DEF GetReference
    <3> QED
      BY <2>3, <3>1, Unseen DEF GetReference
  <2>4. CASE LockOpen(f)
    <3>1. Users' = Users
      BY <2>4, SameUsers DEF LockOpen
    <3> QED
      BY <2>4, <3>1, Unseen DEF LockOpen
  <2>5. CASE LoadCount(f, "load", "store")
    <3>1. Users' = Users
      BY <2>5, SameUsers DEF LoadCount
    <3> QED
      BY <2>5, <3>1, Unseen DEF LoadCount
  <2>6. CASE StoreOpened(f)
    <3>1. Users' = Users
      BY <2>6, SameUsers DEF StoreOpened
    <3> QED
      BY <2>6, <3>1, Unseen DEF StoreOpened
  <2>7. CASE ResumeDevice(f)
    <3>1. Users' = Users
      BY <2>7, SameUsers DEF ResumeDevice
    <3> QED
      BY <2>7, <3>1, Unseen DEF ResumeDevice
  <2>8. CASE LoadCount(f, "undo", "undostore")
    <3>1. Users' = Users
      BY <2>8, SameUsers DEF LoadCount
    <3> QED
      BY <2>8, <3>1, Unseen DEF LoadCount
  <2>9. CASE UndoOpened(f)
    <3>1. Users' = Users
      BY <2>9, SameUsers DEF UndoOpened
    <3> QED
      BY <2>9, <3>1, Unseen DEF UndoOpened
  <2>10. CASE FinishOpen(f)
    <3>1. Users' = Users
      BY <2>10, SameUsers DEF FinishOpen
    <3> QED
      BY <2>10, <3>1, Unseen DEF FinishOpen
  <2>11. CASE DropReference(f)
    <3>1. f \in Users /\ Users' = Users \ {f}
      BY <2>11 DEF DropReference, Goto, TypeOK, Users
    <3>2. UNCHANGED <<link, active>>
      BY <2>11 DEF DropReference
    <3>3. Device!Part(f)
      BY <1>b, <1>c, <3>1, <3>2 DEF Device!Part
    <3> QED
      BY <3>3 DEF Device!Next
  <2>12. CASE StartRelease(f)
    <3>1. Users' = Users
      BY <2>12, SameUsers DEF StartRelease
    <3> QED
      BY <2>12, <3>1, Unseen DEF StartRelease
  <2>13. CASE LockRelease(f)
    <3>1. Users' = Users
      BY <2>13, SameUsers DEF LockRelease
    <3> QED
      BY <2>13, <3>1, Unseen DEF LockRelease
  <2>14. CASE LoadCount(f, "rload", "rstore")
    <3>1. Users' = Users
      BY <2>14, SameUsers DEF LoadCount
    <3> QED
      BY <2>14, <3>1, Unseen DEF LoadCount
  <2>15. CASE StoreReleased(f)
    <3>1. Users' = Users
      BY <2>15, SameUsers DEF StoreReleased
    <3> QED
      BY <2>15, <3>1, Unseen DEF StoreReleased
  <2>16. CASE SubmitUrb(f)
    <3>1. f \in Users /\ Users' = Users
      BY <2>16 DEF SubmitUrb, Users, CommandPc
    <3>2. link \in Bound /\ ~active /\ active' /\ UNCHANGED <<freed, link>>
      BY <2>16 DEF SubmitUrb, Bound
    <3>3. Device!Transfer(f)
      BY <1>b, <3>1, <3>2 DEF Device!Transfer
    <3> QED
      BY <3>3 DEF Device!Next
  <2>17. CASE StartCommand(f)
    <3>1. Users' = Users
      BY <2>17, SameUsers DEF StartCommand
    <3> QED
      BY <2>17, <3>1, Unseen DEF StartCommand
  <2>18. CASE FinishCommand(f)
    <3>1. Users' = Users
      BY <2>18, SameUsers DEF FinishCommand
    <3> QED
      BY <2>18, <3>1, Unseen DEF FinishCommand
  <2> QED
    BY <1>1, <2>1, <2>2, <2>3, <2>4, <2>5, <2>6, <2>7, <2>8,
       <2>9, <2>10, <2>11, <2>12, <2>13, <2>14, <2>15, <2>16, <2>17, <2>18
    DEF FileStep, OpenStep, ReleaseStep
<1>2. CASE CompleteUrb
  <2>1. link \in Bound
    BY <1>2 DEF CompleteUrb, IInv, LinkOrder, Bound
  <2>2. Users' = Users
    BY <1>2 DEF CompleteUrb, Users
  <2>3. Device!GiveBack
    BY <1>2, <1>b, <2>1, <2>2 DEF CompleteUrb, Device!GiveBack
  <2> QED
    BY <2>3 DEF Device!Next
<1>3. CASE ProbeAllocate
  <2>1. Users' = Users
    BY <1>3 DEF ProbeAllocate, Users
  <2>2. link' \in Bound /\ freed /\ ~freed' /\ active' = active
    BY <1>3 DEF ProbeAllocate, Bound
  <2>3. Device!Bind
    BY <1>b, <2>1, <2>2 DEF Device!Bind
  <2> QED
    BY <2>3 DEF Device!Next
<1>4. CASE ProbeFails
  <2>1. Users' = Users
    BY <1>4 DEF ProbeFails, Users
  <2>2. link \in Bound /\ link' \notin Bound /\ active' = active
    BY <1>4 DEF ProbeFails, Bound
  <2>3. ~active
    BY <1>4 DEF ProbeFails, IInv, LinkOrder
  <2>4. Device!Unbind
    BY <1>b, <1>c, <2>1, <2>2, <2>3 DEF Device!Unbind
  <2> QED
    BY <2>4 DEF Device!Next
<1>5. CASE ProbeRegisters
  <2>1. Users' = Users
    BY <1>5 DEF ProbeRegisters, Users
  <2> QED
    BY <1>5, <2>1, Unseen DEF ProbeRegisters, Bound
<1>6. CASE DisableEndpoints
  <2>1. Users' = Users
    BY <1>6 DEF DisableEndpoints, Users
  <2> QED
    BY <1>6, <2>1, Unseen DEF DisableEndpoints, Bound
<1>7. CASE ClearIntfdata
  <2>1. Users' = Users
    BY <1>7 DEF ClearIntfdata, Users
  <2> QED
    BY <1>7, <2>1, Unseen DEF ClearIntfdata, Bound
<1>8. CASE Deregister
  <2>1. Users' = Users
    BY <1>8 DEF Deregister, Users
  <2> QED
    BY <1>8, <2>1, Unseen DEF Deregister, Bound
<1>9. CASE ClearInterface
  <2>1. Users' = Users
    BY <1>9 DEF ClearInterface, Users
  <2> QED
    BY <1>9, <2>1, Unseen DEF ClearInterface, Bound
<1>10. CASE FinishDisconnect
  <2>1. Users' = Users
    BY <1>10 DEF FinishDisconnect, Users
  <2>2. link \in Bound /\ link' \notin Bound /\ active' = active
    BY <1>10 DEF FinishDisconnect, Bound
  <2>3. ~active
    BY <1>10 DEF FinishDisconnect, IInv, LinkOrder
  <2>4. Device!Unbind
    BY <1>b, <1>c, <2>1, <2>2, <2>3 DEF Device!Unbind
  <2> QED
    BY <2>4 DEF Device!Next
<1>11. CASE UNCHANGED vars
  <2>1. Users' = Users
    BY <1>11 DEF vars, Users
  <2> QED
    BY <1>11, <2>1, Unseen DEF vars
<1> QED
  BY <1>1, <1>2, <1>3, <1>4, <1>5, <1>6, <1>7, <1>8, <1>9, <1>10, <1>11
  DEF Next, FileStep, DisconnectStep

(* kref, the reference that disconnect keeps to its end and the wait for   *)
(* the opens under way implement the lifetime of SharedDevice: the         *)
(* structure is there for whoever has a pointer to it, and is freed with   *)
(* the last one.                                                           *)
THEOREM Implements == Spec => ImplementsSharedDevice
<1>1. Init => Device!Init
  <2> SUFFICES ASSUME Init PROVE Device!Init
    OBVIOUS
  <2>1. Users = {}
    BY DEF Init, Users
  <2> QED
    BY <2>1 DEF Init, Device!Init, Bound
<1>2. IInv /\ IInv' /\ [Next]_vars => [Device!Next]_Device!vars
  BY DeviceStep
<1> QED
  BY <1>1, <1>2, Safety, PTL DEF Spec, ImplementsSharedDevice, Device!Spec
===========================================================================
