------------------------ MODULE BtHciReadBulkProofs ------------------------
(***************************************************************************)
(* Proofs about BtHciReadBulk, for any number of readers and any bounds.   *)
(***************************************************************************)
EXTENDS BtHciReadBulk, TLAPS

---------------------------------------------------------------------------
(* Type correctness *)

(* What a read hands out of a buffer that has not wrapped stays within it. *)
LEMMA ChunkFits ==
  ASSUME TypeOK, NEW count \in Nat
  PROVE  /\ Available \in Nat /\ Chunk(count) \in Nat
         /\ copied <= filled => Available = filled - copied /\ copied + Chunk(count) <= filled
<1>1. SizeMod \in Nat /\ SizeMod > MaxPacket /\ MaxPacket \in Nat
  BY ReadBulkAssumption
<1>2. filled \in 0..MaxPacket /\ copied \in Nat
  BY DEF TypeOK, CopiedCap
<1>3. Available \in Nat
  BY <1>1, <1>2 DEF Available
<1>4. ASSUME copied <= filled PROVE Available = filled - copied
  <2>1. filled - copied \in 0..(SizeMod - 1)
    BY <1>1, <1>2, <1>4
  <2> QED
    BY <1>1, <2>1 DEF Available
<1> QED
  BY <1>2, <1>3, <1>4 DEF Chunk, Least

LEMMA TypeStep == TypeOK /\ [Next]_vars => TypeOK'
<1> SUFFICES ASSUME TypeOK, [Next]_vars PROVE TypeOK'
  OBVIOUS
<1>0. /\ MaxPacket \in Nat /\ 0 \in 0..MaxPacket /\ CopiedCap \in Nat /\ 0 \in 0..CopiedCap
      /\ MaxTransfers \in Nat /\ MaxResets \in Nat /\ MaxOpens \in Nat
  BY ReadBulkAssumption DEF CopiedCap
<1> USE <1>0 DEF TypeOK, Pc, HoldPc, Error, Goto, Return, readerVars, dataVars, urbVars, envVars
<1>1. ASSUME NEW r \in Readers, ReaderStep(r) PROVE TypeOK'
  <2>1. CASE LockRead(r)
    BY <2>1 DEF LockRead
  <2>2. CASE CopyOut(r)
    <3>1. copied' \in 0..CopiedCap
      BY <2>2, ChunkFits DEF CopyOut, Least
    <3> QED
      BY <2>2, <3>1 DEF CopyOut
  <2>3. CASE NothingLeft(r)
    BY <2>3 DEF NothingLeft
  <2>4. CASE SampleOngoing(r)
    BY <2>4 DEF SampleOngoing
  <2>5. CASE PrepareRead(r)
    BY <2>5 DEF PrepareRead
  <2>6. CASE MarkOngoing(r)
    BY <2>6 DEF MarkOngoing
  <2>7. CASE SubmitAccepted(r)
    BY <2>7 DEF SubmitAccepted
  <2>8. CASE SubmitRefused(r)
    BY <2>8 DEF SubmitRefused
  <2>9. CASE ErrorSeen(r)
    BY <2>9 DEF ErrorSeen
  <2>10. CASE ReportError(r)
    BY <2>10 DEF ReportError
  <2>11. CASE WouldBlock(r)
    BY <2>11 DEF WouldBlock
  <2>12. CASE StartWait(r)
    BY <2>12 DEF StartWait
  <2>13. CASE WaitCompleted(r)
    BY <2>13 DEF WaitCompleted, CompletionCounted
  <2>14. CASE AfterWait(r)
    BY <2>14 DEF AfterWait
  <2> QED
    BY <1>1, <2>1, <2>2, <2>3, <2>4, <2>5, <2>6, <2>7,
       <2>8, <2>9, <2>10, <2>11, <2>12, <2>13, <2>14 DEF ReaderStep
<1>2. ASSUME NEW r \in Readers, StartRead(r) \/ LockInterrupted(r) \/ WaitInterrupted(r)
      PROVE  TypeOK'
  BY <1>2 DEF StartRead, LockInterrupted, WaitInterrupted
<1>3. CASE CallbackData
  BY <1>3 DEF CallbackData
<1>4. CASE CallbackComplete
  <2>1. done' \in Nat
    BY <1>4 DEF CallbackComplete, Completed
  <2>2. completing' \in BOOLEAN
    BY <1>4 DEF CallbackComplete
  <2> QED
    BY <1>4, <2>1, <2>2 DEF CallbackComplete
<1>5. CASE Reinitialise
  BY <1>5 DEF Reinitialise
<1>6. CASE PreReset
  BY <1>6 DEF PreReset
<1>7. CASE Suspend
  <2>1. done' \in Nat /\ errors' \in Error
    BY <1>7 DEF Suspend, Completed
  <2>2. ongoing' \in BOOLEAN /\ active' \in BOOLEAN
    BY <1>7 DEF Suspend
  <2> QED
    BY <1>7, <2>1, <2>2 DEF Suspend
<1>8. CASE DisableEndpoints
  BY <1>8 DEF DisableEndpoints
<1>9. CASE CoreStep
  BY <1>9 DEF CoreStep, DrawDownClear, DrawDownKilled, PostReset, Resume, Disconnect
<1>10. CASE UNCHANGED vars
  BY <1>10 DEF vars
<1> QED
  BY <1>1, <1>2, <1>3, <1>4, <1>5, <1>6, <1>7, <1>8, <1>9, <1>10 DEF Next

---------------------------------------------------------------------------
(* The inductive invariant *)

MutexHeld == \A r \in Readers : pc[r] \in HoldPc <=> mutex = r

(* Without a reset the flag covers the URB from its submission to its      *)
(* callback, so that whoever finds the flag clear has the two counters to  *)
(* himself, and whoever finds it set finds nothing copied.                 *)
CountersKept ==
  resets = 0 =>
    /\ copied <= filled
    /\ power \in {"on", "suspended"}
    /\ active => ongoing /\ filled = 0 /\ copied = 0
    /\ \A r \in Readers :
         /\ pc[r] = "prepare" => ~active
         /\ pc[r] \in {"mark", "submit"} => ~active /\ filled = 0 /\ copied = 0
         /\ pc[r] = "submit" => ongoing
         /\ pc[r] \in {"errs", "drop", "wait", "after"} => copied = 0

(* A reader that has found the flag set has a completion coming, for it    *)
(* alone can consume one.                                                  *)
WakeupComing ==
  opens = 0 =>
    \A r \in Readers : pc[r] \in {"errs", "wait"} => active \/ completing \/ done > 0

Safe == OngoingHasUrb /\ CountersKept /\ WakeupComing

IInv == TypeOK /\ MutexHeld /\ Safe

LEMMA MutexStep == TypeOK /\ MutexHeld /\ [Next]_vars => MutexHeld'
<1> SUFFICES ASSUME TypeOK, MutexHeld, [Next]_vars PROVE MutexHeld'
  OBVIOUS
<1> USE ReadBulkAssumption DEF TypeOK, MutexHeld, Pc, HoldPc, Goto, Return, readerVars
<1>1. ASSUME NEW r \in Readers, ReaderStep(r) PROVE MutexHeld'
  <2>1. CASE LockRead(r)
    BY <2>1 DEF LockRead
  <2>2. CASE CopyOut(r)
    BY <2>2 DEF CopyOut
  <2>3. CASE NothingLeft(r)
    BY <2>3 DEF NothingLeft
  <2>4. CASE SampleOngoing(r)
    BY <2>4 DEF SampleOngoing
  <2>5. CASE PrepareRead(r)
    BY <2>5 DEF PrepareRead
  <2>6. CASE MarkOngoing(r)
    BY <2>6 DEF MarkOngoing
  <2>7. CASE SubmitAccepted(r)
    BY <2>7 DEF SubmitAccepted
  <2>8. CASE SubmitRefused(r)
    BY <2>8 DEF SubmitRefused
  <2>9. CASE ErrorSeen(r)
    BY <2>9 DEF ErrorSeen
  <2>10. CASE ReportError(r)
    BY <2>10 DEF ReportError
  <2>11. CASE WouldBlock(r)
    BY <2>11 DEF WouldBlock
  <2>12. CASE StartWait(r)
    BY <2>12 DEF StartWait
  <2>13. CASE WaitCompleted(r)
    BY <2>13 DEF WaitCompleted
  <2>14. CASE AfterWait(r)
    BY <2>14 DEF AfterWait
  <2> QED
    BY <1>1, <2>1, <2>2, <2>3, <2>4, <2>5, <2>6, <2>7,
       <2>8, <2>9, <2>10, <2>11, <2>12, <2>13, <2>14 DEF ReaderStep
<1>2. ASSUME NEW r \in Readers, StartRead(r) \/ LockInterrupted(r) \/ WaitInterrupted(r)
      PROVE  MutexHeld'
  BY <1>2 DEF StartRead, LockInterrupted, WaitInterrupted
<1>3. CASE CallbackData
  BY <1>3 DEF CallbackData
<1>4. CASE CallbackComplete
  BY <1>4 DEF CallbackComplete
<1>5. CASE Reinitialise
  BY <1>5 DEF Reinitialise
<1>6. CASE PreReset
  BY <1>6 DEF PreReset
<1>7. CASE Suspend
  BY <1>7 DEF Suspend
<1>8. CASE DisableEndpoints
  BY <1>8 DEF DisableEndpoints
<1>9. CASE CoreStep
  BY <1>9 DEF CoreStep, DrawDownClear, DrawDownKilled, PostReset, Resume, Disconnect
<1>10. CASE UNCHANGED vars
  BY <1>10 DEF vars
<1> QED
  BY <1>1, <1>2, <1>3, <1>4, <1>5, <1>6, <1>7, <1>8, <1>9, <1>10 DEF Next

LEMMA SafeStep == IInv /\ [Next]_vars => Safe'
<1> SUFFICES ASSUME IInv, [Next]_vars PROVE Safe'
  OBVIOUS
<1>0. TypeOK' /\ MutexHeld'
  BY TypeStep, MutexStep DEF IInv
<1> USE <1>0, ReadBulkAssumption
    DEF IInv, Safe, TypeOK, MutexHeld, OngoingHasUrb, CountersKept, WakeupComing, Pc, HoldPc,
        Error, Goto, Return, readerVars, dataVars, urbVars, envVars
<1>1. ASSUME NEW r \in Readers, ReaderStep(r) PROVE Safe'
  <2>1. CASE LockRead(r)
    BY <2>1 DEF LockRead
  <2>2. CASE CopyOut(r)
    <3>1. copied <= filled => copied' <= filled
      BY <2>2, ChunkFits DEF CopyOut, Least
    <3>2. resets = 0 => ~active
      BY <2>2, ChunkFits DEF CopyOut
    <3> QED
      BY <2>2, <3>1, <3>2 DEF CopyOut
  <2>3. CASE NothingLeft(r)
    BY <2>3 DEF NothingLeft
  <2>4. CASE SampleOngoing(r)
    BY <2>4 DEF SampleOngoing
  <2>5. CASE PrepareRead(r)
    BY <2>5 DEF PrepareRead
  <2>6. CASE MarkOngoing(r)
    BY <2>6 DEF MarkOngoing
  <2>7. CASE SubmitAccepted(r)
    <3>1. /\ active' /\ ongoing' = ongoing /\ filled' = filled /\ copied' = copied
          /\ resets' = resets /\ power' = power /\ opens' = opens
      BY <2>7 DEF SubmitAccepted
    <3>2. \A s \in Readers : pc'[s] \in HoldPc => s = r /\ pc'[s] = "top"
      BY <2>7, <1>1 DEF SubmitAccepted
    <3>3. OngoingHasUrb'
      BY <3>1
    <3>4. CountersKept'
      BY <2>7, <1>1, <3>1, <3>2 DEF SubmitAccepted
    <3>5. WakeupComing'
      BY <3>1
    <3> QED
      BY <3>3, <3>4, <3>5
  <2>8. CASE SubmitRefused(r)
    BY <2>8 DEF SubmitRefused
  <2>9. CASE ErrorSeen(r)
    BY <2>9 DEF ErrorSeen
  <2>10. CASE ReportError(r)
    BY <2>10 DEF ReportError
  <2>11. CASE WouldBlock(r)
    BY <2>11 DEF WouldBlock
  <2>12. CASE StartWait(r)
    BY <2>12 DEF StartWait
  <2>13. CASE WaitCompleted(r)
    BY <2>13 DEF WaitCompleted, CompletionCounted
  <2>14. CASE AfterWait(r)
    BY <2>14 DEF AfterWait
  <2> QED
    BY <1>1, <2>1, <2>2, <2>3, <2>4, <2>5, <2>6, <2>7,
       <2>8, <2>9, <2>10, <2>11, <2>12, <2>13, <2>14 DEF ReaderStep
<1>2. ASSUME NEW r \in Readers, StartRead(r) \/ LockInterrupted(r) \/ WaitInterrupted(r)
      PROVE  Safe'
  BY <1>2 DEF StartRead, LockInterrupted, WaitInterrupted
<1>3. CASE CallbackData
  BY <1>3 DEF CallbackData
<1>4. CASE CallbackComplete
  BY <1>4 DEF CallbackComplete, Completed
<1>5. CASE Reinitialise
  BY <1>5 DEF Reinitialise
<1>6. CASE PreReset
  BY <1>6 DEF PreReset
<1>7. CASE Suspend
  BY <1>7 DEF Suspend, Completed
<1>8. CASE DisableEndpoints
  BY <1>8 DEF DisableEndpoints
<1>9. CASE CoreStep
  BY <1>9 DEF CoreStep, DrawDownClear, DrawDownKilled, PostReset, Resume, Disconnect
<1>10. CASE UNCHANGED vars
  BY <1>10 DEF vars
<1> QED
  BY <1>1, <1>2, <1>3, <1>4, <1>5, <1>6, <1>7, <1>8, <1>9, <1>10 DEF Next

(* What holds of the mutex, the flag, the counters and the completion in   *)
(* every reachable state.                                                  *)
THEOREM Safety == Spec => []IInv
<1>1. Init => IInv
  <2> SUFFICES ASSUME Init PROVE IInv
    OBVIOUS
  <2>1. /\ 0 \in 0..MaxPacket /\ 0 \in 0..CopiedCap /\ 0 \in 0..MaxTransfers
        /\ 0 \in 0..MaxResets /\ 0 \in 0..MaxOpens
    BY ReadBulkAssumption DEF CopiedCap
  <2>2. TypeOK
    BY <2>1 DEF Init, TypeOK, Pc, Error
  <2>3. MutexHeld
    BY ReadBulkAssumption DEF Init, MutexHeld, HoldPc
  <2>4. Safe
    BY DEF Init, Safe, OngoingHasUrb, CountersKept, WakeupComing
  <2> QED
    BY <2>2, <2>3, <2>4 DEF IInv
<1>2. IInv /\ [Next]_vars => IInv'
  BY TypeStep, MutexStep, SafeStep DEF IInv
<1> QED
  BY <1>1, <1>2, PTL DEF Spec

(* Every variable of the ACL read path stays within its range.             *)
THEOREM TypeCorrect == Spec => []TypeOK
<1>1. IInv => TypeOK
  BY DEF IInv
<1> QED
  BY <1>1, Safety, PTL

(* Unless a reset interferes, the difference of the two byte counters does *)
(* not wrap.                                                               *)
THEOREM NeverWraps == Spec => []AvailableNeverWraps
<1>1. IInv => AvailableNeverWraps
  BY DEF IInv, Safe, CountersKept, AvailableNeverWraps
<1> QED
  BY <1>1, Safety, PTL

(* ongoing_read_bulk is never left set without a URB whose callback will   *)
(* clear it or a reader about to submit one, resets included.              *)
THEOREM FlagHasUrb == Spec => []OngoingHasUrb
<1>1. IInv => OngoingHasUrb
  BY DEF IInv, Safe
<1> QED
  BY <1>1, Safety, PTL

(* Unless somebody opens the device meanwhile, a sleeping reader has a     *)
(* wake-up coming.                                                         *)
THEOREM WakeupComes == Spec => []NoLostWakeup
<1>1. IInv => NoLostWakeup
  BY DEF IInv, Safe, WakeupComing, NoLostWakeup
<1> QED
  BY <1>1, Safety, PTL
===========================================================================
