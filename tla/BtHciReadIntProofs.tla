------------------------ MODULE BtHciReadIntProofs ------------------------
(***************************************************************************)
(* Proofs about BtHciReadInt, for any number of readers and any bounds.    *)
(***************************************************************************)
EXTENDS BtHciReadInt, TLAPS

(* What a read hands out is a natural number. *)
LEMMA ChunkNat ==
  ASSUME filled \in Nat, copied \in Nat, NEW count \in Nat
  PROVE  Chunk(count) \in Nat
<1>1. SizeMod \in Nat /\ SizeMod > 0
  BY ReadIntAssumption
<1>2. Available \in Nat
  BY <1>1 DEF Available
<1> QED
  BY <1>2 DEF Chunk, Least

(* Every action keeps every variable in its range. *)
LEMMA TypeStep == TypeOK /\ [Next]_vars => TypeOK'
<1> SUFFICES ASSUME TypeOK, [Next]_vars PROVE TypeOK'
  OBVIOUS
<1> USE ReadIntAssumption DEF TypeOK, Pc, HoldPc, Error, envVars, dataVars,
                              handVars, syncVars, urbVars, Goto, Return
<1>1. ASSUME NEW r \in Readers,
             StartRead(r) \/ LockInterrupted(r) \/ WaitInterrupted(r) \/ ReaderStep(r)
      PROVE  TypeOK'
  <2>1. CASE StartRead(r)
    BY <2>1 DEF StartRead
  <2>2. CASE LockInterrupted(r)
    BY <2>2 DEF LockInterrupted
  <2>3. CASE WaitInterrupted(r)
    BY <2>3 DEF WaitInterrupted
  <2>4. CASE LockRead(r)
    BY <2>4 DEF LockRead
  <2>5. CASE TestFilled(r)
    BY <2>5 DEF TestFilled
  <2>6. CASE FindOngoing(r)
    BY <2>6 DEF FindOngoing
  <2>7. CASE FindIdle(r)
    BY <2>7 DEF FindIdle
  <2>8. CASE MarkOngoing(r)
    BY <2>8 DEF MarkOngoing
  <2>9. CASE SubmitAccepted(r)
    <3>1. leftBehind' \in BOOLEAN /\ active' \in BOOLEAN
      BY <2>9 DEF SubmitAccepted
    <3>2. transfers' \in 0..MaxTransfers
      BY <2>9 DEF SubmitAccepted
    <3> QED
      BY <2>9, <3>1, <3>2 DEF SubmitAccepted
  <2>10. CASE SubmitRefused(r)
    <3>1. ongoing' \in BOOLEAN
      BY <2>10 DEF SubmitRefused
    <3>2. filled' \in 0..MaxEvent
      BY <2>10 DEF SubmitRefused
    <3> QED
      BY <2>10, <3>1, <3>2 DEF SubmitRefused
  <2>11. CASE WaitCompleted(r)
    BY <2>11 DEF WaitCompleted, CompletionCounted
  <2>12. CASE TestErrors(r)
    BY <2>12 DEF TestErrors
  <2>13. CASE ReportError(r)
    BY <2>13 DEF ReportError
  <2>14. CASE Deliver(r)
    <3>1. PICK count \in 1..MaxEvent :
            /\ Delivered(Chunk(count))
            /\ handed' = IF filled > 0 THEN Least(handed + Chunk(count), CopiedCap)
                                       ELSE handed
      BY <2>14 DEF Deliver
    <3>2. Chunk(count) \in Nat
      BY ChunkNat
    <3>3. filled' \in 0..MaxEvent /\ copied' \in 0..CopiedCap /\ handed' \in 0..CopiedCap
      BY <3>1, <3>2 DEF Delivered, Least, CopiedCap
    <3> QED
      BY <2>14, <3>3 DEF Deliver
  <2>15. CASE DeliverFault(r)
    <3>1. PICK count \in 1..MaxEvent : Delivered(Chunk(count))
      BY <2>15 DEF DeliverFault
    <3>2. Chunk(count) \in Nat
      BY ChunkNat
    <3>3. filled' \in 0..MaxEvent /\ copied' \in 0..CopiedCap
      BY <3>1, <3>2 DEF Delivered, Least, CopiedCap
    <3> QED
      BY <2>15, <3>3 DEF DeliverFault
  <2> QED
    BY <1>1, <2>1, <2>2, <2>3, <2>4, <2>5, <2>6, <2>7, <2>8, <2>9, <2>10, <2>11, <2>12,
       <2>13, <2>14, <2>15 DEF ReaderStep
<1>2. CASE CallbackEvent
  <2>1. filled' \in 0..MaxEvent /\ errors' \in Error
    BY <1>2 DEF CallbackEvent
  <2>2. handed' \in {0, handed} /\ 0 \in 0..CopiedCap
    BY <1>2 DEF CallbackEvent, CopiedCap
  <2>3. faulted' \in BOOLEAN
    BY <1>2 DEF CallbackEvent
  <2> QED
    BY <1>2, <2>1, <2>2, <2>3 DEF CallbackEvent
<1>3. CASE CallbackComplete
  <2>1. done' \in Nat
    BY <1>3 DEF CallbackComplete, Completed
  <2>2. completing' \in BOOLEAN
    BY <1>3 DEF CallbackComplete
  <2> QED
    BY <1>3, <2>1, <2>2 DEF CallbackComplete
<1>4. CASE HciOpen
  BY <1>4 DEF HciOpen, ForgetWaiters
<1>5. CASE AclOpen
  BY <1>5 DEF AclOpen, ForgetWaiters
<1>6. CASE StartReset
  BY <1>6 DEF StartReset
<1>7. CASE Suspend
  <2>1. done' \in Nat /\ errors' \in Error
    BY <1>7 DEF Suspend, Completed
  <2>2. ongoing' \in BOOLEAN /\ active' \in BOOLEAN
    BY <1>7 DEF Suspend
  <2> QED
    BY <1>7, <2>1, <2>2 DEF Suspend
<1>8. CASE DisableEndpoints
  BY <1>8 DEF DisableEndpoints
<1>9. CASE PreResetLock
  BY <1>9 DEF PreResetLock
<1>10. CASE DrawDownClear
  BY <1>10 DEF DrawDownClear
<1>11. CASE DrawDownKilled
  BY <1>11 DEF DrawDownKilled
<1>12. CASE PostReset
  BY <1>12 DEF PostReset
<1>13. CASE Resume
  BY <1>13 DEF Resume
<1>14. CASE Disconnect
  BY <1>14 DEF Disconnect
<1>15. CASE UNCHANGED vars
  BY <1>15 DEF vars
<1> QED
  BY <1>1, <1>2, <1>3, <1>4, <1>5, <1>6, <1>7, <1>8, <1>9, <1>10, <1>11, <1>12, <1>13,
     <1>14, <1>15 DEF Next, CoreStep

(* Every variable starts in its range. *)
LEMMA TypeInit == Init => TypeOK
<1> SUFFICES ASSUME Init PROVE TypeOK
  OBVIOUS
<1>1. pc \in [Readers -> Pc]
  BY DEF Init, Pc
<1>2. filled \in 0..MaxEvent /\ copied \in 0..CopiedCap
  BY ReadIntAssumption DEF Init, CopiedCap
<1>3. transfers \in 0..MaxTransfers /\ resets \in 0..MaxResets
  BY ReadIntAssumption DEF Init
<1>4. hciOpens \in 0..MaxHciOpens /\ aclOpens \in 0..MaxAclOpens
  BY ReadIntAssumption DEF Init
<1>5. /\ power \in {"on", "prereset", "clearing", "killing", "drained", "suspended"}
      /\ link \in {"up", "disabled", "gone"}
      /\ errors \in Error
      /\ done \in Nat /\ orphans \subseteq Readers
      /\ mutex \in Readers \cup {Nobody, Core}
  BY DEF Init, Error
<1>6. /\ ongoing \in BOOLEAN /\ active \in BOOLEAN /\ completing \in BOOLEAN
      /\ interface \in BOOLEAN /\ leftBehind \in BOOLEAN /\ faulted \in BOOLEAN
  BY DEF Init
<1>7. handed \in 0..CopiedCap
  BY ReadIntAssumption DEF Init, CopiedCap
<1> QED
  BY <1>1, <1>2, <1>3, <1>4, <1>5, <1>6, <1>7 DEF TypeOK

(* TypeOK: every variable of the read path stays within its range.         *)
THEOREM TypeCorrect == Spec => []TypeOK
BY TypeInit, TypeStep, PTL DEF Spec

---------------------------------------------------------------------------
(* The inductive invariant. io_mutex is what ties its parts together: a    *)
(* reader that holds it excludes draw_down, which clears the flag of a URB *)
(* that is still active, and post_reset, which leaves the reset's notice.  *)

MutexHeld ==
  /\ \A r \in Readers : pc[r] \in HoldPc <=> mutex = r
  /\ mutex = Core <=> power \in {"clearing", "killing", "drained"}

(* The flag is set from before the submission until the callback, unless   *)
(* draw_down has cleared it to kill the URB.                               *)
FlagCoversUrb ==
  /\ \A r \in Readers : pc[r] = "submit" => ongoing
  /\ active /\ ~ongoing => power = "killing"
  /\ power = "drained" => ~active

(* No URB is submitted over a notice, so no callback can overwrite one.    *)
NoticeIsLast ==
  /\ errors = "pipe" => ~active
  /\ \A r \in Readers : pc[r] \in {"mark", "submit"} => errors = "none"

Safe ==
  /\ OngoingHasUrb
  /\ ActiveUrbLeftAlone
  /\ FlagCoversUrb
  /\ NoticeIsLast
  /\ NoLostWakeup

(* While the reads are quiet the URB has a reader that waits for it and,   *)
(* holding io_mutex, keeps the others from the buffer; that reader found   *)
(* it empty, and an error is recorded only in the place of an event. The   *)
(* offset of what comes next is what callers have got of the event.        *)
EventIntact ==
  Quiet =>
    /\ copied <= filled /\ (filled > 0 => copied < filled)
    /\ filled > 0 /\ ~faulted => handed = copied
    /\ active => filled = 0 /\ \E r \in Readers : pc[r] = "wait"
    /\ errors # "none" => filled = 0
    /\ \A r \in Readers : pc[r] \in {"sample", "mark", "submit", "drop"} => filled = 0
    /\ power \in {"on", "suspended"}

IInv ==
  /\ TypeOK
  /\ MutexHeld
  /\ Safe
  /\ EventIntact

(* io_mutex has one holder, and draw_down runs only while the core is it.  *)
LEMMA MutexStep == TypeOK /\ MutexHeld /\ [Next]_vars => MutexHeld'
<1> SUFFICES ASSUME TypeOK, MutexHeld, [Next]_vars PROVE MutexHeld'
  OBVIOUS
<1> USE ReadIntAssumption DEF TypeOK, MutexHeld, Pc, HoldPc, envVars, Goto, Return
<1>1. ASSUME NEW r \in Readers,
             StartRead(r) \/ LockInterrupted(r) \/ WaitInterrupted(r) \/ ReaderStep(r)
      PROVE  MutexHeld'
  <2>1. CASE StartRead(r)
    BY <2>1 DEF StartRead
  <2>2. CASE LockInterrupted(r)
    BY <2>2 DEF LockInterrupted
  <2>3. CASE WaitInterrupted(r)
    BY <2>3 DEF WaitInterrupted
  <2>4. CASE LockRead(r)
    BY <2>4 DEF LockRead
  <2>5. CASE TestFilled(r)
    BY <2>5 DEF TestFilled
  <2>6. CASE FindOngoing(r)
    BY <2>6 DEF FindOngoing
  <2>7. CASE FindIdle(r)
    BY <2>7 DEF FindIdle
  <2>8. CASE MarkOngoing(r)
    BY <2>8 DEF MarkOngoing
  <2>9. CASE SubmitAccepted(r)
    BY <2>9 DEF SubmitAccepted
  <2>10. CASE SubmitRefused(r)
    BY <2>10 DEF SubmitRefused
  <2>11. CASE WaitCompleted(r)
    BY <2>11 DEF WaitCompleted
  <2>12. CASE TestErrors(r)
    BY <2>12 DEF TestErrors
  <2>13. CASE ReportError(r)
    BY <2>13 DEF ReportError
  <2>14. CASE Deliver(r)
    BY <2>14 DEF Deliver
  <2>15. CASE DeliverFault(r)
    BY <2>15 DEF DeliverFault
  <2> QED
    BY <1>1, <2>1, <2>2, <2>3, <2>4, <2>5, <2>6, <2>7, <2>8, <2>9, <2>10, <2>11, <2>12,
       <2>13, <2>14, <2>15 DEF ReaderStep
<1>2. CASE CallbackEvent
  BY <1>2 DEF CallbackEvent
<1>3. CASE CallbackComplete
  BY <1>3 DEF CallbackComplete
<1>4. CASE HciOpen
  BY <1>4 DEF HciOpen
<1>5. CASE AclOpen
  BY <1>5 DEF AclOpen
<1>6. CASE StartReset
  BY <1>6 DEF StartReset
<1>7. CASE Suspend
  BY <1>7 DEF Suspend
<1>8. CASE DisableEndpoints
  BY <1>8 DEF DisableEndpoints
<1>9. CASE PreResetLock
  BY <1>9 DEF PreResetLock
<1>10. CASE DrawDownClear
  BY <1>10 DEF DrawDownClear
<1>11. CASE DrawDownKilled
  BY <1>11 DEF DrawDownKilled
<1>12. CASE PostReset
  BY <1>12 DEF PostReset
<1>13. CASE Resume
  BY <1>13 DEF Resume
<1>14. CASE Disconnect
  BY <1>14 DEF Disconnect
<1>15. CASE UNCHANGED vars
  BY <1>15 DEF vars
<1> QED
  BY <1>1, <1>2, <1>3, <1>4, <1>5, <1>6, <1>7, <1>8, <1>9, <1>10, <1>11, <1>12, <1>13,
     <1>14, <1>15 DEF Next, CoreStep

(* The rest of the invariant. *)
LEMMA SafeStep == IInv /\ [Next]_vars => Safe'
<1> SUFFICES ASSUME IInv, [Next]_vars PROVE Safe'
  OBVIOUS
<1>0. TypeOK' /\ MutexHeld'
  BY TypeStep, MutexStep DEF IInv
<1> USE <1>0, ReadIntAssumption
    DEF IInv, Safe, TypeOK, MutexHeld, OngoingHasUrb, ActiveUrbLeftAlone, FlagCoversUrb,
        NoticeIsLast, NoLostWakeup, Pc, HoldPc, Error, envVars, urbVars,
        syncVars, Goto, Return
<1>1. ASSUME NEW r \in Readers,
             StartRead(r) \/ LockInterrupted(r) \/ WaitInterrupted(r) \/ ReaderStep(r)
      PROVE  Safe'
  <2>1. CASE StartRead(r)
    BY <2>1 DEF StartRead
  <2>2. CASE LockInterrupted(r)
    BY <2>2 DEF LockInterrupted
  <2>3. CASE WaitInterrupted(r)
    BY <2>3 DEF WaitInterrupted
  <2>4. CASE LockRead(r)
    BY <2>4 DEF LockRead
  <2>5. CASE TestFilled(r)
    BY <2>5 DEF TestFilled
  <2>6. CASE FindOngoing(r)
    BY <2>6 DEF FindOngoing
  <2>7. CASE FindIdle(r)
    BY <2>7 DEF FindIdle
  <2>8. CASE MarkOngoing(r)
    BY <2>8 DEF MarkOngoing
  <2>9. CASE SubmitAccepted(r)
    BY <2>9 DEF SubmitAccepted
  <2>10. CASE SubmitRefused(r)
    BY <2>10 DEF SubmitRefused
  <2>11. CASE WaitCompleted(r)
    BY <2>11 DEF WaitCompleted, CompletionCounted
  <2>12. CASE TestErrors(r)
    BY <2>12 DEF TestErrors
  <2>13. CASE ReportError(r)
    BY <2>13 DEF ReportError
  <2>14. CASE Deliver(r)
    BY <2>14 DEF Deliver
  <2>15. CASE DeliverFault(r)
    BY <2>15 DEF DeliverFault
  <2> QED
    BY <1>1, <2>1, <2>2, <2>3, <2>4, <2>5, <2>6, <2>7, <2>8, <2>9, <2>10, <2>11, <2>12,
       <2>13, <2>14, <2>15 DEF ReaderStep
<1>2. CASE CallbackEvent
  BY <1>2 DEF CallbackEvent
<1>3. CASE CallbackComplete
  BY <1>3 DEF CallbackComplete, Completed
<1>4. CASE HciOpen
  BY <1>4 DEF HciOpen, ForgetWaiters
<1>5. CASE AclOpen
  BY <1>5 DEF AclOpen, ForgetWaiters
<1>6. CASE StartReset
  BY <1>6 DEF StartReset
<1>7. CASE Suspend
  BY <1>7 DEF Suspend, Completed
<1>8. CASE DisableEndpoints
  BY <1>8 DEF DisableEndpoints
<1>9. CASE PreResetLock
  BY <1>9 DEF PreResetLock
<1>10. CASE DrawDownClear
  BY <1>10 DEF DrawDownClear
<1>11. CASE DrawDownKilled
  BY <1>11 DEF DrawDownKilled, UrbIdle
<1>12. CASE PostReset
  BY <1>12 DEF PostReset
<1>13. CASE Resume
  BY <1>13 DEF Resume
<1>14. CASE Disconnect
  BY <1>14 DEF Disconnect
<1>15. CASE UNCHANGED vars
  BY <1>15 DEF vars
<1> QED
  BY <1>1, <1>2, <1>3, <1>4, <1>5, <1>6, <1>7, <1>8, <1>9, <1>10, <1>11, <1>12, <1>13,
     <1>14, <1>15 DEF Next, CoreStep

(* A read of an event hands out at least one byte of it, and leaves the    *)
(* offset within the event or, with the last byte, an empty buffer.        *)
LEMMA DeliveredWithin ==
  ASSUME filled \in Nat, copied \in Nat, filled <= MaxEvent,
         copied <= filled, filled > 0 => copied < filled,
         NEW count \in Nat \ {0}, Delivered(Chunk(count))
  PROVE  /\ filled = 0 => filled' = 0 /\ copied' = 0
         /\ filled > 0 =>
              /\ Chunk(count) \in Nat \ {0}
              /\ copied + Chunk(count) <= filled
              /\ filled' = IF copied + Chunk(count) = filled THEN 0 ELSE filled
              /\ copied' = IF copied + Chunk(count) = filled THEN 0 ELSE copied + Chunk(count)
<1>1. /\ SizeMod \in Nat /\ SizeMod > 3 * MaxEvent /\ MaxEvent \in Nat
  BY ReadIntAssumption
<1>2. filled - copied \in 0..(SizeMod - 1)
  BY <1>1
<1>3. Available = filled - copied
  BY <1>1, <1>2 DEF Available
<1>4. Chunk(count) \in Nat /\ Chunk(count) <= Available /\ (Available > 0 => Chunk(count) > 0)
  BY <1>2, <1>3 DEF Chunk, Least
<1>5. PICK n \in Nat : n = Chunk(count)
  BY <1>4
<1>6. CASE filled > 0 /\ Available > n
  <2>1. filled' = filled /\ copied' = Least(copied + n, CopiedCap)
    BY <1>5, <1>6 DEF Delivered
  <2>2. copied + n < filled /\ copied + n <= CopiedCap
    BY <1>1, <1>3, <1>6 DEF CopiedCap
  <2>3. copied' = copied + n
    BY <1>1, <2>1, <2>2 DEF Least, CopiedCap
  <2> QED
    BY <1>2, <1>3, <1>4, <1>5, <1>6, <2>1, <2>2, <2>3
<1>7. CASE ~(filled > 0 /\ Available > n)
  <2>1. filled' = 0 /\ copied' = (IF filled > 0 THEN 0 ELSE copied)
    BY <1>5, <1>7 DEF Delivered
  <2>2. filled > 0 => copied + n = filled
    BY <1>2, <1>3, <1>4, <1>5, <1>7
  <2> QED
    BY <1>3, <1>4, <1>5, <2>1, <2>2
<1> QED
  BY <1>6, <1>7

(* An event that was not read yet stays where it is. *)
LEMMA EventStep == IInv /\ [Next]_vars => EventIntact'
<1> SUFFICES ASSUME IInv, [Next]_vars PROVE EventIntact'
  OBVIOUS
<1>0. TypeOK /\ TypeOK' /\ MutexHeld /\ Safe /\ EventIntact
  BY TypeStep DEF IInv
<1> USE <1>0 DEF EventIntact, Quiet, TypeOK, Error, dataVars, handVars, urbVars, envVars, Goto,
                Return
<1>1. ASSUME NEW r \in Readers,
             StartRead(r) \/ LockInterrupted(r) \/ WaitInterrupted(r) \/ ReaderStep(r)
      PROVE  EventIntact'
  <2>1. CASE StartRead(r)
    BY <2>1 DEF StartRead
  <2>2. CASE LockInterrupted(r)
    BY <2>2 DEF LockInterrupted
  <2>3. CASE WaitInterrupted(r)
    BY <2>3 DEF WaitInterrupted
  <2>4. CASE LockRead(r)
    BY <2>4 DEF LockRead
  <2>5. CASE TestFilled(r)
    BY <2>5 DEF TestFilled
  <2>6. CASE FindOngoing(r)
    BY <2>6 DEF FindOngoing
  <2>7. CASE FindIdle(r)
    BY <2>7 DEF FindIdle
  <2>8. CASE MarkOngoing(r)
    BY <2>8 DEF MarkOngoing
  <2>9. CASE SubmitAccepted(r)
    BY <2>9 DEF SubmitAccepted
  <2>10. CASE SubmitRefused(r)
    BY <2>10 DEF SubmitRefused
  <2>11. CASE WaitCompleted(r)
    BY <2>11 DEF WaitCompleted
  <2>12. CASE TestErrors(r)
    BY <2>12 DEF TestErrors
  <2>13. CASE ReportError(r)
    BY <2>13 DEF ReportError
  <2>14. ASSUME Deliver(r) \/ DeliverFault(r) PROVE EventIntact'
    <3>1. SUFFICES ASSUME Quiet PROVE EventIntact'
      BY <2>14 DEF Deliver, DeliverFault
    <3>2. PICK count \in 1..MaxEvent :
            /\ Delivered(Chunk(count))
            /\ \/ faulted'
               \/ /\ handed' = IF filled > 0 THEN Least(handed + Chunk(count), CopiedCap)
                                            ELSE handed
                  /\ UNCHANGED faulted
      BY <2>14 DEF Deliver, DeliverFault
    <3>3. /\ filled = 0 => filled' = 0 /\ copied' = 0
          /\ filled > 0 =>
               /\ Chunk(count) \in Nat \ {0}
               /\ copied + Chunk(count) <= filled
               /\ filled' = IF copied + Chunk(count) = filled THEN 0 ELSE filled
               /\ copied' = IF copied + Chunk(count) = filled THEN 0 ELSE copied + Chunk(count)
      <4>1. /\ filled \in Nat /\ copied \in Nat /\ filled <= MaxEvent
            /\ copied <= filled /\ (filled > 0 => copied < filled)
        BY <3>1, ReadIntAssumption
      <4>2. count \in Nat \ {0}
        BY ReadIntAssumption
      <4> QED
        BY <3>2, <4>1, <4>2, DeliveredWithin
    <3>4. copied' <= filled' /\ (filled' > 0 => copied' < filled') /\ (filled = 0 => filled' = 0)
      BY <3>3
    <3>5. filled' > 0 /\ ~faulted' => handed' = copied'
      <4> SUFFICES ASSUME filled' > 0, ~faulted' PROVE handed' = copied'
        OBVIOUS
      <4>1. filled > 0 /\ copied' = copied + Chunk(count) /\ copied' < filled
        BY <3>3, <3>4
      <4>2. handed = copied /\ handed' = Least(handed + Chunk(count), CopiedCap)
        BY <3>1, <3>2, <4>1
      <4>3. CopiedCap \in Nat /\ filled <= CopiedCap
        BY ReadIntAssumption DEF CopiedCap
      <4> QED
        BY <4>1, <4>2, <4>3 DEF Least
    <3>6. /\ pc' = [pc EXCEPT ![r] = "idle"] /\ pc[r] = "deliver"
          /\ UNCHANGED <<errors, active, power>>
      BY <2>14 DEF Deliver, DeliverFault
    <3>7. active => \E q \in Readers : pc'[q] = "wait"
      BY <3>1, <3>6
    <3>8. \A q \in Readers : pc'[q] \in {"sample", "mark", "submit", "drop"} =>
                               pc[q] \in {"sample", "mark", "submit", "drop"}
      BY <3>6
    <3> QED
      BY <3>1, <3>4, <3>5, <3>6, <3>7, <3>8
  <2> QED
    BY <1>1, <2>1, <2>2, <2>3, <2>4, <2>5, <2>6, <2>7, <2>8, <2>9, <2>10, <2>11, <2>12,
       <2>13, <2>14 DEF ReaderStep
<1>2. CASE CallbackEvent
  <2>1. SUFFICES ASSUME Quiet PROVE EventIntact'
    BY <1>2 DEF CallbackEvent
  <2>2. PICK q \in Readers : pc[q] = "wait"
    BY <1>2, <2>1 DEF CallbackEvent
  <2>3. \A r \in Readers : pc[r] \notin {"sample", "mark", "submit", "drop"}
    BY <2>2 DEF MutexHeld, HoldPc
  <2>4. filled = 0 /\ copied = 0
    BY <1>2, <2>1 DEF CallbackEvent
  <2>5. /\ filled' \in 0..MaxEvent /\ (errors' # "none" => filled' = 0)
        /\ filled' > 0 => handed' = 0
    BY <1>2, <2>4 DEF CallbackEvent
  <2> QED
    BY <1>2, <2>1, <2>3, <2>4, <2>5 DEF CallbackEvent
<1>3. CASE CallbackComplete
  BY <1>3 DEF CallbackComplete
<1>4. CASE HciOpen
  BY <1>4 DEF HciOpen
<1>5. CASE AclOpen
  BY <1>5 DEF AclOpen
<1>6. CASE StartReset
  BY <1>6 DEF StartReset
<1>7. CASE Suspend
  BY <1>7 DEF Suspend
<1>8. CASE DisableEndpoints
  BY <1>8 DEF DisableEndpoints
<1>9. CASE PreResetLock
  BY <1>9 DEF PreResetLock
<1>10. CASE DrawDownClear
  BY <1>10 DEF DrawDownClear
<1>11. CASE DrawDownKilled
  BY <1>11 DEF DrawDownKilled
<1>12. CASE PostReset
  BY <1>12 DEF PostReset
<1>13. CASE Resume
  BY <1>13 DEF Resume
<1>14. CASE Disconnect
  BY <1>14 DEF Disconnect
<1>15. CASE UNCHANGED vars
  BY <1>15 DEF vars
<1> QED
  BY <1>1, <1>2, <1>3, <1>4, <1>5, <1>6, <1>7, <1>8, <1>9, <1>10, <1>11, <1>12, <1>13,
     <1>14, <1>15 DEF Next, CoreStep

(* What holds of io_mutex, the flag, the URB and the errors in every       *)
(* reachable state.                                                        *)
THEOREM Safety == Spec => []IInv
<1>1. Init => IInv
  <2> SUFFICES ASSUME Init PROVE IInv
    OBVIOUS
  <2>1. MutexHeld
    BY ReadIntAssumption DEF Init, MutexHeld, HoldPc
  <2>2. Safe
    BY DEF Init, Safe, OngoingHasUrb, ActiveUrbLeftAlone, FlagCoversUrb, NoticeIsLast,
           NoLostWakeup
  <2>3. EventIntact
    BY DEF Init, EventIntact
  <2> QED
    BY TypeInit, <2>1, <2>2, <2>3 DEF IInv
<1>2. IInv /\ [Next]_vars => IInv'
  BY TypeStep, MutexStep, SafeStep, EventStep DEF IInv
<1> QED
  BY <1>1, <1>2, PTL DEF Spec

(* io_mutex keeps draw_down and the other readers from a reader that is    *)
(* about to submit the URB, so it is never submitted while it is active.   *)
THEOREM UrbLeftAlone == Spec => []ActiveUrbLeftAlone
<1>1. IInv => ActiveUrbLeftAlone
  BY DEF IInv, Safe
<1> QED
  BY <1>1, Safety, PTL

(* ongoing_read_int is never left set without a URB whose callback will    *)
(* clear it or a reader about to submit one.                               *)
THEOREM FlagHasUrb == Spec => []OngoingHasUrb
<1>1. IInv => OngoingHasUrb
  BY DEF IInv, Safe
<1> QED
  BY <1>1, Safety, PTL

(* Unless the completion was re-initialised, a reader that sleeps on       *)
(* int_in_completion has a wake-up coming.                                 *)
THEOREM WakeupComes == Spec => []NoLostWakeup
<1>1. IInv => NoLostWakeup
  BY DEF IInv, Safe
<1> QED
  BY <1>1, Safety, PTL

(* While every read waits for its own transfer, and without a reset or an  *)
(* HCI open, the controller never writes over an unread event, and         *)
(* int_in_copied stays within int_in_filled.                               *)
THEOREM EventStays == Spec => []EventKeptIntact
<1>1. IInv => EventKeptIntact
  BY DEF IInv, EventIntact, Quiet, EventKeptIntact
<1> QED
  BY <1>1, Safety, PTL

(* The notice that post_reset leaves in int_read_errors stays until it is  *)
(* reported or an open of an HCI file clears it.                           *)
THEOREM NoticeStays == Spec => ResetNoticePreserved
<1> DEFINE Taken == HciOpen \/ \E r \in Readers : FindIdle(r) \/ ReportError(r)
           Kept == errors = "pipe" /\ errors' # "pipe" => Taken
<1>1. ASSUME IInv, Next PROVE Kept
  <2>1. ASSUME NEW r \in Readers, StartRead(r) \/ LockInterrupted(r) \/ WaitInterrupted(r)
        PROVE  Kept
    BY <2>1 DEF StartRead, LockInterrupted, WaitInterrupted
  <2>2. ASSUME NEW r \in Readers, ReaderStep(r) PROVE Kept
    BY <2>2 DEF ReaderStep, LockRead, TestFilled, FindOngoing, MarkOngoing, SubmitAccepted,
                SubmitRefused, WaitCompleted, TestErrors, Deliver, DeliverFault
  <2>3. CASE CallbackEvent
    BY <1>1, <2>3 DEF CallbackEvent, IInv, Safe, NoticeIsLast
  <2>4. CASE CallbackComplete \/ AclOpen \/ StartReset \/ DisableEndpoints
    BY <2>4 DEF CallbackComplete, AclOpen, StartReset, DisableEndpoints
  <2>5. CASE Suspend
    BY <1>1, <2>5 DEF Suspend, IInv, Safe, NoticeIsLast
  <2>6. CASE CoreStep
    BY <2>6 DEF CoreStep, PreResetLock, DrawDownClear, DrawDownKilled, PostReset, Resume,
                Disconnect
  <2> QED
    BY <1>1, <2>1, <2>2, <2>3, <2>4, <2>5, <2>6 DEF Next
<1>2. IInv /\ [Next]_vars => [Kept]_vars
  BY <1>1
<1> QED
  BY <1>2, Safety, PTL DEF Spec, ResetNoticePreserved

(* While every read waits for its own transfer, and without a reset or an  *)
(* HCI open, the callers of read get every byte of an event, once and in   *)
(* order, before it leaves the buffer, unless a copy_to_user of it failed. *)
THEOREM NothingDiscarded == Spec => EventsHandedOut
<1> DEFINE Moved == dataVars' # dataVars
<1>1. ASSUME IInv, Next, Quiet', ~faulted', Moved PROVE HandedOut
  <2>0. TypeOK /\ EventIntact
    BY <1>1 DEF IInv
  <2> USE <2>0 DEF TypeOK, EventIntact, dataVars, handVars, urbVars, envVars
  <2>1. ASSUME NEW r \in Readers, StartRead(r) \/ LockInterrupted(r) \/ WaitInterrupted(r)
        PROVE  HandedOut
    BY <1>1, <2>1 DEF StartRead, LockInterrupted, WaitInterrupted
  <2>2. ASSUME NEW r \in Readers, ReaderStep(r) PROVE HandedOut
    <3>1. CASE LockRead(r) \/ TestFilled(r) \/ FindOngoing(r) \/ MarkOngoing(r)
               \/ SubmitAccepted(r) \/ WaitCompleted(r) \/ TestErrors(r)
      BY <1>1, <3>1 DEF LockRead, TestFilled, FindOngoing, MarkOngoing, SubmitAccepted,
                        WaitCompleted, TestErrors
    <3>2. CASE FindIdle(r) \/ SubmitRefused(r) \/ ReportError(r)
      <4>1. Quiet
        BY <1>1, <3>2 DEF Quiet, FindIdle, SubmitRefused, ReportError
      <4>2. filled = 0
        BY <3>2, <4>1 DEF FindIdle, SubmitRefused, ReportError
      <4> QED
        BY <1>1, <3>2, <4>2 DEF FindIdle, SubmitRefused, ReportError
    <3>3. CASE Deliver(r)
      <4>1. Quiet /\ ~faulted
        BY <1>1, <3>3 DEF Quiet, Deliver
      <4>2. PICK count \in 1..MaxEvent :
              /\ Delivered(Chunk(count))
              /\ handed' = IF filled > 0 THEN Least(handed + Chunk(count), CopiedCap)
                                         ELSE handed
        BY <3>3 DEF Deliver
      <4>3. /\ filled \in Nat /\ copied \in Nat /\ filled <= MaxEvent
            /\ copied <= filled /\ (filled > 0 => copied < filled)
        BY <4>1, ReadIntAssumption
      <4>4. count \in Nat \ {0}
        BY ReadIntAssumption
      <4>5. /\ filled = 0 => filled' = 0 /\ copied' = 0
            /\ filled > 0 =>
                 /\ Chunk(count) \in Nat \ {0}
                 /\ copied + Chunk(count) <= filled
                 /\ filled' = IF copied + Chunk(count) = filled THEN 0 ELSE filled
                 /\ copied' = IF copied + Chunk(count) = filled THEN 0 ELSE copied + Chunk(count)
        BY <4>2, <4>3, <4>4, DeliveredWithin
      <4>6. filled > 0
        BY <1>1, <3>3, <4>2, <4>3, <4>5 DEF Deliver
      <4>7. handed = copied /\ CopiedCap \in Nat /\ filled <= CopiedCap
        BY <4>1, <4>6, ReadIntAssumption DEF CopiedCap
      <4>8. handed' = copied + Chunk(count)
        BY <4>2, <4>3, <4>5, <4>6, <4>7 DEF Least
      <4> QED
        BY <4>3, <4>5, <4>6, <4>7, <4>8 DEF HandedOut
    <3>4. CASE DeliverFault(r)
      BY <1>1, <3>4 DEF DeliverFault
    <3> QED
      BY <2>2, <3>1, <3>2, <3>3, <3>4 DEF ReaderStep
  <2>3. CASE CallbackEvent
    <3>1. Quiet
      BY <1>1, <2>3 DEF Quiet, CallbackEvent
    <3>2. filled = 0 /\ copied = 0
      BY <2>3, <3>1 DEF CallbackEvent
    <3> QED
      BY <2>3, <3>2 DEF HandedOut, CallbackEvent
  <2>4. CASE CallbackComplete \/ AclOpen \/ StartReset \/ Suspend \/ DisableEndpoints
    BY <1>1, <2>4 DEF CallbackComplete, AclOpen, StartReset, Suspend, DisableEndpoints
  <2>5. CASE HciOpen
    BY <1>1, <2>5 DEF HciOpen, Quiet
  <2>6. CASE CoreStep
    BY <1>1, <2>6 DEF CoreStep, PreResetLock, DrawDownClear, DrawDownKilled, PostReset, Resume,
                Disconnect
  <2> QED
    BY <1>1, <2>1, <2>2, <2>3, <2>4, <2>5, <2>6 DEF Next
<1>2. IInv /\ [Next]_vars => [Quiet' /\ ~faulted' => HandedOut]_dataVars
  <2>1. UNCHANGED vars => UNCHANGED dataVars
    BY DEF vars, dataVars
  <2> QED
    BY <1>1, <2>1
<1> QED
  BY <1>2, Safety, PTL DEF Spec, EventsHandedOut
===========================================================================
