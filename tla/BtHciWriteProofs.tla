------------------------- MODULE BtHciWriteProofs -------------------------
(***************************************************************************)
(* Proofs about BtHciWrite, for any finite sets of writers and of URBs,    *)
(* any limit and any bounds.                                               *)
(***************************************************************************)
EXTENDS BtHciWrite, FiniteSetTheorems, TLAPS

---------------------------------------------------------------------------
(* Type correctness *)

(* A writer that has got past the allocation has a URB, and keeps the       *)
(* pointer until it returns.                                               *)
HasUrb ==
  \A w \in Writers :
    /\ pc[w] \in {"lock", "anchor", "submit", "unanchor", "wait", "result", "lateerror"} =>
         urb[w] \in Urbs
    /\ pc[w] \in {"idle", "block", "try", "errs", "prep"} => urb[w] = NoUrb

LEMMA TypeStep == TypeOK /\ HasUrb /\ [Next]_vars => TypeOK'
<1> SUFFICES ASSUME TypeOK, HasUrb, [Next]_vars PROVE TypeOK'
  OBVIOUS
<1> USE WriteAssumption
    DEF TypeOK, Pc, Error, Goto, devVars, coreVars, urbVars
<1>0. \A b \in {"null", "live", "freed", "overfreed"} :
        FreedCoherent(b) \in {"null", "freed", "overfreed"}
  BY DEF FreedCoherent
<1>1. ASSUME NEW w \in Writers, WriterStep(w) PROVE TypeOK'
  <2>1. CASE DownLimit(w)
    BY <2>1 DEF DownLimit, LimitAvailable
  <2>2. CASE TryFails(w)
    BY <2>2 DEF TryFails, LimitUnavailable
  <2>3. CASE ReportEarlier(w)
    BY <2>3 DEF ReportEarlier
  <2>4. CASE PrepareUrb(w)
    BY <2>4 DEF PrepareUrb
  <2>5. CASE LockForSubmit(w)
    BY <2>5 DEF LockForSubmit
  <2>6. CASE AnchorUrb(w)
    BY <2>6 DEF HasUrb, AnchorUrb, AnchoredWith
  <2>7. CASE SubmitAccepted(w)
    BY <2>7 DEF HasUrb, SubmitAccepted
  <2>8. CASE SubmitRefused(w)
    BY <2>8 DEF SubmitRefused
  <2>9. CASE UnanchorUrb(w)
    BY <2>9 DEF HasUrb, UnanchorUrb, AnchoredWithout
  <2>10. CASE WaitCompleted(w)
    BY <2>10 DEF WaitCompleted
  <2>11. CASE ReturnWritten(w)
    BY <2>11 DEF ReturnWritten
  <2>12. CASE ReportFailed(w)
    BY <2>12 DEF ReportFailed
  <2>13. CASE ErrorExit(w)
    <3>1. urb[w] = NoUrb \/ urb[w] \in Urbs
      OBVIOUS
    <3>2. refs' \in [Urbs -> Int]
      BY <2>13, <3>1 DEF ErrorExit
    <3>3. buf' \in [Urbs -> {"null", "live", "freed", "overfreed"}]
      BY <1>0, <2>13, <3>1 DEF ErrorExit
    <3>4. late' \subseteq Urbs
      BY <2>13 DEF ErrorExit, HasUrb
    <3> QED
      BY <2>13, <3>2, <3>3, <3>4 DEF ErrorExit, UppedLimit
  <2> QED
    BY <1>1, <2>1, <2>2, <2>3, <2>4, <2>5, <2>6, <2>7, <2>8, <2>9, <2>10, <2>11,
       <2>12, <2>13 DEF WriterStep
<1>2. ASSUME NEW w \in Writers, StartWrite(w) \/ DownInterrupted(w) \/ WaitInterrupted(w)
      PROVE  TypeOK'
  BY <1>2 DEF StartWrite, DownInterrupted, LimitUnavailable, WaitInterrupted
<1>3. ASSUME NEW u \in Urbs, CallbackStep(u) PROVE TypeOK'
  <2>1. CASE CallbackStatus(u)
    BY <2>1 DEF CallbackStatus
  <2>2. CASE CallbackRelease(u)
    BY <1>0, <2>2 DEF CallbackRelease, UppedLimit
  <2>3. CASE CallbackComplete(u)
    BY <2>3 DEF CallbackComplete, Completed
  <2> QED
    BY <1>3, <2>1, <2>2, <2>3 DEF CallbackStep
<1>4. CASE Reinitialise
  BY <1>4 DEF Reinitialise
<1>5. CASE PreReset
  BY <1>5 DEF PreReset
<1>6. CASE DisableEndpoints
  BY <1>6 DEF DisableEndpoints
<1>7. CASE CoreStep
  BY <1>7 DEF CoreStep, DrawnDown, PostReset, DisconnectInterface, DisconnectKill
<1>8. CASE UNCHANGED vars
  BY <1>8 DEF vars
<1> QED
  BY <1>1, <1>2, <1>3, <1>4, <1>5, <1>6, <1>7, <1>8 DEF Next

---------------------------------------------------------------------------
(* Who owns a URB and its buffer *)

OneWriter ==
  \A v, w \in Writers : urb[v] = urb[w] /\ urb[v] # NoUrb => v = w

Owned(u) == \E w \in Writers : urb[w] = u /\ pc[w] \in OwnPc

(* What a writer knows of its URB until the core accepts it.               *)
OwnUrb(w) ==
  /\ urb[w] # NoUrb => urb[w] \notin late
  /\ pc[w] \in OwnPc /\ urb[w] # NoUrb => urb[w] \notin inflight
  /\ pc[w] \in {"lock", "anchor"} =>
       refs[urb[w]] = 1 /\ buf[urb[w]] = "live" /\ urb[w] \notin anchored
  /\ pc[w] \in {"submit", "unanchor"} =>
       refs[urb[w]] = 2 /\ buf[urb[w]] = "live" /\ urb[w] \in anchored
  /\ pc[w] = "error" /\ urb[w] # NoUrb =>
       refs[urb[w]] = 1 /\ buf[urb[w]] \in {"null", "live"} /\ urb[w] \notin anchored
  /\ pc[w] \in {"wait", "result", "lateerror"} => buf[urb[w]] # "null"

(* The references to a URB that the anchor and the core hold.              *)
CoreRefs(u) == IF u \notin inflight THEN 0 ELSE IF cb[u] = "none" THEN 2 ELSE 1

(* Any other URB: its references are the core's, one fewer if its writer   *)
(* has dropped one too many, and its buffer is as far as the callback is.  *)
CoreUrb(u) ==
  /\ refs[u] = CoreRefs(u) - (IF u \in late THEN 1 ELSE 0)
  /\ u \in anchored <=> u \in inflight /\ cb[u] = "none"
  /\ u \in late => buf[u] \in {"freed", "overfreed"}
  /\ u \notin late /\ u \in inflight => buf[u] = IF cb[u] = "complete" THEN "freed" ELSE "live"
  /\ u \notin late /\ u \notin inflight => buf[u] \in {"null", "freed"}

Ownership ==
  /\ HasUrb /\ OneWriter
  /\ \A w \in Writers : OwnUrb(w)
  /\ \A u \in Urbs : u \notin inflight => cb[u] = "none"
  /\ \A u \in Urbs : ~Owned(u) => CoreUrb(u)

LEMMA OwnershipStep == TypeOK /\ Ownership /\ [Next]_vars => Ownership'
<1> SUFFICES ASSUME TypeOK, Ownership, [Next]_vars PROVE Ownership'
  OBVIOUS
<1> USE WriteAssumption
    DEF TypeOK, Ownership, HasUrb, OneWriter, Owned, OwnUrb, CoreRefs, CoreUrb, OwnPc, Pc,
        Goto
<1>1. ASSUME NEW w \in Writers, WriterStep(w) PROVE Ownership'
  <2>1. CASE DownLimit(w) \/ TryFails(w) \/ ReportEarlier(w)
    BY <2>1 DEF DownLimit, TryFails, LimitUnavailable, ReportEarlier, coreVars, urbVars,
       devVars
  <2>4. CASE PrepareUrb(w)
    BY <2>4 DEF PrepareUrb, Reusable, coreVars, devVars
  <2>5. CASE LockForSubmit(w)
    BY <2>5 DEF LockForSubmit, urbVars
  <2>6. CASE AnchorUrb(w)
    BY <2>6 DEF AnchorUrb, AnchoredWith
  <2>7. CASE SubmitAccepted(w)
    BY <2>7 DEF SubmitAccepted
  <2>8. CASE SubmitRefused(w)
    BY <2>8 DEF SubmitRefused, urbVars
  <2>9. CASE UnanchorUrb(w)
    BY <2>9 DEF UnanchorUrb, AnchoredWithout
  <2>10. CASE WaitCompleted(w) \/ ReportFailed(w)
    BY <2>10 DEF WaitCompleted, ReportFailed, urbVars
  <2>11. CASE ReturnWritten(w)
    BY <2>11 DEF ReturnWritten, urbVars
  <2>13. CASE ErrorExit(w)
    <3>0. \A b : b # "null" => FreedCoherent(b) \in {"freed", "overfreed"}
      BY DEF FreedCoherent
    <3>1. CASE urb[w] = NoUrb
      BY <2>13, <3>1 DEF ErrorExit
    <3>2. CASE urb[w] \in Urbs /\ pc[w] = "error"
      <4>1. /\ buf' = [buf EXCEPT ![urb[w]] = FreedCoherent(@)]
            /\ refs' = [refs EXCEPT ![urb[w]] = @ - 1]
            /\ late' = late /\ urb' = [urb EXCEPT ![w] = NoUrb]
            /\ pc' = [pc EXCEPT ![w] = "idle"]
            /\ UNCHANGED <<anchored, inflight, cb>>
        BY <2>13, <3>2 DEF ErrorExit
      <4>2. refs'[urb[w]] = 0 /\ buf'[urb[w]] \in {"null", "freed"}
        BY <3>2, <4>1 DEF FreedCoherent
      <4> QED
        BY <3>2, <4>1, <4>2
    <3>3. CASE urb[w] \in Urbs /\ pc[w] = "lateerror"
      <4>1. /\ buf' = [buf EXCEPT ![urb[w]] = FreedCoherent(@)]
            /\ refs' = [refs EXCEPT ![urb[w]] = @ - 1]
            /\ late' = late \cup {urb[w]} /\ urb' = [urb EXCEPT ![w] = NoUrb]
            /\ pc' = [pc EXCEPT ![w] = "idle"]
            /\ UNCHANGED <<anchored, inflight, cb>>
        BY <2>13, <3>3 DEF ErrorExit
      <4>2. ~Owned(urb[w]) /\ urb[w] \notin late /\ buf[urb[w]] \in {"live", "freed", "null"}
        BY <3>3
      <4>3. buf[urb[w]] # "null"
        BY <3>3, <4>2
      <4>4. buf'[urb[w]] \in {"freed", "overfreed"} /\ refs'[urb[w]] = refs[urb[w]] - 1
        BY <3>0, <3>3, <4>1, <4>3
      <4> QED
        BY <3>3, <4>1, <4>2, <4>4
    <3> QED
      BY <2>13, <3>1, <3>2, <3>3 DEF ErrorExit
  <2> QED
    BY <1>1, <2>1, <2>4, <2>5, <2>6, <2>7, <2>8, <2>9, <2>10, <2>11, <2>13 DEF WriterStep
<1>2. ASSUME NEW w \in Writers, StartWrite(w) \/ DownInterrupted(w) \/ WaitInterrupted(w)
      PROVE  Ownership'
  BY <1>2 DEF StartWrite, DownInterrupted, LimitUnavailable, WaitInterrupted, urbVars
<1>3. ASSUME NEW u \in Urbs, CallbackStep(u) PROVE Ownership'
  <2>1. CASE CallbackStatus(u)
    BY <2>1 DEF CallbackStatus
  <2>2. CASE CallbackRelease(u)
    BY <2>2 DEF CallbackRelease, FreedCoherent
  <2>3. CASE CallbackComplete(u)
    BY <2>3 DEF CallbackComplete
  <2> QED
    BY <1>3, <2>1, <2>2, <2>3 DEF CallbackStep
<1>4. CASE UNCHANGED <<pc, urb, urbVars>>
  BY <1>4 DEF urbVars
<1> QED
  BY <1>1, <1>2, <1>3, <1>4 DEF Next, Reinitialise, PreReset, DisableEndpoints, CoreStep,
     DrawnDown, PostReset, DisconnectInterface, DisconnectKill, vars

---------------------------------------------------------------------------
(* Counting permits, transfers and waiting writers *)

Permits == {w \in Writers : pc[w] \in PermitPc}
Flights == {u \in inflight : cb[u] # "complete"}
Waiting == {w \in Writers : pc[w] = "wait"}

LEMMA Finite ==
  ASSUME TypeOK
  PROVE  /\ IsFiniteSet(Permits) /\ IsFiniteSet(Flights) /\ IsFiniteSet(Waiting)
         /\ IsFiniteSet(inflight) /\ IsFiniteSet(late)
         /\ Cardinality(Permits) \in Nat /\ Cardinality(Flights) \in Nat
         /\ Cardinality(Waiting) \in Nat /\ Cardinality(inflight) \in Nat
         /\ Cardinality(late) \in Nat
<1>1. /\ Permits \subseteq Writers /\ Flights \subseteq Urbs /\ Waiting \subseteq Writers
      /\ inflight \subseteq Urbs /\ late \subseteq Urbs
  BY DEF TypeOK, Permits, Flights, Waiting
<1>2. /\ IsFiniteSet(Permits) /\ IsFiniteSet(Flights) /\ IsFiniteSet(Waiting)
      /\ IsFiniteSet(inflight) /\ IsFiniteSet(late)
  BY <1>1, WriteAssumption, FS_Subset
<1> QED
  BY <1>2, FS_CardinalityType

(* One writer moves: who holds a permit and who waits changes with it.     *)
LEMMA WriterMoves ==
  ASSUME TypeOK, NEW w \in Writers, NEW p \in Pc, Goto(w, p)
  PROVE  /\ (pc[w] \in PermitPc <=> p \in PermitPc) => Permits' = Permits
         /\ pc[w] \notin PermitPc /\ p \in PermitPc =>
              Cardinality(Permits') = Cardinality(Permits) + 1
         /\ pc[w] \in PermitPc /\ p \notin PermitPc =>
              Cardinality(Permits') = Cardinality(Permits) - 1
         /\ (pc[w] = "wait" <=> p = "wait") => Waiting' = Waiting
         /\ pc[w] # "wait" /\ p = "wait" => Cardinality(Waiting') = Cardinality(Waiting) + 1
         /\ pc[w] = "wait" /\ p # "wait" => Cardinality(Waiting') = Cardinality(Waiting) - 1
<1> USE DEF TypeOK, Goto
<1>1. (pc[w] \in PermitPc <=> p \in PermitPc) => Permits' = Permits
  BY DEF Permits
<1>2. ASSUME pc[w] \notin PermitPc, p \in PermitPc
      PROVE  Cardinality(Permits') = Cardinality(Permits) + 1
  <2>1. Permits' = Permits \cup {w} /\ w \notin Permits
    BY <1>2 DEF Permits
  <2> QED
    BY <2>1, Finite, FS_AddElement
<1>3. ASSUME pc[w] \in PermitPc, p \notin PermitPc
      PROVE  Cardinality(Permits') = Cardinality(Permits) - 1
  <2>1. Permits' = Permits \ {w} /\ w \in Permits
    BY <1>3 DEF Permits
  <2> QED
    BY <2>1, Finite, FS_RemoveElement
<1>4. (pc[w] = "wait" <=> p = "wait") => Waiting' = Waiting
  BY DEF Waiting
<1>5. ASSUME pc[w] # "wait", p = "wait"
      PROVE  Cardinality(Waiting') = Cardinality(Waiting) + 1
  <2>1. Waiting' = Waiting \cup {w} /\ w \notin Waiting
    BY <1>5 DEF Waiting
  <2> QED
    BY <2>1, Finite, FS_AddElement
<1>6. ASSUME pc[w] = "wait", p # "wait"
      PROVE  Cardinality(Waiting') = Cardinality(Waiting) - 1
  <2>1. Waiting' = Waiting \ {w} /\ w \in Waiting
    BY <1>6 DEF Waiting
  <2> QED
    BY <2>1, Finite, FS_RemoveElement
<1> QED
  BY <1>1, <1>2, <1>3, <1>4, <1>5, <1>6

Accounts == SemaphoreAccounting /\ NoLostCompletion

LEMMA AccountsStep == TypeOK /\ Ownership /\ Accounts /\ [Next]_vars => Accounts'
<1> SUFFICES ASSUME TypeOK, Ownership, Accounts, [Next]_vars PROVE Accounts'
  OBVIOUS
<1>0. /\ limitSem + Cardinality(Permits) + Cardinality(Flights)
           = WritesInFlight + Cardinality(late)
      /\ opens = 0 => Cardinality(Waiting) <= done + Cardinality(inflight)
      /\ limitSem \in Nat /\ done \in Nat /\ opens \in Nat
      /\ WritesInFlight \in Nat
  BY WriteAssumption DEF Accounts, SemaphoreAccounting, NoLostCompletion, Permits, Flights,
     Waiting, TypeOK
<1> SUFFICES /\ limitSem' + Cardinality(Permits') + Cardinality(Flights')
                  = WritesInFlight + Cardinality(late')
             /\ opens' = 0 => Cardinality(Waiting') <= done' + Cardinality(inflight')
  BY DEF Accounts, SemaphoreAccounting, NoLostCompletion, Permits, Flights, Waiting
<1> USE <1>0, Finite
<1>1. ASSUME UNCHANGED <<inflight, cb>> PROVE Flights' = Flights
  BY <1>1 DEF Flights
<1>2. ASSUME UNCHANGED pc PROVE Permits' = Permits /\ Waiting' = Waiting
  BY <1>2 DEF Permits, Waiting
<1>3. ASSUME NEW w \in Writers, WriterStep(w)
      PROVE  /\ limitSem' + Cardinality(Permits') + Cardinality(Flights')
                  = WritesInFlight + Cardinality(late')
             /\ opens' = 0 => Cardinality(Waiting') <= done' + Cardinality(inflight')
  <2>0. UNCHANGED coreVars
    BY <1>3 DEF WriterStep, DownLimit, TryFails, LimitUnavailable, ReportEarlier, PrepareUrb,
       LockForSubmit, AnchorUrb, SubmitAccepted, SubmitRefused, UnanchorUrb, WaitCompleted,
       ReturnWritten, ReportFailed, ErrorExit
  <2> USE <2>0 DEF coreVars
  <2>1. CASE DownLimit(w)
    <3>1. pc[w] \in {"block", "try"} /\ Goto(w, "errs") /\ limitSem' = limitSem - 1
      BY <2>1 DEF DownLimit
    <3>2. UNCHANGED <<inflight, cb, late, done>>
      BY <2>1 DEF DownLimit, urbVars
    <3>3. Cardinality(Permits') = Cardinality(Permits) + 1 /\ Waiting' = Waiting
      BY <3>1, WriterMoves DEF PermitPc, Pc
    <3> QED
      BY <3>1, <3>2, <3>3, <1>1
  <2>2. ASSUME NEW p \in Pc, Goto(w, p), pc[w] \in PermitPc <=> p \in PermitPc,
               pc[w] # "wait", p # "wait", UNCHANGED <<limitSem, inflight, cb, late, done>>
        PROVE  /\ limitSem' + Cardinality(Permits') + Cardinality(Flights')
                    = WritesInFlight + Cardinality(late')
               /\ opens' = 0 => Cardinality(Waiting') <= done' + Cardinality(inflight')
    <3>1. Permits' = Permits /\ Waiting' = Waiting
      BY <2>2, WriterMoves
    <3> QED
      BY <2>2, <3>1, <1>1
  <2>3. CASE TryFails(w) \/ ReturnWritten(w) \/ ReportFailed(w)
    BY <2>2, <2>3
    DEF TryFails, LimitUnavailable, ReturnWritten, ReportFailed, urbVars, devVars, PermitPc, Pc
  <2>4. CASE ReportEarlier(w)
    BY <2>2, <2>4 DEF ReportEarlier, urbVars, PermitPc, Pc
  <2>5. CASE PrepareUrb(w)
    BY <2>2, <2>5 DEF PrepareUrb, devVars, PermitPc, Pc
  <2>6. CASE LockForSubmit(w)
    BY <2>2, <2>6 DEF LockForSubmit, urbVars, PermitPc, Pc
  <2>7. CASE AnchorUrb(w) \/ SubmitRefused(w) \/ UnanchorUrb(w)
    BY <2>2, <2>7 DEF AnchorUrb, SubmitRefused, UnanchorUrb, urbVars, devVars, PermitPc, Pc
  <2>8. CASE SubmitAccepted(w)
    <3>1. pc[w] = "submit" /\ Goto(w, "wait") /\ inflight' = inflight \cup {urb[w]}
          /\ UNCHANGED <<limitSem, cb, late, done>>
      BY <2>8 DEF SubmitAccepted
    <3>2. urb[w] \in Urbs /\ urb[w] \notin inflight /\ cb[urb[w]] = "none"
      BY <3>1, WriteAssumption DEF Ownership, HasUrb, OwnUrb, OwnPc
    <3>3. Flights' = Flights \cup {urb[w]} /\ urb[w] \notin Flights
      BY <3>1, <3>2 DEF Flights
    <3>4. /\ Cardinality(Flights') = Cardinality(Flights) + 1
          /\ Cardinality(inflight') = Cardinality(inflight) + 1
      BY <3>1, <3>2, <3>3, FS_AddElement
    <3>5. /\ Cardinality(Permits') = Cardinality(Permits) - 1
          /\ Cardinality(Waiting') = Cardinality(Waiting) + 1
      BY <3>1, WriterMoves DEF PermitPc, Pc
    <3> QED
      BY <3>1, <3>4, <3>5
  <2>9. CASE WaitCompleted(w)
    <3>1. pc[w] = "wait" /\ Goto(w, "result") /\ done' = done - 1
          /\ UNCHANGED <<limitSem, inflight, cb, late>>
      BY <2>9 DEF WaitCompleted, urbVars
    <3>2. Permits' = Permits /\ Cardinality(Waiting') = Cardinality(Waiting) - 1
      BY <3>1, WriterMoves DEF PermitPc, Pc
    <3> QED
      BY <3>1, <3>2, <1>1
  <2>10. CASE ErrorExit(w)
    <3>1. /\ pc[w] \in {"error", "lateerror"} /\ Goto(w, "idle") /\ limitSem' = limitSem + 1
          /\ UNCHANGED <<inflight, cb, done>>
      BY <2>10 DEF ErrorExit, UppedLimit
    <3>2. Flights' = Flights /\ Waiting' = Waiting
      BY <3>1, <1>1, WriterMoves DEF Pc
    <3>3. CASE pc[w] = "error"
      <4>1. Cardinality(Permits') = Cardinality(Permits) - 1 /\ late' = late
        BY <2>10, <3>1, <3>3, WriterMoves DEF ErrorExit, PermitPc, Pc
      <4> QED
        BY <3>1, <3>2, <4>1
    <3>4. CASE pc[w] = "lateerror"
      <4>1. Permits' = Permits
        BY <3>1, <3>4, WriterMoves DEF PermitPc, Pc
      <4>2. late' = late \cup {urb[w]} /\ urb[w] \notin late
        BY <2>10, <3>4, WriteAssumption DEF ErrorExit, Ownership, HasUrb, OwnUrb
      <4>3. Cardinality(late') = Cardinality(late) + 1
        BY <4>2, FS_AddElement
      <4> QED
        BY <3>1, <3>2, <4>1, <4>3
    <3> QED
      BY <3>1, <3>3, <3>4
  <2> QED
    BY <1>3, <2>1, <2>3, <2>4, <2>5, <2>6, <2>7, <2>8, <2>9, <2>10 DEF WriterStep
<1>4. ASSUME NEW w \in Writers, StartWrite(w) \/ DownInterrupted(w) \/ WaitInterrupted(w)
      PROVE  /\ limitSem' + Cardinality(Permits') + Cardinality(Flights')
                  = WritesInFlight + Cardinality(late')
             /\ opens' = 0 => Cardinality(Waiting') <= done' + Cardinality(inflight')
  <2>1. PICK p \in Pc : /\ Goto(w, p) /\ pc[w] \notin PermitPc /\ p \notin PermitPc
                        /\ p # "wait"
    BY <1>4 DEF StartWrite, DownInterrupted, LimitUnavailable, WaitInterrupted, PermitPc, Pc
  <2>2. UNCHANGED <<limitSem, inflight, cb, late, done, opens>>
    BY <1>4 DEF StartWrite, DownInterrupted, LimitUnavailable, WaitInterrupted, urbVars,
       devVars, coreVars
  <2>3. /\ Permits' = Permits
        /\ Waiting' = Waiting \/ Cardinality(Waiting') = Cardinality(Waiting) - 1
    BY <2>1, WriterMoves
  <2> QED
    BY <2>2, <2>3, <1>1
<1>5. ASSUME NEW u \in Urbs, CallbackStep(u)
      PROVE  /\ limitSem' + Cardinality(Permits') + Cardinality(Flights')
                  = WritesInFlight + Cardinality(late')
             /\ opens' = 0 => Cardinality(Waiting') <= done' + Cardinality(inflight')
  <2>0. UNCHANGED <<pc, late, opens>>
    BY <1>5 DEF CallbackStep, CallbackStatus, CallbackRelease, CallbackComplete, coreVars
  <2>1. CASE CallbackStatus(u)
    <3>1. Flights' = Flights /\ UNCHANGED <<limitSem, inflight, done>>
      BY <2>1 DEF CallbackStatus, Flights, TypeOK
    <3> QED
      BY <2>0, <3>1, <1>2
  <2>2. CASE CallbackRelease(u)
    <3>1. /\ cb[u] = "release" /\ cb' = [cb EXCEPT ![u] = "complete"]
          /\ limitSem' = limitSem + 1 /\ UNCHANGED <<inflight, done>>
      BY <2>2 DEF CallbackRelease, UppedLimit
    <3>2. Flights' = Flights \ {u} /\ u \in Flights
      BY <3>1 DEF Flights, TypeOK, Ownership
    <3>3. Cardinality(Flights') = Cardinality(Flights) - 1
      BY <3>2, FS_RemoveElement
    <3> QED
      BY <2>0, <3>1, <3>3, <1>2
  <2>3. CASE CallbackComplete(u)
    <3>1. /\ cb[u] = "complete" /\ cb' = [cb EXCEPT ![u] = "none"]
          /\ done' = done + 1 /\ inflight' = inflight \ {u} /\ UNCHANGED limitSem
      BY <2>3 DEF CallbackComplete, Completed
    <3>2. Flights' = Flights /\ u \in inflight
      BY <3>1 DEF Flights, TypeOK, Ownership
    <3>3. Cardinality(inflight') = Cardinality(inflight) - 1
      BY <3>1, <3>2, FS_RemoveElement
    <3> QED
      BY <2>0, <3>1, <3>2, <3>3, <1>2
  <2> QED
    BY <1>5, <2>1, <2>2, <2>3 DEF CallbackStep
<1>6. CASE UNCHANGED <<pc, limitSem, urbVars>> /\ (UNCHANGED <<done, opens>> \/ opens' = opens + 1)
  BY <1>0, <1>1, <1>2, <1>6 DEF urbVars
<1> QED
  BY <1>3, <1>4, <1>5, <1>6 DEF Next, Reinitialise, PreReset, DisableEndpoints, CoreStep,
     DrawnDown, PostReset, DisconnectInterface, DisconnectKill, vars, devVars, coreVars

---------------------------------------------------------------------------
IInv == TypeOK /\ Ownership /\ Accounts

(* Who owns each URB and each permit, in every reachable state.            *)
THEOREM Safety == Spec => []IInv
<1>1. Init => IInv
  <2> SUFFICES ASSUME Init PROVE IInv
    OBVIOUS
  <2> USE WriteAssumption DEF Init
  <2>1. TypeOK
    <3>1. 0 \in 0..MaxResets /\ 0 \in 0..MaxOpens
      OBVIOUS
    <3> QED
      BY <3>1 DEF TypeOK, Pc, Error
  <2>2. Ownership
    BY DEF Ownership, HasUrb, OneWriter, OwnUrb, OwnPc, CoreUrb, CoreRefs
  <2>3. Permits = {} /\ Flights = {} /\ Waiting = {}
    BY DEF Permits, Flights, Waiting, PermitPc
  <2>4. Cardinality(Permits) = 0 /\ Cardinality(Flights) = 0 /\ Cardinality(Waiting) = 0
        /\ Cardinality(late) = 0 /\ Cardinality(inflight) = 0
    BY <2>3, FS_EmptySet
  <2>5. Accounts
    BY <2>4 DEF Accounts, SemaphoreAccounting, NoLostCompletion, Permits, Flights, Waiting
  <2> QED
    BY <2>1, <2>2, <2>5 DEF IInv
<1>2. IInv /\ [Next]_vars => IInv'
  BY TypeStep, OwnershipStep, AccountsStep DEF IInv, Ownership
<1> QED
  BY <1>1, <1>2, PTL DEF Spec

(* Every variable of the write path stays within its range.                *)
THEOREM TypeCorrect == Spec => []TypeOK
<1>1. IInv => TypeOK
  BY DEF IInv
<1> QED
  BY <1>1, Safety, PTL

(* The buffer of a URB the controller may read is live, and no buffer is   *)
(* freed twice, but by the error exit after a submission.                  *)
THEOREM BuffersOwned == Spec => []BufferOwnership
<1>1. IInv => BufferOwnership
  <2> SUFFICES ASSUME IInv, NEW u \in Urbs \ late
               PROVE  /\ buf[u] # "overfreed"
                      /\ u \in inflight /\ cb[u] # "complete" => buf[u] = "live"
                      /\ refs[u] >= 0
    BY DEF BufferOwnership
  <2>1. CASE Owned(u)
    <3>1. PICK w \in Writers : urb[w] = u /\ pc[w] \in OwnPc
      BY <2>1 DEF Owned
    <3>2. urb[w] # NoUrb /\ OwnUrb(w)
      BY <3>1, WriteAssumption DEF IInv, Ownership
    <3> QED
      BY <3>1, <3>2 DEF OwnUrb, OwnPc
  <2>2. CASE ~Owned(u)
    BY <2>2 DEF IInv, Ownership, CoreUrb, CoreRefs
  <2> QED
    BY <2>1, <2>2
<1> QED
  BY <1>1, Safety, PTL

(* A reference or a buffer still held has a holder.                        *)
THEOREM NobodyLeaks == Spec => []NothingLeaks
<1>1. IInv => NothingLeaks
  BY DEF IInv, Ownership, CoreUrb, CoreRefs, Owned, NothingLeaks
<1> QED
  BY <1>1, Safety, PTL

(* The permits add up; the error exit after a submission is all that       *)
(* unbalances them.                                                        *)
THEOREM PermitsAddUp == Spec => []SemaphoreAccounting
<1>1. IInv => SemaphoreAccounting
  BY DEF IInv, Accounts
<1> QED
  BY <1>1, Safety, PTL

(* Every waiting writer has a completion coming, unless there was an open. *)
THEOREM CompletionComes == Spec => []NoLostCompletion
<1>1. IInv => NoLostCompletion
  BY DEF IInv, Accounts
<1> QED
  BY <1>1, Safety, PTL
===========================================================================
