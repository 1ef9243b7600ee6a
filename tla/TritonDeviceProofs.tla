------------------------ MODULE TritonDeviceProofs ------------------------
(***************************************************************************)
(* Proofs about TritonDevice and the requests of PciexShm, for any finite  *)
(* set of files, any set of callers and any bounds.                        *)
(***************************************************************************)
EXTENDS TritonDevice, FiniteSetTheorems, TLAPS

(* The ladder of probe, step by step.                                      *)
LEMMA AcquiredPart == \A i \in 0..9 : Acquired(i) \subseteq Everything
BY DEF Acquired, Everything

LEMMA UndonePart == \A i \in 0..8 : Undone(i) \subseteq Everything \cup {"irq"}
<1>1. "cdev" \in Everything
  BY DEF Everything, Acquired, Ladder
<1> QED
  BY <1>1, AcquiredPart DEF Undone

(* What a probe that fails keeps, and what it gives back too much.         *)
LEMMA ProbeUndone ==
  \A i \in 0..8 : /\ Acquired(i) \ Undone(i) \subseteq {"cdev", "chrdev"}
                  /\ Undone(i) \ Acquired(i) \subseteq {"irq"}
                  /\ i = 2 => Acquired(i) \ Undone(i) = {}
<1> SUFFICES ASSUME NEW i \in 0..8
             PROVE  /\ Acquired(i) \ Undone(i) \subseteq {"cdev", "chrdev"}
                    /\ Undone(i) \ Acquired(i) \subseteq {"irq"}
                    /\ i = 2 => Acquired(i) \ Undone(i) = {}
  OBVIOUS
<1>1. CASE i < 6
  BY <1>1 DEF Undone, Acquired
<1>2. CASE i = 6
  BY <1>2 DEF Undone, Acquired
<1>3. CASE i = 7
  BY <1>3 DEF Undone, Acquired, Ladder
<1>4. CASE i = 8
  BY <1>4 DEF Undone, Acquired, Ladder
<1> QED
  BY <1>1, <1>2, <1>3, <1>4

(* The words of a request and its return code lie in the packet.           *)
LEMMA MessageShape ==
  \A k \in AllKinds : /\ ReturnWord(k) \in {3, 7}
                      /\ RequestWords(k) \subseteq Words /\ ReturnWord(k) \in Words
                      /\ RequestWords(k) = 0..(ReturnWord(k) - 1)
<1>1. \A k \in AllKinds : ReturnWord(k) \in {3, 7}
  BY DEF AllKinds, Message, ReturnWord, GetShmInfo, CreateShm, ReleaseShm, AttachShm,
         DetachShm, LockShm, UnlockShm
<1> QED
  BY <1>1 DEF RequestWords, Words

LEMMA NoneIsNoKind == "none" \notin AllKinds /\ "none" \notin CopiedBack
BY DEF AllKinds, Message, CopiedBack

---------------------------------------------------------------------------
(* Type correctness *)

DeviceTypeOK ==
  /\ held \subseteq Everything \cup {"irq"} /\ excess \subseteq Everything \cup {"irq"}
  /\ binding \in {"none", "bound", "ghost"}
  /\ queuesReady \in BOOLEAN /\ devOpen \in BOOLEAN
  /\ openCount \in 0..UintMax
  /\ at \in [Files -> Places] /\ seen \in [Files -> 0..UintMax]
  /\ private \in [Files -> BOOLEAN] /\ failed \in [Files -> BOOLEAN]
  /\ overlap \in BOOLEAN /\ stuck \in BOOLEAN /\ pulled \in BOOLEAN

(* Who is in a request has said which, and the peer works on one that has  *)
(* a type.                                                                 *)
Requested ==
  /\ \A c \in Callers : call[c] # "idle" => kind[c] \in Kinds
  /\ peer # NoRequest => peer.kind \in Kinds

LEMMA ShmTypeInit == ShmInit => ShmTypeOK
<1> SUFFICES ASSUME ShmInit PROVE ShmTypeOK
  OBVIOUS
<1>1. /\ call \in [Callers -> CallPc] /\ kind \in [Callers -> Kinds \cup {"none"}]
      /\ result \in [Callers -> SUBSET Authors]
  BY DEF ShmInit, CallPc
<1>2. /\ msgtype \in [kind : Kinds \cup {"none"}, by : Authors]
      /\ msgdata \in [Words -> Authors]
  BY DEF ShmInit, Authors
<1>3. NoRequest \in [kind : Kinds \cup {"none"}, from : SUBSET Authors, filled : BOOLEAN,
                     asked : BOOLEAN]
  <2>1. {} \in SUBSET Authors /\ "none" \in Kinds \cup {"none"} /\ FALSE \in BOOLEAN
    OBVIOUS
  <2> QED
    BY <2>1 DEF NoRequest
<1>4. peer \in [kind : Kinds \cup {"none"}, from : SUBSET Authors, filled : BOOLEAN,
                asked : BOOLEAN]
  BY <1>3 DEF ShmInit
<1>5. doorbell \subseteq {"request", "mailbox"} /\ answered \subseteq Callers /\ clash \in BOOLEAN
  BY DEF ShmInit
<1>6. requests \in 0..MaxRequests
  BY ShmAssumption DEF ShmInit
<1> QED
  BY <1>1, <1>2, <1>4, <1>5, <1>6 DEF ShmTypeOK

LEMMA RequestedStep == ShmTypeOK /\ Requested /\ ShmStep => Requested'
<1> SUFFICES ASSUME ShmTypeOK, Requested, ShmStep PROVE Requested'
  OBVIOUS
<1> USE ShmAssumption DEF ShmTypeOK, Requested, Steps
<1>1. ASSUME NEW c \in Callers, RequestStep(c) PROVE Requested'
  <2>1. CASE WriteType(c)
    BY <2>1 DEF WriteType
  <2>2. CASE WriteRequest(c)
    BY <2>2 DEF WriteRequest
  <2>3. CASE WriteReturnCode(c)
    BY <2>3 DEF WriteReturnCode
  <2>4. CASE IssueRequest(c)
    BY <2>4 DEF IssueRequest
  <2>5. CASE CopyBack(c)
    BY <2>5 DEF CopyBack
  <2>6. CASE ReturnResult(c)
    BY <2>6 DEF ReturnResult
  <2> QED
    BY <1>1, <2>1, <2>2, <2>3, <2>4, <2>5, <2>6 DEF RequestStep
<1>2. CASE PeerTakes
  <2>1. peer' # NoRequest => peer'.kind = msgtype.kind /\ msgtype.kind \in Kinds
    BY <1>2 DEF PeerTakes
  <2> QED
    BY <1>2, <2>1 DEF PeerTakes
<1>3. CASE PeerFills
  <2>1. peer # NoRequest
    BY <1>3, NoneIsNoKind DEF PeerFills, NoRequest
  <2>2. peer'.kind = peer.kind
    BY <1>3 DEF PeerFills
  <2> QED
    BY <1>3, <2>1, <2>2 DEF PeerFills
<1>4. CASE PeerAnswers
  BY <1>4 DEF PeerAnswers
<1> QED
  BY <1>1, <1>2, <1>3, <1>4 DEF ShmStep

LEMMA ShmTypeStep == ShmTypeOK /\ Requested /\ ShmStep => ShmTypeOK'
<1> SUFFICES ASSUME ShmTypeOK, Requested, ShmStep PROVE ShmTypeOK'
  OBVIOUS
<1> USE ShmAssumption DEF ShmTypeOK, Steps, CallPc, Authors
<1>1. \A words, who : who \in Authors => Written(words, who) \in [Words -> Authors]
  BY DEF Written
<1>2. \A k \in Kinds : RequestWords(k) \subseteq Words /\ ReturnWord(k) \in Words
  BY MessageShape
<1>3. ASSUME NEW c \in Callers, RequestStep(c) PROVE ShmTypeOK'
  <2>1. CASE WriteType(c)
    BY <2>1 DEF WriteType
  <2>2. CASE WriteRequest(c)
    BY <1>1, <2>2 DEF WriteRequest
  <2>3. CASE WriteReturnCode(c)
    BY <1>1, <2>3 DEF WriteReturnCode
  <2>4. CASE IssueRequest(c)
    BY <2>4 DEF IssueRequest
  <2>5. CASE CopyBack(c)
    <3>1. msgdata' \in [Words -> Authors]
      BY <1>1, <2>5 DEF CopyBack
    <3>2. {msgdata'[i] : i \in RequestWords(kind[c])} \subseteq Authors
      BY <1>2, <2>5, <3>1 DEF CopyBack, Requested
    <3> QED
      BY <2>5, <3>1, <3>2 DEF CopyBack
  <2>6. CASE ReturnResult(c)
    <3>1. msgdata[ReturnWord(kind[c])] \in Authors
      BY <1>2, <2>6 DEF ReturnResult, Requested
    <3>2. result[c] \cup {msgdata[ReturnWord(kind[c])]} \subseteq Authors
      BY <3>1
    <3> QED
      BY <2>6, <3>2 DEF ReturnResult
  <2> QED
    BY <1>3, <2>1, <2>2, <2>3, <2>4, <2>5, <2>6 DEF RequestStep
<1>4. CASE PeerTakes
  <2>1. peer' \in [kind : Kinds \cup {"none"}, from : SUBSET Authors, filled : BOOLEAN,
                   asked : BOOLEAN]
    <3>1. CASE msgtype.kind = "none"
      BY <1>4, <3>1 DEF PeerTakes
    <3>2. CASE msgtype.kind # "none"
      <4>1. {msgdata[i] : i \in RequestWords(msgtype.kind)} \subseteq Authors
        BY <1>2, <3>2
      <4>2. PICK words \in SUBSET Authors :
              words = {msgtype.by} \cup {msgdata[i] : i \in RequestWords(msgtype.kind)}
        BY <4>1
      <4>3. peer' = [kind |-> msgtype.kind, filled |-> FALSE,
                     asked |-> "request" \in doorbell, from |-> words]
        BY <1>4, <3>2, <4>2 DEF PeerTakes
      <4> QED
        BY <4>3
    <3> QED
      BY <3>1, <3>2
  <2> QED
    BY <1>4, <2>1 DEF PeerTakes
<1>5. CASE PeerFills
  <2>1. msgdata' \in [Words -> Authors]
    BY <1>1, <1>5 DEF PeerFills
  <2> QED
    BY <1>5, <2>1 DEF PeerFills
<1>6. CASE PeerAnswers
  <2>1. msgdata' \in [Words -> Authors]
    BY <1>1, <1>6 DEF PeerAnswers
  <2> QED
    BY <1>6, <2>1 DEF PeerAnswers, NoRequest
<1> QED
  BY <1>3, <1>4, <1>5, <1>6 DEF ShmStep

(* A call that begins. *)
LEMMA StartShmStep ==
  ASSUME NEW c \in Callers, NEW k \in Kinds, ShmTypeOK, Requested, StartRequest(c, k)
  PROVE  ShmTypeOK' /\ Requested'
BY ShmAssumption DEF ShmTypeOK, Requested, Steps, CallPc, StartRequest

(* A ring by the mailbox leaves all but the doorbell alone. *)
LEMMA RingStep == ShmTypeOK /\ Requested /\ MailboxRings => ShmTypeOK' /\ Requested'
BY DEF ShmTypeOK, Requested, MailboxRings

LEMMA DeviceTypeStep == TypeOK /\ [Next]_vars => DeviceTypeOK'
<1> SUFFICES ASSUME TypeOK, [Next]_vars PROVE DeviceTypeOK'
  OBVIOUS
<1>0. 0 \in 0..UintMax
  BY DeviceAssumption
<1> USE DeviceAssumption, <1>0 DEF TypeOK, DeviceTypeOK, Moves, Places
<1>1. CASE ProbeSucceeds
  BY <1>1 DEF ProbeSucceeds, InUse
<1>2. ASSUME NEW i \in 0..8, ProbeFails(i) PROVE DeviceTypeOK'
  <2>1. held' \subseteq Everything /\ excess' \subseteq Everything \cup {"irq"}
    BY <1>2, AcquiredPart, UndonePart DEF ProbeFails
  <2> QED
    BY <1>2, <2>1 DEF ProbeFails, InUse
<1>3. CASE Remove \/ Reload
  BY <1>3 DEF Remove, Reload, Given, InUse
<1>4. ASSUME NEW f \in Files, FileStep(f) PROVE DeviceTypeOK'
  <2>1. CASE StartOpen(f)
    BY <2>1 DEF StartOpen
  <2>2. CASE TestOpen(f)
    BY <2>2 DEF TestOpen
  <2>3. CASE RequestIrq(f)
    BY <2>3 DEF RequestIrq
  <2>4. CASE InitQueues(f)
    BY <2>4 DEF InitQueues
  <2>5. CASE MarkOpen(f)
    BY <2>5 DEF MarkOpen
  <2>6. CASE LoadCount(f)
    BY <2>6 DEF LoadCount
  <2>7. CASE StoreOpened(f)
    <3>1. (seen[f] + 1) % (UintMax + 1) \in 0..UintMax
      OBVIOUS
    <3> QED
      BY <2>7, <3>1 DEF StoreOpened
  <2>8. CASE StartRelease(f)
    BY <2>8 DEF StartRelease
  <2>9. CASE ReleaseLast(f)
    BY <2>9 DEF ReleaseLast
  <2>10. CASE ReleaseOther(f)
    BY <2>10 DEF ReleaseOther
  <2>11. CASE StoreReleased(f)
    <3>1. (seen[f] + UintMax) % (UintMax + 1) \in 0..UintMax
      OBVIOUS
    <3> QED
      BY <2>11, <3>1 DEF StoreReleased
  <2> QED
    BY <1>4, <2>1, <2>2, <2>3, <2>4, <2>5, <2>6, <2>7, <2>8, <2>9, <2>10, <2>11
    DEF FileStep
<1>5. CASE UNCHANGED deviceVars
  BY <1>5 DEF deviceVars
<1> QED
  BY <1>1, <1>2, <1>3, <1>4, <1>5 DEF Next, Ioctl, Mailbox, Shm, vars

(* The two halves of a step: the packet, or the device and not the packet. *)
LEMMA Halves ==
  [Next]_vars => \/ ShmStep
                 \/ \E c \in Callers, k \in Kinds : Ioctl(c, k)
                 \/ MailboxRings
                 \/ UNCHANGED shmVars
BY DEF Next, vars, ProbeSucceeds, ProbeFails, Remove, Reload, Mailbox, FileStep, StartOpen, TestOpen,
       RequestIrq, InitQueues, MarkOpen, LoadCount, StoreOpened, StartRelease,
       ReleaseLast, ReleaseOther, StoreReleased, Shm

LEMMA ShmStaysTyped ==
  TypeOK /\ Requested /\ [Next]_vars => ShmTypeOK' /\ Requested'
<1> SUFFICES ASSUME TypeOK, Requested, [Next]_vars PROVE ShmTypeOK' /\ Requested'
  OBVIOUS
<1>1. CASE ShmStep
  BY <1>1, ShmTypeStep, RequestedStep DEF TypeOK
<1>2. CASE \E c \in Callers, k \in Kinds : Ioctl(c, k)
  BY <1>2, StartShmStep DEF Ioctl, TypeOK
<1>3. CASE UNCHANGED shmVars
  BY <1>3 DEF shmVars, TypeOK, ShmTypeOK, Requested
<1>4. CASE MailboxRings
  BY <1>4, RingStep DEF TypeOK
<1> QED
  BY <1>1, <1>2, <1>3, <1>4, Halves

---------------------------------------------------------------------------
(* What an open file may rely on *)

(* A bound device has all that probe acquires. Unless something of a       *)
(* device that was removed in use is left over, one whose probe failed     *)
(* with 1 has nothing, a file is only open while the device is bound, and  *)
(* whoever has passed the first open's part, or could tell from the        *)
(* variables that it is passed, finds the queues initialised.              *)
Begun == {"opened", "load", "store", "open", "release", "unload", "unstore"}

Bindings ==
  /\ binding = "bound" => Everything \subseteq held
  /\ ~pulled =>
       /\ binding = "ghost" => held = {}
       /\ \A f \in Files : at[f] # "closed" => binding = "bound"
       /\ devOpen \/ openCount # 0 \/ (\E f \in Files : at[f] \in Begun) =>
            queuesReady

(* The file of the first open carries private_data, and has the interrupt  *)
(* unless it knows that its open has failed, or the device is gone. A call *)
(* runs through one.                                                       *)
Privates ==
  /\ \A f \in Files : private[f] => at[f] \in {"opened", "load", "store", "open"}
  /\ \A f \in Files : failed[f] => at[f] \in {"init", "opened", "load", "store"}
  /\ \A f \in Files :
       ~pulled /\ (at[f] = "init" \/ private[f]) /\ ~failed[f] => "irq" \in held
  /\ ~NoCalls => \E f \in Files : private[f] /\ IsOpen(f)

LEMMA BindingsStep == TypeOK /\ Bindings /\ [Next]_vars => Bindings'
<1> SUFFICES ASSUME TypeOK, Bindings, [Next]_vars PROVE Bindings'
  OBVIOUS
<1> USE DEF TypeOK, Bindings, Begun, Moves
<1>1. CASE ProbeSucceeds
  BY <1>1 DEF ProbeSucceeds, InUse
<1>2. ASSUME NEW i \in 0..8, ProbeFails(i) PROVE Bindings'
  BY <1>2, ProbeUndone DEF ProbeFails, InUse
<1>3. CASE Remove
  BY <1>3 DEF Remove, InUse
<1>6. CASE Reload
  BY <1>6 DEF Reload
<1>4. ASSUME NEW f \in Files, FileStep(f) PROVE Bindings'
  <2>1. CASE StartOpen(f)
    BY <2>1 DEF StartOpen
  <2>2. CASE TestOpen(f)
    BY <2>2 DEF TestOpen
  <2>3. CASE RequestIrq(f)
    BY <2>3 DEF RequestIrq
  <2>4. CASE InitQueues(f) \/ MarkOpen(f)
    BY <2>4 DEF InitQueues, MarkOpen
  <2>5. CASE LoadCount(f) \/ StoreOpened(f)
    BY <2>5 DEF LoadCount, StoreOpened
  <2>6. CASE StartRelease(f) \/ ReleaseLast(f) \/ ReleaseOther(f) \/ StoreReleased(f)
    BY <2>6 DEF StartRelease, ReleaseLast, ReleaseOther, StoreReleased
  <2> QED
    BY <1>4, <2>1, <2>2, <2>3, <2>4, <2>5, <2>6 DEF FileStep
<1>5. CASE UNCHANGED deviceVars
  BY <1>5 DEF deviceVars
<1> QED
  BY <1>1, <1>2, <1>3, <1>4, <1>5, <1>6 DEF Next, Ioctl, Mailbox, Shm, vars

LEMMA PrivatesStep == TypeOK /\ Bindings /\ Privates /\ [Next]_vars => Privates'
<1> SUFFICES ASSUME TypeOK, Bindings, Privates, [Next]_vars PROVE Privates'
  OBVIOUS
<1> USE DEF TypeOK, Bindings, Privates, Moves, IsOpen
<1>0. UNCHANGED shmVars => (NoCalls' <=> NoCalls)
  BY DEF shmVars, NoCalls
<1>1. CASE ProbeSucceeds
  BY <1>0, <1>1 DEF ProbeSucceeds, InUse
<1>2. ASSUME NEW i \in 0..8, ProbeFails(i) PROVE Privates'
  BY <1>0, <1>2 DEF ProbeFails, InUse
<1>3. CASE Remove \/ Reload
  BY <1>0, <1>3 DEF Remove, Reload, InUse
<1>4. ASSUME NEW f \in Files, FileStep(f) PROVE Privates'
  <2>1. CASE StartOpen(f)
    BY <1>0, <2>1 DEF StartOpen
  <2>2. CASE TestOpen(f)
    BY <1>0, <2>2 DEF TestOpen
  <2>3. CASE RequestIrq(f)
    BY <1>0, <2>3 DEF RequestIrq
  <2>4. CASE InitQueues(f)
    BY <1>0, <2>4 DEF InitQueues
  <2>5. CASE MarkOpen(f)
    BY <1>0, <2>5 DEF MarkOpen
  <2>6. CASE LoadCount(f)
    BY <1>0, <2>6 DEF LoadCount
  <2>7. CASE StoreOpened(f)
    BY <1>0, <2>7 DEF StoreOpened
  <2>8. CASE StartRelease(f)
    BY <1>0, <2>8 DEF StartRelease
  <2>9. CASE ReleaseLast(f) \/ ReleaseOther(f) \/ StoreReleased(f)
    BY <1>0, <2>9 DEF ReleaseLast, ReleaseOther, StoreReleased
  <2> QED
    BY <1>4, <2>1, <2>2, <2>3, <2>4, <2>5, <2>6, <2>7, <2>8, <2>9 DEF FileStep
<1>5. ASSUME NEW c \in Callers, NEW k \in Kinds, Ioctl(c, k) PROVE Privates'
  BY <1>5 DEF Ioctl, deviceVars
<1>6. CASE Shm
  <2>1. NoCalls => NoCalls'
    BY <1>6, ShmAssumption
    DEF Shm, ShmStep, RequestStep, NoCalls, Steps, WriteType, WriteRequest,
        WriteReturnCode, IssueRequest, CopyBack, ReturnResult, PeerTakes, PeerFills,
        PeerAnswers
  <2> QED
    BY <1>6, <2>1 DEF Shm, deviceVars
<1>8. CASE Mailbox
  BY <1>8 DEF Mailbox, MailboxRings, NoCalls, deviceVars
<1>7. CASE UNCHANGED vars
  BY <1>0, <1>7 DEF vars, deviceVars
<1> QED
  BY <1>1, <1>2, <1>3, <1>4, <1>5, <1>6, <1>7, <1>8 DEF Next

LEMMA GivenStep == TypeOK /\ Bindings /\ GivenBack /\ [Next]_vars => GivenBack'
<1> SUFFICES ASSUME TypeOK, Bindings, GivenBack, [Next]_vars PROVE GivenBack'
  OBVIOUS
<1> USE DEF TypeOK, Bindings, GivenBack, Moves
<1>1. CASE ProbeSucceeds
  BY <1>1 DEF ProbeSucceeds
<1>2. ASSUME NEW i \in 0..8, ProbeFails(i) PROVE GivenBack'
  BY <1>2, ProbeUndone DEF ProbeFails
<1>3. CASE Remove \/ Reload
  BY <1>3 DEF Remove, Reload, Given
<1>4. ASSUME NEW f \in Files, FileStep(f) PROVE GivenBack'
  BY <1>4 DEF FileStep, StartOpen, TestOpen, RequestIrq, InitQueues, MarkOpen,
     LoadCount, StoreOpened, StartRelease, ReleaseLast, ReleaseOther, StoreReleased
<1>5. CASE UNCHANGED deviceVars
  BY <1>5 DEF deviceVars
<1> QED
  BY <1>1, <1>2, <1>3, <1>4, <1>5 DEF Next, Ioctl, Mailbox, Shm, vars

---------------------------------------------------------------------------
(* The open count *)

OpenFiles == {f \in Files : IsOpen(f)}
Count == Cardinality(OpenFiles) + (IF stuck THEN 1 ELSE 0)

(* Where the count stands while the file f alone is in open or release.    *)
CountAt(f) ==
  /\ at[f] \in {"closed", "open", "test"} => openCount = Count
  /\ at[f] \in {"closed", "open", "test"} => (devOpen <=> openCount > 0)
  /\ at[f] \in {"test", "request", "init", "opened", "load", "store"} => openCount < MaxCount
  /\ at[f] \in {"request", "init", "opened"} => openCount = 0 /\ Count = 0 /\ ~devOpen
  /\ at[f] \in {"load", "store"} => openCount = Count /\ devOpen
  /\ failed[f] => openCount = 0 /\ Count = 0
  /\ at[f] \in {"store", "unstore"} => seen[f] = openCount
  /\ at[f] \in {"release", "unload", "unstore"} => openCount = Count + 1 /\ devOpen
  /\ at[f] \in {"unload", "unstore"} => openCount > 1

Resting(f) == at[f] \in {"closed", "open"}

Counting ==
  ~overlap =>
    /\ \A f, g \in Files : ~Resting(f) /\ ~Resting(g) => f = g
    /\ \A f \in Files : (\A g \in Files \ {f} : Resting(g)) => CountAt(f)
    /\ Settled => openCount = Count /\ (devOpen <=> openCount > 0)

LEMMA CountType == IsFiniteSet(OpenFiles) /\ Cardinality(OpenFiles) \in Nat /\ Count \in Nat
<1>1. IsFiniteSet(OpenFiles)
  BY DeviceAssumption, FS_Subset DEF OpenFiles
<1> QED
  BY <1>1, FS_CardinalityType DEF Count

(* The count of open files changes by one when a file becomes open or is   *)
(* no longer open, and not otherwise.                                      *)
LEMMA FileOpened ==
  ASSUME TypeOK, NEW f \in Files, ~IsOpen(f), at' = [at EXCEPT ![f] = "open"]
  PROVE  Cardinality(OpenFiles') = Cardinality(OpenFiles) + 1
<1>1. OpenFiles' = OpenFiles \cup {f} /\ f \notin OpenFiles
  BY DEF TypeOK, OpenFiles, IsOpen
<1> QED
  BY <1>1, CountType, FS_AddElement

LEMMA FileReleased ==
  ASSUME TypeOK, NEW f \in Files, IsOpen(f), NEW p, p # "open",
         at' = [at EXCEPT ![f] = p]
  PROVE  Cardinality(OpenFiles') = Cardinality(OpenFiles) - 1
<1>1. OpenFiles' = OpenFiles \ {f} /\ f \in OpenFiles
  BY DEF TypeOK, OpenFiles, IsOpen
<1> QED
  BY <1>1, CountType, FS_RemoveElement

LEMMA FileMoved ==
  ASSUME TypeOK, NEW f \in Files, ~IsOpen(f), NEW p, p # "open",
         at' = [at EXCEPT ![f] = p]
  PROVE  Cardinality(OpenFiles') = Cardinality(OpenFiles)
<1>1. OpenFiles' = OpenFiles
  BY DEF TypeOK, OpenFiles, IsOpen
<1> QED
  BY <1>1

(* Only f moves, and everything is right as far as f is concerned: then it *)
(* is right for every file.                                                *)
LEMMA OneMoves ==
  ASSUME TypeOK, NEW f \in Files, NEW p, at' = [at EXCEPT ![f] = p], Privates',
         \A g \in Files \ {f} : Resting(g), CountAt(f)'
  PROVE  Counting'
<1>1. \A g \in Files \ {f} : Resting(g)'
  BY DEF TypeOK, Resting
<1>2. Resting(f)' => openCount' = Count' /\ (devOpen' <=> openCount' > 0)
  BY DEF CountAt, Resting
<1>3. ASSUME NEW g \in Files \ {f}, Resting(f)' PROVE CountAt(g)'
  BY <1>1, <1>2, <1>3 DEF Privates, CountAt, Resting
<1> QED
  BY <1>1, <1>2, <1>3 DEF Counting, Settled, Resting

(* The count after a step of f that leaves the files open that were.       *)
LEMMA CountKept ==
  ASSUME TypeOK, NEW f \in Files, ~IsOpen(f), NEW p, p # "open",
         at' = [at EXCEPT ![f] = p], UNCHANGED stuck
  PROVE  Count' = Count
BY FileMoved DEF Count

LEMMA FileCounted ==
  ASSUME TypeOK, TypeOK', Privates, Privates', Counting,
         NEW f \in Files, FileStep(f)
  PROVE  Counting'
<1> SUFFICES ASSUME ~overlap' PROVE Counting'
  BY DEF Counting
<1>0. UintMax \in Nat /\ MaxCount \in Nat /\ MaxCount <= UintMax
  BY DeviceAssumption, FS_CardinalityType
<1> USE DeviceAssumption, CountType, <1>0 DEF Moves
<1>1. CASE StartOpen(f)
  <2>1. ~overlap /\ Settled
    BY <1>1 DEF StartOpen
  <2>2. CountAt(f) /\ \A g \in Files : Resting(g)
    BY <2>1 DEF Counting, Settled, Resting
  <2>3. Count' = Count
    BY <1>1, CountKept DEF StartOpen, IsOpen
  <2>4. CountAt(f)'
    BY <1>1, <2>2, <2>3 DEF StartOpen, CountAt, TypeOK, Privates
  <2> QED
    BY <1>1, <2>2, <2>4, OneMoves DEF StartOpen
<1>2. CASE StartRelease(f)
  <2>1. ~overlap /\ Settled
    BY <1>2 DEF StartRelease
  <2>2. CountAt(f) /\ \A g \in Files : Resting(g)
    BY <2>1 DEF Counting, Settled, Resting
  <2>3. Count = Count' + 1
    <3>1. at' = [at EXCEPT ![f] = "release"] /\ IsOpen(f) /\ stuck' = stuck
      BY <1>2 DEF StartRelease, IsOpen
    <3>2. Cardinality(OpenFiles') = Cardinality(OpenFiles) - 1
      BY <3>1, FileReleased
    <3> QED
      BY <3>1, <3>2 DEF Count
  <2>4. Count' \in Nat
    <3>1. IsFiniteSet(OpenFiles')
      BY FS_Subset DEF OpenFiles
    <3> QED
      BY <3>1, FS_CardinalityType DEF Count
  <2>5. CountAt(f)'
    <3>1. openCount = Count
      BY <1>2, <2>2 DEF StartRelease, CountAt
    <3>2. (devOpen <=> openCount > 0) /\ ~failed[f]
      BY <1>2, <2>2 DEF StartRelease, CountAt, Privates
    <3>3. at'[f] = "release" /\ UNCHANGED <<devOpen, failed>> /\ openCount' = openCount
      BY <1>2 DEF StartRelease, TypeOK
    <3>4. openCount = Count' + 1
      BY <2>3, <3>1
    <3>5. openCount > 0
      <4>1. openCount \in Nat
        BY DEF TypeOK
      <4>2. PICK n \in Nat : n = Count'
        BY <2>4, Zenon
      <4>3. openCount = n + 1
        BY <3>4, <4>2, Zenon
      <4> QED
        BY <4>1, <4>3
    <3>6. openCount' = Count' + 1
      BY <3>3, <3>4
    <3>7. devOpen'
      BY <3>2, <3>3, <3>5, Zenon
    <3> QED
      BY <3>2, <3>3, <3>6, <3>7 DEF CountAt
  <2> QED
    BY <1>2, <2>2, <2>5, OneMoves DEF StartRelease
<1>3. ASSUME ~StartOpen(f), ~StartRelease(f) PROVE Counting'
  <2>1. ~overlap /\ ~Resting(f)
    BY <1>3 DEF FileStep, TestOpen, RequestIrq, InitQueues, MarkOpen, LoadCount,
       StoreOpened, ReleaseLast, ReleaseOther, StoreReleased, Resting
  <2>2. CountAt(f) /\ \A g \in Files \ {f} : Resting(g)
    BY <2>1 DEF Counting
  <2>3. ~IsOpen(f)
    BY <2>1 DEF IsOpen, Resting
  <2> USE DEF TypeOK, CountAt, Privates
  <2>4. CASE TestOpen(f)
    <3>1. Count' = Count
      BY <2>3, <2>4, CountKept DEF TestOpen
    <3>2. CountAt(f)'
      BY <2>2, <2>4, <3>1 DEF TestOpen
    <3> QED
      BY <2>2, <2>4, <3>2, OneMoves DEF TestOpen
  <2>5. CASE RequestIrq(f)
    <3>1. Count' = Count
      BY <2>3, <2>5, CountKept DEF RequestIrq
    <3>2. CountAt(f)'
      BY <2>2, <2>5, <3>1 DEF RequestIrq
    <3> QED
      BY <2>2, <2>5, <3>2, OneMoves DEF RequestIrq
  <2>6. CASE InitQueues(f)
    <3>1. Count' = Count
      BY <2>3, <2>6, CountKept DEF InitQueues
    <3>2. CountAt(f)'
      BY <2>2, <2>6, <3>1 DEF InitQueues
    <3> QED
      BY <2>2, <2>6, <3>2, OneMoves DEF InitQueues
  <2>7. CASE MarkOpen(f)
    <3>1. Count' = Count
      BY <2>3, <2>7, CountKept DEF MarkOpen
    <3>2. CountAt(f)'
      BY <2>2, <2>7, <3>1 DEF MarkOpen
    <3> QED
      BY <2>2, <2>7, <3>2, OneMoves DEF MarkOpen
  <2>8. CASE LoadCount(f)
    <3>1. Count' = Count
      BY <2>3, <2>8, CountKept DEF LoadCount
    <3>2. CountAt(f)'
      BY <2>2, <2>8, <3>1 DEF LoadCount
    <3> QED
      BY <2>2, <2>8, <3>2, OneMoves DEF LoadCount
  <2>9. CASE StoreOpened(f)
    <3>1. openCount' = openCount + 1
      <4>1. /\ seen[f] = openCount /\ openCount \in 0..(UintMax - 1)
            /\ openCount' = (seen[f] + 1) % (UintMax + 1)
        BY <2>2, <2>9 DEF StoreOpened
      <4> QED
        BY <4>1
    <3>2. Count' = Count + 1
      <4>1. CASE failed[f]
        <5>1. Cardinality(OpenFiles') = Cardinality(OpenFiles)
          BY <2>3, <2>9, <4>1, FileMoved DEF StoreOpened
        <5>2. ~stuck /\ stuck'
          BY <2>2, <2>9, <4>1 DEF StoreOpened, Count
        <5> QED
          BY <5>1, <5>2 DEF Count
      <4>2. CASE ~failed[f]
        <5>1. Cardinality(OpenFiles') = Cardinality(OpenFiles) + 1
          BY <2>3, <2>9, <4>2, FileOpened DEF StoreOpened
        <5>2. stuck' = stuck
          BY <2>9, <4>2 DEF StoreOpened
        <5> QED
          BY <5>1, <5>2 DEF Count
      <4> QED
        BY <4>1, <4>2
    <3>3. CountAt(f)'
      BY <2>2, <2>9, <3>1, <3>2 DEF StoreOpened
    <3> QED
      BY <2>2, <2>9, <3>3, OneMoves DEF StoreOpened
  <2>10. CASE ReleaseLast(f)
    <3>1. Count' = Count
      BY <2>3, <2>10, CountKept DEF ReleaseLast
    <3>2. CountAt(f)'
      BY <2>2, <2>10, <3>1 DEF ReleaseLast
    <3> QED
      BY <2>2, <2>10, <3>2, OneMoves DEF ReleaseLast
  <2>11. CASE ReleaseOther(f)
    <3>1. devOpen /\ openCount > 1 /\ at' = [at EXCEPT ![f] = "unload"]
      BY <2>2, <2>11 DEF ReleaseOther
    <3>2. Count' = Count
      BY <2>3, <2>11, <3>1, CountKept DEF ReleaseOther
    <3>3. CountAt(f)'
      BY <2>2, <2>11, <3>1, <3>2 DEF ReleaseOther
    <3> QED
      BY <2>2, <3>1, <3>3, OneMoves
  <2>12. CASE StoreReleased(f)
    <3>1. Count' = Count
      BY <2>3, <2>12, CountKept DEF StoreReleased
    <3>2. openCount' = openCount - 1
      <4>1. /\ seen[f] = openCount /\ openCount \in 1..UintMax
            /\ openCount' = (seen[f] + UintMax) % (UintMax + 1)
        BY <2>2, <2>12 DEF StoreReleased
      <4> QED
        BY <4>1
    <3>3. CountAt(f)'
      BY <2>2, <2>12, <3>1, <3>2 DEF StoreReleased
    <3> QED
      BY <2>2, <2>12, <3>3, OneMoves DEF StoreReleased
  <2> QED
    BY <1>3, <2>4, <2>5, <2>6, <2>7, <2>8, <2>9, <2>10, <2>11, <2>12 DEF FileStep
<1> QED
  BY <1>1, <1>2, <1>3

LEMMA CountingStep ==
  ASSUME TypeOK, TypeOK', Bindings, Privates, Privates', Counting, [Next]_vars
  PROVE  Counting'
<1>0. ASSUME UNCHANGED <<openCount, devOpen, at, seen, failed, overlap, stuck>>
      PROVE  Counting'
  BY <1>0 DEF Counting, CountAt, Count, OpenFiles, IsOpen, Resting, Settled
<1>1. CASE ProbeSucceeds \/ \E i \in 0..8 : ProbeFails(i)
  BY <1>0, <1>1 DEF ProbeSucceeds, ProbeFails
<1>5. CASE Remove
  BY <1>0, <1>5 DEF Remove
<1>2. CASE Reload
  <2>1. OpenFiles' = {} /\ ~stuck'
    BY <1>2 DEF Reload, OpenFiles, IsOpen
  <2>2. Count' = 0
    BY <2>1, FS_EmptySet DEF Count
  <2>3. openCount' = 0 /\ ~devOpen' /\ \A f \in Files : at'[f] = "closed" /\ ~failed'[f]
    BY <1>2 DEF Reload, Privates
  <2> QED
    BY <2>2, <2>3 DEF Counting, CountAt, Settled, Resting
<1>3. CASE \E f \in Files : FileStep(f)
  BY <1>3, FileCounted
<1>4. CASE UNCHANGED deviceVars
  BY <1>0, <1>4 DEF deviceVars
<1> QED
  BY <1>1, <1>2, <1>3, <1>4, <1>5 DEF Next, Ioctl, Mailbox, Shm, vars

---------------------------------------------------------------------------
(* The packet *)

(* The packet holds the request of c, the last one that was begun, and     *)
(* what the peer wrote into it; the peer works on it, or has nothing to do.*)
Busy(c) ==
  /\ kind[c] \in Kinds
  /\ \A d \in Callers \ {c} : call[d] = "idle"
  /\ call[c] \in {"type", "request", "clear", "ring"} => doorbell = {} /\ peer = NoRequest
  /\ call[c] # "type" => msgtype = [kind |-> kind[c], by |-> c]
  /\ call[c] \in {"clear", "ring"} \/ "request" \in doorbell =>
       \A i \in RequestWords(kind[c]) : msgdata[i] = c
  /\ call[c] = "ring" \/ "request" \in doorbell => msgdata[ReturnWord(kind[c])] = c
  /\ "request" \in doorbell => peer = NoRequest
  /\ peer # NoRequest =>
       /\ peer.kind = kind[c] /\ c \in peer.from /\ peer.from \subseteq {c, Peer}
       /\ peer.asked => peer.from = {c}
  /\ call[c] \in {"copy", "return", "idle"} =>
       \A i \in RequestWords(kind[c]) \cup {ReturnWord(kind[c])} :
         /\ msgdata[i] \in {c, Peer}
         /\ msgdata[i] = Peer => c \in answered

(* Before the first request only the mailbox rings, and for nothing.       *)
Fresh ==
  NoCalls /\ peer = NoRequest /\ msgtype.kind = "none" /\ "request" \notin doorbell

Packet == ~clash => ReadBackOwn /\ (Fresh \/ \E c \in Callers : Busy(c))

LEMMA PacketMatched == Packet => RequestsMatched
BY DEF Packet, RequestsMatched, TakenWhole, Fresh, Busy

(* A request that begins in a quiet packet has it to itself; any other is  *)
(* a clash.                                                                *)
LEMMA StartPacket ==
  ASSUME NEW c \in Callers, NEW k \in Kinds, ShmTypeOK, Packet, StartRequest(c, k)
  PROVE  Packet'
<1> SUFFICES ASSUME ~clash' PROVE ReadBackOwn' /\ Busy(c)'
  BY DEF Packet
<1> USE DEF ShmTypeOK, StartRequest, Steps
<1>1. ~clash /\ Quiet
  OBVIOUS
<1>2. ReadBackOwn'
  BY <1>1 DEF Packet, ReadBackOwn
<1>3. Busy(c)'
  BY <1>1 DEF Busy, Quiet, NoCalls
<1> QED
  BY <1>2, <1>3

LEMMA PacketStep ==
  ASSUME ShmTypeOK, Requested, Packet, ShmStep
  PROVE  Packet'
<1> SUFFICES ASSUME ~clash' PROVE Packet'
  BY DEF Packet
<1> USE ShmAssumption DEF ShmTypeOK
<1>0. ~clash
  BY DEF ShmStep, RequestStep, WriteType, WriteRequest, WriteReturnCode, IssueRequest,
     CopyBack, ReturnResult, PeerTakes, PeerFills, PeerAnswers
<1>3. ReadBackOwn
  BY <1>0 DEF Packet
<1>1. CASE Fresh
  <2>1. PeerTakes
    <3>1. ASSUME NEW d \in Callers PROVE ~RequestStep(d)
      BY <1>1 DEF Fresh, NoCalls, RequestStep, WriteType, WriteRequest, WriteReturnCode,
         IssueRequest, CopyBack, ReturnResult, Steps
    <3>2. ~PeerFills /\ ~PeerAnswers
      BY <1>1, NoneIsNoKind DEF Fresh, PeerFills, PeerAnswers, NoRequest
    <3> QED
      BY <3>1, <3>2 DEF ShmStep
  <2> QED
    BY <1>1, <1>3, <2>1 DEF PeerTakes, Fresh, NoCalls, Packet, ReadBackOwn
<1> SUFFICES ASSUME ~Fresh PROVE Packet'
  BY <1>1
<1>2. PICK c \in Callers : Busy(c)
  BY <1>0 DEF Packet
<1>4. /\ RequestWords(kind[c]) \subseteq Words /\ ReturnWord(kind[c]) \in Words
      /\ ReturnWord(kind[c]) \notin RequestWords(kind[c])
  BY <1>2, MessageShape DEF Busy, Words
<1>5. \A words, who, i : i \in Words =>
        Written(words, who)[i] = IF i \in words THEN who ELSE msgdata[i]
  BY DEF Written
<1> SUFFICES ReadBackOwn' /\ Busy(c)'
  BY DEF Packet
<1>6. ASSUME NEW d \in Callers, RequestStep(d) PROVE ReadBackOwn' /\ Busy(c)'
  <2>0. d = c
    BY <1>2, <1>6 DEF Busy, RequestStep, WriteType, WriteRequest, WriteReturnCode,
       IssueRequest, CopyBack, ReturnResult, Steps
  <2> USE DEF Steps
  <2>1. CASE WriteType(c)
    BY <1>2, <1>3, <2>1 DEF WriteType, Busy, ReadBackOwn
  <2>2. CASE WriteRequest(c)
    BY <1>2, <1>3, <1>4, <1>5, <2>2 DEF WriteRequest, Busy, ReadBackOwn
  <2>3. CASE WriteReturnCode(c)
    BY <1>2, <1>3, <1>4, <1>5, <2>3 DEF WriteReturnCode, Busy, ReadBackOwn
  <2>4. CASE IssueRequest(c)
    BY <1>2, <1>3, <1>4, <2>4 DEF IssueRequest, Busy, ReadBackOwn
  <2>5. CASE CopyBack(c)
    <3>1. Busy(c)'
      BY <1>2, <1>4, <1>5, <2>5 DEF CopyBack, Busy
    <3>2. \A i \in RequestWords(kind[c]) :
            msgdata'[i] \in {c, Peer} /\ (msgdata'[i] = Peer => c \in answered)
      BY <3>1, <2>5 DEF CopyBack, Busy
    <3>3. ReadBackOwn'
      BY <1>3, <2>5, <3>2 DEF CopyBack, ReadBackOwn
    <3> QED
      BY <3>1, <3>3
  <2>6. CASE ReturnResult(c)
    BY <1>2, <1>3, <1>4, <2>6 DEF ReturnResult, Busy, ReadBackOwn
  <2> QED
    BY <1>6, <2>0, <2>1, <2>2, <2>3, <2>4, <2>5, <2>6 DEF RequestStep
<1>7. CASE PeerTakes
  <2>1. call[c] \in {"copy", "return", "idle"} /\ msgtype = [kind |-> kind[c], by |-> c]
    BY <1>2, <1>7 DEF Busy, PeerTakes, CallPc
  <2>2. kind[c] # "none"
    BY <1>2, NoneIsNoKind DEF Busy
  <2>3. peer' = [kind |-> kind[c], filled |-> FALSE, asked |-> "request" \in doorbell,
                 from |-> {c} \cup {msgdata[i] : i \in RequestWords(kind[c])}]
    BY <1>7, <2>1, <2>2 DEF PeerTakes
  <2>4. {msgdata[i] : i \in RequestWords(kind[c])} \subseteq {c, Peer}
    BY <1>2, <2>1 DEF Busy
  <2>5. "request" \in doorbell => {msgdata[i] : i \in RequestWords(kind[c])} \subseteq {c}
    BY <1>2 DEF Busy
  <2>6. /\ peer'.kind = kind[c] /\ c \in peer'.from /\ peer'.from \subseteq {c, Peer}
        /\ peer'.asked => peer'.from = {c}
    BY <2>3, <2>4, <2>5
  <2>7. Busy(c)'
    BY <1>2, <1>7, <2>1, <2>6 DEF PeerTakes, Busy
  <2>8. ReadBackOwn'
    BY <1>3, <1>7 DEF PeerTakes, ReadBackOwn
  <2> QED
    BY <2>7, <2>8
<1>8. CASE PeerFills
  <2>1. peer # NoRequest
    BY <1>8, NoneIsNoKind DEF PeerFills, NoRequest
  <2>2. /\ peer.kind = kind[c] /\ c \in peer.from /\ peer.from \subseteq {c, Peer}
        /\ peer.asked => peer.from = {c}
        /\ "request" \notin doorbell
    BY <1>2, <2>1 DEF Busy
  <2>3. call[c] \in {"idle", "copy", "return"}
    BY <1>2, <2>1 DEF Busy, CallPc
  <2>4. /\ answered' = answered \cup {c} /\ msgdata' = Written(RequestWords(kind[c]), Peer)
        /\ peer'.kind = kind[c] /\ peer'.from = peer.from /\ peer'.asked = peer.asked
    BY <1>8, <2>2 DEF PeerFills
  <2>5. Busy(c)'
    BY <1>2, <1>4, <1>5, <1>8, <2>2, <2>3, <2>4 DEF PeerFills, Busy
  <2>6. ReadBackOwn'
    BY <1>3, <1>8, <2>4 DEF PeerFills, ReadBackOwn
  <2> QED
    BY <2>5, <2>6
<1>9. CASE PeerAnswers
  BY <1>2, <1>3, <1>4, <1>5, <1>9 DEF PeerAnswers, Busy, ReadBackOwn
<1> QED
  BY <1>6, <1>7, <1>8, <1>9 DEF ShmStep

(* The mailbox's ring while no request is written leaves the packet to its *)
(* caller; any other is a clash.                                           *)
LEMMA RingPacket ==
  ASSUME ShmTypeOK, Packet, MailboxRings
  PROVE  Packet'
<1> SUFFICES ASSUME ~clash' PROVE Packet'
  BY DEF Packet
<1> USE DEF ShmTypeOK, MailboxRings
<1>1. ~clash /\ Writing = {}
  OBVIOUS
<1>2. ReadBackOwn'
  BY <1>1 DEF Packet, ReadBackOwn
<1>3. CASE Fresh
  BY <1>2, <1>3 DEF Packet, Fresh, NoCalls
<1>4. ASSUME NEW c \in Callers, Busy(c) PROVE Packet'
  <2>1. call[c] \notin {"type", "request", "clear", "ring"}
    BY <1>1 DEF Writing
  <2>2. Busy(c)'
    BY <1>4, <2>1 DEF Busy
  <2> QED
    BY <1>2, <2>2 DEF Packet
<1> QED
  BY <1>1, <1>3, <1>4 DEF Packet

---------------------------------------------------------------------------
IInv ==
  /\ TypeOK /\ Requested
  /\ Bindings /\ Privates /\ GivenBack
  /\ Counting /\ Packet

(* What holds of the device, its files and the packet in every reachable   *)
(* state.                                                                  *)
THEOREM Safety == Spec => []IInv
<1>1. Init => IInv
  <2> SUFFICES ASSUME Init PROVE IInv
    OBVIOUS
  <2> USE ShmAssumption, DeviceAssumption DEF Init, Unopened, ShmInit
  <2>1. ShmTypeOK
    BY ShmTypeInit
  <2>2. 0 \in 0..UintMax
    OBVIOUS
  <2>3. TypeOK
    BY <2>1, <2>2 DEF TypeOK, Places
  <2>4. Requested
    BY DEF Requested
  <2>5. Bindings /\ Privates /\ GivenBack
    BY DEF Bindings, Begun, Privates, GivenBack, NoCalls
  <2>6. Counting
    <3>1. OpenFiles = {}
      BY DEF OpenFiles, IsOpen
    <3>2. Count = 0
      BY <3>1, FS_EmptySet DEF Count
    <3> QED
      BY <3>2 DEF Counting, CountAt, Settled, Resting
  <2>7. Packet
    BY DEF Packet, ReadBackOwn, Fresh, NoCalls
  <2> QED
    BY <2>3, <2>4, <2>5, <2>6, <2>7 DEF IInv
<1>2. IInv /\ [Next]_vars => IInv'
  <2> SUFFICES ASSUME IInv, [Next]_vars PROVE IInv'
    OBVIOUS
  <2> USE DEF IInv
  <2>1. TypeOK' /\ Requested'
    BY DeviceTypeStep, ShmStaysTyped DEF TypeOK, DeviceTypeOK
  <2>2. Bindings' /\ Privates' /\ GivenBack'
    BY BindingsStep, PrivatesStep, GivenStep
  <2>3. Counting'
    BY <2>1, <2>2, CountingStep
  <2>4. Packet'
    <3>1. CASE ShmStep
      BY <3>1, PacketStep DEF TypeOK
    <3>2. CASE \E c \in Callers, k \in Kinds : Ioctl(c, k)
      BY <3>2, StartPacket DEF Ioctl, TypeOK
    <3>3. CASE UNCHANGED shmVars
      BY <3>3 DEF shmVars, Packet, ReadBackOwn, Fresh, NoCalls, Busy
    <3>4. CASE MailboxRings
      BY <3>4, RingPacket DEF TypeOK
    <3> QED
      BY <3>1, <3>2, <3>3, <3>4, Halves
  <2> QED
    BY <2>1, <2>2, <2>3, <2>4
<1> QED
  BY <1>1, <1>2, PTL DEF Spec

(* Every variable of the device and of the packet stays within its range.  *)
THEOREM TypeCorrect == Spec => []TypeOK
<1>1. IInv => TypeOK
  BY DEF IInv
<1> QED
  BY <1>1, Safety, PTL

(* Unless something of a device that was removed in use is left over,      *)
(* every open file finds the queues initialised and the memory mapped, and *)
(* one that has the device, and a call that runs through it, finds the     *)
(* interrupt registered too, whatever opens, releases and failed probes    *)
(* came before.                                                            *)
THEOREM DeviceIsReady == Spec => []DeviceReady
<1>1. IInv => DeviceReady
  <2> SUFFICES ASSUME IInv, ~pulled PROVE DeviceReady
    BY DEF DeviceReady
  <2>1. ASSUME NEW f \in Files, IsOpen(f) PROVE queuesReady /\ Everything \subseteq held
    BY <2>1 DEF IInv, Bindings, Begun, IsOpen
  <2>2. ASSUME (\E f \in Files : private[f] /\ IsOpen(f)) \/ ~NoCalls
        PROVE  queuesReady /\ held = Everything \cup {"irq"}
    <3>1. PICK f \in Files : private[f] /\ IsOpen(f)
      BY <2>2 DEF IInv, Privates
    <3>2. "irq" \in held
      BY <3>1 DEF IInv, Privates, IsOpen
    <3> QED
      BY <2>1, <3>1, <3>2 DEF IInv, TypeOK
  <2> QED
    BY <2>1, <2>2 DEF DeviceReady
<1> QED
  BY <1>1, Safety, PTL

(* Opens and releases that do not overlap leave open_count right, one too  *)
(* high once an open has failed.                                           *)
THEOREM CountIsRight == Spec => []CountIsFiles
<1>1. IInv => CountIsFiles
  BY DEF IInv, Counting, CountIsFiles, Count, OpenFiles
<1> QED
  BY <1>1, Safety, PTL

(* The labels of probe, and remove, give back what they should and no more *)
(* than the exceptions that GivenBack names, unless the device was in use. *)
THEOREM CleanedUp == Spec => []GivenBack
<1>1. IInv => GivenBack
  BY DEF IInv
<1> QED
  BY <1>1, Safety, PTL

(* Without a clash, of two requests or of one with the mailbox's doorbell, *)
(* the peer takes each request whole, and a caller reads back its own      *)
(* words or the answer to its own request.                                 *)
THEOREM RequestsMatch == Spec => []RequestsMatched
<1>1. IInv => RequestsMatched
  BY PacketMatched DEF IInv
<1> QED
  BY <1>1, Safety, PTL
===========================================================================
