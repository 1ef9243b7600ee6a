------------------------ MODULE TritonMailboxProofs ------------------------
(***************************************************************************)
(* Proofs about TritonMailbox, for any set of threads and any bounds: its  *)
(* safety, and that it implements MailboxChannel.                          *)
(***************************************************************************)
EXTENDS TritonMailbox, TLAPS

(* The inductive invariant. *)

(* The interrupt handler acts on a word that is still as it was tested:    *)
(* nobody else clears it. Both words of the up slot name one message.      *)
Untouched ==
  /\ isr = "complete" => answer
  /\ isr = "wake" => notice
  /\ upData = sends /\ upLen = sends

(* Orderly writes: the slot holds the message of the one writer, and what  *)
(* it asked for is in exactly one place: with the M3, in admin[2] or in    *)
(* the completion.                                                         *)
WriteInv ==
  /\ \A t, o \in Threads : pc[t] \in WritePc /\ pc[o] \in WritePc => t = o
  /\ \A t \in Threads :
       /\ pc[t] \in WritePc => downData = msg[t]
       /\ pc[t] \in {"wrequest"} \cup Asking => downLen = msg[t]
       /\ pc[t] \in Asking /\ ~request => taken = <<msg[t], msg[t]>>
       /\ pc[t] \in Asking => request \/ answer \/ done = 1
       /\ pc[t] = "wwait" /\ request => doorbell
  /\ request => ~answer /\ done = 0
  /\ answer => done = 0
  /\ done \in {0, 1}
  /\ request \/ answer \/ done = 1 => \E t \in Threads : pc[t] \in Asking
  /\ answer => msi \/ isr \in {"answer", "complete"}

(* Orderly reads: the right to use the up slot is in exactly one place:    *)
(* with the M3, on its way there, in admin[4], in data_readable or with    *)
(* the one reader.                                                         *)
ReadInv ==
  /\ \A t, o \in Threads : pc[t] \in ReadPc /\ pc[o] \in ReadPc => t = o
  /\ \A t \in Threads :
       /\ pc[t] = "clear" => readable
       /\ pc[t] \in {"length", "copy", "fetched"} =>
            ~m3Free /\ ~fetched /\ ~notice /\ ~readable
       /\ pc[t] = "copy" => msg[t] = sends
  /\ notice => ~readable /\ ~m3Free /\ ~fetched
  /\ readable => ~m3Free /\ ~fetched
  /\ fetched => ~m3Free
  /\ notice => msi \/ isr # "idle"
  /\ got # sends => notice \/ readable \/ \E t \in Threads : pc[t] \in {"length", "copy"}

IInv ==
  /\ TypeOK
  /\ Untouched
  /\ WritesOrderly => WriteInv
  /\ ReadsOrderly => ReadInv

(* Every action keeps every variable in its range. *)
LEMMA TypeStep == TypeOK /\ [Next]_vars => TypeOK'
<1> SUFFICES ASSUME TypeOK, [Next]_vars PROVE TypeOK'
  OBVIOUS
<1> USE MailboxAssumption
    DEF TypeOK, WritePc, ReadPc, downVars, upVars, wireVars, isrVars, m3Vars, Goto, Sees
<1>1. ASSUME NEW t \in Threads,
             WriteCopy(t) \/ ShmWrite(t) \/ WriteTimesOut(t) \/ PollTest(t) \/ StartRead(t)
               \/ ThreadStep(t)
      PROVE  TypeOK'
  <2>1. CASE WriteCopy(t)
    <3> USE DEF WriteCopy, Alone, Disorder, Leave
    <3>1. writes' \in 0..MaxWrites /\ downData' \in 0..MaxWrites
      BY <2>1
    <3>2. pc' \in [Threads -> {"idle"} \cup WritePc \cup ReadPc]
      BY <2>1
    <3>3. msg' \in [Threads -> 0..MaxWrites \cup 0..MaxSends]
      BY <2>1, <3>1
    <3>4. \A o \in Threads : pc'[o] = "wlength" => msg'[o] \in 0..MaxWrites
      BY <2>1, <3>1
    <3>5. orderly' \subseteq {"writes", "reads"}
      BY <2>1
    <3> QED
      BY <2>1, <3>1, <3>2, <3>3, <3>4, <3>5
  <2>2. CASE WriteTimesOut(t)
    BY <2>2 DEF WriteTimesOut, Disorder, Leave
  <2>3. CASE PollTest(t)
    BY <2>3 DEF PollTest, Alone, Disorder
  <2>4. CASE StartRead(t)
    BY <2>4 DEF StartRead, Disorder
  <2>5. CASE WriteLength(t)
    BY <2>5, downLen' \in 0..MaxWrites DEF WriteLength
  <2>6. CASE WriteRequest(t)
    BY <2>6 DEF WriteRequest
  <2>7. CASE WriteRing(t)
    BY <2>7 DEF WriteRing
  <2>8. CASE WriteAnswered(t)
    BY <2>8 DEF WriteAnswered, CompletionCounted, Leave
  <2>9. CASE PollClear(t)
    BY <2>9 DEF PollClear
  <2>10. CASE GetLength(t)
    BY <2>10 DEF GetLength
  <2>11. CASE ReadCopy(t)
    <3> USE DEF ReadCopy, Disorder, Leave
    <3>1. got' \in 0..MaxSends
      BY <2>11
    <3>2. pc' \in [Threads -> {"idle"} \cup WritePc \cup ReadPc]
      BY <2>11
    <3>3. msg' \in [Threads -> 0..MaxWrites \cup 0..MaxSends]
      BY <2>11
    <3>4. \A o \in Threads : pc'[o] = "wlength" => msg'[o] \in 0..MaxWrites
      BY <2>11
    <3>5. orderly' \subseteq {"writes", "reads"}
      BY <2>11
    <3> QED
      BY <2>11, <3>1, <3>2, <3>3, <3>4, <3>5
  <2>12. CASE ReadFetched(t)
    BY <2>12 DEF ReadFetched
  <2>13. CASE ReadRing(t)
    BY <2>13 DEF ReadRing, Leave
  <2>14. CASE ShmWrite(t)
    <3> USE DEF ShmWrite, Alone, Disorder
    <3>1. writes' \in 0..MaxWrites /\ downData' \in 0..MaxWrites
      BY <2>14
    <3>2. orderly' \subseteq {"writes", "reads"}
      BY <2>14
    <3> QED
      BY <2>14, <3>1, <3>2
  <2> QED
    BY <1>1, <2>1, <2>2, <2>3, <2>4, <2>5, <2>6, <2>7, <2>8, <2>9, <2>10,
     <2>11, <2>12, <2>13, <2>14 DEF ThreadStep
<1>2. CASE IsrEnter
  BY <1>2 DEF IsrEnter
<1>3. CASE IsrTestAnswer
  BY <1>3 DEF IsrTestAnswer, Answered
<1>4. CASE IsrComplete
    <2>1. done' \in Nat
    BY <1>4 DEF IsrComplete, Completed
  <2>2. answer' \in BOOLEAN
    BY <1>4 DEF IsrComplete
  <2> QED
    BY <1>4, <2>1, <2>2 DEF IsrComplete
<1>5. CASE IsrTestNotice
  BY <1>5 DEF IsrTestNotice
<1>6. CASE IsrWake
  BY <1>6 DEF IsrWake
<1>7. CASE M3Answer
    <2>1. taken' \in (0..MaxWrites) \X (0..MaxWrites)
    BY <1>7 DEF M3Answer
  <2>2. request' \in BOOLEAN /\ answer' \in BOOLEAN /\ msi' \in BOOLEAN /\ doorbell' \in BOOLEAN
    BY <1>7, Zenon DEF M3Answer
  <2>3. m3Free' \in BOOLEAN /\ fetched' \in BOOLEAN
    BY <1>7, Zenon DEF M3Answer
  <2> QED
    BY <1>7, <2>1, <2>2, <2>3 DEF M3Answer
<1>8. CASE M3Send
    <2>1. sends' \in 0..MaxSends /\ upData' \in 0..MaxSends /\ upLen' \in 0..MaxSends
    BY <1>8 DEF M3Send
  <2>2. notice' \in BOOLEAN /\ msi' \in BOOLEAN /\ m3Free' \in BOOLEAN
    BY <1>8 DEF M3Send
  <2> QED
    BY <1>8, <2>1, <2>2 DEF M3Send
<1>9. CASE UNCHANGED vars
  BY <1>9 DEF vars
<1> QED
  BY <1>1, <1>2, <1>3, <1>4, <1>5, <1>6, <1>7, <1>8, <1>9 DEF Next, IsrStep

(* The interrupt handler finds the word it tested. *)
LEMMA UntouchedStep == TypeOK /\ Untouched /\ [Next]_vars => Untouched'
<1> SUFFICES ASSUME TypeOK, Untouched, [Next]_vars PROVE Untouched'
  OBVIOUS
<1> USE MailboxAssumption DEF TypeOK, Untouched, downVars, upVars, wireVars, isrVars, m3Vars
<1>1. ASSUME NEW t \in Threads,
             WriteCopy(t) \/ ShmWrite(t) \/ WriteTimesOut(t) \/ PollTest(t) \/ StartRead(t)
               \/ ThreadStep(t)
      PROVE  Untouched'
  <2>1. CASE WriteCopy(t)
    BY <2>1 DEF WriteCopy, Alone, Disorder, Leave
  <2>2. CASE WriteTimesOut(t)
    BY <2>2 DEF WriteTimesOut, Disorder, Leave
  <2>3. CASE PollTest(t)
    BY <2>3 DEF PollTest, Alone, Disorder
  <2>4. CASE StartRead(t)
    BY <2>4 DEF StartRead, Disorder
  <2>5. CASE WriteLength(t)
    BY <2>5 DEF WriteLength
  <2>6. CASE WriteRequest(t)
    BY <2>6 DEF WriteRequest
  <2>7. CASE WriteRing(t)
    BY <2>7 DEF WriteRing
  <2>8. CASE WriteAnswered(t)
    BY <2>8 DEF WriteAnswered, CompletionCounted, Leave
  <2>9. CASE PollClear(t)
    BY <2>9 DEF PollClear
  <2>10. CASE GetLength(t)
    BY <2>10 DEF GetLength
  <2>11. CASE ReadCopy(t)
    BY <2>11 DEF ReadCopy, Disorder, Leave
  <2>12. CASE ReadFetched(t)
    BY <2>12 DEF ReadFetched
  <2>13. CASE ReadRing(t)
    BY <2>13 DEF ReadRing, Leave
  <2>14. CASE ShmWrite(t)
    BY <2>14 DEF ShmWrite, Alone, Disorder
  <2> QED
    BY <1>1, <2>1, <2>2, <2>3, <2>4, <2>5, <2>6, <2>7, <2>8, <2>9, <2>10,
     <2>11, <2>12, <2>13, <2>14 DEF ThreadStep
<1>2. CASE IsrEnter
  BY <1>2 DEF IsrEnter
<1>3. CASE IsrTestAnswer
  BY <1>3 DEF IsrTestAnswer, Answered
<1>4. CASE IsrComplete
  BY <1>4 DEF IsrComplete, Completed
<1>5. CASE IsrTestNotice
  BY <1>5 DEF IsrTestNotice
<1>6. CASE IsrWake
  BY <1>6 DEF IsrWake
<1>7. CASE M3Answer
  BY <1>7 DEF M3Answer
<1>8. CASE M3Send
  BY <1>8 DEF M3Send
<1>9. CASE UNCHANGED vars
  BY <1>9 DEF vars
<1> QED
  BY <1>1, <1>2, <1>3, <1>4, <1>5, <1>6, <1>7, <1>8, <1>9 DEF Next, IsrStep

(* The request of an orderly write stays in one place. *)
LEMMA WriteStep == IInv /\ [Next]_vars /\ WritesOrderly' => WriteInv'
<1> SUFFICES ASSUME IInv, [Next]_vars, WritesOrderly' PROVE WriteInv'
  OBVIOUS
<1>0. TypeOK' /\ Untouched'
  BY TypeStep, UntouchedStep DEF IInv
<1> USE <1>0, MailboxAssumption
    DEF IInv, Untouched, WriteInv, WritesOrderly, TypeOK, WritePc, ReadPc, Asking,
        downVars, upVars, wireVars, isrVars, m3Vars, Goto, Sees
<1>1. ASSUME NEW t \in Threads,
             WriteCopy(t) \/ ShmWrite(t) \/ WriteTimesOut(t) \/ PollTest(t) \/ StartRead(t)
               \/ ThreadStep(t)
      PROVE  WriteInv'
  <2>1. CASE WriteCopy(t)
    BY <2>1 DEF WriteCopy, Alone, Disorder, Leave
  <2>2. CASE WriteTimesOut(t)
    BY <2>2 DEF WriteTimesOut, Disorder, Leave
  <2>3. CASE PollTest(t)
    BY <2>3 DEF PollTest, Alone, Disorder
  <2>4. CASE StartRead(t)
    BY <2>4 DEF StartRead, Disorder
  <2>5. CASE WriteLength(t)
    BY <2>5 DEF WriteLength
  <2>6. CASE WriteRequest(t)
    BY <2>6 DEF WriteRequest
  <2>7. CASE WriteRing(t)
    BY <2>7 DEF WriteRing
  <2>8. CASE WriteAnswered(t)
    BY <2>8 DEF WriteAnswered, CompletionCounted, Leave
  <2>9. CASE PollClear(t)
    BY <2>9 DEF PollClear
  <2>10. CASE GetLength(t)
    BY <2>10 DEF GetLength
  <2>11. CASE ReadCopy(t)
    BY <2>11 DEF ReadCopy, Disorder, Leave
  <2>12. CASE ReadFetched(t)
    BY <2>12 DEF ReadFetched
  <2>13. CASE ReadRing(t)
    BY <2>13 DEF ReadRing, Leave
  <2>14. CASE ShmWrite(t)
    BY <2>14 DEF ShmWrite, Alone, Disorder
  <2> QED
    BY <1>1, <2>1, <2>2, <2>3, <2>4, <2>5, <2>6, <2>7, <2>8, <2>9, <2>10,
     <2>11, <2>12, <2>13, <2>14 DEF ThreadStep
<1>2. CASE IsrEnter
  BY <1>2 DEF IsrEnter
<1>3. CASE IsrTestAnswer
  BY <1>3 DEF IsrTestAnswer, Answered
<1>4. CASE IsrComplete
  BY <1>4 DEF IsrComplete, Completed
<1>5. CASE IsrTestNotice
  BY <1>5 DEF IsrTestNotice
<1>6. CASE IsrWake
  BY <1>6 DEF IsrWake
<1>7. CASE M3Answer
  BY <1>7 DEF M3Answer
<1>8. CASE M3Send
  BY <1>8 DEF M3Send
<1>9. CASE UNCHANGED vars
  BY <1>9 DEF vars
<1> QED
  BY <1>1, <1>2, <1>3, <1>4, <1>5, <1>6, <1>7, <1>8, <1>9 DEF Next, IsrStep

(* The right to use the up slot stays in one place. *)
LEMMA ReadStep == IInv /\ [Next]_vars /\ ReadsOrderly' => ReadInv'
<1> SUFFICES ASSUME IInv, [Next]_vars, ReadsOrderly' PROVE ReadInv'
  OBVIOUS
<1>0. TypeOK' /\ Untouched'
  BY TypeStep, UntouchedStep DEF IInv
<1> USE <1>0, MailboxAssumption
    DEF IInv, Untouched, ReadInv, ReadsOrderly, TypeOK, WritePc, ReadPc,
        downVars, upVars, wireVars, isrVars, m3Vars, Goto, Sees
<1>1. ASSUME NEW t \in Threads,
             WriteCopy(t) \/ ShmWrite(t) \/ WriteTimesOut(t) \/ PollTest(t) \/ StartRead(t)
               \/ ThreadStep(t)
      PROVE  ReadInv'
  <2>1. CASE WriteCopy(t)
    BY <2>1 DEF WriteCopy, Alone, Disorder, Leave
  <2>2. CASE WriteTimesOut(t)
    BY <2>2 DEF WriteTimesOut, Disorder, Leave
  <2>3. CASE PollTest(t)
    BY <2>3 DEF PollTest, Alone, Disorder
  <2>4. CASE StartRead(t)
    BY <2>4 DEF StartRead, Disorder
  <2>5. CASE WriteLength(t)
    BY <2>5 DEF WriteLength
  <2>6. CASE WriteRequest(t)
    BY <2>6 DEF WriteRequest
  <2>7. CASE WriteRing(t)
    BY <2>7 DEF WriteRing
  <2>8. CASE WriteAnswered(t)
    BY <2>8 DEF WriteAnswered, CompletionCounted, Leave
  <2>9. CASE PollClear(t)
    BY <2>9 DEF PollClear
  <2>10. CASE GetLength(t)
    BY <2>10 DEF GetLength
  <2>11. CASE ReadCopy(t)
    BY <2>11 DEF ReadCopy, Disorder, Leave
  <2>12. CASE ReadFetched(t)
    BY <2>12 DEF ReadFetched
  <2>13. CASE ReadRing(t)
    BY <2>13 DEF ReadRing, Leave
  <2>14. CASE ShmWrite(t)
    BY <2>14 DEF ShmWrite, Alone, Disorder
  <2> QED
    BY <1>1, <2>1, <2>2, <2>3, <2>4, <2>5, <2>6, <2>7, <2>8, <2>9, <2>10,
     <2>11, <2>12, <2>13, <2>14 DEF ThreadStep
<1>2. CASE IsrEnter
  BY <1>2 DEF IsrEnter
<1>3. CASE IsrTestAnswer
  BY <1>3 DEF IsrTestAnswer, Answered
<1>4. CASE IsrComplete
  BY <1>4 DEF IsrComplete, Completed
<1>5. CASE IsrTestNotice
  BY <1>5 DEF IsrTestNotice
<1>6. CASE IsrWake
  BY <1>6 DEF IsrWake
<1>7. CASE M3Answer
  BY <1>7 DEF M3Answer
<1>8. CASE M3Send
  BY <1>8 DEF M3Send
<1>9. CASE UNCHANGED vars
  BY <1>9 DEF vars
<1> QED
  BY <1>1, <1>2, <1>3, <1>4, <1>5, <1>6, <1>7, <1>8, <1>9 DEF Next, IsrStep

(* The invariant holds at first. *)
LEMMA InitInv == Init => IInv
<1> SUFFICES ASSUME Init PROVE IInv
  OBVIOUS
<1>1. TypeOK
  <2>1. 0 \in 0..MaxWrites /\ 0 \in 0..MaxSends
    BY MailboxAssumption
  <2>2. m3Free \in BOOLEAN /\ readable \in BOOLEAN
    BY DEF Init
  <2> QED
    BY <2>1, <2>2 DEF Init, TypeOK
<1>2. WriteInv
  BY DEF Init, WriteInv, WritePc, Asking
<1>3. ReadInv
  BY DEF Init, ReadInv, ReadPc
<1> QED
  BY <1>1, <1>2, <1>3 DEF Init, IInv, Untouched

(* Every step preserves the invariant. *)
LEMMA StepInv == IInv /\ [Next]_vars => IInv'
BY TypeStep, UntouchedStep, WriteStep, ReadStep DEF IInv

(* What holds of the two directions in every reachable state.              *)
THEOREM Safety == Spec => []IInv
BY InitInv, StepInv, PTL DEF Spec

(* Every variable of the mailbox stays within its range.                   *)
THEOREM TypeCorrect == Spec => []TypeOK
<1>1. IInv => TypeOK
  BY DEF IInv
<1> QED
  BY <1>1, Safety, PTL

(* A write that succeeds in order was taken by M3, with its own length.    *)
THEOREM SuccessIsTrue == Spec => []SuccessMeansTaken
<1>1. IInv => SuccessMeansTaken
  <2> SUFFICES ASSUME IInv, NEW t \in Threads, WritesOrderly, pc[t] = "wwait", done > 0
               PROVE  taken = <<msg[t], msg[t]>>
    BY DEF SuccessMeansTaken
  <2>1. ~request
    BY DEF IInv, WriteInv
  <2> QED
    BY <2>1 DEF IInv, WriteInv, Asking
<1> QED
  BY <1>1, Safety, PTL

(* The answer to an orderly write is not lost.                             *)
THEOREM AnswerComes == Spec => []NoLostAnswer
<1>1. IInv => NoLostAnswer
  BY DEF IInv, WriteInv, Asking, NoLostAnswer
<1> QED
  BY <1>1, Safety, PTL

(* A message that is read in order is copied whole.                        *)
THEOREM MessageWhole == Spec => []MessageIntact
<1>1. IInv => MessageIntact
  BY DEF IInv, Untouched, ReadInv, MessageIntact
<1> QED
  BY <1>1, Safety, PTL

(* The notice of a message that is read in order is not lost.              *)
THEOREM NoticeComes == Spec => []NoLostNotice
<1>1. IInv => NoLostNotice
  BY DEF IInv, ReadInv, NoLostNotice
<1> QED
  BY <1>1, Safety, PTL

---------------------------------------------------------------------------
(* The refinement. *)

(* What else it takes: the numbers of messages only grow, and a message    *)
(* that is announced or being fetched has not been got before.             *)
OfferInv ==
  /\ taken[1] = taken[2] /\ taken[1] <= writes /\ downData <= writes
  /\ \A t \in Threads :
       /\ pc[t] \in WritePc => msg[t] > 0
       /\ pc[t] \in {"wlength", "wrequest"} => taken[1] < msg[t]
       /\ pc[t] \in Asking /\ request => taken[1] < msg[t]

SlotInv ==
  /\ ~m3Free => sends > 0
  /\ notice \/ readable \/ (\E t \in Threads : pc[t] \in {"length", "copy"}) => got # sends

CInv ==
  /\ IInv
  /\ WritesOrderly => OfferInv
  /\ ReadsOrderly => SlotInv

(* The M3 takes the messages of orderly writes in the order of their       *)
(* numbers.                                                                *)
LEMMA OfferStep == CInv /\ [Next]_vars /\ WritesOrderly' => OfferInv'
<1> SUFFICES ASSUME CInv, [Next]_vars, WritesOrderly' PROVE OfferInv'
  OBVIOUS
<1> USE MailboxAssumption
    DEF CInv, IInv, WriteInv, OfferInv, WritesOrderly, TypeOK, WritePc, ReadPc, Asking,
        downVars, upVars, wireVars, isrVars, m3Vars, Goto, Sees
<1>1. ASSUME NEW t \in Threads,
             WriteCopy(t) \/ ShmWrite(t) \/ WriteTimesOut(t) \/ PollTest(t) \/ StartRead(t)
               \/ ThreadStep(t)
      PROVE  OfferInv'
  <2>1. CASE WriteCopy(t)
    BY <2>1 DEF WriteCopy, Alone, Disorder, Leave
  <2>2. CASE WriteTimesOut(t)
    BY <2>2 DEF WriteTimesOut, Disorder, Leave
  <2>3. CASE PollTest(t)
    BY <2>3 DEF PollTest, Alone, Disorder
  <2>4. CASE StartRead(t)
    BY <2>4 DEF StartRead, Disorder
  <2>5. CASE WriteLength(t)
    BY <2>5 DEF WriteLength
  <2>6. CASE WriteRequest(t)
    BY <2>6 DEF WriteRequest
  <2>7. CASE WriteRing(t)
    BY <2>7 DEF WriteRing
  <2>8. CASE WriteAnswered(t)
    BY <2>8 DEF WriteAnswered, CompletionCounted, Leave
  <2>9. CASE PollClear(t)
    BY <2>9 DEF PollClear
  <2>10. CASE GetLength(t)
    BY <2>10 DEF GetLength
  <2>11. CASE ReadCopy(t)
    BY <2>11 DEF ReadCopy, Disorder, Leave
  <2>12. CASE ReadFetched(t)
    BY <2>12 DEF ReadFetched
  <2>13. CASE ReadRing(t)
    BY <2>13 DEF ReadRing, Leave
  <2>14. CASE ShmWrite(t)
    BY <2>14 DEF ShmWrite, Alone, Disorder
  <2> QED
    BY <1>1, <2>1, <2>2, <2>3, <2>4, <2>5, <2>6, <2>7, <2>8,
     <2>9, <2>10, <2>11, <2>12, <2>13, <2>14 DEF ThreadStep
<1>2. CASE IsrEnter
  BY <1>2 DEF IsrEnter
<1>3. CASE IsrTestAnswer
  BY <1>3 DEF IsrTestAnswer, Answered
<1>4. CASE IsrComplete
  BY <1>4 DEF IsrComplete, Completed
<1>5. CASE IsrTestNotice
  BY <1>5 DEF IsrTestNotice
<1>6. CASE IsrWake
  BY <1>6 DEF IsrWake
<1>7. CASE M3Answer
  <2>1. CASE request
    <3>1. PICK t \in Threads : pc[t] \in Asking
      BY <1>7, <2>1 DEF M3Answer
    <3>2. taken' = <<downData, downLen>> /\ downData = msg[t] /\ downLen = msg[t]
      BY <1>7, <2>1, <3>1 DEF M3Answer
    <3>3. ~request' /\ UNCHANGED <<pc, msg, writes, downData>>
      BY <1>7, <2>1 DEF M3Answer
    <3>4. \A o \in Threads : pc[o] \in WritePc => o = t
      BY <1>7, <3>1 DEF M3Answer
    <3>5. taken'[1] = msg[t] /\ taken'[2] = msg[t] /\ msg[t] <= writes /\ downData <= writes
      BY <1>7, <3>2 DEF M3Answer
    <3>6. \A o \in Threads : pc'[o] \notin {"wlength", "wrequest"}
      BY <3>1, <3>3, <3>4
    <3>7. \A o \in Threads : pc'[o] \in WritePc => msg'[o] > 0
      BY <1>7, <3>3 DEF M3Answer
    <3> QED
      BY <3>3, <3>5, <3>6, <3>7
  <2>2. CASE ~request
    BY <1>7, <2>2 DEF M3Answer
  <2> QED
    BY <2>1, <2>2
<1>8. CASE M3Send
  BY <1>8 DEF M3Send
<1>9. CASE UNCHANGED vars
  BY <1>9 DEF vars
<1> QED
  BY <1>1, <1>2, <1>3, <1>4, <1>5, <1>6, <1>7, <1>8, <1>9 DEF Next, IsrStep

(* A message that is announced has not been got.                           *)
LEMMA SlotStep == CInv /\ [Next]_vars /\ ReadsOrderly' => SlotInv'
<1> SUFFICES ASSUME CInv, [Next]_vars, ReadsOrderly' PROVE SlotInv'
  OBVIOUS
<1> USE MailboxAssumption
    DEF CInv, IInv, Untouched, ReadInv, SlotInv, ReadsOrderly, TypeOK, WritePc, ReadPc,
        downVars, upVars, wireVars, isrVars, m3Vars, Goto, Sees
<1>1. ASSUME NEW t \in Threads,
             WriteCopy(t) \/ ShmWrite(t) \/ WriteTimesOut(t) \/ PollTest(t) \/ StartRead(t)
               \/ ThreadStep(t)
      PROVE  SlotInv'
  <2>1. CASE WriteCopy(t)
    BY <2>1 DEF WriteCopy, Alone, Disorder, Leave
  <2>2. CASE WriteTimesOut(t)
    BY <2>2 DEF WriteTimesOut, Disorder, Leave
  <2>3. CASE PollTest(t)
    BY <2>3 DEF PollTest, Alone, Disorder
  <2>4. CASE StartRead(t)
    BY <2>4 DEF StartRead, Disorder
  <2>5. CASE WriteLength(t)
    BY <2>5 DEF WriteLength
  <2>6. CASE WriteRequest(t)
    BY <2>6 DEF WriteRequest
  <2>7. CASE WriteRing(t)
    BY <2>7 DEF WriteRing
  <2>8. CASE WriteAnswered(t)
    BY <2>8 DEF WriteAnswered, CompletionCounted, Leave
  <2>9. CASE PollClear(t)
    BY <2>9 DEF PollClear
  <2>10. CASE GetLength(t)
    BY <2>10 DEF GetLength
  <2>11. CASE ReadCopy(t)
    BY <2>11 DEF ReadCopy, Disorder, Leave
  <2>12. CASE ReadFetched(t)
    BY <2>12 DEF ReadFetched
  <2>13. CASE ReadRing(t)
    BY <2>13 DEF ReadRing, Leave
  <2>14. CASE ShmWrite(t)
    BY <2>14 DEF ShmWrite, Alone, Disorder
  <2> QED
    BY <1>1, <2>1, <2>2, <2>3, <2>4, <2>5, <2>6, <2>7, <2>8,
     <2>9, <2>10, <2>11, <2>12, <2>13, <2>14 DEF ThreadStep
<1>2. CASE IsrEnter
  BY <1>2 DEF IsrEnter
<1>3. CASE IsrTestAnswer
  BY <1>3 DEF IsrTestAnswer, Answered
<1>4. CASE IsrComplete
  BY <1>4 DEF IsrComplete, Completed
<1>5. CASE IsrTestNotice
  BY <1>5 DEF IsrTestNotice
<1>6. CASE IsrWake
  BY <1>6 DEF IsrWake
<1>7. CASE M3Answer
  BY <1>7 DEF M3Answer
<1>8. CASE M3Send
  BY <1>8 DEF M3Send
<1>9. CASE UNCHANGED vars
  BY <1>9 DEF vars
<1> QED
  BY <1>1, <1>2, <1>3, <1>4, <1>5, <1>6, <1>7, <1>8, <1>9 DEF Next, IsrStep

(* There is one offer at most.                                             *)
LEMMA OfferedOne ==
  ASSUME WriteInv, NEW t \in Threads, pc[t] \in Asking PROVE Offered = msg[t]
BY DEF WriteInv, Offered, Asking, WritePc

(* Without a waiting writer there is none. *)
LEMMA OfferedNone ==
  ASSUME \A t \in Threads : pc[t] \notin Asking PROVE Offered = 0
BY DEF Offered

(* A step that leaves pc of every asking thread, and msg, leaves the offer. *)
LEMMA OfferedSame ==
  ASSUME \A t \in Threads : (pc[t] \in Asking <=> pc'[t] \in Asking),
         \A t \in Threads : pc[t] \in Asking => msg'[t] = msg[t],
         WriteInv, WriteInv'
  PROVE  Offered' = Offered
BY DEF WriteInv, Offered, Asking, WritePc

(* Down, every step is one of the channel or changes nothing of it.        *)
LEMMA WritesRefined ==
  CInv /\ CInv' /\ [Next]_vars /\ WritesOrderly' =>
    Channel!DownStep \/ UNCHANGED Channel!downVars
<1> SUFFICES ASSUME CInv, CInv', [Next]_vars, WritesOrderly'
             PROVE  Channel!DownStep \/ UNCHANGED Channel!downVars
  OBVIOUS
<1>a. WritesOrderly
  BY DEF Next, ThreadStep, IsrStep, vars, WritesOrderly, Disorder, WriteCopy, ShmWrite,
         WriteTimesOut, PollTest, StartRead, WriteLength, WriteRequest, WriteRing, WriteAnswered, PollClear,
         GetLength, ReadCopy, ReadFetched, ReadRing, IsrEnter, IsrTestAnswer, IsrComplete,
         IsrTestNotice, IsrWake, M3Answer, M3Send
<1>0. ASSUME UNCHANGED taken,
             \A o \in Threads : /\ pc[o] \in Asking <=> pc'[o] \in Asking
                                /\ pc[o] \in Asking => msg'[o] = msg[o]
      PROVE  UNCHANGED Channel!downVars
  <2>1. Offered' = Offered
    BY <1>0, <1>a, OfferedSame DEF CInv, IInv
  <2>2. TakenWhole' = TakenWhole
    BY <1>0 DEF TakenWhole
  <2> QED
    BY <2>1, <2>2 DEF Channel!downVars
<1> USE <1>a, MailboxAssumption
    DEF CInv, IInv, WriteInv, OfferInv, WritesOrderly, TypeOK, WritePc, ReadPc, Asking,
        downVars, upVars, wireVars, isrVars, m3Vars, Goto, Sees
<1>1. ASSUME NEW t \in Threads,
             WriteCopy(t) \/ ShmWrite(t) \/ WriteTimesOut(t) \/ PollTest(t) \/ StartRead(t)
               \/ ThreadStep(t)
      PROVE  Channel!DownStep \/ UNCHANGED Channel!downVars
  <2>1. CASE WriteCopy(t)
    <3>1. UNCHANGED taken
      BY <2>1 DEF WriteCopy
    <3>2. \A o \in Threads : /\ pc[o] \in Asking <=> pc'[o] \in Asking
                             /\ pc[o] \in Asking => msg'[o] = msg[o]
      BY <2>1 DEF WriteCopy, Alone, Disorder, Leave
    <3> QED
      BY <3>1, <3>2, <1>0
  <2>2. CASE WriteTimesOut(t)
    BY <2>2 DEF WriteTimesOut, Disorder
  <2>3. CASE PollTest(t)
    <3>1. UNCHANGED taken
      BY <2>3 DEF PollTest
    <3>2. \A o \in Threads : /\ pc[o] \in Asking <=> pc'[o] \in Asking
                             /\ pc[o] \in Asking => msg'[o] = msg[o]
      BY <2>3 DEF PollTest, Alone, Disorder
    <3> QED
      BY <3>1, <3>2, <1>0
  <2>4. CASE StartRead(t)
    <3>1. UNCHANGED taken
      BY <2>4 DEF StartRead
    <3>2. \A o \in Threads : /\ pc[o] \in Asking <=> pc'[o] \in Asking
                             /\ pc[o] \in Asking => msg'[o] = msg[o]
      BY <2>4 DEF StartRead, Disorder
    <3> QED
      BY <3>1, <3>2, <1>0
  <2>5. CASE WriteLength(t)
    <3>1. UNCHANGED taken
      BY <2>5 DEF WriteLength
    <3>2. \A o \in Threads : /\ pc[o] \in Asking <=> pc'[o] \in Asking
                             /\ pc[o] \in Asking => msg'[o] = msg[o]
      BY <2>5 DEF WriteLength
    <3> QED
      BY <3>1, <3>2, <1>0
  <2>6. CASE WriteRequest(t)
    <3>1. Offered = 0
      <4>1. \A o \in Threads : pc[o] \notin Asking
        BY <2>6 DEF WriteRequest
      <4> QED
        BY <4>1, OfferedNone
    <3>2. pc'[t] \in Asking /\ msg' = msg
      BY <2>6 DEF WriteRequest
    <3>3. Offered' = msg[t]
      BY <3>2 DEF Offered
    <3>4. TakenWhole' = TakenWhole /\ TakenWhole = taken[1] /\ taken[1] < msg[t]
      BY <2>6 DEF WriteRequest, TakenWhole
    <3> QED
      BY <3>1, <3>3, <3>4 DEF Channel!DownStep, Channel!Offer
  <2>7. CASE WriteRing(t)
    <3>1. UNCHANGED taken
      BY <2>7 DEF WriteRing
    <3>2. \A o \in Threads : /\ pc[o] \in Asking <=> pc'[o] \in Asking
                             /\ pc[o] \in Asking => msg'[o] = msg[o]
      BY <2>7 DEF WriteRing
    <3> QED
      BY <3>1, <3>2, <1>0
  <2>8. CASE WriteAnswered(t)
    <3>1. pc[t] \in Asking /\ ~request /\ taken' = taken
      BY <2>8 DEF WriteAnswered, CompletionCounted
    <3>2. Offered = msg[t] /\ msg[t] > 0
      BY <3>1, OfferedOne
    <3>3. Offered' = 0
      <4>1. \A o \in Threads : pc'[o] \notin Asking
        BY <2>8 DEF WriteAnswered, Leave
      <4> QED
        BY <4>1 DEF Offered
    <3>4. TakenWhole' = TakenWhole /\ TakenWhole = msg[t]
      BY <3>1 DEF TakenWhole
    <3> QED
      BY <3>2, <3>3, <3>4 DEF Channel!DownStep, Channel!Succeed
  <2>9. CASE PollClear(t)
    <3>1. UNCHANGED taken
      BY <2>9 DEF PollClear
    <3>2. \A o \in Threads : /\ pc[o] \in Asking <=> pc'[o] \in Asking
                             /\ pc[o] \in Asking => msg'[o] = msg[o]
      BY <2>9 DEF PollClear
    <3> QED
      BY <3>1, <3>2, <1>0
  <2>10. CASE GetLength(t)
    <3>1. UNCHANGED taken
      BY <2>10 DEF GetLength
    <3>2. \A o \in Threads : /\ pc[o] \in Asking <=> pc'[o] \in Asking
                             /\ pc[o] \in Asking => msg'[o] = msg[o]
      BY <2>10 DEF GetLength
    <3> QED
      BY <3>1, <3>2, <1>0
  <2>11. CASE ReadCopy(t)
    <3>1. UNCHANGED taken
      BY <2>11 DEF ReadCopy
    <3>2. \A o \in Threads : /\ pc[o] \in Asking <=> pc'[o] \in Asking
                             /\ pc[o] \in Asking => msg'[o] = msg[o]
      BY <2>11 DEF ReadCopy, Disorder, Leave
    <3> QED
      BY <3>1, <3>2, <1>0
  <2>12. CASE ReadFetched(t)
    <3>1. UNCHANGED taken
      BY <2>12 DEF ReadFetched
    <3>2. \A o \in Threads : /\ pc[o] \in Asking <=> pc'[o] \in Asking
                             /\ pc[o] \in Asking => msg'[o] = msg[o]
      BY <2>12 DEF ReadFetched
    <3> QED
      BY <3>1, <3>2, <1>0
  <2>13. CASE ReadRing(t)
    <3>1. UNCHANGED taken
      BY <2>13 DEF ReadRing
    <3>2. \A o \in Threads : /\ pc[o] \in Asking <=> pc'[o] \in Asking
                             /\ pc[o] \in Asking => msg'[o] = msg[o]
      BY <2>13 DEF ReadRing, Leave
    <3> QED
      BY <3>1, <3>2, <1>0
  <2>14. CASE ShmWrite(t)
    <3>1. UNCHANGED <<taken, pc, msg>>
      BY <2>14 DEF ShmWrite
    <3> QED
      BY <3>1, <1>0
  <2> QED
    BY <1>1, <2>1, <2>2, <2>3, <2>4, <2>5, <2>6, <2>7, <2>8,
     <2>9, <2>10, <2>11, <2>12, <2>13, <2>14 DEF ThreadStep
<1>2. CASE IsrEnter
  BY <1>2, <1>0 DEF IsrEnter
<1>3. CASE IsrTestAnswer
  BY <1>3, <1>0 DEF IsrTestAnswer, Answered
<1>4. CASE IsrComplete
  BY <1>4, <1>0 DEF IsrComplete, Completed
<1>5. CASE IsrTestNotice
  BY <1>5, <1>0 DEF IsrTestNotice
<1>6. CASE IsrWake
  BY <1>6, <1>0 DEF IsrWake
<1>7. CASE M3Answer
  <2>1. CASE request
    <3>1. PICK t \in Threads : pc[t] \in Asking
      BY <1>7, <2>1 DEF M3Answer
    <3>2. taken' = <<msg[t], msg[t]>> /\ UNCHANGED <<pc, msg>>
      BY <1>7, <2>1, <3>1 DEF M3Answer
    <3>3. Offered = msg[t] /\ Offered' = Offered
      BY <3>1, <3>2, OfferedOne DEF Offered
    <3>4. TakenWhole' = msg[t] /\ TakenWhole = taken[1] /\ taken[1] < msg[t]
      BY <2>1, <3>1, <3>2 DEF TakenWhole
    <3> QED
      BY <3>3, <3>4 DEF Channel!DownStep, Channel!Take
  <2>2. CASE ~request
    BY <1>7, <2>2, <1>0 DEF M3Answer
  <2> QED
    BY <2>1, <2>2
<1>8. CASE M3Send
  BY <1>8, <1>0 DEF M3Send
<1>9. CASE UNCHANGED vars
  BY <1>9, <1>0 DEF vars
<1> QED
  BY <1>1, <1>2, <1>3, <1>4, <1>5, <1>6, <1>7, <1>8, <1>9 DEF Next, IsrStep

(* And so up.                                                              *)
LEMMA ReadsRefined ==
  CInv /\ [Next]_vars /\ ReadsOrderly' => Channel!UpStep \/ UNCHANGED Channel!upVars
<1> SUFFICES ASSUME CInv, [Next]_vars, ReadsOrderly'
             PROVE  Channel!UpStep \/ UNCHANGED Channel!upVars
  OBVIOUS
<1> USE MailboxAssumption
    DEF CInv, IInv, Untouched, ReadInv, SlotInv, ReadsOrderly, TypeOK, WritePc, ReadPc,
        downVars, upVars, wireVars, isrVars, m3Vars, Goto, Sees, Channel!UpStep,
        Channel!upVars
<1>1. ASSUME NEW t \in Threads,
             WriteCopy(t) \/ ShmWrite(t) \/ WriteTimesOut(t) \/ PollTest(t) \/ StartRead(t)
               \/ ThreadStep(t)
      PROVE  Channel!UpStep \/ UNCHANGED Channel!upVars
  <2>1. CASE WriteCopy(t)
    BY <2>1 DEF WriteCopy, Alone, Disorder, Leave
  <2>2. CASE WriteTimesOut(t)
    BY <2>2 DEF WriteTimesOut, Disorder, Leave
  <2>3. CASE PollTest(t)
    BY <2>3 DEF PollTest, Alone, Disorder
  <2>4. CASE StartRead(t)
    BY <2>4 DEF StartRead, Disorder
  <2>5. CASE WriteLength(t)
    BY <2>5 DEF WriteLength
  <2>6. CASE WriteRequest(t)
    BY <2>6 DEF WriteRequest
  <2>7. CASE WriteRing(t)
    BY <2>7 DEF WriteRing
  <2>8. CASE WriteAnswered(t)
    BY <2>8 DEF WriteAnswered, CompletionCounted, Leave
  <2>9. CASE PollClear(t)
    BY <2>9 DEF PollClear
  <2>10. CASE GetLength(t)
    BY <2>10 DEF GetLength
  <2>11. CASE ReadCopy(t)
    <3>1. got' = upData /\ UNCHANGED <<m3Free, upData>> /\ ~m3Free
      BY <2>11 DEF ReadCopy, Disorder
    <3>2. upData # 0 /\ upData # got
      BY <2>11, <3>1 DEF ReadCopy, Disorder
    <3> QED
      BY <3>1, <3>2 DEF Channel!Get
  <2>12. CASE ReadFetched(t)
    BY <2>12 DEF ReadFetched
  <2>13. CASE ReadRing(t)
    BY <2>13 DEF ReadRing, Leave
  <2>14. CASE ShmWrite(t)
    BY <2>14 DEF ShmWrite, Alone, Disorder
  <2> QED
    BY <1>1, <2>1, <2>2, <2>3, <2>4, <2>5, <2>6, <2>7, <2>8,
     <2>9, <2>10, <2>11, <2>12, <2>13, <2>14 DEF ThreadStep
<1>2. CASE IsrEnter
  BY <1>2 DEF IsrEnter
<1>3. CASE IsrTestAnswer
  BY <1>3 DEF IsrTestAnswer, Answered
<1>4. CASE IsrComplete
  BY <1>4 DEF IsrComplete, Completed
<1>5. CASE IsrTestNotice
  BY <1>5 DEF IsrTestNotice
<1>6. CASE IsrWake
  BY <1>6 DEF IsrWake
<1>7. CASE M3Answer
  <2>1. CASE fetched /\ ~m3Free
    <3>1. m3Free' /\ UNCHANGED <<upData, got>>
      BY <1>7, <2>1 DEF M3Answer
    <3>2. ReadsOrderly
      BY <1>7 DEF M3Answer
    <3>3. ~notice /\ ~readable /\ \A t \in Threads : pc[t] \notin {"length", "copy"}
      BY <2>1, <3>2
    <3>4. got = sends /\ upData = sends /\ sends > 0
      BY <2>1, <3>2, <3>3
    <3> QED
      BY <2>1, <3>1, <3>4 DEF Channel!Vacate
  <2>2. CASE ~(fetched /\ ~m3Free)
    <3>1. m3Free' = m3Free /\ UNCHANGED <<upData, got>>
      BY <1>7, <2>2, Zenon DEF M3Answer
    <3> QED
      BY <3>1
  <2> QED
    BY <2>1, <2>2
<1>8. CASE M3Send
  <2>1. m3Free /\ ~m3Free' /\ upData' = sends + 1 /\ UNCHANGED got /\ got = sends
    BY <1>8 DEF M3Send
  <2> QED
    BY <2>1 DEF Channel!Put
<1>9. CASE UNCHANGED vars
  BY <1>9 DEF vars
<1> QED
  BY <1>1, <1>2, <1>3, <1>4, <1>5, <1>6, <1>7, <1>8, <1>9 DEF Next, IsrStep

(* Order that is lost is not regained. *)
LEMMA OrderlyShrinks == TypeOK /\ [Next]_vars => orderly' \subseteq orderly
BY DEF Next, ThreadStep, IsrStep, vars, Disorder, WriteCopy, ShmWrite, WriteTimesOut, PollTest,
       StartRead, WriteLength, WriteRequest, WriteRing, WriteAnswered, PollClear, GetLength,
       ReadCopy, ReadFetched, ReadRing, IsrEnter, IsrTestAnswer, IsrComplete,
       IsrTestNotice, IsrWake, M3Answer, M3Send

(* The invariant of the refinement.                                        *)
THEOREM ChannelSafety == Spec => []CInv
<1>1. Init => CInv
  <2> SUFFICES ASSUME Init PROVE CInv
    OBVIOUS
  <2>1. IInv
    BY InitInv
  <2>2. OfferInv /\ SlotInv
    BY DEF Init, OfferInv, SlotInv, WritePc, Asking
  <2> QED
    BY <2>1, <2>2 DEF CInv
<1>2. CInv /\ [Next]_vars => CInv'
  BY StepInv, OfferStep, SlotStep DEF CInv
<1> QED
  BY <1>1, <1>2, PTL DEF Spec

(* The mailbox implements the two channels, for any set of threads and any *)
(* number of messages, each direction while it is used in order.           *)
THEOREM Implements == Spec => ImplementsChannel
<1>1. Init => Channel!Init
  <2> SUFFICES ASSUME Init PROVE Channel!Init
    OBVIOUS
  <2>1. Offered = 0
    BY OfferedNone DEF Init, Asking
  <2>2. TakenWhole = 0
    BY DEF Init, TakenWhole
  <2> QED
    BY <2>1, <2>2 DEF Init, Channel!Init
<1>2. CInv /\ CInv' /\ [Next]_vars => [Channel!Next]_Channel!vars
  BY OrderlyShrinks, WritesRefined, ReadsRefined
     DEF Channel!Next, WritesOrderly, ReadsOrderly, CInv, IInv
<1> QED
  BY <1>1, <1>2, ChannelSafety, PTL DEF Spec, ImplementsChannel, Channel!Spec
===========================================================================
