--------------------------- MODULE TritonMailbox ---------------------------
(***************************************************************************)
(* The mailbox of src/PF/pcie/src/kernel_src/triton_ep.c: two message      *)
(* slots and seven admin words in memory shared with the M3 processor.     *)
(* triton_ep_write hands a message down and waits for the answer,          *)
(* triton_ep_interrupt takes the answers and the notices of messages that  *)
(* come up, triton_ep_poll, the ioctl SHM_GET_LEN and triton_ep_read       *)
(* fetch those.                                                            *)
(*                                                                         *)
(* No lock covers a slot or a word: pcie_mutex is held for the one store   *)
(* that rings the doorbell. A message is a number, its place in the        *)
(* sequence of all messages of its direction; a length word holds the      *)
(* number of the message whose length it is. The M3 firmware is not in     *)
(* the repository: its actions are what the driver's use of the words      *)
(* supposes of it.                                                         *)
(***************************************************************************)
EXTENDS Integers

CONSTANTS
  Threads,      \* threads that use the one open file
  MaxWrites,    \* bound: messages written down
  MaxSends      \* bound: messages M3 sends up

ASSUME MailboxAssumption == MaxWrites \in Nat /\ MaxSends \in Nat

VARIABLES
  pc,         \* where each thread is
  msg,        \* the message a thread writes, or was told the length of
  writes,     \* writes begun
  downData,   \* slot at region_user + 0
  downLen,    \* admin[3]
  request,    \* admin[1] = 1
  answer,     \* admin[2] = 2
  doorbell,   \* admin[0] written, M3 not yet interrupted
  upData,     \* slot at region_user + 0x200000
  upLen,      \* admin[6]
  notice,     \* admin[4] = 1
  fetched,    \* admin[5] = 2
  msi,        \* an MSI is pending
  isr,        \* where triton_ep_interrupt is
  done,       \* write_complete.done
  readable,   \* data_readable
  m3Free,     \* M3 has seen that the up slot was fetched
  taken,      \* history: the message M3 took last, with the length it saw
  sends,      \* messages sent up
  got,        \* history: the last message copied to a reader
  orderly     \* history: which direction has been used as it has to be

downVars == <<downData, downLen, request, answer>>
upVars == <<upData, upLen, notice, fetched>>
wireVars == <<doorbell, msi>>
isrVars == <<isr, done, readable>>
m3Vars == <<m3Free, taken, sends>>
vars == <<pc, msg, writes, downVars, upVars, wireVars, isrVars, m3Vars, got, orderly>>

WritePc == {"wlength", "wrequest", "wring", "wwait"}
ReadPc == {"clear", "length", "copy", "fetched", "rring"}

TypeOK ==
  /\ pc \in [Threads -> {"idle"} \cup WritePc \cup ReadPc]
  /\ msg \in [Threads -> 0..MaxWrites \cup 0..MaxSends]
  /\ \A t \in Threads : pc[t] = "wlength" => msg[t] \in 0..MaxWrites
  /\ writes \in 0..MaxWrites
  /\ downData \in 0..MaxWrites /\ downLen \in 0..MaxWrites
  /\ request \in BOOLEAN /\ answer \in BOOLEAN
  /\ notice \in BOOLEAN /\ fetched \in BOOLEAN
  /\ doorbell \in BOOLEAN /\ msi \in BOOLEAN
  /\ readable \in BOOLEAN /\ m3Free \in BOOLEAN
  /\ upData \in 0..MaxSends /\ upLen \in 0..MaxSends
  /\ isr \in {"idle", "answer", "complete", "notice", "wake"}
  /\ done \in Nat
  /\ taken \in (0..MaxWrites) \X (0..MaxWrites)
  /\ sends \in 0..MaxSends
  /\ got \in 0..MaxSends
  /\ orderly \subseteq {"writes", "reads"}

Init ==
  /\ pc = [t \in Threads |-> "idle"]
  /\ msg = [t \in Threads |-> 0]
  /\ writes = 0
  /\ downData = 0 /\ downLen = 0
  /\ request = FALSE /\ answer = FALSE
  /\ upData = 0 /\ upLen = 0
  /\ notice = FALSE /\ fetched = FALSE
  /\ doorbell = FALSE /\ msi = FALSE
  /\ isr = "idle" /\ done = 0 /\ readable = FALSE
  /\ m3Free = TRUE /\ taken = <<0, 0>> /\ sends = 0
  /\ got = 0
  /\ orderly = {"writes", "reads"}

Goto(t, l) == pc' = [pc EXCEPT ![t] = l]
Sees(t, m) == msg' = [msg EXCEPT ![t] = m]
Leave(t) == Goto(t, "idle") /\ Sees(t, 0)

(* The mailbox copes with one write at a time, while none gives up, and    *)
(* with one thread at a time that polls and reads, while it reads what it  *)
(* polled for, once, into a good buffer. Bound: one of the two directions  *)
(* is used otherwise, not both.                                            *)
Alone(t, l) == \A o \in Threads \ {t} : pc[o] \notin l
Disorder(use) == orderly' = orderly \ {use} /\ orderly' # {}

---------------------------------------------------------------------------
(* triton_ep_write *)

(* copy_from_user, without a lock; if it fails it may have copied a part. *)
WriteCopy(t) ==
  /\ pc[t] = "idle"
  /\ writes < MaxWrites
  /\ writes' = writes + 1
  /\ downData' = writes'
  /\ IF Alone(t, WritePc) THEN UNCHANGED orderly ELSE Disorder("writes")
  /\ \/ Goto(t, "wlength") /\ Sees(t, writes')
     \/ Leave(t)
  /\ UNCHANGED <<downLen, request, answer, upVars, wireVars, isrVars, m3Vars, got>>

(* The ioctl SHM_WRITE copies to the same place, and then always fails:    *)
(* nothing sets dev_status to PCIEX_STS_NORMAL.                            *)
ShmWrite(t) ==
  /\ pc[t] = "idle"
  /\ writes < MaxWrites
  /\ writes' = writes + 1
  /\ downData' = writes'
  /\ IF Alone(t, WritePc) THEN UNCHANGED orderly ELSE Disorder("writes")
  /\ UNCHANGED <<pc, msg, downLen, request, answer, upVars, wireVars, isrVars, m3Vars, got>>

WriteLength(t) ==
  /\ pc[t] = "wlength"
  /\ downLen' = msg[t]
  /\ Goto(t, "wrequest")
  /\ UNCHANGED <<msg, writes, downData, request, answer, upVars, wireVars, isrVars, m3Vars, got, orderly>>

WriteRequest(t) ==
  /\ pc[t] = "wrequest"
  /\ request' = TRUE
  /\ Goto(t, "wring")
  /\ UNCHANGED <<msg, writes, downData, downLen, answer, upVars, wireVars, isrVars, m3Vars, got, orderly>>

FaultyWriteRing(t) ==      \* the doorbell is not rung
  /\ pc[t] = "wring"
  /\ Goto(t, "wwait")
  /\ UNCHANGED <<msg, writes, downVars, upVars, wireVars, isrVars, m3Vars, got, orderly>>

(* admin[0] = 1, under pcie_mutex, here and in ReadRing. *)
WriteRing(t) ==
  /\ pc[t] = "wring"
  /\ doorbell' = TRUE
  /\ Goto(t, "wwait")
  /\ UNCHANGED <<msg, writes, downVars, upVars, msi, isrVars, m3Vars, got, orderly>>

CompletionCounted == done > 0

WriteAnswered(t) ==
  /\ pc[t] = "wwait"
  /\ CompletionCounted
  /\ done' = done - 1
  /\ Leave(t)
  /\ UNCHANGED <<writes, downVars, upVars, wireVars, isr, readable, m3Vars, got, orderly>>

(* WRITE_TIMEOUT has passed: -EIO, and nothing is taken back. *)
WriteTimesOut(t) ==
  /\ pc[t] = "wwait"
  /\ done = 0
  /\ Leave(t)
  /\ Disorder("writes")
  /\ UNCHANGED <<writes, downVars, upVars, wireVars, isrVars, m3Vars, got>>

---------------------------------------------------------------------------
(* poll(2), the ioctl SHM_GET_LEN and read(2), in the order in which       *)
(* dummy_app_poll.c calls them. A poll that finds nothing changes nothing: *)
(* it sleeps on tdev->wait, where it was put before the test, or returns.  *)

PollTest(t) ==
  /\ pc[t] = "idle"
  /\ readable
  /\ IF Alone(t, ReadPc) THEN UNCHANGED orderly ELSE Disorder("reads")
  /\ Goto(t, "clear")
  /\ UNCHANGED <<msg, writes, downVars, upVars, wireVars, isrVars, m3Vars, got>>

PollClear(t) ==
  /\ pc[t] = "clear"
  /\ readable' = FALSE
  /\ Goto(t, "length")
  /\ UNCHANGED <<msg, writes, downVars, upVars, wireVars, isr, done, m3Vars, got, orderly>>

FaultyGetLength(t) ==      \* the slot is declared fetched too soon
  /\ pc[t] = "length"
  /\ Sees(t, upLen)
  /\ fetched' = TRUE /\ doorbell' = TRUE
  /\ Goto(t, "copy")
  /\ UNCHANGED <<writes, downVars, upData, upLen, notice, msi, isrVars, m3Vars, got, orderly>>

GetLength(t) ==
  /\ pc[t] = "length"
  /\ Sees(t, upLen)
  /\ Goto(t, "copy")
  /\ UNCHANGED <<writes, downVars, upVars, wireVars, isrVars, m3Vars, got, orderly>>

StartRead(t) ==
  /\ pc[t] = "idle"
  /\ Disorder("reads")
  /\ Goto(t, "length")
  /\ UNCHANGED <<msg, writes, downVars, upVars, wireVars, isrVars, m3Vars, got>>

ReadCopy(t) ==
  /\ pc[t] = "copy"
  /\ \/ got' = upData /\ Goto(t, "fetched") /\ UNCHANGED <<msg, orderly>>
     \/ got' = got /\ Leave(t) /\ Disorder("reads")
  /\ UNCHANGED <<writes, downVars, upVars, wireVars, isrVars, m3Vars>>

ReadFetched(t) ==
  /\ pc[t] = "fetched"
  /\ fetched' = TRUE
  /\ Goto(t, "rring")
  /\ UNCHANGED <<msg, writes, downVars, upData, upLen, notice, wireVars, isrVars, m3Vars, got, orderly>>

ReadRing(t) ==
  /\ pc[t] = "rring"
  /\ doorbell' = TRUE
  /\ Leave(t)
  /\ UNCHANGED <<writes, downVars, upVars, msi, isrVars, m3Vars, got, orderly>>

ThreadStep(t) ==
  \/ WriteLength(t) \/ WriteRequest(t) \/ WriteRing(t) \/ WriteAnswered(t)
  \/ PollClear(t) \/ GetLength(t) \/ ReadCopy(t) \/ ReadFetched(t) \/ ReadRing(t)

---------------------------------------------------------------------------
(* triton_ep_interrupt: one run per MSI; M3 acts between its steps.        *)

IsrEnter ==
  /\ isr = "idle" /\ msi
  /\ msi' = FALSE
  /\ isr' = "answer"
  /\ UNCHANGED <<pc, msg, writes, downVars, upVars, doorbell, done, readable, m3Vars, got, orderly>>

FaultyAnswered == TRUE
FaultyCompleted == done

Answered == answer
Completed == done + 1

IsrTestAnswer ==
  /\ isr = "answer"
  /\ isr' = IF Answered THEN "complete" ELSE "notice"
  /\ UNCHANGED <<pc, msg, writes, downVars, upVars, wireVars, done, readable, m3Vars, got, orderly>>

IsrComplete ==
  /\ isr = "complete"
  /\ answer' = FALSE
  /\ done' = Completed
  /\ isr' = "notice"
  /\ UNCHANGED <<pc, msg, writes, downData, downLen, request, upVars, wireVars, readable, m3Vars, got, orderly>>

IsrTestNotice ==
  /\ isr = "notice"
  /\ isr' = IF notice THEN "wake" ELSE "idle"
  /\ UNCHANGED <<pc, msg, writes, downVars, upVars, wireVars, done, readable, m3Vars, got, orderly>>

FaultyIsrWake ==           \* data_readable is not set
  /\ isr = "wake"
  /\ notice' = FALSE
  /\ isr' = "idle"
  /\ UNCHANGED <<pc, msg, writes, downVars, upData, upLen, fetched, wireVars, done, readable, m3Vars, got, orderly>>

IsrWake ==
  /\ isr = "wake"
  /\ notice' = FALSE
  /\ readable' = TRUE
  /\ isr' = "idle"
  /\ UNCHANGED <<pc, msg, writes, downVars, upData, upLen, fetched, wireVars, done, m3Vars, got, orderly>>

IsrStep == IsrEnter \/ IsrTestAnswer \/ IsrComplete \/ IsrTestNotice \/ IsrWake

---------------------------------------------------------------------------
(* The M3: what its doorbell handler and its sender do. *)

M3Answer ==
  /\ doorbell
  /\ doorbell' = FALSE
  /\ IF request
     THEN /\ taken' = <<downData, downLen>>
          /\ request' = FALSE /\ answer' = TRUE /\ msi' = TRUE
     ELSE UNCHANGED <<taken, request, answer, msi>>
  /\ m3Free' = (m3Free \/ fetched)
  /\ fetched' = FALSE
  /\ UNCHANGED <<pc, msg, writes, downData, downLen, upData, upLen, notice, isrVars, sends, got, orderly>>

M3Send ==
  /\ m3Free
  /\ sends < MaxSends
  /\ sends' = sends + 1
  /\ upData' = sends' /\ upLen' = sends'
  /\ notice' = TRUE /\ msi' = TRUE
  /\ m3Free' = FALSE
  /\ UNCHANGED <<pc, msg, writes, downVars, fetched, doorbell, isrVars, taken, got, orderly>>

Next ==
  \/ \E t \in Threads :
       \/ WriteCopy(t) \/ ShmWrite(t) \/ WriteTimesOut(t) \/ PollTest(t) \/ StartRead(t)
       \/ ThreadStep(t)
  \/ IsrStep \/ M3Answer \/ M3Send

Spec == Init /\ [][Next]_vars

(* A thread in the driver keeps running, a pending interrupt is served on  *)
(* either side. Nothing makes a client call or the M3 send.                *)
Fairness ==
  /\ \A t \in Threads : WF_vars(ThreadStep(t))
  /\ WF_vars(IsrStep)
  /\ WF_vars(M3Answer)

FairSpec == Spec /\ Fairness

---------------------------------------------------------------------------
(* Safety *)

WritesOrderly == "writes" \in orderly
ReadsOrderly == "reads" \in orderly

(* As long as one thread writes at a time and none gave up, a write that   *)
(* finds its completion counted has been taken by M3, with its own length: *)
(* nothing the readers ring or M3 sends meanwhile is mistaken for the      *)
(* answer.                                                                 *)
SuccessMeansTaken ==
  \A t \in Threads :
    WritesOrderly /\ pc[t] = "wwait" /\ done > 0 => taken = <<msg[t], msg[t]>>

(* Nor is the answer to an orderly write lost, whichever of the two sides  *)
(* is where in its interrupt handler when the other one acts.              *)
NoLostAnswer ==
  \A t \in Threads :
    WritesOrderly /\ pc[t] = "wwait" =>
      \/ request /\ doorbell
      \/ answer /\ (msi \/ isr \in {"answer", "complete"})
      \/ done > 0

(* As long as one thread at a time polls and then reads, the message it    *)
(* copies is the one whose length it was told, and it is the newest.       *)
MessageIntact ==
  \A t \in Threads :
    ReadsOrderly /\ pc[t] = "copy" => msg[t] = upData /\ upData = sends

(* A message that was sent up and has not been copied is announced, or a   *)
(* reader is on its way to fetch it: clearing data_readable after the test *)
(* does not lose a notice.                                                 *)
NoLostNotice ==
  ReadsOrderly /\ got # sends =>
    \/ notice /\ (msi \/ isr # "idle")
    \/ readable
    \/ \E t \in Threads : pc[t] \in {"length", "copy"}

(* Refinement *)

(* The message that has been asked for and whose writer waits. *)
Asking == {"wring", "wwait"}
Offered ==
  IF \E t \in Threads : pc[t] \in Asking
    THEN msg[CHOOSE t \in Threads : pc[t] \in Asking] ELSE 0

(* Taken with a length that is not its own, a message is none.             *)
TakenWhole == IF taken[1] = taken[2] THEN taken[1] ELSE -1

Channel == INSTANCE MailboxChannel WITH
  kept <- orderly,
  offer <- Offered,
  taken <- TakenWhole,
  slot <- IF m3Free THEN 0 ELSE upData

(* The words, slots, flags and interrupts on both sides implement two      *)
(* channels with room for one message each, in each direction as long as   *)
(* its users keep to the protocol, even when the users of the other do     *)
(* not: no message is taken twice, lost, overtaken or overwritten.         *)
ImplementsChannel == Channel!Spec

(* Liveness *)

(* A write returns though no timeout ends it, unless another write or an   *)
(* earlier timeout got in its way.                                         *)
WriteReturns ==
  \A t \in Threads : pc[t] = "wwait" ~> pc[t] # "wwait" \/ ~WritesOrderly

---------------------------------------------------------------------------
(* What the comments say, and the code does not do. *)

(* triton_ep.c:215 "count - Completed successfully", where the completion  *)
(* is given if (line 91) "the data written by Atom is read by M3": no      *)
(* write succeeds before M3 has taken its message.                         *)
SuccessIsOwn ==
  \A t \in Threads : pc[t] = "wwait" /\ done > 0 => taken[1] = msg[t]
===========================================================================
