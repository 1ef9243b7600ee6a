------------------------------ MODULE PciexShm ------------------------------
(***************************************************************************)
(* The requests that src/PF/pcie/src/kernel_src/pciex_manageshm.c makes of *)
(* the shared memory manager on the other processor: get_info, create,     *)
(* release, attach, detach, lock and unlock of a segment.                  *)
(*                                                                         *)
(* All of them use one packet in the admin region, a message type and a    *)
(* union of request structures, without a lock: write the type, the        *)
(* request and a return code of zero, ring the doorbell, and read the      *)
(* packet back at once, for the wait for the answer is commented out. The  *)
(* packet is modelled word by word as far as who wrote it: the members of  *)
(* the union lie over each other, so the return code of one request is an  *)
(* argument of another.                                                    *)
(*                                                                         *)
(* The doorbell, msi[0], is the first word of the admin region, and so the *)
(* mailbox's admin[0]: read(2) and write(2) ring it with the same value,   *)
(* whatever a request has written so far.                                  *)
(*                                                                         *)
(* The peer is not in the repository. It takes what is in the packet when  *)
(* the doorbell rings, for it cannot see who rang, and answers it in the   *)
(* packet, the return code last. The module has no specification of its    *)
(* own: TritonDevice says when its operations can be called.               *)
(***************************************************************************)
EXTENDS Integers, FiniteSets

CONSTANTS
  Callers,      \* threads that call ioctl
  Peer, Nobody,
  Kinds,        \* the message types that are used
  MaxRequests   \* bound: requests made

(* The seven requests: the words of their structure, which the return code *)
(* follows; the address among them to which the base of user memory is     *)
(* added; whether the structure is copied back to the caller.              *)
GetShmInfo == [words |-> 3, rebased |-> {1}, back |-> TRUE]
CreateShm == [words |-> 7, rebased |-> {3}, back |-> TRUE]
ReleaseShm == [words |-> 7, rebased |-> {}, back |-> TRUE]
AttachShm == [words |-> 7, rebased |-> {3}, back |-> TRUE]
DetachShm == [words |-> 7, rebased |-> {}, back |-> TRUE]
LockShm == [words |-> 3, rebased |-> {}, back |-> FALSE]
UnlockShm == [words |-> 3, rebased |-> {}, back |-> FALSE]

Message ==
  [get_info |-> GetShmInfo, create |-> CreateShm, release |-> ReleaseShm,
   attach |-> AttachShm, detach |-> DetachShm, lock |-> LockShm, unlock |-> UnlockShm]

AllKinds == DOMAIN Message

ASSUME ShmAssumption ==
  /\ Peer \notin Callers /\ Nobody \notin Callers \cup {Peer}
  /\ Kinds \subseteq AllKinds /\ Kinds # {}
  /\ MaxRequests \in Nat

VARIABLES
  call,       \* where a caller is
  kind,       \* the request it makes
  result,     \* who wrote the words it read back
  msgtype,    \* msgpkt.msgtype, and who wrote it
  msgdata,    \* who wrote each word of msgpkt.msgdata
  doorbell,   \* msi[0], the word PESHM_SHM_REQ selects: who has set it
  peer,       \* the request the peer works on, or NoRequest
  answered,   \* history: the callers whose last request the peer answered
  clash,      \* history: a request was begun before the last one was over,
              \* or the mailbox rang while one was being written
  requests    \* requests made so far

shmVars == <<call, kind, result, msgtype, msgdata, doorbell, peer, answered, clash,
             requests>>

Authors == Callers \cup {Peer, Nobody}
Words == 0..7

ReturnWord(k) == Message[k].words
RequestWords(k) == 0..(ReturnWord(k) - 1)
CopiedBack == {k \in AllKinds : Message[k].back}

NoRequest == [kind |-> "none", from |-> {}, filled |-> FALSE, asked |-> FALSE]

CallPc == {"idle", "type", "request", "clear", "ring", "copy", "return"}

ShmTypeOK ==
  /\ call \in [Callers -> CallPc]
  /\ kind \in [Callers -> Kinds \cup {"none"}]
  /\ result \in [Callers -> SUBSET Authors]
  /\ msgtype \in [kind : Kinds \cup {"none"}, by : Authors]
  /\ msgdata \in [Words -> Authors]
  /\ doorbell \subseteq {"request", "mailbox"}
  /\ peer \in [kind : Kinds \cup {"none"}, from : SUBSET Authors, filled : BOOLEAN,
               asked : BOOLEAN]
  /\ answered \subseteq Callers
  /\ clash \in BOOLEAN
  /\ requests \in 0..MaxRequests

ShmInit ==
  /\ call = [c \in Callers |-> "idle"]
  /\ kind = [c \in Callers |-> "none"]
  /\ result = [c \in Callers |-> {}]
  /\ msgtype = [kind |-> "none", by |-> Nobody]
  /\ msgdata = [i \in Words |-> Nobody]
  /\ doorbell = {} /\ peer = NoRequest
  /\ answered = {} /\ clash = FALSE /\ requests = 0

Written(words, who) == [i \in Words |-> IF i \in words THEN who ELSE msgdata[i]]

Steps(c, from, to) == call[c] = from /\ call' = [call EXCEPT ![c] = to]

NoCalls == \A c \in Callers : call[c] = "idle"

(* Nobody is between the type and the return, and the peer has nothing     *)
(* left to do.                                                             *)
Quiet == NoCalls /\ doorbell = {} /\ peer = NoRequest

---------------------------------------------------------------------------
(* A request *)

(* ioctl: the dispatcher and the wrapper of the command. *)
StartRequest(c, k) ==
  /\ Steps(c, "idle", "type")
  /\ requests < MaxRequests
  /\ requests' = requests + 1
  /\ kind' = [kind EXCEPT ![c] = k]
  /\ result' = [result EXCEPT ![c] = {}]
  /\ answered' = answered \ {c}
  /\ clash' = (clash \/ ~Quiet)
  /\ UNCHANGED <<msgtype, msgdata, doorbell, peer>>

WriteType(c) ==
  /\ Steps(c, "type", "request")
  /\ msgtype' = [kind |-> kind[c], by |-> c]
  /\ UNCHANGED <<kind, result, msgdata, doorbell, peer, answered, clash, requests>>

WriteRequest(c) ==
  /\ Steps(c, "request", "clear")
  /\ msgdata' = Written(RequestWords(kind[c]), c)
  /\ UNCHANGED <<kind, result, msgtype, doorbell, peer, answered, clash, requests>>

FaultyWriteReturnCode(c) ==      \* the code of the last request is left
  /\ Steps(c, "clear", "ring")
  /\ UNCHANGED <<kind, result, msgtype, msgdata, doorbell, peer, answered, clash, requests>>

WriteReturnCode(c) ==
  /\ Steps(c, "clear", "ring")
  /\ msgdata' = Written({ReturnWord(kind[c])}, c)
  /\ UNCHANGED <<kind, result, msgtype, doorbell, peer, answered, clash, requests>>

(* pciex_issue_req: the doorbell. flgptn is zero and stays zero, so there  *)
(* is no abort.                                                            *)
IssueRequest(c) ==
  /\ Steps(c, "ring", IF kind[c] \in CopiedBack THEN "copy" ELSE "return")
  /\ doorbell' = doorbell \cup {"request"}
  /\ UNCHANGED <<kind, result, msgtype, msgdata, peer, answered, clash, requests>>

(* triton_ep_read and triton_ep_write: admin[0] = 1. pcie_mutex covers     *)
(* this store, and no request takes it.                                    *)
Writing == {c \in Callers : call[c] \in {"type", "request", "clear", "ring"}}

MailboxRings ==
  /\ doorbell' = doorbell \cup {"mailbox"}
  /\ clash' = (clash \/ Writing # {})
  /\ UNCHANGED <<call, kind, result, msgtype, msgdata, peer, answered, requests>>

(* *p_req = ..., after the address has been rebased in the packet: it is   *)
(* the peer's offset by now, or still the caller's own word, or the        *)
(* caller's own word that the addition has written over the peer's.        *)
CopyBack(c) ==
  /\ Steps(c, "copy", "return")
  /\ msgdata' \in {msgdata, Written(Message[kind[c]].rebased, c)}
  /\ result' = [result EXCEPT ![c] = {msgdata'[i] : i \in RequestWords(kind[c])}]
  /\ UNCHANGED <<kind, msgtype, doorbell, peer, answered, clash, requests>>

(* The wrapper passes the code on; the dispatcher returns 0. *)
ReturnResult(c) ==
  /\ Steps(c, "return", "idle")
  /\ result' = [result EXCEPT ![c] = @ \cup {msgdata[ReturnWord(kind[c])]}]
  /\ UNCHANGED <<kind, msgtype, msgdata, doorbell, peer, answered, clash, requests>>

RequestStep(c) ==
  \/ WriteType(c) \/ WriteRequest(c) \/ WriteReturnCode(c) \/ IssueRequest(c)
  \/ CopyBack(c) \/ ReturnResult(c)

---------------------------------------------------------------------------
(* The peer *)

(* The packet may be an earlier request, which is taken once more, or      *)
(* never have had a type.                                                  *)
PeerTakes ==
  /\ doorbell # {} /\ peer = NoRequest
  /\ doorbell' = {}
  /\ peer' = IF msgtype.kind = "none" THEN NoRequest
             ELSE [kind |-> msgtype.kind, filled |-> FALSE, asked |-> "request" \in doorbell,
                   from |-> {msgtype.by} \cup {msgdata[i] : i \in RequestWords(msgtype.kind)}]
  /\ UNCHANGED <<call, kind, result, msgtype, msgdata, answered, clash, requests>>

PeerFills ==
  /\ peer.kind \in CopiedBack /\ ~peer.filled
  /\ peer' = [peer EXCEPT !.filled = TRUE]
  /\ msgdata' = Written(RequestWords(peer.kind), Peer)
  /\ answered' = answered \cup (peer.from \cap Callers)
  /\ UNCHANGED <<call, kind, result, msgtype, doorbell, clash, requests>>

PeerAnswers ==
  /\ peer # NoRequest /\ (peer.filled \/ peer.kind \notin CopiedBack)
  /\ peer' = NoRequest
  /\ msgdata' = Written({ReturnWord(peer.kind)}, Peer)
  /\ answered' = answered \cup (peer.from \cap Callers)
  /\ UNCHANGED <<call, kind, result, msgtype, doorbell, clash, requests>>

ShmStep ==
  \/ \E c \in Callers : RequestStep(c)
  \/ PeerTakes \/ PeerFills \/ PeerAnswers

---------------------------------------------------------------------------
(* What a caller rang for the peer takes whole: its type and all of its    *)
(* words are from one caller and of the kind this caller makes. What only  *)
(* the mailbox rang for is a request of one caller again, perhaps with the *)
(* peer's answer in it.                                                    *)
TakenWhole ==
  peer # NoRequest =>
    \E c \in Callers :
      /\ peer.kind = kind[c] /\ peer.from \subseteq {c, Peer}
      /\ peer.asked => peer.from = {c}

(* What a caller has read back is its own words or the peer's answer to    *)
(* this very request, never what was left of an earlier one.               *)
ReadBackOwn ==
  \A c \in Callers :
    /\ result[c] \subseteq {c, Peer}
    /\ Peer \in result[c] => c \in answered
===========================================================================
