------------------------------- MODULE Ioctl -------------------------------
(***************************************************************************)
(* Control requests to the CYW43 radio: Control::ioctl_inner, IoctlState   *)
(* and the part of Runner that sends requests and receives their answers.  *)
(*                                                                         *)
(* One request at a time lives in a shared slot that holds a raw pointer   *)
(* to the caller's buffer.  The caller is a future that a timeout can drop *)
(* at any await, after the request reached the chip and before its answer  *)
(* did.  The runner may send only within the credit the chip grants, in    *)
(* 8-bit sequence numbers.  A wake cycle builds all of this anew, so a     *)
(* behaviour is one session of at most 60 seconds.                         *)
(***************************************************************************)
EXTENDS Integers, Sequences

CONSTANTS
  MaxRequests,      \* bound: requests made in one session
  IdModulus,        \* 2^16 in the code: values of ioctl_id
  SequenceModulus,  \* 2^8 in the code: values of sdpcm_seq
  Window,           \* frames the chip takes ahead of its processing
  MaxFrames         \* bound: frames waiting in the chip for the runner

(* A session is far too short to use up the identifiers, and the chip      *)
(* never grants more than update_credit believes.                          *)
ASSUME SessionAssumption ==
  /\ MaxRequests \in Nat /\ IdModulus \in Nat
  /\ MaxRequests < IdModulus

ASSUME CreditAssumption ==
  /\ SequenceModulus \in Nat /\ SequenceModulus >= 4
  /\ SequenceModulus % 4 = 0
  /\ Window \in 1 .. SequenceModulus \div 4
  /\ MaxFrames \in Nat \ {0}

VARIABLES
  slot,           \* IoctlState.state, with the request its buffer belongs to
  caller,         \* the request an ioctl future waits for, or 0
  requests,       \* requests made so far
  ioctl_id,       \* Runner: identifier of the last request sent
  sdpcm_seq,      \* Runner: sequence number of the next frame
  sdpcm_seq_max,  \* Runner: the sequence number to stop before
  halted,         \* the runner panicked
  to_chip,        \* frames sent and not yet taken by the chip
  consumed,       \* frames the chip has taken, in 8 bits
  unanswered,     \* requests the chip has taken and not answered
  from_chip       \* frames the chip offers to the runner

control == <<slot, caller, requests>>
credit  == <<sdpcm_seq, sdpcm_seq_max>>
chip    == <<to_chip, consumed, unanswered, from_chip>>
vars    == <<slot, caller, requests, ioctl_id, sdpcm_seq, sdpcm_seq_max, halted,
             to_chip, consumed, unanswered, from_chip>>

(* A request is known by its number; 0 stands for none.  A finished slot   *)
(* records the request whose answer was copied, 0 after a cancellation.    *)
Pending(r) == [state |-> "pending", request |-> r]
Sent(r)    == [state |-> "sent", request |-> r]
Done(r)    == [state |-> "done", request |-> r]

Frame(id, r) == [id |-> id, request |-> r]
Data         == Frame(0, 0)

Answer(f, ok, limit) ==
  [channel |-> "control", id |-> f.id, request |-> f.request, ok |-> ok, limit |-> limit]
Other(limit) ==
  [channel |-> "other", id |-> 0, request |-> 0, ok |-> TRUE, limit |-> limit]

Init ==
  /\ slot = Done(0)
  /\ caller = 0
  /\ requests = 0
  /\ ioctl_id = 0
  /\ sdpcm_seq = 0
  /\ sdpcm_seq_max = 1
  /\ halted = FALSE
  /\ to_chip = <<>>
  /\ consumed = 0
  /\ unanswered = {}
  /\ from_chip = <<>>

-----------------------------------------------------------------------------
(* The caller.                                                             *)

DoIoctl ==
  /\ ~ halted
  /\ caller = 0
  /\ requests < MaxRequests
  /\ requests' = requests + 1
  /\ slot' = Pending(requests')
  /\ caller' = requests'
  /\ UNCHANGED <<ioctl_id, credit, halted, chip>>

IoctlReturns ==
  /\ ~ halted
  /\ caller # 0
  /\ slot.state = "done"
  /\ caller' = 0
  /\ UNCHANGED <<slot, requests, ioctl_id, credit, halted, chip>>

(* Faulty: dropping the future leaves its request in the slot. *)
BadIoctlDropped ==
  /\ ~ halted
  /\ caller # 0
  /\ caller' = 0
  /\ UNCHANGED <<slot, requests, ioctl_id, credit, halted, chip>>

(* A timeout drops the future: CancelOnDrop empties the slot. *)
IoctlDropped ==
  /\ ~ halted
  /\ caller # 0
  /\ slot' = Done(0)
  /\ caller' = 0
  /\ UNCHANGED <<requests, ioctl_id, credit, halted, chip>>

-----------------------------------------------------------------------------
(* The runner.                                                             *)

(* Faulty: compared as numbers, forgetting that both wrap. *)
BadHasCredit == sdpcm_seq < sdpcm_seq_max

HasCredit ==
  /\ sdpcm_seq # sdpcm_seq_max
  /\ (sdpcm_seq_max - sdpcm_seq) % SequenceModulus < SequenceModulus \div 2

(* Faulty: a limit not ahead of the last frame is taken for an absurd one. *)
BadLimit(limit) ==
  IF (limit - sdpcm_seq) % SequenceModulus \in 1 .. SequenceModulus \div 4
  THEN limit
  ELSE (sdpcm_seq + 2) % SequenceModulus

(* update_credit: an absurd limit is replaced by two frames of credit. *)
Limit(limit) ==
  IF (limit - sdpcm_seq) % SequenceModulus > SequenceModulus \div 4
  THEN (sdpcm_seq + 2) % SequenceModulus
  ELSE limit

SendFrame(f) ==
  /\ to_chip' = Append(to_chip, f)
  /\ sdpcm_seq' = (sdpcm_seq + 1) % SequenceModulus
  /\ UNCHANGED <<sdpcm_seq_max, halted, caller, requests, consumed, unanswered, from_chip>>

(* wait_pending is the first branch of select4: a waiting request goes     *)
(* before any packet.  Its bytes are copied before the first await.        *)
SendIoctl ==
  /\ ~ halted
  /\ HasCredit
  /\ slot.state = "pending"
  /\ slot' = Sent(slot.request)
  /\ ioctl_id' = (ioctl_id + 1) % IdModulus
  /\ SendFrame(Frame(ioctl_id', slot.request))

SendPacket ==
  /\ ~ halted
  /\ HasCredit
  /\ slot.state # "pending"
  /\ SendFrame(Data)
  /\ UNCHANGED <<slot, ioctl_id>>

(* Faulty: any control answer is taken for the answer. *)
BadMatches(f) == f.channel = "control"

Matches(f) == f.channel = "control" /\ f.id = ioctl_id

IoctlDone(f) ==
  IF slot.state = "sent" THEN slot' = Done(f.request) ELSE UNCHANGED slot

(* check_status and rx, one frame. *)
Receive ==
  /\ ~ halted
  /\ from_chip # <<>>
  /\ LET f == Head(from_chip) IN
       /\ sdpcm_seq_max' = Limit(f.limit)
       /\ halted' = (Matches(f) /\ ~ f.ok)
       /\ IF Matches(f) /\ f.ok THEN IoctlDone(f) ELSE UNCHANGED slot
  /\ from_chip' = Tail(from_chip)
  /\ UNCHANGED <<caller, requests, ioctl_id, sdpcm_seq, to_chip, consumed, unanswered>>

-----------------------------------------------------------------------------
(* The chip, as the runner relies on it: it takes frames in order, answers *)
(* requests in any order, and every frame it sends carries its limit.      *)

Granted == (consumed + Window) % SequenceModulus

ChipTakes ==
  /\ to_chip # <<>>
  /\ consumed' = (consumed + 1) % SequenceModulus
  /\ to_chip' = Tail(to_chip)
  /\ unanswered' = IF Head(to_chip) = Data THEN unanswered
                                          ELSE unanswered \cup {Head(to_chip)}
  /\ UNCHANGED <<control, ioctl_id, credit, halted, from_chip>>

ChipAnswers ==
  /\ Len(from_chip) < MaxFrames
  /\ \E f \in unanswered, ok \in BOOLEAN :
       /\ unanswered' = unanswered \ {f}
       /\ from_chip' = Append(from_chip, Answer(f, ok, Granted))
  /\ UNCHANGED <<control, ioctl_id, credit, halted, to_chip, consumed>>

ChipSends ==
  /\ Len(from_chip) < MaxFrames
  /\ from_chip' = Append(from_chip, Other(Granted))
  /\ UNCHANGED <<control, ioctl_id, credit, halted, to_chip, consumed, unanswered>>

-----------------------------------------------------------------------------
Next ==
  \/ DoIoctl \/ IoctlReturns \/ IoctlDropped
  \/ SendIoctl \/ SendPacket \/ Receive
  \/ ChipTakes \/ ChipAnswers \/ ChipSends

Spec == Init /\ [][Next]_vars

(* The runner and the caller are polled again whenever they can go on, and *)
(* the chip goes on taking, answering and sending.                         *)
Fairness ==
  /\ WF_vars(IoctlReturns) /\ WF_vars(SendIoctl) /\ WF_vars(Receive)
  /\ WF_vars(ChipTakes) /\ SF_vars(ChipAnswers) /\ SF_vars(ChipSends)

LiveSpec == Spec /\ Fairness

-----------------------------------------------------------------------------
(* Correctness.                                                            *)

Frames == [id : 0 .. IdModulus - 1, request : 0 .. MaxRequests]
Offers == [channel : {"control", "other"}, id : 0 .. IdModulus - 1,
           request : 0 .. MaxRequests, ok : BOOLEAN, limit : 0 .. SequenceModulus - 1]

TypeOK ==
  /\ slot \in [state : {"pending", "sent", "done"}, request : 0 .. MaxRequests]
  /\ caller \in 0 .. MaxRequests /\ requests \in 0 .. MaxRequests
  /\ ioctl_id \in 0 .. IdModulus - 1
  /\ sdpcm_seq \in 0 .. SequenceModulus - 1
  /\ sdpcm_seq_max \in 0 .. SequenceModulus - 1
  /\ consumed \in 0 .. SequenceModulus - 1
  /\ halted \in BOOLEAN
  /\ to_chip \in Seq(Frames) /\ unanswered \subseteq Frames
  /\ from_chip \in Seq(Offers)

(* The slot's raw pointer is live: while a request is in the slot, the     *)
(* future that owns its buffer is still waiting for it.                    *)
BufferAlive == slot.state # "done" => caller # 0 /\ caller = slot.request

(* A caller that is about to return got the answer to its own request: a   *)
(* late answer to an abandoned request is never taken for it.              *)
OwnAnswer == caller # 0 /\ slot.state = "done" => slot.request = caller

(* The chip never has more frames to take than it granted, although both   *)
(* sides count in 8 bits and the runner learns its limit late.             *)
WithinGrant == Len(to_chip) <= Window

(* A request is answered or abandoned, however the sequence numbers wrap   *)
(* and however packets compete with it for credit, unless the runner       *)
(* panicked on a refusal.                                                  *)
RequestsEnd == \A r \in 1 .. MaxRequests : caller = r ~> caller # r \/ halted
=============================================================================
