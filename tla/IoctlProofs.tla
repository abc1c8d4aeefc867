---------------------------- MODULE IoctlProofs ----------------------------
(***************************************************************************)
(* Proofs about Ioctl, for every number of requests, every width of the    *)
(* counters and every window: the counters keep their width, the buffer in *)
(* the slot is alive, a caller gets the answer to its own request, and the *)
(* chip is sent no more than it granted.                                   *)
(***************************************************************************)
EXTENDS Ioctl, TLAPS

(* An identifier is used once, so what still travels under the current     *)
(* identifier belongs to the request in the slot.                          *)
Fresh(f) ==
  /\ f.id <= ioctl_id
  /\ f.id = ioctl_id /\ slot.state = "sent" => f.request = slot.request

IdsUsedOnce ==
  /\ ioctl_id <= requests
  /\ slot.state = "pending" => ioctl_id < requests
  /\ slot.state = "sent" => ioctl_id > 0

AllFresh ==
  /\ \A i \in 1 .. Len(to_chip) : Fresh(to_chip[i])
  /\ \A f \in unanswered : Fresh(f)
  /\ \A i \in 1 .. Len(from_chip) : Fresh(from_chip[i])

IInv == TypeOK /\ IdsUsedOnce /\ AllFresh /\ BufferAlive /\ OwnAnswer

-----------------------------------------------------------------------------
LEMMA InitIInv == Init => IInv
<1> SUFFICES ASSUME Init PROVE IInv
  OBVIOUS
<1> USE SessionAssumption, CreditAssumption DEF Init, Done
<1>1. TypeOK
  <2>1. to_chip \in Seq(Frames) /\ from_chip \in Seq(Offers) /\ unanswered \subseteq Frames
    OBVIOUS
  <2>2. slot \in [state : {"pending", "sent", "done"}, request : 0 .. MaxRequests]
    OBVIOUS
  <2>3. 0 \in 0 .. SequenceModulus - 1 /\ 1 \in 0 .. SequenceModulus - 1
    OBVIOUS
  <2>4. 0 \in 0 .. MaxRequests /\ 0 \in 0 .. IdModulus - 1
    OBVIOUS
  <2> QED
    BY <2>1, <2>2, <2>3, <2>4 DEF TypeOK
<1>2. IdsUsedOnce /\ AllFresh
  BY DEF IdsUsedOnce, AllFresh
<1>3. BufferAlive /\ OwnAnswer
  BY DEF BufferAlive, OwnAnswer
<1> QED
  BY <1>1, <1>2, <1>3 DEF IInv

-----------------------------------------------------------------------------
(* The caller's steps touch no frame; only the state of the slot matters   *)
(* to what is in flight.                                                   *)
LEMMA CallerKeepsFrames ==
  ASSUME AllFresh, UNCHANGED <<ioctl_id, chip>>, slot'.state # "sent"
  PROVE  AllFresh'
BY DEF AllFresh, Fresh, chip

LEMMA DoIoctlIInv == ASSUME IInv, DoIoctl PROVE IInv'
<1> USE SessionAssumption DEF DoIoctl, Pending, IInv
<1>1. requests' \in 1 .. MaxRequests
  BY DEF TypeOK
<1>2. TypeOK'
  BY <1>1 DEF TypeOK, credit, chip
<1>3. IdsUsedOnce'
  BY DEF IdsUsedOnce, TypeOK
<1>4. AllFresh'
  BY CallerKeepsFrames
<1>5. BufferAlive' /\ OwnAnswer'
  BY <1>1 DEF BufferAlive, OwnAnswer
<1> QED
  BY <1>2, <1>3, <1>4, <1>5

LEMMA IoctlReturnsIInv == ASSUME IInv, IoctlReturns PROVE IInv'
<1> USE DEF IoctlReturns, IInv
<1>1. TypeOK'
  BY SessionAssumption DEF TypeOK, credit, chip
<1>2. IdsUsedOnce'
  BY DEF IdsUsedOnce
<1>3. AllFresh'
  BY CallerKeepsFrames
<1>4. BufferAlive' /\ OwnAnswer'
  BY DEF BufferAlive, OwnAnswer
<1> QED
  BY <1>1, <1>2, <1>3, <1>4

LEMMA IoctlDroppedIInv == ASSUME IInv, IoctlDropped PROVE IInv'
<1> USE DEF IoctlDropped, IInv, Done
<1>1. TypeOK'
  BY SessionAssumption DEF TypeOK, credit, chip
<1>2. IdsUsedOnce'
  BY DEF IdsUsedOnce
<1>3. AllFresh'
  BY CallerKeepsFrames
<1>4. BufferAlive' /\ OwnAnswer'
  BY DEF BufferAlive, OwnAnswer
<1> QED
  BY <1>1, <1>2, <1>3, <1>4

-----------------------------------------------------------------------------
LEMMA WrapsInRange ==
  \A x \in Int : x % SequenceModulus \in 0 .. SequenceModulus - 1
BY CreditAssumption

LEMMA NoWrapBelow ==
  \A x \in Nat : x < IdModulus => x % IdModulus = x
BY SessionAssumption

(* Sending a request takes an identifier nothing in flight has yet. *)
LEMMA SendIoctlIInv == ASSUME IInv, SendIoctl PROVE IInv'
<1> DEFINE f == Frame(ioctl_id', slot.request)
<1> USE SessionAssumption DEF SendIoctl, SendFrame, IInv, Sent
<1>1. ioctl_id' = ioctl_id + 1 /\ ioctl_id' \in 1 .. requests /\ ioctl_id' < IdModulus
  <2>1. ioctl_id \in Nat /\ ioctl_id + 1 <= requests /\ requests < IdModulus
    BY DEF TypeOK, IdsUsedOnce
  <2>2. ioctl_id + 1 \in Nat /\ ioctl_id + 1 < IdModulus
    BY <2>1 DEF TypeOK
  <2>3. (ioctl_id + 1) % IdModulus = ioctl_id + 1
    BY <2>2, NoWrapBelow
  <2>4. ioctl_id' = ioctl_id + 1
    BY <2>3
  <2> QED
    BY <2>1, <2>4 DEF TypeOK
<1>2. f \in Frames /\ f.id = ioctl_id' /\ f.request = slot.request
  BY <1>1 DEF TypeOK, Frames, Frame
<1>3. to_chip' = Append(to_chip, f)
  OBVIOUS
<1> HIDE DEF f
<1>4. TypeOK'
  <2>1. to_chip' \in Seq(Frames)
    BY <1>2, <1>3 DEF TypeOK
  <2>2. sdpcm_seq' \in 0 .. SequenceModulus - 1
    BY WrapsInRange DEF TypeOK
  <2> QED
    BY <1>1, <2>1, <2>2 DEF TypeOK
<1>5. IdsUsedOnce'
  BY <1>1 DEF IdsUsedOnce, TypeOK
<1>6. ASSUME NEW g, g.id \in Nat, Fresh(g)
      PROVE  Fresh(g)'
  BY <1>1, <1>6 DEF Fresh, TypeOK
<1>7. AllFresh'
  <2>1. ASSUME NEW i \in 1 .. Len(to_chip') PROVE Fresh(to_chip[i])'
    <3>1. CASE i = Len(to_chip) + 1
      <4>1. to_chip'[i] = f
        BY <1>2, <1>3, <3>1 DEF TypeOK
      <4> QED
        BY <1>1, <1>2, <4>1 DEF Fresh, TypeOK
    <3>2. CASE i # Len(to_chip) + 1
      <4>1. i \in 1 .. Len(to_chip) /\ to_chip'[i] = to_chip[i] /\ to_chip[i] \in Frames
        BY <1>2, <1>3, <3>2 DEF TypeOK
      <4>2. to_chip[i].id \in Nat /\ Fresh(to_chip[i])
        BY <4>1 DEF AllFresh, Frames
      <4> QED
        BY <1>1, <4>1, <4>2 DEF Fresh, TypeOK
    <3> QED
      BY <3>1, <3>2
  <2>2. ASSUME NEW g \in unanswered PROVE Fresh(g)'
    BY <1>6 DEF AllFresh, TypeOK, Frames
  <2>3. ASSUME NEW i \in 1 .. Len(from_chip) PROVE Fresh(from_chip[i])'
    <3>1. from_chip[i] \in Offers
      BY DEF TypeOK
    <3>2. from_chip[i].id \in Nat /\ Fresh(from_chip[i])
      BY <3>1 DEF AllFresh, Offers
    <3> QED
      BY <1>1, <3>2 DEF Fresh, TypeOK
  <2> QED
    BY <2>1, <2>2, <2>3 DEF AllFresh
<1>8. BufferAlive' /\ OwnAnswer'
  BY DEF BufferAlive, OwnAnswer
<1> QED
  BY <1>4, <1>5, <1>7, <1>8

LEMMA SendPacketIInv == ASSUME IInv, SendPacket PROVE IInv'
<1> USE SessionAssumption DEF SendPacket, SendFrame, IInv
<1>1. Data \in Frames /\ Data.id = 0 /\ Data.request = 0
  BY DEF Data, Frame, Frames
<1>2. to_chip' = Append(to_chip, Data)
  OBVIOUS
<1>3. TypeOK'
  <2>1. to_chip' \in Seq(Frames)
    BY <1>1, <1>2 DEF TypeOK
  <2>2. sdpcm_seq' \in 0 .. SequenceModulus - 1
    BY WrapsInRange DEF TypeOK
  <2> QED
    BY <2>1, <2>2 DEF TypeOK
<1>4. Fresh(Data)
  BY <1>1 DEF Fresh, IdsUsedOnce, TypeOK
<1>5. AllFresh'
  <2>1. ASSUME NEW i \in 1 .. Len(to_chip') PROVE Fresh(to_chip[i])'
    <3>1. CASE i = Len(to_chip) + 1
      <4>1. to_chip'[i] = Data
        BY <1>1, <1>2, <3>1 DEF TypeOK
      <4> QED
        BY <1>4, <4>1 DEF Fresh
    <3>2. CASE i # Len(to_chip) + 1
      <4>1. i \in 1 .. Len(to_chip) /\ to_chip'[i] = to_chip[i]
        BY <1>1, <1>2, <3>2 DEF TypeOK
      <4> QED
        BY <4>1 DEF AllFresh, Fresh
    <3> QED
      BY <3>1, <3>2
  <2> QED
    BY <2>1 DEF AllFresh, Fresh
<1>6. IdsUsedOnce' /\ BufferAlive' /\ OwnAnswer'
  BY DEF IdsUsedOnce, BufferAlive, OwnAnswer
<1> QED
  BY <1>3, <1>5, <1>6

(* The answer under the current identifier is the answer to the request in *)
(* the slot, whose future still waits.                                     *)
LEMMA ReceiveIInv == ASSUME IInv, Receive PROVE IInv'
<1> DEFINE f == Head(from_chip)
<1> USE DEF Receive, IInv
<1>1. from_chip \in Seq(Offers) /\ from_chip # <<>>
  BY DEF TypeOK
<1>2. f \in Offers /\ f = from_chip[1] /\ 1 \in 1 .. Len(from_chip)
  BY <1>1
<1>3. Fresh(f)
  BY <1>2 DEF AllFresh
<1>4. \/ UNCHANGED slot
      \/ slot.state = "sent" /\ f.id = ioctl_id /\ slot' = Done(f.request)
  BY DEF IoctlDone, Matches
<1>5. from_chip' = Tail(from_chip) /\ sdpcm_seq_max' = Limit(f.limit)
      /\ halted' = (Matches(f) /\ ~ f.ok)
  OBVIOUS
<1>6. f.limit \in 0 .. SequenceModulus - 1 /\ f.request \in 0 .. MaxRequests /\ f.id \in Nat
  BY <1>2, SessionAssumption DEF Offers
<1> HIDE DEF f
<1>7. slot' = slot \/ (slot.state = "sent" /\ slot' = Done(slot.request))
  BY <1>3, <1>4 DEF Fresh
<1>8. TypeOK'
  <2>1. from_chip' \in Seq(Offers)
    BY <1>1, <1>5
  <2>2. sdpcm_seq_max' \in 0 .. SequenceModulus - 1
    <3>1. sdpcm_seq + 2 \in Int
      BY DEF TypeOK
    <3>2. (sdpcm_seq + 2) % SequenceModulus \in 0 .. SequenceModulus - 1
      BY <3>1, WrapsInRange
    <3> QED
      BY <1>5, <1>6, <3>2 DEF Limit
  <2>3. slot' \in [state : {"pending", "sent", "done"}, request : 0 .. MaxRequests]
    BY <1>7 DEF TypeOK, Done
  <2>4. halted' \in BOOLEAN
    BY <1>5
  <2> QED
    BY <2>1, <2>2, <2>3, <2>4 DEF TypeOK
<1>9. IdsUsedOnce'
  BY <1>7 DEF IdsUsedOnce, Done
<1>10. AllFresh'
  <2>1. \A i \in 1 .. Len(from_chip') :
          i + 1 \in 1 .. Len(from_chip) /\ from_chip'[i] = from_chip[i + 1]
    BY <1>1, <1>5
  <2>2. \A i \in 1 .. Len(from_chip') : Fresh(from_chip'[i])
    BY <2>1 DEF AllFresh
  <2>3. slot'.state = "sent" => slot' = slot
    BY <1>7 DEF Done
  <2>4. ASSUME NEW i \in 1 .. Len(from_chip') PROVE Fresh(from_chip[i])'
    BY <2>2, <2>3 DEF Fresh
  <2> QED
    BY <2>3, <2>4 DEF AllFresh, Fresh
<1>11. BufferAlive' /\ OwnAnswer'
  BY <1>7 DEF BufferAlive, OwnAnswer, Done
<1> QED
  BY <1>8, <1>9, <1>10, <1>11

-----------------------------------------------------------------------------
LEMMA ChipTakesIInv == ASSUME IInv, ChipTakes PROVE IInv'
<1> USE DEF ChipTakes, IInv, control, credit
<1>1. to_chip \in Seq(Frames) /\ to_chip # <<>>
  BY DEF TypeOK
<1>2. Head(to_chip) \in Frames /\ Fresh(Head(to_chip))
  <2>1. Head(to_chip) = to_chip[1] /\ 1 \in 1 .. Len(to_chip) /\ to_chip[1] \in Frames
    BY <1>1
  <2> QED
    BY <2>1 DEF AllFresh
<1>3. to_chip' \in Seq(Frames)
  BY <1>1
<1>4. unanswered' \subseteq unanswered \cup {Head(to_chip)}
  OBVIOUS
<1>5. TypeOK'
  <2>1. consumed + 1 \in Int
    BY DEF TypeOK
  <2>2. consumed' \in 0 .. SequenceModulus - 1
    BY <2>1, WrapsInRange
  <2> QED
    BY <1>2, <1>3, <1>4, <2>2 DEF TypeOK
<1>6. AllFresh'
  <2>1. \A i \in 1 .. Len(to_chip') :
          i + 1 \in 1 .. Len(to_chip) /\ to_chip'[i] = to_chip[i + 1]
    BY <1>1
  <2>2. ASSUME NEW i \in 1 .. Len(to_chip') PROVE Fresh(to_chip[i])'
    BY <2>1 DEF AllFresh, Fresh
  <2>3. ASSUME NEW g \in unanswered' PROVE Fresh(g)'
    BY <1>2, <1>4 DEF AllFresh, Fresh
  <2> QED
    BY <2>2, <2>3 DEF AllFresh, Fresh
<1>7. IdsUsedOnce' /\ BufferAlive' /\ OwnAnswer'
  BY DEF IdsUsedOnce, BufferAlive, OwnAnswer
<1> QED
  BY <1>5, <1>6, <1>7

LEMMA ChipOffersIInv ==
  ASSUME IInv, NEW offer \in Offers, Fresh(offer),
         from_chip' = Append(from_chip, offer), unanswered' \subseteq unanswered,
         UNCHANGED <<control, ioctl_id, credit, halted, to_chip, consumed>>
  PROVE  IInv'
<1> USE DEF IInv, control, credit
<1>1. TypeOK'
  BY DEF TypeOK
<1>2. AllFresh'
  <2>1. ASSUME NEW i \in 1 .. Len(from_chip') PROVE Fresh(from_chip[i])'
    <3>1. CASE i = Len(from_chip) + 1
      <4>1. from_chip'[i] = offer
        BY <3>1 DEF TypeOK
      <4> QED
        BY <4>1 DEF Fresh
    <3>2. CASE i # Len(from_chip) + 1
      <4>1. i \in 1 .. Len(from_chip) /\ from_chip'[i] = from_chip[i]
        BY <3>2 DEF TypeOK
      <4> QED
        BY <4>1 DEF AllFresh, Fresh
    <3> QED
      BY <3>1, <3>2
  <2> QED
    BY <2>1 DEF AllFresh, Fresh
<1>3. IdsUsedOnce' /\ BufferAlive' /\ OwnAnswer'
  BY DEF IdsUsedOnce, BufferAlive, OwnAnswer
<1> QED
  BY <1>1, <1>2, <1>3

LEMMA GrantedInRange == ASSUME IInv PROVE Granted \in 0 .. SequenceModulus - 1
<1>1. consumed + Window \in Int
  BY CreditAssumption DEF IInv, TypeOK
<1> QED
  BY <1>1, WrapsInRange DEF Granted

LEMMA ChipAnswersIInv == ASSUME IInv, ChipAnswers PROVE IInv'
<1>1. PICK f \in unanswered, ok \in BOOLEAN :
        /\ unanswered' = unanswered \ {f}
        /\ from_chip' = Append(from_chip, Answer(f, ok, Granted))
  BY DEF ChipAnswers
<1>2. f \in Frames /\ Fresh(f)
  BY DEF IInv, TypeOK, AllFresh
<1>3. ok \in BOOLEAN
  BY SessionAssumption
<1>4. Answer(f, ok, Granted) \in Offers /\ Fresh(Answer(f, ok, Granted))
  BY <1>2, <1>3, GrantedInRange DEF Answer, Offers, Frames, Fresh
<1> QED
  BY <1>1, <1>4, ChipOffersIInv DEF ChipAnswers

LEMMA ChipSendsIInv == ASSUME IInv, ChipSends PROVE IInv'
<1>1. Other(Granted) \in Offers
  BY GrantedInRange, SessionAssumption DEF Other, Offers
<1>2. Fresh(Other(Granted))
  BY DEF Other, Fresh, IInv, TypeOK, IdsUsedOnce
<1> QED
  BY <1>1, <1>2, ChipOffersIInv DEF ChipSends

-----------------------------------------------------------------------------
LEMMA StepIInv == ASSUME IInv, [Next]_vars PROVE IInv'
<1>1. CASE Next
  BY <1>1, DoIoctlIInv, IoctlReturnsIInv, IoctlDroppedIInv, SendIoctlIInv,
     SendPacketIInv, ReceiveIInv, ChipTakesIInv, ChipAnswersIInv, ChipSendsIInv
     DEF Next
<1>2. CASE UNCHANGED vars
  BY <1>2 DEF vars, IInv, TypeOK, IdsUsedOnce, AllFresh, Fresh, BufferAlive, OwnAnswer
<1> QED
  BY <1>1, <1>2

(* The conjunction above holds in every reachable state. *)
THEOREM Invariance == Spec => []IInv
BY InitIInv, StepIInv, PTL DEF Spec

(* Every counter keeps its width and every frame its shape. *)
THEOREM TypeCorrect == Spec => []TypeOK
<1>1. IInv => TypeOK
  BY DEF IInv
<1> QED
  BY <1>1, Invariance, PTL

(* The raw pointer in the slot belongs to a future that still waits, so    *)
(* the runner never reads or writes a buffer that is gone.                 *)
THEOREM BufferCorrect == Spec => []BufferAlive
<1>1. IInv => BufferAlive
  BY DEF IInv
<1> QED
  BY <1>1, Invariance, PTL

(* A caller returns with the answer to its own request. *)
THEOREM AnswerCorrect == Spec => []OwnAnswer
<1>1. IInv => OwnAnswer
  BY DEF IInv
<1> QED
  BY <1>1, Invariance, PTL

-----------------------------------------------------------------------------
(* Credit.  Counted from the next frame to send, the limits still on their *)
(* way never fall, none is ahead by more than what the chip can take       *)
(* beyond the frames it has not taken yet, and so update_credit never has  *)
(* to replace one.                                                         *)

Ahead(limit) == (limit - sdpcm_seq) % SequenceModulus

CreditInv ==
  /\ Len(to_chip) <= Window
  /\ sdpcm_seq = (consumed + Len(to_chip)) % SequenceModulus
  /\ Ahead(sdpcm_seq_max) <= Window - Len(to_chip)
  /\ \A i \in 1 .. Len(from_chip) :
       /\ Ahead(sdpcm_seq_max) <= Ahead(from_chip[i].limit)
       /\ Ahead(from_chip[i].limit) <= Window - Len(to_chip)
       /\ \A j \in 1 .. i : Ahead(from_chip[j].limit) <= Ahead(from_chip[i].limit)

LEMMA Remainders ==
  /\ \A x \in 0 .. SequenceModulus - 1 : x % SequenceModulus = x
  /\ \A x \in 1 - SequenceModulus .. -1 : x % SequenceModulus = x + SequenceModulus
  /\ \A x \in SequenceModulus .. 2 * SequenceModulus - 1 :
       x % SequenceModulus = x - SequenceModulus
BY CreditAssumption

LEMMA WindowFits ==
  /\ Window \in Nat \ {0}
  /\ 4 * Window <= SequenceModulus
  /\ SequenceModulus \div 4 \in Nat /\ Window <= SequenceModulus \div 4
BY CreditAssumption

(* One frame sent: every limit ahead is nearer by one. *)
LEMMA OneNearer ==
  ASSUME NEW s \in 0 .. SequenceModulus - 1, NEW l \in 0 .. SequenceModulus - 1,
         (l - s) % SequenceModulus > 0
  PROVE  (l - ((s + 1) % SequenceModulus)) % SequenceModulus = ((l - s) % SequenceModulus) - 1
<1> USE CreditAssumption
<1>1. l # s
  BY Remainders
<1>2. CASE l > s
  <2>1. (s + 1) % SequenceModulus = s + 1 /\ (l - s) % SequenceModulus = l - s
    BY <1>2, Remainders
  <2>2. l - (s + 1) \in 0 .. SequenceModulus - 1
    BY <1>2
  <2> QED
    BY <2>1, <2>2, Remainders
<1>3. CASE l < s /\ s + 1 < SequenceModulus
  <2>1. (s + 1) % SequenceModulus = s + 1 /\ (l - s) % SequenceModulus = l - s + SequenceModulus
    BY <1>3, Remainders
  <2>2. l - (s + 1) \in 1 - SequenceModulus .. -1
    BY <1>3
  <2> QED
    BY <2>1, <2>2, Remainders
<1>4. CASE l < s /\ s + 1 = SequenceModulus
  <2>1. (s + 1) % SequenceModulus = 0 /\ (l - s) % SequenceModulus = l + 1
    BY <1>4, Remainders
  <2>2. (l - 0) % SequenceModulus = l
    BY Remainders
  <2> QED
    BY <2>1, <2>2
<1> QED
  BY <1>1, <1>2, <1>3, <1>4

(* Frames taken and frames under way make up the frames sent. *)
LEMMA SentOne ==
  ASSUME NEW c \in 0 .. SequenceModulus - 1, NEW n \in 0 .. Window
  PROVE  (((c + n) % SequenceModulus) + 1) % SequenceModulus = (c + (n + 1)) % SequenceModulus
<1> USE WindowFits, CreditAssumption
<1>1. CASE c + n + 1 < SequenceModulus
  BY <1>1, Remainders
<1>2. CASE c + n + 1 = SequenceModulus
  BY <1>2, Remainders
<1>3. CASE c + n + 1 > SequenceModulus
  <2>1. (c + n) % SequenceModulus = c + n - SequenceModulus
    BY <1>3, Remainders
  <2>2. (c + (n + 1)) % SequenceModulus = c + n + 1 - SequenceModulus
    BY <1>3, Remainders
  <2>3. c + n - SequenceModulus + 1 \in 0 .. SequenceModulus - 1
    BY <1>3
  <2> QED
    BY <2>1, <2>2, <2>3, Remainders
<1> QED
  BY <1>1, <1>2, <1>3

LEMMA TakenOne ==
  ASSUME NEW c \in 0 .. SequenceModulus - 1, NEW n \in 1 .. Window
  PROVE  (((c + 1) % SequenceModulus) + (n - 1)) % SequenceModulus = (c + n) % SequenceModulus
<1> USE WindowFits, CreditAssumption
<1>1. CASE c + 1 < SequenceModulus
  BY <1>1, Remainders
<1>2. CASE c + 1 = SequenceModulus
  <2>1. (c + 1) % SequenceModulus = 0 /\ (c + n) % SequenceModulus = n - 1
    BY <1>2, Remainders
  <2>2. (n - 1) % SequenceModulus = n - 1
    BY Remainders
  <2> QED
    BY <2>1, <2>2
<1> QED
  BY <1>1, <1>2

LEMMA GrantAhead ==
  ASSUME NEW c \in 0 .. SequenceModulus - 1, NEW n \in 0 .. Window
  PROVE  (((c + Window) % SequenceModulus) - ((c + n) % SequenceModulus)) % SequenceModulus
           = Window - n
<1> USE WindowFits, CreditAssumption
<1>1. Window - n \in 0 .. SequenceModulus - 1
  OBVIOUS
<1>2. CASE c + Window < SequenceModulus
  <2>1. (c + Window) % SequenceModulus = c + Window /\ (c + n) % SequenceModulus = c + n
    BY <1>2, Remainders
  <2> QED
    BY <2>1, <1>1, Remainders
<1>3. CASE c + Window >= SequenceModulus /\ c + n < SequenceModulus
  <2>1. /\ (c + Window) % SequenceModulus = c + Window - SequenceModulus
        /\ (c + n) % SequenceModulus = c + n
    BY <1>3, Remainders
  <2>2. Window - n - SequenceModulus \in 1 - SequenceModulus .. -1
    BY <1>3
  <2>3. (Window - n - SequenceModulus) % SequenceModulus = Window - n
    BY <2>2, Remainders
  <2> QED
    BY <2>1, <2>3
<1>4. CASE c + n >= SequenceModulus
  <2>1. /\ (c + Window) % SequenceModulus = c + Window - SequenceModulus
        /\ (c + n) % SequenceModulus = c + n - SequenceModulus
    BY <1>4, Remainders
  <2> QED
    BY <2>1, <1>1, Remainders
<1> QED
  BY <1>2, <1>3, <1>4

-----------------------------------------------------------------------------
LEMMA AheadInRange ==
  ASSUME TypeOK, NEW l \in 0 .. SequenceModulus - 1
  PROVE  Ahead(l) \in 0 .. SequenceModulus - 1
<1>1. l - sdpcm_seq \in Int
  BY CreditAssumption DEF TypeOK
<1> QED
  BY <1>1, WrapsInRange DEF Ahead

LEMMA LimitsInRange ==
  ASSUME TypeOK, NEW i \in 1 .. Len(from_chip)
  PROVE  from_chip[i].limit \in 0 .. SequenceModulus - 1
<1>1. from_chip[i] \in Offers
  BY DEF TypeOK
<1> QED
  BY <1>1 DEF Offers

LEMMA AheadsNatural ==
  ASSUME TypeOK
  PROVE  /\ Ahead(sdpcm_seq_max) \in Nat
         /\ \A i \in 1 .. Len(from_chip) : Ahead(from_chip[i].limit) \in Nat
<1>1. \A l \in 0 .. SequenceModulus - 1 : Ahead(l) \in Nat
  BY AheadInRange, CreditAssumption
<1>2. sdpcm_seq_max \in 0 .. SequenceModulus - 1
  BY DEF TypeOK
<1> QED
  BY <1>1, <1>2, LimitsInRange

LEMMA InitCredit == Init => CreditInv
<1> SUFFICES ASSUME Init PROVE CreditInv
  OBVIOUS
<1>1. Len(to_chip) = 0 /\ Len(from_chip) = 0 /\ sdpcm_seq = 0 /\ sdpcm_seq_max = 1 /\ consumed = 0
  BY DEF Init
<1>2. 0 % SequenceModulus = 0 /\ 1 % SequenceModulus = 1
  BY Remainders, CreditAssumption
<1> QED
  BY <1>1, <1>2, WindowFits DEF CreditInv, Ahead

LEMMA CreditIsAhead ==
  ASSUME TypeOK, HasCredit
  PROVE  Ahead(sdpcm_seq_max) > 0
<1>1. sdpcm_seq_max - sdpcm_seq \in 1 - SequenceModulus .. SequenceModulus - 1
  BY CreditAssumption DEF TypeOK
<1>2. sdpcm_seq_max - sdpcm_seq # 0
  BY CreditAssumption DEF HasCredit, TypeOK
<1> QED
  BY <1>1, <1>2, Remainders, CreditAssumption DEF Ahead

LEMMA SendCredit ==
  ASSUME TypeOK, CreditInv, HasCredit, NEW f, SendFrame(f)
  PROVE  CreditInv'
<1> USE DEF SendFrame
<1>1. Len(to_chip') = Len(to_chip) + 1 /\ Len(to_chip) \in Nat
  BY DEF TypeOK
<1>2. ASSUME NEW l \in 0 .. SequenceModulus - 1, Ahead(sdpcm_seq_max) <= Ahead(l)
      PROVE  Ahead(l)' = Ahead(l) - 1
  <2>1. Ahead(sdpcm_seq_max) > 0 /\ sdpcm_seq_max \in 0 .. SequenceModulus - 1
    BY CreditIsAhead DEF TypeOK
  <2>2. (l - sdpcm_seq) % SequenceModulus > 0
    BY <1>2, <2>1, AheadInRange, CreditAssumption DEF Ahead
  <2>3. Ahead(l)' = (l - ((sdpcm_seq + 1) % SequenceModulus)) % SequenceModulus
    BY DEF Ahead
  <2>4. sdpcm_seq \in 0 .. SequenceModulus - 1
    BY DEF TypeOK
  <2> QED
    BY <2>2, <2>3, <2>4, OneNearer DEF Ahead
<1>3. Ahead(sdpcm_seq_max)' = Ahead(sdpcm_seq_max) - 1
  <2>1. sdpcm_seq_max \in 0 .. SequenceModulus - 1
    BY DEF TypeOK
  <2>2. Ahead(sdpcm_seq_max) <= Ahead(sdpcm_seq_max)
    BY <2>1, AheadInRange, CreditAssumption
  <2> QED
    BY <1>2, <2>1, <2>2 DEF Ahead
<1>4. ASSUME NEW i \in 1 .. Len(from_chip)
      PROVE  Ahead(from_chip[i].limit)' = Ahead(from_chip[i].limit) - 1
  BY <1>2, LimitsInRange DEF Ahead, CreditInv
<1>5. sdpcm_seq' = (consumed' + Len(to_chip')) % SequenceModulus
  <2>1. Len(to_chip) \in 0 .. Window /\ consumed \in 0 .. SequenceModulus - 1
    BY <1>1, WindowFits DEF CreditInv, TypeOK
  <2> QED
    BY <1>1, <2>1, SentOne DEF CreditInv
<1>6. Ahead(sdpcm_seq_max) \in Nat /\ \A i \in 1 .. Len(from_chip) : Ahead(from_chip[i].limit) \in Nat
  BY AheadsNatural
<1>7. Ahead(sdpcm_seq_max) > 0
  BY CreditIsAhead
<1>8. Len(to_chip') <= Window
  BY <1>1, <1>6, <1>7, WindowFits DEF CreditInv
<1>9. ASSUME NEW i \in 1 .. Len(from_chip)
      PROVE  /\ Ahead(sdpcm_seq_max)' <= Ahead(from_chip[i].limit)'
             /\ Ahead(from_chip[i].limit)' <= Window - Len(to_chip')
             /\ \A j \in 1 .. i : Ahead(from_chip[j].limit)' <= Ahead(from_chip[i].limit)'
  <2>1. \A j \in 1 .. i : j \in 1 .. Len(from_chip)
    OBVIOUS
  <2>2. /\ Ahead(sdpcm_seq_max) <= Ahead(from_chip[i].limit)
        /\ Ahead(from_chip[i].limit) <= Window - Len(to_chip)
        /\ \A j \in 1 .. i : Ahead(from_chip[j].limit) <= Ahead(from_chip[i].limit)
    BY DEF CreditInv
  <2>3. Ahead(sdpcm_seq_max)' <= Ahead(from_chip[i].limit)'
    BY <1>3, <1>4, <1>6, <2>2
  <2>4. Ahead(from_chip[i].limit)' <= Window - Len(to_chip')
    BY <1>1, <1>4, <1>6, <2>2, WindowFits
  <2>5. ASSUME NEW j \in 1 .. i
        PROVE  Ahead(from_chip[j].limit)' <= Ahead(from_chip[i].limit)'
    BY <1>4, <1>6, <2>1, <2>2
  <2> QED
    BY <2>3, <2>4, <2>5
<1>10. Ahead(sdpcm_seq_max)' <= Window - Len(to_chip')
  BY <1>1, <1>3, <1>6, WindowFits DEF CreditInv
<1>11. from_chip' = from_chip
  OBVIOUS
<1> QED
  BY <1>5, <1>8, <1>9, <1>10, <1>11 DEF CreditInv

(* Limits that do not change stay as far ahead while nothing is sent. *)
LEMMA TakeCredit == ASSUME TypeOK, CreditInv, ChipTakes PROVE CreditInv'
<1> USE DEF ChipTakes, credit
<1>1. Len(to_chip) \in 1 .. Window /\ Len(to_chip') = Len(to_chip) - 1
  <2>1. to_chip \in Seq(Frames) /\ to_chip # <<>> /\ to_chip' = Tail(to_chip)
    BY DEF TypeOK
  <2>2. Len(to_chip) <= Window
    BY DEF CreditInv
  <2>3. Len(to_chip) \in Nat \ {0} /\ Len(to_chip') = Len(to_chip) - 1
    BY ONLY <2>1
  <2> QED
    BY ONLY <2>2, <2>3, WindowFits
<1>2. sdpcm_seq' = (consumed' + Len(to_chip')) % SequenceModulus
  BY <1>1, TakenOne DEF CreditInv, TypeOK
<1>3. /\ Ahead(sdpcm_seq_max)' = Ahead(sdpcm_seq_max)
      /\ \A i \in 1 .. Len(from_chip) :
           Ahead(from_chip[i].limit)' = Ahead(from_chip[i].limit)
  BY DEF Ahead
<1>4. Ahead(sdpcm_seq_max) \in Nat /\ \A i \in 1 .. Len(from_chip) : Ahead(from_chip[i].limit) \in Nat
  BY AheadsNatural
<1>5. ASSUME NEW i \in 1 .. Len(from_chip)
      PROVE  /\ Ahead(sdpcm_seq_max)' <= Ahead(from_chip[i].limit)'
             /\ Ahead(from_chip[i].limit)' <= Window - Len(to_chip')
             /\ \A j \in 1 .. i : Ahead(from_chip[j].limit)' <= Ahead(from_chip[i].limit)'
  <2>1. \A j \in 1 .. i : j \in 1 .. Len(from_chip)
    OBVIOUS
  <2> QED
    BY <1>1, <1>3, <1>4, <2>1, WindowFits DEF CreditInv
<1>6. Ahead(sdpcm_seq_max)' <= Window - Len(to_chip')
  BY <1>1, <1>3, <1>4, WindowFits DEF CreditInv
<1>7. Len(to_chip') <= Window
  BY <1>1, WindowFits
<1>8. from_chip' = from_chip
  OBVIOUS
<1> QED
  BY <1>2, <1>5, <1>6, <1>7, <1>8 DEF CreditInv

LEMMA OfferCredit ==
  ASSUME TypeOK, CreditInv, NEW offer, offer.limit = Granted,
         from_chip' = Append(from_chip, offer), UNCHANGED <<credit, to_chip, consumed>>
  PROVE  CreditInv'
<1> USE DEF credit
<1>1. Ahead(Granted) = Window - Len(to_chip)
  <2>1. Len(to_chip) \in 0 .. Window /\ consumed \in 0 .. SequenceModulus - 1
    BY WindowFits DEF CreditInv, TypeOK
  <2>2. sdpcm_seq = (consumed + Len(to_chip)) % SequenceModulus
    BY DEF CreditInv
  <2> QED
    BY <2>1, <2>2, GrantAhead DEF Granted, Ahead
<1>2. \A l : Ahead(l)' = Ahead(l)
  BY DEF Ahead
<1>3. Len(from_chip') = Len(from_chip) + 1 /\ Len(from_chip) \in Nat
  BY DEF TypeOK
<1>4. \A i \in 1 .. Len(from_chip) : from_chip'[i] = from_chip[i]
  BY DEF TypeOK
<1>5. from_chip'[Len(from_chip) + 1] = offer
  BY DEF TypeOK
<1>6. Len(to_chip) \in 0 .. Window
  BY WindowFits DEF TypeOK, CreditInv
<1>7. ASSUME NEW i \in 1 .. Len(from_chip')
      PROVE  /\ Ahead(sdpcm_seq_max) <= Ahead(from_chip'[i].limit)
             /\ Ahead(from_chip'[i].limit) <= Window - Len(to_chip)
             /\ \A j \in 1 .. i : Ahead(from_chip'[j].limit) <= Ahead(from_chip'[i].limit)
  <2>1. CASE i = Len(from_chip) + 1
    BY <1>1, <1>3, <1>4, <1>5, <1>6, <2>1, AheadsNatural, WindowFits DEF CreditInv
  <2>2. CASE i # Len(from_chip) + 1
    BY <1>3, <1>4, <2>2 DEF CreditInv
  <2> QED
    BY <2>1, <2>2
<1> QED
  BY <1>2, <1>7 DEF CreditInv

(* No limit is absurd, so the next one is the runner's. *)
LEMMA ReceiveCredit == ASSUME TypeOK, CreditInv, Receive PROVE CreditInv'
<1> DEFINE f == Head(from_chip)
<1> USE DEF Receive
<1>1. Len(from_chip) \in Nat \ {0} /\ f = from_chip[1]
  BY DEF TypeOK
<1>2. Ahead(f.limit) \in 0 .. Window /\ Ahead(f.limit) <= Window - Len(to_chip)
  <2>1. 1 \in 1 .. Len(from_chip) /\ Len(to_chip) \in Nat
    BY <1>1 DEF TypeOK
  <2>2. Ahead(from_chip[1].limit) \in Nat
    BY <2>1, AheadsNatural
  <2> QED
    BY <1>1, <2>1, <2>2, WindowFits DEF CreditInv
<1>3. Limit(f.limit) = f.limit
  BY <1>2, WindowFits DEF Limit, Ahead
<1>4. sdpcm_seq_max' = f.limit /\ from_chip' = Tail(from_chip)
  BY <1>3
<1> HIDE DEF f
<1>5. Len(from_chip') = Len(from_chip) - 1
  BY <1>1, <1>4 DEF TypeOK
<1>6. \A i \in 1 .. Len(from_chip') : from_chip'[i] = from_chip[i + 1]
  BY <1>1, <1>4 DEF TypeOK
<1>7. \A l : Ahead(l)' = Ahead(l)
  BY DEF Ahead
<1>8. ASSUME NEW i \in 1 .. Len(from_chip')
      PROVE  /\ Ahead(f.limit) <= Ahead(from_chip'[i].limit)
             /\ Ahead(from_chip'[i].limit) <= Window - Len(to_chip)
             /\ \A j \in 1 .. i : Ahead(from_chip'[j].limit) <= Ahead(from_chip'[i].limit)
  <2>1. i + 1 \in 1 .. Len(from_chip) /\ 1 \in 1 .. i + 1
    BY <1>1, <1>5
  <2>2. \A j \in 1 .. i + 1 : Ahead(from_chip[j].limit) <= Ahead(from_chip[i + 1].limit)
    BY <2>1 DEF CreditInv
  <2>3. \A j \in 1 .. i : j + 1 \in 1 .. i + 1 /\ j \in 1 .. Len(from_chip')
    BY <1>5
  <2> QED
    BY <1>1, <1>6, <2>1, <2>2, <2>3 DEF CreditInv
<1> QED
  BY <1>2, <1>4, <1>7, <1>8 DEF CreditInv

LEMMA StepCredit == TypeOK /\ CreditInv /\ [Next]_vars => CreditInv'
<1> SUFFICES ASSUME TypeOK, CreditInv, [Next]_vars PROVE CreditInv'
  OBVIOUS
<1>1. CASE SendIoctl \/ SendPacket
  <2>1. PICK f : SendFrame(f) /\ HasCredit
    BY <1>1 DEF SendIoctl, SendPacket
  <2> QED
    BY <2>1, SendCredit
<1>2. CASE ChipAnswers \/ ChipSends
  <2>1. PICK offer : offer.limit = Granted /\ from_chip' = Append(from_chip, offer)
    BY <1>2 DEF ChipAnswers, ChipSends, Answer, Other
  <2> QED
    BY <1>2, <2>1, OfferCredit DEF ChipAnswers, ChipSends
<1>3. CASE DoIoctl \/ IoctlReturns \/ IoctlDropped \/ UNCHANGED vars
  BY <1>3 DEF DoIoctl, IoctlReturns, IoctlDropped, vars, credit, chip, CreditInv, Ahead
<1> QED
  BY <1>1, <1>2, <1>3, TakeCredit, ReceiveCredit DEF Next

(* The chip is never sent more than it granted, for every width of the     *)
(* counters and every window that update_credit believes.                  *)
THEOREM GrantCorrect == Spec => []WithinGrant
<1>1. CreditInv => WithinGrant
  BY DEF CreditInv, WithinGrant
<1> QED
  BY <1>1, InitCredit, StepCredit, TypeCorrect, PTL DEF Spec
=============================================================================
