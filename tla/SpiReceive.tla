----------------------------- MODULE SpiReceive -----------------------------
(***************************************************************************)
(* Runner::run, handle_irq and check_status (runner.rs) on the SPI bus     *)
(* (spi.rs): how frames leave the radio.  Every command brings the chip's  *)
(* status word, with the length of the frame at the head of its FIFO;      *)
(* SpiBus keeps the word, read32 hands it out once in place of a read, and *)
(* wlan_read then asks for that many bytes.  Frames to send go before the  *)
(* interrupt, as far as the credit in received frames lets them.  Ioctl    *)
(* has what the frames say; here a frame is its length.                    *)
(***************************************************************************)
EXTENDS Integers, Sequences

CONSTANTS
  Lengths,     \* of frames
  FifoSize,    \* bound: frames waiting in the chip
  MaxCredit,   \* bound: frames the chip lets the runner send
  CountModulus \* bound: frames received are counted modulo this

ASSUME FrameAssumption ==
  /\ Lengths \subseteq Nat \ {0}
  /\ FifoSize \in Nat \ {0} /\ MaxCredit \in Nat \ {0} /\ CountModulus \in Nat \ {0, 1}

VARIABLES
  at,        \* the runner: "select", check_status at its "status" or its "read"
  status,    \* SpiBus::status
  length,    \* check_status: len
  tx,        \* a request or a packet waits to be sent
  credit,    \* frames the runner may send
  fifo,      \* the chip: lengths of the frames it offers
  received   \* frames received

vars == <<at, status, length, tx, credit, fifo, received>>

(* Status words: 0 as a number, and one that says that no frame is there.  *)
Zero    == -1
NoFrame == 0

(* The word at the end of a command: other bits of it may be set. *)
Words == IF fifo' = <<>> THEN {Zero, NoFrame} ELSE {Head(fifo')}

Report == status' \in Words

Init ==
  /\ at = "select"
  /\ status \in {Zero, NoFrame}
  /\ length = 0
  /\ tx = FALSE /\ credit = 1
  /\ fifo = <<>> /\ received = 0

-----------------------------------------------------------------------------
(* The callers of the runner: a request is put into its slot or dropped.   *)
TxChanges ==
  /\ tx' = ~ tx
  /\ UNCHANGED <<at, status, length, credit, fifo, received>>

(* select4's first branches: wlan_write, then check_status. *)
Send ==
  /\ at = "select" /\ tx /\ credit > 0
  /\ tx' = FALSE /\ credit' = credit - 1
  /\ fifo' = fifo /\ Report
  /\ at' = "status"
  /\ UNCHANGED <<length, received>>

(* Faulty: without credit the runner only waits for something to send. *)
BadListens == ~ tx

(* select4 comes to its last branch when nothing is to be sent; without    *)
(* credit there is no other.                                               *)
Listens == ~ tx \/ credit = 0

(* The interrupt line is up as long as a frame is there: wait_for_event,   *)
(* the interrupt register, check_status.                                   *)
HandleIrq ==
  /\ at = "select" /\ Listens
  /\ fifo # <<>>
  /\ fifo' = fifo /\ Report
  /\ at' = "status"
  /\ UNCHANGED <<length, tx, credit, received>>

(* check_status with the word w. *)
Take(w) ==
  IF w = NoFrame \/ w = Zero
  THEN at' = "select" /\ length' = length
  ELSE at' = "read" /\ length' = w

StatusFromCache ==
  /\ at = "status" /\ status # Zero
  /\ status' = Zero
  /\ Take(status)
  /\ UNCHANGED <<tx, credit, fifo, received>>

(* The register is read before the status word comes, and a frame may      *)
(* arrive between the two.                                                 *)
StatusFromChip ==
  /\ at = "status" /\ status = Zero
  /\ fifo' = fifo /\ Report
  /\ \E w \in {status', NoFrame} : Take(w)
  /\ UNCHANGED <<tx, credit, received>>

(* Faulty: one word for all the frames of a burst. *)
BadAfterFrame == at' = IF Len(fifo) > 1 THEN "read" ELSE "status"

AfterFrame == at' = "status"

(* wlan_read, and rx with the credit the frame carries. *)
ReadFrame ==
  /\ at = "read"
  /\ fifo' = Tail(fifo) /\ Report
  /\ received' = (received + 1) % CountModulus
  /\ credit' \in 0 .. MaxCredit
  /\ AfterFrame
  /\ UNCHANGED <<length, tx>>

Runner == Send \/ HandleIrq \/ StatusFromCache \/ StatusFromChip \/ ReadFrame

(* The chip offers another frame. *)
ChipOffers ==
  /\ Len(fifo) < FifoSize
  /\ \E l \in Lengths : fifo' = Append(fifo, l)
  /\ UNCHANGED <<at, status, length, tx, credit, received>>

Next == TxChanges \/ Runner \/ ChipOffers

Spec == Init /\ [][Next]_vars

(* The executor polls a runner that can go on. *)
LiveSpec == Spec /\ WF_vars(Runner)

-----------------------------------------------------------------------------
(* Correctness.                                                            *)

TypeOK ==
  /\ at \in {"select", "status", "read"}
  /\ status \in Lengths \cup {Zero, NoFrame}
  /\ length \in Lengths \cup {0}
  /\ tx \in BOOLEAN /\ credit \in 0 .. MaxCredit
  /\ fifo \in Seq(Lengths)
  /\ received \in 0 .. CountModulus - 1

(* Whichever command the length is from, wlan_read asks for all of the     *)
(* frame that is at the head of the FIFO and for no more: a frame is never *)
(* cut, and never runs into the next one.                                  *)
ReadsWholeFrame == at = "read" => fifo # <<>> /\ length = Head(fifo)

(* Whenever a frame waits another one is received: sending does not keep   *)
(* the runner from listening, nor does a lack of credit, which comes with  *)
(* received frames only.                                                   *)
FramesReceived ==
  \A n \in 0 .. CountModulus - 1 : fifo # <<>> /\ received = n ~> received # n
=============================================================================
