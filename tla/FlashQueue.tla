----------------------------- MODULE FlashQueue -----------------------------
(***************************************************************************)
(* The power-loss-tolerant measurement queue of src/src/flash_queue.rs.    *)
(*                                                                         *)
(* A NOR flash region of Sectors erase units holds SlotsPerSector records  *)
(* each.  A slot is written once (body, then a one-bit commit marker),     *)
(* later marked acknowledged (again one bit), and becomes writable only    *)
(* when its whole sector is erased.  Every step below ends at one flash    *)
(* write or erase, the only points between which the power can fail; what  *)
(* the code computes from RAM and flash reads on the way is in the step.   *)
(***************************************************************************)
EXTENDS Integers, FiniteSets

CONSTANTS
  Sectors,          \* erase units in the region
  SlotsPerSector,   \* records in an erase unit
  MaxSequence,      \* bound: append is not called beyond this number
  PowerMayFail,     \* whether the power can fail at any moment
  StorageMayFail    \* whether a flash read, write or erase can return an error

ASSUME GeometryAssumption ==
  /\ Sectors \in Nat /\ Sectors >= 2
  /\ SlotsPerSector \in Nat \ {0}

ASSUME EnvironmentAssumption ==
  /\ MaxSequence \in Nat
  /\ PowerMayFail \in BOOLEAN
  /\ StorageMayFail \in BOOLEAN

Slots == 0 .. Sectors * SlotsPerSector - 1

SlotsOf(sector) == sector * SlotsPerSector .. (sector + 1) * SlotsPerSector - 1

Capacity == Sectors * SlotsPerSector - SlotsPerSector

-----------------------------------------------------------------------------
(* What read_slot makes of a slot's 256 bytes.  A body without its commit  *)
(* marker, and an acknowledged slot whose record does not decode, are      *)
(* treated alike everywhere, as Corrupt.                                   *)

Erased          == [kind |-> "Erased", sequence |-> -1]
Corrupt         == [kind |-> "Corrupt", sequence |-> -1]
Active(n)       == [kind |-> "Active", sequence |-> n]
Acknowledged(n) == [kind |-> "Acknowledged", sequence |-> n]

SlotContents ==
  [kind : {"Erased", "Corrupt"}, sequence : {-1}]
    \cup [kind : {"Active", "Acknowledged"}, sequence : Nat]

VARIABLES
  flash,          \* what each slot holds
  phase,          \* where in which queue operation the device is
  target,         \* the slot append is writing
  depth,          \* RAM: the queue's count of active records
  next_sequence,  \* RAM: the number of the next record
  dropped         \* RAM: records discarded since boot

ram  == <<depth, next_sequence, dropped>>
vars == <<flash, phase, target, depth, next_sequence, dropped>>

(* "off" is a device without power, or halted by a failed recovery; "idle" *)
(* is between calls; "allocate", "body" and "commit" are the middle of     *)
(* append; the others name the call whose reclaim_inactive_sectors runs.   *)
Reclaiming == {"recover", "discard", "append", "acknowledge"}
Phases     == {"off", "idle", "allocate", "body", "commit"} \cup Reclaiming

ErasedSlots == {s \in Slots : flash[s].kind = "Erased"}
ActiveSlots == {s \in Slots : flash[s].kind = "Active"}
RecordSlots == {s \in Slots : flash[s].kind \in {"Active", "Acknowledged"}}
(* Faulty: reclaiming overlooks slots that never became a record. *)
BadDirtySlots == {s \in Slots : flash[s].kind = "Acknowledged"}
DirtySlots  == {s \in Slots : flash[s].kind \in {"Acknowledged", "Corrupt"}}

(* The scans keep the first slot they meet among equals. *)
IsOldest(s) ==
  /\ s \in ActiveSlots
  /\ \A t \in ActiveSlots \ {s} :
       \/ flash[s].sequence < flash[t].sequence
       \/ flash[s].sequence = flash[t].sequence /\ s < t

IsNewest(s) ==
  /\ s \in RecordSlots
  /\ \A t \in RecordSlots \ {s} :
       \/ flash[s].sequence > flash[t].sequence
       \/ flash[s].sequence = flash[t].sequence /\ s < t

IsFirstErased(s) ==
  /\ s \in ErasedSlots
  /\ \A t \in ErasedSlots : s <= t

(* Faulty: the newest record is not kept once it is acknowledged. *)
BadReclaimable(sector) ==
  /\ SlotsOf(sector) \cap ActiveSlots = {}
  /\ SlotsOf(sector) \cap DirtySlots # {}

(* A sector is erased when it holds nothing active, something to clean and *)
(* not the newest record: that one carries the sequence across a reboot.   *)
Reclaimable(sector) ==
  /\ SlotsOf(sector) \cap ActiveSlots = {}
  /\ SlotsOf(sector) \cap DirtySlots # {}
  /\ ~ \E s \in SlotsOf(sector) : IsNewest(s)

NothingToReclaim == \A k \in 0 .. Sectors - 1 : ~ Reclaimable(k)

NextToReclaim(k) ==
  /\ k \in 0 .. Sectors - 1
  /\ Reclaimable(k)
  /\ \A j \in 0 .. k - 1 : ~ Reclaimable(j)

-----------------------------------------------------------------------------
Init ==
  /\ flash = [s \in Slots |-> Erased]
  /\ phase = "off"
  /\ target = 0
  /\ depth = 0
  /\ next_sequence = 0
  /\ dropped = 0

(* Faulty: every readable record is counted as pending. *)
BadRecover ==
  /\ phase = "off"
  /\ depth' = Cardinality(RecordSlots)
  /\ \/ RecordSlots = {} /\ next_sequence' = 0
     \/ \E s \in Slots : IsNewest(s) /\ next_sequence' = flash[s].sequence + 1
  /\ phase' = "recover"
  /\ UNCHANGED <<flash, target, dropped>>

(* FlashQueue::recover: RAM is rebuilt from the flash alone. *)
Recover ==
  /\ phase = "off"
  /\ depth' = Cardinality(ActiveSlots)
  /\ \/ RecordSlots = {} /\ next_sequence' = 0
     \/ \E s \in Slots : IsNewest(s) /\ next_sequence' = flash[s].sequence + 1
  /\ phase' = "recover"
  /\ UNCHANGED <<flash, target, dropped>>

(* append on a queue with room goes straight to choosing a slot. *)
BeginAppend ==
  /\ phase = "idle"
  /\ next_sequence < MaxSequence
  /\ depth # Capacity
  /\ phase' = "allocate"
  /\ UNCHANGED <<flash, target, ram>>

(* Faulty: append discards one record too early. *)
BadDiscardOldest ==
  /\ phase = "idle"
  /\ next_sequence < MaxSequence
  /\ depth >= Capacity - 1
  /\ \E s \in Slots :
       /\ IsOldest(s)
       /\ flash' = [flash EXCEPT ![s] = Acknowledged(flash[s].sequence)]
  /\ depth' = depth - 1
  /\ phase' = "discard"
  /\ UNCHANGED <<target, next_sequence, dropped>>

(* append on a full queue first retires the oldest record. *)
DiscardOldest ==
  /\ phase = "idle"
  /\ next_sequence < MaxSequence
  /\ depth = Capacity
  /\ \E s \in Slots :
       /\ IsOldest(s)
       /\ flash' = [flash EXCEPT ![s] = Acknowledged(flash[s].sequence)]
  /\ depth' = depth - 1
  /\ phase' = "discard"
  /\ UNCHANGED <<target, next_sequence, dropped>>

(* The sequence number is consumed before a slot is looked for. *)
Allocate ==
  /\ phase = "allocate"
  /\ next_sequence' = next_sequence + 1
  /\ \E s \in Slots : IsFirstErased(s) /\ target' = s
  /\ phase' = "body"
  /\ UNCHANGED <<flash, depth, dropped>>

(* No erased slot: append returns InvalidGeometry. *)
AllocateRefused ==
  /\ phase = "allocate"
  /\ ErasedSlots = {}
  /\ next_sequence' = next_sequence + 1
  /\ phase' = "idle"
  /\ UNCHANGED <<flash, target, depth, dropped>>

(* The body goes first with byte 0 left erased: not yet a record. *)
WriteBody ==
  /\ phase = "body"
  /\ flash' = [flash EXCEPT ![target] = Corrupt]
  /\ phase' = "commit"
  /\ UNCHANGED <<target, ram>>

Commit ==
  /\ phase = "commit"
  /\ flash' = [flash EXCEPT ![target] = Active(next_sequence - 1)]
  /\ depth' = depth + 1
  /\ phase' = "append"
  /\ target' = 0
  /\ UNCHANGED <<next_sequence, dropped>>

(* Faulty: acknowledging an empty queue still counts down. *)
BadAcknowledgeOldest ==
  /\ phase = "idle"
  /\ flash' = [s \in Slots |-> IF IsOldest(s) THEN Acknowledged(flash[s].sequence)
                                             ELSE flash[s]]
  /\ depth' = depth - 1
  /\ phase' = "acknowledge"
  /\ UNCHANGED <<target, next_sequence, dropped>>

AcknowledgeOldest ==
  /\ phase = "idle"
  /\ \E s \in Slots :
       /\ IsOldest(s)
       /\ flash' = [flash EXCEPT ![s] = Acknowledged(flash[s].sequence)]
  /\ depth' = depth - 1
  /\ phase' = "acknowledge"
  /\ UNCHANGED <<target, next_sequence, dropped>>

(* acknowledge_oldest on an empty queue returns Ok(None). *)
AcknowledgeNothing ==
  /\ phase = "idle"
  /\ ActiveSlots = {}
  /\ UNCHANGED vars

-----------------------------------------------------------------------------
(* reclaim_inactive_sectors, one erase at a time in sector order.          *)

EraseSector ==
  /\ phase \in Reclaiming
  /\ \E k \in 0 .. Sectors - 1 :
       /\ NextToReclaim(k)
       /\ flash' = [s \in Slots |-> IF s \in SlotsOf(k) THEN Erased ELSE flash[s]]
  /\ UNCHANGED <<phase, target, ram>>

ReclaimReturns ==
  /\ phase \in Reclaiming
  /\ NothingToReclaim
  /\ phase' = IF phase = "discard" THEN "allocate" ELSE "idle"
  /\ dropped' = IF phase = "discard" THEN dropped + 1 ELSE dropped
  /\ UNCHANGED <<flash, target, depth, next_sequence>>

-----------------------------------------------------------------------------
(* Faults.  A failed flash operation changes nothing and ends the call; a  *)
(* failure that would leave every variable as it is has no action here.    *)

AllocateFails ==
  /\ StorageMayFail
  /\ phase = "allocate"
  /\ next_sequence' = next_sequence + 1
  /\ phase' = "idle"
  /\ UNCHANGED <<flash, target, depth, dropped>>

WriteFails ==
  /\ StorageMayFail
  /\ phase \in {"body", "commit"}
  /\ phase' = "idle"
  /\ target' = 0
  /\ UNCHANGED <<flash, ram>>

ReclaimFails ==
  /\ StorageMayFail
  /\ phase \in Reclaiming \ {"recover"}
  /\ phase' = "idle"
  /\ UNCHANGED <<flash, target, ram>>

PowerOff ==
  /\ phase' = "off"
  /\ target' = 0
  /\ depth' = 0
  /\ next_sequence' = 0
  /\ dropped' = 0

(* A boot whose recovery fails panics: the device stays halted. *)
RecoverFails ==
  /\ StorageMayFail
  /\ phase = "recover"
  /\ PowerOff
  /\ UNCHANGED flash

PowerLoss ==
  /\ PowerMayFail
  /\ phase # "off"
  /\ PowerOff
  /\ UNCHANGED flash

(* An interrupted erase leaves each slot of the sector as it was, erased,  *)
(* or unreadable.                                                          *)
Torn(outcome, before) ==
  CASE outcome = "kept"    -> before
    [] outcome = "erased"  -> Erased
    [] outcome = "corrupt" -> Corrupt

PowerLossInErase ==
  /\ PowerMayFail
  /\ phase \in Reclaiming
  /\ \E k \in 0 .. Sectors - 1 :
       /\ NextToReclaim(k)
       /\ \E outcome \in [SlotsOf(k) -> {"kept", "erased", "corrupt"}] :
            flash' = [s \in Slots |-> IF s \in SlotsOf(k)
                                     THEN Torn(outcome[s], flash[s])
                                     ELSE flash[s]]
  /\ PowerOff

-----------------------------------------------------------------------------
Operation ==
  \/ Recover
  \/ BeginAppend
  \/ DiscardOldest
  \/ Allocate
  \/ AllocateRefused
  \/ WriteBody
  \/ Commit
  \/ AcknowledgeOldest
  \/ AcknowledgeNothing
  \/ EraseSector
  \/ ReclaimReturns

Fault ==
  \/ AllocateFails
  \/ WriteFails
  \/ ReclaimFails
  \/ RecoverFails
  \/ PowerLoss
  \/ PowerLossInErase

Next == Operation \/ Fault

Spec == Init /\ [][Next]_vars

-----------------------------------------------------------------------------
(* Correctness.                                                            *)

(* Every variable stays in its range; in particular the slot append is     *)
(* writing is a slot.                                                      *)
TypeOK ==
  /\ flash \in [Slots -> SlotContents]
  /\ phase \in Phases
  /\ target \in Slots
  /\ depth \in Nat
  /\ next_sequence \in Nat
  /\ dropped \in Nat

(* The RAM counter that decides whether the queue is full is the number of *)
(* active records on flash, through every interruption and failed call.    *)
DepthAccurate == phase # "off" => depth = Cardinality(ActiveSlots)

(* No history makes the flash hold more active records than the capacity,  *)
(* which leaves one sector's worth of slots for reclaiming.                *)
WithinCapacity == Cardinality(ActiveSlots) <= Capacity

(* No two readable records carry the same number, and the next number is   *)
(* above all of them: a measurement is never confused with another one,    *)
(* and the scan for the oldest is first-in-first-out.                      *)
SequencesUnique ==
  \A s, t \in RecordSlots : flash[s].sequence = flash[t].sequence => s = t

NextSequenceFresh ==
  phase # "off" => \A s \in RecordSlots : flash[s].sequence < next_sequence

(* README: on a full queue "the oldest measurement is explicitly discarded *)
(* so newer outage data continues to be captured".  So an append, once     *)
(* past the discard, has a slot to write to.                               *)
AppendFindsErasedSlot == phase = "allocate" => ErasedSlots # {}

(* Once every record is retired and reclaiming has finished, all of the    *)
(* flash but the sector of the newest record is writable again, whatever   *)
(* was written, torn or left unclaimed by the calls that got there.        *)
DrainedQueueHasRoom ==
  phase \in Reclaiming /\ NothingToReclaim /\ ActiveSlots = {} =>
    Cardinality(ErasedSlots) >= Capacity

(* append gives up an unacknowledged record only when the flash really     *)
(* holds Capacity of them, although it is the RAM counter that it asks.    *)
DiscardOnlyWhenFull ==
  [][phase = "idle" /\ phase' = "discard" =>
       Cardinality(ActiveSlots) = Capacity]_vars

-----------------------------------------------------------------------------
(* The abstract queue: its contents are the active records, its high-water *)
(* mark is the newest record on flash, acknowledged or not.                *)

ActiveSequences == {flash[s].sequence : s \in ActiveSlots}

NewestSequence ==
  IF RecordSlots = {} THEN -1 ELSE flash[CHOOSE s \in Slots : IsNewest(s)].sequence

Abstract == INSTANCE MeasurementQueue WITH
  QueueCapacity <- Capacity,
  pending <- ActiveSequences,
  newest <- NewestSequence

(* Seen through the flash, the queue is a bounded FIFO that never loses a  *)
(* committed record, never returns a retired one and never stores under a  *)
(* number used before, power loss at any point included.                   *)
ImplementsMeasurementQueue == Abstract!QueueSpec
=============================================================================
