-------------------------- MODULE FlashQueueProofs --------------------------
(***************************************************************************)
(* Proofs about FlashQueue, for every geometry, every bound on the         *)
(* sequence and with both kinds of fault allowed or not.                   *)
(***************************************************************************)
EXTENDS FlashQueue, FiniteSetTheorems, TLAPS

(* A record not yet written is above every record on flash, and the slot   *)
(* it goes to is the one append found.                                     *)
WritingIsFresh ==
  phase \in {"body", "commit"} =>
    /\ \A s \in RecordSlots : flash[s].sequence < next_sequence - 1
    /\ next_sequence > 0
    /\ flash[target].kind = (IF phase = "body" THEN "Erased" ELSE "Corrupt")

(* Past the test for a full queue, append has room to count one more.      *)
RoomToAppend ==
  phase \in {"discard", "allocate", "body", "commit"} => depth < Capacity

(* The highest number ever stored is still readable on flash. *)
NewestExists == RecordSlots # {} => \E s \in Slots : IsNewest(s)

(* What holds of the flash alone survives a power loss. *)
FlashInv ==
  /\ flash \in [Slots -> SlotContents]
  /\ WithinCapacity
  /\ SequencesUnique
  /\ NewestExists

IInv ==
  /\ TypeOK
  /\ FlashInv
  /\ DepthAccurate
  /\ NextSequenceFresh
  /\ WritingIsFresh
  /\ RoomToAppend
-----------------------------------------------------------------------------
(* The region has a first slot and finitely many. *)
LEMMA SlotFacts ==
  /\ Slots \subseteq Nat
  /\ 0 \in Slots
  /\ IsFiniteSet(Slots)
  /\ Capacity \in Nat
  /\ Capacity > 0
<1>1. Sectors * SlotsPerSector = (Sectors - 1) * SlotsPerSector + SlotsPerSector
  BY GeometryAssumption
<1>2. (Sectors - 1) * SlotsPerSector \in Nat /\ (Sectors - 1) * SlotsPerSector > 0
  BY GeometryAssumption
<1>3. Sectors * SlotsPerSector \in Nat /\ Sectors * SlotsPerSector > 0
  BY <1>1, <1>2, GeometryAssumption
<1>4. IsFiniteSet(Slots)
  BY <1>3, FS_Interval DEF Slots
<1> QED
  BY <1>1, <1>2, <1>3, <1>4, GeometryAssumption DEF Slots, Capacity

(* Sets of slots are finite, so their cardinalities are natural numbers. *)
LEMMA ActiveFinite == IsFiniteSet(ActiveSlots) /\ Cardinality(ActiveSlots) \in Nat
<1>1. ActiveSlots \subseteq Slots
  BY DEF ActiveSlots
<1> QED
  BY <1>1, SlotFacts, FS_Subset, FS_CardinalityType

(* Marking the oldest record acknowledged takes exactly it out of the      *)
(* active ones and leaves every record readable under its number.          *)
LEMMA Acknowledging ==
  ASSUME IInv, NEW s \in Slots, IsOldest(s),
         flash' = [flash EXCEPT ![s] = Acknowledged(flash[s].sequence)]
  PROVE  /\ FlashInv'
         /\ ActiveSlots' = ActiveSlots \ {s}
         /\ RecordSlots' = RecordSlots
         /\ \A t \in Slots : flash'[t].sequence = flash[t].sequence
         /\ Cardinality(ActiveSlots') = Cardinality(ActiveSlots) - 1
<1> USE DEF IInv, FlashInv
<1>1. flash[s].kind = "Active" /\ flash[s].sequence \in Nat
  BY DEF IsOldest, ActiveSlots, SlotContents
<1>2. flash' \in [Slots -> SlotContents]
  BY <1>1 DEF SlotContents, Acknowledged
<1>3. \A t \in Slots : flash'[t].sequence = flash[t].sequence
  BY DEF Acknowledged
<1>4. ActiveSlots' = ActiveSlots \ {s}
  BY <1>1 DEF ActiveSlots, Acknowledged
<1>5. RecordSlots' = RecordSlots
  BY <1>1 DEF RecordSlots, Acknowledged
<1>6. s \in ActiveSlots
  BY DEF IsOldest
<1>7. Cardinality(ActiveSlots') = Cardinality(ActiveSlots) - 1
  BY <1>4, <1>6, ActiveFinite, FS_RemoveElement
<1>8. WithinCapacity'
  BY <1>7, ActiveFinite, SlotFacts DEF WithinCapacity
<1>9. SequencesUnique'
  BY <1>3, <1>5 DEF SequencesUnique, RecordSlots
<1>10. NewestExists'
  <2>1. \A t \in Slots : IsNewest(t) => IsNewest(t)'
    BY <1>3, <1>5 DEF IsNewest, RecordSlots
  <2> QED
    BY <2>1, <1>5 DEF NewestExists
<1> QED
  BY <1>2, <1>3, <1>4, <1>5, <1>7, <1>8, <1>9, <1>10

(* Cleaning a reclaimable sector, wholly or in part, loses no active       *)
(* record, keeps the newest record and invents none.                       *)
LEMMA Cleaning ==
  ASSUME IInv, NEW k \in 0 .. Sectors - 1, Reclaimable(k),
         flash' \in [Slots -> SlotContents],
         \A s \in Slots : s \notin SlotsOf(k) => flash'[s] = flash[s],
         \A s \in Slots : s \in SlotsOf(k) => flash'[s] \in {flash[s], Erased, Corrupt}
  PROVE  /\ FlashInv'
         /\ ActiveSlots' = ActiveSlots
         /\ RecordSlots' \subseteq RecordSlots
         /\ \A s \in RecordSlots' : flash'[s].sequence = flash[s].sequence
         /\ \A s \in Slots : IsNewest(s) => IsNewest(s)'
         /\ RecordSlots = {} <=> RecordSlots' = {}
<1> USE DEF IInv, FlashInv
<1>1. ActiveSlots' = ActiveSlots
  BY DEF Reclaimable, ActiveSlots, Erased, Corrupt
<1>2. RecordSlots' \subseteq RecordSlots
  BY DEF RecordSlots, Erased, Corrupt
<1>3. \A s \in RecordSlots' : flash'[s].sequence = flash[s].sequence
  BY DEF RecordSlots, Erased, Corrupt
<1>4. ASSUME NEW s \in Slots, IsNewest(s) PROVE IsNewest(s)'
  <2>1. s \notin SlotsOf(k)
    BY <1>4 DEF Reclaimable
  <2>2. s \in RecordSlots'
    BY <2>1, <1>4 DEF IsNewest, RecordSlots
  <2> QED
    BY <2>1, <2>2, <1>2, <1>3, <1>4 DEF IsNewest
<1>5. RecordSlots = {} <=> RecordSlots' = {}
  BY <1>2, <1>4 DEF NewestExists, IsNewest
<1>6. WithinCapacity'
  BY <1>1 DEF WithinCapacity
<1>7. SequencesUnique'
  BY <1>2, <1>3 DEF SequencesUnique
<1>8. NewestExists'
  BY <1>4, <1>5 DEF NewestExists
<1> QED
  BY <1>1, <1>2, <1>3, <1>4, <1>5, <1>6, <1>7, <1>8

(* Writing a record under a number above every other one makes it the      *)
(* newest and adds exactly its slot to the active ones.                    *)
LEMMA Committing ==
  ASSUME IInv, phase = "commit", NEW w \in Slots, w = target,
         flash' = [flash EXCEPT ![w] = Active(next_sequence - 1)]
  PROVE  /\ FlashInv'
         /\ ActiveSlots' = ActiveSlots \cup {w}
         /\ RecordSlots' = RecordSlots \cup {w}
         /\ \A s \in Slots \ {w} : flash'[s] = flash[s]
         /\ flash'[w].sequence = next_sequence - 1
         /\ IsNewest(w)'
         /\ Cardinality(ActiveSlots') = Cardinality(ActiveSlots) + 1
<1> USE DEF IInv, FlashInv
<1>1. /\ flash[w].kind = "Corrupt"
      /\ next_sequence - 1 \in Nat
      /\ \A s \in RecordSlots : flash[s].sequence < next_sequence - 1
  BY DEF WritingIsFresh, TypeOK
<1>2. flash' \in [Slots -> SlotContents]
  BY <1>1 DEF SlotContents, Active
<1>3. \A s \in Slots \ {w} : flash'[s] = flash[s]
  OBVIOUS
<1>4. flash'[w].kind = "Active" /\ flash'[w].sequence = next_sequence - 1
  BY <1>1 DEF Active
<1>5. ActiveSlots' = ActiveSlots \cup {w} /\ w \notin ActiveSlots
  BY <1>1, <1>3, <1>4 DEF ActiveSlots
<1>6. RecordSlots' = RecordSlots \cup {w} /\ w \notin RecordSlots
  BY <1>1, <1>3, <1>4 DEF RecordSlots
<1>7. Cardinality(ActiveSlots') = Cardinality(ActiveSlots) + 1
  BY <1>5, ActiveFinite, FS_AddElement
<1>8. \A s \in RecordSlots : flash'[s].sequence = flash[s].sequence /\ flash[s].sequence \in Nat
  BY <1>3, <1>6 DEF RecordSlots, SlotContents
<1>9. IsNewest(w)'
  BY <1>1, <1>4, <1>6, <1>8 DEF IsNewest
<1>10. WithinCapacity'
  BY <1>7, ActiveFinite, SlotFacts DEF WithinCapacity, RoomToAppend, DepthAccurate
<1>11. SequencesUnique'
  BY <1>1, <1>4, <1>6, <1>8 DEF SequencesUnique
<1>12. NewestExists'
  BY <1>1, <1>9 DEF NewestExists
<1> QED
  BY <1>2, <1>3, <1>4, <1>5, <1>6, <1>7, <1>9, <1>10, <1>11, <1>12
-----------------------------------------------------------------------------
LEMMA InitIInv == Init => IInv
<1> SUFFICES ASSUME Init PROVE IInv
  OBVIOUS
<1>1. ActiveSlots = {} /\ RecordSlots = {}
  BY DEF Init, ActiveSlots, RecordSlots, Erased
<1>2. TypeOK
  BY SlotFacts DEF Init, TypeOK, Phases, SlotContents, Erased
<1>3. WithinCapacity
  BY <1>1, SlotFacts, FS_EmptySet DEF WithinCapacity
<1>4. SequencesUnique /\ NewestExists
  BY <1>1 DEF SequencesUnique, NewestExists
<1> QED
  BY <1>1, <1>2, <1>3, <1>4
     DEF Init, IInv, FlashInv, TypeOK, DepthAccurate, NextSequenceFresh,
         WritingIsFresh, RoomToAppend

(* Calls and faults that leave the flash alone leave its sets alone. *)
LEMMA FlashUnchanged ==
  ASSUME flash' = flash
  PROVE  /\ ActiveSlots' = ActiveSlots
         /\ RecordSlots' = RecordSlots
         /\ FlashInv <=> FlashInv'
  BY DEF ActiveSlots, RecordSlots, FlashInv, WithinCapacity, SequencesUnique,
         NewestExists, IsNewest

(* A device that goes off keeps only what is on flash. *)
LEMMA GoingOff ==
  ASSUME FlashInv', PowerOff
  PROVE  IInv'
<1> QED
  BY SlotFacts
     DEF PowerOff, IInv, FlashInv, TypeOK, Phases, DepthAccurate, NextSequenceFresh,
         WritingIsFresh, RoomToAppend

LEMMA OperationIInv == IInv /\ Operation => IInv'
<1> SUFFICES ASSUME IInv, Operation PROVE IInv'
  OBVIOUS
<1> USE DEF IInv
<1>1. CASE Recover
  <2>1. next_sequence' \in Nat /\ \A s \in RecordSlots : flash[s].sequence < next_sequence'
    BY <1>1 DEF Recover, IsNewest, RecordSlots, FlashInv, SlotContents
  <2> QED
    BY <1>1, <2>1, FlashUnchanged, ActiveFinite
       DEF Recover, TypeOK, Phases, Reclaiming, FlashInv, DepthAccurate,
           NextSequenceFresh, WritingIsFresh, RoomToAppend
<1>2. CASE BeginAppend
  BY <1>2, FlashUnchanged, SlotFacts
     DEF BeginAppend, ram, TypeOK, Phases, FlashInv, DepthAccurate, WithinCapacity,
         NextSequenceFresh, WritingIsFresh, RoomToAppend
<1>3. CASE DiscardOldest
  <2>1. PICK s \in Slots :
          /\ IsOldest(s)
          /\ flash' = [flash EXCEPT ![s] = Acknowledged(flash[s].sequence)]
    BY <1>3 DEF DiscardOldest
  <2> HIDE DEF IInv
  <2>2. /\ FlashInv'
        /\ RecordSlots' = RecordSlots
        /\ \A t \in Slots : flash'[t].sequence = flash[t].sequence
        /\ Cardinality(ActiveSlots') = Cardinality(ActiveSlots) - 1
        /\ s \in ActiveSlots
    BY <2>1, Acknowledging DEF IsOldest
  <2>3. Cardinality(ActiveSlots) > 0
    BY <2>2, ActiveFinite, FS_EmptySet
  <2>4. NextSequenceFresh'
    BY <1>3, <2>2 DEF DiscardOldest, IInv, NextSequenceFresh, RecordSlots
  <2> QED
    BY <1>3, <2>2, <2>3, <2>4, ActiveFinite, SlotFacts
       DEF DiscardOldest, IInv, TypeOK, Phases, Reclaiming, FlashInv, DepthAccurate,
           WithinCapacity, WritingIsFresh, RoomToAppend
<1>4. CASE Allocate
  <2>1. target' \in Slots /\ flash[target'].kind = "Erased"
    BY <1>4 DEF Allocate, IsFirstErased, ErasedSlots
  <2> QED
    BY <1>4, <2>1, FlashUnchanged
       DEF Allocate, TypeOK, Phases, FlashInv, DepthAccurate, NextSequenceFresh,
           WritingIsFresh, RoomToAppend, RecordSlots, SlotContents
<1>5. CASE AllocateRefused
  BY <1>5, FlashUnchanged
     DEF AllocateRefused, TypeOK, Phases, FlashInv, DepthAccurate,
         NextSequenceFresh, WritingIsFresh, RoomToAppend, RecordSlots, SlotContents
<1>6. CASE WriteBody
  <2>1. /\ target \in Slots
        /\ flash[target].kind = "Erased"
        /\ flash' \in [Slots -> SlotContents]
        /\ flash'[target].kind = "Corrupt"
        /\ \A s \in Slots \ {target} : flash'[s] = flash[s]
    BY <1>6 DEF WriteBody, WritingIsFresh, TypeOK, SlotContents, Corrupt
  <2>2. ActiveSlots' = ActiveSlots /\ RecordSlots' = RecordSlots
    BY <2>1 DEF ActiveSlots, RecordSlots
  <2>3. \A s \in RecordSlots : flash'[s] = flash[s]
    BY <2>1 DEF RecordSlots
  <2>4. SequencesUnique' /\ NewestExists' /\ WithinCapacity'
    BY <2>2, <2>3
       DEF FlashInv, SequencesUnique, NewestExists, WithinCapacity, IsNewest
  <2> QED
    BY <1>6, <2>1, <2>2, <2>3, <2>4
       DEF WriteBody, ram, TypeOK, Phases, FlashInv, DepthAccurate,
           NextSequenceFresh, WritingIsFresh, RoomToAppend
<1>7. CASE Commit
  <2>1. PICK w \in Slots : w = target /\ flash' = [flash EXCEPT ![w] = Active(next_sequence - 1)]
    BY <1>7 DEF Commit, TypeOK
  <2> HIDE DEF IInv
  <2>2. /\ FlashInv'
        /\ RecordSlots' = RecordSlots \cup {w}
        /\ \A s \in Slots \ {w} : flash'[s] = flash[s]
        /\ flash'[w].sequence = next_sequence - 1
        /\ Cardinality(ActiveSlots') = Cardinality(ActiveSlots) + 1
    BY <1>7, <2>1, Committing DEF Commit
  <2>3. NextSequenceFresh'
    BY <1>7, <2>2 DEF Commit, IInv, TypeOK, NextSequenceFresh, RecordSlots
  <2> QED
    BY <1>7, <2>2, <2>3, SlotFacts
       DEF Commit, IInv, TypeOK, Phases, Reclaiming, FlashInv, DepthAccurate,
           WritingIsFresh, RoomToAppend
<1>8. CASE AcknowledgeOldest
  <2>1. PICK s \in Slots :
          /\ IsOldest(s)
          /\ flash' = [flash EXCEPT ![s] = Acknowledged(flash[s].sequence)]
    BY <1>8 DEF AcknowledgeOldest
  <2> HIDE DEF IInv
  <2>2. /\ FlashInv'
        /\ RecordSlots' = RecordSlots
        /\ \A t \in Slots : flash'[t].sequence = flash[t].sequence
        /\ Cardinality(ActiveSlots') = Cardinality(ActiveSlots) - 1
        /\ s \in ActiveSlots
    BY <2>1, Acknowledging DEF IsOldest
  <2>3. Cardinality(ActiveSlots) > 0
    BY <2>2, ActiveFinite, FS_EmptySet
  <2>4. NextSequenceFresh'
    BY <1>8, <2>2 DEF AcknowledgeOldest, IInv, NextSequenceFresh, RecordSlots
  <2> QED
    BY <1>8, <2>2, <2>3, <2>4, ActiveFinite, SlotFacts
       DEF AcknowledgeOldest, IInv, TypeOK, Phases, Reclaiming, FlashInv, DepthAccurate,
           WithinCapacity, WritingIsFresh, RoomToAppend
<1>9. CASE AcknowledgeNothing
  BY <1>9, FlashUnchanged
     DEF AcknowledgeNothing, vars, TypeOK, FlashInv, DepthAccurate,
         NextSequenceFresh, WritingIsFresh, RoomToAppend
<1>10. CASE EraseSector
  <2>1. PICK k \in 0 .. Sectors - 1 :
          /\ NextToReclaim(k)
          /\ flash' = [s \in Slots |-> IF s \in SlotsOf(k) THEN Erased ELSE flash[s]]
    BY <1>10 DEF EraseSector
  <2>2. flash' \in [Slots -> SlotContents]
    BY <2>1 DEF FlashInv, SlotContents, Erased
  <2>3. /\ FlashInv'
        /\ ActiveSlots' = ActiveSlots
        /\ RecordSlots' \subseteq RecordSlots
        /\ \A s \in RecordSlots' : flash'[s].sequence = flash[s].sequence
    BY <2>1, <2>2, Cleaning DEF NextToReclaim
  <2> QED
    BY <1>10, <2>3
       DEF EraseSector, ram, Reclaiming, TypeOK, FlashInv, DepthAccurate,
           NextSequenceFresh, WritingIsFresh, RoomToAppend
<1>11. CASE ReclaimReturns
  BY <1>11, FlashUnchanged
     DEF ReclaimReturns, Reclaiming, TypeOK, Phases, FlashInv, DepthAccurate,
         NextSequenceFresh, WritingIsFresh, RoomToAppend
<1> QED
  BY <1>1, <1>2, <1>3, <1>4, <1>5, <1>6, <1>7, <1>8, <1>9, <1>10, <1>11 DEF Operation

LEMMA FaultIInv == IInv /\ Fault => IInv'
<1> SUFFICES ASSUME IInv, Fault PROVE IInv'
  OBVIOUS
<1> USE DEF IInv
<1>1. CASE AllocateFails
  BY <1>1, FlashUnchanged
     DEF AllocateFails, TypeOK, Phases, FlashInv, DepthAccurate, NextSequenceFresh,
         WritingIsFresh, RoomToAppend, RecordSlots, SlotContents
<1>2. CASE WriteFails
  BY <1>2, FlashUnchanged, SlotFacts
     DEF WriteFails, ram, TypeOK, Phases, FlashInv, DepthAccurate, NextSequenceFresh,
         WritingIsFresh, RoomToAppend
<1>3. CASE ReclaimFails
  BY <1>3, FlashUnchanged
     DEF ReclaimFails, ram, Reclaiming, TypeOK, Phases, FlashInv, DepthAccurate,
         NextSequenceFresh, WritingIsFresh, RoomToAppend
<1>4. CASE RecoverFails
  BY <1>4, FlashUnchanged, GoingOff DEF RecoverFails
<1>5. CASE PowerLoss
  BY <1>5, FlashUnchanged, GoingOff DEF PowerLoss
<1>6. CASE PowerLossInErase
  <2>1. PICK k \in 0 .. Sectors - 1 :
          /\ NextToReclaim(k)
          /\ \E outcome \in [SlotsOf(k) -> {"kept", "erased", "corrupt"}] :
               flash' = [s \in Slots |-> IF s \in SlotsOf(k)
                                        THEN Torn(outcome[s], flash[s])
                                        ELSE flash[s]]
    BY <1>6 DEF PowerLossInErase
  <2>2. PICK outcome \in [SlotsOf(k) -> {"kept", "erased", "corrupt"}] :
          flash' = [s \in Slots |-> IF s \in SlotsOf(k)
                                   THEN Torn(outcome[s], flash[s])
                                   ELSE flash[s]]
    BY <2>1
  <2>3. /\ \A s \in Slots : s \in SlotsOf(k) => flash'[s] \in {flash[s], Erased, Corrupt}
        /\ \A s \in Slots : s \notin SlotsOf(k) => flash'[s] = flash[s]
    BY <2>2 DEF Torn
  <2>4. flash' \in [Slots -> SlotContents]
    BY <2>1, <2>2, <2>3 DEF FlashInv, SlotContents, Erased, Corrupt
  <2>5. FlashInv'
    BY <2>1, <2>2, <2>3, <2>4, Cleaning DEF NextToReclaim
  <2> QED
    BY <1>6, <2>5, GoingOff DEF PowerLossInErase
<1> QED
  BY <1>1, <1>2, <1>3, <1>4, <1>5, <1>6 DEF Fault

LEMMA StepIInv == IInv /\ [Next]_vars => IInv'
<1>1. IInv /\ UNCHANGED vars => IInv'
  BY FlashUnchanged
     DEF vars, IInv, FlashInv, TypeOK, DepthAccurate, NextSequenceFresh,
         WritingIsFresh, RoomToAppend
<1> QED
  BY <1>1, OperationIInv, FaultIInv DEF Next

THEOREM Invariance == Spec => []IInv
  BY InitIInv, StepIInv, PTL DEF Spec

(* Every variable keeps its range: the slot append writes to is a slot,    *)
(* and the counter of pending records never goes below zero.               *)
THEOREM TypeCorrect == Spec => []TypeOK
  BY Invariance, PTL DEF IInv

(* The counter that decides when the queue is full counts the active       *)
(* records, and these never exceed the capacity.                           *)
THEOREM DepthCorrect == Spec => [](DepthAccurate /\ WithinCapacity)
<1>1. IInv => DepthAccurate /\ WithinCapacity
  BY DEF IInv, FlashInv
<1> QED
  BY <1>1, Invariance, PTL

(* No two readable records share a number and the next one is new, so the  *)
(* scan for the oldest record is first-in-first-out.                       *)
THEOREM SequencesCorrect == Spec => [](SequencesUnique /\ NextSequenceFresh)
<1>1. IInv => SequencesUnique /\ NextSequenceFresh
  BY DEF IInv, FlashInv
<1> QED
  BY <1>1, Invariance, PTL

(* append retires an unacknowledged record only from a full flash. *)
THEOREM DiscardsCorrect == Spec => DiscardOnlyWhenFull
<1>1. IInv /\ [Next]_vars =>
        [phase = "idle" /\ phase' = "discard" => Cardinality(ActiveSlots) = Capacity]_vars
  BY DEF Next, Operation, Fault, IInv, DepthAccurate, Recover, BeginAppend, DiscardOldest,
         Allocate, AllocateRefused, WriteBody, Commit, AcknowledgeOldest, Reclaiming,
         AcknowledgeNothing, EraseSector, ReclaimReturns, AllocateFails, WriteFails,
         ReclaimFails, RecoverFails, PowerLoss, PowerLossInErase, PowerOff, vars
<1> QED
  BY <1>1, Invariance, PTL DEF Spec, DiscardOnlyWhenFull

-----------------------------------------------------------------------------
(* Room after draining.  Every slot lies in a sector, a sector has as many *)
(* slots as it says, and so the others have Capacity slots.                *)
LEMMA SlotInSector == \A s \in Slots : \E k \in 0 .. Sectors - 1 : s \in SlotsOf(k)
<1> SUFFICES ASSUME NEW s \in Slots PROVE \E k \in 0 .. Sectors - 1 : s \in SlotsOf(k)
  OBVIOUS
<1> DEFINE k == s \div SlotsPerSector
<1>1. s \in Nat /\ s < Sectors * SlotsPerSector
  BY GeometryAssumption DEF Slots
<1>2. k \in Nat /\ k * SlotsPerSector <= s /\ s < (k + 1) * SlotsPerSector
  BY <1>1, GeometryAssumption
<1> HIDE DEF k
<1>3. k < Sectors
  <2>1. SUFFICES ASSUME k >= Sectors PROVE FALSE
    BY <1>2, GeometryAssumption
  <2>2. k * SlotsPerSector >= Sectors * SlotsPerSector
    BY <2>1, <1>2, GeometryAssumption
  <2> QED
    BY <2>2, <1>1, <1>2, GeometryAssumption
<1>4. k * SlotsPerSector \in Nat /\ (k + 1) * SlotsPerSector \in Nat
  BY <1>2, GeometryAssumption
<1>5. s \in SlotsOf(k)
  BY <1>1, <1>2, <1>4 DEF SlotsOf
<1> QED
  BY <1>2, <1>3, <1>5, GeometryAssumption

LEMMA OtherSectors ==
  ASSUME NEW k \in 0 .. Sectors - 1
  PROVE  Cardinality(Slots \ SlotsOf(k)) = Capacity
<1>1. /\ k * SlotsPerSector \in Nat
      /\ (k + 1) * SlotsPerSector = k * SlotsPerSector + SlotsPerSector
      /\ (k + 1) * SlotsPerSector <= Sectors * SlotsPerSector
      /\ Sectors * SlotsPerSector \in Nat
  BY GeometryAssumption
<1>2. SlotsOf(k) \subseteq Slots
  BY <1>1, GeometryAssumption DEF SlotsOf, Slots
<1>3. Cardinality(SlotsOf(k)) = SlotsPerSector
  BY <1>1, FS_Interval, GeometryAssumption DEF SlotsOf
<1>4. Cardinality(Slots) = Sectors * SlotsPerSector
  BY <1>1, FS_Interval, GeometryAssumption, SlotFacts DEF Slots
<1>5. Slots \cap SlotsOf(k) = SlotsOf(k)
  BY <1>2
<1> QED
  <2>1. Cardinality(Slots \ SlotsOf(k)) = Cardinality(Slots) - Cardinality(SlotsOf(k))
    BY <1>5, SlotFacts, FS_Difference
  <2> QED
    BY <2>1, <1>3, <1>4 DEF Capacity

(* There is one newest record. *)
LEMMA OneNewest ==
  ASSUME FlashInv, NEW s \in Slots, NEW t \in Slots, IsNewest(s), IsNewest(t)
  PROVE  s = t
<1>1. SUFFICES ASSUME s # t PROVE FALSE
  OBVIOUS
<1>2. s \in RecordSlots \ {t} /\ t \in RecordSlots \ {s}
  BY <1>1 DEF IsNewest
<1>3. flash[s].sequence \in Nat /\ flash[t].sequence \in Nat
  BY <1>2 DEF RecordSlots, FlashInv, SlotContents
<1>4. s \in Nat /\ t \in Nat
  BY SlotFacts
<1>5. /\ flash[s].sequence > flash[t].sequence \/ (flash[s].sequence = flash[t].sequence /\ s < t)
      /\ flash[t].sequence > flash[s].sequence \/ (flash[t].sequence = flash[s].sequence /\ t < s)
  BY <1>2 DEF IsNewest
<1> QED
  BY <1>3, <1>4, <1>5

(* Reclaiming leaves nothing but erased slots outside the newest record's  *)
(* sector, if no record is active.                                         *)
LEMMA DrainedRoom == FlashInv => DrainedQueueHasRoom
<1> SUFFICES ASSUME FlashInv, NothingToReclaim, ActiveSlots = {}
             PROVE  Cardinality(ErasedSlots) >= Capacity
  BY DEF DrainedQueueHasRoom
<1>1. \E k \in 0 .. Sectors - 1 : \A s \in Slots : IsNewest(s) => s \in SlotsOf(k)
  <2>1. CASE \E s \in Slots : IsNewest(s)
    <3>1. PICK s \in Slots : IsNewest(s)
      BY <2>1
    <3>2. \A t \in Slots : IsNewest(t) => t = s
      BY <3>1, OneNewest
    <3> QED
      BY <3>2, SlotInSector
  <2>2. CASE ~ \E s \in Slots : IsNewest(s)
    BY <2>2, GeometryAssumption
  <2> QED
    BY <2>1, <2>2
<1>2. PICK k \in 0 .. Sectors - 1 : \A s \in Slots : IsNewest(s) => s \in SlotsOf(k)
  BY <1>1
<1>3. ASSUME NEW s \in Slots, s \notin SlotsOf(k) PROVE s \in ErasedSlots
  <2>1. PICK j \in 0 .. Sectors - 1 : s \in SlotsOf(j)
    BY SlotInSector
  <2>2. \A t \in SlotsOf(j) : t \in Slots /\ IsNewest(t) => FALSE
    <3>1. SUFFICES ASSUME NEW t \in Slots, t \in SlotsOf(j), t \in SlotsOf(k) PROVE FALSE
      BY <1>2
    <3>2. j # k
      BY <2>1, <1>3
    <3>3. \A x, y \in Nat : x < y => (x + 1) * SlotsPerSector <= y * SlotsPerSector
      BY GeometryAssumption
    <3>4. /\ j \in Nat /\ k \in Nat
          /\ \A x \in Nat : x * SlotsPerSector \in Nat
      BY GeometryAssumption
    <3>5. /\ j * SlotsPerSector <= t /\ t < (j + 1) * SlotsPerSector
          /\ k * SlotsPerSector <= t /\ t < (k + 1) * SlotsPerSector
      BY <3>1, <3>4, GeometryAssumption, SlotFacts DEF SlotsOf
    <3>6. t \in Nat /\ (j + 1) * SlotsPerSector \in Nat /\ (k + 1) * SlotsPerSector \in Nat
      BY <3>1, <3>4, SlotFacts
    <3>7. j < k \/ k < j
      BY <3>2, <3>4
    <3> QED
      BY <3>3, <3>4, <3>5, <3>6, <3>7
  <2>3. ~ \E t \in SlotsOf(j) : IsNewest(t)
    BY <2>2 DEF IsNewest, RecordSlots
  <2>4. SlotsOf(j) \cap DirtySlots = {}
    BY <2>3 DEF NothingToReclaim, Reclaimable
  <2>5. flash[s].kind \notin {"Active", "Acknowledged", "Corrupt"}
    BY <2>1, <2>4 DEF ActiveSlots, DirtySlots
  <2> QED
    BY <2>5 DEF ErasedSlots, FlashInv, SlotContents
<1>4. Slots \ SlotsOf(k) \subseteq ErasedSlots /\ ErasedSlots \subseteq Slots
  BY <1>3 DEF ErasedSlots
<1>5. /\ IsFiniteSet(ErasedSlots)
      /\ Cardinality(ErasedSlots) \in Nat
      /\ Cardinality(Slots \ SlotsOf(k)) <= Cardinality(ErasedSlots)
  BY <1>4, SlotFacts, FS_Subset, FS_CardinalityType
<1> QED
  BY <1>5, OtherSectors, SlotFacts

(* When reclaiming finishes on a drained queue, all of the flash but one   *)
(* sector is writable, whatever was left behind by interrupted calls.      *)
THEOREM DrainedCorrect == Spec => []DrainedQueueHasRoom
<1>1. IInv => DrainedQueueHasRoom
  BY DrainedRoom DEF IInv
<1> QED
  BY <1>1, Invariance, PTL

-----------------------------------------------------------------------------
(* The refinement: the flash seen as the abstract queue.                   *)

NewestIsHighWater ==
  FlashInv => \A s \in Slots : IsNewest(s) => NewestSequence = flash[s].sequence

(* The high-water mark is the number of the one newest record. *)
LEMMA NewestValue == NewestIsHighWater
<1> SUFFICES ASSUME FlashInv, NEW s \in Slots, IsNewest(s)
             PROVE  NewestSequence = flash[s].sequence
  BY DEF NewestIsHighWater
<1>2. \A t \in Slots : IsNewest(t) => t = s
  BY OneNewest
<1>3. (CHOOSE t \in Slots : IsNewest(t)) = s
  BY <1>2
<1>4. RecordSlots # {}
  BY DEF IsNewest
<1> QED
  BY <1>3, <1>4 DEF NewestSequence

LEMMA NewestValueNext == NewestIsHighWater'
  BY NewestValue, PTL

(* If the newest record stays the newest, so does the high-water mark. *)
LEMMA NewestKept ==
  ASSUME FlashInv, FlashInv', RecordSlots = {} <=> RecordSlots' = {},
         \A s \in Slots : IsNewest(s) =>
            IsNewest(s)' /\ flash'[s].sequence = flash[s].sequence
  PROVE  NewestSequence' = NewestSequence
<1>1. CASE RecordSlots = {}
  BY <1>1 DEF NewestSequence
<1>2. CASE RecordSlots # {}
  <2>1. PICK s \in Slots : IsNewest(s)
    BY <1>2 DEF FlashInv, NewestExists
  <2> QED
    BY <2>1, NewestValue, NewestValueNext DEF NewestIsHighWater
<1> QED
  BY <1>1, <1>2

(* Retiring the oldest record is the abstract retirement. *)
LEMMA AcknowledgingRetires ==
  ASSUME IInv, NEW s \in Slots, IsOldest(s),
         flash' = [flash EXCEPT ![s] = Acknowledged(flash[s].sequence)]
  PROVE  \E n \in ActiveSequences : Abstract!Retire(n)
<1>1. /\ FlashInv /\ FlashInv'
      /\ ActiveSlots' = ActiveSlots \ {s}
      /\ RecordSlots' = RecordSlots
      /\ \A t \in Slots : flash'[t].sequence = flash[t].sequence
      /\ s \in ActiveSlots
  BY Acknowledging DEF IInv, IsOldest
<1>2. NewestSequence' = NewestSequence
  <2>1. \A t \in Slots : IsNewest(t) => IsNewest(t)'
    BY <1>1 DEF IsNewest, RecordSlots
  <2> QED
    BY <2>1, <1>1, NewestKept
<1>3. \A t \in ActiveSlots : flash[t].sequence \in Nat /\ t \in RecordSlots /\ t \in Slots
  BY <1>1 DEF FlashInv, ActiveSlots, RecordSlots, SlotContents
<1>4. \A n \in ActiveSequences : flash[s].sequence <= n
  BY <1>3 DEF IsOldest, ActiveSequences
<1>5. ActiveSequences' = ActiveSequences \ {flash[s].sequence}
  <2>1. ActiveSequences' = {flash[t].sequence : t \in ActiveSlots \ {s}}
    BY <1>1, <1>3 DEF ActiveSequences
  <2> QED
    BY <2>1, <1>1, <1>3 DEF ActiveSequences, FlashInv, SequencesUnique
<1> QED
  BY <1>1, <1>2, <1>4, <1>5 DEF Abstract!Retire, ActiveSequences

(* Committing a record is the abstract store. *)
LEMMA CommittingStores ==
  ASSUME IInv, phase = "commit", NEW w \in Slots, w = target,
         flash' = [flash EXCEPT ![w] = Active(next_sequence - 1)]
  PROVE  Abstract!Store
<1>1. /\ FlashInv /\ FlashInv'
      /\ ActiveSlots' = ActiveSlots \cup {w}
      /\ \A s \in Slots \ {w} : flash'[s] = flash[s]
      /\ flash'[w].sequence = next_sequence - 1
      /\ IsNewest(w)'
  BY Committing DEF IInv
<1>2. /\ next_sequence - 1 \in Nat
      /\ \A s \in RecordSlots : flash[s].sequence < next_sequence - 1
      /\ flash[w].kind = "Corrupt"
  BY DEF IInv, TypeOK, WritingIsFresh
<1>3. NewestSequence' = next_sequence - 1
  BY <1>1, NewestValueNext DEF NewestIsHighWater
<1>4. NewestSequence < next_sequence - 1
  <2>1. CASE RecordSlots = {}
    BY <2>1, <1>2 DEF NewestSequence
  <2>2. CASE RecordSlots # {}
    <3>1. PICK s \in Slots : IsNewest(s)
      BY <1>1, <2>2 DEF FlashInv, NewestExists
    <3> QED
      BY <3>1, <1>1, <1>2, NewestValue DEF NewestIsHighWater, IsNewest
  <2> QED
    BY <2>1, <2>2
<1>5. ActiveSequences' = ActiveSequences \cup {next_sequence - 1}
  <2>1. \A s \in ActiveSlots : s \in Slots \ {w}
    BY <1>2 DEF ActiveSlots
  <2> QED
    BY <2>1, <1>1 DEF ActiveSequences
<1>6. Cardinality(ActiveSequences) < Capacity
  <2>1. Cardinality(ActiveSlots) < Capacity
    BY DEF IInv, DepthAccurate, RoomToAppend
  <2> DEFINE f == [s \in ActiveSlots |-> flash[s].sequence]
  <2>2. f \in Surjection(ActiveSlots, ActiveSequences)
    BY DEF Surjection, ActiveSequences
  <2>3. /\ Cardinality(ActiveSequences) <= Cardinality(ActiveSlots)
        /\ Cardinality(ActiveSequences) \in Nat
    BY <2>2, ActiveFinite, FS_Surjection, FS_CardinalityType
  <2> QED
    BY <2>1, <2>3, ActiveFinite, SlotFacts
<1>7. NewestSequence' \in Nat /\ NewestSequence' > NewestSequence
  <2>1. NewestSequence \in Int
    <3>1. CASE RecordSlots = {}
      BY <3>1 DEF NewestSequence
    <3>2. CASE RecordSlots # {}
      <4>1. PICK s \in Slots : IsNewest(s)
        BY <1>1, <3>2 DEF FlashInv, NewestExists
      <4> QED
        BY <4>1, <1>1, NewestValue
           DEF NewestIsHighWater, IsNewest, RecordSlots, FlashInv, SlotContents
    <3> QED
      BY <3>1, <3>2
  <2> QED
    BY <2>1, <1>2, <1>3, <1>4
<1>8. Abstract!Cardinality(ActiveSequences) = Cardinality(ActiveSequences)
  BY DEF Abstract!Cardinality, Cardinality
<1> QED
  BY <1>3, <1>5, <1>6, <1>7, <1>8 DEF Abstract!Store

(* Seen from the abstract queue, a step that neither retires nor stores a  *)
(* record changes nothing.                                                 *)
LEMMA CleaningStutters ==
  ASSUME IInv, NEW k \in 0 .. Sectors - 1, Reclaimable(k),
         flash' \in [Slots -> SlotContents],
         \A s \in Slots : s \notin SlotsOf(k) => flash'[s] = flash[s],
         \A s \in Slots : s \in SlotsOf(k) => flash'[s] \in {flash[s], Erased, Corrupt}
  PROVE  ActiveSequences' = ActiveSequences /\ NewestSequence' = NewestSequence
<1>1. /\ FlashInv /\ FlashInv'
      /\ ActiveSlots' = ActiveSlots
      /\ \A s \in RecordSlots' : flash'[s].sequence = flash[s].sequence
      /\ \A s \in Slots : IsNewest(s) => IsNewest(s)'
      /\ RecordSlots = {} <=> RecordSlots' = {}
  BY Cleaning DEF IInv
<1>2. \A s \in Slots : IsNewest(s) => flash'[s].sequence = flash[s].sequence
  BY <1>1 DEF IsNewest
<1>3. NewestSequence' = NewestSequence
  BY <1>1, <1>2, NewestKept
<1>4. \A s \in ActiveSlots : flash'[s].sequence = flash[s].sequence
  BY <1>1 DEF ActiveSlots, RecordSlots
<1> QED
  BY <1>1, <1>3, <1>4 DEF ActiveSequences

LEMMA SameFlashStutters ==
  flash' = flash => ActiveSequences' = ActiveSequences /\ NewestSequence' = NewestSequence
  BY DEF ActiveSequences, NewestSequence, ActiveSlots, RecordSlots, IsNewest

LEMMA StepSimulates ==
  IInv /\ [Next]_vars => [Abstract!QueueNext]_<<ActiveSequences, NewestSequence>>
<1> SUFFICES ASSUME IInv, [Next]_vars
             PROVE  \/ Abstract!QueueNext
                    \/ ActiveSequences' = ActiveSequences /\ NewestSequence' = NewestSequence
  OBVIOUS
<1>1. CASE DiscardOldest \/ AcknowledgeOldest
  <2>1. PICK s \in Slots :
          /\ IsOldest(s)
          /\ flash' = [flash EXCEPT ![s] = Acknowledged(flash[s].sequence)]
    BY <1>1 DEF DiscardOldest, AcknowledgeOldest
  <2> QED
    BY <2>1, AcknowledgingRetires DEF Abstract!QueueNext
<1>2. CASE Commit
  <2>1. PICK w \in Slots : w = target /\ flash' = [flash EXCEPT ![w] = Active(next_sequence - 1)]
    BY <1>2 DEF Commit, IInv, TypeOK
  <2> QED
    BY <1>2, <2>1, CommittingStores DEF Commit, Abstract!QueueNext
<1>3. CASE WriteBody
  <2>1. /\ target \in Slots
        /\ flash[target].kind = "Erased"
        /\ flash'[target].kind = "Corrupt"
        /\ \A s \in Slots \ {target} : flash'[s] = flash[s]
    BY <1>3 DEF WriteBody, WritingIsFresh, IInv, TypeOK, SlotContents, Corrupt
  <2>2. ActiveSlots' = ActiveSlots /\ RecordSlots' = RecordSlots
    BY <2>1 DEF ActiveSlots, RecordSlots
  <2>3. \A s \in RecordSlots : flash'[s] = flash[s] /\ s \in Slots
    BY <2>1 DEF RecordSlots
  <2>4. \A s \in Slots : IsNewest(s) => IsNewest(s)' /\ flash'[s] = flash[s]
    BY <2>2, <2>3 DEF IsNewest
  <2>5. FlashInv /\ FlashInv'
    BY StepIInv DEF IInv
  <2>6. NewestSequence' = NewestSequence
    BY <2>2, <2>4, <2>5, NewestKept
  <2> QED
    BY <2>2, <2>3, <2>6 DEF ActiveSequences, ActiveSlots, RecordSlots
<1>4. CASE EraseSector
  <2>1. PICK k \in 0 .. Sectors - 1 :
          /\ NextToReclaim(k)
          /\ flash' = [s \in Slots |-> IF s \in SlotsOf(k) THEN Erased ELSE flash[s]]
    BY <1>4 DEF EraseSector
  <2>2. flash' \in [Slots -> SlotContents]
    BY StepIInv DEF IInv, FlashInv
  <2> QED
    BY <2>1, <2>2, CleaningStutters DEF NextToReclaim
<1>5. CASE PowerLossInErase
  <2>1. PICK k \in 0 .. Sectors - 1 :
          /\ NextToReclaim(k)
          /\ \E outcome \in [SlotsOf(k) -> {"kept", "erased", "corrupt"}] :
               flash' = [s \in Slots |-> IF s \in SlotsOf(k)
                                        THEN Torn(outcome[s], flash[s])
                                        ELSE flash[s]]
    BY <1>5 DEF PowerLossInErase
  <2>2. /\ \A s \in Slots : s \in SlotsOf(k) => flash'[s] \in {flash[s], Erased, Corrupt}
        /\ \A s \in Slots : s \notin SlotsOf(k) => flash'[s] = flash[s]
    BY <2>1 DEF Torn
  <2>3. flash' \in [Slots -> SlotContents]
    BY StepIInv DEF IInv, FlashInv
  <2> QED
    BY <2>1, <2>2, <2>3, CleaningStutters DEF NextToReclaim
<1>6. CASE flash' = flash
  BY <1>6, SameFlashStutters
<1> QED
  BY <1>1, <1>2, <1>3, <1>4, <1>5, <1>6
     DEF Next, Operation, Fault, Recover, BeginAppend, Allocate, AllocateRefused,
         AcknowledgeNothing, ReclaimReturns, AllocateFails, WriteFails, ReclaimFails,
         RecoverFails, PowerLoss, vars

(* Whatever the power supply and the flash do, the records on flash form   *)
(* the abstract queue: bounded, first-in-first-out, never losing a         *)
(* committed record and never storing under a number used before.          *)
THEOREM Implementation == Spec => ImplementsMeasurementQueue
<1>1. Init => Abstract!QueueInit
  BY DEF Init, Abstract!QueueInit, ActiveSequences, NewestSequence, ActiveSlots,
         RecordSlots, Erased
<1> QED
  BY <1>1, StepSimulates, Invariance, PTL
     DEF Spec, ImplementsMeasurementQueue, Abstract!QueueSpec, Abstract!queueVars
=============================================================================
