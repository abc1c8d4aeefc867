--------------------------- MODULE DataPathProofs ---------------------------
(***************************************************************************)
(* What is read is what was there: proofs about the three modules that     *)
(* move data.  SpiReceive, for every set of lengths and every size of the  *)
(* FIFO; VoltageSpi, for any number of reads; ReadingFormat, for every set *)
(* of measurements, voltages and names, and every pair of buffers that     *)
(* differ enough.                                                          *)
(*                                                                         *)
(* ReadsWholeFrame is not inductive: the length comes from a word that     *)
(* SpiBus may have kept since an earlier command.  What is missing is that *)
(* a kept word that speaks of a frame speaks of the one at the head, which *)
(* only the runner removes.                                                *)
(*                                                                         *)
(* Nor is PublishedAsCaptured, of which a slot that is only corrupt says   *)
(* nothing.  What is missing is what can be in any slot, whatever power    *)
(* losses did to it: fields of one record, erased ones and a half written  *)
(* one (Fragment).  Such a mixture passes its checksum only if it is the   *)
(* whole record (OnlyWhole).                                               *)
(***************************************************************************)
EXTENDS SpiReceive, VoltageSpi, ReadingFormat, TLAPS

StatusTrue == status \notin {Zero, NoFrame} => fifo # <<>> /\ status = Head(fifo)

IInv == TypeOK /\ StatusTrue /\ ReadsWholeFrame

(* The status word that comes with a command that leaves a proper FIFO.    *)
LEMMA ReportFacts ==
  ASSUME fifo' \in Seq(Lengths), Report
  PROVE  status' \in Lengths \cup {Zero, NoFrame} /\ StatusTrue'
<1>1. CASE fifo' = <<>>
  BY <1>1 DEF Report, Words, StatusTrue
<1>2. CASE fifo' # <<>>
  <2>1. Head(fifo') \in Lengths
    BY <1>2
  <2> QED
    BY <1>2, <2>1 DEF Report, Words, StatusTrue
<1> QED
  BY <1>1, <1>2

LEMMA Invariance == Spec => []IInv
<1>1. Init => IInv
  <2> SUFFICES ASSUME Init PROVE IInv
    OBVIOUS
  <2>1. fifo \in Seq(Lengths)
    BY DEF Init
  <2>2. credit \in 0 .. MaxCredit /\ received \in 0 .. CountModulus - 1
    BY FrameAssumption DEF Init, FrameAssumption
  <2> QED
    BY <2>1, <2>2 DEF Init, IInv, TypeOK, StatusTrue, ReadsWholeFrame
<1>2. IInv /\ [Next]_vars => IInv'
  <2> SUFFICES ASSUME IInv, [Next]_vars PROVE IInv'
    OBVIOUS
  <2> USE DEF IInv
  <2>1. CASE TxChanges
    BY <2>1 DEF TxChanges, TypeOK, StatusTrue, ReadsWholeFrame
  <2>2. CASE Send
    <3>1. fifo' = fifo /\ fifo' \in Seq(Lengths) /\ Report
      BY <2>2 DEF Send, TypeOK
    <3>2. status' \in Lengths \cup {Zero, NoFrame} /\ StatusTrue'
      BY <3>1, ReportFacts
    <3>3. credit' \in 0 .. MaxCredit
      BY <2>2, FrameAssumption DEF Send, TypeOK, FrameAssumption
    <3> QED
      BY <2>2, <3>1, <3>2, <3>3 DEF Send, TypeOK, ReadsWholeFrame
  <2>3. CASE HandleIrq
    <3>1. fifo' = fifo /\ fifo' \in Seq(Lengths) /\ Report
      BY <2>3 DEF HandleIrq, TypeOK
    <3>2. status' \in Lengths \cup {Zero, NoFrame} /\ StatusTrue'
      BY <3>1, ReportFacts
    <3> QED
      BY <2>3, <3>1, <3>2 DEF HandleIrq, TypeOK, ReadsWholeFrame
  <2>4. CASE StatusFromCache
    BY <2>4 DEF StatusFromCache, Take, TypeOK, StatusTrue, ReadsWholeFrame
  <2>5. CASE StatusFromChip
    <3>1. fifo' = fifo /\ fifo' \in Seq(Lengths) /\ Report
      BY <2>5 DEF StatusFromChip, TypeOK
    <3>2. status' \in Lengths \cup {Zero, NoFrame} /\ StatusTrue'
      BY <3>1, ReportFacts
    <3>3. PICK w \in {status', NoFrame} : Take(w)
      BY <2>5 DEF StatusFromChip
    <3>4. TypeOK'
      BY <2>5, <3>1, <3>2, <3>3 DEF StatusFromChip, Take, TypeOK
    <3>5. ReadsWholeFrame'
      BY <3>2, <3>3 DEF Take, StatusTrue, ReadsWholeFrame
    <3> QED
      BY <3>2, <3>4, <3>5
  <2>6. CASE ReadFrame
    <3>1. fifo' \in Seq(Lengths) /\ Report
      BY <2>6 DEF ReadFrame, TypeOK, ReadsWholeFrame
    <3>2. status' \in Lengths \cup {Zero, NoFrame} /\ StatusTrue'
      BY <3>1, ReportFacts
    <3>3. received' \in 0 .. CountModulus - 1
      BY <2>6, FrameAssumption DEF ReadFrame, TypeOK, FrameAssumption
    <3> QED
      BY <2>6, <3>1, <3>2, <3>3 DEF ReadFrame, AfterFrame, TypeOK, ReadsWholeFrame
  <2>7. CASE ChipOffers
    <3>1. PICK l \in Lengths : fifo' = Append(fifo, l)
      BY <2>7 DEF ChipOffers
    <3>2. fifo' \in Seq(Lengths) /\ fifo' # <<>>
      BY <3>1 DEF TypeOK
    <3>3. fifo # <<>> => Head(fifo') = Head(fifo)
      BY <3>1 DEF TypeOK
    <3> QED
      BY <2>7, <3>2, <3>3 DEF ChipOffers, TypeOK, StatusTrue, ReadsWholeFrame
  <2>8. CASE UNCHANGED vars
    BY <2>8 DEF vars, TypeOK, StatusTrue, ReadsWholeFrame
  <2> QED
    BY <2>1, <2>2, <2>3, <2>4, <2>5, <2>6, <2>7, <2>8 DEF Next, Runner
<1> QED
  BY <1>1, <1>2, PTL DEF Spec

(* Every frame is read with its own length, whichever command reported it  *)
(* and however many arrived since (check_status, read32, wlan_read).       *)
THEOREM FramesCorrect == Spec => []ReadsWholeFrame
<1>1. IInv => ReadsWholeFrame
  BY DEF IInv
<1> QED
  BY <1>1, Invariance, PTL

-----------------------------------------------------------------------------
(* VoltageSpi.                                                             *)

(* The reader lives inside a cycle. *)
ReaderInCycle == reader = "waiting" => bus # "off"

(* A request not yet served has cost no sample. *)
RequestUnserved == request /\ bus # "off" => samples = taken

(* What RESPONSE holds while a read waits was sampled for it. *)
ResponseFresh == reader = "waiting" /\ response # Empty => response > taken

(* RESPONSE never holds a sample that was not taken. *)
ResponseTaken == response <= samples

VoltageInv ==
  /\ ResponseTaken
  /\ VoltageTypeOK
  /\ RequestHasReader
  /\ ReaderInCycle
  /\ RequestUnserved
  /\ ResponseFresh
  /\ SampledOnce

LEMMA VoltageInitial == VoltageInit => VoltageInv
<1> SUFFICES ASSUME VoltageInit PROVE VoltageInv
  OBVIOUS
<1>1. request \in BOOLEAN /\ ~ request
  BY DEF VoltageInit
<1>2. VoltageTypeOK
  BY <1>1 DEF VoltageInit, VoltageTypeOK, Empty
<1>3. RequestHasReader /\ ReaderInCycle /\ RequestUnserved
  BY <1>1 DEF VoltageInit, RequestHasReader, ReaderInCycle, RequestUnserved
<1>4. ResponseFresh /\ SampledOnce
  BY DEF VoltageInit, ResponseFresh, SampledOnce
<1>5. ResponseTaken
  BY DEF VoltageInit, ResponseTaken, Empty
<1> QED BY <1>2, <1>3, <1>4, <1>5 DEF VoltageInv

(* One sample, where a request is pending on a live bus. *)
LEMMA SampleKeeps ==
  ASSUME VoltageInv, bus # "off", request, Sample,
         UNCHANGED <<reader, reads, taken, returned>>,
         bus' \in {"transfer", "waiting"}
  PROVE  VoltageInv'
<1>1. samples = taken /\ reader = "waiting"
  BY DEF VoltageInv, RequestUnserved, RequestHasReader
<1>2. VoltageTypeOK'
  <2>1. request' \in BOOLEAN
    BY DEF Sample
  <2> QED BY <2>1 DEF VoltageInv, VoltageTypeOK, Sample
<1>3. RequestHasReader' /\ ReaderInCycle' /\ RequestUnserved'
  BY DEF Sample, RequestHasReader, ReaderInCycle, RequestUnserved
<1>4. ResponseFresh' /\ SampledOnce' /\ ResponseTaken'
  BY <1>1 DEF VoltageInv, VoltageTypeOK, Sample,
     ResponseFresh, SampledOnce, ResponseTaken
<1> QED BY <1>2, <1>3, <1>4 DEF VoltageInv

LEMMA VoltageInductive == VoltageInv /\ [VoltageNext]_voltageVars => VoltageInv'
<1> SUFFICES ASSUME VoltageInv, [VoltageNext]_voltageVars PROVE VoltageInv'
  OBVIOUS
<1> USE DEF VoltageInv, VoltageTypeOK, RequestHasReader, ReaderInCycle, RequestUnserved,
            ResponseFresh, ResponseTaken, SampledOnce, Empty
<1>1. CASE RadioOn
  <2>1. request' \in BOOLEAN /\ ~ request'
    BY <1>1 DEF RadioOn
  <2>2. bus' = "between" /\ response' = Empty
        /\ UNCHANGED <<reader, samples, reads, taken, returned>>
    BY <1>1 DEF RadioOn, ResetResponse
  <2> QED BY <2>1, <2>2
<1>2. CASE RadioOff
  BY <1>2 DEF RadioOff, signals
<1>3. CASE BeginRead
  <2>1. request' \in BOOLEAN /\ samples' = samples /\ taken' = samples
    BY <1>3 DEF BeginRead
  <2>2. reader' = "waiting" /\ bus' = bus /\ bus # "off" /\ response' = Empty
    BY <1>3 DEF BeginRead, ResetResponse
  <2>3. reads' \in Nat /\ returned' \in Nat
    BY <1>3 DEF BeginRead
  <2>4. VoltageTypeOK'
    BY <2>1, <2>2, <2>3
  <2>5. RequestHasReader' /\ ReaderInCycle' /\ RequestUnserved'
    BY <2>1, <2>2
  <2>6. ResponseFresh' /\ SampledOnce' /\ ResponseTaken'
    BY <2>1, <2>2
  <2> HIDE DEF VoltageTypeOK, RequestHasReader, ReaderInCycle, RequestUnserved,
               ResponseFresh, ResponseTaken, SampledOnce
  <2> QED BY <2>4, <2>5, <2>6
<1>4. CASE ReadReturns
  BY <1>4 DEF ReadReturns
<1>5. CASE ReadTimesOut
  BY <1>5 DEF ReadTimesOut
<1>6. CASE Command
  <2>1. CASE request
    BY <1>6, <2>1, SampleKeeps DEF Command, ServiceRequest
  <2>2. CASE ~ request
    BY <1>6, <2>2 DEF Command, ServiceRequest, signals
  <2> QED BY <2>1, <2>2
<1>7. CASE CommandDone
  BY <1>7 DEF CommandDone, signals
<1>8. CASE WaitForEvent
  BY <1>8 DEF WaitForEvent, signals
<1>9. CASE SampleWhileWaiting
  BY <1>9, SampleKeeps DEF SampleWhileWaiting
<1>10. CASE WaitOver
  BY <1>10 DEF WaitOver, signals
<1>11. CASE UNCHANGED voltageVars
  BY <1>11 DEF voltageVars
<1> QED BY <1>1, <1>2, <1>3, <1>4, <1>5, <1>6, <1>7, <1>8, <1>9, <1>10, <1>11 DEF VoltageNext

LEMMA VoltageInvariance == VoltageSpec => []VoltageInv
  BY VoltageInitial, VoltageInductive, PTL DEF VoltageSpec

(* No request outlives its read into the traffic of a live bus, whenever   *)
(* the read times out or its cycle is dropped.                             *)
THEOREM RequestCorrect == VoltageSpec => []RequestHasReader
<1>1. VoltageInv => RequestHasReader
  BY DEF VoltageInv
<1> QED BY <1>1, VoltageInvariance, PTL

(* A read interrupts the bus for one sample at most. *)
THEOREM SamplesCorrect == VoltageSpec => []SampledOnce
<1>1. VoltageInv => SampledOnce
  BY DEF VoltageInv
<1> QED BY <1>1, VoltageInvariance, PTL

(* A read that returns a sample returns one taken since it began. *)
THEOREM VoltageCorrect == VoltageSpec => FreshVoltage
<1>1. VoltageInv /\ [VoltageNext]_voltageVars =>
        [ReadReturns => returned' > taken]_voltageVars
  BY DEF VoltageInv, ResponseFresh, ReadReturns
<1> QED BY <1>1, VoltageInvariance, PTL DEF VoltageSpec, FreshVoltage

-----------------------------------------------------------------------------
(* What a slot can hold.                                                   *)

(* Some fields of a record, the others erased, the numbers perhaps half    *)
(* written.                                                                *)
PartOf(b, r, version) ==
  /\ b = [f \in Layout |-> b[f]]
  /\ \A f \in Layout :
       b[f] = Encoded(r, version)[f] \/ b[f] = Blank(f) \/ (f = "numbers" /\ b[f] = Garbled)

Fragment(b) ==
  \/ b = ErasedSlot.bytes
  \/ \E version \in 1 .. 3 : \E r \in Recordable(version) : PartOf(b, r, version)

(* Any slot is a fragment, and one that is committed and readable holds    *)
(* what was stored.                                                        *)
SlotInv ==
  /\ slot = [marker |-> slot.marker, bytes |-> slot.bytes]
  /\ slot.marker \subseteq ERASED
  /\ Fragment(slot.bytes)
  /\ slot.marker = COMMITTED /\ Decoded(slot.bytes) # {} => Decoded(slot.bytes) = stored

(* Between the two writes of append the body is there and not committed.   *)
CommitInv == doing = "commit" => \E r \in Records : record = {r} /\ slot = Body(r)

(* What was checked at boot still holds of the firmware that runs.         *)
BootInv == \A c \in config : Loads(c) /\ ComposesId(c) /\ c.name_length \in Nat

ReadingInv == SlotInv /\ CommitInv /\ BootInv

(* The options of a record, value by value. *)
LEMMA RecordFields ==
  ASSUME NEW r \in Records
  PROVE  /\ r = [numbers |-> r.numbers, voltage |-> r.voltage, on_battery |-> r.on_battery]
         /\ r.numbers \in Nat \ {Ff, Garbled}
         /\ r.voltage = {} \/ \E volt \in Nat \ {NaN, Ff} : r.voltage = {volt}
         /\ r.on_battery = {} \/ r.on_battery = {TRUE} \/ r.on_battery = {FALSE}
<1>1. r.voltage \in Voltages /\ r.on_battery \in Sources /\ r.numbers \in Numbers
  BY DEF Records
<1>2. r = [numbers |-> r.numbers, voltage |-> r.voltage, on_battery |-> r.on_battery]
  BY DEF Records
<1>3. r.numbers \in Nat \ {Ff, Garbled}
  BY <1>1, ValueAssumption
<1>4. r.voltage = {} \/ \E volt \in Nat \ {NaN, Ff} : r.voltage = {volt}
  BY <1>1, ValueAssumption DEF Voltages
<1>5. r.on_battery = {} \/ r.on_battery = {TRUE} \/ r.on_battery = {FALSE}
  BY <1>1 DEF Sources
<1> QED
  BY <1>2, <1>3, <1>4, <1>5

(* Byte 1 and the word at byte 40 of a record.                             *)
Battery(r) == IF r.on_battery = {} THEN Ff ELSE IF r.on_battery = {FALSE} THEN 0 ELSE 1
Word40(r)  == IF r.voltage = {} THEN NaN ELSE CHOOSE v \in r.voltage : TRUE

(* The checksum of a record with one word at byte 40. *)
LEMMA FiveWords ==
  ASSUME NEW b, NEW w, b.at40 = <<w>>
  PROVE  /\ Len(Crc44(b)) = 5
         /\ Crc44(b)[1] = b.version /\ Crc44(b)[2] = b.battery /\ Crc44(b)[3] = b.magic
         /\ Crc44(b)[4] = b.numbers /\ Crc44(b)[5] = w
<1> DEFINE v == b.version
           y == b.battery
           m == b.magic
           n == b.numbers
<1>1. Crc44(b) = <<v, y, m, n>> \o <<w>>
  BY Zenon DEF Crc44, Crc40
<1> HIDE DEF v, y, m, n
<1> DEFINE S == {v, y, m, n, w}
<1>2. <<v, y, m, n>> \in Seq(S) /\ <<w>> \in Seq(S)
  OBVIOUS
<1> HIDE DEF S
<1> DEFINE s == <<v, y, m, n>>
           t == <<w>>
<1>3. /\ Len(s) = 4 /\ s[1] = v /\ s[2] = y /\ s[3] = m /\ s[4] = n
      /\ Len(t) = 1 /\ t[1] = w
  OBVIOUS
<1> HIDE DEF s, t
<1>4. /\ Len(s \o t) = 5
      /\ \A i \in 1 .. 4 : (s \o t)[i] = s[i]
      /\ \A i \in 1 .. 1 : (s \o t)[4 + i] = t[i]
  BY <1>2, <1>3 DEF s, t
<1> QED
  BY <1>1, <1>3, <1>4 DEF v, y, m, n

(* The fields of a record on flash, by the version that wrote it. *)
LEMMA EncodedFields ==
  ASSUME NEW version \in 1 .. 3, NEW r \in Recordable(version)
  PROVE  LET e == Encoded(r, version)
         IN  /\ e = [f \in Layout |-> e[f]]
             /\ e.version = version /\ e.battery = Battery(r) /\ e.magic = Magic
             /\ e.numbers = r.numbers
             /\ version = 1 => /\ e.at40 = <<1, Battery(r), Magic, r.numbers>>
                               /\ e.at44 = <<Ff>>
             /\ version # 1 => /\ e.at40 = <<Word40(r)>>
                               /\ e.at44 = Crc44(e)
<1> DEFINE bat == Battery(r)
           w == Word40(r)
           n == r.numbers
           head == [version |-> version, battery |-> bat, magic |-> Magic,
                    numbers |-> n, at40 |-> <<w>>, at44 |-> <<Ff>>]
           e == Encoded(r, version)
<1>1. r \in Records
  BY DEF Recordable
<1>2. bat = CASE r.on_battery = {} -> Ff
              [] r.on_battery = {FALSE} -> 0
              [] r.on_battery = {TRUE} -> 1
  BY <1>1, RecordFields DEF Battery
<1>3. <<w>> = IF r.voltage = {} THEN <<NaN>> ELSE <<CHOOSE v \in r.voltage : TRUE>>
  <2> DEFINE chosen == CHOOSE v \in r.voltage : TRUE
  <2>1. w = IF r.voltage = {} THEN NaN ELSE chosen
    BY Zenon DEF Word40
  <2> HIDE DEF w, chosen
  <2>2. <<w>> = IF r.voltage = {} THEN <<NaN>> ELSE <<chosen>>
    BY <2>1
  <2> QED
    BY <2>2, Zenon DEF chosen
<1> HIDE DEF bat, w, n
<1>4. Blank("at44") = <<Ff>>
  BY DEF Blank
<1>5. e = IF version = 1 THEN [head EXCEPT !.at40 = Crc40(head)]
                         ELSE [head EXCEPT !.at44 = Crc44(head)]
  <2> DEFINE source == [version  |-> version,
                        battery  |-> CASE r.on_battery = {} -> Ff
                                       [] r.on_battery = {FALSE} -> 0
                                       [] r.on_battery = {TRUE} -> 1,
                        magic    |-> Magic,
                        numbers  |-> r.numbers,
                        at40     |-> IF r.voltage = {} THEN <<NaN>>
                                     ELSE <<CHOOSE v \in r.voltage : TRUE>>,
                        at44     |-> Blank("at44")]
  <2>1. source = head
    BY <1>2, <1>3, <1>4, Zenon DEF n
  <2>2. e = IF version = 1 THEN [source EXCEPT !.at40 = Crc40(source)]
                           ELSE [source EXCEPT !.at44 = Crc44(source)]
    BY Zenon DEF Encoded
  <2> HIDE DEF source, head, e
  <2> QED
    BY <2>1, <2>2, Zenon
<1>6. Crc40(head) = <<version, bat, Magic, n>>
  BY DEF Crc40
<1> HIDE DEF e
<1>7. CASE version = 1
  BY <1>5, <1>6, <1>7 DEF Layout, bat, w, n, e
<1>8. CASE version # 1
  <2>1. e = [head EXCEPT !.at44 = Crc44(head)]
    BY <1>5, <1>8
  <2>2. Crc44(e) = Crc44(head)
    BY <2>1, Zenon DEF Crc44, Crc40
  <2> QED
    BY <1>8, <2>1, <2>2 DEF Layout, bat, w, n, e
<1> QED
  BY <1>7, <1>8

(* The voltage is read back from its word. *)
LEMMA WordOfVoltage ==
  ASSUME NEW r \in Records
  PROVE  /\ Word40(r) \in Nat /\ Word40(r) # Ff
         /\ r.voltage = IF Word40(r) = NaN THEN {} ELSE {Word40(r)}
<1>1. CASE r.voltage = {}
  BY <1>1 DEF Word40, NaN, Ff
<1>2. CASE r.voltage # {}
  <2>1. PICK volt \in Nat \ {NaN, Ff} : r.voltage = {volt}
    BY <1>2, RecordFields
  <2> DEFINE chosen == CHOOSE v \in r.voltage : TRUE
  <2>2. chosen = volt
    BY <2>1
  <2>3. Word40(r) = IF r.voltage = {} THEN NaN ELSE chosen
    BY Zenon DEF Word40
  <2> HIDE DEF chosen
  <2> QED
    BY <1>2, <2>1, <2>2, <2>3
<1> QED
  BY <1>1, <1>2

(* A slot whose fields are all a record's is read as this record. *)
LEMMA DecodesWhole ==
  ASSUME NEW version \in 1 .. 3, NEW r \in Recordable(version)
  PROVE  Decoded(Encoded(r, version)) = {r}
<1> DEFINE e == Encoded(r, version)
           word == Word40(r)
<1>1. /\ e.version = version /\ e.battery = Battery(r) /\ e.magic = Magic
      /\ e.numbers = r.numbers
      /\ version = 1 => e.at40 = <<1, Battery(r), Magic, r.numbers>>
      /\ version # 1 => e.at40 = <<word>> /\ e.at44 = Crc44(e)
  BY EncodedFields, Zenon
<1>2. r \in Records /\ (version < 3 => r.on_battery = {}) /\ (version < 2 => r.voltage = {})
  BY DEF Recordable
<1>3. /\ r = [numbers |-> r.numbers, voltage |-> r.voltage, on_battery |-> r.on_battery]
      /\ r.on_battery = {} \/ r.on_battery = {TRUE} \/ r.on_battery = {FALSE}
  BY <1>2, RecordFields
<1>4. r.voltage = (IF word = NaN THEN {} ELSE {word})
  BY <1>2, WordOfVoltage
<1> HIDE DEF e, word
<1>5. CrcHolds(e)
  BY <1>1 DEF CrcHolds, Crc40
<1>6. Battery(r) \in {Ff, 0, 1}
  BY DEF Battery
<1>7. (IF e.version = 1 \/ e.at40 = <<NaN>> THEN {} ELSE {e.at40[1]}) = r.voltage
  BY <1>1, <1>2, <1>4
<1>8. (IF e.version < 3 \/ e.battery = Ff THEN {} ELSE {e.battery = 1}) = r.on_battery
  <2>1. CASE r.on_battery = {}
    BY <1>1, <2>1 DEF Battery
  <2>2. CASE r.on_battery # {}
    <3>1. e.version = 3
      BY <1>1, <1>2, <2>2
    <3>2. CASE r.on_battery = {TRUE}
      <4>1. {TRUE} # {} /\ {TRUE} # {FALSE}
        BY Zenon
      <4>2. Battery(r) = 1
        BY <3>2, <4>1, Zenon DEF Battery
      <4>3. (e.battery = 1) = TRUE /\ ~ (e.version < 3 \/ e.battery = Ff)
        BY <1>1, <3>1, <4>2 DEF Ff
      <4> QED
        BY <3>2, <4>3, Zenon
    <3>3. CASE r.on_battery = {FALSE}
      <4>1. {FALSE} # {}
        BY Zenon
      <4>2. Battery(r) = 0
        BY <3>3, <4>1, Zenon DEF Battery
      <4>3. (e.battery = 1) = FALSE /\ ~ (e.version < 3 \/ e.battery = Ff)
        BY <1>1, <3>1, <4>2 DEF Ff
      <4> QED
        BY <3>3, <4>3, Zenon
    <3> QED
      BY <1>3, <2>2, <3>2, <3>3, Zenon
  <2> QED
    BY <2>1, <2>2, Zenon
<1>9. /\ e.version \in 1 .. 3 /\ e.magic = Magic
      /\ CrcHolds(e)
      /\ e.version = 3 => e.battery \in {Ff, 0, 1}
  BY <1>1, <1>5, <1>6
<1>10. Decoded(e) = {[numbers |-> e.numbers, voltage |-> r.voltage, on_battery |-> r.on_battery]}
  BY <1>7, <1>8, <1>9, Zenon DEF Decoded
<1> QED
  BY <1>1, <1>3, <1>10 DEF e

(* Nothing but a whole record is read as one. *)
LEMMA OnlyWhole ==
  ASSUME NEW version \in 1 .. 3, NEW r \in Recordable(version), NEW b,
         PartOf(b, r, version), Decoded(b) # {}
  PROVE  b = Encoded(r, version)
<1> DEFINE e == Encoded(r, version)
           word == Word40(r)
<1>1. /\ e = [f \in Layout |-> e[f]]
      /\ e.version = version /\ e.battery = Battery(r) /\ e.magic = Magic
      /\ e.numbers = r.numbers
      /\ version = 1 => e.at40 = <<1, Battery(r), Magic, r.numbers>> /\ e.at44 = <<Ff>>
      /\ version # 1 => e.at40 = <<word>> /\ e.at44 = Crc44(e)
  BY EncodedFields, Zenon
<1>2. b = [f \in Layout |-> b[f]]
  BY DEF PartOf
<1> HIDE DEF e, word
<1>3. /\ b.version \in {e.version, Ff} /\ b.battery \in {e.battery, Ff}
      /\ b.numbers \in {e.numbers, Ff, Garbled}
      /\ b.at40 \in {e.at40, <<Ff>>} /\ b.at44 \in {e.at44, <<Ff>>}
  BY DEF PartOf, Layout, Blank, e
<1>4. b.version \in 1 .. 3 /\ b.magic = Magic /\ CrcHolds(b)
  BY DEF Decoded
<1>5. b.version = version
  BY <1>1, <1>3, <1>4 DEF Ff
<1>6. CASE version = 1
  <2>1. b.at40 = <<b.version, b.battery, b.magic, b.numbers>>
    BY <1>4, <1>5, <1>6 DEF CrcHolds, Crc40
  <2>2. b.at40 # <<Ff>>
    <3>1. Len(<<Ff>>) = 1 /\ Len(b.at40) = 4
      BY <2>1
    <3> QED
      BY <3>1
  <2>3. <<b.version, b.battery, b.magic, b.numbers>> = <<1, Battery(r), Magic, r.numbers>>
    BY <1>1, <1>3, <1>6, <2>1, <2>2
  <2>4. b.battery = e.battery /\ b.numbers = e.numbers
    BY <1>1, <2>3
  <2> QED
    BY <1>1, <1>2, <1>3, <1>4, <1>5, <1>6, <2>2, <2>4 DEF Layout, e
<1>7. CASE version # 1
  <2>1. b.at44 = Crc44(b)
    BY <1>4, <1>5, <1>7 DEF CrcHolds
  <2>2. PICK w : b.at40 = <<w>>
    BY <1>1, <1>3, <1>7
  <2>3. /\ Len(Crc44(b)) = 5
        /\ Crc44(b)[2] = b.battery /\ Crc44(b)[4] = b.numbers /\ Crc44(b)[5] = w
    BY <2>2, FiveWords
  <2>4. /\ e.at40 = <<word>> /\ e.at44 = Crc44(e)
        /\ Crc44(e)[2] = e.battery /\ Crc44(e)[4] = e.numbers /\ Crc44(e)[5] = word
    BY <1>1, <1>7, FiveWords
  <2>5. b.at44 # <<Ff>>
    <3>1. Len(<<Ff>>) = 1
      OBVIOUS
    <3> QED
      BY <2>1, <2>3, <3>1
  <2>6. Crc44(b) = Crc44(e)
    BY <1>3, <2>1, <2>4, <2>5
  <2>7. b.battery = e.battery /\ b.numbers = e.numbers /\ w = word
    BY <2>3, <2>4, <2>6
  <2>8. b.at40 = e.at40 /\ b.at44 = e.at44
    BY <2>1, <2>2, <2>4, <2>6, <2>7
  <2> QED
    BY <1>1, <1>2, <1>4, <1>5, <2>7, <2>8 DEF Layout, e
<1> QED
  BY <1>6, <1>7

(* What a power loss leaves of a write or an erase, field by field. *)
LEMMA TornFields ==
  ASSUME NEW from, NEW to, NEW b \in Torn(from, to)
  PROVE  /\ b = [f \in Layout |-> b[f]]
         /\ \A f \in Layout : \/ b[f] = from[f]
                              \/ b[f] = to[f]
                              \/ f = "numbers" /\ b[f] = Garbled /\ from[f] # to[f]
<1>1. ASSUME NEW h \in Half(from, to)
      PROVE  /\ h = [f \in Layout |-> h[f]]
             /\ \A f \in Layout : h[f] = from[f] \/ h[f] = to[f]
  <2>1. PICK done \in SUBSET Layout :
          h = [f \in Layout |-> IF f \in done THEN to[f] ELSE from[f]]
    BY DEF Half
  <2> QED
    BY <2>1
<1>2. CASE b \in Half(from, to)
  BY <1>1, <1>2
<1>3. CASE b \notin Half(from, to)
  <2>1. PICK h \in Half(from, to) :
          b = [h EXCEPT !.numbers = IF from.numbers = to.numbers THEN @ ELSE Garbled]
    BY <1>3 DEF Torn
  <2>2. /\ h = [f \in Layout |-> h[f]]
        /\ \A f \in Layout : h[f] = from[f] \/ h[f] = to[f]
    BY <1>1
  <2> QED
    BY <2>1, <2>2 DEF Layout
<1> QED
  BY <1>2, <1>3

(* An erase that is cut off leaves a fragment of the same record, and one  *)
(* that can be read only if it has changed nothing.                        *)
LEMMA TornErase ==
  ASSUME NEW version \in 1 .. 3, NEW r \in Recordable(version),
         NEW s, PartOf(s, r, version), NEW b \in Torn(s, ErasedSlot.bytes)
  PROVE  PartOf(b, r, version) /\ (Decoded(b) # {} => b = s)
<1> DEFINE e == Encoded(r, version)
           blank == ErasedSlot.bytes
<1>1. /\ b = [f \in Layout |-> b[f]]
      /\ \A f \in Layout : b[f] = s[f] \/ b[f] = blank[f] \/ (f = "numbers" /\ b[f] = Garbled)
  BY TornFields
<1>2. \A f \in Layout : blank[f] = Blank(f)
  BY DEF ErasedSlot
<1>3. /\ s = [f \in Layout |-> s[f]]
      /\ \A f \in Layout :
           s[f] = e[f] \/ s[f] = Blank(f) \/ (f = "numbers" /\ s[f] = Garbled)
  BY DEF PartOf
<1> HIDE DEF e, blank
<1>4. PartOf(b, r, version)
  BY <1>1, <1>2, <1>3, Zenon DEF PartOf, e
<1>5. ASSUME Decoded(b) # {}
      PROVE  b = s
  <2>1. b = e
    BY <1>4, <1>5, OnlyWhole DEF e
  <2>2. e["numbers"] \notin {Ff, Garbled}
    <3>1. e.numbers = r.numbers
      BY EncodedFields, Zenon DEF e
    <3>2. r \in Records
      BY DEF Recordable
    <3> QED
      BY <3>1, <3>2, RecordFields
  <2>3. Blank("numbers") = Ff
    BY DEF Blank
  <2>4. ASSUME NEW f \in Layout
        PROVE  b[f] = s[f]
    <3>1. CASE f = "numbers"
      BY <1>1, <1>2, <2>1, <2>2, <2>3, <3>1
    <3>2. CASE f # "numbers"
      BY <1>1, <1>2, <1>3, <2>1, <3>2
    <3> QED
      BY <3>1, <3>2
  <2>5. [f \in Layout |-> b[f]] = [f \in Layout |-> s[f]]
    BY <2>4
  <2> QED
    BY <1>1, <1>3, <2>5, Zenon
<1> QED
  BY <1>4, <1>5

(* The same of any fragment: what an erase leaves cannot be read, unless   *)
(* it has changed nothing.                                                 *)
LEMMA ErasedFragment ==
  ASSUME NEW s, Fragment(s), NEW b \in Torn(s, ErasedSlot.bytes)
  PROVE  Fragment(b) /\ (b # s => Decoded(b) = {})
<1>1. CASE s = ErasedSlot.bytes
  <2>1. /\ b = [f \in Layout |-> b[f]]
        /\ \A f \in Layout : b[f] = s[f]
    BY <1>1, TornFields
  <2>2. s = [f \in Layout |-> s[f]]
    BY <1>1 DEF ErasedSlot
  <2>3. [f \in Layout |-> b[f]] = [f \in Layout |-> s[f]]
    BY <2>1
  <2>4. b = s
    BY <2>1, <2>2, <2>3, Zenon
  <2> QED
    BY <2>4
<1>2. CASE s # ErasedSlot.bytes
  <2>1. PICK version \in 1 .. 3 : \E r \in Recordable(version) : PartOf(s, r, version)
    BY <1>2 DEF Fragment
  <2>2. PICK r \in Recordable(version) : PartOf(s, r, version)
    BY <2>1
  <2>3. PartOf(b, r, version) /\ (Decoded(b) # {} => b = s)
    BY <2>2, TornErase
  <2> QED
    BY <2>3 DEF Fragment
<1> QED
  BY <1>1, <1>2

(* NOR flash goes from each marker to the next.                            *)
LEMMA Markers ==
  /\ ERASED # COMMITTED /\ COMMITTED # ACKNOWLEDGED /\ ERASED # ACKNOWLEDGED
  /\ COMMITTED \subseteq ERASED /\ ACKNOWLEDGED \subseteq ERASED
<1>1. 7 \in ERASED /\ 7 \notin COMMITTED /\ 6 \in ERASED /\ 6 \in COMMITTED
  BY DEF ERASED, COMMITTED
<1> QED
  BY <1>1 DEF ERASED, COMMITTED, ACKNOWLEDGED

LEMMA BlankIsNoRecord == Decoded(ErasedSlot.bytes) = {}
<1>1. ErasedSlot.bytes.version = Ff
  BY DEF ErasedSlot, Layout, Blank
<1> QED
  BY <1>1 DEF Decoded, Ff

(* What is written for a record is a fragment of it, whole or cut off. *)
LEMMA WrittenFragment ==
  ASSUME NEW version \in 1 .. 3, NEW r \in Recordable(version)
  PROVE  /\ Fragment(Encoded(r, version))
         /\ \A b \in Torn(ErasedSlot.bytes, Encoded(r, version)) : Fragment(b)
<1> DEFINE e == Encoded(r, version)
           blank == ErasedSlot.bytes
<1>1. e = [f \in Layout |-> e[f]]
  BY EncodedFields, Zenon
<1>2. \A f \in Layout : blank[f] = Blank(f)
  BY DEF ErasedSlot
<1> HIDE DEF e, blank
<1>3. PartOf(e, r, version)
  BY <1>1, Zenon DEF PartOf, e
<1>4. ASSUME NEW b \in Torn(blank, e)
      PROVE  PartOf(b, r, version)
  <2>1. /\ b = [f \in Layout |-> b[f]]
        /\ \A f \in Layout : b[f] = blank[f] \/ b[f] = e[f] \/ (f = "numbers" /\ b[f] = Garbled)
    BY TornFields
  <2> QED
    BY <1>2, <2>1, Zenon DEF PartOf, e
<1> QED
  BY <1>3, <1>4, Zenon DEF Fragment, e, blank

(* read_slot's kinds tell the slots apart. *)
ReadsAs ==
  /\ Read.record = Decoded(slot.bytes)
  /\ Read = [kind |-> Read.kind, record |-> Read.record]
  /\ Read.kind = IF slot = ErasedSlot THEN "Erased"
                 ELSE IF slot.marker = ACKNOWLEDGED THEN "Acknowledged"
                 ELSE IF slot.marker = COMMITTED /\ Decoded(slot.bytes) # {} THEN "Active"
                 ELSE "Corrupt"

LEMMA ReadKinds == ReadsAs
<1>1. ErasedSlot.marker = ERASED
  BY DEF ErasedSlot
<1>2. slot = ErasedSlot => slot.marker # ACKNOWLEDGED /\ slot.marker # COMMITTED
  BY <1>1, Markers, Zenon
<1>3. slot.marker = ACKNOWLEDGED => slot.marker # COMMITTED
  BY Markers, Zenon
<1>4. Read = [kind |-> CASE slot = ErasedSlot -> "Erased"
                         [] slot.marker = ACKNOWLEDGED -> "Acknowledged"
                         [] slot.marker = COMMITTED /\ Decoded(slot.bytes) # {} -> "Active"
                         [] OTHER -> "Corrupt",
              record |-> Decoded(slot.bytes)]
  BY Zenon DEF Read
<1> QED
  BY <1>2, <1>3, <1>4 DEF ReadsAs
-----------------------------------------------------------------------------
(* The invariant.                                                          *)

LEMMA ReadingInitial == ReadingInit => ReadingInv
<1> SUFFICES ASSUME ReadingInit
             PROVE  ReadingInv
  OBVIOUS
<1>1. CommitInv /\ BootInv
  BY DEF ReadingInit, CommitInv, BootInv
<1>2. CASE slot = ErasedSlot
  <2>1. slot = [marker |-> slot.marker, bytes |-> slot.bytes] /\ slot.marker = ERASED
    BY <1>2 DEF ErasedSlot
  <2> QED
    BY <1>1, <1>2, <2>1, Markers, Zenon DEF ReadingInv, SlotInv, Fragment
<1>3. CASE slot # ErasedSlot
  <2>1. PICK version \in 1 .. 2 : \E r \in Recordable(version) :
          /\ slot = [marker |-> COMMITTED, bytes |-> Encoded(r, version)]
          /\ stored = {r}
    BY <1>3 DEF ReadingInit
  <2>2. PICK r \in Recordable(version) :
          /\ slot = [marker |-> COMMITTED, bytes |-> Encoded(r, version)]
          /\ stored = {r}
    BY <2>1
  <2>3. version \in 1 .. 3
    OBVIOUS
  <2>4. Fragment(Encoded(r, version)) /\ Decoded(Encoded(r, version)) = {r}
    BY <2>3, WrittenFragment, DecodesWhole
  <2>5. /\ slot = [marker |-> slot.marker, bytes |-> slot.bytes]
        /\ slot.marker = COMMITTED /\ slot.bytes = Encoded(r, version)
    BY <2>2
  <2> QED
    BY <1>1, <2>2, <2>4, <2>5, Markers, Zenon DEF ReadingInv, SlotInv
<1> QED
  BY <1>2, <1>3

LEMMA ErasedIsASlot ==
  /\ ErasedSlot = [marker |-> ErasedSlot.marker, bytes |-> ErasedSlot.bytes]
  /\ ErasedSlot.marker = ERASED /\ Fragment(ErasedSlot.bytes)
BY DEF ErasedSlot, Fragment

LEMMA BodyIsASlot ==
  ASSUME NEW r \in Records
  PROVE  /\ Body(r) = [marker |-> Body(r).marker, bytes |-> Body(r).bytes]
         /\ Body(r).marker = ERASED /\ Body(r).bytes = Encoded(r, 3)
         /\ r \in Recordable(3)
         /\ Fragment(Encoded(r, 3)) /\ Decoded(Encoded(r, 3)) = {r}
<1>1. r \in Recordable(3)
  BY DEF Recordable
<1>2. Fragment(Encoded(r, 3)) /\ Decoded(Encoded(r, 3)) = {r}
  BY <1>1, WrittenFragment, DecodesWhole
<1> QED
  BY <1>1, <1>2 DEF Body

LEMMA ReadingPreserved == ReadingInv /\ [ReadingNext]_readingVars => ReadingInv'
<1> SUFFICES ASSUME ReadingInv, [ReadingNext]_readingVars
             PROVE  ReadingInv'
  OBVIOUS
<1>0. SlotInv /\ CommitInv /\ BootInv
  BY DEF ReadingInv
<1>1. CASE Boot
  <2>1. UNCHANGED <<slot, stored>> /\ doing' # "commit"
    BY <1>1 DEF Boot
  <2>2. SlotInv' /\ CommitInv'
    BY <1>0, <2>1 DEF SlotInv, CommitInv
  <2>3. BootInv'
    <3>1. PICK c \in Configs :
            IF Loads(c) /\ ComposesId(c) THEN config' = {c} ELSE config' = {}
      BY <1>1 DEF Boot
    <3>2. c.name_length \in Nat
      BY FormatAssumption DEF Configs
    <3>3. config' = {} \/ (config' = {c} /\ Loads(c) /\ ComposesId(c))
      BY <3>1
    <3> QED
      BY <3>2, <3>3 DEF BootInv
  <2> QED
    BY <2>2, <2>3 DEF ReadingInv
<1>2. CASE Reflash
  <2>1. UNCHANGED <<config, slot, stored>> /\ doing' # "commit"
    BY <1>2 DEF Reflash
  <2> QED
    BY <1>0, <2>1 DEF ReadingInv, SlotInv, CommitInv, BootInv
<1>3. CASE WriteBody
  <2>1. UNCHANGED <<config, stored>>
    BY <1>3 DEF WriteBody
  <2>2. PICK r \in Records : record' = {r} /\ slot' = Body(r)
    BY <1>3 DEF WriteBody
  <2>3. /\ slot' = [marker |-> slot'.marker, bytes |-> slot'.bytes]
        /\ slot'.marker = ERASED /\ Fragment(slot'.bytes)
    BY <2>2, BodyIsASlot
  <2>4. SlotInv'
    BY <2>3, Markers, Zenon DEF SlotInv
  <2>5. CommitInv'
    BY <2>2 DEF CommitInv
  <2> QED
    BY <1>0, <2>1, <2>4, <2>5 DEF ReadingInv, BootInv
<1>4. CASE Commit
  <2>1. /\ doing = "commit" /\ doing' # "commit"
        /\ slot' = [slot EXCEPT !.marker = COMMITTED]
        /\ stored' = record /\ config' = config
    BY <1>4 DEF Commit, WriteState
  <2>2. PICK r \in Records : record = {r} /\ slot = Body(r)
    BY <1>0, <2>1 DEF CommitInv
  <2>3. slot = [marker |-> slot.marker, bytes |-> Encoded(r, 3)]
    BY <2>2, BodyIsASlot
  <2>4. /\ slot' = [marker |-> slot'.marker, bytes |-> slot'.bytes]
        /\ slot'.marker = COMMITTED /\ slot'.bytes = Encoded(r, 3)
    BY <2>1, <2>3
  <2>5. SlotInv'
    BY <2>1, <2>2, <2>4, BodyIsASlot, Markers DEF SlotInv
  <2> QED
    BY <1>0, <2>1, <2>5 DEF ReadingInv, CommitInv, BootInv
<1>5. CASE Acknowledge
  <2>1. /\ doing = "idle" /\ UNCHANGED <<config, doing, stored>>
        /\ slot' = [slot EXCEPT !.marker = ACKNOWLEDGED]
    BY <1>5 DEF Acknowledge, WriteState
  <2>2. /\ slot = [marker |-> slot.marker, bytes |-> slot.bytes]
        /\ Fragment(slot.bytes)
    BY <1>0 DEF SlotInv
  <2>3. /\ slot' = [marker |-> slot'.marker, bytes |-> slot'.bytes]
        /\ slot'.marker = ACKNOWLEDGED /\ slot'.bytes = slot.bytes
    BY <2>1, <2>2
  <2>4. SlotInv'
    BY <2>2, <2>3, Markers, Zenon DEF SlotInv
  <2> QED
    BY <1>0, <2>1, <2>4 DEF ReadingInv, CommitInv, BootInv
<1>6. CASE Erase
  <2>1. doing = "idle" /\ slot' = ErasedSlot /\ UNCHANGED <<config, doing>>
    BY <1>6 DEF Erase
  <2>2. SlotInv'
    BY <2>1, ErasedIsASlot, Markers, Zenon DEF SlotInv
  <2> QED
    BY <1>0, <2>1, <2>2 DEF ReadingInv, CommitInv, BootInv
<1>7. CASE PowerLoss
  <2>1. UNCHANGED <<slot, stored>> /\ doing' = "off" /\ config' = {}
    BY <1>7 DEF PowerLoss, PowerOff
  <2> QED
    BY <1>0, <2>1 DEF ReadingInv, SlotInv, CommitInv, BootInv
<1>8. CASE PowerLossInBody
  <2>1. doing' = "off" /\ config' = {} /\ stored' = stored /\ slot = ErasedSlot
    BY <1>8, ReadKinds DEF ReadsAs, PowerLossInBody, PowerOff
  <2>2. PICK r \in Records :
          \E m \in {slot.marker, Body(r).marker}, b \in Torn(slot.bytes, Body(r).bytes) :
            slot' = [marker |-> m, bytes |-> b]
    BY <1>8 DEF PowerLossInBody
  <2>3. PICK m \in {slot.marker, Body(r).marker}, b \in Torn(slot.bytes, Body(r).bytes) :
          slot' = [marker |-> m, bytes |-> b]
    BY <2>2
  <2>4. m = ERASED
    BY <2>1, ErasedIsASlot, BodyIsASlot
  <2>5. Fragment(b)
    BY <2>1, BodyIsASlot, WrittenFragment
  <2>6. SlotInv'
    BY <2>3, <2>4, <2>5, Markers DEF SlotInv
  <2> QED
    BY <2>1, <2>6 DEF ReadingInv, CommitInv, BootInv
<1>9. CASE PowerLossInErase
  <2>1. doing' = "off" /\ config' = {}
    BY <1>9 DEF PowerLossInErase, PowerOff
  <2>2. PICK m \in SUBSET ERASED, b \in Torn(slot.bytes, ErasedSlot.bytes) :
          /\ b = slot.bytes => m = slot.marker
          /\ slot' = [marker |-> m, bytes |-> b]
          /\ stored' = IF b = slot.bytes THEN stored ELSE {}
    BY <1>9 DEF PowerLossInErase
  <2>3. Fragment(b) /\ (b # slot.bytes => Decoded(b) = {})
    BY <1>0, ErasedFragment DEF SlotInv
  <2>4. /\ slot' = [marker |-> slot'.marker, bytes |-> slot'.bytes]
        /\ slot'.marker = m /\ slot'.bytes = b
    BY <2>2
  <2>5. SlotInv'
    BY <1>0, <2>2, <2>3, <2>4 DEF SlotInv
  <2> QED
    BY <2>1, <2>5 DEF ReadingInv, CommitInv, BootInv
<1>10. CASE UNCHANGED readingVars
  BY <1>0, <1>10 DEF ReadingInv, SlotInv, CommitInv, BootInv, readingVars
<1> QED
  BY <1>1, <1>2, <1>3, <1>4, <1>5, <1>6, <1>7, <1>8, <1>9, <1>10, Zenon DEF ReadingNext

LEMMA ReadingInvariance == ReadingSpec => []ReadingInv
BY ReadingInitial, ReadingPreserved, PTL DEF ReadingSpec

(* A reading is published as it was captured, from flash of any firmware   *)
(* and after any power loss (write_record, erase, decode, read_slot).      *)
THEOREM PublishedCorrect == ReadingSpec => []PublishedAsCaptured
<1>1. ReadingInv => PublishedAsCaptured
  BY ReadKinds DEF ReadsAs, ReadingInv, SlotInv, PublishedAsCaptured
<1> QED
  BY <1>1, ReadingInvariance, PTL

(* What AppConfig::load and the identifier check let through can create a  *)
(* session, and encode_reading fits every payload, whatever was measured.  *)
THEOREM BootedCorrect == ReadingSpec => []BootedCanPublish
<1>1. ReadingInv => BootedCanPublish
  <2> SUFFICES ASSUME ReadingInv, NEW c \in config
               PROVE  CreatesSession(c) /\ \A r : Encodes(c, r)
    BY DEF BootedCanPublish
  <2>1. Loads(c) /\ ComposesId(c) /\ c.name_length \in Nat
    BY DEF ReadingInv, BootInv
  <2>2. CreatesSession(c)
    BY <2>1 DEF Loads, CredentialsPair, CreatesSession
  <2>3. ASSUME NEW r
        PROVE  Encodes(c, r)
    <3> DEFINE name   == c.name_length
               digits == Digits(r.numbers)
               float  == Float(r.numbers)
               volt   == IF r.voltage = {} THEN 4 ELSE 16
               source == IF r.on_battery = {FALSE} THEN 5 ELSE 4
    <3>1. /\ digits \in 0 .. 20 /\ float \in 0 .. 16
          /\ volt \in 0 .. 16 /\ source \in 0 .. 5
      BY DEF Digits, Float
    <3>2. JsonLength(c, r) = 151 + name + 16 + 3 * digits + 2 * float + volt + source
      BY Zenon DEF JsonLength, KeysLength, HardwareIdLength
    <3>3. name \in Nat /\ name + 1 + 16 <= IdBuffer
      BY <2>1 DEF ComposesId, HardwareIdLength
    <3> HIDE DEF name, digits, float, volt, source
    <3> QED
      BY <3>1, <3>2, <3>3, FormatAssumption, BufferAssumption DEF Encodes
  <2> QED
    BY <2>2, <2>3
<1> QED
  BY <1>1, ReadingInvariance, PTL

(* Every step of a slot is one that FlashQueue builds on: an interrupted   *)
(* write or erase never makes a record, an acknowledged one never returns. *)
THEOREM SlotLifeCorrect == ReadingSpec => SlotLife
<1> DEFINE Lives ==
  \/ Read' = Read
  \/ Read.kind \in {"Erased", "Corrupt"} /\ Read'.kind = "Corrupt"
  \/ Read.kind = "Corrupt" /\ Read' = [kind |-> "Active", record |-> record]
  \/ Read.kind = "Active" /\ Read' = [Read EXCEPT !.kind = "Acknowledged"]
  \/ Read.kind = "Acknowledged" /\ Read'.kind \in {"Corrupt", "Acknowledged"}
                                /\ (Read'.kind = "Acknowledged" => Read'.record = {})
  \/ Read.kind \in {"Acknowledged", "Corrupt"} /\ Read'.kind = "Erased"
<1>0. ReadsAs'
  BY ReadKinds, PTL
<1>1. ReadingInv /\ ReadingInv' /\ [ReadingNext]_readingVars => [Lives]_slot
  <2> SUFFICES ASSUME ReadingInv, ReadingInv', ReadingNext, slot' # slot
               PROVE  Lives
    BY DEF readingVars
  <2>0. /\ Read.record = Decoded(slot.bytes)
        /\ Read = [kind |-> Read.kind, record |-> Read.record]
        /\ Read.kind = IF slot = ErasedSlot THEN "Erased"
                       ELSE IF slot.marker = ACKNOWLEDGED THEN "Acknowledged"
                       ELSE IF slot.marker = COMMITTED /\ Decoded(slot.bytes) # {} THEN "Active"
                       ELSE "Corrupt"
    BY ReadKinds DEF ReadsAs
  <2>1. /\ Read'.record = Decoded(slot'.bytes)
        /\ Read' = [kind |-> Read'.kind, record |-> Read'.record]
        /\ Read'.kind = IF slot' = ErasedSlot THEN "Erased"
                        ELSE IF slot'.marker = ACKNOWLEDGED THEN "Acknowledged"
                        ELSE IF slot'.marker = COMMITTED /\ Decoded(slot'.bytes) # {} THEN "Active"
                        ELSE "Corrupt"
    BY <1>0 DEF ReadsAs
  <2>2. /\ slot = [marker |-> slot.marker, bytes |-> slot.bytes]
        /\ Fragment(slot.bytes)
    BY DEF ReadingInv, SlotInv
  <2>3. CASE Boot
    BY <2>3 DEF Boot
  <2>4. CASE Reflash
    BY <2>4 DEF Reflash
  <2>5. CASE WriteBody
    <3>1. PICK r \in Records : slot' = Body(r)
      BY <2>5 DEF WriteBody
    <3>2. slot'.marker = ERASED /\ slot' # slot /\ Read.kind = "Erased"
      BY <2>5, <3>1, BodyIsASlot DEF WriteBody
    <3>3. slot = ErasedSlot
      BY <2>0, <3>2
    <3>4. Read'.kind = "Corrupt"
      BY <2>1, <3>2, <3>3, Markers
    <3> QED
      BY <3>2, <3>4
  <2>6. CASE Commit
    <3>1. /\ slot' = [slot EXCEPT !.marker = COMMITTED] /\ doing = "commit"
      BY <2>6 DEF Commit, WriteState
    <3>2. PICK r \in Records : record = {r} /\ slot = Body(r)
      BY <3>1 DEF ReadingInv, CommitInv
    <3>3. /\ slot.marker = ERASED /\ slot'.marker = COMMITTED
          /\ slot.bytes = Encoded(r, 3) /\ slot'.bytes = Encoded(r, 3)
          /\ Decoded(Encoded(r, 3)) = {r}
      BY <2>2, <3>1, <3>2, BodyIsASlot
    <3>4. slot # ErasedSlot
      BY <3>3, BlankIsNoRecord
    <3>5. Read.kind = "Corrupt"
      BY <2>0, <3>3, <3>4, Markers
    <3>6. slot' # ErasedSlot
      BY <3>3, ErasedIsASlot, Markers
    <3>7. Read'.kind = "Active" /\ Read'.record = record
      BY <2>1, <3>2, <3>3, <3>6, Markers
    <3> QED
      BY <2>1, <3>5, <3>7
  <2>7. CASE Acknowledge
    <3>1. Read.kind = "Active" /\ slot' = [slot EXCEPT !.marker = ACKNOWLEDGED]
      BY <2>7 DEF Acknowledge, WriteState
    <3>2. slot'.marker = ACKNOWLEDGED /\ slot'.bytes = slot.bytes
      BY <2>2, <3>1
    <3>3. slot' # ErasedSlot
      BY <3>2, ErasedIsASlot, Markers
    <3>4. Read'.kind = "Acknowledged" /\ Read'.record = Read.record
      BY <2>0, <2>1, <3>2, <3>3
    <3>5. Read' = [kind |-> "Acknowledged", record |-> Read.record]
      BY <2>1, <3>4
    <3>6. [Read EXCEPT !.kind = "Acknowledged"] = [kind |-> "Acknowledged", record |-> Read.record]
      BY <2>0
    <3> QED
      BY <3>1, <3>5, <3>6
  <2>8. CASE Erase
    <3>1. slot' = ErasedSlot /\ Read.kind \in {"Acknowledged", "Corrupt"}
      BY <2>8 DEF Erase, Reclaimed
    <3> QED
      BY <2>1, <3>1
  <2>9. CASE PowerLoss
    BY <2>9 DEF PowerLoss
  <2>10. CASE PowerLossInBody
    <3>1. Read.kind = "Erased" /\ slot = ErasedSlot
      BY <2>0, <2>10 DEF PowerLossInBody
    <3>2. PICK r \in Records :
            \E m \in {slot.marker, Body(r).marker}, b \in Torn(slot.bytes, Body(r).bytes) :
              slot' = [marker |-> m, bytes |-> b]
      BY <2>10 DEF PowerLossInBody
    <3>3. slot'.marker = ERASED
      BY <3>1, <3>2, ErasedIsASlot, BodyIsASlot
    <3>4. Read'.kind = "Corrupt"
      BY <2>1, <3>1, <3>3, Markers
    <3> QED
      BY <3>1, <3>4
  <2>11. CASE PowerLossInErase
    <3>1. Read.kind \in {"Acknowledged", "Corrupt"}
      BY <2>11 DEF PowerLossInErase, Reclaimed
    <3>2. PICK m \in {m \in SUBSET ERASED : slot.marker \subseteq m},
                b \in Torn(slot.bytes, ErasedSlot.bytes) :
            /\ b = slot.bytes => m = slot.marker
            /\ slot' = [marker |-> m, bytes |-> b]
      BY <2>11 DEF PowerLossInErase
    <3>3. slot'.marker = m /\ slot'.bytes = b
      BY <3>2
    <3>4. b # slot.bytes
      BY <2>2, <3>2
    <3>5. Decoded(b) = {}
      BY <2>2, <3>4, ErasedFragment
    <3>6. Read'.record = {} /\ Read'.kind \in {"Erased", "Acknowledged", "Corrupt"}
      BY <2>1, <3>3, <3>5
    <3>7. CASE Read'.kind = "Acknowledged"
      <4>1. slot'.marker = ACKNOWLEDGED
        BY <2>1, <3>7
      <4>2. slot.marker = ACKNOWLEDGED
        BY <3>2, <3>3, <4>1 DEF ACKNOWLEDGED
      <4>3. Read.kind = "Acknowledged"
        BY <2>0, <3>1, <4>2
      <4> QED
        BY <3>6, <3>7, <4>3
    <3> QED
      BY <3>1, <3>6, <3>7
  <2> QED
    BY <2>3, <2>4, <2>5, <2>6, <2>7, <2>8, <2>9, <2>10, <2>11, Zenon DEF ReadingNext
<1> QED
  BY <1>1, ReadingInvariance, PTL DEF ReadingSpec, SlotLife
=============================================================================
