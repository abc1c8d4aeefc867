-------------------------- MODULE UploadCycleProofs --------------------------
(***************************************************************************)
(* Proofs about UploadCycle, for every queue capacity and every number of  *)
(* readings.                                                               *)
(***************************************************************************)
EXTENDS UploadCycle, TLAPS

(* The part of the types the delivery argument needs. *)
QueueTypes ==
  /\ newest \in Nat \cup {-1}
  /\ pending \subseteq 0 .. newest
  /\ to_broker \subseteq 0 .. newest
  /\ last_received \in Nat \cup {-1}
  /\ last_received <= newest

(* A PUBACK under way is for the reading whose PUBACK is awaited, and the  *)
(* broker has that reading.                                                *)
PubackMeansReceived ==
  /\ to_device => phase = "puback" /\ inflight \in received
  /\ phase = "puback" => to_broker \subseteq {inflight}

(* The broker's latest reading, then the one under way, then the queue, in *)
(* sequence order.                                                         *)
InOrder ==
  /\ \A m \in pending : last_received <= m
  /\ \A b \in to_broker : last_received <= b /\ \A m \in pending : b <= m

IInv ==
  /\ QueueTypes
  /\ PubackMeansReceived
  /\ AwaitedIsOldest
  /\ InOrder
  /\ NothingLostSilently

-----------------------------------------------------------------------------
LEMMA InitIInv == Init => IInv
  BY DEF Init, IInv, QueueTypes, PubackMeansReceived, AwaitedIsOldest, InOrder,
         NothingLostSilently

(* Steps that touch neither the queue, nor the wire, nor the broker, and   *)
(* are not about an awaited PUBACK.                                        *)
Quiet ==
  \/ StartCycle \/ RadioReady \/ CaptureReads \/ CaptureFails \/ AppendFails
  \/ Connect \/ JoinFlashes \/ FaultTicks \/ WifiUp \/ ClockAnchored
  \/ RefreshEnds \/ LinkLost \/ WifiUpAgain \/ Drained \/ BackoffEnds \/ CycleEnds

LEMMA QuietIInv == IInv /\ Quiet => IInv'
<1> SUFFICES ASSUME IInv, Quiet PROVE IInv'
  OBVIOUS
<1>1. /\ UNCHANGED phase \/ (phase # "puback" /\ phase' # "puback")
      /\ ReadingsStay
  BY DEF Quiet, Go, StartCycle, RadioReady, CaptureReads, CaptureFails, AppendFails,
         AfterCapture, Connect, JoinFlashes, FaultTicks, WifiUp, ClockAnchored,
         RefreshEnds, LinkLost, WifiUpAgain, Drained, BackoffEnds, CycleEnds
<1> QED
  BY <1>1 DEF IInv, QueueTypes, PubackMeansReceived, AwaitedIsOldest, IsOldest,
              InOrder, NothingLostSilently, ReadingsStay, queue, wire, broker

(* Steps that drop the connection, whatever phase they end in. *)
LEMMA DroppingIInv ==
  ASSUME IInv, phase' # "puback", ~ to_device',
         UNCHANGED <<queue, to_broker, broker, discarded>>
  PROVE  IInv'
  BY DEF IInv, QueueTypes, PubackMeansReceived, AwaitedIsOldest, InOrder,
         NothingLostSilently, queue, broker

(* Retiring a reading the broker has, or one given up, loses nothing.      *)
LEMMA RetiringIInv ==
  ASSUME IInv, NEW n \in pending, Queue!Retire(n),
         n \in received' \cup discarded',
         received \subseteq received', discarded \subseteq discarded',
         phase' # "puback", ~ to_device',
         UNCHANGED <<to_broker, last_received>>
  PROVE  IInv'
<1>1. pending' = pending \ {n} /\ newest' = newest
  BY DEF Queue!Retire
<1> QED
  BY <1>1 DEF IInv, QueueTypes, PubackMeansReceived, AwaitedIsOldest, InOrder,
              NothingLostSilently

(* The reading a PUBACK retires is the awaited one, which the broker has.  *)
LEMMA PubackRetires ==
  ASSUME IInv, phase = "puback", to_device, NEW n \in pending, Queue!Retire(n)
  PROVE  n \in received
<1>1. inflight \in pending /\ inflight <= n /\ n <= inflight
  BY DEF IInv, AwaitedIsOldest, IsOldest, Queue!Retire
<1>2. n = inflight
  BY <1>1 DEF IInv, QueueTypes
<1> QED
  BY <1>2 DEF IInv, PubackMeansReceived

LEMMA StepIInv == IInv /\ [Next]_vars => IInv'
<1> SUFFICES ASSUME IInv, [Next]_vars PROVE IInv'
  OBVIOUS
<1>1. CASE Quiet
  BY <1>1, QuietIInv
<1>2. CASE DiscardOldest
  <2>1. PICK n \in pending : Queue!Retire(n) /\ discarded' = discarded \cup {n}
    BY <1>2 DEF DiscardOldest
  <2>2. phase' # "puback" /\ ~ to_device'
    BY <1>2 DEF DiscardOldest, wire, IInv, PubackMeansReceived
  <2> QED
    BY <1>2, <2>1, <2>2, RetiringIInv DEF DiscardOldest, wire, broker
<1>3. CASE StoreReading
  <2>1. /\ newest' = newest + 1
        /\ pending' = pending \cup {newest'}
        /\ phase # "puback" /\ phase' # "puback"
        /\ UNCHANGED <<wire, broker, discarded>>
    BY <1>3 DEF StoreReading, Queue!Store, AfterCapture, Go
  <2>2. QueueTypes'
    BY <2>1 DEF IInv, QueueTypes, wire, broker
  <2>3. InOrder'
    BY <2>1 DEF IInv, QueueTypes, InOrder, wire, broker
  <2>4. NothingLostSilently'
    BY <2>1 DEF IInv, QueueTypes, NothingLostSilently, broker
  <2> QED
    BY <2>1, <2>2, <2>3, <2>4 DEF IInv, PubackMeansReceived, AwaitedIsOldest, wire
<1>4. CASE Connects
  BY <1>4 DEF Connects, Go, IInv, QueueTypes, PubackMeansReceived, AwaitedIsOldest,
              InOrder, NothingLostSilently, queue, broker
<1>5. CASE Publish
  <2>1. PICK n \in pending : IsOldest(n) /\ inflight' = n /\ to_broker' = {n}
    BY <1>5 DEF Publish, Peeked
  <2> QED
    BY <1>5, <2>1
       DEF Publish, Go, IInv, QueueTypes, PubackMeansReceived, AwaitedIsOldest,
           IsOldest, InOrder, NothingLostSilently, queue, broker
<1>6. CASE PubackArrives
  <2>1. PICK n \in pending : Queue!Retire(n)
    BY <1>6 DEF PubackArrives
  <2>2. n \in received
    BY <1>6, <2>1, PubackRetires DEF PubackArrives, IsComplete, Go
  <2> QED
    BY <1>6, <2>1, <2>2, RetiringIInv DEF PubackArrives, Go, broker
<1>7. CASE RetirementFails
  <2>1. CASE UNCHANGED queue
    BY <1>7, <2>1, DroppingIInv DEF RetirementFails, Go
  <2>2. CASE \E n \in pending : Queue!Retire(n)
    <3>1. PICK n \in pending : Queue!Retire(n)
      BY <2>2
    <3>2. n \in received
      BY <1>7, <3>1, PubackRetires DEF RetirementFails, IsComplete, Go
    <3> QED
      BY <1>7, <3>1, <3>2, RetiringIInv DEF RetirementFails, Go, broker
  <2> QED
    BY <1>7, <2>1, <2>2 DEF RetirementFails
<1>8. CASE AttemptFails \/ BudgetExpires \/ PowerLoss
  BY <1>8, DroppingIInv DEF AttemptFails, Go, BudgetExpires, PowerLoss
<1>9. CASE PublishTimesOut
  <2>1. PICK n \in pending : IsOldest(n) /\ to_broker' = {n}
    BY <1>9 DEF PublishTimesOut, Peeked
  <2> QED
    BY <1>9, <2>1
       DEF PublishTimesOut, Go, IInv, QueueTypes, PubackMeansReceived, AwaitedIsOldest,
           IsOldest, InOrder, NothingLostSilently, queue, broker
<1>10. CASE BrokerReceives
  <2>1. PICK n \in to_broker : received' = received \cup {n} /\ last_received' = n
    BY <1>10 DEF BrokerReceives
  <2>2. /\ to_device' => phase = "puback"
        /\ to_broker' = {}
        /\ UNCHANGED <<pending, newest, phase, inflight, discarded>>
    BY <1>10 DEF BrokerReceives, queue
  <2>3. phase = "puback" => n = inflight
    BY DEF IInv, PubackMeansReceived
  <2>4. PubackMeansReceived' /\ AwaitedIsOldest'
    BY <2>1, <2>2, <2>3 DEF IInv, PubackMeansReceived, AwaitedIsOldest, IsOldest
  <2>5. QueueTypes' /\ InOrder' /\ NothingLostSilently'
    BY <2>1, <2>2 DEF IInv, QueueTypes, InOrder, NothingLostSilently
  <2> QED
    BY <2>4, <2>5 DEF IInv
<1>11. CASE BytesLost
  BY <1>11
     DEF BytesLost, IInv, QueueTypes, PubackMeansReceived, AwaitedIsOldest,
         IsOldest, InOrder, NothingLostSilently, queue, broker
<1>12. CASE UNCHANGED vars
  BY <1>12
     DEF vars, queue, wire, broker, IInv, QueueTypes, PubackMeansReceived,
         AwaitedIsOldest, IsOldest, InOrder, NothingLostSilently
<1> QED
  BY <1>1, <1>2, <1>3, <1>4, <1>5, <1>6, <1>7, <1>8, <1>9, <1>10, <1>11, <1>12
     DEF Next, Device, Quiet

THEOREM Invariance == Spec => []IInv
  BY InitIInv, StepIInv, PTL DEF Spec

(* At least once, whatever is cut short, lost or restarted: a stored       *)
(* reading is queued, or with the broker, or was explicitly discarded.     *)
THEOREM AtLeastOnce == Spec => []NothingLostSilently
  BY Invariance, PTL DEF IInv

(* What acknowledge_oldest retires is the reading that was published.      *)
THEOREM AwaitedCorrect == Spec => []AwaitedIsOldest
  BY Invariance, PTL DEF IInv

(* The broker never sees an older reading after a newer one. *)
THEOREM BrokerOrder == Spec => OrderedAtBroker
<1>1. IInv /\ [Next]_vars => [last_received' >= last_received]_last_received
  <2> SUFFICES ASSUME IInv, [Next]_vars
               PROVE  last_received' >= last_received \/ last_received' = last_received
    OBVIOUS
  <2>1. CASE BrokerReceives
    BY <2>1 DEF BrokerReceives, IInv, InOrder, QueueTypes
  <2>2. CASE ~ BrokerReceives
    BY <2>2
       DEF Next, Device, StartCycle, RadioReady, CaptureReads, CaptureFails,
           DiscardOldest, StoreReading, AppendFails, Connect, JoinFlashes,
           FaultTicks, WifiUp, ClockAnchored, RefreshEnds, LinkLost, WifiUpAgain,
           Connects, Publish, PublishTimesOut, PubackArrives, RetirementFails,
           Drained, AttemptFails, BackoffEnds, CycleEnds, BudgetExpires, PowerLoss,
           BytesLost, ReadingsStay, broker, vars
  <2> QED
    BY <2>1, <2>2
<1> QED
  BY <1>1, Invariance, PTL DEF Spec, OrderedAtBroker

-----------------------------------------------------------------------------
(* Where the cycle is, with the attempt count and the anchor it implies.   *)

CycleInv ==
  /\ phase \in Phases
  /\ clock \in BOOLEAN /\ had_clock \in BOOLEAN
  /\ samples \in 0 .. 1
  /\ had_clock => clock
  /\ wifi \in Wifi!Rounds \cup Wifi!Outside
  /\ wifi \in Wifi!Outside <=> phase \notin Connecting
  /\ phase \in {"init", "ntp"} => samples = 0
  /\ phase = "ntp" => ~ had_clock
  /\ phase = "join" /\ ~ had_clock => samples = 0
  /\ OneSamplePerCycle

LEMMA InitCycleInv == Init => CycleInv
<1> SUFFICES ASSUME Init PROVE CycleInv
  OBVIOUS
<1>1. clock = FALSE /\ had_clock = FALSE /\ samples = 0 /\ phase = "off" /\ wifi = "idle"
  BY DEF Init
<1>2. phase \notin Connecting \cup Attempting \cup {"refresh", "ntp", "capture", "append", "init"}
  BY <1>1 DEF Connecting, Attempting
<1>3. clock \in BOOLEAN /\ had_clock \in BOOLEAN
  BY <1>1
<1> QED
  BY <1>1, <1>2, <1>3 DEF CycleInv, OneSamplePerCycle, Phases, Connecting, Wifi!Outside

(* Steps that leave all of it alone. *)
LEMMA SameCycleInv ==
  ASSUME CycleInv, UNCHANGED <<phase, wifi, cycle>>
  PROVE  CycleInv'
  BY DEF CycleInv, OneSamplePerCycle, cycle

(* Steps between two phases of an attempt. *)
LEMMA AttemptCycleInv ==
  ASSUME CycleInv, phase \in Attempting, phase' \in Attempting,
         UNCHANGED <<wifi, cycle>>
  PROVE  CycleInv'
  BY DEF CycleInv, OneSamplePerCycle, cycle, Phases, Working, Connecting, Attempting

LEMMA StepCycleInv == CycleInv /\ [Next]_vars => CycleInv'
<1> SUFFICES ASSUME CycleInv, [Next]_vars PROVE CycleInv'
  OBVIOUS
<1> USE DEF Go, Phases, Working, Connecting, Attempting, Wifi!Outside, cycle
<1>1. CASE StartCycle
  BY <1>1 DEF StartCycle, CycleInv, OneSamplePerCycle
<1>2. CASE RadioReady
  BY <1>2 DEF RadioReady, CaptureFirst, Wifi!Call, Wifi!Go, Wifi!Rounds, CycleInv, OneSamplePerCycle
<1>3. CASE CaptureReads
  BY <1>3 DEF CaptureReads, CycleInv, OneSamplePerCycle
<1>4. CASE CaptureFails \/ StoreReading \/ AppendFails
  <2>1. PICK from \in {"capture", "append"} : AfterCapture(from)
    BY <1>4 DEF CaptureFails, StoreReading, AppendFails
  <2> QED
    BY <2>1 DEF AfterCapture, Wifi!Call, Wifi!Go, Wifi!Rounds, CycleInv, OneSamplePerCycle
<1>5. CASE Connect
  <2>1. /\ UNCHANGED <<phase, cycle>> /\ phase \in Connecting
        /\ wifi' \in Wifi!Rounds
    BY <1>5 DEF Connect, Wifi!JoinSucceeds, Wifi!JoinFails, Wifi!Left, Wifi!JoinTimesOut,
                Wifi!DhcpTimesOut, Wifi!LinkUp, Wifi!PauseEnds, Wifi!Go, Wifi!Rounds
  <2> QED
    BY <2>1 DEF CycleInv, OneSamplePerCycle, Wifi!Rounds
<1>6. CASE JoinFlashes \/ FaultTicks \/ DiscardOldest \/ BrokerReceives \/ BytesLost
           \/ UNCHANGED vars
  BY <1>6, SameCycleInv
     DEF JoinFlashes, FaultTicks, DiscardOldest, BrokerReceives, BytesLost, vars
<1>7. CASE WifiUp
  BY <1>7 DEF WifiUp, Wifi!Returns, Wifi!Go, CycleInv, OneSamplePerCycle
<1>8. CASE ClockAnchored
  BY <1>8 DEF ClockAnchored, CycleInv, OneSamplePerCycle
<1>9. CASE RefreshEnds
  BY <1>9 DEF RefreshEnds, CycleInv, OneSamplePerCycle
<1>10. CASE LinkLost
  BY <1>10 DEF LinkLost, Wifi!Call, Wifi!Go, Wifi!Rounds, CycleInv, OneSamplePerCycle
<1>11. CASE WifiUpAgain
  BY <1>11 DEF WifiUpAgain, Wifi!Returns, Wifi!Go, CycleInv, OneSamplePerCycle
<1>12. CASE \/ Connects \/ Publish \/ PublishTimesOut \/ PubackArrives
            \/ RetirementFails \/ Drained \/ AttemptFails \/ BackoffEnds
  BY <1>12, AttemptCycleInv
     DEF Connects, Publish, PublishTimesOut, PubackArrives, RetirementFails,
         Drained, AttemptFails, BackoffEnds
<1>13. CASE CycleEnds
  BY <1>13 DEF CycleEnds, Wifi!Dropped, CycleInv, OneSamplePerCycle
<1>14. CASE BudgetExpires \/ PowerLoss
  <2>1. phase' \in {"asleep", "off"} /\ wifi' = "idle"
    BY <1>14 DEF BudgetExpires, PowerLoss, Wifi!Dropped
  <2>2. clock' \in BOOLEAN /\ had_clock' \in BOOLEAN
    BY <1>14 DEF BudgetExpires, PowerLoss, CycleInv
  <2>3. samples' \in 0 .. 1 /\ (had_clock' => clock')
    BY <1>14 DEF BudgetExpires, PowerLoss, CycleInv
  <2> QED
    BY <2>1, <2>2, <2>3 DEF CycleInv, OneSamplePerCycle
<1> QED
  BY <1>1, <1>2, <1>3, <1>4, <1>5, <1>6, <1>7, <1>8, <1>9, <1>10, <1>11, <1>12,
     <1>13, <1>14
     DEF Next, Device

THEOREM CycleInvariance == Spec => []CycleInv
  BY InitCycleInv, StepCycleInv, PTL DEF Spec

(* At most one capture attempt in a wake cycle, never without UTC time,    *)
(* and before the network when the anchor was there.                       *)
THEOREM OneSample == Spec => []OneSamplePerCycle
  BY CycleInvariance, PTL DEF CycleInv

-----------------------------------------------------------------------------
(* The LED.  A refresh begins with the status of the join before it.       *)

LedInv ==
  /\ led \in [status : {"Idle", "Publishing", "Fault"}, fault_phase_on : BOOLEAN]
  /\ lit \in BOOLEAN
  /\ phase = "refresh" => led.status = "Fault"
  /\ LedTellsPhase

LEMMA LedFacts ==
  /\ \A s \in {"Idle", "Publishing", "Fault"} :
       /\ Led(s) \in [status : {"Idle", "Publishing", "Fault"}, fault_phase_on : BOOLEAN]
       /\ Led(s).status = s
       /\ IsOn(Led(s)) = (s # "Idle")
  /\ \A l \in [status : {"Idle", "Publishing", "Fault"}, fault_phase_on : BOOLEAN] :
       /\ Ticked(l) \in [status : {"Idle", "Publishing", "Fault"}, fault_phase_on : BOOLEAN]
       /\ Ticked(l).status = l.status
       /\ IsOn(l) \in BOOLEAN
  BY DEF Led, IsOn, Ticked

LEMMA InitLedInv == Init => LedInv
  BY LedFacts DEF Init, LedInv, LedTellsPhase, Attempting

(* Each step shows a status of its own, keeps the last one, or leaves the  *)
(* radio dark.                                                             *)
LEMMA StepLedInv == CycleInv /\ LedInv /\ [Next]_vars => LedInv'
<1> SUFFICES ASSUME CycleInv, LedInv, [Next]_vars PROVE LedInv'
  OBVIOUS
<1> DEFINE Status == {"Idle", "Publishing", "Fault"}
           Shown(s) == s \in Status /\ ShowStatus(s)
<1>a. \A s \in Status : Shown(s) =>
        /\ led' \in [status : Status, fault_phase_on : BOOLEAN]
        /\ led'.status = s
        /\ lit' = IsOn(led') /\ lit' \in BOOLEAN
        /\ s = "Idle" => ~ lit'
  <2> SUFFICES ASSUME NEW s \in Status, Shown(s)
               PROVE  /\ led' \in [status : Status, fault_phase_on : BOOLEAN]
                      /\ led'.status = s
                      /\ lit' = IsOn(led') /\ lit' \in BOOLEAN
                      /\ s = "Idle" => ~ lit'
    OBVIOUS
  <2>1. led' = Led(s) /\ lit' = IsOn(led')
    BY DEF ShowStatus
  <2>2. /\ led' \in [status : Status, fault_phase_on : BOOLEAN]
        /\ led'.status = s
    BY <2>1, LedFacts
  <2>3. lit' \in BOOLEAN
    BY <2>1, <2>2, LedFacts
  <2>4. s = "Idle" => ~ lit'
    BY <2>1, <2>2 DEF IsOn
  <2> QED
    BY <2>1, <2>2, <2>3, <2>4
<1>b. Dark =>
        /\ led' \in [status : Status, fault_phase_on : BOOLEAN]
        /\ led'.status = "Idle" /\ ~ lit' /\ ~ IsOn(led')
        /\ lit' \in BOOLEAN /\ lit' = IsOn(led')
  <2> SUFFICES ASSUME Dark
               PROVE  /\ led' \in [status : Status, fault_phase_on : BOOLEAN]
                      /\ led'.status = "Idle" /\ ~ lit' /\ ~ IsOn(led')
                      /\ lit' \in BOOLEAN /\ lit' = IsOn(led')
    OBVIOUS
  <2>1. led' \in [status : Status, fault_phase_on : BOOLEAN] /\ led'.status = "Idle"
    BY LedFacts DEF Dark
  <2>2. ~ lit' /\ lit' \in BOOLEAN
    BY DEF Dark
  <2>3. ~ IsOn(led') /\ IsOn(led') \in BOOLEAN
    BY <2>1, LedFacts DEF IsOn
  <2> QED
    BY <2>1, <2>2, <2>3
<1>c. UNCHANGED light => IsOn(led') = IsOn(led)
  BY DEF light, IsOn
<1> HIDE DEF Shown
<1> USE DEF Go, Attempting, Connecting, Wifi!Outside, light
<1>1. CASE StartCycle
  BY <1>1, <1>c DEF StartCycle, LedInv, LedTellsPhase
<1>2. CASE RadioReady
  BY <1>2, <1>a DEF RadioReady, Shown, Wifi!Call, Wifi!Go, CycleInv, LedInv, LedTellsPhase
<1>3. CASE CaptureReads
  BY <1>3, <1>c DEF CaptureReads, CycleInv, LedInv, LedTellsPhase
<1>4. CASE CaptureFails \/ AppendFails
  BY <1>4, <1>a
     DEF CaptureFails, AppendFails, AfterCapture, Shown, Wifi!Call,
         Wifi!Go, CycleInv, LedInv, LedTellsPhase
<1>5. CASE StoreReading
  <2>1. CASE UNCHANGED light
    BY <1>5, <2>1, <1>c
       DEF StoreReading, AfterCapture, Wifi!Call, Wifi!Go, CycleInv, LedInv, LedTellsPhase
  <2>2. CASE ShowStatus("Fault")
    BY <1>5, <2>2, <1>a
       DEF StoreReading, AfterCapture, Shown, Wifi!Call, Wifi!Go, CycleInv, LedInv, LedTellsPhase
  <2> QED
    BY <1>5, <2>1, <2>2 DEF StoreReading
<1>6. CASE Connect
  <2>1. CASE Wifi!JoinSucceeds /\ ShowJoined
    BY <1>6, <2>1, <1>a DEF Connect, ShowJoined, Shown, Wifi!JoinSucceeds, Wifi!Go, LedInv, LedTellsPhase
  <2>2. CASE (Wifi!JoinFails \/ Wifi!Left) /\ ShowStatus("Fault")
    BY <1>6, <2>2, <1>a DEF Connect, Shown, Wifi!JoinFails, Wifi!Left, Wifi!Go, LedInv, LedTellsPhase
  <2>3. CASE (Wifi!JoinTimesOut \/ Wifi!DhcpTimesOut) /\ UNCHANGED light
    BY <1>6, <2>3 DEF Connect, Wifi!JoinTimesOut, Wifi!DhcpTimesOut, Wifi!Go, LedInv, LedTellsPhase
  <2>4. CASE (Wifi!LinkUp \/ Wifi!PauseEnds) /\ UNCHANGED light
    BY <1>6, <2>4, <1>c DEF Connect, Wifi!LinkUp, Wifi!PauseEnds, Wifi!Go, LedInv, LedTellsPhase
  <2> QED
    BY <1>6, <2>1, <2>2, <2>3, <2>4 DEF Connect
<1>7. CASE JoinFlashes
  BY <1>7 DEF JoinFlashes, CycleInv, LedInv, LedTellsPhase
<1>8. CASE FaultTicks
  <2>1. led' \in [status : Status, fault_phase_on : BOOLEAN] /\ led'.status = led.status
        /\ lit' \in BOOLEAN
    BY <1>8, LedFacts DEF FaultTicks, LedInv
  <2> QED
    BY <1>8, <2>1 DEF FaultTicks, ReadingsStay, queue, CycleInv, LedInv, LedTellsPhase
<1>9. CASE WifiUp \/ RefreshEnds \/ LinkLost \/ WifiUpAgain
  BY <1>9, <1>c
     DEF WifiUp, RefreshEnds, LinkLost, WifiUpAgain, ReadingsStay, queue, Wifi!Call,
         Wifi!Returns, Wifi!Go, CycleInv, LedInv, LedTellsPhase
<1>10. CASE ClockAnchored
  BY <1>10, <1>a DEF ClockAnchored, Shown, CycleInv, LedInv, LedTellsPhase
<1>11. CASE Publish \/ PublishTimesOut \/ RetirementFails \/ AttemptFails
  BY <1>11, <1>a
     DEF Publish, PublishTimesOut, RetirementFails, AttemptFails, Shown, CycleInv,
         LedInv, LedTellsPhase
<1>12. CASE PubackArrives
  <2>1. CASE pending' = {} /\ ShowStatus("Idle")
    BY <1>12, <2>1, <1>a DEF PubackArrives, Shown, CycleInv, LedInv, LedTellsPhase
  <2>2. CASE UNCHANGED light
    BY <1>12, <2>2, <1>c DEF PubackArrives, CycleInv, LedInv, LedTellsPhase
  <2> QED
    BY <1>12, <2>1, <2>2 DEF PubackArrives
<1>13. CASE Connects \/ Drained \/ BackoffEnds
  BY <1>13, <1>c
     DEF Connects, Drained, BackoffEnds, ReadingsStay, queue, CycleInv, LedInv, LedTellsPhase
<1>14. CASE CycleEnds \/ BudgetExpires \/ PowerLoss
  <2>1. Dark /\ phase' \in {"asleep", "off"}
    BY <1>14 DEF CycleEnds, BudgetExpires, PowerLoss
  <2>2. /\ led' \in [status : Status, fault_phase_on : BOOLEAN]
        /\ ~ lit' /\ lit' \in BOOLEAN /\ lit' = IsOn(led')
    BY <2>1, <1>b
  <2>3. wifi' = "idle"
    BY <1>14 DEF CycleEnds, BudgetExpires, PowerLoss, Wifi!Dropped, CycleInv
  <2> QED
    BY <2>1, <2>2, <2>3 DEF LedInv, LedTellsPhase
<1>15. CASE BrokerReceives \/ BytesLost \/ UNCHANGED vars
  BY <1>15, <1>c DEF BrokerReceives, BytesLost, vars, queue, LedInv, LedTellsPhase
<1>16. CASE DiscardOldest
  BY <1>16, <1>c DEF DiscardOldest, CycleInv, LedInv, LedTellsPhase
<1> QED
  BY <1>1, <1>2, <1>3, <1>4, <1>5, <1>6, <1>7, <1>8, <1>9, <1>10, <1>11, <1>12,
     <1>13, <1>14, <1>15, <1>16
     DEF Next, Device

(* The LED shows what README.md says of it, in every phase, although it is *)
(* on the radio and the join writes its pin behind the model's back.       *)
THEOREM LedCorrect == Spec => []LedTellsPhase
<1>1. CycleInv /\ LedInv /\ [Next]_vars => LedInv'
  BY StepLedInv
<1> QED
  BY <1>1, InitLedInv, CycleInvariance, PTL DEF Spec, LedInv

-----------------------------------------------------------------------------
(* Types: a reading is begun only while the bound leaves a number for it.  *)

SizeInv ==
  /\ newest \in Sequences \cup {-1}
  /\ phase = "append" => newest + 1 < MaxSequence
  /\ inflight \in Sequences \cup {-1}
  /\ last_received \in Sequences \cup {-1}
  /\ received \subseteq Sequences /\ discarded \subseteq Sequences
  /\ to_device \in BOOLEAN

LEMMA InitSizeInv == Init => SizeInv
<1> SUFFICES ASSUME Init PROVE SizeInv
  OBVIOUS
<1>1. to_device \in BOOLEAN
  BY DEF Init
<1> QED
  BY <1>1 DEF Init, SizeInv

LEMMA StepSizeInv == IInv /\ SizeInv /\ [Next]_vars => SizeInv'
<1> SUFFICES ASSUME IInv, SizeInv, [Next]_vars PROVE SizeInv'
  OBVIOUS
<1> USE CycleAssumption DEF Go, queue, wire, broker, Sequences
<1>1. pending \subseteq Sequences /\ to_broker \subseteq Sequences
  BY DEF IInv, QueueTypes, SizeInv
<1>2. CASE Quiet
  <2>1. UNCHANGED <<queue, wire, broker, discarded>>
    BY <1>2
       DEF Quiet, StartCycle, RadioReady, CaptureReads, CaptureFails, AppendFails,
           AfterCapture, Connect, JoinFlashes, FaultTicks, WifiUp, ClockAnchored,
           RefreshEnds, LinkLost, WifiUpAgain, Drained, BackoffEnds, CycleEnds,
           ReadingsStay
  <2>2. phase' = "append" => CaptureReads \/ phase = "append"
    BY <1>2
       DEF Quiet, StartCycle, RadioReady, CaptureFails, AppendFails, AfterCapture,
           Connect, JoinFlashes, FaultTicks, WifiUp, ClockAnchored, RefreshEnds,
           LinkLost, WifiUpAgain, Drained, BackoffEnds, CycleEnds
  <2> QED
    BY <2>1, <2>2 DEF CaptureReads, SizeInv
<1>3. CASE DiscardOldest
  <2>1. PICK n \in pending : Queue!Retire(n) /\ discarded' = discarded \cup {n}
    BY <1>3 DEF DiscardOldest
  <2> QED
    BY <1>1, <1>3, <2>1 DEF DiscardOldest, Queue!Retire, SizeInv
<1>4. CASE StoreReading
  <2>1. phase' # "append"
    BY <1>4 DEF StoreReading, AfterCapture
  <2> QED
    BY <1>4, <2>1 DEF StoreReading, AfterCapture, SizeInv
<1>5. CASE Connects
  BY <1>5 DEF Connects, SizeInv
<1>6. CASE Publish
  BY <1>1, <1>6 DEF Publish, SizeInv
<1>7. CASE PublishTimesOut \/ AttemptFails
  BY <1>7 DEF PublishTimesOut, AttemptFails, SizeInv
<1>8. CASE PubackArrives \/ RetirementFails
  BY <1>8 DEF PubackArrives, RetirementFails, Queue!Retire, SizeInv
<1>9. CASE BudgetExpires \/ PowerLoss
  BY <1>9 DEF BudgetExpires, PowerLoss, SizeInv
<1>10. CASE BrokerReceives
  BY <1>1, <1>10 DEF BrokerReceives, SizeInv
<1>11. CASE BytesLost \/ UNCHANGED vars
  BY <1>11 DEF BytesLost, vars, SizeInv
<1> QED
  BY <1>2, <1>3, <1>4, <1>5, <1>6, <1>7, <1>8, <1>9, <1>10, <1>11
     DEF Next, Device, Quiet

THEOREM TypeCorrect == Spec => []TypeOK
<1>1. IInv /\ SizeInv /\ [Next]_vars => SizeInv'
  BY StepSizeInv
<1>2. IInv /\ CycleInv /\ LedInv /\ SizeInv => TypeOK
  <2> SUFFICES ASSUME IInv, CycleInv, LedInv, SizeInv PROVE TypeOK
    OBVIOUS
  <2>1. pending \subseteq Sequences /\ to_broker \subseteq Sequences
    BY CycleAssumption DEF IInv, QueueTypes, SizeInv, Sequences
  <2> QED
    BY <2>1 DEF CycleInv, LedInv, SizeInv, TypeOK
<1>3. CycleInv /\ LedInv /\ [Next]_vars => LedInv'
  BY StepLedInv
<1> QED
  BY <1>1, <1>2, <1>3, InitSizeInv, InitLedInv, Invariance, CycleInvariance, PTL DEF Spec
=============================================================================
