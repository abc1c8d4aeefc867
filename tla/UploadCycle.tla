----------------------------- MODULE UploadCycle -----------------------------
(***************************************************************************)
(* The wake cycle of src/src/main.rs: capture a reading into the queue,    *)
(* bring up the network, and publish queued readings oldest first at QoS   *)
(* 1, retiring each only on its PUBACK, all under an awake budget that can *)
(* cancel the cycle at any await.  The queue is the MeasurementQueue that  *)
(* FlashQueue implements, the network is brought up as ConnectWifi says,   *)
(* which WifiJoin implements; the broker and the bytes between it and the  *)
(* device are part of the model, and so is the LED of status.rs.  Every    *)
(* timeout may fire whenever its operation is awaited.                     *)
(***************************************************************************)
EXTENDS Integers, FiniteSets

CONSTANTS
  QueueCapacity,   \* the most readings the queue holds
  MaxSequence      \* bound: readings are numbered 0 .. MaxSequence - 1

ASSUME CycleAssumption ==
  /\ QueueCapacity \in Nat \ {0}
  /\ MaxSequence \in Nat

VARIABLES
  pending, newest,   \* the persistent queue, see MeasurementQueue
  phase,             \* what upload_cycle, or main around it, is doing
  wifi,              \* what connect_wifi is doing, see ConnectWifi
  clock,             \* RAM: a UTC anchor has been set since boot
  had_clock,         \* upload_cycle's local of that name
  samples,           \* capture attempts made in this cycle
  led,               \* upload_cycle's LedStatusModel
  lit,               \* WL_GPIO0, on the radio
  inflight,          \* the reading drain_queue has peeked, or -1
  to_broker,         \* the PUBLISH, if any, whose bytes can reach the broker
  to_device,         \* a PUBACK is on its way on the open connection
  received,          \* every reading the broker has received
  last_received,     \* the latest one, or -1
  discarded          \* every reading a full queue gave up

queue  == <<pending, newest>>
cycle  == <<clock, had_clock, samples>>
light  == <<led, lit>>
wire   == <<inflight, to_broker, to_device>>
broker == <<received, last_received>>
vars   == <<queue, phase, wifi, cycle, light, wire, broker, discarded>>

Queue == INSTANCE MeasurementQueue
Wifi  == INSTANCE ConnectWifi

(* "append" runs without an await, so only a power loss can interrupt it;  *)
(* in every other awake phase the budget can expire too.                   *)
Connecting == {"join", "rejoin"}
Attempting == {"attempt", "drain", "puback", "disconnect", "backoff"}
Working    == {"init", "capture", "append", "ntp", "refresh"} \cup Attempting
Phases     == {"off", "asleep"} \cup Working \cup Connecting

(* Faulty: connecting is outside the budget. *)
BadAwaiting == Working \ {"append"}

Awaiting == (Working \cup Connecting) \ {"append"}

Go(from, to) == phase = from /\ phase' = to

(* The step touches neither a reading nor what is said about one. *)
ReadingsStay == UNCHANGED <<queue, wire, broker, discarded>>

-----------------------------------------------------------------------------
(* LedStatusModel, and the writes that apply it to the radio's pin.        *)

Led(status) == [status |-> status, fault_phase_on |-> status = "Fault"]

IsOn(l) == l.status = "Publishing" \/ (l.status = "Fault" /\ l.fault_phase_on)

Ticked(l) ==
  IF l.status = "Fault" THEN [l EXCEPT !.fault_phase_on = ~ l.fault_phase_on] ELSE l

ShowStatus(status) == led' = Led(status) /\ lit' = IsOn(led')

(* upload_cycle's locals are gone and the radio is reset. *)
Dark == led' = Led("Idle") /\ lit' = FALSE

-----------------------------------------------------------------------------
(* Starting a cycle.                                                       *)

Init ==
  /\ pending = {} /\ newest = -1
  /\ phase = "off" /\ wifi = "idle"
  /\ clock = FALSE /\ had_clock = FALSE /\ samples = 0
  /\ led = Led("Idle") /\ lit = FALSE
  /\ inflight = -1 /\ to_broker = {} /\ to_device = FALSE
  /\ received = {} /\ last_received = -1
  /\ discarded = {}

(* main recovers the queue and starts its first cycle at once; the others  *)
(* start when wait_until returns.                                          *)
StartCycle ==
  /\ Go("off", "init") \/ Go("asleep", "init")
  /\ samples' = 0
  /\ ReadingsStay /\ UNCHANGED <<wifi, clock, had_clock, light>>

(* Faulty: the reading always waits for the network. *)
BadCaptureFirst == FALSE

(* With a UTC anchor the reading comes first, without one the network. *)
CaptureFirst == clock

RadioReady ==
  /\ had_clock' = clock
  /\ IF CaptureFirst
       THEN Go("init", "capture") /\ ShowStatus("Publishing") /\ UNCHANGED wifi
       ELSE Go("init", "join") /\ ShowStatus("Idle") /\ Wifi!Call
  /\ ReadingsStay /\ UNCHANGED <<clock, samples>>

-----------------------------------------------------------------------------
(* capture_and_enqueue.                                                    *)

AfterCapture(from) ==
  /\ IF had_clock
       THEN Go(from, "join") /\ Wifi!Call
       ELSE Go(from, "attempt") /\ UNCHANGED wifi
  /\ samples' = samples + 1
  /\ UNCHANGED <<clock, had_clock>>

CaptureReads ==
  /\ Go("capture", "append")
  /\ newest + 1 < MaxSequence
  /\ ReadingsStay /\ UNCHANGED <<wifi, cycle, light>>

(* The sensor failed: this cycle has no reading. *)
CaptureFails == AfterCapture("capture") /\ ShowStatus("Fault") /\ ReadingsStay

DiscardOldest ==
  /\ phase = "append"
  /\ Cardinality(pending) = QueueCapacity
  /\ \E n \in pending : Queue!Retire(n) /\ discarded' = discarded \cup {n}
  /\ UNCHANGED <<phase, wifi, cycle, light, wire, broker>>

(* An error after the commit shows as one, but the reading is stored. *)
StoreReading ==
  /\ newest' = newest + 1
  /\ Queue!Store
  /\ AfterCapture("append")
  /\ UNCHANGED light \/ ShowStatus("Fault")
  /\ UNCHANGED <<wire, broker, discarded>>

(* append returned an error, before or after discarding, and stored        *)
(* nothing.                                                                *)
AppendFails == AfterCapture("append") /\ ShowStatus("Fault") /\ ReadingsStay

-----------------------------------------------------------------------------
(* Network and time.                                                       *)

(* Faulty: the status the capture left is shown on. *)
BadShowJoined == UNCHANGED light

(* A join that succeeds shows a fault as well: the waits that follow flash *)
(* the LED, and only a fault flashes.                                      *)
ShowJoined == ShowStatus("Fault")

Connect ==
  /\ phase \in Connecting
  /\ \/ Wifi!JoinSucceeds /\ ShowJoined
     \/ (Wifi!JoinFails \/ Wifi!Left) /\ ShowStatus("Fault")
     \/ (Wifi!JoinTimesOut \/ Wifi!DhcpTimesOut) /\ UNCHANGED light
     \/ (Wifi!LinkUp \/ Wifi!PauseEnds) /\ UNCHANGED light
  /\ ReadingsStay /\ UNCHANGED <<phase, cycle>>

(* The join flashes the pin by itself, from where the model left it. *)
JoinFlashes ==
  /\ wifi = "joining"
  /\ lit' = ~ lit
  /\ ReadingsStay /\ UNCHANGED <<phase, wifi, cycle, led>>

(* flash_fault_for and await_with_fault_flash, every 100 ms. *)
FaultTicks ==
  /\ wifi \in {"pausing", "link", "dhcp"} \/ phase = "ntp"
  /\ led' = Ticked(led) /\ lit' = IsOn(led')
  /\ ReadingsStay /\ UNCHANGED <<phase, wifi, cycle>>

(* A refresh may be due.  It keeps the old anchor unless it succeeds. *)
WifiUp ==
  /\ Wifi!Returns
  /\ IF had_clock THEN Go("join", "refresh") \/ Go("join", "attempt") ELSE Go("join", "ntp")
  /\ ReadingsStay /\ UNCHANGED <<cycle, light>>

ClockAnchored ==
  /\ Go("ntp", "capture")
  /\ clock' = TRUE
  /\ ShowStatus("Publishing")
  /\ ReadingsStay /\ UNCHANGED <<wifi, had_clock, samples>>

RefreshEnds == Go("refresh", "attempt") /\ ReadingsStay /\ UNCHANGED <<wifi, cycle, light>>

(* The retry loop finds the link down, leaves, and joins again. *)
LinkLost ==
  /\ Go("attempt", "rejoin")
  /\ Wifi!Call
  /\ ReadingsStay /\ UNCHANGED <<cycle, light>>

WifiUpAgain ==
  /\ Go("rejoin", "attempt")
  /\ Wifi!Returns
  /\ ReadingsStay /\ UNCHANGED <<cycle, light>>

-----------------------------------------------------------------------------
(* upload_attempt and drain_queue.  Each attempt has a fresh socket and a  *)
(* fresh session; the broker closes the client's older connection when it  *)
(* accepts the new one, and with it whatever bytes were still under way.   *)

Connects ==
  /\ Go("attempt", "drain")
  /\ to_broker' = {} /\ to_device' = FALSE
  /\ UNCHANGED <<queue, wifi, cycle, light, inflight, broker, discarded>>

IsOldest(n) == n \in pending /\ \A m \in pending : n <= m

(* Faulty: any queued reading is published, not the oldest. *)
BadPeeked(n) == n \in pending

Peeked(n) == IsOldest(n)

Publish ==
  /\ Go("drain", "puback")
  /\ \E n \in pending : Peeked(n) /\ inflight' = n /\ to_broker' = {n}
  /\ ShowStatus("Publishing")
  /\ UNCHANGED <<queue, wifi, cycle, to_device, broker, discarded>>

(* A PUBLISH that failed or timed out may have left bytes for the broker. *)
PublishTimesOut ==
  /\ Go("drain", "backoff")
  /\ \E n \in pending : Peeked(n) /\ to_broker' = {n}
  /\ ShowStatus("Fault")
  /\ UNCHANGED <<queue, wifi, cycle, inflight, to_device, broker, discarded>>

(* Faulty: the reading is retired when the wait for its PUBACK ends. *)
BadIsComplete == TRUE

IsComplete == to_device

(* The PUBACK completes the operation; there is no await between that and  *)
(* acknowledge_oldest.                                                     *)
PubackArrives ==
  /\ Go("puback", "drain")
  /\ IsComplete
  /\ to_device' = FALSE /\ inflight' = -1
  /\ \E n \in pending : Queue!Retire(n)
  /\ IF pending' = {} THEN ShowStatus("Idle") ELSE UNCHANGED light
  /\ UNCHANGED <<wifi, cycle, to_broker, broker, discarded>>

(* An error from acknowledge_oldest, before or after the mark is written,  *)
(* ends the attempt.                                                       *)
RetirementFails ==
  /\ Go("puback", "backoff")
  /\ IsComplete
  /\ to_device' = FALSE /\ inflight' = -1
  /\ UNCHANGED queue \/ \E n \in pending : Queue!Retire(n)
  /\ ShowStatus("Fault")
  /\ UNCHANGED <<wifi, cycle, to_broker, broker, discarded>>

Drained ==
  /\ Go("drain", "disconnect")
  /\ pending = {}
  /\ ReadingsStay /\ UNCHANGED <<wifi, cycle, light>>

(* Any failure or timeout drops the connection. *)
AttemptFails ==
  /\ \E from \in {"attempt", "drain", "puback"} : Go(from, "backoff")
  /\ to_device' = FALSE /\ inflight' = -1
  /\ ShowStatus("Fault")
  /\ UNCHANGED <<queue, wifi, cycle, to_broker, broker, discarded>>

BackoffEnds == Go("backoff", "attempt") /\ ReadingsStay /\ UNCHANGED <<wifi, cycle, light>>

(* The disconnect is given two seconds; then the radio is powered down. *)
CycleEnds ==
  /\ Go("disconnect", "asleep")
  /\ Wifi!Dropped
  /\ Dark
  /\ ReadingsStay /\ UNCHANGED cycle

(* The 60-second budget drops every future of the cycle. *)
BudgetExpires ==
  /\ phase \in Awaiting
  /\ phase' = "asleep"
  /\ Wifi!Dropped
  /\ Dark
  /\ to_device' = FALSE /\ inflight' = -1
  /\ UNCHANGED <<queue, cycle, to_broker, broker, discarded>>

(* Only the flash and the outside world outlive a power loss. *)
PowerLoss ==
  /\ phase # "off"
  /\ phase' = "off"
  /\ Wifi!Dropped
  /\ Dark
  /\ clock' = FALSE /\ had_clock' = FALSE /\ samples' = 0
  /\ to_device' = FALSE /\ inflight' = -1
  /\ UNCHANGED <<queue, to_broker, broker, discarded>>

-----------------------------------------------------------------------------
(* The broker and the network, modelled from what drain_queue expects.     *)

(* Once the device has dropped the connection the PUBACK has nowhere to    *)
(* go.                                                                     *)
BrokerReceives ==
  /\ \E n \in to_broker : received' = received \cup {n} /\ last_received' = n
  /\ to_broker' = {}
  /\ to_device' = (phase = "puback")
  /\ UNCHANGED <<queue, phase, wifi, cycle, light, inflight, discarded>>

BytesLost ==
  /\ to_broker # {}
  /\ to_broker' = {}
  /\ UNCHANGED <<queue, phase, wifi, cycle, light, inflight, to_device, broker, discarded>>

-----------------------------------------------------------------------------
Device ==
  \/ StartCycle \/ RadioReady
  \/ CaptureReads \/ CaptureFails \/ DiscardOldest \/ StoreReading \/ AppendFails
  \/ Connect \/ JoinFlashes \/ FaultTicks \/ WifiUp \/ ClockAnchored
  \/ RefreshEnds \/ LinkLost \/ WifiUpAgain
  \/ Connects \/ Publish \/ PublishTimesOut \/ PubackArrives \/ RetirementFails
  \/ Drained \/ AttemptFails \/ BackoffEnds \/ CycleEnds
  \/ BudgetExpires \/ PowerLoss

Next == Device \/ BrokerReceives \/ BytesLost

Spec == Init /\ [][Next]_vars

PauseEnds   == Connect /\ (Wifi!Left \/ Wifi!PauseEnds)
JoinsAtOnce == Connect /\ Wifi!Go("joining", "dhcp")

(* The executor runs a ready task and timers fire, so a step with no await *)
(* ahead of it is taken, pauses end, and the budget ends every cycle that  *)
(* does not end by itself.  What an outage, a slow broker or a short       *)
(* budget can prevent is assumed to succeed some time if it is tried again *)
(* and again; a wait for the link, which no timeout ends, is not: some     *)
(* join is assumed to find the link up at once, or to need no wait.        *)
Fairness ==
  /\ WF_vars(StartCycle \/ BudgetExpires \/ BackoffEnds \/ CycleEnds \/ PauseEnds
              \/ DiscardOldest \/ StoreReading \/ AppendFails)
  /\ SF_vars(RadioReady) /\ SF_vars(CaptureReads \/ CaptureFails)
  /\ SF_vars(JoinsAtOnce) /\ SF_vars(WifiUp \/ WifiUpAgain)
  /\ SF_vars(ClockAnchored \/ RefreshEnds)
  /\ SF_vars(Connects) /\ SF_vars(Publish)
  /\ SF_vars(BrokerReceives /\ phase = "puback") /\ SF_vars(PubackArrives)

LiveSpec == Spec /\ Fairness

-----------------------------------------------------------------------------
(* Correctness.                                                            *)

Sequences == 0 .. MaxSequence - 1

TypeOK ==
  /\ pending \subseteq Sequences
  /\ newest \in Sequences \cup {-1}
  /\ phase \in Phases /\ wifi \in Wifi!Rounds \cup Wifi!Outside
  /\ clock \in BOOLEAN /\ had_clock \in BOOLEAN
  /\ samples \in 0 .. 1
  /\ led \in [status : {"Idle", "Publishing", "Fault"}, fault_phase_on : BOOLEAN]
  /\ lit \in BOOLEAN
  /\ inflight \in Sequences \cup {-1}
  /\ to_broker \subseteq Sequences /\ to_device \in BOOLEAN
  /\ received \subseteq Sequences /\ last_received \in Sequences \cup {-1}
  /\ discarded \subseteq Sequences

(* At least once: a stored reading is still queued, or the broker has it,  *)
(* or a full queue explicitly gave it up.  No timeout, cancellation, power *)
(* loss or late PUBACK makes a reading disappear.                          *)
NothingLostSilently ==
  \A n \in 0 .. newest : n \in pending \cup received \cup discarded

(* The reading whose PUBACK is awaited is the one acknowledge_oldest will  *)
(* retire.                                                                 *)
AwaitedIsOldest == phase = "puback" => IsOldest(inflight)

(* One capture attempt per wake cycle, never without UTC time, and before  *)
(* anything that needs the network when the anchor was already there.      *)
OneSamplePerCycle ==
  /\ phase \in {"capture", "append"} => clock /\ samples = 0
  /\ phase \in Attempting \cup {"refresh", "rejoin"} => samples = 1
  /\ phase = "join" /\ had_clock => samples = 1

(* The LED table of README.md: dark while the radio is down, solid while a *)
(* reading is taken or published, ready to flash in every wait of a        *)
(* recovery, whatever status the phase before left; and idle while awake   *)
(* only when nothing was tried yet or nothing waits.                       *)
LedTellsPhase ==
  /\ phase \in {"off", "asleep", "init"} => ~ lit
  /\ phase \in {"capture", "append", "puback"} => led.status = "Publishing"
  /\ wifi \in {"pausing", "link", "dhcp"} \/ phase = "ntp" => led.status = "Fault"
  /\ phase \in Attempting /\ led.status = "Idle" => pending = {}
  /\ wifi \notin {"joining", "leaving"} => lit = IsOn(led)

(* The broker sees readings in capture order: a duplicate repeats the      *)
(* latest reading, and no older one ever follows a newer one.              *)
OrderedAtBroker == [][last_received' >= last_received]_last_received

(* Outages end: once the power stays on, every queued reading leaves the   *)
(* queue, by delivery or by an explicit discard, although cycles are cut   *)
(* short, attempts fail and waits for the link hang again and again.       *)
StablePower == <>[](phase # "off")

EventuallyLeaves ==
  StablePower => \A n \in Sequences : n \in pending ~> n \notin pending
=============================================================================
