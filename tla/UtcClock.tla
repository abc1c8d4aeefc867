------------------------------ MODULE UtcClock ------------------------------
(***************************************************************************)
(* UTC time in src/src/main.rs, ntp.rs and backoff.rs: an anchor taken     *)
(* from an NTP server, carried by the device's own clock, and refreshed    *)
(* over cycles that may be cut short.  Time is counted in ticks of true    *)
(* UTC since the Unix epoch; the device's clock, power::now(), is true     *)
(* time plus an offset that each sleep may shift by a tick: a tick is the  *)
(* most that SleepClock allows, a millisecond and the skew of the reads.   *)
(* Requests and responses can be lost, late, reordered or unusable.        *)
(***************************************************************************)
EXTENDS Integers

CONSTANTS
  TicksPerSecond,
  EpochOffset,     \* seconds from the NTP epoch to the Unix epoch
  EraSeconds,      \* seconds in an NTP era, 2^32 on the wire
  NtpTimeout,      \* ticks synchronize_clock waits for a response
  Budget,          \* ticks a cycle may be awake
  Interval,        \* ticks between the starts of two cycles
  RefreshPeriod,   \* ticks an anchor is good for
  FirstDelay,      \* INITIAL_RETRY_DELAY_SECS, in ticks
  MaxDelay,        \* MAX_RETRY_DELAY_SECS, in ticks
  MaxRequests,     \* bound: NTP requests in all
  MaxBoots,        \* bound: power losses in all
  Start,           \* the tick of the first boot
  Horizon          \* bound: the last tick of the model

ASSUME ScaleAssumption ==
  /\ TicksPerSecond \in Nat \ {0}
  /\ EpochOffset \in Nat /\ EraSeconds \in Nat /\ EpochOffset < EraSeconds
  /\ NtpTimeout \in Nat /\ NtpTimeout <= Budget

(* A failed refresh waits less than the rest of the interval. *)
ASSUME CadenceAssumption ==
  /\ Budget \in Nat /\ Interval \in Nat \ {0} /\ RefreshPeriod \in Nat
  /\ FirstDelay \in Nat /\ MaxDelay \in Nat /\ FirstDelay <= MaxDelay
  /\ Budget + MaxDelay <= Interval

(* The Unix time of the model fits an era: before the year 2106. *)
ASSUME BoundAssumption ==
  /\ MaxRequests \in Nat /\ MaxBoots \in Nat
  /\ Horizon \in Nat /\ Horizon < EraSeconds * TicksPerSecond
  /\ Start \in 0 .. Horizon

(* The model ends before the sleeps can have shifted the clock by what a   *)
(* cycle sleeps, less two seconds.                                         *)
ASSUME DriftAssumption ==
  /\ 2 * TicksPerSecond <= Interval - Budget
  /\ Horizon - Start <= (Interval - 1) * (Interval - Budget - 2 * TicksPerSecond)

VARIABLES
  now,              \* true time, in ticks
  offset,           \* power::now() less true time
  phase,            \* where in a cycle the device is
  led,              \* the LED is being written, and the operation not polled
  woke,             \* true time at which the cycle began
  next_cycle,       \* the slot of the current cycle, or of the next one
  clock,            \* the anchor of ClockState, or NoClock
  next_refresh_at, delay,   \* the rest of ClockState
  request, sent,    \* the latest NTP request, and when it was sent
  to_server,        \* requests that may still reach the server
  responses,        \* responses that may still reach the device
  boots,            \* power losses so far
  last_stamp,       \* timestamp of the latest reading since boot, or -1
  slept, refreshed  \* history: sleeps since the anchor; it is not the first

cycleVars == <<woke, next_cycle>>
clockVars == <<clock, next_refresh_at, delay>>
exchange  == <<request, sent, to_server, responses>>
history   == <<boots, last_stamp, slept, refreshed>>
vars == <<now, offset, phase, led, woke, next_cycle, clock, next_refresh_at, delay,
          request, sent, to_server, responses, boots, last_stamp, slept, refreshed>>

NoClock == [unix |-> -1, at |-> 0]

(* "pause" and "capture" are only in the cycle of the first synchronization. *)
Awake  == {"init", "join", "resolve", "query", "pause", "capture", "upload"}
Phases == Awake \cup {"asleep"}

Local == now + offset   \* power::now()

HasClock == clock # NoClock

-----------------------------------------------------------------------------
(* ntp.rs.                                                                 *)

(* What a server makes of true time: whole seconds, in a 32-bit field. *)
NtpSeconds(time) == (time \div TicksPerSecond + EpochOffset) % EraSeconds

(* The header fields validate_ntp_response looks at. *)
Synchronized == [whole |-> TRUE, mode |-> 4, leap |-> 0, stratum |-> 1]
Headers ==
  {Synchronized,
   [Synchronized EXCEPT !.whole = FALSE], [Synchronized EXCEPT !.mode = 3],
   [Synchronized EXCEPT !.leap = 3], [Synchronized EXCEPT !.stratum = 0],
   [Synchronized EXCEPT !.stratum = 16]}

(* Faulty: any answer from a synchronized server will do. *)
BadValid(header, originate) ==
  /\ header.whole /\ header.mode = 4 /\ header.leap # 3
  /\ header.stratum \in 1 .. 15

Valid(header, originate) ==
  /\ header.whole
  /\ header.mode = 4
  /\ header.leap # 3
  /\ header.stratum \in 1 .. 15
  /\ originate = request

(* A server that is not synchronized says anything. *)
SecondsIn(r, header) == IF header = Synchronized THEN r.seconds ELSE EraSeconds - 1

(* ntp_to_unix_seconds returns Some: after the era ends, for most of the   *)
(* next one, it does not.                                                  *)
Convertible(seconds) == seconds >= EpochOffset

UnixSeconds(seconds) == seconds - EpochOffset

(* Faulty: counts only the time since this cycle woke, as a clock that     *)
(* stops in sleep would.                                                   *)
BadUnixNow == clock.unix + (now - woke) \div TicksPerSecond

UnixSecondsFromAnchor(unix, elapsed) == unix + elapsed

(* ClockAnchor::unix_now: the time since the anchor in whole seconds. *)
UnixNow == UnixSecondsFromAnchor(clock.unix, (Local - clock.at) \div TicksPerSecond)

-----------------------------------------------------------------------------
Init ==
  /\ now = Start /\ offset = 0
  /\ phase = "init" /\ led = FALSE
  /\ woke = Start /\ next_cycle = Start
  /\ clock = NoClock /\ next_refresh_at = 0 /\ delay = FirstDelay
  /\ request = 0 /\ sent = 0
  /\ to_server = {} /\ responses = {}
  /\ boots = 0 /\ last_stamp = -1 /\ slept = 0 /\ refreshed = FALSE

(* Time passes, and no timer that is polled is left behind. *)
Tick ==
  /\ phase \in Awake
  /\ now < Horizon
  /\ now < woke + Budget
  /\ phase = "query" /\ ~ led => now < sent + NtpTimeout
  /\ now' = now + 1
  /\ UNCHANGED <<offset, phase, led, cycleVars, clockVars, exchange, history>>

-----------------------------------------------------------------------------
(* A cycle.                                                                *)

(* With an anchor the reading comes before the network.  (A reading that   *)
(* fails has no timestamp, and adds nothing here.)                         *)
RadioReady ==
  /\ phase = "init"
  /\ last_stamp' = IF HasClock THEN UnixNow ELSE last_stamp
  /\ phase' = "join"
  /\ UNCHANGED <<now, offset, led, cycleVars, clockVars, exchange, boots, slept, refreshed>>

RefreshDue == Local >= next_refresh_at

WifiUp ==
  /\ phase = "join"
  /\ phase' = IF ~ HasClock \/ RefreshDue THEN "resolve" ELSE "upload"
  /\ UNCHANGED <<now, offset, led, cycleVars, clockVars, exchange, history>>

(* await_with_fault_flash: only the first synchronization blinks the LED,  *)
(* and while a write of it is awaited nothing else of the cycle runs.      *)
FlashLed ==
  /\ phase \in {"resolve", "query", "pause"} /\ ~ HasClock /\ ~ led
  /\ led' = TRUE
  /\ UNCHANGED <<now, offset, phase, cycleVars, clockVars, exchange, history>>

LedWritten ==
  /\ led
  /\ led' = FALSE
  /\ UNCHANGED <<now, offset, phase, cycleVars, clockVars, exchange, history>>

(* The number is the transmit timestamp, which a server gives back. *)
SendRequest(id) == to_server' = to_server \cup {id}

(* resolve_ipv4 has an address; the request goes out under a new number.   *)
Resolved ==
  /\ phase = "resolve" /\ ~ led
  /\ request < MaxRequests
  /\ request' = request + 1
  /\ sent' = now
  /\ SendRequest(request + 1)
  /\ phase' = "query"
  /\ UNCHANGED <<now, offset, led, cycleVars, clockVars, responses, history>>

(* RetryBackoff::next_delay_secs: what it leaves for the next failure. *)
NextDelay == IF 2 * delay < MaxDelay THEN 2 * delay ELSE MaxDelay

(* Faulty: a failed refresh counts as one that succeeded. *)
BadNoAnchor ==
  IF HasClock
  THEN /\ phase' = "upload"
       /\ next_refresh_at' = Local + RefreshPeriod
       /\ delay' = NextDelay
  ELSE /\ phase' = "pause"
       /\ UNCHANGED <<next_refresh_at, delay>>

(* No anchor this time: the refresh is put off, or the first               *)
(* synchronization pauses before it tries again.                           *)
NoAnchor ==
  IF HasClock
  THEN /\ phase' = "upload"
       /\ next_refresh_at' = Local + delay
       /\ delay' = NextDelay
  ELSE /\ phase' = "pause"
       /\ UNCHANGED <<next_refresh_at, delay>>

ResolveFails ==
  /\ phase = "resolve" /\ ~ led
  /\ NoAnchor
  /\ UNCHANGED <<now, offset, led, cycleVars, clock, exchange, history>>

(* RetryBackoff::new and reset. *)
NewBackoff == delay' = FirstDelay

(* ClockState::new, and what refresh_clock does to an old one. *)
NewClock(unix) ==
  /\ clock' = [unix |-> unix, at |-> Local]
  /\ next_refresh_at' = Local + RefreshPeriod
  /\ NewBackoff

(* A first anchor makes a new ClockState and is followed by the cycle's    *)
(* reading; a later one is put into the old ClockState.                    *)
Anchor(unix) ==
  /\ NewClock(unix)
  /\ slept' = 0
  /\ refreshed' = HasClock
  /\ phase' = IF HasClock THEN "upload" ELSE "capture"
  /\ UNCHANGED last_stamp

(* The socket has room for one response, and the first one decides. *)
ResponseArrives ==
  /\ phase = "query" /\ ~ led
  /\ \E r \in responses :
       /\ responses' = responses \ {r}
       /\ \E header \in Headers :
            IF Valid(header, r.originate) /\ Convertible(SecondsIn(r, header))
            THEN Anchor(UnixSeconds(SecondsIn(r, header)))
            ELSE NoAnchor /\ UNCHANGED <<clock, history>>
  /\ UNCHANGED <<now, offset, led, cycleVars, request, sent, to_server, boots>>

NtpTimesOut ==
  /\ phase = "query" /\ ~ led
  /\ now >= sent + NtpTimeout
  /\ NoAnchor
  /\ UNCHANGED <<now, offset, led, cycleVars, clock, exchange, history>>

(* The 10 s that upload_cycle gives a refresh are over: it is dropped with *)
(* ClockState as it was.                                                   *)
RefreshCancelled ==
  /\ phase \in {"resolve", "query"} /\ HasClock
  /\ phase' = "upload"
  /\ UNCHANGED <<now, offset, led, cycleVars, clockVars, exchange, history>>

PauseEnds ==
  /\ phase = "pause" /\ ~ led
  /\ phase' = "resolve"
  /\ UNCHANGED <<now, offset, led, cycleVars, clockVars, exchange, history>>

FirstReading ==
  /\ phase = "capture"
  /\ last_stamp' = UnixNow
  /\ phase' = "upload"
  /\ UNCHANGED <<now, offset, led, cycleVars, clockVars, exchange, boots, slept, refreshed>>

(* The cycle ends by itself, or its budget does it anywhere. *)
CycleEnds ==
  /\ phase \in Awake
  /\ phase = "upload" \/ now >= woke + Budget
  /\ phase' = "asleep"
  /\ led' = FALSE
  /\ next_cycle' = next_cycle + ((Local - next_cycle) \div Interval + 1) * Interval
  /\ UNCHANGED <<now, offset, woke, clockVars, exchange, history>>

Wake ==
  /\ phase = "asleep"
  /\ \E drift \in {-1, 0, 1} :
       /\ offset' = offset + drift
       /\ now' = next_cycle - offset'
  /\ now' <= Horizon
  /\ woke' = now'
  /\ slept' = slept + 1
  /\ phase' = "init"
  /\ UNCHANGED <<led, next_cycle, clockVars, exchange, boots, last_stamp, refreshed>>

(* A reboot knows nothing of the time.  Its power::now() starts at zero;   *)
(* nothing that was measured by the old one is left, so the model keeps    *)
(* the old offset.                                                         *)
PowerLoss ==
  /\ boots < MaxBoots
  /\ boots' = boots + 1
  /\ phase' = "init" /\ led' = FALSE
  /\ woke' = now /\ next_cycle' = Local
  /\ clock' = NoClock /\ next_refresh_at' = 0 /\ delay' = FirstDelay
  /\ last_stamp' = -1 /\ slept' = 0 /\ refreshed' = FALSE
  /\ UNCHANGED <<now, offset, exchange>>

-----------------------------------------------------------------------------
(* The network and the servers.                                            *)

ServerAnswers ==
  /\ \E id \in to_server :
       /\ to_server' = to_server \ {id}
       /\ responses' = responses \cup {[originate |-> id, seconds |-> NtpSeconds(now)]}
  /\ UNCHANGED <<now, offset, phase, led, cycleVars, clockVars, request, sent, history>>

(* Nothing more happens past the bound. *)
PastHorizon ==
  /\ phase = "asleep"
  /\ next_cycle - offset >= Horizon
  /\ UNCHANGED vars

-----------------------------------------------------------------------------
Next ==
  \/ Tick
  \/ RadioReady \/ WifiUp \/ FlashLed \/ LedWritten
  \/ Resolved \/ ResolveFails \/ ResponseArrives \/ NtpTimesOut
  \/ RefreshCancelled \/ PauseEnds \/ FirstReading \/ CycleEnds \/ Wake \/ PowerLoss
  \/ ServerAnswers \/ PastHorizon

Spec == Init /\ [][Next]_vars

-----------------------------------------------------------------------------
(* Correctness.                                                            *)

TypeOK ==
  /\ now \in Nat /\ offset \in Int
  /\ phase \in Phases /\ led \in BOOLEAN
  /\ woke \in Nat /\ next_cycle \in Int
  /\ clock \in [unix : Nat \cup {-1}, at : Int]
  /\ next_refresh_at \in Int /\ delay \in FirstDelay .. MaxDelay
  /\ request \in 0 .. MaxRequests /\ sent \in Nat
  /\ to_server \subseteq 1 .. MaxRequests
  /\ responses \subseteq [originate : 1 .. MaxRequests, seconds : 0 .. EraSeconds - 1]
  /\ boots \in Nat /\ last_stamp \in Int /\ slept \in Nat /\ refreshed \in BOOLEAN

(* How far behind true time a new anchor can be: a refresh waits for its   *)
(* response at most NtpTimeout, but the first synchronization may leave    *)
(* its response unread as long as an LED write takes.                      *)
Lag == IF refreshed THEN NtpTimeout ELSE Budget

(* Application UTC is never ahead of true time by more than the drift of   *)
(* the sleeps since its anchor, nor behind by more than that, the anchor's *)
(* lag and the two roundings to whole seconds.  No late, foreign or        *)
(* unusable response, no end of an NTP era and no dropped refresh makes it *)
(* wrong.                                                                  *)
UtcAccurate ==
  HasClock =>
    /\ UnixNow * TicksPerSecond <= now + slept
    /\ now <= UnixNow * TicksPerSecond + Lag + 2 * (TicksPerSecond - 1) + slept

(* A refresh that failed or was dropped is tried again in the next cycle   *)
(* that has the network: a cycle goes without one only while the anchor is *)
(* fresh.                                                                  *)
StaleIsRefreshed ==
  [][phase = "join" /\ phase' = "upload" => Local < clock.at + RefreshPeriod]_vars

(* Between two boots, each reading's timestamp is above the one before it, *)
(* although a refresh may set the clock back.                              *)
TimestampsIncrease ==
  [][phase = "init" /\ phase' = "join" /\ HasClock => last_stamp' > last_stamp]_vars
=============================================================================
