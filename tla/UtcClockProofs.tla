--------------------------- MODULE UtcClockProofs ---------------------------
(***************************************************************************)
(* Application UTC is accurate, a stale anchor is refreshed and timestamps *)
(* increase, for every scale of the constants.  The invariant relates each *)
(* response to the moment it was made, the anchor to true time, the next   *)
(* refresh to the next cycle, and the latest timestamp to the next one.    *)
(***************************************************************************)
EXTENDS UtcClock, TLAPS

(* A response tells the seconds of some moment up to now; the one to the   *)
(* latest request, of a moment since that was sent.                        *)
MadeAt(r, time) ==
  /\ r.seconds = NtpSeconds(time)
  /\ r.originate = request => sent <= time

NetworkInv ==
  /\ to_server \subseteq 1 .. request
  /\ \A r \in responses :
       /\ r.originate \in 1 .. request
       /\ \E time \in 0 .. now : MadeAt(r, time)

(* The timers: a cycle stays within its budget, and a refresh, which never *)
(* waits for the LED, within the wait for its response.                    *)
TimersInv ==
  /\ sent <= now /\ woke <= now /\ now <= Horizon
  /\ phase \in Awake => now <= woke + Budget /\ next_cycle = woke + offset
  /\ phase = "query" => woke <= sent
  /\ phase = "query" /\ HasClock => now <= sent + NtpTimeout
  /\ phase = "asleep" => next_cycle > Local
  /\ led => ~ HasClock
  /\ phase = "pause" => ~ HasClock

(* How far the anchor, carried to the present, is from true time. *)
Error == clock.unix * TicksPerSecond - clock.at + offset

AnchorInv ==
  HasClock =>
    /\ clock.unix \in Nat
    /\ Error <= slept
    /\ - (Lag + TicksPerSecond - 1 + slept) <= Error

(* A refresh that was put off is due again by the next look at it. *)
PutOff ==
  \/ phase \in {"init", "join", "resolve", "query"} /\ next_refresh_at <= Local
  \/ phase = "upload" /\ next_refresh_at <= next_cycle + Interval
  \/ phase = "asleep" /\ next_refresh_at <= next_cycle

CadenceInv ==
  HasClock => next_refresh_at = clock.at + RefreshPeriod \/ PutOff

IInv == TypeOK /\ NetworkInv /\ TimersInv /\ AnchorInv /\ CadenceInv

USE ScaleAssumption, CadenceAssumption, BoundAssumption

-----------------------------------------------------------------------------
(* Arithmetic. *)

(* Division rounds down by less than the divisor. *)
LEMMA Quotient ==
  ASSUME NEW x \in Int, NEW d \in Nat \ {0}
  PROVE  /\ x \div d \in Int
         /\ (x \div d) * d <= x
         /\ x < (x \div d) * d + d
         /\ x >= 0 => x \div d \in Nat
OBVIOUS

(* Within the era of the model, a time that converts is the time that was  *)
(* sent, and one of the next era does not convert.                         *)
LEMMA Conversion ==
  ASSUME NEW time \in 0 .. Horizon, Convertible(NtpSeconds(time))
  PROVE  UnixSeconds(NtpSeconds(time)) = time \div TicksPerSecond
<1> DEFINE s == time \div TicksPerSecond
<1>1. s \in Nat /\ s * TicksPerSecond <= time
  BY Quotient
<1>2. s < EraSeconds
  <2>1. SUFFICES ASSUME s >= EraSeconds PROVE FALSE
    BY <1>1
  <2>2. s * TicksPerSecond >= EraSeconds * TicksPerSecond
    BY <2>1, <1>1
  <2> QED
    BY <2>2, <1>1
<1> HIDE DEF s
<1>3. CASE s + EpochOffset < EraSeconds
  <2>1. (s + EpochOffset) % EraSeconds = s + EpochOffset
    BY <1>1, <1>3
  <2> QED
    BY <2>1, <1>1 DEF UnixSeconds, NtpSeconds, s
<1>4. CASE s + EpochOffset >= EraSeconds
  <2>1. (s + EpochOffset) % EraSeconds = s + EpochOffset - EraSeconds
    BY <1>1, <1>2, <1>4
  <2>2. NtpSeconds(time) < EpochOffset
    BY <2>1, <1>1, <1>2 DEF NtpSeconds, s
  <2> QED
    BY <2>2, <1>1, <2>1 DEF Convertible, NtpSeconds, s
<1> QED
  BY <1>1, <1>3, <1>4

(* schedule.rs: the next slot is a whole interval or more after this one. *)
LEMMA NextSlotLater ==
  ASSUME NEW slot \in Int, NEW at \in Int, at >= slot
  PROVE  LET next == slot + ((at - slot) \div Interval + 1) * Interval
         IN  next \in Int /\ next >= slot + Interval /\ next > at
<1> DEFINE q == (at - slot) \div Interval
<1>1. q \in Nat /\ q * Interval <= at - slot /\ at - slot < q * Interval + Interval
  BY Quotient
<1> HIDE DEF q
<1>2. (q + 1) * Interval = q * Interval + Interval
  BY <1>1
<1>3. q * Interval >= 0 /\ q * Interval \in Int
  BY <1>1
<1>4. slot + (q + 1) * Interval \in Int /\ slot + (q + 1) * Interval >= slot + Interval
      /\ slot + (q + 1) * Interval > at
  BY <1>1, <1>2, <1>3
<1> QED
  BY <1>4 DEF q

(* The field of a response holds a number of the era. *)
LEMMA FieldType ==
  ASSUME NEW time \in Nat
  PROVE  NtpSeconds(time) \in 0 .. EraSeconds - 1
<1>1. \A x \in Int, d \in Nat \ {0} : x % d \in 0 .. d - 1
  OBVIOUS
<1>2. time \div TicksPerSecond + EpochOffset \in Int
  BY Quotient
<1>3. EraSeconds \in Nat \ {0}
  OBVIOUS
<1> QED
  BY <1>1, <1>2, <1>3 DEF NtpSeconds

(* The retry delay stays between its first value and its cap. *)
LEMMA DelayType ==
  ASSUME TypeOK
  PROVE  NextDelay \in FirstDelay .. MaxDelay
BY DEF TypeOK, NextDelay

-----------------------------------------------------------------------------
(* The steps. *)

LEMMA Initially == Init => IInv
<1> SUFFICES ASSUME Init PROVE IInv
  OBVIOUS
<1>1. ~ HasClock
  BY DEF Init, HasClock
<1>2. TypeOK
  <2>1. clock \in [unix : Nat \cup {-1}, at : Int]
    BY DEF Init, NoClock
  <2>2. to_server \subseteq 1 .. MaxRequests
        /\ responses \subseteq [originate : 1 .. MaxRequests, seconds : 0 .. EraSeconds - 1]
    BY DEF Init
  <2>3. led \in BOOLEAN /\ refreshed \in BOOLEAN
    BY DEF Init
  <2>4. phase \in Phases
    BY DEF Init, Phases, Awake
  <2>5. /\ now = Start /\ offset = 0 /\ woke = Start /\ next_cycle = Start /\ next_refresh_at = 0
        /\ delay = FirstDelay /\ request = 0 /\ sent = 0 /\ boots = 0 /\ last_stamp = -1
        /\ slept = 0
    BY DEF Init
  <2> QED
    BY <2>1, <2>2, <2>3, <2>4, <2>5 DEF TypeOK
<1>3. NetworkInv
  BY DEF Init, NetworkInv
<1>4. TimersInv
  BY <1>1 DEF Init, TimersInv, Local, Awake
<1> QED
  BY <1>1, <1>2, <1>3, <1>4 DEF IInv, AnchorInv, CadenceInv

(* What a step that reads a response leaves, seen from the response. *)
LEMMA Reading ==
  ASSUME IInv, ResponseArrives
  PROVE  \/ /\ NoAnchor
            /\ UNCHANGED <<clock, history>>
         \/ \E time \in 0 .. now :
              /\ sent <= time
              /\ time \div TicksPerSecond \in Nat
              /\ Anchor(time \div TicksPerSecond)
<1>1. PICK r \in responses, header \in Headers :
        IF Valid(header, r.originate) /\ Convertible(SecondsIn(r, header))
        THEN Anchor(UnixSeconds(SecondsIn(r, header)))
        ELSE NoAnchor /\ UNCHANGED <<clock, history>>
  BY DEF ResponseArrives
<1>2. CASE ~ (Valid(header, r.originate) /\ Convertible(SecondsIn(r, header)))
  BY <1>1, <1>2
<1>3. CASE Valid(header, r.originate) /\ Convertible(SecondsIn(r, header))
  <2>1. header = Synchronized
    BY <1>3 DEF Valid, Headers, Synchronized
  <2>2. PICK time \in 0 .. now : MadeAt(r, time)
    BY DEF IInv, NetworkInv
  <2>3. r.originate = request /\ SecondsIn(r, header) = r.seconds
    BY <1>3, <2>1 DEF Valid, SecondsIn
  <2>4. sent <= time /\ time \in 0 .. Horizon /\ r.seconds = NtpSeconds(time)
    BY <2>2, <2>3 DEF MadeAt, IInv, TimersInv, TypeOK
  <2>5. UnixSeconds(r.seconds) = time \div TicksPerSecond
    BY <1>3, <2>3, <2>4, Conversion
  <2>6. time \div TicksPerSecond \in Nat
    BY <2>4, Quotient
  <2>7. Anchor(time \div TicksPerSecond)
    BY <1>1, <1>3, <2>3, <2>5
  <2> QED
    BY <2>4, <2>6, <2>7
<1> QED
  BY <1>2, <1>3

(* Variables keep their types. *)
LEMMA TypeStep ==
  ASSUME IInv, Next
  PROVE  TypeOK'
<1> USE DEF TypeOK, Phases, Awake, cycleVars, clockVars, exchange, history
<1>1. TypeOK /\ Local \in Int
  BY DEF IInv, Local
<1>2. NextDelay \in FirstDelay .. MaxDelay
  BY <1>1, DelayType
<1>3. ASSUME NoAnchor
      PROVE  /\ phase' \in Phases
             /\ next_refresh_at' \in Int
             /\ delay' \in FirstDelay .. MaxDelay
  BY <1>1, <1>2, <1>3 DEF NoAnchor
<1>4. CASE Tick
  BY <1>1, <1>4 DEF Tick
<1>5. CASE RadioReady
  <2>1. HasClock => UnixNow \in Int
    BY <1>1, Quotient DEF UnixNow, UnixSecondsFromAnchor
  <2> QED
    BY <1>1, <1>5, <2>1 DEF RadioReady
<1>17. CASE FirstReading
  <2>1. UnixNow \in Int
    BY <1>1, Quotient DEF UnixNow, UnixSecondsFromAnchor
  <2> QED
    BY <1>1, <1>17, <2>1 DEF FirstReading
<1>6. CASE WifiUp
  BY <1>1, <1>6 DEF WifiUp
<1>7. CASE FlashLed \/ LedWritten
  BY <1>1, <1>7 DEF FlashLed, LedWritten
<1>8. CASE Resolved
  BY <1>1, <1>8 DEF Resolved, SendRequest
<1>9. CASE ResolveFails \/ NtpTimesOut
  BY <1>1, <1>3, <1>9 DEF ResolveFails, NtpTimesOut
<1>10. CASE ResponseArrives
  <2>1. responses' \subseteq responses
        /\ UNCHANGED <<now, offset, led, cycleVars, request, sent, to_server, boots>>
    BY <1>10 DEF ResponseArrives
  <2>2. CASE NoAnchor /\ UNCHANGED <<clock, history>>
    BY <1>1, <1>3, <2>1, <2>2
  <2>3. ASSUME NEW unix \in Nat, Anchor(unix)
        PROVE  TypeOK'
    <3>1. clock' \in [unix : Nat \cup {-1}, at : Int]
      BY <1>1, <2>3 DEF Anchor, NewClock, NewBackoff
    <3>2. HasClock \in BOOLEAN
      BY DEF HasClock
    <3> QED
      BY <1>1, <2>1, <2>3, <3>1, <3>2 DEF Anchor, NewClock, NewBackoff
  <2> QED
    BY <1>10, <2>2, <2>3, Reading
<1>11. CASE RefreshCancelled \/ PauseEnds
  BY <1>1, <1>11 DEF RefreshCancelled, PauseEnds
<1>12. CASE CycleEnds
  <2>1. ((Local - next_cycle) \div Interval + 1) * Interval \in Int
    BY <1>1, Quotient
  <2>2. next_cycle' \in Int
    BY <1>1, <1>12, <2>1 DEF CycleEnds
  <2>3. led' \in BOOLEAN /\ phase' \in Phases
    BY <1>12 DEF CycleEnds
  <2>4. UNCHANGED <<now, offset, woke, clockVars, exchange, history>>
    BY <1>12 DEF CycleEnds
  <2> QED
    BY <1>1, <2>2, <2>3, <2>4
<1>13. CASE Wake
  <2>1. now' >= now
    BY <1>1, <1>13 DEF Wake, IInv, TimersInv, Local
  <2> QED
    BY <1>1, <1>13, <2>1 DEF Wake
<1>14. CASE PowerLoss
  <2>1. clock' \in [unix : Nat \cup {-1}, at : Int]
    BY <1>14 DEF PowerLoss, NoClock
  <2>2. led' \in BOOLEAN /\ refreshed' \in BOOLEAN /\ phase' \in Phases
    BY <1>14 DEF PowerLoss
  <2>3. /\ boots' = boots + 1 /\ woke' = now /\ next_cycle' = Local
        /\ next_refresh_at' = 0 /\ delay' = FirstDelay /\ last_stamp' = -1 /\ slept' = 0
        /\ UNCHANGED <<now, offset, exchange>>
    BY <1>14 DEF PowerLoss
  <2> QED
    BY <1>1, <2>1, <2>2, <2>3
<1>15. CASE ServerAnswers
  <2>1. PICK id \in to_server :
          responses' = responses \cup {[originate |-> id, seconds |-> NtpSeconds(now)]}
    BY <1>15 DEF ServerAnswers
  <2>2. NtpSeconds(now) \in 0 .. EraSeconds - 1
    BY <1>1, FieldType
  <2>3. [originate |-> id, seconds |-> NtpSeconds(now)]
          \in [originate : 1 .. MaxRequests, seconds : 0 .. EraSeconds - 1]
    BY <1>1, <2>2
  <2>4. to_server' \subseteq to_server
        /\ UNCHANGED <<now, offset, phase, led, cycleVars, clockVars, request, sent, history>>
    BY <1>15 DEF ServerAnswers
  <2> QED
    BY <1>1, <2>1, <2>3, <2>4
<1>16. CASE PastHorizon
  BY <1>1, <1>16 DEF PastHorizon, vars
<1> QED
  BY <1>4, <1>5, <1>6, <1>7, <1>8, <1>9, <1>10, <1>11, <1>12, <1>13, <1>14, <1>15,
     <1>16, <1>17 DEF Next

(* Responses keep telling a moment of the past. *)
LEMMA NetworkStep ==
  ASSUME IInv, Next
  PROVE  NetworkInv'
<1> USE DEF NetworkInv, MadeAt, NtpSeconds, cycleVars, clockVars, exchange, history
<1>1. TypeOK /\ NetworkInv /\ sent <= now
  BY DEF IInv, TimersInv
<1>2. ASSUME responses' \subseteq responses, UNCHANGED <<to_server, request, sent>>,
             now' \in Nat, now <= now'
      PROVE  NetworkInv'
  <2>1. \A time \in 0 .. now : time \in 0 .. now'
    BY <1>1, <1>2 DEF TypeOK
  <2> QED
    BY <1>1, <1>2, <2>1
<1>3. CASE Tick
  BY <1>1, <1>2, <1>3 DEF Tick, TypeOK
<1>4. CASE RadioReady \/ WifiUp \/ FlashLed \/ LedWritten \/ ResolveFails \/ NtpTimesOut
           \/ RefreshCancelled \/ PauseEnds \/ FirstReading \/ CycleEnds \/ PowerLoss \/ PastHorizon
  BY <1>1, <1>2, <1>4 DEF RadioReady, WifiUp, FlashLed, LedWritten, ResolveFails, NtpTimesOut,
     RefreshCancelled, PauseEnds, FirstReading, CycleEnds, PowerLoss, PastHorizon, vars, TypeOK
<1>5. CASE ResponseArrives
  BY <1>1, <1>2, <1>5 DEF ResponseArrives, TypeOK
<1>6. CASE Resolved
  <2>1. request' = request + 1 /\ UNCHANGED <<now, responses>>
        /\ to_server' = to_server \cup {request'}
    BY <1>6 DEF Resolved, SendRequest
  <2>2. \A r \in responses : r.originate # request'
    BY <1>1, <2>1 DEF TypeOK
  <2>3. 1 .. request \subseteq 1 .. request' /\ request' \in 1 .. request'
    BY <1>1, <2>1 DEF TypeOK
  <2> QED
    BY <1>1, <2>1, <2>2, <2>3
<1>7. CASE Wake
  <2>1. now' \in Nat /\ now <= now'
    BY <1>7, TypeStep DEF Wake, IInv, TimersInv, Local, TypeOK
  <2> QED
    BY <1>2, <1>7, <2>1 DEF Wake
<1>8. CASE ServerAnswers
  <2>1. PICK id \in to_server :
          /\ responses' = responses \cup {[originate |-> id, seconds |-> NtpSeconds(now)]}
          /\ to_server' = to_server \ {id}
    BY <1>8 DEF ServerAnswers
  <2>2. UNCHANGED <<now, request, sent>>
    BY <1>8 DEF ServerAnswers
  <2>3. now \in 0 .. now
    BY <1>1 DEF TypeOK
  <2>4. id \in 1 .. request
    BY <1>1
  <2> QED
    BY <1>1, <2>1, <2>2, <2>3, <2>4
<1> QED
  BY <1>3, <1>4, <1>5, <1>6, <1>7, <1>8 DEF Next

(* The timers hold, and the next slot is where the cycle's sleep ends. *)
LEMMA TimersStep ==
  ASSUME IInv, Next
  PROVE  TimersInv'
<1> USE DEF TimersInv, TypeOK, Local, HasClock, Awake, cycleVars, clockVars, exchange, history
<1>1. TypeOK /\ TypeOK' /\ TimersInv
  BY TypeStep DEF IInv
<1>2. NoAnchor => /\ phase' \in {"upload", "pause"}
                  /\ phase' = "pause" => ~ HasClock
  BY DEF NoAnchor
<1>3. CASE Tick
  BY <1>1, <1>3 DEF Tick
<1>4. CASE RadioReady
  BY <1>1, <1>4 DEF RadioReady
<1>5. CASE WifiUp
  BY <1>1, <1>5 DEF WifiUp
<1>6. CASE FlashLed
  BY <1>1, <1>6 DEF FlashLed
<1>7. CASE LedWritten
  BY <1>1, <1>7 DEF LedWritten
<1>8. CASE Resolved
  BY <1>1, <1>8 DEF Resolved
<1>9. CASE ResolveFails
  BY <1>1, <1>2, <1>9 DEF ResolveFails
<1>10. CASE NtpTimesOut
  BY <1>1, <1>2, <1>10 DEF NtpTimesOut
<1>11. CASE ResponseArrives
  <2>1. phase = "query" /\ ~ led
        /\ UNCHANGED <<now, offset, led, cycleVars, request, sent>>
    BY <1>11 DEF ResponseArrives
  <2>2. phase' \in {"upload", "capture"} \/ (phase' = "pause" /\ ~ HasClock')
    BY <1>2, <1>11, Reading DEF Anchor, NewClock, NewBackoff
  <2>3. ~ led'
    BY <2>1
  <2> QED
    BY <1>1, <2>1, <2>2, <2>3
<1>12. CASE RefreshCancelled
  BY <1>1, <1>12 DEF RefreshCancelled
<1>13. CASE PauseEnds
  BY <1>1, <1>13 DEF PauseEnds
<1>19. CASE FirstReading
  BY <1>1, <1>19 DEF FirstReading
<1>14. CASE CycleEnds
  <2>1. Local >= next_cycle
    BY <1>1, <1>14 DEF CycleEnds
  <2>2. next_cycle' > Local'
    BY <1>1, <1>14, <2>1, NextSlotLater DEF CycleEnds
  <2>3. phase' = "asleep" /\ ~ led'
        /\ UNCHANGED <<now, offset, woke, clockVars, exchange, history>>
    BY <1>14 DEF CycleEnds
  <2> QED
    BY <1>1, <2>2, <2>3
<1>15. CASE Wake
  BY <1>1, <1>15 DEF Wake
<1>16. CASE PowerLoss
  <2>1. phase' = "init" /\ ~ led' /\ clock' = NoClock
    BY <1>16 DEF PowerLoss
  <2>2. woke' = now /\ next_cycle' = now + offset /\ UNCHANGED <<now, offset, sent>>
    BY <1>16 DEF PowerLoss
  <2> QED
    BY <1>1, <2>1, <2>2
<1>17. CASE ServerAnswers
  BY <1>1, <1>17 DEF ServerAnswers
<1>18. CASE PastHorizon
  BY <1>1, <1>18 DEF PastHorizon, vars
<1> QED
  BY <1>3, <1>4, <1>5, <1>6, <1>7, <1>8, <1>9, <1>10, <1>11, <1>12, <1>13, <1>14, <1>15,
     <1>16, <1>17, <1>18, <1>19 DEF Next

(* Only a new anchor, a sleep and a reboot change how far UTC is off. *)
LEMMA AnchorStep ==
  ASSUME IInv, Next
  PROVE  AnchorInv'
<1> USE DEF TypeOK, cycleVars, clockVars, exchange, history
<1>1. TypeOK /\ TypeOK' /\ TimersInv /\ AnchorInv
  BY TypeStep DEF IInv
<1>2. ASSUME UNCHANGED <<clock, offset, slept, refreshed>>
      PROVE  AnchorInv'
  BY <1>1, <1>2 DEF AnchorInv, Error, Lag, HasClock
<1>3. CASE \/ Tick \/ RadioReady \/ WifiUp \/ FlashLed \/ LedWritten \/ Resolved
           \/ ResolveFails \/ NtpTimesOut \/ RefreshCancelled \/ PauseEnds \/ FirstReading \/ CycleEnds
           \/ ServerAnswers \/ PastHorizon
  BY <1>2, <1>3 DEF Tick, RadioReady, WifiUp, FlashLed, LedWritten, Resolved, ResolveFails,
     NtpTimesOut, RefreshCancelled, PauseEnds, FirstReading, CycleEnds, ServerAnswers, PastHorizon, vars
<1>4. CASE ResponseArrives
  <2>1. UNCHANGED offset /\ phase = "query" /\ ~ led
    BY <1>4 DEF ResponseArrives
  <2>2. CASE UNCHANGED <<clock, history>>
    BY <1>2, <2>1, <2>2
  <2>3. ASSUME NEW time \in 0 .. now, sent <= time, Anchor(time \div TicksPerSecond),
               time \div TicksPerSecond \in Nat
        PROVE  AnchorInv'
    <3> DEFINE s == time \div TicksPerSecond
    <3>1. s \in Nat /\ s * TicksPerSecond \in Int
          /\ s * TicksPerSecond <= time /\ time < s * TicksPerSecond + TicksPerSecond
      BY <1>1, <2>3, Quotient
    <3>2. clock'.unix = s /\ clock'.at = now + offset /\ slept' = 0 /\ refreshed' = HasClock
      BY <2>3 DEF Anchor, NewClock, NewBackoff, Local
    <3>3. now - sent <= Lag'
      BY <1>1, <2>1, <3>2 DEF TimersInv, Lag, Awake
    <3> HIDE DEF s
    <3>4. Error' = s * TicksPerSecond - now
      BY <1>1, <2>1, <3>1, <3>2 DEF Error
    <3>5. Lag' \in Nat
      BY DEF Lag
    <3> DEFINE p == s * TicksPerSecond
    <3>6. p \in Int /\ p <= time /\ time < p + TicksPerSecond /\ Error' = p - now
      BY <3>1, <3>4
    <3> HIDE DEF p
    <3>7. Error' <= 0 /\ - (Lag' + TicksPerSecond - 1) <= Error'
      <4>1. now \in Nat /\ sent \in Nat /\ time \in Nat /\ time <= now /\ sent <= time
        BY <1>1, <2>3
      <4>2. p - now <= 0
        BY <3>6, <4>1
      <4>3. \A lag \in Nat : now - sent <= lag => - (lag + TicksPerSecond - 1) <= p - now
        BY <3>6, <4>1
      <4>4. - (Lag' + TicksPerSecond - 1) <= p - now
        BY <3>3, <3>5, <4>3
      <4> QED
        BY <3>6, <4>2, <4>4
    <3>8. clock'.unix \in Nat /\ slept' = 0 /\ Error' \in Int
      BY <1>1, <3>1, <3>2, <3>6
    <3>9. Error' <= slept'
      BY <3>7, <3>8
    <3>10. Lag' + TicksPerSecond - 1 + slept' = Lag' + TicksPerSecond - 1
      BY <3>5, <3>8
    <3>11. - (Lag' + TicksPerSecond - 1 + slept') <= Error'
      BY <3>7, <3>10
    <3> QED
      BY <3>8, <3>9, <3>11 DEF AnchorInv
  <2> QED
    BY <1>4, <2>2, <2>3, Reading
<1>5. CASE Wake
  <2>1. UNCHANGED <<clock, refreshed>> /\ slept' = slept + 1
    BY <1>5 DEF Wake
  <2>2. PICK drift \in {-1, 0, 1} : offset' = offset + drift
    BY <1>5 DEF Wake
  <2>3. HasClock' = HasClock /\ Lag' = Lag /\ Lag \in Nat
    BY <2>1 DEF HasClock, Lag
  <2>4. HasClock => clock.unix * TicksPerSecond \in Int /\ Error' = Error + drift /\ Error \in Int
    BY <1>1, <2>1, <2>2 DEF Error, AnchorInv
  <2> QED
    BY <1>1, <2>1, <2>2, <2>3, <2>4 DEF AnchorInv
<1>6. CASE PowerLoss
  BY <1>6 DEF PowerLoss, AnchorInv, HasClock
<1> QED
  BY <1>3, <1>4, <1>5, <1>6 DEF Next

(* What was put off is due by the next look. *)
LEMMA CadenceStep ==
  ASSUME IInv, Next
  PROVE  CadenceInv'
<1> USE DEF TypeOK, Local, HasClock, Awake, cycleVars, clockVars, exchange, history
<1>1. TypeOK /\ TypeOK' /\ TimersInv /\ CadenceInv
  BY TypeStep DEF IInv
<1>2. ASSUME NoAnchor, UNCHANGED <<clock, offset, now, next_cycle, woke>>, phase \in Awake
      PROVE  CadenceInv'
  BY <1>1, <1>2 DEF NoAnchor, TimersInv, CadenceInv, PutOff
<1>3. CASE Tick
  BY <1>1, <1>3 DEF Tick, CadenceInv, PutOff
<1>4. CASE RadioReady
  BY <1>1, <1>4 DEF RadioReady, CadenceInv, PutOff
<1>5. CASE WifiUp
  BY <1>1, <1>5 DEF WifiUp, RefreshDue, CadenceInv, PutOff
<1>6. CASE FlashLed \/ LedWritten \/ ServerAnswers \/ PastHorizon
  BY <1>1, <1>6 DEF FlashLed, LedWritten, ServerAnswers, PastHorizon, vars, CadenceInv, PutOff
<1>7. CASE Resolved
  BY <1>1, <1>7 DEF Resolved, CadenceInv, PutOff
<1>8. CASE ResolveFails \/ NtpTimesOut
  BY <1>2, <1>8 DEF ResolveFails, NtpTimesOut
<1>9. CASE ResponseArrives
  <2>1. UNCHANGED <<offset, now, next_cycle, woke>> /\ phase \in Awake
    BY <1>9 DEF ResponseArrives
  <2>2. ASSUME NEW unix \in Nat, Anchor(unix)
        PROVE  CadenceInv'
    BY <2>2 DEF Anchor, NewClock, NewBackoff, CadenceInv
  <2> QED
    BY <1>2, <1>9, <2>1, <2>2, Reading
<1>10. CASE RefreshCancelled
  BY <1>1, <1>10 DEF RefreshCancelled, CadenceInv, PutOff, TimersInv
<1>11. CASE PauseEnds
  BY <1>1, <1>11 DEF PauseEnds, CadenceInv, PutOff
<1>15. CASE FirstReading
  BY <1>1, <1>15 DEF FirstReading, CadenceInv, PutOff
<1>12. CASE CycleEnds
  <2>1. Local >= next_cycle /\ phase \in Awake
    BY <1>1, <1>12 DEF CycleEnds, TimersInv
  <2>2. next_cycle' >= next_cycle + Interval
    <3>1. next_cycle \in Int /\ Local \in Int
      BY <1>1
    <3>2. next_cycle' = next_cycle + ((Local - next_cycle) \div Interval + 1) * Interval
      BY <1>12 DEF CycleEnds
    <3> HIDE DEF Local
    <3> QED
      BY <2>1, <3>1, <3>2, NextSlotLater
  <2>3. phase' = "asleep" /\ UNCHANGED <<clock, next_refresh_at>>
    BY <1>12 DEF CycleEnds
  <2>4. CASE next_refresh_at = clock.at + RefreshPeriod
    BY <2>3, <2>4 DEF CadenceInv
  <2>5. CASE HasClock /\ PutOff
    <3>1. next_refresh_at <= next_cycle + Interval
      <4>1. now <= woke + Budget /\ next_cycle = woke + offset
        BY <1>1, <2>1 DEF TimersInv
      <4> QED
        BY <1>1, <2>1, <2>5, <4>1 DEF PutOff
    <3>2. next_refresh_at' <= next_cycle'
      BY <1>1, <2>2, <2>3, <3>1
    <3> QED
      BY <2>3, <3>2 DEF CadenceInv, PutOff
  <2> QED
    BY <1>1, <2>3, <2>4, <2>5 DEF CadenceInv
<1>13. CASE Wake
  BY <1>1, <1>13 DEF Wake, CadenceInv, PutOff
<1>14. CASE PowerLoss
  BY <1>14 DEF PowerLoss, CadenceInv
<1> QED
  BY <1>3, <1>4, <1>5, <1>6, <1>7, <1>8, <1>9, <1>10, <1>11, <1>12, <1>13, <1>14,
     <1>15 DEF Next

LEMMA Inductive == IInv /\ [Next]_vars => IInv'
<1>1. CASE IInv /\ Next
  BY <1>1, TypeStep, NetworkStep, TimersStep, AnchorStep, CadenceStep DEF IInv
<1>2. CASE IInv /\ UNCHANGED vars
  BY <1>2 DEF vars, cycleVars, clockVars, exchange, history, IInv, TypeOK, NetworkInv, MadeAt,
     NtpSeconds, TimersInv, AnchorInv, Error, Lag, CadenceInv, PutOff, HasClock, Local
<1> QED
  BY <1>1, <1>2

LEMMA Invariance == Spec => []IInv
BY Initially, Inductive, PTL DEF Spec

-----------------------------------------------------------------------------
(* Variables keep their types; in particular an anchor is never before the *)
(* Unix epoch, which ntp_to_unix_seconds checks.                           *)
THEOREM TypeCorrect == Spec => []TypeOK
<1>1. IInv => TypeOK
  BY DEF IInv
<1> QED
  BY <1>1, Invariance, PTL

(* UTC is the anchor's error away from true time, and rounded down. *)
LEMMA WithinDrift ==
  ASSUME IInv, HasClock
  PROVE  /\ UnixNow * TicksPerSecond <= now + slept
         /\ now <= UnixNow * TicksPerSecond + Lag + 2 * (TicksPerSecond - 1) + slept
<1>1. TypeOK /\ AnchorInv
  BY DEF IInv
<1> DEFINE x == Local - clock.at
           q == x \div TicksPerSecond
<1>2. x \in Int /\ clock.unix \in Nat /\ Lag \in Nat /\ slept \in Nat /\ now \in Nat
  BY <1>1 DEF TypeOK, AnchorInv, Local, Lag
<1>3. q \in Int /\ q * TicksPerSecond <= x /\ x < q * TicksPerSecond + TicksPerSecond
  BY <1>2, Quotient
<1>4. clock.unix * TicksPerSecond + x = Error + now
      /\ clock.unix * TicksPerSecond \in Int
  BY <1>1, <1>2 DEF Error, Local, TypeOK
<1>5. Error <= slept /\ - (Lag + TicksPerSecond - 1 + slept) <= Error /\ Error \in Int
  BY <1>1, <1>2 DEF AnchorInv, Error, TypeOK
<1> HIDE DEF x, q
<1>6. (clock.unix + q) * TicksPerSecond
        = clock.unix * TicksPerSecond + q * TicksPerSecond
  BY <1>2, <1>3
<1>7. q * TicksPerSecond \in Int
  BY <1>3
<1>8. /\ (clock.unix + q) * TicksPerSecond <= now + slept
      /\ now <= (clock.unix + q) * TicksPerSecond + Lag + 2 * (TicksPerSecond - 1) + slept
  BY <1>2, <1>3, <1>4, <1>5, <1>6, <1>7
<1> QED
  BY <1>8 DEF UnixNow, UnixSecondsFromAnchor, q, x

(* Application UTC stays within the drift of its sleeps, its anchor's lag  *)
(* and two roundings of true time, whatever the network and the servers    *)
(* do: unix_now, synchronize_clock and validate_ntp_response.              *)
THEOREM UtcCorrect == Spec => []UtcAccurate
<1>1. IInv => UtcAccurate
  BY WithinDrift DEF UtcAccurate
<1> QED
  BY <1>1, Invariance, PTL

(* A cycle that has the network skips the refresh only with a fresh        *)
(* anchor: neither the backoff nor a dropped refresh_clock puts it off     *)
(* beyond the next cycle.                                                  *)
THEOREM RefreshCorrect == Spec => StaleIsRefreshed
<1>1. ASSUME IInv, Next, phase = "join", phase' = "upload"
      PROVE  Local < clock.at + RefreshPeriod
  <2>1. WifiUp
    BY <1>1 DEF Next, Tick, RadioReady, FlashLed, LedWritten, Resolved, ResolveFails,
       ResponseArrives, NtpTimesOut, RefreshCancelled, PauseEnds, FirstReading, CycleEnds, Wake, PowerLoss,
       ServerAnswers, PastHorizon, vars
  <2>2. HasClock /\ Local < next_refresh_at
    BY <1>1, <2>1 DEF WifiUp, RefreshDue, IInv, TypeOK, Local
  <2> QED
    BY <1>1, <2>2 DEF IInv, CadenceInv, PutOff, TypeOK, Local
<1>2. IInv /\ [Next]_vars =>
        [phase = "join" /\ phase' = "upload" => Local < clock.at + RefreshPeriod]_vars
  BY <1>1 DEF vars
<1> QED
  BY <1>2, Invariance, PTL DEF Spec, StaleIsRefreshed

-----------------------------------------------------------------------------
(* Timestamps.                                                             *)

(* The clock's reading when the device's own time is local. *)
UnixAt(local) == clock.unix + (local - clock.at) \div TicksPerSecond

(* Sleeps are at least an interval apart, less what they shift the clock.  *)
SleptInv ==
  /\ Start <= woke /\ slept * (Interval - 1) <= woke - Start
  /\ phase = "asleep" => next_cycle >= woke + offset + Interval

(* The latest timestamp is below what the clock will read in the next      *)
(* cycle; and until a refresh can replace the anchor, it is ahead of true  *)
(* time by the drift at most.                                              *)
StampInv ==
  /\ ~ HasClock => last_stamp = -1
  /\ phase = "capture" => HasClock /\ last_stamp = -1
  /\ HasClock => clock.at <= Local
  /\ HasClock /\ phase \in {"init", "asleep"} => last_stamp < UnixAt(next_cycle)
  /\ HasClock /\ phase \in {"join", "resolve", "query", "upload"} =>
       last_stamp < UnixAt(next_cycle + Interval)
  /\ HasClock /\ phase \in {"join", "resolve"} => last_stamp * TicksPerSecond <= now + slept
  /\ HasClock /\ phase = "query" => last_stamp * TicksPerSecond <= sent + slept

(* Division is monotone, and strictly so over a divisor. *)
LEMMA LaterQuotient ==
  ASSUME NEW x \in Int, NEW y \in Int, NEW d \in Nat \ {0}, x <= y
  PROVE  /\ x \div d <= y \div d
         /\ x + d <= y => x \div d < y \div d
<1> DEFINE p == x \div d
           q == y \div d
<1>1. p \in Int /\ p * d <= x /\ q \in Int /\ y < q * d + d
  BY Quotient
<1> HIDE DEF p, q
<1>2. \A k \in Nat : k * d >= 0 /\ k * d \in Nat
  OBVIOUS
<1>3. p <= q
  <2> SUFFICES ASSUME p > q PROVE FALSE
    BY <1>1
  <2> DEFINE k == p - q - 1
  <2>1. k \in Nat /\ p = q + 1 + k
    BY <1>1
  <2> HIDE DEF k
  <2>2. p * d = q * d + d + k * d /\ q * d \in Int
    BY <1>1, <2>1
  <2> QED
    BY <1>1, <1>2, <2>2
<1>4. ASSUME x + d <= y
      PROVE  p < q
  <2> SUFFICES ASSUME p >= q PROVE FALSE
    BY <1>1
  <2> DEFINE k == p - q
  <2>1. k \in Nat /\ p = q + k
    BY <1>1
  <2> HIDE DEF k
  <2>2. p * d = q * d + k * d /\ q * d \in Int
    BY <1>1, <2>1
  <2> QED
    BY <1>1, <1>2, <1>4, <2>2
<1> QED
  BY <1>3, <1>4 DEF p, q

(* What the clock will read in the next cycle, after any step. *)
LEMMA UnixAfterStep ==
  UnixAt(next_cycle + Interval)'
    = clock'.unix + ((next_cycle' + Interval) - clock'.at) \div TicksPerSecond
BY DEF UnixAt

LEMMA LaterUnix ==
  ASSUME TypeOK, AnchorInv, HasClock, NEW x \in Int, NEW y \in Int, x <= y
  PROVE  /\ UnixAt(x) \in Int /\ UnixAt(x) <= UnixAt(y)
         /\ x + TicksPerSecond <= y => UnixAt(x) < UnixAt(y)
<1> DEFINE p == (x - clock.at) \div TicksPerSecond
           q == (y - clock.at) \div TicksPerSecond
<1>1. clock.unix \in Nat /\ clock.at \in Int
  BY DEF TypeOK, AnchorInv
<1> DEFINE a == x - clock.at
           b == y - clock.at
<1>2. p \in Int /\ q \in Int /\ p <= q /\ (x + TicksPerSecond <= y => p < q)
  <2>1. a \in Int /\ b \in Int /\ a <= b /\ (x + TicksPerSecond <= y => a + TicksPerSecond <= b)
    BY <1>1
  <2> HIDE DEF a, b
  <2>2. /\ a \div TicksPerSecond \in Int /\ b \div TicksPerSecond \in Int
        /\ a \div TicksPerSecond <= b \div TicksPerSecond
        /\ a + TicksPerSecond <= b => a \div TicksPerSecond < b \div TicksPerSecond
    BY <2>1, Quotient, LaterQuotient
  <2> QED
    BY <2>1, <2>2 DEF a, b
<1>3. UnixAt(x) = clock.unix + p /\ UnixAt(y) = clock.unix + q
  BY DEF UnixAt
<1> HIDE DEF p, q
<1> QED
  BY <1>1, <1>2, <1>3

LEMMA StampInitially == Init => SleptInv /\ StampInv
BY DEF Init, SleptInv, StampInv, HasClock

LEMMA SleptStep ==
  ASSUME IInv, SleptInv, Next
  PROVE  SleptInv'
<1> USE DEF TypeOK, SleptInv, cycleVars, clockVars, exchange, history
<1>1. TypeOK /\ TypeOK' /\ TimersInv
  BY TypeStep DEF IInv
<1>2. ASSUME UNCHANGED <<slept, woke, next_cycle, offset>>, phase' = "asleep" => phase = "asleep"
      PROVE  SleptInv'
  BY <1>2
<1>3. CASE Tick \/ RadioReady \/ WifiUp \/ FlashLed \/ LedWritten \/ Resolved \/ RefreshCancelled
           \/ PauseEnds \/ FirstReading \/ ServerAnswers \/ PastHorizon
  BY <1>2, <1>3 DEF Tick, RadioReady, WifiUp, FlashLed, LedWritten, Resolved, RefreshCancelled,
     PauseEnds, FirstReading, ServerAnswers, PastHorizon, vars
<1>4. CASE ResolveFails \/ NtpTimesOut
  BY <1>2, <1>4 DEF ResolveFails, NtpTimesOut, NoAnchor
<1>5. CASE ResponseArrives
  <2>1. UNCHANGED <<woke, next_cycle, offset>>
    BY <1>5 DEF ResponseArrives
  <2>2. CASE NoAnchor /\ UNCHANGED <<clock, history>>
    BY <1>2, <2>1, <2>2 DEF NoAnchor
  <2>3. ASSUME NEW unix \in Nat, Anchor(unix)
        PROVE  SleptInv'
    <3>1. slept' = 0 /\ phase' # "asleep"
      BY <2>3 DEF Anchor
    <3> QED
      BY <1>1, <2>1, <3>1
  <2> QED
    BY <1>5, <2>2, <2>3, Reading
<1>6. CASE CycleEnds
  <2>1. phase \in Awake /\ next_cycle = woke + offset /\ Local >= next_cycle
    BY <1>1, <1>6 DEF CycleEnds, TimersInv, Local
  <2>2. next_cycle' >= next_cycle + Interval
    <3>1. next_cycle \in Int /\ Local \in Int
      BY <1>1 DEF Local
    <3>2. next_cycle' = next_cycle + ((Local - next_cycle) \div Interval + 1) * Interval
      BY <1>6 DEF CycleEnds
    <3> HIDE DEF Local
    <3> QED
      BY <2>1, <3>1, <3>2, NextSlotLater
  <2>3. UNCHANGED <<slept, woke, offset>>
    BY <1>6 DEF CycleEnds
  <2> QED
    BY <1>1, <2>1, <2>2, <2>3
<1>7. CASE Wake
  <2>1. PICK drift \in {-1, 0, 1} : now' = next_cycle - (offset + drift)
    BY <1>7 DEF Wake
  <2>2. phase = "asleep" /\ phase' = "init" /\ slept' = slept + 1 /\ woke' = now'
    BY <1>7 DEF Wake
  <2>3. woke' >= woke + Interval - 1
    BY <1>1, <2>1, <2>2
  <2>4. slept' * (Interval - 1) = slept * (Interval - 1) + (Interval - 1)
        /\ slept * (Interval - 1) \in Int
    BY <1>1, <2>2
  <2>5. \A later \in Nat, product \in Int :
           later >= woke + Interval - 1 /\ product <= woke - Start
             => Start <= later /\ product + (Interval - 1) <= later - Start
    BY <1>1
  <2>6. Start <= woke' /\ slept * (Interval - 1) + (Interval - 1) <= woke' - Start
    <3>1. woke' \in Nat /\ slept * (Interval - 1) <= woke - Start
      BY <1>1
    <3> HIDE DEF TypeOK, SleptInv
    <3> QED
      BY <2>3, <2>4, <2>5, <3>1, Zenon
  <2> QED
    BY <2>2, <2>4, <2>6
<1>8. CASE PowerLoss
  <2>1. slept' = 0 /\ phase' = "init" /\ woke' = now
    BY <1>8 DEF PowerLoss
  <2>2. Start <= now /\ 0 * (Interval - 1) <= now - Start
    BY <1>1 DEF TimersInv
  <2> QED
    BY <2>1, <2>2
<1> QED
  BY <1>3, <1>4, <1>5, <1>6, <1>7, <1>8 DEF Next

(* All sleeps together shift the clock by less than DriftAssumption says. *)
LEMMA SleptBound ==
  ASSUME IInv, SleptInv
  PROVE  slept <= Interval - Budget - 2 * TicksPerSecond
<1> DEFINE room == Interval - Budget - 2 * TicksPerSecond
           gap  == Interval - 1
<1>1. slept \in Nat /\ slept * gap <= Horizon - Start
  <2>1. woke \in Nat /\ now \in Nat /\ woke <= now /\ now <= Horizon /\ slept \in Nat
    BY DEF IInv, TypeOK, TimersInv
  <2>2. slept * gap \in Int /\ slept * gap <= woke - Start
    BY <2>1 DEF SleptInv
  <2> QED
    BY <2>1, <2>2
<1>2. room \in Nat /\ gap \in Nat \ {0} /\ Horizon - Start <= gap * room
  BY DriftAssumption
<1> HIDE DEF room, gap
<1> SUFFICES ASSUME slept > room PROVE FALSE
  BY <1>1, <1>2 DEF room
<1> DEFINE k == slept - room - 1
<1>3. k \in Nat /\ slept = room + 1 + k
  BY <1>1, <1>2
<1> HIDE DEF k
<1>4. slept * gap = gap * room + gap + k * gap /\ k * gap \in Nat /\ gap * room \in Nat
  BY <1>2, <1>3
<1> QED
  BY <1>1, <1>2, <1>4

(* A new anchor cannot take the clock back by as much as a cycle sleeps:   *)
(* its server looked at the time after the latest reading.                 *)
LEMMA RefreshKeepsOrder ==
  ASSUME IInv, SleptInv, StampInv, HasClock, phase = "query",
         NEW time \in 0 .. now, sent <= time
  PROVE  last_stamp < time \div TicksPerSecond
                        + ((next_cycle + Interval) - Local) \div TicksPerSecond
<1> DEFINE s == time \div TicksPerSecond
           x == (next_cycle + Interval) - Local
           d == x \div TicksPerSecond
           T == TicksPerSecond
<1>1. TypeOK /\ TimersInv
  BY DEF IInv
<1>2. x \in Int /\ Interval - Budget <= x
  BY <1>1 DEF TypeOK, TimersInv, Local, Awake
<1>3. /\ s \in Int /\ time < s * T + T
      /\ d \in Int /\ x < d * T + T
  BY <1>2, Quotient
<1>4. last_stamp * T <= sent + slept
  BY DEF StampInv
<1>5. /\ slept <= Interval - Budget - 2 * T
      /\ last_stamp \in Int /\ sent \in Nat /\ slept \in Nat /\ time \in Nat /\ T \in Nat \ {0}
  BY <1>1, SleptBound DEF TypeOK
<1> HIDE DEF s, x, d, T
<1>6. last_stamp * T < s * T + d * T
  <2> DEFINE l == last_stamp * T
             p == s * T
             q == d * T
  <2>1. l \in Int /\ p \in Int /\ q \in Int
    BY <1>3, <1>5
  <2>2. l <= sent + slept /\ time < p + T /\ x < q + T
    BY <1>3, <1>4
  <2> HIDE DEF l, p, q
  <2>3. l < p + q
    BY <1>2, <1>5, <2>1, <2>2
  <2> QED
    BY <2>3 DEF l, p, q
<1>7. last_stamp < s + d
  <2> SUFFICES ASSUME last_stamp >= s + d PROVE FALSE
    BY <1>3, <1>5
  <2> DEFINE k == last_stamp - s - d
  <2>1. k \in Nat /\ last_stamp = s + d + k
    BY <1>3, <1>5
  <2> HIDE DEF k
  <2>2. last_stamp * T = s * T + d * T + k * T /\ k * T \in Nat
    BY <1>3, <1>5, <2>1
  <2>3. s * T \in Int /\ d * T \in Int
    BY <1>3, <1>5
  <2> QED
    BY <1>6, <2>2, <2>3
<1> QED
  BY <1>7 DEF s, d, x

LEMMA StampStep ==
  ASSUME IInv, SleptInv, StampInv, Next
  PROVE  StampInv'
<1> USE DEF cycleVars, clockVars, exchange, history
<1>1. /\ TypeOK /\ TypeOK' /\ TimersInv /\ AnchorInv
      /\ Local \in Int /\ next_cycle \in Int /\ now \in Nat /\ sent \in Nat /\ slept \in Nat
      /\ last_stamp \in Int
  BY TypeStep DEF IInv, TypeOK, Local
<1>2. phase \in Awake => next_cycle <= Local /\ Local <= next_cycle + Budget
  BY <1>1 DEF TimersInv, Local, TypeOK
<1>3. ASSUME UNCHANGED <<clock, last_stamp, next_cycle, offset, sent, slept>>,
             now' \in Nat, now <= now', phase' = phase
      PROVE  StampInv'
  <2>1. HasClock' = HasClock
    BY <1>3, Zenon DEF HasClock
  <2>2. Local <= Local'
    <3>1. offset \in Int
      BY <1>1 DEF TypeOK
    <3>2. \A n \in Nat : now <= n => now + offset <= n + offset
      BY <1>1, <3>1
    <3>3. now + offset <= now' + offset
      BY <1>3, <3>2
    <3> QED
      BY <1>3, <3>3, Zenon DEF Local
  <2>3. HasClock => clock'.at <= Local'
    <3>1. Local' \in Int
      BY <1>1 DEF TypeOK, Local
    <3>2. HasClock => clock.at \in Int /\ clock.at <= Local
      BY <1>1 DEF StampInv, TypeOK
    <3> HIDE DEF Local
    <3> QED
      BY <1>1, <1>3, <2>2, <3>1, <3>2
  <2>4. ASSUME HasClock, phase \in {"join", "resolve"}
        PROVE  last_stamp' * TicksPerSecond <= now' + slept'
    <3>1. /\ last_stamp * TicksPerSecond \in Int
          /\ last_stamp * TicksPerSecond <= now + slept
      BY <1>1, <2>4 DEF StampInv
    <3>2. \A n \in Nat, a \in Int : now <= n /\ a <= now + slept => a <= n + slept
      BY <1>1
    <3>3. last_stamp * TicksPerSecond <= now' + slept
      BY <1>3, <3>1, <3>2, Zenon
    <3> QED
      BY <1>3, <3>3, Zenon
  <2>5. /\ HasClock /\ phase \in {"init", "asleep"} => last_stamp' < UnixAt(next_cycle)'
        /\ HasClock /\ phase \in {"join", "resolve", "query", "upload"} =>
             last_stamp' < UnixAt(next_cycle + Interval)'
        /\ HasClock /\ phase = "query" => last_stamp' * TicksPerSecond <= sent' + slept'
    BY <1>3, <2>1 DEF StampInv, UnixAt
  <2> QED
    BY <1>3, <2>1, <2>3, <2>4, <2>5, Zenon DEF StampInv
<1>4. ASSUME UNCHANGED <<now, clock, last_stamp, next_cycle, offset, sent, slept>>,
             phase \in {"join", "resolve", "query"} \/ ~ HasClock,
             phase' \in {"upload", "pause"}
      PROVE  StampInv'
  BY <1>1, <1>4 DEF StampInv, HasClock, UnixAt, Local
<1>5. CASE Tick \/ FlashLed \/ LedWritten \/ ServerAnswers \/ PastHorizon
  BY <1>1, <1>3, <1>5 DEF Tick, FlashLed, LedWritten, ServerAnswers, PastHorizon, vars
<1>6. CASE RadioReady
  <2>1. /\ phase = "init" /\ phase' = "join"
        /\ last_stamp' = IF HasClock THEN UnixNow ELSE last_stamp
        /\ UNCHANGED <<now, offset, next_cycle, clock, sent, slept>>
    BY <1>6 DEF RadioReady
  <2>2. CASE ~ HasClock
    BY <2>1, <2>2 DEF StampInv, HasClock
  <2>3. CASE HasClock
    <3>1. UnixNow = UnixAt(Local)
      BY DEF UnixNow, UnixSecondsFromAnchor, UnixAt
    <3>2. Local + TicksPerSecond <= next_cycle + Interval
      BY <1>1, <1>2, <2>1, DriftAssumption DEF Awake
    <3>3. UnixAt(Local) < UnixAt(next_cycle + Interval)
      BY <1>1, <2>3, <3>2, LaterUnix
    <3>4. UnixNow * TicksPerSecond <= now + slept
      BY <2>3, WithinDrift
    <3>5. last_stamp' = UnixNow /\ HasClock' /\ UNCHANGED <<now, offset, next_cycle, clock, slept>>
      BY <2>1, <2>3 DEF HasClock
    <3>6. last_stamp' < UnixAt(next_cycle + Interval)'
      BY <3>1, <3>3, <3>5 DEF UnixAt
    <3>7. last_stamp' * TicksPerSecond <= now' + slept'
      BY <3>4, <3>5
    <3>8. clock'.at <= Local'
      BY <2>3, <3>5 DEF StampInv, Local
    <3> QED
      BY <2>1, <3>5, <3>6, <3>7, <3>8 DEF StampInv
  <2> QED
    BY <2>2, <2>3
<1>7. CASE WifiUp
  <2>1. phase = "join" /\ UNCHANGED <<now, clock, last_stamp, next_cycle, offset, sent, slept>>
        /\ phase' \in {"resolve", "upload"}
    BY <1>7 DEF WifiUp
  <2> QED
    BY <2>1 DEF StampInv, HasClock, UnixAt, Local
<1>8. CASE Resolved
  <2>1. /\ phase = "resolve" /\ phase' = "query" /\ sent' = now
        /\ UNCHANGED <<now, clock, last_stamp, next_cycle, offset, slept>>
    BY <1>8 DEF Resolved
  <2> QED
    BY <2>1 DEF StampInv, HasClock, UnixAt, Local
<1>9. NoAnchor => phase' \in {"upload", "pause"}
  BY DEF NoAnchor
<1>10. CASE ResolveFails \/ NtpTimesOut \/ RefreshCancelled
  BY <1>4, <1>9, <1>10 DEF ResolveFails, NtpTimesOut, RefreshCancelled
<1>11. CASE PauseEnds
  <2>1. /\ phase = "pause" /\ phase' = "resolve"
        /\ UNCHANGED <<now, clock, last_stamp, next_cycle, offset, sent, slept>>
    BY <1>11 DEF PauseEnds
  <2>2. ~ HasClock /\ ~ HasClock'
    BY <1>1, <2>1 DEF TimersInv, HasClock
  <2> QED
    BY <2>1, <2>2 DEF StampInv
<1>12. CASE ResponseArrives
  <2>1. phase = "query" /\ UNCHANGED <<now, next_cycle, offset, sent>>
    BY <1>12 DEF ResponseArrives
  <2>2. CASE NoAnchor /\ UNCHANGED <<clock, history>>
    BY <1>4, <1>9, <2>1, <2>2
  <2>3. ASSUME NEW time \in 0 .. now, sent <= time, time \div TicksPerSecond \in Nat,
               Anchor(time \div TicksPerSecond)
        PROVE  StampInv'
    <3>1. /\ clock'.unix = time \div TicksPerSecond /\ clock'.at = Local
          /\ last_stamp' = last_stamp
          /\ phase' = IF HasClock THEN "upload" ELSE "capture"
      BY <2>3 DEF Anchor, NewClock
    <3>2. clock'.unix # -1 /\ HasClock'
      BY <2>3, <3>1 DEF HasClock, NoClock
    <3>3. clock'.at <= Local'
      BY <1>1, <2>1, <3>1 DEF Local
    <3>4. CASE ~ HasClock
      BY <3>1, <3>2, <3>3, <3>4 DEF StampInv
    <3>5. CASE HasClock
      <4>1. last_stamp < time \div TicksPerSecond
                           + ((next_cycle + Interval) - Local) \div TicksPerSecond
        BY <2>1, <2>3, <3>5, RefreshKeepsOrder
      <4>2. last_stamp' < UnixAt(next_cycle + Interval)'
        <5>1. UnixAt(next_cycle + Interval)'
                = clock'.unix + ((next_cycle' + Interval) - clock'.at) \div TicksPerSecond
          BY UnixAfterStep
        <5>2. /\ clock'.unix = time \div TicksPerSecond
              /\ (next_cycle' + Interval) - clock'.at = (next_cycle + Interval) - Local
          BY <2>1, <3>1
        <5>3. UnixAt(next_cycle + Interval)'
                = (time \div TicksPerSecond)
                    + ((next_cycle + Interval) - Local) \div TicksPerSecond
          BY <5>1, <5>2, Zenon
        <5> QED
          BY <3>1, <4>1, <5>3, Zenon
      <4> QED
        BY <3>1, <3>2, <3>3, <3>5, <4>2 DEF StampInv
    <3> QED
      BY <3>4, <3>5
  <2> QED
    BY <1>12, <2>2, <2>3, Reading
<1>13. CASE FirstReading
  <2>1. /\ phase = "capture" /\ phase' = "upload" /\ last_stamp' = UnixNow
        /\ UNCHANGED <<now, offset, next_cycle, clock>>
    BY <1>13 DEF FirstReading
  <2>2. HasClock /\ HasClock' /\ clock'.at <= Local'
    BY <2>1 DEF StampInv, HasClock, Local
  <2>3. Local + TicksPerSecond <= next_cycle + Interval
    BY <1>1, <1>2, <2>1, DriftAssumption DEF Awake
  <2>4. UnixAt(Local) < UnixAt(next_cycle + Interval)
    BY <1>1, <2>2, <2>3, LaterUnix
  <2>5. last_stamp' < UnixAt(next_cycle + Interval)'
    BY <2>1, <2>4 DEF UnixNow, UnixSecondsFromAnchor, UnixAt
  <2> QED
    BY <2>1, <2>2, <2>5 DEF StampInv
<1>14. CASE CycleEnds
  <2>1. /\ phase \in Awake /\ phase' = "asleep"
        /\ UNCHANGED <<now, offset, clock, last_stamp>>
    BY <1>14 DEF CycleEnds
  <2>2. next_cycle' >= next_cycle + Interval /\ next_cycle' > Local /\ next_cycle' \in Int
    <3>1. next_cycle' = next_cycle + ((Local - next_cycle) \div Interval + 1) * Interval
      BY <1>14 DEF CycleEnds
    <3> HIDE DEF Local
    <3> QED
      BY <1>1, <1>2, <2>1, <3>1, NextSlotLater
  <2>3. HasClock' = HasClock /\ (HasClock => clock'.at <= Local')
    BY <2>1 DEF StampInv, HasClock, Local
  <2>4. ASSUME HasClock
        PROVE  last_stamp < UnixAt(next_cycle')
    <3>1. CASE phase = "init"
      <4>1. last_stamp < UnixAt(next_cycle)
        BY <2>4, <3>1 DEF StampInv
      <4>2. UnixAt(next_cycle) <= UnixAt(next_cycle')
        BY <1>1, <2>2, <2>4, LaterUnix
      <4> QED
        BY <1>1, <2>2, <2>4, <4>1, <4>2, LaterUnix
    <3>2. CASE phase \in {"join", "resolve", "query", "upload"}
      <4>1. last_stamp < UnixAt(next_cycle + Interval)
        BY <2>4, <3>2 DEF StampInv
      <4>2. next_cycle + Interval \in Int
        BY <1>1
      <4> QED
        BY <1>1, <2>2, <2>4, <4>1, <4>2, LaterUnix
    <3>3. CASE phase = "capture"
      <4>1. last_stamp = -1 /\ clock.at <= Local
        BY <2>4, <3>3 DEF StampInv
      <4>2. clock.unix \in Nat /\ clock.at \in Int /\ next_cycle' - clock.at \in Nat
        BY <1>1, <2>2, <2>4, <4>1 DEF AnchorInv, TypeOK
      <4>3. (next_cycle' - clock.at) \div TicksPerSecond \in Nat
        BY <4>2, Quotient
      <4> QED
        BY <4>1, <4>2, <4>3 DEF UnixAt
    <3>4. phase # "pause"
      BY <1>1, <2>4 DEF TimersInv
    <3> QED
      BY <2>1, <3>1, <3>2, <3>3, <3>4 DEF Awake
  <2>5. HasClock => last_stamp' < UnixAt(next_cycle)'
    BY <2>1, <2>4 DEF UnixAt
  <2> QED
    BY <2>1, <2>3, <2>5 DEF StampInv, HasClock
<1>15. CASE Wake
  <2>1. /\ phase = "asleep" /\ phase' = "init"
        /\ UNCHANGED <<next_cycle, clock, last_stamp>>
    BY <1>15 DEF Wake
  <2>2. Local' = next_cycle /\ next_cycle > Local
    <3>1. PICK drift \in {-1, 0, 1} : offset' = offset + drift /\ now' = next_cycle - offset'
      BY <1>15 DEF Wake
    <3> QED
      BY <1>1, <2>1, <3>1 DEF TimersInv, Local, TypeOK
  <2>3. HasClock => clock.at \in Int
    BY <1>1 DEF TypeOK
  <2> QED
    BY <1>1, <2>1, <2>2, <2>3 DEF StampInv, HasClock, UnixAt
<1>16. CASE PowerLoss
  <2>1. clock' = NoClock /\ last_stamp' = -1 /\ phase' = "init"
    BY <1>16 DEF PowerLoss
  <2> QED
    BY <2>1 DEF StampInv, HasClock
<1> QED
  BY <1>5, <1>6, <1>7, <1>8, <1>10, <1>11, <1>12, <1>13, <1>14, <1>15, <1>16 DEF Next

(* Between two boots, timestamps increase, also over refreshes that set    *)
(* the clock back (ClockState, refresh_clock, unix_now).                   *)
THEOREM TimestampsCorrect == Spec => TimestampsIncrease
<1> DEFINE Stamped == IInv /\ SleptInv /\ StampInv
<1>1. Init => Stamped
  BY Initially, StampInitially
<1>2. Stamped /\ [Next]_vars => Stamped'
  <2>1. CASE Stamped /\ Next
    BY <2>1, Inductive, SleptStep, StampStep
  <2>2. CASE Stamped /\ UNCHANGED vars
    <3>1. IInv'
      BY <2>2, Inductive
    <3>2. SleptInv' /\ StampInv'
      BY <2>2 DEF SleptInv, StampInv, HasClock, UnixAt, Local, vars
    <3> QED
      BY <3>1, <3>2
  <2> QED
    BY <2>1, <2>2
<1>3. ASSUME Stamped, Next, phase = "init", phase' = "join", HasClock
      PROVE  last_stamp' > last_stamp
  <2>1. RadioReady
    BY <1>3 DEF Next, Tick, WifiUp, FlashLed, LedWritten, Resolved, ResolveFails,
       ResponseArrives, NtpTimesOut, RefreshCancelled, PauseEnds, FirstReading, CycleEnds, Wake, PowerLoss,
       ServerAnswers, PastHorizon, vars
  <2>2. last_stamp' = UnixAt(Local)
    BY <1>3, <2>1 DEF RadioReady, UnixNow, UnixSecondsFromAnchor, UnixAt
  <2>3. next_cycle <= Local /\ next_cycle \in Int /\ Local \in Int
    BY <1>3 DEF IInv, TypeOK, TimersInv, Local, Awake
  <2>4. UnixAt(next_cycle) <= UnixAt(Local) /\ UnixAt(next_cycle) \in Int /\ UnixAt(Local) \in Int
    BY <1>3, <2>3, LaterUnix DEF IInv
  <2>5. last_stamp < UnixAt(next_cycle) /\ last_stamp \in Int
    BY <1>3 DEF StampInv, IInv, TypeOK
  <2> QED
    BY <2>2, <2>4, <2>5
<1>4. Stamped /\ [Next]_vars =>
        [phase = "init" /\ phase' = "join" /\ HasClock => last_stamp' > last_stamp]_vars
  BY <1>3 DEF vars
<1> QED
  BY <1>1, <1>2, <1>4, PTL DEF Spec, TimestampsIncrease
=============================================================================
