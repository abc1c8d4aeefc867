-------------------------- MODULE SleepClockProofs --------------------------
(***************************************************************************)
(* Proofs about SleepClock, for every resolution of the two timers, every  *)
(* interval, any delay of a timer or of the way into and out of sleep, and *)
(* any pauses between the reads of the clocks.                             *)
(***************************************************************************)
EXTENDS SleepClock, TLAPS

(* Integer division, as the two timers and the schedule use it. *)
LEMMA Division ==
  ASSUME NEW x \in Nat, NEW d \in Nat \ {0}
  PROVE  /\ x \div d \in Nat
         /\ (x \div d) * d <= x
         /\ x < (x \div d) * d + d
OBVIOUS

LEMMA DivisionOfMultiple ==
  ASSUME NEW k \in Int, NEW d \in Nat \ {0}
  PROVE  (k * d) \div d = k
OBVIOUS

LEMMA MultipleAdded ==
  ASSUME NEW a \in Int, NEW k \in Int, NEW d \in Nat \ {0}, a % d = 0
  PROVE  (a + k * d) % d = 0
<1>1. PICK j \in Int : a = j * d
  OBVIOUS
<1>2. a + k * d = (j + k) * d /\ j + k \in Int
  BY <1>1
<1>3. ASSUME NEW c \in Int, NEW l \in Int, c = l * d PROVE c % d = 0
  BY <1>3
<1> QED
  BY <1>2, <1>3

(* The next slot is after now, whole intervals after the previous one, and *)
(* no slot in between is skipped.                                          *)
LEMMA NextDeadlineFacts ==
  ASSUME NEW previous \in Nat, NEW now \in Nat
  PROVE  LET next == NextDeadline(previous, now) IN
         /\ next \in Nat
         /\ next > now
         /\ \E k \in Nat : next = previous + k * IntervalMs
         /\ next - IntervalMs <= now \/ next = previous + IntervalMs
<1> DEFINE late == IF now > previous THEN now - previous ELSE 0
           q    == late \div IntervalMs
           next == NextDeadline(previous, now)
<1>1. late \in Nat /\ now <= previous + late /\ (late = 0 \/ now = previous + late)
  OBVIOUS
<1>2. IntervalMs \in Nat \ {0}
  BY ClockAssumption
<1>3. q \in Nat /\ q * IntervalMs <= late /\ late < q * IntervalMs + IntervalMs
  BY <1>1, <1>2, Division
<1>4. next = previous + (q + 1) * IntervalMs
  BY DEF NextDeadline
<1> HIDE DEF late, q, next
<1>5. (q + 1) * IntervalMs = q * IntervalMs + IntervalMs /\ q * IntervalMs \in Nat
      /\ q + 1 \in Nat
  BY <1>2, <1>3
<1>6. next \in Nat /\ next > now
  BY <1>1, <1>2, <1>3, <1>4, <1>5
<1>7. \E k \in Nat : next = previous + k * IntervalMs
  BY <1>4, <1>5
<1>8. next - IntervalMs <= now \/ next = previous + IntervalMs
  BY <1>1, <1>2, <1>3, <1>4, <1>5
<1> QED
  BY <1>6, <1>7, <1>8 DEF next

-----------------------------------------------------------------------------
IInv == TypeOK /\ DriftBounded /\ NotEarly /\ OnSchedule

LEMMA Units ==
  /\ TicksPerMs \in Nat \ {0}
  /\ ShortestMs * TicksPerMs \in Nat
  /\ ShortestMs * TicksPerMs >= TicksPerMs + TicksPerMs
  /\ EntrySkew \in Nat /\ ExitSkew \in Nat
BY ClockAssumption

LEMMA BootIInv ==
  ASSUME NEW at \in BootTimes, NEW zero \in 0 .. at, PoweredOn(at, zero)
  PROVE  IInv'
<1>1. at \in Nat /\ Millis(at) \in Nat
  BY ClockAssumption, Division DEF BootTimes, Millis
<1>2. TypeOK'
  BY <1>1 DEF PoweredOn, TypeOK
<1>3. DriftBounded' /\ NotEarly'
  BY <1>1, Units DEF PoweredOn, DriftBounded, NotEarly, Now
<1>4. (Millis(at) - Millis(at)) % IntervalMs = 0
  BY <1>1, ClockAssumption
<1>5. OnSchedule'
  BY <1>4 DEF PoweredOn, OnSchedule, Millis
<1> QED
  BY <1>2, <1>3, <1>5 DEF IInv

LEMMA InitIInv == Init => IInv
<1> SUFFICES ASSUME Init PROVE IInv
  OBVIOUS
<1>1. PICK at \in BootTimes : \E zero \in 0 .. at :
        /\ elapsed = at /\ native = at /\ offset = 0
        /\ aon_zero = zero
        /\ deadline = at /\ first = Millis(at)
        /\ sleeps = 0 /\ phase = "cycle"
  BY DEF Init
<1>2. at \in Nat /\ Millis(at) \in Nat
  BY ClockAssumption, Division DEF BootTimes, Millis
<1>3. TypeOK
  BY <1>1, <1>2 DEF TypeOK
<1>4. DriftBounded /\ NotEarly
  BY <1>1, <1>2, Units DEF DriftBounded, NotEarly, Now
<1>5. (Millis(at) - Millis(at)) % IntervalMs = 0
  BY <1>2, ClockAssumption
<1>6. OnSchedule
  BY <1>1, <1>5 DEF OnSchedule
<1> QED
  BY <1>3, <1>4, <1>6 DEF IInv

-----------------------------------------------------------------------------
(* Time awake passes alike on both clocks. *)
LEMMA AwakeFacts ==
  ASSUME IInv, NEW ticks \in Nat, Awake(ticks), UNCHANGED <<aon_zero, sleeps>>
  PROVE  /\ elapsed' \in Nat /\ native' \in Nat /\ offset' \in Nat
         /\ aon_zero' \in 0 .. elapsed'
         /\ Now' = Now + ticks /\ Now' \in Nat
         /\ DriftBounded'
<1> USE DEF IInv, TypeOK, Awake, Now
<1>1. sleeps * (TicksPerMs + EntrySkew) \in Nat /\ sleeps * (TicksPerMs + ExitSkew) \in Nat
  BY Units
<1> QED
  BY <1>1 DEF DriftBounded

LEMMA EndCycleFacts ==
  ASSUME IInv, EndCycle
  PROVE  /\ IInv'
         /\ deadline' > Now'
         /\ \/ deadline' - IntervalMs * TicksPerMs <= Now'
            \/ Millis(deadline') = Millis(deadline) + IntervalMs
<1>1. PICK ticks \in 0 .. MaxAwake :
        /\ Awake(ticks)
        /\ deadline' = TicksPerMs * NextDeadline(Millis(deadline), Millis(Now + ticks))
  BY DEF EndCycle
<1>2. ticks \in Nat
  BY ClockAssumption
<1>3. UNCHANGED <<aon_zero, sleeps, first>> /\ phase' = "wait"
  BY DEF EndCycle
<1>4. /\ elapsed' \in Nat /\ native' \in Nat /\ offset' \in Nat
      /\ aon_zero' \in 0 .. elapsed'
      /\ Now' = Now + ticks /\ Now' \in Nat
      /\ DriftBounded'
  BY <1>1, <1>2, <1>3, AwakeFacts
<1> DEFINE p == Millis(deadline)
           n == Millis(Now + ticks)
           next == NextDeadline(p, n)
<1>5. p \in Nat
  BY Division, Units DEF Millis, IInv, TypeOK
<1>6. n \in Nat /\ n * TicksPerMs <= Now' /\ Now' < n * TicksPerMs + TicksPerMs
  BY <1>4, Division, Units DEF Millis
<1>7. /\ next \in Nat
      /\ next > n
      /\ \E k \in Nat : next = p + k * IntervalMs
      /\ next - IntervalMs <= n \/ next = p + IntervalMs
  BY <1>5, <1>6, NextDeadlineFacts
<1>8. deadline' = next * TicksPerMs
  BY <1>1, <1>7, Units
<1> HIDE DEF p, n, next
<1>9. Millis(deadline)' = next
  BY <1>7, <1>8, DivisionOfMultiple, Units DEF Millis
<1>10. deadline' > Now' /\ deadline' \in Nat
  <2>1. next * TicksPerMs >= (n + 1) * TicksPerMs
    BY <1>6, <1>7, Units
  <2>2. (n + 1) * TicksPerMs = n * TicksPerMs + TicksPerMs
    BY <1>6, Units
  <2>3. next * TicksPerMs \in Nat
    BY <1>7, Units
  <2> QED
    BY <1>4, <1>6, <1>8, <2>1, <2>2, <2>3, Units
<1>11. \/ deadline' - IntervalMs * TicksPerMs <= Now'
       \/ Millis(deadline') = Millis(deadline) + IntervalMs
  <2>1. CASE next - IntervalMs <= n
    <3>1. (next - IntervalMs) * TicksPerMs <= n * TicksPerMs
      BY <1>6, <1>7, <2>1, Units, ClockAssumption
    <3>2. (next - IntervalMs) * TicksPerMs = next * TicksPerMs - IntervalMs * TicksPerMs
      BY <1>7, Units, ClockAssumption
    <3>3. next * TicksPerMs \in Nat /\ IntervalMs * TicksPerMs \in Nat /\ n * TicksPerMs \in Nat
      BY <1>6, <1>7, Units, ClockAssumption
    <3> QED
      BY <1>4, <1>6, <1>8, <3>1, <3>2, <3>3
  <2>2. CASE next = p + IntervalMs
    BY <1>9, <2>2 DEF p, Millis
  <2> QED
    BY <1>7, <2>1, <2>2
<1>12. OnSchedule'
  <2>1. PICK k \in Nat : next = p + k * IntervalMs
    BY <1>7
  <2>2. (p - first) % IntervalMs = 0 /\ p - first \in Int
    BY <1>5 DEF p, IInv, OnSchedule, TypeOK
  <2>3. ((p - first) + k * IntervalMs) % IntervalMs = 0
    <3>1. k \in Int /\ IntervalMs \in Nat \ {0}
      BY ClockAssumption
    <3>2. \A a \in Int : a % IntervalMs = 0 => (a + k * IntervalMs) % IntervalMs = 0
      BY <3>1, MultipleAdded
    <3> QED
      BY <2>2, <3>2, Zenon
  <2>4. k * IntervalMs \in Nat
    BY ClockAssumption
  <2>5. next - first = (p - first) + k * IntervalMs
    BY <1>5, <2>1, <2>4 DEF IInv, TypeOK
  <2> QED
    BY <1>3, <1>8, <1>9, <2>3, <2>5 DEF OnSchedule
<1>13. TypeOK' /\ NotEarly'
  BY <1>3, <1>4, <1>10 DEF TypeOK, NotEarly, IInv
<1> QED
  BY <1>4, <1>10, <1>11, <1>12, <1>13 DEF IInv

(* A return of wait_until with clocks and schedule as they are. *)
LEMMA ReturnFacts ==
  ASSUME IInv, UNCHANGED <<clocks, aon_zero, schedule, sleeps>>, phase' = "cycle",
         Now > deadline - ShortestMs * TicksPerMs
  PROVE  IInv' /\ Now' >= Now
BY DEF IInv, TypeOK, DriftBounded, NotEarly, OnSchedule, Now, Millis, clocks, schedule

LEMMA DeadlinePassedFacts ==
  ASSUME IInv, DeadlinePassed PROVE IInv' /\ Now' >= Now
<1>1. PICK late \in 0 .. MaxLate : deadline < Now + late /\ Awake(late)
  BY DEF DeadlinePassed
<1>2. late \in Nat /\ Now \in Nat /\ deadline \in Nat
  BY ClockAssumption DEF IInv, TypeOK, Now
<1>3. /\ elapsed' \in Nat /\ native' \in Nat /\ offset' \in Nat
      /\ aon_zero' \in 0 .. elapsed'
      /\ Now' = Now + late
      /\ DriftBounded'
  BY <1>1, <1>2, AwakeFacts DEF DeadlinePassed
<1>4. NotEarly' /\ Now' >= Now
  BY <1>1, <1>2, <1>3, Units DEF DeadlinePassed, schedule, NotEarly
<1> QED
  BY <1>3, <1>4 DEF DeadlinePassed, schedule, IInv, TypeOK, OnSchedule, Millis

LEMMA WaitAwakeFacts ==
  ASSUME IInv, WaitAwake PROVE IInv' /\ Now' >= Now
<1>1. PICK late \in 0 .. MaxLate : Awake(deadline - Now + late)
  BY DEF WaitAwake
<1>2. late \in Nat /\ deadline - Now + late \in Nat /\ Now \in Nat /\ deadline \in Nat
  BY ClockAssumption DEF WaitAwake, IInv, TypeOK, Now
<1>3. /\ elapsed' \in Nat /\ native' \in Nat /\ offset' \in Nat
      /\ aon_zero' \in 0 .. elapsed'
      /\ Now' = deadline + late
      /\ DriftBounded'
  BY <1>1, <1>2, AwakeFacts DEF WaitAwake
<1>4. NotEarly' /\ Now' >= Now
  BY <1>2, <1>3, Units DEF WaitAwake, schedule, NotEarly
<1> QED
  BY <1>3, <1>4 DEF WaitAwake, schedule, IInv, TypeOK, OnSchedule, Millis

LEMMA FlushLogsFacts ==
  ASSUME IInv, FlushLogs PROVE IInv' /\ Now' >= Now
<1>1. PICK late \in 0 .. MaxLate : Awake(FlushMs * TicksPerMs + late)
  BY DEF FlushLogs
<1>2. late \in Nat /\ FlushMs * TicksPerMs + late \in Nat /\ Now \in Nat
  BY ClockAssumption DEF IInv, TypeOK, Now
<1>3. /\ elapsed' \in Nat /\ native' \in Nat /\ offset' \in Nat
      /\ aon_zero' \in 0 .. elapsed'
      /\ Now' = Now + (FlushMs * TicksPerMs + late)
      /\ DriftBounded'
  BY <1>1, <1>2, AwakeFacts DEF FlushLogs
<1> QED
  BY <1>2, <1>3 DEF FlushLogs, schedule, IInv, TypeOK, NotEarly, OnSchedule, Millis

-----------------------------------------------------------------------------
(* What the AON timer says of a stretch of true time. *)
LEMMA AonFacts ==
  ASSUME IInv, NEW x \in Nat, x >= elapsed, NEW t \in Nat
  PROVE  LET a == Aon(x)
             r == x - aon_zero - a * TicksPerMs
         IN
         /\ a \in Nat /\ a * TicksPerMs \in Nat
         /\ r \in Nat /\ r < TicksPerMs
         /\ Aon(x + t) \in Nat
         /\ Aon(x + t) * TicksPerMs <= a * TicksPerMs + r + t
         /\ a * TicksPerMs + r + t < Aon(x + t) * TicksPerMs + TicksPerMs
<1>1. x - aon_zero \in Nat /\ x + t - aon_zero \in Nat
      /\ x + t - aon_zero = (x - aon_zero) + t
      /\ aon_zero \in Nat
  BY DEF IInv, TypeOK
<1>2. /\ Aon(x) \in Nat
      /\ Aon(x) * TicksPerMs <= x - aon_zero
      /\ x - aon_zero < Aon(x) * TicksPerMs + TicksPerMs
  BY <1>1, Units, Division DEF Aon
<1>3. /\ Aon(x + t) \in Nat
      /\ Aon(x + t) * TicksPerMs <= x + t - aon_zero
      /\ x + t - aon_zero < Aon(x + t) * TicksPerMs + TicksPerMs
  BY <1>1, Units, Division DEF Aon
<1>4. Aon(x) * TicksPerMs \in Nat /\ Aon(x + t) * TicksPerMs \in Nat
  BY <1>2, <1>3, Units
<1> QED
  BY <1>1, <1>2, <1>3, <1>4, Units

LEMMA RemainingFacts ==
  ASSUME IInv, deadline >= Now, ~ TooShort(Remaining)
  PROVE  LET m == Millis(Remaining) IN
         /\ m \in Nat /\ m * TicksPerMs \in Nat
         /\ m * TicksPerMs <= deadline - Now
         /\ deadline - Now < m * TicksPerMs + TicksPerMs
         /\ Now \in Nat /\ deadline \in Nat
<1>1. Now \in Nat /\ deadline \in Nat /\ Remaining \in Nat /\ Remaining = deadline - Now
  BY DEF IInv, TypeOK, Now, Remaining
<1>2. Millis(Remaining) \in Nat /\ Millis(Remaining) * TicksPerMs <= Remaining
      /\ Remaining < Millis(Remaining) * TicksPerMs + TicksPerMs
  BY <1>1, Units, Division DEF Millis
<1>3. Millis(Remaining) * TicksPerMs \in Nat
  BY <1>2, Units
<1> QED
  BY <1>1, <1>2, <1>3

LEMMA AlarmRefusedFacts ==
  ASSUME IInv, AlarmRefused PROVE IInv' /\ Now' >= Now
<1>1. PICK gap \in 0 .. EntrySkew, entry \in 0 .. MaxLate :
        /\ Aon(elapsed + gap + entry) >= AlarmAt(Aon(elapsed + gap))
        /\ Awake(gap + entry)
  BY DEF AlarmRefused
<1> DEFINE x == elapsed + gap
           a == Aon(x)
           b == Aon(x + entry)
           r == x - aon_zero - a * TicksPerMs
           m == Millis(Remaining)
<1>2. /\ gap \in Nat /\ entry \in Nat /\ gap + entry \in Nat
      /\ x \in Nat /\ x >= elapsed /\ elapsed + gap + entry = x + entry
  BY ClockAssumption DEF IInv, TypeOK
<1>3. /\ a \in Nat /\ a * TicksPerMs \in Nat /\ r \in Nat /\ r < TicksPerMs
      /\ b \in Nat /\ b * TicksPerMs <= a * TicksPerMs + r + entry
  <2> HIDE DEF x
  <2> QED
    BY <1>2, AonFacts
<1>4. /\ m \in Nat /\ m * TicksPerMs \in Nat
      /\ deadline - Now < m * TicksPerMs + TicksPerMs
      /\ Now \in Nat /\ deadline \in Nat
  BY RemainingFacts DEF AlarmRefused
<1>5. /\ elapsed' \in Nat /\ native' \in Nat /\ offset' \in Nat
      /\ aon_zero' \in 0 .. elapsed'
      /\ Now' = Now + (gap + entry)
      /\ DriftBounded'
  BY <1>1, <1>2, AwakeFacts DEF AlarmRefused
<1>6. b >= a + m
  BY <1>1, <1>2 DEF AlarmAt
<1> HIDE DEF a, b, r, m, x
<1>7. a * TicksPerMs + m * TicksPerMs <= b * TicksPerMs
  <2>1. (a + m) * TicksPerMs <= b * TicksPerMs
    BY <1>3, <1>4, <1>6, Units
  <2>2. (a + m) * TicksPerMs = a * TicksPerMs + m * TicksPerMs
    BY <1>3, <1>4, Units
  <2> QED
    BY <2>1, <2>2
<1>8. m * TicksPerMs <= r + entry
  <2>1. b * TicksPerMs \in Nat
    BY <1>3, Units
  <2> QED
    BY <1>2, <1>3, <1>4, <1>7, <2>1
<1>9. Now' > deadline - ShortestMs * TicksPerMs
  BY <1>2, <1>3, <1>4, <1>5, <1>8, Units
<1> QED
  BY <1>2, <1>4, <1>5, <1>9
     DEF AlarmRefused, schedule, IInv, TypeOK, NotEarly, OnSchedule, Millis

(* A sleep credits application time with what the AON timer counted        *)
(* between its reads, or with what Embassy's timer did between its own     *)
(* when that is more.  What separates the two stretches is the pause       *)
(* between the reads at either end.                                        *)
LEMMA SleepFacts ==
  ASSUME IInv, Sleep PROVE IInv' /\ Now' >= Now
<1>1. PICK aon_gap \in 0 .. EntrySkew, native_gap \in 0 .. EntrySkew,
           last_gap \in 0 .. ExitSkew, entry \in 0 .. MaxLate, exit \in 0 .. MaxLate :
        LET before  == Aon(elapsed + aon_gap)
            started == elapsed + aon_gap + native_gap
            woken   == WakesAt(AlarmAt(before), started + entry) + exit
            native_elapsed == entry + exit + last_gap
        IN  /\ elapsed' = woken + last_gap
            /\ native' = native + aon_gap + native_gap + native_elapsed
            /\ offset' = Corrected(SleepCorrection(Aon(woken) - before, native_elapsed))
  BY DEF Sleep
<1> DEFINE T == TicksPerMs
           x == elapsed + aon_gap
           a == Aon(x)
           r == x - aon_zero - a * T
           m == Millis(Remaining)
           n == entry + exit + last_gap
           woken == WakesAt(AlarmAt(a), x + native_gap + entry) + exit
           w == woken - x
           d == Aon(woken) - a
<1>2. /\ aon_gap \in Nat /\ native_gap \in Nat /\ last_gap \in Nat
      /\ entry \in Nat /\ exit \in Nat
      /\ native_gap <= EntrySkew /\ last_gap <= ExitSkew
      /\ EntrySkew \in Nat /\ ExitSkew \in Nat
      /\ n \in Nat /\ x \in Nat /\ x >= elapsed /\ elapsed \in Nat
  BY ClockAssumption DEF IInv, TypeOK
<1>3. /\ elapsed' = woken + last_gap
      /\ native' = native + aon_gap + native_gap + n
      /\ offset' = offset + SleepCorrection(d, n)
  BY <1>1, <1>2 DEF Corrected
<1>4. /\ m \in Nat /\ m * T \in Nat
      /\ m * T <= deadline - Now /\ deadline - Now < m * T + T
      /\ Now \in Nat /\ deadline \in Nat
  BY RemainingFacts DEF Sleep
<1>5. /\ a \in Nat /\ a * T \in Nat /\ r \in Nat /\ r < T
      /\ x = aon_zero + a * T + r /\ aon_zero \in Nat
      /\ T \in Nat \ {0}
  <2> HIDE DEF x
  <2>1. 0 \in Nat
    OBVIOUS
  <2> QED
    BY <1>2, <2>1, AonFacts, Units DEF IInv, TypeOK
<1>6. (a + m) * T = a * T + m * T /\ (a + m) * T \in Nat
  BY <1>4, <1>5
(* The wake is neither before the alarm nor before the way in and out. *)
<1>7. /\ w \in Nat /\ woken = x + w /\ w >= native_gap + entry + exit
      /\ r + w >= m * T
  <2> HIDE DEF a, r, m, x
  <2> QED
    BY <1>2, <1>4, <1>5, <1>6 DEF WakesAt, AlarmAt, m
<1>8. /\ Aon(woken) \in Nat
      /\ Aon(woken) * T <= a * T + r + w
      /\ a * T + r + w < Aon(woken) * T + T
  <2> HIDE DEF x, woken, w
  <2> QED
    BY <1>2, <1>7, AonFacts
<1>9. (a + d) * T = a * T + d * T /\ a + d = Aon(woken) /\ d \in Int /\ d * T \in Int
  <2> HIDE DEF a, woken
  <2> QED
    BY <1>5, <1>8
<1> HIDE DEF a, r, m, w, d, T, x, woken, n
<1>10. d * T <= r + w /\ r + w < d * T + T
  BY <1>5, <1>7, <1>8, <1>9
<1>11. d * T >= m * T
  <2>1. m * T < (d + 1) * T
    BY <1>4, <1>5, <1>7, <1>9, <1>10
  <2>2. m < d + 1
    BY <1>4, <1>5, <1>9, <2>1
  <2> QED
    BY <1>4, <1>5, <1>9, <2>2
<1> DEFINE credit == IF d * T > n THEN d * T ELSE n
<1>12. /\ offset' \in Nat /\ native' \in Nat
       /\ Now' = Now + aon_gap + native_gap + credit
  BY <1>2, <1>3, <1>9 DEF SleepCorrection, Now, IInv, TypeOK, T
<1>13. n = entry + exit + last_gap
  BY DEF n
<1>14. credit \in Nat /\ credit <= w + last_gap + T /\ w < credit + T /\ credit >= m * T
       /\ native_gap + credit <= w + last_gap + (T + EntrySkew)
  BY <1>2, <1>4, <1>5, <1>7, <1>9, <1>10, <1>11, <1>13
<1> HIDE DEF credit
<1>15. elapsed' = elapsed + aon_gap + w + last_gap
  BY <1>2, <1>3, <1>7 DEF x
<1>16. DriftBounded'
  <2>1. /\ sleeps' * (T + EntrySkew) = sleeps * (T + EntrySkew) + (T + EntrySkew)
        /\ sleeps' * (T + ExitSkew) = sleeps * (T + ExitSkew) + (T + ExitSkew)
        /\ sleeps * (T + EntrySkew) \in Nat /\ sleeps * (T + ExitSkew) \in Nat
    BY <1>2, <1>5 DEF Sleep, IInv, TypeOK
  <2>2. /\ Now - elapsed <= sleeps * (T + EntrySkew)
        /\ elapsed - Now <= sleeps * (T + ExitSkew)
    BY DEF IInv, DriftBounded, T
  <2> DEFINE early == sleeps * (T + EntrySkew)
             late  == sleeps * (T + ExitSkew)
  <2>3. early \in Nat /\ late \in Nat /\ Now - elapsed <= early /\ elapsed - Now <= late
    BY <2>1, <2>2
  <2> HIDE DEF early, late
  <2>4. Now' - elapsed' <= early + (T + EntrySkew) /\ elapsed' - Now' <= late + (T + ExitSkew)
    BY <1>2, <1>4, <1>5, <1>7, <1>12, <1>14, <1>15, <2>3
  <2> QED
    BY <2>1, <2>4 DEF DriftBounded, T, early, late
<1>17. NotEarly'
  <2>1. Now' > deadline - ShortestMs * T
    BY <1>2, <1>4, <1>5, <1>12, <1>14, Units DEF T
  <2> QED
    BY <2>1 DEF NotEarly, Sleep, schedule, T
<1>18. aon_zero' \in 0 .. elapsed' /\ elapsed' \in Nat
  BY <1>2, <1>5, <1>7, <1>15 DEF Sleep, IInv, TypeOK
<1>19. TypeOK' /\ OnSchedule'
  BY <1>12, <1>18 DEF Sleep, schedule, IInv, TypeOK, OnSchedule, Millis
<1>20. Now' >= Now
  BY <1>2, <1>4, <1>12, <1>14
<1> QED
  BY <1>16, <1>17, <1>19, <1>20 DEF IInv

-----------------------------------------------------------------------------
LEMMA RunFacts == ASSUME IInv, Run PROVE IInv' /\ Now' >= Now
<1>1. CASE EndCycle
  <2>1. IInv'
    BY <1>1, EndCycleFacts
  <2>2. PICK ticks \in 0 .. MaxAwake : Awake(ticks)
    BY <1>1 DEF EndCycle
  <2> QED
    BY <2>1, <2>2, ClockAssumption DEF Awake, Now, IInv, TypeOK
<1>2. CASE SkipSleep
  <2>1. Now > deadline - ShortestMs * TicksPerMs
    BY <1>2, Units DEF SkipSleep, TooShort, IInv, TypeOK, Now
  <2> QED
    BY <1>2, <2>1, ReturnFacts DEF SkipSleep
<1> QED
  BY <1>1, <1>2, DeadlinePassedFacts, WaitAwakeFacts, FlushLogsFacts, AlarmRefusedFacts,
     SleepFacts DEF Run

LEMMA StepIInv == ASSUME IInv, [Next]_vars PROVE IInv'
<1>1. CASE Run
  BY <1>1, RunFacts
<1>2. CASE PowerCycle
  BY <1>2, BootIInv DEF PowerCycle
<1>3. CASE UNCHANGED vars
  BY <1>3 DEF vars, IInv, TypeOK, DriftBounded, NotEarly, OnSchedule, Now, Millis
<1> QED
  BY <1>1, <1>2, <1>3 DEF Next

(* The conjunction above holds in every reachable state. *)
THEOREM Invariance == Spec => []IInv
BY InitIInv, StepIInv, PTL DEF Spec

(* Every variable keeps its range: the correction of a sleep is never      *)
(* negative and the AON counter never ahead of true time.                  *)
THEOREM TypeCorrect == Spec => []TypeOK
<1>1. IInv => TypeOK
  BY DEF IInv
<1> QED
  BY <1>1, Invariance, PTL

(* For each sleep since power-on application time gets ahead of true time  *)
(* by at most a millisecond and the pause between the reads before it, and *)
(* behind by at most a millisecond and the one between the reads after it. *)
THEOREM DriftCorrect == Spec => []DriftBounded
<1>1. IInv => DriftBounded
  BY DEF IInv
<1> QED
  BY <1>1, Invariance, PTL

(* No cycle starts as much as the shortest sleep before its slot. *)
THEOREM WakeCorrect == Spec => []NotEarly
<1>1. IInv => NotEarly
  BY DEF IInv
<1> QED
  BY <1>1, Invariance, PTL

(* All slots keep the phase of the first. *)
THEOREM ScheduleCorrect == Spec => []OnSchedule
<1>1. IInv => OnSchedule
  BY DEF IInv
<1> QED
  BY <1>1, Invariance, PTL

(* Application time never goes back while the power is on. *)
THEOREM TimeCorrect == Spec => TimeMovesForward
<1>1. ASSUME IInv, [Next]_vars PROVE [Now' < Now => ~ Run]_vars
  <2>1. ASSUME Run PROVE ~ (Now' < Now)
    BY <1>1, <2>1, RunFacts DEF IInv, TypeOK, Now
  <2> QED
    BY <2>1
<1> QED
  BY <1>1, Invariance, PTL DEF Spec, TimeMovesForward

(* The next slot is ahead of now, and no coming slot is skipped. *)
THEOREM NextSlotCorrect == Spec => NextSlot
<1>1. ASSUME IInv, [Next]_vars
      PROVE  [EndCycle => /\ deadline' > Now'
                          /\ \/ deadline' - IntervalMs * TicksPerMs <= Now'
                             \/ Millis(deadline') = Millis(deadline) + IntervalMs]_vars
  BY <1>1, EndCycleFacts
<1> QED
  BY <1>1, Invariance, PTL DEF Spec, NextSlot
=============================================================================
