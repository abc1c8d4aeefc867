----------------------------- MODULE SleepClock -----------------------------
(***************************************************************************)
(* The clocks of the logger and its schedule: src/src/power.rs,            *)
(* src/src/schedule.rs and the end of main's loop.                         *)
(*                                                                         *)
(* Embassy's timer counts microseconds but stops while the clocks are      *)
(* gated; the always-on (AON) timer never stops but counts milliseconds.   *)
(* Application time is the first plus, for every sleep, what the second    *)
(* says the first missed.  Deadlines are in application time.  No two      *)
(* clocks are read at once: what passes between two reads is EntrySkew at  *)
(* most before a sleep, where interrupts are enabled, and ExitSkew after.  *)
(***************************************************************************)
EXTENDS Integers

CONSTANTS
  TicksPerMs,   \* 1000 in the code: microseconds in a millisecond
  IntervalMs,   \* PUBLISH_INTERVAL_SECS, in milliseconds
  FlushMs,      \* 20 in the code: time for the logger before a sleep
  ShortestMs,   \* 2 in the code: no sleep is shorter
  EntrySkew,    \* ticks between two reads of clocks before a sleep, at most
  ExitSkew,     \* ticks between the two reads of clocks after one, at most
  MaxAwake,     \* bound: ticks a cycle lasts
  MaxLate,      \* bound: ticks a timer, or the way in or out of sleep, takes
  Horizon       \* bound: ticks after which no cycle ends

ASSUME ClockAssumption ==
  /\ TicksPerMs \in Nat \ {0}
  /\ IntervalMs \in Nat \ {0}
  /\ FlushMs \in Nat
  /\ ShortestMs \in Nat /\ ShortestMs >= 2
  /\ EntrySkew \in Nat /\ ExitSkew \in Nat
  /\ MaxAwake \in Nat /\ MaxLate \in Nat /\ Horizon \in Nat

VARIABLES
  elapsed,    \* ticks since power-on, sleep included: the true time
  native,     \* Embassy's counter
  offset,     \* SLEEP_OFFSET_US
  aon_zero,   \* the true time at which the AON counter was set to 0
  deadline,   \* next_cycle
  first,      \* the first slot, in milliseconds
  sleeps,     \* sleeps since power-on
  phase       \* "cycle", or where in wait_until: "wait" or "alarm"

clocks   == <<elapsed, native, offset>>
schedule == <<deadline, first>>
vars     == <<elapsed, native, offset, aon_zero, deadline, first, sleeps, phase>>

(* power::now() *)
Now == native + offset

(* The AON counter at a true time. *)
Aon(t) == (t - aon_zero) \div TicksPerMs

Millis(instant) == instant \div TicksPerMs

(* Faulty: the interval starts when the cycle ends; or a cycle that took   *)
(* exactly one interval is given the slot that has just passed.            *)
BadPhase(previous, now) == now + IntervalMs

BadNextDeadline(previous, now) ==
  IF now <= previous THEN previous + IntervalMs
  ELSE previous + ((now - previous + IntervalMs - 1) \div IntervalMs) * IntervalMs

(* schedule::next_deadline_ms, in milliseconds. *)
NextDeadline(previous, now) ==
  LET late == IF now > previous THEN now - previous ELSE 0 IN
    previous + (late \div IntervalMs + 1) * IntervalMs

(* Faulty: what Embassy counted on the way in and out is counted twice. *)
BadSleepCorrection(aon_ms, native_ticks) == aon_ms * TicksPerMs

(* schedule::sleep_correction_us, saturating. *)
SleepCorrection(aon_ms, native_ticks) ==
  IF aon_ms * TicksPerMs > native_ticks THEN aon_ms * TicksPerMs - native_ticks ELSE 0

-----------------------------------------------------------------------------
PoweredOn(at, zero) ==
  /\ elapsed' = at
  /\ native' = at
  /\ offset' = 0
  /\ aon_zero' = zero
  /\ deadline' = at
  /\ first' = Millis(at)
  /\ sleeps' = 0
  /\ phase' = "cycle"

(* The first cycle starts anywhere inside an AON millisecond, and so does  *)
(* Embassy's.                                                              *)
BootTimes == 0 .. TicksPerMs

Init ==
  \E at \in BootTimes : \E zero \in 0 .. at :
    /\ elapsed = at /\ native = at /\ offset = 0
    /\ aon_zero = zero
    /\ deadline = at /\ first = Millis(at)
    /\ sleeps = 0 /\ phase = "cycle"

(* Awake, both clocks run. *)
Awake(ticks) ==
  /\ elapsed' = elapsed + ticks
  /\ native' = native + ticks
  /\ UNCHANGED offset

(* The cycle ends, successful or cut short, and the next slot is computed. *)
EndCycle ==
  /\ phase = "cycle"
  /\ elapsed < Horizon
  /\ \E ticks \in 0 .. MaxAwake :
       /\ Awake(ticks)
       /\ deadline' = TicksPerMs * NextDeadline(Millis(deadline), Millis(Now + ticks))
  /\ phase' = "wait"
  /\ UNCHANGED <<aon_zero, first, sleeps>>

(* wait_until finds the deadline passed; it looks some time after the      *)
(* deadline was computed.                                                  *)
DeadlinePassed ==
  /\ phase \in {"wait", "alarm"}
  /\ \E late \in 0 .. MaxLate : deadline < Now + late /\ Awake(late)
  /\ phase' = "cycle"
  /\ UNCHANGED <<aon_zero, schedule, sleeps>>

(* On USB power, or when sensing failed, an ordinary timer waits. *)
WaitAwake ==
  /\ phase = "wait"
  /\ deadline >= Now
  /\ \E late \in 0 .. MaxLate : Awake(deadline - Now + late)
  /\ phase' = "cycle"
  /\ UNCHANGED <<aon_zero, schedule, sleeps>>

(* On battery the logger is first given time to flush. *)
FlushLogs ==
  /\ phase = "wait"
  /\ deadline >= Now
  /\ \E late \in 0 .. MaxLate : Awake(FlushMs * TicksPerMs + late)
  /\ phase' = "alarm"
  /\ UNCHANGED <<aon_zero, schedule, sleeps>>

(* Faulty: a sleep shorter than the flush is skipped as well. *)
BadTooShort(remaining) == remaining < (FlushMs + ShortestMs) * TicksPerMs

TooShort(remaining) == remaining < ShortestMs * TicksPerMs

SkipSleep ==
  /\ phase = "alarm"
  /\ deadline >= Now
  /\ TooShort(deadline - Now)
  /\ phase' = "cycle"
  /\ UNCHANGED <<clocks, aon_zero, schedule, sleeps>>

Remaining == deadline - Now

(* The AON counter is read some time after Remaining was. *)
AlarmAt(aon_before) == aon_before + Millis(Remaining)

(* set_alarm refuses an alarm that is already due. *)
AlarmRefused ==
  /\ phase = "alarm"
  /\ deadline >= Now
  /\ ~ TooShort(Remaining)
  /\ \E aon_gap \in 0 .. EntrySkew, entry \in 0 .. MaxLate :
       /\ Aon(elapsed + aon_gap + entry) >= AlarmAt(Aon(elapsed + aon_gap))
       /\ Awake(aon_gap + entry)
  /\ phase' = "cycle"
  /\ UNCHANGED <<aon_zero, schedule, sleeps>>

(* Faulty: the last sleep's correction replaces those before it. *)
BadCorrected(correction) == correction

Corrected(correction) == offset + correction

(* WFI returns at the alarm, or at once when it is already due. *)
WakesAt(alarm, ready) ==
  LET due == aon_zero + alarm * TicksPerMs IN IF due > ready THEN due ELSE ready

(* Remaining is read first, then the AON counter and then Embassy's clock, *)
(* and after the sleep the AON counter again before Embassy's clock, which *)
(* runs on the way into and out of the sleep only.                         *)
Sleep ==
  /\ phase = "alarm"
  /\ deadline >= Now
  /\ ~ TooShort(Remaining)
  /\ \E aon_gap, native_gap \in 0 .. EntrySkew, last_gap \in 0 .. ExitSkew,
        entry \in 0 .. MaxLate, exit \in 0 .. MaxLate :
       LET before  == Aon(elapsed + aon_gap)
           started == elapsed + aon_gap + native_gap
           woken   == WakesAt(AlarmAt(before), started + entry) + exit
           native_elapsed == entry + exit + last_gap
       IN  /\ elapsed' = woken + last_gap
           /\ native' = native + aon_gap + native_gap + native_elapsed
           /\ offset' = Corrected(SleepCorrection(Aon(woken) - before, native_elapsed))
  /\ sleeps' = sleeps + 1
  /\ phase' = "cycle"
  /\ UNCHANGED <<aon_zero, schedule>>

PowerCycle == \E at \in BootTimes : \E zero \in 0 .. at : PoweredOn(at, zero)

Run ==
  \/ EndCycle \/ DeadlinePassed \/ WaitAwake
  \/ FlushLogs \/ SkipSleep \/ AlarmRefused \/ Sleep

Next == Run \/ PowerCycle

Spec == Init /\ [][Next]_vars

-----------------------------------------------------------------------------
(* Correctness.                                                            *)

TypeOK ==
  /\ elapsed \in Nat /\ native \in Nat /\ offset \in Nat
  /\ aon_zero \in 0 .. elapsed
  /\ deadline \in Nat /\ first \in Nat /\ sleeps \in Nat
  /\ phase \in {"cycle", "wait", "alarm"}

(* Application time is true time, up to a millisecond and what passed      *)
(* between two reads for each sleep: the AON timer and Embassy's timer     *)
(* overlap on the way into and out of a sleep, where nothing is counted    *)
(* twice or missed but what passes between their reads.  A pause between   *)
(* them before the sleep puts application time ahead, one after it behind. *)
DriftBounded ==
  /\ Now - elapsed <= sleeps * (TicksPerMs + EntrySkew)
  /\ elapsed - Now <= sleeps * (TicksPerMs + ExitSkew)

(* schedule.rs: the quantization cannot move application time backward.    *)
TimeMovesForward == [][Now' < Now => ~ Run]_vars

(* No return of wait_until, of which it has five, starts a cycle as much   *)
(* as the shortest sleep before its slot.                                  *)
NotEarly == phase = "cycle" => Now > deadline - ShortestMs * TicksPerMs

(* Slots keep the phase of the first one, however late, early or long the  *)
(* cycles between them were.                                               *)
OnSchedule ==
  /\ phase # "cycle" => Millis(deadline) * TicksPerMs = deadline
  /\ (Millis(deadline) - first) % IntervalMs = 0

(* A missed slot is skipped and a coming one is not: the next deadline is  *)
(* ahead, and the slot before it is past or the one just served.           *)
NextSlot ==
  [][EndCycle => /\ deadline' > Now'
                 /\ \/ deadline' - IntervalMs * TicksPerMs <= Now'
                    \/ Millis(deadline') = Millis(deadline) + IntervalMs]_vars
=============================================================================
