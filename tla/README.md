# PicoDataLogger in TLA+

PicoDataLogger is firmware for a Raspberry Pi Pico 2 W. Every fifteen minutes
it wakes, reads a temperature and humidity sensor, stores the reading in flash,
joins a Wi-Fi network, publishes the stored readings over MQTT at QoS 1, powers
the radio down and sleeps. This directory holds TLA+ models of that firmware and
of the parts of the vendored CYW43 radio driver that it relies on, the TLC runs
that check them on small instances, and TLAPS proofs of their main properties
for all values of the constants.

Paths are relative to `src/`; `src/src` is the firmware, `src/vendor/cyw43` the
driver. `PROJECT.json` maps every definition to the lines it stands for.

To check a module: `tlc -config UploadCycle.cfg UploadCycle.tla`. To check its
proofs: `tlapm UploadCycleProofs.tla`.

## 1. The system

### How the parts interact

`main` (`src/src/main.rs:1037`) owns what survives a wake cycle: the flash
queue, the sensor, the UTC anchor and the sleeper. Each turn of its loop builds
the radio driver, the network stack and the MQTT client anew, inside one async
block under a 60-second budget (`AWAKE_BUDGET_SECS`). One task polls the three
futures of a cycle with `select3`: `upload_cycle`, the radio's `Runner::run` and
the network stack's runner. So nothing runs in parallel, but at every `await`
any of the others may go on, and at any of them the budget may drop all three
at once; the radio then loses its power.

    upload_cycle --(readings)--> flash queue --(flash writes, erases)--> NOR flash
         |  \--(one request slot, raw buffer)--> Runner --(SPI commands)--> CYW43
         |  <--(event queue of two messages)----/   |  <--(frames, status words)
         |  <--(link state)-------------------------/
         |--(REQUEST, RESPONSE signals)--> VoltageSpi, between the SPI commands
         |--(MQTT over TCP)--> broker        |--(NTP over UDP)--> server
         v
    wait_until: Embassy timer and AON timer --> next cycle

Three lifetimes matter. A cycle's futures, the driver and all that is in them
go at the end of the cycle. Statics (the two voltage signals, the sleep offset),
the anchor and the queue's RAM fields survive it. Only the flash survives a loss
of power.

### Inventory

| Component | Source | State | Operations | Modelled in |
| --- | --- | --- | --- | --- |
| Flash queue | `src/flash_queue.rs` | flash slots; `depth`, `next_sequence`, `dropped` in RAM | recover, append, acknowledge_oldest, reclaim | `FlashQueue` implements `MeasurementQueue` |
| Wake cycle, MQTT drain | `src/main.rs` | phase, `had_clock`, record peeked, PUBACK awaited | capture, connect, publish, retire, retry, cancel | `UploadCycle`, with `ConnectWifi` |
| UTC clock, NTP | `src/ntp.rs`, `src/main.rs` | anchor, next refresh, backoff | first synchronization, refresh, validation, `unix_now` | `UtcClock` |
| Retry backoff | `src/backoff.rs` | next delay | next, reset | `UtcClock` |
| Schedule, sleep | `src/schedule.rs`, `src/power.rs` | sleep offset, AON timer, deadline | next deadline, `wait_until`, `now` | `SleepClock` |
| VSYS voltage | `src/voltage.rs` | two signals | read, sample between bus commands | `VoltageSpi` |
| Control requests | `cyw43/ioctl.rs`, `control.rs`, `runner.rs` | slot, ids, 8-bit credit | request, cancel, send, answer | `Ioctl` |
| Join, link state | `control.rs`, `events.rs`, `runner.rs`, `main.rs` | flags, event queue, link | join, leave, LED writes, events | `WifiJoin` implements `ConnectWifi` |
| Bring-up | `runner.rs`, `lib.rs` | step, chip memory and cores | load, reset, wait, panic | `ChipInit` |
| SPI bus | `spi.rs`, `runner.rs` | window registers, cached status word | backplane transfers; reading frames | `ChipInit`, `SpiReceive` |
| Status LED | `src/status.rs` | status, fault phase; the pin on the radio | transition, tick, flash while joining | `UploadCycle`; the time its writes take: `WifiJoin`, `UtcClock` |
| Reading encoding | `src/lib.rs`, `src/flash_queue.rs` | 256 bytes of a slot; fixed buffers | encode, decode, write, JSON, identifiers, configuration checks | `ReadingFormat` |
| SDIO, Bluetooth | `sdio.rs`, `bluetooth.rs` | | compiled out | not modelled |
| Data definitions, build | `structs.rs`, `consts.rs`, ... | none | | not modelled |

### What is hard here, and what makes each part correct

- **Flash queue.** Power may fail between or inside any two flash operations,
  and any flash operation may return an error half-way through a call. Correct
  means: a bounded FIFO that loses no committed record, returns no retired one
  and never uses a number twice, and a RAM depth that agrees with the flash.
- **Record and payload.** A slot may hold half of a write or of an erase, or a
  record of older firmware whose checksum lies elsewhere; the payload and the
  client identifier have fixed buffers. Correct means: what is published is
  what was captured or nothing, and a device that gets past its boot checks can
  build every payload.
- **Wake cycle.** Timeouts race answers, the budget drops the cycle anywhere, a
  publish that timed out may still arrive. Correct means: at-least-once and in
  order, the record retired is the one the broker confirmed, one sample per
  cycle taken before the network is needed, and the queue drains in the end.
- **LED.** Whoever waits only ticks the model, which flashes nothing unless the
  phase before left it in Fault; the join flashes the pin past the model.
  Correct means: it shows what the README's table says, whatever came before.
- **UTC.** Responses come late or out of order, an LED write keeps the response
  from being read, a timeout cancels a refresh, the 32-bit NTP seconds wrap.
  Correct means: UTC within a bound of true time, timestamps that increase, and
  no stale anchor without a refresh.
- **Schedule and sleep.** Two clocks of different resolution, read one after
  the other, five ways out of `wait_until`. Correct means: time never runs back
  and drifts by at most a millisecond a sleep and what passes between two reads,
  no cycle starts before its slot, and slots keep their phase.
- **Voltage.** Static signals outlive the cycle that was dropped in the middle
  of a read. Correct means: no sample interrupts a live bus unasked, and no
  reading gets an old voltage.
- **Control requests.** The slot holds a raw pointer into a future that a
  timeout may drop. Correct means: the pointer is never used after that, no
  answer goes to another request, the chip's credit is respected.
- **Join.** Events carry no mark of the attempt they belong to, and the queue
  to the joiner overwrites its oldest message. Correct means: no join is
  decided by another's event, none misses its outcome, and the link state is
  the radio's.
- **Bring-up and bus.** The driver caches what it last wrote to the window
  registers and the last status word; the chip starts in any state. Correct
  means: every word reaches its address, the core starts with its firmware in
  place, frames are read whole.

`PROJECT.json` lists each hazard at its line with the properties that would
show it going wrong.

## 2. The modules

Each module is one component, with its state as variables and one action per
handler or awaited step. The `Bad...` operators beside some definitions are
plausible faults, one for each property: with such a fault in place of the
definition, TLC finds the property violated, so no property holds by the shape
of the model alone.

**MeasurementQueue** is the abstract promise: `pending`, a set of numbers, and
`newest`, the highest ever stored; `Store` and `Retire` of the oldest. Power
loss is not an action: it changes nothing.

**FlashQueue** is `FlashQueue` of the code, one action per flash write or erase.
A slot is Erased, Corrupt, Active or Acknowledged, with a number. `append` is
BeginAppend or DiscardOldest (on a full queue), then Allocate, WriteBody,
Commit; EraseSector and ReclaimReturns are the loop of
`reclaim_inactive_sectors`. PowerLoss may come between any two and
PowerLossInErase inside an erase; AllocateFails, WriteFails, ReclaimFails and
RecoverFails are the error paths. The module instantiates MeasurementQueue with
the numbers of active slots and the newest number on flash
(`ImplementsMeasurementQueue`). `dropped` counts a discarded record only when
the reclaim that follows succeeds: when it fails, `append` returns before the
count (`flash_queue.rs:133`), with the record retired. No property relies on it. A write of a marker clears one bit and is
atomic, a write of a body is not (the slot is corrupt in between), a torn erase
leaves each slot as it was, erased or corrupt, and a flash operation that
returns an error changed nothing, as in the fake flash of the unit tests.

**ReadingFormat** looks into one slot: its marker as the set of bits still set
(NOR flash only clears them), the rest as the fields of the layout. A checksum
is the tuple of the values it covers. `Encoded`, `Decoded` and `Read` are
`encode`, `decode` and `read_slot` for the three versions of the layout; the
actions are write_record's two writes, the acknowledgment and the erase, and a
power loss inside a write or an erase, which leaves each field old, new or (the
long one) garbled. `Boot` picks a configuration and runs the checks of
`AppConfig::load` and `compose_mqtt_client_id`; `JsonLength` is the length of
what `encode_reading` writes for it.

**ConnectWifi** is the abstract promise of `connect_wifi`: rounds of joining,
waiting for the link and for DHCP, leaving and pausing, left only with a
configured network or with the cycle.

**UploadCycle** is `main`'s loop, `upload_cycle`, `upload_attempt` and
`drain_queue` over MeasurementQueue and ConnectWifi, with the broker and the
bytes on the way to it, and with the LED: `led` is the LedStatusModel, `lit` the
pin, which JoinFlashes toggles by itself. Phases are the awaits. BudgetExpires
may come in every phase that awaits; append has no await, so only PowerLoss
interrupts it. A reconnection makes the broker drop what was under way on the
old connection.

**UtcClock** counts ticks of true UTC; `Local = now + offset` is `power::now()`.
Its phases are those of a cycle. Responses are in flight until they are read,
and a response's header is chosen when it is read. While an LED write is awaited
(`led`), nothing else of the synchronization is polled, so a response, or its
five-second timeout, is looked at only when the write ends: a first anchor may
be as late as the budget, a refreshed one as late as the NTP timeout.

**SleepClock** has the two clocks, the offset and the deadline, with one action
per return of `wait_until`: DeadlinePassed, WaitAwake, SkipSleep, AlarmRefused,
Sleep. Sleep reads each clock at a time of its own: the remaining time
(`power.rs:54`), up to EntrySkew later the AON counter (`:60`), up to EntrySkew
later Embassy's clock (`:61`), all with interrupts enabled; and in the critical
section after the sleep the AON counter (`:153`) and up to ExitSkew later
Embassy's clock (`:154`). DriftBounded is a millisecond and EntrySkew ahead, a
millisecond and ExitSkew behind; the first pause only delays the alarm.

**VoltageSpi** has `REQUEST` and `RESPONSE`, the bus between its commands and
the reader with its one-second timeout, over cycles dropped anywhere.

**Ioctl** has the request slot, the caller (DoIoctl, IoctlReturns,
IoctlDropped), the runner (SendIoctl, SendPacket, Receive) and the chip, which
takes frames in order, answers requests in any order, late or never, and puts
its credit limit into every frame. Sequence numbers wrap as in the code.

**WifiJoin** has `connect_wifi`, the join of `control.rs`, the runner's three
flags and the event queue of two. The radio works through a script of events of
the current attempt, in the orders the code allows for; commands, answers and
events are under way separately. `attempt` in an event is for the properties
only.

**ChipInit** has `Runner::init` as data: `Program` is a sequence of steps, and
each kind of step is an action (SetWindow, SendWrite, SendRead, ReturnIfReset,
AssertUp, RequestClock, Poll, PollGivesUp, InitDone). The chip has memory,
registers, window registers and two cores; it comes up with any window and any
core running, and its memory takes writes only while the memory's core runs.
Clocks and F2 come up only while the WLAN core runs loaded firmware, and stay.

**SpiReceive** has `Runner::run`, `handle_irq` and `check_status` on the SPI
bus: each command brings a status word, which `read32` hands out once in place
of reading the register, and which says how long the next frame is.

Each `...Proofs` module extends its component with the proofs about it.

### Composition

UploadCycle instantiates MeasurementQueue, and FlashQueue implements it: what is
proved about the wake cycle over the abstract queue holds over the flash. The
one thing the abstract queue lacks is that an append may fail with the queue not
full; UploadCycle has that as an action of its own (AppendFails). A slot of
FlashQueue is one of four kinds that change as `SlotLife` of ReadingFormat
allows, there shown over the bytes.

UploadCycle also instantiates ConnectWifi, and WifiJoin implements it
(ImplementsConnectWifi), with the driver, the radio and its events below: what
connecting may do to a cycle is what that code does.

The other modules meet at interfaces that each of them leaves open: UploadCycle
takes bringing up the radio and synchronizing the clock as steps that end at any
time or never, which ChipInit and UtcClock have in detail, though not by a
checked refinement; SleepClock has the cycle as a stretch of time, UtcClock the
sleep as a shift of its offset by up to a tick, which DriftBounded justifies for
a tick of a millisecond and the longer of the two pauses; Ioctl receives whole
frames, as SpiReceive shows.

## 3. The runs

| Run | Properties | Distinct states | Question |
| --- | --- | --- | --- |
| `flash_all_faults` | TypeOK, DepthAccurate, DrainedQueueHasRoom, DiscardOnlyWhenFull, ImplementsMeasurementQueue | 362,074 | is it a bounded FIFO under every fault, and writable again when it is empty? |
| `flash_outage` | AppendFindsErasedSlot (violated) | about 2,500 | does a full queue go on capturing? |
| `reading_format` | PublishedAsCaptured, BootedCanPublish, SlotLife | 30,896 | is what is published what was captured, and can it always be? |
| `upload_cycle` | NothingLostSilently, AwaitedIsOldest, OneSamplePerCycle, LedTellsPhase, OrderedAtBroker, EventuallyLeaves | 8,184 | at least once, in order, one sample, shown, and drained in the end? |
| `ioctl` | BufferAlive, OwnAnswer, WithinGrant, RequestsEnd | 114,376 | is a request that may be dropped at any time safe, and does every request end? |
| `spi_receive` | ReadsWholeFrame, FramesReceived | 3,936 | is every frame read, and with its own length? |
| `sleep_clock` | DriftBounded, NotEarly, OnSchedule, TimeMovesForward, NextSlot | 218,646 | do two clocks make one? |
| `voltage` | RequestHasReader, FreshVoltage | 624 | do the signals stay with their reads? |
| `wifi_join` | TypeOK, OutcomeHeard, LinkIsTrue, DecidedByOwnAttempt, ImplementsConnectWifi | 6,159 | do joins, events and link state stay together, and is that all a cycle sees? |
| `utc` | UtcAccurate, StaleIsRefreshed, TimestampsIncrease | 2,945,486 | is UTC right, fresh and increasing? |
| `chip_init` | HitsAddress, WrittenWhileHalted, ReadyMeansUp, AssertionHolds, StartsLoaded | 19,207 | is the radio loaded and started right from any state? |
| `chip_stall` | CyclesRecur (violated) | about 2,600 | does the awake deadline cover a radio that does not start? |

Where a TypeOK is not in the table it is proved (section 4) and not run again.

### Bounds, and why they are enough

- **Flash**: in three sectors of two slots one sector can be partly retired,
  one full and one being filled or erased, and the ring wraps. With eight
  numbers slots are used a second time.
  `flash_outage` needs 3 by 3 (the property also fails for 4 by 2 and 4 by 3 and
  holds for two sectors and for 3 by 2): sequence order and slot order must
  differ while no sector is free of active records.
- **Record**: each kind of value once absent and once present, times and
  measurements at their shortest and longest text; the buffers are the code's
  96 and 384 bytes, with names of the length of the default, of the longest
  that fits and of one byte more.
- **Upload cycle**: a queue of three overflows with four readings, and has a
  reading between the one in flight and the newest.
- **Ioctl**: three requests give one that is abandoned and unanswered, one that
  is current and one that follows. Numbers modulo 8 wrap several times; identifiers
  modulo 4 do not wrap, as 2^16 of them do not in a session of a minute.
- **SpiReceive**: two lengths can differ, three frames can wait behind each
  other, and a credit of two runs out. Frames are counted modulo three.
- **Sleep**: three ticks to the millisecond show every rounding; pauses of two ticks
  before a sleep and one after it have reads on both sides of an AON tick; a slot
  of 15 ticks is shorter than the longest cycle (16), so slots are missed; a
  lateness of 4 makes the saturating subtractions saturate; 30 ticks hold two
  sleeps. No cycle ends past the horizon: a behaviour stutters there.
- **Voltage**: five reads over any cycles, so that one cut short is followed by
  others of the same and of later cycles.
- **Wi-Fi**: three attempts give a stale one, the own and the next, and scripts
  have up to four messages for a queue of two.
- **UTC**: two ticks to the second. The first boot is at tick 1, and 28 is the
  last: three cycles and, when the clock runs fast, the start of a fourth; one
  reboot; a refresh that is due; and the end of an NTP era at tick 22, during the
  third cycle. The scale keeps the order of the code's durations (NTP timeout,
  budget, interval, refresh period, backoff).
- **Chip**: memory of three windows, registers in two others, firmware that
  crosses the end of a window and takes three commands.

MaxSequence, MaxRequests, MaxAttempts, MaxReads, MaxBoots, MaxFrames, FifoSize,
MaxCredit, Start and the horizons are bounds of the runs; the theorems hold for all
their values.

CHECK_DEADLOCK is off where the device really stops: `ioctl` (the runner panics
on a refused request), `chip_init` and `chip_stall` (a failed bring-up panics,
and `panic_halt` stops the processor).

### Fairness

Only three modules claim liveness. The executor polls every future that can go
on, which is weak fairness of the device's own steps, and timers fire. In
`UploadCycle` these steps and the timers (backoff, pauses, the budget) are one
weakly fair disjunction, as at most a few are possible at a time and each ends
its phase; strong fairness says of the network, the broker and the sensor that
what is tried again and again succeeds some time. `wait_link_up`
(`main.rs:317`), which has no timeout, is given no fairness at all: it may hang
in every cycle that enters it, and it is the budget that ends it. What is
assumed is that some join finds the link already up (JoinsAtOnce).
EventuallyLeaves also assumes that the power stays on from some time, and counts
an explicit discard as leaving. In `Ioctl` the caller and the runner are weakly fair, the
chip takes frames, and goes on answering and sending when it can (strong
fairness, because the runner empties its FIFO in between). RequestsEnd allows
the runner's panic as an end. In `SpiReceive` only the runner is weakly fair:
nothing is assumed of its callers or the chip. `ChipInit` assumes power-up and
the budget timer for `chip_stall`, which fails in spite of them.

### Findings

1. **A full queue can stop capturing** (`flash_outage`). README.md:377 says of a
   full queue that "the oldest measurement is explicitly discarded so newer
   outage data continues to be captured". `append` always takes the lowest
   erased slot, so after acknowledgments have emptied an early sector while a
   later one is partly used, sequence order and slot order differ. When the
   queue is then full, the discarded record does not empty its sector, no sector
   can be reclaimed, and `find_erased_slot` finds none: `InvalidGeometry`. The
   depth is now below the capacity, so later appends discard nothing and are
   refused as well, until the network returns. No fault is needed.
2. **A radio that is not ready in time halts the device** (`chip_stall`).
   README.md:387 says that radio initialization stalls "are also covered by the
   async deadline, provided the driver yields". The driver yields, but when the
   ALP clock is not there within 100 ms or F2 within a second, `Runner::init`
   returns an error that `cyw43::new` unwraps, and the panic stops the device
   for good. The next sentence of the README excludes panics; the reader of the
   one before it would not expect one here.

## 4. The proofs

Every theorem is checked by TLAPS for all values of the constants that satisfy
the module's assumptions, which TLC evaluates in the runs. Each safety theorem
goes through an inductive invariant `IInv`, stronger than the property, with one
step per action.

| Module | Inductive invariant, and why it is needed | Theorems |
| --- | --- | --- |
| FlashQueueProofs | the depth says something only together with the numbers: records are distinct and below `next_sequence`, the slot being written is not a record (WritingIsFresh), and append goes on only with room (RoomToAppend) | TypeCorrect, DepthCorrect, DrainedCorrect, SequencesCorrect, DiscardsCorrect, Implementation |
| UploadCycleProofs | the PUBACK on its way means that the broker has the reading (PubackMeansReceived); what is under way is not older than what the broker has (InOrder); `had_clock` and `samples` agree with the phase (CycleInv); a refresh still shows the status of the join before it (LedInv); a reading is begun only while the bound leaves a number for it (SizeInv, for the types only) | AtLeastOnce, AwaitedCorrect, BrokerOrder, OneSample, LedCorrect, TypeCorrect |
| IoctlProofs | a request's identifier is used once in a session (IdsUsedOnce), and every frame that bears the current one is of the current request (AllFresh); apart from these, for the credit: the limits on their way to the driver never fall and none is ahead by more than the chip can still take, so that `update_credit` never has to replace one (CreditInv) | TypeCorrect, BufferCorrect, AnswerCorrect, GrantCorrect |
| SleepClockProofs | the conjunction of its state properties; NextDeadlineFacts is the arithmetic of the schedule, SleepFacts follows the five reads of a sleep | TypeCorrect, DriftCorrect, WakeCorrect, ScheduleCorrect, TimeCorrect, NextSlotCorrect |
| WifiJoinProofs | which command is under way at each place of `connect_wifi` (AnswersInv); that the radio rests before it is told to join, and is associated and keyed only in the middle of its script (RestInv, ScriptInv); what the runner's flags come to once it has read what is in the air (FlagsInv); and from these, that what a listener hears is of its own attempt and includes what decides it (ListenInv) | Invariance, TypeCorrect, LinkCorrect, OutcomeCorrect, DecidedCorrect, Implementation |
| UtcClockProofs | what may be in flight and when (NetworkInv), how far each timer may be (TimersInv), the anchor's error (AnchorInv), and how long a refresh can be put off (CadenceInv); for the timestamps, how many sleeps there can have been (SleptInv), and that the latest one is below what the clock will read in the next cycle (StampInv) | TypeCorrect, UtcCorrect, RefreshCorrect, TimestampsCorrect |
| ChipInitProofs | the window registers set so far hold the target's digits; of the others the driver knows what they hold or nothing (CachedInv); and what every place in Program has already done to the registers of the cores, to the memory and to the clock (PlaceInv) | TypeCorrect, AddressCorrect, WrittenWhileHaltedCorrect, AssertionCorrect, ReadyMeansUpCorrect, StartsLoadedCorrect |
| DataPathProofs, SpiReceive | a kept status word that speaks of a frame speaks of the one at the head (StatusTrue) | FramesCorrect |
| DataPathProofs, VoltageSpi | a response in the signal was taken since the read that waits began (ResponseFresh), and a request that is still there was not served (RequestUnserved) | RequestCorrect, SamplesCorrect, VoltageCorrect |
| DataPathProofs, ReadingFormat | any slot, also one that is corrupt, holds fields of one record, erased ones and a half written one (SlotInv) | PublishedCorrect, BootedCorrect, SlotLifeCorrect |

Implementation shows that FlashQueue implements MeasurementQueue: initial states
map to initial states; Commit maps to Store, acknowledging and discarding to
Retire, and everything else, reclaiming, recovery and power loss included, to a
stutter. The step that needs thought is erasing: it must not touch the newest
record, or `newest` would fall (CleaningStutters, NewestKept).

Implementation of WifiJoinProofs shows the same of WifiJoin and ConnectWifi:
what the radio and the runner do maps to stutters, and a step of `connect_wifi`
or of the join to one of ConnectWifi's or, within a round, to none.

PublishedCorrect rests on two lemmas about the layout. A mixture of the fields of
one record with erased and garbled ones passes its checksum only if it is the
whole record (OnlyWhole), because a checksum is never erased while it is right;
and what an erase leaves can be read only if it has changed nothing
(ErasedFragment). So the bytes never have to be followed through the power losses:
a fragment stays a fragment of the same record.

TimestampsCorrect: carried by the same anchor the clock cannot go back, since
it counts the device's own time. A refresh may take it back, by the drift since
the anchor it replaces and by how long its response was under way; but its
request was sent after the cycle's reading, so that the server looked at a time
after that reading, and what a cycle sleeps makes up for the rest
(RefreshKeepsOrder). Without DriftAssumption it is false: with Interval = 7,
Horizon = 24 and EpochOffset = 3 TLC finds two readings with one timestamp.

DrainedCorrect needs no induction: of the two or more sectors at most one holds
the newest record (OneNewest), and in any other a slot that is not erased would
be dirty, for none is active, so that the sector were still to be reclaimed.

The assumptions are as weak as the code justifies.

- GeometryAssumption: at least two sectors, at least one slot.
- EnvironmentAssumption, CycleAssumption, ReadsAssumption, FrameAssumption,
  BoundAssumption, ScaleAssumption, ClockAssumption, FormatAssumption: the types
  of the parameters, that the model of UTC ends before 2106, and that the
  shortest sleep is at least two milliseconds.
- JoinAssumption: besides types, an event queue of two or more (`events.rs:291`
  has two).
- SessionAssumption: fewer requests than identifiers. CreditAssumption: the chip
  never grants more than `update_credit` believes.
- CadenceAssumption: budget and longest backoff fit into an interval (60 s and
  60 s into 900 s).
- DriftAssumption: by the horizon the sleeps since the first boot have shifted
  the clock by less than a cycle sleeps, less two seconds. A tick is the most a
  sleep may shift it: with ticks of 2 ms, half of which is left for a pause
  between two reads, and 838 s left of 900, the theorem covers more than 11 years.
- SizeAssumption: firmware and nvram fit into memory. DigitAssumption: no address
  the driver uses has the byte 0xAA, which a new driver takes the window
  registers for. PlacementAssumption: the registers are outside the memory, those
  of the two cores differ, and no other that is written is one of them.
- ValueAssumption: what is measured does not look erased or garbled, and a
  voltage is a number. BufferAssumption: the payload's buffer is the longer by
  263 bytes (384 and 96).

### Model-checked only

Liveness (EventuallyLeaves, RequestsEnd, FramesReceived), which TLAPS does not
reach. Every safety property and action property of the runs that pass is a
theorem.

## 5. What the models leave out

- CRC-32 as arithmetic: in ReadingFormat different contents have different
  checksums, so that a collision makes no garbage readable.
- In ReadingFormat also: an interrupted erase does not raise the marker while
  every other byte of the slot is still as it was; the numbers of a record may
  be half written, its shorter fields not; a name needs no escapes in JSON; the
  MQTT library accepts the identifier, the password and the topic, and its
  packet buffer of 1024 bytes is not modelled. The characters of the JSON text
  and of the hexadecimal identifier are left out, their number is not.
- The wrap of the 64-bit sequence (10^14 years away) and of the identifiers of
  control requests within one session.
- Gaps in the sequence after failed appends exist in FlashQueue, not in
  UploadCycle.
- The crystal's own error (parts per million), in SleepClock and UtcClock.
- In UtcClock: address resolution is one step, random request identifiers do
  not repeat, readings that fail have no timestamp.
- In WifiJoin: WPA2 only, events and answers in order, and the five-second pause
  after a failed join outlasts what that attempt still sends; without this the
  next join can be decided by it, since events carry no mark of their attempt.
  `wait_link_up` (`main.rs:317`) has no timeout of its own, so only the budget
  ends it.
- In VoltageSpi a sample is a number; a failed conversion is an answer too.
- In Ioctl, Control and `Runner`: what requests ask for, the CLM blob and the
  settings of `Control::init`, SDIO branches.
- In ChipInit: the fixed register writes of `SpiBus::init`, interrupt masks and
  watermarks, word formats and the byte padding of the nvram.
- In SpiReceive: interrupts other than that of an available frame.
- SDIO, Bluetooth, scanning, access point mode, WPA3: not used by this firmware.
- The USB logger, and what is logged.

## 6. Plan

The order was: the flash queue and its promise; the wake cycle over it; the
control requests every cycle depends on; clocks and schedule; voltage; joining;
UTC; bring-up and the bus; then the record format and its limits, the LED over
the whole cycle, and connecting as a promise that WifiJoin keeps and UploadCycle
uses. What comes next:

1. Refinement, checked and then proved: Ioctl's Receive by SpiReceive,
   UploadCycle's clock by UtcClock, FlashQueue's slot by ReadingFormat.
2. Models: `Control::init` with the CLM download in chunks.
