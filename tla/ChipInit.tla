------------------------------ MODULE ChipInit ------------------------------
(***************************************************************************)
(* Vendored CYW43 driver, src/vendor/cyw43/src: every wake cycle powers    *)
(* the radio up, reaches into its memory through a window of the SPI bus   *)
(* (spi.rs), loads its firmware and starts it (Runner::init, runner.rs).   *)
(* What Runner::init does in a row is data, the sequence Program; each     *)
(* kind of step is an action.  Addresses count 32-bit words.  The cycle's  *)
(* budget may drop the driver anywhere, and the chip loses everything with *)
(* its power.                                                              *)
(***************************************************************************)
EXTENDS Integers, Sequences

CONSTANTS
  WindowSize,    \* words in a window of the backplane
  Radix,         \* values of each of the three window registers
  Sentinel,      \* what a new driver takes the window registers for
  MaxTransfer,   \* words one command moves
  RamSize,       \* words of chip RAM, which begins at address 0
  FirmwareSize,  \* words
  NvramSize,     \* words
  ChipCommon, Remap, IntMask,   \* registers, by their addresses
  WlanBase, SocsramBase         \* the wrappers of the two cores

Cores        == {"WLAN", "SOCSRAM"}
Base         == [WLAN |-> WlanBase, SOCSRAM |-> SocsramBase]
IoCtrl(c)    == Base[c]        \* AI_IOCTRL_OFFSET
ResetCtrl(c) == Base[c] + 1    \* AI_RESETCTRL_OFFSET

Ram       == 0 .. RamSize - 1
Registers == {ChipCommon, Remap, Remap + 1, IntMask}
               \cup {IoCtrl(c) : c \in Cores} \cup {ResetCtrl(c) : c \in Cores}
Addresses == Ram \cup Registers

(* The window registers hold the high part of an address, in three digits. *)
Window(addr) == addr \div WindowSize
Digits(addr) ==
  << (Window(addr) \div Radix) \div Radix,
     (Window(addr) \div Radix) % Radix,
     Window(addr) % Radix >>
WindowOf(digits) == (digits[1] * Radix + digits[2]) * Radix + digits[3]

ASSUME SizeAssumption ==
  /\ WindowSize \in Nat \ {0} /\ Radix \in Nat \ {0} /\ MaxTransfer \in Nat \ {0}
  /\ RamSize \in Nat /\ FirmwareSize \in Nat \ {0} /\ NvramSize \in Nat \ {0}
  /\ FirmwareSize + NvramSize < RamSize
  /\ {ChipCommon, Remap, IntMask, WlanBase, SocsramBase} \subseteq Nat

(* A new driver takes each register for 0xAA, and no address it uses has   *)
(* this digit.                                                             *)
ASSUME DigitAssumption ==
  \A addr \in Addresses : \A i \in 1 .. 3 : Digits(addr)[i] \in (0 .. Radix - 1) \ {Sentinel}

(* The registers are outside RAM, the four of the wrappers are distinct,   *)
(* and the others that are written are none of them.                       *)
Wrappers == {WlanBase, WlanBase + 1, SocsramBase, SocsramBase + 1}

ASSUME PlacementAssumption ==
  /\ Registers \cap Ram = {}
  /\ WlanBase \notin {SocsramBase - 1, SocsramBase, SocsramBase + 1}
  /\ {Remap, Remap + 1, IntMask} \cap Wrappers = {}

-----------------------------------------------------------------------------
(* What Runner::init asks of the bus.                                      *)

(* Words: bits of the wrapper registers, the words to be loaded, and what  *)
(* is in RAM when the power comes.                                         *)
ClockEn  == 1
Fgc      == 2
Reset    == 1
Junk     == 0
Firmware == [k \in 1 .. FirmwareSize |-> k]
Nvram    == [k \in 1 .. NvramSize |-> FirmwareSize + k]
Magic    == FirmwareSize + NvramSize + 1

(* Steps that go through the window, and steps that do not. *)
Access(kind, addr, data) == [kind |-> kind, addr |-> addr, data |-> data]
Read(addr)        == Access("read", addr, <<Junk>>)
Write(addr, data) == Access("write", addr, data)
Csr(request)      == [kind |-> "csr", flag |-> request]
Await(flag)       == [kind |-> "await", flag |-> flag]

(* The second step ends it for a core that is in reset. *)
CoreDisable(c) ==
  << Read(ResetCtrl(c)), Access("return", ResetCtrl(c), <<Junk>>),
     Write(IoCtrl(c), <<0>>), Read(IoCtrl(c)),
     Write(ResetCtrl(c), <<Reset>>), Read(ResetCtrl(c)) >>

(* Faulty: the clock stays forced. *)
BadCoreReset(c) ==
  CoreDisable(c) \o
  << Write(IoCtrl(c), <<Fgc + ClockEn>>), Read(IoCtrl(c)),
     Write(ResetCtrl(c), <<0>>), Read(IoCtrl(c)) >>

CoreReset(c) ==
  CoreDisable(c) \o
  << Write(IoCtrl(c), <<Fgc + ClockEn>>), Read(IoCtrl(c)),
     Write(ResetCtrl(c), <<0>>),
     Write(IoCtrl(c), <<ClockEn>>), Read(IoCtrl(c)) >>

AssertCoreIsUp(c) ==
  << Access("assert_clock", IoCtrl(c), <<Junk>>), Access("assert_reset", ResetCtrl(c), <<Junk>>) >>

(* Faulty: the nvram ends where the word with its length belongs. *)
BadLoadFirmware ==
  << Write(Remap, <<3>>), Write(Remap + 1, <<0>>), Write(0, Firmware),
     Write(RamSize - NvramSize, Nvram), Write(RamSize - 1, <<Magic>>) >>

LoadFirmware ==
  << Write(Remap, <<3>>), Write(Remap + 1, <<0>>), Write(0, Firmware),
     Write(RamSize - 1 - NvramSize, Nvram), Write(RamSize - 1, <<Magic>>) >>

WakeBackplane ==
  << Await("bus"), Csr("alp"), Await("alp"), Csr("none"), Read(ChipCommon) >>

WakeRadio ==
  << Await("ht"), Write(IntMask, <<1>>), Await("f2"), Csr("ht"), Await("ht") >>

Program ==
  WakeBackplane
  \o CoreDisable("WLAN") \o CoreDisable("SOCSRAM") \o CoreReset("SOCSRAM")
  \o LoadFirmware
  \o CoreReset("WLAN") \o AssertCoreIsUp("WLAN")
  \o WakeRadio

-----------------------------------------------------------------------------
VARIABLES
  phase,    \* radio "off", driver "running", driver "ready", or "halted" by a panic
  pc,       \* the step of Program
  done,     \* words of the step's data already transferred
  digit,    \* backplane_set_window: the register it comes to next, 4: all set
  cached,   \* SpiBus::backplane_window
  status,   \* SpiBus::status: F2 was "ready" or "busy" at the last transfer; "none": 0
  mem,      \* the chip: RAM and registers,
  window,   \* its window registers,
  csr,      \* the clock that is requested,
  on        \* and what is up: the bus, its clocks, F2

driver == <<pc, done, digit, cached, status>>
chip   == <<mem, window, csr, on>>
vars   == <<phase, pc, done, digit, cached, status, mem, window, csr, on>>

Flags == {"bus", "alp", "ht", "f2"}

Runs(c) == mem[IoCtrl(c)] % 2 = ClockEn /\ mem[ResetCtrl(c)] % 2 # Reset

(* RAM as the WLAN core must find it. *)
Loaded ==
  /\ \A k \in 1 .. FirmwareSize : mem[k - 1] = Firmware[k]
  /\ \A k \in 1 .. NvramSize : mem[RamSize - 2 - NvramSize + k] = Nvram[k]
  /\ mem[RamSize - 1] = Magic

Off == [addr \in Addresses |-> Junk]

(* Where the chip finds the word a command means by addr. *)
Land(addr) == WindowOf(window) * WindowSize + (addr % WindowSize)

(* RAM takes nothing while its core does not run. *)
Stored(addr, data) ==
  [a \in Addresses |->
     IF \E k \in DOMAIN data : Land(addr + k - 1) = a /\ (a \in Ram => Runs("SOCSRAM"))
     THEN data[CHOOSE k \in DOMAIN data : Land(addr + k - 1) = a]
     ELSE mem[a]]

Found(addr) == IF Land(addr) \in Addresses THEN mem[Land(addr)] ELSE Junk

-----------------------------------------------------------------------------
(* Faulty: the driver survives its cycle. *)
BadNewBus == UNCHANGED <<cached, status>>

(* SpiBus::new. *)
NewBus ==
  /\ cached' = <<Sentinel, Sentinel, Sentinel>>
  /\ status' = "none"

Init ==
  /\ phase = "off"
  /\ pc = 1 /\ done = 0 /\ digit = 1
  /\ cached = <<Sentinel, Sentinel, Sentinel>> /\ status = "none"
  /\ mem = Off /\ window = <<0, 0, 0>> /\ csr = "none" /\ on = {}

(* SpiBus::init resets the chip, whose cores and window may then be        *)
(* anything.                                                               *)
PowerUp ==
  /\ phase = "off"
  /\ phase' = "running"
  /\ pc' = 1 /\ done' = 0 /\ digit' = 1
  /\ NewBus
  /\ \E io, reset \in [Cores -> {0, 1}] :
       mem' = [addr \in Addresses |->
                 CASE addr = IoCtrl("WLAN") -> io["WLAN"]
                   [] addr = IoCtrl("SOCSRAM") -> io["SOCSRAM"]
                   [] addr = ResetCtrl("WLAN") -> reset["WLAN"]
                   [] addr = ResetCtrl("SOCSRAM") -> reset["SOCSRAM"]
                   [] OTHER -> Junk]
  /\ window' \in [1 .. 3 -> 0 .. Radix - 1]
  /\ csr' = "none" /\ on' = {}

(* The budget drops the driver; GP23 powers the chip down. *)
BudgetExpires ==
  /\ phase \in {"running", "ready"}
  /\ phase' = "off"
  /\ mem' = Off /\ csr' = "none" /\ on' = {}
  /\ UNCHANGED <<driver, window>>

-----------------------------------------------------------------------------
(* The driver.                                                             *)

Running == phase = "running" /\ pc \in 1 .. Len(Program)
Now     == Program[pc]

Accesses  == {"read", "write", "return", "assert_clock", "assert_reset"}
Accessing == Running /\ Now.kind \in Accesses
Target    == Now.addr + done

(* Every command brings the chip's status word. *)
Report == status' \in IF "f2" \in on THEN {"ready"} ELSE {"busy", "none"}

Advance(steps) == pc' = pc + steps /\ done' = 0 /\ digit' = 1

(* backplane_set_window: a register that holds its digit is not written.   *)
(* What the driver knows of the window changes at the end.                 *)
SetWindow ==
  /\ Accessing /\ digit \in 1 .. 3
  /\ IF Digits(Target)[digit] # cached[digit]
     THEN /\ window' = [window EXCEPT ![digit] = Digits(Target)[digit]]
          /\ Report
     ELSE UNCHANGED <<window, status>>
  /\ digit' = digit + 1
  /\ cached' = IF digit = 3 THEN Digits(Target) ELSE cached
  /\ UNCHANGED <<phase, pc, done, mem, csr, on>>

Least(m, n) == IF m < n THEN m ELSE n

(* Faulty: a command may run over the end of the window. *)
BadChunk == Least(Len(Now.data) - done, MaxTransfer)

(* bp_write: the words the next command moves. *)
Chunk ==
  Least(Least(Len(Now.data) - done, MaxTransfer), WindowSize - (Target % WindowSize))

Sending == Accessing /\ digit = 4

SendWrite ==
  /\ Sending /\ Now.kind = "write"
  /\ mem' = Stored(Target, SubSeq(Now.data, done + 1, done + Chunk))
  /\ Report
  /\ IF done + Chunk = Len(Now.data)
     THEN Advance(1)
     ELSE done' = done + Chunk /\ digit' = 1 /\ pc' = pc
  /\ UNCHANGED <<phase, cached, window, csr, on>>

SendRead ==
  /\ Sending /\ Now.kind = "read"
  /\ Report
  /\ Advance(1)
  /\ UNCHANGED <<phase, cached, chip>>

(* Faulty: a core that is in reset is reset, and the other is not. *)
BadReturnIfReset ==
  /\ Sending /\ Now.kind = "return"
  /\ Report
  /\ Advance(IF Found(Target) % 2 # Reset THEN 5 ELSE 1)
  /\ UNCHANGED <<phase, cached, chip>>

(* core_disable, which leaves its four last steps out. *)
ReturnIfReset ==
  /\ Sending /\ Now.kind = "return"
  /\ Report
  /\ Advance(IF Found(Target) % 2 = Reset THEN 5 ELSE 1)
  /\ UNCHANGED <<phase, cached, chip>>

CoreIsUp ==
  CASE Now.kind = "assert_clock" -> Found(Target) % 4 = ClockEn
    [] Now.kind = "assert_reset" -> Found(Target) % 2 # Reset

(* assert!(core_is_up). *)
AssertUp ==
  /\ Sending /\ Now.kind \in {"assert_clock", "assert_reset"}
  /\ IF CoreIsUp
     THEN Report /\ Advance(1) /\ phase' = phase
     ELSE phase' = "halted" /\ UNCHANGED <<pc, done, digit, status>>
  /\ UNCHANGED <<cached, chip>>

RequestClock ==
  /\ Running /\ Now.kind = "csr"
  /\ csr' = Now.flag
  /\ Report
  /\ Advance(1)
  /\ UNCHANGED <<phase, cached, mem, window, on>>

(* read32 answers for the status register from the last command's word.    *)
FromCache == Now.flag = "f2" /\ status # "none"

(* Faulty: the wait goes on although the time is up. *)
BadSeen == TRUE

Seen == IF FromCache THEN status = "ready" ELSE Now.flag \in on

Poll ==
  /\ Running /\ Now.kind = "await"
  /\ IF FromCache THEN status' = "none" ELSE Report
  /\ IF Seen THEN Advance(1) ELSE UNCHANGED <<pc, done, digit>>
  /\ UNCHANGED <<phase, cached, chip>>

(* try_until is over for the ALP clock or F2, and cyw43::new unwraps the   *)
(* error.                                                                  *)
PollGivesUp ==
  /\ Running /\ Now.kind = "await" /\ Now.flag \in {"alp", "f2"}
  /\ ~ Seen
  /\ phase' = "halted"
  /\ UNCHANGED <<driver, chip>>

InitDone ==
  /\ phase = "running" /\ pc > Len(Program)
  /\ phase' = "ready"
  /\ UNCHANGED <<driver, chip>>

-----------------------------------------------------------------------------
(* The chip: the bus comes with the power, the ALP clock with its request, *)
(* the rest with the firmware.                                             *)
ComesUp ==
  /\ phase \in {"running", "ready"}
  /\ \/ on' = on \cup {"bus"}
     \/ csr = "alp" /\ on' = on \cup {"alp"}
     \/ Runs("WLAN") /\ Loaded /\ \E flag \in {"ht", "f2"} : on' = on \cup {flag}
  /\ on' # on
  /\ UNCHANGED <<phase, driver, mem, window, csr>>

Next ==
  \/ PowerUp \/ BudgetExpires
  \/ SetWindow \/ SendWrite \/ SendRead \/ ReturnIfReset \/ AssertUp
  \/ RequestClock \/ Poll \/ PollGivesUp \/ InitDone
  \/ ComesUp

Spec == Init /\ [][Next]_vars

(* The executor polls whoever is ready, the budget's timer included, as    *)
(* long as the processor runs.                                             *)
FairSpec == Spec /\ WF_vars(PowerUp) /\ WF_vars(BudgetExpires)

-----------------------------------------------------------------------------
(* Correctness.                                                            *)

TypeOK ==
  /\ phase \in {"off", "running", "ready", "halted"}
  /\ pc \in Nat \ {0} /\ digit \in 1 .. 4
  /\ cached \in [1 .. 3 -> 0 .. Radix - 1] \cup {<<Sentinel, Sentinel, Sentinel>>}
  /\ window \in [1 .. 3 -> 0 .. Radix - 1]
  /\ status \in {"none", "busy", "ready"}
  /\ mem \in [Addresses -> Nat]
  /\ csr \in {"none", "alp", "ht"} /\ on \subseteq Flags
  /\ done \in Nat
  /\ Accessing => done < Len(Now.data) /\ Target \in Addresses

(* Every word of a command goes to the address it is meant for: what the   *)
(* driver remembers of the window, over cycles dropped in the middle of    *)
(* setting it and a chip that comes up with any, is never wrong, and no    *)
(* command runs over the end of the window.                                *)
HitsAddress ==
  Sending => \A k \in 0 .. Chunk - 1 : Land(Target + k) = Target + k

(* RAM is written while its own core runs and the WLAN core does not.      *)
WrittenWhileHalted ==
  Sending /\ Now.kind = "write" /\ Target \in Ram => Runs("SOCSRAM") /\ ~ Runs("WLAN")

(* The driver starts the WLAN core only with firmware, nvram and the       *)
(* nvram's length in place.                                                *)
StartsLoaded ==
  [][phase = "running" /\ ~ Runs("WLAN") /\ Runs("WLAN")' => Loaded']_vars

(* A driver that is ready has a radio that is: its firmware runs, its      *)
(* clock and its F2 are there, whatever a cached status word said.         *)
ReadyMeansUp ==
  phase = "ready" => Runs("WLAN") /\ Loaded /\ {"ht", "f2"} \subseteq on

(* A core that was reset is up: the assertion of Runner::init never fails. *)
AssertionHolds ==
  Sending /\ Now.kind \in {"assert_clock", "assert_reset"} => CoreIsUp

(* README.md:387, "Radio initialization or sensor/driver stalls are also   *)
(* covered by the async deadline, provided the driver yields": every cycle *)
(* ends, and another follows.                                              *)
CyclesRecur == []<>(phase = "off")
=============================================================================
