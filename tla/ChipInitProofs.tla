--------------------------- MODULE ChipInitProofs ---------------------------
(***************************************************************************)
(* That the driver of ChipInit reaches every address it means, for every   *)
(* size of the window and of the memory and every placement of the         *)
(* registers, and that it loads and starts the radio right.                *)
(*                                                                         *)
(* The first needs to know what the window registers hold (CachedInv); the *)
(* second what each place in Program has already done to the chip: to the  *)
(* registers of its cores, to its memory, and to its clock (PlaceInv).     *)
(***************************************************************************)
EXTENDS ChipInit, TLAPS

-----------------------------------------------------------------------------
(* The steps of the program.                                               *)

AccessSteps ==
  {s \in [kind : Accesses, addr : Nat, data : Seq(Nat)] :
     /\ Len(s.data) > 0
     /\ \A k \in 0 .. Len(s.data) - 1 : s.addr + k \in Addresses}

Steps ==
  AccessSteps \cup [kind : {"csr"}, flag : {"none", "alp", "ht"}]
              \cup [kind : {"await"}, flag : Flags]

LEMMA StepType ==
  ASSUME NEW s \in [kind : Accesses, addr : Nat, data : Seq(Nat)],
         Len(s.data) > 0,
         \A k \in 0 .. Len(s.data) - 1 : s.addr + k \in Addresses
  PROVE  s \in Steps
<1>1. s \in AccessSteps
  BY Zenon DEF AccessSteps
<1> QED
  BY <1>1, Zenon DEF Steps

LEMMA AccessType ==
  ASSUME NEW kind \in Accesses, NEW addr \in Addresses, NEW word \in Nat
  PROVE  Access(kind, addr, <<word>>) \in Steps
<1> DEFINE s == Access(kind, addr, <<word>>)
<1>1. addr \in Nat
  BY SizeAssumption DEF Addresses, Ram, Registers, IoCtrl, ResetCtrl, Base, Cores
<1>2. s \in [kind : Accesses, addr : Nat, data : Seq(Nat)]
  BY <1>1 DEF Access
<1>3. Len(s.data) = 1 /\ s.addr = addr
  BY DEF Access
<1> HIDE DEF s
<1>4. \A k \in 0 .. Len(s.data) - 1 : s.addr + k \in Addresses
  BY <1>1, <1>3
<1>5. Len(s.data) > 0
  BY <1>3
<1>6. s \in Steps
  BY <1>2, <1>4, <1>5, StepType, Zenon
<1> QED
  BY <1>6 DEF s

LEMMA LoadType ==
  /\ Write(0, Firmware) \in Steps
  /\ Write(RamSize - 1 - NvramSize, Nvram) \in Steps
<1> USE SizeAssumption
<1> DEFINE f == Write(0, Firmware)
           n == Write(RamSize - 1 - NvramSize, Nvram)
<1>1. Firmware \in Seq(Nat) /\ Len(Firmware) = FirmwareSize
  BY DEF Firmware
<1>2. Nvram \in Seq(Nat) /\ Len(Nvram) = NvramSize
  BY DEF Nvram
<1>3. f \in [kind : Accesses, addr : Nat, data : Seq(Nat)] /\ f.addr = 0 /\ Len(f.data) = FirmwareSize
  BY <1>1 DEF Write, Access, Accesses
<1>4. /\ n \in [kind : Accesses, addr : Nat, data : Seq(Nat)]
      /\ n.addr = RamSize - 1 - NvramSize /\ Len(n.data) = NvramSize
  BY <1>2 DEF Write, Access, Accesses
<1> HIDE DEF f, n
<1>5. \A k \in 0 .. Len(f.data) - 1 : f.addr + k \in Addresses
  BY <1>3 DEF Addresses, Ram
<1>6. \A k \in 0 .. Len(n.data) - 1 : n.addr + k \in Addresses
  BY <1>4 DEF Addresses, Ram
<1>7. Len(f.data) > 0 /\ Len(n.data) > 0
  BY <1>3, <1>4
<1>8. f \in Steps /\ n \in Steps
  BY <1>3, <1>4, <1>5, <1>6, <1>7, StepType, Zenon
<1> QED
  BY <1>8 DEF f, n

LEMMA ConcatType ==
  ASSUME NEW S, NEW s \in Seq(S), NEW t \in Seq(S)
  PROVE  s \o t \in Seq(S)
OBVIOUS

LEMMA CoreSteps ==
  ASSUME NEW c \in Cores
  PROVE  /\ Read(IoCtrl(c)) \in Steps /\ Read(ResetCtrl(c)) \in Steps
         /\ Access("return", ResetCtrl(c), <<Junk>>) \in Steps
         /\ \A word \in Nat : /\ Write(IoCtrl(c), <<word>>) \in Steps
                             /\ Write(ResetCtrl(c), <<word>>) \in Steps
<1>1. IoCtrl(c) \in Addresses /\ ResetCtrl(c) \in Addresses
  BY DEF Addresses, Registers
<1> QED
  BY <1>1, AccessType DEF Read, Write, Accesses, Junk

LEMMA TailType ==
  ASSUME NEW c \in Cores
  PROVE  << Write(IoCtrl(c), <<Fgc + ClockEn>>), Read(IoCtrl(c)),
            Write(ResetCtrl(c), <<0>>),
            Write(IoCtrl(c), <<ClockEn>>), Read(IoCtrl(c)) >> \in Seq(Steps)
BY CoreSteps DEF Fgc, ClockEn

LEMMA CoreType ==
  ASSUME NEW c \in Cores
  PROVE  CoreDisable(c) \in Seq(Steps) /\ CoreReset(c) \in Seq(Steps)
<1>1. CoreDisable(c) \in Seq(Steps)
  BY CoreSteps DEF CoreDisable, Reset
<1> QED
  BY <1>1, TailType, ConcatType DEF CoreReset

LEMMA PartType ==
  /\ WakeBackplane \in Seq(Steps) /\ LoadFirmware \in Seq(Steps)
  /\ AssertCoreIsUp("WLAN") \in Seq(Steps) /\ WakeRadio \in Seq(Steps)
  /\ \A c \in Cores : CoreDisable(c) \in Seq(Steps) /\ CoreReset(c) \in Seq(Steps)
  /\ CoreDisable("WLAN") \in Seq(Steps) /\ CoreReset("WLAN") \in Seq(Steps)
  /\ CoreDisable("SOCSRAM") \in Seq(Steps) /\ CoreReset("SOCSRAM") \in Seq(Steps)
<1>1. "WLAN" \in Cores /\ "SOCSRAM" \in Cores
  BY DEF Cores
<1>2. WakeBackplane \in Seq(Steps)
  <2>1. Read(ChipCommon) \in Steps
    BY AccessType DEF Read, Accesses, Junk, Addresses, Registers
  <2>2. \A f \in Flags : Await(f) \in Steps
    BY DEF Await, Steps
  <2>3. \A f \in {"none", "alp", "ht"} : Csr(f) \in Steps
    BY DEF Csr, Steps
  <2> QED
    BY <2>1, <2>2, <2>3 DEF Flags, WakeBackplane
<1>3. LoadFirmware \in Seq(Steps)
  <2>1. Remap \in Addresses /\ Remap + 1 \in Addresses /\ RamSize - 1 \in Addresses
    BY SizeAssumption DEF Addresses, Registers, Ram
  <2>2. Magic \in Nat
    BY SizeAssumption DEF Magic
  <2>3. /\ Write(Remap, <<3>>) \in Steps /\ Write(Remap + 1, <<0>>) \in Steps
        /\ Write(RamSize - 1, <<Magic>>) \in Steps
    BY <2>1, <2>2, AccessType DEF Write, Accesses
  <2> QED
    BY <2>3, LoadType DEF LoadFirmware
<1>4. AssertCoreIsUp("WLAN") \in Seq(Steps)
  BY <1>1, AccessType DEF AssertCoreIsUp, Accesses, Junk, Addresses, Registers
<1>5. WakeRadio \in Seq(Steps)
  <2>1. Write(IntMask, <<1>>) \in Steps
    BY AccessType DEF Write, Accesses, Addresses, Registers
  <2>2. \A f \in Flags : Await(f) \in Steps
    BY DEF Await, Steps
  <2>3. Csr("ht") \in Steps
    BY DEF Csr, Steps
  <2> QED
    BY <2>1, <2>2, <2>3 DEF Flags, WakeRadio
<1> HIDE DEF Steps, LoadFirmware, AssertCoreIsUp
<1> QED
  BY <1>1, <1>2, <1>3, <1>4, <1>5, CoreType

LEMMA ProgramType == Program \in Seq(Steps)
BY PartType, ConcatType DEF Program

LEMMA StepFacts ==
  ASSUME NEW n \in 1 .. Len(Program)
  PROVE  /\ Program[n].kind \in Accesses =>
              /\ Program[n].addr \in Nat
              /\ Program[n].data \in Seq(Nat) /\ Len(Program[n].data) > 0
              /\ \A k \in 0 .. Len(Program[n].data) - 1 : Program[n].addr + k \in Addresses
         /\ Program[n].kind = "csr" => Program[n].flag \in {"none", "alp", "ht"}
<1> DEFINE s == Program[n]
<1>1. s \in Steps
  BY ProgramType
<1> HIDE DEF s
<1>2. CASE s \in AccessSteps
  <2>1. s.kind \in Accesses /\ s.addr \in Nat /\ s.data \in Seq(Nat)
    BY <1>2 DEF AccessSteps
  <2>2. Len(s.data) > 0 /\ \A k \in 0 .. Len(s.data) - 1 : s.addr + k \in Addresses
    BY <1>2, Zenon DEF AccessSteps
  <2> QED
    BY <2>1, <2>2 DEF s, Accesses
<1>3. CASE s \in [kind : {"csr"}, flag : {"none", "alp", "ht"}]
  BY <1>3 DEF s, Accesses
<1>4. CASE s \in [kind : {"await"}, flag : Flags]
  BY <1>4 DEF s, Accesses
<1> QED
  BY <1>1, <1>2, <1>3, <1>4 DEF Steps

-----------------------------------------------------------------------------
(* The invariant: the registers set so far hold the target's digits; of    *)
(* the others the driver either knows what they hold or knows nothing.     *)

CachedInv ==
  phase = "running" =>
    /\ digit # 1 => Accessing
    /\ digit = 4 => cached = Digits(Target)
    /\ \A i \in 1 .. 3 :
         IF i < digit THEN window[i] = Digits(Target)[i]
                      ELSE cached[i] \in {window[i], Sentinel}

IInv == TypeOK /\ CachedInv

LEMMA DigitsType ==
  ASSUME NEW addr \in Addresses
  PROVE  /\ Digits(addr) \in [1 .. 3 -> 0 .. Radix - 1]
         /\ \A i \in 1 .. 3 : Digits(addr)[i] # Sentinel
<1>1. \A i \in 1 .. 3 : Digits(addr)[i] \in (0 .. Radix - 1) \ {Sentinel}
  BY DigitAssumption
<1>2. Digits(addr) = [i \in 1 .. 3 |-> Digits(addr)[i]]
  BY DEF Digits
<1> QED
  BY <1>1, <1>2

(* A step begins within its data. *)
LEMMA NewStep ==
  ASSUME pc' \in Nat \ {0}, done' = 0
  PROVE  (Accessing => done < Len(Now.data) /\ Target \in Addresses)'
<1> SUFFICES ASSUME Accessing'
             PROVE  0 < Len(Now'.data) /\ Now'.addr + 0 \in Addresses
  BY DEF Target
<1>1. pc' \in 1 .. Len(Program) /\ Now' = Program[pc'] /\ Now'.kind \in Accesses
  BY DEF Accessing, Running, Now
<1>2. /\ Len(Program[pc'].data) > 0 /\ Program[pc'].data \in Seq(Nat)
      /\ \A k \in 0 .. Len(Program[pc'].data) - 1 : Program[pc'].addr + k \in Addresses
  BY <1>1, StepFacts
<1>3. 0 \in 0 .. Len(Program[pc'].data) - 1
  BY <1>2
<1> QED
  BY <1>1, <1>2, <1>3

(* Between two transfers the driver is right about what it knows. *)
LEMMA Settled ==
  ASSUME IInv, phase = "running", digit = 4 \/ ~ Accessing
  PROVE  \A i \in 1 .. 3 : cached[i] \in {window[i], Sentinel}
<1>1. CASE digit = 4
  BY <1>1 DEF IInv, CachedInv
<1>2. CASE ~ Accessing
  <2>1. digit = 1
    BY <1>2 DEF IInv, CachedInv
  <2> QED
    BY <2>1 DEF IInv, CachedInv
<1> QED
  BY <1>1, <1>2

(* What is left of a step's data, and of the window, bounds a command. *)
LEMMA ChunkBound ==
  ASSUME TypeOK, Accessing
  PROVE  /\ Chunk \in Nat \ {0}
         /\ done + Chunk <= Len(Now.data)
         /\ Chunk <= WindowSize - (Target % WindowSize)
<1>1. pc \in 1 .. Len(Program) /\ Now.kind \in Accesses /\ Now = Program[pc]
  BY DEF Accessing, Running, Now
<1>2. Now.data \in Seq(Nat) /\ Now.addr \in Nat
  BY <1>1, StepFacts
<1>3. Len(Now.data) \in Nat /\ done \in Nat /\ done < Len(Now.data)
  BY <1>2 DEF TypeOK
<1>4. Target \in Nat
  BY <1>2, <1>3 DEF Target
<1>5. Target % WindowSize \in 0 .. WindowSize - 1
  BY <1>4, SizeAssumption
<1> DEFINE rest == Len(Now.data) - done
           room == WindowSize - (Target % WindowSize)
<1>6. rest \in Nat \ {0} /\ room \in Nat \ {0}
  BY <1>3, <1>5, SizeAssumption
<1>7. Chunk = Least(Least(rest, MaxTransfer), room)
  BY DEF Chunk
<1> HIDE DEF rest, room
<1>8. Chunk \in Nat \ {0} /\ Chunk <= rest /\ Chunk <= room
  BY <1>6, <1>7, SizeAssumption DEF Least
<1> QED
  BY <1>3, <1>8 DEF rest, room

-----------------------------------------------------------------------------
(* The steps.                                                              *)

LEMMA Initially == Init => IInv
<1> SUFFICES ASSUME Init PROVE IInv
  OBVIOUS
<1>1. ~ Accessing
  BY DEF Init, Accessing, Running
<1>2. window \in [1 .. 3 -> 0 .. Radix - 1]
  BY SizeAssumption DEF Init
<1>3. mem \in [Addresses -> Nat]
  BY DEF Init, Off, Junk
<1> QED
  BY <1>1, <1>2, <1>3 DEF Init, IInv, TypeOK, CachedInv, Flags

LEMMA PowerUpKeeps ==
  ASSUME IInv, PowerUp
  PROVE  IInv'
<1>1. (Accessing => done < Len(Now.data) /\ Target \in Addresses)'
  BY NewStep DEF PowerUp
<1>2. mem' \in [Addresses -> Nat]
  <2> DEFINE start(io, reset) ==
        [addr \in Addresses |->
           CASE addr = IoCtrl("WLAN") -> io["WLAN"]
             [] addr = IoCtrl("SOCSRAM") -> io["SOCSRAM"]
             [] addr = ResetCtrl("WLAN") -> reset["WLAN"]
             [] addr = ResetCtrl("SOCSRAM") -> reset["SOCSRAM"]
             [] OTHER -> Junk]
  <2>1. PICK io \in [Cores -> {0, 1}], reset \in [Cores -> {0, 1}] : mem' = start(io, reset)
    BY DEF PowerUp
  <2>2. /\ io["WLAN"] \in Nat /\ io["SOCSRAM"] \in Nat
        /\ reset["WLAN"] \in Nat /\ reset["SOCSRAM"] \in Nat
    BY DEF Cores
  <2> QED
    BY <2>1, <2>2 DEF Junk
<1>3. /\ window' \in [1 .. 3 -> 0 .. Radix - 1]
      /\ pc' = 1 /\ done' = 0 /\ digit' = 1
      /\ cached' = <<Sentinel, Sentinel, Sentinel>> /\ status' = "none"
      /\ phase' = "running" /\ csr' = "none" /\ on' = {}
  BY DEF PowerUp, NewBus
<1>4. TypeOK'
  BY <1>1, <1>2, <1>3 DEF TypeOK
<1>5. CachedInv'
  BY <1>3 DEF CachedInv
<1> QED
  BY <1>4, <1>5 DEF IInv

(* A step that ends leaves the window alone and begins the next one. *)
LEMMA AdvanceKeeps ==
  ASSUME IInv, Running, digit = 4 \/ ~ Accessing,
         NEW steps \in Nat, Advance(steps), phase' = phase, UNCHANGED <<cached, window>>,
         status' \in {"none", "busy", "ready"},
         mem' \in [Addresses -> Nat], csr' \in {"none", "alp", "ht"}, on' = on
  PROVE  IInv'
<1>1. pc' \in Nat \ {0} /\ done' = 0 /\ digit' = 1
  BY DEF Advance, IInv, TypeOK
<1>2. (Accessing => done < Len(Now.data) /\ Target \in Addresses)'
  BY <1>1, NewStep
<1>3. TypeOK'
  BY <1>1, <1>2 DEF IInv, TypeOK
<1>4. \A i \in 1 .. 3 : cached[i] \in {window[i], Sentinel}
  BY Settled DEF Running
<1>5. CachedInv'
  BY <1>1, <1>4 DEF CachedInv
<1> QED
  BY <1>3, <1>5 DEF IInv

LEMMA SetWindowKeeps ==
  ASSUME IInv, SetWindow
  PROVE  IInv'
<1> DEFINE D == Digits(Target)
<1>1. /\ Accessing /\ phase = "running" /\ digit \in 1 .. 3 /\ digit' = digit + 1
      /\ phase' = phase /\ pc' = pc /\ done' = done
  BY DEF SetWindow, Accessing, Running
<1>2. Target \in Addresses /\ done < Len(Now.data)
  BY <1>1 DEF IInv, TypeOK
<1>3. D \in [1 .. 3 -> 0 .. Radix - 1] /\ D[digit] # Sentinel
  BY <1>1, <1>2, DigitsType
<1>4. Accessing' /\ Target' = Target /\ Now' = Now
  BY <1>1 DEF Accessing, Running, Now, Target
<1>5. /\ D[digit] # cached[digit] => window' = [window EXCEPT ![digit] = D[digit]] /\ Report
      /\ D[digit] = cached[digit] => UNCHANGED <<window, status>>
      /\ cached' = IF digit = 3 THEN D ELSE cached
      /\ mem' = mem /\ csr' = csr /\ on' = on
  BY DEF SetWindow
<1>6. window \in [1 .. 3 -> 0 .. Radix - 1] /\ status \in {"none", "busy", "ready"}
  BY DEF IInv, TypeOK
<1>7. window' \in [1 .. 3 -> 0 .. Radix - 1] /\ status' \in {"none", "busy", "ready"}
  BY <1>1, <1>3, <1>5, <1>6 DEF Report
<1>8. \A i \in 1 .. 3 : IF i < digit THEN window[i] = D[i] ELSE cached[i] \in {window[i], Sentinel}
  BY <1>1 DEF IInv, CachedInv
<1>9. cached' \in [1 .. 3 -> 0 .. Radix - 1] \cup {<<Sentinel, Sentinel, Sentinel>>}
  BY <1>3, <1>5 DEF IInv, TypeOK
<1> HIDE DEF D
<1>10. TypeOK'
  BY <1>1, <1>2, <1>4, <1>5, <1>7, <1>9 DEF IInv, TypeOK
<1>11. \A i \in 1 .. 3 : IF i < digit' THEN window'[i] = D[i]
                                        ELSE cached'[i] \in {window'[i], Sentinel}
  BY <1>1, <1>3, <1>5, <1>6, <1>8
<1>12. digit' = 4 => cached' = D
  BY <1>1, <1>5
<1>13. D = Digits(Target)'
  BY <1>4 DEF D, Digits, Window
<1>14. CachedInv'
  BY <1>4, <1>11, <1>12, <1>13 DEF CachedInv
<1> QED
  BY <1>10, <1>14 DEF IInv

LEMMA SendWriteKeeps ==
  ASSUME IInv, SendWrite
  PROVE  IInv'
<1> DEFINE sent == SubSeq(Now.data, done + 1, done + Chunk)
<1>1. /\ Sending /\ Accessing /\ Running /\ phase = "running" /\ digit = 4
      /\ phase' = phase /\ UNCHANGED <<cached, window>> /\ csr' = csr /\ on' = on
      /\ pc \in 1 .. Len(Program) /\ Now.kind \in Accesses /\ Now = Program[pc]
  BY DEF SendWrite, Sending, Accessing, Running, Now
<1>2. /\ Now.data \in Seq(Nat) /\ Now.addr \in Nat
      /\ \A k \in 0 .. Len(Now.data) - 1 : Now.addr + k \in Addresses
  BY <1>1, StepFacts
<1>3. Chunk \in Nat \ {0} /\ done + Chunk <= Len(Now.data) /\ done \in Nat
  BY <1>1, ChunkBound DEF IInv, TypeOK
<1>4. sent \in Seq(Nat)
  BY <1>2, <1>3
<1>5. mem' \in [Addresses -> Nat]
  <2>1. mem' = Stored(Target, sent) /\ mem \in [Addresses -> Nat]
    BY DEF SendWrite, IInv, TypeOK
  <2>2. \A k \in DOMAIN sent : sent[k] \in Nat
    BY <1>4
  <2> HIDE DEF sent
  <2>3. \A a \in Addresses :
          (\E k \in DOMAIN sent : Land(Target + k - 1) = a /\ (a \in Ram => Runs("SOCSRAM")))
            => (CHOOSE k \in DOMAIN sent : Land(Target + k - 1) = a) \in DOMAIN sent
    OBVIOUS
  <2> QED
    BY <2>1, <2>2, <2>3 DEF Stored
<1>6. status' \in {"none", "busy", "ready"}
  BY DEF SendWrite, Report
<1>7. csr \in {"none", "alp", "ht"}
  BY DEF IInv, TypeOK
<1>8. CASE done + Chunk = Len(Now.data)
  <2>1. Advance(1)
    BY <1>8 DEF SendWrite
  <2> QED
    BY <1>1, <1>5, <1>6, <1>7, <2>1, AdvanceKeeps
<1>9. CASE done + Chunk # Len(Now.data)
  <2>1. done' = done + Chunk /\ digit' = 1 /\ pc' = pc
    BY <1>9 DEF SendWrite
  <2>2. Now' = Now
    BY <2>1 DEF Now
  <2>3. done' < Len(Now.data) /\ done' \in 0 .. Len(Now.data) - 1
    <3> DEFINE words == Chunk
               length == Len(Now.data)
    <3>1. /\ words \in Nat /\ length \in Nat /\ done \in Nat
          /\ done' = done + words /\ done + words <= length /\ done + words # length
      BY <1>2, <1>3, <1>9, <2>1
    <3> HIDE DEF words, length
    <3>2. done' < length /\ done' \in 0 .. length - 1
      BY <3>1
    <3> QED
      BY <3>2 DEF length
  <2>4. Now.addr + done' \in Addresses
    BY <1>2, <2>3
  <2>5. Target' = Now.addr + done'
    BY <2>2 DEF Target
  <2>6. (Accessing => done < Len(Now.data) /\ Target \in Addresses)' /\ done' \in Nat
    BY <2>2, <2>3, <2>4, <2>5
  <2> HIDE DEF sent
  <2>7. TypeOK'
    BY <1>1, <1>5, <1>6, <2>1, <2>6 DEF IInv, TypeOK
  <2>8. \A i \in 1 .. 3 : cached[i] \in {window[i], Sentinel}
    BY <1>1, Settled
  <2>9. CachedInv'
    BY <1>1, <2>1, <2>8 DEF CachedInv
  <2> QED
    BY <2>7, <2>9 DEF IInv
<1> QED
  BY <1>8, <1>9

LEMMA Inductive == IInv /\ [Next]_vars => IInv'
<1> SUFFICES ASSUME IInv, [Next]_vars PROVE IInv'
  OBVIOUS
<1>1. /\ mem \in [Addresses -> Nat] /\ csr \in {"none", "alp", "ht"}
      /\ status \in {"none", "busy", "ready"}
  BY DEF IInv, TypeOK
<1>2. CASE PowerUp
  BY <1>2, PowerUpKeeps
<1>3. CASE BudgetExpires
  <2>1. /\ phase' = "off" /\ pc' = pc /\ done' = done /\ digit' = digit /\ cached' = cached
        /\ status' = status /\ window' = window /\ mem' = Off /\ csr' = "none" /\ on' = {}
    BY <1>3 DEF BudgetExpires, driver
  <2>2. mem' \in [Addresses -> Nat]
    BY <2>1 DEF Off, Junk
  <2>3. ~ Accessing'
    BY <2>1 DEF Accessing, Running
  <2> QED
    BY <2>1, <2>2, <2>3 DEF IInv, TypeOK, CachedInv
<1>4. CASE SetWindow
  BY <1>4, SetWindowKeeps
<1>5. CASE SendWrite
  BY <1>5, SendWriteKeeps
<1>6. CASE SendRead
  <2>1. /\ Running /\ digit = 4 /\ Advance(1) /\ phase' = phase /\ UNCHANGED <<cached, window>>
        /\ status' \in {"none", "busy", "ready"} /\ mem' = mem /\ csr' = csr /\ on' = on
    BY <1>6 DEF SendRead, Sending, Accessing, Report, chip
  <2> QED
    BY <1>1, <2>1, AdvanceKeeps
<1>7. CASE ReturnIfReset
  <2> DEFINE steps == IF Found(Target) % 2 = Reset THEN 5 ELSE 1
  <2>1. /\ Running /\ digit = 4 /\ Advance(steps) /\ phase' = phase /\ UNCHANGED <<cached, window>>
        /\ status' \in {"none", "busy", "ready"} /\ mem' = mem /\ csr' = csr /\ on' = on
    BY <1>7 DEF ReturnIfReset, Sending, Accessing, Report, chip
  <2>2. steps \in Nat
    OBVIOUS
  <2> HIDE DEF steps
  <2> QED
    BY <1>1, <2>1, <2>2, AdvanceKeeps
<1>8. CASE AssertUp
  <2>1. CASE CoreIsUp
    <3>1. /\ Running /\ digit = 4 /\ Advance(1) /\ phase' = phase /\ UNCHANGED <<cached, window>>
          /\ status' \in {"none", "busy", "ready"} /\ mem' = mem /\ csr' = csr /\ on' = on
      BY <1>8, <2>1 DEF AssertUp, Sending, Accessing, Report, chip
    <3> QED
      BY <1>1, <3>1, AdvanceKeeps
  <2>2. CASE ~ CoreIsUp
    <3>1. phase' = "halted" /\ UNCHANGED <<driver, chip>>
      BY <1>8, <2>2 DEF AssertUp, driver
    <3>2. ~ Accessing'
      BY <3>1 DEF Accessing, Running
    <3> QED
      BY <3>1, <3>2 DEF IInv, TypeOK, CachedInv, driver, chip
  <2> QED
    BY <2>1, <2>2
<1>9. CASE RequestClock
  <2>1. /\ Running /\ ~ Accessing /\ Advance(1) /\ phase' = phase /\ UNCHANGED <<cached, window>>
        /\ status' \in {"none", "busy", "ready"} /\ mem' = mem /\ csr' = Now.flag /\ on' = on
    BY <1>9 DEF RequestClock, Accessing, Accesses, Report
  <2>2. csr' \in {"none", "alp", "ht"}
    BY <1>9, <2>1, StepFacts DEF RequestClock, Running, Now
  <2> QED
    BY <1>1, <2>1, <2>2, AdvanceKeeps
<1>10. CASE Poll
  <2>1. /\ Running /\ ~ Accessing /\ phase' = phase /\ UNCHANGED <<cached, window>>
        /\ status' \in {"none", "busy", "ready"} /\ mem' = mem /\ csr' = csr /\ on' = on
    BY <1>10 DEF Poll, Accessing, Accesses, Report, chip
  <2>2. CASE Seen
    <3>1. Advance(1)
      BY <1>10, <2>2 DEF Poll
    <3> QED
      BY <1>1, <2>1, <3>1, AdvanceKeeps
  <2>3. CASE ~ Seen
    <3>1. UNCHANGED <<pc, done, digit>>
      BY <1>10, <2>3 DEF Poll
    <3>2. (Accessing' <=> Accessing) /\ Now' = Now /\ Target' = Target
      BY <2>1, <3>1 DEF Accessing, Running, Now, Target
    <3> QED
      BY <2>1, <3>1, <3>2 DEF IInv, TypeOK, CachedInv
  <2> QED
    BY <2>2, <2>3
<1>11. CASE PollGivesUp
  <2>1. phase' = "halted" /\ UNCHANGED <<driver, chip>>
    BY <1>11 DEF PollGivesUp
  <2>2. ~ Accessing'
    BY <2>1 DEF Accessing, Running
  <2> QED
    BY <2>1, <2>2 DEF IInv, TypeOK, CachedInv, driver, chip
<1>12. CASE InitDone
  <2>1. phase' = "ready" /\ UNCHANGED <<driver, chip>>
    BY <1>12 DEF InitDone
  <2>2. ~ Accessing'
    BY <2>1 DEF Accessing, Running
  <2> QED
    BY <2>1, <2>2 DEF IInv, TypeOK, CachedInv, driver, chip
<1>13. CASE ComesUp
  <2>1. /\ phase' = phase /\ UNCHANGED driver /\ mem' = mem /\ window' = window /\ csr' = csr
        /\ on' \subseteq Flags
    BY <1>13 DEF ComesUp, IInv, TypeOK, Flags
  <2>2. (Accessing' <=> Accessing) /\ Now' = Now /\ Target' = Target
    BY <2>1 DEF Accessing, Running, Now, Target, driver
  <2> QED
    BY <2>1, <2>2 DEF IInv, TypeOK, CachedInv, driver
<1>14. CASE UNCHANGED vars
  <2>1. (Accessing' <=> Accessing) /\ Now' = Now /\ Target' = Target
    BY <1>14 DEF Accessing, Running, Now, Target, vars
  <2> QED
    BY <1>14, <2>1 DEF IInv, TypeOK, CachedInv, vars
<1> QED
  BY <1>2, <1>3, <1>4, <1>5, <1>6, <1>7, <1>8, <1>9, <1>10, <1>11, <1>12, <1>13, <1>14 DEF Next

-----------------------------------------------------------------------------
(* The driver never accesses what is no address of the chip, and keeps     *)
(* within the data of its step.                                            *)
THEOREM TypeCorrect == Spec => []TypeOK
<1>1. IInv => TypeOK
  BY DEF IInv
<1> QED
  BY <1>1, Initially, Inductive, PTL DEF Spec

(* The digits of a window are those of one window only. *)
LEMMA WindowOfDigits ==
  ASSUME NEW addr \in Nat
  PROVE  WindowOf(Digits(addr)) = Window(addr)
<1>1. \A n, m \in Nat : m # 0 => (n \div m) \in Nat /\ (n % m) \in Nat /\ (n \div m) * m + (n % m) = n
  OBVIOUS
<1> DEFINE w == Window(addr)
           q == w \div Radix
<1>2. w \in Nat
  BY <1>1, SizeAssumption DEF Window
<1>3. q \in Nat /\ q * Radix + (w % Radix) = w
  BY <1>1, <1>2, SizeAssumption
<1>4. (q \div Radix) * Radix + (q % Radix) = q
  BY <1>1, <1>3, SizeAssumption
<1>5. WindowOf(Digits(addr)) = ((q \div Radix) * Radix + (q % Radix)) * Radix + (w % Radix)
  BY DEF WindowOf, Digits
<1> QED
  BY <1>3, <1>4, <1>5

(* Within a window, an address is its window and its offset. *)
LEMMA LandsInWindow ==
  ASSUME NEW addr \in Nat, NEW k \in Nat, k < WindowSize - (addr % WindowSize)
  PROVE  Window(addr) * WindowSize + ((addr + k) % WindowSize) = addr + k
<1> DEFINE q == addr \div WindowSize
           r == addr % WindowSize
<1>1. q \in Nat /\ r \in 0 .. WindowSize - 1 /\ q * WindowSize + r = addr
  BY SizeAssumption
<1>2. r + k \in 0 .. WindowSize - 1
  BY <1>1, SizeAssumption
<1>3. \A m \in Nat \ {0} : \A x \in Nat : \A y \in 0 .. m - 1 : (x * m + y) % m = y
  OBVIOUS
<1>4. (q * WindowSize + (r + k)) % WindowSize = r + k
  BY <1>1, <1>2, <1>3, SizeAssumption
<1>5. q * WindowSize \in Nat
  BY <1>1, SizeAssumption
<1>6. q * WindowSize + (r + k) = addr + k
  BY <1>1, <1>2, <1>5
<1> QED
  BY <1>4, <1>6 DEF Window

(* Every word of a command goes to its address. *)
LEMMA Hits == IInv => HitsAddress
<1> SUFFICES ASSUME IInv, Sending, NEW k \in 0 .. Chunk - 1
             PROVE  Land(Target + k) = Target + k
  BY DEF HitsAddress
<1>1. Accessing /\ phase = "running" /\ digit = 4
  BY DEF Sending, Accessing, Running
<1>2. \A i \in 1 .. 3 : window[i] = Digits(Target)[i]
  BY <1>1 DEF IInv, CachedInv
<1>3. WindowOf(window) = WindowOf(Digits(Target))
  BY <1>2 DEF WindowOf
<1>4. Target \in Nat
  BY <1>1, SizeAssumption
  DEF IInv, TypeOK, Addresses, Ram, Registers, IoCtrl, ResetCtrl, Base, Cores
<1>5. k \in Nat /\ k < WindowSize - (Target % WindowSize)
  <2>1. Chunk \in Nat \ {0} /\ Chunk <= WindowSize - (Target % WindowSize)
    BY <1>1, ChunkBound DEF IInv
  <2>2. Target % WindowSize \in Int
    BY <1>4, SizeAssumption
  <2> HIDE DEF Target
  <2> QED
    BY <2>1, <2>2, SizeAssumption
<1> QED
  BY <1>3, <1>4, <1>5, WindowOfDigits, LandsInWindow DEF Land

(* Every word of every command goes to its address. *)
THEOREM AddressCorrect == Spec => []HitsAddress
BY Hits, Initially, Inductive, PTL DEF Spec

-----------------------------------------------------------------------------
(* The program, step by step.                                              *)

(* u is s, which has m steps, and then t, which has n. *)
Joined(s, t, u, m, n) ==
  /\ u \in Seq(Steps) /\ Len(u) = m + n
  /\ \A i \in 1 .. m : u[i] = s[i]
  /\ \A i \in 1 .. n : u[m + i] = t[i]

LEMMA ConcatAt ==
  ASSUME NEW s \in Seq(Steps), NEW t \in Seq(Steps)
  PROVE  Joined(s, t, s \o t, Len(s), Len(t))
BY DEF Joined

LEMMA DisableSteps ==
  ASSUME NEW c
  PROVE  /\ Len(CoreDisable(c)) = 6
         /\ CoreDisable(c)[1] = Read(ResetCtrl(c))
         /\ CoreDisable(c)[2] = Access("return", ResetCtrl(c), <<Junk>>)
         /\ CoreDisable(c)[3] = Write(IoCtrl(c), <<0>>)
         /\ CoreDisable(c)[4] = Read(IoCtrl(c))
         /\ CoreDisable(c)[5] = Write(ResetCtrl(c), <<Reset>>)
         /\ CoreDisable(c)[6] = Read(ResetCtrl(c))
BY DEF CoreDisable

LEMMA ResetSteps ==
  ASSUME NEW c \in Cores
  PROVE  /\ Len(CoreReset(c)) = 11
         /\ \A i \in 1 .. 6 : CoreReset(c)[i] = CoreDisable(c)[i]
         /\ CoreReset(c)[7] = Write(IoCtrl(c), <<Fgc + ClockEn>>)
         /\ CoreReset(c)[8] = Read(IoCtrl(c))
         /\ CoreReset(c)[9] = Write(ResetCtrl(c), <<0>>)
         /\ CoreReset(c)[10] = Write(IoCtrl(c), <<ClockEn>>)
         /\ CoreReset(c)[11] = Read(IoCtrl(c))
<1> DEFINE s == CoreDisable(c)
           t == << Write(IoCtrl(c), <<Fgc + ClockEn>>), Read(IoCtrl(c)),
                   Write(ResetCtrl(c), <<0>>),
                   Write(IoCtrl(c), <<ClockEn>>), Read(IoCtrl(c)) >>
           u == CoreReset(c)
<1>1. u = s \o t
  BY DEF CoreReset
<1>2. s \in Seq(Steps) /\ t \in Seq(Steps)
  BY CoreType, TailType
<1>3. Len(s) = 6
  BY DisableSteps
<1>4. /\ Len(t) = 5
      /\ t[1] = Write(IoCtrl(c), <<Fgc + ClockEn>>) /\ t[2] = Read(IoCtrl(c))
      /\ t[3] = Write(ResetCtrl(c), <<0>>)
      /\ t[4] = Write(IoCtrl(c), <<ClockEn>>) /\ t[5] = Read(IoCtrl(c))
  OBVIOUS
<1>5. 11 = 6 + 5
  OBVIOUS
<1> HIDE DEF s, t, u
<1>6. /\ Len(u) = 11
      /\ \A i \in 1 .. 6 : u[i] = s[i]
      /\ \A i \in 1 .. 5 : u[6 + i] = t[i]
  <2>1. Len(t) = 5
    BY <1>4, Zenon
  <2>2. Joined(s, t, s \o t, 6, 5)
    BY <1>2, <1>3, <2>1, ConcatAt
  <2>3. Joined(s, t, u, 6, 5)
    BY <1>1, <2>2, Zenon
  <2> QED
    BY <1>5, <2>3, Zenon DEF Joined
<1>7. u[7] = t[1] /\ u[8] = t[2] /\ u[9] = t[3] /\ u[10] = t[4] /\ u[11] = t[5]
  <2>1. \A j \in 7 .. 11 : u[j] = t[j - 6]
    <3> TAKE j \in 7 .. 11
    <3>1. j - 6 \in 1 .. 5 /\ 6 + (j - 6) = j
      OBVIOUS
    <3> QED
      BY <1>6, <3>1
  <2> QED
    BY <2>1
<1> QED
  BY <1>4, <1>6, <1>7 DEF s, u

LEMMA OtherSteps ==
  /\ Len(WakeBackplane) = 5
  /\ WakeBackplane[1] = Await("bus") /\ WakeBackplane[2] = Csr("alp")
  /\ WakeBackplane[3] = Await("alp") /\ WakeBackplane[4] = Csr("none")
  /\ WakeBackplane[5] = Read(ChipCommon)
  /\ Len(LoadFirmware) = 5
  /\ LoadFirmware[1] = Write(Remap, <<3>>) /\ LoadFirmware[2] = Write(Remap + 1, <<0>>)
  /\ LoadFirmware[3] = Write(0, Firmware)
  /\ LoadFirmware[4] = Write(RamSize - 1 - NvramSize, Nvram)
  /\ LoadFirmware[5] = Write(RamSize - 1, <<Magic>>)
  /\ Len(AssertCoreIsUp("WLAN")) = 2
  /\ AssertCoreIsUp("WLAN")[1] = Access("assert_clock", IoCtrl("WLAN"), <<Junk>>)
  /\ AssertCoreIsUp("WLAN")[2] = Access("assert_reset", ResetCtrl("WLAN"), <<Junk>>)
  /\ Len(WakeRadio) = 5
  /\ WakeRadio[1] = Await("ht") /\ WakeRadio[2] = Write(IntMask, <<1>>)
  /\ WakeRadio[3] = Await("f2") /\ WakeRadio[4] = Csr("ht") /\ WakeRadio[5] = Await("ht")
BY DEF WakeBackplane, LoadFirmware, AssertCoreIsUp, WakeRadio

(* Where each part of the program begins. *)
LEMMA Listing ==
  /\ Len(Program) = 51
  /\ \A i \in 1 .. 5 : Program[i] = WakeBackplane[i]
  /\ \A i \in 1 .. 6 : Program[5 + i] = CoreDisable("WLAN")[i]
  /\ \A i \in 1 .. 6 : Program[11 + i] = CoreDisable("SOCSRAM")[i]
  /\ \A i \in 1 .. 11 : Program[17 + i] = CoreReset("SOCSRAM")[i]
  /\ \A i \in 1 .. 5 : Program[28 + i] = LoadFirmware[i]
  /\ \A i \in 1 .. 11 : Program[33 + i] = CoreReset("WLAN")[i]
  /\ \A i \in 1 .. 2 : Program[44 + i] = AssertCoreIsUp("WLAN")[i]
  /\ \A i \in 1 .. 5 : Program[46 + i] = WakeRadio[i]
<1> DEFINE A == WakeBackplane
           B == CoreDisable("WLAN")
           C == CoreDisable("SOCSRAM")
           D == CoreReset("SOCSRAM")
           E == LoadFirmware
           F == CoreReset("WLAN")
           G == AssertCoreIsUp("WLAN")
           H == WakeRadio
<1>1. /\ Len(A) = 5 /\ Len(B) = 6 /\ Len(C) = 6 /\ Len(D) = 11 /\ Len(E) = 5 /\ Len(F) = 11
      /\ Len(G) = 2 /\ Len(H) = 5
  BY DisableSteps, ResetSteps, OtherSteps DEF Cores
<1>2. /\ A \in Seq(Steps) /\ B \in Seq(Steps) /\ C \in Seq(Steps) /\ D \in Seq(Steps)
      /\ E \in Seq(Steps) /\ F \in Seq(Steps) /\ G \in Seq(Steps) /\ H \in Seq(Steps)
  BY PartType
<1>3. Program = A \o B \o C \o D \o E \o F \o G \o H
  BY DEF Program
<1>4. 11 = 5 + 6 /\ 17 = 11 + 6 /\ 28 = 17 + 11 /\ 33 = 28 + 5 /\ 44 = 33 + 11 /\ 46 = 44 + 2
      /\ 51 = 46 + 5
  OBVIOUS
<1> HIDE DEF A, B, C, D, E, F, G, H
<1> DEFINE AB == A \o B
           AC == AB \o C
           AD == AC \o D
           AE == AD \o E
           AF == AE \o F
           AG == AF \o G
           P  == AG \o H
<1>5. /\ AB = A \o B /\ AC = AB \o C /\ AD = AC \o D /\ AE = AD \o E
      /\ AF = AE \o F /\ AG = AF \o G /\ P = AG \o H
      /\ Program = P
  BY <1>3, Zenon
<1> HIDE DEF AB, AC, AD, AE, AF, AG, P
<1>6. /\ AB \in Seq(Steps) /\ Len(AB) = 11
      /\ \A i \in 1 .. 5 : AB[i] = A[i]
      /\ \A i \in 1 .. 6 : AB[5 + i] = B[i]
  <2>1. /\ A \in Seq(Steps) /\ B \in Seq(Steps)
        /\ Len(A) = 5 /\ Len(B) = 6
    BY <1>1, <1>2, Zenon
  <2>2. Joined(A, B, A \o B, 5, 6)
    BY <2>1, ConcatAt
  <2>3. Joined(A, B, AB, 5, 6)
    BY <1>5, <2>2, Zenon
  <2> QED
    BY <1>4, <2>3, Zenon DEF Joined
<1>7. /\ AC \in Seq(Steps) /\ Len(AC) = 17
      /\ \A i \in 1 .. 11 : AC[i] = AB[i]
      /\ \A i \in 1 .. 6 : AC[11 + i] = C[i]
  <2>1. /\ AB \in Seq(Steps) /\ C \in Seq(Steps)
        /\ Len(AB) = 11 /\ Len(C) = 6
    BY <1>1, <1>2, <1>6, Zenon
  <2>2. Joined(AB, C, AB \o C, 11, 6)
    BY <2>1, ConcatAt
  <2>3. Joined(AB, C, AC, 11, 6)
    BY <1>5, <2>2, Zenon
  <2> QED
    BY <1>4, <2>3, Zenon DEF Joined
<1>8. /\ AD \in Seq(Steps) /\ Len(AD) = 28
      /\ \A i \in 1 .. 17 : AD[i] = AC[i]
      /\ \A i \in 1 .. 11 : AD[17 + i] = D[i]
  <2>1. /\ AC \in Seq(Steps) /\ D \in Seq(Steps)
        /\ Len(AC) = 17 /\ Len(D) = 11
    BY <1>1, <1>2, <1>7, Zenon
  <2>2. Joined(AC, D, AC \o D, 17, 11)
    BY <2>1, ConcatAt
  <2>3. Joined(AC, D, AD, 17, 11)
    BY <1>5, <2>2, Zenon
  <2> QED
    BY <1>4, <2>3, Zenon DEF Joined
<1>9. /\ AE \in Seq(Steps) /\ Len(AE) = 33
      /\ \A i \in 1 .. 28 : AE[i] = AD[i]
      /\ \A i \in 1 .. 5 : AE[28 + i] = E[i]
  <2>1. /\ AD \in Seq(Steps) /\ E \in Seq(Steps)
        /\ Len(AD) = 28 /\ Len(E) = 5
    BY <1>1, <1>2, <1>8, Zenon
  <2>2. Joined(AD, E, AD \o E, 28, 5)
    BY <2>1, ConcatAt
  <2>3. Joined(AD, E, AE, 28, 5)
    BY <1>5, <2>2, Zenon
  <2> QED
    BY <1>4, <2>3, Zenon DEF Joined
<1>10. /\ AF \in Seq(Steps) /\ Len(AF) = 44
       /\ \A i \in 1 .. 33 : AF[i] = AE[i]
       /\ \A i \in 1 .. 11 : AF[33 + i] = F[i]
  <2>1. /\ AE \in Seq(Steps) /\ F \in Seq(Steps)
        /\ Len(AE) = 33 /\ Len(F) = 11
    BY <1>1, <1>2, <1>9, Zenon
  <2>2. Joined(AE, F, AE \o F, 33, 11)
    BY <2>1, ConcatAt
  <2>3. Joined(AE, F, AF, 33, 11)
    BY <1>5, <2>2, Zenon
  <2> QED
    BY <1>4, <2>3, Zenon DEF Joined
<1>11. /\ AG \in Seq(Steps) /\ Len(AG) = 46
       /\ \A i \in 1 .. 44 : AG[i] = AF[i]
       /\ \A i \in 1 .. 2 : AG[44 + i] = G[i]
  <2>1. /\ AF \in Seq(Steps) /\ G \in Seq(Steps)
        /\ Len(AF) = 44 /\ Len(G) = 2
    BY <1>1, <1>2, <1>10, Zenon
  <2>2. Joined(AF, G, AF \o G, 44, 2)
    BY <2>1, ConcatAt
  <2>3. Joined(AF, G, AG, 44, 2)
    BY <1>5, <2>2, Zenon
  <2> QED
    BY <1>4, <2>3, Zenon DEF Joined
<1>12. /\ P \in Seq(Steps) /\ Len(P) = 51
       /\ \A i \in 1 .. 46 : P[i] = AG[i]
       /\ \A i \in 1 .. 5 : P[46 + i] = H[i]
  <2>1. /\ AG \in Seq(Steps) /\ H \in Seq(Steps)
        /\ Len(AG) = 46 /\ Len(H) = 5
    BY <1>1, <1>2, <1>11, Zenon
  <2>2. Joined(AG, H, AG \o H, 46, 5)
    BY <2>1, ConcatAt
  <2>3. Joined(AG, H, P, 46, 5)
    BY <1>5, <2>2, Zenon
  <2> QED
    BY <1>4, <2>3, Zenon DEF Joined
<1>13. /\ \A i \in 1 .. 44 : i \in 1 .. 46
       /\ \A i \in 1 .. 33 : i \in 1 .. 44
       /\ \A i \in 1 .. 11 : 33 + i \in 1 .. 44
       /\ \A i \in 1 .. 28 : i \in 1 .. 33
       /\ \A i \in 1 .. 17 : i \in 1 .. 28
       /\ \A i \in 1 .. 11 : 17 + i \in 1 .. 28
       /\ \A i \in 1 .. 11 : i \in 1 .. 17
       /\ \A i \in 1 .. 6 : 11 + i \in 1 .. 17
       /\ \A i \in 1 .. 5 : i \in 1 .. 11
       /\ \A i \in 1 .. 6 : 5 + i \in 1 .. 11
       /\ \A i \in 1 .. 2 : 44 + i \in 1 .. 46
       /\ \A i \in 1 .. 5 : 28 + i \in 1 .. 33
  OBVIOUS
<1>14. /\ \A i \in 1 .. 44 : P[i] = AF[i]
       /\ \A i \in 1 .. 2 : P[44 + i] = G[i]
  <2>1. \A i \in 1 .. 44 : P[i] = AF[i]
    BY <1>11, <1>12, <1>13, Zenon
  <2>2. \A i \in 1 .. 2 : P[44 + i] = G[i]
    <3>1. \A i \in 1 .. 46 : P[i] = AG[i]
      BY <1>12, Zenon
    <3>2. \A i \in 1 .. 2 : 44 + i \in 1 .. 46
      BY <1>13, Zenon
    <3>3. \A i \in 1 .. 2 : AG[44 + i] = G[i]
      BY <1>11, Zenon
    <3> QED
      BY <3>1, <3>2, <3>3, Zenon
  <2> QED
    BY <2>1, <2>2, Zenon
<1>15. /\ \A i \in 1 .. 33 : P[i] = AE[i]
       /\ \A i \in 1 .. 11 : P[33 + i] = F[i]
  BY <1>10, <1>13, <1>14, Zenon
<1>16. /\ \A i \in 1 .. 28 : P[i] = AD[i]
       /\ \A i \in 1 .. 5 : P[28 + i] = E[i]
  BY <1>9, <1>13, <1>15, Zenon
<1>17. /\ \A i \in 1 .. 17 : P[i] = AC[i]
       /\ \A i \in 1 .. 11 : P[17 + i] = D[i]
  BY <1>8, <1>13, <1>16, Zenon
<1>18. /\ \A i \in 1 .. 11 : P[i] = AB[i]
       /\ \A i \in 1 .. 6 : P[11 + i] = C[i]
  BY <1>7, <1>13, <1>17, Zenon
<1>19. /\ \A i \in 1 .. 5 : P[i] = A[i]
       /\ \A i \in 1 .. 6 : P[5 + i] = B[i]
  BY <1>6, <1>13, <1>18, Zenon
<1>20. /\ Len(P) = 51
       /\ \A i \in 1 .. 5 : P[46 + i] = H[i]
  BY <1>12
<1>21. P = Program
  BY <1>5, Zenon
<1> QED
  BY <1>14, <1>15, <1>16, <1>17, <1>18, <1>19, <1>20, <1>21 DEF A, B, C, D, E, F, G, H

(* The steps of core_disable after the first n of the program, and those   *)
(* of core_reset.                                                          *)
DisablesAt(c, n) ==
  /\ Program[n + 1] = Read(ResetCtrl(c))
  /\ Program[n + 2] = Access("return", ResetCtrl(c), <<Junk>>)
  /\ Program[n + 3] = Write(IoCtrl(c), <<0>>)
  /\ Program[n + 4] = Read(IoCtrl(c))
  /\ Program[n + 5] = Write(ResetCtrl(c), <<Reset>>)
  /\ Program[n + 6] = Read(ResetCtrl(c))

ResetsAt(c, n) ==
  /\ DisablesAt(c, n)
  /\ Program[n + 7] = Write(IoCtrl(c), <<Fgc + ClockEn>>)
  /\ Program[n + 8] = Read(IoCtrl(c))
  /\ Program[n + 9] = Write(ResetCtrl(c), <<0>>)
  /\ Program[n + 10] = Write(IoCtrl(c), <<ClockEn>>)
  /\ Program[n + 11] = Read(IoCtrl(c))

LEMMA CoresAt ==
  /\ DisablesAt("WLAN", 5) /\ DisablesAt("SOCSRAM", 11)
  /\ ResetsAt("SOCSRAM", 17) /\ ResetsAt("WLAN", 33)
<1>1. "WLAN" \in Cores /\ "SOCSRAM" \in Cores
  BY DEF Cores
<1>2. ASSUME NEW c, NEW n, \A i \in 1 .. 6 : Program[n + i] = CoreDisable(c)[i]
      PROVE  DisablesAt(c, n)
  <2>1. \A i \in 1 .. 6 : Program[n + i] = CoreDisable(c)[i]
    BY <1>2
  <2>2. /\ Program[n + 1] = CoreDisable(c)[1] /\ Program[n + 2] = CoreDisable(c)[2]
        /\ Program[n + 3] = CoreDisable(c)[3] /\ Program[n + 4] = CoreDisable(c)[4]
        /\ Program[n + 5] = CoreDisable(c)[5] /\ Program[n + 6] = CoreDisable(c)[6]
    BY <2>1
  <2> QED
    BY <2>2, DisableSteps, Zenon DEF DisablesAt
<1>3. ASSUME NEW c \in Cores, NEW n, \A i \in 1 .. 11 : Program[n + i] = CoreReset(c)[i]
      PROVE  ResetsAt(c, n)
  <2>1. /\ \A i \in 1 .. 11 : Program[n + i] = CoreReset(c)[i]
        /\ \A i \in 1 .. 6 : CoreReset(c)[i] = CoreDisable(c)[i]
    BY <1>3, ResetSteps
  <2>2. \A i \in 1 .. 6 : Program[n + i] = CoreDisable(c)[i]
    BY <2>1
  <2>3. /\ Program[n + 7] = CoreReset(c)[7] /\ Program[n + 8] = CoreReset(c)[8]
        /\ Program[n + 9] = CoreReset(c)[9] /\ Program[n + 10] = CoreReset(c)[10]
        /\ Program[n + 11] = CoreReset(c)[11]
    BY <2>1
  <2>4. DisablesAt(c, n)
    BY <1>2, <2>2, Zenon
  <2>5. /\ Program[n + 7] = Write(IoCtrl(c), <<Fgc + ClockEn>>)
        /\ Program[n + 8] = Read(IoCtrl(c))
        /\ Program[n + 9] = Write(ResetCtrl(c), <<0>>)
        /\ Program[n + 10] = Write(IoCtrl(c), <<ClockEn>>)
        /\ Program[n + 11] = Read(IoCtrl(c))
    <3>1. c \in Cores
      BY <1>3
    <3> QED
      BY <2>3, <3>1, ResetSteps, Zenon
  <2> QED
    BY <2>4, <2>5, Zenon DEF ResetsAt
<1>4. /\ \A i \in 1 .. 6 : Program[5 + i] = CoreDisable("WLAN")[i]
      /\ \A i \in 1 .. 6 : Program[11 + i] = CoreDisable("SOCSRAM")[i]
  BY Listing, Zenon
<1>5. \A i \in 1 .. 11 : Program[17 + i] = CoreReset("SOCSRAM")[i]
  BY Listing, Zenon
<1>6. \A i \in 1 .. 11 : Program[33 + i] = CoreReset("WLAN")[i]
  BY Listing, Zenon
<1>7. DisablesAt("WLAN", 5)
  BY <1>2, <1>4, Zenon
<1>8. DisablesAt("SOCSRAM", 11)
  BY <1>2, <1>4, Zenon
<1>9. ResetsAt("SOCSRAM", 17)
  BY <1>1, <1>3, <1>5, Zenon
<1>10. ResetsAt("WLAN", 33)
  BY <1>1, <1>3, <1>6, Zenon
<1> QED
  BY <1>7, <1>8, <1>9, <1>10, Zenon

LEMMA RestAt ==
  /\ Program[1] = Await("bus") /\ Program[2] = Csr("alp") /\ Program[3] = Await("alp")
  /\ Program[4] = Csr("none") /\ Program[5] = Read(ChipCommon)
  /\ Program[29] = Write(Remap, <<3>>) /\ Program[30] = Write(Remap + 1, <<0>>)
  /\ Program[31] = Write(0, Firmware) /\ Program[32] = Write(RamSize - 1 - NvramSize, Nvram)
  /\ Program[33] = Write(RamSize - 1, <<Magic>>)
  /\ Program[45] = Access("assert_clock", IoCtrl("WLAN"), <<Junk>>)
  /\ Program[46] = Access("assert_reset", ResetCtrl("WLAN"), <<Junk>>)
  /\ Program[47] = Await("ht") /\ Program[48] = Write(IntMask, <<1>>)
  /\ Program[49] = Await("f2") /\ Program[50] = Csr("ht") /\ Program[51] = Await("ht")
<1>1. /\ Program[1] = WakeBackplane[1] /\ Program[2] = WakeBackplane[2]
      /\ Program[3] = WakeBackplane[3] /\ Program[4] = WakeBackplane[4]
      /\ Program[5] = WakeBackplane[5]
  BY Listing
<1>2. /\ Program[28 + 1] = LoadFirmware[1] /\ Program[28 + 2] = LoadFirmware[2]
      /\ Program[28 + 3] = LoadFirmware[3] /\ Program[28 + 4] = LoadFirmware[4]
      /\ Program[28 + 5] = LoadFirmware[5]
  BY Listing
<1>3. /\ Program[44 + 1] = AssertCoreIsUp("WLAN")[1]
      /\ Program[44 + 2] = AssertCoreIsUp("WLAN")[2]
  BY Listing
<1>4. /\ Program[46 + 1] = WakeRadio[1] /\ Program[46 + 2] = WakeRadio[2]
      /\ Program[46 + 3] = WakeRadio[3] /\ Program[46 + 4] = WakeRadio[4]
      /\ Program[46 + 5] = WakeRadio[5]
  BY Listing
<1>5. /\ 28 + 1 = 29 /\ 28 + 2 = 30 /\ 28 + 3 = 31 /\ 28 + 4 = 32 /\ 28 + 5 = 33
      /\ 44 + 1 = 45 /\ 44 + 2 = 46
      /\ 46 + 1 = 47 /\ 46 + 2 = 48 /\ 46 + 3 = 49 /\ 46 + 4 = 50 /\ 46 + 5 = 51
  OBVIOUS
<1> QED
  BY <1>1, <1>2, <1>3, <1>4, <1>5, OtherSteps

(* What each kind of step does, and where. *)
Does(n, kind, addr, data) ==
  Program[n].kind = kind /\ Program[n].addr = addr /\ Program[n].data = data

LEMMA DisableDoes ==
  ASSUME NEW c, NEW n, DisablesAt(c, n)
  PROVE  /\ Program[n + 1].kind = "read" /\ Program[n + 4].kind = "read"
         /\ Program[n + 6].kind = "read"
         /\ Does(n + 2, "return", ResetCtrl(c), <<Junk>>)
         /\ Does(n + 3, "write", IoCtrl(c), <<0>>)
         /\ Does(n + 5, "write", ResetCtrl(c), <<Reset>>)
<1> DEFINE k(m) == n + m
           io == IoCtrl(c)
           rs == ResetCtrl(c)
<1>1. /\ Program[k(1)] = Read(rs) /\ Program[k(2)] = Access("return", rs, <<Junk>>)
      /\ Program[k(3)] = Write(io, <<0>>) /\ Program[k(4)] = Read(io)
      /\ Program[k(5)] = Write(rs, <<Reset>>) /\ Program[k(6)] = Read(rs)
  BY DEF DisablesAt
<1> HIDE DEF k, io, rs
<1>2. /\ Program[k(1)].kind = "read" /\ Program[k(4)].kind = "read"
      /\ Program[k(6)].kind = "read"
      /\ Does(k(2), "return", rs, <<Junk>>)
      /\ Does(k(3), "write", io, <<0>>)
      /\ Does(k(5), "write", rs, <<Reset>>)
  BY <1>1 DEF Does, Read, Write, Access
<1> QED
  BY <1>2, Zenon DEF k, io, rs

LEMMA ResetDoes ==
  ASSUME NEW c, NEW n, ResetsAt(c, n)
  PROVE  /\ Program[n + 8].kind = "read" /\ Program[n + 11].kind = "read"
         /\ Does(n + 7, "write", IoCtrl(c), <<Fgc + ClockEn>>)
         /\ Does(n + 9, "write", ResetCtrl(c), <<0>>)
         /\ Does(n + 10, "write", IoCtrl(c), <<ClockEn>>)
<1> DEFINE k(m) == n + m
           io == IoCtrl(c)
           rs == ResetCtrl(c)
<1>1. /\ Program[k(7)] = Write(io, <<Fgc + ClockEn>>) /\ Program[k(8)] = Read(io)
      /\ Program[k(9)] = Write(rs, <<0>>)
      /\ Program[k(10)] = Write(io, <<ClockEn>>) /\ Program[k(11)] = Read(io)
  BY DEF ResetsAt
<1> HIDE DEF k, io, rs
<1>2. /\ Program[k(8)].kind = "read" /\ Program[k(11)].kind = "read"
      /\ Does(k(7), "write", io, <<Fgc + ClockEn>>)
      /\ Does(k(9), "write", rs, <<0>>)
      /\ Does(k(10), "write", io, <<ClockEn>>)
  BY <1>1 DEF Does, Read, Write, Access
<1> QED
  BY <1>2, Zenon DEF k, io, rs

LEMMA WlanDoes ==
  /\ \A n \in {6, 9, 11, 34, 37, 39, 41, 44} : Program[n].kind = "read"
  /\ \A n \in {7, 35} : Does(n, "return", ResetCtrl("WLAN"), <<Junk>>)
  /\ \A n \in {8, 36} : Does(n, "write", IoCtrl("WLAN"), <<0>>)
  /\ \A n \in {10, 38} : Does(n, "write", ResetCtrl("WLAN"), <<Reset>>)
  /\ Does(40, "write", IoCtrl("WLAN"), <<Fgc + ClockEn>>)
  /\ Does(42, "write", ResetCtrl("WLAN"), <<0>>)
  /\ Does(43, "write", IoCtrl("WLAN"), <<ClockEn>>)
<1> DEFINE c == "WLAN"
<1>1. DisablesAt(c, 5) /\ DisablesAt(c, 33) /\ ResetsAt(c, 33)
  BY CoresAt, Zenon DEF ResetsAt
<1> HIDE DEF c
<1>2. /\ Program[6].kind = "read" /\ Program[9].kind = "read" /\ Program[11].kind = "read"
      /\ Does(7, "return", ResetCtrl(c), <<Junk>>)
      /\ Does(8, "write", IoCtrl(c), <<0>>) /\ Does(10, "write", ResetCtrl(c), <<Reset>>)
  BY <1>1, DisableDoes
<1>3. /\ Program[34].kind = "read" /\ Program[37].kind = "read" /\ Program[39].kind = "read"
      /\ Does(35, "return", ResetCtrl(c), <<Junk>>)
      /\ Does(36, "write", IoCtrl(c), <<0>>) /\ Does(38, "write", ResetCtrl(c), <<Reset>>)
  BY <1>1, DisableDoes
<1>4. /\ Program[41].kind = "read" /\ Program[44].kind = "read"
      /\ Does(40, "write", IoCtrl(c), <<Fgc + ClockEn>>)
      /\ Does(42, "write", ResetCtrl(c), <<0>>)
      /\ Does(43, "write", IoCtrl(c), <<ClockEn>>)
  BY <1>1, ResetDoes
<1> QED
  BY <1>2, <1>3, <1>4, Zenon DEF c

LEMMA SocsramDoes ==
  /\ \A n \in {12, 15, 17, 18, 21, 23, 25, 28} : Program[n].kind = "read"
  /\ \A n \in {13, 19} : Does(n, "return", ResetCtrl("SOCSRAM"), <<Junk>>)
  /\ \A n \in {14, 20} : Does(n, "write", IoCtrl("SOCSRAM"), <<0>>)
  /\ \A n \in {16, 22} : Does(n, "write", ResetCtrl("SOCSRAM"), <<Reset>>)
  /\ Does(24, "write", IoCtrl("SOCSRAM"), <<Fgc + ClockEn>>)
  /\ Does(26, "write", ResetCtrl("SOCSRAM"), <<0>>)
  /\ Does(27, "write", IoCtrl("SOCSRAM"), <<ClockEn>>)
<1> DEFINE c == "SOCSRAM"
<1>1. DisablesAt(c, 11) /\ DisablesAt(c, 17) /\ ResetsAt(c, 17)
  BY CoresAt, Zenon DEF ResetsAt
<1> HIDE DEF c
<1>2. /\ Program[12].kind = "read" /\ Program[15].kind = "read" /\ Program[17].kind = "read"
      /\ Does(13, "return", ResetCtrl(c), <<Junk>>)
      /\ Does(14, "write", IoCtrl(c), <<0>>) /\ Does(16, "write", ResetCtrl(c), <<Reset>>)
  BY <1>1, DisableDoes
<1>3. /\ Program[18].kind = "read" /\ Program[21].kind = "read" /\ Program[23].kind = "read"
      /\ Does(19, "return", ResetCtrl(c), <<Junk>>)
      /\ Does(20, "write", IoCtrl(c), <<0>>) /\ Does(22, "write", ResetCtrl(c), <<Reset>>)
  BY <1>1, DisableDoes
<1>4. /\ Program[25].kind = "read" /\ Program[28].kind = "read"
      /\ Does(24, "write", IoCtrl(c), <<Fgc + ClockEn>>)
      /\ Does(26, "write", ResetCtrl(c), <<0>>)
      /\ Does(27, "write", IoCtrl(c), <<ClockEn>>)
  BY <1>1, ResetDoes
<1> QED
  BY <1>2, <1>3, <1>4, Zenon DEF c

LEMMA RestDoes ==
  /\ Program[5].kind = "read" /\ \A n \in {2, 4, 50} : Program[n].kind = "csr"
  /\ \A n \in {1, 3, 47, 49, 51} : Program[n].kind = "await"
  /\ Program[47].flag = "ht" /\ Program[49].flag = "f2"
  /\ Does(29, "write", Remap, <<3>>) /\ Does(30, "write", Remap + 1, <<0>>)
  /\ Does(31, "write", 0, Firmware)
  /\ Does(32, "write", RamSize - 1 - NvramSize, Nvram)
  /\ Does(33, "write", RamSize - 1, <<Magic>>)
  /\ Does(45, "assert_clock", IoCtrl("WLAN"), <<Junk>>)
  /\ Does(46, "assert_reset", ResetCtrl("WLAN"), <<Junk>>)
  /\ Does(48, "write", IntMask, <<1>>)
BY RestAt DEF Does, Await, Csr, Read, Write, Access

LEMMA DoesFields ==
  ASSUME NEW n, NEW kind, NEW addr, NEW data, Does(n, kind, addr, data)
  PROVE  Program[n].kind = kind /\ Program[n].addr = addr /\ Program[n].data = data
BY DEF Does

(* What return_if_core_is_reset looks at. *)
LEMMA Returns ==
  ASSUME NEW n \in {7, 13, 19, 35}
  PROVE  Program[n].kind = "return" /\ Program[n].data = <<Junk>>
<1>1. CASE n \in {7, 35}
  <2>1. Does(n, "return", ResetCtrl("WLAN"), <<Junk>>)
    BY <1>1, WlanDoes, Zenon
  <2> QED
    BY <2>1, DoesFields
<1>2. CASE n \in {13, 19}
  <2>1. Does(n, "return", ResetCtrl("SOCSRAM"), <<Junk>>)
    BY <1>2, SocsramDoes, Zenon
  <2> QED
    BY <2>1, DoesFields
<1> QED
  BY <1>1, <1>2

WlanWrites    == {8, 10, 36, 38, 40, 42, 43}
SocsramWrites == {14, 16, 20, 22, 24, 26, 27}
OtherWrites   == {29, 30, 31, 32, 33, 48}

LEMMA KindAt ==
  ASSUME NEW n \in 1 .. Len(Program)
  PROVE  /\ n \in 1 .. 51
         /\ Program[n].kind = "write" <=> n \in WlanWrites \cup SocsramWrites \cup OtherWrites
         /\ Program[n].kind = "return" <=> n \in {7, 13, 19, 35}
         /\ Program[n].kind = "assert_clock" <=> n = 45
         /\ Program[n].kind = "assert_reset" <=> n = 46
         /\ Program[n].kind = "await" <=> n \in {1, 3, 47, 49, 51}
<1>1. n \in 1 .. 51
  BY Listing
<1>2. \/ n \in {5, 6, 9, 11, 12, 15, 17, 18, 21, 23, 25, 28, 34, 37, 39, 41, 44}
      \/ n \in {2, 4, 50}
      \/ n \in {7, 13, 19, 35} \/ n = 45 \/ n = 46
      \/ n \in {1, 3, 47, 49, 51}
      \/ n \in WlanWrites \/ n \in SocsramWrites \/ n \in OtherWrites
  BY <1>1 DEF WlanWrites, SocsramWrites, OtherWrites
<1>3. CASE n \in {5, 6, 9, 11, 12, 15, 17, 18, 21, 23, 25, 28, 34, 37, 39, 41, 44}
  <2>1. /\ \A m \in {6, 9, 11, 34, 37, 39, 41, 44} : Program[m].kind = "read"
        /\ \A m \in {12, 15, 17, 18, 21, 23, 25, 28} : Program[m].kind = "read"
        /\ Program[5].kind = "read"
    BY WlanDoes, SocsramDoes, RestDoes, Zenon
  <2>2. Program[n].kind = "read"
    BY <1>3, <2>1
  <2>3. n \notin WlanWrites \cup SocsramWrites \cup OtherWrites
    BY <1>3 DEF WlanWrites, SocsramWrites, OtherWrites
  <2>4. n \notin {7, 13, 19, 35} /\ n # 45 /\ n # 46 /\ n \notin {1, 3, 47, 49, 51}
    BY <1>3
  <2> QED
    BY <1>1, <2>2, <2>3, <2>4
<1>4. CASE n \in {2, 4, 50}
  <2>1. Program[n].kind = "csr"
    BY <1>4, RestDoes
  <2> QED
    BY <1>1, <1>4, <2>1 DEF WlanWrites, SocsramWrites, OtherWrites
<1>5. CASE n \in {7, 13, 19, 35}
  <2>1. Program[n].kind = "return"
    BY <1>5, Returns
  <2> QED
    BY <1>1, <1>5, <2>1 DEF WlanWrites, SocsramWrites, OtherWrites
<1>6. CASE n = 45
  <2>1. Program[n].kind = "assert_clock"
    BY <1>6, RestDoes DEF Does
  <2> QED
    BY <1>1, <1>6, <2>1 DEF WlanWrites, SocsramWrites, OtherWrites
<1>7. CASE n = 46
  <2>1. Program[n].kind = "assert_reset"
    BY <1>7, RestDoes DEF Does
  <2> QED
    BY <1>1, <1>7, <2>1 DEF WlanWrites, SocsramWrites, OtherWrites
<1>8. CASE n \in {1, 3, 47, 49, 51}
  <2>1. Program[n].kind = "await"
    BY <1>8, RestDoes
  <2> QED
    BY <1>1, <1>8, <2>1 DEF WlanWrites, SocsramWrites, OtherWrites
<1>9. CASE n \in WlanWrites
  <2>1. \E addr, data : Does(n, "write", addr, data)
    BY <1>9, WlanDoes DEF WlanWrites
  <2>2. Program[n].kind = "write"
    BY <2>1, DoesFields, Zenon
  <2> QED
    BY <1>1, <1>9, <2>2 DEF WlanWrites, SocsramWrites, OtherWrites
<1>10. CASE n \in SocsramWrites
  <2>1. \E addr, data : Does(n, "write", addr, data)
    BY <1>10, SocsramDoes DEF SocsramWrites
  <2>2. Program[n].kind = "write"
    BY <2>1, DoesFields, Zenon
  <2> QED
    BY <1>1, <1>10, <2>2 DEF WlanWrites, SocsramWrites, OtherWrites
<1>11. CASE n \in OtherWrites
  <2>1. \E addr, data : Does(n, "write", addr, data)
    BY <1>11, RestDoes DEF OtherWrites
  <2>2. Program[n].kind = "write"
    BY <2>1, DoesFields, Zenon
  <2> QED
    BY <1>1, <1>11, <2>2 DEF WlanWrites, SocsramWrites, OtherWrites
<1> QED
  BY <1>2, <1>3, <1>4, <1>5, <1>6, <1>7, <1>8, <1>9, <1>10, <1>11, Zenon

-----------------------------------------------------------------------------
(* What a command finds and what it leaves.                                *)

(* A step with one word accesses its address. *)
LEMMA OneWord ==
  ASSUME IInv, Accessing, NEW word, Now.data = <<word>>
  PROVE  Target = Now.addr
<1>1. Len(Now.data) = 1
  OBVIOUS
<1>2. done \in Nat /\ done < Len(Now.data) /\ Now.addr \in Nat
  BY StepFacts DEF IInv, TypeOK, Accessing, Running, Now
<1>3. done = 0
  BY <1>1, <1>2
<1> QED
  BY <1>2, <1>3 DEF Target

LEMMA FoundAtTarget ==
  ASSUME IInv, Sending
  PROVE  Target \in Addresses /\ Found(Target) = mem[Target]
<1>1. Target \in Addresses /\ Chunk \in Nat \ {0}
  BY ChunkBound DEF IInv, TypeOK, Sending
<1>2. Target \in Int
  BY <1>1, SizeAssumption DEF Addresses, Ram, Registers, IoCtrl, ResetCtrl, Base, Cores
<1>3. Land(Target + 0) = Target + 0
  <2>1. 0 \in 0 .. Chunk - 1
    BY <1>1
  <2> QED
    BY <2>1, Hits, Zenon DEF HitsAddress
<1>4. Land(Target) = Target
  <2>1. Target + 0 = Target
    BY <1>2
  <2> QED
    BY <1>3, <2>1, Zenon
<1> QED
  BY <1>1, <1>4 DEF Found

LEMMA AddressesAreInts == Addresses \subseteq Nat
BY SizeAssumption DEF Addresses, Ram, Registers, IoCtrl, ResetCtrl, Base, Cores

LEMMA WriteEffect ==
  ASSUME IInv, SendWrite, NEW a \in Addresses
  PROVE  mem'[a] = IF a \in Target .. Target + Chunk - 1 /\ (a \in Ram => Runs("SOCSRAM"))
                   THEN Now.data[a - Now.addr + 1] ELSE mem[a]
<1> DEFINE sent == SubSeq(Now.data, done + 1, done + Chunk)
           chosen == CHOOSE k \in DOMAIN sent : Land(Target + k - 1) = a
           open == a \in Ram => Runs("SOCSRAM")
<1>1. /\ Sending /\ Accessing /\ mem' = Stored(Target, sent)
      /\ pc \in 1 .. Len(Program) /\ Now.kind \in Accesses /\ Now = Program[pc]
  BY DEF SendWrite, Sending, Accessing, Running, Now
<1>2. Now.data \in Seq(Nat) /\ Now.addr \in Nat
  BY <1>1, StepFacts
<1>3. Chunk \in Nat \ {0} /\ done + Chunk <= Len(Now.data) /\ done \in Nat
  BY <1>1, ChunkBound DEF IInv, TypeOK
<1>4. Target \in Nat /\ Target = Now.addr + done /\ a \in Nat
  BY <1>2, <1>3, AddressesAreInts DEF Target
<1>5. DOMAIN sent = 1 .. Chunk /\ \A k \in 1 .. Chunk : sent[k] = Now.data[done + k]
  BY <1>2, <1>3
<1>6. mem'[a] = IF \E k \in DOMAIN sent : Land(Target + k - 1) = a /\ open
                THEN sent[chosen] ELSE mem[a]
  BY <1>1, Zenon DEF Stored
<1> HIDE DEF sent
<1>7. \A k \in 1 .. Chunk : Land(Target + k - 1) = Target + k - 1
  <2> TAKE k \in 1 .. Chunk
  <2>1. k - 1 \in 0 .. Chunk - 1 /\ Target + (k - 1) = Target + k - 1
    BY <1>3, <1>4
  <2>2. Land(Target + (k - 1)) = Target + (k - 1)
    BY <1>1, <2>1, Hits, Zenon DEF HitsAddress
  <2> QED
    BY <2>1, <2>2, Zenon
<1> DEFINE place == a - Target + 1
<1>8. CASE a \in Target .. Target + Chunk - 1 /\ open
  <2>1. place \in 1 .. Chunk /\ Target + place - 1 = a /\ done + place = a - Now.addr + 1
    <3>1. a \in Target .. Target + Chunk - 1
      BY <1>8, Zenon
    <3>2. place \in 1 .. Chunk /\ Target + place - 1 = a
      BY <1>3, <1>4, <3>1
    <3>3. Now.addr \in Nat /\ done \in Nat /\ a \in Nat /\ Target = Now.addr + done
      BY <1>2, <1>3, <1>4, Zenon
    <3> QED
      BY <3>2, <3>3
  <2>2. \A k \in 1 .. Chunk : Target + k - 1 = a => k = place
    BY <1>3, <1>4
  <2> HIDE DEF place, open
  <2>3. \A k \in DOMAIN sent : Land(Target + k - 1) = a <=> k = place
    BY <1>5, <1>7, <2>1, <2>2, Zenon
  <2>4. place \in DOMAIN sent /\ Land(Target + place - 1) = a
    BY <1>5, <2>1, <2>3, Zenon
  <2>5. chosen \in DOMAIN sent /\ Land(Target + chosen - 1) = a
    BY <2>4, Zenon
  <2> HIDE DEF chosen
  <2>6. chosen = place
    BY <2>3, <2>5, Zenon
  <2>7. mem'[a] = sent[place]
    BY <1>6, <1>8, <2>4, <2>6, Zenon
  <2>8. sent[place] = Now.data[a - Now.addr + 1]
    BY <1>5, <2>1, Zenon
  <2> QED
    BY <1>8, <2>7, <2>8, Zenon DEF open
<1>9. CASE ~ (a \in Target .. Target + Chunk - 1 /\ open)
  <2>1. \A k \in 1 .. Chunk : Target + k - 1 \in Target .. Target + Chunk - 1
    BY <1>3, <1>4
  <2> HIDE DEF open
  <2>2. ~ \E k \in DOMAIN sent : Land(Target + k - 1) = a /\ open
    BY <1>5, <1>7, <1>9, <2>1, Zenon
  <2>3. mem'[a] = mem[a]
    BY <1>6, <2>2, Zenon
  <2> QED
    BY <1>9, <2>3, Zenon DEF open
<1> QED
  BY <1>8, <1>9, Zenon

(* A step with one word. *)
LEMMA WordEffect ==
  ASSUME IInv, SendWrite, NEW word, Now.data = <<word>>
  PROVE  /\ done' = 0 /\ pc' = pc + 1
         /\ \A a \in Addresses :
              mem'[a] = IF a = Now.addr /\ (a \in Ram => Runs("SOCSRAM")) THEN word ELSE mem[a]
<1>1. /\ Accessing /\ Now.kind \in Accesses /\ pc \in 1 .. Len(Program) /\ Now = Program[pc]
  BY DEF SendWrite, Sending, Accessing, Running, Now
<1>2. Now.addr \in Nat /\ Len(Now.data) = 1 /\ Now.data[1] = word
  BY <1>1, StepFacts
<1>3. done \in Nat /\ done < Len(Now.data) /\ Chunk \in Nat \ {0} /\ done + Chunk <= Len(Now.data)
  BY <1>1, ChunkBound DEF IInv, TypeOK
<1>4. done = 0 /\ Chunk = 1
  BY <1>2, <1>3
<1>5. Target = Now.addr
  BY <1>2, <1>4 DEF Target
<1>6. Advance(1)
  BY <1>2, <1>4 DEF SendWrite
<1>7. ASSUME NEW a \in Addresses
      PROVE  mem'[a] = IF a = Now.addr /\ (a \in Ram => Runs("SOCSRAM")) THEN word ELSE mem[a]
  <2>1. a \in Now.addr .. Now.addr + 1 - 1 <=> a = Now.addr
    BY <1>2, AddressesAreInts
  <2>2. mem'[a] = IF a \in Now.addr .. Now.addr + 1 - 1 /\ (a \in Ram => Runs("SOCSRAM"))
                  THEN Now.data[a - Now.addr + 1] ELSE mem[a]
    BY <1>4, <1>5, WriteEffect, Zenon
  <2>3. a = Now.addr => a - Now.addr + 1 = 1
    BY <1>2
  <2>4. a = Now.addr => Now.data[a - Now.addr + 1] = word
    BY <1>2, <2>3, Zenon
  <2> QED
    BY <2>1, <2>2, <2>4, Zenon
<1> QED
  BY <1>6, <1>7 DEF Advance

-----------------------------------------------------------------------------
(* The cores, as the driver has left them. *)
CoreInv ==
  /\ pc \in 9 .. 10 => mem[IoCtrl("WLAN")] = 0
  /\ pc \in 11 .. 42 => mem[ResetCtrl("WLAN")] % 2 = Reset
  /\ pc > 42 => mem[ResetCtrl("WLAN")] = 0
  /\ pc \in 41 .. 43 => mem[IoCtrl("WLAN")] = Fgc + ClockEn
  /\ pc > 43 => mem[IoCtrl("WLAN")] = ClockEn
  /\ pc \in 25 .. 27 => mem[IoCtrl("SOCSRAM")] = Fgc + ClockEn
  /\ pc > 26 => mem[ResetCtrl("SOCSRAM")] = 0
  /\ pc > 27 => mem[IoCtrl("SOCSRAM")] = ClockEn

(* What has been loaded so far. *)
LoadInv ==
  /\ \A k \in 1 .. FirmwareSize :
       pc > 31 \/ (pc = 31 /\ k <= done) => mem[k - 1] = Firmware[k]
  /\ \A k \in 1 .. NvramSize :
       pc > 32 \/ (pc = 32 /\ k <= done) => mem[RamSize - 2 - NvramSize + k] = Nvram[k]
  /\ pc > 33 => mem[RamSize - 1] = Magic

(* What has been seen of the clock and of F2. *)
FlagInv ==
  /\ status = "ready" => "f2" \in on
  /\ pc > 47 => "ht" \in on
  /\ pc > 49 => "f2" \in on
  /\ phase = "ready" => pc > 51

PlaceInv == phase \in {"running", "ready"} => CoreInv /\ LoadInv /\ FlagInv

(* The invariant says of every step what it finds done.  The words of the  *)
(* wrappers and of the parts of RAM are apart.                             *)
LEMMA Cells ==
  LET wi == IoCtrl("WLAN")
      wr == ResetCtrl("WLAN")
      si == IoCtrl("SOCSRAM")
      sr == ResetCtrl("SOCSRAM")
  IN  /\ {wi, wr, si, sr} \subseteq Addresses /\ {wi, wr, si, sr} \cap Ram = {}
      /\ wi # wr /\ wi # si /\ wi # sr /\ wr # si /\ wr # sr /\ si # sr
      /\ {Remap, Remap + 1, IntMask} \cap ({wi, wr, si, sr} \cup Ram) = {}
<1>1. /\ IoCtrl("WLAN") = WlanBase /\ ResetCtrl("WLAN") = WlanBase + 1
      /\ IoCtrl("SOCSRAM") = SocsramBase /\ ResetCtrl("SOCSRAM") = SocsramBase + 1
  BY DEF IoCtrl, ResetCtrl, Base
<1>2. {IoCtrl("WLAN"), ResetCtrl("WLAN"), IoCtrl("SOCSRAM"), ResetCtrl("SOCSRAM")} = Wrappers
  BY <1>1 DEF Wrappers
<1>3. Wrappers \cup {Remap, Remap + 1, IntMask} \subseteq Registers
  BY <1>2 DEF Registers, Cores
<1>4. WlanBase \in Nat /\ SocsramBase \in Nat
  BY SizeAssumption
<1>5. /\ WlanBase # WlanBase + 1 /\ WlanBase # SocsramBase /\ WlanBase # SocsramBase + 1
      /\ WlanBase + 1 # SocsramBase /\ WlanBase + 1 # SocsramBase + 1
      /\ SocsramBase # SocsramBase + 1
  BY <1>4, PlacementAssumption
<1>6. /\ Wrappers \subseteq Addresses /\ Wrappers \cap Ram = {}
      /\ {Remap, Remap + 1, IntMask} \cap (Wrappers \cup Ram) = {}
  BY <1>3, PlacementAssumption DEF Addresses
<1> QED
  BY <1>1, <1>2, <1>5, <1>6

LEMMA WlanWriteKeeps ==
  ASSUME IInv, CoreInv, SendWrite, pc \in WlanWrites
  PROVE  CoreInv' /\ pc' = pc + 1 /\ done' = 0 /\ \A a \in Ram : mem'[a] = mem[a]
<1> DEFINE wi == IoCtrl("WLAN")
           wr == ResetCtrl("WLAN")
           si == IoCtrl("SOCSRAM")
           sr == ResetCtrl("SOCSRAM")
<1>1. Now = Program[pc] /\ pc \in Nat
  BY DEF Now, WlanWrites
<1>2. /\ {wi, wr, si, sr} \subseteq Addresses /\ {wi, wr, si, sr} \cap Ram = {}
      /\ wi # wr /\ wi # si /\ wi # sr /\ wr # si /\ wr # sr /\ si # sr
  BY Cells, Zenon
<1>3. /\ pc \in {8, 36} => Now.addr = wi /\ Now.data = <<0>>
      /\ pc \in {10, 38} => Now.addr = wr /\ Now.data = <<1>>
      /\ pc = 40 => Now.addr = wi /\ Now.data = <<3>>
      /\ pc = 42 => Now.addr = wr /\ Now.data = <<0>>
      /\ pc = 43 => Now.addr = wi /\ Now.data = <<1>>
  <2> HIDE DEF wi, wr
  <2>1. /\ pc \in {8, 36} => Does(pc, "write", wi, <<0>>)
        /\ pc \in {10, 38} => Does(pc, "write", wr, <<Reset>>)
        /\ pc = 40 => Does(pc, "write", wi, <<Fgc + ClockEn>>)
        /\ pc = 42 => Does(pc, "write", wr, <<0>>)
        /\ pc = 43 => Does(pc, "write", wi, <<ClockEn>>)
    BY WlanDoes, Zenon DEF wi, wr
  <2> QED
    BY <1>1, <2>1 DEF Does, Reset, Fgc, ClockEn
<1> HIDE DEF wi, wr, si, sr
<1>4. PICK word \in {0, 1, 3}, cell \in {wi, wr} :
        /\ Now.data = <<word>> /\ Now.addr = cell
        /\ cell = wi => /\ pc \in {8, 36, 40, 43} /\ (pc = 8 => word = 0)
                        /\ (pc = 40 => word = 3) /\ (pc = 43 => word = 1)
        /\ cell = wr => pc \in {10, 38, 42} /\ (pc \in {10, 38} => word = 1) /\ (pc = 42 => word = 0)
  BY <1>2, <1>3 DEF WlanWrites
<1>5. /\ done' = 0 /\ pc' = pc + 1
      /\ \A a \in Addresses :
           mem'[a] = IF a = Now.addr /\ (a \in Ram => Runs("SOCSRAM")) THEN word ELSE mem[a]
  BY <1>4, WordEffect, Zenon
<1>6. cell \in Addresses /\ cell \notin Ram
  BY <1>2, <1>4
<1>7. mem'[cell] = word /\ \A a \in Addresses : a # cell => mem'[a] = mem[a]
  BY <1>4, <1>5, <1>6, Zenon
<1>8. \A a \in Ram : mem'[a] = mem[a]
  BY <1>6, <1>7 DEF Addresses
<1>9. mem'[si] = mem[si] /\ mem'[sr] = mem[sr]
  BY <1>2, <1>4, <1>7
<1>10. /\ cell = wi => mem'[wi] = word /\ mem'[wr] = mem[wr]
       /\ cell = wr => mem'[wr] = word /\ mem'[wi] = mem[wi]
  BY <1>2, <1>7
<1>11. CoreInv'
  BY <1>1, <1>4, <1>5, <1>9, <1>10
  DEF CoreInv, wi, wr, si, sr, WlanWrites, Reset, Fgc, ClockEn
<1> QED
  BY <1>5, <1>8, <1>11

LEMMA SocsramWriteKeeps ==
  ASSUME IInv, CoreInv, SendWrite, pc \in SocsramWrites
  PROVE  CoreInv' /\ pc' = pc + 1 /\ done' = 0 /\ \A a \in Ram : mem'[a] = mem[a]
<1> DEFINE wi == IoCtrl("WLAN")
           wr == ResetCtrl("WLAN")
           si == IoCtrl("SOCSRAM")
           sr == ResetCtrl("SOCSRAM")
<1>1. Now = Program[pc] /\ pc \in Nat
  BY DEF Now, SocsramWrites
<1>2. /\ {wi, wr, si, sr} \subseteq Addresses /\ {wi, wr, si, sr} \cap Ram = {}
      /\ wi # wr /\ wi # si /\ wi # sr /\ wr # si /\ wr # sr /\ si # sr
  BY Cells, Zenon
<1>3. /\ pc \in {14, 20} => Now.addr = si /\ Now.data = <<0>>
      /\ pc \in {16, 22} => Now.addr = sr /\ Now.data = <<1>>
      /\ pc = 24 => Now.addr = si /\ Now.data = <<3>>
      /\ pc = 26 => Now.addr = sr /\ Now.data = <<0>>
      /\ pc = 27 => Now.addr = si /\ Now.data = <<1>>
  <2> HIDE DEF si, sr
  <2>1. /\ pc \in {14, 20} => Does(pc, "write", si, <<0>>)
        /\ pc \in {16, 22} => Does(pc, "write", sr, <<Reset>>)
        /\ pc = 24 => Does(pc, "write", si, <<Fgc + ClockEn>>)
        /\ pc = 26 => Does(pc, "write", sr, <<0>>)
        /\ pc = 27 => Does(pc, "write", si, <<ClockEn>>)
    BY SocsramDoes, Zenon DEF si, sr
  <2> QED
    BY <1>1, <2>1 DEF Does, Reset, Fgc, ClockEn
<1> HIDE DEF wi, wr, si, sr
<1>4. PICK word \in {0, 1, 3}, cell \in {si, sr} :
        /\ Now.data = <<word>> /\ Now.addr = cell
        /\ cell = si => pc \in {14, 20, 24, 27} /\ (pc = 24 => word = 3) /\ (pc = 27 => word = 1)
        /\ cell = sr => pc \in {16, 22, 26} /\ (pc = 26 => word = 0)
  BY <1>2, <1>3 DEF SocsramWrites
<1>5. /\ done' = 0 /\ pc' = pc + 1
      /\ \A a \in Addresses :
           mem'[a] = IF a = Now.addr /\ (a \in Ram => Runs("SOCSRAM")) THEN word ELSE mem[a]
  BY <1>4, WordEffect, Zenon
<1>6. cell \in Addresses /\ cell \notin Ram
  BY <1>2, <1>4
<1>7. mem'[cell] = word /\ \A a \in Addresses : a # cell => mem'[a] = mem[a]
  BY <1>4, <1>5, <1>6, Zenon
<1>8. \A a \in Ram : mem'[a] = mem[a]
  BY <1>6, <1>7 DEF Addresses
<1>9. mem'[wi] = mem[wi] /\ mem'[wr] = mem[wr]
  BY <1>2, <1>4, <1>7
<1>10. /\ cell = si => mem'[si] = word /\ mem'[sr] = mem[sr]
       /\ cell = sr => mem'[sr] = word /\ mem'[si] = mem[si]
  BY <1>2, <1>7
<1>11. CoreInv'
  BY <1>1, <1>4, <1>5, <1>9, <1>10
  DEF CoreInv, wi, wr, si, sr, SocsramWrites, Reset, Fgc, ClockEn
<1> QED
  BY <1>5, <1>8, <1>11

LEMMA OtherWriteKeeps ==
  ASSUME IInv, CoreInv, SendWrite, pc \in OtherWrites
  PROVE  CoreInv'
<1> DEFINE cells == {IoCtrl("WLAN"), ResetCtrl("WLAN"), IoCtrl("SOCSRAM"), ResetCtrl("SOCSRAM")}
<1>1. Now = Program[pc] /\ pc \in 1 .. Len(Program) /\ Now.kind \in Accesses
  BY DEF SendWrite, Sending, Accessing, Running, Now
<1>2. pc' = pc \/ pc' = pc + 1
  BY <1>1 DEF SendWrite, Advance
<1>3. /\ cells \subseteq Addresses /\ cells \cap Ram = {}
      /\ {Remap, Remap + 1, IntMask} \cap cells = {}
  BY Cells
<1>4. \A a \in cells : a \notin Target .. Target + Chunk - 1
  <2>1. CASE pc \in {29, 30, 48}
    <3>1. Now.addr \in {Remap, Remap + 1, IntMask} /\ Len(Now.data) = 1
      <4>1. /\ Program[29].addr = Remap /\ Program[29].data = <<3>>
            /\ Program[30].addr = Remap + 1 /\ Program[30].data = <<0>>
            /\ Program[48].addr = IntMask /\ Program[48].data = <<1>>
        BY RestDoes, Zenon DEF Does
      <4>2. /\ pc = 29 => Now.addr = Remap /\ Now.data = <<3>>
            /\ pc = 30 => Now.addr = Remap + 1 /\ Now.data = <<0>>
            /\ pc = 48 => Now.addr = IntMask /\ Now.data = <<1>>
        BY <1>1, <4>1, Zenon
      <4> QED
        BY <2>1, <4>2
    <3>2. Now.addr \notin cells /\ Now.addr \in Nat
      BY <1>1, <1>3, <3>1, StepFacts
    <3>3. /\ Chunk \in Nat \ {0} /\ done \in Nat /\ done < Len(Now.data)
          /\ done + Chunk <= Len(Now.data)
      BY ChunkBound DEF IInv, TypeOK, SendWrite, Sending
    <3>4. Chunk = 1 /\ done = 0
      BY <3>1, <3>3
    <3>5. Target = Now.addr
      BY <3>2, <3>4 DEF Target
    <3>6. Target .. Target + Chunk - 1 = {Now.addr}
      BY <3>2, <3>4, <3>5
    <3> HIDE DEF cells
    <3> QED
      BY <3>2, <3>6
  <2>2. CASE pc \in {31, 32, 33}
    <3>1. Target .. Target + Chunk - 1 \subseteq Ram
      <4>1. /\ Chunk \in Nat \ {0} /\ done \in Nat /\ done + Chunk <= Len(Now.data)
        BY ChunkBound DEF IInv, TypeOK, SendWrite, Sending
      <4>2. Now.addr \in Nat /\ Len(Now.data) \in Nat /\ Now.addr + Len(Now.data) <= RamSize
        <5>1. /\ Len(Firmware) = FirmwareSize /\ Len(Nvram) = NvramSize /\ Len(<<Magic>>) = 1
          BY SizeAssumption DEF Firmware, Nvram
        <5>2. /\ pc = 31 => Now.addr = 0 /\ Len(Now.data) = FirmwareSize
              /\ pc = 32 => Now.addr = RamSize - 1 - NvramSize /\ Len(Now.data) = NvramSize
              /\ pc = 33 => Now.addr = RamSize - 1 /\ Len(Now.data) = 1
          <6>1. /\ Program[31].addr = 0 /\ Program[31].data = Firmware
                /\ Program[32].addr = RamSize - 1 - NvramSize /\ Program[32].data = Nvram
                /\ Program[33].addr = RamSize - 1 /\ Program[33].data = <<Magic>>
            BY RestDoes, Zenon DEF Does
          <6> QED
            BY <1>1, <5>1, <6>1, Zenon
        <5> DEFINE start == Now.addr
                   length == Len(Now.data)
        <5> HIDE DEF start, length
        <5>3. start \in Nat /\ length \in Nat /\ start + length <= RamSize
          <6>1. /\ pc = 31 => start = 0 /\ length = FirmwareSize
                /\ pc = 32 => start = RamSize - 1 - NvramSize /\ length = NvramSize
                /\ pc = 33 => start = RamSize - 1 /\ length = 1
            BY <5>2, Zenon DEF start, length
          <6> QED
            BY <2>2, <6>1, SizeAssumption
        <5> QED
          BY <5>3, Zenon DEF start, length
      <4> DEFINE start == Now.addr
                 length == Len(Now.data)
      <4>3. Target = start + done
        BY DEF Target
      <4> HIDE DEF start, length
      <4>4. start \in Nat /\ length \in Nat /\ start + length <= RamSize /\ done + Chunk <= length
        BY <4>1, <4>2, Zenon DEF start, length
      <4> QED
        BY <4>1, <4>3, <4>4, SizeAssumption DEF Ram
    <3> HIDE DEF cells
    <3> QED
      BY <1>3, <3>1
  <2> QED
    BY <2>1, <2>2 DEF OtherWrites
<1>5. \A a \in cells : mem'[a] = mem[a]
  <2> HIDE DEF cells
  <2> QED
    BY <1>3, <1>4, WriteEffect, Zenon
<1>6. /\ mem'[IoCtrl("WLAN")] = mem[IoCtrl("WLAN")]
      /\ mem'[ResetCtrl("WLAN")] = mem[ResetCtrl("WLAN")]
      /\ mem'[IoCtrl("SOCSRAM")] = mem[IoCtrl("SOCSRAM")]
      /\ mem'[ResetCtrl("SOCSRAM")] = mem[ResetCtrl("SOCSRAM")]
  BY <1>5, Zenon
<1> QED
  BY <1>2, <1>6 DEF CoreInv, OtherWrites

LEMMA RamCells ==
  /\ \A k \in 1 .. FirmwareSize : k - 1 \in Ram
  /\ \A k \in 1 .. NvramSize : RamSize - 2 - NvramSize + k \in Ram
  /\ RamSize - 1 \in Ram /\ Ram \subseteq Addresses
BY SizeAssumption DEF Ram, Addresses

LEMMA LoadStays ==
  ASSUME LoadInv, pc \in Nat, pc' \in Nat, done' = 0, pc > 33 \/ pc' < 32,
         \A a \in Ram : mem'[a] = mem[a]
  PROVE  LoadInv'
<1>1. CASE pc > 33 /\ pc' > 33
  BY <1>1, RamCells DEF LoadInv
<1>2. CASE pc > 33 /\ ~ (pc' > 33)
  BY <1>2, RamCells DEF LoadInv
<1>3. CASE pc' < 32
  BY <1>3 DEF LoadInv
<1> QED
  BY <1>1, <1>2, <1>3

LEMMA Loading ==
  ASSUME IInv, CoreInv, SendWrite, pc \in {31, 32, 33}
  PROVE  /\ Now = Program[pc]
         /\ \A a \in Ram : mem'[a] = IF a \in Target .. Target + Chunk - 1
                                     THEN Now.data[a - Now.addr + 1] ELSE mem[a]
         /\ Target = Now.addr + done /\ done \in Nat /\ Chunk \in Nat \ {0}
         /\ done + Chunk <= Len(Now.data)
         /\ \/ done + Chunk = Len(Now.data) /\ pc' = pc + 1 /\ done' = 0
            \/ done' = done + Chunk /\ pc' = pc
<1>1. Runs("SOCSRAM")
  BY DEF CoreInv, Runs, ClockEn, Reset
<1>2. \A a \in Ram : mem'[a] = IF a \in Target .. Target + Chunk - 1
                               THEN Now.data[a - Now.addr + 1] ELSE mem[a]
  BY <1>1, WriteEffect, RamCells, Zenon
<1>3. /\ Chunk \in Nat \ {0} /\ done \in Nat /\ done + Chunk <= Len(Now.data)
  BY ChunkBound DEF IInv, TypeOK, SendWrite, Sending
<1>4. \/ done + Chunk = Len(Now.data) /\ pc' = pc + 1 /\ done' = 0
      \/ done' = done + Chunk /\ pc' = pc
  BY DEF SendWrite, Advance
<1> QED
  BY <1>2, <1>3, <1>4, Zenon DEF Now, Target

LEMMA FirmwareKeeps ==
  ASSUME IInv, CoreInv, LoadInv, SendWrite, pc = 31
  PROVE  LoadInv'
<1> DEFINE last == done + Chunk
<1>1. Now.addr = 0 /\ Now.data = Firmware /\ Now = Program[31]
  BY RestDoes DEF Does, Now
<1>2. Len(Firmware) = FirmwareSize
  BY SizeAssumption DEF Firmware
<1>3. /\ \A a \in Ram : mem'[a] = IF a \in Target .. Target + Chunk - 1
                                  THEN Now.data[a - Now.addr + 1] ELSE mem[a]
      /\ Target = Now.addr + done /\ done \in Nat /\ Chunk \in Nat \ {0}
      /\ done + Chunk <= Len(Now.data)
      /\ \/ done + Chunk = Len(Now.data) /\ pc' = pc + 1 /\ done' = 0
         \/ done' = done + Chunk /\ pc' = pc
  BY Loading, Zenon
<1>4. /\ \A a \in Ram : mem'[a] = IF a \in 0 + done .. 0 + done + Chunk - 1
                                  THEN Firmware[a - 0 + 1] ELSE mem[a]
      /\ done \in Nat /\ Chunk \in Nat \ {0} /\ done + Chunk <= FirmwareSize
      /\ \/ done + Chunk = FirmwareSize /\ pc' = pc + 1 /\ done' = 0
         \/ done' = done + Chunk /\ pc' = pc
  BY <1>1, <1>2, <1>3, Zenon
<1>5. ASSUME NEW k \in 1 .. FirmwareSize, k <= done + Chunk
      PROVE  mem'[k - 1] = Firmware[k]
  <2>1. k - 1 \in Ram /\ k - 1 - 0 + 1 = k
    BY RamCells, SizeAssumption
  <2>2. CASE k <= done
    <3>1. mem[k - 1] = Firmware[k]
      BY <2>2 DEF LoadInv
    <3>2. k - 1 \notin 0 + done .. 0 + done + Chunk - 1
      BY <1>4, <2>2, SizeAssumption
    <3> QED
      BY <1>4, <2>1, <3>1, <3>2, Zenon
  <2>3. CASE ~ (k <= done)
    <3>1. k - 1 \in 0 + done .. 0 + done + Chunk - 1
      BY <1>4, <1>5, <2>3, SizeAssumption
    <3> QED
      BY <1>4, <2>1, <3>1, Zenon
  <2> QED
    BY <2>2, <2>3
<1>6. pc' \in {31, 32} /\ (pc' = 31 => done' = done + Chunk) /\ (pc' = 32 => done' = 0)
      /\ (pc' = 32 => FirmwareSize = done + Chunk)
  BY <1>4
<1>7. \A k \in 1 .. FirmwareSize :
        pc' > 31 \/ (pc' = 31 /\ k <= done') => mem'[k - 1] = Firmware[k]
  BY <1>5, <1>6, SizeAssumption
<1>8. \A k \in 1 .. NvramSize : ~ (pc' > 32 \/ (pc' = 32 /\ k <= done'))
  BY <1>6, SizeAssumption
<1> QED
  BY <1>6, <1>7, <1>8 DEF LoadInv

LEMMA NvramKeeps ==
  ASSUME IInv, CoreInv, LoadInv, SendWrite, pc = 32
  PROVE  LoadInv'
<1> DEFINE start == RamSize - 1 - NvramSize
<1>1. Now.addr = start /\ Now.data = Nvram /\ Now = Program[32]
  BY RestDoes DEF Does, Now
<1>2. Len(Nvram) = NvramSize
  BY SizeAssumption DEF Nvram
<1>3. /\ \A a \in Ram : mem'[a] = IF a \in Target .. Target + Chunk - 1
                                  THEN Now.data[a - Now.addr + 1] ELSE mem[a]
      /\ Target = Now.addr + done /\ done \in Nat /\ Chunk \in Nat \ {0}
      /\ done + Chunk <= Len(Now.data)
      /\ \/ done + Chunk = Len(Now.data) /\ pc' = pc + 1 /\ done' = 0
         \/ done' = done + Chunk /\ pc' = pc
  BY Loading, Zenon
<1>4. start \in Nat /\ start >= FirmwareSize /\ start + NvramSize = RamSize - 1
  BY SizeAssumption
<1> HIDE DEF start
<1>5. /\ \A a \in Ram : mem'[a] = IF a \in start + done .. start + done + Chunk - 1
                                  THEN Nvram[a - start + 1] ELSE mem[a]
      /\ done \in Nat /\ Chunk \in Nat \ {0} /\ done + Chunk <= NvramSize
      /\ \/ done + Chunk = NvramSize /\ pc' = pc + 1 /\ done' = 0
         \/ done' = done + Chunk /\ pc' = pc
  BY <1>1, <1>2, <1>3, Zenon
<1>6. ASSUME NEW k \in 1 .. NvramSize, k <= done + Chunk
      PROVE  mem'[RamSize - 2 - NvramSize + k] = Nvram[k]
  <2> DEFINE a == RamSize - 2 - NvramSize + k
  <2>1. a \in Ram /\ a - start + 1 = k /\ a = start + k - 1
    BY RamCells, SizeAssumption DEF start
  <2>2. mem[a] = Nvram[k] \/ ~ (k <= done)
    BY DEF LoadInv
  <2> HIDE DEF a
  <2>3. CASE k <= done
    <3>1. a \notin start + done .. start + done + Chunk - 1
      BY <1>4, <1>5, <2>1, <2>3, SizeAssumption
    <3> QED
      BY <1>5, <2>1, <2>2, <2>3, <3>1, Zenon DEF a
  <2>4. CASE ~ (k <= done)
    <3>1. a \in start + done .. start + done + Chunk - 1
      BY <1>4, <1>5, <1>6, <2>1, <2>4, SizeAssumption
    <3> QED
      BY <1>5, <2>1, <3>1, Zenon DEF a
  <2> QED
    BY <2>3, <2>4 DEF a
<1>7. pc' \in {32, 33} /\ (pc' = 32 => done' = done + Chunk)
      /\ (pc' = 33 => NvramSize = done + Chunk)
  BY <1>5
<1>8. \A k \in 1 .. FirmwareSize : mem'[k - 1] = Firmware[k]
  <2> TAKE k \in 1 .. FirmwareSize
  <2>1. k - 1 \in Ram /\ mem[k - 1] = Firmware[k]
    BY RamCells DEF LoadInv
  <2>2. k - 1 \notin start + done .. start + done + Chunk - 1
    BY <1>4, <1>5, SizeAssumption
  <2> QED
    BY <1>5, <2>1, <2>2, Zenon
<1>9. \A k \in 1 .. NvramSize :
        pc' > 32 \/ (pc' = 32 /\ k <= done') => mem'[RamSize - 2 - NvramSize + k] = Nvram[k]
  BY <1>6, <1>7, SizeAssumption
<1> QED
  BY <1>7, <1>8, <1>9 DEF LoadInv

LEMMA MagicKeeps ==
  ASSUME IInv, CoreInv, LoadInv, SendWrite, pc = 33
  PROVE  LoadInv'
<1>1. Now.addr = RamSize - 1 /\ Now.data = <<Magic>>
  BY RestDoes DEF Does, Now
<1>2. Runs("SOCSRAM")
  BY DEF CoreInv, Runs, ClockEn, Reset
<1>3. /\ pc' = pc + 1
      /\ \A a \in Ram : mem'[a] = IF a = RamSize - 1 THEN Magic ELSE mem[a]
  BY <1>1, <1>2, WordEffect, RamCells, Zenon
<1>4. mem'[RamSize - 1] = Magic
  BY <1>3, RamCells, Zenon
<1>5. \A k \in 1 .. FirmwareSize : mem'[k - 1] = Firmware[k]
  <2> TAKE k \in 1 .. FirmwareSize
  <2>1. k - 1 \in Ram /\ mem[k - 1] = Firmware[k] /\ k - 1 # RamSize - 1
    BY RamCells, SizeAssumption DEF LoadInv
  <2> QED
    BY <1>3, <2>1, Zenon
<1>6. \A k \in 1 .. NvramSize : mem'[RamSize - 2 - NvramSize + k] = Nvram[k]
  <2> TAKE k \in 1 .. NvramSize
  <2> DEFINE a == RamSize - 2 - NvramSize + k
  <2>1. a \in Ram /\ mem[a] = Nvram[k]
    BY RamCells DEF LoadInv
  <2>2. a # RamSize - 1
    BY SizeAssumption
  <2> QED
    BY <1>3, <2>1, <2>2, Zenon
<1>7. pc' = 34
  BY <1>3
<1> QED
  BY <1>4, <1>5, <1>6, <1>7 DEF LoadInv
LEMMA SendWritePlaced ==
  ASSUME IInv, PlaceInv, SendWrite
  PROVE  PlaceInv'
<1>1. /\ phase = "running" /\ phase' = phase /\ on' = on /\ Report
      /\ pc \in 1 .. Len(Program) /\ Now = Program[pc] /\ Now.kind = "write"
  BY DEF SendWrite, Sending, Accessing, Running, Now
<1>2. CoreInv /\ LoadInv /\ FlagInv
  BY <1>1 DEF PlaceInv
<1>3. pc \in 1 .. 51 /\ pc \in WlanWrites \cup SocsramWrites \cup OtherWrites
  BY <1>1, KindAt
<1>4. pc' \in {pc, pc + 1}
  BY <1>3 DEF SendWrite, Advance
<1>5. FlagInv'
  <2>1. pc \notin {47, 49}
    BY <1>3 DEF WlanWrites, SocsramWrites, OtherWrites
  <2>2. status' = "ready" => "f2" \in on
    BY <1>1 DEF Report
  <2> QED
    BY <1>1, <1>2, <1>3, <1>4, <2>1, <2>2 DEF FlagInv
<1>6. CoreInv'
  BY <1>2, <1>3, WlanWriteKeeps, SocsramWriteKeeps, OtherWriteKeeps
<1>7. LoadInv'
  <2>1. CASE pc \in WlanWrites \cup SocsramWrites
    <3>1. pc' = pc + 1 /\ done' = 0 /\ \A a \in Ram : mem'[a] = mem[a]
      BY <1>2, <2>1, WlanWriteKeeps, SocsramWriteKeeps
    <3>2. pc > 33 \/ pc' < 32
      BY <2>1, <3>1 DEF WlanWrites, SocsramWrites
    <3> QED
      BY <1>2, <1>3, <3>1, <3>2, LoadStays
  <2>2. CASE pc \in {29, 30, 48}
    <3>1. /\ Program[29].addr = Remap /\ Program[29].data = <<3>>
          /\ Program[30].addr = Remap + 1 /\ Program[30].data = <<0>>
          /\ Program[48].addr = IntMask /\ Program[48].data = <<1>>
      BY RestDoes, Zenon DEF Does
    <3>2. /\ pc = 29 => Now.addr = Remap /\ Now.data = <<3>>
          /\ pc = 30 => Now.addr = Remap + 1 /\ Now.data = <<0>>
          /\ pc = 48 => Now.addr = IntMask /\ Now.data = <<1>>
      BY <1>1, <3>1, Zenon
    <3>3. PICK word \in {0, 1, 3} : Now.data = <<word>>
      BY <2>2, <3>2
    <3>4. Now.addr \notin Ram
      BY <2>2, <3>2, Cells
    <3>5. /\ done' = 0 /\ pc' = pc + 1
          /\ \A a \in Ram : mem'[a] = mem[a]
      BY <3>3, <3>4, WordEffect, RamCells, Zenon
    <3>6. pc > 33 \/ pc' < 32
      BY <2>2, <3>5
    <3> QED
      BY <1>2, <1>3, <3>5, <3>6, LoadStays
  <2>3. CASE pc \in {31, 32, 33}
    BY <1>2, <2>3, FirmwareKeeps, NvramKeeps, MagicKeeps
  <2> QED
    BY <1>3, <2>1, <2>2, <2>3 DEF OtherWrites
<1> QED
  BY <1>5, <1>6, <1>7 DEF PlaceInv

(* A step that writes nothing: the next one is expected to find no more,   *)
(* except what this one has seen.                                          *)
LEMMA AdvancePlaced ==
  ASSUME IInv, PlaceInv, Running, Now.kind # "write", UNCHANGED <<phase, mem, on>>,
         NEW steps \in {1, 5}, Advance(steps),
         steps = 5 => Now.kind = "return" /\ mem[Now.addr] % 2 = Reset,
         status' = "ready" => "f2" \in on,
         pc = 47 => "ht" \in on, pc = 49 => "f2" \in on
  PROVE  PlaceInv'
<1>1. /\ phase = "running" /\ pc \in 1 .. Len(Program) /\ Now = Program[pc]
      /\ pc' = pc + steps /\ done' = 0
  BY DEF Running, Now, Advance
<1>2. CoreInv /\ LoadInv /\ FlagInv
  BY <1>1 DEF PlaceInv
<1>3. /\ pc \in 1 .. 51 /\ pc \notin WlanWrites \cup SocsramWrites \cup OtherWrites
      /\ steps = 5 => pc \in {7, 13, 19, 35}
  BY <1>1, KindAt
<1>4. pc = 7 => Now.addr = ResetCtrl("WLAN")
  BY <1>1, WlanDoes DEF Does
<1>5. steps = 5 => pc \in {7, 13, 19, 35} /\ (pc = 7 => mem[ResetCtrl("WLAN")] % 2 = Reset)
  BY <1>3, <1>4
<1>6. CoreInv'
  BY <1>1, <1>2, <1>3, <1>5 DEF CoreInv, WlanWrites, SocsramWrites
<1>7. LoadInv'
  <2>1. pc \in 1 .. 51 /\ pc \notin 29 .. 33 /\ pc' = pc + steps
    BY <1>1, <1>3 DEF OtherWrites
  <2>2. steps = 5 => pc \in {7, 13, 19, 35}
    BY <1>5
  <2>3. pc > 33 \/ pc' < 32
    BY <2>1, <2>2
  <2> QED
    BY <1>1, <1>2, <1>3, <2>3, LoadStays
<1>8. FlagInv'
  BY <1>1, <1>2, <1>3, <1>5 DEF FlagInv
<1> QED
  BY <1>6, <1>7, <1>8 DEF PlaceInv

LEMMA PlacedInductive == IInv /\ PlaceInv /\ [Next]_vars => PlaceInv'
<1> SUFFICES ASSUME IInv, PlaceInv, [Next]_vars PROVE PlaceInv'
  OBVIOUS
<1>1. phase = "running" => CoreInv /\ LoadInv /\ FlagInv
  BY DEF PlaceInv
<1>2. CASE PowerUp
  <2>1. /\ pc' = 1 /\ done' = 0 /\ status' = "none" /\ phase' = "running"
    BY <1>2 DEF PowerUp, NewBus
  <2> QED
    BY <2>1 DEF PlaceInv, CoreInv, LoadInv, FlagInv
<1>3. CASE BudgetExpires
  BY <1>3 DEF BudgetExpires, PlaceInv
<1>4. CASE SetWindow
  <2>1. /\ UNCHANGED <<phase, pc, done, mem, on>> /\ phase = "running"
        /\ status' = "ready" => "f2" \in on \/ status = "ready"
    BY <1>4 DEF SetWindow, Report, Accessing, Running
  <2> QED
    BY <1>1, <2>1 DEF PlaceInv, CoreInv, LoadInv, FlagInv
<1>5. CASE SendWrite
  BY <1>5, SendWritePlaced
<1>6. CASE SendRead
  <2>1. /\ Running /\ Now.kind = "read" /\ UNCHANGED <<phase, mem, on>> /\ Advance(1) /\ Report
    BY <1>6 DEF SendRead, Sending, Accessing, chip
  <2>2. pc \notin {47, 49}
    BY <2>1, KindAt DEF Running, Now
  <2> QED
    BY <2>1, <2>2, AdvancePlaced DEF Report
<1>7. CASE ReturnIfReset
  <2> DEFINE steps == IF Found(Target) % 2 = Reset THEN 5 ELSE 1
  <2>1. /\ Running /\ Accessing /\ Sending /\ Now.kind = "return" /\ UNCHANGED <<phase, mem, on>>
        /\ Advance(steps) /\ Report
    BY <1>7 DEF ReturnIfReset, Sending, Accessing, chip
  <2>2. pc \in {7, 13, 19, 35} /\ Now = Program[pc]
    BY <2>1, KindAt DEF Running, Now
  <2>3. Target = Now.addr
    <3>1. Now.data = <<Junk>>
      BY <2>2, Returns
    <3> QED
      BY <2>1, <3>1, OneWord
  <2>4. steps \in {1, 5} /\ (steps = 5 => mem[Now.addr] % 2 = Reset)
    BY <2>1, <2>3, FoundAtTarget
  <2>5. status' = "ready" => "f2" \in on
    BY <2>1 DEF Report
  <2> HIDE DEF steps
  <2> QED
    BY <2>1, <2>2, <2>4, <2>5, AdvancePlaced
<1>8. CASE AssertUp
  <2>1. CASE CoreIsUp
    <3>1. /\ Running /\ Now.kind \in {"assert_clock", "assert_reset"}
          /\ UNCHANGED <<phase, mem, on>> /\ Advance(1) /\ Report
      BY <1>8, <2>1 DEF AssertUp, Sending, Accessing, chip
    <3>2. pc \notin {47, 49}
      BY <3>1, KindAt DEF Running, Now
    <3> QED
      BY <3>1, <3>2, AdvancePlaced DEF Report
  <2>2. CASE ~ CoreIsUp
    BY <1>8, <2>2 DEF AssertUp, PlaceInv
  <2> QED
    BY <2>1, <2>2
<1>9. CASE RequestClock
  <2>1. /\ Running /\ Now.kind = "csr" /\ UNCHANGED <<phase, mem, on>> /\ Advance(1) /\ Report
    BY <1>9 DEF RequestClock
  <2>2. pc \notin {47, 49}
    BY <2>1, KindAt DEF Running, Now
  <2> QED
    BY <2>1, <2>2, AdvancePlaced DEF Report
<1>10. CASE Poll
  <2>1. /\ Running /\ Now.kind = "await" /\ UNCHANGED <<phase, mem, on>> /\ phase = "running"
        /\ status' = "ready" => "f2" \in on
    BY <1>10 DEF Poll, Report, Running, chip
  <2>2. CASE Seen
    <3>1. Advance(1)
      BY <1>10, <2>2 DEF Poll
    <3>2. Now.flag \in on
      BY <1>1, <2>1, <2>2 DEF Seen, FromCache, FlagInv
    <3>3. (pc = 47 => Now.flag = "ht") /\ (pc = 49 => Now.flag = "f2")
      BY RestDoes DEF Now
    <3> QED
      BY <2>1, <3>1, <3>2, <3>3, AdvancePlaced
  <2>3. CASE ~ Seen
    <3>1. UNCHANGED <<pc, done>>
      BY <1>10, <2>3 DEF Poll
    <3> QED
      BY <1>1, <2>1, <3>1 DEF PlaceInv, CoreInv, LoadInv, FlagInv
  <2> QED
    BY <2>2, <2>3
<1>11. CASE PollGivesUp
  BY <1>11 DEF PollGivesUp, PlaceInv
<1>12. CASE InitDone
  <2>1. phase = "running" /\ phase' = "ready" /\ pc > 51 /\ UNCHANGED <<driver, chip>>
    BY <1>12, Listing DEF InitDone
  <2> QED
    BY <1>1, <2>1 DEF PlaceInv, CoreInv, LoadInv, FlagInv, driver, chip
<1>13. CASE ComesUp
  <2>1. /\ UNCHANGED <<phase, driver, mem>> /\ on \subseteq on'
    BY <1>13 DEF ComesUp
  <2> QED
    BY <2>1 DEF PlaceInv, CoreInv, LoadInv, FlagInv, driver
<1>14. CASE UNCHANGED vars
  BY <1>14 DEF vars, PlaceInv, CoreInv, LoadInv, FlagInv
<1> QED
  BY <1>2, <1>3, <1>4, <1>5, <1>6, <1>7, <1>8, <1>9, <1>10, <1>11, <1>12, <1>13, <1>14 DEF Next

LEMMA Placed == Spec => [](IInv /\ PlaceInv)
<1>1. Init => IInv /\ PlaceInv
  BY Initially DEF Init, PlaceInv
<1>2. IInv /\ PlaceInv /\ [Next]_vars => (IInv /\ PlaceInv)'
  BY Inductive, PlacedInductive
<1> QED
  BY <1>1, <1>2, PTL DEF Spec

-----------------------------------------------------------------------------
(* RAM is written only in the three steps that load it, while the core of  *)
(* the RAM runs and the WLAN core is in reset.                             *)
THEOREM WrittenWhileHaltedCorrect == Spec => []WrittenWhileHalted
<1>1. IInv /\ PlaceInv => WrittenWhileHalted
  <2> SUFFICES ASSUME IInv, PlaceInv, Sending, Now.kind = "write", Target \in Ram
               PROVE  Runs("SOCSRAM") /\ ~ Runs("WLAN")
    BY DEF WrittenWhileHalted
  <2>1. /\ phase = "running" /\ pc \in 1 .. Len(Program) /\ Now = Program[pc] /\ Accessing
    BY DEF Sending, Accessing, Running, Now
  <2>2. pc \in 1 .. 51 /\ pc \in WlanWrites \cup SocsramWrites \cup OtherWrites
    BY <2>1, KindAt
  <2>3. pc \in {31, 32, 33}
    <3> SUFFICES ASSUME pc \notin {31, 32, 33} PROVE FALSE
      OBVIOUS
    <3>1. /\ Program[29].addr = Remap /\ Program[29].data = <<3>>
          /\ Program[30].addr = Remap + 1 /\ Program[30].data = <<0>>
          /\ Program[48].addr = IntMask /\ Program[48].data = <<1>>
      BY RestDoes, Zenon DEF Does
    <3>2. pc \in {29, 30, 48} =>
            Now.addr \in {Remap, Remap + 1, IntMask} /\ \E word \in Nat : Now.data = <<word>>
      BY <2>1, <3>1
    <3>3. pc \in WlanWrites =>
            /\ Now.addr \in {IoCtrl("WLAN"), ResetCtrl("WLAN")}
            /\ \E word \in Nat : Now.data = <<word>>
      <4> DEFINE io == IoCtrl("WLAN")
                 rs == ResetCtrl("WLAN")
      <4>1. \A n \in WlanWrites : \E word \in Nat, a \in {io, rs} : Does(n, "write", a, <<word>>)
        BY WlanDoes DEF WlanWrites, Reset, Fgc, ClockEn
      <4> QED
        BY <2>1, <4>1, Zenon DEF Does
    <3>4. pc \in SocsramWrites =>
            /\ Now.addr \in {IoCtrl("SOCSRAM"), ResetCtrl("SOCSRAM")}
            /\ \E word \in Nat : Now.data = <<word>>
      <4> DEFINE io == IoCtrl("SOCSRAM")
                 rs == ResetCtrl("SOCSRAM")
      <4>1. \A n \in SocsramWrites : \E word \in Nat, a \in {io, rs} : Does(n, "write", a, <<word>>)
        BY SocsramDoes DEF SocsramWrites, Reset, Fgc, ClockEn
      <4> QED
        BY <2>1, <4>1, Zenon DEF Does
    <3>5. pc \in WlanWrites \/ pc \in SocsramWrites \/ pc \in {29, 30, 48}
      BY <2>2 DEF OtherWrites
    <3>6. PICK word \in Nat : Now.data = <<word>>
      BY <3>2, <3>3, <3>4, <3>5, Zenon
    <3>7. Now.addr \notin Ram
      BY <3>2, <3>3, <3>4, <3>5, Cells
    <3> QED
      BY <2>1, <3>6, <3>7, OneWord, Zenon
  <2> QED
    BY <2>1, <2>3 DEF PlaceInv, CoreInv, Runs, ClockEn, Reset
<1> QED
  BY <1>1, Placed, PTL

(* The assertion after the last core_reset never fails, whatever the cores *)
(* were when the power came.                                               *)
THEOREM AssertionCorrect == Spec => []AssertionHolds
<1>1. IInv /\ PlaceInv => AssertionHolds
  <2> SUFFICES ASSUME IInv, PlaceInv, Sending, Now.kind \in {"assert_clock", "assert_reset"}
               PROVE  CoreIsUp
    BY DEF AssertionHolds
  <2>1. /\ phase = "running" /\ pc \in 1 .. Len(Program) /\ Now = Program[pc] /\ Accessing
    BY DEF Sending, Accessing, Running, Now
  <2>2. CoreInv
    BY <2>1 DEF PlaceInv
  <2>3. /\ Program[45].addr = IoCtrl("WLAN") /\ Program[45].data = <<Junk>>
        /\ Program[46].addr = ResetCtrl("WLAN") /\ Program[46].data = <<Junk>>
        /\ Program[45].kind = "assert_clock" /\ Program[46].kind = "assert_reset"
    BY RestDoes, Zenon DEF Does
  <2>4. \/ pc = 45 /\ Now.kind = "assert_clock" /\ Now.addr = IoCtrl("WLAN")
        \/ pc = 46 /\ Now.kind = "assert_reset" /\ Now.addr = ResetCtrl("WLAN")
    BY <2>1, <2>3, KindAt
  <2>5. Now.data = <<Junk>>
    BY <2>1, <2>3, <2>4
  <2>6. Target = Now.addr
    BY <2>1, <2>5, OneWord
  <2>7. Found(Target) = mem[Now.addr]
    BY <2>6, FoundAtTarget
  <2>8. CASE pc = 45 /\ Now.kind = "assert_clock" /\ Now.addr = IoCtrl("WLAN")
    BY <2>2, <2>7, <2>8 DEF CoreIsUp, CoreInv, ClockEn
  <2>9. CASE pc = 46 /\ Now.kind = "assert_reset" /\ Now.addr = ResetCtrl("WLAN")
    BY <2>2, <2>7, <2>9 DEF CoreIsUp, CoreInv, Reset
  <2> QED
    BY <2>4, <2>8, <2>9
<1> QED
  BY <1>1, Placed, PTL

LEMMA UpAndLoaded ==
  ASSUME CoreInv, LoadInv, pc \in Nat, pc > 43
  PROVE  Runs("WLAN") /\ Loaded
<1>1. Runs("WLAN")
  BY DEF CoreInv, Runs, ClockEn, Reset
<1>2. Loaded
  BY DEF LoadInv, Loaded
<1> QED
  BY <1>1, <1>2

(* A ready driver has a radio whose firmware runs and is complete, with    *)
(* its clock and F2 up, although both waits may end on a cached status.    *)
THEOREM ReadyMeansUpCorrect == Spec => []ReadyMeansUp
<1>1. IInv /\ PlaceInv => ReadyMeansUp
  <2> SUFFICES ASSUME IInv, PlaceInv, phase = "ready"
               PROVE  Runs("WLAN") /\ Loaded /\ {"ht", "f2"} \subseteq on
    BY DEF ReadyMeansUp
  <2>1. CoreInv /\ LoadInv /\ FlagInv /\ pc \in Nat
    BY DEF PlaceInv, IInv, TypeOK
  <2>2. pc > 51 /\ "ht" \in on /\ "f2" \in on
    BY <2>1 DEF FlagInv
  <2> QED
    BY <2>1, <2>2, UpAndLoaded
<1> QED
  BY <1>1, Placed, PTL

(* No step of the driver starts the WLAN core before all is loaded.        *)
THEOREM StartsLoadedCorrect == Spec => StartsLoaded
<1> DEFINE Starts == phase = "running" /\ ~ Runs("WLAN") /\ Runs("WLAN")'
<1>1. ASSUME IInv, PlaceInv, IInv', PlaceInv', [Next]_vars, Starts
      PROVE  Loaded'
  <2>1. phase = "running" /\ CoreInv /\ (Runs("WLAN") # Runs("WLAN")')
    BY <1>1 DEF PlaceInv
  <2>2. ~ (mem' = mem)
    BY <2>1 DEF Runs
  <2>3. SendWrite \/ BudgetExpires
    BY <1>1, <2>2
    DEF Next, vars, PowerUp, SetWindow, SendRead, ReturnIfReset, AssertUp, RequestClock,
        Poll, PollGivesUp, InitDone, ComesUp, chip
  <2>4. ~ BudgetExpires
    <3>1. SUFFICES ASSUME mem' = Off PROVE ~ Runs("WLAN")'
      BY <1>1 DEF BudgetExpires
    <3>2. IoCtrl("WLAN") \in Addresses
      BY Cells
    <3>3. mem'[IoCtrl("WLAN")] = 0
      BY <3>1, <3>2 DEF Off, Junk
    <3> QED
      BY <3>3 DEF Runs, ClockEn
  <2>5. SendWrite
    BY <2>3, <2>4
  <2>6. /\ phase' = "running" /\ pc \in 1 .. Len(Program) /\ Now = Program[pc] /\ Now.kind = "write"
    BY <2>5 DEF SendWrite, Sending, Accessing, Running, Now
  <2>7. CoreInv' /\ LoadInv'
    BY <1>1, <2>6 DEF PlaceInv
  <2>8. pc \in WlanWrites \cup SocsramWrites \cup OtherWrites
    BY <2>6, KindAt
  <2>9. pc' \in Nat /\ pc' >= 9
    <3>1. pc \in 1 .. 51 /\ (pc' = pc \/ pc' = pc + 1)
      BY <2>5, <2>6, KindAt DEF SendWrite, Advance
    <3>2. pc \in WlanWrites => pc' = pc + 1
      BY <1>1, <2>1, <2>5, WlanWriteKeeps
    <3> QED
      BY <2>8, <3>1, <3>2 DEF WlanWrites, SocsramWrites, OtherWrites
  <2>10. pc' > 42
    <3>1. mem'[IoCtrl("WLAN")] % 2 = ClockEn /\ mem'[ResetCtrl("WLAN")] % 2 # Reset
      BY <1>1 DEF Runs
    <3>2. pc' \notin 9 .. 10 /\ pc' \notin 11 .. 42
      BY <2>7, <3>1 DEF CoreInv, ClockEn
    <3> QED
      BY <2>9, <3>2
  <2> QED
    BY <2>7, <2>9, <2>10 DEF LoadInv, Loaded
<1>2. IInv /\ PlaceInv /\ IInv' /\ PlaceInv' /\ [Next]_vars => [Starts => Loaded']_vars
  BY <1>1
<1> QED
  BY <1>2, Placed, PTL DEF Spec, StartsLoaded
=============================================================================
