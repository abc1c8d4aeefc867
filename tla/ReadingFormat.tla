---------------------------- MODULE ReadingFormat ----------------------------
(***************************************************************************)
(* A reading's two formats, and the checks at boot that publishing relies  *)
(* on: the 256 bytes of a flash slot (encode, decode, read_slot and the    *)
(* writes of src/src/flash_queue.rs, on NOR flash that only clears bits),  *)
(* and the JSON payload in its buffer (src/src/lib.rs), for a device whose *)
(* configuration was compiled in (AppConfig of src/src/main.rs).           *)
(*                                                                         *)
(* One slot is followed, which FlashQueue knows only as erased, corrupt,   *)
(* active or acknowledged; when its sector is erased FlashQueue says.  The *)
(* bytes are the fields of the layout; a checksum is the values it covers, *)
(* so that two contents never share one.                                   *)
(***************************************************************************)
EXTENDS Integers, Sequences

CONSTANTS
  Numbers,           \* what is measured: 0 is as short in the payload as it gets
  Volts,             \* a voltage, if there is one
  NameLengths,       \* bytes MQTT_CLIENT_ID may have
  IdBuffer,          \* 96 in the code: the effective client identifier
  JsonBuffer         \* 384 in the code: the payload

ASSUME FormatAssumption ==
  /\ NameLengths \subseteq Nat
  /\ IdBuffer \in Nat /\ JsonBuffer \in Nat

VARIABLES
  config,    \* what was compiled into the firmware that runs, {} while none does
  doing,     \* "off", "idle", "commit" (the body is written), or "halted"
  slot,      \* the fields on flash
  record,    \* RAM: the record append is writing
  stored     \* the record that was completely written, as a set, for the properties

readingVars == <<config, doing, slot, record, stored>>

-----------------------------------------------------------------------------
(* Records.  An Option is a set of at most one value.  The sequence, the   *)
(* times and the measurements are "numbers", all short or all as long as   *)
(* they get.                                                               *)

Voltages == {{}} \cup {{volt} : volt \in Volts}
Sources  == {{}, {TRUE}, {FALSE}}

Records == [numbers : Numbers, voltage : Voltages, on_battery : Sources]

(* What older firmware could record. *)
Recordable(version) ==
  {r \in Records : (version < 3 => r.on_battery = {}) /\ (version < 2 => r.voltage = {})}

-----------------------------------------------------------------------------
(* Bytes.  The marker is byte 0, by its two bits that ever change.         *)

ERASED       == {6, 7}
COMMITTED    == {6}
ACKNOWLEDGED == {}

Ff     == 255
Garbled == 99    \* neither erased nor what was to be written
Magic  == 100
NaN    == 0

(* What is recorded looks neither erased nor half written; NaN is kept for *)
(* no voltage.                                                             *)
ASSUME ValueAssumption ==
  /\ Numbers \subseteq Nat \ {Ff, Garbled}
  /\ Volts \subseteq Nat \ {NaN, Ff}

Layout == {"version", "battery", "magic", "numbers", "at40", "at44"}

(* Bytes 40 to 47 are words: a voltage, or a checksum. *)
Blank(field) == IF field \in {"at40", "at44"} THEN <<Ff>> ELSE Ff

ErasedSlot == [marker |-> ERASED, bytes |-> [f \in Layout |-> Blank(f)]]

Crc40(b) == <<b.version, b.battery, b.magic, b.numbers>>
Crc44(b) == Crc40(b) \o b.at40

(* encode: version 3; the earlier ones as their firmware wrote them. *)
Encoded(r, version) ==
  LET head == [version  |-> version,
               battery  |-> CASE r.on_battery = {} -> Ff
                              [] r.on_battery = {FALSE} -> 0
                              [] r.on_battery = {TRUE} -> 1,
               magic    |-> Magic,
               numbers  |-> r.numbers,
               at40     |-> IF r.voltage = {} THEN <<NaN>> ELSE <<CHOOSE v \in r.voltage : TRUE>>,
               at44     |-> Blank("at44")]
  IN  IF version = 1
        THEN [head EXCEPT !.at40 = Crc40(head)]
        ELSE [head EXCEPT !.at44 = Crc44(head)]

(* Faulty: the checksum is not looked at. *)
UncheckedCrc(b) == TRUE

CrcHolds(b) == IF b.version = 1 THEN b.at40 = Crc40(b) ELSE b.at44 = Crc44(b)

(* decode, as an Option. *)
Decoded(b) ==
  IF /\ b.version \in 1 .. 3 /\ b.magic = Magic
     /\ CrcHolds(b)
     /\ b.version = 3 => b.battery \in {Ff, 0, 1}
    THEN { [numbers    |-> b.numbers,
            voltage    |-> IF b.version = 1 \/ b.at40 = <<NaN>> THEN {} ELSE {b.at40[1]},
            on_battery |-> IF b.version < 3 \/ b.battery = Ff THEN {} ELSE {b.battery = 1}] }
    ELSE {}

(* read_slot: the kind, and what is readable. *)
Read ==
  [kind |-> CASE slot = ErasedSlot -> "Erased"
              [] slot.marker = ACKNOWLEDGED -> "Acknowledged"
              [] slot.marker = COMMITTED /\ Decoded(slot.bytes) # {} -> "Active"
              [] OTHER -> "Corrupt",
   record |-> Decoded(slot.bytes)]

-----------------------------------------------------------------------------
(* The configuration, and the payload.                                     *)

Required == {"WIFI_SSID", "WIFI_PASSWORD", "MQTT_HOST"}

Configs ==
  [set : SUBSET Required,
   port : {"unset", "zero", "not a number", "valid"},
   name_length : NameLengths,
   username : BOOLEAN, mqtt_password : BOOLEAN]

(* Faulty: nobody looks whether the credentials go together. *)
BadCredentialsPair(c) == TRUE

CredentialsPair(c) == c.username = c.mqtt_password

(* AppConfig::load returns Ok. *)
Loads(c) ==
  /\ c.set = Required
  /\ c.port \in {"unset", "valid"}
  /\ CredentialsPair(c)

HardwareIdLength == 16

ComposesId(c) == c.name_length + 1 + HardwareIdLength <= IdBuffer

(* create_mqtt_session returns a session.  What the MQTT library says of   *)
(* an identifier or a password is not known from here; it is taken to      *)
(* accept them.                                                            *)
CreatesSession(c) == c.username = c.mqtt_password

(* queued_reading and the text that encode_reading makes of it: its keys,  *)
(* quotes and braces, two strings, three 64-bit numbers and three floats.  *)
(* A name is taken to need no escapes.                                     *)
KeysLength == 151
Digits(n)  == IF n = 0 THEN 1 ELSE 20
Float(n)   == IF n = 0 THEN 3 ELSE 16

JsonLength(c, r) ==
  KeysLength + c.name_length + HardwareIdLength
    + 3 * Digits(r.numbers) + 2 * Float(r.numbers)
    + (IF r.voltage = {} THEN 4 ELSE 16)
    + (IF r.on_battery = {FALSE} THEN 5 ELSE 4)

(* The longest text that the checks at boot let through fits the buffer.   *)
ASSUME BufferAssumption == IdBuffer + 263 <= JsonBuffer

Encodes(c, r) == JsonLength(c, r) <= JsonBuffer

-----------------------------------------------------------------------------
(* Flash that was left by this firmware or an earlier one.                 *)
ReadingInit ==
  /\ config = {}
  /\ doing = "off"
  /\ record = {}
  /\ \/ slot = ErasedSlot /\ stored = {}
     \/ \E version \in 1 .. 2 : \E r \in Recordable(version) :
          /\ slot = [marker |-> COMMITTED, bytes |-> Encoded(r, version)]
          /\ stored = {r}

(* Whatever was compiled last; a device that halts stays so until it is    *)
(* given other firmware, which is another boot.                            *)
Boot ==
  /\ doing = "off"
  /\ \E c \in Configs :
       IF Loads(c) /\ ComposesId(c)
         THEN doing' = "idle" /\ config' = {c}
         ELSE doing' = "halted" /\ config' = {}
  /\ UNCHANGED <<slot, record, stored>>

Reflash == doing = "halted" /\ doing' = "off" /\ UNCHANGED <<config, slot, record, stored>>

(* Faulty: the body is written with its marker. *)
BadBody(r) == [marker |-> COMMITTED, bytes |-> Encoded(r, 3)]

(* write_record: the body goes first, with byte 0 left erased. *)
Body(r) == [marker |-> ERASED, bytes |-> Encoded(r, 3)]

WriteBody ==
  /\ doing = "idle"
  /\ Read.kind = "Erased"
  /\ \E r \in Records :
       /\ record' = {r}
       /\ slot' = Body(r)
  /\ doing' = "commit"
  /\ UNCHANGED <<config, stored>>

(* NOR flash clears bits, and refuses to set one. *)
WriteState(marker) ==
  /\ marker \subseteq slot.marker
  /\ slot' = [slot EXCEPT !.marker = marker]

Commit ==
  /\ doing = "commit"
  /\ WriteState(COMMITTED)
  /\ doing' = "idle"
  /\ stored' = record
  /\ record' = {}
  /\ UNCHANGED config

Acknowledge ==
  /\ doing = "idle"
  /\ Read.kind = "Active"
  /\ WriteState(ACKNOWLEDGED)
  /\ UNCHANGED <<config, doing, record, stored>>

Reclaimed == Read.kind \in {"Acknowledged", "Corrupt"}

Erase ==
  /\ doing = "idle"
  /\ Reclaimed
  /\ slot' = ErasedSlot
  /\ stored' = {}
  /\ UNCHANGED <<config, doing, record>>

PowerOff == doing' = "off" /\ record' = {} /\ config' = {}

PowerLoss ==
  /\ doing \in {"idle", "commit"}
  /\ PowerOff
  /\ UNCHANGED <<slot, stored>>

(* Each field is as it was or as it will be; the numbers, 32 bytes, may be *)
(* half way.                                                               *)
Half(from, to) ==
  {[f \in Layout |-> IF f \in done THEN to[f] ELSE from[f]] : done \in SUBSET Layout}

Torn(from, to) ==
  Half(from, to)
    \cup {[b EXCEPT !.numbers = IF from.numbers = to.numbers THEN @ ELSE Garbled] :
            b \in Half(from, to)}

PowerLossInBody ==
  /\ doing = "idle"
  /\ Read.kind = "Erased"
  /\ \E r \in Records :
       \E m \in {slot.marker, Body(r).marker}, b \in Torn(slot.bytes, Body(r).bytes) :
         slot' = [marker |-> m, bytes |-> b]
  /\ PowerOff
  /\ UNCHANGED stored

(* An interrupted erase raises some bits.  All of a sector is erased at    *)
(* about the same pace: byte 0 is not changed while every other byte is    *)
(* still as it was.                                                        *)
PowerLossInErase ==
  /\ doing = "idle"
  /\ Reclaimed
  /\ \E m \in {m \in SUBSET ERASED : slot.marker \subseteq m},
        b \in Torn(slot.bytes, ErasedSlot.bytes) :
       /\ b = slot.bytes => m = slot.marker
       /\ slot' = [marker |-> m, bytes |-> b]
       /\ stored' = IF b = slot.bytes THEN stored ELSE {}
  /\ PowerOff

ReadingNext ==
  \/ Boot \/ Reflash \/ WriteBody \/ Commit \/ Acknowledge \/ Erase
  \/ PowerLoss \/ PowerLossInBody \/ PowerLossInErase

ReadingSpec == ReadingInit /\ [][ReadingNext]_readingVars

-----------------------------------------------------------------------------
(* Correctness.                                                            *)

Running == doing \in {"idle", "commit"}

(* What is published is what was captured, whichever firmware recorded it  *)
(* and whatever a power loss left in the slot: no field is invented, none  *)
(* is lost, and half a record is no record.                                *)
PublishedAsCaptured == Running /\ Read.kind = "Active" => Read.record = stored

(* A device that gets past its boot checks never finds a reading that its  *)
(* payload buffer refuses or a session that cannot be created: either      *)
(* would fail every attempt of every cycle with the queue filling up.      *)
BootedCanPublish ==
  \A c \in config :
    CreatesSession(c) /\ (Read.kind = "Active" => \A r \in Read.record : Encodes(c, r))

(* The life of a slot that FlashQueue builds on: it becomes a record only  *)
(* when its marker is committed, keeps its number when it is acknowledged, *)
(* and never becomes active again.                                         *)
SlotLife ==
  [][\/ Read' = Read
     \/ Read.kind \in {"Erased", "Corrupt"} /\ Read'.kind = "Corrupt"
     \/ Read.kind = "Corrupt" /\ Read' = [kind |-> "Active", record |-> record]
     \/ Read.kind = "Active" /\ Read' = [Read EXCEPT !.kind = "Acknowledged"]
     \/ Read.kind = "Acknowledged" /\ Read'.kind \in {"Corrupt", "Acknowledged"}
                                   /\ (Read'.kind = "Acknowledged" => Read'.record = {})
     \/ Read.kind \in {"Acknowledged", "Corrupt"} /\ Read'.kind = "Erased"]_slot
=============================================================================
