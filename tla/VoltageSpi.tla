----------------------------- MODULE VoltageSpi -----------------------------
(***************************************************************************)
(* src/src/voltage.rs: the supply voltage is read through a pin that is    *)
(* also the clock of the radio's SPI bus.  The sampler asks through the    *)
(* signal REQUEST and waits a second for the signal RESPONSE; the wrapper  *)
(* of the bus serves a request where no transfer is active, before a       *)
(* command or while it waits for the radio.  A wake cycle owns the bus and *)
(* its reader and may be dropped at any await; the signals are statics     *)
(* that outlive it.  Sampling has no await in it, so it is one step.       *)
(***************************************************************************)
EXTENDS Integers

CONSTANT MaxReads   \* bound: reads in all

ASSUME ReadsAssumption == MaxReads \in Nat

VARIABLES
  bus,        \* "off", "between" commands, in a "transfer", or "waiting"
  reader,     \* read_voltage: "idle" or "waiting"
  request,    \* REQUEST is signalled
  response,   \* RESPONSE: the number of the sample it holds, or Empty
  samples,    \* samples taken so far
  reads,      \* reads begun so far
  taken,      \* samples taken before the current, or latest, read began
  returned    \* the sample the latest finished read returned, or Empty

signals     == <<request, response>>
voltageVars == <<bus, reader, request, response, samples, reads, taken, returned>>

Empty == 0

VoltageInit ==
  /\ bus = "off" /\ reader = "idle"
  /\ request = FALSE /\ response = Empty
  /\ samples = 0 /\ reads = 0 /\ taken = 0
  /\ returned = Empty

(* Faulty: a late or abandoned response is left for the next read. *)
BadResetResponse == UNCHANGED response

ResetResponse == response' = Empty

-----------------------------------------------------------------------------
(* Faulty: a request outlives the cycle that made it. *)
BadRadioOn ==
  /\ bus = "off"
  /\ bus' = "between"
  /\ UNCHANGED request
  /\ ResetResponse
  /\ UNCHANGED <<reader, samples, reads, taken, returned>>

(* A cycle begins with VoltageSpi::new. *)
RadioOn ==
  /\ bus = "off"
  /\ bus' = "between"
  /\ request' = FALSE
  /\ ResetResponse
  /\ UNCHANGED <<reader, samples, reads, taken, returned>>

(* The cycle is over, or its budget is: every future in it is dropped.     *)
RadioOff ==
  /\ bus # "off"
  /\ bus' = "off"
  /\ reader' = "idle"
  /\ UNCHANGED <<signals, samples, reads, taken, returned>>

-----------------------------------------------------------------------------
(* read_voltage.                                                           *)

BeginRead ==
  /\ bus # "off" /\ reader = "idle" /\ reads < MaxReads
  /\ ResetResponse
  /\ request' = TRUE
  /\ taken' = samples
  /\ reads' = reads + 1
  /\ reader' = "waiting"
  /\ UNCHANGED <<bus, samples, returned>>

(* The sample may be a failed one: read_voltage then returns None, and it  *)
(* is still the answer to this read.                                       *)
ReadReturns ==
  /\ reader = "waiting" /\ response # Empty
  /\ returned' = response
  /\ response' = Empty
  /\ reader' = "idle"
  /\ UNCHANGED <<bus, request, samples, reads, taken>>

(* with_timeout looks at RESPONSE before it looks at the clock. *)
ReadTimesOut ==
  /\ reader = "waiting" /\ response = Empty
  /\ request' = FALSE
  /\ returned' = Empty
  /\ reader' = "idle"
  /\ UNCHANGED <<bus, response, samples, reads, taken>>

-----------------------------------------------------------------------------
(* The bus.                                                                *)

(* Taking the request, sampling, and signalling the result. *)
Sample ==
  /\ request' = FALSE
  /\ samples' = samples + 1
  /\ response' = samples + 1

ServiceRequest == IF request THEN Sample ELSE UNCHANGED <<signals, samples>>

(* cmd_write and cmd_read. *)
Command ==
  /\ bus = "between"
  /\ ServiceRequest
  /\ bus' = "transfer"
  /\ UNCHANGED <<reader, reads, taken, returned>>

CommandDone ==
  /\ bus = "transfer"
  /\ bus' = "between"
  /\ UNCHANGED <<reader, signals, samples, reads, taken, returned>>

WaitForEvent ==
  /\ bus = "between"
  /\ bus' = "waiting"
  /\ UNCHANGED <<reader, signals, samples, reads, taken, returned>>

SampleWhileWaiting ==
  /\ bus = "waiting" /\ request
  /\ Sample
  /\ UNCHANGED <<bus, reader, reads, taken, returned>>

(* The radio's interrupt, or the runner has something to send. *)
WaitOver ==
  /\ bus = "waiting"
  /\ bus' = "between"
  /\ UNCHANGED <<reader, signals, samples, reads, taken, returned>>

-----------------------------------------------------------------------------
VoltageNext ==
  \/ RadioOn \/ RadioOff
  \/ BeginRead \/ ReadReturns \/ ReadTimesOut
  \/ Command \/ CommandDone \/ WaitForEvent \/ SampleWhileWaiting \/ WaitOver

VoltageSpec == VoltageInit /\ [][VoltageNext]_voltageVars

-----------------------------------------------------------------------------
(* Correctness.                                                            *)

VoltageTypeOK ==
  /\ bus \in {"off", "between", "transfer", "waiting"}
  /\ reader \in {"idle", "waiting"}
  /\ request \in BOOLEAN
  /\ samples \in Nat /\ taken \in Nat /\ reads \in Nat
  /\ response \in Nat /\ returned \in Nat

(* A failed read never reuses old voltage (voltage.rs): what a read        *)
(* returns was sampled after the read began, although an earlier read may  *)
(* have been dropped with its answer already signalled.                    *)
FreshVoltage == [][ReadReturns => returned' > taken]_voltageVars

(* The clock pin is taken from the radio only while somebody waits for the *)
(* voltage: no request survives its read, by timeout or cancellation, into *)
(* the traffic that follows.                                               *)
RequestHasReader == request /\ bus # "off" => reader = "waiting"

(* One request costs the bus one interruption. *)
SampledOnce == samples - taken <= 1
=============================================================================
