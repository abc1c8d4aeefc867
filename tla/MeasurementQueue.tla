-------------------------- MODULE MeasurementQueue --------------------------
(***************************************************************************)
(* What the measurement queue promises its callers, whatever happens to    *)
(* the power supply: a bounded first-in-first-out set of measurements,     *)
(* each known by its sequence number.  A measurement enters with a number  *)
(* above every number ever stored, and leaves only as the oldest one, when *)
(* the caller acknowledges it or a full queue discards it.  Losing power   *)
(* is not an action: the promise is that it changes nothing here.          *)
(***************************************************************************)
EXTENDS Integers, FiniteSets

CONSTANT QueueCapacity   \* the most measurements the queue may hold

VARIABLES
  pending,   \* the sequence numbers of the measurements held
  newest     \* the highest sequence number ever stored, or -1

queueVars == <<pending, newest>>

QueueInit ==
  /\ pending = {}
  /\ newest = -1

Store ==
  /\ Cardinality(pending) < QueueCapacity
  /\ newest' \in Nat
  /\ newest' > newest
  /\ pending' = pending \cup {newest'}

Retire(n) ==
  /\ \A m \in pending : n <= m
  /\ pending' = pending \ {n}
  /\ UNCHANGED newest

QueueNext ==
  \/ Store
  \/ \E n \in pending : Retire(n)

QueueSpec == QueueInit /\ [][QueueNext]_queueVars
=============================================================================
