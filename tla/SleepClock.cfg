\* Three ticks to the millisecond and five milliseconds to the slot.
SPECIFICATION Spec
CONSTANTS
  TicksPerMs = 3
  IntervalMs = 5
  FlushMs = 1
  ShortestMs = 2
  EntrySkew = 2
  ExitSkew = 1
  MaxAwake = 16
  MaxLate = 4
  Horizon = 30
INVARIANTS
  DriftBounded
  NotEarly
  OnSchedule
PROPERTIES
  TimeMovesForward
  NextSlot
