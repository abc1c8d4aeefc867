\* Power loss and failing flash operations together.
SPECIFICATION Spec
CONSTANTS
  Sectors = 3
  SlotsPerSector = 2
  MaxSequence = 8
  PowerMayFail = TRUE
  StorageMayFail = TRUE
INVARIANTS
  TypeOK
  DepthAccurate
  DrainedQueueHasRoom
PROPERTIES
  DiscardOnlyWhenFull
  ImplementsMeasurementQueue
