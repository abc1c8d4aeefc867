\* No fault at all: only the order of appends and acknowledgments.
SPECIFICATION Spec
CONSTANTS
  Sectors = 3
  SlotsPerSector = 3
  MaxSequence = 18
  PowerMayFail = FALSE
  StorageMayFail = FALSE
INVARIANTS
  AppendFindsErasedSlot
