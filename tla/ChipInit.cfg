\* RAM of three windows, registers in two others; firmware over a window's end.
SPECIFICATION Spec
CONSTANTS
  WindowSize = 4
  Radix = 4
  Sentinel = 3
  MaxTransfer = 3
  RamSize = 12
  FirmwareSize = 6
  NvramSize = 3
  ChipCommon = 64
  Remap = 65
  IntMask = 67
  WlanBase = 80
  SocsramBase = 82
INVARIANTS
  HitsAddress
  WrittenWhileHalted
  ReadyMeansUp
  AssertionHolds
PROPERTIES
  StartsLoaded
CHECK_DEADLOCK FALSE
