\* A radio whose clock does not come; the least memory and firmware.
SPECIFICATION FairSpec
CONSTANTS
  WindowSize = 4
  Radix = 2
  Sentinel = 2
  MaxTransfer = 3
  RamSize = 3
  FirmwareSize = 1
  NvramSize = 1
  ChipCommon = 16
  Remap = 17
  IntMask = 19
  WlanBase = 24
  SocsramBase = 26
PROPERTIES
  CyclesRecur
CHECK_DEADLOCK FALSE
