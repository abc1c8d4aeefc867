\* The code's buffers, names up to one byte too long, records of three firmwares.
SPECIFICATION ReadingSpec
CONSTANTS
  Numbers = {0, 1}
  Volts = {3}
  NameLengths = {16, 79, 80}
  IdBuffer = 96
  JsonBuffer = 384
INVARIANTS
  PublishedAsCaptured
  BootedCanPublish
PROPERTIES
  SlotLife
