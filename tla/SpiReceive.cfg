\* Frames of two lengths, up to three waiting.
SPECIFICATION LiveSpec
CONSTANTS
  Lengths = {1, 2}
  FifoSize = 3
  MaxCredit = 2
  CountModulus = 3
INVARIANTS
  ReadsWholeFrame
PROPERTIES
  FramesReceived
