\* Abandoned requests, late and failed answers, sequence numbers that wrap.
\* The runner stops when it panics.
SPECIFICATION LiveSpec
CONSTANTS
  MaxRequests = 3
  IdModulus = 4
  SequenceModulus = 8
  Window = 2
  MaxFrames = 2
INVARIANTS
  BufferAlive
  OwnAnswer
  WithinGrant
PROPERTIES
  RequestsEnd
CHECK_DEADLOCK FALSE
