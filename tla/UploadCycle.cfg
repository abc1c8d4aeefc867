\* A queue of three that overflows, cut short, restarted and republished.
SPECIFICATION LiveSpec
CONSTANTS
  QueueCapacity = 3
  MaxSequence = 4
INVARIANTS
  NothingLostSilently
  AwaitedIsOldest
  OneSamplePerCycle
  LedTellsPhase
PROPERTIES
  OrderedAtBroker
  EventuallyLeaves
