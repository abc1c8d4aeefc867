\* Two ticks to the second; an NTP era ends in the middle of the run.
SPECIFICATION Spec
CONSTANTS
  TicksPerSecond = 2
  EpochOffset = 5
  EraSeconds = 16
  NtpTimeout = 2
  Budget = 3
  Interval = 10
  RefreshPeriod = 10
  FirstDelay = 2
  MaxDelay = 7
  MaxRequests = 2
  MaxBoots = 1
  Start = 1
  Horizon = 28
INVARIANTS
  UtcAccurate
PROPERTIES
  StaleIsRefreshed
  TimestampsIncrease
