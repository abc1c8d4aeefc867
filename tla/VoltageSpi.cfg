\* Five reads over cycles that may be cut short anywhere.
SPECIFICATION VoltageSpec
CONSTANTS
  MaxReads = 5
INVARIANTS
  RequestHasReader
PROPERTIES
  FreshVoltage
