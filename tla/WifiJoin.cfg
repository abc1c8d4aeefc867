\* Three attempts in a session, any of which fails, stalls or is dropped.
SPECIFICATION Spec
CONSTANTS
  QueueSize = 2
  MaxAttempts = 3
INVARIANTS
  TypeOK
  OutcomeHeard
  LinkIsTrue
PROPERTIES
  DecidedByOwnAttempt
  ImplementsConnectWifi
