SPECIFICATION Spec
CONSTANTS
  MaxTurns = 3
  MaxErrors = 2
  NoCodeForce = 2
  ForceWarnings = 3
  QueueCap = 1
  Commands <- OnlyStop
  MaxRequests = 1
  MaxSent = 1
  MaxSegments = 1
INVARIANTS
  StopEndsTurn
\* After the exit of the process nothing happens.
CHECK_DEADLOCK FALSE
