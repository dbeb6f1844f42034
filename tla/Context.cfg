SPECIFICATION CSpec
CONSTANTS
  MaxTurns = 2
  MaxErrors = 1
  NoCodeForce = 1
  ForceWarnings = 1
  QueueCap = 2
  Commands <- SomeCommands
  MaxRequests = 2
  MaxSent = 2
  MaxSegments = 2
INVARIANTS
  CallsOnUser
  TailFaithful
  ClosedTurnAlternates
  NoAdjacentUsers
\* After the exit of the process nothing happens.
CHECK_DEADLOCK FALSE
