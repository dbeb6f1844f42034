SPECIFICATION FairSpec
CONSTANTS
  MaxTurns = 2
  MaxErrors = 2
  NoCodeForce = 2
  ForceWarnings = 1
  QueueCap = 1
  Commands <- AnyCommand
  MaxRequests = 2
  MaxSent = 1
  MaxSegments = 2
INVARIANTS
  TurnClosed
  NoStaleAnswer
  NoCodeOwn
  ErrorsOwn
  ExitStopsCalls
PROPERTIES
  ExitGateSound
  ImplementsContract
  TurnTerminates
\* After the exit of the process nothing happens.
CHECK_DEADLOCK FALSE
