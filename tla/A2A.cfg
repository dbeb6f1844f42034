SPECIFICATION FairSpec
CONSTANTS
  c1 = c1
  c2 = c2
  c3 = c3
  Conns = {c1, c2, c3}
  Terminal = Terminal
  None = None
  IdOf <- OwnId
  MaxHandlers = 2
  MaxTyped = 1
INVARIANTS
  OwnResponse
  NoVainPolling
PROPERTIES
  KeepsQueryContract
  PollingEnds
\* After the exit of the process nothing happens.
CHECK_DEADLOCK FALSE
