SPECIFICATION Spec
CONSTANTS
  Agents = {"a", "b"}
  Old = {}
  Browsing = {"a"}
  Parent <- SomeParent
  MaxTurns = 1
  MaxRotations = 2
  MaxBatch = 1
  MaxFaults = 1
INVARIANTS
  LastSaveOffered
  
  KeptAtName
\* The agents come to an end.
CHECK_DEADLOCK FALSE
