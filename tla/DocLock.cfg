SPECIFICATION Spec
CONSTANTS
  Launches = 3
  Tasks = {}
  Priority <- SomePriority
  SkipSanity = {}
  Cycles = 1
  Retries = 0
  RearchRuns = 1
  ConvergedAt = 1
  Window = 5
  Areas = {"core"}
  Singles <- OneSingle
  MaxFaults = 0
INVARIANTS
  Exclusive
\* The launches come to an end.
CHECK_DEADLOCK FALSE
