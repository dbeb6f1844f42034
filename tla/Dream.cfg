SPECIFICATION Spec
CONSTANTS
  Launches = 2
  Tasks = {1}
  Priority <- SomePriority
  SkipSanity = {}
  Cycles = 1
  Retries = 1
  RearchRuns = 1
  ConvergedAt = 1
  Window = 5
  Areas = {"core"}
  Singles <- OneSingle
  MaxFaults = 1
INVARIANTS
  TasksSettled
PROPERTIES
  CommitsTested
\* The launches come to an end.
CHECK_DEADLOCK FALSE
