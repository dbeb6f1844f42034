SPECIFICATION Spec
CONSTANTS
  MaxSpawns = 1
  MaxNesting = 2
  MaxTurns = 2
  Timeout = 2
  Compress = 70
  Target = 28
  Prompt = 10
  Usages = {50}
  Growths = {40}
  Budgets = {10, 70}
  Amounts = {30}
  MaxChildren = 2
  MaxOrders = 1
INVARIANTS
  TimeKept
  SlotsHeld
PROPERTIES
  ClosedStays
