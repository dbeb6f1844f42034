SPECIFICATION FairSpec
CONSTANTS
  ImageSize = 2
  Overhead = 1
  Prune = 3
  FailureThreshold = 2
  SuccessThreshold = 2
  MaxRetries <- Retries
  RedactUpTo = 0
  GiveUp = 2
  MinBytes = 1
  MaxTokens = 1
  Window = 15
  Reserve = 2
  Requests <- MCRequests
  MaxLength = 4
  MaxCalls = 2
INVARIANTS
  SentIsKept
  AnchorPricesPrefix
  BreakerBounds
PROPERTIES
  CallReturns
\* The bounds on calls and messages stop the model.
CHECK_DEADLOCK FALSE
