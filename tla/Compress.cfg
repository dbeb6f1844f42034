SPECIFICATION Spec
CONSTANTS
  MaxUser = 5
  MaxRequest = 3
  MaxItem = 2
  MaxReplItems = 1
  MinBlock = 4
  MinTarget = 3
  MinTask = 1
  ImageSize = 2
  Window = 16
  Reserve = 4
  RequestSizes = {1, 6}
  Feedbacks <- MCFeedbacks
  MaxLength = 6
  MaxRequests = 2
  MaxCompressions = 2
INVARIANTS
  Sendable
  RequestKept
PROPERTIES
  StepsKeepRequests
\* The bounds on messages, requests and compressions stop the model.
CHECK_DEADLOCK FALSE
