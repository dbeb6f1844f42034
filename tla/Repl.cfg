SPECIFICATION ReplSpec
CONSTANTS
  Modules = {util, spawn}
  Blocked = {spawn}
  Blocks <- MCBlocks
  MaxBlocks = 2
  MaxRuns = 2
  MaxEdits = 1
  ActiveStyle = "at"
  Alphabet <- MCAlphabet
  MaxReply = 4
  MaxLines = 3
  MaxRetries = 1
INVARIANTS
  AnswerCarried
  Released
  ContentKept
  ShellWasAsked
  RunsWhatRan
PROPERTIES
  FreshModules
