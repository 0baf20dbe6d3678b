SPECIFICATION FairSpec
CONSTANTS
  Streams = {s1}
  Bidi = {s1}
  Sizes = {0, 2}
  MaxWrites = 2
  InitCredit = 1
  MaxCredit = 4
  MAX_WRITE_CHUNK = 1
  CMD_BUDGET = 1
  WRITABLE_BUDGET = 1
  WRITE_BUDGET = 1
  Stoppable = {s1}
  Resettable = {s1}
  MayClose = TRUE
INVARIANTS
  WireIsBody
  InFlightAccounted
  WorkIsCovered
  AnswersAreTrue
  FinishedIsReclaimed
PROPERTIES
  WriteResolvesOrCollected
  FinalizedIsClosed
CHECK_DEADLOCK FALSE
