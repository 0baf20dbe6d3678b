SPECIFICATION FairSpec
CONSTANTS
  Streams = {s1}
  Bidi = {s1}
  Sizes = {1}
  MaxWrites = 1
  InitCredit = 1
  MaxCredit = 2
  MAX_WRITE_CHUNK = 1
  CMD_BUDGET = 1
  WRITABLE_BUDGET = 1
  WRITE_BUDGET = 1
  Stoppable = {s1}
  Resettable = {}
  MayClose = FALSE
PROPERTIES
  WriteResolves
CHECK_DEADLOCK FALSE
