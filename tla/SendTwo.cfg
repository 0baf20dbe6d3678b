SPECIFICATION FairSpec
CONSTANTS
  Streams = {s1, s2}
  Bidi = {}
  Sizes = {2}
  MaxWrites = 2
  InitCredit = 1
  MaxCredit = 8
  MAX_WRITE_CHUNK = 2
  CMD_BUDGET = 1
  WRITABLE_BUDGET = 1
  WRITE_BUDGET = 1
  Stoppable = {}
  Resettable = {}
  MayClose = FALSE
PROPERTIES
  WriteResolves
  HeldLeaves
CHECK_DEADLOCK FALSE
