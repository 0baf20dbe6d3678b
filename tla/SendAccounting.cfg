SPECIFICATION FairSpec
CONSTANTS
  Streams = {s1, s2, s3}
  Cap = 2
  Sizes = {1, 3}
  MaxWrites = 1
INVARIANTS
  NothingLeaks
  OverCapIsOneUnit
  NoLostWake
PROPERTIES
  ParkedLeaves
CHECK_DEADLOCK FALSE
