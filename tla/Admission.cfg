SPECIFICATION FairSpec
CONSTANTS
  Bidi = {b1, b2}
  Uni = {}
  ACCEPT_CAP = 1
  DISCOVERY_BUDGET = 2
  ADMIT_BUDGET = 1
  PROMOTE_BUDGET = 1
  CMD_BUDGET = 2
  WRITABLE_BUDGET = 2
  MayClose = TRUE
  LateStop = FALSE
INVARIANTS
  OnePlace
  StopKept
  NoLostAcceptResume
  TerminalIsLast
PROPERTIES
  InClassOrder
  StreamsSettle
CHECK_DEADLOCK FALSE
