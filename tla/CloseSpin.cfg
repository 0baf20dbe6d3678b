SPECIFICATION Spec
CONSTANTS
  Openers = {o1}
  First = o1
  BidiUsers = {}
  UniUsers = {o1}
  IsServer = TRUE
  OPEN_BUDGET = 1
  CMD_BUDGET = 1
  MaxBidi = 0
  MaxUni = 1
  MaxCloses = 1
INVARIANTS
  EofWaitsPending
CHECK_DEADLOCK FALSE
