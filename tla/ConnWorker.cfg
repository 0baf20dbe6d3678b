SPECIFICATION FairSpec
CONSTANTS
  Openers = {o1, o2}
  First = o1
  BidiUsers = {o1, o2}
  UniUsers = {}
  IsServer = FALSE
  OPEN_BUDGET = 1
  CMD_BUDGET = 2
  MaxBidi = 1
  MaxUni = 0
  MaxCloses = 2
INVARIANTS
  TellsTheCause
  FirstCloseWins
  IdsDense
  NoLeakedHalf
PROPERTIES
  OpenAnswered
  WindsDown
CHECK_DEADLOCK FALSE
