SPECIFICATION FairSpec
CONSTANTS
  Results = {ok, stopped}
  Cancelled = Cancelled
  Empty = Empty
  Supersedes = TRUE
  MaxWrites = 3
INVARIANTS
  ReportsOwnOutcome
PROPERTIES
  WriteReported
CHECK_DEADLOCK FALSE
