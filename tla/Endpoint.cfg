SPECIFICATION FairSpec
CONSTANTS
  Acceptors = {a1}
  Closers = {c1}
  Waiters = {w1}
  MaxConns = 2
  MAX_IN_FLIGHT_HANDSHAKES = 1
  NoFrame = NoFrame
  NoError = NoError
INVARIANTS
  LiveCountsWorkers
  DrainedIsFinal
  CloseReachesWorkers
PROPERTIES
  NoYieldAfterClose
  WaitIdleReturns
  AcceptEnds
CHECK_DEADLOCK FALSE
