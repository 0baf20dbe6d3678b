SPECIFICATION Spec
CONSTANTS

  Streams = {s1}
  Depth = 1
  MaxChunks = 3
  READ_BUDGET = 2
  CHUNK_BUDGET = 1
  READABLE_BUDGET = 2
  DISCOVERY_BUDGET = 2
  RECV_RESUME_BUDGET = 1
  CMD_BUDGET = 1
  PeerEnds = {"fin", "reset"}
  Leavers = {s1}
  MayClose = TRUE
  SeqCst = FALSE
INVARIANTS
  NeverParksWithFreeSlot
CHECK_DEADLOCK FALSE
