SPECIFICATION FairSpec
CONSTANTS

  Streams = {s1}
  Depth = 1
  MaxChunks = 4
  READ_BUDGET = 2
  CHUNK_BUDGET = 2
  READABLE_BUDGET = 2
  DISCOVERY_BUDGET = 2
  RECV_RESUME_BUDGET = 1
  CMD_BUDGET = 1
  PeerEnds = {"fin", "reset"}
  Leavers = {s1}
  MayClose = TRUE
  SeqCst = TRUE
INVARIANTS
  NothingLost
  NeverParksWithFreeSlot
PROPERTIES
  RefinesByteStream
  EndReached
  DroppedIsReleased
CHECK_DEADLOCK FALSE
