CONSTANTS
  Impls = {"ot", "posix"}
  ReqLen = 2
  MaxReply = 4
  HiWat = 2
  Chunk = 2
  Deadline = 2
  Watchdog = 4
  Gap = 2
  TickMod = 8
  Boots = {0, 6}
SPECIFICATION FairSpec
INVARIANTS EndpointClosedOnce DeadlinesHold BufferBounded
PROPERTIES NoEarlyTimeout ImplementsTransaction PolledEnds StreamEndIsSeen
CHECK_DEADLOCK FALSE
