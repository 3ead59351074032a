CONSTANTS
  StreamLen = 7
  MaxFrameLen = 2
  Fmts = {"a"}
  Streams <- MCStreams
  CompSize = 2
  StageSize = 5
  PcmSize = 6
  CursorMod = 12
  MaxPcm = 2
  PcmUnits = {2}
  Deep = 4
  HeadLen = 1
  CompMax = 2
  HeadMax = 1
  SyncMax = 1
  RxMax = 2
  Chunk = 1
  Prebuf = 3
  Target = 2
  Slack = 1
  Mounts = {"mount", "nohead", "noframe"}
  MayDie = TRUE
  MaxListens = 2
SPECIFICATION EngineSpec
INVARIANT DeadTaskGoesInline
CHECK_DEADLOCK FALSE
