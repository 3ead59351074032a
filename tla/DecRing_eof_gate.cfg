CONSTANTS
  StreamLen = 10
  MaxFrameLen = 3
  Fmts = {"a", "b"}
  Streams <- MCStreams
  CompSize = 4
  StageSize = 7
  PcmSize = 4
  CursorMod = 8
  MaxPcm = 2
  PcmUnits = {1, 2}
  Deep = 6
SPECIFICATION Spec
PROPERTY OnlyTrueLastFrameUnconfirmed
CHECK_DEADLOCK FALSE
