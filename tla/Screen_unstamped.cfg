CONSTANTS
  TickMod = 12
  Boot = 9
  AckTicks = 1
  StarveTicks = 1
  DryTicks = 2
  FactStale = 1
  Second = 1
  Prebuf = 3
  Chunk = 2
  Tracks = {1, 2}
  Duration = 2
  DrawTicks = 1
  Base = 1
  Cap = 1
  Idle = 1
  Background = 1
  Media <- MCOnAir
  Devices = {"active"}
  Errors = {"failed"}
  MaxTime = 3
  MaxActs = 1
SPECIFICATION Spec
PROPERTIES ServedAgain
CHECK_DEADLOCK FALSE
