CONSTANTS
  TickMod = 14
  Boot = 11
  AckTicks = 1
  StarveTicks = 1
  DryTicks = 2
  FactStale = 1
  Second = 1
  Prebuf = 3
  Chunk = 2
  Tracks = {1, 2}
  Duration = 2
  DrawTicks = 1
  Base = 1
  Cap = 2
  Idle = 1
  Background = 2
  Media <- MCMedia
  Devices = {"active"}
  Errors = {"rate_limited", "failed"}
  MaxTime = 4
  MaxActs = 2
SPECIFICATION Spec
INVARIANTS ScreenIsTrue PollComesBack
PROPERTIES BarIsHonest
CHECK_DEADLOCK FALSE
