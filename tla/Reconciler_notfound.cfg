CONSTANTS
  Tracks = {t1}
  Hits = {t2}
  NoTrack = NoTrack
  MaxTs = 1
  Lengths = {0, 2}
  MaxActs = 3
  MaxHosts = 1
  Gestures <- MCRows
SPECIFICATION Spec
INVARIANTS NotFoundIsOurs
