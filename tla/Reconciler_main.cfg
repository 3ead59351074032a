CONSTANTS
  Tracks = {t1}
  Hits = {t2}
  NoTrack = NoTrack
  MaxTs = 2
  Lengths = {0, 2}
  MaxActs = 2
  MaxHosts = 2
  Gestures <- MCAll
SPECIFICATION FairSpec
INVARIANTS InFlightIsCurrent FallbackIsWhatWasClicked LaunchStartsOnce
PROPERTIES SnapNeverRollsBack OneEmptyIsNotBelieved SkipIsNeverDropped DebouncedIsSent
