CONSTANTS
  HostCap = 4
  PathCap = 4
  Queries = {"q1", "q2"}
  Artists <- MCArtists
  SearchReplies <- MCSearchReplies
  AlbumReplies <- MCAlbumReplies
  MaxActs = 5
SPECIFICATION Spec
INVARIANTS ClickHitsWhatIsShown
CHECK_DEADLOCK FALSE
