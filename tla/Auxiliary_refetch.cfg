CONSTANTS
  HostCap = 4
  PathCap = 4
  Albums = {b1}
  NoAlbum = NoAlbum
  Slots = 1
  MaxInFlight = 3
  PlsBodies <- MCPlsBodies
  MaxActs = 1
  MaxHosts = 1
SPECIFICATION Spec
PROPERTIES OneRefetchLater
