CONSTANTS
  HostCap = 4
  PathCap = 4
  Albums = {b1, b2}
  NoAlbum = NoAlbum
  Slots = 1
  MaxInFlight = 3
  PlsBodies <- MCPlsBodies
  MaxActs = 2
  MaxHosts = 2
SPECIFICATION FairSpec
INVARIANTS KeptIsOfThisServer StreamIsNotOverwritten
PROPERTIES KickIsServed
