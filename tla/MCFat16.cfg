SPECIFICATION FairSpec
CONSTANTS
  MaxTime = 1
  Byte = 16
  Sector <- Sectors
  Identity <- IdentityRead
  Nothing <- NothingRead
  Volumes <- AllVolumes
  RootSector = 288
  EntrySize = 1
  EndOfChain = 12
  EndMark = 252
  Paths <- Listed
  ShortPaths <- OneLetter
  Beyond = {0, 5}
  Misread <- NoDirectories
  MisreadTables <- NoTables
  CatPath <- HomeOfJames
  CatFile = "login.profile"
  NoName = ""
  MaxCommands = 3
  MaxChain = 4
INVARIANTS ReadGetsItsSector   NoFaultOnceMounted
PROPERTIES CommandEnds
