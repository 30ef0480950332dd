SPECIFICATION FairSpec
CONSTANTS
  BitmapPages = 16
  PageSize = 4
  Space = 128
  Word = 32
  DirSize = 9
  TableSize = 2
  Device = {100}
  KernelEnd = 2
  NoFrame = NoFrame
  Junk = Junk
  Maps <- Machines
  Garbage <- Leftovers
  kHeapStart = 8
  HeaderSize = 1
  Sizes = {0, 1, 3, 6}
  Screen = 0
  MaxCalls = 4
INVARIANTS BlocksDisjoint ClearsOnlyFresh ListComplete FramesExclusive RamIfRegular
PROPERTIES VmallocReturns MappingsStay
