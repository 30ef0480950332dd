SPECIFICATION FairInterruptsSpec
CONSTANTS
  N = 4
  Slice = 2
  Forced = 4
  MaxSleep = 1
  SurfaceThread = 2
  TtyThread = 4
  Devices = {1, 10, 14}
PROPERTIES LinesAnswered
