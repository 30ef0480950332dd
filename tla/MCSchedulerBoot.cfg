SPECIFICATION Spec
CONSTANTS
  N = 4
  Slice = 25
  Forced = 100
  MaxSleep = 10
  SurfaceThread = 2
  TtyThread = 4
INVARIANTS ThreadsStartLast
