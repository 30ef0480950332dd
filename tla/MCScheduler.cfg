SPECIFICATION FairSpec
CONSTANTS
  N = 4
  Slice = 5
  Forced = 10
  MaxSleep = 3
  SurfaceThread = 2
  TtyThread = 4
PROPERTIES NoStarvation SleepReturns RoundRobinSpec
INVARIANTS OwnStack SleeperHasCpu LockNeverLeaks InterruptsComeBack
