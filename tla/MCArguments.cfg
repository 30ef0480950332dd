SPECIFICATION Spec
CONSTANTS
  Lines <- MCLines
  Garbage <- MCGarbage
  MaxLines = 2
  Strings <- MCStrings
  Numbers <- MCNumbers
  Word = 256
  TmpSize = 4
  Smashed = Smashed
  MaxItems = 3
INVARIANTS WordsAreTheFields LsGetsItsPath HeapUntouched CommandsComputeLikeC
CHECK_DEADLOCK FALSE
