SPECIFICATION FairSpec
CONSTANTS
  Size = 3
  Key = {a, NewLine, Backspace}
  NoKey = NoKey
  NewLine = NewLine
  MinusOne = MinusOne
  Backspace = Backspace
  MaxLoops = 2
  LineEnd = 4
  MaxKeys = 3
INVARIANTS SentAsTypedUnlessHit
PROPERTIES KeysGetThrough
