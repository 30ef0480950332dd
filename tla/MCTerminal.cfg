SPECIFICATION Spec
CONSTANTS
  VGA_WIDTH = 4
  VGA_HEIGHT = 3
  TAB_WIDTH = 3
  BufferSize = 4
  PrintfSize = 5
  kMaxMessages = 3
  Letter = Letter
  Space = Space
  Tab = Tab
  NewLine = NewLine
  Return = Return
  Commands <- OneCommand
  Outputs <- ThreeOutputs
  NotFound <- Suffix
  PromptText <- TwoStrings
  MaxTyped = 5
  MaxOutput = 6
INVARIANTS CommandIsTheLine BuffersHoldShortLines GlyphsOnScreen ScrollsLostOnlyIfMany
PROPERTIES LinesGetParsed
