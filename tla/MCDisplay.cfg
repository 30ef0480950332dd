SPECIFICATION FairSpec
CONSTANTS
  Height = 4
  Width = 1
  FontHeight = 2
  FontWidth = 1
  Above = 1
  Glyphs <- TwoGlyphs
  Columns = {0, 1}
  MaxRow = 2
  SizeField = 1
  Colour = {Ink, Blank}
  Blank = Blank
INVARIANTS CleanRowsShown StoresInside
PROPERTIES DrawnIsShown
