SPECIFICATION Spec
CONSTANTS
  CellCount = 2
  Glyphs = {65}
  Colors = {0, 1}
  Frames = 3
  Pixel <- MCPixel
  NULL = NULL
INVARIANTS
  TypeOK
  WhatIsSeenIsShown
  FramesShowTheCells
  WorkAddsUp
PROPERTIES
  MainReturns
