SPECIFICATION FairSpec
CONSTANTS
  Pixel <- ThreePixels
  Colour = {0, 1}
  Width = 2
  Deltas <- ScrollBoth
  Asked <- OnlyScreen
  MaxEvents = 3
INVARIANTS NoTrail ShownRight
PROPERTY CursorShown
CHECK_DEADLOCK FALSE
