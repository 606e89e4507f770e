SPECIFICATION FairSpec
CONSTANTS
  c1 = c1
  c2 = c2
  Client = {c1}
  Pixel <- TwoPixels
  Colour = {0, 1}
  Deltas <- NoScroll
  VideoAreas <- LeftVideo
  Requests <- OnlyScreen
  CompareFB = TRUE
  VideoPriority = 2
  CanFreeze = TRUE
  MaxEvents = 3
PROPERTY NonVideoConverges
