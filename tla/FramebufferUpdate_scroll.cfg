SPECIFICATION FairSpec
CONSTANTS
  c1 = c1
  c2 = c2
  Client = {c1, c2}
  Pixel <- ThreePixels
  Colour = {0, 1}
  Deltas <- ScrollBoth
  VideoAreas <- NoVideo
  Requests <- OnlyScreen
  CompareFB = TRUE
  VideoPriority = 0
  CanFreeze = FALSE
  MaxEvents = 3
INVARIANTS ClientBridged ComparesWithSeen NoStalePixel
PROPERTY Converges
