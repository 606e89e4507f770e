SPECIFICATION StreamSpec
CONSTANTS
  deep = deep
  low = low
  Format = {deep, low}
  MaxWidth = 2
  Encodings <- Supported
  MaxEvents = 3
INVARIANTS FormatsAgree RectsFit StreamFramed NeverStarved
PROPERTY Converges
CHECK_DEADLOCK FALSE
