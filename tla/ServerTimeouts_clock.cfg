SPECIFICATION Spec
CONSTANTS
  c1 = c1
  c2 = c2
  h1 = h1
  Modulus = 4
  Client = {c1, c2}
  Host = {h1}
  Peer <- OneHost
  Settings <- AllSettings
  MinAuth = 3
  Late = 2
  MaxWait = 2
  Start = 4
  Leaps <- FarBothWays
  MaxLeaps = 1
  MaxReal = 4
  MaxAttempts = 3
SYMMETRY Symmetry
INVARIANT InTime
PROPERTIES IdleNotEarly ExitJustified FailuresBarHost
CHECK_DEADLOCK FALSE
