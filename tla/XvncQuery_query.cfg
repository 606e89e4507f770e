SPECIFICATION FairSpec
CONSTANTS
  Conns = {1, 2}
  Ids = {1, 2}
  Desktops = {1, 2}
  Configs = {1, 2}
  Timeouts = {0, 10}
  MaxExits = 1
INVARIANTS
  OneQuery
  AcceptedWasShown
PROPERTIES
  QueryEnds
  DialogsEnd
CHECK_DEADLOCK FALSE
