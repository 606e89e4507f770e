SPECIFICATION FairSpec
CONSTANTS
  s1 = s1
  s2 = s2
  s3 = s3
  tabKey = tabKey
  ltabKey = ltabKey
  shiftKey = shiftKey
  NoSock = NoSock
  Tab = tabKey
  LeftTab = ltabKey
  ShiftL = shiftKey
  ShiftR = shiftKey
  Sock = {s1, s2, s3}
  Key = {tabKey, ltabKey, shiftKey}
  Remap <- AllTab
  FilterQuery = {s1, s2}
  Outgoing = {s3}
  AlwaysShared = FALSE
  NeverShared = TRUE
  DisconnectClients = FALSE
  QueryConnect = FALSE
  StartMayFail = TRUE
  StopClearsBuffer = FALSE
  StoppedTakesKeys = TRUE
  StartMayLackBuffer = TRUE
  Statuses = {}
INVARIANTS NeverSharedIsExclusive
PROPERTIES UnusedDesktopStops QueryEnds
