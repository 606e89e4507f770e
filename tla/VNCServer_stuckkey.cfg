SPECIFICATION Spec
CONSTANTS
  s1 = s1
  s2 = s2
  s3 = s3
  tabKey = tabKey
  ltabKey = ltabKey
  shiftKey = shiftKey
  NoSock = NoSock
  Tab = tabKey
  LeftTab = ltabKey
  ShiftL = shiftKey
  ShiftR = shiftKey
  Sock = {s1, s2}
  Key = {tabKey, ltabKey, shiftKey}
  Remap <- AllTab
  FilterQuery = {}
  Outgoing = {}
  AlwaysShared = FALSE
  NeverShared = FALSE
  DisconnectClients = TRUE
  QueryConnect = TRUE
  StartMayFail = FALSE
  StopClearsBuffer = TRUE
  StoppedTakesKeys = FALSE
  StartMayLackBuffer = FALSE
  Statuses = {}
INVARIANT NoStuckKey
