SPECIFICATION FairSpec
CONSTANTS
  Callers = {tray, thread, other}
  Tray = tray
  Dialog = dialog
  MaxCalls = 2
INVARIANTS
  NoLostWakeup
PROPERTIES
  ServesCommands
  CallsReturn
  StopsUnlessCalling
CHECK_DEADLOCK FALSE
