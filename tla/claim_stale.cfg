SPECIFICATION SyncSpec
CONSTANTS
  Conns = {c1}
  PacketCtx = {p1}
  NssCtx = {n1}
  UserCtx = {}
  TimerCtx = timer
  NoActionLimit = 1
  DriverFailLimit = 2
  NackLimit = 1
  AccelLimit = 1
  TxFails = FALSE
  MaxRegen = 1
  MaxNotes = 1
PROPERTIES
  StaleRuleEnds
CHECK_DEADLOCK FALSE
