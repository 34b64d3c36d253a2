SPECIFICATION RetrySpec
CONSTANTS
  Conns = {c1}
  PacketCtx = {p1}
  NssCtx = {n1}
  UserCtx = {u1}
  TimerCtx = timer
  NoActionLimit = 1
  DriverFailLimit = 2
  NackLimit = 1
  AccelLimit = 1
  TxFails = FALSE
  MaxRegen = 0
  MaxNotes = 1
PROPERTIES
  DefunctRetried
CHECK_DEADLOCK FALSE
