SPECIFICATION Spec
CONSTANTS
  Conns = {c1, c2}
  PacketCtx = {p1}
  NssCtx = {n1}
  UserCtx = {}
  TimerCtx = timer
  NoActionLimit = 1
  DriverFailLimit = 3
  NackLimit = 1
  AccelLimit = 1
  TxFails = TRUE
  MaxRegen = 1
  MaxNotes = 0
INVARIANTS
  CountsExact
  RulesLimited
PROPERTIES
  ImplementsOffload
CHECK_DEADLOCK FALSE
