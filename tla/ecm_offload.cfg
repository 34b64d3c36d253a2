SPECIFICATION FairSpec
CONSTANTS
  Conns = {c1}
  PacketCtx = {p1}
  NssCtx = {n1}
  UserCtx = {u1}
  TimerCtx = timer
  NoActionLimit = 1
  DriverFailLimit = 2
  NackLimit = 2
  AccelLimit = 1
  TxFails = FALSE
  MaxRegen = 1
  MaxNotes = 1
INVARIANTS
  TypeOK
  AccelOwned
  DecelOwned
  RefsAccounted
  TimerDetached
  RuleTracked
  FlushConsumed
PROPERTIES
  FailIsFinal
  PendingEnds
  DecelActioned
CHECK_DEADLOCK FALSE
