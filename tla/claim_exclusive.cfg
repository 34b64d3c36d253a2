SPECIFICATION Spec
CONSTANTS
  v1 = v1
  v2 = v2
  NoCmd = NoCmd
  NoNode = NoNode
  NoVdev = NoVdev
  NoType = NoType
  Threads = {1, 2}
  SchedThread = 1
  Vdevs <- MCVdevs
  Nodes = {n1, n2, n3}
  Cmds <- BlockingCmds
  MaxVdevs = 2
  MaxPendingCmds = 4
  MaxVdevPending = 2
  TimerSlots = 2
  Cancels = {}
  Removals <- BlockingCmds
  Disables = {}
  Deletions = {}
  MaxLive = 1
  MaxWaiting = 1
  MaxMsgs = 0
  LossyTimers = FALSE
SYMMETRY NodeSymmetry
INVARIANTS
  BlockingExclusive
