SPECIFICATION PacedSpec
CONSTANTS
  sysA = sysA
  sysB = sysB
  sysC = sysC
  a1 = a1
  a2 = a2
  b1 = b1
  Ports = {a1, b1}
  Systems = {sysA, sysB, sysC}
  SystemOf <- PairSystem
  Peer <- PairPeer
  Short = {a1, b1}
  Keys = {1}
  Duplex = {TRUE}
  Added = {TRUE}
  Ids = {x, y}
  Foreign <- NoForeignPdus
  RateLimit = 1
  MaxNumber = 2
  MaxFaults = 1
  Faulty = {a1}
  RunBound = 20
  NoPort = NoPort
  NoSystem = NoSystem
  NoId = NoId
  NoPdu = NoPdu
INVARIANTS
  TypeOK
  RunEnds
PROPERTIES
  BothCarry
  LossNoticed
CHECK_DEADLOCK FALSE
