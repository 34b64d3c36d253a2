SPECIFICATION Spec
CONSTANTS
  sysA = sysA
  sysB = sysB
  sysC = sysC
  a1 = a1
  a2 = a2
  b1 = b1
  Ports = {a1, a2}
  Systems = {sysA, sysB, sysC}
  SystemOf <- AloneSystem
  Peer <- NoPeers
  Short = {}
  Keys = {1}
  Duplex = {TRUE}
  Added = {TRUE}
  Ids = {x, y}
  Foreign <- ForeignPdus
  RateLimit = 1
  MaxNumber = 3
  MaxFaults = 1
  Faulty = {a1, a2}
  RunBound = 20
  NoPort = NoPort
  NoSystem = NoSystem
  NoId = NoId
  NoPdu = NoPdu
INVARIANTS
  MembersAgree
  OnePartner
  CarriedExactly
  ReadyExact
PROPERTIES
  OneBond
VIEW Unspoken
SYMMETRY Same
CHECK_DEADLOCK FALSE
