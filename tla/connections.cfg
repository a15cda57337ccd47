\* Profiles of two transactions over one or two ids with TCP, and some with every protocol.
SPECIFICATION Spec
CONSTANTS
  Profiles <- AllProfiles
  MaxFlowop = 3
  NObject = 4
  NFile = 6
  CacheSize = 2
INVARIANTS TypeOK UsesLiveConnection PoolIsList CacheIsLive SocketsAreClosed
PROPERTIES ClosesItsOwn
