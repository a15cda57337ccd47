\* Three groups, whose slaves run on two hosts; two faults.
SPECIFICATION FairSpec
CONSTANTS
  h1 = h1
  h2 = h2
  NConn = 3
  NGroup = 3
  GroupOf <- ThreeGroups
  Host = {h1, h2}
  HostOf <- TwoHosts
  Suspect = {h1}
  MasterAccepts = {1, 2}
  SlaveAccepts = {2, 3}
  ProcGroup = {}
  MaxFault = 2
INVARIANTS TypeOK AgreedToRun ReadsMatchWrites PortsAreCurrent DaemonNeverBlocks
PROPERTIES HandshakeEnds
