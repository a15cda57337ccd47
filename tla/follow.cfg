\* One strand on the master, two on the slave, two transactions, no goodbyes.
CONSTANTS
  m1 = m1
  m2 = m2
  s1 = s1
  s2 = s2
  g = g
  h = h
  NSlave = 1
  Strand <- Follow_Strand
  Home <- Follow_Home
  ProcStrand = {}
  Group = {g}
  GroupOf <- OneGroup_GroupOf
  SlaveGroup <- OneGroup_SlaveGroup
  Ntxn <- Ntxn_2
  NumBarrier = 2
  MaxWait = 1
  ErrorStats = FALSE
  CtrlC = FALSE
  MaxCrash = 0
SPECIFICATION Spec
SYMMETRY Follow_Symmetry
INVARIANTS IInv BarrierSafety SlavesFollowMaster CountIsExact FailureStopsRun
PROPERTIES ImplementsLockStep
