\* Two slaves, of which one may die; the user may interrupt the master.
CONSTANTS
  m1 = m1
  m2 = m2
  s1 = s1
  s2 = s2
  g = g
  h = h
  NSlave = 2
  Strand <- Fan_Strand
  Home <- Fan_Home
  ProcStrand = {}
  Group = {g}
  GroupOf <- OneGroup_GroupOf
  SlaveGroup <- Fan_SlaveGroup
  Ntxn <- Ntxn_1
  NumBarrier = 1
  MaxWait = 0
  ErrorStats = TRUE
  CtrlC = TRUE
  MaxCrash = 1
SPECIFICATION Spec
INVARIANTS StatsAfterLastTxn
